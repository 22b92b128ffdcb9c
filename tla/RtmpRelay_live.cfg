SPECIFICATION FairSpec
CONSTANTS
  Client = {c1, c2}
  NULL = NULL
  MaxMeta = 0
PROPERTIES
  GoneIsReaped
