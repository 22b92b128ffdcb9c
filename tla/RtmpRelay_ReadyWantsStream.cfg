SPECIFICATION Spec
CONSTANTS
  Client = {c1, c2}
  NULL = NULL
  MaxMeta = 0
SYMMETRY Symmetry
INVARIANTS
  ReadyWantsStream
