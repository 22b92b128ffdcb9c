SPECIFICATION FairSpec
CONSTANTS
  a = a
  b = b
  Connection = {a, b}
  Fd = {1, 2, 3, 4, 5, 6, 7}
  Script <- MCScript
  Leaked = {0, 5}
  MissingFile = {b}
  MaxPackets = 1
  MaxShort = 1
INVARIANTS
  TypeOK
  
  AnswersInOrder
  PacketsWhole
  SessionEndsForCause
  DescriptorsReturned
PROPERTIES
  EveryRequestAnswered
  GoneClientNoticed
CHECK_DEADLOCK FALSE
