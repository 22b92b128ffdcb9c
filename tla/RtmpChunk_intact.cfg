SPECIFICATION FairSpec
CONSTANTS
  Channel = {k1, k2}
  Endpoint = {1}
  MediaLen = {1, 3}
  ChunkLen = {1}
  DefaultChunkLen = 2
  Delta = {1}
  MaxMessages = 3
  MaxInFlight = 2
INVARIANTS
  TypeOK
  MessagesIntact
  TimestampsExact
PROPERTIES
  ImplementsChannel
CHECK_DEADLOCK FALSE
