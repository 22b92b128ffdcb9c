SPECIFICATION FairSpec
CONSTANTS
  Puller = {p1}
  PacketLength = 2
  FrameLength = {1}
  MaxFrames = 1
  MaxPending = 2
  MaxControl = 0
PROPERTIES
  LoopReturns
CHECK_DEADLOCK FALSE
