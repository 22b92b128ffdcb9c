SPECIFICATION FairSpec
CONSTANTS
  Puller = {p1, p2}
  PacketLength = 2
  FrameLength = {1, 3}
  MaxFrames = 2
  MaxPending = 2
  MaxControl = 1
INVARIANTS
  TypeOK
  FramesNotMixed
  OnePushThread
PROPERTIES
  CloseStopsPush
CHECK_DEADLOCK FALSE
