SPECIFICATION Spec
CONSTANTS
  Puller = {p1}
  PacketLength = 2
  FrameLength = {1, 2, 3}
  MaxFrames = 2
  MaxPending = 2
  MaxControl = 0
INVARIANTS
  FramesWhole
CHECK_DEADLOCK FALSE
