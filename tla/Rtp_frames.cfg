SPECIFICATION Spec
CONSTANTS
  Frame <- MCFrame
  Codec = {"h264", "aac", "raw"}
  MAX_RTP_BODY_LENGTH = 2
  TimestampModulus = 17
  timestamp_increse = 4
  LOOPTIMESTAMPCORNER = 8
  Joined = {0, 3}
  MaxFrames = 3
  MaxInFlight = 2
  MaxFaults = 1
  OtherTimestamp = {4, 16}
  MaxOthers = 1
INVARIANTS
  TypeOK
  PacketsCarryFrame
  FragmentsOfOneFrame
  LossOnlyCuts
  WholeFramesDelivered
CHECK_DEADLOCK FALSE
