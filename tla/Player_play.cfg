SPECIFICATION FairSpec
CONSTANTS
  VideoPts = {0, 2, 4}
  AudioSize = {1, 4}
  Period = 2
  Threshold = 1
  MaxPackets = 4
INVARIANTS
  TypeOK
  AudioGapless
  VideoNotAhead
PROPERTIES
  PlaybackEnds
CHECK_DEADLOCK FALSE
