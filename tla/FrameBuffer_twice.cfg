SPECIFICATION Spec
CONSTANTS
  v1 = v1
  Video = {v1}
  Audio = Audio
  None = None
  MaxFrames = 2
  Length <- Lengths
  MaxConnected = 2
INVARIANTS
  FrameReady
CHECK_DEADLOCK FALSE
