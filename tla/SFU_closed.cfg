SPECIFICATION FairSpec
CONSTANTS
  c1 = c1
  c2 = c2
  Conn = {c1, c2}
  Client = {c1, c2}
  ClientOf <- OneEach
  Tile = {1}
  NumQualities = 1
  Silent = {}
  Incoming <- NoTracks
  Decisions <- NoDecisions
  MaxDecisions = 0
  MaxFailures = 1
  Audio = Audio
  None = None
  Nil = Nil
PROPERTIES
  ClosedIsRemoved
CHECK_DEADLOCK FALSE
