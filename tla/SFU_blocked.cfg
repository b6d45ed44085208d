SPECIFICATION FairSpec
CONSTANTS
  c1 = c1
  c2 = c2
  Conn = {c1}
  Client = {c1, c2}
  ClientOf <- OneEach
  Tile = {1}
  NumQualities = 1
  Silent = {}
  Incoming <- BothOfFirst
  Decisions <- FirstAboutSecond
  MaxDecisions = 1
  MaxFailures = 1
  Audio = Audio
  None = None
  Nil = Nil
PROPERTIES
  RemoveTrackNotBlocked
CHECK_DEADLOCK FALSE
