SPECIFICATION Spec
CONSTANTS
  c1 = c1
  c2 = c2
  Conn = {c1, c2}
  Client = {c1, c2}
  ClientOf <- OneEach
  Tile = {1}
  NumQualities = 2
  Silent = {}
  Incoming <- VideoOfFirst
  Decisions <- SecondAboutFirst
  MaxDecisions = 1
  MaxFailures = 0
  Audio = Audio
  None = None
  Nil = Nil
PROPERTIES
  NoDoubleSend
CHECK_DEADLOCK FALSE
