SPECIFICATION Spec
CONSTANTS
  c1 = c1
  c2 = c2
  Conn = {c1, c2}
  Client = {c1, c2}
  ClientOf <- SameClient
  Tile = {1}
  NumQualities = 1
  Silent = {}
  Incoming <- AudioOfBoth
  Decisions <- NoDecisions
  MaxDecisions = 0
  MaxFailures = 1
  Audio = Audio
  None = None
  Nil = Nil
INVARIANTS
  ForwardedIsPublished
CHECK_DEADLOCK FALSE
