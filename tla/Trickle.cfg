SPECIFICATION FairSpec
CONSTANTS
  s1 = s1
  s2 = s2
  c1 = c1
  c2 = c2
  p1 = p1
  SfuCandidate <- SfuCandidates
  PeerCandidate <- PeerCandidates
  Allowed <- AllowedOnes
  Peer = p1
  MaxCalls = 2
  MayLeave = TRUE
INVARIANTS
  TypeOK
  
  
PROPERTIES
  IsOfferAnswer
  
  
CHECK_DEADLOCK FALSE
