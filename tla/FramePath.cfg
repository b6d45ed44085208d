SPECIFICATION Spec
CONSTANTS
  q1 = q1
  q2 = q2
  Quality = {q1, q2}
  MaxFrames = 2
  Length <- Lengths
  PayloadSize = 2
  SeqMod = 4
  MaxSwitches = 3
  Nil = Nil
  None = None
SYMMETRY Symmetry
INVARIANTS
  TypeOK
  NumbersInOrder
  WholeWhenCounted
  CompleteIsWhole
CHECK_DEADLOCK FALSE
