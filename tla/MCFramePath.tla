---------------------------- MODULE MCFramePath ----------------------------
(***************************************************************************)
(* A small instance of the path of frames for TLC, and the loop of Payload *)
(* against what it is said to compute.                                     *)
(***************************************************************************)
EXTENDS FramePath, TLC

CONSTANTS q1, q2

\* One frame is cut in two and ends in a short packet, the other is one
\* full packet.
Lengths == <<3, 2>>

Symmetry == Permutations(Quality)

\* All small sizes, and the sizes of the program around their multiples.
ASSUME PayloadLoopCuts ==
  /\ \A size \in 1..5, len \in 0..17 : PayloadLoop(size, len) = Cut(size, len)
  /\ \A size \in {VideoPayloadSize, AudioPayloadSize}, n \in 1..4, d \in -1..1 :
       PayloadLoop(size, n * size + d) = Cut(size, n * size + d)
=============================================================================
