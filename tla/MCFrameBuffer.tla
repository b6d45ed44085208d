--------------------------- MODULE MCFrameBuffer ---------------------------
(***************************************************************************)
(* Small instances of the frame buffer for TLC.                            *)
(***************************************************************************)
EXTENDS FrameBuffer

CONSTANT v1

\* The first frame needs two datagrams, and one that overtakes it is whole
\* with one.
Lengths == [f \in Frame |-> IF f = 1 THEN 2 ELSE 1]
=============================================================================
