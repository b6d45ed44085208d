----------------------------- MODULE MCTrickle -----------------------------
(***************************************************************************)
(* Trickle for TLC: the SFU finds a candidate that matches                 *)
(* restrictSFUAddress and one that does not, the peer finds two.           *)
(***************************************************************************)
EXTENDS Trickle

CONSTANTS s1, s2, c1, c2, p1

SfuCandidates  == {s1, s2}
PeerCandidates == {c1, c2}
AllowedOnes    == {s1}
=============================================================================
