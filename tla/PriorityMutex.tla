--------------------------- MODULE PriorityMutex ---------------------------
(***************************************************************************)
(* What a preference lock promises: one thread is inside at a time, and a  *)
(* thread of low priority is admitted only when nobody else is waiting or  *)
(* inside, so whoever of high priority comes is overtaken by one thread of *)
(* low priority at most, the one that was admitted before.                 *)
(***************************************************************************)
CONSTANTS Low, High

VARIABLE phase   \* "away", "waiting", "inside" or "leaving", by thread

Thread == Low \cup High

Init == phase = [t \in Thread |-> "away"]

Moves(t, from, to) ==
  /\ phase[t] = from
  /\ phase' = [phase EXCEPT ![t] = to]

Register(h) == Moves(h, "away", "waiting")

Admit(l) ==
  /\ \A t \in Thread : phase[t] = "away"
  /\ Moves(l, "away", "waiting")

Enter(t) ==
  /\ \A u \in Thread : phase[u] # "inside"
  /\ Moves(t, "waiting", "inside")

Leave(t)  == Moves(t, "inside", "leaving")
Return(t) == Moves(t, "leaving", "away")

Next ==
  \/ \E h \in High : Register(h)
  \/ \E l \in Low : Admit(l)
  \/ \E t \in Thread : Enter(t) \/ Leave(t) \/ Return(t)

Spec == Init /\ [][Next]_phase
=============================================================================
