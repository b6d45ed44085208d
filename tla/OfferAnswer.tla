---------------------------- MODULE OfferAnswer ----------------------------
(***************************************************************************)
(* Abstract specification of the exchange of descriptions between the SFU  *)
(* and its clients, sfu/main.go 295-313 and 704-711, peer/main.go 460-483: *)
(* on each connection the SFU offers, the client answers, and the SFU      *)
(* accepts the answer before it offers again.  Either side may end it.     *)
(*                                                                         *)
(* Both SFU, where offers come from many goroutines, and Trickle, where    *)
(* candidates travel between the descriptions, implement it.               *)
(***************************************************************************)
CONSTANT Conn

VARIABLE exchange   \* "none", "offered", "answered" or "over", by connection

Init == exchange = [c \in Conn |-> "none"]

Moves(c, from, to) ==
  /\ exchange[c] = from
  /\ exchange' = [exchange EXCEPT ![c] = to]

Offer(c)  == Moves(c, "none", "offered")
Answer(c) == Moves(c, "offered", "answered")
Accept(c) == Moves(c, "answered", "none")
End(c)    == exchange' = [exchange EXCEPT ![c] = "over"]

Next == \E c \in Conn : Offer(c) \/ Answer(c) \/ Accept(c) \/ End(c)

Spec == Init /\ [][Next]_exchange
=============================================================================
