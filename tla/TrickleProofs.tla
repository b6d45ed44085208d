--------------------------- MODULE TrickleProofs ---------------------------
(***************************************************************************)
(* No candidate of the peer is dropped, and the descriptions stay in step, *)
(* for any candidates and any number of calls of signalPeerConnections.    *)
(***************************************************************************)
EXTENDS Trickle, SequenceTheorems, TLAPS

\* Where messages of a type are.
Places(messages, type) == {i \in DOMAIN messages : messages[i].type = type}

\* The handler makes its attempt before it reads.
HandlerInv == attempt = "handler" => handler = "signal"

\* What is on its way between an offer and its answer is in one place.
Outstanding ==
  /\ attempt # "none" =>
       Places(down, "offer") = {} /\ peerAt # "answering" /\ Places(up, "answer") = {}
  /\ Places(down, "offer") # {} => peerAt # "answering" /\ Places(up, "answer") = {}
  /\ peerAt = "answering" => Places(up, "answer") = {}
  /\ \A i, j \in Places(down, "offer") : i = j
  /\ \A i, j \in Places(up, "answer") : i = j

\* And nothing is when no answer is awaited.
NothingWhenStable ==
  signaling = "stable" =>
    /\ attempt = "none"
    /\ Places(down, "offer") = {}
    /\ peerAt # "answering"
    /\ Places(up, "answer") = {}

ExchangeInv == HandlerInv /\ (peerAt # "gone" => Outstanding /\ NothingWhenStable)
-----------------------------------------------------------------------------
(***************************************************************************)
(* Messages in a sequence.                                                 *)
(***************************************************************************)
LEMMA AppendPlaces ==
  ASSUME NEW S, NEW s \in Seq(S), NEW m \in S, NEW type
  PROVE  Places(Append(s, m), type) =
           Places(s, type) \cup {i \in {Len(s) + 1} : m.type = type}
  BY DEF Places

LEMMA TailPlaces ==
  ASSUME NEW S, NEW s \in Seq(S), s # << >>, NEW type
  PROVE  \A i : i \in Places(Tail(s), type) <=> i \in Nat \ {0} /\ i + 1 \in Places(s, type)
<1>1. /\ Len(Tail(s)) = Len(s) - 1
      /\ Tail(s) \in Seq(S)
      /\ \A i \in 1..Len(Tail(s)) : Tail(s)[i] = s[i + 1]
  OBVIOUS
<1>2. DOMAIN s = 1..Len(s) /\ DOMAIN Tail(s) = 1..Len(Tail(s)) /\ Len(s) \in Nat
  BY <1>1
<1>3. QED BY <1>1, <1>2 DEF Places

LEMMA HeadPlace ==
  ASSUME NEW S, NEW s \in Seq(S), s # << >>, NEW type
  PROVE  1 \in Places(s, type) <=> Head(s).type = type
  BY DEF Places
-----------------------------------------------------------------------------
LEMMA InitType == Init => TypeOK
<1> SUFFICES ASSUME Init PROVE TypeOK
  OBVIOUS
<1>1. /\ callsLeft \in 0..MaxCalls
      /\ calls \in Nat
  BY TrickleAssumption DEF Init
<1>2. remote \in BOOLEAN /\ peerRemote \in BOOLEAN /\ crashed \in BOOLEAN
  BY DEF Init
<1>3. down \in Seq(Message(SfuCandidate)) /\ up \in Seq(Message(PeerCandidate))
  BY DEF Init
<1>4. QED BY <1>1, <1>2, <1>3 DEF Init, TypeOK

LEMMA SfuType == ASSUME TypeOK, SfuStep \/ OtherCalls PROVE TypeOK'
<1>1. CASE List
  BY <1>1 DEF TypeOK, List, attempts, sfuIce, gatherer, peer
<1>2. CASE RegisterCallback
  BY <1>2 DEF TypeOK, RegisterCallback, attempts, sfuIce, gatherer, peer
<1>3. CASE OtherCalls
  BY <1>3, TrickleAssumption DEF TypeOK, OtherCalls, sfuIce, gatherer, peer
<1>4. ASSUME NEW caller \in {"handler", "other"}, MakeOffer(caller) PROVE TypeOK'
  BY <1>4 DEF TypeOK, MakeOffer, CallsWithout, Caller, sfuIce, gatherer, peer
<1>5. ASSUME NEW caller \in {"handler", "other"}, OfferFails(caller) PROVE TypeOK'
  BY <1>5 DEF TypeOK, OfferFails, WithRetry, CallsWithout, Caller, sfuIce, gatherer, peer
<1>6. CASE WriteOffer
  <2>1. Description("offer", offer) \in Message(SfuCandidate)
    BY DEF Description, Message, TypeOK
  <2>2. down' \in Seq(Message(SfuCandidate))
    BY <1>6, <2>1 DEF WriteOffer, TypeOK
  <2>3. QED BY <1>6, <2>2 DEF TypeOK, WriteOffer, sfuIce, gatherer, peer
<1>7. CASE HandleAnswer
  <2>1. Head(up) \in Message(PeerCandidate) /\ up' \in Seq(Message(PeerCandidate))
    BY <1>7 DEF HandleAnswer, Reads, TypeOK
  <2>2. known' \subseteq PeerCandidate
    BY <1>7, <2>1 DEF HandleAnswer, WithAnswer, Message, TypeOK
  <2>3. QED BY <1>7, <2>1, <2>2 DEF TypeOK, HandleAnswer, gatherer, peer
<1>8. CASE HandleCandidate
  <2>1. Head(up) \in Message(PeerCandidate) /\ up' \in Seq(Message(PeerCandidate))
    BY <1>8 DEF HandleCandidate, Reads, TypeOK
  <2>2. known' \subseteq PeerCandidate /\ pending' \subseteq PeerCandidate
    BY <1>8, <2>1 DEF HandleCandidate, KeepsEarly, Message, TypeOK
  <2>3. QED BY <1>8, <2>1, <2>2 DEF TypeOK, HandleCandidate, attempts, gatherer, peer
<1>9. CASE HandlerReturns
  BY <1>9 DEF TypeOK, HandlerReturns, attempts, sfuIce, gatherer, peer
<1>10. QED BY <1>1, <1>2, <1>3, <1>4, <1>5, <1>6, <1>7, <1>8, <1>9 DEF SfuStep

LEMMA GathererType == ASSUME TypeOK, SfuGatherer PROVE TypeOK'
<1> PICK c \in SfuCandidate : Gather(c) \/ Notify(c) \/ NotifyPanics(c)
  BY DEF SfuGatherer
<1>1. CASE Gather(c)
  BY <1>1 DEF TypeOK, Gather, attempts, sfuIce, peer
<1>2. CASE Notify(c)
  <2>1. Trickled(c) \in Message(SfuCandidate)
    BY DEF Trickled, Message
  <2>2. down' \in Seq(Message(SfuCandidate))
    BY <1>2, <2>1 DEF Notify, TypeOK
  <2>3. QED BY <1>2, <2>2 DEF TypeOK, Notify, attempts, sfuIce, peer
<1>3. CASE NotifyPanics(c)
  BY <1>3 DEF TypeOK, NotifyPanics, attempts, sfuIce, gatherer, peer
<1>4. QED BY <1>1, <1>2, <1>3

LEMMA PeerType == ASSUME TypeOK, PeerStep \/ PeerGatherer \/ ClientLeaves PROVE TypeOK'
<1>1. CASE PeerHandleOffer
  <2>1. Head(down) \in Message(SfuCandidate) /\ down' \in Seq(Message(SfuCandidate))
    BY <1>1 DEF PeerHandleOffer, PeerReads, TypeOK
  <2>2. peerKnown' \subseteq SfuCandidate
    BY <1>1, <2>1 DEF PeerHandleOffer, Message, TypeOK
  <2>3. QED BY <1>1, <2>1, <2>2 DEF TypeOK, PeerHandleOffer, attempts, sfuIce, gatherer
<1>2. CASE PeerSendAnswer
  <2>1. Description("answer", answer) \in Message(PeerCandidate)
    BY DEF Description, Message, TypeOK
  <2>2. up' \in Seq(Message(PeerCandidate))
    BY <1>2, <2>1 DEF PeerSendAnswer, TypeOK
  <2>3. QED BY <1>2, <2>2 DEF TypeOK, PeerSendAnswer, attempts, sfuIce, gatherer
<1>3. CASE PeerHandleCandidate
  <2>1. Head(down) \in Message(SfuCandidate) /\ down' \in Seq(Message(SfuCandidate))
    BY <1>3 DEF PeerHandleCandidate, PeerReads, TypeOK
  <2>2. peerKnown' \subseteq SfuCandidate /\ peerPending' \subseteq SfuCandidate
    BY <1>3, <2>1 DEF PeerHandleCandidate, Message, TypeOK
  <2>3. QED BY <1>3, <2>1, <2>2 DEF TypeOK, PeerHandleCandidate, attempts, sfuIce, gatherer
<1>4. ASSUME NEW c \in PeerCandidate, PeerGather(c) PROVE TypeOK'
  <2>1. Trickled(c) \in Message(PeerCandidate)
    BY DEF Trickled, Message
  <2>2. up' \in Seq(Message(PeerCandidate))
    BY <1>4, <2>1 DEF PeerGather, TypeOK
  <2>3. QED BY <1>4, <2>2 DEF TypeOK, PeerGather, attempts, sfuIce, gatherer
<1>5. CASE ClientLeaves
  <2>1. down' \in Seq(Message(SfuCandidate))
    BY <1>5 DEF ClientLeaves
  <2>2. QED BY <1>5, <2>1 DEF TypeOK, ClientLeaves, attempts, sfuIce, gatherer
<1>6. QED BY <1>1, <1>2, <1>3, <1>4, <1>5 DEF PeerStep, PeerGatherer

(***************************************************************************)
(* Types: what comes from one side is kept as candidates of that side      *)
(* (sfu/main.go:712-724, peer/main.go:511-524).                            *)
(***************************************************************************)
THEOREM TypeCorrect == Spec => []TypeOK
<1>1. TypeOK /\ [Next]_vars => TypeOK'
  <2>1. ASSUME TypeOK, UNCHANGED vars PROVE TypeOK'
    BY <2>1 DEF vars, TypeOK, attempts, sfuIce, gatherer, peer
  <2>2. QED BY <2>1, SfuType, GathererType, PeerType DEF Next
<1>2. QED BY <1>1, InitType, PTL DEF Spec
-----------------------------------------------------------------------------
(***************************************************************************)
(* The candidates of the peer.                                             *)
(***************************************************************************)
Carries(messages, c) == \E i \in DOMAIN messages : c \in messages[i].candidates

LEMMA AppendCarries ==
  ASSUME NEW S, NEW s \in Seq(S), NEW m \in S, NEW c
  PROVE  Carries(Append(s, m), c) <=> Carries(s, c) \/ c \in m.candidates
<1>1. /\ DOMAIN s = 1..Len(s) /\ Len(s) \in Nat
      /\ DOMAIN Append(s, m) = 1..(Len(s) + 1)
      /\ \A i \in 1..Len(s) : Append(s, m)[i] = s[i]
      /\ Append(s, m)[Len(s) + 1] = m
  OBVIOUS
<1>2. QED BY <1>1 DEF Carries

LEMMA TailCarries ==
  ASSUME NEW S, NEW s \in Seq(S), s # << >>, NEW c, Carries(s, c)
  PROVE  c \in Head(s).candidates \/ Carries(Tail(s), c)
<1>1. /\ DOMAIN s = 1..Len(s) /\ Len(s) \in Nat
      /\ DOMAIN Tail(s) = 1..(Len(s) - 1)
      /\ \A i \in 1..(Len(s) - 1) : Tail(s)[i] = s[i + 1]
      /\ Head(s) = s[1]
  OBVIOUS
<1>2. PICK i \in 1..Len(s) : c \in s[i].candidates
  BY <1>1 DEF Carries
<1>3. CASE i = 1
  BY <1>1, <1>2, <1>3
<1>4. CASE i # 1
  <2>1. i - 1 \in 1..(Len(s) - 1) /\ Tail(s)[i - 1] = s[i]
    BY <1>1, <1>4
  <2>2. QED BY <1>1, <1>2, <2>1 DEF Carries
<1>5. QED BY <1>3, <1>4

LEMMA UnderWayAppend ==
  ASSUME TypeOK, NEW m \in Message(PeerCandidate), up' = Append(up, m)
  PROVE  /\ \A c : UnderWay(c) => UnderWay(c)'
         /\ \A c \in m.candidates : UnderWay(c)'
BY AppendCarries DEF TypeOK, UnderWay, Carries

LEMMA UnderWayTail ==
  ASSUME TypeOK, up # << >>, up' = Tail(up), NEW c, UnderWay(c)
  PROVE  c \in Head(up).candidates \/ UnderWay(c)'
BY TailCarries DEF TypeOK, UnderWay, Carries

LEMMA StepKeepsCandidates ==
  ASSUME TypeOK, PeerCandidateKept, [Next]_vars
  PROVE  PeerCandidateKept'
<1>1. CASE UNCHANGED <<up, known, pending, remote, peerGathered>>
  BY <1>1 DEF PeerCandidateKept, UnderWay
<1>2. CASE HandleAnswer
  <2>1. /\ up # << >> /\ up' = Tail(up)
        /\ known' = known \cup Head(up).candidates \cup pending
        /\ UNCHANGED peerGathered
    BY <1>2 DEF HandleAnswer, Reads, WithAnswer, peer
  <2>2. QED BY <2>1, UnderWayTail DEF PeerCandidateKept
<1>3. CASE HandleCandidate
  <2>1. /\ up # << >> /\ up' = Tail(up)
        /\ \/ remote /\ known' = known \cup Head(up).candidates /\ pending' = pending
           \/ ~remote /\ pending' = pending \cup Head(up).candidates /\ known' = known
        /\ UNCHANGED <<remote, peerGathered>>
    BY <1>3 DEF HandleCandidate, Reads, KeepsEarly, peer
  <2>2. QED BY <2>1, UnderWayTail DEF PeerCandidateKept
<1>4. CASE PeerSendAnswer
  <2>1. Description("answer", answer) \in Message(PeerCandidate)
    BY DEF Description, Message, TypeOK
  <2>2. /\ up' = Append(up, Description("answer", answer))
        /\ UNCHANGED <<known, pending, remote, peerGathered>>
    BY <1>4 DEF PeerSendAnswer, sfuIce
  <2>3. QED BY <2>1, <2>2, UnderWayAppend DEF PeerCandidateKept
<1>5. ASSUME NEW c \in PeerCandidate, PeerGather(c) PROVE PeerCandidateKept'
  <2>1. Trickled(c) \in Message(PeerCandidate) /\ c \in Trickled(c).candidates
    BY DEF Trickled, Message
  <2>2. /\ up' = Append(up, Trickled(c))
        /\ peerGathered' = peerGathered \cup {c}
        /\ UNCHANGED <<known, pending, remote>>
    BY <1>5 DEF PeerGather, sfuIce
  <2>3. QED BY <2>1, <2>2, UnderWayAppend DEF PeerCandidateKept
<1>6. CASE UNCHANGED vars
  BY <1>1, <1>6 DEF vars, sfuIce, peer
<1>7. CASE SfuStep
  BY <1>1, <1>2, <1>3, <1>7
  DEF SfuStep, List, RegisterCallback, MakeOffer, OfferFails, WriteOffer, HandlerReturns,
      HandleAnswer, sfuIce, peer
<1>8. CASE SfuGatherer \/ OtherCalls
  BY <1>1, <1>8 DEF SfuGatherer, Gather, Notify, NotifyPanics, OtherCalls, sfuIce, peer
<1>9. CASE PeerStep
  BY <1>1, <1>4, <1>9 DEF PeerStep, PeerHandleOffer, PeerHandleCandidate, sfuIce
<1>10. CASE PeerGatherer \/ ClientLeaves
  BY <1>1, <1>5, <1>10 DEF PeerGatherer, ClientLeaves, sfuIce
<1>11. QED BY <1>6, <1>7, <1>8, <1>9, <1>10 DEF Next

(***************************************************************************)
(* No candidate of the peer is dropped, whether it overtakes the answer or *)
(* not (sfu/main.go:712-724).                                              *)
(***************************************************************************)
THEOREM PeerCandidateKeptHolds == Spec => []PeerCandidateKept
<1>1. Init => PeerCandidateKept
  BY DEF Init, PeerCandidateKept
<1>2. QED BY <1>1, StepKeepsCandidates, TypeCorrect, PTL DEF Spec
-----------------------------------------------------------------------------
(***************************************************************************)
(* The candidates of the SFU.                                              *)
(***************************************************************************)

\* Nothing happens on a connection before it is listed, and its handler
\* returns when the client has gone.
ListedInv ==
  /\ handler = "start" =>
       calls = 0 /\ signaling = "stable" /\ ~remote /\ gathered = {}
  /\ handler = "done" => peerAt = "gone"

LEMMA StepListed ==
  ASSUME TypeOK, ListedInv, [Next]_vars
  PROVE  ListedInv'
<1> USE DEF ListedInv
<1>1. CASE UNCHANGED vars
  BY <1>1 DEF vars, attempts, sfuIce, gatherer, peer
<1>2. CASE List \/ RegisterCallback \/ OtherCalls
  BY <1>2 DEF List, RegisterCallback, OtherCalls, attempts, sfuIce, gatherer, peer
<1>3. ASSUME NEW caller \in {"handler", "other"}, MakeOffer(caller) \/ OfferFails(caller)
      PROVE  ListedInv'
  <2>1. handler # "start"
    BY <1>3 DEF MakeOffer, OfferFails, Caller
  <2>2. handler # "done"
    BY <1>3 DEF MakeOffer, OfferFails, Open
  <2>3. handler' = handler \/ handler' = "reading"
    BY <1>3 DEF MakeOffer, OfferFails
  <2>4. QED BY <2>1, <2>2, <2>3
<1>4. CASE WriteOffer
  BY <1>4 DEF WriteOffer, sfuIce, gatherer, peer
<1>5. CASE HandleAnswer \/ HandleCandidate
  BY <1>5 DEF HandleAnswer, HandleCandidate, Reads
<1>6. CASE HandlerReturns
  BY <1>6 DEF HandlerReturns, peer
<1>7. CASE SfuGatherer
  <2> PICK c \in SfuCandidate : Gather(c) \/ Notify(c) \/ NotifyPanics(c)
    BY <1>7 DEF SfuGatherer
  <2>1. CASE Gather(c)
    BY <2>1 DEF Gather, Gathering, attempts, sfuIce, peer
  <2>2. CASE Notify(c) \/ NotifyPanics(c)
    BY <2>2 DEF Notify, NotifyPanics, attempts, sfuIce, gatherer, peer
  <2>3. QED BY <2>1, <2>2
<1>8. CASE PeerStep \/ PeerGatherer \/ ClientLeaves
  BY <1>8 DEF PeerStep, PeerHandleOffer, PeerSendAnswer, PeerHandleCandidate, PeerReads,
     PeerGatherer, PeerGather, ClientLeaves, attempts, sfuIce, gatherer
<1>9. QED BY <1>1, <1>2, <1>3, <1>4, <1>5, <1>6, <1>7, <1>8 DEF Next, SfuStep

\* Where the message of a step keeps what was on its way.
LEMMA DownAppend ==
  ASSUME TypeOK, NEW m \in Message(SfuCandidate), down' = Append(down, m), NEW c
  PROVE  Carries(down', c) <=> Carries(down, c) \/ c \in m.candidates
BY AppendCarries DEF TypeOK

LEMMA DownTail ==
  ASSUME TypeOK, down # << >>, down' = Tail(down), NEW c, Carries(down, c)
  PROVE  c \in Head(down).candidates \/ Carries(down', c)
BY TailCarries DEF TypeOK

Safe(c) ==
  \/ c \notin notified
  \/ c \in offer \/ Carries(down, c)
  \/ c \in peerKnown \cup peerPending
  \/ OfferToCome

LEMMA KeptIsSafe ==
  SfuCandidateKept <=> (peerAt # "gone" => \A c \in Allowed \cap gathered : Safe(c))
BY DEF SfuCandidateKept, OnItsWayDown, Safe, Carries

\* A client that has gone does not come back.
LEMMA PeerStays ==
  ASSUME [Next]_vars, peerAt = "gone"
  PROVE  peerAt' = "gone"
BY DEF Next, SfuStep, List, RegisterCallback, MakeOffer, OfferFails, WriteOffer, HandleAnswer,
   HandleCandidate, HandlerReturns, SfuGatherer, Gather, Notify, NotifyPanics, OtherCalls,
   PeerStep, PeerHandleOffer, PeerSendAnswer, PeerHandleCandidate, PeerReads, PeerGatherer,
   PeerGather, ClientLeaves, peer, vars

\* The callback runs for what had been gathered before.
LEMMA NotifiedWasGathered ==
  ASSUME TypeOK, [Next]_vars
  PROVE  notified' \subseteq gathered
BY DEF TypeOK, Next, SfuStep, List, RegisterCallback, MakeOffer, OfferFails, WriteOffer,
   HandleAnswer, HandleCandidate, HandlerReturns, SfuGatherer, Gather, Notify, NotifyPanics,
   OtherCalls, PeerStep, PeerHandleOffer, PeerSendAnswer, PeerHandleCandidate, PeerGatherer,
   PeerGather, ClientLeaves, gatherer, vars

LEMMA StepKeepsSfuCandidate ==
  ASSUME TypeOK, ListedInv, HandlerInv, [Next]_vars, NEW c \in Allowed,
         peerAt # "gone", peerAt' # "gone", c \in gathered, Safe(c)
  PROVE  Safe(c)'
<1> USE DEF Safe, OfferToCome
<1>1. CASE UNCHANGED <<notified, offer, down, peerKnown, peerPending, handler, attempt, calls>>
  BY <1>1
<1>2. CASE List \/ RegisterCallback
  BY <1>2 DEF List, RegisterCallback, HandlerInv, ListedInv, attempts, gatherer, peer
<1>3. CASE OtherCalls
  <2>1. calls' > 0
    BY <1>3 DEF OtherCalls, TypeOK
  <2>2. QED BY <2>1
<1>4. ASSUME NEW caller \in {"handler", "other"}, MakeOffer(caller) PROVE Safe(c)'
  <2>1. c \in offer'
    BY <1>4 DEF MakeOffer
  <2>2. QED BY <2>1
<1>5. ASSUME NEW caller \in {"handler", "other"}, OfferFails(caller) PROVE Safe(c)'
  <2>1. calls' > 0
    BY <1>5 DEF OfferFails, WithRetry, CallsWithout, Caller, TypeOK
  <2>2. QED BY <2>1
<1>6. CASE WriteOffer
  <2> DEFINE message == Description("offer", offer)
  <2>1. message \in Message(SfuCandidate) /\ message.candidates = offer
    BY DEF Description, Message, TypeOK
  <2>2. /\ attempt # "none" /\ attempt' = "none"
        /\ down' = Append(down, message)
        /\ handler' = IF attempt = "handler" THEN "reading" ELSE handler
        /\ UNCHANGED <<calls, notified, peerKnown, peerPending>>
    BY <1>6 DEF WriteOffer, gatherer, peer
  <2> HIDE DEF message
  <2>3. Carries(down', c) <=> Carries(down, c) \/ c \in offer
    BY <2>1, <2>2, DownAppend
  <2>4. OfferToCome => OfferToCome'
    BY <2>2 DEF HandlerInv
  <2>5. c \notin notified => Safe(c)'
    BY <2>2
  <2>6. c \in offer \/ Carries(down, c) => Safe(c)'
    BY <2>3
  <2>7. c \in peerKnown \cup peerPending => Safe(c)'
    BY <2>2 DEF Safe
  <2>8. QED BY <2>4, <2>5, <2>6, <2>7
<1>7. CASE HandleAnswer \/ HandleCandidate
  BY <1>1, <1>7 DEF HandleAnswer, HandleCandidate, Reads, attempts, gatherer, peer
<1>8. CASE HandlerReturns
  BY <1>8 DEF HandlerReturns
<1>9. ASSUME NEW d \in SfuCandidate, Gather(d) PROVE Safe(c)'
  BY <1>1, <1>9 DEF Gather, attempts, peer
<1>10. ASSUME NEW d \in SfuCandidate, Notify(d) PROVE Safe(c)'
  <2>1. UNCHANGED <<offer, peerKnown, peerPending, handler, attempt, calls>>
    BY <1>10 DEF Notify, attempts, peer
  <2>2. CASE HasCallback /\ d \in Allowed
    <3>1. Trickled(d) \in Message(SfuCandidate) /\ Trickled(d).candidates = {d}
      BY DEF Trickled, Message
    <3>2. down' = Append(down, Trickled(d)) /\ notified' = notified \cup {d}
      BY <1>10, <2>2 DEF Notify
    <3>3. Carries(down', c) <=> Carries(down, c) \/ c = d
      BY <3>1, <3>2, DownAppend
    <3>4. QED BY <2>1, <3>2, <3>3
  <2>3. CASE ~HasCallback
    <3>1. handler = "listed"
      BY <2>3 DEF HasCallback, ListedInv, TypeOK
    <3>2. QED BY <2>1, <3>1
  <2>4. CASE d \notin Allowed
    BY <1>10, <2>1, <2>4 DEF Notify
  <2>5. QED BY <2>2, <2>3, <2>4
<1>11. ASSUME NEW d \in SfuCandidate, NotifyPanics(d) PROVE Safe(c)'
  BY <1>11 DEF NotifyPanics
<1>12. CASE PeerHandleOffer \/ PeerHandleCandidate
  <2>1. /\ down # << >> /\ down' = Tail(down)
        /\ peerKnown' \cup peerPending' = peerKnown \cup peerPending \cup Head(down).candidates
        /\ UNCHANGED <<notified, offer, handler, attempt, calls>>
    BY <1>12 DEF PeerHandleOffer, PeerHandleCandidate, PeerReads, attempts, gatherer
  <2>2. QED BY <2>1, DownTail
<1>13. CASE PeerSendAnswer
  BY <1>1, <1>13 DEF PeerSendAnswer, attempts, gatherer
<1>14. CASE PeerGatherer
  BY <1>1, <1>14 DEF PeerGatherer, PeerGather, attempts, gatherer
<1>15. CASE ClientLeaves
  BY <1>15 DEF ClientLeaves
<1>16. CASE UNCHANGED vars
  BY <1>1, <1>16 DEF vars, attempts, gatherer, peer
<1>17. QED
  BY <1>2, <1>3, <1>4, <1>5, <1>6, <1>7, <1>8, <1>9, <1>10, <1>11, <1>12, <1>13, <1>14,
     <1>15, <1>16 DEF Next, SfuStep, SfuGatherer, PeerStep

-----------------------------------------------------------------------------
(***************************************************************************)
(* The exchange of descriptions.                                           *)
(***************************************************************************)
Once(messages, type) == \A i, j \in Places(messages, type) : i = j

LEMMA AppendOther ==
  ASSUME NEW S, NEW s \in Seq(S), NEW m \in S, NEW type, m.type # type
  PROVE  Places(Append(s, m), type) = Places(s, type)
<1>1. {i \in {Len(s) + 1} : m.type = type} = {}
  OBVIOUS
<1>2. Places(Append(s, m), type) =
        Places(s, type) \cup {i \in {Len(s) + 1} : m.type = type}
  BY AppendPlaces
<1>3. QED BY <1>1, <1>2, Zenon

LEMMA AppendFirst ==
  ASSUME NEW S, NEW s \in Seq(S), NEW m \in S, NEW type, Places(s, type) = {}
  PROVE  Once(Append(s, m), type)
  BY AppendPlaces DEF Once

LEMMA TailOnce ==
  ASSUME NEW S, NEW s \in Seq(S), s # << >>, NEW type, Once(s, type)
  PROVE  /\ Once(Tail(s), type)
         /\ Places(s, type) = {} => Places(Tail(s), type) = {}
         /\ Head(s).type = type => Places(Tail(s), type) = {}
<1>1. \A i : i \in Places(Tail(s), type) <=> i \in Nat \ {0} /\ i + 1 \in Places(s, type)
  BY TailPlaces
<1>2. Places(s, type) = {} => Places(Tail(s), type) = {}
  BY <1>1
<1>3. Once(Tail(s), type)
  <2> SUFFICES ASSUME NEW i \in Places(Tail(s), type), NEW j \in Places(Tail(s), type)
               PROVE  i = j
    BY DEF Once
  <2>1. i \in Nat /\ j \in Nat /\ i + 1 = j + 1
    BY <1>1 DEF Once
  <2>2. QED BY <2>1
<1>4. Head(s).type = type => Places(Tail(s), type) = {}
  <2> SUFFICES ASSUME Head(s).type = type, NEW i \in Places(Tail(s), type) PROVE FALSE
    OBVIOUS
  <2>1. i \in Nat \ {0} /\ i + 1 = 1
    BY <1>1, HeadPlace DEF Once
  <2>2. QED BY <2>1
<1>5. QED BY <1>2, <1>3, <1>4

LEMMA InitExchange == Init => ExchangeInv
  BY DEF Init, ExchangeInv, HandlerInv, Outstanding, NothingWhenStable, Places

\* What a step does to the descriptions, whatever it does else.
LEMMA SfuExchange ==
  ASSUME TypeOK, ExchangeInv, SfuStep \/ SfuGatherer \/ OtherCalls
  PROVE  ExchangeInv'
<1> USE DEF ExchangeInv
<1>1. CASE UNCHANGED <<attempt, signaling, peer, down, up>> /\ HandlerInv'
  BY <1>1 DEF Outstanding, NothingWhenStable, peer
<1>2. CASE List \/ RegisterCallback
  BY <1>1, <1>2 DEF List, RegisterCallback, attempts, HandlerInv
<1>3. CASE HandlerReturns \/ OtherCalls
  BY <1>1, <1>3 DEF HandlerReturns, OtherCalls, attempts, HandlerInv
<1>4. ASSUME NEW caller \in {"handler", "other"}, MakeOffer(caller) PROVE ExchangeInv'
  <2>1. HandlerInv'
    BY <1>4 DEF MakeOffer, Caller, HandlerInv
  <2>2. /\ signaling = "stable" /\ signaling' = "haveLocalOffer"
        /\ UNCHANGED <<down, up, peerAt>>
    BY <1>4 DEF MakeOffer, MayOffer, peer
  <2>3. QED BY <2>1, <2>2 DEF Outstanding, NothingWhenStable
<1>5. ASSUME NEW caller \in {"handler", "other"}, OfferFails(caller) PROVE ExchangeInv'
  BY <1>1, <1>5 DEF OfferFails, HandlerInv
<1>6. CASE WriteOffer
  <2>1. HandlerInv'
    BY <1>6 DEF WriteOffer, HandlerInv
  <2>2. SUFFICES ASSUME peerAt' # "gone" PROVE Outstanding' /\ NothingWhenStable'
    BY <2>1
  <2> DEFINE message == Description("offer", offer)
  <2>3. /\ peerAt # "gone" /\ attempt # "none" /\ attempt' = "none"
        /\ down' = Append(down, message)
        /\ UNCHANGED <<signaling, up, peerAt>>
    BY <1>6, <2>2 DEF WriteOffer, peer
  <2>4. message \in Message(SfuCandidate)
    BY DEF Description, Message, TypeOK
  <2>5. Places(down, "offer") = {}
    BY <2>3 DEF Outstanding
  <2>6. Once(down', "offer")
    BY <2>3, <2>4, <2>5, AppendFirst DEF TypeOK
  <2> HIDE DEF message
  <2>7. Outstanding'
    BY <2>3, <2>6 DEF Outstanding, Once
  <2>8. NothingWhenStable'
    BY <2>3 DEF NothingWhenStable
  <2>9. QED BY <2>7, <2>8
<1>7. CASE HandleAnswer
  <2>1. HandlerInv'
    BY <1>7 DEF HandleAnswer, HandlerInv
  <2>2. SUFFICES ASSUME peerAt' # "gone" PROVE Outstanding' /\ NothingWhenStable'
    BY <2>1
  <2>3. /\ peerAt # "gone" /\ up # << >> /\ Head(up).type = "answer" /\ up' = Tail(up)
        /\ UNCHANGED <<attempt, down, peerAt>>
    BY <1>7, <2>2 DEF HandleAnswer, Reads, peer
  <2>4. 1 \in Places(up, "answer")
    BY <2>3, HeadPlace DEF TypeOK
  <2>5. attempt = "none" /\ Places(down, "offer") = {} /\ peerAt # "answering"
    BY <2>3, <2>4 DEF Outstanding
  <2>6. Places(up', "answer") = {}
    BY <2>3, TailOnce DEF TypeOK, Outstanding, Once
  <2>7. QED BY <2>3, <2>5, <2>6 DEF Outstanding, NothingWhenStable
<1>8. CASE HandleCandidate
  <2>1. HandlerInv'
    BY <1>8 DEF HandleCandidate, attempts, HandlerInv, Reads
  <2>2. SUFFICES ASSUME peerAt' # "gone" PROVE Outstanding' /\ NothingWhenStable'
    BY <2>1
  <2>3. /\ peerAt # "gone" /\ up # << >> /\ up' = Tail(up)
        /\ UNCHANGED <<attempt, signaling, down, peerAt>>
    BY <1>8, <2>2 DEF HandleCandidate, Reads, peer, attempts
  <2>4. /\ Once(up', "answer")
        /\ Places(up, "answer") = {} => Places(up', "answer") = {}
    BY <2>3, TailOnce DEF TypeOK, Outstanding, Once
  <2>5. QED BY <2>3, <2>4 DEF Outstanding, NothingWhenStable, Once
<1>9. CASE SfuGatherer
  <2> PICK c \in SfuCandidate : Gather(c) \/ Notify(c) \/ NotifyPanics(c)
    BY <1>9 DEF SfuGatherer
  <2>1. CASE Gather(c) \/ NotifyPanics(c)
    BY <1>1, <2>1 DEF Gather, NotifyPanics, attempts, HandlerInv
  <2>2. CASE Notify(c)
    <3>1. Trickled(c) \in Message(SfuCandidate) /\ Trickled(c).type # "offer"
      BY DEF Trickled, Message
    <3>2. Places(Append(down, Trickled(c)), "offer") = Places(down, "offer")
      BY <3>1, AppendOther DEF TypeOK
    <3>3. Places(down', "offer") = Places(down, "offer")
      BY <2>2, <3>2 DEF Notify
    <3>4. UNCHANGED <<handler, attempt, signaling, peerAt, up>>
      BY <2>2 DEF Notify, attempts, peer
    <3>5. QED BY <3>3, <3>4 DEF HandlerInv, Outstanding, NothingWhenStable, Places
  <2>3. QED BY <2>1, <2>2
<1>10. QED BY <1>2, <1>3, <1>4, <1>5, <1>6, <1>7, <1>8, <1>9 DEF SfuStep

LEMMA PeerExchange ==
  ASSUME TypeOK, ExchangeInv, PeerStep \/ PeerGatherer \/ ClientLeaves
  PROVE  ExchangeInv'
<1> USE DEF ExchangeInv
<1>1. HandlerInv'
  BY DEF HandlerInv, PeerStep, PeerHandleOffer, PeerSendAnswer, PeerHandleCandidate,
         PeerGatherer, PeerGather, ClientLeaves, attempts
<1>2. CASE PeerHandleOffer
  <2>1. /\ peerAt = "reading" /\ peerAt' = "answering"
        /\ down # << >> /\ Head(down).type = "offer" /\ down' = Tail(down)
        /\ UNCHANGED <<attempt, signaling, up>>
    BY <1>2 DEF PeerHandleOffer, PeerReads, attempts
  <2>2. 1 \in Places(down, "offer")
    BY <2>1, HeadPlace DEF TypeOK
  <2>3. attempt = "none" /\ Places(up, "answer") = {}
    BY <2>1, <2>2 DEF Outstanding
  <2>4. Places(down', "offer") = {}
    BY <2>1, TailOnce DEF TypeOK, Outstanding, Once
  <2>5. signaling # "stable"
    BY <2>1, <2>2 DEF NothingWhenStable
  <2>6. QED BY <1>1, <2>1, <2>3, <2>4, <2>5 DEF Outstanding, NothingWhenStable
<1>3. CASE PeerSendAnswer
  <2> DEFINE message == Description("answer", answer)
  <2>1. /\ peerAt = "answering" /\ peerAt' = "reading"
        /\ up' = Append(up, message)
        /\ UNCHANGED <<attempt, signaling, down>>
    BY <1>3 DEF PeerSendAnswer, attempts
  <2>2. message \in Message(PeerCandidate)
    BY DEF Description, Message, TypeOK
  <2>3. attempt = "none" /\ Places(down, "offer") = {} /\ Places(up, "answer") = {}
    BY <2>1 DEF Outstanding
  <2>4. Once(up', "answer")
    BY <2>1, <2>2, <2>3, AppendFirst DEF TypeOK
  <2> HIDE DEF message
  <2>5. signaling # "stable"
    BY <2>1 DEF NothingWhenStable
  <2>6. QED BY <1>1, <2>1, <2>3, <2>4, <2>5 DEF Outstanding, NothingWhenStable, Once
<1>4. CASE PeerHandleCandidate
  <2>1. /\ peerAt = "reading" /\ peerAt' = peerAt
        /\ down # << >> /\ down' = Tail(down)
        /\ UNCHANGED <<attempt, signaling, up>>
    BY <1>4 DEF PeerHandleCandidate, PeerReads, attempts
  <2>2. /\ Once(down', "offer")
        /\ Places(down, "offer") = {} => Places(down', "offer") = {}
    BY <2>1, TailOnce DEF TypeOK, Outstanding, Once
  <2>3. QED BY <1>1, <2>1, <2>2 DEF Outstanding, NothingWhenStable, Once
<1>5. ASSUME NEW c \in PeerCandidate, PeerGather(c) PROVE ExchangeInv'
  <2>1. Trickled(c) \in Message(PeerCandidate) /\ Trickled(c).type # "answer"
    BY DEF Trickled, Message
  <2>2. Places(up', "answer") = Places(up, "answer")
    BY <1>5, <2>1, AppendOther DEF PeerGather, TypeOK
  <2>3. UNCHANGED <<attempt, signaling, peerAt, down>>
    BY <1>5 DEF PeerGather, attempts
  <2>4. QED BY <1>1, <2>2, <2>3 DEF Outstanding, NothingWhenStable, Places
<1>6. CASE ClientLeaves
  BY <1>1, <1>6 DEF ClientLeaves
<1>7. QED BY <1>2, <1>3, <1>4, <1>5, <1>6 DEF PeerStep, PeerGatherer

LEMMA ExchangeInductive == Spec => []ExchangeInv
<1>1. ASSUME ExchangeInv, UNCHANGED vars PROVE ExchangeInv'
  BY <1>1
  DEF vars, attempts, peer, ExchangeInv, HandlerInv, Outstanding, NothingWhenStable, Places
<1>2. TypeOK /\ ExchangeInv /\ [Next]_vars => ExchangeInv'
  BY <1>1, SfuExchange, PeerExchange DEF Next
<1>3. QED BY <1>2, InitExchange, TypeCorrect, PTL DEF Spec

\* The mapping.
Exchanges == [p \in {Peer} |-> Exchange]

LEMMA AnswersArePlaces == Answers = Places(up, "answer")
  BY DEF Answers, Places

\* A step of OfferAnswer on the one connection.
LEMMA ExchangeMove ==
  ASSUME NEW from, NEW to, Exchange = from, Exchange' = to
  PROVE  /\ OneExchange!Moves(Peer, from, to)
         /\ to = "over" => OneExchange!End(Peer)
         /\ from = to => Exchanges' = Exchanges
  BY DEF Exchanges, OneExchange!Moves, OneExchange!End

LEMMA StepExchange ==
  ASSUME TypeOK, ExchangeInv, TypeOK', ExchangeInv', [Next]_vars
  PROVE  OneExchange!Next \/ Exchanges' = Exchanges
<1> USE DEF OneExchange!Next
<1>1. CASE Exchange' = Exchange
  BY <1>1 DEF Exchanges
<1>2. CASE Exchange' = "over"
  BY <1>2, ExchangeMove
<1>3. CASE peerAt = "gone" \/ handler = "done"
  <2>1. peerAt' = "gone" \/ handler' = "done"
    BY <1>3
    DEF Next, SfuStep, List, RegisterCallback, MakeOffer, OfferFails, WriteOffer, HandleAnswer,
        HandleCandidate, HandlerReturns, SfuGatherer, Gather, Notify, NotifyPanics, OtherCalls,
        PeerStep, PeerHandleOffer, PeerSendAnswer, PeerHandleCandidate, PeerReads, PeerGatherer,
        PeerGather, ClientLeaves, Reads, Caller, Open, ExchangeInv, HandlerInv, vars, attempts, peer
  <2>2. QED BY <2>1, <1>2 DEF Exchange
<1>4. CASE /\ peerAt # "gone" /\ handler # "done"
           /\ peerAt' # "gone" /\ handler' # "done"
  <2>1. CASE UNCHANGED <<signaling, up>>
    BY <1>1, <1>4, <2>1 DEF Exchange, Answers
  <2>2. ASSUME NEW caller \in {"handler", "other"}, MakeOffer(caller)
        PROVE  OneExchange!Next
    <3>1. /\ signaling = "stable" /\ signaling' = "haveLocalOffer" /\ up' = up
      BY <2>2 DEF MakeOffer, MayOffer
    <3>2. Answers = {} /\ Answers' = {}
      BY <1>4, <3>1, AnswersArePlaces DEF ExchangeInv, NothingWhenStable, Answers
    <3>3. Exchange = "none" /\ Exchange' = "offered"
      BY <1>4, <3>1, <3>2 DEF Exchange
    <3>4. QED BY <3>3, ExchangeMove DEF OneExchange!Offer
  <2>3. CASE HandleAnswer
    <3>1. /\ signaling = "haveLocalOffer" /\ signaling' = "stable"
          /\ up # << >> /\ Head(up).type = "answer"
      BY <2>3 DEF HandleAnswer, Reads
    <3>2. Answers # {}
      BY <3>1, HeadPlace, AnswersArePlaces DEF TypeOK
    <3>3. Exchange = "answered" /\ Exchange' = "none"
      BY <1>4, <3>1, <3>2 DEF Exchange
    <3>4. QED BY <3>3, ExchangeMove DEF OneExchange!Accept
  <2>4. CASE HandleCandidate
    <3>1. /\ signaling' = signaling
          /\ up # << >> /\ Head(up).type = "candidate" /\ up' = Tail(up)
      BY <2>4 DEF HandleCandidate, Reads, attempts
    <3>2. 1 \notin Places(up, "answer")
      BY <3>1, HeadPlace DEF TypeOK
    <3>3. \A i : i \in Places(up', "answer")
                   <=> i \in Nat \ {0} /\ i + 1 \in Places(up, "answer")
      BY <3>1, TailPlaces DEF TypeOK
    <3>4. \A j \in Places(up, "answer") : j \in Nat \ {0, 1}
      BY <3>2 DEF Places, TypeOK
    <3>5. Places(up', "answer") = {} <=> Places(up, "answer") = {}
      <4>1. ASSUME NEW j \in Places(up, "answer") PROVE j - 1 \in Places(up', "answer")
        <5>1. j - 1 \in Nat \ {0} /\ (j - 1) + 1 = j
          BY <3>4
        <5>2. QED BY <3>3, <5>1
      <4>2. QED BY <3>3, <4>1
    <3>6. Answers' = {} <=> Answers = {}
      BY <3>5 DEF Answers, Places
    <3>7. QED BY <1>1, <1>4, <3>1, <3>6 DEF Exchange
  <2>5. CASE PeerSendAnswer
    <3>1. /\ peerAt = "answering" /\ signaling' = signaling
          /\ up' = Append(up, Description("answer", answer))
      BY <2>5 DEF PeerSendAnswer, attempts
    <3>2. Answers = {} /\ signaling = "haveLocalOffer"
      BY <1>4, <3>1, AnswersArePlaces
      DEF ExchangeInv, Outstanding, NothingWhenStable, TypeOK
    <3>3. Answers' # {}
      <4>1. Len(up) + 1 \in DOMAIN up' /\ up'[Len(up) + 1].type = "answer"
        BY <3>1 DEF TypeOK, Description
      <4>2. QED BY <4>1 DEF Answers
    <3>4. Exchange = "offered" /\ Exchange' = "answered"
      BY <1>4, <3>1, <3>2, <3>3 DEF Exchange
    <3>5. QED BY <3>4, ExchangeMove DEF OneExchange!Answer
  <2>6. ASSUME NEW c \in PeerCandidate, PeerGather(c) PROVE Exchanges' = Exchanges
    <3>1. Trickled(c) \in Message(PeerCandidate) /\ Trickled(c).type # "answer"
      BY DEF Trickled, Message
    <3>2. Places(up', "answer") = Places(up, "answer") /\ signaling' = signaling
      BY <2>6, <3>1, AppendOther DEF PeerGather, TypeOK, attempts
    <3>3. Answers' = Answers
      BY <3>2 DEF Answers, Places
    <3>4. QED BY <1>4, <3>2, <3>3 DEF Exchange, Exchanges
  <2>7. CASE UNCHANGED vars
    BY <2>1, <2>7 DEF vars, attempts
  <2>8. CASE SfuStep
    BY <2>1, <2>2, <2>3, <2>4, <2>8
    DEF SfuStep, List, RegisterCallback, OfferFails, WriteOffer, HandlerReturns, attempts
  <2>9. CASE SfuGatherer \/ OtherCalls \/ ClientLeaves
    BY <2>1, <2>9
    DEF SfuGatherer, Gather, Notify, NotifyPanics, OtherCalls, ClientLeaves, attempts
  <2>10. CASE PeerStep \/ PeerGatherer
    BY <2>1, <2>5, <2>6, <2>10
    DEF PeerStep, PeerHandleOffer, PeerHandleCandidate, PeerGatherer, attempts
  <2>11. QED BY <2>7, <2>8, <2>9, <2>10 DEF Next
<1>5. QED BY <1>2, <1>3, <1>4 DEF Exchange

(***************************************************************************)
(* Trickle implements OfferAnswer: however candidates overtake them, every *)
(* answer meets the offer it was made for (sfu/main.go:300 and 709).       *)
(***************************************************************************)
THEOREM ImplementsOfferAnswer == Spec => IsOfferAnswer
<1>1. Init => OneExchange!Init
  BY DEF Init, OneExchange!Init, Exchange
<1>2. TypeOK /\ ExchangeInv /\ (TypeOK /\ ExchangeInv)' /\ [Next]_vars
        => [OneExchange!Next]_Exchanges
  BY StepExchange
<1>3. QED
  BY <1>1, <1>2, TypeCorrect, ExchangeInductive, PTL
  DEF Spec, IsOfferAnswer, OneExchange!Spec, Exchanges

(***************************************************************************)
(* No candidate of the SFU is dropped before it is with the peer, in       *)
(* whatever order the connection is listed, the callback registered and    *)
(* offers made by several goroutines (sfu/main.go:573-594), for any        *)
(* candidates and numbers of calls.                                        *)
(***************************************************************************)
THEOREM SfuCandidateKeptHolds == Spec => []SfuCandidateKept
<1> DEFINE Inv == ListedInv /\ SfuCandidateKept
<1>1. Init => Inv
  BY DEF Init, ListedInv, SfuCandidateKept
<1>2. TypeOK /\ ExchangeInv /\ Inv /\ [Next]_vars => Inv'
  <2> SUFFICES ASSUME TypeOK, HandlerInv, Inv, [Next]_vars PROVE SfuCandidateKept'
    BY StepListed DEF ExchangeInv
  <2> SUFFICES ASSUME peerAt' # "gone", NEW c \in Allowed, c \in gathered'
               PROVE  Safe(c)'
    BY DEF SfuCandidateKept, OnItsWayDown, Safe, Carries
  <2>1. peerAt # "gone"
    BY PeerStays
  <2>2. CASE c \in gathered
    BY <2>1, <2>2, StepKeepsSfuCandidate, KeptIsSafe
  <2>3. CASE c \notin gathered
    <3>1. c \notin notified'
      BY <2>3, NotifiedWasGathered
    <3>2. QED BY <3>1 DEF Safe
  <2>4. QED BY <2>2, <2>3
<1>3. QED BY <1>1, <1>2, TypeCorrect, ExchangeInductive, PTL DEF Spec
=============================================================================
