------------------------------ MODULE Trickle ------------------------------
(***************************************************************************)
(* ICE candidates between the SFU and one peer (sfu/main.go 550-594 and    *)
(* 691-727, peer/main.go 239-259 and 460-531, peer/signaling.go).          *)
(*                                                                         *)
(* Either side sends a candidate as soon as it is gathered, beside the     *)
(* offers and answers on the same websocket, and keeps one that arrives    *)
(* before the description it belongs to.                                   *)
(*                                                                         *)
(* On the SFU the handler of the websocket lists the connection, registers *)
(* the callback for candidates, calls signalPeerConnections and reads.     *)
(* Other goroutines call signalPeerConnections too, as soon as the         *)
(* connection is listed.  The gatherer, a goroutine of pion, starts with   *)
(* SetLocalDescription and runs the callback for one candidate at a time.  *)
(* A description holds the candidates that were gathered when it was made. *)
(*                                                                         *)
(* SFU models the calls of signalPeerConnections in full; here an attempt  *)
(* is what it does on this connection.                                     *)
(***************************************************************************)
EXTENDS Naturals, Sequences

CONSTANTS
  SfuCandidate,   \* what the gatherer of the SFU will find
  PeerCandidate,  \* what that of the peer will find
  Allowed,        \* the candidates of the SFU that match restrictSFUAddress
  Peer,           \* names the connection
  MaxCalls,       \* bound: calls of signalPeerConnections by others
  MayLeave        \* whether the client may go

ASSUME TrickleAssumption ==
  /\ Allowed \subseteq SfuCandidate
  /\ SfuCandidate \cap PeerCandidate = {}
  /\ MaxCalls \in Nat
  /\ MayLeave \in BOOLEAN

VARIABLES
  \* the SFU
  handler,      \* where websocketHandler is
  calls,        \* goroutines about to call signalPeerConnections
  callsLeft,
  attempt,      \* the goroutine whose attempt has set the offer and has not
                \* written it yet, or "none"
  signaling,    \* "stable" or "haveLocalOffer"
  offer,        \* the candidates in the offer that is being written
  remote,       \* RemoteDescription() # nil
  pending,      \* pendingCandidatesString
  known,        \* the candidates of the peer that pion was given
  gathered,     \* candidates of the SFU
  notified,     \* those for which the callback is due or has run
  \* the peer
  peerAt,       \* "reading", "answering" or "gone"
  answer,       \* the candidates in the answer that is being sent
  peerRemote, peerPending, peerKnown, peerGathered,
  \* the websocket and the process
  down, up,     \* messages to the peer and to the SFU
  crashed       \* the callback panicked

attempts  == <<calls, callsLeft, attempt, signaling, offer>>
sfuIce    == <<remote, pending, known>>
gatherer  == <<gathered, notified>>
peer      == <<peerAt, answer, peerRemote, peerPending, peerKnown, peerGathered>>
vars == <<handler, attempts, sfuIce, gatherer, peer, down, up, crashed>>

Message(candidate) ==
  [type : {"offer", "answer", "candidate"}, candidates : SUBSET candidate]
Description(type, candidates) == [type |-> type, candidates |-> candidates]
Trickled(c) == [type |-> "candidate", candidates |-> {c}]

TypeOK ==
  /\ handler \in {"start", "listed", "signal", "reading", "done"}
  /\ calls \in Nat
  /\ callsLeft \in 0..MaxCalls
  /\ attempt \in {"none", "handler", "other"}
  /\ signaling \in {"stable", "haveLocalOffer"}
  /\ offer \subseteq SfuCandidate
  /\ remote \in BOOLEAN
  /\ pending \subseteq PeerCandidate
  /\ known \subseteq PeerCandidate
  /\ gathered \subseteq SfuCandidate
  /\ notified \subseteq gathered
  /\ peerAt \in {"reading", "answering", "gone"}
  /\ answer \subseteq PeerCandidate
  /\ peerRemote \in BOOLEAN
  /\ peerPending \subseteq SfuCandidate
  /\ peerKnown \subseteq SfuCandidate
  /\ peerGathered \subseteq PeerCandidate
  /\ down \in Seq(Message(SfuCandidate))
  /\ up \in Seq(Message(PeerCandidate))
  /\ crashed \in BOOLEAN

Init ==
  /\ handler = "start"
  /\ calls = 0
  /\ callsLeft = MaxCalls
  /\ attempt = "none"
  /\ signaling = "stable"
  /\ offer = {}
  /\ remote = FALSE
  /\ pending = {}
  /\ known = {}
  /\ gathered = {}
  /\ notified = {}
  /\ peerAt = "reading"
  /\ answer = {}
  /\ peerRemote = FALSE
  /\ peerPending = {}
  /\ peerKnown = {}
  /\ peerGathered = {}
  /\ down = << >>
  /\ up = << >>
  /\ crashed = FALSE

Open == handler # "done"
-----------------------------------------------------------------------------
(***************************************************************************)
(* The SFU: registration and offers.                                       *)
(***************************************************************************)

List ==
  /\ handler = "start"
  /\ attempt = "none"
  /\ handler' = "listed"
  /\ UNCHANGED <<attempts, sfuIce, gatherer, peer, down, up, crashed>>

RegisterCallback ==
  /\ handler = "listed"
  /\ handler' = "signal"
  /\ UNCHANGED <<attempts, sfuIce, gatherer, peer, down, up, crashed>>

HasCallback == handler \in {"signal", "reading"}

\* A track or another connection makes some goroutine call.
OtherCalls ==
  /\ handler \notin {"start", "done"}
  /\ callsLeft > 0
  /\ callsLeft' = callsLeft - 1
  /\ calls' = calls + 1
  /\ UNCHANGED <<handler, attempt, signaling, offer, sfuIce, gatherer, peer,
                 down, up, crashed>>

\* The caller, and what is left of its calls when it has begun.
Caller == (IF handler = "signal" THEN {"handler"} ELSE {})
            \cup (IF calls > 0 THEN {"other"} ELSE {})

\* Mutant: the handler's call counts as one of the others'.
AlwaysOneLess(caller) == calls - 1

CallsWithout(caller) == IF caller = "other" THEN calls - 1 ELSE calls

\* Mutant: offers although the last one has not been answered.
OffersAnyway == TRUE

\* SetLocalDescription fails otherwise.
MayOffer == signaling = "stable"

\* CreateOffer and SetLocalDescription.
MakeOffer(caller) ==
  /\ caller \in Caller
  /\ attempt = "none"
  /\ Open
  /\ MayOffer
  /\ attempt' = caller
  /\ signaling' = "haveLocalOffer"
  /\ offer' = gathered
  /\ calls' = CallsWithout(caller)
  /\ UNCHANGED <<handler, callsLeft, sfuIce, gatherer, peer, down, up, crashed>>

\* Mutant: a failed attempt is not made again.
NoRetry(caller) == CallsWithout(caller)

\* A failed attempt leaves a goroutine behind that calls again.
WithRetry(caller) == CallsWithout(caller) + 1

OfferFails(caller) ==
  /\ caller \in Caller
  /\ attempt = "none"
  /\ Open
  /\ ~MayOffer
  /\ calls' = WithRetry(caller)
  /\ handler' = IF caller = "handler" THEN "reading" ELSE handler
  /\ UNCHANGED <<callsLeft, attempt, signaling, offer, sfuIce, gatherer, peer,
                 down, up, crashed>>

\* The offer is written; an error is ignored.
WriteOffer ==
  /\ attempt # "none"
  /\ attempt' = "none"
  /\ offer' = {}
  /\ down' = IF peerAt = "gone" THEN down
             ELSE Append(down, Description("offer", offer))
  /\ handler' = IF attempt = "handler" THEN "reading" ELSE handler
  /\ UNCHANGED <<calls, callsLeft, signaling, sfuIce, gatherer, peer, up, crashed>>
-----------------------------------------------------------------------------
(***************************************************************************)
(* The SFU: candidates.                                                    *)
(***************************************************************************)

\* SetLocalDescription has started the gatherer.
Gathering == signaling = "haveLocalOffer" \/ remote

Gather(c) ==
  /\ Open
  /\ Gathering
  /\ c \in SfuCandidate \ gathered
  /\ gathered' = gathered \cup {c}
  /\ UNCHANGED <<handler, attempts, sfuIce, notified, peer, down, up, crashed>>

\* OnICECandidate, if it has been registered.
Notify(c) ==
  /\ c \in gathered \ notified
  /\ notified' = notified \cup {c}
  /\ down' = IF HasCallback /\ c \in Allowed /\ peerAt # "gone"
             THEN Append(down, Trickled(c)) ELSE down
  /\ UNCHANGED <<handler, attempts, sfuIce, gathered, peer, up, crashed>>

\* The write fails because the client has gone: a panic in a goroutine of
\* pion, which nobody recovers.
NotifyPanics(c) ==
  /\ c \in gathered \ notified
  /\ HasCallback
  /\ c \in Allowed
  /\ peerAt = "gone"
  /\ crashed' = TRUE
  /\ UNCHANGED <<handler, attempts, sfuIce, gatherer, peer, down, up>>

Reads(type) ==
  /\ handler = "reading"
  /\ up # << >>
  /\ Head(up).type = type
  /\ up' = Tail(up)

\* Mutant: what was kept is left where it is.
LeavesPending == Head(up).candidates

\* With the answer pion gets the candidates in it and those that were kept,
\* which stay in the list and are added again with the next answer.
WithAnswer == Head(up).candidates \cup pending

HandleAnswer ==
  /\ Reads("answer")
  /\ signaling = "haveLocalOffer"
  /\ signaling' = "stable"
  /\ remote' = TRUE
  /\ known' = known \cup WithAnswer
  /\ UNCHANGED <<handler, calls, callsLeft, attempt, offer, pending, gatherer,
                 peer, down, crashed>>

\* Mutant: a candidate before the answer is dropped.
DropsEarly == pending

KeepsEarly == pending \cup Head(up).candidates

HandleCandidate ==
  /\ Reads("candidate")
  /\ IF remote
     THEN known' = known \cup Head(up).candidates /\ UNCHANGED pending
     ELSE pending' = KeepsEarly /\ UNCHANGED known
  /\ UNCHANGED <<handler, attempts, remote, gatherer, peer, down, crashed>>

\* ReadMessage fails, and the deferred calls close the connection.
HandlerReturns ==
  /\ handler = "reading"
  /\ peerAt = "gone"
  /\ up = << >>
  /\ handler' = "done"
  /\ UNCHANGED <<attempts, sfuIce, gatherer, peer, down, up, crashed>>
-----------------------------------------------------------------------------
(***************************************************************************)
(* The peer.  One goroutine reads the websocket, and another one gathers.  *)
(***************************************************************************)
PeerReads(type) ==
  /\ peerAt = "reading"
  /\ down # << >>
  /\ Head(down).type = type
  /\ down' = Tail(down)

\* SetRemoteDescription, CreateAnswer, SetLocalDescription.
PeerHandleOffer ==
  /\ PeerReads("offer")
  /\ peerRemote' = TRUE
  /\ peerKnown' = peerKnown \cup Head(down).candidates
  /\ answer' = peerGathered
  /\ peerAt' = "answering"
  /\ UNCHANGED <<handler, attempts, sfuIce, gatherer, peerPending, peerGathered,
                 up, crashed>>

PeerSendAnswer ==
  /\ peerAt = "answering"
  /\ peerAt' = "reading"
  /\ up' = Append(up, Description("answer", answer))
  /\ answer' = {}
  /\ UNCHANGED <<handler, attempts, sfuIce, gatherer, peerRemote, peerPending,
                 peerKnown, peerGathered, down, crashed>>

\* Before the first offer the candidate goes to pendingCandidatesString,
\* which only the handler of an answer empties; the SFU sends no answers.
PeerHandleCandidate ==
  /\ PeerReads("candidate")
  /\ IF peerRemote
     THEN peerKnown' = peerKnown \cup Head(down).candidates /\ UNCHANGED peerPending
     ELSE peerPending' = peerPending \cup Head(down).candidates /\ UNCHANGED peerKnown
  /\ UNCHANGED <<handler, attempts, sfuIce, gatherer, peerAt, answer, peerRemote,
                 peerGathered, up, crashed>>

\* OnICECandidate.  The gatherer starts with SetLocalDescription, so the
\* remote description is set and the candidate is sent at once.
PeerGather(c) ==
  /\ peerAt # "gone"
  /\ peerRemote
  /\ c \in PeerCandidate \ peerGathered
  /\ peerGathered' = peerGathered \cup {c}
  /\ up' = Append(up, Trickled(c))
  /\ UNCHANGED <<handler, attempts, sfuIce, gatherer, peerAt, answer, peerRemote,
                 peerPending, peerKnown, down, crashed>>

\* The client ends; what it sent before still arrives, what it was sent is
\* not read.
ClientLeaves ==
  /\ MayLeave
  /\ peerAt # "gone"
  /\ peerAt' = "gone"
  /\ down' = << >>
  /\ UNCHANGED <<handler, attempts, sfuIce, gatherer, answer, peerRemote,
                 peerPending, peerKnown, peerGathered, up, crashed>>
-----------------------------------------------------------------------------
SfuStep ==
  \/ List \/ RegisterCallback
  \/ \E caller \in {"handler", "other"} : MakeOffer(caller) \/ OfferFails(caller)
  \/ WriteOffer
  \/ HandleAnswer \/ HandleCandidate \/ HandlerReturns

SfuGatherer == \E c \in SfuCandidate : Gather(c) \/ Notify(c) \/ NotifyPanics(c)

PeerStep == PeerHandleOffer \/ PeerSendAnswer \/ PeerHandleCandidate

PeerGatherer == \E c \in PeerCandidate : PeerGather(c)

Next ==
  /\ ~crashed
  /\ \/ SfuStep \/ SfuGatherer \/ OtherCalls
     \/ PeerStep \/ PeerGatherer \/ ClientLeaves

Spec == Init /\ [][Next]_vars

(***************************************************************************)
(* Fairness.  Every goroutine goes on: the handler, those that call        *)
(* signalPeerConnections, the gatherers, and the peer while it is there.   *)
(* An attempt that fails is over at once and made again, so no call keeps  *)
(* another one from its turn for ever; but it fails again and again until  *)
(* the answer is read, so the calls are fair one by one.  Calls by others  *)
(* and leaving are not assumed.                                            *)
(***************************************************************************)
Fairness ==
  /\ WF_vars(~crashed /\ (List \/ RegisterCallback))
  /\ \A caller \in {"handler", "other"} :
       SF_vars(~crashed /\ (MakeOffer(caller) \/ OfferFails(caller)))
  /\ WF_vars(~crashed /\ WriteOffer)
  /\ WF_vars(~crashed /\ (HandleAnswer \/ HandleCandidate \/ HandlerReturns))
  /\ WF_vars(~crashed /\ SfuGatherer)
  /\ WF_vars(~crashed /\ PeerStep)
  /\ WF_vars(~crashed /\ PeerGatherer)

FairSpec == Spec /\ Fairness
-----------------------------------------------------------------------------
(***************************************************************************)
(* No candidate of the peer is dropped on the way, whether it overtakes    *)
(* the answer or not (sfu/main.go:712-724): it is under way, or pion has   *)
(* it, or it is kept for an answer that is still to come.                  *)
(***************************************************************************)
UnderWay(c) == \E i \in DOMAIN up : c \in up[i].candidates

PeerCandidateKept ==
  \A c \in peerGathered :
    \/ UnderWay(c)
    \/ c \in known
    \/ c \in pending /\ ~remote

(***************************************************************************)
(* No allowed candidate of the SFU is dropped on the way to a client that  *)
(* stays, although a callback that is not registered yet sends nothing     *)
(* (sfu/main.go:574 and 578): its callback is still due, it is under way   *)
(* or with the peer, or one more offer is to come, which will contain it.  *)
(***************************************************************************)
OnItsWayDown(c) == c \in offer \/ \E i \in DOMAIN down : c \in down[i].candidates

OfferToCome ==
  \/ handler = "listed"
  \/ handler = "signal" /\ attempt # "handler"
  \/ calls > 0

SfuCandidateKept ==
  peerAt # "gone" =>
    \A c \in Allowed \cap gathered :
      \/ c \notin notified
      \/ OnItsWayDown(c)
      \/ c \in peerKnown \cup peerPending
      \/ OfferToCome

(***************************************************************************)
(* Candidates and descriptions share the websocket and two goroutines of   *)
(* the peer write to it, and still every description meets its answer:     *)
(* Trickle implements OfferAnswer, as SFU does.                            *)
(***************************************************************************)
Answers == {i \in DOMAIN up : up[i].type = "answer"}

Exchange ==
  IF peerAt = "gone" \/ handler = "done" THEN "over"
  ELSE IF signaling = "stable" THEN "none"
  ELSE IF Answers # {} THEN "answered" ELSE "offered"

OneExchange == INSTANCE OfferAnswer
  WITH Conn <- {Peer}, exchange <- [p \in {Peer} |-> Exchange]

IsOfferAnswer == OneExchange!Spec

(***************************************************************************)
(* A candidate that the peer gathers reaches the SFU, if the client stays. *)
(***************************************************************************)
PeerCandidatesArrive ==
  \A c \in PeerCandidate :
    c \in peerGathered ~> c \in known \/ peerAt = "gone"

(***************************************************************************)
(* An allowed candidate of the SFU is not lost on the way to the peer,     *)
(* although the connection can be offered before it has a callback         *)
(* (sfu/main.go:574 and 578): pion of the peer gets it, if only by the     *)
(* next offer of the retries, or the peer has put it aside.                *)
(***************************************************************************)
SfuCandidatesReachPeer ==
  \A c \in Allowed :
    c \in gathered ~> c \in peerKnown \cup peerPending \/ peerAt = "gone"

(***************************************************************************)
(* sfu/main.go:577, "Trickle ICE and emit server candidate to client": a   *)
(* candidate that is emitted gets to use on the client.                    *)
(***************************************************************************)
EmittedCandidatesArrive ==
  \A c \in Allowed :
    c \in gathered ~> c \in peerKnown \/ peerAt = "gone"
=============================================================================
