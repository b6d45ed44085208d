-------------------------- MODULE SFUServiceProofs --------------------------
(***************************************************************************)
(* Proofs that the SFU implements Subscription, and that it does not close *)
(* connections of its own accord, for all values of the constants.         *)
(***************************************************************************)
EXTENDS SFUForwardProofs

(***************************************************************************)
(* Failures.                                                               *)
(***************************************************************************)

LEMMA FailureSteps ==
  ASSUME [Next]_vars
  PROVE  \/ UNCHANGED <<failuresLeft, crashed>>
         \/ SyncAddPanics
         \/ failuresLeft' = failuresLeft - 1 /\ UNCHANGED crashed
<1> USE DEF others
<1>1. CASE UNCHANGED vars
  BY <1>1 DEF vars
<1>2. CASE SignalStep
  BY <1>2 DEF SignalStep, SyncStep, SyncRemoveClosed, SyncCheckOpen, SyncTracks,
     SyncRemoveFails, SyncOffer, SyncOfferFails, SyncDone, BeginSync, BeginRetry
<1>3. CASE \E c \in Conn : HandlerStep(c)
  BY <1>3 DEF HandlerStep, Connect, LockForRegister, Register, HandleAnswer,
     HandleAnswerPanics, LockQualities, SetTrackQuality
<1>4. CASE \E r \in Remote : TrackStep(r)
  BY <1>4 DEF TrackStep, AddQualityTrack, AddTrack, UpdateClientTrackState,
     LockForUpdate, UpdateClientTrackStateQuality, ReadFails, RemoveTrack
<1>5. CASE Environment
  BY <1>5 DEF Environment, ClientAnswer, WebsocketClosed, ConnectionFailed,
     FinishClose, ReceiveDecision, TrackStarts, WriteFails
<1>6. QED BY <1>1, <1>2, <1>3, <1>4, <1>5 DEF Next

FailureInv == failuresLeft <= MaxFailures /\ PanicsOnlyAfterFailure

LEMMA InitFailure == Init => FailureInv
BY ConstantsAssumption DEF Init, FailureInv, PanicsOnlyAfterFailure

LEMMA StepFailure ==
  ASSUME TypeInv, ControlInv, AnswerInv, FailureInv, [Next]_vars
  PROVE  FailureInv'
<1>0. /\ failuresLeft \in Nat /\ MaxFailures \in Nat
      /\ connection \in [Conn -> {"new", "open", "closing", "closed"}]
      /\ signaling \in [Conn -> {"stable", "haveLocalOffer"}]
      /\ wire \in [Conn -> [offers : Nat, answers : Nat]]
  BY ConstantsAssumption DEF TypeInv, TypeOK
<1>1. CASE failuresLeft' = failuresLeft - 1
  <2>1. failuresLeft' <= MaxFailures /\ failuresLeft' # MaxFailures
    BY <1>0, <1>1 DEF FailureInv
  <2>2. QED BY <2>1 DEF FailureInv, PanicsOnlyAfterFailure
<1>2. CASE failuresLeft = MaxFailures /\ SyncAddPanics
  <2>1. Target \in Conn /\ connection[Target] # "open" /\ AtPhase("tracks")
    BY <1>2, TargetType DEF SyncAddPanics
  <2>2. connection[Target] = "new"
    BY <1>2, <2>1 DEF FailureInv, PanicsOnlyAfterFailure
  <2>3. connection[Target] # "new"
    BY <2>1 DEF ControlInv, AtPhase, Target
  <2>4. QED BY <2>2, <2>3
<1>3. CASE failuresLeft = MaxFailures /\ UNCHANGED <<failuresLeft, crashed>> /\ ~SyncAddPanics
  <2>0. ~crashed /\ \A c \in Conn : connection[c] \in {"new", "open"}
    BY <1>3 DEF FailureInv, PanicsOnlyAfterFailure
  <2>1. ASSUME NEW c \in Conn, HandleAnswerPanics(c)
        PROVE  FALSE
    <3>1. /\ wire[c].answers > 0
          /\ connection[c] # "open" \/ signaling[c] # "haveLocalOffer"
          /\ connection[c] # "new"
      BY <2>1 DEF HandleAnswerPanics, ControlInv, At
    <3>2. connection[c] = "open" /\ signaling[c] = "stable"
      BY <1>0, <2>0, <3>1
    <3>3. wire[c].offers + wire[c].answers = 0
      BY <3>2 DEF AnswerInv
    <3>4. wire[c].offers \in Nat /\ wire[c].answers \in Nat
      BY <1>0
    <3>5. QED BY <3>1, <3>3, <3>4
  <2>2. \A c \in Conn : ~FinishClose(c)
    BY <2>0 DEF FinishClose
  <2>3. \A c \in Conn : ~WebsocketClosed(c) /\ ~ConnectionFailed(c)
    BY <1>0, <1>3 DEF WebsocketClosed, ConnectionFailed
  <2>4. \A c \in Conn : connection'[c] \in {"new", "open"}
    <3>1. \/ UNCHANGED connection
          \/ \E c \in Conn : connection' = [connection EXCEPT ![c] = "open"]
      BY <1>3, <2>1, <2>2, <2>3, TransportSteps DEF SyncOffer, Connect, ClientAnswer, HandleAnswer
    <3>2. QED BY <1>0, <2>0, <3>1
  <2>5. QED BY <1>0, <1>3, <2>0, <2>4 DEF FailureInv, PanicsOnlyAfterFailure
<1>4. CASE failuresLeft # MaxFailures /\ UNCHANGED failuresLeft
  BY <1>4 DEF FailureInv, PanicsOnlyAfterFailure
<1>5. SyncAddPanics => UNCHANGED failuresLeft
  BY DEF SyncAddPanics
<1>6. QED BY <1>1, <1>2, <1>3, <1>4, <1>5, FailureSteps

(***************************************************************************)
(* As long as no client has gone, no ICE session has failed and no write   *)
(* has, no handler panics on an answer, nothing that needs an open         *)
(* connection meets a closed one, and the SFU runs (sfu/main.go:160, 251,  *)
(* 300 and 709).                                                           *)
(***************************************************************************)
THEOREM PanicsOnlyAfterFailureHolds == Spec => []PanicsOnlyAfterFailure
<1>1. Init => TypeInv /\ ControlInv /\ AnswerInv /\ FailureInv
  BY InitType, InitControl, InitAnswer, InitFailure
<1>2. TypeInv /\ ControlInv /\ AnswerInv /\ FailureInv /\ [Next]_vars
        => (TypeInv /\ ControlInv /\ AnswerInv /\ FailureInv)'
  BY StepType, StepControl, StepAnswer, StepFailure
<1>3. FailureInv => PanicsOnlyAfterFailure
  BY DEF FailureInv
<1>4. QED BY <1>1, <1>2, <1>3, PTL DEF Spec
-----------------------------------------------------------------------------
(***************************************************************************)
(* Mutexes.                                                                *)
(***************************************************************************)

LEMMA InitLocks == Init => LocksHeldInside
BY Names DEF Init, LocksHeldInside, Idle, At

\* A goroutine that is outside its critical sections goes on there.
LEMMA MovesOutside ==
  ASSUME TypeInv, LocksHeldInside, NEW t \in Thread, NEW label \in Label \ {"setQuality"},
         pc' = [pc EXCEPT ![t] = label], pc[t] # "setQuality", listLock # t,
         UNCHANGED <<listLock, qualitiesLock, sync>>
  PROVE  LocksHeldInside'
<1>0. pc \in [Thread -> Label] /\ \A c \in Conn : Handler(c) \in Thread
  BY Names DEF TypeInv, TypeOK
<1>1. listLock \in Thread => pc'[listLock] = pc[listLock]
  BY <1>0
<1>2. \A c \in Conn : pc'[Handler(c)] = "setQuality" <=> pc[Handler(c)] = "setQuality"
  BY <1>0
<1>3. QED BY <1>1, <1>2 DEF LocksHeldInside, Signalling, At

\* A goroutine that is about to take a mutex holds none.
LEMMA NotHolder ==
  ASSUME LocksHeldInside, NEW t \in Thread,
         pc[t] \notin {"signal", "signalRemoved", "register", "updateQuality"}
  PROVE  listLock # t
BY DEF LocksHeldInside, Signalling, At

LEMMA SyncLocks ==
  ASSUME TypeInv, ControlInv, LocksHeldInside, SyncStep
  PROVE  LocksHeldInside'
<1> USE Names
<1>0. pc \in [Thread -> Label] /\ sync.at \in Nat
  BY DEF TypeInv, TypeOK
<1>1. sync.at > 0 /\ (listLock = Retry \/ (listLock \in Thread /\ Signalling(listLock)))
  BY SyncCaller
<1>2. ASSUME NEW label \in Label \ {"setQuality"},
             pc' = pc \/ pc' = [pc EXCEPT ![listLock] = label],
             listLock' = Free, sync' = Idle, UNCHANGED qualitiesLock
      PROVE  LocksHeldInside'
  <2>1. \A c \in Conn : pc'[Handler(c)] = "setQuality" <=> pc[Handler(c)] = "setQuality"
    BY <1>0, <1>1, <1>2 DEF Signalling
  <2>2. sync'.at = 0
    BY <1>2 DEF Idle
  <2>3. QED BY <1>2, <2>1, <2>2 DEF LocksHeldInside, At
<1>3. ASSUME NEW b \in BOOLEAN, EndSync(b), UNCHANGED qualitiesLock
      PROVE  LocksHeldInside'
  <2>1. AfterSignal(listLock) \in Label \ {"setQuality"}
    BY DEF AfterSignal, Label
  <2>2. QED BY <1>2, <1>3, <2>1 DEF EndSync
<1>4. CASE SyncAddPanics /\ listLock \in Handlers
  BY <1>2, <1>4 DEF SyncAddPanics, Goto, Label
<1>5. CASE UNCHANGED <<listLock, qualitiesLock, pc>> /\ sync'.at \in {sync.at, sync.at + 1}
  BY <1>0, <1>1, <1>5 DEF LocksHeldInside, Signalling, At
<1>6. \/ UNCHANGED qualitiesLock /\ (EndSync(TRUE) \/ EndSync(FALSE))
      \/ SyncAddPanics
      \/ UNCHANGED <<listLock, qualitiesLock, pc>> /\ sync'.at \in {sync.at, sync.at + 1}
  <2>1. SyncRemoveClosed \/ SyncRemoveFails \/ SyncOfferFails \/ SyncDone
          => UNCHANGED qualitiesLock /\ (EndSync(TRUE) \/ EndSync(FALSE))
    BY DEF SyncRemoveClosed, SyncRemoveFails, SyncOfferFails, SyncDone
  <2>2. SyncCheckOpen \/ SyncTracks
          => UNCHANGED <<listLock, qualitiesLock, pc>> /\ sync'.at = sync.at
    BY DEF SyncCheckOpen, SyncTracks, locks
  <2>3. SyncOffer => UNCHANGED <<listLock, qualitiesLock, pc>> /\ sync'.at = sync.at + 1
    BY DEF SyncOffer, locks
  <2>4. QED BY <2>1, <2>2, <2>3 DEF SyncStep
<1>7. QED BY <1>3, <1>4, <1>5, <1>6 DEF SyncAddPanics

LEMMA HandlerLocks ==
  ASSUME TypeInv, LocksHeldInside, NEW c \in Conn, HandlerStep(c)
  PROVE  LocksHeldInside'
<1> USE Names DEF At, Goto, locks, signals
<1>0. pc \in [Thread -> Label] /\ Handler(c) \in Handlers
  BY DEF TypeInv, TypeOK, Handlers
<1>1. CASE Connect(c)
  <2>1. "register" \in Label \ {"setQuality"} /\ listLock # Handler(c)
    BY <1>1, NotHolder DEF Connect, Label
  <2>2. QED BY <1>1, <2>1, MovesOutside DEF Connect
<1>2. CASE LockForRegister(c)
  BY <1>0, <1>2 DEF LockForRegister, LocksHeldInside, Signalling
<1>3. CASE Register(c)
  <2>1. ~(sync.at > 0)
    BY <1>3 DEF Register, LocksHeldInside, Signalling
  <2>2. \A d \in Conn : pc'[Handler(d)] = "setQuality" <=> pc[Handler(d)] = "setQuality"
    BY <1>0, <1>3 DEF Register
  <2>3. QED BY <1>3, <2>1, <2>2 DEF Register, LocksHeldInside
<1>4. CASE HandleAnswer(c)
  BY <1>4 DEF HandleAnswer, LocksHeldInside, Signalling
<1>5. CASE HandleAnswerPanics(c)
  <2>1. "done" \in Label \ {"setQuality"} /\ listLock # Handler(c)
    BY <1>5, NotHolder DEF HandleAnswerPanics, Label
  <2>2. QED BY <1>5, <2>1, MovesOutside DEF HandleAnswerPanics, LeaveHandler
<1>6. CASE LockQualities(c)
  <2>1. listLock # Handler(c)
    BY <1>6, NotHolder DEF LockQualities
  <2>2. listLock \in Thread => pc'[listLock] = pc[listLock]
    BY <1>0, <1>6, <2>1 DEF LockQualities
  <2>3. \A d \in Conn : qualitiesLock' = Handler(d) <=> pc'[Handler(d)] = "setQuality"
    BY <1>0, <1>6 DEF LockQualities, LocksHeldInside
  <2>4. QED BY <1>6, <2>2, <2>3 DEF LockQualities, LocksHeldInside, Signalling
<1>7. CASE SetTrackQuality(c)
  <2>1. listLock = Free /\ UNCHANGED <<listLock, sync>>
    BY <1>7 DEF SetTrackQuality
  <2>2. \A d \in Conn : pc'[Handler(d)] # "setQuality"
    BY <1>0, <1>7 DEF SetTrackQuality, LocksHeldInside
  <2>3. \A d \in Conn : qualitiesLock' # Handler(d)
    BY <1>7 DEF SetTrackQuality
  <2>4. QED BY <2>1, <2>2, <2>3 DEF LocksHeldInside
<1>8. QED
  BY <1>1, <1>2, <1>3, <1>4, <1>5, <1>6, <1>7 DEF HandlerStep

LEMMA TrackLocks ==
  ASSUME TypeInv, ControlInv, LocksHeldInside, NEW r \in Remote, TrackStep(r)
  PROVE  LocksHeldInside'
<1> USE Names DEF At, Goto, locks, signals
<1>0. pc \in [Thread -> Label] /\ OnTrack(r) \in Trackers
  BY DEF TypeInv, TypeOK, Trackers
<1>1. \A label \in Label : pc' = [pc EXCEPT ![OnTrack(r)] = label]
        => \A c \in Conn : pc'[Handler(c)] = pc[Handler(c)]
  BY <1>0
<1>2. CASE AddQualityTrack(r)
  <2>1. listLock # OnTrack(r)
    BY <1>2, NotHolder DEF AddQualityTrack
  <2>2. \E label \in Label \ {"setQuality"} : pc' = [pc EXCEPT ![OnTrack(r)] = label]
    BY <1>2 DEF AddQualityTrack, Label
  <2>3. QED BY <1>2, <2>1, <2>2, MovesOutside DEF AddQualityTrack
<1>3. CASE AddTrack(r) \/ UpdateClientTrackState(r) \/ RemoveTrack(r)
  <2>1. listLock # OnTrack(r) /\ UNCHANGED <<listLock, qualitiesLock, sync>>
    BY <1>3 DEF AddTrack, UpdateClientTrackState, RemoveTrack
  <2>2. /\ \E label \in Label \ {"setQuality"} : pc' = [pc EXCEPT ![OnTrack(r)] = label]
        /\ pc[OnTrack(r)] # "setQuality"
    BY <1>3 DEF AddTrack, UpdateClientTrackState, RemoveTrack, Label
  <2>3. QED BY <2>1, <2>2, MovesOutside
<1>4. CASE LockForUpdate(r)
  <2>1. ~(sync.at > 0)
    BY <1>4 DEF LockForUpdate, LocksHeldInside
  <2>2. \A c \in Conn : pc'[Handler(c)] = pc[Handler(c)]
    BY <1>1, <1>4 DEF LockForUpdate, Label
  <2>3. pc'[OnTrack(r)] = "updateQuality"
    BY <1>0, <1>4 DEF LockForUpdate
  <2>4. QED BY <1>0, <1>4, <2>1, <2>2, <2>3 DEF LockForUpdate, LocksHeldInside, Signalling
<1>5. CASE UpdateClientTrackStateQuality(r)
  <2>1. ~(sync.at > 0)
    BY <1>5 DEF UpdateClientTrackStateQuality, ControlInv, LocksHeldInside, Signalling
  <2>2. \A c \in Conn : pc'[Handler(c)] = pc[Handler(c)]
    BY <1>1, <1>5 DEF UpdateClientTrackStateQuality, Label
  <2>3. QED BY <1>5, <2>1, <2>2 DEF UpdateClientTrackStateQuality, LocksHeldInside
<1>6. CASE ReadFails(r)
  <2>1. listLock # OnTrack(r)
    BY <1>6, NotHolder DEF ReadFails, StopForwarding
  <2>2. \E label \in Label \ {"setQuality"} : pc' = [pc EXCEPT ![OnTrack(r)] = label]
    BY <1>6 DEF ReadFails, StopForwarding, Label
  <2>3. QED BY <1>6, <2>1, <2>2, MovesOutside DEF ReadFails, StopForwarding
<1>7. QED BY <1>2, <1>3, <1>4, <1>5, <1>6 DEF TrackStep

LEMMA EnvironmentLocks ==
  ASSUME TypeInv, ControlInv, LocksHeldInside, Environment
  PROVE  LocksHeldInside'
<1> USE Names DEF At, Goto, locks, signals
<1>1. ASSUME NEW c \in Conn, ClientAnswer(c) \/ ConnectionFailed(c)
      PROVE  LocksHeldInside'
  BY <1>1 DEF ClientAnswer, ConnectionFailed, LocksHeldInside, Signalling
<1>2. ASSUME NEW c \in Conn, WebsocketClosed(c)
      PROVE  LocksHeldInside'
  <2>1. "done" \in Label \ {"setQuality"} /\ listLock # Handler(c)
    BY <1>2, NotHolder DEF WebsocketClosed, Label
  <2>2. QED BY <1>2, <2>1, MovesOutside DEF WebsocketClosed, LeaveHandler
<1>3. ASSUME NEW c \in Conn, FinishClose(c)
      PROVE  LocksHeldInside'
  <2>1. pc[OnClosed(c)] = "idle" /\ listLock # OnClosed(c)
    BY <1>3 DEF FinishClose, ControlInv
  <2>2. "signal" \in Label \ {"setQuality"}
    BY DEF Label
  <2>3. QED BY <1>3, <2>1, <2>2, MovesOutside DEF FinishClose
<1>4. ASSUME NEW d \in Decisions, ReceiveDecision(d[1], d[2], d[3])
      PROVE  LocksHeldInside'
  <2>1. d[1] \in Conn
    BY ConstantsAssumption
  <2>2. "lockQualities" \in Label \ {"setQuality"} /\ listLock # Handler(d[1])
    BY <1>4, <2>1, NotHolder DEF ReceiveDecision, Label
  <2>3. QED BY <1>4, <2>1, <2>2, MovesOutside DEF ReceiveDecision
<1>5. ASSUME NEW r \in Remote, TrackStarts(r) \/ WriteFails(r)
      PROVE  LocksHeldInside'
  <2>1. listLock # OnTrack(r) /\ pc[OnTrack(r)] # "setQuality"
    BY <1>5, NotHolder DEF TrackStarts, WriteFails, StopForwarding
  <2>2. \E label \in Label \ {"setQuality"} : pc' = [pc EXCEPT ![OnTrack(r)] = label]
    BY <1>5 DEF TrackStarts, WriteFails, StopForwarding, Label
  <2>3. QED BY <1>5, <2>1, <2>2, MovesOutside DEF TrackStarts, WriteFails
<1>6. QED BY <1>1, <1>2, <1>3, <1>4, <1>5 DEF Environment

LEMMA StepLocks ==
  ASSUME TypeInv, ControlInv, LocksHeldInside, [Next]_vars
  PROVE  LocksHeldInside'
<1>1. CASE UNCHANGED vars
  BY <1>1 DEF vars, locks, signals, LocksHeldInside, Signalling, At
<1>2. CASE BeginRetry
  BY <1>2, Names DEF BeginRetry, LocksHeldInside, Signalling, At
<1>3. CASE \E t \in Thread : BeginSync(t)
  BY <1>3, Names DEF BeginSync, LocksHeldInside, Signalling, At
<1>4. QED
  BY <1>1, <1>2, <1>3, SyncLocks, HandlerLocks, TrackLocks, EnvironmentLocks
     DEF Next, SignalStep

(***************************************************************************)
(* Every mutex that is held is held by a goroutine inside the critical     *)
(* section that will release it, also after early returns and panics of    *)
(* signalPeerConnections (sfu/main.go:191-197, 226-230, 321-335, 351-356   *)
(* and 553-575).                                                           *)
(***************************************************************************)
THEOREM LocksHeldInsideHolds == Spec => []LocksHeldInside
<1>1. Init => TypeInv /\ ControlInv /\ LocksHeldInside
  BY InitType, InitControl, InitLocks
<1>2. TypeInv /\ ControlInv /\ LocksHeldInside /\ [Next]_vars
        => (TypeInv /\ ControlInv /\ LocksHeldInside)'
  BY StepType, StepControl, StepLocks
<1>3. QED BY <1>1, <1>2, PTL DEF Spec
-----------------------------------------------------------------------------
(***************************************************************************)
(* What the tables and the senders hold.                                   *)
(***************************************************************************)

\* A handler moves by its own steps, by the return of its call of
\* signalPeerConnections, and by what comes from its client.
LEMMA HandlerMoves ==
  ASSUME TypeInv, ControlInv, [Next]_vars, NEW c \in Conn
  PROVE  \/ pc'[Handler(c)] = pc[Handler(c)]
         \/ Signalling(Handler(c))
         \/ HandlerStep(c) \/ WebsocketClosed(c)
         \/ \E d \in Decisions : d[1] = c /\ ReceiveDecision(d[1], d[2], d[3])
<1> USE Names DEF Goto
<1>0. pc \in [Thread -> Label]
  BY DEF TypeInv, TypeOK
<1>1. CASE SyncStep
  <2>1. listLock = Retry \/ Signalling(listLock)
    BY <1>1, SyncCaller
  <2>2. ASSUME NEW b \in BOOLEAN, EndSync(b)
        PROVE  pc'[Handler(c)] = pc[Handler(c)] \/ Signalling(Handler(c))
    BY <1>0, <2>1, <2>2 DEF EndSync
  <2>3. SyncAddPanics => pc'[Handler(c)] = pc[Handler(c)] \/ Signalling(Handler(c))
    BY <1>0, <2>1 DEF SyncAddPanics
  <2>4. \/ EndSync(TRUE) \/ EndSync(FALSE) \/ SyncAddPanics \/ UNCHANGED pc
    BY <1>1 DEF SyncStep, SyncRemoveClosed, SyncCheckOpen, SyncTracks,
       SyncRemoveFails, SyncOffer, SyncOfferFails, SyncDone
  <2>5. QED BY <2>2, <2>3, <2>4
<1>2. CASE SignalStep /\ ~SyncStep
  BY <1>2 DEF SignalStep, BeginSync, BeginRetry
<1>3. CASE UNCHANGED vars
  BY <1>3 DEF vars
<1>4. ASSUME NEW d \in Conn, d # c, HandlerStep(d)
      PROVE  pc'[Handler(c)] = pc[Handler(c)]
  <2>1. UNCHANGED pc \/ \E label \in Label : pc' = [pc EXCEPT ![Handler(d)] = label]
    BY <1>4 DEF HandlerStep, Connect, LockForRegister, Register, HandleAnswer,
       HandleAnswerPanics, LeaveHandler, LockQualities, SetTrackQuality, Label
  <2>2. QED BY <1>0, <1>4, <2>1
<1>5. ASSUME NEW r \in Remote, TrackStep(r)
      PROVE  pc'[Handler(c)] = pc[Handler(c)]
  <2>1. \E label \in Label : pc' = [pc EXCEPT ![OnTrack(r)] = label]
    BY <1>5 DEF TrackStep, AddQualityTrack, AddTrack, UpdateClientTrackState,
       LockForUpdate, UpdateClientTrackStateQuality, ReadFails, StopForwarding,
       RemoveTrack, Label
  <2>2. QED BY <1>0, <2>1
<1>6. CASE Environment
  <2>1. ASSUME NEW d \in Conn, WebsocketClosed(d), d # c
        PROVE  pc'[Handler(c)] = pc[Handler(c)]
    BY <1>0, <2>1 DEF WebsocketClosed, LeaveHandler
  <2>2. ASSUME NEW d \in Conn, ClientAnswer(d) \/ ConnectionFailed(d) \/ FinishClose(d)
        PROVE  pc'[Handler(c)] = pc[Handler(c)]
    BY <1>0, <2>2 DEF ClientAnswer, ConnectionFailed, FinishClose
  <2>3. ASSUME NEW d \in Decisions, ReceiveDecision(d[1], d[2], d[3]), d[1] # c
        PROVE  pc'[Handler(c)] = pc[Handler(c)]
    <3>1. d[1] \in Conn
      BY ConstantsAssumption
    <3>2. QED BY <1>0, <2>3, <3>1 DEF ReceiveDecision
  <2>4. ASSUME NEW r \in Remote, TrackStarts(r) \/ WriteFails(r)
        PROVE  pc'[Handler(c)] = pc[Handler(c)]
    BY <1>0, <2>4 DEF TrackStarts, WriteFails, StopForwarding
  <2>5. QED BY <1>6, <2>1, <2>2, <2>3, <2>4 DEF Environment
<1>7. QED BY <1>1, <1>2, <1>3, <1>4, <1>5, <1>6 DEF Next

\* A handler that is applying a decision goes on by applying it.
LEMMA AppliesDecision ==
  ASSUME TypeInv, ControlInv, [Next]_vars, NEW c \in Conn,
         pc[Handler(c)] \in {"lockQualities", "setQuality"}
  PROVE  \/ pc'[Handler(c)] \in {"lockQualities", "setQuality"}
         \/ SetTrackQuality(c)
<1>0. pc \in [Thread -> Label] /\ Handler(c) \in Thread
  BY Names DEF TypeInv, TypeOK
<1>1. CASE HandlerStep(c)
  BY <1>0, <1>1 DEF HandlerStep, Connect, LockForRegister, Register, HandleAnswer,
     HandleAnswerPanics, LockQualities, At, Goto
<1>2. CASE \E d \in Decisions : d[1] = c /\ ReceiveDecision(d[1], d[2], d[3])
  BY <1>2 DEF ReceiveDecision, At
<1>3. QED BY <1>1, <1>2, HandlerMoves DEF Signalling, WebsocketClosed, At

\* A handler comes past its registration by Register.
LEMMA BecomesRegistered ==
  ASSUME TypeInv, ControlInv, [Next]_vars, NEW c \in Conn, Registered(c)'
  PROVE  Registered(c) \/ Register(c)
<1> SUFFICES ASSUME pc[Handler(c)] \in {"start", "register"}, ~Register(c)
             PROVE  FALSE
  BY DEF Registered
<1>0. pc \in [Thread -> Label] /\ Handler(c) \in Thread
  BY Names DEF TypeInv, TypeOK
<1>1. CASE HandlerStep(c)
  BY <1>0, <1>1 DEF Registered, HandlerStep, Connect, LockForRegister, HandleAnswer,
     HandleAnswerPanics, LockQualities, SetTrackQuality, At, Goto
<1>2. CASE \E d \in Decisions : d[1] = c /\ ReceiveDecision(d[1], d[2], d[3])
  BY <1>2 DEF ReceiveDecision, At
<1>3. QED BY <1>1, <1>2, HandlerMoves DEF Registered, Signalling, WebsocketClosed, At

\* A request is one that its handler is applying.
RequestInv ==
  \A c \in Conn :
    request[c] # None => pc[Handler(c)] \in {"lockQualities", "setQuality"}

LEMMA InitRequest == Init => RequestInv
BY DEF Init, RequestInv

LEMMA RequestSteps ==
  ASSUME [Next]_vars
  PROVE  \/ UNCHANGED request
         \/ \E c \in Conn : SetTrackQuality(c)
         \/ \E d \in Decisions : ReceiveDecision(d[1], d[2], d[3])
<1> USE DEF others
<1>1. CASE UNCHANGED vars
  BY <1>1 DEF vars
<1>2. CASE SignalStep
  BY <1>2 DEF SignalStep, SyncStep, SyncRemoveClosed, SyncCheckOpen, SyncTracks,
     SyncRemoveFails, SyncAddPanics, SyncOffer, SyncOfferFails, SyncDone, BeginSync, BeginRetry
<1>3. CASE \E c \in Conn : HandlerStep(c)
  BY <1>3 DEF HandlerStep, Connect, LockForRegister, Register, HandleAnswer,
     HandleAnswerPanics, LockQualities
<1>4. CASE \E r \in Remote : TrackStep(r)
  BY <1>4 DEF TrackStep, AddQualityTrack, AddTrack, UpdateClientTrackState,
     LockForUpdate, UpdateClientTrackStateQuality, ReadFails, RemoveTrack
<1>5. CASE Environment
  BY <1>5 DEF Environment, ClientAnswer, WebsocketClosed, ConnectionFailed,
     FinishClose, TrackStarts, WriteFails
<1>6. QED BY <1>1, <1>2, <1>3, <1>4, <1>5 DEF Next

LEMMA StepRequest ==
  ASSUME TypeInv, ControlInv, RequestInv, [Next]_vars
  PROVE  RequestInv'
<1>0. /\ request \in [Conn -> (VideoId \X Int) \cup {None}]
      /\ pc \in [Thread -> Label]
      /\ \A c \in Conn : Handler(c) \in Thread
  BY Names DEF TypeInv, TypeOK
<1> SUFFICES ASSUME NEW c \in Conn, request'[c] # None
             PROVE  pc'[Handler(c)] \in {"lockQualities", "setQuality"}
  BY DEF RequestInv
<1>1. CASE request'[c] = request[c]
  <2>1. pc[Handler(c)] \in {"lockQualities", "setQuality"}
    BY <1>1 DEF RequestInv
  <2>2. ~SetTrackQuality(c)
    BY <1>0 DEF SetTrackQuality
  <2>3. QED BY <2>1, <2>2, AppliesDecision
<1>2. CASE \E d \in Conn : SetTrackQuality(d)
  BY <1>0, <1>1, <1>2 DEF SetTrackQuality
<1>3. CASE \E d \in Decisions : ReceiveDecision(d[1], d[2], d[3])
  <2>1. PICK d \in Decisions : ReceiveDecision(d[1], d[2], d[3])
    BY <1>3
  <2>2. d[1] \in Conn
    BY ConstantsAssumption
  <2>3. CASE d[1] = c
    BY <1>0, <2>1, <2>3 DEF ReceiveDecision, Goto
  <2>4. CASE d[1] # c
    BY <1>0, <1>1, <2>1, <2>2, <2>4 DEF ReceiveDecision
  <2>5. QED BY <2>3, <2>4
<1>4. QED BY <1>1, <1>2, <1>3, RequestSteps

\* Audio has quality 0.
AudioInv ==
  \A id \in TrackId \ VideoId :
    /\ trackLocals[id] \in Track => trackLocals[id].quality = 0
    /\ \A c \in Conn : senders[c][id] \in Track => senders[c][id].quality = 0

LEMMA InitAudio == Init => AudioInv
BY ConstantsAssumption DEF Init, AudioInv

LEMMA StepAudio ==
  ASSUME TypeInv, AudioInv, [Next]_vars
  PROVE  AudioInv'
<1> USE Ids, RemoteTracks
<1>0. /\ trackLocals \in [TrackId -> Track \cup {None}]
      /\ None \notin Track /\ Nil \notin Track
  BY ConstantsAssumption DEF TypeInv, TypeOK
<1>a. ASSUME NEW r \in Remote, ~IsVideo(IdOf(r))
      PROVE  Live(r).quality = 0
  BY <1>a, AudioQuality DEF Live, NewTrack
<1> SUFFICES ASSUME NEW id \in TrackId, ~IsVideo(id)
             PROVE  /\ trackLocals'[id] \in Track => trackLocals'[id].quality = 0
                    /\ \A c \in Conn : senders'[c][id] \in Track
                                         => senders'[c][id].quality = 0
  BY DEF AudioInv
<1>1. trackLocals'[id] \in Track => trackLocals'[id].quality = 0
  <2>1. CASE UNCHANGED trackLocals
    BY <2>1 DEF AudioInv
  <2>2. CASE \E c \in Conn : Register(c)
    BY <2>2 DEF Register, AudioInv, NewTrack
  <2>3. CASE \E r \in Remote : AddTrack(r) \/ RemoveTrack(r)
    <3>1. PICK r \in Remote : AddTrack(r) \/ RemoveTrack(r)
      BY <2>3
    <3>2. \/ trackLocals'[id] \in {trackLocals[id], None}
          \/ id = IdOf(r) /\ trackLocals'[id] = Live(r)
      BY <1>0, <3>1 DEF AddTrack, RemoveTrack
    <3>3. QED BY <1>0, <1>a, <3>2 DEF AudioInv
  <2>4. CASE \E r \in Remote : AddQualityTrack(r)
    BY <2>1, <2>4 DEF AddQualityTrack
  <2>5. QED BY <2>1, <2>2, <2>3, <2>4, TableSteps
<1>2. ASSUME NEW c \in Conn, senders'[c][id] \in Track
      PROVE  senders'[c][id].quality = 0
  <2>1. \/ senders'[c][id] = senders[c][id]
        \/ senders'[c][id] = trackLocals[id]
        \/ \E s \in Remote : id = IdOf(s) /\ senders'[c][id] = Live(s)
    BY <1>0, <1>2, TrackSources
  <2>2. QED BY <1>2, <1>a, <2>1 DEF AudioInv
<1>3. QED BY <1>1, <1>2

\* A client that has registered has all its video tracks in both tables, and
\* a published video track has all its qualities.
FullInv ==
  /\ \A id \in VideoId : trackLocals[id] # None =>
       \A q \in Quality : trackQualities[id][q] # None
  /\ \A c \in Conn, id \in VideoId :
       Registered(c) /\ id[1] = ClientOf[c] => trackLocals[id] # None

LEMMA InitFull == Init => FullInv
BY Ids, Names DEF Init, FullInv, Registered

LEMMA QualitiesStay ==
  ASSUME TypeInv, [Next]_vars, NEW id \in VideoId, NEW q \in Quality,
         trackQualities[id][q] # None
  PROVE  trackQualities'[id][q] # None
<1>0. /\ trackQualities \in [VideoId -> [Quality -> Track \cup {None}]]
      /\ None \notin Track
  BY ConstantsAssumption DEF TypeInv, TypeOK
<1>1. CASE UNCHANGED trackQualities
  BY <1>1
<1>2. CASE \E c \in Conn : Register(c)
  <2>1. PICK c \in Conn : Register(c)
    BY <1>2
  <2>2. NewTrack(c, id[2], q, FALSE) # None
    BY NewTrackType DEF VideoId, Media
  <2>3. QED BY <2>1, <2>2 DEF Register
<1>3. CASE \E r \in Remote : AddQualityTrack(r)
  BY <1>0, <1>3, RemoteTracks DEF AddQualityTrack
<1>4. CASE \E r \in Remote : AddTrack(r) \/ RemoveTrack(r)
  BY <1>1, <1>4 DEF AddTrack, RemoveTrack
<1>5. QED BY <1>1, <1>2, <1>3, <1>4, TableSteps

LEMMA StepFull ==
  ASSUME TypeInv, TableInv, ControlInv, RegisterInv, FullInv, [Next]_vars
  PROVE  FullInv'
<1> USE Ids, RemoteTracks
<1>0. trackLocals \in [TrackId -> Track \cup {None}]
  BY DEF TypeInv, TypeOK
<1>1. ASSUME NEW c \in Conn, Register(c), NEW id \in VideoId, id[1] = ClientOf[c]
      PROVE  trackLocals'[id] # None /\ \A q \in Quality : trackQualities'[id][q] # None
  <2>1. id[2] \in Media
    BY DEF VideoId, Media
  <2>2. \A q \in Quality : NewTrack(c, id[2], q, FALSE) # None
    BY <2>1, NewTrackType
  <2>3. QED BY <1>1, <2>2 DEF Register
<1>2. ASSUME NEW id \in VideoId, trackLocals'[id] # None
      PROVE  \A q \in Quality : trackQualities'[id][q] # None
  <2>1. CASE trackLocals[id] # None
    BY <2>1, QualitiesStay DEF FullInv
  <2>2. CASE trackLocals[id] = None
    <3>1. CASE \E c \in Conn : Register(c) /\ id[1] = ClientOf[c]
      BY <1>1, <3>1
    <3>2. CASE \E r \in Remote : AddTrack(r) /\ IdOf(r) = id
      <4>1. PICK r \in Remote : AddTrack(r) /\ IdOf(r) = id
        BY <3>2
      <4>2. Registered(r[1]) /\ id[1] = ClientOf[r[1]]
        BY <4>1 DEF AddTrack, At, RegisterInv, IdOf
      <4>3. QED BY <2>2, <4>2 DEF FullInv
    <3>3. \/ trackLocals'[id] \in {trackLocals[id], None}
          \/ \E c \in Conn : Register(c) /\ id[1] = ClientOf[c]
          \/ \E r \in Remote : AddTrack(r) /\ IdOf(r) = id
      BY <1>0, TableSteps DEF Register, AddTrack, RemoveTrack, AddQualityTrack
    <3>4. QED BY <1>2, <2>2, <3>1, <3>2, <3>3
  <2>3. QED BY <2>1, <2>2
<1>3. ASSUME NEW c \in Conn, NEW id \in VideoId, Registered(c)', id[1] = ClientOf[c]
      PROVE  trackLocals'[id] # None
  BY <1>1, <1>3, BecomesRegistered, VideoStays DEF FullInv
<1>4. QED BY <1>2, <1>3 DEF FullInv
-----------------------------------------------------------------------------
(***************************************************************************)
(* The refinement of Subscription.                                         *)
(***************************************************************************)

\* The state of the service in that of the SFU.
Members   == {c \in Conn : Listed(c)}
Published == {id \in TrackId : trackLocals[id] # None}
Served    == [c \in Conn |-> [id \in TrackId |-> Service(senders[c][id])]]

LEMMA ServiceSteps ==
  ASSUME [Next]_vars
  PROVE  \/ UNCHANGED <<peerConnections, trackLocals, senders, offered, request>>
         \/ SyncRemoveClosed \/ SyncTracks \/ SyncOffer
         \/ \E c \in Conn : Register(c) \/ SetTrackQuality(c)
         \/ \E d \in Decisions : ReceiveDecision(d[1], d[2], d[3])
         \/ \E r \in Remote : \/ AddTrack(r) \/ RemoveTrack(r)
                              \/ UpdateClientTrackState(r)
                              \/ UpdateClientTrackStateQuality(r)
<1> USE DEF tables, state, transport, session, others
<1>1. CASE UNCHANGED vars
  BY <1>1 DEF vars
<1>2. CASE SignalStep
  BY <1>2 DEF SignalStep, SyncStep, SyncCheckOpen, SyncRemoveFails, SyncAddPanics,
     SyncOfferFails, SyncDone, BeginSync, BeginRetry
<1>3. CASE \E c \in Conn : HandlerStep(c)
  BY <1>3 DEF HandlerStep, Connect, LockForRegister, HandleAnswer,
     HandleAnswerPanics, LockQualities
<1>4. CASE \E r \in Remote : TrackStep(r)
  BY <1>4 DEF TrackStep, AddQualityTrack, LockForUpdate, ReadFails
<1>5. CASE Environment
  BY <1>5 DEF Environment, ClientAnswer, WebsocketClosed, ConnectionFailed,
     FinishClose, TrackStarts, WriteFails
<1>6. QED BY <1>1, <1>2, <1>3, <1>4, <1>5 DEF Next

LEMMA MembersAfterRegister ==
  ASSUME TypeInv, NEW c \in Conn, Register(c)
  PROVE  Members' = Members \cup {c}
<1>1. peerConnections \in Seq(Conn) /\ peerConnections' = Append(peerConnections, c)
  BY DEF TypeInv, TypeOK, Register
<1>2. ASSUME NEW d \in Conn
      PROVE  Listed(d)' <=> Listed(d) \/ d = c
  BY <1>1, AppendProperties, LenProperties DEF Listed
<1>3. QED BY <1>2 DEF Members

\* Taking one entry out takes out at most its connection.
LEMMA RemoveAtKeeps ==
  ASSUME NEW s \in Seq(Conn), NEW i \in DOMAIN s, NEW j \in DOMAIN s, s[j] # s[i]
  PROVE  \E k \in DOMAIN RemoveAt(s, i) : RemoveAt(s, i)[k] = s[j]
<1> DEFINE a == SubSeq(s, 1, i - 1)
           b == SubSeq(s, i + 1, Len(s))
<1>1. i \in 1..Len(s) /\ j \in 1..Len(s) /\ i # j
  BY LenProperties
<1>2. /\ a \in Seq(Conn)
      /\ Len(a) = i - 1
      /\ \A k \in 1..(i - 1) : a[k] = s[k]
  BY <1>1, SubSeqProperties
<1>3. /\ b \in Seq(Conn)
      /\ Len(b) = Len(s) - i
      /\ \A k \in 1..(Len(s) - i) : b[k] = s[i + k]
  BY <1>1, SubSeqProperties
<1>4. RemoveAt(s, i) = a \o b
  BY DEF RemoveAt
<1>5. CASE j < i
  <2>1. j \in 1..Len(a) /\ j \in 1..(Len(a) + Len(b))
    BY <1>1, <1>2, <1>3, <1>5
  <2>2. (a \o b)[j] = s[j] /\ j \in DOMAIN (a \o b)
    BY <1>2, <1>3, <2>1, ConcatProperties, LenProperties
  <2>3. QED BY <1>4, <2>2
<1>6. CASE j > i
  <2>1. ASSUME NEW n \in Nat, NEW p \in 1..n, NEW q \in 1..n, q > p
        PROVE  /\ q - 1 \in 1..((p - 1) + (n - p))
               /\ ~(q - 1 <= p - 1)
               /\ (q - 1) - (p - 1) = q - p
               /\ q - p \in 1..(n - p)
               /\ p + (q - p) = q
    BY <2>1
  <2>2. /\ j - 1 \in 1..((i - 1) + (Len(s) - i))
        /\ ~(j - 1 <= i - 1)
        /\ (j - 1) - (i - 1) = j - i
        /\ j - i \in 1..(Len(s) - i)
        /\ i + (j - i) = j
    BY <1>1, <1>6, <2>1, LenProperties
  <2>3. (a \o b)[j - 1] = b[j - i] /\ j - 1 \in DOMAIN (a \o b)
    <3> HIDE DEF a, b
    <3>1. Len(a \o b) = (i - 1) + (Len(s) - i) /\ a \o b \in Seq(Conn)
      BY <1>2, <1>3, ConcatProperties
    <3>2. /\ j - 1 \in 1..(Len(a) + Len(b))
          /\ ~(j - 1 <= Len(a))
          /\ (j - 1) - Len(a) = j - i
      BY <1>2, <1>3, <2>2
    <3>3. (a \o b)[j - 1] = b[(j - 1) - Len(a)]
      BY <1>2, <1>3, <3>2, ConcatProperties
    <3>4. QED BY <2>2, <3>1, <3>2, <3>3, LenProperties
  <2>4. b[j - i] = s[j]
    BY <1>3, <2>2
  <2>5. QED BY <1>4, <2>3, <2>4
<1>7. QED BY <1>1, <1>5, <1>6

LEMMA MembersAfterRemoval ==
  ASSUME TypeInv, SyncRemoveClosed
  PROVE  Members' = Members \/ (Target \in Conn /\ Members' = Members \ {Target})
<1>1. /\ peerConnections \in Seq(Conn)
      /\ sync.at \in DOMAIN peerConnections
      /\ peerConnections' = RemoveAt(peerConnections, sync.at)
      /\ Target \in Conn
  BY TargetType DEF TypeInv, TypeOK, SyncRemoveClosed, AtPhase
<1>2. ASSUME NEW d \in Conn
      PROVE  /\ Listed(d)' => Listed(d)
             /\ Listed(d) /\ d # Target => Listed(d)'
  <2>1. Listed(d)' => Listed(d)
    BY <1>1, RemoveAtElements DEF Listed
  <2>2. Listed(d) /\ d # Target => Listed(d)'
    BY <1>1, RemoveAtKeeps DEF Listed, Target
  <2>3. QED BY <2>1, <2>2
<1>3. QED BY <1>1, <1>2 DEF Members

\* What a sender serves is a quality exactly when it has a track.
LEMMA ServiceValues ==
  ASSUME NEW track \in Track \cup {None, Nil}
  PROVE  /\ track \in Track => Service(track) = track.quality /\ Service(track) \in Quality
         /\ track \notin Track => Service(track) = track /\ Service(track) \notin Quality
         /\ Service(track) = None <=> track = None
<1>1. None \notin Quality /\ Nil \notin Quality /\ None \notin Track /\ Nil \notin Track
  BY ConstantsAssumption DEF Quality
<1>2. track \in Track => track.quality \in Quality
  BY DEF Track
<1>3. QED BY <1>1, <1>2 DEF Service

\* A signalling round serves a connection what the table has of others, at
\* the quality that it had.
LEMMA ServedAfterSync ==
  ASSUME TypeInv, TableInv, SenderInv, AudioInv, NEW c \in Conn, NEW id \in TrackId
  PROVE  Service(SendersAfter(c)[id]) =
           IF id \notin Published \ {k \in TrackId : k[1] = ClientOf[c]} THEN None
           ELSE IF Service(senders[c][id]) \in Quality THEN Service(senders[c][id]) ELSE 0
<1> USE Ids
<1>0. /\ senders[c][id] \in Track \cup {None, Nil}
      /\ trackLocals[id] \in Track \cup {None}
      /\ id \in VideoId => trackQualities[id][0] \in Track \cup {None}
      /\ None \notin Track
  BY ConstantsAssumption DEF TypeInv, TypeOK
<1>1. SendersAfter(c)[id] # None <=> id \in Expected(c)
  BY SentAfter
<1>2. id \in Expected(c) <=> id \in Published \ {k \in TrackId : k[1] = ClientOf[c]}
  BY DEF Expected, Published
<1>3. CASE id \notin Expected(c)
  BY <1>0, <1>1, <1>2, <1>3 DEF Service
<1>4. CASE id \in Expected(c)
  <2>1. id \notin StaleSenders(c)
    BY <1>4 DEF Expected, StaleSenders
  <2>2. CASE senders[c][id] \in Track
    <3>1. SendersAfter(c)[id] = senders[c][id]
      BY <2>1, <2>2 DEF SendersAfter, MissingSenders, ExistingSenders
    <3>2. QED BY <1>0, <1>2, <1>4, <2>2, <3>1, ServiceValues
  <2>3. CASE senders[c][id] \notin Track
    <3>1. id \in MissingSenders(c)
      BY <1>4, <2>3 DEF Expected, MissingSenders, ExistingSenders
    <3>2. SendersAfter(c)[id] = SourceOf(id) /\ SourceOf(id) # None
      BY <1>1, <1>4, <3>1 DEF SendersAfter
    <3>3. SourceOf(id) \in Track /\ SourceOf(id).quality = 0
      BY <1>0, <3>2 DEF SourceOf, TableInv, AudioInv
    <3>4. Service(SendersAfter(c)[id]) = 0
      BY <3>2, <3>3 DEF Service
    <3>5. Service(senders[c][id]) \notin Quality
      BY <1>0, <2>3, ServiceValues
    <3>6. QED BY <1>2, <1>4, <3>4, <3>5
  <2>4. QED BY <2>2, <2>3
<1>5. QED BY <1>3, <1>4

\* setTrackQuality gives a connection what it asked for, if it sends the
\* track and the quality exists, and changes nothing else.
LEMMA ServedAfterDecision ==
  ASSUME TypeInv, TableInv, SenderInv, FullInv, NEW d \in Conn, SetTrackQuality(d),
         NEW c \in Conn, NEW id \in TrackId
  PROVE  LET k == request[d][1]
             q == request[d][2]
         IN Service(senders'[c][id]) =
              IF c = d /\ id = k /\ Service(senders[d][k]) # None /\ (q < 0 \/ q \in Quality)
              THEN IF q < 0 THEN Nil ELSE q
              ELSE Service(senders[c][id])
<1> DEFINE k == request[d][1]
           q == request[d][2]
           old == qualityDecisions[d][k]
<1> USE Ids
<1>0. /\ senders \in [Conn -> [TrackId -> Track \cup {None, Nil}]]
      /\ qualityDecisions \in [Conn -> [VideoId -> Int \cup {None}]]
      /\ k \in VideoId /\ q \in Int
      /\ senders[d][k] \in Track \cup {None, Nil}
  BY DEF TypeInv, TypeOK, RequestOK, SetTrackQuality, At
<1>1. Matches(senders[d][k], old)
  BY <1>0 DEF SenderInv, DecisionMatchesSender
<1>2. Service(senders[d][k]) = None <=> senders[d][k] = None
  BY <1>0, ServiceValues
<1>3. senders[d][k] # None => \A p \in Quality : /\ trackQualities[k][p] \in Track
                                                /\ trackQualities[k][p].quality = p
  BY <1>0 DEF SenderInv, FullInv, TableInv, TypeInv, TypeOK
<1>4. None \notin Track /\ Nil \notin Track /\ None # Nil /\ Nil \notin Int /\ None \notin Int
  BY ConstantsAssumption
<1>5. CASE ~(c = d /\ id = k)
  <2>1. senders'[c][id] = senders[c][id]
    <3>1. CASE UNCHANGED state
      BY <3>1 DEF state
    <3>2. CASE ~UNCHANGED state
      BY <1>0, <1>5, <3>2 DEF SetTrackQuality
    <3>3. QED BY <3>1, <3>2
  <2>2. QED BY <1>5, <2>1
<1>6. CASE c = d /\ id = k /\ senders[d][k] = None
  <2>1. senders'[d][k] = None
    <3>1. CASE UNCHANGED state
      BY <1>6, <3>1 DEF state
    <3>2. CASE ~UNCHANGED state
      BY <1>0, <1>6, <3>2 DEF SetTrackQuality
    <3>3. QED BY <3>1, <3>2
  <2>2. QED BY <1>2, <1>6, <2>1
<1>7. CASE c = d /\ id = k /\ senders[d][k] # None
  <2>1. old # None
    BY <1>1, <1>4, <1>7 DEF Matches, Track, Quality
  <2>2. CASE old = q
    <3>1. senders'[d][k] = senders[d][k]
      BY <2>2 DEF SetTrackQuality, state
    <3>2. CASE senders[d][k] = Nil
      <4>1. q < 0
        BY <1>1, <1>4, <2>2, <3>2 DEF Matches
      <4>2. QED BY <1>2, <1>4, <1>7, <3>1, <3>2, <4>1 DEF Service
    <3>3. CASE senders[d][k] \in Track
      <4>1. q \in Quality /\ senders[d][k].quality = q
        BY <1>1, <1>4, <2>2, <3>3 DEF Matches, Track
      <4>2. ~(q < 0)
        BY <4>1, ConstantsAssumption DEF Quality
      <4>3. QED BY <1>2, <1>7, <3>1, <3>3, <4>1, <4>2 DEF Service
    <3>4. QED BY <1>0, <1>7, <3>2, <3>3
  <2>3. CASE old # q /\ ~(q < 0) /\ q \notin Quality
    <3>1. ~KnownQuality(k, q) /\ q >= 0
      BY <1>0, <2>3 DEF KnownQuality
    <3>2. senders'[d][k] = senders[d][k]
      BY <1>7, <3>1 DEF SetTrackQuality, state
    <3>3. QED BY <1>7, <2>3, <3>2
  <2>4. CASE old # q /\ (q < 0 \/ q \in Quality)
    <3>1. q >= 0 => KnownQuality(k, q)
      <4>1. q >= 0 => q \in Quality
        BY <1>0, <2>4
      <4>2. QED BY <1>3, <1>4, <1>7, <4>1 DEF KnownQuality
    <3>2. senders' = [senders EXCEPT ![d][k] =
            IF @ = None THEN None ELSE IF q < 0 THEN Nil ELSE trackQualities[k][q]]
      BY <2>1, <2>4, <3>1 DEF SetTrackQuality
    <3>3. senders'[d][k] = IF q < 0 THEN Nil ELSE trackQualities[k][q]
      BY <1>0, <1>7, <3>2
    <3>4. CASE q < 0
      <4>1. senders'[d][k] = Nil
        BY <3>3, <3>4
      <4>2. QED BY <1>2, <1>4, <1>7, <3>4, <4>1 DEF Service
    <3>5. CASE ~(q < 0)
      <4>1. q \in Quality /\ senders'[d][k] = trackQualities[k][q]
        BY <2>4, <3>3, <3>5
      <4>2. Service(senders'[d][k]) = q
        BY <1>3, <1>7, <4>1 DEF Service
      <4>3. QED BY <1>2, <1>7, <3>5, <4>1, <4>2
    <3>6. QED BY <3>4, <3>5
  <2>5. QED BY <2>2, <2>3, <2>4
<1>8. QED BY <1>5, <1>6, <1>7

\* OnTrack changes what is sent, and not in which quality.
LEMMA ServedAfterReplace ==
  ASSUME TypeInv, SenderInv, AudioInv, NEW r \in Remote, ReplaceTracks(r),
         NEW c \in Conn, NEW id \in TrackId
  PROVE  Service(senders'[c][id]) = Service(senders[c][id])
<1> USE Ids, RemoteTracks
<1>0. senders[c][id] \in Track \cup {None, Nil} /\ None \notin Track /\ Nil \notin Track
  BY ConstantsAssumption DEF TypeInv, TypeOK
<1>1. CASE id = IdOf(r) /\ senders[c][id] # None /\ Listed(c) /\ Adopts(c, r)
  <2>1. senders'[c][id] = Live(r)
    BY <1>1 DEF ReplaceTracks
  <2>2. Service(Live(r)) = r[3]
    BY DEF Service, Live, NewTrack
  <2>3. CASE IsVideo(id)
    <3>1. Matches(senders[c][id], r[3])
      BY <1>1, <2>3 DEF Adopts, SenderInv, DecisionMatchesSender
    <3>2. ~(r[3] < 0)
      BY ConstantsAssumption DEF Quality
    <3>3. senders[c][id] \in Track /\ senders[c][id].quality = r[3]
      BY <1>0, <1>1, <3>1, <3>2 DEF Matches
    <3>4. QED BY <2>1, <2>2, <3>3 DEF Service
  <2>4. CASE ~IsVideo(id)
    <3>1. r[3] = 0
      BY <1>1, <2>4, AudioQuality
    <3>2. senders[c][id] \in Track
      BY <1>0, <1>1, <2>4 DEF SenderInv
    <3>3. senders[c][id].quality = 0
      BY <2>4, <3>2 DEF AudioInv
    <3>4. QED BY <2>1, <2>2, <3>1, <3>2, <3>3 DEF Service
  <2>5. QED BY <2>3, <2>4
<1>2. CASE ~(id = IdOf(r) /\ senders[c][id] # None /\ Listed(c) /\ Adopts(c, r))
  BY <1>2 DEF ReplaceTracks
<1>3. QED BY <1>1, <1>2

ServiceInv ==
  /\ TypeInv /\ TableInv /\ SenderInv /\ ControlInv /\ SyncInv
  /\ RegisterInv /\ RequestInv /\ AudioInv /\ FullInv

LEMMA InitService == Init => Subscriptions!Init
<1> SUFFICES ASSUME Init PROVE Subscriptions!Init
  OBVIOUS
<1>1. Members = {}
  BY DEF Init, Members, Listed
<1>2. Published = {}
  BY DEF Init, Published
<1>3. Served = [c \in Conn |-> [id \in TrackId |-> None]]
  BY ConstantsAssumption DEF Init, Served, Service
<1>4. QED BY <1>1, <1>2, <1>3 DEF Init, Subscriptions!Init, Members, Published, Served

LEMMA StepService ==
  ASSUME ServiceInv, [Next]_vars
  PROVE  [Subscriptions!Next]_(Subscriptions!service)
<1> USE Ids, RemoteTracks
<1> USE DEF ServiceInv
<1>p. Published' = {id \in TrackId : trackLocals'[id] # None}
  BY DEF Published
<1>s. Served' = [c \in Conn |-> [id \in TrackId |-> Service(senders'[c][id])]]
  BY DEF Served, Service
<1>0. /\ trackLocals \in [TrackId -> Track \cup {None}]
      /\ senders \in [Conn -> [TrackId -> Track \cup {None, Nil}]]
      /\ offered \in [Conn -> SUBSET TrackId]
      /\ None \notin Track
  BY ConstantsAssumption DEF TypeInv, TypeOK
\* What every action of the service leaves alone.
<1>u. ASSUME Members' = Members, Published' = Published, Served' = Served,
             UNCHANGED <<offered, request>>
      PROVE  UNCHANGED Subscriptions!service
  BY <1>u DEF Subscriptions!service, Members, Published, Served
<1>m. UNCHANGED peerConnections => Members' = Members
  BY DEF Members, Listed
<1>1. CASE UNCHANGED <<peerConnections, trackLocals, senders, offered, request>>
  BY <1>1, <1>u, <1>m, <1>p, <1>s DEF Published, Served
<1>2. ASSUME NEW c \in Conn, Register(c)
      PROVE  Subscriptions!Join(c)
  <2>1. Members' = Members \cup {c}
    BY <1>2, MembersAfterRegister
  <2>2. Published' = Published \cup {id \in TrackId : id[1] = ClientOf[c]}
    <3>1. \A id \in TrackId : NewTrack(c, id[2], 0, FALSE) # None
      BY NewTrackType DEF TrackId
    <3>2. \A id \in TrackId : trackLocals'[id] # None
                                <=> id[1] = ClientOf[c] \/ trackLocals[id] # None
      BY <1>2, <3>1 DEF Register
    <3>3. QED BY <1>p, <3>2 DEF Published
  <2>3. Served' = Served /\ UNCHANGED <<offered, request>>
    BY <1>2, <1>s DEF Register, Served, state, transport, session, others
  <2>4. QED BY <2>1, <2>2, <2>3 DEF Subscriptions!Join, Subscriptions!OwnTracks,
        Members, Published, Served
<1>3. CASE SyncRemoveClosed
  <2>1. Published' = Published /\ Served' = Served /\ UNCHANGED <<offered, request>>
    BY <1>3, <1>p, <1>s DEF SyncRemoveClosed, Published, Served, state, transport, session, others
  <2>2. CASE Members' = Members
    BY <1>u, <2>1, <2>2
  <2>3. CASE Target \in Conn /\ Members' = Members \ {Target}
    <3>1. Subscriptions!Leave(Target)
      BY <2>1, <2>3 DEF Subscriptions!Leave, Members, Published, Served
    <3>2. QED BY <2>3, <3>1 DEF Subscriptions!Next
  <2>4. QED BY <1>3, <2>2, <2>3, MembersAfterRemoval
<1>4. CASE SyncTracks
  <2>1. /\ Target \in Conn
        /\ Listed(Target)
        /\ senders' = [senders EXCEPT ![Target] = SendersAfter(Target)]
        /\ UNCHANGED <<peerConnections, trackLocals, offered, request>>
    BY <1>4, TargetType DEF SyncTracks, AtPhase, Listed, Target, tables, transport,
       session, others
  <2>2. Members' = Members /\ Published' = Published
    BY <1>m, <1>p, <2>1 DEF Published
  <2> DEFINE new == [id \in TrackId |->
               IF id \notin Published \ {k \in TrackId : k[1] = ClientOf[Target]} THEN None
               ELSE IF Served[Target][id] \in Quality THEN Served[Target][id] ELSE 0]
  <2>3. Served' = [Served EXCEPT ![Target] = new]
    <3>1. \A c \in Conn : c # Target => senders'[c] = senders[c]
      BY <1>0, <2>1
    <3>2. senders'[Target] = SendersAfter(Target)
      BY <1>0, <2>1
    <3>3. \A id \in TrackId : Service(SendersAfter(Target)[id]) =
            IF id \notin Published \ {k \in TrackId : k[1] = ClientOf[Target]} THEN None
            ELSE IF Served[Target][id] \in Quality THEN Served[Target][id] ELSE 0
      BY <2>1, ServedAfterSync DEF Served
    <3>4. [id \in TrackId |-> Service(senders'[Target][id])] = new
      BY <3>2, <3>3
    <3>5. \A c \in Conn : [id \in TrackId |-> Service(senders'[c][id])]
                            = IF c = Target THEN new ELSE Served[c]
      BY <3>1, <3>4 DEF Served
    <3> HIDE DEF new
    <3>6. Served' = [c \in Conn |-> IF c = Target THEN new ELSE Served[c]]
      BY <1>s, <3>5
    <3>7. Served = [c \in Conn |-> Served[c]]
      BY DEF Served
    <3>8. QED BY <3>6, <3>7
  <2>4. Subscriptions!Serve(Target)
    BY <2>1, <2>2, <2>3 DEF Subscriptions!Serve, Subscriptions!UpToDate,
       Subscriptions!Expected, Subscriptions!OwnTracks, Members, Published, Served
  <2>5. QED BY <2>1, <2>4 DEF Subscriptions!Next
<1>5. CASE SyncOffer
  <2>1. /\ Target \in Conn
        /\ Listed(Target)
        /\ offered' = [offered EXCEPT ![Target] = Sent(Target)]
        /\ UNCHANGED <<peerConnections, trackLocals, senders, request>>
    BY <1>5, TargetType DEF SyncOffer, AtPhase, Listed, Target, Sent, tables, state, others
  <2>2. Sent(Target) = Expected(Target)
    BY <1>5 DEF SyncOffer, SyncInv
  <2>3. Sent(Target) = {id \in TrackId : Served[Target][id] # None}
    <3>1. \A id \in TrackId : Service(senders[Target][id]) # None <=> senders[Target][id] # None
      BY <1>0, <2>1, ServiceValues
    <3>2. QED BY <2>1, <3>1 DEF Sent, Served
  <2>4. Expected(Target) = Published \ {id \in TrackId : id[1] = ClientOf[Target]}
    BY DEF Expected, Published
  <2>5. Members' = Members /\ Published' = Published /\ Served' = Served
    BY <1>m, <1>p, <1>s, <2>1 DEF Published, Served
  <2>6. Subscriptions!Offer(Target)
    BY <2>1, <2>2, <2>3, <2>4, <2>5 DEF Subscriptions!Offer, Subscriptions!Expected,
       Subscriptions!OwnTracks, Members, Published, Served
  <2>7. QED BY <2>1, <2>6 DEF Subscriptions!Next
<1>6. ASSUME NEW r \in Remote, AddTrack(r) \/ RemoveTrack(r)
      PROVE  [Subscriptions!Next]_(Subscriptions!service)
  <2>1. UNCHANGED <<peerConnections, senders, offered, request>>
    BY <1>6 DEF AddTrack, RemoveTrack, state, transport, session, others
  <2>2. Members' = Members /\ Served' = Served
    BY <1>m, <1>s, <2>1 DEF Served
  <2>3. CASE AddTrack(r) /\ IdOf(r) \in VideoId
    <3>1. trackLocals[IdOf(r)] # None
      <4>1. Registered(r[1]) /\ IdOf(r)[1] = ClientOf[r[1]]
        BY <2>3 DEF AddTrack, At, RegisterInv, IdOf
      <4>2. QED BY <2>3, <4>1 DEF FullInv
    <3>2. Published' = Published
      BY <1>0, <1>p, <2>3, <3>1 DEF AddTrack, Published
    <3>3. QED BY <1>u, <2>1, <2>2, <3>2
  <2>4. CASE AddTrack(r) /\ IdOf(r) \notin VideoId
    <3>1. Published' = Published \cup {IdOf(r)}
      BY <1>0, <1>p, <2>4 DEF AddTrack, Published
    <3>2. Subscriptions!Publish(IdOf(r))
      BY <2>1, <2>2, <3>1 DEF Subscriptions!Publish, Members, Published, Served
    <3>3. QED BY <2>4, <3>2 DEF Subscriptions!Next
  <2>5. CASE RemoveTrack(r)
    <3>1. IdOf(r) \notin VideoId
      BY <2>5 DEF RemoveTrack, TableInv
    <3>2. Published' = Published \ {IdOf(r)}
      BY <1>0, <1>p, <2>5 DEF RemoveTrack, Published
    <3>3. Subscriptions!Withdraw(IdOf(r))
      BY <2>1, <2>2, <3>2 DEF Subscriptions!Withdraw, Members, Published, Served
    <3>4. QED BY <3>1, <3>3 DEF Subscriptions!Next
  <2>6. QED BY <1>6, <2>3, <2>4, <2>5
<1>7. ASSUME NEW d \in Decisions, ReceiveDecision(d[1], d[2], d[3])
      PROVE  Subscriptions!Ask(d[1], d[2], d[3])
  <2>1. d[1] \in Conn
    BY ConstantsAssumption
  <2>2. request[d[1]] = None
    BY <1>7, <2>1 DEF ReceiveDecision, RequestInv, At
  <2>3. UNCHANGED <<peerConnections, trackLocals, senders, offered>>
    BY <1>7 DEF ReceiveDecision, tables, state, transport, session
  <2>4. Members' = Members /\ Published' = Published /\ Served' = Served
    BY <1>m, <1>p, <1>s, <2>3 DEF Published, Served
  <2>5. QED BY <1>7, <2>2, <2>3, <2>4 DEF ReceiveDecision, Subscriptions!Ask, Members,
        Published, Served
<1>8. ASSUME NEW c \in Conn, SetTrackQuality(c)
      PROVE  Subscriptions!Grant(c)
  <2> DEFINE k == request[c][1]
             q == request[c][2]
  <2>1. request[c] # None /\ request[c] \in VideoId \X Int
    BY <1>8, ConstantsAssumption DEF SetTrackQuality, At, TypeInv, RequestOK, TypeOK
  <2>2. UNCHANGED <<peerConnections, trackLocals, offered>>
    BY <1>8 DEF SetTrackQuality, tables, transport, session
  <2>3. Members' = Members /\ Published' = Published
    BY <1>m, <1>p, <2>2 DEF Published
  <2>4. Served' = IF Served[c][k] # None /\ (q < 0 \/ q \in Quality)
                  THEN [Served EXCEPT ![c][k] = IF q < 0 THEN Nil ELSE q]
                  ELSE Served
    <3>1. k \in TrackId
      BY <2>1
    <3>2. Served[c][k] = Service(senders[c][k])
      BY <3>1 DEF Served
    <3>3. \A d \in Conn, id \in TrackId :
            Service(senders'[d][id]) =
              IF d = c /\ id = k /\ Served[c][k] # None /\ (q < 0 \/ q \in Quality)
              THEN IF q < 0 THEN Nil ELSE q
              ELSE Served[d][id]
      BY <1>8, <3>2, ServedAfterDecision DEF Served
    <3>4. CASE Served[c][k] # None /\ (q < 0 \/ q \in Quality)
      <4> DEFINE granted == IF q < 0 THEN Nil ELSE q
      <4>1. \A d \in Conn : [id \in TrackId |-> Service(senders'[d][id])]
              = IF d = c THEN [id \in TrackId |-> IF id = k THEN granted ELSE Served[c][id]]
                ELSE Served[d]
        BY <3>3, <3>4 DEF Served
      <4> HIDE DEF granted
      <4>2. Served' = [d \in Conn |->
              IF d = c THEN [id \in TrackId |-> IF id = k THEN granted ELSE Served[c][id]]
              ELSE Served[d]]
        BY <1>s, <4>1
      <4>3. /\ Served = [d \in Conn |-> Served[d]]
            /\ Served[c] = [id \in TrackId |-> Served[c][id]]
        BY DEF Served
      <4>4. Served' = [Served EXCEPT ![c][k] = granted]
        BY <4>2, <4>3
      <4>5. QED BY <3>4, <4>4 DEF granted
    <3>5. CASE ~(Served[c][k] # None /\ (q < 0 \/ q \in Quality))
      <4>1. \A d \in Conn : [id \in TrackId |-> Service(senders'[d][id])] = Served[d]
        BY <3>3, <3>5 DEF Served
      <4>2. Served = [d \in Conn |-> Served[d]]
        BY DEF Served
      <4>3. QED BY <1>s, <3>5, <4>1, <4>2
    <3>6. QED BY <3>4, <3>5
  <2>5. request' = [request EXCEPT ![c] = None]
    BY <1>8 DEF SetTrackQuality
  <2>6. QED BY <2>1, <2>2, <2>3, <2>4, <2>5 DEF Subscriptions!Grant, Members,
        Published, Served
<1>9. ASSUME NEW r \in Remote, UpdateClientTrackState(r) \/ UpdateClientTrackStateQuality(r)
      PROVE  UNCHANGED Subscriptions!service
  <2>1. ReplaceTracks(r) /\ UNCHANGED <<peerConnections, trackLocals, offered, request>>
    BY <1>9 DEF UpdateClientTrackState, UpdateClientTrackStateQuality, tables, transport,
       session, others
  <2>2. Served' = Served
    BY <1>s, <2>1, ServedAfterReplace DEF Served
  <2>3. QED BY <1>u, <1>m, <1>p, <2>1, <2>2 DEF Published
<1>10. QED
  BY <1>1, <1>2, <1>3, <1>4, <1>5, <1>6, <1>7, <1>8, <1>9, ServiceSteps
     DEF Subscriptions!Next

(***************************************************************************)
(* Whatever goroutines run and whoever fails: each client is offered       *)
(* exactly what the others publish at that moment, keeps the quality it    *)
(* chose while it is sent something, and gets what it asks for; SFU        *)
(* implements Subscription (sfu/main.go:119-222, 226-367, 553-575).        *)
(***************************************************************************)
THEOREM ImplementsSubscription == Spec => IsSubscription
<1>1. Init => ServiceInv
  BY InitType, InitTable, InitSender, InitControl, InitSync, InitRegister, InitRequest,
     InitAudio, InitFull DEF ServiceInv
<1>2. ServiceInv /\ [Next]_vars => ServiceInv'
  BY StepType, StepTable, StepSender, StepControl, StepSync, StepRegister, StepRequest,
     StepAudio, StepFull DEF ServiceInv
<1>3. Init => Subscriptions!Init
  BY InitService
<1>4. ServiceInv /\ [Next]_vars => [Subscriptions!Next]_(Subscriptions!service)
  BY StepService
<1>5. QED BY <1>1, <1>2, <1>3, <1>4, PTL DEF Spec, IsSubscription, Subscriptions!Spec
-----------------------------------------------------------------------------
(***************************************************************************)
(* End to end.                                                             *)
(***************************************************************************)

\* What is forwarded is published.
LEMMA ForwardedInTable ==
  ASSUME RegisterInv, FullInv, PublishedInv, NEW r \in Remote, At(OnTrack(r), "forward")
  PROVE  trackLocals[IdOf(r)] # None
<1>1. CASE r[2] = Audio
  BY <1>1 DEF PublishedInv, At
<1>2. CASE r[2] # Audio
  <2>1. Registered(r[1]) /\ r[1] \in Conn
    BY RemoteTracks DEF RegisterInv, At
  <2>2. IdOf(r) \in VideoId /\ IdOf(r)[1] = ClientOf[r[1]]
    BY <1>2, RemoteTracks, Ids DEF IdOf, IsVideo
  <2>3. QED BY <2>1, <2>2 DEF FullInv
<1>3. QED BY <1>1, <1>2

LEMMA SyncedReceives ==
  ASSUME RegisterInv, FullInv, PublishedInv, ForwardedIsReceived, SyncedWhenQuiet
  PROVE  EveryoneReceives
<1> SUFFICES ASSUME Quiet, ~crashed, NEW r \in Remote, NEW c \in Conn,
                    At(OnTrack(r), "forward"), Listed(c), ClientOf[c] # ClientOf[r[1]]
             PROVE  /\ IdOf(r) \in offered[c]
                    /\ Adopts(c, r) => senders[c][IdOf(r)] = Live(r)
  BY DEF EveryoneReceives
<1>1. IdOf(r) \in Expected(c)
  <2>1. IdOf(r) \in TrackId /\ IdOf(r)[1] = ClientOf[r[1]]
    BY RemoteTracks, Ids DEF IdOf
  <2>2. QED BY <2>1, ForwardedInTable DEF Expected
<1>2. Synced(c)
  BY DEF SyncedWhenQuiet, Listed
<1>3. IdOf(r) \in offered[c] /\ senders[c][IdOf(r)] # None
  BY <1>1, <1>2 DEF Synced, Sent
<1>4. QED BY <1>3 DEF ForwardedIsReceived, Adopts

(***************************************************************************)
(* Whatever fails, and in whatever order clients come, go, decide and      *)
(* answer: once nobody is going to signal any more, every track that is    *)
(* forwarded has been offered to all others and reaches those that want    *)
(* this quality, if no client connects twice (sfu/main.go:226-367,         *)
(* 553-575 and 637-688).                                                   *)
(***************************************************************************)
THEOREM EveryoneReceivesHolds ==
  ASSUME OneConnectionEach
  PROVE  Spec => []EveryoneReceives
<1> DEFINE Inv == ServiceInv /\ PublishedInv
<1>1. Init => Inv
  BY InitType, InitTable, InitSender, InitControl, InitSync, InitRegister, InitRequest,
     InitAudio, InitFull, InitPublished DEF ServiceInv
<1>2. Inv /\ [Next]_vars => Inv'
  BY StepType, StepTable, StepSender, StepControl, StepSync, StepRegister, StepRequest,
     StepAudio, StepFull, StepPublished DEF ServiceInv
<1>3. Spec => []ForwardedIsReceived
  BY ForwardedIsReceivedHolds
<1>4. Spec => []SyncedWhenQuiet
  BY NoUpdateMissed
<1>5. Inv /\ ForwardedIsReceived /\ SyncedWhenQuiet => EveryoneReceives
  BY SyncedReceives DEF ServiceInv
<1>6. QED BY <1>1, <1>2, <1>3, <1>4, <1>5, PTL DEF Spec
-----------------------------------------------------------------------------
(***************************************************************************)
(* Decisions: what `paused' and `blocked' take.                            *)
(***************************************************************************)

\* A decision that is being applied is one that a client may send.
DecidedInv ==
  \A c \in Conn : request[c] # None =>
    \E d \in Decisions : request[c] = <<d[2], d[3]>>

LEMMA StepDecided ==
  ASSUME TypeInv, DecidedInv, [Next]_vars
  PROVE  DecidedInv'
<1>0. request \in [Conn -> (VideoId \X Int) \cup {None}]
  BY DEF TypeInv, TypeOK
<1>1. CASE UNCHANGED request
  BY <1>1 DEF DecidedInv
<1>2. CASE \E c \in Conn : SetTrackQuality(c)
  BY <1>0, <1>2 DEF DecidedInv, SetTrackQuality
<1>3. CASE \E d \in Decisions : ReceiveDecision(d[1], d[2], d[3])
  <2> PICK d \in Decisions : ReceiveDecision(d[1], d[2], d[3])
    BY <1>3
  <2>1. request' = [request EXCEPT ![d[1]] = <<d[2], d[3]>>]
    BY DEF ReceiveDecision
  <2>2. QED BY <1>0, <2>1 DEF DecidedInv
<1>4. QED BY <1>1, <1>2, <1>3, RequestSteps

\* Nothing is paused unless somebody pauses it.
NothingPaused == \A c \in Conn, id \in TrackId : senders[c][id] # Nil

LEMMA StepUnpaused ==
  ASSUME NobodyPauses, TypeInv, DecidedInv, NothingPaused, [Next]_vars
  PROVE  NothingPaused'
<1> SUFFICES ASSUME NEW c \in Conn, NEW id \in TrackId PROVE senders'[c][id] # Nil
  BY DEF NothingPaused
<1>0. /\ senders \in [Conn -> [TrackId -> Track \cup {None, Nil}]]
      /\ trackLocals \in [TrackId -> Track \cup {None}]
      /\ trackQualities \in [VideoId -> [Quality -> Track \cup {None}]]
      /\ Nil \notin Track \cup {None}
  BY ConstantsAssumption DEF TypeInv, TypeOK
<1>1. senders[c][id] # Nil
  BY DEF NothingPaused
<1>2. CASE UNCHANGED state
  BY <1>1, <1>2 DEF state
<1>3. CASE SyncTracks
  <2>1. Target \in Conn /\ senders' = [senders EXCEPT ![Target] = SendersAfter(Target)]
    BY <1>3, TargetType DEF SyncTracks
  <2>2. SendersAfter(c)[id] # Nil
    BY <1>0, <1>1, SyncSource, Ids
  <2>3. QED BY <1>0, <1>1, <2>1, <2>2
<1>4. ASSUME NEW d \in Conn, SetTrackQuality(d) PROVE senders'[c][id] # Nil
  <2> DEFINE k == request[d][1]
             q == request[d][2]
  <2>1. k \in VideoId /\ q \in Int /\ request[d] # None
    <3>1. request[d] \in VideoId \X Int
      BY <1>4 DEF TypeInv, RequestOK, SetTrackQuality, At
    <3>2. QED BY <3>1, ConstantsAssumption
  <2>2. q >= 0
    BY <2>1 DEF DecidedInv, NobodyPauses
  <2>3. CASE UNCHANGED state
    BY <1>1, <2>3 DEF state
  <2>4. CASE ~UNCHANGED state
    <3>1. /\ senders' = [senders EXCEPT ![d][k] =
                IF @ = None THEN None ELSE IF q < 0 THEN Nil ELSE trackQualities[k][q]]
          /\ senders[d][k] # None => q \in Quality
      BY <1>4, <2>2, <2>4 DEF SetTrackQuality, KnownQuality
    <3>2. ~(q < 0)
      BY <2>1, <2>2
    <3>3. senders[d][k] # None => trackQualities[k][q] # Nil
      BY <1>0, <2>1, <3>1
    <3> HIDE DEF k, q
    <3>4. QED BY <1>0, <1>1, <3>1, <3>2, <3>3
  <2>5. QED BY <2>3, <2>4
<1>5. ASSUME NEW s \in Remote, UpdateClientTrackState(s) \/ UpdateClientTrackStateQuality(s)
      PROVE  senders'[c][id] # Nil
  <2>1. senders'[c][id] \in {Live(s), senders[c][id]}
    BY <1>5 DEF UpdateClientTrackState, UpdateClientTrackStateQuality, ReplaceTracks
  <2>2. QED BY <1>0, <1>1, <2>1, RemoteTracks
<1>6. QED BY <1>2, <1>3, <1>4, <1>5, SenderSteps

\* Signalling leaves alone what is sent, unless it is paused.
LEMMA SyncKeeps ==
  ASSUME TypeInv, SenderInv, SyncTracks,
         NEW c \in Conn, NEW id \in VideoId, senders[c][id] \notin {None, Nil}
  PROVE  /\ senders'[c][id] = senders[c][id]
         /\ qualityDecisions'[c][id] = qualityDecisions[c][id]
<1>0. /\ senders \in [Conn -> [TrackId -> Track \cup {None, Nil}]]
      /\ qualityDecisions \in [Conn -> [VideoId -> Int \cup {None}]]
      /\ id \in TrackId
  BY Ids DEF TypeInv, TypeOK
<1>1. senders[c][id] \in Track /\ trackLocals[id] # None
  BY <1>0 DEF SenderInv
<1>2. id \notin MissingSenders(c) /\ id \notin StaleSenders(c)
  BY <1>0, <1>1 DEF MissingSenders, ExistingSenders, StaleSenders
<1>3. /\ SendersAfter(c)[id] = senders[c][id]
      /\ DecisionsAfter(c)[id] = qualityDecisions[c][id]
  BY <1>0, <1>2 DEF SendersAfter, DecisionsAfter
<1>4. /\ Target \in Conn
      /\ senders' = [senders EXCEPT ![Target] = SendersAfter(Target)]
      /\ qualityDecisions' = [qualityDecisions EXCEPT ![Target] = DecisionsAfter(Target)]
  BY TargetType DEF SyncTracks
<1>5. QED BY <1>0, <1>3, <1>4

(***************************************************************************)
(* What the run paused refutes holds as long as no decision is negative:   *)
(* a round of signalPeerConnections adds no second sender for a track and  *)
(* keeps the quality that the client decided for (sfu/main.go:239-297).    *)
(***************************************************************************)
THEOREM NoDoubleSendIfNobodyPauses ==
  ASSUME NobodyPauses
  PROVE  Spec => NoDoubleSend
<1> DEFINE Inv == TypeInv /\ TableInv /\ SenderInv /\ DecidedInv /\ NothingPaused
<1>1. Init => Inv
  <2>1. Init => DecidedInv
    BY DEF Init, DecidedInv
  <2>2. Init => NothingPaused
    BY ConstantsAssumption DEF Init, NothingPaused
  <2>3. QED BY <2>1, <2>2, InitType, InitTable, InitSender
<1>2. Inv /\ [Next]_vars => Inv'
  BY StepType, StepTable, StepSender, StepDecided, StepUnpaused
<1>3. Inv => [\A c \in Conn, id \in VideoId :
                SyncTracks /\ senders[c][id] # None
                  => /\ senders'[c][id] = senders[c][id]
                     /\ qualityDecisions'[c][id] = qualityDecisions[c][id]]_vars
  BY SyncKeeps, Ids DEF NothingPaused
<1>4. QED BY <1>1, <1>2, <1>3, PTL DEF Spec, NoDoubleSend

(***************************************************************************)
(* Without decisions nobody holds one of the two mutexes while it waits    *)
(* for the other, so the deadlock of the run blocked takes a decision:     *)
(* only setTrackQuality (sfu/main.go:191-193) holds qualitiesLock across   *)
(* another Lock.                                                           *)
(***************************************************************************)
THEOREM BlockedTakesADecision ==
  ASSUME Decisions = {}
  PROVE  Spec => [](qualitiesLock = Free)
<1> DEFINE Inv == TypeInv /\ DecidedInv
<1>1. Init => Inv
  BY InitType, ConstantsAssumption DEF Init, DecidedInv
<1>2. Inv /\ [Next]_vars => Inv'
  BY StepType, StepDecided
<1>3. Inv /\ LocksHeldInside => qualitiesLock = Free
  <2> SUFFICES ASSUME Inv, LocksHeldInside, qualitiesLock \in Handlers PROVE FALSE
    BY DEF TypeInv, TypeOK
  <2> PICK c \in Conn : qualitiesLock = Handler(c)
    BY DEF Handlers
  <2>1. At(Handler(c), "setQuality")
    BY DEF LocksHeldInside
  <2>2. request[c] # None
    BY <2>1, ConstantsAssumption DEF TypeInv, RequestOK, At
  <2>3. QED BY <2>2 DEF DecidedInv
<1>4. QED BY <1>1, <1>2, <1>3, LocksHeldInsideHolds, PTL DEF Spec
=============================================================================
