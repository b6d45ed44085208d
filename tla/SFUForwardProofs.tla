-------------------------- MODULE SFUForwardProofs --------------------------
(***************************************************************************)
(* Proofs that subscribers get the packets that OnTrack forwards, for      *)
(* every set of connections, tiles and qualities.                          *)
(***************************************************************************)
EXTENDS SFUProofs

Registered(c) == pc[Handler(c)] \notin {"start", "register"}

\* Before it registers, a connection has no answer, no senders and no place
\* in the list; tracks arrive after that.
RegisterInv ==
  /\ \A c \in Conn : ~Registered(c) =>
       /\ ~answered[c]
       /\ ~Listed(c)
       /\ \A id \in TrackId : senders[c][id] = None
  /\ \A r \in Remote : ~At(OnTrack(r), "idle") => Registered(r[1])

\* Once OnTrack has put its track into the tables, the placeholder that its
\* connection made there is gone.
LiveInv ==
  \A r \in Remote :
    /\ r[2] # Audio /\ pc[OnTrack(r)] \notin {"idle", "addQuality"}
         => Own(r, trackQualities[IdOf(r)][r[3]])
    /\ r[2] = Audio /\ pc[OnTrack(r)] \notin {"idle", "addTrack"}
         => Own(r, trackLocals[IdOf(r)])

\* A track is one of the client that its ID names.
Theirs(id, track) == track \in Track => ClientOf[track.conn] = id[1]

OwnerInv ==
  /\ \A id \in TrackId : Theirs(id, trackLocals[id])
  /\ \A id \in VideoId, q \in Quality : Theirs(id, trackQualities[id][q])
  /\ \A c \in Conn, id \in TrackId : Theirs(id, senders[c][id])
-----------------------------------------------------------------------------
(***************************************************************************)
(* Which steps change what.                                                *)
(***************************************************************************)

\* A handler registers once, and takes answers after that.
LEMMA RegisterSteps ==
  ASSUME TypeInv, [Next]_vars, NEW c \in Conn, ~Registered(c)'
  PROVE  ~Registered(c) /\ ~Register(c) /\ ~HandleAnswer(c)
<1> USE Names DEF Goto, At, Registered, Signalling
<1>0. pc \in [Thread -> Label] /\ ~(pc'[Handler(c)] \notin {"start", "register"})
  BY DEF TypeInv, TypeOK
<1>1. CASE UNCHANGED vars
  BY <1>0, <1>1 DEF vars, Register, HandleAnswer
<1>2. CASE UNCHANGED pc
  BY <1>0, <1>2 DEF Register, HandleAnswer
<1>3. CASE SignalStep
  <2>1. ASSUME NEW b \in BOOLEAN, EndSync(b)
        PROVE  pc'[Handler(c)] = pc[Handler(c)] \/ pc'[Handler(c)] = "reading"
    <3>1. CASE listLock = Handler(c)
      <4>1. AfterSignal(listLock) = "reading"
        BY <3>1 DEF AfterSignal, Trackers
      <4>2. QED BY <1>0, <2>1, <3>1, <4>1 DEF EndSync
    <3>2. CASE listLock # Handler(c)
      BY <1>0, <2>1, <3>2 DEF EndSync
    <3>3. QED BY <3>1, <3>2
  <2>2. SyncAddPanics => pc'[Handler(c)] = pc[Handler(c)] \/ pc'[Handler(c)] = "done"
    BY <1>0 DEF SyncAddPanics
  <2>3. \/ EndSync(TRUE) \/ EndSync(FALSE) \/ SyncAddPanics \/ UNCHANGED pc
    BY <1>3 DEF SignalStep, SyncStep, SyncRemoveClosed, SyncCheckOpen,
       SyncTracks, SyncRemoveFails, SyncOffer, SyncOfferFails, SyncDone,
       BeginSync, BeginRetry
  <2>4. pc'[Handler(c)] = pc[Handler(c)]
    BY <1>0, <2>1, <2>2, <2>3
  <2>5. QED BY <1>0, <2>4 DEF Register, HandleAnswer
<1>4. ASSUME NEW d \in Conn, HandlerStep(d)
      PROVE  ~Registered(c) /\ ~Register(c) /\ ~HandleAnswer(c)
  <2>1. Connect(d) => pc' = [pc EXCEPT ![Handler(d)] = "register"] /\ pc[Handler(d)] = "start"
    BY DEF Connect
  <2>2. \/ Connect(d) \/ UNCHANGED pc
        \/ \E label \in {"signal", "done", "setQuality", "reading"} :
              pc' = [pc EXCEPT ![Handler(d)] = label]
    BY <1>4 DEF HandlerStep, LockForRegister, Register, HandleAnswer,
       HandleAnswerPanics, LeaveHandler, LockQualities, SetTrackQuality
  <2>3. pc[Handler(c)] \in {"start", "register"}
    BY <1>0, <2>1, <2>2
  <2>4. QED BY <1>0, <2>3 DEF Register, HandleAnswer
<1>5. ASSUME NEW r \in Remote, TrackStep(r)
      PROVE  ~Registered(c) /\ ~Register(c) /\ ~HandleAnswer(c)
  <2>1. \E label \in Label : pc' = [pc EXCEPT ![OnTrack(r)] = label]
    BY <1>5 DEF TrackStep, AddQualityTrack, AddTrack, UpdateClientTrackState,
       LockForUpdate, UpdateClientTrackStateQuality, ReadFails, StopForwarding,
       RemoveTrack, Label
  <2>2. pc'[Handler(c)] = pc[Handler(c)]
    BY <1>0, <2>1
  <2>3. QED BY <1>0, <2>2 DEF Register, HandleAnswer
<1>6. CASE Environment
  <2>1. \/ UNCHANGED pc
        \/ \E d \in Conn : WebsocketClosed(d) \/ FinishClose(d)
        \/ \E d \in Decisions : ReceiveDecision(d[1], d[2], d[3])
        \/ \E s \in Remote : TrackStarts(s) \/ WriteFails(s)
    BY <1>6 DEF Environment, ClientAnswer, ConnectionFailed
  <2>2. pc'[Handler(c)] = pc[Handler(c)] \/ pc'[Handler(c)] \in {"done", "lockQualities"}
    <3>1. ASSUME NEW d \in Conn, WebsocketClosed(d) \/ FinishClose(d)
          PROVE  pc'[Handler(c)] = pc[Handler(c)] \/ pc'[Handler(c)] \in {"done", "lockQualities"}
      BY <1>0, <3>1 DEF WebsocketClosed, LeaveHandler, FinishClose
    <3>2. ASSUME NEW d \in Decisions, ReceiveDecision(d[1], d[2], d[3])
          PROVE  pc'[Handler(c)] = pc[Handler(c)] \/ pc'[Handler(c)] \in {"done", "lockQualities"}
      <4>1. d[1] \in Conn
        BY ConstantsAssumption
      <4>2. QED BY <1>0, <3>2, <4>1 DEF ReceiveDecision
    <3>3. ASSUME NEW s \in Remote, TrackStarts(s) \/ WriteFails(s)
          PROVE  pc'[Handler(c)] = pc[Handler(c)]
      BY <1>0, <3>3 DEF TrackStarts, WriteFails, StopForwarding
    <3>4. QED BY <2>1, <3>1, <3>2, <3>3
  <2>3. QED BY <1>0, <2>2 DEF Register, HandleAnswer
<1>7. QED BY <1>1, <1>3, <1>4, <1>5, <1>6 DEF Next

\* A step of an attempt belongs to a goroutine inside its call.
LEMMA SyncCaller ==
  ASSUME TypeInv, ControlInv, SyncStep
  PROVE  sync.at > 0 /\ (listLock = Retry \/ (listLock \in Thread /\ Signalling(listLock)))
<1>1. /\ Len(peerConnections) \in Nat
      /\ DOMAIN peerConnections = 1..Len(peerConnections)
      /\ sync.at \in Nat
  BY LenProperties DEF TypeInv, TypeOK
<1>2. sync.at \in DOMAIN peerConnections \/ sync.at > Len(peerConnections)
  BY DEF SyncStep, SyncRemoveClosed, SyncCheckOpen, SyncTracks, SyncRemoveFails,
     SyncAddPanics, SyncOffer, SyncOfferFails, SyncDone, AtPhase
<1>3. QED BY <1>1, <1>2 DEF ControlInv

\* OnTrack moves by its own steps, or by the return of its call of
\* signalPeerConnections.
LEMMA TrackerMoves ==
  ASSUME TypeInv, ControlInv, [Next]_vars, NEW r \in Remote
  PROVE  \/ pc'[OnTrack(r)] = pc[OnTrack(r)]
         \/ pc[OnTrack(r)] = "signal" /\ pc'[OnTrack(r)] = "update"
         \/ pc[OnTrack(r)] = "signalRemoved" /\ pc'[OnTrack(r)] = "done"
         \/ TrackStep(r) \/ TrackStarts(r) \/ WriteFails(r)
<1> USE Names DEF Signalling
<1>0. pc \in [Thread -> Label]
  BY DEF TypeInv, TypeOK
<1>1. CASE SyncStep
  <2>1. listLock = Retry \/ Signalling(listLock)
    BY <1>1, SyncCaller
  <2>2. ASSUME NEW b \in BOOLEAN, EndSync(b), pc'[OnTrack(r)] # pc[OnTrack(r)]
        PROVE  \/ pc[OnTrack(r)] = "signal" /\ pc'[OnTrack(r)] = "update"
               \/ pc[OnTrack(r)] = "signalRemoved" /\ pc'[OnTrack(r)] = "done"
    <3>1. listLock = OnTrack(r) /\ pc'[OnTrack(r)] = AfterSignal(listLock)
      BY <1>0, <2>2 DEF EndSync
    <3>2. OnTrack(r) \in Trackers /\ OnTrack(r) \notin Handlers
      BY DEF Trackers
    <3>3. AfterSignal(listLock) = IF pc[OnTrack(r)] = "signal" THEN "update" ELSE "done"
      BY <3>1, <3>2 DEF AfterSignal
    <3>4. QED BY <2>1, <3>1, <3>3
  <2>3. SyncAddPanics => pc'[OnTrack(r)] = pc[OnTrack(r)]
    BY <1>0 DEF SyncAddPanics, Handlers, Goto
  <2>4. \/ EndSync(TRUE) \/ EndSync(FALSE) \/ SyncAddPanics \/ UNCHANGED pc
    BY <1>1 DEF SyncStep, SyncRemoveClosed, SyncCheckOpen, SyncTracks,
       SyncRemoveFails, SyncOffer, SyncOfferFails, SyncDone
  <2>5. QED BY <2>2, <2>3, <2>4
<1>2. CASE SignalStep /\ ~SyncStep
  BY <1>2 DEF SignalStep, BeginSync, BeginRetry
<1>3. CASE UNCHANGED vars
  BY <1>3 DEF vars
<1>4. CASE ~SignalStep /\ Next
  <2>1. CASE \E c \in Conn : HandlerStep(c)
    <3>1. PICK c \in Conn : HandlerStep(c)
      BY <2>1
    <3>2. UNCHANGED pc \/ \E label \in Label : pc' = [pc EXCEPT ![Handler(c)] = label]
      BY <3>1 DEF HandlerStep, Connect, LockForRegister, Register, HandleAnswer, Goto,
         HandleAnswerPanics, LeaveHandler, LockQualities, SetTrackQuality, Label
    <3>3. QED BY <1>0, <3>2
  <2>2. CASE \E s \in Remote : TrackStep(s)
    <3>1. PICK s \in Remote : TrackStep(s)
      BY <2>2
    <3>2. \E label \in Label : pc' = [pc EXCEPT ![OnTrack(s)] = label]
      BY <3>1 DEF TrackStep, AddQualityTrack, AddTrack, UpdateClientTrackState, Goto,
         LockForUpdate, UpdateClientTrackStateQuality, ReadFails, StopForwarding,
         RemoveTrack, Label
    <3>3. QED BY <1>0, <3>1, <3>2
  <2>3. CASE Environment
    <3>1. \/ UNCHANGED pc
          \/ \E c \in Conn, label \in Label :
                \/ pc' = [pc EXCEPT ![Handler(c)] = label]
                \/ pc' = [pc EXCEPT ![OnClosed(c)] = label]
          \/ \E d \in Decisions : ReceiveDecision(d[1], d[2], d[3])
          \/ \E s \in Remote : TrackStarts(s) \/ WriteFails(s)
      BY <2>3 DEF Environment, ClientAnswer, WebsocketClosed, LeaveHandler,
         ConnectionFailed, FinishClose, Label, Goto
    <3>2. ASSUME NEW d \in Decisions, ReceiveDecision(d[1], d[2], d[3])
          PROVE  pc'[OnTrack(r)] = pc[OnTrack(r)]
      <4>1. d[1] \in Conn
        BY ConstantsAssumption
      <4>2. QED BY <1>0, <3>2, <4>1 DEF ReceiveDecision, Goto
    <3>3. ASSUME NEW s \in Remote, TrackStarts(s) \/ WriteFails(s), s # r
          PROVE  pc'[OnTrack(r)] = pc[OnTrack(r)]
      BY <1>0, <3>3 DEF TrackStarts, WriteFails, StopForwarding, Goto
    <3>4. QED BY <1>0, <3>1, <3>2, <3>3
  <2>4. QED BY <1>4, <2>1, <2>2, <2>3 DEF Next
<1>5. QED BY <1>1, <1>2, <1>3, <1>4

LEMMA AnsweredSteps ==
  ASSUME [Next]_vars
  PROVE  UNCHANGED answered \/ \E c \in Conn : HandleAnswer(c)
<1> USE DEF transport, session
<1>1. CASE UNCHANGED vars
  BY <1>1 DEF vars
<1>2. CASE SignalStep
  BY <1>2 DEF SignalStep, SyncStep, SyncRemoveClosed, SyncCheckOpen, SyncTracks,
     SyncRemoveFails, SyncAddPanics, SyncOffer, SyncOfferFails, SyncDone,
     BeginSync, BeginRetry
<1>3. CASE \E c \in Conn : HandlerStep(c)
  BY <1>3 DEF HandlerStep, Connect, LockForRegister, Register, HandleAnswerPanics,
     LockQualities, SetTrackQuality
<1>4. CASE \E r \in Remote : TrackStep(r)
  BY <1>4 DEF TrackStep, AddQualityTrack, AddTrack, UpdateClientTrackState,
     LockForUpdate, UpdateClientTrackStateQuality, ReadFails, RemoveTrack
<1>5. CASE Environment
  BY <1>5 DEF Environment, ClientAnswer, WebsocketClosed, ConnectionFailed,
     FinishClose, ReceiveDecision, TrackStarts, WriteFails
<1>6. QED BY <1>1, <1>2, <1>3, <1>4, <1>5 DEF Next

\* Who comes into the list has registered.
LEMMA ListSteps ==
  ASSUME TypeInv, [Next]_vars, NEW c \in Conn, Listed(c)'
  PROVE  Listed(c) \/ Register(c)
<1> USE DEF tables, Listed
<1>1. CASE UNCHANGED peerConnections
  BY <1>1
<1>2. CASE SyncRemoveClosed
  BY <1>2, RemoveAtElements DEF SyncRemoveClosed, AtPhase, TypeInv, TypeOK
<1>3. ASSUME NEW d \in Conn, Register(d)
      PROVE  Listed(c) \/ Register(c)
  <2>1. peerConnections' = Append(peerConnections, d) /\ peerConnections \in Seq(Conn)
    BY <1>3 DEF Register, TypeInv, TypeOK
  <2>2. QED BY <1>3, <2>1, AppendProperties
<1>4. UNCHANGED peerConnections \/ SyncRemoveClosed \/ \E d \in Conn : Register(d)
  <2>1. CASE UNCHANGED vars
    BY <2>1 DEF vars
  <2>2. CASE SignalStep
    BY <2>2 DEF SignalStep, SyncStep, SyncCheckOpen, SyncTracks, SyncRemoveFails,
       SyncAddPanics, SyncOffer, SyncOfferFails, SyncDone, BeginSync, BeginRetry
  <2>3. CASE \E d \in Conn : HandlerStep(d)
    BY <2>3 DEF HandlerStep, Connect, LockForRegister, HandleAnswer,
       HandleAnswerPanics, LockQualities, SetTrackQuality
  <2>4. CASE \E r \in Remote : TrackStep(r)
    BY <2>4 DEF TrackStep, AddQualityTrack, AddTrack, UpdateClientTrackState,
       LockForUpdate, UpdateClientTrackStateQuality, ReadFails, RemoveTrack
  <2>5. CASE Environment
    BY <2>5 DEF Environment, ClientAnswer, WebsocketClosed, ConnectionFailed,
       FinishClose, ReceiveDecision, TrackStarts, WriteFails
  <2>6. QED BY <2>1, <2>2, <2>3, <2>4, <2>5 DEF Next
<1>5. QED BY <1>1, <1>2, <1>3, <1>4
-----------------------------------------------------------------------------
(***************************************************************************)
(* Connections that have not registered.                                   *)
(***************************************************************************)

LEMMA InitRegister == Init => RegisterInv
BY Names DEF Init, RegisterInv, At, Listed, Registered

LEMMA SendersOfOthers ==
  ASSUME TypeInv, RegisterInv, [Next]_vars, NEW c \in Conn, ~Registered(c)
  PROVE  \A id \in TrackId : senders'[c][id] = None
<1>0. /\ \A id \in TrackId : senders[c][id] = None
      /\ ~Listed(c)
      /\ senders \in [Conn -> [TrackId -> Track \cup {None, Nil}]]
      /\ pc[Handler(c)] \in {"start", "register"}
  BY DEF RegisterInv, TypeInv, TypeOK, Registered
<1>1. CASE UNCHANGED state
  BY <1>0, <1>1 DEF state
<1>2. CASE SyncTracks
  <2>1. Target \in Conn /\ Listed(Target)
    BY <1>2, TargetType DEF SyncTracks, AtPhase, Listed, Target
  <2>2. c # Target
    BY <1>0, <2>1
  <2>3. senders'[c] = senders[c]
    BY <1>0, <1>2, <2>2 DEF SyncTracks
  <2>4. QED BY <1>0, <2>3
<1>3. CASE \E d \in Conn : SetTrackQuality(d)
  <2>1. PICK d \in Conn : SetTrackQuality(d)
    BY <1>3
  <2>2. c # d
    BY <1>0, <2>1 DEF SetTrackQuality, At
  <2>3. senders'[c] = senders[c]
    BY <1>0, <2>1, <2>2 DEF SetTrackQuality, state
  <2>4. QED BY <1>0, <2>3
<1>4. CASE \E r \in Remote : UpdateClientTrackState(r) \/ UpdateClientTrackStateQuality(r)
  BY <1>0, <1>4 DEF UpdateClientTrackState, UpdateClientTrackStateQuality, ReplaceTracks
<1>5. QED BY <1>1, <1>2, <1>3, <1>4, SenderSteps

LEMMA StepRegister ==
  ASSUME TypeInv, ControlInv, RegisterInv, [Next]_vars
  PROVE  RegisterInv'
<1>1. ASSUME NEW c \in Conn, ~Registered(c)'
      PROVE  /\ ~answered'[c]
             /\ ~Listed(c)'
             /\ \A id \in TrackId : senders'[c][id] = None
  <2>1. ~Registered(c) /\ ~Register(c) /\ ~HandleAnswer(c)
    BY <1>1, RegisterSteps
  <2>2. ~answered[c] /\ ~Listed(c)
    BY <2>1 DEF RegisterInv
  <2>3. ~answered'[c]
    BY <2>1, <2>2, AnsweredSteps DEF HandleAnswer, TypeInv, TypeOK
  <2>4. ~Listed(c)'
    BY <2>1, <2>2, ListSteps
  <2>5. QED BY <2>1, <2>3, <2>4, SendersOfOthers
<1>2. ASSUME NEW r \in Remote, pc'[OnTrack(r)] # "idle"
      PROVE  Registered(r[1])'
  <2>1. SUFFICES ASSUME ~Registered(r[1])'
                 PROVE  FALSE
    OBVIOUS
  <2>2. r[1] \in Conn /\ ~Registered(r[1]) /\ ~answered[r[1]]
    BY <2>1, RegisterSteps, RemoteTracks DEF RegisterInv
  <2>3. pc[OnTrack(r)] = "idle"
    BY <2>2 DEF RegisterInv, At
  <2>4. ~TrackStarts(r)
    BY <2>2 DEF TrackStarts
  <2>5. ~TrackStep(r) /\ ~WriteFails(r)
    BY <2>3 DEF TrackStep, WriteFails, AddQualityTrack, AddTrack, At,
       UpdateClientTrackState, LockForUpdate, UpdateClientTrackStateQuality,
       ReadFails, StopForwarding, RemoveTrack
  <2>6. QED BY <1>2, <2>3, <2>4, <2>5, TrackerMoves
<1>3. QED BY <1>1, <1>2 DEF RegisterInv, At
-----------------------------------------------------------------------------
(***************************************************************************)
(* The tables.                                                             *)
(***************************************************************************)

\* Two remote tracks of one connection with the same ID and quality are one.
LEMMA LiveOwn ==
  ASSUME NEW r \in Remote, NEW s \in Remote, IdOf(s) = IdOf(r), s[3] = r[3]
  PROVE  Own(r, Live(s))
<1>1. Live(s).conn = s[1] /\ s[2] = r[2]
  BY DEF Live, NewTrack, IdOf
<1>2. s[1] = r[1] => Live(s) = Live(r)
  BY <1>1 DEF Live
<1>3. QED BY <1>1, <1>2 DEF Own

\* Audio has one quality.
LEMMA AudioQuality ==
  ASSUME NEW r \in Remote, r[2] = Audio
  PROVE  r[3] = 0
BY ConstantsAssumption DEF Remote

LEMMA InitLive == Init => LiveInv
BY Names DEF Init, LiveInv

\* OnTrack leaves these labels only by putting its track into the tables.
LEMMA LeavesFilled ==
  ASSUME TypeInv, TableInv, ControlInv, [Next]_vars, NEW r \in Remote
  PROVE  /\ r[2] # Audio /\ pc'[OnTrack(r)] \notin {"idle", "addQuality"}
              => AddQualityTrack(r) \/ pc[OnTrack(r)] \notin {"idle", "addQuality"}
         /\ r[2] = Audio /\ pc'[OnTrack(r)] \notin {"idle", "addTrack"}
              => AddTrack(r) \/ pc[OnTrack(r)] \notin {"idle", "addTrack"}
<1> USE Names DEF Goto, At
<1>0. pc \in [Thread -> Label]
  BY DEF TypeInv, TypeOK
<1>1. CASE pc'[OnTrack(r)] = pc[OnTrack(r)] \/ pc[OnTrack(r)] \in {"signal", "signalRemoved"}
  BY <1>1
<1>2. CASE TrackStep(r)
  <2>1. AddQualityTrack(r) => r[2] # Audio
    BY DEF AddQualityTrack, TableInv
  <2>2. AddTrack(r) \/ AddQualityTrack(r) \/ pc[OnTrack(r)] \notin {"idle", "addQuality", "addTrack"}
    BY <1>2 DEF TrackStep, UpdateClientTrackState, LockForUpdate,
       UpdateClientTrackStateQuality, ReadFails, StopForwarding, RemoveTrack
  <2>3. AddTrack(r) => pc[OnTrack(r)] \notin {"idle", "addQuality"}
    BY DEF AddTrack
  <2>4. QED BY <2>1, <2>2, <2>3
<1>3. CASE TrackStarts(r)
  BY <1>0, <1>3 DEF TrackStarts
<1>4. CASE WriteFails(r)
  BY <1>4 DEF WriteFails, StopForwarding
<1>5. QED BY <1>1, <1>2, <1>3, <1>4, TrackerMoves

LEMMA StepLive ==
  ASSUME TypeInv, TableInv, ControlInv, RegisterInv, LiveInv, [Next]_vars
  PROVE  LiveInv'
<1> USE Ids, RemoteTracks
<1>t. /\ trackLocals \in [TrackId -> Track \cup {None}]
      /\ trackQualities \in [VideoId -> [Quality -> Track \cup {None}]]
      /\ None \notin Track
  BY ConstantsAssumption DEF TypeInv, TypeOK
<1>r. ASSUME NEW r \in Remote, pc[OnTrack(r)] # "idle", NEW c \in Conn, Register(c)
      PROVE  c # r[1]
  <2>1. Registered(r[1])
    BY <1>r DEF RegisterInv, At
  <2>2. QED BY <1>r, <2>1 DEF Registered, Register, At
<1>1. ASSUME NEW r \in Remote, r[2] # Audio, pc'[OnTrack(r)] \notin {"idle", "addQuality"}
      PROVE  Own(r, trackQualities'[IdOf(r)][r[3]])
  <2>0. IdOf(r) \in VideoId /\ r[3] \in Quality
    BY <1>1
  <2>1. CASE AddQualityTrack(r)
    BY <1>t, <2>0, <2>1 DEF AddQualityTrack, Own
  <2>2. CASE pc[OnTrack(r)] \notin {"idle", "addQuality"}
    <3>0. Own(r, trackQualities[IdOf(r)][r[3]])
      BY <1>1, <2>2 DEF LiveInv
    <3>1. CASE UNCHANGED trackQualities
      BY <3>0, <3>1
    <3>2. CASE \E c \in Conn : Register(c)
      <4>1. PICK c \in Conn : Register(c)
        BY <3>2
      <4>2. c # r[1]
        BY <1>r, <2>2, <4>1
      <4>3. \/ trackQualities'[IdOf(r)][r[3]] = trackQualities[IdOf(r)][r[3]]
            \/ trackQualities'[IdOf(r)][r[3]] = NewTrack(c, IdOf(r)[2], r[3], FALSE)
        BY <1>t, <2>0, <4>1 DEF Register
      <4>4. Own(r, NewTrack(c, IdOf(r)[2], r[3], FALSE))
        BY <4>2 DEF Own, NewTrack
      <4>5. QED BY <3>0, <4>3, <4>4
    <3>3. CASE \E s \in Remote : AddQualityTrack(s)
      <4>1. PICK s \in Remote : AddQualityTrack(s)
        BY <3>3
      <4>2. IdOf(s) \in VideoId
        BY <4>1 DEF AddQualityTrack, TableInv
      <4>3. CASE IdOf(s) = IdOf(r) /\ s[3] = r[3]
        BY <1>t, <2>0, <4>1, <4>3, LiveOwn DEF AddQualityTrack
      <4>4. CASE ~(IdOf(s) = IdOf(r) /\ s[3] = r[3])
        <5>1. trackQualities'[IdOf(r)][r[3]] = trackQualities[IdOf(r)][r[3]]
          BY <1>t, <2>0, <4>1, <4>2, <4>4 DEF AddQualityTrack
        <5>2. QED BY <3>0, <5>1
      <4>5. QED BY <4>3, <4>4
    <3>4. CASE \E s \in Remote : AddTrack(s) \/ RemoveTrack(s)
      BY <3>1, <3>4 DEF AddTrack, RemoveTrack
    <3>5. QED BY <3>1, <3>2, <3>3, <3>4, TableSteps
  <2>3. QED BY <1>1, <2>1, <2>2, LeavesFilled
<1>2. ASSUME NEW r \in Remote, r[2] = Audio, pc'[OnTrack(r)] \notin {"idle", "addTrack"}
      PROVE  Own(r, trackLocals'[IdOf(r)])
  <2>0. IdOf(r) \in TrackId
    OBVIOUS
  <2>1. CASE AddTrack(r)
    BY <1>t, <2>0, <2>1 DEF AddTrack, Own
  <2>2. CASE pc[OnTrack(r)] \notin {"idle", "addTrack"}
    <3>0. Own(r, trackLocals[IdOf(r)])
      BY <1>2, <2>2 DEF LiveInv
    <3>1. CASE UNCHANGED trackLocals
      BY <3>0, <3>1
    <3>2. CASE \E c \in Conn : Register(c)
      <4>1. PICK c \in Conn : Register(c)
        BY <3>2
      <4>2. c # r[1]
        BY <1>r, <2>2, <4>1
      <4>3. \/ trackLocals'[IdOf(r)] = trackLocals[IdOf(r)]
            \/ trackLocals'[IdOf(r)] = NewTrack(c, IdOf(r)[2], 0, FALSE)
        BY <1>t, <2>0, <4>1 DEF Register
      <4>4. Own(r, NewTrack(c, IdOf(r)[2], 0, FALSE))
        BY <4>2 DEF Own, NewTrack
      <4>5. QED BY <3>0, <4>3, <4>4
    <3>3. CASE \E s \in Remote : AddTrack(s) \/ RemoveTrack(s)
      <4>1. PICK s \in Remote : AddTrack(s) \/ RemoveTrack(s)
        BY <3>3
      <4>2. CASE IdOf(s) # IdOf(r)
        <5>1. trackLocals'[IdOf(r)] = trackLocals[IdOf(r)]
          BY <1>t, <2>0, <4>1, <4>2 DEF AddTrack, RemoveTrack
        <5>2. QED BY <3>0, <5>1
      <4>3. CASE IdOf(s) = IdOf(r)
        <5>1. trackLocals'[IdOf(r)] \in {Live(s), None}
          BY <1>t, <2>0, <4>1, <4>3 DEF AddTrack, RemoveTrack
        <5>2. s[2] = Audio
          BY <1>2, <4>3 DEF IdOf
        <5>3. s[3] = r[3]
          BY <1>2, <5>2, AudioQuality
        <5>4. Own(r, Live(s)) /\ Own(r, None)
          BY <1>t, <4>3, <5>3, LiveOwn DEF Own
        <5>5. QED BY <5>1, <5>4
      <4>4. QED BY <4>2, <4>3
    <3>4. CASE \E s \in Remote : AddQualityTrack(s)
      BY <3>1, <3>4 DEF AddQualityTrack
    <3>5. QED BY <3>1, <3>2, <3>3, <3>4, TableSteps
  <2>3. QED BY <1>2, <2>1, <2>2, LeavesFilled
<1>3. QED BY <1>1, <1>2 DEF LiveInv
-----------------------------------------------------------------------------
(***************************************************************************)
(* The senders.                                                            *)
(***************************************************************************)

\* OnTrack comes to forward packets by replacing the tracks of senders.
LEMMA EntersForward ==
  ASSUME TypeInv, ControlInv, [Next]_vars, NEW r \in Remote,
         pc'[OnTrack(r)] = "forward"
  PROVE  \/ pc[OnTrack(r)] = "forward"
         \/ UpdateClientTrackState(r) \/ UpdateClientTrackStateQuality(r)
<1> USE Names DEF Goto, At
<1>0. pc \in [Thread -> Label]
  BY DEF TypeInv, TypeOK
<1>1. CASE TrackStep(r)
  BY <1>0, <1>1 DEF TrackStep, AddQualityTrack, AddTrack, LockForUpdate, ReadFails,
     StopForwarding, RemoveTrack
<1>2. CASE TrackStarts(r) \/ WriteFails(r)
  BY <1>0, <1>2 DEF TrackStarts, WriteFails, StopForwarding
<1>3. QED BY <1>1, <1>2, TrackerMoves

\* What signalling gives to a sender: what it had, no track, or the track of
\* the table.
LEMMA SyncSource ==
  ASSUME NEW c \in Conn, NEW id \in TrackId
  PROVE  \/ /\ SendersAfter(c)[id] = senders[c][id]
            /\ id \in VideoId => DecisionsAfter(c)[id] = qualityDecisions[c][id]
         \/ SendersAfter(c)[id] = None
         \/ ~IsVideo(id) /\ SendersAfter(c)[id] = trackLocals[id]
         \/ /\ IsVideo(id) /\ SendersAfter(c)[id] = trackQualities[id][0]
            /\ DecisionsAfter(c)[id] = 0
<1> USE Ids
<1>1. CASE id \in MissingSenders(c)
  <2>1. SendersAfter(c)[id] = SourceOf(id)
    BY <1>1 DEF SendersAfter
  <2>2. id \in VideoId => DecisionsAfter(c)[id] = 0
    BY <1>1 DEF DecisionsAfter
  <2>3. QED BY <2>1, <2>2 DEF SourceOf
<1>2. CASE id \notin MissingSenders(c)
  <2>1. SendersAfter(c)[id] \in {None, senders[c][id]}
    BY <1>2 DEF SendersAfter
  <2>2. id \in VideoId => DecisionsAfter(c)[id] = qualityDecisions[c][id]
    BY <1>2 DEF DecisionsAfter
  <2>3. QED BY <2>1, <2>2
<1>3. QED BY <1>1, <1>2

\* What a quality decision gives to a sender.
LEMMA DecisionSource ==
  ASSUME TypeInv, NEW d \in Conn, SetTrackQuality(d), NEW c \in Conn, NEW id \in TrackId
  PROVE  \/ /\ senders'[c][id] = senders[c][id]
            /\ id \in VideoId => qualityDecisions'[c][id] = qualityDecisions[c][id]
         \/ senders'[c][id] \in {None, Nil}
         \/ \E q \in Quality : /\ id \in VideoId
                               /\ senders'[c][id] = trackQualities[id][q]
                               /\ qualityDecisions'[c][id] = q
<1> DEFINE k == request[d][1]
           q == request[d][2]
<1> USE Ids
<1>0. /\ senders \in [Conn -> [TrackId -> Track \cup {None, Nil}]]
      /\ qualityDecisions \in [Conn -> [VideoId -> Int \cup {None}]]
      /\ k \in VideoId /\ q \in Int
  BY DEF TypeInv, TypeOK, RequestOK, SetTrackQuality, At
<1>1. CASE UNCHANGED state
  BY <1>1 DEF state
<1>2. CASE ~UNCHANGED state
  <2>1. /\ senders' = [senders EXCEPT ![d][k] =
             IF @ = None THEN None ELSE IF q < 0 THEN Nil ELSE trackQualities[k][q]]
        /\ qualityDecisions' = [qualityDecisions EXCEPT ![d][k] = q]
        /\ senders[d][k] # None /\ q >= 0 => q \in Quality
    BY <1>2 DEF SetTrackQuality, KnownQuality
  <2>2. CASE c = d /\ id = k
    <3>1. qualityDecisions'[c][id] = q
      BY <1>0, <2>1, <2>2
    <3>2. CASE senders[d][k] = None \/ q < 0
      BY <1>0, <2>1, <2>2, <3>2
    <3>3. CASE senders[d][k] # None /\ ~(q < 0)
      <4>1. q \in Quality
        BY <1>0, <2>1, <3>3
      <4>2. senders'[c][id] = trackQualities[id][q]
        BY <1>0, <2>1, <2>2, <3>3
      <4>3. QED BY <1>0, <2>2, <3>1, <4>1, <4>2
    <3>4. QED BY <3>2, <3>3
  <2>3. CASE ~(c = d /\ id = k)
    <3>1. senders'[c][id] = senders[c][id]
      BY <1>0, <2>1, <2>3
    <3>2. id \in VideoId => qualityDecisions'[c][id] = qualityDecisions[c][id]
      BY <1>0, <2>1, <2>3
    <3>3. QED BY <3>1, <3>2
  <2>4. QED BY <2>2, <2>3
<1>3. QED BY <1>1, <1>2

\* What becomes of the track of a sender in any step.
LEMMA TrackSources ==
  ASSUME TypeInv, [Next]_vars, NEW c \in Conn, NEW id \in TrackId
  PROVE  \/ /\ senders'[c][id] = senders[c][id]
            /\ id \in VideoId => qualityDecisions'[c][id] = qualityDecisions[c][id]
         \/ senders'[c][id] \in {None, Nil}
         \/ ~IsVideo(id) /\ senders'[c][id] = trackLocals[id]
         \/ \E q \in Quality : /\ id \in VideoId
                               /\ senders'[c][id] = trackQualities[id][q]
                               /\ qualityDecisions'[c][id] = q
         \/ \E s \in Remote : /\ id = IdOf(s)
                              /\ senders'[c][id] = Live(s)
                              /\ IsVideo(id) => qualityDecisions'[c][id] = s[3]
<1> USE Ids
<1>0. /\ senders \in [Conn -> [TrackId -> Track \cup {None, Nil}]]
      /\ qualityDecisions \in [Conn -> [VideoId -> Int \cup {None}]]
  BY DEF TypeInv, TypeOK
<1>1. CASE UNCHANGED state
  BY <1>1 DEF state
<1>2. CASE SyncTracks
  <2>1. /\ Target \in Conn
        /\ senders' = [senders EXCEPT ![Target] = SendersAfter(Target)]
        /\ qualityDecisions' = [qualityDecisions EXCEPT ![Target] = DecisionsAfter(Target)]
    BY <1>2, TargetType DEF SyncTracks
  <2>2. CASE c = Target
    <3>1. senders'[c] = SendersAfter(c) /\ qualityDecisions'[c] = DecisionsAfter(c)
      BY <1>0, <2>1, <2>2
    <3>2. QED BY <3>1, SyncSource
  <2>3. CASE c # Target
    BY <1>0, <2>1, <2>3
  <2>4. QED BY <2>2, <2>3
<1>3. CASE \E d \in Conn : SetTrackQuality(d)
  BY <1>3, DecisionSource
<1>4. ASSUME NEW s \in Remote, UpdateClientTrackState(s) \/ UpdateClientTrackStateQuality(s)
      PROVE  \/ senders'[c][id] = senders[c][id] /\ UNCHANGED qualityDecisions
             \/ /\ id = IdOf(s)
                /\ senders'[c][id] = Live(s)
                /\ IsVideo(id) => qualityDecisions'[c][id] = s[3]
  <2>1. ReplaceTracks(s) /\ UNCHANGED qualityDecisions
    BY <1>4 DEF UpdateClientTrackState, UpdateClientTrackStateQuality
  <2>2. CASE id = IdOf(s) /\ senders[c][id] # None /\ Listed(c) /\ Adopts(c, s)
    BY <2>1, <2>2 DEF ReplaceTracks, Adopts
  <2>3. CASE ~(id = IdOf(s) /\ senders[c][id] # None /\ Listed(c) /\ Adopts(c, s))
    BY <2>1, <2>3 DEF ReplaceTracks
  <2>4. QED BY <2>2, <2>3
<1>5. QED BY <1>1, <1>2, <1>3, <1>4, SenderSteps

LEMMA InitReplaced == Init => PlaceholderReplaced
BY Names DEF Init, PlaceholderReplaced, At

LEMMA StepReplaced ==
  ASSUME TypeInv, TableInv, ControlInv, RegisterInv, LiveInv, PlaceholderReplaced,
         [Next]_vars
  PROVE  PlaceholderReplaced'
<1> USE Ids, RemoteTracks
<1> SUFFICES ASSUME NEW r \in Remote, NEW c \in Conn,
                    pc'[OnTrack(r)] = "forward", Listed(c)',
                    IsVideo(IdOf(r)) => qualityDecisions'[c][IdOf(r)] = r[3]
             PROVE  Own(r, senders'[c][IdOf(r)])
  BY DEF PlaceholderReplaced, At
<1>n. Own(r, None) /\ Own(r, Nil)
  BY ConstantsAssumption DEF Own
<1>1. CASE UpdateClientTrackState(r) \/ UpdateClientTrackStateQuality(r)
  <2>1. ReplaceTracks(r) /\ UNCHANGED <<peerConnections, qualityDecisions>>
    BY <1>1 DEF UpdateClientTrackState, UpdateClientTrackStateQuality, tables
  <2>2. Listed(c) /\ Adopts(c, r)
    BY <2>1 DEF Listed, Adopts
  <2>3. senders'[c][IdOf(r)] = IF senders[c][IdOf(r)] # None THEN Live(r) ELSE None
    BY <2>1, <2>2 DEF ReplaceTracks
  <2>4. QED BY <1>n, <2>3 DEF Own
<1>2. CASE pc[OnTrack(r)] = "forward" /\ Register(c)
  <2>1. senders[c][IdOf(r)] = None /\ UNCHANGED senders
    BY <1>2 DEF Register, RegisterInv, Registered, At, state
  <2>2. QED BY <1>n, <2>1
<1>3. CASE pc[OnTrack(r)] = "forward" /\ Listed(c)
  <2>1. CASE /\ senders'[c][IdOf(r)] = senders[c][IdOf(r)]
             /\ IdOf(r) \in VideoId
                  => qualityDecisions'[c][IdOf(r)] = qualityDecisions[c][IdOf(r)]
    BY <1>3, <2>1 DEF PlaceholderReplaced, At
  <2>2. CASE senders'[c][IdOf(r)] \in {None, Nil}
    BY <1>n, <2>2
  <2>3. CASE ~IsVideo(IdOf(r)) /\ senders'[c][IdOf(r)] = trackLocals[IdOf(r)]
    BY <1>3, <2>3 DEF LiveInv
  <2>4. CASE \E q \in Quality : /\ IdOf(r) \in VideoId
                                /\ senders'[c][IdOf(r)] = trackQualities[IdOf(r)][q]
                                /\ qualityDecisions'[c][IdOf(r)] = q
    BY <1>3, <2>4 DEF LiveInv
  <2>5. CASE \E s \in Remote : /\ IdOf(r) = IdOf(s)
                               /\ senders'[c][IdOf(r)] = Live(s)
                               /\ IsVideo(IdOf(r)) => qualityDecisions'[c][IdOf(r)] = s[3]
    <3>1. PICK s \in Remote : /\ IdOf(r) = IdOf(s)
                              /\ senders'[c][IdOf(r)] = Live(s)
                              /\ IsVideo(IdOf(r)) => qualityDecisions'[c][IdOf(r)] = s[3]
      BY <2>5
    <3>2. s[3] = r[3]
      <4>1. CASE r[2] = Audio
        <5>1. s[2] = Audio
          BY <3>1, <4>1 DEF IdOf
        <5>2. QED BY <4>1, <5>1, AudioQuality
      <4>2. CASE r[2] # Audio
        BY <3>1, <4>2
      <4>3. QED BY <4>1, <4>2
    <3>3. QED BY <3>1, <3>2, LiveOwn
  <2>6. QED BY <2>1, <2>2, <2>3, <2>4, <2>5, TrackSources
<1>4. QED BY <1>1, <1>2, <1>3, EntersForward, ListSteps

LEMMA InitOwner == Init => OwnerInv
BY Ids, ConstantsAssumption DEF Init, OwnerInv, Theirs

LEMMA StepOwner ==
  ASSUME TypeInv, TableInv, OwnerInv, [Next]_vars
  PROVE  OwnerInv'
<1> USE Ids, RemoteTracks DEF Theirs
<1>t. /\ trackLocals \in [TrackId -> Track \cup {None}]
      /\ trackQualities \in [VideoId -> [Quality -> Track \cup {None}]]
      /\ None \notin Track /\ Nil \notin Track
  BY ConstantsAssumption DEF TypeInv, TypeOK
<1>l. ASSUME NEW s \in Remote
      PROVE  Theirs(IdOf(s), Live(s))
  BY DEF Live, NewTrack, IdOf
<1>1. \A id \in TrackId : Theirs(id, trackLocals'[id])
  <2>1. CASE UNCHANGED trackLocals
    BY <2>1 DEF OwnerInv
  <2>2. CASE \E d \in Conn : Register(d)
    <3>1. PICK d \in Conn : Register(d)
      BY <2>2
    <3>2. ASSUME NEW id \in TrackId
          PROVE  Theirs(id, trackLocals'[id])
      <4>1. CASE id[1] = ClientOf[d]
        <5>1. trackLocals'[id] = NewTrack(d, id[2], 0, FALSE)
          BY <3>1, <4>1 DEF Register
        <5>2. QED BY <4>1, <5>1 DEF NewTrack
      <4>2. CASE id[1] # ClientOf[d]
        BY <3>1, <4>2 DEF Register, OwnerInv
      <4>3. QED BY <4>1, <4>2
    <3>3. QED BY <3>2
  <2>3. CASE \E s \in Remote : AddTrack(s) \/ RemoveTrack(s)
    BY <1>t, <1>l, <2>3 DEF AddTrack, RemoveTrack, OwnerInv
  <2>4. CASE \E s \in Remote : AddQualityTrack(s)
    BY <2>1, <2>4 DEF AddQualityTrack
  <2>5. QED BY <2>1, <2>2, <2>3, <2>4, TableSteps
<1>2. \A id \in VideoId, q \in Quality : Theirs(id, trackQualities'[id][q])
  <2>1. CASE UNCHANGED trackQualities
    BY <2>1 DEF OwnerInv
  <2>2. CASE \E d \in Conn : Register(d)
    <3>1. PICK d \in Conn : Register(d)
      BY <2>2
    <3>2. ASSUME NEW id \in VideoId, NEW q \in Quality
          PROVE  Theirs(id, trackQualities'[id][q])
      <4>1. CASE id[1] = ClientOf[d]
        <5>1. trackQualities'[id][q] = NewTrack(d, id[2], q, FALSE)
          BY <3>1, <4>1 DEF Register
        <5>2. QED BY <4>1, <5>1 DEF NewTrack
      <4>2. CASE id[1] # ClientOf[d]
        BY <3>1, <4>2 DEF Register, OwnerInv
      <4>3. QED BY <4>1, <4>2
    <3>3. QED BY <3>2
  <2>3. CASE \E s \in Remote : AddQualityTrack(s)
    <3>1. PICK s \in Remote : AddQualityTrack(s)
      BY <2>3
    <3>2. IdOf(s) \in VideoId /\ s[3] \in Quality
      BY <3>1 DEF AddQualityTrack, TableInv
    <3>3. ASSUME NEW id \in VideoId, NEW q \in Quality
          PROVE  Theirs(id, trackQualities'[id][q])
      <4>1. CASE id = IdOf(s) /\ q = s[3]
        BY <1>t, <1>l, <3>1, <3>2, <4>1 DEF AddQualityTrack
      <4>2. CASE ~(id = IdOf(s) /\ q = s[3])
        <5>1. trackQualities'[id][q] = trackQualities[id][q]
          BY <1>t, <3>1, <3>2, <4>2 DEF AddQualityTrack
        <5>2. QED BY <5>1 DEF OwnerInv
      <4>3. QED BY <4>1, <4>2
    <3>4. QED BY <3>3
  <2>4. CASE \E s \in Remote : AddTrack(s) \/ RemoveTrack(s)
    BY <2>1, <2>4 DEF AddTrack, RemoveTrack
  <2>5. QED BY <2>1, <2>2, <2>3, <2>4, TableSteps
<1>3. ASSUME NEW c \in Conn, NEW id \in TrackId
      PROVE  Theirs(id, senders'[c][id])
  <2>1. Theirs(id, None) /\ Theirs(id, Nil)
    BY <1>t
  <2>2. CASE senders'[c][id] = senders[c][id]
    BY <2>2 DEF OwnerInv
  <2>3. CASE senders'[c][id] = trackLocals[id]
    BY <2>3 DEF OwnerInv
  <2>4. CASE \E q \in Quality : id \in VideoId /\ senders'[c][id] = trackQualities[id][q]
    BY <2>4 DEF OwnerInv
  <2>5. CASE \E s \in Remote : id = IdOf(s) /\ senders'[c][id] = Live(s)
    BY <1>l, <2>5
  <2>6. QED BY <2>1, <2>2, <2>3, <2>4, <2>5, TrackSources
<1>4. QED BY <1>1, <1>2, <1>3 DEF OwnerInv

ReplacedInv ==
  TypeInv /\ TableInv /\ ControlInv /\ RegisterInv /\ LiveInv /\ PlaceholderReplaced

LEMMA SpecReplaced == Spec => []ReplacedInv
<1>1. Init => ReplacedInv
  BY InitType, InitTable, InitControl, InitRegister, InitLive, InitReplaced DEF ReplacedInv
<1>2. ReplacedInv /\ [Next]_vars => ReplacedInv'
  BY StepType, StepTable, StepControl, StepRegister, StepLive, StepReplaced DEF ReplacedInv
<1>3. QED BY <1>1, <1>2, PTL DEF Spec

(***************************************************************************)
(* Whoever connects again, in whatever order: while OnTrack forwards a     *)
(* track, no listed connection that wants it at this quality is left on    *)
(* the placeholder that the track's connection made in the tables when it  *)
(* registered (sfu/main.go, addTrack, addQualityTrack and the two          *)
(* updateClientTrackState functions that OnTrack calls).                   *)
(***************************************************************************)
THEOREM PlaceholderReplacedHolds == Spec => []PlaceholderReplaced
<1>1. ReplacedInv => PlaceholderReplaced
  BY DEF ReplacedInv
<1>2. QED BY <1>1, SpecReplaced, PTL

LEMMA ReplacedIsReceived ==
  ASSUME OneConnectionEach, ReplacedInv, SenderInv, OwnerInv
  PROVE  ForwardedIsReceived
<1> USE Ids, RemoteTracks
<1> SUFFICES ASSUME NEW r \in Remote, NEW c \in Conn, At(OnTrack(r), "forward"),
                    Listed(c), senders[c][IdOf(r)] # None,
                    IsVideo(IdOf(r)) => qualityDecisions[c][IdOf(r)] = r[3]
             PROVE  senders[c][IdOf(r)] = Live(r)
  BY DEF ForwardedIsReceived
<1>1. senders[c][IdOf(r)] # Nil
  <2>1. CASE IsVideo(IdOf(r))
    <3>1. Matches(senders[c][IdOf(r)], r[3])
      BY <2>1 DEF SenderInv, DecisionMatchesSender
    <3>2. ~(r[3] < 0)
      BY ConstantsAssumption DEF Quality
    <3>3. QED BY <3>1, <3>2, ConstantsAssumption DEF Matches
  <2>2. CASE ~IsVideo(IdOf(r))
    BY <2>2 DEF SenderInv
  <2>3. QED BY <2>1, <2>2
<1>2. senders[c][IdOf(r)] \in Track
  BY <1>1 DEF ReplacedInv, TypeInv, TypeOK
<1>3. senders[c][IdOf(r)].conn = r[1]
  <2>1. ClientOf[senders[c][IdOf(r)].conn] = ClientOf[r[1]]
    BY <1>2 DEF OwnerInv, Theirs, IdOf
  <2>2. senders[c][IdOf(r)].conn \in Conn
    BY <1>2 DEF Track
  <2>3. QED BY <2>1, <2>2 DEF OneConnectionEach
<1>4. Own(r, senders[c][IdOf(r)])
  BY DEF ReplacedInv, PlaceholderReplaced
<1>5. QED BY <1>2, <1>3, <1>4 DEF Own

(***************************************************************************)
(* Every listed connection that sends a track at this quality sends the    *)
(* object that OnTrack writes packets to, when no client connects twice:   *)
(* if one does, the tracks of its second connection have the same IDs and  *)
(* replace those of the first, although the first one may still forward.   *)
(***************************************************************************)
THEOREM ForwardedIsReceivedHolds ==
  ASSUME OneConnectionEach
  PROVE  Spec => []ForwardedIsReceived
<1>1. Init => TypeInv /\ TableInv /\ SenderInv /\ OwnerInv
  BY InitType, InitTable, InitSender, InitOwner
<1>2. TypeInv /\ TableInv /\ SenderInv /\ OwnerInv /\ [Next]_vars
        => (TypeInv /\ TableInv /\ SenderInv /\ OwnerInv)'
  BY StepType, StepTable, StepSender, StepOwner
<1>3. ReplacedInv /\ SenderInv /\ OwnerInv => ForwardedIsReceived
  BY ReplacedIsReceived
<1>4. QED BY <1>1, <1>2, <1>3, SpecReplaced, PTL DEF Spec
-----------------------------------------------------------------------------
(***************************************************************************)
(* The audio track stays published.                                        *)
(***************************************************************************)

\* From addTrack to removeTrack, OnTrack has an audio track in the table.
PublishedInv ==
  \A r \in Remote :
    r[2] = Audio /\ pc[OnTrack(r)] \in {"signal", "update", "updateQuality", "forward", "remove"}
      => trackLocals[IdOf(r)] # None

LEMMA InitPublished == Init => PublishedInv
BY Names DEF Init, PublishedInv

LEMMA StepPublished ==
  ASSUME OneConnectionEach, TypeInv, TableInv, ControlInv, PublishedInv, [Next]_vars
  PROVE  PublishedInv'
<1> DEFINE Between == {"signal", "update", "updateQuality", "forward", "remove"}
<1> USE Names, RemoteTracks
<1>t. /\ trackLocals \in [TrackId -> Track \cup {None}]
      /\ pc \in [Thread -> Label]
      /\ None \notin Track
  BY ConstantsAssumption DEF TypeInv, TypeOK
<1> SUFFICES ASSUME NEW r \in Remote, r[2] = Audio, pc'[OnTrack(r)] \in Between
             PROVE  trackLocals'[IdOf(r)] # None
  BY DEF PublishedInv
<1>1. CASE AddTrack(r)
  BY <1>t, <1>1 DEF AddTrack
<1>2. CASE ~AddTrack(r)
  <2>1. pc[OnTrack(r)] \in Between
    <3>1. CASE TrackStep(r)
      <4>1. ~AddQualityTrack(r)
        BY DEF AddQualityTrack, TableInv
      <4>2. QED
        BY <1>t, <1>2, <3>1, <4>1 DEF TrackStep, UpdateClientTrackState, LockForUpdate,
           UpdateClientTrackStateQuality, ReadFails, StopForwarding, RemoveTrack, At, Goto
    <3>2. CASE TrackStarts(r) \/ WriteFails(r)
      BY <1>t, <3>2 DEF TrackStarts, WriteFails, StopForwarding, At, Goto
    <3>3. QED BY <3>1, <3>2, TrackerMoves
  <2>2. trackLocals[IdOf(r)] # None
    BY <2>1 DEF PublishedInv
  <2>3. CASE UNCHANGED trackLocals
    BY <2>2, <2>3
  <2>4. CASE \E c \in Conn : Register(c)
    <3>1. PICK c \in Conn : Register(c)
      BY <2>4
    <3>2. NewTrack(c, IdOf(r)[2], 0, FALSE) # None
      BY NewTrackType, Ids DEF IdOf
    <3>3. QED BY <2>2, <3>1, <3>2 DEF Register
  <2>5. CASE \E s \in Remote : AddTrack(s)
    BY <1>t, <2>2, <2>5 DEF AddTrack
  <2>6. CASE \E s \in Remote : RemoveTrack(s)
    <3>1. PICK s \in Remote : RemoveTrack(s)
      BY <2>6
    <3>2. CASE IdOf(s) = IdOf(r)
      <4>1. s[2] = Audio /\ ClientOf[s[1]] = ClientOf[r[1]]
        BY <3>2 DEF IdOf
      <4>2. s[1] = r[1] /\ s[3] = r[3]
        BY <4>1, AudioQuality DEF OneConnectionEach
      <4>3. s = r
        <5>1. s = <<s[1], s[2], s[3]>> /\ r = <<r[1], r[2], r[3]>>
          BY DEF Remote
        <5>2. QED BY <4>1, <4>2, <5>1
      <4>4. pc'[OnTrack(r)] = "signalRemoved"
        BY <1>t, <3>1, <4>3 DEF RemoveTrack, Goto
      <4>5. QED BY <4>4
    <3>3. CASE IdOf(s) # IdOf(r)
      BY <1>t, <2>2, <3>1, <3>3 DEF RemoveTrack
    <3>4. QED BY <3>2, <3>3
  <2>7. CASE \E s \in Remote : AddQualityTrack(s)
    BY <2>3, <2>7 DEF AddQualityTrack
  <2>8. QED BY <2>3, <2>4, <2>5, <2>6, <2>7, TableSteps
<1>3. QED BY <1>1, <1>2

(***************************************************************************)
(* An audio track that OnTrack forwards is in trackLocals as long as no    *)
(* client connects twice: it is the removeTrack that the OnTrack of an     *)
(* earlier connection defers (sfu/main.go:641) that takes it away.         *)
(***************************************************************************)
THEOREM ForwardedIsPublishedIfConnectedOnce ==
  ASSUME OneConnectionEach
  PROVE  Spec => []ForwardedIsPublished
<1>1. Init => TypeInv /\ TableInv /\ ControlInv /\ PublishedInv
  BY InitType, InitTable, InitControl, InitPublished
<1>2. TypeInv /\ TableInv /\ ControlInv /\ PublishedInv /\ [Next]_vars
        => (TypeInv /\ TableInv /\ ControlInv /\ PublishedInv)'
  BY StepType, StepTable, StepControl, StepPublished
<1>3. PublishedInv => ForwardedIsPublished
  <2>1. \A c \in Conn : <<c, Audio, 0>> \in Remote /\ IdOf(<<c, Audio, 0>>) = AudioOf(c)
    BY DEF Remote, IdOf, AudioOf
  <2>2. \A c \in Conn : <<c, Audio, 0>>[2] = Audio
    OBVIOUS
  <2>3. QED BY <2>1, <2>2 DEF PublishedInv, ForwardedIsPublished, At
<1>4. QED BY <1>1, <1>2, <1>3, PTL DEF Spec
=============================================================================
