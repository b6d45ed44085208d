----------------------------- MODULE SFUProofs -----------------------------
(***************************************************************************)
(* Proofs about the signalling core of the SFU, for every set of           *)
(* connections, tiles and qualities.                                       *)
(***************************************************************************)
EXTENDS SFUProperties, SequenceTheorems, TLAPS

\* A decision is being applied only when there is one.
RequestOK ==
  \A c \in Conn :
    pc[Handler(c)] \in {"lockQualities", "setQuality"}
      => request[c] \in VideoId \X Int

TypeInv == TypeOK /\ RequestOK

(***************************************************************************)
(* Facts about the constants and the operators of the model.               *)
(***************************************************************************)

\* Names of goroutines are distinct, and no goroutine is Retry or Free.
LEMMA Names ==
  /\ \A c \in Conn : Handler(c) \in Thread /\ OnClosed(c) \in Thread
  /\ \A r \in Remote : OnTrack(r) \in Thread
  /\ \A c, d \in Conn : Handler(c) = Handler(d) => c = d
  /\ \A c, d \in Conn : OnClosed(c) = OnClosed(d) => c = d
  /\ \A r, s \in Remote : OnTrack(r) = OnTrack(s) => r = s
  /\ \A c, d \in Conn : Handler(c) # OnClosed(d)
  /\ \A c \in Conn, r \in Remote : Handler(c) # OnTrack(r) /\ OnClosed(c) # OnTrack(r)
  /\ \A c \in Conn : Handler(c) \in Handlers /\ OnClosed(c) \notin Handlers
  /\ \A r \in Remote : OnTrack(r) \notin Handlers
  /\ Retry \notin Thread /\ Free \notin Thread /\ Retry # Free
BY DEF Handler, OnClosed, OnTrack, Retry, Free, Thread, Handlers, Callbacks, Trackers

\* The video IDs are the track IDs of a tile.
LEMMA Ids ==
  /\ \A id \in TrackId : IsVideo(id) <=> id \in VideoId
  /\ VideoId \subseteq TrackId
  /\ \A c \in Conn, m \in Media : <<ClientOf[c], m>> \in TrackId
  /\ 0 \in Quality
BY ConstantsAssumption DEF TrackId, VideoId, IsVideo, Media, Quality

LEMMA NewTrackType ==
  ASSUME NEW c \in Conn, NEW m \in Media, NEW q \in Quality, NEW live \in BOOLEAN
  PROVE  /\ NewTrack(c, m, q, live) \in Track
         /\ NewTrack(c, m, q, live) # None
         /\ NewTrack(c, m, q, live) # Nil
<1>1. NewTrack(c, m, q, live) \in Track
  BY DEF NewTrack, Track
<1>2. QED BY <1>1, ConstantsAssumption

LEMMA RemoteTracks ==
  ASSUME NEW r \in Remote
  PROVE  /\ r[1] \in Conn
         /\ r[2] \in Media
         /\ r[3] \in Quality
         /\ IdOf(r) \in TrackId
         /\ IsVideo(IdOf(r)) <=> r[2] # Audio
         /\ Live(r) \in Track
BY ConstantsAssumption DEF Remote, Media, Quality, IdOf, TrackId, IsVideo, Live, NewTrack, Track
-----------------------------------------------------------------------------
(***************************************************************************)
(* Type correctness.                                                       *)
(***************************************************************************)

\* The list without one of its entries is a list of connections.
LEMMA RemoveAtType ==
  ASSUME NEW s \in Seq(Conn), NEW i \in DOMAIN s
  PROVE  RemoveAt(s, i) \in Seq(Conn)
<1>1. i \in 1..Len(s)
  BY LenProperties
<1>2. SubSeq(s, 1, i - 1) \in Seq(Conn)
  BY <1>1, SubSeqProperties
<1>3. SubSeq(s, i + 1, Len(s)) \in Seq(Conn)
  BY <1>1, SubSeqProperties
<1>4. QED  BY <1>2, <1>3, ConcatProperties DEF RemoveAt

\* It has no other entries.
LEMMA RemoveAtElements ==
  ASSUME NEW s \in Seq(Conn), NEW i \in DOMAIN s, NEW j \in DOMAIN RemoveAt(s, i)
  PROVE  \E k \in DOMAIN s : RemoveAt(s, i)[j] = s[k]
<1> DEFINE a == SubSeq(s, 1, i - 1)
           b == SubSeq(s, i + 1, Len(s))
<1>1. i \in 1..Len(s)
  BY LenProperties
<1>2. /\ a \in Seq(Conn)
      /\ Len(a) = i - 1
      /\ \A k \in 1..(i - 1) : a[k] = s[k]
  BY <1>1, SubSeqProperties
<1>3. /\ b \in Seq(Conn)
      /\ Len(b) = Len(s) - i
      /\ \A k \in 1..(Len(s) - i) : b[k] = s[i + k]
  BY <1>1, SubSeqProperties
<1>4. j \in 1..(Len(s) - 1)
  BY <1>1, <1>2, <1>3, ConcatProperties, LenProperties DEF RemoveAt
<1>5. CASE j < i
  <2>1. RemoveAt(s, i)[j] = s[j]
    BY <1>2, <1>3, <1>4, <1>5, ConcatProperties DEF RemoveAt
  <2>2. QED BY <1>1, <1>4, <1>5, <2>1, LenProperties
<1>6. CASE j >= i
  <2>1. RemoveAt(s, i)[j] = s[j + 1]
    <3>1. j - (i - 1) \in 1..(Len(s) - i) /\ i + (j - (i - 1)) = j + 1
      BY <1>1, <1>4, <1>6
    <3>2. /\ j \in 1..(Len(a) + Len(b))
          /\ ~(j <= Len(a))
          /\ j - Len(a) = j - (i - 1)
      BY <1>1, <1>2, <1>3, <1>4, <1>6
    <3>3. (a \o b)[j] = b[j - Len(a)]
      BY <1>2, <1>3, <3>2, ConcatProperties
    <3>4. RemoveAt(s, i)[j] = b[j - (i - 1)]
      BY <3>2, <3>3 DEF RemoveAt
    <3>5. QED BY <1>3, <3>1, <3>4
  <2>2. QED BY <1>1, <1>4, <1>6, <2>1, LenProperties
<1>7. QED BY <1>1, <1>4, <1>5, <1>6

\* attemptSync looks at a connection.
LEMMA TargetType ==
  ASSUME TypeInv, NEW p \in {"check", "tracks", "offer"}, AtPhase(p)
  PROVE  Target \in Conn
<1>1. sync.at \in 1..Len(peerConnections)
  BY LenProperties DEF AtPhase, TypeInv, TypeOK
<1>2. QED BY <1>1, ElementOfSeq DEF Target, TypeInv, TypeOK

LEMMA InitType == Init => TypeInv
<1> SUFFICES ASSUME Init PROVE TypeInv
  OBVIOUS
<1> USE DEF Init
<1>1. TypeOK
  <2>1. pc \in [Thread -> Label]
    BY DEF Label
  <2>2. /\ sync \in [at : Nat, phase : {"check", "tracks", "offer"}]
        /\ wire \in [Conn -> [offers : Nat, answers : Nat]]
        /\ peerConnections \in Seq(Conn)
    BY EmptySeq DEF Idle, NoWire
  <2>3. QED BY <2>1, <2>2, ConstantsAssumption DEF TypeOK
<1>2. RequestOK
  BY Names DEF RequestOK, Handlers
<1>3. QED BY <1>1, <1>2 DEF TypeInv

LEMMA SyncType ==
  ASSUME TypeInv, SyncStep
  PROVE  TypeInv'
<1> USE DEF TypeInv, TypeOK, RequestOK, tables, locks, state, session,
        transport, signals, others
<1>1. ASSUME NEW b \in BOOLEAN, EndSync(b),
             UNCHANGED <<qualitiesLock, state, transport, others>>,
             UNCHANGED <<trackLocals, trackQualities>>,
             peerConnections' \in Seq(Conn)
      PROVE  TypeInv'
  <2>1. AfterSignal(listLock) \in {"reading", "done", "update"}
    BY DEF AfterSignal
  <2>2. pc' = pc \/ pc' = [pc EXCEPT ![listLock] = AfterSignal(listLock)]
    BY <1>1 DEF EndSync
  <2>3. pc' \in [Thread -> Label]
    BY <2>1, <2>2 DEF Label
  <2>4. RequestOK'
    BY <1>1, <2>1, <2>2, Names
  <2>5. sync' \in [at : Nat, phase : {"check", "tracks", "offer"}]
    BY <1>1 DEF EndSync, Idle
  <2>6. QED BY <1>1, <2>3, <2>4, <2>5 DEF EndSync, Retries
<1>2. CASE SyncRemoveClosed
  <2>1. peerConnections' \in Seq(Conn)
    BY <1>2, RemoveAtType DEF SyncRemoveClosed, AtPhase
  <2>2. QED BY <1>1, <1>2, <2>1 DEF SyncRemoveClosed
<1>3. CASE SyncCheckOpen
  BY <1>3 DEF SyncCheckOpen
<1>4. CASE SyncTracks
  <2>1. \A id \in TrackId : SourceOf(id) \in Track \cup {None}
    BY Ids DEF SourceOf
  <2>2. Target \in Conn
    BY <1>4, TargetType DEF SyncTracks
  <2>3. SendersAfter(Target) \in [TrackId -> Track \cup {None, Nil}]
    BY <2>1, <2>2 DEF SendersAfter
  <2>4. DecisionsAfter(Target) \in [VideoId -> Int \cup {None}]
    BY <2>2 DEF DecisionsAfter
  <2>5. QED BY <1>4, <2>3, <2>4 DEF SyncTracks
<1>5. CASE SyncRemoveFails
  BY <1>1, <1>5 DEF SyncRemoveFails
<1>6. CASE SyncAddPanics
  <2>1. CASE listLock \in Handlers
    <3>1. /\ connection' \in [Conn -> {"new", "open", "closing", "closed"}]
          /\ wire' \in [Conn -> [offers : Nat, answers : Nat]]
          /\ sync' \in [at : Nat, phase : {"check", "tracks", "offer"}]
      <4>1. PICK c \in Conn : listLock = Handler(c)
        BY <2>1 DEF Handlers
      <4>2. listLock[2] = c
        BY <4>1 DEF Handler
      <4>3. /\ connection' = [connection EXCEPT ![c] =
                 IF @ = "open" THEN "closing" ELSE @]
            /\ wire' = [wire EXCEPT ![c] = NoWire]
            /\ sync' = Idle
        BY <1>6, <2>1, <4>2 DEF SyncAddPanics
      <4>4. QED BY <4>3 DEF NoWire, Idle
    <3>2. pc' = [pc EXCEPT ![listLock] = "done"]
      BY <1>6, <2>1 DEF SyncAddPanics, Goto
    <3>3. RequestOK'
      BY <1>6, <3>2, Names DEF SyncAddPanics
    <3>4. QED BY <1>6, <2>1, <3>1, <3>2, <3>3 DEF SyncAddPanics, Label
  <2>2. CASE listLock \notin Handlers
    BY <1>6, <2>2 DEF SyncAddPanics
  <2>3. QED BY <2>1, <2>2
<1>7. CASE SyncOffer
  <2>1. Target \in Conn
    BY <1>7, TargetType DEF SyncOffer
  <2>2. wire' \in [Conn -> [offers : Nat, answers : Nat]]
    BY <1>7, <2>1 DEF SyncOffer
  <2>3. QED BY <1>7, <2>2 DEF SyncOffer
<1>8. CASE SyncOfferFails
  BY <1>1, <1>8 DEF SyncOfferFails
<1>9. CASE SyncDone
  BY <1>1, <1>9 DEF SyncDone
<1>10. QED
  BY <1>2, <1>3, <1>4, <1>5, <1>6, <1>7, <1>8, <1>9 DEF SyncStep

LEMMA SignalType ==
  ASSUME TypeInv, SignalStep
  PROVE  TypeInv'
<1> USE DEF TypeInv, TypeOK, RequestOK, tables, locks, state, session,
        transport, signals, others
<1>1. CASE SyncStep
  BY <1>1, SyncType
<1>2. CASE BeginRetry
  BY <1>2 DEF BeginRetry
<1>3. CASE \E t \in Thread : BeginSync(t)
  BY <1>3 DEF BeginSync
<1>4. QED BY <1>1, <1>2, <1>3 DEF SignalStep

LEMMA HandlerType ==
  ASSUME TypeInv, NEW c \in Conn, HandlerStep(c)
  PROVE  TypeInv'
<1> USE Names DEF TypeInv, TypeOK, RequestOK, tables, locks, state, session,
        transport, signals, others, Goto, At, Label
<1>1. CASE Connect(c)
  BY <1>1 DEF Connect
<1>2. CASE LockForRegister(c)
  BY <1>2 DEF LockForRegister
<1>3. CASE Register(c)
  <2>1. peerConnections' \in Seq(Conn)
    BY <1>3, AppendProperties DEF Register
  <2>2. \A id \in TrackId, q \in Quality :
          id[2] \in Media /\ NewTrack(c, id[2], q, FALSE) \in Track
    BY DEF TrackId, NewTrack, Track
  <2>3. trackLocals' \in [TrackId -> Track \cup {None}]
    BY <1>3, <2>2, Ids DEF Register
  <2>4. trackQualities' \in [VideoId -> [Quality -> Track \cup {None}]]
    BY <1>3, <2>2, Ids DEF Register
  <2>5. QED BY <1>3, <2>1, <2>3, <2>4 DEF Register
<1>4. CASE HandleAnswer(c)
  BY <1>4 DEF HandleAnswer
<1>5. CASE HandleAnswerPanics(c)
  BY <1>5 DEF HandleAnswerPanics, LeaveHandler, NoWire
<1>6. CASE LockQualities(c)
  BY <1>6 DEF LockQualities, Handlers
<1>7. CASE SetTrackQuality(c)
  <2>1. request[c] \in VideoId \X Int
    BY <1>7 DEF SetTrackQuality
  <2>2. PICK id \in VideoId, q \in Int : request[c] = <<id, q>>
    BY <2>1
  <2>3. q >= 0 /\ KnownQuality(id, q) => trackQualities[id][q] \in Track
    BY DEF KnownQuality
  <2>4. CASE UNCHANGED state
    BY <1>7, <2>4 DEF SetTrackQuality
  <2>5. CASE ~UNCHANGED state
    <3>1. /\ qualityDecisions' = [qualityDecisions EXCEPT ![c][id] = q]
          /\ senders' = [senders EXCEPT ![c][id] =
                IF @ = None THEN None
                ELSE IF q < 0 THEN Nil ELSE trackQualities[id][q]]
          /\ senders[c][id] = None \/ q < 0 \/ KnownQuality(id, q)
      BY <1>7, <2>2, <2>5 DEF SetTrackQuality
    <3>2. qualityDecisions' \in [Conn -> [VideoId -> Int \cup {None}]]
      BY <3>1
    <3>3. senders' \in [Conn -> [TrackId -> Track \cup {None, Nil}]]
      BY <3>1, <2>3, Ids
    <3>4. QED BY <1>7, <3>2, <3>3 DEF SetTrackQuality
  <2>6. QED BY <2>4, <2>5
<1>8. QED
  BY <1>1, <1>2, <1>3, <1>4, <1>5, <1>6, <1>7 DEF HandlerStep

LEMMA TrackType ==
  ASSUME TypeInv, NEW r \in Remote, TrackStep(r)
  PROVE  TypeInv'
<1> USE Names, RemoteTracks DEF TypeInv, TypeOK, RequestOK, tables, locks, state,
        session, transport, signals, others, Goto, At, Label
<1>0. ASSUME ReplaceTracks(r)
      PROVE  senders' \in [Conn -> [TrackId -> Track \cup {None, Nil}]]
  BY <1>0 DEF ReplaceTracks
<1>1. CASE AddQualityTrack(r)
  BY <1>1 DEF AddQualityTrack
<1>2. CASE AddTrack(r)
  BY <1>2 DEF AddTrack
<1>3. CASE UpdateClientTrackState(r)
  BY <1>0, <1>3 DEF UpdateClientTrackState
<1>4. CASE LockForUpdate(r)
  BY <1>4 DEF LockForUpdate
<1>5. CASE UpdateClientTrackStateQuality(r)
  BY <1>0, <1>5 DEF UpdateClientTrackStateQuality
<1>6. CASE ReadFails(r)
  BY <1>6 DEF ReadFails, StopForwarding
<1>7. CASE RemoveTrack(r)
  BY <1>7 DEF RemoveTrack
<1>8. QED
  BY <1>1, <1>2, <1>3, <1>4, <1>5, <1>6, <1>7 DEF TrackStep

LEMMA EnvironmentType ==
  ASSUME TypeInv, Environment
  PROVE  TypeInv'
<1> USE Names DEF TypeInv, TypeOK, RequestOK, tables, locks, state, session,
        transport, signals, others, Goto, At, Label
<1>1. CASE \E c \in Conn : ClientAnswer(c)
  BY <1>1 DEF ClientAnswer
<1>2. CASE \E c \in Conn : WebsocketClosed(c)
  BY <1>2 DEF WebsocketClosed, LeaveHandler, NoWire
<1>3. CASE \E c \in Conn : ConnectionFailed(c)
  BY <1>3 DEF ConnectionFailed
<1>4. CASE \E c \in Conn : FinishClose(c)
  BY <1>4 DEF FinishClose
<1>5. CASE \E d \in Decisions : ReceiveDecision(d[1], d[2], d[3])
  <2>1. PICK d \in Decisions : ReceiveDecision(d[1], d[2], d[3])
    BY <1>5
  <2>2. d \in Conn \X VideoId \X Int
    BY ConstantsAssumption
  <2>3. QED BY <2>1, <2>2 DEF ReceiveDecision
<1>6. CASE \E r \in Remote : TrackStarts(r)
  BY <1>6 DEF TrackStarts
<1>7. CASE \E r \in Remote : WriteFails(r)
  BY <1>7 DEF WriteFails, StopForwarding
<1>8. QED
  BY <1>1, <1>2, <1>3, <1>4, <1>5, <1>6, <1>7 DEF Environment

LEMMA StepType == TypeInv /\ [Next]_vars => TypeInv'
<1>1. ASSUME TypeInv, UNCHANGED vars PROVE TypeInv'
  BY <1>1 DEF TypeInv, TypeOK, RequestOK, vars, tables, locks, state, session,
              transport, signals, others
<1>2. QED
  BY <1>1, SignalType, HandlerType, TrackType, EnvironmentType DEF Next

(***************************************************************************)
(* Every variable keeps its type.                                          *)
(***************************************************************************)
THEOREM TypeCorrect == Spec => []TypeOK
<1>1. Spec => []TypeInv
  BY InitType, StepType, PTL DEF Spec
<1>2. TypeInv => TypeOK
  BY DEF TypeInv
<1>3. QED BY <1>1, <1>2, PTL
-----------------------------------------------------------------------------
(***************************************************************************)
(* Which steps change what.                                                *)
(***************************************************************************)

LEMMA SenderSteps ==
  ASSUME [Next]_vars
  PROVE  \/ UNCHANGED state
         \/ SyncTracks
         \/ \E c \in Conn : SetTrackQuality(c)
         \/ \E r \in Remote : UpdateClientTrackState(r)
                            \/ UpdateClientTrackStateQuality(r)
<1> USE DEF state
<1>1. CASE UNCHANGED vars
  BY <1>1 DEF vars
<1>2. CASE SignalStep
  BY <1>2 DEF SignalStep, SyncStep, SyncRemoveClosed, SyncCheckOpen,
     SyncRemoveFails, SyncAddPanics, SyncOffer, SyncOfferFails, SyncDone,
     BeginSync, BeginRetry
<1>3. CASE \E c \in Conn : HandlerStep(c)
  BY <1>3 DEF HandlerStep, Connect, LockForRegister, Register, HandleAnswer,
     HandleAnswerPanics, LockQualities
<1>4. CASE \E r \in Remote : TrackStep(r)
  BY <1>4 DEF TrackStep, AddQualityTrack, AddTrack, LockForUpdate, ReadFails,
     RemoveTrack
<1>5. CASE Environment
  BY <1>5 DEF Environment, ClientAnswer, WebsocketClosed, ConnectionFailed,
     FinishClose, ReceiveDecision, TrackStarts, WriteFails
<1>6. QED BY <1>1, <1>2, <1>3, <1>4, <1>5 DEF Next

LEMMA TableSteps ==
  ASSUME [Next]_vars
  PROVE  \/ UNCHANGED <<trackLocals, trackQualities>>
         \/ \E c \in Conn : Register(c)
         \/ \E r \in Remote : AddQualityTrack(r) \/ AddTrack(r) \/ RemoveTrack(r)
<1> USE DEF tables
<1>1. CASE UNCHANGED vars
  BY <1>1 DEF vars
<1>2. CASE SignalStep
  BY <1>2 DEF SignalStep, SyncStep, SyncRemoveClosed, SyncCheckOpen, SyncTracks,
     SyncRemoveFails, SyncAddPanics, SyncOffer, SyncOfferFails, SyncDone,
     BeginSync, BeginRetry
<1>3. CASE \E c \in Conn : HandlerStep(c)
  BY <1>3 DEF HandlerStep, Connect, LockForRegister, HandleAnswer,
     HandleAnswerPanics, LockQualities, SetTrackQuality
<1>4. CASE \E r \in Remote : TrackStep(r)
  BY <1>4 DEF TrackStep, UpdateClientTrackState, LockForUpdate,
     UpdateClientTrackStateQuality, ReadFails
<1>5. CASE Environment
  BY <1>5 DEF Environment, ClientAnswer, WebsocketClosed, ConnectionFailed,
     FinishClose, ReceiveDecision, TrackStarts, WriteFails
<1>6. QED BY <1>1, <1>2, <1>3, <1>4, <1>5 DEF Next

\* An OnTrack goroutine moves by its own steps, or when its call of
\* signalPeerConnections returns.
LEMMA TrackerSteps ==
  ASSUME TypeInv, [Next]_vars, NEW r \in Remote
  PROVE  \/ pc'[OnTrack(r)] = pc[OnTrack(r)]
         \/ pc'[OnTrack(r)] \in {"update", "done"}
         \/ TrackStep(r) \/ TrackStarts(r) \/ WriteFails(r)
<1> USE Names DEF TypeInv, TypeOK, Goto
<1>1. CASE UNCHANGED vars
  BY <1>1 DEF vars
<1>2. CASE SignalStep
  <2>1. ASSUME NEW b \in BOOLEAN, EndSync(b)
        PROVE  \/ pc'[OnTrack(r)] = pc[OnTrack(r)]
               \/ pc'[OnTrack(r)] \in {"update", "done"}
    <3>1. CASE listLock = OnTrack(r)
      <4>1. AfterSignal(listLock) \in {"update", "done"}
        BY <3>1 DEF AfterSignal, Handlers
      <4>2. QED BY <2>1, <3>1, <4>1 DEF EndSync
    <3>2. CASE listLock # OnTrack(r)
      BY <2>1, <3>2 DEF EndSync
    <3>3. QED BY <3>1, <3>2
  <2>2. SyncAddPanics => pc'[OnTrack(r)] = pc[OnTrack(r)]
    BY DEF SyncAddPanics, Handlers
  <2>3. \/ EndSync(TRUE) \/ EndSync(FALSE) \/ SyncAddPanics \/ UNCHANGED pc
    BY <1>2 DEF SignalStep, SyncStep, SyncRemoveClosed, SyncCheckOpen,
       SyncTracks, SyncRemoveFails, SyncOffer, SyncOfferFails, SyncDone,
       BeginSync, BeginRetry
  <2>4. QED BY <2>1, <2>2, <2>3
<1>3. CASE \E c \in Conn : HandlerStep(c)
  <2>1. PICK c \in Conn : HandlerStep(c)
    BY <1>3
  <2>2. UNCHANGED pc \/ \E label \in Label : pc' = [pc EXCEPT ![Handler(c)] = label]
    BY <2>1 DEF HandlerStep, Connect, LockForRegister, Register, HandleAnswer,
       HandleAnswerPanics, LeaveHandler, LockQualities, SetTrackQuality, Label
  <2>3. QED BY <2>2
<1>4. CASE \E s \in Remote : TrackStep(s)
  <2>1. PICK s \in Remote : TrackStep(s)
    BY <1>4
  <2>2. \E label \in Label : pc' = [pc EXCEPT ![OnTrack(s)] = label]
    BY <2>1 DEF TrackStep, AddQualityTrack, AddTrack, UpdateClientTrackState,
       LockForUpdate, UpdateClientTrackStateQuality, ReadFails, StopForwarding,
       RemoveTrack, Label
  <2>3. QED BY <2>1, <2>2
<1>5. CASE Environment
  <2>1. \/ UNCHANGED pc
        \/ \E c \in Conn, label \in Label :
              \/ pc' = [pc EXCEPT ![Handler(c)] = label]
              \/ pc' = [pc EXCEPT ![OnClosed(c)] = label]
        \/ \E d \in Decisions : ReceiveDecision(d[1], d[2], d[3])
        \/ \E s \in Remote : TrackStarts(s) \/ WriteFails(s)
    BY <1>5 DEF Environment, ClientAnswer, WebsocketClosed, LeaveHandler,
       ConnectionFailed, FinishClose, Label
  <2>2. ASSUME NEW d \in Decisions, ReceiveDecision(d[1], d[2], d[3])
        PROVE  pc'[OnTrack(r)] = pc[OnTrack(r)]
    <3>1. d[1] \in Conn
      BY ConstantsAssumption
    <3>2. QED BY <2>2, <3>1 DEF ReceiveDecision
  <2>3. ASSUME NEW s \in Remote, TrackStarts(s) \/ WriteFails(s), s # r
        PROVE  pc'[OnTrack(r)] = pc[OnTrack(r)]
    BY <2>3 DEF TrackStarts, WriteFails, StopForwarding
  <2>4. QED BY <2>1, <2>2, <2>3
<1>6. QED BY <1>1, <1>2, <1>3, <1>4, <1>5 DEF Next
-----------------------------------------------------------------------------
(***************************************************************************)
(* The tables of tracks.                                                   *)
(***************************************************************************)

\* A video track that is published has a track of quality 0 to start with,
\* the qualities of a tile are where they belong, and only audio tracks are
\* removed.
TableInv ==
  /\ \A id \in VideoId, q \in Quality :
       trackQualities[id][q] # None => trackQualities[id][q].quality = q
  /\ \A id \in VideoId :
       trackLocals[id] # None => trackQualities[id][0] # None
  /\ \A r \in Remote :
       /\ At(OnTrack(r), "addQuality") => r[2] # Audio
       /\ At(OnTrack(r), "addTrack") /\ r[2] # Audio
            => trackQualities[IdOf(r)][0] # None
       /\ At(OnTrack(r), "remove") => r[2] = Audio

LEMMA InitTable == Init => TableInv
BY Ids, Names DEF Init, TableInv, At, Handlers, Handler, OnTrack

LEMMA StepTable ==
  ASSUME TypeInv, TableInv, [Next]_vars
  PROVE  TableInv'
<1> USE Names, Ids DEF TypeInv, TypeOK
<1>1. \A id \in VideoId, q \in Quality :
        trackQualities'[id][q] # None => trackQualities'[id][q].quality = q
  <2>1. CASE UNCHANGED <<trackLocals, trackQualities>>
    BY <2>1 DEF TableInv
  <2>2. CASE \E c \in Conn : Register(c)
    BY <2>2 DEF TableInv, Register, NewTrack
  <2>3. CASE \E r \in Remote : AddQualityTrack(r)
    BY <2>3, RemoteTracks DEF TableInv, AddQualityTrack, Live, NewTrack
  <2>4. CASE \E r \in Remote : AddTrack(r) \/ RemoveTrack(r)
    BY <2>4 DEF TableInv, AddTrack, RemoveTrack
  <2>5. QED BY <2>1, <2>2, <2>3, <2>4, TableSteps
<1>2. \A id \in VideoId, q \in Quality :
        trackQualities[id][q] # None => trackQualities'[id][q] # None
  <2>1. CASE \E c \in Conn : Register(c)
    <3>1. PICK c \in Conn : Register(c)
      BY <2>1
    <3>2. ASSUME NEW id \in VideoId, NEW q \in Quality
          PROVE  \/ trackQualities'[id][q] # None
                 \/ trackQualities'[id][q] = trackQualities[id][q]
      <4>1. NewTrack(c, id[2], q, FALSE) # None
        BY NewTrackType DEF VideoId, Media
      <4>2. QED BY <3>1, <4>1 DEF Register
    <3>3. QED BY <3>2
  <2>2. CASE \E r \in Remote : AddQualityTrack(r)
    BY <2>2, RemoteTracks, ConstantsAssumption DEF AddQualityTrack
  <2>3. CASE UNCHANGED trackQualities
    BY <2>3
  <2>4. QED BY <2>1, <2>2, <2>3, TableSteps DEF AddTrack, RemoveTrack
<1>3. \A id \in VideoId :
        trackLocals'[id] # None => trackQualities'[id][0] # None
  <2>1. CASE UNCHANGED trackLocals
    BY <1>2, <2>1 DEF TableInv
  <2>2. CASE \E c \in Conn : Register(c)
    <3>1. PICK c \in Conn : Register(c)
      BY <2>2
    <3>2. ASSUME NEW id \in VideoId
          PROVE  \/ trackQualities'[id][0] # None
                 \/ trackLocals'[id] = trackLocals[id]
      <4>1. NewTrack(c, id[2], 0, FALSE) # None
        BY NewTrackType DEF VideoId, Media
      <4>2. QED BY <3>1, <4>1 DEF Register
    <3>3. QED BY <1>2, <3>2 DEF TableInv
  <2>3. CASE \E r \in Remote : AddTrack(r)
    <3>1. PICK r \in Remote : AddTrack(r)
      BY <2>3
    <3>2. IdOf(r) \in VideoId => trackQualities[IdOf(r)][0] # None
      BY <3>1, RemoteTracks DEF AddTrack, TableInv
    <3>3. \A id \in VideoId : id # IdOf(r) => trackLocals'[id] = trackLocals[id]
      BY <3>1 DEF AddTrack
    <3>4. ASSUME NEW id \in VideoId, trackLocals'[id] # None
          PROVE  trackQualities[id][0] # None
      <4>1. CASE id = IdOf(r)
        BY <3>2, <4>1
      <4>2. CASE id # IdOf(r)
        BY <3>3, <3>4, <4>2 DEF TableInv
      <4>3. QED BY <4>1, <4>2
    <3>5. QED BY <1>2, <3>4
  <2>4. CASE \E r \in Remote : RemoveTrack(r)
    BY <1>2, <2>4, RemoteTracks DEF RemoveTrack, TableInv
  <2>5. QED BY <2>1, <2>2, <2>3, <2>4, TableSteps DEF AddQualityTrack, tables
<1>4. ASSUME NEW r \in Remote
      PROVE  /\ At(OnTrack(r), "addQuality")' => r[2] # Audio
             /\ At(OnTrack(r), "addTrack")' /\ r[2] # Audio
                  => trackQualities'[IdOf(r)][0] # None
             /\ At(OnTrack(r), "remove")' => r[2] = Audio
  <2> USE RemoteTracks DEF At, Goto
  <2>1. CASE pc'[OnTrack(r)] = pc[OnTrack(r)]
    BY <1>2, <2>1 DEF TableInv
  <2>2. CASE pc'[OnTrack(r)] \in {"update", "done"}
    BY <2>2
  <2>3. CASE TrackStarts(r)
    BY <2>3 DEF TrackStarts
  <2>4. CASE WriteFails(r)
    BY <2>4 DEF WriteFails, StopForwarding
  <2>5. CASE AddQualityTrack(r)
    <3>1. r[2] # Audio
      BY <2>5 DEF AddQualityTrack, TableInv
    <3>2. pc'[OnTrack(r)] = IF r[3] = 0 THEN "addTrack" ELSE "update"
      BY <2>5 DEF AddQualityTrack
    <3>3. r[3] = 0 => trackQualities'[IdOf(r)][0] = Live(r)
      BY <2>5, <3>1 DEF AddQualityTrack
    <3>4. QED BY <3>1, <3>2, <3>3, ConstantsAssumption
  <2>6. CASE TrackStep(r) /\ ~AddQualityTrack(r)
    BY <2>6 DEF TrackStep, AddTrack, UpdateClientTrackState, LockForUpdate,
       UpdateClientTrackStateQuality, ReadFails, StopForwarding, RemoveTrack
  <2>7. QED BY <2>1, <2>2, <2>3, <2>4, <2>5, <2>6, TrackerSteps
<1>5. QED BY <1>1, <1>3, <1>4 DEF TableInv
-----------------------------------------------------------------------------
(***************************************************************************)
(* The senders of the connections.                                         *)
(***************************************************************************)

\* A video track that is being sent stays published, so signalling never
\* takes its sender away and leaves a decision behind.
SenderInv ==
  /\ NoLoopback
  /\ DecisionMatchesSender
  /\ \A c \in Conn, id \in VideoId :
       senders[c][id] # None => trackLocals[id] # None
  /\ \A c \in Conn, id \in TrackId : senders[c][id] = Nil => id \in VideoId

LEMMA InitSender == Init => SenderInv
BY Ids, ConstantsAssumption
   DEF Init, SenderInv, NoLoopback, DecisionMatchesSender, Matches

\* What signalling sends and records for a track.
LEMMA AfterSync ==
  ASSUME TypeInv, TableInv, SenderInv, NEW c \in Conn
  PROVE  /\ \A m \in Media : SendersAfter(c)[<<ClientOf[c], m>>] = None
         /\ \A id \in TrackId : SendersAfter(c)[id] = Nil => id \in VideoId
         /\ \A id \in VideoId :
              /\ SendersAfter(c)[id] # None => trackLocals[id] # None
              /\ \/ /\ SendersAfter(c)[id] \in Track
                    /\ SendersAfter(c)[id].quality = 0
                    /\ DecisionsAfter(c)[id] = 0
                 \/ /\ SendersAfter(c)[id] = senders[c][id]
                    /\ DecisionsAfter(c)[id] = qualityDecisions[c][id]
<1> USE Ids DEF TypeInv, TypeOK
<1>1. ASSUME NEW m \in Media
      PROVE  SendersAfter(c)[<<ClientOf[c], m>>] = None
  <2>1. <<ClientOf[c], m>> \notin MissingSenders(c)
    BY DEF MissingSenders, ExistingSenders
  <2>2. QED BY <2>1 DEF SendersAfter, SenderInv, NoLoopback
<1>2. ASSUME NEW id \in VideoId, id \in MissingSenders(c)
      PROVE  /\ trackLocals[id] # None
             /\ SendersAfter(c)[id] \in Track
             /\ SendersAfter(c)[id].quality = 0
             /\ DecisionsAfter(c)[id] = 0
  <2>1. trackLocals[id] # None /\ trackQualities[id][0] \in Track
    BY <1>2 DEF MissingSenders, TableInv
  <2>2. SendersAfter(c)[id] = trackQualities[id][0]
    BY <1>2 DEF SendersAfter, SourceOf
  <2>3. QED BY <1>2, <2>1, <2>2, ConstantsAssumption DEF TableInv, DecisionsAfter
<1>3. ASSUME NEW id \in VideoId, id \notin MissingSenders(c)
      PROVE  /\ SendersAfter(c)[id] = senders[c][id]
             /\ DecisionsAfter(c)[id] = qualityDecisions[c][id]
  <2>1. id \notin StaleSenders(c)
    BY ConstantsAssumption DEF StaleSenders, SenderInv
  <2>2. QED BY <1>3, <2>1 DEF SendersAfter, DecisionsAfter
<1>4. ASSUME NEW id \in TrackId, SendersAfter(c)[id] = Nil
      PROVE  id \in VideoId
  <2>1. SourceOf(id) # Nil
    BY ConstantsAssumption DEF SourceOf
  <2>2. None # Nil
    BY ConstantsAssumption
  <2>3. QED BY <1>4, <2>1, <2>2 DEF SendersAfter, SenderInv
<1>5. QED BY <1>1, <1>2, <1>3, <1>4 DEF SenderInv

\* No step takes a published video track away.
LEMMA VideoStays ==
  ASSUME TypeInv, TableInv, [Next]_vars, NEW id \in VideoId, trackLocals[id] # None
  PROVE  trackLocals'[id] # None
<1> USE Ids, RemoteTracks DEF TypeInv, TypeOK
<1>1. CASE UNCHANGED trackLocals
  BY <1>1
<1>2. CASE \E c \in Conn : Register(c)
  <2>1. PICK c \in Conn : Register(c)
    BY <1>2
  <2>2. NewTrack(c, id[2], 0, FALSE) # None
    BY NewTrackType DEF VideoId, Media
  <2>3. QED BY <2>1, <2>2 DEF Register
<1>3. CASE \E r \in Remote : AddTrack(r)
  BY <1>3, ConstantsAssumption DEF AddTrack
<1>4. CASE \E r \in Remote : RemoveTrack(r)
  BY <1>4 DEF RemoveTrack, TableInv
<1>5. QED BY <1>1, <1>2, <1>3, <1>4, TableSteps DEF AddQualityTrack

LEMMA StepSender ==
  ASSUME TypeInv, TableInv, SenderInv, [Next]_vars
  PROVE  SenderInv'
<1> USE Names, Ids, RemoteTracks DEF TypeInv, TypeOK
<1>1. CASE UNCHANGED state
  BY <1>1, VideoStays DEF state, SenderInv, NoLoopback, DecisionMatchesSender
<1>2. CASE SyncTracks
  <2>1. Target \in Conn
    BY <1>2, TargetType DEF SyncTracks
  <2>2. /\ senders' = [senders EXCEPT ![Target] = SendersAfter(Target)]
        /\ qualityDecisions' =
             [qualityDecisions EXCEPT ![Target] = DecisionsAfter(Target)]
        /\ UNCHANGED trackLocals
    BY <1>2 DEF SyncTracks, tables
  <2>3. ASSUME NEW c \in Conn, c # Target
        PROVE  senders'[c] = senders[c] /\ qualityDecisions'[c] = qualityDecisions[c]
    BY <2>2, <2>3
  <2>4. /\ senders'[Target] = SendersAfter(Target)
        /\ qualityDecisions'[Target] = DecisionsAfter(Target)
    BY <2>1, <2>2
  <2>5. ASSUME NEW c \in Conn, NEW m \in Media
        PROVE  senders'[c][<<ClientOf[c], m>>] = None
    <3>1. CASE c = Target
      BY <2>1, <2>4, <3>1, AfterSync
    <3>2. CASE c # Target
      BY <2>3, <3>2 DEF SenderInv, NoLoopback
    <3>3. QED BY <3>1, <3>2
  <2>6. ASSUME NEW c \in Conn, NEW id \in VideoId
        PROVE  Matches(senders'[c][id], qualityDecisions'[c][id])
    <3>1. CASE c = Target
      <4>1. \/ /\ senders'[c][id] \in Track
               /\ senders'[c][id].quality = 0
               /\ qualityDecisions'[c][id] = 0
            \/ /\ senders'[c][id] = senders[c][id]
               /\ qualityDecisions'[c][id] = qualityDecisions[c][id]
        BY <2>1, <2>4, <3>1, AfterSync
      <4>2. Matches(senders[c][id], qualityDecisions[c][id])
        BY DEF SenderInv, DecisionMatchesSender
      <4>3. QED BY <4>1, <4>2 DEF Matches
    <3>2. CASE c # Target
      BY <2>3, <3>2 DEF SenderInv, DecisionMatchesSender
    <3>3. QED BY <3>1, <3>2
  <2>7. \A c \in Conn, id \in VideoId :
          senders'[c][id] # None => trackLocals'[id] # None
    BY <2>1, <2>2, <2>3, <2>4, AfterSync DEF SenderInv
  <2>8. ASSUME NEW c \in Conn, NEW id \in TrackId, senders'[c][id] = Nil
        PROVE  id \in VideoId
    <3>1. CASE c = Target
      BY <2>1, <2>4, <2>8, <3>1, AfterSync
    <3>2. CASE c # Target
      BY <2>3, <2>8, <3>2 DEF SenderInv
    <3>3. QED BY <3>1, <3>2
  <2>9. QED
    BY <2>5, <2>6, <2>7, <2>8 DEF SenderInv, NoLoopback, DecisionMatchesSender
<1>3. CASE \E c \in Conn : SetTrackQuality(c)
  <2>1. PICK c \in Conn : SetTrackQuality(c)
    BY <1>3
  <2>2. CASE UNCHANGED state
    BY <1>1, <2>2
  <2>3. CASE ~UNCHANGED state
    <3>0. request[c] \in VideoId \X Int
      BY <2>1 DEF SetTrackQuality, RequestOK, At
    <3>1. PICK id \in VideoId, q \in Int : request[c] = <<id, q>>
      BY <3>0
    <3>2. /\ qualityDecisions' = [qualityDecisions EXCEPT ![c][id] = q]
          /\ senders' = [senders EXCEPT ![c][id] =
                IF @ = None THEN None
                ELSE IF q < 0 THEN Nil ELSE trackQualities[id][q]]
          /\ senders[c][id] = None \/ q < 0 \/ KnownQuality(id, q)
          /\ qualityDecisions[c][id] # None
          /\ UNCHANGED trackLocals
      BY <2>1, <2>3, <3>1 DEF SetTrackQuality, tables
    <3>3. senders[c][id] # None
      BY <3>2, ConstantsAssumption DEF SenderInv, DecisionMatchesSender, Matches
    <3>4. /\ senders'[c][id] =
               IF q < 0 THEN Nil ELSE trackQualities[id][q]
          /\ qualityDecisions'[c][id] = q
      BY <3>2, <3>3
    <3>5. \A d \in Conn, i \in TrackId :
            <<d, i>> # <<c, id>> => senders'[d][i] = senders[d][i]
      BY <3>2
    <3>6. \A d \in Conn, i \in VideoId :
            <<d, i>> # <<c, id>> => qualityDecisions'[d][i] = qualityDecisions[d][i]
      BY <3>2
    <3>7. ASSUME NEW d \in Conn, NEW m \in Media
          PROVE  senders'[d][<<ClientOf[d], m>>] = None
      <4>1. senders[d][<<ClientOf[d], m>>] = None
        BY DEF SenderInv, NoLoopback
      <4>2. QED BY <3>3, <3>5, <4>1
    <3>8. q >= 0 => trackQualities[id][q] \in Track /\ trackQualities[id][q].quality = q
      BY <3>2, <3>3 DEF KnownQuality, TableInv
    <3>9. ASSUME NEW d \in Conn, NEW i \in VideoId
          PROVE  Matches(senders'[d][i], qualityDecisions'[d][i])
      <4>1. CASE <<d, i>> = <<c, id>>
        BY <3>4, <3>8, <4>1, ConstantsAssumption DEF Matches
      <4>2. CASE <<d, i>> # <<c, id>>
        BY <3>5, <3>6, <4>2 DEF SenderInv, DecisionMatchesSender
      <4>3. QED BY <4>1, <4>2
    <3>10. \A d \in Conn, i \in VideoId :
             senders'[d][i] # None => trackLocals'[i] # None
      BY <3>2, <3>3, <3>5 DEF SenderInv
    <3>11. \A d \in Conn, i \in TrackId : senders'[d][i] = Nil => i \in VideoId
      BY <3>2, <3>5 DEF SenderInv
    <3>12. QED
      BY <3>7, <3>9, <3>10, <3>11 DEF SenderInv, NoLoopback, DecisionMatchesSender
  <2>4. QED BY <2>2, <2>3
<1>4. CASE \E r \in Remote : UpdateClientTrackState(r) \/ UpdateClientTrackStateQuality(r)
  <2>1. PICK r \in Remote : UpdateClientTrackState(r) \/ UpdateClientTrackStateQuality(r)
    BY <1>4
  <2>2. /\ ReplaceTracks(r)
        /\ UNCHANGED <<trackLocals, qualityDecisions>>
    BY <2>1 DEF UpdateClientTrackState, UpdateClientTrackStateQuality, tables
  <2>3. \A c \in Conn, id \in TrackId :
          \/ senders'[c][id] = senders[c][id]
          \/ /\ id = IdOf(r)
             /\ senders[c][id] # None
             /\ IsVideo(id) => qualityDecisions[c][id] = r[3]
             /\ senders'[c][id] = Live(r)
    BY <2>2 DEF ReplaceTracks, Adopts
  <2>4. Live(r).quality = r[3]
    BY DEF Live, NewTrack
  <2>5. NoLoopback'
    BY <2>3 DEF SenderInv, NoLoopback
  <2>6. ASSUME NEW c \in Conn, NEW id \in VideoId
        PROVE  Matches(senders'[c][id], qualityDecisions'[c][id])
    <3>1. Matches(senders[c][id], qualityDecisions[c][id])
      BY DEF SenderInv, DecisionMatchesSender
    <3>2. \/ senders'[c][id] = senders[c][id]
          \/ qualityDecisions[c][id] = r[3] /\ senders'[c][id] = Live(r)
      BY <2>3
    <3>3. QED BY <2>2, <2>4, <3>1, <3>2 DEF Matches
  <2>7. \A c \in Conn, id \in VideoId :
          senders'[c][id] # None => trackLocals'[id] # None
    BY <2>2, <2>3 DEF SenderInv
  <2>8. ASSUME NEW c \in Conn, NEW id \in TrackId, senders'[c][id] = Nil
        PROVE  id \in VideoId
    <3>1. Live(r) # Nil
      BY ConstantsAssumption
    <3>2. senders[c][id] = Nil
      BY <2>3, <2>8, <3>1
    <3>3. QED BY <3>2 DEF SenderInv
  <2>9. QED
    BY <2>5, <2>6, <2>7, <2>8 DEF SenderInv, NoLoopback, DecisionMatchesSender
<1>5. QED BY <1>1, <1>2, <1>3, <1>4, SenderSteps

(***************************************************************************)
(* A connection is never sent a track of its own client.                   *)
(***************************************************************************)
THEOREM NoLoopbackHolds == Spec => []NoLoopback
<1>1. Init => TypeInv /\ TableInv /\ SenderInv
  BY InitType, InitTable, InitSender
<1>2. TypeInv /\ TableInv /\ SenderInv /\ [Next]_vars
        => (TypeInv /\ TableInv /\ SenderInv)'
  BY StepType, StepTable, StepSender
<1>3. SenderInv => NoLoopback
  BY DEF SenderInv
<1>4. QED BY <1>1, <1>2, <1>3, PTL DEF Spec

(***************************************************************************)
(* The decision that a connection recorded is what it is sent.             *)
(***************************************************************************)
THEOREM DecisionMatchesSenderHolds == Spec => []DecisionMatchesSender
<1>1. Init => TypeInv /\ TableInv /\ SenderInv
  BY InitType, InitTable, InitSender
<1>2. TypeInv /\ TableInv /\ SenderInv /\ [Next]_vars
        => (TypeInv /\ TableInv /\ SenderInv)'
  BY StepType, StepTable, StepSender
<1>3. SenderInv => DecisionMatchesSender
  BY DEF SenderInv
<1>4. QED BY <1>1, <1>2, <1>3, PTL DEF Spec
-----------------------------------------------------------------------------
(***************************************************************************)
(* Control: who holds listLock, and what a goroutine has done already.     *)
(***************************************************************************)

\* A running attemptSync belongs to a goroutine that is inside its call; a
\* handler that has not started has made no connection, and only made
\* connections are listed; the callback runs when Close has ended.
ControlInv ==
  /\ sync.at > 0 => listLock = Retry \/ (listLock \in Thread /\ Signalling(listLock))
  /\ \A r \in Remote : At(OnTrack(r), "updateQuality") => listLock = OnTrack(r)
  /\ \A c \in Conn : At(Handler(c), "start") <=> connection[c] = "new"
  /\ \A c \in Conn : ~At(OnClosed(c), "idle") => connection[c] = "closed"
  /\ \A c \in Conn : At(OnClosed(c), "idle") => listLock # OnClosed(c)
  /\ \A i \in DOMAIN peerConnections : connection[peerConnections[i]] # "new"

LEMMA InitControl == Init => ControlInv
BY Names DEF Init, ControlInv, Idle, At

LEMMA SyncControl ==
  ASSUME TypeInv, ControlInv, SyncStep
  PROVE  ControlInv'
<1> USE Names DEF At, Signalling
<1>0. pc \in [Thread -> Label] /\ connection \in [Conn -> {"new", "open", "closing", "closed"}]
  BY DEF TypeInv, TypeOK
<1>t. sync.at > 0 /\ (listLock = Retry \/ (listLock \in Thread /\ Signalling(listLock)))
  <2>1. /\ Len(peerConnections) \in Nat
        /\ DOMAIN peerConnections = 1..Len(peerConnections)
        /\ sync.at \in Nat
    BY LenProperties DEF TypeInv, TypeOK
  <2>2. sync.at > 0
    <3>1. sync.at \in DOMAIN peerConnections \/ sync.at > Len(peerConnections)
      BY DEF SyncStep, SyncRemoveClosed, SyncCheckOpen, SyncTracks,
         SyncRemoveFails, SyncAddPanics, SyncOffer, SyncOfferFails, SyncDone, AtPhase
    <3>2. QED BY <2>1, <3>1
  <2>3. QED BY <2>2 DEF ControlInv
<1>1. ASSUME NEW b \in BOOLEAN, EndSync(b), UNCHANGED transport,
             \A i \in DOMAIN peerConnections' :
               connection[peerConnections'[i]] # "new"
      PROVE  ControlInv'
  <2>1. AfterSignal(listLock) \in {"reading", "done", "update"}
    BY DEF AfterSignal
  <2>2. ASSUME NEW t \in Thread
        PROVE  \/ pc'[t] = pc[t] /\ t # listLock
               \/ /\ t = listLock
                  /\ pc[t] \in {"signal", "signalRemoved"}
                  /\ pc'[t] \in {"reading", "done", "update"}
    BY <1>0, <1>t, <1>1, <2>1 DEF EndSync
  <2>3. ASSUME NEW r \in Remote PROVE pc'[OnTrack(r)] # "updateQuality"
    BY <2>2 DEF ControlInv
  <2>4. ASSUME NEW c \in Conn, pc'[OnClosed(c)] # "idle"
        PROVE  connection[c] = "closed"
    BY <2>2, <2>4 DEF ControlInv
  <2>5. ASSUME NEW c \in Conn
        PROVE  pc'[Handler(c)] = "start" <=> connection[c] = "new"
    BY <2>2 DEF ControlInv
  <2>6. sync'.at = 0 /\ connection' = connection /\ listLock' = Free
    BY <1>1 DEF EndSync, Idle, transport
  <2>7. QED BY <1>1, <2>3, <2>4, <2>5, <2>6 DEF ControlInv
<1>2. CASE SyncRemoveClosed
  <2>1. \A i \in DOMAIN peerConnections' : connection[peerConnections'[i]] # "new"
    BY <1>2, RemoveAtElements
       DEF SyncRemoveClosed, AtPhase, TypeInv, TypeOK, ControlInv
  <2>2. QED BY <1>1, <1>2, <2>1 DEF SyncRemoveClosed
<1>3. CASE UNCHANGED <<peerConnections, listLock, connection, pc>>
  BY <1>3, <1>t DEF ControlInv
<1>4. CASE SyncRemoveFails \/ SyncOfferFails \/ SyncDone
  BY <1>1, <1>4 DEF SyncRemoveFails, SyncOfferFails, SyncDone, tables, ControlInv
<1>5. CASE SyncAddPanics /\ listLock \in Handlers
  <2>1. PICK c \in Conn : listLock = Handler(c)
    BY <1>5 DEF Handlers
  <2>2. listLock[2] = c
    BY <2>1 DEF Handler
  <2>3. /\ pc' = [pc EXCEPT ![Handler(c)] = "done"]
        /\ connection' = [connection EXCEPT ![c] = IF @ = "open" THEN "closing" ELSE @]
        /\ sync'.at = 0
        /\ listLock' = Free
        /\ UNCHANGED peerConnections
    BY <1>5, <2>1, <2>2 DEF SyncAddPanics, Goto, Idle, tables
  <2>4. pc[Handler(c)] \in {"signal", "signalRemoved"}
    BY <1>t, <2>1
  <2>5. QED BY <1>0, <2>1, <2>3, <2>4 DEF ControlInv
<1>6. QED
  BY <1>2, <1>3, <1>4, <1>5 DEF SyncStep, SyncCheckOpen, SyncTracks,
     SyncAddPanics, SyncOffer, tables, locks, transport

LEMMA SignalControl ==
  ASSUME TypeInv, ControlInv, SignalStep
  PROVE  ControlInv'
<1> USE Names DEF TypeInv, TypeOK, ControlInv, tables, transport, At, Signalling
<1>1. CASE SyncStep
  BY <1>1, SyncControl
<1>2. CASE BeginRetry
  BY <1>2 DEF BeginRetry
<1>3. CASE \E t \in Thread : BeginSync(t)
  BY <1>3 DEF BeginSync
<1>4. QED BY <1>1, <1>2, <1>3 DEF SignalStep

LEMMA HandlerControl ==
  ASSUME TypeInv, ControlInv, NEW c \in Conn, HandlerStep(c)
  PROVE  ControlInv'
<1> USE Names DEF TypeInv, TypeOK, ControlInv, tables, locks, transport, signals,
        Goto, At, Signalling
<1>1. CASE Connect(c)
  BY <1>1 DEF Connect
<1>2. CASE LockForRegister(c)
  BY <1>2 DEF LockForRegister
<1>3. CASE Register(c)
  <2>1. \A i \in DOMAIN peerConnections' : connection[peerConnections'[i]] # "new"
    BY <1>3, AppendProperties DEF Register
  <2>2. QED BY <1>3, <2>1 DEF Register
<1>4. CASE HandleAnswer(c)
  BY <1>4 DEF HandleAnswer
<1>5. CASE HandleAnswerPanics(c)
  BY <1>5 DEF HandleAnswerPanics, LeaveHandler
<1>6. CASE LockQualities(c)
  BY <1>6 DEF LockQualities
<1>7. CASE SetTrackQuality(c)
  BY <1>7 DEF SetTrackQuality
<1>8. QED
  BY <1>1, <1>2, <1>3, <1>4, <1>5, <1>6, <1>7 DEF HandlerStep

LEMMA TrackControl ==
  ASSUME TypeInv, ControlInv, NEW r \in Remote, TrackStep(r)
  PROVE  ControlInv'
<1> USE Names DEF TypeInv, TypeOK, ControlInv, tables, locks, transport, signals,
        Goto, At, Signalling
<1>1. CASE AddQualityTrack(r)
  BY <1>1 DEF AddQualityTrack
<1>2. CASE AddTrack(r)
  BY <1>2 DEF AddTrack
<1>3. CASE UpdateClientTrackState(r)
  BY <1>3 DEF UpdateClientTrackState
<1>4. CASE LockForUpdate(r)
  BY <1>4 DEF LockForUpdate
<1>5. CASE UpdateClientTrackStateQuality(r)
  BY <1>5 DEF UpdateClientTrackStateQuality
<1>6. CASE ReadFails(r)
  BY <1>6 DEF ReadFails, StopForwarding
<1>7. CASE RemoveTrack(r)
  BY <1>7 DEF RemoveTrack
<1>8. QED
  BY <1>1, <1>2, <1>3, <1>4, <1>5, <1>6, <1>7 DEF TrackStep

LEMMA EnvironmentControl ==
  ASSUME TypeInv, ControlInv, Environment
  PROVE  ControlInv'
<1> USE Names DEF TypeInv, TypeOK, ControlInv, tables, locks, transport, signals,
        Goto, At, Signalling
<1>1. CASE \E c \in Conn : ClientAnswer(c)
  BY <1>1 DEF ClientAnswer
<1>2. CASE \E c \in Conn : WebsocketClosed(c)
  BY <1>2 DEF WebsocketClosed, LeaveHandler
<1>3. CASE \E c \in Conn : ConnectionFailed(c)
  BY <1>3 DEF ConnectionFailed
<1>4. CASE \E c \in Conn : FinishClose(c)
  BY <1>4 DEF FinishClose
<1>5. CASE \E d \in Decisions : ReceiveDecision(d[1], d[2], d[3])
  <2>1. PICK d \in Decisions : ReceiveDecision(d[1], d[2], d[3])
    BY <1>5
  <2>2. d[1] \in Conn
    BY ConstantsAssumption
  <2>3. QED BY <2>1, <2>2 DEF ReceiveDecision
<1>6. CASE \E r \in Remote : TrackStarts(r)
  BY <1>6 DEF TrackStarts
<1>7. CASE \E r \in Remote : WriteFails(r)
  BY <1>7 DEF WriteFails, StopForwarding
<1>8. QED
  BY <1>1, <1>2, <1>3, <1>4, <1>5, <1>6, <1>7 DEF Environment

LEMMA StepControl ==
  ASSUME TypeInv, ControlInv, [Next]_vars
  PROVE  ControlInv'
<1>1. CASE UNCHANGED vars
  BY <1>1 DEF ControlInv, vars, tables, locks, transport, signals, At, Signalling
<1>2. QED
  BY <1>1, SignalControl, HandlerControl, TrackControl, EnvironmentControl DEF Next
-----------------------------------------------------------------------------
(***************************************************************************)
(* Offers and answers.                                                     *)
(***************************************************************************)

LEMMA TransportSteps ==
  ASSUME [Next]_vars
  PROVE  \/ UNCHANGED <<connection, signaling, wire>>
         \/ SyncAddPanics \/ SyncOffer
         \/ \E c \in Conn : \/ Connect(c) \/ ClientAnswer(c) \/ HandleAnswer(c)
                           \/ HandleAnswerPanics(c) \/ WebsocketClosed(c)
                           \/ ConnectionFailed(c) \/ FinishClose(c)
<1> USE DEF transport, session
<1>1. CASE UNCHANGED vars
  BY <1>1 DEF vars
<1>2. CASE SignalStep
  BY <1>2 DEF SignalStep, SyncStep, SyncRemoveClosed, SyncCheckOpen, SyncTracks,
     SyncRemoveFails, SyncOfferFails, SyncDone, BeginSync, BeginRetry
<1>3. CASE \E c \in Conn : HandlerStep(c)
  BY <1>3 DEF HandlerStep, LockForRegister, Register, LockQualities, SetTrackQuality
<1>4. CASE \E r \in Remote : TrackStep(r)
  BY <1>4 DEF TrackStep, AddQualityTrack, AddTrack, UpdateClientTrackState,
     LockForUpdate, UpdateClientTrackStateQuality, ReadFails, RemoveTrack
<1>5. CASE Environment
  BY <1>5 DEF Environment, ReceiveDecision, TrackStarts, WriteFails
<1>6. QED BY <1>1, <1>2, <1>3, <1>4, <1>5 DEF Next

\* A connection that the handler has not made yet has no offer.
AnswerInv ==
  \A c \in Conn :
    /\ connection[c] = "new" => signaling[c] = "stable"
    /\ connection[c] \in {"new", "open"} =>
         wire[c].offers + wire[c].answers =
           IF signaling[c] = "haveLocalOffer" THEN 1 ELSE 0

LEMMA InitAnswer == Init => AnswerInv
BY DEF Init, AnswerInv, NoWire

LEMMA StepAnswer ==
  ASSUME TypeInv, ControlInv, AnswerInv, [Next]_vars
  PROVE  AnswerInv'
<1>0. /\ connection \in [Conn -> {"new", "open", "closing", "closed"}]
      /\ signaling \in [Conn -> {"stable", "haveLocalOffer"}]
      /\ wire \in [Conn -> [offers : Nat, answers : Nat]]
  BY DEF TypeInv, TypeOK
<1> USE <1>0 DEF AnswerInv
<1>1. CASE UNCHANGED <<connection, signaling, wire>>
  BY <1>1
\* A handler that leaves closes its connection.
<1>2. ASSUME NEW c \in Conn, UNCHANGED signaling, connection[c] # "new",
             connection' = [connection EXCEPT ![c] = IF @ = "open" THEN "closing" ELSE @],
             wire' = [wire EXCEPT ![c] = NoWire]
      PROVE  AnswerInv'
  BY <1>2
<1>3. CASE SyncAddPanics
  <2>1. CASE listLock \in Handlers
    <3>1. PICK c \in Conn : listLock = Handler(c)
      BY <2>1 DEF Handlers
    <3>2. listLock[2] = c
      BY <3>1 DEF Handler
    <3>3. Signalling(Handler(c))
      <4>1. sync.at > 0
        BY <1>3, LenProperties DEF SyncAddPanics, AtPhase, TypeInv, TypeOK
      <4>2. QED BY <3>1, <4>1, Names DEF ControlInv
    <3>4. connection[c] # "new"
      BY <3>3 DEF ControlInv, At, Signalling
    <3>5. QED BY <1>2, <1>3, <2>1, <3>2, <3>4 DEF SyncAddPanics, session
  <2>2. CASE listLock \notin Handlers
    BY <1>3, <2>2 DEF SyncAddPanics, session
  <2>3. QED BY <2>1, <2>2
<1>4. CASE SyncOffer
  <2>1. Target \in Conn
    BY <1>4, TargetType DEF SyncOffer
  <2>2. QED BY <1>4, <2>1 DEF SyncOffer, OfferAccepted
<1>5. ASSUME NEW c \in Conn, Connect(c)
      PROVE  AnswerInv'
  BY <1>5 DEF Connect, ControlInv, session
<1>6. ASSUME NEW c \in Conn, ClientAnswer(c)
      PROVE  AnswerInv'
  BY <1>6 DEF ClientAnswer, session
<1>7. ASSUME NEW c \in Conn, HandleAnswer(c)
      PROVE  AnswerInv'
  BY <1>7 DEF HandleAnswer
<1>8. ASSUME NEW c \in Conn, HandleAnswerPanics(c) \/ WebsocketClosed(c)
      PROVE  AnswerInv'
  <2>1. connection[c] # "new"
    BY <1>8 DEF HandleAnswerPanics, WebsocketClosed, ControlInv, At
  <2>2. QED BY <1>2, <1>8, <2>1 DEF HandleAnswerPanics, WebsocketClosed,
        LeaveHandler, session
<1>9. ASSUME NEW c \in Conn, ConnectionFailed(c) \/ FinishClose(c)
      PROVE  AnswerInv'
  BY <1>9 DEF ConnectionFailed, FinishClose, session
<1>10. QED
  BY <1>1, <1>3, <1>4, <1>5, <1>6, <1>7, <1>8, <1>9, TransportSteps

(***************************************************************************)
(* An open connection has at most one offer outstanding, and the answer to *)
(* it is accepted.                                                         *)
(***************************************************************************)
THEOREM AnswerExpectedHolds == Spec => []AnswerExpected
<1>1. Init => TypeInv /\ ControlInv /\ AnswerInv
  BY InitType, InitControl, InitAnswer
<1>2. TypeInv /\ ControlInv /\ AnswerInv /\ [Next]_vars
        => (TypeInv /\ ControlInv /\ AnswerInv)'
  BY StepType, StepControl, StepAnswer
<1>3. AnswerInv => AnswerExpected
  BY DEF AnswerInv, AnswerExpected
<1>4. QED BY <1>1, <1>2, <1>3, PTL DEF Spec
-----------------------------------------------------------------------------
(***************************************************************************)
(* The refinement of OfferAnswer.                                          *)
(***************************************************************************)

\* One connection moves, the others keep what the mapping reads.
OthersKeep(c) ==
  \A d \in Conn \ {c} : Exchange(d)' = Exchange(d)

LEMMA ExchangeMove ==
  ASSUME NEW c \in Conn, OthersKeep(c),
         \/ Exchange(c)' \in {Exchange(c), "over"}
         \/ Exchange(c) = "none" /\ Exchange(c)' = "offered"
         \/ Exchange(c) = "offered" /\ Exchange(c)' = "answered"
         \/ Exchange(c) = "answered" /\ Exchange(c)' = "none"
  PROVE  [OneExchange!Next]_([d \in Conn |-> Exchange(d)])
<1> DEFINE ex == [d \in Conn |-> Exchange(d)]
<1>1. ex' = [ex EXCEPT ![c] = Exchange(c)']
  BY DEF OthersKeep
<1>2. ex[c] = Exchange(c)
  OBVIOUS
<1>3. CASE Exchange(c)' = Exchange(c)
  BY <1>1, <1>3
<1>4. CASE Exchange(c)' # Exchange(c)
  BY <1>1, <1>2, <1>4 DEF OneExchange!Next, OneExchange!End, OneExchange!Offer,
     OneExchange!Answer, OneExchange!Accept, OneExchange!Moves
<1>5. QED BY <1>3, <1>4

LEMMA StepExchange ==
  ASSUME TypeInv, ControlInv, AnswerInv, [Next]_vars
  PROVE  [OneExchange!Next]_([d \in Conn |-> Exchange(d)])
<1>0. /\ connection \in [Conn -> {"new", "open", "closing", "closed"}]
      /\ signaling \in [Conn -> {"stable", "haveLocalOffer"}]
      /\ wire \in [Conn -> [offers : Nat, answers : Nat]]
  BY DEF TypeInv, TypeOK
<1> USE <1>0 DEF OthersKeep, Exchange, Over
<1>1. CASE UNCHANGED <<connection, signaling, wire>>
  BY <1>1
\* A handler that leaves closes its connection.
<1>2. ASSUME NEW c \in Conn, UNCHANGED signaling, connection[c] # "new",
             connection' = [connection EXCEPT ![c] = IF @ = "open" THEN "closing" ELSE @],
             wire' = [wire EXCEPT ![c] = NoWire]
      PROVE  [OneExchange!Next]_([d \in Conn |-> Exchange(d)])
  BY <1>2, ExchangeMove
<1>3. CASE SyncAddPanics
  <2>1. CASE listLock \in Handlers
    <3>1. PICK c \in Conn : listLock = Handler(c)
      BY <2>1 DEF Handlers
    <3>2. listLock[2] = c
      BY <3>1 DEF Handler
    <3>3. Signalling(Handler(c))
      <4>1. sync.at > 0
        BY <1>3, LenProperties DEF SyncAddPanics, AtPhase, TypeInv, TypeOK
      <4>2. QED BY <3>1, <4>1, Names DEF ControlInv
    <3>4. connection[c] # "new"
      BY <3>3 DEF ControlInv, At, Signalling
    <3>5. QED BY <1>2, <1>3, <2>1, <3>2, <3>4 DEF SyncAddPanics, session
  <2>2. CASE listLock \notin Handlers
    BY <1>1, <1>3, <2>2 DEF SyncAddPanics, session
  <2>3. QED BY <2>1, <2>2
<1>4. CASE SyncOffer
  <2>1. PICK c \in Conn : c = Target
    BY <1>4, TargetType DEF SyncOffer
  <2>2. /\ connection[c] = "open"
        /\ signaling[c] = "stable"
        /\ signaling' = [signaling EXCEPT ![c] = "haveLocalOffer"]
        /\ wire' = [wire EXCEPT ![c] =
             [offers |-> @.offers + 1, answers |-> @.answers]]
        /\ UNCHANGED connection
    BY <1>4, <2>1 DEF SyncOffer, OfferAccepted
  <2>3. wire[c].offers + 1 > 0
    OBVIOUS
  <2>4. Exchange(c) = "none" /\ Exchange(c)' = "offered"
    BY <2>2, <2>3
  <2>5. OthersKeep(c)
    BY <2>2
  <2>6. QED BY <2>4, <2>5, ExchangeMove
<1>5. ASSUME NEW c \in Conn, Connect(c)
      PROVE  [OneExchange!Next]_([d \in Conn |-> Exchange(d)])
  <2>1. Exchange(c)' = Exchange(c) /\ OthersKeep(c)
    BY <1>5 DEF Connect, ControlInv, session
  <2>2. QED BY <2>1, ExchangeMove
<1>6. ASSUME NEW c \in Conn, ClientAnswer(c)
      PROVE  [OneExchange!Next]_([d \in Conn |-> Exchange(d)])
  <2>1. OthersKeep(c)
    BY <1>6 DEF ClientAnswer, session
  <2>2. CASE Over(c)
    BY <1>6, <2>1, <2>2, ExchangeMove DEF ClientAnswer, session
  <2>3. CASE ~Over(c)
    <3>1. signaling[c] = "haveLocalOffer" /\ wire[c].offers = 1
      <4>1. /\ wire[c].offers \in Nat /\ wire[c].answers \in Nat
            /\ wire[c].offers > 0
        BY <1>6 DEF ClientAnswer
      <4>2. connection[c] \in {"new", "open"}
        BY <2>3
      <4>3. wire[c].offers + wire[c].answers =
              IF signaling[c] = "haveLocalOffer" THEN 1 ELSE 0
        BY <4>2 DEF AnswerInv
      <4>4. QED BY <4>1, <4>3
    <3>2. Exchange(c) = "offered" /\ Exchange(c)' = "answered"
      BY <1>6, <2>3, <3>1 DEF ClientAnswer, session
    <3>3. QED BY <2>1, <3>2, ExchangeMove
  <2>4. QED BY <2>2, <2>3
<1>7. ASSUME NEW c \in Conn, HandleAnswer(c)
      PROVE  [OneExchange!Next]_([d \in Conn |-> Exchange(d)])
  <2>1. OthersKeep(c)
    BY <1>7 DEF HandleAnswer
  <2>2. wire[c].offers = 0
    <3>1. /\ wire[c].offers \in Nat /\ wire[c].answers \in Nat
          /\ wire[c].answers > 0
      BY <1>7 DEF HandleAnswer
    <3>2. wire[c].offers + wire[c].answers = 1
      BY <1>7 DEF HandleAnswer, AnswerInv
    <3>3. \A n, m \in Nat : n + m = 1 /\ m > 0 => n = 0
      OBVIOUS
    <3>4. QED BY <3>1, <3>2, <3>3, Zenon
  <2>3. Exchange(c) = "answered" /\ Exchange(c)' = "none"
    BY <1>7, <2>2 DEF HandleAnswer
  <2>4. QED BY <2>1, <2>3, ExchangeMove
<1>8. ASSUME NEW c \in Conn, HandleAnswerPanics(c) \/ WebsocketClosed(c)
      PROVE  [OneExchange!Next]_([d \in Conn |-> Exchange(d)])
  <2>1. connection[c] # "new"
    BY <1>8 DEF HandleAnswerPanics, WebsocketClosed, ControlInv, At
  <2>2. QED BY <1>2, <1>8, <2>1 DEF HandleAnswerPanics, WebsocketClosed,
        LeaveHandler, session
<1>9. ASSUME NEW c \in Conn, ConnectionFailed(c) \/ FinishClose(c)
      PROVE  [OneExchange!Next]_([d \in Conn |-> Exchange(d)])
  <2>1. Exchange(c)' = "over" /\ OthersKeep(c)
    BY <1>9 DEF ConnectionFailed, FinishClose, session
  <2>2. QED BY <2>1, ExchangeMove
<1>10. QED
  BY <1>1, <1>3, <1>4, <1>5, <1>6, <1>7, <1>8, <1>9, TransportSteps

(***************************************************************************)
(* On every connection offers, answers and their acceptance alternate,     *)
(* whichever goroutines offer: SFU implements OfferAnswer.                 *)
(***************************************************************************)
THEOREM ImplementsOfferAnswer == Spec => IsOfferAnswer
<1>1. Init => OneExchange!Init
  BY DEF Init, OneExchange!Init, Exchange, Over
<1>2. Init => TypeInv /\ ControlInv /\ AnswerInv
  BY InitType, InitControl, InitAnswer
<1>3. TypeInv /\ ControlInv /\ AnswerInv /\ [Next]_vars
        => (TypeInv /\ ControlInv /\ AnswerInv)'
  BY StepType, StepControl, StepAnswer
<1>4. TypeInv /\ ControlInv /\ AnswerInv /\ [Next]_vars
        => [OneExchange!Next]_([c \in Conn |-> Exchange(c)])
  BY StepExchange
<1>5. QED BY <1>1, <1>2, <1>3, <1>4, PTL DEF Spec, IsOfferAnswer, OneExchange!Spec
-----------------------------------------------------------------------------
(***************************************************************************)
(* No update is missed.                                                    *)
(***************************************************************************)

\* Somebody is going to call signalPeerConnections from its beginning: a
\* goroutine that sleeps, one that waits for listLock, or the callback of a
\* connection that is being closed.
SomeoneWillSync ==
  \/ retries > 0
  \/ \E t \in Thread : Signalling(t) /\ listLock # t
  \/ \E c \in Conn : connection[c] = "closing"

UpToDate(i) ==
  connection[peerConnections[i]] # "closed" /\ Synced(peerConnections[i])

\* Without such a call to come, every entry is up to date or still to be
\* visited by the running attempt; at the offer the tracks are those
\* expected; and a connection that was closed after attemptSync looked at it
\* has a callback that waits.
SyncInv ==
  /\ \/ SomeoneWillSync
     \/ \A i \in DOMAIN peerConnections : (sync.at > 0 /\ i >= sync.at) \/ UpToDate(i)
  /\ AtPhase("offer") => Sent(Target) = Expected(Target)
  /\ AtPhase("tracks") /\ connection[Target] = "closed"
       => Signalling(OnClosed(Target)) /\ listLock # OnClosed(Target)

LEMMA InitSync == Init => SyncInv
BY EmptySeq, LenProperties DEF Init, SyncInv, AtPhase, Idle

\* SyncTracks gives a connection exactly the expected tracks.
LEMMA SentAfter ==
  ASSUME TypeInv, TableInv, SenderInv, NEW c \in Conn, NEW id \in TrackId
  PROVE  SendersAfter(c)[id] # None <=> id \in Expected(c)
<1> USE Ids DEF TypeInv, TypeOK
<1>1. id[1] = ClientOf[c] => senders[c][id] = None
  <2>1. id = <<id[1], id[2]>> /\ id[2] \in Media
    BY DEF TrackId
  <2>2. QED BY <2>1 DEF SenderInv, NoLoopback
<1>2. CASE id \in MissingSenders(c)
  <2>1. trackLocals[id] # None /\ id[1] # ClientOf[c]
    BY <1>2 DEF MissingSenders, ExistingSenders
  <2>2. SourceOf(id) # None
    BY <2>1 DEF SourceOf, TableInv
  <2>3. QED BY <1>2, <2>1, <2>2 DEF SendersAfter, Expected
<1>3. CASE id \in StaleSenders(c)
  BY <1>2, <1>3 DEF StaleSenders, SendersAfter, Expected
<1>4. CASE id \notin MissingSenders(c) /\ id \notin StaleSenders(c)
  <2>1. SendersAfter(c)[id] = senders[c][id]
    BY <1>4 DEF SendersAfter
  <2>2. CASE senders[c][id] = None
    BY <1>4, <2>1, <2>2, ConstantsAssumption DEF MissingSenders, ExistingSenders, Expected
  <2>3. CASE senders[c][id] \in Track
    BY <1>1, <1>4, <2>1, <2>3, ConstantsAssumption DEF StaleSenders, Expected
  <2>4. CASE senders[c][id] = Nil
    BY <1>1, <2>1, <2>4, ConstantsAssumption DEF SenderInv, Expected
  <2>5. QED BY <2>2, <2>3, <2>4
<1>5. QED BY <1>2, <1>3, <1>4

\* A step that changes no list, table, offer or position, takes no sender
\* away and closes nothing keeps the invariant.
LEMMA QuietStep ==
  ASSUME SyncInv,
         UNCHANGED <<peerConnections, trackLocals, offered, sync>>,
         \A c \in Conn : Sent(c)' = Sent(c),
         \A c \in Conn : connection'[c] = "closed" => connection[c] = "closed",
         retries' >= retries,
         \A t \in Thread : Signalling(t) /\ listLock # t => (Signalling(t) /\ listLock # t)',
         \A c \in Conn : connection[c] = "closing" => connection'[c] = "closing",
         retries \in Nat, retries' \in Nat, peerConnections \in Seq(Conn)
  PROVE  SyncInv'
<1>1. \A i \in DOMAIN peerConnections : peerConnections[i] \in Conn
  BY ElementOfSeq, LenProperties
<1>2. \A c \in Conn : Expected(c)' = Expected(c)
  BY DEF Expected
<1>3. SomeoneWillSync => SomeoneWillSync'
  BY DEF SomeoneWillSync
<1>4. ASSUME NEW i \in DOMAIN peerConnections, UpToDate(i) PROVE UpToDate(i)'
  BY <1>1, <1>2, <1>4 DEF UpToDate, Synced
<1>5. ASSUME AtPhase("offer")' PROVE (Sent(Target) = Expected(Target))'
  BY <1>1, <1>2, <1>5 DEF SyncInv, AtPhase, Target
<1>6. ASSUME AtPhase("tracks")', connection'[Target] = "closed"
      PROVE  (Signalling(OnClosed(Target)) /\ listLock # OnClosed(Target))'
  BY <1>1, <1>6, Names DEF SyncInv, AtPhase, Target
<1>7. QED BY <1>3, <1>4, <1>5, <1>6 DEF SyncInv, AtPhase, Target

\* A step that leaves a call to come, with no attempt running, establishes
\* the invariant.
LEMMA CallToCome ==
  ASSUME SomeoneWillSync', sync'.at \notin DOMAIN peerConnections' \/ sync'.phase = "check"
  PROVE  SyncInv'
BY DEF SyncInv, AtPhase

LEMMA SyncSync ==
  ASSUME TypeInv, TableInv, SenderInv, ControlInv, SyncInv, SyncStep
  PROVE  SyncInv'
<1>0. /\ \A i \in DOMAIN peerConnections : i \in Nat /\ peerConnections[i] \in Conn
      /\ DOMAIN peerConnections = 1..Len(peerConnections)
      /\ Len(peerConnections) \in Nat
      /\ sync.at \in Nat /\ retries \in Nat
  BY LenProperties, ElementOfSeq DEF TypeInv, TypeOK
<1>1. ASSUME EndSync(TRUE) PROVE SyncInv'
  BY <1>0, <1>1, CallToCome DEF EndSync, Retries, Idle, SomeoneWillSync
<1>2. CASE SyncRemoveClosed \/ SyncRemoveFails \/ SyncOfferFails
  BY <1>1, <1>2 DEF SyncRemoveClosed, SyncRemoveFails, SyncOfferFails
<1>3. CASE SyncCheckOpen
  <2>1. /\ UNCHANGED <<peerConnections, trackLocals, offered, senders, connection,
                       retries, pc, listLock>>
        /\ sync'.at = sync.at /\ sync'.phase = "tracks"
        /\ connection[Target] # "closed"
    BY <1>3 DEF SyncCheckOpen, tables, locks, state, transport, session
  <2>2. SomeoneWillSync => SomeoneWillSync'
    BY <2>1 DEF SomeoneWillSync, Signalling
  <2>3. \A i \in DOMAIN peerConnections : UpToDate(i) => UpToDate(i)'
    BY <2>1 DEF UpToDate, Synced, Sent, Expected
  <2>4. QED BY <2>1, <2>2, <2>3 DEF SyncInv, AtPhase, Target
<1>4. CASE SyncTracks
  <2>1. Target \in Conn
    BY <1>4, TargetType DEF SyncTracks
  <2>2. /\ UNCHANGED <<peerConnections, trackLocals, offered, connection, retries,
                       pc, listLock>>
        /\ sync'.at = sync.at /\ sync'.phase = "offer"
        /\ senders' = [senders EXCEPT ![Target] = SendersAfter(Target)]
    BY <1>4 DEF SyncTracks, tables, locks, transport, session
  <2>3. \A c \in Conn : /\ c = Target => Sent(c)' = Expected(c)
                        /\ c # Target => Sent(c)' = Sent(c)
                        /\ Expected(c)' = Expected(c)
    <3>1. senders \in [Conn -> [TrackId -> Track \cup {None, Nil}]]
      BY DEF TypeInv, TypeOK
    <3>2. \A c \in Conn : senders'[c] = IF c = Target THEN SendersAfter(c) ELSE senders[c]
      BY <2>1, <2>2, <3>1
    <3>3. Expected(Target) \subseteq TrackId
      BY DEF Expected
    <3>4. \A c \in Conn : c = Target => Sent(c)' = Expected(c)
      BY <2>1, <3>2, <3>3, SentAfter DEF Sent
    <3>5. QED BY <2>2, <3>2, <3>4 DEF Sent, Expected
  <2>4. SomeoneWillSync => SomeoneWillSync'
    BY <2>2 DEF SomeoneWillSync, Signalling
  <2>5. \A i \in DOMAIN peerConnections : UpToDate(i) => UpToDate(i)'
    BY <1>0, <2>2, <2>3 DEF UpToDate, Synced
  <2>6. QED BY <2>1, <2>2, <2>3, <2>4, <2>5 DEF SyncInv, AtPhase, Target
<1>5. CASE SyncAddPanics
  <2>1. CASE listLock \in Handlers
    <3>1. PICK c \in Conn : listLock = Handler(c)
      BY <2>1 DEF Handlers
    <3>2. listLock[2] = c
      BY <3>1 DEF Handler
    <3>3. /\ connection' = [connection EXCEPT ![c] = IF @ = "open" THEN "closing" ELSE @]
          /\ pc' = [pc EXCEPT ![Handler(c)] = "done"]
          /\ listLock' = Free
          /\ sync' = Idle
          /\ connection[Target] # "open"
          /\ AtPhase("tracks")
      BY <1>5, <2>1, <3>1, <3>2 DEF SyncAddPanics, Goto
    <3>4. Target \in Conn /\ connection[Target] \in {"closing", "closed"}
      BY <1>0, <3>3 DEF AtPhase, Target, ControlInv, TypeInv, TypeOK
    <3>5. SomeoneWillSync'
      <4>1. CASE connection[Target] = "closing"
        BY <3>3, <3>4, <4>1 DEF SomeoneWillSync, TypeInv, TypeOK
      <4>2. CASE connection[Target] = "closed"
        <5>1. PICK d \in Conn : d = Target
          BY <3>4
        <5>2. Signalling(OnClosed(d))
          BY <3>3, <4>2, <5>1 DEF SyncInv
        <5>3. Signalling(OnClosed(d))'
          BY <3>3, <5>2, Names DEF Signalling, TypeInv, TypeOK
        <5>4. QED BY <3>3, <5>3, Names DEF SomeoneWillSync
      <4>3. QED BY <3>4, <4>1, <4>2
    <3>6. QED BY <3>3, <3>5, CallToCome DEF Idle
  <2>2. CASE listLock \notin Handlers
    <3>1. UNCHANGED <<peerConnections, trackLocals, offered, senders, connection,
                      retries, pc, listLock, sync>>
      BY <1>5, <2>2 DEF SyncAddPanics, tables, state, session
    <3>2. QED
      BY <3>1 DEF SyncInv, SomeoneWillSync, Signalling, UpToDate, Synced, Sent,
         Expected, AtPhase, Target
  <2>3. QED BY <2>1, <2>2
<1>6. CASE SyncOffer
  <2>1. Target \in Conn
    BY <1>6, TargetType DEF SyncOffer
  <2>2. /\ UNCHANGED <<peerConnections, trackLocals, senders, connection, retries,
                       pc, listLock>>
        /\ sync'.at = sync.at + 1 /\ sync'.phase = "check"
        /\ offered' = [offered EXCEPT ![Target] = Sent(Target)]
        /\ connection[Target] = "open"
        /\ AtPhase("offer")
    BY <1>6 DEF SyncOffer, OfferAccepted, Sent, tables, locks, state
  <2>3. Sent(Target) = Expected(Target)
    BY <2>2 DEF SyncInv
  <2>4. SomeoneWillSync => SomeoneWillSync'
    BY <2>2 DEF SomeoneWillSync, Signalling
  <2>5. \A c \in Conn : /\ Sent(c)' = Sent(c)
                        /\ Expected(c)' = Expected(c)
                        /\ offered'[c] = IF c = Target THEN Expected(c) ELSE offered[c]
    <3>1. offered \in [Conn -> SUBSET TrackId]
      BY DEF TypeInv, TypeOK
    <3>2. QED BY <2>1, <2>2, <2>3, <3>1 DEF Sent, Expected
  <2>6. \A i \in DOMAIN peerConnections :
          UpToDate(i) \/ i = sync.at => UpToDate(i)'
    BY <1>0, <2>2, <2>3, <2>5 DEF UpToDate, Synced, Target
  <2>7. QED BY <1>0, <2>2, <2>4, <2>6 DEF SyncInv, AtPhase
<1>7. CASE SyncDone
  <2>1. /\ UNCHANGED <<peerConnections, trackLocals, offered, senders, connection, retries>>
        /\ listLock' = Free
        /\ sync' = Idle
        /\ pc' = pc \/ pc' = [pc EXCEPT ![listLock] = AfterSignal(listLock)]
        /\ sync.at > Len(peerConnections)
    BY <1>7 DEF SyncDone, EndSync, Retries, tables, state, transport, session
  <2>2. ASSUME SomeoneWillSync PROVE SomeoneWillSync'
    <3>1. ASSUME NEW t \in Thread, Signalling(t), listLock # t
          PROVE  (Signalling(t) /\ listLock # t)'
      BY <2>1, <3>1, Names DEF Signalling, TypeInv, TypeOK
    <3>2. QED BY <2>1, <2>2, <3>1 DEF SomeoneWillSync
  <2>3. \A i \in DOMAIN peerConnections : UpToDate(i) => UpToDate(i)'
    BY <2>1 DEF UpToDate, Synced, Sent, Expected
  <2>4. QED BY <1>0, <2>1, <2>2, <2>3 DEF SyncInv, AtPhase, Idle
<1>8. QED
  BY <1>2, <1>3, <1>4, <1>5, <1>6, <1>7 DEF SyncStep

LEMMA SignalSync ==
  ASSUME TypeInv, TableInv, SenderInv, ControlInv, SyncInv, SignalStep
  PROVE  SyncInv'
<1>1. CASE SyncStep
  BY <1>1, SyncSync
<1>2. CASE BeginRetry \/ \E t \in Thread : BeginSync(t)
  <2>1. sync' = [at |-> 1, phase |-> "check"] /\ UNCHANGED peerConnections
    BY <1>2 DEF BeginRetry, BeginSync, tables
  <2>2. \A i \in DOMAIN peerConnections : i >= 1
    BY LenProperties DEF TypeInv, TypeOK
  <2>3. QED BY <2>1, <2>2 DEF SyncInv, AtPhase
<1>3. QED BY <1>1, <1>2 DEF SignalStep

\* A step of the goroutine t that changes no list, table, offer or position.
LEMMA QuietMove ==
  ASSUME TypeInv, TypeInv', SyncInv, NEW t \in Thread, ~Signalling(t),
         \E label \in Label : pc' = [pc EXCEPT ![t] = label],
         UNCHANGED <<peerConnections, trackLocals, offered, sync, retries>>,
         listLock' = listLock \/ listLock' = t \/ listLock' = Free,
         \A c \in Conn : Sent(c)' = Sent(c),
         \A c \in Conn : connection'[c] = "closed" => connection[c] = "closed",
         \A c \in Conn : connection[c] = "closing" => connection'[c] = "closing"
  PROVE  SyncInv'
<1>1. \A u \in Thread : Signalling(u) /\ listLock # u => (Signalling(u) /\ listLock # u)'
  BY Names DEF Signalling, TypeInv, TypeOK
<1>2. retries \in Nat /\ retries' \in Nat /\ peerConnections \in Seq(Conn)
  BY DEF TypeInv, TypeOK
<1>3. retries' >= retries
  BY <1>2
<1>4. QED BY <1>1, <1>2, <1>3, QuietStep

\* A goroutine comes to signalPeerConnections while no attempt is running.
LEMMA ComesToSignal ==
  ASSUME TypeInv, TypeInv', ControlInv, NEW t \in Thread,
         NEW label \in {"signal", "signalRemoved"},
         pc' = [pc EXCEPT ![t] = label],
         listLock' = Free,
         UNCHANGED sync,
         listLock = Free \/ (listLock = t /\ ~Signalling(t))
  PROVE  SyncInv'
<1>1. SomeoneWillSync'
  BY Names DEF SomeoneWillSync, Signalling, TypeInv, TypeOK
<1>2. ~(sync.at > 0)
  BY Names DEF ControlInv
<1>3. sync'.at \notin DOMAIN peerConnections' \/ sync'.phase = "check"
  <2>1. /\ DOMAIN peerConnections' = 1..Len(peerConnections')
        /\ Len(peerConnections') \in Nat
    BY LenProperties DEF TypeInv, TypeOK
  <2>2. QED BY <1>2, <2>1 DEF TypeInv, TypeOK
<1>4. QED BY <1>1, <1>3, CallToCome

LEMMA HandlerSync ==
  ASSUME TypeInv, TypeInv', ControlInv, SyncInv, NEW c \in Conn, HandlerStep(c)
  PROVE  SyncInv'
<1> USE Names
<1>0. /\ pc \in [Thread -> Label]
      /\ connection \in [Conn -> {"new", "open", "closing", "closed"}]
      /\ senders \in [Conn -> [TrackId -> Track \cup {None, Nil}]]
  BY DEF TypeInv, TypeOK
<1>1. CASE Connect(c)
  <2>1. connection[c] = "new"
    BY <1>1 DEF Connect, ControlInv
  <2>2. QED
    BY <1>0, <1>1, <2>1, QuietMove DEF Connect, tables, locks, state, session, signals,
       Goto, At, Signalling, Label, Sent
<1>2. CASE LockForRegister(c)
  <2>1. pc' = [pc EXCEPT ![Handler(c)] = "register"]
    BY <1>0, <1>2 DEF LockForRegister, At
  <2>2. QED
    BY <1>2, <2>1, QuietMove DEF LockForRegister, tables, state, transport, session,
       signals, At, Signalling, Label, Sent
<1>3. CASE Register(c)
  BY <1>3, ComesToSignal DEF Register, signals, Goto, At, Signalling
<1>4. CASE HandleAnswer(c)
  <2>1. pc' = [pc EXCEPT ![Handler(c)] = "reading"]
    BY <1>0, <1>4 DEF HandleAnswer, At
  <2>2. QED
    BY <1>4, <2>1, QuietMove DEF HandleAnswer, tables, locks, state, signals,
       At, Signalling, Label, Sent
<1>5. CASE HandleAnswerPanics(c)
  BY <1>0, <1>5, QuietMove DEF HandleAnswerPanics, LeaveHandler, tables, locks, state,
     session, signals, Goto, At, Signalling, Label, Sent
<1>6. CASE LockQualities(c)
  BY <1>6, QuietMove DEF LockQualities, tables, state, transport, session, signals,
     Goto, At, Signalling, Label, Sent
<1>7. CASE SetTrackQuality(c)
  <2>1. \A d \in Conn : Sent(d)' = Sent(d)
    <3>1. request[c] \in VideoId \X Int
      BY <1>7 DEF SetTrackQuality, At, TypeInv, RequestOK
    <3>2. PICK id \in VideoId, q \in Int : request[c] = <<id, q>>
      BY <3>1
    <3>3. CASE UNCHANGED state
      BY <3>3 DEF state, Sent
    <3>4. CASE ~UNCHANGED state
      <4>1. /\ senders' = [senders EXCEPT ![c][id] =
                  IF @ = None THEN None
                  ELSE IF q < 0 THEN Nil ELSE trackQualities[id][q]]
            /\ senders[c][id] = None \/ q < 0 \/ KnownQuality(id, q)
        BY <1>7, <3>2, <3>4 DEF SetTrackQuality
      <4>2. senders'[c][id] = None <=> senders[c][id] = None
        BY <1>0, <4>1, Ids, ConstantsAssumption DEF KnownQuality
      <4>3. \A d \in Conn, i \in TrackId :
              senders'[d][i] = senders[d][i] \/ (d = c /\ i = id)
        BY <1>0, <4>1
      <4>4. QED BY <4>2, <4>3 DEF Sent
    <3>5. QED BY <3>3, <3>4
  <2>2. QED
    BY <1>7, <2>1, QuietMove DEF SetTrackQuality, tables, transport, session, signals,
       Goto, At, Signalling, Label
<1>8. QED
  BY <1>1, <1>2, <1>3, <1>4, <1>5, <1>6, <1>7 DEF HandlerStep

LEMMA TrackSync ==
  ASSUME TypeInv, TypeInv', ControlInv, SyncInv, NEW r \in Remote, TrackStep(r)
  PROVE  SyncInv'
<1> USE Names
<1>0. ASSUME ReplaceTracks(r) PROVE \A c \in Conn : Sent(c)' = Sent(c)
  BY <1>0, RemoteTracks, ConstantsAssumption DEF ReplaceTracks, Sent, TypeInv, TypeOK
<1>1. CASE AddQualityTrack(r)
  BY <1>1, QuietMove DEF AddQualityTrack, locks, state, transport, session, signals,
     Goto, At, Signalling, Label, Sent
<1>2. CASE AddTrack(r)
  BY <1>2, ComesToSignal DEF AddTrack, locks, signals, Goto
<1>3. CASE UpdateClientTrackState(r)
  BY <1>0, <1>3, QuietMove DEF UpdateClientTrackState, tables, locks, transport,
     session, signals, Goto, At, Signalling, Label
<1>4. CASE LockForUpdate(r)
  BY <1>4, QuietMove DEF LockForUpdate, tables, state, transport, session, signals,
     Goto, At, Signalling, Label, Sent
<1>5. CASE UpdateClientTrackStateQuality(r)
  BY <1>0, <1>5, QuietMove DEF UpdateClientTrackStateQuality, tables, transport,
     session, signals, Goto, At, Signalling, Label
<1>6. CASE ReadFails(r)
  BY <1>6, QuietMove DEF ReadFails, StopForwarding, tables, locks, state, transport,
     session, signals, Goto, At, Signalling, Label, Sent
<1>7. CASE RemoveTrack(r)
  BY <1>7, ComesToSignal DEF RemoveTrack, locks, signals, Goto
<1>8. QED
  BY <1>1, <1>2, <1>3, <1>4, <1>5, <1>6, <1>7 DEF TrackStep

LEMMA EnvironmentSync ==
  ASSUME TypeInv, TypeInv', ControlInv, SyncInv, Environment
  PROVE  SyncInv'
<1> USE Names
<1>0. /\ pc \in [Thread -> Label]
      /\ connection \in [Conn -> {"new", "open", "closing", "closed"}]
      /\ retries \in Nat /\ peerConnections \in Seq(Conn)
  BY DEF TypeInv, TypeOK
<1>1. CASE \E c \in Conn : ClientAnswer(c) \/ ConnectionFailed(c)
  BY <1>0, <1>1, QuietStep DEF ClientAnswer, ConnectionFailed, tables, locks, state,
     session, signals, Signalling, Sent
<1>2. ASSUME NEW c \in Conn, WebsocketClosed(c) PROVE SyncInv'
  BY <1>0, <1>2, QuietMove DEF WebsocketClosed, LeaveHandler, tables, locks, state,
     session, signals, Goto, At, Signalling, Label, Sent
<1>3. ASSUME NEW c \in Conn, FinishClose(c) PROVE SyncInv'
  <2>1. /\ connection[c] = "closing"
        /\ connection' = [connection EXCEPT ![c] = "closed"]
        /\ pc' = [pc EXCEPT ![OnClosed(c)] = "signal"]
        /\ UNCHANGED <<peerConnections, trackLocals, listLock, senders, sync>>
    BY <1>3 DEF FinishClose, Goto, tables, locks, state, signals
  <2>2. listLock # OnClosed(c)
    BY <2>1 DEF ControlInv
  <2>3. Signalling(OnClosed(c))' /\ (listLock # OnClosed(c))'
    BY <1>0, <2>1, <2>2 DEF Signalling
  <2>4. SomeoneWillSync'
    BY <2>3 DEF SomeoneWillSync
  <2>5. AtPhase("offer")' => (Sent(Target) = Expected(Target))'
    BY <2>1 DEF SyncInv, AtPhase, Target, Sent, Expected
  <2>6. ASSUME AtPhase("tracks")', connection'[Target] = "closed"
        PROVE  (Signalling(OnClosed(Target)) /\ listLock # OnClosed(Target))'
    <3>1. Target \in Conn
      BY <1>0, <2>1, <2>6, ElementOfSeq, LenProperties DEF AtPhase, Target
    <3>2. CASE Target = c
      BY <2>1, <2>3, <3>2 DEF Target
    <3>3. CASE Target # c
      BY <1>0, <2>1, <2>6, <3>1, <3>3 DEF SyncInv, AtPhase, Target, Signalling
    <3>4. QED BY <3>2, <3>3
  <2>7. Target' = Target
    BY <2>1 DEF Target
  <2>8. QED BY <2>4, <2>5, <2>6, <2>7 DEF SyncInv
<1>4. ASSUME NEW d \in Decisions, ReceiveDecision(d[1], d[2], d[3]) PROVE SyncInv'
  <2>1. d[1] \in Conn
    BY ConstantsAssumption
  <2>2. QED
    BY <1>4, <2>1, QuietMove DEF ReceiveDecision, tables, locks, state, transport,
       session, signals, Goto, At, Signalling, Label, Sent
<1>5. ASSUME NEW r \in Remote, TrackStarts(r) \/ WriteFails(r) PROVE SyncInv'
  BY <1>5, QuietMove DEF TrackStarts, WriteFails, StopForwarding, tables, locks, state,
     transport, session, signals, Goto, At, Signalling, Label, Sent
<1>6. QED BY <1>1, <1>2, <1>3, <1>4, <1>5 DEF Environment

LEMMA StepSync ==
  ASSUME TypeInv, TypeInv', TableInv, SenderInv, ControlInv, SyncInv, [Next]_vars
  PROVE  SyncInv'
<1>1. CASE UNCHANGED vars
  BY <1>1 DEF vars, tables, locks, state, transport, session, signals, SyncInv,
     SomeoneWillSync, Signalling, UpToDate, Synced, Sent, Expected, AtPhase, Target
<1>2. QED
  BY <1>1, SignalSync, HandlerSync, TrackSync, EnvironmentSync DEF Next

(***************************************************************************)
(* When nobody is going to signal any more, every listed connection has    *)
(* and was offered exactly the tracks that it should get.                  *)
(***************************************************************************)
THEOREM NoUpdateMissed == Spec => []SyncedWhenQuiet
<1> DEFINE IInv == TypeInv /\ TableInv /\ SenderInv /\ ControlInv /\ SyncInv
<1>1. Init => IInv
  BY InitType, InitTable, InitSender, InitControl, InitSync
<1>2. IInv /\ [Next]_vars => IInv'
  BY StepType, StepTable, StepSender, StepControl, StepSync
<1>3. ASSUME IInv, Quiet PROVE \A i \in DOMAIN peerConnections : UpToDate(i)
  <2>1. ~SomeoneWillSync /\ ~(sync.at > 0)
    BY <1>3 DEF Quiet, Idle, SomeoneWillSync, Signalling, TypeInv, TypeOK
  <2>2. QED BY <1>3, <2>1 DEF SyncInv
<1>4. IInv => SyncedWhenQuiet
  BY <1>3 DEF SyncedWhenQuiet, UpToDate
<1>5. QED BY <1>1, <1>2, <1>4, PTL DEF Spec
=============================================================================
