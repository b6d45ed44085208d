-------------------------------- MODULE SFU --------------------------------
(***************************************************************************)
(* The signalling core of the selective forwarding unit, sfu/main.go: the  *)
(* global list of peer connections, the two tables of tracks that the SFU  *)
(* can send, the senders and quality decisions of every connection, and    *)
(* the goroutines that change them under listLock and qualitiesLock.       *)
(*                                                                         *)
(* Goroutines.  Each connection c has one websocketHandler, Handler(c),    *)
(* and one OnConnectionStateChange callback for the state Closed,          *)
(* OnClosed(c).  Each remote track has one OnTrack goroutine.  Goroutines  *)
(* that sleep before they call signalPeerConnections again are alike, so   *)
(* they are counted in retries.                                            *)
(*                                                                         *)
(* Granularity.  A step runs from one lock acquisition to the next, or to  *)
(* the next point where a goroutine that holds no lock can interfere:      *)
(* signalPeerConnections looks at ConnectionState, changes tracks and      *)
(* makes an offer in three steps, because Close and the handling of an     *)
(* answer take no lock.                                                    *)
(*                                                                         *)
(* The environment (pion, the client, the network) appears as it is used   *)
(* in this file: SetLocalDescription(offer) fails unless the signalling    *)
(* state is stable; isClosed is set at the start of Close, ConnectionState *)
(* becomes Closed at its end, and from the first on AddTrack, RemoveTrack, *)
(* CreateOffer and SetRemoteDescription fail.                              *)
(***************************************************************************)
EXTENDS Integers, Sequences, FiniteSets, SequencesExt

CONSTANTS
  Conn,          \* peer connections, one per call of websocketHandler
  Client,        \* values of the query parameter clientid
  ClientOf,      \* the clientid of each connection; two connections share
                 \* one when a client connects again
  Tile,          \* numberOfTiles tiles, the same for every connection
  Audio,         \* stands for the audio medium, beside the tiles
  NumQualities,  \* numberOfQualities, the same for every connection
  Silent,        \* connections whose client may leave an offer unanswered
  Incoming,      \* bound: the remote tracks whose first packet may arrive
  Decisions,     \* bound: the quality decisions <<connection, video ID,
                 \* quality>> that clients may send, ...
  MaxDecisions,  \* ... and how many they send in all
  MaxFailures,   \* bound: websockets, ICE sessions and forwardings that fail
  None,          \* an absent map entry
  Nil            \* the track of a sender after ReplaceTrack(nil)

Quality == 0..(NumQualities - 1)
Media   == Tile \cup {Audio}

\* Track IDs, "audio_<client>" and "video_<client>_<tile>".
TrackId == Client \X Media
VideoId == Client \X Tile
AudioOf(c)   == <<ClientOf[c], Audio>>
IsVideo(id)  == id[2] # Audio

\* TrackLocalStaticRTP objects.  The one made when c registers is never
\* written to; the one made by OnTrack (live) carries the packets of c.
Track == [conn : Conn, media : Media, quality : Quality, live : BOOLEAN]
NewTrack(c, m, q, live) ==
  [conn |-> c, media |-> m, quality |-> q, live |-> live]

\* Remote tracks: one for audio, one per tile and quality.
Remote == (Conn \X {Audio} \X {0}) \cup (Conn \X Tile \X Quality)
IdOf(r) == <<ClientOf[r[1]], r[2]>>

ASSUME ConstantsAssumption ==
  /\ ClientOf \in [Conn -> Client]
  /\ Audio \notin Tile
  /\ NumQualities \in Nat \ {0}
  /\ Incoming \subseteq Remote
  /\ Silent \subseteq Conn
  /\ Decisions \subseteq Conn \X VideoId \X Int
  /\ MaxDecisions \in Nat
  /\ MaxFailures \in Nat
  /\ None \notin Track \cup {Nil} \cup Int \cup (VideoId \X Int)
  /\ Nil \notin Track \cup Int

\* Goroutines, and the values of the two mutexes.
Handler(c)  == <<"websocketHandler", c>>
OnClosed(c) == <<"OnConnectionStateChange", c>>
OnTrack(r)  == <<"OnTrack", r>>
Retry       == <<"retry", 0>>
Free        == <<"free", 0>>

Handlers  == {Handler(c) : c \in Conn}
Callbacks == {OnClosed(c) : c \in Conn}
Trackers  == {OnTrack(r) : r \in Remote}
Thread    == Handlers \cup Callbacks \cup Trackers

VARIABLES
  \* the globals of sfu/main.go
  peerConnections,   \* the list, in order of registration
  trackLocals,       \* track ID -> track, None when absent
  trackQualities,    \* video ID -> quality -> track
  listLock,          \* the goroutine that holds it, or Free
  qualitiesLock,
  \* peerConnectionState, for each connection
  senders,           \* trackRTPSenders and GetSenders(), which differ only
                     \* on a connection that is being closed:
                     \* track ID -> Track() of its sender
  qualityDecisions,  \* video ID -> quality, -1 for no track
  \* what pion and the websocket hold for each connection
  connection,        \* "new", "open", "closing" (isClosed set) or "closed"
  signaling,         \* "stable" or "haveLocalOffer"
  offered,           \* the track IDs of the last local description
  answered,          \* SetRemoteDescription succeeded at least once
  wire,              \* how many offers are on their way to the client, and
                     \* how many answers from it
  \* control state
  pc,                \* where each goroutine is
  sync,              \* position of the running attemptSync
  retries,           \* goroutines asleep before signalPeerConnections
  request,           \* the decision that Handler(c) is applying
  decisionsLeft,
  failuresLeft,
  crashed            \* a panic outside an HTTP handler ended the process

tables    == <<peerConnections, trackLocals, trackQualities>>
locks     == <<listLock, qualitiesLock>>
state     == <<senders, qualityDecisions>>
session   == <<signaling, offered, answered>>
transport == <<connection, session, wire>>
signals   == <<sync, retries>>
others    == <<request, decisionsLeft, failuresLeft, crashed>>
vars == <<tables, locks, state, transport, pc, signals, others>>

Idle   == [at |-> 0, phase |-> "check"]
NoWire == [offers |-> 0, answers |-> 0]

Label == {"idle", "start", "register", "signal", "signalRemoved", "reading",
          "lockQualities", "setQuality", "addQuality", "addTrack", "update",
          "updateQuality", "forward", "remove", "done"}

TypeOK ==
  /\ peerConnections \in Seq(Conn)
  /\ trackLocals \in [TrackId -> Track \cup {None}]
  /\ trackQualities \in [VideoId -> [Quality -> Track \cup {None}]]
  /\ listLock \in Thread \cup {Retry, Free}
  /\ qualitiesLock \in Handlers \cup {Free}
  /\ senders \in [Conn -> [TrackId -> Track \cup {None, Nil}]]
  /\ qualityDecisions \in [Conn -> [VideoId -> Int \cup {None}]]
  /\ connection \in [Conn -> {"new", "open", "closing", "closed"}]
  /\ signaling \in [Conn -> {"stable", "haveLocalOffer"}]
  /\ offered \in [Conn -> SUBSET TrackId]
  /\ answered \in [Conn -> BOOLEAN]
  /\ wire \in [Conn -> [offers : Nat, answers : Nat]]
  /\ pc \in [Thread -> Label]
  /\ sync \in [at : Nat, phase : {"check", "tracks", "offer"}]
  /\ retries \in Nat
  /\ request \in [Conn -> (VideoId \X Int) \cup {None}]
  /\ decisionsLeft \in Nat
  /\ failuresLeft \in Nat
  /\ crashed \in BOOLEAN

Init ==
  /\ peerConnections = << >>
  /\ trackLocals = [id \in TrackId |-> None]
  /\ trackQualities = [id \in VideoId |-> [q \in Quality |-> None]]
  /\ listLock = Free
  /\ qualitiesLock = Free
  /\ senders = [c \in Conn |-> [id \in TrackId |-> None]]
  /\ qualityDecisions = [c \in Conn |-> [id \in VideoId |-> None]]
  /\ connection = [c \in Conn |-> "new"]
  /\ signaling = [c \in Conn |-> "stable"]
  /\ offered = [c \in Conn |-> {}]
  /\ answered = [c \in Conn |-> FALSE]
  /\ wire = [c \in Conn |-> NoWire]
  /\ pc = [t \in Thread |-> IF t \in Handlers THEN "start" ELSE "idle"]
  /\ sync = Idle
  /\ retries = 0
  /\ request = [c \in Conn |-> None]
  /\ decisionsLeft = MaxDecisions
  /\ failuresLeft = MaxFailures
  /\ crashed = FALSE

Listed(c)      == \E i \in DOMAIN peerConnections : peerConnections[i] = c
Goto(t, label) == pc' = [pc EXCEPT ![t] = label]
At(t, label)   == pc[t] = label
-----------------------------------------------------------------------------
(***************************************************************************)
(* websocketHandler: from the request to the read loop.                    *)
(***************************************************************************)

\* The handler takes listLock to draw an ID, upgrades the request and makes
\* a peer connection that receives audio and every tile and quality.
Connect(c) ==
  /\ At(Handler(c), "start")
  /\ listLock = Free
  /\ connection' = [connection EXCEPT ![c] = "open"]
  /\ Goto(Handler(c), "register")
  /\ UNCHANGED <<tables, locks, state, session, wire, signals, others>>

LockForRegister(c) ==
  /\ At(Handler(c), "register")
  /\ listLock = Free
  /\ listLock' = Handler(c)
  /\ UNCHANGED <<tables, qualitiesLock, state, transport, pc, signals, others>>

\* Under listLock: placeholders for the audio track and for every quality
\* of every tile enter the tables (addTrack, and addQualityTrack under
\* qualitiesLock), then the connection is appended to the list.
Register(c) ==
  /\ At(Handler(c), "register")
  /\ listLock = Handler(c)
  /\ qualitiesLock = Free
  /\ trackLocals' = [id \in TrackId |->
       IF id[1] = ClientOf[c] THEN NewTrack(c, id[2], 0, FALSE)
       ELSE trackLocals[id]]
  /\ trackQualities' = [id \in VideoId |->
       IF id[1] = ClientOf[c]
       THEN [q \in Quality |-> NewTrack(c, id[2], q, FALSE)]
       ELSE trackQualities[id]]
  /\ peerConnections' = Append(peerConnections, c)
  /\ listLock' = Free
  /\ Goto(Handler(c), "signal")
  /\ UNCHANGED <<qualitiesLock, state, transport, signals, others>>
-----------------------------------------------------------------------------
(***************************************************************************)
(* signalPeerConnections.  A goroutine that is about to call it is at      *)
(* "signal" or "signalRemoved"; it stays there until the call returns.     *)
(***************************************************************************)

Signalling(t) == pc[t] \in {"signal", "signalRemoved"}

BeginSync(t) ==
  /\ Signalling(t)
  /\ listLock = Free
  /\ listLock' = t
  /\ sync' = [at |-> 1, phase |-> "check"]
  /\ UNCHANGED <<tables, qualitiesLock, state, transport, pc, retries, others>>

\* Mutant: a goroutine wakes up that nobody started.
WakesUnasked ==
  /\ listLock = Free
  /\ listLock' = Retry
  /\ retries' = retries - 1
  /\ sync' = [at |-> 1, phase |-> "check"]
  /\ UNCHANGED <<tables, qualitiesLock, state, transport, pc, others>>

\* A sleeping goroutine wakes up and takes the lock.
BeginRetry ==
  /\ retries > 0
  /\ listLock = Free
  /\ listLock' = Retry
  /\ retries' = retries - 1
  /\ sync' = [at |-> 1, phase |-> "check"]
  /\ UNCHANGED <<tables, qualitiesLock, state, transport, pc, others>>

\* Mutant: OnTrack does not replace the tracks of senders.
WithoutUpdate(t) ==
  CASE t \in Handlers                      -> "reading"
    [] t \in Trackers /\ pc[t] = "signal" -> "forward"
    [] OTHER                              -> "done"

\* Where a goroutine goes on when its call returns.
AfterSignal(t) ==
  CASE t \in Handlers                      -> "reading"
    [] t \in Trackers /\ pc[t] = "signal" -> "update"
    [] OTHER                              -> "done"

\* Mutant: the result of attemptSync is read the wrong way round.
RetriesInverted(tryAgain) == IF tryAgain THEN retries ELSE retries + 1

\* When attemptSync asked to try again a goroutine is left to do so after
\* 50 ms.
Retries(tryAgain) == IF tryAgain THEN retries + 1 ELSE retries

\* Mutant: the early returns of attemptSync keep the lock.
ReleasesWhenDone(tryAgain) ==
  /\ listLock' = IF tryAgain THEN listLock ELSE Free
  /\ sync' = Idle
  /\ retries' = Retries(tryAgain)
  /\ pc' = IF listLock = Retry THEN pc
           ELSE [pc EXCEPT ![listLock] = AfterSignal(listLock)]

\* The call returns and the lock is released.
EndSync(tryAgain) ==
  /\ listLock' = Free
  /\ sync' = Idle
  /\ retries' = Retries(tryAgain)
  /\ pc' = IF listLock = Retry THEN pc
           ELSE [pc EXCEPT ![listLock] = AfterSignal(listLock)]

Target == peerConnections[sync.at]
AtPhase(phase) ==
  sync.at \in DOMAIN peerConnections /\ sync.phase = phase

\* ConnectionState() = Closed: the entry leaves the list, start again.
SyncRemoveClosed ==
  /\ AtPhase("check")
  /\ connection[Target] = "closed"
  /\ peerConnections' = RemoveAt(peerConnections, sync.at)
  /\ EndSync(TRUE)
  /\ UNCHANGED <<trackLocals, trackQualities, qualitiesLock, state, transport,
                 others>>

SyncCheckOpen ==
  /\ AtPhase("check")
  /\ connection[Target] # "closed"
  /\ sync' = [at |-> sync.at, phase |-> "tracks"]
  /\ UNCHANGED <<tables, locks, state, transport, pc, retries, others>>

\* Senders whose track is no longer in trackLocals.
StaleSenders(c) ==
  {id \in TrackId : senders[c][id] \in Track /\ trackLocals[id] = None}

\* Mutant: only the receivers of c tell which tracks are its own.
ByReceivers(c) ==
  {id \in TrackId : \/ senders[c][id] \in Track
                    \/ \E r \in Remote : /\ r[1] = c
                                         /\ IdOf(r) = id
                                         /\ ~At(OnTrack(r), "idle")}

\* existingSenders: tracks that c sends already, and the ones it makes
\* itself, by its receivers or by its client ID.
ExistingSenders(c) ==
  {id \in TrackId : senders[c][id] \in Track \/ id[1] = ClientOf[c]}

\* Mutant: only tracks whose OnTrack has started are added.
MissingLive(c) ==
  {id \in TrackId : trackLocals[id] # None /\ trackLocals[id].live}
    \ ExistingSenders(c)

MissingSenders(c) ==
  {id \in TrackId : trackLocals[id] # None} \ ExistingSenders(c)

\* addNewTrackForPeer: audio from trackLocals, video at quality 0.
SourceOf(id) ==
  IF IsVideo(id) THEN trackQualities[id][0] ELSE trackLocals[id]

SendersAfter(c) ==
  [id \in TrackId |->
     IF id \in MissingSenders(c) THEN SourceOf(id)
     ELSE IF id \in StaleSenders(c) THEN None ELSE senders[c][id]]

DecisionsAfter(c) ==
  [id \in VideoId |->
     IF id \in MissingSenders(c) THEN 0 ELSE qualityDecisions[c][id]]

\* RemoveTrack for every stale sender and addNewTrackForPeer for every
\* missing one; a video track needs qualitiesLock.
SyncTracks ==
  /\ AtPhase("tracks")
  /\ connection[Target] = "open" \/ StaleSenders(Target) \cup MissingSenders(Target) = {}
  /\ (\E id \in MissingSenders(Target) : IsVideo(id)) => qualitiesLock = Free
  /\ senders' = [senders EXCEPT ![Target] = SendersAfter(Target)]
  /\ qualityDecisions' =
       [qualityDecisions EXCEPT ![Target] = DecisionsAfter(Target)]
  /\ sync' = [at |-> sync.at, phase |-> "offer"]
  /\ UNCHANGED <<tables, locks, transport, pc, retries, others>>

\* RemoveTrack fails because the connection is being closed.
SyncRemoveFails ==
  /\ AtPhase("tracks")
  /\ connection[Target] # "open"
  /\ StaleSenders(Target) # {}
  /\ EndSync(TRUE)
  /\ UNCHANGED <<tables, qualitiesLock, state, transport, others>>

\* AddTrack fails because the connection is being closed, and
\* addNewTrackForPeer panics.  net/http recovers a panic of a handler: its
\* deferred calls release the lock and close its own connection.  In any
\* other goroutine the panic ends the process.
SyncAddPanics ==
  /\ AtPhase("tracks")
  /\ connection[Target] # "open"
  /\ StaleSenders(Target) = {}
  /\ MissingSenders(Target) # {}
  /\ (\E id \in MissingSenders(Target) : IsVideo(id)) => qualitiesLock = Free
  /\ IF listLock \in Handlers
     THEN LET c == listLock[2] IN
          /\ listLock' = Free
          /\ sync' = Idle
          /\ Goto(listLock, "done")
          /\ connection' = [connection EXCEPT ![c] =
               IF @ = "open" THEN "closing" ELSE @]
          /\ wire' = [wire EXCEPT ![c] = NoWire]
          /\ UNCHANGED crashed
     ELSE /\ crashed' = TRUE
          /\ UNCHANGED <<listLock, sync, pc, connection, wire>>
  /\ UNCHANGED <<tables, qualitiesLock, state, session, retries, request,
                 decisionsLeft, failuresLeft>>

\* Mutant: the error of SetLocalDescription is ignored.
OfferUnchecked(c) == connection[c] = "open"

\* CreateOffer and SetLocalDescription succeed.
OfferAccepted(c) == connection[c] = "open" /\ signaling[c] = "stable"

\* The description is set, the offer is written to the
\* websocket (whose errors are ignored), and the loop goes on.
SyncOffer ==
  /\ AtPhase("offer")
  /\ OfferAccepted(Target)
  /\ LET c == Target IN
     /\ signaling' = [signaling EXCEPT ![c] = "haveLocalOffer"]
     /\ offered' = [offered EXCEPT ![c] =
          {id \in TrackId : senders[c][id] # None}]
     /\ wire' = [wire EXCEPT ![c] =
          [offers |-> @.offers + 1, answers |-> @.answers]]
  /\ sync' = [at |-> sync.at + 1, phase |-> "check"]
  /\ UNCHANGED <<tables, locks, state, connection, answered, pc, retries,
                 others>>

\* An earlier offer is unanswered, or the connection is being closed.
SyncOfferFails ==
  /\ AtPhase("offer")
  /\ ~OfferAccepted(Target)
  /\ EndSync(TRUE)
  /\ UNCHANGED <<tables, qualitiesLock, state, transport, others>>

SyncDone ==
  /\ sync.at > Len(peerConnections)
  /\ EndSync(FALSE)
  /\ UNCHANGED <<tables, qualitiesLock, state, transport, others>>
-----------------------------------------------------------------------------
(***************************************************************************)
(* The read loop of websocketHandler, and the client it talks to.          *)
(***************************************************************************)

\* The client answers the offer it received (peer/main.go, message type 2).
ClientAnswer(c) ==
  /\ wire[c].offers > 0
  /\ wire' = [wire EXCEPT ![c] =
       [offers |-> @.offers - 1, answers |-> @.answers + 1]]
  /\ UNCHANGED <<tables, locks, state, connection, session, pc, signals,
                 others>>

\* The deferred calls of a handler that returns: Close, and the websocket.
LeaveHandler(c) ==
  /\ Goto(Handler(c), "done")
  /\ connection' = [connection EXCEPT ![c] = IF @ = "open" THEN "closing" ELSE @]
  /\ wire' = [wire EXCEPT ![c] = NoWire]

HandleAnswer(c) ==
  /\ At(Handler(c), "reading")
  /\ wire[c].answers > 0
  /\ connection[c] = "open"
  /\ signaling[c] = "haveLocalOffer"
  /\ signaling' = [signaling EXCEPT ![c] = "stable"]
  /\ answered' = [answered EXCEPT ![c] = TRUE]
  /\ wire' = [wire EXCEPT ![c] =
       [offers |-> @.offers, answers |-> @.answers - 1]]
  /\ UNCHANGED <<tables, locks, state, connection, offered, pc, signals,
                 others>>

\* SetRemoteDescription fails, and the handler panics and is recovered.
HandleAnswerPanics(c) ==
  /\ At(Handler(c), "reading")
  /\ wire[c].answers > 0
  /\ connection[c] # "open" \/ signaling[c] # "haveLocalOffer"
  /\ LeaveHandler(c)
  /\ UNCHANGED <<tables, locks, state, session, signals, others>>

\* A quality decision for one video track arrives.
ReceiveDecision(c, id, quality) ==
  /\ <<c, id, quality>> \in Decisions
  /\ At(Handler(c), "reading")
  /\ decisionsLeft > 0
  /\ decisionsLeft' = decisionsLeft - 1
  /\ request' = [request EXCEPT ![c] = <<id, quality>>]
  /\ Goto(Handler(c), "lockQualities")
  /\ UNCHANGED <<tables, locks, state, transport, signals, failuresLeft,
                 crashed>>

\* setTrackQuality takes qualitiesLock first, then listLock.
LockQualities(c) ==
  /\ At(Handler(c), "lockQualities")
  /\ qualitiesLock = Free
  /\ qualitiesLock' = Handler(c)
  /\ Goto(Handler(c), "setQuality")
  /\ UNCHANGED <<tables, listLock, state, transport, signals, others>>

\* The quality that setTrackQuality records and the track it gives to the
\* sender: a quality that the tile does not have leaves both as they are.
KnownQuality(id, q) == q \in Quality /\ trackQualities[id][q] # None

SetTrackQuality(c) ==
  /\ At(Handler(c), "setQuality")
  /\ listLock = Free
  /\ LET id  == request[c][1]
         q   == request[c][2]
         old == qualityDecisions[c][id]
     IN IF old = None \/ old = q \/ (senders[c][id] # None /\ q >= 0 /\ ~KnownQuality(id, q))
        THEN UNCHANGED state
        ELSE /\ qualityDecisions' = [qualityDecisions EXCEPT ![c][id] = q]
             /\ senders' = [senders EXCEPT ![c][id] =
                  IF @ = None THEN None
                  ELSE IF q < 0 THEN Nil ELSE trackQualities[id][q]]
  /\ qualitiesLock' = Free
  /\ request' = [request EXCEPT ![c] = None]
  /\ Goto(Handler(c), "reading")
  /\ UNCHANGED <<tables, listLock, transport, signals, decisionsLeft,
                 failuresLeft, crashed>>

\* ReadMessage fails: the client has gone.
WebsocketClosed(c) ==
  /\ At(Handler(c), "reading")
  /\ failuresLeft > 0
  /\ failuresLeft' = failuresLeft - 1
  /\ LeaveHandler(c)
  /\ UNCHANGED <<tables, locks, state, session, signals, request,
                 decisionsLeft, crashed>>
-----------------------------------------------------------------------------
(***************************************************************************)
(* OnConnectionStateChange.                                                *)
(***************************************************************************)

\* Failed: the callback closes the connection; the websocket stays open.
ConnectionFailed(c) ==
  /\ connection[c] = "open"
  /\ answered[c]
  /\ failuresLeft > 0
  /\ failuresLeft' = failuresLeft - 1
  /\ connection' = [connection EXCEPT ![c] = "closing"]
  /\ UNCHANGED <<tables, locks, state, session, wire, pc, signals, request,
                 decisionsLeft, crashed>>

\* Close ends: ConnectionState() is Closed, and the callback for it calls
\* signalPeerConnections.
FinishClose(c) ==
  /\ connection[c] = "closing"
  /\ connection' = [connection EXCEPT ![c] = "closed"]
  /\ Goto(OnClosed(c), "signal")
  /\ UNCHANGED <<tables, locks, state, session, wire, signals, others>>
-----------------------------------------------------------------------------
(***************************************************************************)
(* OnTrack for the remote track r = <<connection, medium, quality>>.       *)
(***************************************************************************)

Live(r) == NewTrack(r[1], r[2], r[3], TRUE)

\* The first packet of a negotiated remote track.
TrackStarts(r) ==
  /\ r \in Incoming
  /\ At(OnTrack(r), "idle")
  /\ connection[r[1]] = "open"
  /\ answered[r[1]]
  /\ Goto(OnTrack(r), IF r[2] = Audio THEN "addTrack" ELSE "addQuality")
  /\ UNCHANGED <<tables, locks, state, transport, signals, others>>

\* addQualityTrack; quality 0 is also added to trackLocals.
AddQualityTrack(r) ==
  /\ At(OnTrack(r), "addQuality")
  /\ qualitiesLock = Free
  /\ trackQualities' = [trackQualities EXCEPT ![IdOf(r)][r[3]] = Live(r)]
  /\ Goto(OnTrack(r), IF r[3] = 0 THEN "addTrack" ELSE "update")
  /\ UNCHANGED <<peerConnections, trackLocals, locks, state, transport,
                 signals, others>>

\* addTrack with callSignal.
AddTrack(r) ==
  /\ At(OnTrack(r), "addTrack")
  /\ listLock = Free
  /\ trackLocals' = [trackLocals EXCEPT ![IdOf(r)] = Live(r)]
  /\ Goto(OnTrack(r), "signal")
  /\ UNCHANGED <<peerConnections, trackQualities, locks, state, transport,
                 signals, others>>

\* Mutant: the quality decision is not looked at.
AdoptsAlways(c, r) == TRUE

\* Every listed connection that sends this track ID, for video at this
\* quality, gets the new track.
Adopts(c, r) == IsVideo(IdOf(r)) => qualityDecisions[c][IdOf(r)] = r[3]

ReplaceTracks(r) ==
  senders' = [c \in Conn |-> [id \in TrackId |->
    IF /\ id = IdOf(r)
       /\ senders[c][id] # None
       /\ Listed(c)
       /\ Adopts(c, r)
    THEN Live(r) ELSE senders[c][id]]]

UpdateClientTrackState(r) ==
  /\ At(OnTrack(r), "update")
  /\ r[2] = Audio
  /\ listLock = Free
  /\ ReplaceTracks(r)
  /\ Goto(OnTrack(r), "forward")
  /\ UNCHANGED <<tables, locks, qualityDecisions, transport, signals, others>>

\* updateClientTrackStateQuality takes listLock first, then qualitiesLock.
LockForUpdate(r) ==
  /\ At(OnTrack(r), "update")
  /\ r[2] # Audio
  /\ listLock = Free
  /\ listLock' = OnTrack(r)
  /\ Goto(OnTrack(r), "updateQuality")
  /\ UNCHANGED <<tables, qualitiesLock, state, transport, signals, others>>

UpdateClientTrackStateQuality(r) ==
  /\ At(OnTrack(r), "updateQuality")
  /\ qualitiesLock = Free
  /\ ReplaceTracks(r)
  /\ listLock' = Free
  /\ Goto(OnTrack(r), "forward")
  /\ UNCHANGED <<tables, qualitiesLock, qualityDecisions, transport, signals,
                 others>>

\* Read fails, as it does once the connection is closed, or Write does; an
\* audio track is then removed by a deferred call.
StopForwarding(r) ==
  /\ At(OnTrack(r), "forward")
  /\ Goto(OnTrack(r), IF r[2] = Audio THEN "remove" ELSE "done")

ReadFails(r) ==
  /\ StopForwarding(r)
  /\ connection[r[1]] # "open"
  /\ UNCHANGED <<tables, locks, state, transport, signals, others>>

WriteFails(r) ==
  /\ StopForwarding(r)
  /\ failuresLeft > 0
  /\ failuresLeft' = failuresLeft - 1
  /\ UNCHANGED <<tables, locks, state, transport, signals, request,
                 decisionsLeft, crashed>>

RemoveTrack(r) ==
  /\ At(OnTrack(r), "remove")
  /\ listLock = Free
  /\ trackLocals' = [trackLocals EXCEPT ![IdOf(r)] = None]
  /\ Goto(OnTrack(r), "signalRemoved")
  /\ UNCHANGED <<peerConnections, trackQualities, locks, state, transport,
                 signals, others>>
-----------------------------------------------------------------------------
SyncStep ==
  \/ SyncRemoveClosed \/ SyncCheckOpen
  \/ SyncTracks \/ SyncRemoveFails \/ SyncAddPanics
  \/ SyncOffer \/ SyncOfferFails \/ SyncDone

SignalStep == SyncStep \/ BeginRetry \/ \E t \in Thread : BeginSync(t)

HandlerStep(c) ==
  \/ Connect(c) \/ LockForRegister(c) \/ Register(c)
  \/ HandleAnswer(c) \/ HandleAnswerPanics(c)
  \/ LockQualities(c) \/ SetTrackQuality(c)

TrackStep(r) ==
  \/ AddQualityTrack(r) \/ AddTrack(r) \/ UpdateClientTrackState(r)
  \/ LockForUpdate(r) \/ UpdateClientTrackStateQuality(r)
  \/ ReadFails(r) \/ RemoveTrack(r)

Environment ==
  \/ \E c \in Conn : \/ ClientAnswer(c) \/ WebsocketClosed(c)
                     \/ ConnectionFailed(c) \/ FinishClose(c)
  \/ \E d \in Decisions : ReceiveDecision(d[1], d[2], d[3])
  \/ \E r \in Remote : TrackStarts(r) \/ WriteFails(r)

Next ==
  /\ ~crashed
  /\ \/ SignalStep
     \/ \E c \in Conn : HandlerStep(c)
     \/ \E r \in Remote : TrackStep(r)
     \/ Environment

Spec == Init /\ [][Next]_vars

(***************************************************************************)
(* Fairness.  A goroutine that can run does run, Close ends, and a client  *)
(* that is not Silent answers the offers it receives.  A handler that      *)
(* waits for a mutex that becomes free again and again gets it: the Go     *)
(* mutex hands itself over to a waiter that starves.  The same holds for   *)
(* the other goroutines, of which weak fairness is enough to assume.       *)
(* Clients need not connect, decide, fail or send.                         *)
(***************************************************************************)
HandlerProgress(c) ==
  \/ LockForRegister(c) \/ Register(c) \/ BeginSync(Handler(c))
  \/ HandleAnswer(c) \/ HandleAnswerPanics(c)
  \/ LockQualities(c) \/ SetTrackQuality(c)

Running == ~crashed
Fairness ==
  /\ WF_vars(Running /\ SyncStep)
  /\ WF_vars(Running /\ BeginRetry)
  /\ \A c \in Conn :
       /\ SF_vars(Running /\ HandlerProgress(c))
       /\ WF_vars(Running /\ (FinishClose(c) \/ BeginSync(OnClosed(c))))
  /\ \A c \in Conn \ Silent : WF_vars(Running /\ ClientAnswer(c))
  /\ \A r \in Incoming : WF_vars(Running /\ (TrackStep(r) \/ BeginSync(OnTrack(r))))

FairSpec == Spec /\ Fairness
=============================================================================
