--------------------------- MODULE SFUProperties ---------------------------
(***************************************************************************)
(* What the signalling core of the SFU promises.                           *)
(***************************************************************************)
EXTENDS SFU

\* The tracks that connection c is expected to get.
Expected(c) ==
  {id \in TrackId : trackLocals[id] # None /\ id[1] # ClientOf[c]}

\* c has a sender (perhaps paused) for exactly the expected tracks, and its
\* client was offered exactly these.
Sent(c) == {id \in TrackId : senders[c][id] # None}

Synced(c) ==
  /\ Sent(c) = Expected(c)
  /\ offered[c] = Expected(c)

\* No goroutine is inside, about to enter, or asleep before
\* signalPeerConnections, and no Close is under way.
Quiet ==
  /\ sync = Idle
  /\ retries = 0
  /\ \A t \in Thread : ~Signalling(t)
  /\ \A c \in Conn : connection[c] # "closing"
-----------------------------------------------------------------------------
(***************************************************************************)
(* No connection ever gets a sender for a track of its own client, whether *)
(* the track arrived already or is only announced, and however many        *)
(* connections of that client are listed (comment at sfu/main.go:257).     *)
(***************************************************************************)
NoLoopback ==
  \A c \in Conn, m \in Media : senders[c][<<ClientOf[c], m>>] = None

Matches(sent, decision) ==
  \/ sent = None /\ decision = None
  \/ sent = Nil /\ decision # None /\ decision < 0
  \/ sent \in Track /\ sent.quality = decision

(***************************************************************************)
(* What a connection recorded in qualityDecisions is what its sender       *)
(* sends: the track of that quality, or no track for a negative one.       *)
(* Registration, signalling, OnTrack goroutines and decisions all change   *)
(* one or both of the two maps, in critical sections of different locks.   *)
(***************************************************************************)
DecisionMatchesSender ==
  \A c \in Conn, id \in VideoId :
    Matches(senders[c][id], qualityDecisions[c][id])

(***************************************************************************)
(* An open connection has exactly one offer or answer under way when it    *)
(* waits for an answer, and none otherwise: retries and concurrent callers *)
(* of signalPeerConnections never have two offers outstanding, so every    *)
(* answer meets the state in which SetRemoteDescription accepts it and the *)
(* handler does not panic.                                                 *)
(***************************************************************************)
AnswerExpected ==
  \A c \in Conn : connection[c] = "open" =>
    wire[c].offers + wire[c].answers =
      IF signaling[c] = "haveLocalOffer" THEN 1 ELSE 0

(***************************************************************************)
(* The exchange of descriptions on each connection, whichever goroutines   *)
(* offer: SFU implements OfferAnswer.  A second offer before the answer, an *)
(* answer that is taken twice or one that meets no offer is not one of its *)
(* steps (sfu/main.go:300 and 709).                                        *)
(***************************************************************************)
Over(c) == connection[c] \in {"closing", "closed"}

Exchange(c) ==
  IF Over(c) THEN "over"
  ELSE IF signaling[c] = "stable" THEN "none"
  ELSE IF wire[c].offers > 0 THEN "offered" ELSE "answered"

OneExchange == INSTANCE OfferAnswer WITH exchange <- [c \in Conn |-> Exchange(c)]

IsOfferAnswer == OneExchange!Spec

(***************************************************************************)
(* The SFU closes no connection of its own accord: before a client, an ICE *)
(* session or a forwarding has failed, no handler panics, which would      *)
(* close its connection (sfu/main.go:709), what needs an open connection   *)
(* finds it open (sfu/main.go:160, 251 and 300), and the process goes on.  *)
(***************************************************************************)
PanicsOnlyAfterFailure ==
  failuresLeft = MaxFailures =>
    ~crashed /\ \A c \in Conn : connection[c] \in {"new", "open"}

(***************************************************************************)
(* No early return, retry or panic leaves a mutex locked: listLock is held *)
(* exactly during an attempt (sfu/main.go:226-230 and 321-335), a          *)
(* registration (553-575) or the replacement of tracks (351-356), and      *)
(* qualitiesLock exactly by a setTrackQuality that waits for listLock      *)
(* (191-197).  So whoever waits for qualitiesLock in vain waits for such a *)
(* handler, and only for it.                                               *)
(***************************************************************************)
LocksHeldInside ==
  /\ sync.at > 0 <=> listLock = Retry \/ (listLock \in Thread /\ Signalling(listLock))
  /\ listLock \in Thread =>
       \/ Signalling(listLock)
       \/ listLock \in Handlers /\ At(listLock, "register")
       \/ listLock \in Trackers /\ At(listLock, "updateQuality")
  /\ \A c \in Conn : qualitiesLock = Handler(c) <=> At(Handler(c), "setQuality")

(***************************************************************************)
(* Who is served what, whatever goroutines run: SFU implements             *)
(* Subscription.  In particular a signalling round (sfu/main.go:232-317)   *)
(* brings a connection in line with the whole table before it offers and   *)
(* keeps the quality of what is being sent, setTrackQuality                *)
(* (sfu/main.go:190-222) does what the client asked for last, and no       *)
(* OnTrack (sfu/main.go:639-640 and 669-673) changes the quality anybody   *)
(* is served in.                                                           *)
(***************************************************************************)
Service(sent) == IF sent \in Track THEN sent.quality ELSE sent

Subscriptions == INSTANCE Subscription WITH
  Requests <- Decisions, Nothing <- None, Paused <- Nil,
  members <- {c \in Conn : Listed(c)},
  published <- {id \in TrackId : trackLocals[id] # None},
  served <- [c \in Conn |-> [id \in TrackId |-> Service(senders[c][id])]],
  asked <- request

IsSubscription == Subscriptions!Spec

(***************************************************************************)
(* No update is missed: when nobody is going to signal any more, every     *)
(* listed connection is not closed and has and was offered exactly the     *)
(* expected tracks (comments at sfu/main.go:225 and 596).  Every change to *)
(* trackLocals and every abandoned attempt must have left someone behind   *)
(* to signal.                                                              *)
(***************************************************************************)
SyncedWhenQuiet ==
  Quiet /\ ~crashed =>
    \A i \in DOMAIN peerConnections :
      /\ connection[peerConnections[i]] # "closed"
      /\ Synced(peerConnections[i])

(***************************************************************************)
(* No subscriber is left on a placeholder: once OnTrack forwards packets   *)
(* of a track, every listed connection that wants this track at this       *)
(* quality has the live object in its sender.  It rests on the order in    *)
(* which OnTrack fills the tables and replaces the tracks of senders.      *)
(***************************************************************************)
ForwardedIsReceived ==
  \A r \in Remote, c \in Conn :
    /\ At(OnTrack(r), "forward")
    /\ Listed(c)
    /\ senders[c][IdOf(r)] # None
    /\ IsVideo(IdOf(r)) => qualityDecisions[c][IdOf(r)] = r[3]
    => senders[c][IdOf(r)] = Live(r)

(***************************************************************************)
(* The same where a client has connected again, and tracks of its other    *)
(* connection may have replaced those of r: no subscriber is left on a     *)
(* placeholder that the connection of r made when it registered.           *)
(***************************************************************************)
Own(r, track) == track \in Track /\ track.conn = r[1] => track = Live(r)

PlaceholderReplaced ==
  \A r \in Remote, c \in Conn :
    /\ At(OnTrack(r), "forward")
    /\ Listed(c)
    /\ IsVideo(IdOf(r)) => qualityDecisions[c][IdOf(r)] = r[3]
    => Own(r, senders[c][IdOf(r)])

(***************************************************************************)
(* What the SFU is there for, end to end: when nobody is going to signal   *)
(* any more, a track that OnTrack forwards was offered to every listed     *)
(* connection of another client, and is the one in its sender unless that  *)
(* connection decided for another quality.  Registration, signalling,      *)
(* OnTrack and decisions each do a part of this.                           *)
(***************************************************************************)
EveryoneReceives ==
  Quiet /\ ~crashed =>
    \A r \in Remote, c \in Conn :
      /\ At(OnTrack(r), "forward")
      /\ Listed(c)
      /\ ClientOf[c] # ClientOf[r[1]]
      => /\ IdOf(r) \in offered[c]
         /\ Adopts(c, r) => senders[c][IdOf(r)] = Live(r)

\* No client connects twice.
OneConnectionEach ==
  \A c, d \in Conn : ClientOf[c] = ClientOf[d] => c = d

\* No client asks for no track at all.
NobodyPauses == \A d \in Decisions : d[3] >= 0
-----------------------------------------------------------------------------
(***************************************************************************)
(* The retries of signalPeerConnections come to an end: when clients       *)
(* answer, the system settles, although every attempt renews the offers    *)
(* of the connections that are first in the list and so makes the next     *)
(* attempt fail until these are answered.                                  *)
(***************************************************************************)
Settles == <>[](Quiet \/ crashed)

(***************************************************************************)
(* A connection that registers is served: it is offered every expected     *)
(* track, unless it is closed first.                                       *)
(***************************************************************************)
JoinerIsServed ==
  \A c \in Conn :
    At(Handler(c), "register") ~>
      \/ crashed
      \/ connection[c] # "open"
      \/ Listed(c) /\ Synced(c) /\ signaling[c] = "stable"
-----------------------------------------------------------------------------
(***************************************************************************)
(* What comments of the source say and the code does not do.               *)
(***************************************************************************)

(***************************************************************************)
(* sfu/main.go:323 releases the lock because "We might be blocking a       *)
(* RemoveTrack or AddTrack": a goroutine that waits to remove a track is   *)
(* not blocked for ever.                                                   *)
(***************************************************************************)
RemoveTrackNotBlocked ==
  \A r \in Remote :
    At(OnTrack(r), "remove") ~> ~At(OnTrack(r), "remove") \/ crashed

(***************************************************************************)
(* sfu/main.go:596, "If PeerConnection is closed remove it from global     *)
(* list".                                                                  *)
(***************************************************************************)
ClosedIsRemoved ==
  \A c \in Conn : connection[c] = "closed" ~> ~Listed(c)

(***************************************************************************)
(* sfu/main.go:225, each connection "is getting all the expected media     *)
(* tracks": an audio track that is being forwarded is in trackLocals.      *)
(***************************************************************************)
ForwardedIsPublished ==
  \A c \in Conn :
    At(OnTrack(<<c, Audio, 0>>), "forward") => trackLocals[AudioOf(c)] # None

(***************************************************************************)
(* sfu/main.go:239, "map of sender we already are sending, so we don't     *)
(* double send": signalling adds no second sender for a track that the     *)
(* connection has a sender for, and so keeps the quality decided for it.   *)
(***************************************************************************)
NoDoubleSend ==
  [][\A c \in Conn, id \in VideoId :
       SyncTracks /\ senders[c][id] # None
         => /\ senders'[c][id] = senders[c][id]
            /\ qualityDecisions'[c][id] = qualityDecisions[c][id]]_vars
=============================================================================
