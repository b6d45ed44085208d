---------------------------- MODULE Subscription ----------------------------
(***************************************************************************)
(* Abstract specification of what the SFU does for its clients, without    *)
(* locks, goroutines, retries or track objects: who is in the session,     *)
(* which tracks are published, in which quality each connection is served  *)
(* each of them, and which ones its client was told about (sfu/main.go     *)
(* 119-367, 553-688 and 727-742).                                          *)
(***************************************************************************)
EXTENDS Integers

CONSTANTS
  Conn, Client, ClientOf,   \* as in SFU
  TrackId, VideoId,         \* pairs that begin with a client
  Quality,
  Requests,                 \* what clients may ask: <<connection, video ID,
                            \* quality>>, no track when it is negative
  Nothing, Paused           \* not served; served without packets

VARIABLES
  members,     \* the connections that the SFU keeps up to date
  published,   \* the IDs of the tracks that can be served
  served,      \* connection -> track ID -> a quality, Paused or Nothing
  offered,     \* connection -> the IDs in the last description it was sent
  asked        \* connection -> <<video ID, quality>> or Nothing

service == <<members, published, served, offered, asked>>

OwnTracks(c) == {id \in TrackId : id[1] = ClientOf[c]}

Init ==
  /\ members = {}
  /\ published = {}
  /\ served = [c \in Conn |-> [id \in TrackId |-> Nothing]]
  /\ offered = [c \in Conn |-> {}]
  /\ asked = [c \in Conn |-> Nothing]

\* A connection comes in, and with it all tracks of its client.
Join(c) ==
  /\ members' = members \cup {c}
  /\ published' = published \cup OwnTracks(c)
  /\ UNCHANGED <<served, offered, asked>>

Leave(c) ==
  /\ members' = members \ {c}
  /\ UNCHANGED <<published, served, offered, asked>>

\* Audio tracks end and may come back; video tracks stay.
Publish(id) ==
  /\ published' = published \cup {id}
  /\ UNCHANGED <<members, served, offered, asked>>

Withdraw(id) ==
  /\ published' = published \ {id}
  /\ UNCHANGED <<members, served, offered, asked>>

\* A member is to be served the published tracks of others, at the quality
\* it had.  What is new to it, or paused, begins at quality 0.
Expected(c) == published \ OwnTracks(c)

UpToDate(c) ==
  [id \in TrackId |->
     IF id \notin Expected(c) THEN Nothing
     ELSE IF served[c][id] \in Quality THEN served[c][id] ELSE 0]

Serve(c) ==
  /\ c \in members
  /\ served' = [served EXCEPT ![c] = UpToDate(c)]
  /\ UNCHANGED <<members, published, offered, asked>>

\* Its client is told, once it is served exactly these.
Offer(c) ==
  /\ c \in members
  /\ {id \in TrackId : served[c][id] # Nothing} = Expected(c)
  /\ offered' = [offered EXCEPT ![c] = Expected(c)]
  /\ UNCHANGED <<members, published, served, asked>>

\* A client asks for a quality of a video track, one request at a time.
Ask(c, id, quality) ==
  /\ <<c, id, quality>> \in Requests
  /\ asked[c] = Nothing
  /\ asked' = [asked EXCEPT ![c] = <<id, quality>>]
  /\ UNCHANGED <<members, published, served, offered>>

\* It gets what it asked for, if it is served this track and the quality
\* exists.
Grant(c) ==
  /\ asked[c] # Nothing
  /\ LET id == asked[c][1]
         q  == asked[c][2]
     IN served' = IF served[c][id] # Nothing /\ (q < 0 \/ q \in Quality)
                  THEN [served EXCEPT ![c][id] = IF q < 0 THEN Paused ELSE q]
                  ELSE served
  /\ asked' = [asked EXCEPT ![c] = Nothing]
  /\ UNCHANGED <<members, published, offered>>

Next ==
  \/ \E c \in Conn : Join(c) \/ Leave(c) \/ Serve(c) \/ Offer(c) \/ Grant(c)
  \/ \E id \in TrackId \ VideoId : Publish(id) \/ Withdraw(id)
  \/ \E r \in Requests : Ask(r[1], r[2], r[3])

Spec == Init /\ [][Next]_service
=============================================================================
