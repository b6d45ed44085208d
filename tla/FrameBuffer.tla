---------------------------- MODULE FrameBuffer ----------------------------
(***************************************************************************)
(* The frame buffer of the peer, peer/proxy_connection.go: one goroutine   *)
(* (StartListening) puts the datagrams of the DLL together to frames and   *)
(* keeps the last complete frame of each stream; the goroutines that       *)
(* peer/main.go starts when the connection to the SFU is Connected take    *)
(* them with NextTile and NextAudioFrame.                                  *)
(*                                                                         *)
(* A stream is a tile at a quality, or the audio.  mtx_video and mtx_audio *)
(* are released only by the end of a critical section or by Wait, and no   *)
(* goroutine holds both, so a step is a critical section: from Lock, or    *)
(* from the return of Wait, to Unlock or Wait.                             *)
(*                                                                         *)
(* The unit of length is one datagram.  The DLL is external: it numbers    *)
(* the frames of a stream and sends each in Length[f] datagrams, which may *)
(* be lost and may overtake each other.  They are not duplicated, as the   *)
(* DLL runs on the host of the peer.                                       *)
(***************************************************************************)
EXTENDS Integers, Sequences, FiniteSets

CONSTANTS
  Video,          \* the pairs of tile and quality
  Audio,
  MaxFrames,      \* bound: how many frames the DLL sends of each stream
  Length,         \* the number of datagrams of a frame
  MaxConnected,   \* bound: how often the connection becomes Connected
  None

Stream == Video \cup {Audio}
Frame  == 1..MaxFrames
Offset(f) == 0..(Length[f] - 1)

\* The part of frame f of stream s that begins at offset o.
Piece(s, f, o) == [stream |-> s, frame |-> f, offset |-> o]
Datagram == UNION {{Piece(s, f, o) : s \in Stream, o \in Offset(f)} : f \in Frame}

\* The goroutines: for each stream one for every time of becoming Connected.
Sender == Stream \X (1..MaxConnected)

\* RemoteTile: its data holds what was copied to each offset, and None is
\* left where nothing was.
RemoteTile(f) ==
  [frame : {f}, currentLen : 0..Length[f], data : [Offset(f) -> Datagram \cup {None}]]
AnyTile == UNION {RemoteTile(f) : f \in Frame}

ASSUME FrameBufferAssumption ==
  /\ Audio \notin Video
  /\ MaxFrames \in Nat
  /\ Length \in [Frame -> Nat \ {0}]
  /\ MaxConnected \in Nat
  /\ None \notin Frame /\ None \notin Datagram /\ None \notin AnyTile

VARIABLES
  useProxyInput,  \* the flag -i: whether StartListening is called
  sent,        \* how many frames of a stream the DLL has sent
  inFlight,    \* datagrams on their way from the DLL
  incomplete,  \* incomplete_tiles, incomplete_audio_frames
  complete,    \* complete_tiles, complete_audio_frames: one frame or None
  pc,          \* where a goroutine is: not started, before the lock of
               \* NextTile or NextAudioFrame, in Wait, or woken
  delivered,   \* history: the frames that a stream's goroutines got
  connected,   \* how often the connection became Connected
  panicked     \* a panic in a goroutine ended the peer

network == <<useProxyInput, sent, inFlight>>
buffers == <<incomplete, complete>>
vars == <<network, buffers, pc, delivered, connected, panicked>>

TypeOK ==
  /\ useProxyInput \in BOOLEAN
  /\ sent \in [Stream -> 0..MaxFrames]
  /\ inFlight \subseteq Datagram
  /\ incomplete \in [Stream -> [Frame -> AnyTile \cup {None}]]
  /\ \A s \in Stream, f \in Frame :
       incomplete[s][f] # None => incomplete[s][f].frame = f
  /\ complete \in [Stream -> AnyTile \cup {None}]
  /\ pc \in [Sender -> {"none", "next", "wait", "woken"}]
  /\ delivered \in [Stream -> Seq(AnyTile)]
  /\ connected \in 0..MaxConnected
  /\ panicked \in BOOLEAN

Init ==
  /\ useProxyInput \in BOOLEAN
  /\ sent = [s \in Stream |-> 0]
  /\ inFlight = {}
  /\ incomplete = [s \in Stream |-> [f \in Frame |-> None]]
  /\ complete = [s \in Stream |-> None]
  /\ pc = [w \in Sender |-> "none"]
  /\ delivered = [s \in Stream |-> << >>]
  /\ connected = 0
  /\ panicked = FALSE
-----------------------------------------------------------------------------
(***************************************************************************)
(* The DLL and the network.                                                *)
(***************************************************************************)
DatagramsOf(s, f) == {Piece(s, f, o) : o \in Offset(f)}

SendFrame(s) ==
  /\ sent[s] < MaxFrames
  /\ sent' = [sent EXCEPT ![s] = @ + 1]
  /\ inFlight' = inFlight \cup DatagramsOf(s, sent[s] + 1)
  /\ UNCHANGED <<useProxyInput, buffers, pc, delivered, connected, panicked>>

LoseDatagram(d) ==
  /\ d \in inFlight
  /\ inFlight' = inFlight \ {d}
  /\ UNCHANGED <<useProxyInput, sent, buffers, pc, delivered, connected, panicked>>
-----------------------------------------------------------------------------
(***************************************************************************)
(* The goroutine of StartListening.                                        *)
(***************************************************************************)

\* Mutant: the buffer is one longer than the frame.
LongTile(f) ==
  [frame |-> f, currentLen |-> 0, data |-> [o \in 0..Length[f] |-> None]]

NewTile(f) ==
  [frame |-> f, currentLen |-> 0, data |-> [o \in Offset(f) |-> None]]

\* The entry of the frame of d, made if there is none, with d copied in.
Value(d) ==
  LET tile == incomplete[d.stream][d.frame]
      old  == IF tile = None THEN NewTile(d.frame) ELSE tile
  IN [frame      |-> old.frame,
      currentLen |-> old.currentLen + 1,
      data       |-> [old.data EXCEPT ![d.offset] = d]]

\* Mutant: the length of the last datagram counts twice.
CountsTwice(d) == Value(d).currentLen + 1 >= Length[d.frame]

IsComplete(d) == Value(d).currentLen = Length[d.frame]

Reassemble(d) ==
  /\ useProxyInput
  /\ d \in inFlight
  /\ ~IsComplete(d)
  /\ inFlight' = inFlight \ {d}
  /\ incomplete' = [incomplete EXCEPT ![d.stream][d.frame] = Value(d)]
  /\ UNCHANGED <<useProxyInput, sent, complete, pc, delivered, connected, panicked>>

\* Mutant: nobody is woken.
WakesNobody(s) == pc

Broadcast(s) ==
  [w \in Sender |-> IF w[1] = s /\ pc[w] = "wait" THEN "woken" ELSE pc[w]]

\* The last missing datagram: the frame replaces the one that is there.
CompleteFrame(d) ==
  /\ useProxyInput
  /\ d \in inFlight
  /\ IsComplete(d)
  /\ inFlight' = inFlight \ {d}
  /\ incomplete' = [incomplete EXCEPT ![d.stream][d.frame] = None]
  /\ complete' = [complete EXCEPT ![d.stream] = Value(d)]
  /\ pc' = Broadcast(d.stream)
  /\ UNCHANGED <<useProxyInput, sent, delivered, connected, panicked>>
-----------------------------------------------------------------------------
(***************************************************************************)
(* The goroutines that send.                                               *)
(***************************************************************************)

\* OnConnectionStateChange(Connected) starts one goroutine for every stream.
\* Without -i those of video tiles have the dummy transcoder and call
\* nothing.
Connected ==
  /\ connected < MaxConnected
  /\ connected' = connected + 1
  /\ pc' = [w \in Sender |->
       IF w[2] = connected' /\ (useProxyInput \/ w[1] = Audio)
       THEN "next" ELSE pc[w]]
  /\ UNCHANGED <<network, buffers, delivered, panicked>>

\* Mutant: the frame stays in the buffer.
KeepsFrame(s) == complete

WithoutFrame(s) == [complete EXCEPT ![s] = None]

\* NextTile or NextAudioFrame returns a frame that is there, at once or
\* after Wait.
TakeFrame(w) ==
  /\ pc[w] \in {"next", "woken"}
  /\ complete[w[1]] # None
  /\ delivered' = [delivered EXCEPT ![w[1]] = Append(@, complete[w[1]])]
  /\ complete' = WithoutFrame(w[1])
  /\ pc' = [pc EXCEPT ![w] = "next"]
  /\ UNCHANGED <<network, incomplete, connected, panicked>>

WaitForFrame(w) ==
  /\ useProxyInput
  /\ pc[w] = "next"
  /\ complete[w[1]] = None
  /\ pc' = [pc EXCEPT ![w] = "wait"]
  /\ UNCHANGED <<network, buffers, delivered, connected, panicked>>

Panics(w) ==
  /\ complete[w[1]] = None
  /\ panicked' = TRUE
  /\ UNCHANGED <<network, buffers, pc, delivered, connected>>

\* After Wait the frame is used without looking whether it is there.
NoFrameAfterWait(w) == pc[w] = "woken" /\ Panics(w)

\* Without -i the condition to wait for is nil.
NoCondition(w) == pc[w] = "next" /\ ~useProxyInput /\ Panics(w)

NextFrame(w) ==
  \/ TakeFrame(w) \/ WaitForFrame(w)
  \/ NoFrameAfterWait(w) \/ NoCondition(w)
-----------------------------------------------------------------------------
Next ==
  /\ ~panicked
  /\ \/ \E s \in Stream : SendFrame(s)
     \/ \E d \in inFlight : LoseDatagram(d) \/ Reassemble(d) \/ CompleteFrame(d)
     \/ Connected
     \/ \E w \in Sender : NextFrame(w)

Spec == Init /\ [][Next]_vars

\* A goroutine that is not in Wait goes on.
FairSpec == Spec /\ \A w \in Sender : WF_vars(~panicked /\ NextFrame(w))
-----------------------------------------------------------------------------
(***************************************************************************)
(* Every frame that is complete or was handed out is whole: it holds each  *)
(* of its own datagrams at its place and nothing else, although the buffer *)
(* only counts lengths and fragments of several frames arrive mixed.       *)
(***************************************************************************)
Whole(s, tile) ==
  tile.data = [o \in Offset(tile.frame) |-> Piece(s, tile.frame, o)]

WholeFrames ==
  \A s \in Stream :
    /\ complete[s] # None => Whole(s, complete[s])
    /\ \A i \in DOMAIN delivered[s] : Whole(s, delivered[s][i])

(***************************************************************************)
(* No wake-up is lost: no goroutine is in Wait while a frame of its stream *)
(* is complete.  The test before Wait and the broadcast are made under the *)
(* same mutex, and a frame that is replaced has woken everybody.           *)
(***************************************************************************)
NoLostWakeup ==
  \A w \in Sender : pc[w] = "wait" => complete[w[1]] = None

(***************************************************************************)
(* proxy_connection.go:283 and :300 set isNextFrameReady when Wait         *)
(* returns: a goroutine that was woken finds a frame.                      *)
(***************************************************************************)
FrameReady == \A w \in Sender : pc[w] = "woken" => complete[w[1]] # None

(***************************************************************************)
(* The buffer is a mailbox for one frame per stream.  A frame can still    *)
(* come while one of its datagrams is in flight or its entry waits for     *)
(* more; a frame that is not whole is no frame of the mailbox.             *)
(***************************************************************************)
Spent == [s \in Stream |->
  {f \in Frame : /\ f <= sent[s]
                 /\ incomplete[s][f] = None
                 /\ \A d \in inFlight : d.stream = s => d.frame # f}]

FrameIn(s, tile) == IF Whole(s, tile) THEN tile.frame ELSE 0

Box == [s \in Stream |->
  IF complete[s] = None THEN None ELSE FrameIn(s, complete[s])]

Taken == [s \in Stream |->
  [i \in DOMAIN delivered[s] |-> FrameIn(s, delivered[s][i])]]

Mailbox == INSTANCE FrameMailbox WITH spent <- Spent, box <- Box, taken <- Taken
IsMailbox == Mailbox!Spec

(***************************************************************************)
(* A complete frame is handed out, or a newer one in its place, as soon as *)
(* goroutines send: a goroutine in Wait is woken for it.                   *)
(***************************************************************************)
HandedOver ==
  \A s \in Stream : complete[s] # None /\ connected > 0 ~> complete[s] = None \/ panicked
=============================================================================
