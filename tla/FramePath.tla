----------------------------- MODULE FramePath -----------------------------
(***************************************************************************)
(* The way of the frames of one tile from a publisher to a subscriber.     *)
(*                                                                         *)
(* On the publisher one goroutine per quality (WriteVideoFrame, peer/      *)
(* main.go) takes frames from the mailbox that FrameMailbox specifies and  *)
(* FrameBuffer implements, cuts them into packets (peer/packet.go) and     *)
(* writes these one by one.  The SFU passes the packets of the quality     *)
(* that is bound to the sender of the subscriber on and gives them numbers *)
(* of its own (sfu/sequence_number_interceptor.go).  The subscriber passes *)
(* them to its DLL and counts (OnTrack, peer/main.go).  Audio goes the     *)
(* same way, with one quality.                                             *)
(*                                                                         *)
(* The network loses and reorders packets on both ways and, being SRTP,    *)
(* duplicates none.  It delays none by half of the sequence numbers or     *)
(* more, without which such numbers mean nothing.                          *)
(***************************************************************************)
EXTENDS Payload, FiniteSets

CONSTANTS
  Quality,       \* the qualities of the tile
  MaxFrames,     \* bound: frames of a quality that the DLL sends
  Length,        \* the length of each frame in bytes
  PayloadSize,   \* VideoPayloadSize or AudioPayloadSize
  SeqMod,        \* 2^16, the sequence numbers
  MaxSwitches,   \* bound: quality decisions of the subscriber
  Nil,           \* no quality
  None           \* no frame

Frame == 1..MaxFrames

ASSUME FramePathAssumption ==
  /\ MaxFrames \in Nat
  /\ Length \in [Frame -> Nat \ {0}]
  /\ PayloadSize \in Nat \ {0}
  /\ SeqMod \in Nat \ {0}
  /\ MaxSwitches \in Nat
  /\ Nil \notin Quality
  /\ None \notin Frame

VARIABLES
  \* the publisher
  spent, box, taken,   \* its mailboxes
  frameCounter,        \* of the payloader of each quality
  packets,             \* the packets of the frame that is being written
  uplink,              \* packets on their way to the SFU
  \* the SFU
  bound,               \* the quality of the track bound to the sender
  seqNr,               \* the next number on the outgoing stream
  downlink,            \* packets on their way to the subscriber
  \* the subscriber
  frames,              \* bytes counted for each frame number
  complete,            \* history: <<quality, frame number>> logged as received
  arrived,             \* history: packets that arrived
  \* history and bound
  forwarded,           \* how many packets the SFU has passed on
  switches             \* how many decisions the subscriber has taken

Mailbox == INSTANCE FrameMailbox WITH Stream <- Quality

mailbox    == <<spent, box, taken>>
publisher  == <<mailbox, frameCounter, packets>>
sfu        == <<bound, seqNr, forwarded, switches>>
subscriber == <<frames, complete, arrived>>
vars == <<publisher, uplink, sfu, downlink, subscriber>>

FrameNr == 0..(MaxFrames - 1)
Byte    == UNION {0..(Length[f] - 1) : f \in Frame}

\* VideoFramePacket.  The frame itself stands for the data.
Packet == [quality : Quality, frame : Frame, frameNr : FrameNr, frameLen : Nat,
           seqOffset : Byte, seqLen : 1..PayloadSize]
\* With the number that the SFU gave it, and the place in the order in which
\* the SFU sent it.
Numbered == [number : 0..(SeqMod - 1), place : Nat, packet : Packet]

TypeOK ==
  /\ spent \in [Quality -> SUBSET Frame]
  /\ box \in [Quality -> Frame \cup {None}]
  /\ taken \in [Quality -> Seq(Frame)]
  /\ frameCounter \in [Quality -> 0..MaxFrames]
  /\ packets \in [Quality -> Seq(Packet)]
  /\ uplink \subseteq Packet
  /\ bound \in Quality \cup {Nil}
  /\ seqNr \in 0..(SeqMod - 1)
  /\ downlink \subseteq Numbered
  /\ frames \in [FrameNr -> Nat]
  /\ complete \subseteq Quality \X FrameNr
  /\ arrived \subseteq Packet
  /\ forwarded \in Nat
  /\ switches \in 0..MaxSwitches

\* The sender begins with quality 0 of the tile (addNewTrackForPeer); which
\* one that is makes no difference.
Init ==
  /\ Mailbox!Init
  /\ frameCounter = [q \in Quality |-> 0]
  /\ packets = [q \in Quality |-> << >>]
  /\ uplink = {}
  /\ bound \in Quality
  /\ seqNr = 0
  /\ downlink = {}
  /\ frames = [n \in FrameNr |-> 0]
  /\ complete = {}
  /\ arrived = {}
  /\ forwarded = 0
  /\ switches = 0
-----------------------------------------------------------------------------
(***************************************************************************)
(* The publisher.                                                          *)
(***************************************************************************)

\* The frame buffer completes frame f.  One that the buffer loses never
\* arrives here.
FrameArrives(q, f) ==
  /\ Mailbox!Put(q, f)
  /\ UNCHANGED <<frameCounter, packets, uplink, sfu, downlink, subscriber>>

\* PointCloudPayloader.Payload.
Payload(q, f) ==
  LET cut == Cut(PayloadSize, Length[f]) IN
  [i \in DOMAIN cut |->
     [quality |-> q, frame |-> f, frameNr |-> frameCounter[q],
      frameLen |-> Length[f], seqOffset |-> cut[i][1], seqLen |-> cut[i][2]]]

\* Mutant: the counter stays.
StaysPut(q) == frameCounter[q]

NextFrameNr(q) == frameCounter[q] + 1

\* WriteVideoFrame: NextTile, then Packetize.  Frames have a goroutine of
\* their own per quality, which writes one before it takes the next.
TakeFrame(q) ==
  /\ packets[q] = << >>
  /\ Mailbox!Take(q)
  /\ packets' = [packets EXCEPT ![q] = Payload(q, box[q])]
  /\ frameCounter' = [frameCounter EXCEPT ![q] = NextFrameNr(q)]
  /\ UNCHANGED <<uplink, sfu, downlink, subscriber>>

WriteRTP(q) ==
  /\ packets[q] # << >>
  /\ uplink' = uplink \cup {Head(packets[q])}
  /\ packets' = [packets EXCEPT ![q] = Tail(@)]
  /\ UNCHANGED <<mailbox, frameCounter, sfu, downlink, subscriber>>

LosePacket(p) ==
  /\ p \in uplink
  /\ uplink' = uplink \ {p}
  /\ UNCHANGED <<publisher, sfu, downlink, subscriber>>
-----------------------------------------------------------------------------
(***************************************************************************)
(* The SFU.                                                                *)
(***************************************************************************)

\* No packet is overtaken by half of the sequence numbers.
WithinWindow == \A d \in downlink : 2 * (forwarded - d.place) < SeqMod

\* Mutant: the number does not wrap.
WiderNr == seqNr + 1

\* TrackMerger: a uint16 that wraps.
NextSeqNr == (seqNr + 1) % SeqMod

\* OnTrack reads a packet and writes it to its track, which passes it on to
\* the sender it is bound to and through the interceptor of this sender.
ForwardPacket(p) ==
  /\ p \in uplink
  /\ p.quality = bound
  /\ WithinWindow
  /\ uplink' = uplink \ {p}
  /\ downlink' = downlink \cup
       {[number |-> seqNr, place |-> forwarded, packet |-> p]}
  /\ seqNr' = NextSeqNr
  /\ forwarded' = forwarded + 1
  /\ UNCHANGED <<publisher, bound, switches, subscriber>>

\* The track is bound to no sender.
DropPacket(p) ==
  /\ p \in uplink
  /\ p.quality # bound
  /\ uplink' = uplink \ {p}
  /\ UNCHANGED <<publisher, sfu, downlink, subscriber>>

\* Mutant: a new track comes with a new numbering.
NumbersAnew == 0

\* What ReplaceTrack makes of the numbering: the interceptor was bound to
\* the stream of the sender, which stays.
SeqNrAfterReplace == seqNr

\* setTrackQuality: ReplaceTrack waits for a packet that is being written.
SetTrackQuality(q) ==
  /\ q # bound
  /\ switches < MaxSwitches
  /\ switches' = switches + 1
  /\ bound' = q
  /\ seqNr' = SeqNrAfterReplace
  /\ UNCHANGED <<publisher, uplink, forwarded, downlink, subscriber>>

LoseForwarded(d) ==
  /\ d \in downlink
  /\ downlink' = downlink \ {d}
  /\ UNCHANGED <<publisher, uplink, sfu, subscriber>>
-----------------------------------------------------------------------------
(***************************************************************************)
(* The subscriber.                                                         *)
(***************************************************************************)

Counted(p) == frames[p.frameNr] + p.seqLen

\* A count that is complete is logged.  That of every hundredth frame, of
\* which only frame 0 is within the bounds, begins again.
ReceivePacket(d) ==
  /\ d \in downlink
  /\ downlink' = downlink \ {d}
  /\ LET p == d.packet IN
     /\ arrived' = arrived \cup {p}
     /\ complete' = complete \cup
          {r \in {<<p.quality, p.frameNr>>} : Counted(p) = p.frameLen}
     /\ frames' = [frames EXCEPT ![p.frameNr] =
          IF Counted(p) = p.frameLen /\ p.frameNr % 100 = 0 THEN 0 ELSE Counted(p)]
  /\ UNCHANGED <<publisher, uplink, sfu>>
-----------------------------------------------------------------------------
Next ==
  \/ \E q \in Quality : \/ TakeFrame(q) \/ WriteRTP(q)
                        \/ \E f \in Frame : FrameArrives(q, f)
  \/ \E q \in Quality \cup {Nil} : SetTrackQuality(q)
  \/ \E p \in uplink : LosePacket(p) \/ ForwardPacket(p) \/ DropPacket(p)
  \/ \E d \in downlink : LoseForwarded(d) \/ ReceivePacket(d)

Spec == Init /\ [][Next]_vars
-----------------------------------------------------------------------------
(***************************************************************************)
(* The numbers of the outgoing stream tell the order in which its packets  *)
(* were sent, by the arithmetic of sequence numbers: across the wrap of    *)
(* the uint16 and across every change of the quality, after which the      *)
(* packets come from another publisher track.                              *)
(***************************************************************************)
NumbersInOrder ==
  \A d, e \in downlink :
    d.place < e.place =>
      /\ d.number # e.number
      /\ 2 * ((e.number - d.number) % SeqMod) < SeqMod

(***************************************************************************)
(* Who puts a frame together by quality and frame number, as the DLL of    *)
(* the subscriber must, gets a whole frame or none: when the lengths of    *)
(* the packets that arrived with one frame number of one quality add up to *)
(* the length they state, they are the bytes of one frame, each once.      *)
(***************************************************************************)
Of(q, n)  == {p \in arrived : p.quality = q /\ p.frameNr = n}
Bytes(p)  == p.seqOffset..(p.seqOffset + p.seqLen - 1)

\* The sum of the lengths: each packet brings its bytes.
TotalLen(ps) == Cardinality(UNION {{p} \X Bytes(p) : p \in ps})

IsWhole(ps) ==
  \E f \in Frame :
    /\ \A p \in ps : p.frame = f
    /\ \A b \in 0..(Length[f] - 1) : \E p \in ps : b \in Bytes(p)
    /\ \A p, r \in ps : p # r => Bytes(p) \cap Bytes(r) = {}

WholeWhenCounted ==
  \A q \in Quality, n \in FrameNr :
    (\E p \in Of(q, n) : TotalLen(Of(q, n)) = p.frameLen) => IsWhole(Of(q, n))

(***************************************************************************)
(* peer/main.go:380, "Allows to check if frames are received completely":  *)
(* while the subscriber keeps its quality, a frame whose count is complete *)
(* is whole, also after counts that began again.                           *)
(***************************************************************************)
CompleteIsWhole ==
  switches = 0 => \A r \in complete : IsWhole(Of(r[1], r[2]))
=============================================================================
