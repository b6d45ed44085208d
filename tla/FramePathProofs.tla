-------------------------- MODULE FramePathProofs --------------------------
(***************************************************************************)
(* Proofs about the path of frames, for every number of qualities, frames, *)
(* changes of quality and sequence numbers.                                *)
(***************************************************************************)
EXTENDS FramePath, PayloadProofs, FiniteSetTheorems, TLAPS

LEMMA Division ==
  ASSUME NEW n \in Int, NEW m \in Nat \ {0}
  PROVE  /\ (n % m) \in 0..(m - 1)
         /\ n \div m \in Int
         /\ n = (n \div m) * m + (n % m)
OBVIOUS

LEMMA Unique ==
  ASSUME NEW k \in Int, NEW m \in Nat \ {0}, NEW r \in 0..(m - 1)
  PROVE  (k * m + r) % m = r
<1> DEFINE n == k * m + r
           l == n \div m
           s == (n % m)
<1>1. n \in Int
  OBVIOUS
<1>2. s \in 0..(m - 1) /\ l \in Int /\ n = l * m + s
  BY <1>1, Division
<1>3. (k - l) * m = s - r
  BY <1>2
<1>4. k - l = 0
  <2>1. s - r < m /\ s - r > -m
    BY <1>2
  <2>2. ~(k - l >= 1)
    BY <1>2, <1>3, <2>1
  <2>3. ~(k - l <= -1)
    BY <1>2, <1>3, <2>1
  <2>4. QED BY <1>2, <2>2, <2>3
<1>5. QED BY <1>2, <1>3, <1>4

LEMMA Shift ==
  ASSUME NEW n \in Int, NEW k \in Int, NEW m \in Nat \ {0}
  PROVE  (n + k * m) % m = (n % m)
<1> DEFINE q == n \div m + k
           r == n % m
<1>1. r \in 0..(m - 1) /\ n \div m \in Int /\ n = (n \div m) * m + r
  BY Division
<1>2. q \in Int /\ n + k * m = q * m + r
  BY <1>1
<1> HIDE DEF q, r
<1>3. (q * m + r) % m = r
  BY <1>1, <1>2, Unique
<1>4. QED BY <1>2, <1>3 DEF r

LEMMA RemainderOfNext ==
  ASSUME NEW n \in Nat, NEW m \in Nat \ {0}
  PROVE  ((n % m) + 1) % m = (n + 1) % m
<1> DEFINE x == (n % m) + 1
           k == n \div m
<1>1. x \in Int /\ k \in Int /\ n + 1 = x + k * m
  BY Division
<1> HIDE DEF x, k
<1>2. (x + k * m) % m = x % m
  BY <1>1, Shift
<1>3. QED BY <1>1, <1>2 DEF x

LEMMA RemainderOfDifference ==
  ASSUME NEW a \in Nat, NEW b \in Nat, NEW m \in Nat \ {0}
  PROVE  ((b % m) - (a % m)) % m = (b - a) % m
<1>1. /\ (a % m) \in Int /\ a \div m \in Int /\ a = (a \div m) * m + (a % m)
      /\ (b % m) \in Int /\ b \div m \in Int /\ b = (b \div m) * m + (b % m)
  BY Division
<1> DEFINE k == b \div m - a \div m
           x == (b % m) - (a % m)
<1>2. k \in Int /\ x \in Int /\ b - a = x + k * m
  BY <1>1
<1> HIDE DEF k, x
<1>3. (x + k * m) % m = x % m
  BY <1>2, Shift
<1>4. QED BY <1>2, <1>3 DEF x
-----------------------------------------------------------------------------
\* The number of a packet is its place modulo SeqMod, and no packet under
\* way is half of the sequence numbers behind the last one.
NumberInv ==
  /\ forwarded \in Nat
  /\ seqNr = forwarded % SeqMod
  /\ \A d \in downlink :
       /\ d.place \in Nat
       /\ d.place < forwarded
       /\ d.number = d.place % SeqMod
       /\ 2 * (forwarded - 1 - d.place) < SeqMod

LEMMA InitNumber == Init => NumberInv
<1>1. 0 % SeqMod = 0
  <2>1. 0 * SeqMod + 0 = 0 /\ 0 \in 0..(SeqMod - 1)
    BY FramePathAssumption
  <2>2. QED BY <2>1, Unique, FramePathAssumption
<1>2. QED BY <1>1 DEF Init, NumberInv

LEMMA StepNumber == NumberInv /\ [Next]_vars => NumberInv'
<1> SUFFICES ASSUME NumberInv, [Next]_vars
             PROVE  NumberInv'
  OBVIOUS
<1> USE DEF NumberInv
\* Packets only leave the way to the subscriber.
<1>1. ASSUME UNCHANGED <<forwarded, seqNr>>, downlink' \subseteq downlink
      PROVE  NumberInv'
  BY <1>1
<1>2. ASSUME NEW p \in uplink, ForwardPacket(p)
      PROVE  NumberInv'
  <2>1. SeqMod \in Nat \ {0}
    BY FramePathAssumption
  <2>2. forwarded' = forwarded + 1 /\ seqNr' = (seqNr + 1) % SeqMod
    BY <1>2 DEF ForwardPacket, NextSeqNr
  <2>3. seqNr' = forwarded' % SeqMod
    BY <2>1, <2>2, RemainderOfNext
  <2>4. ASSUME NEW d \in downlink'
        PROVE  /\ d.place \in Nat
               /\ d.place < forwarded'
               /\ d.number = d.place % SeqMod
               /\ 2 * (forwarded' - 1 - d.place) < SeqMod
    <3>1. CASE d \in downlink
      BY <1>2, <2>1, <2>2, <3>1 DEF ForwardPacket, WithinWindow
    <3>2. CASE d = [number |-> seqNr, place |-> forwarded, packet |-> p]
      BY <2>1, <2>2, <3>2
    <3>3. QED BY <1>2, <2>4, <3>1, <3>2 DEF ForwardPacket
  <2>5. QED BY <2>2, <2>3, <2>4
<1>3. CASE UNCHANGED vars
  BY <1>1, <1>3 DEF vars, sfu
<1>4. ASSUME NEW q \in Quality, NEW f \in Frame,
             TakeFrame(q) \/ WriteRTP(q) \/ FrameArrives(q, f)
      PROVE  NumberInv'
  BY <1>1, <1>4 DEF TakeFrame, WriteRTP, FrameArrives, sfu
<1>5. ASSUME NEW q \in Quality, TakeFrame(q) \/ WriteRTP(q)
      PROVE  NumberInv'
  BY <1>1, <1>5 DEF TakeFrame, WriteRTP, sfu
<1>6. ASSUME NEW q \in Quality \cup {Nil}, SetTrackQuality(q)
      PROVE  NumberInv'
  BY <1>1, <1>6 DEF SetTrackQuality, SeqNrAfterReplace
<1>7. ASSUME NEW p \in uplink, LosePacket(p) \/ DropPacket(p)
      PROVE  NumberInv'
  BY <1>1, <1>7 DEF LosePacket, DropPacket, sfu
<1>8. ASSUME NEW d \in downlink, LoseForwarded(d) \/ ReceivePacket(d)
      PROVE  NumberInv'
  BY <1>1, <1>8 DEF LoseForwarded, ReceivePacket, sfu
<1>9. QED BY <1>2, <1>3, <1>4, <1>5, <1>6, <1>7, <1>8 DEF Next

LEMMA NumbersTellOrder == NumberInv => NumbersInOrder
<1> SUFFICES ASSUME NumberInv, NEW d \in downlink, NEW e \in downlink,
                    d.place < e.place
             PROVE  /\ d.number # e.number
                    /\ 2 * ((e.number - d.number) % SeqMod) < SeqMod
  BY DEF NumbersInOrder
<1> DEFINE m == e.place - d.place
<1>1. SeqMod \in Nat \ {0}
  BY FramePathAssumption
<1>2. /\ d.place \in Nat /\ e.place \in Nat
      /\ d.number = d.place % SeqMod /\ e.number = e.place % SeqMod
  BY DEF NumberInv
<1>3. m \in Nat /\ m > 0 /\ 2 * m < SeqMod
  <2>1. forwarded \in Nat /\ e.place < forwarded /\ 2 * (forwarded - 1 - d.place) < SeqMod
    BY DEF NumberInv
  <2>2. e.place <= forwarded - 1
    BY <1>2, <2>1
  <2>3. QED BY <1>1, <1>2, <2>1, <2>2
<1>4. m % SeqMod = m
  <2>1. m \in 0..(SeqMod - 1) /\ 0 * SeqMod + m = m
    BY <1>1, <1>3
  <2>2. QED BY <1>1, <2>1, Unique
<1>5. (e.number - d.number) % SeqMod = m
  <2>1. ((e.place % SeqMod) - (d.place % SeqMod)) % SeqMod = (e.place - d.place) % SeqMod
    BY <1>1, <1>2, RemainderOfDifference
  <2>2. QED BY <1>2, <1>4, <2>1
<1>6. d.number # e.number
  <2>1. SUFFICES ASSUME d.number = e.number PROVE FALSE
    OBVIOUS
  <2>2. d.number \in Int
    BY <1>1, <1>2, Division
  <2>3. 0 % SeqMod = 0
    <3>1. 0 * SeqMod + 0 = 0 /\ 0 \in 0..(SeqMod - 1)
      BY <1>1
    <3>2. QED BY <1>1, <3>1, Unique
  <2>4. e.number - d.number = 0
    BY <2>1, <2>2
  <2>5. QED BY <1>3, <1>5, <2>3, <2>4
<1>7. QED BY <1>3, <1>5, <1>6

(***************************************************************************)
(* Sequence numbers of the outgoing stream tell the order of its packets,  *)
(* across the wrap and across any number of quality changes, if the        *)
(* network delays no packet by half of the numbers                         *)
(* (sequence_number_interceptor.go:43-49).                                 *)
(***************************************************************************)
THEOREM NumbersInOrderHolds == Spec => []NumbersInOrder
<1>1. NumberInv => NumbersInOrder
  BY NumbersTellOrder
<1>2. QED BY <1>1, InitNumber, StepNumber, PTL DEF Spec
-----------------------------------------------------------------------------
(***************************************************************************)
(* The state stays within its types.                                       *)
(***************************************************************************)

\* A frame that is or was in a mailbox is spent, and the payloader counts
\* the frames that were taken.
BoxInv ==
  \A q \in Quality :
    /\ frameCounter[q] = Len(taken[q])
    /\ Len(taken[q]) <= Cardinality(spent[q])
    /\ box[q] # None => Len(taken[q]) < Cardinality(spent[q])

\* A packet is cut from the frame of its number.
CutFrom(sent, p) ==
  /\ p.frameNr < Len(sent[p.quality])
  /\ p.frame = sent[p.quality][p.frameNr + 1]
  /\ p.frameLen = Length[p.frame]
  /\ \E i \in 1..Fragments(PayloadSize, Length[p.frame]) :
       /\ p.seqOffset = SeqOffset(PayloadSize, i)
       /\ p.seqLen = SeqLen(PayloadSize, Length[p.frame], i)

Passed == {d.packet : d \in downlink}

PacketInv ==
  /\ \A q \in Quality : \A i \in DOMAIN packets[q] :
       CutFrom(taken, packets[q][i]) /\ packets[q][i].quality = q
  /\ \A p \in uplink \cup Passed \cup arrived : CutFrom(taken, p)

\* No packet is at two places of its way.
OnceInv ==
  /\ \A q \in Quality : \A i, j \in DOMAIN packets[q] :
       packets[q][i] = packets[q][j] => i = j
  /\ \A q \in Quality : \A i \in DOMAIN packets[q] :
       packets[q][i] \notin uplink \cup Passed \cup arrived
  /\ uplink \cap (Passed \cup arrived) = {}
  /\ Passed \cap arrived = {}
  /\ \A d, e \in downlink : d.packet = e.packet => d = e

\* While the quality stays, the subscriber counts the bytes of a frame that
\* arrived, or has begun again after all of them did.
CountInv ==
  switches = 0 =>
    /\ bound \in Quality
    /\ \A p \in Passed \cup arrived : p.quality = bound
    /\ \A n \in FrameNr :
         \/ frames[n] = TotalLen(Of(bound, n))
         \/ frames[n] = 0 /\ IsWhole(Of(bound, n))
    /\ \A r \in complete : IsWhole(Of(r[1], r[2]))

LEMMA Frames ==
  /\ IsFiniteSet(Frame)
  /\ Cardinality(Frame) = MaxFrames
  /\ None \notin Frame
  /\ \A f \in Frame : Length[f] \in Nat \ {0}
<1>1. MaxFrames \in Nat
  BY FramePathAssumption
<1>2. IsFiniteSet(Frame) /\ Cardinality(Frame) = MaxFrames
  BY <1>1, FS_Interval DEF Frame
<1>3. QED BY <1>2, FramePathAssumption

\* The packets that Payload makes of a frame.
LEMMA PayloadPackets ==
  ASSUME NEW q \in Quality, NEW f \in Frame, frameCounter[q] \in FrameNr
  PROVE  LET k == Fragments(PayloadSize, Length[f]) IN
         /\ k \in Nat
         /\ DOMAIN Payload(q, f) = 1..k
         /\ Payload(q, f) \in Seq(Packet)
         /\ \A i \in 1..k :
              /\ Payload(q, f)[i] \in Packet
              /\ Payload(q, f)[i].quality = q
              /\ Payload(q, f)[i].frame = f
              /\ Payload(q, f)[i].frameNr = frameCounter[q]
              /\ Payload(q, f)[i].frameLen = Length[f]
              /\ Payload(q, f)[i].seqOffset = SeqOffset(PayloadSize, i)
              /\ Payload(q, f)[i].seqLen = SeqLen(PayloadSize, Length[f], i)
<1> DEFINE k == Fragments(PayloadSize, Length[f])
           made(i) == [quality |-> q, frame |-> f, frameNr |-> frameCounter[q],
                       frameLen |-> Length[f],
                       seqOffset |-> SeqOffset(PayloadSize, i),
                       seqLen |-> SeqLen(PayloadSize, Length[f], i)]
<1>1. PayloadSize \in Nat \ {0} /\ Length[f] \in Nat
  BY Frames, FramePathAssumption
<1>2. k \in Nat
  BY <1>1, FragmentBounds
<1>3. Payload(q, f) = [i \in 1..k |-> made(i)]
  BY DEF Payload, Cut
<1>4. ASSUME NEW i \in 1..k
      PROVE  made(i) \in Packet
  <2>1. /\ SeqOffset(PayloadSize, i) \in 0..(Length[f] - 1)
        /\ SeqLen(PayloadSize, Length[f], i) \in 1..PayloadSize
    BY <1>1, FragmentSize
  <2>2. SeqOffset(PayloadSize, i) \in Byte
    BY <2>1 DEF Byte
  <2>3. QED BY <1>1, <2>1, <2>2 DEF Packet
<1> HIDE DEF k
<1>5. \A i \in 1..k : Payload(q, f)[i] = made(i)
  BY <1>3
<1>6. Payload(q, f) \in Seq(Packet)
  BY <1>2, <1>3, <1>4
<1>7. QED BY <1>2, <1>3, <1>4, <1>5, <1>6 DEF k
-----------------------------------------------------------------------------
PathInv == TypeOK /\ BoxInv /\ PacketInv

LEMMA InitPath == Init => PathInv
<1> SUFFICES ASSUME Init PROVE PathInv
  OBVIOUS
<1> USE FramePathAssumption DEF Init, Mailbox!Init
<1>1. BoxInv
  <2>1. \A q \in Quality : spent[q] = {} /\ box[q] = None /\ taken[q] = << >> /\ frameCounter[q] = 0
    OBVIOUS
  <2>2. QED BY <2>1, FS_EmptySet DEF BoxInv
<1>2. PacketInv
  BY DEF PacketInv, Passed
<1>3. TypeOK
  <2>1. /\ spent \in [Quality -> SUBSET Frame]
        /\ box \in [Quality -> Frame \cup {None}]
        /\ taken \in [Quality -> Seq(Frame)]
    OBVIOUS
  <2>2. frameCounter \in [Quality -> 0..MaxFrames] /\ packets \in [Quality -> Seq(Packet)]
    OBVIOUS
  <2>3. seqNr \in 0..(SeqMod - 1) /\ frames \in [FrameNr -> Nat] /\ switches \in 0..MaxSwitches
    OBVIOUS
  <2>4. QED BY <2>1, <2>2, <2>3 DEF TypeOK
<1>4. QED BY <1>1, <1>2, <1>3 DEF PathInv

\* A packet stays what it is, because frames that were taken stay in place.
LEMMA StaysCut ==
  ASSUME TypeOK, NEW q \in Quality, Mailbox!Take(q),
         NEW p \in Packet, CutFrom(taken, p)
  PROVE  CutFrom(taken', p)
<1>1. taken \in [Quality -> Seq(Frame)] /\ box[q] \in Frame
  BY DEF TypeOK, Mailbox!Take
<1>2. taken' = [taken EXCEPT ![q] = Append(@, box[q])]
  BY DEF Mailbox!Take
<1>3. p.quality \in Quality /\ p.frameNr \in Nat
  BY DEF Packet, FrameNr
<1>4. /\ p.frameNr < Len(taken'[p.quality])
      /\ taken'[p.quality][p.frameNr + 1] = taken[p.quality][p.frameNr + 1]
  <2>1. CASE p.quality = q
    BY <1>1, <1>2, <1>3, <2>1 DEF CutFrom
  <2>2. CASE p.quality # q
    BY <1>1, <1>2, <1>3, <2>2 DEF CutFrom
  <2>3. QED BY <2>1, <2>2
<1>5. QED BY <1>4 DEF CutFrom

LEMMA SpentFinite ==
  ASSUME TypeOK, NEW q \in Quality
  PROVE  /\ spent[q] \in SUBSET Frame
         /\ IsFiniteSet(spent[q])
         /\ Cardinality(spent[q]) \in 0..MaxFrames
<1>1. spent[q] \in SUBSET Frame
  BY DEF TypeOK
<1>2. IsFiniteSet(spent[q]) /\ Cardinality(spent[q]) <= MaxFrames
  BY <1>1, Frames, FS_Subset
<1>3. QED BY <1>1, <1>2, FS_CardinalityType, FramePathAssumption

LEMMA FrameArrivesPath ==
  ASSUME PathInv, NEW q \in Quality, NEW f \in Frame, FrameArrives(q, f)
  PROVE  PathInv'
<1> USE DEF PathInv
<1>1. /\ spent' = [spent EXCEPT ![q] = @ \cup {f}]
      /\ box' = [box EXCEPT ![q] = f]
      /\ f \notin spent[q]
      /\ UNCHANGED <<taken, frameCounter, packets, uplink, sfu, downlink, subscriber>>
  BY DEF FrameArrives, Mailbox!Put, Mailbox!Spend
<1>2. TypeOK'
  BY <1>1 DEF TypeOK, sfu, subscriber
<1>3. ASSUME NEW r \in Quality
      PROVE  /\ frameCounter'[r] = Len(taken'[r])
             /\ Len(taken'[r]) <= Cardinality(spent'[r])
             /\ box'[r] # None => Len(taken'[r]) < Cardinality(spent'[r])
  <2>1. /\ frameCounter[r] = Len(taken[r])
        /\ Len(taken[r]) <= Cardinality(spent[r])
        /\ box[r] # None => Len(taken[r]) < Cardinality(spent[r])
        /\ Len(taken[r]) \in Nat /\ Cardinality(spent[r]) \in Nat
    BY SpentFinite DEF BoxInv, TypeOK
  <2>2. CASE r = q
    <3>1. Cardinality(spent[q] \cup {f}) = Cardinality(spent[q]) + 1
      BY <1>1, SpentFinite, FS_AddElement
    <3>2. spent'[r] = spent[r] \cup {f}
      BY <1>1, <2>2 DEF TypeOK
    <3>3. Cardinality(spent'[r]) = Cardinality(spent[r]) + 1
      BY <2>2, <3>1, <3>2
    <3>4. taken'[r] = taken[r] /\ frameCounter'[r] = frameCounter[r]
      BY <1>1
    <3>5. QED BY <2>1, <3>3, <3>4
  <2>3. CASE r # q
    <3>1. spent'[r] = spent[r] /\ box'[r] = box[r]
      BY <1>1, <2>3 DEF TypeOK
    <3>2. QED BY <1>1, <2>1, <3>1
  <2>4. QED BY <2>2, <2>3
<1>4. PacketInv'
  BY <1>1 DEF PacketInv, Passed, subscriber
<1>5. QED BY <1>2, <1>3, <1>4 DEF BoxInv

LEMMA TakeFramePath ==
  ASSUME PathInv, NEW q \in Quality, TakeFrame(q)
  PROVE  PathInv'
<1> USE DEF PathInv
<1> DEFINE made == Payload(q, box[q])
<1>1. /\ box[q] \in Frame
      /\ taken' = [taken EXCEPT ![q] = Append(@, box[q])]
      /\ box' = [box EXCEPT ![q] = None]
      /\ frameCounter' = [frameCounter EXCEPT ![q] = frameCounter[q] + 1]
      /\ packets' = [packets EXCEPT ![q] = made]
      /\ UNCHANGED <<spent, uplink, sfu, downlink, subscriber>>
  BY DEF TakeFrame, Mailbox!Take, NextFrameNr, TypeOK
<1>2. frameCounter[q] \in FrameNr /\ frameCounter[q] = Len(taken[q])
  <2>1. frameCounter[q] = Len(taken[q]) /\ Len(taken[q]) < Cardinality(spent[q])
    BY <1>1, Frames DEF BoxInv
  <2>2. Len(taken[q]) \in Nat /\ Cardinality(spent[q]) \in 0..MaxFrames /\ MaxFrames \in Nat
    BY SpentFinite, FramePathAssumption DEF TypeOK
  <2>3. QED BY <2>1, <2>2 DEF FrameNr
<1>3. /\ made \in Seq(Packet)
      /\ \A i \in DOMAIN made :
           /\ made[i].quality = q
           /\ made[i].frame = box[q]
           /\ made[i].frameNr = frameCounter[q]
           /\ made[i].frameLen = Length[box[q]]
           /\ \E j \in 1..Fragments(PayloadSize, Length[box[q]]) :
                /\ made[i].seqOffset = SeqOffset(PayloadSize, j)
                /\ made[i].seqLen = SeqLen(PayloadSize, Length[box[q]], j)
  BY <1>1, <1>2, PayloadPackets
<1> HIDE DEF made
<1>4. TypeOK'
  <2>1. spent' \in [Quality -> SUBSET Frame] /\ box' \in [Quality -> Frame \cup {None}]
    BY <1>1 DEF TypeOK
  <2>2. taken' \in [Quality -> Seq(Frame)]
    BY <1>1 DEF TypeOK
  <2>3. frameCounter' \in [Quality -> 0..MaxFrames]
    <3>1. frameCounter[q] + 1 \in 0..MaxFrames
      BY <1>2, FramePathAssumption DEF FrameNr
    <3>2. QED BY <1>1, <3>1 DEF TypeOK
  <2>4. packets' \in [Quality -> Seq(Packet)]
    BY <1>1, <1>3 DEF TypeOK
  <2>5. QED BY <1>1, <2>1, <2>2, <2>3, <2>4 DEF TypeOK, sfu, subscriber
<1>5. ASSUME NEW r \in Quality
      PROVE  /\ frameCounter'[r] = Len(taken'[r])
             /\ Len(taken'[r]) <= Cardinality(spent'[r])
             /\ box'[r] # None => Len(taken'[r]) < Cardinality(spent'[r])
  <2>1. /\ frameCounter[r] = Len(taken[r])
        /\ Len(taken[r]) <= Cardinality(spent[r])
        /\ box[r] # None => Len(taken[r]) < Cardinality(spent[r])
        /\ taken[r] \in Seq(Frame) /\ Cardinality(spent[r]) \in Nat
    BY SpentFinite DEF BoxInv, TypeOK
  <2>2. CASE r = q
    <3>1. taken'[r] = Append(taken[r], box[r]) /\ box'[r] = None
          /\ frameCounter'[r] = frameCounter[r] + 1
      BY <1>1, <2>2 DEF TypeOK
    <3>2. box[r] # None /\ box[r] \in Frame
      BY <1>1, <2>2, Frames
    <3>3. Len(taken'[r]) = Len(taken[r]) + 1
      BY <2>1, <3>1, <3>2
    <3>4. QED BY <1>1, <2>1, <3>1, <3>2, <3>3
  <2>3. CASE r # q
    <3>1. taken'[r] = taken[r] /\ box'[r] = box[r] /\ frameCounter'[r] = frameCounter[r]
      BY <1>1, <2>3 DEF TypeOK
    <3>2. QED BY <1>1, <2>1, <3>1
  <2>4. QED BY <2>2, <2>3
<1>6. \A p \in Packet : CutFrom(taken, p) => CutFrom(taken', p)
  BY StaysCut DEF TakeFrame
<1>7. ASSUME NEW i \in DOMAIN made
      PROVE  CutFrom(taken', made[i]) /\ made[i].quality = q
  <2>1. taken'[q] = Append(taken[q], box[q]) /\ taken[q] \in Seq(Frame)
    BY <1>1 DEF TypeOK
  <2>2. Len(taken'[q]) = frameCounter[q] + 1 /\ taken'[q][frameCounter[q] + 1] = box[q]
    BY <1>1, <1>2, <2>1
  <2>3. frameCounter[q] \in Nat
    BY <1>2 DEF FrameNr
  <2>4. QED BY <1>3, <2>2, <2>3 DEF CutFrom
<1>8. ASSUME NEW r \in Quality, NEW i \in DOMAIN packets'[r]
      PROVE  CutFrom(taken', packets'[r][i]) /\ packets'[r][i].quality = r
  <2>1. CASE r = q
    <3>1. packets'[r] = made
      BY <1>1, <2>1 DEF TypeOK
    <3>2. QED BY <1>7, <1>8, <2>1, <3>1
  <2>2. CASE r # q
    <3>1. packets'[r] = packets[r]
      BY <1>1, <2>2 DEF TypeOK
    <3>2. packets[r][i] \in Packet
      BY <1>8, <3>1 DEF TypeOK
    <3>3. QED BY <1>6, <1>8, <3>1, <3>2 DEF PacketInv
  <2>3. QED BY <2>1, <2>2
<1>9. \A p \in (uplink \cup Passed \cup arrived)' : CutFrom(taken', p)
  <2>1. (uplink \cup Passed \cup arrived)' = uplink \cup Passed \cup arrived
    BY <1>1 DEF Passed, subscriber
  <2>2. uplink \cup Passed \cup arrived \subseteq Packet
    BY DEF TypeOK, Passed, Numbered
  <2>3. QED BY <1>6, <2>1, <2>2 DEF PacketInv
<1>10. QED BY <1>4, <1>5, <1>8, <1>9 DEF BoxInv, PacketInv

\* What it means for the packets of q to lose their first.
LEMMA FirstWritten ==
  ASSUME TypeOK, NEW q \in Quality, WriteRTP(q)
  PROVE  /\ Head(packets[q]) \in Packet
         /\ Head(packets[q]) = packets[q][1]
         /\ 1 \in DOMAIN packets[q]
         /\ uplink' = uplink \cup {packets[q][1]}
         /\ \A r \in Quality : r # q => packets'[r] = packets[r]
         /\ packets' \in [Quality -> Seq(Packet)]
         /\ \A i \in DOMAIN packets'[q] :
              i \in Nat /\ i + 1 \in DOMAIN packets[q] /\ packets'[q][i] = packets[q][i + 1]
<1>1. /\ packets \in [Quality -> Seq(Packet)] /\ packets[q] # << >>
      /\ packets' = [packets EXCEPT ![q] = Tail(@)]
      /\ uplink' = uplink \cup {Head(packets[q])}
  BY DEF WriteRTP, TypeOK
<1>2. /\ Head(packets[q]) \in Packet /\ Head(packets[q]) = packets[q][1]
      /\ 1 \in DOMAIN packets[q]
      /\ Tail(packets[q]) \in Seq(Packet)
      /\ \A i \in DOMAIN Tail(packets[q]) :
           i \in Nat /\ i + 1 \in DOMAIN packets[q] /\ Tail(packets[q])[i] = packets[q][i + 1]
  BY <1>1
<1>3. packets'[q] = Tail(packets[q])
  BY <1>1
<1>4. QED BY <1>1, <1>2, <1>3

LEMMA WriteRTPPath ==
  ASSUME PathInv, NEW q \in Quality, WriteRTP(q)
  PROVE  PathInv'
<1> USE DEF PathInv
<1>1. UNCHANGED <<spent, box, taken, frameCounter, sfu, downlink, subscriber>>
  BY DEF WriteRTP, mailbox
<1>2. TypeOK'
  <2>1. packets' \in [Quality -> Seq(Packet)]
    BY FirstWritten
  <2>2. uplink' \subseteq Packet
    BY FirstWritten DEF TypeOK
  <2>3. QED BY <1>1, <2>1, <2>2 DEF TypeOK, sfu, subscriber
<1>3. BoxInv'
  BY <1>1 DEF BoxInv
<1>4. ASSUME NEW r \in Quality, NEW i \in DOMAIN packets'[r]
      PROVE  CutFrom(taken', packets'[r][i]) /\ packets'[r][i].quality = r
  <2>1. CASE r = q
    BY <1>1, <1>4, <2>1, FirstWritten DEF PacketInv
  <2>2. CASE r # q
    BY <1>1, <1>4, <2>2, FirstWritten DEF PacketInv
  <2>3. QED BY <2>1, <2>2
<1>5. \A p \in (uplink \cup Passed \cup arrived)' : CutFrom(taken', p)
  <2>1. (uplink \cup Passed \cup arrived)' = uplink \cup Passed \cup arrived \cup {packets[q][1]}
    BY <1>1, FirstWritten DEF Passed, subscriber
  <2>2. QED BY <1>1, <2>1, FirstWritten DEF PacketInv
<1>6. QED BY <1>2, <1>3, <1>4, <1>5 DEF PacketInv

LEMMA RestPath ==
  ASSUME PathInv, UNCHANGED publisher, TypeOK',
         uplink' \cup Passed' \cup arrived' \subseteq uplink \cup Passed \cup arrived
  PROVE  PathInv'
BY DEF PathInv, publisher, mailbox, BoxInv, PacketInv

LEMMA StepPath == PathInv /\ [Next]_vars => PathInv'
<1> SUFFICES ASSUME PathInv, [Next]_vars
             PROVE  PathInv'
  OBVIOUS
<1> USE DEF PathInv, TypeOK, mailbox, publisher, sfu, subscriber, Passed
<1>1. CASE UNCHANGED vars
  BY <1>1, RestPath DEF vars
<1>2. CASE \E q \in Quality : \/ TakeFrame(q) \/ WriteRTP(q)
                              \/ \E f \in Frame : FrameArrives(q, f)
  BY <1>2, FrameArrivesPath, TakeFramePath, WriteRTPPath
<1>3. CASE \E q \in Quality \cup {Nil} : SetTrackQuality(q)
  <2>1. TypeOK' /\ UNCHANGED <<publisher, uplink, downlink, arrived>>
    BY <1>3, FramePathAssumption DEF SetTrackQuality, SeqNrAfterReplace
  <2>2. QED BY <2>1, RestPath
<1>4. CASE \E p \in uplink : LosePacket(p) \/ DropPacket(p)
  <2>1. TypeOK' /\ UNCHANGED <<publisher, downlink, arrived>> /\ uplink' \subseteq uplink
    BY <1>4 DEF LosePacket, DropPacket
  <2>2. QED BY <2>1, RestPath
<1>5. CASE \E p \in uplink : ForwardPacket(p)
  <2>1. PICK p \in uplink : ForwardPacket(p)
    BY <1>5
  <2>2. [number |-> seqNr, place |-> forwarded, packet |-> p] \in Numbered
    BY <2>1 DEF Numbered
  <2>3. seqNr' \in 0..(SeqMod - 1)
    <3>1. seqNr + 1 \in Int /\ SeqMod \in Nat \ {0} /\ seqNr' = (seqNr + 1) % SeqMod
      BY <2>1, FramePathAssumption DEF ForwardPacket, NextSeqNr
    <3>2. QED BY <3>1, Division
  <2>4. TypeOK'
    BY <2>1, <2>2, <2>3 DEF ForwardPacket
  <2>5. Passed' \subseteq Passed \cup {p}
    <3>1. downlink' = downlink \cup {[number |-> seqNr, place |-> forwarded, packet |-> p]}
      BY <2>1 DEF ForwardPacket
    <3>2. QED BY <3>1
  <2>6. UNCHANGED <<publisher, arrived>> /\ uplink' \subseteq uplink
    BY <2>1 DEF ForwardPacket
  <2>7. QED BY <2>4, <2>5, <2>6, RestPath
<1>6. CASE \E d \in downlink : LoseForwarded(d)
  <2>1. TypeOK' /\ UNCHANGED <<publisher, uplink, arrived>> /\ downlink' \subseteq downlink
    BY <1>6 DEF LoseForwarded
  <2>2. QED BY <2>1, RestPath
<1>7. CASE \E d \in downlink : ReceivePacket(d)
  <2>1. PICK d \in downlink : ReceivePacket(d)
    BY <1>7
  <2>2. /\ d.packet \in Packet /\ d.packet.frameNr \in FrameNr
        /\ d.packet.quality \in Quality /\ d.packet.seqLen \in Nat
    BY FramePathAssumption DEF Numbered, Packet
  <2>3. frames' \in [FrameNr -> Nat]
    <3>1. Counted(d.packet) \in Nat
      BY <2>2 DEF Counted
    <3>2. QED BY <2>1, <2>2, <3>1 DEF ReceivePacket
  <2>4. complete' \subseteq Quality \X FrameNr
    BY <2>1, <2>2 DEF ReceivePacket
  <2>5. arrived' = arrived \cup {d.packet} /\ downlink' = downlink \ {d} /\ UNCHANGED <<publisher, uplink, sfu>>
    BY <2>1 DEF ReceivePacket
  <2>6. TypeOK'
    BY <2>2, <2>3, <2>4, <2>5
  <2>7. QED BY <2>5, <2>6, RestPath
<1>8. QED BY <1>1, <1>2, <1>3, <1>4, <1>5, <1>6, <1>7 DEF Next

(***************************************************************************)
(* The counters, packets and numbers of the path stay in their ranges: in  *)
(* particular the frame numbers of the payloader (packet.go:77), of which  *)
(* there is one for each frame that was taken, and the offsets and lengths *)
(* that it writes into packets (packet.go:56-75).                          *)
(***************************************************************************)
THEOREM TypeCorrect == Spec => []TypeOK
<1>1. PathInv => TypeOK
  BY DEF PathInv
<1>2. QED BY <1>1, InitPath, StepPath, PTL DEF Spec
-----------------------------------------------------------------------------
(***************************************************************************)
(* Counting the bytes of a frame.                                          *)
(***************************************************************************)

LEMMA IntervalSize ==
  ASSUME NEW a \in Int, NEW n \in Nat
  PROVE  IsFiniteSet(a..(a + n - 1)) /\ Cardinality(a..(a + n - 1)) = n
<1>1. IsFiniteSet(a..(a + n - 1))
  BY FS_Interval
<1>2. Cardinality(a..(a + n - 1)) =
        IF a > a + n - 1 THEN 0 ELSE (a + n - 1) - a + 1
  BY FS_Interval
<1>3. CASE n = 0
  <2>1. a > a + n - 1
    BY <1>3
  <2>2. QED BY <1>1, <1>2, <1>3, <2>1
<1>4. CASE n # 0
  <2>1. ~(a > a + n - 1) /\ (a + n - 1) - a + 1 = n
    BY <1>4
  <2>2. QED BY <1>1, <1>2, <2>1
<1>5. QED BY <1>3, <1>4

\* Parts of one frame that share no byte.
Parts(ps) ==
  /\ \A p \in ps :
       /\ p.frame \in Frame
       /\ p.frameLen = Length[p.frame]
       /\ p.seqLen \in Nat
       /\ p.seqOffset \in Bytes(p)
       /\ Bytes(p) \subseteq 0..(p.frameLen - 1)
  /\ \A p, r \in ps :
       /\ p.frame = r.frame
       /\ Bytes(p) \cap Bytes(r) # {} => p = r

LEMMA PartsOfFrame ==
  ASSUME PathInv, NEW ps \in SUBSET (uplink \cup Passed \cup arrived),
         \A p, r \in ps : p.quality = r.quality /\ p.frameNr = r.frameNr
  PROVE  Parts(ps)
<1> USE DEF PathInv
<1>1. ASSUME NEW p \in ps
      PROVE  /\ p \in Packet /\ CutFrom(taken, p)
             /\ p.frame \in Frame /\ p.frameLen = Length[p.frame]
  <2>1. p \in Packet /\ CutFrom(taken, p)
    BY DEF TypeOK, PacketInv, Passed, Numbered
  <2>2. QED BY <2>1 DEF Packet, CutFrom
<1>2. ASSUME NEW p \in ps
      PROVE  \E i \in 1..Fragments(PayloadSize, Length[p.frame]) :
               /\ p.seqOffset = SeqOffset(PayloadSize, i)
               /\ p.seqLen = SeqLen(PayloadSize, Length[p.frame], i)
               /\ Bytes(p) = BytesIn(PayloadSize, Length[p.frame], i)
  <2>1. PICK i \in 1..Fragments(PayloadSize, Length[p.frame]) :
               /\ p.seqOffset = SeqOffset(PayloadSize, i)
               /\ p.seqLen = SeqLen(PayloadSize, Length[p.frame], i)
    BY <1>1 DEF CutFrom
  <2>2. Bytes(p) = BytesIn(PayloadSize, Length[p.frame], i)
    BY <2>1 DEF Bytes, BytesIn
  <2>3. QED BY <2>1, <2>2
<1>3. ASSUME NEW p \in ps
      PROVE  PayloadSize \in Nat \ {0} /\ Length[p.frame] \in Nat
  BY <1>1, Frames, FramePathAssumption
<1>4. ASSUME NEW p \in ps
      PROVE  /\ p.seqLen \in Nat /\ p.seqOffset \in Bytes(p)
             /\ Bytes(p) \subseteq 0..(p.frameLen - 1)
  <2>1. PICK i \in 1..Fragments(PayloadSize, Length[p.frame]) :
               /\ p.seqOffset = SeqOffset(PayloadSize, i)
               /\ p.seqLen = SeqLen(PayloadSize, Length[p.frame], i)
    BY <1>2
  <2>2. /\ p.seqOffset \in 0..(Length[p.frame] - 1)
        /\ p.seqLen \in 1..PayloadSize
        /\ p.seqOffset + p.seqLen <= Length[p.frame]
    BY <1>3, <2>1, FragmentSize
  <2>3. QED BY <1>1, <1>3, <2>2 DEF Bytes
<1>5. ASSUME NEW p \in ps, NEW r \in ps
      PROVE  p.frame = r.frame
  BY <1>1 DEF CutFrom
<1>6. ASSUME NEW p \in ps, NEW r \in ps, Bytes(p) \cap Bytes(r) # {}
      PROVE  p = r
  <2> DEFINE k == Fragments(PayloadSize, Length[p.frame])
  <2>1. PICK i \in 1..k : /\ p.seqOffset = SeqOffset(PayloadSize, i)
                          /\ p.seqLen = SeqLen(PayloadSize, Length[p.frame], i)
                          /\ Bytes(p) = BytesIn(PayloadSize, Length[p.frame], i)
    BY <1>2
  <2>2. PICK j \in 1..k : /\ r.seqOffset = SeqOffset(PayloadSize, j)
                          /\ r.seqLen = SeqLen(PayloadSize, Length[p.frame], j)
                          /\ Bytes(r) = BytesIn(PayloadSize, Length[p.frame], j)
    BY <1>2, <1>5
  <2>3. i = j
    BY <1>3, <1>6, <2>1, <2>2, FragmentsDiffer
  <2>4. /\ p \in Packet /\ r \in Packet /\ p.quality = r.quality /\ p.frame = r.frame
        /\ p.frameNr = r.frameNr /\ p.frameLen = r.frameLen
        /\ p.seqOffset = r.seqOffset /\ p.seqLen = r.seqLen
    BY <1>1, <1>5, <2>1, <2>2, <2>3
  <2>5. QED BY <2>4 DEF Packet
<1>7. QED BY <1>1, <1>4, <1>5, <1>6 DEF Parts

\* Parts are finite, and their lengths add up to the length of the frame
\* only when they are all of it.
LEMMA PartsCounted ==
  ASSUME NEW ps, Parts(ps), NEW r \in ps
  PROVE  /\ IsFiniteSet(UNION {{p} \X Bytes(p) : p \in ps})
         /\ TotalLen(ps) = r.frameLen => IsWhole(ps)
<1> DEFINE T == UNION {{p} \X Bytes(p) : p \in ps}
           B == 0..(r.frameLen - 1)
           g == [t \in T |-> t[2]]
<1>1. r.frame \in Frame /\ r.frameLen = Length[r.frame] /\ r.frameLen \in Nat
  BY Frames DEF Parts
<1>2. \A p \in ps : Bytes(p) \subseteq B
  BY <1>1 DEF Parts
<1>3. \A p \in ps, s \in ps : Bytes(p) \cap Bytes(s) # {} => p = s
  BY DEF Parts
<1>4. \A t \in T : \E p \in ps : t[1] = p /\ t[2] \in Bytes(p) /\ t = <<t[1], t[2]>>
  OBVIOUS
<1>5. IsFiniteSet(B) /\ Cardinality(B) = r.frameLen
  <2>1. B = 0..(0 + r.frameLen - 1)
    BY <1>1
  <2>2. QED BY <1>1, <2>1, IntervalSize
<1>6. g \in Injection(T, B)
  <2>1. g \in [T -> B]
    BY <1>2, <1>4
  <2>2. ASSUME NEW t \in T, NEW u \in T, g[t] = g[u]
        PROVE  t = u
    BY <1>3, <1>4, <2>2
  <2>3. QED BY <2>1, <2>2 DEF Injection, IsInjective
<1> HIDE DEF B
<1>7. IsFiniteSet(T) /\ (Cardinality(T) = Cardinality(B) => g \in Surjection(T, B))
  BY <1>5, <1>6, FS_Injection
<1>8. ASSUME Cardinality(T) = r.frameLen
      PROVE  IsWhole(ps)
  <2>1. g \in Surjection(T, B)
    BY <1>5, <1>7, <1>8
  <2>2. ASSUME NEW b \in B
        PROVE  \E p \in ps : b \in Bytes(p)
    <3>1. PICK t \in T : g[t] = b
      BY <2>1 DEF Surjection
    <3>2. QED BY <1>4, <3>1
  <2>3. \A p \in ps : p.frame = r.frame
    BY DEF Parts
  <2>4. \A b \in 0..(Length[r.frame] - 1) : \E p \in ps : b \in Bytes(p)
    BY <1>1, <2>2 DEF B
  <2>5. QED BY <1>1, <1>3, <2>3, <2>4 DEF IsWhole
<1>9. QED BY <1>7, <1>8 DEF TotalLen

LEMMA CountsOnlyWhole == PathInv => WholeWhenCounted
<1> SUFFICES ASSUME PathInv, NEW q \in Quality, NEW n \in FrameNr,
                    NEW p \in Of(q, n), TotalLen(Of(q, n)) = p.frameLen
             PROVE  IsWhole(Of(q, n))
  BY DEF WholeWhenCounted
<1>1. Parts(Of(q, n))
  BY PartsOfFrame DEF Of
<1>2. QED BY <1>1, PartsCounted

(***************************************************************************)
(* A frame put together by quality and frame number is whole when its      *)
(* bytes add up, for every length and number of frames, whatever the       *)
(* network loses or reorders and however often the quality changes: the    *)
(* payloader numbers no two frames alike (packet.go:77), and its packets   *)
(* share no byte (packet.go:56-75).                                        *)
(***************************************************************************)
THEOREM WholeWhenCountedHolds == Spec => []WholeWhenCounted
BY CountsOnlyWhole, InitPath, StepPath, PTL DEF Spec
-----------------------------------------------------------------------------
(***************************************************************************)
(* Each packet goes its way once.                                          *)
(***************************************************************************)

LEMMA InitOnce == Init => OnceInv
<1> SUFFICES ASSUME Init PROVE OnceInv
  OBVIOUS
<1>1. \A q \in Quality : packets[q] = << >>
  BY DEF Init
<1>2. uplink = {} /\ Passed = {} /\ arrived = {} /\ downlink = {}
  BY DEF Init, Passed
<1>3. QED BY <1>1, <1>2 DEF OnceInv

\* A new packet has a number that no packet has yet.
LEMMA TakeFrameOnce ==
  ASSUME PathInv, PathInv', OnceInv, NEW q \in Quality, TakeFrame(q)
  PROVE  OnceInv'
<1> USE DEF PathInv
<1> DEFINE made == Payload(q, box[q])
           k == Fragments(PayloadSize, Length[box[q]])
<1>1. /\ box[q] \in Frame
      /\ packets' = [packets EXCEPT ![q] = made]
      /\ frameCounter' = [frameCounter EXCEPT ![q] = frameCounter[q] + 1]
      /\ UNCHANGED <<uplink, downlink, arrived>>
  BY DEF TakeFrame, Mailbox!Take, NextFrameNr, subscriber, TypeOK
<1>2. frameCounter[q] \in FrameNr /\ frameCounter[q] = Len(taken[q])
  <2>1. frameCounter[q] + 1 \in 0..MaxFrames
    BY <1>1 DEF TypeOK
  <2>2. frameCounter[q] \in 0..MaxFrames /\ frameCounter[q] = Len(taken[q]) /\ MaxFrames \in Nat
    BY FramePathAssumption DEF TypeOK, BoxInv
  <2>3. QED BY <2>1, <2>2 DEF FrameNr
<1>3. /\ DOMAIN made = 1..k
      /\ \A i \in 1..k : /\ made[i].seqOffset = SeqOffset(PayloadSize, i)
                         /\ made[i].quality = q
                         /\ made[i].frameNr = frameCounter[q]
  BY <1>1, <1>2, PayloadPackets
<1> HIDE DEF made, k
<1>4. ASSUME NEW i \in DOMAIN made, NEW j \in DOMAIN made, made[i] = made[j]
      PROVE  i = j
  <2>1. SeqOffset(PayloadSize, i) = SeqOffset(PayloadSize, j)
    BY <1>3, <1>4
  <2>2. PayloadSize \in Nat \ {0} /\ Length[box[q]] \in Nat
    BY <1>1, Frames, FramePathAssumption
  <2>3. QED BY <1>3, <2>1, <2>2, FragmentsDiffer DEF k
<1>5. ASSUME NEW p \in uplink \cup Passed \cup arrived, NEW i \in DOMAIN made
      PROVE  p # made[i]
  <2>1. CutFrom(taken, p)
    BY DEF PacketInv
  <2>2. p.quality = q => p.frameNr < frameCounter[q]
    BY <1>2, <2>1 DEF CutFrom
  <2>3. frameCounter[q] \in Nat
    BY <1>2 DEF FrameNr
  <2>4. QED BY <1>3, <2>2, <2>3
<1>6. ASSUME NEW r \in Quality
      PROVE  /\ \A i, j \in DOMAIN packets'[r] : packets'[r][i] = packets'[r][j] => i = j
             /\ \A i \in DOMAIN packets'[r] : packets'[r][i] \notin uplink \cup Passed \cup arrived
  <2>1. CASE r = q
    <3>1. packets'[r] = made
      BY <1>1, <2>1 DEF TypeOK
    <3>2. QED BY <1>4, <1>5, <3>1
  <2>2. CASE r # q
    <3>1. packets'[r] = packets[r]
      BY <1>1, <2>2 DEF TypeOK
    <3>2. QED BY <3>1 DEF OnceInv
  <2>3. QED BY <2>1, <2>2
<1>7. Passed' = Passed
  BY <1>1 DEF Passed
<1>8. QED BY <1>1, <1>6, <1>7 DEF OnceInv

LEMMA WriteRTPOnce ==
  ASSUME PathInv, OnceInv, NEW q \in Quality, WriteRTP(q)
  PROVE  OnceInv'
<1>1. UNCHANGED <<downlink, arrived>> /\ Passed' = Passed
  BY DEF WriteRTP, subscriber, Passed
<1>2. /\ 1 \in DOMAIN packets[q]
      /\ uplink' = uplink \cup {packets[q][1]}
      /\ \A i \in DOMAIN packets'[q] :
           i \in Nat /\ i + 1 \in DOMAIN packets[q] /\ packets'[q][i] = packets[q][i + 1]
      /\ \A r \in Quality : r # q => packets'[r] = packets[r]
  BY FirstWritten DEF PathInv
<1>3. ASSUME NEW r \in Quality, r # q, NEW i \in DOMAIN packets[r]
      PROVE  packets[r][i] # packets[q][1]
  BY <1>2, <1>3 DEF PathInv, PacketInv
<1>4. ASSUME NEW r \in Quality
      PROVE  /\ \A i, j \in DOMAIN packets'[r] : packets'[r][i] = packets'[r][j] => i = j
             /\ \A i \in DOMAIN packets'[r] : packets'[r][i] \notin uplink' \cup Passed \cup arrived
  <2>1. CASE r = q
    <3>1. ASSUME NEW i \in DOMAIN packets'[q]
          PROVE  /\ packets'[q][i] \notin uplink \cup Passed \cup arrived
                 /\ packets'[q][i] # packets[q][1]
                 /\ \A j \in DOMAIN packets'[q] : packets'[q][i] = packets'[q][j] => i = j
      <4>1. i \in Nat /\ i + 1 \in DOMAIN packets[q] /\ packets'[q][i] = packets[q][i + 1]
        BY <1>2, <3>1
      <4>2. /\ \A a, b \in DOMAIN packets[q] : packets[q][a] = packets[q][b] => a = b
            /\ \A a \in DOMAIN packets[q] : packets[q][a] \notin uplink \cup Passed \cup arrived
        BY DEF OnceInv
      <4>3. i + 1 # 1 /\ i # 0
        <5>1. packets \in [Quality -> Seq(Packet)] /\ packets' \in [Quality -> Seq(Packet)]
          BY FirstWritten DEF PathInv, TypeOK
        <5>2. i >= 1
          BY <3>1, <5>1
        <5>3. QED BY <4>1, <5>2
      <4>4. ASSUME NEW j \in DOMAIN packets'[q], packets'[q][i] = packets'[q][j]
            PROVE  i = j
        <5>1. j \in Nat /\ j + 1 \in DOMAIN packets[q] /\ packets'[q][j] = packets[q][j + 1]
          BY <1>2, <4>4
        <5>2. i + 1 = j + 1
          BY <4>1, <4>2, <4>4, <5>1
        <5>3. QED BY <4>1, <5>1, <5>2
      <4>5. QED BY <1>2, <4>1, <4>2, <4>3, <4>4
    <3>2. QED BY <1>2, <2>1, <3>1
  <2>2. CASE r # q
    BY <1>2, <1>3, <2>2 DEF OnceInv
  <2>3. QED BY <2>1, <2>2
<1>5. packets[q][1] \notin uplink \cup Passed \cup arrived
  BY <1>2 DEF OnceInv
<1>6. QED BY <1>1, <1>2, <1>4, <1>5 DEF OnceInv

LEMMA StepOnce ==
  ASSUME PathInv, PathInv', OnceInv, [Next]_vars
  PROVE  OnceInv'
<1>1. CASE UNCHANGED <<packets, uplink, downlink, arrived>>
  BY <1>1 DEF OnceInv, Passed
<1>2. CASE \E q \in Quality : TakeFrame(q) \/ WriteRTP(q)
  BY <1>2, TakeFrameOnce, WriteRTPOnce
<1>3. CASE \E p \in uplink : LosePacket(p) \/ DropPacket(p)
  BY <1>3 DEF LosePacket, DropPacket, publisher, subscriber, OnceInv, Passed
<1>4. CASE \E p \in uplink : ForwardPacket(p)
  <2>1. PICK p \in uplink : ForwardPacket(p)
    BY <1>4
  <2> DEFINE e == [number |-> seqNr, place |-> forwarded, packet |-> p]
  <2>2. /\ downlink' = downlink \cup {e} /\ e.packet = p
        /\ uplink' = uplink \ {p} /\ UNCHANGED <<packets, arrived>>
    BY <2>1 DEF ForwardPacket, publisher, subscriber
  <2> HIDE DEF e
  <2>3. Passed' = Passed \cup {p}
    BY <2>2 DEF Passed
  <2>4. p \notin Passed
    BY DEF OnceInv
  <2>5. \A d, c \in downlink' : d.packet = c.packet => d = c
    BY <2>2, <2>4 DEF OnceInv, Passed
  <2>6. QED BY <2>2, <2>3, <2>4, <2>5 DEF OnceInv
<1>5. CASE \E d \in downlink : LoseForwarded(d)
  <2>1. /\ downlink' \subseteq downlink /\ Passed' \subseteq Passed
        /\ UNCHANGED <<packets, uplink, arrived>>
    BY <1>5 DEF LoseForwarded, Passed, publisher, subscriber
  <2>2. QED BY <2>1 DEF OnceInv
<1>6. CASE \E d \in downlink : ReceivePacket(d)
  <2>1. PICK d \in downlink : ReceivePacket(d)
    BY <1>6
  <2>2. /\ downlink' = downlink \ {d} /\ arrived' = arrived \cup {d.packet}
        /\ UNCHANGED <<packets, uplink>>
    BY <2>1 DEF ReceivePacket, publisher
  <2>3. Passed' = Passed \ {d.packet} /\ d.packet \in Passed
    <3>1. \A e \in downlink : e.packet = d.packet => e = d
      BY DEF OnceInv
    <3>2. QED BY <2>2, <3>1 DEF Passed
  <2>4. QED BY <2>2, <2>3 DEF OnceInv
<1>7. QED BY <1>1, <1>2, <1>3, <1>4, <1>5, <1>6 DEF Next, vars, FrameArrives,
       SetTrackQuality, publisher, mailbox, subscriber
-----------------------------------------------------------------------------
(***************************************************************************)
(* The counts of the subscriber.                                           *)
(***************************************************************************)

LEMMA NothingCounted == TotalLen({}) = 0
BY FS_EmptySet DEF TotalLen

LEMMA InitCount == Init => CountInv
<1> SUFFICES ASSUME Init PROVE CountInv
  OBVIOUS
<1>1. /\ bound \in Quality /\ Passed = {} /\ arrived = {} /\ complete = {}
      /\ \A n \in FrameNr : frames[n] = 0
  BY DEF Init, Passed
<1>2. \A n \in FrameNr : Of(bound, n) = {}
  BY <1>1 DEF Of
<1>3. QED BY <1>1, <1>2, NothingCounted DEF CountInv

\* One part more.
LEMMA OneMore ==
  ASSUME NEW ps, NEW p, p \notin ps, Parts(ps \cup {p})
  PROVE  /\ TotalLen(ps) \in Nat
         /\ TotalLen(ps \cup {p}) = TotalLen(ps) + p.seqLen
         /\ ~IsWhole(ps)
<1> DEFINE T(s) == UNION {{r} \X Bytes(r) : r \in s}
<1>1. /\ p.seqLen \in Nat /\ p.seqOffset \in Int /\ p.seqOffset \in Bytes(p)
      /\ p.frame \in Frame /\ Bytes(p) \subseteq 0..(Length[p.frame] - 1)
  BY DEF Parts
<1>2. IsFiniteSet(Bytes(p)) /\ Cardinality(Bytes(p)) = p.seqLen
  BY <1>1, IntervalSize DEF Bytes
<1>3. IsFiniteSet({p} \X Bytes(p)) /\ Cardinality({p} \X Bytes(p)) = p.seqLen
  <2>1. IsFiniteSet({p}) /\ Cardinality({p}) = 1
    BY FS_Singleton
  <2>2. QED BY <1>1, <1>2, <2>1, FS_Product
<1>4. T(ps \cup {p}) = T(ps) \cup ({p} \X Bytes(p))
  OBVIOUS
<1>5. T(ps) \cap ({p} \X Bytes(p)) = {}
  OBVIOUS
<1>6. IsFiniteSet(T(ps))
  <2>1. IsFiniteSet(T(ps \cup {p}))
    BY PartsCounted
  <2>2. QED BY <1>4, <2>1, FS_Subset
<1>7. Cardinality(T(ps)) \in Nat
  BY <1>6, FS_CardinalityType
<1>8. Cardinality(T(ps \cup {p})) = Cardinality(T(ps)) + p.seqLen
  <2> DEFINE X == {p} \X Bytes(p)
             before == Cardinality(T(ps))
             common == Cardinality(T(ps) \cap X)
             after == Cardinality(T(ps) \cup X)
  <2>1. after = before + p.seqLen - common
    BY <1>3, <1>6, FS_Union
  <2>2. common = 0
    BY <1>5, FS_EmptySet
  <2>3. before \in Nat /\ p.seqLen \in Nat
    BY <1>1, <1>7
  <2>4. Cardinality(T(ps \cup {p})) = after
    BY <1>4
  <2> HIDE DEF before, common, after
  <2>5. after = before + p.seqLen
    BY <2>1, <2>2, <2>3
  <2>6. QED BY <2>4, <2>5 DEF before
<1>9. ASSUME IsWhole(ps)
      PROVE  FALSE
  <2>1. PICK f \in Frame : /\ \A r \in ps : r.frame = f
                           /\ \A b \in 0..(Length[f] - 1) : \E r \in ps : b \in Bytes(r)
    BY <1>9 DEF IsWhole
  <2>2. 0 \in 0..(Length[f] - 1)
    BY Frames
  <2>3. p.frame = f
    BY <2>1, <2>2 DEF Parts
  <2>4. PICK r \in ps : p.seqOffset \in Bytes(r)
    BY <1>1, <2>1, <2>3
  <2>5. QED BY <1>1, <2>4 DEF Parts
<1>10. QED BY <1>7, <1>8, <1>9 DEF TotalLen

LEMMA ReceiveCount ==
  ASSUME PathInv, OnceInv, CountInv, NEW d \in downlink, ReceivePacket(d)
  PROVE  CountInv'
<1> SUFFICES ASSUME switches' = 0
             PROVE  CountInv'
  BY DEF CountInv
<1> USE DEF PathInv
<1> DEFINE p == d.packet
           n == p.frameNr
           ps == Of(bound, n)
<1>1. /\ switches = 0
      /\ UNCHANGED <<bound, switches>>
      /\ downlink' \subseteq downlink
      /\ arrived' = arrived \cup {p}
      /\ complete' = complete \cup {r \in {<<p.quality, n>>} : Counted(p) = p.frameLen}
      /\ frames' = [frames EXCEPT ![n] =
           IF Counted(p) = p.frameLen /\ n % 100 = 0 THEN 0 ELSE Counted(p)]
  BY DEF ReceivePacket, sfu
<1>2. /\ p \in Passed /\ p \in Packet /\ p.quality = bound /\ p \notin arrived /\ n \in FrameNr
      /\ bound \in Quality
  <2>1. p \in Passed
    BY DEF Passed
  <2>2. p \in Packet
    BY DEF TypeOK, Numbered
  <2>3. QED BY <1>1, <2>1, <2>2 DEF CountInv, OnceInv, Packet
<1> HIDE DEF p, n
<1>3. /\ Of(bound, n)' = ps \cup {p}
      /\ \A q \in Quality, m \in FrameNr : q # bound \/ m # n => Of(q, m)' = Of(q, m)
  BY <1>1, <1>2 DEF Of, n
<1>4. Parts(ps \cup {p}) /\ p \notin ps
  <2>1. ps \cup {p} \in SUBSET (uplink \cup Passed \cup arrived)
    BY <1>2 DEF Of
  <2>2. \A r \in ps \cup {p} : r.quality = bound /\ r.frameNr = n
    BY <1>2 DEF Of, n
  <2>3. p \notin ps
    BY <1>2 DEF Of
  <2>4. QED BY <2>1, <2>2, <2>3, PartsOfFrame
<1>5. Counted(p) = TotalLen(ps \cup {p})
  <2>1. frames[n] = TotalLen(ps)
    BY <1>1, <1>2, <1>4, OneMore DEF CountInv
  <2>2. QED BY <1>4, <2>1, OneMore DEF Counted, n
<1>6. Counted(p) = p.frameLen => IsWhole(ps \cup {p})
  BY <1>4, <1>5, PartsCounted
<1>7. \A r \in Passed' \cup arrived' : r.quality = bound'
  BY <1>1, <1>2 DEF CountInv, Passed
<1>8. ASSUME NEW m \in FrameNr
      PROVE  \/ frames'[m] = TotalLen(Of(bound, m)')
             \/ frames'[m] = 0 /\ IsWhole(Of(bound, m)')
  <2>1. CASE m = n
    <3>1. frames'[m] = IF Counted(p) = p.frameLen /\ n % 100 = 0 THEN 0 ELSE Counted(p)
      BY <1>1, <2>1 DEF TypeOK
    <3>2. Of(bound, m)' = ps \cup {p}
      BY <1>3, <2>1
    <3>3. QED BY <1>5, <1>6, <3>1, <3>2
  <2>2. CASE m # n
    <3>1. frames'[m] = frames[m]
      BY <1>1, <2>2 DEF TypeOK
    <3>2. Of(bound, m)' = Of(bound, m)
      BY <1>1, <1>2, <2>2 DEF Of, n
    <3>3. QED BY <1>1, <3>1, <3>2 DEF CountInv
  <2>3. QED BY <2>1, <2>2
<1>9. ASSUME NEW r \in complete'
      PROVE  IsWhole(Of(r[1], r[2])')
  <2>1. CASE r = <<bound, n>>
    <3>1. CASE r \in complete
      BY <1>1, <1>4, <2>1, <3>1, OneMore DEF CountInv
    <3>2. CASE r \notin complete
      BY <1>1, <1>3, <1>6, <1>9, <2>1, <3>2
    <3>3. QED BY <3>1, <3>2
  <2>2. CASE r # <<bound, n>>
    <3>1. r \in complete
      BY <1>1, <1>2, <1>9, <2>2
    <3>2. r[1] \in Quality /\ r[2] \in FrameNr /\ r = <<r[1], r[2]>>
      BY <3>1 DEF TypeOK
    <3>3. Of(r[1], r[2])' = Of(r[1], r[2])
      BY <1>3, <2>2, <3>2
    <3>4. QED BY <1>1, <3>1, <3>3 DEF CountInv
  <2>3. QED BY <2>1, <2>2
<1>10. QED BY <1>1, <1>2, <1>7, <1>8, <1>9 DEF CountInv

LEMMA StepCount ==
  ASSUME PathInv, OnceInv, CountInv, [Next]_vars
  PROVE  CountInv'
<1>1. ASSUME UNCHANGED <<bound, switches, subscriber>>,
             \A p \in Passed' : p \in Passed \/ p.quality = bound
      PROVE  CountInv'
  BY <1>1 DEF CountInv, subscriber, Of
<1>2. CASE UNCHANGED vars
  BY <1>1, <1>2 DEF vars, sfu, Passed
<1>3. CASE \E q \in Quality : \/ TakeFrame(q) \/ WriteRTP(q)
                              \/ \E f \in Frame : FrameArrives(q, f)
  BY <1>1, <1>3 DEF TakeFrame, WriteRTP, FrameArrives, sfu, Passed
<1>4. CASE \E q \in Quality \cup {Nil} : SetTrackQuality(q)
  <2>1. switches' = switches + 1 /\ switches \in Nat
    BY <1>4, FramePathAssumption DEF SetTrackQuality, PathInv, TypeOK
  <2>2. switches' # 0
    BY <2>1
  <2>3. QED BY <2>2 DEF CountInv
<1>5. CASE \E p \in uplink : LosePacket(p) \/ DropPacket(p)
  BY <1>1, <1>5 DEF LosePacket, DropPacket, sfu, Passed
<1>6. CASE \E p \in uplink : ForwardPacket(p)
  BY <1>1, <1>6 DEF ForwardPacket, Passed
<1>7. CASE \E d \in downlink : LoseForwarded(d)
  BY <1>1, <1>7 DEF LoseForwarded, sfu, Passed
<1>8. CASE \E d \in downlink : ReceivePacket(d)
  BY <1>8, ReceiveCount
<1>9. QED BY <1>2, <1>3, <1>4, <1>5, <1>6, <1>7, <1>8 DEF Next

(***************************************************************************)
(* A frame whose count is complete is whole while the subscriber keeps its *)
(* quality (OnTrack, peer/main.go:370-385), also where a count began again *)
(* at a hundredth frame: no packet arrives twice, and after a whole frame  *)
(* none of its packets is left to be counted.                              *)
(***************************************************************************)
THEOREM CompleteIsWholeHolds == Spec => []CompleteIsWhole
<1>1. CountInv => CompleteIsWhole
  BY DEF CountInv, CompleteIsWhole
<1>2. QED BY <1>1, InitPath, StepPath, InitOnce, StepOnce, InitCount, StepCount,
             PTL DEF Spec
=============================================================================
