------------------------- MODULE FrameBufferProofs -------------------------
(***************************************************************************)
(* Proofs about the frame buffer of the peer, for all streams, lengths and *)
(* numbers of frames, and however often the connection becomes Connected.  *)
(***************************************************************************)
EXTENDS FrameBuffer, FiniteSetTheorems, SequenceTheorems, TLAPS

(***************************************************************************)
(* The inductive invariant.  The code counts lengths; a count is the       *)
(* number of offsets that were written because no datagram arrives twice:  *)
(* what is in a buffer is not in flight.                                   *)
(***************************************************************************)
Filled(tile) == {o \in Offset(tile.frame) : tile.data[o] # None}

EntryOK(s, f) ==
  LET tile == incomplete[s][f] IN
  /\ f <= sent[s]
  /\ tile.currentLen = Cardinality(Filled(tile))
  /\ tile.currentLen < Length[f]
  /\ \A o \in Filled(tile) : /\ tile.data[o] = Piece(s, f, o)
                             /\ Piece(s, f, o) \notin inFlight

Counted == \A s \in Stream, f \in Frame : incomplete[s][f] # None => EntryOK(s, f)

FlyingWasSent == \A d \in inFlight : d.frame <= sent[d.stream]

DataInv == TypeOK /\ Counted /\ FlyingWasSent
-----------------------------------------------------------------------------
(***************************************************************************)
(* Facts about datagrams and frames.                                       *)
(***************************************************************************)

LEMMA Offsets ==
  ASSUME NEW f \in Frame
  PROVE  /\ Length[f] \in Nat \ {0}
         /\ Offset(f) \subseteq Nat
         /\ 0 \in Offset(f)
         /\ IsFiniteSet(Offset(f))
         /\ Cardinality(Offset(f)) = Length[f]
<1>1. Length[f] \in Nat \ {0}
  BY FrameBufferAssumption
<1>2. /\ IsFiniteSet(Offset(f))
      /\ Cardinality(Offset(f)) = Length[f]
  <2> DEFINE n == Length[f] - 1
  <2>1. n \in Int /\ ~(0 > n) /\ n - 0 + 1 = Length[f]
    BY <1>1
  <2> HIDE DEF n
  <2>2. IsFiniteSet(0..n) /\ Cardinality(0..n) = n - 0 + 1
    BY <2>1, FS_Interval
  <2>3. Offset(f) = 0..n
    BY DEF Offset, n
  <2> QED BY <2>1, <2>2, <2>3
<1> QED BY <1>1, <1>2 DEF Offset

LEMMA Pieces ==
  /\ \A s \in Stream, f \in Frame : \A o \in Offset(f) :
       Piece(s, f, o) \in Datagram /\ Piece(s, f, o) # None
  /\ \A d \in Datagram :
       /\ d.stream \in Stream
       /\ d.frame \in Frame
       /\ d.offset \in Offset(d.frame)
       /\ d = Piece(d.stream, d.frame, d.offset)
<1>1. ASSUME NEW s \in Stream, NEW f \in Frame, NEW o \in Offset(f)
      PROVE  Piece(s, f, o) \in Datagram /\ Piece(s, f, o) # None
  <2>1. Piece(s, f, o) \in Datagram
    BY DEF Datagram
  <2> QED BY <2>1, FrameBufferAssumption
<1>2. ASSUME NEW d \in Datagram
      PROVE  /\ d.stream \in Stream
             /\ d.frame \in Frame
             /\ d.offset \in Offset(d.frame)
             /\ d = Piece(d.stream, d.frame, d.offset)
  <2>1. PICK f \in Frame, s \in Stream : \E o \in Offset(f) : d = Piece(s, f, o)
    BY DEF Datagram
  <2> QED BY <2>1 DEF Piece
<1> QED BY <1>1, <1>2

\* What is known of the members of RemoteTile(f).
LEMMA Tiles ==
  ASSUME NEW tile \in AnyTile
  PROVE  /\ tile.frame \in Frame
         /\ tile.currentLen \in 0..Length[tile.frame]
         /\ tile.data \in [Offset(tile.frame) -> Datagram \cup {None}]
         /\ tile = [frame |-> tile.frame, currentLen |-> tile.currentLen,
                    data |-> tile.data]
         /\ tile # None
BY FrameBufferAssumption DEF AnyTile, RemoteTile

LEMMA TileType ==
  ASSUME NEW f \in Frame, NEW n \in 0..Length[f],
         NEW data \in [Offset(f) -> Datagram \cup {None}]
  PROVE  [frame |-> f, currentLen |-> n, data |-> data] \in AnyTile
BY DEF AnyTile, RemoteTile

\* The buffer of a datagram's frame with the datagram copied in: one more
\* offset is written, and a complete frame is whole.
LEMMA ValueOK ==
  ASSUME DataInv, NEW d \in inFlight
  PROVE  LET value == Value(d)
             f     == d.frame
         IN /\ value \in AnyTile
            /\ value.frame = f
            /\ value.currentLen = Cardinality(Filled(value))
            /\ \A o \in Filled(value) :
                 /\ value.data[o] = Piece(d.stream, f, o)
                 /\ Piece(d.stream, f, o) \notin inFlight \ {d}
            /\ IsComplete(d) => /\ Whole(d.stream, value)
                                /\ Filled(value) = Offset(f)
<1> DEFINE s     == d.stream
           f     == d.frame
           value == Value(d)
           tile  == incomplete[s][f]
           old   == IF tile = None THEN NewTile(f) ELSE tile
<1>1. /\ s \in Stream /\ f \in Frame /\ d.offset \in Offset(f)
      /\ d = Piece(s, f, d.offset) /\ d \in Datagram
  BY Pieces DEF DataInv, TypeOK
<1>2. /\ IsFiniteSet(Offset(f)) /\ Cardinality(Offset(f)) = Length[f]
      /\ Length[f] \in Nat \ {0}
  BY <1>1, Offsets
<1>3. /\ old \in AnyTile
      /\ old.frame = f
      /\ old.currentLen = Cardinality(Filled(old))
      /\ \A o \in Filled(old) : /\ old.data[o] = Piece(s, f, o)
                                /\ Piece(s, f, o) \notin inFlight
  <2>1. CASE tile = None
    <3>1. /\ old = [frame |-> f, currentLen |-> 0, data |-> [o \in Offset(f) |-> None]]
          /\ 0 \in 0..Length[f]
      BY <2>1, <1>2 DEF NewTile
    <3>2. old \in AnyTile
      BY <3>1, <1>1, TileType
    <3>3. old.frame = f /\ old.currentLen = 0 /\ Filled(old) = {}
      BY <3>1 DEF Filled
    <3> QED BY <3>2, <3>3, FS_EmptySet
  <2>2. CASE tile # None
    <3>1. tile \in AnyTile /\ tile.frame = f
      BY <2>2, <1>1 DEF DataInv, TypeOK
    <3>2. EntryOK(s, f)
      BY <2>2, <1>1 DEF DataInv, Counted
    <3> QED BY <2>2, <3>1, <3>2 DEF EntryOK
  <2> QED BY <2>1, <2>2
<1>4. /\ old.data \in [Offset(f) -> Datagram \cup {None}]
      /\ old.currentLen \in Nat
  BY <1>3, Tiles
<1>5. value = [frame |-> f, currentLen |-> old.currentLen + 1,
               data |-> [old.data EXCEPT ![d.offset] = d]]
  BY <1>3 DEF Value
<1> DEFINE data == [old.data EXCEPT ![d.offset] = d]
<1>6. /\ value.frame = f
      /\ value.currentLen = old.currentLen + 1
      /\ value.data = data
  BY <1>5
<1>7. data \in [Offset(f) -> Datagram \cup {None}]
  BY <1>1, <1>4
<1> HIDE DEF value, old, data
<1>8. d.offset \notin Filled(old)
  BY <1>1, <1>3
<1>9. Filled(value) = Filled(old) \cup {d.offset}
  <2>1. \A o \in Offset(f) : data[o] = IF o = d.offset THEN d ELSE old.data[o]
    BY <1>1, <1>4 DEF data
  <2>2. d # None
    BY <1>1, Pieces
  <2> QED BY <2>1, <2>2, <1>1, <1>3, <1>6 DEF Filled
<1>10. Filled(old) \in SUBSET Offset(f) /\ Filled(value) \in SUBSET Offset(f)
  BY <1>3, <1>6 DEF Filled
<1>11. IsFiniteSet(Filled(old))
  BY <1>2, <1>10, FS_Subset
<1>12. value.currentLen = Cardinality(Filled(value))
  BY <1>3, <1>6, <1>8, <1>9, <1>11, FS_AddElement
<1>13. /\ Cardinality(Filled(value)) <= Length[f]
       /\ Cardinality(Filled(value)) = Length[f] => Filled(value) = Offset(f)
  BY <1>2, <1>10, FS_Subset
<1>14. value \in AnyTile
  <2>1. value = [frame |-> f, currentLen |-> value.currentLen, data |-> data]
    BY <1>5, <1>6 DEF data
  <2>2. value.currentLen \in 0..Length[f]
    BY <1>2, <1>4, <1>6, <1>12, <1>13
  <2> QED BY <2>1, <2>2, <1>1, <1>7, TileType
<1>15. ASSUME NEW o \in Filled(value)
       PROVE  /\ value.data[o] = Piece(s, f, o)
              /\ Piece(s, f, o) \notin inFlight \ {d}
  <2>1. CASE o = d.offset
    BY <2>1, <1>1, <1>4, <1>6 DEF data
  <2>2. CASE o # d.offset
    <3>1. o \in Filled(old) /\ o \in Offset(f)
      BY <2>2, <1>9, <1>10
    <3>2. value.data[o] = old.data[o]
      BY <2>2, <3>1, <1>1, <1>4, <1>6 DEF data
    <3> QED BY <3>1, <3>2, <1>3
  <2> QED BY <2>1, <2>2
<1>16. ASSUME IsComplete(d)
       PROVE  Whole(s, value) /\ Filled(value) = Offset(f)
  <2>1. Filled(value) = Offset(f)
    BY <1>16, <1>12, <1>13 DEF IsComplete, value
  <2>2. \A o \in Offset(f) : data[o] = Piece(s, f, o)
    BY <2>1, <1>6, <1>15
  <2> QED BY <2>1, <2>2, <1>6, <1>7 DEF Whole
<1> QED BY <1>6, <1>12, <1>14, <1>15, <1>16 DEF value
-----------------------------------------------------------------------------
(***************************************************************************)
(* Every step keeps DataInv.                                               *)
(***************************************************************************)

LEMMA InitData == Init => DataInv
<1> SUFFICES ASSUME Init PROVE DataInv
  OBVIOUS
<1>1. TypeOK
  <2>1. << >> \in Seq(AnyTile)
    BY EmptySeq
  <2>2. /\ sent \in [Stream -> 0..MaxFrames]
        /\ connected \in 0..MaxConnected
    BY FrameBufferAssumption DEF Init
  <2>3. delivered \in [Stream -> Seq(AnyTile)]
    BY <2>1 DEF Init
  <2>4. incomplete \in [Stream -> [Frame -> AnyTile \cup {None}]]
    BY DEF Init
  <2> QED BY <2>2, <2>3, <2>4 DEF Init, TypeOK
<1>2. Counted /\ FlyingWasSent
  BY DEF Init, Counted, FlyingWasSent
<1> QED BY <1>1, <1>2 DEF DataInv

\* Fewer datagrams in flight do not hurt; nor do changes to the rest.
LEMMA FewerInFlight ==
  ASSUME DataInv, TypeOK', inFlight' \subseteq inFlight,
         UNCHANGED <<sent, incomplete>>
  PROVE  DataInv'
<1>1. FlyingWasSent'
  BY DEF DataInv, FlyingWasSent
<1>2. ASSUME NEW s \in Stream, NEW f \in Frame, incomplete[s][f] # None
      PROVE  EntryOK(s, f)'
  BY <1>2 DEF DataInv, Counted, EntryOK, Filled
<1> QED BY <1>1, <1>2 DEF DataInv, Counted

\* New datagrams are of a frame that has no entry yet.
LEMMA SendData ==
  ASSUME DataInv, NEW s \in Stream, SendFrame(s)
  PROVE  DataInv'
<1> DEFINE f == sent[s] + 1
<1>1. f \in Frame /\ sent[s] \in Nat /\ sent' = [sent EXCEPT ![s] = f]
  BY FrameBufferAssumption DEF DataInv, TypeOK, SendFrame, Frame
<1>2. TypeOK'
  <2>1. DatagramsOf(s, f) \subseteq Datagram
    BY <1>1, Pieces DEF DatagramsOf
  <2>2. sent' \in [Stream -> 0..MaxFrames] /\ inFlight' \subseteq Datagram
    BY <1>1, <2>1 DEF DataInv, TypeOK, SendFrame, Frame
  <2> QED BY <2>2 DEF DataInv, TypeOK, SendFrame, buffers
<1>3. FlyingWasSent'
  <2> SUFFICES ASSUME NEW d \in inFlight' PROVE d.frame <= sent'[d.stream]
    BY DEF FlyingWasSent
  <2>1. CASE d \in inFlight
    <3>1. d.stream \in Stream /\ d.frame \in Frame /\ d.frame <= sent[d.stream]
      BY <2>1, Pieces DEF DataInv, TypeOK, FlyingWasSent
    <3> QED BY <3>1, <1>1 DEF DataInv, TypeOK, Frame
  <2>2. CASE d \in DatagramsOf(s, f)
    <3>1. d.stream = s /\ d.frame = f
      BY <2>2 DEF DatagramsOf, Piece
    <3> QED BY <3>1, <1>1 DEF DataInv, TypeOK
  <2> QED BY <2>1, <2>2 DEF SendFrame
<1>4. ASSUME NEW t \in Stream, NEW g \in Frame, incomplete[t][g] # None
      PROVE  EntryOK(t, g)'
  <2>1. EntryOK(t, g)
    BY <1>4 DEF DataInv, Counted
  <2>2. g <= sent'[t] /\ (t = s => g # f)
    BY <2>1, <1>1 DEF EntryOK, DataInv, TypeOK, Frame
  <2>3. \A o \in Offset(g) : Piece(t, g, o) \notin DatagramsOf(s, f)
    BY <2>2 DEF DatagramsOf, Piece
  <2>4. Filled(incomplete[t][g]) \subseteq Offset(g)
    BY <1>4 DEF Filled, DataInv, TypeOK
  <2> QED BY <2>1, <2>2, <2>3, <2>4 DEF EntryOK, SendFrame, buffers, Filled
<1>5. Counted'
  BY <1>4 DEF Counted, SendFrame, buffers
<1> QED BY <1>2, <1>3, <1>5 DEF DataInv

LEMMA LoseData ==
  ASSUME DataInv, NEW d \in inFlight, LoseDatagram(d)
  PROVE  DataInv'
<1>1. TypeOK'
  BY DEF DataInv, TypeOK, LoseDatagram, buffers
<1> QED BY <1>1, FewerInFlight DEF LoseDatagram, buffers

LEMMA ReassembleData ==
  ASSUME DataInv, NEW d \in inFlight, Reassemble(d)
  PROVE  DataInv'
<1> DEFINE s == d.stream
           f == d.frame
           value == Value(d)
<1>1. /\ s \in Stream /\ f \in Frame /\ f <= sent[s]
      /\ Length[f] \in Nat
  BY Pieces, Offsets DEF DataInv, TypeOK, FlyingWasSent
<1>2. /\ value \in AnyTile
      /\ value.frame = f
      /\ value.currentLen = Cardinality(Filled(value))
      /\ \A o \in Filled(value) :
           /\ value.data[o] = Piece(s, f, o)
           /\ Piece(s, f, o) \notin inFlight \ {d}
  BY ValueOK
<1>3. value.currentLen < Length[f]
  BY <1>1, <1>2, Tiles DEF Reassemble, IsComplete
<1> HIDE DEF value
<1>4. /\ inFlight' = inFlight \ {d}
      /\ incomplete' = [incomplete EXCEPT ![s][f] = value]
      /\ UNCHANGED <<sent, complete, pc, delivered, connected, panicked, useProxyInput>>
  BY DEF Reassemble, value
<1>5. /\ incomplete' \in [Stream -> [Frame -> AnyTile \cup {None}]]
      /\ incomplete'[s][f] = value
      /\ \A t \in Stream, g \in Frame :
           <<t, g>> # <<s, f>> => incomplete'[t][g] = incomplete[t][g]
  BY <1>1, <1>2, <1>4 DEF DataInv, TypeOK
<1>6. TypeOK'
  <2>1. ASSUME NEW t \in Stream, NEW g \in Frame, incomplete'[t][g] # None
        PROVE  incomplete'[t][g].frame = g
    <3>1. CASE <<t, g>> = <<s, f>>
      BY <3>1, <1>2, <1>5
    <3>2. CASE <<t, g>> # <<s, f>>
      BY <3>2, <2>1, <1>5 DEF DataInv, TypeOK
    <3> QED BY <3>1, <3>2
  <2> QED BY <2>1, <1>4, <1>5 DEF DataInv, TypeOK
<1>7. FlyingWasSent'
  BY <1>4 DEF DataInv, FlyingWasSent
<1>8. ASSUME NEW t \in Stream, NEW g \in Frame, incomplete'[t][g] # None
      PROVE  EntryOK(t, g)'
  <2>1. CASE <<t, g>> = <<s, f>>
    <3>1. t = s /\ g = f /\ incomplete'[t][g] = value
      BY <2>1, <1>5
    <3>2. /\ g <= sent'[t]
          /\ value.currentLen = Cardinality(Filled(value))
          /\ value.currentLen < Length[g]
      BY <3>1, <1>1, <1>2, <1>3, <1>4
    <3>3. \A o \in Filled(value) :
            value.data[o] = Piece(t, g, o) /\ Piece(t, g, o) \notin inFlight'
      BY <3>1, <1>2, <1>4
    <3> QED BY <3>1, <3>2, <3>3 DEF EntryOK, Filled
  <2>2. CASE <<t, g>> # <<s, f>>
    <3>1. EntryOK(t, g) /\ incomplete'[t][g] = incomplete[t][g]
      BY <2>2, <1>5, <1>8 DEF DataInv, Counted
    <3> QED BY <3>1, <1>4 DEF EntryOK, Filled
  <2> QED BY <2>1, <2>2
<1> QED BY <1>6, <1>7, <1>8 DEF DataInv, Counted

LEMMA CompleteData ==
  ASSUME DataInv, NEW d \in inFlight, CompleteFrame(d)
  PROVE  DataInv'
<1> DEFINE s == d.stream
           f == d.frame
<1>1. s \in Stream /\ f \in Frame
  BY Pieces DEF DataInv, TypeOK
<1>2. Value(d) \in AnyTile
  BY ValueOK
<1>3. /\ incomplete' \in [Stream -> [Frame -> AnyTile \cup {None}]]
      /\ incomplete'[s][f] = None
      /\ \A t \in Stream, g \in Frame :
           <<t, g>> # <<s, f>> => incomplete'[t][g] = incomplete[t][g]
  BY <1>1 DEF DataInv, TypeOK, CompleteFrame
<1>4. TypeOK'
  <2>1. pc' \in [Sender -> {"none", "next", "wait", "woken"}]
    BY DEF CompleteFrame, Broadcast, DataInv, TypeOK
  <2>2. complete' \in [Stream -> AnyTile \cup {None}]
    BY <1>1, <1>2 DEF CompleteFrame, DataInv, TypeOK
  <2>3. ASSUME NEW t \in Stream, NEW g \in Frame, incomplete'[t][g] # None
        PROVE  incomplete'[t][g].frame = g
    <3>1. <<t, g>> # <<s, f>>
      BY <2>3, <1>3
    <3> QED BY <3>1, <2>3, <1>3 DEF DataInv, TypeOK
  <2> QED BY <2>1, <2>2, <2>3, <1>3 DEF CompleteFrame, DataInv, TypeOK
<1>5. FlyingWasSent'
  BY DEF DataInv, FlyingWasSent, CompleteFrame
<1>6. ASSUME NEW t \in Stream, NEW g \in Frame, incomplete'[t][g] # None
      PROVE  EntryOK(t, g)'
  <2>1. EntryOK(t, g) /\ incomplete'[t][g] = incomplete[t][g]
    BY <1>3, <1>6 DEF DataInv, Counted
  <2> QED BY <2>1 DEF EntryOK, Filled, CompleteFrame
<1> QED BY <1>4, <1>5, <1>6 DEF DataInv, Counted

LEMMA SenderData ==
  ASSUME DataInv,
         Connected \/ \E w \in Sender : NextFrame(w)
  PROVE  DataInv'
<1>1. UNCHANGED <<sent, incomplete, inFlight>>
  BY DEF Connected, NextFrame, TakeFrame, WaitForFrame, NoFrameAfterWait,
         NoCondition, Panics, network, buffers
<1>2. TypeOK'
  <2>1. CASE Connected
    <3>1. connected' \in 0..MaxConnected
      BY <2>1, FrameBufferAssumption DEF DataInv, TypeOK, Connected
    <3>2. pc' \in [Sender -> {"none", "next", "wait", "woken"}]
      BY <2>1 DEF DataInv, TypeOK, Connected
    <3> QED BY <2>1, <3>1, <3>2 DEF DataInv, TypeOK, Connected, network, buffers
  <2>2. ASSUME NEW w \in Sender, TakeFrame(w)
        PROVE  TypeOK'
    <3>1. w[1] \in Stream /\ complete[w[1]] \in AnyTile
      BY <2>2 DEF Sender, TakeFrame, DataInv, TypeOK
    <3>2. Append(delivered[w[1]], complete[w[1]]) \in Seq(AnyTile)
      BY <3>1, AppendProperties DEF DataInv, TypeOK
    <3> QED BY <2>2, <3>1, <3>2 DEF TakeFrame, WithoutFrame, DataInv, TypeOK, network
  <2>3. ASSUME NEW w \in Sender, WaitForFrame(w)
        PROVE  TypeOK'
    BY <2>3 DEF WaitForFrame, DataInv, TypeOK, network, buffers
  <2>4. ASSUME NEW w \in Sender, Panics(w)
        PROVE  TypeOK'
    BY <2>4 DEF Panics, DataInv, TypeOK, network, buffers
  <2> QED BY <2>1, <2>2, <2>3, <2>4 DEF NextFrame, NoFrameAfterWait, NoCondition
<1> QED BY <1>1, <1>2, FewerInFlight

LEMMA NextData == DataInv /\ [Next]_vars => DataInv'
<1> SUFFICES ASSUME DataInv, [Next]_vars PROVE DataInv'
  OBVIOUS
<1>1. CASE UNCHANGED vars
  <2>1. TypeOK'
    BY <1>1 DEF DataInv, TypeOK, vars, network, buffers
  <2> QED BY <1>1, <2>1, FewerInFlight DEF vars, network, buffers
<1>2. CASE Next
  BY <1>2, SendData, LoseData, ReassembleData, CompleteData, SenderData DEF Next
<1> QED BY <1>1, <1>2

(***************************************************************************)
(* Every variable of the frame buffer keeps its type (StartListening,      *)
(* NextTile and NextAudioFrame); in particular a buffer is never longer    *)
(* than its frame.                                                         *)
(***************************************************************************)
THEOREM TypeCorrect == Spec => []TypeOK
<1>1. DataInv => TypeOK
  BY DEF DataInv
<1> QED BY <1>1, InitData, NextData, PTL DEF Spec
-----------------------------------------------------------------------------
(***************************************************************************)
(* Frames that are complete or were handed out are whole.                  *)
(***************************************************************************)

LEMMA NextWhole == DataInv /\ WholeFrames /\ [Next]_vars => WholeFrames'
<1> SUFFICES ASSUME DataInv, WholeFrames, [Next]_vars PROVE WholeFrames'
  OBVIOUS
<1>1. CASE UNCHANGED <<complete, delivered>>
  BY <1>1 DEF WholeFrames, Whole
<1>2. ASSUME NEW d \in inFlight, CompleteFrame(d)
      PROVE  WholeFrames'
  <2>1. d.stream \in Stream
    BY Pieces DEF DataInv, TypeOK
  <2>2. Whole(d.stream, Value(d))
    BY <1>2, ValueOK DEF CompleteFrame
  <2>3. /\ complete' = [complete EXCEPT ![d.stream] = Value(d)]
        /\ delivered' = delivered
    BY <1>2 DEF CompleteFrame
  <2> QED BY <2>1, <2>2, <2>3 DEF WholeFrames, DataInv, TypeOK
<1>3. ASSUME NEW w \in Sender, TakeFrame(w)
      PROVE  WholeFrames'
  <2> DEFINE s == w[1]
  <2>1. /\ s \in Stream
        /\ complete[s] \in AnyTile
        /\ delivered[s] \in Seq(AnyTile)
        /\ Whole(s, complete[s])
    BY <1>3 DEF Sender, TakeFrame, DataInv, TypeOK, WholeFrames
  <2>2. /\ complete' = [complete EXCEPT ![s] = None]
        /\ delivered' = [delivered EXCEPT ![s] = Append(@, complete[s])]
    BY <1>3 DEF TakeFrame, WithoutFrame
  <2>3. ASSUME NEW i \in DOMAIN delivered'[s]
        PROVE  Whole(s, delivered'[s][i])
    <3>1. delivered'[s] = Append(delivered[s], complete[s])
      BY <2>1, <2>2 DEF DataInv, TypeOK
    <3>2. i \in 1..Len(delivered[s]) \/ i = Len(delivered[s]) + 1
      BY <2>1, <2>3, <3>1, AppendProperties, LenProperties
    <3>3. CASE i \in 1..Len(delivered[s])
      BY <2>1, <3>1, <3>3, AppendProperties, LenProperties DEF WholeFrames
    <3>4. CASE i = Len(delivered[s]) + 1
      BY <2>1, <3>1, <3>4, AppendProperties
    <3> QED BY <3>2, <3>3, <3>4
  <2>4. \A t \in Stream \ {s} : complete'[t] = complete[t] /\ delivered'[t] = delivered[t]
    BY <2>2 DEF DataInv, TypeOK
  <2> QED BY <2>1, <2>2, <2>3, <2>4 DEF WholeFrames, DataInv, TypeOK
<1> QED BY <1>1, <1>2, <1>3
    DEF Next, vars, SendFrame, LoseDatagram, Reassemble, Connected, NextFrame,
        WaitForFrame, NoFrameAfterWait, NoCondition, Panics, buffers

\* What the following theorems rest on.
LEMMA Invariant == Spec => [](DataInv /\ WholeFrames)
<1>1. Init => WholeFrames
  BY DEF Init, WholeFrames
<1> QED BY <1>1, InitData, NextData, NextWhole, PTL DEF Spec

(***************************************************************************)
(* A frame that NextTile or NextAudioFrame returns holds each of its       *)
(* datagrams at its place and nothing of another frame, whatever is lost   *)
(* and overtaken on the way.                                               *)
(***************************************************************************)
THEOREM WholeFramesHold == Spec => []WholeFrames
BY Invariant, PTL

(***************************************************************************)
(* No goroutine sleeps in Wait beside a complete frame of its stream, for  *)
(* any number of goroutines per stream.                                    *)
(***************************************************************************)
THEOREM NoLostWakeupHolds == Spec => []NoLostWakeup
<1>1. Init => NoLostWakeup
  BY DEF Init, NoLostWakeup
<1>2. TypeOK /\ NoLostWakeup /\ [Next]_vars => NoLostWakeup'
  <2> SUFFICES ASSUME TypeOK, NoLostWakeup, [Next]_vars, NEW w \in Sender,
                      pc'[w] = "wait"
               PROVE  complete'[w[1]] = None
    BY DEF NoLostWakeup
  <2> USE DEF Sender
  <2>1. CASE UNCHANGED <<complete, pc>>
    BY <2>1 DEF NoLostWakeup
  <2>2. ASSUME NEW d \in inFlight, CompleteFrame(d)
        PROVE  complete'[w[1]] = None
    <3>1. d.stream \in Stream
      BY Pieces DEF TypeOK
    <3>2. pc[w] = "wait" /\ w[1] # d.stream
      BY <2>2 DEF CompleteFrame, Broadcast, TypeOK
    <3> QED BY <2>2, <3>1, <3>2 DEF CompleteFrame, NoLostWakeup, TypeOK
  <2>3. CASE Connected
    BY <2>3 DEF Connected, NoLostWakeup, TypeOK, buffers
  <2>4. ASSUME NEW v \in Sender, TakeFrame(v)
        PROVE  complete'[w[1]] = None
    BY <2>4 DEF TakeFrame, WithoutFrame, NoLostWakeup, TypeOK
  <2>5. ASSUME NEW v \in Sender, WaitForFrame(v)
        PROVE  complete'[w[1]] = None
    BY <2>5 DEF WaitForFrame, NoLostWakeup, TypeOK, buffers
  <2> QED BY <2>1, <2>2, <2>3, <2>4, <2>5
      DEF Next, vars, SendFrame, LoseDatagram, Reassemble, NextFrame,
          NoFrameAfterWait, NoCondition, Panics, buffers
<1> QED BY <1>1, <1>2, TypeCorrect, PTL DEF Spec

(***************************************************************************)
(* As long as the connection becomes Connected only once there is one      *)
(* goroutine per stream, and one that Wait woke finds a frame              *)
(* (proxy_connection.go:283 and :300).  With two it need not.              *)
(***************************************************************************)
THEOREM FrameReadyIfConnectedOnce ==
  ASSUME MaxConnected <= 1
  PROVE  Spec => []FrameReady
<1>1. Init => FrameReady
  BY DEF Init, FrameReady
<1>2. ASSUME NEW v \in Sender, NEW w \in Sender, v[1] = w[1]
      PROVE  v = w
  BY <1>2, FrameBufferAssumption DEF Sender
<1>3. DataInv /\ FrameReady /\ [Next]_vars => FrameReady'
  <2> SUFFICES ASSUME DataInv, FrameReady, [Next]_vars, NEW w \in Sender,
                      pc'[w] = "woken"
               PROVE  complete'[w[1]] # None
    BY DEF FrameReady
  <2>1. CASE UNCHANGED <<complete, pc>>
    BY <2>1 DEF FrameReady
  <2>2. ASSUME NEW d \in inFlight, CompleteFrame(d)
        PROVE  complete'[w[1]] # None
    <3>1. d.stream \in Stream /\ Value(d) # None
      BY Pieces, ValueOK, Tiles DEF DataInv, TypeOK
    <3>2. pc[w] = "woken" \/ w[1] = d.stream
      BY <2>2 DEF CompleteFrame, Broadcast, DataInv, TypeOK
    <3> QED BY <2>2, <3>1, <3>2 DEF CompleteFrame, FrameReady, DataInv, TypeOK
  <2>3. CASE Connected
    BY <2>3 DEF Connected, FrameReady, DataInv, TypeOK, buffers
  <2>4. ASSUME NEW v \in Sender, TakeFrame(v)
        PROVE  complete'[w[1]] # None
    <3>1. v # w /\ pc[w] = "woken"
      BY <2>4 DEF TakeFrame, DataInv, TypeOK
    <3>2. v[1] # w[1]
      BY <3>1, <1>2
    <3> QED BY <2>4, <3>1, <3>2 DEF TakeFrame, WithoutFrame, FrameReady, DataInv, TypeOK
  <2>5. ASSUME NEW v \in Sender, WaitForFrame(v)
        PROVE  complete'[w[1]] # None
    BY <2>5 DEF WaitForFrame, FrameReady, DataInv, TypeOK, buffers
  <2> QED BY <2>1, <2>2, <2>3, <2>4, <2>5
      DEF Next, vars, SendFrame, LoseDatagram, Reassemble, NextFrame,
          NoFrameAfterWait, NoCondition, Panics, buffers
<1> QED BY <1>1, <1>3, Invariant, PTL DEF Spec
-----------------------------------------------------------------------------
(***************************************************************************)
(* The frame buffer is a mailbox for one frame per stream.                 *)
(***************************************************************************)

LEMMA TakenSeq ==
  ASSUME NEW q \in Seq(AnyTile), NEW s \in Stream
  PROVE  /\ [i \in DOMAIN q |-> FrameIn(s, q[i])] \in Seq(Nat)
         /\ Len([i \in DOMAIN q |-> FrameIn(s, q[i])]) = Len(q)
<1> DEFINE r == [i \in DOMAIN q |-> FrameIn(s, q[i])]
<1>1. DOMAIN q = 1..Len(q) /\ Len(q) \in Nat
  BY LenProperties
<1>2. ASSUME NEW i \in 1..Len(q)
      PROVE  FrameIn(s, q[i]) \in Nat
  <2>1. q[i] \in AnyTile
    BY ElementOfSeq
  <2>2. q[i].frame \in Frame
    BY <2>1, Tiles
  <2> QED BY <2>2 DEF FrameIn, Frame
<1>3. r \in [1..Len(q) -> Nat]
  BY <1>1, <1>2
<1> HIDE DEF r
<1>4. r \in Seq(Nat) /\ Len(r) = Len(q)
  BY <1>1, <1>3, SeqDef
<1> QED BY <1>4 DEF r

LEMMA TakenAppend ==
  ASSUME NEW q \in Seq(AnyTile), NEW tile \in AnyTile, NEW s \in Stream
  PROVE  [i \in DOMAIN Append(q, tile) |-> FrameIn(s, Append(q, tile)[i])]
           = Append([i \in DOMAIN q |-> FrameIn(s, q[i])], FrameIn(s, tile))
<1> DEFINE r == [i \in DOMAIN q |-> FrameIn(s, q[i])]
           p == Append(q, tile)
           n == FrameIn(s, tile)
           left == [i \in DOMAIN p |-> FrameIn(s, p[i])]
<1>1. tile.frame \in Nat /\ n \in Nat
  BY Tiles DEF FrameIn, Frame
<1>2. r \in Seq(Nat) /\ Len(r) = Len(q) /\ Len(q) \in Nat
  BY TakenSeq, LenProperties
<1>3. /\ p \in Seq(AnyTile) /\ Len(p) = Len(q) + 1
      /\ \A i \in 1..Len(q) : p[i] = q[i]
      /\ p[Len(q) + 1] = tile
  BY AppendProperties
<1>4. left \in Seq(Nat) /\ Len(left) = Len(p)
  BY <1>3, TakenSeq
<1>5. /\ Append(r, n) \in Seq(Nat) /\ Len(Append(r, n)) = Len(q) + 1
      /\ \A i \in 1..Len(q) : Append(r, n)[i] = r[i]
      /\ Append(r, n)[Len(q) + 1] = n
  BY <1>1, <1>2, AppendProperties
<1>6. /\ \A i \in 1..Len(q) : r[i] = FrameIn(s, q[i])
      /\ \A i \in 1..Len(p) : left[i] = FrameIn(s, p[i])
  BY <1>3, LenProperties
<1> HIDE DEF r, p, n, left
<1>7. \A i \in 1..Len(left) : left[i] = Append(r, n)[i]
  <2>1. n = FrameIn(s, tile)
    BY DEF n
  <2> QED BY <2>1, <1>2, <1>3, <1>4, <1>5, <1>6
<1>8. left = Append(r, n)
  BY <1>3, <1>4, <1>5, <1>7, SeqEqual
<1> QED BY <1>8 DEF left, r, p, n

\* What the mailbox sees depends on these variables only.
LEMMA SameMailbox ==
  ASSUME UNCHANGED <<complete, delivered>>
  PROVE  UNCHANGED <<Box, Taken>>
BY DEF Box, Taken, FrameIn, Whole

LEMMA InitMailbox == Init => Mailbox!Init
<1> SUFFICES ASSUME Init PROVE Mailbox!Init
  OBVIOUS
<1>1. Spent = [s \in Stream |-> {}]
  BY FrameBufferAssumption DEF Init, Spent, Frame
<1>2. Box = [s \in Stream |-> None]
  BY DEF Init, Box
<1>3. ASSUME NEW s \in Stream PROVE Taken[s] = << >>
  <2>1. delivered[s] = << >> /\ << >> \in Seq(AnyTile) /\ Len(<< >>) = 0
    BY EmptySeq DEF Init
  <2>2. Taken[s] \in Seq(Nat) /\ Len(Taken[s]) = 0
    BY <2>1, TakenSeq DEF Taken
  <2> QED BY <2>2, EmptySeq
<1>4. Taken = [s \in Stream |-> << >>]
  BY <1>3 DEF Taken
<1> QED BY <1>1, <1>2, <1>4 DEF Mailbox!Init

\* A frame becomes spent when nothing of it is left.
LEMMA SpentBy ==
  ASSUME NEW s \in Stream, NEW f \in Frame,
         f \notin Spent[s], f \in Spent'[s],
         \A t \in Stream, g \in Frame :
           <<t, g>> # <<s, f>> => (g \in Spent'[t] <=> g \in Spent[t])
  PROVE  Mailbox!Spend(s, f)
<1>1. \A t \in Stream : Spent[t] \subseteq Frame /\ Spent'[t] \subseteq Frame
  BY DEF Spent
<1>2. \A t \in Stream : Spent'[t] = IF t = s THEN Spent[s] \cup {f} ELSE Spent[t]
  BY <1>1
<1>3. /\ Spent = [t \in Stream |-> Spent[t]]
      /\ Spent' = [t \in Stream |-> Spent'[t]]
  BY DEF Spent
<1> QED BY <1>2, <1>3 DEF Mailbox!Spend

LEMMA SameSpent ==
  ASSUME \A t \in Stream, g \in Frame : g \in Spent'[t] <=> g \in Spent[t]
  PROVE  UNCHANGED Spent
BY DEF Spent

LEMMA StepOfMailbox ==
  ASSUME DataInv, WholeFrames, [Next]_vars
  PROVE  [Mailbox!Next]_(Mailbox!mailbox)
<1> USE DEF Mailbox!mailbox
<1>1. CASE UNCHANGED <<sent, inFlight, incomplete, complete, delivered>>
  <2>1. UNCHANGED Spent
    BY <1>1 DEF Spent
  <2> QED BY <2>1, <1>1, SameMailbox
<1>2. ASSUME NEW s \in Stream, SendFrame(s)
      PROVE  UNCHANGED Mailbox!mailbox
  <2> DEFINE f == sent[s] + 1
  <2>1. f \in Frame /\ sent[s] \in Nat /\ sent' = [sent EXCEPT ![s] = f]
    BY <1>2, FrameBufferAssumption DEF DataInv, TypeOK, SendFrame, Frame
  <2>2. inFlight' = inFlight \cup DatagramsOf(s, f) /\ incomplete' = incomplete
    BY <1>2 DEF SendFrame, buffers
  <2>3. /\ Piece(s, f, 0) \in DatagramsOf(s, f)
        /\ Piece(s, f, 0).stream = s /\ Piece(s, f, 0).frame = f
        /\ \A d \in DatagramsOf(s, f) : d.stream = s /\ d.frame = f
    BY <2>1, Offsets DEF DatagramsOf, Piece
  <2> HIDE DEF f
  <2>4. ASSUME NEW t \in Stream, NEW g \in Frame
        PROVE  g \in Spent'[t] <=> g \in Spent[t]
    <3>1. CASE <<t, g>> = <<s, f>>
      <4>1. ~(f <= sent[s])
        BY <2>1 DEF f
      <4> QED BY <3>1, <4>1, <2>2, <2>3 DEF Spent
    <3>2. CASE <<t, g>> # <<s, f>>
      <4>1. g <= sent'[t] <=> g <= sent[t]
        BY <3>2, <2>1 DEF DataInv, TypeOK, Frame, f
      <4>2. (\E d \in inFlight' : d.stream = t /\ d.frame = g)
              <=> (\E d \in inFlight : d.stream = t /\ d.frame = g)
        BY <3>2, <2>2, <2>3
      <4> QED BY <4>1, <4>2, <2>2 DEF Spent
    <3> QED BY <3>1, <3>2
  <2>5. UNCHANGED Spent
    BY <2>4, SameSpent
  <2> QED BY <2>5, <1>2, SameMailbox DEF SendFrame, buffers
<1>3. ASSUME NEW d \in inFlight, LoseDatagram(d)
      PROVE  [Mailbox!Next]_(Mailbox!mailbox)
  <2>1. d.stream \in Stream /\ d.frame \in Frame
    BY Pieces DEF DataInv, TypeOK
  <2>2. \A t \in Stream, g \in Frame :
          <<t, g>> # <<d.stream, d.frame>> => (g \in Spent'[t] <=> g \in Spent[t])
    BY <1>3 DEF LoseDatagram, buffers, Spent
  <2>3. d.frame \notin Spent[d.stream]
    BY <2>1 DEF Spent
  <2>4. UNCHANGED <<Box, Taken>>
    BY <1>3, SameMailbox DEF LoseDatagram, buffers
  <2>5. CASE d.frame \in Spent'[d.stream]
    <3>1. Mailbox!Spend(d.stream, d.frame)
      BY <2>1, <2>2, <2>3, <2>5, SpentBy
    <3> QED BY <3>1, <2>1, <2>4 DEF Mailbox!Next, Mailbox!Lose
  <2>6. CASE d.frame \notin Spent'[d.stream]
    BY <2>1, <2>2, <2>3, <2>4, <2>6, SameSpent
  <2> QED BY <2>5, <2>6
<1>4. ASSUME NEW d \in inFlight, Reassemble(d)
      PROVE  UNCHANGED Mailbox!mailbox
  <2>1. d.stream \in Stream /\ d.frame \in Frame
    BY Pieces DEF DataInv, TypeOK
  <2>2. Value(d) # None
    BY ValueOK, Tiles
  <2>3. /\ incomplete'[d.stream][d.frame] # None
        /\ \A t \in Stream, g \in Frame :
             <<t, g>> # <<d.stream, d.frame>> => incomplete'[t][g] = incomplete[t][g]
    BY <1>4, <2>1, <2>2 DEF Reassemble, DataInv, TypeOK
  <2>4. ASSUME NEW t \in Stream, NEW g \in Frame
        PROVE  g \in Spent'[t] <=> g \in Spent[t]
    <3>1. CASE <<t, g>> = <<d.stream, d.frame>>
      <4>1. g \notin Spent[t]
        BY <3>1 DEF Spent
      <4>2. g \notin Spent'[t]
        BY <3>1, <2>3 DEF Spent
      <4> QED BY <4>1, <4>2
    <3>2. CASE <<t, g>> # <<d.stream, d.frame>>
      <4>1. incomplete'[t][g] = incomplete[t][g] /\ sent' = sent
        BY <3>2, <2>3, <1>4 DEF Reassemble
      <4>2. (\E e \in inFlight' : e.stream = t /\ e.frame = g)
              <=> (\E e \in inFlight : e.stream = t /\ e.frame = g)
        BY <3>2, <1>4 DEF Reassemble
      <4> QED BY <4>1, <4>2 DEF Spent
    <3> QED BY <3>1, <3>2
  <2>5. UNCHANGED Spent
    BY <2>4, SameSpent
  <2> QED BY <2>5, <1>4, SameMailbox DEF Reassemble
<1>5. ASSUME NEW d \in inFlight, CompleteFrame(d)
      PROVE  Mailbox!Next
  <2> DEFINE s == d.stream
             f == d.frame
  <2>1. s \in Stream /\ f \in Frame /\ f <= sent[s]
    BY Pieces DEF DataInv, TypeOK, FlyingWasSent
  <2>2. /\ Value(d) # None
        /\ Value(d).frame = f
        /\ Whole(s, Value(d))
        /\ \A o \in Offset(f) : Piece(s, f, o) \notin inFlight \ {d}
    BY <1>5, ValueOK, Tiles DEF CompleteFrame
  <2>3. /\ inFlight' = inFlight \ {d}
        /\ complete' = [complete EXCEPT ![s] = Value(d)]
        /\ UNCHANGED <<sent, delivered>>
    BY <1>5 DEF CompleteFrame
  <2>4. /\ incomplete'[s][f] = None
        /\ \A t \in Stream, g \in Frame :
             <<t, g>> # <<s, f>> => incomplete'[t][g] = incomplete[t][g]
    BY <1>5, <2>1 DEF CompleteFrame, DataInv, TypeOK
  <2>5. f \notin Spent[s]
    BY <2>1 DEF Spent
  <2>6. f \in Spent'[s]
    <3>1. \A e \in inFlight' : e.stream = s => e.frame # f
      BY <2>2, <2>3, Pieces DEF DataInv, TypeOK
    <3> QED BY <3>1, <2>1, <2>3, <2>4 DEF Spent
  <2>7. \A t \in Stream, g \in Frame :
          <<t, g>> # <<s, f>> => (g \in Spent'[t] <=> g \in Spent[t])
    BY <2>3, <2>4 DEF Spent
  <2>8. Mailbox!Spend(s, f)
    BY <2>1, <2>5, <2>6, <2>7, SpentBy
  <2>9. Box' = [Box EXCEPT ![s] = f]
    <3>1. complete'[s] = Value(d) /\ FrameIn(s, Value(d)) = f
      BY <2>1, <2>2, <2>3 DEF DataInv, TypeOK, FrameIn
    <3>2. \A t \in Stream \ {s} : complete'[t] = complete[t]
      BY <2>3 DEF DataInv, TypeOK
    <3>3. Box'[s] = f /\ \A t \in Stream \ {s} : Box'[t] = Box[t]
      BY <2>1, <2>2, <3>1, <3>2 DEF Box, FrameIn, Whole
    <3> QED BY <3>3 DEF Box
  <2>10. UNCHANGED Taken
    BY <2>3 DEF Taken, FrameIn, Whole
  <2> QED BY <2>1, <2>8, <2>9, <2>10 DEF Mailbox!Next, Mailbox!Put
<1>6. ASSUME NEW w \in Sender, TakeFrame(w)
      PROVE  Mailbox!Next
  <2> DEFINE s == w[1]
  <2>1. s \in Stream /\ complete[s] \in AnyTile /\ delivered[s] \in Seq(AnyTile)
    BY <1>6 DEF Sender, TakeFrame, DataInv, TypeOK
  <2>2. /\ complete' = [complete EXCEPT ![s] = None]
        /\ delivered' = [delivered EXCEPT ![s] = Append(@, complete[s])]
        /\ UNCHANGED <<sent, inFlight, incomplete>>
    BY <1>6 DEF TakeFrame, WithoutFrame, network
  <2>3. UNCHANGED Spent
    BY <2>2 DEF Spent
  <2>4. Box[s] = FrameIn(s, complete[s]) /\ Box[s] # None
    <3>1. Box[s] = FrameIn(s, complete[s]) /\ Whole(s, complete[s])
      BY <1>6, <2>1 DEF Box, TakeFrame, WholeFrames
    <3>2. Box[s] \in Frame
      BY <2>1, <3>1, Tiles DEF FrameIn
    <3> QED BY <3>1, <3>2, FrameBufferAssumption
  <2>5. Box' = [Box EXCEPT ![s] = None]
    <3>1. complete'[s] = None /\ \A t \in Stream \ {s} : complete'[t] = complete[t]
      BY <2>1, <2>2 DEF DataInv, TypeOK
    <3>2. Box'[s] = None /\ \A t \in Stream \ {s} : Box'[t] = Box[t]
      BY <2>1, <3>1 DEF Box, FrameIn, Whole
    <3> QED BY <3>2 DEF Box
  <2>6. Taken' = [Taken EXCEPT ![s] = Append(@, Box[s])]
    <3>1. /\ delivered'[s] = Append(delivered[s], complete[s])
          /\ \A t \in Stream \ {s} : delivered'[t] = delivered[t]
      BY <2>1, <2>2 DEF DataInv, TypeOK
    <3>2. Taken'[s] = Append(Taken[s], Box[s])
      <4>1. Taken'[s] = [i \in DOMAIN delivered'[s] |-> FrameIn(s, delivered'[s][i])]
        BY <2>1 DEF Taken, FrameIn, Whole
      <4>2. Taken[s] = [i \in DOMAIN delivered[s] |-> FrameIn(s, delivered[s][i])]
        BY <2>1 DEF Taken
      <4> QED BY <4>1, <4>2, <2>1, <2>4, <3>1, TakenAppend
    <3>3. \A t \in Stream \ {s} : Taken'[t] = Taken[t]
      BY <3>1 DEF Taken, FrameIn, Whole
    <3> QED BY <3>2, <3>3 DEF Taken
  <2> QED BY <2>1, <2>3, <2>4, <2>5, <2>6 DEF Mailbox!Next, Mailbox!Take
<1> QED BY <1>1, <1>2, <1>3, <1>4, <1>5, <1>6
    DEF Next, vars, network, buffers, Connected, NextFrame, WaitForFrame,
        NoFrameAfterWait, NoCondition, Panics

(***************************************************************************)
(* The frame buffer implements the mailbox: a frame that is handed out is  *)
(* the one put last, each is handed out at most once, and what arrives     *)
(* later of a frame that is gone never becomes a frame again.              *)
(***************************************************************************)
THEOREM ImplementsMailbox == Spec => IsMailbox
<1>1. Init => Mailbox!Init
  BY InitMailbox
<1>2. DataInv /\ WholeFrames /\ [Next]_vars => [Mailbox!Next]_(Mailbox!mailbox)
  BY StepOfMailbox
<1> QED BY <1>1, <1>2, Invariant, PTL DEF Spec, IsMailbox, Mailbox!Spec
=============================================================================
