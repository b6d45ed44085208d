--------------------------- MODULE PayloadProofs ---------------------------
(***************************************************************************)
(* The packets of a frame hold each of its bytes exactly once, for every   *)
(* length of the frame and every size of the packets.                      *)
(***************************************************************************)
EXTENDS Payload, TLAPS

LEMMA Quotient ==
  ASSUME NEW n \in Nat, NEW size \in Nat \ {0}
  PROVE  /\ n \div size \in Nat
         /\ (n \div size) * size <= n
         /\ n < (n \div size) * size + size
OBVIOUS

LEMMA Multiples ==
  ASSUME NEW i \in Int, NEW j \in Int, NEW size \in Nat \ {0}
  PROVE  /\ i * size \in Int
         /\ i < j => i * size + size <= j * size
         /\ i * size < j * size => i < j
OBVIOUS

LEMMA FragmentBounds ==
  ASSUME NEW size \in Nat \ {0}, NEW len \in Nat
  PROVE  /\ Fragments(size, len) \in Nat
         /\ len <= Fragments(size, len) * size
         /\ Fragments(size, len) * size < len + size
BY Quotient DEF Fragments

\* Every packet holds at least one byte and at most size bytes.
LEMMA FragmentSize ==
  ASSUME NEW size \in Nat \ {0}, NEW len \in Nat,
         NEW i \in 1..Fragments(size, len)
  PROVE  /\ SeqOffset(size, i) \in 0..(len - 1)
         /\ SeqLen(size, len, i) \in 1..size
         /\ SeqOffset(size, i) + SeqLen(size, len, i) <= len
<1> DEFINE k == Fragments(size, len)
<1>1. k \in Nat /\ k * size < len + size
  BY FragmentBounds
<1>2. i \in Nat /\ i >= 1 /\ i <= k
  BY <1>1
<1>3. i * size <= k * size
  BY <1>1, <1>2, Multiples
<1>4. (i - 1) * size \in Nat /\ (i - 1) * size + size = i * size
  BY <1>2
<1>5. (i - 1) * size < len
  BY <1>1, <1>3, <1>4, Multiples
<1>6. QED BY <1>4, <1>5 DEF SeqOffset, SeqLen, Lesser

(***************************************************************************)
(* Payload cuts a frame without a gap and without an overlap: each byte of *)
(* it is in exactly one packet, however long the frame (packet.go:56-75).  *)
(***************************************************************************)
THEOREM EachByteOnce ==
  ASSUME NEW size \in Nat \ {0}, NEW len \in Nat, NEW b \in 0..(len - 1)
  PROVE  \E i \in 1..Fragments(size, len) :
           /\ b \in BytesIn(size, len, i)
           /\ \A j \in 1..Fragments(size, len) :
                b \in BytesIn(size, len, j) => j = i
<1> DEFINE k == Fragments(size, len)
           i == b \div size + 1
<1>1. b \in Nat /\ b < len
  OBVIOUS
<1>2. /\ b \div size \in Nat
      /\ (b \div size) * size <= b
      /\ b < (b \div size) * size + size
  BY <1>1, Quotient
<1>3. k \in Nat /\ len <= k * size
  BY FragmentBounds
<1>4. (b \div size) < k
  BY <1>1, <1>2, <1>3, Multiples
<1>5. i \in 1..k
  BY <1>2, <1>3, <1>4
<1>6. SeqOffset(size, i) = (b \div size) * size
  BY <1>2 DEF SeqOffset
<1>7. b \in BytesIn(size, len, i)
  BY <1>1, <1>2, <1>6 DEF BytesIn, SeqLen, Lesser
<1>8. ASSUME NEW j \in 1..k, b \in BytesIn(size, len, j)
      PROVE  j = i
  <2>1. j \in Nat /\ j - 1 \in Nat
    BY <1>3
  <2>2. /\ (j - 1) * size <= b
        /\ b < (j - 1) * size + size
    BY <1>1, <1>8, <2>1, FragmentSize DEF BytesIn, SeqOffset, SeqLen, Lesser
  <2>3. ~(j - 1 < b \div size)
    BY <1>2, <2>1, <2>2, Multiples
  <2>4. ~(b \div size < j - 1)
    BY <1>2, <2>1, <2>2, Multiples
  <2>5. QED BY <1>2, <2>1, <2>3, <2>4
<1>9. QED BY <1>5, <1>7, <1>8

\* Different packets of a frame begin at different places and share no byte.
LEMMA FragmentsDiffer ==
  ASSUME NEW size \in Nat \ {0}, NEW len \in Nat,
         NEW i \in 1..Fragments(size, len), NEW j \in 1..Fragments(size, len),
         i # j
  PROVE  /\ SeqOffset(size, i) # SeqOffset(size, j)
         /\ BytesIn(size, len, i) \cap BytesIn(size, len, j) = {}
<1>1. BytesIn(size, len, i) \cap BytesIn(size, len, j) = {}
  <2>1. SUFFICES ASSUME NEW b \in BytesIn(size, len, i), b \in BytesIn(size, len, j)
                 PROVE  FALSE
    OBVIOUS
  <2>2. b \in 0..(len - 1)
    BY FragmentSize DEF BytesIn
  <2>3. QED BY <2>1, <2>2, EachByteOnce
<1>2. /\ SeqOffset(size, i) \in BytesIn(size, len, i)
      /\ SeqOffset(size, j) \in BytesIn(size, len, j)
  BY FragmentSize DEF BytesIn
<1>3. QED BY <1>1, <1>2
=============================================================================
