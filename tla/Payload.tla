------------------------------ MODULE Payload ------------------------------
(***************************************************************************)
(* How the payloaders of the peer cut a frame (peer/packet.go): Payload of *)
(* PointCloudPayloader and of AudioPayloader are the same loop with        *)
(* different sizes.                                                        *)
(***************************************************************************)
EXTENDS Integers, Sequences

\* The sizes of video and audio packets without their headers.
WebRTCPayloadSize == 1172
VideoPayloadSize  == WebRTCPayloadSize - 28
AudioPayloadSize  == WebRTCPayloadSize - 20

Lesser(m, n) == IF m < n THEN m ELSE n

\* The loop: pairs of offset and length, for payloadLen bytes in packets of
\* at most size bytes.
PayloadLoop(size, payloadLen) ==
  LET loop[remaining \in 0..payloadLen] ==
        IF remaining = 0 THEN << >>
        ELSE LET current == Lesser(size, remaining)
             IN <<<<payloadLen - remaining, current>>>> \o loop[remaining - current]
  IN loop[payloadLen]

\* What it computes: the number of packets, and the offset and the length
\* in the i-th of them.
Fragments(size, payloadLen) == (payloadLen + size - 1) \div size
SeqOffset(size, i)          == (i - 1) * size
SeqLen(size, payloadLen, i) == Lesser(size, payloadLen - SeqOffset(size, i))

Cut(size, payloadLen) ==
  [i \in 1..Fragments(size, payloadLen) |->
     <<SeqOffset(size, i), SeqLen(size, payloadLen, i)>>]

\* The bytes of the frame in the i-th packet.
BytesIn(size, payloadLen, i) ==
  SeqOffset(size, i)..(SeqOffset(size, i) + SeqLen(size, payloadLen, i) - 1)
=============================================================================
