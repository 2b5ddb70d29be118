--------------------------- MODULE SerialLinkProofs ---------------------------
(***************************************************************************)
(* Proofs about the packets and the link of a host and a device.  A packet *)
(* survives the line, for every CRC function.  If the delays fit the two   *)
(* timeouts and the line spares the headers, the two ends stay in step     *)
(* byte for byte: the link implements CommandExchange, and a call returns  *)
(* an answer to its own request.                                           *)
(***************************************************************************)
EXTENDS SerialLink, SequenceTheorems, FiniteSets, FiniteSetTheorems, TLAPS

-----------------------------------------------------------------------------
(* Packets.                                                                *)

\* A byte sequence made of a head and a payload gives the payload back.
LEMMA PayloadOfPacket ==
  ASSUME NEW S, NEW head \in Seq(S), NEW payload \in Seq(S),
         NEW first \in Nat, NEW last \in Nat,
         first = Len(head) + 1, last = Len(head) + Len(payload)
  PROVE  SubSeq(head \o payload, first, last) = payload
<1> DEFINE packet == head \o payload
           part   == SubSeq(packet, first, last)
<1>1. packet \in Seq(S) /\ Len(packet) = Len(head) + Len(payload)
  OBVIOUS
<1>2. Len(part) = Len(payload) /\ part \in Seq(S)
  BY <1>1
<1>3. \A i \in 1..Len(payload) : part[i] = payload[i]
  <2> TAKE i \in 1..Len(payload)
  <2>1. part[i] = packet[first + i - 1]
    BY <1>1
  <2>2. packet[first + i - 1] = payload[i]
    BY <2>1
  <2> QED
    BY <2>1, <2>2
<1> QED
  BY <1>2, <1>3

\* A request survives the line: its header and payload CRCs hold at the device,
\* and deserializing it gives the request that was serialized.
THEOREM RequestRoundTrip ==
  ASSUME Crc8Assumption, NEW req \in Request
  PROVE  LET data == SerializeRequest(req) IN
         /\ data \in Seq(Byte)
         /\ Len(data) = RequestPacketSize(RequestPayloadSize(data))
         /\ RequestPayloadSize(data) = Len(req.payload)
         /\ RequestPayloadHasValidCrc(data)
         /\ DeSerializeRequest(data) = req
<1> DEFINE header == <<req.receiver_id, req.operation_code, Len(req.payload)>>
           head   == header \o <<GenerateCrc8(header), GenerateCrc8(req.payload)>>
           data   == head \o req.payload
<1>1. /\ req.receiver_id \in Byte /\ req.operation_code \in Byte
      /\ req.payload \in Seq(Byte) /\ Len(req.payload) \in Byte
      /\ req = [receiver_id |-> req.receiver_id, operation_code |-> req.operation_code,
                payload |-> req.payload]
  BY ByteAssumption DEF Request, Payload, Byte
<1>2. header \in Seq(Byte) /\ Len(header) = 3
  BY <1>1
<1>3. GenerateCrc8(header) \in Byte /\ GenerateCrc8(req.payload) \in Byte
  BY <1>1, <1>2 DEF Crc8Assumption
<1>4. head \in Seq(Byte) /\ Len(head) = 5
  BY <1>2, <1>3
<1>5. /\ head[1] = req.receiver_id /\ head[2] = req.operation_code
      /\ head[3] = Len(req.payload)
      /\ head[4] = GenerateCrc8(header) /\ head[5] = GenerateCrc8(req.payload)
  BY <1>2, <1>3
<1>6. /\ data \in Seq(Byte) /\ Len(data) = 5 + Len(req.payload)
      /\ \A i \in 1..5 : data[i] = head[i]
  BY <1>1, <1>4
<1>7. data[1] = head[1] /\ data[2] = head[2] /\ data[3] = head[3]
      /\ data[4] = head[4] /\ data[5] = head[5]
  BY <1>6
<1>8. SubSeq(data, 6, 5 + Len(req.payload)) = req.payload
  BY <1>1, <1>4, PayloadOfPacket
<1>9. DeSerializeRequest(data) = req
  BY <1>1, <1>5, <1>7, <1>8
     DEF DeSerializeRequest, RequestPacketSize, RequestHeaderSize, RequestPayloadSize
<1>10. RequestPayloadHasValidCrc(data)
  BY <1>5, <1>7, <1>9 DEF RequestPayloadHasValidCrc, RequestHeaderHasValidCrc
<1>11. SerializeRequest(req) = data
  BY DEF SerializeRequest
<1>12. /\ Len(data) = RequestPacketSize(RequestPayloadSize(data))
       /\ RequestPayloadSize(data) = Len(req.payload)
  BY <1>1, <1>5, <1>6, <1>7 DEF RequestPacketSize, RequestHeaderSize, RequestPayloadSize
<1> HIDE DEF data, head, header
<1> QED
  BY <1>6, <1>9, <1>10, <1>11, <1>12

\* The same for a response, whose header is one byte shorter.
THEOREM ResponseRoundTrip ==
  ASSUME Crc8Assumption, NEW resp \in Response
  PROVE  LET data == SerializeResponse(resp) IN
         /\ data \in Seq(Byte)
         /\ Len(data) = ResponsePacketSize(ResponsePayloadSize(data))
         /\ ResponsePayloadSize(data) = Len(resp.payload)
         /\ ResponsePayloadHasValidCrc(data)
         /\ DeSerializeResponse(data) = resp
<1> DEFINE header == <<resp.response_code, Len(resp.payload)>>
           head   == header \o <<GenerateCrc8(header), GenerateCrc8(resp.payload)>>
           data   == head \o resp.payload
<1>1. /\ resp.response_code \in Byte
      /\ resp.payload \in Seq(Byte) /\ Len(resp.payload) \in Byte
      /\ resp = [response_code |-> resp.response_code, payload |-> resp.payload]
  BY ByteAssumption DEF Response, Payload, Byte
<1>2. header \in Seq(Byte) /\ Len(header) = 2
  BY <1>1
<1>3. GenerateCrc8(header) \in Byte /\ GenerateCrc8(resp.payload) \in Byte
  BY <1>1, <1>2 DEF Crc8Assumption
<1>4. head \in Seq(Byte) /\ Len(head) = 4
  BY <1>2, <1>3
<1>5. /\ head[1] = resp.response_code /\ head[2] = Len(resp.payload)
      /\ head[3] = GenerateCrc8(header) /\ head[4] = GenerateCrc8(resp.payload)
  BY <1>2, <1>3
<1>6. /\ data \in Seq(Byte) /\ Len(data) = 4 + Len(resp.payload)
      /\ \A i \in 1..4 : data[i] = head[i]
  BY <1>1, <1>4
<1>7. data[1] = head[1] /\ data[2] = head[2] /\ data[3] = head[3] /\ data[4] = head[4]
  BY <1>6
<1>8. SubSeq(data, 5, 4 + Len(resp.payload)) = resp.payload
  BY <1>1, <1>4, PayloadOfPacket
<1>9. DeSerializeResponse(data) = resp
  BY <1>1, <1>5, <1>7, <1>8
     DEF DeSerializeResponse, ResponsePacketSize, ResponseHeaderSize, ResponsePayloadSize
<1>10. ResponsePayloadHasValidCrc(data)
  BY <1>5, <1>7, <1>9 DEF ResponsePayloadHasValidCrc, ResponseHeaderHasValidCrc
<1>11. SerializeResponse(resp) = data
  BY DEF SerializeResponse
<1>12. /\ Len(data) = ResponsePacketSize(ResponsePayloadSize(data))
       /\ ResponsePayloadSize(data) = Len(resp.payload)
  BY <1>1, <1>5, <1>6, <1>7 DEF ResponsePacketSize, ResponseHeaderSize, ResponsePayloadSize
<1> HIDE DEF data, head, header
<1> QED
  BY <1>6, <1>9, <1>10, <1>11, <1>12

-----------------------------------------------------------------------------
(* One direction of the link: the bytes that the receiving end has read of *)
(* a packet, and those that are still to come.                             *)

\* As long as the packet, with its header.
LikePacket(bytes, packet, header_size) ==
  /\ Len(bytes) = Len(packet)
  /\ \A k \in 1..header_size : bytes[k] = packet[k]

\* Nothing is under way, or one packet, what follows its header changed or not,
\* of which the end has read a proper part and knows the size from the header on.
Framed(rx_buffer, queue, expected_packet_size, packet, header_size, max_size) ==
  /\ rx_buffer \in Seq(Byte) /\ queue \in Seq(Byte)
  /\ queue = <<>> => rx_buffer = <<>> /\ expected_packet_size = max_size
  /\ queue # <<>> =>
       /\ LikePacket(rx_buffer \o queue, packet, header_size)
       /\ expected_packet_size = IF Len(rx_buffer) < header_size THEN max_size ELSE Len(packet)

LEMMA ReadHead ==
  ASSUME NEW S, NEW rx \in Seq(S), NEW queue \in Seq(S), queue # <<>>
  PROVE  LET buffer == rx \o <<Head(queue)>> IN
         /\ buffer \in Seq(S) /\ Len(buffer) = Len(rx) + 1
         /\ Tail(queue) \in Seq(S) /\ Len(Tail(queue)) = Len(queue) - 1
         /\ buffer \o Tail(queue) = rx \o queue
<1> DEFINE buffer == rx \o <<Head(queue)>>
<1>1. Head(queue) \in S /\ Tail(queue) \in Seq(S) /\ Len(Tail(queue)) = Len(queue) - 1
  BY HeadTailProperties
<1>2. buffer \in Seq(S) /\ Len(buffer) = Len(rx) + 1
  BY <1>1
<1>3. <<Head(queue)>> \o Tail(queue) = queue
  <2>1. /\ <<Head(queue)>> \o Tail(queue) \in Seq(S)
        /\ Len(<<Head(queue)>> \o Tail(queue)) = Len(queue)
    BY <1>1
  <2>2. \A k \in 1..Len(queue) : (<<Head(queue)>> \o Tail(queue))[k] = queue[k]
    BY <1>1, HeadTailProperties
  <2> QED
    BY <2>1, <2>2, SeqEqual
<1>4. buffer \o Tail(queue) = rx \o (<<Head(queue)>> \o Tail(queue))
  BY <1>1, ConcatAssociative, <<Head(queue)>> \in Seq(S)
<1> QED
  BY <1>1, <1>2, <1>3, <1>4

\* What storing one more byte, with rest still to come, makes of the buffer: in
\* the middle of the packet it goes on, at the header the header read is that of
\* the packet, and when the expected size is reached the buffer is all there was.
ByteStored(rx, queue, expected, packet, header_size, max_size, buffer, rest) ==
  /\ buffer \in Seq(Byte) /\ buffer \o rest = rx \o queue
  /\ Len(buffer) \notin {header_size, expected} =>
       /\ rest # <<>>
       /\ Framed(buffer, rest, expected, packet, header_size, max_size)
  /\ Len(buffer) = header_size =>
       /\ rest # <<>>
       /\ \A k \in 1..header_size : buffer[k] = packet[k]
       /\ Framed(buffer, rest, Len(packet), packet, header_size, max_size)
  /\ (Len(buffer) # header_size /\ Len(buffer) = expected) =>
       rest = <<>> /\ buffer = rx \o queue

LEMMA FramedRead ==
  ASSUME NEW rx, NEW queue, NEW expected, NEW packet \in Seq(Byte),
         NEW header_size \in Nat, NEW max_size \in Nat,
         header_size < Len(packet), Len(packet) <= max_size, header_size + 1 < max_size,
         Framed(rx, queue, expected, packet, header_size, max_size),
         queue # <<>>,
         NEW buffer, buffer = rx \o <<Head(queue)>>, NEW rest, rest = Tail(queue)
  PROVE  ByteStored(rx, queue, expected, packet, header_size, max_size, buffer, rest)
<1>1. rx \in Seq(Byte) /\ queue \in Seq(Byte)
  BY DEF Framed
<1>2. /\ buffer \in Seq(Byte) /\ Len(buffer) = Len(rx) + 1
      /\ rest \in Seq(Byte) /\ Len(rest) = Len(queue) - 1
      /\ buffer \o rest = rx \o queue
  BY <1>1, ReadHead
<1>3. /\ LikePacket(rx \o queue, packet, header_size)
      /\ expected = IF Len(rx) < header_size THEN max_size ELSE Len(packet)
      /\ Len(rx) + Len(queue) = Len(packet)
      /\ Len(rx) \in Nat /\ Len(queue) \in Nat /\ Len(packet) \in Nat /\ Len(queue) > 0
  BY <1>1 DEF Framed, LikePacket
<1>4. rest # <<>> <=> Len(buffer) < Len(packet)
  <2>1. rest # <<>> <=> Len(rest) # 0
    BY <1>2, EmptySeq
  <2>2. Len(rest) = Len(packet) - Len(buffer)
    BY <1>2, <1>3
  <2>3. Len(buffer) \in Nat
    BY <1>2
  <2> QED
    BY <1>3, <2>1, <2>2, <2>3
<1>5. ASSUME rest # <<>>,
             NEW size, size = IF Len(buffer) < header_size THEN max_size ELSE Len(packet)
      PROVE  Framed(buffer, rest, size, packet, header_size, max_size)
  BY <1>2, <1>3, <1>5 DEF Framed
<1>6. ASSUME Len(buffer) \notin {header_size, expected}
      PROVE  /\ rest # <<>>
             /\ Framed(buffer, rest, expected, packet, header_size, max_size)
  <2>1. Len(buffer) < Len(packet)
    BY <1>2, <1>3, <1>6
  <2>2. expected = IF Len(buffer) < header_size THEN max_size ELSE Len(packet)
    BY <1>2, <1>3, <1>6
  <2> QED
    BY <2>1, <2>2, <1>4, <1>5
<1>7. ASSUME Len(buffer) = header_size
      PROVE  /\ rest # <<>>
             /\ \A k \in 1..header_size : buffer[k] = packet[k]
             /\ Framed(buffer, rest, Len(packet), packet, header_size, max_size)
  <2>1. rest # <<>>
    BY <1>4, <1>7
  <2>2. \A k \in 1..header_size : buffer[k] = (buffer \o rest)[k]
    BY <1>2, <1>7
  <2>3. \A k \in 1..header_size : buffer[k] = packet[k]
    BY <2>2, <1>2, <1>3 DEF LikePacket
  <2>4. Len(packet) = IF Len(buffer) < header_size THEN max_size ELSE Len(packet)
    BY <1>7
  <2>5. Framed(buffer, rest, Len(packet), packet, header_size, max_size)
    BY <2>1, <2>4, <1>5
  <2> QED
    BY <2>1, <2>3, <2>5
<1>8. ASSUME Len(buffer) # header_size, Len(buffer) = expected
      PROVE  rest = <<>> /\ buffer = rx \o queue
  <2>1. Len(buffer) = Len(packet)
    BY <1>2, <1>3, <1>8
  <2>2. rest = <<>>
    BY <1>4, <2>1
  <2>3. buffer \o rest = buffer
    BY <1>2, <2>2, ConcatEmptySeq
  <2> QED
    BY <1>2, <2>2, <2>3
<1> QED
  BY <1>2, <1>6, <1>7, <1>8 DEF ByteStored

\* A packet is handed to an idle line.
LEMMA FramedSend ==
  ASSUME NEW rx, NEW queue, NEW expected, NEW packet, NEW next \in Seq(Byte),
         NEW header_size \in Nat \ {0}, NEW max_size,
         Framed(rx, queue, expected, packet, header_size, max_size),
         queue = <<>>, header_size < Len(next)
  PROVE  /\ queue \o next = next /\ rx = <<>> /\ queue \o next # <<>>
         /\ Framed(rx, queue \o next, expected, next, header_size, max_size)
<1>1. rx = <<>> /\ expected = max_size
  BY DEF Framed
<1>2. queue \o next = next /\ rx \o next = next
  BY <1>1, ConcatEmptySeq
<1>3. next # <<>> /\ Len(rx) = 0
  BY <1>1
<1>4. LikePacket(next, next, header_size)
  BY DEF LikePacket
<1> QED
  BY <1>1, <1>2, <1>3, <1>4 DEF Framed

\* An idle line suits every packet.
LEMMA FramedIdle ==
  ASSUME NEW packet, NEW header_size, NEW max_size
  PROVE  Framed(<<>>, <<>>, max_size, packet, header_size, max_size)
BY DEF Framed

\* The bytes after the header that the line has changed, numbered from 1.
Damaged(bytes, packet, header_size) ==
  {k \in 1..Len(packet) - header_size : bytes[header_size + k] # packet[header_size + k]}

LEMMA DamageIsFinite ==
  ASSUME NEW bytes, NEW packet \in Seq(Byte), NEW header_size \in Nat
  PROVE  /\ IsFiniteSet(Damaged(bytes, packet, header_size))
         /\ Cardinality(Damaged(bytes, packet, header_size)) \in Nat
<1>1. IsFiniteSet(1..Len(packet) - header_size)
  BY FS_Interval, Len(packet) \in Nat
<1>2. Damaged(bytes, packet, header_size) \subseteq 1..Len(packet) - header_size
  BY DEF Damaged
<1> QED
  BY <1>1, <1>2, FS_Subset, FS_CardinalityType

LEMMA NoDamage ==
  ASSUME NEW packet, NEW header_size
  PROVE  Cardinality(Damaged(packet, packet, header_size)) = 0
<1>1. Damaged(packet, packet, header_size) = {}
  BY DEF Damaged
<1> QED
  BY <1>1, FS_EmptySet

LEMMA OneMore ==
  ASSUME NEW D, IsFiniteSet(D), NEW x
  PROVE  /\ IsFiniteSet(D \cup {x}) /\ Cardinality(D \cup {x}) \in Nat
         /\ Cardinality(D \cup {x}) <= Cardinality(D) + 1
<1>1. Cardinality(D) \in Nat
  BY FS_CardinalityType
<1>2. CASE x \in D
  <2>1. D \cup {x} = D
    BY <1>2
  <2> QED
    BY <1>1, <2>1
<1>3. CASE x \notin D
  BY <1>1, <1>3, FS_AddElement
<1> QED
  BY <1>2, <1>3

LEMMA NextByteOfByte == \A b \in Byte : (b + 1) % (UINT8_MAX + 1) \in Byte
BY ByteAssumption, SMT DEF Byte

\* Places behind a header of h bytes, counted from its end and from the start.
LEMMA PlacesBehindTheHeader ==
  ASSUME NEW n \in Nat, NEW h \in Nat, NEW r \in Int, NEW i \in Int,
         NEW k \in 1..n - h, k # r + i - h
  PROVE  h + k \in 1..n /\ h + k # r + i
OBVIOUS

\* The place before the k-th, in what follows the CRC and in the packet.
LEMMA PlaceBefore ==
  ASSUME NEW n \in Nat, NEW h \in Nat, NEW k \in 1..n + 1, k # 1
  PROVE  k - 1 \in 1..n /\ h + 1 + (k - 1) = h + k /\ (k - 1) + 1 = k
OBVIOUS

\* The line changes one byte behind the header.
LEMMA FramedDisturb ==
  ASSUME NEW rx, NEW queue, NEW expected, NEW packet \in Seq(Byte),
         NEW header_size \in Nat, NEW max_size,
         Framed(rx, queue, expected, packet, header_size, max_size),
         NEW i \in DOMAIN queue, Len(rx) + i - 1 >= header_size
  PROVE  /\ Disturbed(queue, i) # <<>>
         /\ Framed(rx, Disturbed(queue, i), expected, packet, header_size, max_size)
         /\ Cardinality(Damaged(rx \o Disturbed(queue, i), packet, header_size))
              <= Cardinality(Damaged(rx \o queue, packet, header_size)) + 1
<1> DEFINE changed == Disturbed(queue, i)
           place   == Len(rx) + i - header_size
<1>1. rx \in Seq(Byte) /\ queue \in Seq(Byte) /\ i \in 1..Len(queue) /\ Len(rx) \in Nat
  BY DEF Framed
<1>2. changed \in Seq(Byte) /\ Len(changed) = Len(queue)
  <2>1. (queue[i] + 1) % (UINT8_MAX + 1) \in Byte
    BY <1>1, NextByteOfByte
  <2> QED
    BY <1>1, <2>1 DEF Disturbed
<1>3. \A j \in 1..Len(queue) : j # i => changed[j] = queue[j]
  BY <1>1 DEF Disturbed
<1> HIDE DEF changed
<1>4. /\ LikePacket(rx \o queue, packet, header_size)
      /\ expected = IF Len(rx) < header_size THEN max_size ELSE Len(packet)
      /\ Len(rx) + Len(queue) = Len(packet)
      /\ Len(queue) > 0 /\ Len(queue) \in Nat
  BY <1>1 DEF Framed, LikePacket
<1>5. \A k \in 1..Len(packet) : k # Len(rx) + i => (rx \o changed)[k] = (rx \o queue)[k]
  <2> TAKE k \in 1..Len(packet)
  <2> HAVE k # Len(rx) + i
  <2>1. CASE k <= Len(rx)
    BY <2>1, <1>1, <1>2
  <2>2. CASE ~(k <= Len(rx))
    <3>1. /\ (rx \o changed)[k] = changed[k - Len(rx)] /\ (rx \o queue)[k] = queue[k - Len(rx)]
          /\ k - Len(rx) \in 1..Len(queue) /\ k - Len(rx) # i
      BY <2>2, <1>1, <1>2, <1>4
    <3> QED
      BY <3>1, <1>3
  <2> QED
    BY <2>1, <2>2
<1>6. changed # <<>>
  BY <1>2, <1>4
<1>7. LikePacket(rx \o changed, packet, header_size)
  <2>1. Len(rx \o changed) = Len(packet)
    <3>1. Len(rx \o changed) = Len(rx) + Len(changed)
      BY <1>1, <1>2, ConcatProperties
    <3> QED
      BY <3>1, <1>2, <1>4
  <2>2. header_size <= Len(packet)
    BY <1>1, <1>4
  <2>3. \A k \in 1..header_size : k \in 1..Len(packet) /\ k # Len(rx) + i
    BY <1>1, <1>4, <2>2
  <2> QED
    BY <1>4, <1>5, <2>1, <2>3 DEF LikePacket
<1>8. Framed(rx, changed, expected, packet, header_size, max_size)
  BY <1>1, <1>2, <1>4, <1>6, <1>7 DEF Framed
<1>9. Cardinality(Damaged(rx \o changed, packet, header_size))
        <= Cardinality(Damaged(rx \o queue, packet, header_size)) + 1
  <2> DEFINE D == Damaged(rx \o queue, packet, header_size)
             C == Damaged(rx \o changed, packet, header_size)
  <2>1. IsFiniteSet(D) /\ Cardinality(D) \in Nat /\ IsFiniteSet(C) /\ Cardinality(C) \in Nat
    BY DamageIsFinite
  <2>2. C \subseteq D \cup {place}
    <3> SUFFICES ASSUME NEW k \in C, k # place
                 PROVE  k \in D
      OBVIOUS
    <3>1. /\ k \in 1..Len(packet) - header_size
          /\ (rx \o changed)[header_size + k] # packet[header_size + k]
      BY DEF Damaged
    <3>2. header_size + k \in 1..Len(packet) /\ header_size + k # Len(rx) + i
      <4>1. Len(rx) \in Int /\ i \in Int /\ Len(packet) \in Nat
        BY <1>1
      <4> QED
        BY <3>1, <4>1, PlacesBehindTheHeader
    <3> QED
      BY <1>5, <3>1, <3>2 DEF Damaged
  <2> HIDE DEF C, D
  <2>3. /\ IsFiniteSet(D \cup {place})
        /\ Cardinality(D \cup {place}) <= Cardinality(D) + 1
        /\ Cardinality(D \cup {place}) \in Nat
    BY <2>1, OneMore
  <2>4. Cardinality(C) <= Cardinality(D \cup {place})
    BY <2>2, <2>3, FS_Subset
  <2>5. Cardinality(C) <= Cardinality(D) + 1
    BY <2>1, <2>3, <2>4
  <2> QED
    BY <2>5 DEF C, D
<1> QED
  BY <1>6, <1>8, <1>9 DEF changed

\* How many bytes are under way is known from the header.
LEMMA FramedCount ==
  ASSUME NEW rx, NEW queue, NEW expected, NEW packet \in Seq(Byte),
         NEW header_size \in Nat, NEW max_size, header_size < Len(packet),
         NEW size,
         Framed(rx, queue, expected, packet, header_size, max_size),
         queue # <<>> => size = Len(packet)
  PROVE  header_size > 0 =>
           PacketsIn(rx \o queue, header_size, size) = IF queue = <<>> THEN 0 ELSE 1
<1> SUFFICES ASSUME header_size > 0
             PROVE  PacketsIn(rx \o queue, header_size, size) = IF queue = <<>> THEN 0 ELSE 1
  OBVIOUS
<1> DEFINE bytes == rx \o queue
<1>1. CASE queue = <<>>
  <2>1. bytes = <<>>
    BY <1>1, ConcatEmptySeq DEF Framed
  <2>2. Len(bytes) < header_size
    BY <2>1
  <2> QED
    BY <1>1, <2>2 DEF PacketsIn
<1>2. CASE queue # <<>>
  <2>1. Len(bytes) = Len(packet) /\ Len(packet) \in Nat
    BY <1>2 DEF Framed, LikePacket
  <2> HIDE DEF bytes
  <2>2. ~(Len(bytes) < header_size) /\ ~(Len(bytes) < size) /\ Len(bytes) = size
    BY <1>2, <2>1
  <2>3. PacketsIn(bytes, header_size, size) = 1
    BY <2>2 DEF PacketsIn
  <2> QED
    BY <1>2, <2>3 DEF bytes
<1> QED
  BY <1>1, <1>2

\* A payload behind its CRC, as it is on the line.
Checked(payload) == <<GenerateCrc8(payload)>> \o payload

\* The CRC tells two payloads of the same length apart as long as the line
\* changes no more than MaxFaults bytes of one and its CRC: that one byte does
\* not make it another is what a CRC of 8 bits is for.
DetectsFaults ==
  \A p, q \in Payload :
    /\ Len(p) = Len(q)
    /\ Cardinality({k \in 1..Len(p) + 1 : Checked(p)[k] # Checked(q)[k]}) <= MaxFaults
    => p = q

\* If both CRCs hold, a packet that arrives like the one sent is that one.
LEMMA DamageShows ==
  ASSUME DetectsFaults,
         NEW packet \in Seq(Byte), NEW bytes \in Seq(Byte), NEW header_size \in Nat,
         header_size + 1 <= Len(packet), Len(packet) - header_size - 1 <= UINT8_MAX,
         LikePacket(bytes, packet, header_size),
         packet[header_size + 1]
           = GenerateCrc8(SubSeq(packet, header_size + 2, Len(packet))),
         bytes[header_size + 1]
           = GenerateCrc8(SubSeq(bytes, header_size + 2, Len(packet))),
         Cardinality(Damaged(bytes, packet, header_size)) <= MaxFaults
  PROVE  SubSeq(bytes, header_size + 2, Len(packet))
           = SubSeq(packet, header_size + 2, Len(packet))
<1> DEFINE size == Len(packet) - header_size - 1
           p == SubSeq(packet, header_size + 2, Len(packet))
           q == SubSeq(bytes, header_size + 2, Len(packet))
<1>0. Len(bytes) = Len(packet) /\ Len(packet) \in Nat /\ size \in Nat /\ UINT8_MAX \in Nat
  BY ByteAssumption DEF LikePacket
<1>1. /\ p \in Seq(Byte) /\ Len(p) = size
      /\ \A k \in 1..size : p[k] = packet[header_size + 1 + k]
  <2>1. /\ SubSeq(packet, header_size + 2, Len(packet)) \in Seq(Byte)
        /\ Len(SubSeq(packet, header_size + 2, Len(packet))) = size
        /\ \A k \in 1..size :
             SubSeq(packet, header_size + 2, Len(packet))[k] = packet[header_size + 2 + k - 1]
    BY <1>0, SubSeqProperties
  <2> QED
    BY <1>0, <2>1
<1>2. /\ q \in Seq(Byte) /\ Len(q) = size
      /\ \A k \in 1..size : q[k] = bytes[header_size + 1 + k]
  <2>1. /\ SubSeq(bytes, header_size + 2, Len(packet)) \in Seq(Byte)
        /\ Len(SubSeq(bytes, header_size + 2, Len(packet))) = size
        /\ \A k \in 1..size :
             SubSeq(bytes, header_size + 2, Len(packet))[k] = bytes[header_size + 2 + k - 1]
    BY <1>0, SubSeqProperties
  <2> QED
    BY <1>0, <2>1
<1>3. GenerateCrc8(p) = packet[header_size + 1] /\ GenerateCrc8(q) = bytes[header_size + 1]
  OBVIOUS
<1> HIDE DEF p, q, size
<1>4. ASSUME NEW s \in Seq(Byte), Len(s) = size, NEW b \in Seq(Byte), Len(b) = Len(packet),
             \A k \in 1..size : s[k] = b[header_size + 1 + k],
             GenerateCrc8(s) = b[header_size + 1]
      PROVE  \A k \in 1..size + 1 : Checked(s)[k] = b[header_size + k]
  <2>0. GenerateCrc8(s) \in Byte
    BY <1>0, <1>4
  <2>1. /\ Checked(s)[1] = GenerateCrc8(s)
        /\ \A k \in 1..size : Checked(s)[k + 1] = s[k]
    <3>1. <<GenerateCrc8(s)>> \in Seq(Byte) /\ Len(<<GenerateCrc8(s)>>) = 1
      BY <2>0
    <3>2. \A k \in 1..size + 1 : Checked(s)[k] = IF k <= 1 THEN <<GenerateCrc8(s)>>[k]
                                                 ELSE s[k - 1]
      BY <1>4, <3>1, ConcatProperties DEF Checked
    <3> QED
      BY <1>0, <3>2
  <2> TAKE k \in 1..size + 1
  <2>2. CASE k = 1
    BY <2>1, <2>2, <1>4
  <2>3. CASE k # 1
    <3>1. k - 1 \in 1..size /\ header_size + 1 + (k - 1) = header_size + k /\ (k - 1) + 1 = k
      BY <1>0, <2>3, PlaceBefore
    <3>2. Checked(s)[(k - 1) + 1] = s[k - 1] /\ s[k - 1] = b[header_size + 1 + (k - 1)]
      BY <3>1, <2>1, <1>4
    <3> QED
      BY <3>1, <3>2
  <2> QED
    BY <2>2, <2>3
<1>5. \A k \in 1..size + 1 : /\ Checked(p)[k] = packet[header_size + k]
                             /\ Checked(q)[k] = bytes[header_size + k]
  BY <1>0, <1>1, <1>2, <1>3, <1>4
<1>6. 1..Len(packet) - header_size = 1..Len(q) + 1
  BY <1>0, <1>2 DEF size
<1>7. {k \in 1..Len(q) + 1 : Checked(q)[k] # Checked(p)[k]} = Damaged(bytes, packet, header_size)
  BY <1>2, <1>5, <1>6 DEF Damaged
<1>8. p \in Payload /\ q \in Payload
  BY <1>0, <1>1, <1>2 DEF Payload, size
<1> QED
  BY <1>1, <1>2, <1>7, <1>8 DEF DetectsFaults, p, q

LEMMA RequestPacket ==
  ASSUME Crc8Assumption, NEW req \in Request
  PROVE  LET packet == SerializeRequest(req) IN
         /\ packet \in Seq(Byte)
         /\ Len(packet) = 5 + Len(req.payload)
         /\ Len(req.payload) \in Nat /\ Len(req.payload) <= UINT8_MAX
         /\ RequestHeaderSize = 4 /\ RequestMaxSize = 5 + UINT8_MAX
         /\ RequestHeaderSize + 1 < RequestMaxSize /\ RequestHeaderSize < Len(packet)
         /\ Len(packet) <= RequestMaxSize
<1>1. req.payload \in Seq(Byte) /\ Len(req.payload) <= UINT8_MAX
  BY DEF Request, Payload
<1>2. SerializeRequest(req) \in Seq(Byte) /\ DeSerializeRequest(SerializeRequest(req)) = req
  BY RequestRoundTrip
<1>3. Len(SerializeRequest(req)) = 5 + Len(req.payload)
  BY RequestRoundTrip DEF RequestPacketSize, RequestHeaderSize
<1> QED
  BY <1>1, <1>2, <1>3, ByteAssumption
     DEF RequestHeaderSize, RequestMaxSize, RequestPacketSize

LEMMA ResponsePacket ==
  ASSUME Crc8Assumption, NEW resp \in Response
  PROVE  LET packet == SerializeResponse(resp) IN
         /\ packet \in Seq(Byte)
         /\ Len(packet) = 4 + Len(resp.payload)
         /\ Len(resp.payload) \in Nat /\ Len(resp.payload) <= UINT8_MAX
         /\ ResponseHeaderSize = 3 /\ ResponseMaxSize = 4 + UINT8_MAX
         /\ ResponseHeaderSize + 1 < ResponseMaxSize /\ ResponseHeaderSize < Len(packet)
         /\ Len(packet) <= ResponseMaxSize
<1>1. resp.payload \in Seq(Byte) /\ Len(resp.payload) <= UINT8_MAX
  BY DEF Response, Payload
<1>2. SerializeResponse(resp) \in Seq(Byte)
  BY ResponseRoundTrip
<1>3. Len(SerializeResponse(resp)) = 4 + Len(resp.payload)
  BY ResponseRoundTrip DEF ResponsePacketSize, ResponseHeaderSize
<1> QED
  BY <1>1, <1>2, <1>3, ByteAssumption
     DEF ResponseHeaderSize, ResponseMaxSize, ResponsePacketSize

\* Whoever has the four bytes of a request's header knows that its CRC holds,
\* and how long the packet is.
LEMMA RequestHeader ==
  ASSUME Crc8Assumption, NEW req \in Request, NEW bytes,
         \A k \in 1..RequestHeaderSize : bytes[k] = SerializeRequest(req)[k]
  PROVE  /\ RequestHeaderHasValidCrc(bytes)
         /\ RequestPacketSize(RequestPayloadSize(bytes)) = Len(SerializeRequest(req))
         /\ bytes[1] = req.receiver_id /\ bytes[2] = req.operation_code
<1> DEFINE packet == SerializeRequest(req)
<1>1. /\ Len(packet) = RequestPacketSize(RequestPayloadSize(packet))
      /\ RequestHeaderHasValidCrc(packet) /\ DeSerializeRequest(packet) = req
  BY RequestRoundTrip DEF RequestPayloadHasValidCrc
<1>2. packet[1] = req.receiver_id /\ packet[2] = req.operation_code
  BY <1>1 DEF DeSerializeRequest
<1>3. /\ bytes[1] = packet[1] /\ bytes[2] = packet[2]
      /\ bytes[3] = packet[3] /\ bytes[4] = packet[4]
  BY DEF RequestHeaderSize
<1> HIDE DEF packet
<1>4. RequestHeaderHasValidCrc(bytes)
  BY <1>1, <1>3 DEF RequestHeaderHasValidCrc
<1>5. RequestPacketSize(RequestPayloadSize(bytes)) = Len(packet)
  BY <1>1, <1>3 DEF RequestPayloadSize
<1> QED
  BY <1>2, <1>3, <1>4, <1>5 DEF packet

LEMMA ResponseHeader ==
  ASSUME Crc8Assumption, NEW resp \in Response, NEW bytes,
         \A k \in 1..ResponseHeaderSize : bytes[k] = SerializeResponse(resp)[k]
  PROVE  /\ ResponseHeaderHasValidCrc(bytes)
         /\ ResponsePacketSize(ResponsePayloadSize(bytes)) = Len(SerializeResponse(resp))
         /\ bytes[1] = resp.response_code
<1> DEFINE packet == SerializeResponse(resp)
<1>1. /\ Len(packet) = ResponsePacketSize(ResponsePayloadSize(packet))
      /\ ResponseHeaderHasValidCrc(packet) /\ DeSerializeResponse(packet) = resp
  BY ResponseRoundTrip DEF ResponsePayloadHasValidCrc
<1>2. packet[1] = resp.response_code
  BY <1>1 DEF DeSerializeResponse
<1>3. bytes[1] = packet[1] /\ bytes[2] = packet[2] /\ bytes[3] = packet[3]
  BY DEF ResponseHeaderSize
<1> HIDE DEF packet
<1>4. ResponseHeaderHasValidCrc(bytes)
  BY <1>1, <1>3 DEF ResponseHeaderHasValidCrc
<1>5. ResponsePacketSize(ResponsePayloadSize(bytes)) = Len(packet)
  BY <1>1, <1>3 DEF ResponsePayloadSize
<1> QED
  BY <1>2, <1>3, <1>4, <1>5 DEF packet

\* A request whose CRCs hold at the device is the one that was sent.
LEMMA RequestArrives ==
  ASSUME Crc8Assumption, DetectsFaults, NEW req \in Request, NEW bytes \in Seq(Byte),
         LikePacket(bytes, SerializeRequest(req), RequestHeaderSize),
         Cardinality(Damaged(bytes, SerializeRequest(req), RequestHeaderSize)) <= MaxFaults,
         RequestPayloadHasValidCrc(bytes)
  PROVE  DeSerializeRequest(bytes) = req
<1> DEFINE packet == SerializeRequest(req)
<1>1. /\ packet \in Seq(Byte) /\ RequestHeaderSize = 4 /\ Len(packet) \in Nat
      /\ 4 + 1 <= Len(packet) /\ Len(packet) - 4 - 1 <= UINT8_MAX
  BY RequestPacket
<1>2. /\ RequestPacketSize(RequestPayloadSize(bytes)) = Len(packet)
      /\ bytes[1] = req.receiver_id /\ bytes[2] = req.operation_code
  BY RequestHeader DEF LikePacket
<1>3. /\ Len(packet) = RequestPacketSize(RequestPayloadSize(packet))
      /\ RequestPayloadHasValidCrc(packet) /\ DeSerializeRequest(packet) = req
  BY RequestRoundTrip
<1> HIDE DEF packet
<1>4. packet[4 + 1] = GenerateCrc8(SubSeq(packet, 4 + 2, Len(packet)))
  BY <1>1, <1>3 DEF RequestPayloadHasValidCrc, DeSerializeRequest
<1>5. bytes[4 + 1] = GenerateCrc8(SubSeq(bytes, 4 + 2, Len(packet)))
  BY <1>1, <1>2 DEF RequestPayloadHasValidCrc, DeSerializeRequest
<1>6. SubSeq(bytes, 4 + 2, Len(packet)) = SubSeq(packet, 4 + 2, Len(packet))
  <2>1. /\ LikePacket(bytes, packet, 4)
        /\ Cardinality(Damaged(bytes, packet, 4)) <= MaxFaults
    BY <1>1 DEF packet
  <2> QED
    BY <1>1, <1>4, <1>5, <2>1, DamageShows
<1>7. packet[1] = req.receiver_id /\ packet[2] = req.operation_code
  BY <1>3 DEF DeSerializeRequest
<1>8. DeSerializeRequest(bytes) = DeSerializeRequest(packet)
  BY <1>1, <1>2, <1>3, <1>6, <1>7 DEF DeSerializeRequest
<1> QED
  BY <1>3, <1>8

LEMMA ResponseArrives ==
  ASSUME Crc8Assumption, DetectsFaults, NEW resp \in Response, NEW bytes \in Seq(Byte),
         LikePacket(bytes, SerializeResponse(resp), ResponseHeaderSize),
         Cardinality(Damaged(bytes, SerializeResponse(resp), ResponseHeaderSize)) <= MaxFaults,
         ResponsePayloadHasValidCrc(bytes)
  PROVE  DeSerializeResponse(bytes) = resp
<1> DEFINE packet == SerializeResponse(resp)
<1>1. /\ packet \in Seq(Byte) /\ ResponseHeaderSize = 3 /\ Len(packet) \in Nat
      /\ 3 + 1 <= Len(packet) /\ Len(packet) - 3 - 1 <= UINT8_MAX
  BY ResponsePacket
<1>2. /\ ResponsePacketSize(ResponsePayloadSize(bytes)) = Len(packet)
      /\ bytes[1] = resp.response_code
  BY ResponseHeader DEF LikePacket
<1>3. /\ Len(packet) = ResponsePacketSize(ResponsePayloadSize(packet))
      /\ ResponsePayloadHasValidCrc(packet) /\ DeSerializeResponse(packet) = resp
  BY ResponseRoundTrip
<1> HIDE DEF packet
<1>4. packet[3 + 1] = GenerateCrc8(SubSeq(packet, 3 + 2, Len(packet)))
  BY <1>1, <1>3 DEF ResponsePayloadHasValidCrc, DeSerializeResponse
<1>5. bytes[3 + 1] = GenerateCrc8(SubSeq(bytes, 3 + 2, Len(packet)))
  BY <1>1, <1>2 DEF ResponsePayloadHasValidCrc, DeSerializeResponse
<1>6. SubSeq(bytes, 3 + 2, Len(packet)) = SubSeq(packet, 3 + 2, Len(packet))
  <2>1. /\ LikePacket(bytes, packet, 3)
        /\ Cardinality(Damaged(bytes, packet, 3)) <= MaxFaults
    BY <1>1 DEF packet
  <2> QED
    BY <1>1, <1>4, <1>5, <2>1, DamageShows
<1>7. packet[1] = resp.response_code
  BY <1>3 DEF DeSerializeResponse
<1>8. DeSerializeResponse(bytes) = DeSerializeResponse(packet)
  BY <1>1, <1>2, <1>3, <1>6, <1>7 DEF DeSerializeResponse
<1> QED
  BY <1>3, <1>8

-----------------------------------------------------------------------------
(* The two ends.                                                           *)

\* What the adapter of registerCommandHandler lets a command handler return.
HandlersAnswer ==
  \A o \in HandledOperations, p \in Payload :
    HandlerResponses(o, p) \subseteq [response_code : HandlerCode, payload : Payload]

Statistics == [{"total", "corrupted", "valid", "timed_out"} -> Nat]

\* Each end has read a proper part of the packet on its way to it, and the two
\* packets are the host's last request and the device's last response.
LinkInv ==
  /\ Framed(s_rx_buffer, to_slave, s_expected_packet_size,
            SerializeRequest(command), RequestHeaderSize, RequestMaxSize)
  /\ Framed(m_rx_buffer, to_master, m_expected_packet_size,
            SerializeResponse(s_response), ResponseHeaderSize, ResponseMaxSize)
  /\ s_pc \in {"run", "answering"} /\ m_pc \in {"idle", "waiting"}
  /\ command \in Request /\ s_response \in Response
  /\ s_stats \in Statistics /\ m_stats \in Statistics

\* A call is in one place at a time: its request under way, in the device's
\* hands, or its answer under way; and until it is nowhere the host waits.
OneStage ==
  /\ to_slave # <<>> => s_pc = "run" /\ to_master = <<>> /\ m_pc = "waiting"
  /\ s_pc = "answering" => to_slave = <<>> /\ to_master = <<>> /\ m_pc = "waiting"
  /\ to_master # <<>> => to_slave = <<>> /\ s_pc = "run" /\ m_pc = "waiting"
  /\ (to_slave # <<>> \/ s_pc = "answering" \/ to_master # <<>>)
       => ~(m_elapsed > K_MASTER_TIMEOUT_MS)

LEMMA RequestCount ==
  ASSUME Crc8Assumption, NEW rx, NEW queue, NEW expected, NEW req \in Request,
         Framed(rx, queue, expected, SerializeRequest(req), RequestHeaderSize, RequestMaxSize)
  PROVE  PacketsIn(rx \o queue, RequestHeaderSize,
                   RequestPacketSize(RequestPayloadSize(rx \o queue)))
           = IF queue = <<>> THEN 0 ELSE 1
<1> DEFINE packet == SerializeRequest(req)
           size == RequestPacketSize(RequestPayloadSize(rx \o queue))
<1>1. /\ packet \in Seq(Byte) /\ RequestHeaderSize < Len(packet)
      /\ RequestHeaderSize \in Nat /\ RequestHeaderSize > 0
  BY RequestPacket
<1>2. queue # <<>> => size = Len(packet)
  BY RequestHeader DEF Framed, LikePacket
<1> HIDE DEF packet, size
<1>3. Framed(rx, queue, expected, packet, RequestHeaderSize, RequestMaxSize)
  BY DEF packet
<1>4. PacketsIn(rx \o queue, RequestHeaderSize, size) = IF queue = <<>> THEN 0 ELSE 1
  BY <1>1, <1>2, <1>3, FramedCount
<1> QED
  BY <1>4 DEF size

LEMMA ResponseCount ==
  ASSUME Crc8Assumption, NEW rx, NEW queue, NEW expected, NEW resp \in Response,
         Framed(rx, queue, expected, SerializeResponse(resp), ResponseHeaderSize, ResponseMaxSize)
  PROVE  PacketsIn(rx \o queue, ResponseHeaderSize,
                   ResponsePacketSize(ResponsePayloadSize(rx \o queue)))
           = IF queue = <<>> THEN 0 ELSE 1
<1> DEFINE packet == SerializeResponse(resp)
           size == ResponsePacketSize(ResponsePayloadSize(rx \o queue))
<1>1. /\ packet \in Seq(Byte) /\ ResponseHeaderSize < Len(packet)
      /\ ResponseHeaderSize \in Nat /\ ResponseHeaderSize > 0
  BY ResponsePacket
<1>2. queue # <<>> => size = Len(packet)
  BY ResponseHeader DEF Framed, LikePacket
<1> HIDE DEF packet, size
<1>3. Framed(rx, queue, expected, packet, ResponseHeaderSize, ResponseMaxSize)
  BY DEF packet
<1>4. PacketsIn(rx \o queue, ResponseHeaderSize, size) = IF queue = <<>> THEN 0 ELSE 1
  BY <1>1, <1>2, <1>3, FramedCount
<1> QED
  BY <1>4 DEF size

LEMMA Counts ==
  ASSUME Crc8Assumption, LinkInv
  PROVE  /\ RequestsUnderWay = IF to_slave = <<>> THEN 0 ELSE 1
         /\ AnswersUnderWay  = IF to_master = <<>> THEN 0 ELSE 1
BY RequestCount, ResponseCount DEF LinkInv, RequestsUnderWay, AnswersUnderWay

LEMMA CountsAfter ==
  ASSUME Crc8Assumption, LinkInv'
  PROVE  /\ RequestsUnderWay' = IF to_slave' = <<>> THEN 0 ELSE 1
         /\ AnswersUnderWay'  = IF to_master' = <<>> THEN 0 ELSE 1
BY RequestCount, ResponseCount DEF LinkInv, RequestsUnderWay, AnswersUnderWay

LEMMA CountOne ==
  ASSUME NEW st \in Statistics, NEW f \in {"total", "corrupted", "valid", "timed_out"}
  PROVE  LET counted == [st EXCEPT ![f] = @ + 1] IN
         /\ counted \in Statistics
         /\ counted[f] = st[f] + 1
         /\ \A g \in {"total", "corrupted", "valid", "timed_out"} :
              g # f => counted[g] = st[g]
BY DEF Statistics

LEMMA CountPacket ==
  ASSUME NEW st \in Statistics, NEW f \in {"corrupted", "valid"}
  PROVE  LET counted == [st EXCEPT !.total = @ + 1, ![f] = @ + 1] IN
         /\ counted \in Statistics
         /\ counted.total = st.total + 1 /\ counted.timed_out = st.timed_out
<1> DEFINE first == [st EXCEPT !.total = @ + 1]
<1>1. first \in Statistics /\ first.total = st.total + 1 /\ first.timed_out = st.timed_out
  BY CountOne
<1>2. [st EXCEPT !.total = @ + 1, ![f] = @ + 1] = [first EXCEPT ![f] = @ + 1]
  BY DEF Statistics
<1> HIDE DEF first
<1>3. /\ [first EXCEPT ![f] = @ + 1] \in Statistics
      /\ [first EXCEPT ![f] = @ + 1].total = first.total
      /\ [first EXCEPT ![f] = @ + 1].timed_out = first.timed_out
  BY <1>1, CountOne
<1> QED
  BY <1>1, <1>2, <1>3

\* The four things run() does to the link: nothing yet, a byte further in the
\* packet; ...
DeviceReads ==
  /\ to_slave # <<>> /\ to_slave' # <<>>
  /\ s_rx_buffer' \o to_slave' = s_rx_buffer \o to_slave
  /\ Framed(s_rx_buffer', to_slave', s_expected_packet_size',
            SerializeRequest(command), RequestHeaderSize, RequestMaxSize)
  /\ UNCHANGED <<to_master, s_elapsed, s_pc, s_response, s_stats, answer_age>>

\* ... the last byte, of a packet it ignores, or of one it will answer, with
\* what its commands make of the request if the CRC holds; ...
DeviceTakes ==
  LET bytes   == s_rx_buffer \o to_slave
      request == DeSerializeRequest(bytes)
  IN
  /\ to_slave # <<>> /\ to_slave' = <<>>
  /\ s_rx_buffer' = <<>> /\ s_expected_packet_size' = RequestMaxSize
  /\ s_pc = "run" /\ s_elapsed' = 0
  /\ UNCHANGED <<to_master, answer_age>>
  /\ \/ s_pc' = "run" /\ UNCHANGED <<s_response, s_stats>>
     \/ /\ s_pc' = "answering"
        /\ \E f \in {"corrupted", "valid"} :
             s_stats' = [s_stats EXCEPT !.total = @ + 1, ![f] = @ + 1]
        /\ request.receiver_id = DeviceId
        /\ \/ s_response' = Slave!CorruptedResponse
           \/ /\ RequestPayloadHasValidCrc(bytes)
              /\ s_response' \in Slave!SlaveResponses(request.operation_code, request.payload)

\* ... the answer, unless it is late.
DeviceAnswers ==
  /\ s_pc = "answering" /\ s_pc' = "run"
  /\ UNCHANGED <<to_slave, s_rx_buffer, s_expected_packet_size, s_elapsed, s_response>>
  /\ \/ /\ s_elapsed > K_SLAVE_TIMEOUT_MS
        /\ s_stats' = [s_stats EXCEPT !.timed_out = @ + 1]
        /\ UNCHANGED <<to_master, answer_age>>
     \/ /\ ~(s_elapsed > K_SLAVE_TIMEOUT_MS)
        /\ to_master' = to_master \o SerializeResponse(s_response)
        /\ answer_age' = IF to_master' # to_master THEN 0 ELSE answer_age
        /\ UNCHANGED s_stats

LEMMA SlaveSteps ==
  ASSUME Crc8Assumption, LinkInv, SlaveRun
  PROVE  /\ DeviceReads \/ DeviceTakes \/ DeviceAnswers
         /\ UNCHANGED <<m_rx_buffer, m_expected_packet_size, m_elapsed, m_pc, m_stats,
                        command, result, calls, faults>>
<1> DEFINE packet == SerializeRequest(command)
           buffer == s_rx_buffer \o <<Head(to_slave)>>
           rest   == Tail(to_slave)
<1>1. /\ packet \in Seq(Byte) /\ RequestHeaderSize = 4
      /\ 4 < Len(packet) /\ 4 + 1 < RequestMaxSize
      /\ Len(packet) <= RequestMaxSize /\ RequestMaxSize \in Nat
  BY RequestPacket, ByteAssumption DEF LinkInv
<1>2. Framed(s_rx_buffer, to_slave, s_expected_packet_size, packet, 4, RequestMaxSize)
  BY <1>1 DEF LinkInv
<1>3. Slave!Buffer = buffer /\ command \in Request
  BY DEF Slave!Buffer, LinkInv
<1>4. /\ UNCHANGED <<m_rx_buffer, m_expected_packet_size, m_elapsed, m_pc, m_stats,
                     command, result, calls, faults>>
      /\ answer_age' = IF to_master' # to_master THEN 0 ELSE answer_age
      /\ Slave!Run
  BY DEF SlaveRun, master_vars
<1>5. ASSUME to_slave # <<>>
      PROVE  /\ buffer \o rest = s_rx_buffer \o to_slave
             /\ Len(buffer) \notin {4, s_expected_packet_size} =>
                  /\ rest # <<>>
                  /\ Framed(buffer, rest, s_expected_packet_size, packet, 4, RequestMaxSize)
             /\ Len(buffer) = 4 =>
                  /\ rest # <<>>
                  /\ \A k \in 1..4 : buffer[k] = packet[k]
                  /\ Framed(buffer, rest, Len(packet), packet, 4, RequestMaxSize)
             /\ (Len(buffer) # 4 /\ Len(buffer) = s_expected_packet_size) =>
                  rest = <<>> /\ buffer = s_rx_buffer \o to_slave
  <2>1. buffer = s_rx_buffer \o <<Head(to_slave)>> /\ rest = Tail(to_slave)
    OBVIOUS
  <2>2. 4 \in Nat
    OBVIOUS
  <2> HIDE DEF packet, buffer, rest
  <2>3. ByteStored(s_rx_buffer, to_slave, s_expected_packet_size, packet, 4,
                   RequestMaxSize, buffer, rest)
    BY <1>1, <1>2, <1>5, <2>1, <2>2, FramedRead
  <2> QED
    BY <2>3 DEF ByteStored
<1>6. (to_slave # <<>> /\ Len(buffer) = 4) =>
        /\ RequestHeaderHasValidCrc(buffer)
        /\ RequestPacketSize(RequestPayloadSize(buffer)) = Len(packet)
  BY <1>1, <1>3, <1>5, RequestHeader
<1> HIDE DEF packet, buffer, rest
<1>7. CASE Slave!StoreByte
  <2>1. /\ to_slave # <<>> /\ to_slave' = rest /\ s_rx_buffer' = buffer
        /\ Len(buffer) \notin {4, s_expected_packet_size}
        /\ UNCHANGED <<to_master, s_expected_packet_size, s_elapsed, s_pc, s_response, s_stats>>
    BY <1>3, <1>7 DEF Slave!StoreByte, Slave!ReadByte, Slave!RequestHeaderSize, rest
  <2>2. DeviceReads
    BY <1>1, <1>4, <1>5, <2>1 DEF DeviceReads, packet
  <2> QED
    BY <1>4, <2>2
<1>8. CASE Slave!AcceptHeader
  <2>1. /\ to_slave # <<>> /\ to_slave' = rest /\ s_rx_buffer' = buffer /\ Len(buffer) = 4
        /\ s_expected_packet_size' = RequestPacketSize(RequestPayloadSize(buffer))
        /\ UNCHANGED <<to_master, s_elapsed, s_pc, s_response, s_stats>>
    BY <1>3, <1>8
       DEF Slave!AcceptHeader, Slave!ReadByte, Slave!RequestHeaderSize, rest,
           Slave!RequestPacketSize, Slave!RequestPayloadSize,
           RequestPacketSize, RequestPayloadSize, RequestHeaderSize
  <2>2. DeviceReads
    BY <1>1, <1>4, <1>5, <1>6, <2>1 DEF DeviceReads, packet
  <2> QED
    BY <1>4, <2>2
<1>9. CASE Slave!RejectHeader
  <2>1. to_slave # <<>> /\ Len(buffer) = 4 /\ ~RequestHeaderHasValidCrc(buffer)
    BY <1>3, <1>9
       DEF Slave!RejectHeader, Slave!ReadByte, Slave!RequestHeaderSize,
           Slave!RequestHeaderHasValidCrc, RequestHeaderHasValidCrc
  <2> QED
    BY <1>6, <2>1
<1>10. ASSUME Slave!PacketReceived
       PROVE  /\ to_slave # <<>> /\ to_slave' = <<>> /\ buffer = s_rx_buffer \o to_slave
              /\ s_rx_buffer' = <<>> /\ s_expected_packet_size' = RequestMaxSize
              /\ s_pc = "run" /\ s_elapsed' = 0 /\ UNCHANGED <<to_master, answer_age>>
  <2>1. /\ to_slave # <<>> /\ to_slave' = rest
        /\ Len(buffer) # 4 /\ Len(buffer) = s_expected_packet_size
        /\ s_rx_buffer' = <<>> /\ s_expected_packet_size' = RequestMaxSize
        /\ s_pc = "run" /\ s_elapsed' = 0 /\ UNCHANGED to_master
    BY <1>3, <1>10
       DEF Slave!PacketReceived, Slave!ReadByte, Slave!RequestHeaderSize, rest,
           Slave!RequestMaxSize, Slave!RequestPacketSize,
           RequestMaxSize, RequestPacketSize, RequestHeaderSize
  <2> QED
    BY <1>4, <1>5, <2>1
<1>11. Slave!DeSerializeRequest(buffer) = DeSerializeRequest(buffer)
  BY DEF Slave!DeSerializeRequest, Slave!RequestHeaderSize, Slave!RequestPacketSize,
         Slave!RequestPayloadSize, DeSerializeRequest, RequestHeaderSize,
         RequestPacketSize, RequestPayloadSize
<1>12. CASE Slave!IgnoreForeignPacket
  <2>1. Slave!PacketReceived /\ UNCHANGED <<s_pc, s_response, s_stats>>
    BY <1>12 DEF Slave!IgnoreForeignPacket
  <2>2. DeviceTakes
    BY <1>10, <2>1 DEF DeviceTakes
  <2> QED
    BY <1>4, <2>2
<1>13. CASE Slave!RejectPayload
  <2>1. /\ Slave!PacketReceived /\ s_pc' = "answering"
        /\ DeSerializeRequest(buffer).receiver_id = DeviceId
        /\ s_response' = Slave!CorruptedResponse
        /\ s_stats' = [s_stats EXCEPT !.total = @ + 1, !.corrupted = @ + 1]
    BY <1>3, <1>11, <1>13 DEF Slave!RejectPayload
  <2>2. DeviceTakes
    BY <1>10, <2>1 DEF DeviceTakes
  <2> QED
    BY <1>4, <2>2
<1>14. CASE Slave!RunCommand
  <2> DEFINE request == DeSerializeRequest(buffer)
  <2>1. /\ Slave!PacketReceived /\ s_pc' = "answering"
        /\ request.receiver_id = DeviceId
        /\ Slave!RequestPayloadHasValidCrc(buffer)
        /\ s_response' \in Slave!SlaveResponses(request.operation_code, request.payload)
        /\ s_stats' = [s_stats EXCEPT !.total = @ + 1, !.valid = @ + 1]
    BY <1>3, <1>11, <1>14 DEF Slave!RunCommand
  <2>2. RequestPayloadHasValidCrc(buffer)
    BY <1>11, <2>1
       DEF Slave!RequestPayloadHasValidCrc, Slave!RequestHeaderHasValidCrc,
           RequestPayloadHasValidCrc, RequestHeaderHasValidCrc
  <2>3. DeviceTakes
    BY <1>10, <2>1, <2>2 DEF DeviceTakes
  <2> QED
    BY <1>4, <2>3
<1>15. CASE Slave!Answer
  <2>1. Slave!SerializeResponse(s_response) = SerializeResponse(s_response)
    BY DEF Slave!SerializeResponse, SerializeResponse
  <2>2. DeviceAnswers
    BY <1>4, <1>15, <2>1 DEF DeviceAnswers, Slave!Answer, Slave!ResponseHasTimedOut, Slave!parser
  <2> QED
    BY <1>4, <2>2
<1> QED
  BY <1>4, <1>7, <1>8, <1>9, <1>12, <1>13, <1>14, <1>15 DEF Slave!Run
-----------------------------------------------------------------------------
\* What the loop of a call does to the link: a byte further in the packet; ...
HostReads ==
  /\ to_master # <<>> /\ to_master' # <<>>
  /\ m_rx_buffer' \o to_master' = m_rx_buffer \o to_master
  /\ Framed(m_rx_buffer', to_master', m_expected_packet_size',
            SerializeResponse(s_response), ResponseHeaderSize, ResponseMaxSize)
  /\ UNCHANGED <<to_slave, m_elapsed, m_pc, m_stats, command, result, calls>>

\* ... the last byte, with which the call returns; ...
HostTakes ==
  LET bytes == m_rx_buffer \o to_master IN
  /\ to_master # <<>> /\ to_master' = <<>>
  /\ m_rx_buffer' = <<>> /\ m_expected_packet_size' = ResponseMaxSize
  /\ m_pc = "waiting" /\ m_pc' = "idle" /\ ~(m_elapsed > K_MASTER_TIMEOUT_MS)
  /\ UNCHANGED <<to_slave, m_elapsed, command, calls>>
  /\ \E f \in {"corrupted", "valid"} :
       m_stats' = [m_stats EXCEPT !.total = @ + 1, ![f] = @ + 1]
  /\ \/ result'.response_code \in {corrupted, malformed_response}
     \/ ResponsePayloadHasValidCrc(bytes) /\ result' = DeSerializeResponse(bytes)

\* ... the timeout.
HostGivesUp ==
  /\ m_pc = "waiting" /\ m_pc' = "idle" /\ m_elapsed > K_MASTER_TIMEOUT_MS
  /\ m_rx_buffer' = <<>> /\ m_expected_packet_size' = ResponseMaxSize
  /\ m_stats' = [m_stats EXCEPT !.timed_out = @ + 1]
  /\ result'.response_code = timed_out
  /\ UNCHANGED <<to_slave, to_master, m_elapsed, command, calls>>

LEMMA MasterSteps ==
  ASSUME Crc8Assumption, LinkInv, MasterPoll
  PROVE  /\ HostReads \/ HostTakes \/ HostGivesUp
         /\ UNCHANGED <<s_rx_buffer, s_expected_packet_size, s_elapsed, s_pc, s_response,
                        s_stats, answer_age, faults>>
<1> DEFINE packet == SerializeResponse(s_response)
           buffer == m_rx_buffer \o <<Head(to_master)>>
           rest   == Tail(to_master)
<1>1. /\ packet \in Seq(Byte) /\ ResponseHeaderSize = 3
      /\ 3 < Len(packet) /\ 3 + 1 < ResponseMaxSize
      /\ Len(packet) <= ResponseMaxSize /\ ResponseMaxSize \in Nat
  BY ResponsePacket, ByteAssumption DEF LinkInv
<1>2. Framed(m_rx_buffer, to_master, m_expected_packet_size, packet, 3, ResponseMaxSize)
  BY <1>1 DEF LinkInv
<1>3. Master!Buffer = buffer /\ s_response \in Response
  BY DEF Master!Buffer, LinkInv
<1>4. /\ UNCHANGED <<s_rx_buffer, s_expected_packet_size, s_elapsed, s_pc, s_response,
                     s_stats, answer_age, faults>>
      /\ UNCHANGED to_slave
      /\ Master!Poll
  BY DEF MasterPoll, slave_vars
<1>5. ASSUME to_master # <<>>
      PROVE  /\ buffer \o rest = m_rx_buffer \o to_master
             /\ Len(buffer) \notin {3, m_expected_packet_size} =>
                  /\ rest # <<>>
                  /\ Framed(buffer, rest, m_expected_packet_size, packet, 3, ResponseMaxSize)
             /\ Len(buffer) = 3 =>
                  /\ rest # <<>>
                  /\ \A k \in 1..3 : buffer[k] = packet[k]
                  /\ Framed(buffer, rest, Len(packet), packet, 3, ResponseMaxSize)
             /\ (Len(buffer) # 3 /\ Len(buffer) = m_expected_packet_size) =>
                  rest = <<>> /\ buffer = m_rx_buffer \o to_master
  <2>1. buffer = m_rx_buffer \o <<Head(to_master)>> /\ rest = Tail(to_master)
    OBVIOUS
  <2>2. 3 \in Nat
    OBVIOUS
  <2> HIDE DEF packet, buffer, rest
  <2>3. ByteStored(m_rx_buffer, to_master, m_expected_packet_size, packet, 3,
                   ResponseMaxSize, buffer, rest)
    BY <1>1, <1>2, <1>5, <2>1, <2>2, FramedRead
  <2> QED
    BY <2>3 DEF ByteStored
<1>6. (to_master # <<>> /\ Len(buffer) = 3) =>
        /\ ResponseHeaderHasValidCrc(buffer)
        /\ ResponsePacketSize(ResponsePayloadSize(buffer)) = Len(packet)
  BY <1>1, <1>3, <1>5, ResponseHeader
<1>7. /\ Master!ResponseHeaderSize = ResponseHeaderSize
      /\ Master!ResponseMaxSize = ResponseMaxSize
      /\ Master!ResponseHeaderHasValidCrc(buffer) <=> ResponseHeaderHasValidCrc(buffer)
      /\ Master!ResponsePayloadHasValidCrc(buffer) <=> ResponsePayloadHasValidCrc(buffer)
      /\ Master!DeSerializeResponse(buffer) = DeSerializeResponse(buffer)
      /\ Master!ResponsePacketSize(Master!ResponsePayloadSize(buffer))
           = ResponsePacketSize(ResponsePayloadSize(buffer))
  BY DEF Master!ResponseHeaderSize, Master!ResponseMaxSize, Master!ResponsePacketSize,
         Master!ResponsePayloadSize, Master!ResponseHeaderHasValidCrc,
         Master!ResponsePayloadHasValidCrc, Master!DeSerializeResponse,
         ResponseHeaderSize, ResponseMaxSize, ResponsePacketSize, ResponsePayloadSize,
         ResponseHeaderHasValidCrc, ResponsePayloadHasValidCrc, DeSerializeResponse
<1> HIDE DEF packet, buffer, rest
<1>8. ASSUME Master!ReadByte
      PROVE  to_master # <<>> /\ to_master' = rest /\ m_pc = "waiting"
             /\ ~(m_elapsed > K_MASTER_TIMEOUT_MS)
  BY <1>8 DEF Master!ReadByte, Master!ResponseHasTimedOut, rest
<1>9. CASE Master!StoreByte
  <2>1. /\ to_master # <<>> /\ to_master' = rest /\ m_rx_buffer' = buffer
        /\ Len(buffer) \notin {3, m_expected_packet_size}
        /\ UNCHANGED <<m_expected_packet_size, m_elapsed, m_pc, m_stats, command, result, calls>>
    BY <1>1, <1>3, <1>7, <1>8, <1>9 DEF Master!StoreByte, Master!call
  <2>2. HostReads
    BY <1>1, <1>4, <1>5, <2>1 DEF HostReads, packet
  <2> QED
    BY <1>4, <2>2
<1>10. CASE Master!AcceptHeader
  <2>1. /\ to_master # <<>> /\ to_master' = rest /\ m_rx_buffer' = buffer /\ Len(buffer) = 3
        /\ m_expected_packet_size' = ResponsePacketSize(ResponsePayloadSize(buffer))
        /\ UNCHANGED <<m_elapsed, m_pc, m_stats, command, result, calls>>
    BY <1>1, <1>3, <1>7, <1>8, <1>10 DEF Master!AcceptHeader, Master!call
  <2>2. HostReads
    BY <1>1, <1>4, <1>5, <1>6, <2>1 DEF HostReads, packet
  <2> QED
    BY <1>4, <2>2
<1>11. CASE Master!RejectHeader
  <2>1. to_master # <<>> /\ Len(buffer) = 3 /\ ~ResponseHeaderHasValidCrc(buffer)
    BY <1>1, <1>3, <1>7, <1>8, <1>11 DEF Master!RejectHeader
  <2> QED
    BY <1>6, <2>1
<1>12. ASSUME Master!PacketReceived, NEW r, Master!Return(r)
       PROVE  /\ to_master # <<>> /\ to_master' = <<>> /\ buffer = m_rx_buffer \o to_master
              /\ m_rx_buffer' = <<>> /\ m_expected_packet_size' = ResponseMaxSize
              /\ m_pc = "waiting" /\ m_pc' = "idle" /\ ~(m_elapsed > K_MASTER_TIMEOUT_MS)
              /\ UNCHANGED <<to_slave, m_elapsed, command, calls>>
              /\ result' = r
  <2>1. /\ to_master # <<>> /\ to_master' = rest /\ m_pc = "waiting"
        /\ ~(m_elapsed > K_MASTER_TIMEOUT_MS)
        /\ Len(buffer) # 3 /\ Len(buffer) = m_expected_packet_size
    BY <1>1, <1>3, <1>7, <1>8, <1>12 DEF Master!PacketReceived
  <2>2. /\ m_rx_buffer' = <<>> /\ m_expected_packet_size' = ResponseMaxSize
        /\ m_pc' = "idle" /\ result' = r
        /\ UNCHANGED <<to_slave, m_elapsed, command, calls>>
    BY <1>7, <1>12 DEF Master!Return
  <2> QED
    BY <1>5, <2>1, <2>2
<1>13. CASE Master!RejectPayload
  <2>1. /\ Master!PacketReceived /\ Master!Return(Master!Failure(corrupted))
        /\ m_stats' = [m_stats EXCEPT !.total = @ + 1, !.corrupted = @ + 1]
    BY <1>3, <1>7, <1>13 DEF Master!RejectPayload, Master!corrupted, corrupted
  <2>2. Master!Failure(corrupted).response_code = corrupted
    BY DEF Master!Failure
  <2>3. HostTakes
    BY <1>12, <2>1, <2>2 DEF HostTakes
  <2> QED
    BY <1>4, <2>3
<1>14. CASE Master!ReceiveResponse
  <2> DEFINE response == DeSerializeResponse(buffer)
             answer == IF ResponseDeserializes(command.operation_code, response.payload)
                         THEN response ELSE Master!Failure(malformed_response)
  <2>1. /\ Master!PacketReceived /\ Master!Return(answer)
        /\ ResponsePayloadHasValidCrc(buffer)
        /\ m_stats' = [m_stats EXCEPT !.total = @ + 1, !.valid = @ + 1]
    BY <1>3, <1>7, <1>14
       DEF Master!ReceiveResponse, Master!malformed_response, malformed_response
  <2>2. Master!Failure(malformed_response).response_code = malformed_response
    BY DEF Master!Failure
  <2>3. answer.response_code \in {corrupted, malformed_response} \/ answer = response
    BY <2>2
  <2> HIDE DEF answer
  <2>4. HostTakes
    BY <1>12, <2>1, <2>3 DEF HostTakes
  <2> QED
    BY <1>4, <2>4
<1>15. CASE Master!TimeOut
  <2>1. Master!Failure(timed_out).response_code = timed_out
    BY DEF Master!Failure
  <2>2. HostGivesUp
    BY <1>4, <1>7, <1>15, <2>1
       DEF HostGivesUp, Master!TimeOut, Master!Return, Master!ResponseHasTimedOut,
           Master!timed_out, timed_out
  <2> QED
    BY <1>4, <2>2
<1> QED
  BY <1>4, <1>9, <1>10, <1>11, <1>13, <1>14, <1>15 DEF Master!Poll
-----------------------------------------------------------------------------
(* The two ends stay in step.  What the delays ensure is taken from the    *)
(* proofs about CommandExchange.                                           *)
Bound == INSTANCE CommandExchangeProofs WITH
  caller <- m_pc,
  elapsed <- m_elapsed,
  requests <- RequestsUnderWay,
  handling <- IF s_pc = "answering" THEN 1 ELSE 0,
  handling_time <- s_elapsed,
  answers <- AnswersUnderWay

LEMMA OneStageHolds ==
  ASSUME Crc8Assumption, AnswersInTime, LinkInv, Bound!IInv
  PROVE  OneStage
<1> DEFINE r == RequestsUnderWay
           h == IF s_pc = "answering" THEN 1 ELSE 0
           a == AnswersUnderWay
<1>1. /\ r = (IF to_slave = <<>> THEN 0 ELSE 1) /\ a = (IF to_master = <<>> THEN 0 ELSE 1)
      /\ h = (IF s_pc = "answering" THEN 1 ELSE 0)
  BY Counts
<1>2. s_pc \in {"run", "answering"} /\ m_pc \in {"idle", "waiting"}
  BY DEF LinkInv
<1>3. /\ m_pc = "idle" => r + h + a = 0
      /\ r + h + a <= 1
  BY DEF Bound!IInv, Bound!LineQuiet
<1>4. m_elapsed \in Int /\ s_elapsed \in Int /\ answer_age \in Int
  BY TimingAssumption DEF Bound!IInv, Bound!TypeOK
<1>5. /\ r = 1 => m_elapsed <= RequestDelay
      /\ h = 1 => s_elapsed <= HandlerDelay /\ m_elapsed <= RequestDelay + s_elapsed
      /\ a = 1 => /\ answer_age <= ResponseDelay
                  /\ m_elapsed <= RequestDelay + K_SLAVE_TIMEOUT_MS + answer_age
  BY DEF Bound!IInv, Bound!InTime
<1> HIDE DEF r, h, a
<1>6. /\ to_slave # <<>> => r = 1 /\ h = 0 /\ a = 0 /\ m_pc = "waiting"
      /\ s_pc = "answering" => r = 0 /\ h = 1 /\ a = 0 /\ m_pc = "waiting"
      /\ to_master # <<>> => r = 0 /\ h = 0 /\ a = 1 /\ m_pc = "waiting"
  BY <1>1, <1>2, <1>3
<1>7. (r = 1 \/ h = 1 \/ a = 1) => ~(m_elapsed > K_MASTER_TIMEOUT_MS)
  BY <1>4, <1>5, TimingAssumption DEF AnswersInTime
<1> QED
  BY <1>1, <1>2, <1>6, <1>7 DEF OneStage

\* The device answers with one of its own codes, or with a handler's.
LEMMA AnswersAreResponses ==
  ASSUME HandlersAnswer, NEW o, NEW p \in Payload
  PROVE  Slave!SlaveResponses(o, p) \cup {Slave!CorruptedResponse} \subseteq Response
<1>1. <<>> \in Payload
  BY ByteAssumption DEF Payload
<1>2. [response_code : HandlerCode, payload : Payload] \subseteq Response
  BY ByteAssumption DEF Response, HandlerCode, InternalCode, Byte, ok, forbidden
<1>3. \A code \in 0..10 : [response_code |-> code, payload |-> <<>>] \in Response
  BY <1>1, ByteAssumption DEF Response, Byte
<1>4. Slave!CorruptedResponse \in Response
  BY <1>3 DEF Slave!CorruptedResponse, Slave!corrupted
<1>5. CASE o \notin HandledOperations
  BY <1>3, <1>4, <1>5 DEF Slave!SlaveResponses, Slave!unknown_operation_code
<1>6. CASE o \in HandledOperations /\ ~RequestDeserializes(o, p)
  BY <1>3, <1>4, <1>6 DEF Slave!SlaveResponses, Slave!malformed_request
<1>7. CASE o \in HandledOperations /\ RequestDeserializes(o, p)
  BY <1>2, <1>4, <1>7 DEF Slave!SlaveResponses, HandlersAnswer
<1> QED
  BY <1>5, <1>6, <1>7

LEMMA RequestOfBytes ==
  ASSUME Crc8Assumption, NEW req \in Request, NEW bytes \in Seq(Byte),
         LikePacket(bytes, SerializeRequest(req), RequestHeaderSize)
  PROVE  /\ DeSerializeRequest(bytes).payload \in Payload
         /\ DeSerializeRequest(bytes).operation_code = req.operation_code
         /\ DeSerializeRequest(bytes).receiver_id = req.receiver_id
<1>1. /\ RequestHeaderSize = 4 /\ RequestHeaderSize < Len(SerializeRequest(req))
      /\ SerializeRequest(req) \in Seq(Byte) /\ Len(req.payload) <= UINT8_MAX
      /\ Len(SerializeRequest(req)) = 5 + Len(req.payload) /\ Len(req.payload) \in Nat
  BY RequestPacket
<1>2. /\ RequestPacketSize(RequestPayloadSize(bytes)) = Len(bytes)
      /\ bytes[1] = req.receiver_id /\ bytes[2] = req.operation_code
  BY RequestHeader DEF LikePacket
<1>3. Len(bytes) \in Nat /\ 4 < Len(bytes) /\ Len(bytes) - 5 <= UINT8_MAX
  BY <1>1, ByteAssumption DEF LikePacket
<1>4. /\ SubSeq(bytes, 4 + 2, Len(bytes)) \in Seq(Byte)
      /\ Len(SubSeq(bytes, 4 + 2, Len(bytes))) <= UINT8_MAX
  <2>1. /\ SubSeq(bytes, 4 + 2, Len(bytes)) \in Seq(Byte)
        /\ Len(SubSeq(bytes, 4 + 2, Len(bytes)))
             = IF 4 + 2 <= Len(bytes) THEN Len(bytes) - (4 + 2) + 1 ELSE 0
    BY <1>3, SubSeqProperties
  <2> QED
    BY <1>3, <2>1, ByteAssumption
<1>5. SubSeq(bytes, 4 + 2, Len(bytes)) \in Payload
  BY <1>4 DEF Payload
<1> QED
  BY <1>1, <1>2, <1>5 DEF DeSerializeRequest

LEMMA FramedBytes ==
  ASSUME NEW rx, NEW queue, NEW expected, NEW packet, NEW header_size, NEW max_size,
         Framed(rx, queue, expected, packet, header_size, max_size)
  PROVE  /\ rx \o queue \in Seq(Byte)
         /\ queue # <<>> => LikePacket(rx \o queue, packet, header_size)
BY ConcatProperties DEF Framed

LEMMA LinkStep ==
  ASSUME Crc8Assumption, HandlersAnswer, ~DisturbHeaders, LinkInv, OneStage, [Next]_vars
  PROVE  LinkInv'
<1> DEFINE req  == SerializeRequest(command)
           resp == SerializeResponse(s_response)
           SlaveFramed  == Framed(s_rx_buffer, to_slave, s_expected_packet_size, req,
                                  RequestHeaderSize, RequestMaxSize)
           MasterFramed == Framed(m_rx_buffer, to_master, m_expected_packet_size, resp,
                                  ResponseHeaderSize, ResponseMaxSize)
<1>1. /\ SlaveFramed /\ MasterFramed
      /\ s_pc \in {"run", "answering"} /\ m_pc \in {"idle", "waiting"}
      /\ command \in Request /\ s_response \in Response
      /\ s_stats \in Statistics /\ m_stats \in Statistics
  BY DEF LinkInv
<1>2. /\ req \in Seq(Byte) /\ RequestHeaderSize \in Nat \ {0}
      /\ resp \in Seq(Byte) /\ ResponseHeaderSize \in Nat \ {0}
      /\ ResponseHeaderSize < Len(resp)
  BY <1>1, RequestPacket, ResponsePacket
<1>3. ASSUME SlaveFramed', MasterFramed',
             s_pc' \in {"run", "answering"}, m_pc' \in {"idle", "waiting"},
             command' \in Request, s_response' \in Response,
             s_stats' \in Statistics, m_stats' \in Statistics
      PROVE  LinkInv'
  BY <1>3 DEF LinkInv
<1>4. CASE SlaveRun
  <2>1. /\ DeviceReads \/ DeviceTakes \/ DeviceAnswers
        /\ UNCHANGED <<m_rx_buffer, m_expected_packet_size, m_elapsed, m_pc, m_stats,
                       command, result, calls, faults>>
    BY <1>4, SlaveSteps
  <2>2. CASE DeviceReads
    <3>1. SlaveFramed' /\ UNCHANGED <<to_master, s_pc, s_response, s_stats>>
      BY <2>1, <2>2 DEF DeviceReads
    <3>2. MasterFramed'
      BY <1>1, <2>1, <3>1
    <3> HIDE DEF SlaveFramed, MasterFramed
    <3> QED
      BY <1>1, <1>3, <2>1, <3>1, <3>2
  <2>3. CASE DeviceTakes
    <3> DEFINE bytes   == s_rx_buffer \o to_slave
               request == DeSerializeRequest(bytes)
    <3>1. /\ to_slave # <<>> /\ to_slave' = <<>> /\ s_rx_buffer' = <<>>
          /\ s_expected_packet_size' = RequestMaxSize
          /\ to_master' = to_master /\ s_pc' \in {"run", "answering"}
      BY <2>3 DEF DeviceTakes
    <3>2. to_master = <<>>
      BY <3>1 DEF OneStage
    <3>3. m_rx_buffer' = <<>> /\ m_expected_packet_size' = ResponseMaxSize
      BY <1>1, <2>1, <3>2 DEF Framed
    <3>4. to_master' = <<>>
      BY <3>1, <3>2
    <3>5. SlaveFramed' /\ MasterFramed'
      BY <3>1, <3>3, <3>4, FramedIdle
    <3>6. request.payload \in Payload
      BY <1>1, <3>1, FramedBytes, RequestOfBytes
    <3>7. \/ UNCHANGED <<s_response, s_stats>>
          \/ /\ s_response' \in Slave!SlaveResponses(request.operation_code, request.payload)
                                  \cup {Slave!CorruptedResponse}
             /\ \E f \in {"corrupted", "valid"} :
                  s_stats' = [s_stats EXCEPT !.total = @ + 1, ![f] = @ + 1]
      BY <2>3 DEF DeviceTakes
    <3> HIDE DEF SlaveFramed, MasterFramed, request
    <3>8. s_response' \in Response /\ s_stats' \in Statistics
      BY <1>1, <3>6, <3>7, AnswersAreResponses, CountPacket
    <3> QED
      BY <1>1, <1>3, <2>1, <3>1, <3>5, <3>8
  <2>4. CASE DeviceAnswers
    <3>1. /\ s_pc = "answering" /\ s_pc' = "run"
          /\ UNCHANGED <<to_slave, s_rx_buffer, s_expected_packet_size, s_response>>
          /\ \/ /\ s_stats' = [s_stats EXCEPT !.timed_out = @ + 1]
                /\ to_master' = to_master
             \/ /\ to_master' = to_master \o resp
                /\ s_stats' = s_stats
      BY <2>4 DEF DeviceAnswers
    <3>2. to_master = <<>>
      BY <3>1 DEF OneStage
    <3>3. SlaveFramed'
      BY <1>1, <2>1, <3>1
    <3>4. Framed(m_rx_buffer, to_master \o resp, m_expected_packet_size, resp,
                 ResponseHeaderSize, ResponseMaxSize)
      <4> HIDE DEF resp
      <4> QED
        BY <1>1, <1>2, <3>2, FramedSend
    <3>5. MasterFramed'
      BY <1>1, <2>1, <3>1, <3>4
    <3>6. s_stats' \in Statistics
      BY <1>1, <3>1, CountOne
    <3> HIDE DEF SlaveFramed, MasterFramed
    <3> QED
      BY <1>1, <1>3, <2>1, <3>1, <3>3, <3>5, <3>6
  <2> QED
    BY <2>1, <2>2, <2>3, <2>4
<1>5. CASE MasterPoll
  <2>1. /\ HostReads \/ HostTakes \/ HostGivesUp
        /\ UNCHANGED <<s_rx_buffer, s_expected_packet_size, s_elapsed, s_pc, s_response,
                       s_stats, answer_age, faults>>
    BY <1>5, MasterSteps
  <2>2. to_slave' = to_slave /\ command' = command
    BY <2>1 DEF HostReads, HostTakes, HostGivesUp
  <2>3. SlaveFramed'
    BY <1>1, <2>1, <2>2
  <2>4. CASE HostReads
    <3>1. MasterFramed' /\ UNCHANGED <<m_pc, m_stats>>
      BY <2>1, <2>4 DEF HostReads
    <3> HIDE DEF SlaveFramed, MasterFramed
    <3> QED
      BY <1>1, <1>3, <2>1, <2>2, <2>3, <3>1
  <2>5. CASE HostTakes
    <3>1. /\ to_master' = <<>> /\ m_rx_buffer' = <<>>
          /\ m_expected_packet_size' = ResponseMaxSize /\ m_pc' = "idle"
          /\ \E f \in {"corrupted", "valid"} :
               m_stats' = [m_stats EXCEPT !.total = @ + 1, ![f] = @ + 1]
      BY <2>5 DEF HostTakes
    <3>2. MasterFramed'
      BY <3>1, FramedIdle
    <3>3. m_stats' \in Statistics
      BY <1>1, <3>1, CountPacket
    <3> HIDE DEF SlaveFramed, MasterFramed
    <3> QED
      BY <1>1, <1>3, <2>1, <2>2, <2>3, <3>1, <3>2, <3>3
  <2>6. CASE HostGivesUp
    <3>1. /\ m_elapsed > K_MASTER_TIMEOUT_MS /\ to_master' = to_master /\ m_rx_buffer' = <<>>
          /\ m_expected_packet_size' = ResponseMaxSize /\ m_pc' = "idle"
          /\ m_stats' = [m_stats EXCEPT !.timed_out = @ + 1]
      BY <2>6 DEF HostGivesUp
    <3>2. to_master' = <<>>
      BY <3>1 DEF OneStage
    <3>3. MasterFramed'
      BY <3>1, <3>2, FramedIdle
    <3>4. m_stats' \in Statistics
      BY <1>1, <3>1, CountOne
    <3> HIDE DEF SlaveFramed, MasterFramed
    <3> QED
      BY <1>1, <1>3, <2>1, <2>2, <2>3, <3>1, <3>3, <3>4
  <2> QED
    BY <2>1, <2>4, <2>5, <2>6
<1>6. CASE MasterCall
  <2>1. /\ m_pc = "idle" /\ m_pc' = "waiting" /\ command' \in Commands
        /\ to_slave' = to_slave \o SerializeRequest(command')
        /\ UNCHANGED <<to_master, m_rx_buffer, m_expected_packet_size, m_stats,
                       s_rx_buffer, s_expected_packet_size, s_pc, s_response, s_stats>>
    BY <1>6 DEF MasterCall, Master!SendCommand, slave_vars, Master!parser,
                Master!SerializeRequest, SerializeRequest, Master!RequestHeaderSize,
                RequestHeaderSize
  <2>2. to_slave = <<>>
    BY <2>1 DEF OneStage
  <2>3. command' \in Request
    BY <2>1, LinkAssumption DEF LinkAssumption
  <2>4. SerializeRequest(command') \in Seq(Byte)
        /\ RequestHeaderSize < Len(SerializeRequest(command'))
    BY <2>3, RequestPacket
  <2>5. Framed(s_rx_buffer, to_slave \o SerializeRequest(command'), s_expected_packet_size,
               SerializeRequest(command'), RequestHeaderSize, RequestMaxSize)
    <3> DEFINE next == SerializeRequest(command')
    <3>1. next \in Seq(Byte) /\ RequestHeaderSize < Len(next)
      BY <2>4
    <3> HIDE DEF next, req
    <3>2. Framed(s_rx_buffer, to_slave \o next, s_expected_packet_size, next,
                 RequestHeaderSize, RequestMaxSize)
      BY <1>1, <1>2, <2>2, <3>1, FramedSend
    <3> QED
      BY <3>2 DEF next
  <2>6. SlaveFramed'
    BY <2>1, <2>5
  <2>7. MasterFramed'
    BY <1>1, <2>1
  <2> HIDE DEF SlaveFramed, MasterFramed
  <2> QED
    BY <1>1, <1>3, <2>1, <2>3, <2>6, <2>7
<1>7. CASE Tick
  <2>1. UNCHANGED <<to_slave, to_master, command, s_rx_buffer, s_expected_packet_size, s_pc,
                    s_response, s_stats, m_rx_buffer, m_expected_packet_size, m_pc, m_stats>>
    BY <1>7 DEF Tick
  <2> QED
    BY <2>1 DEF LinkInv
<1>8. CASE DisturbByte
  <2>1. UNCHANGED <<command, s_rx_buffer, s_expected_packet_size, s_pc,
                    s_response, s_stats, m_rx_buffer, m_expected_packet_size, m_pc, m_stats>>
    BY <1>8 DEF DisturbByte, slave_vars, master_vars
  <2>2. SlaveFramed'
    <3>1. CASE to_slave' = to_slave
      BY <1>1, <2>1, <3>1
    <3>2. ASSUME NEW i \in DOMAIN to_slave, to_slave' = Disturbed(to_slave, i),
                 Len(s_rx_buffer) + i - 1 >= RequestHeaderSize
          PROVE  SlaveFramed'
      <4>1. Framed(s_rx_buffer, Disturbed(to_slave, i), s_expected_packet_size, req,
                   RequestHeaderSize, RequestMaxSize)
        <5> HIDE DEF req
        <5> QED
          BY <1>1, <1>2, <3>2, FramedDisturb
      <4> QED
        BY <2>1, <3>2, <4>1
    <3> QED
      BY <1>8, <3>1, <3>2 DEF DisturbByte, MayDisturb
  <2>3. MasterFramed'
    <3>1. CASE to_master' = to_master
      BY <1>1, <2>1, <3>1
    <3>2. ASSUME NEW i \in DOMAIN to_master, to_master' = Disturbed(to_master, i),
                 Len(m_rx_buffer) + i - 1 >= ResponseHeaderSize
          PROVE  MasterFramed'
      <4>1. Framed(m_rx_buffer, Disturbed(to_master, i), m_expected_packet_size, resp,
                   ResponseHeaderSize, ResponseMaxSize)
        <5> HIDE DEF resp
        <5> QED
          BY <1>1, <1>2, <3>2, FramedDisturb
      <4> QED
        BY <2>1, <3>2, <4>1
    <3> QED
      BY <1>8, <3>1, <3>2 DEF DisturbByte, MayDisturb
  <2> HIDE DEF SlaveFramed, MasterFramed
  <2> QED
    BY <1>1, <1>3, <2>1, <2>2, <2>3
<1>9. CASE UNCHANGED vars
  BY <1>9 DEF vars, slave_vars, master_vars, LinkInv
<1> QED
  BY <1>4, <1>5, <1>6, <1>7, <1>8, <1>9 DEF Next

\* Every step of the link is a step of CommandExchange, or none.
LEMMA ExchangeStep ==
  ASSUME Crc8Assumption, LinkInv, OneStage, LinkInv', m_elapsed \in Nat, [Next]_vars
  PROVE  [Exchange!Next]_(Exchange!vars)
<1> DEFINE r == RequestsUnderWay
           h == IF s_pc = "answering" THEN 1 ELSE 0
           a == AnswersUnderWay
<1>1. /\ r = (IF to_slave = <<>> THEN 0 ELSE 1) /\ a = (IF to_master = <<>> THEN 0 ELSE 1)
      /\ h = (IF s_pc = "answering" THEN 1 ELSE 0)
      /\ r' = (IF to_slave' = <<>> THEN 0 ELSE 1) /\ a' = (IF to_master' = <<>> THEN 0 ELSE 1)
      /\ h' = (IF s_pc' = "answering" THEN 1 ELSE 0)
  BY Counts, CountsAfter
<1>2. ASSUME UNCHANGED <<m_pc, m_elapsed, s_elapsed, answer_age>>, r' = r, h' = h, a' = a
      PROVE  UNCHANGED Exchange!vars
  BY <1>2 DEF Exchange!vars, Exchange!host, Exchange!device, Exchange!line
<1>3. CASE SlaveRun
  <2>1. /\ DeviceReads \/ DeviceTakes \/ DeviceAnswers
        /\ UNCHANGED <<m_elapsed, m_pc>>
    BY <1>3, SlaveSteps
  <2>2. CASE DeviceReads
    <3>1. /\ to_slave # <<>> /\ to_slave' # <<>>
          /\ UNCHANGED <<to_master, s_pc, s_elapsed, answer_age>>
      BY <2>2 DEF DeviceReads
    <3>2. r' = r /\ h' = h /\ a' = a
      BY <1>1, <3>1
    <3> QED
      BY <1>2, <2>1, <3>1, <3>2
  <2>3. CASE DeviceTakes
    <3>1. /\ to_slave # <<>> /\ to_slave' = <<>> /\ s_pc = "run" /\ s_elapsed' = 0
          /\ UNCHANGED <<to_master, answer_age>>
      BY <2>3 DEF DeviceTakes
    <3>2. r = 1 /\ r' = 0 /\ h = 0 /\ h' \in {0, 1} /\ a' = a
      BY <1>1, <3>1
    <3>3. Exchange!TakeRequest
      BY <2>1, <3>1, <3>2 DEF Exchange!TakeRequest, Exchange!host, Exchange!line
    <3> QED
      BY <3>3 DEF Exchange!Next
  <2>4. CASE DeviceAnswers
    <3>1. /\ s_pc = "answering" /\ s_pc' = "run" /\ UNCHANGED <<to_slave, s_elapsed>>
          /\ \/ /\ s_elapsed > K_SLAVE_TIMEOUT_MS
                /\ UNCHANGED <<to_master, answer_age>>
             \/ /\ ~(s_elapsed > K_SLAVE_TIMEOUT_MS)
                /\ to_master' = to_master \o SerializeResponse(s_response)
                /\ answer_age' = IF to_master' # to_master THEN 0 ELSE answer_age
      BY <2>4 DEF DeviceAnswers
    <3>2. to_master = <<>>
      BY <3>1 DEF OneStage
    <3>3. to_master \o SerializeResponse(s_response) # <<>>
      <4> DEFINE next == SerializeResponse(s_response)
      <4>1. next \in Seq(Byte) /\ ResponseHeaderSize \in Nat /\ ResponseHeaderSize < Len(next)
        BY ResponsePacket DEF LinkInv
      <4> HIDE DEF next
      <4>2. next # <<>> /\ to_master \o next = next
        BY <3>2, <4>1, ConcatEmptySeq
      <4> QED
        BY <4>2 DEF next
    <3>4. h = 1 /\ h' = 0 /\ r' = r /\ a = 0
      BY <1>1, <3>1, <3>2
    <3>5. IF s_elapsed > K_SLAVE_TIMEOUT_MS THEN a' = a /\ answer_age' = answer_age
                                           ELSE a' = a + 1 /\ answer_age' = 0
      BY <1>1, <3>1, <3>2, <3>3, <3>4
    <3>6. Exchange!Respond
      BY <2>1, <3>1, <3>4, <3>5 DEF Exchange!Respond, Exchange!host, Exchange!line
    <3> QED
      BY <3>6 DEF Exchange!Next
  <2> QED
    BY <2>1, <2>2, <2>3, <2>4
<1>4. CASE MasterPoll
  <2>1. /\ HostReads \/ HostTakes \/ HostGivesUp
        /\ UNCHANGED <<s_elapsed, s_pc, answer_age>>
    BY <1>4, MasterSteps
  <2>2. CASE HostReads
    <3>1. /\ to_master # <<>> /\ to_master' # <<>> /\ UNCHANGED <<to_slave, m_elapsed, m_pc>>
      BY <2>2 DEF HostReads
    <3>2. r' = r /\ h' = h /\ a' = a
      BY <1>1, <2>1, <3>1
    <3> QED
      BY <1>2, <2>1, <3>1, <3>2
  <2>3. CASE HostTakes
    <3>1. /\ to_master # <<>> /\ to_master' = <<>> /\ m_pc = "waiting" /\ m_pc' = "idle"
          /\ ~(m_elapsed > K_MASTER_TIMEOUT_MS) /\ UNCHANGED <<to_slave, m_elapsed>>
      BY <2>3 DEF HostTakes
    <3>2. a = 1 /\ a' = 0 /\ r' = r /\ h' = h
      BY <1>1, <2>1, <3>1
    <3>3. m_elapsed <= K_MASTER_TIMEOUT_MS
      BY <3>1, TimingAssumption DEF TimingAssumption
    <3>4. Exchange!TakeAnswer
      BY <2>1, <3>1, <3>2, <3>3 DEF Exchange!TakeAnswer, Exchange!device
    <3> QED
      BY <3>4 DEF Exchange!Next
  <2>4. CASE HostGivesUp
    <3>1. /\ m_pc = "waiting" /\ m_pc' = "idle" /\ m_elapsed > K_MASTER_TIMEOUT_MS
          /\ UNCHANGED <<to_slave, to_master, m_elapsed>>
      BY <2>4 DEF HostGivesUp
    <3>2. r' = r /\ h' = h /\ a' = a
      BY <1>1, <2>1, <3>1
    <3>3. Exchange!GiveUp
      BY <2>1, <3>1, <3>2 DEF Exchange!GiveUp, Exchange!device, Exchange!line
    <3> QED
      BY <3>3 DEF Exchange!Next
  <2> QED
    BY <2>1, <2>2, <2>3, <2>4
<1>5. CASE MasterCall
  <2>1. /\ m_pc = "idle" /\ m_pc' = "waiting" /\ command' \in Commands /\ m_elapsed' = 0
        /\ to_slave' = to_slave \o SerializeRequest(command')
        /\ UNCHANGED <<to_master, s_pc, s_elapsed, answer_age>>
    BY <1>5 DEF MasterCall, Master!SendCommand, slave_vars,
                Master!SerializeRequest, SerializeRequest, Master!RequestHeaderSize,
                RequestHeaderSize
  <2>2. to_slave = <<>>
    BY <2>1 DEF OneStage
  <2>3. to_slave' # <<>>
    <3> DEFINE next == SerializeRequest(command')
    <3>1. command' \in Request
      BY <2>1, LinkAssumption DEF LinkAssumption
    <3>2. next \in Seq(Byte) /\ RequestHeaderSize \in Nat /\ RequestHeaderSize < Len(next)
      BY <3>1, RequestPacket
    <3>3. to_slave' = <<>> \o next
      BY <2>1, <2>2
    <3> HIDE DEF next
    <3> QED
      BY <3>2, <3>3, ConcatEmptySeq
  <2>4. r = 0 /\ r' = 1 /\ h' = h /\ a' = a
    BY <1>1, <2>1, <2>2, <2>3
  <2>5. Exchange!Call
    BY <2>1, <2>4 DEF Exchange!Call, Exchange!line
  <2> QED
    BY <2>5 DEF Exchange!Next
<1>6. CASE Tick
  <2>1. /\ to_slave # <<>> /\ s_pc = "run" => m_elapsed < RequestDelay
        /\ s_pc = "answering" => s_elapsed < HandlerDelay
        /\ to_master # <<>> /\ m_pc = "waiting" => answer_age < ResponseDelay
        /\ s_elapsed' = Advance(s_elapsed) /\ m_elapsed' = Advance(m_elapsed)
        /\ answer_age' = Advance(answer_age)
        /\ UNCHANGED <<to_slave, to_master, s_pc, m_pc>>
    BY <1>6 DEF Tick
  <2>2. r' = r /\ h' = h /\ a' = a
    BY <1>1, <2>1
  <2>3. /\ r > 0 /\ h = 0 => m_elapsed < RequestDelay
        /\ h = 1 => s_elapsed < HandlerDelay
        /\ a > 0 /\ m_pc = "waiting" => answer_age < ResponseDelay
    <3>1. /\ r > 0 => to_slave # <<>>
          /\ h = 0 => s_pc = "run"
          /\ h = 1 => s_pc = "answering"
          /\ a > 0 => to_master # <<>>
      BY <1>1 DEF LinkInv
    <3> HIDE DEF r, h, a
    <3> QED
      BY <2>1, <3>1
  <2>4. Exchange!Tick
    BY <2>1, <2>2, <2>3 DEF Exchange!Tick, Exchange!Advance, Advance
  <2> QED
    BY <2>4 DEF Exchange!Next
<1>7. CASE DisturbByte
  <2>1. /\ UNCHANGED <<m_pc, m_elapsed, s_elapsed, s_pc, answer_age>>
        /\ \/ \E i \in DOMAIN to_slave : to_slave' = Disturbed(to_slave, i) /\ UNCHANGED to_master
           \/ \E i \in DOMAIN to_master : to_master' = Disturbed(to_master, i) /\ UNCHANGED to_slave
    BY <1>7 DEF DisturbByte, slave_vars, master_vars
  <2>2. ASSUME NEW queue \in Seq(Byte), NEW i \in DOMAIN queue
        PROVE  queue # <<>> /\ Disturbed(queue, i) # <<>>
    <3>1. Len(Disturbed(queue, i)) = Len(queue) /\ Len(queue) > 0
      BY DEF Disturbed
    <3> QED
      BY <3>1
  <2>3. to_slave \in Seq(Byte) /\ to_master \in Seq(Byte)
    BY DEF LinkInv, Framed
  <2>4. (to_slave' = <<>> <=> to_slave = <<>>) /\ (to_master' = <<>> <=> to_master = <<>>)
    BY <2>1, <2>2, <2>3
  <2>5. r' = r /\ h' = h /\ a' = a
    BY <1>1, <2>1, <2>4
  <2> QED
    BY <1>2, <2>1, <2>5
<1>8. CASE UNCHANGED vars
  <2>1. UNCHANGED <<m_pc, m_elapsed, s_elapsed, s_pc, answer_age, to_slave, to_master>>
    BY <1>8 DEF vars, slave_vars, master_vars
  <2>2. r' = r /\ h' = h /\ a' = a
    BY <1>1, <2>1
  <2> QED
    BY <1>2, <2>1, <2>2
<1> QED
  BY <1>3, <1>4, <1>5, <1>6, <1>7, <1>8 DEF Next

LEMMA SameExchange ==
  /\ Exchange!Init => Bound!Init
  /\ [Exchange!Next]_(Exchange!vars) => [Bound!Next]_(Bound!vars)
<1>1. Exchange!Init => Bound!Init
  BY DEF Exchange!Init, Bound!Init
<1>2. Exchange!Next => Bound!Next
  BY DEF Exchange!Next, Exchange!Call, Exchange!GiveUp, Exchange!TakeAnswer,
         Exchange!TakeRequest, Exchange!Respond, Exchange!Tick, Exchange!Advance,
         Exchange!host, Exchange!device, Exchange!line,
         Bound!Next, Bound!Call, Bound!GiveUp, Bound!TakeAnswer,
         Bound!TakeRequest, Bound!Respond, Bound!Tick, Bound!Advance,
         Bound!host, Bound!device, Bound!line
<1>3. Exchange!vars = Bound!vars /\ Exchange!vars' = Bound!vars'
  BY DEF Exchange!vars, Exchange!host, Exchange!device, Exchange!line,
         Bound!vars, Bound!host, Bound!device, Bound!line
<1> QED
  BY <1>1, <1>2, <1>3

-----------------------------------------------------------------------------
(* What follows if the delays fit the timeouts and the line spares the     *)
(* headers.  The inductive invariant: the two ends are in step byte for    *)
(* byte, and the packet under way is on time.                              *)
LinkIInv == LinkInv /\ Bound!IInv

LEMMA LinkStarts == ASSUME Crc8Assumption, Init PROVE LinkInv /\ Exchange!Init
<1>1. /\ to_slave = <<>> /\ to_master = <<>> /\ s_rx_buffer = <<>> /\ m_rx_buffer = <<>>
      /\ s_pc = "run" /\ m_pc = "idle" /\ s_elapsed \in 0..Horizon /\ m_elapsed = 0
      /\ answer_age = 0 /\ command \in Commands
  BY DEF Init, Slave!Init, Master!Init
<1>2. /\ s_expected_packet_size = RequestMaxSize /\ m_expected_packet_size = ResponseMaxSize
  BY DEF Init, Slave!Init, Master!Init, Slave!RequestMaxSize, Slave!RequestPacketSize,
         Slave!RequestHeaderSize, Master!ResponseMaxSize, Master!ResponsePacketSize,
         Master!ResponseHeaderSize, RequestMaxSize, RequestPacketSize, RequestHeaderSize,
         ResponseMaxSize, ResponsePacketSize, ResponseHeaderSize
<1>3. s_stats \in Statistics /\ m_stats \in Statistics
  BY DEF Init, Slave!Init, Master!Init, Statistics
<1>4. s_response \in Response
  <2>1. s_response = [response_code |-> 2, payload |-> <<>>]
    BY DEF Init, Slave!Init, Slave!CorruptedResponse, Slave!corrupted
  <2>2. <<>> \in Payload /\ 2 \in Byte
    BY ByteAssumption DEF Payload, Byte
  <2> QED
    BY <2>1, <2>2 DEF Response
<1>5. LinkInv
  BY <1>1, <1>2, <1>3, <1>4, FramedIdle, LinkAssumption DEF LinkInv, LinkAssumption
<1>6. RequestsUnderWay = 0 /\ AnswersUnderWay = 0
  BY <1>1, <1>5, Counts
<1> QED
  BY <1>1, <1>5, <1>6 DEF Exchange!Init

LEMMA LinkIInvStep ==
  ASSUME Crc8Assumption, HandlersAnswer, AnswersInTime, ~DisturbHeaders, LinkIInv, [Next]_vars
  PROVE  LinkIInv' /\ OneStage /\ [Exchange!Next]_(Exchange!vars)
<1>1. LinkInv /\ Bound!IInv
  BY DEF LinkIInv
<1>2. OneStage
  BY <1>1, OneStageHolds
<1>3. LinkInv'
  BY <1>1, <1>2, LinkStep
<1>4. m_elapsed \in Nat
  BY <1>1, TimingAssumption DEF Bound!IInv, Bound!TypeOK
<1>5. [Exchange!Next]_(Exchange!vars)
  BY <1>1, <1>2, <1>3, <1>4, ExchangeStep
<1>6. Bound!AnswersInTime
  BY DEF AnswersInTime, Bound!AnswersInTime
<1>7. Bound!IInv'
  <2>1. [Bound!Next]_(Bound!vars)
    BY <1>5, SameExchange
  <2> QED
    BY <1>1, <1>6, <2>1, Bound!IInvInductive, TimingAssumption
       DEF TimingAssumption, Bound!TimingAssumption
<1> QED
  BY <1>2, <1>3, <1>5, <1>7 DEF LinkIInv

LEMMA LinkIInvStarts == ASSUME Crc8Assumption PROVE Init => LinkIInv
<1> SUFFICES ASSUME Init PROVE LinkIInv
  OBVIOUS
<1>1. LinkInv /\ Exchange!Init
  BY LinkStarts
<1>2. Bound!IInv
  BY <1>1, SameExchange, TimingAssumption
     DEF TimingAssumption, Bound!Init, Bound!IInv, Bound!TypeOK, Bound!LineQuiet, Bound!InTime
<1> QED
  BY <1>1, <1>2 DEF LinkIInv

LEMMA LinkIInvInvariant ==
  ASSUME Crc8Assumption, HandlersAnswer, AnswersInTime, ~DisturbHeaders
  PROVE  Spec => []LinkIInv
<1>1. Init => LinkIInv
  BY LinkIInvStarts
<1>2. LinkIInv /\ [Next]_vars => LinkIInv'
  BY LinkIInvStep
<1> QED
  BY <1>1, <1>2, PTL DEF Spec

\* Every behaviour of the link, byte by byte and with bytes disturbed behind the
\* headers, is one of whole packets exchanged in time: run() and the loop of a
\* call never lose the packet boundaries.
THEOREM LinkImplementsExchange ==
  ASSUME Crc8Assumption, HandlersAnswer, AnswersInTime, ~DisturbHeaders
  PROVE  Spec => ImplementsCommandExchange
<1>1. Init => Exchange!Init
  BY LinkStarts
<1>2. LinkIInv /\ [Next]_vars => [Exchange!Next]_(Exchange!vars)
  BY LinkIInvStep
<1> QED
  BY <1>1, <1>2, LinkIInvInvariant, PTL DEF Spec, ImplementsCommandExchange, Exchange!Spec

\* When a call returns, nothing of it is left on the line, in a driver or in the
\* device: the next call of sendCommandAndReceiveResponseBlocking starts clean.
THEOREM LinkLineQuiet ==
  ASSUME Crc8Assumption, HandlersAnswer, AnswersInTime, ~DisturbHeaders
  PROVE  Spec => []LineQuiet
<1>1. LinkIInv => LineQuiet
  <2> SUFFICES ASSUME LinkIInv PROVE LineQuiet
    OBVIOUS
  <2>1. LinkInv /\ OneStage
    BY OneStageHolds DEF LinkIInv
  <2> QED
    BY <2>1 DEF LinkInv, OneStage, LineQuiet, Framed
<1> QED
  BY <1>1, LinkIInvInvariant, PTL

LEMMA LineNeverGrowsAlone ==
  ASSUME Crc8Assumption, LinkInv, Next, ~DeviceAnswers
  PROVE  ~(Len(to_master') > Len(to_master))
<1>1. to_master \in Seq(Byte) /\ Len(to_master) \in Nat
  BY DEF LinkInv, Framed
<1>2. CASE SlaveRun
  BY <1>1, <1>2, SlaveSteps DEF DeviceReads, DeviceTakes
<1>3. CASE MasterPoll
  <2>1. \/ to_master' = to_master
        \/ to_master # <<>> /\ to_master' = Tail(to_master)
    BY <1>3 DEF MasterPoll, Master!Poll, Master!TimeOut, Master!StoreByte, Master!AcceptHeader,
                Master!RejectHeader, Master!RejectPayload, Master!ReceiveResponse,
                Master!PacketReceived, Master!ReadByte
  <2>2. to_master # <<>> => Len(Tail(to_master)) = Len(to_master) - 1
    BY <1>1
  <2> QED
    BY <1>1, <2>1, <2>2
<1>4. CASE MasterCall \/ Tick
  BY <1>1, <1>4 DEF MasterCall, Tick
<1>5. CASE DisturbByte
  <2>1. to_master' = to_master \/ \E i \in DOMAIN to_master : to_master' = Disturbed(to_master, i)
    BY <1>5 DEF DisturbByte
  <2>2. \A i \in DOMAIN to_master : Len(Disturbed(to_master, i)) = Len(to_master)
    BY <1>1 DEF Disturbed
  <2> QED
    BY <1>1, <2>1, <2>2
<1> QED
  BY <1>2, <1>3, <1>4, <1>5 DEF Next

\* The device never starts to answer a call that the host has given up, byte by
\* byte as in the exchange of whole packets.
THEOREM LinkAnswersOnlyWhileWaiting ==
  ASSUME Crc8Assumption, HandlersAnswer, AnswersInTime, ~DisturbHeaders
  PROVE  Spec => AnswersOnlyWhileWaiting
<1>1. LinkIInv /\ [Next]_vars =>
        [Len(to_master') > Len(to_master)
           => m_pc = "waiting" /\ m_elapsed <= K_MASTER_TIMEOUT_MS]_vars
  <2> SUFFICES ASSUME LinkIInv, Next, Len(to_master') > Len(to_master)
               PROVE  m_pc = "waiting" /\ m_elapsed <= K_MASTER_TIMEOUT_MS
    OBVIOUS
  <2>1. LinkInv /\ OneStage
    BY OneStageHolds DEF LinkIInv
  <2>2. s_pc = "answering"
    BY <2>1, LineNeverGrowsAlone DEF DeviceAnswers
  <2>3. m_pc = "waiting" /\ ~(m_elapsed > K_MASTER_TIMEOUT_MS)
    BY <2>1, <2>2 DEF OneStage
  <2>4. m_elapsed \in Int /\ K_MASTER_TIMEOUT_MS \in Int
    BY TimingAssumption DEF LinkIInv, Bound!IInv, Bound!TypeOK
  <2> QED
    BY <2>3, <2>4
<1> QED
  BY <1>1, LinkIInvInvariant, PTL DEF Spec, AnswersOnlyWhileWaiting

\* The statistics of the two ends agree at every moment: no packet is counted
\* twice, and none is lost but those the device drops as late.
THEOREM LinkStatisticsAgree ==
  ASSUME Crc8Assumption, HandlersAnswer, AnswersInTime, ~DisturbHeaders
  PROVE  Spec => []StatisticsAgree
<1>1. Init => StatisticsAgree
  <2> SUFFICES ASSUME Init PROVE StatisticsAgree
    OBVIOUS
  <2>1. AnswersUnderWay = 0
    BY LinkStarts, Counts DEF Init, Master!Init
  <2>2. s_stats.total = 0 /\ s_stats.timed_out = 0 /\ m_stats.total = 0 /\ s_pc = "run"
    BY DEF Init, Slave!Init, Master!Init
  <2> QED
    BY <2>1, <2>2 DEF StatisticsAgree
<1>2. LinkIInv /\ StatisticsAgree /\ [Next]_vars => StatisticsAgree'
  <2> SUFFICES ASSUME LinkIInv, StatisticsAgree, [Next]_vars PROVE StatisticsAgree'
    OBVIOUS
  <2> DEFINE h == IF s_pc = "answering" THEN 1 ELSE 0
             a == AnswersUnderWay
  <2>1. LinkInv /\ LinkInv' /\ OneStage
    BY LinkIInvStep DEF LinkIInv
  <2>2. /\ h = (IF s_pc = "answering" THEN 1 ELSE 0) /\ a = (IF to_master = <<>> THEN 0 ELSE 1)
        /\ h' = (IF s_pc' = "answering" THEN 1 ELSE 0)
        /\ a' = (IF to_master' = <<>> THEN 0 ELSE 1)
    BY <2>1, Counts, CountsAfter
  <2>3. s_stats \in Statistics /\ m_stats \in Statistics /\ s_stats.total \in Nat
        /\ s_stats.timed_out \in Nat /\ m_stats.total \in Nat
    BY <2>1 DEF LinkInv, Statistics
  <2>4. s_stats.total = h + s_stats.timed_out + a + m_stats.total
    BY DEF StatisticsAgree
  <2>5. ASSUME s_stats'.total = h' + s_stats'.timed_out + a' + m_stats'.total
        PROVE  StatisticsAgree'
    BY <2>5 DEF StatisticsAgree
  <2>6. ASSUME UNCHANGED <<s_stats, m_stats>>, h' = h, a' = a
        PROVE  StatisticsAgree'
    BY <2>4, <2>5, <2>6
  <2>7. CASE SlaveRun
    <3>1. (DeviceReads \/ DeviceTakes \/ DeviceAnswers) /\ m_stats' = m_stats
      BY <2>1, <2>7, SlaveSteps
    <3>2. CASE DeviceReads
      BY <2>2, <2>6, <3>1, <3>2 DEF DeviceReads
    <3>3. CASE DeviceTakes
      <4>1. /\ to_master' = to_master /\ s_pc = "run"
            /\ \/ s_pc' = "run" /\ s_stats' = s_stats
               \/ /\ s_pc' = "answering"
                  /\ s_stats'.total = s_stats.total + 1
                  /\ s_stats'.timed_out = s_stats.timed_out
        BY <2>3, <3>3, CountPacket DEF DeviceTakes
      <4>2. a' = a /\ h = 0 /\ h' = (IF s_pc' = "answering" THEN 1 ELSE 0)
        BY <2>2, <4>1
      <4> HIDE DEF h, a
      <4> QED
        BY <2>2, <2>3, <2>4, <2>5, <3>1, <4>1, <4>2
    <3>4. CASE DeviceAnswers
      <4>1. /\ s_pc = "answering" /\ s_pc' = "run"
            /\ \/ /\ s_stats' = [s_stats EXCEPT !.timed_out = @ + 1]
                  /\ to_master' = to_master
               \/ to_master' = to_master \o SerializeResponse(s_response) /\ s_stats' = s_stats
        BY <3>4 DEF DeviceAnswers
      <4>2. to_master = <<>>
        BY <2>1, <4>1 DEF OneStage
      <4>3. to_master \o SerializeResponse(s_response) # <<>>
        <5> DEFINE next == SerializeResponse(s_response)
        <5>1. next \in Seq(Byte) /\ ResponseHeaderSize \in Nat /\ ResponseHeaderSize < Len(next)
          BY <2>1, ResponsePacket DEF LinkInv
        <5> HIDE DEF next
        <5>2. next # <<>> /\ to_master \o next = next
          BY <4>2, <5>1, ConcatEmptySeq
        <5> QED
          BY <5>2 DEF next
      <4>4. \/ /\ s_stats'.total = s_stats.total /\ s_stats'.timed_out = s_stats.timed_out + 1
               /\ to_master' = <<>>
            \/ s_stats' = s_stats /\ to_master' # <<>>
        <5>1. CASE s_stats' = [s_stats EXCEPT !.timed_out = @ + 1]
          <6>1. s_stats'.timed_out = s_stats.timed_out + 1 /\ s_stats'.total = s_stats.total
            BY <2>3, <5>1, CountOne
          <6> QED
            BY <4>1, <4>2, <4>3, <6>1
        <5>2. CASE to_master' = to_master \o SerializeResponse(s_response) /\ s_stats' = s_stats
          BY <4>3, <5>2
        <5> QED
          BY <4>1, <5>1, <5>2
      <4>5. h = 1 /\ h' = 0 /\ a = 0
        BY <2>2, <4>1, <4>2
      <4> HIDE DEF h, a
      <4> QED
        BY <2>2, <2>3, <2>4, <2>5, <3>1, <4>4, <4>5
    <3> QED
      BY <3>1, <3>2, <3>3, <3>4
  <2>8. CASE MasterPoll
    <3>1. (HostReads \/ HostTakes \/ HostGivesUp) /\ UNCHANGED <<s_stats, s_pc>>
      BY <2>1, <2>8, MasterSteps
    <3>2. CASE HostReads
      BY <2>2, <2>6, <3>1, <3>2 DEF HostReads
    <3>3. CASE HostTakes
      <4>1. to_master # <<>> /\ to_master' = <<>> /\ m_stats'.total = m_stats.total + 1
        BY <2>3, <3>3, CountPacket DEF HostTakes
      <4>2. a = 1 /\ a' = 0 /\ h' = h
        BY <2>2, <3>1, <4>1
      <4>3. h \in Nat
        BY <2>2
      <4> HIDE DEF h, a
      <4> QED
        BY <2>3, <2>4, <2>5, <3>1, <4>1, <4>2, <4>3
    <3>4. CASE HostGivesUp
      <4>1. to_master' = to_master /\ m_stats'.total = m_stats.total
        BY <2>3, <3>4, CountOne DEF HostGivesUp
      <4>2. a' = a /\ h' = h
        BY <2>2, <3>1, <4>1
      <4> HIDE DEF h, a
      <4> QED
        BY <2>3, <2>4, <2>5, <3>1, <4>1, <4>2
    <3> QED
      BY <3>1, <3>2, <3>3, <3>4
  <2>9. CASE MasterCall
    BY <2>2, <2>6, <2>9 DEF MasterCall, Master!SendCommand, slave_vars
  <2>10. CASE Tick
    BY <2>2, <2>6, <2>10 DEF Tick
  <2>11. CASE DisturbByte
    <3>1. /\ UNCHANGED <<s_pc, s_stats, m_stats>>
          /\ to_master' = to_master \/ \E i \in DOMAIN to_master : to_master' = Disturbed(to_master, i)
      BY <2>11 DEF DisturbByte, slave_vars, master_vars
    <3>2. ASSUME NEW queue \in Seq(Byte), NEW i \in DOMAIN queue
          PROVE  queue # <<>> /\ Disturbed(queue, i) # <<>>
      <4>1. Len(Disturbed(queue, i)) = Len(queue) /\ Len(queue) > 0
        BY DEF Disturbed
      <4> QED
        BY <4>1
    <3>3. to_master' = <<>> <=> to_master = <<>>
      BY <2>1, <3>1, <3>2 DEF LinkInv, Framed
    <3> QED
      BY <2>2, <2>6, <3>1, <3>3
  <2>12. CASE UNCHANGED vars
    BY <2>2, <2>6, <2>12 DEF vars, slave_vars, master_vars
  <2> QED
    BY <2>7, <2>8, <2>9, <2>10, <2>11, <2>12 DEF Next
<1> QED
  BY <1>1, <1>2, LinkIInvInvariant, PTL DEF Spec

-----------------------------------------------------------------------------
(* The answer is the one to the call.  Besides the packet boundaries, this *)
(* needs the checksums: the line changes no more bytes than they detect.   *)

\* What the device holds, or has under way, is its answer to the current call.
AnswersCall ==
  \/ s_response = Slave!CorruptedResponse
  \/ /\ command.receiver_id = DeviceId
     /\ s_response \in Slave!SlaveResponses(command.operation_code, command.payload)

RequestDamage == Cardinality(
  Damaged(s_rx_buffer \o to_slave, SerializeRequest(command), RequestHeaderSize))
ResponseDamage == Cardinality(
  Damaged(m_rx_buffer \o to_master, SerializeResponse(s_response), ResponseHeaderSize))

MatchInv ==
  /\ faults \in Nat /\ faults <= MaxFaults
  /\ to_slave # <<>> => RequestDamage <= faults
  /\ to_master # <<>> => ResponseDamage <= faults
  /\ s_pc = "answering" \/ to_master # <<>> => AnswersCall
  /\ ResponseMatchesCall

LEMMA MatchStep ==
  ASSUME Crc8Assumption, DetectsFaults, ~DisturbHeaders, LinkInv, OneStage, LinkInv',
         MatchInv, [Next]_vars
  PROVE  MatchInv'
<1>1. /\ faults \in Nat /\ faults <= MaxFaults /\ MaxFaults \in Nat
      /\ s_pc \in {"run", "answering"} /\ m_pc \in {"idle", "waiting"}
      /\ command \in Request /\ s_response \in Response
      /\ s_rx_buffer \o to_slave \in Seq(Byte) /\ m_rx_buffer \o to_master \in Seq(Byte)
      /\ to_slave # <<>> =>
           LikePacket(s_rx_buffer \o to_slave, SerializeRequest(command), RequestHeaderSize)
      /\ to_master # <<>> =>
           LikePacket(m_rx_buffer \o to_master, SerializeResponse(s_response), ResponseHeaderSize)
  BY FramedBytes, LinkAssumption DEF LinkInv, MatchInv, LinkAssumption
<1>2. /\ to_slave # <<>> => RequestDamage <= faults
      /\ to_master # <<>> => ResponseDamage <= faults
      /\ s_pc = "answering" \/ to_master # <<>> => AnswersCall
      /\ ResponseMatchesCall
  BY DEF MatchInv
<1>3. CASE SlaveRun
  <2>1. /\ DeviceReads \/ DeviceTakes \/ DeviceAnswers
        /\ UNCHANGED <<m_rx_buffer, m_pc, command, result, calls, faults>>
    BY <1>3, SlaveSteps
  <2>2. ResponseMatchesCall'
    BY <1>2, <2>1 DEF ResponseMatchesCall
  <2>3. CASE DeviceReads
    <3>1. /\ to_slave # <<>> /\ s_rx_buffer' \o to_slave' = s_rx_buffer \o to_slave
          /\ UNCHANGED <<to_master, s_pc, s_response>>
      BY <2>3 DEF DeviceReads
    <3>2. RequestDamage' = RequestDamage
      BY <2>1, <3>1 DEF RequestDamage
    <3>3. ResponseDamage' = ResponseDamage /\ (AnswersCall' <=> AnswersCall)
      BY <2>1, <3>1 DEF ResponseDamage, AnswersCall
    <3> QED
      BY <1>1, <1>2, <2>1, <2>2, <3>1, <3>2, <3>3 DEF MatchInv
  <2>4. CASE DeviceTakes
    <3> DEFINE bytes   == s_rx_buffer \o to_slave
               request == DeSerializeRequest(bytes)
    <3>1. /\ to_slave # <<>> /\ to_slave' = <<>> /\ to_master' = to_master
          /\ \/ s_pc' = "run"
             \/ /\ request.receiver_id = DeviceId
                /\ \/ s_response' = Slave!CorruptedResponse
                   \/ /\ RequestPayloadHasValidCrc(bytes)
                      /\ s_response' \in Slave!SlaveResponses(request.operation_code,
                                                              request.payload)
      BY <2>4 DEF DeviceTakes
    <3>2. to_master' = <<>>
      BY <3>1 DEF OneStage
    <3>3. ASSUME RequestPayloadHasValidCrc(bytes)
          PROVE  request = command
      <4>1. Cardinality(Damaged(bytes, SerializeRequest(command), RequestHeaderSize))
              <= MaxFaults
        <5>1. RequestDamage <= faults
          BY <1>2, <3>1
        <5>2. RequestDamage \in Nat
          BY <1>1, RequestPacket, DamageIsFinite DEF RequestDamage
        <5>3. RequestDamage <= MaxFaults
          BY <1>1, <5>1, <5>2
        <5> QED
          BY <5>3 DEF RequestDamage
      <4> QED
        BY <1>1, <3>1, <3>3, <4>1, RequestArrives
    <3>4. s_pc' = "answering" => AnswersCall'
      <4> HIDE DEF request
      <4> QED
        BY <2>1, <3>1, <3>3 DEF AnswersCall
    <3> QED
      BY <1>1, <2>1, <2>2, <3>1, <3>2, <3>4 DEF MatchInv
  <2>5. CASE DeviceAnswers
    <3>1. /\ s_pc = "answering" /\ s_pc' = "run" /\ UNCHANGED <<to_slave, s_response>>
          /\ to_master' \in {to_master, to_master \o SerializeResponse(s_response)}
      BY <2>5 DEF DeviceAnswers
    <3>2. to_slave' = <<>> /\ to_master = <<>> /\ m_rx_buffer = <<>>
      BY <3>1 DEF OneStage, LinkInv, Framed
    <3>3. to_master' # <<>> => ResponseDamage' <= faults
      <4> DEFINE packet == SerializeResponse(s_response)
      <4>1. packet \in Seq(Byte) /\ packet' = packet
        BY <1>1, <3>1, ResponsePacket
      <4>2. to_master' # <<>> => to_master' = <<>> \o packet
        BY <3>1, <3>2
      <4>3. ResponseDamage' = Cardinality(Damaged(<<>> \o to_master', packet, ResponseHeaderSize))
        BY <2>1, <3>1, <3>2 DEF ResponseDamage
      <4> HIDE DEF packet
      <4>4. <<>> \o packet = packet
        BY <4>1, ConcatEmptySeq
      <4>5. Cardinality(Damaged(packet, packet, ResponseHeaderSize)) = 0
        BY NoDamage
      <4> QED
        BY <1>1, <4>2, <4>3, <4>4, <4>5
    <3>4. AnswersCall'
      BY <1>2, <2>1, <3>1 DEF AnswersCall
    <3> QED
      BY <1>1, <2>1, <2>2, <3>2, <3>3, <3>4 DEF MatchInv
  <2> QED
    BY <2>1, <2>3, <2>4, <2>5
<1>4. CASE MasterPoll
  <2>1. /\ HostReads \/ HostTakes \/ HostGivesUp
        /\ UNCHANGED <<s_rx_buffer, s_pc, s_response, faults>>
    BY <1>4, MasterSteps
  <2>2. to_slave' = to_slave /\ command' = command
    BY <2>1 DEF HostReads, HostTakes, HostGivesUp
  <2>3. RequestDamage' = RequestDamage /\ (AnswersCall' <=> AnswersCall)
    BY <2>1, <2>2 DEF RequestDamage, AnswersCall
  <2>4. CASE HostReads
    <3>1. /\ to_master # <<>> /\ m_rx_buffer' \o to_master' = m_rx_buffer \o to_master
          /\ UNCHANGED <<m_pc, result, calls>>
      BY <2>4 DEF HostReads
    <3>2. ResponseDamage' = ResponseDamage
      BY <2>1, <3>1 DEF ResponseDamage
    <3>3. ResponseMatchesCall'
      BY <1>2, <2>2, <3>1 DEF ResponseMatchesCall
    <3> QED
      BY <1>1, <1>2, <2>1, <2>2, <2>3, <3>1, <3>2, <3>3 DEF MatchInv
  <2>5. CASE HostTakes
    <3> DEFINE bytes == m_rx_buffer \o to_master
    <3>1. /\ to_master # <<>> /\ to_master' = <<>>
          /\ \/ result'.response_code \in {corrupted, malformed_response}
             \/ ResponsePayloadHasValidCrc(bytes) /\ result' = DeSerializeResponse(bytes)
      BY <2>5 DEF HostTakes
    <3>2. ASSUME ResponsePayloadHasValidCrc(bytes)
          PROVE  DeSerializeResponse(bytes) = s_response
      <4>1. Cardinality(Damaged(bytes, SerializeResponse(s_response), ResponseHeaderSize))
              <= MaxFaults
        <5>1. ResponseDamage <= faults
          BY <1>2, <3>1
        <5>2. ResponseDamage \in Nat
          BY <1>1, ResponsePacket, DamageIsFinite DEF ResponseDamage
        <5>3. ResponseDamage <= MaxFaults
          BY <1>1, <5>1, <5>2
        <5> QED
          BY <5>3 DEF ResponseDamage
      <4> QED
        BY <1>1, <3>1, <3>2, <4>1, ResponseArrives
    <3>3. ResponseMatchesCall'
      <4>1. AnswersCall
        BY <1>2, <3>1
      <4>2. Slave!CorruptedResponse.response_code = corrupted
        BY DEF Slave!CorruptedResponse, Slave!corrupted, corrupted
      <4> HIDE DEF bytes
      <4>3. result'.response_code \in {corrupted, malformed_response} \/ result' = s_response
        BY <3>1, <3>2
      <4> QED
        BY <2>2, <4>1, <4>2, <4>3 DEF AnswersCall, ResponseMatchesCall
    <3>4. to_slave' = <<>> /\ s_pc' = "run"
      BY <2>1, <2>2, <3>1 DEF OneStage
    <3> QED
      BY <1>1, <2>1, <3>1, <3>3, <3>4 DEF MatchInv
  <2>6. CASE HostGivesUp
    <3>1. m_elapsed > K_MASTER_TIMEOUT_MS /\ to_master' = to_master
          /\ result'.response_code = timed_out
      BY <2>6 DEF HostGivesUp
    <3>2. to_slave' = <<>> /\ to_master' = <<>> /\ s_pc' = "run"
      BY <1>1, <2>1, <2>2, <3>1 DEF OneStage
    <3>3. ResponseMatchesCall'
      BY <3>1 DEF ResponseMatchesCall
    <3> QED
      BY <1>1, <2>1, <3>2, <3>3 DEF MatchInv
  <2> QED
    BY <2>1, <2>4, <2>5, <2>6
<1>5. CASE MasterCall
  <2>1. /\ m_pc = "idle" /\ m_pc' = "waiting"
        /\ to_slave' = to_slave \o SerializeRequest(command') /\ command' \in Commands
        /\ UNCHANGED <<to_master, s_rx_buffer, s_pc, s_response, faults>>
    BY <1>5 DEF MasterCall, Master!SendCommand, slave_vars,
                Master!SerializeRequest, SerializeRequest, Master!RequestHeaderSize,
                RequestHeaderSize
  <2>2. to_slave = <<>> /\ to_master' = <<>> /\ s_pc' = "run" /\ s_rx_buffer = <<>>
    BY <1>1, <2>1 DEF OneStage, LinkInv, Framed
  <2>3. RequestDamage' = 0
    <3> DEFINE next == SerializeRequest(command')
    <3>1. next \in Seq(Byte)
      BY <2>1, LinkAssumption, RequestPacket DEF LinkAssumption
    <3>2. RequestDamage' = Cardinality(Damaged(<<>> \o (<<>> \o next), next, RequestHeaderSize))
      BY <2>1, <2>2 DEF RequestDamage
    <3> HIDE DEF next
    <3>3. <<>> \o (<<>> \o next) = next
      BY <3>1, ConcatEmptySeq
    <3> QED
      BY <3>2, <3>3, NoDamage
  <2>4. ResponseMatchesCall'
    BY <2>1 DEF ResponseMatchesCall
  <2> QED
    BY <1>1, <2>1, <2>2, <2>3, <2>4 DEF MatchInv
<1>6. CASE Tick
  BY <1>6 DEF Tick, MatchInv, RequestDamage, ResponseDamage, AnswersCall, ResponseMatchesCall
<1>7. CASE DisturbByte
  <2>1. /\ UNCHANGED <<s_rx_buffer, s_pc, s_response, m_rx_buffer, m_pc, command, result, calls>>
        /\ faults < MaxFaults /\ faults' = faults + 1
    BY <1>7 DEF DisturbByte, slave_vars, master_vars
  <2>2. /\ ResponseMatchesCall' /\ (AnswersCall' <=> AnswersCall)
        /\ faults' \in Nat /\ faults' <= MaxFaults
    BY <1>1, <1>2, <2>1 DEF ResponseMatchesCall, AnswersCall
  <2>3. RequestDamage \in Nat /\ ResponseDamage \in Nat
    BY <1>1, RequestPacket, ResponsePacket, DamageIsFinite DEF RequestDamage, ResponseDamage
  <2>4. CASE \E i \in DOMAIN to_slave :
               /\ Len(s_rx_buffer) + i - 1 >= RequestHeaderSize
               /\ to_slave' = Disturbed(to_slave, i) /\ to_master' = to_master
    <3> DEFINE packet == SerializeRequest(command)
    <3>1. PICK i \in DOMAIN to_slave :
               /\ Len(s_rx_buffer) + i - 1 >= RequestHeaderSize
               /\ to_slave' = Disturbed(to_slave, i) /\ to_master' = to_master
      BY <2>4
    <3>2. /\ Framed(s_rx_buffer, to_slave, s_expected_packet_size, packet,
                    RequestHeaderSize, RequestMaxSize)
          /\ packet \in Seq(Byte) /\ RequestHeaderSize \in Nat
      BY <1>1, RequestPacket DEF LinkInv
    <3>3. to_slave # <<>>
      <4>1. to_slave \in Seq(Byte)
        BY DEF LinkInv, Framed
      <4> QED
        BY <3>1, <4>1
    <3>4. RequestDamage' = Cardinality(
                 Damaged(s_rx_buffer \o Disturbed(to_slave, i), packet, RequestHeaderSize))
      BY <2>1, <3>1 DEF RequestDamage
    <3>5. RequestDamage = Cardinality(
                 Damaged(s_rx_buffer \o to_slave, packet, RequestHeaderSize))
      BY DEF RequestDamage
    <3> HIDE DEF packet
    <3>6. RequestDamage' <= RequestDamage + 1 /\ RequestDamage' \in Nat
      BY <3>1, <3>2, <3>4, <3>5, FramedDisturb, DamageIsFinite
    <3>7. RequestDamage' <= faults'
      BY <1>1, <1>2, <2>1, <2>3, <3>3, <3>6
    <3>8. to_master # <<>> => ResponseDamage' <= faults'
      <4>1. ResponseDamage' = ResponseDamage
        BY <2>1, <3>1 DEF ResponseDamage
      <4> QED
        BY <1>1, <1>2, <2>1, <2>3, <4>1
    <3> QED
      BY <1>2, <2>1, <2>2, <3>1, <3>7, <3>8 DEF MatchInv
  <2>5. CASE \E i \in DOMAIN to_master :
               /\ Len(m_rx_buffer) + i - 1 >= ResponseHeaderSize
               /\ to_master' = Disturbed(to_master, i) /\ to_slave' = to_slave
    <3> DEFINE packet == SerializeResponse(s_response)
    <3>1. PICK i \in DOMAIN to_master :
               /\ Len(m_rx_buffer) + i - 1 >= ResponseHeaderSize
               /\ to_master' = Disturbed(to_master, i) /\ to_slave' = to_slave
      BY <2>5
    <3>2. /\ Framed(m_rx_buffer, to_master, m_expected_packet_size, packet,
                    ResponseHeaderSize, ResponseMaxSize)
          /\ packet \in Seq(Byte) /\ ResponseHeaderSize \in Nat
      BY <1>1, ResponsePacket DEF LinkInv
    <3>3. to_master # <<>>
      <4>1. to_master \in Seq(Byte)
        BY DEF LinkInv, Framed
      <4> QED
        BY <3>1, <4>1
    <3>4. ResponseDamage' = Cardinality(
                 Damaged(m_rx_buffer \o Disturbed(to_master, i), packet, ResponseHeaderSize))
      BY <2>1, <3>1 DEF ResponseDamage
    <3>5. ResponseDamage = Cardinality(
                 Damaged(m_rx_buffer \o to_master, packet, ResponseHeaderSize))
      BY DEF ResponseDamage
    <3> HIDE DEF packet
    <3>6. ResponseDamage' <= ResponseDamage + 1 /\ ResponseDamage' \in Nat
      BY <3>1, <3>2, <3>4, <3>5, FramedDisturb, DamageIsFinite
    <3>7. ResponseDamage' <= faults'
      BY <1>1, <1>2, <2>1, <2>3, <3>3, <3>6
    <3>8. to_slave # <<>> => RequestDamage' <= faults'
      <4>1. RequestDamage' = RequestDamage
        BY <2>1, <3>1 DEF RequestDamage
      <4> QED
        BY <1>1, <1>2, <2>1, <2>3, <4>1
    <3> QED
      BY <1>2, <2>1, <2>2, <3>1, <3>3, <3>7, <3>8 DEF MatchInv
  <2> QED
    BY <1>7, <2>4, <2>5 DEF DisturbByte, MayDisturb
<1>8. CASE UNCHANGED vars
  BY <1>8 DEF vars, slave_vars, master_vars, MatchInv, RequestDamage, ResponseDamage,
              AnswersCall, ResponseMatchesCall
<1> QED
  BY <1>3, <1>4, <1>5, <1>6, <1>7, <1>8 DEF Next

\* What a call returns is the addressed device's answer to this very request, or
\* a code of the framework: never the answer to another call, although packets
\* carry no sequence number, and never a disturbed one.
THEOREM LinkResponseMatchesCall ==
  ASSUME Crc8Assumption, HandlersAnswer, AnswersInTime, ~DisturbHeaders, DetectsFaults
  PROVE  Spec => []ResponseMatchesCall
<1>1. Init => MatchInv
  <2> SUFFICES ASSUME Init PROVE MatchInv
    OBVIOUS
  <2>1. /\ to_slave = <<>> /\ to_master = <<>> /\ s_pc = "run" /\ calls = 0 /\ faults = 0
    BY DEF Init, Slave!Init, Master!Init
  <2> QED
    BY <2>1, LinkAssumption DEF MatchInv, ResponseMatchesCall, LinkAssumption
<1>2. LinkIInv /\ MatchInv /\ [Next]_vars => MatchInv'
  BY LinkIInvStep, MatchStep DEF LinkIInv
<1>3. MatchInv => ResponseMatchesCall
  BY DEF MatchInv
<1> QED
  BY <1>1, <1>2, <1>3, LinkIInvInvariant, PTL DEF Spec

=============================================================================
