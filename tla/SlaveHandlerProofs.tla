------------------------- MODULE SlaveHandlerProofs --------------------------
(***************************************************************************)
(* Proofs about SlaveHandler: the framing of requests for every CRC        *)
(* function, every set of command handlers and any bytes on the line; type *)
(* correctness and the statistics if the CRC and the handlers return what  *)
(* their C++ types say.                                                    *)
(***************************************************************************)
EXTENDS SlaveHistory, TLAPS

-----------------------------------------------------------------------------
(* The parser: what is in rx_buffer_ and how many bytes are still to come. *)

\* Framing is inductive once the bytes are known to be bytes.
ParserInv ==
  /\ received \in Seq(Byte)
  /\ rx_buffer \in Seq(Byte)
  /\ expected_packet_size \in Nat
  /\ Framing

\* Storing a byte leaves the earlier ones where they are.
LEMMA BufferExtends ==
  ASSUME received \in Seq(Byte), rx_buffer \in Seq(Byte), received # <<>>
  PROVE  /\ Tail(received) \in Seq(Byte)
         /\ Buffer \in Seq(Byte)
         /\ Len(Buffer) = Len(rx_buffer) + 1
         /\ \A i \in 1..Len(rx_buffer) : Buffer[i] = rx_buffer[i]
<1>1. Head(received) \in Byte /\ Tail(received) \in Seq(Byte)
  OBVIOUS
<1>2. <<Head(received)>> \in Seq(Byte) /\ Len(<<Head(received)>>) = 1
  BY <1>1
<1> QED
  BY <1>1, <1>2 DEF Buffer

LEMMA ParserInvInductive ==
  ASSUME ParserInv, [Next]_vars
  PROVE  ParserInv'
<1> USE ByteAssumption DEF ParserInv, RequestHeaderSize, RequestPacketSize, RequestMaxSize
<1>1. ASSUME ReadByte
      PROVE  /\ received' \in Seq(Byte) /\ Buffer \in Seq(Byte)
             /\ Len(Buffer) = Len(rx_buffer) + 1
             /\ \A i \in 1..Len(rx_buffer) : Buffer[i] = rx_buffer[i]
  BY <1>1, BufferExtends DEF ReadByte
<1>2. CASE StoreByte
  <2>1. ReadByte /\ rx_buffer' = Buffer /\ expected_packet_size' = expected_packet_size
        /\ Len(Buffer) # 4 /\ Len(Buffer) # expected_packet_size
    BY <1>2 DEF StoreByte
  <2>2. CASE Len(rx_buffer) < 4
    <3>1. expected_packet_size = RequestMaxSize
      BY <2>2 DEF Framing
    <3>2. Len(Buffer) < 4
      BY <2>1, <2>2, <1>1
    <3>3. Len(Buffer) < expected_packet_size
      BY <3>1, <3>2
    <3> QED
      BY <2>1, <3>1, <3>2, <3>3, <1>1 DEF Framing
  <2>3. CASE Len(rx_buffer) >= 4
    <3>1. /\ Buffer[1] = rx_buffer[1] /\ Buffer[2] = rx_buffer[2]
          /\ Buffer[3] = rx_buffer[3] /\ Buffer[4] = rx_buffer[4]
      BY <2>1, <2>3, <1>1
    <3>2. RequestHeaderHasValidCrc(Buffer)
      BY <2>3, <3>1 DEF Framing, RequestHeaderHasValidCrc
    <3>3. RequestPayloadSize(Buffer) = RequestPayloadSize(rx_buffer)
      BY <3>1 DEF RequestPayloadSize
    <3> QED
      BY <2>1, <2>3, <3>2, <3>3, <1>1 DEF Framing
  <2> QED
    BY <2>1, <2>2, <2>3
<1>3. CASE AcceptHeader
  <2>1. ReadByte /\ rx_buffer' = Buffer /\ Len(Buffer) = 4
        /\ expected_packet_size' = 5 + RequestPayloadSize(Buffer)
        /\ RequestHeaderHasValidCrc(Buffer)
    BY <1>3 DEF AcceptHeader
  <2>2. RequestPayloadSize(Buffer) \in Byte
    BY <2>1, <1>1 DEF RequestPayloadSize
  <2> QED
    BY <2>1, <2>2, <1>1 DEF Framing, Byte
<1>4. CASE RejectHeader
  <2>1. ReadByte /\ rx_buffer' = <<>> /\ expected_packet_size' = expected_packet_size
        /\ Len(Buffer) = 4
    BY <1>4 DEF RejectHeader
  <2>2. expected_packet_size = RequestMaxSize
    BY <2>1, <1>1 DEF Framing
  <2> QED
    BY <2>1, <2>2, <1>1 DEF Framing
<1>5. CASE PacketReceived
  BY <1>5, <1>1 DEF PacketReceived, Framing
<1>6. CASE ByteArrives
  <2>1. \E b \in Byte : received' = <<b>>
    BY <1>6, SlaveAssumption DEF ByteArrives
  <2>2. UNCHANGED parser
    BY <1>6 DEF ByteArrives
  <2> QED
    BY <2>1, <2>2 DEF Framing, parser
<1>7. CASE UNCHANGED <<received, parser>>
  BY <1>7 DEF Framing, parser
<1>8. \/ StoreByte \/ AcceptHeader \/ RejectHeader \/ PacketReceived
      \/ ByteArrives \/ UNCHANGED <<received, parser>>
  BY DEF Next, Run, IgnoreForeignPacket, RejectPayload, RunCommand, Answer, Tick,
         BytesLeave, vars
<1> QED
  BY <1>2, <1>3, <1>4, <1>5, <1>6, <1>7, <1>8

LEMMA ParserInvInvariant == Spec => []ParserInv
<1>1. Init => ParserInv
  BY ByteAssumption
     DEF Init, ParserInv, Framing, RequestHeaderSize, RequestPacketSize, RequestMaxSize
<1>2. ParserInv /\ [Next]_vars => ParserInv'
  BY ParserInvInductive
<1> QED
  BY <1>1, <1>2, PTL DEF Spec

\* The index into rx_buffer_ stays below the expected size and the expected
\* size within the buffer, whatever bytes arrive and whatever the CRC is.
THEOREM SlaveFraming == Spec => []Framing
<1>1. ParserInv => Framing
  BY DEF ParserInv
<1> QED
  BY <1>1, ParserInvInvariant, PTL

-----------------------------------------------------------------------------
(* The counters are numbers.                                               *)

StatisticsInv ==
  /\ pc \in {"run", "answering"}
  /\ stats \in [{"total", "corrupted", "valid", "timed_out"} -> Nat]

\* Counting in one counter or in two, of a packet or of a header.
LEMMA StatisticsInvInductive ==
  ASSUME StatisticsInv, [Next]_vars
  PROVE  StatisticsInv'
<1> USE DEF StatisticsInv
<1>1. CASE RejectHeader
  BY <1>1 DEF RejectHeader, ReadByte
<1>2. CASE RejectPayload
  <2> DEFINE counted == [stats EXCEPT !.total = @ + 1]
  <2>1. counted \in [{"total", "corrupted", "valid", "timed_out"} -> Nat]
    OBVIOUS
  <2>2. pc' = "answering" /\ stats' = [counted EXCEPT !.corrupted = @ + 1]
    BY <1>2 DEF RejectPayload
  <2> HIDE DEF counted
  <2> QED
    BY <2>1, <2>2
<1>3. CASE RunCommand
  <2> DEFINE counted == [stats EXCEPT !.total = @ + 1]
  <2>1. counted \in [{"total", "corrupted", "valid", "timed_out"} -> Nat]
    OBVIOUS
  <2>2. pc' = "answering" /\ stats' = [counted EXCEPT !.valid = @ + 1]
    BY <1>3 DEF RunCommand
  <2> HIDE DEF counted
  <2> QED
    BY <2>1, <2>2
<1>4. CASE Answer
  BY <1>4 DEF Answer
<1>5. CASE UNCHANGED <<pc, stats>>
  BY <1>5
<1>6. RejectHeader \/ RejectPayload \/ RunCommand \/ Answer \/ UNCHANGED <<pc, stats>>
  BY DEF Next, Run, StoreByte, AcceptHeader, IgnoreForeignPacket, Tick, ByteArrives,
         BytesLeave, vars
<1> QED
  BY <1>1, <1>2, <1>3, <1>4, <1>5, <1>6

LEMMA StatisticsInvInvariant == Spec => []StatisticsInv
<1>1. Init => StatisticsInv
  BY DEF Init, StatisticsInv
<1>2. StatisticsInv /\ [Next]_vars => StatisticsInv'
  BY StatisticsInvInductive
<1> QED
  BY <1>1, <1>2, PTL DEF Spec

-----------------------------------------------------------------------------
(* Type correctness.                                                       *)

ShortResponses == {r \in Responses : Len(r.payload) <= UINT8_MAX}

\* What registerCommandHandler asserts of the command handlers, and the size
\* of the buffer they serialize into.
HandlerAssumption ==
  \A o \in HandledOperations, p \in Seq(Byte) : HandlerResponses(o, p) \subseteq ShortResponses

\* The part of the type invariant that the two invariants above leave: what is
\* transmitted, and the response and clock it depends on.
OutputInv ==
  /\ transmitted \in Seq(Byte)
  /\ elapsed \in 0..Horizon
  /\ response \in ShortResponses

LEMMA SerializedResponse ==
  ASSUME Crc8Assumption, NEW r \in ShortResponses
  PROVE  SerializeResponse(r) \in Seq(Byte)
<1> DEFINE header == <<r.response_code, Len(r.payload)>>
<1>1. r.response_code \in Byte
  BY ByteAssumption
     DEF ShortResponses, Responses, SlaveCode, HandlerCode, InternalCode, Byte,
         ok, timed_out, corrupted, unknown_operation_code, malformed_request, forbidden
<1>2. r.payload \in Seq(Byte) /\ Len(r.payload) \in Byte
  BY ByteAssumption DEF ShortResponses, Responses, Byte
<1>3. header \in Seq(Byte)
  BY <1>1, <1>2
<1>4. GenerateCrc8(header) \in Byte /\ GenerateCrc8(r.payload) \in Byte
  BY <1>2, <1>3 DEF Crc8Assumption
<1> QED
  BY <1>2, <1>3, <1>4 DEF SerializeResponse

LEMMA FrameworkResponses ==
  \A code \in {corrupted, unknown_operation_code, malformed_request} :
    [response_code |-> code, payload |-> <<>>] \in ShortResponses
BY ByteAssumption DEF ShortResponses, Responses, SlaveCode

\* Where a packet is complete, the payload handed to the command is bytes.
LEMMA ReceivedPayload ==
  ASSUME ParserInv, PacketReceived
  PROVE  /\ DeSerializeRequest(Buffer).operation_code \in Byte
         /\ DeSerializeRequest(Buffer).payload \in Seq(Byte)
<1> USE ByteAssumption DEF RequestHeaderSize, RequestPacketSize, RequestMaxSize
<1>1. /\ Buffer \in Seq(Byte) /\ Len(Buffer) = Len(rx_buffer) + 1
      /\ \A i \in 1..Len(rx_buffer) : Buffer[i] = rx_buffer[i]
  BY BufferExtends DEF ParserInv, PacketReceived, ReadByte
<1>2. Len(Buffer) = expected_packet_size /\ Len(Buffer) # 4
  BY DEF PacketReceived
<1>3. Len(rx_buffer) >= 4 /\ expected_packet_size = 5 + rx_buffer[3]
  <2>1. CASE Len(rx_buffer) < 4
    BY <1>1, <1>2, <2>1 DEF ParserInv, Framing
  <2> QED
    BY <2>1, <1>1 DEF ParserInv, Framing, RequestPayloadSize
<1>4. Buffer[3] = rx_buffer[3]
  BY <1>1, <1>3
<1>5. 5 + Buffer[3] = Len(Buffer) /\ Buffer[3] \in Nat
  BY <1>1, <1>2, <1>3, <1>4 DEF Byte
<1>6. SubSeq(Buffer, 6, Len(Buffer)) \in Seq(Byte)
  BY <1>1, <1>3, <1>5
<1>7. Buffer[2] \in Byte
  BY <1>1, <1>3
<1> QED
  BY <1>5, <1>6, <1>7 DEF DeSerializeRequest, RequestPayloadSize

LEMMA ReceivedResponse ==
  ASSUME HandlerAssumption, ParserInv, RunCommand
  PROVE  response' \in ShortResponses
<1> DEFINE request == DeSerializeRequest(Buffer)
<1>1. PacketReceived /\ response' \in SlaveResponses(request.operation_code, request.payload)
  BY DEF RunCommand
<1>2. request.operation_code \in Byte /\ request.payload \in Seq(Byte)
  BY <1>1, ReceivedPayload
<1> HIDE DEF request
<1>3. CASE request.operation_code \notin HandledOperations
  BY <1>1, <1>3, FrameworkResponses DEF SlaveResponses
<1>4. CASE request.operation_code \in HandledOperations
            /\ ~Deserializes(request.operation_code, request.payload)
  BY <1>1, <1>4, FrameworkResponses DEF SlaveResponses
<1>5. CASE request.operation_code \in HandledOperations
            /\ Deserializes(request.operation_code, request.payload)
  BY <1>1, <1>2, <1>5 DEF SlaveResponses, HandlerAssumption
<1> QED
  BY <1>3, <1>4, <1>5

LEMMA OutputInvInductive ==
  ASSUME Crc8Assumption, HandlerAssumption, ParserInv, OutputInv, [Next]_vars
  PROVE  OutputInv'
<1> USE DEF OutputInv
<1>1. CorruptedResponse \in ShortResponses
  BY FrameworkResponses DEF CorruptedResponse
<1>2. 0 \in 0..Horizon /\ Advance(elapsed) \in 0..Horizon
  BY SlaveAssumption DEF Advance
<1>3. CASE StoreByte \/ AcceptHeader
  BY <1>3 DEF StoreByte, AcceptHeader
<1>4. CASE RejectHeader
  <2>1. SerializeResponse(CorruptedResponse) \in Seq(Byte)
    BY <1>1, SerializedResponse
  <2> QED
    BY <1>4, <2>1 DEF RejectHeader
<1>5. CASE IgnoreForeignPacket
  BY <1>2, <1>5 DEF IgnoreForeignPacket, PacketReceived
<1>6. CASE RejectPayload
  BY <1>1, <1>2, <1>6 DEF RejectPayload, PacketReceived
<1>7. CASE RunCommand
  <2>1. transmitted' = transmitted /\ elapsed' = 0
    BY <1>7 DEF RunCommand, PacketReceived
  <2> QED
    BY <1>2, <1>7, <2>1, ReceivedResponse
<1>8. CASE Answer
  <2>1. SerializeResponse(response) \in Seq(Byte)
    BY SerializedResponse
  <2>2. transmitted' = transmitted \/ transmitted' = transmitted \o SerializeResponse(response)
    BY <1>8 DEF Answer
  <2>3. transmitted' \in Seq(Byte)
    <3>1. CASE transmitted' = transmitted
      BY <3>1
    <3>2. CASE transmitted' = transmitted \o SerializeResponse(response)
      BY <2>1, <3>2
    <3> QED
      BY <2>2, <3>1, <3>2
  <2>4. elapsed' = elapsed /\ response' = response
    BY <1>8 DEF Answer
  <2> QED
    BY <2>3, <2>4
<1>9. CASE Tick
  BY <1>2, <1>9 DEF Tick
<1>10. CASE ByteArrives
  BY <1>10 DEF ByteArrives
<1>11. CASE BytesLeave
  BY <1>11 DEF BytesLeave
<1>12. CASE UNCHANGED vars
  BY <1>12 DEF vars
<1> QED
  BY <1>3, <1>4, <1>5, <1>6, <1>7, <1>8, <1>9, <1>10, <1>11, <1>12 DEF Next, Run

LEMMA OutputInvInvariant ==
  ASSUME Crc8Assumption, HandlerAssumption PROVE Spec => []OutputInv
<1>1. Init => OutputInv
  BY FrameworkResponses DEF Init, OutputInv, CorruptedResponse
<1>2. ParserInv /\ OutputInv /\ [Next]_vars => OutputInv'
  BY OutputInvInductive
<1> QED
  BY <1>1, <1>2, ParserInvInvariant, PTL DEF Spec

\* Every variable of the handler keeps its type and every response it sends has
\* a code a slave may send, if the CRC and the command handlers return what
\* their C++ types say.
THEOREM SlaveTypeOK ==
  ASSUME Crc8Assumption, HandlerAssumption PROVE Spec => []TypeOK
<1>1. ParserInv /\ StatisticsInv /\ OutputInv => TypeOK
  BY DEF ParserInv, StatisticsInv, OutputInv, TypeOK, ShortResponses
<1> QED
  BY <1>1, ParserInvInvariant, StatisticsInvInvariant, OutputInvInvariant, PTL

-----------------------------------------------------------------------------
(* The statistics, beside what a listener on the line notes.               *)

HistoryInv == headers \in Nat /\ answers \in Nat /\ StatisticsAddUp

\* The history variables take no step from the device and give it none.
LEMMA HistoryOnlyWatches == HistorySpec => Spec
<1>1. HistoryInit => Init
  BY DEF HistoryInit
<1>2. [HistoryNext]_historyVars => [Next]_vars
  BY DEF HistoryNext, historyVars
<1> QED
  BY <1>1, <1>2, PTL DEF HistorySpec, Spec

LEMMA NoByteNoHeader ==
  ASSUME received \in Seq(Byte), received' = received
  PROVE  ~HeaderFails
<1>1. received # <<>> => Len(Tail(received)) = Len(received) - 1 /\ Len(received) \in Nat
  OBVIOUS
<1> QED
  BY <1>1 DEF HeaderFails

LEMMA AnswersAreSeen ==
  ASSUME Crc8Assumption, OutputInv, transmitted' = transmitted \o SerializeResponse(response)
  PROVE  Len(transmitted') > Len(transmitted)
<1>1. transmitted \in Seq(Byte) /\ SerializeResponse(response) \in Seq(Byte)
  BY SerializedResponse DEF OutputInv
<1>2. Len(SerializeResponse(response)) > 0
  <2>1. response.payload \in Seq(Byte)
    BY DEF OutputInv, ShortResponses, Responses
  <2> QED
    BY <2>1 DEF SerializeResponse
<1> HIDE DEF SerializeResponse
<1> QED
  BY <1>1, <1>2

LEMMA UnansweredUnlessLonger ==
  ASSUME transmitted \in Seq(Byte), pc # "answering" \/ transmitted' \in {transmitted, <<>>}
  PROVE  ~PacketAnswered
BY DEF PacketAnswered

\* A step that neither counts nor answers nor reads a failed header.
LEMMA HistoryQuiet ==
  ASSUME HistoryInv, HistoryNext, UNCHANGED <<pc, stats>>, ~HeaderFails, ~PacketAnswered
  PROVE  HistoryInv'
BY DEF HistoryInv, HistoryNext, StatisticsAddUp

LEMMA HistoryInvInductive ==
  ASSUME Crc8Assumption, ParserInv, OutputInv, StatisticsInv, HistoryInv,
         [HistoryNext]_historyVars
  PROVE  HistoryInv'
<1> DEFINE Counters == {"total", "corrupted", "valid", "timed_out"}
<1>1. /\ received \in Seq(Byte) /\ transmitted \in Seq(Byte)
      /\ pc \in {"run", "answering"} /\ stats \in [Counters -> Nat]
  BY DEF ParserInv, OutputInv, StatisticsInv
<1>2. /\ stats.total \in Nat /\ stats.valid \in Nat
      /\ stats.corrupted \in Nat /\ stats.timed_out \in Nat
  BY <1>1
<1>3. CASE UNCHANGED historyVars
  BY <1>3 DEF historyVars, vars, HistoryInv, StatisticsAddUp
<1> SUFFICES ASSUME HistoryNext PROVE HistoryInv'
  BY <1>3
<1>4. CASE StoreByte \/ AcceptHeader \/ IgnoreForeignPacket
  <2>1. UNCHANGED <<pc, stats, transmitted>> /\ ~HeaderFails
    BY <1>4 DEF StoreByte, AcceptHeader, IgnoreForeignPacket, PacketReceived, HeaderFails
  <2> QED
    BY <1>1, <2>1, UnansweredUnlessLonger, HistoryQuiet
<1>5. CASE RejectHeader
  <2>1. /\ pc = "run" /\ pc' = pc /\ HeaderFails
        /\ stats' = [stats EXCEPT !.corrupted = @ + 1]
    BY <1>5 DEF RejectHeader, ReadByte, HeaderFails
  <2>2. headers' = headers + 1 /\ answers' = answers
    BY <1>1, <2>1, UnansweredUnlessLonger DEF HistoryNext
  <2>3. /\ stats'.total = stats.total /\ stats'.corrupted = stats.corrupted + 1
        /\ stats'.valid = stats.valid /\ stats'.timed_out = stats.timed_out
    BY <1>1, <2>1
  <2> QED
    BY <1>2, <2>1, <2>2, <2>3 DEF HistoryInv, StatisticsAddUp
<1>6. CASE RejectPayload \/ RunCommand
  <2>1. /\ pc = "run" /\ pc' = "answering" /\ ~HeaderFails
        /\ \/ stats' = [stats EXCEPT !.total = @ + 1, !.corrupted = @ + 1]
           \/ stats' = [stats EXCEPT !.total = @ + 1, !.valid = @ + 1]
    BY <1>6 DEF RejectPayload, RunCommand, PacketReceived, ReadByte, HeaderFails
  <2>2. headers' = headers /\ answers' = answers
    BY <1>1, <2>1, UnansweredUnlessLonger DEF HistoryNext
  <2>3. /\ stats'.total = stats.total + 1 /\ stats'.timed_out = stats.timed_out
        /\ \/ stats'.corrupted = stats.corrupted + 1 /\ stats'.valid = stats.valid
           \/ stats'.corrupted = stats.corrupted /\ stats'.valid = stats.valid + 1
    <3>1. CASE stats' = [stats EXCEPT !.total = @ + 1, !.corrupted = @ + 1]
      BY <1>1, <3>1
    <3>2. CASE stats' = [stats EXCEPT !.total = @ + 1, !.valid = @ + 1]
      BY <1>1, <3>2
    <3> QED
      BY <2>1, <3>1, <3>2
  <2> QED
    BY <1>2, <2>1, <2>2, <2>3 DEF HistoryInv, StatisticsAddUp
<1>7. CASE Answer
  <2>1. pc = "answering" /\ pc' = "run" /\ headers' = headers
    BY <1>1, <1>7, NoByteNoHeader DEF Answer, HistoryNext
  <2>2. CASE transmitted' = transmitted /\ stats' = [stats EXCEPT !.timed_out = @ + 1]
    <3>1. answers' = answers
      BY <1>1, <2>2, UnansweredUnlessLonger DEF HistoryNext
    <3>2. /\ stats'.total = stats.total /\ stats'.timed_out = stats.timed_out + 1
          /\ stats'.corrupted = stats.corrupted /\ stats'.valid = stats.valid
      BY <1>1, <2>2
    <3> QED
      BY <1>2, <2>1, <3>1, <3>2 DEF HistoryInv, StatisticsAddUp
  <2>3. CASE transmitted' = transmitted \o SerializeResponse(response) /\ stats' = stats
    <3>1. answers' = answers + 1
      BY <2>1, <2>3, AnswersAreSeen DEF HistoryNext, PacketAnswered
    <3> QED
      BY <1>2, <2>1, <2>3, <3>1 DEF HistoryInv, StatisticsAddUp
  <2> QED
    BY <1>7, <2>2, <2>3 DEF Answer
<1>8. CASE Tick \/ BytesLeave
  <2>1. UNCHANGED <<pc, stats, received>> /\ transmitted' \in {transmitted, <<>>}
    BY <1>8 DEF Tick, BytesLeave
  <2> QED
    BY <1>1, <2>1, NoByteNoHeader, UnansweredUnlessLonger, HistoryQuiet
<1>9. CASE ByteArrives
  <2>1. UNCHANGED <<pc, stats, transmitted>> /\ ~HeaderFails
    BY <1>9 DEF ByteArrives, HeaderFails
  <2> QED
    BY <1>1, <2>1, UnansweredUnlessLonger, HistoryQuiet
<1> QED
  BY <1>4, <1>5, <1>6, <1>7, <1>8, <1>9 DEF HistoryNext, Next, Run

\* Through any sequence of bytes and times every packet the device counts is counted
\* as valid or corrupted and not as both, every failed header as corrupted, and every
\* packet is answered or counted as timed out and not both.
THEOREM SlaveStatisticsAddUp ==
  ASSUME Crc8Assumption, HandlerAssumption PROVE HistorySpec => []StatisticsAddUp
<1>1. HistoryInit => HistoryInv
  BY DEF HistoryInit, Init, HistoryInv, StatisticsAddUp
<1>2. ParserInv /\ OutputInv /\ StatisticsInv /\ HistoryInv /\ [HistoryNext]_historyVars
        => HistoryInv'
  BY HistoryInvInductive
<1>3. HistoryInv => StatisticsAddUp
  BY DEF HistoryInv
<1> QED
  BY <1>1, <1>2, <1>3, HistoryOnlyWatches, ParserInvInvariant, OutputInvInvariant,
     StatisticsInvInvariant, PTL DEF HistorySpec

=============================================================================
