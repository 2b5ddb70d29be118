------------------------ MODULE MasterHandlerProofs --------------------------
(***************************************************************************)
(* Proofs about MasterHandler: the framing of responses and the accounting *)
(* of calls, for every CRC function, every set of commands and any bytes   *)
(* from the line.                                                          *)
(***************************************************************************)
EXTENDS MasterHandler, TLAPS

ParserInv ==
  /\ received \in Seq(Byte)
  /\ rx_buffer \in Seq(Byte)
  /\ expected_packet_size \in Nat
  /\ Framing

\* Storing a byte leaves the earlier ones where they are.
LEMMA BufferExtends ==
  ASSUME received \in Seq(Byte), rx_buffer \in Seq(Byte), received # <<>>
  PROVE  /\ Tail(received) \in Seq(Byte)
         /\ Buffer \in Seq(Byte)
         /\ Len(Buffer) = Len(rx_buffer) + 1
         /\ \A i \in 1..Len(rx_buffer) : Buffer[i] = rx_buffer[i]
<1>1. Head(received) \in Byte /\ Tail(received) \in Seq(Byte)
  OBVIOUS
<1>2. <<Head(received)>> \in Seq(Byte) /\ Len(<<Head(received)>>) = 1
  BY <1>1
<1> QED
  BY <1>1, <1>2 DEF Buffer

\* A call that returns leaves the parser as it found it.
LEMMA ReturnResets ==
  ASSUME received' \in Seq(Byte), NEW r, Return(r)
  PROVE  ParserInv'
BY ByteAssumption
   DEF Return, ParserInv, Framing, ResponseHeaderSize, ResponsePacketSize, ResponseMaxSize

LEMMA ParserInvInductive ==
  ASSUME ParserInv, [Next]_vars
  PROVE  ParserInv'
<1> USE ByteAssumption DEF ParserInv, ResponseHeaderSize, ResponsePacketSize, ResponseMaxSize
<1>1. ASSUME ReadByte
      PROVE  /\ received' \in Seq(Byte) /\ Buffer \in Seq(Byte)
             /\ Len(Buffer) = Len(rx_buffer) + 1
             /\ \A i \in 1..Len(rx_buffer) : Buffer[i] = rx_buffer[i]
  BY <1>1, BufferExtends DEF ReadByte
<1>2. CASE StoreByte
  <2>1. ReadByte /\ rx_buffer' = Buffer /\ expected_packet_size' = expected_packet_size
        /\ Len(Buffer) # 3 /\ Len(Buffer) # expected_packet_size
    BY <1>2 DEF StoreByte
  <2>2. CASE Len(rx_buffer) < 3
    BY <2>1, <2>2, <1>1 DEF Framing
  <2>3. CASE Len(rx_buffer) >= 3
    <3>1. /\ Buffer[1] = rx_buffer[1] /\ Buffer[2] = rx_buffer[2]
          /\ Buffer[3] = rx_buffer[3]
      BY <2>1, <2>3, <1>1
    <3>2. ResponseHeaderHasValidCrc(Buffer)
      BY <2>3, <3>1 DEF Framing, ResponseHeaderHasValidCrc
    <3>3. ResponsePayloadSize(Buffer) = ResponsePayloadSize(rx_buffer)
      BY <3>1 DEF ResponsePayloadSize
    <3> QED
      BY <2>1, <2>3, <3>2, <3>3, <1>1 DEF Framing
  <2> QED
    BY <2>1, <2>2, <2>3
<1>3. CASE AcceptHeader
  <2>1. ReadByte /\ rx_buffer' = Buffer /\ Len(Buffer) = 3
        /\ expected_packet_size' = 4 + ResponsePayloadSize(Buffer)
        /\ ResponseHeaderHasValidCrc(Buffer)
    BY <1>3 DEF AcceptHeader
  <2>2. ResponsePayloadSize(Buffer) \in Byte
    BY <2>1, <1>1 DEF ResponsePayloadSize
  <2> QED
    BY <2>1, <2>2, <1>1 DEF Framing, Byte
<1>4. CASE TimeOut
  BY <1>4, ReturnResets DEF TimeOut
<1>5. CASE RejectHeader
  BY <1>1, <1>5, ReturnResets DEF RejectHeader
<1>6. CASE RejectPayload
  BY <1>1, <1>6, ReturnResets DEF RejectPayload, PacketReceived
<1>7. CASE ReceiveResponse
  BY <1>1, <1>7, ReturnResets DEF ReceiveResponse, PacketReceived
<1>8. CASE ByteArrives
  <2>1. \E b \in Byte : received' = <<b>>
    BY <1>8, MasterAssumption DEF ByteArrives
  <2>2. UNCHANGED parser
    BY <1>8 DEF ByteArrives
  <2> QED
    BY <2>1, <2>2 DEF Framing, parser
<1>9. CASE UNCHANGED <<received, parser>>
  BY <1>9 DEF Framing, parser
<1>10. \/ StoreByte \/ AcceptHeader \/ TimeOut \/ RejectHeader \/ RejectPayload
       \/ ReceiveResponse \/ ByteArrives \/ UNCHANGED <<received, parser>>
  BY DEF Next, Poll, SendCommand, Tick, BytesLeave, vars
<1> QED
  BY <1>2, <1>3, <1>4, <1>5, <1>6, <1>7, <1>8, <1>9, <1>10

LEMMA ParserInvInvariant == Spec => []ParserInv
<1>1. Init => ParserInv
  BY ByteAssumption
     DEF Init, ParserInv, Framing, ResponseHeaderSize, ResponsePacketSize, ResponseMaxSize
<1>2. ParserInv /\ [Next]_vars => ParserInv'
  BY ParserInvInductive
<1> QED
  BY <1>1, <1>2, PTL DEF Spec

\* The index into the host's buffer stays below the expected size and the
\* expected size within the buffer, whatever the line delivers.
THEOREM MasterFraming == Spec => []Framing
<1>1. ParserInv => Framing
  BY DEF ParserInv
<1> QED
  BY <1>1, ParserInvInvariant, PTL

-----------------------------------------------------------------------------
CallsInv ==
  /\ pc \in {"idle", "waiting"}
  /\ calls \in Nat
  /\ stats \in [{"total", "corrupted", "valid", "timed_out"} -> Nat]
  /\ CallsAccountedFor

\* A call in progress that returns and is counted under one heading.
LEMMA OneHeading ==
  ASSUME CallsInv, pc = "waiting", NEW r, Return(r),
         stats' \in [{"total", "corrupted", "valid", "timed_out"} -> Nat],
         stats'.timed_out + stats'.corrupted + stats'.valid
           = stats.timed_out + stats.corrupted + stats.valid + 1
  PROVE  CallsInv'
<1>1. pc' = "idle" /\ calls' = calls
  BY DEF Return
<1>2. stats.timed_out + stats.corrupted + stats.valid = calls - 1
  BY DEF CallsInv, CallsAccountedFor
<1>3. stats'.timed_out + stats'.corrupted + stats'.valid = calls
  BY <1>2 DEF CallsInv
<1> QED
  BY <1>1, <1>3 DEF CallsInv, CallsAccountedFor

LEMMA CallsInvInductive ==
  ASSUME CallsInv, [Next]_vars
  PROVE  CallsInv'
<1> DEFINE counted == [stats EXCEPT !.total = @ + 1]
<1>1. counted \in [{"total", "corrupted", "valid", "timed_out"} -> Nat]
  BY DEF CallsInv
<1>2. /\ counted.timed_out = stats.timed_out /\ counted.corrupted = stats.corrupted
      /\ counted.valid = stats.valid
  BY DEF CallsInv
<1>3. /\ stats.timed_out \in Nat /\ stats.corrupted \in Nat /\ stats.valid \in Nat
  BY DEF CallsInv
<1>4. CASE SendCommand
  BY <1>4 DEF SendCommand, CallsInv, CallsAccountedFor
<1>5. CASE TimeOut
  <2>1. pc = "waiting" /\ Return(Failure(timed_out))
        /\ stats' = [stats EXCEPT !.timed_out = @ + 1]
    BY <1>5 DEF TimeOut
  <2>2. /\ stats' \in [{"total", "corrupted", "valid", "timed_out"} -> Nat]
        /\ stats'.timed_out = stats.timed_out + 1 /\ stats'.corrupted = stats.corrupted
        /\ stats'.valid = stats.valid
    BY <2>1 DEF CallsInv
  <2> QED
    BY <1>3, <2>1, <2>2, OneHeading
<1>6. CASE RejectHeader
  <2>1. pc = "waiting" /\ Return(Failure(corrupted))
        /\ stats' = [stats EXCEPT !.corrupted = @ + 1]
    BY <1>6 DEF RejectHeader, ReadByte
  <2>2. /\ stats' \in [{"total", "corrupted", "valid", "timed_out"} -> Nat]
        /\ stats'.timed_out = stats.timed_out /\ stats'.corrupted = stats.corrupted + 1
        /\ stats'.valid = stats.valid
    BY <2>1 DEF CallsInv
  <2> QED
    BY <1>3, <2>1, <2>2, OneHeading
<1>7. CASE RejectPayload
  <2>1. pc = "waiting" /\ Return(Failure(corrupted))
        /\ stats' = [counted EXCEPT !.corrupted = @ + 1]
    BY <1>7 DEF RejectPayload, PacketReceived, ReadByte
  <2> HIDE DEF counted
  <2>2. /\ stats' \in [{"total", "corrupted", "valid", "timed_out"} -> Nat]
        /\ stats'.timed_out = stats.timed_out /\ stats'.corrupted = stats.corrupted + 1
        /\ stats'.valid = stats.valid
    BY <1>1, <1>2, <2>1
  <2> QED
    BY <1>3, <2>1, <2>2, OneHeading
<1>8. CASE ReceiveResponse
  <2>1. /\ pc = "waiting" /\ \E r : Return(r)
        /\ stats' = [counted EXCEPT !.valid = @ + 1]
    BY <1>8 DEF ReceiveResponse, PacketReceived, ReadByte
  <2> HIDE DEF counted
  <2>2. /\ stats' \in [{"total", "corrupted", "valid", "timed_out"} -> Nat]
        /\ stats'.timed_out = stats.timed_out /\ stats'.corrupted = stats.corrupted
        /\ stats'.valid = stats.valid + 1
    BY <1>1, <1>2, <2>1
  <2> QED
    BY <1>3, <2>1, <2>2, OneHeading
<1>9. CASE UNCHANGED <<pc, calls, stats>>
  BY <1>9 DEF CallsInv, CallsAccountedFor
<1>10. \/ SendCommand \/ TimeOut \/ RejectHeader \/ RejectPayload \/ ReceiveResponse
       \/ UNCHANGED <<pc, calls, stats>>
  BY DEF Next, Poll, StoreByte, AcceptHeader, Tick, ByteArrives, BytesLeave, vars, call
<1> QED
  BY <1>4, <1>5, <1>6, <1>7, <1>8, <1>9, <1>10

LEMMA CallsInvInvariant == Spec => []CallsInv
<1>1. Init => CallsInv
  BY DEF Init, CallsInv, CallsAccountedFor
<1>2. CallsInv /\ [Next]_vars => CallsInv'
  BY CallsInvInductive
<1> QED
  BY <1>1, <1>2, PTL DEF Spec

\* However many calls are made and whatever the line does to them, each is in
\* exactly one of the host's statistics.
THEOREM MasterCallsAccountedFor == Spec => []CallsAccountedFor
<1>1. CallsInv => CallsAccountedFor
  BY DEF CallsInv
<1> QED
  BY <1>1, CallsInvInvariant, PTL

-----------------------------------------------------------------------------
(* Type correctness.                                                       *)

\* The part of the type invariant that the two invariants above leave.
CallInv ==
  /\ transmitted \in Seq(Byte)
  /\ elapsed \in 0..Horizon
  /\ command \in Commands
  /\ result \in Results

LEMMA SerializedRequest ==
  ASSUME Crc8Assumption, NEW c \in Commands
  PROVE  SerializeRequest(c) \in Seq(Byte)
<1> DEFINE header == <<c.receiver_id, c.operation_code, Len(c.payload)>>
<1>1. /\ c.receiver_id \in Byte /\ c.operation_code \in Byte
      /\ c.payload \in Seq(Byte) /\ Len(c.payload) \in Byte
  BY ByteAssumption, MasterAssumption DEF Byte
<1>2. header \in Seq(Byte)
  BY <1>1
<1>3. GenerateCrc8(header) \in Byte /\ GenerateCrc8(c.payload) \in Byte
  BY <1>1, <1>2 DEF Crc8Assumption
<1> QED
  BY <1>1, <1>2, <1>3 DEF SerializeRequest

\* A failure of the framework is a response without payload.
LEMMA FailureIsResult ==
  \A code \in {timed_out, corrupted, malformed_response} : Failure(code) \in Results
BY ByteAssumption DEF Failure, Results, Byte, timed_out, corrupted, malformed_response

\* Where a packet is complete, what it deserializes to is a response.
LEMMA ReceivedResponse ==
  ASSUME ParserInv, PacketReceived
  PROVE  DeSerializeResponse(Buffer) \in Results
<1> USE ByteAssumption DEF ResponseHeaderSize, ResponsePacketSize, ResponseMaxSize
<1>1. /\ Buffer \in Seq(Byte) /\ Len(Buffer) = Len(rx_buffer) + 1
      /\ \A i \in 1..Len(rx_buffer) : Buffer[i] = rx_buffer[i]
  BY BufferExtends DEF ParserInv, PacketReceived, ReadByte
<1>2. Len(Buffer) = expected_packet_size /\ Len(Buffer) # 3
  BY DEF PacketReceived
<1>3. Len(rx_buffer) >= 3 /\ expected_packet_size = 4 + rx_buffer[2]
  <2>1. CASE Len(rx_buffer) < 3
    BY <1>1, <1>2, <2>1 DEF ParserInv, Framing
  <2> QED
    BY <2>1, <1>1 DEF ParserInv, Framing, ResponsePayloadSize
<1>4. Buffer[2] = rx_buffer[2]
  BY <1>1, <1>3
<1>5. 4 + Buffer[2] = Len(Buffer) /\ Buffer[2] \in Nat
  BY <1>1, <1>2, <1>3, <1>4 DEF Byte
<1>6. SubSeq(Buffer, 5, Len(Buffer)) \in Seq(Byte)
  BY <1>1, <1>3, <1>5
<1>7. Buffer[1] \in Byte
  BY <1>1, <1>3
<1> QED
  BY <1>5, <1>6, <1>7 DEF DeSerializeResponse, ResponsePayloadSize, Results

LEMMA CallInvInductive ==
  ASSUME Crc8Assumption, ParserInv, CallInv, [Next]_vars
  PROVE  CallInv'
<1> USE DEF CallInv
<1>1. ASSUME NEW r \in Results, Return(r) PROVE CallInv'
  BY <1>1 DEF Return
<1>2. 0 \in 0..Horizon /\ Advance(elapsed) \in 0..Horizon
  BY MasterAssumption DEF Advance
<1>3. CASE SendCommand
  <2>1. /\ command' \in Commands /\ elapsed' = 0 /\ result' = result
        /\ transmitted' = transmitted \o SerializeRequest(command')
    BY <1>3 DEF SendCommand
  <2>2. SerializeRequest(command') \in Seq(Byte)
    BY <2>1, SerializedRequest
  <2>3. transmitted' \in Seq(Byte)
    BY <2>1, <2>2
  <2> QED
    BY <1>2, <2>1, <2>3
<1>4. CASE StoreByte \/ AcceptHeader
  BY <1>4 DEF StoreByte, AcceptHeader, call
<1>5. CASE TimeOut
  BY <1>1, <1>5, FailureIsResult DEF TimeOut
<1>6. CASE RejectHeader
  BY <1>1, <1>6, FailureIsResult DEF RejectHeader
<1>7. CASE RejectPayload
  BY <1>1, <1>7, FailureIsResult DEF RejectPayload
<1>8. CASE ReceiveResponse
  BY <1>1, <1>8, FailureIsResult, ReceivedResponse DEF ReceiveResponse
<1>9. CASE Tick
  BY <1>2, <1>9 DEF Tick, call
<1>10. CASE ByteArrives
  BY <1>10 DEF ByteArrives, call
<1>11. CASE BytesLeave
  BY <1>11 DEF BytesLeave, call
<1>12. CASE UNCHANGED vars
  BY <1>12 DEF vars, call
<1> QED
  BY <1>3, <1>4, <1>5, <1>6, <1>7, <1>8, <1>9, <1>10, <1>11, <1>12 DEF Next, Poll

\* Every variable of the handler keeps its type, and a call returns a response
\* that fits its packet, if the CRC is a byte.
THEOREM MasterTypeOK == ASSUME Crc8Assumption PROVE Spec => []TypeOK
<1>1. Init => CallInv
  BY ByteAssumption, MasterAssumption
     DEF Init, CallInv, Failure, Results, Byte, unset_default_value
<1>2. ParserInv /\ CallInv /\ [Next]_vars => CallInv'
  BY CallInvInductive
<1>3. ParserInv /\ CallsInv /\ CallInv => TypeOK
  BY DEF ParserInv, CallsInv, CallInv, TypeOK
<1> QED
  BY <1>1, <1>2, <1>3, ParserInvInvariant, CallsInvInvariant, PTL DEF Spec

=============================================================================
