------------------------------- MODULE Packets -------------------------------
(***************************************************************************)
(* The wire format of the serial communication framework: the request and  *)
(* response packets of packets.h, their (de)serialization and the CRC      *)
(* checks of serialize_deserialize.cpp, and the response codes of          *)
(* common.h.                                                               *)
(*                                                                         *)
(* A packet on the line is a sequence of bytes.  The CRC is a parameter:   *)
(* what the two handlers do depends on it only through comparisons, so     *)
(* everything proved about them holds for every CRC function.              *)
(***************************************************************************)
EXTENDS Bytes

CONSTANT GenerateCrc8(_)   \* math::generateCrc8: sequence of bytes -> byte

\* What the return type of generateCrc8 says; few theorems need it.
Crc8Assumption == \A bytes \in Seq(Byte) : GenerateCrc8(bytes) \in Byte

\* What the callers of serializeRequest and serializeResponse hand over: the
\* payload is a list of at most UINT8_MAX bytes.
Payload  == {p \in Seq(Byte) : Len(p) <= UINT8_MAX}
Request  == [receiver_id : Byte, operation_code : Byte, payload : Payload]
Response == [response_code : Byte, payload : Payload]

-----------------------------------------------------------------------------
(* ResponseCode: the internal codes 1..5 are those the framework itself    *)
(* returns; a command handler must return one of the others.               *)
ok                     == 0
timed_out              == 1
corrupted              == 2
unknown_operation_code == 3
malformed_response     == 4
malformed_request      == 5
unexpected_local_error == 6
invalid_id             == 7
out_of_bounds          == 8
type_mismatch          == 9
forbidden              == 10
unset_default_value    == UINT8_MAX

InternalCode == timed_out..malformed_request
HandlerCode  == (ok..forbidden) \ InternalCode

-----------------------------------------------------------------------------
(* RequestPacket: receiver id, operation code, payload size, header CRC,   *)
(* payload CRC, payload.                                                   *)
RequestHeaderSize        == 4

\* Mutation: the byte of the payload CRC forgotten.
HeaderAndPayload(size) == RequestHeaderSize + size

RequestPacketSize(size)  == RequestHeaderSize + 1 + size
RequestMaxSize           == RequestPacketSize(UINT8_MAX)

SerializeRequest(req) ==
  LET header == <<req.receiver_id, req.operation_code, Len(req.payload)>>
  IN  header \o <<GenerateCrc8(header), GenerateCrc8(req.payload)>> \o req.payload

RequestPayloadSize(data)       == data[3]
RequestHeaderHasValidCrc(data) == GenerateCrc8(<<data[1], data[2], data[3]>>) = data[4]

DeSerializeRequest(data) ==
  [receiver_id    |-> data[1],
   operation_code |-> data[2],
   payload        |-> SubSeq(data, RequestHeaderSize + 2,
                             RequestPacketSize(RequestPayloadSize(data)))]

RequestPayloadHasValidCrc(data) ==
  /\ GenerateCrc8(DeSerializeRequest(data).payload) = data[5]
  /\ RequestHeaderHasValidCrc(data)

-----------------------------------------------------------------------------
(* ResponsePacket: response code, payload size, header CRC, payload CRC,   *)
(* payload.                                                                *)
ResponseHeaderSize       == 3

\* Mutation: the byte of the payload CRC forgotten.
HeaderAndAnswer(size) == ResponseHeaderSize + size

ResponsePacketSize(size) == ResponseHeaderSize + 1 + size
ResponseMaxSize          == ResponsePacketSize(UINT8_MAX)

SerializeResponse(resp) ==
  LET header == <<resp.response_code, Len(resp.payload)>>
  IN  header \o <<GenerateCrc8(header), GenerateCrc8(resp.payload)>> \o resp.payload

ResponsePayloadSize(data)       == data[2]
ResponseHeaderHasValidCrc(data) == GenerateCrc8(<<data[1], data[2]>>) = data[3]

DeSerializeResponse(data) ==
  [response_code |-> data[1],
   payload       |-> SubSeq(data, ResponseHeaderSize + 2,
                            ResponsePacketSize(ResponsePayloadSize(data)))]

ResponsePayloadHasValidCrc(data) ==
  /\ GenerateCrc8(DeSerializeResponse(data).payload) = data[4]
  /\ ResponseHeaderHasValidCrc(data)

=============================================================================
