---------------------------- MODULE SlaveHandler -----------------------------
(***************************************************************************)
(* The device's end of the serial protocol: SlaveHandler::run(), polled    *)
(* from the firmware's main loop, reads at most one byte per call,         *)
(* assembles request packets and answers those addressed to the device.    *)
(*                                                                         *)
(* One action is one call of run(), except that a call that completes a    *)
(* packet is two: the first ends where the response is ready, the second   *)
(* (Answer) checks the response timeout and transmits.  Time may pass      *)
(* between them, as it does while a command handler runs.  The serial      *)
(* driver is its two queues, `received' and `transmitted'.                 *)
(***************************************************************************)
EXTENDS Packets

CONSTANTS
  DeviceId,             \* device_id_
  HandledOperations,    \* operation codes with a registered command handler
  Deserializes(_, _),   \* does operation o's Request::deserialize accept payload p?
  HandlerResponses(_, _),\* the responses o's command handler may give to payload p
  K_SLAVE_TIMEOUT_MS,
  Horizon,              \* bound of a run: a clock stops counting here
  HeaderBytes,          \* bound of a run: bytes that may arrive in a header ...
  PayloadBytes,         \* ... and in a payload
  MaxPackets            \* bound of a run: packets counted before bytes stop arriving

ASSUME SlaveAssumption ==
  /\ DeviceId \in Byte
  /\ HandledOperations \subseteq Byte
  /\ K_SLAVE_TIMEOUT_MS \in Nat
  /\ Horizon \in Nat /\ Horizon > K_SLAVE_TIMEOUT_MS
  /\ HeaderBytes \subseteq Byte /\ PayloadBytes \subseteq Byte
  /\ MaxPackets \in Nat

VARIABLES
  received,             \* bytes the driver has received and run() has not read
  transmitted,          \* bytes handed to the driver
  rx_buffer,            \* rx_buffer_[0 .. rx_index - 1]
  expected_packet_size,
  elapsed,              \* now - response_timout_start_time_point_
  pc,                   \* "run", or "answering" with a response ready
  response,             \* the response to transmit
  stats                 \* communication_statistics_

parser == <<rx_buffer, expected_packet_size>>
vars   == <<received, transmitted, parser, elapsed, pc, response, stats>>

\* What a device may answer: a handler's code, or one of the framework's that
\* concern the request.
SlaveCode == HandlerCode \cup {corrupted, unknown_operation_code, malformed_request}
Responses == [response_code : SlaveCode, payload : Seq(Byte)]
CorruptedResponse == [response_code |-> corrupted, payload |-> <<>>]

\* The start point is zero when run() is first called, at any uptime.
Init ==
  /\ received = <<>> /\ transmitted = <<>>
  /\ rx_buffer = <<>>
  /\ expected_packet_size = RequestMaxSize
  /\ elapsed \in 0..Horizon
  /\ pc = "run"
  /\ response = CorruptedResponse
  /\ stats = [total |-> 0, corrupted |-> 0, valid |-> 0, timed_out |-> 0]

-----------------------------------------------------------------------------
\* Mutation: the build with the timeouts of the framework disabled.
TimeoutsDisabled == FALSE

ResponseHasTimedOut == elapsed > K_SLAVE_TIMEOUT_MS

\* The buffer once the byte at the head of the driver's queue is stored.
Buffer == rx_buffer \o <<Head(received)>>

ReadByte ==
  /\ pc = "run"
  /\ received # <<>>
  /\ received' = Tail(received)

StoreByte ==
  /\ ReadByte
  /\ Len(Buffer) \notin {RequestHeaderSize, expected_packet_size}
  /\ rx_buffer' = Buffer
  /\ UNCHANGED <<transmitted, expected_packet_size, elapsed, pc, response, stats>>

AcceptHeader ==
  /\ ReadByte
  /\ Len(Buffer) = RequestHeaderSize
  /\ RequestHeaderHasValidCrc(Buffer)
  /\ rx_buffer' = Buffer
  /\ expected_packet_size' = RequestPacketSize(RequestPayloadSize(Buffer))
  /\ UNCHANGED <<transmitted, elapsed, pc, response, stats>>

\* The receiver id is not looked at, and the clock still runs from the last
\* complete packet (or from zero, if there was none).
RejectHeader ==
  /\ ReadByte
  /\ Len(Buffer) = RequestHeaderSize
  /\ ~RequestHeaderHasValidCrc(Buffer)
  /\ rx_buffer' = <<>>
  /\ stats' = [stats EXCEPT !.corrupted = @ + 1]
  /\ transmitted' = IF ResponseHasTimedOut THEN transmitted
                    ELSE transmitted \o SerializeResponse(CorruptedResponse)
  /\ UNCHANGED <<expected_packet_size, elapsed, pc, response>>

\* Mutation: startResponseTimeout() forgotten.
PacketReceivedUntimed ==
  /\ ReadByte
  /\ Len(Buffer) # RequestHeaderSize
  /\ Len(Buffer) = expected_packet_size
  /\ rx_buffer' = <<>>
  /\ expected_packet_size' = RequestMaxSize
  /\ UNCHANGED <<elapsed, transmitted>>

PacketReceived ==
  /\ ReadByte
  /\ Len(Buffer) # RequestHeaderSize
  /\ Len(Buffer) = expected_packet_size
  /\ rx_buffer' = <<>>
  /\ expected_packet_size' = RequestMaxSize
  /\ elapsed' = 0
  /\ UNCHANGED transmitted

\* Mutation: total_packets_received counted before the id is checked.
CountForeignPacket ==
  /\ PacketReceived
  /\ DeSerializeRequest(Buffer).receiver_id # DeviceId
  /\ stats' = [stats EXCEPT !.total = @ + 1]
  /\ UNCHANGED <<pc, response>>

IgnoreForeignPacket ==
  /\ PacketReceived
  /\ DeSerializeRequest(Buffer).receiver_id # DeviceId
  /\ UNCHANGED <<pc, response, stats>>

\* Mutation: valid_packets_received counted before the CRC is checked.
CountBeforeCrc ==
  /\ PacketReceived
  /\ DeSerializeRequest(Buffer).receiver_id = DeviceId
  /\ ~RequestPayloadHasValidCrc(Buffer)
  /\ pc' = "answering"
  /\ response' = CorruptedResponse
  /\ stats' = [stats EXCEPT !.total = @ + 1, !.valid = @ + 1, !.corrupted = @ + 1]

RejectPayload ==
  /\ PacketReceived
  /\ DeSerializeRequest(Buffer).receiver_id = DeviceId
  /\ ~RequestPayloadHasValidCrc(Buffer)
  /\ pc' = "answering"
  /\ response' = CorruptedResponse
  /\ stats' = [stats EXCEPT !.total = @ + 1, !.corrupted = @ + 1]

\* Mutation: no handler found and the response code left at its default.
DefaultCodeIfUnknown(operation_code, payload) ==
  IF operation_code \notin HandledOperations
    THEN {[response_code |-> unset_default_value, payload |-> <<>>]}
  ELSE IF ~Deserializes(operation_code, payload)
    THEN {[response_code |-> malformed_request, payload |-> <<>>]}
  ELSE HandlerResponses(operation_code, payload)

\* What the table of command handlers and the adapter registered in it make
\* of a valid request.
SlaveResponses(operation_code, payload) ==
  IF operation_code \notin HandledOperations
    THEN {[response_code |-> unknown_operation_code, payload |-> <<>>]}
  ELSE IF ~Deserializes(operation_code, payload)
    THEN {[response_code |-> malformed_request, payload |-> <<>>]}
  ELSE HandlerResponses(operation_code, payload)

RunCommand ==
  LET request == DeSerializeRequest(Buffer) IN
  /\ PacketReceived
  /\ request.receiver_id = DeviceId
  /\ RequestPayloadHasValidCrc(Buffer)
  /\ pc' = "answering"
  /\ response' \in SlaveResponses(request.operation_code, request.payload)
  /\ stats' = [stats EXCEPT !.total = @ + 1, !.valid = @ + 1]

Answer ==
  /\ pc = "answering"
  /\ pc' = "run"
  /\ \/ /\ ResponseHasTimedOut
        /\ stats' = [stats EXCEPT !.timed_out = @ + 1]
        /\ UNCHANGED transmitted
     \/ /\ ~ResponseHasTimedOut
        /\ transmitted' = transmitted \o SerializeResponse(response)
        /\ UNCHANGED stats
  /\ UNCHANGED <<received, parser, elapsed, response>>

Run ==
  \/ StoreByte \/ AcceptHeader \/ RejectHeader
  \/ IgnoreForeignPacket \/ RejectPayload \/ RunCommand
  \/ Answer

-----------------------------------------------------------------------------
(* The environment of a device on its own: any byte may arrive at any      *)
(* time, and the driver sends what it was handed.                          *)
Advance(t) == IF t < Horizon THEN t + 1 ELSE t

Tick ==
  /\ elapsed' = Advance(elapsed)
  /\ UNCHANGED <<received, transmitted, parser, pc, response, stats>>

ByteArrives ==
  /\ received = <<>>
  /\ stats.total + stats.corrupted < MaxPackets
  /\ \E b \in IF Len(rx_buffer) <= RequestHeaderSize THEN HeaderBytes ELSE PayloadBytes :
       received' = <<b>>
  /\ UNCHANGED <<transmitted, parser, elapsed, pc, response, stats>>

BytesLeave ==
  /\ transmitted # <<>>
  /\ transmitted' = <<>>
  /\ UNCHANGED <<received, parser, elapsed, pc, response, stats>>

Next == Run \/ Tick \/ ByteArrives \/ BytesLeave

Spec == Init /\ [][Next]_vars

-----------------------------------------------------------------------------
TypeOK ==
  /\ received \in Seq(Byte)
  /\ transmitted \in Seq(Byte)
  /\ rx_buffer \in Seq(Byte)
  /\ expected_packet_size \in Nat
  /\ elapsed \in 0..Horizon
  /\ pc \in {"run", "answering"}
  /\ response \in Responses
  /\ stats \in [{"total", "corrupted", "valid", "timed_out"} -> Nat]

\* Between two calls of run() the buffer holds a proper prefix of a packet that
\* fits in rx_buffer_: up to the header the size is the default, and from then
\* on the header is a valid one and announces the expected size.  This answers
\* the source's "TODO SIZE OFF BY 1 indexing error?": the index never reaches
\* the expected size, so it can neither miss it nor leave the buffer.
Framing ==
  /\ Len(rx_buffer) < expected_packet_size
  /\ expected_packet_size <= RequestMaxSize
  /\ Len(rx_buffer) < RequestHeaderSize => expected_packet_size = RequestMaxSize
  /\ Len(rx_buffer) >= RequestHeaderSize =>
       /\ RequestHeaderHasValidCrc(rx_buffer)
       /\ expected_packet_size = RequestPacketSize(RequestPayloadSize(rx_buffer))

=============================================================================
