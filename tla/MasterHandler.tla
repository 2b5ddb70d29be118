---------------------------- MODULE MasterHandler ----------------------------
(***************************************************************************)
(* The host's end of the serial protocol:                                  *)
(* MasterHandler::sendCommandAndReceiveResponseBlocking transmits a request *)
(* and polls the driver for the response until it is complete, found       *)
(* corrupted, or late.                                                     *)
(*                                                                         *)
(* SendCommand is the part up to the loop; every other action is one       *)
(* iteration of the loop, which checks the timeout before it reads at most *)
(* one byte, together with what follows the loop when that iteration is    *)
(* its last.  Bytes left in the driver by an earlier call are not thrown   *)
(* away: the next call reads them.                                         *)
(***************************************************************************)
EXTENDS Packets

CONSTANTS
  Commands,             \* the requests callers make: receiver, operation, payload
  Deserializes(_, _),   \* does operation o's Response::deserialize accept payload p?
  K_MASTER_TIMEOUT_MS,
  Horizon,              \* bound of a run: a clock stops counting here
  HeaderBytes,          \* bound of a run: bytes that may arrive in a header ...
  PayloadBytes,         \* ... and in a payload
  MaxCalls              \* bound of a run: calls made

ASSUME MasterAssumption ==
  /\ Commands \subseteq [receiver_id : Byte, operation_code : Byte, payload : Seq(Byte)]
  /\ \A c \in Commands : Len(c.payload) <= UINT8_MAX
  /\ Commands # {}
  /\ K_MASTER_TIMEOUT_MS \in Nat
  /\ Horizon \in Nat /\ Horizon > K_MASTER_TIMEOUT_MS
  /\ HeaderBytes \subseteq Byte /\ PayloadBytes \subseteq Byte
  /\ MaxCalls \in Nat

VARIABLES
  received,             \* bytes the driver has received and nobody has read
  transmitted,          \* bytes handed to the driver
  rx_buffer,            \* rx_buffer_[0 .. rx_index - 1]
  expected_packet_size,
  elapsed,              \* now - response_timout_start_time_point_
  pc,                   \* "idle", or "waiting" in the loop of a call
  command,              \* the request of the current or last call
  result,               \* what the last call returned
  calls,                \* calls made
  stats                 \* communication_statistics_

parser == <<rx_buffer, expected_packet_size>>
call   == <<command, result, calls>>
vars   == <<received, transmitted, parser, elapsed, pc, call, stats>>

Failure(code) == [response_code |-> code, payload |-> <<>>]
Results == [response_code : Byte, payload : Seq(Byte)]

Init ==
  /\ received = <<>> /\ transmitted = <<>>
  /\ rx_buffer = <<>>
  /\ expected_packet_size = ResponseMaxSize
  /\ elapsed = 0
  /\ pc = "idle"
  /\ command \in Commands
  /\ result = Failure(unset_default_value)
  /\ calls = 0
  /\ stats = [total |-> 0, corrupted |-> 0, valid |-> 0, timed_out |-> 0]

-----------------------------------------------------------------------------
\* Mutation: the timeout of the call before goes on.
SendCommandUntimed ==
  /\ pc = "idle"
  /\ calls < MaxCalls
  /\ command' \in Commands
  /\ transmitted' = transmitted \o SerializeRequest(command')
  /\ pc' = "waiting"
  /\ calls' = calls + 1
  /\ UNCHANGED <<received, elapsed, parser, result, stats>>

SendCommand ==
  /\ pc = "idle"
  /\ calls < MaxCalls
  /\ command' \in Commands
  /\ transmitted' = transmitted \o SerializeRequest(command')
  /\ elapsed' = 0
  /\ pc' = "waiting"
  /\ calls' = calls + 1
  /\ UNCHANGED <<received, parser, result, stats>>

\* Mutation: the build with the timeouts of the framework disabled.
TimeoutsDisabled == FALSE

ResponseHasTimedOut == elapsed > K_MASTER_TIMEOUT_MS

\* The call returns r; its index and expected size go with its stack frame.
Return(r) ==
  /\ pc' = "idle"
  /\ result' = r
  /\ rx_buffer' = <<>>
  /\ expected_packet_size' = ResponseMaxSize
  /\ UNCHANGED <<transmitted, elapsed, command, calls>>

TimeOut ==
  /\ pc = "waiting"
  /\ ResponseHasTimedOut
  /\ stats' = [stats EXCEPT !.timed_out = @ + 1]
  /\ Return(Failure(timed_out))
  /\ UNCHANGED received

Buffer == rx_buffer \o <<Head(received)>>

ReadByte ==
  /\ pc = "waiting"
  /\ ~ResponseHasTimedOut
  /\ received # <<>>
  /\ received' = Tail(received)

StoreByte ==
  /\ ReadByte
  /\ Len(Buffer) \notin {ResponseHeaderSize, expected_packet_size}
  /\ rx_buffer' = Buffer
  /\ UNCHANGED <<transmitted, expected_packet_size, elapsed, pc, call, stats>>

AcceptHeader ==
  /\ ReadByte
  /\ Len(Buffer) = ResponseHeaderSize
  /\ ResponseHeaderHasValidCrc(Buffer)
  /\ rx_buffer' = Buffer
  /\ expected_packet_size' = ResponsePacketSize(ResponsePayloadSize(Buffer))
  /\ UNCHANGED <<transmitted, elapsed, pc, call, stats>>

\* The bytes that follow the header stay in the driver.
RejectHeader ==
  /\ ReadByte
  /\ Len(Buffer) = ResponseHeaderSize
  /\ ~ResponseHeaderHasValidCrc(Buffer)
  /\ stats' = [stats EXCEPT !.corrupted = @ + 1]
  /\ Return(Failure(corrupted))

PacketReceived ==
  /\ ReadByte
  /\ Len(Buffer) # ResponseHeaderSize
  /\ Len(Buffer) = expected_packet_size

\* Mutation: the corrupted packet not counted as corrupted.
RejectPayloadUncounted ==
  /\ PacketReceived
  /\ ~ResponsePayloadHasValidCrc(Buffer)
  /\ stats' = [stats EXCEPT !.total = @ + 1]
  /\ Return(Failure(corrupted))

RejectPayload ==
  /\ PacketReceived
  /\ ~ResponsePayloadHasValidCrc(Buffer)
  /\ stats' = [stats EXCEPT !.total = @ + 1, !.corrupted = @ + 1]
  /\ Return(Failure(corrupted))

\* Mutation: the payload CRC not checked.
ReceiveUnchecked ==
  /\ PacketReceived
  /\ stats' = [stats EXCEPT !.total = @ + 1, !.valid = @ + 1]
  /\ Return(DeSerializeResponse(Buffer))

\* A payload the command cannot parse hides the device's response code.
ReceiveResponse ==
  LET response == DeSerializeResponse(Buffer) IN
  /\ PacketReceived
  /\ ResponsePayloadHasValidCrc(Buffer)
  /\ stats' = [stats EXCEPT !.total = @ + 1, !.valid = @ + 1]
  /\ Return(IF Deserializes(command.operation_code, response.payload)
              THEN response
              ELSE Failure(malformed_response))

Poll ==
  \/ TimeOut
  \/ StoreByte \/ AcceptHeader \/ RejectHeader
  \/ RejectPayload \/ ReceiveResponse

-----------------------------------------------------------------------------
(* The environment of a host on its own: any byte may arrive at any time,  *)
(* also between two calls, and the driver sends what it was handed.        *)
Advance(t) == IF t < Horizon THEN t + 1 ELSE t

Tick ==
  /\ elapsed' = Advance(elapsed)
  /\ UNCHANGED <<received, transmitted, parser, pc, call, stats>>

ByteArrives ==
  /\ received = <<>>
  /\ \E b \in IF Len(rx_buffer) <= ResponseHeaderSize THEN HeaderBytes ELSE PayloadBytes :
       received' = <<b>>
  /\ UNCHANGED <<transmitted, parser, elapsed, pc, call, stats>>

BytesLeave ==
  /\ transmitted # <<>>
  /\ transmitted' = <<>>
  /\ UNCHANGED <<received, parser, elapsed, pc, call, stats>>

Next == SendCommand \/ Poll \/ Tick \/ ByteArrives \/ BytesLeave

\* The clock advances and the calling thread keeps looping.  Nothing is
\* assumed of the device or of the line.
Spec == Init /\ [][Next]_vars /\ WF_vars(Tick) /\ WF_vars(Poll)

-----------------------------------------------------------------------------
TypeOK ==
  /\ received \in Seq(Byte)
  /\ transmitted \in Seq(Byte)
  /\ rx_buffer \in Seq(Byte)
  /\ expected_packet_size \in Nat
  /\ elapsed \in 0..Horizon
  /\ pc \in {"idle", "waiting"}
  /\ command \in Commands
  /\ result \in Results
  /\ calls \in Nat
  /\ stats \in [{"total", "corrupted", "valid", "timed_out"} -> Nat]

\* In the loop the buffer holds a proper prefix of a response that fits in
\* rx_buffer_, and past the header the expected size is the one a valid header
\* announced.
Framing ==
  /\ Len(rx_buffer) < expected_packet_size
  /\ expected_packet_size <= ResponseMaxSize
  /\ Len(rx_buffer) < ResponseHeaderSize => expected_packet_size = ResponseMaxSize
  /\ Len(rx_buffer) >= ResponseHeaderSize =>
       /\ ResponseHeaderHasValidCrc(rx_buffer)
       /\ expected_packet_size = ResponsePacketSize(ResponsePayloadSize(rx_buffer))

\* Every call that has returned is in exactly one of the statistics: it timed
\* out, found its response corrupted, or got a valid one.  (The counters are
\* what a user has to judge the line by.)
CallsAccountedFor ==
  stats.timed_out + stats.corrupted + stats.valid
    = calls - (IF pc = "waiting" THEN 1 ELSE 0)

\* The blocking call returns whatever the line delivers: nothing at all, bytes
\* for ever, or a response that stops half way.
CallReturns == pc = "waiting" ~> pc = "idle"

=============================================================================
