----------------------------- MODULE SerialLink ------------------------------
(***************************************************************************)
(* A host and a device joined by a serial line: MasterHandler and          *)
(* SlaveHandler, with what one hands to its driver arriving, byte by byte  *)
(* and in order, at the other.  The line may disturb bytes.                *)
(***************************************************************************)
EXTENDS Packets, Timing

CONSTANTS
  DeviceId,
  HandledOperations,
  RequestDeserializes(_, _),    \* on the device, operation and payload
  HandlerResponses(_, _),
  ResponseDeserializes(_, _),   \* on the host
  Commands,
  DisturbHeaders,               \* may the line disturb a header, or only what follows it?
  MaxFaults,                    \* bound of a run: bytes disturbed
  MaxCalls                      \* bound of a run: calls made

ASSUME LinkAssumption ==
  /\ Commands \subseteq Request
  /\ DisturbHeaders \in BOOLEAN /\ MaxFaults \in Nat /\ MaxCalls \in Nat

VARIABLES
  to_slave, to_master,          \* bytes under way, the receiving driver's buffer included
  s_rx_buffer, s_expected_packet_size, s_elapsed, s_pc, s_response, s_stats,
  m_rx_buffer, m_expected_packet_size, m_elapsed, m_pc, m_stats,
  command, result, calls,
  answer_age,                   \* since the device last transmitted
  faults                        \* bytes disturbed so far

slave_vars  == <<s_rx_buffer, s_expected_packet_size, s_elapsed, s_pc, s_response, s_stats>>
master_vars == <<m_rx_buffer, m_expected_packet_size, m_elapsed, m_pc, m_stats,
                 command, result, calls>>
vars == <<to_slave, to_master, slave_vars, master_vars, answer_age, faults>>

Slave == INSTANCE SlaveHandler WITH
  Deserializes <- RequestDeserializes,
  HeaderBytes <- {}, PayloadBytes <- {}, MaxPackets <- 0,
  received <- to_slave, transmitted <- to_master,
  rx_buffer <- s_rx_buffer, expected_packet_size <- s_expected_packet_size,
  elapsed <- s_elapsed, pc <- s_pc, response <- s_response, stats <- s_stats

Master == INSTANCE MasterHandler WITH
  Deserializes <- ResponseDeserializes,
  HeaderBytes <- {}, PayloadBytes <- {},
  received <- to_master, transmitted <- to_slave,
  rx_buffer <- m_rx_buffer, expected_packet_size <- m_expected_packet_size,
  elapsed <- m_elapsed, pc <- m_pc, stats <- m_stats

Init ==
  /\ Slave!Init
  /\ Master!Init
  /\ answer_age = 0
  /\ faults = 0

-----------------------------------------------------------------------------
SlaveRun ==
  /\ Slave!Run
  /\ answer_age' = IF to_master' # to_master THEN 0 ELSE answer_age
  /\ UNCHANGED <<master_vars, faults>>

MasterCall ==
  /\ Master!SendCommand
  /\ UNCHANGED <<to_master, slave_vars, answer_age, faults>>

MasterPoll ==
  /\ Master!Poll
  /\ UNCHANGED <<to_slave, slave_vars, answer_age, faults>>

\* Both clocks are the same time; no packet takes longer than its delay.
Tick ==
  /\ to_slave # <<>> /\ s_pc = "run" => m_elapsed < RequestDelay
  /\ s_pc = "answering" => s_elapsed < HandlerDelay
  /\ to_master # <<>> /\ m_pc = "waiting" => answer_age < ResponseDelay
  /\ s_elapsed' = Advance(s_elapsed)
  /\ m_elapsed' = Advance(m_elapsed)
  /\ answer_age' = Advance(answer_age)
  /\ UNCHANGED <<to_slave, to_master, faults, calls, command, result,
                 s_rx_buffer, s_expected_packet_size, s_pc, s_response, s_stats,
                 m_rx_buffer, m_expected_packet_size, m_pc, m_stats>>

\* A byte changed on the line.  `read' is how much of its packet has arrived.
Disturbed(queue, i) == [queue EXCEPT ![i] = (@ + 1) % (UINT8_MAX + 1)]
MayDisturb(read, header_size) == DisturbHeaders \/ read >= header_size

DisturbByte ==
  /\ faults < MaxFaults
  /\ faults' = faults + 1
  /\ \/ \E i \in DOMAIN to_slave :
          /\ MayDisturb(Len(s_rx_buffer) + i - 1, RequestHeaderSize)
          /\ to_slave' = Disturbed(to_slave, i)
          /\ UNCHANGED to_master
     \/ \E i \in DOMAIN to_master :
          /\ MayDisturb(Len(m_rx_buffer) + i - 1, ResponseHeaderSize)
          /\ to_master' = Disturbed(to_master, i)
          /\ UNCHANGED to_slave
  /\ UNCHANGED <<slave_vars, master_vars, answer_age>>

Next == SlaveRun \/ MasterCall \/ MasterPoll \/ Tick \/ DisturbByte

Spec == Init /\ [][Next]_vars

-----------------------------------------------------------------------------
(* The refinement: CommandExchange sees packets where this module has      *)
(* bytes.  A packet is under way until its last byte is read.              *)

\* The whole packets in a sequence of bytes that starts with one of that size:
\* none, one, or more than one (2).
PacketsIn(bytes, header_size, packet_size) ==
  IF Len(bytes) < header_size \/ Len(bytes) < packet_size THEN 0
  ELSE IF Len(bytes) = packet_size THEN 1 ELSE 2

RequestsUnderWay ==
  LET bytes == s_rx_buffer \o to_slave IN
  PacketsIn(bytes, RequestHeaderSize, RequestPacketSize(RequestPayloadSize(bytes)))

AnswersUnderWay ==
  LET bytes == m_rx_buffer \o to_master IN
  PacketsIn(bytes, ResponseHeaderSize, ResponsePacketSize(ResponsePayloadSize(bytes)))

Exchange == INSTANCE CommandExchange WITH
  caller <- m_pc,
  elapsed <- m_elapsed,
  requests <- RequestsUnderWay,
  handling <- IF s_pc = "answering" THEN 1 ELSE 0,
  handling_time <- s_elapsed,
  answers <- AnswersUnderWay

\* The link behaves as whole packets exchanged in time do.
ImplementsCommandExchange == Exchange!Spec

\* Once a call has returned nothing of it is left anywhere: not on the line, in
\* the drivers, in the device's buffer, or in its main loop.
LineQuiet ==
  m_pc = "idle" =>
    /\ to_slave = <<>> /\ to_master = <<>>
    /\ s_rx_buffer = <<>> /\ s_pc = "run"

\* The device only starts to answer while the host still waits for it: what
\* common.h wants of the two timeouts.
AnswersOnlyWhileWaiting ==
  [][Len(to_master') > Len(to_master)
       => m_pc = "waiting" /\ m_elapsed <= K_MASTER_TIMEOUT_MS]_vars

\* What a call returns is an answer of the addressed device to this very
\* request, or one of the codes of the framework itself.
ResponseMatchesCall ==
  m_pc = "idle" /\ calls > 0 =>
    \/ result.response_code \in {timed_out, corrupted, malformed_response}
    \/ /\ command.receiver_id = DeviceId
       /\ result \in Slave!SlaveResponses(command.operation_code, command.payload)

\* The two ends keep the same books: every packet the device counted it is
\* still answering, has dropped as late, or has answered, and an answer is
\* under way or counted by the host.  None is lost, doubled or misframed.
StatisticsAgree ==
  s_stats.total = (IF s_pc = "answering" THEN 1 ELSE 0)
                  + s_stats.timed_out + AnswersUnderWay + m_stats.total

=============================================================================
