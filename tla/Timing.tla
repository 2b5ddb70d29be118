------------------------------- MODULE Timing --------------------------------
(***************************************************************************)
(* The two response timeouts of common.h and the delays that decide        *)
(* whether they do what they are for.  Only the timeouts are in the code;  *)
(* the delays are what the line, the drivers and the firmware's main loop  *)
(* take, in the same unit.                                                 *)
(***************************************************************************)
EXTENDS Integers

CONSTANTS
  K_MASTER_TIMEOUT_MS,
  K_SLAVE_TIMEOUT_MS,
  RequestDelay,    \* from the host's transmit to run() seeing the whole request
  HandlerDelay,    \* from there to run() transmitting the response, or dropping it
  ResponseDelay,   \* from there to the host seeing the whole response
  Horizon          \* bound of a run: clocks stop counting here

ASSUME TimingAssumption ==
  /\ K_MASTER_TIMEOUT_MS \in Nat /\ K_SLAVE_TIMEOUT_MS \in Nat
  /\ RequestDelay \in Nat /\ HandlerDelay \in Nat /\ ResponseDelay \in Nat
  /\ Horizon \in Nat
  /\ Horizon > K_MASTER_TIMEOUT_MS /\ Horizon > K_SLAVE_TIMEOUT_MS
  /\ Horizon > HandlerDelay /\ Horizon > ResponseDelay

Advance(t) == IF t < Horizon THEN t + 1 ELSE t

\* What common.h asks of the two timeouts ...
SlaveTimesOutFirst == K_SLAVE_TIMEOUT_MS < K_MASTER_TIMEOUT_MS

\* ... and what it takes: the device's clock starts when the request has
\* arrived, the host's when it was sent, so the transit times count too, and a
\* handler that runs on past its timeout must end before the host gives up.
AnswersInTime ==
  /\ RequestDelay + K_SLAVE_TIMEOUT_MS + ResponseDelay <= K_MASTER_TIMEOUT_MS
  /\ RequestDelay + HandlerDelay <= K_MASTER_TIMEOUT_MS
=============================================================================
