-------------------------- MODULE CommandExchange ----------------------------
(***************************************************************************)
(* The exchange of requests and answers between the host and one device at *)
(* the level of whole packets: who waits, how many packets are under way   *)
(* in each direction, and how old they are.  SerialLink implements it, one *)
(* byte at a time.                                                         *)
(*                                                                         *)
(* Packets carry no sequence number, so the host takes the next answer it  *)
(* receives for the answer to its current request.  That is right if       *)
(* nothing is under way whenever no call is in progress (LineQuiet).       *)
(***************************************************************************)
EXTENDS Timing

VARIABLES
  caller,          \* "idle", or "waiting" in sendCommandAndReceiveResponseBlocking
  elapsed,         \* since the host sent its last request
  requests,        \* requests sent that the device has not completely received
  handling,        \* 1 while the device holds a request it has not answered
  handling_time,   \* since the device completely received its last request
  answers,         \* answers sent that the host has not completely received
  answer_age       \* since the device sent its last answer

host   == <<caller, elapsed>>
device == <<requests, handling, handling_time>>
line   == <<answers, answer_age>>
vars   == <<host, device, line>>

Init ==
  /\ caller = "idle" /\ elapsed = 0
  /\ requests = 0 /\ handling = 0 /\ handling_time \in 0..Horizon
  /\ answers = 0 /\ answer_age = 0

\* sendCommandAndReceiveResponseBlocking transmits and starts its timeout.
Call ==
  /\ caller = "idle"
  /\ caller' = "waiting"
  /\ elapsed' = 0
  /\ requests' = requests + 1
  /\ UNCHANGED <<handling, handling_time, line>>

\* The loop finds the timeout expired.
GiveUp ==
  /\ caller = "waiting"
  /\ elapsed > K_MASTER_TIMEOUT_MS
  /\ caller' = "idle"
  /\ UNCHANGED <<elapsed, device, line>>

\* The loop completes a response, whatever its checksum and contents.
TakeAnswer ==
  /\ caller = "waiting"
  /\ elapsed <= K_MASTER_TIMEOUT_MS
  /\ answers > 0
  /\ caller' = "idle"
  /\ answers' = answers - 1
  /\ UNCHANGED <<elapsed, device, answer_age>>

\* run() completes a request; one for another device is ignored.
TakeRequest ==
  /\ handling = 0
  /\ requests > 0
  /\ requests' = requests - 1
  /\ handling' \in {0, 1}
  /\ handling_time' = 0
  /\ UNCHANGED <<host, line>>

\* run() transmits the response if its timeout has not expired.
Respond ==
  /\ handling = 1
  /\ handling' = 0
  /\ IF handling_time > K_SLAVE_TIMEOUT_MS
       THEN UNCHANGED line
       ELSE answers' = answers + 1 /\ answer_age' = 0
  /\ UNCHANGED <<host, requests, handling_time>>

\* No packet takes longer than its delay.
Tick ==
  /\ requests > 0 /\ handling = 0 => elapsed < RequestDelay
  /\ handling = 1 => handling_time < HandlerDelay
  /\ answers > 0 /\ caller = "waiting" => answer_age < ResponseDelay
  /\ elapsed' = Advance(elapsed)
  /\ handling_time' = Advance(handling_time)
  /\ answer_age' = Advance(answer_age)
  /\ UNCHANGED <<caller, requests, handling, answers>>

Next == Call \/ GiveUp \/ TakeAnswer \/ TakeRequest \/ Respond \/ Tick

Spec == Init /\ [][Next]_vars

-----------------------------------------------------------------------------
TypeOK ==
  /\ caller \in {"idle", "waiting"}
  /\ elapsed \in 0..Horizon
  /\ requests \in Nat
  /\ handling \in {0, 1}
  /\ handling_time \in 0..Horizon
  /\ answers \in Nat
  /\ answer_age \in 0..Horizon

\* Nothing of an earlier call is left when no call is in progress, and during a
\* call there is one packet of it: the answer a call receives is its own.
LineQuiet ==
  /\ caller = "idle" => requests + handling + answers = 0
  /\ requests + handling + answers <= 1

\* The device never starts to answer once the host has given up.
AnswersOnlyWhileWaiting ==
  [][answers' > answers => caller = "waiting" /\ elapsed <= K_MASTER_TIMEOUT_MS]_vars

=============================================================================
