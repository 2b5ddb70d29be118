----------------------- MODULE CommandExchangeProofs -------------------------
(***************************************************************************)
(* Proofs about CommandExchange: if the delays and the two timeouts fit    *)
(* (AnswersInTime), no packet of an earlier call is left when a call       *)
(* starts.                                                                 *)
(***************************************************************************)
EXTENDS CommandExchange, TLAPS

\* The age of the one packet under way bounds the time since the call began.
InTime ==
  /\ requests = 1 => elapsed <= RequestDelay
  /\ handling = 1 => /\ handling_time <= HandlerDelay
                     /\ elapsed <= RequestDelay + handling_time
  /\ answers = 1  => /\ answer_age <= ResponseDelay
                     /\ elapsed <= RequestDelay + K_SLAVE_TIMEOUT_MS + answer_age

IInv == TypeOK /\ LineQuiet /\ InTime

\* Every clock, counter and program counter of the exchange keeps its type,
\* whatever the delays are.
THEOREM ExchangeTypeOK == Spec => []TypeOK
<1>1. Init => TypeOK
  BY TimingAssumption DEF Init, TypeOK
<1>2. TypeOK /\ [Next]_vars => TypeOK'
  <2> SUFFICES ASSUME TypeOK, [Next]_vars PROVE TypeOK'
    OBVIOUS
  <2> USE TimingAssumption DEF TypeOK
  <2>1. CASE Call
    BY <2>1 DEF Call, device, line
  <2>2. CASE GiveUp
    BY <2>2 DEF GiveUp, device, line
  <2>3. CASE TakeAnswer
    BY <2>3 DEF TakeAnswer, device
  <2>4. CASE TakeRequest
    BY <2>4 DEF TakeRequest, host, line
  <2>5. CASE Respond
    BY <2>5 DEF Respond, host, line
  <2>6. CASE Tick
    BY <2>6 DEF Tick, Advance
  <2>7. CASE UNCHANGED vars
    BY <2>7 DEF vars, host, device, line
  <2> QED
    BY <2>1, <2>2, <2>3, <2>4, <2>5, <2>6, <2>7 DEF Next
<1> QED
  BY <1>1, <1>2, PTL DEF Spec

\* The inductive invariant behind the results below: one packet of the current
\* call is under way, and it is on time.
LEMMA IInvInductive ==
  ASSUME AnswersInTime, IInv, [Next]_vars
  PROVE  IInv'
<1> USE TimingAssumption DEF AnswersInTime, IInv, TypeOK, LineQuiet, InTime
<1>1. CASE Call
  BY <1>1 DEF Call, device, line
<1>2. CASE GiveUp
  \* Every way a packet could still be under way puts elapsed below the timeout.
  BY <1>2 DEF GiveUp, device, line
<1>3. CASE TakeAnswer
  BY <1>3 DEF TakeAnswer, device
<1>4. CASE TakeRequest
  <2>1. requests = 1 /\ requests' = 0 /\ handling = 0 /\ answers = 0 /\ caller = "waiting"
    BY <1>4 DEF TakeRequest
  <2>2. caller' = caller /\ elapsed' = elapsed /\ answers' = answers /\ answer_age' = answer_age
    BY <1>4 DEF TakeRequest, host, line
  <2>3. handling' \in {0, 1} /\ handling_time' = 0
    BY <1>4 DEF TakeRequest
  <2>4. TypeOK'
    BY <2>1, <2>2, <2>3
  <2>5. LineQuiet'
    <3>1. CASE handling' = 0
      BY <3>1, <2>1, <2>2
    <3>2. CASE handling' = 1
      BY <3>2, <2>1, <2>2
    <3> QED
      BY <2>3, <3>1, <3>2
  <2>6. InTime'
    BY <2>1, <2>2, <2>3
  <2> QED
    BY <2>4, <2>5, <2>6
<1>5. CASE Respond
  BY <1>5 DEF Respond, host, line
<1>6. CASE Tick
  BY <1>6 DEF Tick, Advance
<1>7. CASE UNCHANGED vars
  BY <1>7 DEF vars, host, device, line
<1> QED
  BY <1>1, <1>2, <1>3, <1>4, <1>5, <1>6, <1>7 DEF Next

LEMMA IInvInvariant == ASSUME AnswersInTime PROVE Spec => []IInv
<1>1. Init => IInv
  BY TimingAssumption DEF Init, IInv, TypeOK, LineQuiet, InTime
<1>2. IInv /\ [Next]_vars => IInv'
  BY IInvInductive
<1> QED
  BY <1>1, <1>2, PTL DEF Spec

\* If the delays fit, nothing of a call outlives it: the host can take the next
\* answer it receives for its own.
THEOREM ExchangeLineQuiet == ASSUME AnswersInTime PROVE Spec => []LineQuiet
<1>1. IInv => LineQuiet
  BY DEF IInv
<1> QED
  BY <1>1, IInvInvariant, PTL

\* If the delays fit, the device never starts to answer a call that the host
\* has given up: what common.h wants of the two timeouts.
THEOREM ExchangeAnswersOnlyWhileWaiting ==
  ASSUME AnswersInTime PROVE Spec => AnswersOnlyWhileWaiting
<1>1. IInv /\ [Next]_vars
        => [answers' > answers => caller = "waiting" /\ elapsed <= K_MASTER_TIMEOUT_MS]_vars
  <2> SUFFICES ASSUME IInv, [Next]_vars, answers' > answers
               PROVE  caller = "waiting" /\ elapsed <= K_MASTER_TIMEOUT_MS
    OBVIOUS
  <2> USE TimingAssumption DEF IInv, TypeOK
  <2>1. Respond
    BY DEF Next, Call, GiveUp, TakeAnswer, TakeRequest, Tick, vars, device, line
  <2>2. handling = 1 /\ handling_time <= K_SLAVE_TIMEOUT_MS
    BY <2>1 DEF Respond, line
  <2> QED
    BY <2>2 DEF AnswersInTime, LineQuiet, InTime
<1> QED
  BY <1>1, IInvInvariant, PTL DEF Spec, AnswersOnlyWhileWaiting

=============================================================================
