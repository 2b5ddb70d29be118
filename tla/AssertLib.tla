------------------------------ MODULE AssertLib ------------------------------
(***************************************************************************)
(* The assert library: the reaction to a failed assertion and the handler  *)
(* the program has connected.                                              *)
(***************************************************************************)
EXTENDS DebugPrint, Sequences

call_assertion_handler                 == "call_assertion_handler"
break_point                            == "break_point"
call_assertion_handler_and_break_point == "call_assertion_handler_and_break_point"

\* assertion_handler and assert_fail_reaction.
AssertState == [handler |-> nullptr, reaction |-> break_point]

setAssertionFailedReaction(state, reaction)   == [state EXCEPT !.reaction = reaction]
connectAssertionFailedHandler(state, handler) == [state EXCEPT !.handler = handler]

ASSERT_LEVEL_ENABLED == 1

\* Mutation: the reaction with the break point does not call the handler.
HandlerOnlyAlone(state) ==
  state.reaction = call_assertion_handler /\ state.handler # nullptr

CallsHandler(state) ==
  /\ state.reaction \in {call_assertion_handler, call_assertion_handler_and_break_point}
  /\ state.handler # nullptr

\* Mutation: the reaction with the handler does not break.
BreakOnlyAlone(state) == state.reaction = break_point

BreaksPoint(state) ==
  state.reaction \in {break_point, call_assertion_handler_and_break_point}

\* The steps of onAssertFail: at the level that only enables assertions the
\* handler comes before the flush, above it, with messages, after it.
onAssertFail(level, state, handler, print, flush, halt) ==
  LET called == IF CallsHandler(state) THEN handler ELSE << >>
      halted == IF BreaksPoint(state) THEN halt ELSE << >>
  IN  IF level = ASSERT_LEVEL_ENABLED THEN called \o flush \o halted
      ELSE print \o flush \o called \o halted

=============================================================================
