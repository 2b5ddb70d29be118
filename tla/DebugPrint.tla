----------------------------- MODULE DebugPrint ------------------------------
(***************************************************************************)
(* debug_print: the two functions it is connected to.  What is printed is  *)
(* left out; whether anything is printed is not.                           *)
(***************************************************************************)
nullptr == "nullptr"

DebugPointers == [put_char_function |-> nullptr, flush_function |-> nullptr]

connectPutCharAndFlushFunctions(put_char, flush) ==
  [put_char_function |-> put_char, flush_function |-> flush]

\* printFormat returns at once without a put char function.
Prints(pointers) == pointers.put_char_function # nullptr

\* flushMessages waits for the messages if there is a flush function.
Flushes(pointers) == pointers.flush_function # nullptr

=============================================================================
