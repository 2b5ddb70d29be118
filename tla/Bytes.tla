-------------------------------- MODULE Bytes --------------------------------
(***************************************************************************)
(* The byte, shared by the packets and the parameter values.  Its largest  *)
(* value is a parameter: a run may use a smaller byte where a full one     *)
(* only multiplies the states.                                             *)
(***************************************************************************)
EXTENDS Integers, Sequences

CONSTANT UINT8_MAX    \* the largest byte, 255 in the program

\* A byte can hold every response code, and "unset" differs from all of them.
ASSUME ByteAssumption == UINT8_MAX \in Nat /\ UINT8_MAX > 10

Byte == 0..UINT8_MAX

=============================================================================
