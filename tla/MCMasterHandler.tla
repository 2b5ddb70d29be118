--------------------------- MODULE MCMasterHandler ---------------------------
(* A host with one command, answered with arbitrary bytes.                 *)
EXTENDS MasterHandler, SequencesExt

MCCrc8(bytes) ==
  FoldLeft(LAMBDA crc, b : (2 * crc + b) % (UINT8_MAX + 1), 0, bytes)

MCCommands == {[receiver_id |-> 0, operation_code |-> 2, payload |-> <<1>>]}

MCDeserializes(operation_code, payload) == Len(payload) >= 1
=============================================================================
