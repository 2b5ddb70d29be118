---------------------------- MODULE MCSerialLink -----------------------------
(* One device with an operation that echoes its payload, and a host whose  *)
(* calls differ in payload, operation and receiver, so that an answer      *)
(* taken for another call's shows.                                         *)
EXTENDS SerialLink, SequencesExt

MCCrc8(bytes) ==
  FoldLeft(LAMBDA crc, b : (2 * crc + b) % (UINT8_MAX + 1), 0, bytes)

MCCommands ==
  {[receiver_id |-> 0, operation_code |-> 2, payload |-> <<3>>],
   [receiver_id |-> 0, operation_code |-> 2, payload |-> <<4, 1>>],
   [receiver_id |-> 0, operation_code |-> 2, payload |-> <<>>],
   [receiver_id |-> 0, operation_code |-> 5, payload |-> <<>>],
   [receiver_id |-> 1, operation_code |-> 2, payload |-> <<3>>]}

MCDeserializes(operation_code, payload) == Len(payload) >= 1

MCHandlerResponses(operation_code, payload) ==
  {[response_code |-> ok, payload |-> payload]}
=============================================================================
