--------------------------- MODULE MCSlaveHandler ----------------------------
(* A device with one registered operation, fed with arbitrary bytes.       *)
EXTENDS SlaveHistory, SequencesExt

\* A CRC modulo the number of bytes: like the program's, it is zero for an
\* empty sequence and detects every change of a single byte.
MCCrc8(bytes) ==
  FoldLeft(LAMBDA crc, b : (2 * crc + b) % (UINT8_MAX + 1), 0, bytes)

MCDeserializes(operation_code, payload) == Len(payload) >= 1

MCHandlerResponses(operation_code, payload) ==
  {[response_code |-> ok, payload |-> <<payload[1]>>],
   [response_code |-> forbidden, payload |-> <<>>]}
=============================================================================
