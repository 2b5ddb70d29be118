---------------------------- MODULE SlaveHistory -----------------------------
(***************************************************************************)
(* SlaveHandler with two history variables: what a listener on the line    *)
(* notes of the device, beside the counters the device keeps.  They are    *)
(* read off the bytes that come and go and constrain nothing.              *)
(***************************************************************************)
EXTENDS SlaveHandler

VARIABLES
  headers,              \* headers read whose CRC does not fit
  answers               \* responses to complete packets handed to the driver

historyVars == <<vars, headers, answers>>

HeaderFails ==
  /\ received # <<>> /\ received' = Tail(received)
  /\ Len(Buffer) = RequestHeaderSize
  /\ ~RequestHeaderHasValidCrc(Buffer)

PacketAnswered ==
  pc = "answering" /\ Len(transmitted') > Len(transmitted)

HistoryInit == Init /\ headers = 0 /\ answers = 0

HistoryNext ==
  /\ Next
  /\ headers' = IF HeaderFails THEN headers + 1 ELSE headers
  /\ answers' = IF PacketAnswered THEN answers + 1 ELSE answers

HistorySpec == HistoryInit /\ [][HistoryNext]_historyVars

-----------------------------------------------------------------------------
\* The four counters describe one history, whichever of run()'s early returns
\* (SlaveHandler.cpp) were taken: a packet for the device is counted as valid or
\* as corrupted and not as both, a failed header as corrupted and as nothing
\* else; and a packet is answered or counted as timed out and not both, once it
\* is no longer being answered.
StatisticsAddUp ==
  /\ stats.valid <= stats.total
  /\ stats.valid + stats.corrupted = stats.total + headers
  /\ stats.total = answers + stats.timed_out + (IF pc = "answering" THEN 1 ELSE 0)

=============================================================================
