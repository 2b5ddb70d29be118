----------------------------- MODULE UartDriver ------------------------------
(***************************************************************************)
(* BufferedAsyncUartDriver: the main thread and the UART interrupt share   *)
(* two ring buffers.  The thread is modelled one access to the hardware or *)
(* to a ring at a time; masking the interrupt is what keeps the interrupt  *)
(* out of the steps between.  The interrupt runs to completion, and the    *)
(* thread does not run while an unmasked interrupt is pending.             *)
(*                                                                         *)
(* The UART is external: with the FIFOs disabled it has one holding        *)
(* register before its transmit shift register and one receive register.   *)
(* Its TX interrupt is raised when the holding register empties and        *)
(* cleared by writing it.                                                  *)
(*                                                                         *)
(* Bytes are numbered in the order they are transmitted and received, so   *)
(* that a lost, repeated or reordered byte shows as a wrong number; 0 is   *)
(* no byte, and what pop returns from an empty ring.                       *)
(***************************************************************************)
EXTENDS RingBuffer

CONSTANTS
  MaxTransmitted,   \* bound of a run: bytes handed to transmitByte
  MaxReceived,      \* bound of a run: bytes that arrive
  BulkSizes,        \* bound of a run: buffer sizes given to readReceivedBytes
  DrainBound,       \* bytes that can leave in one of transmitByte's unmasked windows
  UnreadBound       \* bytes that can arrive before the thread reads the first

ASSUME UartAssumption ==
  /\ MaxTransmitted \in Nat /\ MaxReceived \in Nat
  /\ BulkSizes \subseteq Nat
  /\ DrainBound \in Nat /\ UnreadBound \in Nat

VARIABLES
  pc,                       \* the thread's next step, "idle" between two calls
  irqs,                     \* UARTIMSC: which interrupts are unmasked
  tx_ring_buffer, rx_ring_buffer,
  is_transmission_ongoing, byte_fitted_to_buffer,   \* transmitByte's locals
  head_ahead,               \* bytesAvailable's test
  i, n,                     \* readReceivedBytes' counter and buffer.size()
  holding, shifter,         \* the UART's transmit registers
  tx_raised,                \* its raw TX interrupt
  receive,                  \* its receive register
  transmitted,              \* bytes handed to transmitByte
  sent,                     \* the last byte that left on the line
  arrived,                  \* bytes that arrived from the line
  read,                     \* the last byte the thread was given
  drained                   \* bytes that left in the current unmasked window

locals   == <<is_transmission_ongoing, byte_fitted_to_buffer, head_ahead, i, n>>
uart_tx  == <<holding, shifter, tx_raised, sent>>
uart_rx  == <<receive, arrived>>
tx_queue == <<tx_ring_buffer, transmitted>>
rx_queue == <<rx_ring_buffer, read>>
vars     == <<pc, irqs, locals, uart_tx, uart_rx, tx_queue, rx_queue, drained>>

Init ==
  /\ pc = "idle"
  /\ irqs = [rx |-> TRUE, tx |-> TRUE]
  /\ tx_ring_buffer = EmptyRing /\ rx_ring_buffer = EmptyRing
  /\ is_transmission_ongoing = FALSE /\ byte_fitted_to_buffer = FALSE
  /\ head_ahead = FALSE /\ i = 0 /\ n = 0
  /\ holding = 0 /\ shifter = 0 /\ tx_raised = FALSE /\ receive = 0
  /\ transmitted = 0 /\ sent = 0 /\ arrived = 0 /\ read = 0
  /\ drained = 0

-----------------------------------------------------------------------------
(* The interrupt.                                                          *)
RxPending == irqs.rx /\ receive # 0
TxPending == irqs.tx /\ tx_raised

SetIrqs(rx, tx) == irqs' = [rx |-> rx, tx |-> tx]

\* uart_putc_raw: what was in the holding register is overwritten.
PutByte(byte) == holding' = byte /\ tx_raised' = FALSE

\* With the ring full the receive register is not read and stays pending.
HandleRxInterrupt ==
  IF IsFull(rx_ring_buffer)
    THEN UNCHANGED <<rx_ring_buffer, receive>>
    ELSE /\ rx_ring_buffer' = Pushed(rx_ring_buffer, receive)
         /\ receive' = 0

HandleTxInterrupt ==
  IF IsEmpty(tx_ring_buffer)
    THEN /\ SetIrqs(TRUE, FALSE)
         /\ UNCHANGED <<tx_ring_buffer, holding, tx_raised>>
    ELSE /\ tx_ring_buffer' = Popped(tx_ring_buffer)
         /\ IF IsEmpty(tx_ring_buffer')
              THEN UNCHANGED <<holding, tx_raised>>
              ELSE PutByte(Peek(tx_ring_buffer'))
         /\ UNCHANGED irqs

CombinedISR ==
  /\ RxPending \/ TxPending
  /\ IF RxPending THEN HandleRxInterrupt ELSE UNCHANGED <<rx_ring_buffer, receive>>
  /\ IF TxPending THEN HandleTxInterrupt
     ELSE UNCHANGED <<irqs, tx_ring_buffer, holding, tx_raised>>
  /\ UNCHANGED <<pc, locals, shifter, sent, arrived, transmitted, read, drained>>

-----------------------------------------------------------------------------
(* The thread.  Step(from, to) is a step of the thread from one line to    *)
(* another.                                                                *)
Step(from, to) ==
  /\ ~RxPending /\ ~TxPending
  /\ pc = from /\ pc' = to

\* Only the mask changes; a new unmasked window starts.
MaskStep(from, to, rx, tx) ==
  /\ Step(from, to)
  /\ SetIrqs(rx, tx)
  /\ drained' = 0
  /\ UNCHANGED <<locals, uart_tx, uart_rx, tx_queue, rx_queue>>

(* transmitByte *)

\* Mutation: the TX interrupt not masked first.
TransmitUnmasked ==
  /\ transmitted < MaxTransmitted
  /\ Step("idle", "test_ongoing")
  /\ transmitted' = transmitted + 1
  /\ UNCHANGED <<irqs, locals, uart_tx, uart_rx, tx_ring_buffer, rx_queue, drained>>

TransmitByte ==
  /\ transmitted < MaxTransmitted
  /\ Step("idle", "test_ongoing")
  /\ SetIrqs(TRUE, FALSE)
  /\ transmitted' = transmitted + 1
  /\ UNCHANGED <<locals, uart_tx, uart_rx, tx_ring_buffer, rx_queue, drained>>

TestOngoing ==
  /\ Step("test_ongoing", "push")
  /\ is_transmission_ongoing' = ~IsEmpty(tx_ring_buffer)
  /\ UNCHANGED <<irqs, byte_fitted_to_buffer, head_ahead, i, n,
                 uart_tx, uart_rx, tx_queue, rx_queue, drained>>

PushByte(from, fitted, full) ==
  /\ Step(from, IF IsFull(tx_ring_buffer) THEN full ELSE fitted)
  /\ byte_fitted_to_buffer' = ~IsFull(tx_ring_buffer)
  /\ tx_ring_buffer' = Pushed(tx_ring_buffer, transmitted)
  /\ UNCHANGED <<irqs, is_transmission_ongoing, head_ahead, i, n,
                 uart_tx, uart_rx, transmitted, rx_queue, drained>>

Push       == PushByte("push", "start", "unmask")
Unmask     == MaskStep("unmask", "mask_retry", TRUE, TRUE)
MaskRetry  == MaskStep("mask_retry", "push_retry", TRUE, FALSE)
PushRetry  == PushByte("push_retry", "unmask_retry", "unmask_retry")

\* Mutation: the interrupt stays masked while the ring is full.
StayMasked ==
  MaskStep("unmask_retry", IF byte_fitted_to_buffer THEN "mask_start" ELSE "mask_retry",
           TRUE, FALSE)

UnmaskRetry ==
  MaskStep("unmask_retry", IF byte_fitted_to_buffer THEN "mask_start" ELSE "mask_retry",
           TRUE, TRUE)

MaskStart  == MaskStep("mask_start", "start", TRUE, FALSE)

\* Mutation: the test of is_transmission_ongoing forgotten.
AlwaysStart ==
  /\ Step("start", "transmit_done")
  /\ PutByte(Peek(tx_ring_buffer))
  /\ UNCHANGED <<irqs, locals, shifter, sent, uart_rx, tx_queue, rx_queue, drained>>

StartTransmission ==
  /\ Step("start", "transmit_done")
  /\ IF is_transmission_ongoing THEN UNCHANGED <<holding, tx_raised>>
     ELSE PutByte(Peek(tx_ring_buffer))
  /\ UNCHANGED <<irqs, locals, shifter, sent, uart_rx, tx_queue, rx_queue, drained>>

TransmitDone ==
  /\ Step("transmit_done", "idle")
  /\ SetIrqs(TRUE, TRUE)
  /\ is_transmission_ongoing' = FALSE /\ byte_fitted_to_buffer' = FALSE
  /\ UNCHANGED <<head_ahead, i, n, uart_tx, uart_rx, tx_queue, rx_queue, drained>>

TransmitSteps ==
  \/ TestOngoing \/ Push \/ Unmask \/ MaskRetry \/ PushRetry \/ UnmaskRetry
  \/ MaskStart \/ StartTransmission \/ TransmitDone

(* flushTx *)
FlushTx     == MaskStep("idle", "flush_test", TRUE, FALSE)

FlushTest(from, empty, more) ==
  /\ Step(from, IF IsEmpty(tx_ring_buffer) THEN empty ELSE more)
  /\ UNCHANGED <<irqs, locals, uart_tx, uart_rx, tx_queue, rx_queue, drained>>

FlushFirst  == FlushTest("flush_test", "flush_wait", "flush_unmask")
FlushUnmask == MaskStep("flush_unmask", "flush_retest", TRUE, TRUE)

\* Mutation: the loop left with bytes in the ring, its condition inverted.
RetestInverted == FlushTest("flush_retest", "flush_mask", "flush_mask_last")

FlushRetest == FlushTest("flush_retest", "flush_mask_last", "flush_mask")
FlushMask   == MaskStep("flush_mask", "flush_unmask", TRUE, FALSE)
FlushLast   == MaskStep("flush_mask_last", "flush_wait", TRUE, FALSE)

\* uart_is_writable: the holding register is empty.
FlushWait ==
  /\ holding = 0
  /\ Step("flush_wait", "idle")
  /\ UNCHANGED <<irqs, locals, uart_tx, uart_rx, tx_queue, rx_queue, drained>>

FlushSteps ==
  FlushFirst \/ FlushUnmask \/ FlushRetest \/ FlushMask \/ FlushLast \/ FlushWait

(* getReceivedBytesAvailableAmount, and readReceivedByte if that is not 0: *)
(* how run() and the host's loop use the driver.                           *)
TestAvailable ==
  /\ Step("idle", "available")
  /\ head_ahead' = (rx_ring_buffer.head >= rx_ring_buffer.tail)
  /\ UNCHANGED <<irqs, is_transmission_ongoing, byte_fitted_to_buffer, i, n,
                 uart_tx, uart_rx, tx_queue, rx_queue, drained>>

Available ==
  /\ Step("available",
          IF AvailableAfterTest(head_ahead, rx_ring_buffer) > 0 THEN "read_mask" ELSE "idle")
  /\ head_ahead' = FALSE
  /\ UNCHANGED <<irqs, is_transmission_ongoing, byte_fitted_to_buffer, i, n,
                 uart_tx, uart_rx, tx_queue, rx_queue, drained>>

PopByte ==
  /\ read' = Peek(rx_ring_buffer)
  /\ rx_ring_buffer' = Popped(rx_ring_buffer)

ReadMask   == MaskStep("read_mask", "pop", FALSE, TRUE)
ReadByte   ==
  /\ Step("pop", "read_unmask")
  /\ PopByte
  /\ UNCHANGED <<irqs, locals, uart_tx, uart_rx, tx_queue, drained>>
ReadUnmask == MaskStep("read_unmask", "idle", TRUE, TRUE)

(* readReceivedBytes *)
ReadBytes ==
  /\ Step("idle", "bulk")
  /\ SetIrqs(FALSE, TRUE)
  /\ n' \in BulkSizes
  /\ UNCHANGED <<is_transmission_ongoing, byte_fitted_to_buffer, head_ahead, i,
                 uart_tx, uart_rx, tx_queue, rx_queue, drained>>

\* The number of bytes read is compared with the number of those left.
BulkRead ==
  /\ Step("bulk", "bulk")
  /\ i < n
  /\ i # BytesAvailable(rx_ring_buffer)
  /\ PopByte
  /\ i' = i + 1
  /\ UNCHANGED <<irqs, is_transmission_ongoing, byte_fitted_to_buffer, head_ahead, n,
                 uart_tx, uart_rx, tx_queue, drained>>

BulkDone ==
  /\ Step("bulk", "idle")
  /\ i >= n \/ i = BytesAvailable(rx_ring_buffer)
  /\ SetIrqs(TRUE, TRUE)
  /\ i' = 0 /\ n' = 0
  /\ UNCHANGED <<is_transmission_ongoing, byte_fitted_to_buffer, head_ahead,
                 uart_tx, uart_rx, tx_queue, rx_queue, drained>>

ReadSteps == Available \/ ReadMask \/ ReadByte \/ ReadUnmask \/ BulkRead \/ BulkDone

Calls  == TransmitByte \/ FlushTx \/ TestAvailable \/ ReadBytes
Thread == TransmitSteps \/ FlushSteps \/ ReadSteps

-----------------------------------------------------------------------------
(* The UART.                                                               *)

\* The thread is between two maskings of the interrupt inside transmitByte.
InWindow == pc \in {"mask_retry", "mask_start"}

\* The line takes one byte time for each, so only so many fit in a window.
StartShifting ==
  /\ holding # 0 /\ shifter = 0
  /\ InWindow => drained < DrainBound
  /\ shifter' = holding /\ holding' = 0
  /\ tx_raised' = TRUE
  /\ drained' = IF InWindow THEN drained + 1 ELSE drained
  /\ UNCHANGED <<pc, irqs, locals, sent, uart_rx, tx_queue, rx_queue>>

ByteSent ==
  /\ shifter # 0
  /\ sent' = shifter /\ shifter' = 0
  /\ UNCHANGED <<pc, irqs, locals, holding, tx_raised, uart_rx, tx_queue, rx_queue, drained>>

\* The interrupt, or the thread, gets to the byte before the next arrives.
ByteArrives ==
  /\ receive = 0
  /\ arrived < MaxReceived
  /\ arrived - read < UnreadBound
  /\ arrived' = arrived + 1
  /\ receive' = arrived + 1
  /\ UNCHANGED <<pc, irqs, locals, uart_tx, tx_queue, rx_queue, drained>>

Transmitter == StartShifting \/ ByteSent

Next == CombinedISR \/ Calls \/ Thread \/ Transmitter \/ ByteArrives

\* The interrupt is taken, the thread runs on within a call, the UART shifts.
Fairness == WF_vars(CombinedISR) /\ WF_vars(Thread) /\ WF_vars(Transmitter)

Spec == Init /\ [][Next]_vars /\ Fairness

-----------------------------------------------------------------------------
TypeOK ==
  /\ irqs \in [rx : BOOLEAN, tx : BOOLEAN]
  /\ tx_ring_buffer \in Rings /\ rx_ring_buffer \in Rings
  /\ is_transmission_ongoing \in BOOLEAN /\ byte_fitted_to_buffer \in BOOLEAN
  /\ head_ahead \in BOOLEAN /\ i \in Nat /\ n \in Nat
  /\ holding \in Nat /\ shifter \in Nat /\ tx_raised \in BOOLEAN /\ receive \in Nat
  /\ transmitted \in Nat /\ sent \in Nat /\ arrived \in Nat /\ read \in Nat
  /\ drained \in Nat

\* The bytes that leave are those handed over, each once and in order: the byte
\* in each register is the successor of the one before it on the line.
SentInOrder ==
  /\ sent <= transmitted
  /\ shifter # 0 => shifter = sent + 1
  /\ holding # 0 => holding = (IF shifter # 0 THEN shifter ELSE sent) + 1

\* The thread is given the bytes that arrived, each once and in order, and
\* never a zero from an empty ring: what it has not been given is in the ring
\* and the receive register.
ReceivedInOrder ==
  Contents(rx_ring_buffer) \o (IF receive = 0 THEN <<>> ELSE <<receive>>)
    = [k \in 1..arrived - read |-> read + k]

\* The lines at which the thread leaves its bytes to the interrupt: between two
\* calls, and in the unmasked windows of transmitByte and flushTx.
Resting == {"idle", "mask_retry", "flush_retest"}

\* No wake-up is lost: where the thread waits for the interrupt or returns, bytes
\* left in the ring have one coming.  Its line is unmasked, and the transmitter
\* has raised it or holds a byte it will raise it for.
NoWakeUpLost ==
  pc \in Resting /\ ~IsEmpty(tx_ring_buffer) => irqs.tx /\ (holding # 0 \/ tx_raised)

\* Every byte handed to transmitByte leaves, whatever the interrupt interrupts:
\* the transmitter is never left idle with bytes in the ring.
EveryByteSent == \A k \in 1..MaxTransmitted : transmitted >= k ~> sent >= k

\* Every call of the driver returns: transmitByte on a full ring and flushTx
\* wait for the interrupt, which must be unmasked often enough to run.
CallsReturn == pc # "idle" ~> pc = "idle"

\* When flushTx returns the ring and the holding register are empty ...
FlushEmptiesBuffers ==
  [][pc = "flush_wait" /\ pc' = "idle" => IsEmpty(tx_ring_buffer) /\ holding = 0]_vars

\* ... and, says its comment, the last byte is fully sent.
FlushWaitsForLastByte ==
  [][pc = "flush_wait" /\ pc' = "idle" => sent = transmitted]_vars

=============================================================================
