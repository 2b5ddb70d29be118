--------------------------- MODULE UartDriverProofs ---------------------------
(***************************************************************************)
(* Proofs about RingBuffer and UartDriver.  First, for every size, the     *)
(* ring is a first-in first-out queue of at most size - 1 elements.  Then  *)
(* what the thread and the interrupt make of two of them: the bytes leave, *)
(* and are read, each once and in order, and flushTx returns with nothing  *)
(* left to put.                                                            *)
(***************************************************************************)
EXTENDS UartDriver, SequenceTheorems, TLAPS

-----------------------------------------------------------------------------
(* The ring buffer.                                                        *)


LEMMA SmallModulus ==
  ASSUME NEW a \in Nat, NEW b \in Nat, a < b
  PROVE  a % b = a
BY SMT

LEMMA AvailableIsDistance ==
  ASSUME NEW r \in Rings
  PROVE  BytesAvailable(r) = IF r.head >= r.tail THEN r.head - r.tail
                             ELSE RingSize - r.tail + r.head
<1>1. r.head \in Slot /\ r.tail \in Slot
  BY DEF Rings
<1>2. CASE r.head >= r.tail
  <2>1. r.head - r.tail \in Nat /\ r.head - r.tail < SizeLimit
    BY <1>1, <1>2, RingAssumption DEF Slot
  <2>2. (r.head - r.tail) % SizeLimit = r.head - r.tail
    BY <2>1, SmallModulus, RingAssumption
  <2> QED
    BY <1>2, <2>2 DEF BytesAvailable, AvailableAfterTest
<1>3. CASE ~(r.head >= r.tail)
  BY <1>3 DEF BytesAvailable, AvailableAfterTest
<1> QED
  BY <1>2, <1>3

\* The slots of the elements are those before the write index.
LEMMA ElementSlots ==
  ASSUME NEW r \in Rings, NEW k \in 1..BytesAvailable(r)
  PROVE  LET index == r.tail + k - 1
             slot  == IF index < RingSize THEN index ELSE index - RingSize
         IN  /\ slot \in Slot /\ slot # r.head
             /\ At(r, k) = r.buffer[slot] /\ At(r, k) \in Nat
<1> DEFINE index == r.tail + k - 1
           slot  == IF index < RingSize THEN index ELSE index - RingSize
<1>1. /\ r.head \in Nat /\ r.head < RingSize /\ r.tail \in Nat /\ r.tail < RingSize
      /\ r.buffer \in [Slot -> Nat] /\ RingSize \in Nat
  BY RingAssumption DEF Rings, Slot
<1>2. /\ k \in Nat /\ k >= 1
      /\ k <= IF r.head >= r.tail THEN r.head - r.tail ELSE RingSize - r.tail + r.head
  BY <1>1, AvailableIsDistance
<1>3. slot \in Nat /\ slot < RingSize /\ slot # r.head
  BY <1>1, <1>2
<1>4. slot \in Slot
  BY <1>1, <1>3 DEF Slot
<1>5. At(r, k) = r.buffer[slot]
  BY DEF At
<1> QED
  BY <1>1, <1>3, <1>4, <1>5

LEMMA ContentsAreElements ==
  ASSUME NEW r \in Rings
  PROVE  /\ Contents(r) \in Seq(Nat) /\ Len(Contents(r)) = BytesAvailable(r)
         /\ \A k \in 1..BytesAvailable(r) : Contents(r)[k] = At(r, k)
<1>1. BytesAvailable(r) \in Nat
  BY AvailableIsDistance, RingAssumption DEF Rings, Slot
<1>2. \A k \in 1..BytesAvailable(r) : At(r, k) \in Nat
  BY ElementSlots
<1> QED
  BY <1>1, <1>2 DEF Contents

\* bytesAvailable is a number of elements, zero exactly for an empty ring and
\* size - 1 exactly for a full one: one slot of the array is never used.
THEOREM AvailableBounds ==
  ASSUME NEW r \in Rings
  PROVE  /\ BytesAvailable(r) \in 0..Capacity
         /\ IsEmpty(r) <=> BytesAvailable(r) = 0
         /\ IsFull(r) <=> BytesAvailable(r) = Capacity
<1>1. r.head \in Slot /\ r.tail \in Slot
  BY DEF Rings
<1> QED
  BY <1>1, AvailableIsDistance, RingAssumption DEF Slot, Capacity, IsEmpty, IsFull, After

\* push appends: the new element is behind all others, which keep their places,
\* also when an index has wrapped around.
THEOREM PushAppends ==
  ASSUME NEW r \in Rings, NEW item \in Nat, ~IsFull(r)
  PROVE  /\ Pushed(r, item) \in Rings
         /\ Contents(Pushed(r, item)) = Append(Contents(r), item)
<1> DEFINE p == Pushed(r, item)
<1>1. r.head \in Slot /\ r.tail \in Slot /\ r.buffer \in [Slot -> Nat]
  BY DEF Rings
<1>2. /\ p = [buffer |-> [r.buffer EXCEPT ![r.head] = item],
              head |-> After(r.head), tail |-> r.tail]
      /\ After(r.head) \in Slot
  BY <1>1, RingAssumption DEF Pushed, After, Slot
<1>3. p \in Rings
  BY <1>1, <1>2 DEF Rings
<1>4. /\ p.head = After(r.head) /\ p.tail = r.tail
      /\ p.buffer = [r.buffer EXCEPT ![r.head] = item]
  BY <1>2
<1> HIDE DEF p
<1>5. BytesAvailable(r) \in Nat /\ BytesAvailable(p) = BytesAvailable(r) + 1
  <2>1. /\ r.head \in Nat /\ r.head < RingSize /\ r.tail \in Nat /\ r.tail < RingSize
        /\ RingSize \in Nat
    BY <1>1, RingAssumption DEF Slot
  <2>2. BytesAvailable(r) = IF r.head >= r.tail THEN r.head - r.tail
                            ELSE RingSize - r.tail + r.head
    BY AvailableIsDistance
  <2>3. BytesAvailable(p) = IF p.head >= r.tail THEN p.head - r.tail
                            ELSE RingSize - r.tail + p.head
    BY <1>3, <1>4, AvailableIsDistance
  <2>4. p.head = (IF r.head + 1 = RingSize THEN 0 ELSE r.head + 1) /\ p.head # r.tail
    BY <1>4 DEF After, IsFull
  <2> QED
    BY <2>1, <2>2, <2>3, <2>4
<1>6. ASSUME NEW k \in 1..BytesAvailable(r) PROVE At(p, k) = At(r, k)
  <2> DEFINE index == r.tail + k - 1
             slot  == IF index < RingSize THEN index ELSE index - RingSize
  <2>1. slot \in Slot /\ slot # r.head
    BY ElementSlots
  <2>2. p.buffer[slot] = r.buffer[slot]
    BY <1>1, <1>4, <2>1
  <2> QED
    BY <1>4, <2>2 DEF At
<1>7. At(p, BytesAvailable(r) + 1) = item
  <2> DEFINE index == r.tail + BytesAvailable(r)
             slot  == IF index < RingSize THEN index ELSE index - RingSize
  <2>1. slot = r.head
    <3>1. /\ r.head \in Nat /\ r.head < RingSize /\ r.tail \in Nat /\ r.tail < RingSize
          /\ RingSize \in Nat
      BY <1>1, RingAssumption DEF Slot
    <3>2. BytesAvailable(r) = IF r.head >= r.tail THEN r.head - r.tail
                              ELSE RingSize - r.tail + r.head
      BY AvailableIsDistance
    <3> QED
      BY <3>1, <3>2
  <2>2. p.buffer[r.head] = item
    BY <1>1, <1>4
  <2>3. At(p, BytesAvailable(r) + 1) = p.buffer[slot]
    BY <1>4, <1>5, <1>1 DEF At, Slot
  <2> QED
    BY <2>1, <2>2, <2>3
<1>8. Contents(p) = Append(Contents(r), item)
  <2>1. /\ Contents(r) \in Seq(Nat) /\ Len(Contents(r)) = BytesAvailable(r)
        /\ \A k \in 1..BytesAvailable(r) : Contents(r)[k] = At(r, k)
    BY ContentsAreElements
  <2>2. /\ Contents(p) \in Seq(Nat) /\ Len(Contents(p)) = BytesAvailable(r) + 1
        /\ \A k \in 1..BytesAvailable(r) + 1 : Contents(p)[k] = At(p, k)
    BY <1>3, <1>5, ContentsAreElements
  <2>3. /\ Append(Contents(r), item) \in Seq(Nat)
        /\ Len(Append(Contents(r), item)) = BytesAvailable(r) + 1
    BY <2>1, AppendProperties
  <2>4. ASSUME NEW k \in 1..BytesAvailable(r) + 1
        PROVE  Contents(p)[k] = Append(Contents(r), item)[k]
    <3>1. CASE k = BytesAvailable(r) + 1
      BY <3>1, <1>7, <2>1, <2>2, AppendProperties
    <3>2. CASE k \in 1..BytesAvailable(r)
      BY <3>2, <1>6, <2>1, <2>2, AppendProperties
    <3>3. k = BytesAvailable(r) + 1 \/ k \in 1..BytesAvailable(r)
      BY <1>5
    <3> QED
      BY <3>1, <3>2, <3>3
  <2> QED
    BY <2>2, <2>3, <2>4, SeqEqual
<1> QED
  BY <1>3, <1>8 DEF p

\* pop returns the oldest element and leaves the others in their order.
THEOREM PopTakesHead ==
  ASSUME NEW r \in Rings, ~IsEmpty(r)
  PROVE  /\ Popped(r) \in Rings
         /\ Contents(r) # <<>>
         /\ Peek(r) = Head(Contents(r))
         /\ Contents(Popped(r)) = Tail(Contents(r))
<1> DEFINE p == Popped(r)
<1>1. r.head \in Slot /\ r.tail \in Slot /\ r.buffer \in [Slot -> Nat]
  BY DEF Rings
<1>2. p = [r EXCEPT !.tail = After(r.tail)] /\ After(r.tail) \in Slot
  BY <1>1, RingAssumption DEF Popped, After, Slot
<1>3. p \in Rings /\ p.head = r.head /\ p.tail = After(r.tail) /\ p.buffer = r.buffer
  BY <1>1, <1>2 DEF Rings
<1> HIDE DEF p
<1>4. BytesAvailable(p) \in Nat /\ BytesAvailable(r) = BytesAvailable(p) + 1
  <2>1. /\ r.head \in Nat /\ r.head < RingSize /\ r.tail \in Nat /\ r.tail < RingSize
        /\ RingSize \in Nat /\ r.head # r.tail
    BY <1>1, RingAssumption DEF Slot, IsEmpty
  <2>2. BytesAvailable(r) = IF r.head >= r.tail THEN r.head - r.tail
                            ELSE RingSize - r.tail + r.head
    BY AvailableIsDistance
  <2>3. BytesAvailable(p) = IF r.head >= p.tail THEN r.head - p.tail
                            ELSE RingSize - p.tail + r.head
    BY <1>3, AvailableIsDistance
  <2>4. p.tail = (IF r.tail + 1 = RingSize THEN 0 ELSE r.tail + 1)
    BY <1>3 DEF After
  <2> QED
    BY <2>1, <2>2, <2>3, <2>4
<1>5. /\ Contents(r) \in Seq(Nat) /\ Len(Contents(r)) = BytesAvailable(r)
      /\ \A k \in 1..BytesAvailable(r) : Contents(r)[k] = At(r, k)
  BY ContentsAreElements
<1>6. Peek(r) = Head(Contents(r)) /\ Contents(r) # <<>>
  <2>1. At(r, 1) = r.buffer[r.tail]
    BY <1>1, RingAssumption DEF At, Slot
  <2> QED
    BY <1>4, <1>5, <2>1 DEF Peek
<1>7. ASSUME NEW k \in 1..BytesAvailable(p) PROVE At(p, k) = At(r, k + 1)
  <2>1. /\ r.tail \in Nat /\ r.tail < RingSize /\ RingSize \in Nat
        /\ k \in Nat /\ k >= 1 /\ k < RingSize
    <3>1. r.tail \in Nat /\ r.tail < RingSize /\ RingSize \in Nat
      BY <1>1, RingAssumption DEF Slot
    <3>2. k \in Nat /\ k >= 1 /\ k <= BytesAvailable(p)
      BY <1>4
    <3>3. BytesAvailable(p) \in 0..Capacity
      BY <1>3, AvailableBounds
    <3> QED
      BY <3>1, <3>2, <3>3 DEF Capacity
  <2>2. p.tail = (IF r.tail + 1 = RingSize THEN 0 ELSE r.tail + 1)
    BY <1>3 DEF After
  <2> DEFINE after(index) == IF index < RingSize THEN index ELSE index - RingSize
  <2>3. after(p.tail + k - 1) = after(r.tail + (k + 1) - 1)
    BY <2>1, <2>2
  <2> QED
    BY <1>3, <2>3 DEF At
<1>8. /\ Contents(p) \in Seq(Nat) /\ Len(Contents(p)) = BytesAvailable(p)
      /\ \A k \in 1..BytesAvailable(p) : Contents(p)[k] = At(p, k)
  BY <1>3, ContentsAreElements
<1>9. /\ Tail(Contents(r)) \in Seq(Nat)
      /\ Len(Tail(Contents(r))) = BytesAvailable(p)
      /\ \A k \in 1..BytesAvailable(p) : Tail(Contents(r))[k] = Contents(r)[k + 1]
  BY <1>4, <1>5, <1>6, HeadTailProperties
<1>10. \A k \in 1..BytesAvailable(p) : Contents(p)[k] = Tail(Contents(r))[k]
  BY <1>4, <1>5, <1>7, <1>8, <1>9
<1>11. Contents(p) = Tail(Contents(r))
  BY <1>8, <1>9, <1>10, SeqEqual
<1> QED
  BY <1>3, <1>6, <1>11 DEF p

LEMMA RingTypes ==
  ASSUME NEW r \in Rings, NEW item \in Nat
  PROVE  Pushed(r, item) \in Rings /\ Popped(r) \in Rings /\ Peek(r) \in Nat
<1>1. Pushed(r, item) \in Rings
  BY PushAppends DEF Pushed
<1>2. Popped(r) \in Rings
  BY PopTakesHead DEF Popped
<1>3. Peek(r) \in Nat
  BY DEF Peek, Rings
<1> QED
  BY <1>1, <1>2, <1>3

\* The elements of the ring are consecutive numbers, the first is before + 1.
Numbered(ring, before) ==
  \A k \in 1..BytesAvailable(ring) : Contents(ring)[k] = before + k

LEMMA PushNumbered ==
  ASSUME NEW r \in Rings, ~IsFull(r), NEW before \in Int, NEW item \in Nat,
         Numbered(r, before), item = before + BytesAvailable(r) + 1
  PROVE  /\ Numbered(Pushed(r, item), before)
         /\ BytesAvailable(Pushed(r, item)) = BytesAvailable(r) + 1
<1> DEFINE p == Pushed(r, item)
<1>1. p \in Rings /\ Contents(p) = Append(Contents(r), item)
  BY PushAppends
<1>2. /\ Contents(r) \in Seq(Nat) /\ Len(Contents(r)) = BytesAvailable(r)
      /\ Len(Contents(p)) = BytesAvailable(p)
  BY <1>1, ContentsAreElements
<1> HIDE DEF p
<1>3. BytesAvailable(r) \in Nat
  BY AvailableBounds
<1>4. BytesAvailable(p) = BytesAvailable(r) + 1
  BY <1>1, <1>2, AppendProperties
<1>5. ASSUME NEW k \in 1..BytesAvailable(r) + 1
      PROVE  Append(Contents(r), item)[k] = before + k
  <2>1. CASE k = BytesAvailable(r) + 1
    <3>1. Append(Contents(r), item)[Len(Contents(r)) + 1] = item
      BY <1>2, AppendProperties
    <3> QED
      BY <3>1, <2>1, <1>2, <1>3
  <2>2. CASE k \in 1..BytesAvailable(r)
    BY <2>2, <1>2, AppendProperties DEF Numbered
  <2>3. k = BytesAvailable(r) + 1 \/ k \in 1..BytesAvailable(r)
    BY <1>3
  <2> QED
    BY <2>1, <2>2, <2>3
<1> QED
  BY <1>1, <1>4, <1>5 DEF Numbered, p

LEMMA PopNumbered ==
  ASSUME NEW r \in Rings, ~IsEmpty(r), NEW before \in Int, Numbered(r, before)
  PROVE  /\ Peek(r) = before + 1
         /\ Numbered(Popped(r), before + 1)
         /\ BytesAvailable(Popped(r)) = BytesAvailable(r) - 1
<1> DEFINE p == Popped(r)
<1>1. /\ p \in Rings /\ Contents(r) # <<>>
      /\ Peek(r) = Head(Contents(r)) /\ Contents(p) = Tail(Contents(r))
  BY PopTakesHead
<1>2. /\ Contents(r) \in Seq(Nat) /\ Len(Contents(r)) = BytesAvailable(r)
      /\ Len(Contents(p)) = BytesAvailable(p)
  BY <1>1, ContentsAreElements
<1> HIDE DEF p
<1>3. BytesAvailable(r) \in Nat /\ BytesAvailable(r) # 0
  BY AvailableBounds
<1>4. BytesAvailable(p) = BytesAvailable(r) - 1
  BY <1>1, <1>2, HeadTailProperties
<1>5. Peek(r) = before + 1
  BY <1>1, <1>2, <1>3 DEF Numbered
<1>6. \A k \in 1..BytesAvailable(p) : Tail(Contents(r))[k] = Contents(r)[k + 1]
  BY <1>1, <1>2, <1>4, HeadTailProperties
<1>7. ASSUME NEW k \in 1..BytesAvailable(p)
      PROVE  Contents(p)[k] = before + 1 + k
  <2>1. k + 1 \in 1..BytesAvailable(r)
    BY <1>3, <1>4
  <2>2. Contents(r)[k + 1] = before + (k + 1)
    BY <2>1 DEF Numbered
  <2>3. Contents(p)[k] = Contents(r)[k + 1]
    BY <1>1, <1>6
  <2>4. k \in Int /\ before + (k + 1) = before + 1 + k
    BY <1>3, <1>4
  <2> QED
    BY <2>2, <2>3, <2>4
<1> QED
  BY <1>4, <1>5, <1>7 DEF Numbered, p

-----------------------------------------------------------------------------
(* Types.                                                                  *)

LEMMA IrqTypes ==
  \A rx, tx \in BOOLEAN : [rx |-> rx, tx |-> tx] \in [rx : BOOLEAN, tx : BOOLEAN]
OBVIOUS

LEMMA TypeInit == Init => TypeOK
<1>1. EmptyRing \in Rings
  BY RingAssumption DEF EmptyRing, Rings, Slot
<1>2. Init => irqs \in [rx : BOOLEAN, tx : BOOLEAN]
  BY IrqTypes DEF Init
<1>3. Init => /\ is_transmission_ongoing \in BOOLEAN /\ byte_fitted_to_buffer \in BOOLEAN
              /\ head_ahead \in BOOLEAN /\ tx_raised \in BOOLEAN
  BY DEF Init
<1> QED
  BY <1>1, <1>2, <1>3 DEF Init, TypeOK

LEMMA TypeStep == TypeOK /\ [Next]_vars => TypeOK'
<1> SUFFICES ASSUME TypeOK, [Next]_vars
             PROVE  TypeOK'
  OBVIOUS
<1> USE DEF TypeOK, locals, uart_tx, uart_rx, tx_queue, rx_queue
<1>0. ASSUME NEW from, NEW to, NEW rx \in BOOLEAN, NEW tx \in BOOLEAN,
             MaskStep(from, to, rx, tx)
      PROVE  TypeOK'
  BY <1>0 DEF MaskStep, SetIrqs
<1>1. CASE CombinedISR
  <2>1. rx_ring_buffer' \in Rings /\ receive' \in Nat
    BY <1>1, RingTypes DEF CombinedISR, HandleRxInterrupt
  <2>2. tx_ring_buffer' \in Rings
    BY <1>1, RingTypes DEF CombinedISR, HandleTxInterrupt
  <2>3. holding' \in Nat /\ tx_raised' \in BOOLEAN
    BY <1>1, <2>2, RingTypes DEF CombinedISR, HandleTxInterrupt, PutByte
  <2>4. irqs' \in [rx : BOOLEAN, tx : BOOLEAN]
    BY <1>1, IrqTypes DEF CombinedISR, HandleTxInterrupt, SetIrqs
  <2> QED
    BY <1>1, <2>1, <2>2, <2>3, <2>4 DEF CombinedISR
<1>2. CASE Calls
  <2>1. CASE TransmitByte
    BY <2>1 DEF TransmitByte, SetIrqs
  <2>2. CASE FlushTx
    BY <2>2 DEF FlushTx, MaskStep, SetIrqs
  <2>3. CASE TestAvailable
    BY <2>3 DEF TestAvailable
  <2>4. CASE ReadBytes
    BY <2>4, UartAssumption DEF ReadBytes, SetIrqs
  <2> QED
    BY <1>2, <2>1, <2>2, <2>3, <2>4 DEF Calls
<1>3. CASE TransmitSteps
  <2>1. ASSUME NEW from, NEW fitted, NEW full, PushByte(from, fitted, full)
        PROVE  TypeOK'
    BY <2>1, RingTypes DEF PushByte
  <2>3. CASE TestOngoing
    BY <2>3 DEF TestOngoing
  <2>4. CASE StartTransmission
    BY <2>4, RingTypes DEF StartTransmission, PutByte
  <2>5. CASE TransmitDone
    BY <2>5 DEF TransmitDone, SetIrqs
  <2>6. CASE Push \/ PushRetry
    BY <2>6, <2>1 DEF Push, PushRetry
  <2>7. CASE Unmask \/ MaskRetry \/ UnmaskRetry \/ MaskStart
    BY <2>7, <1>0 DEF Unmask, MaskRetry, UnmaskRetry, MaskStart
  <2> QED
    BY <1>3, <2>3, <2>4, <2>5, <2>6, <2>7 DEF TransmitSteps
<1>4. CASE FlushSteps
  <2>1. CASE FlushFirst \/ FlushRetest \/ FlushWait
    BY <2>1 DEF FlushFirst, FlushRetest, FlushWait, FlushTest
  <2>2. CASE FlushUnmask \/ FlushMask \/ FlushLast
    BY <2>2, <1>0 DEF FlushUnmask, FlushMask, FlushLast
  <2> QED
    BY <1>4, <2>1, <2>2 DEF FlushSteps
<1>5. CASE ReadSteps
  <2>2. CASE Available
    BY <2>2 DEF Available
  <2>3. CASE ReadMask \/ ReadUnmask
    BY <2>3, <1>0 DEF ReadMask, ReadUnmask
  <2>4. CASE ReadByte
    BY <2>4, RingTypes DEF ReadByte, PopByte
  <2>5. CASE BulkRead
    BY <2>5, RingTypes DEF BulkRead, PopByte
  <2>6. CASE BulkDone
    BY <2>6 DEF BulkDone, SetIrqs
  <2> QED
    BY <1>5, <2>2, <2>3, <2>4, <2>5, <2>6 DEF ReadSteps
<1>6. CASE Transmitter
  <2>1. CASE StartShifting
    <3>1. drained' \in Nat
      BY <2>1 DEF StartShifting
    <3>2. tx_raised' \in BOOLEAN /\ shifter' \in Nat /\ holding' \in Nat
      BY <2>1 DEF StartShifting
    <3> QED
      BY <2>1, <3>1, <3>2 DEF StartShifting
  <2>2. CASE ByteSent
    BY <2>2 DEF ByteSent
  <2> QED
    BY <1>6, <2>1, <2>2 DEF Transmitter
<1>7. CASE ByteArrives
  BY <1>7 DEF ByteArrives
<1>8. CASE UNCHANGED vars
  BY <1>8 DEF vars
<1> QED
  BY <1>1, <1>2, <1>3, <1>4, <1>5, <1>6, <1>7, <1>8 DEF Next, Thread

\* Every variable of the driver and its UART keeps its type; both rings stay
\* inside their arrays whatever the thread and the interrupt do.
THEOREM TypeCorrect == Spec => []TypeOK
BY TypeInit, TypeStep, PTL DEF Spec

-----------------------------------------------------------------------------
(* What the thread is given.                                               *)

\* No call of readReceivedBytes asks for more than a byte: with a bigger
\* buffer its loop stops too early or reads from an empty ring.
ReadsOneAtATime == BulkSizes \subseteq {0, 1}

\* The bytes that arrived and were not read are in the ring, in order, and
\* behind them in the receive register.  Once bytesAvailable has seen a byte
\* the ring is not empty until the thread itself takes it: the interrupt only
\* adds bytes.
RxInv ==
  /\ Numbered(rx_ring_buffer, read)
  /\ arrived = read + BytesAvailable(rx_ring_buffer) + (IF receive = 0 THEN 0 ELSE 1)
  /\ receive # 0 => receive = arrived
  /\ (pc = "available" /\ ~head_ahead) => ~IsEmpty(rx_ring_buffer)
  /\ pc \in {"read_mask", "pop"} => ~IsEmpty(rx_ring_buffer)
  /\ n \in {0, 1}

LEMMA EmptyNumbered ==
  /\ EmptyRing \in Rings /\ BytesAvailable(EmptyRing) = 0
  /\ \A before : Numbered(EmptyRing, before)
<1>1. EmptyRing \in Rings
  BY RingAssumption DEF EmptyRing, Rings, Slot
<1>2. IsEmpty(EmptyRing)
  BY DEF EmptyRing, IsEmpty
<1>3. BytesAvailable(EmptyRing) = 0
  BY <1>1, <1>2, AvailableBounds
<1> QED
  BY <1>1, <1>3 DEF Numbered

LEMMA RxStep ==
  ASSUME ReadsOneAtATime, TypeOK, RxInv, [Next]_vars
  PROVE  RxInv'
<1> USE DEF locals, uart_tx, uart_rx, tx_queue, rx_queue
<1>1. /\ \A r \in Rings : BytesAvailable(r) \in Nat /\ (IsEmpty(r) <=> BytesAvailable(r) = 0)
      /\ rx_ring_buffer \in Rings /\ read \in Nat /\ arrived \in Nat /\ receive \in Nat
  BY AvailableBounds DEF TypeOK
<1>2. ASSUME UNCHANGED <<rx_ring_buffer, receive, arrived, read>>, n' \in {0, 1},
             pc' \notin {"available", "read_mask", "pop"}
      PROVE  RxInv'
  BY <1>2 DEF RxInv
<1>3. ASSUME NEW from, NEW to, NEW rx, NEW tx, MaskStep(from, to, rx, tx),
             to \notin {"available", "read_mask", "pop"}
      PROVE  RxInv'
  BY <1>2, <1>3 DEF MaskStep, Step, RxInv
<1>4. ASSUME PopByte, UNCHANGED <<receive, arrived, n>>, ~IsEmpty(rx_ring_buffer),
             pc' \notin {"available", "read_mask", "pop"}
      PROVE  RxInv'
  <2>1. /\ read' = read + 1
        /\ Numbered(rx_ring_buffer', read + 1)
        /\ BytesAvailable(rx_ring_buffer') = BytesAvailable(rx_ring_buffer) - 1
    BY <1>1, <1>4, PopNumbered DEF PopByte, RxInv
  <2> QED
    BY <1>1, <1>4, <2>1 DEF RxInv
<1>5. CASE CombinedISR
  <2>1. UNCHANGED <<pc, head_ahead, n, arrived, read>>
    BY <1>5 DEF CombinedISR
  <2>2. CASE UNCHANGED <<rx_ring_buffer, receive>>
    BY <2>1, <2>2 DEF RxInv
  <2>3. CASE /\ receive # 0 /\ ~IsFull(rx_ring_buffer) /\ receive' = 0
             /\ rx_ring_buffer' = Pushed(rx_ring_buffer, receive)
    <3>1. receive = read + BytesAvailable(rx_ring_buffer) + 1
      BY <2>3, <1>1 DEF RxInv
    <3>2. /\ Numbered(rx_ring_buffer', read)
          /\ BytesAvailable(rx_ring_buffer') = BytesAvailable(rx_ring_buffer) + 1
          /\ rx_ring_buffer' \in Rings
      BY <2>3, <3>1, <1>1, PushNumbered, RingTypes DEF RxInv
    <3>3. ~IsEmpty(rx_ring_buffer')
      BY <1>1, <3>2
    <3> QED
      BY <1>1, <2>1, <2>3, <3>1, <3>2, <3>3 DEF RxInv
  <2> QED
    BY <1>5, <2>2, <2>3 DEF CombinedISR, RxPending, HandleRxInterrupt
<1>6. CASE Calls
  <2>1. CASE TransmitByte
    BY <2>1, <1>2 DEF TransmitByte, Step, RxInv
  <2>2. CASE FlushTx
    BY <2>2, <1>3 DEF FlushTx
  <2>3. CASE TestAvailable
    <3>1. ~head_ahead' => ~IsEmpty(rx_ring_buffer)
      <4>1. rx_ring_buffer.head \in Nat /\ rx_ring_buffer.tail \in Nat
        BY <1>1, RingAssumption DEF Rings, Slot
      <4>2. IsEmpty(rx_ring_buffer) => rx_ring_buffer.head >= rx_ring_buffer.tail
        BY <4>1 DEF IsEmpty
      <4> QED
        BY <2>3, <4>2 DEF TestAvailable
    <3> QED
      BY <2>3, <3>1 DEF TestAvailable, Step, RxInv
  <2>4. CASE ReadBytes
    BY <2>4, <1>2 DEF ReadBytes, Step, ReadsOneAtATime
  <2> QED
    BY <1>6, <2>1, <2>2, <2>3, <2>4 DEF Calls
<1>7. CASE TransmitSteps
  <2>1. ASSUME NEW from, NEW fitted, NEW full, PushByte(from, fitted, full),
               {fitted, full} \cap {"available", "read_mask", "pop"} = {}
        PROVE  RxInv'
    BY <2>1, <1>2 DEF PushByte, Step, RxInv
  <2>2. CASE TestOngoing \/ StartTransmission \/ TransmitDone
    BY <2>2, <1>2 DEF TestOngoing, StartTransmission, TransmitDone, Step, RxInv
  <2>3. CASE Push \/ PushRetry
    BY <2>3, <2>1 DEF Push, PushRetry
  <2>4. CASE Unmask \/ MaskRetry \/ UnmaskRetry \/ MaskStart
    BY <2>4, <1>3 DEF Unmask, MaskRetry, UnmaskRetry, MaskStart
  <2> QED
    BY <1>7, <2>2, <2>3, <2>4 DEF TransmitSteps
<1>8. CASE FlushSteps
  <2>1. CASE FlushFirst \/ FlushRetest \/ FlushWait
    BY <2>1, <1>2 DEF FlushFirst, FlushRetest, FlushWait, FlushTest, Step, RxInv
  <2>2. CASE FlushUnmask \/ FlushMask \/ FlushLast
    BY <2>2, <1>3 DEF FlushUnmask, FlushMask, FlushLast
  <2> QED
    BY <1>8, <2>1, <2>2 DEF FlushSteps
<1>9. CASE ReadSteps
  <2>1. CASE Available
    <3>1. pc' = "read_mask" => ~IsEmpty(rx_ring_buffer)
      <4>1. CASE head_ahead
        <5>1. IsEmpty(rx_ring_buffer) => rx_ring_buffer.head - rx_ring_buffer.tail = 0
          BY <1>1, RingAssumption DEF IsEmpty, Rings, Slot
        <5>2. 0 % SizeLimit = 0
          BY SmallModulus, RingAssumption
        <5>3. IsEmpty(rx_ring_buffer) => ~(AvailableAfterTest(head_ahead, rx_ring_buffer) > 0)
          BY <4>1, <5>1, <5>2 DEF AvailableAfterTest
        <5> QED
          BY <2>1, <5>3 DEF Available, Step
      <4>2. CASE ~head_ahead
        BY <2>1, <4>2 DEF Available, Step, RxInv
      <4> QED
        BY <4>1, <4>2
    <3>2. pc' \in {"read_mask", "idle"}
      BY <2>1 DEF Available, Step
    <3> QED
      BY <2>1, <3>1, <3>2 DEF Available, RxInv
  <2>2. CASE ReadMask
    BY <2>2 DEF ReadMask, MaskStep, Step, RxInv
  <2>3. CASE ReadByte
    BY <2>3, <1>4 DEF ReadByte, Step, RxInv
  <2>4. CASE ReadUnmask
    BY <2>4, <1>3 DEF ReadUnmask
  <2>5. CASE BulkRead
    <3>1. i = 0
      BY <2>5 DEF BulkRead, RxInv, TypeOK
    <3>2. ~IsEmpty(rx_ring_buffer)
      BY <2>5, <3>1, <1>1 DEF BulkRead
    <3> QED
      BY <2>5, <3>2, <1>4 DEF BulkRead, Step
  <2>6. CASE BulkDone
    BY <2>6, <1>2 DEF BulkDone, Step
  <2> QED
    BY <1>9, <2>1, <2>2, <2>3, <2>4, <2>5, <2>6 DEF ReadSteps
<1>10. CASE Transmitter
  BY <1>10 DEF Transmitter, StartShifting, ByteSent, RxInv
<1>11. CASE ByteArrives
  <2>1. /\ receive = 0 /\ arrived' = arrived + 1 /\ receive' = arrived + 1
        /\ UNCHANGED <<pc, head_ahead, n, rx_ring_buffer, read>>
    BY <1>11 DEF ByteArrives
  <2> QED
    BY <1>1, <2>1 DEF RxInv
<1>12. CASE UNCHANGED vars
  BY <1>12 DEF vars, RxInv
<1> QED
  BY <1>5, <1>6, <1>7, <1>8, <1>9, <1>10, <1>11, <1>12 DEF Next, Thread

LEMMA RxInOrder == ASSUME TypeOK, RxInv PROVE ReceivedInOrder
<1> DEFINE held    == Contents(rx_ring_buffer)
           waiting == IF receive = 0 THEN <<>> ELSE <<receive>>
           numbers == [k \in 1..arrived - read |-> read + k]
<1>1. /\ rx_ring_buffer \in Rings /\ BytesAvailable(rx_ring_buffer) \in Nat
      /\ read \in Nat /\ arrived \in Nat /\ receive \in Nat
  BY AvailableBounds DEF TypeOK
<1>2. held \in Seq(Nat) /\ Len(held) = BytesAvailable(rx_ring_buffer)
  BY <1>1, ContentsAreElements
<1>3. \A k \in 1..Len(held) : held[k] = read + k
  BY <1>2 DEF RxInv, Numbered
<1>4. arrived - read = Len(held) + (IF receive = 0 THEN 0 ELSE 1)
  BY <1>1, <1>2 DEF RxInv
<1>5. receive # 0 => receive = read + Len(held) + 1
  BY <1>1, <1>2 DEF RxInv
<1>6. /\ numbers \in Seq(Nat) /\ Len(numbers) = arrived - read
      /\ \A k \in 1..arrived - read : numbers[k] = read + k
  <2>1. arrived - read \in Nat /\ \A k \in 1..arrived - read : read + k \in Nat
    BY <1>1, <1>2, <1>4
  <2> QED
    BY <2>1
<1> HIDE DEF held, numbers
<1>7. CASE receive = 0
  <2>1. held = numbers
    <3>1. Len(held) = arrived - read
      BY <1>2, <1>4, <1>7
    <3>2. Len(held) = Len(numbers) /\ \A k \in 1..Len(held) : held[k] = numbers[k]
      BY <1>3, <1>6, <3>1
    <3>3. held \in Seq(Nat) /\ numbers \in Seq(Nat)
      BY <1>2, <1>6
    <3> HIDE DEF held, numbers
    <3> QED
      BY <3>2, <3>3, SeqEqual
  <2>2. held \o waiting = held
    BY <1>2, <1>7, ConcatEmptySeq
  <2> QED
    BY <2>1, <2>2 DEF ReceivedInOrder, held, numbers
<1>8. CASE receive # 0
  <2>1. /\ held \o waiting \in Seq(Nat) /\ Len(held \o waiting) = arrived - read
        /\ \A k \in 1..arrived - read :
             (held \o waiting)[k] = IF k <= Len(held) THEN held[k] ELSE receive
    BY <1>1, <1>2, <1>4, <1>8
  <2>2. \A k \in 1..arrived - read : (held \o waiting)[k] = numbers[k]
    <3>1. TAKE k \in 1..arrived - read
    <3>2. k \in Nat /\ numbers[k] = read + k
      BY <1>1, <1>2, <1>4, <1>6
    <3>3. CASE k <= Len(held)
      BY <2>1, <3>2, <3>3, <1>2, <1>3
    <3>4. CASE ~(k <= Len(held))
      <4>1. k = Len(held) + 1
        BY <3>2, <3>4, <1>1, <1>2, <1>4, <1>8
      <4> QED
        BY <2>1, <3>2, <3>4, <4>1, <1>1, <1>2, <1>5, <1>8
    <3> QED
      BY <3>3, <3>4
  <2>3. held \o waiting = numbers
    BY <1>6, <2>1, <2>2, SeqEqual
  <2> QED
    BY <2>3 DEF ReceivedInOrder, held, numbers
<1> QED
  BY <1>7, <1>8

\* What the thread reads is what arrived, each byte once and in order, and
\* never the 0 of an empty ring, whenever the interrupt comes between the test
\* of bytesAvailable and the pop; for reads of one byte, which is how run() and
\* the host's loop use the driver.
THEOREM BytesReadInOrder ==
  ASSUME ReadsOneAtATime
  PROVE  Spec => []ReceivedInOrder
<1>1. Init => RxInv
  BY EmptyNumbered DEF Init, RxInv
<1>2. TypeOK /\ RxInv /\ [Next]_vars => RxInv'
  BY RxStep
<1>3. TypeOK /\ RxInv => ReceivedInOrder
  BY RxInOrder
<1> QED
  BY <1>1, <1>2, <1>3, TypeCorrect, PTL DEF Spec

-----------------------------------------------------------------------------
(* What leaves on the line.                                                *)

\* The steps of the thread before which the TX interrupt is masked.
TxMasked ==
  {"test_ongoing", "push", "unmask", "push_retry", "unmask_retry", "start",
   "transmit_done", "flush_test", "flush_unmask", "flush_wait"}

MaskInv == pc \in TxMasked => ~irqs.tx

\* flushTx gets to its last lines only when the ring is empty, and nothing but
\* transmitByte fills it.
FlushInv == pc \in {"flush_mask_last", "flush_wait"} => IsEmpty(tx_ring_buffer)

LEMMA MaskStays == MaskInv /\ FlushInv /\ [Next]_vars => MaskInv' /\ FlushInv'
<1> SUFFICES ASSUME MaskInv, FlushInv, [Next]_vars
             PROVE  MaskInv' /\ FlushInv'
  OBVIOUS
<1> USE DEF MaskInv, FlushInv, TxMasked, SetIrqs, Step, MaskStep,
            locals, uart_tx, uart_rx, tx_queue, rx_queue
<1>1. CASE CombinedISR
  BY <1>1 DEF CombinedISR, HandleTxInterrupt
<1>2. CASE Calls
  BY <1>2 DEF Calls, TransmitByte, FlushTx, TestAvailable, ReadBytes
<1>3. CASE TransmitSteps
  BY <1>3 DEF TransmitSteps, TestOngoing, Push, Unmask, MaskRetry, PushRetry, UnmaskRetry,
              MaskStart, StartTransmission, TransmitDone, PushByte
<1>4. CASE FlushSteps
  BY <1>4 DEF FlushSteps, FlushFirst, FlushUnmask, FlushRetest, FlushMask, FlushLast,
              FlushWait, FlushTest
<1>5. CASE ReadSteps
  BY <1>5 DEF ReadSteps, Available, ReadMask, ReadByte, ReadUnmask, BulkRead, BulkDone
<1>6. CASE Transmitter \/ ByteArrives
  BY <1>6 DEF Transmitter, StartShifting, ByteSent, ByteArrives
<1>7. CASE UNCHANGED vars
  BY <1>7 DEF vars
<1> QED
  BY <1>1, <1>2, <1>3, <1>4, <1>5, <1>6, <1>7 DEF Next, Thread

\* When flushTx returns, the ring and the holding register are empty.
THEOREM FlushIsComplete == Spec => FlushEmptiesBuffers
<1>1. Init => MaskInv /\ FlushInv
  BY DEF Init, MaskInv, TxMasked, FlushInv
<1>2. FlushInv /\ [Next]_vars =>
        [pc = "flush_wait" /\ pc' = "idle" => IsEmpty(tx_ring_buffer) /\ holding = 0]_vars
  <2> SUFFICES ASSUME FlushInv, Next, pc = "flush_wait", pc' = "idle"
               PROVE  IsEmpty(tx_ring_buffer) /\ holding = 0
    OBVIOUS
  <2>1. IsEmpty(tx_ring_buffer)
    BY DEF FlushInv
  <2>2. FlushWait
    BY DEF Next, Calls, Thread, TransmitSteps, FlushSteps, ReadSteps, CombinedISR, Transmitter,
           TransmitByte, FlushTx, TestAvailable, ReadBytes,
           TestOngoing, Push, Unmask, MaskRetry, PushRetry, UnmaskRetry,
           MaskStart, StartTransmission, TransmitDone, PushByte,
           FlushFirst, FlushUnmask, FlushRetest, FlushMask, FlushLast, FlushTest,
           Available, ReadMask, ReadByte, ReadUnmask, BulkRead, BulkDone,
           StartShifting, ByteSent, ByteArrives, Step, MaskStep
  <2> QED
    BY <2>1, <2>2 DEF FlushWait
<1> QED
  BY <1>1, <1>2, MaskStays, PTL DEF Spec, FlushEmptiesBuffers

\* The interrupt takes too few bytes out of the ring while transmitByte waits
\* with the interrupt unmasked to empty it: the line is slower than the loop.
DrainsSlowly == DrainBound + 1 < Capacity

\* transmitByte was given a byte that is not in the ring yet.
Waiting ==
  \/ pc \in {"test_ongoing", "push", "unmask", "mask_retry", "push_retry"}
  \/ pc = "unmask_retry" /\ ~byte_fitted_to_buffer

Queued  == IF Waiting THEN transmitted - 1 ELSE transmitted
Held    == BytesAvailable(tx_ring_buffer)

\* The byte at the front of the ring stays there until the UART has taken it:
\* it has been put, unless transmitByte is about to start the transmission.
NotYetStarted == pc = "start" /\ ~is_transmission_ongoing
Started == Held > 0 /\ ~NotYetStarted

\* The last byte handed to the shift register, and to the UART.
LastShifted == IF shifter # 0 THEN shifter ELSE sent
LastPut     == IF holding # 0 THEN holding ELSE LastShifted

\* The ring holds the last bytes queued; the UART has all before them and, once
\* started, the first of them.
QueueInv ==
  /\ Numbered(tx_ring_buffer, Queued - Held)
  /\ LastPut = Queued - Held + (IF Started THEN 1 ELSE 0)

\* The registers hold consecutive bytes.  While the front byte of the ring is
\* with the UART, its interrupt is raised exactly when it has left the holding
\* register.
LineInv ==
  /\ shifter # 0 => shifter = sent + 1
  /\ holding # 0 => holding = LastShifted + 1
  /\ Started => (holding = 0 <=> tx_raised)
  /\ ~Started => holding = 0

\* What transmitByte remembers of the ring stays true while it waits with the
\* interrupt unmasked: a full ring does not become empty.
PushInv ==
  /\ pc = "push" => (is_transmission_ongoing <=> Held > 0)
  /\ pc \in {"unmask", "mask_retry", "push_retry", "unmask_retry", "mask_start"} =>
       is_transmission_ongoing
  /\ NotYetStarted => Held = 1
  /\ pc = "unmask" => Held = Capacity
  /\ (pc = "unmask_retry" /\ ~byte_fitted_to_buffer) => Held = Capacity
  /\ pc = "mask_retry" =>
       /\ drained <= DrainBound
       /\ Capacity - Held + (IF tx_raised THEN 1 ELSE 0) <= drained + 1
  /\ pc = "push_retry" => Held > 0

TxInv == QueueInv /\ LineInv /\ PushInv

LEMMA TxTypes ==
  ASSUME TypeOK
  PROVE  /\ tx_ring_buffer \in Rings /\ Held \in Nat /\ Held <= Capacity
         /\ IsEmpty(tx_ring_buffer) <=> Held = 0
         /\ IsFull(tx_ring_buffer) <=> Held = Capacity
         /\ holding \in Nat /\ shifter \in Nat /\ sent \in Nat /\ transmitted \in Nat
         /\ drained \in Nat /\ Queued \in Int /\ LastShifted \in Nat /\ LastPut \in Nat
         /\ Capacity \in Nat /\ Capacity > 0 /\ DrainBound \in Nat
<1>1. tx_ring_buffer \in Rings /\ transmitted \in Nat
  BY DEF TypeOK
<1>2. Capacity \in Nat /\ Capacity > 0 /\ DrainBound \in Nat
  BY RingAssumption, UartAssumption DEF Capacity
<1>3. /\ Held \in Nat /\ Held <= Capacity
      /\ IsEmpty(tx_ring_buffer) <=> Held = 0
      /\ IsFull(tx_ring_buffer) <=> Held = Capacity
  BY <1>1, <1>2, AvailableBounds DEF Held
<1>4. Queued \in Int
  BY <1>1 DEF Queued
<1> QED
  BY <1>1, <1>2, <1>3, <1>4 DEF TypeOK, LastShifted, LastPut

\* A step that leaves the ring, the registers and the place of the call alone.
LEMMA TxQuiet ==
  ASSUME QueueInv, LineInv,
         UNCHANGED <<tx_ring_buffer, holding, shifter, sent, tx_raised>>,
         Queued' = Queued, NotYetStarted' = NotYetStarted
  PROVE  QueueInv' /\ LineInv' /\ Held' = Held
<1>1. Held' = Held /\ Started' = Started
  BY DEF Held, Started
<1>2. LastShifted' = LastShifted /\ LastPut' = LastPut
  BY DEF LastShifted, LastPut
<1> QED
  BY <1>1, <1>2 DEF QueueInv, LineInv

\* The interrupt takes the byte the UART is done with out of the ring and puts
\* the next.
LEMMA TxInterrupt ==
  ASSUME DrainsSlowly, TypeOK, MaskInv, TxInv, CombinedISR
  PROVE  TxInv'
<1>1. UNCHANGED <<pc, is_transmission_ongoing, byte_fitted_to_buffer,
                  shifter, sent, transmitted, drained>>
  BY DEF CombinedISR, locals
<1>2. Queued' = Queued /\ NotYetStarted' = NotYetStarted /\ LastShifted' = LastShifted
  BY <1>1 DEF Queued, Waiting, NotYetStarted, LastShifted
<1>3. CASE UNCHANGED <<tx_ring_buffer, holding, tx_raised>>
  <2>1. QueueInv' /\ LineInv' /\ Held' = Held
    BY <1>1, <1>2, <1>3, TxQuiet DEF TxInv
  <2>2. PushInv'
    BY <1>1, <1>2, <1>3, <2>1 DEF TxInv, PushInv
  <2> QED
    BY <2>1, <2>2 DEF TxInv
<1>4. CASE /\ TxPending /\ ~IsEmpty(tx_ring_buffer)
           /\ tx_ring_buffer' = Popped(tx_ring_buffer)
           /\ IF IsEmpty(tx_ring_buffer') THEN UNCHANGED <<holding, tx_raised>>
              ELSE PutByte(Peek(tx_ring_buffer'))
  <2>1. /\ tx_ring_buffer \in Rings /\ Held \in Nat /\ Held > 0 /\ Held <= Capacity
        /\ Queued \in Int /\ LastShifted \in Nat /\ Capacity \in Nat
        /\ DrainBound \in Nat /\ drained \in Nat
    BY <1>4, TxTypes
  <2>2. pc \notin TxMasked /\ tx_raised
    BY <1>4 DEF TxPending, MaskInv
  <2>3. ~NotYetStarted /\ Started
    BY <2>1, <2>2 DEF NotYetStarted, Started, TxMasked
  <2>4. holding = 0 /\ LastShifted = Queued - Held + 1
    BY <2>2, <2>3 DEF TxInv, LineInv, QueueInv, LastPut
  <2>5. /\ Numbered(tx_ring_buffer', Queued - Held + 1)
        /\ Held' = Held - 1
        /\ tx_ring_buffer' \in Rings
    <3>1. Queued - Held \in Int
      BY <2>1
    <3>2. Numbered(tx_ring_buffer, Queued - Held)
      BY DEF TxInv, QueueInv
    <3>3. /\ Numbered(tx_ring_buffer', Queued - Held + 1)
          /\ BytesAvailable(tx_ring_buffer') = BytesAvailable(tx_ring_buffer) - 1
      BY <1>4, <2>1, <3>1, <3>2, PopNumbered
    <3>4. tx_ring_buffer' \in Rings
      BY <1>4, <2>1, PopTakesHead
    <3> QED
      BY <3>3, <3>4 DEF Held
  <2>6. Queued' - Held' = Queued - Held + 1
    BY <1>2, <2>1, <2>5
  <2>7. PushInv'
    <3>1. pc = "mask_retry" => Held' > 0
      BY <2>1, <2>2, <2>5 DEF DrainsSlowly, TxInv, PushInv
    <3>2. (pc = "mask_retry" /\ Held' > 0) =>
            Capacity - Held' + (IF tx_raised' THEN 1 ELSE 0) <= drained + 1
      <4>1. Held' > 0 => ~tx_raised'
        BY <1>4, <2>1, <2>5, AvailableBounds DEF PutByte, Held
      <4>2. pc = "mask_retry" => Capacity - Held + 1 <= drained + 1
        BY <2>2 DEF TxInv, PushInv
      <4> QED
        BY <4>1, <4>2, <2>1, <2>5
    <3> QED
      BY <1>1, <1>2, <2>2, <2>3, <3>1, <3>2 DEF TxInv, PushInv, TxMasked
  <2>8. CASE Held' = 0
    <3>1. UNCHANGED <<holding, tx_raised>>
      BY <1>4, <2>5, <2>8, AvailableBounds DEF Held
    <3>2. ~Started' /\ LastPut' = LastShifted
      BY <1>2, <2>4, <2>8, <3>1 DEF Started, LastPut
    <3>3. QueueInv'
      BY <2>1, <2>4, <2>5, <2>6, <3>2 DEF QueueInv
    <3>4. LineInv'
      BY <1>1, <1>2, <2>4, <3>1, <3>2 DEF TxInv, LineInv
    <3> QED
      BY <2>7, <3>3, <3>4 DEF TxInv
  <2>9. CASE Held' # 0
    <3>1. holding' = Peek(tx_ring_buffer') /\ ~tx_raised'
      BY <1>4, <2>5, <2>9, AvailableBounds DEF PutByte, Held
    <3>2. Peek(tx_ring_buffer') = Queued - Held + 2
      <4>1. Queued - Held + 1 \in Int /\ ~IsEmpty(tx_ring_buffer')
        BY <2>1, <2>5, <2>9, AvailableBounds DEF Held
      <4>2. Peek(tx_ring_buffer') = (Queued - Held + 1) + 1
        BY <4>1, <2>5, PopNumbered
      <4> QED
        BY <4>2, <2>1
    <3>3. holding' = LastShifted + 1 /\ holding' # 0
      BY <2>1, <2>4, <3>1, <3>2
    <3>4. Started' /\ LastPut' = LastShifted + 1
      BY <1>2, <2>1, <2>3, <2>5, <2>9, <3>3 DEF Started, LastPut
    <3>5. QueueInv'
      BY <2>1, <2>4, <2>5, <2>6, <3>4 DEF QueueInv
    <3>6. LineInv'
      BY <1>1, <1>2, <3>1, <3>3, <3>4 DEF TxInv, LineInv
    <3> QED
      BY <2>7, <3>5, <3>6 DEF TxInv
  <2> QED
    BY <2>8, <2>9
<1> QED
  BY <1>3, <1>4 DEF CombinedISR, HandleTxInterrupt

\* The thread hands a byte over, waits for a place for it, and starts the
\* transmission if the ring was empty.
LEMMA TxTransmit ==
  ASSUME DrainsSlowly, TypeOK, TxInv, TransmitByte \/ TransmitSteps
  PROVE  TxInv'
<1> USE DEF locals, uart_tx, uart_rx, tx_queue, rx_queue, Step
<1>1. /\ tx_ring_buffer \in Rings /\ Held \in Nat /\ Held <= Capacity
      /\ IsEmpty(tx_ring_buffer) <=> Held = 0
      /\ IsFull(tx_ring_buffer) <=> Held = Capacity
      /\ transmitted \in Nat /\ LastShifted \in Nat /\ Queued \in Int
      /\ drained \in Nat /\ Capacity \in Nat /\ Capacity > 0 /\ DrainBound \in Nat
  BY TxTypes
<1>2. ASSUME UNCHANGED <<tx_ring_buffer, holding, shifter, sent, tx_raised>>,
             Queued' = Queued, NotYetStarted' = NotYetStarted,
             Held' = Held => PushInv'
      PROVE  TxInv'
  BY <1>2, TxQuiet DEF TxInv
<1>3. CASE TransmitByte
  <2>1. Queued' = Queued
    BY <1>1, <1>3 DEF TransmitByte, Queued, Waiting
  <2>2. Held' = Held => PushInv'
    BY <1>3 DEF TransmitByte, PushInv, NotYetStarted
  <2>3. NotYetStarted' = NotYetStarted
    BY <1>3 DEF TransmitByte, NotYetStarted
  <2> QED
    BY <1>2, <1>3, <2>1, <2>2, <2>3 DEF TransmitByte
<1>4. CASE TestOngoing
  <2>1. Queued' = Queued
    BY <1>4 DEF TestOngoing, Queued, Waiting
  <2>2. Held' = Held => PushInv'
    <3>1. is_transmission_ongoing' <=> Held > 0
      <4>1. is_transmission_ongoing' = ~IsEmpty(tx_ring_buffer)
        BY <1>4, Zenon DEF TestOngoing
      <4>2. IsEmpty(tx_ring_buffer) <=> ~(Held > 0)
        BY <1>1
      <4> QED
        BY <4>1, <4>2, Zenon
    <3> QED
      BY <1>4, <3>1 DEF TestOngoing, PushInv, NotYetStarted
  <2>3. NotYetStarted' = NotYetStarted
    BY <1>4 DEF TestOngoing, NotYetStarted
  <2> QED
    BY <1>2, <1>4, <2>1, <2>2, <2>3 DEF TestOngoing
<1>5. CASE Push \/ PushRetry
  <2>1. /\ pc \in {"push", "push_retry"}
        /\ UNCHANGED <<is_transmission_ongoing, holding, shifter, sent, tx_raised, transmitted>>
        /\ tx_ring_buffer' = Pushed(tx_ring_buffer, transmitted)
        /\ byte_fitted_to_buffer' = ~IsFull(tx_ring_buffer)
        /\ pc = "push" => pc' = IF IsFull(tx_ring_buffer) THEN "unmask" ELSE "start"
        /\ pc = "push_retry" => pc' = "unmask_retry"
    BY <1>5 DEF Push, PushRetry, PushByte
  <2>2. Waiting /\ Queued = transmitted - 1 /\ ~NotYetStarted
    BY <2>1 DEF Queued, Waiting, NotYetStarted
  <2>3. is_transmission_ongoing <=> Held > 0
    BY <2>1, <1>1 DEF TxInv, PushInv
  <2>4. LastShifted' = LastShifted /\ LastPut' = LastPut
    BY <2>1 DEF LastShifted, LastPut
  <2>5. CASE IsFull(tx_ring_buffer)
    <3>1. UNCHANGED tx_ring_buffer
      BY <2>1, <2>5 DEF Pushed
    <3>2. Queued' = Queued /\ NotYetStarted' = NotYetStarted
      BY <2>1, <2>2, <2>5 DEF Queued, Waiting, NotYetStarted
    <3>3. Held' = Held => PushInv'
      BY <1>1, <2>1, <2>3, <2>5 DEF PushInv, NotYetStarted
    <3> QED
      BY <1>2, <2>1, <3>1, <3>2, <3>3
  <2>6. CASE ~IsFull(tx_ring_buffer)
    <3>1. /\ Numbered(tx_ring_buffer', Queued - Held)
          /\ Held' = Held + 1
      <4>1. Queued - Held \in Int /\ transmitted = (Queued - Held) + Held + 1
        BY <1>1, <2>2
      <4>2. Numbered(tx_ring_buffer, Queued - Held)
        BY DEF TxInv, QueueInv
      <4> QED
        BY <1>1, <2>1, <2>6, <4>1, <4>2, PushNumbered DEF Held
    <3>2. Queued' = transmitted /\ Queued' - Held' = Queued - Held
      <4>1. Queued' = transmitted
        BY <2>1, <2>6 DEF Queued, Waiting
      <4> QED
        BY <1>1, <2>2, <3>1, <4>1
    <3>3. Started' <=> Started
      <4>1. Started <=> Held > 0
        BY <2>2 DEF Started
      <4>2. NotYetStarted' <=> ~(Held > 0)
        BY <2>1, <2>3, <2>6 DEF NotYetStarted, TxInv, PushInv
      <4> QED
        BY <1>1, <3>1, <4>1, <4>2 DEF Started
    <3>4. QueueInv'
      BY <2>4, <3>1, <3>2, <3>3 DEF TxInv, QueueInv
    <3>5. LineInv'
      BY <2>1, <2>4, <3>3 DEF TxInv, LineInv
    <3>6. PushInv'
      <4>1. byte_fitted_to_buffer' /\ (pc = "push" => pc' = "start")
        BY <2>1, <2>6
      <4>2. pc = "push_retry" => is_transmission_ongoing
        BY DEF TxInv, PushInv
      <4> QED
        BY <1>1, <2>1, <2>3, <3>1, <4>1, <4>2 DEF PushInv, NotYetStarted
    <3> QED
      BY <3>4, <3>5, <3>6 DEF TxInv
  <2> QED
    BY <2>5, <2>6
<1>6. CASE Unmask \/ UnmaskRetry
  <2>1. Queued' = Queued
    BY <1>6 DEF Unmask, UnmaskRetry, MaskStep, Queued, Waiting
  <2>2. NotYetStarted' = NotYetStarted
    BY <1>6 DEF Unmask, UnmaskRetry, MaskStep, NotYetStarted
  <2>3. Held' = Held => PushInv'
    <3>1. /\ UNCHANGED <<is_transmission_ongoing, tx_raised>> /\ drained' = 0
          /\ is_transmission_ongoing
      BY <1>6 DEF Unmask, UnmaskRetry, MaskStep, TxInv, PushInv
    <3>2. /\ pc' \in {"mask_retry", "mask_start"}
          /\ pc' = "mask_retry" => Held = Capacity
      BY <1>6 DEF Unmask, UnmaskRetry, MaskStep, TxInv, PushInv
    <3> QED
      BY <1>1, <3>1, <3>2 DEF PushInv, NotYetStarted
  <2> QED
    BY <1>2, <1>6, <2>1, <2>2, <2>3 DEF Unmask, UnmaskRetry, MaskStep
<1>7. CASE MaskRetry \/ MaskStart
  <2>1. Queued' = Queued
    BY <1>7 DEF MaskRetry, MaskStart, MaskStep, Queued, Waiting
  <2>2. NotYetStarted' = NotYetStarted
    BY <1>7 DEF MaskRetry, MaskStart, MaskStep, NotYetStarted, TxInv, PushInv
  <2>3. Held' = Held => PushInv'
    <3>1. pc = "mask_retry" => Held > 0
      BY <1>1 DEF TxInv, PushInv, DrainsSlowly
    <3>2. /\ pc' \in {"push_retry", "start"}
          /\ pc' = "push_retry" => pc = "mask_retry"
          /\ is_transmission_ongoing /\ is_transmission_ongoing'
      BY <1>7 DEF MaskRetry, MaskStart, MaskStep, TxInv, PushInv
    <3> QED
      BY <3>1, <3>2 DEF PushInv, NotYetStarted
  <2> QED
    BY <1>2, <1>7, <2>1, <2>2, <2>3 DEF MaskRetry, MaskStart, MaskStep
<1>8. CASE StartTransmission
  <2>1. /\ pc = "start" /\ pc' = "transmit_done"
        /\ UNCHANGED <<tx_ring_buffer, transmitted, shifter, sent, is_transmission_ongoing>>
    BY <1>8 DEF StartTransmission
  <2>2. Queued' = Queued /\ ~NotYetStarted' /\ Held' = Held /\ LastShifted' = LastShifted
    BY <2>1 DEF Queued, Waiting, NotYetStarted, Held, LastShifted
  <2>3. PushInv'
    BY <2>1 DEF PushInv, NotYetStarted
  <2>4. CASE is_transmission_ongoing
    BY <1>2, <1>8, <2>1, <2>2, <2>3, <2>4 DEF StartTransmission, NotYetStarted
  <2>5. CASE ~is_transmission_ongoing
    <3>1. NotYetStarted /\ ~Started /\ Held = 1
      BY <2>1, <2>5 DEF NotYetStarted, Started, TxInv, PushInv
    <3>2. holding = 0 /\ LastShifted = Queued - Held
      BY <1>1, <3>1 DEF TxInv, LineInv, QueueInv, LastPut
    <3>3. Peek(tx_ring_buffer) = Queued - Held + 1
      <4>1. Queued - Held \in Int /\ ~IsEmpty(tx_ring_buffer)
        BY <1>1, <3>1
      <4>2. Numbered(tx_ring_buffer, Queued - Held)
        BY DEF TxInv, QueueInv
      <4> QED
        BY <1>1, <4>1, <4>2, PopNumbered
    <3>4. holding' = LastShifted + 1 /\ holding' # 0 /\ ~tx_raised'
      BY <1>1, <1>8, <2>5, <3>2, <3>3 DEF StartTransmission, PutByte
    <3>5. Started' /\ LastPut' = LastShifted + 1
      BY <1>1, <2>2, <3>1, <3>4 DEF Started, LastPut
    <3>6. QueueInv'
      BY <1>1, <2>1, <2>2, <3>2, <3>5 DEF TxInv, QueueInv
    <3>7. LineInv'
      BY <2>1, <2>2, <3>4, <3>5 DEF TxInv, LineInv
    <3> QED
      BY <2>3, <3>6, <3>7 DEF TxInv
  <2> QED
    BY <2>4, <2>5
<1>9. CASE TransmitDone
  <2>1. Queued' = Queued /\ NotYetStarted' = NotYetStarted
    BY <1>9 DEF TransmitDone, Queued, Waiting, NotYetStarted
  <2>2. Held' = Held => PushInv'
    BY <1>9 DEF TransmitDone, PushInv, NotYetStarted
  <2> QED
    BY <1>2, <1>9, <2>1, <2>2 DEF TransmitDone
<1> QED
  BY <1>3, <1>4, <1>5, <1>6, <1>7, <1>8, <1>9 DEF TransmitSteps

\* The other calls read the ring at most.
LEMMA TxOtherCalls ==
  ASSUME TxInv, FlushTx \/ TestAvailable \/ ReadBytes \/ FlushSteps \/ ReadSteps
  PROVE  TxInv'
<1> DEFINE Other == {"idle", "flush_test", "flush_unmask", "flush_retest", "flush_mask",
                     "flush_mask_last", "flush_wait", "available", "read_mask", "pop",
                     "read_unmask", "bulk"}
<1>1. /\ pc \in Other /\ pc' \in Other
      /\ UNCHANGED <<tx_ring_buffer, holding, shifter, sent, tx_raised, transmitted>>
  <2> USE DEF Step, MaskStep, locals, uart_tx, uart_rx, tx_queue, rx_queue
  <2>1. CASE FlushTx \/ TestAvailable \/ ReadBytes
    BY <2>1 DEF FlushTx, TestAvailable, ReadBytes
  <2>2. CASE FlushSteps
    BY <2>2 DEF FlushSteps, FlushFirst, FlushUnmask, FlushRetest, FlushMask, FlushLast,
                FlushWait, FlushTest
  <2>3. CASE ReadSteps
    BY <2>3 DEF ReadSteps, Available, ReadMask, ReadByte, ReadUnmask, BulkRead, BulkDone
  <2> QED
    BY <2>1, <2>2, <2>3
<1>2. Queued' = Queued /\ NotYetStarted' = NotYetStarted
  BY <1>1 DEF Queued, Waiting, NotYetStarted
<1>3. PushInv'
  BY <1>1 DEF PushInv, NotYetStarted
<1> QED
  BY <1>1, <1>2, <1>3, TxQuiet DEF TxInv

\* The UART moves a byte towards the line.
LEMMA TxShift ==
  ASSUME TypeOK, TxInv, Transmitter
  PROVE  TxInv'
<1>1. /\ UNCHANGED <<pc, is_transmission_ongoing, byte_fitted_to_buffer, tx_ring_buffer,
                     transmitted>>
      /\ holding \in Nat /\ shifter \in Nat /\ sent \in Nat /\ drained \in Nat
      /\ Held \in Nat /\ Capacity \in Nat /\ DrainBound \in Nat
  BY TxTypes DEF Transmitter, StartShifting, ByteSent, locals, tx_queue
<1>2. /\ Queued' = Queued /\ NotYetStarted' = NotYetStarted
      /\ Held' = Held /\ Started' = Started
  BY <1>1 DEF Queued, Waiting, NotYetStarted, Held, Started
<1>3. CASE StartShifting
  <2>1. /\ holding # 0 /\ shifter = 0 /\ shifter' = holding /\ holding' = 0
        /\ tx_raised' /\ sent' = sent
    BY <1>3 DEF StartShifting
  <2>2. LastPut' = LastPut /\ LastShifted' = holding
    BY <2>1 DEF LastPut, LastShifted
  <2>3. Started /\ ~tx_raised /\ holding = sent + 1
    BY <2>1 DEF TxInv, LineInv, LastShifted
  <2>4. QueueInv'
    BY <1>1, <1>2, <2>2 DEF TxInv, QueueInv
  <2>5. LineInv'
    BY <1>2, <2>1, <2>2, <2>3 DEF LineInv
  <2>6. PushInv'
    <3>1. pc = "mask_retry" => drained < DrainBound /\ drained' = drained + 1
      BY <1>3 DEF StartShifting, InWindow
    <3>2. pc = "mask_retry" =>
            /\ drained' <= DrainBound
            /\ Capacity - Held' + (IF tx_raised' THEN 1 ELSE 0) <= drained' + 1
      BY <1>1, <1>2, <2>1, <2>3, <3>1 DEF TxInv, PushInv
    <3> QED
      BY <1>1, <1>2, <3>2 DEF TxInv, PushInv
  <2> QED
    BY <2>4, <2>5, <2>6 DEF TxInv
<1>4. CASE ByteSent
  <2>1. /\ shifter # 0 /\ sent' = shifter /\ shifter' = 0
        /\ UNCHANGED <<holding, tx_raised, drained>>
    BY <1>4 DEF ByteSent
  <2>2. LastShifted' = LastShifted /\ LastPut' = LastPut
    BY <2>1 DEF LastShifted, LastPut
  <2>3. QueueInv'
    BY <1>1, <1>2, <2>2 DEF TxInv, QueueInv
  <2>4. LineInv'
    BY <1>2, <2>1, <2>2 DEF TxInv, LineInv
  <2>5. PushInv'
    BY <1>1, <1>2, <2>1 DEF TxInv, PushInv
  <2> QED
    BY <2>3, <2>4, <2>5 DEF TxInv
<1> QED
  BY <1>3, <1>4 DEF Transmitter

LEMMA TxStep ==
  ASSUME DrainsSlowly, TypeOK, MaskInv, TxInv, [Next]_vars
  PROVE  TxInv'
<1>1. CASE ByteArrives \/ UNCHANGED vars
  <2>1. UNCHANGED <<pc, locals, uart_tx, tx_queue, drained>>
    BY <1>1 DEF ByteArrives, vars
  <2>2. /\ Queued' = Queued /\ NotYetStarted' = NotYetStarted
        /\ UNCHANGED <<is_transmission_ongoing, byte_fitted_to_buffer, tx_ring_buffer,
                       holding, shifter, sent, tx_raised>>
    BY <2>1 DEF locals, uart_tx, tx_queue, Queued, Waiting, NotYetStarted
  <2>3. QueueInv' /\ LineInv' /\ Held' = Held
    BY <2>2, TxQuiet DEF TxInv
  <2>4. PushInv'
    BY <2>1, <2>2, <2>3 DEF TxInv, PushInv
  <2> QED
    BY <2>3, <2>4 DEF TxInv
<1> QED
  BY <1>1, TxInterrupt, TxTransmit, TxOtherCalls, TxShift DEF Next, Calls, Thread

LEMMA TxInvInvariant == ASSUME DrainsSlowly PROVE Spec => [](TypeOK /\ TxInv)
<1>1. Init => MaskInv /\ FlushInv /\ TxInv
  <2> SUFFICES ASSUME Init
               PROVE  MaskInv /\ FlushInv /\ TxInv
    OBVIOUS
  <2>1. MaskInv /\ FlushInv
    BY DEF Init, MaskInv, TxMasked, FlushInv
  <2>2. Held = 0 /\ Queued = 0 /\ LastPut = 0 /\ LastShifted = 0 /\ ~Started
    BY EmptyNumbered DEF Init, Held, Queued, Waiting, LastPut, LastShifted, Started
  <2>3. QueueInv
    BY <2>2, EmptyNumbered DEF Init, QueueInv
  <2>4. LineInv /\ PushInv
    BY <2>2 DEF Init, LineInv, PushInv, NotYetStarted
  <2> QED
    BY <2>1, <2>3, <2>4 DEF TxInv
<1>2. TypeOK /\ MaskInv /\ TxInv /\ [Next]_vars => TxInv'
  BY TxStep
<1> QED
  BY <1>1, <1>2, MaskStays, TypeCorrect, PTL DEF Spec

\* The bytes leave in the order they were handed to transmitByte, none lost and
\* none twice: transmitByte and the interrupt never both put a byte, never put
\* one over another, and never take one out that the UART was not given.  With
\* a line fast enough to empty the ring while transmitByte waits for a place in
\* it, what transmitByte remembers of the ring is stale and bytes are lost.
THEOREM BytesSentInOrder ==
  ASSUME DrainsSlowly
  PROVE  Spec => []SentInOrder
<1>1. TypeOK /\ TxInv => SentInOrder
  <2> SUFFICES ASSUME TypeOK, TxInv
               PROVE  SentInOrder
    OBVIOUS
  <2>1. LastPut <= transmitted
    BY TxTypes DEF TxInv, QueueInv, Started, Queued
  <2>2. sent <= LastPut
    BY TxTypes DEF TxInv, LineInv, LastPut, LastShifted
  <2> QED
    BY <2>1, <2>2, TxTypes DEF TxInv, LineInv, LastShifted, SentInOrder
<1> QED
  BY <1>1, TxInvInvariant, PTL

\* Outside the lines that mask it the TX interrupt is masked only over an empty
\* ring: the interrupt masks itself there, and flushTx returns there.
WakeInv == pc \notin TxMasked /\ ~IsEmpty(tx_ring_buffer) => irqs.tx

LEMMA WakeStays == FlushInv /\ WakeInv /\ [Next]_vars => WakeInv'
<1> SUFFICES ASSUME FlushInv, WakeInv, [Next]_vars
             PROVE  WakeInv'
  OBVIOUS
<1> USE DEF FlushInv, WakeInv, TxMasked, SetIrqs, Step, MaskStep,
            locals, uart_tx, uart_rx, tx_queue, rx_queue
<1>1. CASE CombinedISR
  BY <1>1 DEF CombinedISR, HandleTxInterrupt
<1>2. CASE Calls
  BY <1>2 DEF Calls, TransmitByte, FlushTx, TestAvailable, ReadBytes
<1>3. CASE TransmitSteps
  BY <1>3 DEF TransmitSteps, TestOngoing, Push, Unmask, MaskRetry, PushRetry, UnmaskRetry,
              MaskStart, StartTransmission, TransmitDone, PushByte
<1>4. CASE FlushSteps
  BY <1>4 DEF FlushSteps, FlushFirst, FlushUnmask, FlushRetest, FlushMask, FlushLast,
              FlushWait, FlushTest
<1>5. CASE ReadSteps
  BY <1>5 DEF ReadSteps, Available, ReadMask, ReadByte, ReadUnmask, BulkRead, BulkDone
<1>6. CASE Transmitter \/ ByteArrives
  BY <1>6 DEF Transmitter, StartShifting, ByteSent, ByteArrives
<1>7. CASE UNCHANGED vars
  BY <1>7 DEF vars
<1> QED
  BY <1>1, <1>2, <1>3, <1>4, <1>5, <1>6, <1>7 DEF Next, Thread

\* Wherever the thread leaves its bytes to the interrupt, in a full ring it waits
\* for, in flushTx or between two calls, the interrupt is unmasked and the UART
\* will raise it: what of "every byte is sent" and "every call returns" is safety,
\* for every ring.
THEOREM WakeUpsAreKept ==
  ASSUME DrainsSlowly
  PROVE  Spec => []NoWakeUpLost
<1>1. Init => MaskInv /\ FlushInv /\ WakeInv
  BY DEF Init, MaskInv, TxMasked, FlushInv, WakeInv
<1>2. TypeOK /\ TxInv /\ WakeInv => NoWakeUpLost
  <2> SUFFICES ASSUME TypeOK, TxInv, WakeInv, pc \in Resting, ~IsEmpty(tx_ring_buffer)
               PROVE  irqs.tx /\ (holding # 0 \/ tx_raised)
    BY DEF NoWakeUpLost
  <2>1. pc \notin TxMasked /\ ~NotYetStarted
    BY DEF Resting, TxMasked, NotYetStarted
  <2>2. Started
    BY <2>1, TxTypes DEF Started
  <2> QED
    BY <2>1, <2>2 DEF WakeInv, TxInv, LineInv
<1> QED
  BY <1>1, <1>2, MaskStays, WakeStays, TxInvInvariant, PTL DEF Spec

=============================================================================
