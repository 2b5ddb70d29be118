----------------------------- MODULE RingBuffer ------------------------------
(***************************************************************************)
(* utils::RingBuffer: an array with a write index (head) and a read index  *)
(* (tail).  It is not interrupt safe by itself; UartDriver is what uses it *)
(* from a thread and an interrupt.                                         *)
(***************************************************************************)
EXTENDS Integers, Sequences

CONSTANTS
  RingSize,     \* template argument size
  SizeLimit     \* SIZE_MAX + 1: size_t arithmetic is modulo this

ASSUME RingAssumption ==
  /\ RingSize \in Nat /\ RingSize > 1
  /\ SizeLimit \in Nat /\ SizeLimit > RingSize

Slot     == 0..RingSize - 1
Capacity == RingSize - 1

Rings == [buffer : [Slot -> Nat], head : Slot, tail : Slot]
EmptyRing == [buffer |-> [s \in Slot |-> 0], head |-> 0, tail |-> 0]

\* Mutation: the wrap at the end forgotten.
AfterUnwrapped(index) == index + 1

\* Both indices wrap around at the end.
After(index) == IF index + 1 = RingSize THEN 0 ELSE index + 1

IsEmpty(ring) == ring.tail = ring.head
IsFull(ring)  == After(ring.head) = ring.tail

Peek(ring)   == IF IsEmpty(ring) THEN 0 ELSE ring.buffer[ring.tail]
\* pop returns Peek and leaves this ring.
Popped(ring) == IF IsEmpty(ring) THEN ring ELSE [ring EXCEPT !.tail = After(@)]

\* push returns ~IsFull and leaves this ring.
Pushed(ring, item) ==
  IF IsFull(ring) THEN ring
  ELSE [buffer |-> [ring.buffer EXCEPT ![ring.head] = item],
        head |-> After(ring.head), tail |-> ring.tail]

\* Mutation: the comparison strict, so that an empty ring counts as a full one.
AvailableIfNotBehind(head_ahead, ring) ==
  IF head_ahead /\ ring.head # ring.tail THEN (ring.head - ring.tail) % SizeLimit
  ELSE RingSize - ring.tail + ring.head

\* bytesAvailable reads head_ twice: first to see which side of tail_ it is on,
\* then to subtract.
AvailableAfterTest(head_ahead, ring) ==
  IF head_ahead THEN (ring.head - ring.tail) % SizeLimit
  ELSE RingSize - ring.tail + ring.head

BytesAvailable(ring) == AvailableAfterTest(ring.head >= ring.tail, ring)

-----------------------------------------------------------------------------
\* The ring as a queue, oldest element first.
At(ring, i) ==
  LET index == ring.tail + i - 1 IN
  ring.buffer[IF index < RingSize THEN index ELSE index - RingSize]

Contents(ring) == [i \in 1..BytesAvailable(ring) |-> At(ring, i)]

=============================================================================
