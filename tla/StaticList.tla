----------------------------- MODULE StaticList ------------------------------
(***************************************************************************)
(* utils::StaticList<T, N>: an array of N elements and a size.  The        *)
(* program keeps bytes in it (parameter ids, payloads), for which the      *)
(* destructor calls of the removing operations do nothing.                 *)
(*                                                                         *)
(* Positions count from 0 here, as in the code; Contents is the list as a  *)
(* sequence, the elements a range-based loop visits.                       *)
(***************************************************************************)
EXTENDS Integers, Sequences

StaticLists(T, N) == [data : [0..N - 1 -> T], size : 0..N, capacity : {N}]

\* data_ is not initialised: "garbage" stands for what the memory held.
emptyList(N, garbage) ==
  [data |-> [i \in 0..N - 1 |-> garbage], size |-> 0, capacity |-> N]

empty(list) == list.size = 0
full(list)  == list.size = list.capacity

\* What the operations assert before they touch the array.
HasRoom(list)            == list.size < list.capacity
HasElement(list)         == list.size > 0
IsPosition(list, index)  == index < list.size
FitsIn(init, N)          == Len(init) <= N

\* From a span or an initializer list.
listOf(init, N, garbage) ==
  [data     |-> [i \in 0..N - 1 |-> IF i < Len(init) THEN init[i + 1] ELSE garbage],
   size     |-> Len(init),
   capacity |-> N]

elementAt(list, index) == list.data[index]
front(list)            == list.data[0]
back(list)             == list.data[list.size - 1]

\* begin() to end().
Contents(list) == [i \in 1..list.size |-> list.data[i - 1]]

\* The list with other elements and another size.
Updated(list, data, size) == [data |-> data, size |-> size, capacity |-> list.capacity]

pushBack(list, value) ==
  Updated(list, [list.data EXCEPT ![list.size] = value], list.size + 1)

\* One pushBack after the other into a new list.
pushedBack(values, N, garbage) ==
  LET list[i \in 0..Len(values)] ==
        IF i = 0 THEN emptyList(N, garbage) ELSE pushBack(list[i - 1], values[i])
  IN  list[Len(values)]

\* The elements move up one position, the last one first.
OpenGap(list, value) ==
  [i \in DOMAIN list.data |-> IF i = 0 THEN value
                              ELSE IF i <= list.size THEN list.data[i - 1]
                              ELSE list.data[i]]

pushFront(list, value) == Updated(list, OpenGap(list, value), list.size + 1)

\* popBack returns back(list) and leaves this list.
popBack(list) == Updated(list, list.data, list.size - 1)

\* The elements behind a position move down one.
CloseGap(list, index) ==
  [i \in DOMAIN list.data |-> IF i \in index..list.size - 2 THEN list.data[i + 1]
                              ELSE list.data[i]]

\* popFront returns front(list) and leaves this list.
popFront(list) == Updated(list, CloseGap(list, 0), list.size - 1)

removeElement(list, index) ==
  Updated(list, CloseGap(list, index), list.size - 1)

\* Given a pointer: its distance from data_ is the position.
removeElementAt(list, pointer, data_) == removeElement(list, pointer - data_)

clear(list) == Updated(list, list.data, 0)

\* As pushBack, but nothing asserts that there is room: the element of a full
\* list lands behind the array.
OutsideTheArray == "outside the array"

emplaceBack(list, value) ==
  IF HasRoom(list) THEN pushBack(list, value) ELSE OutsideTheArray

=============================================================================
