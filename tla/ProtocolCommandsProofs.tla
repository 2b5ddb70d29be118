----------------------- MODULE ProtocolCommandsProofs ------------------------
(***************************************************************************)
(* Proofs about the list that the parameter tables are kept in, for every  *)
(* element type and capacity, about numbers and their bytes, and about the *)
(* parameter commands, for every database of distinct ids and every        *)
(* memory: that requests and metadata survive the way over the line, what  *)
(* a request can change, and that a read returns what was written.         *)
(***************************************************************************)
EXTENDS ProtocolCommands, SequenceTheorems, WellFoundedInduction, TLAPS

-----------------------------------------------------------------------------
(* Induction and recursion over the naturals, by the least counterexample. *)

\* A set of naturals that is not empty has a least element.
LEMMA LeastNatural ==
  ASSUME NEW T, T \subseteq Nat, T # {}
  PROVE  \E n \in T : \A m \in T : n <= m
<1>1. PICK n \in T : \A m \in T : ~(<<m, n>> \in OpToRel(<, Nat))
  BY WFMin, NatLessThanWellFounded
<1>2. \A m \in T : ~(m < n)
  BY <1>1 DEF OpToRel
<1> QED
  BY <1>2

\* The first n + 1 values of an iteration of F.
Iterated(S, base, F, n) ==
  {g \in [0..n -> S] : g[0] = base /\ \A k \in 0..n - 1 : g[k + 1] = F[<<k, g[k]>>]}

LEMMA OneMoreIterated ==
  ASSUME NEW S, NEW base \in S, NEW F \in [Nat \X S -> S], NEW n \in Nat
  PROVE  /\ Iterated(S, base, F, 0) # {}
         /\ Iterated(S, base, F, n) # {} => Iterated(S, base, F, n + 1) # {}
<1>1. [k \in 0..0 |-> base] \in Iterated(S, base, F, 0)
  BY DEF Iterated
<1>2. ASSUME NEW g \in Iterated(S, base, F, n)
      PROVE  Iterated(S, base, F, n + 1) # {}
  <2> DEFINE h == [k \in 0..n + 1 |-> IF k = n + 1 THEN F[<<n, g[n]>>] ELSE g[k]]
  <2>1. g \in [0..n -> S] /\ g[0] = base /\ \A k \in 0..n - 1 : g[k + 1] = F[<<k, g[k]>>]
    BY DEF Iterated
  <2>2. F[<<n, g[n]>>] \in S
    BY <2>1
  <2>3. h \in [0..n + 1 -> S] /\ h[0] = base
    BY <2>1, <2>2
  <2>4. ASSUME NEW k \in 0..n PROVE h[k + 1] = F[<<k, h[k]>>]
    <3>1. h[k] = g[k]
      BY <2>4
    <3>2. CASE k = n
      <4>1. n + 1 \in 0..n + 1
        OBVIOUS
      <4>2. h[n + 1] = F[<<n, g[n]>>]
        BY <4>1
      <4> QED
        BY <4>2, <3>1, <3>2
    <3>3. CASE k # n
      <4>1. k \in 0..n - 1 /\ h[k + 1] = g[k + 1]
        BY <3>3, <2>4
      <4> QED
        BY <4>1, <3>1, <2>1
    <3> QED
      BY <3>2, <3>3
  <2> HIDE DEF h
  <2>5. \A k \in 0..(n + 1) - 1 : h[k + 1] = F[<<k, h[k]>>]
    BY <2>4
  <2> QED
    BY <2>3, <2>5 DEF Iterated
<1> QED
  BY <1>1, <1>2

\* Two of them agree as far as both go.
LEMMA IteratedAgree ==
  ASSUME NEW S, NEW base \in S, NEW F \in [Nat \X S -> S], NEW n \in Nat, NEW m \in Nat,
         NEW g \in Iterated(S, base, F, n), NEW h \in Iterated(S, base, F, m),
         NEW k \in Nat, k <= n, k <= m
  PROVE  g[k] = h[k]
<1> DEFINE T == {j \in Nat : j <= n /\ j <= m /\ g[j] # h[j]}
<1> SUFFICES ASSUME T # {} PROVE FALSE
  OBVIOUS
<1>1. PICK j \in T : \A i \in T : j <= i
  BY LeastNatural, T \subseteq Nat
<1>2. /\ g[0] = base /\ \A i \in 0..n - 1 : g[i + 1] = F[<<i, g[i]>>]
      /\ h[0] = base /\ \A i \in 0..m - 1 : h[i + 1] = F[<<i, h[i]>>]
  BY DEF Iterated
<1>3. j # 0
  BY <1>2
<1>4. j - 1 \in Nat /\ j - 1 \notin T
  BY <1>1, <1>3
<1>5. g[j - 1] = h[j - 1]
  BY <1>4
<1>6. j - 1 \in 0..n - 1 /\ j - 1 \in 0..m - 1 /\ (j - 1) + 1 = j
  BY <1>3
<1> QED
  BY <1>2, <1>5, <1>6

\* There is the function that the recursion by F from base defines.
Iterates(g, S, base, F) ==
  /\ g \in [Nat -> S]
  /\ g[0] = base /\ \A k \in Nat : g[k + 1] = F[<<k, g[k]>>]

LEMMA IterationExists ==
  ASSUME NEW S, NEW base \in S, NEW F \in [Nat \X S -> S]
  PROVE  \E g : Iterates(g, S, base, F)
<1> DEFINE Upto(n) == Iterated(S, base, F, n)
           T == {n \in Nat : Upto(n) = {}}
           g == [n \in Nat |-> (CHOOSE h \in Upto(n) : TRUE)[n]]
<1>1. T = {}
  <2> SUFFICES ASSUME T # {} PROVE FALSE
    OBVIOUS
  <2>1. PICK n \in T : \A m \in T : n <= m
    BY LeastNatural, T \subseteq Nat
  <2>2. n # 0
    BY OneMoreIterated
  <2>3. n - 1 \in Nat /\ n - 1 \notin T
    BY <2>1, <2>2
  <2>4. (n - 1) + 1 = n
    OBVIOUS
  <2> HIDE DEF Upto
  <2>5. Upto(n - 1) # {} => Upto((n - 1) + 1) # {}
    BY <2>3, OneMoreIterated DEF Upto
  <2> QED
    BY <2>3, <2>4, <2>5
<1> DEFINE At(n) == CHOOSE h \in Upto(n) : TRUE
<1>2. \A n \in Nat : At(n) \in Upto(n)
  BY <1>1
<1>3. \A n \in Nat : /\ At(n) \in [0..n -> S] /\ At(n)[0] = base
                     /\ \A k \in 0..n - 1 : At(n)[k + 1] = F[<<k, At(n)[k]>>]
  BY <1>2 DEF Iterated
<1>4. \A n \in Nat : g[n] = At(n)[n]
  OBVIOUS
<1>5. g \in [Nat -> S]
  BY <1>3
<1>6. g[0] = base
  BY <1>3, <1>4
<1> HIDE DEF At, Upto, g
<1>7. ASSUME NEW k \in Nat PROVE g[k + 1] = F[<<k, g[k]>>]
  <2>1. k + 1 \in Nat /\ k \in 0..(k + 1) - 1
    OBVIOUS
  <2>2. g[k + 1] = F[<<k, At(k + 1)[k]>>]
    BY <1>3, <1>4, <2>1
  <2>3. At(k) \in Iterated(S, base, F, k) /\ At(k + 1) \in Iterated(S, base, F, k + 1)
    BY <1>2, <2>1 DEF Upto
  <2>4. At(k + 1)[k] = At(k)[k]
    BY <2>3, <2>1, IteratedAgree
  <2> QED
    BY <2>2, <2>4, <1>4
<1> QED
  BY <1>5, <1>6, <1>7 DEF Iterates

-----------------------------------------------------------------------------
(* Lists: each operation of StaticList, called as its assertion demands,   *)
(* keeps the list well formed and does to its contents what its name says  *)
(* of a sequence.                                                          *)

LEMMA ListFacts ==
  ASSUME NEW T, NEW N \in Nat, NEW list \in StaticLists(T, N)
  PROVE  /\ list = [data |-> list.data, size |-> list.size, capacity |-> list.capacity]
         /\ list.data \in [0..N - 1 -> T] /\ list.size \in 0..N /\ list.capacity = N
         /\ Contents(list) \in Seq(T) /\ Len(Contents(list)) = list.size
         /\ \A i \in 1..list.size : Contents(list)[i] = list.data[i - 1]
<1>1. /\ list.data \in [0..N - 1 -> T] /\ list.size \in 0..N /\ list.capacity = N
      /\ list = [data |-> list.data, size |-> list.size, capacity |-> list.capacity]
  BY DEF StaticLists
<1>2. \A i \in 1..list.size : list.data[i - 1] \in T
  BY <1>1
<1>3. Contents(list) \in [1..list.size -> T]
  BY <1>1, <1>2 DEF Contents
<1> QED
  BY <1>1, <1>3, list.size \in Nat DEF Contents

\* Two lists with equal sizes and equal elements have the same contents.
LEMMA SameContents ==
  ASSUME NEW T, NEW s \in Seq(T), NEW t \in Seq(T), Len(s) = Len(t),
         \A i \in 1..Len(s) : s[i] = t[i]
  PROVE  s = t
BY SeqEqual

\* A new list is empty, whatever its memory held.
THEOREM EmptyListIsEmpty ==
  ASSUME NEW T, NEW N \in Nat, NEW garbage \in T
  PROVE  /\ emptyList(N, garbage) \in StaticLists(T, N)
         /\ Contents(emptyList(N, garbage)) = << >>
<1>1. emptyList(N, garbage) \in StaticLists(T, N)
  BY DEF emptyList, StaticLists
<1>2. Len(Contents(emptyList(N, garbage))) = 0 /\ Contents(emptyList(N, garbage)) \in Seq(T)
  BY <1>1, ListFacts DEF emptyList
<1> QED
  BY <1>1, <1>2, EmptySeq

\* A list made from a span that fits holds exactly the span.
THEOREM ListOfHoldsItsInit ==
  ASSUME NEW T, NEW N \in Nat, NEW garbage \in T, NEW init \in Seq(T), FitsIn(init, N)
  PROVE  /\ listOf(init, N, garbage) \in StaticLists(T, N)
         /\ Contents(listOf(init, N, garbage)) = init
<1> DEFINE list == listOf(init, N, garbage)
<1>1. Len(init) \in 0..N /\ \A i \in 1..Len(init) : init[i] \in T
  BY DEF FitsIn
<1>2. \A i \in 0..N - 1 : i < Len(init) => init[i + 1] \in T
  BY <1>1
<1>3. list \in StaticLists(T, N)
  BY <1>1, <1>2 DEF listOf, StaticLists
<1>4. Len(Contents(list)) = Len(init) /\ Contents(list) \in Seq(T)
  BY <1>3, ListFacts DEF listOf
<1>5. ASSUME NEW i \in 1..Len(init)
      PROVE  Contents(list)[i] = init[i]
  <2>1. Contents(list)[i] = list.data[i - 1] /\ i - 1 \in 0..N - 1
    BY <1>1, <1>3, ListFacts DEF listOf
  <2>2. i - 1 < Len(init) /\ (i - 1) + 1 = i
    OBVIOUS
  <2> QED
    BY <2>1, <2>2 DEF listOf
<1> QED
  BY <1>3, <1>4, <1>5, SameContents

\* front, back and [] read the first, the last and the asked element.
THEOREM ElementAccess ==
  ASSUME NEW T, NEW N \in Nat, NEW list \in StaticLists(T, N), HasElement(list)
  PROVE  /\ front(list) = Contents(list)[1]
         /\ back(list) = Contents(list)[Len(Contents(list))]
         /\ \A index \in Nat :
              IsPosition(list, index) => elementAt(list, index) = Contents(list)[index + 1]
<1>1. list.size \in Nat /\ list.size > 0
  BY ListFacts DEF HasElement
<1>2. /\ Len(Contents(list)) = list.size
      /\ \A i \in 1..list.size : Contents(list)[i] = list.data[i - 1]
  BY ListFacts
<1>3. ASSUME NEW index \in Nat, index < list.size
      PROVE  list.data[index] = Contents(list)[index + 1]
  <2>1. index + 1 \in 1..list.size /\ (index + 1) - 1 = index
    BY <1>1, <1>3
  <2> QED
    BY <2>1, <1>2
<1>4. list.data[0] = Contents(list)[1]
  BY <1>1, <1>3
<1>5. list.data[list.size - 1] = Contents(list)[list.size]
  BY <1>1, <1>2
<1> QED
  BY <1>2, <1>3, <1>4, <1>5 DEF front, back, elementAt, IsPosition

\* pushBack appends; when there is room emplaceBack does the same.
THEOREM PushBackAppends ==
  ASSUME NEW T, NEW N \in Nat, NEW list \in StaticLists(T, N), NEW value \in T,
         HasRoom(list)
  PROVE  /\ pushBack(list, value) \in StaticLists(T, N)
         /\ Contents(pushBack(list, value)) = Append(Contents(list), value)
         /\ emplaceBack(list, value) = pushBack(list, value)
<1> DEFINE new == pushBack(list, value)
<1>1. /\ list.data \in [0..N - 1 -> T] /\ list.size \in Nat /\ list.size < N
      /\ list.capacity = N
  BY ListFacts DEF HasRoom
<1>2. /\ new.data = [list.data EXCEPT ![list.size] = value]
      /\ new.size = list.size + 1 /\ new.capacity = N
      /\ new = [data |-> new.data, size |-> new.size, capacity |-> new.capacity]
  BY <1>1 DEF pushBack, Updated
<1>3. new.data \in [0..N - 1 -> T]
  BY <1>1, <1>2
<1>4. new \in StaticLists(T, N)
  BY <1>1, <1>2, <1>3 DEF StaticLists
<1>5. /\ Len(Contents(new)) = Len(Append(Contents(list), value))
      /\ Contents(new) \in Seq(T) /\ Append(Contents(list), value) \in Seq(T)
  BY <1>1, <1>2, <1>4, ListFacts, AppendProperties
<1>6. \A i \in 1..list.size + 1 : Contents(new)[i] = Append(Contents(list), value)[i]
  <2> SUFFICES ASSUME NEW i \in 1..list.size + 1
               PROVE  Contents(new)[i] = Append(Contents(list), value)[i]
    OBVIOUS
  <2>1. Contents(new)[i] = new.data[i - 1] /\ i - 1 \in 0..N - 1
    BY <1>1, <1>2, <1>4, ListFacts
  <2>2. CASE i = list.size + 1
    BY <2>1, <2>2, <1>1, <1>2, ListFacts, AppendProperties
  <2>3. CASE i # list.size + 1
    <3>1. i \in 1..list.size /\ i - 1 # list.size
      BY <2>3, <1>1
    <3> QED
      BY <2>1, <3>1, <1>1, <1>2, ListFacts, AppendProperties
  <2> QED
    BY <2>2, <2>3
<1>7. Contents(new) = Append(Contents(list), value)
  BY <1>1, <1>2, <1>4, <1>5, <1>6, ListFacts, SameContents
<1> QED
  BY <1>4, <1>7 DEF emplaceBack

\* pushFront puts the value before all the elements.
THEOREM PushFrontPrepends ==
  ASSUME NEW T, NEW N \in Nat, NEW list \in StaticLists(T, N), NEW value \in T,
         HasRoom(list)
  PROVE  /\ pushFront(list, value) \in StaticLists(T, N)
         /\ Contents(pushFront(list, value)) = <<value>> \o Contents(list)
<1> DEFINE new == pushFront(list, value)
           s   == <<value>> \o Contents(list)
<1>1. /\ list.data \in [0..N - 1 -> T] /\ list.size \in Nat /\ list.size < N
      /\ list.capacity = N
  BY ListFacts DEF HasRoom
<1>2. /\ new.data = [i \in 0..N - 1 |-> IF i = 0 THEN value
                                        ELSE IF i <= list.size THEN list.data[i - 1]
                                        ELSE list.data[i]]
      /\ new.size = list.size + 1 /\ new.capacity = N
      /\ new = [data |-> new.data, size |-> new.size, capacity |-> new.capacity]
  <2>1. new = [data |-> OpenGap(list, value), size |-> list.size + 1, capacity |-> N]
    BY <1>1 DEF pushFront, Updated
  <2>2. DOMAIN list.data = 0..N - 1
    BY <1>1
  <2> QED
    BY <2>1, <2>2 DEF OpenGap
<1>3. new.data \in [0..N - 1 -> T]
  BY <1>1, <1>2
<1>4. new \in StaticLists(T, N)
  BY <1>1, <1>2, <1>3 DEF StaticLists
<1>5. s \in Seq(T) /\ Len(s) = list.size + 1 /\ s[1] = value
      /\ \A i \in 2..list.size + 1 : s[i] = Contents(list)[i - 1]
  <2>1. <<value>> \in Seq(T) /\ Len(<<value>>) = 1 /\ <<value>>[1] = value
    OBVIOUS
  <2>2. Contents(list) \in Seq(T) /\ Len(Contents(list)) = list.size
    BY ListFacts
  <2> QED
    BY <2>1, <2>2, <1>1, ConcatProperties
<1>6. \A i \in 1..list.size + 1 : Contents(new)[i] = s[i]
  <2> SUFFICES ASSUME NEW i \in 1..list.size + 1
               PROVE  Contents(new)[i] = s[i]
    OBVIOUS
  <2>1. Contents(new)[i] = new.data[i - 1] /\ i - 1 \in 0..N - 1
    BY <1>1, <1>2, <1>4, ListFacts
  <2>2. CASE i = 1
    BY <2>1, <2>2, <1>2, <1>5
  <2>3. CASE i # 1
    <3>1. i - 1 \in 1..list.size /\ i \in 2..list.size + 1
      BY <2>3, <1>1
    <3>2. new.data[i - 1] = list.data[(i - 1) - 1]
      BY <2>1, <3>1, <1>1, <1>2
    <3> QED
      BY <2>1, <3>1, <3>2, <1>5, ListFacts
  <2> QED
    BY <2>2, <2>3
<1>7. Contents(new) \in Seq(T) /\ Len(Contents(new)) = list.size + 1
  BY <1>2, <1>4, ListFacts
<1>8. Contents(new) = s
  BY <1>5, <1>6, <1>7, SameContents
<1> QED
  BY <1>4, <1>8

\* popBack drops the last element.
THEOREM PopBackDropsLast ==
  ASSUME NEW T, NEW N \in Nat, NEW list \in StaticLists(T, N), HasElement(list)
  PROVE  /\ popBack(list) \in StaticLists(T, N)
         /\ Contents(list) = Append(Contents(popBack(list)), back(list))
<1> DEFINE new == popBack(list)
<1>1. /\ list.data \in [0..N - 1 -> T] /\ list.size \in Nat /\ list.size > 0
      /\ list.size <= N /\ list.capacity = N
  BY ListFacts DEF HasElement
<1>2. new = [data |-> list.data, size |-> list.size - 1, capacity |-> N]
  BY <1>1 DEF popBack, Updated
<1>3. new \in StaticLists(T, N)
  BY <1>1, <1>2 DEF StaticLists
<1>4. /\ Contents(new) \in Seq(T) /\ Len(Contents(new)) = list.size - 1
      /\ \A i \in 1..list.size - 1 : Contents(new)[i] = list.data[i - 1]
  BY <1>2, <1>3, ListFacts
<1>5. back(list) \in T /\ back(list) = list.data[list.size - 1]
  BY <1>1 DEF back
<1>6. /\ Append(Contents(new), back(list)) \in Seq(T)
      /\ Len(Append(Contents(new), back(list))) = list.size
      /\ \A i \in 1..list.size :
           Append(Contents(new), back(list))[i] = list.data[i - 1]
  BY <1>1, <1>4, <1>5, AppendProperties
<1>7. Contents(list) = Append(Contents(new), back(list))
  BY <1>6, ListFacts, SameContents
<1> QED
  BY <1>3, <1>7

\* removeElement takes out the element at the position and keeps the others
\* in their order; popFront is the case of position 0.
THEOREM RemoveElementTakesOut ==
  ASSUME NEW T, NEW N \in Nat, NEW list \in StaticLists(T, N),
         NEW index \in Nat, IsPosition(list, index)
  PROVE  /\ removeElement(list, index) \in StaticLists(T, N)
         /\ Len(Contents(removeElement(list, index))) = Len(Contents(list)) - 1
         /\ \A i \in 1..Len(Contents(list)) - 1 :
              Contents(removeElement(list, index))[i]
                = Contents(list)[IF i <= index THEN i ELSE i + 1]
         /\ popFront(list) = removeElement(list, 0)
<1> DEFINE new == removeElement(list, index)
<1>1. /\ list.data \in [0..N - 1 -> T] /\ list.size \in Nat /\ list.size <= N
      /\ index < list.size /\ list.capacity = N
  BY ListFacts DEF IsPosition
<1>2. /\ new.data = CloseGap(list, index) /\ new.size = list.size - 1
      /\ new = [data |-> CloseGap(list, index), size |-> list.size - 1, capacity |-> N]
  BY <1>1 DEF removeElement, Updated
<1>3. DOMAIN list.data = 0..N - 1
  BY <1>1
<1>4. /\ CloseGap(list, index) \in [0..N - 1 -> T]
      /\ \A j \in 0..N - 1 :
           CloseGap(list, index)[j] = IF j \in index..list.size - 2 THEN list.data[j + 1]
                                      ELSE list.data[j]
  BY <1>1, <1>3 DEF CloseGap
<1>5. new \in StaticLists(T, N)
  BY <1>1, <1>2, <1>4 DEF StaticLists
<1>6. /\ Len(Contents(new)) = list.size - 1 /\ Len(Contents(list)) = list.size
      /\ \A i \in 1..list.size - 1 : Contents(new)[i] = CloseGap(list, index)[i - 1]
      /\ \A i \in 1..list.size : Contents(list)[i] = list.data[i - 1]
  BY <1>2, <1>5, ListFacts
<1>7. ASSUME NEW i \in 1..list.size - 1
      PROVE  Contents(new)[i] = Contents(list)[IF i <= index THEN i ELSE i + 1]
  <2>1. CASE i <= index
    <3>1. i - 1 \notin index..list.size - 2 /\ i - 1 \in 0..N - 1 /\ i \in 1..list.size
      BY <2>1, <1>1
    <3>2. Contents(new)[i] = list.data[i - 1]
      BY <3>1, <1>4, <1>6
    <3>3. Contents(list)[i] = list.data[i - 1]
      BY <3>1, <1>6
    <3> QED
      BY <2>1, <3>2, <3>3
  <2>2. CASE ~(i <= index)
    <3>1. i - 1 \in index..list.size - 2 /\ (i - 1) + 1 = i /\ (i + 1) - 1 = i
          /\ i - 1 \in 0..N - 1 /\ i + 1 \in 1..list.size
      BY <2>2, <1>1
    <3>2. Contents(new)[i] = list.data[i]
      BY <3>1, <1>4, <1>6
    <3>3. Contents(list)[i + 1] = list.data[i]
      BY <3>1, <1>6
    <3> QED
      BY <2>2, <3>2, <3>3
  <2> QED
    BY <2>1, <2>2
<1>8. popFront(list) = removeElement(list, 0)
  BY DEF popFront, removeElement
<1> QED
  BY <1>5, <1>6, <1>7, <1>8

\* removeElement given a pointer to an element takes out that element.
THEOREM RemoveByPointer ==
  ASSUME NEW T, NEW N \in Nat, NEW list \in StaticLists(T, N),
         NEW data_ \in Nat, NEW index \in Nat
  PROVE  removeElementAt(list, data_ + index, data_) = removeElement(list, index)
<1>1. (data_ + index) - data_ = index
  OBVIOUS
<1> QED
  BY <1>1 DEF removeElementAt

\* clear leaves no element.
THEOREM ClearEmpties ==
  ASSUME NEW T, NEW N \in Nat, NEW list \in StaticLists(T, N)
  PROVE  clear(list) \in StaticLists(T, N) /\ Contents(clear(list)) = << >>
<1>1. clear(list) = [data |-> list.data, size |-> 0, capacity |-> N]
  BY ListFacts DEF clear, Updated
<1>2. clear(list) \in StaticLists(T, N)
  BY <1>1, ListFacts DEF StaticLists
<1>3. Contents(clear(list)) \in Seq(T) /\ Len(Contents(clear(list))) = 0
  BY <1>1, <1>2, ListFacts
<1> QED
  BY <1>2, <1>3, EmptySeq

\* One more element of a span goes to the end of the list made of those before it.
LEMMA OneMoreElement ==
  ASSUME NEW T, NEW N \in Nat, NEW garbage \in T, NEW values \in Seq(T),
         NEW k \in 1..Len(values), FitsIn(values, N)
  PROVE  listOf(SubSeq(values, 1, k), N, garbage)
           = pushBack(listOf(SubSeq(values, 1, k - 1), N, garbage), values[k])
<1> DEFINE s == SubSeq(values, 1, k - 1)
           t == SubSeq(values, 1, k)
           Filled(u, i) == IF i < Len(u) THEN u[i + 1] ELSE garbage
           D(u) == [i \in 0..N - 1 |-> Filled(u, i)]
<1>1. /\ Len(values) \in Nat /\ Len(values) <= N
      /\ Len(s) = k - 1 /\ Len(t) = k
      /\ \A i \in 1..k - 1 : s[i] = values[i]
      /\ \A i \in 1..k : t[i] = values[i]
  BY DEF FitsIn
<1>2. /\ listOf(s, N, garbage) = [data |-> D(s), size |-> k - 1, capacity |-> N]
      /\ listOf(t, N, garbage) = [data |-> D(t), size |-> k, capacity |-> N]
  BY <1>1 DEF listOf
<1> HIDE DEF s, t
<1>3. D(t) = [D(s) EXCEPT ![k - 1] = values[k]]
  <2>1. ASSUME NEW i \in 0..N - 1
        PROVE  Filled(t, i) = IF i = k - 1 THEN values[k] ELSE Filled(s, i)
    <3>1. CASE i = k - 1
      BY <1>1, <3>1
    <3>2. CASE i < k - 1
      BY <1>1, <3>2
    <3>3. CASE i > k - 1
      BY <1>1, <3>3
    <3> QED
      BY <3>1, <3>2, <3>3
  <2> HIDE DEF Filled
  <2> QED
    BY <2>1
<1> HIDE DEF D
<1>4. pushBack(listOf(s, N, garbage), values[k])
        = [data |-> [D(s) EXCEPT ![k - 1] = values[k]], size |-> (k - 1) + 1, capacity |-> N]
  BY <1>2 DEF pushBack, Updated
<1>5. (k - 1) + 1 = k
  OBVIOUS
<1>6. listOf(t, N, garbage) = pushBack(listOf(s, N, garbage), values[k])
  BY <1>2, <1>3, <1>4, <1>5
<1> QED
  BY <1>6 DEF s, t

\* Pushing the elements of a span that fits into a new list, one after the other,
\* gives the list made of the span.
THEOREM PushedBackIsListOf ==
  ASSUME NEW T, NEW N \in Nat, NEW garbage \in T, NEW values \in Seq(T), FitsIn(values, N)
  PROVE  pushedBack(values, N, garbage) = listOf(values, N, garbage)
<1> DEFINE L == Len(values)
           Made(k) == listOf(SubSeq(values, 1, k), N, garbage)
           Defines(f) == f = [k \in 0..L |-> IF k = 0 THEN emptyList(N, garbage)
                                             ELSE pushBack(f[k - 1], values[k])]
           f == CHOOSE f : Defines(f)
           g == [k \in 0..L |-> Made(k)]
<1>1. L \in Nat
  OBVIOUS
<1>2. Made(0) = emptyList(N, garbage)
  <2>1. Len(SubSeq(values, 1, 0)) = 0
    OBVIOUS
  <2> HIDE DEF L
  <2>2. \A i \in 0..N - 1 : ~(i < 0)
    OBVIOUS
  <2> QED
    BY <2>1, <2>2 DEF listOf, emptyList
<1>3. Made(L) = listOf(values, N, garbage)
  <2>1. SubSeq(values, 1, Len(values)) = values
    BY SeqEqual
  <2> QED
    BY <2>1
<1>4. \A k \in 1..L : Made(k) = pushBack(Made(k - 1), values[k])
  BY OneMoreElement
<1>5. pushedBack(values, N, garbage) = f[L]
  BY DEF pushedBack
<1> HIDE DEF Made, L
<1>6. Defines(g)
  <2>1. ASSUME NEW k \in 0..L
        PROVE  g[k] = IF k = 0 THEN emptyList(N, garbage) ELSE pushBack(g[k - 1], values[k])
    <3>1. CASE k = 0
      BY <1>2, <3>1
    <3>2. CASE k # 0
      <4>1. k \in 1..L /\ k - 1 \in 0..L
        BY <3>2, <1>1
      <4> QED
        BY <4>1, <3>2, <1>4
    <3> QED
      BY <3>1, <3>2
  <2> QED
    BY <2>1
<1>7. Defines(f)
  BY <1>6
<1> HIDE DEF f
<1>8. \A k \in 0..L : f[k] = IF k = 0 THEN emptyList(N, garbage)
                            ELSE pushBack(f[k - 1], values[k])
  BY <1>7
<1> HIDE DEF Defines, g
<1>9. f[L] = Made(L)
  <2> DEFINE U == {j \in Nat : j <= L /\ f[j] # Made(j)}
  <2> SUFFICES ASSUME U # {} PROVE FALSE
    BY <1>1
  <2>1. PICK j \in U : \A i \in U : j <= i
    BY LeastNatural, U \subseteq Nat
  <2>2. j # 0
    BY <1>1, <1>2, <1>8
  <2>3. j \in 1..L /\ j \in 0..L /\ j - 1 \in Nat /\ j - 1 <= L
    BY <2>1, <2>2, <1>1
  <2>4. j - 1 \notin U
    BY <2>1, <2>3
  <2>5. f[j - 1] = Made(j - 1)
    BY <2>3, <2>4
  <2>6. f[j] = Made(j)
    BY <2>2, <2>3, <2>5, <1>4, <1>8
  <2> QED
    BY <2>1, <2>6
<1> QED
  BY <1>3, <1>5, <1>9

-----------------------------------------------------------------------------
(* Numbers and their bytes.                                                *)

LEMMA SizesAreNatural ==
  ASSUME NEW type \in ParameterValueType
  PROVE  SizeOf(type) \in {0, 1, 2, 4, 8}
BY SMTT(30) DEF SizeOf, ParameterValueType, uint8, uint16, uint32, uint64, int8, int16,
   int32, int64, floating_point, double_float, boolean, none

LEMMA BytesAreIntegers ==
  ASSUME NEW bytes \in Seq(Byte)
  PROVE  bytes \in Seq(Int)
<1>1. Byte \subseteq Int
  BY DEF Byte
<1> QED
  BY <1>1, SeqMonotonic

\* A byte is a digit to this base.
Base == UINT8_MAX + 1

LEMMA BaseIsPositive == Base \in Nat \ {0} /\ Byte = 0..Base - 1
  BY ByteAssumption DEF Base, Byte

LEMMA DivisionIsWhole ==
  ASSUME NEW x \in Int, NEW b \in Nat \ {0}
  PROVE  x \div b \in Int /\ x % b \in 0..b - 1
OBVIOUS

\* What ShiftRight computes: a division more for each byte.
LEMMA ShiftSteps ==
  ASSUME NEW n \in Int
  PROVE  /\ ShiftRight(n, 0) = n
         /\ \A i \in Nat : /\ ShiftRight(n, i) \in Int
                           /\ ShiftRight(n, i + 1) = ShiftRight(n, i) \div Base
<1> DEFINE F == [p \in Nat \X Int |-> p[2] \div Base]
           Defines(f) == f = [k \in Nat |-> IF k = 0 THEN n ELSE f[k - 1] \div (UINT8_MAX + 1)]
           f == CHOOSE f : Defines(f)
<1>1. F \in [Nat \X Int -> Int]
  BY BaseIsPositive
<1>2. \A k \in Nat, x \in Int : F[<<k, x>>] = x \div Base
  OBVIOUS
<1> HIDE DEF F
<1>3. PICK g \in [Nat -> Int] : g[0] = n /\ \A k \in Nat : g[k + 1] = F[<<k, g[k]>>]
  <2>1. \E g : Iterates(g, Int, n, F)
    BY <1>1, IterationExists
  <2> QED
    BY <2>1 DEF Iterates
<1>4. \A k \in Nat : g[k + 1] = g[k] \div Base
  BY <1>2, <1>3
<1>5. Defines(g)
  <2>1. ASSUME NEW k \in Nat
        PROVE  g[k] = IF k = 0 THEN n ELSE g[k - 1] \div Base
    <3>1. CASE k = 0
      BY <1>3, <3>1
    <3>2. CASE k # 0
      <4>1. k - 1 \in Nat /\ (k - 1) + 1 = k
        BY <3>2
      <4> QED
        BY <4>1, <3>2, <1>4
    <3> QED
      BY <3>1, <3>2
  <2> QED
    BY <2>1, <1>3 DEF Base
<1>6. Defines(f)
  BY <1>5
<1>7. \A i : ShiftRight(n, i) = f[i]
  BY DEF ShiftRight
<1> HIDE DEF f
<1>8. \A k \in Nat : f[k] = IF k = 0 THEN n ELSE f[k - 1] \div Base
  BY <1>6 DEF Base
<1> HIDE DEF Defines
<1>9. f[0] = n
  BY <1>8
<1>10. \A k \in Nat : f[k + 1] = f[k] \div Base
  <2>1. TAKE k \in Nat
  <2>2. k + 1 \in Nat /\ k + 1 # 0 /\ (k + 1) - 1 = k
    OBVIOUS
  <2> QED
    BY <2>2, <1>8
<1>11. ASSUME NEW k \in Nat PROVE f[k] \in Int
  <2> DEFINE T == {j \in Nat : f[j] \notin Int}
  <2> SUFFICES ASSUME T # {} PROVE FALSE
    OBVIOUS
  <2>1. PICK j \in T : \A i \in T : j <= i
    BY LeastNatural, T \subseteq Nat
  <2>2. j # 0
    BY <1>9
  <2>3. j - 1 \in Nat /\ j - 1 \notin T /\ (j - 1) + 1 = j
    BY <2>1, <2>2
  <2>4. f[j - 1] \in Int /\ f[j] = f[j - 1] \div Base
    BY <2>3, <1>10
  <2>5. f[j] \in Int
    BY <2>4, BaseIsPositive, DivisionIsWhole
  <2> QED
    BY <2>1, <2>5
<1> QED
  BY <1>7, <1>9, <1>10, <1>11

\* The value of the k most significant bytes, for each k, from a start value.
IsPositional(x, bytes) ==
  /\ x \in [0..Len(bytes) -> Int]
  /\ \A k \in 0..Len(bytes) - 1 : x[k + 1] = x[k] * Base + bytes[Len(bytes) - k]

\* What Magnitude computes: the number with these digits.
LEMMA MagnitudeSteps ==
  ASSUME NEW bytes \in Seq(Int)
  PROVE  \E x : IsPositional(x, bytes) /\ x[0] = 0 /\ x[Len(bytes)] = Magnitude(bytes)
<1> DEFINE L == Len(bytes)
           S == Int
           Digit(k) == IF k < L THEN bytes[L - k] ELSE 0
           F == [p \in Nat \X S |-> p[2] * Base + Digit(p[1])]
           Defines(f) == f = [k \in 0..L |-> IF k = 0 THEN 0
                                             ELSE f[k - 1] * (UINT8_MAX + 1) + bytes[L + 1 - k]]
           f == CHOOSE f : Defines(f)
<1>1. L \in Nat /\ \A k \in Nat : Digit(k) \in Int
  OBVIOUS
<1>2. Base \in Int
  BY BaseIsPositive
<1> HIDE DEF L, Digit
<1>3. F \in [Nat \X S -> S] /\ 0 \in S
  BY <1>1, <1>2
<1>4. \A k \in Nat, y \in S : F[<<k, y>>] = y * Base + Digit(k)
  OBVIOUS
<1> HIDE DEF F, S
<1>5. PICK g \in [Nat -> S] : g[0] = 0 /\ \A k \in Nat : g[k + 1] = F[<<k, g[k]>>]
  <2>1. \E g : Iterates(g, S, 0, F)
    BY <1>3, IterationExists
  <2> QED
    BY <2>1 DEF Iterates
<1>6. \A k \in Nat : g[k] \in Int /\ g[k + 1] = g[k] * Base + Digit(k)
  BY <1>4, <1>5 DEF S
<1> DEFINE h == [k \in 0..L |-> g[k]]
<1>7. Defines(h)
  <2>1. ASSUME NEW k \in 0..L
        PROVE  h[k] = IF k = 0 THEN 0 ELSE h[k - 1] * Base + bytes[L + 1 - k]
    <3>1. CASE k = 0
      BY <1>5, <3>1
    <3>2. CASE k # 0
      <4>1. /\ k - 1 \in Nat /\ k - 1 \in 0..L /\ (k - 1) + 1 = k /\ k - 1 < L
            /\ L - (k - 1) = L + 1 - k
        BY <3>2, <1>1
      <4>2. g[k] = g[k - 1] * Base + Digit(k - 1)
        BY <4>1, <1>6
      <4>3. Digit(k - 1) = bytes[L + 1 - k]
        BY <4>1 DEF Digit
      <4> QED
        BY <4>1, <4>2, <4>3, <3>2
    <3> QED
      BY <3>1, <3>2
  <2> QED
    BY <2>1 DEF Base
<1>8. Defines(f)
  BY <1>7
<1>9. Magnitude(bytes) = f[L]
  BY DEF Magnitude, L
<1> HIDE DEF f
<1>10. \A k \in 0..L : f[k] = IF k = 0 THEN 0 ELSE f[k - 1] * Base + bytes[L + 1 - k]
  BY <1>8 DEF Base
<1>11. DOMAIN f = 0..L
  BY <1>8
<1>12. f = [k \in 0..L |-> f[k]]
  BY <1>8
<1> HIDE DEF Defines
<1>13. f[0] = 0
  BY <1>1, <1>10
<1>14. ASSUME NEW k \in 0..L - 1
       PROVE  f[k + 1] = f[k] * Base + bytes[L - k]
  <2>1. k + 1 \in 0..L /\ k + 1 # 0 /\ (k + 1) - 1 = k /\ L + 1 - (k + 1) = L - k
    BY <1>1
  <2> QED
    BY <2>1, <1>10
<1>15. ASSUME NEW k \in 0..L PROVE f[k] \in Int
  <2> DEFINE T == {j \in Nat : j <= L /\ f[j] \notin Int}
  <2> SUFFICES ASSUME T # {} PROVE FALSE
    BY <1>1
  <2>1. PICK j \in T : \A i \in T : j <= i
    BY LeastNatural, T \subseteq Nat
  <2>2. j # 0
    BY <1>13
  <2>3. j - 1 \in 0..L - 1 /\ j - 1 \in Nat /\ j - 1 \notin T /\ (j - 1) + 1 = j
    BY <2>1, <2>2, <1>1
  <2>4. f[j - 1] \in Int /\ f[j] = f[j - 1] * Base + bytes[L - (j - 1)]
    <3>1. j - 1 <= L
      BY <2>3, <1>1
    <3>2. f[j - 1] \in Int
      BY <2>3, <3>1
    <3> QED
      BY <2>3, <3>2, <1>14
  <2>5. L - (j - 1) \in 1..L
    BY <2>3, <1>1
  <2>6. bytes[L - (j - 1)] \in Int
    BY <2>5 DEF L
  <2>7. f[j] \in Int
    BY <2>4, <2>6, <1>2
  <2> QED
    BY <2>1, <2>7
<1>16. f \in [0..L -> Int]
  BY <1>12, <1>15
<1>17. IsPositional(f, bytes)
  BY <1>14, <1>16 DEF IsPositional, L
<1> QED
  BY <1>9, <1>13, <1>17 DEF L

\* A digit comes off a number again.
LEMMA DigitComesOff ==
  ASSUME NEW m \in Int, NEW b \in Nat \ {0}, NEW d \in 0..b - 1
  PROVE  (m * b + d) \div b = m /\ (m * b + d) % b = d
<1> DEFINE x == m * b + d
<1>1. x \in Int
  OBVIOUS
<1>2. x \div b = m
  OBVIOUS
<1>3. x % b = x - b * m
  BY <1>2
<1> QED
  BY <1>2, <1>3

\* Shifted to the right, a number shows its digits one after the other.
LEMMA ShiftsUndoMagnitude ==
  ASSUME NEW bytes \in Seq(Byte), NEW x, IsPositional(x, bytes)
  PROVE  \A i \in 1..Len(bytes) : ShiftRight(x[Len(bytes)], i - 1) % Base = bytes[i]
<1> DEFINE L == Len(bytes)
           n == x[L]
<1>1. /\ L \in Nat /\ x \in [0..L -> Int] /\ n \in Int
      /\ \A k \in 0..L - 1 : x[k + 1] = x[k] * Base + bytes[L - k]
      /\ \A k \in 1..L : bytes[k] \in 0..Base - 1
  BY BaseIsPositive DEF IsPositional
<1>2. Base \in Nat \ {0}
  BY BaseIsPositive
<1> HIDE DEF L, n
<1>3. ASSUME NEW i \in 1..L
      PROVE  /\ x[L - i + 1] \div Base = x[L - i]
             /\ x[L - i + 1] % Base = bytes[i]
  <2>1. L - i \in 0..L - 1 /\ L - (L - i) = i
    BY <1>1
  <2>2. x[L - i + 1] = x[L - i] * Base + bytes[i]
    BY <1>1, <2>1
  <2>3. x[L - i] \in Int /\ bytes[i] \in 0..Base - 1
    <3>1. L - i \in 0..L
      BY <1>1
    <3> QED
      BY <1>1, <3>1
  <2>4. \A m \in Int, d \in 0..Base - 1 : (m * Base + d) \div Base = m /\ (m * Base + d) % Base = d
    BY <1>2, DigitComesOff
  <2> QED
    BY <2>2, <2>3, <2>4
<1>4. ASSUME NEW k \in Nat, k <= L
      PROVE  ShiftRight(n, k) = x[L - k]
  <2> DEFINE T == {j \in Nat : j <= L /\ ShiftRight(n, j) # x[L - j]}
  <2> SUFFICES ASSUME T # {} PROVE FALSE
    BY <1>4
  <2>1. PICK j \in T : \A i \in T : j <= i
    BY LeastNatural, T \subseteq Nat
  <2>2. j # 0
    <3>1. ShiftRight(n, 0) = n /\ L - 0 = L
      BY <1>1, ShiftSteps
    <3> QED
      BY <3>1 DEF n
  <2>3. j \in 1..L /\ j - 1 \in Nat /\ j - 1 <= L /\ (j - 1) + 1 = j
    BY <2>1, <2>2, <1>1
  <2>4. ShiftRight(n, j - 1) = x[L - (j - 1)]
    BY <2>1, <2>3
  <2>5. L - (j - 1) = L - j + 1
    BY <2>3, <1>1
  <2>6. ShiftRight(n, j) = ShiftRight(n, j - 1) \div Base
    BY <2>3, <1>1, ShiftSteps
  <2>7. ShiftRight(n, j) = x[L - j]
    BY <2>3, <2>4, <2>5, <2>6, <1>3
  <2> QED
    BY <2>1, <2>7
<1>5. ASSUME NEW i \in 1..L
      PROVE  ShiftRight(n, i - 1) % Base = bytes[i]
  <2>1. i - 1 \in Nat /\ i - 1 <= L /\ L - (i - 1) = L - i + 1
    BY <1>1
  <2>2. ShiftRight(n, i - 1) = x[L - i + 1]
    BY <2>1, <1>4
  <2> QED
    BY <2>2, <1>3
<1> QED
  BY <1>5 DEF L, n

\* A value is encoded to bytes, as many as its type has.
LEMMA EncodingIsBytes ==
  ASSUME NEW type \in ParameterValueType, NEW n \in Int
  PROVE  Encode(type, n) \in Seq(Byte) /\ Len(Encode(type, n)) = SizeOf(type)
<1>1. SizeOf(type) \in Nat
  BY SizesAreNatural
<1>2. ASSUME NEW i \in 1..SizeOf(type)
      PROVE  ShiftRight(n, i - 1) % (UINT8_MAX + 1) \in Byte
  <2>1. i - 1 \in Nat
    BY <1>1
  <2>2. ShiftRight(n, i - 1) \in Int
    BY <2>1, ShiftSteps
  <2>3. ShiftRight(n, i - 1) % Base \in 0..Base - 1
    BY <2>2, BaseIsPositive, DivisionIsWhole
  <2> QED
    BY <2>3, BaseIsPositive DEF Base
<1> QED
  BY <1>1, <1>2 DEF Encode

LEMMA MagnitudeIsWhole ==
  ASSUME NEW bytes \in Seq(Int)
  PROVE  Magnitude(bytes) \in Int
<1>1. PICK x : IsPositional(x, bytes) /\ x[Len(bytes)] = Magnitude(bytes)
  BY MagnitudeSteps
<1> QED
  BY <1>1 DEF IsPositional

Complement(bytes) == [i \in DOMAIN bytes |-> UINT8_MAX - bytes[i]]

LEMMA ComplementIsWhole ==
  ASSUME NEW bytes \in Seq(Byte)
  PROVE  /\ Complement(bytes) \in Seq(Int) /\ Len(Complement(bytes)) = Len(bytes)
         /\ \A i \in 1..Len(bytes) : Complement(bytes)[i] = Base - 1 - bytes[i]
<1>1. /\ DOMAIN bytes = 1..Len(bytes) /\ Len(bytes) \in Nat
      /\ \A i \in 1..Len(bytes) : bytes[i] \in Int
  BY BytesAreIntegers
<1>2. Complement(bytes) = [i \in 1..Len(bytes) |-> UINT8_MAX - bytes[i]]
  BY <1>1 DEF Complement
<1>3. \A i \in 1..Len(bytes) : UINT8_MAX - bytes[i] \in Int
  BY <1>1, ByteAssumption
<1>4. Complement(bytes) \in Seq(Int) /\ Len(Complement(bytes)) = Len(bytes)
  BY <1>1, <1>2, <1>3
<1> QED
  BY <1>1, <1>2, <1>4, ByteAssumption DEF Base

LEMMA DecodeCases ==
  ASSUME NEW type, NEW bytes
  PROVE  /\ type = boolean => /\ Decode(type, bytes) \in {0, 1}
                              /\ Decode(type, bytes) = IF bytes = <<0>> THEN 0 ELSE 1
         /\ type # boolean /\ IsNegative(type, bytes) =>
              Decode(type, bytes) = -1 - Magnitude(Complement(bytes))
         /\ type # boolean /\ ~IsNegative(type, bytes) => Decode(type, bytes) = Magnitude(bytes)
<1>1. CASE type = boolean
  <2>1. ~IsNegative(type, bytes)
    BY <1>1 DEF IsNegative, SignedType, boolean, int8, int64
  <2>2. Decode(type, bytes) = IF bytes = <<0>> THEN 0 ELSE 1
    BY <1>1, <2>1 DEF Decode
  <2> QED
    BY <2>2, <1>1
<1>2. CASE type # boolean /\ IsNegative(type, bytes)
  BY <1>2 DEF Decode, Complement
<1>3. CASE type # boolean /\ ~IsNegative(type, bytes)
  BY <1>3 DEF Decode
<1> QED
  BY <1>1, <1>2, <1>3

\* What a value of any type decodes to is a whole number.
LEMMA DecodingIsWhole ==
  ASSUME NEW type, NEW bytes \in Seq(Byte)
  PROVE  Decode(type, bytes) \in Int
<1>1. Magnitude(bytes) \in Int
  BY BytesAreIntegers, MagnitudeIsWhole
<1>2. Magnitude(Complement(bytes)) \in Int
  BY ComplementIsWhole, MagnitudeIsWhole
<1>3. -1 - Magnitude(Complement(bytes)) \in Int
  BY <1>2
<1> QED
  BY <1>1, <1>3, DecodeCases

\* The number behind the bytes of a value, as its digits.
LEMMA DecodeIsPositional ==
  ASSUME NEW type, type # boolean, NEW bytes \in Seq(Byte)
  PROVE  \E x : IsPositional(x, bytes) /\ x[Len(bytes)] = Decode(type, bytes)
<1>1. CASE ~IsNegative(type, bytes)
  <2>1. PICK x : IsPositional(x, bytes) /\ x[Len(bytes)] = Magnitude(bytes)
    BY BytesAreIntegers, MagnitudeSteps
  <2> QED
    BY <1>1, <2>1, DecodeCases
<1>2. CASE IsNegative(type, bytes)
  <2> DEFINE c == Complement(bytes)
             L == Len(bytes)
  <2>1. /\ c \in Seq(Int) /\ Len(c) = L /\ L \in Nat /\ \A i \in 1..L : c[i] = Base - 1 - bytes[i]
        /\ \A i \in 1..L : bytes[i] \in Int
    BY ComplementIsWhole, BytesAreIntegers
  <2>2. Base \in Int
    BY BaseIsPositive
  <2>3. PICK m : IsPositional(m, c) /\ m[L] = Magnitude(c)
    BY <2>1, MagnitudeSteps
  <2> HIDE DEF c, L
  <2>4. m \in [0..L -> Int] /\ \A k \in 0..L - 1 : m[k + 1] = m[k] * Base + c[L - k]
    BY <2>1, <2>3 DEF IsPositional
  <2> DEFINE x == [k \in 0..L |-> -1 - m[k]]
  <2>5. x \in [0..L -> Int] /\ \A k \in 0..L : x[k] = -1 - m[k]
    BY <2>4
  <2> HIDE DEF x
  <2>6. ASSUME NEW k \in 0..L - 1
        PROVE  x[k + 1] = x[k] * Base + bytes[L - k]
    <3>1. k \in 0..L /\ k + 1 \in 0..L /\ L - k \in 1..L
      BY <2>1
    <3>2. m[k] \in Int /\ bytes[L - k] \in Int
      BY <3>1, <2>4, <2>1
    <3>3. x[k] = -1 - m[k] /\ x[k + 1] = -1 - (m[k] * Base + (Base - 1 - bytes[L - k]))
      BY <3>1, <2>1, <2>4, <2>5
    <3>4. \A a, d \in Int : -1 - (a * Base + (Base - 1 - d)) = (-1 - a) * Base + d
      BY <2>2
    <3> QED
      BY <3>2, <3>3, <3>4
  <2>7. IsPositional(x, bytes)
    BY <2>5, <2>6 DEF IsPositional, L
  <2>8. x[L] = Decode(type, bytes)
    BY <2>1, <2>3, <2>5, <1>2, DecodeCases DEF c
  <2> QED
    BY <2>7, <2>8 DEF L
<1> QED
  BY <1>1, <1>2

\* A value that was decoded as its type is encoded to the bytes it came from.
THEOREM EncodingUndoesDecoding ==
  ASSUME NEW type \in ParameterValueType, type # boolean, NEW bytes \in Seq(Byte),
         Len(bytes) = SizeOf(type)
  PROVE  Encode(type, Decode(type, bytes)) = bytes
<1> DEFINE L == Len(bytes)
           n == Decode(type, bytes)
<1>1. PICK x : IsPositional(x, bytes) /\ x[L] = n
  BY DecodeIsPositional
<1>2. \A i \in 1..L : ShiftRight(n, i - 1) % Base = bytes[i]
  BY <1>1, ShiftsUndoMagnitude
<1>3. Encode(type, n) = [i \in 1..L |-> ShiftRight(n, i - 1) % Base]
  BY DEF Encode, Base
<1>4. bytes = [i \in 1..L |-> bytes[i]]
  OBVIOUS
<1> HIDE DEF n
<1>5. [i \in 1..L |-> ShiftRight(n, i - 1) % Base] = [i \in 1..L |-> bytes[i]]
  BY <1>2
<1> QED
  BY <1>3, <1>4, <1>5 DEF n

\* The two values of a boolean.
LEMMA BooleansSurvive ==
  ASSUME NEW n \in {0, 1}
  PROVE  Decode(boolean, Encode(boolean, n)) = n
<1>1. ShiftRight(n, 0) = n
  BY ShiftSteps
<1>2. Base > 1 /\ Base \in Nat
  BY ByteAssumption DEF Base
<1>3. n % Base = n
  BY <1>2
<1>4. SizeOf(boolean) = 1
  BY DEF SizeOf, uint8, uint16, uint32, uint64, int8, int16, int32, int64, floating_point,
     double_float, boolean, none
<1>5. Encode(boolean, n) = <<n>>
  <2>1. Encode(boolean, n) = [i \in 1..1 |-> ShiftRight(n, i - 1) % Base]
    BY <1>4 DEF Encode, Base
  <2>2. \A i \in 1..1 : ShiftRight(n, i - 1) % Base = n
    BY <1>1, <1>3
  <2> QED
    BY <2>1, <2>2
<1>6. <<n>> = <<0>> <=> n = 0
  OBVIOUS
<1> QED
  BY <1>5, <1>6, DecodeCases

-----------------------------------------------------------------------------
(* Commands.                                                               *)

\* Definitions of variables in V.
DefinitionsOf(V) ==
  [id : Byte, category : ParameterCategory, value_type : ParameterValueType,
   read_write_access : ReadWriteAccess, name : Seq(Byte), variable : V]

\* What registerParameter leaves behind.
Databases(V) ==
  {db \in [capacity : Nat, registered : Seq(DefinitionsOf(V))] :
     \A i, j \in DOMAIN db.registered : db.registered[i].id = db.registered[j].id => i = j}

LEMMA DefinitionIsNotNull ==
  ASSUME NEW V, NEW def \in DefinitionsOf(V)
  PROVE  def # NullDefinition
<1>1. "id" \in DOMAIN def
  BY DEF DefinitionsOf
<1>2. "id" \notin DOMAIN NullDefinition
  BY DEF NullDefinition
<1> QED
  BY <1>1, <1>2

\* A lookup finds the definition with the id, or the null one if there is none.
THEOREM LookupFindsTheId ==
  ASSUME NEW V, NEW db \in Databases(V), NEW id
  PROVE  \/ /\ getParameterDefinitionById(db, id) = NullDefinition
            /\ \A i \in DOMAIN db.registered : db.registered[i].id # id
         \/ \E i \in DOMAIN db.registered :
              /\ db.registered[i].id = id
              /\ getParameterDefinitionById(db, id) = db.registered[i]
              /\ db.registered[i] \in DefinitionsOf(V)
<1> DEFINE I == WithId(db, id)
<1>1. CASE I = {}
  BY <1>1 DEF getParameterDefinitionById, WithId
<1>2. CASE I # {}
  <2>1. PICK i \in DOMAIN db.registered : db.registered[i].id = id
    BY <1>2 DEF WithId
  <2>2. I = {i}
    BY <2>1 DEF WithId, Databases
  <2>3. db.registered \in Seq(DefinitionsOf(V)) /\ DOMAIN db.registered = 1..Len(db.registered)
    BY DEF Databases
  <2>4. i \in Nat /\ i <= i /\ db.registered[i] \in DefinitionsOf(V)
    BY <2>1, <2>3
  <2>5. (CHOOSE k \in I : \A j \in I : k <= j) = i
    BY <2>2, <2>4
  <2> QED
    BY <1>2, <2>1, <2>4, <2>5 DEF getParameterDefinitionById
<1> QED
  BY <1>1, <1>2

\* A definition registered as the assertions demand keeps the ids distinct and is
\* found under its own.
THEOREM RegisteredIsFound ==
  ASSUME NEW V, NEW db \in Databases(V), NEW def \in DefinitionsOf(V), CanRegister(db, def)
  PROVE  /\ registerParameter(db, def) \in Databases(V)
         /\ getParameterDefinitionById(registerParameter(db, def), def.id) = def
<1> DEFINE new == registerParameter(db, def)
           n   == Len(db.registered)
<1>1. db.registered \in Seq(DefinitionsOf(V)) /\ n \in Nat /\ db.capacity \in Nat
  BY DEF Databases
<1>2. new = [capacity |-> db.capacity, registered |-> Append(db.registered, def)]
  BY <1>1 DEF registerParameter, Databases
<1>3. /\ new.registered \in Seq(DefinitionsOf(V)) /\ DOMAIN new.registered = 1..n + 1
      /\ new.registered[n + 1] = def
      /\ \A i \in 1..n : new.registered[i] = db.registered[i]
  BY <1>1, <1>2
<1>4. \A i \in 1..n : db.registered[i].id # def.id
  <2>1. getParameterDefinitionById(db, def.id) = NullDefinition
    BY DEF CanRegister
  <2> QED
    BY <1>1, <2>1, LookupFindsTheId, DefinitionIsNotNull
<1>5. \A i, j \in 1..n : db.registered[i].id = db.registered[j].id => i = j
  BY <1>1 DEF Databases
<1>6. \A i, j \in 1..n + 1 : new.registered[i].id = new.registered[j].id => i = j
  <2>1. TAKE i, j \in 1..n + 1
  <2>2. ASSUME NEW k \in 1..n PROVE new.registered[k].id # new.registered[n + 1].id
    BY <1>3, <1>4
  <2>3. CASE i \in 1..n /\ j \in 1..n
    BY <1>3, <1>5, <2>3
  <2>4. CASE i = n + 1 /\ j \in 1..n
    BY <2>2, <2>4
  <2>5. CASE i \in 1..n /\ j = n + 1
    BY <2>2, <2>5
  <2>6. CASE i = n + 1 /\ j = n + 1
    BY <2>6
  <2> HIDE DEF new, n
  <2>7. n \in Nat
    BY <1>1
  <2> QED
    BY <2>1, <2>3, <2>4, <2>5, <2>6, <2>7
<1>7. new \in Databases(V)
  <2>1. new \in [capacity : Nat, registered : Seq(DefinitionsOf(V))]
    BY <1>1, <1>2, <1>3
  <2> HIDE DEF new
  <2> QED
    BY <1>3, <1>6, <2>1 DEF Databases
<1>8. \A i \in 1..n + 1 : new.registered[i].id = def.id => new.registered[i] = def
  BY <1>1, <1>3, <1>6, n + 1 \in 1..n + 1
<1> QED
  BY <1>1, <1>3, <1>7, <1>8, LookupFindsTheId, n + 1 \in 1..n + 1

-----------------------------------------------------------------------------
(* What a write changes.                                                   *)

\* A write carried out: the i-th definition is writable and has the id and the
\* type of the request, its variable now holds the head of the bytes sent, and
\* nothing else has changed.
CarriedOut(db, memory, request, written, i) ==
  /\ db.registered[i].id = request.parameter_id
  /\ valueIsWritable(db.registered[i])
  /\ db.registered[i].value_type = request.expected_value_type
  /\ ~(Len(request.raw_bytes) < SizeOf(db.registered[i].value_type))
  /\ written = [memory EXCEPT ![db.registered[i].variable] =
                  SubSeq(request.raw_bytes, 1, SizeOf(db.registered[i].value_type))]

\* A request changes the memory only with an ok, and then only the variable of a
\* writable definition with the id and the type of the request, to the head of
\* the bytes sent.
THEOREM WriteChangesOneWritable ==
  ASSUME NEW V, NEW memory, NEW db \in Databases(V), NEW request
  PROVE  \/ /\ writeParamValue(db, memory, request).memory = memory
            /\ writeParamValue(db, memory, request).response_code # ok
         \/ /\ writeParamValue(db, memory, request).response_code = ok
            /\ \E i \in DOMAIN db.registered :
                 CarriedOut(db, memory, request,
                            writeParamValue(db, memory, request).memory, i)
<1> DEFINE param  == getParameterDefinitionById(db, request.parameter_id)
           answer == writeParamValue(db, memory, request)
<1>1. CASE param = NullDefinition
  BY <1>1 DEF writeParamValue, RequestedParameter, ok, invalid_id
<1>2. CASE param # NullDefinition /\ ~TypeMatches(param, request)
  BY <1>2 DEF writeParamValue, RequestedParameter, ok, type_mismatch
<1>3. CASE param # NullDefinition /\ TypeMatches(param, request) /\ ~valueIsWritable(param)
  <2>1. answer = [response_code |-> forbidden, memory |-> memory]
    BY <1>3 DEF writeParamValue, RequestedParameter, setValueRaw
  <2> QED
    BY <2>1 DEF ok, forbidden
<1>4. CASE /\ param # NullDefinition /\ TypeMatches(param, request) /\ valueIsWritable(param)
           /\ Len(request.raw_bytes) < SizeOf(param.value_type)
  <2>1. answer = [response_code |-> unexpected_local_error, memory |-> memory]
    BY <1>4 DEF writeParamValue, RequestedParameter, setValueRaw, buffer_size_mismatch,
                not_allowed, result_ok
  <2> QED
    BY <2>1 DEF ok, unexpected_local_error
<1>5. CASE /\ param # NullDefinition /\ TypeMatches(param, request) /\ valueIsWritable(param)
           /\ ~(Len(request.raw_bytes) < SizeOf(param.value_type))
  <2>1. answer = [response_code |-> ok,
                  memory |-> [memory EXCEPT ![param.variable] =
                                SubSeq(request.raw_bytes, 1, SizeOf(param.value_type))]]
    BY <1>5 DEF writeParamValue, RequestedParameter, setValueRaw, not_allowed, result_ok
  <2>2. PICK i \in DOMAIN db.registered :
          db.registered[i].id = request.parameter_id /\ param = db.registered[i]
    BY <1>5, LookupFindsTheId
  <2>3. /\ answer.response_code = ok
        /\ answer.memory = [memory EXCEPT ![param.variable] =
                              SubSeq(request.raw_bytes, 1, SizeOf(param.value_type))]
    BY <2>1
  <2>4. param.value_type = request.expected_value_type
    BY <1>5 DEF TypeMatches
  <2>5. CarriedOut(db, memory, request, answer.memory, i)
    BY <1>5, <2>2, <2>3, <2>4 DEF CarriedOut
  <2> QED
    BY <2>2, <2>3, <2>5
<1> QED
  BY <1>1, <1>2, <1>3, <1>4, <1>5

\* What a write with an ok stored, a read with the same id and type returns.
THEOREM ReadReturnsWhatWasWritten ==
  ASSUME NEW V, NEW memory \in [V -> Seq(Byte)], NEW db \in Databases(V),
         NEW id \in Byte, NEW type \in ParameterValueType, NEW bytes \in Seq(Byte),
         writeParamValue(db, memory, [parameter_id |-> id, expected_value_type |-> type,
                                      raw_bytes |-> bytes]).response_code = ok
  PROVE  LET written == writeParamValue(db, memory,
                          [parameter_id |-> id, expected_value_type |-> type,
                           raw_bytes |-> bytes]).memory
         IN  readParamValue(db, written, [parameter_id |-> id, expected_value_type |-> type])
               = [response_code |-> ok, raw_bytes |-> SubSeq(bytes, 1, SizeOf(type))]
<1> DEFINE request == [parameter_id |-> id, expected_value_type |-> type, raw_bytes |-> bytes]
           written == writeParamValue(db, memory, request).memory
           asks    == [parameter_id |-> id, expected_value_type |-> type]
           head    == SubSeq(bytes, 1, SizeOf(type))
<1>1. PICK i \in DOMAIN db.registered :
        /\ db.registered[i].id = id /\ db.registered[i].value_type = type
        /\ ~(Len(bytes) < SizeOf(type))
        /\ written = [memory EXCEPT ![db.registered[i].variable] = head]
  <2>1. request.parameter_id = id /\ request.expected_value_type = type /\ request.raw_bytes = bytes
    OBVIOUS
  <2>2. writeParamValue(db, memory, request).response_code = ok
    OBVIOUS
  <2> HIDE DEF request
  <2>3. PICK i \in DOMAIN db.registered : CarriedOut(db, memory, request, written, i)
    BY <2>2, WriteChangesOneWritable
  <2> HIDE DEF written
  <2> QED
    BY <2>1, <2>3 DEF CarriedOut
<1> DEFINE def == db.registered[i]
<1>2. db.registered \in Seq(DefinitionsOf(V)) /\ DOMAIN db.registered = 1..Len(db.registered)
  BY DEF Databases
<1>3. def \in DefinitionsOf(V) /\ def.variable \in V
  <2>1. def \in DefinitionsOf(V)
    BY <1>1, <1>2
  <2> QED
    BY <2>1 DEF DefinitionsOf
<1>4. SizeOf(type) \in {0, 1, 2, 4, 8} /\ SizeOf(type) <= Len(bytes)
  <2>1. SizeOf(type) \in {0, 1, 2, 4, 8}
    BY SizesAreNatural
  <2> QED
    BY <1>1, <2>1
<1>5. written[def.variable] = head
  BY <1>1, <1>3
<1>6. head \in Seq(Byte) /\ Len(head) = SizeOf(type) /\ SubSeq(head, 1, SizeOf(type)) = head
  <2>1. head \in Seq(Byte) /\ Len(head) = SizeOf(type)
    BY <1>4
  <2>2. /\ SubSeq(head, 1, SizeOf(type)) \in Seq(Byte)
        /\ Len(SubSeq(head, 1, SizeOf(type))) = SizeOf(type)
    BY <1>4, <2>1
  <2>3. \A k \in 1..SizeOf(type) : SubSeq(head, 1, SizeOf(type))[k] = head[k]
    BY <1>4, <2>1
  <2> QED
    BY <2>1, <2>2, <2>3, SeqEqual
<1>7. getParameterDefinitionById(db, id) = def
  <2>1. i \in DOMAIN db.registered /\ db.registered[i].id = id
    BY <1>1
  <2>2. \A j \in DOMAIN db.registered : db.registered[j].id = id => j = i
    BY <2>1 DEF Databases
  <2>3. PICK j \in DOMAIN db.registered : /\ db.registered[j].id = id
                                          /\ getParameterDefinitionById(db, id) = db.registered[j]
    <3> HIDE DEF written, head, def
    <3> QED
      BY ONLY LookupFindsTheId, <2>1, db \in Databases(V)
  <2>4. j = i
    BY <2>2, <2>3
  <2> QED
    BY <2>3, <2>4
<1>8. def # NullDefinition
  BY <1>3, DefinitionIsNotNull
<1>9. getValueRaw(def, written, K_RAW_BUFF_SIZE) = [result |-> result_ok, bytes |-> head]
  <2>1. ~(K_RAW_BUFF_SIZE < SizeOf(def.value_type))
    BY <1>1, <1>4, ByteAssumption DEF K_RAW_BUFF_SIZE, K_PAYLOAD_MAX_SIZE
  <2> QED
    BY <1>1, <1>5, <1>6, <2>1 DEF getValueRaw
<1>10. asks.parameter_id = id /\ asks.expected_value_type = type
  OBVIOUS
<1> HIDE DEF asks, def, head, written
<1>11. def.value_type = type
  BY <1>1 DEF def
<1>12. readParamValue(db, written, asks) = [response_code |-> ok, raw_bytes |-> head]
  BY <1>7, <1>8, <1>9, <1>10, <1>11 DEF readParamValue, RequestedParameter, TypeMatches, result_ok
<1> QED
  BY <1>12 DEF asks, head, written

-----------------------------------------------------------------------------
(* The way over the line.                                                  *)

\* A read request arrives as it was sent.
THEOREM ReadRequestSurvives ==
  ASSUME NEW id \in Byte, NEW type \in ParameterValueType
  PROVE  LET request == [parameter_id |-> id, expected_value_type |-> type]
         IN  DeserializeReadRequest(SerializeReadRequest(request)) = Parsed(request)
BY DEF SerializeReadRequest, DeserializeReadRequest

\* A write request arrives as it was sent, if its bytes fit a packet's payload.
THEOREM WriteRequestSurvives ==
  ASSUME NEW id \in Byte, NEW type \in ParameterValueType, NEW bytes \in Seq(Byte),
         Len(bytes) <= K_RAW_BUFF_SIZE
  PROVE  LET request == [parameter_id |-> id, expected_value_type |-> type, raw_bytes |-> bytes]
         IN  DeserializeWriteRequest(SerializeWriteRequest(request)) = Parsed(request)
<1> DEFINE data == <<id, type>> \o bytes
<1>1. /\ data \in Seq(Int) /\ Len(data) = Len(bytes) + 2
      /\ Len(bytes) \in Nat
      /\ data[1] = id /\ data[2] = type
      /\ \A i \in 1..Len(bytes) : data[i + 2] = bytes[i]
  <2>1. bytes \in Seq(Int)
    BY BytesAreIntegers
  <2>2. id \in Int /\ type \in Int
    BY DEF Byte, ParameterValueType, uint8, none
  <2> QED
    BY <2>1, <2>2
<1>2. K_RAW_BUFF_SIZE \in Nat
  BY ByteAssumption DEF K_RAW_BUFF_SIZE, K_PAYLOAD_MAX_SIZE
<1>3. SubSeq(data, 3, Len(data)) = bytes
  <2>1. /\ SubSeq(data, 3, Len(data)) \in Seq(Int)
        /\ Len(SubSeq(data, 3, Len(data))) = Len(bytes)
        /\ \A i \in 1..Len(bytes) : SubSeq(data, 3, Len(data))[i] = data[i + 2]
    BY <1>1
  <2>2. bytes \in Seq(Int)
    BY BytesAreIntegers
  <2> QED
    BY <1>1, <2>1, <2>2, SeqEqual
<1> DEFINE request == [parameter_id |-> id, expected_value_type |-> type, raw_bytes |-> bytes]
<1>4. SerializeWriteRequest(request) = data
  BY DEF SerializeWriteRequest
<1> HIDE DEF data
<1>5. ~(Len(data) < 2) /\ ~(Len(data) - 2 > K_RAW_BUFF_SIZE)
  BY <1>1, <1>2
<1>6. DeserializeWriteRequest(data) = Parsed(request)
  BY <1>1, <1>3, <1>5 DEF DeserializeWriteRequest
<1> QED
  BY <1>4, <1>6

\* A name that ends with its only null is kept whole.
LEMMA NamesEndAtTheirNull ==
  ASSUME NEW name \in Seq(Byte), name # << >>,
         \A k \in DOMAIN name : name[k] = 0 <=> k = Len(name)
  PROVE  TerminatedName(name) = name
<1> DEFINE L == Len(name)
           I == {i \in 1..L : name[i] = 0}
<1>1. L \in Nat \ {0} /\ DOMAIN name = 1..L
  BY EmptySeq
<1>2. I = {L}
  BY <1>1
<1>3. SelectInSeq(name, LAMBDA c : c = 0) = L
  <2>1. SelectInSeq(name, LAMBDA c : c = 0) = IF I # {} THEN Min(I) ELSE 0
    BY DEF SelectInSeq
  <2>2. Min(I) = CHOOSE x \in I : \A y \in I : x =< y
    BY DEF Min
  <2>3. Min(I) = L
    BY <1>1, <1>2, <2>2
  <2> QED
    BY <1>2, <2>1, <2>3
<1>4. TerminatedName(name) = SubSeq(name, 1, L)
  <2>1. ~(\A i \in DOMAIN name : name[i] # 0)
    BY <1>1
  <2> QED
    BY <1>3, <2>1 DEF TerminatedName
<1>5. SubSeq(name, 1, L) = name
  BY <1>1, SeqEqual
<1> QED
  BY <1>4, <1>5

\* Metadata arrive as they were sent.
THEOREM MetaDataSurvive ==
  ASSUME NEW id \in Byte, NEW category \in ParameterCategory, NEW type \in ParameterValueType,
         NEW access \in ReadWriteAccess, NEW name \in Seq(Byte), name # << >>,
         \A k \in DOMAIN name : name[k] = 0 <=> k = Len(name)
  PROVE  LET meta_data == [id |-> id, category |-> category, value_type |-> type,
                           read_write_access |-> access, name |-> name]
         IN  DeserializeMetadataResponse(SerializeMetadataResponse(meta_data))
               = Parsed(meta_data)
<1> DEFINE meta_data == [id |-> id, category |-> category, value_type |-> type,
                         read_write_access |-> access, name |-> name]
           fields == <<id, category, type, access>>
           data == fields \o name
           L == Len(name)
<1>1. SerializeMetadataResponse(meta_data) = data
  BY NamesEndAtTheirNull DEF SerializeMetadataResponse
<1>2. name \in Seq(Int) /\ L \in Nat \ {0}
  BY BytesAreIntegers, EmptySeq
<1>3. fields \in Seq(Int)
  BY DEF Byte, ParameterCategory, ParameterValueType, ReadWriteAccess, uint8, none,
     saved_parameter, signal, read_only, read_write
<1>4. /\ data \in Seq(Int) /\ Len(data) = L + 4
      /\ data[1] = id /\ data[2] = category /\ data[3] = type /\ data[4] = access
      /\ \A i \in 1..L : data[i + 4] = name[i]
  BY <1>2, <1>3
<1>5. name[L] = 0
  BY <1>2
<1> HIDE DEF data, L
<1>6. ~(Len(data) < 5)
  BY <1>2, <1>4
<1>7. ~(\A i \in 5..Len(data) : data[i] # 0)
  <2>1. L + 4 \in 5..Len(data) /\ L \in 1..L
    BY <1>2, <1>4
  <2> QED
    BY <1>4, <1>5, <2>1
<1>8. SubSeq(data, 5, Len(data)) = name
  <2>1. /\ SubSeq(data, 5, Len(data)) \in Seq(Int)
        /\ Len(SubSeq(data, 5, Len(data))) = L
        /\ \A i \in 1..L : SubSeq(data, 5, Len(data))[i] = data[i + 4]
    BY <1>2, <1>4
  <2> QED
    BY <1>2, <1>4, <2>1, SeqEqual DEF L
<1>9. TerminatedName(SubSeq(data, 5, Len(data))) = name
  BY <1>8, NamesEndAtTheirNull
<1>10. DeserializeMetadataResponse(data) = Parsed(meta_data)
  BY <1>4, <1>6, <1>7, <1>9 DEF DeserializeMetadataResponse
<1> QED
  BY <1>1, <1>10 DEF data

=============================================================================
