------------------------ MODULE ActiveExecutionsProofs ------------------------
(***************************************************************************)
(* Proofs about ActiveExecutions, for any number of calls and any limit.   *)
(***************************************************************************)
EXTENDS ActiveExecutions, FiniteSetTheorems, SequenceTheorems, WellFoundedInduction, TLAPS

-----------------------------------------------------------------------------
(* The line: each call that waits once, and none that holds a slot.        *)

SetOf(q) == {q[i] : i \in 1..Len(q)}

Lined(q, h) ==
    /\ \A i, j \in 1..Len(q) : q[i] = q[j] => i = j
    /\ \A i \in 1..Len(q) : q[i] \notin h

LEMMA HeldIsFinite ==
    ASSUME NEW h \in SUBSET Calls
    PROVE  IsFiniteSet(h) /\ Cardinality(h) \in Nat
<1>1. IsFiniteSet(h)
  BY FS_Subset, LimitAssumption
<1>2. QED
  BY <1>1, FS_CardinalityType

LEMMA LineIs ==
    ASSUME NEW q \in Seq(Calls)
    PROVE  {q[i] : i \in DOMAIN q} = SetOf(q) /\ SetOf(q) \subseteq Calls
<1>1. DOMAIN q = 1..Len(q) /\ \A i \in 1..Len(q) : q[i] \in Calls
  BY LenProperties, ElementOfSeq
<1>2. QED
  BY <1>1 DEF SetOf

LEMMA LineGrows ==
    ASSUME NEW q \in Seq(Calls), NEW h, Lined(q, h),
           NEW c \in Calls, c \notin h, c \notin SetOf(q)
    PROVE  /\ Append(q, c) \in Seq(Calls)
           /\ Len(Append(q, c)) = Len(q) + 1
           /\ Lined(Append(q, c), h)
           /\ SetOf(Append(q, c)) \subseteq SetOf(q) \cup {c}
<1>1. /\ Append(q, c) \in Seq(Calls)
      /\ Len(Append(q, c)) = Len(q) + 1
      /\ \A i \in 1..Len(q) : Append(q, c)[i] = q[i]
      /\ Append(q, c)[Len(q) + 1] = c
      /\ Len(q) \in Nat
  BY AppendProperties, LenProperties
<1>2. \A i \in 1..Len(q) : q[i] # c
  BY DEF SetOf
<1>3. \A i \in 1..(Len(q) + 1) : i \in 1..Len(q) \/ i = Len(q) + 1
  BY <1>1
<1>4. \A i, j \in 1..(Len(q) + 1) : Append(q, c)[i] = Append(q, c)[j] => i = j
  BY <1>1, <1>2, <1>3 DEF Lined
<1>5. \A i \in 1..(Len(q) + 1) : Append(q, c)[i] \notin h
  BY <1>1, <1>3 DEF Lined
<1>6. SetOf(Append(q, c)) \subseteq SetOf(q) \cup {c}
  BY <1>1, <1>3 DEF SetOf
<1>7. QED
  BY <1>1, <1>4, <1>5, <1>6 DEF Lined

\* Whoever leaves the line at any position, the others keep their order.
LEMMA RemoveAtKeepsOrder ==
    ASSUME NEW q \in Seq(Calls), NEW i \in 1..Len(q)
    PROVE  /\ RemoveAt(q, i) \in Seq(Calls)
           /\ Len(RemoveAt(q, i)) = Len(q) - 1
           /\ \A j \in 1..(Len(q) - 1) :
                RemoveAt(q, i)[j] = IF j < i THEN q[j] ELSE q[j + 1]
<1>1. Len(q) \in Nat
  BY LenProperties
<1>2. /\ SubSeq(q, 1, i - 1) \in Seq(Calls)
      /\ Len(SubSeq(q, 1, i - 1)) = i - 1
      /\ \A j \in 1..(i - 1) : SubSeq(q, 1, i - 1)[j] = q[j]
  BY <1>1, SubSeqProperties
<1>3. /\ SubSeq(q, i + 1, Len(q)) \in Seq(Calls)
      /\ Len(SubSeq(q, i + 1, Len(q))) = Len(q) - i
      /\ \A j \in 1..(Len(q) - i) : SubSeq(q, i + 1, Len(q))[j] = q[i + j]
  BY <1>1, SubSeqProperties
<1>. DEFINE a == SubSeq(q, 1, i - 1)
            b == SubSeq(q, i + 1, Len(q))
<1>4. RemoveAt(q, i) = a \o b
  BY DEF RemoveAt
<1>5. a \in Seq(Calls) /\ Len(a) = i - 1 /\ \A j \in 1..(i - 1) : a[j] = q[j]
  BY <1>2
<1>6. b \in Seq(Calls) /\ Len(b) = Len(q) - i /\ \A j \in 1..(Len(q) - i) : b[j] = q[i + j]
  BY <1>3
<1>. HIDE DEF a, b
<1>7. /\ a \o b \in Seq(Calls)
      /\ Len(a \o b) = (i - 1) + (Len(q) - i)
      /\ \A j \in 1..((i - 1) + (Len(q) - i)) :
           (a \o b)[j] = IF j <= i - 1 THEN a[j] ELSE b[j - (i - 1)]
  <2>1. a \in Seq(Calls) /\ b \in Seq(Calls)
    BY <1>5, <1>6
  <2>2. /\ a \o b \in Seq(Calls)
        /\ Len(a \o b) = Len(a) + Len(b)
        /\ \A j \in 1..(Len(a) + Len(b)) :
             (a \o b)[j] = IF j <= Len(a) THEN a[j] ELSE b[j - Len(a)]
    BY <2>1, ConcatProperties, Zenon
  <2>3. QED
    BY <1>5, <1>6, <2>2, Zenon
<1>8. \A j \in 1..(Len(q) - 1) : (a \o b)[j] = IF j < i THEN q[j] ELSE q[j + 1]
  <2>1. SUFFICES ASSUME NEW j \in 1..(Len(q) - 1)
                 PROVE  (a \o b)[j] = IF j < i THEN q[j] ELSE q[j + 1]
    OBVIOUS
  <2>2. CASE j < i
    <3>1. j \in 1..(i - 1)
      BY <1>1, <2>1, <2>2
    <3>2. QED
      BY <1>1, <1>5, <1>7, <2>1, <2>2, <3>1
  <2>3. CASE ~(j < i)
    <3>1. j - (i - 1) \in 1..(Len(q) - i) /\ i + (j - (i - 1)) = j + 1
      BY <1>1, <2>1, <2>3
    <3>2. b[j - (i - 1)] = q[j + 1]
      BY <1>6, <3>1
    <3>3. j \in 1..((i - 1) + (Len(q) - i)) /\ ~(j <= i - 1)
      BY <1>1, <2>1, <2>3
    <3>4. (a \o b)[j] = b[j - (i - 1)]
      BY <1>7, <3>3, Zenon
    <3>5. QED
      BY <2>3, <3>2, <3>4, Zenon
  <2>4. QED
    BY <2>2, <2>3
<1>9. QED
  BY <1>1, <1>4, <1>7, <1>8

LEMMA LineShrinks ==
    ASSUME NEW q \in Seq(Calls), NEW h, Lined(q, h), NEW i \in 1..Len(q)
    PROVE  /\ Lined(RemoveAt(q, i), h \cup {q[i]})
           /\ SetOf(RemoveAt(q, i)) \subseteq SetOf(q)
<1>. DEFINE r == RemoveAt(q, i)
<1>1. Len(q) \in Nat /\ q[i] \in Calls
  BY LenProperties, ElementOfSeq
<1>2. r \in Seq(Calls) /\ Len(r) = Len(q) - 1
      /\ \A j \in 1..(Len(q) - 1) : r[j] = IF j < i THEN q[j] ELSE q[j + 1]
  BY RemoveAtKeepsOrder
<1>. HIDE DEF r
<1>3. \A j, k \in 1..Len(r) : r[j] = r[k] => j = k
  BY <1>1, <1>2 DEF Lined
<1>4. \A j \in 1..Len(r) : \E k \in 1..Len(q) : k # i /\ r[j] = q[k]
  <2>1. SUFFICES ASSUME NEW j \in 1..Len(r)
                 PROVE  \E k \in 1..Len(q) : k # i /\ r[j] = q[k]
    OBVIOUS
  <2>2. j \in 1..Len(q) /\ j + 1 \in 1..Len(q)
    BY <1>1, <1>2, <2>1
  <2>3. CASE j < i
    BY <1>2, <2>1, <2>2, <2>3
  <2>4. CASE ~(j < i)
    BY <1>1, <1>2, <2>1, <2>2, <2>4
  <2>5. QED
    BY <2>3, <2>4
<1>5. \A j \in 1..Len(r) : r[j] \notin h \cup {q[i]}
  BY <1>4 DEF Lined
<1>6. SetOf(r) \subseteq SetOf(q)
  BY <1>4 DEF SetOf
<1>7. QED
  BY <1>3, <1>5, <1>6 DEF Lined, r

LEMMA TailIsRemoval ==
    ASSUME NEW q \in Seq(Calls), q # <<>>
    PROVE  /\ 1 \in 1..Len(q)
           /\ Head(q) = q[1]
           /\ Head(q) \in Calls
           /\ Tail(q) = RemoveAt(q, 1)
<1>1. Len(q) \in Nat \ {0}
  BY EmptySeq
<1>2. SubSeq(q, 1, 0) = <<>> /\ SubSeq(q, 2, Len(q)) = Tail(q)
  BY SubSeqEmpty, TailIsSubSeq
<1>3. Tail(q) \in Seq(Calls) /\ Head(q) \in Calls
  BY HeadTailProperties
<1>4. RemoveAt(q, 1) = <<>> \o Tail(q)
  BY <1>2 DEF RemoveAt
<1>5. RemoveAt(q, 1) = Tail(q)
  BY <1>3, <1>4, ConcatEmptySeq
<1>6. QED
  BY <1>1, <1>3, <1>5

\* resolveNext wakes the first of a line, and the others stay.
LEMMA WakesFirst ==
    ASSUME NEW q \in Seq(Calls), NEW h \in SUBSET Calls, Lined(q, h), q # <<>>
    PROVE  /\ Tail(q) \in Seq(Calls)
           /\ Len(Tail(q)) = Len(q) - 1
           /\ Head(q) \in SetOf(q) /\ Head(q) \in Calls
           /\ SetOf(Tail(q)) \subseteq SetOf(q)
           /\ Lined(Tail(q), h \cup {Head(q)})
           /\ Cardinality(h \cup {Head(q)}) = Cardinality(h) + 1
<1>1. /\ 1 \in 1..Len(q) /\ Head(q) = q[1] /\ Head(q) \in Calls /\ Tail(q) = RemoveAt(q, 1)
  BY TailIsRemoval
<1>2. Head(q) \notin h /\ Head(q) \in SetOf(q)
  BY <1>1 DEF Lined, SetOf
<1>3. Lined(Tail(q), h \cup {Head(q)}) /\ SetOf(Tail(q)) \subseteq SetOf(q)
  BY <1>1, LineShrinks
<1>4. Tail(q) \in Seq(Calls) /\ Len(Tail(q)) = Len(q) - 1
  BY <1>1, RemoveAtKeepsOrder
<1>5. Cardinality(h \cup {Head(q)}) = Cardinality(h) + 1
  BY <1>2, HeldIsFinite, FS_AddElement
<1>6. QED
  BY <1>1, <1>2, <1>3, <1>4, <1>5

LEMMA ResolveNextServes ==
    ASSUME NEW q \in Seq(Calls), NEW h \in SUBSET Calls, Lined(q, h), resolveNext(q, h)
    PROVE  /\ queue' \in Seq(Calls) /\ held' \in SUBSET Calls /\ Lined(queue', held')
           /\ h \subseteq held' /\ held' \subseteq h \cup SetOf(q)
           /\ SetOf(queue') \subseteq SetOf(q)
           /\ q = <<>> => queue' = <<>> /\ Cardinality(held') = Cardinality(h)
           /\ q # <<>> => /\ Len(queue') = Len(q) - 1
                          /\ Cardinality(held') = Cardinality(h) + 1
<1>1. CASE q = <<>>
  BY <1>1 DEF resolveNext
<1>2. CASE q # <<>>
  <2>1. queue' = Tail(q) /\ held' = h \cup {Head(q)}
    BY <1>2 DEF resolveNext
  <2>2. QED
    BY <1>2, <2>1, WakesFirst
<1>3. QED
  BY <1>1, <1>2

-----------------------------------------------------------------------------
(* What every operation of the queue preserves.                            *)

LEMMA CounterBelow ==
    ASSUME NEW l \in Nat, NEW k \in Nat, NEW n \in Nat, NEW x, x = l - k - n
    PROVE  x \in Int /\ x <= l
OBVIOUS

\* The counter goes up as the line gets shorter.
LEMMA SumStaysShort ==
    ASSUME NEW a \in Int, NEW n \in Nat, a + n <= 0,
           NEW b, NEW m, b = a + 1, m \in {n - 1, n - 2}
    PROVE  b + m <= 0
OBVIOUS

\* Somebody waits only where every slot is reserved.
NoIdleSlot == isEnabled /\ queue # <<>> => Cardinality(held) >= Limit

LineShort == isEnabled /\ queue # <<>> => capacity + Len(queue) <= 0

QInv == QueueTypeOK /\ Lined(queue, held) /\ SlotsAddUp /\ LineShort

\* The overrun grows by no more than n.
GrowsBy(n) ==
    isEnabled' =>
      /\ isEnabled
      /\ Cardinality(held') <= Limit \/ Cardinality(held') <= Cardinality(held) + n

\* Only those in the line get a slot, and nobody joins it.
Serves == held' \subseteq held \cup SetOf(queue) /\ SetOf(queue') \subseteq SetOf(queue)

LEMMA QFacts ==
    ASSUME QInv
    PROVE  /\ queue \in Seq(Calls) /\ held \in SUBSET Calls /\ Lined(queue, held)
           /\ capacity \in Int /\ capacity <= Limit /\ Limit \in Nat
           /\ Len(queue) \in Nat /\ Cardinality(held) \in Nat
           /\ isEnabled \in BOOLEAN
           /\ isEnabled => capacity = Limit - Cardinality(held) - Len(queue)
           /\ isEnabled => queue = <<>> \/ capacity + Len(queue) <= 0
<1>1. /\ queue \in Seq(Calls) /\ held \in SUBSET Calls /\ Lined(queue, held)
      /\ capacity \in Int /\ capacity <= Limit /\ Limit \in Nat /\ isEnabled \in BOOLEAN
  BY LimitAssumption DEF QInv, QueueTypeOK
<1>2. Len(queue) \in Nat /\ Cardinality(held) \in Nat
  BY <1>1, HeldIsFinite, LenProperties
<1>3. QED
  BY <1>1, <1>2 DEF QInv, SlotsAddUp, LineShort

LEMMA UnchangedKeepsQueue ==
    ASSUME QInv, UNCHANGED queueVars
    PROVE  QInv' /\ GrowsBy(0) /\ Serves /\ held' = held
<1>1. capacity' = capacity /\ queue' = queue /\ isEnabled' = isEnabled /\ held' = held
  BY DEF queueVars
<1>2. QInv'
  BY <1>1 DEF QInv, QueueTypeOK, SlotsAddUp, LineShort
<1>3. QED
  BY <1>1, <1>2, QFacts DEF GrowsBy, Serves

LEMMA EnqueueKeepsQueue ==
    ASSUME QInv, NEW c \in Calls, c \notin held, c \notin SetOf(queue), enqueue(c)
    PROVE  /\ QInv' /\ GrowsBy(0)
           /\ held \subseteq held' /\ held' \subseteq held \cup {c}
           /\ SetOf(queue') \subseteq SetOf(queue) \cup {c}
<1>. DEFINE n == Cardinality(held)
            k == Cardinality(held')
<1>1. /\ queue \in Seq(Calls) /\ held \in SUBSET Calls /\ Lined(queue, held)
      /\ capacity \in Int /\ capacity <= Limit /\ Limit \in Nat
      /\ Len(queue) \in Nat /\ n \in Nat
      /\ isEnabled \in BOOLEAN
      /\ isEnabled => capacity = Limit - n - Len(queue)
      /\ isEnabled => queue = <<>> \/ capacity + Len(queue) <= 0
  BY QFacts
<1>2. Cardinality(held \cup {c}) = n + 1
  BY <1>1, HeldIsFinite, FS_AddElement
<1>3. Lined(queue, held \cup {c})
  BY DEF QInv, Lined, SetOf
<1>. HIDE DEF n, k
<1>4. CASE ~isEnabled
  <2>1. capacity' = capacity /\ queue' = queue /\ ~isEnabled' /\ isEnabled' = isEnabled
        /\ held' = held \cup {c}
    BY <1>4 DEF enqueue
  <2>2. QED
    BY <1>1, <1>3, <2>1 DEF QInv, QueueTypeOK, SlotsAddUp, LineShort, GrowsBy
<1>5. CASE isEnabled /\ capacity - 1 < 0
  <2>1. /\ capacity' = capacity - 1 /\ queue' = Append(queue, c) /\ isEnabled' = isEnabled
        /\ held' = held
    BY <1>5 DEF enqueue
  <2>2. queue' \in Seq(Calls) /\ Len(queue') = Len(queue) + 1 /\ Lined(queue', held')
        /\ SetOf(queue') \subseteq SetOf(queue) \cup {c}
    BY <1>1, <2>1, LineGrows
  <2>3. k = n
    BY <2>1 DEF n, k
  <2>4. Len(<<>>) = 0
    BY EmptySeq
  <2>5. capacity' + Len(queue') <= 0 /\ capacity' = Limit - k - Len(queue')
    BY <1>1, <1>5, <2>1, <2>2, <2>3, <2>4
  <2>6. QueueTypeOK'
    BY <1>1, <1>5, <2>1, <2>2 DEF QueueTypeOK
  <2>7. GrowsBy(0)
    BY <1>1, <1>5, <2>1, <2>3 DEF GrowsBy, n, k
  <2>8. QED
    BY <2>1, <2>2, <2>5, <2>6, <2>7 DEF QInv, LineShort, SlotsAddUp, k
<1>6. CASE isEnabled /\ ~(capacity - 1 < 0)
  <2>1. /\ capacity' = capacity - 1 /\ queue' = queue /\ isEnabled' = isEnabled
        /\ held' = held \cup {c}
    BY <1>6 DEF enqueue
  <2>2. k = n + 1
    BY <1>2, <2>1 DEF k
  <2>3. queue = <<>> \/ capacity' + Len(queue') <= 0
    BY <1>1, <1>6, <2>1
  <2>4. capacity' = Limit - k - Len(queue') /\ k <= Limit
    BY <1>1, <1>6, <2>1, <2>2
  <2>5. QueueTypeOK'
    BY <1>1, <1>6, <2>1 DEF QueueTypeOK
  <2>6. SlotsAddUp' /\ GrowsBy(0) /\ LineShort'
    BY <1>6, <2>1, <2>3, <2>4 DEF SlotsAddUp, GrowsBy, LineShort, k
  <2>7. QED
    BY <1>3, <2>1, <2>5, <2>6 DEF QInv
<1>7. QED
  BY <1>1, <1>4, <1>5, <1>6

\* A release gives back one slot of the call, if it has one, to the next in line.
LEMMA DequeueKeepsQueue ==
    ASSUME QInv, NEW c \in Calls, dequeue(c)
    PROVE  QInv' /\ GrowsBy(0) /\ Serves /\ held \ {c} \subseteq held'
           /\ (c \notin SetOf(queue) => c \notin held')
<1>. DEFINE n == Cardinality(held)
            k == Cardinality(held')
            h == held \ {c}
<1>1. /\ queue \in Seq(Calls) /\ held \in SUBSET Calls /\ Lined(queue, held)
      /\ capacity \in Int /\ capacity <= Limit /\ Limit \in Nat
      /\ Len(queue) \in Nat /\ n \in Nat
      /\ isEnabled \in BOOLEAN
      /\ isEnabled => capacity = Limit - n - Len(queue)
      /\ isEnabled => queue = <<>> \/ capacity + Len(queue) <= 0
  BY QFacts
<1>2. Lined(queue, h) /\ h \in SUBSET Calls
  BY <1>1 DEF Lined
<1>3. CASE ~(c \in held /\ isEnabled)
  <2>1. capacity' = capacity /\ queue' = queue /\ isEnabled' = isEnabled /\ held' = h
    BY <1>3 DEF dequeue
  <2>2. isEnabled => held' = held
    BY <1>3, <2>1
  <2>3. QueueTypeOK'
    BY <1>1, <1>2, <2>1 DEF QueueTypeOK
  <2>4. SlotsAddUp' /\ LineShort' /\ GrowsBy(0)
    <3>1. CASE ~isEnabled
      BY <2>1, <3>1 DEF SlotsAddUp, LineShort, GrowsBy
    <3>2. CASE isEnabled
      <4>1. capacity' = capacity /\ queue' = queue /\ isEnabled' = isEnabled /\ held' = held
        BY <2>1, <2>2, <3>2
      <4>2. Cardinality(held) \in Nat
        BY <1>1
      <4>. HIDE DEF n, k, h
      <4>3. QED
        BY <3>2, <4>1, <4>2 DEF QInv, SlotsAddUp, LineShort, GrowsBy
    <3>3. QED
      BY <3>1, <3>2
  <2>5. QED
    BY <1>2, <2>1, <2>3, <2>4 DEF QInv, Serves
<1>4. CASE c \in held /\ isEnabled
  <2>1. capacity' = capacity + 1 /\ resolveNext(queue, h) /\ isEnabled' = isEnabled
    BY <1>4 DEF dequeue
  <2>2. Cardinality(h) = n - 1
    BY <1>1, <1>4, HeldIsFinite, FS_RemoveElement
  <2>. HIDE DEF h, n, k
  <2>3. /\ queue' \in Seq(Calls) /\ held' \in SUBSET Calls /\ Lined(queue', held')
        /\ h \subseteq held' /\ held' \subseteq h \cup SetOf(queue)
        /\ SetOf(queue') \subseteq SetOf(queue)
        /\ queue = <<>> => queue' = <<>> /\ k = n - 1
        /\ queue # <<>> => Len(queue') = Len(queue) - 1 /\ k = n
    <3>1. /\ queue' \in Seq(Calls) /\ held' \in SUBSET Calls /\ Lined(queue', held')
          /\ h \subseteq held' /\ held' \subseteq h \cup SetOf(queue)
          /\ SetOf(queue') \subseteq SetOf(queue)
          /\ queue = <<>> => queue' = <<>> /\ k = Cardinality(h)
          /\ queue # <<>> => Len(queue') = Len(queue) - 1 /\ k = Cardinality(h) + 1
      BY <1>1, <1>2, <2>1, ResolveNextServes DEF k
    <3>2. QED
      BY <1>1, <2>2, <3>1
  <2>4. Len(<<>>) = 0
    BY EmptySeq
  <2>5. k \in Nat /\ k <= n
    BY <1>1, <2>3, HeldIsFinite DEF k
  <2>6. capacity' = Limit - k - Len(queue')
    BY <1>1, <1>4, <2>1, <2>3, <2>4
  <2>7. ASSUME queue' # <<>> PROVE capacity' + Len(queue') <= 0
    <3>1. queue # <<>>
      BY <2>3, <2>7
    <3>2. capacity + Len(queue) <= 0
      BY <1>1, <1>4, <3>1
    <3>3. Len(queue') \in {Len(queue) - 1, Len(queue) - 2}
      BY <2>3, <3>1
    <3>4. capacity' = capacity + 1
      BY <2>1
    <3>5. QED
      BY <1>1, <3>2, <3>3, <3>4, SumStaysShort
  <2>8. QueueTypeOK'
    <3>1. Len(queue') \in Nat
      BY <2>3, LenProperties
    <3>2. capacity' \in Int /\ capacity' <= Limit
      BY <1>1, <2>5, <2>6, <3>1, CounterBelow
    <3>3. QED
      BY <1>1, <2>1, <2>3, <3>2 DEF QueueTypeOK
  <2>9. SlotsAddUp' /\ GrowsBy(0)
    BY <1>1, <1>4, <2>1, <2>5, <2>6 DEF SlotsAddUp, GrowsBy, n, k
  <2>10. Serves /\ held \ {c} \subseteq held' /\ (c \notin SetOf(queue) => c \notin held')
    BY <2>3 DEF Serves, h
  <2>11. QED
    BY <2>3, <2>7, <2>8, <2>9, <2>10 DEF QInv, LineShort
<1>5. QED
  BY <1>3, <1>4

\* Removal wakes somebody without a slot: the only step that adds to the overrun.
LEMMA RemoveKeepsQueue ==
    ASSUME QInv, NEW i \in 1..Len(queue), isEnabled, remove(i)
    PROVE  QInv' /\ GrowsBy(1) /\ Serves /\ held \subseteq held'
<1>. DEFINE q == RemoveAt(queue, i)
            n == Cardinality(held)
            k == Cardinality(held')
<1>1. /\ queue \in Seq(Calls) /\ held \in SUBSET Calls /\ Lined(queue, held)
      /\ capacity \in Int /\ capacity <= Limit /\ Limit \in Nat
      /\ Len(queue) \in Nat /\ n \in Nat
      /\ capacity = Limit - n - Len(queue)
      /\ queue = <<>> \/ capacity + Len(queue) <= 0
  BY QFacts
<1>2. q \in Seq(Calls) /\ Len(q) = Len(queue) - 1
  BY <1>1, RemoveAtKeepsOrder
<1>3. Lined(q, held) /\ SetOf(q) \subseteq SetOf(queue)
  <2>1. Lined(q, held \cup {queue[i]}) /\ SetOf(q) \subseteq SetOf(queue)
    BY <1>1, LineShrinks
  <2>2. QED
    BY <2>1 DEF Lined
<1>4. capacity' = capacity + 1 /\ resolveNext(q, held) /\ isEnabled' = isEnabled
  BY DEF remove
<1>. HIDE DEF q, n, k
<1>5. /\ queue' \in Seq(Calls) /\ held' \in SUBSET Calls /\ Lined(queue', held')
      /\ held \subseteq held' /\ held' \subseteq held \cup SetOf(q)
      /\ SetOf(queue') \subseteq SetOf(q)
      /\ q = <<>> => queue' = <<>> /\ k = n
      /\ q # <<>> => Len(queue') = Len(q) - 1 /\ k = n + 1
  BY <1>1, <1>2, <1>3, <1>4, ResolveNextServes DEF k, n
<1>6. Len(<<>>) = 0
  BY EmptySeq
<1>7. capacity + Len(queue) <= 0
  BY <1>1, <1>6
<1>8. k \in Nat /\ k <= n + 1
  BY <1>1, <1>5, HeldIsFinite DEF k
<1>9. capacity' = Limit - k - Len(queue')
  BY <1>1, <1>2, <1>4, <1>5, <1>6
<1>10. ASSUME queue' # <<>> PROVE capacity' + Len(queue') <= 0
  <2>1. Len(queue') \in {Len(queue) - 1, Len(queue) - 2}
    BY <1>1, <1>2, <1>5, <1>10
  <2>2. capacity' = capacity + 1
    BY <1>4
  <2>3. QED
    BY <1>1, <1>7, <2>1, <2>2, SumStaysShort
<1>11. QueueTypeOK'
  <2>1. Len(queue') \in Nat
    BY <1>5, LenProperties
  <2>2. capacity' \in Int /\ capacity' <= Limit
    BY <1>1, <1>8, <1>9, <2>1, CounterBelow
  <2>3. QED
    BY <1>4, <1>5, <2>2 DEF QueueTypeOK
<1>12. SlotsAddUp' /\ GrowsBy(1)
  BY <1>1, <1>4, <1>8, <1>9 DEF SlotsAddUp, GrowsBy, n, k
<1>13. Serves
  BY <1>3, <1>5 DEF Serves
<1>14. QED
  BY <1>5, <1>10, <1>11, <1>12, <1>13 DEF QInv, LineShort

\* A disabled queue counts nothing any more.
LEMMA DisableKeepsQueue ==
    ASSUME QInv, disable
    PROVE  QInv' /\ GrowsBy(0) /\ Serves /\ held' = held /\ ~isEnabled'
<1>1. capacity' = capacity /\ queue' = queue /\ ~isEnabled' /\ held' = held /\ isEnabled' = FALSE
  BY DEF disable
<1>2. QInv'
  BY <1>1 DEF QInv, QueueTypeOK, SlotsAddUp, LineShort
<1>3. QED
  BY <1>1, <1>2 DEF GrowsBy, Serves

\* The process ends: nobody waits and nobody holds a slot.
LEMMA BootKeepsQueue ==
    ASSUME Boot
    PROVE  QInv' /\ Cardinality(held') = 0
<1>1. capacity' = Limit /\ queue' = <<>> /\ isEnabled' = TRUE /\ held' = {}
  BY DEF Boot
<1>2. Cardinality(held') = 0
  BY <1>1, FS_EmptySet
<1>3. queue' \in Seq(Calls) /\ Len(queue') = 0
  BY <1>1, EmptySeq
<1>4. Lined(queue', held')
  BY <1>1, <1>3 DEF Lined
<1>5. QueueTypeOK' /\ SlotsAddUp' /\ LineShort'
  BY <1>1, <1>2, <1>3, LimitAssumption DEF QueueTypeOK, SlotsAddUp, LineShort
<1>6. QED
  BY <1>2, <1>4, <1>5 DEF QInv

LEMMA MinIsMember ==
    ASSUME NEW S, S \subseteq Nat, S # {}
    PROVE  Min(S) \in S
<1>1. PICK m \in S : \A n \in S : <<n, m>> \notin OpToRel(<, Nat)
  BY WFMin, NatLessThanWellFounded, Zenon
<1>2. \A n \in S : ~(n < m)
  BY <1>1, Zenon DEF OpToRel
<1>3. \A n \in S : m <= n
  BY <1>2
<1>4. QED
  BY <1>3 DEF Min

LEMMA QueuedPosition ==
    ASSUME QInv, NEW e \in Calls, Queued(e) # {}
    PROVE  Min(Queued(e)) \in 1..Len(queue)
<1>1. queue \in Seq(Calls)
  BY DEF QInv, QueueTypeOK
<1>2. DOMAIN queue = 1..Len(queue) /\ Len(queue) \in Nat
  BY <1>1, LenProperties
<1>3. Queued(e) \subseteq 1..Len(queue)
  BY <1>2 DEF Queued
<1>4. Queued(e) \subseteq Nat
  BY <1>2, <1>3
<1>5. QED
  BY <1>3, <1>4, MinIsMember

-----------------------------------------------------------------------------
(* Type correctness.                                                       *)

BookTypeOK ==
    /\ step \in [Calls -> Steps]
    /\ exec \in [Calls -> Calls]
    /\ status \in [Calls -> Statuses]
    /\ cancels \in [Calls -> Nat]
    /\ entry \in [Calls -> Calls \cup {NoCall}]
    /\ waits \subseteq Calls /\ attached \subseteq Calls
    /\ stopping \subseteq Calls /\ rerun \subseteq Calls /\ reruns \subseteq Calls
    /\ stopped \subseteq Calls /\ crossed \subseteq Calls /\ resaved \subseteq Calls
    /\ removals \in Nat
    /\ stops \in 0..MaxStops
    /\ restarts \in 0..MaxRestarts
    /\ faults \in 0..MaxFaults

LEMMA TypeIs == TypeOK <=> QueueTypeOK /\ BookTypeOK
BY DEF TypeOK, BookTypeOK

LEMMA BoundsAre == MaxStops \in Nat /\ MaxRestarts \in Nat /\ MaxFaults \in Nat
BY ExecutionBoundsAssumption

LEMMA FaultCounted ==
    ASSUME BookTypeOK, Fault
    PROVE  faults' \in 0..MaxFaults /\ stops' = stops /\ restarts' = restarts
BY BoundsAre DEF Fault, BookTypeOK

LEMMA SetStatusType ==
    ASSUME BookTypeOK, NEW e \in Calls, NEW s \in Statuses,
           SetStatus(e, s) \/ SetUnlessCanceled(e, s) \/ UNCHANGED status
    PROVE  status' \in [Calls -> Statuses]
BY DEF BookTypeOK, SetStatus, SetUnlessCanceled

LEMMA GoToType ==
    ASSUME BookTypeOK, NEW c \in Calls, NEW s \in Steps, GoTo(c, s)
    PROVE  step' \in [Calls -> Steps]
BY DEF BookTypeOK, GoTo

LEMMA SettleType ==
    ASSUME BookTypeOK, NEW c \in Calls, settle(c)
    PROVE  entry' \in [Calls -> Calls \cup {NoCall}]
BY DEF BookTypeOK, settle

LEMMA StopExecutionType ==
    ASSUME BookTypeOK, NEW e \in Calls, stopExecution(e)
    PROVE  /\ step' \in [Calls -> Steps]
           /\ entry' \in [Calls -> Calls \cup {NoCall}]
           /\ stopped' \subseteq Calls
<1>1. CASE entry[e] = NoCall /\ UNCHANGED <<queueVars, step, entry, stopped>>
  BY <1>1 DEF BookTypeOK
<1>2. CASE entry' = [entry EXCEPT ![e] = NoCall] /\ stopped' = stopped \cup {e}
           /\ UNCHANGED <<queueVars, step>>
  BY <1>2 DEF BookTypeOK
<1>3. ASSUME NEW c \in Calls \ waits, settle(c), stopped' = stopped \cup {e},
             step' = [step EXCEPT ![c] =
                       IF IsRun(c) /\ @ # "saved" /\ c \notin resaved THEN "cancelled" ELSE @]
      PROVE  /\ step' \in [Calls -> Steps]
             /\ entry' \in [Calls -> Calls \cup {NoCall}]
             /\ stopped' \subseteq Calls
  <2>1. entry' \in [Calls -> Calls \cup {NoCall}]
    BY <1>3, SettleType
  <2>2. QED
    BY <1>3, <2>1 DEF BookTypeOK, Steps
<1>4. QED
  BY <1>1, <1>2, <1>3 DEF stopExecution

LEMMA CancelWritesType == \A e \in Calls : CancelWrites(e) \in Nat
BY DEF CancelWrites

LEMMA CallKeepsBook ==
    ASSUME BookTypeOK, NEW c \in Calls, Create(c) \/ CallStep(c) \/ Timeout(c)
    PROVE  BookTypeOK' /\ removals' = removals
<1>. USE DEF rowVars, listVars, pastVars, bounds
<1>1. exec[c] \in Calls
  BY DEF BookTypeOK
<1>2. CASE Create(c)
  <2>1. step' \in [Calls -> Steps] /\ status' \in [Calls -> Statuses]
    BY <1>2, GoToType, SetStatusType DEF Create, Steps, Statuses
  <2>2. QED
    BY <1>2, <2>1 DEF Create, BookTypeOK
<1>3. CASE Reserve(c)
  <2>1. step' \in [Calls -> Steps]
    BY <1>3, GoToType DEF Reserve, Steps
  <2>2. QED
    BY <1>3, <2>1 DEF Reserve, BookTypeOK
<1>4. CASE MarkRunning(c)
  <2>1. step' \in [Calls -> Steps]
    BY <1>4, GoToType DEF MarkRunning, Steps
  <2>2. status' \in [Calls -> Statuses]
    BY <1>1, <1>4, SetStatusType DEF MarkRunning, Statuses
  <2>3. QED
    BY <1>4, <2>1, <2>2 DEF MarkRunning, BookTypeOK
<1>5. CASE MarkRunningFails(c)
  <2>1. step' \in [Calls -> Steps]
    BY <1>5, GoToType DEF MarkRunningFails, Steps
  <2>2. QED
    BY <1>5, <2>1, FaultCounted DEF MarkRunningFails, BookTypeOK
<1>6. CASE Register(c)
  <2>1. step' \in [Calls -> Steps]
    BY <1>6, GoToType DEF Register, Steps
  <2>2. entry' \in [Calls -> Calls \cup {NoCall}] /\ crossed' \subseteq Calls
    BY <1>1, <1>6 DEF Register, BookTypeOK
  <2>3. QED
    BY <1>6, <2>1, <2>2 DEF Register, BookTypeOK
<1>7. CASE CheckFails(c)
  <2>1. step' \in [Calls -> Steps]
    BY <1>7, GoToType DEF CheckFails, Steps
  <2>2. status' \in [Calls -> Statuses]
    BY <1>1, <1>7, SetStatusType DEF CheckFails, Statuses
  <2>3. QED
    BY <1>7, <2>1, <2>2 DEF CheckFails, BookTypeOK
<1>8. CASE RunFails(c)
  <2>1. step' \in [Calls -> Steps]
    BY <1>8, GoToType DEF RunFails, Steps
  <2>2. status' \in [Calls -> Statuses]
    BY <1>1, <1>8, SetStatusType DEF RunFails, Statuses
  <2>3. QED
    BY <1>8, <2>1, <2>2, FaultCounted DEF RunFails, BookTypeOK
<1>9. CASE FindsNoEntry(c)
  <2>1. step' \in [Calls -> Steps]
    BY <1>9, GoToType DEF FindsNoEntry, Steps
  <2>2. QED
    BY <1>9, <2>1 DEF FindsNoEntry, BookTypeOK
<1>10. CASE RunMainProcess(c)
  <2>1. step' \in [Calls -> Steps]
    BY <1>10, GoToType DEF RunMainProcess, Steps
  <2>2. status' \in [Calls -> Statuses]
    BY <1>1, <1>10, SetStatusType DEF RunMainProcess, Statuses
  <2>3. QED
    BY <1>10, <2>1, <2>2 DEF RunMainProcess, BookTypeOK
<1>11. CASE PutToWait(c)
  <2>1. step' \in [Calls -> Steps]
    BY <1>11, GoToType DEF PutToWait, Steps
  <2>2. waits' \subseteq Calls
    BY <1>1, <1>11 DEF PutToWait, BookTypeOK
  <2>3. QED
    BY <1>11, <2>1, <2>2 DEF PutToWait, BookTypeOK
<1>12. Outcome(c) \in Statuses
  BY DEF Outcome, Statuses
<1>13. CASE Save(c)
  <2>1. step' \in [Calls -> Steps]
    BY <1>13, GoToType DEF Save, Steps
  <2>2. status' \in [Calls -> Statuses]
    BY <1>1, <1>12, <1>13, SetStatusType DEF Save
  <2>3. QED
    BY <1>13, <2>1, <2>2 DEF Save, BookTypeOK
<1>14. CASE SaveRejects(c)
  <2>1. step' \in [Calls -> Steps]
    <3>1. GoTo(c, "saved") \/ step' = step
      BY <1>14 DEF SaveRejects
    <3>2. QED
      BY <3>1, GoToType DEF Steps, BookTypeOK
  <2>2. status' \in [Calls -> Statuses]
    BY <1>1, <1>12, <1>14, SetStatusType DEF SaveRejects
  <2>3. QED
    BY <1>14, <2>1, <2>2, FaultCounted DEF SaveRejects, BookTypeOK
<1>15. CASE Finalize(c)
  <2>1. step' \in [Calls -> Steps]
    BY <1>15, GoToType DEF Finalize, Steps
  <2>2. entry' \in [Calls -> Calls \cup {NoCall}]
    <3>1. CASE entry' = entry
      BY <3>1 DEF BookTypeOK
    <3>2. CASE entry[exec[c]] # NoCall /\ settle(entry[exec[c]])
      <4>1. entry[exec[c]] \in Calls
        BY <1>1, <3>2 DEF BookTypeOK
      <4>2. QED
        BY <3>2, <4>1, SettleType
    <3>3. QED
      BY <1>15, <3>1, <3>2 DEF Finalize, finalizeExecution
  <2>3. QED
    BY <1>15, <2>1, <2>2 DEF Finalize, BookTypeOK
<1>16. CASE Timeout(c)
  <2>1. /\ step' \in [Calls -> Steps]
        /\ entry' \in [Calls -> Calls \cup {NoCall}]
        /\ stopped' \subseteq Calls
    BY <1>1, <1>16, StopExecutionType DEF Timeout
  <2>2. cancels' \in [Calls -> Nat]
    BY <1>1, <1>16, CancelWritesType DEF Timeout, BookTypeOK
  <2>3. stops' \in 0..MaxStops
    BY <1>16, BoundsAre DEF Timeout, BookTypeOK
  <2>4. QED
    BY <1>16, <2>1, <2>2, <2>3 DEF Timeout, BookTypeOK
<1>17. QED
  BY <1>2, <1>3, <1>4, <1>5, <1>6, <1>7, <1>8, <1>9, <1>10, <1>11, <1>13, <1>14, <1>15, <1>16
     DEF CallStep

LEMMA ExecutionKeepsBook ==
    ASSUME BookTypeOK, NEW e \in Calls,
           Stop(e) \/ StopQueued(e) \/ StopListed(e) \/ WriteCanceled(e) \/ CancelFails(e)
    PROVE  /\ BookTypeOK'
           /\ removals' = removals \/ (StopQueued(e) /\ removals' = removals + 1)
<1>. USE DEF rowVars, listVars, pastVars, bounds
<1>1. CASE Stop(e)
  BY <1>1, BoundsAre DEF Stop, BookTypeOK
<1>2. CASE StopQueued(e)
  BY <1>2 DEF StopQueued, BookTypeOK
<1>3. CASE StopListed(e)
  <2>1. /\ step' \in [Calls -> Steps]
        /\ entry' \in [Calls -> Calls \cup {NoCall}]
        /\ stopped' \subseteq Calls
    BY <1>3, StopExecutionType DEF StopListed
  <2>2. cancels' \in [Calls -> Nat]
    BY <1>3, CancelWritesType DEF StopListed, BookTypeOK
  <2>3. QED
    BY <1>3, <2>1, <2>2 DEF StopListed, BookTypeOK
<1>4. CASE WriteCanceled(e)
  <2>1. status' \in [Calls -> Statuses]
    BY <1>4, SetStatusType DEF WriteCanceled, Statuses
  <2>2. cancels' \in [Calls -> Nat]
    BY <1>4 DEF WriteCanceled, BookTypeOK
  <2>3. QED
    BY <1>4, <2>1, <2>2 DEF WriteCanceled, BookTypeOK
<1>5. CASE CancelFails(e)
  <2>1. cancels' \in [Calls -> Nat]
    BY <1>5 DEF CancelFails, BookTypeOK
  <2>2. QED
    BY <1>5, <2>1, FaultCounted DEF CancelFails, BookTypeOK
<1>6. QED
  BY <1>1, <1>2, <1>3, <1>4, <1>5

LEMMA BootKeepsBook ==
    ASSUME BookTypeOK, Boot, restarts' \in 0..MaxRestarts
    PROVE  BookTypeOK' /\ removals' = 0
BY DEF Boot, BookTypeOK, Steps, Statuses

LEMMA PickUpKeepsBook ==
    ASSUME BookTypeOK, NEW c \in Calls, NEW e \in Calls, Resume(c, e) \/ Rerun(c, e)
    PROVE  BookTypeOK' /\ removals' = removals
<1>. USE DEF rowVars, listVars, pastVars, bounds
<1>1. step' \in [Calls -> Steps]
  BY GoToType DEF Resume, Rerun, Steps
<1>2. QED
  BY <1>1 DEF Resume, Rerun, BookTypeOK

LEMMA ShutdownKeepsBook ==
    ASSUME BookTypeOK, Shutdown
    PROVE  BookTypeOK' /\ removals' = removals
BY BoundsAre DEF Shutdown, BookTypeOK, rowVars, pastVars

-----------------------------------------------------------------------------
(* The inductive invariant of the slots.                                   *)

\* Whoever is in the line is in reserve(), and nobody has a reservation before.
StepsOfSlots ==
    /\ \A c \in SetOf(queue) : step[c] = "reserving"
    /\ \A c \in held : step[c] \notin {"idle", "created"}

SlotBound == isEnabled => Cardinality(held) <= Limit + removals

\* What the theorems below rest on: the line holds each waiting call once, the
\* counter adds up, a line only forms when every slot is reserved, and only
\* removals let more than the limit be reserved.
SlotInv == TypeOK /\ QInv /\ StepsOfSlots /\ SlotBound

\* A call that is neither in the line nor before its reservation may go anywhere.
MovesOn(c) ==
    \/ step'[c] = step[c]
    \/ c \notin SetOf(queue) /\ step'[c] \notin {"idle", "created"}
    \/ c \notin SetOf(queue) /\ c \notin held

LEMMA StepKeepsSlots ==
    ASSUME QInv, StepsOfSlots, SlotBound, removals \in Nat, QInv', Serves,
           NEW n \in Nat, GrowsBy(n), removals' = removals + n,
           \A c \in Calls : MovesOn(c)
    PROVE  StepsOfSlots' /\ SlotBound'
<1>1. /\ SetOf(queue) \subseteq Calls /\ held \subseteq Calls
      /\ Cardinality(held) \in Nat /\ Limit \in Nat
  BY QFacts, LineIs
<1>2. Cardinality(held') \in Nat
  BY HeldIsFinite DEF QInv, QueueTypeOK
<1>3. StepsOfSlots'
  <2>1. \A c \in SetOf(queue') : step'[c] = "reserving"
    BY <1>1 DEF Serves, MovesOn, StepsOfSlots
  <2>2. \A c \in held' : step'[c] \notin {"idle", "created"}
    BY <1>1 DEF Serves, MovesOn, StepsOfSlots
  <2>3. QED
    BY <2>1, <2>2 DEF StepsOfSlots
<1>4. SlotBound'
  BY <1>1, <1>2 DEF SlotBound, GrowsBy
<1>5. QED
  BY <1>3, <1>4

LEMMA NotInLine ==
    ASSUME QInv, StepsOfSlots, NEW c \in Calls, step[c] # "reserving" \/ c \in held
    PROVE  c \notin SetOf(queue)
BY DEF QInv, Lined, SetOf, StepsOfSlots

LEMMA GoToMovesOn ==
    ASSUME QInv, StepsOfSlots, BookTypeOK, NEW c \in Calls, NEW to,
           step[c] # "reserving" \/ c \in held, to \notin {"idle", "created"}, GoTo(c, to)
    PROVE  \A d \in Calls : MovesOn(d)
BY NotInLine DEF GoTo, MovesOn, BookTypeOK

\* A promise that settles gives back at most the slot of its own call.
LEMMA SettleKeepsQueue ==
    ASSUME QInv, NEW c \in Calls, settle(c)
    PROVE  QInv' /\ GrowsBy(0) /\ Serves /\ held \ {c} \subseteq held'
           /\ (c \notin SetOf(queue) => c \notin held')
BY DequeueKeepsQueue DEF settle

LEMMA FinalizeKeepsQueue ==
    ASSUME QInv, BookTypeOK, NEW e \in Calls, finalizeExecution(e)
    PROVE  QInv' /\ GrowsBy(0) /\ Serves
<1>1. CASE UNCHANGED <<queueVars, entry>>
  BY <1>1, UnchangedKeepsQueue
<1>2. CASE entry[e] # NoCall /\ settle(entry[e])
  <2>1. entry[e] \in Calls
    BY <1>2 DEF BookTypeOK
  <2>2. QED
    BY <1>2, <2>1, SettleKeepsQueue
<1>3. QED
  BY <1>1, <1>2 DEF finalizeExecution

LEMMA StopExecutionKeepsSlots ==
    ASSUME QInv, StepsOfSlots, BookTypeOK, NEW e \in Calls, stopExecution(e)
    PROVE  QInv' /\ GrowsBy(0) /\ Serves /\ \A d \in Calls : MovesOn(d)
<1>1. CASE UNCHANGED queueVars /\ step' = step
  BY <1>1, UnchangedKeepsQueue DEF MovesOn
<1>2. ASSUME NEW c \in Calls \ waits, settle(c),
             step' = [step EXCEPT ![c] =
                       IF IsRun(c) /\ @ # "saved" /\ c \notin resaved THEN "cancelled" ELSE @]
      PROVE  QInv' /\ GrowsBy(0) /\ Serves /\ \A d \in Calls : MovesOn(d)
  <2>1. QInv' /\ GrowsBy(0) /\ Serves
    BY <1>2, SettleKeepsQueue
  <2>2. step' = step \/ (IsRun(c) /\ GoTo(c, "cancelled"))
    BY <1>2 DEF GoTo, BookTypeOK
  <2>3. \A d \in Calls : MovesOn(d)
    <3>1. CASE step' = step
      BY <3>1 DEF MovesOn
    <3>2. CASE IsRun(c) /\ GoTo(c, "cancelled")
      <4>1. step[c] # "reserving"
        BY <3>2 DEF IsRun
      <4>2. QED
        BY <3>2, <4>1, GoToMovesOn
    <3>3. QED
      BY <2>2, <3>1, <3>2
  <2>4. QED
    BY <2>1, <2>3
<1>3. QED
  BY <1>1, <1>2 DEF stopExecution

\* What a call does moves it on, and nobody out of turn.
LEMMA CallKeepsSlots ==
    ASSUME QInv, StepsOfSlots, SlotBound, BookTypeOK, NEW c \in Calls,
           Create(c) \/ CallStep(c) \/ Timeout(c)
    PROVE  QInv' /\ StepsOfSlots' /\ SlotBound'
<1>1. removals \in Nat /\ removals' = removals + 0 /\ exec[c] \in Calls
  BY CallKeepsBook DEF BookTypeOK
<1>2. SUFFICES ASSUME ~Reserve(c)
               PROVE  QInv' /\ GrowsBy(0) /\ Serves /\ \A d \in Calls : MovesOn(d)
  <2>1. CASE Reserve(c)
    <3>1. step[c] = "created" /\ enqueue(c) /\ step' = [step EXCEPT ![c] = "reserving"]
      BY <2>1 DEF Reserve, GoTo
    <3>2. c \notin held /\ c \notin SetOf(queue)
      BY <3>1 DEF StepsOfSlots
    <3>3. /\ QInv' /\ GrowsBy(0)
          /\ held \subseteq held' /\ held' \subseteq held \cup {c}
          /\ SetOf(queue') \subseteq SetOf(queue) \cup {c}
      BY <3>1, <3>2, EnqueueKeepsQueue
    <3>4. held \subseteq Calls /\ SetOf(queue) \subseteq Calls
      BY QFacts, LineIs
    <3>5. StepsOfSlots'
      <4>1. \A d \in Calls : step'[d] = IF d = c THEN "reserving" ELSE step[d]
        BY <3>1 DEF BookTypeOK
      <4>2. \A d \in SetOf(queue') : step'[d] = "reserving"
        BY <3>3, <3>4, <4>1 DEF StepsOfSlots
      <4>3. \A d \in held' : step'[d] \notin {"idle", "created"}
        BY <3>3, <3>4, <4>1 DEF StepsOfSlots
      <4>4. QED
        BY <4>2, <4>3 DEF StepsOfSlots
    <3>6. Cardinality(held) \in Nat /\ Cardinality(held') \in Nat /\ Limit \in Nat
      BY <3>3, QFacts, HeldIsFinite DEF QInv, QueueTypeOK
    <3>7. SlotBound'
      BY <1>1, <3>3, <3>6 DEF SlotBound, GrowsBy
    <3>8. QED
      BY <3>3, <3>5, <3>7
  <2>2. QED
    BY <1>1, <1>2, <2>1, StepKeepsSlots
<1>3. CASE Create(c)
  <2>1. step[c] = "idle" /\ UNCHANGED queueVars /\ step' = [step EXCEPT ![c] = "created"]
    BY <1>3 DEF Create, GoTo
  <2>2. c \notin SetOf(queue) /\ c \notin held
    BY <2>1 DEF StepsOfSlots
  <2>3. \A d \in Calls : MovesOn(d)
    BY <2>1, <2>2 DEF MovesOn, BookTypeOK
  <2>4. QED
    BY <2>1, <2>3, UnchangedKeepsQueue
<1>4. CASE \E to \in Steps \ {"idle", "created"} :
             step[c] # "reserving" /\ GoTo(c, to) /\ UNCHANGED queueVars
  BY <1>4, GoToMovesOn, UnchangedKeepsQueue
<1>5. CASE MarkRunning(c) \/ MarkRunningFails(c)
  <2>1. /\ step[c] = "reserving" /\ c \in held
        /\ dequeue(c) \/ UNCHANGED queueVars
        /\ GoTo(c, "marked") \/ GoTo(c, "refused") \/ GoTo(c, "ended")
    BY <1>5 DEF MarkRunning, MarkRunningFails, Reserved
  <2>2. \A d \in Calls : MovesOn(d)
    BY <2>1, GoToMovesOn
  <2>3. QED
    BY <2>1, <2>2, UnchangedKeepsQueue, DequeueKeepsQueue
<1>6. CASE SaveRejects(c)
  <2>1. /\ step[c] # "reserving" /\ UNCHANGED queueVars
        /\ GoTo(c, "saved") \/ step' = step
    BY <1>6 DEF SaveRejects
  <2>2. \A d \in Calls : MovesOn(d)
    BY <2>1, GoToMovesOn DEF MovesOn
  <2>3. QED
    BY <2>1, <2>2, UnchangedKeepsQueue
<1>7. CASE Finalize(c)
  <2>1. /\ step[c] # "reserving" /\ GoTo(c, "ended")
        /\ finalizeExecution(exec[c]) \/ UNCHANGED queueVars
    BY <1>7 DEF Finalize
  <2>2. \A d \in Calls : MovesOn(d)
    BY <2>1, GoToMovesOn
  <2>3. QED
    BY <1>1, <2>1, <2>2, UnchangedKeepsQueue, FinalizeKeepsQueue
<1>8. CASE Timeout(c)
  BY <1>1, <1>8, StopExecutionKeepsSlots DEF Timeout
<1>9. QED
  BY <1>2, <1>3, <1>4, <1>5, <1>6, <1>7, <1>8
     DEF CallStep, Register, CheckFails, RunFails, FindsNoEntry, RunMainProcess, PutToWait,
         Save, Steps

LEMMA ExecutionKeepsSlots ==
    ASSUME QInv, StepsOfSlots, SlotBound, BookTypeOK, NEW e \in Calls,
           Stop(e) \/ StopQueued(e) \/ StopListed(e) \/ WriteCanceled(e) \/ CancelFails(e)
    PROVE  QInv' /\ StepsOfSlots' /\ SlotBound'
<1>1. removals \in Nat
  BY DEF BookTypeOK
<1>2. CASE Stop(e) \/ WriteCanceled(e) \/ CancelFails(e)
  <2>1. UNCHANGED queueVars /\ step' = step /\ removals' = removals + 0
    BY <1>1, <1>2 DEF Stop, WriteCanceled, CancelFails, pastVars
  <2>2. \A d \in Calls : MovesOn(d)
    BY <2>1 DEF MovesOn
  <2>3. QED
    BY <1>1, <2>1, <2>2, UnchangedKeepsQueue, StepKeepsSlots
<1>3. CASE StopQueued(e)
  <2>1. /\ isEnabled /\ Queued(e) # {} /\ remove(Min(Queued(e)))
        /\ step' = step /\ removals' = removals + 1
    BY <1>3 DEF StopQueued
  <2>2. Min(Queued(e)) \in 1..Len(queue)
    BY <2>1, QueuedPosition
  <2>3. QInv' /\ GrowsBy(1) /\ Serves
    BY <2>1, <2>2, RemoveKeepsQueue
  <2>4. \A d \in Calls : MovesOn(d)
    BY <2>1 DEF MovesOn
  <2>5. QED
    BY <1>1, <2>1, <2>3, <2>4, StepKeepsSlots
<1>4. CASE StopListed(e)
  <2>1. stopExecution(e) /\ removals' = removals + 0
    BY <1>1, <1>4 DEF StopListed
  <2>2. QED
    BY <1>1, <2>1, StopExecutionKeepsSlots, StepKeepsSlots
<1>5. QED
  BY <1>2, <1>3, <1>4

LEMMA PickUpKeepsSlots ==
    ASSUME QInv, StepsOfSlots, SlotBound, BookTypeOK, NEW c \in Calls, NEW e \in Calls,
           Resume(c, e) \/ Rerun(c, e)
    PROVE  QInv' /\ StepsOfSlots' /\ SlotBound'
<1>1. /\ step[c] = "idle" /\ UNCHANGED queueVars /\ step' = [step EXCEPT ![c] = "created"]
      /\ removals \in Nat /\ removals' = removals + 0
  BY DEF Resume, Rerun, GoTo, pastVars, BookTypeOK
<1>2. c \notin SetOf(queue) /\ c \notin held
  BY <1>1 DEF StepsOfSlots
<1>3. \A d \in Calls : MovesOn(d)
  BY <1>1, <1>2 DEF MovesOn, BookTypeOK
<1>4. QED
  BY <1>1, <1>3, UnchangedKeepsQueue, StepKeepsSlots

LEMMA BootKeepsSlots ==
    ASSUME Boot
    PROVE  QInv' /\ StepsOfSlots' /\ SlotBound'
<1>1. QInv' /\ Cardinality(held') = 0
  BY BootKeepsQueue
<1>2. held' = {} /\ queue' = <<>> /\ removals' = 0
  BY DEF Boot
<1>3. SetOf(queue') = {}
  BY <1>2, EmptySeq DEF SetOf
<1>4. QED
  BY <1>1, <1>2, <1>3, LimitAssumption DEF StepsOfSlots, SlotBound

LEMMA InitSlotInv == Init => SlotInv
<1>. SUFFICES ASSUME Init PROVE SlotInv
  OBVIOUS
<1>2. capacity = Limit /\ queue = <<>> /\ isEnabled = TRUE /\ held = {}
  BY DEF Init, QueueInit
<1>3. queue \in Seq(Calls) /\ Len(queue) = 0 /\ Cardinality(held) = 0
  BY <1>2, EmptySeq, FS_EmptySet
<1>4. Limit \in Nat
  BY LimitAssumption
<1>5. QueueTypeOK /\ Lined(queue, held) /\ SlotsAddUp /\ LineShort
  BY <1>2, <1>3, <1>4 DEF QueueTypeOK, Lined, SlotsAddUp, LineShort
<1>6. BookTypeOK
  <2>1. 0 \in 0..MaxStops /\ 0 \in 0..MaxRestarts /\ 0 \in 0..MaxFaults
    BY BoundsAre
  <2>2. QED
    BY <2>1 DEF Init, BookTypeOK, Steps, Statuses
<1>7. StepsOfSlots /\ SlotBound
  <2>1. SetOf(queue) = {}
    BY <1>3 DEF SetOf
  <2>2. removals = 0
    BY DEF Init
  <2>3. QED
    BY <1>2, <1>3, <1>4, <2>1, <2>2 DEF StepsOfSlots, SlotBound
<1>8. QED
  BY <1>5, <1>6, <1>7, TypeIs DEF SlotInv, QInv

LEMMA NextSlotInv == SlotInv /\ [Next]_vars => SlotInv'
<1>1. SUFFICES ASSUME SlotInv, [Next]_vars PROVE SlotInv'
  OBVIOUS
<1>2. QInv /\ StepsOfSlots /\ SlotBound /\ BookTypeOK
  BY <1>1, TypeIs DEF SlotInv
<1>3. SUFFICES BookTypeOK' /\ QInv' /\ StepsOfSlots' /\ SlotBound'
  BY TypeIs DEF SlotInv, QInv, TypeOK, BookTypeOK
<1>4. ASSUME NEW c \in Calls, Create(c) \/ CallStep(c) \/ Timeout(c)
      PROVE  BookTypeOK' /\ QInv' /\ StepsOfSlots' /\ SlotBound'
  BY <1>2, <1>4, CallKeepsBook, CallKeepsSlots
<1>5. ASSUME NEW c \in Calls, NEW e \in Calls, Resume(c, e) \/ Rerun(c, e)
      PROVE  BookTypeOK' /\ QInv' /\ StepsOfSlots' /\ SlotBound'
  BY <1>2, <1>5, PickUpKeepsBook, PickUpKeepsSlots
<1>6. ASSUME NEW e \in Calls,
             Stop(e) \/ StopQueued(e) \/ StopListed(e) \/ WriteCanceled(e) \/ CancelFails(e)
      PROVE  BookTypeOK' /\ QInv' /\ StepsOfSlots' /\ SlotBound'
  BY <1>2, <1>6, ExecutionKeepsBook, ExecutionKeepsSlots
<1>7. CASE Shutdown
  <2>1. BookTypeOK' /\ removals' = removals + 0 /\ removals \in Nat
    BY <1>2, <1>7, ShutdownKeepsBook DEF BookTypeOK
  <2>2. disable /\ step' = step
    BY <1>7 DEF Shutdown
  <2>3. \A d \in Calls : MovesOn(d)
    BY <2>2 DEF MovesOn
  <2>4. QED
    BY <1>2, <2>1, <2>2, <2>3, DisableKeepsQueue, StepKeepsSlots
<1>8. CASE Exit \/ Crash
  <2>1. Boot /\ restarts' \in 0..MaxRestarts
    BY <1>2, <1>8, BoundsAre DEF Exit, Crash, BookTypeOK
  <2>2. QED
    BY <1>2, <2>1, BootKeepsBook, BootKeepsSlots
<1>9. CASE UNCHANGED vars
  <2>1. UNCHANGED queueVars /\ step' = step /\ removals' = removals + 0 /\ removals \in Nat
    BY <1>2, <1>9 DEF vars, pastVars, BookTypeOK
  <2>2. BookTypeOK'
    BY <1>2, <1>9 DEF vars, rowVars, listVars, pastVars, bounds, BookTypeOK
  <2>3. \A d \in Calls : MovesOn(d)
    BY <2>1 DEF MovesOn
  <2>4. QED
    BY <1>2, <2>1, <2>2, <2>3, UnchangedKeepsQueue, StepKeepsSlots
<1>10. QED
  BY <1>1, <1>4, <1>5, <1>6, <1>7, <1>8, <1>9 DEF Next

\* ConcurrencyQueue and the calls of ActiveExecutions.add that use it keep in step
\* at every await: the counter is the limit less what is held and what waits,
\* each call waits or holds at most once, nobody waits beside a free slot, and
\* only removals let more than the limit be held, whatever fails or is stopped.
THEOREM SlotInvariance == Spec => []SlotInv
<1>1. Init => SlotInv
  BY InitSlotInv
<1>2. SlotInv /\ [Next]_vars => SlotInv'
  BY NextSlotInv
<1>3. QED
  BY <1>1, <1>2, PTL DEF Spec

\* Rows, entries, reservations and the line keep their types, whatever is
\* stopped, refused or cut short.
THEOREM ExecutionsTypeCorrect == Spec => []TypeOK
<1>1. SlotInv => TypeOK
  BY DEF SlotInv
<1>2. QED
  BY <1>1, SlotInvariance, PTL

\* ConcurrencyCapacityReservation: no error, refusal, stop or removal lowers or
\* raises the counter twice for one reservation.
THEOREM SlotsAlwaysAddUp == Spec => []SlotsAddUp
<1>1. SlotInv => SlotsAddUp
  BY DEF SlotInv, QInv
<1>2. QED
  BY <1>1, SlotInvariance, PTL

\* Nobody waits while a slot is not reserved (enqueue, dequeue, remove); whose
\* slot it is and whether that call is still alive is SlotsComeBack's matter.
THEOREM NobodyWaitsForAFreeSlot == Spec => []NoIdleSlot
<1>1. SlotInv => NoIdleSlot
  BY QFacts, EmptySeq DEF SlotInv, NoIdleSlot
<1>2. QED
  BY <1>1, SlotInvariance, PTL


-----------------------------------------------------------------------------
(* Whose the slots are.                                                    *)

MarkedHold == \A c \in Calls : step[c] = "marked" => c \in held

AliveSteps == {"registered", "running", "parking", "cancelled", "saved", "failed"}

\* An alive call of an execution that nobody disturbed has a slot, is the one
\* listed, and is attached while it runs.
Backed ==
    \A c \in Calls : exec[c] \in Undisturbed /\ step[c] \in AliveSteps =>
      /\ c \in held
      /\ entry[exec[c]] = c
      /\ step[c] # "cancelled"
      /\ step[c] \in {"running", "parking", "saved"} => c \in attached

\* A listed call is listed under its own execution, and has been registered.
EntriesFit ==
    \A e \in Calls : entry[e] # NoCall =>
      exec[entry[e]] = e /\ step[entry[e]] \in AliveSteps \cup {"cut", "ended"}

OwnInv == isEnabled => SlotsComeBack /\ MarkedHold /\ Backed /\ EntriesFit

\* At most the slot of d is given back, and only those in line get one.
GivesBack(d) == isEnabled' = isEnabled /\ Serves /\ held \ {d} \subseteq held'

\* A call moves on, and at most its own slot comes or goes.
LEMMA MoveKeepsOwners ==
    ASSUME QInv, StepsOfSlots, BookTypeOK, OwnInv, NEW c \in Calls, NEW to \in Steps, GoTo(c, to),
           isEnabled' = isEnabled, c \notin SetOf(queue),
           held \ {c} \subseteq held', held' \subseteq held \cup SetOf(queue) \cup {c},
           UNCHANGED <<exec, entry, stopped, crossed>>, attached \subseteq attached',
           c \in held' /\ exec[c] \in Undisturbed => to \in UnderWay \cup {"cut"},
           to = "marked" => c \in held',
           step[c] \in AliveSteps \cup {"cut", "ended"} => to \in AliveSteps \cup {"cut", "ended"},
           to \in AliveSteps /\ exec[c] \in Undisturbed =>
             /\ step[c] \in AliveSteps /\ to # "cancelled" /\ c \in held'
             /\ to \in {"running", "parking", "saved"} => c \in attached'
    PROVE  OwnInv'
<1>. SUFFICES ASSUME isEnabled PROVE (SlotsComeBack /\ MarkedHold /\ Backed /\ EntriesFit)'
  BY DEF OwnInv
<1>1. SlotsComeBack /\ MarkedHold /\ Backed /\ EntriesFit
  BY DEF OwnInv
<1>2. \A d \in Calls : step'[d] = IF d = c THEN to ELSE step[d]
  BY DEF GoTo, BookTypeOK
<1>3. /\ SetOf(queue) \subseteq Calls /\ held \subseteq Calls
      /\ \A d \in SetOf(queue) : step[d] = "reserving"
  BY QFacts, LineIs DEF StepsOfSlots
<1>4. Undisturbed' = Undisturbed /\ exec' = exec /\ entry' = entry
  BY DEF Undisturbed
<1>5. \A d \in held' : step'[d] \in UnderWay \cup {"cut"} \/ exec[d] \notin Undisturbed
  <2>1. SUFFICES ASSUME NEW d \in held'
                 PROVE  step'[d] \in UnderWay \cup {"cut"} \/ exec[d] \notin Undisturbed
    OBVIOUS
  <2>2. CASE d = c
    BY <1>2, <2>1, <2>2
  <2>3. CASE d \in SetOf(queue)
    <3>1. d # c /\ d \in Calls /\ step[d] = "reserving"
      BY <1>3, <2>3
    <3>2. QED
      BY <1>2, <3>1 DEF UnderWay
  <2>4. CASE d \notin SetOf(queue) /\ d # c
    <3>1. d \in held /\ d \in Calls
      BY <1>3, <2>1, <2>4
    <3>2. QED
      BY <1>1, <1>2, <2>4, <3>1 DEF SlotsComeBack
  <2>5. QED
    BY <2>2, <2>3, <2>4
<1>6. SlotsComeBack'
  BY <1>4, <1>5 DEF SlotsComeBack, UnderWay
<1>7. MarkedHold'
  BY <1>1, <1>2 DEF MarkedHold
<1>8. Backed'
  BY <1>1, <1>2, <1>4 DEF Backed
<1>9. EntriesFit'
  <2>1. SUFFICES ASSUME NEW e \in Calls, entry[e] # NoCall
                 PROVE  exec[entry[e]] = e /\ step'[entry[e]] \in AliveSteps \cup {"cut", "ended"}
    BY <1>4 DEF EntriesFit, AliveSteps
  <2>2. entry[e] \in Calls
    BY <2>1 DEF BookTypeOK
  <2>3. exec[entry[e]] = e /\ step[entry[e]] \in AliveSteps \cup {"cut", "ended"}
    BY <1>1, <2>1 DEF EntriesFit
  <2>4. QED
    BY <1>2, <2>2, <2>3
<1>10. QED
  BY <1>6, <1>7, <1>8, <1>9

\* The promise of the call listed for e settles, for c, whose run is over: c is
\* that call, or somebody has disturbed e.
LEMMA SettleKeepsOwners ==
    ASSUME QInv, StepsOfSlots, BookTypeOK, OwnInv, NEW e \in Calls, NEW d \in Calls,
           entry[e] = d, settle(d), NEW c \in Calls, exec[c] = e,
           NEW to \in Steps, GoTo(c, to), step[c] \in AliveSteps \cup {"cut", "ended"},
           UNCHANGED <<exec, attached, crossed>>, stopped' \in {stopped, stopped \cup {e}},
           \/ to = "ended" /\ (stopped' = stopped /\ e \in Undisturbed => c = d)
           \/ stopped' = stopped \cup {e} /\ to \in AliveSteps \cup {"cut", "ended"} /\ c = d
    PROVE  OwnInv'
<1>. SUFFICES ASSUME isEnabled' PROVE (SlotsComeBack /\ MarkedHold /\ Backed /\ EntriesFit)'
  BY DEF OwnInv
<1>0. dequeue(d) /\ QInv' /\ Serves /\ held \ {d} \subseteq held' /\ isEnabled' = isEnabled
      /\ (d \notin SetOf(queue) => d \notin held')
  BY SettleKeepsQueue DEF settle, dequeue
<1>1. SlotsComeBack /\ MarkedHold /\ Backed /\ EntriesFit /\ isEnabled
  BY <1>0 DEF OwnInv
<1>2. \A x \in Calls : step'[x] = IF x = c THEN to ELSE step[x]
  BY DEF GoTo, BookTypeOK
<1>3. /\ held' \subseteq held \cup SetOf(queue) /\ SetOf(queue) \subseteq Calls
      /\ held \subseteq Calls /\ \A x \in SetOf(queue) : step[x] = "reserving"
  BY <1>0, QFacts, LineIs DEF Serves, StepsOfSlots
<1>4. exec[d] = e /\ step[d] \in AliveSteps \cup {"cut", "ended"} /\ d # NoCall
  BY <1>1, ExecutionBoundsAssumption DEF EntriesFit
<1>5. step[d] # "reserving" /\ step[d] # "marked" /\ step[c] # "reserving" /\ step[c] # "marked"
  BY <1>4 DEF AliveSteps
<1>6. d \notin held' /\ c \notin SetOf(queue) /\ d \notin SetOf(queue)
  BY <1>0, <1>3, <1>5
<1>7. /\ Undisturbed' \subseteq Undisturbed
      /\ stopped' = stopped \cup {e} => e \notin Undisturbed'
      /\ \A x \in Calls : x # e => (x \in Undisturbed' <=> x \in Undisturbed)
  BY DEF Undisturbed
<1>8. \A x \in Calls : x # e => entry'[x] = entry[x]
  BY <1>4 DEF settle, BookTypeOK
<1>9. entry'[e] \in {d, NoCall}
  BY <1>4 DEF settle, BookTypeOK
<1>10. \A x \in held' : step'[x] \in UnderWay \cup {"cut"} \/ exec[x] \notin Undisturbed'
  <2>1. SUFFICES ASSUME NEW x \in held'
                 PROVE  step'[x] \in UnderWay \cup {"cut"} \/ exec[x] \notin Undisturbed'
    OBVIOUS
  <2>2. CASE x \in SetOf(queue)
    <3>1. x # c /\ x \in Calls /\ step[x] = "reserving"
      BY <1>3, <1>6, <2>2
    <3>2. QED
      BY <1>2, <3>1 DEF UnderWay
  <2>3. CASE x \notin SetOf(queue)
    <3>1. x \in held /\ x \in Calls /\ x # d
      BY <1>3, <1>6, <2>1, <2>3
    <3>2. CASE x # c
      BY <1>1, <1>2, <1>7, <3>1, <3>2 DEF SlotsComeBack
    <3>3. CASE x = c
      BY <1>7, <3>1, <3>3
    <3>4. QED
      BY <3>2, <3>3
  <2>4. QED
    BY <2>2, <2>3
<1>11. SlotsComeBack'
  BY <1>10 DEF SlotsComeBack, UnderWay
<1>12. MarkedHold'
  <2>1. to # "marked"
    BY DEF AliveSteps
  <2>2. QED
    BY <1>0, <1>1, <1>2, <1>5, <2>1 DEF MarkedHold
<1>13. Backed'
  <2>1. SUFFICES ASSUME NEW x \in Calls, exec[x] \in Undisturbed', step'[x] \in AliveSteps
                 PROVE  /\ x \in held' /\ entry'[exec[x]] = x /\ step'[x] # "cancelled"
                        /\ step'[x] \in {"running", "parking", "saved"} => x \in attached
    BY DEF Backed, AliveSteps
  <2>2. x # c
    <3>1. SUFFICES ASSUME x = c PROVE FALSE
      OBVIOUS
    <3>2. to # "ended"
      BY <1>2, <2>1, <3>1 DEF AliveSteps
    <3>3. QED
      BY <1>7, <2>1, <3>1, <3>2
  <2>3. exec[x] \in Undisturbed /\ step[x] \in AliveSteps /\ step'[x] = step[x]
    BY <1>2, <1>7, <2>1, <2>2
  <2>4. /\ x \in held /\ entry[exec[x]] = x /\ step[x] # "cancelled"
        /\ step[x] \in {"running", "parking", "saved"} => x \in attached
    BY <1>1, <2>3 DEF Backed
  <2>5. exec[x] # e
    <3>1. SUFFICES ASSUME exec[x] = e PROVE FALSE
      OBVIOUS
    <3>2. x = d /\ e \in Undisturbed
      BY <2>3, <2>4, <3>1
    <3>3. stopped' = stopped
      BY <1>7, <2>1, <3>1
    <3>4. QED
      BY <1>7, <2>1, <2>2, <3>1, <3>2, <3>3
  <2>6. exec[x] \in Calls /\ x # d
    BY <1>4, <2>5 DEF BookTypeOK
  <2>7. QED
    BY <1>0, <1>8, <2>3, <2>4, <2>5, <2>6
<1>14. EntriesFit'
  <2>1. SUFFICES ASSUME NEW x \in Calls, entry'[x] # NoCall
                 PROVE  exec[entry'[x]] = x /\ step'[entry'[x]] \in AliveSteps \cup {"cut", "ended"}
    BY DEF EntriesFit, AliveSteps
  <2>2. entry'[x] = entry[x]
    BY <1>8, <1>9, <2>1
  <2>3. entry[x] \in Calls /\ entry[x] # NoCall
    BY <2>1, <2>2 DEF BookTypeOK
  <2>4. exec[entry[x]] = x /\ step[entry[x]] \in AliveSteps \cup {"cut", "ended"}
    BY <1>1, <2>3 DEF EntriesFit
  <2>5. to \in AliveSteps \cup {"cut", "ended"}
    OBVIOUS
  <2>6. QED
    BY <1>2, <2>2, <2>3, <2>4, <2>5
<1>15. QED
  BY <1>11, <1>12, <1>13, <1>14

\* An execution that is stopped may be whoever's it likes from then on.
LEMMA StopExecutionKeepsOwners ==
    ASSUME QInv, StepsOfSlots, BookTypeOK, OwnInv, NEW e \in Calls, stopExecution(e),
           UNCHANGED <<exec, attached, crossed>>
    PROVE  OwnInv'
<1>1. CASE UNCHANGED <<queueVars, step, entry, stopped>>
  BY <1>1 DEF OwnInv, SlotsComeBack, MarkedHold, Backed, EntriesFit, Undisturbed, queueVars
<1>2. CASE entry' = [entry EXCEPT ![e] = NoCall] /\ stopped' = stopped \cup {e}
           /\ UNCHANGED <<queueVars, step>>
  <2>1. SUFFICES ASSUME isEnabled PROVE (SlotsComeBack /\ MarkedHold /\ Backed /\ EntriesFit)'
    BY <1>2 DEF OwnInv, queueVars
  <2>2. SlotsComeBack /\ MarkedHold /\ Backed /\ EntriesFit
    BY <2>1 DEF OwnInv
  <2>3. /\ held' = held /\ step' = step /\ exec' = exec /\ attached' = attached
        /\ isEnabled' = isEnabled
    BY <1>2 DEF queueVars
  <2>4. Undisturbed' = Undisturbed \ {e}
    BY <1>2 DEF Undisturbed
  <2>5. \A x \in Calls : entry'[x] = IF x = e THEN NoCall ELSE entry[x]
    BY <1>2 DEF BookTypeOK
  <2>6. SlotsComeBack' /\ MarkedHold'
    BY <2>2, <2>3, <2>4 DEF SlotsComeBack, MarkedHold, UnderWay
  <2>7. Backed'
    BY <2>2, <2>3, <2>4, <2>5 DEF Backed, BookTypeOK
  <2>8. EntriesFit'
    BY <2>2, <2>3, <2>5 DEF EntriesFit
  <2>9. QED
    BY <2>6, <2>7, <2>8
<1>3. ASSUME NEW c \in Calls \ waits, entry[e] = c, settle(c), stopped' = stopped \cup {e},
             step' = [step EXCEPT ![c] =
                       IF IsRun(c) /\ @ # "saved" /\ c \notin resaved THEN "cancelled" ELSE @]
      PROVE  OwnInv'
  <2>1. CASE ~isEnabled
    <3>1. ~isEnabled'
      BY <1>3, <2>1 DEF settle, dequeue
    <3>2. QED
      BY <3>1 DEF OwnInv
  <2>2. CASE isEnabled
    <3>1. exec[c] = e /\ step[c] \in AliveSteps \cup {"cut", "ended"}
      BY <1>3, <2>2, ExecutionBoundsAssumption DEF OwnInv, EntriesFit
    <3>2. PICK to \in {step[c], "cancelled"} : GoTo(c, to)
      BY <1>3 DEF GoTo
    <3>3. to \in AliveSteps \cup {"cut", "ended"} /\ to \in Steps
      BY <3>1, <3>2 DEF AliveSteps, Steps
    <3>4. QED
      BY <1>3, <3>1, <3>2, <3>3, SettleKeepsOwners
  <2>3. QED
    BY <2>1, <2>2
<1>4. QED
  BY <1>1, <1>2, <1>3 DEF stopExecution

\* The entry of a call is its own, in the place of one that is over or crossed.
LEMMA RegisterKeepsOwners ==
    ASSUME QInv, StepsOfSlots, BookTypeOK, OwnInv, NEW c \in Calls, Register(c)
    PROVE  OwnInv'
<1>. SUFFICES ASSUME isEnabled PROVE (SlotsComeBack /\ MarkedHold /\ Backed /\ EntriesFit)'
  BY DEF OwnInv, Register, queueVars
<1>. DEFINE e == exec[c]
<1>1. SlotsComeBack /\ MarkedHold /\ Backed /\ EntriesFit
  BY DEF OwnInv
<1>2. /\ step[c] = "marked" /\ e \in Calls /\ c # NoCall
      /\ held' = held /\ exec' = exec /\ attached' = attached /\ isEnabled' = isEnabled
  BY ExecutionBoundsAssumption DEF Register, queueVars, BookTypeOK
<1>3. /\ \A d \in Calls : step'[d] = IF d = c THEN "registered" ELSE step[d]
      /\ \A x \in Calls : entry'[x] = IF x = e THEN c ELSE entry[x]
  BY DEF Register, GoTo, BookTypeOK
<1>4. /\ Undisturbed' \subseteq Undisturbed
      /\ entry[e] \in held => e \notin Undisturbed'
      /\ \A x \in Calls : x # e => (x \in Undisturbed' <=> x \in Undisturbed)
  BY <1>2 DEF Register, Undisturbed
<1>5. held \subseteq Calls /\ c \in held
  BY <1>1, <1>2, QFacts DEF MarkedHold
<1>. HIDE DEF e
<1>6. SlotsComeBack'
  <2>1. "registered" \in UnderWay
    BY DEF UnderWay
  <2>2. \A d \in held : step'[d] \in UnderWay \cup {"cut"} \/ exec[d] \notin Undisturbed'
    BY <1>1, <1>3, <1>4, <1>5, <2>1 DEF SlotsComeBack
  <2>3. QED
    BY <1>2, <2>2 DEF SlotsComeBack, UnderWay
<1>7. MarkedHold'
  BY <1>1, <1>2, <1>3 DEF MarkedHold
<1>8. Backed'
  <2>1. SUFFICES ASSUME NEW d \in Calls, exec[d] \in Undisturbed', step'[d] \in AliveSteps
                 PROVE  /\ d \in held /\ entry'[exec[d]] = d /\ step'[d] # "cancelled"
                        /\ step'[d] \in {"running", "parking", "saved"} => d \in attached
    BY <1>2 DEF Backed, AliveSteps
  <2>2. CASE d = c
    BY <1>2, <1>3, <1>5, <2>2 DEF e
  <2>3. CASE d # c
    <3>1. /\ d \in held /\ entry[exec[d]] = d /\ step[d] # "cancelled"
          /\ step[d] \in {"running", "parking", "saved"} => d \in attached
          /\ step'[d] = step[d] /\ exec[d] \in Calls
      BY <1>1, <1>3, <1>4, <2>1, <2>3 DEF Backed, BookTypeOK
    <3>2. exec[d] # e
      BY <1>4, <2>1, <3>1
    <3>3. QED
      BY <1>3, <3>1, <3>2
  <2>4. QED
    BY <2>2, <2>3
<1>9. EntriesFit'
  <2>1. SUFFICES ASSUME NEW x \in Calls, entry'[x] # NoCall
                 PROVE  exec[entry'[x]] = x /\ step'[entry'[x]] \in AliveSteps \cup {"cut", "ended"}
    BY <1>2 DEF EntriesFit, AliveSteps
  <2>2. "registered" \in AliveSteps
    BY DEF AliveSteps
  <2>3. CASE x = e
    BY <1>3, <2>2, <2>3 DEF e
  <2>4. CASE x # e
    <3>1. entry'[x] = entry[x] /\ entry[x] \in Calls
      BY <1>3, <2>1, <2>4 DEF BookTypeOK
    <3>2. exec[entry[x]] = x /\ step[entry[x]] \in AliveSteps \cup {"cut", "ended"}
      BY <1>1, <2>1, <3>1 DEF EntriesFit
    <3>3. QED
      BY <1>3, <2>2, <3>1, <3>2
  <2>5. QED
    BY <2>3, <2>4
<1>10. QED
  BY <1>6, <1>7, <1>8, <1>9

LEMMA CallKeepsOwners ==
    ASSUME QInv, StepsOfSlots, BookTypeOK, OwnInv, NEW c \in Calls,
           Create(c) \/ CallStep(c) \/ Timeout(c)
    PROVE  OwnInv'
<1>. SUFFICES ASSUME isEnabled, isEnabled' PROVE OwnInv'
  <2>1. isEnabled' => isEnabled
    BY DEF Create, CallStep, Reserve, MarkRunning, MarkRunningFails, Register, CheckFails,
           RunFails, FindsNoEntry, RunMainProcess, PutToWait, Save, SaveRejects, Finalize,
           Timeout, stopExecution, finalizeExecution, settle, enqueue, dequeue, queueVars
  <2>2. QED
    BY <2>1 DEF OwnInv
<1>1. SlotsComeBack /\ MarkedHold /\ Backed /\ EntriesFit
  BY DEF OwnInv
<1>2. /\ held \subseteq Calls /\ SetOf(queue) \subseteq Calls
      /\ \A d \in SetOf(queue) : d \notin held /\ step[d] = "reserving"
  BY QFacts, LineIs DEF Lined, SetOf, StepsOfSlots
<1>3. exec[c] \in Calls /\ c # NoCall
  BY ExecutionBoundsAssumption DEF BookTypeOK
<1>4. CASE Create(c) \/ Reserve(c)
  <2>1. PICK to \in {"created", "reserving"} :
          /\ GoTo(c, to) /\ step[c] \in {"idle", "created"}
          /\ UNCHANGED queueVars \/ enqueue(c)
          /\ UNCHANGED <<exec, entry, stopped, crossed, attached>>
          /\ to = "created" => UNCHANGED queueVars
    BY <1>4 DEF Create, Reserve, listVars, pastVars
  <2>2. c \notin SetOf(queue) /\ c \notin held
    BY <2>1 DEF StepsOfSlots
  <2>3. /\ held \subseteq held' /\ held' \subseteq held \cup {c} /\ isEnabled' = isEnabled
        /\ to = "created" => held' = held
    <3>1. UNCHANGED queueVars => isEnabled' = isEnabled /\ held' = held
      BY DEF queueVars
    <3>2. enqueue(c) => isEnabled' = isEnabled
      BY DEF enqueue
    <3>3. QED
      BY <2>1, <2>2, <3>1, <3>2, EnqueueKeepsQueue
  <2>4. c \in held' => to \in UnderWay
    BY <2>2, <2>3 DEF UnderWay
  <2>5. /\ to \in Steps /\ to # "marked" /\ to \notin AliveSteps
        /\ step[c] \notin AliveSteps \cup {"cut", "ended"}
    BY <2>1 DEF Steps, AliveSteps
  <2>6. QED
    BY <2>1, <2>2, <2>3, <2>4, <2>5, MoveKeepsOwners
<1>5. CASE MarkRunning(c) \/ MarkRunningFails(c)
  <2>1. PICK to \in {"marked", "refused", "ended"} :
          /\ GoTo(c, to) /\ step[c] = "reserving" /\ c \in held
          /\ IF to = "marked" THEN UNCHANGED queueVars ELSE dequeue(c)
          /\ UNCHANGED <<exec, entry, stopped, crossed, attached>>
    <3>1. CASE MarkRunning(c)
      BY <3>1 DEF MarkRunning, Reserved, listVars, pastVars
    <3>2. CASE MarkRunningFails(c)
      BY <3>2 DEF MarkRunningFails, Reserved, listVars, pastVars
    <3>3. QED
      BY <1>5, <3>1, <3>2
  <2>2. c \notin SetOf(queue)
    BY <1>2, <2>1
  <2>3. /\ held \ {c} \subseteq held' /\ held' \subseteq held \cup SetOf(queue)
        /\ c \in held' <=> to = "marked"
        /\ isEnabled' = isEnabled
    <3>1. CASE to = "marked"
      BY <2>1, <3>1, UnchangedKeepsQueue DEF queueVars
    <3>2. CASE to # "marked"
      <4>1. dequeue(c)
        BY <2>1, <3>2
      <4>2. isEnabled' = isEnabled
        BY <4>1 DEF dequeue
      <4>3. QED
        BY <2>2, <3>2, <4>1, <4>2, DequeueKeepsQueue DEF Serves
    <3>3. QED
      BY <3>1, <3>2
  <2>4. /\ to \in Steps /\ to \notin AliveSteps
        /\ step[c] \notin AliveSteps \cup {"cut", "ended"}
        /\ to = "marked" => to \in UnderWay
    BY <2>1 DEF Steps, AliveSteps, UnderWay
  <2>5. QED
    BY <2>1, <2>2, <2>3, <2>4, MoveKeepsOwners
<1>6. CASE Register(c)
  BY <1>6, RegisterKeepsOwners
<1>7. CASE CheckFails(c) \/ RunFails(c) \/ FindsNoEntry(c) \/ RunMainProcess(c)
  <2>1. PICK to \in {"failed", "cut", "ended", "running"} :
          /\ GoTo(c, to) /\ step[c] = "registered" /\ UNCHANGED queueVars
          /\ UNCHANGED <<exec, entry, stopped, crossed>> /\ attached \subseteq attached'
          /\ to = "ended" => entry[exec[c]] = NoCall
          /\ to = "running" => entry[exec[c]] = NoCall \/ c \in attached'
    BY <1>7 DEF CheckFails, RunFails, FindsNoEntry, RunMainProcess, listVars, pastVars
  <2>2. exec[c] \in Undisturbed => c \in held /\ entry[exec[c]] = c
    BY <1>1, <2>1 DEF Backed, AliveSteps
  <2>3. to \in Steps /\ isEnabled' = isEnabled /\ held' = held /\ c \notin SetOf(queue)
    BY <1>2, <2>1 DEF Steps, queueVars
  <2>4. to \in AliveSteps \cup {"cut", "ended"} /\ to # "cancelled" /\ to # "parking" /\ to # "saved"
    BY DEF AliveSteps
  <2>5. c \in held /\ exec[c] \in Undisturbed => to \in UnderWay \cup {"cut"}
    BY <1>3, <2>1, <2>2 DEF UnderWay
  <2>6. step[c] \in AliveSteps
    BY <2>1 DEF AliveSteps
  <2>7. QED
    BY <1>3, <2>1, <2>2, <2>3, <2>4, <2>5, <2>6, MoveKeepsOwners
<1>8. CASE PutToWait(c) \/ Save(c) \/ SaveRejects(c)
  <2>1. PICK to \in {"parking", "saved", "running"} :
          /\ GoTo(c, to) /\ step[c] \in {"running", "parking"} /\ UNCHANGED queueVars
          /\ UNCHANGED <<exec, entry, stopped, crossed, attached>>
    <3>1. CASE PutToWait(c) \/ Save(c)
      BY <3>1 DEF PutToWait, Save, listVars, pastVars
    <3>2. CASE SaveRejects(c)
      <4>1. GoTo(c, "saved") \/ step' = step
        BY <3>2 DEF SaveRejects
      <4>2. step' = step => GoTo(c, step[c])
        BY DEF GoTo, BookTypeOK
      <4>3. QED
        BY <3>2, <4>1, <4>2 DEF SaveRejects, listVars
    <3>3. QED
      BY <1>8, <3>1, <3>2
  <2>2. exec[c] \in Undisturbed => c \in held /\ entry[exec[c]] = c /\ c \in attached
    BY <1>1, <2>1 DEF Backed, AliveSteps
  <2>3. to \in Steps /\ isEnabled' = isEnabled /\ held' = held /\ c \notin SetOf(queue)
    BY <1>2, <2>1 DEF Steps, queueVars
  <2>4. to \in AliveSteps /\ to # "cancelled" /\ to \in UnderWay /\ step[c] \in AliveSteps
    BY <2>1 DEF AliveSteps, UnderWay
  <2>5. QED
    BY <2>1, <2>2, <2>3, <2>4, MoveKeepsOwners
<1>9. CASE Finalize(c)
  <2>1. /\ GoTo(c, "ended") /\ step[c] \in {"saved", "cancelled", "failed"}
        /\ UNCHANGED <<exec, attached, stopped, crossed>>
    BY <1>9 DEF Finalize, pastVars
  <2>2. step[c] \in AliveSteps /\ "ended" \in Steps /\ "ended" \notin AliveSteps
    BY <2>1 DEF AliveSteps, Steps
  <2>3. exec[c] \in Undisturbed =>
          c \in attached \/ step[c] = "failed"
    BY <1>1, <2>1, <2>2 DEF Backed
  <2>4. exec[c] \in Undisturbed => entry[exec[c]] = c
    BY <1>1, <2>2 DEF Backed
  <2>5. CASE entry[exec[c]] # NoCall /\ settle(entry[exec[c]])
    <3>1. entry[exec[c]] \in Calls
      BY <1>3, <2>5 DEF BookTypeOK
    <3>2. QED
      BY <1>3, <2>1, <2>2, <2>4, <2>5, <3>1, SettleKeepsOwners
  <2>6. CASE UNCHANGED <<queueVars, entry>> /\ exec[c] \notin Undisturbed
    <3>1. /\ isEnabled' = isEnabled /\ Serves /\ held' = held
          /\ c \notin SetOf(queue)
      BY <1>2, <2>1, <2>6, UnchangedKeepsQueue DEF queueVars
    <3>2. QED
      BY <2>1, <2>2, <2>6, <3>1, MoveKeepsOwners DEF Serves
  <2>7. QED
    BY <1>3, <1>9, <2>3, <2>4, <2>5, <2>6 DEF Finalize, finalizeExecution
<1>10. CASE Timeout(c)
  BY <1>3, <1>10, StopExecutionKeepsOwners DEF Timeout
<1>11. QED
  BY <1>4, <1>5, <1>6, <1>7, <1>8, <1>9, <1>10 DEF CallStep

LEMMA InitOwners == Init => OwnInv
<1>. SUFFICES ASSUME Init PROVE OwnInv
  OBVIOUS
<1>1. held = {} /\ entry = [c \in Calls |-> NoCall] /\ step = [c \in Calls |-> "idle"]
  BY DEF Init, QueueInit
<1>2. SlotsComeBack /\ MarkedHold /\ Backed /\ EntriesFit
  BY <1>1 DEF SlotsComeBack, MarkedHold, Backed, EntriesFit, AliveSteps
<1>3. QED
  BY <1>2 DEF OwnInv

LEMMA PickUpKeepsOwners ==
    ASSUME QInv, StepsOfSlots, BookTypeOK, OwnInv, NEW c \in Calls, NEW x \in Calls,
           Resume(c, x) \/ Rerun(c, x)
    PROVE  OwnInv'
<1>. SUFFICES ASSUME isEnabled PROVE (SlotsComeBack /\ MarkedHold /\ Backed /\ EntriesFit)'
  BY DEF OwnInv, Resume, Rerun, queueVars
<1>1. SlotsComeBack /\ MarkedHold /\ Backed /\ EntriesFit
  BY DEF OwnInv
<1>2. /\ step[c] = "idle" /\ GoTo(c, "created") /\ exec' = [exec EXCEPT ![c] = x]
      /\ UNCHANGED <<queueVars, entry, attached, stopped, crossed>>
  BY DEF Resume, Rerun, listVars, pastVars
<1>3. /\ \A d \in Calls : step'[d] = IF d = c THEN "created" ELSE step[d]
      /\ \A d \in Calls : d # c => exec'[d] = exec[d]
  BY <1>2 DEF GoTo, BookTypeOK
<1>4. c \notin held /\ held \subseteq Calls
  BY <1>2, QFacts DEF StepsOfSlots
<1>5. held' = held /\ entry' = entry /\ attached' = attached /\ Undisturbed' = Undisturbed
      /\ isEnabled' = isEnabled
  BY <1>2 DEF queueVars, Undisturbed
<1>6. SlotsComeBack'
  BY <1>1, <1>3, <1>4, <1>5 DEF SlotsComeBack, UnderWay
<1>7. MarkedHold'
  BY <1>1, <1>3, <1>5 DEF MarkedHold
<1>8. "created" \notin AliveSteps \cup {"cut", "ended"} /\ step[c] \notin AliveSteps \cup {"cut", "ended"}
  BY <1>2 DEF AliveSteps
<1>9. Backed'
  BY <1>1, <1>3, <1>5, <1>8 DEF Backed
<1>10. EntriesFit'
  <2>1. SUFFICES ASSUME NEW e \in Calls, entry[e] # NoCall
                 PROVE  exec'[entry[e]] = e /\ step'[entry[e]] \in AliveSteps \cup {"cut", "ended"}
    BY <1>5 DEF EntriesFit, AliveSteps
  <2>2. /\ entry[e] \in Calls
        /\ exec[entry[e]] = e /\ step[entry[e]] \in AliveSteps \cup {"cut", "ended"}
    BY <1>1, <2>1 DEF EntriesFit, BookTypeOK
  <2>3. entry[e] # c
    BY <1>8, <2>2
  <2>4. QED
    BY <1>3, <2>2, <2>3
<1>11. QED
  BY <1>6, <1>7, <1>9, <1>10

LEMMA ExecutionKeepsOwners ==
    ASSUME QInv, StepsOfSlots, BookTypeOK, OwnInv, NEW e \in Calls,
           Stop(e) \/ StopQueued(e) \/ StopListed(e) \/ WriteCanceled(e) \/ CancelFails(e)
    PROVE  OwnInv'
<1>1. CASE Stop(e) \/ WriteCanceled(e) \/ CancelFails(e)
  BY <1>1 DEF Stop, WriteCanceled, CancelFails, OwnInv, SlotsComeBack, MarkedHold, Backed,
              EntriesFit, Undisturbed, queueVars, listVars, pastVars
<1>2. CASE StopQueued(e)
  <2>1. /\ isEnabled /\ isEnabled' = isEnabled
        /\ UNCHANGED <<step, exec, entry, attached, stopped, crossed>>
    BY <1>2 DEF StopQueued, remove, listVars
  <2>2. held \subseteq held' /\ held' \subseteq held \cup SetOf(queue)
    BY <1>2, QueuedPosition, RemoveKeepsQueue DEF StopQueued, Serves
  <2>3. SlotsComeBack /\ MarkedHold /\ Backed /\ EntriesFit
    BY <2>1 DEF OwnInv
  <2>4. Undisturbed' = Undisturbed /\ \A d \in SetOf(queue) : step[d] \in UnderWay
    BY <2>1 DEF Undisturbed, StepsOfSlots, UnderWay
  <2>5. SlotsComeBack'
    <3>1. \A d \in held' : step[d] \in UnderWay \cup {"cut"} \/ exec[d] \notin Undisturbed
      BY <2>1, <2>2, <2>3, <2>4 DEF SlotsComeBack
    <3>2. QED
      BY <2>1, <2>4, <3>1 DEF SlotsComeBack, UnderWay
  <2>6. MarkedHold' /\ Backed' /\ EntriesFit'
    BY <2>1, <2>2, <2>3, <2>4 DEF MarkedHold, Backed, EntriesFit, AliveSteps
  <2>7. QED
    BY <2>5, <2>6 DEF OwnInv
<1>3. CASE StopListed(e)
  BY <1>3, StopExecutionKeepsOwners DEF StopListed
<1>4. QED
  BY <1>1, <1>2, <1>3

LEMMA BootKeepsOwners ==
    ASSUME Boot
    PROVE  OwnInv'
<1>1. /\ held' = {} /\ entry' = [c \in Calls |-> NoCall]
      /\ step' = [c \in Calls |-> IF step[c] = "idle" THEN "idle" ELSE "ended"]
  BY DEF Boot
<1>2. SlotsComeBack' /\ MarkedHold' /\ Backed' /\ EntriesFit'
  BY <1>1 DEF SlotsComeBack, MarkedHold, Backed, EntriesFit, AliveSteps
<1>3. QED
  BY <1>2 DEF OwnInv

LEMMA NextOwners == SlotInv /\ OwnInv /\ [Next]_vars => OwnInv'
<1>. SUFFICES ASSUME SlotInv, OwnInv, [Next]_vars PROVE OwnInv'
  OBVIOUS
<1>1. QInv /\ StepsOfSlots /\ BookTypeOK
  BY TypeIs DEF SlotInv
<1>2. ASSUME NEW c \in Calls, Create(c) \/ CallStep(c) \/ Timeout(c) PROVE OwnInv'
  BY <1>1, <1>2, CallKeepsOwners
<1>3. ASSUME NEW c \in Calls, NEW e \in Calls, Resume(c, e) \/ Rerun(c, e) PROVE OwnInv'
  BY <1>1, <1>3, PickUpKeepsOwners
<1>4. ASSUME NEW e \in Calls,
             Stop(e) \/ StopQueued(e) \/ StopListed(e) \/ WriteCanceled(e) \/ CancelFails(e)
      PROVE  OwnInv'
  BY <1>1, <1>4, ExecutionKeepsOwners
<1>5. CASE Shutdown
  BY <1>5 DEF Shutdown, disable, OwnInv
<1>6. CASE Exit \/ Crash
  BY <1>6, BootKeepsOwners DEF Exit, Crash
<1>7. CASE UNCHANGED vars
  BY <1>7 DEF vars, queueVars, listVars, pastVars, OwnInv, SlotsComeBack, MarkedHold, Backed,
              EntriesFit, Undisturbed
<1>8. QED
  BY <1>2, <1>3, <1>4, <1>5, <1>6, <1>7 DEF Next

LEMMA OwnersInvariant == Spec => []OwnInv
<1>1. Init => OwnInv
  BY InitOwners
<1>2. SlotInv /\ OwnInv /\ [Next]_vars => OwnInv'
  BY NextOwners
<1>3. QED
  BY <1>1, <1>2, SlotInvariance, PTL DEF Spec

\* A slot outlives its call only where run() rejects with nobody to settle the
\* entry, and for executions stopped or resumed before their call was settled.
THEOREM SlotsReturned == Spec => []SlotsComeBack
<1>1. OwnInv => SlotsComeBack
  BY DEF OwnInv, SlotsComeBack
<1>2. QED
  BY <1>1, OwnersInvariant, PTL

\* Of the executions nobody stopped while they ran or resumed too early, more
\* are under way than the limit only by those removed from the line.
THEOREM OverrunBounded == Spec => []OverrunOnlyByStops
<1>1. SlotInv /\ OwnInv => OverrunOnlyByStops
  <2>. SUFFICES ASSUME SlotInv, OwnInv, isEnabled
                PROVE  Cardinality({c \in Alive : exec[c] \in Undisturbed}) <= Limit + removals
    BY DEF OverrunOnlyByStops
  <2>. DEFINE S == {c \in Alive : exec[c] \in Undisturbed}
  <2>1. S \subseteq held
    BY DEF OwnInv, Backed, Alive, AliveSteps
  <2>2. held \in SUBSET Calls /\ removals \in Nat /\ Limit \in Nat
    BY LimitAssumption DEF SlotInv, TypeOK, QueueTypeOK
  <2>3. IsFiniteSet(held) /\ Cardinality(held) \in Nat
    BY <2>2, HeldIsFinite
  <2>4. Cardinality(S) <= Cardinality(held) /\ Cardinality(S) \in Nat
    BY <2>1, <2>3, FS_Subset, FS_CardinalityType
  <2>5. Cardinality(held) <= Limit + removals
    BY DEF SlotInv, SlotBound
  <2>6. QED
    BY <2>2, <2>3, <2>4, <2>5
<1>2. QED
  BY <1>1, SlotInvariance, OwnersInvariant, PTL

-----------------------------------------------------------------------------
(* First come, first served.                                               *)

\* Whoever waits still stands behind whoever just got a slot.
InOrder ==
    \A c, d \in Calls :
      /\ isEnabled /\ c \in Line /\ c \in Line'
      /\ d \notin held /\ d \in held'
      => \E i, j \in DOMAIN queue : queue[i] = d /\ queue[j] = c /\ i < j

LEMMA NobodyWoken ==
    ASSUME held' \subseteq held
    PROVE  InOrder
BY DEF InOrder

LEMMA EnqueueInOrder ==
    ASSUME QInv, NEW c \in Calls, c \notin held, c \notin SetOf(queue), enqueue(c)
    PROVE  InOrder
<1>1. queue \in Seq(Calls) /\ capacity \in Int
  BY QFacts
<1>2. CASE ~isEnabled
  BY <1>2 DEF InOrder
<1>3. CASE isEnabled /\ capacity - 1 < 0
  BY <1>3, NobodyWoken DEF enqueue
<1>4. CASE isEnabled /\ ~(capacity - 1 < 0)
  <2>1. Len(queue) \in Nat /\ (queue # <<>> => Len(queue) # 0)
    BY <1>1, EmptySeq
  <2>2. queue = <<>>
    BY <1>1, <1>4, <2>1 DEF QInv, LineShort
  <2>3. Len(queue) = 0 /\ Line = SetOf(queue)
    BY <1>1, <2>2, EmptySeq, LineIs DEF Line
  <2>4. Line = {}
    BY <2>3 DEF SetOf
  <2>5. QED
    BY <2>4 DEF InOrder
<1>5. QED
  BY <1>2, <1>3, <1>4

\* The one that resolveNext wakes was the first of the line.
LEMMA WakesInOrder ==
    ASSUME NEW q \in Seq(Calls), NEW h \in SUBSET Calls, Lined(q, h), h \subseteq held,
           resolveNext(q, h), NEW d, d \notin held, d \in held'
    PROVE  /\ 1 \in 1..Len(q) /\ q[1] = d
           /\ \A x \in SetOf(queue') : x # d
<1>1. q # <<>> /\ queue' = Tail(q) /\ d = Head(q)
  BY DEF resolveNext
<1>2. 1 \in 1..Len(q) /\ Head(q) = q[1]
  BY <1>1, TailIsRemoval
<1>3. Lined(queue', held')
  BY ResolveNextServes
<1>4. QED
  BY <1>1, <1>2, <1>3 DEF Lined, SetOf

LEMMA DequeueInOrder ==
    ASSUME QInv, NEW c \in Calls, dequeue(c)
    PROVE  InOrder
<1>1. queue \in Seq(Calls) /\ held \in SUBSET Calls /\ Lined(queue, held)
      /\ QInv'
  BY QFacts, DequeueKeepsQueue
<1>2. SUFFICES ASSUME NEW x \in Calls, NEW d \in Calls, isEnabled,
                      x \in Line, x \in Line', d \notin held, d \in held'
               PROVE  \E i, j \in DOMAIN queue : queue[i] = d /\ queue[j] = x /\ i < j
  BY DEF InOrder
<1>3. Line = SetOf(queue) /\ Line' = SetOf(queue') /\ DOMAIN queue = 1..Len(queue)
      /\ Len(queue) \in Nat
  BY <1>1, LineIs, LenProperties DEF Line, QInv, QueueTypeOK
<1>4. resolveNext(queue, held \ {c}) /\ Lined(queue, held \ {c})
  BY <1>1, <1>2 DEF dequeue, Lined
<1>5. 1 \in 1..Len(queue) /\ queue[1] = d /\ x # d
  BY <1>1, <1>2, <1>3, <1>4, WakesInOrder
<1>6. PICK j \in 1..Len(queue) : queue[j] = x
  BY <1>2, <1>3 DEF SetOf
<1>7. 1 < j
  BY <1>3, <1>5, <1>6
<1>8. QED
  BY <1>3, <1>5, <1>6, <1>7

LEMMA RemoveInOrder ==
    ASSUME QInv, isEnabled, NEW p \in 1..Len(queue), remove(p)
    PROVE  InOrder
<1>. DEFINE q == RemoveAt(queue, p)
<1>1. queue \in Seq(Calls) /\ held \in SUBSET Calls /\ Lined(queue, held)
      /\ QInv'
  BY QFacts, RemoveKeepsQueue
<1>2. SUFFICES ASSUME NEW x \in Calls, NEW d \in Calls,
                      x \in Line, x \in Line', d \notin held, d \in held'
               PROVE  \E i, j \in DOMAIN queue : queue[i] = d /\ queue[j] = x /\ i < j
  BY DEF InOrder
<1>3. Line = SetOf(queue) /\ Line' = SetOf(queue') /\ DOMAIN queue = 1..Len(queue)
      /\ Len(queue) \in Nat
  BY <1>1, LineIs, LenProperties DEF Line, QInv, QueueTypeOK
<1>4. /\ q \in Seq(Calls) /\ Len(q) = Len(queue) - 1
      /\ \A k \in 1..(Len(queue) - 1) : q[k] = IF k < p THEN queue[k] ELSE queue[k + 1]
  BY <1>1, RemoveAtKeepsOrder
<1>5. Lined(q, held)
  <2>1. Lined(q, held \cup {queue[p]})
    BY <1>1, LineShrinks
  <2>2. QED
    BY <2>1 DEF Lined
<1>6. resolveNext(q, held)
  BY DEF remove
<1>. HIDE DEF q
<1>7. 1 \in 1..Len(q) /\ q[1] = d /\ \A y \in SetOf(queue') : y # d
  BY <1>1, <1>2, <1>4, <1>5, <1>6, WakesInOrder
<1>8. SetOf(queue') \subseteq SetOf(q)
  BY <1>1, <1>4, <1>5, <1>6, ResolveNextServes
<1>9. PICK k \in 1..Len(q) : q[k] = x
  BY <1>2, <1>3, <1>8 DEF SetOf
<1>10. k # 1
  BY <1>2, <1>3, <1>7, <1>9
<1>11. PICK i \in {1, 2} : i \in 1..Len(queue) /\ queue[i] = d /\ (i = 2 <=> p = 1)
  BY <1>3, <1>4, <1>7
<1>12. PICK j \in {k, k + 1} : j \in 1..Len(queue) /\ queue[j] = x /\ (j = k <=> k < p)
  BY <1>3, <1>4, <1>9
<1>13. i < j
  BY <1>3, <1>4, <1>9, <1>10, <1>11, <1>12
<1>14. QED
  BY <1>3, <1>11, <1>12, <1>13

LEMMA NextInOrder == SlotInv /\ [Next]_vars => InOrder
<1>. SUFFICES ASSUME SlotInv, [Next]_vars PROVE InOrder
  OBVIOUS
<1>1. QInv /\ StepsOfSlots /\ BookTypeOK
  BY TypeIs DEF SlotInv
<1>2. UNCHANGED queueVars => InOrder
  BY NobodyWoken DEF queueVars
<1>3. ASSUME NEW c \in Calls, settle(c) PROVE InOrder
  BY <1>1, <1>3, DequeueInOrder DEF settle
<1>4. ASSUME NEW e \in Calls, stopExecution(e) PROVE InOrder
  BY <1>2, <1>3, <1>4 DEF stopExecution, queueVars
<1>5. ASSUME NEW c \in Calls, Create(c) \/ CallStep(c) \/ Timeout(c) PROVE InOrder
  <2>1. exec[c] \in Calls
    BY <1>1 DEF BookTypeOK
  <2>2. CASE UNCHANGED queueVars
    BY <1>2, <2>2
  <2>3. CASE Reserve(c)
    BY <1>1, <2>3, EnqueueInOrder DEF Reserve, StepsOfSlots
  <2>4. CASE dequeue(c)
    BY <1>1, <2>4, DequeueInOrder
  <2>5. CASE Finalize(c)
    <3>1. CASE entry[exec[c]] # NoCall /\ settle(entry[exec[c]])
      <4>1. entry[exec[c]] \in Calls
        BY <1>1, <2>1, <3>1 DEF BookTypeOK
      <4>2. QED
        BY <1>3, <3>1, <4>1
    <3>2. QED
      BY <1>2, <2>5, <3>1 DEF Finalize, finalizeExecution, queueVars
  <2>6. CASE Timeout(c)
    BY <1>4, <2>1, <2>6 DEF Timeout
  <2>7. QED
    BY <1>5, <2>2, <2>3, <2>4, <2>5, <2>6
       DEF Create, CallStep, MarkRunning, MarkRunningFails, Register, CheckFails, RunFails,
           FindsNoEntry, RunMainProcess, PutToWait, Save, SaveRejects
<1>6. ASSUME NEW c \in Calls, NEW e \in Calls, Resume(c, e) \/ Rerun(c, e) PROVE InOrder
  BY <1>2, <1>6 DEF Resume, Rerun
<1>7. ASSUME NEW e \in Calls,
             Stop(e) \/ StopQueued(e) \/ StopListed(e) \/ WriteCanceled(e) \/ CancelFails(e)
      PROVE  InOrder
  <2>1. CASE StopQueued(e)
    BY <1>1, <2>1, QueuedPosition, RemoveInOrder DEF StopQueued
  <2>2. QED
    BY <1>2, <1>4, <1>7, <2>1 DEF Stop, StopListed, WriteCanceled, CancelFails
<1>8. CASE Shutdown
  BY <1>8, NobodyWoken DEF Shutdown, disable
<1>9. CASE Exit \/ Crash
  BY <1>9, NobodyWoken DEF Exit, Crash, Boot
<1>10. CASE UNCHANGED vars
  BY <1>2, <1>10 DEF vars
<1>11. QED
  BY <1>5, <1>6, <1>7, <1>8, <1>9, <1>10 DEF Next

\* The line is fair, at any length: no call gets a slot before one ahead of it,
\* nor a newcomer before anyone who waits (enqueue, dequeue, remove).
THEOREM ServedInOrder == Spec => FirstComeFirstServed
<1>1. SlotInv /\ [Next]_vars => [InOrder]_vars
  BY NextInOrder
<1>2. Spec => [][InOrder]_vars
  BY <1>1, SlotInvariance, PTL DEF Spec
<1>3. QED
  BY <1>2 DEF FirstComeFirstServed, InOrder

-----------------------------------------------------------------------------
(* One call at a time runs an execution.                                   *)

RunSteps == {"marked", "registered", "running", "parking", "cancelled"}

\* No run of e has saved its row twice.
SavedOnce(e) == \A r \in resaved : exec[r] # e

RunsDoNotWait ==
    \A c \in Calls : step[c] \in RunSteps /\ SavedOnce(exec[c]) => status[exec[c]] # "waiting"

Young(c) == exec[c] = c /\ step[c] \in {"idle", "created", "reserving"}

\* Until a new execution is marked, nobody picks it up.
YoungAreAlone ==
    \A c \in Calls : Young(c) =>
      /\ status[c] \in {"none", "new", "canceled"}
      /\ c \notin rerun
      /\ \A d \in Calls : exec[d] = c => d = c

IdleHasNothing ==
    \A c \in Calls : step[c] = "idle" =>
      exec[c] = c /\ status[c] \in {"none", "canceled"} /\ c \notin resaved

\* What keeps two calls off one execution: whoever marks a row has made it and
\* is alone to know it, or finds it waiting, when nobody runs it.
ResInv == ResumedOnce /\ RunsDoNotWait /\ YoungAreAlone /\ IdleHasNothing

LEMMA OnceIs ==
    ResumedOnce <=> \A c, d \in Calls :
      step[c] \in RunSteps /\ step[d] \in RunSteps /\ exec[c] = exec[d] /\ SavedOnce(exec[c])
        => c = d
BY DEF ResumedOnce, Executing, RunSteps, SavedOnce

\* A call that has been made moves on, and writes the row of its execution.
LEMMA MoveKeepsOnce ==
    ASSUME BookTypeOK, ResInv, NEW c \in Calls, NEW to \in Steps \ {"idle", "created"}, GoTo(c, to),
           step[c] # "idle", UNCHANGED <<exec, rerun>>,
           resaved' \in {resaved, resaved \cup {c}},
           \/ status' = status
           \/ /\ step[c] \notin {"created", "reserving"}
              /\ \E s \in Statuses \ {"waiting"} : SetStatus(exec[c], s)
           \/ /\ step[c] \in RunSteps
              /\ SetStatus(exec[c], "waiting")
              /\ to = "saved" \/ c \in resaved',
           to \in RunSteps => step[c] \in RunSteps,
           to = "reserving" => step[c] = "created"
    PROVE  ResInv'
<1>1. ResumedOnce /\ RunsDoNotWait /\ YoungAreAlone /\ IdleHasNothing
  BY DEF ResInv
<1>2. /\ \A d \in Calls : step'[d] = IF d = c THEN to ELSE step[d]
      /\ exec' = exec /\ exec[c] \in Calls /\ resaved \subseteq Calls /\ rerun' = rerun
  BY DEF GoTo, BookTypeOK
<1>3. \A e \in Calls : e # exec[c] => status'[e] = status[e]
  BY <1>2 DEF SetStatus, BookTypeOK
<1>4. \A e \in Calls : SavedOnce(e)' => SavedOnce(e)
  BY <1>2 DEF SavedOnce
<1>5. ResumedOnce'
  <2>1. \A x, y \in Calls :
          step'[x] \in RunSteps /\ step'[y] \in RunSteps /\ exec[x] = exec[y] /\ SavedOnce(exec[x])'
            => x = y
    BY <1>1, <1>2, <1>4, OnceIs DEF BookTypeOK
  <2>2. QED
    BY <1>2, <2>1 DEF ResumedOnce, Executing, RunSteps, SavedOnce
<1>6. RunsDoNotWait'
  <2>1. SUFFICES ASSUME NEW x \in Calls, step'[x] \in RunSteps, SavedOnce(exec[x])'
                 PROVE  status'[exec[x]] # "waiting"
    BY <1>2 DEF RunsDoNotWait, RunSteps, SavedOnce
  <2>2. exec[x] \in Calls /\ step[x] \in RunSteps /\ SavedOnce(exec[x])
    BY <1>2, <1>4, <2>1 DEF BookTypeOK
  <2>3. status[exec[x]] # "waiting"
    BY <1>1, <2>2 DEF RunsDoNotWait
  <2>4. CASE exec[x] # exec[c]
    BY <1>3, <2>2, <2>3, <2>4
  <2>5. CASE exec[x] = exec[c]
    <3>1. CASE step[c] \in RunSteps /\ (to = "saved" \/ c \in resaved')
      <4>1. x = c
        BY <1>1, <2>2, <2>5, <3>1, OnceIs
      <4>2. c \notin resaved'
        BY <1>2, <2>1, <2>5 DEF SavedOnce
      <4>3. QED
        BY <1>2, <2>1, <3>1, <4>1, <4>2 DEF RunSteps
    <3>2. CASE \E s \in Statuses \ {"waiting"} : SetStatus(exec[c], s)
      BY <1>2, <2>5, <3>2 DEF SetStatus, BookTypeOK
    <3>3. CASE status' = status
      BY <2>3, <3>3
    <3>4. QED
      BY <3>1, <3>2, <3>3
  <2>6. QED
    BY <2>4, <2>5
<1>7. YoungAreAlone'
  <2>1. SUFFICES ASSUME NEW x \in Calls, exec[x] = x, step'[x] \in {"idle", "created", "reserving"}
                 PROVE  /\ status'[x] \in {"none", "new", "canceled"}
                        /\ x \notin rerun
                        /\ \A d \in Calls : exec[d] = x => d = x
    BY <1>2 DEF YoungAreAlone, Young
  <2>2. step[x] \in {"idle", "created", "reserving"}
    BY <1>2, <2>1
  <2>3. /\ status[x] \in {"none", "new", "canceled"}
        /\ x \notin rerun
        /\ \A d \in Calls : exec[d] = x => d = x
    BY <1>1, <2>1, <2>2 DEF YoungAreAlone, Young
  <2>4. status'[x] = status[x]
    <3>1. CASE exec[c] # x
      BY <1>3, <3>1
    <3>2. CASE exec[c] = x
      <4>1. x = c
        BY <2>3, <3>2
      <4>2. QED
        BY <2>2, <4>1 DEF RunSteps
    <3>3. QED
      BY <3>1, <3>2
  <2>5. QED
    BY <2>3, <2>4
<1>8. IdleHasNothing'
  <2>1. SUFFICES ASSUME NEW x \in Calls, step'[x] = "idle"
                 PROVE  exec[x] = x /\ status'[x] \in {"none", "canceled"} /\ x \notin resaved'
    BY <1>2 DEF IdleHasNothing
  <2>2. x # c /\ step[x] = "idle"
    BY <1>2, <2>1
  <2>3. exec[x] = x /\ status[x] \in {"none", "canceled"} /\ x \notin resaved
    BY <1>1, <2>2 DEF IdleHasNothing
  <2>4. exec[c] # x
    BY <1>1, <2>2, <2>3 DEF YoungAreAlone, Young
  <2>5. QED
    BY <1>3, <2>2, <2>3, <2>4
<1>9. QED
  BY <1>5, <1>6, <1>7, <1>8 DEF ResInv

\* Whoever marks a row is alone with it.
LEMMA MarkKeepsOnce ==
    ASSUME BookTypeOK, ResInv, NEW c \in Calls, step[c] = "reserving", GoTo(c, "marked"),
           SetStatus(exec[c], "running"), IsFresh(c) \/ status[exec[c]] = "waiting",
           UNCHANGED <<exec, rerun, resaved>>
    PROVE  ResInv'
<1>1. ResumedOnce /\ RunsDoNotWait /\ YoungAreAlone /\ IdleHasNothing
  BY DEF ResInv
<1>2. /\ \A d \in Calls : step'[d] = IF d = c THEN "marked" ELSE step[d]
      /\ \A e \in Calls : status'[e] = IF e = exec[c] THEN "running" ELSE status[e]
      /\ exec' = exec /\ exec[c] \in Calls /\ resaved' = resaved /\ rerun' = rerun
  BY DEF GoTo, SetStatus, BookTypeOK
<1>3. \A e : SavedOnce(e)' <=> SavedOnce(e)
  BY <1>2 DEF SavedOnce
<1>4. ASSUME NEW d \in Calls, step[d] \in RunSteps, exec[d] = exec[c], SavedOnce(exec[c])
      PROVE  d = c
  <2>1. CASE IsFresh(c)
    <3>1. Young(c) /\ exec[d] = c
      BY <1>4, <2>1 DEF IsFresh, Young
    <3>2. QED
      BY <1>1, <3>1 DEF YoungAreAlone
  <2>2. CASE status[exec[c]] = "waiting"
    BY <1>1, <1>4, <2>2 DEF RunsDoNotWait
  <2>3. QED
    BY <2>1, <2>2
<1>5. ResumedOnce'
  <2>1. \A x, y \in Calls :
          step'[x] \in RunSteps /\ step'[y] \in RunSteps /\ exec[x] = exec[y] /\ SavedOnce(exec[x])
            => x = y
    BY <1>1, <1>2, <1>4, OnceIs
  <2>2. QED
    BY <1>2, <1>3, <2>1 DEF ResumedOnce, Executing, RunSteps, SavedOnce
<1>6. RunsDoNotWait'
  <2>1. SUFFICES ASSUME NEW x \in Calls, step'[x] \in RunSteps, SavedOnce(exec[x])
                 PROVE  status'[exec[x]] # "waiting"
    BY <1>2 DEF RunsDoNotWait, RunSteps, SavedOnce
  <2>2. exec[x] \in Calls
    BY DEF BookTypeOK
  <2>3. x # c => status[exec[x]] # "waiting"
    BY <1>1, <1>2, <2>1 DEF RunsDoNotWait
  <2>4. QED
    BY <1>2, <2>2, <2>3
<1>7. YoungAreAlone'
  <2>1. SUFFICES ASSUME NEW x \in Calls, exec[x] = x, step'[x] \in {"idle", "created", "reserving"}
                 PROVE  /\ status'[x] \in {"none", "new", "canceled"}
                        /\ x \notin rerun
                        /\ \A d \in Calls : exec[d] = x => d = x
    BY <1>2 DEF YoungAreAlone, Young
  <2>2. x # c /\ Young(x)
    BY <1>2, <2>1 DEF Young
  <2>3. QED
    BY <1>1, <1>2, <2>2 DEF YoungAreAlone
<1>8. IdleHasNothing'
  <2>1. SUFFICES ASSUME NEW x \in Calls, step'[x] = "idle"
                 PROVE  exec[x] = x /\ status'[x] \in {"none", "canceled"} /\ x \notin resaved
    BY <1>2 DEF IdleHasNothing
  <2>2. x # c /\ step[x] = "idle"
    BY <1>2, <2>1
  <2>3. exec[x] = x /\ status[x] \in {"none", "canceled"} /\ x \notin resaved
    BY <1>1, <2>2 DEF IdleHasNothing
  <2>4. exec[c] # x
    BY <1>1, <2>2, <2>3 DEF YoungAreAlone, Young
  <2>5. QED
    BY <1>2, <2>3, <2>4
<1>9. QED
  BY <1>5, <1>6, <1>7, <1>8 DEF ResInv

LEMMA UnchangedKeepsOnce ==
    ASSUME ResInv, UNCHANGED <<step, exec, rerun, resaved, status>>
    PROVE  ResInv'
<1>1. ResumedOnce'
  BY DEF ResInv, ResumedOnce, Executing
<1>2. RunsDoNotWait' /\ YoungAreAlone' /\ IdleHasNothing'
  BY DEF ResInv, RunsDoNotWait, YoungAreAlone, Young, IdleHasNothing, SavedOnce
<1>3. QED
  BY <1>1, <1>2 DEF ResInv

LEMMA StopExecutionKeepsOnce ==
    ASSUME BookTypeOK, ResInv, NEW e \in Calls, stopExecution(e),
           UNCHANGED <<exec, rerun, resaved, status>>
    PROVE  ResInv'
<1>1. CASE step' = step
  BY <1>1, UnchangedKeepsOnce
<1>2. ASSUME NEW c \in Calls, step[c] \in {"running", "parking"}, GoTo(c, "cancelled")
      PROVE  ResInv'
  BY <1>2, MoveKeepsOnce DEF RunSteps, Steps
<1>3. ASSUME NEW c \in Calls \ waits,
             step' = [step EXCEPT ![c] =
                       IF IsRun(c) /\ @ # "saved" /\ c \notin resaved THEN "cancelled" ELSE @]
      PROVE  step' = step \/ (step[c] \in {"running", "parking"} /\ GoTo(c, "cancelled"))
  <2>1. CASE IsRun(c) /\ step[c] # "saved" /\ c \notin resaved
    BY <1>3, <2>1 DEF IsRun, GoTo
  <2>2. CASE ~(IsRun(c) /\ step[c] # "saved" /\ c \notin resaved)
    BY <1>3, <2>2 DEF BookTypeOK
  <2>3. QED
    BY <2>1, <2>2
<1>4. QED
  BY <1>1, <1>2, <1>3 DEF stopExecution

LEMMA CallKeepsOnce ==
    ASSUME BookTypeOK, ResInv, NEW c \in Calls, Create(c) \/ CallStep(c) \/ Timeout(c)
    PROVE  ResInv'
<1>0. exec[c] \in Calls
  BY DEF BookTypeOK
<1>1. CASE Create(c)
  <2>1. ResumedOnce /\ RunsDoNotWait /\ YoungAreAlone /\ IdleHasNothing
    BY DEF ResInv
  <2>2. /\ step[c] = "idle" /\ exec' = exec /\ rerun' = rerun /\ resaved' = resaved
        /\ \A d \in Calls : step'[d] = IF d = c THEN "created" ELSE step[d]
        /\ \A e \in Calls : status'[e] = IF e = c THEN "new" ELSE status[e]
    BY <1>1 DEF Create, GoTo, SetStatus, BookTypeOK, pastVars
  <2>3. Young(c) /\ exec[c] = c
    BY <2>1, <2>2 DEF IdleHasNothing, Young
  <2>4. c \notin rerun /\ \A d \in Calls : exec[d] = c => d = c
    BY <2>1, <2>3 DEF YoungAreAlone
  <2>5. \A d \in Calls : step'[d] \in RunSteps => step[d] \in RunSteps
    BY <2>2 DEF RunSteps
  <2>6. ResumedOnce'
    <3>1. \A x, y \in Calls :
            step'[x] \in RunSteps /\ step'[y] \in RunSteps /\ exec[x] = exec[y] /\ SavedOnce(exec[x])
              => x = y
      BY <2>1, <2>5, OnceIs
    <3>2. QED
      BY <2>2, <3>1 DEF ResumedOnce, Executing, RunSteps, SavedOnce
  <2>7. RunsDoNotWait'
    <3>1. SUFFICES ASSUME NEW x \in Calls, step'[x] \in RunSteps, SavedOnce(exec[x])
                   PROVE  status'[exec[x]] # "waiting"
      BY <2>2 DEF RunsDoNotWait, RunSteps, SavedOnce
    <3>2. exec[x] \in Calls /\ status[exec[x]] # "waiting"
      BY <2>1, <2>5, <3>1 DEF RunsDoNotWait, BookTypeOK
    <3>3. QED
      BY <2>2, <3>2
  <2>8. YoungAreAlone'
    BY <2>1, <2>2, <2>4 DEF YoungAreAlone, Young
  <2>9. IdleHasNothing'
    BY <2>1, <2>2 DEF IdleHasNothing
  <2>10. QED
    BY <2>6, <2>7, <2>8, <2>9 DEF ResInv
<1>2. CASE Reserve(c)
  BY <1>2, MoveKeepsOnce DEF Reserve, rowVars, pastVars, RunSteps, Steps
<1>3. CASE MarkRunning(c)
  <2>1. CASE IsFresh(c) \/ status[exec[c]] = "waiting"
    BY <1>3, <2>1, MarkKeepsOnce DEF MarkRunning, Reserved, pastVars
  <2>2. CASE ~(IsFresh(c) \/ status[exec[c]] = "waiting")
    BY <1>3, <2>2, MoveKeepsOnce DEF MarkRunning, Reserved, pastVars, RunSteps, Steps
  <2>3. QED
    BY <2>1, <2>2
<1>4. CASE MarkRunningFails(c)
  BY <1>4, MoveKeepsOnce DEF MarkRunningFails, Reserved, rowVars, pastVars, RunSteps, Steps
<1>5. CASE Register(c)
  BY <1>5, MoveKeepsOnce DEF Register, rowVars, RunSteps, Steps
<1>6. CASE CheckFails(c)
  <2>1. "finished" \in Statuses \ {"waiting"}
    BY DEF Statuses
  <2>2. status' = status \/ \E s \in Statuses \ {"waiting"} : SetStatus(exec[c], s)
    BY <1>6, <2>1 DEF CheckFails, SetUnlessCanceled
  <2>3. QED
    BY <1>6, <2>2, MoveKeepsOnce DEF CheckFails, pastVars, RunSteps, Steps
<1>7. CASE RunFails(c)
  <2>1. {"finished", "running"} \subseteq Statuses \ {"waiting"}
    BY DEF Statuses
  <2>2. status' = status \/ \E s \in Statuses \ {"waiting"} : SetStatus(exec[c], s)
    BY <1>7, <2>1 DEF RunFails, SetUnlessCanceled
  <2>3. QED
    BY <1>7, <2>2, MoveKeepsOnce DEF RunFails, pastVars, RunSteps, Steps
<1>8. CASE FindsNoEntry(c)
  BY <1>8, MoveKeepsOnce DEF FindsNoEntry, rowVars, pastVars, RunSteps, Steps
<1>9. CASE RunMainProcess(c)
  <2>1. "running" \in Statuses \ {"waiting"}
    BY DEF Statuses
  <2>2. QED
    BY <1>9, <2>1, MoveKeepsOnce DEF RunMainProcess, pastVars, RunSteps, Steps
<1>10. CASE PutToWait(c)
  BY <1>10, MoveKeepsOnce DEF PutToWait, rowVars, pastVars, RunSteps, Steps
<1>11. CASE Save(c)
  <2>1. "finished" \in Statuses \ {"waiting"}
    BY DEF Statuses
  <2>2. \/ status' = status
        \/ SetStatus(exec[c], "waiting")
        \/ \E s \in Statuses \ {"waiting"} : SetStatus(exec[c], s)
    BY <1>11, <2>1 DEF Save, SetUnlessCanceled, Outcome
  <2>3. QED
    BY <1>11, <2>2, MoveKeepsOnce DEF Save, pastVars, RunSteps, Steps
<1>12. CASE SaveRejects(c)
  <2>1. "finished" \in Statuses \ {"waiting"}
    BY DEF Statuses
  <2>2. \/ status' = status
        \/ SetStatus(exec[c], "waiting")
        \/ \E s \in Statuses \ {"waiting"} : SetStatus(exec[c], s)
    BY <1>12, <2>1 DEF SaveRejects, SetUnlessCanceled, Outcome
  <2>3. PICK to \in {"saved", "running", "parking"} :
          GoTo(c, to) /\ step[c] \in {"running", "parking"}
    <3>1. step' = step => GoTo(c, step[c])
      BY DEF GoTo, BookTypeOK
    <3>2. QED
      BY <1>12, <3>1 DEF SaveRejects
  <2>4. /\ to \in Steps \ {"idle", "created"} /\ step[c] \in RunSteps
        /\ to # "reserving" /\ step[c] \notin {"idle", "created", "reserving"}
    BY <2>3 DEF RunSteps, Steps
  <2>5. resaved' = resaved \cup {c} /\ UNCHANGED <<exec, rerun>>
    BY <1>12 DEF SaveRejects
  <2>6. c \in resaved' /\ resaved' \in {resaved, resaved \cup {c}}
    BY <2>5
  <2>7. QED
    BY <2>2, <2>3, <2>4, <2>5, <2>6, MoveKeepsOnce
<1>13. CASE Finalize(c)
  BY <1>13, MoveKeepsOnce DEF Finalize, rowVars, pastVars, RunSteps, Steps
<1>14. CASE Timeout(c)
  BY <1>0, <1>14, StopExecutionKeepsOnce DEF Timeout
<1>15. QED
  BY <1>1, <1>2, <1>3, <1>4, <1>5, <1>6, <1>7, <1>8, <1>9, <1>10, <1>11, <1>12, <1>13, <1>14
     DEF CallStep

LEMMA PickUpKeepsOnce ==
    ASSUME BookTypeOK, ResInv, NEW c \in Calls, NEW e \in Calls, Resume(c, e) \/ Rerun(c, e)
    PROVE  ResInv'
<1>1. ResumedOnce /\ RunsDoNotWait /\ YoungAreAlone /\ IdleHasNothing
  BY DEF ResInv
<1>2. /\ step[c] = "idle" /\ status' = status /\ rerun' \subseteq rerun /\ resaved' = resaved
      /\ \A d \in Calls : step'[d] = IF d = c THEN "created" ELSE step[d]
      /\ \A d \in Calls : exec'[d] = IF d = c THEN e ELSE exec[d]
      /\ status[e] = "waiting" \/ e \in rerun
  BY DEF Resume, Rerun, GoTo, BookTypeOK, rowVars, pastVars
<1>3. /\ exec[c] = c /\ status[c] \in {"none", "canceled"} /\ c \notin resaved /\ Young(c)
  BY <1>1, <1>2 DEF IdleHasNothing, Young
<1>4. ~Young(e) /\ e # c
  BY <1>1, <1>2, <1>3 DEF YoungAreAlone
<1>5. \A x : (\A r \in resaved : exec'[r] # x) => SavedOnce(x)
  BY <1>2, <1>3 DEF SavedOnce, BookTypeOK
<1>6. \A d \in Calls : step'[d] \in RunSteps => step[d] \in RunSteps /\ d # c /\ exec'[d] = exec[d]
  BY <1>2 DEF RunSteps
<1>7. ResumedOnce'
  <2>1. \A x, y \in Calls :
          step'[x] \in RunSteps /\ step'[y] \in RunSteps /\ exec'[x] = exec'[y]
          /\ (\A r \in resaved : exec'[r] # exec'[x])
            => x = y
    BY <1>1, <1>5, <1>6, OnceIs
  <2>2. QED
    BY <1>2, <2>1 DEF ResumedOnce, Executing, RunSteps, SavedOnce
<1>8. RunsDoNotWait'
  <2>1. SUFFICES ASSUME NEW x \in Calls, step'[x] \in RunSteps,
                        \A r \in resaved : exec'[r] # exec'[x]
                 PROVE  status[exec'[x]] # "waiting"
    BY <1>2 DEF RunsDoNotWait, RunSteps, SavedOnce
  <2>2. QED
    BY <1>1, <1>5, <1>6, <2>1 DEF RunsDoNotWait
<1>9. YoungAreAlone'
  <2>1. SUFFICES ASSUME NEW x \in Calls, exec'[x] = x, step'[x] \in {"idle", "created", "reserving"}
                 PROVE  /\ status[x] \in {"none", "new", "canceled"}
                        /\ x \notin rerun'
                        /\ \A d \in Calls : exec'[d] = x => d = x
    BY <1>2 DEF YoungAreAlone, Young
  <2>2. x # c /\ Young(x)
    BY <1>2, <1>4, <2>1 DEF Young
  <2>3. x # e
    BY <1>4, <2>2
  <2>4. QED
    BY <1>1, <1>2, <2>2, <2>3 DEF YoungAreAlone
<1>10. IdleHasNothing'
  BY <1>1, <1>2 DEF IdleHasNothing
<1>11. QED
  BY <1>7, <1>8, <1>9, <1>10 DEF ResInv

LEMMA WriteCanceledKeepsOnce ==
    ASSUME BookTypeOK, ResInv, NEW e \in Calls, SetStatus(e, "canceled"),
           UNCHANGED <<step, exec, rerun, resaved>>
    PROVE  ResInv'
<1>1. \A x \in Calls : status'[x] \in {status[x], "canceled"} /\ exec[x] \in Calls
  BY DEF SetStatus, BookTypeOK
<1>2. ResumedOnce'
  BY DEF ResInv, ResumedOnce, Executing
<1>3. RunsDoNotWait'
  <2>1. \A x \in Calls : step[x] \in RunSteps /\ SavedOnce(exec[x]) => status[exec[x]] # "waiting"
    BY DEF ResInv, RunsDoNotWait
  <2>2. \A x \in Calls : step[x] \in RunSteps /\ SavedOnce(exec[x]) => status'[exec[x]] # "waiting"
    BY <1>1, <2>1
  <2>3. QED
    BY <2>2 DEF RunsDoNotWait, SavedOnce, RunSteps
<1>4. YoungAreAlone' /\ IdleHasNothing'
  BY <1>1 DEF ResInv, YoungAreAlone, Young, IdleHasNothing
<1>5. QED
  BY <1>2, <1>3, <1>4 DEF ResInv

LEMMA BootKeepsOnce ==
    ASSUME BookTypeOK, ResInv, Boot
    PROVE  ResInv'
<1>1. /\ \A c \in Calls : step'[c] = IF step[c] = "idle" THEN "idle" ELSE "ended"
      /\ \A e \in Calls : status'[e] = IF status[e] = "running" THEN "crashed" ELSE status[e]
      /\ exec' = exec /\ rerun' = {e \in Calls : status[e] = "new"} /\ resaved' = {}
  BY DEF Boot
<1>2. YoungAreAlone /\ IdleHasNothing
  BY DEF ResInv
<1>3. ResumedOnce'
  BY <1>1 DEF ResumedOnce, Executing
<1>4. RunsDoNotWait'
  BY <1>1 DEF RunsDoNotWait, RunSteps
<1>5. IdleHasNothing'
  BY <1>1, <1>2 DEF IdleHasNothing
<1>6. YoungAreAlone'
  <2>1. SUFFICES ASSUME NEW x \in Calls, exec[x] = x, step'[x] \in {"idle", "created", "reserving"}
                 PROVE  /\ status'[x] \in {"none", "new", "canceled"}
                        /\ x \notin rerun'
                        /\ \A d \in Calls : exec[d] = x => d = x
    BY <1>1 DEF YoungAreAlone, Young
  <2>2. step[x] = "idle" /\ Young(x)
    BY <1>1, <2>1 DEF Young
  <2>3. status[x] \in {"none", "canceled"}
    BY <1>2, <2>2 DEF IdleHasNothing
  <2>4. QED
    BY <1>1, <1>2, <2>2, <2>3 DEF YoungAreAlone
<1>7. QED
  BY <1>3, <1>4, <1>5, <1>6 DEF ResInv

LEMMA InitOnce == Init => ResInv
<1>. SUFFICES ASSUME Init PROVE ResInv
  OBVIOUS
<1>1. /\ step = [c \in Calls |-> "idle"] /\ exec = [c \in Calls |-> c]
      /\ status = [c \in Calls |-> "none"] /\ rerun = {} /\ resaved = {}
  BY DEF Init
<1>2. ResumedOnce
  BY <1>1 DEF ResumedOnce, Executing
<1>3. RunsDoNotWait /\ YoungAreAlone /\ IdleHasNothing
  BY <1>1 DEF RunsDoNotWait, RunSteps, YoungAreAlone, Young, IdleHasNothing
<1>4. QED
  BY <1>2, <1>3 DEF ResInv

LEMMA NextOnce == TypeOK /\ ResInv /\ [Next]_vars => ResInv'
<1>. SUFFICES ASSUME TypeOK, ResInv, [Next]_vars PROVE ResInv'
  OBVIOUS
<1>1. BookTypeOK
  BY TypeIs
<1>2. ASSUME NEW c \in Calls, Create(c) \/ CallStep(c) \/ Timeout(c) PROVE ResInv'
  BY <1>1, <1>2, CallKeepsOnce
<1>3. ASSUME NEW c \in Calls, NEW e \in Calls, Resume(c, e) \/ Rerun(c, e) PROVE ResInv'
  BY <1>1, <1>3, PickUpKeepsOnce
<1>4. ASSUME NEW e \in Calls,
             Stop(e) \/ StopQueued(e) \/ StopListed(e) \/ WriteCanceled(e) \/ CancelFails(e)
      PROVE  ResInv'
  <2>1. CASE WriteCanceled(e)
    BY <1>1, <2>1, WriteCanceledKeepsOnce DEF WriteCanceled, pastVars
  <2>2. CASE StopListed(e)
    BY <1>1, <2>2, StopExecutionKeepsOnce DEF StopListed
  <2>3. CASE Stop(e) \/ StopQueued(e) \/ CancelFails(e)
    BY <2>3, UnchangedKeepsOnce DEF Stop, StopQueued, CancelFails, rowVars, pastVars
  <2>4. QED
    BY <1>4, <2>1, <2>2, <2>3
<1>5. CASE Shutdown
  BY <1>5, UnchangedKeepsOnce DEF Shutdown, rowVars, pastVars
<1>6. CASE Exit \/ Crash
  BY <1>1, <1>6, BootKeepsOnce DEF Exit, Crash
<1>7. CASE UNCHANGED vars
  BY <1>7, UnchangedKeepsOnce DEF vars, rowVars, pastVars
<1>8. QED
  BY <1>2, <1>3, <1>4, <1>5, <1>6, <1>7 DEF Next

\* Two calls never run one execution at a time, however its timer, its webhook,
\* a stop and a restart interleave, unless a run of it saves its row twice
\* (ActiveExecutions.add, requireStatus "waiting").
THEOREM ExecutionsRunOnce == Spec => []ResumedOnce
<1>1. Init => ResInv
  BY InitOnce
<1>2. TypeOK /\ ResInv /\ [Next]_vars => ResInv'
  BY NextOnce
<1>3. ResInv => ResumedOnce
  BY DEF ResInv
<1>4. QED
  BY <1>1, <1>2, <1>3, ExecutionsTypeCorrect, PTL DEF Spec
=============================================================================
