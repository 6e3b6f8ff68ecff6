--------------------------- MODULE SpscRingProofs ---------------------------
(* Proofs about src/spsc_ring.c for every capacity, every width of size_t   *)
(* that is a multiple of it, and every set of items.                        *)
EXTENDS SpscRingSize, TLAPS

----------------------------------------------------------------------------
(* size_t arithmetic *)

\* The range of size_t is a natural number at least twice the capacity.
LEMMA WordType == Word \in Nat /\ Word >= 2 * Capacity /\ Capacity \in Nat /\ Capacity > 0
<1>1. Capacity * Laps >= Capacity * 2
  BY RingAssumption
<1> QED BY <1>1, RingAssumption DEF Word

\* Quotient and remainder by a positive number, as the provers need them.
LEMMA DivMod ==
  ASSUME NEW n \in Int, NEW m \in Nat, m > 0
  PROVE  n % m \in 0..m-1 /\ \E q \in Int : n = q * m + (n % m)
<1>1. n % m \in 0..m-1
  OBVIOUS
<1>2. n \div m \in Int /\ n = (n \div m) * m + (n % m)
  OBVIOUS
<1> QED BY <1>1, <1>2, Zenon

\* A multiple of m that lies strictly between -m and m is zero.
LEMMA SmallMultiple ==
  ASSUME NEW q \in Int, NEW m \in Nat, m > 0, -m < q * m, q * m < m
  PROVE  q = 0
<1>1. CASE q >= 1
  <2>1. q * m >= 1 * m BY <1>1
  <2> QED BY <2>1
<1>2. CASE q <= -1
  <2>1. (-q) * m >= 1 * m BY <1>2
  <2> QED BY <2>1
<1> QED BY <1>1, <1>2

\* Wrapping a sum of two indices subtracts Word at most once.
LEMMA WrapSum ==
  ASSUME NEW n \in 0..(2*Word-1)
  PROVE  Wrap(n) = IF n < Word THEN n ELSE n - Word
<1>0. n \in Int /\ Word \in Nat /\ Word > 0
  BY WordType
<1>1. n % Word \in 0..Word-1 /\ \E q \in Int : n = q * Word + (n % Word)
  BY ONLY <1>0, DivMod
<1>2. PICK q \in Int : n = q * Word + (n % Word)
  BY <1>1
<1>3. CASE n < Word
  <2>1. q = 0 BY <1>1, <1>2, <1>3, WordType, SmallMultiple
  <2> QED BY <2>1, <1>1, <1>2, <1>3, WordType DEF Wrap
<1>4. CASE n >= Word
  <2>1. (q - 1) * Word = q * Word - Word BY WordType
  <2>2. q - 1 = 0 BY <2>1, <1>1, <1>2, <1>4, WordType, SmallMultiple
  <2> QED BY <2>2, <1>1, <1>2, <1>4, WordType DEF Wrap
<1> QED BY <1>3, <1>4, WordType

\* The wrapping difference of two indices.
LEMMA SubDef ==
  ASSUME NEW a \in 0..Word-1, NEW b \in 0..Word-1
  PROVE  /\ Sub(a, b) = IF a >= b THEN a - b ELSE a - b + Word
         /\ Sub(a, b) \in 0..Word-1
<1>0. a - b \in Int /\ Word \in Nat /\ Word > 0
  BY WordType
<1>1. (a - b) % Word \in 0..Word-1 /\ \E q \in Int : a - b = q * Word + ((a - b) % Word)
  <2> HIDE DEF Word
  <2> DEFINE d == a - b
  <2>1. d \in Int BY <1>0
  <2> HIDE DEF d
  <2>2. d % Word \in 0..Word-1 /\ \E q \in Int : d = q * Word + (d % Word)
    BY ONLY <1>0, <2>1, DivMod
  <2> QED BY <2>2 DEF d
<1>2. PICK q \in Int : a - b = q * Word + ((a - b) % Word)
  BY <1>1
<1>3. CASE a >= b
  <2>1. q = 0 BY <1>1, <1>2, <1>3, WordType, SmallMultiple
  <2> QED BY <2>1, <1>1, <1>2, <1>3, WordType DEF Sub, Wrap
<1>4. CASE a < b
  <2>1. (q + 1) * Word = q * Word + Word BY WordType
  <2>2. q + 1 = 0 BY <2>1, <1>1, <1>2, <1>4, WordType, SmallMultiple
  <2> QED BY <2>2, <1>1, <1>2, <1>4, WordType DEF Sub, Wrap
<1> QED BY <1>3, <1>4, WordType

\* x & mask is always a slot.
LEMMA IndexType ==
  ASSUME NEW n \in 0..Word-1
  PROVE  Index(n) \in 0..Capacity-1
BY WordType, DivMod DEF Index

\* Two indices less than a lap apart use different slots, on both sides of the
\* wrap of size_t: here the width being a multiple of the capacity matters.
LEMMA IndexDistinct ==
  ASSUME NEW a \in 0..Word-1, NEW b \in 0..Word-1,
         Sub(a, b) > 0, Sub(a, b) < Capacity
  PROVE  Index(a) # Index(b)
<1> SUFFICES ASSUME Index(a) = Index(b) PROVE FALSE
  OBVIOUS
<1>0. a \in Int /\ b \in Int /\ Capacity \in Nat /\ Capacity > 0
  BY WordType
<1>1. PICK q \in Int : a = q * Capacity + Index(a)
  BY ONLY <1>0, DivMod, Zenon DEF Index
<1>2. PICK r \in Int : b = r * Capacity + Index(b)
  BY ONLY <1>0, DivMod DEF Index
<1>3. PICK k \in Int : k = q - r
  OBVIOUS
<1>4. k * Capacity = a - b
  <2>1. PICK i \in Int : i = Index(a) BY IndexType
  <2>2. PICK x \in Int : x = q * Capacity BY <1>0
  <2>3. PICK y \in Int : y = r * Capacity BY <1>0
  <2>4. k * Capacity = x - y BY <1>0, <1>3, <2>2, <2>3
  <2>5. a = x + i /\ b = y + i BY <1>1, <1>2, <2>1, <2>2, <2>3
  <2> QED BY <2>4, <2>5
<1>5. CASE a >= b
  <2>0. PICK d \in Int : d = a - b /\ d > 0 /\ d < Capacity
    BY <1>5, SubDef, WordType
  <2>1. k * Capacity < Capacity /\ -Capacity < k * Capacity
    BY ONLY <1>0, <1>4, <2>0
  <2>2. k = 0 BY ONLY <1>0, <2>1, SmallMultiple
  <2> QED BY <2>2, <1>4, <1>5, SubDef, WordType
<1>6. CASE a < b
  <2>1. PICK n \in Int : n = k + Laps BY RingAssumption
  <2>2. n * Capacity = a - b + Word
    <3>1. n * Capacity = k * Capacity + Capacity * Laps
      BY <1>0, <2>1, RingAssumption
    <3> QED BY <3>1, <1>4 DEF Word
  <2>0. PICK d \in Int : d = a - b + Word /\ d > 0 /\ d < Capacity
    BY <1>6, SubDef, WordType
  <2>3. n * Capacity < Capacity /\ -Capacity < n * Capacity
    BY ONLY <1>0, <2>2, <2>0
  <2>4. n = 0 BY ONLY <1>0, <2>3, SmallMultiple
  <2> QED BY <2>2, <2>4, <1>6, SubDef, WordType
<1> QED BY <1>5, <1>6, WordType


\* Storing head + 1 (spsc_ring_push) makes a ring with room one longer.
LEMMA IncHead ==
  ASSUME NEW a \in 0..Word-1, NEW b \in 0..Word-1, Sub(a, b) < Capacity
  PROVE  Wrap(a + 1) \in 0..Word-1 /\ Sub(Wrap(a + 1), b) = Sub(a, b) + 1
<1>1. PICK m \in 0..(2*Word-1) : m = a + 1 BY WordType
<1>2. PICK x : x = Wrap(m) OBVIOUS
<1>3. x = IF m < Word THEN m ELSE m - Word BY <1>2, WrapSum
<1>4. x \in 0..Word-1 BY <1>1, <1>3, WordType
<1>5. Sub(x, b) = IF x >= b THEN x - b ELSE x - b + Word
  BY <1>4, SubDef
<1>6. Sub(a, b) = IF a >= b THEN a - b ELSE a - b + Word
  BY SubDef
<1>7. Sub(x, b) = Sub(a, b) + 1 BY <1>1, <1>3, <1>5, <1>6, WordType
<1> QED BY <1>1, <1>2, <1>4, <1>7

\* Storing tail + 1 (spsc_ring_pop) makes a ring that is not empty one shorter.
LEMMA IncTail ==
  ASSUME NEW a \in 0..Word-1, NEW b \in 0..Word-1, Sub(a, b) > 0
  PROVE  Wrap(b + 1) \in 0..Word-1 /\ Sub(a, Wrap(b + 1)) = Sub(a, b) - 1
<1>1. PICK m \in 0..(2*Word-1) : m = b + 1 BY WordType
<1>2. PICK x : x = Wrap(m) OBVIOUS
<1>3. x = IF m < Word THEN m ELSE m - Word BY <1>2, WrapSum
<1>4. x \in 0..Word-1 BY <1>1, <1>3, WordType
<1>5. Sub(a, x) = IF a >= x THEN a - x ELSE a - x + Word
  BY <1>4, SubDef
<1>6. Sub(a, b) = IF a >= b THEN a - b ELSE a - b + Word
  BY SubDef
<1>7. Sub(a, x) = Sub(a, b) - 1 BY <1>1, <1>3, <1>5, <1>6, WordType
<1> QED BY <1>1, <1>2, <1>4, <1>7

\* A value observed by a stale load lies between the one seen before and the
\* newest one.
LEMMA Observed ==
  ASSUME NEW old \in 0..Word-1, NEW new \in 0..Word-1, NEW x \in SeenSince(old, new)
  PROVE  x \in 0..Word-1 /\ Sub(x, old) + Sub(new, x) = Sub(new, old)
<1>1. Sub(new, old) \in 0..Word-1 BY SubDef
<1>2. PICK n \in 0..Sub(new, old) : x = Wrap(old + n) BY DEF SeenSince
<1>3. n \in Int /\ n <= Sub(new, old) BY <1>1
<1>4. PICK m \in 0..(2*Word-1) : m = old + n BY <1>1, WordType
<1>5. x = IF m < Word THEN m ELSE m - Word BY <1>2, <1>4, WrapSum
<1>6. x \in 0..Word-1 BY <1>4, <1>5, <1>3, <1>1, WordType
<1>7. Sub(x, old) = IF x >= old THEN x - old ELSE x - old + Word
  BY <1>6, SubDef
<1>8. Sub(new, x) = IF new >= x THEN new - x ELSE new - x + Word
  BY <1>6, SubDef
<1>9. Sub(new, old) = IF new >= old THEN new - old ELSE new - old + Word
  BY SubDef
<1> QED BY <1>1, <1>3, <1>4, <1>5, <1>6, <1>7, <1>8, <1>9, WordType

\* The place of the n-th oldest item, counted from tail.
LEMMA Position ==
  ASSUME NEW h \in 0..Word-1, NEW t \in 0..Word-1, NEW n \in 1..Sub(h, t)
  PROVE  /\ Wrap(t + n - 1) \in 0..Word-1
         /\ Sub(h, Wrap(t + n - 1)) = Sub(h, t) - n + 1
<1>1. Sub(h, t) \in 0..Word-1 BY SubDef
<1>2. n \in Int /\ 1 <= n /\ n <= Sub(h, t) BY <1>1
<1>3. PICK m \in 0..(2*Word-1) : m = t + n - 1 BY <1>1, <1>2, WordType
<1>4. PICK x : x = Wrap(m) OBVIOUS
<1>5. x = IF m < Word THEN m ELSE m - Word BY <1>4, WrapSum
<1>6. x \in 0..Word-1 BY <1>1, <1>2, <1>3, <1>5, WordType
<1>7. Sub(h, x) = IF h >= x THEN h - x ELSE h - x + Word
  BY <1>6, SubDef
<1>8. Sub(h, t) = IF h >= t THEN h - t ELSE h - t + Word
  BY SubDef
<1>9. Sub(h, x) = Sub(h, t) - n + 1 BY <1>1, <1>2, <1>3, <1>5, <1>7, <1>8, WordType
<1> QED BY <1>3, <1>4, <1>6, <1>9

\* The slot the producer fills is none of those between tail and head.
LEMMA FreshSlot ==
  ASSUME NEW h \in 0..Word-1, NEW t \in 0..Word-1, Sub(h, t) < Capacity,
         NEW n \in 1..Sub(h, t)
  PROVE  Index(h) # Index(Wrap(t + n - 1))
<1>1. Sub(h, t) \in Int /\ n \in Int BY SubDef
<1>2. Sub(h, Wrap(t + n - 1)) > 0 /\ Sub(h, Wrap(t + n - 1)) < Capacity
  BY <1>1, Position, WordType
<1> QED BY <1>2, Position, IndexDistinct

\* Two indices are equal exactly when their difference is zero.
LEMMA SubZero ==
  ASSUME NEW a \in 0..Word-1, NEW b \in 0..Word-1
  PROVE  Sub(a, b) \in Nat /\ (Sub(a, b) = 0 <=> a = b)
<1>1. Sub(a, b) = IF a >= b THEN a - b ELSE a - b + Word
  BY SubDef
<1>2. Sub(a, b) \in 0..Word-1 BY SubDef
<1> QED BY <1>1, <1>2, WordType

\* Distances along the ring add up.
LEMMA SubAdd ==
  ASSUME NEW a \in 0..Word-1, NEW b \in 0..Word-1, NEW c \in 0..Word-1,
         Sub(b, c) + Sub(a, b) <= Capacity
  PROVE  Sub(a, c) = Sub(b, c) + Sub(a, b)
<1>1. Sub(a, b) = IF a >= b THEN a - b ELSE a - b + Word
  BY SubDef
<1>2. Sub(b, c) = IF b >= c THEN b - c ELSE b - c + Word
  BY SubDef
<1>3. Sub(a, c) = IF a >= c THEN a - c ELSE a - c + Word
  BY SubDef
<1> QED BY <1>1, <1>2, <1>3, WordType

\* The n-th place after the incremented tail is the place after the n-th.
LEMMA NextPosition ==
  ASSUME NEW t \in 0..Word-1, NEW n \in 1..Word-1
  PROVE  Wrap(Wrap(t + 1) + n - 1) = Wrap(t + (n + 1) - 1)
<1>1. PICK m \in 0..(2*Word-1) : m = t + 1 BY WordType
<1>2. PICK x : x = Wrap(m) OBVIOUS
<1>3. x = IF m < Word THEN m ELSE m - Word BY <1>2, WrapSum
<1>4. PICK k \in 0..(2*Word-1) : k = x + n - 1 BY <1>1, <1>3, WordType
<1>5. PICK l \in 0..(2*Word-1) : l = t + (n + 1) - 1 BY WordType
<1>6. Wrap(k) = IF k < Word THEN k ELSE k - Word BY WrapSum
<1>7. Wrap(l) = IF l < Word THEN l ELSE l - Word BY WrapSum
<1>8. Wrap(k) = Wrap(l) BY <1>1, <1>3, <1>4, <1>5, <1>6, <1>7, WordType
<1> QED BY <1>1, <1>2, <1>4, <1>5, <1>8

\* tail itself is the place of the oldest item, head that of the next push.
LEMMA Ends ==
  ASSUME NEW h \in 0..Word-1, NEW t \in 0..Word-1
  PROVE  Wrap(t + 1 - 1) = t /\ Wrap(t + (Sub(h, t) + 1) - 1) = h
<1>1. PICK s \in 0..Word-1 : s = Sub(h, t) BY SubDef
<1>2. s = IF h >= t THEN h - t ELSE h - t + Word BY <1>1, SubDef, Zenon
<1>3. PICK m \in 0..(2*Word-1) : m = t + (s + 1) - 1 BY WordType
<1>4. Wrap(m) = h BY <1>2, <1>3, WrapSum, WordType
<1>5. PICK k \in 0..(2*Word-1) : k = t + 1 - 1 BY WordType
<1>6. Wrap(k) = t BY <1>5, WrapSum, WordType
<1> QED BY <1>1, <1>3, <1>4, <1>5, <1>6

----------------------------------------------------------------------------
(* The inductive invariant *)

\* spsc_ring_init establishes the invariant.
LEMMA InitInv == Init => IInv
<1> SUFFICES ASSUME Init PROVE IInv
  OBVIOUS
<1>1. 0 \in 0..Word-1 BY WordType
<1>2. Sub(0, 0) = 0 BY <1>1, SubZero
<1>3. TypeOK BY <1>1 DEF Init, TypeOK
<1>4. Views BY <1>2, WordType DEF Init, Views
<1>5. ProducerState /\ ConsumerState BY DEF Init, ProducerState, ConsumerState
<1>6. ContentsAreItems BY <1>2 DEF Init, ContentsAreItems
<1> QED BY <1>3, <1>4, <1>5, <1>6 DEF IInv

\* Every step of the producer preserves the invariant.
LEMMA PushInv ==
  ASSUME IInv, Push \/ \E item \in Items : PushBegin(item)
  PROVE  IInv'
<1> USE DEF IInv
<1>t. /\ head \in 0..Word-1 /\ tail \in 0..Word-1
      /\ producer.tail \in 0..Word-1 /\ consumer.head \in 0..Word-1
      /\ Capacity \in Nat
  BY WordType DEF TypeOK
<1>1. ASSUME NEW item \in Items, PushBegin(item) PROVE IInv'
  <2>1. TypeOK' BY <1>1, Zenon DEF TypeOK, PushBegin
  <2>2. Views' BY <1>1, Zenon DEF Views, PushBegin, TypeOK
  <2>3. ProducerState' BY <1>1, Zenon DEF ProducerState, PushBegin, TypeOK
  <2>4. ConsumerState' /\ ContentsAreItems'
    BY <1>1, Zenon DEF ConsumerState, ContentsAreItems, PushBegin
  <2> QED BY <2>1, <2>2, <2>3, <2>4
<1>2. CASE PushLoadTail
  <2>1. PICK t \in SeenSince(producer.tail, tail) :
          producer' = [producer EXCEPT
                         !.tail = t,
                         !.pc = IF Full(producer.head, t) THEN "idle" ELSE "storeSlot"]
    BY <1>2, Zenon DEF PushLoadTail
  <2>2. t \in 0..Word-1 /\ Sub(t, producer.tail) + Sub(tail, t) = Sub(tail, producer.tail)
    BY <1>t, Observed
  <2>3. Sub(head, t) \in Nat /\ Sub(tail, t) \in Nat /\ Sub(t, producer.tail) \in Nat
        /\ Sub(head, tail) \in Nat /\ Sub(head, producer.tail) \in Nat
    BY <1>t, <2>2, SubZero
  <2>4. Sub(tail, t) + Sub(head, tail) = Sub(head, t) /\ Sub(head, t) <= Capacity
    <3>1. Sub(tail, t) + Sub(head, tail) <= Capacity
      BY <1>t, <2>2, <2>3 DEF Views
    <3>2. Sub(head, t) = Sub(tail, t) + Sub(head, tail)
      BY <3>1, <1>t, <2>2, SubAdd
    <3> QED BY <3>1, <3>2, <2>3, <1>t
  <2>5. TypeOK' BY <1>2, <2>1, <2>2, Zenon DEF TypeOK, PushLoadTail
  <2>6. Views' BY <1>2, <2>1, <2>4, Zenon DEF Views, TypeOK, PushLoadTail
  <2>7. ProducerState'
    <3>1. producer.head = head /\ producer.item \in Items /\ head' = head
      BY <1>2 DEF PushLoadTail, ProducerState
    <3>2. /\ producer'.head = head /\ producer'.item \in Items /\ producer'.tail = t
          /\ producer'.pc = IF Full(head, t) THEN "idle" ELSE "storeSlot"
      BY <2>1, <3>1 DEF TypeOK
    <3>3. ~Full(head, t) => Sub(head, t) < Capacity
      BY <1>t, <2>3 DEF Full
    <3> QED BY <3>1, <3>2, <3>3 DEF ProducerState
  <2>8. ConsumerState' /\ ContentsAreItems'
    BY <1>2 DEF ConsumerState, ContentsAreItems, PushLoadTail
  <2> QED BY <2>5, <2>6, <2>7, <2>8
<1>3. CASE PushStoreSlot
  <2>1. producer.head = head /\ producer.item \in Items /\ Sub(head, producer.tail) < Capacity
    BY <1>3 DEF PushStoreSlot, ProducerState
  <2>2. Sub(head, tail) < Capacity
    BY <1>t, <2>1, SubZero DEF Views
  <2>3. Index(head) \in 0..Capacity-1 /\ Index(tail) \in 0..Capacity-1
    BY <1>t, IndexType
  <2>4. TypeOK' BY <1>3, <2>1, <2>3, Zenon DEF TypeOK, PushStoreSlot
  <2>5. Views' BY <1>3 DEF Views, TypeOK, PushStoreSlot
  <2>6. ProducerState' BY <1>3, <2>1, <2>3 DEF ProducerState, TypeOK, PushStoreSlot
  <2>7. ConsumerState'
    <3>1. ASSUME consumer.pc = "storeTail" PROVE Index(head) # Index(tail)
      <4>1. Sub(head, tail) > 0
        BY <3>1, <1>t, SubZero DEF ConsumerState, Views
      <4> QED BY <4>1, <2>2, <1>t, IndexDistinct
    <3> QED BY <1>3, <2>1, <2>3, <3>1 DEF ConsumerState, TypeOK, PushStoreSlot
  <2>8. ContentsAreItems'
    <3> SUFFICES ASSUME NEW n \in 1..Sub(head, tail)
                 PROVE  slots'[Index(Wrap(tail + n - 1))] \in Items
      BY <1>3 DEF ContentsAreItems, PushStoreSlot
    <3>1. Index(Wrap(tail + n - 1)) \in 0..Capacity-1
      BY <1>t, Position, IndexType
    <3>2. Index(head) # Index(Wrap(tail + n - 1))
      BY <1>t, <2>2, FreshSlot
    <3>3. slots[Index(Wrap(tail + n - 1))] \in Items BY DEF ContentsAreItems
    <3> QED BY <1>3, <2>1, <3>1, <3>2, <3>3 DEF PushStoreSlot, TypeOK
  <2> QED BY <2>4, <2>5, <2>6, <2>7, <2>8
<1>4. CASE PushStoreHead
  <2>1. /\ producer.head = head /\ producer.item \in Items
        /\ Sub(head, producer.tail) < Capacity /\ slots[Index(head)] = producer.item
    BY <1>4 DEF PushStoreHead, ProducerState
  <2>2. PICK h : h = Wrap(head + 1) OBVIOUS
  <2>3. head' = h BY <1>4, <2>1, <2>2 DEF PushStoreHead
  <2>4. /\ Sub(head, tail) \in Nat /\ Sub(tail, producer.tail) \in Nat
        /\ Sub(consumer.head, tail) \in Nat /\ Sub(head, consumer.head) \in Nat
        /\ Sub(head, producer.tail) \in Nat
    BY <1>t, SubZero
  <2>5. Sub(head, tail) < Capacity /\ Sub(head, consumer.head) < Capacity
    BY <1>t, <2>1, <2>4 DEF Views
  <2>6. /\ h \in 0..Word-1
        /\ Sub(h, producer.tail) = Sub(head, producer.tail) + 1
        /\ Sub(h, tail) = Sub(head, tail) + 1
        /\ Sub(h, consumer.head) = Sub(head, consumer.head) + 1
    BY <1>t, <2>1, <2>2, <2>5, IncHead
  <2>7. TypeOK' BY <1>4, <2>3, <2>6 DEF TypeOK, PushStoreHead
  <2>8. Views'
    <3>1. producer'.tail = producer.tail /\ consumer'.head = consumer.head /\ tail' = tail
      BY <1>4 DEF PushStoreHead, TypeOK
    <3> QED BY <1>t, <2>1, <2>3, <2>4, <2>6, <3>1 DEF Views
  <2>9. ProducerState' /\ ConsumerState'
    BY <1>4 DEF ProducerState, ConsumerState, TypeOK, PushStoreHead
  <2>10. ContentsAreItems'
    <3> SUFFICES ASSUME NEW n \in 1..Sub(head, tail) + 1
                 PROVE  slots[Index(Wrap(tail + n - 1))] \in Items
      BY <1>4, <2>3, <2>6 DEF ContentsAreItems, PushStoreHead
    <3>1. CASE n = Sub(head, tail) + 1
      BY <3>1, <1>t, <2>1, Ends
    <3>2. CASE n \in 1..Sub(head, tail)
      BY <3>2 DEF ContentsAreItems
    <3> QED BY <3>1, <3>2, <2>4
  <2> QED BY <2>7, <2>8, <2>9, <2>10
<1> QED BY <1>1, <1>2, <1>3, <1>4 DEF Push

\* Every step of the consumer preserves the invariant.
LEMMA PopInv ==
  ASSUME IInv, Pop
  PROVE  IInv'
<1> USE DEF IInv
<1>t. /\ head \in 0..Word-1 /\ tail \in 0..Word-1
      /\ producer.tail \in 0..Word-1 /\ consumer.head \in 0..Word-1
      /\ Capacity \in Nat
  BY WordType DEF TypeOK
<1>1. CASE PopBegin
  <2>1. TypeOK' BY <1>1, Zenon DEF TypeOK, PopBegin
  <2>2. Views' BY <1>1 DEF Views, PopBegin, TypeOK
  <2>3. ConsumerState' BY <1>1 DEF ConsumerState, PopBegin, TypeOK
  <2>4. ProducerState' /\ ContentsAreItems'
    BY <1>1 DEF ProducerState, ContentsAreItems, PopBegin
  <2> QED BY <2>1, <2>2, <2>3, <2>4
<1>2. CASE PopLoadHead
  <2>1. PICK h \in SeenSince(consumer.head, head) :
          consumer' = [consumer EXCEPT
                         !.head = h,
                         !.pc = IF Empty(consumer.tail, h) THEN "idle" ELSE "loadSlot"]
    BY <1>2, Zenon DEF PopLoadHead
  <2>2. /\ h \in 0..Word-1
        /\ Sub(h, consumer.head) + Sub(head, h) = Sub(head, consumer.head)
    BY <1>t, Observed
  <2>3. /\ Sub(h, tail) \in Nat /\ Sub(head, h) \in Nat /\ Sub(h, consumer.head) \in Nat
        /\ Sub(consumer.head, tail) \in Nat /\ Sub(head, tail) \in Nat
        /\ Sub(head, consumer.head) \in Nat /\ Sub(tail, producer.tail) \in Nat
        /\ Sub(head, producer.tail) \in Nat
    BY <1>t, <2>2, SubZero
  <2>4. Sub(h, tail) + Sub(head, h) = Sub(head, tail)
    <3>1. Sub(head, tail) <= Capacity
      BY <1>t, <2>3 DEF Views
    <3>2. Sub(consumer.head, tail) + Sub(h, consumer.head) <= Capacity
      BY <3>1, <1>t, <2>2, <2>3 DEF Views
    <3>3. Sub(h, tail) = Sub(consumer.head, tail) + Sub(h, consumer.head)
      BY <3>2, <1>t, <2>2, SubAdd
    <3> QED BY <3>3, <2>2, <2>3 DEF Views
  <2>5. TypeOK' BY <1>2, <2>1, <2>2, Zenon DEF TypeOK, PopLoadHead
  <2>6. Views' BY <1>2, <2>1, <2>4, Zenon DEF Views, TypeOK, PopLoadHead
  <2>7. ConsumerState' BY <1>2, <2>1 DEF ConsumerState, TypeOK, PopLoadHead, Empty
  <2>8. ProducerState' /\ ContentsAreItems'
    BY <1>2 DEF ProducerState, ContentsAreItems, PopLoadHead
  <2> QED BY <2>5, <2>6, <2>7, <2>8
<1>3. CASE PopLoadSlot
  <2>1. consumer.tail = tail /\ consumer.head # tail
    BY <1>3 DEF PopLoadSlot, ConsumerState
  <2>2. Index(tail) \in 0..Capacity-1 BY <1>t, IndexType
  <2>3. TypeOK' BY <1>3, <2>1, <2>2, Zenon DEF TypeOK, PopLoadSlot
  <2>4. Views' BY <1>3 DEF Views, TypeOK, PopLoadSlot
  <2>5. ConsumerState' BY <1>3, <2>1 DEF ConsumerState, TypeOK, PopLoadSlot
  <2>6. ProducerState' /\ ContentsAreItems'
    BY <1>3 DEF ProducerState, ContentsAreItems, PopLoadSlot
  <2> QED BY <2>3, <2>4, <2>5, <2>6
<1>4. CASE PopStoreTail
  <2>1. consumer.tail = tail /\ consumer.head # tail
    BY <1>4 DEF PopStoreTail, ConsumerState
  <2>2. PICK t : t = Wrap(tail + 1) OBVIOUS
  <2>3. tail' = t BY <1>4, <2>1, <2>2 DEF PopStoreTail
  <2>4. /\ Sub(head, tail) \in Nat /\ Sub(tail, producer.tail) \in Nat
        /\ Sub(consumer.head, tail) \in Nat /\ Sub(head, consumer.head) \in Nat
        /\ Sub(head, producer.tail) \in Nat
    BY <1>t, SubZero
  <2>5. Sub(consumer.head, tail) > 0 BY <1>t, <2>1, <2>4, SubZero
  <2>6. Sub(head, tail) > 0 /\ Sub(tail, producer.tail) < Capacity
    BY <1>t, <2>4, <2>5 DEF Views
  <2>7. /\ t \in 0..Word-1
        /\ Sub(head, t) = Sub(head, tail) - 1
        /\ Sub(consumer.head, t) = Sub(consumer.head, tail) - 1
    BY <1>t, <2>2, <2>5, <2>6, IncTail
  <2>8. Sub(t, producer.tail) = Sub(tail, producer.tail) + 1
    BY <1>t, <2>2, <2>6, IncHead
  <2>9. TypeOK' BY <1>4, <2>3, <2>7 DEF TypeOK, PopStoreTail
  <2>10. Views'
    <3>1. producer'.tail = producer.tail /\ consumer'.head = consumer.head /\ head' = head
      BY <1>4 DEF PopStoreTail, TypeOK
    <3> QED BY <1>t, <2>3, <2>4, <2>7, <2>8, <3>1 DEF Views
  <2>11. ProducerState' /\ ConsumerState'
    BY <1>4 DEF ProducerState, ConsumerState, TypeOK, PopStoreTail
  <2>12. ContentsAreItems'
    <3> SUFFICES ASSUME NEW n \in 1..Sub(head, tail) - 1
                 PROVE  slots[Index(Wrap(t + n - 1))] \in Items
      BY <1>4, <2>3, <2>7 DEF ContentsAreItems, PopStoreTail
    <3>1. n + 1 \in 1..Sub(head, tail) BY <2>4
    <3>2. n \in 1..Word-1 BY <1>t, <2>4, SubDef, WordType
    <3>3. Wrap(t + n - 1) = Wrap(tail + (n + 1) - 1)
      BY <1>t, <2>2, <3>2, NextPosition
    <3> QED BY <3>1, <3>3 DEF ContentsAreItems
  <2> QED BY <2>9, <2>10, <2>11, <2>12
<1> QED BY <1>1, <1>2, <1>3, <1>4 DEF Pop

\* The invariant is inductive.
LEMMA NextInv == IInv /\ [Next]_vars => IInv'
<1> SUFFICES ASSUME IInv, [Next]_vars PROVE IInv'
  OBVIOUS
<1>1. CASE Next BY <1>1, PushInv, PopInv, Zenon DEF Next
<1>2. CASE UNCHANGED vars
  BY <1>2 DEF vars, IInv, TypeOK, Views, ProducerState, ConsumerState, ContentsAreItems
<1> QED BY <1>1, <1>2

\* spsc_ring.c keeps the invariant of its two indices and their stale views.
THEOREM Invariance == Spec => []IInv
BY InitInv, NextInv, PTL DEF Spec

\* Indices, locals and slots keep their C types, through the wrap of size_t.
THEOREM TypeCorrect == Spec => []TypeOK
<1>1. IInv => TypeOK BY Zenon DEF IInv
<1> QED BY <1>1, Invariance, PTL

\* spsc_ring.h:21-22: tail <= head <= tail + capacity at all times.
THEOREM Bounded == Spec => []RingBounds
<1>1. IInv => RingBounds
  <2> SUFFICES ASSUME IInv PROVE RingBounds
    OBVIOUS
  <2>1. head \in 0..Word-1 /\ tail \in 0..Word-1 /\ producer.tail \in 0..Word-1
    BY DEF IInv, TypeOK
  <2>2. /\ Sub(head, tail) \in Nat /\ Sub(tail, producer.tail) \in Nat
        /\ Sub(head, producer.tail) \in Nat
    BY <2>1, SubZero
  <2> QED BY <2>2, WordType DEF IInv, Views, RingBounds
<1> QED BY <1>1, Invariance, PTL

\* The producer's store and the consumer's load of a slot never conflict, so
\* the plain accesses of spsc_ring.c:42 and :57 are free of data races.
THEOREM RaceFree == Spec => []NoSlotRace
<1>1. IInv => NoSlotRace
  <2> SUFFICES ASSUME IInv, producer.pc = "storeSlot", consumer.pc = "loadSlot"
               PROVE  Index(producer.head) # Index(consumer.tail)
    BY DEF NoSlotRace
  <2>1. /\ head \in 0..Word-1 /\ tail \in 0..Word-1
        /\ producer.tail \in 0..Word-1 /\ consumer.head \in 0..Word-1
    BY DEF IInv, TypeOK
  <2>2. /\ producer.head = head /\ Sub(head, producer.tail) < Capacity
        /\ consumer.tail = tail /\ consumer.head # tail
    BY DEF IInv, ProducerState, ConsumerState
  <2>3. /\ Sub(head, tail) \in Nat /\ Sub(tail, producer.tail) \in Nat
        /\ Sub(consumer.head, tail) \in Nat /\ Sub(head, consumer.head) \in Nat
        /\ Sub(head, producer.tail) \in Nat /\ Sub(consumer.head, tail) # 0
    BY <2>1, <2>2, SubZero, Zenon
  <2>4. Sub(head, tail) > 0 /\ Sub(head, tail) < Capacity
    BY <2>2, <2>3, WordType DEF IInv, Views
  <2> QED BY <2>1, <2>2, <2>4, IndexDistinct
<1> QED BY <1>1, Invariance, PTL

----------------------------------------------------------------------------
(* Refinement: the ring implements the bounded FIFO queue *)

\* A newer view of tail is no further ahead than tail.
LEMMA NewerTail ==
  ASSUME IInv, NEW t \in SeenSince(producer.tail, tail)
  PROVE  /\ t \in 0..Word-1
         /\ Sub(tail, t) + Sub(head, tail) = Sub(head, t)
         /\ Sub(head, t) <= Capacity /\ Sub(tail, t) \in 0..Sub(tail, producer.tail)
<1>1. /\ head \in 0..Word-1 /\ tail \in 0..Word-1
      /\ producer.tail \in 0..Word-1 /\ Capacity \in Nat
  BY WordType DEF IInv, TypeOK
<1>2. t \in 0..Word-1 /\ Sub(t, producer.tail) + Sub(tail, t) = Sub(tail, producer.tail)
  BY <1>1, Observed
<1>3. /\ Sub(t, producer.tail) \in Nat /\ Sub(tail, t) \in Nat /\ Sub(head, t) \in Nat
      /\ Sub(head, tail) \in Nat /\ Sub(tail, producer.tail) \in Nat
      /\ Sub(head, producer.tail) \in Nat
  BY <1>1, <1>2, SubZero
<1>4. Sub(tail, t) + Sub(head, tail) <= Capacity
  BY <1>1, <1>2, <1>3 DEF IInv, Views
<1>5. Sub(head, t) = Sub(tail, t) + Sub(head, tail)
  BY <1>1, <1>2, <1>4, SubAdd
<1>6. Sub(tail, t) \in 0..Sub(tail, producer.tail)
  BY <1>2, <1>3
<1> QED BY <1>2, <1>3, <1>4, <1>5, <1>6

\* The contents of the ring are a sequence of items of length head - tail.
LEMMA ContentsSeq ==
  ASSUME IInv
  PROVE  Contents \in Seq(Items) /\ Len(Contents) = Sub(head, tail)
<1>1. Sub(head, tail) \in Nat BY SubZero DEF IInv, TypeOK
<1>2. Contents \in [1..Sub(head, tail) -> Items]
  BY DEF IInv, ContentsAreItems, Contents
<1> QED BY <1>1, <1>2

\* A step of the ring is a push, a pop, a look or a stutter of the queue.
LEMMA StepRefines == IInv /\ IInv' /\ [Next]_vars => [Fifo!Next]_(Fifo!vars)
<1> SUFFICES ASSUME IInv, IInv', [Next]_vars PROVE [Fifo!Next]_(Fifo!vars)
  OBVIOUS
<1>t. /\ head \in 0..Word-1 /\ tail \in 0..Word-1
      /\ producer.tail \in 0..Word-1 /\ consumer.head \in 0..Word-1
      /\ Capacity \in Nat
      /\ Sub(head, tail) \in Nat /\ Sub(tail, producer.tail) \in Nat
      /\ Sub(head, producer.tail) \in Nat
  BY SubZero, WordType, Zenon DEF IInv, TypeOK
<1>s. ASSUME UNCHANGED <<slots, head, tail, got>>, producer'.tail = producer.tail
      PROVE  UNCHANGED Fifo!vars
  BY <1>s DEF Fifo!vars, Contents, Unseen
<1>1. ASSUME NEW item \in Items, PushBegin(item) PROVE UNCHANGED Fifo!vars
  <2>1. producer'.tail = producer.tail
    BY <1>1 DEF PushBegin, IInv, TypeOK
  <2> QED BY <1>1, <1>s, <2>1, Zenon DEF PushBegin
<1>2. CASE PopBegin \/ PopLoadHead \/ PopLoadSlot
  BY <1>2, <1>s, Zenon DEF PopBegin, PopLoadHead, PopLoadSlot
<1>3. CASE PushStoreSlot
  <2>1. producer.head = head /\ Sub(head, producer.tail) < Capacity
    BY <1>3 DEF PushStoreSlot, IInv, ProducerState
  <2>2. Sub(head, tail) < Capacity
    BY <1>t, <2>1 DEF IInv, Views
  <2>3. ASSUME NEW n \in 1..Sub(head, tail)
        PROVE  slots'[Index(Wrap(tail + n - 1))] = slots[Index(Wrap(tail + n - 1))]
    <3>1. Index(Wrap(tail + n - 1)) \in 0..Capacity-1
      BY <1>t, Position, IndexType
    <3>2. Index(head) # Index(Wrap(tail + n - 1))
      BY <1>t, <2>2, FreshSlot
    <3> QED BY <1>3, <2>1, <3>1, <3>2 DEF PushStoreSlot, IInv, TypeOK
  <2>4. Contents' = Contents
    BY <1>3, <2>3 DEF Contents, PushStoreSlot
  <2>5. Unseen' = Unseen
    BY <1>3 DEF PushStoreSlot, Unseen, IInv, TypeOK
  <2> QED BY <1>3, <2>4, <2>5 DEF PushStoreSlot, Fifo!vars
<1>4. CASE PushStoreHead
  <2>1. /\ producer.head = head /\ producer.item \in Items
        /\ Sub(head, producer.tail) < Capacity /\ slots[Index(head)] = producer.item
    BY <1>4 DEF PushStoreHead, IInv, ProducerState
  <2>2. Sub(head, tail) < Capacity
    BY <1>t, <2>1 DEF IInv, Views
  <2>3. Sub(head', tail') = Sub(head, tail) + 1
    BY <1>4, <1>t, <2>1, <2>2, IncHead DEF PushStoreHead
  <2>4. Contents' = [n \in 1..Sub(head, tail)+1 |-> slots[Index(Wrap(tail + n - 1))]]
    BY <1>4, <2>3 DEF PushStoreHead, Contents
  <2>5. slots[Index(Wrap(tail + (Sub(head, tail) + 1) - 1))] = producer.item
    BY <1>t, <2>1, Ends
  <2>6. Contents' = Append(Contents, producer.item)
    <3>1. Contents \in Seq(Items) /\ Len(Contents) = Sub(head, tail) BY ContentsSeq
    <3>2. /\ Append(Contents, producer.item) \in Seq(Items)
          /\ Len(Append(Contents, producer.item)) = Sub(head, tail) + 1
          /\ DOMAIN Append(Contents, producer.item) = 1..Sub(head, tail)+1
      BY <2>1, <3>1
    <3>3. ASSUME NEW n \in 1..Sub(head, tail)+1
          PROVE  Append(Contents, producer.item)[n] = slots[Index(Wrap(tail + n - 1))]
      <4>1. CASE n = Sub(head, tail) + 1
        BY <4>1, <2>5, <3>1
      <4>2. CASE n \in 1..Sub(head, tail)
        <5>1. Append(Contents, producer.item)[n] = Contents[n]
          BY <4>2, <3>1
        <5>2. Contents[n] = slots[Index(Wrap(tail + n - 1))]
          BY <4>2 DEF Contents
        <5> QED BY <5>1, <5>2
      <4>3. n = Sub(head, tail) + 1 \/ n \in 1..Sub(head, tail)
        BY <1>t, SMTT(60)
      <4> QED BY <4>1, <4>2, <4>3, Zenon
    <3> QED BY <2>4, <3>2, <3>3
  <2>7. Unseen' = Unseen /\ Unseen \in 0..Unseen /\ Sub(head, tail) + Unseen < Capacity
    <3>1. Unseen' = Unseen
      BY <1>4 DEF PushStoreHead, Unseen, IInv, TypeOK
    <3> QED BY <1>t, <2>1, <3>1 DEF Unseen, IInv, Views
  <2>8. Fifo!Push(producer.item)
    BY <1>4, <2>6, <2>7, ContentsSeq DEF Fifo!Push, PushStoreHead
  <2> QED BY <2>1, <2>8 DEF Fifo!Next
<1>5. CASE PopStoreTail
  <2>1. /\ consumer.tail = tail /\ consumer.head # tail
        /\ consumer.item = slots[Index(tail)]
    BY <1>5 DEF PopStoreTail, IInv, ConsumerState
  <2>2. Sub(head, tail) > 0
    <3>1. /\ Sub(consumer.head, tail) \in Nat /\ Sub(consumer.head, tail) # 0
          /\ Sub(head, consumer.head) \in Nat
      BY <1>t, <2>1, SubZero
    <3> QED BY <1>t, <3>1 DEF IInv, Views
  <2>3. Sub(head', tail') = Sub(head, tail) - 1
    BY <1>5, <1>t, <2>1, <2>2, IncTail, Zenon DEF PopStoreTail
  <2>4. /\ Contents \in Seq(Items) /\ Len(Contents) = Sub(head, tail)
        /\ Contents' \in Seq(Items) /\ Len(Contents') = Sub(head, tail) - 1
    <3>1. Contents \in Seq(Items) /\ Len(Contents) = Sub(head, tail) BY ContentsSeq
    <3>2. Contents' \in [1..Sub(head', tail') -> Items]
      BY DEF IInv, ContentsAreItems, Contents
    <3> QED BY <1>t, <2>2, <2>3, <3>1, <3>2, SMTT(60)
  <2>5. Head(Contents) = consumer.item
    <3>1. Contents[1] = slots[Index(Wrap(tail + 1 - 1))]
      BY <1>t, <2>2 DEF Contents
    <3> QED BY <3>1, <1>t, <2>1, <2>4, Ends, SMTT(60)
  <2>6. Contents' = Tail(Contents)
    <3>1. Tail(Contents) \in Seq(Items) /\ Len(Tail(Contents)) = Sub(head, tail) - 1
      BY <1>t, <2>2, <2>4, SMTT(60)
    <3>2. ASSUME NEW n \in 1..Sub(head, tail)-1
          PROVE  Contents'[n] = Tail(Contents)[n]
      <4>1. Contents'[n] = slots[Index(Wrap(Wrap(tail + 1) + n - 1))]
        BY <1>5, <2>1, <2>3 DEF Contents, PopStoreTail
      <4>2. n \in 1..Word-1 BY <1>t, SubDef, WordType
      <4>3. Wrap(Wrap(tail + 1) + n - 1) = Wrap(tail + (n + 1) - 1)
        BY <1>t, <4>2, NextPosition
      <4>4. n + 1 \in 1..Sub(head, tail) BY <1>t
      <4>5. Contents[n + 1] = slots[Index(Wrap(tail + (n + 1) - 1))]
        BY <4>4 DEF Contents
      <4>6. Tail(Contents)[n] = Contents[n + 1]
        BY <2>2, <2>4, <1>t, SMTT(60)
      <4> QED BY <4>1, <4>3, <4>5, <4>6, ZenonT(60)
    <3> QED BY <1>t, <2>2, <2>4, <3>1, <3>2, SMTT(60)
  <2>7. Unseen' = Unseen + 1
    <3>1. Sub(tail, producer.tail) < Capacity
      BY <1>t, <2>2 DEF IInv, Views
    <3>2. Sub(tail', producer.tail) = Sub(tail, producer.tail) + 1
      BY <1>5, <1>t, <2>1, <3>1, IncHead DEF PopStoreTail
    <3>3. producer' = producer
      BY <1>5, Zenon DEF PopStoreTail
    <3> QED BY <3>2, <3>3, Zenon DEF Unseen
  <2>8. Fifo!Pop
    BY <1>5, <1>t, <2>2, <2>4, <2>5, <2>6, <2>7 DEF Fifo!Pop, PopStoreTail
  <2> QED BY <2>8 DEF Fifo!Next
<1>6. CASE UNCHANGED vars
  BY <1>6, <1>s DEF vars
<1>7. CASE PushLoadTail
  <2>1. PICK t \in SeenSince(producer.tail, tail) :
          producer' = [producer EXCEPT
                         !.tail = t,
                         !.pc = IF Full(producer.head, t) THEN "idle" ELSE "storeSlot"]
    BY <1>7, Zenon DEF PushLoadTail
  <2>2. producer'.tail = t
    BY <2>1 DEF IInv, TypeOK
  <2>3. Sub(tail, t) \in 0..Sub(tail, producer.tail)
    BY NewerTail, Zenon
  <2>4. UNCHANGED <<slots, head, tail, got>>
    BY <1>7, Zenon DEF PushLoadTail
  <2>5. Contents' = Contents
    BY <2>4, Zenon DEF Contents
  <2> QED BY <2>2, <2>3, <2>4, <2>5, Zenon DEF Fifo!Next, Fifo!Look, Unseen
<1> QED BY <1>1, <1>2, <1>3, <1>4, <1>5, <1>6, <1>7 DEF Next, Push, Pop

\* spsc_ring.c implements the bounded FIFO queue that spsc_ring.h describes.
THEOREM Refinement == Spec => ImplementsFifo
<1>1. Init => Fifo!Init
  <2> SUFFICES ASSUME Init PROVE Fifo!Init
    OBVIOUS
  <2>1. Sub(head, tail) = 0 /\ Unseen = 0
    <3>1. 0 \in 0..Word-1 BY WordType
    <3> QED BY <3>1, SubZero DEF Init, Unseen
  <2>2. Contents = <<>> BY <2>1 DEF Contents
  <2> QED BY <2>1, <2>2 DEF Fifo!Init, Init
<1>2. IInv /\ IInv' /\ [Next]_vars => [Fifo!Next]_(Fifo!vars)
  BY StepRefines
<1> QED BY <1>1, <1>2, Invariance, PTL DEF Spec, ImplementsFifo, Fifo!Spec

----------------------------------------------------------------------------
(* What spsc_ring_size tells the thread that owns one end of the ring *)

\* The call holds the caller's own index, or its newest view of the other, and
\* so does the result for as long as the caller leaves the ring alone.
SizeCall ==
  /\ size.pc \in {"idle", "loadTail"}
  /\ size.caller \in {"none", "producer", "consumer"}
  /\ size.pc = "loadTail" =>
       /\ size.caller # "none" /\ ~size.known
       /\ size.caller = "consumer" => size.head = consumer.head /\ consumer.pc = "idle"
       /\ size.caller = "producer" => size.head = head /\ producer.pc = "idle"
  /\ size.known \in BOOLEAN
  /\ size.known =>
       /\ size.caller # "none"
       /\ size.caller = "consumer" => size.result = Sub(consumer.head, tail)
       /\ size.caller = "producer" => size.result = Sub(head, producer.tail)

SizeType ==
  size \in [pc : {"idle", "loadTail"}, caller : {"none", "producer", "consumer"},
            head : 0..Word-1, result : Int, known : BOOLEAN]

SizeInv == IInv /\ SizeType /\ SizeCall

\* The owner of an index is the only one to move it.
LEMMA OwnIndex ==
  ASSUME IInv, Next
  PROVE  /\ producer' = producer => head' = head
         /\ consumer' = consumer => tail' = tail
<1>1. ASSUME PushStoreHead PROVE producer' # producer
  BY <1>1 DEF PushStoreHead, IInv, TypeOK
<1>2. ASSUME PopStoreTail PROVE consumer' # consumer
  BY <1>2 DEF PopStoreTail, IInv, TypeOK
<1>3. CASE Push
  BY <1>1, <1>3, Zenon DEF Push, PushLoadTail, PushStoreSlot, PushStoreHead
<1>4. CASE Pop
  BY <1>2, <1>4, Zenon DEF Pop, PopBegin, PopLoadHead, PopLoadSlot, PopStoreTail
<1>5. CASE \E item \in Items : PushBegin(item)
  BY <1>5, Zenon DEF PushBegin
<1> QED BY <1>3, <1>4, <1>5 DEF Next

\* A newer view of head still lies between tail and head.
LEMMA NewerHead ==
  ASSUME IInv, NEW h \in SeenSince(consumer.head, head)
  PROVE  h \in 0..Word-1 /\ Sub(h, tail) + Sub(head, h) = Sub(head, tail)
<1>1. /\ head \in 0..Word-1 /\ tail \in 0..Word-1
      /\ producer.tail \in 0..Word-1 /\ consumer.head \in 0..Word-1
      /\ Capacity \in Nat
  BY WordType DEF IInv, TypeOK
<1>2. h \in 0..Word-1 /\ Sub(h, consumer.head) + Sub(head, h) = Sub(head, consumer.head)
  BY <1>1, Observed
<1>3. /\ Sub(h, tail) \in Nat /\ Sub(head, h) \in Nat /\ Sub(h, consumer.head) \in Nat
      /\ Sub(consumer.head, tail) \in Nat /\ Sub(head, tail) \in Nat
      /\ Sub(head, consumer.head) \in Nat /\ Sub(tail, producer.tail) \in Nat
      /\ Sub(head, producer.tail) \in Nat
  BY <1>1, <1>2, SubZero
<1>4. Sub(consumer.head, tail) + Sub(h, consumer.head) <= Capacity
  BY <1>1, <1>2, <1>3 DEF IInv, Views
<1>5. Sub(h, tail) = Sub(consumer.head, tail) + Sub(h, consumer.head)
  BY <1>1, <1>2, <1>4, SubAdd
<1> QED BY <1>2, <1>3, <1>5 DEF IInv, Views

\* The invariant holds of every step, spsc_ring_size called by an owner.
LEMMA SizeStep ==
  ASSUME "other" \notin Callers, SizeInv, [SizeNext]_sizeVars
  PROVE  SizeInv'
<1> USE DEF SizeInv
<1>1. CASE RingStep
  <2>1. IInv'
    BY <1>1, NextInv DEF RingStep
  <2>2. /\ producer' = producer => head' = head
        /\ consumer' = consumer => tail' = tail
    BY <1>1, OwnIndex DEF RingStep
  <2>3. SizeType'
    BY <1>1, Zenon DEF RingStep, SizeType
  <2>4. SizeCall'
    BY <1>1, <2>2 DEF RingStep, SizeCall, SizeType
  <2> QED BY <2>1, <2>3, <2>4
<1>2. ASSUME NEW caller \in Callers, SizeLoadHead(caller) PROVE SizeInv'
  <2>0. caller \in {"producer", "consumer"}
    BY CallersAssumption
  <2>1. CASE caller = "consumer"
    <3>1. PICK h \in SeenSince(consumer.head, head) :
            /\ size' = [pc |-> "loadTail", caller |-> caller, head |-> h, result |-> 0,
                        known |-> FALSE]
            /\ consumer' = [consumer EXCEPT !.head = h]
      BY <1>2, <2>1, Zenon DEF SizeLoadHead
    <3>2. h \in 0..Word-1 /\ Sub(h, tail) + Sub(head, h) = Sub(head, tail)
      BY NewerHead
    <3>3. consumer.pc = "idle" /\ UNCHANGED <<slots, head, tail, producer, got>>
      BY <1>2, <2>1 DEF SizeLoadHead, Outside
    <3>4. TypeOK'
      BY <3>1, <3>2, <3>3, SMTT(60) DEF IInv, TypeOK
    <3>5. Views'
      BY <3>1, <3>2, <3>3 DEF IInv, TypeOK, Views
    <3>6. ConsumerState' /\ ProducerState' /\ ContentsAreItems'
      BY <3>1, <3>3 DEF IInv, TypeOK, ConsumerState, ProducerState, ContentsAreItems
    <3>7. SizeType' /\ SizeCall'
      BY <2>1, <3>1, <3>2, <3>3 DEF SizeType, SizeCall, IInv, TypeOK
    <3> QED BY <3>4, <3>5, <3>6, <3>7 DEF IInv
  <2>2. CASE caller = "producer"
    <3>1. /\ size' = [pc |-> "loadTail", caller |-> caller, head |-> head, result |-> 0,
                      known |-> FALSE]
          /\ producer.pc = "idle" /\ UNCHANGED vars
      BY <1>2, <2>2 DEF SizeLoadHead, Outside, vars
    <3>2. IInv'
      BY <3>1, NextInv, Zenon
    <3>3. SizeType' /\ SizeCall'
      BY <2>2, <3>1 DEF SizeType, SizeCall, IInv, TypeOK, vars
    <3> QED BY <3>2, <3>3
  <2> QED BY <2>0, <2>1, <2>2
<1>3. CASE SizeLoadTail
  <2>1. CASE size.caller = "producer"
    <3>1. PICK t \in SeenSince(producer.tail, tail) :
            /\ size' = [size EXCEPT !.pc = "idle", !.result = SizeOf(size.head, t), !.known = TRUE]
            /\ producer' = [producer EXCEPT !.tail = t]
      BY <1>3, <2>1, Zenon DEF SizeLoadTail
    <3>2. /\ t \in 0..Word-1
          /\ Sub(tail, t) + Sub(head, tail) = Sub(head, t) /\ Sub(head, t) <= Capacity
      BY NewerTail
    <3>3. /\ producer.pc = "idle" /\ size.head = head
          /\ UNCHANGED <<slots, head, tail, consumer, got>>
      BY <1>3, <2>1 DEF SizeLoadTail, SizeCall
    <3>4. TypeOK'
      BY <3>1, <3>2, <3>3 DEF IInv, TypeOK
    <3>5. Views'
      BY <3>1, <3>2, <3>3 DEF IInv, TypeOK, Views
    <3>6. ConsumerState' /\ ProducerState' /\ ContentsAreItems'
      BY <3>1, <3>3, SMTT(60) DEF IInv, TypeOK, ConsumerState, ProducerState, ContentsAreItems
    <3>7. Sub(head, t) \in Int
      BY <3>2, SubZero DEF IInv, TypeOK
    <3>8. SizeType' /\ SizeCall'
      BY <2>1, <3>1, <3>2, <3>3, <3>7, Zenon DEF SizeType, SizeCall, SizeOf, IInv, TypeOK
    <3> QED BY <3>4, <3>5, <3>6, <3>8, SMTT(30) DEF IInv
  <2>2. CASE size.caller = "consumer"
    <3>1. /\ size' = [size EXCEPT !.pc = "idle", !.result = SizeOf(size.head, tail), !.known = TRUE]
          /\ size.head = consumer.head /\ UNCHANGED vars
      BY <1>3, <2>2 DEF SizeLoadTail, SizeCall, vars
    <3>2. IInv'
      BY <3>1, NextInv
    <3>3. Sub(consumer.head, tail) \in Int
      BY SubZero DEF IInv, TypeOK
    <3>4. SizeType' /\ SizeCall'
      BY <2>2, <3>1, <3>3, Zenon DEF SizeType, SizeCall, SizeOf, vars
    <3> QED BY <3>2, <3>4
  <2>3. size.caller \in {"producer", "consumer"}
    BY <1>3 DEF SizeLoadTail, SizeCall
  <2> QED BY <2>1, <2>2, <2>3
<1>4. CASE UNCHANGED sizeVars
  <2>1. IInv'
    BY <1>4, NextInv DEF sizeVars
  <2> QED BY <1>4, <2>1 DEF sizeVars, vars, SizeType, SizeCall
<1> QED BY <1>1, <1>2, <1>3, <1>4 DEF SizeNext

\* What the size call holds, at every moment of every behaviour.
LEMMA SizeInvariance ==
  ASSUME "other" \notin Callers
  PROVE  SizeSpec => []SizeInv
<1>1. SizeInit => SizeInv
  <2> SUFFICES ASSUME SizeInit PROVE SizeInv
    OBVIOUS
  <2>1. IInv
    BY InitInv DEF SizeInit
  <2>2. 0 \in 0..Word-1
    BY WordType
  <2>3. SizeType /\ SizeCall
    BY <2>2 DEF SizeInit, SizeType, SizeCall
  <2> QED BY <2>1, <2>3 DEF SizeInv
<1>2. SizeInv /\ [SizeNext]_sizeVars => SizeInv'
  BY SizeStep
<1> QED BY <1>1, <1>2, PTL DEF SizeSpec

\* spsc_ring.h:44, called by the producer or the consumer: the size is never
\* larger than the ring, though head and tail are loaded one after the other.
THEOREM OwnersSizeInBounds ==
  ASSUME "other" \notin Callers
  PROVE  SizeSpec => []SizeInBounds
<1>1. SizeInv => SizeInBounds
  <2> SUFFICES ASSUME SizeInv, size.known PROVE size.result \in 0..Capacity
    BY DEF SizeInBounds
  <2>1. /\ head \in 0..Word-1 /\ tail \in 0..Word-1 /\ Capacity \in Nat
        /\ producer.tail \in 0..Word-1 /\ consumer.head \in 0..Word-1
    BY WordType DEF SizeInv, IInv, TypeOK
  <2>2. /\ Sub(head, tail) \in Nat /\ Sub(tail, producer.tail) \in Nat
        /\ Sub(head, producer.tail) \in Nat /\ Sub(consumer.head, tail) \in Nat
        /\ Sub(head, consumer.head) \in Nat
    BY <2>1, SubZero
  <2>3. Sub(head, producer.tail) <= Capacity /\ Sub(consumer.head, tail) <= Capacity
    BY <2>1, <2>2, SMTT(60) DEF SizeInv, IInv, Views
  <2> QED BY <2>1, <2>2, <2>3 DEF SizeInv, SizeCall
<1> QED BY <1>1, SizeInvariance, PTL

\* A size below the capacity promises the producer a free slot, a size above
\* zero promises the consumer an item, until they use the ring again.
THEOREM OwnersSizeIsSafe ==
  ASSUME "other" \notin Callers
  PROVE  SizeSpec => []SizeIsSafeEstimate
<1>1. SizeInv => SizeIsSafeEstimate
  <2> SUFFICES ASSUME SizeInv, size.known
               PROVE  /\ size.caller = "consumer" => size.result <= Sub(head, tail)
                      /\ size.caller = "producer" => size.result >= Sub(head, tail)
    BY DEF SizeIsSafeEstimate
  <2>1. /\ head \in 0..Word-1 /\ tail \in 0..Word-1
        /\ producer.tail \in 0..Word-1 /\ consumer.head \in 0..Word-1
    BY DEF SizeInv, IInv, TypeOK
  <2>2. /\ Sub(head, tail) \in Nat /\ Sub(tail, producer.tail) \in Nat
        /\ Sub(head, producer.tail) \in Nat /\ Sub(consumer.head, tail) \in Nat
        /\ Sub(head, consumer.head) \in Nat
    BY <2>1, SubZero
  <2>3. Sub(consumer.head, tail) <= Sub(head, tail) /\ Sub(head, producer.tail) >= Sub(head, tail)
    BY <2>2 DEF SizeInv, IInv, Views
  <2> QED BY <2>3 DEF SizeInv, SizeCall
<1> QED BY <1>1, SizeInvariance, PTL
=============================================================================
