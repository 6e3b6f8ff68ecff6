------------------------------ MODULE SpscRing ------------------------------
(* The lock-free single-producer single-consumer ring of src/spsc_ring.c.   *)
(* The producer (the H2O thread) and the consumer (one worker thread) are   *)
(* interleaved at every access to shared memory.  head and tail are C11     *)
(* atomics: an acquire load by the thread that does not own the index may   *)
(* return any value the index has had since that thread last looked         *)
(* (coherence), not only the newest.  head and tail are size_t and wrap at  *)
(* Word.                                                                     *)
EXTENDS Integers, Sequences

CONSTANTS Items,      \* the pointers pushed
          NoItem,     \* NULL
          Capacity,   \* number of slots (mask + 1)
          Laps        \* size_t holds Capacity * Laps values

\* spsc_ring_init asserts a power of two: what the ring needs of it is that
\* the range of size_t is a multiple of the capacity (so that x & mask is
\* x % Capacity on both sides of the wrap), and at least twice as large.
ASSUME RingAssumption ==
  /\ Capacity \in Nat \ {0}
  /\ Laps \in Nat /\ Laps >= 2
  /\ NoItem \notin Items

Word == Capacity * Laps

VARIABLES slots,      \* ring->slots
          head,       \* ring->head, written by the producer only
          tail,       \* ring->tail, written by the consumer only
          producer,   \* the producer's pc and locals; .tail is also the newest
                      \* value of tail it has seen
          consumer,   \* the consumer's pc and locals; .head is also the newest
                      \* value of head it has seen
          got         \* what the last successful spsc_ring_pop returned

vars == <<slots, head, tail, producer, consumer, got>>

----------------------------------------------------------------------------
(* size_t arithmetic *)

Wrap(n) == n % Word

Sub(a, b) == Wrap(a - b)

Index(n) == n % Capacity

\* The values an index can be observed with by a thread that last saw `old`.
SeenSince(old, new) == {Wrap(old + n) : n \in 0..Sub(new, old)}

FullOffByOne(h, t) == Sub(h, t) > Capacity

\* head - tail >= mask + 1
Full(h, t) == Sub(h, t) >= Capacity

EmptyWithoutWrap(t, h) == t >= h

\* tail == head
Empty(t, h) == t = h

----------------------------------------------------------------------------
(* spsc_ring_init, on the zeroed slots[] of a worker_t *)

Init ==
  /\ slots = [i \in 0..Capacity-1 |-> NoItem]
  /\ head = 0
  /\ tail = 0
  /\ producer = [pc |-> "idle", item |-> NoItem, head |-> 0, tail |-> 0]
  /\ consumer = [pc |-> "idle", item |-> NoItem, tail |-> 0, head |-> 0]
  /\ got = NoItem

----------------------------------------------------------------------------
(* spsc_ring_push *)

PushBegin(item) ==
  /\ producer.pc = "idle"
  /\ producer' = [producer EXCEPT !.pc = "loadTail", !.item = item, !.head = head]
  /\ UNCHANGED <<slots, head, tail, consumer, got>>

PushLoadTail ==
  /\ producer.pc = "loadTail"
  /\ \E t \in SeenSince(producer.tail, tail) :
       producer' = [producer EXCEPT
                      !.tail = t,
                      !.pc = IF Full(producer.head, t) THEN "idle" ELSE "storeSlot"]
  /\ UNCHANGED <<slots, head, tail, consumer, got>>

PushStoreSlot ==
  /\ producer.pc = "storeSlot"
  /\ slots' = [slots EXCEPT ![Index(producer.head)] = producer.item]
  /\ producer' = [producer EXCEPT !.pc = "storeHead"]
  /\ UNCHANGED <<head, tail, consumer, got>>

PushStoreHead ==
  /\ producer.pc = "storeHead"
  /\ head' = Wrap(producer.head + 1)
  /\ producer' = [producer EXCEPT !.pc = "idle"]
  /\ UNCHANGED <<slots, tail, consumer, got>>

----------------------------------------------------------------------------
(* spsc_ring_pop *)

PopBegin ==
  /\ consumer.pc = "idle"
  /\ consumer' = [consumer EXCEPT !.pc = "loadHead", !.tail = tail]
  /\ UNCHANGED <<slots, head, tail, producer, got>>

PopLoadHead ==
  /\ consumer.pc = "loadHead"
  /\ \E h \in SeenSince(consumer.head, head) :
       consumer' = [consumer EXCEPT
                      !.head = h,
                      !.pc = IF Empty(consumer.tail, h) THEN "idle" ELSE "loadSlot"]
  /\ UNCHANGED <<slots, head, tail, producer, got>>

\* The slot is handed back before it has been read.
PopLoadSlotAfterFree ==
  /\ consumer.pc = "loadSlot"
  /\ tail' = Wrap(consumer.tail + 1)
  /\ consumer' = [consumer EXCEPT !.pc = "storeTail"]
  /\ UNCHANGED <<slots, head, producer, got>>

PopLoadSlot ==
  /\ consumer.pc = "loadSlot"
  /\ consumer' = [consumer EXCEPT !.pc = "storeTail",
                                  !.item = slots[Index(consumer.tail)]]
  /\ UNCHANGED <<slots, head, tail, producer, got>>

PopStoreTail ==
  /\ consumer.pc = "storeTail"
  /\ tail' = Wrap(consumer.tail + 1)
  /\ got' = consumer.item
  /\ consumer' = [consumer EXCEPT !.pc = "idle"]
  /\ UNCHANGED <<slots, head, producer>>

----------------------------------------------------------------------------

Push == PushLoadTail \/ PushStoreSlot \/ PushStoreHead

Pop == PopBegin \/ PopLoadHead \/ PopLoadSlot \/ PopStoreTail

Next == Pop \/ Push \/ \E item \in Items : PushBegin(item)

Spec == Init /\ [][Next]_vars

\* The load that returns the newest head: C11 7.17.3 asks that a store become
\* visible to atomic loads in a finite time, so a worker that keeps polling
\* cannot read stale values for ever.
PopLoadNewestHead == PopLoadHead /\ consumer'.head = head

\* Both threads keep running; the producer finishes a push it has begun but
\* need not begin another, the worker loop polls for ever.
Fairness ==
  /\ WF_vars(Push)
  /\ WF_vars(Pop)
  /\ SF_vars(PopLoadNewestHead)

FairSpec == Spec /\ Fairness

----------------------------------------------------------------------------
(* Properties *)

\* Every variable and both threads' locals stay in their C types: indices are
\* size_t values and slots hold pushed pointers or NULL.
TypeOK ==
  /\ slots \in [0..Capacity-1 -> Items \union {NoItem}]
  /\ head \in 0..Word-1
  /\ tail \in 0..Word-1
  /\ producer \in [pc : {"idle", "loadTail", "storeSlot", "storeHead"},
                   item : Items \union {NoItem}, head : 0..Word-1, tail : 0..Word-1]
  /\ consumer \in [pc : {"idle", "loadHead", "loadSlot", "storeTail"},
                   item : Items \union {NoItem}, tail : 0..Word-1, head : 0..Word-1]
  /\ got \in Items \union {NoItem}

\* The invariant of spsc_ring.h:21-22 and rfd/0005: tail <= head <= tail +
\* capacity, which in wrapping arithmetic is head - tail <= capacity; it holds
\* although the producer decides from an old value of tail.
RingBounds == Sub(head, tail) <= Capacity

\* The slot accesses of spsc_ring.c:42 and :57 are plain, so the two threads
\* may never be about to touch the same slot at the same time.
NoSlotRace ==
  (producer.pc = "storeSlot" /\ consumer.pc = "loadSlot")
     => Index(producer.head) # Index(consumer.tail)

\* The items in the ring, oldest first.
Contents == [n \in 1..Sub(head, tail) |-> slots[Index(Wrap(tail + n - 1))]]

\* The pops the producer has not seen yet.
Unseen == Sub(tail, producer.tail)

Fifo == INSTANCE BoundedFifo WITH queue <- Contents, unseen <- Unseen

\* spsc_ring.c implements a bounded FIFO queue: a push takes effect when head
\* is stored, a pop when tail is stored, pop returns the oldest item, and the
\* producer finds room by what it has seen of the pops.
ImplementsFifo == Fifo!Spec

\* An item in the ring is eventually returned by spsc_ring_pop, even if the
\* producer never pushes again.
EventuallyPopped ==
  \A item \in Items :
    (\E n \in 1..Sub(head, tail) : Contents[n] = item) ~> (got = item)

----------------------------------------------------------------------------
(* The inductive invariant the proofs use *)

\* What each thread knows of the index it owns, and how stale its view of the
\* other index may be: producer.tail, tail, consumer.head and head lie in this
\* order within one lap of Capacity.
Views ==
  /\ Sub(head, producer.tail) <= Capacity
  /\ Sub(tail, producer.tail) + Sub(head, tail) = Sub(head, producer.tail)
  /\ Sub(consumer.head, tail) + Sub(head, consumer.head) = Sub(head, tail)

ProducerState ==
  /\ producer.pc # "idle" => producer.head = head /\ producer.item \in Items
  /\ producer.pc \in {"storeSlot", "storeHead"} => Sub(head, producer.tail) < Capacity
  /\ producer.pc = "storeHead" => slots[Index(head)] = producer.item

ConsumerState ==
  /\ consumer.pc # "idle" => consumer.tail = tail
  /\ consumer.pc \in {"loadSlot", "storeTail"} => consumer.head # tail
  /\ consumer.pc = "storeTail" => consumer.item = slots[Index(tail)]

\* Only items that were pushed lie between tail and head.
ContentsAreItems ==
  \A n \in 1..Sub(head, tail) : slots[Index(Wrap(tail + n - 1))] \in Items

\* What the code of spsc_ring_push and spsc_ring_pop maintains at every step of
\* either thread; it implies TypeOK, RingBounds and NoSlotRace.
IInv == TypeOK /\ Views /\ ProducerState /\ ConsumerState /\ ContentsAreItems
=============================================================================
