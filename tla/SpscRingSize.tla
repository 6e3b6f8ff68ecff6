---------------------------- MODULE SpscRingSize ----------------------------
(* spsc_ring_size and spsc_ring_empty of src/spsc_ring.h: two separate      *)
(* loads, head first, then tail, while the ring keeps moving.               *)
EXTENDS SpscRing

CONSTANT Callers    \* the threads that ask for the size

ASSUME CallersAssumption == Callers \subseteq {"producer", "consumer", "other"}

VARIABLE size       \* the call: pc, calling thread, head loaded, result, and
                    \* whether the caller has not used the ring since

sizeVars == <<vars, size>>

SizeInit ==
  /\ Init
  /\ size = [pc |-> "idle", caller |-> "none", head |-> 0, result |-> 0, known |-> FALSE]

\* The caller is not inside push or pop.
Outside(caller) ==
  /\ caller = "producer" => producer.pc = "idle"
  /\ caller = "consumer" => consumer.pc = "idle"

SizeLoadHead(caller) ==
  /\ size.pc = "idle"
  /\ Outside(caller)
  /\ \E h \in IF caller = "consumer" THEN SeenSince(consumer.head, head) ELSE {head} :
       /\ size' = [pc |-> "loadTail", caller |-> caller, head |-> h, result |-> 0,
                   known |-> FALSE]
       /\ consumer' = IF caller = "consumer" THEN [consumer EXCEPT !.head = h] ELSE consumer
  /\ UNCHANGED <<slots, head, tail, producer, got>>

SizeNotWrapped(h, t) == h - t

SizeMasked(h, t) == Sub(h, t) % Capacity

\* head - tail, in size_t.
SizeOf(h, t) == Sub(h, t)

SizeLoadTail ==
  /\ size.pc = "loadTail"
  /\ \E t \in IF size.caller = "producer" THEN SeenSince(producer.tail, tail) ELSE {tail} :
       /\ size' = [size EXCEPT !.pc = "idle", !.result = SizeOf(size.head, t), !.known = TRUE]
       /\ producer' = IF size.caller = "producer" THEN [producer EXCEPT !.tail = t] ELSE producer
  /\ UNCHANGED <<slots, head, tail, consumer, got>>

\* A step of push or pop; a thread that is inside spsc_ring_size takes none.
RingStep ==
  /\ Next
  /\ size.pc = "loadTail" /\ size.caller = "producer" => producer' = producer
  /\ size.pc = "loadTail" /\ size.caller = "consumer" => consumer' = consumer
  /\ size' = [size EXCEPT !.known = /\ size.known
                                    /\ size.caller = "producer" => producer' = producer
                                    /\ size.caller = "consumer" => consumer' = consumer]

SizeNext == RingStep \/ SizeLoadTail \/ \E caller \in Callers : SizeLoadHead(caller)

SizeSpec == SizeInit /\ [][SizeNext]_sizeVars

\* A thread that asks for the size again and again still gets to push and pop.
SizeFairness ==
  /\ WF_sizeVars(SizeLoadTail)
  /\ SF_sizeVars(RingStep /\ Push)
  /\ SF_sizeVars(RingStep /\ Pop)
  /\ SF_sizeVars(RingStep /\ PopLoadNewestHead)

SizeFairSpec == SizeSpec /\ SizeFairness

\* spsc_ring.h:44 "Returns the number of items currently in the ring": a size
\* is never larger than the ring.
SizeInBounds == size.known => size.result \in 0..Capacity

\* While the thread that asked makes no push or pop of its own, the size the
\* consumer got is a lower bound of the number of items (so a non-zero size
\* means that the next pop succeeds) and the one the producer got an upper
\* bound (so a size below the capacity means that the next push succeeds).
SizeIsSafeEstimate ==
  size.known =>
    /\ size.caller = "consumer" => size.result <= Sub(head, tail)
    /\ size.caller = "producer" => size.result >= Sub(head, tail)
=============================================================================
