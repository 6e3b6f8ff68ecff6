--------------------------- MODULE WorkerPoolProofs ---------------------------
(* Proofs about src/worker_pool.c for every number of workers, capacity and *)
(* width of next_worker, and every set of requests.                         *)
EXTENDS WorkerPool, SequenceTheorems, TLAPS

----------------------------------------------------------------------------
(* Sequences *)

\* The item popped goes from the front of the ring to the worker's hand.
LEMMA PoppedFirst ==
  ASSUME NEW S, NEW a \in Seq(S), NEW c \in Seq(S), c # <<>>
  PROVE  (a \o <<>>) \o c = (a \o <<Head(c)>>) \o Tail(c)
<1>1. Head(c) \in S /\ Tail(c) \in Seq(S) /\ <<Head(c)>> \in Seq(S)
  BY HeadTailProperties
<1>2. a \o <<>> = a
  BY ConcatEmptySeq, SMTT(60)
<1>3. (a \o <<Head(c)>>) \o Tail(c) = a \o (<<Head(c)>> \o Tail(c))
  BY <1>1, ConcatAssociative, SMTT(60)
<1>4. <<Head(c)>> \o Tail(c) = c
  <2>1. /\ Len(c) \in Nat /\ Len(c) > 0 /\ Head(c) = c[1]
        /\ Len(Tail(c)) = Len(c) - 1
        /\ \A i \in 1..Len(Tail(c)) : Tail(c)[i] = c[i+1]
    BY HeadTailProperties, EmptySeq, LenProperties, SMTT(60)
  <2>2. Len(<<Head(c)>>) = 1 /\ <<Head(c)>>[1] = Head(c)
    OBVIOUS
  <2>3. /\ <<Head(c)>> \o Tail(c) \in Seq(S)
        /\ Len(<<Head(c)>> \o Tail(c)) = 1 + Len(Tail(c))
        /\ \A i \in 1..1 + Len(Tail(c)) : (<<Head(c)>> \o Tail(c))[i] =
             IF i <= 1 THEN <<Head(c)>>[i] ELSE Tail(c)[i - 1]
    BY <1>1, <2>2, ConcatProperties, SMTT(60)
  <2>4. \A i \in 1..Len(c) : (<<Head(c)>> \o Tail(c))[i] = c[i]
    <3> SUFFICES ASSUME NEW i \in 1..Len(c) PROVE (<<Head(c)>> \o Tail(c))[i] = c[i]
      OBVIOUS
    <3>1. CASE i = 1
      BY <2>1, <2>2, <2>3, <3>1, SMTT(60)
    <3>2. CASE i # 1
      BY <2>1, <2>3, <3>2, SMTT(60)
    <3> QED BY <3>1, <3>2, ZenonT(60)
  <2>5. Len(<<Head(c)>> \o Tail(c)) = Len(c)
    BY <2>1, <2>3, SMTT(60)
  <2> QED BY <2>3, <2>4, <2>5, SeqEqual, ZenonT(60)
<1> QED BY <1>2, <1>3, <1>4, ZenonT(60)

\* The item run goes from the worker's hand to the end of its log.
LEMMA RunLast ==
  ASSUME NEW S, NEW a \in Seq(S), NEW x \in S
  PROVE  a \o <<x>> = Append(a, x) \o <<>> /\ Append(a, x) \in Seq(S)
<1>1. Append(a, x) \in Seq(S) /\ Append(a, x) = a \o <<x>>
  BY AppendProperties, AppendIsConcat, ZenonT(60)
<1>2. Append(a, x) \o <<>> = Append(a, x)
  BY <1>1, ConcatEmptySeq, ZenonT(60)
<1> QED BY <1>1, <1>2, ZenonT(60)

\* Concatenation under a name of its own, to instantiate associativity.
Cat(s, t) == s \o t

\* Items pushed to a ring come after all that was pushed before.
LEMMA CatAssociative ==
  ASSUME NEW s \in Seq(Reqs), NEW t \in Seq(Reqs), NEW u \in Seq(Reqs)
  PROVE  Cat(Cat(s, t), u) = Cat(s, Cat(t, u))
BY ConcatAssociative, SMTT(60) DEF Cat

----------------------------------------------------------------------------
(* The inductive invariant *)

PoolType ==
  /\ next_worker \in 0..CounterRange-1
  /\ ring \in [Workers -> [items : Seq(Reqs), unseen : Nat]]
  /\ running \in [Workers -> BOOLEAN]
  /\ worker \in [Workers -> [pc : {"check", "pop", "run", "exited"}, req : Reqs \union {NoReq}]]
  /\ owner \in [pc : {"serving", "stop", "join", "freed"}, at : Workers]
  /\ sent \in [Workers -> Seq(Reqs)]
  /\ log \in [Workers -> Seq(Reqs)]

\* Items and pops its producer has not seen fit the ring together: this is why
\* the producer never overwrites, and why its view is at most Capacity old.
Room == \A w \in Workers : Len(ring[w].items) + ring[w].unseen <= Capacity

Handed == \A w \in Workers : worker[w].pc = "run" => worker[w].req \in Reqs

\* worker_pool_destroy goes on to the next worker when this one has exited.
Joined ==
  /\ owner.pc = "serving" => owner.at = 0
  /\ owner.pc \in {"stop", "join"} => \A w \in Workers : w < owner.at => worker[w].pc = "exited"

PoolInv == PoolType /\ Room /\ Handed /\ Joined /\ NothingLostOrReordered /\ FreedAfterExit

\* worker_pool_dispatch, with room in the ring or without.
LEMMA PushInv ==
  ASSUME PoolInv, NEW req \in Reqs, NEW w \in Workers, NEW unseen \in 0..ring[w].unseen,
         RingPush(w, req, unseen), UNCHANGED <<running, worker, owner, log>>,
         next_worker' \in 0..CounterRange-1
  PROVE  PoolInv'
<1> USE DEF PoolInv
<1>1. /\ ring[w].items \in Seq(Reqs) /\ ring[w].unseen \in Nat /\ unseen \in Nat
      /\ unseen <= ring[w].unseen /\ Capacity \in Nat
      /\ log[w] \in Seq(Reqs) /\ sent[w] \in Seq(Reqs)
  BY PoolAssumption, SMTT(60) DEF PoolType
<1>2. UNCHANGED <<running, worker, owner, log>>
  BY Zenon
<1>3. Handed' /\ Joined' /\ FreedAfterExit'
  BY <1>2, ZenonT(60) DEF Handed, Joined, FreedAfterExit
<1>4. Len(ring[w].items) \in Nat
  BY <1>1, LenProperties, ZenonT(60)
<1>5. CASE Len(ring[w].items) + unseen >= Capacity
  <2>1. ring' = [ring EXCEPT ![w].unseen = unseen] /\ sent' = sent
    BY <1>5, ZenonT(60) DEF RingPush
  <2>2. PoolType'
    BY <1>1, <1>2, <2>1, ZenonT(60) DEF PoolType
  <2>3. Room'
    BY <1>1, <1>4, <2>1, SMTT(60) DEF PoolType, Room
  <2>4. \A v \in Workers : ring'[v].items = ring[v].items
    BY <2>1, ZenonT(60) DEF PoolType
  <2>5. NothingLostOrReordered'
    BY <1>2, <2>1, <2>4, ZenonT(60) DEF NothingLostOrReordered
  <2> QED BY <1>3, <2>2, <2>3, <2>5, ZenonT(60)
<1>6. CASE ~(Len(ring[w].items) + unseen >= Capacity)
  <2>1. /\ ring' = [ring EXCEPT ![w] = [items |-> Append(ring[w].items, req), unseen |-> unseen]]
        /\ sent' = [sent EXCEPT ![w] = Append(sent[w], req)]
    BY <1>6, ZenonT(60) DEF RingPush
  <2>2. /\ Append(ring[w].items, req) \in Seq(Reqs) /\ Append(sent[w], req) \in Seq(Reqs)
        /\ Len(Append(ring[w].items, req)) = Len(ring[w].items) + 1
    BY <1>1, AppendProperties, SMTT(60)
  <2>3. PoolType'
    BY <1>1, <1>2, <2>1, <2>2, ZenonT(60) DEF PoolType
  <2>4. Room'
    BY <1>1, <1>4, <1>6, <2>1, <2>2, SMTT(60) DEF PoolType, Room
  <2>5. PICK hand \in Seq(Reqs) : hand = IF worker[w].pc = "run" THEN <<worker[w].req>> ELSE <<>>
    <3>1. (IF worker[w].pc = "run" THEN <<worker[w].req>> ELSE <<>>) \in Seq(Reqs)
      <4>1. CASE worker[w].pc = "run"
        BY <4>1, SMTT(60) DEF Handed
      <4>2. CASE worker[w].pc # "run"
        BY <4>2, SMTT(60)
      <4> QED BY <4>1, <4>2, ZenonT(60)
    <3> QED BY <3>1, Zenon
  <2>6. Append((log[w] \o hand) \o ring[w].items, req)
          = (log[w] \o hand) \o Append(ring[w].items, req)
    <3>1. PICK a \in Seq(Reqs), c \in Seq(Reqs) : a = log[w] \o hand /\ c = ring[w].items
      <4>1. log[w] \o hand \in Seq(Reqs)
        BY <1>1, ConcatProperties, ZenonT(60)
      <4> QED BY <1>1, <4>1, ZenonT(60)
    <3>2. PICK s \in Seq(Reqs) : s = a \o c
      <4>1. a \o c \in Seq(Reqs)
        BY ConcatProperties, ZenonT(60)
      <4> QED BY <4>1, ZenonT(60)
    <3>3. PICK y \in Seq(Reqs) : y = <<req>>
      <4>1. <<req>> \in Seq(Reqs)
        OBVIOUS
      <4> QED BY <4>1, ZenonT(60)
    <3>4. Append(s, req) = s \o y /\ Append(c, req) = c \o y
      BY <3>3, AppendIsConcat, ZenonT(60)
    <3>5. (a \o c) \o y = a \o (c \o y)
      <4>1. Cat(Cat(a, c), y) = Cat(a, Cat(c, y))
        BY CatAssociative, SMTT(60)
      <4> QED BY <4>1, ZenonT(60) DEF Cat
    <3>6. Append(a \o c, req) = a \o Append(c, req)
      BY <3>2, <3>4, <3>5, ZenonT(60)
    <3> QED BY <3>1, <3>6, ZenonT(60)
  <2>7. sent[w] = (log[w] \o hand) \o ring[w].items
    BY <2>5, ZenonT(60) DEF NothingLostOrReordered
  <2>8. /\ sent'[w] = Append(sent[w], req) /\ ring'[w].items = Append(ring[w].items, req)
        /\ \A v \in Workers : v # w => sent'[v] = sent[v] /\ ring'[v].items = ring[v].items
    BY <2>1, ZenonT(60) DEF PoolType
  <2>9. sent'[w] = (log[w] \o hand) \o ring'[w].items
    BY <2>6, <2>7, <2>8, ZenonT(60)
  <2>10. NothingLostOrReordered'
    BY <1>2, <2>5, <2>8, <2>9, ZenonT(60) DEF NothingLostOrReordered
  <2> QED BY <1>3, <2>3, <2>4, <2>10, ZenonT(60)
<1> QED BY <1>5, <1>6

\* spsc_ring_pop by the worker.
LEMMA PopInv ==
  ASSUME PoolInv, NEW w \in Workers, WorkerPopItem(w)
  PROVE  PoolInv'
<1> USE DEF PoolInv
<1>1. PICK c \in Seq(Reqs), l \in Seq(Reqs) : c = ring[w].items /\ l = log[w]
  BY Zenon DEF PoolType
<1>2. /\ worker[w].pc = "pop" /\ c # <<>>
      /\ worker' = [worker EXCEPT ![w] = [pc |-> "run", req |-> Head(c)]]
      /\ ring' = [ring EXCEPT ![w] = [items |-> Tail(c), unseen |-> ring[w].unseen + 1]]
  BY <1>1, ZenonT(60) DEF WorkerPopItem
<1>3. UNCHANGED <<next_worker, running, owner, sent, log>>
  BY Zenon DEF WorkerPopItem
<1>4. Head(c) \in Reqs /\ Tail(c) \in Seq(Reqs) /\ Len(Tail(c)) = Len(c) - 1 /\ Len(c) \in Nat
  BY <1>2, HeadTailProperties, LenProperties, ZenonT(60)
<1>5. PoolType'
  <2>1. /\ [pc |-> "run", req |-> Head(c)]
             \in [pc : {"check", "pop", "run", "exited"}, req : Reqs \union {NoReq}]
        /\ [items |-> Tail(c), unseen |-> ring[w].unseen + 1] \in [items : Seq(Reqs), unseen : Nat]
    BY <1>4, SMTT(60) DEF PoolType
  <2>2. ring' \in [Workers -> [items : Seq(Reqs), unseen : Nat]]
    BY <1>2, <2>1, Zenon DEF PoolType
  <2>3. worker' \in [Workers -> [pc : {"check", "pop", "run", "exited"}, req : Reqs \union {NoReq}]]
    BY <1>2, <2>1, ZenonT(60) DEF PoolType
  <2> QED BY <1>3, <2>2, <2>3, ZenonT(60) DEF PoolType
<1>6. Room'
  BY <1>1, <1>2, <1>4, SMTT(60) DEF PoolType, Room
<1>7. Handed' /\ Joined' /\ FreedAfterExit'
  BY <1>2, <1>3, <1>4, ZenonT(60) DEF PoolType, Handed, Joined, FreedAfterExit
<1>8. NothingLostOrReordered'
  <2>1. (l \o <<>>) \o c = (l \o <<Head(c)>>) \o Tail(c)
    BY <1>2, PoppedFirst, ZenonT(60)
  <2>2. sent[w] = (l \o <<>>) \o c
    BY <1>1, <1>2, ZenonT(60) DEF NothingLostOrReordered
  <2>3. /\ worker'[w].pc = "run" /\ worker'[w].req = Head(c) /\ ring'[w].items = Tail(c)
        /\ \A v \in Workers : v # w => worker'[v] = worker[v] /\ ring'[v] = ring[v]
    BY <1>2, ZenonT(60) DEF PoolType
  <2>4. sent[w] = (log[w] \o <<worker'[w].req>>) \o ring'[w].items
    BY <1>1, <2>1, <2>2, <2>3, ZenonT(60)
  <2> QED BY <1>3, <2>3, <2>4, ZenonT(60) DEF NothingLostOrReordered
<1> QED BY <1>5, <1>6, <1>7, <1>8, ZenonT(60)

\* The worker runs the item and goes back to its loop.
LEMMA RunInv ==
  ASSUME PoolInv, NEW w \in Workers, WorkerRun(w)
  PROVE  PoolInv'
<1> USE DEF PoolInv
<1>1. PICK l \in Seq(Reqs) : l = log[w]
  BY DEF PoolType
<1>2. PICK x \in Reqs : x = worker[w].req
  BY Zenon DEF WorkerRun, Handed
<1>3. /\ worker[w].pc = "run"
      /\ log' = [log EXCEPT ![w] = Append(l, x)]
      /\ worker' = [worker EXCEPT ![w] = [pc |-> "check", req |-> NoReq]]
  BY <1>1, <1>2, ZenonT(60) DEF WorkerRun
<1>4. UNCHANGED <<next_worker, ring, running, owner, sent>>
  BY DEF WorkerRun
<1>5. l \o <<x>> = Append(l, x) \o <<>> /\ Append(l, x) \in Seq(Reqs)
  BY RunLast, ZenonT(60)
<1>6. PoolType'
  BY <1>3, <1>4, <1>5, ZenonT(60) DEF PoolType
<1>7. Room' /\ Handed' /\ Joined' /\ FreedAfterExit'
  BY <1>3, <1>4, ZenonT(60) DEF PoolType, Room, Handed, Joined, FreedAfterExit
<1>8. NothingLostOrReordered'
  <2>1. sent[w] = (l \o <<x>>) \o ring[w].items
    BY <1>1, <1>2, <1>3, ZenonT(60) DEF NothingLostOrReordered
  <2>2. /\ worker'[w].pc = "check" /\ log'[w] = Append(l, x)
        /\ \A v \in Workers : v # w => worker'[v] = worker[v] /\ log'[v] = log[v]
    BY <1>3, ZenonT(60) DEF PoolType
  <2>3. sent[w] = (log'[w] \o <<>>) \o ring[w].items
    BY <1>5, <2>1, <2>2, ZenonT(60)
  <2> QED BY <1>4, <2>2, <2>3, ZenonT(60) DEF NothingLostOrReordered
<1> QED BY <1>6, <1>7, <1>8, ZenonT(60)

\* A worker between two items, and the owner in worker_pool_destroy, touch no
\* item.
LEMMA ControlInv ==
  ASSUME PoolInv, UNCHANGED <<ring, sent, log>>, PoolType',
         \A w \in Workers : worker'[w].pc = "run" <=> worker[w].pc = "run",
         \A w \in Workers : worker'[w].req = worker[w].req,
         Joined', FreedAfterExit'
  PROVE  PoolInv'
BY ZenonT(60) DEF PoolInv, Room, Handed, NothingLostOrReordered

\* Every step keeps the invariant.
LEMMA PoolStep ==
  ASSUME PoolInv, [Next]_vars
  PROVE  PoolInv'
<1> USE DEF PoolInv
<1>0. /\ NumWorkers \in Nat /\ NumWorkers > 0 /\ CounterRange \in Nat /\ CounterRange > 0
      /\ \A w \in Workers : w \in Nat /\ w < NumWorkers
      /\ 0 \in Workers
  BY PoolAssumption, SMTT(60) DEF Workers
<1>1. ASSUME NEW req \in Reqs, Dispatch(req) PROVE PoolInv'
  <2>1. PICK w \in Workers : w = next_worker % NumWorkers
    BY <1>0, SMTT(60) DEF PoolType, Workers
  <2>2. next_worker' \in 0..CounterRange-1
    BY <1>0, <1>1, SMTT(60) DEF Dispatch, PoolType
  <2>3. UNCHANGED <<running, worker, owner, log>>
    BY <1>1, Zenon DEF Dispatch
  <2>4. CASE UNCHANGED <<ring, sent>>
    <3>1. PoolType' /\ Joined' /\ FreedAfterExit'
      BY <2>2, <2>3, <2>4, ZenonT(60) DEF PoolType, Joined, FreedAfterExit
    <3> QED BY <2>3, <2>4, <3>1, ControlInv, ZenonT(60)
  <2>5. CASE \E unseen \in 0..ring[w].unseen : RingPush(w, req, unseen)
    BY <2>2, <2>3, <2>5, PushInv, SMTT(60)
  <2> QED BY <1>1, <2>1, <2>4, <2>5, ZenonT(60) DEF Dispatch
<1>2. ASSUME NEW w \in Workers, WorkerCheck(w) PROVE PoolInv'
  <2>1. /\ worker[w].pc = "check"
        /\ worker' = [worker EXCEPT ![w].pc = IF running[w] THEN "pop" ELSE "exited"]
        /\ UNCHANGED <<next_worker, ring, running, owner, sent, log>>
    BY <1>2, ZenonT(60) DEF WorkerCheck
  <2>2. PoolType' /\ Joined' /\ FreedAfterExit'
    BY <2>1, ZenonT(60) DEF PoolType, Joined, FreedAfterExit
  <2>3. /\ \A v \in Workers : worker'[v].pc = "run" <=> worker[v].pc = "run"
        /\ \A v \in Workers : worker'[v].req = worker[v].req
    BY <2>1, SMTT(60) DEF PoolType
  <2> QED BY <2>1, <2>2, <2>3, ControlInv, ZenonT(60)
<1>3. ASSUME NEW w \in Workers, WorkerPopNull(w) PROVE PoolInv'
  <2>1. /\ worker[w].pc = "pop"
        /\ worker' = [worker EXCEPT ![w].pc = "check"]
        /\ UNCHANGED <<next_worker, ring, running, owner, sent, log>>
    BY <1>3 DEF WorkerPopNull
  <2>2. PoolType' /\ Joined' /\ FreedAfterExit'
    BY <2>1, ZenonT(60) DEF PoolType, Joined, FreedAfterExit
  <2>3. /\ \A v \in Workers : worker'[v].pc = "run" <=> worker[v].pc = "run"
        /\ \A v \in Workers : worker'[v].req = worker[v].req
    BY <2>1, ZenonT(60) DEF PoolType
  <2> QED BY <2>1, <2>2, <2>3, ControlInv
<1>4. ASSUME UNCHANGED <<next_worker, ring, running, worker, owner, sent, log>> PROVE PoolInv'
  <2>1. PoolType' /\ Joined' /\ FreedAfterExit'
    BY <1>4, ZenonT(60) DEF PoolType, Joined, FreedAfterExit
  <2> QED BY <1>4, <2>1, ControlInv, ZenonT(60)
<1>5. ASSUME DestroyStop PROVE PoolInv'
  <2>1. /\ owner.pc \in {"serving", "stop"}
        /\ running' = [running EXCEPT ![owner.at] = FALSE]
        /\ owner' = [owner EXCEPT !.pc = "join"]
        /\ UNCHANGED <<next_worker, ring, worker, sent, log>>
    BY <1>5, ZenonT(60) DEF DestroyStop
  <2>2. PoolType'
    BY <2>1, ZenonT(60) DEF PoolType
  <2>3. Joined' /\ FreedAfterExit'
    BY <1>0, <2>1, SMTT(60) DEF PoolType, Joined, FreedAfterExit
  <2> QED BY <2>1, <2>2, <2>3, ControlInv, ZenonT(60)
<1>6. ASSUME DestroyJoin PROVE PoolInv'
  <2>1. /\ owner.pc = "join" /\ worker[owner.at].pc = "exited"
        /\ owner' = IF owner.at + 1 = NumWorkers THEN [owner EXCEPT !.pc = "freed"]
                    ELSE [pc |-> "stop", at |-> owner.at + 1]
        /\ UNCHANGED <<next_worker, ring, running, worker, sent, log>>
    BY <1>6, ZenonT(60) DEF DestroyJoin
  <2>2. owner.at \in Nat /\ owner.at < NumWorkers /\ owner.at \in Workers
    BY <1>0, ZenonT(60) DEF PoolType
  <2>3. owner.at + 1 # NumWorkers => owner.at + 1 \in Workers
    BY <1>0, <2>2, SMTT(60) DEF Workers
  <2>4. PoolType'
    BY <2>1, <2>2, <2>3, ZenonT(60) DEF PoolType
  <2>5. \A v \in Workers : v < owner.at + 1 => worker[v].pc = "exited"
    BY <1>0, <2>1, <2>2, SMTT(60) DEF Joined
  <2>6. CASE owner.at + 1 = NumWorkers
    <3>1. owner'.pc = "freed" /\ \A v \in Workers : worker'[v].pc = "exited"
      BY <1>0, <2>1, <2>2, <2>5, <2>6, ZenonT(60) DEF PoolType
    <3>2. Joined' /\ FreedAfterExit'
      BY <3>1, ZenonT(60) DEF Joined, FreedAfterExit
    <3> QED BY <2>1, <2>4, <3>2, ControlInv, ZenonT(60)
  <2>7. CASE owner.at + 1 # NumWorkers
    <3>1. owner' = [pc |-> "stop", at |-> owner.at + 1]
      BY <2>1, <2>7, ZenonT(60)
    <3>2. Joined' /\ FreedAfterExit'
      BY <2>1, <2>5, <3>1, SMTT(60) DEF Joined, FreedAfterExit
    <3> QED BY <2>1, <2>4, <3>2, ControlInv, SMTT(60)
  <2> QED BY <2>6, <2>7, SMTT(60)
<1>7. CASE \E w \in Workers : WorkerStep(w) \/ OnReturnMessage(w)
  BY <1>2, <1>3, <1>4, <1>7, PopInv, RunInv, ZenonT(60) DEF WorkerStep, OnReturnMessage
<1>8. CASE ProcessReturns
  BY <1>4, <1>8, ZenonT(60) DEF ProcessReturns
<1>9. CASE UNCHANGED vars
  BY <1>4, <1>9, ZenonT(60) DEF vars
<1> QED BY <1>1, <1>5, <1>6, <1>7, <1>8, <1>9, ZenonT(60) DEF Next

\* The invariant holds of every behaviour of the pool.
LEMMA PoolInvariance == Spec => []PoolInv
<1>1. Init => PoolInv
  <2> SUFFICES ASSUME Init PROVE PoolInv
    OBVIOUS
  <2>1. 0 \in Workers /\ 0 \in 0..CounterRange-1 /\ Capacity \in Nat
    BY PoolAssumption, SMTT(60) DEF Workers
  <2>2. <<>> \in Seq(Reqs) /\ Len(<<>>) = 0 /\ (<<>> \o <<>>) \o <<>> = <<>>
    BY SMTT(60)
  <2>3. PoolType
    BY <2>1, <2>2, ZenonT(60) DEF Init, PoolType
  <2>4. Room /\ Handed /\ Joined /\ FreedAfterExit
    BY <2>1, <2>2, SMTT(60) DEF Init, Room, Handed, Joined, FreedAfterExit
  <2>5. NothingLostOrReordered
    BY <2>2, ZenonT(60) DEF Init, NothingLostOrReordered
  <2> QED BY <2>3, <2>4, <2>5, ZenonT(60) DEF PoolInv
<1>2. PoolInv /\ [Next]_vars => PoolInv'
  BY PoolStep, ZenonT(60)
<1> QED BY <1>1, <1>2, PTL DEF Spec

\* worker_pool.c: the fields stay in their types; the free slots the dispatcher
\* may not have seen yet are slots of the ring.
THEOREM PoolTypeCorrect == Spec => []TypeOK
<1>1. PoolInv => TypeOK
  <2> SUFFICES ASSUME PoolInv PROVE TypeOK
    BY ZenonT(60)
  <2>1. ASSUME NEW w \in Workers PROVE ring[w].items \in Seq(Reqs) /\ ring[w].unseen \in 0..Capacity
    <3>1. ring[w].items \in Seq(Reqs) /\ ring[w].unseen \in Nat
      BY Zenon DEF PoolInv, PoolType
    <3>2. Len(ring[w].items) \in Nat /\ Capacity \in Nat
      BY <3>1, LenProperties, PoolAssumption, ZenonT(60)
    <3> QED BY <3>1, <3>2, SMTT(60) DEF PoolInv, Room
  <2> QED BY <2>1, ZenonT(60) DEF PoolInv, PoolType, TypeOK
<1> QED BY <1>1, PoolInvariance, PTL

\* worker_pool_dispatch to worker_thread: every accepted item is run once, by
\* its worker, in order, or is still on its way.
THEOREM DispatchExactlyOnce == Spec => []NothingLostOrReordered
<1>1. PoolInv => NothingLostOrReordered
  BY ZenonT(60) DEF PoolInv
<1> QED BY <1>1, PoolInvariance, PTL

\* worker_pool_destroy frees nothing that a worker thread still uses.
THEOREM DestroyIsSafe == Spec => []FreedAfterExit
<1>1. PoolInv => FreedAfterExit
  BY DEF PoolInv
<1> QED BY <1>1, PoolInvariance, PTL

----------------------------------------------------------------------------
(* The pool uses its rings as bounded FIFO queues *)

\* Steps that leave the ring of w and what it last returned alone.
LEMMA RingIdle ==
  ASSUME NEW w \in Workers, ring'[w] = ring[w], Popped(w)' = Popped(w)
  PROVE  UNCHANGED RingOf(w)!vars
BY Zenon DEF RingOf!vars

\* What was popped last is in the worker's hand or at the end of its log.
LEMMA SamePopped ==
  ASSUME NEW w \in Workers, log'[w] = log[w],
         worker'[w].pc = "run" <=> worker[w].pc = "run", worker'[w].req = worker[w].req
  PROVE  Popped(w)' = Popped(w)
BY Zenon DEF Popped

\* Every step of the pool is a step of the FIFO of w, or leaves it alone.
LEMMA RingStep ==
  ASSUME PoolInv, [Next]_vars, NEW w \in Workers
  PROVE  [RingOf(w)!Next]_(RingOf(w)!vars)
<1> USE DEF PoolInv
<1>1. ASSUME NEW v \in Workers, NEW req \in Reqs, NEW unseen \in 0..ring[v].unseen,
             RingPush(v, req, unseen), UNCHANGED <<worker, log>>
      PROVE  [RingOf(w)!Next]_(RingOf(w)!vars)
  <2>1. Popped(w)' = Popped(w)
    BY <1>1, ZenonT(60) DEF Popped
  <2>2. CASE v # w
    <3>1. ring'[w] = ring[w]
      BY <1>1, <2>2, SMTT(60) DEF RingPush, PoolType
    <3> QED
      BY <2>1, <3>1, RingIdle, ZenonT(60)
  <2>3. CASE v = w /\ Len(ring[w].items) + unseen >= Capacity
    <3>1. ring'[w].items = ring[w].items /\ ring'[w].unseen = unseen
      BY <1>1, <2>3, SMTT(60) DEF RingPush, PoolType
    <3>2. RingOf(w)!Look
      BY <1>1, <2>1, <2>3, <3>1, ZenonT(60) DEF RingOf!Look
    <3> QED
      BY <3>2, Zenon DEF RingOf!Next
  <2>4. CASE v = w /\ ~(Len(ring[w].items) + unseen >= Capacity)
    <3>1. ring'[w].items = Append(ring[w].items, req) /\ ring'[w].unseen = unseen
      BY <1>1, <2>4, SMTT(60) DEF RingPush, PoolType
    <3>2. Len(ring[w].items) + unseen < Capacity
      <4>1. Len(ring[w].items) \in Nat /\ unseen \in Nat /\ Capacity \in Nat
        <5>1. ring[w].items \in Seq(Reqs) /\ ring[v].unseen \in Nat
          BY ZenonT(60) DEF PoolType
        <5> QED
          BY <5>1, LenProperties, PoolAssumption, SMTT(60)
      <4> QED
        BY <2>4, <4>1, SMTT(30)
    <3>3. RingOf(w)!Push(req)
      BY <1>1, <2>1, <2>4, <3>1, <3>2, ZenonT(60) DEF RingOf!Push
    <3> QED
      BY <3>3, ZenonT(60) DEF RingOf!Next
  <2> QED
    BY <2>2, <2>3, <2>4, ZenonT(60)
<1>2. ASSUME NEW v \in Workers, WorkerPopItem(v) PROVE [RingOf(w)!Next]_(RingOf(w)!vars)
  <2>1. CASE v # w
    <3>1. ring'[w] = ring[w] /\ worker'[w] = worker[w] /\ log'[w] = log[w]
      BY <1>2, <2>1, SMTT(60) DEF WorkerPopItem, PoolType
    <3> QED
      BY <3>1, SamePopped, RingIdle, ZenonT(60)
  <2>2. CASE v = w
    <3>1. /\ ring[w].items # <<>>
          /\ worker'[w].pc = "run" /\ worker'[w].req = Head(ring[w].items)
          /\ ring'[w].items = Tail(ring[w].items) /\ ring'[w].unseen = ring[w].unseen + 1
      BY <1>2, <2>2, SMTT(60) DEF WorkerPopItem, PoolType
    <3>2. Popped(w)' = Head(ring[w].items)
      BY <3>1, ZenonT(60) DEF Popped
    <3>3. RingOf(w)!Pop
      BY <3>1, <3>2, ZenonT(60) DEF RingOf!Pop
    <3> QED
      BY <3>3, ZenonT(60) DEF RingOf!Next
  <2> QED
    BY <2>1, <2>2, ZenonT(60)
<1>3. ASSUME NEW v \in Workers, WorkerRun(v) PROVE [RingOf(w)!Next]_(RingOf(w)!vars)
  <2>1. ring'[w] = ring[w]
    BY <1>3, ZenonT(60) DEF WorkerRun
  <2>2. CASE v # w
    <3>1. worker'[w] = worker[w] /\ log'[w] = log[w]
      BY <1>3, <2>2, SMTT(60) DEF WorkerRun, PoolType
    <3> QED
      BY <2>1, <3>1, SamePopped, RingIdle, ZenonT(60)
  <2>3. CASE v = w
    <3>1. PICK l \in Seq(Reqs), x \in Reqs : l = log[w] /\ x = worker[w].req
      BY <1>3, <2>3, ZenonT(60) DEF WorkerRun, PoolType, Handed
    <3>2. worker[w].pc = "run" /\ worker'[w].pc = "check" /\ log'[w] = Append(l, x)
      BY <1>3, <2>3, <3>1, SMTT(60) DEF WorkerRun, PoolType
    <3>3. Append(l, x) # <<>> /\ Last(Append(l, x)) = x
      BY SMTT(60) DEF Last
    <3>4. Popped(w)' = x
      <4>1. log'[w] # <<>> /\ Last(log'[w]) = x /\ worker'[w].pc # "run"
        BY <3>2, <3>3, SMTT(60)
      <4> QED
        BY <4>1, ZenonT(60) DEF Popped
    <3>5. Popped(w) = x
      BY <3>1, <3>2, ZenonT(60) DEF Popped
    <3> QED
      BY <2>1, <3>4, <3>5, RingIdle, ZenonT(60)
  <2> QED
    BY <2>2, <2>3, Zenon
<1>4. ASSUME NEW v \in Workers, WorkerCheck(v) \/ WorkerPopNull(v)
      PROVE  [RingOf(w)!Next]_(RingOf(w)!vars)
  <2>1. ring'[w] = ring[w] /\ log'[w] = log[w]
    BY <1>4, ZenonT(60) DEF WorkerCheck, WorkerPopNull
  <2>2. /\ worker'[w].pc = "run" <=> worker[w].pc = "run"
        /\ worker'[w].req = worker[w].req
    <3>1. ASSUME NEW pc, worker' = [worker EXCEPT ![v].pc = pc], pc # "run", worker[v].pc # "run"
          PROVE  /\ worker'[w].pc = "run" <=> worker[w].pc = "run"
                 /\ worker'[w].req = worker[w].req
      <4>1. CASE v = w
        BY <3>1, <4>1, SMTT(60) DEF PoolType
      <4>2. CASE v # w
        BY <3>1, <4>2, SMTT(60) DEF PoolType
      <4> QED
        BY <4>1, <4>2, ZenonT(60)
    <3>2. CASE WorkerCheck(v)
      <4>1. PICK pc \in {"pop", "exited"} : worker' = [worker EXCEPT ![v].pc = pc]
        BY <3>2, ZenonT(60) DEF WorkerCheck
      <4>2. worker[v].pc # "run" /\ pc # "run"
        BY <3>2, SMTT(60) DEF WorkerCheck
      <4> QED
        BY <3>1, <4>1, <4>2, ZenonT(60)
    <3>3. CASE WorkerPopNull(v)
      <4>1. worker[v].pc = "pop" /\ worker' = [worker EXCEPT ![v].pc = "check"]
        BY <3>3, ZenonT(60) DEF WorkerPopNull
      <4> QED
        BY <3>1, <4>1, ZenonT(60)
    <3> QED
      BY <1>4, <3>2, <3>3, ZenonT(60)
  <2> QED
    BY <2>1, <2>2, SamePopped, RingIdle, ZenonT(60)
<1>5. ASSUME UNCHANGED <<ring, worker, log>> PROVE [RingOf(w)!Next]_(RingOf(w)!vars)
  BY <1>5, SamePopped, RingIdle, ZenonT(60)
<1>6. ASSUME NEW req \in Reqs, Dispatch(req) PROVE [RingOf(w)!Next]_(RingOf(w)!vars)
  <2>1. PICK v \in Workers : v = next_worker % NumWorkers
    <3>1. NumWorkers \in Nat /\ NumWorkers > 0 /\ CounterRange \in Nat
      BY PoolAssumption, SMTT(60)
    <3>2. next_worker \in Nat
      BY <3>1, SMTT(60) DEF PoolType
    <3> QED
      BY <3>1, <3>2, SMTT(60) DEF Workers
  <2>2. UNCHANGED <<worker, log>>
    BY <1>6, ZenonT(60) DEF Dispatch
  <2>3. UNCHANGED ring \/ \E unseen \in 0..ring[v].unseen : RingPush(v, req, unseen)
    BY <1>6, <2>1, ZenonT(60) DEF Dispatch
  <2> QED
    BY <1>1, <1>5, <2>2, <2>3, ZenonT(60)
<1>7. ASSUME NEW v \in Workers, WorkerStep(v) \/ OnReturnMessage(v)
      PROVE  [RingOf(w)!Next]_(RingOf(w)!vars)
  BY <1>2, <1>3, <1>4, <1>5, <1>7, ZenonT(60) DEF WorkerStep, OnReturnMessage
<1>8. CASE ProcessReturns \/ DestroyStop \/ DestroyJoin \/ UNCHANGED vars
  BY <1>5, <1>8, ZenonT(60) DEF ProcessReturns, DestroyStop, DestroyJoin, vars
<1> QED
  BY <1>6, <1>7, <1>8, ZenonT(60) DEF Next

\* worker_pool.c and spsc_ring.c fit together: whatever the H2O thread and the
\* workers do, each ring moves as the bounded FIFO that spsc_ring.c implements.
THEOREM PoolKeepsRings == Spec => RingsAreFifos
<1>1. Init => \A w \in Workers : RingOf(w)!Init
  <2> SUFFICES ASSUME Init, NEW w \in Workers PROVE RingOf(w)!Init
    BY ZenonT(60)
  <2>1. /\ ring[w].items = <<>> /\ ring[w].unseen = 0
        /\ worker[w].pc = "check" /\ log[w] = <<>>
    BY SMTT(60) DEF Init
  <2> QED
    BY <2>1, ZenonT(60) DEF RingOf!Init, Popped
<1>2. PoolInv /\ [Next]_vars => \A w \in Workers : [RingOf(w)!Next]_(RingOf(w)!vars)
  BY RingStep, Zenon
<1> QED
  BY <1>1, <1>2, PoolInvariance, PTL DEF Spec, RingsAreFifos
=============================================================================
