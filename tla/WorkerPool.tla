----------------------------- MODULE WorkerPool -----------------------------
(* The actor-lite pool of src/worker_pool.c: the H2O thread that owns the   *)
(* pool dispatches work items round robin to per-worker SPSC rings, worker  *)
(* threads pop and run them, worker_pool_destroy stops the workers one by   *)
(* one.  A ring is the bounded FIFO that SpscRing implements, together with *)
(* the number of pops its producer need not have seen yet.                  *)
EXTENDS Naturals, Sequences, SequencesExt

CONSTANTS Reqs,        \* the requests the H2O thread dispatches
          NumWorkers,
          Capacity,    \* SPSC_CAPACITY
          CounterRange \* next_worker is a size_t; it wraps here

ASSUME PoolAssumption ==
  /\ NumWorkers \in Nat \ {0}
  /\ Capacity \in Nat \ {0}
  /\ CounterRange \in Nat /\ CounterRange >= NumWorkers

Workers == 0..NumWorkers-1
NoReq == "none"

VARIABLES next_worker,
          ring,        \* [items, unseen] per worker
          running,     \* the flag worker_thread polls
          worker,      \* [pc, req] per worker thread
          owner,       \* the H2O thread: serving, or where it is in destroy
          wake,        \* receivers with a pending wake-up
          messages,    \* return messages queued for each receiver
          answered,    \* requests answered by on_return_message
          sent, log    \* history: requests accepted for, and run by, a worker

vars == <<next_worker, ring, running, worker, owner, wake, messages, answered, sent, log>>
returnVars == <<wake, messages, answered>>

----------------------------------------------------------------------------

\* worker_pool_init
Init ==
  /\ next_worker = 0
  /\ ring = [w \in Workers |-> [items |-> <<>>, unseen |-> 0]]
  /\ running = [w \in Workers |-> TRUE]
  /\ worker = [w \in Workers |-> [pc |-> "check", req |-> NoReq]]
  /\ owner = [pc |-> "serving", at |-> 0]
  /\ wake = [w \in Workers |-> FALSE]
  /\ messages = [w \in Workers |-> <<>>]
  /\ answered = {}
  /\ sent = [w \in Workers |-> <<>>]
  /\ log = [w \in Workers |-> <<>>]

Accepted == UNION {ToSet(sent[w]) : w \in Workers}

----------------------------------------------------------------------------
(* worker_pool_dispatch *)

\* The ring does not check for room.
RingPushNoCheck(w, req, unseen) ==
  /\ ring' = [ring EXCEPT ![w] = [items |-> Append(@.items, req), unseen |-> unseen]]
  /\ sent' = [sent EXCEPT ![w] = Append(@, req)]

\* Push onto the ring of w with `unseen` pops not yet visible to this thread.
RingPush(w, req, unseen) ==
  IF Len(ring[w].items) + unseen >= Capacity
  THEN /\ ring' = [ring EXCEPT ![w].unseen = unseen]
       /\ UNCHANGED sent
  ELSE /\ ring' = [ring EXCEPT ![w] = [items |-> Append(@.items, req), unseen |-> unseen]]
       /\ sent' = [sent EXCEPT ![w] = Append(@, req)]

Dispatch(req) ==
  /\ owner.pc = "serving"
  /\ req \notin Accepted
  /\ next_worker' = (next_worker + 1) % CounterRange
  /\ LET w == next_worker % NumWorkers IN
       \/ UNCHANGED <<ring, sent>>                  \* malloc failed
       \/ \E unseen \in 0..ring[w].unseen : RingPush(w, req, unseen)
  /\ UNCHANGED <<running, worker, owner, returnVars, log>>

----------------------------------------------------------------------------
(* worker_thread *)

\* The flag is not looked at.
WorkerCheckIgnored(w) ==
  /\ worker[w].pc = "check"
  /\ worker' = [worker EXCEPT ![w].pc = "pop"]
  /\ UNCHANGED <<next_worker, ring, running, owner, returnVars, sent, log>>

\* The acquire load of running.  A stale load is a load before the store of
\* DestroyStop: between that store and pthread_join the owner does nothing.
WorkerCheck(w) ==
  /\ worker[w].pc = "check"
  /\ worker' = [worker EXCEPT ![w].pc = IF running[w] THEN "pop" ELSE "exited"]
  /\ UNCHANGED <<next_worker, ring, running, owner, returnVars, sent, log>>

\* spsc_ring_pop returned NULL: the ring is empty, or the load of head stale.
WorkerPopNull(w) ==
  /\ worker[w].pc = "pop"
  /\ worker' = [worker EXCEPT ![w].pc = "check"]
  /\ UNCHANGED <<next_worker, ring, running, owner, returnVars, sent, log>>

\* The newest item is taken first.
WorkerPopLast(w) ==
  /\ worker[w].pc = "pop"
  /\ ring[w].items # <<>>
  /\ worker' = [worker EXCEPT ![w] = [pc |-> "run", req |-> Last(ring[w].items)]]
  /\ ring' = [ring EXCEPT ![w] = [items |-> Front(@.items), unseen |-> @.unseen + 1]]
  /\ UNCHANGED <<next_worker, running, owner, returnVars, sent, log>>

WorkerPopItem(w) ==
  /\ worker[w].pc = "pop"
  /\ ring[w].items # <<>>
  /\ worker' = [worker EXCEPT ![w] = [pc |-> "run", req |-> Head(ring[w].items)]]
  /\ ring' = [ring EXCEPT ![w] = [items |-> Tail(@.items), unseen |-> @.unseen + 1]]
  /\ UNCHANGED <<next_worker, running, owner, returnVars, sent, log>>

\* The worker does not go back to its loop.
WorkerRunOnce(w) ==
  /\ worker[w].pc = "run"
  /\ log' = [log EXCEPT ![w] = Append(@, worker[w].req)]
  /\ worker' = [worker EXCEPT ![w] = [pc |-> "exited", req |-> NoReq]]
  /\ UNCHANGED <<next_worker, ring, running, owner, returnVars, sent>>

\* item->handler(...); free(item)
WorkerRun(w) ==
  /\ worker[w].pc = "run"
  /\ log' = [log EXCEPT ![w] = Append(@, worker[w].req)]
  /\ worker' = [worker EXCEPT ![w] = [pc |-> "check", req |-> NoReq]]
  /\ UNCHANGED <<next_worker, ring, running, owner, returnVars, sent>>

----------------------------------------------------------------------------
(* worker_pool_process_returns and on_return_message, on the H2O thread *)

ProcessReturns ==
  /\ owner.pc = "serving"
  /\ wake' = [w \in Workers |-> TRUE]
  /\ UNCHANGED <<next_worker, ring, running, worker, owner, messages, answered, sent, log>>

OnReturnMessage(w) ==
  /\ owner.pc = "serving"
  /\ wake[w]
  /\ wake' = [wake EXCEPT ![w] = FALSE]
  /\ answered' = answered \union ToSet(messages[w])
  /\ messages' = [messages EXCEPT ![w] = <<>>]
  /\ UNCHANGED <<next_worker, ring, running, worker, owner, sent, log>>

----------------------------------------------------------------------------
(* worker_pool_destroy, on the H2O thread *)

DestroyStop ==
  /\ owner.pc \in {"serving", "stop"}
  /\ running' = [running EXCEPT ![owner.at] = FALSE]
  /\ owner' = [owner EXCEPT !.pc = "join"]
  /\ UNCHANGED <<next_worker, ring, worker, returnVars, sent, log>>

\* pthread_join returns without waiting.
DestroyDetach ==
  /\ owner.pc = "join"
  /\ owner' = IF owner.at + 1 = NumWorkers THEN [owner EXCEPT !.pc = "freed"]
              ELSE [pc |-> "stop", at |-> owner.at + 1]
  /\ wake' = [wake EXCEPT ![owner.at] = FALSE]
  /\ UNCHANGED <<next_worker, ring, running, worker, messages, answered, sent, log>>

\* pthread_join, then the receiver and the queue of that worker go; after the
\* last worker, free(pool->workers).
DestroyJoin ==
  /\ owner.pc = "join"
  /\ worker[owner.at].pc = "exited"
  /\ owner' = IF owner.at + 1 = NumWorkers THEN [owner EXCEPT !.pc = "freed"]
              ELSE [pc |-> "stop", at |-> owner.at + 1]
  /\ wake' = [wake EXCEPT ![owner.at] = FALSE]
  /\ UNCHANGED <<next_worker, ring, running, worker, messages, answered, sent, log>>

----------------------------------------------------------------------------

WorkerStep(w) == WorkerCheck(w) \/ WorkerPopNull(w) \/ WorkerPopItem(w) \/ WorkerRun(w)

Next ==
  \/ \E req \in Reqs : Dispatch(req)
  \/ \E w \in Workers : WorkerStep(w) \/ OnReturnMessage(w)
  \/ ProcessReturns
  \/ DestroyStop
  \/ DestroyJoin

Spec == Init /\ [][Next]_vars

\* Every worker thread is scheduled; handlers return; a polling worker cannot
\* read a stale head for ever (C11 7.17.3); the event loop delivers wake-ups
\* and, once in worker_pool_destroy, goes on with it.
Fairness ==
  /\ \A w \in Workers :
       /\ WF_vars(WorkerStep(w))
       /\ SF_vars(WorkerPopItem(w))
       /\ WF_vars(OnReturnMessage(w))
  /\ WF_vars(owner.pc = "stop" /\ DestroyStop)
  /\ WF_vars(DestroyJoin)

FairSpec == Spec /\ Fairness

----------------------------------------------------------------------------
(* Properties *)

\* The pool's fields and the threads' program counters stay in their types, and
\* the producer's view of a ring is never more than Capacity pops old: the free
\* slots it may miss are slots of the ring.
TypeOK ==
  /\ next_worker \in 0..CounterRange-1
  /\ \A w \in Workers : /\ ring[w].items \in Seq(Reqs)
                        /\ ring[w].unseen \in 0..Capacity
  /\ running \in [Workers -> BOOLEAN]
  /\ worker \in [Workers -> [pc : {"check", "pop", "run", "exited"}, req : Reqs \union {NoReq}]]
  /\ owner \in [pc : {"serving", "stop", "join", "freed"}, at : Workers]

\* What a worker has run, is running and has in its ring is exactly what
\* worker_pool_dispatch accepted for it, in that order: no item is lost, run
\* twice, reordered or run by another worker.
NothingLostOrReordered ==
  \A w \in Workers :
    sent[w] = log[w] \o (IF worker[w].pc = "run" THEN <<worker[w].req>> ELSE <<>>)
                     \o ring[w].items

\* What spsc_ring_pop last returned to a worker.
Popped(w) ==
  IF worker[w].pc = "run" THEN worker[w].req
  ELSE IF log[w] = <<>> THEN NoReq ELSE Last(log[w])

RingOf(w) == INSTANCE BoundedFifo WITH
               Items <- Reqs, NoItem <- NoReq,
               queue <- ring[w].items, unseen <- ring[w].unseen, got <- Popped(w)

\* The pool uses each ring as the bounded FIFO that spsc_ring.c implements, with
\* the dispatcher as its only producer and one worker as its only consumer:
\* nothing is pushed without room, and a worker runs what it popped, in order.
RingsAreFifos ==
  /\ \A w \in Workers : RingOf(w)!Init
  /\ [][\A w \in Workers : [RingOf(w)!Next]_(RingOf(w)!vars)]_vars

\* worker_pool_destroy frees the workers, their rings and flags only when no
\* worker thread can touch them any more.
FreedAfterExit ==
  owner.pc = "freed" => \A w \in Workers : worker[w].pc = "exited"

\* A dispatch that returned true is run, unless worker_pool_destroy has begun.
EventuallyRun ==
  \A req \in Reqs :
    req \in Accepted ~> \/ \E w \in Workers : req \in ToSet(log[w])
                        \/ owner.pc # "serving"

\* worker_pool_destroy returns.
DestroyReturns == (owner.pc # "serving") ~> (owner.pc = "freed")
=============================================================================
