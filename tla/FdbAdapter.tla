----------------------------- MODULE FdbAdapter -----------------------------
(* src/fdb_database.c as the HTTP handlers use it: a request owns a context *)
(* and a transaction, waits for one future at a time, and is answered once. *)
(* A step of a handler is one callback, from the completion of its future   *)
(* to the submission of the next; the store's answer to a commit is a step  *)
(* of its own, so that requests interleave everywhere in between.           *)
EXTENDS Fdb

CONSTANTS Reqs,
          FaultKinds,   \* what may go wrong in a run:
                        \*   create  calloc or fdb_create_transaction fails
                        \*   submit  submit_future fails
                        \*   read    a read completes with an error
                        \*   unknown a commit completes with commit_unknown_result
                        \*   fatal   a commit completes with an error on_error refuses
                        \*   partial a range read returns only part of the range
                        \*   trap    get_random_number(0) divides by zero and traps
                        \*   oom     an allocation that nobody checks fails
          MaxFaults     \* bound on the number of faults

ASSUME AdapterAssumption == MaxFaults \in Nat

VARIABLES db,
          pc,        \* the callback each request waits for
          ctx,       \* its context struct
          tr,        \* its FDBTransaction
          future,    \* the result of the outstanding commit or on_error future
          answer,    \* the HTTP response
          applied,   \* history: how often the request's writes were committed
          faults,    \* faults so far
          up         \* the server process is running

adapterVars == <<db, pc, ctx, tr, future, answer, applied, faults, up>>
storeVars == <<db, applied, up>>
requestVars == <<db, pc, ctx, tr, future, answer, applied>>

NoCtx == [kind |-> "none"]
NoAnswer == [status |-> "none"]

AdapterInit ==
  /\ pc = [r \in Reqs |-> "idle"]
  /\ ctx = [r \in Reqs |-> NoCtx]
  /\ tr = [r \in Reqs |-> NewTransaction]
  /\ future = [r \in Reqs |-> "pending"]
  /\ answer = [r \in Reqs |-> NoAnswer]
  /\ applied = [r \in Reqs |-> 0]
  /\ faults = 0
  /\ up = TRUE

----------------------------------------------------------------------------
(* Submitting futures and finishing requests *)

Fault(kind) == kind \in FaultKinds /\ faults < MaxFaults /\ faults' = faults + 1

\* submit_future: `callback` will run when the future completes.  Callers
\* ignore a failure: the context is then reachable from nowhere.
Await(r, callback) ==
  \/ pc' = [pc EXCEPT ![r] = callback] /\ UNCHANGED faults
  \/ pc' = [pc EXCEPT ![r] = "lost"] /\ Fault("submit")

\* fdb_transaction_destroy is forgotten.
FinishKeepsTransaction(r, response) ==
  /\ pc' = [pc EXCEPT ![r] = "done"]
  /\ answer' = [answer EXCEPT ![r] = response]
  /\ ctx' = [ctx EXCEPT ![r] = NoCtx]
  /\ future' = [future EXCEPT ![r] = "pending"]
  /\ UNCHANGED tr

\* free(ctx) is forgotten.
FinishKeepsContext(r, response) ==
  /\ pc' = [pc EXCEPT ![r] = "done"]
  /\ answer' = [answer EXCEPT ![r] = response]
  /\ tr' = [tr EXCEPT ![r] = NewTransaction]
  /\ future' = [future EXCEPT ![r] = "pending"]
  /\ UNCHANGED ctx

\* The handler answers, destroys the transaction and frees the context.
Finish(r, response) ==
  /\ pc' = [pc EXCEPT ![r] = "done"]
  /\ answer' = [answer EXCEPT ![r] = response]
  /\ ctx' = [ctx EXCEPT ![r] = NoCtx]
  /\ tr' = [tr EXCEPT ![r] = NewTransaction]
  /\ future' = [future EXCEPT ![r] = "pending"]

\* The entry point of a handler, on the event loop of the connection.
Enter(r) == up /\ pc[r] = "idle" /\ UNCHANGED <<tr, future, storeVars>>

\* The context or the transaction could not be made: the request is answered.
CreateFails(r, kind) ==
  /\ Fault("create")
  /\ answer' = [answer EXCEPT ![r] = [status |-> "error", kind |-> kind]]
  /\ pc' = [pc EXCEPT ![r] = "done"]
  /\ UNCHANGED ctx

\* future_callback: the future `callback` was registered for has completed.
Completed(r, callback, kind) ==
  /\ up
  /\ pc[r] = callback
  /\ ctx[r].kind = kind
  /\ UNCHANGED storeVars

\* What the completed read returns, and the transaction after it.
Present(r, k) == k \in DOMAIN View(tr[r], db)

Row(r, k) == View(tr[r], db)[k]

AfterRead(r, k) == Get(tr[r], k, db)

Failed(r) == [status |-> "error", kind |-> ctx[r].kind]

----------------------------------------------------------------------------
(* The store answers a commit *)

\* The callbacks that wait for a commit.
CommitCallbacks == {"on_commit", "empty_on_commit", "update_on_commit"}

\* A commit whose future was lost is still in flight.
Committing(r) ==
  /\ future[r] = "pending"
  /\ \/ pc[r] \in CommitCallbacks
     \/ pc[r] = "lost" /\ DOMAIN tr[r].writes # {}

Apply(r) ==
  /\ db' = Overlay(tr[r].writes, db)
  /\ tr' = [q \in Reqs |-> IF q = r THEN tr[q] ELSE Miss(tr[q], DOMAIN tr[r].writes)]
  /\ applied' = [applied EXCEPT ![r] = @ + 1]

\* A transaction without writes commits without asking the cluster.
Commit(r) ==
  /\ Committing(r)
  /\ \/ /\ ~Conflicts(tr[r])
        /\ Apply(r)
        /\ future' = [future EXCEPT ![r] = "ok"]
        /\ UNCHANGED faults
     \/ /\ Conflicts(tr[r])
        /\ future' = [future EXCEPT ![r] = "retryable"]
        /\ UNCHANGED <<db, tr, applied, faults>>
     \/ /\ DOMAIN tr[r].writes # {}
        /\ Fault("unknown")
        /\ future' = [future EXCEPT ![r] = "retryable"]
        /\ \/ ~Conflicts(tr[r]) /\ Apply(r)
           \/ UNCHANGED <<db, tr, applied>>
     \/ /\ DOMAIN tr[r].writes # {}
        /\ Fault("fatal")
        /\ future' = [future EXCEPT ![r] = "fatal"]
        /\ UNCHANGED <<db, tr, applied>>
  /\ UNCHANGED <<pc, ctx, answer, up>>

----------------------------------------------------------------------------
(* Properties *)

Ok(r) == answer[r].status = "ok"

\* A context is alive from the entry point of the handler to its answer
\* (rfd/0011 "the context outlives all callbacks"), and a request that is
\* answered has no transaction left.
ContextLifetime ==
  \A r \in Reqs :
    /\ (ctx[r] = NoCtx) <=> (pc[r] \in {"idle", "done"})
    /\ (answer[r] # NoAnswer) <=> (pc[r] = "done")
    /\ pc[r] = "done" => tr[r] = NewTransaction
=============================================================================
