------------------------- MODULE TpccHandlersProofs -------------------------
(* For every number of requests, warehouses, districts, customers and       *)
(* orders, and every number and kind of fault: the callback chains of the   *)
(* TPC-C handlers keep their contexts alive exactly as long as needed, say  *)
(* "ok" only for what was committed, retry without applying a request twice *)
(* unless a commit result is unknown, and leave the store serializable; so  *)
(* stock, orders and money are what TpccSerial promises, and every order id *)
(* a client is told of has its order.                                       *)
EXTENDS TpccReadProofs

----------------------------------------------------------------------------
(* Commits, retries and range reads *)

\* on_commit says "ok" of what was applied; any other result goes to on_error.
LEMMA OnCommitInv ==
  ASSUME IInv, NEW r \in Reqs, NEW kind, OnCommit(r, kind)
  PROVE  IInv'
<1>1. /\ UNCHANGED <<db, applied, clock>> /\ pc[r] = "on_commit"
      /\ future[r] # "pending"
  BY DEF OnCommit, OnFuture, Completed, storeVars
<1>2. ReqInv(pc[r], ctx[r], tr[r], future[r], answer[r], applied[r], faults, db)
  BY DEF IInv
<1>3. CASE future[r] = "ok"
  <2>1. Finish(r, Response(r)) /\ Quiet
    BY <1>1, <1>3, NoFaultQuiet DEF OnCommit
  <2>2. applied[r] >= 1
    BY <1>2, <1>3 DEF ReqInv, Life
  <2>3. Response(r).status = "ok"
    BY DEF Response
  <2> QED
    BY <2>1, <2>2, <2>3, FinishInv
<1>4. CASE future[r] # "ok"
  <2>1. Await(r, "on_error_retry") /\ UNCHANGED <<ctx, tr, future, answer>>
    BY <1>4 DEF OnCommit
  <2>2. /\ Only(ctx, ctx', r) /\ Only(tr, tr', r) /\ Only(future, future', r)
        /\ Only(answer, answer', r)
    BY <2>1, OnlySame DEF IInv
  <2>3. "on_error_retry" \in Callbacks /\ "on_error_retry" \notin ReadCallbacks
    BY DEF Callbacks, ReadCallbacks
  <2>4. Life("on_error_retry", ctx[r], tr[r], future[r], answer[r], applied[r], faults)
    BY <1>1, <1>2, <2>3, ZenonT(60) DEF ReqInv, Life
  <2>5. Chain("on_error_retry", ctx[r], tr[r])
    BY <1>2, <2>3, SMTT(60) DEF ReqInv, Chain
  <2>6. ReqInv("on_error_retry", ctx'[r], tr'[r], future'[r], answer'[r], applied[r], faults, db)
    BY <1>1, <2>1, <2>4, <2>5, SMTT(60) DEF ReqInv
  <2> QED
    BY <1>1, <2>1, <2>2, <2>3, <2>6, AwaitInv, SMTT(60)
<1> QED
  BY <1>3, <1>4

\* on_error_retry starts over with an empty transaction, at a callback that
\* takes nothing as read.
LEMMA OnErrorRetryInv ==
  ASSUME IInv, NEW r \in Reqs, NEW kind \in Writers, NEW restart \in Callbacks, NEW c,
         OnErrorRetry(r, kind, restart, c), c.kind = kind, Context(c),
         kind = "NewOrder" => restart = "on_district_read",
         kind = "Payment" => restart = "on_warehouse_read"
  PROVE  IInv'
<1>1. UNCHANGED <<db, applied, clock>> /\ pc[r] = "on_error_retry"
  BY DEF OnErrorRetry, OnFuture, Completed, storeVars
<1>2. ReqInv(pc[r], ctx[r], tr[r], future[r], answer[r], applied[r], faults, db)
  BY DEF IInv
<1>3. CASE future[r] = "fatal"
  <2>1. Finish(r, Failed(r)) /\ Quiet
    BY <1>1, <1>3, NoFaultQuiet, SMTT(60) DEF OnErrorRetry
  <2>2. Failed(r).status = "error"
    BY DEF Failed
  <2> QED
    BY <2>1, <2>2, FinishInv
<1>4. CASE future[r] # "fatal"
  <2>1. /\ future[r] = "retryable"
        /\ tr' = [tr EXCEPT ![r] = NewTransaction]
        /\ future' = [future EXCEPT ![r] = "pending"]
        /\ ctx' = [ctx EXCEPT ![r] = c]
        /\ Await(r, restart)
        /\ UNCHANGED answer
    BY <1>4 DEF OnErrorRetry
  <2>2. /\ Only(ctx, ctx', r) /\ Only(tr, tr', r) /\ Only(future, future', r)
        /\ Only(answer, answer', r)
        /\ ctx'[r] = c /\ tr'[r] = NewTransaction /\ future'[r] = "pending"
    BY <2>1, OnlyExcept, OnlySame, ZenonT(60) DEF IInv
  <2>3. restart \notin {"idle", "done"} /\ c.kind # "none"
    BY SMTT(60) DEF Callbacks, ReadCallbacks, Writers
  <2>4. Life(restart, c, NewTransaction, "pending", answer[r], applied[r], faults)
    BY <1>1, <1>2, <2>1, <2>3, SMTT(60) DEF ReqInv, Life
  <2>5. Chain(restart, c, NewTransaction)
    BY NewFields DEF Chain, Writers
  <2>6. Snapshot(NewTransaction, db)
    BY NewFields, SMTT(60) DEF Snapshot
  <2>7. ReqInv(restart, ctx'[r], tr'[r], future'[r], answer'[r], applied[r], faults, db)
    BY <2>1, <2>2, <2>4, <2>5, <2>6, SMTT(60) DEF ReqInv
  <2> QED
    BY <1>1, <2>1, <2>2, <2>7, AwaitInv, ZenonT(60)
<1> QED
  BY <1>3, <1>4

\* on_error_retry of NewOrder and of Payment.
LEMMA RetryInv ==
  ASSUME IInv, NEW r \in Reqs, NewOrderOnErrorRetry(r) \/ PaymentOnErrorRetry(r)
  PROVE  IInv'
<1>1. Context(ctx[r])
  BY DEF IInv, ReqInv, Chain
<1>2. "on_district_read" \in Callbacks /\ "on_warehouse_read" \in Callbacks
  BY DEF Callbacks, ReadCallbacks
<1>3. "NewOrder" \in Writers /\ "Payment" \in Writers
  BY DEF Writers
<1>4. CASE NewOrderOnErrorRetry(r)
  <2> DEFINE c == [ctx[r] EXCEPT !.s_quantity = <<>>]
  <2>1. ctx[r].kind = "NewOrder"
    BY <1>4 DEF NewOrderOnErrorRetry, OnErrorRetry, OnFuture, Completed
  <2>2. NewOrderCtx(c) /\ c.kind = "NewOrder"
    BY <1>1, <2>1 DEF Context, NewOrderCtx
  <2>3. OnErrorRetry(r, "NewOrder", "on_district_read", c)
    BY <1>4 DEF NewOrderOnErrorRetry
  <2> HIDE DEF c
  <2>4. Context(c)
    BY <2>2 DEF Context, Writers
  <2> QED
    BY <1>2, <1>3, <2>2, <2>3, <2>4, OnErrorRetryInv, SMTT(60)
<1>5. CASE PaymentOnErrorRetry(r)
  <2>1. OnErrorRetry(r, "Payment", "on_warehouse_read", ctx[r])
    BY <1>5 DEF PaymentOnErrorRetry
  <2>2. ctx[r].kind = "Payment"
    BY <2>1 DEF OnErrorRetry, OnFuture, Completed
  <2> QED
    BY <1>1, <1>2, <1>3, <2>1, <2>2, OnErrorRetryInv, SMTT(60)
<1> QED
  BY <1>4, <1>5, SMTT(60)

\* OrderStatus and Delivery answer "ok" whatever became of their empty commit.
LEMMA EmptyOnCommitInv ==
  ASSUME IInv, NEW r \in Reqs, NEW kind \in {"OrderStatus", "Delivery"}, EmptyOnCommit(r, kind)
  PROVE  IInv'
<1>1. UNCHANGED <<db, applied, clock, faults>> /\ ctx[r].kind = kind /\ Finish(r, Response(r))
  BY DEF EmptyOnCommit, OnFuture, Completed, storeVars
<1>2. Response(r).status = "ok" /\ Response(r).kind \notin Writers
  BY <1>1 DEF Response, Writers
<1> QED
  BY <1>1, <1>2, NoFaultQuiet, FinishInv, Zenon

\* The range read of StockLevel ends its request.
LEMMA SlOnRangeReadInv ==
  ASSUME IInv, NEW r \in Reqs, SlOnRangeRead(r)
  PROVE  IInv'
<1> DEFINE all == {k \in DOMAIN db : k.table = "s" /\ k.id[1] = 1}
           upTo(last) == {k \in all : k.id[2] < last.id[2]}
           whole == UNION {upTo(last) : last \in all}
           reply(rows) == [status |-> "ok", kind |-> "StockLevel",
                           below |-> Below(rows, db, ctx[r].threshold)]
<1>1. UNCHANGED <<db, applied, clock>> /\ pc[r] \in ReadCallbacks
  BY DEF SlOnRangeRead, OnFuture, Completed, storeVars, ReadCallbacks
<1>2. ASSUME NEW rows PROVE reply(rows).status = "ok" /\ reply(rows).kind \notin Writers
  BY DEF Writers
<1>3. CASE Finish(r, reply(whole)) /\ UNCHANGED faults
  <2> DEFINE response == reply(whole)
  <2>1. response.status = "ok" /\ response.kind \notin Writers /\ Finish(r, response)
    BY <1>2, <1>3
  <2> HIDE DEF response
  <2> QED
    BY <1>1, <1>3, <2>1, NoFaultQuiet, FinishInv, ZenonT(60)
<1>4. ASSUME Fault("partial"), NEW last \in all, Finish(r, reply(upTo(last)))
      PROVE  IInv'
  <2> DEFINE response == reply(upTo(last))
  <2>1. response.status = "ok" /\ response.kind \notin Writers /\ Finish(r, response)
    BY <1>2, <1>4
  <2> HIDE DEF response
  <2> QED
    BY <1>1, <1>4, <2>1, FaultQuiet, FinishInv, ZenonT(60)
<1>5. CASE ReadFails(r)
  BY <1>1, <1>5, ReadFailsInv, Zenon
<1> QED
  BY <1>3, <1>4, <1>5, ZenonT(60) DEF SlOnRangeRead

\* A process that traps changes no request.
LEMMA TrapInv ==
  ASSUME IInv, NEW r \in Reqs, Trap(r)
  PROVE  IInv'
<1>1. UNCHANGED <<db, applied, clock, pc, ctx, tr, future, answer>> /\ Quiet
  BY FaultQuiet, Zenon DEF Trap, requestVars
<1>2. faults \in Nat /\ faults' \in Nat /\ faults <= faults'
  BY <1>1, AdapterAssumption, SMTT(60) DEF IInv, Quiet
<1>3. OnlyRequest(r)
  BY <1>1, OnlySame, Zenon DEF OnlyRequest, IInv
<1>4. ReqInv(pc[r], ctx[r], tr[r], future[r], answer[r], applied[r], faults, db)
  BY Zenon DEF IInv
<1>5. ReqInv(pc[r], ctx[r], tr[r], future[r], answer[r], applied[r], faults', db)
  BY <1>2, <1>4, ReqInvMoreFaults, Zenon
<1> QED
  BY <1>1, <1>3, <1>5, OneRequest, Zenon

----------------------------------------------------------------------------
(* The store answers a commit *)

\* A store after writes is a function on its keys.
LEMMA OverlayFunction ==
  ASSUME NEW writes, NEW store, NEW after, after = Overlay(writes, store)
  PROVE  after = [k \in DOMAIN after |-> after[k]]
BY DEF Overlay

\* What a chain knows does not depend on what its transaction has missed.
LEMMA ChainMiss ==
  ASSUME NEW p, NEW c, NEW t, NEW keys, Chain(p, c, t)
  PROVE  Chain(p, c, Miss(t, keys))
<1> DEFINE m == Miss(t, keys)
<1>1. Transaction(t)
  BY DEF Chain
<1>2. /\ Transaction(m) /\ m.open = t.open /\ m.snap = t.snap /\ m.reads = t.reads
      /\ m.writes = t.writes
  BY <1>1, MissFields
<1> HIDE DEF m
<1>3. \A k : HasRead(t, k) <=> HasRead(m, k)
  BY <1>2 DEF HasRead
<1>4. DistrictRead(c, t) => DistrictRead(c, m)
  BY <1>2, <1>3 DEF DistrictRead
<1>5. CustomerRead(c, t) => CustomerRead(c, m)
  BY <1>3 DEF CustomerRead
<1>6. ASSUME NEW n, StockRead(c, t, n) PROVE StockRead(c, m, n)
  <2>1. \A i \in 1..n : Quantity(c, t, i) = Quantity(c, m, i)
    BY <1>2 DEF Quantity
  <2> QED
    BY <1>3, <1>6, <2>1, Zenon DEF StockRead
<1>7. WarehousePaid(c, t) => WarehousePaid(c, m)
  BY <1>2, <1>3, Zenon DEF WarehousePaid
<1>8. DistrictPaid(c, t) => DistrictPaid(c, m)
  BY <1>2, <1>3, Zenon DEF DistrictPaid
<1>9. NewOrderWritten(c, t) => NewOrderWritten(c, m)
  BY <1>2, <1>4, <1>5, <1>6, Zenon DEF NewOrderWritten
<1>10. PaymentWritten(c, t) => PaymentWritten(c, m)
  BY <1>2, <1>3, <1>7, <1>8, Zenon DEF PaymentWritten
<1>11. Chain(p, c, m)
  BY <1>2, <1>4, <1>5, <1>6, <1>7, <1>8, <1>9, <1>10, ZenonT(60) DEF Chain
<1> QED
  BY <1>11, Zenon DEF m

\* A request whose commit is in flight is neither reading nor answered, and has
\* been applied at most as often as there were faults.
LEMMA CommittingState ==
  ASSUME IInv, NEW r \in Reqs, Committing(r)
  PROVE  /\ pc[r] \in {"on_commit", "empty_on_commit", "lost"}
         /\ future[r] = "pending"
         /\ applied[r] \in Nat /\ applied[r] <= faults
<1>1. Life(pc[r], ctx[r], tr[r], future[r], answer[r], applied[r], faults)
  BY DEF IInv, ReqInv
<1>2. future[r] = "pending" /\ pc[r] \in CommitCallbacks \union {"lost"}
  BY Zenon DEF Committing
<1>3. pc[r] \in {"on_commit", "empty_on_commit", "lost"}
  BY <1>1, <1>2, ZenonT(60) DEF Life, CommitCallbacks, Callbacks, ReadCallbacks
<1> QED
  BY <1>1, <1>2, <1>3, Zenon DEF Life

\* The result of a commit for the request that asked for it.
LEMMA Answered ==
  ASSUME IInv, NEW r \in Reqs, Committing(r), NEW f \in {"ok", "retryable", "fatal"},
         NEW n \in Nat, NEW fl \in Nat, n <= fl + 1, f = "ok" => n >= 1, f # "ok" => n <= fl,
         NEW store
  PROVE  ReqInv(pc[r], ctx[r], tr[r], f, answer[r], n, fl, store)
<1>1. ReqInv(pc[r], ctx[r], tr[r], future[r], answer[r], applied[r], faults, db)
  BY DEF IInv
<1>2. pc[r] \in {"on_commit", "empty_on_commit", "lost"}
  BY CommittingState, ZenonT(60)
<1>3. Life(pc[r], ctx[r], tr[r], f, answer[r], n, fl)
  BY <1>1, <1>2, SMTT(60) DEF ReqInv, Life, ReadCallbacks
<1> QED
  BY <1>1, <1>3, SMTT(60) DEF ReqInv

\* A commit that is applied.
LEMMA ApplyInv ==
  ASSUME IInv, NEW r \in Reqs, Committing(r), Apply(r), NEW f \in {"ok", "retryable"},
         future' = [future EXCEPT ![r] = f], UNCHANGED <<pc, ctx, answer, clock>>,
         faults' \in 0..MaxFaults, faults' >= faults, f = "retryable" => faults' = faults + 1
  PROVE  IInv'
<1>1. faults \in Nat /\ faults' \in Nat
  BY AdapterAssumption DEF IInv
<1>2. applied[r] \in Nat /\ applied[r] <= faults
  BY CommittingState, SMTT(60)
<1>3. applied' \in [Reqs -> Nat] /\ applied'[r] = applied[r] + 1
        /\ \A q \in Reqs \ {r} : applied'[q] = applied[q]
  BY <1>2 DEF Apply, IInv
<1>4. Only(future, future', r) /\ future'[r] = f
  BY OnlyExcept, Zenon DEF IInv
<1>5. DOMAIN tr' = Reqs /\ tr'[r] = tr[r]
        /\ \A q \in Reqs \ {r} : tr'[q] = Miss(tr[q], DOMAIN tr[r].writes)
  BY DEF Apply
<1>6. db' = Overlay(tr[r].writes, db)
  BY DEF Apply
<1>7. db' = [k \in DOMAIN db' |-> db'[k]]
  BY <1>6, OverlayFunction
<1>8. ReqInv(pc[r], ctx[r], tr[r], f, answer[r], applied[r] + 1, faults', db')
  <2>1. /\ applied[r] + 1 \in Nat /\ applied[r] + 1 <= faults' + 1 /\ applied[r] + 1 >= 1
        /\ f # "ok" => applied[r] + 1 <= faults'
    BY <1>1, <1>2, SMTT(60)
  <2>2. f \in {"ok", "retryable", "fatal"}
    BY Zenon
  <2> QED
    BY <1>1, <2>1, <2>2, Answered, ZenonT(60)
<1>9. ASSUME NEW q \in Reqs, q # r
      PROVE  ReqInv(pc[q], ctx[q], tr'[q], future[q], answer[q], applied[q], faults', db')
  <2> DEFINE m == Miss(tr[q], DOMAIN tr[r].writes)
  <2>1. ReqInv(pc[q], ctx[q], tr[q], future[q], answer[q], applied[q], faults, db)
    BY Zenon DEF IInv
  <2>2. Life(pc[q], ctx[q], tr[q], future[q], answer[q], applied[q], faults')
    BY <1>1, <2>1, LifeMoreFaults, Zenon DEF ReqInv
  <2>3. tr[q] = NewTransaction => m = NewTransaction
    BY MissNew, Zenon
  <2>4. Chain(pc[q], ctx[q], m)
    BY <2>1, ChainMiss, Zenon DEF ReqInv
  <2>5. future[q] = "pending" => Snapshot(m, db')
    BY <1>6, <2>1, MissKeepsSnapshot, ZenonT(60) DEF ReqInv, Chain
  <2>6. tr'[q] = m
    BY <1>5, <1>9, Zenon
  <2> HIDE DEF m
  <2>7. Life(pc[q], ctx[q], m, future[q], answer[q], applied[q], faults')
    BY <2>2, <2>3, Zenon DEF Life
  <2> QED
    BY <2>4, <2>5, <2>6, <2>7, ZenonT(60) DEF ReqInv
<1>10. ASSUME NEW q \in Reqs
       PROVE  ReqInv(pc[q], ctx[q], tr'[q], future'[q], answer[q], applied'[q], faults', db')
  <2>1. CASE q = r
    BY <1>3, <1>4, <1>5, <1>8, <2>1, ZenonT(60)
  <2>2. CASE q # r
    <3>1. future'[q] = future[q] /\ applied'[q] = applied[q]
      BY <1>3, <1>4, <2>2, Zenon DEF Only
    <3> QED
      BY <1>9, <2>2, <3>1, ZenonT(60)
  <2> QED
    BY <2>1, <2>2, ZenonT(60)
<1>11. DOMAIN future' = Reqs
  BY <1>4, Zenon DEF Only
<1> QED
  BY <1>3, <1>5, <1>7, <1>10, <1>11, SMTT(60) DEF IInv

\* A commit that is not applied.
LEMMA RefuseInv ==
  ASSUME IInv, NEW r \in Reqs, Committing(r), NEW f \in {"retryable", "fatal"},
         future' = [future EXCEPT ![r] = f], UNCHANGED <<db, pc, ctx, tr, answer, applied, clock>>,
         Quiet
  PROVE  IInv'
<1>1. faults \in Nat /\ faults' \in Nat /\ faults' >= faults
  BY AdapterAssumption, SMTT(60) DEF IInv, Quiet
<1>2. applied[r] \in Nat /\ applied[r] <= faults
  BY CommittingState, Zenon
<1>3. Only(future, future', r) /\ future'[r] = f
  BY OnlyExcept, Zenon DEF IInv
<1>4. OnlyRequest(r)
  BY <1>3, OnlySame DEF OnlyRequest, IInv
<1>5. ReqInv(pc[r], ctx[r], tr[r], f, answer[r], applied[r], faults', db)
  <2>1. applied[r] <= faults' + 1 /\ applied[r] <= faults'
    BY <1>1, <1>2, SMTT(60)
  <2>2. f \in {"ok", "retryable", "fatal"} /\ f # "ok"
    BY Zenon
  <2> QED
    BY <1>1, <1>2, <2>1, <2>2, Answered, ZenonT(60)
<1> QED
  BY <1>3, <1>4, <1>5, OneRequest, SMTT(60)

\* Every answer the store may give to a commit.
LEMMA CommitInv ==
  ASSUME IInv, NEW r \in Reqs, CommitAnswered(r)
  PROVE  IInv'
<1>1. Commit(r) /\ Committing(r) /\ UNCHANGED <<pc, ctx, answer, clock>>
  BY Zenon DEF CommitAnswered, Commit
<1>2. faults \in 0..MaxFaults /\ MaxFaults \in Nat
  BY AdapterAssumption DEF IInv
<1>3. CASE Apply(r) /\ future' = [future EXCEPT ![r] = "ok"] /\ UNCHANGED faults
  <2>1. faults' \in 0..MaxFaults /\ faults' >= faults
    BY <1>2, <1>3, SMTT(60)
  <2>2. "ok" \in {"ok", "retryable"} /\ "ok" # "retryable"
    OBVIOUS
  <2> QED
    BY <1>1, <1>3, <2>1, <2>2, ApplyInv, ZenonT(60)
<1>4. CASE future' = [future EXCEPT ![r] = "retryable"] /\ UNCHANGED <<db, tr, applied, faults>>
  BY <1>1, <1>4, NoFaultQuiet, RefuseInv, Zenon
<1>5. CASE Fault("unknown") /\ future' = [future EXCEPT ![r] = "retryable"] /\ Apply(r)
  <2>1. faults' = faults + 1 /\ faults' \in 0..MaxFaults /\ faults' >= faults
    BY <1>2, <1>5, SMTT(60) DEF Fault
  <2> QED
    BY <1>1, <1>5, <2>1, ApplyInv, Zenon
<1>6. CASE /\ Fault("unknown") /\ future' = [future EXCEPT ![r] = "retryable"]
           /\ UNCHANGED <<db, tr, applied>>
  BY <1>1, <1>6, FaultQuiet, RefuseInv, Zenon
<1>7. CASE /\ Fault("fatal") /\ future' = [future EXCEPT ![r] = "fatal"]
           /\ UNCHANGED <<db, tr, applied>>
  BY <1>1, <1>7, FaultQuiet, RefuseInv, Zenon
<1> QED
  BY <1>1, <1>3, <1>4, <1>5, <1>6, <1>7, ZenonT(60) DEF Commit

----------------------------------------------------------------------------
(* The invariant *)

\* Initially no request has begun.
LEMMA InitInv == Init => IInv
<1> SUFFICES ASSUME Init PROVE IInv
  OBVIOUS
<1>1. AdapterInit /\ clock \in Times
  BY DEF Init
<1>2. db = [k \in DOMAIN db |-> db[k]]
  BY OverlayFunction DEF Init
<1>3. Context(NoCtx)
  BY Zenon DEF Context, NoCtx, Writers
<1>4. Chain("idle", NoCtx, NewTransaction)
  BY <1>3, NewFields, Zenon DEF Chain, ReadCallbacks, NoCtx
<1>5. Snapshot(NewTransaction, db)
  BY NewFields DEF Snapshot
<1>6. Life("idle", NoCtx, NewTransaction, "pending", NoAnswer, 0, 0)
  BY DEF Life, ReadCallbacks
<1>7. ReqInv("idle", NoCtx, NewTransaction, "pending", NoAnswer, 0, 0, db)
  BY <1>4, <1>5, <1>6, Zenon DEF ReqInv
<1>8. \A r \in Reqs :
        /\ pc[r] = "idle" /\ ctx[r] = NoCtx /\ tr[r] = NewTransaction
        /\ future[r] = "pending" /\ answer[r] = NoAnswer /\ applied[r] = 0
  BY <1>1, Zenon DEF AdapterInit
<1>9. faults = 0 /\ faults \in 0..MaxFaults
  BY <1>1, AdapterAssumption, SMTT(60) DEF AdapterInit
<1>10. \A r \in Reqs :
         ReqInv(pc[r], ctx[r], tr[r], future[r], answer[r], applied[r], faults, db)
  BY <1>7, <1>8, <1>9, Zenon
<1>11. /\ DOMAIN pc = Reqs /\ DOMAIN ctx = Reqs /\ DOMAIN tr = Reqs
       /\ DOMAIN future = Reqs /\ DOMAIN answer = Reqs
       /\ applied \in [Reqs -> Nat]
  BY <1>1, Zenon DEF AdapterInit
<1> QED
  BY <1>1, <1>2, <1>9, <1>10, <1>11, ZenonT(60) DEF IInv

\* Every step keeps the invariant.
LEMMA NextInv == IInv /\ [Next]_vars => IInv'
<1> SUFFICES ASSUME IInv, [Next]_vars PROVE IInv'
  OBVIOUS
<1>1. CASE Tick
  BY <1>1, Zenon DEF Tick, adapterVars, IInv
<1>2. ASSUME NEW r \in Reqs, Arrive(r) PROVE IInv'
  BY <1>2, ExecuteInv, TrapInv, Zenon DEF Arrive
<1>3. ASSUME NEW r \in Reqs, Callback(r) PROVE IInv'
  <2>1. CASE NewOrderOnDistrictRead(r) \/ NewOrderOnCustomerRead(r) \/ NewOrderOnStockRead(r)
    BY <2>1, NewOrderOnDistrictReadInv, NewOrderOnCustomerReadInv, NewOrderOnStockReadInv, Zenon
  <2>2. CASE PaymentOnWarehouseRead(r) \/ PaymentOnDistrictRead(r) \/ PaymentOnCustomerRead(r)
    BY <2>2, PaymentOnWarehouseReadInv, PaymentOnDistrictReadInv, PaymentOnCustomerReadInv, ZenonT(60)
  <2>3. CASE NewOrderOnCommit(r) \/ PaymentOnCommit(r)
    BY <2>3, OnCommitInv, Zenon DEF NewOrderOnCommit, PaymentOnCommit
  <2>4. CASE NewOrderOnErrorRetry(r) \/ PaymentOnErrorRetry(r)
    BY <2>4, RetryInv, Zenon
  <2>5. CASE OsOnCommit(r) \/ DlOnCommit(r)
    BY <2>5, EmptyOnCommitInv, Zenon DEF OsOnCommit, DlOnCommit
  <2>6. CASE SlOnRangeRead(r)
    BY <2>6, SlOnRangeReadInv, Zenon
  <2> QED
    BY <1>3, <2>1, <2>2, <2>3, <2>4, <2>5, <2>6, ZenonT(60) DEF Callback
<1>4. ASSUME NEW r \in Reqs, CommitAnswered(r) PROVE IInv'
  BY <1>4, CommitInv, Zenon
<1>5. CASE UNCHANGED vars
  BY <1>5 DEF vars, adapterVars, IInv
<1> QED
  BY <1>1, <1>2, <1>3, <1>4, <1>5, Zenon DEF Next

\* The invariant of every request: where it is, what it has read, and how its
\* snapshot differs from the store.
THEOREM Invariant == Spec => []IInv
<1> QED
  BY InitInv, NextInv, PTL DEF Spec

\* The invariant contains the properties the handlers promise.
LEMMA InvImplies == IInv => TypeOK /\ ContextLifetime /\ OkIsCommitted
<1> SUFFICES ASSUME IInv PROVE TypeOK /\ ContextLifetime /\ OkIsCommitted
  BY Zenon
<1>1. ASSUME NEW r \in Reqs
      PROVE  /\ Life(pc[r], ctx[r], tr[r], future[r], answer[r], applied[r], faults)
             /\ Chain(pc[r], ctx[r], tr[r])
  BY Zenon DEF IInv, ReqInv
<1>2. TypeOK
  <2>1. ASSUME NEW r \in Reqs
        PROVE  /\ pc[r] \in {"idle", "done", "lost", "on_warehouse_read", "on_district_read",
                             "on_customer_read", "on_stock_read", "on_commit",
                             "on_error_retry", "empty_on_commit", "sl_on_range_read"}
               /\ future[r] \in {"pending", "ok", "retryable", "fatal"}
    BY <1>1, ZenonT(60) DEF Life, Callbacks, ReadCallbacks
  <2>2. ASSUME NEW r \in Reqs PROVE answer[r].status \in {"none", "ok", "error"}
    BY <1>1, SMTT(60) DEF Life, NoAnswer
  <2>3. ASSUME NEW r \in Reqs, DOMAIN tr[r].writes # {}
        PROVE  ctx[r].kind \in {"NewOrder", "Payment"}
    <3>1. tr[r].writes # <<>>
      BY <2>3, SMTT(60)
    <3> QED
      BY <1>1, <3>1, Zenon DEF Chain, NewOrderWritten, PaymentWritten
  <2>4. ASSUME NEW r \in Reqs PROVE applied[r] \in 0..MaxFaults+1
    <3>1. applied[r] \in Nat /\ applied[r] <= faults + 1
      BY <1>1, Zenon DEF Life
    <3> QED
      BY <3>1, AdapterAssumption, SMTT(60) DEF IInv
  <2>5. applied \in [Reqs -> 0..MaxFaults+1]
    BY <2>4, Zenon DEF IInv
  <2>6. clock \in Times /\ faults \in 0..MaxFaults
    BY Zenon DEF IInv
  <2> QED
    BY <2>1, <2>2, <2>3, <2>5, <2>6, ZenonT(60) DEF TypeOK
<1>3. ContextLifetime
  <2> SUFFICES ASSUME NEW r \in Reqs
               PROVE  /\ (ctx[r] = NoCtx) <=> (pc[r] \in {"idle", "done"})
                      /\ (answer[r] # NoAnswer) <=> (pc[r] = "done")
                      /\ pc[r] = "done" => tr[r] = NewTransaction
    BY Zenon DEF ContextLifetime
  <2>1. NoCtx.kind = "none" /\ NoAnswer.status = "none"
    BY Zenon DEF NoCtx, NoAnswer
  <2> QED
    BY <1>1, <2>1, Zenon DEF Life
<1>4. OkIsCommitted
  <2> SUFFICES ASSUME NEW r \in Reqs, Ok(r), answer[r].kind \in {"NewOrder", "Payment"}
               PROVE  applied[r] >= 1
    BY Zenon DEF OkIsCommitted
  <2>1. NoAnswer.status = "none" /\ answer[r].status = "ok"
    BY DEF NoAnswer, Ok
  <2> QED
    BY <1>1, <2>1, Zenon DEF Life, Writers
<1> QED
  BY <1>2, <1>3, <1>4, Zenon

\* Type correctness; buffered writes belong to a live NewOrder or Payment, and a
\* request is applied at most once more than there were faults.
THEOREM TypeCorrect == Spec => []TypeOK
<1> QED
  BY Invariant, InvImplies, PTL

\* rfd/0011 "the context outlives all callbacks": on_commit, on_error_retry and
\* the read callbacks free a context exactly when they answer.
THEOREM ContextsOutliveCallbacks == Spec => []ContextLifetime
<1> QED
  BY Invariant, InvImplies, PTL

\* on_commit answers "ok" only for a NewOrder or Payment that is in the store.
THEOREM OkMeansCommitted == Spec => []OkIsCommitted
<1> QED
  BY Invariant, InvImplies, PTL

----------------------------------------------------------------------------
(* A retry is transparent unless a commit's result may be unknown *)

\* What n, how often a request was applied, is at callback p with future f and
\* answer a.
AppliedOnce(p, f, a, n) ==
  /\ p # "done" => n = IF f = "ok" THEN 1 ELSE 0
  /\ p = "done" /\ a.kind \in Writers => n = IF a.status = "ok" THEN 1 ELSE 0

Once == \A r \in Reqs : AppliedOnce(pc[r], future[r], answer[r], applied[r])

\* Request r goes on, with a future that is no more and no less "ok" than
\* before, or is answered with what became of it.
Moves(r) ==
  /\ UNCHANGED applied
  /\ Only(pc, pc', r) /\ Only(future, future', r) /\ Only(answer, answer', r)
  /\ \/ /\ pc[r] # "done" /\ pc'[r] # "done"
        /\ future'[r] = "ok" <=> future[r] = "ok"
     \/ /\ pc'[r] = "done"
        /\ answer'[r].kind \in Writers =>
             applied[r] = IF answer'[r].status = "ok" THEN 1 ELSE 0

\* Such a step keeps the count of every request.
LEMMA MovesOnce ==
  ASSUME Once, NEW r \in Reqs, Moves(r)
  PROVE  Once'
<1> SUFFICES ASSUME NEW q \in Reqs
             PROVE  AppliedOnce(pc'[q], future'[q], answer'[q], applied'[q])
  BY Zenon DEF Once
<1>1. AppliedOnce(pc[q], future[q], answer[q], applied[q]) /\ applied' = applied
  BY Zenon DEF Once, Moves
<1>2. CASE q = r
  BY <1>1, <1>2, Zenon DEF Moves, AppliedOnce
<1>3. CASE q # r
  BY <1>1, <1>3, Zenon DEF Moves, Only, AppliedOnce
<1> QED
  BY <1>2, <1>3, Zenon

\* submit_future, with the future left as it is.
LEMMA AwaitMoves ==
  ASSUME IInv, NEW r \in Reqs, pc[r] # "done", NEW callback \in Callbacks, Await(r, callback),
         UNCHANGED <<applied, answer>>, Only(future, future', r),
         future'[r] = "ok" <=> future[r] = "ok"
  PROVE  Moves(r)
<1>1. PICK p \in Callbacks \union {"lost"} : pc' = [pc EXCEPT ![r] = p]
  BY DEF Await
<1>2. p # "done"
  BY DEF Callbacks, ReadCallbacks
<1>3. Only(pc, pc', r) /\ pc'[r] = p
  BY <1>1, OnlyExcept, Zenon DEF IInv
<1>4. Only(answer, answer', r)
  BY OnlySame, ZenonT(60) DEF IInv
<1> QED
  BY <1>2, <1>3, <1>4, ZenonT(60) DEF Moves

\* The end of a chain that says what became of the request.
LEMMA FinishMoves ==
  ASSUME IInv, NEW r \in Reqs, NEW response, Finish(r, response), UNCHANGED applied,
         response.kind \in Writers => applied[r] = IF response.status = "ok" THEN 1 ELSE 0
  PROVE  Moves(r)
<1>1. /\ Only(pc, pc', r) /\ pc'[r] = "done"
      /\ Only(future, future', r)
      /\ Only(answer, answer', r) /\ answer'[r] = response
  BY OnlyExcept, Zenon DEF Finish, IInv
<1> QED
  BY <1>1 DEF Moves

\* A request whose future is not "ok" has not been applied, and may say so.
LEMMA FailedMoves ==
  ASSUME IInv, Once, NEW r \in Reqs, pc[r] # "done", future[r] # "ok", Finish(r, Failed(r)),
         UNCHANGED applied
  PROVE  Moves(r)
<1> DEFINE response == Failed(r)
<1>1. response.status = "error"
  BY Zenon DEF Failed
<1>2. applied[r] = 0
  BY Zenon DEF Once, AppliedOnce
<1>3. Finish(r, response)
  BY Zenon
<1> HIDE DEF response
<1> QED
  BY <1>1, <1>2, <1>3, FinishMoves, ZenonT(60)

\* While it reads, a request waits for no commit.
LEMMA ReadingState ==
  ASSUME IInv, NEW r \in Reqs, pc[r] \in ReadCallbacks
  PROVE  pc[r] # "done" /\ future[r] = "pending"
BY Zenon DEF IInv, ReqInv, Life, ReadCallbacks

\* A read that fails or finds no row.
LEMMA ReadFailsMoves ==
  ASSUME IInv, Once, NEW r \in Reqs, pc[r] \in ReadCallbacks, ReadFails(r), UNCHANGED applied
  PROVE  Moves(r)
<1>1. pc[r] # "done" /\ future[r] # "ok"
  BY ReadingState, ZenonT(60)
<1>2. CASE ctx[r].kind = "StockLevel"
  BY <1>1, <1>2, FailedMoves, ZenonT(60) DEF ReadFails
<1>3. CASE ctx[r].kind # "StockLevel"
  <2>1. PICK err \in {"retryable", "fatal"} : future' = [future EXCEPT ![r] = err]
    BY <1>3, Zenon DEF ReadFails
  <2>2. PICK p \in {"on_error_retry", "lost"} : pc' = [pc EXCEPT ![r] = p]
    BY <1>3, Zenon DEF ReadFails
  <2>3. Only(future, future', r) /\ future'[r] = err /\ Only(pc, pc', r) /\ pc'[r] = p
    BY <2>1, <2>2, OnlyExcept, ZenonT(60) DEF IInv
  <2>4. Only(answer, answer', r)
    BY <1>3, OnlySame, SMTT(60) DEF ReadFails, IInv
  <2>5. err # "ok" /\ p # "done"
    BY Zenon
  <2> QED
    BY <1>1, <2>3, <2>4, <2>5, ZenonT(60) DEF Moves
<1> QED
  BY <1>2, <1>3, SMTT(60)

\* A row that is missing or cannot be read ends the chain without a commit.
LEMMA NoRowMoves ==
  ASSUME IInv, Once, NEW r \in Reqs, pc[r] \in ReadCallbacks, NEW k, NoRow(r, k),
         UNCHANGED applied
  PROVE  Moves(r)
<1>1. pc[r] # "done" /\ future[r] # "ok"
  BY ReadingState, Zenon
<1>2. CASE Finish(r, Failed(r))
  BY <1>1, <1>2, FailedMoves, Zenon
<1>3. CASE ReadFails(r)
  BY <1>3, ReadFailsMoves, Zenon
<1> QED
  BY <1>2, <1>3, Zenon DEF NoRow

\* A read that found its row.
LEMMA ReadMoves ==
  ASSUME IInv, NEW r \in Reqs, pc[r] \in ReadCallbacks, NEW callback \in Callbacks,
         Await(r, callback), UNCHANGED <<applied, answer, future>>
  PROVE  Moves(r)
<1>1. pc[r] # "done"
  BY ReadingState, Zenon
<1>2. Only(future, future', r)
  BY OnlySame, ZenonT(60) DEF IInv
<1> QED
  BY <1>1, <1>2, AwaitMoves, Zenon

\* The read callbacks of NewOrder and Payment.
LEMMA ReadCallbackMoves ==
  ASSUME IInv, Once, NEW r \in Reqs,
         \/ NewOrderOnDistrictRead(r) \/ NewOrderOnCustomerRead(r) \/ NewOrderOnStockRead(r)
         \/ PaymentOnWarehouseRead(r) \/ PaymentOnDistrictRead(r) \/ PaymentOnCustomerRead(r)
  PROVE  Moves(r)
<1>1. pc[r] \in ReadCallbacks /\ UNCHANGED applied
  BY Zenon DEF NewOrderOnDistrictRead, NewOrderOnCustomerRead, NewOrderOnStockRead,
         PaymentOnWarehouseRead, PaymentOnDistrictRead, PaymentOnCustomerRead,
         OnFuture, Completed, storeVars, ReadCallbacks
<1>2. {"on_warehouse_read", "on_district_read", "on_customer_read", "on_stock_read", "on_commit"}
        \subseteq Callbacks
  BY DEF Callbacks, ReadCallbacks
<1>3. ASSUME NEW k, NoRow(r, k) PROVE Moves(r)
  BY <1>1, <1>3, NoRowMoves, ZenonT(60)
<1>4. ASSUME NEW k, RowPresent(r, k), NEW callback \in Callbacks, Await(r, callback) PROVE Moves(r)
  BY <1>1, <1>4, ReadMoves, Zenon DEF RowPresent
<1>5. ASSUME NEW k, RowPresent(r, k), NEW c, NEW t, StartStockReads(r, c, t) PROVE Moves(r)
  BY <1>2, <1>4, <1>5, ZenonT(60) DEF StartStockReads
<1>6. CASE NewOrderOnDistrictRead(r)
  BY <1>2, <1>3, <1>4, <1>6, ZenonT(60) DEF NewOrderOnDistrictRead
<1>7. CASE NewOrderOnCustomerRead(r)
  BY <1>3, <1>5, <1>7, Zenon DEF NewOrderOnCustomerRead
<1>8. CASE NewOrderOnStockRead(r)
  BY <1>3, <1>5, <1>8, Zenon DEF NewOrderOnStockRead
<1>9. CASE PaymentOnWarehouseRead(r)
  BY <1>2, <1>3, <1>4, <1>9, ZenonT(60) DEF PaymentOnWarehouseRead
<1>10. CASE PaymentOnDistrictRead(r)
  BY <1>2, <1>3, <1>4, <1>10, ZenonT(60) DEF PaymentOnDistrictRead
<1>11. CASE PaymentOnCustomerRead(r)
  BY <1>2, <1>3, <1>4, <1>11, ZenonT(60) DEF PaymentOnCustomerRead
<1> QED
  BY <1>6, <1>7, <1>8, <1>9, <1>10, <1>11, SMTT(60)

\* on_commit: "ok" is said of what was applied; the rest goes to on_error.
LEMMA OnCommitMoves ==
  ASSUME IInv, Once, NEW r \in Reqs, NEW kind, OnCommit(r, kind)
  PROVE  Moves(r)
<1>1. UNCHANGED applied /\ pc[r] = "on_commit"
  BY Zenon DEF OnCommit, OnFuture, Completed, storeVars
<1>2. CASE future[r] = "ok"
  <2> DEFINE response == Response(r)
  <2>1. response.status = "ok" /\ Finish(r, response)
    BY <1>2, Zenon DEF OnCommit, Response
  <2>2. applied[r] = 1
    BY <1>1, <1>2, Zenon DEF Once, AppliedOnce
  <2> HIDE DEF response
  <2> QED
    BY <1>1, <2>1, <2>2, FinishMoves, Zenon
<1>3. CASE future[r] # "ok"
  <2>1. Await(r, "on_error_retry") /\ UNCHANGED <<future, answer>>
    BY <1>3, Zenon DEF OnCommit
  <2>2. "on_error_retry" \in Callbacks
    BY Zenon DEF Callbacks
  <2>3. Only(future, future', r)
    BY <2>1, OnlySame, Zenon DEF IInv
  <2> QED
    BY <1>1, <2>1, <2>2, <2>3, AwaitMoves, ZenonT(60)
<1> QED
  BY <1>2, <1>3, Zenon

\* on_error_retry: nothing has been applied, whether it starts over or gives up.
LEMMA OnErrorRetryMoves ==
  ASSUME IInv, Once, NEW r \in Reqs, NEW kind, NEW restart \in Callbacks, NEW c,
         OnErrorRetry(r, kind, restart, c)
  PROVE  Moves(r)
<1>1. UNCHANGED applied /\ pc[r] = "on_error_retry"
  BY Zenon DEF OnErrorRetry, OnFuture, Completed, storeVars
<1>2. CASE future[r] = "fatal"
  BY <1>1, <1>2, FailedMoves, Zenon DEF OnErrorRetry
<1>3. CASE future[r] # "fatal"
  <2>1. /\ future[r] = "retryable" /\ future' = [future EXCEPT ![r] = "pending"]
        /\ Await(r, restart) /\ UNCHANGED answer
    BY <1>3, Zenon DEF OnErrorRetry
  <2>2. Only(future, future', r) /\ future'[r] = "pending"
    BY <2>1, OnlyExcept, Zenon DEF IInv
  <2> QED
    BY <1>1, <2>1, <2>2, AwaitMoves, Zenon
<1> QED
  BY <1>2, <1>3, Zenon

\* OrderStatus, Delivery and StockLevel are not asked about.
LEMMA ReaderMoves ==
  ASSUME IInv, Once, NEW r \in Reqs, OsOnCommit(r) \/ DlOnCommit(r) \/ SlOnRangeRead(r)
  PROVE  Moves(r)
<1>1. CASE OsOnCommit(r) \/ DlOnCommit(r)
  <2> DEFINE response == Response(r)
  <2>1. UNCHANGED applied /\ Finish(r, response) /\ response.kind \notin Writers
    BY <1>1 DEF OsOnCommit, DlOnCommit, EmptyOnCommit, OnFuture, Completed, storeVars,
                Response, Writers
  <2> HIDE DEF response
  <2> QED
    BY <2>1, FinishMoves, ZenonT(60)
<1>2. CASE SlOnRangeRead(r)
  <2>1. UNCHANGED applied /\ pc[r] \in ReadCallbacks
    BY <1>2, Zenon DEF SlOnRangeRead, OnFuture, Completed, storeVars, ReadCallbacks
  <2>2. CASE ReadFails(r)
    BY <2>1, <2>2, ReadFailsMoves, Zenon
  <2>3. ASSUME NEW rows, NEW response, Finish(r, response),
               response = [status |-> "ok", kind |-> "StockLevel",
                           below |-> Below(rows, db, ctx[r].threshold)]
        PROVE  Moves(r)
    <3>1. response.kind \notin Writers
      BY <2>3, Zenon DEF Writers
    <3> QED
      BY <2>1, <2>3, <3>1, FinishMoves, ZenonT(60)
  <2> QED
    BY <1>2, <2>2, <2>3, Zenon DEF SlOnRangeRead
<1> QED
  BY <1>1, <1>2, Zenon

\* An entry point: the request has not been applied yet.
LEMMA ArriveMoves ==
  ASSUME IInv, Once, NEW r \in Reqs, Arrive(r)
  PROVE  Once'
<1>1. CASE Trap(r)
  BY <1>1, Zenon DEF Trap, requestVars, Once
<1>2. CASE ~Trap(r)
  <2>1. Enter(r)
    BY <1>2, Zenon DEF Arrive, NewOrderExecute, PaymentExecute, OrderStatusExecute, DeliveryExecute,
                EmptyExecute, StockLevelExecute, Execute
  <2>2. pc[r] = "idle" /\ UNCHANGED <<applied, future>>
    BY <2>1, Zenon DEF Enter, storeVars
  <2>3. future[r] = "pending"
    BY <2>2, ZenonT(60) DEF IInv, ReqInv, Life
  <2>4. Only(future, future', r)
    BY <2>2, OnlySame, ZenonT(60) DEF IInv
  <2>5. \/ \E callback \in Callbacks : Await(r, callback) /\ UNCHANGED answer
        \/ \E kind : CreateFails(r, kind)
    <3>1. {"on_district_read", "on_warehouse_read", "empty_on_commit", "sl_on_range_read"}
            \subseteq Callbacks
      BY Zenon DEF Callbacks, ReadCallbacks
    <3> QED
      BY <1>2, <3>1, Zenon DEF Arrive, NewOrderExecute, PaymentExecute, OrderStatusExecute,
                               DeliveryExecute, EmptyExecute, StockLevelExecute
  <2>6. ASSUME NEW callback \in Callbacks, Await(r, callback), UNCHANGED answer
        PROVE  Moves(r)
    BY <2>2, <2>4, <2>6, AwaitMoves, ZenonT(60)
  <2>7. ASSUME NEW kind, CreateFails(r, kind) PROVE Moves(r)
    <3>1. PICK a : a = [status |-> "error", kind |-> kind]
      BY ZenonT(60)
    <3>2. answer' = [answer EXCEPT ![r] = a] /\ pc' = [pc EXCEPT ![r] = "done"]
      BY <2>7, <3>1, SMTT(60) DEF CreateFails
    <3>3. Only(answer, answer', r) /\ answer'[r] = a /\ Only(pc, pc', r) /\ pc'[r] = "done"
      BY <3>2, OnlyExcept, ZenonT(60) DEF IInv
    <3>4. applied[r] = 0 /\ a.status = "error"
      BY <2>2, <2>3, <3>1, ZenonT(60) DEF Once, AppliedOnce
    <3> QED
      BY <2>2, <2>4, <3>3, <3>4, ZenonT(60) DEF Moves
  <2> QED
    BY <2>5, <2>6, <2>7, MovesOnce, ZenonT(60)
<1> QED
  BY <1>1, <1>2, Zenon

\* The store applies what is committed for the first time, and only says "ok"
\* of it.
LEMMA CommitOnce ==
  ASSUME "unknown" \notin FaultKinds, IInv, Once, NEW r \in Reqs, CommitAnswered(r)
  PROVE  Once'
<1>1. Commit(r) /\ UNCHANGED <<pc, answer>>
  BY Zenon DEF CommitAnswered, Commit
<1>2. pc[r] # "done" /\ future[r] = "pending" /\ applied[r] = 0
  <2>1. pc[r] \in {"on_commit", "empty_on_commit", "lost"} /\ future[r] = "pending"
    BY <1>1, CommittingState, Zenon DEF Commit
  <2> QED
    BY <2>1, Zenon DEF Once, AppliedOnce
<1>3. CASE Apply(r) /\ future' = [future EXCEPT ![r] = "ok"]
  <2>1. Only(future, future', r) /\ future'[r] = "ok"
    BY <1>3, OnlyExcept, ZenonT(60) DEF IInv
  <2>2. applied'[r] = 1 /\ \A q \in Reqs \ {r} : applied'[q] = applied[q]
    BY <1>2, <1>3, SMTT(60) DEF Apply, IInv
  <2> SUFFICES ASSUME NEW q \in Reqs
               PROVE  AppliedOnce(pc'[q], future'[q], answer'[q], applied'[q])
    BY Zenon DEF Once
  <2>3. CASE q = r
    BY <1>1, <1>2, <2>1, <2>2, <2>3, ZenonT(60) DEF AppliedOnce
  <2>4. CASE q # r
    BY <1>1, <2>1, <2>2, <2>4, ZenonT(60) DEF Once, Only
  <2> QED
    BY <2>3, <2>4, ZenonT(60)
<1>4. ASSUME NEW f \in {"retryable", "fatal"}, future' = [future EXCEPT ![r] = f],
             UNCHANGED applied
      PROVE  Once'
  <2>1. Only(future, future', r) /\ future'[r] = f
    BY <1>4, OnlyExcept, ZenonT(60) DEF IInv
  <2>2. Only(pc, pc', r) /\ Only(answer, answer', r)
    BY <1>1, OnlySame, ZenonT(60) DEF IInv
  <2>3. f # "ok"
    BY <1>4, Zenon
  <2>4. Moves(r)
    BY <1>1, <1>2, <1>4, <2>1, <2>2, <2>3, ZenonT(60) DEF Moves
  <2> QED
    BY <2>4, MovesOnce, SMTT(60)
<1> QED
  BY <1>1, <1>3, <1>4, ZenonT(60) DEF Commit, Fault

\* Every step keeps the count.
LEMMA OnceStep ==
  ASSUME "unknown" \notin FaultKinds, IInv, Once, [Next]_vars
  PROVE  Once'
<1>1. CASE Tick
  BY <1>1, Zenon DEF Tick, adapterVars, Once
<1>2. ASSUME NEW r \in Reqs, Arrive(r) PROVE Once'
  BY <1>2, ArriveMoves, Zenon
<1>3. ASSUME NEW r \in Reqs, Callback(r) PROVE Once'
  <2>1. CASE \/ NewOrderOnDistrictRead(r) \/ NewOrderOnCustomerRead(r) \/ NewOrderOnStockRead(r)
             \/ PaymentOnWarehouseRead(r) \/ PaymentOnDistrictRead(r) \/ PaymentOnCustomerRead(r)
    BY <2>1, ReadCallbackMoves, MovesOnce, ZenonT(60)
  <2>2. CASE NewOrderOnCommit(r) \/ PaymentOnCommit(r)
    BY <2>2, OnCommitMoves, MovesOnce, ZenonT(60) DEF NewOrderOnCommit, PaymentOnCommit
  <2>3. CASE NewOrderOnErrorRetry(r) \/ PaymentOnErrorRetry(r)
    <3>1. {"on_district_read", "on_warehouse_read"} \subseteq Callbacks
      BY DEF Callbacks, ReadCallbacks
    <3> QED
      BY <2>3, <3>1, OnErrorRetryMoves, MovesOnce, ZenonT(60) DEF NewOrderOnErrorRetry, PaymentOnErrorRetry
  <2>4. CASE OsOnCommit(r) \/ DlOnCommit(r) \/ SlOnRangeRead(r)
    BY <2>4, ReaderMoves, MovesOnce, ZenonT(60)
  <2> QED
    BY <1>3, <2>1, <2>2, <2>3, <2>4, ZenonT(60) DEF Callback
<1>4. ASSUME NEW r \in Reqs, CommitAnswered(r) PROVE Once'
  BY <1>4, CommitOnce, ZenonT(60)
<1>5. CASE UNCHANGED vars
  BY <1>5 DEF vars, adapterVars, Once
<1> QED
  BY <1>1, <1>2, <1>3, <1>4, <1>5, ZenonT(60) DEF Next

\* rfd/0011 "The retry is transparent", for any number of requests, conflicts,
\* retries, failed reads, refused and lost commits: as long as no commit comes
\* back as commit_unknown_result, a NewOrder or Payment answered "ok" was applied
\* exactly once, and one answered with an error not at all.
THEOREM RetryIsTransparent ==
  "unknown" \notin FaultKinds => (Spec => []AppliedExactlyOnce)
<1> SUFFICES ASSUME "unknown" \notin FaultKinds PROVE Spec => []AppliedExactlyOnce
  BY Zenon
<1>1. Init => Once
  BY DEF Init, AdapterInit, Once, AppliedOnce
<1>2. IInv /\ Once /\ [Next]_vars => Once'
  BY OnceStep, Zenon
<1>3. IInv /\ Once => AppliedExactlyOnce
  <2> SUFFICES ASSUME IInv, Once, NEW r \in Reqs, answer[r] # NoAnswer,
                      answer[r].kind \in {"NewOrder", "Payment"}
               PROVE  applied[r] = IF Ok(r) THEN 1 ELSE 0
    BY ZenonT(60) DEF AppliedExactlyOnce
  <2>1. pc[r] = "done"
    BY Zenon DEF IInv, ReqInv, Life
  <2> QED
    BY <2>1, Zenon DEF Once, AppliedOnce, Ok, Writers
<1> QED
  BY <1>1, <1>2, <1>3, Invariant, PTL DEF Spec

----------------------------------------------------------------------------
(* The order answered is in the store *)

\* Of a request and the keys in the store: a NewOrder that waits for its commit
\* has buffered its order; once the commit is "ok", and from then on in the
\* answer, that order is in the store.
Stored(p, c, t, f, a, keys) ==
  /\ p = "on_commit" /\ c.kind = "NewOrder" =>
       /\ DOMAIN t.writes # {}
       /\ f = "ok" => kv_oorder_key(c.w, c.d, c.d_next_o_id) \in keys
  /\ a.status = "ok" /\ a.kind = "NewOrder" => OrderOf(a) \in keys

OrdersStored ==
  \A r \in Reqs : Stored(pc[r], ctx[r], tr[r], future[r], answer[r], DOMAIN db)

\* Request r goes on or ends without the store being asked: it begins to wait
\* for a commit only with its writes in the buffer, and is answered with an
\* order only if that is in the store.
Keeps(r) ==
  /\ UNCHANGED db
  /\ OnlyRequest(r)
  /\ pc'[r] = "on_commit" /\ ctx'[r].kind = "NewOrder" =>
       DOMAIN tr'[r].writes # {} /\ future'[r] # "ok"
  /\ answer'[r].status = "ok" /\ answer'[r].kind = "NewOrder" =>
       OrderOf(answer'[r]) \in DOMAIN db

\* Such a step keeps what is known of every request.
LEMMA KeepsStored ==
  ASSUME OrdersStored, NEW r \in Reqs, Keeps(r)
  PROVE  OrdersStored'
<1> SUFFICES ASSUME NEW q \in Reqs
             PROVE  Stored(pc'[q], ctx'[q], tr'[q], future'[q], answer'[q], DOMAIN db')
  BY Zenon DEF OrdersStored
<1>1. Stored(pc[q], ctx[q], tr[q], future[q], answer[q], DOMAIN db) /\ db' = db
  BY Zenon DEF OrdersStored, Keeps
<1>2. CASE q = r
  BY <1>1, <1>2, ZenonT(60) DEF Keeps, Stored
<1>3. CASE q # r
  <2>1. /\ pc'[q] = pc[q] /\ ctx'[q] = ctx[q] /\ tr'[q] = tr[q]
        /\ future'[q] = future[q] /\ answer'[q] = answer[q]
    BY <1>3, Zenon DEF Keeps, OnlyRequest, Only
  <2> QED
    BY <1>1, <2>1, Zenon
<1> QED
  BY <1>2, <1>3, Zenon

\* submit_future.
LEMMA AwaitKeeps ==
  ASSUME IInv, NEW r \in Reqs, pc[r] # "done", NEW callback \in Callbacks, Await(r, callback),
         UNCHANGED <<db, answer>>,
         Only(ctx, ctx', r), Only(tr, tr', r), Only(future, future', r),
         callback = "on_commit" /\ ctx'[r].kind = "NewOrder" =>
           DOMAIN tr'[r].writes # {} /\ future'[r] # "ok"
  PROVE  Keeps(r)
<1>1. PICK p \in {callback, "lost"} : pc' = [pc EXCEPT ![r] = p]
  BY Zenon DEF Await
<1>2. Only(pc, pc', r) /\ pc'[r] = p
  BY <1>1, OnlyExcept, ZenonT(60) DEF IInv
<1>3. Only(answer, answer', r)
  BY OnlySame, ZenonT(60) DEF IInv
<1>4. answer'[r] = NoAnswer
  BY ZenonT(60) DEF IInv, ReqInv, Life
<1>5. answer'[r].status # "ok"
  BY <1>4, SMTT(60) DEF NoAnswer
<1>6. p = "on_commit" => callback = "on_commit"
  BY <1>1, Zenon
<1> QED
  BY <1>2, <1>3, <1>5, <1>6, ZenonT(60) DEF Keeps, OnlyRequest

\* The end of a chain.
LEMMA FinishKeeps ==
  ASSUME IInv, NEW r \in Reqs, NEW response, Finish(r, response), UNCHANGED db,
         response.status = "ok" /\ response.kind = "NewOrder" =>
           OrderOf(response) \in DOMAIN db
  PROVE  Keeps(r)
<1>1. OnlyRequest(r) /\ pc'[r] = "done" /\ answer'[r] = response
  BY OnlyExcept, Zenon DEF Finish, OnlyRequest, IInv
<1>2. pc'[r] # "on_commit"
  BY <1>1, Zenon
<1> QED
  BY <1>1, <1>2, Zenon DEF Keeps

\* An error answers no order.
LEMMA FailedKeeps ==
  ASSUME IInv, NEW r \in Reqs, Finish(r, Failed(r)), UNCHANGED db
  PROVE  Keeps(r)
<1>1. PICK response : response = Failed(r)
  BY Zenon
<1>2. response.status # "ok"
  BY <1>1, Zenon DEF Failed
<1>3. Finish(r, response)
  BY <1>1, Zenon
<1> QED
  BY <1>2, <1>3, FinishKeeps, ZenonT(60)

\* A read that fails, or finds no row.
LEMMA NoRowKeeps ==
  ASSUME IInv, NEW r \in Reqs, pc[r] \in ReadCallbacks, NEW k, NoRow(r, k) \/ ReadFails(r),
         UNCHANGED db
  PROVE  Keeps(r)
<1>1. CASE Finish(r, Failed(r))
  BY <1>1, FailedKeeps, Zenon
<1>2. CASE ReadFails(r) /\ ~Finish(r, Failed(r))
  <2>1. PICK err \in {"retryable", "fatal"} : future' = [future EXCEPT ![r] = err]
    BY <1>2, Zenon DEF ReadFails
  <2>2. PICK p \in {"on_error_retry", "lost"} : pc' = [pc EXCEPT ![r] = p]
    BY <1>2, Zenon DEF ReadFails
  <2>3. UNCHANGED <<ctx, tr, answer>>
    BY <1>2, Zenon DEF ReadFails
  <2>4. Only(future, future', r) /\ Only(pc, pc', r) /\ pc'[r] = p
    BY <2>1, <2>2, OnlyExcept, ZenonT(60) DEF IInv
  <2>5. Only(ctx, ctx', r) /\ Only(tr, tr', r) /\ Only(answer, answer', r)
    BY <2>3, OnlySame, ZenonT(60) DEF IInv
  <2>6. answer'[r] = NoAnswer
    BY <2>3, ReadingState, ZenonT(60) DEF IInv, ReqInv, Life
  <2>7. answer'[r].status # "ok"
    BY <2>6, SMTT(60) DEF NoAnswer
  <2>8. p # "on_commit"
    BY <2>2, Zenon
  <2> QED
    BY <2>4, <2>5, <2>7, <2>8, ZenonT(60) DEF Keeps, OnlyRequest
<1> QED
  BY <1>1, <1>2, ZenonT(60) DEF NoRow

\* A read that found its row, for a request that does not commit an order yet.
LEMMA ReadKeepsStored ==
  ASSUME IInv, NEW r \in Reqs, pc[r] \in ReadCallbacks, NEW k, RowPresent(r, k), UNCHANGED db,
         NEW callback \in Callbacks, Await(r, callback), Only(ctx, ctx', r), Only(tr, tr', r),
         callback = "on_commit" /\ ctx'[r].kind = "NewOrder" => DOMAIN tr'[r].writes # {}
  PROVE  Keeps(r)
<1>1. pc[r] # "done" /\ future[r] = "pending"
  BY ReadingState, Zenon
<1>2. UNCHANGED <<future, answer>>
  BY Zenon DEF RowPresent
<1>3. Only(future, future', r)
  BY <1>2, OnlySame, ZenonT(60) DEF IInv
<1>4. future'[r] # "ok"
  BY <1>1, <1>2, Zenon
<1> QED
  BY <1>1, <1>2, <1>3, <1>4, AwaitKeeps, ZenonT(60)

\* A NewOrder writes its order.
LEMMA WritesOrder ==
  ASSUME NEW w, NEW d, NEW c, NEW lines, NEW o_id, NEW quantity
  PROVE  kv_oorder_key(w, d, o_id) \in DOMAIN NewOrderWrites(w, d, c, lines, o_id, quantity)
BY Zenon DEF NewOrderWrites

\* start_stock_reads commits only what it has buffered.
LEMMA StockReadsKeep ==
  ASSUME IInv, NEW r \in Reqs, pc[r] \in ReadCallbacks, NEW k, RowPresent(r, k), UNCHANGED db,
         NEW c, NEW t, Transaction(t), StartStockReads(r, c, t)
  PROVE  Keeps(r)
<1>1. "on_commit" \in Callbacks /\ "on_stock_read" \in Callbacks
  BY Zenon DEF Callbacks, ReadCallbacks
<1>2. Only(ctx, ctx', r)
  BY OnlyExcept, Zenon DEF StartStockReads, IInv
<1>3. CASE Len(c.s_quantity) >= Len(c.lines)
  <2> DEFINE writes == NewOrderWrites(c.w, c.d, c.c, c.lines, c.d_next_o_id, c.s_quantity)
             s == [t EXCEPT !.writes = writes]
  <2>1. DOMAIN writes # {}
    BY WritesOrder, Zenon
  <2>2. tr' = [tr EXCEPT ![r] = s] /\ Await(r, "on_commit")
    BY <1>3, Zenon DEF StartStockReads
  <2>3. Buffered(t, s, writes)
    BY SetFields, Zenon
  <2>4. s.writes = writes
    BY <2>3, Zenon DEF Buffered
  <2> HIDE DEF writes, s
  <2>5. Only(tr, tr', r) /\ tr'[r] = s
    BY <2>2, OnlyExcept, ZenonT(60) DEF IInv
  <2> QED
    BY <1>1, <1>2, <2>1, <2>2, <2>4, <2>5, ReadKeepsStored, ZenonT(60)
<1>4. CASE ~(Len(c.s_quantity) >= Len(c.lines))
  <2>1. tr' = [tr EXCEPT ![r] = t] /\ Await(r, "on_stock_read")
    BY <1>4, Zenon DEF StartStockReads
  <2>2. Only(tr, tr', r)
    BY <2>1, OnlyExcept, ZenonT(60) DEF IInv
  <2> QED
    BY <1>1, <1>2, <2>1, <2>2, ReadKeepsStored, ZenonT(60)
<1> QED
  BY <1>3, <1>4, ZenonT(60)

\* The read callbacks of NewOrder and Payment.
LEMMA ReadCallbackKeeps ==
  ASSUME IInv, NEW r \in Reqs,
         \/ NewOrderOnDistrictRead(r) \/ NewOrderOnCustomerRead(r) \/ NewOrderOnStockRead(r)
         \/ PaymentOnWarehouseRead(r) \/ PaymentOnDistrictRead(r) \/ PaymentOnCustomerRead(r)
  PROVE  Keeps(r)
<1>1. pc[r] \in ReadCallbacks /\ UNCHANGED db
  BY Zenon DEF NewOrderOnDistrictRead, NewOrderOnCustomerRead, NewOrderOnStockRead,
         PaymentOnWarehouseRead, PaymentOnDistrictRead, PaymentOnCustomerRead,
         OnFuture, Completed, storeVars, ReadCallbacks
<1>2. {"on_district_read", "on_customer_read", "on_commit"} \subseteq Callbacks
  BY Zenon DEF Callbacks, ReadCallbacks
<1>3. ASSUME NEW k, NoRow(r, k) PROVE Keeps(r)
  BY <1>1, <1>3, NoRowKeeps, ZenonT(60)
<1>4. ASSUME NEW k, RowPresent(r, k), NEW callback \in Callbacks, callback # "on_commit",
             Await(r, callback), NEW c, ctx' = [ctx EXCEPT ![r] = c],
             NEW t, tr' = [tr EXCEPT ![r] = t]
      PROVE  Keeps(r)
  <2>1. Only(ctx, ctx', r) /\ Only(tr, tr', r)
    BY <1>4, OnlyExcept, ZenonT(60) DEF IInv
  <2> QED
    BY <1>1, <1>4, <2>1, ReadKeepsStored, ZenonT(60)
<1>5. ASSUME NEW k, RowPresent(r, k), NEW c, StartStockReads(r, c, AfterRead(r, k))
      PROVE  Keeps(r)
  <2>1. PICK t : t = AfterRead(r, k)
    BY ZenonT(60)
  <2>2. Transaction(tr[r])
    BY Zenon DEF IInv, ReqInv, Chain
  <2>3. Transaction(t)
    BY <2>1, <2>2, GetFields, ZenonT(60) DEF AfterRead
  <2> QED
    BY <1>1, <1>5, <2>1, <2>3, StockReadsKeep, ZenonT(60)
<1>6. CASE NewOrderOnDistrictRead(r)
  <2> DEFINE k == kv_district_key(ctx[r].w, ctx[r].d)
             c == [ctx[r] EXCEPT !.d_next_o_id = Row(r, k).d_next_o_id]
             t == AfterRead(r, k)
  <2>1. CASE RowPresent(r, k) /\ ctx' = [ctx EXCEPT ![r] = c] /\ tr' = [tr EXCEPT ![r] = t]
               /\ Await(r, "on_customer_read")
    <3> HIDE DEF k, c, t
    <3>1. "on_customer_read" \in Callbacks /\ "on_customer_read" # "on_commit"
      BY <1>2, Zenon
    <3> QED
      BY <1>4, <2>1, <3>1, ZenonT(60)
  <2> QED
    BY <1>3, <1>6, <2>1, ZenonT(60) DEF NewOrderOnDistrictRead
<1>7. CASE NewOrderOnCustomerRead(r)
  BY <1>3, <1>5, <1>7, ZenonT(60) DEF NewOrderOnCustomerRead
<1>8. CASE NewOrderOnStockRead(r)
  BY <1>3, <1>5, <1>8, ZenonT(60) DEF NewOrderOnStockRead
<1>9. CASE PaymentOnWarehouseRead(r)
  <2> DEFINE k == kv_warehouse_key(ctx[r].w)
             c == [ctx[r] EXCEPT !.w_ytd = Row(r, k).w_ytd]
             t == AfterRead(r, k)
  <2>1. CASE RowPresent(r, k) /\ ctx' = [ctx EXCEPT ![r] = c] /\ tr' = [tr EXCEPT ![r] = t]
               /\ Await(r, "on_district_read")
    <3> HIDE DEF k, c, t
    <3>1. "on_district_read" \in Callbacks /\ "on_district_read" # "on_commit"
      BY <1>2, Zenon
    <3> QED
      BY <1>4, <2>1, <3>1, ZenonT(60)
  <2> QED
    BY <1>3, <1>9, <2>1, ZenonT(60) DEF PaymentOnWarehouseRead
<1>10. CASE PaymentOnDistrictRead(r)
  <2> DEFINE k == kv_district_key(ctx[r].c_w, ctx[r].c_d)
             drawn(c) == [ctx[r] EXCEPT !.d_ytd = Row(r, k).d_ytd, !.c = c]
             t == AfterRead(r, k)
  <2>1. CASE RowPresent(r, k) /\ (\E c : ctx' = [ctx EXCEPT ![r] = drawn(c)])
               /\ tr' = [tr EXCEPT ![r] = t] /\ Await(r, "on_customer_read")
    <3> HIDE DEF k, drawn, t
    <3>1. "on_customer_read" \in Callbacks /\ "on_customer_read" # "on_commit"
      BY <1>2, Zenon
    <3> QED
      BY <1>4, <2>1, <3>1, ZenonT(60)
  <2> QED
    BY <1>3, <1>10, <2>1, ZenonT(60) DEF PaymentOnDistrictRead
<1>11. CASE PaymentOnCustomerRead(r)
  <2> DEFINE k == kv_customer_key(ctx[r].c_w, ctx[r].c_d, ctx[r].c)
             t == [AfterRead(r, k) EXCEPT !.writes =
                     PaymentWrites(ctx[r].w, ctx[r].c_w, ctx[r].c_d, ctx[r].c, ctx[r].amount,
                                   clock, ctx[r].w_ytd, ctx[r].d_ytd, Row(r, k))]
  <2>1. ctx[r].kind = "Payment"
    BY <1>11, Zenon DEF PaymentOnCustomerRead, OnFuture, Completed
  <2>2. CASE RowPresent(r, k) /\ UNCHANGED ctx /\ tr' = [tr EXCEPT ![r] = t]
               /\ Await(r, "on_commit")
    <3> HIDE DEF k, t
    <3>1. Only(ctx, ctx', r) /\ Only(tr, tr', r)
      BY <2>2, OnlySame, OnlyExcept, ZenonT(60) DEF IInv
    <3>2. ctx'[r].kind # "NewOrder"
      BY <2>1, <2>2, ZenonT(60)
    <3> QED
      BY <1>1, <1>2, <2>2, <3>1, <3>2, ReadKeepsStored, ZenonT(60)
  <2> QED
    BY <1>3, <1>11, <2>2, ZenonT(60) DEF PaymentOnCustomerRead
<1> QED
  BY <1>6, <1>7, <1>8, <1>9, <1>10, <1>11, SMTT(60)

\* on_commit answers with the order whose commit it was told of.
LEMMA OnCommitKeeps ==
  ASSUME IInv, OrdersStored, NEW r \in Reqs, NEW kind, OnCommit(r, kind)
  PROVE  Keeps(r)
<1>1. UNCHANGED db /\ pc[r] = "on_commit"
  BY Zenon DEF OnCommit, OnFuture, Completed, storeVars
<1>2. CASE future[r] = "ok"
  <2>1. PICK response : response = Response(r)
    BY Zenon
  <2>2. Finish(r, response)
    BY <1>2, <2>1, Zenon DEF OnCommit
  <2>3. ASSUME response.kind = "NewOrder" PROVE OrderOf(response) \in DOMAIN db
    <3>1. ctx[r].kind = "NewOrder"
      BY <2>1, <2>3, ZenonT(60) DEF Response
    <3>2. kv_oorder_key(ctx[r].w, ctx[r].d, ctx[r].d_next_o_id) \in DOMAIN db
      BY <1>1, <1>2, <3>1, ZenonT(60) DEF OrdersStored, Stored
    <3>3. response.o_id = ctx[r].d_next_o_id
            /\ response.district = kv_district_key(ctx[r].w, ctx[r].d)
      BY <2>1, <3>1, SMTT(60) DEF Response
    <3>4. response.district.id[1] = ctx[r].w /\ response.district.id[2] = ctx[r].d
      BY <3>3, SMTT(60) DEF kv_district_key, Key
    <3> QED
      BY <3>2, <3>3, <3>4, ZenonT(60) DEF OrderOf
  <2> QED
    BY <1>1, <2>2, <2>3, FinishKeeps, ZenonT(60)
<1>3. CASE future[r] # "ok"
  <2>1. Await(r, "on_error_retry") /\ UNCHANGED <<ctx, tr, future, answer>>
    BY <1>3, Zenon DEF OnCommit
  <2>2. "on_error_retry" \in Callbacks /\ "on_error_retry" # "on_commit" /\ pc[r] # "done"
    BY <1>1, Zenon DEF Callbacks
  <2>3. Only(ctx, ctx', r) /\ Only(tr, tr', r) /\ Only(future, future', r)
    BY <2>1, OnlySame, ZenonT(60) DEF IInv
  <2> QED
    BY <1>1, <2>1, <2>2, <2>3, AwaitKeeps, ZenonT(60)
<1> QED
  BY <1>2, <1>3, Zenon

\* on_error_retry starts over or gives up.
LEMMA OnErrorRetryKeeps ==
  ASSUME IInv, NEW r \in Reqs, NEW kind, NEW restart \in Callbacks, restart # "on_commit", NEW c,
         OnErrorRetry(r, kind, restart, c)
  PROVE  Keeps(r)
<1>1. UNCHANGED db /\ pc[r] # "done"
  BY Zenon DEF OnErrorRetry, OnFuture, Completed, storeVars
<1>2. CASE future[r] = "fatal"
  BY <1>1, <1>2, FailedKeeps, ZenonT(60) DEF OnErrorRetry
<1>3. CASE future[r] # "fatal"
  <2>1. /\ tr' = [tr EXCEPT ![r] = NewTransaction] /\ future' = [future EXCEPT ![r] = "pending"]
        /\ ctx' = [ctx EXCEPT ![r] = c] /\ Await(r, restart) /\ UNCHANGED answer
    BY <1>3, Zenon DEF OnErrorRetry
  <2>2. Only(ctx, ctx', r) /\ Only(tr, tr', r) /\ Only(future, future', r)
    BY <2>1, OnlyExcept, ZenonT(60) DEF IInv
  <2> QED
    BY <1>1, <2>1, <2>2, AwaitKeeps, ZenonT(60)
<1> QED
  BY <1>2, <1>3, ZenonT(60)

\* OrderStatus, Delivery and StockLevel answer no order.
LEMMA ReaderKeeps ==
  ASSUME IInv, NEW r \in Reqs, OsOnCommit(r) \/ DlOnCommit(r) \/ SlOnRangeRead(r)
  PROVE  Keeps(r)
<1>1. CASE OsOnCommit(r) \/ DlOnCommit(r)
  <2> DEFINE response == Response(r)
  <2>1. UNCHANGED db /\ Finish(r, response) /\ response.kind # "NewOrder"
    BY <1>1 DEF OsOnCommit, DlOnCommit, EmptyOnCommit, OnFuture, Completed, storeVars, Response
  <2> HIDE DEF response
  <2> QED
    BY <2>1, FinishKeeps, ZenonT(60)
<1>2. CASE SlOnRangeRead(r)
  <2>1. UNCHANGED db /\ pc[r] \in ReadCallbacks
    BY <1>2, Zenon DEF SlOnRangeRead, OnFuture, Completed, storeVars, ReadCallbacks
  <2>2. CASE ReadFails(r)
    BY <2>1, <2>2, NoRowKeeps, ZenonT(60)
  <2>3. ASSUME NEW rows, NEW response, Finish(r, response),
               response = [status |-> "ok", kind |-> "StockLevel",
                           below |-> Below(rows, db, ctx[r].threshold)]
        PROVE  Keeps(r)
    <3>1. response.kind # "NewOrder"
      BY <2>3, ZenonT(60)
    <3> QED
      BY <2>1, <2>3, <3>1, FinishKeeps, ZenonT(60)
  <2> QED
    BY <1>2, <2>2, <2>3, ZenonT(60) DEF SlOnRangeRead
<1> QED
  BY <1>1, <1>2, Zenon

\* An entry point does not commit yet.
LEMMA ArriveStored ==
  ASSUME IInv, OrdersStored, NEW r \in Reqs, Arrive(r)
  PROVE  OrdersStored'
<1>1. CASE Trap(r)
  BY <1>1, Zenon DEF Trap, requestVars, OrdersStored
<1>2. CASE ~Trap(r)
  <2>1. Enter(r)
    BY <1>2, Zenon DEF Arrive, NewOrderExecute, PaymentExecute, OrderStatusExecute, DeliveryExecute,
                EmptyExecute, StockLevelExecute, Execute
  <2>2. pc[r] # "done" /\ UNCHANGED <<db, tr, future>>
    BY <2>1, ZenonT(60) DEF Enter, storeVars
  <2>3. Only(tr, tr', r) /\ Only(future, future', r)
    BY <2>2, OnlySame, ZenonT(60) DEF IInv
  <2>4. \/ \E callback \in Callbacks \ {"on_commit"} : \E c :
             ctx' = [ctx EXCEPT ![r] = c] /\ Await(r, callback) /\ UNCHANGED answer
        \/ \E kind : CreateFails(r, kind)
    <3>1. {"on_district_read", "on_warehouse_read", "empty_on_commit", "sl_on_range_read"}
            \subseteq Callbacks \ {"on_commit"}
      BY Zenon DEF Callbacks, ReadCallbacks
    <3> QED
      BY <1>2, <3>1, ZenonT(60) DEF Arrive, NewOrderExecute, PaymentExecute, OrderStatusExecute,
                               DeliveryExecute, EmptyExecute, StockLevelExecute
  <2>5. ASSUME NEW callback \in Callbacks \ {"on_commit"}, NEW c, ctx' = [ctx EXCEPT ![r] = c],
               Await(r, callback), UNCHANGED answer
        PROVE  Keeps(r)
    <3>1. Only(ctx, ctx', r)
      BY <2>5, OnlyExcept, ZenonT(60) DEF IInv
    <3>2. callback \in Callbacks /\ callback # "on_commit"
      BY <2>5, Zenon
    <3> QED
      BY <2>2, <2>3, <2>5, <3>1, <3>2, AwaitKeeps, ZenonT(60)
  <2>6. ASSUME NEW kind, CreateFails(r, kind) PROVE Keeps(r)
    <3>1. PICK a : a = [status |-> "error", kind |-> kind]
      BY Zenon
    <3>2. answer' = [answer EXCEPT ![r] = a] /\ pc' = [pc EXCEPT ![r] = "done"] /\ UNCHANGED ctx
      BY <2>6, <3>1, SMTT(60) DEF CreateFails
    <3>3. Only(answer, answer', r) /\ answer'[r] = a /\ Only(pc, pc', r) /\ pc'[r] = "done"
      BY <3>2, OnlyExcept, ZenonT(60) DEF IInv
    <3>4. Only(ctx, ctx', r)
      BY <3>2, OnlySame, ZenonT(60) DEF IInv
    <3>5. a.status # "ok"
      BY <3>1, SMTT(60)
    <3>6. pc'[r] # "on_commit"
      BY <3>3, Zenon
    <3> QED
      BY <2>2, <2>3, <3>3, <3>4, <3>5, <3>6, ZenonT(60) DEF Keeps, OnlyRequest
  <2> QED
    BY <2>4, <2>5, <2>6, KeepsStored, ZenonT(60)
<1> QED
  BY <1>1, <1>2, Zenon

\* A commit only adds keys to the store; those of a NewOrder have its order.
LEMMA CommitStored ==
  ASSUME IInv, OrdersStored, NEW r \in Reqs, CommitAnswered(r)
  PROVE  OrdersStored'
<1>1. Commit(r) /\ UNCHANGED <<pc, ctx, answer>>
  BY Zenon DEF CommitAnswered, Commit
<1>2. ASSUME NEW f \in {"retryable", "fatal"}, future' = [future EXCEPT ![r] = f],
             UNCHANGED <<db, tr>>
      PROVE  OrdersStored'
  <2>1. Only(future, future', r) /\ future'[r] = f
    BY <1>2, OnlyExcept, ZenonT(60) DEF IInv
  <2>2. OnlyRequest(r)
    BY <1>1, <1>2, <2>1, OnlySame, ZenonT(60) DEF OnlyRequest, IInv
  <2>3. f # "ok"
    BY <1>2, ZenonT(60)
  <2>4. Stored(pc[r], ctx[r], tr[r], future[r], answer[r], DOMAIN db)
    BY Zenon DEF OrdersStored
  <2>5. Keeps(r)
    BY <1>1, <1>2, <2>1, <2>2, <2>3, <2>4, ZenonT(60) DEF Keeps, Stored
  <2> QED
    BY <2>5, KeepsStored, ZenonT(60)
<1>3. ASSUME Apply(r), NEW f \in {"ok", "retryable"}, future' = [future EXCEPT ![r] = f]
      PROVE  OrdersStored'
  <2>1. Only(future, future', r)
    BY <1>3, OnlyExcept, ZenonT(60) DEF IInv
  <2>2. DOMAIN db' = DOMAIN tr[r].writes \union DOMAIN db
    BY <1>3, Zenon DEF Apply, Overlay
  <2>3. ASSUME NEW q \in Reqs PROVE tr'[q].writes = tr[q].writes
    <3>1. Transaction(tr[q])
      BY Zenon DEF IInv, ReqInv, Chain
    <3>2. PICK m : m = Miss(tr[q], DOMAIN tr[r].writes)
      BY ZenonT(60)
    <3>3. m.writes = tr[q].writes
      BY <3>1, <3>2, MissFields, SMTT(60)
    <3>4. tr'[q] = tr[q] \/ tr'[q] = m
      BY <1>3, <3>2, SMTT(60) DEF Apply
    <3> QED
      BY <3>3, <3>4, ZenonT(60)
  <2> SUFFICES ASSUME NEW q \in Reqs
               PROVE  Stored(pc'[q], ctx'[q], tr'[q], future'[q], answer'[q], DOMAIN db')
    BY Zenon DEF OrdersStored
  <2>4. Stored(pc[q], ctx[q], tr[q], future[q], answer[q], DOMAIN db)
    BY Zenon DEF OrdersStored
  <2>5. ASSUME q = r, pc[r] = "on_commit", ctx[r].kind = "NewOrder"
        PROVE  kv_oorder_key(ctx[r].w, ctx[r].d, ctx[r].d_next_o_id) \in DOMAIN db'
    <3>1. DOMAIN tr[r].writes # {}
      BY <2>4, <2>5, ZenonT(60) DEF Stored
    <3>2. tr[r].writes # <<>>
      BY <3>1, SMTT(60)
    <3>3. NewOrderWritten(ctx[r], tr[r])
      BY <2>5, <3>2, ZenonT(60) DEF IInv, ReqInv, Chain, PaymentWritten
    <3>4. kv_oorder_key(ctx[r].w, ctx[r].d, ctx[r].d_next_o_id) \in DOMAIN tr[r].writes
      BY <3>3, WritesOrder, Zenon DEF NewOrderWritten
    <3> QED
      BY <2>2, <3>4, ZenonT(60)
  <2>6. q # r => future'[q] = future[q]
    BY <2>1, Zenon DEF Only
  <2>7. \A k \in DOMAIN db : k \in DOMAIN db'
    BY <2>2, Zenon
  <2> QED
    BY <1>1, <2>3, <2>4, <2>5, <2>6, <2>7, ZenonT(60) DEF Stored
<1> QED
  BY <1>1, <1>2, <1>3, ZenonT(60) DEF Commit

\* Every step keeps the orders.
LEMMA StoredStep ==
  ASSUME IInv, OrdersStored, [Next]_vars
  PROVE  OrdersStored'
<1>1. CASE Tick
  BY <1>1, Zenon DEF Tick, adapterVars, OrdersStored
<1>2. ASSUME NEW r \in Reqs, Callback(r) PROVE OrdersStored'
  <2>1. CASE \/ NewOrderOnDistrictRead(r) \/ NewOrderOnCustomerRead(r) \/ NewOrderOnStockRead(r)
             \/ PaymentOnWarehouseRead(r) \/ PaymentOnDistrictRead(r) \/ PaymentOnCustomerRead(r)
    BY <2>1, ReadCallbackKeeps, KeepsStored, ZenonT(60)
  <2>2. CASE NewOrderOnCommit(r) \/ PaymentOnCommit(r)
    BY <2>2, OnCommitKeeps, KeepsStored, ZenonT(60) DEF NewOrderOnCommit, PaymentOnCommit
  <2>3. CASE NewOrderOnErrorRetry(r) \/ PaymentOnErrorRetry(r)
    <3>1. /\ "on_district_read" \in Callbacks /\ "on_warehouse_read" \in Callbacks
          /\ "on_district_read" # "on_commit" /\ "on_warehouse_read" # "on_commit"
      BY Zenon DEF Callbacks, ReadCallbacks
    <3> QED
      BY <2>3, <3>1, OnErrorRetryKeeps, KeepsStored, ZenonT(60)
         DEF NewOrderOnErrorRetry, PaymentOnErrorRetry
  <2>4. CASE OsOnCommit(r) \/ DlOnCommit(r) \/ SlOnRangeRead(r)
    BY <2>4, ReaderKeeps, KeepsStored, ZenonT(60)
  <2> QED
    BY <1>2, <2>1, <2>2, <2>3, <2>4, ZenonT(60) DEF Callback
<1>3. CASE UNCHANGED vars
  BY <1>3, Zenon DEF vars, adapterVars, OrdersStored
<1> QED
  BY <1>1, <1>2, <1>3, ArriveStored, CommitStored, ZenonT(60) DEF Next

\* The orders are always as OrdersStored says.
LEMMA OrdersStoredAlways == Spec => []OrdersStored
<1>1. Init => OrdersStored
  BY SMTT(60) DEF Init, AdapterInit, OrdersStored, Stored, NoAnswer
<1>2. IInv /\ OrdersStored /\ [Next]_vars => OrdersStored'
  BY StoredStep, Zenon
<1> QED
  BY <1>1, <1>2, Invariant, PTL DEF Spec

----------------------------------------------------------------------------
(* Serializability *)

\* The snapshot of t has the row that the store has now.
Current(t, store, k) == k \in DOMAIN store /\ t.snap[k] = store[k]

\* A transaction that does not conflict has read what the store holds now.
LEMMA ReadIsCurrent ==
  ASSUME NEW t, NEW store, Snapshot(t, store), ~Conflicts(t), NEW k, HasRead(t, k)
  PROVE  Current(t, store, k)
BY Zenon DEF Snapshot, Conflicts, HasRead, Current

\* The instance of TpccSerial computes with the same rows.
LEMMA SerialRows ==
  /\ \A w : Serial!kv_warehouse_key(w) = kv_warehouse_key(w)
  /\ \A w, d : Serial!kv_district_key(w, d) = kv_district_key(w, d)
  /\ \A w, d, c : Serial!kv_customer_key(w, d, c) = kv_customer_key(w, d, c)
  /\ \A w, i : Serial!kv_stock_key(w, i) = kv_stock_key(w, i)
  /\ \A w : Serial!SupplyW(w) = SupplyW(w)
  /\ \A s_quantity, qty : Serial!NewQuantity(s_quantity, qty) = NewQuantity(s_quantity, qty)
BY DEF Serial!kv_warehouse_key, Serial!kv_district_key, Serial!kv_customer_key,
       Serial!kv_stock_key, Serial!Key, Serial!NewQuantity, Serial!SupplyW, kv_warehouse_key,
       kv_district_key, kv_customer_key, kv_stock_key, Key, NewQuantity, SupplyW

\* The instance of TpccSerial overlays stores in the same way.
LEMMA SerialOverlay ==
  ASSUME NEW writes, NEW store
  PROVE  Serial!Overlay(writes, store) = Overlay(writes, store)
BY DEF Serial!Overlay, Overlay

\* The instance of TpccSerial writes the same NewOrder.
LEMMA SerialNewOrderWrites ==
  ASSUME NEW w, NEW d, NEW c, NEW lines, NEW o_id, NEW quantity
  PROVE  Serial!NewOrderWrites(w, d, c, lines, o_id, quantity)
           = NewOrderWrites(w, d, c, lines, o_id, quantity)
BY Zenon DEF Serial!NewOrderWrites, Serial!kv_oorder_key, Serial!kv_new_order_key,
       Serial!kv_next_o_id_key, Serial!kv_order_line_key, Serial!kv_stock_key, Serial!Key,
       Serial!LastLine, Serial!SupplyW, NewOrderWrites, kv_oorder_key, kv_new_order_key,
       kv_next_o_id_key, kv_order_line_key, kv_stock_key, Key, LastLine, SupplyW

\* The instance of TpccSerial writes the same Payment.
LEMMA SerialPaymentWrites ==
  ASSUME NEW w, NEW cw, NEW cd, NEW c, NEW amount, NEW now, NEW w_ytd, NEW d_ytd, NEW cv
  PROVE  Serial!PaymentWrites(w, cw, cd, c, amount, now, w_ytd, d_ytd, cv)
           = PaymentWrites(w, cw, cd, c, amount, now, w_ytd, d_ytd, cv)
<1>1. /\ Serial!WarehouseRow(w_ytd, amount) = WarehouseRow(w_ytd, amount)
      /\ Serial!DistrictRow(d_ytd, amount) = DistrictRow(d_ytd, amount)
      /\ Serial!CustomerRow(cv, amount) = CustomerRow(cv, amount)
  BY DEF Serial!WarehouseRow, WarehouseRow, Serial!DistrictRow, DistrictRow,
         Serial!CustomerRow, CustomerRow, Serial!Int16, Int16
<1> QED
  BY <1>1, SMTT(60) DEF Serial!PaymentWrites, Serial!kv_warehouse_key, Serial!kv_district_key,
         Serial!kv_customer_key, Serial!kv_history_key, Serial!Key, PaymentWrites,
         kv_warehouse_key, kv_district_key, kv_customer_key, kv_history_key, Key

\* The handlers start from a store TpccSerial starts from.
LEMMA SerialInit == Init => Serial!Init
<1>1. Serial!LoaderRows = LoaderRows
  BY SMTT(60) DEF Serial!LoaderRows, LoaderRows, Serial!kv_warehouse_key, Serial!kv_district_key,
         Serial!kv_next_o_id_key, Serial!Key, kv_warehouse_key, kv_district_key,
         kv_next_o_id_key, Key
<1>2. ASSUME NEW customers, NEW stock
      PROVE  Serial!DataSet(customers, stock) = DataSet(customers, stock)
  BY SMTT(60) DEF Serial!DataSet, DataSet, Serial!kv_customer_key, Serial!kv_stock_key,
         Serial!Key, kv_customer_key, kv_stock_key, Key
<1> QED
  BY <1>1, <1>2, SerialOverlay, ZenonT(60) DEF Init, Serial!Init

\* The writes of a NewOrder that does not conflict are those of a NewOrder run
\* on the store as it is.
LEMMA NewOrderIsSerial ==
  ASSUME NEW c, NEW t, NewOrderCtx(c), NewOrderWritten(c, t), Snapshot(t, db), ~Conflicts(t),
         db' = Overlay(t.writes, db)
  PROVE  Serial!Next
<1> DEFINE dk == kv_district_key(c.w, c.d)
           ck == kv_customer_key(c.w, c.d, c.c)
           quantity == [n \in DOMAIN c.lines |->
                          NewQuantity(db[kv_stock_key(SupplyW(c.w), c.lines[n].i_id)].s_quantity,
                                      c.lines[n].qty)]
<1>1. /\ DistrictRead(c, t) /\ CustomerRead(c, t) /\ StockRead(c, t, Len(c.lines))
      /\ t.writes = NewOrderWrites(c.w, c.d, c.c, c.lines, c.d_next_o_id, c.s_quantity)
  BY ZenonT(60) DEF NewOrderWritten
<1>2. DOMAIN c.lines = 1..Len(c.lines)
  BY RowsAssumption, SMTT(60) DEF NewOrderCtx
<1>3. dk \in DOMAIN db /\ t.snap[dk] = db[dk] /\ c.d_next_o_id = t.snap[dk].d_next_o_id
  <2>1. HasRead(t, dk) /\ c.d_next_o_id = t.snap[dk].d_next_o_id
    BY <1>1, ZenonT(60) DEF DistrictRead
  <2> HIDE DEF dk
  <2>2. Current(t, db, dk)
    BY <2>1, ReadIsCurrent, ZenonT(60)
  <2> QED
    BY <2>1, <2>2, ZenonT(60) DEF Current
<1>4. ck \in DOMAIN db
  <2>1. HasRead(t, ck)
    BY <1>1, Zenon DEF CustomerRead
  <2> HIDE DEF ck
  <2>2. Current(t, db, ck)
    BY <2>1, ReadIsCurrent, ZenonT(60)
  <2> QED
    BY <2>1, <2>2, ZenonT(60) DEF Current
<1>5. ASSUME NEW n \in DOMAIN c.lines
      PROVE  /\ kv_stock_key(SupplyW(c.w), c.lines[n].i_id) \in DOMAIN db
             /\ Quantity(c, t, n) = NewQuantity(db[kv_stock_key(SupplyW(c.w), c.lines[n].i_id)].s_quantity,
                                                c.lines[n].qty)
  <2>1. HasRead(t, StockKey(c, n))
    BY <1>1, <1>2, Zenon DEF StockRead
  <2>2. StockKey(c, n) \in DOMAIN db /\ t.snap[StockKey(c, n)] = db[StockKey(c, n)]
    <3>1. Current(t, db, StockKey(c, n))
      BY <2>1, ReadIsCurrent, Zenon
    <3> QED
      BY <3>1, Zenon DEF Current
  <2> QED
    BY <2>2, Zenon DEF StockKey, Quantity
<1>6. c.s_quantity = quantity
  <2>1. c.s_quantity = [n \in DOMAIN c.lines |-> Quantity(c, t, n)]
    BY <1>1, <1>2, Zenon DEF StockRead
  <2> QED
    BY <1>5, <2>1, Zenon
<1>7. db' = Overlay(NewOrderWrites(c.w, c.d, c.c, c.lines, db[dk].d_next_o_id, quantity), db)
  BY <1>1, <1>3, <1>6, ZenonT(60)
<1>8. Serial!NewOrder(c.w, c.d, c.c, c.lines)
  <2>1. {dk, ck} \subseteq DOMAIN db
    BY <1>3, <1>4, ZenonT(60)
  <2>2. \A n \in DOMAIN c.lines : kv_stock_key(SupplyW(c.w), c.lines[n].i_id) \in DOMAIN db
    BY <1>5, Zenon
  <2>3. quantity = [n \in DOMAIN c.lines |->
                      Serial!NewQuantity(db[Serial!kv_stock_key(Serial!SupplyW(c.w), c.lines[n].i_id)].s_quantity,
                                         c.lines[n].qty)]
    BY SerialRows, Zenon
  <2>4. dk = Serial!kv_district_key(c.w, c.d) /\ ck = Serial!kv_customer_key(c.w, c.d, c.c)
    BY SerialRows, Zenon
  <2>5. \A n \in DOMAIN c.lines : Serial!kv_stock_key(Serial!SupplyW(c.w), c.lines[n].i_id) \in DOMAIN db
    BY <2>2, SerialRows, Zenon
  <2> HIDE DEF dk, ck, quantity
  <2>6. db' = Serial!Overlay(Serial!NewOrderWrites(c.w, c.d, c.c, c.lines,
                                                   db[dk].d_next_o_id, quantity), db)
    BY <1>7, SerialOverlay, SerialNewOrderWrites, ZenonT(60)
  <2> QED
    BY <2>1, <2>3, <2>4, <2>5, <2>6, ZenonT(60) DEF Serial!NewOrder
<1> QED
  BY <1>8, Zenon DEF Serial!Next, NewOrderCtx

\* The same of a Payment.
LEMMA PaymentIsSerial ==
  ASSUME NEW c, NEW t, PaymentCtx(c), PaymentWritten(c, t), Snapshot(t, db), ~Conflicts(t),
         db' = Overlay(t.writes, db)
  PROVE  Serial!Next
<1> DEFINE wk == kv_warehouse_key(c.w)
           dk == kv_district_key(c.c_w, c.c_d)
           ck == kv_customer_key(c.c_w, c.c_d, c.c)
<1>1. WarehousePaid(c, t) /\ DistrictPaid(c, t) /\ HasRead(t, ck)
  BY Zenon DEF PaymentWritten
<1>2. PICK now \in Times :
        t.writes = PaymentWrites(c.w, c.c_w, c.c_d, c.c, c.amount, now,
                                 c.w_ytd, c.d_ytd, t.snap[ck])
  BY Zenon DEF PaymentWritten
<1>3. wk \in DOMAIN db /\ t.snap[wk] = db[wk] /\ c.w_ytd = t.snap[wk].w_ytd
  <2>1. HasRead(t, wk) /\ c.w_ytd = t.snap[wk].w_ytd
    BY <1>1, Zenon DEF WarehousePaid
  <2> HIDE DEF wk
  <2>2. Current(t, db, wk)
    BY <2>1, ReadIsCurrent, ZenonT(60)
  <2> QED
    BY <2>1, <2>2, Zenon DEF Current
<1>4. dk \in DOMAIN db /\ t.snap[dk] = db[dk] /\ c.d_ytd = t.snap[dk].d_ytd
  <2>1. HasRead(t, dk) /\ c.d_ytd = t.snap[dk].d_ytd
    BY <1>1, Zenon DEF DistrictPaid
  <2> HIDE DEF dk
  <2>2. Current(t, db, dk)
    BY <2>1, ReadIsCurrent, Zenon
  <2> QED
    BY <2>1, <2>2, ZenonT(60) DEF Current
<1>5. ck \in DOMAIN db /\ t.snap[ck] = db[ck]
  <2>1. Current(t, db, ck)
    BY <1>1, ReadIsCurrent, ZenonT(60)
  <2> QED
    BY <2>1, Zenon DEF Current
<1>6. wk = Serial!kv_warehouse_key(c.w) /\ dk = Serial!kv_district_key(c.c_w, c.c_d)
        /\ ck = Serial!kv_customer_key(c.c_w, c.c_d, c.c)
  BY SerialRows, Zenon
<1> HIDE DEF wk, dk, ck
<1>7. {wk, dk, ck} \subseteq DOMAIN db
  BY <1>3, <1>4, <1>5, ZenonT(60)
<1>8. db' = Overlay(PaymentWrites(c.w, c.c_w, c.c_d, c.c, c.amount, now,
                                  db[wk].w_ytd, db[dk].d_ytd, db[ck]), db)
  BY <1>2, <1>3, <1>4, <1>5, ZenonT(60)
<1>9. db' = Serial!Overlay(Serial!PaymentWrites(c.w, c.c_w, c.c_d, c.c, c.amount, now,
                                                db[wk].w_ytd, db[dk].d_ytd, db[ck]), db)
  BY <1>8, SerialOverlay, SerialPaymentWrites, ZenonT(60)
<1>10. Serial!Payment(c.w, c.c_w, c.c_d, c.c, c.amount, now)
  BY <1>6, <1>7, <1>9, ZenonT(60) DEF Serial!Payment
<1>11. Serial!Payment(1, c.c_w, c.c_d, c.c, c.amount, now)
  BY <1>10, Zenon DEF PaymentCtx
<1> QED
  BY <1>11, Zenon DEF Serial!Next, PaymentCtx

\* A commit changes the store like a whole NewOrder or Payment, or not at all.
LEMMA CommitIsSerial ==
  ASSUME IInv, NEW r \in Reqs, CommitAnswered(r)
  PROVE  Serial!Next \/ UNCHANGED db
<1>1. Commit(r) /\ Committing(r)
  BY SMTT(30) DEF CommitAnswered, Commit
<1>2. CASE ~Conflicts(tr[r]) /\ Apply(r)
  <2>1. db' = Overlay(tr[r].writes, db)
    BY <1>2, SMTT(60) DEF Apply
  <2>2. ReqInv(pc[r], ctx[r], tr[r], future[r], answer[r], applied[r], faults, db)
    BY DEF IInv
  <2>3. Snapshot(tr[r], db)
    BY <1>1, <2>2, ZenonT(60) DEF ReqInv, Committing
  <2>4. Chain(pc[r], ctx[r], tr[r])
    BY <2>2, Zenon DEF ReqInv
  <2>5. CASE tr[r].writes = <<>>
    <3>1. db = [k \in DOMAIN db |-> db[k]]
      BY Zenon DEF IInv
    <3>2. Overlay(<<>>, db) = [k \in DOMAIN db |-> db[k]]
      BY SMTT(60) DEF Overlay
    <3> QED
      BY <2>1, <2>5, <3>1, <3>2, ZenonT(60)
  <2>6. CASE NewOrderWritten(ctx[r], tr[r])
    <3>1. NewOrderCtx(ctx[r])
      <4>1. Context(ctx[r])
        BY <2>4, ZenonT(60) DEF Chain
      <4>2. ctx[r].kind = "NewOrder"
        BY <2>6, ZenonT(60) DEF NewOrderWritten
      <4> QED
        BY <4>1, <4>2, ZenonT(60) DEF Context
    <3> QED
      BY <1>2, <2>1, <2>3, <2>6, <3>1, NewOrderIsSerial, ZenonT(60)
  <2>7. CASE PaymentWritten(ctx[r], tr[r])
    <3>1. PaymentCtx(ctx[r])
      <4>1. Context(ctx[r])
        BY <2>4, Zenon DEF Chain
      <4>2. ctx[r].kind = "Payment"
        BY <2>7, SMTT(60) DEF PaymentWritten
      <4> QED
        BY <4>1, <4>2, ZenonT(60) DEF Context
    <3> QED
      BY <1>2, <2>1, <2>3, <2>7, <3>1, PaymentIsSerial, SMTT(60)
  <2>8. tr[r].writes = <<>> \/ NewOrderWritten(ctx[r], tr[r]) \/ PaymentWritten(ctx[r], tr[r])
    BY <2>4, ZenonT(60) DEF Chain
  <2> QED
    BY <2>5, <2>6, <2>7, <2>8, ZenonT(60)
<1>3. CASE UNCHANGED db
  BY <1>3, Zenon
<1> QED
  BY <1>1, <1>2, <1>3, ZenonT(60) DEF Commit

\* Entry points and callbacks only read the store.
LEMMA OthersKeepStore ==
  ASSUME NEW r \in Reqs, Arrive(r) \/ Callback(r)
  PROVE  UNCHANGED db
<1>1. CASE Arrive(r)
  BY <1>1, ZenonT(60) DEF Arrive, NewOrderExecute, PaymentExecute, OrderStatusExecute, DeliveryExecute,
       EmptyExecute, StockLevelExecute, Trap, Execute, Enter, storeVars, requestVars
<1>2. CASE Callback(r)
  BY <1>2, ZenonT(60) DEF Callback, NewOrderOnDistrictRead, NewOrderOnCustomerRead, NewOrderOnStockRead,
       PaymentOnWarehouseRead, PaymentOnDistrictRead, PaymentOnCustomerRead, NewOrderOnCommit,
       PaymentOnCommit, OnCommit, NewOrderOnErrorRetry, PaymentOnErrorRetry, OnErrorRetry,
       OsOnCommit, DlOnCommit, EmptyOnCommit, SlOnRangeRead, OnFuture, Completed, storeVars
<1> QED
  BY <1>1, <1>2, ZenonT(60)

\* However the callback chains of any number of requests interleave, conflict,
\* fail and retry, the store changes as if whole NewOrders and Payments had run
\* one at a time, each on what the store held at its commit.
THEOREM HandlersSerializable == Spec => Serializable
<1>1. IInv /\ [Next]_vars => [Serial!Next]_db
  <2> SUFFICES ASSUME IInv, [Next]_vars PROVE [Serial!Next]_db
    BY Zenon
  <2>1. CASE Tick
    BY <2>1, Zenon DEF Tick, adapterVars
  <2>2. ASSUME NEW r \in Reqs, Arrive(r) \/ Callback(r) PROVE UNCHANGED db
    BY <2>2, OthersKeepStore, Zenon
  <2>3. ASSUME NEW r \in Reqs, CommitAnswered(r) PROVE [Serial!Next]_db
    BY <2>3, CommitIsSerial, ZenonT(60)
  <2>4. CASE UNCHANGED vars
    BY <2>4 DEF vars, adapterVars
  <2> QED
    BY <2>1, <2>2, <2>3, <2>4, ZenonT(60) DEF Next
<1>2. Spec => Serial!Init /\ [][Serial!Next]_db
  BY <1>1, Invariant, SerialInit, PTL DEF Spec
<1> QED
  BY <1>2, Zenon DEF Serializable, Serial!Spec

\* What is stored under the id answered is a whole order if all orders are.
LEMMA StoredOrdersAreWhole ==
  OrdersStored /\ Serial!NewOrderAtomic => AnsweredOrderStored
<1> SUFFICES ASSUME OrdersStored, Serial!NewOrderAtomic, NEW r \in Reqs, Ok(r),
                    answer[r].kind = "NewOrder", NEW k, k = OrderOf(answer[r])
             PROVE  k \in DOMAIN db /\ Serial!WholeOrder(k)
  BY ZenonT(60) DEF AnsweredOrderStored
<1>1. k \in DOMAIN db
  BY ZenonT(60) DEF OrdersStored, Stored, Ok
<1>2. k.table = "o"
  BY ZenonT(60) DEF OrderOf, kv_oorder_key, Key
<1>3. k \in Serial!RowsOf("o")
  BY <1>1, <1>2, ZenonT(60) DEF Serial!RowsOf
<1> QED
  BY <1>1, <1>3, ZenonT(60) DEF Serial!NewOrderAtomic

----------------------------------------------------------------------------
(* What holds of the serial specification holds of the handlers' store.     *)
(* The two instances below are of one module; their operators are shown     *)
(* equal, from the keys up                                                  *)

SerialProofs == INSTANCE TpccSerialProofs

\* Keys and quantities.
LEMMA SameKeys ==
  /\ \A w : SerialProofs!kv_warehouse_key(w) = Serial!kv_warehouse_key(w)
  /\ \A w, d : SerialProofs!kv_district_key(w, d) = Serial!kv_district_key(w, d)
  /\ \A w, d, c : SerialProofs!kv_customer_key(w, d, c) = Serial!kv_customer_key(w, d, c)
  /\ \A w, i : SerialProofs!kv_stock_key(w, i) = Serial!kv_stock_key(w, i)
  /\ \A w : SerialProofs!SupplyW(w) = Serial!SupplyW(w)
  /\ \A w, d, o : SerialProofs!kv_oorder_key(w, d, o) = Serial!kv_oorder_key(w, d, o)
  /\ \A w, d, o : SerialProofs!kv_new_order_key(w, d, o) = Serial!kv_new_order_key(w, d, o)
  /\ \A w, d, o, n : SerialProofs!kv_order_line_key(w, d, o, n) = Serial!kv_order_line_key(w, d, o, n)
  /\ \A w, d : SerialProofs!kv_next_o_id_key(w, d) = Serial!kv_next_o_id_key(w, d)
  /\ \A w, cw, cd, c, now :
       SerialProofs!kv_history_key(w, cw, cd, c, now) = Serial!kv_history_key(w, cw, cd, c, now)
  /\ \A s, qty : SerialProofs!NewQuantity(s, qty) = Serial!NewQuantity(s, qty)
BY ZenonT(60) DEF SerialProofs!kv_warehouse_key, SerialProofs!kv_district_key,
       SerialProofs!kv_customer_key, SerialProofs!kv_stock_key, SerialProofs!kv_oorder_key,
       SerialProofs!kv_new_order_key, SerialProofs!kv_order_line_key,
       SerialProofs!kv_next_o_id_key, SerialProofs!kv_history_key, SerialProofs!Key,
       SerialProofs!NewQuantity, Serial!kv_warehouse_key, Serial!kv_district_key,
       Serial!kv_customer_key, Serial!kv_stock_key, Serial!kv_oorder_key,
       Serial!kv_new_order_key, Serial!kv_order_line_key, Serial!kv_next_o_id_key,
       Serial!kv_history_key, Serial!Key, Serial!NewQuantity,
       SerialProofs!SupplyW, Serial!SupplyW

\* Stores after writes.
LEMMA SameOverlay ==
  ASSUME NEW writes, NEW store
  PROVE  SerialProofs!Overlay(writes, store) = Serial!Overlay(writes, store)
BY ZenonT(60) DEF SerialProofs!Overlay, Serial!Overlay

\* The rows of a NewOrder.
LEMMA SameNewOrderWrites ==
  ASSUME NEW w, NEW d, NEW c, NEW lines, NEW o_id, NEW quantity
  PROVE  SerialProofs!NewOrderWrites(w, d, c, lines, o_id, quantity)
           = Serial!NewOrderWrites(w, d, c, lines, o_id, quantity)
BY SameKeys, ZenonT(60) DEF SerialProofs!NewOrderWrites, SerialProofs!LastLine,
       Serial!NewOrderWrites, Serial!LastLine

\* The rows of a Payment.
LEMMA SamePaymentWrites ==
  ASSUME NEW w, NEW cw, NEW cd, NEW c, NEW amount, NEW now, NEW w_ytd, NEW d_ytd, NEW cv
  PROVE  SerialProofs!PaymentWrites(w, cw, cd, c, amount, now, w_ytd, d_ytd, cv)
           = Serial!PaymentWrites(w, cw, cd, c, amount, now, w_ytd, d_ytd, cv)
<1>1. /\ SerialProofs!WarehouseRow(w_ytd, amount) = Serial!WarehouseRow(w_ytd, amount)
      /\ SerialProofs!DistrictRow(d_ytd, amount) = Serial!DistrictRow(d_ytd, amount)
      /\ SerialProofs!CustomerRow(cv, amount) = Serial!CustomerRow(cv, amount)
  BY SMT DEF SerialProofs!WarehouseRow, SerialProofs!DistrictRow, SerialProofs!CustomerRow,
         SerialProofs!Int16, Serial!WarehouseRow, Serial!DistrictRow, Serial!CustomerRow,
         Serial!Int16
<1> QED
  BY <1>1, SMTT(30) DEF SerialProofs!PaymentWrites, SerialProofs!kv_warehouse_key,
         SerialProofs!kv_district_key, SerialProofs!kv_customer_key,
         SerialProofs!kv_history_key, SerialProofs!Key, Serial!PaymentWrites,
         Serial!kv_warehouse_key, Serial!kv_district_key, Serial!kv_customer_key,
         Serial!kv_history_key, Serial!Key

\* The store at the start.
LEMMA SameInit == Serial!Init => SerialProofs!Init
<1>1. SerialProofs!LoaderRows = Serial!LoaderRows
  BY SMT DEF SerialProofs!LoaderRows, SerialProofs!kv_warehouse_key,
         SerialProofs!kv_district_key, SerialProofs!kv_next_o_id_key, SerialProofs!Key,
         Serial!LoaderRows, Serial!kv_warehouse_key, Serial!kv_district_key,
         Serial!kv_next_o_id_key, Serial!Key
<1>2. ASSUME NEW customers, NEW stock
      PROVE  SerialProofs!DataSet(customers, stock) = Serial!DataSet(customers, stock)
  BY SMT DEF SerialProofs!DataSet, SerialProofs!kv_customer_key, SerialProofs!kv_stock_key,
         SerialProofs!Key, Serial!DataSet, Serial!kv_customer_key, Serial!kv_stock_key,
         Serial!Key
<1> QED
  BY <1>1, <1>2, SameOverlay, ZenonT(60) DEF Serial!Init, SerialProofs!Init

\* The steps.
LEMMA SameNext == Serial!Next => SerialProofs!Next
<1>1. ASSUME NEW w, NEW d, NEW c, NEW lines, Serial!NewOrder(w, d, c, lines)
      PROVE  SerialProofs!NewOrder(w, d, c, lines)
  BY <1>1, SameKeys, SameOverlay, SameNewOrderWrites, ZenonT(60)
     DEF Serial!NewOrder, SerialProofs!NewOrder
<1>2. ASSUME NEW w, NEW cw, NEW cd, NEW c, NEW amount, NEW now,
             Serial!Payment(w, cw, cd, c, amount, now)
      PROVE  SerialProofs!Payment(w, cw, cd, c, amount, now)
  BY <1>2, SameKeys, SameOverlay, SamePaymentWrites, ZenonT(60)
     DEF Serial!Payment, SerialProofs!Payment
<1> QED
  BY <1>1, <1>2, ZenonT(60) DEF Serial!Next, SerialProofs!Next

\* The properties.
LEMMA SameProperties ==
  /\ SerialProofs!StockInRange => Serial!StockInRange
  /\ SerialProofs!MoneyConserved => Serial!MoneyConserved
  /\ SerialProofs!NewOrderAtomic => Serial!NewOrderAtomic
<1>1. ASSUME NEW table PROVE SerialProofs!RowsOf(table) = Serial!RowsOf(table)
  BY ZenonT(60) DEF SerialProofs!RowsOf, Serial!RowsOf
<1>2. /\ SerialProofs!WarehouseTook = Serial!WarehouseTook
      /\ SerialProofs!DistrictTook = Serial!DistrictTook
      /\ SerialProofs!CustomerPaid = Serial!CustomerPaid
      /\ SerialProofs!BalanceLost = Serial!BalanceLost
  BY <1>1, SMTT(60) DEF SerialProofs!WarehouseTook, SerialProofs!DistrictTook,
         SerialProofs!CustomerPaid, SerialProofs!BalanceLost, Serial!WarehouseTook,
         Serial!DistrictTook, Serial!CustomerPaid, Serial!BalanceLost
<1>3. ASSUME NEW f PROVE SerialProofs!Cents(f) = Serial!Cents(f)
  BY ZenonT(60) DEF SerialProofs!Cents, Serial!Cents
<1>4. ASSUME NEW S PROVE SerialProofs!Cardinality(S) = Serial!Cardinality(S)
  BY ZenonT(60) DEF SerialProofs!Cardinality, Serial!Cardinality
<1>5. SerialProofs!MoneyConserved => Serial!MoneyConserved
  BY <1>2, <1>3, <1>4, ZenonT(60) DEF SerialProofs!MoneyConserved, Serial!MoneyConserved
<1>6. SerialProofs!StockInRange => Serial!StockInRange
  BY <1>1, ZenonT(60) DEF SerialProofs!StockInRange, Serial!StockInRange
<1>7. ASSUME NEW k, SerialProofs!WholeOrder(k) PROVE Serial!WholeOrder(k)
  BY <1>7, SameKeys, ZenonT(60) DEF SerialProofs!WholeOrder, Serial!WholeOrder
<1>8. SerialProofs!NewOrderAtomic => Serial!NewOrderAtomic
  BY <1>1, <1>7, SameKeys, ZenonT(60) DEF SerialProofs!NewOrderAtomic, Serial!NewOrderAtomic
<1> QED
  BY <1>5, <1>6, <1>8, ZenonT(60)

\* The store that interleaved callback chains, conflicts and retries leave keeps
\* every promise of the serial specification: stock in 10..100, the lines an order
\* counts all of one NewOrder, and no cent lost or made, also where a retry applies a
\* payment twice.
THEOREM HandlersKeepStore ==
  Spec => [](Serial!StockInRange /\ Serial!NewOrderAtomic /\ Serial!MoneyConserved)
<1>1. SerialProofs!Spec => []SerialProofs!StockInRange
  BY SerialProofs!StockStaysInRange, RowsAssumption, PTL
<1>2. SerialProofs!Spec => []SerialProofs!MoneyConserved
  BY SerialProofs!PaymentsConserveMoney, RowsAssumption, PTL
<1>3. SerialProofs!Spec => []SerialProofs!NewOrderAtomic
  BY SerialProofs!OrdersStayWhole, RowsAssumption, PTL
<1>4. [Serial!Next]_db => [SerialProofs!Next]_db
  BY SameNext, ZenonT(60)
<1>5. Serial!Spec => SerialProofs!Spec
  BY <1>4, SameInit, PTL DEF Serial!Spec, SerialProofs!Spec
<1> QED
  BY <1>1, <1>2, <1>3, <1>5, SameProperties, HandlersSerializable, PTL DEF Serializable

\* on_commit never names an order that is not there: with any number of requests
\* and faults, the store has an order with the lines it counts under the id a NewOrder
\* is answered with, when the answer is sent and ever after.
THEOREM AnsweredOrdersAreStored == Spec => []AnsweredOrderStored
BY StoredOrdersAreWhole, OrdersStoredAlways, HandlersKeepStore, PTL
=============================================================================
