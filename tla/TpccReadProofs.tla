--------------------------- MODULE TpccReadProofs ---------------------------
(* The inductive invariant of the TPC-C handlers, and that every entry      *)
(* point and every read callback preserves it.                              *)
EXTENDS TpccHandlers, TLAPS

----------------------------------------------------------------------------
(* The inductive invariant, as a predicate on the state of one request:     *)
(* p its callback, c its context, t its transaction, f its future, a its    *)
(* answer, n how often it was applied                                       *)

ReadCallbacks == {"on_warehouse_read", "on_district_read", "on_customer_read",
                  "on_stock_read", "sl_on_range_read"}

Callbacks == ReadCallbacks \union {"on_commit", "on_error_retry", "empty_on_commit"}

Writers == {"NewOrder", "Payment"}

\* Where a request is in its life, and what it may have been told.
Life(p, c, t, f, a, n, fl) ==
  /\ p \in Callbacks \union {"idle", "done", "lost"}
  /\ f \in {"pending", "ok", "retryable", "fatal"}
  /\ n \in Nat
  /\ p \in {"idle", "done"} => c = NoCtx /\ t = NewTransaction
  /\ p \notin {"idle", "done"} => c.kind # "none"
  /\ p # "done" => a = NoAnswer
  /\ p = "done" => a.status \in {"ok", "error"}
  /\ p \in ReadCallbacks \union {"idle"} => f = "pending"
  /\ f = "ok" => n >= 1
  /\ p = "done" /\ a.status = "ok" /\ a.kind \in Writers => n >= 1
  /\ n <= fl + 1
  /\ p # "done" /\ f # "ok" => n <= fl

Transaction(t) == DOMAIN t = {"open", "snap", "reads", "missed", "writes"}

NewOrderCtx(c) ==
  /\ DOMAIN c = {"kind", "w", "d", "c", "lines", "d_next_o_id", "s_quantity"}
  /\ c.w \in WIds /\ c.d \in Districts /\ c.c \in Customers /\ c.lines \in Orders

PaymentCtx(c) ==
  /\ DOMAIN c = {"kind", "w", "c_w", "c_d", "c", "by_name", "amount", "w_ytd", "d_ytd"}
  /\ c.w = 1 /\ c.c_w \in WIds /\ c.c_d \in Districts /\ c.c \in Customers
  /\ c.amount \in Amounts

Context(c) ==
  /\ c.kind \in Writers \union {"none", "OrderStatus", "Delivery", "StockLevel"}
  /\ c.kind = "NewOrder" => NewOrderCtx(c)
  /\ c.kind = "Payment" => PaymentCtx(c)

\* The transaction has read a row under k, with its read conflict.
HasRead(t, k) == t.open /\ k \in t.reads /\ k \in DOMAIN t.snap

\* What the reads of the chains have left in the contexts.
DistrictRead(c, t) ==
  LET k == kv_district_key(c.w, c.d)
  IN HasRead(t, k) /\ c.d_next_o_id = t.snap[k].d_next_o_id

CustomerRead(c, t) == HasRead(t, kv_customer_key(c.w, c.d, c.c))

StockKey(c, i) == kv_stock_key(SupplyW(c.w), c.lines[i].i_id)

Quantity(c, t, i) == NewQuantity(t.snap[StockKey(c, i)].s_quantity, c.lines[i].qty)

StockRead(c, t, n) ==
  /\ c.s_quantity = [i \in 1..n |-> Quantity(c, t, i)]
  /\ \A i \in 1..n : HasRead(t, StockKey(c, i))

WarehousePaid(c, t) ==
  LET k == kv_warehouse_key(c.w) IN HasRead(t, k) /\ c.w_ytd = t.snap[k].w_ytd

DistrictPaid(c, t) ==
  LET k == kv_district_key(c.c_w, c.c_d) IN HasRead(t, k) /\ c.d_ytd = t.snap[k].d_ytd

\* The buffered writes are those of a NewOrder or Payment run on the snapshot.
NewOrderWritten(c, t) ==
  /\ c.kind = "NewOrder"
  /\ DistrictRead(c, t) /\ CustomerRead(c, t) /\ StockRead(c, t, Len(c.lines))
  /\ t.writes = NewOrderWrites(c.w, c.d, c.c, c.lines, c.d_next_o_id, c.s_quantity)

PaymentWritten(c, t) ==
  LET k == kv_customer_key(c.c_w, c.c_d, c.c) IN
    /\ c.kind = "Payment"
    /\ WarehousePaid(c, t) /\ DistrictPaid(c, t) /\ HasRead(t, k)
    /\ \E now \in Times :
         t.writes = PaymentWrites(c.w, c.c_w, c.c_d, c.c, c.amount, now,
                                  c.w_ytd, c.d_ytd, t.snap[k])

\* How far the chain has come.
Chain(p, c, t) ==
  /\ Transaction(t)
  /\ Context(c)
  /\ p \in ReadCallbacks => t.writes = <<>>
  /\ t.writes = <<>> \/ NewOrderWritten(c, t) \/ PaymentWritten(c, t)
  /\ c.kind = "NewOrder" /\ p = "on_customer_read" => DistrictRead(c, t)
  /\ c.kind = "NewOrder" /\ p = "on_stock_read" =>
       /\ DistrictRead(c, t) /\ CustomerRead(c, t)
       /\ \E n \in Nat : n < Len(c.lines) /\ StockRead(c, t, n)
  /\ c.kind = "Payment" /\ p = "on_district_read" => WarehousePaid(c, t)
  /\ c.kind = "Payment" /\ p = "on_customer_read" => WarehousePaid(c, t) /\ DistrictPaid(c, t)

\* Until its commit is answered, the snapshot of a transaction differs from
\* the store at keys it has been told to have missed only.
Snapshot(t, store) ==
  t.open => \A k \in (DOMAIN t.snap \union DOMAIN store) \ t.missed :
              k \in DOMAIN t.snap /\ k \in DOMAIN store /\ t.snap[k] = store[k]

ReqInv(p, c, t, f, a, n, fl, store) ==
  /\ Life(p, c, t, f, a, n, fl)
  /\ Chain(p, c, t)
  /\ f = "pending" => Snapshot(t, store)

IInv ==
  /\ DOMAIN pc = Reqs /\ DOMAIN ctx = Reqs /\ DOMAIN tr = Reqs
  /\ DOMAIN future = Reqs /\ DOMAIN answer = Reqs
  /\ applied \in [Reqs -> Nat]
  /\ faults \in 0..MaxFaults
  /\ clock \in Times
  /\ db = [k \in DOMAIN db |-> db[k]]
  /\ \A r \in Reqs :
       ReqInv(pc[r], ctx[r], tr[r], future[r], answer[r], applied[r], faults, db)

----------------------------------------------------------------------------
(* Transactions *)

\* A transaction that was just created has read and buffered nothing.
LEMMA NewFields ==
  /\ Transaction(NewTransaction)
  /\ ~NewTransaction.open
  /\ NewTransaction.writes = <<>>
BY DEF Transaction, NewTransaction

\* fdb_transaction_get: the first read fixes the snapshot, later ones keep it.
LEMMA GetFields ==
  ASSUME NEW t, Transaction(t), NEW k, NEW store,
         NEW g, g = Get(t, k, store)
  PROVE  /\ Transaction(g)
         /\ g.open
         /\ g.snap = View(t, store)
         /\ g.reads = t.reads \union {k}
         /\ g.missed = t.missed
         /\ g.writes = t.writes
BY DEF Transaction, Get

\* s is t with writes in its buffer.
Buffered(t, s, writes) ==
  /\ Transaction(s)
  /\ s.open = t.open
  /\ s.snap = t.snap
  /\ s.reads = t.reads
  /\ s.missed = t.missed
  /\ s.writes = writes

\* fdb_transaction_set only buffers.
LEMMA SetFields ==
  ASSUME NEW t, Transaction(t), NEW writes
  PROVE  Buffered(t, [t EXCEPT !.writes = writes], writes)
BY DEF Transaction, Buffered

\* A commit of somebody else only adds to what a transaction has missed.
LEMMA MissFields ==
  ASSUME NEW t, Transaction(t), NEW keys,
         NEW m, m = Miss(t, keys)
  PROVE  /\ Transaction(m)
         /\ m.open = t.open
         /\ m.snap = t.snap
         /\ m.reads = t.reads
         /\ m.writes = t.writes
         /\ t.open => m.missed = t.missed \union keys
BY DEF Transaction, Miss

\* A transaction that has not read misses nothing.
LEMMA MissNew ==
  ASSUME NEW keys
  PROVE  Miss(NewTransaction, keys) = NewTransaction
BY DEF Miss, NewTransaction

\* The transaction after a read that found its row has read it, has what it had
\* read before, and its snapshot is as good as before.
LEMMA ReadKeeps ==
  ASSUME NEW t, Transaction(t), NEW k, NEW store, k \in DOMAIN View(t, store),
         NEW g, g = Get(t, k, store)
  PROVE  /\ HasRead(g, k)
         /\ g.snap[k] = View(t, store)[k]
         /\ \A j : HasRead(t, j) => HasRead(g, j) /\ g.snap[j] = t.snap[j]
         /\ Snapshot(t, store) => Snapshot(g, store)
<1>1. /\ g.open
      /\ g.snap = View(t, store)
      /\ g.reads = t.reads \union {k}
      /\ g.missed = t.missed
  BY GetFields
<1>2. HasRead(g, k) /\ g.snap[k] = View(t, store)[k]
  BY <1>1 DEF HasRead
<1>3. ASSUME NEW j, HasRead(t, j) PROVE HasRead(g, j) /\ g.snap[j] = t.snap[j]
  BY <1>1, <1>3 DEF HasRead, View
<1>4. ASSUME Snapshot(t, store) PROVE Snapshot(g, store)
  BY <1>1, <1>4 DEF Snapshot, View
<1> QED
  BY <1>2, <1>3, <1>4

\* fdb_transaction_commit of somebody else: the snapshot still differs from the
\* store at missed keys only.
LEMMA MissKeepsSnapshot ==
  ASSUME NEW t, Transaction(t), NEW writes, NEW store, Snapshot(t, store)
  PROVE  Snapshot(Miss(t, DOMAIN writes), Overlay(writes, store))
<1> DEFINE m == Miss(t, DOMAIN writes)
           after == Overlay(writes, store)
<1>1. m.open = t.open /\ m.snap = t.snap /\ (t.open => m.missed = t.missed \union DOMAIN writes)
  BY MissFields
<1>2. DOMAIN after = DOMAIN writes \union DOMAIN store
  BY DEF Overlay
<1>3. \A k \in DOMAIN store \ DOMAIN writes : after[k] = store[k]
  BY DEF Overlay
<1> HIDE DEF m, after
<1> QED
  BY <1>1, <1>2, <1>3 DEF Snapshot, m, after

----------------------------------------------------------------------------
(* Steps of one request *)

\* Of v, w changes only the value at r.
Only(v, w, r) == DOMAIN w = Reqs /\ \A q \in Reqs \ {r} : w[q] = v[q]

OnlyRequest(r) ==
  /\ Only(pc, pc', r)
  /\ Only(ctx, ctx', r)
  /\ Only(tr, tr', r)
  /\ Only(future, future', r)
  /\ Only(answer, answer', r)

\* The rest of a callback: store and clock are left alone, faults are counted.
Quiet ==
  /\ UNCHANGED <<db, applied, clock>>
  /\ faults' \in 0..MaxFaults
  /\ faults' >= faults

\* An assignment at r changes only r.
LEMMA OnlyExcept ==
  ASSUME NEW v, DOMAIN v = Reqs, NEW r \in Reqs, NEW x, NEW w, w = [v EXCEPT ![r] = x]
  PROVE  Only(v, w, r) /\ w[r] = x
BY DEF Only

\* No assignment changes nothing.
LEMMA OnlySame ==
  ASSUME NEW v, DOMAIN v = Reqs, NEW r \in Reqs
  PROVE  Only(v, v, r)
BY DEF Only

\* More faults allow no less.
LEMMA LifeMoreFaults ==
  ASSUME NEW p, NEW c, NEW t, NEW f, NEW a, NEW n, NEW fl \in Nat, NEW gl \in Nat, fl <= gl,
         Life(p, c, t, f, a, n, fl)
  PROVE  Life(p, c, t, f, a, n, gl)
BY DEF Life

\* A callback of one request leaves the others as they are.
LEMMA OneRequest ==
  ASSUME IInv, NEW r \in Reqs, OnlyRequest(r), Quiet,
         ReqInv(pc'[r], ctx'[r], tr'[r], future'[r], answer'[r], applied[r], faults', db)
  PROVE  IInv'
<1>1. faults \in Nat /\ faults' \in Nat /\ faults <= faults'
  BY AdapterAssumption DEF IInv, Quiet
<1>2. ASSUME NEW q \in Reqs
      PROVE  ReqInv(pc'[q], ctx'[q], tr'[q], future'[q], answer'[q], applied[q], faults', db)
  <2>1. CASE q = r
    BY <2>1
  <2>2. CASE q # r
    <3>1. /\ pc'[q] = pc[q] /\ ctx'[q] = ctx[q] /\ tr'[q] = tr[q]
          /\ future'[q] = future[q] /\ answer'[q] = answer[q]
      BY <2>2 DEF OnlyRequest, Only
    <3>2. ReqInv(pc[q], ctx[q], tr[q], future[q], answer[q], applied[q], faults, db)
      BY DEF IInv
    <3>3. ReqInv(pc[q], ctx[q], tr[q], future[q], answer[q], applied[q], faults', db)
      BY <1>1, <3>2, LifeMoreFaults DEF ReqInv
    <3> QED
      BY <3>1, <3>3
  <2> QED
    BY <2>1, <2>2
<1>3. /\ DOMAIN pc' = Reqs /\ DOMAIN ctx' = Reqs /\ DOMAIN tr' = Reqs
      /\ DOMAIN future' = Reqs /\ DOMAIN answer' = Reqs
  BY DEF OnlyRequest, Only
<1>4. applied' = applied /\ db' = db /\ clock' = clock /\ faults' \in 0..MaxFaults
  BY DEF Quiet
<1> QED
  BY <1>2, <1>3, <1>4 DEF IInv

\* The end of a chain: the answer is sent, the transaction destroyed, the
\* context freed.
LEMMA FinishInv ==
  ASSUME IInv, NEW r \in Reqs, NEW response, Finish(r, response), Quiet,
         response.status \in {"ok", "error"},
         response.status = "ok" /\ response.kind \in Writers => applied[r] >= 1
  PROVE  IInv'
<1>1. OnlyRequest(r) /\ pc'[r] = "done" /\ ctx'[r] = NoCtx /\ tr'[r] = NewTransaction
        /\ future'[r] = "pending" /\ answer'[r] = response
  BY OnlyExcept, Zenon DEF Finish, OnlyRequest, IInv
<1>2. Life(pc[r], ctx[r], tr[r], future[r], answer[r], applied[r], faults)
  BY DEF IInv, ReqInv
<1>3. faults \in Nat /\ faults' \in Nat /\ faults <= faults'
  BY AdapterAssumption DEF IInv, Quiet
<1>4. applied[r] \in Nat /\ applied[r] <= faults' + 1
  BY <1>2, <1>3 DEF Life
<1>5. Life("done", NoCtx, NewTransaction, "pending", response, applied[r], faults')
  BY <1>4 DEF Life, ReadCallbacks
<1>6. Context(NoCtx)
  BY DEF Context, NoCtx, Writers
<1>7. Chain("done", NoCtx, NewTransaction)
  BY <1>6, NewFields, SMTT(60) DEF Chain, ReadCallbacks, NoCtx
<1>8. Snapshot(NewTransaction, db)
  BY NewFields DEF Snapshot
<1> QED
  BY <1>1, <1>5, <1>7, <1>8, OneRequest DEF ReqInv

\* The fault counter within its bound.
LEMMA FaultQuiet ==
  ASSUME IInv, NEW kind, Fault(kind), UNCHANGED <<db, applied, clock>>
  PROVE  Quiet
BY AdapterAssumption DEF IInv, Fault, Quiet

\* A callback without a fault.
LEMMA NoFaultQuiet ==
  ASSUME IInv, UNCHANGED <<db, applied, clock, faults>>
  PROVE  Quiet
BY AdapterAssumption DEF IInv, Quiet

\* Where a request that waits for a future may be, it may also be lost.
LEMMA LostInv ==
  ASSUME NEW p \in Callbacks, NEW c, NEW t, NEW f, NEW a, NEW n, NEW fl, NEW store,
         ReqInv(p, c, t, f, a, n, fl, store)
  PROVE  ReqInv("lost", c, t, f, a, n, fl, store)
<1>1. p \notin {"idle", "done"}
  BY DEF Callbacks, ReadCallbacks
<1>2. Life("lost", c, t, f, a, n, fl)
  BY <1>1, SMTT(60) DEF ReqInv, Life, ReadCallbacks
<1>3. Chain("lost", c, t)
  BY DEF ReqInv, Chain, ReadCallbacks
<1> QED
  BY <1>2, <1>3 DEF ReqInv

\* More faults allow no less, for the whole invariant of a request.
LEMMA ReqInvMoreFaults ==
  ASSUME NEW p, NEW c, NEW t, NEW f, NEW a, NEW n, NEW fl \in Nat, NEW gl \in Nat, fl <= gl,
         NEW store, ReqInv(p, c, t, f, a, n, fl, store)
  PROVE  ReqInv(p, c, t, f, a, n, gl, store)
BY LifeMoreFaults DEF ReqInv

\* submit_future at the end of a callback, and what happens when it fails.
LEMMA AwaitInv ==
  ASSUME IInv, NEW r \in Reqs, NEW callback \in Callbacks, Await(r, callback),
         Only(ctx, ctx', r), Only(tr, tr', r), Only(future, future', r),
         Only(answer, answer', r), UNCHANGED <<db, applied, clock>>,
         ReqInv(callback, ctx'[r], tr'[r], future'[r], answer'[r], applied[r], faults, db)
  PROVE  IInv'
<1>1. CASE pc' = [pc EXCEPT ![r] = callback] /\ UNCHANGED faults
  <2>1. Quiet
    BY <1>1, NoFaultQuiet
  <2>2. Only(pc, pc', r) /\ pc'[r] = callback
    BY <1>1, OnlyExcept, Zenon DEF IInv
  <2>3. OnlyRequest(r)
    BY <2>2 DEF OnlyRequest
  <2>4. ReqInv(pc'[r], ctx'[r], tr'[r], future'[r], answer'[r], applied[r], faults', db)
    BY <1>1, <2>2, Zenon
  <2> QED
    BY <2>1, <2>3, <2>4, OneRequest, ZenonT(60)
<1>2. CASE pc' = [pc EXCEPT ![r] = "lost"] /\ Fault("submit")
  <2>1. Quiet
    BY <1>2, FaultQuiet
  <2>2. Only(pc, pc', r) /\ pc'[r] = "lost"
    BY <1>2, OnlyExcept, Zenon DEF IInv
  <2>3. OnlyRequest(r)
    BY <2>2 DEF OnlyRequest
  <2>4. faults \in Nat /\ faults' \in Nat /\ faults <= faults'
    BY <2>1, AdapterAssumption DEF IInv, Quiet
  <2>5. ReqInv("lost", ctx'[r], tr'[r], future'[r], answer'[r], applied[r], faults, db)
    BY LostInv, Zenon
  <2>6. ReqInv("lost", ctx'[r], tr'[r], future'[r], answer'[r], applied[r], faults', db)
    BY <2>4, <2>5, ReqInvMoreFaults, Zenon
  <2>7. ReqInv(pc'[r], ctx'[r], tr'[r], future'[r], answer'[r], applied[r], faults', db)
    BY <2>2, <2>6
  <2> QED
    BY <2>1, <2>3, <2>7, OneRequest, SMTT(60)
<1> QED
  BY <1>1, <1>2, Zenon DEF Await

\* A read that fails asks on_error, or ends a StockLevel.
LEMMA ReadFailsInv ==
  ASSUME IInv, NEW r \in Reqs, pc[r] \in ReadCallbacks, ReadFails(r),
         UNCHANGED <<db, applied, clock>>
  PROVE  IInv'
<1>1. Fault("read") /\ Quiet
  BY FaultQuiet DEF ReadFails
<1>2. CASE ctx[r].kind = "StockLevel"
  <2>1. Finish(r, Failed(r))
    BY <1>2 DEF ReadFails
  <2>2. Failed(r).status = "error"
    BY DEF Failed
  <2> QED
    BY <1>1, <2>1, <2>2, FinishInv, Zenon
<1>3. CASE ctx[r].kind # "StockLevel"
  <2>1. PICK err \in {"retryable", "fatal"} : future' = [future EXCEPT ![r] = err]
    BY <1>3 DEF ReadFails
  <2>2. UNCHANGED <<ctx, tr, answer>>
    BY <1>3 DEF ReadFails
  <2>3. PICK p \in {"on_error_retry", "lost"} : pc' = [pc EXCEPT ![r] = p]
    BY <1>3 DEF ReadFails
  <2>4. Only(pc, pc', r) /\ pc'[r] = p /\ Only(future, future', r) /\ future'[r] = err
    BY <2>1, <2>3, OnlyExcept, ZenonT(60) DEF IInv
  <2>5. OnlyRequest(r)
    BY <2>2, <2>4, OnlySame, Zenon DEF OnlyRequest, IInv
  <2>6. ReqInv(pc[r], ctx[r], tr[r], future[r], answer[r], applied[r], faults, db)
    BY Zenon DEF IInv
  <2>7. pc[r] \notin {"idle", "done"} /\ future[r] = "pending"
    BY <2>6 DEF ReqInv, Life, ReadCallbacks
  <2>8. faults \in Nat /\ faults' \in Nat /\ faults <= faults'
    BY <1>1, AdapterAssumption, SMTT(60) DEF IInv, Quiet
  <2>9. Life(p, ctx[r], tr[r], err, answer[r], applied[r], faults')
    BY <2>6, <2>7, <2>8, SMTT(60) DEF ReqInv, Life, Callbacks, ReadCallbacks
  <2>10. Chain(p, ctx[r], tr[r])
    BY <2>6 DEF ReqInv, Chain, ReadCallbacks
  <2>11. ReqInv(p, ctx[r], tr[r], err, answer[r], applied[r], faults', db)
    BY <2>9, <2>10 DEF ReqInv
  <2> QED
    BY <1>1, <2>2, <2>4, <2>5, <2>11, OneRequest, ZenonT(60)
<1> QED
  BY <1>2, <1>3, Zenon

\* A missing row ends the request with a 500.
LEMMA NoRowInv ==
  ASSUME IInv, NEW r \in Reqs, NEW k, pc[r] \in ReadCallbacks, NoRow(r, k),
         UNCHANGED <<db, applied, clock>>
  PROVE  IInv'
<1>1. CASE Finish(r, Failed(r)) /\ UNCHANGED faults
  <2>1. Failed(r).status = "error"
    BY Zenon DEF Failed
  <2> QED
    BY <1>1, <2>1, FinishInv, NoFaultQuiet, Zenon
<1> QED
  BY <1>1, ReadFailsInv DEF NoRow

\* A handler whose context or transaction cannot be made answers at once.
LEMMA CreateFailsInv ==
  ASSUME IInv, NEW r \in Reqs, NEW kind, Execute(r, kind), CreateFails(r, kind)
  PROVE  IInv'
<1>1. UNCHANGED <<tr, future, db, applied, clock, ctx>> /\ pc[r] = "idle"
  BY DEF Execute, Enter, storeVars, CreateFails
<1>2. Quiet
  BY <1>1, FaultQuiet DEF CreateFails
<1> DEFINE a == [status |-> "error", kind |-> kind]
<1>3. Only(pc, pc', r) /\ pc'[r] = "done" /\ Only(answer, answer', r) /\ answer'[r] = a
  BY OnlyExcept, Zenon DEF CreateFails, IInv
<1>4. OnlyRequest(r)
  BY <1>1, <1>3, OnlySame, SMTT(60) DEF OnlyRequest, IInv
<1>5. ReqInv(pc[r], ctx[r], tr[r], future[r], answer[r], applied[r], faults, db)
  BY DEF IInv
<1>6. faults \in Nat /\ faults' \in Nat /\ faults <= faults'
  BY <1>2, AdapterAssumption, SMTT(60) DEF IInv, Quiet
<1>7. Life("done", ctx[r], tr[r], future[r], a, applied[r], faults')
  BY <1>1, <1>5, <1>6, SMTT(60) DEF ReqInv, Life, ReadCallbacks
<1>8. Chain("done", ctx[r], tr[r])
  BY <1>5, ZenonT(60) DEF ReqInv, Chain, ReadCallbacks
<1>9. ReqInv("done", ctx[r], tr[r], future[r], a, applied[r], faults', db)
  BY <1>5, <1>7, <1>8 DEF ReqInv
<1> QED
  BY <1>1, <1>2, <1>3, <1>4, <1>9, OneRequest, ZenonT(60)

----------------------------------------------------------------------------
(* Entry points and reads *)

\* An entry point makes the context and submits the first future.
LEMMA EnterInv ==
  ASSUME IInv, NEW r \in Reqs, NEW kind, Execute(r, kind), NEW c, NEW callback \in Callbacks,
         ctx' = [ctx EXCEPT ![r] = c], Await(r, callback), UNCHANGED answer,
         c.kind # "none", Context(c), Chain(callback, c, NewTransaction)
  PROVE  IInv'
<1>1. UNCHANGED <<tr, future, db, applied, clock, answer>> /\ pc[r] = "idle"
  BY DEF Execute, Enter, storeVars
<1>2. Only(ctx, ctx', r) /\ ctx'[r] = c
  BY OnlyExcept, Zenon DEF IInv
<1>3. Only(tr, tr', r) /\ Only(future, future', r) /\ Only(answer, answer', r)
  BY <1>1, OnlySame DEF IInv
<1>4. ReqInv(pc[r], ctx[r], tr[r], future[r], answer[r], applied[r], faults, db)
  BY ZenonT(60) DEF IInv
<1>5. tr[r] = NewTransaction /\ future[r] = "pending"
  BY <1>1, <1>4 DEF ReqInv, Life
<1>6. callback \notin {"idle", "done"}
  BY Zenon DEF Callbacks, ReadCallbacks
<1>7. Life(callback, c, tr[r], future[r], answer[r], applied[r], faults)
  BY <1>1, <1>4, <1>5, <1>6, Zenon DEF ReqInv, Life
<1>8. ReqInv(callback, c, tr[r], future[r], answer[r], applied[r], faults, db)
  BY <1>4, <1>5, <1>7, ZenonT(60) DEF ReqInv
<1>9. ReqInv(callback, ctx'[r], tr'[r], future'[r], answer'[r], applied[r], faults, db)
  BY <1>1, <1>2, <1>8, SMTT(60)
<1> QED
  BY <1>1, <1>2, <1>3, <1>9, AwaitInv, ZenonT(60)

\* A read callback stores what it read and submits the next future.
LEMMA AdvanceInv ==
  ASSUME IInv, NEW r \in Reqs, NEW callback \in ReadCallbacks, NEW kind,
         OnFuture(r, callback, kind), NEW c, NEW t, NEW next \in Callbacks,
         \/ ctx' = [ctx EXCEPT ![r] = c]
         \/ ctx' = ctx /\ c = ctx[r],
         tr' = [tr EXCEPT ![r] = t], Await(r, next),
         UNCHANGED <<future, answer>>, c.kind = kind, Chain(next, c, t),
         Snapshot(tr[r], db) => Snapshot(t, db)
  PROVE  IInv'
<1>1. UNCHANGED <<future, db, applied, clock, answer>> /\ pc[r] = callback /\ ctx[r].kind = kind
  BY DEF OnFuture, Completed, storeVars
<1>2. Only(ctx, ctx', r) /\ ctx'[r] = c /\ Only(tr, tr', r) /\ tr'[r] = t
  BY OnlyExcept, OnlySame, Zenon DEF IInv
<1>3. Only(future, future', r) /\ Only(answer, answer', r)
  BY <1>1, OnlySame, SMTT(60) DEF IInv
<1>4. ReqInv(pc[r], ctx[r], tr[r], future[r], answer[r], applied[r], faults, db)
  BY DEF IInv
<1>5. next \notin {"idle", "done"} /\ callback \notin {"idle", "done"}
  BY Zenon DEF Callbacks, ReadCallbacks
<1>6. Life(next, c, t, future[r], answer[r], applied[r], faults)
  BY <1>1, <1>4, <1>5, Zenon DEF ReqInv, Life
<1>7. ReqInv(next, c, t, future[r], answer[r], applied[r], faults, db)
  BY <1>4, <1>6, Zenon DEF ReqInv
<1>8. ReqInv(next, ctx'[r], tr'[r], future'[r], answer'[r], applied[r], faults, db)
  BY <1>1, <1>2, <1>7, Zenon
<1> QED
  BY <1>1, <1>2, <1>3, <1>8, AwaitInv, ZenonT(60)

\* The entry points new_order_execute to stock_level_execute.
LEMMA ExecuteInv ==
  ASSUME IInv, NEW r \in Reqs,
         \/ NewOrderExecute(r)
         \/ PaymentExecute(r)
         \/ OrderStatusExecute(r)
         \/ DeliveryExecute(r)
         \/ StockLevelExecute(r)
  PROVE  IInv'
<1> USE NewFields
<1>1. CASE NewOrderExecute(r)
  <2>1. Execute(r, "NewOrder")
    BY <1>1 DEF NewOrderExecute
  <2>2. CASE CreateFails(r, "NewOrder")
    BY <2>1, <2>2, CreateFailsInv
  <2>3. CASE ~CreateFails(r, "NewOrder")
    <3>1. PICK w \in WIds, d \in Districts, c \in Customers, lines \in Orders :
            ctx' = [ctx EXCEPT ![r] =
                      [kind |-> "NewOrder", w |-> w, d |-> d, c |-> c, lines |-> lines,
                       d_next_o_id |-> 0, s_quantity |-> <<>>]]
      BY <1>1, <2>3, Zenon DEF NewOrderExecute
    <3> DEFINE n == [kind |-> "NewOrder", w |-> w, d |-> d, c |-> c, lines |-> lines,
                     d_next_o_id |-> 0, s_quantity |-> <<>>]
    <3>2. n.kind = "NewOrder" /\ NewOrderCtx(n)
      BY Zenon DEF NewOrderCtx
    <3>3. ctx' = [ctx EXCEPT ![r] = n]
      BY <3>1, Zenon
    <3> HIDE DEF n
    <3>4. Context(n)
      BY <3>2, Zenon DEF Context, Writers
    <3>5. Chain("on_district_read", n, NewTransaction)
      BY <3>2, <3>4, Zenon DEF Chain
    <3>6. Await(r, "on_district_read") /\ UNCHANGED answer
      BY <1>1, <2>3, Zenon DEF NewOrderExecute
    <3>7. "on_district_read" \in Callbacks
      BY Zenon DEF Callbacks, ReadCallbacks
    <3> QED
      BY <2>1, <3>2, <3>3, <3>4, <3>5, <3>6, <3>7, EnterInv, ZenonT(60)
  <2> QED
    BY <2>2, <2>3, ZenonT(60)
<1>2. CASE PaymentExecute(r)
  <2>1. Execute(r, "Payment")
    BY <1>2, Zenon DEF PaymentExecute
  <2>2. CASE CreateFails(r, "Payment")
    BY <2>1, <2>2, CreateFailsInv
  <2>3. CASE ~CreateFails(r, "Payment")
    <3>1. PICK cw \in WIds, cd \in Districts, c \in Customers,
               amount \in Amounts, by_name \in BOOLEAN :
            ctx' = [ctx EXCEPT ![r] =
                      [kind |-> "Payment", w |-> 1, c_w |-> cw, c_d |-> cd, c |-> c,
                       by_name |-> by_name, amount |-> amount, w_ytd |-> 0, d_ytd |-> 0]]
      BY <1>2, <2>3, Zenon DEF PaymentExecute
    <3> DEFINE n == [kind |-> "Payment", w |-> 1, c_w |-> cw, c_d |-> cd, c |-> c,
                     by_name |-> by_name, amount |-> amount, w_ytd |-> 0, d_ytd |-> 0]
    <3>2. n.kind = "Payment" /\ PaymentCtx(n)
      BY Zenon DEF PaymentCtx
    <3>3. ctx' = [ctx EXCEPT ![r] = n]
      BY <3>1, Zenon
    <3> HIDE DEF n
    <3>4. Context(n)
      BY <3>2, Zenon DEF Context, Writers
    <3>5. Chain("on_warehouse_read", n, NewTransaction)
      BY <3>2, <3>4, Zenon DEF Chain
    <3>6. Await(r, "on_warehouse_read") /\ UNCHANGED answer
      BY <1>2, <2>3, Zenon DEF PaymentExecute
    <3>7. "on_warehouse_read" \in Callbacks
      BY Zenon DEF Callbacks, ReadCallbacks
    <3> QED
      BY <2>1, <3>2, <3>3, <3>4, <3>5, <3>6, <3>7, EnterInv, ZenonT(60)
  <2> QED
    BY <2>2, <2>3, Zenon
<1>3. ASSUME NEW kind \in {"OrderStatus", "Delivery"}, EmptyExecute(r, kind) PROVE IInv'
  <2>1. Execute(r, kind)
    BY <1>3, Zenon DEF EmptyExecute
  <2>2. CASE CreateFails(r, kind)
    BY <2>1, <2>2, CreateFailsInv
  <2>3. CASE ~CreateFails(r, kind)
    <3> DEFINE n == [kind |-> kind]
    <3>1. ctx' = [ctx EXCEPT ![r] = n] /\ Await(r, "empty_on_commit") /\ UNCHANGED answer
      BY <1>3, <2>3, Zenon DEF EmptyExecute
    <3>2. n.kind = kind
      BY Zenon
    <3> HIDE DEF n
    <3>3. Context(n)
      BY <3>2, Zenon DEF Context, Writers
    <3>4. Chain("empty_on_commit", n, NewTransaction)
      BY <3>2, <3>3 DEF Chain
    <3>5. "empty_on_commit" \in Callbacks
      BY DEF Callbacks
    <3> QED
      BY <2>1, <3>1, <3>2, <3>3, <3>4, <3>5, EnterInv, ZenonT(60)
  <2> QED
    BY <2>2, <2>3, Zenon
<1>4. CASE StockLevelExecute(r)
  <2>1. Execute(r, "StockLevel")
    BY <1>4, Zenon DEF StockLevelExecute
  <2>2. CASE CreateFails(r, "StockLevel")
    BY <2>1, <2>2, CreateFailsInv
  <2>3. CASE ~CreateFails(r, "StockLevel")
    <3>1. PICK threshold \in Thresholds :
            ctx' = [ctx EXCEPT ![r] = [kind |-> "StockLevel", threshold |-> threshold]]
      BY <1>4, <2>3, SMTT(60) DEF StockLevelExecute
    <3> DEFINE n == [kind |-> "StockLevel", threshold |-> threshold]
    <3>2. n.kind = "StockLevel"
      BY SMTT(60)
    <3>3. ctx' = [ctx EXCEPT ![r] = n]
      BY <3>1
    <3> HIDE DEF n
    <3>4. Context(n)
      BY <3>2, Zenon DEF Context, Writers
    <3>5. Chain("sl_on_range_read", n, NewTransaction)
      BY <3>2, <3>4, Zenon DEF Chain
    <3>6. Await(r, "sl_on_range_read") /\ UNCHANGED answer
      BY <1>4, <2>3, Zenon DEF StockLevelExecute
    <3>7. "sl_on_range_read" \in Callbacks
      BY DEF Callbacks, ReadCallbacks
    <3> QED
      BY <2>1, <3>2, <3>3, <3>4, <3>5, <3>6, <3>7, EnterInv, ZenonT(60)
  <2> QED
    BY <2>2, <2>3, Zenon
<1> QED
  BY <1>1, <1>2, <1>3, <1>4, Zenon DEF OrderStatusExecute, DeliveryExecute

\* Later has read what t has, from the same snapshot.
Later(t, g) == \A j : HasRead(t, j) => HasRead(g, j) /\ g.snap[j] = t.snap[j]

\* What a read callback starts from, and g, the transaction after its read.
Started(r, k, g, callback, kind) ==
  /\ Context(ctx[r]) /\ ctx[r].kind = kind
  /\ Chain(callback, ctx[r], tr[r])
  /\ Transaction(g) /\ g.writes = <<>>
  /\ HasRead(g, k) /\ g.snap[k] = Row(r, k)
  /\ Later(tr[r], g)
  /\ Snapshot(tr[r], db) => Snapshot(g, db)

\* A read callback whose row is present starts from there.
LEMMA ReadStart ==
  ASSUME IInv, NEW r \in Reqs, NEW callback \in ReadCallbacks, NEW kind,
         OnFuture(r, callback, kind), NEW k, Present(r, k)
  PROVE  Started(r, k, AfterRead(r, k), callback, kind)
<1> DEFINE g == AfterRead(r, k)
<1>1. pc[r] = callback /\ ctx[r].kind = kind
  BY DEF OnFuture, Completed
<1>2. Chain(callback, ctx[r], tr[r])
  BY <1>1, Zenon DEF IInv, ReqInv
<1>3. Transaction(tr[r]) /\ Context(ctx[r]) /\ tr[r].writes = <<>>
  BY <1>2, Zenon DEF Chain
<1>4. Transaction(g) /\ g.writes = <<>>
  BY <1>3, GetFields DEF AfterRead
<1>5. k \in DOMAIN View(tr[r], db)
  BY ZenonT(60) DEF Present
<1>6. /\ HasRead(g, k)
      /\ g.snap[k] = View(tr[r], db)[k]
      /\ \A j : HasRead(tr[r], j) => HasRead(g, j) /\ g.snap[j] = tr[r].snap[j]
      /\ Snapshot(tr[r], db) => Snapshot(g, db)
  BY <1>3, <1>5, ReadKeeps, SMTT(60) DEF AfterRead
<1>7. Started(r, k, g, callback, kind)
  <2> HIDE DEF g
  <2> QED
    BY <1>1, <1>2, <1>3, <1>4, <1>6, Zenon DEF Row, Later, Started
<1> QED
  BY <1>7

\* on_district_read of NewOrder keeps d_next_o_id as the snapshot has it.
LEMMA NewOrderOnDistrictReadInv ==
  ASSUME IInv, NEW r \in Reqs, NewOrderOnDistrictRead(r)
  PROVE  IInv'
<1> DEFINE k == kv_district_key(ctx[r].w, ctx[r].d)
           g == AfterRead(r, k)
           c == [ctx[r] EXCEPT !.d_next_o_id = Row(r, k).d_next_o_id]
<1>1. OnFuture(r, "on_district_read", "NewOrder") /\ "on_district_read" \in ReadCallbacks
  BY DEF NewOrderOnDistrictRead, ReadCallbacks
<1>2. pc[r] \in ReadCallbacks /\ UNCHANGED <<db, applied, clock>>
  BY <1>1, Zenon DEF OnFuture, Completed, storeVars
<1>3. CASE NoRow(r, k)
  BY <1>2, <1>3, NoRowInv
<1>4. CASE ~NoRow(r, k)
  <2>1. /\ Present(r, k) /\ UNCHANGED <<future, answer>>
        /\ ctx' = [ctx EXCEPT ![r] = c]
        /\ tr' = [tr EXCEPT ![r] = g]
        /\ Await(r, "on_customer_read")
    BY <1>4, ZenonT(60) DEF NewOrderOnDistrictRead, RowPresent
  <2>2. /\ Context(ctx[r]) /\ ctx[r].kind = "NewOrder"
        /\ Transaction(g) /\ g.writes = <<>>
        /\ HasRead(g, k) /\ g.snap[k] = Row(r, k)
        /\ Snapshot(tr[r], db) => Snapshot(g, db)
    <3>1. Started(r, k, g, "on_district_read", "NewOrder")
      BY <1>1, <2>1, ReadStart, ZenonT(60)
    <3> QED
      BY <3>1 DEF Started
  <2>3. /\ NewOrderCtx(c) /\ c.kind = "NewOrder" /\ c.w = ctx[r].w /\ c.d = ctx[r].d
        /\ c.d_next_o_id = Row(r, k).d_next_o_id
    BY <2>2 DEF Context, NewOrderCtx
  <2>4. k = kv_district_key(c.w, c.d)
    BY <2>3, Zenon
  <2> HIDE DEF k, g, c
  <2>5. DistrictRead(c, g)
    BY <2>2, <2>3, <2>4, ZenonT(60) DEF DistrictRead
  <2>6. Chain("on_customer_read", c, g)
    BY <2>2, <2>3, <2>5, SMTT(60) DEF Chain, Context, Writers
  <2>7. "on_customer_read" \in Callbacks
    BY Zenon DEF Callbacks, ReadCallbacks
  <2> QED
    BY <1>1, <2>1, <2>2, <2>3, <2>6, <2>7, AdvanceInv, ZenonT(60)
<1> QED
  BY <1>3, <1>4

\* start_stock_reads, after the read of the customer or of a stock row.
LEMMA StartStockReadsInv ==
  ASSUME IInv, NEW r \in Reqs, NEW callback \in ReadCallbacks,
         OnFuture(r, callback, "NewOrder"), NEW c, NEW t, UNCHANGED <<future, answer>>,
         StartStockReads(r, c, t), c.kind = "NewOrder", NewOrderCtx(c),
         Transaction(t), t.writes = <<>>, Snapshot(tr[r], db) => Snapshot(t, db),
         DistrictRead(c, t), CustomerRead(c, t),
         NEW n \in Nat, n <= Len(c.lines), StockRead(c, t, n), Len(c.s_quantity) = n
  PROVE  IInv'
<1>1. Context(c)
  BY ZenonT(60) DEF Context, Writers
<1>2. Len(c.lines) \in Nat
  BY RowsAssumption DEF NewOrderCtx
<1>3. CASE Len(c.s_quantity) >= Len(c.lines)
  <2> DEFINE writes == NewOrderWrites(c.w, c.d, c.c, c.lines, c.d_next_o_id, c.s_quantity)
             s == [t EXCEPT !.writes = writes]
  <2>1. /\ ctx' = [ctx EXCEPT ![r] = c]
        /\ tr' = [tr EXCEPT ![r] = s]
        /\ Await(r, "on_commit")
    BY <1>3 DEF StartStockReads
  <2> HIDE DEF writes
  <2>2. /\ Transaction(s) /\ s.open = t.open /\ s.snap = t.snap /\ s.reads = t.reads
        /\ s.missed = t.missed /\ s.writes = writes
    <3>1. Buffered(t, s, writes)
      BY SetFields, Zenon
    <3> QED
      BY <3>1 DEF Buffered
  <2> HIDE DEF s
  <2>3. DistrictRead(c, s) /\ CustomerRead(c, s)
    BY <2>2, ZenonT(60) DEF DistrictRead, CustomerRead, HasRead
  <2>4. n = Len(c.lines)
    BY <1>2, <1>3, SMTT(60)
  <2>5. StockRead(c, s, n)
    BY <2>2, Zenon DEF StockRead, Quantity, HasRead
  <2>6. NewOrderWritten(c, s)
    BY <2>2, <2>3, <2>4, <2>5, Zenon DEF NewOrderWritten, writes
  <2>7. Chain("on_commit", c, s)
    BY <1>1, <2>2, <2>6, Zenon DEF Chain, ReadCallbacks
  <2>8. Snapshot(tr[r], db) => Snapshot(s, db)
    BY <2>2, ZenonT(60) DEF Snapshot
  <2>9. "on_commit" \in Callbacks
    BY DEF Callbacks
  <2> QED
    BY <2>1, <2>7, <2>8, <2>9, AdvanceInv, ZenonT(60)
<1>4. CASE ~(Len(c.s_quantity) >= Len(c.lines))
  <2>1. /\ ctx' = [ctx EXCEPT ![r] = c]
        /\ tr' = [tr EXCEPT ![r] = t]
        /\ Await(r, "on_stock_read")
    BY <1>4, Zenon DEF StartStockReads
  <2>2. n < Len(c.lines)
    BY <1>2, <1>4, SMTT(60)
  <2>3. Chain("on_stock_read", c, t)
    BY <1>1, <2>2, ZenonT(60) DEF Chain
  <2>4. "on_stock_read" \in Callbacks
    BY DEF Callbacks, ReadCallbacks
  <2> QED
    BY <2>1, <2>3, <2>4, AdvanceInv, Zenon
<1> QED
  BY <1>3, <1>4, Zenon

\* on_customer_read of NewOrder goes on to the stock reads.
LEMMA NewOrderOnCustomerReadInv ==
  ASSUME IInv, NEW r \in Reqs, NewOrderOnCustomerRead(r)
  PROVE  IInv'
<1> DEFINE k == kv_customer_key(ctx[r].w, ctx[r].d, ctx[r].c)
           g == AfterRead(r, k)
           c == [ctx[r] EXCEPT !.s_quantity = <<>>]
<1>1. OnFuture(r, "on_customer_read", "NewOrder") /\ "on_customer_read" \in ReadCallbacks
  BY Zenon DEF NewOrderOnCustomerRead, ReadCallbacks
<1>2. pc[r] \in ReadCallbacks /\ UNCHANGED <<db, applied, clock>>
  BY <1>1, Zenon DEF OnFuture, Completed, storeVars
<1>3. CASE NoRow(r, k)
  BY <1>2, <1>3, NoRowInv, Zenon
<1>4. CASE ~NoRow(r, k)
  <2>1. Present(r, k) /\ UNCHANGED <<future, answer>> /\ StartStockReads(r, c, g)
    BY <1>4, SMTT(30) DEF NewOrderOnCustomerRead, RowPresent
  <2>2. /\ Context(ctx[r]) /\ ctx[r].kind = "NewOrder"
        /\ Chain("on_customer_read", ctx[r], tr[r])
        /\ Transaction(g) /\ g.writes = <<>>
        /\ HasRead(g, k)
        /\ Later(tr[r], g)
        /\ Snapshot(tr[r], db) => Snapshot(g, db)
    <3>1. Started(r, k, g, "on_customer_read", "NewOrder")
      BY <1>1, <2>1, ReadStart, ZenonT(60)
    <3> QED
      BY <3>1, Zenon DEF Started
  <2>3. /\ NewOrderCtx(c) /\ c.kind = "NewOrder" /\ c.w = ctx[r].w /\ c.d = ctx[r].d
        /\ c.c = ctx[r].c /\ c.d_next_o_id = ctx[r].d_next_o_id /\ c.s_quantity = <<>>
    BY <2>2, SMTT(30) DEF Context, NewOrderCtx
  <2>4. DistrictRead(ctx[r], tr[r])
    BY <2>2, Zenon DEF Chain
  <2>5. k = kv_customer_key(c.w, c.d, c.c)
    BY <2>3, Zenon
  <2> HIDE DEF k, g, c
  <2>6. DistrictRead(c, g)
    BY <2>2, <2>3, <2>4, Zenon DEF DistrictRead, Later
  <2>7. CustomerRead(c, g)
    BY <2>2, <2>5, Zenon DEF CustomerRead
  <2>8. StockRead(c, g, 0) /\ Len(c.s_quantity) = 0
    BY <2>3, SMTT(60) DEF StockRead
  <2>9. 0 <= Len(c.lines)
    BY <2>3, RowsAssumption, SMTT(60) DEF NewOrderCtx
  <2> QED
    BY <1>1, <2>1, <2>2, <2>3, <2>6, <2>7, <2>8, <2>9, StartStockReadsInv, ZenonT(60)
<1> QED
  BY <1>3, <1>4

\* Sequences given as functions on 1..n.
LEMMA FunctionAppend ==
  ASSUME NEW n \in Nat, NEW s, s = [i \in 1..n |-> s[i]], NEW x
  PROVE  Len(s) = n /\ Append(s, x) = [i \in 1..n+1 |-> IF i = n + 1 THEN x ELSE s[i]]
<1> DEFINE S == {s[i] : i \in 1..n} \union {x}
<1>1. s \in [1..n -> S]
  OBVIOUS
<1>2. s \in Seq(S) /\ x \in S
  BY <1>1
<1> HIDE DEF S
<1>3. DOMAIN s = 1..n
  BY <1>1
<1>4. Len(s) = n
  BY <1>2, <1>3
<1>5. Append(s, x) \in Seq(S) /\ Len(Append(s, x)) = n + 1
  BY <1>2, <1>4
<1>6. \A i \in 1..n+1 : Append(s, x)[i] = IF i = n + 1 THEN x ELSE s[i]
  BY <1>2, <1>4
<1>7. Append(s, x) = [i \in 1..n+1 |-> Append(s, x)[i]]
  BY <1>5, SMTT(60)
<1> QED
  BY <1>4, <1>6, <1>7, SMTT(60)

\* on_stock_read adds one quantity, computed from the snapshot.
LEMMA NewOrderOnStockReadInv ==
  ASSUME IInv, NEW r \in Reqs, NewOrderOnStockRead(r)
  PROVE  IInv'
<1> DEFINE line == ctx[r].lines[Len(ctx[r].s_quantity) + 1]
           k == kv_stock_key(SupplyW(ctx[r].w), line.i_id)
           g == AfterRead(r, k)
           q == NewQuantity(Row(r, k).s_quantity, line.qty)
           c == [ctx[r] EXCEPT !.s_quantity = Append(@, q)]
<1>1. OnFuture(r, "on_stock_read", "NewOrder") /\ "on_stock_read" \in ReadCallbacks
  BY DEF NewOrderOnStockRead, ReadCallbacks
<1>2. pc[r] \in ReadCallbacks /\ UNCHANGED <<db, applied, clock>>
  BY <1>1, Zenon DEF OnFuture, Completed, storeVars
<1>3. CASE NoRow(r, k)
  BY <1>2, <1>3, NoRowInv, SMTT(30)
<1>4. CASE ~NoRow(r, k)
  <2>1. Present(r, k) /\ UNCHANGED <<future, answer>> /\ StartStockReads(r, c, g)
    BY <1>4, ZenonT(60) DEF NewOrderOnStockRead, RowPresent
  <2> HIDE DEF k
  <2>2. /\ Context(ctx[r]) /\ ctx[r].kind = "NewOrder"
        /\ Chain("on_stock_read", ctx[r], tr[r])
        /\ Transaction(g) /\ g.writes = <<>>
        /\ HasRead(g, k) /\ g.snap[k] = Row(r, k)
        /\ Later(tr[r], g)
        /\ Snapshot(tr[r], db) => Snapshot(g, db)
    <3>1. Started(r, k, g, "on_stock_read", "NewOrder")
      BY <1>1, <2>1, ReadStart, Zenon
    <3> QED
      BY <3>1 DEF Started
  <2>3. DistrictRead(ctx[r], tr[r]) /\ CustomerRead(ctx[r], tr[r])
    BY <2>2, Zenon DEF Chain
  <2>4. PICK n \in Nat : n < Len(ctx[r].lines) /\ StockRead(ctx[r], tr[r], n)
    BY <2>2, Zenon DEF Chain
  <2>5. /\ NewOrderCtx(c) /\ c.kind = "NewOrder" /\ c.w = ctx[r].w /\ c.d = ctx[r].d
        /\ c.c = ctx[r].c /\ c.lines = ctx[r].lines /\ c.d_next_o_id = ctx[r].d_next_o_id
        /\ c.s_quantity = Append(ctx[r].s_quantity, q)
    BY <2>2, Zenon DEF Context, NewOrderCtx
  <2> HIDE DEF c
  <2>6. ctx[r].s_quantity = [i \in 1..n |-> Quantity(ctx[r], tr[r], i)]
    BY <2>4, Zenon DEF StockRead
  <2>7. ctx[r].s_quantity = [i \in 1..n |-> ctx[r].s_quantity[i]]
    BY <2>6, ZenonT(60)
  <2>8. /\ Len(ctx[r].s_quantity) = n
        /\ c.s_quantity = [i \in 1..n+1 |-> IF i = n + 1 THEN q ELSE ctx[r].s_quantity[i]]
    BY <2>5, <2>7, FunctionAppend, SMTT(60)
  <2>9. k = StockKey(c, n + 1) /\ q = Quantity(c, g, n + 1)
    BY <2>2, <2>5, <2>8, Zenon DEF StockKey, Quantity, k
  <2> HIDE DEF line, g, q
  <2>10. ASSUME NEW i \in 1..n
         PROVE  HasRead(g, StockKey(c, i)) /\ Quantity(ctx[r], tr[r], i) = Quantity(c, g, i)
    <3>1. HasRead(tr[r], StockKey(ctx[r], i))
      BY <2>4, Zenon DEF StockRead
    <3>2. StockKey(c, i) = StockKey(ctx[r], i) /\ c.lines[i] = ctx[r].lines[i]
      BY <2>5, Zenon DEF StockKey
    <3>3. HasRead(g, StockKey(c, i)) /\ g.snap[StockKey(c, i)] = tr[r].snap[StockKey(ctx[r], i)]
      BY <2>2, <3>1, <3>2, Zenon DEF Later
    <3> QED
      BY <3>2, <3>3, Zenon DEF Quantity
  <2>11. ASSUME NEW i \in 1..n+1
         PROVE  /\ HasRead(g, StockKey(c, i))
                /\ (IF i = n + 1 THEN q ELSE ctx[r].s_quantity[i]) = Quantity(c, g, i)
    <3>1. CASE i = n + 1
      BY <2>2, <2>9, <3>1, Zenon
    <3>2. CASE i # n + 1
      <4>1. i \in 1..n
        BY <3>2, SMTT(60)
      <4>2. ctx[r].s_quantity[i] = Quantity(ctx[r], tr[r], i)
        BY <2>6, <4>1, Zenon
      <4> QED
        BY <2>10, <3>2, <4>1, <4>2, Zenon
    <3> QED
      BY <3>1, <3>2, Zenon
  <2>12. c.s_quantity = [i \in 1..n+1 |-> Quantity(c, g, i)]
    BY <2>8, <2>11, Zenon
  <2>13. StockRead(c, g, n + 1)
    BY <2>11, <2>12, Zenon DEF StockRead
  <2>14. Len(c.s_quantity) = n + 1
    <3>1. c.s_quantity = [i \in 1..n+1 |-> c.s_quantity[i]]
      BY <2>12, ZenonT(60)
    <3> QED
      BY <3>1, FunctionAppend, SMTT(60)
  <2>15. n + 1 \in Nat /\ n + 1 <= Len(c.lines)
    BY <2>4, <2>5, RowsAssumption, SMTT(60) DEF NewOrderCtx
  <2>16. DistrictRead(c, g) /\ CustomerRead(c, g)
    BY <2>2, <2>3, <2>5, Zenon DEF DistrictRead, CustomerRead, Later
  <2> QED
    BY <1>1, <2>1, <2>2, <2>5, <2>13, <2>14, <2>15, <2>16, StartStockReadsInv, ZenonT(60)
<1> QED
  BY <1>3, <1>4, ZenonT(60)

\* on_warehouse_read of Payment keeps w_ytd as the snapshot has it.
LEMMA PaymentOnWarehouseReadInv ==
  ASSUME IInv, NEW r \in Reqs, PaymentOnWarehouseRead(r)
  PROVE  IInv'
<1> DEFINE k == kv_warehouse_key(ctx[r].w)
           g == AfterRead(r, k)
           c == [ctx[r] EXCEPT !.w_ytd = Row(r, k).w_ytd]
<1>1. OnFuture(r, "on_warehouse_read", "Payment") /\ "on_warehouse_read" \in ReadCallbacks
  BY Zenon DEF PaymentOnWarehouseRead, ReadCallbacks
<1>2. pc[r] \in ReadCallbacks /\ UNCHANGED <<db, applied, clock>>
  BY <1>1, Zenon DEF OnFuture, Completed, storeVars
<1>3. CASE NoRow(r, k)
  BY <1>2, <1>3, NoRowInv
<1>4. CASE ~NoRow(r, k)
  <2>1. /\ Present(r, k) /\ UNCHANGED <<future, answer>>
        /\ ctx' = [ctx EXCEPT ![r] = c]
        /\ tr' = [tr EXCEPT ![r] = g]
        /\ Await(r, "on_district_read")
    BY <1>4, ZenonT(60) DEF PaymentOnWarehouseRead, RowPresent
  <2>2. /\ Context(ctx[r]) /\ ctx[r].kind = "Payment"
        /\ Transaction(g) /\ g.writes = <<>>
        /\ HasRead(g, k) /\ g.snap[k] = Row(r, k)
        /\ Snapshot(tr[r], db) => Snapshot(g, db)
    <3>1. Started(r, k, g, "on_warehouse_read", "Payment")
      BY <1>1, <2>1, ReadStart, Zenon
    <3> QED
      BY <3>1 DEF Started
  <2>3. /\ PaymentCtx(c) /\ c.kind = "Payment" /\ c.w = ctx[r].w
        /\ c.w_ytd = Row(r, k).w_ytd
    BY <2>2 DEF Context, PaymentCtx
  <2>4. k = kv_warehouse_key(c.w)
    BY <2>3, ZenonT(60)
  <2> HIDE DEF k, g, c
  <2>5. WarehousePaid(c, g)
    BY <2>2, <2>3, <2>4, SMTT(30) DEF WarehousePaid
  <2>6. Chain("on_district_read", c, g)
    BY <2>2, <2>3, <2>5, Zenon DEF Chain, Context, Writers
  <2>7. "on_district_read" \in Callbacks
    BY DEF Callbacks, ReadCallbacks
  <2> QED
    BY <1>1, <2>1, <2>2, <2>3, <2>6, <2>7, AdvanceInv, ZenonT(60)
<1> QED
  BY <1>3, <1>4

\* on_district_read of Payment keeps d_ytd and may draw the customer.
LEMMA PaymentOnDistrictReadInv ==
  ASSUME IInv, NEW r \in Reqs, PaymentOnDistrictRead(r)
  PROVE  IInv'
<1> DEFINE k == kv_district_key(ctx[r].c_w, ctx[r].c_d)
           g == AfterRead(r, k)
<1>1. OnFuture(r, "on_district_read", "Payment") /\ "on_district_read" \in ReadCallbacks
  BY Zenon DEF PaymentOnDistrictRead, ReadCallbacks
<1>2. pc[r] \in ReadCallbacks /\ UNCHANGED <<db, applied, clock>>
  BY <1>1, ZenonT(60) DEF OnFuture, Completed, storeVars
<1>3. CASE NoRow(r, k)
  BY <1>2, <1>3, NoRowInv
<1>4. CASE ~NoRow(r, k)
  <2>1. PICK d \in IF ctx[r].by_name THEN Customers ELSE {ctx[r].c} :
          ctx' = [ctx EXCEPT ![r].d_ytd = Row(r, k).d_ytd, ![r].c = d]
    BY <1>4, SMTT(60) DEF PaymentOnDistrictRead
  <2> DEFINE c == [ctx[r] EXCEPT !.d_ytd = Row(r, k).d_ytd, !.c = d]
  <2>2. /\ Present(r, k) /\ UNCHANGED <<future, answer>>
        /\ tr' = [tr EXCEPT ![r] = g]
        /\ Await(r, "on_customer_read")
    BY <1>4, SMTT(30) DEF PaymentOnDistrictRead, RowPresent
  <2>3. /\ Context(ctx[r]) /\ ctx[r].kind = "Payment"
        /\ Chain("on_district_read", ctx[r], tr[r])
        /\ Transaction(g) /\ g.writes = <<>>
        /\ HasRead(g, k) /\ g.snap[k] = Row(r, k)
        /\ Later(tr[r], g)
        /\ Snapshot(tr[r], db) => Snapshot(g, db)
    <3>1. Started(r, k, g, "on_district_read", "Payment")
      BY <1>1, <2>2, ReadStart, ZenonT(60)
    <3> QED
      BY <3>1, ZenonT(60) DEF Started
  <2>4. d \in Customers
    BY <2>1, <2>3, SMTT(60) DEF Context, PaymentCtx
  <2>5. /\ PaymentCtx(c) /\ c.kind = "Payment" /\ c.w = ctx[r].w /\ c.w_ytd = ctx[r].w_ytd
        /\ c.c_w = ctx[r].c_w /\ c.c_d = ctx[r].c_d
        /\ c.d_ytd = Row(r, k).d_ytd
    BY <2>3, <2>4 DEF Context, PaymentCtx
  <2>6. ctx' = [ctx EXCEPT ![r] = c]
    BY <2>1, Zenon DEF IInv
  <2>7. WarehousePaid(ctx[r], tr[r])
    BY <2>3, Zenon DEF Chain
  <2>8. k = kv_district_key(c.c_w, c.c_d)
    BY <2>5, Zenon
  <2> HIDE DEF k, g, c
  <2>9. WarehousePaid(c, g)
    BY <2>3, <2>5, <2>7, Zenon DEF WarehousePaid, Later
  <2>10. DistrictPaid(c, g)
    BY <2>3, <2>5, <2>8, Zenon DEF DistrictPaid
  <2>11. Chain("on_customer_read", c, g)
    BY <2>3, <2>5, <2>9, <2>10, ZenonT(60) DEF Chain, Context, Writers
  <2>12. "on_customer_read" \in Callbacks
    BY DEF Callbacks, ReadCallbacks
  <2> QED
    BY <1>1, <2>2, <2>3, <2>5, <2>6, <2>11, <2>12, AdvanceInv, ZenonT(60)
<1> QED
  BY <1>3, <1>4

\* on_customer_read of Payment buffers writes computed from the snapshot.
LEMMA PaymentOnCustomerReadInv ==
  ASSUME IInv, NEW r \in Reqs, PaymentOnCustomerRead(r)
  PROVE  IInv'
<1> DEFINE c == ctx[r]
           k == kv_customer_key(c.c_w, c.c_d, c.c)
           g == AfterRead(r, k)
           writes == PaymentWrites(c.w, c.c_w, c.c_d, c.c, c.amount, clock,
                                   c.w_ytd, c.d_ytd, Row(r, k))
           s == [g EXCEPT !.writes = writes]
<1>1. OnFuture(r, "on_customer_read", "Payment") /\ "on_customer_read" \in ReadCallbacks
  BY DEF PaymentOnCustomerRead, ReadCallbacks
<1>2. pc[r] \in ReadCallbacks /\ UNCHANGED <<db, applied, clock>>
  BY <1>1, Zenon DEF OnFuture, Completed, storeVars
<1>3. CASE NoRow(r, k)
  BY <1>2, <1>3, NoRowInv, Zenon
<1>4. CASE ~NoRow(r, k)
  <2>1. /\ Present(r, k) /\ UNCHANGED <<future, answer, ctx>>
        /\ tr' = [tr EXCEPT ![r] = s]
        /\ Await(r, "on_commit")
    BY <1>4, SMTT(30) DEF PaymentOnCustomerRead, RowPresent
  <2>2. /\ Context(c) /\ c.kind = "Payment"
        /\ Chain("on_customer_read", c, tr[r])
        /\ Transaction(g)
        /\ HasRead(g, k) /\ g.snap[k] = Row(r, k)
        /\ Later(tr[r], g)
        /\ Snapshot(tr[r], db) => Snapshot(g, db)
    <3>1. Started(r, k, g, "on_customer_read", "Payment")
      BY <1>1, <2>1, ReadStart, Zenon
    <3> QED
      BY <3>1, Zenon DEF Started
  <2>3. WarehousePaid(c, tr[r]) /\ DistrictPaid(c, tr[r])
    BY <2>2, Zenon DEF Chain
  <2> HIDE DEF g, writes
  <2>4. /\ Transaction(s) /\ s.open = g.open /\ s.snap = g.snap /\ s.reads = g.reads
        /\ s.missed = g.missed /\ s.writes = writes
    <3>1. Buffered(g, s, writes)
      BY <2>2, SetFields, SMTT(30)
    <3> QED
      BY <3>1, SMTT(60) DEF Buffered
  <2> HIDE DEF s
  <2>5. WarehousePaid(c, g) /\ DistrictPaid(c, g)
    BY <2>2, <2>3, ZenonT(60) DEF WarehousePaid, DistrictPaid, Later
  <2>6. WarehousePaid(c, s) /\ DistrictPaid(c, s) /\ HasRead(s, k)
    BY <2>2, <2>4, <2>5, ZenonT(60) DEF WarehousePaid, DistrictPaid, HasRead
  <2>7. clock \in Times /\ s.snap[k] = Row(r, k)
    BY <2>2, <2>4, SMTT(60) DEF IInv
  <2>8. PaymentWritten(c, s)
    BY <2>2, <2>4, <2>6, <2>7, ZenonT(60) DEF PaymentWritten, writes
  <2>9. Chain("on_commit", c, s)
    BY <2>2, <2>4, <2>8, ZenonT(60) DEF Chain, ReadCallbacks
  <2>10. Snapshot(tr[r], db) => Snapshot(s, db)
    BY <2>2, <2>4 DEF Snapshot
  <2>11. "on_commit" \in Callbacks
    BY DEF Callbacks
  <2> QED
    BY <1>1, <2>1, <2>2, <2>9, <2>10, <2>11, AdvanceInv, ZenonT(60)
<1> QED
  BY <1>3, <1>4, ZenonT(60)
=============================================================================
