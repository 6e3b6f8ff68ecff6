---------------------------- MODULE TpccHandlers ----------------------------
(* The five TPC-C handlers of src/handlers: each request runs a chain of    *)
(* callbacks on FoundationDB futures, many requests at a time over one      *)
(* store.  fdb_state is an initialised thread state.                        *)
EXTENDS TpccRows, FdbAdapter

CONSTANTS Kinds,        \* the transactions requests may ask for
          Thresholds    \* possible thresholds of StockLevel

ASSUME HandlersAssumption ==
  Kinds \subseteq {"NewOrder", "Payment", "OrderStatus", "Delivery", "StockLevel"}

VARIABLE clock       \* time(NULL)

vars == <<adapterVars, clock>>

Init ==
  /\ \E data \in Loaded : db = Overlay(LoaderRows, DataSet(data.customers, data.stock))
  /\ AdapterInit
  /\ clock \in Times

----------------------------------------------------------------------------
(* What the handlers share *)

\* A read future completes with an error: on_error is asked about it, except
\* by StockLevel, which gives up.
ReadFails(r) ==
  /\ Fault("read")
  /\ IF ctx[r].kind = "StockLevel"
     THEN Finish(r, Failed(r))
     ELSE /\ \E err \in {"retryable", "fatal"} : future' = [future EXCEPT ![r] = err]
          /\ \/ pc' = [pc EXCEPT ![r] = "on_error_retry"]
             \/ "submit" \in FaultKinds /\ pc' = [pc EXCEPT ![r] = "lost"]
          /\ UNCHANGED <<ctx, tr, answer>>

\* A callback of the chain runs.
OnFuture(r, callback, kind) == Completed(r, callback, kind) /\ UNCHANGED clock

RowPresent(r, k) == Present(r, k) /\ UNCHANGED <<future, answer>>

\* The read failed, or the row is missing, which ends the request with a 500.
NoRow(r, k) ==
  \/ ~Present(r, k) /\ Finish(r, Failed(r)) /\ UNCHANGED faults
  \/ ReadFails(r)

\* The entry point allocates the context and the transaction, or answers that
\* this failed (CreateFails).
Execute(r, kind) == Enter(r) /\ kind \in Kinds /\ UNCHANGED clock

\* `% 0` in get_random_number(0, ...): NewOrder and a remote Payment evaluate
\* it; the process may die, or go on with any warehouse id.
Trap(r) ==
  /\ up
  /\ pc[r] = "idle"
  /\ Kinds \intersect {"NewOrder", "Payment"} # {}
  /\ Fault("trap")
  /\ up' = FALSE
  /\ UNCHANGED <<requestVars, clock>>

----------------------------------------------------------------------------
(* NewOrder; ctx->current_ol is Len(s_quantity) *)

NewOrderExecute(r) ==
  /\ Execute(r, "NewOrder")
  /\ \/ /\ \E w \in WIds, d \in Districts, c \in Customers, lines \in Orders :
            ctx' = [ctx EXCEPT ![r] =
                      [kind |-> "NewOrder", w |-> w, d |-> d, c |-> c, lines |-> lines,
                       d_next_o_id |-> 0, s_quantity |-> <<>>]]
        /\ Await(r, "on_district_read")
        /\ UNCHANGED answer
     \/ CreateFails(r, "NewOrder")

NewOrderOnDistrictRead(r) ==
  /\ OnFuture(r, "on_district_read", "NewOrder")
  /\ LET k == kv_district_key(ctx[r].w, ctx[r].d) IN
       \/ /\ RowPresent(r, k)
          /\ ctx' = [ctx EXCEPT ![r].d_next_o_id = Row(r, k).d_next_o_id]
          /\ tr' = [tr EXCEPT ![r] = AfterRead(r, k)]
          /\ Await(r, "on_customer_read")
       \/ NoRow(r, k)

\* All stock rows read: buffer the writes and commit; otherwise read the next.
StartStockReads(r, c, t) ==
  /\ ctx' = [ctx EXCEPT ![r] = c]
  /\ IF Len(c.s_quantity) >= Len(c.lines)
     THEN /\ tr' = [tr EXCEPT ![r] = [t EXCEPT !.writes =
                      NewOrderWrites(c.w, c.d, c.c, c.lines, c.d_next_o_id, c.s_quantity)]]
          /\ Await(r, "on_commit")
     ELSE /\ tr' = [tr EXCEPT ![r] = t]
          /\ Await(r, "on_stock_read")

NewOrderOnCustomerRead(r) ==
  /\ OnFuture(r, "on_customer_read", "NewOrder")
  /\ LET k == kv_customer_key(ctx[r].w, ctx[r].d, ctx[r].c) IN
       \/ /\ RowPresent(r, k)
          /\ StartStockReads(r, [ctx[r] EXCEPT !.s_quantity = <<>>], AfterRead(r, k))
       \/ NoRow(r, k)

NewOrderOnStockRead(r) ==
  /\ OnFuture(r, "on_stock_read", "NewOrder")
  /\ LET line == ctx[r].lines[Len(ctx[r].s_quantity) + 1]
         k == kv_stock_key(SupplyW(ctx[r].w), line.i_id)
     IN \/ /\ RowPresent(r, k)
           /\ StartStockReads(r, [ctx[r] EXCEPT !.s_quantity =
                                    Append(@, NewQuantity(Row(r, k).s_quantity, line.qty))],
                              AfterRead(r, k))
        \/ NoRow(r, k)

----------------------------------------------------------------------------
(* Payment *)

PaymentExecute(r) ==
  /\ Execute(r, "Payment")
  /\ \/ /\ \E cw \in WIds, cd \in Districts, c \in Customers,
              amount \in Amounts, by_name \in BOOLEAN :
            ctx' = [ctx EXCEPT ![r] =
                      [kind |-> "Payment", w |-> 1, c_w |-> cw, c_d |-> cd, c |-> c,
                       by_name |-> by_name, amount |-> amount, w_ytd |-> 0, d_ytd |-> 0]]
        /\ Await(r, "on_warehouse_read")
        /\ UNCHANGED answer
     \/ CreateFails(r, "Payment")

PaymentOnWarehouseRead(r) ==
  /\ OnFuture(r, "on_warehouse_read", "Payment")
  /\ LET k == kv_warehouse_key(ctx[r].w) IN
       \/ /\ RowPresent(r, k)
          /\ ctx' = [ctx EXCEPT ![r].w_ytd = Row(r, k).w_ytd]
          /\ tr' = [tr EXCEPT ![r] = AfterRead(r, k)]
          /\ Await(r, "on_district_read")
       \/ NoRow(r, k)

\* A payment by name draws its customer here, on every attempt.
PaymentOnDistrictRead(r) ==
  /\ OnFuture(r, "on_district_read", "Payment")
  /\ LET k == kv_district_key(ctx[r].c_w, ctx[r].c_d) IN
       \/ /\ RowPresent(r, k)
          /\ \E c \in IF ctx[r].by_name THEN Customers ELSE {ctx[r].c} :
               ctx' = [ctx EXCEPT ![r].d_ytd = Row(r, k).d_ytd, ![r].c = c]
          /\ tr' = [tr EXCEPT ![r] = AfterRead(r, k)]
          /\ Await(r, "on_customer_read")
       \/ NoRow(r, k)

PaymentOnCustomerRead(r) ==
  /\ OnFuture(r, "on_customer_read", "Payment")
  /\ LET k == kv_customer_key(ctx[r].c_w, ctx[r].c_d, ctx[r].c) IN
       \/ /\ RowPresent(r, k)
          /\ tr' = [tr EXCEPT ![r] = [AfterRead(r, k) EXCEPT !.writes =
                      PaymentWrites(ctx[r].w, ctx[r].c_w, ctx[r].c_d, ctx[r].c, ctx[r].amount,
                                    clock, ctx[r].w_ytd, ctx[r].d_ytd, Row(r, k))]]
          /\ Await(r, "on_commit")
          /\ UNCHANGED ctx
       \/ NoRow(r, k)

----------------------------------------------------------------------------
(* on_commit and on_error_retry of NewOrder and Payment *)

\* The id is counted on before it is reported.
ResponseNextId(r) ==
  IF ctx[r].kind = "NewOrder"
  THEN [status |-> "ok", kind |-> "NewOrder", o_id |-> ctx[r].d_next_o_id + 1,
        district |-> kv_district_key(ctx[r].w, ctx[r].d)]
  ELSE [status |-> "ok", kind |-> ctx[r].kind]

Response(r) ==
  IF ctx[r].kind = "NewOrder"
  THEN [status |-> "ok", kind |-> "NewOrder", o_id |-> ctx[r].d_next_o_id,
        district |-> kv_district_key(ctx[r].w, ctx[r].d)]
  ELSE [status |-> "ok", kind |-> ctx[r].kind]

\* The result of the commit is not looked at.
OnCommitIgnoresError(r, kind) ==
  /\ OnFuture(r, "on_commit", kind)
  /\ future[r] # "pending"
  /\ Finish(r, Response(r))
  /\ UNCHANGED faults

OnCommit(r, kind) ==
  /\ OnFuture(r, "on_commit", kind)
  /\ future[r] # "pending"
  /\ \/ future[r] = "ok" /\ Finish(r, Response(r)) /\ UNCHANGED faults
     \/ future[r] # "ok" /\ Await(r, "on_error_retry") /\ UNCHANGED <<ctx, tr, future, answer>>

NewOrderOnCommit(r) == OnCommit(r, "NewOrder")

PaymentOnCommit(r) == OnCommit(r, "Payment")

\* The retry commits the writes it computed before, without reading again.
OnErrorRetryKeepsReads(r, kind, restart, c) ==
  /\ OnFuture(r, "on_error_retry", kind)
  /\ \/ future[r] = "fatal" /\ Finish(r, Failed(r)) /\ UNCHANGED faults
     \/ /\ future[r] = "retryable"
        /\ tr' = [tr EXCEPT ![r] = [NewTransaction EXCEPT !.writes = tr[r].writes]]
        /\ future' = [future EXCEPT ![r] = "pending"]
        /\ Await(r, "on_commit")
        /\ UNCHANGED <<ctx, answer>>

\* A refused error ends the chain without an answer.
OnErrorRetryDropsFatal(r, kind, restart, c) ==
  /\ OnFuture(r, "on_error_retry", kind)
  /\ \/ /\ future[r] = "fatal"
        /\ pc' = [pc EXCEPT ![r] = "lost"]
        /\ UNCHANGED <<ctx, tr, future, faults>>
     \/ /\ future[r] = "retryable"
        /\ tr' = [tr EXCEPT ![r] = NewTransaction]
        /\ future' = [future EXCEPT ![r] = "pending"]
        /\ ctx' = [ctx EXCEPT ![r] = c]
        /\ Await(r, restart)
  /\ UNCHANGED answer

\* on_error has waited and reset the transaction, or refused the error.
OnErrorRetry(r, kind, restart, c) ==
  /\ OnFuture(r, "on_error_retry", kind)
  /\ \/ future[r] = "fatal" /\ Finish(r, Failed(r)) /\ UNCHANGED faults
     \/ /\ future[r] = "retryable"
        /\ tr' = [tr EXCEPT ![r] = NewTransaction]
        /\ future' = [future EXCEPT ![r] = "pending"]
        /\ ctx' = [ctx EXCEPT ![r] = c]
        /\ Await(r, restart)
        /\ UNCHANGED answer

NewOrderOnErrorRetry(r) ==
  OnErrorRetry(r, "NewOrder", "on_district_read", [ctx[r] EXCEPT !.s_quantity = <<>>])

PaymentOnErrorRetry(r) == OnErrorRetry(r, "Payment", "on_warehouse_read", ctx[r])

----------------------------------------------------------------------------
(* OrderStatus, Delivery: an empty transaction is committed, and the result *)
(* of the commit is not looked at                                           *)

EmptyExecute(r, kind) ==
  /\ Execute(r, kind)
  /\ \/ /\ ctx' = [ctx EXCEPT ![r] = [kind |-> kind]]
        /\ Await(r, "empty_on_commit")
        /\ UNCHANGED answer
     \/ CreateFails(r, kind)

EmptyOnCommit(r, kind) ==
  /\ OnFuture(r, "empty_on_commit", kind)
  /\ future[r] # "pending"
  /\ Finish(r, Response(r))
  /\ UNCHANGED faults

OrderStatusExecute(r) == EmptyExecute(r, "OrderStatus")

OsOnCommit(r) == EmptyOnCommit(r, "OrderStatus")

DeliveryExecute(r) == EmptyExecute(r, "Delivery")

DlOnCommit(r) == EmptyOnCommit(r, "Delivery")

----------------------------------------------------------------------------
(* StockLevel: one range read for the stock of warehouse 1, never committed *)

StockLevelExecute(r) ==
  /\ Execute(r, "StockLevel")
  /\ \/ /\ \E threshold \in Thresholds :
            ctx' = [ctx EXCEPT ![r] = [kind |-> "StockLevel", threshold |-> threshold]]
        /\ Await(r, "sl_on_range_read")
        /\ UNCHANGED answer
     \/ CreateFails(r, "StockLevel")

Below(rows, store, threshold) == Cardinality({k \in rows : store[k].s_quantity < threshold})

\* Both ends of the read are "last less than": of the stock of warehouse 1 it
\* lacks the last row, and it begins with the row before, of another table, which
\* is shorter than a stock_val_t and passed over.  `more` is not looked at: the
\* count is over the rows that came back.
SlOnRangeRead(r) ==
  /\ OnFuture(r, "sl_on_range_read", "StockLevel")
  /\ LET all == {k \in DOMAIN db : k.table = "s" /\ k.id[1] = 1}
         upTo(last) == {k \in all : k.id[2] < last.id[2]}
         reply(rows) == [status |-> "ok", kind |-> "StockLevel",
                         below |-> Below(rows, db, ctx[r].threshold)]
     IN \/ Finish(r, reply(UNION {upTo(last) : last \in all})) /\ UNCHANGED faults
        \/ Fault("partial") /\ \E last \in all : Finish(r, reply(upTo(last)))
        \/ ReadFails(r)

----------------------------------------------------------------------------

Tick ==
  /\ clock + 1 \in Times
  /\ clock' = clock + 1
  /\ UNCHANGED adapterVars

Callback(r) ==
  \/ NewOrderOnDistrictRead(r)
  \/ NewOrderOnCustomerRead(r)
  \/ NewOrderOnStockRead(r)
  \/ PaymentOnWarehouseRead(r)
  \/ PaymentOnDistrictRead(r)
  \/ PaymentOnCustomerRead(r)
  \/ NewOrderOnCommit(r)
  \/ NewOrderOnErrorRetry(r)
  \/ PaymentOnCommit(r)
  \/ PaymentOnErrorRetry(r)
  \/ OsOnCommit(r)
  \/ DlOnCommit(r)
  \/ SlOnRangeRead(r)

Arrive(r) ==
  \/ NewOrderExecute(r)
  \/ PaymentExecute(r)
  \/ OrderStatusExecute(r)
  \/ DeliveryExecute(r)
  \/ StockLevelExecute(r)
  \/ Trap(r)

CommitAnswered(r) == Commit(r) /\ UNCHANGED clock

Next == Tick \/ \E r \in Reqs : Arrive(r) \/ Callback(r) \/ CommitAnswered(r)

Spec == Init /\ [][Next]_vars

\* FoundationDB completes every future and the network thread runs every
\* callback; requests need not arrive.
FairSpec == Spec /\ \A r \in Reqs : WF_vars(Callback(r)) /\ WF_vars(CommitAnswered(r))

----------------------------------------------------------------------------
(* Properties *)

\* Types, and: a transaction holds buffered writes only while the NewOrder or
\* Payment that buffered them (start_stock_reads, on_customer_read) still has its
\* context; a request commits at most once more than there were faults.
TypeOK ==
  /\ \A r \in Reqs :
       /\ pc[r] \in {"idle", "done", "lost", "on_warehouse_read", "on_district_read",
                     "on_customer_read", "on_stock_read", "on_commit", "on_error_retry",
                     "empty_on_commit", "sl_on_range_read"}
       /\ future[r] \in {"pending", "ok", "retryable", "fatal"}
       /\ answer[r].status \in {"none", "ok", "error"}
       /\ DOMAIN tr[r].writes # {} => ctx[r].kind \in {"NewOrder", "Payment"}
  /\ applied \in [Reqs -> 0..MaxFaults+1]
  /\ clock \in Times
  /\ faults \in 0..MaxFaults

Serial == INSTANCE TpccSerial

\* Interleaved callback chains, conflicts, retries and lost answers leave the
\* store as if every committed transaction had run alone, at its commit, on
\* what the store held then.
Serializable == Serial!Spec

\* on_commit answers "ok" only for a NewOrder or Payment that is in the store.
OkIsCommitted ==
  \A r \in Reqs : Ok(r) /\ answer[r].kind \in {"NewOrder", "Payment"} => applied[r] >= 1

\* The order a NewOrder was answered with.
OrderOf(a) == kv_oorder_key(a.district.id[1], a.district.id[2], a.o_id)

\* on_commit answers a NewOrder with the id its commit wrote, whatever ids the
\* attempts before it had read: from then on an order, with the lines it counts,
\* is in the store under that id (as ids repeat, perhaps a later one).
AnsweredOrderStored ==
  \A r \in Reqs :
    Ok(r) /\ answer[r].kind = "NewOrder" =>
      OrderOf(answer[r]) \in DOMAIN db /\ Serial!WholeOrder(OrderOf(answer[r]))

\* rfd/0011 "The retry is transparent": a NewOrder or Payment answered "ok" was
\* applied once, one answered with an error not at all.
AppliedExactlyOnce ==
  \A r \in Reqs :
    answer[r] # NoAnswer /\ answer[r].kind \in {"NewOrder", "Payment"} =>
      applied[r] = IF Ok(r) THEN 1 ELSE 0

\* rfd/0013: every call is answered, with the result or with an error.
EveryRequestAnswered == \A r \in Reqs : (pc[r] # "idle") ~> (answer[r] # NoAnswer)

\* tpcc_new_order.h:16 "district (next_o_id++)", rfd/0009 "FDB will retry one of
\* them": two NewOrders of a district get different order ids.
UniqueOrderIds ==
  \A r, q \in Reqs :
    r # q /\ Ok(r) /\ Ok(q) /\ answer[r].kind = "NewOrder" /\ answer[q].kind = "NewOrder" =>
      <<answer[r].district, answer[r].o_id>> # <<answer[q].district, answer[q].o_id>>
=============================================================================
