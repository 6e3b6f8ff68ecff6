----------------------------- MODULE TpccSerial -----------------------------
(* What the TPC-C handlers promise of the store: every change of it is one  *)
(* whole NewOrder or one whole Payment, as the handlers compute them, run   *)
(* at once on the store as it is at that moment.                            *)
EXTENDS TpccRows

VARIABLE db

Init == \E data \in Loaded : db = Overlay(LoaderRows, DataSet(data.customers, data.stock))

\* The loop over the lines stops one short.
NewOrderLosesLine(w, d, c, lines) ==
  LET o_id == db[kv_district_key(w, d)].d_next_o_id
      writes == NewOrderWrites(w, d, c, lines, o_id,
                  [n \in DOMAIN lines |->
                     NewQuantity(db[kv_stock_key(SupplyW(w), lines[n].i_id)].s_quantity, lines[n].qty)])
  IN /\ {kv_district_key(w, d), kv_customer_key(w, d, c)} \subseteq DOMAIN db
     /\ \A n \in DOMAIN lines : kv_stock_key(SupplyW(w), lines[n].i_id) \in DOMAIN db
     /\ db' = Overlay([k \in DOMAIN writes \ {kv_order_line_key(w, d, o_id, Len(lines))} |->
                         writes[k]], db)

NewOrder(w, d, c, lines) ==
  /\ {kv_district_key(w, d), kv_customer_key(w, d, c)} \subseteq DOMAIN db
  /\ \A n \in DOMAIN lines : kv_stock_key(SupplyW(w), lines[n].i_id) \in DOMAIN db
  /\ db' = Overlay(NewOrderWrites(w, d, c, lines, db[kv_district_key(w, d)].d_next_o_id,
                     [n \in DOMAIN lines |->
                        NewQuantity(db[kv_stock_key(SupplyW(w), lines[n].i_id)].s_quantity,
                                    lines[n].qty)]),
                   db)

Payment(w, cw, cd, c, amount, now) ==
  /\ {kv_warehouse_key(w), kv_district_key(cw, cd), kv_customer_key(cw, cd, c)} \subseteq DOMAIN db
  /\ db' = Overlay(PaymentWrites(w, cw, cd, c, amount, now,
                     db[kv_warehouse_key(w)].w_ytd,
                     db[kv_district_key(cw, cd)].d_ytd,
                     db[kv_customer_key(cw, cd, c)]),
                   db)

Next ==
  \/ \E w \in WIds, d \in Districts, c \in Customers, lines \in Orders : NewOrder(w, d, c, lines)
  \/ \E cw \in WIds, cd \in Districts, c \in Customers, amount \in Amounts, now \in Times :
       Payment(1, cw, cd, c, amount, now)

Spec == Init /\ [][Next]_db

----------------------------------------------------------------------------
(* Properties *)

RowsOf(table) == {k \in DOMAIN db : k.table = table}

\* rfd/0001 and test/verification "Stock non-negative": on_stock_read keeps the
\* quantity of every stock row in 10..100, through any sequence of orders.
StockInRange == \A k \in RowsOf("s") : db[k].s_quantity \in 10..100

\* The lines the order at key k counts are those of one order, in its sequence,
\* and the order is marked as undelivered.
WholeOrder(k) ==
  \E lines \in Orders :
    /\ db[k].o_ol_cnt = Len(lines)
    /\ kv_new_order_key(k.id[1], k.id[2], k.id[3]) \in DOMAIN db
    /\ \A n \in DOMAIN lines :
         LET ol == kv_order_line_key(k.id[1], k.id[2], k.id[3], n) IN
           /\ ol \in DOMAIN db
           /\ db[ol].ol_i_id = lines[n].i_id /\ db[ol].ol_quantity = lines[n].qty

\* rfd/0001 "NewOrder atomicity (all order lines written or none)": of an order
\* row, its new_order row and the lines 1..o_ol_cnt all were written by one
\* NewOrder, and no line or new_order row is without an order row.  Orders take
\* the id of an earlier one, so lines beyond o_ol_cnt may be left of a longer
\* order: LinesMatchCount does not hold.
NewOrderAtomic ==
  /\ \A k \in RowsOf("o") : WholeOrder(k)
  /\ \A k \in RowsOf("no") \union RowsOf("ol") :
       kv_oorder_key(k.id[1], k.id[2], k.id[3]) \in DOMAIN db

\* test/verification/TpccVerification/Basic.lean:29-31: NewOrder is not atomic if
\* "OORDER exists but ORDER_LINE count" is not ol_cnt: an order has exactly as many
\* lines as it counts.
LinesMatchCount ==
  \A k \in RowsOf("o") :
    Cardinality({ol \in RowsOf("ol") : SubSeq(ol.id, 1, 3) = k.id}) = db[k].o_ol_cnt

\* The amounts as a set of cents: its cardinality is their sum.
Cents(amount) == UNION {{k} \X (1..amount[k]) : k \in DOMAIN amount}

\* What the rows of the tables hold more, in cents, than they were loaded with.
WarehouseTook == [k \in RowsOf("w") |-> db[k].w_ytd - 30000000]
DistrictTook == [k \in RowsOf("d") |-> db[k].d_ytd - 3000000]
CustomerPaid == [k \in RowsOf("c") |-> db[k].c_ytd_payment - 1000]
BalanceLost == [k \in RowsOf("c") |-> - 1000 - db[k].c_balance]

\* Payment moves the same amount through every table it touches: what the
\* warehouses took in since the load is what the districts took in, what the
\* customers paid, and what their balances lost, and no row ever loses.  It
\* holds over all warehouses together; a remote payment books the district of
\* the customer's warehouse, not of the home warehouse.
MoneyConserved ==
  LET taken == Cardinality(Cents(WarehouseTook)) IN
    \A amount \in {WarehouseTook, DistrictTook, CustomerPaid, BalanceLost} :
      /\ \A k \in DOMAIN amount : amount[k] \in Nat
      /\ Cardinality(Cents(amount)) = taken
=============================================================================
