------------------------------ MODULE TpccRows ------------------------------
(* The rows NewOrder and Payment read and write: the keys of src/tpcc_kv.c, *)
(* the fields of tpcc_kv.h that the transactions compute with, and the sets *)
(* of rows each transaction writes, as functions of what it read.           *)
EXTENDS Fdb

CONSTANTS Warehouses,   \* the warehouses loaded, 1..W
          WIds,         \* the warehouse ids a handler may come up with
          Districts,    \* district ids
          Customers,    \* customer ids a handler may draw
          Orders,       \* possible order lines: sequences of [i_id, qty]
          Amounts,      \* possible h_amount
          Times,        \* values of time(NULL), in seconds
          Loaded        \* the data sets the server may find: [customers, stock]

\* Quantities are 1 + get_random_number(9), amounts positive; the home
\* warehouse of Payment is 1.
ASSUME RowsAssumption ==
  /\ Warehouses \subseteq WIds
  /\ Warehouses \subseteq Nat \ {0} /\ 1 \in Warehouses
  /\ Amounts \subseteq Nat \ {0}
  /\ \A lines \in Orders : /\ lines \in Seq([i_id : Nat, qty : 2..10])
                           /\ Len(lines) >= 1
  /\ \A data \in Loaded : \A i \in DOMAIN data.stock : data.stock[i] \in 10..100

----------------------------------------------------------------------------
(* Keys: a subspace prefix and the ids encoded after it *)

Key(table, id) == [table |-> table, id |-> id]

kv_warehouse_key(w) == Key("w", <<w>>)
kv_district_key(w, d) == Key("d", <<w, d>>)
kv_customer_key(w, d, c) == Key("c", <<w, d, c>>)
kv_stock_key(w, i) == Key("s", <<w, i>>)
kv_oorder_key(w, d, o) == Key("o", <<w, d, o>>)
kv_new_order_key(w, d, o) == Key("no", <<w, d, o>>)
kv_order_line_key(w, d, o, n) == Key("ol", <<w, d, o, n>>)
kv_next_o_id_key(w, d) == Key("nid", <<w, d>>)
kv_history_key(w, cw, cd, c, now) == Key("h", <<w, cw, cd, c, now>>)

----------------------------------------------------------------------------
(* NewOrder *)

NewQuantityNoRestock(s_quantity, qty) == s_quantity - qty

\* on_stock_read: below 10, 91 are added.
NewQuantity(s_quantity, qty) ==
  IF s_quantity - qty < 10 THEN s_quantity - qty + 91 ELSE s_quantity - qty

\* Several lines may name the same item: the last set wins.
LastLine(lines, i) ==
  CHOOSE n \in DOMAIN lines : /\ lines[n].i_id = i
                              /\ \A m \in DOMAIN lines : lines[m].i_id = i => m <= n

\* ol_supply_w is a uint8_t copy of w_id.  The branch for a remote warehouse is
\* never taken: get_random_number(99) is at least 1.
SupplyW(w) == w % 256

\* start_stock_reads, once every stock row is read.  The district row is not
\* written: only the separate counter key is.
NewOrderWrites(w, d, c, lines, o_id, quantity) ==
  [k \in {kv_oorder_key(w, d, o_id), kv_new_order_key(w, d, o_id), kv_next_o_id_key(w, d)}
           \union {kv_order_line_key(w, d, o_id, n) : n \in DOMAIN lines}
           \union {kv_stock_key(SupplyW(w), lines[n].i_id) : n \in DOMAIN lines} |->
     CASE k.table = "o"   -> [o_c_id |-> c, o_ol_cnt |-> Len(lines)]
       [] k.table = "no"  -> [undelivered |-> TRUE]
       [] k.table = "nid" -> [next_o_id |-> o_id + 1]
       [] k.table = "ol"  -> [ol_i_id |-> lines[k.id[4]].i_id,
                              ol_quantity |-> lines[k.id[4]].qty,
                              ol_amount |-> lines[k.id[4]].qty * 100]
       [] k.table = "s"   -> LET n == LastLine(lines, k.id[2])
                             IN  [s_quantity |-> quantity[n],
                                  s_ytd |-> lines[n].qty,
                                  s_order_cnt |-> 1]]

----------------------------------------------------------------------------
(* Payment *)

Int16(n) == ((n + 32768) % 65536) - 32768

\* Each row is built in a zeroed struct, so every field that is not assigned
\* (taxes, d_next_o_id, c_discount) becomes 0.
WarehouseRow(w_ytd, amount) == [w_tax |-> 0, w_ytd |-> w_ytd + amount]

DistrictRowUnpaid(d_ytd, amount) == [d_tax |-> 0, d_ytd |-> d_ytd, d_next_o_id |-> 0]

DistrictRow(d_ytd, amount) == [d_tax |-> 0, d_ytd |-> d_ytd + amount, d_next_o_id |-> 0]

CustomerRow(cv, amount) ==
  [c_discount |-> 0,
   c_balance |-> cv.c_balance - amount,
   c_ytd_payment |-> cv.c_ytd_payment + amount,
   c_payment_cnt |-> Int16(cv.c_payment_cnt + 1)]

\* on_customer_read of Payment, from the values read.
PaymentWrites(w, cw, cd, c, amount, now, w_ytd, d_ytd, cv) ==
  [k \in {kv_warehouse_key(w), kv_district_key(cw, cd), kv_customer_key(cw, cd, c),
          kv_history_key(w, cw, cd, c, now)} |->
     CASE k.table = "w" -> WarehouseRow(w_ytd, amount)
       [] k.table = "d" -> DistrictRow(d_ytd, amount)
       [] k.table = "c" -> CustomerRow(cv, amount)
       [] k.table = "h" -> [h_amount |-> amount]]

----------------------------------------------------------------------------
(* The stores a server can find *)

\* tpcc_loader.c: warehouses, districts and counters.
LoaderRows ==
  [k \in {kv_warehouse_key(w) : w \in Warehouses}
           \union {kv_district_key(w, d) : w \in Warehouses, d \in Districts}
           \union {kv_next_o_id_key(w, d) : w \in Warehouses, d \in Districts} |->
     CASE k.table = "w"   -> [w_tax |-> 1, w_ytd |-> 30000000]
       [] k.table = "d"   -> [d_tax |-> 1, d_ytd |-> 3000000, d_next_o_id |-> 3001]
       [] k.table = "nid" -> [next_o_id |-> 3001]]

\* The customer and stock rows of a full data set; load_customer_and_orders is
\* a stub and writes none of them, so a store may lack any of them.
DataSet(customers, stock) ==
  [k \in {kv_customer_key(w, d, c) : w \in Warehouses, d \in Districts, c \in customers}
           \union {kv_stock_key(w, i) : w \in Warehouses, i \in DOMAIN stock} |->
     IF k.table = "c"
     THEN [c_discount |-> 1, c_balance |-> -1000, c_ytd_payment |-> 1000, c_payment_cnt |-> 1]
     ELSE [s_quantity |-> stock[k.id[2]], s_ytd |-> 0, s_order_cnt |-> 0]]

=============================================================================
