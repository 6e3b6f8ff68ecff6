-------------------------- MODULE TpccSerialProofs --------------------------
(* For every number of warehouses, districts, customers and items, every    *)
(* data set and every order: no stock row ever leaves 10..100, and no cent  *)
(* of a payment is lost or made.                                            *)
EXTENDS TpccSerial, FiniteSetTheorems, WellFoundedInduction, TLAPS

\* The replenishment of on_stock_read: an order of 2..10 pieces from a quantity
\* in 10..100 leaves a quantity in 10..100.
LEMMA RestockRange ==
  ASSUME NEW s_quantity \in 10..100, NEW qty \in 2..10
  PROVE  NewQuantity(s_quantity, qty) \in 10..100
BY DEF NewQuantity

\* fdb_sync_set over a store: a key has the value written or the one it had, so
\* stock rows in range stay so if the stock rows written are.
LEMMA OverlayStock ==
  ASSUME NEW writes, NEW store, NEW after, after = Overlay(writes, store),
         \A k \in DOMAIN writes : k.table = "s" => writes[k].s_quantity \in 10..100,
         \A k \in DOMAIN store : k.table = "s" => store[k].s_quantity \in 10..100
  PROVE  \A k \in DOMAIN after : k.table = "s" => after[k].s_quantity \in 10..100
<1> SUFFICES ASSUME NEW k \in DOMAIN after, k.table = "s"
             PROVE  after[k].s_quantity \in 10..100
  OBVIOUS
<1>1. k \in DOMAIN writes \union DOMAIN store
  BY DEF Overlay
<1>2. after[k] = IF k \in DOMAIN writes THEN writes[k] ELSE store[k]
  BY <1>1 DEF Overlay
<1> QED
  BY <1>1, <1>2, SMTT(60)

\* A non-empty set of numbers bounded by N has a largest one.
LEMMA LargestExists ==
  ASSUME NEW N \in Nat, NEW S \in SUBSET (1..N), S # {}
  PROVE  \E n \in S : \A m \in S : m <= n
<1> DEFINE T == {N - n : n \in S}
<1>1. T \subseteq Nat /\ T # {}
  <2>1. ASSUME NEW n \in S PROVE N - n \in Nat
    <3>1. n \in 1..N
      OBVIOUS
    <3> QED
      BY <3>1
  <2>2. T \subseteq Nat
    BY <2>1
  <2>3. PICK n \in S : TRUE
    BY Zenon
  <2>4. N - n \in T
    BY <2>3
  <2> QED
    BY <2>2, <2>4
<1>2. PICK x \in T : \A y \in T : ~(<<y, x>> \in OpToRel(<, Nat))
  BY <1>1, NatLessThanWellFounded, WFMin, Zenon
<1>3. \A y \in T : ~(y < x)
  BY <1>1, <1>2, Zenon DEF OpToRel
<1>4. PICK n \in S : x = N - n
  OBVIOUS
<1>5. ASSUME NEW m \in S PROVE m <= n
  <2>1. N - m \in T
    OBVIOUS
  <2>2. ~(N - m < N - n)
    BY <1>3, <1>4, <2>1
  <2> QED
    BY <2>2
<1> QED
  BY <1>5

\* The line whose stock row start_stock_reads sets last is a line of the order.
LEMMA LastLineExists ==
  ASSUME NEW lines \in Orders, NEW m \in DOMAIN lines
  PROVE  LastLine(lines, lines[m].i_id) \in DOMAIN lines
<1> DEFINE Same == {n \in DOMAIN lines : lines[n].i_id = lines[m].i_id}
<1>1. lines \in Seq([i_id : Nat, qty : 2..10])
  BY RowsAssumption
<1>2. DOMAIN lines = 1..Len(lines) /\ Len(lines) \in Nat
  BY <1>1
<1>3. Same \in SUBSET (1..Len(lines)) /\ Same # {}
  BY <1>2
<1>4. \E n \in Same : \A p \in Same : p <= n
  BY <1>2, <1>3, LargestExists, Zenon
<1> QED
  BY <1>4 DEF LastLine

\* The data set of the server start holds stock in 10..100 only; the loader
\* itself writes no stock row.
LEMMA InitStock == Init => StockInRange
<1> SUFFICES ASSUME Init PROVE StockInRange
  OBVIOUS
<1>1. PICK data \in Loaded : db = Overlay(LoaderRows, DataSet(data.customers, data.stock))
  BY DEF Init
<1> DEFINE rows == DataSet(data.customers, data.stock)
<1>2. ASSUME NEW k \in DOMAIN LoaderRows PROVE k.table # "s"
  BY <1>2 DEF LoaderRows, kv_warehouse_key, kv_district_key, kv_next_o_id_key, Key
<1>3. ASSUME NEW k \in DOMAIN rows, k.table = "s"
      PROVE  rows[k].s_quantity \in 10..100
  <2>1. PICK w \in Warehouses, i \in DOMAIN data.stock : k = kv_stock_key(w, i)
    BY <1>3 DEF DataSet, kv_customer_key, Key
  <2>2. k.id[2] = i
    BY <2>1 DEF kv_stock_key, Key
  <2>3. rows[k].s_quantity = data.stock[i]
    BY <1>3, <2>2 DEF DataSet
  <2> QED
    BY <2>3, RowsAssumption
<1> HIDE DEF rows
<1>4. db = Overlay(LoaderRows, rows)
  BY <1>1, SMTT(60) DEF rows
<1>5. \A k \in DOMAIN db : k.table = "s" => db[k].s_quantity \in 10..100
  BY <1>2, <1>3, <1>4, OverlayStock
<1> QED
  BY <1>5 DEF StockInRange, RowsOf

\* A NewOrder rewrites stock rows only as on_stock_read computed them.
LEMMA NewOrderStock ==
  ASSUME StockInRange, NEW w \in WIds, NEW d \in Districts, NEW c \in Customers,
         NEW lines \in Orders, NewOrder(w, d, c, lines)
  PROVE  StockInRange'
<1> DEFINE o_id == db[kv_district_key(w, d)].d_next_o_id
           quantity == [n \in DOMAIN lines |->
                          NewQuantity(db[kv_stock_key(SupplyW(w), lines[n].i_id)].s_quantity, lines[n].qty)]
           writes == NewOrderWrites(w, d, c, lines, o_id, quantity)
<1>1. db' = Overlay(writes, db)
  BY DEF NewOrder
<1>2. ASSUME NEW n \in DOMAIN lines PROVE quantity[n] \in 10..100
  <2>1. lines[n].qty \in 2..10
    <3> DEFINE Line == [i_id : Nat, qty : 2..10]
    <3>1. lines \in Seq(Line)
      BY RowsAssumption
    <3> HIDE DEF Line
    <3>2. lines[n] \in Line
      BY <1>2, <3>1
    <3> QED
      BY <3>2 DEF Line
  <2>2. kv_stock_key(SupplyW(w), lines[n].i_id) \in RowsOf("s")
    BY <1>2, ZenonT(60) DEF NewOrder, RowsOf, kv_stock_key, Key
  <2>3. db[kv_stock_key(SupplyW(w), lines[n].i_id)].s_quantity \in 10..100
    BY <2>2, SMTT(30) DEF StockInRange
  <2> QED
    BY <2>1, <2>3, RestockRange, Zenon
<1>3. ASSUME NEW k \in DOMAIN writes, k.table = "s"
      PROVE  writes[k].s_quantity \in 10..100
  <2>1. PICK m \in DOMAIN lines : k = kv_stock_key(SupplyW(w), lines[m].i_id)
    BY <1>3 DEF NewOrderWrites, kv_oorder_key, kv_new_order_key, kv_next_o_id_key,
                kv_order_line_key, Key
  <2>2. k.id[2] = lines[m].i_id
    BY <2>1 DEF kv_stock_key, Key
  <2>3. LastLine(lines, k.id[2]) \in DOMAIN lines
    BY <2>2, LastLineExists, SMTT(30)
  <2>4. writes[k].s_quantity = quantity[LastLine(lines, k.id[2])]
    BY <1>3, Zenon DEF NewOrderWrites
  <2> QED
    BY <1>2, <2>3, <2>4, Zenon
<1> HIDE DEF writes
<1>4. \A k \in DOMAIN db : k.table = "s" => db[k].s_quantity \in 10..100
  BY Zenon DEF StockInRange, RowsOf
<1>5. \A k \in DOMAIN db' : k.table = "s" => db'[k].s_quantity \in 10..100
  BY <1>1, <1>3, <1>4, OverlayStock
<1> QED
  BY <1>5 DEF StockInRange, RowsOf

\* A Payment writes no stock row.
LEMMA PaymentStock ==
  ASSUME StockInRange, NEW w, NEW cw, NEW cd, NEW c, NEW amount, NEW now,
         Payment(w, cw, cd, c, amount, now)
  PROVE  StockInRange'
<1> DEFINE writes == PaymentWrites(w, cw, cd, c, amount, now,
                       db[kv_warehouse_key(w)].w_ytd, db[kv_district_key(cw, cd)].d_ytd,
                       db[kv_customer_key(cw, cd, c)])
<1>1. db' = Overlay(writes, db)
  BY DEF Payment
<1>2. \A k \in DOMAIN writes : k.table # "s"
  BY DEF PaymentWrites, kv_warehouse_key, kv_district_key, kv_customer_key, kv_history_key, Key
<1> HIDE DEF writes
<1>3. \A k \in DOMAIN db : k.table = "s" => db[k].s_quantity \in 10..100
  BY SMTT(60) DEF StockInRange, RowsOf
<1>4. \A k \in DOMAIN db' : k.table = "s" => db'[k].s_quantity \in 10..100
  BY <1>1, <1>2, <1>3, OverlayStock
<1> QED
  BY <1>4 DEF StockInRange, RowsOf

\* rfd/0001 "Stock non-negative", in the stronger form on_stock_read gives it:
\* every stock row holds 10..100 pieces, whatever NewOrders and Payments ran.
THEOREM StockStaysInRange == Spec => []StockInRange
<1>1. StockInRange /\ [Next]_db => StockInRange'
  <2> SUFFICES ASSUME StockInRange, [Next]_db PROVE StockInRange'
    OBVIOUS
  <2>1. ASSUME NEW w \in WIds, NEW d \in Districts, NEW c \in Customers,
               NEW lines \in Orders, NewOrder(w, d, c, lines)
        PROVE  StockInRange'
    BY <2>1, NewOrderStock
  <2>2. ASSUME NEW cw \in WIds, NEW cd \in Districts, NEW c \in Customers,
               NEW amount \in Amounts, NEW now \in Times, Payment(1, cw, cd, c, amount, now)
        PROVE  StockInRange'
    BY <2>2, PaymentStock
  <2>3. CASE UNCHANGED db
    BY <2>3 DEF StockInRange, RowsOf
  <2> QED
    BY <2>1, <2>2, <2>3 DEF Next
<1> QED
  BY <1>1, InitStock, PTL DEF Spec

----------------------------------------------------------------------------
(* Payments: sums as numbers of cents *)

\* One amount grows by a and the others stay.
Adds(f, g, a) ==
  /\ DOMAIN g = DOMAIN f
  /\ \E k \in DOMAIN f : /\ f[k] \in Nat /\ g[k] = f[k] + a
                         /\ \A j \in DOMAIN f \ {k} : g[j] = f[j]

\* The cents are pairs of a key and a number.
LEMMA CentsMember ==
  ASSUME NEW f, NEW x
  PROVE  x \in Cents(f) <=> \E k \in DOMAIN f : \E n \in 1..f[k] : x = <<k, n>>
<1>1. ASSUME NEW k PROVE x \in {k} \X (1..f[k]) <=> \E n \in 1..f[k] : x = <<k, n>>
  OBVIOUS
<1> QED
  BY <1>1 DEF Cents

\* A payment of a cents adds a cents.
LEMMA CentsAdd ==
  ASSUME NEW f, NEW g, NEW a \in Nat, Adds(f, g, a), IsFiniteSet(Cents(f))
  PROVE  IsFiniteSet(Cents(g)) /\ Cardinality(Cents(g)) = Cardinality(Cents(f)) + a
<1>1. DOMAIN g = DOMAIN f
  BY Zenon DEF Adds
<1>2. PICK k \in DOMAIN f : /\ f[k] \in Nat /\ g[k] = f[k] + a
                            /\ \A j \in DOMAIN f \ {k} : g[j] = f[j]
  BY Zenon DEF Adds
<1> DEFINE I == f[k] + 1 .. f[k] + a
           N == {k} \X I
<1>3. 1..g[k] = (1..f[k]) \union I /\ \A n \in 1..f[k] : n \notin I
  BY <1>2
<1>4. IsFiniteSet(I) /\ Cardinality(I) = a
  <2> DEFINE lo == f[k] + 1
             hi == f[k] + a
  <2>1. lo \in Int /\ hi \in Int /\ hi - lo + 1 = a /\ (lo > hi => a = 0)
    BY <1>2
  <2>2. I = lo..hi
    OBVIOUS
  <2> HIDE DEF I, lo, hi
  <2>3. IsFiniteSet(lo..hi) /\ Cardinality(lo..hi) = IF lo > hi THEN 0 ELSE hi - lo + 1
    BY <2>1, FS_Interval, Zenon
  <2> QED
    BY <2>1, <2>2, <2>3, Zenon
<1> HIDE DEF I
<1>5. IsFiniteSet(N) /\ Cardinality(N) = a
  <2>1. IsFiniteSet({k}) /\ Cardinality({k}) = 1
    BY FS_Singleton, Zenon
  <2>2. IsFiniteSet(N) /\ Cardinality(N) = Cardinality({k}) * Cardinality(I)
    BY <1>4, <2>1, FS_Product, Zenon
  <2> QED
    BY <1>4, <2>1, <2>2
<1>6. \A x : x \in N <=> \E n \in I : x = <<k, n>>
  OBVIOUS
<1> HIDE DEF N
<1>7. ASSUME NEW x PROVE x \in Cents(g) <=> x \in Cents(f) \/ x \in N
  <2>1. ASSUME x \in Cents(g) PROVE x \in Cents(f) \/ x \in N
    <3>1. PICK j \in DOMAIN f : \E n \in 1..g[j] : x = <<j, n>>
      BY <1>1, <2>1, CentsMember
    <3>2. CASE j = k
      BY <1>3, <1>6, <3>1, <3>2, CentsMember, ZenonT(60)
    <3>3. CASE j # k
      BY <1>2, <3>1, <3>3, CentsMember, Zenon
    <3> QED
      BY <3>2, <3>3, Zenon
  <2>2. ASSUME x \in Cents(f) PROVE x \in Cents(g)
    <3>1. PICK j \in DOMAIN f : \E n \in 1..f[j] : x = <<j, n>>
      BY <2>2, CentsMember
    <3>2. CASE j = k
      BY <1>1, <1>3, <3>1, <3>2, CentsMember, Zenon
    <3>3. CASE j # k
      BY <1>1, <1>2, <3>1, <3>3, CentsMember, Zenon
    <3> QED
      BY <3>2, <3>3, Zenon
  <2>3. ASSUME x \in N PROVE x \in Cents(g)
    <3>1. PICK n \in I : x = <<k, n>>
      BY <1>6, <2>3, Zenon
    <3>2. n \in 1..g[k]
      BY <1>3, Zenon
    <3> QED
      BY <1>1, <3>1, <3>2, CentsMember, Zenon
  <2> QED
    BY <2>1, <2>2, <2>3, Zenon
<1>8. Cents(g) = Cents(f) \union N
  BY <1>7, Zenon
<1>9. Cents(f) \intersect N = {}
  <2>1. ASSUME NEW x \in Cents(f), x \in N PROVE FALSE
    <3>1. PICK j \in DOMAIN f : \E n \in 1..f[j] : x = <<j, n>>
      BY CentsMember
    <3>2. PICK n \in 1..f[j] : x = <<j, n>>
      BY <3>1, Zenon
    <3>3. PICK m \in I : x = <<k, m>>
      BY <1>6, <2>1, Zenon
    <3>4. j = k /\ n = m
      BY <3>2, <3>3
    <3> QED
      BY <1>3, <3>2, <3>4, Zenon
  <2> QED
    BY <2>1, Zenon
<1>10. /\ IsFiniteSet(Cents(g))
       /\ Cardinality(Cents(g)) = Cardinality(Cents(f)) + Cardinality(N) - Cardinality(Cents(f) \intersect N)
  BY <1>5, <1>8, FS_Union, Zenon
<1>11. Cardinality(Cents(f)) \in Nat /\ Cardinality(Cents(f) \intersect N) = 0
  BY <1>9, FS_CardinalityType, FS_EmptySet, Zenon
<1> QED
  BY <1>5, <1>10, <1>11

\* Nothing taken in is no cents.
LEMMA NoCents ==
  ASSUME NEW f, \A k \in DOMAIN f : f[k] = 0
  PROVE  IsFiniteSet(Cents(f)) /\ Cardinality(Cents(f)) = 0
<1>1. ASSUME NEW x \in Cents(f) PROVE FALSE
  <2>1. PICK k \in DOMAIN f : \E n \in 1..f[k] : x = <<k, n>>
    BY CentsMember
  <2>2. f[k] = 0
    BY Zenon
  <2>3. PICK n \in 1..0 : TRUE
    BY <2>1, <2>2
  <2> QED
    BY <2>3
<1>2. Cents(f) = {}
  BY <1>1, Zenon
<1> QED
  BY <1>2, FS_EmptySet, Zenon

----------------------------------------------------------------------------
(* Payments: the inductive invariant *)

\* The fields that payments add to are numbers.
NumberRows ==
  /\ \A k \in RowsOf("w") : db[k].w_ytd \in Int
  /\ \A k \in RowsOf("d") : db[k].d_ytd \in Int
  /\ \A k \in RowsOf("c") : db[k].c_ytd_payment \in Int /\ db[k].c_balance \in Int

\* The four books hold the same finite number n of cents.
Holds(f, n) == /\ \A k \in DOMAIN f : f[k] \in Nat
               /\ IsFiniteSet(Cents(f)) /\ Cardinality(Cents(f)) = n

Books == {WarehouseTook, DistrictTook, CustomerPaid, BalanceLost}

Ledger == NumberRows /\ \E n \in Nat : \A f \in Books : Holds(f, n)

\* The store of the server start has taken nothing in.
LEMMA InitLedger == Init => Ledger
<1> SUFFICES ASSUME Init PROVE Ledger
  OBVIOUS
<1>1. PICK data \in Loaded : db = Overlay(LoaderRows, DataSet(data.customers, data.stock))
  BY Zenon DEF Init
<1> DEFINE rows == DataSet(data.customers, data.stock)
<1>2. ASSUME NEW k \in DOMAIN LoaderRows
      PROVE  /\ k.table \in {"w", "d", "nid"}
             /\ k.table = "w" => LoaderRows[k].w_ytd = 30000000
             /\ k.table = "d" => LoaderRows[k].d_ytd = 3000000
  BY <1>2, SMTT(60) DEF LoaderRows, kv_warehouse_key, kv_district_key, kv_next_o_id_key, Key
<1>3. ASSUME NEW k \in DOMAIN rows
      PROVE  /\ k.table \in {"c", "s"}
             /\ k.table = "c" => rows[k].c_ytd_payment = 1000 /\ rows[k].c_balance = -1000
  BY <1>3, SMT DEF DataSet, kv_customer_key, kv_stock_key, Key
<1>0. db = Overlay(LoaderRows, rows)
  BY <1>1, Zenon
<1> HIDE DEF rows
<1>4. /\ DOMAIN db = DOMAIN LoaderRows \union DOMAIN rows
      /\ \A k \in DOMAIN LoaderRows : db[k] = LoaderRows[k]
      /\ \A k \in DOMAIN rows \ DOMAIN LoaderRows : db[k] = rows[k]
  BY <1>0, SMT DEF Overlay
<1>5. \A k \in RowsOf("w") : db[k].w_ytd = 30000000
  BY <1>2, <1>3, <1>4, SMT DEF RowsOf
<1>6. \A k \in RowsOf("d") : db[k].d_ytd = 3000000
  BY <1>2, <1>3, <1>4, SMT DEF RowsOf
<1>7. \A k \in RowsOf("c") : db[k].c_ytd_payment = 1000 /\ db[k].c_balance = -1000
  <2>1. ASSUME NEW k \in RowsOf("c") PROVE k \in DOMAIN rows \ DOMAIN LoaderRows /\ k.table = "c"
    BY <1>2, <1>4, SMT DEF RowsOf
  <2>2. ASSUME NEW k \in RowsOf("c") PROVE db[k] = rows[k]
    BY <1>4, <2>1, Zenon
  <2> QED
    BY <1>3, <2>1, <2>2, SMT
<1>8. NumberRows
  BY <1>5, <1>6, <1>7, SMT DEF NumberRows
<1>9. ASSUME NEW f \in Books PROVE \A k \in DOMAIN f : f[k] = 0
  <2>1. \A k \in DOMAIN WarehouseTook : WarehouseTook[k] = 0
    BY <1>5, SMT DEF WarehouseTook
  <2>2. \A k \in DOMAIN DistrictTook : DistrictTook[k] = 0
    BY <1>6, SMT DEF DistrictTook
  <2>3. \A k \in DOMAIN CustomerPaid : CustomerPaid[k] = 0
    BY <1>7, SMT DEF CustomerPaid
  <2>4. \A k \in DOMAIN BalanceLost : BalanceLost[k] = 0
    BY <1>7, SMT DEF BalanceLost
  <2> QED
    BY <1>9, <2>1, <2>2, <2>3, <2>4, Zenon DEF Books
<1>10. ASSUME NEW f \in Books PROVE Holds(f, 0)
  <2>1. \A k \in DOMAIN f : f[k] = 0
    BY <1>9, <1>10, Zenon
  <2>2. \A k \in DOMAIN f : f[k] \in Nat
    BY <2>1
  <2> QED
    BY <2>1, <2>2, NoCents, Zenon DEF Holds
<1> QED
  BY <1>8, <1>10 DEF Ledger

\* A step that leaves the rows of w, d and c alone leaves the books alone.
LEMMA SameBooks ==
  ASSUME Ledger,
         \A table \in {"w", "d", "c"} :
           /\ RowsOf(table)' = RowsOf(table)
           /\ \A k \in RowsOf(table) : db'[k] = db[k]
  PROVE  Ledger'
<1>1. /\ RowsOf("w")' = RowsOf("w") /\ \A k \in RowsOf("w") : db'[k] = db[k]
      /\ RowsOf("d")' = RowsOf("d") /\ \A k \in RowsOf("d") : db'[k] = db[k]
      /\ RowsOf("c")' = RowsOf("c") /\ \A k \in RowsOf("c") : db'[k] = db[k]
  OBVIOUS
<1>2. NumberRows'
  BY <1>1 DEF Ledger, NumberRows
<1>3. WarehouseTook' = WarehouseTook /\ DistrictTook' = DistrictTook
  BY <1>1, SMT DEF WarehouseTook, DistrictTook
<1>4. CustomerPaid' = CustomerPaid /\ BalanceLost' = BalanceLost
  BY <1>1, SMT DEF CustomerPaid, BalanceLost
<1>5. Books' = Books
  BY <1>3, <1>4, Zenon DEF Books
<1> QED
  BY <1>2, <1>5, Zenon DEF Ledger

\* A NewOrder writes no warehouse, district or customer row.
LEMMA NewOrderLedger ==
  ASSUME Ledger, NEW w, NEW d, NEW c, NEW lines, NewOrder(w, d, c, lines)
  PROVE  Ledger'
<1> DEFINE writes == NewOrderWrites(w, d, c, lines, db[kv_district_key(w, d)].d_next_o_id,
                       [n \in DOMAIN lines |->
                          NewQuantity(db[kv_stock_key(SupplyW(w), lines[n].i_id)].s_quantity,
                                      lines[n].qty)])
<1>1. db' = Overlay(writes, db)
  BY Zenon DEF NewOrder
<1>2. \A k \in DOMAIN writes : k.table \in {"o", "no", "nid", "ol", "s"}
  BY SMT DEF NewOrderWrites, kv_oorder_key, kv_new_order_key, kv_next_o_id_key,
             kv_order_line_key, kv_stock_key, Key
<1> HIDE DEF writes
<1>3. /\ DOMAIN db' = DOMAIN writes \union DOMAIN db
      /\ \A k \in DOMAIN db \ DOMAIN writes : db'[k] = db[k]
  BY <1>1, SMT DEF Overlay
<1>4. ASSUME NEW table \in {"w", "d", "c"}
      PROVE  RowsOf(table)' = RowsOf(table) /\ \A k \in RowsOf(table) : db'[k] = db[k]
  BY <1>2, <1>3, SMT DEF RowsOf
<1> QED
  BY <1>4, SameBooks, Zenon

\* A payment adds its amount to one row of each book.
LEMMA PaymentAdds ==
  ASSUME Ledger, NEW w, NEW cw, NEW cd, NEW c, NEW amount \in Nat, NEW now,
         Payment(w, cw, cd, c, amount, now)
  PROVE  /\ NumberRows'
         /\ Adds(WarehouseTook, WarehouseTook', amount)
         /\ Adds(DistrictTook, DistrictTook', amount)
         /\ Adds(CustomerPaid, CustomerPaid', amount)
         /\ Adds(BalanceLost, BalanceLost', amount)
<1> DEFINE wk == kv_warehouse_key(w)
           dk == kv_district_key(cw, cd)
           ck == kv_customer_key(cw, cd, c)
           hk == kv_history_key(w, cw, cd, c, now)
           writes == PaymentWrites(w, cw, cd, c, amount, now, db[wk].w_ytd, db[dk].d_ytd, db[ck])
<1>1. db' = Overlay(writes, db) /\ wk \in DOMAIN db /\ dk \in DOMAIN db /\ ck \in DOMAIN db
  BY Zenon DEF Payment
<1>2. wk.table = "w" /\ dk.table = "d" /\ ck.table = "c" /\ hk.table = "h"
  BY SMT DEF kv_warehouse_key, kv_district_key, kv_customer_key, kv_history_key, Key
<1>3. /\ DOMAIN writes = {wk, dk, ck, hk}
      /\ writes[wk] = WarehouseRow(db[wk].w_ytd, amount)
      /\ writes[dk] = DistrictRow(db[dk].d_ytd, amount)
      /\ writes[ck] = CustomerRow(db[ck], amount)
  BY <1>2, SMTT(60) DEF PaymentWrites
<1> HIDE DEF writes, wk, dk, ck, hk
<1>4. /\ DOMAIN db' = DOMAIN db \union {hk}
      /\ db'[wk].w_ytd = db[wk].w_ytd + amount
      /\ db'[dk].d_ytd = db[dk].d_ytd + amount
      /\ db'[ck].c_ytd_payment = db[ck].c_ytd_payment + amount
      /\ db'[ck].c_balance = db[ck].c_balance - amount
      /\ \A k \in DOMAIN db \ {wk, dk, ck, hk} : db'[k] = db[k]
  BY <1>1, <1>3, SMTT(60) DEF Overlay, WarehouseRow, DistrictRow, CustomerRow
<1>5. ASSUME NEW table \in {"w", "d", "c"} PROVE RowsOf(table)' = RowsOf(table)
  BY <1>2, <1>4, <1>5, SMT DEF RowsOf
<1>6. wk \in RowsOf("w") /\ \A k \in RowsOf("w") \ {wk} : db'[k] = db[k]
  BY <1>1, <1>2, <1>4, Zenon DEF RowsOf
<1>7. dk \in RowsOf("d") /\ \A k \in RowsOf("d") \ {dk} : db'[k] = db[k]
  BY <1>1, <1>2, <1>4, Zenon DEF RowsOf
<1>8. ck \in RowsOf("c") /\ \A k \in RowsOf("c") \ {ck} : db'[k] = db[k]
  BY <1>1, <1>2, <1>4, SMT DEF RowsOf
<1>9. RowsOf("w")' = RowsOf("w") /\ RowsOf("d")' = RowsOf("d") /\ RowsOf("c")' = RowsOf("c")
  BY <1>5, Zenon
<1>10. /\ \A k \in RowsOf("w") : db[k].w_ytd \in Int
       /\ \A k \in RowsOf("d") : db[k].d_ytd \in Int
       /\ \A k \in RowsOf("c") : db[k].c_ytd_payment \in Int /\ db[k].c_balance \in Int
  BY Zenon DEF Ledger, NumberRows
<1>11. NumberRows'
  <2>1. \A k \in RowsOf("w") : db'[k].w_ytd \in Int
    BY <1>4, <1>6, <1>10, SMTT(60)
  <2>2. \A k \in RowsOf("d") : db'[k].d_ytd \in Int
    BY <1>4, <1>7, <1>10, SMTT(60)
  <2>3. \A k \in RowsOf("c") : db'[k].c_ytd_payment \in Int /\ db'[k].c_balance \in Int
    BY <1>4, <1>8, <1>10, SMT
  <2> QED
    BY <1>9, <2>1, <2>2, <2>3, Zenon DEF NumberRows
<1>12. ASSUME NEW f \in Books, NEW k \in DOMAIN f PROVE f[k] \in Nat
  BY <1>12, Zenon DEF Ledger, Holds
<1>13. Adds(WarehouseTook, WarehouseTook', amount)
  <2>1. DOMAIN WarehouseTook = RowsOf("w") /\ DOMAIN WarehouseTook' = RowsOf("w")
    BY <1>9, SMT DEF WarehouseTook
  <2>2. WarehouseTook[wk] \in Nat
    BY <1>6, <1>12, <2>1, Zenon DEF Books
  <2>3. WarehouseTook'[wk] = WarehouseTook[wk] + amount
    BY <1>4, <1>6, <1>9, <1>10, SMTT(60) DEF WarehouseTook
  <2>4. \A k \in RowsOf("w") \ {wk} : WarehouseTook'[k] = WarehouseTook[k]
    BY <1>6, <1>9, SMT DEF WarehouseTook
  <2> QED
    BY <1>6, <2>1, <2>2, <2>3, <2>4, Zenon DEF Adds
<1>14. Adds(DistrictTook, DistrictTook', amount)
  <2>1. DOMAIN DistrictTook = RowsOf("d") /\ DOMAIN DistrictTook' = RowsOf("d")
    BY <1>9, SMT DEF DistrictTook
  <2>2. DistrictTook[dk] \in Nat
    BY <1>7, <1>12, <2>1, Zenon DEF Books
  <2>3. DistrictTook'[dk] = DistrictTook[dk] + amount
    BY <1>4, <1>7, <1>9, <1>10, SMTT(60) DEF DistrictTook
  <2>4. \A k \in RowsOf("d") \ {dk} : DistrictTook'[k] = DistrictTook[k]
    BY <1>7, <1>9, SMT DEF DistrictTook
  <2> QED
    BY <1>7, <2>1, <2>2, <2>3, <2>4, Zenon DEF Adds
<1>15. Adds(CustomerPaid, CustomerPaid', amount)
  <2>1. DOMAIN CustomerPaid = RowsOf("c") /\ DOMAIN CustomerPaid' = RowsOf("c")
    BY <1>9, SMT DEF CustomerPaid
  <2>2. CustomerPaid[ck] \in Nat
    BY <1>8, <1>12, <2>1, Zenon DEF Books
  <2>3. CustomerPaid'[ck] = CustomerPaid[ck] + amount
    BY <1>4, <1>8, <1>9, <1>10, SMTT(60) DEF CustomerPaid
  <2>4. \A k \in RowsOf("c") \ {ck} : CustomerPaid'[k] = CustomerPaid[k]
    BY <1>8, <1>9, SMTT(60) DEF CustomerPaid
  <2> QED
    BY <1>8, <2>1, <2>2, <2>3, <2>4, Zenon DEF Adds
<1>16. Adds(BalanceLost, BalanceLost', amount)
  <2>1. DOMAIN BalanceLost = RowsOf("c") /\ DOMAIN BalanceLost' = RowsOf("c")
    BY <1>9, SMT DEF BalanceLost
  <2>2. BalanceLost[ck] \in Nat
    BY <1>8, <1>12, <2>1, Zenon DEF Books
  <2>3. BalanceLost'[ck] = BalanceLost[ck] + amount
    BY <1>4, <1>8, <1>9, <1>10, SMTT(60) DEF BalanceLost
  <2>4. \A k \in RowsOf("c") \ {ck} : BalanceLost'[k] = BalanceLost[k]
    BY <1>8, <1>9, SMT DEF BalanceLost
  <2> QED
    BY <1>8, <2>1, <2>2, <2>3, <2>4, Zenon DEF Adds
<1> QED
  BY <1>11, <1>13, <1>14, <1>15, <1>16, Zenon

\* A book that held n cents holds n and the amount after the payment.
LEMMA AddsHolds ==
  ASSUME NEW f, NEW g, NEW a \in Nat, NEW n \in Nat, Adds(f, g, a), Holds(f, n)
  PROVE  Holds(g, n + a)
<1>1. IsFiniteSet(Cents(g)) /\ Cardinality(Cents(g)) = n + a
  BY CentsAdd, Zenon DEF Holds
<1>2. \A k \in DOMAIN g : g[k] \in Nat
  BY SMT DEF Adds, Holds
<1> QED
  BY <1>1, <1>2, Zenon DEF Holds

\* A payment keeps the books equal.
LEMMA PaymentLedger ==
  ASSUME Ledger, NEW w, NEW cw, NEW cd, NEW c, NEW amount \in Nat, NEW now,
         Payment(w, cw, cd, c, amount, now)
  PROVE  Ledger'
<1>1. PICK n \in Nat : \A f \in Books : Holds(f, n)
  BY Zenon DEF Ledger
<1>2. /\ NumberRows'
      /\ Adds(WarehouseTook, WarehouseTook', amount) /\ Adds(DistrictTook, DistrictTook', amount)
      /\ Adds(CustomerPaid, CustomerPaid', amount) /\ Adds(BalanceLost, BalanceLost', amount)
  BY PaymentAdds, Zenon
<1>3. /\ Holds(WarehouseTook, n) /\ Holds(DistrictTook, n)
      /\ Holds(CustomerPaid, n) /\ Holds(BalanceLost, n)
  BY <1>1, Zenon DEF Books
<1>4. /\ Holds(WarehouseTook', n + amount) /\ Holds(DistrictTook', n + amount)
      /\ Holds(CustomerPaid', n + amount) /\ Holds(BalanceLost', n + amount)
  BY <1>2, <1>3, AddsHolds, Zenon
<1>5. \A f \in Books' : Holds(f, n + amount)
  BY <1>4, Zenon DEF Books
<1>6. n + amount \in Nat
  OBVIOUS
<1> QED
  BY <1>2, <1>5, <1>6, Zenon DEF Ledger

\* tpcc_payment.c: no cent is lost or made between the warehouses, the districts
\* and the customers, for every number of them, every data set and every
\* sequence of payments, remote ones included.
THEOREM PaymentsConserveMoney == Spec => []MoneyConserved
<1>1. Ledger /\ [Next]_db => Ledger'
  <2> SUFFICES ASSUME Ledger, [Next]_db PROVE Ledger'
    OBVIOUS
  <2>1. ASSUME NEW w \in WIds, NEW d \in Districts, NEW c \in Customers,
               NEW lines \in Orders, NewOrder(w, d, c, lines)
        PROVE  Ledger'
    BY <2>1, NewOrderLedger, Zenon
  <2>2. ASSUME NEW cw \in WIds, NEW cd \in Districts, NEW c \in Customers,
               NEW amount \in Amounts, NEW now \in Times, Payment(1, cw, cd, c, amount, now)
        PROVE  Ledger'
    <3>1. amount \in Nat
      BY RowsAssumption, Zenon
    <3> QED
      BY <2>2, <3>1, PaymentLedger, Zenon
  <2>3. CASE UNCHANGED db
    <3>1. ASSUME NEW table \in {"w", "d", "c"}
          PROVE  RowsOf(table)' = RowsOf(table) /\ \A k \in RowsOf(table) : db'[k] = db[k]
      BY <2>3, Zenon DEF RowsOf
    <3> QED
      BY <3>1, SameBooks, Zenon
  <2> QED
    BY <2>1, <2>2, <2>3, Zenon DEF Next
<1>2. Ledger => MoneyConserved
  <2> SUFFICES ASSUME Ledger PROVE MoneyConserved
    OBVIOUS
  <2>1. PICK n \in Nat : \A f \in Books : Holds(f, n)
    BY Zenon DEF Ledger
  <2>2. Cardinality(Cents(WarehouseTook)) = n
    BY <2>1, Zenon DEF Books, Holds
  <2>3. ASSUME NEW f \in Books
        PROVE  /\ \A k \in DOMAIN f : f[k] \in Nat
               /\ Cardinality(Cents(f)) = Cardinality(Cents(WarehouseTook))
    BY <2>1, <2>2, <2>3, Zenon DEF Holds
  <2> QED
    BY <2>3, Zenon DEF MoneyConserved, Books
<1> QED
  BY <1>1, <1>2, InitLedger, PTL DEF Spec

----------------------------------------------------------------------------
(* Orders: the inductive invariant *)

\* The key of an order consists of its three ids.
OrderKeys == \A k \in RowsOf("o") : k = kv_oorder_key(k.id[1], k.id[2], k.id[3])

OrderInv == OrderKeys /\ NewOrderAtomic

\* The table and the ids in the key of an order.
LEMMA OrderId ==
  ASSUME NEW w, NEW d, NEW o, NEW k, k = kv_oorder_key(w, d, o)
  PROVE  k.table = "o" /\ k.id[1] = w /\ k.id[2] = d /\ k.id[3] = o
BY SMT DEF kv_oorder_key, Key

\* The same of the key of a new_order row.
LEMMA NewOrderId ==
  ASSUME NEW w, NEW d, NEW o, NEW k, k = kv_new_order_key(w, d, o)
  PROVE  k.table = "no" /\ k.id[1] = w /\ k.id[2] = d /\ k.id[3] = o
BY SMT DEF kv_new_order_key, Key

\* The same of the key of an order line.
LEMMA OrderLineId ==
  ASSUME NEW w, NEW d, NEW o, NEW n, NEW k, k = kv_order_line_key(w, d, o, n)
  PROVE  k.table = "ol" /\ k.id[1] = w /\ k.id[2] = d /\ k.id[3] = o
BY SMT DEF kv_order_line_key, Key

\* What start_stock_reads writes of an order.
LEMMA OrderRows ==
  ASSUME NEW w, NEW d, NEW c, NEW lines, NEW o_id, NEW quantity, NEW writes,
         writes = NewOrderWrites(w, d, c, lines, o_id, quantity)
  PROVE  /\ \A k \in DOMAIN writes :
              /\ k.table = "o" => k = kv_oorder_key(w, d, o_id)
              /\ k.table = "no" => k = kv_new_order_key(w, d, o_id)
              /\ k.table = "ol" => \E n \in DOMAIN lines : k = kv_order_line_key(w, d, o_id, n)
         /\ kv_oorder_key(w, d, o_id) \in DOMAIN writes
         /\ writes[kv_oorder_key(w, d, o_id)].o_ol_cnt = Len(lines)
         /\ kv_new_order_key(w, d, o_id) \in DOMAIN writes
         /\ \A n \in DOMAIN lines :
              LET ol == kv_order_line_key(w, d, o_id, n) IN
                /\ ol \in DOMAIN writes
                /\ writes[ol].ol_i_id = lines[n].i_id /\ writes[ol].ol_quantity = lines[n].qty
<1> DEFINE ok == kv_oorder_key(w, d, o_id)
           nk == kv_new_order_key(w, d, o_id)
           lk(n) == kv_order_line_key(w, d, o_id, n)
           ck == kv_next_o_id_key(w, d)
           sk(n) == kv_stock_key(SupplyW(w), lines[n].i_id)
<1>1. ok.table = "o" /\ nk.table = "no" /\ ck.table = "nid"
  BY SMT DEF kv_oorder_key, kv_new_order_key, kv_next_o_id_key, Key
<1>2. ASSUME NEW n PROVE lk(n).table = "ol" /\ lk(n).id[4] = n /\ sk(n).table = "s"
  BY SMTT(60) DEF kv_order_line_key, kv_stock_key, Key
<1>3. DOMAIN writes = {ok, nk, ck} \union {lk(n) : n \in DOMAIN lines}
                                 \union {sk(n) : n \in DOMAIN lines}
  BY ZenonT(60) DEF NewOrderWrites
<1>4. ASSUME NEW k \in DOMAIN writes
      PROVE  /\ k.table = "o" => writes[k] = [o_c_id |-> c, o_ol_cnt |-> Len(lines)]
             /\ k.table = "ol" => writes[k] = [ol_i_id |-> lines[k.id[4]].i_id,
                                              ol_quantity |-> lines[k.id[4]].qty,
                                              ol_amount |-> lines[k.id[4]].qty * 100]
  BY <1>4, SMTT(60) DEF NewOrderWrites
<1> HIDE DEF ok, nk, lk, ck, sk
<1>5. ASSUME NEW k \in DOMAIN writes
      PROVE  /\ k.table = "o" => k = ok
             /\ k.table = "no" => k = nk
             /\ k.table = "ol" => \E n \in DOMAIN lines : k = lk(n)
  BY <1>1, <1>2, <1>3, <1>5, SMTT(60)
<1>6. /\ ok \in DOMAIN writes /\ nk \in DOMAIN writes
      /\ writes[ok].o_ol_cnt = Len(lines)
  <2>1. ok \in DOMAIN writes /\ nk \in DOMAIN writes
    BY <1>3, Zenon
  <2>2. writes[ok] = [o_c_id |-> c, o_ol_cnt |-> Len(lines)]
    BY <1>1, <1>4, <2>1, Zenon
  <2> QED
    BY <2>1, <2>2, SMT
<1>7. ASSUME NEW n \in DOMAIN lines
      PROVE  /\ lk(n) \in DOMAIN writes
             /\ writes[lk(n)].ol_i_id = lines[n].i_id /\ writes[lk(n)].ol_quantity = lines[n].qty
  <2>1. lk(n) \in DOMAIN writes
    BY <1>3, <1>7, Zenon
  <2>2. lk(n).table = "ol" /\ lk(n).id[4] = n
    BY <1>2, Zenon
  <2>3. writes[lk(n)] = [ol_i_id |-> lines[lk(n).id[4]].i_id,
                         ol_quantity |-> lines[lk(n).id[4]].qty,
                         ol_amount |-> lines[lk(n).id[4]].qty * 100]
    BY <1>4, <2>1, <2>2, Zenon
  <2> QED
    BY <2>1, <2>2, <2>3, SMTT(60)
<1> QED
  BY <1>5, <1>6, <1>7, Zenon DEF ok, nk, lk

\* No order is in the store the server starts with.
LEMMA InitOrders == Init => OrderInv
<1> SUFFICES ASSUME Init PROVE OrderInv
  OBVIOUS
<1>1. PICK data \in Loaded : db = Overlay(LoaderRows, DataSet(data.customers, data.stock))
  BY Zenon DEF Init
<1> DEFINE rows == DataSet(data.customers, data.stock)
<1>2. ASSUME NEW k \in DOMAIN LoaderRows PROVE k.table \in {"w", "d", "nid"}
  BY <1>2, SMTT(60) DEF LoaderRows, kv_warehouse_key, kv_district_key, kv_next_o_id_key, Key
<1>3. ASSUME NEW k \in DOMAIN rows PROVE k.table \in {"c", "s"}
  BY <1>3, SMT DEF DataSet, kv_customer_key, kv_stock_key, Key
<1>4. db = Overlay(LoaderRows, rows)
  BY <1>1, Zenon
<1> HIDE DEF rows
<1>5. DOMAIN db = DOMAIN LoaderRows \union DOMAIN rows
  BY <1>4, SMT DEF Overlay
<1>6. RowsOf("o") = {} /\ RowsOf("no") = {} /\ RowsOf("ol") = {}
  BY <1>2, <1>3, <1>5, SMT DEF RowsOf
<1> QED
  BY <1>6, Zenon DEF OrderInv, OrderKeys, NewOrderAtomic

\* A step that leaves the rows of orders, new orders and lines alone.
LEMMA SameOrders ==
  ASSUME OrderInv,
         \A k : k.table \in {"o", "no", "ol"} =>
           /\ k \in DOMAIN db' <=> k \in DOMAIN db
           /\ k \in DOMAIN db => db'[k] = db[k]
  PROVE  OrderInv'
<1>1. ASSUME NEW k, k.table = "o" \/ k.table = "no" \/ k.table = "ol"
      PROVE  (k \in DOMAIN db' <=> k \in DOMAIN db) /\ (k \in DOMAIN db => db'[k] = db[k])
  BY <1>1, SMTT(30)
<1>2. ASSUME NEW k \in RowsOf("o")' PROVE k \in RowsOf("o") /\ db'[k] = db[k]
  BY <1>1, <1>2, SMT DEF RowsOf
<1>3. OrderKeys'
  BY <1>2, Zenon DEF OrderInv, OrderKeys
<1>4. ASSUME NEW k \in RowsOf("o")' PROVE WholeOrder(k)'
  <2>1. PICK lines \in Orders :
          /\ db[k].o_ol_cnt = Len(lines)
          /\ kv_new_order_key(k.id[1], k.id[2], k.id[3]) \in DOMAIN db
          /\ \A n \in DOMAIN lines :
               LET ol == kv_order_line_key(k.id[1], k.id[2], k.id[3], n) IN
                 /\ ol \in DOMAIN db
                 /\ db[ol].ol_i_id = lines[n].i_id /\ db[ol].ol_quantity = lines[n].qty
    BY <1>2, <1>4, Zenon DEF OrderInv, NewOrderAtomic, WholeOrder
  <2>2. kv_new_order_key(k.id[1], k.id[2], k.id[3]) \in DOMAIN db'
    BY <1>1, <2>1, NewOrderId, SMTT(30)
  <2>3. ASSUME NEW n \in DOMAIN lines
        PROVE  LET ol == kv_order_line_key(k.id[1], k.id[2], k.id[3], n) IN
                 ol \in DOMAIN db' /\ db'[ol] = db[ol]
    <3> DEFINE ol == kv_order_line_key(k.id[1], k.id[2], k.id[3], n)
    <3>1. ol \in DOMAIN db /\ ol.table = "ol"
      BY <2>1, <2>3, OrderLineId, SMTT(60)
    <3> QED
      BY <1>1, <3>1, Zenon
  <2> QED
    BY <1>2, <1>4, <2>1, <2>2, <2>3, ZenonT(60) DEF WholeOrder
<1>5. ASSUME NEW k \in RowsOf("no")' \union RowsOf("ol")'
      PROVE  kv_oorder_key(k.id[1], k.id[2], k.id[3]) \in DOMAIN db'
  <2>1. k \in RowsOf("no") \union RowsOf("ol")
    BY <1>1, <1>5, Zenon DEF RowsOf
  <2>2. kv_oorder_key(k.id[1], k.id[2], k.id[3]) \in DOMAIN db
    BY <2>1, Zenon DEF OrderInv, NewOrderAtomic
  <2> QED
    BY <1>1, <2>2, OrderId, SMTT(30)
<1> QED
  BY <1>3, <1>4, <1>5, Zenon DEF OrderInv, NewOrderAtomic

\* A NewOrder replaces the order with its id, if there is one, and the lines it
\* counts.
LEMMA WritesWholeOrder ==
  ASSUME OrderInv, NEW w, NEW d, NEW c, NEW lines \in Orders, NEW o_id, NEW quantity, NEW writes,
         writes = NewOrderWrites(w, d, c, lines, o_id, quantity), db' = Overlay(writes, db)
  PROVE  OrderInv'
<1> DEFINE ok == kv_oorder_key(w, d, o_id)
<1>1. /\ \A k \in DOMAIN writes :
           /\ k.table = "o" => k = ok
           /\ k.table = "no" => k = kv_new_order_key(w, d, o_id)
           /\ k.table = "ol" => \E n \in DOMAIN lines : k = kv_order_line_key(w, d, o_id, n)
      /\ ok \in DOMAIN writes /\ writes[ok].o_ol_cnt = Len(lines)
      /\ kv_new_order_key(w, d, o_id) \in DOMAIN writes
      /\ \A n \in DOMAIN lines :
           LET ol == kv_order_line_key(w, d, o_id, n) IN
             /\ ol \in DOMAIN writes
             /\ writes[ol].ol_i_id = lines[n].i_id /\ writes[ol].ol_quantity = lines[n].qty
  BY OrderRows, SMTT(60)
<1>2. ok.table = "o" /\ ok.id[1] = w /\ ok.id[2] = d /\ ok.id[3] = o_id
  BY OrderId, SMTT(30)
<1> HIDE DEF ok
<1>3. /\ DOMAIN db' = DOMAIN writes \union DOMAIN db
      /\ \A k \in DOMAIN writes : db'[k] = writes[k]
      /\ \A k \in DOMAIN db \ DOMAIN writes : db'[k] = db[k]
  BY SMT DEF Overlay
<1>4. ASSUME NEW k \in RowsOf("o")', k # ok
      PROVE  k \in RowsOf("o") /\ db'[k] = db[k] /\ k = kv_oorder_key(k.id[1], k.id[2], k.id[3])
  <2>1. k \in DOMAIN db \ DOMAIN writes /\ k.table = "o"
    BY <1>1, <1>3, <1>4, Zenon DEF RowsOf
  <2> QED
    BY <1>3, <2>1, Zenon DEF OrderInv, OrderKeys, RowsOf
<1>5. OrderKeys'
  <2>1. ok = kv_oorder_key(ok.id[1], ok.id[2], ok.id[3])
    BY <1>2, Zenon DEF ok
  <2> QED
    BY <1>4, <2>1, Zenon DEF OrderKeys
<1>6. WholeOrder(ok)'
  <2>1. db'[ok].o_ol_cnt = Len(lines) /\ kv_new_order_key(w, d, o_id) \in DOMAIN db'
    BY <1>1, <1>3, Zenon
  <2>2. ASSUME NEW n \in DOMAIN lines
        PROVE  LET ol == kv_order_line_key(w, d, o_id, n) IN
                 /\ ol \in DOMAIN db'
                 /\ db'[ol].ol_i_id = lines[n].i_id /\ db'[ol].ol_quantity = lines[n].qty
    BY <1>1, <1>3, <2>2, ZenonT(60)
  <2>3. /\ kv_new_order_key(ok.id[1], ok.id[2], ok.id[3]) = kv_new_order_key(w, d, o_id)
        /\ \A n : kv_order_line_key(ok.id[1], ok.id[2], ok.id[3], n)
                  = kv_order_line_key(w, d, o_id, n)
    BY <1>2, Zenon
  <2>4. ASSUME NEW n \in DOMAIN lines
        PROVE  LET ol == kv_order_line_key(ok.id[1], ok.id[2], ok.id[3], n) IN
                 /\ ol \in DOMAIN db'
                 /\ db'[ol].ol_i_id = lines[n].i_id /\ db'[ol].ol_quantity = lines[n].qty
    BY <2>2, <2>3, <2>4, SMTT(60)
  <2>5. kv_new_order_key(ok.id[1], ok.id[2], ok.id[3]) \in DOMAIN db'
    BY <2>1, <2>3, SMTT(30)
  <2> QED
    BY <2>1, <2>4, <2>5, Zenon DEF WholeOrder
<1>7. ASSUME NEW k \in RowsOf("o")', k # ok PROVE WholeOrder(k)'
  <2>1. PICK old \in Orders :
          /\ db[k].o_ol_cnt = Len(old)
          /\ kv_new_order_key(k.id[1], k.id[2], k.id[3]) \in DOMAIN db
          /\ \A n \in DOMAIN old :
               LET ol == kv_order_line_key(k.id[1], k.id[2], k.id[3], n) IN
                 /\ ol \in DOMAIN db
                 /\ db[ol].ol_i_id = old[n].i_id /\ db[ol].ol_quantity = old[n].qty
    BY <1>4, <1>7, Zenon DEF OrderInv, NewOrderAtomic, WholeOrder
  <2>2. kv_new_order_key(k.id[1], k.id[2], k.id[3]) \in DOMAIN db'
    BY <1>3, <2>1, Zenon
  <2>3. ~(k.id[1] = w /\ k.id[2] = d /\ k.id[3] = o_id)
    BY <1>4, <1>7, Zenon DEF ok
  <2>4. ASSUME NEW n \in DOMAIN old
        PROVE  LET ol == kv_order_line_key(k.id[1], k.id[2], k.id[3], n) IN
                 ol \in DOMAIN db' /\ db'[ol] = db[ol]
    <3> DEFINE ol == kv_order_line_key(k.id[1], k.id[2], k.id[3], n)
    <3>1. /\ ol \in DOMAIN db /\ ol.table = "ol"
          /\ ol.id[1] = k.id[1] /\ ol.id[2] = k.id[2] /\ ol.id[3] = k.id[3]
      BY <2>1, <2>4, OrderLineId, SMTT(60)
    <3> HIDE DEF ol
    <3>2. ASSUME ol \in DOMAIN writes PROVE FALSE
      <4>1. PICK m \in DOMAIN lines : ol = kv_order_line_key(w, d, o_id, m)
        BY <1>1, <3>1, <3>2, ZenonT(60)
      <4>2. ol.id[1] = w /\ ol.id[2] = d /\ ol.id[3] = o_id
        BY <4>1, OrderLineId, SMTT(30)
      <4> QED
        BY <2>3, <3>1, <4>2, Zenon
    <3>3. ol \in DOMAIN db' /\ db'[ol] = db[ol]
      BY <1>3, <3>1, <3>2, Zenon
    <3> QED
      BY <3>3, ZenonT(60) DEF ol
  <2> QED
    BY <1>4, <1>7, <2>1, <2>2, <2>4, ZenonT(60) DEF WholeOrder
<1>8. ASSUME NEW k \in RowsOf("no")' \union RowsOf("ol")'
      PROVE  kv_oorder_key(k.id[1], k.id[2], k.id[3]) \in DOMAIN db'
  <2>1. CASE k \in DOMAIN writes
    <3>1. k.id[1] = w /\ k.id[2] = d /\ k.id[3] = o_id
      <4>1. k.table = "no" \/ k.table = "ol"
        BY <1>8, Zenon DEF RowsOf
      <4> QED
        BY <1>1, <2>1, <4>1, NewOrderId, OrderLineId, SMTT(60)
    <3> QED
      BY <1>1, <1>3, <3>1, ZenonT(60) DEF ok
  <2>2. CASE k \notin DOMAIN writes
    <3>1. k \in RowsOf("no") \union RowsOf("ol")
      BY <1>3, <1>8, <2>2, Zenon DEF RowsOf
    <3> QED
      BY <1>3, <3>1, Zenon DEF OrderInv, NewOrderAtomic
  <2> QED
    BY <2>1, <2>2, Zenon
<1> QED
  <2>1. ASSUME NEW k \in RowsOf("o")' PROVE WholeOrder(k)'
    <3>1. CASE k = ok
      BY <1>6, <3>1, Zenon
    <3>2. CASE k # ok
      BY <1>7, <2>1, <3>2, ZenonT(60)
    <3> QED
      BY <3>1, <3>2, Zenon
  <2> QED
    BY <1>5, <1>8, <2>1, Zenon DEF OrderInv, NewOrderAtomic

\* A NewOrder leaves every order whole, its own and those before it.
LEMMA NewOrderOrders ==
  ASSUME OrderInv, NEW w, NEW d, NEW c, NEW lines \in Orders, NewOrder(w, d, c, lines)
  PROVE  OrderInv'
<1>1. PICK o_id : o_id = db[kv_district_key(w, d)].d_next_o_id
  BY Zenon
<1>2. PICK quantity : quantity = [n \in DOMAIN lines |->
        NewQuantity(db[kv_stock_key(SupplyW(w), lines[n].i_id)].s_quantity, lines[n].qty)]
  BY Zenon
<1>3. PICK writes : writes = NewOrderWrites(w, d, c, lines, o_id, quantity)
  BY Zenon
<1>4. db' = Overlay(writes, db)
  BY <1>1, <1>2, <1>3, ZenonT(60) DEF NewOrder
<1> QED
  BY <1>3, <1>4, WritesWholeOrder, Zenon

\* A Payment writes no order, new_order or order line.
LEMMA PaymentOrders ==
  ASSUME OrderInv, NEW w, NEW cw, NEW cd, NEW c, NEW amount, NEW now,
         Payment(w, cw, cd, c, amount, now)
  PROVE  OrderInv'
<1> DEFINE writes == PaymentWrites(w, cw, cd, c, amount, now,
                       db[kv_warehouse_key(w)].w_ytd, db[kv_district_key(cw, cd)].d_ytd,
                       db[kv_customer_key(cw, cd, c)])
<1>1. db' = Overlay(writes, db)
  BY Zenon DEF Payment
<1>2. \A k \in DOMAIN writes : k.table \in {"w", "d", "c", "h"}
  BY SMT DEF PaymentWrites, kv_warehouse_key, kv_district_key, kv_customer_key,
             kv_history_key, Key
<1> HIDE DEF writes
<1>3. /\ DOMAIN db' = DOMAIN writes \union DOMAIN db
      /\ \A k \in DOMAIN db \ DOMAIN writes : db'[k] = db[k]
  BY <1>1, SMT DEF Overlay
<1>4. ASSUME NEW k, k.table \in {"o", "no", "ol"} PROVE k \notin DOMAIN writes
  BY <1>2, <1>4, SMTT(60)
<1> QED
  BY <1>3, <1>4, SameOrders, SMTT(30)

\* rfd/0001 "NewOrder atomicity": whatever orders and payments ran, and however
\* often an order id was used again, every order has the lines it counts, from one
\* NewOrder, and no line is without an order; it may have lines beyond them.
THEOREM OrdersStayWhole == Spec => []NewOrderAtomic
<1>1. OrderInv /\ [Next]_db => OrderInv'
  <2> SUFFICES ASSUME OrderInv, [Next]_db PROVE OrderInv'
    OBVIOUS
  <2>1. ASSUME NEW w \in WIds, NEW d \in Districts, NEW c \in Customers,
               NEW lines \in Orders, NewOrder(w, d, c, lines)
        PROVE  OrderInv'
    BY <2>1, NewOrderOrders, Zenon
  <2>2. ASSUME NEW cw \in WIds, NEW cd \in Districts, NEW c \in Customers,
               NEW amount \in Amounts, NEW now \in Times, Payment(1, cw, cd, c, amount, now)
        PROVE  OrderInv'
    BY <2>2, PaymentOrders, Zenon
  <2>3. CASE UNCHANGED db
    BY <2>3, SameOrders, Zenon
  <2> QED
    BY <2>1, <2>2, <2>3, Zenon DEF Next
<1>2. OrderInv => NewOrderAtomic
  BY Zenon DEF OrderInv
<1> QED
  BY <1>1, <1>2, InitOrders, PTL DEF Spec
=============================================================================
