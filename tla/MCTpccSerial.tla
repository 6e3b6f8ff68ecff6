---------------------------- MODULE MCTpccSerial ----------------------------
EXTENDS TpccSerial

\* Two items, and a longer order with all lines for the same item.
MCOrders == {<<[i_id |-> 1, qty |-> 10], [i_id |-> 2, qty |-> 10]>>,
             <<[i_id |-> 1, qty |-> 10], [i_id |-> 1, qty |-> 5],
               [i_id |-> 1, qty |-> 2]>>}

MCLoaded == {[customers |-> {1}, stock |-> <<10, 19>>],
             [customers |-> {1, 2}, stock |-> <<100>>],
             [customers |-> {}, stock |-> <<>>]}

MaxYtd == 30000400     \* bound on the warehouse total: two payments
OrdersIn == {257}      \* bound: the warehouse that takes orders, from the stock of 1

BoundedNext ==
  /\ Next
  /\ \A w \in Warehouses : db'[kv_warehouse_key(w)].w_ytd <= MaxYtd
  /\ \A k \in DOMAIN db' \ DOMAIN db : k.table = "o" => k.id[1] \in OrdersIn
  /\ \A k \in DOMAIN db : k.table = "nid" /\ db'[k] # db[k] => k.id[1] \in OrdersIn

BoundedSpec == Init /\ [][BoundedNext]_db
=============================================================================
