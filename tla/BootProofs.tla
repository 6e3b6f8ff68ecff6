----------------------------- MODULE BootProofs -----------------------------
(* Proofs about the container's boot for every number of rows, batches,     *)
(* warehouses, threads and failures: what is in the store however often the *)
(* loader was killed, and in what order main takes the server down.         *)
EXTENDS Boot, FiniteSetTheorems, TLAPS

----------------------------------------------------------------------------
(* The loader *)

\* The draws before a row: the loader always starts from the same seed.
Value(k) ==
  IF k[1] = "item" THEN 3 * (k[2] - 1)
  ELSE IF k[1] = "warehouse" THEN 3 * ItemCount + (k[2] - 1)
  ELSE IF k[1] = "district" THEN 3 * ItemCount + W + (k[2] - 1)
  ELSE IF k[1] = "world" THEN 3 * ItemCount + W + W * Districts + (k[2] - 1)
  ELSE 3001

PastItems == {"warehouses", "districts", "world", "stop", "join", "done"}

Network == {"none", "running", "gone"}

LoaderType ==
  /\ loader \in [pc : PastItems \union {"none", "items", "failed"},
                 next : Nat, draws : Nat, network : Network]
  /\ loader.next > 0

\* How far the loader is: its next row, the draws made, the items stored.
Progress ==
  /\ loader.pc = "items" =>
       /\ loader.draws = 3 * (loader.next - 1)
       /\ \A i \in 1..loader.next-1 : <<"item", i>> \in DOMAIN store
  /\ loader.pc = "warehouses" => loader.next = 1 /\ loader.draws = 3 * ItemCount
  /\ loader.pc = "districts" => loader.next = 1 /\ loader.draws = 3 * ItemCount + W
  /\ loader.pc = "world" =>
       loader.draws = 3 * ItemCount + W + W * Districts + (loader.next - 1)
  /\ loader.pc \in PastItems => Items \subseteq DOMAIN store

Contents == \A k \in DOMAIN store : store[k] = Value(k)

LoaderInv == LoaderType /\ Progress /\ Contents

\* A commit only adds rows, and keeps the contents if its own are right.
LEMMA CommitAdds ==
  ASSUME Contents, NEW rows, NEW outcome, Committed(rows, outcome),
         \A k \in DOMAIN rows : rows[k] = Value(k)
  PROVE  /\ Contents'
         /\ DOMAIN store \subseteq DOMAIN store'
         /\ DOMAIN store' \subseteq DOMAIN store \union DOMAIN rows
         /\ outcome = "ok" => DOMAIN rows \subseteq DOMAIN store'
<1>1. CASE outcome \in {"failed", "dropped"}
  BY <1>1 DEF Committed, Contents, Value
<1>2. CASE outcome \notin {"failed", "dropped"}
  <2>1. store' = Overlay(rows, store)
    BY <1>2 DEF Committed
  <2>2. DOMAIN store' = DOMAIN rows \union DOMAIN store
    BY <2>1 DEF Overlay
  <2>3. \A k \in DOMAIN store' : store'[k] = IF k \in DOMAIN rows THEN rows[k] ELSE store[k]
    BY <2>1 DEF Overlay
  <2>4. \A k \in DOMAIN store' : store'[k] = Value(k)
    BY <2>2, <2>3 DEF Contents
  <2> QED BY <1>2, <2>2, <2>4 DEF Contents, Value
<1> QED BY <1>1, <1>2

\* Each table's transactions keep the invariant, and no row goes away.
LEMMA LoadItemsInv ==
  ASSUME LoaderInv, NEW outcome \in Outcomes, LoadItems(outcome)
  PROVE  LoaderInv' /\ DOMAIN store \subseteq DOMAIN store'
<1> USE DEF LoaderInv
<1>0. PICK last \in Int : last = loader.next + BatchSize - 1
  BY LoaderAssumption DEF LoaderType
<1> DEFINE rows == Batch("item", loader.next, last, 3, loader.draws)
<1>1. /\ loader.pc = "items" /\ loader.next \in Nat /\ loader.next > 0 /\ loader.draws = 3 * (loader.next - 1)
      /\ \A i \in 1..loader.next-1 : <<"item", i>> \in DOMAIN store
      /\ BatchSize \in Nat /\ BatchSize > 0 /\ ItemCount \in Nat /\ last \in Nat
  BY <1>0, LoaderAssumption DEF LoadItems, LoadBatch, LoaderType, Progress
<1>2. /\ Committed(rows, outcome)
      /\ IF outcome \in Silent THEN LoaderBlocks
         ELSE IF outcome # "ok" THEN LoaderFails
         ELSE loader' = [loader EXCEPT !.pc = IF last = ItemCount THEN "warehouses" ELSE "items",
                                       !.next = IF last = ItemCount THEN 1 ELSE last + 1,
                                       !.draws = @ + 3 * BatchSize]
  BY <1>0 DEF LoadItems, LoadBatch
<1>3. /\ \A i \in loader.next..last : <<"item", i>> \in DOMAIN rows
      /\ \A k \in DOMAIN rows :
           /\ k[1] = "item" /\ k[2] \in loader.next..last /\ k = <<"item", k[2]>>
           /\ rows[k] = loader.draws + 3 * (k[2] - loader.next)
  BY <1>1 DEF Batch
<1> HIDE DEF rows
<1>4. \A k \in DOMAIN rows : rows[k] = Value(k)
  BY <1>1, <1>3 DEF Value
<1>5. /\ Contents' /\ DOMAIN store \subseteq DOMAIN store'
      /\ DOMAIN store' \subseteq DOMAIN store \union DOMAIN rows
      /\ outcome = "ok" => DOMAIN rows \subseteq DOMAIN store'
  BY <1>2, <1>4, CommitAdds
<1>6. LoaderType' /\ Progress'
  <2>1. CASE outcome \notin Silent /\ outcome # "ok"
    BY <1>2, <2>1, ZenonT(60) DEF LoaderFails, LoaderType, Progress, PastItems, Network
  <2>s. CASE outcome \in Silent
    <3>1. loader' = [loader EXCEPT !.network = "gone"]
      BY <1>2, <2>s, Zenon DEF LoaderBlocks
    <3>2. LoaderType' /\ loader'.pc = loader.pc /\ loader'.next = loader.next /\ loader'.draws = loader.draws
      BY <3>1, ZenonT(60) DEF LoaderType, Network
    <3> QED BY <1>1, <1>5, <3>2, SMTT(60) DEF Progress, PastItems
  <2>2. CASE outcome = "ok"
    <3>0. outcome \notin Silent
      BY <2>2 DEF Silent
    <3>1. \A i \in 1..last : <<"item", i>> \in DOMAIN store'
      <4> SUFFICES ASSUME NEW i \in 1..last PROVE <<"item", i>> \in DOMAIN store'
        BY Zenon
      <4>1. CASE i < loader.next
        BY <1>1, <1>5, <4>1
      <4>2. CASE i >= loader.next
        BY <1>1, <1>3, <1>5, <2>2, <4>2
      <4> QED BY <1>1, <4>1, <4>2
    <3>2. last = ItemCount => Items \subseteq DOMAIN store'
      BY <3>1 DEF Items
    <3>3. loader.draws + 3 * BatchSize = 3 * last
      BY <1>0, <1>1
    <3>n. 3 * last \in Nat /\ last + 1 \in Nat /\ loader.network \in Network
      BY <1>1 DEF LoaderType
    <3>4. CASE last = ItemCount
      <4>1. loader' = [pc |-> "warehouses", next |-> 1, draws |-> 3 * last,
                       network |-> loader.network]
        BY <1>2, <2>2, <3>0, <3>3, <3>4, Zenon DEF LoaderType
      <4>2. LoaderType'
        BY <1>1, <3>n, <4>1 DEF LoaderType, PastItems
      <4>3. Items' = Items /\ Items' \subseteq DOMAIN store'
        BY <3>2, <3>4 DEF Items
      <4> QED BY <3>4, <4>1, <4>2, <4>3 DEF Progress
    <3>5. CASE last # ItemCount
      <4>1. loader' = [pc |-> "items", next |-> last + 1, draws |-> 3 * last,
                       network |-> loader.network]
        BY <1>2, <2>2, <3>0, <3>3, <3>5, Zenon DEF LoaderType
      <4>2. LoaderType'
        BY <1>1, <3>n, <4>1 DEF LoaderType, PastItems
      <4> QED BY <1>1, <3>1, <4>1, <4>2 DEF Progress, PastItems
    <3> QED BY <3>4, <3>5
  <2> QED BY <2>1, <2>s, <2>2
<1> QED BY <1>5, <1>6

\* load_warehouse keeps the invariant and removes no row.
LEMMA LoadWarehousesInv ==
  ASSUME LoaderInv, NEW outcome \in Outcomes, LoadWarehouses(outcome)
  PROVE  LoaderInv' /\ DOMAIN store \subseteq DOMAIN store'
<1> USE DEF LoaderInv
<1> DEFINE rows == Batch("warehouse", 1, W, 1, loader.draws)
<1>1. /\ loader.next = 1 /\ loader.draws = 3 * ItemCount /\ Items \subseteq DOMAIN store
      /\ ItemCount \in Nat /\ W \in Nat /\ loader.pc = "warehouses"
  BY LoaderAssumption DEF LoadWarehouses, Progress, PastItems
<1>2. /\ Committed(rows, outcome)
      /\ IF outcome \in Silent THEN LoaderBlocks
         ELSE loader' = [loader EXCEPT !.pc = "districts", !.draws = @ + W]
  BY DEF LoadWarehouses
<1>3. \A k \in DOMAIN rows :
         k[1] = "warehouse" /\ k[2] \in 1..W /\ rows[k] = loader.draws + 1 * (k[2] - 1)
  BY <1>1 DEF Batch
<1> HIDE DEF rows
<1>4. \A k \in DOMAIN rows : rows[k] = Value(k)
  BY <1>1, <1>3 DEF Value
<1>5. /\ Contents' /\ DOMAIN store \subseteq DOMAIN store'
      /\ DOMAIN store' \subseteq DOMAIN store \union DOMAIN rows
  BY <1>2, <1>4, CommitAdds
<1>6. LoaderType' /\ Progress'
  <2>1. Items' = Items
    BY DEF Items
  <2>2. Items' \subseteq DOMAIN store'
    BY <1>1, <1>5, <2>1
  <2>s. CASE outcome \in Silent
    <3>1. loader' = [loader EXCEPT !.network = "gone"]
      BY <1>2, <2>s, Zenon DEF LoaderBlocks
    <3>2. LoaderType' /\ loader'.pc = loader.pc /\ loader'.next = loader.next /\ loader'.draws = loader.draws
      BY <3>1, ZenonT(60) DEF LoaderType, Network
    <3> QED BY <1>1, <2>2, <3>2, SMTT(60) DEF Progress, PastItems
  <2>3. CASE outcome \notin Silent
    <3>1. 3 * ItemCount + W \in Nat
      BY <1>1
    <3>2. loader' = [pc |-> "districts", next |-> 1, draws |-> 3 * ItemCount + W,
                     network |-> loader.network]
      BY <1>1, <1>2, <2>3, Zenon DEF LoaderType
    <3>3. loader.network \in Network
      BY DEF LoaderType
    <3>4. LoaderType'
      BY <3>1, <3>2, <3>3 DEF LoaderType, PastItems
    <3> QED BY <2>2, <3>2, <3>4 DEF Progress
  <2> QED BY <2>s, <2>3
<1> QED BY <1>5, <1>6

\* So does load_districts_and_next_o_id.
LEMMA LoadDistrictsInv ==
  ASSUME LoaderInv, NEW outcome \in Outcomes, LoadDistricts(outcome)
  PROVE  LoaderInv' /\ DOMAIN store \subseteq DOMAIN store'
<1> USE DEF LoaderInv
<1> DEFINE rows == DistrictRows(loader.draws)
<1>0. PICK n \in Nat : n = W * Districts
  BY LoaderAssumption
<1>1. /\ loader.next = 1 /\ loader.draws = 3 * ItemCount + W /\ Items \subseteq DOMAIN store
      /\ ItemCount \in Nat /\ W \in Nat /\ loader.pc = "districts"
  BY LoaderAssumption DEF LoadDistricts, Progress, PastItems
<1>2. /\ Committed(rows, outcome)
      /\ IF outcome \in Silent THEN LoaderBlocks
         ELSE loader' = [loader EXCEPT !.pc = "world", !.draws = @ + n]
  BY <1>0 DEF LoadDistricts
<1>3. \A k \in DOMAIN rows :
         /\ k[1] = "district" \/ k[1] = "nid"
         /\ k[2] \in 1..n
         /\ rows[k] = IF k[1] = "district" THEN loader.draws + k[2] - 1 ELSE 3001
  BY <1>0 DEF DistrictRows
<1> HIDE DEF rows
<1>4. \A k \in DOMAIN rows : rows[k] = Value(k)
  BY <1>1, <1>3 DEF Value
<1>5. /\ Contents' /\ DOMAIN store \subseteq DOMAIN store'
      /\ DOMAIN store' \subseteq DOMAIN store \union DOMAIN rows
  BY <1>2, <1>4, CommitAdds
<1>6. LoaderType' /\ Progress'
  <2>1. Items' = Items
    BY DEF Items
  <2>2. Items' \subseteq DOMAIN store'
    BY <1>1, <1>5, <2>1
  <2>s. CASE outcome \in Silent
    <3>1. loader' = [loader EXCEPT !.network = "gone"]
      BY <1>2, <2>s, Zenon DEF LoaderBlocks
    <3>2. LoaderType' /\ loader'.pc = loader.pc /\ loader'.next = loader.next /\ loader'.draws = loader.draws
      BY <3>1, ZenonT(60) DEF LoaderType, Network
    <3> QED BY <1>1, <2>2, <3>2, SMTT(60) DEF Progress, PastItems
  <2>3. CASE outcome \notin Silent
    <3>1. 3 * ItemCount + W + n \in Nat
      BY <1>1
    <3>2. loader' = [pc |-> "world", next |-> 1, draws |-> 3 * ItemCount + W + n,
                     network |-> loader.network]
      BY <1>1, <1>2, <2>3, Zenon DEF LoaderType
    <3>3. loader.network \in Network
      BY DEF LoaderType
    <3>4. LoaderType'
      BY <3>1, <3>2, <3>3, SMTT(60) DEF LoaderType, PastItems
    <3> QED BY <1>0, <1>1, <2>2, <3>2, <3>4, SMTT(60) DEF Progress
  <2> QED BY <2>s, <2>3
<1> QED BY <1>5, <1>6

\* So does a batch of load_world_table.
LEMMA LoadWorldInv ==
  ASSUME LoaderInv, NEW outcome \in Outcomes, LoadWorld(outcome)
  PROVE  LoaderInv' /\ DOMAIN store \subseteq DOMAIN store'
<1> USE DEF LoaderInv
<1>l. PICK last \in Int : last = loader.next + BatchSize - 1
  BY LoaderAssumption DEF LoaderType
<1> DEFINE rows == Batch("world", loader.next, last, 1, loader.draws)
<1>0. PICK n \in Nat : n = W * Districts
  BY LoaderAssumption
<1>1. /\ loader.pc = "world" /\ loader.next \in Nat /\ loader.next > 0 /\ loader.draws \in Nat
      /\ loader.draws = 3 * ItemCount + W + n + (loader.next - 1)
      /\ Items \subseteq DOMAIN store
      /\ BatchSize \in Nat /\ BatchSize > 0 /\ ItemCount \in Nat /\ W \in Nat /\ last \in Nat
  BY <1>0, <1>l, LoaderAssumption, SMTT(60) DEF LoadWorld, LoadBatch, LoaderType, Progress, PastItems
<1>2. /\ Committed(rows, outcome)
      /\ IF outcome \in Silent THEN LoaderBlocks
         ELSE IF outcome # "ok" THEN LoaderFails
         ELSE loader' = [loader EXCEPT !.pc = IF last = WorldCount THEN "stop" ELSE "world",
                                       !.next = IF last = WorldCount THEN 1 ELSE last + 1,
                                       !.draws = @ + 1 * BatchSize]
  BY <1>l, Zenon DEF LoadWorld, LoadBatch
<1>3. \A k \in DOMAIN rows :
         /\ k[1] = "world" /\ k[2] \in loader.next..last
         /\ rows[k] = loader.draws + 1 * (k[2] - loader.next)
  BY <1>1 DEF Batch
<1> HIDE DEF rows
<1>4. \A k \in DOMAIN rows : rows[k] = Value(k)
  BY <1>0, <1>1, <1>3 DEF Value
<1>5. /\ Contents' /\ DOMAIN store \subseteq DOMAIN store'
  BY <1>2, <1>4, CommitAdds, Zenon
<1>6. LoaderType' /\ Progress'
  <2>1. CASE outcome \notin Silent /\ outcome # "ok"
    BY <1>2, <2>1, ZenonT(60) DEF LoaderFails, LoaderType, Progress, PastItems, Network
  <2>s. CASE outcome \in Silent
    <3>1. loader' = [loader EXCEPT !.network = "gone"]
      BY <1>2, <2>s, Zenon DEF LoaderBlocks
    <3>2. LoaderType' /\ loader'.pc = loader.pc /\ loader'.next = loader.next /\ loader'.draws = loader.draws
      BY <3>1, ZenonT(60) DEF LoaderType, Network
    <3>3. Items' = Items /\ Items' \subseteq DOMAIN store'
      BY <1>1, <1>5 DEF Items
    <3> QED BY <1>0, <1>1, <3>2, <3>3, SMTT(60) DEF Progress, PastItems
  <2>2. CASE outcome = "ok"
    <3>0. outcome \notin Silent
      BY <2>2 DEF Silent
    <3>1. loader.draws + 1 * BatchSize = 3 * ItemCount + W + n + last
      BY <1>l, <1>0, <1>1
    <3>2. Items' = Items /\ Items' \subseteq DOMAIN store'
      BY <1>1, <1>5 DEF Items
    <3>n. /\ 3 * ItemCount + W + n + last \in Nat /\ last + 1 \in Nat
          /\ loader.network \in Network
      BY <1>1 DEF LoaderType
    <3>3. CASE last = WorldCount
      <4>1. loader' = [pc |-> "stop", next |-> 1, draws |-> 3 * ItemCount + W + n + last,
                       network |-> loader.network]
        BY <1>2, <2>2, <3>0, <3>1, <3>3, Zenon DEF LoaderType
      <4>2. LoaderType'
        BY <3>n, <4>1 DEF LoaderType, PastItems
      <4> QED BY <3>2, <4>1, <4>2 DEF Progress
    <3>4. CASE last # WorldCount
      <4>1. loader' = [pc |-> "world", next |-> last + 1, draws |-> 3 * ItemCount + W + n + last,
                       network |-> loader.network]
        BY <1>2, <2>2, <3>0, <3>1, <3>4, Zenon DEF LoaderType
      <4>2. LoaderType'
        BY <1>1, <3>n, <4>1, SMTT(60) DEF LoaderType, PastItems
      <4> QED BY <1>0, <1>1, <3>2, <4>1, <4>2 DEF Progress
    <3> QED BY <3>3, <3>4
  <2> QED BY <2>1, <2>s, <2>2
<1> QED BY <1>5, <1>6, Zenon

\* So does every other step of the container, a kill included.
LEMMA LoaderStep ==
  ASSUME LoaderInv, [Next]_vars
  PROVE  LoaderInv' /\ DOMAIN store \subseteq DOMAIN store'
<1> USE DEF LoaderInv
<1>1. ASSUME NEW outcome \in Outcomes, LoadStep(outcome)
      PROVE  LoaderInv' /\ DOMAIN store \subseteq DOMAIN store'
  BY <1>1, LoadItemsInv, LoadWarehousesInv, LoadDistrictsInv, LoadWorldInv, Zenon DEF LoadStep
<1>2. ASSUME UNCHANGED store, LoaderType', Progress'
      PROVE  LoaderInv' /\ DOMAIN store \subseteq DOMAIN store'
  <2>1. Contents'
    BY <1>2 DEF Contents, Value
  <2> QED BY <1>2, <2>1
<1>3. ASSUME UNCHANGED loaderVars
      PROVE  LoaderInv' /\ DOMAIN store \subseteq DOMAIN store'
  <2>1. UNCHANGED store /\ UNCHANGED loader
    BY <1>3, Zenon DEF loaderVars
  <2>2. LoaderType' /\ Progress'
    BY <2>1 DEF LoaderType, Progress, Items, PastItems
  <2> QED BY <1>2, <2>1, <2>2
<1>4. ASSUME UNCHANGED store, loader' = NotRunning
      PROVE  LoaderInv' /\ DOMAIN store \subseteq DOMAIN store'
  <2>1. LoaderType' /\ Progress'
    BY <1>4 DEF NotRunning, LoaderType, Progress, PastItems, Network
  <2> QED BY <1>2, <1>4, <2>1, Zenon
<1>5. ASSUME NEW created \in BOOLEAN, LoaderStart(created)
      PROVE  LoaderInv' /\ DOMAIN store \subseteq DOMAIN store'
  <2>1. UNCHANGED store /\ LoaderType' /\ Progress'
    BY <1>5 DEF LoaderStart, LoaderType, Progress, PastItems, Network
  <2> QED BY <1>2, <2>1, Zenon
<1>6. CASE LoaderStop
  <2>1. /\ UNCHANGED store /\ Items' = Items /\ Items \subseteq DOMAIN store
        /\ loader' = [loader EXCEPT !.pc = "join", !.network = "gone"]
    BY <1>6 DEF LoaderStop, Progress, PastItems, Items
  <2>2. LoaderType' /\ Progress'
    BY <2>1, Zenon DEF LoaderType, Progress, PastItems, Network
  <2> QED BY <1>2, <2>1, <2>2
<1>7. CASE LoaderJoin
  <2>1. /\ UNCHANGED store /\ Items' = Items /\ Items \subseteq DOMAIN store
        /\ loader' = [loader EXCEPT !.pc = "done"]
    BY <1>7 DEF LoaderJoin, Progress, PastItems, Items
  <2>2. LoaderType' /\ Progress'
    BY <2>1 DEF LoaderType, Progress, PastItems
  <2> QED BY <1>2, <2>1, <2>2, SMTT(60)
<1>c. CASE CheckFails
  <2>1. UNCHANGED store /\ loader' = [loader EXCEPT !.pc = "failed", !.network = "gone"]
    BY <1>c DEF CheckFails, LoaderFails
  <2>2. LoaderType' /\ Progress'
    BY <2>1, Zenon DEF LoaderType, Progress, PastItems, Network
  <2> QED BY <1>2, <2>1, <2>2
<1>8. CASE Probe
  BY <1>5, <1>8, SMTT(60) DEF Probe
<1>9. CASE LoaderExit
  BY <1>4, <1>9 DEF LoaderExit
<1>10. CASE Killed
  BY <1>4, <1>10 DEF Killed
<1>11. CASE LoaderRuns
  BY <1>1, <1>6, <1>7, <1>c, <1>11, ZenonT(60) DEF LoaderRuns
<1>12. CASE ServerExit \/ ContainerStart \/ MainRuns \/ NetworkFails
  BY <1>3, <1>12 DEF ServerExit, ContainerStart, MainRuns, NetworkFails
<1>13. CASE \E i \in Threads : WorkerRuns(i) \/ RequestArrives(i)
  BY <1>3, <1>13 DEF WorkerRuns, RequestArrives
<1>14. CASE UNCHANGED vars
  BY <1>3, <1>14 DEF vars
<1> QED BY <1>8, <1>9, <1>10, <1>11, <1>12, <1>13, <1>14, ZenonT(60) DEF Next

\* The invariant holds of every boot.
LEMMA LoaderInvariance == Spec => []LoaderInv
<1>1. Init => LoaderInv
  <2> SUFFICES ASSUME Init PROVE LoaderInv
    OBVIOUS
  <2>1. store = <<>> /\ loader = NotRunning
    BY DEF Init, LoaderInit
  <2>2. DOMAIN store = {}
    BY <2>1
  <2>3. Contents
    BY <2>2 DEF Contents
  <2>4. LoaderType /\ Progress
    BY <2>1 DEF NotRunning, LoaderType, Progress, PastItems, Network
  <2> QED BY <2>3, <2>4 DEF LoaderInv
<1>2. LoaderInv /\ [Next]_vars => LoaderInv'
  BY LoaderStep
<1> QED BY <1>1, <1>2, PTL DEF Spec

\* tpcc_loader.c draws every row from the seed 42 in one order: loading again
\* over any part of an earlier load changes no row.
THEOREM LoadingIsIdempotent == Spec => ReloadChangesNothing
<1>1. LoaderInv /\ [Next]_vars =>
        [\A k \in DOMAIN store : k \in DOMAIN store' /\ store'[k] = store[k]]_store
  <2> SUFFICES ASSUME LoaderInv, [Next]_vars, NEW k \in DOMAIN store
               PROVE  k \in DOMAIN store' /\ store'[k] = store[k]
    OBVIOUS
  <2>1. LoaderInv' /\ k \in DOMAIN store'
    BY LoaderStep
  <2>2. store[k] = Value(k)
    BY SMTT(60) DEF LoaderInv, Contents
  <2>3. store'[k] = Value(k)
    BY <2>1 DEF LoaderInv, Contents, Value
  <2> QED BY <2>1, <2>2, <2>3
<1> QED BY <1>1, LoaderInvariance, PTL DEF Spec, ReloadChangesNothing

----------------------------------------------------------------------------
(* The server *)

ServerType ==
  /\ server \in [pc : {"none", "init", "listen", "threads", "network", "stop", "join",
                       "exited", "crashed"}, at : Threads]
  /\ thread \in [Threads -> {"none", "check", "loop", "exited"}]
  /\ running \in [Threads -> BOOLEAN]
  /\ handle \in [Threads -> {"none", "open", "destroyed"}]
  /\ context \in [Threads -> {"none", "live", "disposed"}]

\* How far main is: which threads, handles and contexts are there.
Phase ==
  /\ server.pc \in {"none", "init", "listen"} =>
       /\ server.at = 0
       /\ \A i \in Threads : thread[i] = "none" /\ handle[i] = "none" /\ context[i] = "none"
  /\ server.pc = "threads" =>
       \A i \in Threads : i >= server.at =>
         thread[i] = "none" /\ handle[i] = "none" /\ context[i] = "none"
  /\ server.pc \in {"threads", "network"} =>
       /\ listener = "open"
       /\ \A i \in Threads :
            /\ thread[i] # "exited" /\ handle[i] # "destroyed" /\ context[i] # "disposed"
            /\ thread[i] # "none" => running[i]
  /\ server.pc = "network" => server.at = 0
  /\ server.pc \in {"stop", "join"} =>
       \A i \in Threads :
         /\ i < server.at => /\ thread[i] \in {"exited", "none"}
                             /\ handle[i] # "open" /\ context[i] # "live"
         /\ i >= server.at => handle[i] # "destroyed" /\ context[i] # "disposed"

ServerInv == ServerType /\ Phase /\ DisposedAfterExit

\* The loops of main over the threads.
LEMMA Loops ==
  ASSUME ServerType, NEW pc, NEW last, Advance(pc, last)
  PROVE  \/ server.at + 1 = NumThreads /\ server' = [pc |-> last, at |-> 0]
         \/ /\ server.at + 1 \in Threads /\ server.at + 1 # NumThreads
            /\ server' = [pc |-> pc, at |-> server.at + 1]
<1>1. server.at \in 0..NumThreads-1 /\ NumThreads \in Nat
  BY ServerAssumption DEF ServerType, Threads
<1> QED BY <1>1 DEF Advance, Threads

\* main starts a thread, or fails to.
LEMMA StartThreadInv ==
  ASSUME ServerInv, NEW db \in BOOLEAN, NEW created \in BOOLEAN, StartThread(db, created)
  PROVE  ServerInv'
<1> USE DEF ServerInv
<1>1. /\ server.pc = "threads" /\ server.at \in Threads /\ listener = "open"
      /\ \A i \in Threads : i \in Nat /\ i < NumThreads
      /\ NumThreads \in Nat /\ 0 \in Threads
  BY ServerAssumption, SMTT(60) DEF StartThread, ServerType, Phase, Threads
<1>2. /\ running' = [running EXCEPT ![server.at] = TRUE]
      /\ context' = [context EXCEPT ![server.at] = "live"]
      /\ handle' = [handle EXCEPT ![server.at] = IF db THEN "open" ELSE "none"]
      /\ thread' = [thread EXCEPT ![server.at] = IF created THEN "check" ELSE "none"]
      /\ listener' = listener
  BY DEF StartThread
<1>3. \/ server.at + 1 = NumThreads /\ server' = [pc |-> "network", at |-> 0]
      \/ /\ server.at + 1 \in Threads /\ server.at + 1 # NumThreads
         /\ server' = [pc |-> "threads", at |-> server.at + 1]
  BY Loops, Zenon DEF StartThread
<1>4. ServerType'
  BY <1>1, <1>2, <1>3, SMTT(60) DEF ServerType
<1>5. \A i \in Threads :
        /\ thread'[i] # "exited" /\ handle'[i] # "destroyed" /\ context'[i] # "disposed"
        /\ thread'[i] # "none" => running'[i]
  BY <1>1, <1>2, SMTT(60) DEF ServerType, Phase
<1>6. \A i \in Threads : i >= server.at + 1 =>
        thread'[i] = "none" /\ handle'[i] = "none" /\ context'[i] = "none"
  BY <1>1, <1>2, SMTT(60) DEF ServerType, Phase
<1>7. Phase'
  BY <1>1, <1>2, <1>3, <1>5, <1>6, SMTT(60) DEF Phase
<1>8. DisposedAfterExit'
  BY <1>3, <1>5 DEF DisposedAfterExit
<1> QED BY <1>4, <1>7, <1>8, ZenonT(60)

\* main joins a thread and disposes of its handle.
LEMMA JoinThreadInv ==
  ASSUME ServerInv, JoinThread
  PROVE  ServerInv'
<1> USE DEF ServerInv
<1>1. /\ server.pc = "join" /\ server.at \in Threads
      /\ thread[server.at] \in {"exited", "none"}
      /\ \A i \in Threads : i \in Nat /\ i < NumThreads
      /\ NumThreads \in Nat /\ 0 \in Threads
  BY ServerAssumption DEF JoinThread, ServerType, Threads
<1>2. /\ context' = [context EXCEPT ![server.at] = "disposed"]
      /\ handle' = [handle EXCEPT ![server.at] = IF @ = "open" THEN "destroyed" ELSE @]
      /\ thread' = thread /\ running' = running
  BY DEF JoinThread, Dispose
<1>3. \/ server.at + 1 = NumThreads /\ server' = [pc |-> "exited", at |-> 0]
      \/ /\ server.at + 1 \in Threads /\ server.at + 1 # NumThreads
         /\ server' = [pc |-> "stop", at |-> server.at + 1]
  BY Loops, Zenon DEF JoinThread
<1>4. ServerType'
  BY <1>1, <1>2, <1>3, SMTT(60) DEF ServerType
<1>5. \A i \in Threads :
        /\ i < server.at + 1 => /\ thread'[i] \in {"exited", "none"}
                                /\ handle'[i] # "open" /\ context'[i] # "live"
        /\ i >= server.at + 1 => handle'[i] # "destroyed" /\ context'[i] # "disposed"
  BY <1>1, <1>2, SMTT(60) DEF ServerType, Phase
<1>6. Phase'
  BY <1>1, <1>3, <1>5, SMTT(60) DEF Phase
<1>7. DisposedAfterExit'
  BY <1>1, <1>3, <1>5, SMTT(60) DEF DisposedAfterExit
<1> QED BY <1>4, <1>6, <1>7, SMTT(60)

\* Every step of the container keeps the order of the start and of the shutdown.
LEMMA ServerStep ==
  ASSUME ServerInv, [Next]_vars
  PROVE  ServerInv'
<1> USE DEF ServerInv
<1>0. /\ \A i \in Threads : i \in Nat /\ i < NumThreads
      /\ NumThreads \in Nat /\ 0 \in Threads
  BY ServerAssumption, SMTT(60) DEF Threads
<1>1. ASSUME UNCHANGED serverVars PROVE ServerInv'
  BY <1>1, SMTT(60) DEF serverVars, ServerType, Phase, DisposedAfterExit
<1>2. ASSUME ServerGone PROVE ServerInv'
  BY <1>0, <1>2, ZenonT(60) DEF ServerGone, Idle, Each, ServerType, Phase, DisposedAfterExit
<1>3. ASSUME ServerStart PROVE ServerInv'
  BY <1>0, <1>3, SMTT(60) DEF ServerStart, ServerType, Phase, DisposedAfterExit
<1>4. ASSUME NEW ok \in BOOLEAN, GlobalInit(ok) PROVE ServerInv'
  BY <1>0, <1>4, SMTT(60) DEF GlobalInit, ServerType, Phase, DisposedAfterExit
<1>5. ASSUME NEW ok \in BOOLEAN, CreateListeningSocket(ok) PROVE ServerInv'
  BY <1>0, <1>5 DEF CreateListeningSocket, ServerType, Phase, DisposedAfterExit
<1>6. ASSUME StopThread PROVE ServerInv'
  BY <1>0, <1>6 DEF StopThread, ServerType, Phase, DisposedAfterExit
<1>7. ASSUME JoinMissing PROVE ServerInv'
  BY <1>0, <1>7 DEF JoinMissing, ServerType, Phase, DisposedAfterExit
<1>8. ASSUME RunNetworkReturns PROVE ServerInv'
  BY <1>0, <1>8, SMTT(60) DEF RunNetworkReturns, ServerType, Phase, DisposedAfterExit
<1>9. ASSUME NEW i \in Threads, Alive, WorkerCheck(i) PROVE ServerInv'
  BY <1>0, <1>9, SMTT(60) DEF Alive, WorkerCheck, ServerType, Phase, DisposedAfterExit
<1>10. ASSUME NEW i \in Threads, Alive, WorkerEvent(i) PROVE ServerInv'
  BY <1>0, <1>10 DEF Alive, WorkerEvent, ServerType, Phase, DisposedAfterExit
<1>11. ASSUME NEW i \in Threads, Alive, DatabaseRequest(i) PROVE ServerInv'
  BY <1>0, <1>11, Zenon DEF Alive, DatabaseRequest, ServerType, Phase, DisposedAfterExit
<1>12. CASE Probe \/ LoaderExit
  BY <1>1, <1>3, <1>12, Zenon DEF Probe, LoaderExit
<1>13. CASE ServerExit \/ Killed
  BY <1>2, <1>13 DEF ServerExit, Killed
<1>14. CASE ContainerStart \/ LoaderRuns
  BY <1>1, <1>14 DEF ContainerStart, LoaderRuns
<1>15. CASE MainRuns
  BY <1>4, <1>5, <1>6, <1>7, <1>15, StartThreadInv, JoinThreadInv, ZenonT(60) DEF MainRuns, MainStep
<1>16. CASE NetworkFails
  BY <1>8, <1>16, Zenon DEF NetworkFails
<1>17. CASE \E i \in Threads : WorkerRuns(i) \/ RequestArrives(i)
  BY <1>9, <1>10, <1>11, <1>17, Zenon DEF WorkerRuns, RequestArrives
<1>18. CASE UNCHANGED vars
  BY <1>1, <1>18, ZenonT(60) DEF vars
<1> QED BY <1>12, <1>13, <1>14, <1>15, <1>16, <1>17, <1>18, ZenonT(60) DEF Next

\* The invariant holds of every run of the server.
LEMMA ServerInvariance == Spec => []ServerInv
<1>1. Init => ServerInv
  BY ServerAssumption DEF Init, ServerInit, Idle, Each, Threads, ServerInv, ServerType, Phase,
                          DisposedAfterExit
<1>2. ServerInv /\ [Next]_vars => ServerInv'
  BY ServerStep, Zenon
<1> QED BY <1>1, <1>2, PTL DEF Spec

\* main.c:175 sets running before pthread_create: no event loop ends, and none
\* closes the socket they share, while main is in fdb_run_network.
THEOREM ListenerStaysOpen == Spec => []ListenerOpenWhileServing
<1>1. ServerInv => ListenerOpenWhileServing
  BY DEF ServerInv, Phase, ListenerOpenWhileServing, Serving
<1> QED BY <1>1, ServerInvariance, PTL

\* main.c:199: a context and a database handle go after the thread that uses
\* them, and all of them before main returns, for any number of threads.
THEOREM NothingDisposedInUse == Spec => []DisposedAfterExit
<1>1. ServerInv => DisposedAfterExit
  BY DEF ServerInv
<1> QED BY <1>1, ServerInvariance, PTL

----------------------------------------------------------------------------
(* The script *)

\* Which process runs is told by where the script is.
Scripted ==
  /\ script \in {"probe", "loader", "server", "stopped"}
  /\ loader.pc # "none" <=> script = "loader"
  /\ server.pc # "none" <=> script = "server"
  /\ faults \in 0..MaxFaults

\* A call that fails costs at most its faults, and never gives any back.
LEMMA CostCounts ==
  ASSUME faults \in 0..MaxFaults, NEW n \in Nat, Cost(n)
  PROVE  faults' \in 0..MaxFaults /\ (faults' = 0 => faults = 0 /\ n = 0)
BY BootAssumption DEF Cost

\* The number of calls that failed is a number.
LEMMA FailuresType ==
  ASSUME NEW s, IsFiniteSet(DOMAIN s)
  PROVE  Failures(s) \in Nat
<1>1. IsFiniteSet({x \in DOMAIN s : ~s[x]})
  BY FS_Subset
<1> QED
  BY <1>1, FS_CardinalityType DEF Failures

\* The results of one and of two calls are finitely many.
LEMMA ResultsFinite ==
  ASSUME NEW a, NEW b
  PROVE  IsFiniteSet(DOMAIN <<a>>) /\ IsFiniteSet(DOMAIN <<a, b>>)
<1>1. DOMAIN <<a>> = {1}
  OBVIOUS
<1>2. DOMAIN <<a, b>> = {1} \union {2}
  OBVIOUS
<1>3. IsFiniteSet({1})
  BY FS_Singleton, Zenon
<1>4. IsFiniteSet({1} \union {2})
  BY <1>3, FS_AddElement
<1> QED
  BY <1>1, <1>2, <1>3, <1>4, Zenon

\* The steps of main and of the threads cost no more than there is, and do not
\* make the process disappear.
LEMMA ServerRuns ==
  ASSUME ServerInv, faults \in 0..MaxFaults,
         MainRuns \/ NetworkFails \/ \E i \in Threads : WorkerRuns(i) \/ RequestArrives(i)
  PROVE  /\ server.pc # "none" /\ server'.pc # "none"
         /\ UNCHANGED <<store, loader, script>>
         /\ faults' \in 0..MaxFaults /\ (faults' = 0 => faults = 0)
<1>1. CASE MainRuns
  <2>1. UNCHANGED <<store, loader, script>> /\ server.pc # "none"
    BY <1>1 DEF MainRuns, loaderVars, Alive
  <2>2. ASSUME NEW ok \in BOOLEAN, GlobalInit(ok) \/ CreateListeningSocket(ok), Cost(Failures(<<ok>>))
        PROVE  server'.pc # "none" /\ faults' \in 0..MaxFaults /\ (faults' = 0 => faults = 0)
    <3>1. Failures(<<ok>>) \in Nat
      BY ResultsFinite, FailuresType
    <3>2. server'.pc # "none"
      BY <2>2 DEF GlobalInit, CreateListeningSocket, ServerInv, ServerType
    <3> QED
      BY <2>2, <3>1, <3>2, CostCounts, Zenon
  <2>3. ASSUME NEW db \in BOOLEAN, NEW created \in BOOLEAN, StartThread(db, created),
               Cost(Failures(<<db, created>>))
        PROVE  server'.pc # "none" /\ faults' \in 0..MaxFaults /\ (faults' = 0 => faults = 0)
    <3>1. Failures(<<db, created>>) \in Nat
      BY ResultsFinite, FailuresType, SMTT(60)
    <3>2. server'.pc # "none"
      BY <2>3, Loops DEF StartThread, ServerInv
    <3> QED
      BY <2>3, <3>1, <3>2, CostCounts, Zenon
  <2>4. ASSUME MainStep, UNCHANGED faults
        PROVE  server'.pc # "none" /\ faults' \in 0..MaxFaults /\ (faults' = 0 => faults = 0)
    <3>1. CASE StopThread \/ JoinMissing
      BY <2>4, <3>1, SMTT(60) DEF StopThread, JoinMissing, ServerInv, ServerType
    <3>2. CASE JoinThread
      BY <2>4, <3>2, Loops DEF JoinThread, ServerInv
    <3> QED
      BY <2>4, <3>1, <3>2 DEF MainStep
  <2> QED
    BY <1>1, <2>1, <2>2, <2>3, <2>4, ZenonT(60) DEF MainRuns
<1>2. CASE NetworkFails
  <2>1. Cost(1)
    BY <1>2 DEF NetworkFails
  <2>2. faults' \in 0..MaxFaults /\ (faults' = 0 => faults = 0)
    BY <2>1, CostCounts
  <2> QED
    BY <1>2, <2>2 DEF NetworkFails, RunNetworkReturns, loaderVars, ServerInv, ServerType
<1>3. CASE \E i \in Threads : WorkerRuns(i) \/ RequestArrives(i)
  BY <1>3 DEF WorkerRuns, RequestArrives, WorkerCheck, WorkerEvent, DatabaseRequest, Alive,
              loaderVars, ServerInv, ServerType
<1> QED
  BY <1>1, <1>2, <1>3, SMTT(60)

\* A step of the loader leaves it there, and costs a fault unless all is well.
LEMMA LoaderKeepsRunning ==
  ASSUME LoaderInv, faults \in 0..MaxFaults, LoaderRuns
  PROVE  /\ loader'.pc # "none"
         /\ faults' \in 0..MaxFaults
         /\ faults' = 0 => faults = 0 /\ (LoadStep("ok") \/ LoaderStop \/ LoaderJoin)
<1>1. ASSUME NEW outcome \in Outcomes, LoadStep(outcome)
      PROVE  loader'.pc # "none"
  <2>1. CASE LoadItems(outcome)
    BY <2>1, Zenon DEF LoadItems, LoadBatch, LoaderFails, LoaderBlocks, LoaderInv, LoaderType, PastItems
  <2>2. CASE LoadWarehouses(outcome) \/ LoadDistricts(outcome)
    BY <2>2, Zenon DEF LoadWarehouses, LoadDistricts, LoaderBlocks, LoaderInv,
                          LoaderType, PastItems
  <2>3. CASE LoadWorld(outcome)
    BY <2>3, Zenon DEF LoadWorld, LoadBatch, LoaderFails, LoaderBlocks, LoaderInv, LoaderType, PastItems
  <2> QED
    BY <1>1, <2>1, <2>2, <2>3 DEF LoadStep
<1>2. ASSUME CheckFails \/ LoaderStop \/ LoaderJoin
      PROVE  loader'.pc # "none"
  BY <1>2, Zenon DEF CheckFails, LoaderStop, LoaderJoin, LoaderFails, LoaderInv, LoaderType, PastItems
<1>3. ASSUME NEW outcome \in Outcomes, LoadStep(outcome), Cost(IF outcome = "ok" THEN 0 ELSE 1)
      PROVE  faults' \in 0..MaxFaults /\ (faults' = 0 => faults = 0 /\ LoadStep("ok"))
  <2>1. CASE outcome = "ok"
    BY <1>3, <2>1, CostCounts, Zenon
  <2>2. CASE outcome # "ok"
    <3>1. Cost(1)
      BY <1>3, <2>2
    <3> QED
      BY <3>1, CostCounts
  <2> QED
    BY <2>1, <2>2
<1>4. ASSUME CheckFails, Cost(1) PROVE faults' \in 0..MaxFaults /\ faults' # 0
  BY <1>4, CostCounts, SMTT(60)
<1> QED
  BY <1>1, <1>2, <1>3, <1>4, SMTT(60) DEF LoaderRuns

\* Every step keeps the processes and the script in agreement.
LEMMA ScriptStep ==
  ASSUME LoaderInv, ServerInv, Scripted, [Next]_vars
  PROVE  Scripted'
<1> USE DEF Scripted
<1>1. CASE Probe
  <2>1. PICK created \in BOOLEAN : LoaderStart(created) /\ Cost(Failures(<<created>>))
    BY <1>1 DEF Probe
  <2>2. Failures(<<created>>) \in Nat
    BY ResultsFinite, FailuresType
  <2>3. faults' \in 0..MaxFaults
    BY <2>1, <2>2, CostCounts, Zenon
  <2> QED
    BY <1>1, <2>1, <2>3 DEF Probe, LoaderStart, serverVars
<1>2. CASE LoaderExit
  BY <1>2, SMTT(60) DEF LoaderExit, NotRunning, ServerStart, serverVars
<1>3. CASE ServerExit
  BY <1>3, SMTT(60) DEF ServerExit, ServerGone, Idle, loaderVars
<1>4. CASE Killed
  <2>1. faults' \in 0..MaxFaults
    BY <1>4, CostCounts DEF Killed
  <2> QED
    BY <1>4, <2>1 DEF Killed, NotRunning, ServerGone, Idle
<1>5. CASE ContainerStart
  BY <1>5, Zenon DEF ContainerStart, loaderVars, serverVars
<1>6. CASE LoaderRuns
  BY <1>6, LoaderKeepsRunning DEF LoaderRuns, serverVars
<1>7. CASE MainRuns \/ NetworkFails \/ \E i \in Threads : WorkerRuns(i) \/ RequestArrives(i)
  BY <1>7, ServerRuns, Zenon
<1>8. CASE UNCHANGED vars
  BY <1>8 DEF vars, loaderVars, serverVars
<1> QED
  BY <1>1, <1>2, <1>3, <1>4, <1>5, <1>6, <1>7, <1>8, ZenonT(60) DEF Next

----------------------------------------------------------------------------
(* What a boot leaves in the store *)

WarehouseRows == {<<"warehouse", i>> : i \in 1..W}
DistrictAndCounterRows == {<<t, i>> : t \in {"district", "nid"}, i \in 1..W * Districts}

Aligned == \E n \in Nat : loader.next = n * BatchSize + 1

\* The next row is the first of a batch, and a row of the table being loaded.
Position ==
  /\ Aligned
  /\ loader.next <= ItemCount \/ loader.next <= WorldCount
  /\ loader.pc = "items" => loader.next <= ItemCount
  /\ loader.pc = "world" => loader.next <= WorldCount
  /\ DOMAIN store \subseteq Tables

\* The rows of World before the loader's position are in, whatever failed; with
\* the items, all of them when the server is started.
WorldSoFar ==
  /\ loader.pc = "world" => \A i \in 1..loader.next-1 : <<"world", i>> \in DOMAIN store
  /\ loader.pc \in {"stop", "join", "done"} => WorldRows \subseteq DOMAIN store
  /\ script = "server" => Items \union WorldRows \subseteq DOMAIN store

\* If nothing failed, the unchecked tables before the loader's position are in
\* as well.
UncheckedSoFar ==
  /\ loader.pc # "failed"
  /\ loader.pc \in {"districts", "world", "stop", "join", "done"} =>
       WarehouseRows \subseteq DOMAIN store
  /\ loader.pc \in {"world", "stop", "join", "done"} =>
       DistrictAndCounterRows \subseteq DOMAIN store
  /\ script = "server" => WarehouseRows \union DistrictAndCounterRows \subseteq DOMAIN store

Clean == faults = 0 => UncheckedSoFar

\* 100000 and 10000 rows are whole batches: a batch that begins within its
\* table ends within it.
LEMMA BatchFits ==
  ASSUME NEW n \in Nat, NEW size \in Nat \ {0}, NEW count \in Nat, count % size = 0,
         n * size + 1 <= count
  PROVE  n * size + size <= count
<1>1. PICK q \in Nat : count = q * size
  <2>1. count \div size \in Nat /\ count = (count \div size) * size + (count % size)
    OBVIOUS
  <2> QED
    BY <2>1
<1>2. n < q
  <2>1. ASSUME n >= q PROVE FALSE
    <3>1. n * size >= q * size
      BY <2>1
    <3> QED
      BY <1>1, <3>1
  <2> QED
    BY <2>1
<1>3. (n + 1) * size <= q * size
  BY <1>2
<1>4. (n + 1) * size = n * size + size
  BY SMTT(60)
<1> QED
  BY <1>1, <1>3, <1>4, SMTT(60)

\* After row last of count: on to the next table, or to the next batch.
Advances(pc, then, count, last) ==
  \/ last = count /\ loader'.pc = then /\ loader'.next = 1
  \/ last < count /\ loader'.pc = pc /\ loader'.next = last + 1

RowsUpTo(table, count) == {<<table, i>> : i \in 1..count}

\* What one checked batch does to the position and to the store.
LEMMA LoadBatchStep ==
  ASSUME LoaderType, Position, NEW pc, NEW table, NEW count \in Nat \ {0}, NEW per, NEW then,
         NEW outcome \in Outcomes, LoadBatch(pc, table, count, per, then, outcome),
         count % BatchSize = 0, loader.next <= count, NEW last, last = loader.next + BatchSize - 1
  PROVE  /\ last \in Nat /\ last <= count
         /\ Aligned'
         /\ loader'.next <= count
         /\ outcome # "ok" => loader'.pc \in {pc, "failed"} /\ loader'.next = loader.next
         /\ outcome = "ok" => Advances(pc, then, count, last)
         /\ DOMAIN store' \subseteq DOMAIN store \union RowsUpTo(table, count)
         /\ DOMAIN store \subseteq DOMAIN store'
         /\ outcome = "ok" => \A i \in loader.next..last : <<table, i>> \in DOMAIN store'
<1>1. /\ BatchSize \in Nat \ {0} /\ loader.next \in Nat /\ loader.next > 0
  BY LoaderAssumption, SMTT(60) DEF LoaderType
<1>2. PICK n \in Nat : loader.next = n * BatchSize + 1
  BY DEF Position, Aligned
<1>3. n * BatchSize + BatchSize <= count
  BY <1>1, <1>2, BatchFits, ZenonT(60)
<1>4. last \in Nat /\ last <= count /\ last = n * BatchSize + BatchSize
  <2>1. n * BatchSize \in Nat
    BY <1>1, SMTT(60)
  <2> QED
    BY <1>1, <1>2, <1>3, <2>1, SMTT(60)
<1>5. last + 1 = (n + 1) * BatchSize + 1
  BY <1>1, <1>4, SMTT(60)
<1> DEFINE rows == Batch(table, loader.next, last, per, loader.draws)
<1>6. /\ Committed(rows, outcome)
      /\ IF outcome \in Silent THEN LoaderBlocks
         ELSE IF outcome # "ok" THEN LoaderFails
         ELSE loader' = [loader EXCEPT !.pc = IF last = count THEN then ELSE pc,
                                       !.next = IF last = count THEN 1 ELSE last + 1,
                                       !.draws = @ + per * BatchSize]
  BY Zenon DEF LoadBatch
<1>7. DOMAIN rows = {<<table, i>> : i \in loader.next..last}
  BY DEF Batch
<1> HIDE DEF rows
<1>8. /\ DOMAIN store' \subseteq DOMAIN store \union DOMAIN rows
      /\ DOMAIN store \subseteq DOMAIN store'
      /\ outcome = "ok" => DOMAIN rows \subseteq DOMAIN store'
  BY <1>6, ZenonT(60) DEF Committed, Overlay
<1>9. DOMAIN rows \subseteq RowsUpTo(table, count)
  BY <1>1, <1>4, <1>7, SMTT(60) DEF RowsUpTo
<1>10. CASE outcome # "ok"
  <2>1. loader'.next = loader.next /\ loader'.pc \in {pc, "failed"}
    <3>1. loader.pc = pc
      BY DEF LoadBatch
    <3> QED
      BY <1>6, <1>10, <3>1, ZenonT(60) DEF LoaderFails, LoaderBlocks, LoaderType
  <2>2. Aligned'
    BY <1>2, <2>1, Zenon DEF Aligned
  <2> QED
    BY <1>4, <1>8, <1>9, <1>10, <2>1, <2>2, ZenonT(60)
<1>11. CASE outcome = "ok"
  <2>0. outcome \notin Silent
    BY <1>11 DEF Silent
  <2>1. last = count \/ last < count
    BY <1>4, SMTT(60)
  <2>2. \A i \in loader.next..last : <<table, i>> \in DOMAIN store'
    BY <1>7, <1>8, <1>11, Zenon
  <2>3. DOMAIN store' \subseteq DOMAIN store \union RowsUpTo(table, count)
    BY <1>8, <1>9, Zenon
  <2>4. Advances(pc, then, count, last)
    <3>1. CASE last = count
      BY <1>6, <1>11, <2>0, <3>1, ZenonT(60) DEF LoaderType, Advances
    <3>2. CASE last < count
      <4>1. last # count
        BY <1>4, <3>2, SMTT(60)
      <4> QED
        BY <1>6, <1>11, <2>0, <3>2, <4>1, ZenonT(60) DEF LoaderType, Advances
    <3> QED
      BY <2>1, <3>1, <3>2, ZenonT(60)
  <2>5. loader'.next <= count
    BY <1>4, <2>4, SMTT(60) DEF Advances
  <2>6. Aligned'
    <3>1. 0 \in Nat /\ 1 = 0 * BatchSize + 1 /\ n + 1 \in Nat
      BY <1>1, SMTT(60)
    <3> QED
      BY <1>5, <2>4, <3>1, ZenonT(60) DEF Advances, Aligned
  <2> QED
    BY <1>4, <1>8, <1>11, <2>2, <2>3, <2>4, <2>5, <2>6, ZenonT(60)
<1> QED
  BY <1>10, <1>11, SMTT(60)

\* What any commit does to the set of rows.
LEMMA CommitDomain ==
  ASSUME NEW rows, NEW outcome, Committed(rows, outcome)
  PROVE  /\ DOMAIN store \subseteq DOMAIN store'
         /\ DOMAIN store' \subseteq DOMAIN store \union DOMAIN rows
         /\ outcome = "ok" => DOMAIN rows \subseteq DOMAIN store'
BY DEF Committed, Overlay

\* The two unchecked transactions.
LEMMA LoadOnceStep ==
  ASSUME NEW outcome
  PROVE  /\ LoadWarehouses(outcome) =>
              /\ DOMAIN store \subseteq DOMAIN store'
              /\ DOMAIN store' \subseteq DOMAIN store \union WarehouseRows
              /\ outcome = "ok" => WarehouseRows \subseteq DOMAIN store'
         /\ LoadDistricts(outcome) =>
              /\ DOMAIN store \subseteq DOMAIN store'
              /\ DOMAIN store' \subseteq DOMAIN store \union DistrictAndCounterRows
              /\ outcome = "ok" => DistrictAndCounterRows \subseteq DOMAIN store'
<1>1. DOMAIN Batch("warehouse", 1, W, 1, loader.draws) = WarehouseRows
  BY Zenon DEF Batch, WarehouseRows
<1>2. DOMAIN DistrictRows(loader.draws) = DistrictAndCounterRows
  BY DEF DistrictRows, DistrictAndCounterRows
<1>3. ASSUME LoadWarehouses(outcome)
      PROVE  Committed(Batch("warehouse", 1, W, 1, loader.draws), outcome)
  BY <1>3 DEF LoadWarehouses
<1>4. ASSUME LoadDistricts(outcome)
      PROVE  Committed(DistrictRows(loader.draws), outcome)
  BY <1>4, Zenon DEF LoadDistricts
<1>5. ASSUME LoadWarehouses(outcome)
      PROVE  /\ DOMAIN store \subseteq DOMAIN store'
             /\ DOMAIN store' \subseteq DOMAIN store \union WarehouseRows
             /\ outcome = "ok" => WarehouseRows \subseteq DOMAIN store'
  BY <1>1, <1>3, <1>5, CommitDomain, Zenon
<1>6. ASSUME LoadDistricts(outcome)
      PROVE  /\ DOMAIN store \subseteq DOMAIN store'
             /\ DOMAIN store' \subseteq DOMAIN store \union DistrictAndCounterRows
             /\ outcome = "ok" => DistrictAndCounterRows \subseteq DOMAIN store'
  BY <1>2, <1>4, <1>6, CommitDomain, ZenonT(60)
<1> QED
  BY <1>5, <1>6, Zenon

\* The rows of the tables.
LEMMA RowsOfTables ==
  Tables = Items \union WorldRows \union WarehouseRows \union DistrictAndCounterRows
BY SMTT(60) DEF Tables, WarehouseRows, DistrictAndCounterRows

\* A process that starts or has gone is at the first row.
LEMMA FirstRow ==
  ASSUME loader'.next = 1, loader'.pc \in {"none", "items", "warehouses", "districts", "world"},
         DOMAIN store' \subseteq Tables
  PROVE  Position'
<1>1. /\ ItemCount \in Nat \ {0} /\ WorldCount \in Nat \ {0} /\ BatchSize \in Nat
  BY LoaderAssumption, Zenon
<1>2. 0 \in Nat /\ 1 = 0 * BatchSize + 1
  BY <1>1, SMTT(60)
<1>3. Aligned'
  BY <1>2, Zenon DEF Aligned
<1>4. Tables' = Tables
  BY SMTT(60) DEF Tables, Items, WorldRows
<1> QED
  BY <1>1, <1>3, <1>4, SMTT(60) DEF Position

\* Every transaction keeps the position.
LEMMA LoadPosition ==
  ASSUME LoaderInv, Position, NEW outcome \in Outcomes, LoadStep(outcome)
  PROVE  Position'
<1>0. Tables' = Tables
  BY DEF Tables, Items, WorldRows
<1>1. LoaderType /\ DOMAIN store \subseteq Tables
  BY Zenon DEF LoaderInv, Position
<1>2. CASE LoadItems(outcome)
  <2>1. loader.next <= ItemCount /\ ItemCount \in Nat \ {0} /\ ItemCount % BatchSize = 0
    BY <1>2, LoaderAssumption, Zenon DEF LoadItems, LoadBatch, Position
  <2>2. LoadBatch("items", "item", ItemCount, 3, "warehouses", outcome)
    BY <1>2, Zenon DEF LoadItems
  <2>3. /\ Aligned' /\ loader'.next <= ItemCount
        /\ outcome # "ok" => loader'.pc \in {"items", "failed"}
        /\ outcome = "ok" =>
             Advances("items", "warehouses", ItemCount, loader.next + BatchSize - 1)
        /\ DOMAIN store' \subseteq DOMAIN store \union RowsUpTo("item", ItemCount)
    BY <1>1, <2>1, <2>2, LoadBatchStep, ZenonT(60)
  <2>4. loader'.pc \in {"failed", "items", "warehouses"}
    BY <2>3, ZenonT(60) DEF Advances
  <2>5. DOMAIN store' \subseteq Tables
    BY <1>1, <2>3, SMTT(60) DEF Tables, Items, RowsUpTo
  <2> QED
    BY <1>0, <2>3, <2>4, <2>5, ZenonT(60) DEF Position
<1>3. CASE LoadWarehouses(outcome)
  <2>1. loader'.next = 1 /\ loader'.pc \in {"warehouses", "districts"}
    BY <1>3, ZenonT(60) DEF LoadWarehouses, LoaderBlocks, LoaderInv, LoaderType, Progress
  <2>2. DOMAIN store' \subseteq Tables
    BY <1>1, <1>3, LoadOnceStep, RowsOfTables, ZenonT(60)
  <2> QED
    BY <2>1, <2>2, FirstRow, ZenonT(60)
<1>4. CASE LoadDistricts(outcome)
  <2>1. loader'.next = 1 /\ loader'.pc \in {"districts", "world"}
    BY <1>4, ZenonT(60) DEF LoadDistricts, LoaderBlocks, LoaderInv, LoaderType, Progress
  <2>2. DOMAIN store' \subseteq Tables
    BY <1>1, <1>4, LoadOnceStep, RowsOfTables, ZenonT(60)
  <2> QED
    BY <2>1, <2>2, FirstRow, ZenonT(60)
<1>5. CASE LoadWorld(outcome)
  <2>1. loader.next <= WorldCount /\ WorldCount \in Nat \ {0} /\ WorldCount % BatchSize = 0
    BY <1>5, LoaderAssumption, Zenon DEF LoadWorld, LoadBatch, Position
  <2>2. LoadBatch("world", "world", WorldCount, 1, "stop", outcome)
    BY <1>5, Zenon DEF LoadWorld
  <2>3. /\ Aligned' /\ loader'.next <= WorldCount
        /\ outcome # "ok" => loader'.pc \in {"world", "failed"}
        /\ outcome = "ok" =>
             Advances("world", "stop", WorldCount, loader.next + BatchSize - 1)
        /\ DOMAIN store' \subseteq DOMAIN store \union RowsUpTo("world", WorldCount)
    BY <1>1, <2>1, <2>2, LoadBatchStep, ZenonT(60)
  <2>4. loader'.pc \in {"failed", "world", "stop"}
    BY <2>3, Zenon DEF Advances
  <2>5. DOMAIN store' \subseteq Tables
    BY <1>1, <2>3, SMTT(60) DEF Tables, WorldRows, RowsUpTo
  <2> QED
    BY <1>0, <2>3, <2>4, <2>5, ZenonT(60) DEF Position
<1> QED
  BY <1>2, <1>3, <1>4, <1>5, ZenonT(60) DEF LoadStep

\* Every step keeps the position.
LEMMA PositionStep ==
  ASSUME LoaderInv, ServerInv, Scripted, Position, [Next]_vars
  PROVE  Position'
<1>0. Tables' = Tables
  BY DEF Tables, Items, WorldRows
<1>1. ASSUME UNCHANGED <<store, loader>> PROVE Position'
  BY <1>0, <1>1, Zenon DEF Position, Aligned
<1>2. CASE Probe
  <2>1. \E created \in BOOLEAN : LoaderStart(created)
    BY <1>2, Zenon DEF Probe
  <2>2. loader'.next = 1 /\ loader'.pc = "items" /\ UNCHANGED store
    BY <2>1 DEF LoaderStart
  <2> QED
    BY <2>2, FirstRow, Zenon DEF Position
<1>3. CASE LoaderExit \/ Killed
  BY <1>3, FirstRow, SMTT(60) DEF LoaderExit, Killed, NotRunning, Position
<1>4. CASE ServerExit \/ ContainerStart
  BY <1>1, <1>4, Zenon DEF ServerExit, ContainerStart, loaderVars
<1>5. CASE LoaderRuns
  <2>1. CASE \E outcome \in Outcomes : LoadStep(outcome)
    BY <2>1, LoadPosition, Zenon
  <2>2. CASE CheckFails \/ LoaderStop \/ LoaderJoin
    <3>1. /\ loader'.next = loader.next /\ loader'.pc \in {"failed", "join", "done"}
          /\ UNCHANGED store
      BY <2>2, Zenon DEF CheckFails, LoaderStop, LoaderJoin, LoaderFails, LoaderInv, LoaderType
    <3> QED
      BY <1>0, <3>1, Zenon DEF Position, Aligned
  <2> QED
    BY <1>5, <2>1, <2>2, Zenon DEF LoaderRuns
<1>6. CASE MainRuns \/ NetworkFails \/ \E i \in Threads : WorkerRuns(i) \/ RequestArrives(i)
  BY <1>1, <1>6, ServerRuns, Zenon DEF Scripted
<1>7. CASE UNCHANGED vars
  BY <1>1, <1>7, Zenon DEF vars, loaderVars
<1> QED
  BY <1>2, <1>3, <1>4, <1>5, <1>6, <1>7, ZenonT(60) DEF Next

\* Every transaction keeps what is known of the World table.
LEMMA LoadWorldSoFar ==
  ASSUME LoaderInv, Position, WorldSoFar, script = "loader", UNCHANGED script,
         NEW outcome \in Outcomes, LoadStep(outcome)
  PROVE  WorldSoFar'
<1>0. WorldRows' = WorldRows
  BY DEF WorldRows
<1>1. LoaderType
  BY DEF LoaderInv
<1>2. CASE LoadItems(outcome)
  <2>1. loader.next <= ItemCount /\ ItemCount \in Nat \ {0} /\ ItemCount % BatchSize = 0
    BY <1>2, LoaderAssumption, Zenon DEF LoadItems, LoadBatch, Position
  <2>2. LoadBatch("items", "item", ItemCount, 3, "warehouses", outcome)
    BY <1>2, Zenon DEF LoadItems
  <2>3. /\ outcome # "ok" => loader'.pc \in {"items", "failed"}
        /\ outcome = "ok" =>
             Advances("items", "warehouses", ItemCount, loader.next + BatchSize - 1)
    BY <1>1, <2>1, <2>2, LoadBatchStep, ZenonT(60)
  <2>4. loader'.pc \in {"failed", "items", "warehouses"}
    BY <2>3, ZenonT(60) DEF Advances
  <2> QED
    BY <2>4, Zenon DEF WorldSoFar
<1>3. CASE LoadWarehouses(outcome)
  <2>1. loader'.pc \in {"warehouses", "districts"}
    BY <1>3, ZenonT(60) DEF LoadWarehouses, LoaderBlocks, LoaderInv, LoaderType
  <2> QED
    BY <2>1, Zenon DEF WorldSoFar
<1>4. CASE LoadDistricts(outcome)
  <2>1. loader'.next = 1 /\ loader'.pc \in {"districts", "world"}
    BY <1>4, ZenonT(60) DEF LoadDistricts, LoaderBlocks, LoaderInv, LoaderType, Progress
  <2>2. \A i \in 1..loader'.next-1 : <<"world", i>> \in DOMAIN store'
    BY <2>1
  <2> QED
    BY <2>1, <2>2, ZenonT(60) DEF WorldSoFar
<1>5. CASE LoadWorld(outcome)
  <2>1. /\ loader.next <= WorldCount /\ WorldCount \in Nat \ {0} /\ WorldCount % BatchSize = 0
        /\ loader.pc = "world" /\ loader.next \in Nat
    BY <1>1, <1>5, LoaderAssumption, ZenonT(60) DEF LoadWorld, LoadBatch, Position, LoaderType
  <2>2. LoadBatch("world", "world", WorldCount, 1, "stop", outcome)
    BY <1>5 DEF LoadWorld
  <2>3. PICK last : last = loader.next + BatchSize - 1
    OBVIOUS
  <2>4. /\ last \in Nat /\ DOMAIN store \subseteq DOMAIN store'
        /\ outcome # "ok" => loader'.pc \in {"world", "failed"} /\ loader'.next = loader.next
        /\ outcome = "ok" => Advances("world", "stop", WorldCount, last)
        /\ outcome = "ok" => \A i \in loader.next..last : <<"world", i>> \in DOMAIN store'
    BY <1>1, <2>1, <2>2, <2>3, LoadBatchStep, ZenonT(60)
  <2>5. CASE outcome # "ok"
    BY <2>1, <2>4, <2>5, ZenonT(60) DEF WorldSoFar
  <2>6. CASE outcome = "ok"
    <3>1. \A i \in 1..last : <<"world", i>> \in DOMAIN store'
      <4> SUFFICES ASSUME NEW i \in 1..last PROVE <<"world", i>> \in DOMAIN store'
        BY ZenonT(60)
      <4>1. CASE i < loader.next
        BY <2>1, <2>4, <4>1, SMTT(60) DEF WorldSoFar
      <4>2. CASE i >= loader.next
        BY <2>1, <2>4, <2>6, <4>2, SMTT(60)
      <4> QED
        BY <2>1, <4>1, <4>2, SMTT(60)
    <3>2. CASE last = WorldCount /\ loader'.pc = "stop"
      <4>1. WorldRows \subseteq DOMAIN store'
        BY <3>1, <3>2, Zenon DEF WorldRows
      <4> QED
        BY <1>0, <3>2, <4>1, ZenonT(60) DEF WorldSoFar
    <3>3. CASE loader'.pc = "world" /\ loader'.next = last + 1
      <4>1. loader'.next - 1 = last
        BY <2>4, <3>3, SMTT(60)
      <4> QED
        BY <3>1, <3>3, <4>1, ZenonT(60) DEF WorldSoFar
    <3> QED
      BY <2>4, <2>6, <3>2, <3>3, ZenonT(60) DEF Advances
  <2> QED
    BY <2>5, <2>6, Zenon
<1> QED
  BY <1>2, <1>3, <1>4, <1>5, SMTT(60) DEF LoadStep

\* So does every other step; set -e lets only a loader that is done start the
\* server.
LEMMA WorldStep ==
  ASSUME LoaderInv, ServerInv, Scripted, Position, WorldSoFar, [Next]_vars
  PROVE  WorldSoFar'
<1>0. WorldRows' = WorldRows /\ Items' = Items
  BY DEF WorldRows, Items
<1>f. faults \in 0..MaxFaults
  BY Zenon DEF Scripted
<1>1. ASSUME UNCHANGED <<store, loader, script>> PROVE WorldSoFar'
  BY <1>0, <1>1, Zenon DEF WorldSoFar
<1>2. CASE Probe
  <2>1. script' = "loader" /\ \E created \in BOOLEAN : LoaderStart(created)
    BY <1>2, Zenon DEF Probe
  <2>2. loader'.pc = "items"
    BY <2>1 DEF LoaderStart
  <2> QED
    BY <2>1, <2>2, Zenon DEF WorldSoFar
<1>3. CASE LoaderExit
  <2>1. loader'.pc = "none" /\ UNCHANGED store /\ (script' = "server" => loader.pc = "done")
    BY <1>3, SMTT(60) DEF LoaderExit, NotRunning
  <2>2. loader.pc = "done" => Items \subseteq DOMAIN store /\ WorldRows \subseteq DOMAIN store
    BY Zenon DEF LoaderInv, Progress, PastItems, WorldSoFar
  <2> QED
    BY <1>0, <2>1, <2>2, ZenonT(60) DEF WorldSoFar
<1>4. CASE Killed
  BY <1>4, SMTT(60) DEF Killed, NotRunning, WorldSoFar
<1>5. CASE ServerExit \/ ContainerStart
  <2>1. UNCHANGED <<store, loader>> /\ script' # "server"
    BY <1>5, SMTT(60) DEF ServerExit, ContainerStart, loaderVars
  <2> QED
    BY <1>0, <2>1, Zenon DEF WorldSoFar
<1>6. CASE LoaderRuns
  <2>0. script = "loader" /\ UNCHANGED script
    BY <1>6, Zenon DEF LoaderRuns
  <2>1. CASE \E outcome \in Outcomes : LoadStep(outcome)
    BY <2>0, <2>1, LoadWorldSoFar, Zenon
  <2>2. CASE CheckFails
    <3>1. loader'.pc = "failed"
      BY <2>2, Zenon DEF CheckFails, LoaderFails, LoaderInv, LoaderType
    <3> QED
      BY <2>0, <3>1, Zenon DEF WorldSoFar
  <2>3. CASE LoaderStop \/ LoaderJoin
    <3>1. /\ loader.pc \in {"stop", "join"} /\ loader'.pc \in {"join", "done"}
          /\ UNCHANGED store
      BY <2>3, ZenonT(60) DEF LoaderStop, LoaderJoin, LoaderInv, LoaderType
    <3> QED
      BY <1>0, <2>0, <3>1, ZenonT(60) DEF WorldSoFar
  <2> QED
    BY <1>6, <2>1, <2>2, <2>3, Zenon DEF LoaderRuns
<1>7. CASE MainRuns \/ NetworkFails \/ \E i \in Threads : WorkerRuns(i) \/ RequestArrives(i)
  BY <1>1, <1>7, <1>f, ServerRuns, ZenonT(60)
<1>8. CASE UNCHANGED vars
  BY <1>1, <1>8, Zenon DEF vars, loaderVars
<1> QED
  BY <1>2, <1>3, <1>4, <1>5, <1>6, <1>7, <1>8, ZenonT(60) DEF Next

\* Every transaction that succeeds brings its rows in.
LEMMA LoadedStep ==
  ASSUME LoaderInv, Position, UncheckedSoFar, script = "loader", UNCHANGED script, LoadStep("ok")
  PROVE  UncheckedSoFar'
<1>0. WarehouseRows' = WarehouseRows /\ DistrictAndCounterRows' = DistrictAndCounterRows
  BY DEF WarehouseRows, DistrictAndCounterRows
<1>1. LoaderType /\ "ok" \in Outcomes /\ "ok" \notin Silent
  BY SMTT(60) DEF LoaderInv, Outcomes, Silent
<1>2. CASE LoadItems("ok")
  <2>1. loader.next <= ItemCount /\ ItemCount \in Nat \ {0} /\ ItemCount % BatchSize = 0
    BY <1>2, LoaderAssumption DEF LoadItems, LoadBatch, Position
  <2>2. LoadBatch("items", "item", ItemCount, 3, "warehouses", "ok")
    BY <1>2, ZenonT(60) DEF LoadItems
  <2>3. Advances("items", "warehouses", ItemCount, loader.next + BatchSize - 1)
    BY <1>1, <2>1, <2>2, LoadBatchStep, ZenonT(60)
  <2>4. loader'.pc \in {"items", "warehouses"}
    BY <2>3, ZenonT(60) DEF Advances
  <2> QED
    BY <2>4 DEF UncheckedSoFar
<1>3. CASE LoadWarehouses("ok")
  <2>1. loader'.pc = "districts"
    BY <1>1, <1>3, ZenonT(60) DEF LoadWarehouses, LoaderType
  <2>2. WarehouseRows \subseteq DOMAIN store'
    BY <1>3, LoadOnceStep, ZenonT(60)
  <2> QED
    BY <1>0, <2>1, <2>2, SMTT(60) DEF UncheckedSoFar
<1>4. CASE LoadDistricts("ok")
  <2>1. loader'.pc = "world"
    BY <1>1, <1>4, Zenon DEF LoadDistricts, LoaderType
  <2>2. DOMAIN store \subseteq DOMAIN store' /\ DistrictAndCounterRows \subseteq DOMAIN store'
    BY <1>4, LoadOnceStep, Zenon
  <2>3. WarehouseRows \subseteq DOMAIN store
    BY <1>4, SMTT(60) DEF LoadDistricts, UncheckedSoFar
  <2> QED
    BY <1>0, <2>1, <2>2, <2>3, ZenonT(60) DEF UncheckedSoFar
<1>5. CASE LoadWorld("ok")
  <2>1. /\ loader.next <= WorldCount /\ WorldCount \in Nat \ {0} /\ WorldCount % BatchSize = 0
        /\ loader.pc = "world"
    BY <1>1, <1>5, LoaderAssumption, ZenonT(60) DEF LoadWorld, LoadBatch, Position
  <2>2. LoadBatch("world", "world", WorldCount, 1, "stop", "ok")
    BY <1>5 DEF LoadWorld
  <2>3. /\ Advances("world", "stop", WorldCount, loader.next + BatchSize - 1)
        /\ DOMAIN store \subseteq DOMAIN store'
    BY <1>1, <2>1, <2>2, LoadBatchStep, ZenonT(60)
  <2>4. loader'.pc \in {"world", "stop"}
    BY <2>3, Zenon DEF Advances
  <2>5. WarehouseRows \subseteq DOMAIN store' /\ DistrictAndCounterRows \subseteq DOMAIN store'
    BY <2>1, <2>3, Zenon DEF UncheckedSoFar
  <2> QED
    BY <1>0, <2>4, <2>5, ZenonT(60) DEF UncheckedSoFar
<1> QED
  BY <1>2, <1>3, <1>4, <1>5, SMTT(60) DEF LoadStep

\* Every step keeps a boot without a fault whole.
LEMMA CleanStep ==
  ASSUME LoaderInv, ServerInv, Scripted, Position, Clean, [Next]_vars
  PROVE  Clean'
<1>0. WarehouseRows' = WarehouseRows /\ DistrictAndCounterRows' = DistrictAndCounterRows
  BY DEF WarehouseRows, DistrictAndCounterRows
<1> SUFFICES ASSUME faults' = 0 PROVE UncheckedSoFar'
  BY DEF Clean
<1>f. faults \in 0..MaxFaults
  BY Zenon DEF Scripted
<1>u. ASSUME UNCHANGED <<store, loader, script>>, faults = 0 PROVE UncheckedSoFar'
  BY <1>0, <1>u, Zenon DEF UncheckedSoFar, Clean
<1>1. CASE Probe
  <2>1. script' = "loader" /\ \E created \in BOOLEAN : LoaderStart(created)
    BY <1>1, Zenon DEF Probe
  <2>2. loader'.pc = "items"
    BY <2>1 DEF LoaderStart
  <2> QED
    BY <2>1, <2>2, Zenon DEF UncheckedSoFar
<1>2. CASE LoaderExit
  <2>1. UncheckedSoFar /\ loader.pc = "done" /\ UNCHANGED store
    BY <1>2, Zenon DEF LoaderExit, Clean, UncheckedSoFar
  <2>2. loader'.pc = "none"
    BY <1>2, Zenon DEF LoaderExit, NotRunning
  <2> QED
    BY <1>0, <2>1, <2>2, Zenon DEF UncheckedSoFar
<1>3. CASE ServerExit \/ ContainerStart
  <2>1. UNCHANGED <<store, loader>> /\ script' # "server" /\ UncheckedSoFar
    BY <1>3, SMTT(60) DEF ServerExit, ContainerStart, loaderVars, Clean
  <2> QED
    BY <1>0, <2>1, Zenon DEF UncheckedSoFar
<1>4. CASE Killed
  <2>1. faults' # 0
    BY <1>4, <1>f, CostCounts, SMTT(60) DEF Killed
  <2> QED
    BY <2>1
<1>6. CASE LoaderRuns
  <2>1. faults = 0 /\ (LoadStep("ok") \/ LoaderStop \/ LoaderJoin)
    BY <1>6, <1>f, LoaderKeepsRunning, Zenon
  <2>2. UncheckedSoFar /\ script = "loader" /\ UNCHANGED script
    BY <1>6, <2>1, Zenon DEF Clean, LoaderRuns
  <2>4. CASE LoadStep("ok")
    BY <2>2, <2>4, LoadedStep, ZenonT(60)
  <2>5. CASE LoaderStop \/ LoaderJoin
    <3>1. /\ loader.pc \in {"stop", "join"} /\ loader'.pc \in {"join", "done"}
          /\ UNCHANGED store
      BY <2>5, ZenonT(60) DEF LoaderStop, LoaderJoin, LoaderInv, LoaderType
    <3> QED
      BY <1>0, <2>2, <3>1, ZenonT(60) DEF UncheckedSoFar
  <2> QED
    BY <2>1, <2>4, <2>5, Zenon
<1>7. CASE MainRuns \/ NetworkFails \/ \E i \in Threads : WorkerRuns(i) \/ RequestArrives(i)
  <2>1. UNCHANGED <<store, loader, script>> /\ faults = 0
    BY <1>7, <1>f, ServerRuns, ZenonT(60)
  <2> QED
    BY <1>u, <2>1, Zenon
<1>8. CASE UNCHANGED vars
  <2>1. UNCHANGED <<store, loader, script>> /\ faults = 0
    BY <1>8, Zenon DEF vars, loaderVars
  <2> QED
    BY <1>u, <2>1, Zenon
<1> QED
  BY <1>1, <1>2, <1>3, <1>4, <1>6, <1>7, <1>8, ZenonT(60) DEF Next

\* Processes, position and rows together.
BootInv == Scripted /\ Position /\ WorldSoFar /\ Clean

\* The four hold throughout.
LEMMA BootInvariance == Spec => []BootInv
<1>1. Init => BootInv
  <2> SUFFICES ASSUME Init PROVE BootInv
    OBVIOUS
  <2>1. loader = NotRunning /\ DOMAIN store = {} /\ script = "probe" /\ faults = 0
    BY SMTT(60) DEF Init, LoaderInit
  <2>2. Scripted
    BY <2>1, BootAssumption, SMTT(60) DEF Init, ServerInit, Idle, NotRunning, Scripted
  <2>3. Position
    <3>1. ItemCount \in Nat \ {0} /\ BatchSize \in Nat
      BY LoaderAssumption, Zenon
    <3>2. 0 \in Nat /\ 1 = 0 * BatchSize + 1
      BY <3>1, SMTT(60)
    <3>3. loader.next = 1 /\ loader.pc = "none"
      BY <2>1 DEF NotRunning
    <3>4. Aligned
      BY <3>2, <3>3, ZenonT(60) DEF Aligned
    <3> QED
      BY <2>1, <3>1, <3>3, <3>4, SMTT(60) DEF Position
  <2>4. WorldSoFar /\ Clean
    BY <2>1, Zenon DEF NotRunning, WorldSoFar, Clean, UncheckedSoFar
  <2> QED
    BY <2>2, <2>3, <2>4, Zenon DEF BootInv
<1>2. LoaderInv /\ ServerInv /\ BootInv /\ [Next]_vars => BootInv'
  BY ScriptStep, PositionStep, WorldStep, CleanStep, ZenonT(60) DEF BootInv
<1> QED
  BY <1>1, <1>2, LoaderInvariance, ServerInvariance, PTL DEF Spec

\* docker-entrypoint.sh: at any moment at most one of loader and server runs,
\* the one the script has come to, and every row of the store is one of the
\* loader's tables; no batch goes past the end of its table.
THEOREM BootTypes == Spec => []TypeOK
<1>1. LoaderInv /\ BootInv => TypeOK
  <2> SUFFICES ASSUME LoaderInv, BootInv PROVE TypeOK
    BY Zenon
  <2>1. /\ loader.next \in Nat /\ loader.next > 0
        /\ ItemCount \in Nat /\ WorldCount \in Nat
        /\ loader.network \in {"none", "running", "gone"}
    BY LoaderAssumption, Zenon DEF LoaderInv, LoaderType, Network
  <2>2. loader.next <= ItemCount \/ loader.next <= WorldCount
    BY Zenon DEF BootInv, Position
  <2>3. loader.next \in 1..ItemCount + WorldCount
    BY <2>1, <2>2, SMTT(60)
  <2> QED
    BY <2>1, <2>3 DEF BootInv, Scripted, Position, TypeOK
<1> QED
  BY <1>1, LoaderInvariance, BootInvariance, PTL

\* tpcc_loader.c checks every batch of items and World and docker-entrypoint.sh
\* has set -e: whatever was killed, failed or left unknown in any start, a server
\* that serves has all of their rows.
THEOREM CheckedTablesAreLoaded == Spec => []CheckedTablesLoaded
<1>1. BootInv => CheckedTablesLoaded
  BY Zenon DEF BootInv, Scripted, WorldSoFar, CheckedTablesLoaded, Serving
<1> QED
  BY <1>1, BootInvariance, PTL

\* After starts in which nothing failed the server answers only when the store
\* holds every row the loader writes, and no other.
THEOREM CleanBootIsComplete == Spec => []CleanBootComplete
<1>1. BootInv => CleanBootComplete
  <2> SUFFICES ASSUME BootInv, Serving, faults = 0 PROVE DOMAIN store = Tables
    BY DEF CleanBootComplete
  <2>1. script = "server"
    BY Zenon DEF BootInv, Scripted, Serving
  <2>2. Tables \subseteq DOMAIN store
    BY <2>1, RowsOfTables, Zenon DEF BootInv, Clean, UncheckedSoFar, WorldSoFar
  <2> QED
    BY <2>2, Zenon DEF BootInv, Position
<1> QED
  BY <1>1, BootInvariance, PTL

=============================================================================
