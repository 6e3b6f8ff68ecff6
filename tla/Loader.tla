------------------------------- MODULE Loader -------------------------------
(* src/tpcc_loader.c: the rows are set in batches, one transaction each, in *)
(* the order items, warehouses, districts, World.  Row contents come from   *)
(* one rand_r sequence, so a row is told by the number of draws before it.  *)
EXTENDS Fdb

CONSTANTS ItemCount,    \* ITEM_COUNT
          WorldCount,   \* rows of the World table
          BatchSize,    \* BATCH_SIZE
          W, Districts  \* -w, DISTRICTS_PER_WAREHOUSE

\* 100000 and 10000 are multiples of 1000: the final commits of load_items and
\* load_world_table, whose result is not looked at, have nothing left to commit.
ASSUME LoaderAssumption ==
  /\ {ItemCount, WorldCount, BatchSize} \subseteq Nat \ {0}
  /\ ItemCount % BatchSize = 0
  /\ WorldCount % BatchSize = 0
  /\ {W, Districts} \subseteq Nat

VARIABLES store,     \* the rows in FoundationDB
          loader     \* the process: pc, next row of the table, draws so far, and
                     \* its FDB network thread: none, running or gone

loaderVars == <<store, loader>>

NotRunning == [pc |-> "none", next |-> 1, draws |-> 0, network |-> "none"]

LoaderInit == store = <<>> /\ loader = NotRunning

----------------------------------------------------------------------------
(* Rows *)

\* Rows first..last of a table, with `per` draws for each.
Batch(table, first, last, per, draws) ==
  [k \in {<<table, i>> : i \in first..last} |-> draws + per * (k[2] - first)]

\* The counter rows are forgotten.
DistrictRowsOnly(draws) == Batch("district", 1, W * Districts, 1, draws)

\* A district row takes one draw; its counter row is always 3001.
DistrictRows(draws) ==
  [k \in {<<"district", i>> : i \in 1..W * Districts} \union {<<"nid", i>> : i \in 1..W * Districts} |->
     IF k[1] = "district" THEN draws + k[2] - 1 ELSE 3001]

----------------------------------------------------------------------------
(* A commit: "ok"; "failed": an error, and nothing is applied; "unknown": an *)
(* error although the rows are applied; "dropped", "applied": not applied or  *)
(* applied, but fdb_run_network has returned and the future never completes   *)

Silent == {"dropped", "applied"}
Outcomes == {"ok", "failed", "unknown"} \union Silent

Committed(rows, outcome) ==
  store' = IF outcome \in {"failed", "dropped"} THEN store ELSE Overlay(rows, store)

\* check_fdb: exit(1).
LoaderFails == loader' = [loader EXCEPT !.pc = "failed", !.network = "gone"]

\* fdb_future_block_until_ready does not return.
LoaderBlocks == loader' = [loader EXCEPT !.network = "gone"]

\* The seed is taken from the time of day.
LoaderStartSeeded(created) ==
  /\ loader.pc = "none"
  /\ \E draws \in 0..1 :
       loader' = [pc |-> "items", next |-> 1, draws |-> draws,
                  network |-> IF created THEN "running" ELSE "none"]
  /\ UNCHANGED store

\* The process starts, with seed 42; whether pthread_create made the network
\* thread is not looked at.
LoaderStart(created) ==
  /\ loader.pc = "none"
  /\ loader' = [pc |-> "items", next |-> 1, draws |-> 0,
                network |-> IF created THEN "running" ELSE "none"]
  /\ UNCHANGED store

\* The result of a batch is not looked at.
LoadBatchUnchecked(pc, table, count, per, then, outcome) ==
  LET last == loader.next + BatchSize - 1 IN
    /\ loader.pc = pc
    /\ Committed(Batch(table, loader.next, last, per, loader.draws), outcome)
    /\ loader' = [loader EXCEPT !.pc = IF last = count THEN then ELSE pc,
                                !.next = IF last = count THEN 1 ELSE last + 1,
                                !.draws = @ + per * BatchSize]

\* The next BatchSize rows of a table whose batches are checked; an error ends
\* the process.
LoadBatch(pc, table, count, per, then, outcome) ==
  LET last == loader.next + BatchSize - 1 IN
    /\ loader.pc = pc
    /\ Committed(Batch(table, loader.next, last, per, loader.draws), outcome)
    /\ IF outcome \in Silent THEN LoaderBlocks
       ELSE IF outcome # "ok" THEN LoaderFails
       ELSE loader' = [loader EXCEPT !.pc = IF last = count THEN then ELSE pc,
                                     !.next = IF last = count THEN 1 ELSE last + 1,
                                     !.draws = @ + per * BatchSize]

LoadItems(outcome) == LoadBatch("items", "item", ItemCount, 3, "warehouses", outcome)

\* One transaction; fdb_future_get_error is not asked.
LoadWarehouses(outcome) ==
  /\ loader.pc = "warehouses"
  /\ Committed(Batch("warehouse", 1, W, 1, loader.draws), outcome)
  /\ IF outcome \in Silent THEN LoaderBlocks
     ELSE loader' = [loader EXCEPT !.pc = "districts", !.draws = @ + W]

\* One transaction, not checked either; load_customer_and_orders is a stub.
LoadDistricts(outcome) ==
  /\ loader.pc = "districts"
  /\ Committed(DistrictRows(loader.draws), outcome)
  /\ IF outcome \in Silent THEN LoaderBlocks
     ELSE loader' = [loader EXCEPT !.pc = "world", !.draws = @ + W * Districts]

LoadWorld(outcome) == LoadBatch("world", "world", WorldCount, 1, "stop", outcome)

\* pthread_join comes before fdb_stop_network.
LoaderStopLate ==
  /\ loader.pc = "stop"
  /\ loader' = [loader EXCEPT !.pc = "join"]
  /\ UNCHANGED store

\* fdb_stop_network makes fdb_run_network return.
LoaderStop ==
  /\ loader.pc = "stop"
  /\ loader' = [loader EXCEPT !.pc = "join", !.network = "gone"]
  /\ UNCHANGED store

\* pthread_join of the network thread.
LoaderJoin ==
  /\ loader.pc = "join"
  /\ loader.network # "running"
  /\ loader' = [loader EXCEPT !.pc = "done"]
  /\ UNCHANGED store

\* A call before a commit, or fdb_stop_network, fails.
CheckFails ==
  /\ loader.pc \in {"items", "warehouses", "districts", "world", "stop"}
  /\ loader.network # "gone"
  /\ LoaderFails
  /\ UNCHANGED store

\* The steps that wait for a commit, which completes on the network thread.
LoadStep(outcome) ==
  /\ loader.network = "running"
  /\ \/ LoadItems(outcome)
     \/ LoadWarehouses(outcome)
     \/ LoadDistricts(outcome)
     \/ LoadWorld(outcome)

----------------------------------------------------------------------------

\* The rows the loader writes.  load_customer_and_orders is a stub: customers,
\* history, stock and orders, which the head of the file lists, get none.
Items == {<<"item", i>> : i \in 1..ItemCount}
WorldRows == {<<"world", i>> : i \in 1..WorldCount}
Tables == Items \union WorldRows \union {<<"warehouse", i>> : i \in 1..W}
                \union {<<t, i>> : t \in {"district", "nid"}, i \in 1..W * Districts}
=============================================================================
