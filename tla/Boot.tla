-------------------------------- MODULE Boot --------------------------------
(* docker-entrypoint.sh: probe for a World row, run the loader, become the  *)
(* server.  The container may be killed at any moment and started again on  *)
(* the same FoundationDB data.                                              *)
EXTENDS Loader, Server

CONSTANT MaxFaults     \* bound on failures and kills

ASSUME BootAssumption == MaxFaults \in Nat

VARIABLES script,      \* where the script is
          faults

vars == <<loaderVars, serverVars, script, faults>>

Init ==
  /\ LoaderInit
  /\ ServerInit
  /\ script = "probe"
  /\ faults = 0

Cost(n) == faults + n <= MaxFaults /\ faults' = faults + n

Failures(s) == Cardinality({x \in DOMAIN s : ~s[x]})

----------------------------------------------------------------------------
(* The script *)

\* The script looks for the word "value" in what fdbcli prints.  fdbcli prints
\* the key with the four bytes it holds, that there is no such key, or an error:
\* the word is in none of them, and every start runs the loader.
Probe ==
  /\ script = "probe"
  /\ script' = "loader"
  /\ \E created \in BOOLEAN : LoaderStart(created) /\ Cost(Failures(<<created>>))
  /\ UNCHANGED serverVars

\* The loader is put in the background.
LoaderExitEarly ==
  /\ script = "loader"
  /\ script' = "server"
  /\ ServerStart
  /\ UNCHANGED <<store, loader, faults>>

\* set -e: a loader that fails ends the script.
LoaderExit ==
  /\ script = "loader"
  /\ loader.pc \in {"done", "failed"}
  /\ loader' = NotRunning
  /\ IF loader.pc = "done"
     THEN script' = "server" /\ ServerStart
     ELSE script' = "stopped" /\ UNCHANGED serverVars
  /\ UNCHANGED <<store, faults>>

\* exec: with the server the container ends.
ServerExit ==
  /\ script = "server"
  /\ server.pc \in {"exited", "crashed"}
  /\ script' = "stopped"
  /\ ServerGone
  /\ UNCHANGED <<loaderVars, faults>>

Killed ==
  /\ script # "stopped"
  /\ Cost(1)
  /\ script' = "stopped"
  /\ loader' = NotRunning
  /\ ServerGone
  /\ UNCHANGED store

ContainerStart ==
  /\ script = "stopped"
  /\ script' = "probe"
  /\ UNCHANGED <<loaderVars, serverVars, faults>>

----------------------------------------------------------------------------
(* The loader and the server run *)

LoaderRuns ==
  /\ script = "loader"
  /\ \/ \E outcome \in Outcomes :
          LoadStep(outcome) /\ Cost(IF outcome = "ok" THEN 0 ELSE 1)
     \/ CheckFails /\ Cost(1)
     \/ LoaderStop /\ UNCHANGED faults
     \/ LoaderJoin /\ UNCHANGED faults
  /\ UNCHANGED <<serverVars, script>>

MainRuns ==
  /\ Alive
  /\ \/ \E ok \in BOOLEAN : GlobalInit(ok) /\ Cost(Failures(<<ok>>))
     \/ \E ok \in BOOLEAN : CreateListeningSocket(ok) /\ Cost(Failures(<<ok>>))
     \/ \E db, created \in BOOLEAN : StartThread(db, created) /\ Cost(Failures(<<db, created>>))
     \/ MainStep /\ UNCHANGED faults
  /\ UNCHANGED <<loaderVars, script>>

NetworkFails ==
  /\ RunNetworkReturns
  /\ Cost(1)
  /\ UNCHANGED <<loaderVars, script>>

WorkerRuns(i) ==
  /\ Alive
  /\ WorkerCheck(i) \/ WorkerEvent(i)
  /\ UNCHANGED <<loaderVars, script, faults>>

RequestArrives(i) ==
  /\ Alive
  /\ DatabaseRequest(i)
  /\ UNCHANGED <<loaderVars, script, faults>>

Next ==
  \/ Probe \/ LoaderExit \/ ServerExit \/ Killed \/ ContainerStart
  \/ LoaderRuns \/ MainRuns \/ NetworkFails
  \/ \E i \in Threads : WorkerRuns(i) \/ RequestArrives(i)

Spec == Init /\ [][Next]_vars

\* The script, the loader and the main thread go on; the cluster answers every
\* commit; a thread leaves the check of its loop, but need not get an event.
Fairness ==
  /\ WF_vars(Probe)
  /\ WF_vars(LoaderExit)
  /\ WF_vars(ServerExit)
  /\ WF_vars(LoaderRuns)
  /\ WF_vars(MainRuns)
  /\ \A i \in Threads : WF_vars(WorkerRuns(i) /\ thread[i] = "check")

FairSpec == Spec /\ Fairness

----------------------------------------------------------------------------
(* Properties *)

Serving == server.pc = "network"

\* Types, and: the loader and the server never run at the same time, and the
\* store only ever holds rows of the loader's tables.
TypeOK ==
  /\ script \in {"probe", "loader", "server", "stopped"}
  /\ loader.pc # "none" <=> script = "loader"
  /\ server.pc # "none" <=> script = "server"
  /\ loader.next \in 1..ItemCount + WorldCount
  /\ loader.network \in {"none", "running", "gone"}
  /\ DOMAIN store \subseteq Tables
  /\ faults \in 0..MaxFaults

\* check_fdb after every batch of load_items and load_world_table, and set -e in
\* the script: whatever failed, was killed or stayed unknown, in this start or an
\* earlier one, a server that serves has all items and the whole World table.
\* (Warehouses, districts and counters are not checked and may be missing.)
CheckedTablesLoaded == Serving => Items \union WorldRows \subseteq DOMAIN store

\* Every start runs the loader, on a store that may have all of its rows.  It
\* always draws from the same seed: running it again, after a kill, an unknown
\* commit or a good boot, never changes a row that is there.
ReloadChangesNothing ==
  [][\A k \in DOMAIN store : k \in DOMAIN store' /\ store'[k] = store[k]]_store

\* Boots without failures leave every row the loader writes, and no other, in the
\* store before the server answers requests: items, warehouses, districts with
\* their counters, and World.
CleanBootComplete == Serving /\ faults = 0 => DOMAIN store = Tables

\* As long as main is in fdb_run_network no event loop has left its thread and
\* the socket they share is open: running is set before the thread starts.
ListenerOpenWhileServing ==
  Serving => listener = "open" /\ \A i \in Threads : thread[i] # "exited"

\* main disposes of a context and destroys a database handle only after the
\* thread that uses them has left its loop, and leaves none behind when it
\* returns.
DisposedAfterExit ==
  /\ \A i \in Threads :
       context[i] = "disposed" \/ handle[i] = "destroyed" => thread[i] \in {"exited", "none"}
  /\ server.pc = "exited" =>
       \A i \in Threads : context[i] # "live" /\ handle[i] # "open"

\* The loader waits for a commit and has no network thread to complete it.
LoaderStuck ==
  /\ loader.pc \in {"items", "warehouses", "districts", "world"}
  /\ loader.network # "running"

\* A start of the container comes to a serving process or stops; it hangs only in
\* a commit of the loader whose network thread was not created or has returned,
\* which nobody looks at, and never in the loader's shutdown (rfd/0012 "This
\* order is critical").
BootEnds == (script = "probe") ~> (Serving \/ script = "stopped" \/ LoaderStuck)

\* main returns after fdb_run_network did, provided every event loop keeps
\* getting events: the loops have no other way to see that they are to stop.
ShutdownEnds ==
  (\A i \in Threads : []<>(thread[i] # "loop")) =>
    ((server.pc \in {"stop", "join"}) ~> (server.pc \notin {"stop", "join"} /\ script = "stopped"))

\* tfb_handlers.c:29 "Per-handler FDB state (set during initialize_tfb_handlers
\* ...)" and fdb_database.h:21 "Each worker thread gets its own FDBDatabase*
\* handle": a request that needs the database does not end the process.
ServerSurvivesRequests == server.pc # "crashed"
=============================================================================
