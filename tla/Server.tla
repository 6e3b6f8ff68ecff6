------------------------------- MODULE Server -------------------------------
(* The server process, src/main.c: the main thread starts FoundationDB, the *)
(* listening socket and the event-loop threads, blocks in fdb_run_network,  *)
(* and takes everything down again when that returns.                       *)
EXTENDS Naturals

CONSTANT NumThreads    \* -a

ASSUME ServerAssumption == NumThreads \in Nat \ {0}

Threads == 0..NumThreads-1

VARIABLES server,    \* the main thread: pc, and the thread its loops are at
          thread,    \* the event-loop threads
          running,   \* threads[i].running
          handle,    \* threads[i].fdb_state.db
          context,   \* threads[i].h2o_ctx
          listener   \* the listening socket

serverVars == <<server, thread, running, handle, context, listener>>

Idle == [pc |-> "none", at |-> 0]

Each(value) == [i \in Threads |-> value]

ServerInit ==
  /\ server = Idle
  /\ thread = Each("none")
  /\ running = Each(FALSE)
  /\ handle = Each("none")
  /\ context = Each("none")
  /\ listener = "closed"

\* The process is gone, and all it held with it.
ServerGone ==
  /\ server' = Idle
  /\ thread' = Each("none")
  /\ running' = Each(FALSE)
  /\ handle' = Each("none")
  /\ context' = Each("none")
  /\ listener' = "closed"

----------------------------------------------------------------------------
(* Start *)

ServerStart ==
  /\ server.pc = "none"
  /\ server' = [pc |-> "init", at |-> 0]
  /\ UNCHANGED <<thread, running, handle, context, listener>>

\* fdb_global_init, and the registration of the handlers, whose FDB state stays
\* NULL.
GlobalInit(ok) ==
  /\ server.pc = "init"
  /\ server' = [server EXCEPT !.pc = IF ok THEN "listen" ELSE "exited"]
  /\ UNCHANGED <<thread, running, handle, context, listener>>

CreateListeningSocket(ok) ==
  /\ server.pc = "listen"
  /\ listener' = IF ok THEN "open" ELSE "closed"
  /\ server' = [server EXCEPT !.pc = IF ok THEN "threads" ELSE "exited"]
  /\ UNCHANGED <<thread, running, handle, context>>

Advance(pc, last) ==
  server' = IF server.at + 1 = NumThreads THEN [pc |-> last, at |-> 0]
            ELSE [pc |-> pc, at |-> server.at + 1]

\* running is set by the thread that calls pthread_create, but too late.
StartThreadEarly(db, created) ==
  /\ server.pc = "threads"
  /\ context' = [context EXCEPT ![server.at] = "live"]
  /\ handle' = [handle EXCEPT ![server.at] = IF db THEN "open" ELSE "none"]
  /\ thread' = [thread EXCEPT ![server.at] = IF created THEN "check" ELSE "none"]
  /\ running' = [i \in Threads |-> i < server.at]
  /\ Advance("threads", "network")
  /\ UNCHANGED listener

\* One round of the loop.  Neither the result of fdb_thread_init nor that of
\* pthread_create is looked at.
StartThread(db, created) ==
  /\ server.pc = "threads"
  /\ running' = [running EXCEPT ![server.at] = TRUE]
  /\ context' = [context EXCEPT ![server.at] = "live"]
  /\ handle' = [handle EXCEPT ![server.at] = IF db THEN "open" ELSE "none"]
  /\ thread' = [thread EXCEPT ![server.at] = IF created THEN "check" ELSE "none"]
  /\ Advance("threads", "network")
  /\ UNCHANGED listener

----------------------------------------------------------------------------
(* worker_main *)

\* while (tctx->running); after the loop h2o_socket_close closes the descriptor,
\* which all threads share.
WorkerCheck(i) ==
  /\ thread[i] = "check"
  /\ IF running[i]
     THEN thread' = [thread EXCEPT ![i] = "loop"] /\ UNCHANGED listener
     ELSE thread' = [thread EXCEPT ![i] = "exited"] /\ listener' = "closed"
  /\ UNCHANGED <<server, running, handle, context>>

\* h2o_evloop_run returns once it has handled an event.  Nothing wakes it but
\* events of its sockets (or 24 days).
WorkerEvent(i) ==
  /\ thread[i] = "loop"
  /\ thread' = [thread EXCEPT ![i] = "check"]
  /\ UNCHANGED <<server, running, handle, context, listener>>

\* The event is a request that needs the database: fdb_create_transaction
\* follows the NULL pointer that initialize_tfb_handlers and
\* initialize_tpcc_handlers were given.
DatabaseRequest(i) ==
  /\ thread[i] = "loop"
  /\ server' = [server EXCEPT !.pc = "crashed"]
  /\ UNCHANGED <<thread, running, handle, context, listener>>

----------------------------------------------------------------------------
(* The end of main *)

\* Nothing calls fdb_stop_network before: the network has failed.
RunNetworkReturns ==
  /\ server.pc = "network"
  /\ server' = [server EXCEPT !.pc = "stop"]
  /\ UNCHANGED <<thread, running, handle, context, listener>>

\* running is left as it is.
StopThreadForgets ==
  /\ server.pc = "stop"
  /\ server' = [server EXCEPT !.pc = "join"]
  /\ UNCHANGED <<thread, running, handle, context, listener>>

StopThread ==
  /\ server.pc = "stop"
  /\ running' = [running EXCEPT ![server.at] = FALSE]
  /\ server' = [server EXCEPT !.pc = "join"]
  /\ UNCHANGED <<thread, handle, context, listener>>

Dispose ==
  /\ context' = [context EXCEPT ![server.at] = "disposed"]
  /\ handle' = [handle EXCEPT ![server.at] = IF @ = "open" THEN "destroyed" ELSE @]

\* pthread_join is not waited for.
JoinThreadDetached ==
  /\ server.pc = "join"
  /\ Dispose
  /\ Advance("stop", "exited")
  /\ listener' = IF server'.pc = "exited" THEN "closed" ELSE listener
  /\ UNCHANGED <<thread, running>>

\* pthread_join, h2o_context_dispose and fdb_thread_cleanup; after the last
\* thread the array is freed and the descriptor closed (once more).  A thread
\* that was never created has a zero tid.
JoinThread ==
  /\ server.pc = "join"
  /\ thread[server.at] \in {"exited", "none"}
  /\ Dispose
  /\ Advance("stop", "exited")
  /\ listener' = IF server'.pc = "exited" THEN "closed" ELSE listener
  /\ UNCHANGED <<thread, running>>

\* Joining a thread that was never created is undefined: the process may die.
JoinMissing ==
  /\ server.pc = "join"
  /\ thread[server.at] = "none"
  /\ server' = [server EXCEPT !.pc = "crashed"]
  /\ UNCHANGED <<thread, running, handle, context, listener>>

MainStep == StopThread \/ JoinThread \/ JoinMissing

Alive == server.pc \notin {"none", "exited", "crashed"}
=============================================================================
