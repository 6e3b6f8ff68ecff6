----------------------------- MODULE TfbHandlers -----------------------------
(* The TechEmpower handlers of src/handlers/tfb_handlers.c over the World   *)
(* table.  None of them asks fdb_transaction_on_error: a read that fails    *)
(* ends the request, and the result of a commit is not looked at.  As in    *)
(* TpccHandlers, g_fdb_state is an initialised thread state.                *)
EXTENDS FdbAdapter

CONSTANTS MaxId,        \* TFB_MAX_ID
          MaxQueries,   \* TFB_MAX_QUERIES
          Parsed,       \* what atoi may return for the queries parameter
          Worlds        \* how many World rows the server may find

ASSUME TfbAssumption ==
  /\ MaxId \in Nat \ {0}
  /\ MaxQueries \in Nat \ {0}
  /\ Parsed \subseteq Int /\ Parsed # {}
  /\ Worlds \subseteq 0..MaxId

world_key(id) == <<"tfb/w/", id>>

Init ==
  /\ \E n \in Worlds : db = [k \in {world_key(id) : id \in 1..n} |-> 0]
  /\ AdapterInit

----------------------------------------------------------------------------
(* Helpers *)

\* get_random_number(max) is 1 + rand % max.
RandomNumbers(max) == 1..max

\* 1 + get_random_number(TFB_MAX_ID): id 1 is never drawn, MaxId + 1 may be.
RandomWorldIds == {1 + n : n \in RandomNumbers(MaxId)}

\* The parameter's name is skipped twice (once in get_query_param, once here),
\* so what is parsed is whatever follows in the request; the result is clamped.
GetQueryNumber(n) == IF n < 1 THEN 1 ELSE IF n > MaxQueries THEN MaxQueries ELSE n

QueryNumbers == {GetQueryNumber(n) : n \in Parsed}

\* The cache is filled with rand_r % 10000 when the handlers are registered
\* and never from the store; reading past its end gives anything.
WorldCache == [id \in 0..MaxId |-> id % MaxId]

CachedNumbers(id) == IF id \in DOMAIN WorldCache THEN {WorldCache[id]} ELSE 0..MaxId

Rows(ids, numbers) == [i \in DOMAIN numbers |-> [id |-> ids[i], randomNumber |-> numbers[i]]]

Reply(r, rows) == [status |-> "ok", kind |-> ctx[r].kind, rows |-> rows,
                   asked |-> Len(ctx[r].ids)]

----------------------------------------------------------------------------
(* /plaintext, /json and /cached-worlds are answered at once *)

Answer(r, response) ==
  /\ answer' = [answer EXCEPT ![r] = response]
  /\ pc' = [pc EXCEPT ![r] = "done"]
  /\ UNCHANGED <<ctx, faults>>

PlaintextHandler(r) == Enter(r) /\ Answer(r, [status |-> "ok", kind |-> "plaintext"])

JsonHandler(r) == Enter(r) /\ Answer(r, [status |-> "ok", kind |-> "json"])

CachedWorldsHandler(r) ==
  /\ Enter(r)
  /\ \E n \in QueryNumbers : \E ids \in [1..n -> RandomWorldIds] :
       \E numbers \in {f \in [1..n -> 0..MaxId] : \A i \in 1..n : f[i] \in CachedNumbers(ids[i])} :
         Answer(r, [status |-> "ok", kind |-> "cached", rows |-> Rows(ids, numbers), asked |-> n])

----------------------------------------------------------------------------
(* /db *)

DbHandler(r) ==
  /\ Enter(r)
  /\ \/ /\ \E id \in RandomWorldIds :
             ctx' = [ctx EXCEPT ![r] = [kind |-> "db", ids |-> <<id>>, numbers |-> <<>>]]
        /\ Await(r, "on_single_query_result")
        /\ UNCHANGED answer
     \/ CreateFails(r, "db")

\* A read that fails ends the request with a 503.
ReadFails(r) == Fault("read") /\ Finish(r, Failed(r))

\* A missing row is not answered.
OnSingleQueryResultDrops(r) ==
  /\ Completed(r, "on_single_query_result", "db")
  /\ LET k == world_key(ctx[r].ids[1]) IN
       \/ /\ Present(r, k)
          /\ Finish(r, Reply(r, Rows(ctx[r].ids, <<Row(r, k)>>)))
          /\ UNCHANGED faults
       \/ /\ ~Present(r, k)
          /\ pc' = [pc EXCEPT ![r] = "lost"]
          /\ UNCHANGED <<ctx, tr, future, answer, faults>>
       \/ ReadFails(r)

OnSingleQueryResult(r) ==
  /\ Completed(r, "on_single_query_result", "db")
  /\ LET k == world_key(ctx[r].ids[1]) IN
       \/ /\ Present(r, k)
          /\ Finish(r, Reply(r, Rows(ctx[r].ids, <<Row(r, k)>>)))
          /\ UNCHANGED faults
       \/ ~Present(r, k) /\ Finish(r, Failed(r)) /\ UNCHANGED faults
       \/ ReadFails(r)

----------------------------------------------------------------------------
(* /queries and /updates draw their ids and submit the first read *)

\* ctx->ids (at once) or ctx->random_numbers (with the first number) is NULL and
\* is written through.
ArraysMissing ==
  /\ Fault("oom")
  /\ up' = FALSE
  /\ UNCHANGED requestVars

MultiHandler(r, kind, callback) ==
  \/ /\ Enter(r)
     /\ \/ /\ \E n \in QueryNumbers : \E ids \in [1..n -> RandomWorldIds] :
                ctx' = [ctx EXCEPT ![r] = [kind |-> kind, ids |-> ids, numbers |-> <<>>]]
           /\ Await(r, callback)
           /\ UNCHANGED answer
        \/ CreateFails(r, kind)
  \/ up /\ pc[r] = "idle" /\ ArraysMissing

QueriesHandler(r) == MultiHandler(r, "queries", "multi_query_next")

UpdatesHandler(r) == MultiHandler(r, "updates", "update_on_read")

\* multi_query_next is registered as the callback of its own read and takes the
\* future for its context: the process dies, or the call comes back from the
\* wrong memory and the request has nobody left to answer it.
MultiQueryNext(r) ==
  /\ up
  /\ pc[r] = "multi_query_next"
  /\ \/ up' = FALSE /\ UNCHANGED pc
     \/ pc' = [pc EXCEPT ![r] = "lost"] /\ UNCHANGED up
  /\ UNCHANGED <<db, ctx, tr, future, answer, applied, faults>>

----------------------------------------------------------------------------
(* /updates *)

\* The first of two equal ids wins.
UpdateWritesFirst(c) ==
  [k \in {world_key(c.ids[i]) : i \in DOMAIN c.numbers} |->
     c.numbers[CHOOSE i \in DOMAIN c.numbers :
       /\ world_key(c.ids[i]) = k
       /\ \A j \in DOMAIN c.numbers : world_key(c.ids[j]) = k => i <= j]]

\* The ids are not unique: of two sets of one key the last wins.
UpdateWrites(c) ==
  [k \in {world_key(c.ids[i]) : i \in DOMAIN c.numbers} |->
     c.numbers[CHOOSE i \in DOMAIN c.numbers :
       /\ world_key(c.ids[i]) = k
       /\ \A j \in DOMAIN c.numbers : world_key(c.ids[j]) = k => j <= i]]

\* The rows are answered without a commit.
UpdateDoWritesAnswers(r, c, t) ==
  /\ Finish(r, [status |-> "ok", kind |-> "updates", rows |-> Rows(c.ids, c.numbers),
                asked |-> Len(c.ids)])
  /\ UNCHANGED faults

UpdateDoWrites(r, c, t) ==
  /\ ctx' = [ctx EXCEPT ![r] = c]
  /\ tr' = [tr EXCEPT ![r] = [t EXCEPT !.writes = UpdateWrites(c)]]
  /\ Await(r, "update_on_commit")
  /\ UNCHANGED <<future, answer>>

\* The loop stops one row early.
ReadsDoneEarly(c) == Len(c.numbers) + 1 >= Len(c.ids)

\* ctx->num_result is Len(numbers), ctx->num_query is Len(ids).
ReadsDone(c) == Len(c.numbers) >= Len(c.ids)

\* Whatever the row holds, or if it is missing, a new number is drawn.
UpdateOnRead(r) ==
  \/ up /\ pc[r] = "update_on_read" /\ ctx[r].numbers = <<>> /\ ArraysMissing
  \/ /\ Completed(r, "update_on_read", "updates")
     /\ \/ \E number \in {id - 1 : id \in RandomWorldIds} :
             LET c == [ctx[r] EXCEPT !.numbers = Append(@, number)]
                 t == AfterRead(r, world_key(ctx[r].ids[Len(ctx[r].numbers) + 1]))
             IN IF ReadsDone(c)
                THEN UpdateDoWrites(r, c, t)
                ELSE /\ ctx' = [ctx EXCEPT ![r] = c]
                     /\ tr' = [tr EXCEPT ![r] = t]
                     /\ Await(r, "update_on_read")
                     /\ UNCHANGED <<future, answer>>
        \/ ReadFails(r)

\* A failed commit is submitted again as it is.
UpdateOnCommitAgain(r) ==
  /\ Completed(r, "update_on_commit", "updates")
  /\ future[r] # "pending"
  /\ IF future[r] = "ok"
     THEN Finish(r, Reply(r, Rows(ctx[r].ids, ctx[r].numbers)))
     ELSE /\ tr' = [tr EXCEPT ![r] = [NewTransaction EXCEPT !.writes = tr[r].writes]]
          /\ future' = [future EXCEPT ![r] = "pending"]
          /\ UNCHANGED <<pc, ctx, answer>>
  /\ UNCHANGED faults

\* The result of the commit is not looked at.
UpdateOnCommit(r) ==
  /\ Completed(r, "update_on_commit", "updates")
  /\ future[r] # "pending"
  /\ Finish(r, Reply(r, Rows(ctx[r].ids, ctx[r].numbers)))
  /\ UNCHANGED faults

----------------------------------------------------------------------------

Arrive(r) ==
  \/ PlaintextHandler(r)
  \/ JsonHandler(r)
  \/ DbHandler(r)
  \/ QueriesHandler(r)
  \/ UpdatesHandler(r)
  \/ CachedWorldsHandler(r)

Callback(r) ==
  \/ OnSingleQueryResult(r)
  \/ MultiQueryNext(r)
  \/ UpdateOnRead(r)
  \/ UpdateOnCommit(r)

Next == \E r \in Reqs : Arrive(r) \/ Callback(r) \/ Commit(r)

Spec == Init /\ [][Next]_adapterVars

\* FoundationDB completes every future and the network thread runs every
\* callback; requests need not arrive.
FairSpec ==
  Spec /\ \A r \in Reqs : WF_adapterVars(Callback(r)) /\ WF_adapterVars(Commit(r))

----------------------------------------------------------------------------
(* Properties *)

UpdatedRows(r) == {answer[r].rows[i] : i \in DOMAIN answer[r].rows}

\* Types, and: a transaction holds writes only while its /updates has its context.
TypeOK ==
  /\ \A r \in Reqs :
       /\ pc[r] \in {"idle", "done", "lost", "on_single_query_result", "multi_query_next",
                     "update_on_read", "update_on_commit"}
       /\ future[r] \in {"pending", "ok", "retryable", "fatal"}
       /\ answer[r].status \in {"none", "ok", "error"}
       /\ DOMAIN tr[r].writes # {} => ctx[r].kind = "updates"
  /\ faults \in 0..MaxFaults

\* TFB_MAX_QUERIES and get_query_number: a list answer has as many rows as were
\* asked for after clamping, never none and never more than the maximum, also
\* when rows are missing or ids repeat.
AnswerAsLongAsAsked ==
  \A r \in Reqs : Ok(r) /\ answer[r].kind \in {"db", "updates", "cached"} =>
    /\ Len(answer[r].rows) = answer[r].asked
    /\ answer[r].asked \in 1..MaxQueries

\* update_on_commit answers 200 whatever became of the commit.  An /updates
\* that is answered so and is not in the store either met a commit fault or
\* read a row that another /updates has committed: without overlap and without
\* faults no update is lost.
LostUpdateNeedsConflict ==
  \A r \in Reqs : Ok(r) /\ answer[r].kind = "updates" /\ applied[r] = 0 /\ faults = 0 =>
    \E q \in Reqs \ {r} :
      /\ applied[q] = 1
      /\ \E row \in UpdatedRows(r) :
           \/ Ok(q) /\ row.id \in {other.id : other \in UpdatedRows(q)}
           \/ ctx[q].kind = "updates" /\ \E i \in DOMAIN ctx[q].ids : ctx[q].ids[i] = row.id

\* No handler commits a transaction twice, also when its result is unknown.
AppliedAtMostOnce == \A r \in Reqs : applied[r] <= 1

\* A row of the store that is not as it was loaded is the last row for its id in
\* the answer (or, before that, the context) of an /updates that was applied:
\* no update leaves half of its rows, or rows it does not report.
ChangedRowsReported ==
  \A k \in DOMAIN db :
    \/ k[2] <= MaxId /\ db[k] = 0
    \/ \E r \in Reqs : applied[r] = 1 /\
         LET rows == IF Ok(r) THEN answer[r].rows ELSE Rows(ctx[r].ids, ctx[r].numbers)
         IN \E i \in DOMAIN rows :
              /\ rows[i] = [id |-> k[2], randomNumber |-> db[k]]
              /\ \A j \in DOMAIN rows : rows[j].id = k[2] => j <= i

\* Every /db and /updates is answered, with rows or with an error, unless the
\* process dies first.  (/queries is not: see MultiQueryNext.)
EveryTfbRequestAnswered ==
  \A r \in Reqs : (ctx[r].kind \in {"db", "updates"}) ~> (answer[r] # NoAnswer \/ ~up)
=============================================================================
