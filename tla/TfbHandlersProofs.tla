-------------------------- MODULE TfbHandlersProofs --------------------------
(* For every number of requests, World rows and queries, and every number   *)
(* and kind of fault: the TechEmpower handlers free a context exactly when  *)
(* they answer, commit no transaction twice, answer as many rows as were    *)
(* asked for, lose an /updates only to a fault or a conflict, and leave in  *)
(* the store only rows that an applied /updates answers.                    *)
EXTENDS TfbHandlers, NaturalsInduction, WellFoundedInduction, TLAPS

----------------------------------------------------------------------------
(* The inductive invariant, as a predicate on the state of one request:     *)
(* p its callback, c its context, t its transaction, f its future, a its    *)
(* answer, n how often it was applied                                       *)

Callbacks == {"on_single_query_result", "multi_query_next", "update_on_read", "update_on_commit"}

\* ctx->num_result rows of ctx->num_query have been read.
Context(c) ==
  /\ c \in [kind : {"db", "queries", "updates"}, ids : Seq(Nat), numbers : Seq(Nat)]
  /\ Len(c.ids) \in 1..MaxQueries

\* As many rows as were asked for.
FullAnswer(a) ==
  /\ a.status \in {"ok", "error"}
  /\ a.status = "ok" /\ a.kind \in {"db", "updates", "cached"} =>
       Len(a.rows) = a.asked /\ a.asked \in 1..MaxQueries

ReqInv(p, c, t, f, a, n) ==
  /\ p \in Callbacks \union {"idle", "done", "lost"}
  /\ n \in {0, 1}
  /\ p \in {"idle", "done"} => c = NoCtx /\ t = NewTransaction
  /\ p \notin {"idle", "done"} => Context(c)
  /\ p = "on_single_query_result" => Len(c.ids) = 1
  /\ p = "update_on_read" => Len(c.numbers) < Len(c.ids)
  /\ p = "update_on_commit" => Len(c.numbers) = Len(c.ids)
  /\ p # "done" => a = NoAnswer
  /\ p = "done" => FullAnswer(a)
  /\ n = 1 => f # "pending" \/ p = "done"

IInv ==
  /\ DOMAIN pc = Reqs /\ DOMAIN ctx = Reqs /\ DOMAIN tr = Reqs
  /\ DOMAIN future = Reqs /\ DOMAIN answer = Reqs /\ DOMAIN applied = Reqs
  /\ \A r \in Reqs : ReqInv(pc[r], ctx[r], tr[r], future[r], answer[r], applied[r])

----------------------------------------------------------------------------
(* Steps of one request *)

\* Of v, w changes only the value at r.
Only(v, w, r) == DOMAIN w = Reqs /\ \A q \in Reqs \ {r} : w[q] = v[q]

\* An assignment at r changes only r.
LEMMA OnlyExcept ==
  ASSUME NEW v, DOMAIN v = Reqs, NEW r \in Reqs, NEW x, NEW w, w = [v EXCEPT ![r] = x]
  PROVE  Only(v, w, r) /\ w[r] = x
BY DEF Only

\* No assignment changes nothing.
LEMMA OnlySame ==
  ASSUME NEW v, DOMAIN v = Reqs, NEW r \in Reqs
  PROVE  Only(v, v, r)
BY DEF Only

\* A callback of one request leaves the others as they are.
LEMMA OneRequest ==
  ASSUME IInv, NEW r \in Reqs, UNCHANGED applied,
         Only(pc, pc', r), Only(ctx, ctx', r), Only(tr, tr', r),
         Only(future, future', r), Only(answer, answer', r),
         ReqInv(pc'[r], ctx'[r], tr'[r], future'[r], answer'[r], applied[r])
  PROVE  IInv'
<1>1. ASSUME NEW q \in Reqs
      PROVE  ReqInv(pc'[q], ctx'[q], tr'[q], future'[q], answer'[q], applied[q])
  <2>1. CASE q = r
    BY <2>1
  <2>2. CASE q # r
    <3>1. /\ pc'[q] = pc[q] /\ ctx'[q] = ctx[q] /\ tr'[q] = tr[q]
          /\ future'[q] = future[q] /\ answer'[q] = answer[q]
      BY <2>2 DEF Only
    <3>2. ReqInv(pc[q], ctx[q], tr[q], future[q], answer[q], applied[q])
      BY DEF IInv
    <3> QED
      BY <3>1, <3>2
  <2> QED
    BY <2>1, <2>2
<1>2. /\ DOMAIN pc' = Reqs /\ DOMAIN ctx' = Reqs /\ DOMAIN tr' = Reqs
      /\ DOMAIN future' = Reqs /\ DOMAIN answer' = Reqs /\ DOMAIN applied' = Reqs
  BY DEF Only, IInv
<1> QED
  BY <1>1, <1>2 DEF IInv

\* The end of a chain: the answer is sent, the transaction destroyed, the
\* context freed.
LEMMA FinishInv ==
  ASSUME IInv, NEW r \in Reqs, NEW response, Finish(r, response), UNCHANGED applied,
         FullAnswer(response)
  PROVE  IInv'
<1>1. /\ Only(pc, pc', r) /\ Only(ctx, ctx', r) /\ Only(tr, tr', r)
      /\ Only(future, future', r) /\ Only(answer, answer', r)
      /\ pc'[r] = "done" /\ ctx'[r] = NoCtx /\ tr'[r] = NewTransaction
      /\ answer'[r] = response
  BY OnlyExcept, Zenon DEF Finish, IInv
<1>2. applied[r] \in {0, 1}
  BY DEF IInv, ReqInv
<1>3. ReqInv("done", NoCtx, NewTransaction, future'[r], response, applied[r])
  BY <1>2 DEF ReqInv
<1> QED
  BY <1>1, <1>3, OneRequest

\* An error needs no rows.
LEMMA FailedFull ==
  ASSUME NEW r \in Reqs
  PROVE  FullAnswer(Failed(r))
BY DEF FullAnswer, Failed

\* submit_future at the end of a step, and what happens when it fails.
LEMMA AwaitInv ==
  ASSUME IInv, NEW r \in Reqs, NEW callback \in Callbacks, Await(r, callback),
         pc[r] # "done", NEW c, ctx' = [ctx EXCEPT ![r] = c],
         Only(tr, tr', r), UNCHANGED <<future, answer, applied>>, Context(c),
         callback = "on_single_query_result" => Len(c.ids) = 1,
         callback = "update_on_read" => Len(c.numbers) < Len(c.ids),
         callback = "update_on_commit" => Len(c.numbers) = Len(c.ids)
  PROVE  IInv'
<1>1. PICK p \in {callback, "lost"} : pc' = [pc EXCEPT ![r] = p]
  BY DEF Await
<1>2. Only(pc, pc', r) /\ pc'[r] = p /\ Only(ctx, ctx', r) /\ ctx'[r] = c
  BY <1>1, OnlyExcept, Zenon DEF IInv
<1>3. Only(future, future', r) /\ Only(answer, answer', r)
  BY OnlySame DEF IInv
<1>4. p \notin {"idle", "done"} /\ p \in Callbacks \union {"lost"}
  BY <1>1 DEF Callbacks
<1>5. ReqInv(pc[r], ctx[r], tr[r], future[r], answer[r], applied[r])
  BY DEF IInv
<1>6. ReqInv(p, c, tr'[r], future[r], answer[r], applied[r])
  BY <1>1, <1>4, <1>5 DEF ReqInv, Callbacks
<1> QED
  BY <1>2, <1>3, <1>6, OneRequest, Zenon

\* A request that is answered by its entry point.
LEMMA AnswerInv ==
  ASSUME IInv, NEW r \in Reqs, Enter(r), NEW response, FullAnswer(response),
         pc' = [pc EXCEPT ![r] = "done"], answer' = [answer EXCEPT ![r] = response],
         UNCHANGED ctx
  PROVE  IInv'
<1>1. pc[r] = "idle" /\ UNCHANGED <<tr, future, applied>>
  BY DEF Enter, storeVars
<1>2. /\ Only(pc, pc', r) /\ pc'[r] = "done" /\ Only(answer, answer', r)
      /\ answer'[r] = response
  BY OnlyExcept, Zenon DEF IInv
<1>3. Only(ctx, ctx', r) /\ Only(tr, tr', r) /\ Only(future, future', r)
  BY <1>1, OnlySame DEF IInv
<1>4. ReqInv(pc[r], ctx[r], tr[r], future[r], answer[r], applied[r])
  BY DEF IInv
<1>5. ReqInv("done", ctx[r], tr[r], future[r], response, applied[r])
  BY <1>1, <1>4 DEF ReqInv
<1> QED
  BY <1>1, <1>2, <1>3, <1>5, OneRequest, Zenon

\* A handler whose context or transaction cannot be made answers at once.
LEMMA CreateFailsInv ==
  ASSUME IInv, NEW r \in Reqs, Enter(r), NEW kind, CreateFails(r, kind)
  PROVE  IInv'
<1> DEFINE a == [status |-> "error", kind |-> kind]
<1>1. FullAnswer(a)
  BY DEF FullAnswer
<1>2. pc' = [pc EXCEPT ![r] = "done"] /\ answer' = [answer EXCEPT ![r] = a] /\ UNCHANGED ctx
  BY DEF CreateFails
<1> HIDE DEF a
<1> QED
  BY <1>1, <1>2, AnswerInv, Zenon

\* A process that dies changes no request.
LEMMA DeadInv ==
  ASSUME IInv, UNCHANGED requestVars
  PROVE  IInv'
BY DEF IInv, requestVars

----------------------------------------------------------------------------
(* Entry points *)

\* get_query_number clamps whatever was parsed.
LEMMA QueryNumberRange == QueryNumbers \subseteq 1..MaxQueries
<1>1. ASSUME NEW n \in Parsed PROVE GetQueryNumber(n) \in 1..MaxQueries
  <2>1. n \in Int /\ MaxQueries \in Nat /\ MaxQueries >= 1
    BY TfbAssumption
  <2> QED
    BY <2>1 DEF GetQueryNumber
<1> QED
  BY <1>1 DEF QueryNumbers

\* The ids drawn are natural numbers.
LEMMA WorldIdsNat == RandomWorldIds \subseteq Nat
BY TfbAssumption DEF RandomWorldIds, RandomNumbers

\* A list of rows is as long as the numbers it was made from.
LEMMA RowsLength ==
  ASSUME NEW n \in Nat, NEW ids, NEW numbers, DOMAIN numbers = 1..n
  PROVE  Len(Rows(ids, numbers)) = n
<1> DEFINE row(i) == [id |-> ids[i], randomNumber |-> numbers[i]]
           S == {row(i) : i \in 1..n}
<1>1. Rows(ids, numbers) = [i \in 1..n |-> row(i)]
  BY DEF Rows
<1>2. Rows(ids, numbers) \in [1..n -> S]
  BY <1>1
<1> HIDE DEF S
<1>3. Rows(ids, numbers) \in Seq(S) /\ DOMAIN Rows(ids, numbers) = 1..n
  BY <1>2
<1> QED
  BY <1>3

\* /plaintext, /json and /cached-worlds.
LEMMA ImmediateInv ==
  ASSUME IInv, NEW r \in Reqs,
         PlaintextHandler(r) \/ JsonHandler(r) \/ CachedWorldsHandler(r)
  PROVE  IInv'
<1>1. ASSUME NEW response, Enter(r), Answer(r, response), FullAnswer(response) PROVE IInv'
  BY <1>1, AnswerInv, Zenon DEF Answer
<1>2. CASE PlaintextHandler(r)
  <2> DEFINE response == [status |-> "ok", kind |-> "plaintext"]
  <2>1. FullAnswer(response)
    BY DEF FullAnswer
  <2> QED
    BY <1>1, <1>2, <2>1 DEF PlaintextHandler
<1>3. CASE JsonHandler(r)
  <2> DEFINE response == [status |-> "ok", kind |-> "json"]
  <2>1. FullAnswer(response)
    BY DEF FullAnswer
  <2> QED
    BY <1>1, <1>3, <2>1 DEF JsonHandler
<1>4. CASE CachedWorldsHandler(r)
  <2>0. PICK n \in QueryNumbers :
          \E ids \in [1..n -> RandomWorldIds], numbers \in [1..n -> 0..MaxId] :
            Answer(r, [status |-> "ok", kind |-> "cached", rows |-> Rows(ids, numbers),
                       asked |-> n])
    BY <1>4 DEF CachedWorldsHandler
  <2>1. PICK ids \in [1..n -> RandomWorldIds], numbers \in [1..n -> 0..MaxId] :
          Answer(r, [status |-> "ok", kind |-> "cached", rows |-> Rows(ids, numbers), asked |-> n])
    BY <2>0
  <2> DEFINE response == [status |-> "ok", kind |-> "cached", rows |-> Rows(ids, numbers),
                          asked |-> n]
  <2>2. n \in 1..MaxQueries /\ n \in Nat
    BY QueryNumberRange, TfbAssumption
  <2>3. Len(Rows(ids, numbers)) = n
    BY <2>2, RowsLength
  <2>4. FullAnswer(response)
    BY <2>2, <2>3 DEF FullAnswer
  <2>5. Enter(r) /\ Answer(r, response)
    BY <1>4, <2>1 DEF CachedWorldsHandler
  <2> HIDE DEF response
  <2> QED
    BY <1>1, <2>4, <2>5
<1> QED
  BY <1>2, <1>3, <1>4

\* An entry point makes the context and submits the first read.
LEMMA EnterInv ==
  ASSUME IInv, NEW r \in Reqs, Enter(r), NEW n \in 1..MaxQueries,
         NEW ids \in [1..n -> RandomWorldIds], NEW kind \in {"db", "queries", "updates"},
         ctx' = [ctx EXCEPT ![r] = [kind |-> kind, ids |-> ids, numbers |-> <<>>]],
         NEW callback \in Callbacks \ {"update_on_commit"}, Await(r, callback), UNCHANGED answer,
         callback = "on_single_query_result" => n = 1
  PROVE  IInv'
<1> DEFINE c == [kind |-> kind, ids |-> ids, numbers |-> <<>>]
<1>1. pc[r] = "idle" /\ UNCHANGED <<tr, future, applied>>
  BY DEF Enter, storeVars
<1>2. n \in Nat /\ n >= 1
  BY TfbAssumption
<1>3. ids \in Seq(Nat)
  <2>1. ids \in [1..n -> Nat]
    BY WorldIdsNat, Zenon
  <2> QED
    BY <1>2, <2>1
<1>4. Len(ids) = n
  BY <1>2, <1>3
<1>5. c.ids = ids /\ c.numbers = <<>> /\ Len(c.numbers) = 0
  OBVIOUS
<1>6. Context(c)
  BY <1>3, <1>4 DEF Context
<1>7. ctx' = [ctx EXCEPT ![r] = c]
  OBVIOUS
<1>8. Only(tr, tr', r)
  BY <1>1, OnlySame DEF IInv
<1> HIDE DEF c
<1>9. /\ callback \in Callbacks /\ callback # "update_on_commit" /\ pc[r] # "done"
      /\ Len(c.numbers) < Len(c.ids)
      /\ callback = "on_single_query_result" => Len(c.ids) = 1
  BY <1>1, <1>2, <1>4, <1>5
<1> QED
  BY <1>1, <1>6, <1>7, <1>8, <1>9, AwaitInv, Zenon

\* /db asks for one row.
LEMMA DbHandlerInv ==
  ASSUME IInv, NEW r \in Reqs, DbHandler(r)
  PROVE  IInv'
<1>1. Enter(r)
  BY DEF DbHandler
<1>2. CASE CreateFails(r, "db")
  BY <1>1, <1>2, CreateFailsInv
<1>3. CASE ~CreateFails(r, "db")
  <2>1. PICK id \in RandomWorldIds :
          ctx' = [ctx EXCEPT ![r] = [kind |-> "db", ids |-> <<id>>, numbers |-> <<>>]]
    BY <1>3 DEF DbHandler
  <2>2. Await(r, "on_single_query_result") /\ UNCHANGED answer
    BY <1>3 DEF DbHandler
  <2> DEFINE ids == <<id>>
  <2>3. ids \in [1..1 -> RandomWorldIds] /\ 1 \in 1..MaxQueries
    BY TfbAssumption
  <2>4. ctx' = [ctx EXCEPT ![r] = [kind |-> "db", ids |-> ids, numbers |-> <<>>]]
    BY <2>1
  <2> HIDE DEF ids
  <2>5. "on_single_query_result" \in Callbacks \ {"update_on_commit"}
    BY DEF Callbacks
  <2> QED
    BY <1>1, <2>2, <2>3, <2>4, <2>5, EnterInv, Zenon
<1> QED
  BY <1>2, <1>3

\* /queries and /updates ask for as many rows as get_query_number allows.
LEMMA MultiHandlerInv ==
  ASSUME IInv, NEW r \in Reqs, NEW kind \in {"queries", "updates"},
         NEW callback \in {"multi_query_next", "update_on_read"}, MultiHandler(r, kind, callback)
  PROVE  IInv'
<1>1. CASE ArraysMissing
  BY <1>1, DeadInv DEF ArraysMissing
<1>2. CASE Enter(r) /\ CreateFails(r, kind)
  BY <1>2, CreateFailsInv
<1>3. CASE ~ArraysMissing /\ ~(Enter(r) /\ CreateFails(r, kind))
  <2>1. Enter(r) /\ Await(r, callback) /\ UNCHANGED answer
    BY <1>3 DEF MultiHandler
  <2>0. PICK n \in QueryNumbers :
          \E ids \in [1..n -> RandomWorldIds] :
            ctx' = [ctx EXCEPT ![r] = [kind |-> kind, ids |-> ids, numbers |-> <<>>]]
    BY <1>3 DEF MultiHandler
  <2>2. PICK ids \in [1..n -> RandomWorldIds] :
          ctx' = [ctx EXCEPT ![r] = [kind |-> kind, ids |-> ids, numbers |-> <<>>]]
    BY <2>0, Zenon
  <2>3. n \in 1..MaxQueries
    BY QueryNumberRange
  <2>4. callback \in Callbacks \ {"update_on_commit"} /\ callback # "on_single_query_result"
    BY DEF Callbacks
  <2> QED
    BY <2>1, <2>2, <2>3, <2>4, EnterInv, Zenon
<1> QED
  BY <1>1, <1>2, <1>3

----------------------------------------------------------------------------
(* Callbacks *)

\* on_single_query_result answers one row or an error.
LEMMA OnSingleQueryResultInv ==
  ASSUME IInv, NEW r \in Reqs, OnSingleQueryResult(r)
  PROVE  IInv'
<1>1. UNCHANGED applied /\ pc[r] = "on_single_query_result"
  BY DEF OnSingleQueryResult, Completed, storeVars
<1>2. Context(ctx[r]) /\ Len(ctx[r].ids) = 1
  BY <1>1 DEF IInv, ReqInv
<1>3. CASE Finish(r, Failed(r))
  BY <1>1, <1>3, FailedFull, FinishInv
<1>4. CASE ~Finish(r, Failed(r))
  <2> DEFINE k == world_key(ctx[r].ids[1])
             numbers == <<Row(r, k)>>
             rows == Rows(ctx[r].ids, numbers)
             response == Reply(r, rows)
  <2>1. Finish(r, response)
    BY <1>4 DEF OnSingleQueryResult, ReadFails
  <2>2. DOMAIN numbers = 1..1
    OBVIOUS
  <2> HIDE DEF numbers
  <2>3. Len(rows) = 1
    BY <2>2, RowsLength, Zenon
  <2> HIDE DEF rows
  <2>4. response.rows = rows /\ response.asked = 1 /\ response.status = "ok"
    BY <1>2 DEF Reply
  <2> HIDE DEF response
  <2>5. FullAnswer(response)
    BY <2>3, <2>4, TfbAssumption DEF FullAnswer
  <2> QED
    BY <1>1, <2>1, <2>5, FinishInv
<1> QED
  BY <1>3, <1>4

\* multi_query_next ends the process or loses its request.
LEMMA MultiQueryNextInv ==
  ASSUME IInv, NEW r \in Reqs, MultiQueryNext(r)
  PROVE  IInv'
<1>1. UNCHANGED <<ctx, tr, future, answer, applied>> /\ pc[r] = "multi_query_next"
  BY DEF MultiQueryNext
<1>2. CASE UNCHANGED pc
  BY <1>1, <1>2, Zenon DEF IInv
<1>3. CASE pc' = [pc EXCEPT ![r] = "lost"]
  <2>1. Only(pc, pc', r) /\ pc'[r] = "lost"
    BY <1>3, OnlyExcept, Zenon DEF IInv
  <2>2. /\ Only(ctx, ctx', r) /\ Only(tr, tr', r) /\ Only(future, future', r)
        /\ Only(answer, answer', r)
    BY <1>1, OnlySame, Zenon DEF IInv
  <2>3. ReqInv(pc[r], ctx[r], tr[r], future[r], answer[r], applied[r])
    BY DEF IInv
  <2>4. ReqInv("lost", ctx[r], tr[r], future[r], answer[r], applied[r])
    BY <1>1, <2>3 DEF ReqInv
  <2> QED
    BY <1>1, <2>1, <2>2, <2>4, OneRequest
<1> QED
  BY <1>2, <1>3, Zenon DEF MultiQueryNext

\* update_on_read draws one number and commits after the last.
LEMMA UpdateOnReadInv ==
  ASSUME IInv, NEW r \in Reqs, UpdateOnRead(r)
  PROVE  IInv'
<1>1. CASE ArraysMissing
  BY <1>1, DeadInv DEF ArraysMissing
<1>2. CASE Completed(r, "update_on_read", "updates") /\ ReadFails(r)
  BY <1>2, FailedFull, FinishInv DEF ReadFails, Completed, storeVars
<1>3. ASSUME Completed(r, "update_on_read", "updates"),
             NEW number \in {id - 1 : id \in RandomWorldIds},
             LET c == [ctx[r] EXCEPT !.numbers = Append(@, number)]
                 t == AfterRead(r, world_key(ctx[r].ids[Len(ctx[r].numbers) + 1]))
             IN IF ReadsDone(c)
                THEN UpdateDoWrites(r, c, t)
                ELSE /\ ctx' = [ctx EXCEPT ![r] = c]
                     /\ tr' = [tr EXCEPT ![r] = t]
                     /\ Await(r, "update_on_read")
                     /\ UNCHANGED <<future, answer>>
      PROVE  IInv'
  <2> DEFINE c == [ctx[r] EXCEPT !.numbers = Append(@, number)]
             t == AfterRead(r, world_key(ctx[r].ids[Len(ctx[r].numbers) + 1]))
             s == [t EXCEPT !.writes = UpdateWrites(c)]
  <2>1. UNCHANGED applied /\ pc[r] = "update_on_read"
    BY <1>3, Zenon DEF Completed, storeVars
  <2>2. Context(ctx[r]) /\ Len(ctx[r].numbers) < Len(ctx[r].ids)
    BY <2>1 DEF IInv, ReqInv
  <2>3. number \in Nat
    <3>1. PICK id \in RandomWorldIds : number = id - 1
      OBVIOUS
    <3> QED
      BY <3>1, TfbAssumption DEF RandomWorldIds, RandomNumbers
  <2>4. /\ ctx[r].ids \in Seq(Nat) /\ ctx[r].numbers \in Seq(Nat)
        /\ Append(ctx[r].numbers, number) \in Seq(Nat)
        /\ Len(Append(ctx[r].numbers, number)) = Len(ctx[r].numbers) + 1
    BY <2>2, <2>3 DEF Context
  <2>5. c.ids = ctx[r].ids /\ c.numbers = Append(ctx[r].numbers, number)
    BY <2>2 DEF Context
  <2>6. Context(c)
    BY <2>2, <2>4, Zenon DEF Context
  <2>7. Len(c.numbers) \in Nat /\ Len(c.ids) \in Nat /\ Len(c.numbers) <= Len(c.ids)
    BY <2>2, <2>4, <2>5, SMTT(60)
  <2>8. IF ReadsDone(c)
        THEN UpdateDoWrites(r, c, t)
        ELSE /\ ctx' = [ctx EXCEPT ![r] = c]
             /\ tr' = [tr EXCEPT ![r] = t]
             /\ Await(r, "update_on_read")
             /\ UNCHANGED <<future, answer>>
    BY <1>3
  <2> HIDE DEF c, t
  <2>9. CASE ReadsDone(c)
    <3>1. /\ ctx' = [ctx EXCEPT ![r] = c]
          /\ tr' = [tr EXCEPT ![r] = s]
          /\ Await(r, "update_on_commit")
          /\ UNCHANGED <<future, answer>>
      BY <2>8, <2>9 DEF UpdateDoWrites
    <3> HIDE DEF s
    <3>2. Only(tr, tr', r)
      BY <3>1, OnlyExcept, Zenon DEF IInv
    <3>3. Len(c.numbers) = Len(c.ids)
      BY <2>7, <2>9 DEF ReadsDone
    <3>4. "update_on_commit" \in Callbacks
      BY DEF Callbacks
    <3> QED
      BY <2>1, <2>6, <3>1, <3>2, <3>3, <3>4, AwaitInv, Zenon
  <2>10. CASE ~ReadsDone(c)
    <3>1. /\ ctx' = [ctx EXCEPT ![r] = c]
          /\ tr' = [tr EXCEPT ![r] = t]
          /\ Await(r, "update_on_read")
          /\ UNCHANGED <<future, answer>>
      BY <2>8, <2>10
    <3>2. Only(tr, tr', r)
      BY <3>1, OnlyExcept, Zenon DEF IInv
    <3>3. Len(c.numbers) < Len(c.ids)
      BY <2>7, <2>10 DEF ReadsDone
    <3>4. "update_on_read" \in Callbacks
      BY DEF Callbacks
    <3> QED
      BY <2>1, <2>6, <3>1, <3>2, <3>3, <3>4, AwaitInv, Zenon
  <2> QED
    BY <2>9, <2>10
<1> QED
  BY <1>1, <1>2, <1>3, Zenon DEF UpdateOnRead

\* update_on_commit answers every row that was drawn.
LEMMA UpdateOnCommitInv ==
  ASSUME IInv, NEW r \in Reqs, UpdateOnCommit(r)
  PROVE  IInv'
<1> DEFINE rows == Rows(ctx[r].ids, ctx[r].numbers)
           response == Reply(r, rows)
<1>1. UNCHANGED applied /\ pc[r] = "update_on_commit" /\ Finish(r, response)
  BY Zenon DEF UpdateOnCommit, Completed, storeVars
<1>2. Context(ctx[r]) /\ Len(ctx[r].numbers) = Len(ctx[r].ids)
  BY <1>1 DEF IInv, ReqInv
<1>3. /\ Len(ctx[r].ids) \in Nat /\ DOMAIN ctx[r].numbers = 1..Len(ctx[r].ids)
      /\ Len(ctx[r].ids) \in 1..MaxQueries
  BY <1>2 DEF Context
<1>4. Len(rows) = Len(ctx[r].ids)
  BY <1>3, RowsLength
<1> HIDE DEF rows
<1>5. response.rows = rows /\ response.asked = Len(ctx[r].ids) /\ response.status = "ok"
  BY DEF Reply
<1> HIDE DEF response
<1>6. FullAnswer(response)
  BY <1>3, <1>4, <1>5 DEF FullAnswer
<1> QED
  BY <1>1, <1>6, FinishInv

----------------------------------------------------------------------------
(* The store answers a commit *)

\* A commit changes the future of its request and nothing else of it; it is
\* applied only while its result is pending.
LEMMA CommitInv ==
  ASSUME IInv, NEW r \in Reqs, Commit(r)
  PROVE  IInv'
<1>1. Committing(r) /\ UNCHANGED <<pc, ctx, answer>>
  BY DEF Commit
<1>2. ReqInv(pc[r], ctx[r], tr[r], future[r], answer[r], applied[r])
  BY DEF IInv
<1>3. future[r] = "pending" /\ pc[r] \notin {"idle", "done"}
  BY <1>1 DEF Committing, CommitCallbacks
<1>4. applied[r] = 0
  BY <1>2, <1>3 DEF ReqInv
<1>5. PICK f \in {"ok", "retryable", "fatal"} : future' = [future EXCEPT ![r] = f]
  BY DEF Commit
<1>6. Only(future, future', r) /\ future'[r] = f
  BY <1>5, OnlyExcept, Zenon DEF IInv
<1>7. ASSUME NEW n \in {0, 1}
      PROVE  ReqInv(pc[r], ctx[r], tr[r], f, answer[r], n)
  BY <1>2, <1>3, Zenon DEF ReqInv
<1>8. CASE Apply(r)
  <2>1. DOMAIN tr' = Reqs /\ tr'[r] = tr[r]
          /\ \A q \in Reqs \ {r} : tr'[q] = Miss(tr[q], DOMAIN tr[r].writes)
    BY <1>8, Zenon DEF Apply
  <2>2. DOMAIN applied' = Reqs /\ applied'[r] = 1
          /\ \A q \in Reqs \ {r} : applied'[q] = applied[q]
    BY <1>4, <1>8, SMTT(60) DEF Apply, IInv
  <2>3. ASSUME NEW q \in Reqs
        PROVE  ReqInv(pc[q], ctx[q], tr'[q], future'[q], answer[q], applied'[q])
    <3>1. CASE q = r
      BY <1>6, <1>7, <2>1, <2>2, <3>1, Zenon
    <3>2. CASE q # r
      <4>1. ReqInv(pc[q], ctx[q], tr[q], future[q], answer[q], applied[q])
        BY DEF IInv
      <4>2. tr[q] = NewTransaction => tr'[q] = NewTransaction
        BY <2>1, <3>2, SMTT(60) DEF Miss, NewTransaction
      <4>3. ReqInv(pc[q], ctx[q], tr'[q], future[q], answer[q], applied[q])
        BY <4>1, <4>2 DEF ReqInv
      <4>4. future'[q] = future[q] /\ applied'[q] = applied[q]
        BY <1>6, <2>2, <3>2 DEF Only
      <4> QED
        BY <4>3, <4>4, Zenon
    <3> QED
      BY <3>1, <3>2
  <2>4. DOMAIN future' = Reqs
    BY <1>6, Zenon DEF Only
  <2> QED
    BY <1>1, <2>1, <2>2, <2>3, <2>4, Zenon DEF IInv
<1>9. CASE UNCHANGED <<tr, applied>>
  <2>1. Only(pc, pc', r) /\ Only(ctx, ctx', r) /\ Only(tr, tr', r) /\ Only(answer, answer', r)
    BY <1>1, <1>9, OnlySame, Zenon DEF IInv
  <2>2. ReqInv(pc[r], ctx[r], tr[r], f, answer[r], applied[r])
    BY <1>4, <1>7
  <2> QED
    BY <1>1, <1>6, <1>9, <2>1, <2>2, OneRequest, Zenon
<1> QED
  BY <1>8, <1>9 DEF Commit

----------------------------------------------------------------------------
(* The invariant *)

\* Initially no request has begun.
LEMMA InitInv == Init => IInv
<1> SUFFICES ASSUME Init PROVE IInv
  OBVIOUS
<1>1. ReqInv("idle", NoCtx, NewTransaction, "pending", NoAnswer, 0)
  BY DEF ReqInv
<1> QED
  BY <1>1 DEF Init, AdapterInit, IInv

\* Every step keeps the invariant.
LEMMA NextInv == IInv /\ [Next]_adapterVars => IInv'
<1> SUFFICES ASSUME IInv, [Next]_adapterVars PROVE IInv'
  OBVIOUS
<1>1. ASSUME NEW r \in Reqs, Arrive(r) PROVE IInv'
  <2>1. CASE QueriesHandler(r) \/ UpdatesHandler(r)
    BY <2>1, MultiHandlerInv DEF QueriesHandler, UpdatesHandler
  <2> QED
    BY <1>1, <2>1, ImmediateInv, DbHandlerInv DEF Arrive
<1>2. ASSUME NEW r \in Reqs, Callback(r) PROVE IInv'
  BY <1>2, OnSingleQueryResultInv, MultiQueryNextInv, UpdateOnReadInv, UpdateOnCommitInv
     DEF Callback
<1>3. ASSUME NEW r \in Reqs, Commit(r) PROVE IInv'
  BY <1>3, CommitInv, Zenon
<1>4. CASE UNCHANGED adapterVars
  BY <1>4 DEF adapterVars, IInv
<1> QED
  BY <1>1, <1>2, <1>3, <1>4 DEF Next

\* The invariant holds of every request at all times.
LEMMA Invariant == Spec => []IInv
<1> QED
  BY InitInv, NextInv, PTL DEF Spec

\* The invariant contains the properties the handlers promise.
LEMMA InvImplies == IInv => ContextLifetime /\ AppliedAtMostOnce /\ AnswerAsLongAsAsked
<1> SUFFICES ASSUME IInv, NEW r \in Reqs
             PROVE  /\ (ctx[r] = NoCtx) <=> (pc[r] \in {"idle", "done"})
                    /\ (answer[r] # NoAnswer) <=> (pc[r] = "done")
                    /\ pc[r] = "done" => tr[r] = NewTransaction
                    /\ applied[r] <= 1
                    /\ Ok(r) /\ answer[r].kind \in {"db", "updates", "cached"} =>
                         Len(answer[r].rows) = answer[r].asked /\ answer[r].asked \in 1..MaxQueries
  BY DEF ContextLifetime, AppliedAtMostOnce, AnswerAsLongAsAsked
<1>1. ReqInv(pc[r], ctx[r], tr[r], future[r], answer[r], applied[r])
  BY DEF IInv
<1>2. NoCtx.kind = "none" /\ NoAnswer.status = "none"
  BY DEF NoCtx, NoAnswer
<1>3. (ctx[r] = NoCtx) <=> (pc[r] \in {"idle", "done"})
  BY <1>1, <1>2 DEF ReqInv, Context
<1>4. (answer[r] # NoAnswer) <=> (pc[r] = "done")
  BY <1>1, <1>2 DEF ReqInv, FullAnswer
<1>5. (pc[r] = "done" => tr[r] = NewTransaction) /\ applied[r] <= 1
  BY <1>1 DEF ReqInv
<1>6. Ok(r) => FullAnswer(answer[r]) /\ answer[r].status = "ok"
  BY <1>1, <1>2 DEF ReqInv, Ok
<1> QED
  BY <1>3, <1>4, <1>5, <1>6, SMTT(60) DEF FullAnswer

\* The TechEmpower handlers free a context and destroy its transaction exactly
\* when they answer, also when submissions fail or multi_query_next loses them.
THEOREM TfbContextsOutliveCallbacks == Spec => []ContextLifetime
<1> QED
  BY Invariant, InvImplies, PTL

\* update_on_commit never commits again: no /updates is applied twice, even if
\* its result was unknown.
THEOREM TfbAppliedAtMostOnce == Spec => []AppliedAtMostOnce
<1> QED
  BY Invariant, InvImplies, PTL

\* update_on_read, db_handler and cached_worlds_handler answer exactly the
\* number of rows that get_query_number allowed.
THEOREM TfbAnswersInFull == Spec => []AnswerAsLongAsAsked
<1> QED
  BY Invariant, InvImplies, PTL

----------------------------------------------------------------------------
(* What an /updates leaves in the store: the inductive invariant.  z counts *)
(* the faults so far                                                        *)

\* The ids and numbers of a context are draws, and no more numbers are drawn
\* than ids.
Drawn(c) ==
  /\ \A i \in DOMAIN c.ids : c.ids[i] \in 2..MaxId+1
  /\ \A i \in DOMAIN c.numbers : c.numbers[i] \in 1..MaxId
  /\ Len(c.numbers) <= Len(c.ids)

\* Every row has been read and has its number.
Full(c) == c.kind = "updates" /\ Len(c.numbers) = Len(c.ids)

\* The keys of the rows that have been read.
KeysRead(c) == {world_key(c.ids[i]) : i \in DOMAIN c.numbers}

UpdInv(p, c, t, f, a, n, z) ==
  /\ f \in {"pending", "ok", "retryable", "fatal"}
  /\ DOMAIN t = {"open", "snap", "reads", "missed", "writes"}
  /\ p \notin {"idle", "done"} => Drawn(c) /\ t.reads \subseteq KeysRead(c)
  /\ DOMAIN t.writes # {} \/ p = "update_on_commit" =>
       p \in {"update_on_commit", "lost"} /\ Full(c) /\ t.writes = UpdateWrites(c)
  /\ n = 1 => \/ p \in {"update_on_commit", "lost"} /\ Full(c)
              \/ p = "done" /\ a.status = "ok" /\ a.kind = "updates"
  /\ f # "pending" /\ n = 0 /\ z = 0 => Conflicts(t)

\* The rows an applied /updates answers, or will answer; none if it was not
\* applied.
Written(a, c, n) ==
  IF n = 1 THEN IF a.status = "ok" THEN a.rows ELSE Rows(c.ids, c.numbers) ELSE <<>>

Updates == [r \in Reqs |-> Written(answer[r], ctx[r], applied[r])]

\* A request other than r wrote the row with this id; u is Updates.
OtherWrote(u, r, id) == \E q \in Reqs \ {r} : \E i \in DOMAIN u[q] : u[q][i].id = id

\* A request other than r wrote one of the rows of the answer a.
Explained(u, r, a) == \E i \in DOMAIN a.rows : OtherWrote(u, r, a.rows[i].id)

\* The last row for the id has this number.
LastRow(rows, id, number) ==
  \E i \in DOMAIN rows :
    /\ rows[i] = [id |-> id, randomNumber |-> number]
    /\ \A j \in DOMAIN rows : rows[j].id = id => j <= i

\* The row is as it was loaded, or as an applied request wrote it last.
RowWritten(u, k, number) ==
  \/ k[2] <= MaxId /\ number = 0
  \/ \E r \in Reqs : LastRow(u[r], k[2], number)

\* An /updates that was answered with 200, is not in the store and met no fault.
LostUpdate(a, n, z) == a.status = "ok" /\ a.kind = "updates" /\ n = 0 /\ z = 0

\* What one request knows of the others.
Seen(u, r, t, a, n, z) ==
  /\ \A k \in t.missed : OtherWrote(u, r, k[2])
  /\ LostUpdate(a, n, z) => Explained(u, r, a)

\* Every row of the store is in the range of the draws and accounted for.
Stored(u, store) ==
  \A k \in DOMAIN store :
    k[2] \in 1..MaxId+1 /\ store[k] \in 0..MaxId /\ RowWritten(u, k, store[k])

UInv ==
  /\ faults \in 0..MaxFaults
  /\ \A r \in Reqs :
       /\ UpdInv(pc[r], ctx[r], tr[r], future[r], answer[r], applied[r], faults)
       /\ Seen(Updates, r, tr[r], answer[r], applied[r], faults)
  /\ Stored(Updates, db)

----------------------------------------------------------------------------
(* Steps that commit nothing *)

\* A step of r that changes only r, commits nothing and reports what it wrote.
Quiet(r) ==
  /\ UNCHANGED <<db, applied>>
  /\ faults' \in faults..MaxFaults
  /\ Only(pc, pc', r) /\ Only(ctx, ctx', r) /\ Only(tr, tr', r)
  /\ Only(future, future', r) /\ Only(answer, answer', r)
  /\ UpdInv(pc'[r], ctx'[r], tr'[r], future'[r], answer'[r], applied[r], faults')
  /\ Seen(Updates, r, tr'[r], answer'[r], applied[r], faults')
  /\ Written(answer'[r], ctx'[r], applied[r]) = Written(answer[r], ctx[r], applied[r])

\* A later count of faults makes fewer demands.
LEMMA MoreFaults ==
  ASSUME NEW z \in Nat, NEW y \in Nat, z <= y, NEW p, NEW c, NEW t, NEW f, NEW a, NEW n,
         NEW u, NEW r, UpdInv(p, c, t, f, a, n, z), Seen(u, r, t, a, n, z)
  PROVE  UpdInv(p, c, t, f, a, n, y) /\ Seen(u, r, t, a, n, y)
<1>1. y = 0 => z = 0
  OBVIOUS
<1>2. UpdInv(p, c, t, f, a, n, y)
  BY <1>1, Zenon DEF UpdInv
<1>3. Seen(u, r, t, a, n, y)
  BY <1>1, Zenon DEF Seen, LostUpdate
<1> QED
  BY <1>2, <1>3

\* A quiet step of one request keeps the invariant.
LEMMA QuietInv ==
  ASSUME UInv, NEW r \in Reqs, Quiet(r)
  PROVE  UInv'
<1>1. ASSUME NEW q \in Reqs
      PROVE  Written(answer'[q], ctx'[q], applied'[q]) = Written(answer[q], ctx[q], applied[q])
  <2>1. applied' = applied
    BY Zenon DEF Quiet
  <2>2. CASE q = r
    BY <2>1, <2>2, Zenon DEF Quiet
  <2>3. CASE q # r
    BY <2>1, <2>3, Zenon DEF Quiet, Only
  <2> QED
    BY <2>2, <2>3, Zenon
<1>2. Updates' = Updates
  BY <1>1, ZenonT(60) DEF Updates
<1>3. faults \in Nat /\ faults' \in Nat /\ faults <= faults' /\ faults' \in 0..MaxFaults
  BY AdapterAssumption DEF UInv, Quiet
<1>4. ASSUME NEW q \in Reqs
      PROVE  /\ UpdInv(pc'[q], ctx'[q], tr'[q], future'[q], answer'[q], applied'[q], faults')
             /\ Seen(Updates, q, tr'[q], answer'[q], applied'[q], faults')
  <2>1. applied' = applied
    BY Zenon DEF Quiet
  <2>2. CASE q = r
    BY <2>1, <2>2, Zenon DEF Quiet
  <2>3. CASE q # r
    <3>1. /\ pc'[q] = pc[q] /\ ctx'[q] = ctx[q] /\ tr'[q] = tr[q]
          /\ future'[q] = future[q] /\ answer'[q] = answer[q]
      BY <2>3, Zenon DEF Quiet, Only
    <3>2. /\ UpdInv(pc[q], ctx[q], tr[q], future[q], answer[q], applied[q], faults)
          /\ Seen(Updates, q, tr[q], answer[q], applied[q], faults)
      BY Zenon DEF UInv
    <3>3. /\ UpdInv(pc[q], ctx[q], tr[q], future[q], answer[q], applied[q], faults')
          /\ Seen(Updates, q, tr[q], answer[q], applied[q], faults')
      BY <1>3, <3>2, MoreFaults, Zenon
    <3> QED
      BY <2>1, <3>1, <3>3, Zenon
  <2> QED
    BY <2>2, <2>3, Zenon
<1>5. Stored(Updates', db')
  BY <1>2, Zenon DEF Quiet, UInv
<1> QED
  BY <1>2, <1>3, <1>4, <1>5, Zenon DEF UInv

\* The facts about one request that the invariants hold.
LEMMA RequestFacts ==
  ASSUME IInv, UInv, NEW r \in Reqs
  PROVE  /\ ReqInv(pc[r], ctx[r], tr[r], future[r], answer[r], applied[r])
         /\ UpdInv(pc[r], ctx[r], tr[r], future[r], answer[r], applied[r], faults)
         /\ Seen(Updates, r, tr[r], answer[r], applied[r], faults)
         /\ faults \in Nat
         /\ pc[r] \notin {"update_on_commit", "lost", "done"} => applied[r] = 0
<1>1. faults \in 0..MaxFaults /\ MaxFaults \in Nat
  BY AdapterAssumption, Zenon DEF UInv
<1>2. faults \in Nat
  BY <1>1
<1>3. /\ ReqInv(pc[r], ctx[r], tr[r], future[r], answer[r], applied[r])
      /\ UpdInv(pc[r], ctx[r], tr[r], future[r], answer[r], applied[r], faults)
      /\ Seen(Updates, r, tr[r], answer[r], applied[r], faults)
  BY Zenon DEF IInv, UInv
<1>4. pc[r] \notin {"update_on_commit", "lost", "done"} => applied[r] = 0
  BY <1>3, Zenon DEF ReqInv, UpdInv
<1> QED
  BY <1>2, <1>3, <1>4, Zenon

\* A fault is counted, and never more than MaxFaults.
LEMMA FaultCounts ==
  ASSUME UInv, (\E kind \in FaultKinds : Fault(kind)) \/ UNCHANGED faults
  PROVE  faults' \in faults..MaxFaults
<1>1. faults \in 0..MaxFaults /\ MaxFaults \in Nat
  BY AdapterAssumption, Zenon DEF UInv
<1> QED
  BY <1>1 DEF Fault

\* The end of a chain reports what was written, and an update that is not in
\* the store is explained.
LEMMA FinishQuiet ==
  ASSUME IInv, UInv, NEW r \in Reqs, NEW response, Finish(r, response),
         pc[r] # "done", UNCHANGED <<db, applied>>, faults' \in faults..MaxFaults,
         Written(response, NoCtx, applied[r]) = Written(answer[r], ctx[r], applied[r]),
         applied[r] = 1 => response.status = "ok" /\ response.kind = "updates",
         LostUpdate(response, applied[r], faults') => Explained(Updates, r, response)
  PROVE  Quiet(r)
<1>1. /\ Only(pc, pc', r) /\ Only(ctx, ctx', r) /\ Only(tr, tr', r)
      /\ Only(future, future', r) /\ Only(answer, answer', r)
      /\ pc'[r] = "done" /\ ctx'[r] = NoCtx /\ tr'[r] = NewTransaction
      /\ answer'[r] = response /\ future'[r] = "pending"
  BY OnlyExcept, ZenonT(60) DEF Finish, IInv
<1>2. /\ DOMAIN NewTransaction = {"open", "snap", "reads", "missed", "writes"}
      /\ DOMAIN NewTransaction.writes = {} /\ NewTransaction.missed = {}
  BY DEF NewTransaction
<1>3. UpdInv("done", NoCtx, NewTransaction, "pending", response, applied[r], faults')
  BY <1>2, Zenon DEF UpdInv
<1>4. Seen(Updates, r, NewTransaction, response, applied[r], faults')
  BY <1>2, Zenon DEF Seen
<1> QED
  BY <1>1, <1>3, <1>4, Zenon DEF Quiet

\* An error ends a request that wrote nothing.
LEMMA FailedQuiet ==
  ASSUME IInv, UInv, NEW r \in Reqs, Finish(r, Failed(r)),
         pc[r] \notin {"update_on_commit", "lost", "done"}, UNCHANGED <<db, applied>>,
         faults' \in faults..MaxFaults
  PROVE  Quiet(r)
<1>1. applied[r] = 0
  BY RequestFacts, Zenon
<1>2. Failed(r).status = "error"
  BY Zenon DEF Failed
<1>3. /\ Written(Failed(r), NoCtx, applied[r]) = Written(answer[r], ctx[r], applied[r])
      /\ applied[r] # 1
  BY <1>1, SMTT(60) DEF Written
<1>4. ~LostUpdate(Failed(r), applied[r], faults')
  BY <1>2 DEF LostUpdate
<1> QED
  BY <1>3, <1>4, FinishQuiet, Zenon

\* submit_future at the end of a step of a request that wrote nothing yet.
LEMMA AwaitQuiet ==
  ASSUME IInv, UInv, NEW r \in Reqs, NEW callback \in Callbacks, Await(r, callback),
         pc[r] \notin {"update_on_commit", "lost", "done"},
         NEW c, ctx' = [ctx EXCEPT ![r] = c], NEW t, Only(tr, tr', r), tr'[r] = t,
         UNCHANGED <<db, applied, future, answer>>,
         Drawn(c), t.reads \subseteq KeysRead(c), t.missed = tr[r].missed,
         tr[r].reads \subseteq t.reads,
         DOMAIN t = {"open", "snap", "reads", "missed", "writes"},
         \/ callback # "update_on_commit" /\ DOMAIN t.writes = {}
         \/ callback = "update_on_commit" /\ Full(c) /\ t.writes = UpdateWrites(c)
  PROVE  Quiet(r)
<1>1. PICK p \in {callback, "lost"} : pc' = [pc EXCEPT ![r] = p]
  BY Zenon DEF Await
<1>2. /\ Only(pc, pc', r) /\ pc'[r] = p /\ Only(ctx, ctx', r) /\ ctx'[r] = c
  BY <1>1, OnlyExcept, Zenon DEF IInv
<1>3. Only(future, future', r) /\ Only(answer, answer', r)
  BY OnlySame, Zenon DEF IInv
<1>4. faults' \in faults..MaxFaults
  <2>1. (\E kind \in FaultKinds : Fault(kind)) \/ UNCHANGED faults
    BY Zenon DEF Await, Fault
  <2> QED
    BY <2>1, FaultCounts, Zenon
<1>5. /\ ReqInv(pc[r], ctx[r], tr[r], future[r], answer[r], applied[r])
      /\ UpdInv(pc[r], ctx[r], tr[r], future[r], answer[r], applied[r], faults)
      /\ Seen(Updates, r, tr[r], answer[r], applied[r], faults)
      /\ faults \in Nat /\ applied[r] = 0
  BY RequestFacts, ZenonT(60)
<1>6. faults' = 0 => faults = 0
  BY <1>4, <1>5, AdapterAssumption, SMTT(60)
<1>7. Conflicts(tr[r]) => Conflicts(t)
  BY DEF Conflicts
<1>8. UpdInv(p, c, t, future[r], answer[r], applied[r], faults')
  <2>1. p \in {callback, "lost"} /\ p \notin {"idle", "done"}
    BY <1>1, ZenonT(60) DEF Callbacks
  <2>2. DOMAIN t.writes # {} \/ p = "update_on_commit" =>
          p \in {"update_on_commit", "lost"} /\ Full(c) /\ t.writes = UpdateWrites(c)
    BY <2>1
  <2>3. /\ future[r] \in {"pending", "ok", "retryable", "fatal"}
        /\ future[r] # "pending" /\ applied[r] = 0 /\ faults' = 0 => Conflicts(t)
    BY <1>5, <1>6, <1>7, ZenonT(60) DEF UpdInv
  <2>4. applied[r] # 1
    BY <1>5
  <2> QED
    BY <2>1, <2>2, <2>3, <2>4, Zenon DEF UpdInv
<1>9. Seen(Updates, r, t, answer[r], applied[r], faults')
  BY <1>5, <1>6, ZenonT(60) DEF Seen, LostUpdate
<1>10. Written(answer[r], c, applied[r]) = Written(answer[r], ctx[r], applied[r])
  BY <1>5 DEF Written
<1> QED
  BY <1>2, <1>3, <1>4, <1>8, <1>9, <1>10, Zenon DEF Quiet

\* A request that is answered by its entry point.
LEMMA AnswerQuiet ==
  ASSUME IInv, UInv, NEW r \in Reqs, Enter(r), NEW response,
         response.status = "ok" => response.kind # "updates",
         pc' = [pc EXCEPT ![r] = "done"], answer' = [answer EXCEPT ![r] = response],
         UNCHANGED ctx, (\E kind \in FaultKinds : Fault(kind)) \/ UNCHANGED faults
  PROVE  Quiet(r)
<1>1. pc[r] = "idle" /\ UNCHANGED <<db, tr, future, applied>>
  BY Zenon DEF Enter, storeVars
<1>2. /\ Only(pc, pc', r) /\ pc'[r] = "done" /\ Only(answer, answer', r)
      /\ answer'[r] = response
  BY OnlyExcept, Zenon DEF IInv
<1>3. Only(ctx, ctx', r) /\ Only(tr, tr', r) /\ Only(future, future', r)
  BY <1>1, OnlySame, Zenon DEF IInv
<1>4. faults' \in faults..MaxFaults
  BY FaultCounts, Zenon
<1>5. /\ ReqInv(pc[r], ctx[r], tr[r], future[r], answer[r], applied[r])
      /\ UpdInv(pc[r], ctx[r], tr[r], future[r], answer[r], applied[r], faults)
      /\ Seen(Updates, r, tr[r], answer[r], applied[r], faults)
      /\ faults \in Nat /\ applied[r] = 0
  BY <1>1, RequestFacts, ZenonT(60)
<1>6. faults' = 0 => faults = 0
  BY <1>4, <1>5, AdapterAssumption
<1>7. UpdInv("done", ctx[r], tr[r], future[r], response, applied[r], faults')
  <2>1. DOMAIN tr[r].writes = {}
    BY <1>1, <1>5, ZenonT(60) DEF UpdInv
  <2>2. applied[r] # 1
    BY <1>5
  <2> QED
    BY <1>5, <1>6, <2>1, <2>2, Zenon DEF UpdInv
<1>8. Seen(Updates, r, tr[r], response, applied[r], faults')
  BY <1>5, ZenonT(60) DEF Seen, LostUpdate
<1>9. Written(response, ctx[r], applied[r]) = Written(answer[r], ctx[r], applied[r])
  BY <1>5 DEF Written
<1> QED
  BY <1>1, <1>2, <1>3, <1>4, <1>7, <1>8, <1>9, Zenon DEF Quiet

\* A step that changes no request, or only loses one that wrote nothing.
LEMMA LostQuiet ==
  ASSUME IInv, UInv, NEW r \in Reqs, UNCHANGED <<db, ctx, tr, future, answer, applied>>,
         \/ UNCHANGED pc
         \/ pc' = [pc EXCEPT ![r] = "lost"] /\ pc[r] \in {"multi_query_next", "update_on_read"},
         (\E kind \in FaultKinds : Fault(kind)) \/ UNCHANGED faults
  PROVE  Quiet(r)
<1>1. /\ Only(ctx, ctx', r) /\ Only(tr, tr', r) /\ Only(future, future', r)
      /\ Only(answer, answer', r)
  BY OnlySame, Zenon DEF IInv
<1>2. faults' \in faults..MaxFaults
  BY FaultCounts, Zenon
<1>3. /\ UpdInv(pc[r], ctx[r], tr[r], future[r], answer[r], applied[r], faults)
      /\ Seen(Updates, r, tr[r], answer[r], applied[r], faults)
      /\ faults \in Nat
      /\ pc[r] \notin {"update_on_commit", "lost", "done"} => applied[r] = 0
  BY RequestFacts, ZenonT(60)
<1>4. faults' \in Nat /\ faults <= faults'
  BY <1>2, <1>3, AdapterAssumption
<1>5. /\ UpdInv(pc[r], ctx[r], tr[r], future[r], answer[r], applied[r], faults')
      /\ Seen(Updates, r, tr[r], answer[r], applied[r], faults')
  BY <1>3, <1>4, MoreFaults, Zenon
<1>6. /\ Only(pc, pc', r)
      /\ UpdInv(pc'[r], ctx[r], tr[r], future[r], answer[r], applied[r], faults')
  <2>1. CASE UNCHANGED pc
    BY <1>5, <2>1, OnlySame, Zenon DEF IInv
  <2>2. CASE pc' = [pc EXCEPT ![r] = "lost"] /\ pc[r] \in {"multi_query_next", "update_on_read"}
    <3>1. Only(pc, pc', r) /\ pc'[r] = "lost"
      BY <2>2, OnlyExcept, Zenon DEF IInv
    <3>2. UpdInv("lost", ctx[r], tr[r], future[r], answer[r], applied[r], faults')
      BY <1>5, <2>2, Zenon DEF UpdInv
    <3> QED
      BY <3>1, <3>2, Zenon
  <2> QED
    BY <2>1, <2>2, Zenon
<1> QED
  BY <1>1, <1>2, <1>5, <1>6, Zenon DEF Quiet

----------------------------------------------------------------------------
(* The handlers and callbacks *)

\* The ids drawn are 2..MaxId+1 and the numbers drawn 1..MaxId.
LEMMA Draws ==
  /\ \A id \in RandomWorldIds : id \in 2..MaxId+1
  /\ \A number \in {id - 1 : id \in RandomWorldIds} : number \in 1..MaxId
<1>1. ASSUME NEW id \in RandomWorldIds PROVE id \in 2..MaxId+1 /\ id - 1 \in 1..MaxId
  <2>1. PICK n \in 1..MaxId : id = 1 + n
    BY DEF RandomWorldIds, RandomNumbers
  <2> QED
    BY <2>1, TfbAssumption
<1> QED
  BY <1>1, Zenon

\* An allocation that fails unchecked ends the process and changes no request.
LEMMA ArraysMissingQuiet ==
  ASSUME IInv, UInv, NEW r \in Reqs, ArraysMissing
  PROVE  Quiet(r)
<1>1. UNCHANGED <<db, ctx, tr, future, answer, applied>> /\ UNCHANGED pc
  BY Zenon DEF ArraysMissing, requestVars
<1>2. \E kind \in FaultKinds : Fault(kind)
  BY Zenon DEF ArraysMissing, Fault
<1> QED
  BY <1>1, <1>2, LostQuiet, Zenon

\* A handler whose context or transaction cannot be made answers an error.
LEMMA CreateFailsQuiet ==
  ASSUME IInv, UInv, NEW r \in Reqs, Enter(r), NEW kind, CreateFails(r, kind)
  PROVE  Quiet(r)
<1> DEFINE a == [status |-> "error", kind |-> kind]
<1>1. a.status # "ok"
  BY Zenon
<1>2. pc' = [pc EXCEPT ![r] = "done"] /\ answer' = [answer EXCEPT ![r] = a] /\ UNCHANGED ctx
  BY DEF CreateFails
<1>3. \E fault \in FaultKinds : Fault(fault)
  BY Zenon DEF CreateFails, Fault
<1> HIDE DEF a
<1> QED
  BY <1>1, <1>2, <1>3, AnswerQuiet, Zenon

\* /plaintext, /json and /cached-worlds write nothing.
LEMMA ImmediateQuiet ==
  ASSUME IInv, UInv, NEW r \in Reqs,
         PlaintextHandler(r) \/ JsonHandler(r) \/ CachedWorldsHandler(r)
  PROVE  Quiet(r)
<1>1. ASSUME NEW response, Enter(r), Answer(r, response), response.kind # "updates"
      PROVE  Quiet(r)
  <2>1. /\ pc' = [pc EXCEPT ![r] = "done"] /\ answer' = [answer EXCEPT ![r] = response]
        /\ UNCHANGED ctx /\ UNCHANGED faults
    BY <1>1, Zenon DEF Answer
  <2> QED
    BY <1>1, <2>1, AnswerQuiet, Zenon
<1>2. CASE PlaintextHandler(r)
  <2> DEFINE response == [status |-> "ok", kind |-> "plaintext"]
  <2>1. response.kind # "updates"
    OBVIOUS
  <2>2. Enter(r) /\ Answer(r, response)
    BY <1>2, Zenon DEF PlaintextHandler
  <2> HIDE DEF response
  <2> QED
    BY <1>1, <2>1, <2>2, Zenon
<1>3. CASE JsonHandler(r)
  <2> DEFINE response == [status |-> "ok", kind |-> "json"]
  <2>1. response.kind # "updates"
    OBVIOUS
  <2>2. Enter(r) /\ Answer(r, response)
    BY <1>3, Zenon DEF JsonHandler
  <2> HIDE DEF response
  <2> QED
    BY <1>1, <2>1, <2>2, Zenon
<1>4. CASE CachedWorldsHandler(r)
  <2>1. PICK rows, n :
          Answer(r, [status |-> "ok", kind |-> "cached", rows |-> rows, asked |-> n])
    BY <1>4, Zenon DEF CachedWorldsHandler
  <2> DEFINE response == [status |-> "ok", kind |-> "cached", rows |-> rows, asked |-> n]
  <2>2. response.kind # "updates"
    OBVIOUS
  <2>3. Enter(r) /\ Answer(r, response)
    BY <1>4, <2>1, Zenon DEF CachedWorldsHandler
  <2> HIDE DEF response
  <2> QED
    BY <1>1, <2>2, <2>3, Zenon
<1> QED
  BY <1>2, <1>3, <1>4, Zenon

\* An entry point draws its ids and submits the first read.
LEMMA EnterQuiet ==
  ASSUME IInv, UInv, NEW r \in Reqs, Enter(r), NEW n \in 1..MaxQueries,
         NEW ids \in [1..n -> RandomWorldIds], NEW kind,
         ctx' = [ctx EXCEPT ![r] = [kind |-> kind, ids |-> ids, numbers |-> <<>>]],
         NEW callback \in Callbacks \ {"update_on_commit"}, Await(r, callback), UNCHANGED answer
  PROVE  Quiet(r)
<1> DEFINE c == [kind |-> kind, ids |-> ids, numbers |-> <<>>]
<1>1. pc[r] = "idle" /\ UNCHANGED <<db, tr, future, applied>>
  BY Zenon DEF Enter, storeVars
<1>2. n \in Nat /\ n >= 1
  BY TfbAssumption, SMTT(60)
<1>3. ids \in Seq(Nat) /\ Len(ids) = n
  <2>1. ids \in [1..n -> Nat]
    BY WorldIdsNat, Zenon
  <2> QED
    BY <1>2, <2>1
<1>4. c.ids = ids /\ c.numbers = <<>> /\ Len(c.numbers) = 0 /\ DOMAIN c.numbers = {}
  OBVIOUS
<1>5. Drawn(c)
  <2>1. \A i \in DOMAIN c.ids : c.ids[i] \in 2..MaxId+1
    BY <1>4, Draws, Zenon
  <2>2. Len(c.numbers) <= Len(c.ids)
    BY <1>2, <1>3, <1>4, SMTT(60)
  <2> QED
    BY <1>4, <2>1, <2>2, Zenon DEF Drawn
<1>6. ctx' = [ctx EXCEPT ![r] = c]
  OBVIOUS
<1> HIDE DEF c
<1>7. tr[r] = NewTransaction
  BY <1>1, RequestFacts, ZenonT(60) DEF ReqInv
<1>8. /\ DOMAIN tr[r] = {"open", "snap", "reads", "missed", "writes"}
      /\ DOMAIN tr[r].writes = {} /\ tr[r].reads = {}
  BY <1>7 DEF NewTransaction
<1>9. Only(tr, tr', r) /\ tr'[r] = tr[r]
  BY <1>1, OnlySame, Zenon DEF IInv
<1>10. callback \in Callbacks /\ callback # "update_on_commit"
  BY Zenon
<1>11. /\ tr[r].reads \subseteq KeysRead(c) /\ tr[r].reads \subseteq tr[r].reads
       /\ tr[r].missed = tr[r].missed
       /\ pc[r] \notin {"update_on_commit", "lost", "done"}
  BY <1>1, <1>8, Zenon
<1> QED
  BY <1>1, <1>5, <1>6, <1>8, <1>9, <1>10, <1>11, AwaitQuiet, ZenonT(60)

\* /db submits one read.
LEMMA DbHandlerQuiet ==
  ASSUME IInv, UInv, NEW r \in Reqs, DbHandler(r)
  PROVE  Quiet(r)
<1>1. Enter(r)
  BY Zenon DEF DbHandler
<1>2. CASE CreateFails(r, "db")
  BY <1>1, <1>2, CreateFailsQuiet, Zenon
<1>3. CASE ~CreateFails(r, "db")
  <2>1. PICK id \in RandomWorldIds :
          ctx' = [ctx EXCEPT ![r] = [kind |-> "db", ids |-> <<id>>, numbers |-> <<>>]]
    BY <1>3, Zenon DEF DbHandler
  <2>2. Await(r, "on_single_query_result") /\ UNCHANGED answer
    BY <1>3, Zenon DEF DbHandler
  <2> DEFINE ids == <<id>>
  <2>3. ids \in [1..1 -> RandomWorldIds] /\ 1 \in 1..MaxQueries
    BY TfbAssumption, SMTT(60)
  <2>4. ctx' = [ctx EXCEPT ![r] = [kind |-> "db", ids |-> ids, numbers |-> <<>>]]
    BY <2>1
  <2> HIDE DEF ids
  <2>5. "on_single_query_result" \in Callbacks \ {"update_on_commit"}
    BY DEF Callbacks
  <2> QED
    BY <1>1, <2>2, <2>3, <2>4, <2>5, EnterQuiet, Zenon
<1> QED
  BY <1>2, <1>3, Zenon

\* /queries and /updates submit their first read.
LEMMA MultiHandlerQuiet ==
  ASSUME IInv, UInv, NEW r \in Reqs, NEW kind,
         NEW callback \in {"multi_query_next", "update_on_read"}, MultiHandler(r, kind, callback)
  PROVE  Quiet(r)
<1>1. CASE ArraysMissing
  BY <1>1, ArraysMissingQuiet, Zenon
<1>2. CASE Enter(r) /\ CreateFails(r, kind)
  BY <1>2, CreateFailsQuiet, Zenon
<1>3. CASE ~ArraysMissing /\ ~(Enter(r) /\ CreateFails(r, kind))
  <2>1. Enter(r) /\ Await(r, callback) /\ UNCHANGED answer
    BY <1>3, Zenon DEF MultiHandler
  <2>2. PICK n \in QueryNumbers :
          \E ids \in [1..n -> RandomWorldIds] :
            ctx' = [ctx EXCEPT ![r] = [kind |-> kind, ids |-> ids, numbers |-> <<>>]]
    BY <1>3, Zenon DEF MultiHandler
  <2>3. PICK ids \in [1..n -> RandomWorldIds] :
          ctx' = [ctx EXCEPT ![r] = [kind |-> kind, ids |-> ids, numbers |-> <<>>]]
    BY <2>2, Zenon
  <2>4. n \in 1..MaxQueries
    BY QueryNumberRange, Zenon
  <2>5. callback \in Callbacks \ {"update_on_commit"}
    BY DEF Callbacks
  <2> QED
    BY <2>1, <2>3, <2>4, <2>5, EnterQuiet, Zenon
<1> QED
  BY <1>1, <1>2, <1>3, Zenon

\* /db writes nothing.
LEMMA OnSingleQueryResultQuiet ==
  ASSUME IInv, UInv, NEW r \in Reqs, OnSingleQueryResult(r)
  PROVE  Quiet(r)
<1>1. UNCHANGED <<db, applied>> /\ pc[r] = "on_single_query_result" /\ ctx[r].kind = "db"
  BY Zenon DEF OnSingleQueryResult, Completed, storeVars
<1>2. faults' \in faults..MaxFaults
  <2>1. (\E kind \in FaultKinds : Fault(kind)) \/ UNCHANGED faults
    BY Zenon DEF OnSingleQueryResult, ReadFails, Fault
  <2> QED
    BY <2>1, FaultCounts, Zenon
<1>3. CASE Finish(r, Failed(r))
  BY <1>1, <1>2, <1>3, FailedQuiet, SMTT(60)
<1>4. CASE ~Finish(r, Failed(r))
  <2>1. PICK rows : Finish(r, Reply(r, rows))
    BY <1>4, Zenon DEF OnSingleQueryResult, ReadFails
  <2> DEFINE response == Reply(r, rows)
  <2>2. response.kind = "db"
    BY <1>1, Zenon DEF Reply
  <2>3. Finish(r, response)
    BY <2>1
  <2> HIDE DEF response
  <2>4. pc[r] \notin {"update_on_commit", "lost", "done"}
    BY <1>1
  <2>5. applied[r] = 0
    BY <2>4, RequestFacts, Zenon
  <2>6. /\ Written(response, NoCtx, applied[r]) = Written(answer[r], ctx[r], applied[r])
        /\ applied[r] # 1 /\ ~LostUpdate(response, applied[r], faults') /\ pc[r] # "done"
    BY <2>2, <2>4, <2>5, SMTT(60) DEF Written, LostUpdate
  <2> QED
    BY <1>1, <1>2, <2>3, <2>6, FinishQuiet, Zenon
<1> QED
  BY <1>3, <1>4, Zenon

\* multi_query_next writes nothing.
LEMMA MultiQueryNextQuiet ==
  ASSUME IInv, UInv, NEW r \in Reqs, MultiQueryNext(r)
  PROVE  Quiet(r)
<1>1. /\ UNCHANGED <<db, ctx, tr, future, answer, applied>> /\ UNCHANGED faults
      /\ \/ UNCHANGED pc
         \/ pc' = [pc EXCEPT ![r] = "lost"] /\ pc[r] = "multi_query_next"
  BY Zenon DEF MultiQueryNext
<1>2. \/ UNCHANGED pc
      \/ pc' = [pc EXCEPT ![r] = "lost"] /\ pc[r] \in {"multi_query_next", "update_on_read"}
  BY <1>1, Zenon
<1> QED
  BY <1>1, <1>2, LostQuiet, Zenon

\* update_on_read draws a number for the row it read, and sets them all after
\* the last.
LEMMA UpdateOnReadQuiet ==
  ASSUME IInv, UInv, NEW r \in Reqs, UpdateOnRead(r)
  PROVE  Quiet(r)
<1>1. CASE ArraysMissing
  BY <1>1, ArraysMissingQuiet, Zenon
<1>2. CASE Completed(r, "update_on_read", "updates") /\ ReadFails(r)
  <2>1. /\ UNCHANGED <<db, applied>> /\ pc[r] = "update_on_read" /\ Finish(r, Failed(r))
        /\ \E kind \in FaultKinds : Fault(kind)
    BY <1>2, Zenon DEF Completed, storeVars, ReadFails, Fault
  <2>2. faults' \in faults..MaxFaults
    BY <2>1, FaultCounts, Zenon
  <2> QED
    BY <2>1, <2>2, FailedQuiet
<1>3. ASSUME Completed(r, "update_on_read", "updates"),
             NEW number \in {id - 1 : id \in RandomWorldIds},
             LET c == [ctx[r] EXCEPT !.numbers = Append(@, number)]
                 t == AfterRead(r, world_key(ctx[r].ids[Len(ctx[r].numbers) + 1]))
             IN IF ReadsDone(c)
                THEN UpdateDoWrites(r, c, t)
                ELSE /\ ctx' = [ctx EXCEPT ![r] = c]
                     /\ tr' = [tr EXCEPT ![r] = t]
                     /\ Await(r, "update_on_read")
                     /\ UNCHANGED <<future, answer>>
      PROVE  Quiet(r)
  <2> DEFINE k == world_key(ctx[r].ids[Len(ctx[r].numbers) + 1])
             c == [ctx[r] EXCEPT !.numbers = Append(@, number)]
             t == AfterRead(r, k)
             s == [t EXCEPT !.writes = UpdateWrites(c)]
  <2>1. /\ UNCHANGED <<db, applied>> /\ pc[r] = "update_on_read" /\ ctx[r].kind = "updates"
        /\ pc[r] \notin {"idle", "update_on_commit", "lost", "done"}
    BY <1>3 DEF Completed, storeVars
  <2>2. /\ Context(ctx[r]) /\ Len(ctx[r].numbers) < Len(ctx[r].ids)
        /\ Drawn(ctx[r]) /\ tr[r].reads \subseteq KeysRead(ctx[r])
        /\ DOMAIN tr[r] = {"open", "snap", "reads", "missed", "writes"}
        /\ DOMAIN tr[r].writes = {}
    BY <2>1, RequestFacts, Zenon DEF ReqInv, UpdInv
  <2>3. number \in 1..MaxId
    BY Draws, Zenon
  <2>4. /\ ctx[r].ids \in Seq(Nat) /\ ctx[r].numbers \in Seq(Nat) /\ number \in Nat
        /\ Len(Append(ctx[r].numbers, number)) = Len(ctx[r].numbers) + 1
    BY <2>2, <2>3, TfbAssumption, SMTT(60) DEF Context
  <2>5. /\ c.ids = ctx[r].ids /\ c.numbers = Append(ctx[r].numbers, number)
        /\ c.kind = "updates"
    BY <2>1, <2>2, Zenon DEF Context
  <2>6. /\ t.reads = tr[r].reads \union {k} /\ t.missed = tr[r].missed /\ t.writes = tr[r].writes
        /\ DOMAIN t = {"open", "snap", "reads", "missed", "writes"}
    BY <2>2, Zenon DEF AfterRead, Get
  <2>7. IF ReadsDone(c)
        THEN UpdateDoWrites(r, c, t)
        ELSE /\ ctx' = [ctx EXCEPT ![r] = c]
             /\ tr' = [tr EXCEPT ![r] = t]
             /\ Await(r, "update_on_read")
             /\ UNCHANGED <<future, answer>>
    BY <1>3, ZenonT(60)
  <2> HIDE DEF c, t, k
  <2>8. /\ Len(c.numbers) = Len(ctx[r].numbers) + 1 /\ Len(ctx[r].numbers) \in Nat
        /\ Len(c.ids) \in Nat /\ Len(c.numbers) <= Len(c.ids)
        /\ DOMAIN c.numbers = 1..Len(ctx[r].numbers) + 1
        /\ DOMAIN ctx[r].numbers = 1..Len(ctx[r].numbers)
    BY <2>2, <2>4, <2>5, SMTT(60)
  <2>9. Drawn(c)
    <3>1. ASSUME NEW i \in DOMAIN c.numbers PROVE c.numbers[i] \in 1..MaxId
      <4>1. CASE i = Len(ctx[r].numbers) + 1
        BY <2>3, <2>4, <2>5, <4>1, SMTT(60)
      <4>2. CASE i # Len(ctx[r].numbers) + 1
        <5>1. i \in DOMAIN ctx[r].numbers /\ c.numbers[i] = ctx[r].numbers[i]
          BY <2>4, <2>5, <2>8, <4>2, SMTT(60)
        <5> QED
          BY <2>2, <5>1, ZenonT(60) DEF Drawn
      <4> QED
        BY <4>1, <4>2, Zenon
    <3> QED
      BY <2>2, <2>5, <2>8, <3>1, Zenon DEF Drawn
  <2>10. t.reads \subseteq KeysRead(c)
    <3>1. k \in KeysRead(c)
      <4>1. Len(ctx[r].numbers) + 1 \in DOMAIN c.numbers
        BY <2>8
      <4>2. k = world_key(c.ids[Len(ctx[r].numbers) + 1])
        BY <2>5, Zenon DEF k
      <4> QED
        BY <4>1, <4>2, Zenon DEF KeysRead
    <3>2. KeysRead(ctx[r]) \subseteq KeysRead(c)
      <4>1. DOMAIN ctx[r].numbers \subseteq DOMAIN c.numbers
        BY <2>8, SMTT(60)
      <4> QED
        BY <2>5, <4>1, Zenon DEF KeysRead
    <3> QED
      BY <2>2, <2>6, <3>1, <3>2, ZenonT(60)
  <2>11. tr[r].reads \subseteq t.reads
    BY <2>6, Zenon
  <2>12. CASE ReadsDone(c)
    <3>1. /\ ctx' = [ctx EXCEPT ![r] = c]
          /\ tr' = [tr EXCEPT ![r] = s]
          /\ Await(r, "update_on_commit")
          /\ UNCHANGED <<future, answer>>
      BY <2>7, <2>12, Zenon DEF UpdateDoWrites
    <3>2. /\ s.reads = t.reads /\ s.missed = t.missed /\ s.writes = UpdateWrites(c)
          /\ DOMAIN s = {"open", "snap", "reads", "missed", "writes"}
      BY <2>6, Zenon
    <3> HIDE DEF s
    <3>3. Only(tr, tr', r) /\ tr'[r] = s
      BY <3>1, OnlyExcept, ZenonT(60) DEF IInv
    <3>4. Full(c)
      BY <2>5, <2>8, <2>12, SMTT(60) DEF ReadsDone, Full
    <3>5. "update_on_commit" \in Callbacks /\ pc[r] \notin {"update_on_commit", "lost", "done"}
      BY <2>1 DEF Callbacks
    <3>6. /\ s.reads \subseteq KeysRead(c) /\ s.missed = tr[r].missed
          /\ tr[r].reads \subseteq s.reads
      BY <2>6, <2>10, <2>11, <3>2, ZenonT(60)
    <3> QED
      BY <2>1, <2>9, <3>1, <3>2, <3>3, <3>4, <3>5, <3>6, AwaitQuiet, ZenonT(60)
  <2>13. CASE ~ReadsDone(c)
    <3>1. /\ ctx' = [ctx EXCEPT ![r] = c]
          /\ tr' = [tr EXCEPT ![r] = t]
          /\ Await(r, "update_on_read")
          /\ UNCHANGED <<future, answer>>
      BY <2>7, <2>13, Zenon
    <3>2. Only(tr, tr', r) /\ tr'[r] = t
      BY <3>1, OnlyExcept, Zenon DEF IInv
    <3>3. /\ "update_on_read" \in Callbacks /\ "update_on_read" # "update_on_commit"
          /\ DOMAIN t.writes = {} /\ pc[r] \notin {"update_on_commit", "lost", "done"}
      BY <2>1, <2>2, <2>6, Zenon DEF Callbacks
    <3> QED
      BY <2>1, <2>6, <2>9, <2>10, <2>11, <3>1, <3>2, <3>3, AwaitQuiet, ZenonT(60)
  <2> QED
    BY <2>12, <2>13, Zenon
<1> QED
  BY <1>1, <1>2, <1>3, Zenon DEF UpdateOnRead

\* update_on_commit answers the rows that were written if they were, and if
\* they were not, and nothing failed, then because another request wrote one of
\* the rows it had read.
LEMMA UpdateOnCommitQuiet ==
  ASSUME IInv, UInv, NEW r \in Reqs, UpdateOnCommit(r)
  PROVE  Quiet(r)
<1> DEFINE rows == Rows(ctx[r].ids, ctx[r].numbers)
           response == Reply(r, rows)
<1>1. /\ UNCHANGED <<db, applied>> /\ UNCHANGED faults /\ pc[r] = "update_on_commit"
      /\ pc[r] # "done" /\ pc[r] \notin {"idle", "done"}
      /\ future[r] # "pending" /\ ctx[r].kind = "updates" /\ Finish(r, response)
  BY DEF UpdateOnCommit, Completed, storeVars
<1>2. /\ ReqInv(pc[r], ctx[r], tr[r], future[r], answer[r], applied[r])
      /\ UpdInv(pc[r], ctx[r], tr[r], future[r], answer[r], applied[r], faults)
      /\ Seen(Updates, r, tr[r], answer[r], applied[r], faults)
  BY RequestFacts, Zenon
<1>3. answer[r] = NoAnswer
  BY <1>1, <1>2, Zenon DEF ReqInv
<1>4. faults' \in faults..MaxFaults
  BY <1>1, FaultCounts, Zenon
<1>5. response.rows = rows /\ response.status = "ok" /\ response.kind = "updates"
  BY <1>1, Zenon DEF Reply
<1>6. NoAnswer.status # "ok"
  BY Zenon DEF NoAnswer
<1> HIDE DEF response
<1>7. Written(response, NoCtx, applied[r]) = Written(answer[r], ctx[r], applied[r])
  BY <1>3, <1>5, <1>6, Zenon DEF Written
<1>8. ASSUME LostUpdate(response, applied[r], faults') PROVE Explained(Updates, r, response)
  <2>1. Conflicts(tr[r])
    BY <1>1, <1>2, <1>8, Zenon DEF UpdInv, LostUpdate
  <2>2. PICK k \in tr[r].reads : k \in tr[r].missed
    BY <2>1, Zenon DEF Conflicts
  <2>3. k \in KeysRead(ctx[r])
    BY <1>1, <1>2, Zenon DEF UpdInv
  <2>4. PICK i \in DOMAIN ctx[r].numbers : k = world_key(ctx[r].ids[i])
    BY <2>3, Zenon DEF KeysRead
  <2>5. k[2] = ctx[r].ids[i]
    BY <2>4 DEF world_key
  <2>6. OtherWrote(Updates, r, ctx[r].ids[i])
    BY <1>2, <2>2, <2>5, ZenonT(60) DEF Seen
  <2>7. i \in DOMAIN rows /\ rows[i].id = ctx[r].ids[i]
    BY DEF Rows
  <2> QED
    BY <1>5, <2>6, <2>7, Zenon DEF Explained
<1> QED
  BY <1>1, <1>4, <1>5, <1>7, <1>8, FinishQuiet, ZenonT(60)

----------------------------------------------------------------------------
(* The store answers the commit of an /updates *)

\* A non-empty set of numbers bounded by N has a largest one.
LEMMA LargestExists ==
  ASSUME NEW N \in Nat, NEW S \in SUBSET (1..N), S # {}
  PROVE  \E n \in S : \A m \in S : m <= n
<1> DEFINE T == {N - n : n \in S}
<1>1. ASSUME NEW n \in S PROVE n \in Nat /\ N - n \in Nat
  <2>1. n \in 1..N
    OBVIOUS
  <2> QED
    BY <2>1
<1>2. T \subseteq Nat /\ T # {}
  BY <1>1
<1>3. PICK x \in T : \A y \in T : ~(<<y, x>> \in OpToRel(<, Nat))
  BY <1>2, NatLessThanWellFounded, WFMin, Zenon
<1>4. \A y \in T : ~(y < x)
  BY <1>2, <1>3, Zenon DEF OpToRel
<1>5. PICK n \in S : x = N - n
  OBVIOUS
<1>6. ASSUME NEW m \in S PROVE m <= n
  <2>1. ~(N - m < N - n)
    BY <1>4, <1>5, Zenon
  <2> QED
    BY <1>1, <2>1, SMTT(60)
<1> QED
  BY <1>6, Zenon

\* Of several sets of one key update_do_writes leaves the last: what it writes
\* is what the last row for that id reports.
LEMMA WritesLastRow ==
  ASSUME NEW c, Context(c), Drawn(c), NEW k \in DOMAIN UpdateWrites(c)
  PROVE  /\ \E i \in DOMAIN c.numbers : k = world_key(c.ids[i])
         /\ k[2] \in 1..MaxId+1 /\ UpdateWrites(c)[k] \in 0..MaxId
         /\ LastRow(Rows(c.ids, c.numbers), k[2], UpdateWrites(c)[k])
<1> DEFINE S == {i \in DOMAIN c.numbers : world_key(c.ids[i]) = k}
           Last(i) == /\ world_key(c.ids[i]) = k
                      /\ \A j \in DOMAIN c.numbers : world_key(c.ids[j]) = k => j <= i
           m == CHOOSE i \in DOMAIN c.numbers : Last(i)
<1>1. /\ Len(c.numbers) \in Nat /\ DOMAIN c.numbers = 1..Len(c.numbers)
      /\ Len(c.ids) \in Nat /\ DOMAIN c.ids = 1..Len(c.ids)
  BY DEF Context
<1>2. \E i \in DOMAIN c.numbers : k = world_key(c.ids[i])
  BY Zenon DEF UpdateWrites
<1>3. S \in SUBSET (1..Len(c.numbers)) /\ S # {}
  BY <1>1, <1>2
<1>4. PICK i \in S : \A j \in S : j <= i
  BY <1>1, <1>3, LargestExists, ZenonT(60)
<1>5. i \in DOMAIN c.numbers /\ Last(i)
  BY <1>4
<1>6. m \in DOMAIN c.numbers /\ Last(m)
  BY <1>5, Zenon
<1>7. UpdateWrites(c)[k] = c.numbers[m]
  BY <1>2, Zenon DEF UpdateWrites
<1> HIDE DEF m
<1>8. k[2] = c.ids[m]
  BY <1>6, Zenon DEF world_key
<1>9. m \in DOMAIN c.ids
  BY <1>1, <1>6 DEF Drawn
<1>10. c.ids[m] \in 2..MaxId+1 /\ c.numbers[m] \in 1..MaxId
  BY <1>6, <1>9, ZenonT(60) DEF Drawn
<1>11. k[2] \in 1..MaxId+1 /\ UpdateWrites(c)[k] \in 0..MaxId
  BY <1>7, <1>8, <1>10, TfbAssumption, SMTT(60)
<1> DEFINE rows == Rows(c.ids, c.numbers)
<1>12. /\ DOMAIN rows = DOMAIN c.numbers
       /\ rows[m] = [id |-> k[2], randomNumber |-> UpdateWrites(c)[k]]
       /\ \A j \in DOMAIN c.numbers : rows[j].id = c.ids[j]
  BY <1>6, <1>7, <1>8, Zenon DEF Rows
<1> HIDE DEF rows
<1>13. ASSUME NEW j \in DOMAIN rows, rows[j].id = k[2] PROVE j <= m
  <2>1. c.ids[j] = c.ids[m] /\ j \in DOMAIN c.numbers
    BY <1>8, <1>12, <1>13, Zenon
  <2>2. world_key(c.ids[j]) = k
    BY <1>6, <2>1, Zenon
  <2> QED
    BY <1>6, <2>1, <2>2, Zenon
<1>14. LastRow(rows, k[2], UpdateWrites(c)[k])
  BY <1>6, <1>12, <1>13, Zenon DEF LastRow
<1> QED
  BY <1>2, <1>11, <1>14, ZenonT(60) DEF rows

\* w holds everything that u holds.
Extended(u, w) == \A q \in Reqs : DOMAIN u[q] # {} => w[q] = u[q]

\* What has been written stays written.
LEMMA ExtendedKeeps ==
  ASSUME NEW u, NEW w, Extended(u, w)
  PROVE  /\ \A q \in Reqs : \A id : OtherWrote(u, q, id) => OtherWrote(w, q, id)
         /\ \A q \in Reqs : \A a : Explained(u, q, a) => Explained(w, q, a)
         /\ \A k, number : RowWritten(u, k, number) => RowWritten(w, k, number)
<1>1. ASSUME NEW q \in Reqs, NEW id, OtherWrote(u, q, id) PROVE OtherWrote(w, q, id)
  <2>1. PICK p \in Reqs \ {q} : \E i \in DOMAIN u[p] : u[p][i].id = id
    BY <1>1, Zenon DEF OtherWrote
  <2>2. w[p] = u[p]
    BY <2>1, Zenon DEF Extended
  <2> QED
    BY <2>1, <2>2, Zenon DEF OtherWrote
<1>2. ASSUME NEW q \in Reqs, NEW a, Explained(u, q, a) PROVE Explained(w, q, a)
  BY <1>1, <1>2, Zenon DEF Explained
<1>3. ASSUME NEW k, NEW number, RowWritten(u, k, number) PROVE RowWritten(w, k, number)
  <2>1. CASE \E r \in Reqs : LastRow(u[r], k[2], number)
    <3>1. PICK r \in Reqs : LastRow(u[r], k[2], number)
      BY <2>1, Zenon
    <3>2. DOMAIN u[r] # {}
      BY <3>1, Zenon DEF LastRow
    <3>3. w[r] = u[r]
      BY <3>2, Zenon DEF Extended
    <3> QED
      BY <3>1, <3>3, Zenon DEF RowWritten
  <2> QED
    BY <1>3, <2>1, Zenon DEF RowWritten
<1> QED
  BY <1>1, <1>2, <1>3, Zenon

\* That others have committed changes only what a transaction has missed.
LEMMA MissKeeps ==
  ASSUME NEW p, NEW c, NEW t, NEW f, NEW a, NEW n, NEW z, NEW keys,
         UpdInv(p, c, t, f, a, n, z)
  PROVE  /\ UpdInv(p, c, Miss(t, keys), f, a, n, z)
         /\ Miss(t, keys).missed \subseteq t.missed \union keys
<1>1. DOMAIN t = {"open", "snap", "reads", "missed", "writes"}
  BY Zenon DEF UpdInv
<1> DEFINE m == Miss(t, keys)
<1>2. /\ DOMAIN m = DOMAIN t /\ m.reads = t.reads /\ m.writes = t.writes
      /\ t.missed \subseteq m.missed /\ m.missed \subseteq t.missed \union keys
  BY <1>1 DEF Miss
<1> HIDE DEF m
<1>3. Conflicts(t) => Conflicts(m)
  BY <1>2, Zenon DEF Conflicts
<1>4. UpdInv(p, c, m, f, a, n, z)
  BY <1>2, <1>3, Zenon DEF UpdInv
<1> QED
  BY <1>2, <1>4, Zenon DEF m

\* A commit that is in flight holds the writes of a full context.
LEMMA CommittingUpdate ==
  ASSUME IInv, UInv, NEW r \in Reqs, Committing(r)
  PROVE  /\ pc[r] \in {"update_on_commit", "lost"} /\ applied[r] = 0 /\ answer[r] = NoAnswer
         /\ Context(ctx[r]) /\ Drawn(ctx[r]) /\ Full(ctx[r])
         /\ tr[r].writes = UpdateWrites(ctx[r])
<1>1. /\ ReqInv(pc[r], ctx[r], tr[r], future[r], answer[r], applied[r])
      /\ UpdInv(pc[r], ctx[r], tr[r], future[r], answer[r], applied[r], faults)
  BY RequestFacts, Zenon
<1>2. future[r] = "pending" /\ (pc[r] = "update_on_commit" \/ DOMAIN tr[r].writes # {})
  BY <1>1, Zenon DEF Committing, CommitCallbacks, ReqInv, Callbacks
<1>3. /\ pc[r] \in {"update_on_commit", "lost"} /\ Full(ctx[r])
      /\ tr[r].writes = UpdateWrites(ctx[r])
  BY <1>1, <1>2, ZenonT(60) DEF UpdInv
<1>4. pc[r] \notin {"idle", "done"} /\ pc[r] # "done"
  BY <1>3
<1> QED
  BY <1>1, <1>2, <1>3, <1>4, ZenonT(60) DEF ReqInv, UpdInv

\* A commit that is applied adds the rows of its request to what is written.
LEMMA ApplyUpdates ==
  ASSUME IInv, UInv, NEW r \in Reqs, Committing(r), Apply(r), UNCHANGED <<ctx, answer>>
  PROVE  /\ Extended(Updates, Updates')
         /\ Updates'[r] = Rows(ctx[r].ids, ctx[r].numbers)
         /\ \A q \in Reqs \ {r} : applied'[q] = applied[q]
         /\ applied'[r] = 1
<1>1. applied[r] = 0 /\ answer[r] = NoAnswer
  BY CommittingUpdate, Zenon
<1>2. NoAnswer.status # "ok"
  BY ZenonT(60) DEF NoAnswer
<1>3. /\ applied'[r] = 1 /\ \A q \in Reqs \ {r} : applied'[q] = applied[q]
  BY <1>1, SMTT(60) DEF Apply, IInv
<1>4. Updates[r] = <<>> /\ DOMAIN Updates[r] = {}
  BY <1>1, SMTT(60) DEF Updates, Written
<1>5. Updates'[r] = Rows(ctx[r].ids, ctx[r].numbers)
  BY <1>1, <1>2, <1>3, Zenon DEF Updates, Written
<1>6. ASSUME NEW q \in Reqs, DOMAIN Updates[q] # {} PROVE Updates'[q] = Updates[q]
  <2>1. q # r
    BY <1>4, <1>6, Zenon
  <2>2. applied'[q] = applied[q]
    BY <1>3, <2>1, Zenon
  <2> QED
    BY <2>2, Zenon DEF Updates
<1> QED
  BY <1>3, <1>5, <1>6, Zenon DEF Extended

\* A commit that is applied keeps the invariant, whatever its result.
LEMMA ApplyUpd ==
  ASSUME IInv, UInv, NEW r \in Reqs, Committing(r), Apply(r), UNCHANGED <<pc, ctx, answer>>,
         NEW f \in {"ok", "retryable"}, future' = [future EXCEPT ![r] = f],
         (\E kind \in FaultKinds : Fault(kind)) \/ UNCHANGED faults
  PROVE  UInv'
<1> DEFINE u == Updates
           w == Updates'
           c == ctx[r]
<1>1. /\ Extended(u, w) /\ w[r] = Rows(c.ids, c.numbers)
      /\ applied'[r] = 1 /\ \A q \in Reqs \ {r} : applied'[q] = applied[q]
  BY ApplyUpdates, Zenon
<1>2. /\ pc[r] \in {"update_on_commit", "lost"} /\ Context(c) /\ Drawn(c) /\ Full(c)
      /\ tr[r].writes = UpdateWrites(c)
  BY CommittingUpdate, Zenon
<1>3. faults' \in faults..MaxFaults /\ faults \in Nat
  BY FaultCounts, RequestFacts, ZenonT(60)
<1>4. faults' \in Nat /\ faults <= faults' /\ faults' \in 0..MaxFaults
  BY <1>3, AdapterAssumption, SMTT(60)
<1>5. ASSUME NEW q \in Reqs
      PROVE  /\ UpdInv(pc[q], ctx[q], tr[q], future[q], answer[q], applied[q], faults')
             /\ Seen(u, q, tr[q], answer[q], applied[q], faults')
  BY <1>3, <1>4, RequestFacts, MoreFaults, ZenonT(60)
<1> HIDE DEF u, w
<1>6. /\ Only(future, future', r) /\ future'[r] = f /\ tr'[r] = tr[r]
      /\ \A q \in Reqs \ {r} : tr'[q] = Miss(tr[q], DOMAIN tr[r].writes)
  BY OnlyExcept, ZenonT(60) DEF IInv, Apply
<1>7. ASSUME NEW k \in DOMAIN tr[r].writes, NEW q \in Reqs \ {r} PROVE OtherWrote(w, q, k[2])
  <2>1. PICK i \in DOMAIN c.numbers : k = world_key(c.ids[i])
    BY <1>2, WritesLastRow, ZenonT(60)
  <2>2. k[2] = c.ids[i]
    BY <2>1, SMTT(60) DEF world_key
  <2>3. i \in DOMAIN w[r] /\ w[r][i].id = k[2]
    BY <1>1, <2>2, SMTT(60) DEF Rows
  <2> QED
    BY <2>3, Zenon DEF OtherWrote
<1>8. ASSUME NEW q \in Reqs
      PROVE  /\ UpdInv(pc[q], ctx[q], tr'[q], future'[q], answer[q], applied'[q], faults')
             /\ Seen(w, q, tr'[q], answer[q], applied'[q], faults')
  <2>1. CASE q = r
    <3>1. UpdInv(pc[r], ctx[r], tr[r], f, answer[r], 1, faults')
      <4>1. /\ DOMAIN tr[r] = {"open", "snap", "reads", "missed", "writes"}
            /\ tr[r].reads \subseteq KeysRead(c)
        BY <1>2, <1>5, ZenonT(60) DEF UpdInv
      <4>2. f \in {"pending", "ok", "retryable", "fatal"} /\ ~(1 = 0)
        OBVIOUS
      <4> QED
        BY <1>2, <4>1, <4>2, ZenonT(60) DEF UpdInv
    <3>2. Seen(w, r, tr[r], answer[r], 1, faults')
      <4>1. \A k \in tr[r].missed : OtherWrote(w, r, k[2])
        BY <1>1, <1>5, ExtendedKeeps, ZenonT(60) DEF Seen
      <4>2. ~LostUpdate(answer[r], 1, faults')
        BY DEF LostUpdate
      <4> QED
        BY <4>1, <4>2, Zenon DEF Seen
    <3> QED
      BY <1>1, <1>6, <2>1, <3>1, <3>2, ZenonT(60)
  <2>2. CASE q # r
    <3> DEFINE t == Miss(tr[q], DOMAIN tr[r].writes)
    <3>1. tr'[q] = t /\ future'[q] = future[q] /\ applied'[q] = applied[q]
      BY <1>1, <1>6, <2>2, Zenon DEF Only
    <3>2. /\ UpdInv(pc[q], ctx[q], t, future[q], answer[q], applied[q], faults')
          /\ t.missed \subseteq tr[q].missed \union DOMAIN tr[r].writes
      BY <1>5, MissKeeps, Zenon
    <3> HIDE DEF t
    <3>3. ASSUME NEW k \in t.missed PROVE OtherWrote(w, q, k[2])
      <4>1. CASE k \in tr[q].missed
        <5>1. OtherWrote(u, q, k[2])
          BY <1>5, <4>1, Zenon DEF Seen
        <5> QED
          BY <1>1, <5>1, ExtendedKeeps, ZenonT(60)
      <4>2. CASE k \in DOMAIN tr[r].writes
        BY <1>7, <2>2, <4>2, ZenonT(60)
      <4> QED
        BY <3>2, <4>1, <4>2, ZenonT(60)
    <3>4. LostUpdate(answer[q], applied[q], faults') => Explained(w, q, answer[q])
      BY <1>1, <1>5, ExtendedKeeps, ZenonT(60) DEF Seen
    <3>5. Seen(w, q, t, answer[q], applied[q], faults')
      BY <3>3, <3>4, Zenon DEF Seen
    <3> QED
      BY <3>1, <3>2, <3>5, ZenonT(60)
  <2> QED
    BY <2>1, <2>2, Zenon
<1>9. Stored(w, db')
  <2>1. ASSUME NEW k \in DOMAIN db'
        PROVE  k[2] \in 1..MaxId+1 /\ db'[k] \in 0..MaxId /\ RowWritten(w, k, db'[k])
    <3>1. CASE k \in DOMAIN tr[r].writes
      <4>1. db'[k] = UpdateWrites(c)[k] /\ k \in DOMAIN UpdateWrites(c)
        BY <1>2, <2>1, <3>1, Zenon DEF Apply, Overlay
      <4>2. /\ k[2] \in 1..MaxId+1 /\ UpdateWrites(c)[k] \in 0..MaxId
            /\ LastRow(Rows(c.ids, c.numbers), k[2], UpdateWrites(c)[k])
        BY <1>2, <4>1, WritesLastRow, Zenon
      <4>3. RowWritten(w, k, UpdateWrites(c)[k])
        BY <1>1, <4>2, Zenon DEF RowWritten
      <4> QED
        BY <4>1, <4>2, <4>3, Zenon
    <3>2. CASE k \notin DOMAIN tr[r].writes
      <4>1. k \in DOMAIN db /\ db'[k] = db[k]
        BY <2>1, <3>2, SMTT(60) DEF Apply, Overlay
      <4>2. k[2] \in 1..MaxId+1 /\ db[k] \in 0..MaxId /\ RowWritten(u, k, db[k])
        BY <4>1, Zenon DEF UInv, Stored, u
      <4>3. RowWritten(w, k, db[k])
        BY <1>1, <4>2, ExtendedKeeps, Zenon
      <4> QED
        BY <4>1, <4>2, <4>3, ZenonT(60)
    <3> QED
      BY <3>1, <3>2, Zenon
  <2> QED
    BY <2>1, Zenon DEF Stored
<1> QED
  BY <1>4, <1>8, <1>9, Zenon DEF UInv, w

\* A commit that is refused or lost leaves the store alone; without a fault it
\* was refused because the transaction conflicts.
LEMMA CommitUpd ==
  ASSUME IInv, UInv, NEW r \in Reqs, Commit(r)
  PROVE  UInv'
<1>1. Committing(r) /\ UNCHANGED <<pc, ctx, answer>>
  BY Zenon DEF Commit
<1>2. (\E kind \in FaultKinds : Fault(kind)) \/ UNCHANGED faults
  BY Zenon DEF Commit, Fault
<1>3. PICK f \in {"ok", "retryable", "fatal"} : future' = [future EXCEPT ![r] = f]
  BY Zenon DEF Commit
<1>4. CASE Apply(r)
  <2>1. PICK g \in {"ok", "retryable"} : future' = [future EXCEPT ![r] = g]
    <3>1. Apply(r) /\ UNCHANGED applied => FALSE
      <4>1. applied[r] = 0 /\ DOMAIN applied = Reqs
        BY <1>1, CommittingUpdate, Zenon DEF IInv
      <4> QED
        BY <4>1 DEF Apply
    <3> QED
      BY <1>4, <3>1, ZenonT(60) DEF Commit
  <2> QED
    BY <1>1, <1>2, <1>4, <2>1, ApplyUpd, ZenonT(60)
<1>5. CASE ~Apply(r)
  <2>1. /\ UNCHANGED <<db, tr, applied>>
        /\ Conflicts(tr[r]) \/ \E kind \in FaultKinds : Fault(kind)
    BY <1>5, Zenon DEF Commit, Fault
  <2>2. /\ Only(future, future', r) /\ future'[r] = f
        /\ Only(pc, pc', r) /\ Only(ctx, ctx', r) /\ Only(tr, tr', r) /\ Only(answer, answer', r)
    BY <1>1, <1>3, <2>1, OnlyExcept, OnlySame, ZenonT(60) DEF IInv
  <2>3. faults' \in faults..MaxFaults
    BY <1>2, FaultCounts, Zenon
  <2>4. /\ UpdInv(pc[r], ctx[r], tr[r], future[r], answer[r], applied[r], faults)
        /\ Seen(Updates, r, tr[r], answer[r], applied[r], faults) /\ faults \in Nat
    BY RequestFacts, Zenon
  <2>5. /\ UpdInv(pc[r], ctx[r], tr[r], future[r], answer[r], applied[r], faults')
        /\ Seen(Updates, r, tr[r], answer[r], applied[r], faults')
    <3>1. faults' \in Nat /\ faults <= faults'
      BY <2>3, <2>4, AdapterAssumption, SMTT(60)
    <3> QED
      BY <2>4, <3>1, MoreFaults, ZenonT(60)
  <2>6. faults' = 0 => Conflicts(tr[r])
    <3>1. ASSUME NEW kind \in FaultKinds, Fault(kind) PROVE faults' # 0
      BY <2>4, <3>1, SMTT(60) DEF Fault
    <3> QED
      BY <2>1, <3>1, ZenonT(60)
  <2>7. UpdInv(pc[r], ctx[r], tr[r], f, answer[r], applied[r], faults')
    <3>1. f \in {"pending", "ok", "retryable", "fatal"}
      BY <1>3, Zenon
    <3> QED
      BY <2>5, <2>6, <3>1, ZenonT(60) DEF UpdInv
  <2>8. Quiet(r)
    BY <1>1, <2>1, <2>2, <2>3, <2>5, <2>7, ZenonT(60) DEF Quiet
  <2> QED
    BY <2>8, QuietInv, Zenon
<1> QED
  BY <1>4, <1>5, Zenon

----------------------------------------------------------------------------
(* The invariant of the store *)

\* Initially nothing is written and every row is as it was loaded.
LEMMA InitUpd == Init => UInv
<1> SUFFICES ASSUME Init PROVE UInv
  OBVIOUS
<1>1. /\ DOMAIN NewTransaction = {"open", "snap", "reads", "missed", "writes"}
      /\ DOMAIN NewTransaction.writes = {} /\ NewTransaction.missed = {}
  BY SMTT(60) DEF NewTransaction
<1>2. UpdInv("idle", NoCtx, NewTransaction, "pending", NoAnswer, 0, 0)
  BY <1>1, SMTT(60) DEF UpdInv
<1>3. ASSUME NEW r \in Reqs PROVE Seen(Updates, r, NewTransaction, NoAnswer, 0, 0)
  BY <1>1 DEF Seen, LostUpdate, NoAnswer
<1>4. Stored(Updates, db)
  <2>1. PICK n \in Worlds : db = [k \in {world_key(id) : id \in 1..n} |-> 0]
    BY Zenon DEF Init
  <2>2. n \in 0..MaxId /\ MaxId \in Nat
    BY TfbAssumption, Zenon
  <2>3. ASSUME NEW k \in DOMAIN db
        PROVE  k[2] \in 1..MaxId+1 /\ db[k] \in 0..MaxId /\ RowWritten(Updates, k, db[k])
    <3>1. PICK id \in 1..n : k = world_key(id)
      BY <2>1, <2>3
    <3>2. k[2] = id /\ db[k] = 0
      BY <2>1, <2>3, <3>1, ZenonT(60) DEF world_key
    <3> QED
      BY <2>2, <3>2 DEF RowWritten
  <2> QED
    BY <2>3, Zenon DEF Stored
<1>5. faults = 0 /\ faults \in 0..MaxFaults
  BY AdapterAssumption DEF Init, AdapterInit
<1> QED
  BY <1>2, <1>3, <1>4, <1>5, ZenonT(60) DEF UInv, Init, AdapterInit

\* Every step keeps the invariant of the store.
LEMMA NextUpd == IInv /\ UInv /\ [Next]_adapterVars => UInv'
<1> SUFFICES ASSUME IInv, UInv, [Next]_adapterVars PROVE UInv'
  OBVIOUS
<1>1. ASSUME NEW r \in Reqs, Arrive(r) PROVE Quiet(r)
  <2>1. ASSUME QueriesHandler(r) \/ UpdatesHandler(r) PROVE Quiet(r)
    BY <2>1, MultiHandlerQuiet DEF QueriesHandler, UpdatesHandler
  <2> QED
    BY <1>1, <2>1, ImmediateQuiet, DbHandlerQuiet, ZenonT(60) DEF Arrive
<1>2. ASSUME NEW r \in Reqs, Callback(r) PROVE Quiet(r)
  BY <1>2, OnSingleQueryResultQuiet, MultiQueryNextQuiet, UpdateOnReadQuiet,
     UpdateOnCommitQuiet, ZenonT(60) DEF Callback
<1>3. ASSUME NEW r \in Reqs, Commit(r) PROVE UInv'
  BY <1>3, CommitUpd, Zenon
<1>4. CASE UNCHANGED adapterVars
  <2>1. UNCHANGED <<db, pc, ctx, tr, future, answer, applied, faults>>
    BY <1>4, Zenon DEF adapterVars
  <2>2. Updates' = Updates
    BY <2>1, Zenon DEF Updates
  <2> QED
    BY <2>1, <2>2, Zenon DEF UInv
<1> QED
  BY <1>1, <1>2, <1>3, <1>4, QuietInv, ZenonT(60) DEF Next

\* The invariant of the store holds at all times.
LEMMA UpdInvariant == Spec => []UInv
<1> QED
  BY Invariant, InitUpd, NextUpd, PTL DEF Spec

\* What the properties call the rows of a request.
LEMMA WrittenRows ==
  ASSUME IInv, UInv, NEW q \in Reqs, NEW i \in DOMAIN Updates[q]
  PROVE  /\ applied[q] = 1
         /\ \/ Ok(q) /\ Updates[q] = answer[q].rows
            \/ /\ ~Ok(q) /\ Updates[q] = Rows(ctx[q].ids, ctx[q].numbers)
               /\ ctx[q].kind = "updates" /\ i \in DOMAIN ctx[q].ids
               /\ Updates[q][i].id = ctx[q].ids[i]
<1>1. Updates[q] = Written(answer[q], ctx[q], applied[q])
  BY Zenon DEF Updates
<1>2. applied[q] = 1
  BY <1>1 DEF Written
<1>3. /\ ReqInv(pc[q], ctx[q], tr[q], future[q], answer[q], applied[q])
      /\ UpdInv(pc[q], ctx[q], tr[q], future[q], answer[q], applied[q], faults)
  BY RequestFacts, ZenonT(60)
<1>4. CASE Ok(q)
  BY <1>1, <1>2, <1>4, SMTT(60) DEF Written, Ok
<1>5. CASE ~Ok(q)
  <2>1. Updates[q] = Rows(ctx[q].ids, ctx[q].numbers)
    BY <1>1, <1>2, <1>5, SMTT(60) DEF Written, Ok
  <2>2. pc[q] \in {"update_on_commit", "lost"} /\ Full(ctx[q])
    BY <1>2, <1>3, <1>5, ZenonT(60) DEF UpdInv, Ok
  <2>3. Context(ctx[q])
    BY <1>3, <2>2, ZenonT(60) DEF ReqInv
  <2>4. i \in DOMAIN ctx[q].numbers /\ Updates[q][i].id = ctx[q].ids[i]
    BY <2>1, SMTT(60) DEF Rows
  <2>5. i \in DOMAIN ctx[q].ids
    BY <2>2, <2>3, <2>4, SMTT(60) DEF Context, Full
  <2> QED
    BY <1>2, <1>5, <2>1, <2>2, <2>4, <2>5, ZenonT(60) DEF Full
<1> QED
  BY <1>4, <1>5, Zenon

\* The invariants contain the properties of the store.
LEMMA UpdImplies == IInv /\ UInv => TypeOK /\ LostUpdateNeedsConflict /\ ChangedRowsReported
<1> SUFFICES ASSUME IInv, UInv
             PROVE  TypeOK /\ LostUpdateNeedsConflict /\ ChangedRowsReported
  OBVIOUS
<1>1. TypeOK
  <2>1. ASSUME NEW r \in Reqs
        PROVE  /\ pc[r] \in {"idle", "done", "lost", "on_single_query_result",
                             "multi_query_next", "update_on_read", "update_on_commit"}
               /\ future[r] \in {"pending", "ok", "retryable", "fatal"}
               /\ answer[r].status \in {"none", "ok", "error"}
               /\ DOMAIN tr[r].writes # {} => ctx[r].kind = "updates"
    <3>1. /\ ReqInv(pc[r], ctx[r], tr[r], future[r], answer[r], applied[r])
          /\ UpdInv(pc[r], ctx[r], tr[r], future[r], answer[r], applied[r], faults)
      BY RequestFacts, Zenon
    <3>2. NoAnswer.status = "none"
      BY ZenonT(60) DEF NoAnswer
    <3>3. pc[r] \in {"idle", "done", "lost", "on_single_query_result",
                     "multi_query_next", "update_on_read", "update_on_commit"}
      BY <3>1, SMTT(60) DEF ReqInv, Callbacks
    <3>4. answer[r].status \in {"none", "ok", "error"}
      BY <3>1, <3>2 DEF ReqInv, FullAnswer
    <3> QED
      BY <3>1, <3>3, <3>4, Zenon DEF UpdInv, Full
  <2> QED
    BY <2>1, Zenon DEF TypeOK, UInv
<1>2. LostUpdateNeedsConflict
  <2> SUFFICES ASSUME NEW r \in Reqs, Ok(r), answer[r].kind = "updates", applied[r] = 0,
                      faults = 0
               PROVE  \E q \in Reqs \ {r} :
                        /\ applied[q] = 1
                        /\ \E row \in UpdatedRows(r) :
                             \/ Ok(q) /\ row.id \in {other.id : other \in UpdatedRows(q)}
                             \/ /\ ctx[q].kind = "updates"
                                /\ \E i \in DOMAIN ctx[q].ids : ctx[q].ids[i] = row.id
    BY Zenon DEF LostUpdateNeedsConflict
  <2>1. Explained(Updates, r, answer[r])
    BY RequestFacts, Zenon DEF Seen, LostUpdate, Ok
  <2>2. PICK j \in DOMAIN answer[r].rows : OtherWrote(Updates, r, answer[r].rows[j].id)
    BY <2>1, Zenon DEF Explained
  <2>3. PICK q \in Reqs \ {r} :
          \E i \in DOMAIN Updates[q] : Updates[q][i].id = answer[r].rows[j].id
    BY <2>2, Zenon DEF OtherWrote
  <2>4. PICK i \in DOMAIN Updates[q] : Updates[q][i].id = answer[r].rows[j].id
    BY <2>3, Zenon
  <2>5. answer[r].rows[j] \in UpdatedRows(r)
    BY <2>2, Zenon DEF UpdatedRows
  <2>6. \/ Ok(q) /\ answer[r].rows[j].id \in {other.id : other \in UpdatedRows(q)}
        \/ /\ ctx[q].kind = "updates"
           /\ \E m \in DOMAIN ctx[q].ids : ctx[q].ids[m] = answer[r].rows[j].id
    <3>1. CASE Ok(q) /\ Updates[q] = answer[q].rows
      <4>1. answer[q].rows[i] \in UpdatedRows(q)
        BY <2>4, <3>1, Zenon DEF UpdatedRows
      <4> QED
        BY <2>4, <3>1, <4>1, Zenon
    <3>2. CASE ~(Ok(q) /\ Updates[q] = answer[q].rows)
      <4>1. /\ ctx[q].kind = "updates" /\ i \in DOMAIN ctx[q].ids
            /\ Updates[q][i].id = ctx[q].ids[i]
        BY <2>4, <3>2, WrittenRows, ZenonT(60)
      <4> QED
        BY <2>4, <4>1, Zenon
    <3> QED
      BY <3>1, <3>2, Zenon
  <2>7. applied[q] = 1
    BY <2>4, WrittenRows, Zenon
  <2> QED
    BY <2>5, <2>6, <2>7, Zenon
<1>3. ChangedRowsReported
  <2> DEFINE rows(r) == IF Ok(r) THEN answer[r].rows ELSE Rows(ctx[r].ids, ctx[r].numbers)
             Last(k, r) == \E i \in DOMAIN rows(r) :
                             /\ rows(r)[i] = [id |-> k[2], randomNumber |-> db[k]]
                             /\ \A j \in DOMAIN rows(r) : rows(r)[j].id = k[2] => j <= i
  <2> SUFFICES ASSUME NEW k \in DOMAIN db, ~(k[2] <= MaxId /\ db[k] = 0)
               PROVE  \E r \in Reqs : applied[r] = 1 /\ Last(k, r)
    BY Zenon DEF ChangedRowsReported
  <2>1. PICK r \in Reqs : LastRow(Updates[r], k[2], db[k])
    BY Zenon DEF UInv, Stored, RowWritten
  <2>2. PICK i \in DOMAIN Updates[r] : TRUE
    BY <2>1, Zenon DEF LastRow
  <2>3. applied[r] = 1 /\ Updates[r] = rows(r)
    BY <2>2, WrittenRows, Zenon
  <2>4. Last(k, r)
    <3> HIDE DEF rows
    <3> QED
      BY <2>1, <2>3, Zenon DEF LastRow
  <2> QED
    BY <2>3, <2>4, Zenon
<1> QED
  BY <1>1, <1>2, <1>3, Zenon

\* Whatever fails, only an /updates that still has its context holds writes.
THEOREM TfbTypes == Spec => []TypeOK
<1> QED
  BY Invariant, UpdInvariant, UpdImplies, PTL

\* update_on_commit does not look at the result: still, an /updates that was
\* answered with 200 is in the store unless a commit failed by fault or another
\* /updates wrote one of its rows, for every number of requests, rows and queries.
THEOREM TfbLostUpdateNeedsConflict == Spec => []LostUpdateNeedsConflict
<1> QED
  BY Invariant, UpdInvariant, UpdImplies, PTL

\* update_do_writes: every row of the store that is not as it was loaded is the
\* last row for its id in what an applied /updates answers, also when ids
\* repeat, when commits are lost and when their results are unknown.
THEOREM TfbChangedRowsReported == Spec => []ChangedRowsReported
<1> QED
  BY Invariant, UpdInvariant, UpdImplies, PTL
=============================================================================
