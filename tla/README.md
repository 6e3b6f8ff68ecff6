# h2o-bench-tpcc in TLA+

h2o-bench-tpcc is an HTTP server that runs the TPC-C transactions and the
TechEmpower tests on FoundationDB. Every request is a chain of callbacks on FDB
futures; a pool of worker threads fed by lock-free rings is there for blocking
work; a container script loads the data and starts the server. This directory
models those parts, model-checks them with TLC and proves, with TLAPS, every
invariant, action property and refinement that the passing runs check. Paths are
relative to the repository root.

## 1. Inventory

| Part | State | Operations | What is hard about it |
|---|---|---|---|
| SPSC ring (`src/spsc_ring.c/.h`) | slots, head, tail | push, pop, size, empty | stale loads, plain slot accesses, `size_t` wrap, full/empty boundary |
| Worker pool (`src/worker_pool.c`) | round-robin counter, ring and `running` flag per worker, return queues | dispatch, worker loop, process_returns, destroy | full rings, shutdown while workers poll, results finding their way back |
| FDB adapter (`src/fdb_database.c`) | database handle per thread | create_transaction, get, get_range, set, commit, handle_error | submissions that fail, errors delivered by callback |
| NewOrder (`src/handlers/tpcc_new_order.c`) | context, transaction | district, customer, stock reads; writes; commit; retry | interleaved chains, retries, order ids |
| Payment (`src/handlers/tpcc_payment.c`) | context, transaction | warehouse, district, customer reads; writes; commit; retry | values carried across callbacks, unknown commit results |
| OrderStatus, Delivery, StockLevel (`src/handlers/tpcc_read_txns.c`) | context, transaction | empty commit; one range read | partial range replies, unchecked commits |
| Keys and rows (`src/tpcc_kv.c/.h`) | none | key, range and value encoding | byte order, range ends |
| Loader (`src/tpcc_loader.c`) | the store, one `rand_r` sequence, its network thread | batches of sets and commits, shutdown | unchecked commits, kills between batches |
| Container (`docker-entrypoint.sh`) | the script, the store that outlives it | probe, load, serve, restart | loading again over what is there |
| TechEmpower handlers (`src/handlers/tfb_handlers.c`) | World table, cache | db, queries, updates, cached-worlds | chained reads, unchecked commits |
| Server process (`src/main.c`) | threads, `running` flags, contexts, handles, the socket | start, run, stop | handler state that is never set, shutdown order, ignored results |
| Harness, random numbers (`tpcc_harness.c`, `tpcc_procedures.c`, `utility.c`) | seed | dispatch by weight, nurand | ranges, remainder by zero |

Correctness, part by part: the ring is a FIFO without races; the pool runs each
accepted item once, in order, and stops cleanly; a handler answers every
request, frees what it allocated, answers "ok" only for what is committed, and
the store changes only by whole transactions; stock and money stay consistent;
keys are unique and sort as their ids; a boot, however often it is interrupted,
comes to a store with the tables the loader checks, all tables when nothing failed,
and a server that starts and stops in order.

## 2. Modules

| Module | Models |
|---|---|
| `BoundedFifo` | what a ring promises: a queue of at most `Capacity` items whose producer may learn late of a pop |
| `SpscRing`, `SpscRingProofs` | push and pop, one step per access to shared memory |
| `SpscRingSize` | `spsc_ring_size` beside a running ring (proofs in `SpscRingProofs`) |
| `WorkerPool`, `WorkerPoolProofs` | the pool, over bounded FIFOs |
| `Fdb` | FoundationDB transactions as the code uses them (external) |
| `FdbAdapter` | `fdb_database.c`: contexts, futures, commits, faults; shared by both families of handlers |
| `TpccRows` | keys, rows, and what NewOrder and Payment write |
| `TpccSerial`, `TpccSerialProofs` | NewOrder and Payment as single steps: the abstract specification |
| `TpccHandlers`, `TpccReadProofs`, `TpccHandlersProofs` | the five TPC-C handlers as callback chains over one store |
| `TfbHandlers`, `TfbHandlersProofs` | the six TechEmpower handlers over the World table |
| `KvEncoding`, `KvEncodingProofs` | keys, ranges and counters as bytes |
| `Loader` | the loader's batches |
| `Server` | the server process: main thread and event-loop threads |
| `Boot`, `BootProofs` | the container: `Loader` and `Server` composed, with kills and restarts |
| `MC*` | values of the constants for TLC |

**SpscRing.** `head` and `tail` are C11 atomics. A load by the thread that does
not own the index returns any value the index has had since that thread last
looked (`SeenSince`). Slots are plain memory, so `NoSlotRace` is needed for the
model to mean anything. Indices count modulo `Word = Capacity * Laps`. The
release/acquire pairs are built in: a slot written before a visible `head` is
visible. Removing them is not modelled. Seen from outside it is a `BoundedFifo`: the
items between `tail` and `head`, and `Unseen`, the pops between the `tail` the producer
knows and the real one, which make the ring look full for a while.

**WorkerPool.** A ring of the pool is what `BoundedFifo` has of it, items and unseen
pops; the property `RingsAreFifos` says that the pool moves each ring by steps of
`BoundedFifo` only. That is the specification `SpscRing` implements, so the pool rests on
what `spsc_ring.c` does and on nothing more. One H2O thread
dispatches; that is what "single producer" demands of the callers. A worker
that reads an old `running` flag is a worker that reads it before the store.

**Fdb, FdbAdapter, TpccHandlers.** A transaction is its snapshot, the keys it read,
whether someone wrote one of them since, and its buffered writes. A commit succeeds,
conflicts, ends with an unknown result (applied or not) or with an error that
`on_error` refuses. A transaction without writes always commits. An action is one
callback: from the completion of its future to the submission of the next.
`FaultKinds` and `MaxFaults` say what may go wrong in a run. A failing submission
leaves the request `lost`; if it was the commit, the commit may still take effect.
`get_random_number(0)` is `% 0`: the process dies (`Trap`) or the id is any of
`WIds`. The thread state is taken as initialised. A line takes its stock from the
warehouse of the order cut to `uint8_t` (`SupplyW`: 257 takes from 1); the branch
for a remote warehouse is dead, as `get_random_number(99)` is at least 1. The range
read of StockLevel has the selectors of `fdb_async_get_range`: it lacks the last
stock row of the warehouse and has the row in front of the first, which is shorter
than a `stock_val_t` and is passed over.

`ctx`, `tr` and `pc` stand for the context struct, the `FDBTransaction` and the
registered callback. `applied` is history.

**TfbHandlers.** The handlers never ask `on_error`: a failing read ends the request
with a 503, the result of a commit is not looked at. Ids come from
`1 + get_random_number(10000)`, that is 2..10001, and may repeat; the row of the
last id is missing until an `/updates` writes it, and `g_world_cache[10001]` is past
the end, so it may hold anything. `multi_query_next` registers itself as the
callback of its read and is called with the future in place of its context:
the model lets the process die or the request be lost. `on_multi_query_result` is
registered nowhere. What `atoi` finds after skipping the parameter name twice is
any of `Parsed`. The numbers of the cache are one sample of `rand_r % 10000`.

**Loader, Server, Boot.** One `rand_r` sequence with seed 42 gives all contents, so
a row is the number of draws before it. A commit is ok, fails, or reports an error
though it is applied; items and World end the process then, warehouses and districts
go on. Or the network thread is gone and the commit, applied or not, never
completes. The thread may also not be created (`pthread_create` is not looked at):
then the first commit blocks. `CheckFails` is any other call under `check_fdb`.
`Tables` are the rows the loader writes: `load_customer_and_orders` is a stub, so
customers, history, orders and stock, which the head of `tpcc_loader.c` and rfd/0012
list, get none. `Server` keeps main's program counter, the thread its loops are at,
and for each thread its state, `running`, handle and context; the results of
`fdb_thread_init` and `pthread_create` are ignored as in the code. The first thread
that leaves its loop closes the descriptor all threads share. The handlers' state is
NULL in `main.c` as it is, so a request that needs the database ends the process
(`DatabaseRequest`); `TpccHandlers` and `TfbHandlers` say what the handlers do once
they are given the state they are written for. `Boot` runs the script, allows a kill
at any moment and keeps only the store, which nobody but the loader writes there:
the handlers end the process before they write. The probe greps for "value" in what
fdbcli prints for the key; fdbcli prints the key with the four bytes it holds, that
it is not found, or an error, and the word is in none of these, so every start
loads. fdbserver itself is taken to come up with its data.

**KvEncoding.** A byte has `Base` values: 256 in the code, any even number from 128
on in the proofs, 128 for TLC, whose integers have 32 bits. The prefix `tpcc/`, which
all keys share, is left off. A key is compared with all others of the store, in
FoundationDB's bytewise order. `InRead` is the read of `fdb_async_get_range`: both key
selectors have `or_equal` 0 and `offset` 0, "last less than", so the read goes from the
last key before the begin up to, and without, the last key before the end.

## 3. Runs

Passing:

| Run | Shows | Bounds |
|---|---|---|
| `spsc_ring` | FIFO refinement, no race, the inductive invariant, which has types and bounds in it (`TypeOK`, `RingBounds`), every item popped; a size asked by an owner is in range and errs on the safe side | capacity 2, indices modulo 4, two items: full, empty and wrapped in all combinations, a size taken at any moment |
| `worker_pool` | nothing lost, reordered or run twice; nothing freed in use; the rings are used as bounded FIFOs; items run; destroy returns | 2 workers, rings of 2, 3 requests, counter modulo 4: full rings, two items in a ring, a wrapped counter |
| `tpcc_serial` | stock quantities stay in 10..100; every order has the lines it counts; warehouses, districts and customers agree on the money taken | warehouses 1 and 257, orders (in warehouse 257, from the stock of 1) of two items, and of three lines for the same item, at the restock boundary, two payments, with and without rows |
| `tpcc_safety` | context lifetime, ok implies committed, an order id answered has its order, serializability | 2 requests of any kind, 1 fault of any kind |
| `tpcc_live` | every request is answered; ok: applied once; error: not applied | 3 writers, 1 fault: no context, a failing read or a refused commit |
| `tfb` | context lifetime, length of answers, updates lost only to a conflict or a fault, applied once and whole, `/db` and `/updates` answered | 2 requests of any kind, ids 2..3, up to 2 ids each, World with 1 or 2 rows, 1 fault (no failing submission) |
| `boot` | a server that serves has all items and the World table; without a failure it has every row the loader writes; loading again changes nothing; the socket stays open; disposal after exit; boot and shutdown end | 4 threads (the script's default), 3 item and 2 World batches, 1 warehouse, 2 districts, 4 faults or kills |
| `kv` | keys distinct and ordered, a range read is the range without its last row and with the row in front of it, counters read back | two rows of any tables, three of stock and new_order, ids 0, 1, 47 (`/`), 128 and the largest, names that are prefixes of each other |

Two requests suffice for one conflict and its retry; the third in `tpcc_live` lets
a retry conflict again. One fault is enough to reach every error path of a
handler; paths that need two faults are not explored. Left out of `tpcc_live`: an
unknown commit result, which has a run of its own below, a failing submission,
which leaves a request unanswered (see the list below), and the trap, after
which there is no server. `tfb` leaves out a failing submission for the same
reason. In `boot` two kills can hit the loader, and two threads fail to start,
in one behaviour. In `kv` the properties of keys are about two
rows; a range read is decided by the row, its neighbour and the last row of the range, so
three are enough.

Each of the following runs checks something a comment, document or test says,
and TLC shows a behaviour of the code that contradicts it. The quotations are in
`PROJECT.json`.

| Run | The code |
|---|---|
| `tpcc_retry_unknown` | a commit with unknown result is retried and applied twice |
| `tpcc_order_ids` | order ids come from a row NewOrder never updates |
| `tpcc_order_lines` | an order that takes the id of a longer one keeps that one's last lines: it has more lines than it counts |
| `boot_request` | the handlers are registered with a NULL FDB state; the first request that needs the database ends the process |

`Serializable` does not contradict these runs: it says that interleaving adds
nothing to what the transactions do when run alone, and `TpccSerial` states what the
code's transactions do, not what TPC-C asks for. Nor does `NewOrderAtomic`
contradict `tpcc_order_lines`: it says that the lines an order counts are there and
come from one NewOrder, and that no line is without an order, and leaves room for
lines beyond the count.

Seen in the source while modelling, followed by the model, and checked by no
run, because one statement shows it or it follows from a run above:

- `tpcc_new_order.h:44`: `ol_supply_w` is a `uint8_t`, `w_id` a `uint32_t`.
- `tpcc_new_order.c:163-167`: `s_order_cnt` and `s_ytd` are overwritten; the comment at
  162 says they are increased.
- `tpcc_payment.c:176`: payments of a customer within a second share a history row.
- `tpcc_read_txns.c:141-144`: Delivery commits an empty transaction and delivers nothing.
- `fdb_database.c:133-135`: with both selectors "last less than", StockLevel leaves out
  the last stock row of the warehouse, where the comment at `tpcc_read_txns.c:223` says "Range
  scan stock for this warehouse". (`RangeReadsOneEarly` says what is read.)
- `docker-entrypoint.sh:20`: the probe never finds its word, so the load is never skipped,
  where line 19 says "if not already loaded". (`ReloadChangesNothing`: it does no harm.)
- `tpcc_loader.c:128`: a failed commit of warehouses or districts goes unnoticed, and
  the server serves without the table.
- `tpcc_loader.c:249`: without its network thread the loader waits for ever in its first
  commit (`LoaderStuck`).
- `tpcc_read_txns.c:173`: `more` is ignored, so a partial range is counted as the whole.
- `tpcc_new_order.c:301`: `get_random_number(0, ...)` is a remainder by zero.
- `fdb_database.c:87`: when `submit_future` fails nobody notices; the request is never
  answered and its context leaks. (`FaultKinds` with "submit" shows it as a violation
  of `EveryRequestAnswered`.)
- `tpcc_payment.c:142`: Payment writes `d_next_o_id` as zero; the next NewOrder of the
  district takes order id 0 and sets the counter key back to 1.
- `worker_pool.c:58`: workers send no result back, though `worker_pool.h:18` says so.
- `spsc_ring.h:47`: a thread that owns neither end can get a size beyond the
  capacity. (`Callers` with "other" shows it as a violation of `SizeInBounds`.)
- `tfb_handlers.c:315`: `/updates` answers 200 with its numbers though the commit
  conflicted; `LostUpdateNeedsConflict` says that this is the only way besides a
  fault.
- `tfb_handlers.c:234`: `/queries` calls back the wrong function. `:41`: World ids
  are 2..10001, where `tfb_handlers.c:8` says 1-10000, and an `/updates` can add the
  last row. `:60`: the parameter name is skipped twice. `:386`: the numbers are
  1..10000, where the comment says 0-9999. `:415`: the comment says unique ids.
- `tpcc_harness.c:24`: `get_random_number(99)` is 1..99, where the comment says 0-99.
- `main.c:201`: the shutdown waits for event loops that nothing wakes.

**Fairness.** Ring: both threads go on with what they began, the worker polls for
ever, and by C11 7.17.3 it does not read an old `head` for ever (strong fairness of
`PopLoadNewestHead`, `WorkerPopItem`). Pool: workers are scheduled, handlers return,
a destroy once begun goes on. Handlers: FDB completes every future and runs every
callback. Boot: the script, the loader and the main thread go on, the cluster
answers every commit while the loader has its network thread, a thread leaves the
test of its loop; an event loop need not get an event, so `ShutdownEnds` has that as
its hypothesis. Nothing obliges requests to arrive or a stopped container to be
started. Deadlock checking is off where the system may stop: an idle server, a
destroyed pool, a bound reached.

## 4. Proofs

`SpscRingProofs`, for every capacity, every `Laps >= 2` and every set of items:
`Invariance` (`IInv`), `TypeCorrect`, `Bounded`, `RaceFree`, `Refinement`. The bound
on `head - tail` is not inductive, since the producer decides from an old `tail`.
`IInv` adds `Views` (producer's tail, tail, consumer's head and head lie in this
order within one capacity) and what each thread knows between its steps
(`ProducerState`, `ConsumerState`, `ContentsAreItems`). The assumption asks for less
than the code's power of two: the range of the index is a multiple of the capacity,
at least twice as large. `Refinement` maps every step of either thread to one of
`BoundedFifo` or none; a load of `tail` by the producer is `Look`, and what makes it
one is that the value loaded is never older than the one known (`NewerTail`).

Of the size: `OwnersSizeInBounds` and `OwnersSizeIsSafe`, on the condition
that only the producer and the consumer ask. `SizeInv` adds to `IInv` what the call in
progress knows: the caller's own index has not moved since its load, and the
other index has moved by no more than `IInv` allows.

`WorkerPoolProofs`, for any number of workers, any capacity and any requests:
`PoolTypeCorrect`, `DispatchExactlyOnce`, `DestroyIsSafe`, `PoolKeepsRings`. The
last is the link to the ring: every step of the pool is, on every ring, a step of
`BoundedFifo` or none, so the abstraction the pool is proved over is the one
`SpscRing` is proved to implement. `PoolInv` adds to the types that a ring and its
unseen pops fit the capacity (`Room`), that a worker about to run an item holds one
(`Handed`), and that the workers before the one destroy is at have exited
(`Joined`).

`BootProofs`, for every table size, batch size, number of threads and number of
faults: `CheckedTablesAreLoaded`, `LoadingIsIdempotent`, `ListenerStaysOpen`,
`NothingDisposedInUse`, `BootTypes`, `CleanBootIsComplete`. The first two need to
know what is in the store at every step of the loader. `LoaderInv` says that every
row holds the value its position in the draws gives it (`Contents`), that the
loader's draws are where its program counter puts them, and that the items before
its position are in (`Progress`). It rests on `LoaderAssumption`: both tables are
multiples of the batch size, as in the code. `ServerInv` ties every thread's state
to main's (`Phase`): not started, running, or stopped and joined. `BootInv` adds to
both which process the script has running (`Scripted`), that the loader is at the
start of a batch of its table (`Position`, the reason no batch runs past the end),
the World rows the loader has behind it whatever failed (`WorldSoFar`) and, while no
fault has happened, the rows of the unchecked tables (`Clean`). A server is only
started by a loader that came to its end, so what holds there holds while it serves.

`KvEncodingProofs`, for every even `Base` from 128 on, every set of rows and every
counter of `int32_t`: `OrderedKeys`, `RangesReadOneEarly`, `DistinctKeys`,
`CounterReadBack`. They are about pure functions, so the invariant is that only rows
of `Rows` and counters of `Counters` are written. The argument goes from one id
(four digits compare as the number) to ids in a row (the first differing byte lies
in the first differing id), to prefixes, of which none begins another; names are
told apart by their NULs. For the read of a range the order is shown to be
transitive (`LessTransitive`) and the ends to enclose the rows under their ids, but
for the one with the largest id (`RangeHolds`); what the selectors then pick
follows.

`TpccSerialProofs`, about the serial specification, for any rows and data set:
`StockStaysInRange`, stock stays in 10..100 for any orders with 2..10 pieces a line,
`OrdersStayWhole` and `PaymentsConserveMoney`. `NewOrderAtomic` has to survive order
ids that are taken again, by an order with more or with fewer lines: the new one
replaces the lines it has, and those it leaves behind are beyond its count. Its
invariant adds `OrderKeys`: the key of an order is made of its three ids, so that
two orders with the same lines are the same order, and an order not written keeps
all its lines. `MoneyConserved` writes a sum of amounts as the number of elements of
a set of cents (`Cents`), so that a payment adds a block of new elements and the
library's facts on cardinality apply; a sum by recursion would need induction over
data. The invariant, `Ledger`, says that the four books are finite, without negative
amounts and of equal size. No amount is bounded from above; the model's sums do not
wrap.

`TpccReadProofs` and `TpccHandlersProofs`, for any set of requests, rows and orders,
any number of retries and any number and kind of fault, failing submissions
included: `HandlersSerializable` (`TpccHandlers` implements `TpccSerial`),
`ContextsOutliveCallbacks`, `OkMeansCommitted`, `TypeCorrect`, `RetryIsTransparent`,
`HandlersKeepStore`, `AnsweredOrdersAreStored`. All rest on one inductive invariant,
`IInv`: a predicate on the state of each request, joined with the store.

- `Life` says which contexts, answers and futures a request may have at each
  callback.
- `Chain` says what the values a context carries from one callback to the next are
  worth. They are those of rows the transaction has read, under a read conflict,
  in its snapshot, and the buffered writes are those of a NewOrder or Payment
  computed from it.
- `Snapshot` says that until the commit is answered the snapshot and the store
  differ only at keys the transaction is known to have missed.

A commit without conflict has missed nothing it read, so its writes are those of
the transaction run on the store as it is: that is the step of `TpccSerial`. A
retry starts a new transaction and loses what `Chain` knew, which is why the
callbacks must read everything again. `TpccReadProofs` holds the invariant, the
entry points and the read callbacks; `TpccHandlersProofs` the commits, retries, the
induction and the theorems. The facts about Fdb used are those of the module
`Fdb`: snapshot reads, and a commit that is refused when a key read was written.
`RowsAssumption` gives the code's ranges of the parameters: an order has at least one
line of 2..10 pieces, and Payment takes warehouse 1, which exists.

`RetryIsTransparent` is `AppliedExactlyOnce` under the hypothesis that no commit ends
with an unknown result (`"unknown" \notin FaultKinds`). The hypothesis is needed: the
run `tpcc_retry_unknown` violates the same property without it. Its invariant, `Once`,
says that before the answer a request is in the store exactly when its commit
future says "ok". A lost submission is covered: the request is never answered,
and may be in the store or not.

`HandlersKeepStore` carries the three theorems about `TpccSerial` over to the
handlers by `HandlersSerializable`: whatever the interleaving, the faults and the
retries, stock stays in range, orders have the lines they count and money is
conserved. An unknown result is no exception: a payment applied twice is booked
twice everywhere. The lemmas before it (`SameKeys` to `SameProperties`) say that the
two instances of `TpccSerial` are the same.

`AnsweredOrdersAreStored`: under the id a NewOrder is answered with the store has an
order with the lines it counts. The answer is made of what the context holds after
the commit, and a retry may have read another id than the attempt before.
`OrdersStored` follows the id: a NewOrder that waits for its commit has its writes
buffered, under the id in its context (`Chain`); once the commit is "ok" that order
is in the store; and commits only add keys. That the order has its lines comes from
`HandlersKeepStore`. As ids repeat (`tpcc_order_ids`), it may be a later order than
the one answered.

`TfbHandlersProofs`, for any set of requests, any World size and any number and kind
of fault: `TfbContextsOutliveCallbacks`, `TfbAppliedAtMostOnce`, `TfbAnswersInFull`,
`TfbTypes`, `TfbLostUpdateNeedsConflict`, `TfbChangedRowsReported`. `IInv` relates
the numbers read to the ids drawn at each callback, and an applied commit to a
future that is no longer pending. It is enough for the first three. The others
relate requests to each other and to the store, and follow from `UInv`:

- `UpdInv` says that only the commit callback has buffered writes, that they are
  those of the rows to be answered, that the keys read are among them, and that
  a commit refused without a fault had a conflict.
- `Seen` says that what a transaction missed was written by another request
  (`OtherWrote`), which stays true once that request has been answered. A lost update
  is explained by it.
- `Stored` says that every row is as loaded or is the last one an applied request
  gives for its id; with ids drawn twice, the last number is the one stored.

Only model-checked, because liveness under fairness is out of the prover's reach:
`EventuallyPopped`, `EventuallyRun`, `DestroyReturns`, `EveryRequestAnswered`,
`EveryTfbRequestAnswered`, `BootEnds`, `ShutdownEnds`. The properties of the four violated
runs have no theorem; `AppliedExactlyOnce` has one under the hypothesis above.

## 5. Not modelled

- `thread.c`, `global_data.h`: main calls only `cleanup_fdb_global`, which finds an
  `fdb_global` of its own, never initialised, and does nothing. `list.h`: its queue is
  called by no file of the build. `SS_OORDER_CID`: no key is built from it.
- Options and `on_accept` of `main.c`: they hand values and connections on. `-a0` (no
  threads) is excluded by `ServerAssumption`; a `calloc` of the thread array that
  fails is not modelled.
- `nurand`, the weights of the harness and the shared seeds: they decide how often a
  parameter or a kind of request comes up; the models draw freely.
- JSON, headers, logging and the remaining helpers of `utility.c`.
- FDB callbacks run on the thread of `fdb_run_network` and use h2o requests of other
  threads; clients may disconnect while a future is outstanding. Both end
  inside h2o.
- Sums of money are unbounded in the model; `c_payment_cnt` wraps as `int16_t`.
