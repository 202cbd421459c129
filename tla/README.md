# A TLA+ model of adbc-spanner

adbc-spanner is an ADBC driver for Google Cloud Spanner, written in Rust. The ADBC calls are
synchronous; each one bridges into the asynchronous Spanner client. This directory models the parts
where threads, failures and retries meet, checks them with TLC on small instances, and proves the
central results with TLAPS for instances of any size.

`PROJECT.json` lists the components, the runs, the source lines behind every definition, the
hazards, the findings and the theorems in machine-readable form. Paths below are relative to the
repository (`src/...`, `docs/...`).

## 1. The system

| Component | Source | State | Operations | What is hard about it |
|---|---|---|---|---|
| Shared transaction state | `src/connection/txn.rs` | mode and `ManualTxn` behind one mutex | kind check, buffer, start a snapshot, take, restore, drain | one lock, but several acquisitions per call; statements run concurrently |
| Connection | `src/connection.rs` | the shared state, the read-only flag, options, a cancel slot | commit, rollback, set_option, new_statement, metadata calls | a commit fails, or its outcome is unknown, while statements go on |
| Commit execution | `src/connection/exec.rs`, `src/timeout.rs` | none | one read/write or write-only transaction | timeouts, cancels, replays |
| Statement | `src/statement.rs` | SQL, bound rows, ingest target, config, a cancel slot | DML, THEN RETURN, partitioned DML, query, DDL, partitions | checks made before an unlock and used after it |
| Bulk ingest | `src/statement/ingest.rs` | none | DDL, build, buffer or commit in chunks, bisect, BatchWrite | partial failure, exact row accounting, budgets |
| Cancellation | `src/runtime.rs` | a slot with the current signal; a latched flag and its waiters | begin_operation, signal, cancelled | lost wake-ups, a stale or a stray cancel |
| Streamed results | `src/runtime.rs`, `src/conversion.rs` | a task, a channel of one chunk, a reader | prefetch, next, drop | a cancel, an error, a drop against fetch and delivery |
| Driver and database | `src/driver.rs`, `src/driver/*` | options, the cached client stack | set_option, new_connection | a cache that must follow the options; replayed options |
| Options | `src/options.rs`, `request.rs`, `staleness.rs`, `directed_read.rs`, `query_options.rs`, `retry.rs` | values, some shared, some inherited by statements | set, get, unset | grammars and ranges; which state is shared and which copied |
| SQL text | `src/sql.rs` | none | split, classify, find parameters | literals and comments |
| Binding, conversion | `src/bind.rs`, `conversion.rs`, `nested.rs` | a cursor over bound rows, a chunk | Arrow to Spanner and back | numeric edges; empty result sets and budgets |
| Metadata | `src/metadata.rs`, `objects.rs`, `statistics.rs`, `info.rs` | results of concurrent queries | queries and their assembly | a schema that changes meanwhile, results in any order, patterns |
| C ABI | `src/ffi/*` | handles, exported streams, errors | init, dispatch, cancel, release, get_next, get_option | cancel against release, poisoning, ownership, buffer lengths |
| Python package | `python/spanner_adbc` | none | forwards to the driver manager | nothing |

How they interact. A connection and the statements it creates share one `TxnState`. In autocommit
mode a statement commits by itself. In manual mode it adds to the shared buffer, or reads the shared
snapshot, and the connection commits or discards what is there. Every call that waits on an RPC
waits on the cancel signal of its own operation too. A query hands its result set to a background
task that fetches ahead of the reader. The C ABI serialises the calls on one object, except cancel.

What correctness means, component by component:

* Transactions: buffered work is never lost, never applied again after a confirmed commit and never
  revived after a rollback. The first statement fixes the kind of a transaction, and all its queries
  read one snapshot. A read-only connection writes nothing.
* Streams: chunks arrive once and in order. A cancel is neither lost nor leaked. An error is never
  mistaken for the end of the result. No task is left behind.
* Ingest: a failed ingest reports exactly the rows it left in the table, and sends no row twice.
* Statements: a reused handle runs what was configured last, and applies bound rows once.
* Metadata and statistics: the answer is that of one version of the schema and the data.
* Database and options: what is reported, what is inherited and what is applied agree.
* C ABI: an object is freed exactly once, a poisoned one refuses calls, nothing is written past a
  buffer, and nothing that changes hands is leaked or released twice.
* Pure algorithms: they agree with a reference definition.

## 2. The modules

| Module | What it is | Code |
|---|---|---|
| `TxnState` | the values and methods of the shared state, as operators | `connection/txn.rs` |
| `Transactions` | one connection, its statements and Spanner's commits | `connection.rs`, `connection/exec.rs`, `statement.rs`, `statement/ingest.rs`, `timeout.rs` |
| `WriteLedger` | what manual transactions promise, without locks, threads or RPCs | abstract |
| `Ingest` | one bulk ingest, from its DDL to its last chunk | `statement/ingest.rs`, `connection/exec.rs` |
| `StatementHandle` | a handle reused across calls | `statement.rs` |
| `BoundQuery` | a query per bound row, and the cut into chunks | `statement.rs`, `bind.rs`, `conversion.rs` |
| `RowStream` | prefetch task, reader, cancel signal | `runtime.rs`, `conversion.rs` |
| `Cancellation` | a cancel slot and the operations that use it | `runtime.rs`, `connection.rs` |
| `Database` | options, URI, credentials and the cached stack | `driver.rs`, `driver/*`, `ffi/handle.rs`, `ffi/options.rs` |
| `Options` | the options of a connection and its statements | `options.rs`, `staleness.rs`, `request.rs`, `retry.rs`, `timeout.rs`, `query_options.rs` |
| `Objects` | get_objects | `objects.rs`, `metadata.rs`, `connection.rs` |
| `Statistics` | get_statistics | `statistics.rs`, `metadata.rs`, `connection.rs` |
| `FfiHandle` | the objects behind the C handles, and the threads that call them | `ffi/handle.rs`, `ffi/options.rs`, `ffi/database.rs`, `ffi/connection.rs`, `ffi/statement.rs` |
| `FfiTransfer` | what changes hands in a C call | `ffi/statement.rs`, `ffi/connection.rs`, `ffi/import.rs`, `ffi/guard.rs` |
| `FfiError` | errors and exported streams | `error.rs`, `ffi/error.rs`, `ffi/stream.rs` |
| `OptionBuffer` | reading an option into the host's buffer | `ffi/options.rs`, `ffi/guard.rs` |
| `SqlText` | the SQL scanner and parameter resolution | `sql.rs`, `bind.rs` |
| `LikePattern` | the LIKE matcher and its push-down | `metadata.rs`, `objects.rs` |
| `Values` | timestamps, dates and decimals, bound and read back | `bind.rs`, `conversion.rs` |
| `MC...` | instances of these for TLC | |
| `TransactionsInvariant` | lemmas about buffering and draining; the inductive invariant; the steps of a statement preserve it | |
| `TransactionsConnection` | the steps of the connection preserve it | |
| `TransactionsProofs` | the steps of Spanner preserve it; the safety theorems | |
| `TransactionsKinds` | the kind and the snapshot of a transaction, the read-only connection | |
| `TransactionsRefinement` | `Transactions` implements `WriteLedger` | |
| `RowStreamProofs` | the safety of a streamed result | |
| `CancellationProofs` | a cancel reaches the operation it was aimed at and no other | |
| `StatementProofs` | the destination, the bound rows and the writes of a reused handle | |

How they compose. `Transactions` has the interleavings of several statements over the shared state
and takes an autocommit ingest as one commit; `Ingest` opens that call up and has the other threads
as steps that change mode and kind. `StatementHandle` decides where a call goes and takes it as one
step. `BoundQuery` produces the chunks that `RowStream` carries: an empty chunk after the first ends
the stream, which is why `BoundAnswers` is about empty result sets. `RowStream` and `Cancellation`
share the signal: the former has a reader that outlives its operation, the latter the operations.
`Objects` and `Statistics` take a name pattern as the set of names it matches, which is what
`LikePattern` shows. `Database` and `FfiHandle` split an object of the C ABI: the former has what its
options mean, the latter who may touch it when.

Operators with `Mutant:` in their comment are wrong variants of the definition below them. No
specification uses them. Putting one in its definition's place breaks a property, which shows that
the property depends on that code.

### TxnState and Transactions

`txn` is the `ManualTxn` of the code: Unset, Read with the number of a snapshot, or Dml with two
sequences of work items. A work item stands for one buffered DML statement or mutation and is a
fresh number, so that applying it twice or losing it can be seen. `autocommit`, `readOnly`, `pc` and
`work` are the mode, the shared atomic, where each thread is and what it holds in local variables.
`durable`, `twice` and `orphans` are Spanner's side. `acked`, `ambiguous`, `accepted`, `rolledBack`,
`reads` and `manualDdl` are history variables that only the properties read.

A step is one acquisition of the lock, one load of the flag or one event of an RPC. Connection and
statement methods take `&mut self`, so each object is one thread:

* `commit`, `apply_manual_txn`, the RPC, `commit_finish` are `SpannerConnection::commit`. It clones
  the transaction under the lock, sends without it, and drains under it again.
* `enter_autocommit`, `apply_manual_txn`, the RPC, and on failure `restore_manual`, are the toggle.
* `run_dml` with `run_or_buffer` or `run_unbufferable` is DML. The read-only guard and the mode check
  are separate steps, as in the code.
* `ensure_query_allowed`, `manual_read_lookup`, `manual_read_install` are a query. The snapshot is
  built between the last two, without the lock.
* `run_ingest`, `run_bound_ingest`, `ingest_ddl`, `ingest_mode_check`, `ingest_buffer` are an ingest.
* `commit_lands`, `commit_replayed`, `commit_confirmed`, `commit_rejected`, `commit_abandoned` and
  `orphan_lands` are a commit as the driver can see it. An abandoned commit (timeout, cancel, broken
  transport) may land later. Only a commit with DML is replayed, because a mutations-only commit is
  replay-protected.

A call that is refused before it changes anything is a stuttering step and has no action.

### RowStream

The flag of a signal, the registration of a waiter and its wake-up are separate steps, as they are in
`CancelSignal`. A biased `select!` polls `cancelled()` first. Its first poll loads the flag,
registers and loads it again. A later poll resumes at `notified.await` and loads nothing until it is
notified. Task and reader both wait this way. The stream belongs to operation 1; further operations
on the same statement replace the signal that `cancel()` reaches. The source may yield a chunk, end,
fail (or time out), or never answer. `asked` and `late` are history variables.

### Ingest

One bulk ingest, from the guards to the result. `frames` is the recursion of `write_mutation_range`
as a stack of activations, `batch` the BatchWrite stream of the current chunk, and
`chunk_start`, `row_index`, `budget` and `total` are the locals of the chunk loop. `landed` is what
Spanner holds. Other threads change mode and kind between the two lock acquisitions of a manual
ingest (`other_threads`). Sums saturate as in the code. A commit is accepted, rejected, or goes
unanswered: the deadline or a cancel drops it, or the transport breaks, and it may have landed. A
schema change that failed may have been carried out in part, and Spanner may finish it after the
driver stopped waiting; the probe that follows sees the table either way.

### StatementHandle, BoundQuery, SqlText and Values

`StatementHandle` takes a call as one step. A SQL text is the sequence of the kinds of its
statements, which is what `SqlText` shows the scanner to find. `out` records what an execution did,
with `latest` and `used` as history. `BoundQuery` has the lazy cursor over bound batches, the
snapshot and `pull_chunk` with its two budgets. `SqlText` types every text up to a length, one
character or word at a time, and compares the scanner with a reference defined on positions.
`Values` splits and formats timestamps, dates and decimals digit by digit and parses them back, over
integers scaled down so that every overflow of the real ones has its counterpart.

### Database, Options, Objects, Statistics and LikePattern

`Database` keeps options in the buffer of the C ABI until Init, then in the fields; `cached` is the
client stack, `host` the environment variable. A URI is the record of what its parser tells apart. A
setter yields the fields as it leaves them, so that what a refused URI had already written would
stay. `Options` has one key for each way a value is parsed; `flags` and `counts` are the two shared
cells, named for the object they were made for. Integers that become an f64 are rounded to the
numbers one holds, on a small scale (exact up to `Exact`, then every second, then every fourth), and
those of an i64 end at `MaxI64`; a read bound that is out of the client's range is refused when a
transaction begins, not when it is set. `Objects` and `Statistics` run their queries in any order
while `ddl` and `change` alter the schema; a count is the table, column and version that was counted,
so a mix-up shows. `LikePattern` has one action per turn of the matcher's loop.

### FfiHandle, FfiTransfer, FfiError and OptionBuffer

`FfiHandle` has threads that call the entry points of a database, a connection and a statement:
reading the handle, taking the reference and the lock, running, and returning are separate steps, as
are the two steps of installing a cancel handle. An object has two locks: `lock` is that of its
state, `guard` that of its cancel handle, which Cancel holds during `try_cancel` and Init takes while
it holds the state locks. A panic is an outcome of running driver code. `FfiTransfer` counts what the
driver took and did not release; a bound stream is read batch by batch and may fail at any of them.
`FfiError` has `AdbcError` structs of both revisions, with the sentinel value of the vendor code;
`heap` is moved by what each release frees and each write allocates, so it parts from what the
structs hold when one of them is missing. `OptionBuffer` has the host's memory
cell by cell.

## 3. The runs

Components that share no variable are checked side by side in one run: the variable `part` of such an
MC module says which of them a behaviour is of, and the others rest in one state. Their invariants
are restated there as `part = "..." => ...`.

| Run | Instance | States | Shows |
|---|---|---|---|
| `txn_writes` | 2 statements, DML, ingest, read-only; 2 work items, 2 per call | 507,844 | no lost, revived or repeated work; `WriteLedger` is implemented |
| `txn_kinds` | 2 statements, every call but read-only; 1 work item, 3 snapshots | 155,830 | one kind and one snapshot per transaction |
| `stream` | `RowStream`: 4 chunks, 2 operations. `Cancellation`: 2 callers, 5 signals. `BoundQuery`: up to 3 bound rows, 3 rows each. `Statistics`: 3 versions, 3 tables, 2 scans at once. `OptionBuffer`: values of up to 3 bytes | 87,272 | order, bounds, cancel, one version; waits and calls end |
| `ingest` | 7 shapes of bound data, 4 modes, budgets of 6 mutations and 6 bytes, 1 disturbance | 168,889 | row accounting, budgets, the target's contract; the bisection ends |
| `statement` | `StatementHandle`: texts of up to 2 statements, 5 bindings. `SqlText`: 4 alphabets of 5 to 8 characters, texts of up to 7. `Values`: 3 digits per second, texts of up to 6 | 733,398 | the handle's reuse; the scanner and the conversions against references |
| `database` | `Database`: 16 options around a URI and 9 around credentials. `Options`: 1 statement, 22 values, 2 sets. `Objects`: 4 catalogs, 7 filters, 1 DDL. `LikePattern`: patterns of up to 4, values of up to 3 | 531,886 | options, credentials, the cached stack, get_objects, LIKE |
| `ffi` | `FfiHandle`: 2 threads, 3 handles. `FfiTransfer`: 1 batch. `FfiError`: 2 codes, one of them the sentinel | 506,495 | lifetimes, locks, panics, ownership, error structs |
| `txn_ddl`, `stream_clean_end`, `stream_task_end`, `ingest_batch_errors`, `database_replay` | small | violated | see the findings |

What the properties say:

* `txn_writes`, `txn_kinds`: `NoLostWork`, `TwiceOnlyIfAmbiguous`, `RolledBackStaysOut` and
  `ImplementsLedger` follow every buffered item to its end. `NoCommitWhileReadOnly`,
  `OneSnapshotPerTransaction` and `KindFixed` are about checks made under one lock acquisition and
  used under the next, and about a kind that ends with the last of its work.
* `stream`: `InOrder`, `CutShortOnlyInCancelRace` and `NextReturns` are about chunks; `NoStrayCancel`,
  `CancelNotMasked` and `CancelReaches` about a cancel that must reach its operation and no other,
  wherever in `cancelled()` it lands; `DropEndsTask` about the task left behind. `BoundAnswers` is
  about bound queries: all rows, in bind order, at one version, within the budget. `StatisticsExact`
  is about get_statistics, `BufferContract` about a host that reads an option while another thread
  sets it. `CallsEnd` is the liveness of these three.
* `ingest`: `ReportIsExact` compares what the call reports with what is in the table, on both write
  paths, and says that no row is sent again once applied. `ChunksCutRight` and `TargetSafe` are what
  the comments and docs promise of the budgets and of the target table. `BisectionEnds` says that
  every range of the recursion has a row, and half the rows of its caller's at most, so that the
  recursion ends also where a single row is too large.
* `statement`: `RunsLatestDestination`, `RowsAppliedOnce` and `WritesAsAllowed` need several calls to
  break. `ScannerAgrees` compares the scanner with a definition by positions; `TextsEquivalent` says
  that hints, comments and a second scan change nothing; `ValuesRoundTrip` is about conversions.
* `database`: `OptionsApplyWhole` compares each call with what the docs say it sets: every field as
  its last writer left it, or nothing at all. `ConnectsAsConfigured` is about every order of options
  and connections, `OptionsMeanWhatTheySay` and `OptionsShared` about values read back through every
  type, copies and shared cells.
  `OneSnapshot` compares the result of get_objects with one version of the schema, `FiltersAgree` the
  client's matcher with LIKE and with what is pushed down to Spanner.
* `ffi`: `ObjectsOutliveCalls`, `PoisonedRunsNothing` and `CancelAlwaysPossible` are about threads:
  a cancel waits for nothing but another cancel, and of the calls in flight one can always go on.
  `TransfersBalanced` and `TransfersAtomic` are about what a call takes and gives, failed binds
  included, `ErrorsIntact` about the error structs.

Several of these are conjunctions: the parts are defined, each with its comment, in the component's
module just above.

The bounds. Two statements are enough for every race over the shared state: one acts, the other
interferes, and the connection commits. Two work items let a commit carry one while another is
buffered behind it. `MaxBatch = 2` and the value 0 cover batches with several items and with none.
Three snapshots let both statements build one and a later transaction build another. Four chunks fill
every place a chunk can be in at once (delivered, first or in the channel, held by the task) and leave
one to fetch. Two operations give a cancel aimed at the stream and one aimed past it. The proofs
remove these bounds. Five signals give each of two callers two operations after the slot's first
signal. The ingest shapes reach a chunk cut by each budget, a row over the budget, an empty batch
between others, and a chunk that Spanner finds too large and the driver bisects. Two
threads race over three handles; a third would only queue for the same lock. Seven characters hold a
literal with an escape and a separator on both sides. Three scans with a window of two make one wait
behind another that ended early. The values of `Values` keep the order of the real limits: the
nanoseconds of an i64 end before the years of four digits, these before chrono's range, and that
before the microseconds of an i64. Statements and threads are symmetric where a run says SYMMETRY: no
definition tells them apart, and such a run has no liveness property.

Deadlock is checked in every run except `statement`, where the texts that `SqlText` and `Values` type
end at their longest. In `stream` and `database` a call that is over stays as it is by a step of its
own, so a deadlock there is a component that is stuck before its end.

Fairness. In `RowStream` and `Cancellation` it is assumed that the runtime polls a task that was
woken, that `block_on` polls its own future, and that a `cancel()` that latched the flag goes on to
wake the waiters. A caller that wants the slot's lock gets it in the end (strong fairness): the
canceller holds it for a few instructions. Nothing is assumed of the source: `CancelReaches` and
`DropEndsTask` hold with a fetch that hangs. `NextReturns` alone has as its hypothesis that a fetch
ends, which `spanner.rpc.timeout_seconds.fetch` guarantees. In `BoundQuery` and `Statistics` the
thread of the call runs and every RPC ends, by its answer or its deadline; a fault may happen and
need not. In `OptionBuffer` the driver returns and the host goes on with the protocol.
Nothing is assumed of other clients, other threads or the application. `Transactions`, `Ingest`,
`StatementHandle`, `Database`, `Options`, `Objects` and the C ABI are checked for safety only. That
an ingest ends follows from `BisectionEnds` where every RPC does; `CancelWaitsForCancelsOnly` and
`NoLockCycle`, parts of `CancelAlwaysPossible`, say which steps are enabled whatever other threads
hold.

## 4. What is proved

The theorems hold for any set of statements or callers, any subset of the calls, results of any
length, any number of operations, and any texts and bound data. The assumptions are that the connection's thread is not a
statement, that the calls are among the known ones, that the bounds are natural numbers (positive
ones in `RowStream` and `Cancellation`), that a text is a sequence of kinds of statements and bound
data one of row counts (`StatementHandle`) and, for `Cancellation`, that operations on one slot do not
overlap, which is what a statement's `&mut self` and the C ABI's lock guarantee.

| Theorem | Property |
|---|---|
| `TypeCorrect` | `TypeOK` of `Transactions` |
| `AutocommitModeIsUnset` | `AutocommitUnset`: a failed toggle restores over an Unset state |
| `CommitAppliesAPrefix` | `AppliedPrefix`: what a commit carries is the head of the buffer until it is drained |
| `NoWorkIsLost` | `NoLostWork` |
| `AppliedTwiceOnlyIfAmbiguous` | `TwiceOnlyIfAmbiguous` |
| `RolledBackWorkStaysOut` | `RolledBackStaysOut` |
| `TransactionsImplementLedger` | `ImplementsLedger` |
| `DmlTransactionHasWork` | `DmlHasWork` |
| `TransactionReadsOneSnapshot` | `OneSnapshotPerTransaction` |
| `ReadOnlyCommitsNothing` | `NoCommitWhileReadOnly` |
| `KindIsFixed` | `KindFixed` (an action property; `DmlHasWork` is its second half) |
| `StreamTypeCorrect` | `TypeOK` of `RowStream` |
| `ChunksInOrder` | `InOrder` |
| `PrefetchStaysBounded` | `PrefetchBounded` |
| `CancelNeverStray` | `NoStrayCancel` |
| `CleanEndCutsOnlyInRace` | `CutShortOnlyInCancelRace` |
| `CancelMasksNothing` | `CancelNotMasked` (an action property) |
| `OperationWaitsOnItsOwn` | `WaitsOnItsOwn` |
| `OnlyAimedAtIsCancelled` | `CancelledWasAimedAt` |
| `LatestDestinationRuns` | `RunsLatestDestination` |
| `BoundRowsRunOnce` | `RowsAppliedOnce` |
| `OnlyAllowedWrites` | `WritesAsAllowed` |

**Transactions.** The inductive invariant `IInv` adds to the properties what keeps work items apart:

* `Private`: what a statement holds is its own, and not in the database before its commit lands.
* `Buffered`: what is buffered was accepted, was not rolled back, and, as far as no commit in
  progress carries it, was not acknowledged.
* `Applying`: what the connection carries was not acknowledged before its confirmation, and was after.
* `Doubt`: what an abandoned commit may still apply is known to be ambiguous.
* `Known`, `Control`, `Shapes`: items were issued, and a thread holds what its place in the code says.

`AppliedPrefix` is the heart of it. `finish_commit` drains by length. That removes the applied items
and no others only because, while a commit runs, statements append and nobody else changes the
buffer. `NoLostWork` and `RolledBackStaysOut` do not survive the step `commit_finish` without it, and
it is not inductive without `Control` (the connection is one thread). The lemmas
at the head of `TransactionsInvariant` say what buffering and draining do to the set of items and to
the head of the buffer.

`TransactionsKinds` adds `DmlHasWork`, `OneSnapshotPerTransaction`, `NoCommitWhileReadOnly` and
`Taken` (a statement that read the snapshot under the lock holds the one that is installed, or none).
`Taken` is what a query needs between its two lock acquisitions.

The refinement maps `pending` to the buffered or taken work that is not acknowledged, `committing` to
what the connection carries, `committed` to the acknowledged work of manual transactions. A commit
or toggle begins at `commit` or `enter_autocommit`, settles at `commit_confirmed` (or at once, when
there is nothing to write) and fails where the error reaches its caller. Every other step of
`Transactions` except buffering and rollback is invisible.

**RowStream.** The invariant adds to the properties:

* `Ledger`: the chunks delivered, in the reader, in the channel and in the task's hands are
  consecutive, and the next one to fetch follows them. This is what makes `InOrder` inductive.
* `Endings`: a task whose reader still listens ended because the source was drained and all of it is
  on its way, because of a cancel, or with an error in the channel.
* `Signals`: the stream's signal is latched exactly when `cancel()` was called in time.
* `Places`: where the two threads can be, and what is left once the reader is done.
* `LateStops`: a `next` that began after a cancel gets no further than its first load of the flag.

**Cancellation.** `Types`, `Slot` (the slot holds the signal minted last), `Owners` (an operation in
flight owns it, since operations do not overlap) and `Aimed` (when that signal is or will be latched,
the cancel was aimed at the operation in flight).

**StatementHandle.** `Destination`: a query and a target exclude each other, and the one that is set
is the one configured last. `UsedHasNoRows`: what an earlier execution used and left on the handle is
at most the schema of an empty stream, never a row; `NoRows` then makes such data count for nothing
in the next execution. `BatchIsDml` is why the first statement's classification carries over to the
others of a batch.

Only model-checked: everything about the other modules. Liveness under fairness is out of the
prover's reach. So is what a recursive function computes for every input, by induction over data: the
scanner, the matcher, the digits and the folds of `Ingest` and `BoundQuery` are compared with their
references on every input up to the bounds.

## 5. Findings

* **A cancelled stream can look complete** (`stream_clean_end`, `src/runtime.rs:276`). `signal()`
  stores the flag and then wakes the waiters. If the task enters its second `select!` in between, it
  sees the flag and returns, which closes the channel without an error. A consumer already waiting in
  `recv` is woken by the close, has not been notified, and returns a clean end of a truncated result.
  The comment on `CancelSlot` promises that a cancelled stream keeps failing with `Cancelled`.
  `CutShortOnlyInCancelRace` shows that this race is the only way to a truncated clean end: the
  cancel must arrive during that very `next`.
* **A BatchWrite error can forget committed rows** (`ingest_batch_errors`,
  `src/statement/ingest.rs:474`). The count is put into the error inside the future that a timeout or
  a cancel drops, so the bare error goes out although earlier chunks are in the table.
* **A cancel does not end a task that forwards an error** (`stream_task_end`, `src/runtime.rs:267`).
  That send watches no signal, so with a full channel the task waits for a consumer that may not
  drain, against the comment on `spawn_prefetch`. Dropping the reader still ends it (`DropEndsTask`).
* **The replay of buffered options is not the sequence of calls** (`database_replay`,
  `src/ffi/handle.rs:47`). A repeated key is written at its first position: `endpoint, uri, endpoint`
  ends with the URI's endpoint, where a live database has the last one set.
* **A comment says DDL is buffered** (`txn_ddl`, `src/connection/txn.rs:101`). It never is.

Smaller divergences between comments and code, met while modelling; the modules have the behaviour of
the code, and no run is devoted to them:

* `src/connection.rs:352`: connection methods that take `&self` read the slot's current signal again
  after minting their own, so two that overlap through the Rust API share the later signal. The C ABI
  serialises them; `Cancellation` with `Overlap` TRUE shows it.
* `src/driver/uri.rs:50`: an option carried by the URI and unset later comes back when a dumped
  configuration is replayed.
* `src/ffi/database.rs:64`: a panic in database_init poisons the mutex of the process-wide driver, so
  containment is not per object there (`driverPoisoned` in `FfiHandle`).
* `src/ffi/handle.rs:159`: a panic can unwind past the guard of a second object, whose own `poisoned`
  flag stays clear.
* `src/statement/ingest.rs:581`: "Either way the count is exact" does not hold when the transport
  breaks after the commit was sent: the error is neither Timeout nor Cancelled, so it is not flagged
  as unknown, and the chunk may be in the table. `ReportIsExact` takes such an error as it is: the
  rows it counts are there, and at most those of the chunk are there uncounted.
* `src/statement/ingest.rs:200`: a create whose DDL timed out and landed after all reports
  AlreadyExists, for the table it made.
* `src/retry.rs:100`: "Values are stored exactly as configured" is true of an integer up to 2^53; a
  larger one is stored as the nearest f64 and reads back as that, and one at the end of i64 does not
  read back as an integer at all (`Kept`, a part of `OptionsMeanWhatTheySay`).
* `src/statement/ingest.rs:108`: an expired deadline of an append is probed and comes out as
  AlreadyExists or NotFound.
* `src/statement.rs:289`: with rows bound, a text that mixes DML and queries is buffered unsplit, past
  the check for such batches (`BufferedTextIsDml`, a part of `WritesAsAllowed`, is therefore about
  texts without bound rows).
* `src/statement.rs:698`: a query with an empty stream bound leaves the stream's schema on the handle.
* `src/statement.rs:694`: a bound query refused by the transaction's kind keeps its rows.
* `src/request.rs:344`: a refused commit delay is reported under the name of the staleness option.

## 6. Not modelled, and why

Simplifications. `Transactions` takes an autocommit ingest as one commit; `Ingest` opens it. Request
settings and error texts are left out. In `RowStream` the content of a chunk is its position, and a
chunk that fails to convert counts as delivered. Spanner's own concurrency control is reduced to the
outcome of a commit. Row counts in `StatementHandle` are those of the bound data. Characters and
numbers are few, as the bounds say.

* Building Arrow arrays and mapping Spanner types to Arrow types (`conversion.rs`, `nested.rs`): one
  value at a time, no state; a model would repeat the code.
* The grammar of `directed_read.rs`, percent-decoding of URIs: texts to records, no state.
* `apply_to_*` and the retry and backoff policy objects: they copy settings onto the builders of the
  client library, which has the retry loop.
* Partition tokens, `read_partition`, `get_table_schema`, `get_info`, `get_table_types`,
  `get_parameter_schema` and the plan queries behind `execute_schema`: a single read or an encoding.
* Reading key files and building credentials: I/O in a third-party library.
* The vtable, the string helpers and the struct declarations of the C ABI, option names, error texts,
  the Python package: declarations and wording.

## 7. Running it

    tlc -workers 2 -config MCTransactions_writes.cfg MCTransactions
    tlapm TransactionsRefinement.tla

Each run takes less than three minutes with two workers, and each proof module at most a few
minutes.
