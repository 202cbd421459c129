------------------------------- MODULE Ingest -------------------------------
(***************************************************************************)
(* One bulk ingest of a statement (src/statement/ingest.rs): the table     *)
(* DDL, the existence probe and the error remaps, the chunk budget and the *)
(* chunk loop, the bisection of a chunk that Spanner finds too large, and  *)
(* the BatchWrite path.  Other threads may change the transaction mode and *)
(* kind of the connection between the lock acquisitions of the call.       *)
(*                                                                         *)
(* A bound row is its position in the flattened row sequence.  The         *)
(* recursion of write_mutation_range is the stack "frames" of its          *)
(* activations.  An error is its status, whether it is Spanner's mutation  *)
(* limit, the two facts note_rows_already_committed puts in its text, and  *)
(* what became of the answer to the commit it is about.                    *)
(***************************************************************************)
EXTENDS Integers, Sequences, FiniteSets, Functions

CONSTANTS
  BoundData,      \* the bound data tried: sequences of [rows, columns, size] batches
  Modes,          \* the ingest modes tried
  MutationLimit,  \* INGEST_CHUNK_MUTATION_LIMIT
  ByteBudget,     \* INGEST_CHUNK_BYTE_BUDGET
  U64Max,         \* where saturating_add saturates
  ServerLimit,    \* Spanner's cap on the mutations of one commit
  IndexEntries,   \* mutations a row costs on top of its columns
  MaxDisturb      \* bound: changes of the transaction by other threads

AllModes == {"append", "create", "create_append", "replace"}

ASSUME LimitsAssumption ==
  /\ Modes \subseteq AllModes
  /\ {MutationLimit, ByteBudget, U64Max, ServerLimit, IndexEntries, MaxDisturb} \subseteq Nat
  /\ MutationLimit < U64Max /\ ByteBudget < U64Max

VARIABLES
  call,         \* what the application asked for, and the faults of its data
  bound,        \* SpannerStatement::bound
  autocommit, kind, buffered,       \* the shared transaction
  pc,
  row_index, chunk_start, budget, total,  \* locals of run_ingest_mutations
  frames, ret,  \* activations of write_mutation_range, and what the last one returned
  batch,        \* the BatchWrite stream of the current chunk
  result,       \* what the call returned
  table,        \* whether the target table exists
  landed,       \* rows in the target table, from this ingest
  twice,        \* a row was applied twice
  disturbed     \* changes other threads made to the transaction since the call began

txnVars    == <<autocommit, kind, buffered>>
loopVars   == <<row_index, chunk_start, budget, total>>
tableVars  == <<table, landed, twice>>
vars == <<call, bound, txnVars, pc, loopVars, frames, ret, batch, result, tableVars, disturbed>>

-----------------------------------------------------------------------------
(* Errors. *)

err(status) ==
  [status |-> status, limit |-> FALSE, rows |-> 0, unknown |-> FALSE, answer |-> "given"]

(* No answer to a commit: a timeout or a cancel drops it, or the transport      *)
(* breaks, which from_spanner reports like any failure of Spanner's own.        *)
Unanswered ==
  {[err(status) EXCEPT !.answer = "dropped"] : status \in {"Timeout", "Cancelled"}}
    \cup {[err("Internal") EXCEPT !.answer = "broken"]}

note_rows_already_committed(error, committed) ==
  [error EXCEPT !.rows = committed, !.unknown = error.status \in {"Timeout", "Cancelled"}]

is_mutation_limit_exceeded(error) == error.status = "InvalidArguments" /\ error.limit

-----------------------------------------------------------------------------
(* IngestChunkBudget. *)

saturating_add(a, b) == IF a + b > U64Max THEN U64Max ELSE a + b

EmptyBudget == [rows |-> 0, mutations |-> 0, bytes |-> 0]

(* Mutant: the row is compared with what the chunk already holds only. *)
fits_before(b, columns, row_bytes) ==
  b.rows = 0 \/ (b.mutations <= MutationLimit /\ b.bytes <= ByteBudget)

fits(b, columns, row_bytes) ==
  \/ b.rows = 0
  \/ /\ saturating_add(b.mutations, columns) <= MutationLimit
     /\ saturating_add(b.bytes, row_bytes) <= ByteBudget

add(b, columns, row_bytes) ==
  [rows |-> b.rows + 1,
   mutations |-> saturating_add(b.mutations, columns),
   bytes |-> saturating_add(b.bytes, row_bytes)]

(* The flattened rows: the columns and the estimated bytes of each. *)
Rows(batches) ==
  LET of(b) == LET least == IF b.rows = 0 THEN 1 ELSE b.rows
               IN  [r \in 1..b.rows |-> [columns |-> b.columns, row_bytes |-> b.size \div least]]
      flat[i \in 0..Len(batches)] == IF i = 0 THEN <<>> ELSE flat[i - 1] \o of(batches[i])
  IN  flat[Len(batches)]

(* What the proofs take of this recursion: it gives a sequence of rows. *)
ASSUME RowsAssumption ==
  \A batches \in BoundData : Rows(batches) \in Seq([columns : Nat, row_bytes : Nat])

-----------------------------------------------------------------------------
NoCall == [mode |-> "none"]
NoBatch == [rows |-> {}, applied |-> 0, unreported |-> {}, first_error |-> <<>>]

Init ==
  /\ call = NoCall /\ bound = <<>>
  /\ autocommit \in BOOLEAN /\ kind \in {"Unset", "Read", "Dml"} /\ buffered = {}
  /\ autocommit => kind = "Unset"
  /\ pc = "idle"
  /\ row_index = 0 /\ chunk_start = 0 /\ budget = EmptyBudget /\ total = 0
  /\ frames = <<>> /\ ret = 0 /\ batch = NoBatch
  /\ result = [ok |-> FALSE, rows |-> -1]
  /\ table \in BOOLEAN /\ landed = {} /\ twice = FALSE
  /\ disturbed = 0

Data == Rows(call.batches)
N == Len(Data)

Goto(p) == pc' = p

(* run_ingest clears the bound rows on every way out. *)
Return(r) ==
  /\ result' = r
  /\ pc' = "done"
  /\ bound' = <<>>

Fail(error) == Return([ok |-> FALSE, rows |-> -1, error |-> error])

(* ingest_table_exists: what a probe finds of the table, or its failure. *)
TableIs(exists) == IF exists THEN "present" ELSE "absent"
ingest_table_exists == {"failed", TableIs(table)}

(* A probe made for an error waits on the signal of the same operation, so it   *)
(* always fails after a cancel.                                                 *)
Probes(error, tables) ==
  IF error.status = "Cancelled" THEN {"failed"} ELSE {"failed"} \cup {TableIs(t) : t \in tables}

-----------------------------------------------------------------------------
(* The call up to the first row. *)

remap_ingest_create_error(error, probe) ==
  IF call.mode = "create" /\ probe = "present" THEN err("AlreadyExists") ELSE error

(* A probe reinterprets the status; the text, with its notes, is kept. *)
remap_ingest_append_error(error, probe) ==
  IF \/ call.mode \notin {"append", "create_append"}
     \/ error.status \in {"InvalidState", "AlreadyExists"}
     \/ probe = "failed"
  THEN error
  ELSE [error EXCEPT !.status = IF probe = "present" THEN "AlreadyExists" ELSE "NotFound"]

(* execute of a statement with an ingest target.  bad and dup are a row that    *)
(* does not convert and a row whose key is taken, 0 for none.  A call refused   *)
(* because the connection is read-only or nothing is bound changes nothing.     *)
run_ingest ==
  /\ pc = "idle"
  /\ \E mode \in Modes, batch_write \in BOOLEAN, batches \in BoundData :
       \E bad, dup \in 0..Len(Rows(batches)) :
         /\ call' = [mode |-> mode, batch_write |-> batch_write, batches |-> batches,
                     bad |-> bad, dup |-> dup, existed |-> table, probe_failed |-> FALSE]
         /\ bound' = batches
  /\ Goto("check")
  /\ UNCHANGED <<txnVars, loopVars, frames, ret, batch, result, tableVars, disturbed>>

run_bound_ingest ==
  /\ pc = "check"
  /\ IF ~autocommit /\ kind = "Read"
     THEN Fail(err("InvalidState"))
     ELSE /\ Goto(IF call.mode = "append" THEN "route" ELSE "ddl")
          /\ UNCHANGED <<bound, result>>
  /\ UNCHANGED <<call, txnVars, loopVars, frames, ret, batch, tableVars, disturbed>>

(* run_ddl of [DROP TABLE IF EXISTS] and CREATE TABLE [IF NOT EXISTS]. *)
DdlApplies ==
  /\ table' = TRUE
  /\ landed' = IF call.mode = "replace" THEN {} ELSE landed
  /\ twice' = twice

DdlErrors == {err("Timeout"), err("Cancelled"), err("Internal")}

(* What a schema change that failed, or that nobody waits for any more, leaves: *)
(* its statements run one by one, and Spanner goes on with them on its own.     *)
DdlLeaves ==
  CASE call.mode = "create"  -> IF table THEN {TRUE} ELSE BOOLEAN
    [] call.mode = "replace" -> BOOLEAN
    [] OTHER                 -> {table, TRUE}

build_ingest_table_ddl ==
  /\ pc = "ddl"
  /\ ~(call.mode = "create" /\ table)
  /\ DdlApplies
  /\ Goto("route")
  /\ UNCHANGED <<call, bound, txnVars, loopVars, frames, ret, batch, result, disturbed>>

(* The bound schema has a column no Spanner type stands for. *)
ingest_ddl_not_built ==
  /\ pc = "ddl"
  /\ Fail(err("NotImplemented"))
  /\ UNCHANGED <<call, txnVars, loopVars, frames, ret, batch, tableVars, disturbed>>

(* The probe sees the table as it was or as the schema change leaves it. *)
ingest_ddl_fails ==
  /\ pc = "ddl"
  /\ table' \in DdlLeaves
  /\ \E error \in DdlErrors :
       \E probe \in Probes(error, {table, table'}) :
         /\ Fail(remap_ingest_create_error(error, probe))
         /\ call' = [call EXCEPT !.probe_failed = probe = "failed"]
  /\ UNCHANGED <<txnVars, loopVars, frames, ret, batch, landed, twice, disturbed>>

(* The error of run_ingest_mutations on its way out. *)
FailInsert(error) ==
  \E probe \in Probes(error, {table}) :
    /\ Fail(remap_ingest_append_error(error, probe))
    /\ call' = [call EXCEPT !.probe_failed = probe = "failed"]

(* run_ingest_mutations: the mode and the kind under one lock. *)
route ==
  /\ pc = "route"
  /\ IF ~autocommit /\ kind = "Read"
     THEN FailInsert(err("InvalidState"))
     ELSE /\ Goto(IF autocommit THEN "chunk" ELSE "build")
          /\ UNCHANGED <<call, bound, result>>
  /\ UNCHANGED <<txnVars, loopVars, frames, ret, batch, tableVars, disturbed>>

-----------------------------------------------------------------------------
(* Manual mode. *)

(* Mutant: a failed insert is relied on to find out. *)
check_empty_append_target_never(ingested, probe) == FALSE

check_empty_append_target(ingested, probe) ==
  ingested = 0 /\ call.mode = "append" /\ probe = "absent"

build_all ==
  /\ pc = "build"
  /\ \/ /\ call.bad # 0
        /\ FailInsert(err("InvalidArguments"))
     \/ /\ call.bad = 0
        /\ \E probe \in ingest_table_exists :
             IF check_empty_append_target(N, probe)
             THEN FailInsert(err("NotFound"))
             ELSE /\ Goto("buffer")
                  /\ call' = [call EXCEPT !.probe_failed = probe = "failed"]
                  /\ UNCHANGED <<bound, result>>
  /\ UNCHANGED <<txnVars, loopVars, frames, ret, batch, tableVars, disturbed>>

buffer_all ==
  /\ pc = "buffer" /\ ~autocommit
  /\ IF kind = "Read" /\ N > 0
     THEN FailInsert(err("InvalidState")) /\ UNCHANGED txnVars
     ELSE /\ kind' = IF N = 0 THEN kind ELSE "Dml"
          /\ buffered' = 1..N
          /\ Return([ok |-> TRUE, rows |-> -1])
          /\ UNCHANGED <<autocommit, call>>
  /\ UNCHANGED <<loopVars, frames, ret, batch, tableVars, disturbed>>

(* Autocommit was enabled meanwhile: on to the autocommit path. *)
fall_through ==
  /\ pc = "buffer" /\ autocommit
  /\ Goto("chunk")
  /\ UNCHANGED <<call, bound, txnVars, loopVars, frames, ret, batch, result, tableVars, disturbed>>

-----------------------------------------------------------------------------
(* Autocommit mode: the chunk loop. *)

Row(i) == Data[i + 1]
Fits == fits(budget, Row(row_index).columns, Row(row_index).row_bytes)

(* The row at row_index joins a chunk that weighs b so far. *)
AddRowTo(b) ==
  /\ budget' = add(b, Row(row_index).columns, Row(row_index).row_bytes)
  /\ row_index' = row_index + 1

add_row ==
  /\ pc = "chunk" /\ row_index < N /\ Fits
  /\ AddRowTo(budget)
  /\ UNCHANGED <<call, bound, txnVars, pc, chunk_start, total, frames, ret, batch, result,
                 tableVars, disturbed>>

Frame(start, end, prior) == [start |-> start, end |-> end, prior |-> prior, left |-> -1]

(* commit_ingest_range for the rows up to row_index. *)
commit_ingest_range ==
  /\ pc = "chunk"
  /\ row_index < N => ~Fits
  /\ IF chunk_start >= row_index
     THEN /\ ret' = 0 /\ Goto("return")
          /\ UNCHANGED <<frames, batch, call, bound, result>>
     ELSE IF call.batch_write
     THEN IF call.bad \in chunk_start + 1..row_index
          THEN /\ FailInsert(note_rows_already_committed(err("InvalidArguments"), total))
               /\ UNCHANGED <<frames, ret, batch>>
          ELSE /\ batch' = [NoBatch EXCEPT !.rows = chunk_start + 1..row_index]
               /\ Goto("batch_open")
               /\ UNCHANGED <<frames, ret, call, bound, result>>
     ELSE /\ frames' = <<Frame(chunk_start, row_index, total)>>
          /\ Goto("range")
          /\ UNCHANGED <<ret, batch, call, bound, result>>
  /\ UNCHANGED <<txnVars, loopVars, tableVars, disturbed>>

(* commit_ingest_range returned within the loop: the row that did not fit is    *)
(* the first of the next chunk, whatever its size.                              *)
chunk_cut ==
  /\ pc = "return" /\ frames = <<>> /\ row_index < N
  /\ total' = total + ret
  /\ chunk_start' = row_index
  /\ AddRowTo(EmptyBudget)
  /\ Goto("chunk")
  /\ UNCHANGED <<call, bound, txnVars, frames, ret, batch, result, tableVars, disturbed>>

(* It returned for the last chunk. *)
chunk_done ==
  /\ pc = "return" /\ frames = <<>> /\ row_index = N
  /\ total' = total + ret
  /\ Goto("finish")
  /\ UNCHANGED <<call, bound, txnVars, row_index, chunk_start, budget, frames, ret, batch, result,
                 tableVars, disturbed>>

finish ==
  /\ pc = "finish"
  /\ \E probe \in ingest_table_exists :
       IF check_empty_append_target(total, probe)
       THEN FailInsert(err("NotFound"))
       ELSE /\ Return([ok |-> TRUE, rows |-> total])
            /\ call' = [call EXCEPT !.probe_failed = probe = "failed"]
  /\ UNCHANGED <<txnVars, loopVars, frames, ret, batch, tableVars, disturbed>>

-----------------------------------------------------------------------------
(* write_mutation_range. *)

Top == frames[Len(frames)]
Popped == SubSeq(frames, 1, Len(frames) - 1)
TopRows == Top.start + 1..Top.end

Lands(rows) ==
  /\ landed' = landed \cup rows
  /\ twice' = (twice \/ rows \cap landed # {})
  /\ UNCHANGED table

(* What Spanner finds in a commit of rows it applies nothing of. *)
Cost(rows) ==
  IndexEntries * Cardinality(rows) + SumFunctionOnSet([i \in 1..N |-> Data[i].columns], rows)

Rejections(rows) ==
  IF ~table THEN {err("NotFound")}
  ELSE (IF call.dup \in rows THEN {err("AlreadyExists")} ELSE {})
         \cup (IF Cost(rows) > ServerLimit
               THEN {[err("InvalidArguments") EXCEPT !.limit = TRUE]} ELSE {})

Accepts(rows) == Rejections(rows) = {}

build_range_fails ==
  /\ pc = "range" /\ call.bad \in TopRows
  /\ FailInsert(note_rows_already_committed(err("InvalidArguments"), Top.prior))
  /\ UNCHANGED <<txnVars, loopVars, frames, ret, batch, tableVars, disturbed>>

write_range_ok ==
  /\ pc = "range" /\ call.bad \notin TopRows
  /\ Accepts(TopRows)
  /\ Lands(TopRows)
  /\ ret' = Top.end - Top.start
  /\ frames' = Popped
  /\ Goto("return")
  /\ UNCHANGED <<call, bound, txnVars, loopVars, batch, result, disturbed>>

(* Spanner rejects the commit, and nothing of it landed. *)
write_range_fails ==
  /\ pc = "range" /\ call.bad \notin TopRows
  /\ \E error \in Rejections(TopRows) :
       /\ ~(Top.end - Top.start > 1 /\ is_mutation_limit_exceeded(error))
       /\ FailInsert(note_rows_already_committed(error, Top.prior))
  /\ UNCHANGED <<txnVars, loopVars, frames, ret, batch, tableVars, disturbed>>

(* The commit goes unanswered, and may have landed. *)
write_range_unanswered ==
  /\ pc = "range" /\ call.bad \notin TopRows
  /\ \E error \in Unanswered : FailInsert(note_rows_already_committed(error, Top.prior))
  /\ \/ Accepts(TopRows) /\ Lands(TopRows)
     \/ UNCHANGED tableVars
  /\ UNCHANGED <<txnVars, loopVars, frames, ret, batch, disturbed>>

mid(start, end) == start + (end - start) \div 2

(* Mutant: a single row is split as well. *)
bisect_single_row ==
  /\ pc = "range" /\ call.bad \notin TopRows
  /\ \E error \in Rejections(TopRows) : is_mutation_limit_exceeded(error)
  /\ frames' = Append(frames, Frame(Top.start, mid(Top.start, Top.end), Top.prior))
  /\ UNCHANGED <<call, bound, txnVars, pc, loopVars, ret, batch, result, tableVars, disturbed>>

bisect ==
  /\ pc = "range" /\ call.bad \notin TopRows
  /\ Top.end - Top.start > 1
  /\ \E error \in Rejections(TopRows) : is_mutation_limit_exceeded(error)
  /\ frames' = Append(frames, Frame(Top.start, mid(Top.start, Top.end), Top.prior))
  /\ UNCHANGED <<call, bound, txnVars, pc, loopVars, ret, batch, result, tableVars, disturbed>>

(* Mutant: the right half is told of the rows before the range only. *)
left_done_forgets ==
  /\ pc = "return" /\ frames # <<>> /\ Top.left = -1
  /\ frames' = Append([frames EXCEPT ![Len(frames)].left = ret],
                      Frame(mid(Top.start, Top.end), Top.end, Top.prior))
  /\ Goto("range")
  /\ UNCHANGED <<call, bound, txnVars, loopVars, ret, batch, result, tableVars, disturbed>>

left_done ==
  /\ pc = "return" /\ frames # <<>> /\ Top.left = -1
  /\ frames' = Append([frames EXCEPT ![Len(frames)].left = ret],
                      Frame(mid(Top.start, Top.end), Top.end, Top.prior + ret))
  /\ Goto("range")
  /\ UNCHANGED <<call, bound, txnVars, loopVars, ret, batch, result, tableVars, disturbed>>

right_done ==
  /\ pc = "return" /\ frames # <<>> /\ Top.left # -1
  /\ ret' = Top.left + ret
  /\ frames' = Popped
  /\ UNCHANGED <<call, bound, txnVars, pc, loopVars, batch, result, tableVars, disturbed>>

-----------------------------------------------------------------------------
(* batch_write_chunk: every row is a group of its own. *)

batch_open ==
  /\ pc = "batch_open"
  /\ \/ Goto("batch") /\ UNCHANGED <<call, bound, result>>
     \/ FailInsert(note_rows_already_committed(err("Internal"), total))
  /\ UNCHANGED <<txnVars, loopVars, frames, ret, batch, tableVars, disturbed>>

(* Spanner applies the groups it has been sent in any order. *)
batch_group_lands ==
  /\ pc \in {"batch_open", "batch"}
  /\ \E r \in batch.rows :
       /\ Rejections({r}) \subseteq {[err("InvalidArguments") EXCEPT !.limit = TRUE]}
       /\ Lands({r})
       /\ batch' = [batch EXCEPT !.rows = @ \ {r}, !.unreported = @ \cup {r}]
  /\ UNCHANGED <<call, bound, txnVars, pc, loopVars, frames, ret, result, disturbed>>

(* A response names the groups it reports: applied ones, or a rejected one. *)
batch_response ==
  /\ pc = "batch"
  /\ \/ \E rows \in SUBSET batch.unreported \ {{}} :
          batch' = [batch EXCEPT !.unreported = @ \ rows, !.applied = @ + Cardinality(rows)]
     \/ \E r \in batch.rows : \E error \in Rejections({r}) :
          /\ ~error.limit
          /\ batch' = [batch EXCEPT !.rows = @ \ {r},
                         !.first_error = IF @ = <<>> THEN <<error>> ELSE @]
  /\ UNCHANGED <<call, bound, txnVars, pc, loopVars, frames, ret, result, tableVars, disturbed>>

batch_end ==
  /\ pc = "batch" /\ batch.rows = {} /\ batch.unreported = {}
  /\ IF batch.first_error = <<>>
     THEN /\ ret' = batch.applied /\ Goto("return")
          /\ UNCHANGED <<call, bound, result>>
     ELSE /\ FailInsert(note_rows_already_committed(batch.first_error[1], total + batch.applied))
          /\ UNCHANGED ret
  /\ batch' = NoBatch
  /\ UNCHANGED <<txnVars, loopVars, frames, tableVars, disturbed>>

batch_stream_fails ==
  /\ pc = "batch"
  /\ FailInsert(note_rows_already_committed(err("Internal"), total + batch.applied))
  /\ UNCHANGED <<ret, txnVars, loopVars, frames, batch, tableVars, disturbed>>

(* The future that annotates errors is dropped: these two come from outside it. *)
batch_abandoned ==
  /\ pc \in {"batch_open", "batch"}
  /\ \E status \in {"Timeout", "Cancelled"} : FailInsert(err(status))
  /\ UNCHANGED <<txnVars, loopVars, frames, ret, batch, tableVars, disturbed>>

-----------------------------------------------------------------------------
(* Other threads: a query or DML fixes the kind, a commit or rollback frees   *)
(* it, and the mode is switched.                                              *)
other_threads ==
  /\ pc \notin {"idle", "done"} /\ disturbed < MaxDisturb
  /\ disturbed' = disturbed + 1
  /\ \/ /\ ~autocommit /\ kind = "Unset" /\ kind' \in {"Read", "Dml"}
        /\ UNCHANGED autocommit
     \/ /\ ~autocommit /\ kind' = "Unset"
        /\ autocommit' \in BOOLEAN
     \/ /\ autocommit /\ autocommit' = FALSE
        /\ UNCHANGED kind
  /\ UNCHANGED <<call, bound, buffered, pc, loopVars, frames, ret, batch, result, tableVars>>

BatchSteps ==
  batch_open \/ batch_group_lands \/ batch_response \/ batch_end \/ batch_stream_fails
    \/ batch_abandoned

RangeSteps ==
  build_range_fails \/ write_range_ok \/ write_range_fails \/ write_range_unanswered
    \/ bisect \/ left_done \/ right_done

CallSteps ==
  run_bound_ingest \/ build_ingest_table_ddl \/ ingest_ddl_not_built \/ ingest_ddl_fails
    \/ route \/ build_all \/ buffer_all \/ fall_through
    \/ add_row \/ commit_ingest_range \/ chunk_cut \/ chunk_done \/ finish
    \/ RangeSteps \/ BatchSteps

Returned == pc = "done" /\ UNCHANGED vars

Next == run_ingest \/ CallSteps \/ other_threads \/ Returned

Spec == Init /\ [][Next]_vars

-----------------------------------------------------------------------------
(* Properties. *)

Done == pc = "done"
Failed == Done /\ ~result.ok

(* The locals stay in range: the chunk at hand is a range of the bound rows. *)
TypeOK ==
  /\ chunk_start \in 0..row_index
  /\ call # NoCall => row_index \in 0..N /\ landed \subseteq 1..N
  /\ batch.applied \in Nat /\ total \in Nat /\ ret \in Nat

(* Write-only path: when the call fails, the rows the error reports are exactly *)
(* the rows left in the table, and they are the first ones bound.  Where the    *)
(* failing commit got no answer the whole of its range may be there as well,    *)
(* and the error says so unless the transport broke: then the count is exact    *)
(* only as far as the driver knows.                                             *)
ErrorCountsRows ==
  Failed /\ ~call.batch_write =>
    \/ landed = 1..result.error.rows
    \/ /\ \/ result.error.answer = "dropped" /\ result.error.unknown
          \/ result.error.answer = "broken"
       /\ frames # <<>> /\ Top.start = result.error.rows
       /\ landed = 1..Top.end

(* BatchWrite path: an error never claims more rows than the table holds. *)
BatchErrorNeverOverstates ==
  Failed /\ call.batch_write => result.error.rows <= Cardinality(landed)

(* A success in autocommit mode means every row is in the table and counted;    *)
(* one in manual mode means every row is buffered, and a failure that none is.  *)
SuccessIsComplete ==
  Done => IF result.ok
          THEN IF result.rows = -1 THEN buffered = 1..N /\ landed = {}
               ELSE landed = 1..N /\ result.rows = N
          ELSE buffered = {}

(* Bisecting, falling through from manual mode and retrying never send a row    *)
(* that has been applied.                                                       *)
NoRowTwice == ~twice

(* Reference: what a chunk weighs. *)
Weight(rows, f(_)) == SumFunctionOnSet([i \in 1..N |-> f(Data[i])], rows)
Columns(r) == r.columns
Bytes(r) == r.row_bytes
WithinBudget(rows) ==
  Weight(rows, Columns) <= MutationLimit /\ Weight(rows, Bytes) <= ByteBudget

(* IngestChunkBudget: a chunk is within both budgets unless it is a single row. *)
ChunksWithinBudget ==
  /\ pc = "range" => Top.end - Top.start = 1 \/ WithinBudget(TopRows)
  /\ pc = "batch_open" => Cardinality(batch.rows) = 1 \/ WithinBudget(batch.rows)

(* "An ingest that fits the budgets still commits as one atomic transaction":   *)
(* unless Spanner's own cap is hit, its rows appear together.                   *)
SmallIngestIsAtomic ==
  call # NoCall /\ ~call.batch_write /\ WithinBudget(1..N) /\ Cost(1..N) <= ServerLimit
    => landed \in {{}, 1..N}

(* A call refused for the kind of the transaction leaves the table as it was,   *)
(* unless another thread changed the transaction while the DDL ran.             *)
RefusedBeforeDdl ==
  Failed /\ result.error.status = "InvalidState" /\ disturbed = 0 => table = call.existed

(* The ADBC contract on a missing or an existing target: an append to a missing *)
(* table never succeeds in autocommit mode and is NotFound, a create over an    *)
(* existing one is AlreadyExists and inserts nothing, as far as probes answer.  *)
TargetContract ==
  Done /\ ~call.probe_failed =>
    /\ call.mode = "append" /\ ~call.existed /\ disturbed = 0 =>
         \/ ~result.ok /\ result.error.status \in {"NotFound", "InvalidState"}
         \/ ~autocommit /\ N > 0
    /\ call.mode = "create" /\ call.existed =>
         /\ ~result.ok /\ result.error.status \in {"AlreadyExists", "InvalidState", "NotImplemented"}
         /\ landed = {}

(* write_mutation_range: an activation has at least one row, and one called by  *)
(* another has at most half of its rows, rounded up, all of them the caller's:  *)
(* no empty commit, and no recursion without end when one row is too large.     *)
BisectionEnds ==
  /\ \A i \in DOMAIN frames : frames[i].start < frames[i].end
  /\ \A i \in 1..Len(frames) - 1 :
       LET outer == frames[i]
           inner == frames[i + 1]
       IN  /\ outer.start <= inner.start /\ inner.end <= outer.end
           /\ 2 * (inner.end - inner.start) <= outer.end - outer.start + 1

(* "any error is annotated": an error of a BatchWrite chunk reports the rows of *)
(* the chunks before it.                                                        *)
BatchErrorsAnnotated ==
  Failed /\ call.batch_write /\ total > 0 => result.error.rows >= total

(* What the call reports is what is there: an error names the rows it left in   *)
(* the table, but for a commit that got no answer, a success leaves all of      *)
(* them, and no row is sent again once it has been applied.                     *)
ReportIsExact ==
  ErrorCountsRows /\ BatchErrorNeverOverstates /\ SuccessIsComplete /\ NoRowTwice

(* The cut into chunks is right at its limits: no chunk is empty, none is over  *)
(* a budget unless it is a single row, and rows that fit are not cut at all.    *)
ChunksCutRight == TypeOK /\ ChunksWithinBudget /\ SmallIngestIsAtomic

(* The target is treated as the mode demands, and not at all by a call that is  *)
(* refused.                                                                     *)
TargetSafe == RefusedBeforeDdl /\ TargetContract
=============================================================================
