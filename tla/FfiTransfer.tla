---------------------------- MODULE FfiTransfer ----------------------------
(***************************************************************************)
(* What changes hands in the calls of the C ABI: the Arrow structs bound   *)
(* to a statement (ffi/statement.rs, ffi/import.rs) and the streams,       *)
(* schemas and partitions handed out (ffi/connection.rs,                   *)
(* ffi/statement.rs, ffi/guard.rs).  Every call may be refused for its     *)
(* arguments or fail in the driver.                                        *)
(***************************************************************************)
EXTENDS Integers, FiniteSets, TLC

CONSTANT MaxBatches   \* bounds the batches of a bound stream

Inputs == {"values", "schema", "stream"}
Outputs == {"out", "schema", "partitions"}

VARIABLES
  given,     \* behind the host's pointer: "live", "malformed", "gone" (null, released or moved away)
  owned,     \* how many arrays, schemas and streams the driver has taken and not yet released
  binding,   \* what the statement holds: its arrays, and whether their stream was read to its end
  drain,     \* bind_stream at work: the arrays so far, BoundStreamReader.finished, a failure
  output,    \* behind each output pointer: "null", "empty", "full"
  rows,      \* *rows_affected: "null", "stale", "count", "unknown" (-1)
  last       \* the last call: did it succeed, did the driver run, which outputs did it need

vars == <<given, owned, binding, drain, output, rows, last>>

Unbound == [n |-> 0, whole |-> TRUE]
Idle == [on |-> FALSE, n |-> 0, finished |-> FALSE, failed |-> FALSE]
NoCall == [ok |-> TRUE, ran |-> FALSE, needs |-> {}, counts |-> FALSE]

Init ==
  /\ given = [i \in Inputs |-> "gone"] /\ owned = [i \in Inputs |-> 0]
  /\ binding = Unbound /\ drain = Idle
  /\ output = [o \in Outputs |-> "null"] /\ rows = "null" /\ last = NoCall

-----------------------------------------------------------------------------
(* The host: it points inputs and outputs anywhere, loses nothing live, and     *)
(* does not overwrite a result it has not released.                             *)

host_gives(i) ==
  /\ given[i] = "gone"
  /\ \E g \in {"live"} \cup (IF i = "stream" THEN {"malformed"} ELSE {}) :
       given' = [given EXCEPT ![i] = g]
  /\ UNCHANGED <<owned, binding, drain, output, rows, last>>

host_takes(o) ==
  /\ output' = [output EXCEPT ![o] = IF @ = "null" THEN "empty" ELSE "null"]
  /\ UNCHANGED <<given, owned, binding, drain, rows, last>>

host_rows ==
  /\ rows' = (IF rows = "null" THEN "stale" ELSE "null")
  /\ UNCHANGED <<given, owned, binding, drain, output, last>>

-----------------------------------------------------------------------------
(* Binding. *)

(* Putting a binding in the place of another releases the arrays of that one. *)
Rebind(b, taken) ==
  /\ binding' = b
  /\ owned' = [taken EXCEPT !["values"] = @ - binding.n]

clear_bound == Rebind(Unbound, owned)

Refuse == /\ last' = [NoCall EXCEPT !.ok = FALSE]
          /\ UNCHANGED <<given, owned, binding, drain>>

(* What arrived over the C data interface is valid or not. *)
validate_imported == BOOLEAN

Take(own, i) == [own EXCEPT ![i] = @ + 1]
Drop(own, i) == [own EXCEPT ![i] = @ - 1]

(* Both inputs are looked at, then both are moved.  The import fails on a value *)
(* that is no struct array, is invalid or has null rows; then the array is      *)
(* dropped and the earlier binding stays.  The schema is dropped either way.    *)
statement_bind ==
  /\ ~drain.on
  /\ IF given["values"] # "live" \/ given["schema"] # "live" THEN Refuse
     ELSE /\ given' = [given EXCEPT !["values"] = "gone", !["schema"] = "gone"]
          /\ LET imported == Drop(Take(Take(owned, "values"), "schema"), "schema")
             IN  \E valid \in validate_imported :
                   IF valid THEN Rebind([n |-> 1, whole |-> TRUE], imported) /\ last' = NoCall
                   ELSE /\ owned' = Drop(imported, "values")
                        /\ last' = [NoCall EXCEPT !.ok = FALSE] /\ UNCHANGED binding
          /\ UNCHANGED drain
  /\ UNCHANGED <<output, rows>>

(* A released stream and one without its callbacks stay the caller's; of a      *)
(* stream that was moved, a schema that fails, is released or is invalid        *)
(* refuses the call and the stream is dropped.  The C schema is dropped once it *)
(* is converted.                                                                *)
from_raw ==
  /\ ~drain.on
  /\ IF given["stream"] # "live" THEN Refuse
     ELSE /\ given' = [given EXCEPT !["stream"] = "gone"]
          /\ LET moved == Take(owned, "stream")
                 converted == Drop(Take(moved, "schema"), "schema")
             IN  \/ owned' = converted /\ drain' = [Idle EXCEPT !.on = TRUE] /\ UNCHANGED last
                 \/ /\ owned' \in {Drop(own, "stream") : own \in {moved, converted}}
                    /\ last' = [NoCall EXCEPT !.ok = FALSE] /\ UNCHANGED drain
          /\ UNCHANGED binding
  /\ UNCHANGED <<output, rows>>

(* One call of get_next: a batch, the end, or an error, be it the producer's, a *)
(* wrong number of columns, an invalid array or null rows.                      *)
BoundStreamReader_next ==
  /\ drain.on /\ ~drain.finished
  /\ \/ /\ drain.n < MaxBatches
        /\ drain' = [drain EXCEPT !.n = @ + 1] /\ owned' = [owned EXCEPT !["values"] = @ + 1]
     \/ /\ \E failed \in BOOLEAN : drain' = [drain EXCEPT !.finished = TRUE, !.failed = failed]
        /\ UNCHANGED owned
  /\ UNCHANGED <<given, binding, output, rows, last>>

(* The reader, and the stream in it, is dropped when bind_stream returns. *)
Drained(kept) == [owned EXCEPT !["stream"] = @ - 1, !["values"] = @ - (drain.n - kept)]

(* Mutant: the loop over the reader ends at an error as it does at the end. *)
bind_stream_lenient ==
  /\ drain.finished
  /\ Rebind([n |-> drain.n, whole |-> ~drain.failed], Drained(drain.n)) /\ last' = NoCall
  /\ drain' = Idle
  /\ UNCHANGED <<given, output, rows>>

(* The batches become the binding; an error drops them, and the earlier binding *)
(* stays.                                                                       *)
bind_stream ==
  /\ drain.finished
  /\ IF drain.failed
     THEN owned' = Drained(0) /\ last' = [NoCall EXCEPT !.ok = FALSE] /\ UNCHANGED binding
     ELSE Rebind([n |-> drain.n, whole |-> ~drain.failed], Drained(drain.n)) /\ last' = NoCall
  /\ drain' = Idle
  /\ UNCHANGED <<given, output, rows>>

-----------------------------------------------------------------------------
(* Calls with results. *)

(* The outputs each entry point needs before it asks the driver. *)
ConnectionNeeds ==
  "connection_get_info" :> {"out"} @@ "connection_get_objects" :> {"out"}
  @@ "connection_get_table_types" :> {"out"} @@ "connection_get_statistics" :> {"out"}
  @@ "connection_get_statistic_names" :> {"out"} @@ "connection_read_partition" :> {"out"}
  @@ "connection_get_table_schema" :> {"schema"}

StatementNeeds ==
  "statement_execute_schema" :> {"schema"} @@ "statement_get_parameter_schema" :> {"schema"}
  @@ "statement_execute_partitions" :> {"schema", "partitions"}

Needs == ConnectionNeeds @@ StatementNeeds

required_output(o) == output[o] = "empty"

Call(ok, ran, needs, counts) ==
  last' = [ok |-> ok, ran |-> ran, needs |-> needs, counts |-> counts]

Store(written) == output' = [o \in Outputs |-> IF o \in written THEN "full" ELSE output[o]]

Counted(value) == rows' = (IF rows = "null" THEN "null" ELSE value)

(* Mutant: the partitions are written before the schema is exported. *)
statement_execute_partitions_first(c) ==
  /\ c = "statement_execute_partitions"
  /\ \A o \in Needs[c] : output[o] = "empty"
  /\ Store({"partitions"}) /\ Call(FALSE, TRUE, Needs[c], FALSE)
  /\ UNCHANGED <<given, owned, binding, drain, rows>>

(* A missing output or a bad argument is refused; then the driver runs, and a   *)
(* schema it returns is exported, which may fail, before anything is written.   *)
(* The bound rows are consumed by a partitioned query that got as far as its    *)
(* run, failed or not; no other of these calls touches them.                    *)
entry_point(c) ==
  /\ ~drain.on
  /\ \A o \in Needs[c] : output[o] # "full"
  /\ \/ Call(FALSE, FALSE, Needs[c], FALSE) /\ UNCHANGED <<output, rows, owned, binding>>
     \/ /\ \A o \in Needs[c] : required_output(o)
        /\ Call(FALSE, TRUE, Needs[c], FALSE)
        /\ \/ UNCHANGED <<owned, binding>>
           \/ c = "statement_execute_partitions" /\ clear_bound
        /\ UNCHANGED <<output, rows>>
     \/ /\ \A o \in Needs[c] : required_output(o)
        /\ Store(Needs[c])
        /\ IF c = "statement_execute_partitions"
           THEN Call(TRUE, TRUE, Needs[c], TRUE) /\ Counted("unknown") /\ clear_bound
           ELSE Call(TRUE, TRUE, Needs[c], FALSE) /\ UNCHANGED <<rows, owned, binding>>
  /\ UNCHANGED <<given, drain>>

(* Without an output it is an update, whose count may be unknown too.  An        *)
(* execution that reads the bound rows consumes them, a failed one included.     *)
statement_execute_query ==
  /\ ~drain.on /\ output["out"] # "full"
  /\ \/ /\ Call(TRUE, TRUE, {}, TRUE)
        /\ IF output["out"] = "null" THEN (Counted("count") \/ Counted("unknown")) /\ UNCHANGED output
           ELSE Store({"out"}) /\ Counted("unknown")
     \/ Call(FALSE, TRUE, {}, TRUE) /\ UNCHANGED <<output, rows>>
  /\ (UNCHANGED <<owned, binding>> \/ clear_bound)
  /\ UNCHANGED <<given, drain>>

(* The host runs a result's release callback (release_partitions, or the        *)
(* stream's); running it again changes nothing.                                 *)
host_releases(o) ==
  /\ output[o] = "full"
  /\ output' = [output EXCEPT ![o] = "empty"]
  /\ UNCHANGED <<given, owned, binding, drain, rows, last>>

-----------------------------------------------------------------------------
Next ==
  \/ \E i \in Inputs : host_gives(i)
  \/ \E o \in Outputs : (output[o] # "full" /\ host_takes(o)) \/ host_releases(o)
  \/ host_rows
  \/ statement_bind \/ from_raw \/ BoundStreamReader_next \/ bind_stream
  \/ statement_execute_query
  \/ \E c \in DOMAIN Needs : entry_point(c)

Spec == Init /\ [][Next]_vars

-----------------------------------------------------------------------------
(* Properties. *)

(* Every input the driver took is released, or held by the binding, once:       *)
(* a refused call, a replaced binding and a consumed one leak nothing.          *)
NothingLeaked ==
  /\ owned["values"] = binding.n + drain.n
  /\ owned["schema"] = 0
  /\ owned["stream"] = IF drain.on THEN 1 ELSE 0

(* "a caller mistake neither consumes the other input": Bind takes the array    *)
(* and the schema together, or neither.                                         *)
BindTakesBoth ==
  given["values"] = "live" /\ given'["values"] = "gone"
    <=> given["schema"] = "live" /\ given'["schema"] = "gone"

(* A bind that fails, at whatever batch of its stream, leaves the rows bound    *)
(* before it for the execution that follows.                                    *)
FailedBindKeepsRows == ~last'.ok /\ ~last'.ran => binding' = binding

(* Rows of a stream that failed half way are not bound: no execution takes a    *)
(* truncated stream for a complete one.                                         *)
NoTruncatedBinding == binding.whole

(* "discovering it afterwards would mean having billed a query whose result     *)
(* nobody can collect": the driver is not asked for what has no place to go.    *)
NoWorkWithoutOutput == last' # last /\ last'.ran => \A o \in last'.needs : output[o] # "null"

(* A call that reports failure leaves nothing the host would have to release.   *)
FailureWritesNothing ==
  last' # last /\ ~last'.ok => \A o \in Outputs : output'[o] = "full" => output[o] = "full"

(* A caller that reads *rows_affected after a successful execution does not see *)
(* the count of an earlier one.                                                 *)
CountIsFresh == last' # last /\ last'.ok /\ last'.counts => rows' # "stale"

(* What the driver owns is what it still needs, and a binding is whole. *)
TransfersBalanced == NothingLeaked /\ NoTruncatedBinding

(* A call takes all its inputs or none, and gives all its outputs or none. *)
TransfersAtomic ==
  [][/\ BindTakesBoth /\ FailedBindKeepsRows
     /\ NoWorkWithoutOutput /\ FailureWritesNothing /\ CountIsFresh]_vars
=============================================================================
