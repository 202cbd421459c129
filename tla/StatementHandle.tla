-------------------------- MODULE StatementHandle --------------------------
(***************************************************************************)
(* A reused statement handle (src/statement.rs): its SQL text, ingest      *)
(* target and bound data across calls, and where execute, execute_update,  *)
(* execute_partitions and execute_schema send them.  A call is one step:   *)
(* Transactions has the interleavings of several statements, Ingest the    *)
(* inside of an ingest.                                                    *)
(*                                                                         *)
(* A SQL text is the sequence of the kinds of its statements, as           *)
(* split_statements finds them.  Bound data is the sequence of the row     *)
(* counts of its batches.  Server errors are a choice (ok).                *)
(***************************************************************************)
EXTENDS Integers, Sequences, FiniteSets, Functions

CONSTANTS
  Texts,     \* the SQL texts tried, sequences over PartKinds
  Bindings   \* the bound data tried, sequences of row counts

PartKinds == {"ddl", "dml", "returning", "query"}

ASSUME TextsAssumption == Texts \subseteq Seq(PartKinds) /\ Bindings \subseteq Seq(Nat)

NoText == <<"none">>

VARIABLES
  sql, target, bound, schema, partitioned,  \* the handle
  autocommit, kind, buffered,               \* the shared transaction
  readOnly,
  out,      \* what the last execution did
  latest,   \* history: the destination configured last
  used      \* history: the bound data took part in an execution already

destVars == <<sql, target, latest>>
dataVars == <<bound, schema, used>>
txnVars  == <<autocommit, kind, buffered>>
vars == <<destVars, dataVars, partitioned, txnVars, readOnly, out>>

Nothing == [ran |-> "nothing", dest |-> "none", latest |-> "none", rows |-> 0,
            stale |-> FALSE, written |-> FALSE, readOnly |-> FALSE]

Init ==
  /\ sql = NoText /\ target = FALSE /\ latest = "none"
  /\ bound = <<>> /\ schema = FALSE /\ used = FALSE
  /\ partitioned = FALSE
  /\ autocommit = TRUE /\ kind = "Unset" /\ buffered = {}
  /\ readOnly = FALSE
  /\ out = Nothing

-----------------------------------------------------------------------------
(* Classification, over the statement kinds. *)

is_ddl(text) == text # <<>> /\ text[1] = "ddl"
is_dml(text) == text # <<>> /\ text[1] \in {"dml", "returning"}
is_dml_returning(text) == "returning" \in Range(text)

check_all_dml_batch(text) ==
  Len(text) > 1 => \A i \in DOMAIN text : text[i] \in {"dml", "returning"}

Rows == SumFunction(bound)

check_partitioned_dml(text, mode, rows) ==
  mode /\ ~is_dml_returning(text) /\ Len(text) <= 1 /\ rows <= 1

check_kind_allowed(attempted) == autocommit \/ kind \in {"Unset", attempted}

check_bound_has_destination == ~(sql = NoText /\ ~target /\ (bound # <<>> \/ schema))

-----------------------------------------------------------------------------
(* Configuration. *)

set_sql_query ==
  /\ \E text \in Texts : sql' = text
  /\ target' = FALSE
  /\ latest' = "sql"
  /\ UNCHANGED <<dataVars, partitioned, txnVars, readOnly, out>>

(* Mutant: the query stays on the handle. *)
set_target_table_keeps ==
  /\ target' = TRUE
  /\ latest' = "target"
  /\ UNCHANGED <<sql, dataVars, partitioned, txnVars, readOnly, out>>

set_target_table ==
  /\ target' = TRUE
  /\ sql' = NoText
  /\ latest' = "target"
  /\ UNCHANGED <<dataVars, partitioned, txnVars, readOnly, out>>

set_dml_partitioned ==
  /\ partitioned' \in BOOLEAN
  /\ UNCHANGED <<destVars, dataVars, txnVars, readOnly, out>>

(* bind is a stream of one batch.  A stream that fails while it is read leaves the handle as it was. *)
bind ==
  /\ bound' \in Bindings
  /\ schema' = (bound' = <<>>)
  /\ used' = FALSE
  /\ UNCHANGED <<destVars, partitioned, txnVars, readOnly, out>>

-----------------------------------------------------------------------------
(* Execution. *)

clear_bound == bound' = <<>> /\ schema' = FALSE /\ used' = FALSE

Keep == UNCHANGED <<bound, schema, used>>

Effect(what, rows, written) ==
  [ran |-> what, dest |-> IF sql = NoText THEN "target" ELSE "sql", latest |-> latest,
   rows |-> rows, stale |-> used, written |-> written, readOnly |-> readOnly]

Refused(what) == out' = [Effect(what, 0, FALSE) EXCEPT !.stale = FALSE]

Buffer(items) ==
  /\ kind' = IF items = {} THEN kind ELSE "Dml"
  /\ buffered' = buffered \cup items
  /\ UNCHANGED autocommit

(* run_ingest, once past its own guards. *)
run_ingest ==
  /\ sql = NoText /\ target
  /\ ~readOnly
  /\ bound # <<>> \/ schema
  /\ clear_bound
  /\ IF ~check_kind_allowed("Dml")
     THEN Refused("ingest") /\ UNCHANGED txnVars
     ELSE /\ out' = Effect("ingest", Rows, TRUE)
          /\ IF autocommit \/ Rows = 0 THEN UNCHANGED txnVars
             ELSE kind' = "Dml" /\ UNCHANGED <<autocommit, buffered>>
  /\ UNCHANGED <<destVars, partitioned, readOnly>>

(* A schema change that fails leaves the bound data. *)
run_ddl ==
  /\ sql # NoText /\ is_ddl(sql)
  /\ ~readOnly
  /\ \/ clear_bound
     \/ Keep
  /\ out' = [Effect("ddl", 0, TRUE) EXCEPT !.stale = FALSE]
  /\ UNCHANGED <<destVars, partitioned, txnVars, readOnly>>

(* The statements of a batch: one per bound row, or the parts of the text. *)
build_dml_statements ==
  IF bound # <<>> THEN IF Rows > 0 THEN {[text |-> sql, bound |-> TRUE]} ELSE {}
  ELSE {[text |-> <<sql[i]>>, bound |-> FALSE] : i \in DOMAIN sql}

(* Mutant: a DML on a read-only connection is not refused. *)
dml_allowed_always ==
  IF partitioned THEN check_partitioned_dml(sql, autocommit, Rows)
  ELSE IF is_dml_returning(sql) THEN autocommit /\ (bound = <<>> => Len(sql) <= 1)
  ELSE (bound = <<>> => check_all_dml_batch(sql)) /\ check_kind_allowed("Dml")

dml_allowed ==
  /\ ~readOnly
  /\ IF partitioned THEN /\ check_partitioned_dml(sql, autocommit, Rows)
                         /\ bound = <<>> => check_all_dml_batch(sql)
     ELSE IF is_dml_returning(sql) THEN autocommit /\ (bound = <<>> => Len(sql) <= 1)
     ELSE (bound = <<>> => check_all_dml_batch(sql)) /\ check_kind_allowed("Dml")

(* run_dml with the clear_bound of its callers. *)
run_dml ==
  /\ sql # NoText /\ is_dml(sql)
  /\ clear_bound
  /\ IF ~dml_allowed
     THEN Refused("dml") /\ UNCHANGED txnVars
     ELSE LET what == IF partitioned THEN "partitioned"
                      ELSE IF is_dml_returning(sql) THEN "returning" ELSE "dml"
              items == build_dml_statements
          IN  /\ out' = Effect(what, Rows, TRUE)
              /\ IF what = "dml" /\ ~autocommit THEN Buffer(items) ELSE UNCHANGED txnVars
  /\ UNCHANGED <<destVars, partitioned, readOnly>>

(* manual_read_transaction: the first query of a manual transaction fixes its kind. *)
manual_read_transaction ==
  /\ kind' = IF autocommit THEN kind ELSE "Read"
  /\ UNCHANGED <<autocommit, buffered>>

(* A query without bound rows; a read bound out of range fails it before the   *)
(* snapshot.                                                                   *)
QueryUnbound ==
  /\ bound = <<>>
  /\ UNCHANGED <<bound, schema>>
  /\ \/ manual_read_transaction /\ used' = (used \/ schema) /\ out' = Effect("query", 0, FALSE)
     \/ UNCHANGED <<used, txnVars>> /\ Refused("query")

(* Mutant: a bound query that fails leaves its rows. *)
execute_bound_query_keeps ==
  /\ bound # <<>>
  /\ \/ clear_bound /\ out' = Effect("query", Rows, FALSE)
     \/ UNCHANGED <<bound, schema>> /\ used' = TRUE
        /\ out' = Effect("query", Rows, FALSE)
  /\ manual_read_transaction

(* Parameter names that do not resolve fail before the snapshot is opened. *)
execute_bound_query ==
  /\ bound # <<>>
  /\ clear_bound
  /\ \/ /\ Rows > 0
        /\ Refused("query")
        /\ UNCHANGED txnVars
     \/ /\ out' = Effect("query", Rows, FALSE)
        /\ manual_read_transaction

(* execute and, once its batch check has passed, execute_update.  A transaction *)
(* with buffered work refuses the query before the rows are looked at.          *)
execute_query_reader ==
  /\ sql # NoText /\ ~is_ddl(sql) /\ ~is_dml(sql)
  /\ IF check_kind_allowed("Read")
     THEN QueryUnbound \/ execute_bound_query
     ELSE Keep /\ Refused("query") /\ UNCHANGED txnVars
  /\ UNCHANGED <<destVars, partitioned, readOnly>>

check_single_bound_row == Rows <= 1

execute_partitions ==
  /\ sql # NoText /\ ~is_ddl(sql) /\ ~is_dml(sql)
  /\ check_kind_allowed("Read")
  /\ clear_bound
  /\ IF check_single_bound_row
     THEN out' = Effect("partitions", Rows, FALSE)
     ELSE Refused("partitions")
  /\ UNCHANGED <<destVars, partitioned, txnVars, readOnly>>

(* The connection: the mode, the flag, and the end of a transaction. *)
connection ==
  /\ \/ /\ autocommit' \in BOOLEAN /\ kind' = "Unset" /\ buffered' = {}
        /\ UNCHANGED readOnly
     \/ readOnly' = ~readOnly /\ UNCHANGED txnVars
  /\ UNCHANGED <<destVars, dataVars, partitioned, out>>

Configure == set_sql_query \/ set_target_table \/ set_dml_partitioned \/ bind

Next ==
  Configure \/ connection \/ run_ingest \/ run_ddl \/ run_dml \/ execute_query_reader
    \/ execute_partitions

Spec == Init /\ [][Next]_vars

-----------------------------------------------------------------------------
(* Properties. *)

(* The handle's fields; an empty stream's schema is kept only while no batch is *)
(* bound.                                                                       *)
TypeOK ==
  /\ sql \in Texts \cup {NoText} /\ target \in BOOLEAN
  /\ bound \in Bindings \cup {<<>>} /\ schema \in BOOLEAN
  /\ ~(bound # <<>> /\ schema)
  /\ kind \in {"Unset", "Read", "Dml"} /\ (autocommit => kind = "Unset" /\ buffered = {})

(* "a reused handle runs whichever was configured most recently", whatever was *)
(* configured, bound, executed or refused before.                              *)
RunsLatestDestination == out.ran # "nothing" => out.dest = out.latest

(* Bound rows are applied by one execution at most, also when that one failed. *)
RowsAppliedOnce == out.rows > 0 => ~out.stale

(* What a text without bound rows leaves in the buffer is single DML statements *)
(* without THEN RETURN, which ExecuteBatchDml can run: no query and no batch    *)
(* poisons the commit.                                                          *)
BufferedTextIsDml ==
  \A item \in buffered : ~item.bound => item.text = <<"dml">>

(* A read-only connection writes nothing, by any entry point. *)
ReadOnlyWritesNothing == out.written => ~out.readOnly

(* What reaches the database or the manual buffer was allowed to: no write on a *)
(* read-only connection, no text the commit could not run, nothing buffered in  *)
(* autocommit mode.                                                             *)
WritesAsAllowed == TypeOK /\ BufferedTextIsDml /\ ReadOnlyWritesNothing
=============================================================================
