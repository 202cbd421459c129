----------------------------- MODULE Statistics ----------------------------
(***************************************************************************)
(* Connection::get_statistics (src/connection.rs, src/statistics.rs): two  *)
(* INFORMATION_SCHEMA reads, then one aggregate scan per table, several at *)
(* a time, all in one multi-use snapshot while other clients change data   *)
(* and schema.                                                             *)
(*                                                                         *)
(* A count is not a number here but what was counted: the version, the     *)
(* table and the expression.  A pattern is the set of names it matches     *)
(* (module LikePattern).                                                   *)
(***************************************************************************)
EXTENDS Naturals, Sequences, SequencesExt, FiniteSets

CONSTANTS
  Versions,        \* the schema at each version: a sequence of sequences of tables
  Filters,         \* records of the schemas and the tables the patterns match
  Concurrency,     \* STATISTICS_SCAN_CONCURRENCY: 8
  MaxFaults        \* bound: queries that fail

VARIABLES
  version,    \* the current version of the database
  read,       \* the version each query so far has read, 0 before the first
  pc,
  filter,
  tables, columns,   \* table_batch and column_batch
  prepared,          \* the aggregate queries, in order
  scans,             \* how far each scan is: "new", "running", "failed" or its row
  batches,           \* the rows yielded so far, in order
  result,            \* the statistics by schema
  faults

vars == <<version, read, pc, filter, tables, columns, prepared, scans, batches, result, faults>>

StatisticsAssumption == Concurrency \in Nat \ {0} /\ MaxFaults \in Nat /\ Len(Versions) > 0

NoRow == <<>>
New == [at |-> "new", row |-> NoRow]

-----------------------------------------------------------------------------
(* Spanner. The first query of a multi-use transaction fixes its version;  *)
(* a table is {schema, table, columns}, a column {name, hidden, groupable}.*)
Snapshot == IF read = {} THEN version ELSE CHOOSE v \in read : TRUE

(* Mutant: every query is a transaction of its own. *)
query_txn_single_use(v) == /\ v = version /\ read' = read \cup {v}

query_txn(v) == /\ v = Snapshot /\ read' = read \cup {v}

(* The names of a table in the schema of version v. *)
Table(v, schema, table) == {t \in Range(Versions[v]) : t.schema = schema /\ t.table = table}

(* The row of an aggregate query, or an error of the analyzer. *)
Analyzed(v, p) ==
  \E t \in Table(v, p.schema, p.table) :
    \A i \in DOMAIN p.exprs :
      p.exprs[i].fn = "rows" \/ \E c \in Range(t.columns) :
        c.name = p.exprs[i].col /\ (p.exprs[i].fn = "distinct" => c.groupable)
RowOf(v, p) == [i \in DOMAIN p.exprs |-> [v |-> v, schema |-> p.schema, table |-> p.table, expr |-> p.exprs[i]]]

(* Another client changes the schema and the rows. *)
change ==
  /\ version < Len(Versions) /\ pc # "done"
  /\ version' = version + 1
  /\ UNCHANGED <<read, pc, filter, tables, columns, prepared, scans, batches, result, faults>>

-----------------------------------------------------------------------------
Init ==
  /\ version = 1 /\ read = {} /\ pc = "tables"
  /\ filter \in Filters
  /\ tables = <<>> /\ columns = <<>> /\ prepared = <<>> /\ scans = <<>>
  /\ batches = <<>> /\ result = <<>> /\ faults = 0

select_tables ==
  /\ pc = "tables"
  /\ \E v \in 1..version : query_txn(v) /\ tables' = Versions[v]
  /\ pc' = "columns"
  /\ UNCHANGED <<version, filter, columns, prepared, scans, batches, result, faults>>

(* Hidden columns are left out; the rest is ordered by table and position. *)
select_columns ==
  /\ pc = "columns"
  /\ \E v \in 1..version :
       /\ query_txn(v)
       /\ columns' = FlattenSeq([i \in DOMAIN Versions[v] |->
            LET t == Versions[v][i]
                seen == SelectSeq(t.columns, LAMBDA c : ~c.hidden)
            IN [j \in DOMAIN seen |-> [schema |-> t.schema, table |-> t.table, name |-> seen[j].name,
                                       groupable |-> seen[j].groupable]]])
  /\ pc' = "prepare"
  /\ UNCHANGED <<version, filter, tables, prepared, scans, batches, result, faults>>

Expr(fn, col) == [fn |-> fn, col |-> col]

(* Mutant: the plan lists a distinct count for every column. *)
build_table_query_plan_all(schema, table, cols) ==
  LET Of(c) == IF c.groupable THEN <<Expr("nulls", c.name), Expr("distinct", c.name)>> ELSE <<Expr("nulls", c.name)>>
      All(c) == <<Expr("nulls", c.name), Expr("distinct", c.name)>>
      counted == FlattenSeq([i \in DOMAIN cols |-> Of(cols[i])])
      planned == FlattenSeq([i \in DOMAIN cols |-> All(cols[i])])
  IN [schema |-> schema, table |-> table, exprs |-> <<Expr("rows", "none")>> \o counted,
      plan |-> SubSeq(planned, 1, Len(counted))]

(* One aggregate per statistic, and the plan that says which is which. *)
build_table_query(schema, table, cols) ==
  LET Of(c) == IF c.groupable THEN <<Expr("nulls", c.name), Expr("distinct", c.name)>> ELSE <<Expr("nulls", c.name)>>
      plan == FlattenSeq([i \in DOMAIN cols |-> Of(cols[i])])
  IN [schema |-> schema, table |-> table, exprs |-> <<Expr("rows", "none")>> \o plan, plan |-> plan]

(* The tables that match, in order, each with its own columns. *)
prepare ==
  /\ pc = "prepare"
  /\ LET matching == SelectSeq(tables, LAMBDA t : t.schema \in filter.schemas /\ t.table \in filter.tables)
     IN /\ prepared' = [i \in DOMAIN matching |->
             build_table_query(matching[i].schema, matching[i].table,
               SelectSeq(columns, LAMBDA c : c.schema = matching[i].schema /\ c.table = matching[i].table))]
        /\ scans' = [i \in DOMAIN matching |-> New]
  /\ pc' = "scan"
  /\ UNCHANGED <<version, read, filter, tables, columns, batches, result, faults>>

(* buffered: the next scan starts while fewer than the limit are in the    *)
(* window, the ones that ended and wait for an earlier one included.       *)
poll(i) ==
  /\ pc = "scan" /\ i \in DOMAIN scans /\ scans[i].at = "new"
  /\ \A j \in 1..(i - 1) : scans[j].at # "new"
  /\ i - Len(batches) <= Concurrency
  /\ scans' = [scans EXCEPT ![i].at = "running"]
  /\ UNCHANGED <<version, read, pc, filter, tables, columns, prepared, batches, result, faults>>

(* A scan ends, in any order. *)
scan(i) ==
  /\ pc = "scan" /\ i \in DOMAIN scans /\ scans[i].at = "running"
  /\ \E v \in 1..version :
       /\ query_txn(v)
       /\ scans' = [scans EXCEPT ![i] = IF Analyzed(v, prepared[i]) THEN [at |-> "ended", row |-> RowOf(v, prepared[i])]
                                        ELSE [at |-> "failed", row |-> NoRow]]
  /\ UNCHANGED <<version, pc, filter, tables, columns, prepared, batches, result, faults>>

(* A scan fails of itself. *)
scan_fails(i) ==
  /\ pc = "scan" /\ i \in DOMAIN scans /\ scans[i].at = "running"
  /\ faults < MaxFaults /\ faults' = faults + 1
  /\ scans' = [scans EXCEPT ![i].at = "failed"]
  /\ UNCHANGED <<version, read, pc, filter, tables, columns, prepared, batches, result>>

(* The rows are collected in the order of the queries. *)
yield(i) ==
  /\ pc = "scan" /\ i = Len(batches) + 1 /\ i \in DOMAIN scans /\ scans[i].at = "ended"
  /\ batches' = Append(batches, scans[i].row)
  /\ scans' = [scans EXCEPT ![i].at = "yielded"]
  /\ UNCHANGED <<version, read, pc, filter, tables, columns, prepared, result, faults>>

(* Mutant: the scan that failed is run again, and fails again.             *)
yield_error_retries ==
  /\ pc = "scan" /\ Len(batches) < Len(scans) /\ scans[Len(batches) + 1].at = "failed"
  /\ scans' = [scans EXCEPT ![Len(batches) + 1].at = "failed"]
  /\ UNCHANGED <<version, read, pc, filter, tables, columns, prepared, batches, result, faults>>

(* The first error in that order ends the call and drops the other scans. *)
yield_error ==
  /\ pc = "scan" /\ Len(batches) < Len(scans) /\ scans[Len(batches) + 1].at = "failed"
  /\ pc' = "failed"
  /\ UNCHANGED <<version, read, filter, tables, columns, prepared, scans, batches, result, faults>>

parse_table_statistics(row, p) ==
  <<[table |-> p.table, stat |-> Expr("rows", "none"), value |-> row[1]]>>
    \o [i \in DOMAIN p.plan |-> [table |-> p.table, stat |-> p.plan[i], value |-> row[i + 1]]]

(* A table's statistics go to the slot of its schema, in first-seen order. *)
regroup(acc, i) ==
  LET stats == parse_table_statistics(batches[i], prepared[i])
      schema == prepared[i].schema
      slots == {k \in DOMAIN acc : acc[k].schema = schema}
  IN IF slots = {} THEN Append(acc, [schema |-> schema, stats |-> stats])
     ELSE [acc EXCEPT ![CHOOSE k \in slots : TRUE].stats = @ \o stats]

(* The batches are parsed, grouped and built into the result. *)
build ==
  /\ pc = "scan" /\ Len(batches) = Len(prepared)
  /\ result' = FoldLeft(regroup, <<>>, [i \in DOMAIN prepared |-> i])
  /\ pc' = "done"
  /\ UNCHANGED <<version, read, filter, tables, columns, prepared, scans, batches, faults>>

(* A discovery query fails, or a timeout or a cancel ends the phase.       *)
fail ==
  /\ faults < MaxFaults /\ faults' = faults + 1
  /\ pc \in {"tables", "columns", "scan"} /\ pc' = "failed"
  /\ UNCHANGED <<version, read, filter, tables, columns, prepared, scans, batches, result>>

Next ==
  \/ change \/ select_tables \/ select_columns \/ prepare
  \/ \E i \in DOMAIN scans : poll(i) \/ scan(i) \/ scan_fails(i) \/ yield(i)
  \/ yield_error \/ build \/ fail

Spec == Init /\ [][Next]_vars

(* The driver's future is polled and Spanner answers: every step of the    *)
(* call itself is taken in the end.                                        *)
Call == select_tables \/ select_columns \/ prepare \/ yield_error \/ build
          \/ \E i \in DOMAIN scans : poll(i) \/ scan(i) \/ yield(i)
LiveSpec == Spec /\ WF_vars(Call)

-----------------------------------------------------------------------------
Reported == UNION {{[schema |-> g.schema, s |-> s] : s \in Range(g.stats)} : g \in Range(result)}

(* Every statistic reported is the count of its own table and column, and  *)
(* all of them are counted at one version, whatever other clients change   *)
(* and in whatever order the scans end.                                    *)
EachCountItsOwn ==
  \A r \in Reported :
    r.s.value = [v |-> Snapshot, schema |-> r.schema, table |-> r.s.table, expr |-> r.s.stat]

(* The result has each schema once, and in it every statistic of every     *)
(* matching table of the snapshot: no more and no less.                    *)
Complete ==
  pc = "done" =>
    LET matching == {t \in Range(Versions[Snapshot]) : t.schema \in filter.schemas /\ t.table \in filter.tables}
        Stats(t) == {Expr("rows", "none")}
                      \cup {Expr("nulls", c.name) : c \in {x \in Range(t.columns) : ~x.hidden}}
                      \cup {Expr("distinct", c.name) : c \in {x \in Range(t.columns) : ~x.hidden /\ x.groupable}}
    IN /\ \A i, j \in DOMAIN result : result[i].schema = result[j].schema => i = j
       /\ {<<r.schema, r.s.table, r.s.stat>> : r \in Reported}
            = UNION {{<<t.schema, t.table, e>> : e \in Stats(t)} : t \in matching}

(* A table that is created, altered or dropped while the call runs cannot  *)
(* fail it: only a query that fails of itself does.                        *)
OnlyFaultsFail == pc = "failed" => faults > 0

(* The call ends: the scans that wait for an earlier one cannot keep it    *)
(* from starting.                                                          *)
CallEnds == <>(pc \in {"done", "failed"})

(* The result is the statistics of one version of the schema, all of them, and *)
(* each under the table and column it counts; only a query that fails of       *)
(* itself keeps the caller from it.                                            *)
StatisticsExact == EachCountItsOwn /\ Complete /\ OnlyFaultsFail
=============================================================================
