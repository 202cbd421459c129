------------------------------ MODULE Objects ------------------------------
(***************************************************************************)
(* get_objects (src/objects.rs, src/connection.rs, src/metadata.rs): up to *)
(* six INFORMATION_SCHEMA queries run concurrently on one multi-use        *)
(* read-only transaction while other clients change the schema; the        *)
(* batches are grouped, filtered and joined on the client into the         *)
(* catalog / schema / table / column hierarchy.                            *)
(*                                                                         *)
(* A name pattern is the set of the names it matches (LikePattern is about *)
(* the matching).  A batch is the set of its rows; where the query has an  *)
(* ORDER BY the group made of it is a sequence.                            *)
(***************************************************************************)
EXTENDS Naturals, Sequences, FiniteSets, SequencesExt

CONSTANTS
  Catalogs,   \* the schemas the database can have
  Filters,    \* the arguments a host passes
  MaxDdl      \* bound: schema changes in a behaviour

VARIABLES
  history,    \* the schema versions of the database, oldest first
  call,       \* the running or last call: its arguments, where it stands
  txn,        \* the version the transaction reads, 0 before the inline begin
  batches,    \* the batch of each query that has answered
  result      \* the record batch handed back, meaningful in "done"

vars == <<history, call, txn, batches, result>>

BoundAssumption == MaxDdl \in Nat

Depths == {"catalogs", "schemas", "tables", "columns", "all"}
Queries == {"schemata", "tables", "columns", "constraints", "key_columns", "referential"}
ForeignKey == "FOREIGN KEY"

(* A nullable Arrow list. *)
NullList == [null |-> TRUE, items |-> {}]
List(S) == [null |-> FALSE, items |-> S]

populate_tables(depth) == depth \in {"tables", "columns", "all"}
populate_columns(depth) == depth \in {"columns", "all"}

Needed(depth) ==
  {q \in Queries : CASE q = "schemata" -> depth # "catalogs"
                     [] q = "tables" -> populate_tables(depth)
                     [] OTHER -> populate_columns(depth)}

-----------------------------------------------------------------------------
(* What the queries return for the schema c.  The filters pushed down are  *)
(* p: LIKE on the server keeps at least the names the pattern matches.     *)

(* CONSTRAINT_COLUMN_USAGE: the key columns, the columns a check reads, or *)
(* the referenced columns of a foreign key.                                *)
ColumnUsage(c, k) ==
  LET parent == CHOOSE u \in c.keys : <<u.schema, u.name>> = k.parent
  IN IF k.type = ForeignKey
     THEN {<<parent.schema, parent.table, x>> : x \in Range(k.refs)}
     ELSE {<<k.schema, k.table, x>> : x \in Range(k.cols) \cup k.checks}

HiddenColumns(c) ==
  UNION {{<<t.schema, t.name, t.cols[i].name>> : i \in {j \in DOMAIN t.cols : t.cols[j].hidden}}
         : t \in c.tables}

schemata_stmt(c, p) == {s \in c.schemas : s \in p.schema}

tables_stmt(c, p) ==
  {[schema |-> t.schema, name |-> t.name, type |-> t.type]
   : t \in {u \in c.tables : u.schema \in p.schema /\ u.name \in p.table}}

columns_stmt(c, p) ==
  UNION {{[schema |-> t.schema, table |-> t.name, name |-> t.cols[i].name, ordinal |-> i]
          : i \in {j \in DOMAIN t.cols : ~t.cols[j].hidden /\ t.cols[j].name \in p.column}}
         : t \in {u \in c.tables : u.schema \in p.schema /\ u.name \in p.table}}

HIDE_HIDDEN_COLUMN_CONSTRAINTS(c, k) == ColumnUsage(c, k) \cap HiddenColumns(c) = {}

constraints_stmt(c, p) ==
  {[schema |-> k.schema, table |-> k.table, name |-> k.name, type |-> k.type]
   : k \in {u \in c.keys : /\ HIDE_HIDDEN_COLUMN_CONSTRAINTS(c, u)
                           /\ u.schema \in p.schema /\ u.table \in p.table}}

(* The row of key column i of k; position is 0 (NULL) except for a foreign *)
(* key, where it is the referenced column's place in the parent key.       *)
KeyRow(c, k, i) ==
  LET parent == CHOOSE u \in c.keys : <<u.schema, u.name>> = k.parent
  IN [cs |-> k.schema, cn |-> k.name, schema |-> k.schema, table |-> k.table,
      column |-> k.cols[i], ordinal |-> i,
      position |-> IF k.type = ForeignKey
                   THEN CHOOSE j \in DOMAIN parent.cols : parent.cols[j] = k.refs[i]
                   ELSE 0]

key_columns_stmt(c, p) == UNION {{KeyRow(c, k, i) : i \in DOMAIN k.cols} : k \in c.keys}

referential_stmt(c, p) ==
  {[cs |-> k.schema, cn |-> k.name, unique |-> k.parent]
   : k \in {u \in c.keys : u.type = ForeignKey}}

Answer(q, c, p) ==
  CASE q = "schemata" -> schemata_stmt(c, p)
    [] q = "tables" -> tables_stmt(c, p)
    [] q = "columns" -> columns_stmt(c, p)
    [] q = "constraints" -> constraints_stmt(c, p)
    [] q = "key_columns" -> key_columns_stmt(c, p)
    [] q = "referential" -> referential_stmt(c, p)

-----------------------------------------------------------------------------
(* The assembly on the client, from the batches b and the filters f.       *)

ByOrdinal(rows) == SetToSortSeq(rows, LAMBDA x, y : x.ordinal < y.ordinal)

group_tables(b, s) == {r \in b.tables : r.schema = s}
group_constraints(b, s, t) == {r \in b.constraints : r.schema = s /\ r.table = t}
group_referential(b, s, n) == {r \in b.referential : r.cs = s /\ r.cn = n}
group_columns(b, s, t) == ByOrdinal({r \in b.columns : r.schema = s /\ r.table = t})
group_key_columns(b, s, n) == ByOrdinal({r \in b.key_columns : r.cs = s /\ r.cn = n})

Column(r) == [name |-> r.name, ordinal |-> r.ordinal]
Usage(r) == <<r.schema, r.table, r.column>>

collect_columns(b, s, t, f) ==
  LET kept == SelectSeq(group_columns(b, s, t), LAMBDA r : r.name \in f.column)
  IN [i \in DOMAIN kept |-> Column(kept[i])]

foreign_key_usages(b, s, n) ==
  LET refs == group_referential(b, s, n)
      unique == (CHOOSE r \in refs : TRUE).unique
      referenced == {r \in b.key_columns : <<r.cs, r.cn>> = unique}
      At(position) == CHOOSE r \in referenced : r.ordinal = position
      found == SelectSeq(group_key_columns(b, s, n),
                         LAMBDA k : k.position > 0 /\ \E r \in referenced : r.ordinal = k.position)
  IN IF refs = {} THEN <<>>
     ELSE [i \in DOMAIN found |-> Usage(At(found[i].position))]

collect_constraints(b, s, t) ==
  {LET keys == group_key_columns(b, s, k.name)
   IN [name |-> k.name, type |-> k.type,
       columns |-> [i \in DOMAIN keys |-> keys[i].column],
       usages |-> IF k.type = ForeignKey THEN foreign_key_usages(b, s, k.name) ELSE <<>>]
   : k \in group_constraints(b, s, t)}

assemble_objects(b, f) ==
  {[name |-> s,
    tables |-> {[name |-> t.name, type |-> t.type,
                 columns |-> collect_columns(b, s, t.name, f),
                 constraints |-> collect_constraints(b, s, t.name)]
                : t \in {r \in group_tables(b, s) : /\ r.name \in f.table
                                                    /\ f.typed => r.type \in f.types}}]
   : s \in {n \in b.schemata : n \in f.schema}}

(* constraint_column_usage is NULL, not empty, but for a foreign key. *)
build_constraint_struct(k) ==
  [k EXCEPT !.usages = [null |-> k.type # ForeignKey, items |-> k.usages]]

build(depth, schemas) ==
  LET BuildTable(t) == IF populate_columns(depth)
                       THEN [t EXCEPT !.columns = List({@}),
                                      !.constraints = List({build_constraint_struct(k) : k \in @})]
                       ELSE [t EXCEPT !.columns = NullList, !.constraints = NullList]
  IN IF depth = "catalogs" THEN NullList
     ELSE List({[s EXCEPT !.tables = IF populate_tables(depth)
                                     THEN List({BuildTable(t) : t \in @}) ELSE NullList]
                : s \in schemas})

-----------------------------------------------------------------------------
NoBatches == [q \in Queries |-> {}]
NoFilter(f) == [f EXCEPT !.schema = f.names, !.table = f.names, !.column = f.names, !.typed = FALSE]
Idle == [pc |-> "idle"]

Init ==
  /\ history \in {<<c>> : c \in Catalogs}
  /\ call = Idle
  /\ txn = 0
  /\ batches = NoBatches
  /\ result = NullList

(* Another client's DDL. *)
ddl ==
  /\ Len(history) <= MaxDdl
  /\ \E c \in Catalogs \ {history[Len(history)]} : history' = Append(history, c)
  /\ UNCHANGED <<call, txn, batches, result>>

(* A call whose catalog pattern does not match this database has no rows   *)
(* and reads nothing.  pushed is what the server makes of the patterns.    *)
get_objects(depth, f, matches, stale, pushed) ==
  /\ call.pc = "idle"
  /\ call' = [pc |-> IF matches THEN "running" ELSE "empty", depth |-> depth, f |-> f,
              matches |-> matches, stale |-> stale, pushed |-> pushed, since |-> Len(history),
              pending |-> IF matches THEN Needed(depth) ELSE {}]
  /\ UNCHANGED <<history, txn, batches, result>>

(* Mutant: each query has a read-only transaction of its own. *)
query_txn_single_use(q) ==
  /\ call.pc = "running" /\ q \in call.pending
  /\ txn' = Len(history)
  /\ batches' = [batches EXCEPT ![q] = Answer(q, history[Len(history)], call.pushed)]
  /\ call' = [call EXCEPT !.pending = @ \ {q}]
  /\ UNCHANGED <<history, result>>

(* One query answers, in any order; the first to arrive begins the         *)
(* transaction, at the read timestamp the staleness allows.                *)
query_txn(q) ==
  /\ call.pc = "running" /\ q \in call.pending
  /\ txn' \in IF txn > 0 THEN {txn}
              ELSE IF call.stale THEN 1..Len(history) ELSE {Len(history)}
  /\ batches' = [batches EXCEPT ![q] = Answer(q, history[txn'], call.pushed)]
  /\ call' = [call EXCEPT !.pending = @ \ {q}]
  /\ UNCHANGED <<history, result>>

(* try_join: one query's error, the deadline or a cancel ends the call. *)
query_failed ==
  /\ call.pc = "running" /\ call.pending # {}
  /\ call' = Idle
  /\ txn' = 0
  /\ batches' = NoBatches
  /\ UNCHANGED <<history, result>>

collect_objects ==
  /\ call.pc = "running" /\ call.pending = {}
  /\ result' = build(call.depth, assemble_objects(batches, call.f))
  /\ call' = [call EXCEPT !.pc = "done"]
  /\ UNCHANGED <<history, txn, batches>>

(* The host takes the result. *)
Return ==
  /\ call.pc \in {"done", "empty"}
  /\ call' = Idle
  /\ txn' = 0
  /\ batches' = NoBatches
  /\ result' = NullList
  /\ UNCHANGED history

Next ==
  \/ ddl
  \/ \E depth \in Depths, f \in Filters, matches, stale, pushes \in BOOLEAN :
        get_objects(depth, f, matches, stale, IF pushes THEN f ELSE NoFilter(f))
  \/ \E q \in Queries : query_txn(q)
  \/ query_failed
  \/ collect_objects
  \/ Return

Spec == Init /\ [][Next]_vars

-----------------------------------------------------------------------------
(* The reference: what the schema c has, read off c itself.                *)
Visible(t) == {i \in DOMAIN t.cols : ~t.cols[i].hidden}
VisibleNames(t) == {t.cols[i].name : i \in Visible(t)}

DescribeKey(c, k) ==
  LET parent == CHOOSE u \in c.keys : <<u.schema, u.name>> = k.parent
  IN [name |-> k.name, type |-> k.type, columns |-> k.cols,
      usages |-> [null |-> k.type # ForeignKey,
                  items |-> [i \in DOMAIN k.refs |-> <<parent.schema, parent.table, k.refs[i]>>]]]

DescribeTable(c, t, f) ==
  LET shown == {i \in Visible(t) : t.cols[i].name \in f.column}
  IN [name |-> t.name, type |-> t.type,
      columns |-> List({SetToSortSeq({[name |-> t.cols[i].name, ordinal |-> i] : i \in shown},
                                     LAMBDA x, y : x.ordinal < y.ordinal)}),
      constraints |-> List({DescribeKey(c, k) : k \in {u \in c.keys :
        /\ u.schema = t.schema /\ u.table = t.name
        /\ (Range(u.cols) \cup u.checks) \subseteq VisibleNames(t)}})]

Describe(c, depth, f) ==
  LET Wanted(s) == {t \in c.tables : t.schema = s /\ t.name \in f.table /\ (f.typed => t.type \in f.types)}
      Shown(t) == IF depth = "tables"
                  THEN [name |-> t.name, type |-> t.type, columns |-> NullList, constraints |-> NullList]
                  ELSE DescribeTable(c, t, f)
  IN IF depth = "catalogs" THEN NullList
     ELSE List({[name |-> s, tables |-> IF depth = "schemas" THEN NullList
                                        ELSE List({Shown(t) : t \in Wanted(s)})]
                : s \in c.schemas \cap f.schema})

-----------------------------------------------------------------------------
(* The hierarchy is the one the schema had at one moment: a version the    *)
(* staleness allows, and for a strong read one no older than the call.     *)
(* Schema changes landing between the queries are seen by all or by none.  *)
OneSnapshot ==
  call.pc = "done" =>
    \E v \in (IF call.stale THEN 1 ELSE call.since)..Len(history) :
      result = Describe(history[v], call.depth, call.f)

=============================================================================
