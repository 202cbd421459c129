-------------------------- MODULE StatementProofs --------------------------
(***************************************************************************)
(* A reused statement handle (StatementHandle), for any texts and bindings.*)
(***************************************************************************)
EXTENDS StatementHandle, TLAPS

(* The destination configured last is the one the fields name: a query and a    *)
(* target exclude each other.  Data used by a query is the schema of an empty   *)
(* stream, never a row.                                                         *)
Destination ==
  /\ sql # NoText => ~target /\ latest = "sql"
  /\ sql = NoText /\ target => latest = "target"

UsedHasNoRows == used \in BOOLEAN /\ (used => bound = <<>>)

Modes == autocommit \in BOOLEAN /\ readOnly \in BOOLEAN

StatementInv ==
  /\ TypeOK /\ Modes /\ Destination /\ UsedHasNoRows
  /\ RunsLatestDestination /\ RowsAppliedOnce /\ BufferedTextIsDml /\ ReadOnlyWritesNothing

LEMMA NoTextIsNoText == NoText \notin Texts
<1> SUFFICES ASSUME NoText \in Texts PROVE FALSE
  OBVIOUS
<1>1. NoText \in Seq(PartKinds)
  BY TextsAssumption
<1>2. NoText[1] \in PartKinds
  BY <1>1 DEF NoText
<1> QED  BY <1>2 DEF NoText, PartKinds

(* The fold over no batch is its base. *)
LEMMA NoRows == bound = <<>> => Rows = 0
<1> SUFFICES ASSUME bound = <<>> PROVE Rows = 0
  OBVIOUS
<1> DEFINE F(g) == [s \in SUBSET DOMAIN bound |->
                      IF s = {} THEN 0
                      ELSE bound[CHOOSE x \in s : TRUE] + g[s \ {CHOOSE x \in s : TRUE}]]
           Z == CHOOSE g : g = F(g)
           zero == [s \in SUBSET DOMAIN bound |-> 0]
<1>1. DOMAIN bound = {}
  OBVIOUS
<1>2. zero = F(zero)
  BY <1>1
<1>3. Z = F(Z)
  <2> HIDE DEF F
  <2> QED  BY <1>2
<1>4. Z[DOMAIN bound] = F(Z)[DOMAIN bound]
  <2> HIDE DEF F, Z
  <2> QED  BY <1>3
<1>5. F(Z)[DOMAIN bound] = 0
  <2> HIDE DEF Z
  <2> QED  BY <1>1
<1>6. Rows = Z[DOMAIN bound]
  BY DEF Rows, SumFunction, SumFunctionOnSet, FoldFunctionOnSet, MapThenFoldSet
<1> QED  BY <1>4, <1>5, <1>6

-----------------------------------------------------------------------------
LEMMA StatementInit == Init => StatementInv
<1> SUFFICES ASSUME Init PROVE StatementInv
  OBVIOUS
<1>1. out.ran = "nothing" /\ out.rows = 0 /\ ~out.written
  BY Zenon DEF Init, Nothing
<1>2. RunsLatestDestination /\ RowsAppliedOnce /\ ReadOnlyWritesNothing
  BY <1>1 DEF RunsLatestDestination, RowsAppliedOnce, ReadOnlyWritesNothing
<1>3. TypeOK /\ Modes /\ Destination /\ UsedHasNoRows /\ BufferedTextIsDml
  BY DEF Init, TypeOK, Modes, Destination, UsedHasNoRows, BufferedTextIsDml
<1> QED  BY <1>2, <1>3 DEF StatementInv

(* What an execution reports, of a handle that satisfies the invariant. *)
LEMMA EffectFacts ==
  ASSUME StatementInv, NEW what, NEW rows, NEW written \in BOOLEAN,
         sql = NoText => target, used => rows = 0, written => ~readOnly,
         \/ out' = Effect(what, rows, written)
         \/ out' = [Effect(what, rows, written) EXCEPT !.stale = FALSE]
  PROVE  (RunsLatestDestination /\ RowsAppliedOnce /\ ReadOnlyWritesNothing)'
<1>1. out'.dest = (IF sql = NoText THEN "target" ELSE "sql") /\ out'.latest = latest
  BY DEF Effect
<1>2. out'.rows = rows
  BY DEF Effect
<1> DEFINE E == Effect(what, rows, written)
<1>a. E.stale = used /\ E.written = written /\ E.readOnly = readOnly
  BY Zenon DEF Effect
<1>b. DOMAIN E = {"ran", "dest", "latest", "rows", "stale", "written", "readOnly"}
  BY DEF Effect
<1>c. out' = E \/ out' = [E EXCEPT !.stale = FALSE]
  OBVIOUS
<1> HIDE DEF E
<1>3. out'.stale = E.stale \/ out'.stale = FALSE
  BY <1>b, <1>c
<1>4. out'.written = E.written /\ out'.readOnly = E.readOnly
  BY <1>b, <1>c
<1>5. RunsLatestDestination'
  BY <1>1 DEF StatementInv, Destination, RunsLatestDestination
<1>6. RowsAppliedOnce'
  <2>1. CASE out'.stale
    <3>1. rows = 0
      BY <1>a, <1>3, <2>1, Zenon
    <3> QED  BY <1>2, <3>1 DEF RowsAppliedOnce
  <2>2. CASE ~out'.stale
    BY <2>2, Zenon DEF RowsAppliedOnce
  <2> QED  BY <2>1, <2>2
<1>7. ReadOnlyWritesNothing'
  BY <1>a, <1>4, Zenon DEF ReadOnlyWritesNothing
<1> QED  BY <1>5, <1>6, <1>7

LEMMA RefusedFacts ==
  ASSUME StatementInv, NEW what, sql = NoText => target, Refused(what)
  PROVE  (RunsLatestDestination /\ RowsAppliedOnce /\ ReadOnlyWritesNothing)'
  BY EffectFacts DEF Refused

LEMMA DataKept ==
  ASSUME StatementInv, clear_bound \/ Keep \/ (UNCHANGED <<bound, schema>> /\ bound = <<>> /\ used' \in BOOLEAN)
  PROVE  /\ UsedHasNoRows'
         /\ bound' \in Bindings \cup {<<>>} /\ schema' \in BOOLEAN /\ ~(bound' # <<>> /\ schema')
<1> USE DEF StatementInv, TypeOK, UsedHasNoRows
<1>1. CASE clear_bound
  BY <1>1, Zenon DEF clear_bound
<1>2. CASE Keep
  BY <1>2, Zenon DEF Keep
<1>3. CASE UNCHANGED <<bound, schema>> /\ bound = <<>> /\ used' \in BOOLEAN
  BY <1>3, Zenon
<1> QED  BY <1>1, <1>2, <1>3

(* The statements of a batch without THEN RETURN, unbound, are DML. *)
LEMMA BatchIsDml ==
  ASSUME StatementInv, sql # NoText, is_dml(sql), dml_allowed, ~partitioned, ~is_dml_returning(sql),
         NEW item \in build_dml_statements, ~item.bound
  PROVE  item.text = <<"dml">>
<1>1. bound = <<>>
  BY DEF build_dml_statements
<1>2. PICK i \in DOMAIN sql : item = [text |-> <<sql[i]>>, bound |-> FALSE]
  BY <1>1 DEF build_dml_statements
<1>3. sql \in Seq(PartKinds)
  BY TextsAssumption DEF StatementInv, TypeOK
<1>4. sql[i] \in {"dml", "returning"}
  <2>1. CASE Len(sql) > 1
    BY <1>1, <2>1 DEF dml_allowed, check_all_dml_batch
  <2>2. CASE ~(Len(sql) > 1)
    <3>1. i = 1
      BY <1>3, <2>2
    <3> QED  BY <3>1 DEF is_dml
  <2> QED  BY <2>1, <2>2
<1>5. sql[i] # "returning"
  BY DEF is_dml_returning, Range
<1> QED  BY <1>2, <1>4, <1>5

-----------------------------------------------------------------------------
(* The parts of the invariant that an action leaves alone together. *)
DestOK == sql \in Texts \cup {NoText} /\ target \in BOOLEAN /\ Destination

DataOK ==
  /\ UsedHasNoRows
  /\ bound \in Bindings \cup {<<>>} /\ schema \in BOOLEAN /\ ~(bound # <<>> /\ schema)

TxnOK ==
  /\ autocommit \in BOOLEAN /\ kind \in {"Unset", "Read", "Dml"}
  /\ autocommit => kind = "Unset" /\ buffered = {}
  /\ BufferedTextIsDml

OutOK == RunsLatestDestination /\ RowsAppliedOnce /\ ReadOnlyWritesNothing

LEMMA Parts == StatementInv <=> DestOK /\ DataOK /\ TxnOK /\ OutOK /\ readOnly \in BOOLEAN
  BY Zenon DEF StatementInv, TypeOK, Modes, DestOK, DataOK, TxnOK, OutOK

LEMMA PartsAfter ==
  ASSUME DestOK', DataOK', TxnOK', OutOK', readOnly' \in BOOLEAN
  PROVE  StatementInv'
  BY Zenon DEF StatementInv, TypeOK, Modes, DestOK, DataOK, TxnOK, OutOK

LEMMA DestSame ==
  ASSUME DestOK, UNCHANGED destVars
  PROVE  DestOK'
  BY Zenon DEF DestOK, Destination, destVars

LEMMA DataSame ==
  ASSUME DataOK, UNCHANGED dataVars
  PROVE  DataOK'
  BY Zenon DEF DataOK, UsedHasNoRows, dataVars

LEMMA TxnSame ==
  ASSUME TxnOK, UNCHANGED txnVars
  PROVE  TxnOK'
  BY Zenon DEF TxnOK, BufferedTextIsDml, txnVars

LEMMA OutSame ==
  ASSUME OutOK, UNCHANGED out
  PROVE  OutOK'
  BY Zenon DEF OutOK, RunsLatestDestination, RowsAppliedOnce, ReadOnlyWritesNothing

LEMMA ConfigureStep ==
  ASSUME StatementInv, Configure \/ connection
  PROVE  StatementInv'
<1>0. DestOK /\ DataOK /\ TxnOK /\ OutOK /\ readOnly \in BOOLEAN
  BY Parts
<1> SUFFICES DestOK' /\ DataOK' /\ TxnOK' /\ OutOK' /\ readOnly' \in BOOLEAN
  BY PartsAfter
<1>1. CASE set_sql_query
  <2>1. DestOK'
    <3>1. PICK text \in Texts : sql' = text
      BY <1>1 DEF set_sql_query
    <3>2. sql' # NoText
      BY <3>1, NoTextIsNoText
    <3> QED  BY <1>1, <3>1, <3>2, Zenon DEF set_sql_query, DestOK, Destination
  <2> QED  BY <1>0, <1>1, <2>1, DataSame, TxnSame, OutSame DEF set_sql_query
<1>2. CASE set_target_table
  <2>1. DestOK'
    BY <1>2, Zenon DEF set_target_table, DestOK, Destination
  <2> QED  BY <1>0, <1>2, <2>1, DataSame, TxnSame, OutSame DEF set_target_table
<1>3. CASE set_dml_partitioned
  BY <1>0, <1>3, DestSame, DataSame, TxnSame, OutSame DEF set_dml_partitioned
<1>4. CASE bind
  <2>1. DataOK'
    <3>1. CASE bound' = <<>>
      BY <1>4, <3>1, Zenon DEF bind, DataOK, UsedHasNoRows
    <3>2. CASE bound' # <<>>
      BY <1>4, <3>2, Zenon DEF bind, DataOK, UsedHasNoRows
    <3> QED  BY <3>1, <3>2
  <2> QED  BY <1>0, <1>4, <2>1, DestSame, TxnSame, OutSame DEF bind
<1>5. CASE connection
  <2>1. UNCHANGED <<destVars, dataVars, out>>
    BY <1>5 DEF connection
  <2>2. TxnOK'
    <3>1. CASE UNCHANGED txnVars
      BY <1>0, <3>1, TxnSame
    <3>2. CASE autocommit' \in BOOLEAN /\ kind' = "Unset" /\ buffered' = {}
      BY <3>2, Zenon DEF TxnOK, BufferedTextIsDml
    <3> QED  BY <1>5, <3>1, <3>2 DEF connection
  <2>3. readOnly' \in BOOLEAN
    BY <1>0, <1>5, Zenon DEF connection
  <2> QED  BY <1>0, <2>1, <2>2, <2>3, DestSame, DataSame, OutSame
<1> QED  BY <1>1, <1>2, <1>3, <1>4, <1>5 DEF Configure

LEMMA ExecuteStep ==
  ASSUME StatementInv,
         run_ingest \/ run_ddl \/ run_dml \/ execute_query_reader \/ execute_partitions
  PROVE  StatementInv'
<1>0. DestOK /\ DataOK /\ TxnOK /\ OutOK /\ readOnly \in BOOLEAN
  BY Parts
<1> SUFFICES DestOK' /\ DataOK' /\ TxnOK' /\ OutOK' /\ readOnly' \in BOOLEAN
  BY PartsAfter
<1>a. DestOK' /\ readOnly' \in BOOLEAN
  BY <1>0, DestSame DEF run_ingest, run_ddl, run_dml, execute_query_reader, execute_partitions
<1>b. used => Rows = 0
  BY <1>0, NoRows, Zenon DEF DataOK, UsedHasNoRows
<1>c. ASSUME NEW what, Refused(what), sql = NoText => target PROVE OutOK'
  BY <1>c, RefusedFacts DEF OutOK
<1>d. ASSUME NEW what, NEW rows \in {0, Rows}, NEW written \in BOOLEAN, sql = NoText => target,
             written => ~readOnly,
             \/ out' = Effect(what, rows, written)
             \/ out' = [Effect(what, rows, written) EXCEPT !.stale = FALSE]
      PROVE  OutOK'
  <2>1. used => rows = 0
    BY <1>b
  <2> QED  BY <1>d, <2>1, EffectFacts DEF OutOK
<1>e. ASSUME clear_bound \/ Keep PROVE DataOK'
  BY <1>e, DataKept DEF DataOK
<1>1. CASE run_ingest
  <2>1. DataOK'
    BY <1>1, <1>e DEF run_ingest
  <2>2. OutOK' /\ TxnOK'
    <3>1. CASE ~check_kind_allowed("Dml")
      <4>1. Refused("ingest") /\ UNCHANGED txnVars /\ target
        BY <1>1, <3>1 DEF run_ingest
      <4> QED  BY <1>0, <1>c, <4>1, TxnSame
    <3>2. CASE check_kind_allowed("Dml")
      <4>1. out' = Effect("ingest", Rows, TRUE) /\ target /\ ~readOnly
        BY <1>1, <3>2 DEF run_ingest
      <4>2. OutOK'
        BY <1>d, <4>1
      <4>3. UNCHANGED txnVars \/ (~autocommit /\ kind' = "Dml" /\ UNCHANGED <<autocommit, buffered>>)
        BY <1>1, <3>2 DEF run_ingest
      <4>4. TxnOK'
        <5>1. CASE UNCHANGED txnVars
          BY <1>0, <5>1, TxnSame
        <5>2. CASE ~autocommit /\ kind' = "Dml" /\ UNCHANGED <<autocommit, buffered>>
          BY <1>0, <5>2, Zenon DEF TxnOK, BufferedTextIsDml
        <5> QED  BY <4>3, <5>1, <5>2
      <4> QED  BY <4>2, <4>4
    <3> QED  BY <3>1, <3>2
  <2> QED  BY <1>a, <2>1, <2>2
<1>2. CASE run_ddl
  <2>1. out' = [Effect("ddl", 0, TRUE) EXCEPT !.stale = FALSE] /\ ~readOnly /\ sql # NoText
    BY <1>2 DEF run_ddl
  <2>2. OutOK'
    BY <1>d, <2>1
  <2>3. DataOK'
    BY <1>2, <1>e DEF run_ddl
  <2>4. TxnOK'
    BY <1>0, <1>2, TxnSame DEF run_ddl
  <2> QED  BY <1>a, <2>2, <2>3, <2>4
<1>3. CASE run_dml
  <2>1. DataOK' /\ sql # NoText
    BY <1>3, <1>e DEF run_dml
  <2>2. CASE ~dml_allowed
    <3>1. Refused("dml") /\ UNCHANGED txnVars
      BY <1>3, <2>2 DEF run_dml
    <3> QED  BY <1>0, <1>a, <1>c, <2>1, <3>1, TxnSame
  <2>3. CASE dml_allowed
    <3> DEFINE what == IF partitioned THEN "partitioned"
                       ELSE IF is_dml_returning(sql) THEN "returning" ELSE "dml"
    <3>1. /\ out' = Effect(what, Rows, TRUE)
          /\ IF what = "dml" /\ ~autocommit THEN Buffer(build_dml_statements) ELSE UNCHANGED txnVars
      BY <1>3, <2>3 DEF run_dml
    <3>2. ~readOnly
      BY <2>3 DEF dml_allowed
    <3>3. OutOK'
      <4> HIDE DEF what
      <4> QED  BY <1>d, <2>1, <3>1, <3>2
    <3>4. CASE UNCHANGED txnVars
      BY <1>0, <1>a, <2>1, <3>3, <3>4, TxnSame
    <3>5. CASE what = "dml" /\ ~autocommit /\ Buffer(build_dml_statements)
      <4>1. ~partitioned /\ ~is_dml_returning(sql)
        BY <3>5
      <4>2. \A item \in build_dml_statements : ~item.bound => item.text = <<"dml">>
        BY <1>3, <2>1, <2>3, <4>1, BatchIsDml DEF run_dml
      <4>3. BufferedTextIsDml'
        BY <1>0, <3>5, <4>2, Zenon DEF Buffer, TxnOK, BufferedTextIsDml
      <4>4. kind' \in {kind, "Dml"} /\ autocommit' = autocommit
        BY <3>5 DEF Buffer
      <4>5. TxnOK'
        BY <1>0, <3>5, <4>3, <4>4, Zenon DEF TxnOK
      <4> QED  BY <1>a, <2>1, <3>3, <4>5
    <3> QED  BY <3>1, <3>4, <3>5
  <2> QED  BY <2>2, <2>3
<1>4. CASE execute_query_reader
  <2>0. sql # NoText
    BY <1>4 DEF execute_query_reader
  <2>1. ASSUME manual_read_transaction, check_kind_allowed("Read") PROVE TxnOK'
    <3>1. CASE autocommit
      BY <1>0, <2>1, <3>1, Zenon DEF manual_read_transaction, TxnOK, BufferedTextIsDml
    <3>2. CASE ~autocommit
      BY <1>0, <2>1, <3>2, Zenon DEF manual_read_transaction, TxnOK, BufferedTextIsDml
    <3> QED  BY <3>1, <3>2
  <2>2. CASE ~check_kind_allowed("Read")
    <3>1. Keep /\ Refused("query") /\ UNCHANGED txnVars
      BY <1>4, <2>2 DEF execute_query_reader
    <3> QED  BY <1>0, <1>a, <1>c, <1>e, <2>0, <3>1, TxnSame
  <2>3. CASE check_kind_allowed("Read") /\ QueryUnbound
    <3>1. /\ bound = <<>> /\ UNCHANGED <<bound, schema>>
          /\ \/ manual_read_transaction /\ used' = (used \/ schema) /\ out' = Effect("query", 0, FALSE)
             \/ UNCHANGED <<used, txnVars>> /\ Refused("query")
      BY <2>3 DEF QueryUnbound
    <3>2. used' \in BOOLEAN
      BY <1>0, <3>1, Zenon DEF DataOK, UsedHasNoRows
    <3>3. DataOK'
      BY <3>1, <3>2, DataKept DEF DataOK
    <3>4. CASE manual_read_transaction /\ out' = Effect("query", 0, FALSE)
      <4>1. OutOK'
        BY <1>d, <2>0, <3>4
      <4> QED  BY <1>a, <2>1, <2>3, <3>3, <3>4, <4>1
    <3>5. CASE UNCHANGED txnVars /\ Refused("query")
      BY <1>0, <1>a, <1>c, <2>0, <3>3, <3>5, TxnSame
    <3> QED  BY <3>1, <3>4, <3>5
  <2>4. CASE check_kind_allowed("Read") /\ execute_bound_query
    <3>1. DataOK'
      BY <1>e, <2>4 DEF execute_bound_query
    <3>2. CASE Refused("query") /\ UNCHANGED txnVars
      BY <1>0, <1>a, <1>c, <2>0, <3>1, <3>2, TxnSame
    <3>3. CASE out' = Effect("query", Rows, FALSE) /\ manual_read_transaction
      <4>1. OutOK'
        BY <1>d, <2>0, <3>3
      <4> QED  BY <1>a, <2>1, <2>4, <3>1, <3>3, <4>1
    <3> QED  BY <2>4, <3>2, <3>3 DEF execute_bound_query
  <2> QED  BY <1>4, <2>2, <2>3, <2>4 DEF execute_query_reader
<1>5. CASE execute_partitions
  <2>1. sql # NoText /\ clear_bound /\ UNCHANGED txnVars
    BY <1>5 DEF execute_partitions
  <2>2. DataOK' /\ TxnOK'
    BY <1>0, <1>e, <2>1, TxnSame
  <2>3. out' = Effect("partitions", Rows, FALSE) \/ Refused("partitions")
    BY <1>5 DEF execute_partitions
  <2>4. OutOK'
    BY <1>c, <1>d, <2>1, <2>3
  <2> QED  BY <1>a, <2>2, <2>4
<1> QED  BY <1>1, <1>2, <1>3, <1>4, <1>5

LEMMA StatementInvariant == Spec => []StatementInv
<1>1. Init => StatementInv
  BY StatementInit
<1>2. StatementInv /\ [Next]_vars => StatementInv'
  <2> SUFFICES ASSUME StatementInv, [Next]_vars PROVE StatementInv'
    OBVIOUS
  <2>1. CASE Next
    BY <2>1, ConfigureStep, ExecuteStep DEF Next
  <2>2. CASE UNCHANGED vars
    <3>1. UNCHANGED <<destVars, dataVars, txnVars, out, readOnly>>
      BY <2>2 DEF vars
    <3> QED  BY <3>1, Parts, PartsAfter, DestSame, DataSame, TxnSame, OutSame
  <2> QED  BY <2>1, <2>2
<1> QED  BY <1>1, <1>2, PTL DEF Spec

(* set_sql_query and set_target_table: an execution goes to whichever of the    *)
(* two was called last, whatever was bound, executed or refused in between.     *)
THEOREM LatestDestinationRuns == Spec => []RunsLatestDestination
<1>1. StatementInv => RunsLatestDestination
  BY DEF StatementInv
<1> QED  BY <1>1, StatementInvariant, PTL

(* clear_bound: no bound row takes part in a second execution, also when the    *)
(* first one failed.                                                            *)
THEOREM BoundRowsRunOnce == Spec => []RowsAppliedOnce
<1>1. StatementInv => RowsAppliedOnce
  BY DEF StatementInv
<1> QED  BY <1>1, StatementInvariant, PTL

(* The guards of run_ingest, run_ddl and run_dml: nothing is written on a       *)
(* read-only connection, nothing is buffered in autocommit mode, and an unbound *)
(* text reaches the manual buffer only as single DML statements.                *)
THEOREM OnlyAllowedWrites == Spec => []WritesAsAllowed
<1>1. StatementInv => WritesAsAllowed
  BY DEF StatementInv, WritesAsAllowed
<1> QED  BY <1>1, StatementInvariant, PTL
=============================================================================
