---------------------------- MODULE BoundQuery -----------------------------
(***************************************************************************)
(* A query run once per bound row, and a plain one (src/statement.rs,      *)
(* src/conversion.rs): statements built lazily over the bound batches, run *)
(* in one snapshot, their result sets cut into chunks by rows and bytes.   *)
(* RowStream takes the chunks from here: an empty chunk that is not the    *)
(* first ends the stream.                                                  *)
(*                                                                         *)
(* A result set is the sequence of its rows' sizes; a row delivered is     *)
(* known by its statement, its place and the database version it is of.    *)
(***************************************************************************)
EXTENDS Naturals, Sequences, SequencesExt, FiniteSets

CONSTANTS
  Bindings,    \* the row counts of the batches bound; <<>> is a plain query
  ResultSets,  \* what a statement can return: sequences of row sizes
  BatchSize,   \* rows_per_batch
  Budget,      \* CHUNK_BYTE_BUDGET
  MaxWrites    \* bound: writes of other clients

VARIABLES
  bound,       \* the batches bound to the statement
  result,      \* the result set of each statement
  db,          \* the version of the data, advanced by other clients
  txn,         \* the version the multi-use transaction reads, 0 before it begins
  cursor,      \* LazyBoundStatements: the group, the row in it, statements built
  rs,          \* the live result set: its statement, version and next row
  chunk,       \* the rows of the chunk being pulled
  got,         \* the rows handed on
  first,       \* the chunk being pulled is the reader's first
  pc

vars == <<bound, result, db, txn, cursor, rs, chunk, got, first, pc>>

ChunkAssumption == BatchSize \in Nat \ {0} /\ Budget \in Nat /\ MaxWrites \in Nat

Total(b) == FoldLeft(LAMBDA x, y : x + y, 0, b)
Statements(b) == IF b = <<>> THEN 1 ELSE Total(b)
NoResultSet == [open |-> FALSE, stmt |-> 0, ver |-> 0, next |-> 1]
Open(n, v) == [open |-> TRUE, stmt |-> n, ver |-> v, next |-> 1]
Multi == bound # <<>> /\ Total(bound) > 1

Init ==
  /\ bound \in Bindings
  /\ result \in [1..Statements(bound) -> ResultSets]
  /\ db = 1
  /\ txn \in {0, 1}     \* 1: a manual transaction has its snapshot
  /\ cursor = [group |-> 1, row |-> 0, built |-> 0]
  /\ rs = NoResultSet
  /\ chunk = <<>> /\ got = <<>>
  /\ first = TRUE
  /\ pc = "start"

(* Another client writes. *)
write ==
  /\ db <= MaxWrites
  /\ db' = db + 1
  /\ UNCHANGED <<bound, result, txn, cursor, rs, chunk, got, first, pc>>

(* A plain query, or a bound one of at most one row: one result set, of    *)
(* the manual transaction's snapshot or of a single-use one.               *)
execute_query_reader ==
  /\ pc = "start" /\ bound = <<>>
  /\ rs' = Open(1, IF txn > 0 THEN txn ELSE db)
  /\ pc' = "pull"
  /\ UNCHANGED <<bound, result, db, txn, cursor, chunk, got, first>>

execute_bound_query ==
  /\ pc = "start" /\ bound # <<>>
  /\ CASE Total(bound) = 0 -> rs' = rs /\ pc' = "ended"
       [] Total(bound) = 1 -> rs' = Open(1, IF txn > 0 THEN txn ELSE db) /\ pc' = "pull"
       [] OTHER -> rs' = rs /\ pc' = "next"
  /\ UNCHANGED <<bound, result, db, txn, cursor, chunk, got, first>>

(* LazyBoundStatements: the place of the next bound row, empty batches     *)
(* skipped; c itself when there is none.                                   *)
advance(c) ==
  LET more == {g \in c.group..Len(bound) : IF g = c.group THEN c.row < bound[g] ELSE bound[g] > 0}
      g == CHOOSE x \in more : \A y \in more : x <= y
  IN IF more = {} THEN c
     ELSE [group |-> g, row |-> IF g = c.group THEN c.row + 1 ELSE 1, built |-> c.built + 1]

(* The next statement is built and run in the shared transaction, which    *)
(* its first statement begins.                                             *)
next_statement ==
  LET c == advance(cursor)
  IN /\ pc = "next"
     /\ cursor' = c
     /\ txn' = IF txn > 0 \/ c = cursor THEN txn ELSE db
     /\ rs' = IF c = cursor THEN NoResultSet ELSE Open(c.built, txn')
     /\ pc' = IF c = cursor THEN "ended" ELSE "pull"
     /\ UNCHANGED <<bound, result, db, chunk, got, first>>

Size(r) == result[r.stmt][r.row]
Bytes(rows) == FoldLeft(LAMBDA n, r : n + Size(r), 0, rows)
Exhausted == rs.next > Len(result[rs.stmt])
Pulled == [stmt |-> rs.stmt, row |-> rs.next, ver |-> rs.ver]

(* Mutant: the budget is looked at before the row is buffered. *)
pull_row_peek ==
  /\ pc = "pull" /\ rs.open /\ ~Exhausted
  /\ IF Bytes(Append(chunk, Pulled)) > Budget
     THEN pc' = "emit" /\ UNCHANGED <<chunk, rs>>
     ELSE /\ chunk' = Append(chunk, Pulled)
          /\ rs' = [rs EXCEPT !.next = @ + 1]
          /\ pc' = IF Len(chunk') = BatchSize THEN "emit" ELSE "pull"
  /\ UNCHANGED <<bound, result, db, txn, cursor, got, first>>

(* pull_chunk: one row, which is in the chunk before its size is counted. *)
pull_row ==
  /\ pc = "pull" /\ rs.open /\ ~Exhausted
  /\ chunk' = Append(chunk, Pulled)
  /\ rs' = [rs EXCEPT !.next = @ + 1]
  /\ pc' = IF Bytes(chunk') >= Budget \/ Len(chunk') = BatchSize THEN "emit" ELSE "pull"
  /\ UNCHANGED <<bound, result, db, txn, cursor, got, first>>

pull_end ==
  /\ pc = "pull" /\ rs.open /\ Exhausted
  /\ pc' = "emit"
  /\ UNCHANGED <<bound, result, db, txn, cursor, rs, chunk, got, first>>

(* An error of the stream, of a bind or of a statement, or the fetch       *)
(* deadline: the rows of the unfinished chunk are dropped with it.         *)
fetch_fails ==
  /\ pc \in {"pull", "next"}
  /\ pc' = "failed"
  /\ chunk' = <<>>
  /\ UNCHANGED <<bound, result, db, txn, cursor, rs, got, first>>

(* A chunk with rows goes to the reader.  An empty first chunk is skipped  *)
(* by the reader; an empty one after it makes next_bound_chunk go on to    *)
(* the next statement, and ends a stream of one result set.                *)
next_chunk ==
  /\ pc = "emit"
  /\ got' = got \o chunk
  /\ chunk' = <<>>
  /\ first' = FALSE
  /\ IF chunk # <<>> \/ first
     THEN pc' = "pull" /\ rs' = rs
     ELSE pc' = (IF Multi THEN "next" ELSE "ended") /\ rs' = NoResultSet
  /\ UNCHANGED <<bound, result, db, txn, cursor>>

Step ==
  \/ execute_query_reader \/ execute_bound_query
  \/ next_statement \/ pull_row \/ pull_end \/ next_chunk \/ fetch_fails

Next == write \/ Step

Spec == Init /\ [][Next]_vars

(* The reader is drained by its consumer and Spanner answers. *)
LiveSpec == Spec /\ WF_vars(Step)

-----------------------------------------------------------------------------
(* Every row of every statement, in the order the rows were bound. *)
RowsOf(n) == [k \in 1..Len(result[n]) |-> <<n, k>>]
AllRows == FoldLeft(LAMBDA acc, n : acc \o RowsOf(n), <<>>, [n \in 1..Statements(bound) |-> n])
Identities(rows) == [i \in DOMAIN rows |-> <<rows[i].stmt, rows[i].row>>]

(* A chunk is never cut late: without its last row it is within both       *)
(* limits, so what is held at a time is bounded by the budget and one row. *)
ChunkWithinBudget ==
  /\ Len(chunk) <= BatchSize
  /\ Len(chunk) > 1 => Bytes(Front(chunk)) < Budget

(* The rows of a bound query are of one version of the data, whatever      *)
(* other clients write while the reader is drained, statement by statement.*)
OneVersion == Cardinality({got[i].ver : i \in DOMAIN got}) <= 1

(* The rows handed on are those of every bound row, in order, and all of   *)
(* them when the stream ends cleanly: an empty result set, an empty batch  *)
(* or a row larger than the budget neither ends the stream nor repeats or  *)
(* skips a statement.                                                      *)
InBindOrder ==
  /\ IsPrefix(Identities(got), AllRows)
  /\ pc = "ended" => Identities(got) = AllRows

(* A reader that is drained comes to the end or to an error, however many  *)
(* bound rows have nothing to return.                                      *)
StreamEnds == <>(pc \in {"ended", "failed"})

(* A bound query answers for every bound row, in order, at one version, in      *)
(* chunks within the budget.                                                    *)
BoundAnswers == InBindOrder /\ OneVersion /\ ChunkWithinBudget
=============================================================================
