------------------------------ MODULE TxnState ------------------------------
(***************************************************************************)
(* The transaction state a connection shares with the statements it        *)
(* creates (src/connection/txn.rs), as values and the functions on them.   *)
(* Every method of the code runs under the SharedTxn mutex, so each is one *)
(* operator from the old value to the new one; the modules that extend     *)
(* this one put the lock acquisitions in their actions.                    *)
(*                                                                         *)
(* A buffered DML statement or mutation is a work item, a number that no   *)
(* other item has; a read-only transaction is the number of its snapshot.  *)
(***************************************************************************)
EXTENDS Integers, Sequences, Functions

-----------------------------------------------------------------------------
(* ManualTxn: Unset, Read(snapshot) or Dml{statements, mutations}.         *)

Kinds == {"Unset", "Read", "Dml"}

ManualTxn == [kind : Kinds, snapshot : Nat, statements : Seq(Nat), mutations : Seq(Nat)]

Unset == [kind |-> "Unset", snapshot |-> 0, statements |-> <<>>, mutations |-> <<>>]

Read(snapshot) ==
  [kind |-> "Read", snapshot |-> snapshot, statements |-> <<>>, mutations |-> <<>>]

Dml(statements, mutations) ==
  [kind |-> "Dml", snapshot |-> 0, statements |-> statements, mutations |-> mutations]

(* The work items a transaction holds. *)
Items(txn) == Range(txn.statements) \cup Range(txn.mutations)

has_pending_work(txn) ==
  /\ txn.kind = "Dml"
  /\ txn.statements # <<>> \/ txn.mutations # <<>>

-----------------------------------------------------------------------------
(* The TxnState methods. *)

check_kind_allowed(autocommit, txn, attempted) ==
  autocommit \/ txn.kind \in {"Unset", attempted}

(* Mutant: the loser of the race replaces the snapshot that was installed first. *)
start_read_txn_replaces(txn, built) == Read(built)

(* Called once check_kind_allowed has passed for "Read". *)
start_read_txn(txn, built) == IF txn.kind = "Read" THEN txn ELSE Read(built)

(* Called once check_kind_allowed has passed for "Dml". *)
buffer_dml(txn, new) ==
  IF new = <<>> THEN txn
  ELSE IF txn.kind = "Dml" THEN [txn EXCEPT !.statements = @ \o new]
  ELSE Dml(new, <<>>)

(* One buffer_mutation per element, all under one lock acquisition. *)
buffer_mutations(txn, new) ==
  IF new = <<>> THEN txn
  ELSE IF txn.kind = "Dml" THEN [txn EXCEPT !.mutations = @ \o new]
  ELSE Dml(<<>>, new)

(* Vec::drain(..n): what is left behind the first n elements. *)
drain(seq, n) == SubSeq(seq, n + 1, Len(seq))

(* p is the head of seq. *)
PrefixOf(p, seq) == Len(p) <= Len(seq) /\ SubSeq(seq, 1, Len(p)) = p

(* Mutant: the whole buffer is cleared. *)
finish_commit_clears(txn, applied) == Unset

(* Mutant: the applied work stays in the buffer. *)
finish_commit_keeps(txn, applied) == IF has_pending_work(txn) THEN txn ELSE Unset

(* Mutant: a transaction that was drained keeps its kind. *)
finish_commit_keeps_kind(txn, applied) ==
  IF txn.kind = "Dml" /\ applied.kind = "Dml"
  THEN Dml(drain(txn.statements, Len(applied.statements)), drain(txn.mutations, Len(applied.mutations)))
  ELSE txn

finish_commit(txn, applied) ==
  LET left == IF txn.kind = "Dml" /\ applied.kind = "Dml"
              THEN Dml(drain(txn.statements, Len(applied.statements)),
                       drain(txn.mutations, Len(applied.mutations)))
              ELSE txn
  IN  IF has_pending_work(left) THEN left ELSE Unset

(* Mutant: the flag is not looked at. *)
check_commit_writable_ignored(readOnly, txn) == TRUE

check_commit_writable(readOnly, txn) == ~(readOnly /\ has_pending_work(txn))
=============================================================================
