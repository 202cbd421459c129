------------------------- MODULE TransactionsKinds --------------------------
(***************************************************************************)
(* The kind of a manual transaction: what fixes it, what it promises of    *)
(* the work and of the snapshot, and the read-only connection.             *)
(***************************************************************************)
EXTENDS TransactionsProofs

-----------------------------------------------------------------------------
(* The inductive invariant, on top of IInv. *)

(* Also of the work a toggle has taken out and may put back. *)
Taken == toggling => (work[Conn].kind = "Dml" => has_pending_work(work[Conn]))

KInv ==
  /\ IInv
  /\ DmlHasWork
  /\ Taken
  /\ OneSnapshotPerTransaction
  /\ NoCommitWhileReadOnly

(* What KInv and KindFixed say of a step: KInv is kept and the kind changes only *)
(* to Unset, with no statement moving.                                           *)
KindKept ==
  txn.kind # "Unset" /\ txn'.kind # txn.kind
    => txn' = Unset /\ \A s \in Statements : pc'[s] = pc[s]

Kept ==
  /\ DmlHasWork' /\ Taken' /\ OneSnapshotPerTransaction' /\ NoCommitWhileReadOnly'
  /\ KindKept

-----------------------------------------------------------------------------
(* Steps of a statement. *)

(* A step of thread s that is not the connection's leaves what the connection holds. *)
LEMMA OtherThread ==
  ASSUME IInv, NEW s \in Statements, NEW p, NEW w,
         Goto(s, p) \/ Enter(s, p, w) \/ Return(s) \/ Send(s)
  PROVE  pc'[Conn] = pc[Conn] /\ work'[Conn] = work[Conn] /\ toggling' = toggling
<1>1. s # Conn /\ Conn \in Callers /\ s \in Callers
  BY ConnAssumption DEF Callers
<1> QED
  BY <1>1 DEF IInv, TypeOK, Goto, Enter, Return, Send

(* A step that leaves the transaction, the reads and the flag alone. *)
LEMMA QuietKept ==
  ASSUME KInv, UNCHANGED <<txn, reads, toggling>>, work'[Conn] = work[Conn],
         pc'[Conn] \in {"rpc", "landed"} => ~readOnly'
  PROVE  Kept
  BY DEF KInv, Kept, DmlHasWork, Taken, OneSnapshotPerTransaction, NoCommitWhileReadOnly, KindKept

(* Work is buffered in a transaction that is Unset or Dml, which becomes or    *)
(* stays Dml unless the call brought nothing.                                  *)
LEMMA BufferedKind ==
  ASSUME NEW t \in ManualTxn, NEW new \in Seq(Nat), t.kind = "Dml" => has_pending_work(t)
  PROVE  LET d == buffer_dml(t, new)
             m == buffer_mutations(t, new)
         IN  /\ d = t \/ (d.kind = "Dml" /\ has_pending_work(d))
             /\ m = t \/ (m.kind = "Dml" /\ has_pending_work(m))
<1>1. ASSUME NEW q \in Seq(Nat), new # <<>>
      PROVE  q \o new # <<>>
  BY <1>1
<1> QED
  BY <1>1 DEF buffer_dml, buffer_mutations, has_pending_work, Dml, ManualTxn

LEMMA BufferKept ==
  ASSUME KInv, NEW s \in Statements, NEW b,
         b = txn \/ (b.kind = "Dml" /\ has_pending_work(b)),
         BufferOrSend(s, b), UNCHANGED <<readOnly, reads>>
  PROVE  Kept
<1>1. pc'[Conn] = pc[Conn] /\ work'[Conn] = work[Conn] /\ toggling' = toggling
  BY OtherThread DEF KInv, BufferOrSend
<1>2. CASE UNCHANGED txn
  BY <1>1, <1>2, QuietKept DEF KInv, NoCommitWhileReadOnly
<1>3. CASE txn' # txn
  <2>1. txn' = b /\ b.kind = "Dml" /\ has_pending_work(b) /\ txn.kind \in {"Unset", "Dml"}
    BY <1>3 DEF BufferOrSend, check_kind_allowed
  <2> QED
    BY <1>1, <2>1
       DEF KInv, Kept, DmlHasWork, Taken, OneSnapshotPerTransaction, NoCommitWhileReadOnly, KindKept
<1> QED
  BY <1>2, <1>3

LEMMA BufferingKept ==
  ASSUME KInv, NEW s \in Statements, run_or_buffer(s) \/ ingest_buffer(s)
  PROVE  Kept
<1>1. txn \in ManualTxn /\ work[s].statements \in Seq(Nat) /\ work[s].mutations \in Seq(Nat)
  BY DEF KInv, IInv, TypeOK, ManualTxn, Callers
<1> QED
  BY <1>1, BufferKept, BufferedKind DEF KInv, DmlHasWork, run_or_buffer, ingest_buffer, readVars

LEMMA ReadingKept ==
  ASSUME KInv, NEW s \in Statements, manual_read_lookup(s) \/ manual_read_install(s)
  PROVE  Kept
<1>1. pc'[Conn] = pc[Conn] /\ work'[Conn] = work[Conn] /\ toggling' = toggling
  BY OtherThread DEF KInv, manual_read_lookup, manual_read_install
<1>2. CASE UNCHANGED <<txn, reads>>
  BY <1>1, <1>2, QuietKept
     DEF KInv, NoCommitWhileReadOnly, manual_read_lookup, manual_read_install
<1>3. CASE ~(UNCHANGED <<txn, reads>>)
  <2>1. /\ readOnly' = readOnly /\ txn.kind \in {"Unset", "Read"}
        /\ txn'.kind = "Read"
        /\ txn.kind = "Read" => txn' = txn
        /\ reads' = reads \cup {txn'.snapshot}
    BY <1>3 DEF manual_read_lookup, manual_read_install, check_kind_allowed, start_read_txn, Read,
                readVars, txnVars
  <2> QED
    BY <1>1, <2>1
       DEF KInv, Kept, DmlHasWork, Taken, OneSnapshotPerTransaction, NoCommitWhileReadOnly, KindKept
<1> QED
  BY <1>2, <1>3

LEMMA StatementKept ==
  ASSUME KInv, NEW s \in Statements, StatementStep(s)
  PROVE  Kept
<1>1. CASE run_or_buffer(s) \/ ingest_buffer(s)
  BY <1>1, BufferingKept
<1>2. CASE manual_read_lookup(s) \/ manual_read_install(s)
  BY <1>2, ReadingKept
<1>3. CASE run_ddl(s)
  BY <1>3, QuietKept DEF run_ddl, KInv, NoCommitWhileReadOnly, txnVars, threadVars, readVars
<1>4. CASE ~(\/ run_or_buffer(s) \/ ingest_buffer(s) \/ run_ddl(s)
             \/ manual_read_lookup(s) \/ manual_read_install(s))
  <2>1. UNCHANGED <<txn, reads, readOnly>>
    BY <1>4 DEF StatementStep, run_dml, run_unbufferable, build_fails, ensure_query_allowed, run_ingest,
                run_bound_ingest, ingest_ddl, ingest_mode_check, txnVars, readVars
  <2>2. pc'[Conn] = pc[Conn] /\ work'[Conn] = work[Conn] /\ toggling' = toggling
    BY <1>4, OtherThread
       DEF KInv, StatementStep, run_dml, run_unbufferable, build_fails, ensure_query_allowed,
           run_ingest, run_bound_ingest, ingest_ddl, ingest_mode_check
  <2> QED
    BY <2>1, <2>2, QuietKept DEF KInv, NoCommitWhileReadOnly
<1> QED
  BY <1>1, <1>2, <1>3, <1>4

-----------------------------------------------------------------------------
(* Steps of the connection. *)

LEMMA ConnKept ==
  ASSUME KInv, ConnStep
  PROVE  Kept
<1>1. /\ Conn \in Callers /\ Conn \notin Statements /\ Statements \subseteq Callers
      /\ Unset.kind = "Unset" /\ txn.kind \in Kinds
  BY ConnAssumption DEF Callers, Unset, KInv, IInv, TypeOK, ManualTxn
<1>2. CASE enter_autocommit
  <2>1. /\ pc'[Conn] = "apply" /\ work'[Conn] = txn /\ txn' = Unset /\ reads' = {}
        /\ \A s \in Statements : pc'[s] = pc[s]
    BY <1>1, <1>2 DEF enter_autocommit, KInv, IInv, TypeOK
  <2> QED
    BY <1>1, <2>1 DEF KInv, Kept, DmlHasWork, Taken, OneSnapshotPerTransaction, NoCommitWhileReadOnly,
                      KindKept
<1>3. CASE disable_autocommit \/ set_readonly
  BY <1>3, QuietKept DEF disable_autocommit, set_readonly, KInv, txnVars, threadVars, readVars
<1>4. CASE commit
  <2>1. ~toggling
    BY <1>4 DEF commit, KInv, IInv, Control
  <2>2. pc'[Conn] = "apply" /\ ~toggling' /\ UNCHANGED <<txn, reads>>
    BY <1>1, <1>4, <2>1 DEF commit, Enter, KInv, IInv, TypeOK, txnVars, readVars
  <2> QED
    BY <2>2 DEF KInv, Kept, DmlHasWork, Taken, OneSnapshotPerTransaction, NoCommitWhileReadOnly,
                KindKept
<1>5. CASE rollback
  BY <1>1, <1>5 DEF rollback, threadVars, KInv, Kept, DmlHasWork, Taken, OneSnapshotPerTransaction,
                    NoCommitWhileReadOnly, KindKept
<1>6. CASE apply_manual_txn
  <2>1. /\ pc'[Conn] \in {"rpc", "landed"} => ~readOnly'
        /\ UNCHANGED <<txn, reads>>
        /\ toggling' => toggling /\ work'[Conn] = work[Conn]
    BY <1>1, <1>6 DEF apply_manual_txn, check_commit_writable, AfterErr, AfterOk, Goto, Return,
                      txnVars, readVars, KInv, IInv, TypeOK
  <2> QED
    BY <2>1 DEF KInv, Kept, DmlHasWork, Taken, OneSnapshotPerTransaction, NoCommitWhileReadOnly,
                KindKept
<1>7. CASE commit_finish
  <2>1. /\ pc'[Conn] = "idle" /\ ~toggling' /\ reads' = {}
        /\ \A s \in Statements : pc'[s] = pc[s]
    BY <1>1, <1>7 DEF commit_finish, Return, KInv, IInv, TypeOK
  <2>2. txn' = Unset \/ (has_pending_work(txn') /\ txn'.kind = "Dml" /\ txn.kind = "Dml")
    BY <1>7 DEF commit_finish, finish_commit, has_pending_work, Dml
  <2> QED
    BY <1>1, <2>1, <2>2 DEF Kept, DmlHasWork, Taken, OneSnapshotPerTransaction, NoCommitWhileReadOnly,
                            KindKept
<1>8. CASE restore_manual
  <2>1. toggling /\ txn = Unset /\ reads = {}
    BY <1>1, <1>8 DEF restore_manual, KInv, IInv, Control, AutocommitUnset, OneSnapshotPerTransaction
  <2>2. pc'[Conn] = "idle" /\ ~toggling' /\ reads' = {} /\ txn' = work[Conn]
    BY <1>1, <1>8, <2>1 DEF restore_manual, Return, KInv, IInv, TypeOK, readVars
  <2> QED
    BY <1>1, <2>1, <2>2 DEF KInv, Kept, DmlHasWork, Taken, OneSnapshotPerTransaction,
                            NoCommitWhileReadOnly, KindKept
<1> QED
  BY <1>2, <1>3, <1>4, <1>5, <1>6, <1>7, <1>8 DEF ConnStep

-----------------------------------------------------------------------------
(* Steps of an RPC. *)

LEMMA RpcKept ==
  ASSUME KInv, NEW c \in Callers, RpcStep(c)
  PROVE  Kept
<1>1. UNCHANGED <<txn, reads, readOnly>>
  BY DEF RpcStep, commit_lands, commit_replayed, commit_confirmed, commit_rejected, commit_abandoned,
         txnVars, readVars
<1>2. CASE c # Conn
  <2>1. c \in Statements
    BY <1>2 DEF Callers
  <2>2. pc'[Conn] = pc[Conn] /\ work'[Conn] = work[Conn] /\ toggling' = toggling
    BY <1>2, <2>1, OtherThread
       DEF RpcStep, commit_lands, commit_replayed, commit_confirmed, commit_rejected,
           commit_abandoned, AfterErr, AfterOk, threadVars, KInv
  <2> QED
    BY <1>1, <2>2, QuietKept DEF KInv, NoCommitWhileReadOnly
<1>3. CASE c = Conn
  <2>1. pc[Conn] \in {"rpc", "landed"}
    BY <1>3 DEF RpcStep, commit_lands, commit_replayed, commit_confirmed, commit_rejected,
                commit_abandoned
  <2>2. toggling' => toggling /\ work'[Conn] = work[Conn]
    BY <1>3 DEF RpcStep, commit_lands, commit_replayed, commit_confirmed, commit_rejected,
                commit_abandoned, AfterErr, AfterOk, Goto, Return, threadVars
  <2> QED
    BY <1>1, <2>1, <2>2 DEF KInv, Kept, DmlHasWork, Taken, OneSnapshotPerTransaction,
                            NoCommitWhileReadOnly, KindKept
<1> QED
  BY <1>2, <1>3

LEMMA StepKept ==
  ASSUME KInv, [Next]_vars
  PROVE  KInv' /\ KindKept
<1>1. orphan_lands => Kept
  BY QuietKept DEF orphan_lands, KInv, NoCommitWhileReadOnly, txnVars, threadVars, readVars
<1>2. UNCHANGED vars => Kept
  BY QuietKept DEF vars, KInv, NoCommitWhileReadOnly, txnVars, threadVars, readVars
<1>3. Kept
  BY <1>1, <1>2, ConnKept, StatementKept, RpcKept DEF Next
<1> QED
  BY <1>3, NextInv DEF KInv, Kept

LEMMA KindInvariance == Spec => []KInv
<1>1. Init => KInv
  <2> SUFFICES ASSUME Init PROVE KInv
    OBVIOUS
  <2>1. Conn \in Callers /\ Unset.kind = "Unset"
    BY DEF Callers, Unset
  <2> QED
    BY <2>1, InitInv DEF Init, KInv, DmlHasWork, Taken, OneSnapshotPerTransaction,
                         NoCommitWhileReadOnly
<1> QED
  BY <1>1, StepKept, PTL DEF Spec

-----------------------------------------------------------------------------
(* The theorems. *)

(* No transaction keeps the kind Dml without work: after a commit that drained *)
(* the buffer the connection may query again.                                  *)
THEOREM DmlTransactionHasWork == Spec => []DmlHasWork
<1>1. KInv => DmlHasWork
  BY DEF KInv
<1> QED
  BY <1>1, KindInvariance, PTL

(* All queries of one manual transaction read the snapshot that is installed,   *)
(* for any number of statements racing to open it.                              *)
THEOREM TransactionReadsOneSnapshot == Spec => []OneSnapshotPerTransaction
<1>1. KInv => OneSnapshotPerTransaction
  BY DEF KInv
<1> QED
  BY <1>1, KindInvariance, PTL

(* The connection has no write in flight while adbc.connection.readonly is set. *)
THEOREM ReadOnlyCommitsNothing == Spec => []NoCommitWhileReadOnly
<1>1. KInv => NoCommitWhileReadOnly
  BY DEF KInv
<1> QED
  BY <1>1, KindInvariance, PTL

(* No statement changes the kind of a manual transaction that has one, and no   *)
(* transaction that was drained keeps it.                                       *)
THEOREM KindIsFixed == Spec => KindFixed
<1>1. KInv /\ [Next]_vars
        => [/\ txn.kind # "Unset" /\ txn'.kind # txn.kind
                 => txn' = Unset /\ \A s \in Statements : pc'[s] = pc[s]
            /\ DmlHasWork']_vars
  BY StepKept DEF KindKept, KInv
<1> QED
  BY <1>1, KindInvariance, PTL DEF Spec, KindFixed
=============================================================================
