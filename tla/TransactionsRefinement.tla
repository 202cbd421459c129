----------------------- MODULE TransactionsRefinement -----------------------
(***************************************************************************)
(* Transactions implements WriteLedger: every step of the threads and of   *)
(* Spanner is, through the mapping of Ledger, a step of the ledger or none *)
(* at all.                                                                 *)
(***************************************************************************)
EXTENDS TransactionsProofs

(* The abstract state. *)
MappedPending == Pending \ acked
Carried == IF pc[Conn] \in {"apply", "rpc", "landed"} THEN Held(Conn) ELSE {}
MappedCommitted == acked \cap accepted

LedgerStep == Ledger!Next \/ UNCHANGED Ledger!vars

(* The mapping in the words of IInv. *)
LEMMA View ==
  /\ Ledger!vars = <<MappedPending, Carried, MappedCommitted, rolledBack>>
  /\ Ledger!vars' = <<MappedPending', Carried', MappedCommitted', rolledBack'>>
  BY DEF Ledger!vars, MappedPending, Carried, MappedCommitted, Held

(* Nothing the ledger can see happens. *)
LEMMA Invisible ==
  ASSUME MappedPending' = MappedPending, Carried' = Carried,
         MappedCommitted' = MappedCommitted, rolledBack' = rolledBack
  PROVE  LedgerStep
  BY View DEF LedgerStep

(* What the ledger calls Buffer, in the variables of Transactions. *)
LEMMA VisibleBuffer ==
  ASSUME MappedPending \subseteq MappedPending',
         (MappedPending' \ MappedPending) \cap (MappedCommitted \cup rolledBack) = {},
         Carried' = Carried, MappedCommitted' = MappedCommitted, rolledBack' = rolledBack
  PROVE  LedgerStep
<1>1. Ledger!Buffer
  BY DEF Ledger!Buffer, MappedPending, Carried, MappedCommitted, Held
<1> QED
  BY <1>1 DEF LedgerStep, Ledger!Next

(* What the ledger calls Begin. *)
LEMMA VisibleBegin ==
  ASSUME Carried = {}, Carried' = MappedPending, MappedPending' = MappedPending,
         MappedCommitted' = MappedCommitted, rolledBack' = rolledBack
  PROVE  LedgerStep
<1>1. Ledger!Begin
  BY DEF Ledger!Begin, MappedPending, Carried, MappedCommitted, Held
<1> QED
  BY <1>1 DEF LedgerStep, Ledger!Next

(* What the ledger calls Settle. *)
LEMMA VisibleSettle ==
  ASSUME MappedCommitted' = MappedCommitted \cup Carried,
         MappedPending' = MappedPending \ Carried,
         Carried' = {}, rolledBack' = rolledBack
  PROVE  LedgerStep
<1>1. Ledger!Settle
  BY DEF Ledger!Settle, MappedPending, Carried, MappedCommitted, Held
<1> QED
  BY <1>1 DEF LedgerStep, Ledger!Next

(* What the ledger calls Fail. *)
LEMMA VisibleFail ==
  ASSUME Carried' = {}, MappedPending' = MappedPending,
         MappedCommitted' = MappedCommitted, rolledBack' = rolledBack
  PROVE  LedgerStep
<1>1. Ledger!Fail
  BY DEF Ledger!Fail, MappedPending, Carried, MappedCommitted, Held
<1> QED
  BY <1>1 DEF LedgerStep, Ledger!Next

(* What the ledger calls Discard. *)
LEMMA VisibleDiscard ==
  ASSUME Carried = {}, rolledBack' = rolledBack \cup MappedPending, MappedPending' = {},
         Carried' = Carried, MappedCommitted' = MappedCommitted
  PROVE  LedgerStep
<1>1. Ledger!Discard
  BY DEF Ledger!Discard, MappedPending, Carried, MappedCommitted, Held
<1> QED
  BY <1>1 DEF LedgerStep, Ledger!Next

-----------------------------------------------------------------------------
(* Steps of a statement leave the connection's thread alone. *)
LEMMA StatementFrame ==
  ASSUME IInv, NEW s \in Statements, NEW p, NEW w,
         pc' = [pc EXCEPT ![s] = p],
         work' = [work EXCEPT ![s] = w] \/ UNCHANGED work
  PROVE  pc'[Conn] = pc[Conn] /\ work'[Conn] = work[Conn] /\ Carried' = Carried
<1>1. s # Conn /\ Conn \in Callers
  BY ConnAssumption DEF Callers
<1>2. pc'[Conn] = pc[Conn] /\ work'[Conn] = work[Conn]
  BY <1>1 DEF IInv, TypeOK
<1> QED
  BY <1>2 DEF Carried, Held

(* The items still pending are accepted, and no statement holds one of them. *)
LEMMA PendingAccepted ==
  ASSUME IInv
  PROVE  Pending \subseteq accepted /\ \A s \in Statements : Held(s) \cap (accepted \cup acked) = {}
  BY DEF IInv, Buffered, Private, Pending, Held

(* A statement moves and the buffer keeps its items. *)
LEMMA StatementInvisible ==
  ASSUME IInv, NEW s \in Statements,
         \/ \E p : Goto(s, p)
         \/ \E p, w : Enter(s, p, w)
         \/ Return(s)
         \/ Send(s),
         Items(txn)' = Items(txn),
         acked \subseteq acked', acked' \subseteq acked \cup Held(s),
         UNCHANGED <<accepted, rolledBack>>
  PROVE  LedgerStep
<1>1. s # Conn
  BY ConnAssumption
<1>2. \E p, w : /\ pc' = [pc EXCEPT ![s] = p]
                /\ work' = [work EXCEPT ![s] = w] \/ UNCHANGED work
  BY DEF Goto, Enter, Return, Send
<1>3. toggling' = toggling
  BY <1>1 DEF Goto, Enter, Return, Send, IInv, TypeOK
<1>4. pc'[Conn] = pc[Conn] /\ work'[Conn] = work[Conn] /\ Carried' = Carried
  BY <1>2, StatementFrame, ZenonT(30)
<1>5. Pending' = Pending
  BY <1>3, <1>4 DEF Pending
<1>6. MappedPending' = MappedPending /\ MappedCommitted' = MappedCommitted
  BY <1>5, PendingAccepted DEF MappedPending, MappedCommitted
<1> QED
  BY <1>4, <1>6, Invisible

(* The ledger sees of a statement only that it buffers. *)
LEMMA BufferVisible ==
  ASSUME IInv, NEW s \in Statements, run_or_buffer(s) \/ ingest_buffer(s)
  PROVE  LedgerStep
<1>1. PICK b : /\ BufferOrSend(s, b)
               /\ \/ /\ b = buffer_dml(txn, work[s].statements)
                     /\ Held(s) = Range(work[s].statements)
                  \/ /\ b = buffer_mutations(txn, work[s].mutations)
                     /\ Held(s) = Range(work[s].mutations)
  BY BufferCalls
<1>2. UNCHANGED <<acked, rolledBack>>
  BY DEF run_or_buffer, ingest_buffer
<1>3. CASE /\ ~autocommit /\ check_kind_allowed(autocommit, txn, "Dml")
           /\ txn' = b /\ accepted' = accepted \cup Items(work[s]) /\ Return(s)
  <2>1. /\ txn.kind \in {"Unset", "Dml"} /\ txn \in ManualTxn /\ Shape(txn) /\ ~toggling
        /\ s \in Callers /\ work[s] \in ManualTxn
    BY <1>3 DEF check_kind_allowed, IInv, TypeOK, Shapes, AutocommitUnset, Callers
  <2>2. Items(b) = Items(txn) \cup Held(s)
    BY <1>1, <2>1, Fields, BufferDml, BufferMutations
  <2>3. pc'[Conn] = pc[Conn] /\ work'[Conn] = work[Conn] /\ Carried' = Carried
    BY <1>3, StatementFrame, ZenonT(30) DEF Return
  <2>4. Pending' = Pending \cup Held(s)
    BY <1>3, <2>1, <2>2, <2>3, ZenonT(30) DEF Pending, Return
  <2>5. Held(s) \cap (accepted \cup acked \cup rolledBack) = {} /\ Held(s) = Items(work[s])
    BY DEF IInv, Private, Held
  <2>6. MappedPending' = MappedPending \cup Held(s) /\ MappedCommitted' = MappedCommitted
    BY <1>2, <1>3, <2>4, <2>5 DEF MappedPending, MappedCommitted
  <2>7. Held(s) \cap (MappedCommitted \cup rolledBack) = {}
    BY <2>5 DEF MappedCommitted
  <2> QED
    BY <1>2, <2>3, <2>6, <2>7, VisibleBuffer
<1>4. CASE (Return(s) \/ Send(s)) /\ UNCHANGED <<txn, accepted>>
  BY <1>2, <1>4, StatementInvisible
<1> QED
  BY <1>1, <1>3, <1>4 DEF BufferOrSend

(* The steps of a statement. *)
LEMMA StatementImplements ==
  ASSUME IInv, NEW s \in Statements, StatementStep(s)
  PROVE  LedgerStep
<1>1. CASE run_or_buffer(s) \/ ingest_buffer(s)
  BY <1>1, BufferVisible
<1>2. ASSUME NEW form, NEW n, run_dml(s, form, n) PROVE LedgerStep
  BY <1>2, StatementInvisible DEF run_dml, txnVars, ledgerVars
<1>3. ASSUME NEW n, run_ingest(s, n) PROVE LedgerStep
  BY <1>3, StatementInvisible DEF run_ingest, txnVars, ledgerVars
<1>4. CASE run_unbufferable(s) \/ build_fails(s) \/ ensure_query_allowed(s)
  BY <1>4, StatementInvisible
     DEF run_unbufferable, build_fails, ensure_query_allowed, txnVars, ledgerVars
<1>5. CASE manual_read_lookup(s)
  BY <1>5, StatementInvisible DEF manual_read_lookup, txnVars, ledgerVars
<1>6. CASE manual_read_install(s)
  <2>1. Items(txn)' = Items(txn)
    <3>1. CASE UNCHANGED txn
      BY <3>1
    <3>2. CASE txn.kind # "Dml" /\ txn' = start_read_txn(txn, work[s].snapshot)
      <4>1. Items(txn) = {}
        BY <3>2, PendingItems DEF has_pending_work, IInv, TypeOK, Shapes
      <4>2. work[s].snapshot \in Nat
        BY Fields DEF IInv, TypeOK, Callers
      <4>3. txn' = txn \/ txn' = Read(work[s].snapshot)
        BY <3>2 DEF start_read_txn
      <4> QED
        BY <4>1, <4>2, <4>3, Constructors
    <3> QED
      BY <1>6, <3>1, <3>2 DEF manual_read_install, check_kind_allowed
  <2> QED
    BY <1>6, <2>1, StatementInvisible DEF manual_read_install, ledgerVars
<1>7. CASE run_bound_ingest(s) \/ ingest_ddl(s) \/ ingest_mode_check(s)
  BY <1>7, StatementInvisible
     DEF run_bound_ingest, ingest_ddl, ingest_mode_check, txnVars, ledgerVars
<1>8. CASE run_ddl(s)
  BY <1>8, Invisible
     DEF run_ddl, MappedPending, Carried, MappedCommitted, Pending, Held, txnVars, threadVars, ledgerVars
<1> QED
  BY <1>1, <1>2, <1>3, <1>4, <1>5, <1>6, <1>7, <1>8 DEF StatementStep

-----------------------------------------------------------------------------
(* Steps of the connection. *)

(* Between two calls all that is pending is in the buffer, and none of it acknowledged. *)
LEMMA IdleView ==
  ASSUME IInv, pc[Conn] = "idle"
  PROVE  Carried = {} /\ Pending = Items(txn) /\ MappedPending = Items(txn) /\ ~toggling
<1>1. Unsent = Items(txn) /\ Pending = Items(txn) /\ ~toggling
  BY ConnIdle
<1> QED
  BY <1>1 DEF IInv, Buffered, Carried, MappedPending

(* commit and enter_autocommit begin a commit of all that is pending. *)
LEMMA BeginVisible ==
  ASSUME IInv, commit \/ enter_autocommit
  PROVE  LedgerStep
<1>1. /\ Carried = {} /\ Pending = Items(txn) /\ MappedPending = Items(txn) /\ ~toggling
      /\ Conn \in Callers
  BY IdleView DEF commit, enter_autocommit, Callers
<1>2. /\ pc'[Conn] = "apply" /\ work'[Conn] = txn
      /\ (txn' = txn /\ toggling' = toggling) \/ (txn' = Unset /\ toggling')
      /\ UNCHANGED <<acked, accepted, rolledBack>>
  BY <1>1 DEF IInv, TypeOK, commit, enter_autocommit, Enter, txnVars, ledgerVars
<1>3. Items(Unset) = {}
  BY Constructors
<1>4. Carried' = Items(txn) /\ Pending' = Items(txn)
  BY <1>1, <1>2, <1>3 DEF Carried, Held, Pending
<1> QED
  BY <1>1, <1>2, <1>4, VisibleBegin DEF MappedPending, MappedCommitted

(* rollback discards all that is pending. *)
LEMMA RollbackVisible ==
  ASSUME IInv, rollback
  PROVE  LedgerStep
<1>1. Carried = {} /\ Pending = Items(txn) /\ MappedPending = Items(txn) /\ ~toggling
  BY IdleView DEF rollback
<1>2. Items(Unset) = {}
  BY Constructors
<1>3. /\ Pending' = {} /\ Carried' = Carried /\ rolledBack' = rolledBack \cup Items(txn)
      /\ UNCHANGED <<acked, accepted>>
  BY <1>1, <1>2 DEF rollback, threadVars, Pending, Carried, Held
<1> QED
  BY <1>1, <1>3, VisibleDiscard DEF MappedPending, MappedCommitted

(* A commit that fails leaves the pending work as it is. *)
LEMMA FailVisible ==
  ASSUME IInv, AfterErr(Conn), UNCHANGED <<txn, acked, accepted, rolledBack>>
  PROVE  LedgerStep
<1>1. Conn \in Callers /\ toggling \in BOOLEAN
  BY DEF Callers, IInv, TypeOK
<1>2. /\ toggling => pc'[Conn] = "restore" /\ work'[Conn] = work[Conn] /\ toggling' = toggling
      /\ ~toggling => pc'[Conn] = "idle" /\ ~toggling'
  BY <1>1 DEF IInv, TypeOK, AfterErr, Goto, Return
<1>3. Carried' = {} /\ Pending' = Pending
  BY <1>1, <1>2 DEF Carried, Pending
<1> QED
  BY <1>3, VisibleFail DEF MappedPending, MappedCommitted

(* A commit that succeeds settles what it carried. *)
LEMMA SettleVisible ==
  ASSUME IInv, AfterOk(Conn), pc[Conn] \in {"apply", "landed"},
         acked' = acked \cup Held(Conn),
         UNCHANGED <<txn, accepted, rolledBack>>
  PROVE  LedgerStep
<1>1. /\ Conn \in Callers /\ toggling \in BOOLEAN /\ Held(Conn) \subseteq accepted
      /\ toggling => Items(txn) = {}
  BY Constructors DEF Callers, IInv, TypeOK, Buffered, AutocommitUnset
<1>2. /\ ~toggling => pc'[Conn] = "applied" /\ toggling' = toggling
      /\ toggling => pc'[Conn] = "idle" /\ ~toggling'
  BY <1>1, ZenonT(30) DEF IInv, TypeOK, AfterOk, Goto, Return
<1>3. Carried = Held(Conn) /\ Carried' = {}
  BY <1>2, <1>1 DEF Carried
<1>4. Pending' \ Held(Conn) = Pending \ Held(Conn)
  BY <1>1, <1>2 DEF Pending, Held
<1> QED
  BY <1>1, <1>3, <1>4, VisibleSettle DEF MappedPending, MappedCommitted

(* apply_manual_txn fails, settles a commit of nothing, or is invisible. *)
LEMMA ApplyVisible ==
  ASSUME IInv, apply_manual_txn
  PROVE  LedgerStep
<1>1. /\ UNCHANGED <<txn, acked, accepted, rolledBack>> /\ pc[Conn] = "apply" /\ Conn \in Callers
      /\ work[Conn] \in ManualTxn /\ Shape(work[Conn])
  BY DEF apply_manual_txn, txnVars, ledgerVars, Callers, IInv, TypeOK, Shapes
<1>2. CASE AfterErr(Conn)
  BY <1>1, <1>2, FailVisible
<1>3. CASE ~has_pending_work(work[Conn]) /\ AfterOk(Conn)
  <2>1. Held(Conn) = {}
    BY <1>1, <1>3, PendingItems DEF Held
  <2> QED
    BY <1>1, <1>3, <2>1, SettleVisible
<1>4. CASE Goto(Conn, "rpc")
  <2>1. pc'[Conn] = "rpc" /\ work' = work /\ toggling' = toggling
    BY <1>1, <1>4 DEF Goto, IInv, TypeOK
  <2> QED
    BY <1>1, <2>1, Invisible DEF MappedPending, MappedCommitted, Carried, Pending, Held
<1> QED
  BY <1>2, <1>3, <1>4 DEF apply_manual_txn

(* finish_commit removes from the buffer what is settled already. *)
LEMMA CommitFinishInvisible ==
  ASSUME IInv, commit_finish
  PROVE  LedgerStep
<1>1. /\ Conn \in Callers /\ txn \in ManualTxn /\ Shape(txn)
      /\ work[Conn] \in ManualTxn /\ Shape(work[Conn])
      /\ pc[Conn] = "applied" /\ ~toggling /\ Committing
      /\ Held(Conn) \subseteq acked
      /\ txn' = finish_commit(txn, work[Conn])
      /\ UNCHANGED <<acked, accepted, rolledBack>>
  BY DEF IInv, TypeOK, Shapes, Control, Applying, Callers, commit_finish, Committing, ledgerVars
<1>2. pc'[Conn] = "idle" /\ ~toggling'
  BY <1>1 DEF commit_finish, Return, IInv, TypeOK
<1>3. work[Conn].kind = "Dml" => txn.kind = "Dml" /\ Leads(work[Conn], txn)
  BY <1>1, SMTT(30) DEF IInv, AppliedPrefix, Leads
<1>4. Items(txn') = Unsent
  BY <1>1, <1>3, FinishCommit, SMTT(30) DEF Unsent
<1>5. Unsent \subseteq Items(txn) /\ Items(txn) \subseteq Unsent \cup Held(Conn)
  BY <1>1, <1>3, BehindSplit, BufferSplit DEF Unsent
<1>6. Pending = Items(txn) /\ Pending' = Unsent /\ Carried = {} /\ Carried' = {}
  BY <1>1, <1>2, <1>4 DEF Pending, Carried
<1>7. MappedPending' = MappedPending
  BY <1>1, <1>5, <1>6 DEF MappedPending
<1> QED
  BY <1>1, <1>6, <1>7, Invisible DEF MappedCommitted

(* restore_manual moves pending work back into the buffer, where it stays pending. *)
LEMMA RestoreInvisible ==
  ASSUME IInv, restore_manual
  PROVE  LedgerStep
<1>1. /\ Conn \in Callers /\ pc[Conn] = "restore" /\ toggling /\ Items(txn) = {}
      /\ txn' = work[Conn]
      /\ UNCHANGED <<acked, accepted, rolledBack>>
  BY Constructors DEF IInv, Control, AutocommitUnset, Callers, restore_manual, ledgerVars
<1>2. pc'[Conn] = "idle" /\ ~toggling'
  BY <1>1, ZenonT(30) DEF restore_manual, Return, IInv, TypeOK
<1>3. Pending' = Pending /\ Carried = {} /\ Carried' = {}
  BY <1>1, <1>2 DEF Pending, Carried
<1> QED
  BY <1>1, <1>3, Invisible DEF MappedPending, MappedCommitted

(* The steps of the connection. *)
LEMMA ConnImplements ==
  ASSUME IInv, ConnStep
  PROVE  LedgerStep
<1>1. CASE disable_autocommit \/ set_readonly
  BY <1>1, Invisible DEF disable_autocommit, set_readonly, MappedPending, Carried,
     MappedCommitted, Pending, Held, txnVars, threadVars, ledgerVars
<1> QED
  BY <1>1, BeginVisible, RollbackVisible, ApplyVisible, CommitFinishInvisible, RestoreInvisible
     DEF ConnStep

-----------------------------------------------------------------------------
(* Steps of Spanner. *)

(* The steps of an RPC: only the end of the connection's own commit is visible. *)
LEMMA RpcImplements ==
  ASSUME IInv, NEW c \in Callers, RpcStep(c)
  PROVE  LedgerStep
<1>1. CASE commit_lands(c) \/ commit_replayed(c)
  <2>1. /\ pc'[Conn] = pc[Conn] \/ (pc[Conn] = "rpc" /\ pc'[Conn] = "landed")
        /\ UNCHANGED <<work, toggling, txn, acked, accepted, rolledBack>>
    BY <1>1
       DEF commit_lands, commit_replayed, Goto, IInv, TypeOK, txnVars, threadVars, ledgerVars,
                Callers
  <2> QED
    BY <2>1, Invisible DEF MappedPending, Carried, MappedCommitted, Pending, Held
<1>2. CASE commit_confirmed(c)
  <2>1. /\ acked' = acked \cup Held(c) /\ UNCHANGED <<txn, accepted, rolledBack>>
        /\ pc[c] = "landed" /\ AfterOk(c)
    BY <1>2 DEF commit_confirmed, txnVars, Held
  <2>2. CASE c = Conn
    BY <2>1, <2>2, SettleVisible
  <2>3. CASE c # Conn
    <3>1. c \in Statements /\ Return(c)
      BY <2>1, <2>3 DEF AfterOk, Callers
    <3> QED
      BY <2>1, <3>1, StatementInvisible
  <2> QED
    BY <2>2, <2>3, SMTT(30)
<1>3. CASE commit_rejected(c) \/ commit_abandoned(c)
  <2>1. UNCHANGED <<txn, acked, accepted, rolledBack>> /\ AfterErr(c)
    BY <1>3 DEF commit_rejected, commit_abandoned, txnVars, ledgerVars
  <2>2. CASE c = Conn
    BY <2>1, <2>2, FailVisible
  <2>3. CASE c # Conn
    <3>1. c \in Statements /\ Return(c)
      BY <2>1, <2>3 DEF AfterErr, Callers
    <3> QED
      BY <2>1, <3>1, StatementInvisible
  <2> QED
    BY <2>2, <2>3, SMTT(30)
<1> QED
  BY <1>1, <1>2, <1>3 DEF RpcStep

-----------------------------------------------------------------------------
(* The refinement. *)

(* The initial states map to the initial state of the ledger. *)
LEMMA InitImplements == Init => Ledger!Init
<1> SUFFICES ASSUME Init PROVE Ledger!Init
  OBVIOUS
<1>1. Items(Unset) = {} /\ Conn \in Callers
  BY Constructors DEF Callers
<1> QED
  BY <1>1 DEF Init, Ledger!Init, Pending

(* Every step maps to a step of the ledger or to a stutter. *)
LEMMA StepImplements == IInv /\ [Next]_vars => [Ledger!Next]_Ledger!vars
<1> SUFFICES ASSUME IInv, [Next]_vars PROVE LedgerStep
  BY SMTT(30) DEF LedgerStep
<1>1. CASE orphan_lands \/ UNCHANGED vars
  BY <1>1, Invisible DEF orphan_lands, vars, MappedPending, Carried, MappedCommitted, Pending,
     Held, txnVars, threadVars, ledgerVars
<1> QED
  BY <1>1, ConnImplements, StatementImplements, RpcImplements DEF Next

(* The connection and its statements implement the ledger: buffered work is    *)
(* settled by the commit that carried it and by no other, a failed commit      *)
(* leaves all of it, and rollback discards what no commit settled.             *)
THEOREM TransactionsImplementLedger == Spec => ImplementsLedger
  BY Invariance, InitImplements, StepImplements, PTL DEF Spec, ImplementsLedger, Ledger!Spec
=============================================================================
