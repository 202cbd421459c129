---------------------------- MODULE Transactions ----------------------------
(***************************************************************************)
(* One connection and the statements it created, each driven by its own    *)
(* thread, over the transaction state they share (src/connection.rs,       *)
(* src/connection/txn.rs, src/connection/exec.rs, src/statement.rs,        *)
(* src/statement/ingest.rs), and Spanner as far as its commits are seen    *)
(* from here.                                                              *)
(*                                                                         *)
(* Connection methods take &mut self, so the connection is one thread;     *)
(* statement methods take &mut self too, so each statement is one thread.  *)
(* A step of a thread is one acquisition of the txn lock, one load of the  *)
(* read-only flag or one event of an RPC: everything else the handlers do  *)
(* is local.  A call that fails a check and changes nothing is a           *)
(* stuttering step and has no action.                                      *)
(***************************************************************************)
EXTENDS TxnState

CONSTANTS
  Statements,   \* the statement handles of the connection
  Conn,         \* the connection's thread
  Calls,        \* the calls made, a subset of AllCalls
  MaxBatch,     \* bound: work items of one call
  MaxWork,      \* bound: work items of a behaviour
  MaxSnapshots  \* bound: read-only transactions built

AllCalls == {"dml", "returning", "partitioned", "query", "ingest", "ddl", "readonly"}

ASSUME ConnAssumption == Conn \notin Statements
ASSUME CallsAssumption == Calls \subseteq AllCalls
ASSUME BoundsAssumption ==
  /\ MaxBatch \in Nat
  /\ MaxWork \in Nat
  /\ MaxSnapshots \in Nat

Callers == Statements \cup {Conn}

VARIABLES
  autocommit, txn,  \* TxnState
  readOnly,         \* SharedConfig::read_only, one atomic for all handles
  pc,               \* where each thread is
  work,             \* the work each thread holds locally
  toggling,         \* the connection is inside set_option(autocommit = true)
  durable,          \* work items Spanner has applied
  twice,            \* work items Spanner has applied more than once
  orphans,          \* commits nobody waits for any more and that may yet land
  acked,            \* history: work whose commit was reported successful
  ambiguous,        \* history: work of a commit whose outcome was not learnt once
  accepted,         \* history: work a manual transaction buffered
  rolledBack,       \* history: work discarded by rollback
  reads,            \* history: snapshots read in the current manual transaction
  manualDdl,        \* history: a statement changed the schema in manual mode
  issued,           \* number of work items created
  snapshots         \* number of read-only transactions built

txnVars    == <<autocommit, txn>>
threadVars == <<pc, work, toggling>>
serverVars == <<durable, twice, orphans>>
ledgerVars == <<acked, ambiguous, accepted, rolledBack>>
readVars   == <<reads, snapshots>>
vars == <<txnVars, readOnly, threadVars, serverVars, ledgerVars, readVars, manualDdl, issued>>

ConnPC == {"idle", "apply", "rpc", "landed", "applied", "restore"}
StmtPC == {"idle", "dml", "returning", "partitioned", "rpc", "landed", "query", "build",
           "ingest", "ingest_ddl", "ingest_mode", "ingest_buffer"}

Init ==
  /\ autocommit = TRUE
  /\ txn = Unset
  /\ readOnly = FALSE
  /\ pc = [c \in Callers |-> "idle"]
  /\ work = [c \in Callers |-> Unset]
  /\ toggling = FALSE
  /\ durable = {} /\ twice = {} /\ orphans = {}
  /\ acked = {} /\ ambiguous = {} /\ accepted = {} /\ rolledBack = {}
  /\ reads = {} /\ snapshots = 0
  /\ manualDdl = FALSE
  /\ issued = 0

-----------------------------------------------------------------------------
(* Steps of a thread. *)

(* Thread c goes on to p, keeping what it holds. *)
Goto(c, p) ==
  /\ pc' = [pc EXCEPT ![c] = p]
  /\ UNCHANGED <<work, toggling>>

(* Thread c enters p holding w. *)
Enter(c, p, w) ==
  /\ pc' = [pc EXCEPT ![c] = p]
  /\ work' = [work EXCEPT ![c] = w]
  /\ UNCHANGED toggling

(* The call of thread c returns: its locals are dropped. *)
Return(c) ==
  /\ pc' = [pc EXCEPT ![c] = "idle"]
  /\ work' = [work EXCEPT ![c] = Unset]
  /\ toggling' = (toggling /\ c # Conn)

(* run_batch_txn and write_mutations_txn: an empty batch is not sent. *)
Send(c) == IF Items(work[c]) = {} THEN Return(c) ELSE Goto(c, "rpc")

Fresh(n) == [i \in 1..n |-> issued + i]

-----------------------------------------------------------------------------
(* The connection. *)

(* set_option(adbc.connection.autocommit): the mode flip of enter_autocommit *)
(* takes the whole transaction in the same lock acquisition.                 *)
enter_autocommit ==
  /\ pc[Conn] = "idle" /\ ~autocommit
  /\ autocommit' = TRUE
  /\ txn' = Unset
  /\ pc' = [pc EXCEPT ![Conn] = "apply"]
  /\ work' = [work EXCEPT ![Conn] = txn]
  /\ toggling' = TRUE
  /\ reads' = {}
  /\ UNCHANGED <<readOnly, serverVars, ledgerVars, snapshots, manualDdl, issued>>

disable_autocommit ==
  /\ pc[Conn] = "idle" /\ autocommit
  /\ autocommit' = FALSE
  /\ UNCHANGED <<txn, readOnly, threadVars, serverVars, ledgerVars, readVars, manualDdl, issued>>

set_readonly ==
  /\ pc[Conn] = "idle"
  /\ readOnly' = ~readOnly
  /\ UNCHANGED <<txnVars, threadVars, serverVars, ledgerVars, readVars, manualDdl, issued>>

(* Mutant: the clone is without the mutations. *)
commit_statements_only ==
  /\ pc[Conn] = "idle" /\ ~autocommit
  /\ Enter(Conn, "apply", [txn EXCEPT !.mutations = <<>>])
  /\ UNCHANGED <<txnVars, readOnly, serverVars, ledgerVars, readVars, manualDdl, issued>>

(* commit works on a clone: the buffer stays until the commit succeeded. *)
commit ==
  /\ pc[Conn] = "idle" /\ ~autocommit
  /\ Enter(Conn, "apply", txn)
  /\ UNCHANGED <<txnVars, readOnly, serverVars, ledgerVars, readVars, manualDdl, issued>>

rollback ==
  /\ pc[Conn] = "idle" /\ ~autocommit
  /\ txn' = Unset
  /\ rolledBack' = rolledBack \cup Items(txn)
  /\ reads' = {}
  /\ UNCHANGED <<autocommit, readOnly, threadVars, serverVars, acked, ambiguous, accepted,
                 snapshots, manualDdl, issued>>

(* Mutant: a statement sends a confirmed commit again. *)
AfterOk_resends(c) ==
  IF c \in Statements THEN Goto(c, "rpc") ELSE IF toggling THEN Return(c) ELSE Goto(c, "applied")

(* Where the caller of an apply goes on with its result: commit to             *)
(* finish_commit or out, the toggle out or to restore_manual, a statement out. *)
AfterOk(c)  == IF c = Conn /\ ~toggling THEN Goto(c, "applied") ELSE Return(c)
AfterErr(c) == IF c = Conn /\ toggling THEN Goto(c, "restore") ELSE Return(c)

(* apply_manual_txn: refuse on a read-only connection, do nothing when there *)
(* is nothing to write, else send (apply_transaction).                       *)
apply_manual_txn ==
  /\ pc[Conn] = "apply"
  /\ IF ~check_commit_writable(readOnly, work[Conn]) THEN AfterErr(Conn)
     ELSE IF has_pending_work(work[Conn]) THEN Goto(Conn, "rpc")
     ELSE AfterOk(Conn)
  /\ UNCHANGED <<txnVars, readOnly, serverVars, ledgerVars, readVars, manualDdl, issued>>

(* The tail of commit: finish_commit under the lock. *)
commit_finish ==
  /\ pc[Conn] = "applied"
  /\ txn' = finish_commit(txn, work[Conn])
  /\ reads' = {}
  /\ Return(Conn)
  /\ UNCHANGED <<autocommit, readOnly, serverVars, ledgerVars, snapshots, manualDdl, issued>>

(* The failure path of the toggle. *)
restore_manual ==
  /\ pc[Conn] = "restore"
  /\ autocommit' = FALSE
  /\ txn' = work[Conn]
  /\ Return(Conn)
  /\ UNCHANGED <<readOnly, serverVars, ledgerVars, readVars, manualDdl, issued>>

-----------------------------------------------------------------------------
(* Statements: DML. *)

(* run_dml: the read-only guard, then one of the three executors. *)
run_dml(s, form, n) ==
  /\ pc[s] = "idle" /\ ~readOnly
  /\ form = "partitioned" => n <= 1
  /\ issued + n <= MaxWork
  /\ issued' = issued + n
  /\ Enter(s, form, Dml(Fresh(n), <<>>))
  /\ UNCHANGED <<txnVars, readOnly, serverVars, ledgerVars, readVars, manualDdl>>

(* Under the txn lock of a manual transaction: buffer the work, or be refused *)
(* because the transaction began with a query.  In autocommit mode: send it.  *)
BufferOrSend(s, buffered) ==
  \/ /\ ~autocommit /\ check_kind_allowed(autocommit, txn, "Dml")
     /\ txn' = buffered
     /\ accepted' = accepted \cup Items(work[s])
     /\ Return(s)
  \/ /\ ~autocommit /\ ~check_kind_allowed(autocommit, txn, "Dml")
     /\ Return(s)
     /\ UNCHANGED <<txn, accepted>>
  \/ /\ autocommit
     /\ Send(s)
     /\ UNCHANGED <<txn, accepted>>

(* run_or_buffer: mode check and buffering are one lock acquisition. *)
run_or_buffer(s) ==
  /\ pc[s] = "dml"
  /\ BufferOrSend(s, buffer_dml(txn, work[s].statements))
  /\ UNCHANGED <<autocommit, readOnly, serverVars, acked, ambiguous, rolledBack, readVars,
                 manualDdl, issued>>

(* THEN RETURN and Partitioned DML exist in autocommit mode only: the mode is *)
(* checked under the lock, the transaction runs after it is released.         *)
run_unbufferable(s) ==
  /\ pc[s] \in {"returning", "partitioned"}
  /\ IF autocommit THEN Send(s) ELSE Return(s)
  /\ UNCHANGED <<txnVars, readOnly, serverVars, ledgerVars, readVars, manualDdl, issued>>

(* Binding a row, or building a transaction, fails or is cancelled: nothing of *)
(* the call has reached the buffer or the wire.                                *)
build_fails(s) ==
  /\ pc[s] \in {"dml", "returning", "partitioned", "build", "ingest_buffer"}
  /\ Return(s)
  /\ UNCHANGED <<txnVars, readOnly, serverVars, ledgerVars, readVars, manualDdl, issued>>

-----------------------------------------------------------------------------
(* Statements: queries. *)

(* execute_query_reader's guard. *)
ensure_query_allowed(s) ==
  /\ pc[s] = "idle"
  /\ check_kind_allowed(autocommit, txn, "Read")
  /\ Goto(s, "query")
  /\ UNCHANGED <<txnVars, readOnly, serverVars, ledgerVars, readVars, manualDdl, issued>>

(* manual_read_transaction, first acquisition: autocommit queries run single-use, *)
(* an open snapshot is adopted, and otherwise one is built without the lock.      *)
manual_read_lookup(s) ==
  /\ pc[s] = "query"
  /\ \/ /\ autocommit
        /\ Return(s)
        /\ UNCHANGED readVars
     \/ /\ ~autocommit /\ txn.kind = "Read"
        /\ reads' = reads \cup {txn.snapshot}
        /\ Return(s)
        /\ UNCHANGED snapshots
     \/ /\ ~autocommit /\ txn.kind # "Read"
        /\ snapshots < MaxSnapshots
        /\ snapshots' = snapshots + 1
        /\ Enter(s, "build", Read(snapshots + 1))
        /\ UNCHANGED reads
  /\ UNCHANGED <<txnVars, readOnly, serverVars, ledgerVars, manualDdl, issued>>

(* Mutant: the kind is not checked again after the build. *)
manual_read_install_unchecked(s) ==
  /\ pc[s] = "build"
  /\ IF ~autocommit
     THEN /\ txn' = start_read_txn(txn, work[s].snapshot)
          /\ reads' = reads \cup {txn'.snapshot}
     ELSE UNCHANGED <<txn, reads>>
  /\ Return(s)
  /\ UNCHANGED <<autocommit, readOnly, serverVars, ledgerVars, snapshots, manualDdl, issued>>

(* manual_read_transaction, second acquisition: in autocommit mode the built  *)
(* transaction is dropped, in a DML transaction the query is refused.         *)
manual_read_install(s) ==
  /\ pc[s] = "build"
  /\ IF ~autocommit /\ check_kind_allowed(autocommit, txn, "Read")
     THEN /\ txn' = start_read_txn(txn, work[s].snapshot)
          /\ reads' = reads \cup {txn'.snapshot}
     ELSE UNCHANGED <<txn, reads>>
  /\ Return(s)
  /\ UNCHANGED <<autocommit, readOnly, serverVars, ledgerVars, snapshots, manualDdl, issued>>

-----------------------------------------------------------------------------
(* Statements: bulk ingest, as one commit chunk, and schema changes. *)

run_ingest(s, n) ==
  /\ pc[s] = "idle" /\ ~readOnly
  /\ issued + n <= MaxWork
  /\ issued' = issued + n
  /\ Enter(s, "ingest", Dml(<<>>, Fresh(n)))
  /\ UNCHANGED <<txnVars, readOnly, serverVars, ledgerVars, readVars, manualDdl>>

(* run_bound_ingest: the kind is checked before the create/replace DDL runs. *)
run_bound_ingest(s) ==
  /\ pc[s] = "ingest"
  /\ IF check_kind_allowed(autocommit, txn, "Dml")
     THEN \E next \in {"ingest_ddl", "ingest_mode"} : Goto(s, next)
     ELSE Return(s)
  /\ UNCHANGED <<txnVars, readOnly, serverVars, ledgerVars, readVars, manualDdl, issued>>

SchemaChange == manualDdl' = (manualDdl \/ ~autocommit)

(* The ingest's own run_ddl: it may be refused or fail, ending the ingest. *)
ingest_ddl(s) ==
  /\ pc[s] = "ingest_ddl"
  /\ \/ ~readOnly /\ SchemaChange /\ Goto(s, "ingest_mode")
     \/ Return(s) /\ UNCHANGED manualDdl
  /\ UNCHANGED <<txnVars, readOnly, serverVars, ledgerVars, readVars, issued>>

(* run_ingest_mutations, first acquisition. *)
ingest_mode_check(s) ==
  /\ pc[s] = "ingest_mode"
  /\ IF autocommit THEN Send(s)
     ELSE IF check_kind_allowed(autocommit, txn, "Dml") THEN Goto(s, "ingest_buffer")
     ELSE Return(s)
  /\ UNCHANGED <<txnVars, readOnly, serverVars, ledgerVars, readVars, manualDdl, issued>>

(* run_ingest_mutations, second acquisition, once every row is built: buffer *)
(* all of them, be refused at the first, or fall through to autocommit.      *)
ingest_buffer(s) ==
  /\ pc[s] = "ingest_buffer"
  /\ BufferOrSend(s, buffer_mutations(txn, work[s].mutations))
  /\ UNCHANGED <<autocommit, readOnly, serverVars, acked, ambiguous, rolledBack, readVars,
                 manualDdl, issued>>

(* run_ddl: the read-only guard, then the admin RPC, whatever the mode. *)
run_ddl(s) ==
  /\ pc[s] = "idle" /\ ~readOnly
  /\ SchemaChange
  /\ UNCHANGED <<txnVars, readOnly, threadVars, serverVars, ledgerVars, readVars, issued>>

-----------------------------------------------------------------------------
(* Spanner, as the commit paths see it. *)

Apply(items) ==
  /\ durable' = durable \cup items
  /\ twice' = twice \cup (durable \cap items)

(* The commit is applied; its confirmation is on the way. *)
commit_lands(c) ==
  /\ pc[c] = "rpc"
  /\ Goto(c, "landed")
  /\ Apply(Items(work[c]))
  /\ UNCHANGED <<txnVars, readOnly, orphans, ledgerVars, readVars, manualDdl, issued>>

(* The read/write runner replays a commit whose confirmation was lost in      *)
(* transport; a mutations-only commit is replay-protected and never does.     *)
commit_replayed(c) ==
  /\ pc[c] = "landed"
  /\ work[c].statements # <<>>
  /\ Apply(Items(work[c]))
  /\ ambiguous' = ambiguous \cup Items(work[c])
  /\ UNCHANGED <<txnVars, readOnly, threadVars, orphans, acked, accepted, rolledBack, readVars,
                 manualDdl, issued>>

commit_confirmed(c) ==
  /\ pc[c] = "landed"
  /\ acked' = acked \cup Items(work[c])
  /\ AfterOk(c)
  /\ UNCHANGED <<txnVars, readOnly, serverVars, ambiguous, accepted, rolledBack, readVars,
                 manualDdl, issued>>

(* Spanner rejects the transaction: a constraint, a limit, ABORTED for good. *)
commit_rejected(c) ==
  /\ pc[c] = "rpc"
  /\ AfterErr(c)
  /\ UNCHANGED <<txnVars, readOnly, serverVars, ledgerVars, readVars, manualDdl, issued>>

(* Timeout, cancel or a broken transport: the driver stops waiting, and a   *)
(* commit that has not landed may still do so.                              *)
commit_abandoned(c) ==
  /\ pc[c] \in {"rpc", "landed"}
  /\ ambiguous' = ambiguous \cup Items(work[c])
  /\ orphans' = IF pc[c] = "landed" THEN orphans ELSE orphans \cup {Items(work[c])}
  /\ AfterErr(c)
  /\ UNCHANGED <<txnVars, readOnly, durable, twice, acked, accepted, rolledBack, readVars,
                 manualDdl, issued>>

orphan_lands ==
  \E o \in orphans :
    /\ orphans' = orphans \ {o}
    /\ Apply(o)
    /\ UNCHANGED <<txnVars, readOnly, threadVars, ledgerVars, readVars, manualDdl, issued>>

-----------------------------------------------------------------------------
ConnStep ==
  \/ rollback
  \/ commit
  \/ enter_autocommit
  \/ disable_autocommit
  \/ "readonly" \in Calls /\ set_readonly
  \/ apply_manual_txn
  \/ commit_finish
  \/ restore_manual

StatementStep(s) ==
  \/ \E form \in Calls \cap {"dml", "returning", "partitioned"}, n \in 0..MaxBatch :
       run_dml(s, form, n)
  \/ run_or_buffer(s)
  \/ run_unbufferable(s)
  \/ build_fails(s)
  \/ "query" \in Calls /\ ensure_query_allowed(s)
  \/ manual_read_lookup(s)
  \/ manual_read_install(s)
  \/ "ingest" \in Calls /\ \E n \in 0..MaxBatch : run_ingest(s, n)
  \/ run_bound_ingest(s)
  \/ ingest_ddl(s)
  \/ ingest_mode_check(s)
  \/ ingest_buffer(s)
  \/ "ddl" \in Calls /\ run_ddl(s)

RpcStep(c) ==
  \/ commit_lands(c)
  \/ commit_replayed(c)
  \/ commit_confirmed(c)
  \/ commit_rejected(c)
  \/ commit_abandoned(c)

Next ==
  \/ ConnStep
  \/ \E s \in Statements : StatementStep(s)
  \/ \E c \in Callers : RpcStep(c)
  \/ orphan_lands

Spec == Init /\ [][Next]_vars

-----------------------------------------------------------------------------
(* Properties. *)

(* The shape of the shared state and of the threads' locals. *)
TypeOK ==
  /\ autocommit \in BOOLEAN
  /\ txn \in ManualTxn
  /\ readOnly \in BOOLEAN
  /\ pc \in [Callers -> ConnPC \cup StmtPC]
  /\ pc[Conn] \in ConnPC
  /\ \A s \in Statements : pc[s] \in StmtPC
  /\ work \in [Callers -> ManualTxn]
  /\ toggling \in BOOLEAN
  /\ durable \subseteq Nat /\ twice \subseteq Nat /\ orphans \subseteq SUBSET Nat
  /\ acked \subseteq Nat /\ ambiguous \subseteq Nat
  /\ accepted \subseteq Nat /\ rolledBack \subseteq Nat
  /\ reads \subseteq Nat /\ snapshots \in Nat
  /\ manualDdl \in BOOLEAN
  /\ issued \in Nat

Committing == pc[Conn] \in {"apply", "rpc", "landed", "applied"} /\ ~toggling

(* Buffered work the application can still commit or roll back: what is in the *)
(* shared state, and what a toggle in progress has taken out of it.            *)
Pending == Items(txn) \cup (IF toggling THEN Items(work[Conn]) ELSE {})

(* "Always Unset in autocommit mode" (the comment on TxnState::txn), on which  *)
(* restore_manual's debug_assert rests: the state a failed toggle puts its     *)
(* work back over is Unset, so it overwrites nothing a statement left there.   *)
AutocommitUnset ==
  /\ autocommit => txn = Unset
  /\ toggling => autocommit

(* What finish_commit relies on when it drains by length: all through a commit  *)
(* the work it applies is still the head of the shared buffer, however many     *)
(* statements buffered behind it, so drain removes the applied work and no      *)
(* other, and never runs past the end.                                          *)
AppliedPrefix ==
  Committing /\ work[Conn].kind = "Dml" =>
    /\ txn.kind = "Dml"
    /\ PrefixOf(work[Conn].statements, txn.statements)
    /\ PrefixOf(work[Conn].mutations, txn.mutations)

(* Buffered work is never lost: until its commit was reported successful or the *)
(* application rolled it back, it is pending.  "A failed commit preserves the   *)
(* buffer; a successful commit removes only the applied prefix, retaining work  *)
(* buffered concurrently" (docs/transactions.md).                               *)
NoLostWork == accepted \subseteq Pending \cup acked \cup rolledBack

(* Work is applied twice only if the outcome of a commit that carried it was    *)
(* unknown at some point: the buffer of a confirmed commit is never sent again. *)
TwiceOnlyIfAmbiguous == twice \subseteq ambiguous

(* Rolled-back work is in the database only if an earlier commit of it was left *)
(* with an unknown outcome, and its commit was never reported successful.       *)
RolledBackStaysOut ==
  /\ rolledBack \cap durable \subseteq ambiguous
  /\ rolledBack \cap acked = {}

(* A transaction of DML kind holds work: after a commit that drained all of it  *)
(* the kind is free again, so no empty transaction keeps rejecting queries.     *)
DmlHasWork == txn.kind = "Dml" => has_pending_work(txn)

(* All queries of one manual transaction read one snapshot, the one installed,  *)
(* also when two statements race to open it (manual_read_transaction builds     *)
(* without the lock).                                                           *)
OneSnapshotPerTransaction ==
  reads # {} => txn.kind = "Read" /\ reads = {txn.snapshot}

(* adbc.connection.readonly holds for commit and for the autocommit toggle: the *)
(* connection has no write in flight while the flag is set, whenever the work   *)
(* was buffered.                                                                *)
NoCommitWhileReadOnly == pc[Conn] \in {"rpc", "landed"} => ~readOnly

(* The kind of a manual transaction is fixed by its first statement: no         *)
(* statement changes it, and the connection only resets it by ending the        *)
(* transaction, which it does when nothing of the transaction is left.          *)
KindFixed ==
  [][/\ txn.kind # "Unset" /\ txn'.kind # txn.kind
          => txn' = Unset /\ \A s \in Statements : pc'[s] = pc[s]
     /\ DmlHasWork']_vars

(* Manual transactions keep the promises of WriteLedger: the code implements it, *)
(* a commit being settled when the driver learns that it succeeded.              *)
Ledger == INSTANCE WriteLedger WITH
  pending    <- Pending \ acked,
  committing <- IF pc[Conn] \in {"apply", "rpc", "landed"} THEN Items(work[Conn]) ELSE {},
  committed  <- acked \cap accepted,
  discarded  <- rolledBack

(* The refinement as a property of its own: every behaviour of the connection    *)
(* and its statements is, seen through that mapping, a behaviour of the ledger.  *)
ImplementsLedger == Ledger!Spec

(* The field comment of TxnState::autocommit: in manual mode "DML and DDL buffer *)
(* into Self::txn", so that no statement changes the schema in manual mode.      *)
ManualDdlBuffers == ~manualDdl
=============================================================================
