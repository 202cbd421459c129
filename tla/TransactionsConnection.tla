----------------------- MODULE TransactionsConnection -----------------------
(***************************************************************************)
(* The steps of the connection preserve the inductive invariant.           *)
(***************************************************************************)
EXTENDS TransactionsInvariant

(* Between two calls the connection holds nothing, and all that is buffered is unsent. *)
LEMMA ConnIdle ==
  ASSUME IInv, pc[Conn] = "idle"
  PROVE  /\ Conn \in Callers /\ work[Conn] = Unset /\ ~toggling /\ ~Committing
         /\ Unsent = Items(txn) /\ Pending = Items(txn) /\ Held(Conn) = {}
<1>1. Conn \in Callers /\ Items(Unset) = {}
  BY Constructors DEF Callers
<1> QED
  BY <1>1 DEF IInv, Control, Fits, Committing, Unsent, Pending, Held

(* commit starts with everything that is buffered: nothing is left unsent. *)
LEMMA CommitStep == IInv /\ commit => IInv'
<1> SUFFICES ASSUME IInv, commit PROVE IInv'
  OBVIOUS
<1>1. /\ Conn \in Callers /\ work[Conn] = Unset /\ ~toggling /\ ~Committing
      /\ Unsent = Items(txn) /\ Pending = Items(txn) /\ Held(Conn) = {}
  BY ConnIdle DEF commit
<1>2. /\ pc'[Conn] = "apply" /\ work'[Conn] = txn /\ toggling' = toggling
      /\ \A c \in Callers \ {Conn} : pc'[c] = pc[c] /\ work'[c] = work[c]
      /\ UNCHANGED <<txn, autocommit>>
  BY <1>1 DEF IInv, TypeOK, commit, Enter, txnVars
<1>3. txn \in ManualTxn /\ Shape(txn) /\ Leads(txn, txn) /\ Behind(txn, txn) = {}
  BY BehindSelf DEF IInv, TypeOK, Shapes
<1>4. Unsent' = {}
  <2>1. txn.kind # "Dml" => Items(txn) = {}
    BY <1>3, PendingItems DEF has_pending_work
  <2> QED
    BY <1>1, <1>2, <1>3, <2>1 DEF Unsent, Committing
<1>5. Pending' = Pending /\ Committing'
  BY <1>1, <1>2 DEF Pending, Committing
<1>6. TypeOK'
  BY <1>1, <1>2, ConnAssumption
     DEF IInv, TypeOK, commit, Enter, serverVars, ledgerVars, readVars, ConnPC, Callers
<1>7. AutocommitUnset' /\ AppliedPrefix'
  BY <1>2, <1>3 DEF IInv, AutocommitUnset, AppliedPrefix, Leads
<1>8. Shapes' /\ Control'
  BY <1>1, <1>2 DEF IInv, Shapes, Control, Fits
<1>9. Held(Conn)' = Items(txn) /\ \A c \in Callers \ {Conn} : Held(c)' = Held(c)
  BY <1>2 DEF Held
<1>10. Known' /\ Private'
  BY <1>1, <1>2, <1>9, ConnAssumption, SMTT(30)
     DEF IInv, Known, Private, commit, serverVars, ledgerVars, Callers
<1>11. Buffered' /\ Applying'
  BY <1>1, <1>2, <1>4, <1>9 DEF IInv, Buffered, Applying, commit, serverVars, ledgerVars
<1>12. Doubt' /\ NoLostWork' /\ TwiceOnlyIfAmbiguous' /\ RolledBackStaysOut'
  BY <1>5 DEF IInv, Doubt, NoLostWork, TwiceOnlyIfAmbiguous, RolledBackStaysOut, commit,
              serverVars, ledgerVars
<1> QED
  BY <1>6, <1>7, <1>8, <1>10, <1>11, <1>12 DEF IInv

(* enter_autocommit moves everything that is buffered into the connection's hands. *)
LEMMA EnterAutocommitStep == IInv /\ enter_autocommit => IInv'
<1> SUFFICES ASSUME IInv, enter_autocommit PROVE IInv'
  OBVIOUS
<1>1. /\ Conn \in Callers /\ work[Conn] = Unset /\ ~toggling /\ ~Committing
      /\ Unsent = Items(txn) /\ Pending = Items(txn) /\ Held(Conn) = {}
  BY ConnIdle DEF enter_autocommit
<1>2. /\ pc'[Conn] = "apply" /\ work'[Conn] = txn /\ toggling' /\ autocommit' /\ txn' = Unset
      /\ \A c \in Callers \ {Conn} : pc'[c] = pc[c] /\ work'[c] = work[c]
  BY <1>1 DEF IInv, TypeOK, enter_autocommit
<1>3. Unset \in ManualTxn /\ Shape(Unset) /\ Items(Unset) = {} /\ Shape(txn)
  BY Constructors DEF IInv, Shapes
<1>4. Unsent' = {} /\ Pending' = Pending /\ ~Committing'
  BY <1>1, <1>2, <1>3 DEF Unsent, Committing, Pending
<1>5. TypeOK'
  BY <1>1, <1>2, <1>3, ConnAssumption
     DEF IInv, TypeOK, enter_autocommit, serverVars, ledgerVars, ConnPC, Callers
<1>6. AutocommitUnset' /\ AppliedPrefix'
  BY <1>2, <1>4 DEF AutocommitUnset, AppliedPrefix
<1>7. Shapes' /\ Control'
  BY <1>1, <1>2, <1>3 DEF IInv, Shapes, Control, Fits
<1>8. Held(Conn)' = Items(txn) /\ \A c \in Callers \ {Conn} : Held(c)' = Held(c)
  BY <1>2 DEF Held
<1>9. Known' /\ Private'
  BY <1>1, <1>2, <1>3, <1>8, ConnAssumption
     DEF IInv, Known, Private, enter_autocommit, serverVars, ledgerVars, Callers
<1>10. Buffered' /\ Applying'
  BY <1>1, <1>2, <1>3, <1>4, <1>8
     DEF IInv, Buffered, Applying, enter_autocommit, serverVars, ledgerVars
<1>11. Doubt' /\ NoLostWork' /\ TwiceOnlyIfAmbiguous' /\ RolledBackStaysOut'
  BY <1>4 DEF IInv, Doubt, NoLostWork, TwiceOnlyIfAmbiguous, RolledBackStaysOut,
              enter_autocommit, serverVars, ledgerVars
<1> QED
  BY <1>5, <1>6, <1>7, <1>9, <1>10, <1>11 DEF IInv

(* rollback discards exactly what is buffered. *)
LEMMA RollbackStep == IInv /\ rollback => IInv'
<1> SUFFICES ASSUME IInv, rollback PROVE IInv'
  OBVIOUS
<1>1. /\ Conn \in Callers /\ work[Conn] = Unset /\ ~toggling /\ ~Committing
      /\ Unsent = Items(txn) /\ Pending = Items(txn) /\ Held(Conn) = {}
  BY ConnIdle DEF rollback
<1>2. /\ pc' = pc /\ work' = work /\ toggling' = toggling /\ txn' = Unset /\ autocommit' = autocommit
      /\ rolledBack' = rolledBack \cup Items(txn)
  BY DEF rollback, threadVars
<1>3. Unset \in ManualTxn /\ Shape(Unset) /\ Items(Unset) = {}
  BY Constructors
<1>4. Unsent' = {} /\ Pending' = {} /\ ~Committing'
  BY <1>1, <1>2, <1>3 DEF Unsent, Committing, Pending
<1>5. Items(txn) \subseteq Nat
  BY Fields DEF IInv, TypeOK
<1>6. TypeOK'
  BY <1>2, <1>3, <1>5, ZenonT(30) DEF IInv, TypeOK, rollback, serverVars
<1>7. AutocommitUnset' /\ AppliedPrefix' /\ Shapes' /\ Control'
  BY <1>1, <1>2, <1>3, <1>4, SMTT(30) DEF IInv, AutocommitUnset, AppliedPrefix, Shapes, Control
<1>8. \A c \in Callers : Held(c)' = Held(c)
  BY <1>2 DEF Held
<1>9. Known' /\ Private'
  <2>1. Known'
    BY <1>2, <1>3, <1>8, ZenonT(30) DEF IInv, Known, rollback, serverVars
  <2>2. \A s \in Statements : Held(s)' = Held(s) /\ Held(s) \cap Items(txn) = {}
    BY <1>8 DEF IInv, Private, Buffered, Callers
  <2>3. Private'
    BY <1>2, <2>2 DEF IInv, Private, rollback, serverVars
  <2> QED
    BY <2>1, <2>3
<1>10. Buffered' /\ Applying'
  BY <1>1, <1>2, <1>3, <1>4, <1>8, SMTT(30) DEF IInv, Buffered, Applying, rollback, serverVars
<1>11. Doubt' /\ NoLostWork' /\ TwiceOnlyIfAmbiguous' /\ RolledBackStaysOut'
  BY <1>1, <1>2, <1>4 DEF IInv, Buffered, Doubt, NoLostWork, TwiceOnlyIfAmbiguous,
                          RolledBackStaysOut, rollback, serverVars
<1> QED
  BY <1>6, <1>7, <1>9, <1>10, <1>11 DEF IInv

(* The buffer is what the commit in progress carries and what is behind it. *)
LEMMA BufferSplit ==
  ASSUME IInv, Committing
  PROVE  Items(txn) \subseteq Unsent \cup Held(Conn)
<1>1. Conn \in Callers /\ txn \in ManualTxn /\ work[Conn] \in ManualTxn
  BY DEF IInv, TypeOK, Callers
<1>2. CASE work[Conn].kind = "Dml"
  <2>1. Leads(work[Conn], txn)
    BY <1>2 DEF IInv, AppliedPrefix, Leads
  <2> QED
    BY <1>1, <1>2, <2>1, BehindSplit DEF Unsent, Held
<1>3. CASE work[Conn].kind # "Dml"
  BY <1>3 DEF Unsent
<1> QED
  BY <1>2, <1>3

(* The connection's commit fails: refused, rejected, or given up with an unknown *)
(* outcome.  commit returns and the buffer stays; the toggle goes to restore.    *)
LEMMA ConnFails ==
  ASSUME IInv,
         pc[Conn] \in {"apply", "rpc", "landed"},
         AfterErr(Conn),
         ambiguous \subseteq ambiguous', ambiguous' \subseteq ambiguous \cup Held(Conn),
         pc[Conn] = "landed" => Held(Conn) \subseteq ambiguous',
         orphans' \subseteq SUBSET Nat, UNION orphans' \subseteq ambiguous',
         UNCHANGED <<txnVars, readOnly, durable, twice, acked, accepted, rolledBack, readVars,
                     manualDdl, issued>>
  PROVE  IInv'
<1>1. Conn \in Callers /\ Conn \notin Statements /\ Statements \subseteq Callers
  BY ConnAssumption DEF Callers
<1>2. /\ UNCHANGED <<txn, autocommit>>
      /\ \A c \in Statements : pc'[c] = pc[c] /\ work'[c] = work[c]
  BY <1>1, SMTT(30) DEF IInv, TypeOK, AfterErr, Goto, Return, txnVars
<1>3. Items(Unset) = {} /\ Unset \in ManualTxn /\ Shape(Unset) /\ Held(Conn) \subseteq Nat
      /\ Fits("idle", Unset)
  BY <1>1, Constructors, Fields DEF IInv, TypeOK, Held, Fits, Unset
<1>4. /\ toggling => pc'[Conn] = "restore" /\ work'[Conn] = work[Conn] /\ toggling'
      /\ ~toggling => pc'[Conn] = "idle" /\ work'[Conn] = Unset /\ ~toggling'
      /\ toggling' \in BOOLEAN
  BY <1>1 DEF IInv, TypeOK, AfterErr, Goto, Return
<1>5. ~Committing' /\ Unsent' = Items(txn) /\ Pending' = Pending
  BY <1>2, <1>4 DEF Committing, Unsent, Pending
<1>6. Unsent' \subseteq Unsent \cup Held(Conn)
  <2>1. CASE toggling
    BY <1>5, <2>1 DEF Unsent, Committing
  <2>2. CASE ~toggling
    BY <1>5, <2>2, BufferSplit, SMTT(30) DEF Committing
  <2> QED
    BY <2>1, <2>2
<1>7. TypeOK'
  BY <1>1, <1>2, <1>3, SMTT(30)
     DEF IInv, TypeOK, AfterErr, Goto, Return, txnVars, readVars, ConnPC, Callers
<1>8. AutocommitUnset' /\ AppliedPrefix'
  BY <1>2, <1>4, <1>5, SMTT(30) DEF IInv, TypeOK, AutocommitUnset, AppliedPrefix
<1>9. Shapes' /\ Control'
  BY <1>1, <1>2, <1>3, <1>4, SMTT(30) DEF IInv, TypeOK, Shapes, Control, Fits, Callers
<1>10. /\ Held(Conn)' \subseteq Held(Conn)
       /\ toggling => Held(Conn)' = Held(Conn)
       /\ ~toggling => Held(Conn)' = {}
       /\ \A s \in Statements : Held(s)' = Held(s)
  BY <1>2, <1>3, <1>4 DEF IInv, TypeOK, Held
<1>11. Held(Conn) \subseteq accepted /\ Held(Conn) \cap acked = {} /\ Held(Conn) \subseteq 1..issued
  BY <1>1 DEF IInv, Buffered, Applying, Known
<1>12. Known'
  <2>1. \A c \in Callers : Held(c)' \subseteq 1..issued
    BY <1>10, <1>11, SMTT(30) DEF IInv, Known, Callers
  <2> QED
    BY <1>2, <1>11, <2>1 DEF IInv, Known
<1>13. Private'
  <2>1. \A s \in Statements : Held(s) \cap Held(Conn) = {}
    BY <1>11 DEF IInv, Private
  <2> QED
    BY <1>2, <1>10, <2>1 DEF IInv, Private
<1>14. Held(Conn) \cap durable \subseteq ambiguous'
  BY SMTT(30) DEF IInv, Applying
<1>15. Buffered'
  <2>1. Unsent' \cap acked = {} /\ Unsent' \cap durable \subseteq ambiguous'
    BY <1>6, <1>11, <1>14 DEF IInv, Buffered
  <2>2. Unsent' \cap Held(Conn)' = {}
    <3>1. CASE toggling
      BY <3>1, <1>3, <1>5 DEF IInv, AutocommitUnset
    <3>2. CASE ~toggling
      BY <3>2, <1>10, SMTT(30)
    <3> QED
      BY <3>1, <3>2, SMTT(30)
  <2> QED
    BY <1>2, <1>10, <2>1, <2>2, SMTT(30) DEF IInv, Buffered
<1>16. Applying'
  BY <1>4, <1>10, <1>11, <1>14, SMTT(30) DEF IInv, TypeOK, Applying
<1>17. Doubt' /\ NoLostWork' /\ TwiceOnlyIfAmbiguous' /\ RolledBackStaysOut'
  BY <1>5 DEF IInv, Doubt, NoLostWork, TwiceOnlyIfAmbiguous, RolledBackStaysOut
<1> QED
  BY <1>7, <1>8, <1>9, <1>12, <1>13, <1>15, <1>16, <1>17 DEF IInv

(* The connection's commit succeeds, or had nothing to write: its work is *)
(* acknowledged.  commit goes to finish_commit, the toggle returns.       *)
LEMMA ConnSucceeds ==
  ASSUME IInv,
         pc[Conn] \in {"apply", "landed"},
         AfterOk(Conn),
         acked' = acked \cup Held(Conn),
         UNCHANGED <<txnVars, readOnly, serverVars, ambiguous, accepted, rolledBack, readVars,
                     manualDdl, issued>>
  PROVE  IInv'
<1>1. Conn \in Callers /\ Conn \notin Statements /\ Statements \subseteq Callers
  BY ConnAssumption DEF Callers
<1>2. /\ UNCHANGED <<txn, autocommit>>
      /\ \A c \in Statements : pc'[c] = pc[c] /\ work'[c] = work[c]
  BY <1>1, SMTT(30) DEF IInv, TypeOK, AfterOk, Goto, Return, txnVars
<1>3. Items(Unset) = {} /\ Unset \in ManualTxn /\ Shape(Unset) /\ Held(Conn) \subseteq Nat
      /\ Fits("idle", Unset)
  BY <1>1, Constructors, Fields DEF IInv, TypeOK, Held, Fits, Unset
<1>4. /\ ~toggling => pc'[Conn] = "applied" /\ work'[Conn] = work[Conn]
      /\ toggling => pc'[Conn] = "idle" /\ work'[Conn] = Unset
      /\ ~toggling'
      /\ toggling' \in BOOLEAN
  BY <1>1, ZenonT(30) DEF IInv, TypeOK, AfterOk, Goto, Return
<1>5. toggling => txn = Unset /\ Items(txn) = {}
  BY <1>3 DEF IInv, AutocommitUnset
<1>6. Unsent' \subseteq Unsent
  <2>1. CASE toggling
    BY <1>2, <1>4, <1>5, <2>1 DEF Unsent, Committing
  <2>2. CASE ~toggling
    BY <1>2, <1>4, <2>2 DEF Unsent, Committing
  <2> QED
    BY <2>1, <2>2
<1>7. Pending \subseteq Pending' \cup Held(Conn)
  BY <1>2, <1>4, SMTT(30) DEF Pending, Held
<1>8. TypeOK'
  BY <1>1, <1>2, <1>3, ZenonT(30)
     DEF IInv, TypeOK, AfterOk, Goto, Return, txnVars, serverVars, readVars, ConnPC, Callers
<1>9. AutocommitUnset'
  BY <1>2, <1>4 DEF IInv, AutocommitUnset
<1>10. AppliedPrefix'
  <2>1. CASE toggling
    BY <1>4, <2>1 DEF AppliedPrefix, Committing
  <2>2. CASE ~toggling
    <3>1. AppliedPrefix /\ Committing
      BY <2>2 DEF IInv, Committing
    <3>2. UNCHANGED txn /\ work'[Conn] = work[Conn]
      BY <1>2, <1>4, <2>2
    <3> QED
      BY <3>1, <3>2 DEF AppliedPrefix
  <2> QED
    BY <2>1, <2>2
<1>11. Shapes' /\ Control'
  BY <1>1, <1>2, <1>3, <1>4, SMTT(30) DEF IInv, TypeOK, Shapes, Control, Fits, Callers
<1>12. /\ ~toggling => Held(Conn)' = Held(Conn)
       /\ toggling => Held(Conn)' = {}
       /\ Held(Conn)' \subseteq Held(Conn)
       /\ \A s \in Statements : Held(s)' = Held(s)
  BY <1>2, <1>3, <1>4 DEF IInv, TypeOK, Held
<1>13. /\ Held(Conn) \subseteq accepted /\ Held(Conn) \subseteq 1..issued
       /\ Held(Conn) \cap rolledBack = {} /\ Unsent \cap Held(Conn) = {}
  BY <1>1, SMTT(30) DEF IInv, Buffered, Known
<1>14. Known'
  <2>1. \A c \in Callers : Held(c)' \subseteq 1..issued
    BY <1>12, <1>13 DEF IInv, Known, Callers
  <2> QED
    BY <1>2, <1>13, <2>1, ZenonT(30) DEF IInv, Known, serverVars
<1>15. Private'
  <2>1. \A s \in Statements : Held(s) \cap Held(Conn) = {}
    BY <1>13 DEF IInv, Private
  <2> QED
    BY <1>2, <1>12, <2>1 DEF IInv, Private, serverVars
<1>16. Buffered'
  BY <1>2, <1>6, <1>12, <1>13, SMTT(30) DEF IInv, Buffered, serverVars
<1>17. Applying'
  BY <1>4, <1>12, SMTT(30) DEF IInv, TypeOK, Applying, serverVars
<1>18. Doubt' /\ NoLostWork' /\ TwiceOnlyIfAmbiguous' /\ RolledBackStaysOut'
  BY <1>7, <1>13 DEF IInv, Doubt, NoLostWork, TwiceOnlyIfAmbiguous, RolledBackStaysOut, serverVars
<1> QED
  BY <1>8, <1>9, <1>10, <1>11, <1>14, <1>15, <1>16, <1>17, <1>18 DEF IInv

(* apply_manual_txn refuses, has nothing to write, or sends. *)
LEMMA ApplyStep == IInv /\ apply_manual_txn => IInv'
<1> SUFFICES ASSUME IInv, apply_manual_txn PROVE IInv'
  OBVIOUS
<1>1. /\ Conn \in Callers /\ Conn \notin Statements /\ Statements \subseteq Callers
      /\ work[Conn] \in ManualTxn /\ Shape(work[Conn])
      /\ pc[Conn] = "apply"
  BY ConnAssumption, SMTT(30) DEF Callers, IInv, TypeOK, Shapes, apply_manual_txn
<1>2. CASE AfterErr(Conn)
  <2>1. UNION orphans \subseteq ambiguous /\ orphans \subseteq SUBSET Nat
    BY SMTT(30) DEF IInv, TypeOK, Doubt
  <2> QED
    BY <1>1, <1>2, <2>1, ConnFails DEF apply_manual_txn, serverVars, ledgerVars
<1>3. CASE ~has_pending_work(work[Conn]) /\ AfterOk(Conn)
  <2>1. Held(Conn) = {}
    BY <1>1, <1>3, PendingItems DEF Held
  <2> QED
    BY <1>1, <1>3, <2>1, ConnSucceeds DEF apply_manual_txn, ledgerVars
<1>4. CASE Goto(Conn, "rpc")
  <2>1. /\ pc'[Conn] = "rpc" /\ work' = work /\ toggling' = toggling
        /\ \A c \in Callers \ {Conn} : pc'[c] = pc[c]
        /\ UNCHANGED <<txn, autocommit>>
    BY <1>1, <1>4, SMTT(30) DEF IInv, TypeOK, Goto, apply_manual_txn, txnVars
  <2>2. Committing' = Committing /\ Pending' = Pending /\ Unsent' = Unsent
    BY <1>1, <2>1, SMTT(30) DEF Committing, Pending, Unsent
  <2>3. TypeOK'
    BY <1>1, <1>4, <2>1, SMTT(30)
       DEF IInv, TypeOK, Goto, apply_manual_txn, serverVars, ledgerVars, readVars, ConnPC, Callers
  <2>4. AutocommitUnset' /\ AppliedPrefix' /\ Shapes'
    BY <2>1, <2>2 DEF IInv, AutocommitUnset, AppliedPrefix, Shapes
  <2>5. Control'
    BY <1>1, <2>1, SMTT(30) DEF IInv, Control, Fits
  <2>6. Known' /\ Private'
    BY <1>1, <2>1 DEF IInv, Known, Private, Held, apply_manual_txn, serverVars, ledgerVars
  <2>7. Buffered' /\ Applying'
    BY <1>1, <2>1, <2>2, ZenonT(30)
       DEF IInv, Buffered, Applying, Held, apply_manual_txn, serverVars, ledgerVars
  <2>8. Doubt' /\ NoLostWork' /\ TwiceOnlyIfAmbiguous' /\ RolledBackStaysOut'
    BY <2>2, ZenonT(30) DEF IInv, Doubt, NoLostWork, TwiceOnlyIfAmbiguous, RolledBackStaysOut,
                apply_manual_txn, serverVars, ledgerVars
  <2> QED
    BY <2>3, <2>4, <2>5, <2>6, <2>7, <2>8 DEF IInv
<1> QED
  BY <1>2, <1>3, <1>4 DEF apply_manual_txn

(* The connection returns from a call, leaving t as the shared transaction in *)
(* manual mode: all of t was unsent or comes from a toggle that failed, and   *)
(* what the connection gives up is acknowledged.                              *)
LEMMA ConnReturns ==
  ASSUME IInv, NEW t \in ManualTxn, Shape(t),
         pc[Conn] \in {"applied", "restore"},
         Return(Conn),
         txn' = t,
         autocommit' \in BOOLEAN, autocommit' => t = Unset,
         Items(t) \subseteq Unsent \cup Held(Conn),
         Items(t) \cap acked = {},
         Items(t) \cap durable \subseteq ambiguous,
         Pending \subseteq Items(t) \cup acked,
         reads' \subseteq Nat,
         UNCHANGED <<readOnly, serverVars, ledgerVars, snapshots, manualDdl, issued>>
  PROVE  IInv'
<1>1. Conn \in Callers /\ Conn \notin Statements /\ Statements \subseteq Callers
  BY ConnAssumption, SMTT(30) DEF Callers
<1>2. /\ pc'[Conn] = "idle" /\ work'[Conn] = Unset /\ ~toggling' /\ toggling' \in BOOLEAN
      /\ \A c \in Statements : pc'[c] = pc[c] /\ work'[c] = work[c]
  BY <1>1, ZenonT(30) DEF IInv, TypeOK, Return
<1>3. Items(Unset) = {} /\ Unset \in ManualTxn /\ Shape(Unset) /\ Fits("idle", Unset)
  BY Constructors, SMTT(30) DEF Fits, Unset
<1>4. ~Committing' /\ Unsent' = Items(t) /\ Pending' = Items(t)
  BY <1>2 DEF Committing, Unsent, Pending
<1>5. TypeOK'
  BY <1>1, <1>2, <1>3
     DEF IInv, TypeOK, Return, serverVars, ledgerVars, ConnPC, Callers
<1>6. AutocommitUnset' /\ AppliedPrefix' /\ Shapes' /\ Control'
  BY <1>1, <1>2, <1>3, <1>4, ZenonT(30)
     DEF IInv, AutocommitUnset, AppliedPrefix, Shapes, Control, Callers
<1>7. Held(Conn)' = {} /\ \A s \in Statements : Held(s)' = Held(s)
  BY <1>2, <1>3, ZenonT(30) DEF Held
<1>8. /\ Items(t) \subseteq accepted /\ Items(t) \cap rolledBack = {}
      /\ Items(t) \subseteq 1..issued
  <2>1. Unsent \cup Held(Conn) \subseteq Items(txn) \cup Held(Conn)
    <3>1. CASE Committing /\ work[Conn].kind = "Dml"
      <4>1. Leads(work[Conn], txn)
        BY <3>1, SMTT(30) DEF IInv, AppliedPrefix, Leads
      <4>2. Items(txn) = Held(Conn) \cup Unsent
        BY <1>1, <3>1, <4>1, BehindSplit, SMTT(30) DEF IInv, TypeOK, Unsent, Held
      <4> QED
        BY <4>2, SMTT(30)
    <3>2. CASE ~(Committing /\ work[Conn].kind = "Dml")
      BY <3>2, SMTT(30) DEF Unsent
    <3> QED
      BY <3>1, <3>2
  <2> QED
    BY <1>1, <2>1, SMTT(30) DEF IInv, Buffered, Known
<1>9. Known'
  BY <1>1, <1>7, <1>8, SMTT(30) DEF IInv, Known, serverVars, ledgerVars, Callers
<1>10. Private'
  BY <1>2, <1>7 DEF IInv, Private, serverVars, ledgerVars
<1>11. Buffered' /\ Applying'
  BY <1>2, <1>4, <1>7, <1>8, ZenonT(30) DEF IInv, Buffered, Applying, serverVars, ledgerVars
<1>12. Doubt' /\ NoLostWork' /\ TwiceOnlyIfAmbiguous' /\ RolledBackStaysOut'
  BY <1>4, SMTT(30) DEF IInv, Doubt, NoLostWork, TwiceOnlyIfAmbiguous, RolledBackStaysOut,
              serverVars, ledgerVars
<1> QED
  BY <1>5, <1>6, <1>9, <1>10, <1>11, <1>12 DEF IInv

(* finish_commit leaves what the commit did not carry. *)
LEMMA CommitFinishStep == IInv /\ commit_finish => IInv'
<1> SUFFICES ASSUME IInv, commit_finish PROVE IInv'
  OBVIOUS
<1> DEFINE t == finish_commit(txn, work[Conn])
<1>1. /\ Conn \in Callers /\ txn \in ManualTxn /\ Shape(txn)
      /\ work[Conn] \in ManualTxn /\ Shape(work[Conn])
      /\ pc[Conn] = "applied" /\ ~toggling /\ Committing
  BY SMTT(30) DEF IInv, TypeOK, Shapes, Control, Callers, commit_finish, Committing
<1>2. work[Conn].kind = "Dml" => txn.kind = "Dml" /\ Leads(work[Conn], txn)
  BY <1>1, SMTT(30) DEF IInv, AppliedPrefix, Leads
<1>3. t \in ManualTxn /\ Shape(t) /\ Items(t) = Unsent
  BY <1>1, <1>2, FinishCommit, SMTT(30) DEF Unsent
<1>4. Pending \subseteq Items(t) \cup acked
  BY <1>1, <1>3, BufferSplit, SMTT(30) DEF IInv, Applying, Pending
<1>5. txn = Unset => t = Unset
  BY SMTT(30) DEF finish_commit, Unset, has_pending_work
<1> HIDE DEF t
<1>6. /\ autocommit' \in BOOLEAN /\ (autocommit' => t = Unset) /\ reads' \subseteq Nat
      /\ Items(t) \cap acked = {} /\ Items(t) \cap durable \subseteq ambiguous
  BY <1>3, <1>5, SMTT(30) DEF IInv, TypeOK, AutocommitUnset, Buffered, commit_finish
<1>7. /\ Return(Conn) /\ txn' = t
      /\ UNCHANGED <<readOnly, serverVars, ledgerVars, snapshots, manualDdl, issued>>
  BY DEF commit_finish, t
<1>8. pc[Conn] \in {"applied", "restore"} /\ Items(t) \subseteq Unsent \cup Held(Conn)
  BY <1>1, <1>3
<1> QED
  BY <1>3, <1>4, <1>6, <1>7, <1>8, ConnReturns

(* restore_manual puts the work of a failed toggle back over an Unset transaction. *)
LEMMA RestoreManualStep == IInv /\ restore_manual => IInv'
<1> SUFFICES ASSUME IInv, restore_manual PROVE IInv'
  OBVIOUS
<1>1. /\ Conn \in Callers /\ work[Conn] \in ManualTxn /\ Shape(work[Conn])
      /\ pc[Conn] = "restore" /\ toggling /\ txn = Unset /\ Items(Unset) = {}
  BY Constructors, SMTT(30)
     DEF IInv, TypeOK, Shapes, Control, Callers, restore_manual, AutocommitUnset
<1>2. Pending \subseteq Held(Conn)
  BY <1>1, SMTT(30) DEF Pending, Held
<1>3. /\ Held(Conn) \cap acked = {} /\ Held(Conn) \cap durable \subseteq ambiguous
      /\ ~autocommit' /\ autocommit' \in BOOLEAN /\ reads' \subseteq Nat
      /\ UNCHANGED snapshots
  BY <1>1, ZenonT(30) DEF IInv, TypeOK, Applying, restore_manual, readVars
<1> QED
  BY <1>1, <1>2, <1>3, ConnReturns, SMTT(30) DEF restore_manual, Held

(* The steps of the connection. *)
LEMMA ConnSteps ==
  ASSUME IInv, ConnStep
  PROVE  IInv'
<1>1. readOnly \in BOOLEAN /\ manualDdl \in BOOLEAN /\ autocommit \in BOOLEAN
  BY DEF IInv, TypeOK
<1>2. CASE disable_autocommit
  BY <1>1, <1>2, ModeStep, ZenonT(30) DEF disable_autocommit
<1>3. CASE set_readonly
  BY <1>1, <1>3, ModeStep DEF set_readonly, txnVars
<1> QED
  BY <1>2, <1>3, EnterAutocommitStep, CommitStep, RollbackStep, ApplyStep, CommitFinishStep,
     RestoreManualStep DEF ConnStep
=============================================================================
