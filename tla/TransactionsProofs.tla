------------------------- MODULE TransactionsProofs -------------------------
(***************************************************************************)
(* The steps of Spanner preserve the inductive invariant, and the theorems *)
(* that follow from it.                                                    *)
(***************************************************************************)
EXTENDS TransactionsConnection

-----------------------------------------------------------------------------
(* Steps of Spanner. *)

(* A commit of the work thread c holds is applied, for the first time or again. *)
LEMMA WorkLands ==
  ASSUME IInv, NEW c \in Callers,
         pc[c] \in {"rpc", "landed"},
         pc' = [pc EXCEPT ![c] = "landed"],
         Apply(Held(c)),
         ambiguous \subseteq ambiguous', ambiguous' \subseteq ambiguous \cup Held(c),
         pc[c] = "landed" => Held(c) \subseteq ambiguous',
         UNCHANGED <<txnVars, readOnly, work, toggling, orphans, acked, accepted, rolledBack,
                     readVars, manualDdl, issued>>
  PROVE  IInv'
<1>1. Conn \in Callers /\ Conn \notin Statements /\ Statements \subseteq Callers
  BY ConnAssumption DEF Callers
<1>2. /\ pc'[c] = "landed" /\ \A d \in Callers \ {c} : pc'[d] = pc[d]
      /\ UNCHANGED <<txn, autocommit>>
      /\ c # Conn => pc'[Conn] = pc[Conn]
  BY <1>1 DEF IInv, TypeOK, txnVars
<1>3. Committing' = Committing /\ Pending' = Pending /\ Unsent' = Unsent
  BY <1>1, <1>2 DEF Committing, Pending, Unsent
<1>4. Held(c) \subseteq Nat /\ \A d \in Callers : Held(d)' = Held(d)
  BY Fields DEF IInv, TypeOK, Held
<1>5. TypeOK'
  BY <1>1, <1>2, <1>4, ZenonT(30) DEF IInv, TypeOK, Apply, readVars, ConnPC, StmtPC, Callers
<1>6. AutocommitUnset' /\ AppliedPrefix' /\ Shapes'
  BY <1>2, <1>3 DEF IInv, AutocommitUnset, AppliedPrefix, Shapes
<1>7. Control'
  <2>1. \A d \in Callers : Fits(pc'[d], work[d])
    BY <1>2 DEF IInv, Control, Fits
  <2> QED
    BY <1>1, <1>2, <2>1 DEF IInv, Control
<1>8. Held(c) \subseteq 1..issued
  BY DEF IInv, Known
<1>9. Known'
  BY <1>2, <1>4, <1>8, ZenonT(30) DEF IInv, Known, Apply
<1>10. \A s \in Statements : s # c => Held(s) \cap Held(c) = {}
  BY DEF IInv, Private, Buffered, Callers
<1>11. Private'
  BY <1>1, <1>2, <1>4, <1>10 DEF IInv, Private, Apply
<1>12. Unsent \cap Held(c) = {}
  <2>1. CASE c = Conn
    BY <2>1 DEF IInv, Buffered
  <2>2. CASE c # Conn
    <3>1. Unsent \subseteq Items(txn)
      <4>1. CASE Committing /\ work[Conn].kind = "Dml"
        <5>1. Leads(work[Conn], txn)
          BY <4>1 DEF IInv, AppliedPrefix, Leads
        <5> QED
          BY <1>1, <4>1, <5>1, BehindSplit DEF IInv, TypeOK, Unsent
      <4>2. CASE ~(Committing /\ work[Conn].kind = "Dml")
        BY <4>2 DEF Unsent
      <4> QED
        BY <4>1, <4>2
    <3> QED
      BY <2>2, <3>1 DEF IInv, Private, Buffered, Callers
  <2> QED
    BY <2>1, <2>2
<1>13. Buffered'
  BY <1>1, <1>2, <1>3, <1>4, <1>12 DEF IInv, Buffered, Apply
<1>14. Applying'
  <2>1. CASE c = Conn
    BY <1>1, <1>2, <1>4, <2>1 DEF IInv, Applying
  <2>2. CASE c # Conn
    <3>1. Held(Conn) \cap Held(c) = {}
      BY <2>2 DEF IInv, Private, Buffered, Callers
    <3> QED
      BY <1>1, <1>2, <1>4, <2>2, <3>1 DEF IInv, Applying, Apply
  <2> QED
    BY <2>1, <2>2
<1>15. Held(c) \cap durable \subseteq ambiguous'
  <2>1. CASE c = Conn
    BY <2>1 DEF IInv, Applying
  <2>2. CASE c # Conn
    BY <2>2 DEF IInv, Private, Callers
  <2> QED
    BY <2>1, <2>2
<1>16. Held(c) \cap rolledBack = {}
  BY DEF IInv, Private, Buffered, Callers
<1>17. Doubt' /\ NoLostWork' /\ TwiceOnlyIfAmbiguous' /\ RolledBackStaysOut'
  BY <1>3, <1>15, <1>16
     DEF IInv, Doubt, NoLostWork, TwiceOnlyIfAmbiguous, RolledBackStaysOut, Apply
<1> QED
  BY <1>5, <1>6, <1>7, <1>9, <1>11, <1>13, <1>14, <1>17 DEF IInv

(* A statement's own commit ends: confirmed, rejected or given up. *)
LEMMA StatementReturns ==
  ASSUME IInv, NEW s \in Statements,
         Return(s),
         acked \subseteq acked', acked' \subseteq acked \cup Held(s),
         ambiguous \subseteq ambiguous', ambiguous' \subseteq ambiguous \cup Held(s),
         orphans' \subseteq SUBSET Nat, UNION orphans' \subseteq ambiguous',
         UNCHANGED <<txnVars, readOnly, durable, twice, accepted, rolledBack, readVars,
                     manualDdl, issued>>
  PROVE  IInv'
<1>1. s \in Callers /\ s # Conn /\ Conn \in Callers
  BY ConnAssumption DEF Callers
<1>2. /\ pc'[Conn] = pc[Conn] /\ work'[Conn] = work[Conn] /\ toggling' = toggling
      /\ pc'[s] = "idle" /\ work'[s] = Unset
      /\ \A c \in Callers \ {s} : pc'[c] = pc[c] /\ work'[c] = work[c]
      /\ UNCHANGED <<txn, autocommit>>
  BY <1>1 DEF IInv, TypeOK, Return, txnVars
<1>3. Committing' = Committing /\ Pending' = Pending /\ Unsent' = Unsent
  BY <1>2 DEF Committing, Pending, Unsent
<1>4. Items(Unset) = {} /\ Unset \in ManualTxn /\ Shape(Unset) /\ Fits("idle", Unset)
  BY Constructors DEF Fits, Unset
<1>5. /\ Held(s) \subseteq Nat /\ Held(s) \subseteq 1..issued
      /\ Held(s) \cap accepted = {} /\ Held(s) \cap rolledBack = {}
  BY <1>1, Fields DEF IInv, TypeOK, Held, Known, Private
<1>6. TypeOK'
  BY <1>1, <1>2, <1>4, <1>5, SMTT(30) DEF IInv, TypeOK, readVars, Callers, StmtPC, ConnPC, Return
<1>7. AutocommitUnset' /\ AppliedPrefix'
  BY <1>2, <1>3 DEF IInv, AutocommitUnset, AppliedPrefix
<1>8. Shapes' /\ Control'
  BY <1>1, <1>2, <1>4 DEF IInv, Shapes, Control
<1>9. /\ Held(s)' = {} /\ Held(Conn)' = Held(Conn)
      /\ \A c \in Callers \ {s} : Held(c)' = Held(c)
  BY <1>1, <1>2, <1>4 DEF Held
<1>10. Known'
  BY <1>1, <1>2, <1>5, <1>9 DEF IInv, Known
<1>11. Private'
  <2>1. \A t \in Statements \ {s} : Held(t) \cap Held(s) = {}
    BY DEF IInv, Private
  <2> QED
    BY <1>1, <1>2, <1>9, <2>1 DEF IInv, Private, Callers
<1>12. Unsent \cup Held(Conn) \subseteq accepted
  <2>1. CASE Committing /\ work[Conn].kind = "Dml"
    <3>1. Leads(work[Conn], txn)
      BY <2>1 DEF IInv, AppliedPrefix, Leads
    <3>2. Unsent \subseteq Items(txn)
      BY <1>1, <2>1, <3>1, BehindSplit DEF IInv, TypeOK, Unsent
    <3> QED
      BY <3>2 DEF IInv, Buffered
  <2>2. CASE ~(Committing /\ work[Conn].kind = "Dml")
    BY <2>2, SMTT(30) DEF IInv, Buffered, Unsent
  <2> QED
    BY <2>1, <2>2
<1>13. Buffered'
  BY <1>2, <1>3, <1>5, <1>9, <1>12 DEF IInv, Buffered
<1>14. Applying'
  BY <1>2, <1>5, <1>9, <1>12 DEF IInv, Applying
<1>15. Doubt' /\ NoLostWork' /\ TwiceOnlyIfAmbiguous' /\ RolledBackStaysOut'
  BY <1>3, <1>5 DEF IInv, Doubt, NoLostWork, TwiceOnlyIfAmbiguous, RolledBackStaysOut
<1> QED
  BY <1>6, <1>7, <1>8, <1>10, <1>11, <1>13, <1>14, <1>15 DEF IInv

(* An abandoned commit lands late: all it carries is ambiguous. *)
LEMMA OrphanStep == IInv /\ orphan_lands => IInv'
<1> SUFFICES ASSUME IInv, orphan_lands PROVE IInv'
  OBVIOUS
<1>1. PICK o \in orphans :
        /\ orphans' = orphans \ {o}
        /\ Apply(o)
        /\ UNCHANGED <<txnVars, readOnly, threadVars, ledgerVars, readVars, manualDdl, issued>>
  BY DEF orphan_lands
<1>2. o \subseteq ambiguous /\ o \subseteq Nat /\ o \subseteq 1..issued
  BY DEF IInv, TypeOK, Doubt, Known
<1>3. UNCHANGED <<txn, autocommit, pc, work, toggling>>
  BY <1>1 DEF txnVars, threadVars
<1>4. /\ Committing' = Committing /\ Pending' = Pending /\ Unsent' = Unsent
      /\ \A c \in Callers : Held(c)' = Held(c)
      /\ Held(Conn)' = Held(Conn)
  BY <1>3 DEF Committing, Pending, Unsent, Held
<1>5. TypeOK'
  BY <1>1, <1>2, <1>3 DEF IInv, TypeOK, Apply, ledgerVars, readVars
<1>6. AutocommitUnset' /\ AppliedPrefix' /\ Shapes' /\ Control'
  BY <1>3, <1>4 DEF IInv, AutocommitUnset, AppliedPrefix, Shapes, Control
<1>7. Known'
  BY <1>1, <1>2, <1>3, <1>4 DEF IInv, Known, Apply, ledgerVars
<1>8. Private'
  BY <1>1, <1>2, <1>3, <1>4, ZenonT(30) DEF IInv, Private, Apply, ledgerVars, Callers
<1>9. Buffered' /\ Applying'
  BY <1>1, <1>2, <1>3, <1>4, ZenonT(30) DEF IInv, Buffered, Applying, Apply, ledgerVars
<1>10. Doubt' /\ NoLostWork' /\ TwiceOnlyIfAmbiguous' /\ RolledBackStaysOut'
  BY <1>1, <1>2, <1>4, ZenonT(30)
     DEF IInv, Doubt, NoLostWork, TwiceOnlyIfAmbiguous, RolledBackStaysOut,
                          Apply, ledgerVars
<1> QED
  BY <1>5, <1>6, <1>7, <1>8, <1>9, <1>10 DEF IInv

(* The steps of an RPC. *)
LEMMA RpcSteps ==
  ASSUME IInv, NEW c \in Callers, RpcStep(c)
  PROVE  IInv'
<1>1. /\ UNION orphans \subseteq ambiguous /\ orphans \subseteq SUBSET Nat
      /\ Held(c) = Items(work[c]) /\ Held(c) \subseteq Nat
  BY Fields DEF IInv, TypeOK, Doubt, Held
<1>2. CASE commit_lands(c)
  BY <1>1, <1>2, WorkLands, ZenonT(30) DEF commit_lands, Goto, ledgerVars
<1>3. CASE commit_replayed(c)
  <2>1. pc' = [pc EXCEPT ![c] = "landed"]
    BY <1>3 DEF commit_replayed, threadVars, IInv, TypeOK
  <2> QED
    BY <1>1, <1>3, <2>1, WorkLands, ZenonT(30) DEF commit_replayed, threadVars
<1>4. CASE commit_confirmed(c)
  <2>1. CASE c = Conn
    BY <1>1, <1>4, <2>1, ConnSucceeds DEF commit_confirmed
  <2>2. CASE c # Conn
    <3>1. c \in Statements /\ Return(c)
      BY <1>4, <2>2 DEF commit_confirmed, AfterOk, Callers
    <3> QED
      BY <1>1, <1>4, <3>1, StatementReturns DEF commit_confirmed, serverVars
  <2> QED
    BY <2>1, <2>2
<1>5. CASE commit_rejected(c)
  <2>1. CASE c = Conn
    BY <1>1, <1>5, <2>1, ConnFails DEF commit_rejected, serverVars, ledgerVars
  <2>2. CASE c # Conn
    <3>1. c \in Statements /\ Return(c)
      BY <1>5, <2>2 DEF commit_rejected, AfterErr, Callers
    <3> QED
      BY <1>1, <1>5, <3>1, StatementReturns DEF commit_rejected, serverVars, ledgerVars
  <2> QED
    BY <2>1, <2>2
<1>6. CASE commit_abandoned(c)
  <2>1. UNION orphans' \subseteq ambiguous' /\ orphans' \subseteq SUBSET Nat
    BY <1>1, <1>6, ZenonT(30) DEF commit_abandoned
  <2>2. CASE c = Conn
    BY <1>1, <1>6, <2>1, <2>2, ConnFails DEF commit_abandoned
  <2>3. CASE c # Conn
    <3>1. c \in Statements /\ Return(c)
      BY <1>6, <2>3 DEF commit_abandoned, AfterErr, Callers
    <3> QED
      BY <1>1, <1>6, <2>1, <3>1, StatementReturns DEF commit_abandoned
  <2> QED
    BY <2>2, <2>3
<1> QED
  BY <1>2, <1>3, <1>4, <1>5, <1>6 DEF RpcStep

-----------------------------------------------------------------------------
(* The invariant holds initially. *)
LEMMA InitInv == Init => IInv
<1> SUFFICES ASSUME Init PROVE IInv
  OBVIOUS
<1>1. /\ Unset \in ManualTxn /\ Shape(Unset) /\ Items(Unset) = {} /\ Unset.kind = "Unset"
      /\ Conn \in Callers /\ Statements \subseteq Callers
  BY Constructors DEF Unset, Callers
<1>2. /\ \A c \in Callers : pc[c] = "idle" /\ work[c] = Unset /\ Held(c) = {}
      /\ ~Committing /\ Unsent = {} /\ Pending = {}
  BY <1>1 DEF Init, Held, Committing, Unsent, Pending
<1>3. TypeOK
  BY <1>1, <1>2, ZenonT(30) DEF Init, TypeOK, ConnPC, StmtPC
<1>4. AutocommitUnset /\ AppliedPrefix /\ Shapes /\ Control
  BY <1>1, <1>2, SMTT(30) DEF Init, AutocommitUnset, AppliedPrefix, Shapes, Control, Fits
<1>5. Known /\ Private /\ Buffered /\ Applying /\ Doubt
  BY <1>1, <1>2 DEF Init, Known, Private, Buffered, Applying, Doubt
<1>6. NoLostWork /\ TwiceOnlyIfAmbiguous /\ RolledBackStaysOut
  BY DEF Init, NoLostWork, TwiceOnlyIfAmbiguous, RolledBackStaysOut
<1> QED
  BY <1>3, <1>4, <1>5, <1>6 DEF IInv

(* Every step preserves it. *)
LEMMA NextInv == IInv /\ [Next]_vars => IInv'
<1> SUFFICES ASSUME IInv, [Next]_vars PROVE IInv'
  OBVIOUS
<1>1. CASE Next
  BY <1>1, ConnSteps, StatementSteps, RpcSteps, OrphanStep DEF Next
<1>2. CASE UNCHANGED vars
  <2>1. readOnly \in BOOLEAN /\ manualDdl \in BOOLEAN /\ autocommit \in BOOLEAN
    BY DEF IInv, TypeOK
  <2> QED
    BY <1>2, <2>1, ModeStep DEF vars, txnVars
<1> QED
  BY <1>1, <1>2

(* IInv is an invariant of every behaviour. *)
LEMMA Invariance == Spec => []IInv
  BY InitInv, NextInv, PTL DEF Spec

-----------------------------------------------------------------------------
(* The theorems. *)

(* The state keeps its shape, whatever the threads do. *)
THEOREM TypeCorrect == Spec => []TypeOK
<1>1. IInv => TypeOK
  BY DEF IInv
<1> QED
  BY <1>1, Invariance, PTL

(* In autocommit mode the shared transaction is Unset: the comment on           *)
(* TxnState::txn, and the debug_assert of restore_manual.                       *)
THEOREM AutocommitModeIsUnset == Spec => []AutocommitUnset
<1>1. IInv => AutocommitUnset
  BY DEF IInv
<1> QED
  BY <1>1, Invariance, PTL

(* While commit runs without the lock, what it applies stays the head of the    *)
(* buffer, so that finish_commit drains that and nothing else.                  *)
THEOREM CommitAppliesAPrefix == Spec => []AppliedPrefix
<1>1. IInv => AppliedPrefix
  BY DEF IInv
<1> QED
  BY <1>1, Invariance, PTL

(* No work a manual transaction accepted is lost, for any number of statements  *)
(* buffering at any point of any commit, toggle or failure.                     *)
THEOREM NoWorkIsLost == Spec => []NoLostWork
<1>1. IInv => NoLostWork
  BY DEF IInv
<1> QED
  BY <1>1, Invariance, PTL

(* Work is applied twice only after a commit whose outcome was unknown.         *)
THEOREM AppliedTwiceOnlyIfAmbiguous == Spec => []TwiceOnlyIfAmbiguous
<1>1. IInv => TwiceOnlyIfAmbiguous
  BY DEF IInv
<1> QED
  BY <1>1, Invariance, PTL

(* What rollback discarded is in the database only after a commit of it whose   *)
(* outcome was unknown.                                                         *)
THEOREM RolledBackWorkStaysOut == Spec => []RolledBackStaysOut
<1>1. IInv => RolledBackStaysOut
  BY DEF IInv
<1> QED
  BY <1>1, Invariance, PTL
=============================================================================
