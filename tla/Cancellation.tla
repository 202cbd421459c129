---------------------------- MODULE Cancellation ----------------------------
(***************************************************************************)
(* One CancelSlot (runtime.rs): operations mint a signal in it, read it    *)
(* back and wait on it beside a future that may never complete             *)
(* (block_on_cancellable), while another thread signals whatever operation *)
(* is current.  A signal is a latched flag and a Notify, which wakes only  *)
(* the waiters registered when it is notified.                             *)
(*                                                                         *)
(* Over the C ABI, and of a statement, one operation runs at a time;       *)
(* connection methods that take &self may overlap through the Rust API     *)
(* (Overlap).                                                              *)
(***************************************************************************)
EXTENDS Integers, FiniteSets

CONSTANTS
  Callers,     \* threads that call operations
  Overlap,     \* may two operations overlap
  MaxSignals   \* bounds the signals minted

NoSignal == 0
Signals == 1..MaxSignals

VARIABLES
  slot,      \* the signal the CancelSlot holds
  minted,    \* signals so far
  locked,    \* the canceller holds the slot's lock
  flag,      \* the latched flag of each signal
  canceller, \* its step: "idle", "store", "notify"
  op         \* each caller's operation

vars == <<slot, minted, locked, flag, canceller, op>>

Idle == [pc |-> "idle", own |-> NoSignal, sig |-> NoSignal, registered |-> FALSE, woken |-> FALSE, aimed |-> FALSE]

InFlight(c) == op[c].pc \notin {"idle", "done", "cancelled"}

Init ==
  /\ slot = 1 /\ minted = 1 /\ locked = FALSE
  /\ flag = [s \in Signals |-> FALSE]
  /\ canceller = "idle"
  /\ op = [c \in Callers |-> Idle]

Goto(c, pc) == op' = [op EXCEPT ![c].pc = pc]

-----------------------------------------------------------------------------
(* An operation. *)

CanBegin(c) ==
  /\ op[c].pc \in {"idle", "done", "cancelled"} /\ ~locked
  /\ minted < MaxSignals
  /\ Overlap \/ \A d \in Callers : ~InFlight(d)

(* Mutant: the signal of the operation before is used again. *)
begin_operation_keeps(c) ==
  /\ CanBegin(c)
  /\ minted' = minted + 1
  /\ op' = [op EXCEPT ![c] = [Idle EXCEPT !.pc = "begun", !.own = slot]]
  /\ UNCHANGED <<slot, locked, flag, canceller>>

begin_operation(c) ==
  /\ CanBegin(c)
  /\ minted' = minted + 1 /\ slot' = minted + 1
  /\ op' = [op EXCEPT ![c] = [Idle EXCEPT !.pc = "begun", !.own = minted + 1]]
  /\ UNCHANGED <<locked, flag, canceller>>

(* The operation asks the slot again for its signal. *)
current(c) ==
  /\ op[c].pc = "begun" /\ ~locked
  /\ op' = [op EXCEPT ![c].pc = "check", ![c].sig = slot]
  /\ UNCHANGED <<slot, minted, locked, flag, canceller>>

(* cancelled(): check, register, check again, wait. *)
check(c) ==
  /\ op[c].pc = "check"
  /\ Goto(c, IF flag[op[c].sig] THEN "cancelled" ELSE "enable")
  /\ UNCHANGED <<slot, minted, locked, flag, canceller>>

enable(c) ==
  /\ op[c].pc = "enable"
  /\ op' = [op EXCEPT ![c].pc = "recheck", ![c].registered = TRUE, ![c].woken = FALSE]
  /\ UNCHANGED <<slot, minted, locked, flag, canceller>>

(* Mutant: the flag is not looked at again. *)
recheck_skipped(c) ==
  /\ op[c].pc = "recheck"
  /\ Goto(c, "poll")
  /\ UNCHANGED <<slot, minted, locked, flag, canceller>>

recheck(c) ==
  /\ op[c].pc = "recheck"
  /\ Goto(c, IF flag[op[c].sig] THEN "cancelled" ELSE "poll")
  /\ UNCHANGED <<slot, minted, locked, flag, canceller>>

(* The operation's future, polled after the waiter: ready, or it parks. *)
poll(c) ==
  /\ op[c].pc = "poll"
  /\ Goto(c, "done") \/ Goto(c, "park")
  /\ UNCHANGED <<slot, minted, locked, flag, canceller>>

Rewait(c) == op' = [op EXCEPT ![c].pc = "check", ![c].registered = FALSE]

wake(c) ==
  /\ op[c].pc = "park" /\ op[c].woken
  /\ Rewait(c)
  /\ UNCHANGED <<slot, minted, locked, flag, canceller>>

(* The future is ready: the select is biased, a waiter that was woken goes first. *)
complete(c) ==
  /\ op[c].pc = "park"
  /\ IF op[c].woken THEN Rewait(c) ELSE Goto(c, "done")
  /\ UNCHANGED <<slot, minted, locked, flag, canceller>>

-----------------------------------------------------------------------------
(* try_cancel: the slot's lock is held over both steps of signal(). *)

try_cancel ==
  /\ canceller = "idle"
  /\ locked' = TRUE /\ canceller' = "store"
  /\ op' = [c \in Callers |-> [op[c] EXCEPT !.aimed = @ \/ (InFlight(c) /\ op[c].own = slot)]]
  /\ UNCHANGED <<slot, minted, flag>>

signal_store ==
  /\ canceller = "store"
  /\ flag' = [flag EXCEPT ![slot] = TRUE] /\ canceller' = "notify"
  /\ UNCHANGED <<slot, minted, locked, op>>

notify_waiters ==
  /\ canceller = "notify"
  /\ op' = [c \in Callers |->
       [op[c] EXCEPT !.woken = @ \/ (op[c].registered /\ op[c].sig = slot)]]
  /\ locked' = FALSE /\ canceller' = "idle"
  /\ UNCHANGED <<slot, minted, flag>>

-----------------------------------------------------------------------------
(* The waiter's own steps and the canceller's; not the future's completion. *)
Waiter(c) == current(c) \/ check(c) \/ enable(c) \/ recheck(c) \/ poll(c) \/ wake(c)

Next ==
  \/ \E c \in Callers : begin_operation(c) \/ Waiter(c) \/ complete(c)
  \/ try_cancel \/ signal_store \/ notify_waiters

Spec == Init /\ [][Next]_vars

(* Strong fairness of current: the lock it needs is held for two steps at a time. *)
Fairness ==
  /\ \A c \in Callers : WF_vars(Waiter(c)) /\ SF_vars(current(c))
  /\ WF_vars(signal_store \/ notify_waiters)

LiveSpec == Spec /\ Fairness

-----------------------------------------------------------------------------
(* Properties. *)

(* An operation waits on the signal minted for it. *)
WaitsOnItsOwn == \A c \in Callers : InFlight(c) /\ op[c].sig # NoSignal => op[c].sig = op[c].own

(* "a stale cancel cannot leak into the next operation": only a cancel made      *)
(* while the operation was current ends it.                                      *)
CancelledWasAimedAt == \A c \in Callers : op[c].pc = "cancelled" => op[c].aimed

(* A cancel of the current operation ends it, wherever in the wait it lands and  *)
(* although the future never completes: no wakeup is lost.                       *)
CancelEnds == \A c \in Callers : op[c].aimed /\ InFlight(c) ~> ~InFlight(c)
=============================================================================
