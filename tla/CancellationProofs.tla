------------------------- MODULE CancellationProofs -------------------------
(***************************************************************************)
(* One CancelSlot whose operations run one at a time: for any number of    *)
(* threads, operations and cancels, a cancel reaches the operation it was  *)
(* aimed at and no other.                                                  *)
(***************************************************************************)
EXTENDS Cancellation, TLAPS

-----------------------------------------------------------------------------
(* The inductive invariant. *)

Waiting == {"check", "enable", "recheck", "poll", "park"}
Ended == {"idle", "done", "cancelled"}

OpType == [pc : Ended \cup {"begun"} \cup Waiting, own : Nat, sig : Nat, registered : BOOLEAN,
           woken : BOOLEAN, aimed : BOOLEAN]

Types ==
  /\ minted \in Signals /\ slot \in Signals
  /\ locked \in BOOLEAN
  /\ flag \in [Signals -> BOOLEAN]
  /\ canceller \in {"idle", "store", "notify"}
  /\ op \in [Callers -> OpType]

(* The slot holds the latest signal, and the later ones are unset. *)
Slot ==
  /\ slot = minted
  /\ \A s \in Signals : s > minted => ~flag[s]
  /\ locked <=> canceller # "idle"

(* An operation under way owns the signal in the slot. *)
Owners ==
  \A c \in Callers :
    /\ InFlight(c) => op[c].own = slot
    /\ op[c].pc = "begun" => op[c].sig = NoSignal
    /\ op[c].pc \in Waiting => op[c].sig = slot

(* A signal that is or will be latched was aimed at the operation under way. *)
Aimed ==
  canceller = "store" \/ flag[slot] => \A c \in Callers : InFlight(c) => op[c].aimed

IInv == Types /\ Slot /\ Owners /\ Aimed /\ CancelledWasAimedAt

-----------------------------------------------------------------------------
(* The steps. *)

LEMMA IdleType == Idle \in OpType
  BY DEF Idle, OpType, Ended, NoSignal

LEMMA BeginKeeps ==
  ASSUME ~Overlap, MaxSignals \in Nat \ {0}, IInv, NEW c \in Callers, begin_operation(c)
  PROVE  IInv'
<1>1. /\ minted + 1 \in Signals /\ ~flag[minted + 1] /\ canceller = "idle"
      /\ \A d \in Callers : ~InFlight(d)
  BY DEF begin_operation, CanBegin, IInv, Types, Slot, Signals
<1>2. /\ op'[c] = [Idle EXCEPT !.pc = "begun", !.own = minted + 1]
      /\ \A d \in Callers \ {c} : op'[d] = op[d]
  BY DEF begin_operation, IInv, Types
<1>3. Types'
  <2>1. op'[c] \in OpType
    <3>1. minted + 1 \in Nat
      BY <1>1 DEF Signals
    <3> QED
      BY <1>2, <3>1, IdleType DEF OpType
  <2> QED
    BY <1>1, <2>1 DEF begin_operation, IInv, Types
<1>4. Slot'
  BY <1>1 DEF begin_operation, IInv, Types, Slot, Signals
<1>5. Owners'
  BY <1>1, <1>2 DEF begin_operation, Owners, InFlight, Idle, Waiting
<1>6. Aimed' /\ CancelledWasAimedAt'
  BY <1>1, <1>2 DEF begin_operation, IInv, Aimed, CancelledWasAimedAt, Idle
<1> QED
  BY <1>3, <1>4, <1>5, <1>6 DEF IInv

(* An operation goes on, or ends, without touching the slot; it is cancelled only *)
(* if it found its flag set.                                                       *)
LEMMA OperationKeeps ==
  ASSUME IInv, NEW c \in Callers, NEW o \in OpType,
         op[c].pc \notin Ended,
         o.pc # "begun", o.pc # "idle", o.own = op[c].own, o.aimed = op[c].aimed,
         o.pc \in Waiting => o.sig = slot,
         o.pc = "cancelled" => flag[slot],
         op' = [op EXCEPT ![c] = o],
         UNCHANGED <<slot, minted, locked, flag, canceller>>
  PROVE  IInv'
<1>1. op'[c] = o /\ \A d \in Callers \ {c} : op'[d] = op[d]
  BY DEF IInv, Types
<1>2. Types' /\ Slot'
  BY DEF IInv, Types, Slot
<1>3. InFlight(c) /\ \A d \in Callers : InFlight(d)' => InFlight(d)
  BY <1>1 DEF InFlight, Ended
<1>4. Owners'
  BY <1>1, <1>3 DEF IInv, Owners
<1>5. Aimed'
  BY <1>1, <1>3 DEF IInv, Aimed
<1>6. CancelledWasAimedAt'
  BY <1>1, <1>3 DEF IInv, Aimed, CancelledWasAimedAt
<1> QED
  BY <1>2, <1>4, <1>5, <1>6 DEF IInv

LEMMA WaiterKeeps ==
  ASSUME IInv, NEW c \in Callers, Waiter(c) \/ complete(c)
  PROVE  IInv'
<1>1. op[c] \in OpType /\ slot \in Nat
  BY DEF IInv, Types, Signals
<1>2. op[c].pc \in Waiting => op[c].sig = slot
  BY DEF IInv, Owners
<1>3. CASE current(c)
  <2> DEFINE o == [op[c] EXCEPT !.pc = "check", !.sig = slot]
  <2>1. o \in OpType /\ op' = [op EXCEPT ![c] = o]
    BY <1>1, <1>3 DEF current, OpType, Waiting, IInv, Types
  <2> QED
    BY <1>1, <1>3, <2>1, OperationKeeps DEF current, OpType, Ended
<1>4. CASE enable(c)
  <2> DEFINE o == [op[c] EXCEPT !.pc = "recheck", !.registered = TRUE, !.woken = FALSE]
  <2>1. o \in OpType /\ op' = [op EXCEPT ![c] = o]
    BY <1>1, <1>4 DEF enable, OpType, Waiting, IInv, Types
  <2> QED
    <3>1. o.pc = "recheck" /\ o.own = op[c].own /\ o.aimed = op[c].aimed /\ o.sig = op[c].sig
      BY <1>1 DEF OpType
    <3>2. op[c].pc = "enable" /\ UNCHANGED <<slot, minted, locked, flag, canceller>>
      BY <1>4 DEF enable
    <3> HIDE DEF o
    <3> QED
      BY <1>2, <2>1, <3>1, <3>2, OperationKeeps DEF Ended, Waiting
<1>5. ASSUME NEW p \in Waiting \cup {"done", "cancelled"}, op[c].pc \in Waiting, Goto(c, p),
             p = "cancelled" => flag[op[c].sig],
             UNCHANGED <<slot, minted, locked, flag, canceller>>
      PROVE  IInv'
  <2> DEFINE o == [op[c] EXCEPT !.pc = p]
  <2>1. o \in OpType /\ op' = [op EXCEPT ![c] = o]
    BY <1>1, <1>5 DEF Goto, OpType, Ended, IInv, Types
  <2> QED
    BY <1>1, <1>2, <1>5, <2>1, OperationKeeps DEF OpType, Ended, Waiting
<1>6. CASE check(c) \/ recheck(c) \/ poll(c)
  BY <1>5, <1>6 DEF check, recheck, poll, Waiting
<1>7. ASSUME op[c].pc = "park", Rewait(c), UNCHANGED <<slot, minted, locked, flag, canceller>>
      PROVE  IInv'
  <2> DEFINE o == [op[c] EXCEPT !.pc = "check", !.registered = FALSE]
  <2>1. o \in OpType /\ op' = [op EXCEPT ![c] = o]
    BY <1>1, <1>7 DEF Rewait, OpType, Waiting, IInv, Types
  <2> QED
    BY <1>1, <1>2, <1>7, <2>1, OperationKeeps DEF OpType, Ended, Waiting
<1>8. CASE wake(c) \/ complete(c)
  BY <1>5, <1>7, <1>8 DEF wake, complete, Waiting
<1> QED
  BY <1>3, <1>4, <1>6, <1>8 DEF Waiter

LEMMA TryCancelKeeps ==
  ASSUME IInv, try_cancel
  PROVE  IInv'
<1>1. \A c \in Callers :
        op'[c] = [op[c] EXCEPT !.aimed = op[c].aimed \/ (InFlight(c) /\ op[c].own = slot)]
  BY DEF try_cancel
<1>2. \A c \in Callers : op[c] \in OpType
  BY DEF IInv, Types
<1>3. \A c \in Callers :
        /\ op'[c] \in OpType
        /\ op'[c].pc = op[c].pc /\ op'[c].own = op[c].own /\ op'[c].sig = op[c].sig
        /\ op[c].aimed \/ InFlight(c) => op'[c].aimed
        /\ InFlight(c)' <=> InFlight(c)
  <2> SUFFICES ASSUME NEW c \in Callers
               PROVE  /\ op'[c] \in OpType
                      /\ op'[c].pc = op[c].pc /\ op'[c].own = op[c].own /\ op'[c].sig = op[c].sig
                      /\ op[c].aimed \/ InFlight(c) => op'[c].aimed
                      /\ InFlight(c)' <=> InFlight(c)
    OBVIOUS
  <2>1. InFlight(c) => op[c].own = slot
    BY DEF IInv, Owners
  <2>2. op'[c].pc = op[c].pc
    BY <1>1, <1>2 DEF OpType
  <2> QED
    BY <1>1, <1>2, <2>1, <2>2 DEF OpType, InFlight
<1>4. Types'
  BY <1>3 DEF try_cancel, IInv, Types
<1>5. Slot' /\ Owners'
  BY <1>3 DEF try_cancel, IInv, Slot, Owners
<1>6. Aimed' /\ CancelledWasAimedAt'
  BY <1>3 DEF try_cancel, IInv, Aimed, CancelledWasAimedAt
<1> QED
  BY <1>4, <1>5, <1>6 DEF IInv

LEMMA SignalStoreKeeps ==
  ASSUME IInv, signal_store
  PROVE  IInv'
<1>1. Types'
  BY DEF signal_store, IInv, Types
<1>2. Slot'
  BY DEF signal_store, IInv, Types, Slot, Signals
<1>3. Owners' /\ CancelledWasAimedAt'
  BY DEF signal_store, IInv, Owners, CancelledWasAimedAt, InFlight
<1>4. Aimed'
  BY DEF signal_store, IInv, Aimed, InFlight
<1> QED
  BY <1>1, <1>2, <1>3, <1>4 DEF IInv

LEMMA NotifyWaitersKeeps ==
  ASSUME IInv, notify_waiters
  PROVE  IInv'
<1>1. \A c \in Callers :
        op'[c] = [op[c] EXCEPT !.woken = op[c].woken \/ (op[c].registered /\ op[c].sig = slot)]
  BY DEF notify_waiters
<1>2. \A c \in Callers : op[c] \in OpType
  BY DEF IInv, Types
<1>3. \A c \in Callers :
        /\ op'[c] \in OpType
        /\ op'[c].pc = op[c].pc /\ op'[c].own = op[c].own /\ op'[c].sig = op[c].sig
        /\ op'[c].aimed = op[c].aimed
  BY <1>1, <1>2 DEF OpType
<1>4. \A c \in Callers : InFlight(c)' <=> InFlight(c)
  BY <1>3 DEF InFlight
<1>5. Types'
  BY <1>3 DEF notify_waiters, IInv, Types
<1>6. Slot' /\ Owners'
  BY <1>3, <1>4 DEF notify_waiters, IInv, Slot, Owners
<1>7. Aimed'
  BY <1>3, <1>4 DEF notify_waiters, IInv, Aimed
<1>8. CancelledWasAimedAt'
  BY <1>3 DEF IInv, CancelledWasAimedAt
<1> QED
  BY <1>5, <1>6, <1>7, <1>8 DEF IInv

LEMMA StepKeeps ==
  ASSUME ~Overlap, MaxSignals \in Nat \ {0}, IInv, [Next]_vars
  PROVE  IInv'
<1>1. CASE UNCHANGED vars
  BY <1>1 DEF vars, IInv, Types, Slot, Owners, Aimed, CancelledWasAimedAt, InFlight
<1> QED
  BY <1>1, BeginKeeps, WaiterKeeps, TryCancelKeeps, SignalStoreKeeps, NotifyWaitersKeeps DEF Next

LEMMA Initially ==
  ASSUME MaxSignals \in Nat \ {0}
  PROVE  Init => IInv
<1> SUFFICES ASSUME Init PROVE IInv
  OBVIOUS
<1>1. Types /\ Slot
  <2>1. 1 \in Signals /\ op \in [Callers -> OpType] /\ flag \in [Signals -> BOOLEAN]
    BY IdleType DEF Init, Signals
  <2>2. locked \in BOOLEAN /\ \A s \in Signals : ~flag[s]
    BY DEF Init
  <2> QED
    BY <2>1, <2>2 DEF Init, Types, Slot
<1>2. \A c \in Callers : op[c].pc = "idle"
  BY DEF Init, Idle
<1> QED
  BY <1>1, <1>2 DEF IInv, Owners, Aimed, CancelledWasAimedAt, InFlight, Waiting

-----------------------------------------------------------------------------
(* The theorems. *)

(* Where operations do not overlap, each one waits on the signal minted for it. *)
THEOREM OperationWaitsOnItsOwn ==
  ASSUME ~Overlap, MaxSignals \in Nat \ {0}
  PROVE  Spec => []WaitsOnItsOwn
<1>1. IInv => WaitsOnItsOwn
  BY DEF IInv, Types, OpType, Owners, WaitsOnItsOwn, InFlight, Ended, Waiting
<1> QED
  BY <1>1, Initially, StepKeeps, PTL DEF Spec

(* Where operations do not overlap, an operation ends as cancelled only if a    *)
(* cancel was called while it was current: a stale one cannot leak into it.     *)
THEOREM OnlyAimedAtIsCancelled ==
  ASSUME ~Overlap, MaxSignals \in Nat \ {0}
  PROVE  Spec => []CancelledWasAimedAt
<1>1. IInv => CancelledWasAimedAt
  BY DEF IInv
<1> QED
  BY <1>1, Initially, StepKeeps, PTL DEF Spec
=============================================================================
