------------------------------ MODULE FfiHandle ------------------------------
(***************************************************************************)
(* The objects behind the C ABI's handles (ffi/handle.rs, and New, Init    *)
(* and Release in ffi/options.rs, ffi/database.rs, ffi/connection.rs and   *)
(* ffi/statement.rs), called by several threads.  Every call but Cancel    *)
(* borrows the handle's reference and takes the object's state lock.       *)
(* Cancel takes a reference of its own and, for the time of try_cancel,    *)
(* the lock of the cancel handle; so does an Init, to install the handle.  *)
(* A driver call may succeed, fail, panic or never return.                 *)
(*                                                                         *)
(* The host keeps what the C API demands of it: Release overlaps no other  *)
(* call on the object, except a Cancel that has its reference.             *)
(***************************************************************************)
EXTENDS Integers, FiniteSets

CONSTANTS
  Threads,
  Handles   \* the host's handles, among "database", "connection" and "statement"

Null == <<"null", 0>>

(* Memory for the object of each handle, and for one more per thread that still *)
(* holds on to a released one; a freed place is used again.                     *)
Objects == Handles \X (0..Cardinality(Threads))

Nobody == "nobody"

ASSUME ThreadsAssumption == IsFiniteSet(Threads) /\ Nobody \notin Threads

(* A connection is made from a database, a statement from a connection. *)
ASSUME HandlesAssumption ==
  /\ Handles \subseteq {"database", "connection", "statement"}
  /\ "connection" \in Handles => "database" \in Handles
  /\ "statement" \in Handles => "connection" \in Handles

VARIABLES
  slot,      \* private_data of each handle: an object or Null
  obj,       \* Exported<S> of each object: the holders of its state lock (lock) and of
             \* its cancel lock (guard), the cancel handle there or not (cancel)
  th,        \* each thread's place in its call
  driverPoisoned   \* the Mutex of shared_driver() is poisoned

vars == <<slot, obj, th, driverPoisoned>>

(* No object: nothing refers to the place. *)
Free == [refs |-> 0, poisoned |-> FALSE, lock |-> Nobody, ready |-> FALSE,
         cancel |-> FALSE, guard |-> Nobody]

Idle == [pc |-> "idle", op |-> "none", h |-> "none", o |-> Null, second |-> Null, late |-> FALSE]

Init ==
  /\ slot = [h \in Handles |-> Null]
  /\ obj = [o \in Objects |-> Free]
  /\ th = [t \in Threads |-> Idle]
  /\ driverPoisoned = FALSE

Goto(t, pc) == th' = [th EXCEPT ![t].pc = pc]
Return(t) == th' = [th EXCEPT ![t] = Idle]

-----------------------------------------------------------------------------
(* New and Release. *)

(* into_private_data: a new object, its one reference the handle's. *)
Create(h, ready, cancel) ==
  LET free == {i \in 0..Cardinality(Threads) : obj[<<h, i>>].refs = 0}
      o == <<h, CHOOSE i \in free : \A j \in free : i <= j>>
  IN  /\ slot' = [slot EXCEPT ![h] = o]
      /\ obj' = [obj EXCEPT ![o] = [Free EXCEPT !.refs = 1, !.ready = ready, !.cancel = cancel]]

(* A populated handle is refused, so no object is overwritten. *)
new_handle(t, h) ==
  /\ th[t].pc = "idle" /\ h # "statement"
  /\ slot[h] = Null
  /\ Create(h, FALSE, FALSE)
  /\ UNCHANGED <<th, driverPoisoned>>

(* The calls on a handle's object that Release may not overlap. *)
Borrowers(h) ==
  {t \in Threads : \/ th[t].h = h /\ th[t].pc \notin {"idle", "cancel_lock", "cancel_call", "cancel_drop", "drop"}
                   \/ h = "database" /\ th[t].op = "connection_init"
                   \/ h = "connection" /\ th[t].op = "statement_new"}

release_take(t, h) ==
  /\ th[t].pc = "idle" /\ slot[h] # Null
  /\ Borrowers(h) = {}
  /\ th' = [th EXCEPT ![t] = [Idle EXCEPT !.pc = "drop", !.op = "release", !.h = h, !.o = slot[h]]]
  /\ slot' = [slot EXCEPT ![h] = Null]
  /\ UNCHANGED <<obj, driverPoisoned>>

DropRef(o) == [obj EXCEPT ![o] = IF obj[o].refs = 1 THEN Free ELSE [obj[o] EXCEPT !.refs = @ - 1]]

release_drop(t) ==
  /\ th[t].pc = "drop"
  /\ obj' = DropRef(th[t].o)
  /\ Return(t)
  /\ UNCHANGED <<slot, driverPoisoned>>

-----------------------------------------------------------------------------
(* Dispatched calls: borrow, lock, run, unlock. *)

(* "call" stands for every entry point that needs an initialized object. *)
borrowed(t, h, op) ==
  /\ th[t].pc = "idle" /\ slot[h] # Null
  /\ op \in {"call"} \cup (IF h = "statement" THEN {} ELSE {"init"})
  /\ th' = [th EXCEPT ![t] = [Idle EXCEPT !.pc = "lock", !.h = h, !.o = slot[h],
                                !.op = IF op = "init" /\ h = "connection" THEN "connection_init" ELSE op]]
  /\ UNCHANGED <<slot, obj, driverPoisoned>>

(* Mutant: the poison flag is read before the lock is taken. *)
lock_state_early(t) ==
  \/ /\ th[t].pc = "lock" /\ ~th[t].late
     /\ IF obj[th[t].o].poisoned THEN Return(t) ELSE th' = [th EXCEPT ![t].late = TRUE]
     /\ UNCHANGED <<slot, obj, driverPoisoned>>
  \/ /\ th[t].pc = "lock" /\ th[t].late
     /\ obj[th[t].o].lock = Nobody
     /\ obj' = [obj EXCEPT ![th[t].o].lock = t] /\ Goto(t, "turn")
     /\ UNCHANGED <<slot, driverPoisoned>>

(* lock_state: the flag is read under the lock. *)
lock_state(t) ==
  /\ th[t].pc = "lock"
  /\ obj[th[t].o].lock = Nobody
  /\ IF obj[th[t].o].poisoned THEN Return(t) /\ UNCHANGED obj
     ELSE obj' = [obj EXCEPT ![th[t].o].lock = t] /\ Goto(t, "turn")
  /\ UNCHANGED <<slot, driverPoisoned>>

Unlock(o) == [obj EXCEPT ![o].lock = Nobody]

(* The call has its turn: it needs a ready object, or for Init a pending one. *)
turn(t) ==
  /\ th[t].pc = "turn"
  /\ LET o == th[t].o
         ok == IF th[t].op = "call" THEN obj[o].ready ELSE ~obj[o].ready
         refused == ~ok \/ (th[t].op = "init" /\ driverPoisoned)
                        \/ (th[t].op = "connection_init" /\ slot["database"] = Null)
     IN  IF refused THEN obj' = Unlock(o) /\ Return(t)
         ELSE /\ UNCHANGED obj
              /\ IF th[t].op = "connection_init"
                 THEN th' = [th EXCEPT ![t].pc = "second", ![t].second = slot["database"]]
                 ELSE Goto(t, "running")
  /\ UNCHANGED <<slot, driverPoisoned>>

(* options::borrow of the second object, the first still locked. *)
borrow(t) ==
  /\ th[t].pc = "second"
  /\ LET s == th[t].second
     IN  /\ obj[s].lock = Nobody
         /\ IF obj[s].poisoned \/ ~obj[s].ready
            THEN obj' = (IF th[t].o = Null THEN obj ELSE Unlock(th[t].o)) /\ Return(t)
            ELSE obj' = [obj EXCEPT ![s].lock = t] /\ Goto(t, "running")
  /\ UNCHANGED <<slot, driverPoisoned>>

(* Driver code returns, with success or an error.  database_init publishes the *)
(* ready state; connection_init goes on to install the cancel handle.          *)
run_returns(t) ==
  /\ th[t].pc = "running" /\ th[t].op \in {"call", "init"}
  /\ \E ok \in BOOLEAN :
       obj' = [Unlock(th[t].o) EXCEPT ![th[t].o].ready = @ \/ (ok /\ th[t].op = "init")]
  /\ Return(t)
  /\ UNCHANGED <<slot, driverPoisoned>>

(* dispatch contains a panic and marks the object, still under its lock; the    *)
(* guard of the shared driver, inside the contained code, is poisoned.          *)
run_panics(t) ==
  /\ th[t].pc = "running" /\ th[t].op \in {"call", "init"}
  /\ obj' = [Unlock(th[t].o) EXCEPT ![th[t].o].poisoned = TRUE]
  /\ driverPoisoned' = (driverPoisoned \/ th[t].op = "init")
  /\ Return(t)
  /\ UNCHANGED <<slot>>

-----------------------------------------------------------------------------
(* connection_init, past new_connection_with_opts. *)

Unlock2(t) == [Unlock(th[t].o) EXCEPT ![th[t].second].lock = Nobody]

connection_init_fails(t) ==
  /\ th[t].pc = "running" /\ th[t].op = "connection_init"
  /\ obj' = Unlock2(t)
  /\ Return(t)
  /\ UNCHANGED <<slot, driverPoisoned>>

(* The panic unwinds through the database's guard before it is contained; the   *)
(* flag std sets on that mutex is one lock_state passes over.                   *)
connection_init_panics(t) ==
  /\ th[t].pc = "running" /\ th[t].op = "connection_init"
  /\ obj' = [Unlock2(t) EXCEPT ![th[t].o].poisoned = TRUE]
  /\ Return(t)
  /\ UNCHANGED <<slot, driverPoisoned>>

connection_init_connected(t) ==
  /\ th[t].pc = "running" /\ th[t].op = "connection_init"
  /\ Goto(t, "install")
  /\ UNCHANGED <<slot, obj, driverPoisoned>>

(* The cancel lock is taken, and let go, while both state locks are held. *)
install_cancel_handle(t) ==
  /\ th[t].pc = "install"
  /\ obj[th[t].o].guard = Nobody
  /\ obj' = [obj EXCEPT ![th[t].o].cancel = TRUE]
  /\ Goto(t, "publish")
  /\ UNCHANGED <<slot, driverPoisoned>>

connection_init_publish(t) ==
  /\ th[t].pc = "publish"
  /\ obj' = [Unlock2(t) EXCEPT ![th[t].o].ready = TRUE]
  /\ Return(t)
  /\ UNCHANGED <<slot, driverPoisoned>>

-----------------------------------------------------------------------------
(* statement_new locks its connection; there is no object of its own yet. *)

statement_new(t) ==
  /\ "statement" \in Handles
  /\ th[t].pc = "idle" /\ slot["statement"] = Null /\ slot["connection"] # Null
  /\ \A u \in Threads : th[u].op # "statement_new"     \* one handle, one creator
  /\ th' = [th EXCEPT ![t] = [Idle EXCEPT !.pc = "second", !.op = "statement_new",
                                          !.second = slot["connection"]]]
  /\ UNCHANGED <<slot, obj, driverPoisoned>>

(* The connection's lock is let go before the handle is populated. *)
statement_new_returns(t) ==
  /\ th[t].pc = "running" /\ th[t].op = "statement_new"
  /\ obj' = Unlock(th[t].second)
  /\ \/ Return(t)
     \/ Goto(t, "populate")
  /\ UNCHANGED <<slot, driverPoisoned>>

(* So does a panic through the connection's guard: no object is marked. *)
statement_new_panics(t) ==
  /\ th[t].pc = "running" /\ th[t].op = "statement_new"
  /\ obj' = Unlock(th[t].second)
  /\ Return(t)
  /\ UNCHANGED <<slot, driverPoisoned>>

statement_new_populate(t) ==
  /\ th[t].pc = "populate"
  /\ Create("statement", TRUE, TRUE)
  /\ Return(t)
  /\ UNCHANGED driverPoisoned

-----------------------------------------------------------------------------
(* Cancel: read the slot, take a reference and the cancel lock, cancel, drop    *)
(* the lock and the reference.                                                  *)

cancel_read(t, h) ==
  /\ th[t].pc = "idle" /\ slot[h] # Null /\ h # "database"
  /\ th' = [th EXCEPT ![t] = [Idle EXCEPT !.pc = "cancel_ref", !.op = "cancel", !.h = h, !.o = slot[h]]]
  /\ UNCHANGED <<slot, obj, driverPoisoned>>

(* Mutant: the handle's reference is borrowed. *)
strong_borrows(t) ==
  /\ th[t].pc = "cancel_ref"
  /\ Goto(t, "cancel_lock")
  /\ UNCHANGED <<slot, obj, driverPoisoned>>

strong(t) ==
  /\ th[t].pc = "cancel_ref"
  /\ obj' = [obj EXCEPT ![th[t].o].refs = @ + 1]
  /\ Goto(t, "cancel_lock")
  /\ UNCHANGED <<slot, driverPoisoned>>

cancel_lock(t) ==
  /\ th[t].pc = "cancel_lock"
  /\ obj[th[t].o].guard = Nobody
  /\ obj' = [obj EXCEPT ![th[t].o].guard = t]
  /\ Goto(t, "cancel_call")
  /\ UNCHANGED <<slot, driverPoisoned>>

(* Mutant: cancel waits for its dispatch turn. *)
cancel_dispatched(t) ==
  /\ th[t].pc = "cancel_call"
  /\ obj[th[t].o].lock = Nobody
  /\ obj' = [obj EXCEPT ![th[t].o].guard = Nobody]
  /\ Goto(t, "cancel_drop")
  /\ UNCHANGED <<slot, driverPoisoned>>

(* try_cancel, which only sets a signal, or the refusal of an object without a  *)
(* cancel handle; neither the state lock nor the poison flag is looked at.      *)
cancel(t) ==
  /\ th[t].pc = "cancel_call"
  /\ obj' = [obj EXCEPT ![th[t].o].guard = Nobody]
  /\ Goto(t, "cancel_drop")
  /\ UNCHANGED <<slot, driverPoisoned>>

cancel_drop(t) ==
  /\ th[t].pc = "cancel_drop"
  /\ obj' = DropRef(th[t].o)
  /\ Return(t)
  /\ UNCHANGED <<slot, driverPoisoned>>

-----------------------------------------------------------------------------
Cancelling(t) == strong(t) \/ cancel_lock(t) \/ cancel(t) \/ cancel_drop(t)

Begin(t) ==
  \/ \E h \in Handles : \/ new_handle(t, h) \/ release_take(t, h) \/ cancel_read(t, h)
                         \/ \E op \in {"call", "init"} : borrowed(t, h, op)
  \/ statement_new(t)

Continue(t) ==
  \/ release_drop(t) \/ lock_state(t) \/ turn(t) \/ borrow(t) \/ run_returns(t) \/ run_panics(t)
  \/ connection_init_fails(t) \/ connection_init_panics(t) \/ connection_init_connected(t)
  \/ install_cancel_handle(t) \/ connection_init_publish(t)
  \/ statement_new_returns(t) \/ statement_new_panics(t) \/ statement_new_populate(t)
  \/ Cancelling(t)

Next == \E t \in Threads : Begin(t) \/ Continue(t)

Spec == Init /\ [][Next]_vars

-----------------------------------------------------------------------------
(* Properties. *)

(* Places, objects and locks: a lock's holder is in a call on the object, that *)
(* of a cancel lock in the Cancel.                                             *)
TypeOK ==
  /\ slot \in [Handles -> Objects \cup {Null}]
  /\ \A o \in Objects : obj[o].refs \in Nat /\ {obj[o].lock, obj[o].guard} \subseteq Threads \cup {Nobody}
  /\ \A o \in Objects : obj[o].lock # Nobody =>
       /\ o \in {th[obj[o].lock].o, th[obj[o].lock].second}
       /\ th[obj[o].lock].pc \in {"turn", "second", "running", "install", "publish"}
  /\ \A o \in Objects : obj[o].guard # Nobody =>
       th[obj[o].guard].o = o /\ th[obj[o].guard].pc = "cancel_call"

(* References are counted exactly: an object is freed when the handle and the   *)
(* last cancel let go of it, and not before; none is leaked.                    *)
RefsCounted ==
  \A o \in Objects :
    obj[o].refs = Cardinality({h \in Handles : slot[h] = o})
                    + Cardinality({t \in Threads : th[t].o = o /\
                                     th[t].pc \in {"drop", "cancel_lock", "cancel_call", "cancel_drop"}})

(* No call touches a freed object, also when Release runs while a cancel does.  *)
NoUseAfterFree ==
  \A t \in Threads : th[t].pc # "idle" =>
    \A o \in {th[t].o, th[t].second} \ {Null} : obj[o].refs > 0

(* No driver code runs on an object a panic has marked. *)
PoisonedRunsNothing ==
  \A t \in Threads : th[t].pc = "running" =>
    \A o \in {th[t].o, th[t].second} \ {Null} : ~obj[o].poisoned

(* "the instant the object becomes usable is the instant a caller may start an  *)
(* operation and cancel it": a usable object has its cancel handle.             *)
UsableIsCancellable ==
  \A o \in Objects : obj[o].ready /\ o[1] # "database" => obj[o].cancel

(* No cycle of calls each waiting for a lock another holds, nor a call that     *)
(* waits for its own: of the calls in flight, one can always take its next step *)
(* (a connection's state lock is held while the database's is taken, and both   *)
(* while the cancel lock is, never the other way round).                        *)
NoLockCycle ==
  LET busy == {t \in Threads : th[t].pc # "idle"}
  IN  busy # {} => \E t \in busy : ENABLED Continue(t)

(* Cancel gets through, although the call it is to interrupt holds the state    *)
(* lock and may never return: if it waits at all it is for the cancel lock, and *)
(* for another Cancel of the object, which is about to let go of it.            *)
CancelWaitsForCancelsOnly ==
  \A t \in Threads : th[t].op = "cancel" =>
    \/ ENABLED Cancelling(t)
    \/ \E u \in Threads \ {t} : /\ obj[th[t].o].guard = u
                               /\ th[u].op = "cancel" /\ ENABLED Cancelling(u)

(* An object outlives every call on it and is freed with the last reference,    *)
(* and whoever holds its lock is in such a call.                                *)
ObjectsOutliveCalls == TypeOK /\ RefsCounted /\ NoUseAfterFree

(* What can be used can be cancelled, without a wait for any call but another   *)
(* Cancel, and calls do not block each other for ever either.                   *)
CancelAlwaysPossible == UsableIsCancellable /\ CancelWaitsForCancelsOnly /\ NoLockCycle
=============================================================================
