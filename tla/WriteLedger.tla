---------------------------- MODULE WriteLedger ----------------------------
(***************************************************************************)
(* What the manual transactions of a connection promise about the work     *)
(* they buffer, without saying how: work is pending from the moment it is  *)
(* accepted, a commit settles exactly the work that was pending when it    *)
(* began or none of it, a rollback discards all that is pending, and no    *)
(* piece of work is ever settled or discarded twice.                       *)
(***************************************************************************)
VARIABLES
  pending,     \* accepted work, neither committed nor discarded
  committing,  \* the work the commit in progress will settle
  committed,   \* work whose commit was reported successful
  discarded    \* work rolled back

vars == <<pending, committing, committed, discarded>>

Init == pending = {} /\ committing = {} /\ committed = {} /\ discarded = {}

(* New work joins what is pending; a commit in progress does not take it. *)
Buffer ==
  /\ pending \subseteq pending'
  /\ (pending' \ pending) \cap (committed \cup discarded) = {}
  /\ UNCHANGED <<committing, committed, discarded>>

Begin ==
  /\ committing = {}
  /\ committing' = pending
  /\ UNCHANGED <<pending, committed, discarded>>

Settle ==
  /\ committed' = committed \cup committing
  /\ pending' = pending \ committing
  /\ committing' = {}
  /\ UNCHANGED discarded

(* A failed commit leaves its work pending. *)
Fail ==
  /\ committing' = {}
  /\ UNCHANGED <<pending, committed, discarded>>

Discard ==
  /\ committing = {}
  /\ discarded' = discarded \cup pending
  /\ pending' = {}
  /\ UNCHANGED <<committing, committed>>

Next == Buffer \/ Begin \/ Settle \/ Fail \/ Discard

Spec == Init /\ [][Next]_vars
=============================================================================
