------------------------------- MODULE MCFfi -------------------------------
(* The C ABI for TLC: the objects behind the handles and the threads that   *)
(* call them (FfiHandle), what changes hands in a call (FfiTransfer), and   *)
(* the errors and streams a host holds (FfiError).  They share no variable; *)
(* part says which of them a behaviour is of, and the others rest.          *)
EXTENDS FfiHandle, TLC

CONSTANTS MaxBatches, Codes, NoCode

VARIABLES
  part,
  given, owned, binding, drain, output, rows, last,       \* FfiTransfer
  err, boxes, stream, reader, pending, heap               \* FfiError

transferVars == <<given, owned, binding, drain, output, rows, last>>
errorVars == <<err, boxes, stream, reader, pending, heap>>

Transfer == INSTANCE FfiTransfer
Errors == INSTANCE FfiError

(* UNAVAILABLE, and the code that equals the sentinel of a 1.1.0 struct.    *)
SomeCodes == {14, -2147483647 - 1}
ThreadSymmetry == Permutations(Threads)

MCInit ==
  /\ part \in {"handle", "transfer", "error"}
  /\ Init /\ Transfer!Init /\ Errors!Init

MCNext ==
  /\ UNCHANGED part
  /\ \/ part = "handle" /\ Next /\ UNCHANGED <<transferVars, errorVars>>
     \/ part = "transfer" /\ Transfer!Next /\ UNCHANGED <<vars, errorVars>>
     \/ part = "error" /\ Errors!Next /\ UNCHANGED <<vars, transferVars>>

MCSpec == MCInit /\ [][MCNext]_<<part, vars, transferVars, errorVars>>

-----------------------------------------------------------------------------
(* FfiTransfer: every input the driver took is released, or held by the     *)
(* binding, once, and rows of a stream that failed half way are not bound.  *)
TransfersBalanced == part = "transfer" => Transfer!TransfersBalanced

(* FfiTransfer: Bind takes both its structs or neither; a call that fails   *)
(* leaves the host nothing to release, one that succeeds no old count, and  *)
(* the driver is not asked for what has no place to go.                     *)
TransfersAtomic == Transfer!TransfersAtomic

(* FfiError: the driver writes within the struct the caller allocated, in   *)
(* its revision, and keeps code, details and address until the release.     *)
ErrorsIntact == part = "error" => Errors!ErrorsIntact
=============================================================================
