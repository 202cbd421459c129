---------------------------- MODULE OptionBuffer ----------------------------
(***************************************************************************)
(* Reading an option through the C ABI (src/ffi/options.rs,                *)
(* src/ffi/guard.rs): the value is copied into a buffer of the host's if   *)
(* it fits, the length needed is reported either way, and a host whose     *)
(* buffer was too small asks again, while another thread may set the       *)
(* option in between.                                                      *)
(*                                                                         *)
(* A value is a sequence of bytes.  The host's memory is one buffer of cap *)
(* cells followed by cells it does not own; Untouched is a cell nobody has *)
(* written in this call.                                                   *)
(***************************************************************************)
EXTENDS Integers, Sequences, SequencesExt, TLC

CONSTANTS
  Values,     \* the values of the option
  MaxSets,    \* bound: how often the other thread sets it
  MaxBuffer   \* bound: the largest buffer of a first call

VARIABLES
  ready,      \* the object is past Init
  option,     \* the option's value
  sets,       \* how often it was set
  seen,       \* the values it has had since the host's call began
  host,       \* the host's call: where it stands, its buffer, what it was told
  mem         \* the buffer and the memory after it

vars == <<ready, option, sets, seen, host, mem>>

BufferBounds == MaxSets \in Nat /\ MaxBuffer \in Nat

NUL == 0
Untouched == -1
Longest == CHOOSE n \in {Len(v) : v \in Values} : \A v \in Values : Len(v) <= n
Cells == 1..(Longest + MaxBuffer + 2)
Clean == [i \in Cells |-> Untouched]

Idle == [pc |-> "idle", kind |-> "string", dst |-> "null", cap |-> 0, length |-> 0, sized |-> TRUE]

Init ==
  /\ ready = FALSE
  /\ option \in Values
  /\ sets = 0
  /\ seen = {}
  /\ host = Idle
  /\ mem = Clean

(* The object's Init replays the buffered options. *)
init ==
  /\ ~ready
  /\ ready' = TRUE
  /\ UNCHANGED <<option, sets, seen, host, mem>>

(* Another thread's set, before Init buffered, after it applied; the lock  *)
(* of the object keeps it out of a running get.                            *)
set_option(v) ==
  /\ sets < MaxSets
  /\ sets' = sets + 1
  /\ option' = v
  /\ seen' = IF host.pc = "idle" THEN {} ELSE seen \cup {v}
  /\ UNCHANGED <<ready, host, mem>>

(* The host's first call: a probe with no buffer, a guess at the size, or  *)
(* a null buffer said to have room; the length may be missing.             *)
Ask(kind, dst, cap, sized) ==
  /\ host.pc = "idle"
  /\ host' = [pc |-> "called", kind |-> kind, dst |-> dst, cap |-> cap, length |-> cap, sized |-> sized]
  /\ seen' = {option}
  /\ mem' = Clean
  /\ UNCHANGED <<ready, option, sets>>

(* The room the host says it has, -1 for an inconsistent description. *)
available_space(dst, sized, length) ==
  IF ~sized \/ (dst = "null" /\ length > 0) THEN -1 ELSE length

Put(bytes) == [i \in DOMAIN bytes |-> bytes[i]] @@ mem

Refuse(code) ==
  /\ host' = [host EXCEPT !.pc = code]
  /\ UNCHANGED <<ready, option, sets, seen, mem>>

Deliver(bytes, copies) ==
  /\ host' = [host EXCEPT !.pc = "ok", !.length = Len(bytes)]
  /\ mem' = IF copies THEN Put(bytes) ELSE mem
  /\ UNCHANGED <<ready, option, sets, seen>>

write_string ==
  LET room == available_space(host.dst, host.sized, host.length)
      bytes == Append(option, NUL)
  IN IF room < 0 THEN Refuse("invalid")
     ELSE IF NUL \in Range(option) THEN Refuse("internal")
     ELSE Deliver(bytes, Len(bytes) <= room)

(* Mutant: the length is reported only when the value does not fit. *)
write_bytes_silent ==
  LET room == available_space(host.dst, host.sized, host.length)
  IN IF room < 0 THEN Refuse("invalid")
     ELSE /\ host' = [host EXCEPT !.pc = "ok", !.length = IF Len(option) <= room THEN @ ELSE Len(option)]
          /\ mem' = IF host.dst # "null" /\ Len(option) <= room THEN Put(option) ELSE mem
          /\ UNCHANGED <<ready, option, sets, seen>>

write_bytes ==
  LET room == available_space(host.dst, host.sized, host.length)
  IN IF room < 0 THEN Refuse("invalid")
     ELSE Deliver(option, host.dst # "null" /\ Len(option) <= room)

(* A get before Init finds nothing. *)
options_pending == host.pc = "called" /\ ~ready /\ Refuse("not_found")

get_option_string == host.pc = "called" /\ ready /\ host.kind = "string" /\ write_string
get_option_bytes == host.pc = "called" /\ ready /\ host.kind = "bytes" /\ write_bytes

(* The buffer was too small: the host makes one of the size reported. *)
Again ==
  /\ host.pc = "ok" /\ host.length > host.cap
  /\ host' = [host EXCEPT !.pc = "called", !.dst = "buffer", !.cap = host.length]
  /\ mem' = Clean
  /\ UNCHANGED <<ready, option, sets, seen>>

Accept ==
  /\ host.pc = "ok" /\ host.length <= host.cap
  /\ host' = [host EXCEPT !.pc = "accepted"]
  /\ UNCHANGED <<ready, option, sets, seen, mem>>

Done ==
  /\ host.pc \in {"accepted", "invalid", "internal", "not_found"}
  /\ host' = Idle
  /\ seen' = {}
  /\ mem' = Clean
  /\ UNCHANGED <<ready, option, sets>>

Driver == options_pending \/ get_option_string \/ get_option_bytes

Next ==
  \/ init
  \/ \E v \in Values : set_option(v)
  \/ \E kind \in {"string", "bytes"}, dst \in {"null", "buffer"}, cap \in 0..MaxBuffer, sized \in BOOLEAN :
        Ask(kind, dst, cap, sized)
  \/ Driver
  \/ Again
  \/ Accept
  \/ Done

Spec == Init /\ [][Next]_vars

(* The host goes on with the protocol and the driver returns from calls. *)
LiveSpec == Spec /\ WF_vars(Driver) /\ WF_vars(Again) /\ WF_vars(Accept)

-----------------------------------------------------------------------------
(* No byte is written after the end of the host's buffer, or anywhere when *)
(* it gave none: not even the terminator, with room for all but it.        *)
NoWritePastEnd ==
  \A i \in Cells : (host.dst = "null" \/ i > host.cap) => mem[i] = Untouched

(* A host that finds the reported length within its buffer has a whole     *)
(* value there, of that length: one the option had since the host first    *)
(* asked, never a mixture of two and never a cut one, whatever was set     *)
(* between its calls.                                                      *)
AcceptedIsWhole ==
  host.pc = "accepted" =>
    \E v \in seen :
      LET bytes == IF host.kind = "string" THEN Append(v, NUL) ELSE v
      IN /\ host.length = Len(bytes)
         /\ host.dst # "null" => \A i \in DOMAIN bytes : mem[i] = bytes[i]

(* A call that fails has written neither the buffer nor the length. *)
FailureLeavesBuffer ==
  host.pc \in {"invalid", "internal", "not_found"} => mem = Clean /\ host.length = host.cap

(* A host that keeps asking gets an answer it can keep: the retries end    *)
(* when the option is no longer made longer.                               *)
AskEnds == host.pc = "called" ~> host.pc \in {"accepted", "invalid", "internal", "not_found"}

(* The buffer of the host: whole values within it, or nothing at all. *)
BufferContract == AcceptedIsWhole /\ NoWritePastEnd /\ FailureLeavesBuffer
=============================================================================
