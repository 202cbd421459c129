------------------------------ MODULE FfiError ------------------------------
(***************************************************************************)
(* Errors on their way out of the driver: the mapping of a gRPC status     *)
(* (error.rs), the exported Arrow stream and its last error                *)
(* (ffi/stream.rs), AdbcError structs of both revisions (ffi/error.rs),    *)
(* filled over and over by finish and error_from_array_stream.  Memory is  *)
(* a count of live allocations.                                            *)
(***************************************************************************)
EXTENDS Integers, Sequences, FiniteSets, TLC

CONSTANTS
  Codes,      \* gRPC codes the service answers with
  NoCode      \* a failure that carries no gRPC status

Sentinel == -2147483647 - 1     \* ADBC_ERROR_VENDOR_CODE_PRIVATE_DATA, i32::MIN
Structs == {"old", "new", "stream"}   \* the host's 1.0.0 and 1.1.0 structs, the stream's own
Mgr == "driver manager"
NoDriver == "null"

VARIABLES
  err,      \* the AdbcError structs
  boxes,    \* the addresses of the stream's AdbcError the host was given
  stream,   \* PrivateData of the exported stream
  reader,   \* the RecordBatchReader: "whole", "torn" by a panic, "reused" after one
  pending,  \* a callback failed, and no get_next has succeeded since
  heap      \* live allocations: messages and detail boxes

vars == <<err, boxes, stream, reader, pending, heap>>

-----------------------------------------------------------------------------
(* error.rs. *)

(* By code, from CANCELLED (1) to UNAUTHENTICATED (16). *)
GrpcStatus ==
  <<"Cancelled", "Unknown", "InvalidArguments", "Timeout", "NotFound", "AlreadyExists", "Unauthorized",
    "Internal", "InvalidState", "IO", "InvalidData", "NotImplemented", "Internal", "IO", "IO", "Unauthenticated">>

status_for_grpc_code(code) == IF code \in DOMAIN GrpcStatus THEN GrpcStatus[code] ELSE "Internal"

Error(status, vendor, details) == [status |-> status, vendor |-> vendor, details |-> details]
NoError == Error("OK", 0, <<>>)

(* Also from_status_parts, whose code is any i32 the service put in a BatchWrite answer. *)
from_spanner(code, details) ==
  IF code = NoCode THEN Error("Internal", 0, <<>>)
  ELSE Error(status_for_grpc_code(code), code, details)

DriverErrors ==
  {from_spanner(c, d) : c \in Codes \cup {NoCode}, d \in {<<>>, <<<<"google.rpc.retryinfo", 0>>>>}}

-----------------------------------------------------------------------------
(* ffi/error.rs.  A struct holds an error of revision `release`, or none; what  *)
(* another library wrote is released by that library, which clears it all.     *)

Zeroed(size) ==
  [size |-> size, vendor |-> 0, release |-> "none", message |-> FALSE, boxed |-> FALSE,
   details |-> <<>>, driver |-> NoDriver, overrun |-> FALSE, holds |-> NoError, preset |-> FALSE,
   delta |-> 0]   \* allocations made less those freed, by the step at work on the struct

Held(x) == (IF x.message THEN 1 ELSE 0) + (IF x.boxed THEN 1 ELSE 0)

(* Each revision's callback frees the fields that revision has: the message, and *)
(* from 1.1.0 the boxed details.                                                 *)
release_error(x) ==
  CASE x.release = "none"    -> x
    [] x.release = "v100"    -> [x EXCEPT !.message = FALSE, !.release = "none", !.holds = NoError,
                                          !.delta = @ - (IF x.message THEN 1 ELSE 0)]
    [] x.release = "v110"    -> [x EXCEPT !.message = FALSE, !.boxed = FALSE, !.details = <<>>,
                                          !.release = "none", !.holds = NoError, !.delta = @ - Held(x)]
    [] x.release = "foreign" -> [Zeroed(x.size) EXCEPT !.preset = x.preset, !.delta = x.delta - 1]

VendorKey == "adbc.spanner.vendor_code"

Written110(x, e, driver) ==
  [x EXCEPT !.message = TRUE, !.vendor = Sentinel, !.release = "v110", !.boxed = TRUE,
            !.details = e.details \o (IF e.vendor = 0 THEN <<>> ELSE <<<<VendorKey, e.vendor>>>>),
            !.driver = driver, !.overrun = @ \/ x.size = "1.0.0", !.holds = e, !.delta = @ + 2]

Written100(x, e, vendor) ==
  [x EXCEPT !.message = TRUE, !.vendor = vendor, !.release = "v100", !.holds = e, !.delta = @ + 1]

(* Mutant: an error the struct already holds is written over. *)
export_error_over(x, e) ==
  IF x.vendor = Sentinel THEN Written110(x, e, x.driver)
  ELSE Written100(x, e, IF e.vendor = Sentinel THEN 0 ELSE e.vendor)

export_error(x, e) ==
  IF x.vendor = Sentinel THEN Written110(release_error(x), e, x.driver)
  ELSE Written100(release_error(x), e, IF e.vendor = Sentinel THEN 0 ELSE e.vendor)

(* AdbcErrorGetDetailCount and AdbcErrorGetDetail: the details the host can read. *)
error_get_detail(x) == IF x.vendor = Sentinel /\ x.boxed THEN x.details ELSE <<>>

(* The struct is written back; the heap keeps what the step made of it. *)
Put(s, y) ==
  /\ err' = [err EXCEPT ![s] = [y EXCEPT !.delta = 0]]
  /\ heap' = heap + y.delta

(* A failed call exports its error; a stale one is released first. *)
finish(s, e) ==
  /\ s # "stream"
  /\ Put(s, export_error(err[s], e))
  /\ UNCHANGED <<boxes, stream, reader, pending>>

(* The host presets the struct (the driver manager's INIT_ERROR). *)
host_presets(s) ==
  /\ s # "stream" /\ err[s].release = "none"
  /\ err' = [err EXCEPT ![s] =
               IF s = "new" THEN [Zeroed("1.1.0") EXCEPT !.vendor = Sentinel, !.driver = Mgr, !.preset = TRUE]
               ELSE Zeroed("1.0.0")]
  /\ UNCHANGED <<boxes, stream, reader, pending, heap>>

host_releases(s) ==
  /\ s # "stream" /\ err[s].release # "none"
  /\ Put(s, [release_error(err[s]) EXCEPT !.preset = @ /\ err[s].release # "foreign"])
  /\ UNCHANGED <<boxes, stream, reader, pending>>

(* Another driver behind the manager leaves its error in the struct. *)
foreign_writes(s) ==
  /\ s = "new" /\ err[s].preset /\ err[s].release = "none"
  /\ Put(s, [err[s] EXCEPT !.release = "foreign", !.message = TRUE, !.delta = 1])
  /\ UNCHANGED <<boxes, stream, reader, pending>>

-----------------------------------------------------------------------------
(* ffi/stream.rs. *)

NoStream == [live |-> FALSE, panicked |-> FALSE, last |-> NoError, box |-> 0]

export_reader ==
  /\ ~stream.live
  /\ stream' = [NoStream EXCEPT !.live = TRUE]
  /\ reader' = "whole" /\ pending' = FALSE /\ boxes' = {}
  /\ UNCHANGED <<err, heap>>

adbc_status_to_errno(status) ==
  CASE status = "NotImplemented" -> "ENOTSUP"
    [] status = "NotFound" -> "ENOENT"
    [] status = "AlreadyExists" -> "EEXIST"
    [] status \in {"InvalidArguments", "InvalidState"} -> "EINVAL"
    [] status = "Cancelled" -> "ECANCELED"
    [] status = "Timeout" -> "ETIMEDOUT"
    [] status \in {"Unauthenticated", "Unauthorized"} -> "EACCES"
    [] OTHER -> "EIO"

(* The errno and the status of each Arrow variant that wraps no driver error. *)
ArrowStatus ==
  [NotYetImplemented |-> <<"ENOSYS", "NotImplemented">>, MemoryError |-> <<"ENOMEM", "Internal">>,
   IoError |-> <<"EIO", "IO">>, other |-> <<"EINVAL", "Unknown">>]

(* What a reader fails with: an Arrow variant, or a driver error in one. *)
Failures == {[errno |-> ArrowStatus[v][1], error |-> Error(ArrowStatus[v][2], 0, <<>>)] : v \in DOMAIN ArrowStatus}
            \cup {[errno |-> adbc_status_to_errno(e.status), error |-> e] : e \in DriverErrors}

InvalidArguments == Error("InvalidArguments", 0, <<>>)
Panic == Error("Internal", 0, <<>>)

Fails(e) == stream' = [stream EXCEPT !.last = e] /\ pending' = TRUE
Panics == /\ stream' = [stream EXCEPT !.last = Panic, !.panicked = TRUE]
          /\ pending' = TRUE /\ reader' = "torn"

(* A released stream, and one that panicked, answer EINVAL. *)
catch_callback == stream.live /\ ~stream.panicked

Refused == ~catch_callback /\ pending' = (pending \/ stream.live) /\ UNCHANGED <<stream, reader>>

Uses == IF reader = "whole" THEN "whole" ELSE "reused"

(* The schema is at hand, the output is null or the schema does not convert, or *)
(* the reader panics.                                                           *)
get_schema ==
  /\ \/ /\ catch_callback
        /\ \/ UNCHANGED <<stream, pending>> /\ reader' = Uses
           \/ Fails(InvalidArguments) /\ UNCHANGED reader
           \/ \E f \in Failures : Fails(f.error) /\ reader' = Uses
           \/ Panics
     \/ Refused
  /\ UNCHANGED <<err, boxes, heap>>

(* A batch or the end clears the last error; a null output, an error of the     *)
(* reader and a panic replace it.                                               *)
get_next ==
  /\ \/ /\ catch_callback
        /\ \/ stream' = [stream EXCEPT !.last = NoError] /\ pending' = FALSE /\ reader' = Uses
           \/ Fails(InvalidArguments) /\ UNCHANGED reader
           \/ \E f \in Failures : Fails(f.error) /\ reader' = Uses
           \/ Panics
     \/ Refused
  /\ UNCHANGED <<err, boxes, heap>>

Fresh == [Zeroed("1.1.0") EXCEPT !.vendor = Sentinel, !.driver = Mgr, !.preset = TRUE]

(* get_or_insert_with: a box is made by the first call and kept by the later ones. *)
Exported ==
  IF stream.box = 0 THEN [box |-> Cardinality(boxes) + 1, struct |-> Fresh]
  ELSE [box |-> stream.box, struct |-> err["stream"]]

(* The last error, or ADBC_STATUS_OK and an emptied struct. *)
error_from_array_stream ==
  /\ stream.live
  /\ LET x == Exported.struct
     IN  Put("stream", IF stream.last = NoError THEN release_error(x)
                       ELSE export_error([x EXCEPT !.vendor = Sentinel], stream.last))
  /\ stream' = [stream EXCEPT !.box = Exported.box]
  /\ boxes' = boxes \cup {Exported.box}
  /\ UNCHANGED <<reader, pending>>

(* Mutant: the exported error is not released with the stream. *)
stream_release_leaks ==
  /\ stream.live
  /\ Put("stream", Zeroed("1.1.0"))
  /\ stream' = NoStream /\ boxes' = {} /\ pending' = FALSE
  /\ UNCHANGED <<reader>>

(* release drops PrivateData, and with it the exported error. *)
stream_release ==
  /\ stream.live
  /\ Put("stream", [Zeroed("1.1.0") EXCEPT !.delta = release_error(err["stream"]).delta])
  /\ stream' = NoStream /\ boxes' = {} /\ pending' = FALSE
  /\ UNCHANGED <<reader>>

-----------------------------------------------------------------------------
Init ==
  /\ err = [s \in Structs |-> Zeroed(IF s = "old" THEN "1.0.0" ELSE "1.1.0")]
  /\ boxes = {} /\ stream = NoStream /\ reader = "whole" /\ pending = FALSE /\ heap = 0

Next ==
  \/ \E s \in Structs : \/ host_presets(s) \/ host_releases(s) \/ foreign_writes(s)
                        \/ \E e \in DriverErrors : finish(s, e)
  \/ export_reader \/ get_schema \/ get_next \/ error_from_array_stream \/ stream_release

Spec == Init /\ [][Next]_vars

-----------------------------------------------------------------------------
(* Properties. *)

(* The driver writes within what the caller allocated, whatever vendor code an  *)
(* earlier error left behind: only the sentinel of a 1.1.0 caller lets it write *)
(* the two last fields.                                                         *)
NoOverrun == \A s \in Structs : ~err[s].overrun

(* "Nothing is lost": the gRPC code of every exported error can be read back,   *)
(* in vendor_code (but for the sentinel) or as the last detail, the service's   *)
(* details in front of it.                                                      *)
CodeRecoverable ==
  \A s \in Structs : LET x == err[s] IN x.release \in {"v100", "v110"} =>
    IF x.release = "v100" THEN x.holds.vendor # Sentinel => x.vendor = x.holds.vendor
    ELSE error_get_detail(x) = x.holds.details \o
           (IF x.holds.vendor = 0 THEN <<>> ELSE <<<<VendorKey, x.holds.vendor>>>>)

(* A caller that preset the 1.1.0 sentinel gets a 1.1.0 error and its own       *)
(* private_driver back, also over another library's error, whose release clears *)
(* the struct.                                                                  *)
RevisionKept ==
  \A s \in Structs : err[s].preset /\ err[s].release \in {"v100", "v110"} =>
    err[s].release = "v110" /\ err[s].boxed /\ err[s].driver = Mgr

(* Every allocation belongs to a struct that will release it: filling a struct  *)
(* again, clearing it and releasing the stream lose nothing and free nothing    *)
(* twice.                                                                       *)
NoLeak == heap = Held(err["old"]) + Held(err["new"]) + Held(err["stream"])

(* The stream reports a failure from the callback that failed to the next       *)
(* get_next that succeeds, and ADBC_STATUS_OK otherwise; asking for the schema  *)
(* in between, or after a panic, hides nothing.                                 *)
FailureStands == stream.live => (pending <=> stream.last.status # "OK")

(* A reader that panicked is not called again. *)
TornReaderUnused == reader # "reused"

(* The AdbcError the host was given stays where it is until the stream is       *)
(* released.                                                                    *)
ErrorPointerValid == boxes \subseteq {stream.box}

(* An error handed to the host is all there, in the struct the host allocated,  *)
(* until it is released, and is then released once.                             *)
ErrorsIntact ==
  /\ NoOverrun /\ CodeRecoverable /\ RevisionKept
  /\ NoLeak /\ FailureStands /\ TornReaderUnused /\ ErrorPointerValid
=============================================================================
