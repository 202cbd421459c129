----------------------------- MODULE RowStream -----------------------------
(***************************************************************************)
(* A streamed query result: the background prefetch task, the reader that  *)
(* drains its channel and the cancel calls aimed at the operation that     *)
(* produced it (src/runtime.rs and the streaming half of                   *)
(* src/conversion.rs).                                                     *)
(*                                                                         *)
(* Three threads: the consumer calling next and dropping the reader, a     *)
(* runtime worker polling prefetch_loop, and an application thread calling *)
(* cancel.  The thread that owns the statement may begin new operations    *)
(* meanwhile.  A step is one atomic access: a load or the store of the     *)
(* latched flag, a registration with or a wake-up by Notify, an operation  *)
(* on the channel, an answer of the source.                                *)
(*                                                                         *)
(* A tokio::select! with biased; polls cancelled() before the other branch *)
(* on every poll.  The first poll runs its loads and its registration;     *)
(* later polls resume at notified.await and do not load the flag again     *)
(* until they were notified.                                               *)
(*                                                                         *)
(* A chunk is its position in the result.  Signals are numbered by the     *)
(* operation that minted them; the stream belongs to operation 1.          *)
(***************************************************************************)
EXTENDS Integers, Sequences

CONSTANTS
  MaxChunks,      \* bound: chunks the source yields
  MaxOperations   \* bound: operations begun on the owning statement

ASSUME RowStreamBounds == MaxChunks \in Nat \ {0} /\ MaxOperations \in Nat \ {0}

Stream == 1
Operations == 1..MaxOperations
Waiters == {"task", "reader"}

VARIABLES
  operations,  \* operations begun so far
  slot,        \* CancelSlot: the signal cancel() aims at
  latched,     \* CancelInner::cancelled, the signals that are set
  notifying,   \* the signal a cancel() under way has latched and not yet notified, or 0
  waiting,     \* where each waiter of the stream's signal is in its select!
  registered,  \* the waiters registered with the stream's Notify
  notified,    \* those of them that were notified
  task,        \* where prefetch_loop is
  held,        \* the chunk the task is sending, or 0
  channel,     \* mpsc::channel(1)
  aborted,     \* JoinHandle::abort was called
  first,       \* SpannerBatchReader::first, 0 when taken or empty
  chunks,      \* SpannerBatchReader::chunks is Some
  reader,      \* the consumer is outside, inside next, or has dropped the reader
  pulled,      \* chunks the source has yielded
  drained,     \* the source has yielded its last, empty chunk
  delivered,   \* history: the chunks next returned
  outcome,     \* history: what ended the stream for the consumer
  asked,       \* history: cancel() was called while operation 1 was the current one
  late         \* history: asked, when the latest next began

signalVars  == <<operations, slot, latched, notifying>>
waitVars    == <<waiting, registered, notified>>
taskVars    == <<task, held, pulled, drained>>
readerVars  == <<first, chunks, reader, delivered, outcome, late>>
vars == <<signalVars, waitVars, taskVars, readerVars, channel, aborted, asked>>

Chunk(n)  == [kind |-> "chunk", n |-> n]
Failed    == [kind |-> "failed", n |-> 0]
Cancelled == [kind |-> "cancelled", n |-> 0]

(* stream_query has pulled the first chunk, which may be empty, and spawned the task. *)
Init ==
  /\ operations = Stream /\ slot = Stream /\ latched = {} /\ notifying = 0
  /\ waiting = [w \in Waiters |-> IF w = "task" THEN "check" ELSE "none"]
  /\ registered = {} /\ notified = {}
  /\ task = "fetch" /\ held = 0 /\ channel = <<>> /\ aborted = FALSE
  /\ first \in 0..1
  /\ chunks = TRUE /\ reader = "idle"
  /\ pulled = first /\ drained = FALSE
  /\ delivered = <<>> /\ outcome = "open" /\ asked = FALSE /\ late = FALSE

-----------------------------------------------------------------------------
(* CancelSlot and CancelSignal::signal. *)

(* Mutant: the current signal is kept instead of replaced. *)
begin_operation_keeps ==
  /\ notifying = 0 /\ operations < MaxOperations
  /\ operations' = operations + 1
  /\ UNCHANGED <<slot, latched, notifying, waitVars, taskVars, readerVars, channel, aborted, asked>>

(* Waits for the slot's mutex, which a cancel() holds across its signal(). *)
begin_operation ==
  /\ notifying = 0 /\ operations < MaxOperations
  /\ operations' = operations + 1
  /\ slot' = operations + 1
  /\ UNCHANGED <<latched, notifying, waitVars, taskVars, readerVars, channel, aborted, asked>>

signal_latch ==
  /\ notifying = 0
  /\ latched' = latched \cup {slot}
  /\ notifying' = slot
  /\ asked' = (asked \/ operations = Stream)
  /\ UNCHANGED <<operations, slot, waitVars, taskVars, readerVars, channel, aborted>>

(* notify_waiters wakes the waiters registered by now and no later one. *)
signal_notify ==
  /\ notifying # 0
  /\ notifying' = 0
  /\ notified' = IF notifying = Stream THEN notified \cup registered ELSE notified
  /\ UNCHANGED <<operations, slot, latched, waiting, registered, taskVars, readerVars, channel,
                 aborted, asked>>

-----------------------------------------------------------------------------
(* A waiter's select!.  It is over when the waiter goes to another one or to *)
(* none, which drops the Notified it held.                                   *)

Select(w, at) ==
  /\ waiting' = [waiting EXCEPT ![w] = at]
  /\ registered' = registered \ {w}
  /\ notified' = notified \ {w}

(* The second branch is polled once cancelled() is pending. *)
Polls(w) == waiting[w] = "wait" /\ w \notin notified

(* prefetch_loop returns, dropping its sender. *)
TaskEnds ==
  /\ task' = "ended"
  /\ held' = 0
  /\ Select("task", "none")

(* next returns what ends the stream: chunks becomes None, dropping the receiver. *)
ReaderEnds(why) ==
  /\ reader' = "idle"
  /\ chunks' = FALSE
  /\ channel' = <<>>
  /\ outcome' = why
  /\ Select("reader", "none")
  /\ UNCHANGED <<first, delivered, late>>

(* cancelled() completes in the task: mid-fetch it leaves the error in the *)
(* channel if there is room; parked on its send it just returns.           *)
TaskCancelled ==
  /\ TaskEnds
  /\ channel' = IF task = "fetch" /\ chunks /\ channel = <<>> THEN <<Cancelled>> ELSE channel
  /\ UNCHANGED <<signalVars, pulled, drained, readerVars, aborted, asked>>

ReaderCancelled ==
  /\ ReaderEnds("cancelled")
  /\ UNCHANGED <<signalVars, taskVars, aborted, asked>>

(* The flag is loaded: it ends the select!, or the waiter goes on to `at`. *)
LoadFlag(w, at) ==
  \/ Stream \in latched /\ w = "task" /\ TaskCancelled
  \/ Stream \in latched /\ w = "reader" /\ ReaderCancelled
  \/ /\ Stream \notin latched
     /\ waiting' = [waiting EXCEPT ![w] = at]
     /\ UNCHANGED <<registered, notified, signalVars, taskVars, readerVars, channel, aborted, asked>>

cancelled_check(w) == waiting[w] = "check" /\ LoadFlag(w, "register")

cancelled_register(w) ==
  /\ waiting[w] = "register"
  /\ waiting' = [waiting EXCEPT ![w] = "recheck"]
  /\ registered' = registered \cup {w}
  /\ UNCHANGED <<notified, signalVars, taskVars, readerVars, channel, aborted, asked>>

cancelled_recheck(w) == waiting[w] = "recheck" /\ LoadFlag(w, "wait")

(* notified.await completes and the loop starts over. *)
cancelled_woken(w) ==
  /\ waiting[w] = "wait" /\ w \in notified
  /\ Select(w, "check")
  /\ UNCHANGED <<signalVars, taskVars, readerVars, channel, aborted, asked>>

cancelled(w) ==
  \/ cancelled_check(w)
  \/ cancelled_register(w)
  \/ cancelled_recheck(w)
  \/ cancelled_woken(w)

-----------------------------------------------------------------------------
(* prefetch_loop. *)

next_chunk ==
  /\ task = "fetch" /\ Polls("task")
  /\ ~drained /\ pulled < MaxChunks
  /\ pulled' = pulled + 1
  /\ held' = pulled + 1
  /\ task' = "send"
  /\ Select("task", "check")
  /\ UNCHANGED <<drained, signalVars, readerVars, channel, aborted, asked>>

(* Mutant: an empty chunk is skipped. *)
next_chunk_empty_loops ==
  /\ task = "fetch" /\ Polls("task")
  /\ drained' = TRUE
  /\ Select("task", "check")
  /\ UNCHANGED <<task, held, pulled, signalVars, readerVars, channel, aborted, asked>>

(* An empty chunk. *)
next_chunk_empty ==
  /\ task = "fetch" /\ Polls("task")
  /\ drained' = TRUE
  /\ TaskEnds
  /\ UNCHANGED <<pulled, signalVars, readerVars, channel, aborted, asked>>

(* Mutant: the error is not sent. *)
next_chunk_fails_silently ==
  /\ task = "fetch" /\ Polls("task")
  /\ TaskEnds
  /\ UNCHANGED <<pulled, drained, signalVars, readerVars, channel, aborted, asked>>

(* An RPC error or the fetch timeout. *)
next_chunk_fails ==
  /\ task = "fetch" /\ Polls("task")
  /\ task' = "send_err"
  /\ Select("task", "none")
  /\ UNCHANGED <<held, pulled, drained, signalVars, readerVars, channel, aborted, asked>>

send_chunk ==
  /\ task = "send" /\ Polls("task")
  /\ chunks /\ channel = <<>>
  /\ channel' = <<Chunk(held)>>
  /\ held' = 0
  /\ task' = "fetch"
  /\ Select("task", "check")
  /\ UNCHANGED <<pulled, drained, signalVars, readerVars, aborted, asked>>

(* The send of a fetch error watches no signal. *)
send_error ==
  /\ task = "send_err"
  /\ chunks /\ channel = <<>>
  /\ channel' = <<Failed>>
  /\ TaskEnds
  /\ UNCHANGED <<pulled, drained, signalVars, readerVars, aborted, asked>>

(* The receiver is gone. *)
send_refused ==
  /\ (task = "send" /\ Polls("task")) \/ task = "send_err"
  /\ ~chunks
  /\ TaskEnds
  /\ UNCHANGED <<pulled, drained, signalVars, readerVars, channel, aborted, asked>>

(* abort takes effect where the task yields. *)
task_aborted ==
  /\ aborted
  /\ waiting["task"] = "wait" \/ task = "send_err"
  /\ TaskEnds
  /\ UNCHANGED <<pulled, drained, signalVars, readerVars, channel, aborted, asked>>

-----------------------------------------------------------------------------
(* SpannerBatchReader.  next on an ended stream returns None and changes *)
(* nothing; a chunk that does not convert counts as delivered, the error  *)
(* taking its place.                                                      *)

next_first ==
  /\ reader = "idle" /\ first # 0
  /\ first' = 0
  /\ delivered' = Append(delivered, first)
  /\ late' = asked
  /\ UNCHANGED <<chunks, reader, outcome, signalVars, waitVars, taskVars, channel, aborted, asked>>

next ==
  /\ reader = "idle" /\ first = 0 /\ chunks
  /\ reader' = "next"
  /\ late' = asked
  /\ Select("reader", "check")
  /\ UNCHANGED <<first, chunks, delivered, outcome, signalVars, taskVars, channel, aborted, asked>>

(* Mutants: select! is not biased, so a buffered chunk may be taken first; a *)
(* chunk is read and left in the channel.                                    *)
recv_chunk_unbiased ==
  /\ reader = "next"
  /\ channel # <<>> /\ Head(channel).kind = "chunk"
  /\ delivered' = Append(delivered, Head(channel).n)
  /\ channel' = Tail(channel)
  /\ reader' = "idle"
  /\ Select("reader", "none")
  /\ UNCHANGED <<first, chunks, outcome, late, signalVars, taskVars, aborted, asked>>
recv_chunk_peeks ==
  /\ reader = "next" /\ Polls("reader")
  /\ channel # <<>> /\ Head(channel).kind = "chunk"
  /\ delivered' = Append(delivered, Head(channel).n)
  /\ reader' = "idle"
  /\ Select("reader", "none")
  /\ UNCHANGED <<first, chunks, outcome, late, signalVars, taskVars, channel, aborted, asked>>

recv_chunk ==
  /\ reader = "next" /\ Polls("reader")
  /\ channel # <<>> /\ Head(channel).kind = "chunk"
  /\ delivered' = Append(delivered, Head(channel).n)
  /\ channel' = Tail(channel)
  /\ reader' = "idle"
  /\ Select("reader", "none")
  /\ UNCHANGED <<first, chunks, outcome, late, signalVars, taskVars, aborted, asked>>

recv_error ==
  /\ reader = "next" /\ Polls("reader")
  /\ channel # <<>> /\ Head(channel).kind # "chunk"
  /\ ReaderEnds(Head(channel).kind)
  /\ UNCHANGED <<signalVars, taskVars, aborted, asked>>

(* A closed channel is the clean end of the stream. *)
recv_closed ==
  /\ reader = "next" /\ Polls("reader")
  /\ channel = <<>> /\ task = "ended"
  /\ ReaderEnds("end")
  /\ UNCHANGED <<signalVars, taskVars, aborted, asked>>

(* Mutant: dropping the reader does not abort the task. *)
drop_only ==
  /\ reader = "idle"
  /\ reader' = "dropped"
  /\ chunks' = FALSE
  /\ channel' = <<>>
  /\ UNCHANGED <<first, delivered, outcome, late, signalVars, waitVars, taskVars, aborted, asked>>

drop ==
  /\ reader = "idle"
  /\ reader' = "dropped"
  /\ aborted' = TRUE
  /\ chunks' = FALSE
  /\ channel' = <<>>
  /\ UNCHANGED <<first, delivered, outcome, late, signalVars, waitVars, taskVars, asked>>

-----------------------------------------------------------------------------
SourceStep == next_chunk \/ next_chunk_empty \/ next_chunk_fails
TaskStep   == cancelled("task") \/ send_chunk \/ send_error \/ send_refused \/ task_aborted
ReaderStep == cancelled("reader") \/ recv_chunk \/ recv_error \/ recv_closed
CallStep   == next_first \/ next \/ drop \/ begin_operation \/ signal_latch

Next == SourceStep \/ TaskStep \/ ReaderStep \/ CallStep \/ signal_notify

Spec == Init /\ [][Next]_vars

(* The runtime's workers poll a task that was woken, the consumer's own thread *)
(* polls its block_on, and a cancel() that began goes on.  The source may hang, *)
(* and the application need not call anything.                                  *)
Fairness == WF_vars(TaskStep) /\ WF_vars(ReaderStep) /\ WF_vars(signal_notify)

LiveSpec == Spec /\ Fairness

-----------------------------------------------------------------------------
(* Properties. *)

(* The shape of the state. *)
TypeOK ==
  /\ operations \in Operations /\ slot \in Operations /\ latched \subseteq Operations
  /\ notifying \in 0..MaxOperations
  /\ waiting \in [Waiters -> {"none", "check", "register", "recheck", "wait"}]
  /\ registered \subseteq Waiters /\ notified \subseteq registered
  /\ task \in {"fetch", "send", "send_err", "ended"}
  /\ held \in 0..MaxChunks
  /\ channel = <<>> \/ \E m \in {Chunk(n) : n \in 1..MaxChunks} \cup {Failed, Cancelled} :
                         channel = <<m>>
  /\ aborted \in BOOLEAN /\ chunks \in BOOLEAN /\ asked \in BOOLEAN /\ late \in BOOLEAN
  /\ first \in 0..1 /\ reader \in {"idle", "next", "dropped"}
  /\ pulled \in 0..MaxChunks /\ drained \in BOOLEAN
  /\ delivered \in Seq(1..MaxChunks)
  /\ outcome \in {"open", "end", "cancelled", "failed"}

(* The consumer receives the chunks of the result in order, without a gap and *)
(* without a repetition, however fetch, delivery and cancel interleave.       *)
InOrder == \A i \in 1..Len(delivered) : delivered[i] = i

(* "The channel holds one chunk and the task holds at most one more"           *)
(* (spawn_prefetch): beyond the first chunk, the source is never more than two *)
(* chunks ahead of a consumer that may still ask for them.                     *)
PrefetchBounded ==
  chunks /\ task # "ended" =>
    pulled - Len(delivered) <= (IF first = 0 THEN 2 ELSE 3)

(* "A prefetched chunk never masks a cancellation" (SpannerBatchReader::next), *)
(* nor does a new operation un-cancel a live reader: a next that waits on the  *)
(* channel and began after cancel() returns no chunk.                          *)
CancelNotMasked == [][reader = "next" /\ late => delivered' = delivered]_vars

(* "A stale cancel cannot leak" and a reader is not "affected by" a later      *)
(* operation: it reports Cancelled only if cancel() was called while its own   *)
(* operation was the current one.                                              *)
NoStrayCancel == outcome = "cancelled" => asked

(* The result is cut short by a clean end only if a cancel() was called during *)
(* the very next that returned it: an error, a timeout or a cancel() made      *)
(* before is always reported.                                                  *)
CutShortOnlyInCancelRace ==
  outcome = "end" => \/ drained /\ Len(delivered) = pulled
                     \/ asked /\ ~late

(* A cancelled stream "keeps failing with Status::Cancelled rather than        *)
(* presenting as cleanly complete" (CancelSlot): a clean end is the end of the *)
(* whole result.                                                               *)
CleanEndIsComplete == outcome = "end" => drained /\ Len(delivered) = pulled

(* A cancel() is not lost on its way to a waiting consumer, even if the source *)
(* hangs: latch, registration and wake-up leave no window (CancelSignal).      *)
CancelEndsWait == asked /\ reader = "next" ~> reader # "next"

(* "A reader dropped mid-stream never leaves a task pulling rows in the         *)
(* background" (SpannerBatchReader's Drop), even if the fetch hangs.            *)
DropEndsTask == reader = "dropped" ~> task = "ended"

(* With spanner.rpc.timeout_seconds.fetch set every fetch ends, and then every  *)
(* next returns: no cycle of the task waiting for the consumer and the consumer *)
(* for the task.                                                                *)
NextReturns == WF_vars(SourceStep) => (reader = "next" ~> reader # "next")

(* "The task ends [...] when cancel is signalled" (spawn_prefetch), so that "a  *)
(* cancel is not stalled behind a consumer that has stopped draining".          *)
CancelEndsTask == asked ~> task = "ended"
=============================================================================
