-------------------------- MODULE RowStreamProofs ---------------------------
(***************************************************************************)
(* The safety of a streamed result, for any number of chunks and any       *)
(* number of operations begun on the statement meanwhile.                  *)
(***************************************************************************)
EXTENDS RowStream, TLAPS

-----------------------------------------------------------------------------
(* The inductive invariant. *)

(* What next has returned or will return without the channel. *)
Taken == Len(delivered) + first

HasChunk == channel # <<>> /\ channel[1].kind = "chunk"
Queued == IF HasChunk THEN 1 ELSE 0
Sending == IF task = "send" THEN 1 ELSE 0

(* Every chunk the source has yielded is delivered, first, in the channel or *)
(* held by the task, in this order.                                          *)
Ledger ==
  /\ first = 1 => delivered = <<>>
  /\ HasChunk => channel[1].n = Taken + 1
  /\ task = "send" => held = pulled /\ held # 0
  /\ chunks /\ task # "ended" => pulled = Taken + Queued + Sending

(* Why a task whose reader still listens has ended. *)
Endings ==
  /\ drained => task = "ended"
  /\ chunks /\ task = "ended" =>
       (drained /\ pulled = Taken + Queued) \/ asked \/ (channel # <<>> /\ ~HasChunk)

(* The signal of the stream is latched exactly when cancel() was called in time. *)
Signals ==
  /\ slot = operations
  /\ asked <=> Stream \in latched
  /\ channel = <<Cancelled>> => asked

(* Where the two threads can be. *)
Places ==
  /\ waiting["task"] # "none" => task \in {"fetch", "send"}
  /\ waiting["reader"] # "none" => reader = "next"
  /\ reader = "next" => chunks /\ first = 0
  /\ reader = "dropped" \/ outcome # "open" => ~chunks
  /\ ~chunks => channel = <<>> /\ (reader = "dropped" \/ first = 0)
  /\ aborted => ~chunks
  /\ outcome = "end" => task = "ended"

(* A next that began after cancel() gets no further than its first load. *)
LateStops == late => asked /\ (reader = "next" => waiting["reader"] = "check")

IInv ==
  /\ TypeOK
  /\ Ledger
  /\ Endings
  /\ Signals
  /\ Places
  /\ LateStops
  /\ InOrder
  /\ NoStrayCancel
  /\ CutShortOnlyInCancelRace

-----------------------------------------------------------------------------
(* The channel, which holds at most one message. *)

LEMMA Messages ==
  /\ \A n : Chunk(n).kind = "chunk" /\ Chunk(n).n = n
  /\ Failed.kind = "failed" /\ Cancelled.kind = "cancelled"
  BY DEF Chunk, Failed, Cancelled

LEMMA OneMessage ==
  ASSUME TypeOK, channel # <<>>
  PROVE  /\ channel = <<Head(channel)>> /\ channel[1] = Head(channel) /\ Tail(channel) = <<>>
         /\ Head(channel).kind = "chunk" => Head(channel).n \in 1..MaxChunks
         /\ Head(channel).kind \in {"chunk", "failed", "cancelled"}
         /\ Head(channel).kind = "cancelled" => channel = <<Cancelled>>
<1>1. PICK m \in {Chunk(n) : n \in 1..MaxChunks} \cup {Failed, Cancelled} : channel = <<m>>
  BY DEF TypeOK
<1>2. Head(channel) = m /\ Tail(channel) = <<>> /\ channel[1] = m
  BY <1>1
<1>3. /\ m.kind = "chunk" => m.n \in 1..MaxChunks
      /\ m.kind \in {"chunk", "failed", "cancelled"}
      /\ m.kind = "cancelled" => m = Cancelled
  BY Messages
<1> QED  BY <1>1, <1>2, <1>3

-----------------------------------------------------------------------------
(* Operations and the signal. *)

LEMMA BeginOperationKeeps ==
  ASSUME IInv, begin_operation
  PROVE  IInv'
<1> USE DEF begin_operation, signalVars, waitVars, taskVars, readerVars
<1>1. TypeOK'
  BY RowStreamBounds DEF IInv, TypeOK, Operations, Waiters
<1>2. Signals'
  BY DEF IInv, Signals
<1>3. Ledger' /\ Endings' /\ Places' /\ LateStops' /\ InOrder' /\ NoStrayCancel' /\ CutShortOnlyInCancelRace'
  BY DEF IInv, TypeOK, Ledger, Places, Taken, HasChunk, Queued, Sending, Endings, Waiters,
        LateStops, Signals, InOrder, NoStrayCancel, CutShortOnlyInCancelRace
<1> QED
  BY <1>1, <1>2, <1>3 DEF IInv

LEMMA SignalLatchKeeps ==
  ASSUME IInv, signal_latch
  PROVE  IInv'
<1> USE DEF signal_latch, signalVars, waitVars, taskVars, readerVars
<1>1. TypeOK'
  BY DEF IInv, TypeOK, Operations, Waiters
<1>2. Endings'
  BY DEF IInv, TypeOK, Endings, Ledger, Places, Taken, HasChunk, Queued, Sending
<1>3. Signals'
  BY DEF IInv, Signals, Stream
<1>4. LateStops'
  BY DEF IInv, TypeOK, LateStops, Signals, Places, Waiters
<1>5. NoStrayCancel'
  BY DEF IInv, NoStrayCancel
<1>6. CutShortOnlyInCancelRace'
  BY DEF IInv, CutShortOnlyInCancelRace, Places
<1>7. Ledger' /\ Places' /\ InOrder'
  BY DEF IInv, TypeOK, Ledger, Places, Taken, HasChunk, Queued, Sending, Waiters, InOrder
<1> QED
  BY <1>1, <1>2, <1>3, <1>4, <1>5, <1>6, <1>7 DEF IInv

LEMMA SignalNotifyKeeps ==
  ASSUME IInv, signal_notify
  PROVE  IInv'
<1> USE DEF signal_notify, signalVars, waitVars, taskVars, readerVars
<1>1. TypeOK'
  BY RowStreamBounds DEF IInv, TypeOK, Operations, Waiters
<1>2. Ledger' /\ Endings' /\ Signals' /\ Places' /\ LateStops' /\ InOrder' /\ NoStrayCancel' /\ CutShortOnlyInCancelRace'
  BY DEF IInv, TypeOK, Ledger, Places, Taken, HasChunk, Queued, Sending, Endings, Signals,
        Waiters, LateStops, InOrder, NoStrayCancel, CutShortOnlyInCancelRace
<1> QED
  BY <1>1, <1>2 DEF IInv

-----------------------------------------------------------------------------
(* The waiters. *)

(* The task finds the flag set. *)
LEMMA TaskCancelledKeeps ==
  ASSUME IInv, waiting["task"] # "none", Stream \in latched, TaskCancelled
  PROVE  IInv'
<1> USE DEF TaskCancelled, TaskEnds, Select, signalVars, waitVars, taskVars, readerVars
<1>1. TypeOK'
  BY RowStreamBounds DEF IInv, TypeOK, Operations, Waiters
<1>2. Ledger'
  BY Messages DEF IInv, TypeOK, Ledger, Places, Taken, HasChunk, Queued, Sending
<1>3. Endings'
  BY Messages DEF IInv, TypeOK, Endings, Ledger, Places, Taken, HasChunk, Queued, Sending,
        Signals
<1>4. Signals'
  BY Messages DEF IInv, Signals
<1>5. Places'
  BY DEF IInv, TypeOK, Places, Waiters
<1>6. LateStops' /\ InOrder' /\ NoStrayCancel' /\ CutShortOnlyInCancelRace'
  BY DEF IInv, TypeOK, LateStops, Signals, Places, Waiters, InOrder, NoStrayCancel,
        CutShortOnlyInCancelRace
<1> QED
  BY <1>1, <1>2, <1>3, <1>4, <1>5, <1>6 DEF IInv

(* The reader finds the flag set. *)
LEMMA ReaderCancelledKeeps ==
  ASSUME IInv, waiting["reader"] # "none", Stream \in latched, ReaderCancelled
  PROVE  IInv'
<1> USE DEF ReaderCancelled, ReaderEnds, Select, signalVars, waitVars, taskVars, readerVars
<1>1. TypeOK'
  BY DEF IInv, TypeOK, Operations, Waiters
<1>2. Ledger'
  BY DEF IInv, TypeOK, Ledger, Places, Taken, HasChunk, Queued, Sending
<1>3. Endings'
  BY DEF IInv, TypeOK, Endings, Ledger, Places, Taken, HasChunk, Queued, Sending
<1>4. Signals'
  BY DEF IInv, Signals
<1>5. Places'
  BY DEF IInv, TypeOK, Places, Waiters
<1>6. LateStops'
  BY DEF IInv, TypeOK, LateStops, Signals, Places, Waiters
<1>7. NoStrayCancel'
  BY DEF IInv, NoStrayCancel, Signals
<1>8. CutShortOnlyInCancelRace'
  BY DEF IInv, CutShortOnlyInCancelRace, Places
<1>9. InOrder'
  BY DEF IInv, InOrder
<1> QED
  BY <1>1, <1>2, <1>3, <1>4, <1>5, <1>6, <1>7, <1>8, <1>9 DEF IInv

(* A waiter that is not past its second load goes on, with the flag not set. *)
LEMMA WaiterMovesKeeps ==
  ASSUME IInv, NEW w \in Waiters, NEW at \in {"register", "wait"},
         waiting[w] \in {"check", "recheck"}, Stream \notin latched,
         waiting' = [waiting EXCEPT ![w] = at],
         UNCHANGED <<registered, notified, signalVars, taskVars, readerVars, channel, aborted, asked>>
  PROVE  IInv'
<1> USE DEF signalVars, waitVars, taskVars, readerVars
<1>1. TypeOK'
  BY DEF IInv, TypeOK, Operations, Waiters
<1>2. Places'
  BY DEF IInv, TypeOK, Places, Waiters
<1>3. LateStops'
  BY DEF IInv, TypeOK, LateStops, Signals, Places, Waiters
<1>4. Ledger' /\ Endings' /\ Signals' /\ InOrder' /\ NoStrayCancel' /\ CutShortOnlyInCancelRace'
  BY DEF IInv, TypeOK, Ledger, Places, Taken, HasChunk, Queued, Sending, Endings, Signals,
        InOrder, NoStrayCancel, CutShortOnlyInCancelRace
<1> QED
  BY <1>1, <1>2, <1>3, <1>4 DEF IInv

LEMMA RegisterKeeps ==
  ASSUME IInv, NEW w \in Waiters, cancelled_register(w)
  PROVE  IInv'
<1> USE DEF cancelled_register, signalVars, waitVars, taskVars, readerVars
<1>1. TypeOK'
  BY DEF IInv, TypeOK, Operations, Waiters
<1>2. Places'
  BY DEF IInv, TypeOK, Places, Waiters
<1>3. LateStops'
  BY DEF IInv, TypeOK, LateStops, Signals, Places, Waiters
<1>4. Ledger' /\ Endings' /\ Signals' /\ InOrder' /\ NoStrayCancel' /\ CutShortOnlyInCancelRace'
  BY DEF IInv, TypeOK, Ledger, Places, Taken, HasChunk, Queued, Sending, Endings, Signals,
        InOrder, NoStrayCancel, CutShortOnlyInCancelRace
<1> QED
  BY <1>1, <1>2, <1>3, <1>4 DEF IInv

LEMMA WokenKeeps ==
  ASSUME IInv, NEW w \in Waiters, cancelled_woken(w)
  PROVE  IInv'
<1> USE DEF cancelled_woken, Select, signalVars, waitVars, taskVars, readerVars
<1>1. TypeOK'
  BY DEF IInv, TypeOK, Operations, Waiters
<1>2. Places'
  BY DEF IInv, TypeOK, Places, Waiters
<1>3. LateStops'
  BY DEF IInv, TypeOK, LateStops, Signals, Places, Waiters
<1>4. Ledger' /\ Endings' /\ Signals' /\ InOrder' /\ NoStrayCancel' /\ CutShortOnlyInCancelRace'
  BY DEF IInv, TypeOK, Ledger, Places, Taken, HasChunk, Queued, Sending, Endings, Signals,
        InOrder, NoStrayCancel, CutShortOnlyInCancelRace
<1> QED
  BY <1>1, <1>2, <1>3, <1>4 DEF IInv

LEMMA CancelledKeeps ==
  ASSUME IInv, NEW w \in Waiters, cancelled(w)
  PROVE  IInv'
<1>1. ASSUME NEW at \in {"register", "wait"}, waiting[w] \in {"check", "recheck"}, LoadFlag(w, at)
      PROVE  IInv'
  BY <1>1, TaskCancelledKeeps, ReaderCancelledKeeps, WaiterMovesKeeps DEF LoadFlag
<1> QED
  BY <1>1, RegisterKeeps, WokenKeeps DEF cancelled, cancelled_check, cancelled_recheck

-----------------------------------------------------------------------------
(* The task. *)

LEMMA NextChunkKeeps ==
  ASSUME IInv, next_chunk
  PROVE  IInv'
<1> USE DEF next_chunk, Select, Polls, signalVars, waitVars, taskVars, readerVars
<1>1. TypeOK'
  BY RowStreamBounds DEF IInv, TypeOK, Operations, Waiters
<1>2. Ledger'
  BY DEF IInv, TypeOK, Ledger, Places, Taken, HasChunk, Queued, Sending
<1>3. Endings'
  BY DEF IInv, TypeOK, Endings, Ledger, Places, Taken, HasChunk, Queued, Sending
<1>4. Places'
  BY DEF IInv, TypeOK, Places, Waiters
<1>5. Signals' /\ LateStops' /\ InOrder' /\ NoStrayCancel' /\ CutShortOnlyInCancelRace'
  BY DEF IInv, Signals, TypeOK, LateStops, Places, Waiters, InOrder, NoStrayCancel,
        CutShortOnlyInCancelRace
<1> QED
  BY <1>1, <1>2, <1>3, <1>4, <1>5 DEF IInv

LEMMA NextChunkEmptyKeeps ==
  ASSUME IInv, next_chunk_empty
  PROVE  IInv'
<1> USE DEF next_chunk_empty, TaskEnds, Select, signalVars, waitVars, taskVars, readerVars
<1>1. TypeOK'
  BY RowStreamBounds DEF IInv, TypeOK, Operations, Waiters
<1>2. Ledger'
  BY DEF IInv, TypeOK, Ledger, Places, Taken, HasChunk, Queued, Sending
<1>3. Endings'
  BY DEF IInv, TypeOK, Endings, Ledger, Places, Taken, HasChunk, Queued, Sending
<1>4. Places'
  BY DEF IInv, TypeOK, Places, Waiters
<1>5. Signals' /\ LateStops' /\ InOrder' /\ NoStrayCancel' /\ CutShortOnlyInCancelRace'
  BY DEF IInv, Signals, TypeOK, LateStops, Places, Waiters, InOrder, NoStrayCancel,
        CutShortOnlyInCancelRace
<1> QED
  BY <1>1, <1>2, <1>3, <1>4, <1>5 DEF IInv

LEMMA NextChunkFailsKeeps ==
  ASSUME IInv, next_chunk_fails
  PROVE  IInv'
<1> USE DEF next_chunk_fails, Select, signalVars, waitVars, taskVars, readerVars
<1>1. TypeOK'
  BY DEF IInv, TypeOK, Operations, Waiters
<1>2. Ledger'
  BY DEF IInv, TypeOK, Ledger, Places, Taken, HasChunk, Queued, Sending
<1>3. Endings'
  BY DEF IInv, TypeOK, Endings, Ledger, Places, Taken, HasChunk, Queued, Sending
<1>4. Places'
  BY DEF IInv, TypeOK, Places, Waiters
<1>5. Signals' /\ LateStops' /\ InOrder' /\ NoStrayCancel' /\ CutShortOnlyInCancelRace'
  BY DEF IInv, Signals, TypeOK, LateStops, Places, Waiters, InOrder, NoStrayCancel,
        CutShortOnlyInCancelRace
<1> QED
  BY <1>1, <1>2, <1>3, <1>4, <1>5 DEF IInv

LEMMA SendChunkKeeps ==
  ASSUME IInv, send_chunk
  PROVE  IInv'
<1> USE DEF send_chunk, Select, signalVars, waitVars, taskVars, readerVars
<1>0. held \in 1..MaxChunks /\ Chunk(held) \in {Chunk(n) : n \in 1..MaxChunks}
  BY DEF IInv, TypeOK, Ledger
<1>1. TypeOK'
  BY <1>0, RowStreamBounds DEF IInv, TypeOK, Operations, Waiters
<1>2. Ledger'
  BY Messages DEF IInv, TypeOK, Ledger, Places, Taken, HasChunk, Queued, Sending
<1>3. Endings'
  BY Messages DEF IInv, TypeOK, Endings, Ledger, Places, Taken, HasChunk, Queued, Sending
<1>4. Signals'
  BY Messages DEF IInv, Signals
<1>5. Places'
  BY DEF IInv, TypeOK, Places, Waiters
<1>6. LateStops' /\ InOrder' /\ NoStrayCancel' /\ CutShortOnlyInCancelRace'
  BY DEF IInv, TypeOK, LateStops, Signals, Places, Waiters, InOrder, NoStrayCancel,
        CutShortOnlyInCancelRace
<1> QED
  BY <1>1, <1>2, <1>3, <1>4, <1>5, <1>6 DEF IInv

LEMMA SendErrorKeeps ==
  ASSUME IInv, send_error
  PROVE  IInv'
<1> USE DEF send_error, TaskEnds, Select, signalVars, waitVars, taskVars, readerVars
<1>1. TypeOK'
  BY RowStreamBounds DEF IInv, TypeOK, Operations, Waiters
<1>2. Ledger'
  BY Messages DEF IInv, TypeOK, Ledger, Places, Taken, HasChunk, Queued, Sending
<1>3. Endings'
  BY Messages DEF IInv, TypeOK, Endings, Ledger, Places, Taken, HasChunk, Queued, Sending
<1>4. Signals'
  BY Messages DEF IInv, Signals
<1>5. Places'
  BY DEF IInv, TypeOK, Places, Waiters
<1>6. LateStops' /\ InOrder' /\ NoStrayCancel' /\ CutShortOnlyInCancelRace'
  BY DEF IInv, TypeOK, LateStops, Signals, Places, Waiters, InOrder, NoStrayCancel,
        CutShortOnlyInCancelRace
<1> QED
  BY <1>1, <1>2, <1>3, <1>4, <1>5, <1>6 DEF IInv

LEMMA SendRefusedKeeps ==
  ASSUME IInv, send_refused
  PROVE  IInv'
<1> USE DEF send_refused, TaskEnds, Select, signalVars, waitVars, taskVars, readerVars
<1>1. TypeOK'
  BY RowStreamBounds DEF IInv, TypeOK, Operations, Waiters
<1>2. Ledger'
  BY DEF IInv, TypeOK, Ledger, Places, Taken, HasChunk, Queued, Sending
<1>3. Endings'
  BY DEF IInv, TypeOK, Endings, Ledger, Places, Taken, HasChunk, Queued, Sending
<1>4. Places'
  BY DEF IInv, TypeOK, Places, Waiters
<1>5. Signals' /\ LateStops' /\ InOrder' /\ NoStrayCancel' /\ CutShortOnlyInCancelRace'
  BY DEF IInv, Signals, TypeOK, LateStops, Places, Waiters, InOrder, NoStrayCancel,
        CutShortOnlyInCancelRace
<1> QED
  BY <1>1, <1>2, <1>3, <1>4, <1>5 DEF IInv

LEMMA TaskAbortedKeeps ==
  ASSUME IInv, task_aborted
  PROVE  IInv'
<1> USE DEF task_aborted, TaskEnds, Select, signalVars, waitVars, taskVars, readerVars
<1>1. TypeOK'
  BY RowStreamBounds DEF IInv, TypeOK, Operations, Waiters
<1>2. Ledger'
  BY DEF IInv, TypeOK, Ledger, Places, Taken, HasChunk, Queued, Sending
<1>3. Endings'
  BY DEF IInv, TypeOK, Endings, Ledger, Places, Taken, HasChunk, Queued, Sending
<1>4. Places'
  BY DEF IInv, TypeOK, Places, Waiters
<1>5. Signals' /\ LateStops' /\ InOrder' /\ NoStrayCancel' /\ CutShortOnlyInCancelRace'
  BY DEF IInv, Signals, TypeOK, LateStops, Places, Waiters, InOrder, NoStrayCancel,
        CutShortOnlyInCancelRace
<1> QED
  BY <1>1, <1>2, <1>3, <1>4, <1>5 DEF IInv

-----------------------------------------------------------------------------
(* The reader. *)

LEMMA NextFirstKeeps ==
  ASSUME IInv, next_first
  PROVE  IInv'
<1> USE DEF next_first, signalVars, waitVars, taskVars, readerVars
<1>1. TypeOK'
  BY RowStreamBounds DEF IInv, TypeOK, Operations, Waiters
<1>2. Ledger'
  BY DEF IInv, TypeOK, Ledger, Places, Taken, HasChunk, Queued, Sending
<1>3. Endings'
  BY DEF IInv, TypeOK, Endings, Ledger, Places, Taken, HasChunk, Queued, Sending
<1>4. Places'
  BY DEF IInv, TypeOK, Places, Waiters
<1>5. LateStops'
  BY DEF IInv, TypeOK, LateStops, Signals, Places, Waiters
<1>6. InOrder'
  BY DEF IInv, InOrder, TypeOK, Ledger
<1>7. CutShortOnlyInCancelRace'
  BY DEF IInv, CutShortOnlyInCancelRace, Places
<1>8. Signals' /\ NoStrayCancel'
  BY DEF IInv, Signals, NoStrayCancel
<1> QED
  BY <1>1, <1>2, <1>3, <1>4, <1>5, <1>6, <1>7, <1>8 DEF IInv

LEMMA NextKeeps ==
  ASSUME IInv, next
  PROVE  IInv'
<1> USE DEF next, Select, signalVars, waitVars, taskVars, readerVars
<1>1. TypeOK'
  BY DEF IInv, TypeOK, Operations, Waiters
<1>2. Places'
  BY DEF IInv, TypeOK, Places, Waiters
<1>3. LateStops'
  BY DEF IInv, TypeOK, LateStops, Signals, Places, Waiters
<1>4. CutShortOnlyInCancelRace'
  BY DEF IInv, CutShortOnlyInCancelRace, Places
<1>5. Ledger' /\ Endings' /\ Signals' /\ InOrder' /\ NoStrayCancel'
  BY DEF IInv, TypeOK, Ledger, Places, Taken, HasChunk, Queued, Sending, Endings, Signals,
        InOrder, NoStrayCancel
<1> QED
  BY <1>1, <1>2, <1>3, <1>4, <1>5 DEF IInv

LEMMA RecvChunkKeeps ==
  ASSUME IInv, recv_chunk
  PROVE  IInv'
<1> USE DEF recv_chunk, Select, Polls, signalVars, waitVars, taskVars, readerVars
<1>0. /\ channel' = <<>> /\ HasChunk /\ ~HasChunk'
      /\ Head(channel).n = Len(delivered) + 1 /\ Head(channel).n \in 1..MaxChunks
  BY OneMessage DEF IInv, TypeOK, Ledger, Places, HasChunk, Taken
<1>a. channel' # <<Cancelled>>
  BY <1>0
<1>1. TypeOK'
  BY <1>0 DEF IInv, TypeOK, Operations, Waiters
<1>2. Ledger'
  BY <1>0 DEF IInv, TypeOK, Ledger, Places, Taken, HasChunk, Queued, Sending
<1>3. Endings'
  BY <1>0 DEF IInv, TypeOK, Endings, Ledger, Places, Taken, HasChunk, Queued, Sending
<1>4. Signals'
  BY <1>a DEF IInv, Signals
<1>5. Places'
  BY DEF IInv, TypeOK, Places, Waiters
<1>6. LateStops'
  BY DEF IInv, TypeOK, LateStops, Signals, Places, Waiters
<1>7. InOrder'
  BY <1>0 DEF IInv, InOrder, TypeOK
<1>8. NoStrayCancel' /\ CutShortOnlyInCancelRace'
  BY DEF IInv, NoStrayCancel, CutShortOnlyInCancelRace, Places
<1> QED
  BY <1>1, <1>2, <1>3, <1>4, <1>5, <1>6, <1>7, <1>8 DEF IInv

LEMMA RecvErrorKeeps ==
  ASSUME IInv, recv_error
  PROVE  IInv'
<1> USE DEF recv_error, ReaderEnds, Select, signalVars, waitVars, taskVars, readerVars
<1>0. /\ outcome' \in {"failed", "cancelled"}
      /\ outcome' = "cancelled" => channel = <<Cancelled>>
  BY OneMessage DEF IInv
<1>1. TypeOK'
  BY <1>0 DEF IInv, TypeOK, Operations, Waiters
<1>2. Ledger'
  BY DEF IInv, TypeOK, Ledger, Places, Taken, HasChunk, Queued, Sending
<1>3. Endings'
  BY DEF IInv, TypeOK, Endings, Ledger, Places, Taken, HasChunk, Queued, Sending
<1>4. Signals'
  BY DEF IInv, Signals
<1>5. Places'
  BY <1>0 DEF IInv, TypeOK, Places, Waiters
<1>6. LateStops'
  BY DEF IInv, TypeOK, LateStops, Signals, Places, Waiters
<1>7. NoStrayCancel'
  BY <1>0 DEF IInv, NoStrayCancel, Signals
<1>8. CutShortOnlyInCancelRace'
  BY <1>0 DEF IInv, CutShortOnlyInCancelRace, Places
<1>9. InOrder'
  BY DEF IInv, InOrder
<1> QED
  BY <1>1, <1>2, <1>3, <1>4, <1>5, <1>6, <1>7, <1>8, <1>9 DEF IInv

LEMMA RecvClosedKeeps ==
  ASSUME IInv, recv_closed
  PROVE  IInv'
<1> USE DEF recv_closed, ReaderEnds, Select, Polls, signalVars, waitVars, taskVars, readerVars
<1>1. TypeOK'
  BY DEF IInv, TypeOK, Operations, Waiters
<1>2. Ledger'
  BY DEF IInv, TypeOK, Ledger, Places, Taken, HasChunk, Queued, Sending
<1>3. Endings'
  BY DEF IInv, TypeOK, Endings, Ledger, Places, Taken, HasChunk, Queued, Sending
<1>4. Signals'
  BY DEF IInv, Signals
<1>5. Places'
  BY DEF IInv, TypeOK, Places, Waiters
<1>6. LateStops'
  BY DEF IInv, TypeOK, LateStops, Signals, Places, Waiters
<1>7. NoStrayCancel'
  BY DEF IInv, NoStrayCancel
<1>8. CutShortOnlyInCancelRace'
  BY DEF IInv, CutShortOnlyInCancelRace, Places, TypeOK, Endings, LateStops, Taken, Queued,
        HasChunk
<1>9. InOrder'
  BY DEF IInv, InOrder
<1> QED
  BY <1>1, <1>2, <1>3, <1>4, <1>5, <1>6, <1>7, <1>8, <1>9 DEF IInv

LEMMA DropKeeps ==
  ASSUME IInv, drop
  PROVE  IInv'
<1> USE DEF drop, signalVars, waitVars, taskVars, readerVars
<1>1. TypeOK'
  BY DEF IInv, TypeOK, Operations, Waiters
<1>2. Ledger'
  BY DEF IInv, TypeOK, Ledger, Places, Taken, HasChunk, Queued, Sending
<1>3. Endings'
  BY DEF IInv, TypeOK, Endings, Ledger, Places, Taken, HasChunk, Queued, Sending
<1>4. Signals'
  BY DEF IInv, Signals
<1>5. Places'
  BY DEF IInv, TypeOK, Places, Waiters
<1>6. LateStops'
  BY DEF IInv, TypeOK, LateStops, Signals, Places, Waiters
<1>7. InOrder' /\ NoStrayCancel' /\ CutShortOnlyInCancelRace'
  BY DEF IInv, InOrder, NoStrayCancel, CutShortOnlyInCancelRace, Places
<1> QED
  BY <1>1, <1>2, <1>3, <1>4, <1>5, <1>6, <1>7 DEF IInv

-----------------------------------------------------------------------------
(* The theorems. *)

LEMMA Initially == Init => IInv
<1> SUFFICES ASSUME Init PROVE IInv
  OBVIOUS
<1> USE DEF Init
<1>1. TypeOK
  <2>1. /\ operations \in Operations /\ slot \in Operations /\ notifying \in 0..MaxOperations
        /\ held \in 0..MaxChunks /\ pulled \in 0..MaxChunks
    BY RowStreamBounds DEF Stream, Operations
  <2>2. waiting \in [Waiters -> {"none", "check", "register", "recheck", "wait"}]
    OBVIOUS
  <2>3. delivered \in Seq(1..MaxChunks)
    OBVIOUS
  <2>4. latched \subseteq Operations /\ registered \subseteq Waiters /\ notified \subseteq registered
    OBVIOUS
  <2>5. /\ aborted \in BOOLEAN /\ chunks \in BOOLEAN /\ asked \in BOOLEAN /\ late \in BOOLEAN
        /\ drained \in BOOLEAN
    OBVIOUS
  <2> QED
    BY <2>1, <2>2, <2>3, <2>4, <2>5 DEF TypeOK
<1>2. Ledger /\ Endings
  BY DEF Ledger, Endings, Taken, HasChunk, Queued, Sending
<1>3. Signals /\ Places /\ LateStops
  BY DEF Signals, Places, LateStops, Cancelled, Waiters
<1>4. InOrder /\ NoStrayCancel /\ CutShortOnlyInCancelRace
  BY DEF InOrder, NoStrayCancel, CutShortOnlyInCancelRace
<1> QED
  BY <1>1, <1>2, <1>3, <1>4 DEF IInv

LEMMA StepKeeps ==
  ASSUME IInv, [Next]_vars
  PROVE  IInv'
<1>1. CASE SourceStep
  BY <1>1, NextChunkKeeps, NextChunkEmptyKeeps, NextChunkFailsKeeps DEF SourceStep
<1>2. CASE TaskStep
  BY <1>2, CancelledKeeps, SendChunkKeeps, SendErrorKeeps, SendRefusedKeeps, TaskAbortedKeeps
     DEF TaskStep, Waiters
<1>3. CASE ReaderStep
  BY <1>3, CancelledKeeps, RecvChunkKeeps, RecvErrorKeeps, RecvClosedKeeps DEF ReaderStep, Waiters
<1>4. CASE CallStep
  BY <1>4, NextFirstKeeps, NextKeeps, DropKeeps, BeginOperationKeeps, SignalLatchKeeps
     DEF CallStep
<1>5. CASE UNCHANGED vars
  BY <1>5
     DEF vars, signalVars, waitVars, taskVars, readerVars, IInv, TypeOK, Ledger, Endings, Signals,
         Places, LateStops, InOrder, NoStrayCancel, CutShortOnlyInCancelRace, Taken, HasChunk,
         Queued, Sending
<1> QED
  BY <1>1, <1>2, <1>3, <1>4, <1>5, SignalNotifyKeeps DEF Next

THEOREM Inductive == Spec => []IInv
<1> QED
  BY Initially, StepKeeps, PTL DEF Spec

(* The state keeps its shape; in particular the channel never holds more than *)
(* one message.                                                               *)
THEOREM StreamTypeCorrect == Spec => []TypeOK
<1>1. IInv => TypeOK
  BY DEF IInv
<1> QED
  BY <1>1, Inductive, PTL

(* For a result of any length, next returns its chunks in order, without a gap *)
(* and without a repetition.                                                    *)
THEOREM ChunksInOrder == Spec => []InOrder
<1>1. IInv => InOrder
  BY DEF IInv
<1> QED
  BY <1>1, Inductive, PTL

(* The source is never more than two chunks ahead of a consumer that may still *)
(* ask for them, and three while the first one waits to be taken.               *)
THEOREM PrefetchStaysBounded == Spec => []PrefetchBounded
<1>1. IInv => PrefetchBounded
  BY DEF IInv, TypeOK, Ledger, PrefetchBounded, Taken, Queued, Sending
<1> QED
  BY <1>1, Inductive, PTL

(* A reader reports Cancelled only if cancel() was called while its operation *)
(* was the current one, however many operations are begun after it.           *)
THEOREM CancelNeverStray == Spec => []NoStrayCancel
<1>1. IInv => NoStrayCancel
  BY DEF IInv
<1> QED
  BY <1>1, Inductive, PTL

(* A clean end that cuts the result short needs a cancel() during the very next *)
(* that returned it.                                                            *)
THEOREM CleanEndCutsOnlyInRace == Spec => []CutShortOnlyInCancelRace
<1>1. IInv => CutShortOnlyInCancelRace
  BY DEF IInv
<1> QED
  BY <1>1, Inductive, PTL

(* A next that began after cancel() returns no chunk. *)
THEOREM CancelMasksNothing == Spec => CancelNotMasked
<1>1. ASSUME IInv, [Next]_vars, reader = "next", late
      PROVE  delivered' = delivered
  <2>1. waiting["reader"] = "check"
    BY <1>1 DEF IInv, LateStops
  <2>2. ~recv_chunk /\ ~next_first
    BY <1>1, <2>1 DEF recv_chunk, next_first, Polls
  <2>3. CASE SourceStep \/ TaskStep
    BY <2>3 DEF SourceStep, TaskStep, next_chunk, next_chunk_empty, next_chunk_fails, send_chunk,
                send_error, send_refused, task_aborted, cancelled, cancelled_check,
                cancelled_register, cancelled_recheck, cancelled_woken, LoadFlag, TaskCancelled,
                ReaderCancelled, ReaderEnds, readerVars
  <2>4. CASE ReaderStep
    BY <2>2, <2>4 DEF ReaderStep, recv_error, recv_closed, cancelled, cancelled_check,
                cancelled_register, cancelled_recheck, cancelled_woken, LoadFlag, TaskCancelled,
                ReaderCancelled, ReaderEnds, readerVars
  <2>5. CASE CallStep \/ signal_notify
    BY <2>2, <2>5 DEF CallStep, signal_notify, next, drop, begin_operation, signal_latch, readerVars
  <2>6. CASE UNCHANGED vars
    BY <2>6 DEF vars, readerVars
  <2> QED
    BY <1>1, <2>3, <2>4, <2>5, <2>6 DEF Next
<1>2. IInv /\ [Next]_vars => [reader = "next" /\ late => delivered' = delivered]_vars
  BY <1>1
<1> QED
  BY <1>2, Inductive, PTL DEF Spec, CancelNotMasked
=============================================================================
