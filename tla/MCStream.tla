------------------------------ MODULE MCStream ------------------------------
(* What Spanner answers for TLC, on its way to the host: the chunks a bound *)
(* query is cut into (BoundQuery), the task, the reader and the cancel      *)
(* signal that carry chunks (RowStream), the operations that share a        *)
(* CancelSlot (Cancellation), the scans of get_statistics (Statistics) and  *)
(* an option copied into the host's buffer (OptionBuffer).  They share no   *)
(* variable; part says which of them a behaviour is of, and the others      *)
(* rest.                                                                    *)
EXTENDS RowStream

CONSTANTS
  Callers, MaxSignals, Bindings, ResultSets, BatchSize, Budget, MaxWrites,
  Versions, Filters, Concurrency, MaxFaults, Values, MaxSets, MaxBuffer

VARIABLES
  part,
  current, minted, locked, flag, canceller, op,                       \* Cancellation, current its slot
  bound, result, db, txn, cursor, rs, chunk, got, unread, pc,         \* BoundQuery, unread its first
  version, read, stage, filter, tables, columns, prepared, scans, batches, stats, faults,  \* Statistics, stage its pc
  ready, option, sets, seen, host, mem                                \* OptionBuffer

slotVars == <<current, minted, locked, flag, canceller, op>>
rowVars == <<bound, result, db, txn, cursor, rs, chunk, got, unread, pc>>
scanVars == <<version, read, stage, filter, tables, columns, prepared, scans, batches, stats, faults>>
bufferVars == <<ready, option, sets, seen, host, mem>>

Slot == INSTANCE Cancellation WITH Overlap <- FALSE, slot <- current
Rows == INSTANCE BoundQuery WITH first <- unread
Scans == INSTANCE Statistics WITH pc <- stage, result <- stats
Reading == INSTANCE OptionBuffer

ASSUME Rows!ChunkAssumption
ASSUME Scans!StatisticsAssumption
ASSUME Reading!BufferBounds

(* Up to three bound rows in batches with empty ones among them; result     *)
(* sets of up to three rows, with rows over the budget.                     *)
TheBindings == {<<>>, <<0>>, <<1>>, <<0, 1>>, <<2>>, <<1, 0, 1>>, <<2, 1>>, <<1, 2, 0>>}
TheResultSets == {<<>>, <<1>>, <<4, 1>>, <<1, 1, 1>>}

(* Three tables of two schemas, of the same name in both; a table is        *)
(* altered, dropped or created from one version to the next.                *)
Col(name, hidden, groupable) == [name |-> name, hidden |-> hidden, groupable |-> groupable]
Key == Col("k", FALSE, TRUE)
Json == Col("j", FALSE, FALSE)
RowId == Col("rowid", TRUE, TRUE)
T(schema, table, cols) == [schema |-> schema, table |-> table, columns |-> cols]

TheVersions ==
  << << T("s", "a", <<Json, Key>>), T("t", "a", <<RowId, Key>>), T("s", "b", <<Key>>) >>,
     << T("s", "a", <<Key>>), T("s", "b", <<Key>>), T("t", "c", <<Json>>) >>,
     << T("t", "a", <<RowId, Key>>), T("t", "c", <<>>), T("s", "a", <<Json>>) >> >>
TheFilters == [schemas : {{"s", "t"}, {"s"}, {"t"}}, tables : {{"a", "b", "c"}, {"a"}}]

(* Values of no, one and two bytes, and one with a NUL in it.               *)
TheValues == {<<>>, <<1>>, <<1, 2>>, <<1, 0, 2>>}

MCInit ==
  /\ part \in {"stream", "slot", "rows", "scans", "buffer"}
  /\ Init /\ (part # "stream" => first = 0)
  /\ Slot!Init
  /\ Rows!Init /\ (part # "rows" => bound = <<>> /\ result = <<<<>>>> /\ txn = 0)
  /\ Scans!Init /\ (part # "scans" => filter = [schemas |-> {"s"}, tables |-> {"a"}])
  /\ Reading!Init /\ (part # "buffer" => option = <<>>)

(* A stream of rows that ended, and a call that returned, stay at their end. *)
Ended == pc \in {"ended", "failed"} /\ UNCHANGED rowVars
Returned == stage \in {"done", "failed"} /\ UNCHANGED scanVars

MCNext ==
  /\ UNCHANGED part
  /\ \/ part = "stream" /\ Next /\ UNCHANGED <<slotVars, rowVars, scanVars, bufferVars>>
     \/ part = "slot" /\ Slot!Next /\ UNCHANGED <<vars, rowVars, scanVars, bufferVars>>
     \/ part = "rows" /\ (Rows!Next \/ Ended) /\ UNCHANGED <<vars, slotVars, scanVars, bufferVars>>
     \/ part = "scans" /\ (Scans!Next \/ Returned) /\ UNCHANGED <<vars, slotVars, rowVars, bufferVars>>
     \/ part = "buffer" /\ Reading!Next /\ UNCHANGED <<vars, slotVars, rowVars, scanVars>>

(* The fairness of each component, for the part at work. *)
MCSpec ==
  /\ MCInit /\ [][MCNext]_<<part, vars, slotVars, rowVars, scanVars, bufferVars>>
  /\ WF_vars(part = "stream" /\ TaskStep)
  /\ WF_vars(part = "stream" /\ ReaderStep)
  /\ WF_vars(part = "stream" /\ signal_notify)
  /\ \A c \in Callers : /\ WF_slotVars(part = "slot" /\ Slot!Waiter(c))
                        /\ SF_slotVars(part = "slot" /\ Slot!current(c))
  /\ WF_slotVars(part = "slot" /\ (Slot!signal_store \/ Slot!notify_waiters))
  /\ WF_rowVars(part = "rows" /\ Rows!Step)
  /\ WF_scanVars(part = "scans" /\ Scans!Call)
  /\ WF_bufferVars(part = "buffer" /\ Reading!Driver)
  /\ WF_bufferVars(part = "buffer" /\ Reading!Again)
  /\ WF_bufferVars(part = "buffer" /\ Reading!Accept)

-----------------------------------------------------------------------------
(* RowStream and Cancellation: a cancel of the current operation ends its   *)
(* wait, wherever in CancelSignal::cancelled it lands and although the RPC  *)
(* hangs; no wake-up is lost.                                               *)
CancelReaches == CancelEndsWait /\ Slot!CancelEnds

(* BoundQuery: every bound row is answered, in order and at one version, in *)
(* chunks within the limits of pull_chunk.                                  *)
BoundAnswers == Rows!BoundAnswers

(* Statistics: every statistic of every matching table, once, of its own    *)
(* table and column and of one version, though scans end in any order and   *)
(* the schema changes meanwhile.                                            *)
StatisticsExact == part = "scans" => Scans!StatisticsExact

(* OptionBuffer: the value a host accepts is one the option had, whole, and *)
(* nothing is written past the buffer or by a call that fails.              *)
BufferContract == part = "buffer" => Reading!BufferContract

(* BoundQuery, Statistics, OptionBuffer: a reader that is drained comes to  *)
(* an end however many bound rows have nothing to return, the window of     *)
(* concurrent scans cannot jam, and a host that asks again with the size it *)
(* was told gets its value once the option is no longer made longer.        *)
CallsEnd ==
  /\ part = "rows" ~> pc \in {"ended", "failed"}
  /\ part = "scans" ~> stage \in {"done", "failed"}
  /\ Reading!AskEnds
=============================================================================
