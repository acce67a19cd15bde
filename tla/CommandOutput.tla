---------------------------- MODULE CommandOutput ----------------------------
(***************************************************************************)
(* One command and what becomes of its output: the task that executes it   *)
(* (application/backend.py), the history writer that buffers its output    *)
(* (application/output_writer.py) with the task that flushes the buffer    *)
(* periodically, the record of its end (application/operation_pipeline.py, *)
(* history/encoding.py) and the store, which is the helper's database in   *)
(* the sandbox or a SQL database (history/sqlalchemy.py).                  *)
(*                                                                         *)
(* The bytes of a stream are numbered from 1.  The writer captures a       *)
(* prefix of each stream and hands it on in chunks, so that its buffer     *)
(* holds the captured bytes that no chunk has been made of.                *)
(***************************************************************************)
EXTENDS Naturals, Sequences, FiniteSets, FiniteSetsExt

CONSTANTS
  MaxWritten,   \* bound on the bytes the command writes
  MaxCancels,   \* bound on the calls of cancel()
  MaxOutput,    \* max_operation_output_bytes
  ChunkBytes,   \* output_chunk_bytes
  FlushBytes,   \* output_flush_bytes
  QueueBytes,   \* output_queue_max_bytes
  QueueChunks,  \* output_queue_max_chunks
  HeadBytes,    \* what a command's result keeps of the start of a stream ...
  TailBytes     \* ... and of its end

ASSUME SizesAssumption ==
  /\ {MaxWritten, MaxCancels, HeadBytes, TailBytes} \subseteq Nat
  /\ {MaxOutput, ChunkBytes, FlushBytes, QueueBytes, QueueChunks} \subseteq Nat \ {0}
  /\ ChunkBytes <= QueueBytes /\ FlushBytes <= QueueBytes

VARIABLES
  store,      \* "helper" or "database"
  capture,    \* the streams with capture_stdout or capture_stderr
  periodic,   \* output_flush_interval_ms > 0
  written,    \* the bytes the command has written to each stream
  unstreamed, \* the streams whose output came with the result only
  at,         \* where the task that executes the command is
  stream,     \* the stream it is writing
  outcome,    \* how the command ended: with a result, an error, or cancelled
  cancels,    \* the calls of cancel() so far
  lock,       \* who holds _lock
  closed, failed, truncated,  \* the fields of the writer
  captured,   \* per stream, the bytes it has taken
  numbered,   \* per stream, those of them a chunk has been made of
  indexes,    \* per stream, the next chunk index
  timer,      \* the task that flushes the buffer periodically
  batch,      \* the chunks the holder of _lock is appending
  late,       \* chunks whose append was given up and may still take effect
  stored,     \* per stream, command_output_chunks by chunk index
  status,     \* what the history knows of the operation
  storage     \* history_storage_state, of the helper's row or in result_json

config == <<store, capture, periodic>>
command == <<written, unstreamed, at, stream, outcome, cancels>>
buffer == <<captured, numbered, indexes>>
flags == <<closed, failed, truncated>>
history == <<stored, status, storage>>
vars == <<config, command, lock, flags, buffer, timer, batch, late, history>>

Streams == {"stdout", "stderr"}
NoChunks == [s \in Streams |-> <<>>]

Init ==
  /\ store \in {"helper", "database"}
  /\ capture \in SUBSET Streams
  /\ periodic \in BOOLEAN
  /\ written = [s \in Streams |-> 0]
  /\ unstreamed = {}
  /\ at = "running" /\ stream = "stdout" /\ outcome = "none" /\ cancels = 0
  /\ lock = "free"
  /\ closed = FALSE /\ failed = FALSE /\ truncated = FALSE
  /\ captured = [s \in Streams |-> 0]
  /\ numbered = [s \in Streams |-> 0]
  /\ indexes = [s \in Streams |-> 0]
  /\ timer = "none"
  /\ batch = NoChunks /\ late = {}
  /\ stored = NoChunks
  /\ status \in {"started", "absent"}  \* absent: its start could not be recorded
  /\ storage = IF store = "helper" THEN "complete" ELSE "none"

-----------------------------------------------------------------------------
(* Chunks.                                                                 *)

Both(f) == f["stdout"] + f["stderr"]
CeilDiv(n) == (n + ChunkBytes - 1) \div ChunkBytes
Bytes(first, last) == [i \in 1 .. last + 1 - first |-> first + i - 1]

\* Cuts bytes into chunks with the indexes from index on.
Chop(bytes, index) ==
  [i \in index .. index + CeilDiv(Len(bytes)) - 1 |->
     SubSeq(bytes, (i - index) * ChunkBytes + 1, Min({(i + 1 - index) * ChunkBytes, Len(bytes)}))]

\* Mutant: a chunk replaces the one with its index.
InsertReplacing(old, new) ==
  [s \in Streams |-> [i \in DOMAIN old[s] \cup DOMAIN new[s] |->
                        IF i \in DOMAIN new[s] THEN new[s][i] ELSE old[s][i]]]

\* INSERT OR IGNORE: the chunk that comes first keeps its index.
Insert(old, new) ==
  [s \in Streams |-> [i \in DOMAIN old[s] \cup DOMAIN new[s] |->
                        IF i \in DOMAIN old[s] THEN old[s][i] ELSE new[s][i]]]

Buffered(taken) == Both(taken) - Both(numbered)
QueueFull(taken) ==
  \/ Buffered(taken) >= QueueBytes
  \/ Both([s \in Streams |-> CeilDiv(taken[s] - numbered[s])]) >= QueueChunks

\* _flush_locked up to its await: the buffered bytes become chunks and are gone from
\* the buffer, whatever becomes of the append.
TakeChunks(taken) ==
  /\ batch' = [s \in Streams |-> Chop(Bytes(numbered[s] + 1, taken[s]), indexes[s])]
  /\ indexes' = [s \in Streams |-> indexes[s] + CeilDiv(taken[s] - numbered[s])]
  /\ numbered' = taken

-----------------------------------------------------------------------------
(* The command writes and ends; the provider hands its output to write().  *)

Written(s, n) ==
  /\ Both(written) + n <= MaxWritten
  /\ written' = [written EXCEPT ![s] = @ + n]

Emit(s) ==
  /\ at = "running" /\ outcome = "none"
  /\ \E n \in 1 .. MaxWritten : Written(s, n)
  /\ at' = IF s \in capture THEN "writing" ELSE "running"
  /\ stream' = s
  /\ UNCHANGED <<config, unstreamed, outcome, cancels, lock, flags, buffer, timer, batch, late,
                 history>>

\* A result; the output of a stream that was not streamed may come with it.
Finish ==
  /\ at = "running"
  /\ at' = "closing" /\ outcome' = "result"
  /\ \/ UNCHANGED <<written, unstreamed>>
     \/ \E s \in Streams, n \in 1 .. MaxWritten :
          written[s] = 0 /\ Written(s, n) /\ unstreamed' = {s}
  /\ UNCHANGED <<config, stream, cancels, lock, flags, buffer, timer, batch, late, history>>

\* The provider fails.
Break ==
  /\ at = "running"
  /\ at' = "closing" /\ outcome' = "error"
  /\ UNCHANGED <<config, written, unstreamed, stream, cancels, lock, flags, buffer, timer, batch,
                 late, history>>

-----------------------------------------------------------------------------
(* CommandHistoryOutputWriter.write and close.                             *)

Left == written[stream] - captured[stream]
Remaining == MaxOutput - Both(captured)

Enters == lock = "task" \/ lock = "free"

\* write drops everything after a failure, and what exceeds the limit.
WriteNothing ==
  /\ at = "writing" /\ Enters
  /\ failed \/ Remaining = 0
  /\ truncated' = (truncated \/ ~failed)
  /\ at' = "running" /\ lock' = "free"
  /\ UNCHANGED <<config, written, unstreamed, stream, outcome, cancels, closed, failed, buffer,
                 timer, batch, late, history>>

\* Mutant: the limit is compared with what the buffer holds.
TakenIgnoringStored ==
  [captured EXCEPT ![stream] =
     @ + Min({Left, MaxOutput - Buffered(captured), QueueBytes - Buffered(captured)})]

\* What captured becomes when a turn of write's loop has taken what it may.
Taken ==
  [captured EXCEPT ![stream] = @ + Min({Left, Remaining, QueueBytes - Buffered(captured)})]

\* Mutant: the timer is started by a flush only.
TimerOnFlush(taken) == IF timer = "none" /\ periodic /\ Buffered(taken) >= FlushBytes
                         THEN "sleeping" ELSE timer

EnsureTimer(taken) == IF timer = "none" /\ periodic THEN "sleeping" ELSE timer

\* Mutant: only the bytes are looked at after some were taken.
WriteBuffersMany ==
  /\ at = "writing" /\ Enters
  /\ ~failed /\ Remaining > 0
  /\ Buffered(Taken) < FlushBytes
  /\ captured' = Taken /\ timer' = EnsureTimer(Taken)
  /\ truncated' = (truncated \/ Taken[stream] < written[stream])
  /\ at' = "running" /\ lock' = "free"
  /\ UNCHANGED <<config, written, unstreamed, stream, outcome, cancels, closed, failed, numbered,
                 indexes, batch, late, history>>

\* A turn of the loop that reaches no threshold is the last one: as the loop's flush
\* before it takes bytes, it finds nothing to do (BufferStaysBelowThresholds).
WriteBuffers ==
  /\ at = "writing" /\ Enters
  /\ ~failed /\ Remaining > 0
  /\ Buffered(Taken) < FlushBytes /\ ~QueueFull(Taken)
  /\ captured' = Taken /\ timer' = EnsureTimer(Taken)
  /\ truncated' = (truncated \/ Taken[stream] < written[stream])
  /\ at' = "running" /\ lock' = "free"
  /\ UNCHANGED <<config, written, unstreamed, stream, outcome, cancels, closed, failed, numbered,
                 indexes, batch, late, history>>

WriteFlushes ==
  /\ at = "writing" /\ Enters
  /\ ~failed /\ Remaining > 0
  /\ Buffered(Taken) >= FlushBytes \/ QueueFull(Taken)
  /\ captured' = Taken /\ timer' = EnsureTimer(Taken)
  /\ TakeChunks(Taken)
  /\ at' = "storing" /\ lock' = "task"
  /\ UNCHANGED <<config, written, unstreamed, stream, outcome, cancels, flags, late, history>>

Close ==
  /\ at = "closing" /\ lock = "free"
  /\ closed' = TRUE
  /\ TakeChunks(captured)
  /\ IF Buffered(captured) = 0 THEN at' = "joining" /\ UNCHANGED lock
                               ELSE at' = "draining" /\ lock' = "task"
  /\ UNCHANGED <<config, written, unstreamed, stream, outcome, cancels, failed, truncated,
                 captured, timer, late, history>>

\* Mutant: the exception of the timer is swallowed with its cancellation.
JoinSilently ==
  /\ at = "joining"
  /\ outcome' = outcome
  /\ timer' = "none" /\ at' = "ending"
  /\ UNCHANGED <<config, written, unstreamed, stream, cancels, lock, flags, buffer, batch, late,
                 history>>

\* close() cancels the timer and awaits it: one that died raises its exception here.
\* A cancellation of this wait is swallowed.
Join ==
  /\ at = "joining"
  /\ outcome' = IF timer = "died" THEN "error" ELSE outcome
  /\ timer' = "none" /\ at' = "ending"
  /\ UNCHANGED <<config, written, unstreamed, stream, cancels, lock, flags, buffer, batch, late,
                 history>>

-----------------------------------------------------------------------------
(* _flush_periodically.                                                    *)

TimerFlushes ==
  /\ timer = "sleeping" /\ lock = "free"
  /\ \/ /\ closed
        /\ timer' = "none"
        /\ UNCHANGED <<lock, batch, numbered, indexes>>
     \/ /\ ~closed /\ Buffered(captured) > 0
        /\ timer' = "flushing" /\ lock' = "timer"
        /\ TakeChunks(captured)
  /\ UNCHANGED <<config, command, flags, captured, late, history>>

-----------------------------------------------------------------------------
(* The append of a batch: _flush_locked from its await on.                 *)

\* The holder of _lock goes on when its append has returned.
Continues ==
  \/ /\ at = "storing"
     /\ at' = IF Left > 0 THEN "writing" ELSE "running"
     /\ lock' = IF Left > 0 THEN "task" ELSE "free"
     /\ UNCHANGED timer
  \/ /\ at = "draining"
     /\ at' = "joining" /\ lock' = "free"
     /\ UNCHANGED timer
  \/ /\ timer = "flushing"
     /\ timer' = "sleeping" /\ lock' = "free"
     /\ UNCHANGED at

\* append_output of the database store names columns its table does not have, so that
\* only the helper ever stores a batch.  It asks for the row of the operation, which may
\* have its end recorded already.
BatchStored ==
  /\ Continues
  /\ store = "helper" /\ status # "absent"
  /\ stored' = Insert(stored, batch) /\ batch' = NoChunks
  /\ UNCHANGED <<config, written, unstreamed, stream, outcome, cancels, flags, buffer, late,
                 status, storage>>

\* What the helper is still to do of an append that was given up.
GiveUp ==
  /\ late' \in {late} \cup (IF store = "helper" /\ status # "absent" THEN {late \cup {batch}}
                                                                  ELSE {})
  /\ batch' = NoChunks

\* HistoryDatabaseError, HistoryTransportError, or output_write_timeout_seconds.
BatchFails ==
  /\ Continues
  /\ failed' = TRUE
  /\ GiveUp
  /\ UNCHANGED <<config, written, unstreamed, stream, outcome, cancels, closed, truncated, buffer,
                 history>>

\* The helper's transport is the provider, whose errors nothing here catches.
BatchRaises ==
  /\ store = "helper"
  /\ \/ /\ at = "storing"
        /\ at' = "closing" /\ outcome' = "error"
        /\ UNCHANGED timer
     \/ /\ at = "draining"
        /\ at' = "ending" /\ outcome' = "error"
        /\ UNCHANGED timer
     \/ /\ timer = "flushing"
        /\ timer' = "died"
        /\ UNCHANGED <<at, outcome>>
  /\ lock' = "free"
  /\ GiveUp
  /\ UNCHANGED <<config, written, unstreamed, stream, cancels, flags, buffer, history>>

BatchLands ==
  \E b \in late :
    /\ late' = late \ {b}
    /\ stored' = Insert(stored, b)
    /\ UNCHANGED <<config, command, lock, flags, buffer, timer, batch, status, storage>>

-----------------------------------------------------------------------------
-----------------------------------------------------------------------------
(* CommandHandle.cancel: CancelledError where the command's task waits.    *)

Cancels ==
  /\ cancels < MaxCancels
  /\ cancels' = cancels + 1
  /\ outcome' = "cancelled"

CancelCommand ==
  /\ Cancels
  /\ \/ /\ at = "running" \/ (at = "writing" /\ lock = "timer")
        /\ at' = "closing"
        /\ UNCHANGED <<lock, batch, late>>
     \/ /\ at = "storing"
        /\ at' = "closing" /\ lock' = "free"
        /\ GiveUp
     \/ /\ at = "closing" /\ lock = "timer"
        /\ at' = "ending"
        /\ UNCHANGED <<lock, batch, late>>
     \/ /\ at = "draining"
        /\ at' = "ending" /\ lock' = "free"
        /\ GiveUp
  /\ UNCHANGED <<config, written, unstreamed, stream, flags, buffer, timer, history>>

-----------------------------------------------------------------------------
(* The record of the end, with the output the writer did not store.        *)

\* BoundedHeadTailBuffer: what the command's result holds of a stream.
Bounded(n) ==
  IF n <= HeadBytes + TailBytes THEN Bytes(1, n)
                                ELSE Bytes(1, HeadBytes) \o Bytes(n + 1 - TailBytes, n)

UseTerminalFallback == failed \/ Both(captured) = 0

StorageState == IF failed THEN "partial"
                ELSE IF truncated THEN "truncated_by_policy" ELSE "complete"

Shown(s) == IF UseTerminalFallback THEN Bounded(written[s]) ELSE <<>>

\* _command_output_record: the captured streams share the limit, stdout first.
Share(s) == IF s \notin capture THEN 0
            ELSE IF s = "stderr" /\ "stdout" \in capture
              THEN Min({Len(Shown(s)), MaxOutput - Min({Len(Shown("stdout")), MaxOutput})})
              ELSE Min({Len(Shown(s)), MaxOutput})

HelperRecords ==
  LET kept == [s \in Streams |-> SubSeq(Shown(s), 1, Share(s))]
      complete == ~failed /\ ~truncated /\ \A s \in capture : Share(s) = Len(Shown(s))
  IN  /\ stored' = Insert(stored, [s \in Streams |-> Chop(kept[s], 0)])
      /\ storage' = IF \A s \in Streams : kept[s] = <<>> THEN StorageState
                    ELSE IF complete THEN "complete" ELSE "truncated_by_policy"

\* _append_output: no limit, and every stream.
DatabaseRecords ==
  /\ stored' = Insert(stored, [s \in Streams |-> Chop(Shown(s), 0)])
  /\ storage' = StorageState

\* The record of an error says nothing of the output, which the helper takes for
\* complete; that of a cancellation leaves the command's row as it is.
Records ==
  /\ status = "started" /\ status' = outcome
  /\ IF outcome = "result" THEN IF store = "helper" THEN HelperRecords ELSE DatabaseRecords
                            ELSE UNCHANGED <<stored, storage>>

\* The append is done, or fails with a history error the pipeline ignores, or with an
\* error of the provider that takes the place of what the command returned, or is
\* cancelled; of one that is not done to its end nobody knows whether it took effect.
End ==
  /\ at = "ending"
  /\ at' = "over"
  /\ Records \/ UNCHANGED history
  /\ \/ /\ outcome' \in {outcome} \cup (IF store = "helper" THEN {"error"} ELSE {})
        /\ UNCHANGED cancels
     \/ Cancels
  /\ UNCHANGED <<config, written, unstreamed, stream, lock, flags, buffer, timer, batch, late>>

-----------------------------------------------------------------------------
Next ==
  \/ \E s \in Streams : Emit(s)
  \/ Finish
  \/ Break
  \/ WriteNothing
  \/ WriteBuffers
  \/ WriteFlushes
  \/ Close
  \/ Join
  \/ TimerFlushes
  \/ BatchStored
  \/ BatchFails
  \/ BatchRaises
  \/ BatchLands
  \/ CancelCommand
  \/ End

\* An append returns, if only by its time limit, and a task whose wait is over runs.
\* Nothing makes the command write or end, or a late append land.
Fairness ==
  WF_vars(WriteNothing \/ WriteBuffers \/ WriteFlushes \/ Close \/ Join \/ TimerFlushes
          \/ BatchStored \/ BatchFails \/ BatchRaises \/ End)

Spec == Init /\ [][Next]_vars /\ Fairness
-----------------------------------------------------------------------------
(* Properties.                                                             *)

\* The bytes a stream has in the history: one for every place in a chunk.
StoredAt(s) == UNION {{i} \X DOMAIN stored[s][i] : i \in DOMAIN stored[s]}
StoredBytes(s) == Cardinality(StoredAt(s))

\* A command recorded with its result as completely stored is: every byte of its captured
\* streams is in the history.  An append that fails in the periodic task, a cancelled one
\* and one that raises must all keep the record from saying so.  Except for output that
\* came with the result only, of which the bounded result is all the history gets.
CompleteMeansAll ==
  (status = "result" /\ storage = "complete" /\ unstreamed = {}) =>
    \A s \in capture : StoredBytes(s) = written[s]

\* As long as no append has failed, the sandbox keeps no more than
\* max_operation_output_bytes of a command, both streams and both ways together.
LimitHolds ==
  (store = "helper" /\ ~failed) => StoredBytes("stdout") + StoredBytes("stderr") <= MaxOutput

\* Who takes the lock finds the buffer below its thresholds, wherever the holder before
\* was cancelled or failed: write never waits for room before it takes a byte.
BufferStaysBelowThresholds ==
  (lock = "free" \/ at = "writing") =>
    Buffered(captured) < FlushBytes /\ ~QueueFull(captured)

InOrder ==
  \A s \in Streams : \A i, j \in DOMAIN stored[s] :
    i < j => stored[s][i][Len(stored[s][i])] < stored[s][j][1]

\* The chunks of a stream, read by index, repeat no byte and are in order, the output the
\* writer stored and the bounded output recorded at the end taken together.  Only an
\* append that was given up and takes effect after that record can disorder them.
OnlyLateOutputDisorders ==
  [][InOrder => (InOrder' \/ (status # "started" /\ Cardinality(late') < Cardinality(late)))]_vars

\* With output_flush_interval_ms no output stays in the buffer of a command that writes
\* nothing more, unless the periodic task has died of an error of the provider.
BufferIsFlushed ==
  (periodic /\ Buffered(captured) > 0) ~> (Buffered(captured) = 0 \/ timer = "died")

\* What README.md:180 says: with capture_stdout and capture_stderr the complete output of
\* a command is saved up to the configured limit.  Here of the database store, for a
\* command whose output was streamed, that ended with a result and was recorded.
DatabaseKeepsTheOutput ==
  (store = "database" /\ status = "result" /\ unstreamed = {} /\ Both(written) <= MaxOutput) =>
    \A s \in capture : StoredBytes(s) = written[s]
=============================================================================
