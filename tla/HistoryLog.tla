----------------------------- MODULE HistoryLog -----------------------------
(***************************************************************************)
(* The history of one sandbox (helper/source/history_helper.py): the table *)
(* of operations, the log of their changes, consumers that follow the log, *)
(* and the cleanup.  Every command of the helper is a process of its own   *)
(* with its own connection.  A SELECT outside a transaction sees a         *)
(* snapshot of its own; a transaction starts at the first statement that   *)
(* writes and is one step.  The host (history/sandbox.py) repeats a batch  *)
(* whose answer it did not get, and the process of the earlier attempt may *)
(* still be running then.                                                  *)
(***************************************************************************)
EXTENDS Naturals, Sequences, FiniteSets, FiniteSetsExt

CONSTANTS
  Events,     \* the event ids of operations
  Consumers,  \* readers of the change log
  Cleaners,   \* processes that run the cleanup command
  NoEvent,    \* marks a number of the log that was used up without a row
  NoOwner,    \* nobody holds the cleanup lease
  Attempts,   \* sync_retry_attempts + 1
  MaxSeq,     \* bound on the numbers of the log
  MaxStrays   \* bound on the processes that run when the host stops waiting for one

ASSUME NoEventAssumption == NoEvent \notin Events /\ NoOwner \notin Cleaners
ASSUME BoundsAssumption == Attempts \in Nat \ {0} /\ MaxSeq \in Nat /\ MaxStrays \in Nat

VARIABLES
  host,      \* what the host does about each operation
  batches,   \* helper processes that apply a record
  events,    \* history_events, with the storage state of command_executions
  log,       \* every number of history_changes handed out so far, and what for
  kept,      \* the numbers that are in history_changes now
  ack,       \* history_consumers.acknowledged_seq
  standing,  \* whether a consumer is in history_consumers, and was there lately
  cursor,    \* the last change each consumer has read
  seen,      \* the changes it has been given, as far as they are still in the log
  lease,     \* the row "history:cleanup" of history_leases
  cleaner    \* the cleanup processes

recording == <<host, batches>>
tables == <<events, log, kept>>
consuming == <<ack, standing, cursor, seen>>
cleaning == <<lease, cleaner>>
vars == <<recording, tables, consuming, cleaning>>

Kinds == {"created", "output", "completed"}
Burnt == <<NoEvent, "burnt">>

NoCleanup == [at |-> "idle", protected |-> 0, counted |-> {}, chosen |-> {},
              horizon |-> 0, overrun |-> FALSE]

Init ==
  /\ host = [e \in Events |-> [stage |-> "created", waiting |-> FALSE, tries |-> 0,
                               complete |-> TRUE, told |-> FALSE]]
  /\ batches = {}
  /\ events = [e \in Events |-> "none"]
  /\ log = <<>>
  /\ kept = {}
  /\ ack = [c \in Consumers |-> 0]
  /\ standing = [c \in Consumers |-> "unknown"]
  /\ cursor = [c \in Consumers |-> 0]
  /\ seen = [c \in Consumers |-> {}]
  /\ lease = [owner |-> NoOwner, expired |-> FALSE]
  /\ cleaner = [k \in Cleaners |-> NoCleanup]

\* Changes of an operation that are in the log now, and the latest of them.
ChangesOf(e) == {s \in kept : log[s][1] = e}
LastChange(e) == Max({0} \cup ChangesOf(e))

-----------------------------------------------------------------------------
(* The host records an operation: its start, its output, its end.          *)

\* What the record of the end may say of the output.  When some of it was lost it may
\* still be declared complete or truncated_by_policy: a failed command's result says
\* nothing of it, and output that comes with the result is taken for all there was.
Declared(e, ok) ==
  IF host[e].stage = "output" /\ ~ok THEN BOOLEAN ELSE {host[e].complete}

\* The host goes on to the next record of the operation; ok: this one was recorded.
\* Without STRICT_START an operation runs although its start was not recorded.
MoveOn(e, ok) ==
  \E next \in CASE host[e].stage = "created" /\ ok  -> {"output"}
                [] host[e].stage = "created" /\ ~ok -> {"output", "over"}
                [] host[e].stage = "output"         -> {"completed"}
                [] host[e].stage = "completed"      -> {"over"},
     complete \in Declared(e, ok) :
    host' = [host EXCEPT ![e] =
               [stage |-> next, waiting |-> FALSE, tries |-> 0, complete |-> complete,
                told |-> @.stage = "completed" /\ ok]]

\* An attempt to apply the record the host is at.
Send(e) ==
  /\ host[e].stage \in Kinds
  /\ ~host[e].waiting
  /\ host' = [host EXCEPT ![e].waiting = TRUE, ![e].tries = @ + 1]
  /\ batches' = batches \cup {[event |-> e, kind |-> host[e].stage,
                               try |-> host[e].tries + 1, step |-> "arrived"]}
  /\ UNCHANGED <<tables, consuming, cleaning>>

\* The operation has no output to record.
SkipOutput(e) ==
  /\ host[e].stage = "output"
  /\ host[e].tries = 0
  /\ MoveOn(e, TRUE)
  /\ UNCHANGED <<batches, tables, consuming, cleaning>>

\* The answer does not come: the host repeats the batch, or it gives up (no attempts
\* left, an error that is not retryable, the writer's timeout, cancellation).
NoAnswer(e) ==
  /\ host[e].waiting
  /\ Cardinality(batches) <= MaxStrays
  /\ \/ host[e].tries < Attempts /\ host' = [host EXCEPT ![e].waiting = FALSE]
     \/ MoveOn(e, FALSE)
  /\ UNCHANGED <<batches, tables, consuming, cleaning>>

\* The process ends: its answer ends the host's wait unless the host waits for another
\* one or the answer is lost.
Answer(b, ok) ==
  /\ batches' = batches \ {b}
  /\ \/ /\ host[b.event].waiting
        /\ host[b.event].stage = b.kind /\ host[b.event].tries = b.try
        /\ MoveOn(b.event, ok)
     \/ UNCHANGED host

-----------------------------------------------------------------------------
(* apply: one record of an operation.                                      *)

\* _require_event outside the transaction.
FindsEvent(b) ==
  /\ b.kind # "created" /\ b.step = "arrived"
  /\ events[b.event] # "none"
  /\ batches' = (batches \ {b}) \cup {[b EXCEPT !.step = "found"]}
  /\ UNCHANGED <<host, tables, consuming, cleaning>>

MissesEvent(b) ==
  /\ b.kind # "created" /\ b.step = "arrived"
  /\ events[b.event] = "none"
  /\ Answer(b, FALSE)
  /\ UNCHANGED <<tables, consuming, cleaning>>

\* INSERT OR IGNORE into history_changes: the change id of a repeated batch is the same.
\* An ignored insert uses up a number.
AppendChange(e, kind) ==
  /\ Len(log) < MaxSeq
  /\ IF \E s \in kept : log[s] = <<e, kind>>
       THEN log' = Append(log, Burnt) /\ UNCHANGED kept
       ELSE log' = Append(log, <<e, kind>>) /\ kept' = kept \cup {Len(log) + 1}

\* Mutant: INSERT OR REPLACE.
ApplyStartedReplacing(b) ==
  /\ b.kind = "created"
  /\ events' = [events EXCEPT ![b.event] = "started"]
  /\ AppendChange(b.event, "created")
  /\ Answer(b, TRUE)
  /\ UNCHANGED <<consuming, cleaning>>

ApplyStarted(b) ==
  /\ b.kind = "created"
  /\ events' = [events EXCEPT ![b.event] = IF @ = "none" THEN "started" ELSE @]
  /\ AppendChange(b.event, "created")
  /\ Answer(b, TRUE)
  /\ UNCHANGED <<consuming, cleaning>>

\* The chunks refer to the operation: without it the insert fails.
ApplyOutput(b) ==
  /\ b.kind = "output" /\ b.step = "found"
  /\ IF events[b.event] = "none"
       THEN Answer(b, FALSE) /\ UNCHANGED <<log, kept>>
       ELSE Answer(b, TRUE) /\ AppendChange(b.event, "output")
  /\ UNCHANGED <<events, consuming, cleaning>>

\* The UPDATE finds no row when the operation has been deleted since FindsEvent; the
\* change is appended all the same.
ApplyCompleted(b) ==
  /\ b.kind = "completed" /\ b.step = "found"
  /\ events' = [events EXCEPT ![b.event] =
                  CASE @ = "none" -> @
                    [] @ # "none" /\ host[b.event].complete  -> "complete"
                    [] @ # "none" /\ ~host[b.event].complete -> "partial"]
  /\ AppendChange(b.event, "completed")
  /\ Answer(b, TRUE)
  /\ UNCHANGED <<consuming, cleaning>>

\* The process is killed or its transaction fails.
BatchFails(b) ==
  /\ Answer(b, FALSE)
  /\ UNCHANGED <<tables, consuming, cleaning>>

Applying(b) ==
  \/ FindsEvent(b) \/ MissesEvent(b) \/ BatchFails(b)
  \/ ApplyStarted(b) \/ ApplyOutput(b) \/ ApplyCompleted(b)

-----------------------------------------------------------------------------
(* query and ack.                                                          *)

\* The bounds that query_changes reads first only tell reset_required: that the cursor is
\* older than the oldest change left.

\* The rows of the second SELECT: the log joined with the operations.
RowsAfter(n) == {s \in kept : s > n /\ log[s][1] \in Events /\ events[log[s][1]] # "none"}

\* Mutant: next_change_seq is the end of the log, not of the page.
ReadRowsToTheEnd(c) ==
  /\ \E last \in RowsAfter(cursor[c]) :
       seen' = [seen EXCEPT ![c] = @ \cup {s \in RowsAfter(cursor[c]) : s <= last}]
  /\ cursor' = [cursor EXCEPT ![c] = Len(log)]
  /\ UNCHANGED <<recording, tables, ack, standing, cleaning>>

\* The changes after the cursor, as many as fit; next_change_seq.
ReadRows(c) ==
  LET rows == RowsAfter(cursor[c]) IN
  /\ \/ rows = {} /\ UNCHANGED <<cursor, seen>>
     \/ \E last \in rows :
          /\ cursor' = [cursor EXCEPT ![c] = last]
          /\ seen' = [seen EXCEPT ![c] = @ \cup {s \in rows : s <= last}]
  /\ UNCHANGED <<recording, tables, ack, standing, cleaning>>

\* acknowledge: of anything the consumer has read; a repeated call may come late.
Acknowledge(c) ==
  /\ \E n \in 0 .. cursor[c] : ack' = [ack EXCEPT ![c] = Max({@, n})]
  /\ standing' = [standing EXCEPT ![c] = "active"]
  /\ UNCHANGED <<recording, tables, cursor, seen, cleaning>>

\* consumer_active_ttl_days pass without an acknowledgement.
FallsSilent(c) ==
  /\ standing[c] = "active"
  /\ standing' = [standing EXCEPT ![c] = "silent"]
  /\ UNCHANGED <<recording, tables, ack, cursor, seen, cleaning>>

Consuming(c) == ReadRows(c) \/ Acknowledge(c) \/ FallsSilent(c)

-----------------------------------------------------------------------------
(* cleanup.                                                                *)

\* The process goes on to release its lease.
Ends(k) ==
  cleaner' = [cleaner EXCEPT
                ![k] = [NoCleanup EXCEPT !.at = "ending", !.overrun = cleaner[k].overrun]]

\* _cleanup_lease_acquire: one upsert.  A process that does not get the lease ends.
AcquireLease(k) ==
  /\ cleaner[k].at = "idle"
  /\ lease.owner = NoOwner \/ lease.expired
  /\ lease' = [owner |-> k, expired |-> FALSE]
  /\ cleaner' = [cleaner EXCEPT ![k].at = "reading"]
  /\ UNCHANGED <<recording, tables, consuming>>

Active == {c \in Consumers : standing[c] = "active"}

\* _minimum_active_acknowledged_seq; without active consumers there is no limit.
ReadAcks(k) ==
  /\ cleaner[k].at = "reading"
  /\ cleaner' = [cleaner EXCEPT
       ![k].at = "choosing", ![k].counted = Active,
       ![k].protected = IF Active = {} THEN MaxSeq ELSE Min({ack[c] : c \in Active})]
  /\ UNCHANGED <<recording, tables, consuming, lease>>

\* Mutant: running operations are candidates too.
CandidatesOfAnyStatus(limit) ==
  {e \in Events : events[e] # "none" /\ LastChange(e) <= limit}

\* Mutant: the first change of an operation decides, not the last.
CandidatesByStart(limit) ==
  {e \in Events : events[e] = "complete" /\ Min({MaxSeq} \cup ChangesOf(e)) <= limit}

\* _cleanup_candidates.
Candidates(limit) == {e \in Events : events[e] = "complete" /\ LastChange(e) <= limit}

\* The first SELECT of candidates, in no transaction.  Which of them are too old, or
\* too many for the database, is left open.
Choose(k) ==
  /\ cleaner[k].at = "choosing"
  /\ \E chosen \in SUBSET Candidates(cleaner[k].protected) \ {{}} :
       cleaner' = [cleaner EXCEPT ![k].at = "deleting", ![k].chosen = chosen,
                                  ![k].horizon = Len(log)]
  /\ UNCHANGED <<recording, tables, consuming, lease>>

\* Mutant: the changes are cut off the log, but the operations stay in the table.
DeleteChangesOnly(gone) ==
  /\ kept' = kept \ UNION {ChangesOf(e) : e \in gone}
  /\ UNCHANGED events

\* _delete_operations.
DeleteOperations(gone) ==
  /\ kept' = kept \ UNION {ChangesOf(e) : e \in gone}
  /\ events' = [e \in Events |-> IF e \in gone THEN "none" ELSE events[e]]

\* The transaction: what was chosen, and what the loop over max_bytes finds in it.
Delete(k) ==
  /\ cleaner[k].at = "deleting"
  /\ \E more \in SUBSET Candidates(cleaner[k].protected) :
       DeleteOperations(cleaner[k].chosen \cup more)
  /\ seen' = [c \in Consumers |-> seen[c] \cap kept']
  /\ Ends(k)
  /\ UNCHANGED <<recording, log, ack, standing, cursor, lease>>

\* Cleanup is not due, nothing is to be deleted, or a statement fails.
Stop(k) ==
  /\ cleaner[k].at \in {"reading", "choosing", "deleting"}
  /\ Ends(k)
  /\ UNCHANGED <<recording, tables, consuming, lease>>

\* Mutant: the lease is released whoever holds it.
ReleaseAnyLease(k) ==
  /\ cleaner[k].at = "ending"
  /\ lease' = [owner |-> NoOwner, expired |-> FALSE]
  /\ cleaner' = [cleaner EXCEPT ![k] = NoCleanup]
  /\ UNCHANGED <<recording, tables, consuming>>

\* finally: the process deletes its own lease.
ReleaseLease(k) ==
  /\ cleaner[k].at = "ending"
  /\ lease' = IF lease.owner = k THEN [owner |-> NoOwner, expired |-> FALSE] ELSE lease
  /\ cleaner' = [cleaner EXCEPT ![k] = NoCleanup]
  /\ UNCHANGED <<recording, tables, consuming>>

\* The process is killed and leaves its lease behind.
Killed(k) ==
  /\ cleaner[k].at # "idle"
  /\ cleaner' = [cleaner EXCEPT ![k] = NoCleanup]
  /\ UNCHANGED <<recording, tables, consuming, lease>>

\* Five minutes have passed.
LeaseExpires ==
  /\ lease.owner # NoOwner /\ ~lease.expired
  /\ lease' = [lease EXCEPT !.expired = TRUE]
  /\ cleaner' = [cleaner EXCEPT ![lease.owner].overrun = cleaner[lease.owner].at # "idle"]
  /\ UNCHANGED <<recording, tables, consuming>>

Cleaning(k) ==
  \/ AcquireLease(k) \/ ReadAcks(k) \/ Choose(k) \/ Delete(k)
  \/ Stop(k) \/ ReleaseLease(k) \/ Killed(k)

-----------------------------------------------------------------------------
Next ==
  \/ \E e \in Events : Send(e) \/ SkipOutput(e) \/ NoAnswer(e)
  \/ \E b \in batches : Applying(b)
  \/ \E c \in Consumers : Consuming(c)
  \/ \E k \in Cleaners : Cleaning(k)
  \/ LeaseExpires

Spec == Init /\ [][Next]_vars

-----------------------------------------------------------------------------
(* Properties.                                                             *)

\* Types and bounds.  The host makes at most Attempts attempts, an expired lease has an
\* owner, and what a cleanup has chosen it has chosen while it holds a place to go on from.
TypeOK ==
  /\ host \in [Events -> [stage : Kinds \cup {"over"}, waiting : BOOLEAN,
                          tries : 0 .. Attempts, complete : BOOLEAN, told : BOOLEAN]]
  /\ batches \subseteq [event : Events, kind : Kinds, try : 1 .. Attempts,
                        step : {"arrived", "found"}]
  /\ events \in [Events -> {"none", "started", "complete", "partial"}]
  /\ log \in Seq((Events \X Kinds) \cup {Burnt})
  /\ Len(log) <= MaxSeq
  /\ kept \subseteq DOMAIN log
  /\ ack \in [Consumers -> 0 .. MaxSeq]
  /\ standing \in [Consumers -> {"unknown", "active", "silent"}]
  /\ cursor \in [Consumers -> 0 .. MaxSeq]
  /\ seen \in [Consumers -> SUBSET DOMAIN log]
  /\ lease \in [owner : Cleaners \cup {NoOwner}, expired : BOOLEAN]
  /\ cleaner \in [Cleaners -> [at : {"idle", "reading", "choosing", "deleting", "ending"},
                               protected : 0 .. MaxSeq, counted : SUBSET Consumers,
                               chosen : SUBSET Events, horizon : 0 .. MaxSeq,
                               overrun : BOOLEAN]]

\* A finished operation is in the table together with the changes that tell of its start
\* and its end: apply writes both in one transaction, _delete_operations removes both in
\* one, and neither a repeated batch nor one that arrives after the cleanup parts them.
DoneOperationsAreLogged ==
  \A e \in Events : events[e] \in {"complete", "partial"} =>
    \A kind \in {"created", "completed"} : \E s \in kept : log[s] = <<e, kind>>

\* A late batch has brought the operation back after the cleanup deleted it.
Revived(e) == Cardinality({s \in DOMAIN log : log[s] = <<e, "created">>}) > 1

\* An operation of which the host was told that its end is recorded does not show as
\* running again: repeats of the earlier records leave it alone.  Only one that the
\* cleanup has deleted may be brought back by a late repeat of its start.
EndsAreFinal == \A e \in Events : host[e].told /\ events[e] = "started" => Revived(e)

\* Two cleanups are under way together only if one has held the lease beyond its time:
\* releasing or losing a lease never lets a third one in.
CleanupsExclude ==
  \A j, k \in Cleaners :
    /\ cleaner[j].at # "idle" /\ cleaner[k].at # "idle" /\ j # k
    => cleaner[j].overrun \/ cleaner[k].overrun

\* A consumer that goes on from next_change_seq does not pass over a change: whatever is
\* in the log up to its cursor it was given, although the bounds and the rows of a query
\* are read at different times and a page may end anywhere.  The exception is the end
\* of an operation recorded while there was no such operation, which is seen by nobody.
NothingBehindTheCursor ==
  \A c \in Consumers : \A s \in kept :
    /\ s <= cursor[c]
    /\ \E t \in kept : t <= s /\ log[t] = <<log[s][1], "created">>
    => s \in seen[c]

\* Cleanup respects acknowledgements: a change that it removes was acknowledged by every
\* consumer it counted as active, or was appended after it had chosen the operation,
\* however long ago it read the acknowledgements.
ProtectedChangesStay ==
  [][\A k \in Cleaners : cleaner[k].at = "deleting" /\ cleaner'[k].at = "ending" =>
       \A s \in kept \ kept', c \in cleaner[k].counted :
         s <= ack[c] \/ s > cleaner[k].horizon]_vars

\* Cleanup removes no running operation, unless a late batch has brought it back between
\* the choice and the deletion.
RunningOperationsStay ==
  [][\A e \in Events : events[e] = "started" /\ events'[e] = "none" => Revived(e)]_vars
=============================================================================
