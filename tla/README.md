# A verification project for agent-sandbox-backends

`agent-sandbox-backends` is an asyncio SDK through which AI agents use a remote sandbox:
they run commands, read and write files, upload directories, pause and delete the sandbox,
and every operation is recorded in a history that may live in a SQLite database inside the
sandbox itself. This directory holds TLA+ models of its core, the TLC runs that check them
on small instances, and theorems about them checked by TLAPS for every instance.
`PROJECT.json` maps each definition to the lines of the source it stands for, lists the
runs, the hazards and the mutants that show each property can fail.

Paths below are relative to `src/agent_sandbox_backends/`.

## 1. The system

| component | state it keeps | operations | interacts with |
|---|---|---|---|
| `application/backend.py` `SandboxBackend` | `_closed`, `_deleting`, `_close_lock`, five limiters, the gate, the path locks, the TTL task | `info`, `capabilities`, `pause`, `resume`, file operations, `upload_local`, `execute`, `start_command`, `close` | limiter, then path lock, then pipeline, then provider; the allocator through `close_coordinator` |
| `concurrency/activity.py` `OperationActivityGate` | `_active`, `_closing`, a condition | `operation()`, `begin_close`, `reopen` | entered by the pipeline, drained by `close()` |
| `concurrency/limiter.py` `QueueLimiter` | a semaphore | `slot()` with timeout | |
| `concurrency/keyed_rw_lock.py` `KeyedRWLock` | one reference-counted state per key in use | `read`, `write` with timeout | file operations, uploads |
| `concurrency/lease.py` `LeaseManager` | a handle and a renewal task per hold | `hold` | the lease table of the history helper |
| `application/operation_pipeline.py` | nothing of its own | `run`: gate, STARTED event, retries, terminal event, renewal of the sandbox's expiry | history store, provider |
| `application/output_writer.py` | output buffers, chunk indices, a flush timer | `write`, `close` | history store |
| `application/allocator.py` | active backends, the shared reference | `allocate`, `_release`, `close` | creates backends, coordinates their close |
| `upload/` | staged and previous files of one upload | scan, archive or per-file upload, rollback | upload helper in the sandbox, or the backend's own file operations |
| `helper/source/upload_helper.py` | the staging directory, `.rollback` | `extract`, `verify`, `commit`, `cleanup`, each a process of its own | started by `upload/provider_transport.py` |
| `helper/source/history_helper.py` | SQLite: events, output chunks, change log, consumers, configuration, leases | batches, queries, acknowledgement, cleanup, compare-and-swap, leases, each a process of its own | started by `history/provider_transport.py` |
| `history/` stores | connections, retry counters | `append`, `append_output`, queries | the helper, a local SQLite file, a SQL server, memory |
| `history/bootstrap_outbox.py` | one file per event | `put`, `events`, `mark_imported`, `remove` | replayed by `history/sandbox.py` |
| `providers/` | mock: everything in memory; OpenSandbox: caches of SDK objects | the `SandboxProvider` protocol | |
| `integrations/deepagents/` | an event loop in a thread | synchronous calls bridged to the loop | backend |

What is hard here is not one algorithm but the places where these meet: asyncio tasks that
interleave at every await, timeouts and cancellations in each of those awaits, requests to a
provider that fail after they took effect, helper processes that are killed or outlive the
host's interest in them, and the closing of the whole under operations that still run.

What makes each part correct:

* backend, gate, limiters: slots and gate entries balance on every path; nothing is admitted
  after a successful close; the sandbox is deleted only when it is drained, and a close that
  reports success has deleted it; a close that fails has reopened the gate and leaves no mark
  of a deletion, except over a sandbox that is gone and after a cancelled deletion (and with
  the TTL policy a close whose drain fails raises and has closed the backend); close and
  waiting callers get on although operations may never end.
* path lock: readers and writers exclude each other per path, writers are not starved, nobody
  sleeps without somebody to wake him (but readers by themselves under an older Python), and
  idle paths leave nothing behind.
* archive upload: a success is complete; the conflict policy protects existing files
  whatever fails; a failed commit restores the target.
* history log: late repeats of a change do not disturb what is recorded; a consumer that
  follows the change log and acknowledges what it has read misses nothing; cleanup respects acknowledgements and limits.
* leases: one owner at a time may trust a lease, up to the second in which it expires, and one
  who has lost it learns of it.
* output writer, pipeline: chunks are numbered without gaps, limits hold, an output declared
  complete is complete; each operation's record reaches a terminal state or says why not.
* per-file upload: a failure restores what was there, a success is in place, and the conflict
  policy holds, beside others that write the same files.
* allocator, outbox: a shared sandbox is deleted when its last user releases it and not
  before; no sandbox is forgotten; no buffered event is lost.

## 2. What is modelled

### BackendLifecycle

One backend with its gate and limiters, callers in `Tasks`, callers of `close()` in
`Closers`, and the task of `CleanupPolicy.TTL`. An action is the code between two awaits that
really suspend: asyncio switches tasks nowhere else, and the gate's condition is held across
no suspension, so entering and leaving the gate are parts of the steps around them.

| code | model |
|---|---|
| `OperationActivityGate._closing`, `_active` | `closing`, `active` |
| `SandboxBackend._closed`, `_deleting`, `_close_lock` | `closed`, `deleting`, `closeLock` |
| free slots of `_lifecycle`, and of one of the file, command and upload limiters | `free["lifecycle"]`, `free["work"]` |
| a call: open check; slot; path lock; gate; provider; reconciliation; exit | `Call`, `TakeSlot`, `Admit` / `Refuse` / `GiveUp`, `Succeed` / `Fail` / `Abort`, `Reconcile`, `Leave` |
| `close()`: lock; drain; policy; deletion; resources | `CallClose` ... `BeginClose`, `Drained` / `DrainTimeout` / `DrainCancelled` with `ApplyPolicy`, the deletion steps, `CloseResources` |
| `_delete_owned_sandbox`, `_delete_with_reconciliation` | `DeleteTakesSlot` / `SlotTimeout`, `HistoryRefuses`, `ProviderDeletes` / `ProviderFails`, `CheckFindsNothing` / `CheckFails`, `AfterDeletion`, `RenewFails` |
| `_delete_after_ttl` | the deleter `TTL`: `TTLFires`, the deletion steps, `TTLEnds` |
| cancellation of the caller | `GiveUp`, `Abort`, `LeaveLockQueue`, `DrainCancelled`, `DeletionCancelled` |

`cleanup` ranges over the policies and over `coordinated`, which is `NEVER` with a
`close_coordinator` (the allocator's) that may or may not ask for the deletion. `faults` is a
history variable that says what went wrong since the latest close began, and for ever that a
deletion was cancelled (`forsaken`); the properties need it to tell an error that was to be
expected from one that was not. A pause, resume or delete whose answer is an error, or that is
cancelled or times out, has taken effect, never will, or is still under way (`Uncertain`):
`late` holds the requests that may reach the sandbox at any later time (`Lands`), also after
the reconciliation has looked, after the slot was given back and after `close()`.

Abstractions: the backend is the only one that acts on its sandbox (no second backend, no
expiry on the server); what a file operation, a command or an upload does in the provider is
success or failure; the file operations that a per-file upload issues through the backend are
calls of other tasks; a failing renewal after an ordinary operation is a failure of that
operation. A coordinator's own lock and the file, command and upload limiters besides each
other add no behaviour that the single work pool does not have.

### KeyedRWLock and ReadersWriters

`KeyedRWLock` has one action from `read()`/`write()` to the block or the first wait (`Ask`),
one per evaluation of the predicate after a wake-up (`Granted`, `BackToSleep`), the end of a
wait by timeout or cancellation (`GiveUp`) and the release. The `_LockState` objects are
explicit: `States` are addresses, `states` the dictionary, and an address that nobody refers
to may be used again. `handsOn` says whether this Python's `Condition.wait()` notifies another
waiter when it is cancelled, which recent versions do and 3.11.6 does not.

`ReadersWriters` is the abstract lock: who holds and who waits for each key, that a writer
holds it alone and that no reader starts while a writer waits. `KeyedRWLock` is shown to
implement it under the mapping that forgets the states and counts (`KeepsThePromises`).

### UploadCommit

The archive upload: the host in `upload/provider_transport.py` and the commit process in
`upload_helper.py`. Every file operation of the commit is a step that may fail, the process
may be killed between any two of them, and the host may lose contact and start the cleanup
while the commit still runs (`LoseContact`, `SweepStarts`, `Sweep`; a sweep under way follows
the staging directory when it is renamed). A file of the target is absent, `old`, or `new`,
which is the uploaded content; `old` versions of different files need not be told apart.

| code | model |
|---|---|
| `extract_verified`, `verify_staging` | `Extract`, `Verify` |
| `commit_staging`: checks and plan | `Plan`, `Refuse`, with `ToReplace` and `Acceptable` |
| its loop: backup, copy, journal | `Backup`, `Copy`, `LoopFails`, `LoopEnds` |
| its `except` and `finally` | `Undo`, `RollbackEnds`, `Discard` |
| `_commit_staging_atomic` | `SetAside`, `MoveIn`, `MoveFails`, `Restore`, `Drop` |
| `cleanup_staging` | `SweepStarts`, `Sweep`, `CleanupEnds` |

Abstractions: a target directory without files counts as absent; files of the target that the
archive does not name and left-over `.uploading` files are not modelled; the loop takes the
files in any order (the code: in that of the manifest); only the commit, not the extraction,
may run on after the host has lost contact; there is no other writer of the target.

### UploadService

`UploadService.upload` as a whole, EXTENDING `UploadCommit`: with `bulk` the upload is the
archive of `UploadCommit`, otherwise it goes file by file through the backend's own file
operations, beside others that write and delete the same files (`OtherWrites`): the upload
locks `upload:<target>`, its file operations lock their own path, each for itself.

| code | model |
|---|---|
| `_should_use_archive`, `_upload_archive` | `bulk`; the steps of `UploadCommit` |
| the staging loop, `partial_success` | `Stages`, `StagingFails`, `AllStaged` with `Unchanged` |
| the commit loop: read, `_conflict_action`, write, check | `Reads` with `ConflictAction`, `Writes`, `Checks`, `CommitFails`, `AllCommitted` |
| `previous_files` | `previous`, `"unread"` for a file that is not in it |
| `_rollback` | `WritesBack`, `RolledBack` |
| `except`, `finally`, `_cleanup_staging` | `Cancelled`, `Tidies`, `Tidied` |

`theirs` is what the target would hold without the upload, `raced` are the files others wrote
after the upload had read them, and `unrestored` those the rollback could not write back; all
three only serve the properties. Abstractions: the files are taken in any order; any file
operation may fail, which includes a gate that `close()` has shut; a failed write or deletion
has taken effect or has not when its call ends, and not later; what is left in the staging
area by a cancellation during the tidying is not tracked; an archive's commit has no second
writer.

### HistoryLog

The history database in the sandbox, `helper/source/history_helper.py`, with the host that
writes to it. Each helper command is a process of its own; what it reads outside a
transaction it reads on its own, and a transaction is one step that begins at the first
statement that writes. `host` is the SDK's way through the records of an operation
(`created`, `output`, `completed`), `batches` the helper processes that apply them. A process
whose answer did not come may still be running when the host repeats the batch or goes on.

| code | model |
|---|---|
| `history_events` with the storage state of `command_executions` | `events` |
| `history_changes`: `AUTOINCREMENT` numbers, rows that are there now | `log`, `kept` |
| `history_consumers`, active or not | `ack`, `standing` |
| lease row `history:cleanup` | `lease` |
| `SandboxHistoryStore.append`, `_with_retry` | `Send`, `NoAnswer`, `Answer`, `MoveOn` |
| `apply_batch` and its record types | `FindsEvent` / `MissesEvent`, `ApplyStarted`, `ApplyOutput`, `ApplyCompleted`, `BatchFails` |
| `query_changes`: its rows | `ReadRows` |
| `acknowledge`, the active TTL | `Acknowledge`, `FallsSilent` |
| `cleanup` | `AcquireLease`, `ReadAcks`, `Choose`, `Delete`, `Stop`, `ReleaseLease`, `Killed`, `LeaseExpires` |

An `INSERT OR IGNORE` that is ignored uses up a number of the log (`Burnt`). Ages and sizes
are left open: a cleanup may choose any of its candidates. An operation has at most one
record of streamed output; output that is sent together with the end is part of that record.
Consumers are readers outside this repository; they go on from `next_change_seq` and
acknowledge what they have read, possibly late.

The bounds that `query_changes` reads before the rows tell only `reset_required`, of which no
property speaks, and are left out.

### CommandOutput

One command: the task that executes it (`at`), the writer with its buffer and its periodic
task, the record of its end, and the store, which is the helper's or the SQL database. Bytes
of a stream are numbered, so that a stored chunk shows which bytes it holds.

| code | model |
|---|---|
| the provider's output; its result or error | `Emit`; `Finish`, `Break` |
| `CommandHistoryOutputWriter.write` | `WriteNothing`, `WriteBuffers`, `WriteFlushes` |
| `_flush_locked`: up to its await; after it | `TakeChunks`; `BatchStored`, `BatchFails`, `BatchRaises` |
| `_flush_periodically`, `_ensure_flush_task` | `TimerFlushes`; `EnsureTimer` |
| `close` | `Close`, `Join` |
| `CommandHandle.cancel` | `CancelCommand`, wherever the task waits |
| `_command_output_record`, the helper's and the database's terminal records | `End` with `HelperRecords` or `DatabaseRecords` |
| `BoundedHeadTailBuffer` | `Bounded` |

An append that fails or times out may still take effect later (`late`, `BatchLands`), at any
time, also after the record of the end, as a flush of the timer may that goes on after it. A
cancellation during the record of the end leaves open whether that record, with the outcome
before the cancellation, is made (`End`). Output that comes with the result only, without having
been streamed, is stored as the bounded result keeps it and declared complete; the property
`CompleteMeansAll` excepts it (`unstreamed`). A cancelled command's row keeps the storage state
it had. Encodings and timestamps are left out; the decoding of the bytes is the reader's.

### Leases

`LeaseManager.hold` for any number of holders, each with the owner id of its manager, which
two may share, over the two lease tables there are: the database's, whose acquire is one
conditional statement (`DatabaseAcquires`), and the helper's, which also serves the SQLite
store and whose acquire reads the row before the transaction that writes it (`HelperReads`,
`HelperWrites`). A call reads the clock when it begins (`asked`) and its statement uses that
time however late it comes; the helper's renewal reads it once more. Times are kept as the
texts of `isoformat()`, which has no fraction on the whole second, and the statements compare
the texts: there the text of a whole second sorts behind those of all other times of its second.
`AsText` maps a time to a number of the same order. Only the helper's acquire parses the text
and compares times (`Expired`).

| code | model |
|---|---|
| `_acquire`: call, poll, time limit | `Ask`, `Refused`, `TimesOut` |
| `lease_acquire` / the conditional upsert | `HelperReads`, `HelperWrites` / `DatabaseAcquires` with `FreeFor`, `Expired` |
| `_renew_loop`, `lease_renew`, `mark_lost` | `RenewalWakes`, `Renews` with `Renewable`, `Loses` |
| end of the block, `lease_release` | `Leaves`, `Releases` |
| death of the process | `Dies` |

Abstractions: all clocks agree; a call that is answered late or fails after it took effect is
a call that takes effect and fails; a renewal may sleep for any time, the code's third of the
ttl being the usual case; `until` is the expiry a holder's latest successful call named, which
the code does not keep but a caller relies on. A second has `PerSecond` units of the clock, a
million in the code.

### Allocation

The backends made by `create_backend`, directly or by an allocator that shares one sandbox or
gives each its own, with the bootstrap outbox that records a creation before there is a
sandbox to record it in. Closing a backend is here what the allocator sees of it.

| code | model |
|---|---|
| `SandboxAllocator._lock`, `_active`, `_shared_ref`, `_closed` | `lock`, `tracked`, `sharedRef`, `closer` |
| `allocate`: lock, connect or create, track | `Allocates`, `Connects`, the creation, `Opens` |
| `create_backend`: outbox, create, outbox, history, uploads | `RecordsStart`, `Creates` / `CreateFails`, `RecordsEnd`, `Installs`, `Imports`, `Removes`, `Imported`, `Opens` |
| its `except` branches | `CreationFails`, `CreatedInVain` |
| `_release`, deletion, its failure and its cancellation | `Closes`, `Releases`, `Deletes`, `DeleteFails`, `DeleteCancelled`, `ReleaseCancelled` |
| `SandboxAllocator.close` | `CloseBegins`, `CloserTakes`, `CloserGoesOn` |
| death of the process | `Crashes` |

`excused` collects the sandboxes that the code itself gives up (a creation that fails after
the sandbox was there, a cancelled deletion, a crash); `faults` bounds the failures. A crash
loses what is in memory, `_create_keys` of the mock provider included; sandboxes and outbox
stay. Abstractions: the order in which `close()` takes the backends and in which groups of
events are imported is open; one event file is one step; a closing without deletion has no
steps of its own besides a drain that may fail.

## 3. What is checked

| run | instance | question |
|---|---|---|
| `lifecycle` | 3 callers, 2 closers, four kinds of call, 1 work slot, 1 late request | safety of the backend's life |
| `lifecycle_live` | 2 callers, 2 closers, a file operation and a lifecycle call, renewals on, no late request | `close()` returns, waiting callers get on |
| `drain_timeout` | as `lifecycle`, with commands | finding: the sandbox is deleted under a running operation |
| `renew_after_delete` | as `drain_timeout`, renewals on | finding: `close()` fails for no fault |
| `rwlock` | 4 tasks, 2 keys, 2 states | the lock implements `ReadersWriters`, leaves nobody but readers without a waker, starves no writer |
| `upload` | 3 files, 2 writes by others | what an upload guarantees, as an archive under failure, kill and lost contact, or file by file beside other writers |
| `upload_rollback` | 3 files | finding: a commit "rolled back" has lost a file |
| `history_log` | 1 operation, 1 consumer, 2 cleanups, 2 attempts, 3 numbers, 1 stray process | log and table agree under late repeats; consumers and acknowledgements; one cleanup at a time |
| `command_output` | 5 bytes on 2 streams, 2 cancellations, chunks of 2 and a limit of 4 bytes | what the record of a command says of its output is true, in order and within the limit |
| `database_output` | 3 bytes, no cancellation | finding: the database store keeps no streamed output |
| `leases` | 2 holders, 2 owner ids, a ttl of 3, 7 ticks, 2 to the second | one holder at a time, a stolen lease is noticed |
| `allocation` | 3 backends, 3 sandboxes, 2 faults | nobody loses its sandbox, none is forgotten, no event is lost |

Why the bounds are enough. In the lifecycle the contended resources have one slot; three
callers put one inside, one in the queue and one past the open check at the same time, with
two closers one of which waits for the other's close lock. More work slots only add
concurrency that the gate's count treats alike. `lifecycle` leaves commands out, which are file
operations without the path lock. `MaxLate` bounds the requests that are under way with nobody
waiting: one is enough to change the sandbox behind a call, a reconciliation or a deletion, and
the live run has none because no wait depends on the sandbox's state. In the lock, four tasks on one key give a
holder, a waiting writer, a waiting reader and a newcomer, and the second key and the second
state let an idle key be forgotten and its address be used again for the other. Three files
give one that was committed, one at which the commit fails and one not yet reached; two writes
by others let one file change after it was read and another before. In the history,
`Attempts`, `MaxSeq` and `MaxStrays` bound what the host sends; three numbers and a late
process are enough for an operation to be recorded, ended and recorded or ended once more by a
late repeat, and two cleanups for the lease to expire under one and pass to the other.
Operations share nothing there but the numbering of the log. In `command_output` the sizes are
such that a buffer reaches the byte threshold, the number of chunks and the limit of the
operation one without the other, a result shorter than the output, and a first batch that
lands late behind a second. Two holders are all that a row can pass between; seven ticks let a
lease of three run out, pass on and run out again, and a slow call act on a time that far past;
with two units to the second every other time is a whole second.
Three backends give one that leaves a shared sandbox, one that stays and one that arrives;
two faults let a deletion fail and its repetition be cancelled, or a crash follow a failure.
Deadlock is checked in `lifecycle`, `rwlock`, `history_log` and `leases` and the runs of their
modules; an upload, a command and an allocator simply end.

Fairness. `lifecycle_live` assumes what asyncio and the timeouts give: a ready task runs, each
wait for a slot, a path lock or the drain ends (they have timeouts), the provider answers the
requests of `close()`, and `_close_lock` is granted in order, hence strong fairness for
taking it. It does not assume that a provider call of an operation ever ends, and nothing
makes a late request land. `rwlock`
assumes that notified tasks run and that blocks end, not that waits time out.
`command_output` assumes that an append returns, which its time limit
(`output_write_timeout_seconds`) sees to, and that a task whose wait is over runs; not that the
command writes or ends, nor that a late append lands. `leases` assumes that time passes, a
renewal's sleep ends and its call returns; no block has to end.

Each property of a passing run has a mutant in `PROJECT.json`: a small change of a mapped
definition, the kind of slip the code could have, under which TLC finds it violated.

### Findings

1. `drain_timeout`: `close()` ignores that the drain timed out and deletes the sandbox under
   the operations still running. The repository's `README.md:220` says that closing and
   deleting wait for them. `DrainedDeletion` is what does hold.
2. `renew_after_delete`: with `sandbox_ttl_seconds` and the history outside the sandbox, the
   pipeline renews the expiry of the sandbox it has just deleted; the renewal fails, `close()`
   raises, and the backend reopens over a sandbox that no longer exists.
3. `upload_rollback`: `commit_staging` moves the old file to `.rollback` before it enters it
   in its journal. If the copy in between fails, the rollback forgets that file and the
   `finally` block deletes it. At most this one file is lost (`RollbackLosesAtMostOne`).
4. `database_output`: `append_output` of the database store names the columns `encoding` and
   `original_size`, which its table `command_output_chunks` does not have
   (`history/sqlalchemy.py:228` and `71-81`). Every append of streamed output fails, the writer
   gives up, and the history keeps the bounded result only, where `README.md:180` promises the
   complete output up to the limit. The state `partial` is recorded truthfully.

Observations without a finding, because nothing in the repository says otherwise or the model
leaves out what they need:

* A repeat of a batch that arrives after the cleanup has deleted its operation takes effect
  a second time: a start brings the operation back as running for ever (`Revived`), an end
  appends a change of an operation that does not exist. The properties of `HistoryLog` name
  these exceptions.
* `reset_required` compares the cursor with the oldest number only. Cleanup deletes by
  operation, so a gap further on, or a log that is empty, is not reported; a number used up
  by an ignored repeat is reported although nothing is missing.
* The helper's `lease_acquire` (helper and SQLite store) reads the row before it opens the
  transaction that replaces it. Two that read an expired row both write; the first keeps its
  block until its next renewal fails. Hence `OneHolderAtATime` is about the database, and
  `TheftIsNoticed` about both.
* The database compares the texts of times (`history/sqlalchemy.py:427`). A call that reads the
  clock on a whole second, to the microsecond, has a text without a fraction, which sorts behind
  the expiry of every lease that ends within that second: it takes such a lease over although up
  to a second of it is left. `OneHolderAtATime` therefore speaks of the time before the second in
  which a lease expires; with `clock < until[h]` in `Trusts` TLC finds it violated.
* A pause, resume or delete that failed, timed out or was cancelled may land at the provider after
  `_lifecycle_with_reconciliation` or `_delete_with_reconciliation` has looked at the sandbox: a
  later call may then report a state that does not last (`LifecycleReportsTruth` excepts the very
  step in which the request lands).
* After a close() whose deletion was cancelled, `_deleting` stays set (`backend.py:474-476`
  catches no `CancelledError`) and the backend refuses all operations but another close()
  (`FailedCloseReadmits` excepts it). With the TTL policy a failed drain raises after `_closed`
  was set and the deletion scheduled (`backend.py:403-411`).
* A waiting writer that gives up notifies nobody. Where `Condition.wait()` hands no wake-up on,
  readers that waited behind it alone sleep until the next user of the path leaves
  (`SleepersHaveAWaker` excepts just this).
* Two holds with one owner id both succeed, and the release of the first frees the other's
  lease, which its next renewal notices.
* With an `idempotency_key` among the options the provider gives several backends of an
  isolated allocator the same sandbox, or one that was deleted before; the properties of
  `Allocation` except these. Two direct creations with one key share the outbox and can remove
  an event of each other before it is recorded.
* A second `SandboxAllocator.close()` after one that failed returns at once and closes nothing.
  A deletion that is cancelled leaves the backend untracked and the shared reference set: the
  allocator then fails on every allocation (`OnlyCancellationWedges` says nothing else does).
* The rollback of a per-file upload writes back what it read, over what others have written
  since (`raced`), and is refused once `close()` has shut the gate (`unrestored`).
* `config_set` of the helper compares the version before it writes, in separate steps: of two
  writers with the same expectation the later wins.
* `README.md:177` says that expired records are deleted when the history is queried;
  `query_changes` deletes nothing.

## 4. What is proved

`BackendLifecycleProofs` proves, for any finite set of callers, any closers, slots and options:

| theorem | property |
|---|---|
| `TypeCorrect` | `TypeOK` |
| `DeletionsAreDrained` | `DrainedDeletion` |
| `CloseDeletes` | `ClosedMeansDeleted` |
| `NoLateAdmission` | `NoAdmissionAfterClose` |
| `SlotsAreGivenBack` | `AccountsBalance` |
| `ReportsAreTrue` | `LifecycleReportsTruth` |
| `FailedCloseIsUndone` | `FailedCloseReadmits` |
| `FailuresReadmit` | `FailedDeletionReadmits` |

from the assumptions named in `BackendLifecycle` (finitely many tasks, the TTL task and the
free lock are no closers, at least one slot). The first four follow from one inductive
invariant, `IInv`, proved in `Invariance`. None of them is inductive alone. That `active` stays a natural number
needs that it counts the tasks inside the gate (`CountInv`, with the cardinality lemmas
`Entering`, `Leaving`, `Staying`). That nobody is inside while the sandbox is deleted needs
that the gate has been shut since the drain (`QuietInv`), hence that no other close reopens
it, hence that the close lock has one owner and nobody closes a closed backend (`LockInv`) and
that the gate is shut only by a close() under way or by one that has closed the backend
(`GateInv`).
That a close without an error implies a deleted sandbox needs what each deletion step knows
about the provider (`GoneInv`). The proofs go action by action through `TaskStep`, `Call`,
`CloseStep`, cancellations and the TTL task.

The other four build on `IInv`. The free slots of each limiter and the tasks and deletions that
hold one add up (`SlotsInv`). Hence the lifecycle slot has one holder
(`LifecycleSlotIsExclusive`), and only it and a late request (`Landing`) change the sandbox, which
so stays as a pause() or resume() that holds the slot and has seen it (`TruthInv`, `ReportsAreTrue`).
What a failed close() leaves behind follows from `GateInv` for the gate and from `MarkInv` for
`deleting`: outside a deletion the mark is set only over a sandbox that is gone, which stays gone
(`DeletedForEver`), or after a cancelled deletion.

`HistoryLogProofs` proves, for any operations, consumers and cleanups:

| theorem | property |
|---|---|
| `TypeCorrect` | that the variables have their types |
| `OneCleanupAtATime` | `CleanupsExclude` |
| `DoneIsLogged` | `DoneOperationsAreLogged` |
| `NothingIsPassedOver` | `NothingBehindTheCursor` |
| `RecordedEndsAreFinal` | `EndsAreFinal` |
| `AcknowledgementsAreRespected` | `ProtectedChangesStay` |
| `RunningOnesAreKept` | `RunningOperationsStay` |

from the assumptions that `NoOwner` is no cleanup and `NoEvent` no operation. Cleanups exclude each
other
because a cleanup under way and in time holds the lease, unexpired (`LeaseInv`), which the
expiry, the takeover and the release by owner all preserve. `DoneIsLogged` needs that the start
of every operation in the table is logged, the running ones too (`LogInv`), for the step that
ends an operation to preserve it, and that the log only grows (`AppendChangeLogs`). The other
theorems rest on `BaseInv`: the types, the numbers, and that an operation whose start is in the
log is in the table (`Linked`). What is appended lies ahead of every cursor (`FollowInv`).
A batch that has found its operation, and an operation whose end the host knows of, have a start
in the log, so that the operation runs again only when its start is there twice (`FinalInv`).
What a cleanup has chosen had ended and lay below the acknowledgements it had read, which only
grow; whatever was appended to it since is numbered above the cleanup's horizon (`ChosenInv`).

`LeasesProofs` proves, for any holders, owner ids, ttl, time and units to the second:

| theorem | property |
|---|---|
| `TypeCorrect` | that the variables have their types |
| `OneLeaseHolder` | `OneHolderAtATime` |

from `TTL > 0`, `PerSecond > 0` and that `NoLease` is no lease. The invariant says that the time a call has read
is past (`CallsAreOfThePast`), that no promise reaches further than a renewal that starts now
would (`PromisesAreShort`), and that what the store has promised to a holder whose owner id
nobody shares stands in the row, with this or a later expiry, for as long as the promise lasts
(`PromiseStands`): another's statement takes over a row only if the text of its expiry is not
behind that of a time that is past already, and texts order the times of different seconds as the
times are (`TextsOfSeconds`). Within a second they do not, which is why a promise is relied on up to
the second in which it ends only.

`UploadServiceProofs` proves, for any files and any number of other writers:

| theorem | property |
|---|---|
| `RollbackIsComplete` | `FailureRestores` |
| `ExistingIsKept` | `WhatIsReadStays` |
| `SuccessIsTrue` | `SuccessIsInPlace` |

What the upload remembers of a file is what the others left there unless they wrote it since
(`Memory`); what it does not remember holds what they left (`Untouched`); nothing is remembered
before the commit nor after the rollback (`Phases`); and what is being written is remembered and
was missing if the policy protects existing files (`Committing`). The third theorem has an
invariant of its own: a file the commit has passed is in place (`Progress`).

`UploadCommitProofs` proves, for any files:

| theorem | property |
|---|---|
| `ArchiveRespectsExisting` | `ExistingFilesStay` |
| `CommitKeepsOriginals` | `OriginalsAreKept` |
| `RollbackRestores` | `RollbackLosesAtMostOne` |
| `AtomicIsAtomic` | `AtomicKeepsOneVersion` |
| `ArchiveSuccessIsTrue` | `SuccessIsComplete` |

Until the host gives a commit up, the commit alone works on the target (`Apart`). At each of its
steps a file is where `Looping` (the per-file policies) or `Swapping` (the atomic ones) says,
between its place, `.rollback` and the sibling directory, and a file the policy protects is
never among those the commit is going to replace (`Protecting`). The one file a rollback may
lose is the current one of a failed copy. `ArchivesAreCommits`, in `UploadServiceProofs`,
shows that a service that uploads an archive does what `UploadCommit` says, so these theorems
hold of the whole service.

`KeyedRWLockProofs` proves, for any finite set of tasks and any keys and states:

| theorem | property |
|---|---|
| `LockImplementsReadersWriters` | `KeepsThePromises`, the refinement of `ReadersWriters` |
| `EntriesAreInUse` | `IdleStatesAreForgotten` |
| `SleepersWithoutAWakerAreReaders` | `SleepersHaveAWaker` |
| `WritersAreAlone` | `MutualExclusion` of `ReadersWriters`, through the refinement |

from the assumptions that the tasks are finitely many and that `NoState` and `NoKey` are no state
and no key. The counters of a state are the numbers of the tasks that refer to it in each role
(`Counts`); all users of a key refer to one state, which no other key has (`Users`, `Entries`).
So the predicates of the code, which read counters, mean what the abstract lock asks of the tasks
(`Meaning`), and each step of the lock is a step or a stutter of `ReadersWriters` (`AskImplements`,
`GrantImplements`, `EndImplements`). `Awake` says who has to wake a sleeper: a holder for a writer,
and a holder or a notified waiter for anybody where `Condition.wait()` hands wake-ups on; without
that, a reader may have neither, and then only readers sleep beside it.

`AllocationProofs` proves, for any backends, sandboxes and faults:

| theorem | property |
|---|---|
| `OpenMeansAlive` | `UsersKeepTheirSandbox` |
| `OpenMeansShared` | `SharedIsOne` |
| `FailuresAreRepairable` | `OnlyCancellationWedges` |
| `ClosedMeansDeleted` | `ClosingDeletesAll` |
| `EventsAreKept` | `NoEventIsLost` |

from the assumptions on the bounds and on `Nobody`. Under an allocator only the holder of its
lock creates, connects or deletes (`Locked`); all that are tracked in a shared allocator refer to
the shared sandbox (`Shared`), and a deletion is under way only when none is left (`Tracked`);
otherwise sandboxes are the backends' own, because a new one has a new number (`Counted`,
`Distinct`). With these, an open backend's sandbox survives each step (`Owned`). For
`ClosedMeansDeleted` every sandbox that is not excused has a backend that minds it (`Minded`),
close() stops the making of new ones (`Stopped`) and comes to all that are left (`Swept`). For
`EventsAreKept` what an import still has to do is all there is in its outbox (`Current`): nobody
else writes there meanwhile.

`CommandOutputProofs` proves, for any sizes of chunks, buffers and limits, whatever the command
writes and however often it is cancelled:

| theorem | property |
|---|---|
| `TheBufferIsBounded` | `BufferStaysBelowThresholds` |
| `CompleteIsComplete` | `CompleteMeansAll` |
| `TheLimitHolds` | `LimitHolds` |
| `TheOutputIsInOrder` | `OnlyLateOutputDisorders` |

from the assumptions on the sizes (`SizesAssumption`: no chunk and no threshold is larger than
the queue). The argument has five parts, each an invariant that the next one uses.

1. `BufferInv`: who is where and has the lock (`Places`), and that a flush takes all there is, so
   that the buffer is empty while chunks are appended, wherever that is given up (`Emptied`).
2. `ChunkInv`: as long as only the writer's chunks are stored, the chunks that are stored, being
   appended or late hold consecutive bytes, none from beyond the end of its index (`Cut`), in the
   order of their indexes (`Arranged`). The arithmetic is in `NewChunks`: cutting `b - a` bytes
   from index `k` on gives `CeilDiv(b - a)` chunks that hold all of them, and moving chunks
   about keeps them arranged (`MovedChunks`).
3. `Covered`: as long as no append was given up in a way that the end of the command does not
   tell (`Sound`), every byte that was numbered is stored or being appended; and `CapturesAll`:
   what was neither truncated nor dropped has been captured.
4. `RecordInv`: what the record of a result says. The places of the stored bytes are as many as
   the bytes (`CountedBytes`, `ChoppedBytes`, by injections), and what the record adds where
   nothing was stored stays within the limit that the streams share (`ShownBytes`).
5. `PrefixInv`: until the result is recorded the stored chunks of a stream have its first
   indexes, without a gap. So the bounded output of a failed writer, which fills the indexes after
   them, starts behind their bytes (`RecordedInOrder`).

Only model-checked is liveness: `CloseReturns`, `WaitersProceed`, `WritersGetThrough`,
`BufferIsFlushed` and the others hold under fairness, which is beyond the prover. The
properties that runs refute have no theorems.

## 5. Plan

The models this plan began with are written: the backend, the lock, the archive upload and the
history first, then the output of commands, the leases, the allocator with the outbox, and the
per-file upload. What is left, the most central first:

1. The change feed and cleanup of the database store beside those of the helper.
2. The delays between the retries of a provider call.

## 6. What is not modelled and why

* Upload and archive scanning (`security/`) checks paths and sizes of one directory tree:
  sequential, and its result is the set `Files`.
* `RuntimeBridge` of the Deep Agents integration: what becomes of a call that meets its `close()`
  is decided inside asyncio and concurrent.futures. The adapter formats results.
* `uuid7` is one function under a lock of the process; the models take identifiers as distinct.
* The change feed, consumers and cleanup of the database store, which do in SQL transactions what
  the helper does in processes; `config_set`, whose race is described above and which promises no
  more; the memory and empty stores.
* The provider registry, the packaging of the helpers, the command line between host and helper,
  encodings, configuration and data classes: input, output and constants without choices. The
  OpenSandbox provider maps the calls of its SDK, which is not part of the repository.
* The delays between the retries of a provider call. The record of an operation's end that
  cannot be appended stays out of the history; the code accepts that.

The SQL engine is taken to be what it is documented to be: a transaction is atomic and isolated
as the helper opens it.
