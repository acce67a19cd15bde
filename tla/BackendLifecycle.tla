------------------------- MODULE BackendLifecycle -------------------------
(***************************************************************************)
(* The life of one SandboxBackend (application/backend.py): callers run    *)
(* operations through a slot limiter and the activity gate, closers drain  *)
(* the gate and delete the sandbox, and a TTL task may delete it later.    *)
(*                                                                         *)
(* asyncio runs one task at a time and switches only at an await that      *)
(* really suspends, so an action is the code between two such awaits.  The *)
(* gate's condition is never held across a suspension, so acquiring it     *)
(* never suspends.                                                         *)
(***************************************************************************)
EXTENDS Naturals, FiniteSets

CONSTANTS
  Tasks,             \* tasks that call operations of the backend
  Closers,           \* tasks that call close()
  TTL,               \* the delayed cleanup task, at most one per backend
  NoOne,             \* close_lock is free
  Kinds,             \* the operations the tasks call
  WorkSlots,         \* size of the file/command/upload limiter
  HistoryInSandbox,  \* history_store is a SandboxHistoryStore
  Renews,            \* sandbox_ttl_seconds is set: operations renew the expiry
  MaxLate            \* bound on the requests that may take effect late

AllKinds == {"info", "file", "command", "pause", "resume"}
Deleters == Closers \cup {TTL}

ASSUME TasksAssumption == IsFiniteSet(Tasks)
ASSUME ClosersAssumption == TTL \notin Closers /\ NoOne \notin Closers
ASSUME KindsAssumption == Kinds \subseteq AllKinds
ASSUME SlotsAssumption == WorkSlots \in Nat \ {0}
ASSUME OptionsAssumption == HistoryInSandbox \in BOOLEAN /\ Renews \in BOOLEAN
ASSUME LateAssumption == MaxLate \in Nat

VARIABLES
  cleanup,    \* the CleanupPolicy, or "coordinated": NEVER with a close_coordinator
  sandbox,    \* the provider's view of the sandbox
  late,       \* requests that were given up and may still take effect there
  closing,    \* OperationActivityGate._closing
  active,     \* OperationActivityGate._active
  closed,     \* SandboxBackend._closed
  deleting,   \* SandboxBackend._deleting
  free,       \* free slots of the QueueLimiters
  op,         \* where each calling task is
  kind,       \* which operation it runs
  ok,         \* whether its provider call was reported successful
  closeLock,  \* holder of _close_lock
  step,       \* where each close() and the TTL task are
  failed,     \* whether that close() or TTL task has recorded an error
  faults      \* history variable: what went wrong since the latest close() began:
              \* its drain, a cancellation, or an error of a slot, the provider,
              \* the history or a resource; and whether any deletion so far was
              \* forsaken by a cancellation

remote == <<sandbox, late>>
gateVars == <<closing, active>>
opVars == <<op, kind, ok>>
closeVars == <<closeLock, step, failed, faults>>
vars == <<cleanup, remote, gateVars, closed, deleting, free, opVars, closeVars>>

OpSteps == {"idle", "queued", "pathlock", "inside", "reconcile", "ending"}
DeleteSteps == {"slot", "delete", "check", "renew"}
CloseSteps == {"idle", "locking", "draining", "resources", "sleeping", "done"}
                \cup DeleteSteps
Faults == {"drain", "cancel", "error", "forsaken"}
Requests == {"pause", "resume", "delete"}

\* Tasks between the entry and the exit of the gate's operation().
Inside == {t \in Tasks : op[t] \in {"inside", "reconcile", "ending"}}

\* The limiter a call waits on; info() and capabilities() have none.
Pool(k) == IF k \in {"pause", "resume"} THEN "lifecycle" ELSE "work"
Limited(k) == k # "info"

HoldsSlot(t) == Limited(kind[t]) /\ op[t] \in {"pathlock", "inside", "reconcile", "ending"}
Holders(p) == {t \in Tasks : HoldsSlot(t) /\ Pool(kind[t]) = p}
\* Deleters that hold the lifecycle slot of _delete_owned_sandbox.
DeletingNow == {d \in Deleters : step[d] \in {"delete", "check", "renew"}}

Goto(t, s) == op' = [op EXCEPT ![t] = s]
\* The call returns or raises: its local state is gone.
Return(t) == /\ Goto(t, "idle")
             /\ kind' = [kind EXCEPT ![t] = "none"]
             /\ ok' = [ok EXCEPT ![t] = FALSE]
Take(p) == free' = [free EXCEPT ![p] = @ - 1]
Give(p) == free' = [free EXCEPT ![p] = @ + 1]
\* Mutant: the limiter's slot is not released when the call ends.
KeepSlot(t) == UNCHANGED free
GiveBack(t) == IF HoldsSlot(t) THEN Give(Pool(kind[t])) ELSE UNCHANGED free

Init ==
  /\ cleanup \in {"never", "on_close", "ttl", "coordinated"}
  /\ sandbox \in {"running", "paused"} /\ late = {}
  /\ closing = FALSE /\ active = 0
  /\ closed = FALSE /\ deleting = FALSE
  /\ free = [p \in {"work", "lifecycle"} |-> IF p = "work" THEN WorkSlots ELSE 1]
  /\ op = [t \in Tasks |-> "idle"]
  /\ kind = [t \in Tasks |-> "none"]
  /\ ok = [t \in Tasks |-> FALSE]
  /\ closeLock = NoOne
  /\ step = [d \in Deleters |-> "idle"]
  /\ failed = [d \in Deleters |-> FALSE]
  /\ faults = {}

-----------------------------------------------------------------------------
(* Operations of the backend.                                              *)

EnsureOpen == ~closed /\ ~deleting

\* A call that passes _ensure_open; a rejected one changes nothing.  info()
\* reaches the gate without suspending.
Call(t, k) ==
  /\ op[t] = "idle" /\ EnsureOpen
  /\ Limited(k) \/ ~closing
  /\ kind' = [kind EXCEPT ![t] = k]
  /\ IF Limited(k)
       THEN Goto(t, "queued") /\ UNCHANGED active
       ELSE Goto(t, "inside") /\ active' = active + 1
  /\ UNCHANGED <<cleanup, remote, closing, closed, deleting, free, ok, closeVars>>

\* A file operation or upload holds its slot while it waits for the path lock.
TakeSlot(t) ==
  /\ op[t] = "queued" /\ kind[t] = "file" /\ free["work"] > 0
  /\ Take("work") /\ Goto(t, "pathlock")
  /\ UNCHANGED <<cleanup, remote, gateVars, closed, deleting, kind, ok, closeVars>>

\* The task runs up to the gate: with its path lock, or with the slot it now takes.
AtGate(t) ==
  \/ op[t] = "pathlock"
  \/ op[t] = "queued" /\ kind[t] # "file" /\ free[Pool(kind[t])] > 0

\* Mutant: the gate does not look at _closing.
AdmitWhileClosing(t) ==
  /\ AtGate(t)
  /\ active' = active + 1 /\ Goto(t, "inside")
  /\ IF op[t] = "queued" THEN Take(Pool(kind[t])) ELSE UNCHANGED free
  /\ UNCHANGED <<cleanup, remote, closing, closed, deleting, kind, ok, closeVars>>

Admit(t) ==
  /\ AtGate(t) /\ ~closing
  /\ active' = active + 1 /\ Goto(t, "inside")
  /\ IF op[t] = "queued" THEN Take(Pool(kind[t])) ELSE UNCHANGED free
  /\ UNCHANGED <<cleanup, remote, closing, closed, deleting, kind, ok, closeVars>>

\* SandboxDeletingError: the slot, if held, is given back.
Refuse(t) ==
  /\ AtGate(t) /\ closing
  /\ Return(t) /\ GiveBack(t)
  /\ UNCHANGED <<cleanup, remote, gateVars, closed, deleting, closeVars>>

\* Mutant: slots and path locks are waited for without a timeout.
WaitForever(t) == FALSE /\ UNCHANGED vars

\* The wait for the slot or the path lock times out or is cancelled.
GiveUp(t) ==
  /\ op[t] \in {"queued", "pathlock"}
  /\ Return(t) /\ GiveBack(t)
  /\ UNCHANGED <<cleanup, remote, gateVars, closed, deleting, closeVars>>

Target(k) == CASE k = "pause" -> "paused" [] k = "delete" -> "deleted" [] OTHER -> "running"
Needs(k) == CASE k \in {"info", "delete"} -> {"running", "paused"}
              [] k = "resume" -> {"paused"}
              [] OTHER -> {"running"}

\* A request of the provider whose answer is an error, or is not awaited any more: it has
\* taken effect, never will, or will later.
Uncertain(k) ==
  \/ sandbox \in Needs(k) /\ sandbox' = Target(k) /\ UNCHANGED late
  \/ UNCHANGED remote
  \/ Cardinality(late) < MaxLate /\ late' = late \cup {k} /\ UNCHANGED sandbox

Succeed(t) ==
  /\ op[t] = "inside" /\ sandbox \in Needs(kind[t])
  /\ sandbox' = IF kind[t] \in {"pause", "resume"} THEN Target(kind[t]) ELSE sandbox
  /\ UNCHANGED late
  /\ ok' = [ok EXCEPT ![t] = TRUE] /\ Goto(t, "ending")
  /\ UNCHANGED <<cleanup, gateVars, closed, deleting, free, kind, closeVars>>

\* A provider error; a pause or resume may have taken effect all the same and
\* asks the provider for the actual state.
Fail(t) ==
  /\ op[t] = "inside"
  /\ \/ /\ kind[t] \in {"pause", "resume"}
        /\ Uncertain(kind[t])
        /\ Goto(t, "reconcile")
     \/ /\ kind[t] \notin {"pause", "resume"}
        /\ Goto(t, "ending") /\ UNCHANGED remote
  /\ UNCHANGED <<cleanup, gateVars, closed, deleting, free, kind, ok, closeVars>>

Reconcile(t) ==
  /\ op[t] = "reconcile"
  /\ Goto(t, "ending")
  /\ ok' = [ok EXCEPT ![t] = sandbox = Target(kind[t])]
  /\ UNCHANGED <<cleanup, remote, gateVars, closed, deleting, free, kind, closeVars>>

\* The STARTED record is refused, the state query fails, or the task is cancelled or
\* timed out, which leaves a request under way to the provider.
Abort(t) ==
  /\ op[t] \in {"inside", "reconcile"}
  /\ IF op[t] = "inside" /\ kind[t] \in {"pause", "resume"} THEN Uncertain(kind[t])
                                                          ELSE UNCHANGED remote
  /\ Goto(t, "ending")
  /\ UNCHANGED <<cleanup, gateVars, closed, deleting, free, kind, ok, closeVars>>

\* Gate exit, path lock and slot release follow each other without suspending.
Leave(t) ==
  /\ op[t] = "ending"
  /\ active' = active - 1 /\ Return(t) /\ GiveBack(t)
  /\ UNCHANGED <<cleanup, remote, closing, closed, deleting, closeVars>>

-----------------------------------------------------------------------------
(* close(), _delete_owned_sandbox() and the delayed TTL cleanup.           *)

At(d, s) == step[d] = s
Move(d, s) == step' = [step EXCEPT ![d] = s]
Record(d, f) == /\ failed' = [failed EXCEPT ![d] = TRUE]
                /\ faults' = faults \cup {f}

CallClose(c) ==
  /\ At(c, "idle") /\ Move(c, "locking")
  /\ UNCHANGED <<cleanup, remote, gateVars, closed, deleting, free, opVars,
                 closeLock, failed, faults>>

\* A caller cancelled while it waits for _close_lock.
LeaveLockQueue(c) ==
  /\ At(c, "locking") /\ Move(c, "idle")
  /\ UNCHANGED <<cleanup, remote, gateVars, closed, deleting, free, opVars,
                 closeLock, failed, faults>>

AlreadyClosed(c) ==
  /\ At(c, "locking") /\ closeLock = NoOne /\ closed
  /\ Move(c, "idle")
  /\ UNCHANGED <<cleanup, remote, gateVars, closed, deleting, free, opVars,
                 closeLock, failed, faults>>

\* Owns _close_lock and shuts the gate.
BeginClose(c) ==
  /\ At(c, "locking") /\ closeLock = NoOne /\ ~closed
  /\ closeLock' = c /\ closing' = TRUE
  /\ Move(c, "draining")
  /\ failed' = [failed EXCEPT ![c] = FALSE] /\ faults' = faults \cap {"forsaken"}
  /\ UNCHANGED <<cleanup, remote, active, closed, deleting, free, opVars>>

\* What close() does when begin_close has returned or raised.  The TTL policy
\* hands the deletion to a task and is closed at once; a coordinator decides
\* for itself whether the sandbox is to be deleted.
Delete(c) == Move(c, "slot") /\ deleting' = TRUE /\ UNCHANGED <<closed, closeLock>>
KeepSandbox(c) == Move(c, "resources") /\ UNCHANGED <<deleting, closed, closeLock>>
Schedule(c) ==
  /\ step' = [step EXCEPT ![c] = "idle", ![TTL] = "sleeping"]
  /\ closed' = TRUE /\ closeLock' = NoOne
  /\ UNCHANGED deleting

ApplyPolicy(c) ==
  \/ cleanup = "ttl" /\ Schedule(c)
  \/ cleanup \in {"on_close", "coordinated"} /\ Delete(c)
  \/ cleanup \in {"never", "coordinated"} /\ KeepSandbox(c)

\* Mutant: begin_close does not wait for the operations inside the gate.
DrainedWithoutWaiting(c) ==
  /\ At(c, "draining")
  /\ ApplyPolicy(c)
  /\ UNCHANGED <<cleanup, remote, gateVars, free, opVars, failed, faults>>

Drained(c) ==
  /\ At(c, "draining") /\ active = 0
  /\ ApplyPolicy(c)
  /\ UNCHANGED <<cleanup, remote, gateVars, free, opVars, failed, faults>>

\* Mutant: begin_close waits without a timeout.
DrainForever(c) == FALSE /\ UNCHANGED vars

\* begin_close reopens the gate and raises; close() records the error and goes on.
DrainTimeout(c) ==
  /\ At(c, "draining")
  /\ closing' = FALSE /\ Record(c, "drain")
  /\ ApplyPolicy(c)
  /\ UNCHANGED <<cleanup, remote, active, free, opVars>>

\* Cancelled in the wait: close() catches that too, but the gate stays shut.
DrainCancelled(c) ==
  /\ At(c, "draining")
  /\ failed' = [failed EXCEPT ![c] = TRUE]
  /\ faults' = faults \cup {"drain", "cancel"}
  /\ ApplyPolicy(c)
  /\ UNCHANGED <<cleanup, remote, gateVars, free, opVars>>

TTLFires ==
  /\ At(TTL, "sleeping")
  /\ Move(TTL, "slot") /\ deleting' = TRUE
  /\ UNCHANGED <<cleanup, remote, gateVars, closed, free, opVars, closeLock,
                 failed, faults>>

\* Mutant: the deletion does not take the lifecycle slot.
DeleteWithoutSlot(d) ==
  /\ At(d, "slot") /\ Move(d, "delete")
  /\ UNCHANGED <<cleanup, remote, gateVars, closed, deleting, free, opVars,
                 closeLock, failed, faults>>

DeleteTakesSlot(d) ==
  /\ At(d, "slot") /\ free["lifecycle"] > 0
  /\ Take("lifecycle") /\ Move(d, "delete")
  /\ UNCHANGED <<cleanup, remote, gateVars, closed, deleting, opVars,
                 closeLock, failed, faults>>

\* The deletion is over: the slot goes back, and an Exception resets _deleting.
Deleted(d) ==
  /\ Move(d, "resources") /\ Give("lifecycle")
  /\ UNCHANGED <<cleanup, gateVars, closed, deleting, opVars, closeLock, failed, faults>>
\* Mutant: the error leaves _deleting set.
DeletionFailedStaysShut(d) ==
  /\ Move(d, "resources") /\ Record(d, "error")
  /\ IF At(d, "slot") THEN UNCHANGED free ELSE Give("lifecycle")
  /\ UNCHANGED <<cleanup, gateVars, closed, deleting, opVars, closeLock>>
DeletionFailed(d) ==
  /\ Move(d, "resources") /\ deleting' = FALSE /\ Record(d, "error")
  /\ IF At(d, "slot") THEN UNCHANGED free ELSE Give("lifecycle")
  /\ UNCHANGED <<cleanup, gateVars, closed, opVars, closeLock>>

SlotTimeout(d) == At(d, "slot") /\ DeletionFailed(d) /\ UNCHANGED remote

\* With no history in the sandbox the deletion runs through the pipeline, which
\* appends a STARTED record first and, with a TTL, renews the expiry afterwards.
HistoryRefuses(d) ==
  /\ At(d, "delete") /\ ~HistoryInSandbox
  /\ DeletionFailed(d) /\ UNCHANGED remote

AfterDeletion(d) ==
  IF Renews /\ ~HistoryInSandbox
    THEN /\ Move(d, "renew")
         /\ UNCHANGED <<cleanup, gateVars, closed, deleting, free, opVars,
                        closeLock, failed, faults>>
    ELSE Deleted(d)

ProviderDeletes(d) ==
  /\ At(d, "delete") /\ sandbox' = "deleted" /\ UNCHANGED late
  /\ AfterDeletion(d)

\* The provider reports an error, whether or not the sandbox is gone.
ProviderFails(d) ==
  /\ At(d, "delete") /\ Uncertain("delete")
  /\ Move(d, "check") /\ faults' = faults \cup {"error"}
  /\ UNCHANGED <<cleanup, gateVars, closed, deleting, free, opVars, closeLock, failed>>

\* Mutant: any answer to the state query counts as "the sandbox is gone".
AssumeGone(d) == At(d, "check") /\ AfterDeletion(d) /\ UNCHANGED remote

CheckFindsNothing(d) ==
  /\ At(d, "check") /\ sandbox = "deleted"
  /\ AfterDeletion(d) /\ UNCHANGED remote

\* The sandbox is still there, or the query itself fails: the error is raised.
CheckFails(d) ==
  /\ At(d, "check")
  /\ DeletionFailed(d) /\ UNCHANGED remote

\* The renewal answers "not found" for a sandbox that has just been deleted.
RenewFails(d) ==
  /\ At(d, "renew")
  /\ Move(d, "resources") /\ deleting' = FALSE /\ Give("lifecycle")
  /\ failed' = [failed EXCEPT ![d] = TRUE]
  /\ UNCHANGED <<cleanup, remote, gateVars, closed, opVars, closeLock, faults>>

\* close() cancelled inside the deletion: the slot goes back, but CancelledError
\* is no Exception and _deleting keeps its value.
DeletionCancelled(c) ==
  /\ step[c] \in DeleteSteps
  /\ IF At(c, "delete") THEN Uncertain("delete") ELSE UNCHANGED remote
  /\ IF At(c, "slot") THEN UNCHANGED free ELSE Give("lifecycle")
  /\ Move(c, "resources")
  /\ failed' = [failed EXCEPT ![c] = TRUE]
  /\ faults' = faults \cup {"cancel", "forsaken"}
  /\ UNCHANGED <<cleanup, gateVars, closed, deleting, opVars, closeLock>>

\* Mutant: an error leaves the gate shut.
FinishWithoutReopen(c, bad) ==
  /\ closed' = IF bad THEN closed ELSE TRUE
  /\ UNCHANGED closing

\* The end of close() once the owned resources are closed (bad: one of them failed).
Finish(c, bad) ==
  IF bad
    THEN closing' = FALSE /\ UNCHANGED closed
    ELSE closed' = TRUE /\ UNCHANGED closing

CloseResources(c) ==
  /\ At(c, "resources") /\ c # TTL
  /\ \E error \in BOOLEAN :
       /\ Finish(c, failed[c] \/ error)
       /\ faults' = IF error THEN faults \cup {"error"} ELSE faults
  /\ closeLock' = NoOne /\ Move(c, "idle") /\ failed' = [failed EXCEPT ![c] = FALSE]
  /\ UNCHANGED <<cleanup, remote, active, deleting, free, opVars>>

\* Nobody reads the TTL task's error.
TTLEnds ==
  /\ At(TTL, "resources") /\ Move(TTL, "done")
  /\ UNCHANGED <<cleanup, remote, gateVars, closed, deleting, free, opVars,
                 closeLock, failed, faults>>

-----------------------------------------------------------------------------
\* A request reaches the sandbox long after its caller has turned away.
Lands(k) ==
  /\ k \in late /\ late' = late \ {k}
  /\ sandbox' = IF sandbox \in Needs(k) THEN Target(k) ELSE sandbox
  /\ UNCHANGED <<cleanup, gateVars, closed, deleting, free, opVars, closeVars>>

-----------------------------------------------------------------------------
\* Steps the event loop or a timeout takes, and steps an operation's provider
\* call takes whenever it ends.
OwnStep(t) == TakeSlot(t) \/ Admit(t) \/ Refuse(t) \/ GiveUp(t) \/ Leave(t)
CallStep(t) == Succeed(t) \/ Fail(t) \/ Reconcile(t) \/ Abort(t)
TaskStep(t) == OwnStep(t) \/ CallStep(t)

DeleteStep(d) ==
  \/ DeleteTakesSlot(d) \/ SlotTimeout(d) \/ HistoryRefuses(d)
  \/ ProviderDeletes(d) \/ ProviderFails(d)
  \/ CheckFindsNothing(d) \/ CheckFails(d) \/ RenewFails(d)

TakeCloseLock(c) == AlreadyClosed(c) \/ BeginClose(c)

CloseStep(c) == Drained(c) \/ DrainTimeout(c) \/ DeleteStep(c) \/ CloseResources(c)
CloseCancelled(c) == LeaveLockQueue(c) \/ DrainCancelled(c) \/ DeletionCancelled(c)

TTLStep == TTLFires \/ DeleteStep(TTL) \/ TTLEnds

Next ==
  \/ \E t \in Tasks : TaskStep(t) \/ \E k \in Kinds : Call(t, k)
  \/ \E c \in Closers : \/ CallClose(c) \/ TakeCloseLock(c)
                        \/ CloseStep(c) \/ CloseCancelled(c)
  \/ TTLStep
  \/ \E k \in Requests : Lands(k)

Spec == Init /\ [][Next]_vars

(***************************************************************************)
(* The event loop runs every ready task; every wait for a slot, a path     *)
(* lock or the drain has a timeout; the provider answers the requests of   *)
(* close() and of the TTL task; _close_lock is granted first come, first   *)
(* served.  A command or another provider call of an operation may run for *)
(* ever, and nobody has to call anything.                                  *)
(***************************************************************************)
Fairness ==
  /\ \A t \in Tasks : WF_vars(OwnStep(t))
  /\ \A c \in Closers : WF_vars(CloseStep(c)) /\ SF_vars(TakeCloseLock(c))
  /\ WF_vars(TTLStep)

FairSpec == Spec /\ Fairness

-----------------------------------------------------------------------------
(* Properties.                                                             *)

TypeOK ==
  /\ cleanup \in {"never", "on_close", "ttl", "coordinated"}
  /\ sandbox \in {"running", "paused", "deleted"} /\ late \subseteq Requests
  /\ closing \in BOOLEAN /\ active \in Nat
  /\ closed \in BOOLEAN /\ deleting \in BOOLEAN
  /\ free \in [{"work", "lifecycle"} -> Nat]
  /\ op \in [Tasks -> OpSteps]
  /\ kind \in [Tasks -> Kinds \cup {"none"}]
  /\ ok \in [Tasks -> BOOLEAN]
  /\ closeLock \in Closers \cup {NoOne}
  /\ step \in [Deleters -> CloseSteps]
  /\ failed \in [Deleters -> BOOLEAN]
  /\ faults \subseteq Faults

\* The gate's counter and the limiters count exactly the tasks inside them,
\* through every refusal, timeout, cancellation and failed deletion: a leak
\* would block close() or a limiter for ever.
AccountsBalance ==
  /\ active = Cardinality(Inside)
  /\ free["work"] + Cardinality(Holders("work")) = WorkSlots
  /\ free["lifecycle"] + Cardinality(Holders("lifecycle")) + Cardinality(DeletingNow) = 1

Deleting(d) == step[d] \in {"slot", "delete", "check"}

\* close() or the TTL task deletes the sandbox only when no operation is inside
\* the gate, unless the wait for the operations itself failed.
DrainedDeletion ==
  (\E d \in Deleters : Deleting(d)) /\ "drain" \notin faults => Inside = {}

\* The unconditional form, as README.md:220 has it: closing and deleting wait for
\* the active operations (close() ignores that its wait timed out).
DeletionWaitsForOperations ==
  (\E d \in Deleters : step[d] = "delete") => Inside = {}

\* A pause() or resume() that is about to return success has the sandbox in the state it
\* reports, and nobody else changes that state before the slot is released, be it another
\* call or a deletion: only a request that was given up long before can, when it lands.
LifecycleReportsTruth ==
  [][\A t \in Tasks :
       op'[t] = "ending" /\ ok'[t] /\ kind'[t] \in {"pause", "resume"} =>
         \/ sandbox' = Target(kind'[t])
         \/ op[t] = "ending" /\ sandbox' = sandbox
         \/ \E k \in late \ late' : Lands(k)]_vars

\* close() of an ON_CLOSE backend succeeds only if the sandbox is really gone,
\* whatever the provider's replies were.
ClosedMeansDeleted ==
  closed /\ cleanup = "on_close" => sandbox = "deleted"

\* When no close() is under way and none has closed the backend, it takes operations: a
\* close() that fails, in whatever steps, has reopened the gate and left no mark of a
\* deletion, unless the sandbox is gone or a deletion was cancelled, which keeps the mark.
\* With the TTL policy a close() whose drain fails raises and has closed the backend.
FailedCloseReadmits ==
  ~closed /\ closeLock = NoOne =>
    /\ ~closing
    /\ deleting => sandbox = "deleted" \/ "forsaken" \in faults

\* close() raises only if something went wrong: the drain, the slot, the provider,
\* the history, a resource, or a cancellation.
CloseFailsOnlyOnFault ==
  \A c \in Closers : failed[c] /\ closeLock = c => faults # {}

\* After a close() that drained the gate no operation is admitted again, also
\* not one that passed _ensure_open before and waited for its slot since.
NoAdmissionAfterClose ==
  [][closed /\ "drain" \notin faults => Inside' \subseteq Inside]_vars

\* A deletion that fails over a sandbox that is still there stops refusing the
\* backend's operations, unless it was cancelled.
FailedDeletionReadmits ==
  [][\A d \in Deleters :
       step[d] \in DeleteSteps /\ step'[d] = "resources" /\ deleting' =>
         sandbox' = "deleted" \/ "cancel" \in faults']_vars

\* Every close() call returns, even over an operation that never ends.
CloseReturns == \A c \in Closers : step[c] = "locking" ~> step[c] = "idle"

\* No operation waits for ever to start: it reaches the provider, or is refused or
\* times out, even when the operations before it never end.
WaitersProceed ==
  \A t \in Tasks : op[t] = "queued" ~> op[t] \in {"idle", "inside"}

=============================================================================
