----------------------------- MODULE Allocation -----------------------------
(***************************************************************************)
(* Who creates, shares and deletes sandboxes: create_backend with its      *)
(* bootstrap outbox (api.py, history/bootstrap_outbox.py and the import of *)
(* history/sandbox.py) and the allocator that hands out backends for a     *)
(* shared sandbox or one each (application/allocator.py).                  *)
(*                                                                         *)
(* A backend's closing is that of BackendLifecycle, as far as the          *)
(* allocator takes part in it.  Histories are kept in the sandboxes.       *)
(***************************************************************************)
EXTENDS Naturals, FiniteSets

CONSTANTS
  Backends,      \* the calls of allocate or create_backend, each with what it returns
  Nobody,
  MaxSandboxes,  \* bound on the sandboxes ever created
  MaxFaults      \* bound on failures, cancellations and crashes

ASSUME BoundsAssumption ==
  MaxSandboxes \in Nat /\ MaxFaults \in Nat /\ Nobody \notin Backends

VARIABLES
  mode,     \* "shared", "isolated", or "direct": create_backend without an allocator
  cleanup,  \* "on_close" or "never"
  keyed,    \* the options hold an idempotency_key
  at,       \* where each backend is
  ref,      \* its sandbox
  lock,     \* who holds the allocator's _lock
  tracked,  \* _active
  sharedRef,          \* _shared_ref, 0 for None
  closer, current, rest,  \* the allocator's close(), the backend it closes and those left
  alive,    \* the sandboxes there are
  count,    \* how many there have been
  createKey,  \* the sandbox in the provider's _create_keys, or 0
  outbox,   \* the events in the bootstrap outbox
  batch,    \* the events a backend has read there to import
  recorded, \* the events in each sandbox's history
  excused,  \* sandboxes that a failed creation or a cancelled deletion left behind
  faults

config == <<mode, cleanup, keyed>>
allocator == <<lock, tracked, sharedRef>>
closing == <<closer, current, rest>>
provider == <<alive, count, createKey>>
history == <<outbox, batch, recorded>>
vars == <<config, at, ref, allocator, closing, provider, history, excused, faults>>

Sandboxes == 1 .. MaxSandboxes
Events == Backends \X {"started", "ended"}

Init ==
  /\ mode \in {"shared", "isolated", "direct"}
  /\ cleanup \in {"on_close", "never"}
  /\ keyed \in BOOLEAN
  /\ at = [b \in Backends |-> "none"]
  /\ ref = [b \in Backends |-> 0]
  /\ lock = Nobody /\ tracked = {} /\ sharedRef = 0
  /\ closer = "idle" /\ current = Nobody /\ rest = {}
  /\ alive = {} /\ count = 0 /\ createKey = 0
  /\ outbox = {} /\ batch = [b \in Backends |-> {}] /\ recorded = [s \in Sandboxes |-> {}]
  /\ excused = {} /\ faults = 0

-----------------------------------------------------------------------------
Goes(b, there) == at' = [at EXCEPT ![b] = there]
Fault == faults < MaxFaults /\ faults' = faults + 1

Allocated == mode # "direct"
\* What the caller is in leaves the allocator's lock.
Unlocks == lock' = Nobody

\* Mutant: two allocations may be under way at a time.
AllocatesUnlocked(b) ==
  /\ at[b] = "none"
  /\ closer = "idle"
  /\ Goes(b, IF mode = "shared" /\ sharedRef # 0 THEN "connecting" ELSE "starting")
  /\ UNCHANGED <<config, ref, allocator, closing, provider, history, excused, faults>>

\* allocate as far as the backend factory, or create_backend called directly.
Allocates(b) ==
  /\ at[b] = "none"
  /\ closer = "idle" /\ lock = Nobody
  /\ lock' = IF Allocated THEN b ELSE Nobody
  /\ Goes(b, IF mode = "shared" /\ sharedRef # 0 THEN "connecting" ELSE "starting")
  /\ UNCHANGED <<config, ref, tracked, sharedRef, closing, provider, history, excused, faults>>

\* mode="connect": the state query finds the shared sandbox, or the call fails.
Connects(b) ==
  /\ at[b] = "connecting"
  /\ \/ /\ sharedRef \in alive
        /\ ref' = [ref EXCEPT ![b] = sharedRef]
        /\ Goes(b, "uploading")
        /\ UNCHANGED <<lock, faults>>
     \/ /\ (sharedRef \notin alive /\ UNCHANGED faults) \/ Fault
        /\ Goes(b, "failed") /\ Unlocks
        /\ UNCHANGED ref
  /\ UNCHANGED <<config, tracked, sharedRef, closing, provider, history, excused>>

-----------------------------------------------------------------------------
(* Creating: the operation is recorded in the outbox, then imported.       *)

RecordsStart(b) ==
  /\ at[b] = "starting"
  /\ outbox' = outbox \cup {<<b, "started">>}
  /\ Goes(b, "creating")
  /\ UNCHANGED <<config, ref, allocator, closing, provider, batch, recorded, excused, faults>>

Creates(b) ==
  /\ at[b] = "creating"
  /\ \/ /\ keyed /\ createKey # 0
        /\ ref' = [ref EXCEPT ![b] = createKey]
        /\ UNCHANGED provider
     \/ /\ ~(keyed /\ createKey # 0) /\ count < MaxSandboxes
        /\ count' = count + 1
        /\ alive' = alive \cup {count'}
        /\ ref' = [ref EXCEPT ![b] = count']
        /\ createKey' = IF keyed THEN count' ELSE 0
  /\ Goes(b, "ending")
  /\ UNCHANGED <<config, allocator, closing, history, excused, faults>>

\* The provider reports an error, before or after the sandbox was created; with an
\* idempotency key the pipeline may try again.
CreateFails(b) ==
  /\ at[b] = "creating" /\ Fault
  /\ \/ UNCHANGED <<alive, count, excused>>
     \/ /\ ~(keyed /\ createKey # 0) /\ count < MaxSandboxes
        /\ count' = count + 1
        /\ alive' = alive \cup {count'} /\ excused' = excused \cup {count'}
  /\ \/ /\ keyed
        /\ UNCHANGED <<at, lock, outbox>>
     \/ /\ Goes(b, "failed") /\ Unlocks
        /\ outbox' = outbox \cup {<<b, "ended">>}
  /\ UNCHANGED <<config, ref, tracked, sharedRef, closing, createKey, batch, recorded>>

\* The outbox of a call without an idempotency key is its own.
Outbox(b) == {e \in outbox : keyed \/ e[1] = b}

RecordsEnd(b) ==
  /\ at[b] = "ending"
  /\ outbox' = outbox \cup {<<b, "ended">>}
  /\ Goes(b, "installing")
  /\ UNCHANGED <<config, ref, allocator, closing, provider, batch, recorded, excused, faults>>

\* The helper is installed and the outbox read; a sandbox that is gone has no history.
Installs(b) ==
  /\ at[b] = "installing" /\ ref[b] \in alive
  /\ batch' = [batch EXCEPT ![b] = Outbox(b)]
  /\ Goes(b, "importing")
  /\ UNCHANGED <<config, ref, allocator, closing, provider, outbox, recorded, excused, faults>>

\* One event is appended, the start of an operation before its end.
Imports(b) ==
  /\ at[b] = "importing" /\ ref[b] \in alive
  /\ \E e \in batch[b] \ recorded[ref[b]] :
       /\ e[2] = "ended" /\ <<e[1], "started">> \in batch[b] =>
            <<e[1], "started">> \in recorded[ref[b]]
       /\ recorded' = [recorded EXCEPT ![ref[b]] = @ \cup {e}]
  /\ UNCHANGED <<config, at, ref, allocator, closing, provider, outbox, batch, excused, faults>>

OfOperation(x) == {e \in Events : e[1] = x}

\* Mutant: the events of an operation are removed before they are appended.
RemovesEarly(b) ==
  /\ at[b] = "importing"
  /\ \E x \in Backends :
       /\ batch[b] \cap OfOperation(x) # {}
       /\ outbox' = outbox \ OfOperation(x)
       /\ batch' = batch
  /\ UNCHANGED <<config, at, ref, allocator, closing, provider, recorded, excused, faults>>

\* All that was read of an operation is recorded: every event of it is removed.
Removes(b) ==
  /\ at[b] = "importing"
  /\ \E x \in Backends :
       /\ batch[b] \cap OfOperation(x) # {}
       /\ batch[b] \cap OfOperation(x) \subseteq recorded[ref[b]]
       /\ outbox' = outbox \ OfOperation(x)
       /\ batch' = [batch EXCEPT ![b] = @ \ OfOperation(x)]
  /\ UNCHANGED <<config, at, ref, allocator, closing, provider, recorded, excused, faults>>

Imported(b) ==
  /\ at[b] = "importing" /\ batch[b] = {}
  /\ Goes(b, "uploading")
  /\ UNCHANGED <<config, ref, allocator, closing, provider, history, excused, faults>>

\* The uploads are done and the backend is the caller's.
Opens(b) ==
  /\ at[b] = "uploading"
  /\ Goes(b, "open") /\ Unlocks
  /\ tracked' = IF Allocated THEN tracked \cup {b} ELSE {}
  /\ sharedRef' = IF mode = "shared" THEN ref[b] ELSE 0
  /\ UNCHANGED <<config, ref, closing, provider, history, excused, faults>>

\* A step after the sandbox was created fails or is cancelled.  Under an allocator the
\* factory's cleanup is "never"; without one the sandbox is deleted again, if that works
\* and it was the import or an upload that failed.
CreationFails(b) ==
  /\ at[b] \in {"ending", "installing", "importing", "uploading"} /\ Fault
  /\ Goes(b, "failed") /\ Unlocks
  /\ \/ /\ mode = "direct" /\ cleanup = "on_close" /\ at[b] # "ending"
        /\ alive' = alive \ {ref[b]}
        /\ UNCHANGED excused
     \/ /\ excused' = IF mode = "shared" /\ sharedRef # 0 THEN excused ELSE excused \cup {ref[b]}
        /\ UNCHANGED alive
  /\ batch' = [batch EXCEPT ![b] = {}]
  /\ UNCHANGED <<config, ref, tracked, sharedRef, closing, count, createKey, outbox, recorded>>

\* The sandbox the provider remembers for the key is gone: no history can be kept there.
CreatedInVain(b) ==
  /\ at[b] \in {"installing", "importing"} /\ ref[b] \notin alive
  /\ Goes(b, "failed") /\ Unlocks
  /\ batch' = [batch EXCEPT ![b] = {}]
  /\ UNCHANGED <<config, ref, tracked, sharedRef, closing, provider, outbox, recorded, excused,
                 faults>>

-----------------------------------------------------------------------------
(* Closing a backend.                                                      *)

\* A close that failed may be called again.
CallsClose(b) == at[b] \in {"open", "retry"}

Closes(b) ==
  /\ CallsClose(b) /\ current # b
  /\ Goes(b, "closing")
  /\ UNCHANGED <<config, ref, allocator, closing, provider, history, excused, faults>>

\* What close() returns: the drain of the gate may have failed before.
Returns(b) == \/ Goes(b, "closed") /\ UNCHANGED faults
              \/ Goes(b, "retry") /\ Fault

\* Mutant: a backend of a shared sandbox leaves when one other is left.
LastUserButOne(b) == mode # "shared" \/ Cardinality(tracked \ {b}) <= 1

LastUser(b) == mode # "shared" \/ tracked \ {b} = {}

\* _release up to the deletion, or a backend without allocator.
Releases(b) ==
  /\ at[b] = "closing" /\ lock = Nobody
  /\ tracked' = tracked \ {b}
  /\ \/ /\ b \in tracked \/ ~Allocated
        /\ cleanup = "on_close" /\ LastUser(b)
        /\ Goes(b, "deleting")
        /\ lock' = IF Allocated THEN b ELSE Nobody
        /\ UNCHANGED faults
     \/ /\ (b \notin tracked /\ Allocated) \/ cleanup = "never" \/ ~LastUser(b)
        /\ Returns(b)
        /\ UNCHANGED lock
  /\ UNCHANGED <<config, ref, sharedRef, closing, provider, history, excused>>

\* Cancelled while it waits for the lock.
ReleaseCancelled(b) ==
  /\ at[b] = "closing" /\ lock # Nobody /\ Fault
  /\ Goes(b, "retry")
  /\ UNCHANGED <<config, ref, allocator, closing, provider, history, excused>>

Deletes(b) ==
  /\ at[b] = "deleting"
  /\ alive' = alive \ {ref[b]}
  /\ sharedRef' = 0
  /\ Unlocks /\ Returns(b)
  /\ UNCHANGED <<config, ref, tracked, closing, count, createKey, history, excused>>

\* Mutant: a backend whose deletion failed is not tracked again.
DeleteForgets(b) ==
  /\ at[b] = "deleting" /\ Fault
  /\ alive' \in {alive, alive \ {ref[b]}}
  /\ tracked' = tracked
  /\ Goes(b, "retry") /\ Unlocks
  /\ UNCHANGED <<config, ref, sharedRef, closing, count, createKey, history, excused>>

\* An error, after which nobody knows whether the sandbox is there.
DeleteFails(b) ==
  /\ at[b] = "deleting" /\ Fault
  /\ alive' \in {alive, alive \ {ref[b]}}
  /\ tracked' = IF Allocated THEN tracked \cup {b} ELSE {}
  /\ Goes(b, "retry") /\ Unlocks
  /\ UNCHANGED <<config, ref, sharedRef, closing, count, createKey, history, excused>>

\* CancelledError is no Exception: the backend stays out of _active.
DeleteCancelled(b) ==
  /\ at[b] = "deleting" /\ Fault
  /\ alive' \in {alive, alive \ {ref[b]}}
  /\ excused' = IF Allocated THEN excused \cup {ref[b]} ELSE excused
  /\ Goes(b, "retry") /\ Unlocks
  /\ UNCHANGED <<config, ref, tracked, sharedRef, closing, count, createKey, history>>

-----------------------------------------------------------------------------
(* SandboxAllocator.close.                                                 *)

CloseBegins ==
  /\ Allocated /\ closer = "idle" /\ lock = Nobody
  /\ closer' = "closing" /\ rest' = tracked
  /\ UNCHANGED <<config, at, ref, allocator, current, provider, history, excused, faults>>

\* It waits for a close another has called, and has nothing to do for a closed backend.
CloserTakes(b) ==
  /\ closer = "closing" /\ current = Nobody /\ b \in rest
  /\ rest' = rest \ {b}
  /\ \/ /\ CallsClose(b)
        /\ Goes(b, "closing") /\ current' = b
     \/ /\ at[b] = "closed"
        /\ UNCHANGED <<at, current>>
  /\ UNCHANGED <<config, ref, allocator, closer, provider, history, excused, faults>>

\* The first error ends close(), and the next call of it finds _closed set.
CloserGoesOn ==
  /\ closer = "closing"
  /\ \/ /\ current # Nobody /\ at[current] = "closed"
        /\ current' = Nobody
        /\ UNCHANGED closer
     \/ /\ current # Nobody /\ at[current] = "retry"
        /\ current' = Nobody /\ closer' = "failed"
     \/ /\ current = Nobody /\ rest = {}
        /\ closer' = "done"
        /\ UNCHANGED current
  /\ UNCHANGED <<config, at, ref, allocator, rest, provider, history, excused, faults>>

\* The process dies; the sandboxes and the outboxes on disk stay.
Crashes ==
  /\ Fault
  /\ \E b \in Backends : at[b] \notin {"none", "failed", "closed"}
  /\ at' = [b \in Backends |-> IF at[b] = "none" THEN "none" ELSE "failed"]
  /\ lock' = Nobody /\ tracked' = {} /\ sharedRef' = 0
  /\ closer' = "idle" /\ current' = Nobody /\ rest' = {}
  /\ createKey' = 0
  /\ batch' = [b \in Backends |-> {}]
  /\ excused' = excused \cup alive
  /\ UNCHANGED <<config, ref, alive, count, outbox, recorded>>

-----------------------------------------------------------------------------
Step(b) ==
  \/ Allocates(b)
  \/ Connects(b)
  \/ RecordsStart(b)
  \/ Creates(b)
  \/ CreateFails(b)
  \/ RecordsEnd(b)
  \/ Installs(b)
  \/ Imports(b)
  \/ Removes(b)
  \/ Imported(b)
  \/ Opens(b)
  \/ CreationFails(b)
  \/ CreatedInVain(b)
  \/ Closes(b)
  \/ Releases(b)
  \/ ReleaseCancelled(b)
  \/ Deletes(b)
  \/ DeleteFails(b)
  \/ DeleteCancelled(b)
  \/ CloserTakes(b)

Next == CloseBegins \/ CloserGoesOn \/ Crashes \/ \E b \in Backends : Step(b)

Spec == Init /\ [][Next]_vars

-----------------------------------------------------------------------------
(* Properties.                                                             *)

\* A backend that nobody has begun to close has its sandbox, whatever others of the same
\* sandbox do meanwhile and whichever of their deletions fail or are cancelled.  With an
\* idempotency key among the options the provider hands the same sandbox to backends that
\* know nothing of each other, also one it has deleted.
UsersKeepTheirSandbox ==
  ~keyed => \A b \in Backends : at[b] = "open" => ref[b] \in alive

SharedIsOne ==
  mode = "shared" => \A a, b \in Backends : (at[a] = "open" /\ at[b] = "open") => ref[a] = ref[b]

\* An allocator that has closed without an error has left no sandbox behind, but those of
\* a creation that failed after the sandbox was there, or of a cancelled deletion.
ClosingDeletesAll ==
  (closer = "done" /\ cleanup = "on_close") => alive \subseteq excused

\* The shared reference names a sandbox that is there, or one whose deletion a tracked
\* backend can repeat: only a cancelled deletion can leave an allocator that fails on
\* every allocation.
OnlyCancellationWedges ==
  (lock = Nobody /\ sharedRef # 0 /\ sharedRef \notin alive) =>
    tracked # {} \/ sharedRef \in excused

\* An event leaves the outbox only when some sandbox's history has it, through failures,
\* crashes and replays.  Two direct creations with one key are the exception: one may
\* remove what the other has just added to an operation.
NoEventIsLost ==
  [][(Allocated \/ ~keyed) =>
       \A e \in outbox \ outbox' : \E s \in Sandboxes : e \in recorded[s]]_vars
=============================================================================
