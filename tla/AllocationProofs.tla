-------------------------- MODULE AllocationProofs --------------------------
(***************************************************************************)
(* Proofs about Allocation, for any number of backends, sandboxes and      *)
(* faults.  The argument: under an allocator only who holds the lock       *)
(* creates, connects or deletes (Locked); the tracked backends of a shared *)
(* sandbox all refer to it (Shared), and it is deleted only when none is   *)
(* left (Tracked); otherwise every backend has a sandbox of its own        *)
(* (Distinct).                                                             *)
(***************************************************************************)
EXTENDS Allocation, TLAPS

Making == {"ending", "installing", "importing", "uploading"}
Busy == Making \cup {"connecting", "starting", "creating", "deleting"}
Places == Busy \cup {"none", "open", "closing", "retry", "closed", "failed"}

Types ==
  /\ mode \in {"shared", "isolated", "direct"} /\ cleanup \in {"on_close", "never"}
  /\ keyed \in BOOLEAN
  /\ at \in [Backends -> Places]
  /\ ref \in [Backends -> Nat]
  /\ lock \in Backends \cup {Nobody} /\ tracked \subseteq Backends
  /\ count \in Nat /\ createKey \in Nat /\ sharedRef \in Nat
  /\ \A s \in alive : s \in Nat /\ 1 <= s /\ s <= count

Counted ==
  /\ \A b \in Backends : ref[b] <= count
  /\ \A b \in Backends : at[b] \in Making \cup {"open"} => ref[b] # 0
  /\ createKey <= count

Locked ==
  /\ Allocated => \A b \in Backends : at[b] \in Busy <=> lock = b
  /\ ~Allocated => lock = Nobody

Tracked ==
  /\ Allocated => \A b \in Backends : at[b] = "open" => b \in tracked
  /\ \A b \in Backends :
       at[b] = "deleting" => b \notin tracked /\ (mode = "shared" => tracked = {})
                             /\ cleanup = "on_close"

Distinct ==
  mode # "shared" /\ ~keyed =>
    \A b, c \in Backends : b # c /\ ref[b] = ref[c] => ref[b] = 0

Shared ==
  /\ mode # "shared" => sharedRef = 0 /\ \A b \in Backends : at[b] # "connecting"
  /\ mode = "shared" => \A b \in Backends :
       /\ b \in tracked \/ at[b] = "deleting" => sharedRef # 0 /\ ref[b] = sharedRef
       /\ at[b] \in {"starting", "creating", "ending", "installing", "importing"} => sharedRef = 0
       /\ at[b] = "uploading" => sharedRef \in {0, ref[b]}
       /\ at[b] \in {"importing", "uploading"} => ref[b] \in alive
       /\ at[b] = "connecting" => sharedRef # 0

Owned == ~keyed => \A b \in Backends : at[b] \in Making \cup {"open"} => ref[b] \in alive

Repairable ==
  /\ sharedRef # 0 /\ sharedRef \notin alive =>
       \/ tracked # {} \/ sharedRef \in excused
       \/ \E b \in Backends : at[b] = "deleting"
  /\ cleanup = "never" => sharedRef = 0 \/ sharedRef \in alive

Inv == Types /\ Counted /\ Locked /\ Tracked /\ Distinct /\ Shared /\ Owned /\ Repairable

LEMMA Start == Init => Inv
BY BoundsAssumption
   DEF Init, Inv, Types, Places, Busy, Making, Counted, Locked, Tracked, Distinct, Shared, Owned,
       Repairable, Allocated

LEMMA AllocatesStep ==
  ASSUME Inv, NEW b \in Backends, Allocates(b) PROVE Inv'
<1> USE BoundsAssumption
    DEF Inv, Types, Making, Busy, Allocates, Goes, Allocated,
        config, allocator, closing, provider, history
<1>1. Types' /\ Counted'
  BY DEF Counted, Places
<1>2. Locked' /\ Tracked'
  BY DEF Tracked, Locked, Places
<1>3. Distinct'
  BY DEF Distinct, Counted, Shared
<1>4. Shared'
  BY DEF Shared, Tracked, Locked, Counted
<1>5. Owned'
  BY DEF Owned, Shared, Tracked, Distinct, Counted, Locked
<1>6. Repairable'
  BY DEF Repairable, Shared, Tracked, Owned, Counted, Locked
<1> QED BY <1>1, <1>2, <1>3, <1>4, <1>5, <1>6

LEMMA ConnectsStep ==
  ASSUME Inv, NEW b \in Backends, Connects(b) PROVE Inv'
<1> USE BoundsAssumption
    DEF Inv, Types, Making, Busy, Connects, Goes, Fault, Unlocks, Allocated,
        config, allocator, closing, provider, history
<1>1. Types' /\ Counted'
  BY DEF Counted, Places
<1>2. Locked' /\ Tracked'
  BY DEF Tracked, Locked, Places
<1>3. Distinct'
  BY DEF Distinct, Counted, Shared
<1>4. Shared'
  BY DEF Shared, Tracked, Locked, Counted
<1>5. Owned'
  BY DEF Owned, Shared, Tracked, Distinct, Counted, Locked
<1>6. Repairable'
  BY DEF Repairable, Shared, Tracked, Owned, Counted, Locked
<1> QED BY <1>1, <1>2, <1>3, <1>4, <1>5, <1>6

LEMMA RecordsStep ==
  ASSUME Inv, NEW b \in Backends, RecordsStart(b) \/ RecordsEnd(b) PROVE Inv'
<1> USE BoundsAssumption
    DEF Inv, Types, Making, Busy, RecordsStart, RecordsEnd, Goes, Allocated,
        config, allocator, closing, provider, history
<1>1. Types' /\ Counted'
  BY DEF Counted, Places
<1>2. Locked' /\ Tracked'
  BY DEF Tracked, Locked, Places
<1>3. Distinct'
  BY DEF Distinct, Counted, Shared
<1>4. Shared'
  BY DEF Shared, Tracked, Locked, Counted
<1>5. Owned'
  BY DEF Owned, Shared, Tracked, Distinct, Counted, Locked
<1>6. Repairable'
  BY DEF Repairable, Shared, Tracked, Owned, Counted, Locked
<1> QED BY <1>1, <1>2, <1>3, <1>4, <1>5, <1>6

\* Without a key the sandbox is a new one, and so is its number.
LEMMA CreatesStep ==
  ASSUME Inv, NEW b \in Backends, Creates(b) PROVE Inv'
<1> USE BoundsAssumption
    DEF Inv, Types, Making, Busy, Creates, Goes, Allocated,
        config, allocator, closing, provider, history
<1>1. Types' /\ Counted'
  BY DEF Counted, Places
<1>2. Locked' /\ Tracked'
  BY DEF Tracked, Locked, Places
<1>3. Distinct'
  BY DEF Distinct, Counted, Shared
<1>4. Shared'
  BY DEF Shared, Tracked, Locked, Counted
<1>5. Owned'
  BY DEF Owned, Shared, Tracked, Distinct, Counted, Locked
<1>6. Repairable'
  BY DEF Repairable, Shared, Tracked, Owned, Counted, Locked
<1> QED BY <1>1, <1>2, <1>3, <1>4, <1>5, <1>6

LEMMA CreateFailsStep ==
  ASSUME Inv, NEW b \in Backends, CreateFails(b) PROVE Inv'
<1> USE BoundsAssumption
    DEF Inv, Types, Making, Busy, CreateFails, Goes, Fault, Unlocks, Allocated,
        config, allocator, closing, provider, history
<1>1. Types' /\ Counted'
  BY DEF Counted, Places
<1>2. Locked' /\ Tracked'
  BY DEF Tracked, Locked, Places
<1>3. Distinct'
  BY DEF Distinct, Counted, Shared
<1>4. Shared'
  BY DEF Shared, Tracked, Locked, Counted
<1>5. Owned'
  BY DEF Owned, Shared, Tracked, Distinct, Counted, Locked
<1>6. Repairable'
  BY DEF Repairable, Shared, Tracked, Owned, Counted, Locked
<1> QED BY <1>1, <1>2, <1>3, <1>4, <1>5, <1>6

LEMMA ImportStep ==
  ASSUME Inv, NEW b \in Backends, Installs(b) \/ Imported(b) PROVE Inv'
<1> USE BoundsAssumption
    DEF Inv, Types, Making, Busy, Installs, Imported, Goes, Allocated,
        config, allocator, closing, provider, history
<1>1. Types' /\ Counted'
  BY DEF Counted, Places
<1>2. Locked' /\ Tracked'
  BY DEF Tracked, Locked, Places
<1>3. Distinct'
  BY DEF Distinct, Counted, Shared
<1>4. Shared'
  BY DEF Shared, Tracked, Locked, Counted
<1>5. Owned'
  BY DEF Owned, Shared, Tracked, Distinct, Counted, Locked
<1>6. Repairable'
  BY DEF Repairable, Shared, Tracked, Owned, Counted, Locked
<1> QED BY <1>1, <1>2, <1>3, <1>4, <1>5, <1>6

LEMMA EventStep ==
  ASSUME Inv, NEW b \in Backends, Imports(b) \/ Removes(b) PROVE Inv'
<1> USE BoundsAssumption
    DEF Inv, Types, Making, Busy, Imports, Removes, Allocated,
        config, allocator, closing, provider, history
<1>1. Types' /\ Counted'
  BY DEF Counted, Places
<1>2. Locked' /\ Tracked'
  BY DEF Tracked, Locked, Places
<1>3. Distinct'
  BY DEF Distinct, Counted, Shared
<1>4. Shared'
  BY DEF Shared, Tracked, Locked, Counted
<1>5. Owned'
  BY DEF Owned, Shared, Tracked, Distinct, Counted, Locked
<1>6. Repairable'
  BY DEF Repairable, Shared, Tracked, Owned, Counted, Locked
<1> QED BY <1>1, <1>2, <1>3, <1>4, <1>5, <1>6

LEMMA OpensStep ==
  ASSUME Inv, NEW b \in Backends, Opens(b) PROVE Inv'
<1> USE BoundsAssumption
    DEF Inv, Types, Making, Busy, Opens, Goes, Unlocks, Allocated,
        config, allocator, closing, provider, history
<1>1. Types' /\ Counted'
  BY DEF Counted, Places
<1>2. Locked' /\ Tracked'
  BY DEF Tracked, Locked, Places
<1>3. Distinct'
  BY DEF Distinct, Counted, Shared
<1>4. Shared'
  BY DEF Shared, Tracked, Locked, Counted
<1>5. Owned'
  BY DEF Owned, Shared, Tracked, Distinct, Counted, Locked
<1>6. Repairable'
  BY DEF Repairable, Shared, Tracked, Owned, Counted, Locked
<1> QED BY <1>1, <1>2, <1>3, <1>4, <1>5, <1>6

LEMMA CreationFailsStep ==
  ASSUME Inv, NEW b \in Backends, CreationFails(b) PROVE Inv'
<1> USE BoundsAssumption
    DEF Inv, Types, Making, Busy, CreationFails, Goes, Fault, Unlocks, Allocated,
        config, allocator, closing, provider, history
<1>1. Types' /\ Counted'
  BY DEF Counted, Places
<1>2. Locked' /\ Tracked'
  BY DEF Tracked, Locked, Places
<1>3. Distinct'
  BY DEF Distinct, Counted, Shared
<1>4. Shared'
  BY DEF Shared, Tracked, Locked, Counted
<1>5. Owned'
  BY DEF Owned, Shared, Tracked, Distinct, Counted, Locked
<1>6. Repairable'
  BY DEF Repairable, Shared, Tracked, Owned, Counted, Locked
<1> QED BY <1>1, <1>2, <1>3, <1>4, <1>5, <1>6

LEMMA InVainStep ==
  ASSUME Inv, NEW b \in Backends, CreatedInVain(b) PROVE Inv'
<1> USE BoundsAssumption
    DEF Inv, Types, Making, Busy, CreatedInVain, Goes, Unlocks, Allocated,
        config, allocator, closing, provider, history
<1>1. Types' /\ Counted'
  BY DEF Counted, Places
<1>2. Locked' /\ Tracked'
  BY DEF Tracked, Locked, Places
<1>3. Distinct'
  BY DEF Distinct, Counted, Shared
<1>4. Shared'
  BY DEF Shared, Tracked, Locked, Counted
<1>5. Owned'
  BY DEF Owned, Shared, Tracked, Distinct, Counted, Locked
<1>6. Repairable'
  BY DEF Repairable, Shared, Tracked, Owned, Counted, Locked
<1> QED BY <1>1, <1>2, <1>3, <1>4, <1>5, <1>6

LEMMA ClosesStep ==
  ASSUME Inv, NEW b \in Backends, Closes(b) \/ CloserTakes(b) PROVE Inv'
<1> USE BoundsAssumption
    DEF Inv, Types, Making, Busy, Closes, CloserTakes, CallsClose, Goes, Allocated,
        config, allocator, closing, provider, history
<1>1. Types' /\ Counted'
  BY DEF Counted, Places
<1>2. Locked' /\ Tracked'
  BY DEF Tracked, Locked, Places
<1>3. Distinct'
  BY DEF Distinct, Counted, Shared
<1>4. Shared'
  BY DEF Shared, Tracked, Locked, Counted
<1>5. Owned'
  BY DEF Owned, Shared, Tracked, Distinct, Counted, Locked
<1>6. Repairable'
  BY DEF Repairable, Shared, Tracked, Owned, Counted, Locked
<1> QED BY <1>1, <1>2, <1>3, <1>4, <1>5, <1>6

\* Only the last of the tracked backends of a shared sandbox goes on to delete it.
LEMMA ReleasesStep ==
  ASSUME Inv, NEW b \in Backends, Releases(b) PROVE Inv'
<1> USE BoundsAssumption
    DEF Inv, Types, Making, Busy, Releases, LastUser, Returns, Goes, Fault, Allocated,
        config, allocator, closing, provider, history
<1>1. Types' /\ Counted'
  BY DEF Counted, Places
<1>2. Locked' /\ Tracked'
  BY DEF Tracked, Locked, Places
<1>3. Distinct'
  BY DEF Distinct, Counted, Shared
<1>4. Shared'
  BY DEF Shared, Tracked, Locked, Counted
<1>5. Owned'
  BY DEF Owned, Shared, Tracked, Distinct, Counted, Locked
<1>6. Repairable'
  BY DEF Repairable, Shared, Tracked, Owned, Counted, Locked
<1> QED BY <1>1, <1>2, <1>3, <1>4, <1>5, <1>6

LEMMA ReleaseCancelledStep ==
  ASSUME Inv, NEW b \in Backends, ReleaseCancelled(b) PROVE Inv'
<1> USE BoundsAssumption
    DEF Inv, Types, Making, Busy, ReleaseCancelled, Goes, Fault, Allocated,
        config, allocator, closing, provider, history
<1>1. Types' /\ Counted'
  BY DEF Counted, Places
<1>2. Locked' /\ Tracked'
  BY DEF Tracked, Locked, Places
<1>3. Distinct'
  BY DEF Distinct, Counted, Shared
<1>4. Shared'
  BY DEF Shared, Tracked, Locked, Counted
<1>5. Owned'
  BY DEF Owned, Shared, Tracked, Distinct, Counted, Locked
<1>6. Repairable'
  BY DEF Repairable, Shared, Tracked, Owned, Counted, Locked
<1> QED BY <1>1, <1>2, <1>3, <1>4, <1>5, <1>6

LEMMA DeletesStep ==
  ASSUME Inv, NEW b \in Backends, Deletes(b) PROVE Inv'
<1> USE BoundsAssumption
    DEF Inv, Types, Making, Busy, Deletes, Returns, Goes, Fault, Unlocks, Allocated,
        config, allocator, closing, provider, history
<1>1. Types' /\ Counted'
  BY DEF Counted, Places
<1>2. Locked' /\ Tracked'
  BY DEF Tracked, Locked, Places
<1>3. Distinct'
  BY DEF Distinct, Counted, Shared
<1>4. Shared'
  BY DEF Shared, Tracked, Locked, Counted
<1>5. Owned'
  BY DEF Owned, Shared, Tracked, Distinct, Counted, Locked
<1>6. Repairable'
  BY DEF Repairable, Shared, Tracked, Owned, Counted, Locked
<1> QED BY <1>1, <1>2, <1>3, <1>4, <1>5, <1>6

LEMMA DeleteFailsStep ==
  ASSUME Inv, NEW b \in Backends, DeleteFails(b) PROVE Inv'
<1> USE BoundsAssumption
    DEF Inv, Types, Making, Busy, DeleteFails, Goes, Fault, Unlocks, Allocated,
        config, allocator, closing, provider, history
<1>1. Types' /\ Counted'
  BY DEF Counted, Places
<1>2. Locked' /\ Tracked'
  BY DEF Tracked, Locked, Places
<1>3. Distinct'
  BY DEF Distinct, Counted, Shared
<1>4. Shared'
  BY DEF Shared, Tracked, Locked, Counted
<1>5. Owned'
  BY DEF Owned, Shared, Tracked, Distinct, Counted, Locked
<1>6. Repairable'
  BY DEF Repairable, Shared, Tracked, Owned, Counted, Locked
<1> QED BY <1>1, <1>2, <1>3, <1>4, <1>5, <1>6

LEMMA DeleteCancelledStep ==
  ASSUME Inv, NEW b \in Backends, DeleteCancelled(b) PROVE Inv'
<1> USE BoundsAssumption
    DEF Inv, Types, Making, Busy, DeleteCancelled, Goes, Fault, Unlocks, Allocated,
        config, allocator, closing, provider, history
<1>1. Types' /\ Counted'
  BY DEF Counted, Places
<1>2. Locked' /\ Tracked'
  BY DEF Tracked, Locked, Places
<1>3. Distinct'
  BY DEF Distinct, Counted, Shared
<1>4. Shared'
  BY DEF Shared, Tracked, Locked, Counted
<1>5. Owned'
  BY DEF Owned, Shared, Tracked, Distinct, Counted, Locked
<1>6. Repairable'
  BY DEF Repairable, Shared, Tracked, Owned, Counted, Locked
<1> QED BY <1>1, <1>2, <1>3, <1>4, <1>5, <1>6

\* A crash leaves no backend that still works, and an allocator that starts anew.
LEMMA CrashStep == ASSUME Inv, Crashes PROVE Inv'
BY BoundsAssumption
   DEF Crashes, Inv, Types, Places, Busy, Making, Counted, Locked, Tracked, Distinct, Shared,
       Owned, Repairable, Allocated, config

\* The allocator's close, but for the backends it closes, changes none of this.
LEMMA QuietStep == ASSUME Inv, CloseBegins \/ CloserGoesOn \/ UNCHANGED vars PROVE Inv'
BY DEF CloseBegins, CloserGoesOn, vars, Inv, Types, Counted, Locked, Tracked, Distinct, Shared,
       Owned, Repairable, Allocated, config, allocator, closing, provider, history

LEMMA Invariance == Spec => []Inv
<1>1. Inv /\ [Next]_vars => Inv'
  <2> SUFFICES ASSUME Inv, [Next]_vars PROVE Inv'
    OBVIOUS
  <2>1. ASSUME NEW b \in Backends, Step(b) PROVE Inv'
    BY <2>1, AllocatesStep, ConnectsStep, RecordsStep, CreatesStep, CreateFailsStep, ImportStep,
       EventStep, OpensStep, CreationFailsStep, InVainStep, ClosesStep, ReleasesStep,
       ReleaseCancelledStep, DeletesStep, DeleteFailsStep, DeleteCancelledStep DEF Step
  <2> QED BY <2>1, CrashStep, QuietStep DEF Next
<1> QED BY <1>1, Start, PTL DEF Spec

-----------------------------------------------------------------------------
\* An open backend has its sandbox, whoever else shares it, closes, fails or is cancelled
\* (options without an idempotency key).
THEOREM OpenMeansAlive == Spec => []UsersKeepTheirSandbox
<1>1. Inv => UsersKeepTheirSandbox
  BY DEF Inv, Owned, UsersKeepTheirSandbox
<1> QED BY <1>1, Invariance, PTL

\* All open backends of a shared allocator work in one sandbox.
THEOREM OpenMeansShared == Spec => []SharedIsOne
<1>1. Inv => SharedIsOne
  BY DEF Inv, Shared, Tracked, Allocated, SharedIsOne
<1> QED BY <1>1, Invariance, PTL

\* A failed deletion leaves somebody who can repeat it: the shared reference outlives its
\* sandbox for good only after a cancelled deletion.
THEOREM FailuresAreRepairable == Spec => []OnlyCancellationWedges
<1>1. Inv => OnlyCancellationWedges
  BY BoundsAssumption
     DEF Inv, Types, Locked, Busy, Shared, Repairable, Allocated, OnlyCancellationWedges
<1> QED BY <1>1, Invariance, PTL

-----------------------------------------------------------------------------
(* What the allocator's close leaves behind.                               *)

Sorted ==
  /\ current \in Backends \cup {Nobody} /\ rest \subseteq Backends
  /\ \A b \in tracked : at[b] \in {"open", "closing", "retry"}

\* Who is responsible for a sandbox: a backend that is being made or deleted, or a tracked one.
Minds(b) == b \in tracked \/ at[b] \in Making \cup {"deleting"}

Minded ==
  (Allocated /\ cleanup = "on_close") =>
    /\ \A s \in alive \ excused : \E b \in Backends : ref[b] = s /\ Minds(b)
    /\ sharedRef \in alive \ excused =>
         \E b \in Backends : b \in tracked \/ at[b] = "deleting"

\* A close that goes on creates nothing, and will come to every backend left.
Swept ==
  closer \in {"closing", "done"} =>
    /\ Allocated
    /\ \A b \in Backends : Minds(b) => closer = "closing" /\ (b \in rest \/ b = current)

\* Once close() has begun, nothing is made any more.
Stopped ==
  closer # "idle" => \A b \in Backends : at[b] \notin Busy \ {"deleting"}

Account == Sorted /\ Minded /\ Swept /\ Stopped

LEMMA AccountStep == ASSUME Inv, Account, NEW b \in Backends, Step(b) PROVE Account'
<1> USE BoundsAssumption
    DEF Inv, Types, Making, Busy, Places, Account, Sorted, Minds, Minded, Swept,
        Stopped, Allocated, Locked, Tracked, Shared, Counted, config, allocator, closing,
        provider, history
<1>1. CASE Allocates(b)
  BY <1>1 DEF Allocates, Goes
<1>2. CASE Connects(b)
  BY <1>2 DEF Connects, Goes, Fault, Unlocks
<1>3. CASE RecordsStart(b) \/ RecordsEnd(b)
  BY <1>3 DEF RecordsStart, RecordsEnd, Goes
<1>4. CASE Creates(b)
  BY <1>4 DEF Creates, Goes
<1>5. CASE CreateFails(b)
  BY <1>5 DEF CreateFails, Goes, Fault, Unlocks
<1>6. CASE Installs(b) \/ Imported(b) \/ Imports(b) \/ Removes(b)
  BY <1>6 DEF Installs, Imported, Imports, Removes, Goes
<1>7. CASE Opens(b)
  BY <1>7 DEF Opens, Goes, Unlocks
<1>8. CASE CreationFails(b)
  BY <1>8 DEF CreationFails, Goes, Fault, Unlocks
<1>9. CASE CreatedInVain(b)
  BY <1>9 DEF CreatedInVain, Goes, Unlocks
<1>10. CASE Closes(b) \/ CloserTakes(b)
  BY <1>10 DEF Closes, CloserTakes, CallsClose, Goes
<1>11. CASE Releases(b)
  BY <1>11 DEF Releases, LastUser, Returns, Goes, Fault
<1>12. CASE ReleaseCancelled(b)
  BY <1>12 DEF ReleaseCancelled, Goes, Fault
<1>13. CASE Deletes(b)
  BY <1>13 DEF Deletes, Returns, Goes, Fault, Unlocks
<1>14. CASE DeleteFails(b)
  BY <1>14 DEF DeleteFails, Goes, Fault, Unlocks
<1>15. CASE DeleteCancelled(b)
  BY <1>15 DEF DeleteCancelled, Goes, Fault, Unlocks
<1> QED BY <1>1, <1>2, <1>3, <1>4, <1>5, <1>6, <1>7, <1>8, <1>9, <1>10, <1>11, <1>12,
           <1>13, <1>14, <1>15 DEF Step

LEMMA Accounting == Spec => []Account
<1> USE BoundsAssumption
    DEF Types, Making, Busy, Places, Account, Sorted, Minded, Swept, Stopped, Minds, Allocated,
        config, allocator, closing, provider, history
<1>1. Init => Account
  BY DEF Init
<1>2. Inv /\ Account /\ [Next]_vars => Account'
  <2> SUFFICES ASSUME Inv, Account, [Next]_vars PROVE Account'
    OBVIOUS
  <2>1. CASE CloseBegins
    BY <2>1 DEF CloseBegins, Inv, Locked
  <2>2. CASE CloserGoesOn
    BY <2>2 DEF CloserGoesOn, Inv, Locked
  <2>3. CASE Crashes
    BY <2>3 DEF Crashes, Inv
  <2>4. CASE UNCHANGED vars
    BY <2>4 DEF vars, Inv
  <2> QED BY <2>1, <2>2, <2>3, <2>4, AccountStep DEF Next
<1> QED BY <1>1, <1>2, Invariance, PTL DEF Spec

\* An allocator that has closed without an error leaves only what a failed creation or a
\* cancelled deletion had left behind.
THEOREM ClosedMeansDeleted == Spec => []ClosingDeletesAll
<1>1. Account => ClosingDeletesAll
  BY DEF Account, Minded, Swept, ClosingDeletesAll
<1> QED BY <1>1, Accounting, PTL

-----------------------------------------------------------------------------
(* The outbox: what an import has read is all there is to remove.          *)

Current ==
  /\ outbox \subseteq Events /\ count <= MaxSandboxes
  /\ batch \in [Backends -> SUBSET Events]
  /\ Allocated \/ ~keyed => \A b \in Backends : at[b] = "importing" => batch[b] = Outbox(b)

LEMMA CurrentStep == ASSUME Inv, Current, [Next]_vars PROVE Current'
<1> USE BoundsAssumption
    DEF Inv, Types, Making, Busy, Places, Locked, Current, Outbox, Events, Allocated,
        config, allocator, closing, provider, history
<1>1. ASSUME NEW b \in Backends, Step(b) PROVE Current'
  <2>1. CASE Allocates(b)
    BY <2>1 DEF Allocates, Goes
  <2>2. CASE Connects(b)
    BY <2>2 DEF Connects, Goes, Fault, Unlocks
  <2>3. CASE RecordsStart(b) \/ RecordsEnd(b)
    BY <2>3 DEF RecordsStart, RecordsEnd, Goes
  <2>4. CASE Creates(b)
    BY <2>4 DEF Creates, Goes
  <2>5. CASE CreateFails(b)
    BY <2>5 DEF CreateFails, Goes, Fault, Unlocks
  <2>6. CASE Installs(b)
    BY <2>6 DEF Installs, Goes
  <2>7. CASE Imports(b)
    BY <2>7 DEF Imports
  <2>8. CASE Removes(b)
    BY <2>8 DEF Removes, OfOperation
  <2>9. CASE Imported(b) \/ Opens(b) \/ CreationFails(b) \/ CreatedInVain(b)
    BY <2>9 DEF Imported, Opens, CreationFails, CreatedInVain, Goes, Unlocks, Fault
  <2>10. CASE Closes(b) \/ CloserTakes(b) \/ Releases(b) \/ ReleaseCancelled(b)
    BY <2>10 DEF Closes, CloserTakes, CallsClose, Releases, ReleaseCancelled, Returns, Goes, Fault
  <2>11. CASE Deletes(b) \/ DeleteFails(b) \/ DeleteCancelled(b)
    BY <2>11 DEF Deletes, DeleteFails, DeleteCancelled, Returns, Goes, Fault, Unlocks
  <2> QED BY <1>1, <2>1, <2>2, <2>3, <2>4, <2>5, <2>6, <2>7, <2>8, <2>9, <2>10, <2>11 DEF Step
<1>2. CASE CloseBegins \/ CloserGoesOn
  BY <1>2 DEF CloseBegins, CloserGoesOn
<1>3. CASE Crashes
  BY <1>3 DEF Crashes
<1>4. CASE UNCHANGED vars
  BY <1>4 DEF vars
<1> QED BY <1>1, <1>2, <1>3, <1>4 DEF Next

\* Only the removal takes events from the outbox, and what it takes is recorded.
LEMMA RemovedIsRecorded ==
  ASSUME Inv, Current, [Next]_vars, Allocated \/ ~keyed, NEW e \in outbox \ outbox'
  PROVE  \E s \in Sandboxes : e \in recorded[s]
<1>1. PICK b \in Backends : Removes(b)
  BY DEF Next, vars, history, CloseBegins, CloserGoesOn, Crashes, Step, Allocates, Connects,
         RecordsStart, Creates, CreateFails, RecordsEnd, Installs, Imports, Imported, Opens,
         CreationFails, CreatedInVain, Closes, Releases, ReleaseCancelled, Deletes, DeleteFails,
         DeleteCancelled, CloserTakes
<1>2. PICK x \in Backends :
        /\ batch[b] \cap OfOperation(x) # {}
        /\ batch[b] \cap OfOperation(x) \subseteq recorded[ref[b]]
        /\ outbox' = outbox \ OfOperation(x)
  BY <1>1 DEF Removes
<1>3. e \in OfOperation(x) /\ batch[b] = Outbox(b)
  BY <1>1, <1>2 DEF Current, Removes
<1>4. e \in batch[b]
  BY <1>2, <1>3 DEF Outbox, OfOperation
<1>5. ref[b] \in Sandboxes
  BY <1>1, BoundsAssumption DEF Removes, Inv, Types, Counted, Making, Current, Sandboxes
<1> QED BY <1>2, <1>3, <1>4, <1>5

\* No event is removed from the outbox before some sandbox's history has it, through any
\* failures, crashes and replays.
THEOREM EventsAreKept == Spec => NoEventIsLost
<1>1. Init => Current
  BY BoundsAssumption DEF Init, Current, Events
<1>2. Inv /\ Current /\ [Next]_vars => Current'
  BY CurrentStep
<1>3. Inv /\ Current /\ [Next]_vars =>
        [(Allocated \/ ~keyed) =>
           \A e \in outbox \ outbox' : \E s \in Sandboxes : e \in recorded[s]]_vars
  BY RemovedIsRecorded
<1> QED BY <1>1, <1>2, <1>3, Invariance, PTL DEF Spec, NoEventIsLost
=============================================================================
