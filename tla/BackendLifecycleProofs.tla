---------------------- MODULE BackendLifecycleProofs ----------------------
(***************************************************************************)
(* Proofs about BackendLifecycle for any number of callers and closers:    *)
(* the gate, the close lock and the deletion, then the limiters, what      *)
(* pause() and resume() report, and what a failed close() leaves behind.   *)
(***************************************************************************)
EXTENDS BackendLifecycle, FiniteSetTheorems, TLAPS

USE ClosersAssumption DEF remote

InsideSteps == {"inside", "reconcile", "ending"}

\* The tasks inside the gate are finitely many.
LEMMA InsideIsFinite == IsFiniteSet(Inside) /\ Inside \subseteq Tasks
BY TasksAssumption, FS_Subset DEF Inside

\* The gate is entered by one task at a time ...
LEMMA Entering ==
  ASSUME NEW t \in Tasks, TypeOK, op[t] \notin InsideSteps,
         op' = [op EXCEPT ![t] = "inside"]
  PROVE  /\ Inside' = Inside \cup {t}
         /\ Cardinality(Inside') = Cardinality(Inside) + 1
<1>1. Inside' = Inside \cup {t} /\ t \notin Inside
  BY DEF Inside, InsideSteps, TypeOK
<1>2. QED
  BY <1>1, InsideIsFinite, FS_AddElement

\* ... and left by one at a time.
LEMMA Leaving ==
  ASSUME NEW t \in Tasks, TypeOK, op[t] \in InsideSteps,
         op' = [op EXCEPT ![t] = "idle"]
  PROVE  /\ Inside' = Inside \ {t}
         /\ Cardinality(Inside') = Cardinality(Inside) - 1
         /\ Cardinality(Inside) \in Nat \ {0}
<1>1. Inside' = Inside \ {t} /\ t \in Inside
  BY DEF Inside, InsideSteps, TypeOK
<1>2. Cardinality(Inside') = Cardinality(Inside) - 1
  BY <1>1, InsideIsFinite, FS_RemoveElement
<1>3. Cardinality(Inside) # 0
  BY <1>1, InsideIsFinite, FS_EmptySet
<1>4. QED
  BY <1>1, <1>2, <1>3, InsideIsFinite, FS_CardinalityType

\* Any other move of a task leaves the set of tasks inside as it was.
LEMMA Staying ==
  ASSUME NEW t \in Tasks, NEW s \in OpSteps, TypeOK,
         op[t] \in InsideSteps <=> s \in InsideSteps,
         op' = [op EXCEPT ![t] = s]
  PROVE  Inside' = Inside
BY DEF Inside, InsideSteps, TypeOK, OpSteps

-----------------------------------------------------------------------------
CountInv == active = Cardinality(Inside)

\* What a request whose answer is not known to be good may do to the sandbox, now or later.
LEMMA Requesting ==
  ASSUME NEW k \in Requests, TypeOK, Uncertain(k)
  PROVE  /\ sandbox' \in {"running", "paused", "deleted"} /\ late' \subseteq Requests
         /\ sandbox = "deleted" => sandbox' = "deleted"
BY DEF Requests, TypeOK, Uncertain, Needs, Target

\* One step of a calling task keeps the types and the gate's count.
LEMMA TaskStepCounts ==
  ASSUME NEW t \in Tasks, TypeOK, CountInv, TaskStep(t)
  PROVE  TypeOK' /\ CountInv'
<1> USE DEF TypeOK, OpSteps, Goto, Take, Give, GiveBack, HoldsSlot, Limited, Pool,
            closeVars, gateVars
<1>1. CASE TakeSlot(t)
  <2>1. TypeOK' BY <1>1 DEF TakeSlot
  <2>2. Inside' = Inside BY <1>1, Staying DEF TakeSlot, InsideSteps
  <2>3. QED BY <1>1, <2>1, <2>2 DEF TakeSlot, CountInv
<1>2. CASE Admit(t)
  <2>1. TypeOK' BY <1>2, SlotsAssumption DEF Admit, AtGate
  <2>2. Cardinality(Inside') = Cardinality(Inside) + 1
    BY <1>2, Entering DEF Admit, AtGate, InsideSteps
  <2>3. QED BY <1>2, <2>1, <2>2 DEF Admit, CountInv
<1>3. CASE Refuse(t) \/ GiveUp(t)
  <2>1. free' \in [{"work", "lifecycle"} -> Nat]
    BY <1>3 DEF Refuse, GiveUp
  <2>2. op' \in [Tasks -> OpSteps] /\ kind' \in [Tasks -> Kinds \cup {"none"}]
        /\ ok' \in [Tasks -> BOOLEAN]
    BY <1>3 DEF Refuse, GiveUp, Return
  <2>3. TypeOK' BY <1>3, <2>1, <2>2 DEF Refuse, GiveUp
  <2>4. Inside' = Inside BY <1>3, Staying DEF Refuse, GiveUp, Return, AtGate, InsideSteps
  <2>5. QED BY <1>3, <2>3, <2>4 DEF Refuse, GiveUp, CountInv
<1>4. CASE Leave(t)
  <2>1. /\ Cardinality(Inside') = Cardinality(Inside) - 1
        /\ Cardinality(Inside) \in Nat \ {0}
    BY <1>4, Leaving DEF Leave, Return, InsideSteps
  <2>2. active' = active - 1 /\ active \in Nat \ {0}
    BY <1>4, <2>1 DEF Leave, CountInv
  <2>3. TypeOK' BY <1>4, <2>2 DEF Leave, Return
  <2>4. QED BY <2>1, <2>2, <2>3 DEF CountInv
<1>5. CASE Succeed(t) \/ Fail(t) \/ Reconcile(t) \/ Abort(t)
  <2>1. sandbox' \in {"running", "paused", "deleted"} /\ late' \subseteq Requests
    BY <1>5, Requesting DEF Succeed, Fail, Reconcile, Abort, Target, Requests
  <2>2. op' \in [Tasks -> OpSteps] /\ ok' \in [Tasks -> BOOLEAN]
    BY <1>5 DEF Succeed, Fail, Reconcile, Abort
  <2>3. TypeOK'
    BY <1>5, <2>1, <2>2 DEF Succeed, Fail, Reconcile, Abort
  <2>4. Inside' = Inside
    BY <1>5, Staying DEF Succeed, Fail, Reconcile, Abort, InsideSteps
  <2>5. QED BY <1>5, <2>3, <2>4 DEF Succeed, Fail, Reconcile, Abort, CountInv
<1>6. QED
  BY <1>1, <1>2, <1>3, <1>4, <1>5 DEF TaskStep, OwnStep, CallStep

\* So does a call, which enters the gate at once if it needs no slot.
LEMMA CallCounts ==
  ASSUME NEW t \in Tasks, NEW k \in Kinds, TypeOK, CountInv, Call(t, k)
  PROVE  TypeOK' /\ CountInv'
<1>1. TypeOK'
  BY DEF Call, TypeOK, OpSteps, Goto, closeVars
<1>2. CASE Limited(k)
  <2>1. Inside' = Inside
    BY <1>2, Staying DEF Call, Goto, InsideSteps, OpSteps
  <2>2. QED BY <1>1, <1>2, <2>1 DEF Call, CountInv
<1>3. CASE ~Limited(k)
  <2>1. Cardinality(Inside') = Cardinality(Inside) + 1
    BY <1>3, Entering DEF Call, Goto, InsideSteps
  <2>2. QED BY <1>1, <1>3, <2>1 DEF Call, CountInv
<1>4. QED BY <1>2, <1>3

-----------------------------------------------------------------------------
(***************************************************************************)
(* The invariant.  _close_lock has one owner, and none once the backend is *)
(* closed; the TTL task exists only in a closed backend.  While a close()  *)
(* whose drain did not fail is under way, and for ever if it succeeds, the *)
(* gate is shut, and once it is drained nobody is inside.  An ON_CLOSE     *)
(* close() reaches its end without an error only if the sandbox is gone.   *)
(***************************************************************************)
LockInv ==
  /\ \A c \in Closers : step[c] \notin {"idle", "locking"} <=> closeLock = c
  /\ closed => closeLock = NoOne
  /\ step[TTL] # "idle" => closed

PastDrain == DeleteSteps \cup {"resources"}

QuietInv ==
  "drain" \notin faults =>
    /\ closed \/ closeLock # NoOne => closing
    /\ closed \/ (\E c \in Closers : step[c] \in PastDrain) => Inside = {}

\* The gate is shut only by a close() under way or one that succeeded.
GateInv == closing => closed \/ closeLock # NoOne

GoneInv ==
  /\ \A c \in Closers :
       step[c] = "resources" /\ ~failed[c] /\ cleanup = "on_close" => sandbox = "deleted"
  /\ \A d \in Deleters : step[d] = "renew" => sandbox = "deleted"

IInv == /\ TypeOK /\ CountInv /\ LockInv /\ QuietInv
        /\ GateInv /\ GoneInv /\ ClosedMeansDeleted

CloserAction(c) == CallClose(c) \/ TakeCloseLock(c) \/ CloseStep(c) \/ CloseCancelled(c)

\* The invariant holds when the backend is created.
LEMMA InitIInv == Init => IInv
<1> SUFFICES ASSUME Init PROVE IInv
  OBVIOUS
<1>1. TypeOK
  BY SlotsAssumption DEF Init, TypeOK, OpSteps, CloseSteps
<1>2. Inside = {}
  BY DEF Init, Inside
<1>3. CountInv
  BY <1>2, FS_EmptySet DEF Init, CountInv
<1>4. QED
  BY <1>1, <1>2, <1>3 DEF Init, IInv, LockInv, QuietInv, GateInv, GoneInv,
     ClosedMeansDeleted, Deleters, PastDrain, DeleteSteps

\* A request that lands late finds everything but the sandbox as it was.
LEMMA Landing ==
  ASSUME NEW k \in Requests, TypeOK, Lands(k)
  PROVE  /\ TypeOK'
         /\ sandbox = "deleted" => sandbox' = "deleted"
         /\ UNCHANGED <<cleanup, closing, active, closed, deleting, free, op, kind, ok,
                        closeLock, step, failed, faults>>
BY DEF Requests, TypeOK, Lands, Needs, Target, gateVars, opVars, closeVars

\* A deleted sandbox stays deleted, whoever moves.
LEMMA DeletedForEver ==
  ASSUME TypeOK, Next, sandbox = "deleted"
  PROVE  sandbox' = "deleted"
BY Landing, Requesting DEF Requests,  Next, TaskStep, OwnStep, CallStep, Call, TakeSlot, Admit, Refuse, GiveUp, Leave,
       Succeed, Fail, Reconcile, Abort, Needs, CallClose, TakeCloseLock, CloseStep,
       CloseCancelled, TTLStep, LeaveLockQueue, AlreadyClosed, BeginClose, Drained,
       DrainTimeout, DrainCancelled, TTLFires, DeleteStep, DeleteTakesSlot, SlotTimeout,
       HistoryRefuses, ProviderDeletes, ProviderFails, CheckFindsNothing, CheckFails,
       RenewFails, DeletionCancelled, CloseResources, TTLEnds

\* Operations pass the gate only while it is open.
LEMMA ShutGateAdmitsNobody ==
  ASSUME NEW t \in Tasks, TypeOK, closing, TaskStep(t) \/ \E k \in Kinds : Call(t, k)
  PROVE  Inside' \subseteq Inside
<1>1. ASSUME NEW k \in Kinds, Call(t, k) PROVE Inside' = Inside
  BY <1>1, Staying DEF Call, Goto, InsideSteps, OpSteps
<1>2. ASSUME TakeSlot(t) \/ Refuse(t) \/ GiveUp(t) PROVE Inside' = Inside
  BY <1>2, Staying DEF TakeSlot, Refuse, GiveUp, AtGate, Return, Goto, InsideSteps, OpSteps
<1>3. ASSUME CallStep(t) PROVE Inside' = Inside
  BY <1>3, Staying DEF CallStep, Succeed, Fail, Reconcile, Abort, Goto, InsideSteps, OpSteps
<1>4. ASSUME Leave(t) PROVE Inside' \subseteq Inside
  BY <1>4, Leaving DEF Leave, Return, Goto, InsideSteps
<1>5. ~Admit(t)
  BY DEF Admit
<1>6. QED
  BY <1>1, <1>2, <1>3, <1>4, <1>5 DEF TaskStep, OwnStep

\* Operations move neither a close() nor the gate's flag, and enter only an open gate.
LEMMA OperationsPreserve ==
  ASSUME NEW t \in Tasks, IInv, TaskStep(t) \/ \E k \in Kinds : Call(t, k)
  PROVE  IInv'
<1>1. UNCHANGED <<cleanup, closing, closed, closeLock, step, failed, faults>>
  BY DEF TaskStep, OwnStep, CallStep, Call, TakeSlot, Admit, Refuse, GiveUp, Leave,
         Succeed, Fail, Reconcile, Abort, gateVars, closeVars
<1>2. TypeOK' /\ CountInv'
  BY TaskStepCounts, CallCounts DEF IInv
<1>3. sandbox = "deleted" => sandbox' = "deleted"
  BY DeletedForEver DEF IInv, Next
<1>4. closing => Inside' \subseteq Inside
  BY ShutGateAdmitsNobody DEF IInv
<1>5. LockInv' /\ GateInv'
  BY <1>1 DEF IInv, LockInv, GateInv
<1>6. QuietInv'
  BY <1>1, <1>4 DEF IInv, QuietInv, LockInv, PastDrain, DeleteSteps
<1>7. GoneInv' /\ ClosedMeansDeleted'
  BY <1>1, <1>3 DEF IInv, GoneInv, ClosedMeansDeleted
<1>8. QED
  BY <1>2, <1>5, <1>6, <1>7 DEF IInv

\* close() and the TTL task keep the types ...
LEMMA ClosingKeepsTypes ==
  ASSUME TypeOK, (\E c \in Closers : CloserAction(c)) \/ TTLStep
  PROVE  TypeOK'
<1> USE DEF TypeOK, Deleters, CloseSteps, DeleteSteps, Faults, At, Move, Record, Take, Give,
            gateVars, opVars, Deleted, DeletionFailed, AfterDeletion
<1>1. ASSUME NEW c \in Closers,
             \/ CallClose(c) \/ LeaveLockQueue(c) \/ AlreadyClosed(c) \/ BeginClose(c)
      PROVE  TypeOK'
  BY <1>1 DEF CallClose, LeaveLockQueue, AlreadyClosed, BeginClose
<1>2. ASSUME NEW c \in Closers, Drained(c) \/ DrainTimeout(c) \/ DrainCancelled(c)
      PROVE  TypeOK'
  BY <1>2 DEF Drained, DrainTimeout, DrainCancelled, ApplyPolicy, Delete, KeepSandbox, Schedule
<1>3. ASSUME NEW d \in Deleters, DeleteTakesSlot(d) \/ SlotTimeout(d) \/ HistoryRefuses(d)
      PROVE  TypeOK'
  <2>1. free' \in [{"work", "lifecycle"} -> Nat]
    BY <1>3 DEF DeleteTakesSlot, SlotTimeout, HistoryRefuses
  <2>2. step' \in [Deleters -> CloseSteps] /\ failed' \in [Deleters -> BOOLEAN]
    BY <1>3 DEF DeleteTakesSlot, SlotTimeout, HistoryRefuses
  <2>3. QED
    BY <1>3, <2>1, <2>2 DEF DeleteTakesSlot, SlotTimeout, HistoryRefuses
<1>4. ASSUME NEW d \in Deleters,
             \/ ProviderDeletes(d) \/ ProviderFails(d) \/ CheckFindsNothing(d)
             \/ CheckFails(d) \/ RenewFails(d)
      PROVE  TypeOK'
  <2>1. free' \in [{"work", "lifecycle"} -> Nat]
    BY <1>4 DEF ProviderDeletes, ProviderFails, CheckFindsNothing, CheckFails, RenewFails
  <2>2. step' \in [Deleters -> CloseSteps] /\ failed' \in [Deleters -> BOOLEAN]
    BY <1>4 DEF ProviderDeletes, ProviderFails, CheckFindsNothing, CheckFails, RenewFails
  <2>3. sandbox' \in {"running", "paused", "deleted"} /\ late' \subseteq Requests
    BY <1>4, Requesting
    DEF ProviderDeletes, ProviderFails, CheckFindsNothing, CheckFails, RenewFails, Requests
  <2>4. QED
    BY <1>4, <2>1, <2>2, <2>3
    DEF ProviderDeletes, ProviderFails, CheckFindsNothing, CheckFails, RenewFails
<1>5. ASSUME NEW c \in Closers, DeletionCancelled(c) \/ CloseResources(c)
      PROVE  TypeOK'
  <2>1. free' \in [{"work", "lifecycle"} -> Nat]
    BY <1>5 DEF DeletionCancelled, CloseResources
  <2>2. step' \in [Deleters -> CloseSteps]
    BY <1>5 DEF DeletionCancelled, CloseResources
  <2>3. failed' \in [Deleters -> BOOLEAN]
    BY <1>5 DEF DeletionCancelled, CloseResources
  <2>4. sandbox' \in {"running", "paused", "deleted"} /\ late' \subseteq Requests
    BY <1>5, Requesting DEF DeletionCancelled, CloseResources, Requests
  <2>5. QED
    BY <1>5, <2>1, <2>2, <2>3, <2>4 DEF DeletionCancelled, CloseResources, Finish
<1>6. ASSUME TTLFires \/ TTLEnds PROVE TypeOK'
  BY <1>6 DEF TTLFires, TTLEnds
<1>7. QED
  BY <1>1, <1>2, <1>3, <1>4, <1>5, <1>6
  DEF CloserAction, TakeCloseLock, CloseStep, CloseCancelled, DeleteStep, TTLStep

\* ... leave the operations alone ...
LEMMA ClosingKeepsOperations ==
  ASSUME (\E c \in Closers : CloserAction(c)) \/ TTLStep
  PROVE  op' = op /\ active' = active /\ cleanup' = cleanup
BY DEF CloserAction, CallClose, TakeCloseLock, CloseStep, CloseCancelled, TTLStep,
       LeaveLockQueue, AlreadyClosed, BeginClose, Drained, DrainTimeout, DrainCancelled,
       TTLFires, DeleteStep, DeleteTakesSlot, SlotTimeout, HistoryRefuses, ProviderDeletes,
       ProviderFails, CheckFindsNothing, CheckFails, RenewFails, DeletionCancelled,
       CloseResources, TTLEnds, Deleted, DeletionFailed, AfterDeletion, gateVars, opVars

\* ... and, up to the end of the drain, keep the invariant: the only steps that shut or
\* reopen the gate before a deletion can start.
LEMMA DrainingPreserves ==
  ASSUME NEW c \in Closers, IInv,
         \/ CallClose(c) \/ LeaveLockQueue(c) \/ TakeCloseLock(c)
         \/ Drained(c) \/ DrainTimeout(c) \/ DrainCancelled(c)
  PROVE  LockInv' /\ QuietInv' /\ GateInv' /\ GoneInv' /\ ClosedMeansDeleted'
<1>1. op' = op /\ active' = active /\ cleanup' = cleanup /\ Inside' = Inside
  BY ClosingKeepsOperations DEF CloserAction, CloseStep, CloseCancelled, Inside
<1>2. sandbox' = sandbox
  BY DEF CallClose, LeaveLockQueue, TakeCloseLock, AlreadyClosed, BeginClose, Drained,
         DrainTimeout, DrainCancelled
<1>3. CASE CallClose(c) \/ LeaveLockQueue(c) \/ AlreadyClosed(c)
  <2>1. /\ UNCHANGED <<closing, closed, closeLock, failed, faults>>
        /\ \E s \in {"idle", "locking"} : step' = [step EXCEPT ![c] = s]
        /\ step[c] \in {"idle", "locking"}
    BY <1>3 DEF CallClose, LeaveLockQueue, AlreadyClosed, At, Move, gateVars
  <2>2. QED
    BY <1>1, <1>2, <2>1
    DEF IInv, TypeOK, Deleters, LockInv, QuietInv, PastDrain, DeleteSteps,
        GateInv, GoneInv, ClosedMeansDeleted
<1>4. CASE BeginClose(c)
  <2>1. /\ closeLock = NoOne /\ ~closed /\ UNCHANGED closed
        /\ closeLock' = c /\ closing' = TRUE
        /\ step' = [step EXCEPT ![c] = "draining"]
        /\ failed' = [failed EXCEPT ![c] = FALSE]
    BY <1>4 DEF BeginClose, At, Move
  <2>2. \A e \in Closers : step[e] \in {"idle", "locking"}
    BY <2>1 DEF IInv, LockInv
  <2>3. \A e \in Closers : step'[e] \notin PastDrain
    BY <2>1, <2>2 DEF IInv, TypeOK, Deleters, PastDrain, DeleteSteps
  <2>4. LockInv' /\ GateInv'
    BY <2>1, <2>2 DEF IInv, LockInv, TypeOK, Deleters, GateInv
  <2>5. QuietInv' /\ ClosedMeansDeleted'
    BY <2>1, <2>3 DEF QuietInv, ClosedMeansDeleted
  <2>6. GoneInv'
    BY <1>1, <1>2, <2>1, <2>3
    DEF IInv, GoneInv, TypeOK, Deleters, PastDrain, DeleteSteps
  <2>7. QED
    BY <2>4, <2>5, <2>6
<1>5. CASE Drained(c) \/ DrainTimeout(c) \/ DrainCancelled(c)
  <2>1. step[c] = "draining" /\ closeLock = c /\ ~closed /\ ApplyPolicy(c)
    BY <1>5 DEF Drained, DrainTimeout, DrainCancelled, At, IInv, LockInv
  <2>2. /\ closeLock' # c => closed' /\ closeLock' = NoOne
        /\ closeLock' = c => ~closed' /\ closeLock' = closeLock
        /\ closed' => cleanup = "ttl"
        /\ step'[c] \in {"idle", "slot", "resources"}
        /\ step'[c] = "idle" <=> closed'
        /\ step'[c] = "resources" => cleanup # "on_close"
        /\ \A d \in Closers \ {c} : step'[d] = step[d]
        /\ step'[TTL] # step[TTL] => closed' /\ step'[TTL] = "sleeping"
    BY <2>1 DEF ApplyPolicy, Schedule, Delete, KeepSandbox, Move, IInv, TypeOK, Deleters
  <2>3. /\ DrainTimeout(c) \/ DrainCancelled(c) => "drain" \in faults'
        /\ Drained(c) => UNCHANGED <<closing, faults>> /\ active = 0
        /\ \A d \in Closers \ {c} : failed'[d] = failed[d]
    BY <1>5 DEF Drained, DrainTimeout, DrainCancelled, Record, gateVars, IInv, TypeOK,
       Deleters
  <2>4. \A d \in Closers \ {c} : step[d] \in {"idle", "locking"}
    BY <2>1 DEF IInv, LockInv
  <2>5. LockInv'
    BY <2>1, <2>2, <2>4 DEF IInv, LockInv
  <2>6. closing' => closing
    BY <1>5 DEF Drained, DrainTimeout, DrainCancelled, gateVars
  <2>7. GateInv'
    BY <2>2 DEF GateInv
  <2>8. ClosedMeansDeleted'
    BY <1>1, <2>2 DEF ClosedMeansDeleted
  <2>9. GoneInv'
    <3>1. \A d \in Deleters : step'[d] = "renew" => step[d] = "renew"
      BY <2>2 DEF Deleters
    <3>2. QED
      BY <1>1, <1>2, <2>2, <2>4, <3>1 DEF IInv, GoneInv
  <2>10. QuietInv'
    <3>1. SUFFICES ASSUME Drained(c), "drain" \notin faults PROVE closing /\ Inside = {}
      BY <1>1, <1>5, <2>3 DEF QuietInv
    <3>2. closing
      BY <2>1, <3>1 DEF IInv, QuietInv
    <3>3. Cardinality(Inside) = 0
      BY <2>3, <3>1 DEF IInv, CountInv
    <3>4. QED
      BY <3>2, <3>3, InsideIsFinite, FS_EmptySet
  <2>11. QED
    BY <2>5, <2>7, <2>8, <2>9, <2>10
<1>6. QED
  BY <1>3, <1>4, <1>5 DEF TakeCloseLock

\* What every step of a deletion, finished, failed or cancelled, has in common.
LEMMA DeletionStep ==
  ASSUME NEW d \in Deleters, TypeOK, GoneInv,
         DeleteStep(d) \/ (d \in Closers /\ DeletionCancelled(d))
  PROVE  /\ UNCHANGED <<closing, closed, closeLock>>
         /\ faults \subseteq faults'
         /\ step[d] \in DeleteSteps
         /\ step'[d] \in PastDrain
         /\ \A e \in Deleters \ {d} : step'[e] = step[e] /\ failed'[e] = failed[e]
         /\ step'[d] = "resources" /\ ~failed'[d] => sandbox' = "deleted"
         /\ step'[d] = "renew" => sandbox' = "deleted"
<1> USE DEF TypeOK, At, Move, Record, DeletionFailed, gateVars, PastDrain, DeleteSteps
<1>1. CASE DeleteTakesSlot(d) \/ SlotTimeout(d) \/ HistoryRefuses(d) \/ CheckFails(d)
  BY <1>1 DEF DeleteTakesSlot, SlotTimeout, HistoryRefuses, CheckFails
<1>2. CASE ProviderDeletes(d)
  BY <1>2 DEF ProviderDeletes, AfterDeletion, Deleted
<1>3. CASE CheckFindsNothing(d)
  BY <1>3 DEF CheckFindsNothing, AfterDeletion, Deleted
<1>4. CASE ProviderFails(d)
  BY <1>4 DEF ProviderFails
<1>5. CASE RenewFails(d)
  BY <1>5 DEF RenewFails
<1>6. CASE DeletionCancelled(d)
  <2>1. failed' = [failed EXCEPT ![d] = TRUE] /\ step' = [step EXCEPT ![d] = "resources"]
    BY <1>6 DEF DeletionCancelled
  <2>2. QED
    BY <1>6, <2>1 DEF DeletionCancelled
<1>7. QED
  BY <1>1, <1>2, <1>3, <1>4, <1>5, <1>6 DEF DeleteStep

\* A deletion keeps the invariant, whether it belongs to a close() or to the TTL task.
LEMMA DeletingPreserves ==
  ASSUME NEW d \in Deleters, IInv,
         DeleteStep(d) \/ (d \in Closers /\ DeletionCancelled(d))
  PROVE  LockInv' /\ QuietInv' /\ GateInv' /\ GoneInv' /\ ClosedMeansDeleted'
<1>1. d \in Closers => CloserAction(d)
  BY DEF CloserAction, CloseStep, CloseCancelled
<1>2. d \in Closers \/ TTLStep
  BY DEF Deleters, TTLStep
<1>3. cleanup' = cleanup /\ Inside' = Inside /\ (sandbox = "deleted" => sandbox' = "deleted")
  BY <1>1, <1>2, ClosingKeepsOperations, DeletedForEver
  DEF Inside, IInv, Next, CloserAction
<1>4. /\ UNCHANGED <<closing, closed, closeLock>>
      /\ faults \subseteq faults'
      /\ step[d] \in DeleteSteps
      /\ step'[d] \in PastDrain
      /\ \A e \in Deleters \ {d} : step'[e] = step[e] /\ failed'[e] = failed[e]
      /\ step'[d] = "resources" /\ ~failed'[d] => sandbox' = "deleted"
      /\ step'[d] = "renew" => sandbox' = "deleted"
  BY DeletionStep DEF IInv
<1>5. LockInv'
  BY <1>4 DEF IInv, LockInv, Deleters, PastDrain, DeleteSteps
<1>6. QuietInv' /\ GateInv'
  BY <1>3, <1>4 DEF IInv, QuietInv, GateInv, Deleters, PastDrain
<1>7. GoneInv' /\ ClosedMeansDeleted'
  BY <1>3, <1>4 DEF IInv, GoneInv, ClosedMeansDeleted, Deleters
<1>8. QED
  BY <1>5, <1>6, <1>7

\* The end of close(): the backend is closed over a drained gate, or the gate reopens.
LEMMA FinishPreserves ==
  ASSUME NEW c \in Closers, IInv, CloseResources(c)
  PROVE  LockInv' /\ QuietInv' /\ GateInv' /\ GoneInv' /\ ClosedMeansDeleted'
<1>1. /\ step[c] = "resources" /\ closeLock = c /\ ~closed
      /\ closeLock' = NoOne /\ step' = [step EXCEPT ![c] = "idle"]
      /\ failed' = [failed EXCEPT ![c] = FALSE]
      /\ UNCHANGED <<sandbox, cleanup>>
      /\ faults \subseteq faults'
  BY DEF CloseResources, At, Move, IInv, LockInv
<1>2. /\ closed' => closing' = closing /\ ~failed[c]
      /\ ~closed' => ~closing'
  BY <1>1 DEF CloseResources, Finish
<1>3. Inside' = Inside
  BY ClosingKeepsOperations DEF CloserAction, CloseStep, Inside
<1>4. \A e \in Closers : step'[e] \in {"idle", "locking"}
  BY <1>1 DEF IInv, LockInv, TypeOK, Deleters
<1>5. LockInv'
  BY <1>1, <1>4 DEF IInv, LockInv, TypeOK, Deleters
<1>6. GateInv'
  BY <1>2 DEF GateInv
<1>7. QuietInv'
  <2>1. SUFFICES ASSUME "drain" \notin faults, closed' PROVE closing /\ Inside = {}
    BY <1>1, <1>2, <1>3, <1>4 DEF QuietInv, PastDrain, DeleteSteps
  <2>2. QED
    BY <1>1, <2>1 DEF IInv, QuietInv, PastDrain
<1>8. GoneInv' /\ ClosedMeansDeleted'
  BY <1>1, <1>2, <1>4 DEF IInv, GoneInv, ClosedMeansDeleted, TypeOK, Deleters
<1>9. QED
  BY <1>5, <1>6, <1>7, <1>8

\* The TTL task's own first and last steps.
LEMMA TTLPreserves ==
  ASSUME IInv, TTLFires \/ TTLEnds
  PROVE  LockInv' /\ QuietInv' /\ GateInv' /\ GoneInv' /\ ClosedMeansDeleted'
<1>1. /\ UNCHANGED <<cleanup, sandbox, closing, closed, closeLock, failed, faults, op>>
      /\ step[TTL] # "idle"
      /\ \E s \in {"slot", "done"} : step' = [step EXCEPT ![TTL] = s]
  BY DEF TTLFires, TTLEnds, At, Move, gateVars, opVars
<1>2. Inside' = Inside
  BY <1>1 DEF Inside
<1>3. QED
  BY <1>1, <1>2
  DEF IInv, TypeOK, Deleters, LockInv, QuietInv, PastDrain, DeleteSteps, GateInv,
      GoneInv, ClosedMeansDeleted

-----------------------------------------------------------------------------
\* Every step of the backend keeps the invariant.
LEMMA StepIInv == IInv /\ [Next]_vars => IInv'
<1> SUFFICES ASSUME IInv, [Next]_vars PROVE IInv'
  OBVIOUS
<1>1. CASE \E t \in Tasks : TaskStep(t) \/ \E k \in Kinds : Call(t, k)
  BY <1>1, OperationsPreserve
<1>2. CASE (\E c \in Closers : CloserAction(c)) \/ TTLStep
  <2>1. TypeOK'
    BY <1>2, ClosingKeepsTypes DEF IInv
  <2>2. CountInv'
    BY <1>2, ClosingKeepsOperations DEF IInv, CountInv, Inside
  <2>3. LockInv' /\ QuietInv' /\ GateInv' /\ GoneInv' /\ ClosedMeansDeleted'
    <3>1. ASSUME NEW c \in Closers, CloserAction(c)
          PROVE  /\ LockInv' /\ QuietInv' /\ GateInv' /\ GoneInv'
                 /\ ClosedMeansDeleted'
      <4>1. c # TTL /\ c \in Deleters
        BY DEF Deleters
      <4>2. QED
        BY <3>1, <4>1, DrainingPreserves, DeletingPreserves, FinishPreserves
        DEF CloserAction, CloseStep, CloseCancelled
    <3>2. ASSUME TTLStep
          PROVE  /\ LockInv' /\ QuietInv' /\ GateInv' /\ GoneInv'
                 /\ ClosedMeansDeleted'
      <4>1. TTL \in Deleters
        BY DEF Deleters
      <4>2. QED
        BY <3>2, <4>1, TTLPreserves, DeletingPreserves DEF TTLStep
    <3>3. QED
      BY <1>2, <3>1, <3>2
  <2>4. QED
    BY <2>1, <2>2, <2>3 DEF IInv
<1>3. CASE UNCHANGED vars
  BY <1>3 DEF vars, gateVars, opVars, closeVars, IInv, TypeOK, CountInv, Inside, LockInv,
     QuietInv, GateInv, GoneInv, ClosedMeansDeleted
<1>4. ASSUME NEW k \in Requests, Lands(k) PROVE IInv'
  BY <1>4, Landing DEF IInv, CountInv, Inside, LockInv, QuietInv, GateInv, GoneInv,
     ClosedMeansDeleted
<1>5. QED
  BY <1>1, <1>2, <1>3, <1>4 DEF Next, CloserAction

\* The invariant holds in every reachable state, for any number of callers and closers.
THEOREM Invariance == Spec => []IInv
BY InitIInv, StepIInv, PTL DEF Spec

\* Type correctness.
THEOREM TypeCorrect == Spec => []TypeOK
<1>1. IInv => TypeOK
  BY DEF IInv
<1>2. QED
  BY <1>1, Invariance, PTL

\* close() and the TTL task start a deletion only over an empty gate, unless the wait for
\* the operations failed.
THEOREM DeletionsAreDrained == Spec => []DrainedDeletion
<1>1. IInv => DrainedDeletion
  <2>1. SUFFICES ASSUME IInv, "drain" \notin faults, NEW d \in Deleters, Deleting(d)
                 PROVE  Inside = {}
    BY DEF DrainedDeletion
  <2>2. CASE d = TTL
    BY <2>1, <2>2 DEF IInv, LockInv, QuietInv, Deleting
  <2>3. CASE d \in Closers
    BY <2>1, <2>3 DEF IInv, QuietInv, Deleting, PastDrain, DeleteSteps
  <2>4. QED
    BY <2>1, <2>2, <2>3 DEF Deleters
<1>2. QED
  BY <1>1, Invariance, PTL

\* A close() of an ON_CLOSE backend that succeeds leaves no sandbox behind.
THEOREM CloseDeletes == Spec => []ClosedMeansDeleted
<1>1. IInv => ClosedMeansDeleted
  BY DEF IInv
<1>2. QED
  BY <1>1, Invariance, PTL

\* After a close() that drained the gate, no operation is admitted any more.
THEOREM NoLateAdmission == Spec => NoAdmissionAfterClose
<1>1. IInv /\ [Next]_vars => [closed /\ "drain" \notin faults => Inside' \subseteq Inside]_vars
  <2>1. SUFFICES ASSUME IInv, Next, closed, "drain" \notin faults
                 PROVE  Inside' \subseteq Inside
    OBVIOUS
  <2>2. closing /\ Inside = {}
    BY <2>1 DEF IInv, QuietInv
  <2>3. ASSUME NEW t \in Tasks, TaskStep(t) \/ \E k \in Kinds : Call(t, k)
        PROVE  Inside' \subseteq Inside
    BY <2>1, <2>2, <2>3, ShutGateAdmitsNobody DEF IInv
  <2>4. CASE (\E c \in Closers : CloserAction(c)) \/ TTLStep
    BY <2>4, ClosingKeepsOperations DEF Inside
  <2>5. ASSUME NEW k \in Requests, Lands(k) PROVE Inside' = Inside
    BY <2>1, <2>5, Landing DEF Inside, IInv
  <2>6. QED
    BY <2>1, <2>3, <2>4, <2>5 DEF Next, CloserAction
<1>2. QED
  BY <1>1, Invariance, PTL DEF Spec, NoAdmissionAfterClose

-----------------------------------------------------------------------------
(***************************************************************************)
(* The limiters.  Their free slots and the tasks that hold one add up, and *)
(* the deletion of the sandbox takes part in that: so whoever holds the    *)
(* lifecycle slot is alone with the sandbox's state.                       *)
(***************************************************************************)
Uses(t, p) == HoldsSlot(t) /\ Pool(kind[t]) = p

SlotsInv ==
  /\ \A t \in Tasks : op[t] = "queued" => Limited(kind[t])
  /\ free["work"] + Cardinality(Holders("work")) = WorkSlots
  /\ free["lifecycle"] + Cardinality(Holders("lifecycle")) + Cardinality(DeletingNow) = 1
  /\ \E d \in Deleters : DeletingNow \subseteq {d}

\* The move of one task changes what it holds and nothing else.
LEMMA HoldersMove ==
  ASSUME NEW t \in Tasks, NEW p,
         \A u \in Tasks \ {t} : op'[u] = op[u] /\ kind'[u] = kind[u]
  PROVE  /\ Cardinality(Holders(p)) \in Nat
         /\ Uses(t, p) <=> Uses(t, p)' => Holders(p)' = Holders(p)
         /\ ~Uses(t, p) /\ Uses(t, p)' =>
              Cardinality(Holders(p)') = Cardinality(Holders(p)) + 1
         /\ Uses(t, p) /\ ~Uses(t, p)' =>
              Cardinality(Holders(p)') = Cardinality(Holders(p)) - 1
<1>1. IsFiniteSet(Holders(p)) /\ Cardinality(Holders(p)) \in Nat
  BY TasksAssumption, FS_Subset, FS_CardinalityType DEF Holders
<1>2. \A u \in Tasks \ {t} : u \in Holders(p) <=> u \in Holders(p)'
  BY DEF Holders, HoldsSlot
<1>3. t \in Holders(p) <=> Uses(t, p)
  BY DEF Holders, Uses
<1>4. t \in Holders(p)' <=> Uses(t, p)'
  BY DEF Holders, Uses
<1>5. Holders(p) \subseteq Tasks /\ Holders(p)' \subseteq Tasks
  BY DEF Holders
<1>6. CASE Uses(t, p) <=> Uses(t, p)'
  BY <1>1, <1>2, <1>3, <1>4, <1>5, <1>6
<1>7. CASE ~Uses(t, p) /\ Uses(t, p)'
  <2>1. Holders(p)' = Holders(p) \cup {t} /\ t \notin Holders(p)
    BY <1>2, <1>3, <1>4, <1>5, <1>7
  <2> QED BY <1>1, <1>7, <2>1, FS_AddElement
<1>8. CASE Uses(t, p) /\ ~Uses(t, p)'
  <2>1. Holders(p)' = Holders(p) \ {t} /\ t \in Holders(p)
    BY <1>2, <1>3, <1>4, <1>5, <1>8
  <2> QED BY <1>1, <1>8, <2>1, FS_RemoveElement
<1> QED BY <1>6, <1>7, <1>8

\* One deletion at a time holds the lifecycle slot.
LEMMA DeletersAreOne ==
  ASSUME SlotsInv
  PROVE  /\ IsFiniteSet(DeletingNow)
         /\ Cardinality(DeletingNow) \in {0, 1}
         /\ Cardinality(DeletingNow) = 0 <=> DeletingNow = {}
         /\ \A d \in DeletingNow : DeletingNow = {d}
<1>1. PICK d \in Deleters : DeletingNow \subseteq {d}
  BY DEF SlotsInv
<1>2. DeletingNow = {} \/ DeletingNow = {d}
  BY <1>1
<1> QED BY <1>2, FS_EmptySet, FS_Singleton

\* Nobody else is between the acquisition and the release of the lifecycle slot.
LEMMA LifecycleSlotIsExclusive ==
  ASSUME TypeOK, SlotsInv, NEW t \in Holders("lifecycle")
  PROVE  Holders("lifecycle") = {t} /\ DeletingNow = {}
<1>1. IsFiniteSet(Holders("lifecycle"))
  BY TasksAssumption, FS_Subset DEF Holders
<1>2. /\ Cardinality(Holders("lifecycle") \ {t}) = Cardinality(Holders("lifecycle")) - 1
      /\ {Cardinality(Holders("lifecycle")), Cardinality(Holders("lifecycle") \ {t})} \subseteq Nat
      /\ IsFiniteSet(Holders("lifecycle") \ {t})
  BY <1>1, FS_RemoveElement, FS_CardinalityType
<1>3. Cardinality(Holders("lifecycle") \ {t}) = 0 /\ Cardinality(DeletingNow) = 0
  BY <1>2, DeletersAreOne DEF SlotsInv, TypeOK
<1> QED BY <1>2, <1>3, FS_EmptySet, DeletersAreOne

LEMMA OperationsKeepSlots ==
  ASSUME NEW t \in Tasks, TypeOK, SlotsInv, TaskStep(t) \/ \E k \in Kinds : Call(t, k)
  PROVE  SlotsInv'
<1> USE DEF TypeOK, Goto, Uses, HoldsSlot, Limited, Pool
<1>1. step' = step /\ DeletingNow' = DeletingNow
  BY DEF TaskStep, OwnStep, CallStep, Call, TakeSlot, Admit, Refuse, GiveUp, Leave, Succeed,
         Fail, Reconcile, Abort, closeVars, DeletingNow
<1>2. \A u \in Tasks \ {t} : op'[u] = op[u] /\ kind'[u] = kind[u]
  BY DEF TaskStep, OwnStep, CallStep, Call, TakeSlot, Admit, Refuse, GiveUp, Leave, Succeed,
         Fail, Reconcile, Abort, Return
<1>3. op'[t] = "queued" => Limited(kind[t])'
  BY DEF TaskStep, OwnStep, CallStep, Call, TakeSlot, Admit, Refuse, GiveUp, Leave, Succeed,
         Fail, Reconcile, Abort, Return, SlotsInv
<1>4. ASSUME NEW p \in {"work", "lifecycle"}
      PROVE  free'[p] + Cardinality(Holders(p)') = free[p] + Cardinality(Holders(p))
  <2>1. CASE TakeSlot(t)
    BY <1>2, <2>1, HoldersMove DEF TakeSlot, Take
  <2>2. CASE Admit(t)
    BY <1>2, <2>2, HoldersMove DEF Admit, AtGate, Take, SlotsInv
  <2>3. CASE Refuse(t) \/ GiveUp(t) \/ Leave(t)
    BY <1>2, <2>3, HoldersMove DEF Refuse, GiveUp, Leave, AtGate, Return, GiveBack, Give
  <2>4. CASE CallStep(t)
    BY <1>2, <2>4, HoldersMove DEF CallStep, Succeed, Fail, Reconcile, Abort
  <2>5. CASE \E k \in Kinds : Call(t, k)
    BY <1>2, <2>5, HoldersMove DEF Call
  <2> QED BY <2>1, <2>2, <2>3, <2>4, <2>5 DEF TaskStep, OwnStep
<1> QED BY <1>1, <1>2, <1>3, <1>4 DEF SlotsInv

\* What a step of a deletion does with the lifecycle slot: takes it, gives it back or
\* leaves it.
LEMMA DeletionSlots ==
  ASSUME NEW d \in Deleters, TypeOK, DeleteStep(d) \/ (d \in Closers /\ DeletionCancelled(d))
  PROVE  /\ \A e \in Deleters \ {d} : step'[e] = step[e]
         /\ \/ /\ step[d] = "slot" /\ step'[d] = "delete" /\ free["lifecycle"] > 0
               /\ free' = [free EXCEPT !["lifecycle"] = @ - 1]
            \/ /\ step[d] \in {"delete", "check", "renew"} /\ step'[d] = "resources"
               /\ free' = [free EXCEPT !["lifecycle"] = @ + 1]
            \/ /\ step[d] \in {"delete", "check"} /\ step'[d] \in {"check", "renew"}
               /\ free' = free
            \/ /\ step[d] = "slot" /\ step'[d] = "resources"
               /\ free' = free
<1> USE DEF TypeOK, At, Move, Take, Give, DeletionFailed, Deleted, AfterDeletion, DeleteSteps
<1>1. CASE DeleteTakesSlot(d) \/ SlotTimeout(d) \/ HistoryRefuses(d) \/ CheckFails(d)
  BY <1>1 DEF DeleteTakesSlot, SlotTimeout, HistoryRefuses, CheckFails
<1>2. CASE ProviderDeletes(d) \/ CheckFindsNothing(d)
  BY <1>2 DEF ProviderDeletes, CheckFindsNothing
<1>3. CASE ProviderFails(d) \/ RenewFails(d) \/ DeletionCancelled(d)
  BY <1>3 DEF ProviderFails, RenewFails, DeletionCancelled
<1> QED BY <1>1, <1>2, <1>3 DEF DeleteStep

LEMMA DeletionKeepsSlots ==
  ASSUME NEW d \in Deleters, TypeOK, SlotsInv, op' = op, kind' = kind,
         DeleteStep(d) \/ (d \in Closers /\ DeletionCancelled(d))
  PROVE  SlotsInv'
<1>1. \A p : Holders(p)' = Holders(p)
  BY DEF Holders, HoldsSlot
<1>2. \A e \in Deleters \ {d} : step'[e] = step[e]
  BY DeletionSlots
<1>3. free["lifecycle"] \in Nat /\ Cardinality(Holders("lifecycle")) \in Nat
  BY TasksAssumption, FS_Subset, FS_CardinalityType DEF TypeOK, Holders
<1>4. CASE step[d] = "slot" /\ step'[d] = "delete" /\ free["lifecycle"] > 0
           /\ free' = [free EXCEPT !["lifecycle"] = @ - 1]
  <2>1. DeletingNow = {}
    BY <1>3, <1>4, DeletersAreOne DEF SlotsInv
  <2>2. DeletingNow' = {d}
    BY <1>2, <1>4, <2>1 DEF DeletingNow
  <2>3. Cardinality(DeletingNow) = 0 /\ Cardinality(DeletingNow') = 1
    BY <2>1, <2>2, FS_EmptySet, FS_Singleton
  <2>4. /\ free'["work"] = free["work"]
        /\ free'["lifecycle"] = free["lifecycle"] - 1
    BY <1>4 DEF TypeOK
  <2> QED BY <1>1, <1>3, <2>2, <2>3, <2>4 DEF SlotsInv, Limited
<1>5. CASE step[d] \in {"delete", "check", "renew"} /\ step'[d] = "resources"
           /\ free' = [free EXCEPT !["lifecycle"] = @ + 1]
  <2>1. DeletingNow = {d}
    BY <1>5, DeletersAreOne DEF DeletingNow
  <2>2. DeletingNow' = {}
    BY <1>2, <1>5, <2>1 DEF DeletingNow
  <2>3. Cardinality(DeletingNow) = 1 /\ Cardinality(DeletingNow') = 0
    BY <2>1, <2>2, FS_EmptySet, FS_Singleton
  <2>4. /\ free'["work"] = free["work"]
        /\ free'["lifecycle"] = free["lifecycle"] + 1
    BY <1>5 DEF TypeOK
  <2> QED BY <1>1, <1>3, <2>2, <2>3, <2>4 DEF SlotsInv, Limited
<1>6. CASE /\ free' = free
           /\ step[d] \in {"delete", "check", "renew"} <=> step'[d] \in {"delete", "check", "renew"}
  <2>1. DeletingNow' = DeletingNow
    BY <1>2, <1>6 DEF DeletingNow
  <2> QED BY <1>1, <1>6, <2>1 DEF SlotsInv, Limited
<1> QED BY <1>4, <1>5, <1>6, DeletionSlots

\* The other steps of close() and of the TTL task hold no slot.
LEMMA ClosingKeepsSlots ==
  ASSUME IInv, SlotsInv, (\E c \in Closers : CloserAction(c)) \/ TTLStep
  PROVE  SlotsInv'
<1>1. op' = op /\ kind' = kind
  BY ClosingKeepsOperations
  DEF CloserAction, CallClose, TakeCloseLock, CloseStep, CloseCancelled, TTLStep,
      LeaveLockQueue, AlreadyClosed, BeginClose, Drained, DrainTimeout, DrainCancelled,
      TTLFires, DeleteStep, DeleteTakesSlot, SlotTimeout, HistoryRefuses, ProviderDeletes,
      ProviderFails, CheckFindsNothing, CheckFails, RenewFails, DeletionCancelled,
      CloseResources, TTLEnds, Deleted, DeletionFailed, AfterDeletion, opVars
<1>2. \A p : Holders(p)' = Holders(p)
  BY <1>1 DEF Holders, HoldsSlot
<1>3. ASSUME free' = free, DeletingNow' = DeletingNow PROVE SlotsInv'
  BY <1>1, <1>2, <1>3 DEF SlotsInv, Limited
<1>4. ASSUME NEW c \in Closers,
             CallClose(c) \/ TakeCloseLock(c) \/ LeaveLockQueue(c) \/ CloseResources(c)
      PROVE  SlotsInv'
  <2>1. free' = free /\ DeletingNow' = DeletingNow
    BY <1>4 DEF CallClose, TakeCloseLock, AlreadyClosed, BeginClose, LeaveLockQueue,
       CloseResources, At, Move, DeletingNow, IInv, TypeOK, Deleters
  <2> QED BY <1>3, <2>1
<1>5. ASSUME NEW c \in Closers, Drained(c) \/ DrainTimeout(c) \/ DrainCancelled(c)
      PROVE  SlotsInv'
  <2>1. step[c] = "draining" /\ ~closed /\ ApplyPolicy(c) /\ free' = free
    BY <1>5 DEF Drained, DrainTimeout, DrainCancelled, At, IInv, LockInv
  <2>2. step[TTL] = "idle"
    BY <2>1 DEF IInv, LockInv
  <2>3. DeletingNow' = DeletingNow
    BY <2>1, <2>2 DEF ApplyPolicy, Schedule, Delete, KeepSandbox, Move, DeletingNow, IInv,
       TypeOK, Deleters
  <2> QED BY <1>3, <2>1, <2>3
<1>6. CASE TTLFires \/ TTLEnds
  <2>1. free' = free /\ DeletingNow' = DeletingNow
    BY <1>6 DEF TTLFires, TTLEnds, At, Move, DeletingNow, IInv, TypeOK, Deleters
  <2> QED BY <1>3, <2>1
<1>7. ASSUME NEW d \in Deleters, DeleteStep(d) \/ (d \in Closers /\ DeletionCancelled(d))
      PROVE  SlotsInv'
  BY <1>1, <1>7, DeletionKeepsSlots DEF IInv
<1> QED
  BY <1>4, <1>5, <1>6, <1>7 DEF CloserAction, CloseStep, CloseCancelled, TTLStep, Deleters

LEMMA SlotsInvariance == Spec => []SlotsInv
<1>1. Init => SlotsInv
  <2> SUFFICES ASSUME Init PROVE SlotsInv
    OBVIOUS
  <2>1. Holders("work") = {} /\ Holders("lifecycle") = {} /\ DeletingNow = {}
    BY DEF Init, Holders, HoldsSlot, DeletingNow
  <2>2. TTL \in Deleters
    BY DEF Deleters
  <2>3. free["work"] = WorkSlots /\ free["lifecycle"] = 1
    BY DEF Init
  <2>4. \A t \in Tasks : op[t] # "queued"
    BY DEF Init
  <2>5. Cardinality(Holders("work")) = 0 /\ Cardinality(Holders("lifecycle")) = 0
        /\ Cardinality(DeletingNow) = 0
    BY <2>1, FS_EmptySet
  <2> QED BY <2>1, <2>2, <2>3, <2>4, <2>5, SlotsAssumption DEF SlotsInv
<1>2. IInv /\ SlotsInv /\ [Next]_vars => SlotsInv'
  <2> SUFFICES ASSUME IInv, SlotsInv, [Next]_vars PROVE SlotsInv'
    OBVIOUS
  <2>1. CASE \E t \in Tasks : TaskStep(t) \/ \E k \in Kinds : Call(t, k)
    BY <2>1, OperationsKeepSlots DEF IInv
  <2>2. CASE (\E c \in Closers : CloserAction(c)) \/ TTLStep
    BY <2>2, ClosingKeepsSlots
  <2>3. CASE UNCHANGED vars
    BY <2>3 DEF vars, opVars, closeVars, SlotsInv, Holders, HoldsSlot, DeletingNow, Limited
  <2>4. ASSUME NEW k \in Requests, Lands(k) PROVE SlotsInv'
    BY <2>4, Landing DEF IInv, SlotsInv, Holders, HoldsSlot, DeletingNow, Limited
  <2> QED BY <2>1, <2>2, <2>3, <2>4 DEF Next, CloserAction
<1> QED BY <1>1, <1>2, Invariance, PTL DEF Spec

\* No slot of a limiter and no place in the gate is lost, by whatever refusals, timeouts,
\* cancellations and failed deletions.
THEOREM SlotsAreGivenBack == Spec => []AccountsBalance
<1>1. IInv /\ SlotsInv => AccountsBalance
  BY DEF IInv, CountInv, SlotsInv, AccountsBalance
<1> QED BY <1>1, Invariance, SlotsInvariance, PTL

-----------------------------------------------------------------------------
(* What pause() and resume() report.                                       *)

Reporting(t) == ok[t] /\ kind[t] \in {"pause", "resume"}

TruthInv == \A t \in Tasks : ok[t] => op[t] = "ending"

\* A task is true to what it has just seen, and moves no other task.
LEMMA TaskTruth ==
  ASSUME NEW t \in Tasks, TypeOK, TruthInv, TaskStep(t) \/ \E k \in Kinds : Call(t, k)
  PROVE  /\ \A u \in Tasks \ {t} : op'[u] = op[u] /\ kind'[u] = kind[u] /\ ok'[u] = ok[u]
         /\ ok'[t] => op'[t] = "ending" /\ op[t] # "ending"
         /\ Reporting(t)' => sandbox' = Target(kind'[t])
         /\ sandbox' # sandbox => t \in Holders("lifecycle")
<1> USE DEF TypeOK, Goto
<1>1. \A u \in Tasks \ {t} : op'[u] = op[u] /\ kind'[u] = kind[u] /\ ok'[u] = ok[u]
  BY DEF TaskStep, OwnStep, CallStep, Call, TakeSlot, Admit, Refuse, GiveUp, Leave,
     Succeed, Fail, Reconcile, Abort, Return
<1>2. ok'[t] => op'[t] = "ending" /\ op[t] # "ending"
  BY DEF TruthInv, TaskStep, OwnStep, CallStep, Call, TakeSlot, Admit, Refuse, GiveUp,
     Leave, Succeed, Fail, Reconcile, Abort, Return, AtGate
<1>3. Reporting(t)' => sandbox' = Target(kind'[t])
  BY DEF Reporting, TruthInv, TaskStep, OwnStep, CallStep, Call, TakeSlot, Admit, Refuse, GiveUp,
     Leave, Succeed, Fail, Reconcile, Abort, Return, AtGate
<1>4. sandbox' # sandbox => t \in Holders("lifecycle")
  BY DEF TaskStep, OwnStep, CallStep, Call, TakeSlot, Admit, Refuse, GiveUp, Leave,
     Succeed, Fail, Reconcile, Abort, Holders, HoldsSlot, Limited, Pool
<1> QED BY <1>1, <1>2, <1>3, <1>4

\* close(), the TTL task and a request that lands late leave the tasks alone, and only a
\* deletion and such a request change the sandbox.
LEMMA ClosingTruth ==
  ASSUME (\E c \in Closers : CloserAction(c)) \/ TTLStep
  PROVE  op' = op /\ kind' = kind /\ ok' = ok /\ (sandbox' # sandbox => DeletingNow # {})
<1>1. op' = op /\ kind' = kind /\ ok' = ok
  BY ClosingKeepsOperations
  DEF CloserAction, CallClose, TakeCloseLock, CloseStep, CloseCancelled, TTLStep,
      LeaveLockQueue, AlreadyClosed, BeginClose, Drained, DrainTimeout, DrainCancelled,
      TTLFires, DeleteStep, DeleteTakesSlot, SlotTimeout, HistoryRefuses, ProviderDeletes,
      ProviderFails, CheckFindsNothing, CheckFails, RenewFails, DeletionCancelled,
      CloseResources, TTLEnds, Deleted, DeletionFailed, AfterDeletion, opVars
<1>2. sandbox' # sandbox => DeletingNow # {}
  BY DEF CloserAction, CallClose, TakeCloseLock, CloseStep, CloseCancelled, TTLStep,
      LeaveLockQueue, AlreadyClosed, BeginClose, Drained, DrainTimeout, DrainCancelled,
      TTLFires, DeleteStep, DeleteTakesSlot, SlotTimeout, HistoryRefuses, ProviderDeletes,
      ProviderFails, CheckFindsNothing, CheckFails, RenewFails, DeletionCancelled,
      CloseResources, TTLEnds, At, DeletingNow, Deleters
<1> QED BY <1>1, <1>2

LEMMA TruthInvariance == Spec => []TruthInv
<1>1. Init => TruthInv
  BY DEF Init, TruthInv
<1>2. IInv /\ TruthInv /\ [Next]_vars => TruthInv'
  <2> SUFFICES ASSUME IInv, TruthInv, [Next]_vars PROVE TruthInv'
    OBVIOUS
  <2>1. ASSUME NEW t \in Tasks, TaskStep(t) \/ \E k \in Kinds : Call(t, k) PROVE TruthInv'
    BY <2>1, TaskTruth DEF IInv, TruthInv
  <2>2. CASE (\E c \in Closers : CloserAction(c)) \/ TTLStep
    BY <2>2, ClosingTruth DEF TruthInv
  <2>3. ASSUME NEW k \in Requests, Lands(k) PROVE TruthInv'
    BY <2>3, Landing DEF IInv, TruthInv
  <2>4. CASE UNCHANGED vars
    BY <2>4 DEF vars, opVars, TruthInv
  <2> QED BY <2>1, <2>2, <2>3, <2>4 DEF Next, CloserAction
<1> QED BY <1>1, <1>2, Invariance, PTL DEF Spec

\* A pause() or resume() that returns success has found the sandbox in the state it reports,
\* and neither another call nor a deletion changes it before the slot is released: only a
\* request that was given up before can, when it lands.
THEOREM ReportsAreTrue == Spec => LifecycleReportsTruth
<1> DEFINE Truthful ==
      \A t \in Tasks :
        op'[t] = "ending" /\ ok'[t] /\ kind'[t] \in {"pause", "resume"} =>
          \/ sandbox' = Target(kind'[t])
          \/ op[t] = "ending" /\ sandbox' = sandbox
          \/ \E k \in late \ late' : Lands(k)
<1>1. IInv /\ SlotsInv /\ TruthInv /\ [Next]_vars => [Truthful]_vars
  <2> SUFFICES ASSUME IInv, SlotsInv, TruthInv, Next, NEW t \in Tasks,
                      op'[t] = "ending", Reporting(t)'
               PROVE  \/ sandbox' = Target(kind'[t])
                      \/ op[t] = "ending" /\ sandbox' = sandbox
                      \/ \E k \in late \ late' : Lands(k)
    BY DEF Reporting
  <2>1. ASSUME NEW u \in Tasks, TaskStep(u) \/ \E k \in Kinds : Call(u, k)
        PROVE  sandbox' = Target(kind'[t]) \/ (op[t] = "ending" /\ sandbox' = sandbox)
    <3>1. CASE u = t
      BY <2>1, <3>1, TaskTruth DEF IInv
    <3>2. CASE u # t
      <4>1. op[t] = "ending" /\ Reporting(t)
        BY <2>1, <3>2, TaskTruth DEF IInv, Reporting
      <4>2. t \in Holders("lifecycle")
        BY <4>1 DEF Reporting, Holders, HoldsSlot, Limited, Pool
      <4>3. u \notin Holders("lifecycle")
        BY <3>2, <4>2, LifecycleSlotIsExclusive DEF IInv
      <4> QED BY <2>1, <4>1, <4>3, TaskTruth DEF IInv
    <3> QED BY <3>1, <3>2
  <2>2. CASE (\E c \in Closers : CloserAction(c)) \/ TTLStep
    <3>1. op[t] = "ending" /\ Reporting(t) /\ t \in Holders("lifecycle")
      BY <2>2, ClosingTruth DEF Reporting, Holders, HoldsSlot, Limited, Pool
    <3> QED BY <2>2, <3>1, ClosingTruth, LifecycleSlotIsExclusive DEF IInv
  <2>3. ASSUME NEW k \in Requests, Lands(k) PROVE \E r \in late \ late' : Lands(r)
    BY <2>3 DEF Lands
  <2> QED BY <2>1, <2>2, <2>3 DEF Next, CloserAction
<1> QED
  BY <1>1, Invariance, SlotsInvariance, TruthInvariance, PTL DEF Spec, LifecycleReportsTruth

-----------------------------------------------------------------------------
(* What close() and a deletion that fail leave behind.                     *)

MarkInv ==
  deleting => \/ closed
              \/ \E c \in Closers : step[c] \in DeleteSteps
              \/ sandbox = "deleted" \/ "forsaken" \in faults

\* The mark of a deletion outlives the close() that set it only over a sandbox that is
\* gone or after a cancellation.
LEMMA MarkStep ==
  ASSUME IInv, MarkInv, Next
  PROVE  MarkInv'
<1> USE DEF IInv, TypeOK, MarkInv, At, Move, Record, Deleters, DeleteSteps
<1>1. sandbox = "deleted" => sandbox' = "deleted"
  BY DeletedForEver
<1>2. ASSUME NEW t \in Tasks, TaskStep(t) \/ \E k \in Kinds : Call(t, k) PROVE MarkInv'
  <2>1. UNCHANGED <<closed, deleting, closeVars>>
    BY <1>2 DEF TaskStep, OwnStep, CallStep, Call, TakeSlot, Admit, Refuse, GiveUp, Leave,
       Succeed, Fail, Reconcile, Abort
  <2> QED BY <1>1, <2>1 DEF closeVars
<1>3. ASSUME NEW k \in Requests, Lands(k) PROVE MarkInv'
  BY <1>1, <1>3, Landing
<1>4. ASSUME NEW c \in Closers, CallClose(c) \/ LeaveLockQueue(c) \/ TakeCloseLock(c)
      PROVE  MarkInv'
  <2>1. /\ UNCHANGED <<closed, deleting>> /\ ("forsaken" \in faults => "forsaken" \in faults')
        /\ step[c] \notin DeleteSteps /\ \A d \in Closers \ {c} : step'[d] = step[d]
    BY <1>4 DEF CallClose, LeaveLockQueue, TakeCloseLock, AlreadyClosed, BeginClose
  <2> QED BY <1>1, <2>1
<1>5. ASSUME NEW c \in Closers, Drained(c) \/ DrainTimeout(c) \/ DrainCancelled(c)
      PROVE  MarkInv'
  <2>1. step[c] = "draining" /\ faults \subseteq faults' /\ ApplyPolicy(c)
    BY <1>5 DEF Drained, DrainTimeout, DrainCancelled
  <2>2. CASE Schedule(c)
    BY <2>2 DEF Schedule
  <2>3. CASE Delete(c)
    BY <2>3 DEF Delete
  <2>4. CASE KeepSandbox(c)
    <3>1. \A d \in Closers : step[d] \in DeleteSteps => step'[d] = step[d]
      BY <2>1, <2>4 DEF KeepSandbox
    <3> QED BY <1>1, <2>1, <2>4, <3>1 DEF KeepSandbox
  <2> QED BY <2>1, <2>2, <2>3, <2>4 DEF ApplyPolicy
<1>6. ASSUME NEW d \in Deleters, DeleteStep(d) \/ (d \in Closers /\ DeletionCancelled(d))
      PROVE  MarkInv'
  <2>1. /\ closed' = closed /\ faults \subseteq faults'
        /\ \A e \in Deleters \ {d} : step'[e] = step[e]
        /\ step[d] \in DeleteSteps
    BY <1>6, DeletionStep
  <2>2. \/ step'[d] \in DeleteSteps /\ deleting' = deleting
        \/ ~deleting'
        \/ step'[d] = "resources" /\ deleting' = deleting
             /\ (sandbox' = "deleted" \/ "forsaken" \in faults')
    <3>1. CASE DeleteTakesSlot(d) \/ SlotTimeout(d) \/ HistoryRefuses(d) \/ CheckFails(d)
      BY <3>1 DEF DeleteTakesSlot, SlotTimeout, HistoryRefuses, CheckFails, DeletionFailed
    <3>2. CASE ProviderDeletes(d) \/ CheckFindsNothing(d)
      BY <3>2 DEF ProviderDeletes, CheckFindsNothing, AfterDeletion, Deleted
    <3>3. CASE ProviderFails(d) \/ RenewFails(d)
      BY <3>3 DEF ProviderFails, RenewFails
    <3>4. CASE DeletionCancelled(d)
      BY <3>4 DEF DeletionCancelled
    <3> QED BY <1>6, <3>1, <3>2, <3>3, <3>4 DEF DeleteStep
  <2>3. d = TTL => closed
    BY <2>1 DEF LockInv
  <2> QED BY <1>1, <2>1, <2>2, <2>3
<1>7. ASSUME NEW c \in Closers, CloseResources(c) PROVE MarkInv'
  <2>1. /\ (closed => closed') /\ deleting' = deleting /\ faults \subseteq faults'
        /\ step[c] = "resources" /\ \A d \in Closers \ {c} : step'[d] = step[d]
    BY <1>7 DEF CloseResources, Finish
  <2> QED BY <1>1, <2>1
<1>8. CASE TTLFires \/ TTLEnds
  <2>1. closed /\ closed' = closed
    BY <1>8 DEF TTLFires, TTLEnds, LockInv
  <2> QED BY <2>1
<1> QED
  BY <1>2, <1>3, <1>4, <1>5, <1>6, <1>7, <1>8
  DEF Next, CloseStep, CloseCancelled, TTLStep

\* Whenever no close() is under way and none has closed the backend, the gate is open, and
\* the mark of a deletion is left only if the sandbox is gone or a deletion was cancelled.
THEOREM FailedCloseIsUndone == Spec => []FailedCloseReadmits
<1>1. Init => MarkInv
  BY DEF Init, MarkInv
<1>2. IInv /\ MarkInv /\ [Next]_vars => MarkInv'
  <2>1. MarkInv /\ UNCHANGED vars => MarkInv'
    BY DEF vars, closeVars, MarkInv
  <2> QED BY <2>1, MarkStep
<1>3. IInv /\ MarkInv => FailedCloseReadmits
  <2> SUFFICES ASSUME IInv, MarkInv, ~closed, closeLock = NoOne
               PROVE  ~closing /\ (deleting => sandbox = "deleted" \/ "forsaken" \in faults)
    BY DEF FailedCloseReadmits
  <2>1. \A c \in Closers : step[c] \in {"idle", "locking"}
    BY DEF IInv, LockInv
  <2> QED BY <2>1 DEF IInv, GateInv, MarkInv, DeleteSteps
<1> QED BY <1>1, <1>2, <1>3, Invariance, PTL DEF Spec

\* A deletion that failed over a sandbox that is still there admits operations again.
THEOREM FailuresReadmit == Spec => FailedDeletionReadmits
<1> DEFINE Readmits ==
      \A d \in Deleters : step[d] \in DeleteSteps /\ step'[d] = "resources" /\ deleting' =>
        sandbox' = "deleted" \/ "cancel" \in faults'
<1>1. IInv /\ [Next]_vars => [Readmits]_vars
  <2> SUFFICES ASSUME IInv, Next, NEW d \in Deleters,
                      step[d] \in DeleteSteps, step'[d] = "resources", deleting'
               PROVE  sandbox' = "deleted" \/ "cancel" \in faults'
    OBVIOUS
  <2> USE DEF IInv, TypeOK, At, Move, Record, DeleteSteps
  <2>0. \A k \in Requests : Lands(k) => step' = step
    BY Landing
  <2>1. \E e \in Deleters : \/ e \in Closers /\ CloserAction(e) /\ ~DeleteStep(e)
                            \/ e = TTL /\ TTLStep /\ ~DeleteStep(e)
                            \/ DeleteStep(e)
    <3>1. \A t \in Tasks : TaskStep(t) \/ (\E k \in Kinds : Call(t, k)) => step' = step
      BY DEF TaskStep, OwnStep, CallStep, Call, TakeSlot, Admit, Refuse, GiveUp, Leave, Succeed,
         Fail, Reconcile, Abort, closeVars
    <3> QED BY <2>0, <3>1 DEF Next, CloserAction, Deleters
  <2>2. ASSUME NEW e \in Deleters, DeleteStep(e) PROVE sandbox' = "deleted" \/ ~deleting'
    <3>1. e = d
      BY <2>2, DeletionSlots
    <3> QED
      BY <2>2, <3>1 DEF DeleteStep, DeleteTakesSlot, SlotTimeout, HistoryRefuses, ProviderDeletes,
         ProviderFails, CheckFindsNothing, CheckFails, RenewFails, Deleted, DeletionFailed,
         AfterDeletion
  <2>3. ASSUME NEW c \in Closers, DeletionCancelled(c) PROVE "cancel" \in faults'
    BY <2>3 DEF DeletionCancelled
  <2>4. ASSUME NEW c \in Closers, CallClose(c) \/ LeaveLockQueue(c) \/ TakeCloseLock(c)
               \/ Drained(c) \/ DrainTimeout(c) \/ DrainCancelled(c) \/ CloseResources(c)
        PROVE  FALSE
    <3>1. c \in Deleters /\ c # TTL
      BY DEF Deleters
    <3>2. \A e \in Deleters \ {c, TTL} : step'[e] = step[e]
      BY <2>4 DEF CallClose, LeaveLockQueue, TakeCloseLock, AlreadyClosed, BeginClose, Drained,
         DrainTimeout, DrainCancelled, ApplyPolicy, Schedule, Delete, KeepSandbox, CloseResources
    <3>3. step[c] \notin DeleteSteps
      BY <2>4 DEF CallClose, LeaveLockQueue, TakeCloseLock, AlreadyClosed, BeginClose, Drained,
         DrainTimeout, DrainCancelled, CloseResources
    <3>4. step'[TTL] # "resources" \/ step'[TTL] = step[TTL]
      BY <2>4, <3>1 DEF CallClose, LeaveLockQueue, TakeCloseLock, AlreadyClosed, BeginClose,
         Drained, DrainTimeout, DrainCancelled, ApplyPolicy, Schedule, Delete, KeepSandbox,
         CloseResources, Deleters
    <3> QED BY <3>2, <3>3, <3>4
  <2>5. ASSUME TTLFires \/ TTLEnds PROVE FALSE
    BY <2>5 DEF TTLFires, TTLEnds, Deleters
  <2> QED
    BY <2>1, <2>2, <2>3, <2>4, <2>5 DEF CloserAction, CloseStep, CloseCancelled, TTLStep
<1> QED BY <1>1, Invariance, PTL DEF Spec, FailedDeletionReadmits

=============================================================================
