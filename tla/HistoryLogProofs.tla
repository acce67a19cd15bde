-------------------------- MODULE HistoryLogProofs --------------------------
(***************************************************************************)
(* Proofs about HistoryLog, for any operations, consumers and cleanups:    *)
(* cleanups exclude each other, a finished operation is in the log, a      *)
(* consumer passes over nothing, a recorded end is final, and the cleanup  *)
(* removes what was acknowledged and is not running.                       *)
(***************************************************************************)
EXTENDS HistoryLog, FiniteSetTheorems, WellFoundedInduction, TLAPS

-----------------------------------------------------------------------------
(* The cleanup lease.                                                      *)

\* As much of the type of cleaner as the argument needs.
CleanerShape ==
  /\ DOMAIN cleaner = Cleaners
  /\ \A k \in Cleaners : {"at", "overrun"} \subseteq DOMAIN cleaner[k]

\* A cleanup that is under way and in time holds the lease.
HoldersInTime ==
  \A k \in Cleaners : cleaner[k].at # "idle" /\ ~cleaner[k].overrun =>
    lease.owner = k /\ ~lease.expired

LeaseInv ==
  /\ CleanerShape
  /\ lease \in [owner : Cleaners \cup {NoOwner}, expired : BOOLEAN]
  /\ HoldersInTime

\* Steps of the others.
LEMMA OthersLeaveTheLease ==
  ASSUME LeaseInv, UNCHANGED cleaning
  PROVE  LeaseInv'
  BY DEF LeaseInv, CleanerShape, HoldersInTime, cleaning

\* A cleanup goes from one place to another without touching the lease.
LEMMA GoesOn ==
  ASSUME LeaseInv, NEW k \in Cleaners, cleaner[k].at # "idle", UNCHANGED lease,
         NEW r, {"at", "overrun"} \subseteq DOMAIN r,
         r.overrun = cleaner[k].overrun,
         cleaner' = [cleaner EXCEPT ![k] = r]
  PROVE  LeaseInv'
  BY DEF LeaseInv, CleanerShape, HoldersInTime

LEMMA CleaningKeepsLease ==
  ASSUME LeaseInv, NEW k \in Cleaners, Cleaning(k)
  PROVE  LeaseInv'
<1> USE NoEventAssumption
<1>1. CASE AcquireLease(k)
  BY <1>1 DEF AcquireLease, LeaseInv, CleanerShape, HoldersInTime
<1>2. CASE ReadAcks(k)
  <2> DEFINE r == [cleaner[k] EXCEPT
                     !.at = "choosing", !.counted = Active,
                     !.protected = IF Active = {} THEN MaxSeq ELSE Min({ack[c] : c \in Active})]
  <2>1. /\ {"at", "overrun"} \subseteq DOMAIN r
        /\ r.overrun = cleaner[k].overrun
    BY DEF LeaseInv, CleanerShape
  <2>2. cleaner' = [cleaner EXCEPT ![k] = r] /\ cleaner[k].at # "idle" /\ UNCHANGED lease
    BY <1>2 DEF ReadAcks
  <2> HIDE DEF r
  <2> QED BY <2>1, <2>2, GoesOn
<1>3. CASE Choose(k)
  <2>1. PICK chosen \in SUBSET Candidates(cleaner[k].protected) \ {{}} :
          cleaner' = [cleaner EXCEPT ![k].at = "deleting", ![k].chosen = chosen,
                                     ![k].horizon = Len(log)]
    BY <1>3 DEF Choose
  <2> DEFINE r == [cleaner[k] EXCEPT !.at = "deleting", !.chosen = chosen, !.horizon = Len(log)]
  <2>2. /\ {"at", "overrun"} \subseteq DOMAIN r
        /\ r.overrun = cleaner[k].overrun
    BY DEF LeaseInv, CleanerShape
  <2>3. cleaner' = [cleaner EXCEPT ![k] = r] /\ cleaner[k].at # "idle" /\ UNCHANGED lease
    BY <1>3, <2>1 DEF Choose
  <2> HIDE DEF r
  <2> QED BY <2>2, <2>3, GoesOn
<1>4. CASE Delete(k) \/ Stop(k)
  <2> DEFINE r == [NoCleanup EXCEPT !.at = "ending", !.overrun = cleaner[k].overrun]
  <2>1. {"at", "overrun"} \subseteq DOMAIN r /\ r.overrun = cleaner[k].overrun
    BY DEF NoCleanup
  <2>2. cleaner' = [cleaner EXCEPT ![k] = r] /\ cleaner[k].at # "idle" /\ UNCHANGED lease
    BY <1>4 DEF Delete, Stop, Ends
  <2> HIDE DEF r
  <2> QED BY <2>1, <2>2, GoesOn
<1>5. CASE ReleaseLease(k)
  BY <1>5 DEF ReleaseLease, LeaseInv, CleanerShape, HoldersInTime, NoCleanup
<1>6. CASE Killed(k)
  BY <1>6 DEF Killed, LeaseInv, CleanerShape, HoldersInTime, NoCleanup
<1> QED BY <1>1, <1>2, <1>3, <1>4, <1>5, <1>6 DEF Cleaning

LEMMA LeaseInvariance == Spec => []LeaseInv
<1>1. Init => LeaseInv
  BY DEF Init, LeaseInv, CleanerShape, HoldersInTime, NoCleanup
<1>2. LeaseInv /\ [Next]_vars => LeaseInv'
  <2> SUFFICES ASSUME LeaseInv, [Next]_vars PROVE LeaseInv'
    OBVIOUS
  <2>1. CASE \E e \in Events : Send(e) \/ SkipOutput(e) \/ NoAnswer(e)
    BY <2>1, OthersLeaveTheLease DEF Send, SkipOutput, NoAnswer
  <2>2. CASE \E b \in batches : Applying(b)
    BY <2>2, OthersLeaveTheLease DEF Applying, FindsEvent, MissesEvent, BatchFails,
       ApplyStarted, ApplyOutput, ApplyCompleted
  <2>3. CASE \E c \in Consumers : Consuming(c)
    BY <2>3, OthersLeaveTheLease DEF Consuming, ReadRows, Acknowledge, FallsSilent
  <2>4. CASE \E k \in Cleaners : Cleaning(k)
    BY <2>4, CleaningKeepsLease
  <2>5. CASE LeaseExpires
    BY <2>5 DEF LeaseExpires, LeaseInv, CleanerShape, HoldersInTime
  <2>6. CASE UNCHANGED vars
    BY <2>6, OthersLeaveTheLease DEF vars
  <2> QED BY <2>1, <2>2, <2>3, <2>4, <2>5, <2>6 DEF Next
<1> QED BY <1>1, <1>2, PTL DEF Spec

\* Two cleanups are under way together only if one has outlived its lease: the upsert in
\* _cleanup_lease_acquire and the DELETE with the owner's id in cleanup see to it.
THEOREM OneCleanupAtATime == Spec => []CleanupsExclude
<1>1. LeaseInv => CleanupsExclude
  BY DEF LeaseInv, HoldersInTime, CleanupsExclude
<1> QED BY <1>1, LeaseInvariance, PTL

-----------------------------------------------------------------------------
(* The log and the table of operations.                                    *)

Rows == (Events \X Kinds) \cup {Burnt}

LogType ==
  /\ log \in Seq(Rows)
  /\ kept \subseteq 1 .. Len(log)
  /\ events \in [Events -> {"none", "started", "complete", "partial"}]

BatchShape == \A b \in batches : {"event", "kind"} \subseteq DOMAIN b /\ b.event \in Events

IsLogged(e, kind) == \E s \in kept : log[s] = <<e, kind>>

\* Stronger than DoneOperationsAreLogged: without the start of a running operation the
\* step that ends it would not preserve the property.
LogInv ==
  /\ LogType
  /\ BatchShape
  /\ \A e \in Events : events[e] # "none" => IsLogged(e, "created")
  /\ \A e \in Events : events[e] \in {"complete", "partial"} => IsLogged(e, "completed")

\* An append leaves what is in the log where it is, and its change is in the log then.
LEMMA AppendChangeLogs ==
  ASSUME LogType, NEW e \in Events, NEW kind \in Kinds, AppendChange(e, kind)
  PROVE  /\ log' \in Seq(Rows)
         /\ kept' \subseteq 1 .. Len(log')
         /\ \A f \in Events, any \in Kinds : IsLogged(f, any) => IsLogged(f, any)'
         /\ IsLogged(e, kind)'
<1> DEFINE row == <<e, kind>>
<1>1. row \in Rows /\ Burnt \in Rows
  BY DEF Rows
<1>2. ASSUME NEW r \in Rows, log' = Append(log, r)
      PROVE  /\ log' \in Seq(Rows) /\ Len(log') = Len(log) + 1
             /\ \A s \in 1 .. Len(log) : log'[s] = log[s]
             /\ log'[Len(log) + 1] = r
  BY <1>2 DEF LogType
<1>3. PICK r \in Rows :
        /\ log' = Append(log, r)
        /\ kept \subseteq kept' /\ kept' \subseteq kept \cup {Len(log) + 1}
        /\ IsLogged(e, kind) \/ (r = row /\ Len(log) + 1 \in kept')
  <2>1. CASE IsLogged(e, kind)
    BY <1>1, <2>1 DEF AppendChange, IsLogged
  <2>2. CASE ~IsLogged(e, kind)
    BY <1>1, <2>2 DEF AppendChange, IsLogged
  <2> QED BY <2>1, <2>2
<1>4. /\ log' \in Seq(Rows) /\ Len(log') = Len(log) + 1
      /\ \A s \in 1 .. Len(log) : log'[s] = log[s]
      /\ log'[Len(log) + 1] = r
  BY <1>2, <1>3
<1>5. kept' \subseteq 1 .. Len(log')
  BY <1>3, <1>4 DEF LogType
<1>6. \A s \in kept : log'[s] = log[s]
  BY <1>4 DEF LogType
<1>7. ASSUME NEW f \in Events, NEW any \in Kinds, IsLogged(f, any) PROVE IsLogged(f, any)'
  BY <1>3, <1>6, <1>7 DEF IsLogged
<1>8. IsLogged(e, kind)'
  BY <1>3, <1>4, <1>7 DEF IsLogged
<1> QED BY <1>4, <1>5, <1>7, <1>8

LEMMA AnswerKeepsShape ==
  ASSUME BatchShape, NEW b \in batches, NEW ok, Answer(b, ok)
  PROVE  BatchShape'
  BY DEF BatchShape, Answer

LEMMA ApplyingKeepsLog ==
  ASSUME LogInv, NEW b \in batches, Applying(b)
  PROVE  LogInv'
<1>0. b.event \in Events /\ {"created", "output", "completed"} \subseteq Kinds
  BY DEF LogInv, BatchShape, Kinds
<1>1. CASE FindsEvent(b)
  <2>1. batches' = (batches \ {b}) \cup {[b EXCEPT !.step = "found"]} /\ UNCHANGED tables
    BY <1>1 DEF FindsEvent
  <2>2. BatchShape'
    BY <2>1 DEF LogInv, BatchShape
  <2> QED BY <2>1, <2>2 DEF LogInv, LogType, IsLogged, tables
<1>2. CASE MissesEvent(b) \/ BatchFails(b)
  <2>1. BatchShape' /\ UNCHANGED tables
    BY <1>2, AnswerKeepsShape DEF LogInv, MissesEvent, BatchFails
  <2> QED BY <2>1 DEF LogInv, LogType, IsLogged, tables
<1>3. CASE ApplyStarted(b)
  <2>1. AppendChange(b.event, "created") /\ BatchShape'
    BY <1>3, AnswerKeepsShape DEF LogInv, ApplyStarted
  <2>2. events' = [events EXCEPT ![b.event] = IF @ = "none" THEN "started" ELSE @]
    BY <1>3 DEF ApplyStarted
  <2>3. /\ log' \in Seq(Rows) /\ kept' \subseteq 1 .. Len(log')
        /\ \A f \in Events, any \in Kinds : IsLogged(f, any) => IsLogged(f, any)'
        /\ IsLogged(b.event, "created")'
    BY <1>0, <2>1, AppendChangeLogs DEF LogInv
  <2> QED BY <1>0, <2>1, <2>2, <2>3 DEF LogInv, LogType
<1>4. CASE ApplyOutput(b)
  <2>1. BatchShape' /\ events' = events
    BY <1>4, AnswerKeepsShape DEF LogInv, ApplyOutput
  <2>2. CASE UNCHANGED <<log, kept>>
    BY <2>1, <2>2 DEF LogInv, LogType, IsLogged
  <2>3. CASE AppendChange(b.event, "output")
    <3>1. /\ log' \in Seq(Rows) /\ kept' \subseteq 1 .. Len(log')
          /\ \A f \in Events, any \in Kinds : IsLogged(f, any) => IsLogged(f, any)'
      BY <1>0, <2>3, AppendChangeLogs DEF LogInv
    <3> QED BY <1>0, <2>1, <3>1 DEF LogInv, LogType
  <2> QED BY <1>4, <2>2, <2>3 DEF ApplyOutput
<1>5. CASE ApplyCompleted(b)
  <2>1. AppendChange(b.event, "completed") /\ BatchShape'
    BY <1>5, AnswerKeepsShape DEF LogInv, ApplyCompleted
  <2>2. /\ events' \in [Events -> {"none", "started", "complete", "partial"}]
        /\ \A e \in Events : events[e] = "none" <=> events'[e] = "none"
        /\ \A e \in Events : e # b.event => events'[e] = events[e]
    BY <1>0, <1>5 DEF ApplyCompleted, LogInv, LogType
  <2>3. /\ log' \in Seq(Rows) /\ kept' \subseteq 1 .. Len(log')
        /\ \A f \in Events, any \in Kinds : IsLogged(f, any) => IsLogged(f, any)'
        /\ IsLogged(b.event, "completed")'
    BY <1>0, <2>1, AppendChangeLogs DEF LogInv
  <2> QED BY <1>0, <2>1, <2>2, <2>3 DEF LogInv, LogType
<1> QED BY <1>1, <1>2, <1>3, <1>4, <1>5 DEF Applying

\* Deletion takes the changes of an operation together with its row.
LEMMA DeletionKeepsLog ==
  ASSUME LogInv, NEW gone, DeleteOperations(gone), UNCHANGED <<log, batches>>
  PROVE  LogInv'
<1>1. ASSUME NEW e \in Events, e \notin gone, NEW kind \in Kinds, IsLogged(e, kind)
      PROVE  IsLogged(e, kind)'
  <2>1. PICK s \in kept : log[s] = <<e, kind>>
    BY <1>1 DEF IsLogged
  <2>2. \A f \in gone : s \notin ChangesOf(f)
    BY <2>1, <1>1 DEF ChangesOf
  <2> QED BY <2>1, <2>2 DEF DeleteOperations, IsLogged
<1>2. LogType' /\ BatchShape'
  BY DEF LogInv, LogType, BatchShape, DeleteOperations
<1>3. \A e \in Events : events'[e] # "none" => e \notin gone /\ events'[e] = events[e]
  BY DEF DeleteOperations
<1> QED BY <1>1, <1>2, <1>3 DEF LogInv, Kinds

LEMMA LogStep == LogInv /\ [Next]_vars => LogInv'
<1> SUFFICES ASSUME LogInv, [Next]_vars PROVE LogInv'
  OBVIOUS
<1> USE DEF tables
<1>1. ASSUME UNCHANGED <<batches, tables>> PROVE LogInv'
  BY <1>1 DEF LogInv, LogType, BatchShape, IsLogged
<1>2. ASSUME NEW e \in Events, Send(e) PROVE LogInv'
  <2>1. BatchShape'
    BY <1>2 DEF Send, LogInv, BatchShape
  <2> QED BY <1>2, <2>1 DEF Send, LogInv, LogType, IsLogged
<1>3. ASSUME NEW e \in Events, SkipOutput(e) \/ NoAnswer(e) PROVE LogInv'
  BY <1>1, <1>3 DEF SkipOutput, NoAnswer
<1>4. ASSUME NEW c \in Consumers, Consuming(c) PROVE LogInv'
  BY <1>1, <1>4 DEF Consuming, ReadRows, Acknowledge, FallsSilent, recording
<1>5. ASSUME NEW k \in Cleaners, Delete(k) PROVE LogInv'
  BY <1>5, DeletionKeepsLog DEF Delete, recording
<1>6. ASSUME NEW k \in Cleaners, Cleaning(k), ~Delete(k) PROVE LogInv'
  BY <1>1, <1>6 DEF Cleaning, AcquireLease, ReadAcks, Choose, Stop, ReleaseLease, Killed,
     recording
<1>7. CASE LeaseExpires
  BY <1>1, <1>7 DEF LeaseExpires, recording
<1>8. CASE UNCHANGED vars
  BY <1>1, <1>8 DEF vars, recording
<1> QED BY <1>2, <1>3, <1>4, <1>5, <1>6, <1>7, <1>8, ApplyingKeepsLog DEF Next

LEMMA LogInvariance == Spec => []LogInv
<1>1. Init => LogInv
  BY DEF Init, LogInv, LogType, BatchShape, IsLogged
<1> QED BY <1>1, LogStep, PTL DEF Spec

\* A finished operation stands in the table together with the changes that tell of its
\* start and its end, whatever batches come late and whenever the cleanup deletes.
THEOREM DoneIsLogged == Spec => []DoneOperationsAreLogged
<1>1. LogInv => DoneOperationsAreLogged
  BY DEF LogInv, IsLogged, DoneOperationsAreLogged
<1> QED BY <1>1, LogInvariance, PTL

-----------------------------------------------------------------------------
(* Numbers of the log, and how it grows.                                   *)

LEMMA LeastNumber == ASSUME NEW S \in SUBSET Nat, S # {} PROVE \E x \in S : \A y \in S : x <= y
<1>1. PICK x \in S : \A y \in S : ~(<<y, x>> \in OpToRel(<, Nat))
  BY NatLessThanWellFounded, WFMin
<1>2. \A y \in S : ~(y < x)
  BY <1>1 DEF OpToRel
<1> QED BY <1>2

LEMMA MinIsLeast ==
  ASSUME NEW S \in SUBSET Nat, S # {} PROVE Min(S) \in S /\ \A y \in S : Min(S) <= y
BY LeastNumber DEF Min

LEMMA MaxIsGreatest ==
  ASSUME NEW S \in SUBSET Nat, S # {}, NEW n \in Nat, \A s \in S : s <= n
  PROVE  Max(S) \in S /\ \A y \in S : y <= Max(S)
<1> DEFINE bounds == {m \in Nat : \A y \in S : y <= m}
<1>1. n \in bounds
  OBVIOUS
<1>2. PICK m \in bounds : \A y \in bounds : m <= y
  <2> HIDE DEF bounds
  <2>1. bounds \in SUBSET Nat
    BY DEF bounds
  <2> QED BY <1>1, <2>1, LeastNumber
<1>3. m \in Nat /\ \A y \in S : y <= m
  OBVIOUS
<1>4. m \in S
  <2> SUFFICES ASSUME m \notin S PROVE FALSE
    OBVIOUS
  <2>1. PICK s \in S : s \in Nat
    OBVIOUS
  <2>2. m # 0
    BY <1>3, <2>1
  <2>3. m - 1 \in Nat /\ \A y \in S : y <= m - 1
    BY <1>3, <2>2
  <2> QED BY <1>2, <2>3
<1> QED BY <1>3, <1>4 DEF Max

\* What is in the log stays where it is; an append adds at most one row, behind it.
LEMMA AppendChangeGrows ==
  ASSUME LogType, NEW e \in Events, NEW kind \in Kinds, AppendChange(e, kind)
  PROVE  /\ Len(log) \in Nat /\ Len(log') = Len(log) + 1
         /\ \A s \in 1 .. Len(log) : log'[s] = log[s]
         /\ kept \subseteq kept' /\ kept' \subseteq kept \cup {Len(log) + 1}
         /\ Len(log) + 1 \in kept' => log'[Len(log) + 1] = <<e, kind>>
         /\ ~IsLogged(e, kind) => Len(log) + 1 \in kept'
<1> DEFINE row == <<e, kind>>
<1>1. row \in Rows /\ Burnt \in Rows
  BY DEF Rows
<1>2. ASSUME NEW r \in Rows, log' = Append(log, r)
      PROVE  /\ Len(log) \in Nat /\ Len(log') = Len(log) + 1
             /\ \A s \in 1 .. Len(log) : log'[s] = log[s]
             /\ log'[Len(log) + 1] = r
  BY <1>2 DEF LogType
<1>3. Len(log) + 1 \notin kept
  BY DEF LogType
<1>4. CASE IsLogged(e, kind)
  <2>1. log' = Append(log, Burnt) /\ kept' = kept
    BY <1>4 DEF AppendChange, IsLogged
  <2> QED BY <1>1, <1>2, <1>3, <1>4, <2>1
<1>5. CASE ~IsLogged(e, kind)
  <2>1. log' = Append(log, row) /\ kept' = kept \cup {Len(log) + 1}
    BY <1>5 DEF AppendChange, IsLogged
  <2> QED BY <1>1, <1>2, <2>1
<1> QED BY <1>4, <1>5

\* What a step does to the log: rows are added behind its end, and none changes.
LogGrows ==
  /\ Len(log) \in Nat /\ Len(log') \in Nat /\ Len(log) <= Len(log')
  /\ \A s \in 1 .. Len(log) : log'[s] = log[s]
  /\ \A s \in kept' : s \in kept \/ s > Len(log)
  /\ \A s \in kept' \ kept : log'[s] \in Events \X Kinds

\* An operation whose start is in the log is in the table: both leave together.
Linked ==
  /\ \A s \in kept : log[s] \in Events \X Kinds
  /\ \A e \in Events : IsLogged(e, "created") => events[e] # "none"

LEMMA Stays ==
  ASSUME LogInv, Linked, UNCHANGED tables PROVE LogGrows /\ Linked'
BY DEF LogInv, LogType, tables, LogGrows, Linked, IsLogged

LEMMA AppendGrows ==
  ASSUME LogInv, Linked, NEW e \in Events, NEW kind \in Kinds, AppendChange(e, kind),
         \A f \in Events : events[f] # "none" => events'[f] # "none",
         kind = "created" => events'[e] # "none"
  PROVE  LogGrows /\ Linked'
<1>1. LogType
  BY DEF LogInv
<1>2. /\ Len(log) \in Nat /\ Len(log') = Len(log) + 1
      /\ \A s \in 1 .. Len(log) : log'[s] = log[s]
      /\ kept \subseteq kept' /\ kept' \subseteq kept \cup {Len(log) + 1}
      /\ Len(log) + 1 \in kept' => log'[Len(log) + 1] = <<e, kind>>
  BY <1>1, AppendChangeGrows
<1>3. \A s \in kept : s \in 1 .. Len(log) /\ log'[s] = log[s]
  BY <1>1, <1>2 DEF LogType
<1>4. ASSUME NEW s \in kept' \ kept PROVE s > Len(log) /\ log'[s] \in Events \X Kinds
  <2>1. s = Len(log) + 1 /\ log'[s] = <<e, kind>>
    BY <1>2, <1>4
  <2> QED BY <1>2, <2>1
<1>5. LogGrows /\ \A s \in kept' : log'[s] \in Events \X Kinds
  BY <1>2, <1>3, <1>4 DEF LogGrows, Linked
<1>6. ASSUME NEW f \in Events, IsLogged(f, "created")' PROVE events'[f] # "none"
  <2>1. PICK s \in kept' : log'[s] = <<f, "created">>
    BY <1>6 DEF IsLogged
  <2>2. CASE s \in kept
    BY <1>3, <2>1, <2>2 DEF Linked, IsLogged
  <2>3. CASE s = Len(log) + 1
    BY <1>2, <2>1, <2>3
  <2> QED BY <1>2, <2>2, <2>3
<1> QED BY <1>5, <1>6 DEF Linked

LEMMA DeletionShrinks ==
  ASSUME LogInv, Linked, NEW gone, DeleteOperations(gone), UNCHANGED log
  PROVE  LogGrows /\ Linked'
<1>1. LogGrows
  BY DEF DeleteOperations, LogGrows, LogInv, LogType
<1>2. ASSUME NEW f \in Events, NEW s \in kept', log'[s] = <<f, "created">>
      PROVE  events'[f] # "none"
  <2>1. s \in kept /\ log[s] = <<f, "created">> /\ f \notin gone
    BY <1>2 DEF DeleteOperations, ChangesOf
  <2> QED BY <2>1 DEF DeleteOperations, Linked, IsLogged
<1> QED BY <1>1, <1>2 DEF DeleteOperations, Linked, IsLogged

LEMMA LinkedStep ==
  ASSUME LogInv, Linked, [Next]_vars
  PROVE  LogGrows /\ Linked'
<1>1. ASSUME NEW b \in batches, Applying(b) PROVE LogGrows /\ Linked'
  <2>0. b.event \in Events /\ {"created", "output", "completed"} \subseteq Kinds
    BY DEF LogInv, BatchShape, Kinds
  <2>1. CASE FindsEvent(b) \/ MissesEvent(b) \/ BatchFails(b)
    BY <2>1, Stays DEF FindsEvent, MissesEvent, BatchFails
  <2>2. CASE ApplyStarted(b)
    <3>1. AppendChange(b.event, "created")
      BY <2>2 DEF ApplyStarted
    <3>2. /\ \A f \in Events : events[f] # "none" => events'[f] # "none"
          /\ events'[b.event] # "none"
      BY <2>0, <2>2 DEF ApplyStarted, LogInv, LogType
    <3> QED BY <2>0, <3>1, <3>2, AppendGrows
  <2>3. CASE ApplyOutput(b)
    <3>1. CASE UNCHANGED <<log, kept>>
      BY <2>3, <3>1, Stays DEF ApplyOutput, tables
    <3>2. CASE AppendChange(b.event, "output")
      BY <2>0, <2>3, <3>2, AppendGrows DEF ApplyOutput
    <3> QED BY <2>3, <3>1, <3>2 DEF ApplyOutput
  <2>4. CASE ApplyCompleted(b)
    <3>1. AppendChange(b.event, "completed")
      BY <2>4 DEF ApplyCompleted
    <3>2. \A f \in Events : events[f] # "none" => events'[f] # "none"
      BY <2>0, <2>4 DEF ApplyCompleted, LogInv, LogType
    <3> QED BY <2>0, <3>1, <3>2, AppendGrows
  <2> QED BY <1>1, <2>1, <2>2, <2>3, <2>4 DEF Applying
<1>2. ASSUME NEW k \in Cleaners, Delete(k) PROVE LogGrows /\ Linked'
  BY <1>2, DeletionShrinks DEF Delete
<1>3. CASE UNCHANGED tables
  BY <1>3, Stays
<1>4. ASSUME NEW k \in Cleaners, Cleaning(k), ~Delete(k) PROVE UNCHANGED tables
  BY <1>4 DEF Cleaning, AcquireLease, ReadAcks, Choose, Stop, ReleaseLease, Killed
<1>5. ASSUME NEW e \in Events, Send(e) \/ SkipOutput(e) \/ NoAnswer(e) PROVE UNCHANGED tables
  BY <1>5 DEF Send, SkipOutput, NoAnswer
<1>6. ASSUME NEW c \in Consumers, Consuming(c) PROVE UNCHANGED tables
  BY <1>6 DEF Consuming, ReadRows, Acknowledge, FallsSilent
<1>7. LeaseExpires \/ UNCHANGED vars => UNCHANGED tables
  BY DEF LeaseExpires, vars
<1> QED BY <1>1, <1>2, <1>3, <1>4, <1>5, <1>6, <1>7 DEF Next

-----------------------------------------------------------------------------
(* Types and bounds.                                                       *)

Hosts == [stage : Kinds \cup {"over"}, waiting : BOOLEAN, tries : 0 .. Attempts,
          complete : BOOLEAN, told : BOOLEAN]
Batches == [event : Events, kind : Kinds, try : 1 .. Attempts, step : {"arrived", "found"}]
Cleanups == [at : {"idle", "reading", "choosing", "deleting", "ending"},
             protected : 0 .. MaxSeq, counted : SUBSET Consumers, chosen : SUBSET Events,
             horizon : 0 .. MaxSeq, overrun : BOOLEAN]

\* The host waits only for a record it is at, and repeats only while attempts are left.
TypeInv ==
  /\ TypeOK
  /\ \A e \in Events : host[e].waiting => host[e].stage \in Kinds
  /\ \A e \in Events : ~host[e].waiting => host[e].tries < Attempts

Recorder == /\ host \in [Events -> Hosts] /\ batches \subseteq Batches
            /\ \A e \in Events : host[e].waiting => host[e].stage \in Kinds
            /\ \A e \in Events : ~host[e].waiting => host[e].tries < Attempts
Reader == /\ ack \in [Consumers -> 0 .. MaxSeq]
          /\ standing \in [Consumers -> {"unknown", "active", "silent"}]
          /\ cursor \in [Consumers -> 0 .. MaxSeq]
Follower == seen \in [Consumers -> SUBSET DOMAIN log]
Sweeper == /\ lease \in [owner : Cleaners \cup {NoOwner}, expired : BOOLEAN]
           /\ cleaner \in [Cleaners -> Cleanups]

LEMMA TypeParts ==
  LogInv => (TypeInv <=> Recorder /\ Reader /\ Follower /\ Sweeper /\ Len(log) <= MaxSeq)
BY DEF TypeInv, TypeOK, LogInv, LogType, Rows, Recorder, Reader, Follower, Sweeper, Hosts,
   Batches, Cleanups

LEMMA MoveOnTypes ==
  ASSUME Recorder, NEW e \in Events, NEW ok \in BOOLEAN, MoveOn(e, ok),
         host[e].stage \in Kinds
  PROVE  /\ host' \in [Events -> Hosts]
         /\ \A f \in Events : host'[f].waiting => host'[f].stage \in Kinds
         /\ \A f \in Events : ~host'[f].waiting => host'[f].tries < Attempts
<1> DEFINE stages == CASE host[e].stage = "created" /\ ok  -> {"output"}
                       [] host[e].stage = "created" /\ ~ok -> {"output", "over"}
                       [] host[e].stage = "output"         -> {"completed"}
                       [] host[e].stage = "completed"      -> {"over"}
<1>1. stages \subseteq Kinds \cup {"over"}
  BY DEF Kinds
<1>2. Declared(e, ok) \subseteq BOOLEAN
  BY DEF Declared, Recorder, Hosts
<1>3. PICK next \in stages, complete \in Declared(e, ok) :
        host' = [host EXCEPT ![e] =
                   [stage |-> next, waiting |-> FALSE, tries |-> 0, complete |-> complete,
                    told |-> @.stage = "completed" /\ ok]]
  BY DEF MoveOn
<1> DEFINE now == [stage |-> next, waiting |-> FALSE, tries |-> 0, complete |-> complete,
                   told |-> host[e].stage = "completed" /\ ok]
<1>4. now \in Hosts /\ now.waiting = FALSE /\ now.tries = 0
  <2>1. (host[e].stage = "completed" /\ ok) \in BOOLEAN
    OBVIOUS
  <2>2. next \in Kinds \cup {"over"} /\ complete \in BOOLEAN
    BY <1>1, <1>2
  <2>3. 0 \in 0 .. Attempts
    BY BoundsAssumption
  <2> QED BY <2>1, <2>2, <2>3, Zenon DEF Hosts
<1>5. host' = [host EXCEPT ![e] = now]
  BY <1>3
<1> HIDE DEF now
<1> QED BY <1>4, <1>5, BoundsAssumption DEF Recorder

LEMMA AnswerTypes ==
  ASSUME Recorder, NEW b \in batches, NEW ok \in BOOLEAN, Answer(b, ok)
  PROVE  Recorder'
<1>1. b.event \in Events
  BY DEF Recorder, Batches
<1>2. batches' \subseteq Batches
  BY DEF Recorder, Answer
<1>3. CASE UNCHANGED host
  BY <1>2, <1>3 DEF Recorder
<1>4. CASE host[b.event].waiting /\ MoveOn(b.event, ok)
  <2>1. host[b.event].stage \in Kinds
    BY <1>1, <1>4 DEF Recorder
  <2> QED BY <1>1, <1>2, <1>4, <2>1, MoveOnTypes DEF Recorder
<1> QED BY <1>3, <1>4 DEF Answer

LEMMA RecorderStep ==
  ASSUME Recorder, [Next]_vars
  PROVE  Recorder'
<1>1. ASSUME NEW e \in Events, Send(e) PROVE Recorder'
  <2>1. /\ host[e] \in Hosts /\ host[e].stage \in Kinds /\ host[e].tries + 1 \in 1 .. Attempts
    BY <1>1, BoundsAssumption DEF Send, Recorder, Hosts
  <2> DEFINE now == [host[e] EXCEPT !.waiting = TRUE, !.tries = @ + 1]
  <2>2. now \in Hosts /\ now.waiting /\ now.stage \in Kinds
    <3>1. now.waiting = TRUE /\ now.stage \in Kinds
      BY <2>1 DEF Hosts
    <3>2. host[e].tries + 1 \in 0 .. Attempts
      BY <2>1
    <3>3. now \in Hosts
      BY <2>1, <3>2 DEF Hosts
    <3> QED BY <3>1, <3>3
  <2>3. host' = [host EXCEPT ![e] = now]
    BY <1>1 DEF Send
  <2>4. batches' \subseteq Batches
    BY <1>1, <2>1 DEF Send, Recorder, Batches
  <2> HIDE DEF now
  <2> QED BY <2>2, <2>3, <2>4 DEF Recorder
<1>2. ASSUME NEW e \in Events, SkipOutput(e) PROVE Recorder'
  <2>1. host[e].stage \in Kinds
    BY <1>2 DEF SkipOutput, Kinds
  <2> QED BY <1>2, <2>1, MoveOnTypes DEF SkipOutput, Recorder
<1>3. ASSUME NEW e \in Events, NoAnswer(e) PROVE Recorder'
  <2>1. host[e].stage \in Kinds /\ UNCHANGED batches
    BY <1>3 DEF NoAnswer, Recorder
  <2>2. CASE MoveOn(e, FALSE)
    BY <2>1, <2>2, MoveOnTypes DEF Recorder
  <2>3. CASE host[e].tries < Attempts /\ host' = [host EXCEPT ![e].waiting = FALSE]
    <3> DEFINE now == [host[e] EXCEPT !.waiting = FALSE]
    <3>1. now \in Hosts /\ now.waiting = FALSE /\ now.tries = host[e].tries
      BY DEF Recorder, Hosts
    <3>2. host' = [host EXCEPT ![e] = now]
      BY <2>3
    <3> HIDE DEF now
    <3> QED BY <2>1, <2>3, <3>1, <3>2 DEF Recorder
  <2> QED BY <1>3, <2>2, <2>3 DEF NoAnswer
<1>4. ASSUME NEW b \in batches, Applying(b) PROVE Recorder'
  <2>1. CASE FindsEvent(b)
    <3>1. [b EXCEPT !.step = "found"] \in Batches
      BY DEF Recorder, Batches
    <3> QED BY <2>1, <3>1 DEF FindsEvent, Recorder
  <2>2. CASE \E ok \in BOOLEAN : Answer(b, ok)
    BY <2>2, AnswerTypes
  <2> QED BY <1>4, <2>1, <2>2 DEF Applying, MissesEvent, BatchFails, ApplyStarted, ApplyOutput,
             ApplyCompleted
<1>5. CASE UNCHANGED recording
  BY <1>5 DEF recording, Recorder
<1>6. ASSUME NEW c \in Consumers, Consuming(c) PROVE UNCHANGED recording
  BY <1>6 DEF Consuming, ReadRows, Acknowledge, FallsSilent
<1>7. ASSUME NEW k \in Cleaners, Cleaning(k) PROVE UNCHANGED recording
  BY <1>7 DEF Cleaning, AcquireLease, ReadAcks, Choose, Delete, Stop, ReleaseLease, Killed
<1>8. LeaseExpires \/ UNCHANGED vars => UNCHANGED recording
  BY DEF LeaseExpires, vars
<1> QED BY <1>1, <1>2, <1>3, <1>4, <1>5, <1>6, <1>7, <1>8 DEF Next

\* An acknowledgement only ever raises a consumer's number.
LEMMA AckGrows ==
  ASSUME Reader, NEW c \in Consumers, Acknowledge(c)
  PROVE  /\ ack' \in [Consumers -> 0 .. MaxSeq]
         /\ \A d \in Consumers : ack[d] <= ack'[d]
<1>1. PICK n \in 0 .. cursor[c] : ack' = [ack EXCEPT ![c] = Max({@, n})]
  BY DEF Acknowledge
<1>2. {ack[c], n} \subseteq 0 .. MaxSeq
  BY BoundsAssumption DEF Reader
<1>3. Max({ack[c], n}) \in {ack[c], n} /\ ack[c] <= Max({ack[c], n})
  BY <1>2, BoundsAssumption, MaxIsGreatest
<1> QED BY <1>1, <1>2, <1>3 DEF Reader

LEMMA ReaderStep ==
  ASSUME LogInv, Reader, Follower, Len(log) <= MaxSeq, [Next]_vars
  PROVE  Reader'
<1>1. ASSUME NEW c \in Consumers, ReadRows(c) PROVE Reader'
  <2>1. RowsAfter(cursor[c]) \subseteq 0 .. MaxSeq
    <3>1. Len(log) \in Nat /\ kept \subseteq 1 .. Len(log)
      BY DEF LogInv, LogType
    <3>2. \A s \in kept : s \in 0 .. MaxSeq
      BY <3>1, BoundsAssumption
    <3> QED BY <3>2 DEF RowsAfter
  <2>2. cursor' = cursor \/ \E last \in RowsAfter(cursor[c]) :
                              cursor' = [cursor EXCEPT ![c] = last]
    BY <1>1 DEF ReadRows
  <2>3. ack' = ack /\ standing' = standing
    BY <1>1 DEF ReadRows
  <2> QED BY <2>1, <2>2, <2>3 DEF Reader
<1>2. ASSUME NEW c \in Consumers, Acknowledge(c) \/ FallsSilent(c) PROVE Reader'
  BY <1>2, AckGrows DEF Acknowledge, FallsSilent, Reader
<1>3. CASE UNCHANGED <<ack, standing, cursor>>
  BY <1>3 DEF Reader
<1>4. ASSUME NEW k \in Cleaners, Cleaning(k) PROVE UNCHANGED <<ack, standing, cursor>>
  BY <1>4 DEF Cleaning, AcquireLease, ReadAcks, Choose, Delete, Stop, ReleaseLease, Killed,
     consuming
<1>5. ASSUME NEW b \in batches, Applying(b) PROVE UNCHANGED <<ack, standing, cursor>>
  BY <1>5 DEF Applying, FindsEvent, MissesEvent, BatchFails, ApplyStarted, ApplyOutput,
     ApplyCompleted, consuming
<1>6. ASSUME NEW e \in Events, Send(e) \/ SkipOutput(e) \/ NoAnswer(e)
      PROVE  UNCHANGED <<ack, standing, cursor>>
  BY <1>6 DEF Send, SkipOutput, NoAnswer, consuming
<1>7. LeaseExpires \/ UNCHANGED vars => UNCHANGED <<ack, standing, cursor>>
  BY DEF LeaseExpires, vars, consuming
<1> QED BY <1>1, <1>2, <1>3, <1>4, <1>5, <1>6, <1>7 DEF Next, Consuming

\* What happens to a consumer's page: it reads on, the cleanup takes from it, or nothing.
LEMMA PageSteps ==
  ASSUME [Next]_vars
  PROVE  \/ UNCHANGED <<cursor, seen>>
         \/ \E c \in Consumers : ReadRows(c)
         \/ UNCHANGED <<cursor, log>> /\ seen' = [c \in Consumers |-> seen[c] \cap kept']
<1>1. ASSUME NEW k \in Cleaners, Cleaning(k)
      PROVE  \/ UNCHANGED <<cursor, seen>>
             \/ /\ UNCHANGED <<cursor, log>>
                /\ seen' = [c \in Consumers |-> seen[c] \cap kept']
  BY <1>1 DEF Cleaning, AcquireLease, ReadAcks, Choose, Delete, Stop, ReleaseLease, Killed,
     consuming
<1>2. ASSUME NEW b \in batches, Applying(b) PROVE UNCHANGED <<cursor, seen>>
  BY <1>2 DEF Applying, FindsEvent, MissesEvent, BatchFails, ApplyStarted, ApplyOutput,
     ApplyCompleted, consuming
<1>3. ASSUME NEW e \in Events, Send(e) \/ SkipOutput(e) \/ NoAnswer(e)
      PROVE  UNCHANGED <<cursor, seen>>
  BY <1>3 DEF Send, SkipOutput, NoAnswer, consuming
<1>4. ASSUME NEW c \in Consumers, Consuming(c) PROVE ReadRows(c) \/ UNCHANGED <<cursor, seen>>
  BY <1>4 DEF Consuming, Acknowledge, FallsSilent
<1>5. LeaseExpires \/ UNCHANGED vars => UNCHANGED <<cursor, seen>>
  BY DEF LeaseExpires, vars, consuming
<1> QED BY <1>1, <1>2, <1>3, <1>4, <1>5 DEF Next

LEMMA FollowerStep ==
  ASSUME LogInv, LogInv', LogGrows, Follower, [Next]_vars
  PROVE  Follower'
<1>1. /\ Len(log) \in Nat /\ DOMAIN log = 1 .. Len(log) /\ kept \subseteq DOMAIN log
      /\ Len(log') \in Nat /\ DOMAIN log' = 1 .. Len(log')
  BY DEF LogInv, LogType
<1>2. DOMAIN log \subseteq DOMAIN log'
  BY <1>1 DEF LogGrows
<1>3. CASE UNCHANGED <<cursor, seen>>
  BY <1>2, <1>3 DEF Follower
<1>4. ASSUME NEW c \in Consumers, ReadRows(c) PROVE Follower'
  <2>1. seen' = seen \/ \E last \in RowsAfter(cursor[c]) :
           seen' = [seen EXCEPT ![c] = @ \cup {s \in RowsAfter(cursor[c]) : s <= last}]
    BY <1>4 DEF ReadRows
  <2>2. RowsAfter(cursor[c]) \subseteq DOMAIN log
    BY <1>1 DEF RowsAfter
  <2> QED BY <1>2, <2>1, <2>2 DEF Follower
<1>5. CASE seen' = [c \in Consumers |-> seen[c] \cap kept']
  BY <1>2, <1>5 DEF Follower
<1> QED BY <1>3, <1>4, <1>5, PageSteps

\* The limit that a cleanup takes from the acknowledgements is below each of them.
LEMMA ProtectedIsLeast ==
  ASSUME Reader
  PROVE  /\ (IF Active = {} THEN MaxSeq ELSE Min({ack[c] : c \in Active})) \in 0 .. MaxSeq
         /\ Active # {} => \A c \in Active : Min({ack[d] : d \in Active}) <= ack[c]
<1> DEFINE acks == {ack[c] : c \in Active}
<1>1. acks \in SUBSET (0 .. MaxSeq) /\ acks \in SUBSET Nat
  BY BoundsAssumption DEF Reader, Active
<1>2. MaxSeq \in 0 .. MaxSeq
  BY BoundsAssumption
<1>3. ASSUME Active # {} PROVE Min(acks) \in acks /\ \A y \in acks : Min(acks) <= y
  <2>1. acks # {}
    BY <1>3
  <2> HIDE DEF acks
  <2> QED BY <1>1, <2>1, MinIsLeast
<1> QED BY <1>1, <1>2, <1>3

LEMMA SweeperStep ==
  ASSUME LogInv, Reader, Sweeper, Len(log) <= MaxSeq, [Next]_vars
  PROVE  Sweeper'
<1> USE NoEventAssumption, BoundsAssumption
<1>0. /\ Len(log) \in 0 .. MaxSeq /\ 0 \in 0 .. MaxSeq
      /\ NoCleanup \in Cleanups
      /\ \A k \in Cleaners : cleaner[k] \in Cleanups
  BY DEF LogInv, LogType, NoCleanup, Cleanups, Sweeper
<1>1. ASSUME NEW k \in Cleaners, AcquireLease(k) PROVE Sweeper'
  <2>1. [cleaner[k] EXCEPT !.at = "reading"] \in Cleanups
    BY <1>0 DEF Cleanups
  <2> QED BY <1>1, <2>1 DEF AcquireLease, Sweeper
<1>2. ASSUME NEW k \in Cleaners, ReadAcks(k) PROVE Sweeper'
  <2> DEFINE limit == IF Active = {} THEN MaxSeq ELSE Min({ack[c] : c \in Active})
  <2>1. limit \in 0 .. MaxSeq
    BY ProtectedIsLeast
  <2>2. Active \in SUBSET Consumers
    BY DEF Active
  <2>3. cleaner' = [cleaner EXCEPT ![k].at = "choosing", ![k].counted = Active,
                                   ![k].protected = limit]
    BY <1>2 DEF ReadAcks
  <2> HIDE DEF limit
  <2> DEFINE now == [cleaner[k] EXCEPT !.at = "choosing", !.counted = Active,
                                       !.protected = limit]
  <2>4. now \in Cleanups
    BY <1>0, <2>1, <2>2 DEF Cleanups
  <2>5. cleaner' = [cleaner EXCEPT ![k] = now]
    BY <2>3
  <2>6. lease' = lease
    BY <1>2 DEF ReadAcks
  <2> HIDE DEF now
  <2> QED BY <2>4, <2>5, <2>6 DEF Sweeper
<1>3. ASSUME NEW k \in Cleaners, Choose(k) PROVE Sweeper'
  <2>1. PICK chosen \in SUBSET Candidates(cleaner[k].protected) \ {{}} :
          cleaner' = [cleaner EXCEPT ![k].at = "deleting", ![k].chosen = chosen,
                                     ![k].horizon = Len(log)]
    BY <1>3 DEF Choose
  <2>2. chosen \in SUBSET Events
    BY DEF Candidates
  <2>3. [cleaner[k] EXCEPT !.at = "deleting", !.chosen = chosen, !.horizon = Len(log)] \in Cleanups
    BY <1>0, <2>2 DEF Cleanups
  <2> QED BY <1>3, <2>1, <2>3 DEF Choose, Sweeper
<1>4. ASSUME NEW k \in Cleaners, Delete(k) \/ Stop(k) PROVE Sweeper'
  <2>1. [NoCleanup EXCEPT !.at = "ending", !.overrun = cleaner[k].overrun] \in Cleanups
    BY <1>0 DEF Cleanups
  <2> QED BY <1>4, <2>1 DEF Delete, Stop, Ends, Sweeper
<1>5. ASSUME NEW k \in Cleaners, ReleaseLease(k) \/ Killed(k) PROVE Sweeper'
  <2>1. cleaner' = [cleaner EXCEPT ![k] = NoCleanup]
    BY <1>5 DEF ReleaseLease, Killed
  <2>2. lease' = lease \/ lease' = [owner |-> NoOwner, expired |-> FALSE]
    BY <1>5 DEF ReleaseLease, Killed
  <2>3. lease' \in [owner : Cleaners \cup {NoOwner}, expired : BOOLEAN]
    <3>1. [owner |-> NoOwner, expired |-> FALSE]
             \in [owner : Cleaners \cup {NoOwner}, expired : BOOLEAN]
      OBVIOUS
    <3> QED BY <2>2, <3>1, Zenon DEF Sweeper
  <2> QED BY <1>0, <2>1, <2>3 DEF Sweeper
<1>6. CASE LeaseExpires
  <2> DEFINE k == lease.owner
  <2>1. k \in Cleaners /\ lease' \in [owner : Cleaners \cup {NoOwner}, expired : BOOLEAN]
    BY <1>6 DEF LeaseExpires, Sweeper
  <2>2. PICK over \in BOOLEAN : over = (cleaner[k].at # "idle")
    OBVIOUS
  <2>3. cleaner' = [cleaner EXCEPT ![k].overrun = over]
    BY <1>6, <2>2 DEF LeaseExpires
  <2>4. [cleaner[k] EXCEPT !.overrun = over] \in Cleanups
    BY <1>0, <2>1, <2>2 DEF Cleanups
  <2> QED BY <2>1, <2>3, <2>4 DEF Sweeper
<1>7. CASE UNCHANGED cleaning
  BY <1>7 DEF cleaning, Sweeper
<1>8. ASSUME NEW b \in batches, Applying(b) PROVE UNCHANGED cleaning
  BY <1>8 DEF Applying, FindsEvent, MissesEvent, BatchFails, ApplyStarted, ApplyOutput,
     ApplyCompleted
<1>9. ASSUME NEW e \in Events, Send(e) \/ SkipOutput(e) \/ NoAnswer(e) PROVE UNCHANGED cleaning
  BY <1>9 DEF Send, SkipOutput, NoAnswer
<1>10. ASSUME NEW c \in Consumers, Consuming(c) PROVE UNCHANGED cleaning
  BY <1>10 DEF Consuming, ReadRows, Acknowledge, FallsSilent
<1>11. UNCHANGED vars => UNCHANGED cleaning
  BY DEF vars
<1> QED BY <1>1, <1>2, <1>3, <1>4, <1>5, <1>6, <1>7, <1>8, <1>9, <1>10, <1>11 DEF Next, Cleaning

\* The log stops at its bound.
LEMMA LengthStep ==
  ASSUME LogInv, Len(log) <= MaxSeq, [Next]_vars
  PROVE  Len(log') <= MaxSeq
<1>1. ASSUME NEW e \in Events, NEW kind \in Kinds, AppendChange(e, kind) PROVE Len(log') <= MaxSeq
  <2>1. Len(log') = Len(log) + 1 /\ Len(log) \in Nat /\ Len(log) < MaxSeq
    BY <1>1, AppendChangeGrows DEF AppendChange, LogInv
  <2> QED BY <2>1, BoundsAssumption
<1>2. ASSUME NEW b \in batches, Applying(b) PROVE Len(log') <= MaxSeq
  <2>1. b.event \in Events /\ {"created", "output", "completed"} \subseteq Kinds
    BY DEF LogInv, BatchShape, Kinds
  <2> QED BY <1>1, <1>2, <2>1 DEF Applying, FindsEvent, MissesEvent, BatchFails, ApplyStarted,
             ApplyOutput, ApplyCompleted, tables
<1>3. ASSUME NEW k \in Cleaners, Cleaning(k) PROVE UNCHANGED log
  BY <1>3 DEF Cleaning, AcquireLease, ReadAcks, Choose, Delete, Stop, ReleaseLease, Killed, tables
<1>4. ASSUME NEW e \in Events, Send(e) \/ SkipOutput(e) \/ NoAnswer(e) PROVE UNCHANGED log
  BY <1>4 DEF Send, SkipOutput, NoAnswer, tables
<1>5. ASSUME NEW c \in Consumers, Consuming(c) PROVE UNCHANGED log
  BY <1>5 DEF Consuming, ReadRows, Acknowledge, FallsSilent, tables
<1>6. LeaseExpires \/ UNCHANGED vars => UNCHANGED log
  BY DEF LeaseExpires, vars, tables
<1> QED BY <1>2, <1>3, <1>4, <1>5, <1>6 DEF Next

\* What the sections below start from.
BaseInv == LogInv /\ Linked /\ Recorder /\ Reader /\ Follower /\ Sweeper /\ Len(log) <= MaxSeq

LEMMA BaseStep == BaseInv /\ [Next]_vars => BaseInv' /\ LogGrows
<1> SUFFICES ASSUME BaseInv, [Next]_vars PROVE BaseInv' /\ LogGrows
  OBVIOUS
<1>1. LogInv /\ Linked /\ Recorder /\ Reader /\ Follower /\ Sweeper /\ Len(log) <= MaxSeq
  BY DEF BaseInv
<1>2. LogGrows /\ Linked' /\ LogInv'
  BY <1>1, LinkedStep, LogStep
<1>3. Recorder' /\ Reader' /\ Follower' /\ Sweeper' /\ Len(log') <= MaxSeq
  BY <1>1, <1>2, RecorderStep, ReaderStep, FollowerStep, SweeperStep, LengthStep
<1> QED BY <1>2, <1>3 DEF BaseInv

LEMMA BaseInvariance == Spec => []BaseInv
<1>1. Init => BaseInv
  <2> SUFFICES ASSUME Init PROVE BaseInv
    OBVIOUS
  <2>1. LogInv /\ Linked
    BY DEF Init, LogInv, LogType, BatchShape, IsLogged, Linked
  <2>2. Reader /\ Follower /\ Sweeper /\ Len(log) <= MaxSeq
    BY NoEventAssumption, BoundsAssumption
       DEF Init, Reader, Follower, Sweeper, NoCleanup, Cleanups
  <2>3. Recorder
    BY BoundsAssumption DEF Init, Recorder, Hosts, Kinds
  <2> QED BY <2>1, <2>2, <2>3 DEF BaseInv
<1> QED BY <1>1, BaseStep, PTL DEF Spec

\* The types: a waiting host waits for a record there is, the log stays below its bound,
\* and what a consumer has read and a cleanup goes by are numbers of the log.
THEOREM TypeCorrect == Spec => []TypeOK
<1>1. BaseInv => TypeOK
  BY TypeParts DEF BaseInv, TypeInv
<1> QED BY <1>1, BaseInvariance, PTL

-----------------------------------------------------------------------------
(* Following the log.                                                      *)

\* A consumer's cursor is a number of the log: what is appended lies ahead of it.
FollowInv ==
  /\ \A c \in Consumers : cursor[c] <= Len(log)
  /\ NothingBehindTheCursor

\* Whatever is appended or deleted, nothing new turns up behind a cursor that stays.
LEMMA NothingNewBehind ==
  ASSUME BaseInv, BaseInv', FollowInv, LogGrows, UNCHANGED cursor,
         \A c \in Consumers : \A s \in kept' : s \in seen[c] => s \in seen'[c]
  PROVE  FollowInv'
<1>1. /\ Len(log) \in Nat /\ Len(log') \in Nat /\ Len(log) <= Len(log')
      /\ kept' \subseteq Nat
      /\ \A c \in Consumers : cursor[c] \in Nat /\ cursor[c] <= Len(log)
  BY DEF BaseInv, LogInv, LogType, LogGrows, Reader, FollowInv
<1>2. ASSUME NEW s \in kept', s <= Len(log) PROVE s \in kept /\ log'[s] = log[s]
  <2>1. s \in kept
    BY <1>1, <1>2 DEF LogGrows
  <2> QED BY <2>1 DEF LogGrows, BaseInv, LogInv, LogType
<1>3. ASSUME NEW c \in Consumers, NEW s \in kept', NEW t \in kept',
             s <= cursor[c], t <= s, log'[t] = <<log'[s][1], "created">>
      PROVE  s \in seen'[c]
  <2>1. s <= Len(log) /\ t <= Len(log)
    BY <1>1, <1>3
  <2>2. s \in kept /\ t \in kept /\ log[t] = <<log[s][1], "created">>
    BY <1>2, <1>3, <2>1
  <2> QED BY <1>3, <2>2 DEF FollowInv, NothingBehindTheCursor
<1> QED BY <1>1, <1>3 DEF FollowInv, NothingBehindTheCursor

LEMMA ReadRowsFollows ==
  ASSUME BaseInv, FollowInv, NEW c \in Consumers, ReadRows(c)
  PROVE  FollowInv'
<1>1. UNCHANGED tables
  BY DEF ReadRows
<1>2. CASE UNCHANGED <<cursor, seen>>
  BY <1>1, <1>2 DEF tables, FollowInv, NothingBehindTheCursor
<1>3. ASSUME NEW last \in RowsAfter(cursor[c]),
             cursor' = [cursor EXCEPT ![c] = last],
             seen' = [seen EXCEPT ![c] = @ \cup {s \in RowsAfter(cursor[c]) : s <= last}]
      PROVE  FollowInv'
  <2>1. /\ kept \subseteq Nat /\ Len(log) \in Nat /\ \A s \in kept : s <= Len(log)
        /\ \A d \in Consumers : cursor[d] \in Nat
    BY DEF BaseInv, LogInv, LogType, Reader
  <2>2. last \in kept
    BY <1>3 DEF RowsAfter
  <2>3. /\ cursor'[c] = last /\ \A d \in Consumers : d # c => cursor'[d] = cursor[d]
        /\ seen'[c] = seen[c] \cup {s \in RowsAfter(cursor[c]) : s <= last}
        /\ \A d \in Consumers : d # c => seen'[d] = seen[d]
    BY <1>3 DEF BaseInv, Reader, Follower
  <2>4. ASSUME NEW s \in kept, NEW t \in kept, log[t] = <<log[s][1], "created">>,
               s > cursor[c]
        PROVE  s \in RowsAfter(cursor[c])
    <3>1. log[s][1] \in Events
      BY DEF BaseInv, Linked
    <3>2. events[log[s][1]] # "none"
      BY <2>4, <3>1 DEF BaseInv, Linked, IsLogged
    <3> QED BY <2>4, <3>1, <3>2 DEF RowsAfter
  <2>5. ASSUME NEW s \in kept, NEW t \in kept, s <= last, t <= s,
               log[t] = <<log[s][1], "created">>
        PROVE  s \in seen'[c]
    <3>1. CASE s <= cursor[c]
      BY <2>3, <2>5, <3>1 DEF FollowInv, NothingBehindTheCursor
    <3>2. CASE s > cursor[c]
      BY <2>3, <2>4, <2>5, <3>2
    <3> QED BY <2>1, <3>1, <3>2
  <2>6. \A d \in Consumers : \A s \in kept :
          s <= cursor'[d] /\ (\E t \in kept : t <= s /\ log[t] = <<log[s][1], "created">>)
            => s \in seen'[d]
    BY <2>3, <2>5 DEF FollowInv, NothingBehindTheCursor
  <2>7. \A d \in Consumers : cursor'[d] <= Len(log)
    BY <2>1, <2>2, <2>3 DEF FollowInv
  <2> QED BY <1>1, <2>6, <2>7 DEF tables, FollowInv, NothingBehindTheCursor
<1> QED BY <1>2, <1>3 DEF ReadRows

\* A consumer that goes on from next_change_seq passes over no change, for any number of
\* consumers, wherever the pages end and whatever is appended or deleted meanwhile.
THEOREM NothingIsPassedOver == Spec => []NothingBehindTheCursor
<1>1. Init => FollowInv
  BY DEF Init, FollowInv, NothingBehindTheCursor
<1>2. BaseInv /\ BaseInv' /\ LogGrows /\ FollowInv /\ [Next]_vars => FollowInv'
  <2> SUFFICES ASSUME BaseInv, BaseInv', LogGrows, FollowInv, [Next]_vars PROVE FollowInv'
    OBVIOUS
  <2>1. CASE UNCHANGED <<cursor, seen>>
    BY <2>1, NothingNewBehind
  <2>2. CASE \E c \in Consumers : ReadRows(c)
    BY <2>2, ReadRowsFollows
  <2>3. CASE UNCHANGED <<cursor, log>> /\ seen' = [c \in Consumers |-> seen[c] \cap kept']
    BY <2>3, NothingNewBehind
  <2> QED BY <2>1, <2>2, <2>3, PageSteps
<1>3. FollowInv => NothingBehindTheCursor
  BY DEF FollowInv
<1> QED BY <1>1, <1>2, <1>3, BaseStep, BaseInvariance, PTL DEF Spec

-----------------------------------------------------------------------------
(* Operations that come back.                                              *)

\* The numbers of the log that were given to the start of an operation.
Starts(e) == {s \in DOMAIN log : log[s] = <<e, "created">>}

LEMMA NumbersAreFinite ==
  ASSUME NEW n \in Nat, NEW S \in SUBSET (1 .. n)
  PROVE  IsFiniteSet(S) /\ Cardinality(S) \in Nat
<1>1. IsFiniteSet(1 .. n)
  BY FS_Interval
<1>2. IsFiniteSet(S)
  BY <1>1, FS_Subset
<1> QED BY <1>2, FS_CardinalityType

LEMMA StartsAreFinite ==
  ASSUME LogInv, NEW e \in Events
  PROVE  /\ IsFiniteSet(Starts(e)) /\ Cardinality(Starts(e)) \in Nat
         /\ Revived(e) <=> Cardinality(Starts(e)) > 1
<1>1. Len(log) \in Nat /\ DOMAIN log = 1 .. Len(log)
  BY DEF LogInv, LogType
<1> QED BY <1>1, NumbersAreFinite DEF Revived, Starts

\* A second start makes an operation a revived one.
LEMMA TwoStarts ==
  ASSUME NEW n \in Nat, NEW S \in SUBSET (1 .. n), NEW s \in S, NEW t \in S, s # t
  PROVE  Cardinality(S) > 1
<1>1. IsFiniteSet({s}) /\ Cardinality({s}) = 1
  BY FS_Singleton
<1>2. Cardinality({s} \cup {t}) = 2 /\ IsFiniteSet({s} \cup {t})
  BY <1>1, FS_AddElement
<1>3. Cardinality({s} \cup {t}) <= Cardinality(S) /\ Cardinality(S) \in Nat
  BY <1>2, NumbersAreFinite, FS_Subset
<1> QED BY <1>2, <1>3

LEMMA StartsGrow ==
  ASSUME LogInv, LogInv', LogGrows, NEW e \in Events
  PROVE  Starts(e) \subseteq Starts(e)'
BY DEF LogInv, LogType, LogGrows, Starts

LEMMA RevivedStays ==
  ASSUME LogInv, LogInv', LogGrows, NEW e \in Events, Revived(e)
  PROVE  Revived(e)'
<1>1. Len(log') \in Nat /\ DOMAIN log' = 1 .. Len(log')
  BY DEF LogInv, LogType
<1>2. /\ IsFiniteSet(Starts(e)') /\ Cardinality(Starts(e)') \in Nat
      /\ Revived(e)' <=> Cardinality(Starts(e)') > 1
  BY <1>1, NumbersAreFinite DEF Revived, Starts
<1>3. Cardinality(Starts(e)) <= Cardinality(Starts(e)')
  BY <1>2, StartsGrow, FS_Subset
<1> QED BY <1>2, <1>3, StartsAreFinite

\* An operation that is in the table has its start in the log.
LEMMA StartOfAnOperation ==
  ASSUME LogInv, NEW e \in Events, events[e] # "none"
  PROVE  Starts(e) # {}
<1>1. PICK s \in kept : log[s] = <<e, "created">>
  BY DEF LogInv, IsLogged
<1>2. s \in DOMAIN log
  BY DEF LogInv, LogType
<1> QED BY <1>1, <1>2 DEF Starts

\* What becomes of an operation: it is begun by a record of its start, and only then.
LEMMA EventSteps ==
  ASSUME LogInv, NEW e \in Events, [Next]_vars
  PROVE  \/ events'[e] = events[e]
         \/ events[e] = "none" /\ \E b \in batches : b.event = e /\ ApplyStarted(b)
         \/ events[e] # "none" /\ events'[e] \in {"complete", "partial"}
         \/ events'[e] = "none" /\ \E k \in Cleaners : Delete(k)
<1>1. ASSUME NEW b \in batches, ApplyStarted(b)
      PROVE  \/ events'[e] = events[e]
             \/ events[e] = "none" /\ b.event = e
  BY <1>1 DEF ApplyStarted, LogInv, LogType
<1>2. ASSUME NEW b \in batches, ApplyCompleted(b)
      PROVE  \/ events'[e] = events[e]
             \/ events[e] # "none" /\ events'[e] \in {"complete", "partial"}
  BY <1>2 DEF ApplyCompleted, LogInv, LogType
<1>3. ASSUME NEW b \in batches, Applying(b), ~ApplyStarted(b), ~ApplyCompleted(b)
      PROVE  events'[e] = events[e]
  BY <1>3 DEF Applying, FindsEvent, MissesEvent, BatchFails, ApplyOutput, tables
<1>4. ASSUME NEW k \in Cleaners, Delete(k) PROVE events'[e] = events[e] \/ events'[e] = "none"
  BY <1>4 DEF Delete, DeleteOperations
<1>5. ASSUME NEW k \in Cleaners, Cleaning(k), ~Delete(k) PROVE events'[e] = events[e]
  BY <1>5 DEF Cleaning, AcquireLease, ReadAcks, Choose, Stop, ReleaseLease, Killed, tables
<1>6. ASSUME NEW f \in Events, Send(f) \/ SkipOutput(f) \/ NoAnswer(f)
      PROVE  events'[e] = events[e]
  BY <1>6 DEF Send, SkipOutput, NoAnswer, tables
<1>7. ASSUME NEW c \in Consumers, Consuming(c) PROVE events'[e] = events[e]
  BY <1>7 DEF Consuming, ReadRows, Acknowledge, FallsSilent, tables
<1>8. LeaseExpires \/ UNCHANGED vars => events'[e] = events[e]
  BY DEF LeaseExpires, vars, tables
<1> QED BY <1>1, <1>2, <1>3, <1>4, <1>5, <1>6, <1>7, <1>8 DEF Next

\* An operation with a start in the log that is running is running on, or has come back.
LEMMA RunsOnOrComesBack ==
  ASSUME BaseInv, BaseInv', LogGrows, [Next]_vars, NEW e \in Events,
         Starts(e) # {}, events'[e] = "started"
  PROVE  events[e] = "started" \/ Revived(e)'
<1>1. LogInv /\ LogInv' /\ Linked
  BY DEF BaseInv
<1>2. SUFFICES ASSUME NEW b \in batches, b.event = e, ApplyStarted(b), events[e] = "none"
               PROVE  Revived(e)'
  BY <1>1, EventSteps
<1>3. ~IsLogged(e, "created")
  BY <1>1, <1>2 DEF Linked
<1>4. AppendChange(e, "created") /\ "created" \in Kinds
  BY <1>2 DEF ApplyStarted, Kinds
<1>5. /\ Len(log) \in Nat /\ Len(log') = Len(log) + 1
      /\ log'[Len(log) + 1] = <<e, "created">>
  BY <1>1, <1>3, <1>4, AppendChangeGrows DEF LogInv
<1>6. DOMAIN log = 1 .. Len(log) /\ DOMAIN log' = 1 .. Len(log')
  BY <1>1 DEF LogInv, LogType
<1>7. PICK s \in Starts(e) : TRUE
  OBVIOUS
<1>8. s \in Starts(e)' /\ Len(log) + 1 \in Starts(e)' /\ s # Len(log) + 1
  <2>1. s \in Starts(e)'
    BY <1>1, StartsGrow
  <2>2. Len(log) + 1 \in Starts(e)'
    BY <1>5, <1>6 DEF Starts
  <2>3. s \in 1 .. Len(log)
    BY <1>6 DEF Starts
  <2> QED BY <1>5, <2>1, <2>2, <2>3
<1>9. Starts(e)' \in SUBSET (1 .. Len(log')) /\ Len(log') \in Nat
  BY <1>5, <1>6 DEF Starts
<1>10. Cardinality(Starts(e)') > 1
  BY <1>8, <1>9, TwoStarts
<1> QED BY <1>10 DEF Revived, Starts

\* The host hears of a recorded end only from the batch that records it.
LEMMA ToldBy ==
  ASSUME Recorder, [Next]_vars, NEW e \in Events, host'[e].told
  PROVE  host[e].told \/ \E b \in batches : b.event = e /\ ApplyCompleted(b)
<1>1. ASSUME NEW f \in Events, NEW ok \in BOOLEAN, MoveOn(f, ok)
      PROVE  host'[e] = host[e] \/ (f = e /\ host[e].stage = "completed" /\ ok)
  <2>1. PICK next, complete :
          host' = [host EXCEPT ![f] =
                     [stage |-> next, waiting |-> FALSE, tries |-> 0, complete |-> complete,
                      told |-> @.stage = "completed" /\ ok]]
    BY <1>1 DEF MoveOn
  <2>2. CASE f # e
    BY <2>1, <2>2 DEF Recorder
  <2>3. CASE f = e
    <3>1. DOMAIN host = Events
      BY DEF Recorder
    <3>2. PICK told \in BOOLEAN : told = (host[e].stage = "completed" /\ ok)
      OBVIOUS
    <3>3. host'[e] = [stage |-> next, waiting |-> FALSE, tries |-> 0, complete |-> complete,
                      told |-> told]
      BY <2>1, <2>3, <3>1, <3>2, Zenon
    <3>4. host'[e].told = told
      BY <3>3
    <3> QED BY <2>3, <3>2, <3>4
  <2> QED BY <2>2, <2>3
<1>2. ASSUME NEW b \in batches, NEW ok \in BOOLEAN, Answer(b, ok)
      PROVE  \/ host'[e] = host[e]
             \/ b.event = e /\ b.kind = "completed" /\ ok
  <2>1. b.event \in Events
    BY DEF Recorder, Batches
  <2> QED BY <1>1, <1>2, <2>1 DEF Answer
<1>3. ASSUME NEW b \in batches, Applying(b)
      PROVE  host[e].told \/ (b.event = e /\ ApplyCompleted(b))
  <2>1. CASE FindsEvent(b)
    BY <2>1 DEF FindsEvent
  <2>2. CASE MissesEvent(b) \/ BatchFails(b)
    BY <1>2, <2>2 DEF MissesEvent, BatchFails
  <2>3. CASE ApplyStarted(b)
    BY <1>2, <2>3 DEF ApplyStarted
  <2>4. CASE ApplyOutput(b)
    BY <1>2, <2>4 DEF ApplyOutput
  <2>5. CASE ApplyCompleted(b)
    BY <1>2, <2>5 DEF ApplyCompleted
  <2> QED BY <1>3, <2>1, <2>2, <2>3, <2>4, <2>5 DEF Applying
<1>4. ASSUME NEW f \in Events, Send(f) \/ SkipOutput(f) \/ NoAnswer(f) PROVE host[e].told
  <2>1. CASE Send(f)
    BY <2>1 DEF Send, Recorder, Hosts
  <2>2. CASE SkipOutput(f)
    BY <1>1, <2>2 DEF SkipOutput
  <2>3. CASE NoAnswer(f)
    BY <1>1, <2>3 DEF NoAnswer, Recorder, Hosts
  <2> QED BY <1>4, <2>1, <2>2, <2>3
<1>5. ASSUME NEW c \in Consumers, Consuming(c) PROVE UNCHANGED host
  BY <1>5 DEF Consuming, ReadRows, Acknowledge, FallsSilent, recording
<1>6. ASSUME NEW k \in Cleaners, Cleaning(k) PROVE UNCHANGED host
  BY <1>6 DEF Cleaning, AcquireLease, ReadAcks, Choose, Delete, Stop, ReleaseLease, Killed,
     recording
<1>7. LeaseExpires \/ UNCHANGED vars => UNCHANGED host
  BY DEF LeaseExpires, vars, recording
<1> QED BY <1>3, <1>4, <1>5, <1>6, <1>7 DEF Next

\* The operation of a batch that has found it, and one of which the host was told that its
\* end is recorded, have been started; the latter runs again only when it has come back.
FinalInv ==
  /\ \A b \in batches : b.kind # "created" /\ b.step = "found" => Starts(b.event) # {}
  /\ \A e \in Events : host[e].told =>
       Starts(e) # {} /\ (events[e] = "started" => Revived(e))

LEMMA BatchSteps ==
  ASSUME Recorder, [Next]_vars, NEW b \in batches', b \notin batches,
         b.kind # "created", b.step = "found"
  PROVE  b.event \in Events /\ events[b.event] # "none"
<1>1. ASSUME NEW a \in batches, Applying(a) PROVE FindsEvent(a)
  BY <1>1 DEF Applying, MissesEvent, BatchFails, ApplyStarted, ApplyOutput, ApplyCompleted,
     Answer
<1>2. ASSUME NEW a \in batches, FindsEvent(a)
      PROVE  b.event \in Events /\ events[b.event] # "none"
  <2>1. b = [a EXCEPT !.step = "found"] /\ events[a.event] # "none"
    BY <1>2 DEF FindsEvent
  <2> QED BY <2>1 DEF Recorder, Batches
<1>3. ASSUME NEW e \in Events, Send(e) PROVE FALSE
  BY <1>3 DEF Send
<1>4. ASSUME NEW e \in Events, SkipOutput(e) \/ NoAnswer(e) PROVE FALSE
  BY <1>4 DEF SkipOutput, NoAnswer
<1>5. ASSUME NEW c \in Consumers, Consuming(c) PROVE FALSE
  BY <1>5 DEF Consuming, ReadRows, Acknowledge, FallsSilent, recording
<1>6. ASSUME NEW k \in Cleaners, Cleaning(k) PROVE FALSE
  BY <1>6 DEF Cleaning, AcquireLease, ReadAcks, Choose, Delete, Stop, ReleaseLease, Killed,
     recording
<1>7. LeaseExpires \/ UNCHANGED vars => FALSE
  BY DEF LeaseExpires, vars, recording
<1> QED BY <1>1, <1>2, <1>3, <1>4, <1>5, <1>6, <1>7 DEF Next

LEMMA FinalStep ==
  ASSUME BaseInv, BaseInv', LogGrows, FinalInv, [Next]_vars
  PROVE  FinalInv'
<1>1. LogInv /\ LogInv' /\ Recorder /\ Recorder'
  BY DEF BaseInv
<1>2. ASSUME NEW e \in Events, Starts(e) # {} PROVE Starts(e)' # {}
  BY <1>1, <1>2, StartsGrow
<1>3. ASSUME NEW b \in batches', b.kind # "created", b.step = "found"
      PROVE  Starts(b.event)' # {}
  <2>1. b.event \in Events
    BY <1>1 DEF Recorder, Batches
  <2>2. CASE b \in batches
    BY <1>2, <1>3, <2>1, <2>2 DEF FinalInv
  <2>3. CASE b \notin batches
    BY <1>1, <1>2, <1>3, <2>1, <2>3, BatchSteps, StartOfAnOperation
  <2> QED BY <2>2, <2>3
<1>4. ASSUME NEW e \in Events, host[e].told
      PROVE  Starts(e)' # {} /\ (events'[e] = "started" => Revived(e)')
  <2>1. Starts(e) # {} /\ (events[e] = "started" => Revived(e))
    BY <1>4 DEF FinalInv
  <2>2. ASSUME events'[e] = "started" PROVE Revived(e)'
    BY <1>1, <2>1, <2>2, RunsOnOrComesBack, RevivedStays
  <2> QED BY <1>2, <2>1, <2>2
<1>5. ASSUME NEW e \in Events, NEW b \in batches, b.event = e, ApplyCompleted(b)
      PROVE  Starts(e)' # {} /\ events'[e] # "started"
  <2>1. Starts(e) # {}
    BY <1>5 DEF ApplyCompleted, FinalInv
  <2>2. events'[e] # "started"
    BY <1>1, <1>5 DEF ApplyCompleted, LogInv, LogType
  <2> QED BY <1>2, <2>1, <2>2
<1>6. ASSUME NEW e \in Events, host'[e].told
      PROVE  Starts(e)' # {} /\ (events'[e] = "started" => Revived(e)')
  BY <1>1, <1>4, <1>5, <1>6, ToldBy
<1> QED BY <1>3, <1>6 DEF FinalInv

\* An operation of which the host was told that its end is recorded does not show as
\* running again, however late the repeats of its earlier records arrive: the upsert of
\* the start leaves an operation that is there alone.  Only one that the cleanup has
\* deleted comes back.
THEOREM RecordedEndsAreFinal == Spec => []EndsAreFinal
<1>1. Init => FinalInv
  BY DEF Init, FinalInv
<1>2. BaseInv /\ BaseInv' /\ LogGrows /\ FinalInv /\ [Next]_vars => FinalInv'
  BY FinalStep
<1>3. FinalInv => EndsAreFinal
  BY DEF FinalInv, EndsAreFinal
<1> QED BY <1>1, <1>2, <1>3, BaseStep, BaseInvariance, PTL DEF Spec

-----------------------------------------------------------------------------
(* What the cleanup removes.                                               *)

\* What a cleanup knows while it chooses and deletes.  Its limit is below the
\* acknowledgements of the consumers it counted.  What it has chosen had ended: each
\* change of it is within the limit or was appended after the choice, and it runs again
\* only when it has come back.
ChosenInv(k) ==
  /\ cleaner[k].at \in {"choosing", "deleting"} =>
       \A c \in cleaner[k].counted : cleaner[k].protected <= ack[c]
  /\ cleaner[k].at = "deleting" =>
       /\ cleaner[k].horizon <= Len(log)
       /\ \A e \in cleaner[k].chosen :
            /\ Starts(e) # {}
            /\ events[e] = "started" => Revived(e)
            /\ \A s \in ChangesOf(e) : s <= cleaner[k].protected \/ s > cleaner[k].horizon

\* What makes an operation a candidate.
LEMMA CandidatesEnded ==
  ASSUME LogInv, NEW limit \in Nat, NEW e \in Candidates(limit)
  PROVE  /\ e \in Events /\ events[e] = "complete"
         /\ \A s \in ChangesOf(e) : s <= limit
<1> DEFINE numbers == {0} \cup ChangesOf(e)
<1>1. Len(log) \in Nat /\ numbers \in SUBSET Nat /\ \A s \in numbers : s <= Len(log)
  <2>1. Len(log) \in Nat /\ kept \subseteq 1 .. Len(log)
    BY DEF LogInv, LogType
  <2>2. ChangesOf(e) \subseteq 1 .. Len(log)
    BY <2>1 DEF ChangesOf
  <2> QED BY <2>1, <2>2
<1>2. Max(numbers) \in Nat /\ \A s \in numbers : s <= Max(numbers)
  <2>1. numbers # {}
    OBVIOUS
  <2> HIDE DEF numbers
  <2> QED BY <1>1, <2>1, MaxIsGreatest
<1>3. /\ e \in Events /\ events[e] = "complete"
      /\ Max(numbers) <= limit
  BY DEF Candidates, LastChange
<1>4. \A s \in numbers : s <= limit
  <2> HIDE DEF numbers
  <2> QED BY <1>1, <1>2, <1>3
<1> QED BY <1>3, <1>4

\* What a cleanup knows stays true while others acknowledge, append and delete.
LEMMA ChosenStays ==
  ASSUME BaseInv, BaseInv', LogGrows, [Next]_vars, NEW k \in Cleaners, ChosenInv(k),
         \A c \in Consumers : ack[c] <= ack'[c],
         \/ cleaner'[k] = cleaner[k]
         \/ \E over \in BOOLEAN : cleaner'[k] = [cleaner[k] EXCEPT !.overrun = over]
  PROVE  ChosenInv(k)'
<1>1. LogInv /\ LogInv' /\ cleaner[k] \in Cleanups
  BY DEF BaseInv, Sweeper
<1>2. /\ cleaner'[k].at = cleaner[k].at /\ cleaner'[k].counted = cleaner[k].counted
      /\ cleaner'[k].chosen = cleaner[k].chosen /\ cleaner'[k].horizon = cleaner[k].horizon
      /\ cleaner'[k].protected = cleaner[k].protected
  BY <1>1 DEF Cleanups
<1>3. /\ cleaner[k].protected \in Nat /\ cleaner[k].horizon \in Nat
      /\ cleaner[k].counted \subseteq Consumers /\ cleaner[k].chosen \subseteq Events
      /\ \A c \in Consumers : ack[c] \in Nat /\ ack'[c] \in Nat
  BY <1>1 DEF Cleanups, BaseInv, Reader
<1>4. Len(log) \in Nat /\ Len(log') \in Nat /\ Len(log) <= Len(log') /\ kept' \subseteq Nat
  BY <1>1 DEF LogGrows, LogInv, LogType
<1>5. ASSUME NEW c \in cleaner[k].counted, cleaner[k].protected <= ack[c]
      PROVE  cleaner[k].protected <= ack'[c]
  <2>1. ack[c] <= ack'[c] /\ ack[c] \in Nat /\ ack'[c] \in Nat
    BY <1>3
  <2> QED BY <1>3, <1>5, <2>1
<1>6. ASSUME cleaner[k].at = "deleting", NEW e \in cleaner[k].chosen
      PROVE  /\ Starts(e)' # {}
             /\ events'[e] = "started" => Revived(e)'
             /\ \A s \in ChangesOf(e)' : s <= cleaner[k].protected \/ s > cleaner[k].horizon
  <2>1. /\ e \in Events /\ Starts(e) # {}
        /\ events[e] = "started" => Revived(e)
        /\ \A s \in ChangesOf(e) : s <= cleaner[k].protected \/ s > cleaner[k].horizon
        /\ cleaner[k].horizon <= Len(log)
    BY <1>3, <1>6 DEF ChosenInv
  <2>2. Starts(e)' # {}
    BY <1>1, <2>1, StartsGrow
  <2>3. events'[e] = "started" => Revived(e)'
    BY <1>1, <2>1, RunsOnOrComesBack, RevivedStays
  <2>4. ASSUME NEW s \in ChangesOf(e)'
        PROVE  s <= cleaner[k].protected \/ s > cleaner[k].horizon
    <3>1. s \in kept' /\ log'[s][1] = e /\ s \in Nat
      BY <1>4, <2>4 DEF ChangesOf
    <3>2. CASE s \in kept
      <4>1. s \in ChangesOf(e)
        BY <1>1, <3>1, <3>2 DEF ChangesOf, LogGrows, LogInv, LogType
      <4> QED BY <2>1, <4>1
    <3>3. CASE s > Len(log)
      BY <1>3, <1>4, <2>1, <3>1, <3>3
    <3> QED BY <3>1, <3>2, <3>3 DEF LogGrows
  <2> QED BY <2>2, <2>3, <2>4
<1>7. cleaner[k].at = "deleting" => cleaner[k].horizon <= Len(log')
  BY <1>3, <1>4 DEF ChosenInv
<1> QED BY <1>2, <1>5, <1>6, <1>7 DEF ChosenInv

\* A cleanup makes its limit and its choice.
LEMMA Chooses ==
  ASSUME BaseInv, NEW k \in Cleaners, Cleaning(k), ChosenInv(k)
  PROVE  ChosenInv(k)'
<1>1. LogInv /\ Reader /\ cleaner \in [Cleaners -> Cleanups] /\ cleaner[k] \in Cleanups
  BY DEF BaseInv, Sweeper
<1>2. CASE ReadAcks(k)
  <2> DEFINE limit == IF Active = {} THEN MaxSeq ELSE Min({ack[c] : c \in Active})
  <2>1. \A c \in Active : limit <= ack[c]
    BY <1>1, ProtectedIsLeast
  <2>2. /\ cleaner' = [cleaner EXCEPT ![k].at = "choosing", ![k].counted = Active,
                                      ![k].protected = limit]
        /\ ack' = ack
    BY <1>2 DEF ReadAcks, consuming
  <2> HIDE DEF limit
  <2>3. /\ cleaner'[k].at = "choosing" /\ cleaner'[k].counted = Active
        /\ cleaner'[k].protected = limit
    BY <1>1, <2>2 DEF Cleanups
  <2> QED BY <2>1, <2>2, <2>3 DEF ChosenInv
<1>3. CASE Choose(k)
  <2>1. PICK chosen \in SUBSET Candidates(cleaner[k].protected) \ {{}} :
          cleaner' = [cleaner EXCEPT ![k].at = "deleting", ![k].chosen = chosen,
                                     ![k].horizon = Len(log)]
    BY <1>3 DEF Choose
  <2>2. /\ cleaner'[k].at = "deleting" /\ cleaner'[k].counted = cleaner[k].counted
        /\ cleaner'[k].protected = cleaner[k].protected
        /\ cleaner'[k].chosen = chosen /\ cleaner'[k].horizon = Len(log)
    BY <1>1, <2>1 DEF Cleanups
  <2>3. UNCHANGED <<events, log, kept, ack>> /\ cleaner[k].at = "choosing"
    BY <1>3 DEF Choose, tables, consuming
  <2>4. cleaner[k].protected \in Nat /\ Len(log) \in Nat
    BY <1>1 DEF Cleanups, LogInv, LogType
  <2>5. ASSUME NEW e \in chosen
        PROVE  /\ Starts(e) # {} /\ events[e] # "started"
               /\ \A s \in ChangesOf(e) : s <= cleaner[k].protected
    BY <1>1, <2>4, CandidatesEnded, StartOfAnOperation
  <2>6. \A e \in chosen : Starts(e)' = Starts(e) /\ ChangesOf(e)' = ChangesOf(e)
    BY <2>3 DEF Starts, ChangesOf
  <2> QED BY <2>2, <2>3, <2>4, <2>5, <2>6 DEF ChosenInv
<1>4. CASE AcquireLease(k)
  <2>1. cleaner'[k].at = "reading"
    BY <1>1, <1>4 DEF AcquireLease, Cleanups
  <2> QED BY <2>1 DEF ChosenInv
<1>5. CASE Delete(k) \/ Stop(k)
  <2>1. cleaner'[k].at = "ending"
    BY <1>1, <1>5 DEF Delete, Stop, Ends, NoCleanup
  <2> QED BY <2>1 DEF ChosenInv
<1>6. CASE ReleaseLease(k) \/ Killed(k)
  <2>1. cleaner'[k].at = "idle"
    BY <1>1, <1>6 DEF ReleaseLease, Killed, NoCleanup
  <2> QED BY <2>1 DEF ChosenInv
<1> QED BY <1>2, <1>3, <1>4, <1>5, <1>6 DEF Cleaning

\* The acknowledgements of all consumers, and the cleanups that a step is not of.
LEMMA AcksStep ==
  ASSUME Reader, [Next]_vars PROVE \A c \in Consumers : ack[c] <= ack'[c]
<1>1. CASE UNCHANGED ack
  BY <1>1 DEF Reader
<1>2. ASSUME NEW c \in Consumers, Consuming(c), ~Acknowledge(c) PROVE UNCHANGED ack
  BY <1>2 DEF Consuming, ReadRows, FallsSilent
<1>3. ASSUME NEW k \in Cleaners, Cleaning(k) PROVE UNCHANGED ack
  BY <1>3 DEF Cleaning, AcquireLease, ReadAcks, Choose, Delete, Stop, ReleaseLease, Killed,
     consuming
<1>4. ASSUME NEW b \in batches, Applying(b) PROVE UNCHANGED ack
  BY <1>4 DEF Applying, FindsEvent, MissesEvent, BatchFails, ApplyStarted, ApplyOutput,
     ApplyCompleted, consuming
<1>5. ASSUME NEW e \in Events, Send(e) \/ SkipOutput(e) \/ NoAnswer(e) PROVE UNCHANGED ack
  BY <1>5 DEF Send, SkipOutput, NoAnswer, consuming
<1>6. LeaseExpires \/ UNCHANGED vars => UNCHANGED ack
  BY DEF LeaseExpires, vars, consuming
<1> QED BY <1>1, <1>2, <1>3, <1>4, <1>5, <1>6, AckGrows DEF Next

LEMMA CleanerSteps ==
  ASSUME Sweeper, [Next]_vars, NEW k \in Cleaners
  PROVE  \/ cleaner'[k] = cleaner[k]
         \/ \E over \in BOOLEAN : cleaner'[k] = [cleaner[k] EXCEPT !.overrun = over]
         \/ Cleaning(k)
<1>1. ASSUME NEW j \in Cleaners, j # k, Cleaning(j) PROVE cleaner'[k] = cleaner[k]
  BY <1>1 DEF Cleaning, AcquireLease, ReadAcks, Choose, Delete, Stop, Ends, ReleaseLease,
     Killed, Sweeper
<1>2. CASE LeaseExpires
  <2>1. PICK over \in BOOLEAN : over = (cleaner[lease.owner].at # "idle")
    OBVIOUS
  <2>2. cleaner' = [cleaner EXCEPT ![lease.owner].overrun = over]
    BY <1>2, <2>1 DEF LeaseExpires
  <2> QED BY <2>2 DEF Sweeper
<1>3. ASSUME NEW b \in batches, Applying(b) PROVE UNCHANGED cleaner
  BY <1>3 DEF Applying, FindsEvent, MissesEvent, BatchFails, ApplyStarted, ApplyOutput,
     ApplyCompleted, cleaning
<1>4. ASSUME NEW e \in Events, Send(e) \/ SkipOutput(e) \/ NoAnswer(e) PROVE UNCHANGED cleaner
  BY <1>4 DEF Send, SkipOutput, NoAnswer, cleaning
<1>5. ASSUME NEW c \in Consumers, Consuming(c) PROVE UNCHANGED cleaner
  BY <1>5 DEF Consuming, ReadRows, Acknowledge, FallsSilent, cleaning
<1>6. UNCHANGED vars => UNCHANGED cleaner
  BY DEF vars, cleaning
<1> QED BY <1>1, <1>2, <1>3, <1>4, <1>5, <1>6 DEF Next

LEMMA ChosenInvariance == Spec => [](BaseInv /\ \A k \in Cleaners : ChosenInv(k))
<1> DEFINE AllChosen == \A k \in Cleaners : ChosenInv(k)
<1>1. Init => AllChosen
  BY DEF Init, ChosenInv, NoCleanup
<1>2. BaseInv /\ BaseInv' /\ LogGrows /\ AllChosen /\ [Next]_vars => AllChosen'
  <2> SUFFICES ASSUME BaseInv, BaseInv', LogGrows, [Next]_vars,
                      NEW k \in Cleaners, ChosenInv(k)
               PROVE  ChosenInv(k)'
    OBVIOUS
  <2>1. Reader /\ Sweeper
    BY DEF BaseInv
  <2>2. \A c \in Consumers : ack[c] <= ack'[c]
    BY <2>1, AcksStep
  <2> QED BY <2>1, <2>2, CleanerSteps, ChosenStays, Chooses
<1> HIDE DEF AllChosen
<1>3. Spec => [](BaseInv /\ AllChosen)
  BY <1>1, <1>2, BaseStep, BaseInvariance, PTL DEF Spec
<1> QED BY <1>3 DEF AllChosen

\* A deletion takes what the cleanup had chosen, and candidates it finds then.
LEMMA DeletionTakes ==
  ASSUME BaseInv, NEW k \in Cleaners, ChosenInv(k), Delete(k)
  PROVE  \E gone \in SUBSET Events :
           /\ DeleteOperations(gone)
           /\ \A e \in gone :
                /\ events[e] = "started" => Revived(e)
                /\ \A s \in ChangesOf(e) :
                     s <= cleaner[k].protected \/ s > cleaner[k].horizon
<1>1. LogInv /\ cleaner[k] \in Cleanups
  BY DEF BaseInv, Sweeper
<1>2. cleaner[k].protected \in Nat /\ cleaner[k].chosen \subseteq Events
  BY <1>1 DEF Cleanups
<1>3. PICK more \in SUBSET Candidates(cleaner[k].protected) :
        DeleteOperations(cleaner[k].chosen \cup more)
  BY DEF Delete
<1>4. \A e \in more : /\ e \in Events /\ events[e] # "started"
                      /\ \A s \in ChangesOf(e) : s <= cleaner[k].protected
  BY <1>1, <1>2, CandidatesEnded
<1>5. \A e \in cleaner[k].chosen :
        /\ events[e] = "started" => Revived(e)
        /\ \A s \in ChangesOf(e) : s <= cleaner[k].protected \/ s > cleaner[k].horizon
  BY DEF ChosenInv, Delete
<1> cleaner[k].chosen \cup more \in SUBSET Events
  BY <1>2, <1>4
<1> WITNESS cleaner[k].chosen \cup more \in SUBSET Events
<1> QED BY <1>3, <1>4, <1>5

\* Only deletions take from the table and from the log.
LEMMA OnlyDeletionsTake ==
  ASSUME BaseInv, [Next]_vars
  PROVE  \/ \E k \in Cleaners : Delete(k)
         \/ kept \subseteq kept' /\ \A e \in Events : events[e] # "none" => events'[e] # "none"
<1>1. LogInv
  BY DEF BaseInv
<1>2. ASSUME NEW b \in batches, Applying(b) PROVE kept \subseteq kept'
  BY <1>2 DEF Applying, FindsEvent, MissesEvent, BatchFails, ApplyStarted, ApplyOutput,
     ApplyCompleted, AppendChange, tables
<1>3. ASSUME NEW k \in Cleaners, Cleaning(k), ~Delete(k) PROVE kept' = kept
  BY <1>3 DEF Cleaning, AcquireLease, ReadAcks, Choose, Stop, ReleaseLease, Killed, tables
<1>4. ASSUME NEW e \in Events, Send(e) \/ SkipOutput(e) \/ NoAnswer(e) PROVE kept' = kept
  BY <1>4 DEF Send, SkipOutput, NoAnswer, tables
<1>5. ASSUME NEW c \in Consumers, Consuming(c) PROVE kept' = kept
  BY <1>5 DEF Consuming, ReadRows, Acknowledge, FallsSilent, tables
<1>6. LeaseExpires \/ UNCHANGED vars => kept' = kept
  BY DEF LeaseExpires, vars, tables
<1>7. \/ \E k \in Cleaners : Delete(k)
      \/ \A e \in Events : events[e] # "none" => events'[e] # "none"
  BY <1>1, EventSteps DEF LogInv, LogType
<1> QED BY <1>2, <1>3, <1>4, <1>5, <1>6, <1>7 DEF Next

\* A change that a cleanup removes was acknowledged by every consumer it counted, or was
\* appended after the choice: of the operations chosen before, and of those that the
\* loop over max_bytes finds in the transaction.
THEOREM AcknowledgementsAreRespected == Spec => ProtectedChangesStay
<1>1. BaseInv /\ (\A k \in Cleaners : ChosenInv(k)) /\ [Next]_vars =>
        [\A k \in Cleaners : cleaner[k].at = "deleting" /\ cleaner'[k].at = "ending" =>
           \A s \in kept \ kept', c \in cleaner[k].counted :
             s <= ack[c] \/ s > cleaner[k].horizon]_vars
  <2> SUFFICES ASSUME BaseInv, \A k \in Cleaners : ChosenInv(k), [Next]_vars,
                      NEW k \in Cleaners, cleaner[k].at = "deleting", cleaner'[k].at = "ending",
                      NEW s \in kept \ kept', NEW c \in cleaner[k].counted
               PROVE  s <= ack[c] \/ s > cleaner[k].horizon
    OBVIOUS
  <2>1. /\ cleaner \in [Cleaners -> Cleanups] /\ cleaner[k] \in Cleanups
        /\ kept \subseteq Nat
    BY DEF BaseInv, Sweeper, LogInv, LogType
  <2>2. /\ cleaner[k].protected \in Nat /\ c \in Consumers /\ ack[c] \in Nat
        /\ s \in Nat
    BY <2>1 DEF Cleanups, BaseInv, Reader
  <2>3. PICK j \in Cleaners : Delete(j)
    BY OnlyDeletionsTake
  <2>4. j = k
    BY <2>1, <2>3 DEF Delete, Ends
  <2>5. PICK gone \in SUBSET Events :
          /\ DeleteOperations(gone)
          /\ \A e \in gone : \A n \in ChangesOf(e) :
               n <= cleaner[k].protected \/ n > cleaner[k].horizon
    BY <2>3, <2>4, DeletionTakes
  <2>6. s <= cleaner[k].protected \/ s > cleaner[k].horizon
    BY <2>5 DEF DeleteOperations
  <2>7. cleaner[k].protected <= ack[c]
    <3>1. ChosenInv(k)
      OBVIOUS
    <3> QED BY <3>1 DEF ChosenInv
  <2>8. CASE s <= cleaner[k].protected
    BY <2>2, <2>7, <2>8
  <2> QED BY <2>6, <2>8
<1> QED BY <1>1, ChosenInvariance, PTL DEF Spec, ProtectedChangesStay

\* A cleanup removes no running operation, unless a late batch has brought it back
\* between the choice and the deletion.
THEOREM RunningOnesAreKept == Spec => RunningOperationsStay
<1>1. BaseInv /\ (\A k \in Cleaners : ChosenInv(k)) /\ [Next]_vars =>
        [\A e \in Events : events[e] = "started" /\ events'[e] = "none" => Revived(e)]_vars
  <2> SUFFICES ASSUME BaseInv, \A k \in Cleaners : ChosenInv(k), [Next]_vars,
                      NEW e \in Events, events[e] = "started", events'[e] = "none"
               PROVE  Revived(e)
    OBVIOUS
  <2>1. PICK k \in Cleaners : Delete(k)
    BY OnlyDeletionsTake
  <2>2. PICK gone \in SUBSET Events :
          /\ DeleteOperations(gone)
          /\ \A f \in gone : events[f] = "started" => Revived(f)
    BY <2>1, DeletionTakes
  <2>3. e \in gone
    BY <2>2 DEF DeleteOperations
  <2> QED BY <2>2, <2>3
<1> QED BY <1>1, ChosenInvariance, PTL DEF Spec, RunningOperationsStay

=============================================================================
