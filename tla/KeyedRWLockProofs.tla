------------------------- MODULE KeyedRWLockProofs -------------------------
(***************************************************************************)
(* Proofs about KeyedRWLock, for any finite set of tasks and any keys and  *)
(* addresses.  The argument: the fields of a state count the tasks that    *)
(* refer to it (Counts), all users of a key share one state and no other   *)
(* key has it (Users, Entries), so that the predicates of the code mean    *)
(* what ReadersWriters asks; and who goes to sleep has seen a holder, or a *)
(* waiting writer who has (Awake).                                         *)
(***************************************************************************)
EXTENDS KeyedRWLock, FiniteSetTheorems, TLAPS

Types ==
  /\ states \in [Keys -> States \cup {NoState}]
  /\ readers \in [States -> Nat] /\ writer \in [States -> BOOLEAN]
  /\ waitingWriters \in [States -> Nat] /\ references \in [States -> Nat]
  /\ at \in [Tasks -> {"idle", "asleep", "woken", "holding"}]
  /\ key \in [Tasks -> Keys \cup {NoKey}] /\ mode \in [Tasks -> Modes \cup {"none"}]
  /\ state \in [Tasks -> States \cup {NoState}]

\* A task inside read() or write() refers to the entry of its key.
Users ==
  \A t \in Tasks :
    IF at[t] = "idle"
      THEN key[t] = NoKey /\ mode[t] = "none" /\ state[t] = NoState
      ELSE key[t] \in Keys /\ mode[t] \in Modes /\ state[t] \in States /\ state[t] = states[key[t]]

\* An entry has a user, and a state belongs to one key.
Entries ==
  /\ \A k \in Keys : states[k] # NoState => \E t \in Tasks : key[t] = k
  /\ \A j, k \in Keys : states[j] = states[k] /\ states[k] # NoState => j = k

Holding(s, m) == {t \in Sharing(s) : at[t] = "holding" /\ mode[t] = m}
Writing(s) == {t \in Sharing(s) : Waiting(t) /\ mode[t] = "write"}

Counts ==
  \A s \in States :
    /\ references[s] = Cardinality(Sharing(s))
    /\ readers[s] = Cardinality(Holding(s, "read"))
    /\ waitingWriters[s] = Cardinality(Writing(s))
    /\ writer[s] <=> Holding(s, "write") # {}

Exclusion ==
  \A s \in States : \A t \in Holding(s, "write"), u \in Sharing(s) : at[u] = "holding" => t = u

Held(s) == \E u \in Sharing(s) : at[u] = "holding"

Awake ==
  \A t \in Tasks : at[t] = "asleep" =>
    /\ mode[t] = "write" => Held(state[t])
    /\ handsOn => \E u \in Sharing(state[t]) : at[u] \in {"woken", "holding"}

Inv == Types /\ Users /\ Entries /\ Counts /\ Exclusion /\ Awake

-----------------------------------------------------------------------------
(* Counting.                                                               *)

LEMMA OneMore ==
  ASSUME NEW S \in SUBSET Tasks, NEW t \in Tasks \ S
  PROVE  Cardinality(S \cup {t}) = Cardinality(S) + 1 /\ Cardinality(S) \in Nat
BY TasksAssumption, FS_Subset, FS_AddElement, FS_CardinalityType

LEMMA OneLess ==
  ASSUME NEW S \in SUBSET Tasks, NEW t \in S
  PROVE  /\ Cardinality(S \ {t}) = Cardinality(S) - 1
         /\ {Cardinality(S), Cardinality(S \ {t})} \subseteq Nat
BY TasksAssumption, FS_Subset, FS_RemoveElement, FS_CardinalityType

LEMMA Unchanged ==
  ASSUME NEW S \in SUBSET Tasks, NEW t, t \notin S PROVE S \ {t} = S /\ Cardinality(S) \in Nat
BY TasksAssumption, FS_Subset, FS_CardinalityType

LEMMA None == ASSUME NEW S \in SUBSET Tasks PROVE Cardinality(S) = 0 <=> S = {}
BY TasksAssumption, FS_Subset, FS_EmptySet

\* What the predicate of a wait says of the tasks.
LEMMA Meaning ==
  ASSUME Inv, NEW s \in States, NEW m \in Modes
  PROVE  Grantable(s, m) <=>
           /\ Holding(s, "write") = {}
           /\ IF m = "read" THEN Writing(s) = {} ELSE Holding(s, "read") = {}
<1>1. Writing(s) \in SUBSET Tasks /\ Holding(s, "read") \in SUBSET Tasks
  BY DEF Writing, Holding, Sharing
<1> QED BY <1>1, None DEF Inv, Counts, Grantable

\* A state without references counts nobody.
LEMMA UnusedIsEmpty ==
  ASSUME Inv, NEW s \in States, Sharing(s) = {}
  PROVE  Holding(s, "write") = {} /\ Holding(s, "read") = {} /\ Writing(s) = {}
BY DEF Holding, Writing

LEMMA Start == Init => Inv
<1>1. Init => Types /\ Users /\ Entries /\ Exclusion /\ Awake
  BY NoStateAssumption DEF Init, Types, Users, Entries, Exclusion, Awake, Holding, Sharing, Modes
<1>2. Init => \A s \in States :
        Sharing(s) = {} /\ Holding(s, "read") = {} /\ Holding(s, "write") = {} /\ Writing(s) = {}
  BY NoStateAssumption DEF Init, Holding, Sharing, Writing
<1>3. Init => Counts
  BY <1>2, FS_EmptySet DEF Init, Counts
<1> QED BY <1>1, <1>3 DEF Inv

-----------------------------------------------------------------------------
(* The steps.                                                              *)

\* The entries a task that asks finds, or the address it takes for a new one.
LEMMA AskKeeps ==
  ASSUME Inv, NEW t \in Tasks, NEW k \in Keys, NEW m \in Modes, NEW s \in States, Ask(t, k, m, s)
  PROVE  Types' /\ Users' /\ Entries'
<1> USE NoStateAssumption DEF Inv, Ask, Enter
<1>1. Types'
  <2>1. writer' \in [States -> BOOLEAN]
    BY DEF Types
  <2>2. readers' \in [States -> Nat]
    BY DEF Types
  <2>3. waitingWriters' \in [States -> Nat] /\ references' \in [States -> Nat]
    BY DEF Types
  <2>4. at' \in [Tasks -> {"idle", "asleep", "woken", "holding"}]
    BY DEF Types
  <2>5. /\ states' \in [Keys -> States \cup {NoState}]
        /\ key' \in [Tasks -> Keys \cup {NoKey}] /\ mode' \in [Tasks -> Modes \cup {"none"}]
        /\ state' \in [Tasks -> States \cup {NoState}]
    BY DEF Types, Modes
  <2> QED BY <2>1, <2>2, <2>3, <2>4, <2>5 DEF Types
<1>2. states[k] = NoState => \A u \in Tasks : state[u] # s /\ key[u] # k
  BY DEF Users, Unused, Sharing
<1>3. Users'
  BY <1>2 DEF Users, Types, Modes
<1>4. Entries'
  BY <1>2 DEF Entries, Users, Types, Unused
<1> QED BY <1>1, <1>3, <1>4

LEMMA AskCounts ==
  ASSUME Inv, NEW t \in Tasks, NEW k \in Keys, NEW m \in Modes, NEW s \in States, Ask(t, k, m, s)
  PROVE  Counts' /\ Exclusion'
<1> USE NoStateAssumption DEF Inv, Ask, Enter
<1> DEFINE granted == Grantable(s, m)
<1>1. /\ Sharing(s)' = Sharing(s) \cup {t} /\ t \in Tasks \ Sharing(s)
      /\ \A r \in States \ {s} : Sharing(r)' = Sharing(r)
  BY DEF Sharing, Types, Users
<1>2. /\ Writing(s)' = IF ~granted /\ m = "write" THEN Writing(s) \cup {t} ELSE Writing(s)
      /\ \A r \in States \ {s} : Writing(r)' = Writing(r)
      /\ t \in Tasks \ Writing(s)
  BY <1>1 DEF Writing, Waiting, Types, Sharing
<1>3. \A n \in Modes :
        /\ Holding(s, n)' = IF granted /\ n = m THEN Holding(s, n) \cup {t} ELSE Holding(s, n)
        /\ \A r \in States \ {s} : Holding(r, n)' = Holding(r, n)
        /\ t \in Tasks \ Holding(s, n)
  BY <1>1 DEF Holding, Types, Sharing
<1>4. /\ Sharing(s) \in SUBSET Tasks /\ Writing(s) \in SUBSET Tasks
      /\ Holding(s, "read") \in SUBSET Tasks
  BY DEF Sharing, Writing, Holding
<1>5. Counts'
  BY <1>1, <1>2, <1>3, <1>4, OneMore DEF Counts, Types, Modes
<1>6. granted => Holding(s, "write") = {} /\ (m = "write" => Holding(s, "read") = {})
  BY Meaning DEF Modes
<1>7. Exclusion'
  BY <1>1, <1>3, <1>6 DEF Exclusion, Holding, Users, Types, Modes, Sharing
<1> QED BY <1>5, <1>7

LEMMA AskAwake ==
  ASSUME Inv, NEW t \in Tasks, NEW k \in Keys, NEW m \in Modes, NEW s \in States, Ask(t, k, m, s)
  PROVE  Awake'
<1> USE DEF Inv, Ask
<1>1. ASSUME ~Grantable(s, m)
      PROVE  \/ \E u \in Sharing(s) : at[u] = "holding"
             \/ m = "read" /\ \E u \in Sharing(s) : at[u] = "woken"
  BY <1>1, Meaning DEF Modes, Holding, Writing, Waiting, Awake, Held, Sharing
<1>2. \A u \in Tasks \ {t} : at'[u] = at[u] /\ state'[u] = state[u] /\ mode'[u] = mode[u]
  BY DEF Types
<1>3. at'[t] # "idle" /\ state'[t] = s /\ mode'[t] = m
  BY DEF Types
<1>4. \A r : Sharing(r) \ {t} \subseteq Sharing(r)' /\ (r \in States => t \notin Sharing(r))
  BY <1>2, NoStateAssumption DEF Sharing, Users
<1>5. at'[t] = "asleep" => ~Grantable(s, m)
  BY DEF Types
<1>6. \A u \in Tasks \ {t} : at[u] = "asleep" => state[u] \in States
  BY DEF Users
<1>7. handsOn' = handsOn
  OBVIOUS
<1>8. ASSUME at'[t] = "asleep"
      PROVE  /\ m = "write" => \E u \in Sharing(s)' : at'[u] = "holding"
             /\ \E u \in Sharing(s)' : at'[u] \in {"woken", "holding"}
  BY <1>1, <1>2, <1>4, <1>5, <1>8 DEF Sharing
<1>9. ASSUME NEW u \in Tasks \ {t}, at[u] = "asleep"
      PROVE  /\ mode[u] = "write" => \E w \in Sharing(state[u])' : at'[w] = "holding"
             /\ handsOn => \E w \in Sharing(state[u])' : at'[w] \in {"woken", "holding"}
  BY <1>2, <1>4, <1>6, <1>9 DEF Sharing, Awake, Held
<1> QED BY <1>2, <1>3, <1>7, <1>8, <1>9 DEF Awake, Held

LEMMA WakeKeeps ==
  ASSUME Inv, NEW t \in Tasks, Wake(t) PROVE Types' /\ Users' /\ Entries' /\ Awake'
<1> USE DEF Inv, Wake, Granted, BackToSleep, fields
<1>1. t \in Tasks /\ state[t] \in States /\ mode[t] \in Modes
  BY DEF Users
<1>2. Types'
  <2>1. mode[t] = "write" /\ at[t] = "woken" => waitingWriters[state[t]] - 1 \in Nat
    <3>1. Writing(state[t]) \in SUBSET Tasks
      BY DEF Writing, Sharing
    <3>2. mode[t] = "write" /\ at[t] = "woken" => t \in Writing(state[t])
      BY DEF Writing, Sharing, Waiting
    <3> QED BY <1>1, <3>1, <3>2, None DEF Counts, Types
  <2>2. waitingWriters' \in [States -> Nat]
    BY <1>1, <2>1 DEF Types, StopWaiting
  <2>3. readers' \in [States -> Nat]
    BY <1>1 DEF Types, Enter
  <2>4. writer' \in [States -> BOOLEAN]
    BY <1>1 DEF Types, Enter
  <2> QED BY <2>2, <2>3, <2>4 DEF Types
<1>3. Users' /\ Entries'
  BY DEF Users, Entries, Types
<1>4. ASSUME BackToSleep(t)
      PROVE  \/ \E u \in Sharing(state[t]) : at[u] = "holding"
             \/ mode[t] = "read" /\ \E u \in Sharing(state[t]) \ {t} : at[u] = "woken"
  BY <1>1, <1>4, Meaning DEF Modes, Holding, Writing, Waiting, Awake, Held, Sharing
<1>5. Awake'
  BY <1>1, <1>4 DEF Awake, Held, Sharing, Types
<1> QED BY <1>2, <1>3, <1>5

LEMMA WakeCounts == ASSUME Inv, NEW t \in Tasks, Wake(t) PROVE Counts' /\ Exclusion'
<1> USE DEF Inv, Wake
<1>1. state[t] \in States /\ mode[t] \in Modes
  BY DEF Users, Granted, BackToSleep
<1> DEFINE s == state[t]
<1>2. CASE BackToSleep(t)
  <2>1. \A r \in States : /\ Sharing(r)' = Sharing(r) /\ Writing(r)' = Writing(r)
                          /\ \A n \in Modes : Holding(r, n)' = Holding(r, n)
    BY <1>2 DEF BackToSleep, Sharing, Writing, Waiting, Holding, Types
  <2>2. Counts'
    BY <1>2, <2>1 DEF BackToSleep, fields, Counts, Modes
  <2>3. \A u \in Tasks : at'[u] = "holding" => at[u] = "holding"
    BY <1>2 DEF BackToSleep, Types
  <2>4. Exclusion'
    BY <2>1, <2>3 DEF Exclusion, Modes, Sharing
  <2> QED BY <2>2, <2>4
<1>3. CASE Granted(t)
  <2> USE <1>3 DEF Granted, Enter, StopWaiting
  <2>1. \A r \in States : Sharing(r)' = Sharing(r)
    BY DEF Sharing
  <2>2. /\ Writing(s)' = IF mode[t] = "write" THEN Writing(s) \ {t} ELSE Writing(s)
        /\ \A r \in States \ {s} : Writing(r)' = Writing(r)
        /\ mode[t] = "write" => t \in Writing(s)
    BY DEF Writing, Waiting, Types, Sharing
  <2>3. \A n \in Modes :
          /\ Holding(s, n)' = IF n = mode[t] THEN Holding(s, n) \cup {t} ELSE Holding(s, n)
          /\ \A r \in States \ {s} : Holding(r, n)' = Holding(r, n)
          /\ t \in Tasks \ Holding(s, n)
    BY DEF Holding, Types, Sharing
  <2>4. Writing(s) \in SUBSET Tasks /\ Holding(s, "read") \in SUBSET Tasks
    BY DEF Sharing, Writing, Holding
  <2>5. Counts'
    <3>1. CASE mode[t] = "read"
      BY <1>1, <2>1, <2>2, <2>3, <2>4, <3>1, OneMore DEF Counts, Types, Modes
    <3>2. CASE mode[t] = "write"
      BY <1>1, <2>1, <2>2, <2>3, <2>4, <3>2, OneLess DEF Counts, Types, Modes
    <3> QED BY <1>1, <3>1, <3>2 DEF Modes
  <2>6. Holding(s, "write") = {} /\ (mode[t] = "write" => Holding(s, "read") = {})
    BY <1>1, Meaning DEF Modes
  <2>7. Exclusion'
    BY <1>1, <2>1, <2>3, <2>6 DEF Exclusion, Holding, Users, Types, Modes, Sharing
  <2> QED BY <2>5, <2>7
<1> QED BY <1>2, <1>3

\* What ends a call: it gives up a wait or leaves its block.
Ends(t, wake) ==
  /\ at[t] # "idle"
  /\ wake \subseteq Asleep(state[t]) \ {t}
  /\ IF at[t] = "holding"
       THEN /\ wake = Asleep(state[t])
            /\ UNCHANGED waitingWriters
            /\ IF mode[t] = "read"
                 THEN readers' = [readers EXCEPT ![state[t]] = @ - 1] /\ UNCHANGED writer
                 ELSE writer' = [writer EXCEPT ![state[t]] = FALSE] /\ UNCHANGED readers
       ELSE /\ handsOn /\ Asleep(state[t]) \ {t} # {} => wake # {}
            /\ StopWaiting(t) /\ UNCHANGED <<readers, writer>>
  /\ Dereference(t)
  /\ Forget(t, wake)

LEMMA EndsAreEnds ==
  ASSUME Inv, NEW t \in Tasks, GiveUp(t) \/ Release(t) PROVE \E wake : Ends(t, wake)
<1>1. CASE GiveUp(t)
  BY <1>1 DEF GiveUp, Ends, Waiting, HandedOn
<1>2. CASE Release(t)
  BY <1>2 DEF Release, Ends, NotifyAll, Asleep
<1> QED BY <1>1, <1>2

\* The counts of the state the call used lose the task.
LEMMA EndCounts ==
  ASSUME Inv, NEW t \in Tasks, NEW wake, Ends(t, wake), NEW s, s = state[t]
  PROVE  /\ Counts' /\ Exclusion'
         /\ references' \in [States -> Nat] /\ readers' \in [States -> Nat]
         /\ waitingWriters' \in [States -> Nat] /\ writer' \in [States -> BOOLEAN]
         /\ states' =
              IF Sharing(s) = {t} THEN [states EXCEPT ![key[t]] = NoState] ELSE states
<1> USE DEF Inv, Ends, Forget, Dereference
<1>1. s \in States /\ mode[t] \in Modes /\ NoState \notin States
  BY NoStateAssumption DEF Users
<1>2. /\ \A u \in Tasks \ {t} : state'[u] = state[u] /\ mode'[u] = mode[u]
                               /\ (at'[u] = "holding" <=> at[u] = "holding")
                               /\ (Waiting(u)' <=> Waiting(u))
      /\ state'[t] = NoState /\ at'[t] = "idle"
  BY DEF Types, Asleep, Waiting
<1>3. /\ Sharing(s)' = Sharing(s) \ {t} /\ t \in Sharing(s)
      /\ \A r \in States \ {s} : Sharing(r)' = Sharing(r)
  BY <1>1, <1>2 DEF Sharing
<1>4. /\ Writing(s)' = Writing(s) \ {t}
      /\ \A r \in States \ {s} : Writing(r)' = Writing(r)
      /\ t \in Writing(s) <=> (at[t] # "holding" /\ mode[t] = "write")
  BY <1>1, <1>2, <1>3 DEF Writing, Sharing, Waiting, Types
<1>5. \A n \in Modes : /\ Holding(s, n)' = Holding(s, n) \ {t}
                       /\ \A r \in States \ {s} : Holding(r, n)' = Holding(r, n)
                       /\ t \in Holding(s, n) <=> (at[t] = "holding" /\ mode[t] = n)
  BY <1>1, <1>2, <1>3 DEF Holding, Sharing
<1>6. /\ Sharing(s) \in SUBSET Tasks /\ Writing(s) \in SUBSET Tasks
      /\ Holding(s, "read") \in SUBSET Tasks
  BY DEF Sharing, Writing, Holding
<1>7. /\ references' = [references EXCEPT ![s] = Cardinality(Sharing(s)')]
      /\ Cardinality(Sharing(s)') \in Nat
  <2>1. references[s] = Cardinality(Sharing(s))
    BY <1>1 DEF Counts
  <2> QED BY <1>3, <1>6, <2>1, OneLess
<1>8. /\ waitingWriters' = [waitingWriters EXCEPT ![s] = Cardinality(Writing(s)')]
      /\ Cardinality(Writing(s)') \in Nat
  <2>1. waitingWriters[s] = Cardinality(Writing(s))
    BY <1>1 DEF Counts
  <2>2. CASE t \in Writing(s)
    BY <1>4, <1>6, <2>1, <2>2, OneLess DEF StopWaiting
  <2>3. CASE t \notin Writing(s)
    <3>1. Writing(s)' = Writing(s) /\ Cardinality(Writing(s)) \in Nat
      BY <1>4, <1>6, <2>3, Unchanged
    <3>2. waitingWriters' = waitingWriters
      BY <1>4, <2>3 DEF StopWaiting
    <3> QED BY <1>1, <2>1, <3>1, <3>2 DEF Types
  <2> QED BY <2>2, <2>3
<1>9. /\ readers' = [readers EXCEPT ![s] = Cardinality(Holding(s, "read")')]
      /\ Cardinality(Holding(s, "read")') \in Nat
  <2>1. readers[s] = Cardinality(Holding(s, "read"))
    BY <1>1 DEF Counts
  <2>2. CASE t \in Holding(s, "read")
    BY <1>5, <1>6, <2>1, <2>2, OneLess DEF Modes
  <2>3. CASE t \notin Holding(s, "read")
    <3>1. Holding(s, "read")' = Holding(s, "read") /\ Cardinality(Holding(s, "read")) \in Nat
      BY <1>5, <1>6, <2>3, Unchanged DEF Modes
    <3>2. readers' = readers
      BY <1>5, <2>3 DEF Modes
    <3> QED BY <1>1, <2>1, <3>1, <3>2 DEF Types
  <2> QED BY <2>2, <2>3
<1>10. /\ writer' \in [States -> BOOLEAN]
       /\ \A r \in States : writer'[r] <=> Holding(r, "write")' # {}
  <2>1. CASE t \in Holding(s, "write")
    <3>1. Holding(s, "write") = {t}
      BY <1>1, <2>1 DEF Exclusion, Holding
    <3>2. Holding(s, "write")' = {}
      BY <1>5, <3>1 DEF Modes
    <3>3. writer' = [writer EXCEPT ![s] = FALSE]
      BY <2>1 DEF Holding
    <3> QED BY <1>1, <1>5, <3>2, <3>3 DEF Counts, Types, Modes
  <2>2. CASE t \notin Holding(s, "write")
    BY <1>1, <1>5, <2>2 DEF Counts, Types, Modes
  <2> QED BY <2>1, <2>2
<1>11. /\ references' \in [States -> Nat] /\ readers' \in [States -> Nat]
       /\ waitingWriters' \in [States -> Nat]
  BY <1>7, <1>8, <1>9 DEF Types
<1>12. Counts'
  <2>1. ASSUME NEW r \in States \ {s}
        PROVE  /\ references'[r] = Cardinality(Sharing(r)')
               /\ readers'[r] = Cardinality(Holding(r, "read")')
               /\ waitingWriters'[r] = Cardinality(Writing(r)')
    BY <1>3, <1>4, <1>5, <1>7, <1>8, <1>9 DEF Counts, Types, Modes
  <2>2. /\ references'[s] = Cardinality(Sharing(s)')
        /\ readers'[s] = Cardinality(Holding(s, "read")')
        /\ waitingWriters'[s] = Cardinality(Writing(s)')
    BY <1>1, <1>7, <1>8, <1>9 DEF Types
  <2> QED BY <1>10, <2>1, <2>2 DEF Counts
<1>13. Exclusion'
  BY <1>1, <1>2, <1>3, <1>5 DEF Exclusion, Modes, Sharing
<1>14. (references'[s] = 0 /\ readers'[s] = 0 /\ ~writer'[s] /\ waitingWriters'[s] = 0)
         <=> Sharing(s)' = {}
  <2>1. Sharing(s)' = {} =>
          Holding(s, "write")' = {} /\ Holding(s, "read")' = {} /\ Writing(s)' = {}
    BY DEF Holding, Writing
  <2>2. /\ Sharing(s)' \in SUBSET Tasks /\ Writing(s)' \in SUBSET Tasks
        /\ Holding(s, "read")' \in SUBSET Tasks
    BY <1>3, <1>4, <1>5, <1>6 DEF Modes
  <2> QED BY <1>1, <1>12, <2>1, <2>2, None DEF Counts
<1> QED BY <1>3, <1>10, <1>11, <1>12, <1>13, <1>14

LEMMA EndKeeps ==
  ASSUME Inv, NEW t \in Tasks, NEW wake, Ends(t, wake)
  PROVE  Types' /\ Users' /\ Entries' /\ Awake'
<1> USE DEF Inv, Ends, Forget
<1>1. PICK s \in States : s = state[t]
  BY DEF Users
<1>2. states' = IF Sharing(s) = {t} THEN [states EXCEPT ![key[t]] = NoState] ELSE states
  BY <1>1, EndCounts
<1>3. /\ \A u \in Tasks \ {t} : state'[u] = state[u] /\ mode'[u] = mode[u] /\ key'[u] = key[u]
                               /\ at'[u] = IF u \in wake THEN "woken" ELSE at[u]
      /\ state'[t] = NoState /\ at'[t] = "idle" /\ key'[t] = NoKey /\ mode'[t] = "none"
      /\ wake \subseteq Asleep(s) \ {t}
  BY <1>1 DEF Types
<1>4. Types'
  <2>1. states' \in [Keys -> States \cup {NoState}]
    BY <1>2 DEF Types
  <2>2. /\ at' \in [Tasks -> {"idle", "asleep", "woken", "holding"}]
        /\ key' \in [Tasks -> Keys \cup {NoKey}] /\ mode' \in [Tasks -> Modes \cup {"none"}]
        /\ state' \in [Tasks -> States \cup {NoState}]
    BY DEF Types
  <2>3. /\ references' \in [States -> Nat] /\ readers' \in [States -> Nat]
        /\ waitingWriters' \in [States -> Nat] /\ writer' \in [States -> BOOLEAN]
    BY <1>1, EndCounts
  <2> QED BY <2>1, <2>2, <2>3 DEF Types
<1>5. \A u \in Tasks \ {t} : at[u] # "idle" /\ key[u] = key[t] => u \in Sharing(s)
  BY <1>1 DEF Users, Sharing
<1>6. Users'
  <2>1. ASSUME NEW u \in Tasks \ {t}, at'[u] # "idle" PROVE state[u] = states'[key[u]]
    <3>1. at[u] # "idle"
      BY <1>3, <2>1 DEF Asleep
    <3> QED BY <1>2, <1>5, <3>1 DEF Users, Types
  <2> QED BY <1>3, <2>1 DEF Users, Asleep
<1>7. Entries'
  <2>1. ASSUME NEW k \in Keys, states'[k] # NoState PROVE \E u \in Tasks : key'[u] = k
    <3>1. states[k] # NoState
      BY <1>2, <2>1 DEF Types
    <3>2. CASE k # key[t]
      BY <1>3, <3>1, <3>2 DEF Entries
    <3>3. CASE k = key[t]
      <4>1. Sharing(s) # {t} /\ t \in Sharing(s)
        BY <1>1, <1>2, <2>1, <3>3 DEF Types, Sharing
      <4>2. PICK u \in Sharing(s) \ {t} : TRUE
        BY <4>1
      <4>3. states[key[u]] = states[key[t]] /\ key[u] \in Keys
        BY <1>1, <4>2, NoStateAssumption DEF Sharing, Users
      <4> QED BY <1>3, <3>1, <3>3, <4>2, <4>3 DEF Entries, Sharing
    <3> QED BY <3>2, <3>3
  <2>2. \A j, k \in Keys : states'[j] = states'[k] /\ states'[k] # NoState => j = k
    BY <1>2 DEF Entries, Types
  <2> QED BY <2>1, <2>2 DEF Entries
<1>8. ASSUME NEW u \in Tasks, at'[u] = "asleep"
      PROVE  /\ mode'[u] = "write" =>
                  \E w \in Tasks : state'[w] = state'[u] /\ at'[w] = "holding"
             /\ handsOn =>
                  \E w \in Tasks : state'[w] = state'[u] /\ at'[w] \in {"woken", "holding"}
  <2>1. u # t /\ at[u] = "asleep" /\ state'[u] = state[u] /\ mode'[u] = mode[u] /\ u \notin wake
    BY <1>3, <1>8
  <2>2. /\ mode[u] = "write" => \E w \in Tasks : state[w] = state[u] /\ at[w] = "holding"
        /\ handsOn => \E w \in Tasks : state[w] = state[u] /\ at[w] \in {"woken", "holding"}
    BY <2>1 DEF Awake, Held, Sharing
  <2>3. \A w \in wake : w \in Tasks \ {t} /\ state[w] = s /\ at[w] = "asleep"
    BY <1>3 DEF Asleep, Sharing
  <2>4. CASE state[u] # s
    BY <1>1, <1>3, <2>1, <2>2, <2>3, <2>4
  <2>5. CASE state[u] = s
    <3>1. u \in Asleep(s) \ {t}
      BY <2>1, <2>5 DEF Asleep, Sharing
    <3>2. at[t] # "holding"
      BY <1>1, <2>1, <3>1
    <3>3. handsOn => wake # {}
      BY <1>1, <3>1, <3>2
    <3>4. mode[u] = "write" => \E w \in Tasks \ {t} : state[w] = s /\ at[w] = "holding"
      BY <2>2, <2>5, <3>2
    <3> QED BY <1>3, <2>1, <2>3, <2>5, <3>3, <3>4
  <2> QED BY <2>4, <2>5
<1>9. Awake'
  BY <1>8 DEF Awake, Held, Sharing
<1> QED BY <1>4, <1>6, <1>7, <1>9

LEMMA Stutter == ASSUME Inv, UNCHANGED vars PROVE Inv'
<1> USE DEF vars, fields, locals, Inv
<1>1. Types' /\ Users' /\ Entries'
  BY DEF Types, Users, Entries
<1>2. \A s : Sharing(s)' = Sharing(s) /\ Writing(s)' = Writing(s)
             /\ Holding(s, "read")' = Holding(s, "read")
             /\ Holding(s, "write")' = Holding(s, "write")
  BY DEF Writing, Waiting, Holding, Sharing
<1>3. Counts' /\ Exclusion' /\ Awake'
  BY <1>2 DEF Counts, Exclusion, Awake, Held
<1> QED BY <1>1, <1>3

LEMMA Invariance == Spec => []Inv
<1>1. Inv /\ [Next]_vars => Inv'
  <2> SUFFICES ASSUME Inv, [Next]_vars PROVE Inv'
    OBVIOUS
  <2>1. ASSUME NEW t \in Tasks, NEW k \in Keys, NEW m \in Modes, NEW s \in States, Ask(t, k, m, s)
        PROVE  Inv'
    BY <2>1, AskKeeps, AskCounts, AskAwake DEF Inv
  <2>2. ASSUME NEW t \in Tasks, Wake(t) PROVE Inv'
    BY <2>2, WakeKeeps, WakeCounts DEF Inv
  <2>3. ASSUME NEW t \in Tasks, GiveUp(t) \/ Release(t) PROVE Inv'
    <3>1. PICK wake : Ends(t, wake)
      BY <2>3, EndsAreEnds
    <3>2. Counts' /\ Exclusion'
      BY <3>1, EndCounts
    <3> QED BY <3>1, <3>2, EndKeeps DEF Inv
  <2> QED BY <2>1, <2>2, <2>3, Stutter DEF Next
<1> QED BY <1>1, Start, PTL DEF Spec

-----------------------------------------------------------------------------
(* What follows.                                                           *)

\* _states has an entry for the keys in use and for no other.
THEOREM EntriesAreInUse == Spec => []IdleStatesAreForgotten
<1>1. Inv => IdleStatesAreForgotten
  BY NoStateAssumption DEF Inv, Types, Users, Entries, IdleStatesAreForgotten
<1> QED BY <1>1, Invariance, PTL

\* Whoever sleeps has a holder whose release will wake him, or a notified waiter, unless
\* Condition.wait() hands no wake-up on and readers alone are left asleep.
THEOREM SleepersWithoutAWakerAreReaders == Spec => []SleepersHaveAWaker
<1>1. Inv => SleepersHaveAWaker
  <2> SUFFICES ASSUME Inv, NEW t \in Tasks, at[t] = "asleep",
                      ~\E u \in Tasks : state[u] = state[t] /\ at[u] \in {"woken", "holding"}
               PROVE  /\ ~handsOn
                      /\ \A u \in Sharing(state[t]) : at[u] = "asleep" /\ mode[u] = "read"
    BY DEF SleepersHaveAWaker
  <2>1. ~handsOn
    BY DEF Inv, Awake, Sharing
  <2>2. ASSUME NEW u \in Sharing(state[t]) PROVE at[u] = "asleep" /\ mode[u] = "read"
    <3>1. u \in Tasks /\ state[u] = state[t] /\ state[t] \in States
      BY DEF Sharing, Inv, Users
    <3>2. at[u] = "asleep" /\ mode[u] \in Modes
      BY <3>1, NoStateAssumption DEF Inv, Types, Users
    <3>3. mode[u] # "write"
      BY <3>1, <3>2 DEF Inv, Awake, Held, Sharing
    <3> QED BY <3>2, <3>3 DEF Modes
  <2> QED BY <2>1, <2>2
<1> QED BY <1>1, Invariance, PTL

\* A granted predicate is what the abstract lock asks for.
LEMMA GrantedIsFree ==
  ASSUME Inv, NEW k \in Keys, NEW m \in Modes, NEW s \in States, Grantable(s, m),
         \A t \in Tasks : key[t] = k => state[t] = s
  PROVE  Lock!Free(k, m)
<1>1. /\ \A t \in Tasks : ~(key[t] = k /\ at[t] = "holding" /\ mode[t] = "write")
      /\ m = "write" => \A t \in Tasks : ~(key[t] = k /\ at[t] = "holding" /\ mode[t] = "read")
      /\ m = "read" => \A t \in Tasks : ~(key[t] = k /\ Waiting(t) /\ mode[t] = "write")
  BY Meaning DEF Modes, Holding, Writing, Sharing
<1> QED BY <1>1 DEF Lock!Free, Lock!Claiming, Inv, Types, Waiting, Modes

Claim == [t \in Tasks |->
            IF at[t] = "idle"
              THEN [at |-> "idle"]
              ELSE [at |-> IF at[t] = "holding" THEN "holding" ELSE "waiting",
                    key |-> key[t], mode |-> mode[t]]]

LEMMA AskImplements ==
  ASSUME Inv, NEW t \in Tasks, NEW k \in Keys, NEW m \in Modes, NEW s \in States, Ask(t, k, m, s)
  PROVE  Lock!Wait(t, k, m) \/ Lock!Acquire(t, k, m)
<1>1. \A u \in Tasks : key[u] = k => state[u] = s
  BY NoStateAssumption DEF Ask, Inv, Users, Entries, Unused, Sharing
<1>2. CASE Grantable(s, m)
  <2>1. Lock!Free(k, m)
    BY <1>1, <1>2, GrantedIsFree
  <2>2. Claim' = [Claim EXCEPT ![t] = [at |-> "holding", key |-> k, mode |-> m]]
    BY <1>2 DEF Claim, Ask, Inv, Types
  <2>3. Claim[t] = [at |-> "idle"]
    BY DEF Claim, Ask
  <2> QED BY <2>1, <2>2, <2>3 DEF Lock!Acquire, Lock!Become, Lock!Idle, Claim
<1>3. CASE ~Grantable(s, m)
  <2>1. Claim' = [Claim EXCEPT ![t] = [at |-> "waiting", key |-> k, mode |-> m]]
    BY <1>3 DEF Claim, Ask, Inv, Types
  <2>2. Claim[t] = [at |-> "idle"]
    BY DEF Claim, Ask
  <2> QED BY <2>1, <2>2 DEF Lock!Wait, Lock!Become, Lock!Idle, Claim
<1> QED BY <1>2, <1>3

LEMMA GrantImplements ==
  ASSUME Inv, NEW t \in Tasks, Granted(t)
  PROVE  Lock!Acquire(t, key[t], mode[t]) /\ key[t] \in Keys /\ mode[t] \in Modes
<1>1. key[t] \in Keys /\ mode[t] \in Modes /\ state[t] \in States
  BY DEF Granted, Inv, Users
<1>2. \A u \in Tasks : key[u] = key[t] => state[u] = state[t]
  BY <1>1, NoStateAssumption DEF Granted, Inv, Users
<1>3. Lock!Free(key[t], mode[t])
  BY <1>1, <1>2, GrantedIsFree DEF Granted
<1>4. Claim' = [Claim EXCEPT ![t] = [at |-> "holding", key |-> key[t], mode |-> mode[t]]]
  BY DEF Claim, Granted, Inv, Types
<1>5. Claim[t] = [at |-> "waiting", key |-> key[t], mode |-> mode[t]]
  BY DEF Claim, Granted
<1> QED BY <1>1, <1>3, <1>4, <1>5 DEF Lock!Acquire, Lock!Become, Claim

LEMMA EndImplements ==
  ASSUME Inv, NEW t \in Tasks, NEW wake, Ends(t, wake) PROVE Lock!Leave(t)
<1>1. Claim' = [Claim EXCEPT ![t] = [at |-> "idle"]]
  BY DEF Claim, Ends, Forget, Inv, Types, Asleep
<1>2. Claim[t] # [at |-> "idle"]
  BY DEF Claim, Ends, Inv, Types
<1> QED BY <1>1, <1>2 DEF Lock!Leave, Lock!Become, Lock!Idle, Claim

\* The code's lock implements the abstract one: a writer holds a key alone, and no reader
\* enters while a writer waits for it.
THEOREM LockImplementsReadersWriters == Spec => KeepsThePromises
<1>1. Init => Lock!Init
  BY DEF Init, Lock!Init, Lock!Idle
<1>2. Inv /\ [Next]_vars => [Lock!Next]_Claim
  <2> SUFFICES ASSUME Inv, [Next]_vars PROVE Lock!Next \/ Claim' = Claim
    OBVIOUS
  <2>1. ASSUME NEW t \in Tasks, NEW k \in Keys, NEW m \in Modes, NEW s \in States, Ask(t, k, m, s)
        PROVE  Lock!Next
    BY <2>1, AskImplements DEF Lock!Next, Modes, Lock!Modes
  <2>2. ASSUME NEW t \in Tasks, Granted(t) PROVE Lock!Next
    BY <2>2, GrantImplements DEF Lock!Next, Modes, Lock!Modes
  <2>3. ASSUME NEW t \in Tasks, BackToSleep(t) PROVE Claim' = Claim
    BY <2>3 DEF BackToSleep, Claim, Inv, Types
  <2>4. ASSUME NEW t \in Tasks, GiveUp(t) \/ Release(t) PROVE Lock!Next
    BY <2>4, EndsAreEnds, EndImplements DEF Lock!Next
  <2>5. CASE UNCHANGED vars
    BY <2>5 DEF vars, locals, Claim
  <2> QED BY <2>1, <2>2, <2>3, <2>4, <2>5 DEF Next, Wake
<1> QED BY <1>1, <1>2, Invariance, PTL DEF Spec, KeepsThePromises, Lock!Spec, Claim

\* Nobody else holds a key that a writer holds.
THEOREM WritersAreAlone == Spec => []Lock!MutualExclusion
<1>1. ASSUME Inv, NEW t \in Tasks, NEW u \in Tasks, at[t] = "holding", mode[t] = "write",
             at[u] = "holding", key[u] = key[t]
      PROVE  t = u
  BY <1>1 DEF Inv, Users, Exclusion, Holding, Sharing
<1>2. Inv => Lock!MutualExclusion
  BY <1>1 DEF Lock!MutualExclusion, Lock!Claiming, Inv, Types
<1> QED BY <1>2, Invariance, PTL
=============================================================================
