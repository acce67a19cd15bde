---------------------------- MODULE KeyedRWLock ----------------------------
(***************************************************************************)
(* The keyed readers-writers lock (concurrency/keyed_rw_lock.py) that      *)
(* SandboxBackend takes around every file operation and upload.  Neither   *)
(* _states_lock nor a state's condition is ever held across a suspension,  *)
(* so a task runs from one wait of the condition to the next in one step.  *)
(***************************************************************************)
EXTENDS Naturals, FiniteSets

CONSTANTS
  Tasks,    \* tasks that call read() or write()
  Keys,     \* the paths they name
  States,   \* addresses a _LockState can have
  NoState,  \* the key has no entry in _states
  NoKey     \* the task is not inside read() or write()

ASSUME TasksAssumption == IsFiniteSet(Tasks)
ASSUME NoStateAssumption == NoState \notin States /\ NoKey \notin Keys

VARIABLES
  states,          \* KeyedRWLock._states
  readers,         \* the fields of each _LockState ...
  writer,
  waitingWriters,
  references,
  at,              \* where each task is; "asleep" and "woken" wait on the condition
  key,             \* its arguments and its local variable state
  mode,
  state,
  handsOn          \* this Python's Condition.wait() notifies another waiter when it is
                   \* cancelled (recent versions) or does not (3.11.6)

fields == <<readers, writer, waitingWriters, references>>
locals == <<at, key, mode, state>>
vars == <<states, fields, locals, handsOn>>

Modes == {"read", "write"}

Init ==
  /\ states = [k \in Keys |-> NoState]
  /\ readers = [s \in States |-> 0]
  /\ writer = [s \in States |-> FALSE]
  /\ waitingWriters = [s \in States |-> 0]
  /\ references = [s \in States |-> 0]
  /\ at = [t \in Tasks |-> "idle"]
  /\ key = [t \in Tasks |-> NoKey]
  /\ mode = [t \in Tasks |-> "none"]
  /\ state = [t \in Tasks |-> NoState]
  /\ handsOn \in BOOLEAN

Waiting(t) == at[t] \in {"asleep", "woken"}
Sharing(s) == {t \in Tasks : state[t] = s}
Asleep(s) == {t \in Sharing(s) : at[t] = "asleep"}

\* An address no task and no entry of _states refers to.
Unused == {s \in States : Sharing(s) = {} /\ \A k \in Keys : states[k] # s}

-----------------------------------------------------------------------------
\* Mutant: a reader overtakes the writers that wait.
GrantableBargeing(s, m) ==
  ~writer[s] /\ (m = "write" => readers[s] = 0)

\* The predicates wait_for is called with.
Grantable(s, m) ==
  /\ ~writer[s]
  /\ IF m = "read" THEN waitingWriters[s] = 0 ELSE readers[s] = 0

\* The task enters the block it asked the lock for.
Enter(s, m) ==
  IF m = "read"
    THEN readers' = [readers EXCEPT ![s] = @ + 1] /\ UNCHANGED writer
    ELSE writer' = [writer EXCEPT ![s] = TRUE] /\ UNCHANGED readers

\* read() or write() up to the block or the first wait.
Ask(t, k, m, s) ==
  /\ at[t] = "idle"
  /\ IF states[k] = NoState THEN s \in Unused ELSE s = states[k]
  /\ states' = [states EXCEPT ![k] = s]
  /\ references' = [references EXCEPT ![s] = @ + 1]
  /\ key' = [key EXCEPT ![t] = k]
  /\ mode' = [mode EXCEPT ![t] = m]
  /\ state' = [state EXCEPT ![t] = s]
  /\ IF Grantable(s, m)
       THEN Enter(s, m) /\ at' = [at EXCEPT ![t] = "holding"] /\ UNCHANGED waitingWriters
       ELSE /\ at' = [at EXCEPT ![t] = "asleep"]
            /\ waitingWriters' =
                 IF m = "write" THEN [waitingWriters EXCEPT ![s] = @ + 1] ELSE waitingWriters
            /\ UNCHANGED <<readers, writer>>
  /\ UNCHANGED handsOn

\* A waiter is no longer counted among the waiting writers.
StopWaiting(t) ==
  waitingWriters' = IF mode[t] = "write"
                      THEN [waitingWriters EXCEPT ![state[t]] = @ - 1]
                      ELSE waitingWriters

\* A notified waiter evaluates its predicate again.
Granted(t) ==
  /\ at[t] = "woken" /\ Grantable(state[t], mode[t])
  /\ Enter(state[t], mode[t]) /\ StopWaiting(t)
  /\ at' = [at EXCEPT ![t] = "holding"]
  /\ UNCHANGED <<states, references, key, mode, state, handsOn>>

BackToSleep(t) ==
  /\ at[t] = "woken" /\ ~Grantable(state[t], mode[t])
  /\ at' = [at EXCEPT ![t] = "asleep"]
  /\ UNCHANGED <<states, fields, key, mode, state, handsOn>>

\* _dereference, and the end of the call: its locals are gone and the tasks of
\* wake are notified.
Forget(t, wake) ==
  /\ at' = [u \in Tasks |-> IF u = t THEN "idle" ELSE IF u \in wake THEN "woken" ELSE at[u]]
  /\ key' = [key EXCEPT ![t] = NoKey]
  /\ mode' = [mode EXCEPT ![t] = "none"]
  /\ state' = [state EXCEPT ![t] = NoState]
  /\ UNCHANGED handsOn

\* Mutant: an entry is dropped whoever else still uses it.
DropEntry(t) ==
  /\ references' = [references EXCEPT ![state[t]] = @ - 1]
  /\ states' = [states EXCEPT ![key[t]] = NoState]

\* Mutant: an entry that is not used any more stays.
KeepEntry(t) ==
  /\ references' = [references EXCEPT ![state[t]] = @ - 1]
  /\ UNCHANGED states

Dereference(t) ==
  LET s == state[t] IN
  /\ references' = [references EXCEPT ![s] = @ - 1]
  /\ states' = IF references'[s] = 0 /\ readers'[s] = 0 /\ ~writer'[s] /\ waitingWriters'[s] = 0
                 THEN [states EXCEPT ![key[t]] = NoState] ELSE states

\* The sets of waiters that a wait which ends early may wake.
HandedOn(others) ==
  IF handsOn /\ others # {} THEN {{u} : u \in others} ELSE {{}}

\* The wait times out or is cancelled.  No release is announced: all there may be
\* is the one wake-up that Condition.wait() itself hands on.
GiveUp(t) ==
  /\ Waiting(t)
  /\ StopWaiting(t) /\ UNCHANGED <<readers, writer>>
  /\ Dereference(t)
  /\ \E wake \in HandedOn(Asleep(state[t]) \ {t}) : Forget(t, wake)

\* Mutant: notify() for notify_all().
NotifyOne(s) == IF Asleep(s) = {} THEN {} ELSE {CHOOSE u \in Asleep(s) : TRUE}

NotifyAll(s) == Asleep(s)

\* The block is left, normally or with an exception.
Release(t) ==
  /\ at[t] = "holding"
  /\ IF mode[t] = "read"
       THEN readers' = [readers EXCEPT ![state[t]] = @ - 1] /\ UNCHANGED writer
       ELSE writer' = [writer EXCEPT ![state[t]] = FALSE] /\ UNCHANGED readers
  /\ UNCHANGED waitingWriters
  /\ Dereference(t) /\ Forget(t, NotifyAll(state[t]))

-----------------------------------------------------------------------------
Wake(t) == Granted(t) \/ BackToSleep(t)

Next ==
  \E t \in Tasks :
    \/ \E k \in Keys, m \in Modes, s \in States : Ask(t, k, m, s)
    \/ Wake(t)
    \/ GiveUp(t)
    \/ Release(t)

Spec == Init /\ [][Next]_vars

(***************************************************************************)
(* The event loop runs notified tasks, and every block ends; that a wait   *)
(* times out is not assumed, timeout_seconds may be None.                  *)
(***************************************************************************)
FairSpec == Spec /\ \A t \in Tasks : WF_vars(Wake(t)) /\ WF_vars(Release(t))

-----------------------------------------------------------------------------
(* Properties.                                                             *)

TypeOK ==
  /\ states \in [Keys -> States \cup {NoState}]
  /\ readers \in [States -> Nat] /\ writer \in [States -> BOOLEAN]
  /\ waitingWriters \in [States -> Nat] /\ references \in [States -> Nat]
  /\ at \in [Tasks -> {"idle", "asleep", "woken", "holding"}]
  /\ key \in [Tasks -> Keys \cup {NoKey}]
  /\ mode \in [Tasks -> Modes \cup {"none"}]
  /\ state \in [Tasks -> States \cup {NoState}]
  /\ handsOn \in BOOLEAN

\* _states has an entry exactly for the keys somebody uses, and it is the one
\* all of them use: the lock forgets idle keys, and never a key in use.
IdleStatesAreForgotten ==
  \A k \in Keys :
    LET users == {t \in Tasks : key[t] = k} IN
    /\ users = {} <=> states[k] = NoState
    /\ \A t \in users : state[t] = states[k]

\* Whoever sleeps on a condition has somebody who will wake him, a holder whose release
\* notifies all or a notified waiter, with one exception: where Condition.wait() hands no
\* wake-up on, readers can be left asleep with nobody else about, since a waiting writer
\* that gives up wakes none of them.  A writer is never left so, nor a reader beside one.
SleepersHaveAWaker ==
  \A t \in Tasks :
    at[t] = "asleep" =>
      \/ \E u \in Tasks : state[u] = state[t] /\ at[u] \in {"woken", "holding"}
      \/ ~handsOn /\ \A u \in Sharing(state[t]) : at[u] = "asleep" /\ mode[u] = "read"

\* The lock keeps the promises of ReadersWriters: a writer holds a key alone, and
\* no reader enters while a writer waits for the key.
Lock == INSTANCE ReadersWriters WITH
  claim <- [t \in Tasks |->
              IF at[t] = "idle"
                THEN [at |-> "idle"]
                ELSE [at |-> IF at[t] = "holding" THEN "holding" ELSE "waiting",
                      key |-> key[t], mode |-> mode[t]]]
KeepsThePromises == Lock!Spec

\* Readers do not starve writers: a key that a writer waits for is soon held by a
\* writer, or the writers have given up.
WritersGetThrough ==
  \A k \in Keys :
    (\E t \in Tasks : Waiting(t) /\ key[t] = k /\ mode[t] = "write") ~>
      \/ \E t \in Tasks : at[t] = "holding" /\ key[t] = k /\ mode[t] = "write"
      \/ ~\E t \in Tasks : Waiting(t) /\ key[t] = k /\ mode[t] = "write"

=============================================================================
