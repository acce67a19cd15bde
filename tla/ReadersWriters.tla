-------------------------- MODULE ReadersWriters --------------------------
(***************************************************************************)
(* What a keyed readers-writers lock that prefers writers promises: who    *)
(* may hold a key beside whom, and who may not overtake a waiting writer.  *)
(***************************************************************************)
CONSTANTS Tasks, Keys

VARIABLE claim  \* what each task holds or waits for

Modes == {"read", "write"}
Idle == [at |-> "idle"]
Claims == {Idle} \cup [at : {"waiting", "holding"}, key : Keys, mode : Modes]

Claiming(at, k, m) == {t \in Tasks : claim[t] = [at |-> at, key |-> k, mode |-> m]}

TypeOK == claim \in [Tasks -> Claims]

Init == claim = [t \in Tasks |-> Idle]

Free(k, m) ==
  /\ Claiming("holding", k, "write") = {}
  /\ Claiming(IF m = "write" THEN "holding" ELSE "waiting",
              k, IF m = "write" THEN "read" ELSE "write") = {}

Become(t, c) == claim' = [claim EXCEPT ![t] = c]

Wait(t, k, m) == claim[t] = Idle /\ Become(t, [at |-> "waiting", key |-> k, mode |-> m])

\* With or without a wait.
Acquire(t, k, m) ==
  /\ claim[t] \in {Idle, [at |-> "waiting", key |-> k, mode |-> m]}
  /\ Free(k, m)
  /\ Become(t, [at |-> "holding", key |-> k, mode |-> m])

\* Gives up waiting, or releases.
Leave(t) == claim[t] # Idle /\ Become(t, Idle)

Next ==
  \E t \in Tasks :
    \/ \E k \in Keys, m \in Modes : Wait(t, k, m) \/ Acquire(t, k, m)
    \/ Leave(t)

Spec == Init /\ [][Next]_claim

\* A writer holds a key alone.
MutualExclusion ==
  \A k \in Keys : \A t, u \in Tasks :
    /\ t \in Claiming("holding", k, "write")
    /\ u \in Claiming("holding", k, "write") \cup Claiming("holding", k, "read")
    => t = u

=============================================================================
