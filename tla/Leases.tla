------------------------------- MODULE Leases -------------------------------
(***************************************************************************)
(* Leases of one resource: LeaseManager.hold with its renewal task         *)
(* (concurrency/lease.py) over the lease table, kept by the helper         *)
(* (helper/source/history_helper.py, which history/sandbox.py runs in the  *)
(* sandbox and history/sqlite.py in a thread) or in a SQL database         *)
(* (history/sqlalchemy.py).                                                *)
(*                                                                         *)
(* A call of the store reads the clock first and its statement uses that   *)
(* time whenever it comes to be executed.  All clocks agree.  Where a      *)
(* statement compares times it compares their texts, see AsText.           *)
(***************************************************************************)
EXTENDS Naturals

CONSTANTS
  Holders,   \* who holds leases, one hold at a time each: tasks of one process or of several
  Owners,    \* owner ids
  NoLease,   \* there is no row for the resource
  PerSecond, \* the clock's units in a second (the code's are microseconds)
  TTL,       \* ttl_ms
  MaxTime    \* bound on the clock

ASSUME TimesAssumption == PerSecond \in Nat \ {0} /\ TTL \in Nat \ {0} /\ MaxTime \in Nat

Leases == [owner : Owners, expires : Nat]
ASSUME NoLeaseAssumption == NoLease \notin Leases

VARIABLES
  store,   \* "helper" or "database"
  owner,   \* the owner id of each holder's manager
  clock,
  lease,   \* the row of history_leases
  at,      \* where a holder is
  asked,   \* the time its current call of the store has read
  until,   \* the expiry that call named when it last succeeded
  renewal, \* its renewal task: none, sleeping, or in a call
  lost     \* the holders whose lease was marked lost

vars == <<store, owner, clock, lease, at, asked, until, renewal, lost>>
config == <<store, owner>>

TypeOK ==
  /\ store \in {"helper", "database"}
  /\ owner \in [Holders -> Owners]
  /\ clock \in Nat
  /\ lease \in Leases \cup {NoLease}
  /\ at \in [Holders -> {"idle", "asking", "found", "polling", "holding", "releasing"}]
  /\ asked \in [Holders -> Nat]
  /\ until \in [Holders -> Nat]
  /\ renewal \in [Holders -> {"none", "sleeping", "calling"}]
  /\ lost \subseteq Holders

Init ==
  /\ store \in {"helper", "database"}
  /\ owner \in [Holders -> Owners]
  /\ clock = 0
  /\ lease = NoLease
  /\ at = [h \in Holders |-> "idle"]
  /\ asked = [h \in Holders |-> 0]
  /\ until = [h \in Holders |-> 0]
  /\ renewal = [h \in Holders |-> "none"]
  /\ lost = {}

Tick ==
  /\ clock < MaxTime
  /\ clock' = clock + 1
  /\ UNCHANGED <<config, lease, at, asked, until, renewal, lost>>

-----------------------------------------------------------------------------
(* Texts.                                                                  *)

\* Numbers ordered as the texts of the times are.  isoformat() leaves the fraction of a
\* whole second out, and '.' sorts before the 'Z' that then follows the seconds: a whole
\* second's text is behind those of all other times of its second.
AsText(t) == IF t % PerSecond = 0 THEN t + PerSecond ELSE t

-----------------------------------------------------------------------------
(* Acquiring.  Times nobody looks at any more are set back to 0.           *)

LeaseOf(h) == [owner |-> owner[h], expires |-> asked[h] + TTL]
Owns(h) == lease # NoLease /\ lease.owner = owner[h]

\* The database compares texts, the helper times.
Expired(h) ==
  IF store = "database" THEN AsText(lease.expires) <= AsText(asked[h])
                        ELSE lease.expires <= asked[h]

FreeFor(h) == lease # NoLease => (Owns(h) \/ Expired(h))

\* The first call of a hold, or the next one after a poll interval.
Ask(h) ==
  /\ at[h] \in {"idle", "polling"}
  /\ at' = [at EXCEPT ![h] = "asking"]
  /\ asked' = [asked EXCEPT ![h] = clock]
  /\ UNCHANGED <<config, clock, lease, until, renewal, lost>>

\* LockAcquisitionTimeoutError.
TimesOut(h) ==
  /\ at[h] = "polling"
  /\ at' = [at EXCEPT ![h] = "idle"]
  /\ UNCHANGED <<config, clock, lease, asked, until, renewal, lost>>

\* The row is the holder's now, whether the answer gets through and the block
\* begins, or the call fails.
Acquires(h) ==
  /\ lease' = LeaseOf(h)
  /\ \/ /\ at' = [at EXCEPT ![h] = "holding"]
        /\ until' = [until EXCEPT ![h] = asked[h] + TTL]
        /\ renewal' = [renewal EXCEPT ![h] = "sleeping"]
     \/ /\ at' = [at EXCEPT ![h] = "idle"]
        /\ UNCHANGED <<until, renewal>>
  /\ asked' = [asked EXCEPT ![h] = 0]
  /\ UNCHANGED <<config, clock, lost>>

\* One conditional upsert.
DatabaseAcquires(h) ==
  /\ store = "database" /\ at[h] = "asking"
  /\ FreeFor(h)
  /\ Acquires(h)

\* The helper reads the row, outside the transaction of the upsert ...
HelperReads(h) ==
  /\ store = "helper" /\ at[h] = "asking"
  /\ FreeFor(h)
  /\ at' = [at EXCEPT ![h] = "found"]
  /\ UNCHANGED <<config, clock, lease, asked, until, renewal, lost>>

\* ... which has no condition.
HelperWrites(h) ==
  /\ at[h] = "found"
  /\ Acquires(h)

Refused(h) ==
  /\ at[h] = "asking"
  /\ ~FreeFor(h)
  /\ at' = [at EXCEPT ![h] = "polling"]
  /\ asked' = [asked EXCEPT ![h] = 0]
  /\ UNCHANGED <<config, clock, lease, until, renewal, lost>>

-----------------------------------------------------------------------------
(* Holding: _renew_loop beside the block.                                  *)

\* A sleep of a third of ttl_ms, or longer if the loop is busy: at any time.
RenewalWakes(h) ==
  /\ renewal[h] = "sleeping"
  /\ renewal' = [renewal EXCEPT ![h] = "calling"]
  /\ asked' = [asked EXCEPT ![h] = clock]
  /\ UNCHANGED <<config, clock, lease, at, until, lost>>

\* Both stores compare texts.  The helper reads the clock once more for it.
Renewable(h) ==
  /\ Owns(h)
  /\ \E now \in IF store = "database" THEN {asked[h]} ELSE asked[h] .. clock :
       AsText(lease.expires) > AsText(now)

Renews(h) ==
  /\ renewal[h] = "calling"
  /\ Renewable(h)
  /\ lease' = LeaseOf(h)
  /\ until' = [until EXCEPT ![h] = asked[h] + TTL]
  /\ renewal' = [renewal EXCEPT ![h] = "sleeping"]
  /\ asked' = [asked EXCEPT ![h] = 0]
  /\ UNCHANGED <<config, clock, at, lost>>

\* Mutant: the loop ends without a word.
StopsRenewing(h) ==
  /\ renewal[h] = "calling"
  /\ ~Renewable(h)
  /\ UNCHANGED lease
  /\ lost' = lost
  /\ renewal' = [renewal EXCEPT ![h] = "none"]
  /\ asked' = [asked EXCEPT ![h] = 0]
  /\ UNCHANGED <<config, clock, at, until>>

\* No such row, or a call that fails and may have been done all the same.
Loses(h) ==
  /\ renewal[h] = "calling"
  /\ \/ UNCHANGED lease
     \/ Renewable(h) /\ lease' = LeaseOf(h)
  /\ lost' = lost \cup {h}
  /\ renewal' = [renewal EXCEPT ![h] = "none"]
  /\ asked' = [asked EXCEPT ![h] = 0]
  /\ UNCHANGED <<config, clock, at, until>>

\* The block ends, well or not; ensure_valid turns a lost lease into an error.
Leaves(h) ==
  /\ at[h] = "holding"
  /\ at' = [at EXCEPT ![h] = "releasing"]
  /\ renewal' = [renewal EXCEPT ![h] = "none"]
  /\ asked' = [asked EXCEPT ![h] = 0] /\ until' = [until EXCEPT ![h] = 0]
  /\ lost' = lost \ {h}
  /\ UNCHANGED <<config, clock, lease>>

\* Mutant: the row is deleted whoever owns it.
ReleasesAny(h) ==
  /\ at[h] = "releasing"
  /\ lease' \in {NoLease, lease}
  /\ at' = [at EXCEPT ![h] = "idle"]
  /\ UNCHANGED <<config, clock, asked, until, renewal, lost>>

\* The row of the owner is deleted, or the call fails.
Releases(h) ==
  /\ at[h] = "releasing"
  /\ lease' \in (IF Owns(h) THEN {NoLease, lease} ELSE {lease})
  /\ at' = [at EXCEPT ![h] = "idle"]
  /\ UNCHANGED <<config, clock, asked, until, renewal, lost>>

\* The holder's process dies.
Dies(h) ==
  /\ at[h] # "idle"
  /\ at' = [at EXCEPT ![h] = "idle"]
  /\ renewal' = [renewal EXCEPT ![h] = "none"]
  /\ asked' = [asked EXCEPT ![h] = 0] /\ until' = [until EXCEPT ![h] = 0]
  /\ lost' = lost \ {h}
  /\ UNCHANGED <<config, clock, lease>>

-----------------------------------------------------------------------------
Step(h) ==
  \/ Ask(h)
  \/ TimesOut(h)
  \/ DatabaseAcquires(h)
  \/ HelperReads(h)
  \/ HelperWrites(h)
  \/ Refused(h)
  \/ RenewalWakes(h)
  \/ Renews(h)
  \/ Loses(h)
  \/ Leaves(h)
  \/ Releases(h)
  \/ Dies(h)

Next == Tick \/ \E h \in Holders : Step(h)

\* Time passes, a sleep ends and a call returns; no block has to end.
Fairness ==
  /\ WF_vars(Tick)
  /\ \A h \in Holders : WF_vars(RenewalWakes(h)) /\ WF_vars(Renews(h) \/ Loses(h))

Spec == Init /\ [][Next]_vars /\ Fairness

-----------------------------------------------------------------------------
(* Properties.                                                             *)

Alone(h) == \A g \in Holders \ {h} : owner[g] # owner[h]
SecondOf(t) == t \div PerSecond
Trusts(h) == at[h] = "holding" /\ SecondOf(clock) < SecondOf(until[h])

\* With a database, two holders whose owner ids nobody shares are never both within the
\* time the store has promised them, up to the second in which that time ends, whatever
\* calls are slow, fail after they took effect or come from a process that died.  In that
\* last second it is not kept: a call that reads the clock on the whole second takes over
\* a lease with a part of the second left (AsText).  The helper does not keep it at all:
\* two that both read an expired row both write.
OneHolderAtATime ==
  store = "database" =>
    \A g, h \in Holders : (g # h /\ Alone(g) /\ Alone(h)) => ~(Trusts(g) /\ Trusts(h))

Deprived(h) == at[h] = "holding" /\ h \notin lost /\ ~Owns(h)

\* A holder whose row another has taken over, or a holder of the same owner id has
\* released, does not go on for ever in the belief that it holds the lease.
TheftIsNoticed == \A h \in Holders : Deprived(h) ~> ~Deprived(h)
=============================================================================
