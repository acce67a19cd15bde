---------------------------- MODULE LeasesProofs ----------------------------
(***************************************************************************)
(* Proofs about Leases: types, and that a database lets one holder at a    *)
(* time trust its lease.  The argument: what a store has promised a holder *)
(* stands in the row for as long as the promise lasts (PromiseStands),     *)
(* since another's statement takes the row over only if the text of its    *)
(* expiry is not behind that of a time already past, and the texts order   *)
(* times of different seconds as the times are (TextsOfSeconds).           *)
(***************************************************************************)
EXTENDS Leases, TLAPS

\* The types of Leases, which all the proofs use.
THEOREM TypeCorrect == Spec => []TypeOK
<1>1. Init => TypeOK
  BY TimesAssumption DEF Init, TypeOK
<1>2. TypeOK /\ [Next]_vars => TypeOK'
  <2> SUFFICES ASSUME TypeOK, [Next]_vars PROVE TypeOK'
    OBVIOUS
  <2> USE TimesAssumption DEF TypeOK
  <2>1. CASE UNCHANGED vars
    BY <2>1 DEF vars
  <2>2. CASE Tick
    BY <2>2 DEF Tick, config
  <2>3. ASSUME NEW h \in Holders, Step(h) PROVE TypeOK'
    <3>0. LeaseOf(h) \in Leases
      BY DEF LeaseOf, Leases
    <3>1. CASE Ask(h)
      BY <3>1 DEF Ask, config
    <3>2. CASE TimesOut(h)
      BY <3>2 DEF TimesOut, config
    <3>3. CASE DatabaseAcquires(h)
      BY <3>0, <3>3 DEF DatabaseAcquires, Acquires, config
    <3>4. CASE HelperReads(h)
      BY <3>4 DEF HelperReads, config
    <3>5. CASE HelperWrites(h)
      BY <3>0, <3>5 DEF HelperWrites, Acquires, config
    <3>6. CASE Refused(h)
      BY <3>6 DEF Refused, config
    <3>7. CASE RenewalWakes(h)
      BY <3>7 DEF RenewalWakes, config
    <3>8. CASE Renews(h)
      BY <3>0, <3>8 DEF Renews, config
    <3>9. CASE Loses(h)
      BY <3>0, <3>9 DEF Loses, config
    <3>10. CASE Leaves(h)
      BY <3>10 DEF Leaves, config
    <3>11. CASE Releases(h)
      BY <3>11 DEF Releases, config
    <3>12. CASE Dies(h)
      BY <3>12 DEF Dies, config
    <3> QED
      BY <2>3, <3>1, <3>2, <3>3, <3>4, <3>5, <3>6, <3>7, <3>8, <3>9, <3>10, <3>11, <3>12
      DEF Step
  <2> QED
    BY <2>1, <2>2, <2>3 DEF Next
<1> QED
  BY <1>1, <1>2, PTL DEF Spec

-----------------------------------------------------------------------------
\* The inductive invariant.  A call's time is past; a promise reaches no further than a
\* renewal under way would; and what is promised stands in the row.
CallsAreOfThePast == \A h \in Holders : asked[h] <= clock

PromisesAreShort ==
  \A h \in Holders :
    /\ renewal[h] # "none" => at[h] = "holding"
    /\ at[h] = "holding" => until[h] <= clock + TTL
    /\ renewal[h] = "calling" => until[h] <= asked[h] + TTL

PromiseStands ==
  store = "database" =>
    \A h \in Holders :
      /\ at[h] # "found"
      /\ (Alone(h) /\ Trusts(h)) => (Owns(h) /\ lease.expires >= until[h])

Inv == TypeOK /\ CallsAreOfThePast /\ PromisesAreShort /\ PromiseStands

\* A time lies in its second, and later times in no earlier one.
LEMMA Seconds ==
  ASSUME NEW n \in Nat
  PROVE  /\ SecondOf(n) \in Nat /\ SecondOf(n) * PerSecond \in Nat
         /\ SecondOf(n) * PerSecond <= n /\ n < SecondOf(n) * PerSecond + PerSecond
         /\ n % PerSecond = n - SecondOf(n) * PerSecond
  BY TimesAssumption DEF SecondOf

LEMMA Multiples ==
  ASSUME NEW p \in Nat, NEW q \in Nat, p < q
  PROVE  p * PerSecond + PerSecond <= q * PerSecond
<1>1. PerSecond \in Nat
  BY TimesAssumption
<1>2. PICK d \in Nat : q = p + 1 + d
  <2>1. q - p - 1 \in Nat /\ q = p + 1 + (q - p - 1)
    OBVIOUS
  <2> QED BY <2>1
<1>3. q * PerSecond = p * PerSecond + PerSecond + d * PerSecond
  BY <1>1, <1>2
<1>4. d * PerSecond \in Nat /\ p * PerSecond \in Nat
  BY <1>1, <1>2
<1> QED
  BY <1>1, <1>3, <1>4

LEMMA SecondsPass ==
  ASSUME NEW m \in Nat, NEW n \in Nat, m <= n
  PROVE  SecondOf(m) <= SecondOf(n)
<1>1. PerSecond \in Nat
  BY TimesAssumption
<1>2. SecondOf(n) < SecondOf(m) =>
        SecondOf(n) * PerSecond + PerSecond <= SecondOf(m) * PerSecond
  BY Seconds, Multiples
<1> DEFINE p == SecondOf(m)
           q == SecondOf(n)
<1>3. /\ p \in Nat /\ p * PerSecond \in Nat /\ p * PerSecond <= m
      /\ q \in Nat /\ q * PerSecond \in Nat /\ n < q * PerSecond + PerSecond
  BY Seconds
<1>4. ~(q < p)
  <2>1. q < p => q * PerSecond + PerSecond <= p * PerSecond
    BY <1>2
  <2> HIDE DEF p, q
  <2> QED BY <1>1, <1>3, <2>1
<1> HIDE DEF p, q
<1>5. p <= q
  BY <1>3, <1>4
<1> QED
  BY <1>5 DEF p, q

\* The text of a time that is past is before that of an expiry whose second has not begun:
\* e is the expiry in the row, u the one promised, a the time read and c the present.
LEMMA TextsOfSeconds ==
  ASSUME NEW a \in Nat, NEW c \in Nat, NEW u \in Nat, NEW e \in Nat,
         a <= c, SecondOf(c) < SecondOf(u), u <= e
  PROVE  AsText(a) < AsText(e)
<1> DEFINE s == SecondOf(a)
           k == SecondOf(u)
<1>1. PerSecond \in Nat \ {0}
  BY TimesAssumption
<1>2. s \in Nat /\ k \in Nat /\ s < k
  BY SecondsPass, Seconds
<1>3. s * PerSecond \in Nat /\ k * PerSecond \in Nat
  BY Seconds
<1>4. s * PerSecond + PerSecond <= k * PerSecond
  BY <1>2, Multiples
<1>5. k * PerSecond <= e
  BY <1>3, Seconds
<1>6. AsText(a) <= s * PerSecond + PerSecond /\ AsText(a) \in Nat
  <2>1. /\ a < s * PerSecond + PerSecond
        /\ a % PerSecond = a - s * PerSecond
    BY Seconds
  <2> HIDE DEF s, k
  <2> QED
    BY <1>1, <1>3, <2>1 DEF AsText
<1>7. CASE e % PerSecond = 0
  <2>1. AsText(e) = e + PerSecond
    BY <1>7 DEF AsText
  <2> HIDE DEF s, k
  <2> QED
    BY <1>1, <1>3, <1>4, <1>5, <1>6, <2>1
<1>8. CASE e % PerSecond # 0
  <2>1. AsText(e) = e
    BY <1>8 DEF AsText
  <2>2. /\ SecondOf(e) \in Nat /\ SecondOf(e) * PerSecond \in Nat
        /\ SecondOf(e) * PerSecond <= e /\ e # SecondOf(e) * PerSecond
    <3>1. /\ SecondOf(e) \in Nat /\ SecondOf(e) * PerSecond \in Nat
          /\ SecondOf(e) * PerSecond <= e
          /\ e % PerSecond = e - SecondOf(e) * PerSecond
      BY Seconds
    <3>2. e # SecondOf(e) * PerSecond
      BY <1>8, <3>1
    <3> QED
      BY <3>1, <3>2
  <2>3. k <= SecondOf(e)
    BY SecondsPass
  <2>4. k = SecondOf(e) \/ k * PerSecond + PerSecond <= SecondOf(e) * PerSecond
    BY <1>2, <2>2, <2>3, Multiples
  <2> HIDE DEF s, k
  <2>5. k * PerSecond < e
    <3>1. CASE k = SecondOf(e)
      BY <1>3, <2>2, <3>1
    <3>2. CASE k * PerSecond + PerSecond <= SecondOf(e) * PerSecond
      BY <1>1, <1>3, <2>2, <3>2
    <3> QED
      BY <2>4, <3>1, <3>2
  <2> QED
    BY <1>1, <1>3, <1>4, <1>6, <2>1, <2>5
<1> QED
  BY <1>7, <1>8

\* Two holders on their own never own the row together.
LEMMA OwnersDiffer ==
  ASSUME NEW g \in Holders, NEW h \in Holders, g # h, Alone(g), TypeOK
  PROVE  owner[g] # owner[h]
  BY DEF Alone, TypeOK

LEMMA CallsStep == ASSUME Inv, [Next]_vars PROVE CallsAreOfThePast'
<1> USE DEF Inv, TypeOK, CallsAreOfThePast
<1>1. CASE UNCHANGED vars
  BY <1>1 DEF vars
<1>2. CASE Tick
  BY <1>2 DEF Tick
<1>3. ASSUME NEW h \in Holders, Step(h) PROVE CallsAreOfThePast'
  BY <1>3 DEF Step, Ask, TimesOut, DatabaseAcquires, HelperReads, HelperWrites, Acquires,
    Refused, RenewalWakes, Renews, Loses, Leaves, Releases, Dies
<1> QED
  BY <1>1, <1>2, <1>3 DEF Next

LEMMA PromisesStep == ASSUME Inv, [Next]_vars PROVE PromisesAreShort'
<1> USE TimesAssumption DEF Inv, TypeOK, PromisesAreShort, CallsAreOfThePast
<1>1. CASE UNCHANGED vars
  BY <1>1 DEF vars
<1>2. CASE Tick
  BY <1>2 DEF Tick
<1>3. ASSUME NEW h \in Holders, Step(h) PROVE PromisesAreShort'
  <2>1. CASE Ask(h) \/ TimesOut(h) \/ HelperReads(h) \/ Refused(h)
    BY <2>1 DEF Ask, TimesOut, HelperReads, Refused
  <2>2. CASE DatabaseAcquires(h) \/ HelperWrites(h)
    BY <2>2 DEF DatabaseAcquires, HelperWrites, Acquires
  <2>3. CASE RenewalWakes(h)
    BY <2>3 DEF RenewalWakes
  <2>4. CASE Renews(h)
    BY <2>4 DEF Renews
  <2>5. CASE Loses(h)
    BY <2>5 DEF Loses
  <2>6. CASE Leaves(h) \/ Releases(h) \/ Dies(h)
    BY <2>6 DEF Leaves, Releases, Dies
  <2> QED
    BY <1>3, <2>1, <2>2, <2>3, <2>4, <2>5, <2>6 DEF Step
<1> QED
  BY <1>1, <1>2, <1>3 DEF Next

LEMMA StandsStep == ASSUME Inv, [Next]_vars PROVE PromiseStands'
<1> SUFFICES ASSUME store' = "database", NEW g \in Holders
             PROVE  /\ at'[g] # "found"
                    /\ (Alone(g)' /\ Trusts(g)') => (Owns(g)' /\ lease'.expires >= until'[g])
  BY DEF PromiseStands
<1> USE TimesAssumption, NoLeaseAssumption DEF Inv, TypeOK, PromiseStands, Trusts, Owns
<1>1. CASE UNCHANGED vars
  BY <1>1 DEF vars, Alone
<1>2. CASE Tick
  <2>1. clock <= clock' /\ clock' \in Nat
    BY <1>2 DEF Tick
  <2>2. Trusts(g)' => Trusts(g)
    <3>1. SecondOf(clock) <= SecondOf(clock')
      BY <2>1, SecondsPass
    <3>2. /\ SecondOf(clock) \in Nat /\ SecondOf(clock') \in Nat
          /\ SecondOf(until[g]) \in Nat
      BY <2>1, Seconds
    <3> QED
      BY <1>2, <3>1, <3>2 DEF Tick
  <2> QED
    BY <1>2, <2>2 DEF Tick, config, Alone
<1>3. ASSUME NEW h \in Holders, Step(h)
      PROVE  /\ at'[g] # "found"
             /\ (Alone(g)' /\ Trusts(g)') => (Owns(g)' /\ lease'.expires >= until'[g])
  <2>0. store = "database" /\ (Alone(g)' <=> Alone(g)) /\ owner' = owner
    BY <1>3 DEF Step, Ask, TimesOut, DatabaseAcquires, HelperReads, HelperWrites, Acquires,
      Refused, RenewalWakes, Renews, Loses, Leaves, Releases, Dies, config, Alone
  <2>a. /\ LeaseOf(h) # NoLease
        /\ LeaseOf(h).owner = owner[h] /\ LeaseOf(h).expires = asked[h] + TTL
    BY DEF LeaseOf, Leases
  <2>1. CASE Ask(h) \/ TimesOut(h) \/ HelperReads(h) \/ Refused(h) \/ RenewalWakes(h)
    BY <2>0, <2>1 DEF Ask, TimesOut, HelperReads, Refused, RenewalWakes
  <2>2. CASE DatabaseAcquires(h)
    <3>1. CASE g = h
      BY <2>0, <2>a, <2>2, <3>1 DEF DatabaseAcquires, Acquires
    <3>2. CASE g # h
      <4>1. ASSUME Alone(g), Trusts(g)' PROVE FALSE
        <5>1. Trusts(g) /\ clock' = clock
          BY <2>2, <3>2, <4>1 DEF DatabaseAcquires, Acquires
        <5>2. Owns(g) /\ lease.expires >= until[g]
          BY <2>0, <4>1, <5>1
        <5>3. AsText(lease.expires) <= AsText(asked[h])
          BY <2>2, <3>2, <4>1, <5>2, OwnersDiffer DEF DatabaseAcquires, FreeFor, Expired
        <5>4. lease.expires \in Nat /\ asked[h] <= clock
          BY <5>2 DEF Leases, CallsAreOfThePast
        <5>5. AsText(asked[h]) < AsText(lease.expires)
          BY <5>1, <5>2, <5>4, TextsOfSeconds
        <5>6. AsText(asked[h]) \in Nat /\ AsText(lease.expires) \in Nat
          BY <5>4 DEF AsText
        <5> QED
          BY <5>3, <5>5, <5>6
      <4>2. at'[g] # "found"
        BY <2>0, <2>2, <3>2 DEF DatabaseAcquires, Acquires
      <4> QED
        BY <2>0, <4>1, <4>2
    <3> QED
      BY <3>1, <3>2
  <2>3. CASE HelperWrites(h)
    BY <2>0, <2>3 DEF HelperWrites
  <2>4. CASE Renews(h)
    <3>1. CASE g = h
      BY <2>0, <2>a, <2>4, <3>1 DEF Renews
    <3>2. CASE g # h
      <4>1. Alone(g) => ~Owns(g)
        BY <2>4, <3>2, OwnersDiffer DEF Renews, Renewable
      <4> QED
        BY <2>0, <2>4, <3>2, <4>1 DEF Renews
    <3> QED
      BY <3>1, <3>2
  <2>5. CASE Loses(h)
    <3>1. CASE UNCHANGED lease
      BY <2>0, <2>5, <3>1 DEF Loses
    <3>2. CASE Renewable(h) /\ lease' = LeaseOf(h)
      <4>1. CASE g = h
        BY <2>0, <2>a, <2>5, <3>2, <4>1 DEF Loses, PromisesAreShort
      <4>2. CASE g # h
        <5>1. Alone(g) => ~Owns(g)
          BY <3>2, <4>2, OwnersDiffer DEF Renewable
        <5> QED
          BY <2>0, <2>5, <4>2, <5>1 DEF Loses
      <4> QED
        BY <4>1, <4>2
    <3> QED
      BY <2>5, <3>1, <3>2 DEF Loses
  <2>6. CASE Leaves(h)
    BY <2>0, <2>6 DEF Leaves
  <2>7. CASE Releases(h)
    <3>1. CASE g = h
      BY <2>0, <2>7, <3>1 DEF Releases
    <3>2. CASE g # h
      <4>1. (Alone(g) /\ Owns(g)) => lease' = lease
        BY <2>7, <3>2, OwnersDiffer DEF Releases
      <4> QED
        BY <2>0, <2>7, <3>2, <4>1 DEF Releases
    <3> QED
      BY <3>1, <3>2
  <2>8. CASE Dies(h)
    BY <2>0, <2>8 DEF Dies
  <2> QED
    BY <1>3, <2>1, <2>2, <2>3, <2>4, <2>5, <2>6, <2>7, <2>8 DEF Step
<1> QED
  BY <1>1, <1>2, <1>3 DEF Next

\* With a database, two holders on their own are never both within the time promised
\* them, up to the second in which it ends, for any number of holders, any ttl and calls as
\* slow as they like.
THEOREM OneLeaseHolder == Spec => []OneHolderAtATime
<1>1. Init => Inv
  BY TimesAssumption DEF Init, Inv, TypeOK, CallsAreOfThePast, PromisesAreShort, PromiseStands,
    Trusts
<1>2. Spec => []TypeOK
  BY TypeCorrect
<1>3. TypeOK' /\ Inv /\ [Next]_vars => Inv'
  BY CallsStep, PromisesStep, StandsStep DEF Inv
<1>4. Inv => OneHolderAtATime
  BY OwnersDiffer DEF Inv, PromiseStands, OneHolderAtATime, Owns
<1> QED
  BY <1>1, <1>2, <1>3, <1>4, PTL DEF Spec
=============================================================================
