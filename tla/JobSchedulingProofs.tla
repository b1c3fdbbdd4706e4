------------------------- MODULE JobSchedulingProofs -------------------------
(***************************************************************************)
(* Proofs about JobScheduling.  In the order of the module:                *)
(*                                                                         *)
(*   - the recurrence: division into cycles and periods, that the walk of  *)
(*     the code goes up and, against the reference, from fire to fire;     *)
(*   - the statements a plan ends in, and the ids of new rows;             *)
(*   - the invariant JobInv and one lemma per action that keeps it.  What  *)
(*     a pass or a main has locked nobody else changes (PassesHold,        *)
(*     MainsHold); what it read without a lock is still so, or is          *)
(*     recognisably of another row (FreshFound, FreshWritten,              *)
(*     ReservedUnseen); what a removed job fired lies before all that may  *)
(*     still start under its name (RetiredBefore);                         *)
(*   - plans against the reference;                                        *)
(*   - SkipInv, on top of JobInv: every fire before a clock has its task.  *)
(***************************************************************************)
EXTENDS JobScheduling, FiniteSetTheorems, WellFoundedInduction, TLAPS

LEMMA DivMod ==
    ASSUME NEW e \in Nat \ {0}, NEW t \in Nat
    PROVE  /\ t \div e \in Nat /\ t % e \in Nat /\ t % e < e
           /\ t = e * (t \div e) + (t % e)
OBVIOUS

LEMMA ModOf ==
    ASSUME NEW e \in Nat \ {0}, NEW k \in Nat, NEW p \in Nat, p < e
    PROVE  (e * k + p) % e = p
OBVIOUS

\* One instant of every cycle has the phase.
LEMMA MatchInCycle ==
    ASSUME NEW e \in Nat \ {0}, NEW p \in Nat, p < e, NEW after \in Nat
    PROVE  \E t \in (after + 1)..(after + e) : t % e = p
<1>. DEFINE q == after \div e
<1>1. q \in Nat /\ after % e \in Nat /\ after % e < e /\ after = e * q + (after % e)
  BY DivMod
<1>. HIDE DEF q
<1>2. CASE p > after % e
  <2>1. e * q + p \in (after + 1)..(after + e)
    BY <1>1, <1>2
  <2>2. (e * q + p) % e = p
    BY <1>1, ModOf
  <2>3. QED
    BY <2>1, <2>2
<1>3. CASE ~(p > after % e)
  <2>1. e * (q + 1) = e * q + e
    BY <1>1
  <2>2. e * (q + 1) + p \in (after + 1)..(after + e)
    BY <1>1, <1>3, <2>1
  <2>3. \A k \in Nat : (e * k + p) % e = p
    BY ModOf
  <2>4. (e * (q + 1) + p) % e = p
    BY <1>1, <2>3
  <2>5. QED
    BY <2>2, <2>4
<1>4. QED
  BY <1>2, <1>3

LEMMA CronRunsLater ==
    ASSUME NEW s, s.every \in Nat \ {0}, s.phase \in Nat, s.phase < s.every, NEW after \in Nat
    PROVE  cronNextRun(s, after) \in (after + 1)..(after + s.every)
<1>1. \E t \in (after + 1)..(after + s.every) : Matches(s, t)
  BY MatchInCycle DEF Matches
<1>2. QED
  BY <1>1 DEF cronNextRun

LEMMA MinIsMember ==
    ASSUME NEW S, S \subseteq Nat, S # {}
    PROVE  Min(S) \in S
<1>1. PICK m \in S : \A n \in S : <<n, m>> \notin OpToRel(<, Nat)
  BY WFMin, NatLessThanWellFounded, Zenon
<1>2. \A n \in S : ~(n < m)
  BY <1>1, Zenon DEF OpToRel
<1>3. \A n \in S : m <= n
  BY <1>2
<1>4. QED
  BY <1>3 DEF Min

LEMMA Periods ==
    ASSUME NEW u \in Nat \ {0}, NEW z \in Nat \ {0}, NEW q \in Nat
    PROVE  /\ u * (q + z) \in Nat /\ u * (q + z) = u * q + u * z
           /\ (z + 1) * u = u * z + u
           /\ u * z >= u /\ u * z \in Nat /\ u * q \in Nat
OBVIOUS

LEMMA PeriodReached ==
    ASSUME NEW u \in Nat \ {0}, NEW k \in Nat, NEW t \in Nat, t >= u * k
    PROVE  t \div u >= k
<1>1. /\ t \div u \in Nat /\ t % u < u /\ t % u \in Nat /\ t = u * (t \div u) + (t % u)
  BY DivMod
<1>. DEFINE a == t \div u
<1>2. ASSUME a < k PROVE FALSE
  <2>1. a \in Nat /\ a + 1 <= k
    BY <1>1, <1>2
  <2>. HIDE DEF a
  <2>2. u * (a + 1) <= u * k
    BY <2>1
  <2>3. u * (a + 1) = u * a + u
    BY <2>1
  <2>4. t = u * a + (t % u) /\ t % u < u /\ t % u \in Nat
    BY <1>1 DEF a
  <2>5. QED
    BY <2>1, <2>2, <2>3, <2>4
<1>3. QED
  BY <1>1, <1>2

\* A match `size` periods ahead is on the cadence.
LEMMA CadenceIsMet ==
    ASSUME NEW s \in EveryNth, NEW after \in Nat
    PROVE  \E t \in (after + 1)..(after + (s.size + 1) * s.unit + s.every) :
             Matches(s, t) /\ isOnCadence(s, after, t)
<1>1. /\ s.unit \in Nat \ {0} /\ s.size \in Nat \ {0, 1} /\ s.every \in Nat \ {0}
      /\ s.phase \in Nat /\ s.phase < s.every
  BY DEF EveryNth
<1>2. PICK u \in Nat \ {0}, z \in Nat \ {0, 1}, e \in Nat \ {0} :
        u = s.unit /\ z = s.size /\ e = s.every
  BY <1>1
<1>3. PICK q \in Nat : q = after \div u /\ after = u * q + (after % u)
                       /\ after % u \in Nat /\ after % u < u
  BY DivMod
<1>4. PICK from \in Nat : from = u * (q + z)
  BY Periods
<1>5. /\ from = u * q + u * z /\ (z + 1) * u = u * z + u
      /\ u * z >= u /\ u * z \in Nat /\ u * q \in Nat
  BY <1>4, Periods
<1>6. from > after /\ from <= after + u * z /\ from - 1 \in Nat
  BY <1>3, <1>5
<1>7. PICK t \in ((from - 1) + 1)..((from - 1) + e) : t % e = s.phase
  BY <1>1, <1>2, <1>6, MatchInCycle
<1>8. t \in Nat /\ t >= from /\ t <= from - 1 + e
  BY <1>4, <1>6, <1>7
<1>9. t \in (after + 1)..(after + (z + 1) * u + e)
  BY <1>5, <1>6, <1>8
<1>10. t \div u >= q + z
  <2>1. q + z \in Nat /\ t >= u * (q + z)
    BY <1>4, <1>8
  <2>2. QED
    BY <1>8, <2>1, PeriodReached
<1>11. t \div u \in Nat
  BY <1>8, DivMod
<1>12. isOnCadence(s, after, t)
  BY <1>2, <1>3, <1>10, <1>11 DEF isOnCadence, periodsBetween
<1>13. QED
  BY <1>2, <1>7, <1>9, <1>12 DEF Matches

\* The next run of what a trigger node registers comes, and comes later.
LEMMA RunsLater ==
    ASSUME NEW s \in TriggerSchedules, NEW after \in Nat
    PROVE  /\ computeNextRunAt(s, after) \in Nat /\ computeNextRunAt(s, after) > after
           /\ computeFirstRunAt(s, after) \in Nat /\ computeFirstRunAt(s, after) > after
           /\ s.kind # "one_off"
<1>1. CASE s \in PlainCrons
  BY <1>1, CronRunsLater DEF PlainCrons, computeNextRunAt, computeFirstRunAt
<1>2. CASE s \in [kind : {"interval"}, every : Nat \ {0}]
  BY <1>2 DEF computeNextRunAt, computeFirstRunAt
<1>3. CASE s \in EveryNth
  <2>1. computeFirstRunAt(s, after) \in Nat /\ computeFirstRunAt(s, after) > after
    BY <1>3, CronRunsLater DEF EveryNth, computeFirstRunAt
  <2>. DEFINE S == {t \in (after + 1)..(after + (s.size + 1) * s.unit + s.every) :
                      Matches(s, t) /\ isOnCadence(s, after, t)}
  <2>2. S # {} /\ S \subseteq Nat
    BY <1>3, CadenceIsMet
  <2>3. Min(S) \in S
    BY <2>2, MinIsMember
  <2>4. recurringCronNextRun(s, after) = Min(S)
    BY DEF recurringCronNextRun
  <2>5. recurringCronNextRun(s, after) \in Nat /\ recurringCronNextRun(s, after) > after
    BY <2>2, <2>3, <2>4
  <2>6. computeNextRunAt(s, after) = recurringCronNextRun(s, after) /\ s.kind # "one_off"
    BY <1>3 DEF EveryNth, computeNextRunAt
  <2>7. QED
    BY <2>1, <2>5, <2>6
<1>4. QED
  BY <1>1, <1>2, <1>3 DEF TriggerSchedules

-----------------------------------------------------------------------------
(* The walk of a schedule, without the induction theorems: a set of naturals *)
(* has a least member.                                                     *)

LEMMA LeastOf ==
    ASSUME NEW S, S \subseteq Nat, S # {}
    PROVE  \E m \in S : \A n \in S : m <= n
<1>1. PICK m \in S : \A n \in S : <<n, m>> \notin OpToRel(<, Nat)
  BY WFMin, NatLessThanWellFounded, Zenon
<1>2. \A n \in S : ~(n < m)
  BY <1>1, Zenon DEF OpToRel
<1>3. QED
  BY <1>2

IsWalk(s, first, g, m) ==
    /\ g \in [0..m -> Nat]
    /\ g[0] = first
    /\ \A n \in 1..m : g[n] = computeNextRunAt(s, g[n - 1])

LEMMA WalkExists ==
    ASSUME NEW s \in TriggerSchedules, NEW first \in Nat, NEW limit \in Nat
    PROVE  \E g : IsWalk(s, first, g, limit)
<1>. DEFINE Bad == {m \in Nat : ~ \E g : IsWalk(s, first, g, m)}
<1>1. ASSUME Bad # {} PROVE FALSE
  <2>1. PICK m \in Bad : \A n \in Bad : m <= n
    BY <1>1, LeastOf
  <2>2. CASE m = 0
    <3>1. IsWalk(s, first, [n \in 0..0 |-> first], 0)
      BY DEF IsWalk
    <3>2. QED
      BY <2>2, <3>1
  <2>3. CASE m # 0
    <3>1. m - 1 \in Nat /\ m - 1 \notin Bad
      BY <2>1, <2>3
    <3>2. PICK g : IsWalk(s, first, g, m - 1)
      BY <3>1
    <3>3. g \in [0..(m - 1) -> Nat] /\ m \in Nat
      BY <3>2 DEF IsWalk
    <3>. DEFINE last == computeNextRunAt(s, g[m - 1])
                h == [n \in 0..m |-> IF n = m THEN last ELSE g[n]]
    <3>4. last \in Nat
      BY <3>1, <3>3, RunsLater
    <3>. HIDE DEF last
    <3>5. h \in [0..m -> Nat]
      BY <3>3, <3>4
    <3>6. h[0] = first
      BY <2>3, <3>2, <3>3 DEF IsWalk
    <3>7. ASSUME NEW n \in 1..m PROVE h[n] = computeNextRunAt(s, h[n - 1])
      <4>1. n - 1 \in 0..m /\ n \in 0..m /\ n - 1 # m
        BY <3>3
      <4>2. h[n - 1] = g[n - 1]
        BY <4>1
      <4>3. CASE n = m
        BY <4>1, <4>2, <4>3 DEF last
      <4>4. CASE n # m
        <5>1. n \in 1..(m - 1) /\ h[n] = g[n]
          BY <3>3, <4>1, <4>4
        <5>2. QED
          BY <3>2, <4>2, <5>1 DEF IsWalk
      <4>5. QED
        BY <4>3, <4>4
    <3>. HIDE DEF h
    <3>8. IsWalk(s, first, h, m)
      BY <3>5, <3>6, <3>7 DEF IsWalk
    <3>9. QED
      BY <3>8
  <2>4. QED
    BY <2>2, <2>3
<1>2. QED
  BY <1>1

\* What a walk is, as the code's generator yields it.
LEMMA WalkIs ==
    ASSUME NEW s \in TriggerSchedules, NEW first \in Nat, NEW limit \in Nat
    PROVE  IsWalk(s, first, occurrencesFrom(s, first, limit), limit)
<1>. DEFINE Steps(f) == [n \in 0..limit |->
                           IF n = 0 THEN first
                           ELSE IF s.kind = "one_off" \/ f[n - 1] = Null THEN Null
                           ELSE computeNextRunAt(s, f[n - 1])]
            f == occurrencesFrom(s, first, limit)
<1>1. PICK g : IsWalk(s, first, g, limit)
  BY WalkExists
<1>2. s.kind # "one_off"
  BY RunsLater
<1>3. g = Steps(g)
  <2>1. g \in [0..limit -> Nat]
    BY <1>1 DEF IsWalk
  <2>2. ASSUME NEW n \in 0..limit PROVE g[n] = Steps(g)[n]
    <3>1. CASE n = 0
      BY <1>1, <3>1 DEF IsWalk
    <3>2. CASE n # 0
      <4>1. n \in 1..limit /\ n - 1 \in 0..limit
        BY <3>2
      <4>2. g[n - 1] # Null
        BY <2>1, <4>1, NullAssumption
      <4>3. QED
        BY <1>1, <1>2, <3>2, <4>1, <4>2 DEF IsWalk
    <3>3. QED
      BY <3>1, <3>2
  <2>3. QED
    BY <2>1, <2>2
<1>4. f = CHOOSE h : h = Steps(h)
  BY Zenon DEF occurrencesFrom
<1>5. f = Steps(f)
  BY <1>3, <1>4
<1>. HIDE DEF f
<1>6. DOMAIN f = 0..limit /\ \A n \in 0..limit : f[n] = Steps(f)[n]
  BY <1>5
<1>7. f[0] = first
  BY <1>6
<1>8. \A n \in 0..limit : f[n] \in Nat
  <2>. DEFINE Bad == {n \in 0..limit : f[n] \notin Nat}
  <2>0. Bad \subseteq Nat
    OBVIOUS
  <2>1. ASSUME Bad # {} PROVE FALSE
    <3>1. PICK m \in Bad : \A n \in Bad : m <= n
      BY <2>0, <2>1, LeastOf
    <3>2. m # 0
      BY <1>7
    <3>3. m - 1 \in 0..limit /\ m - 1 \notin Bad
      BY <3>1, <3>2
    <3>4. f[m - 1] \in Nat
      BY <3>3
    <3>5. f[m] = computeNextRunAt(s, f[m - 1])
      BY <1>2, <1>6, <3>2, <3>4, NullAssumption
    <3>6. QED
      BY <3>4, <3>5, RunsLater
  <2>2. QED
    BY <2>1
<1>9. \A n \in 1..limit : f[n] = computeNextRunAt(s, f[n - 1])
  <2>. SUFFICES ASSUME NEW n \in 1..limit PROVE f[n] = computeNextRunAt(s, f[n - 1])
    OBVIOUS
  <2>1. n \in 0..limit /\ n - 1 \in 0..limit /\ n # 0
    OBVIOUS
  <2>2. QED
    BY <1>2, <1>6, <1>8, <2>1, NullAssumption
<1>10. f \in [0..limit -> Nat]
  BY <1>5, <1>8
<1>11. QED
  BY <1>7, <1>9, <1>10 DEF IsWalk, f

\* A walk goes up.
LEMMA WalkGoesUp ==
    ASSUME NEW s \in TriggerSchedules, NEW first \in Nat, NEW limit \in Nat, NEW f,
           IsWalk(s, first, f, limit)
    PROVE  \A n \in 0..limit : \A k \in 0..n : f[k] <= f[n] /\ (k < n => f[k] < f[n])
<1>0. f \in [0..limit -> Nat]
  BY DEF IsWalk
<1>. SUFFICES ASSUME NEW k \in 0..limit
              PROVE  \A n \in k..limit : f[k] <= f[n] /\ (k < n => f[k] < f[n])
  OBVIOUS
<1>. DEFINE Bad == {n \in k..limit : ~(f[k] <= f[n] /\ (k < n => f[k] < f[n]))}
<1>1. ASSUME Bad # {} PROVE FALSE
  <2>0. Bad \subseteq Nat
    OBVIOUS
  <2>1. PICK m \in Bad : \A n \in Bad : m <= n
    BY <1>1, <2>0, LeastOf
  <2>2. m # k /\ m \in k..limit
    BY <1>0, <2>1
  <2>3. m - 1 \in k..limit /\ m - 1 \notin Bad /\ m \in 1..limit /\ m - 1 \in 0..limit
    BY <2>1, <2>2
  <2>4. f[k] <= f[m - 1] /\ f[m - 1] \in Nat /\ f[k] \in Nat /\ f[m] \in Nat
    BY <1>0, <2>2, <2>3
  <2>5. f[m] = computeNextRunAt(s, f[m - 1])
    BY <2>3 DEF IsWalk
  <2>6. f[m] > f[m - 1]
    BY <2>4, <2>5, RunsLater
  <2>7. f[k] < f[m]
    BY <2>4, <2>6
  <2>8. QED
    BY <2>1, <2>4, <2>7
<1>2. QED
  BY <1>1

LEMMA PlanOf ==
    ASSUME NEW s \in TriggerSchedules, NEW first \in Nat, NEW at \in Nat,
           NEW window \in Nat, NEW max \in Nat
    PROVE  LET plan == planOccurrences(s, first, at, window, max)
           IN  /\ plan.occurrences \subseteq Nat
               /\ \A t \in plan.occurrences : t >= first
               /\ plan.nextRunAt \in Nat /\ plan.nextRunAt >= first
<1>. DEFINE f == occurrencesFrom(s, first, max)
            kept == {n \in 0..(max - 1) : f[n] # Null /\ f[n] <= at + window}
<1>1. IsWalk(s, first, f, max)
  BY WalkIs
<1>. HIDE DEF f
<1>2. f[0] = first /\ f \in [0..max -> Nat]
  BY <1>1 DEF IsWalk
<1>3. \A n \in 0..max : f[n] \in Nat /\ f[n] >= first
  <2>1. \A n \in 0..max : 0 \in 0..n
    OBVIOUS
  <2>2. QED
    BY <1>1, <1>2, <2>1, WalkGoesUp
<1>4. Cardinality(kept) \in 0..max
  <2>1. IsFiniteSet(0..(max - 1)) /\ Cardinality(0..(max - 1)) = max
    BY FS_Interval
  <2>2. kept \subseteq 0..(max - 1)
    OBVIOUS
  <2>. HIDE DEF kept
  <2>3. IsFiniteSet(kept) /\ Cardinality(kept) <= Cardinality(0..(max - 1))
    BY <2>1, <2>2, FS_Subset
  <2>4. Cardinality(kept) \in Nat
    BY <2>3, FS_CardinalityType
  <2>5. QED
    BY <2>1, <2>3, <2>4
<1>5. kept \subseteq 0..max
  OBVIOUS
<1>6. planOccurrences(s, first, at, window, max)
        = [occurrences |-> {f[n] : n \in kept}, nextRunAt |-> f[Cardinality(kept)]]
  BY DEF planOccurrences, f
<1>. HIDE DEF kept
<1>7. QED
  BY <1>3, <1>4, <1>5, <1>6

-----------------------------------------------------------------------------
(* The fires of a schedule counted from an anchor, and the walk through them. *)

Fires(s, since, t) == t \in ReferenceFires(s, since, t)

\* Every period holds a match, as every day, week or month does.
Cadenced(s) == s \in TriggerSchedules /\ (s \in EveryNth => s.every <= s.unit)

LEMMA FiresAre ==
    ASSUME NEW s, NEW since \in Nat, NEW t \in Nat
    PROVE  Fires(s, since, t) <=>
             /\ since <= t
             /\ \/ t = since
                \/ s.kind = "cron" /\ Matches(s, t)
                \/ s.kind = "interval" /\ (t - since) % s.every = 0
                \/ /\ s.kind = "recurring_cron"
                   /\ Matches(s, t)
                   /\ periodsBetween(s, since, t) % s.size = 0
BY DEF Fires, ReferenceFires

LEMMA ReferenceMember ==
    ASSUME NEW s, NEW since \in Nat, NEW limit \in Int, NEW t
    PROVE  t \in ReferenceFires(s, since, limit) <=>
             t \in Nat /\ t <= limit /\ Fires(s, since, t)
BY DEF Fires, ReferenceFires

\* A window of one cycle holds one instant of each residue.
LEMMA ResidueOnce ==
    ASSUME NEW e \in Nat \ {0}, NEW x \in Nat, NEW y \in Nat,
           x % e = y % e, y - x < e, x - y < e
    PROVE  x = y
<1>1. /\ x \div e \in Nat /\ x % e \in Nat /\ x = e * (x \div e) + (x % e)
      /\ y \div e \in Nat /\ y = e * (y \div e) + (y % e)
  BY DivMod
<1>2. PICK a, b \in Nat : a = x \div e /\ b = y \div e
  BY <1>1
<1>3. x = e * a + (x % e) /\ y = e * b + (x % e)
  BY <1>1, <1>2
<1>4. CASE a = b
  BY <1>3, <1>4
<1>5. CASE a < b
  <2>1. e * (a + 1) <= e * b /\ e * (a + 1) = e * a + e
    BY <1>2, <1>5
  <2>2. QED
    BY <1>1, <1>3, <2>1
<1>6. CASE b < a
  <2>1. e * (b + 1) <= e * a /\ e * (b + 1) = e * b + e
    BY <1>2, <1>6
  <2>2. QED
    BY <1>1, <1>3, <2>1
<1>7. QED
  BY <1>2, <1>4, <1>5, <1>6

LEMMA DivGrows ==
    ASSUME NEW u \in Nat \ {0}, NEW x \in Nat, NEW y \in Nat, x <= y
    PROVE  x \div u \in Nat /\ y \div u \in Nat /\ x \div u <= y \div u
<1>1. x \div u \in Nat /\ x = u * (x \div u) + (x % u) /\ x % u \in Nat /\ y \div u \in Nat
  BY DivMod
<1>2. PICK k \in Nat : k = x \div u
  BY <1>1
<1>3. u * k \in Nat /\ y >= u * k
  BY <1>1, <1>2
<1>4. QED
  BY <1>1, <1>2, <1>3, PeriodReached

\* Residues of a step of one size.
LEMMA ResidueStep ==
    ASSUME NEW z \in Nat \ {0}, NEW d \in Nat, d % z = 0
    PROVE  (d + z) % z = 0 /\ 0 % z = 0
<1>1. d \div z \in Nat /\ d = z * (d \div z) + (d % z)
  BY DivMod
<1>2. PICK q \in Nat : d = z * q
  BY <1>1
<1>3. d + z = z * (q + 1) + 0
  BY <1>2
<1>4. \A k \in Nat : (z * k + 0) % z = 0
  BY ModOf
<1>5. QED
  BY <1>3, <1>4

\* The first match of a period is in the period.
LEMMA PeriodHolds ==
    ASSUME NEW u \in Nat \ {0}, NEW k \in Nat, NEW t \in Nat, t >= u * k, t < u * k + u
    PROVE  t \div u = k
<1>1. t \div u >= k /\ t \div u \in Nat /\ t = u * (t \div u) + (t % u) /\ t % u \in Nat
  BY PeriodReached, DivMod
<1>2. PICK a \in Nat : a = t \div u
  BY <1>1
<1>3. CASE a > k
  <2>1. u * (k + 1) <= u * a /\ u * (k + 1) = u * k + u
    BY <1>2, <1>3
  <2>2. QED
    BY <1>1, <1>2, <2>1
<1>4. QED
  BY <1>1, <1>2, <1>3

LEMMA MinIsLeast ==
    ASSUME NEW S, S \subseteq Nat, S # {}
    PROVE  Min(S) \in S /\ \A n \in S : Min(S) <= n
<1>1. PICK m \in S : \A n \in S : m <= n
  BY LeastOf
<1>2. QED
  BY <1>1 DEF Min

\* The next run of an every-N rule is the next fire of the reference.
LEMMA NextOfEveryNth ==
    ASSUME NEW s \in EveryNth, s.every <= s.unit, NEW since \in Nat, NEW c \in Nat,
           Fires(s, since, c)
    PROVE  /\ recurringCronNextRun(s, c) \in Nat /\ recurringCronNextRun(s, c) > c
           /\ Fires(s, since, recurringCronNextRun(s, c))
           /\ \A t \in Nat : c < t /\ t < recurringCronNextRun(s, c) => ~Fires(s, since, t)
<1>1. /\ s.unit \in Nat \ {0} /\ s.size \in Nat \ {0, 1} /\ s.every \in Nat \ {0}
      /\ s.phase \in Nat /\ s.phase < s.every /\ s.kind = "recurring_cron"
  BY DEF EveryNth
<1>2. PICK u \in Nat \ {0}, z \in Nat \ {0, 1}, e \in Nat \ {0} :
        u = s.unit /\ z = s.size /\ e = s.every
  BY <1>1
<1>. DEFINE S == {t \in (c + 1)..(c + (s.size + 1) * s.unit + s.every) :
                    Matches(s, t) /\ isOnCadence(s, c, t)}
<1>3. S # {} /\ S \subseteq Nat
  BY CadenceIsMet
<1>4. PICK d \in S : d = recurringCronNextRun(s, c) /\ \A t \in S : d <= t
  BY <1>3, MinIsLeast DEF recurringCronNextRun
<1>5. d \in Nat /\ d > c
  BY <1>4
<1>6. PICK a, q, p \in Nat : a = since \div u /\ q = c \div u /\ p = d \div u
  BY <1>5, DivMod
<1>7. since <= c /\ a <= q /\ q <= p
  <2>1. since <= c
    BY FiresAre
  <2>2. a <= q
    BY <1>6, <2>1, DivGrows
  <2>3. c <= d
    BY <1>5
  <2>4. q <= p
    BY <1>5, <1>6, <2>3, DivGrows
  <2>5. QED
    BY <2>1, <2>2, <2>4
<1>8. (q - a) % z = 0
  <2>1. CASE c = since
    <3>1. q - a = 0 /\ 0 % z = 0
      BY <1>6, <2>1
    <3>2. QED
      BY <3>1
  <2>2. CASE c # since
    BY <1>1, <1>2, <1>6, <2>2, FiresAre DEF periodsBetween
  <2>3. QED
    BY <2>1, <2>2
<1>9. PICK from \in Nat : from = u * (q + z)
  BY Periods
<1>10. /\ from = u * q + u * z /\ (z + 1) * u = u * z + u
       /\ u * z >= u /\ u * z \in Nat /\ u * q \in Nat
  BY <1>9, Periods
<1>11. c = u * q + (c % u) /\ c % u \in Nat /\ c % u < u
  BY <1>6, DivMod
<1>12. from > c /\ from <= c + u * z /\ from - 1 \in Nat
  BY <1>10, <1>11
\* The match of the period `size` ahead.
<1>13. PICK t0 \in ((from - 1) + 1)..((from - 1) + e) : t0 % e = s.phase
  BY <1>1, <1>2, <1>12, MatchInCycle
<1>14. t0 \in Nat /\ t0 >= from /\ t0 < from + u
  BY <1>2, <1>9, <1>12, <1>13
<1>15. t0 \div u = q + z
  <2>1. q + z \in Nat /\ t0 >= u * (q + z) /\ t0 < u * (q + z) + u
    BY <1>9, <1>14
  <2>2. QED
    BY <1>14, <2>1, PeriodHolds
<1>16. t0 \in S
  <2>1. t0 \in (c + 1)..(c + (z + 1) * u + e)
    BY <1>10, <1>12, <1>13, <1>14
  <2>2. isOnCadence(s, c, t0)
    BY <1>2, <1>6, <1>15 DEF isOnCadence, periodsBetween
  <2>3. QED
    BY <1>2, <1>13, <2>1, <2>2 DEF Matches
<1>17. d <= t0 /\ p <= q + z
  <2>1. d <= t0
    BY <1>4, <1>16
  <2>2. QED
    BY <1>5, <1>6, <1>14, <1>15, <2>1, DivGrows
<1>18. p = q \/ p = q + z
  BY <1>2, <1>4, <1>6, <1>7, <1>17 DEF isOnCadence, periodsBetween
<1>19. (p - a) % z = 0
  <2>1. CASE p = q
    BY <1>8, <2>1
  <2>2. CASE p = q + z
    <3>1. q - a \in Nat /\ p - a = (q - a) + z
      BY <1>7, <2>2
    <3>2. ((q - a) + z) % z = 0
      BY <1>8, <3>1, ResidueStep
    <3>3. QED
      BY <3>1, <3>2
  <2>3. QED
    BY <1>18, <2>1, <2>2
<1>20. Fires(s, since, d)
  <2>1. since <= d /\ Matches(s, d) /\ periodsBetween(s, since, d) % s.size = 0
    BY <1>2, <1>4, <1>5, <1>6, <1>7, <1>19 DEF periodsBetween
  <2>2. QED
    BY <1>1, <1>5, <2>1, FiresAre
<1>21. ASSUME NEW t \in Nat, c < t, t < d, Fires(s, since, t) PROVE FALSE
  <2>1. Matches(s, t) /\ periodsBetween(s, since, t) % s.size = 0
    BY <1>1, <1>7, <1>21, FiresAre
  <2>2. PICK v \in Nat : v = t \div u
    BY DivMod
  <2>3. q <= v /\ v <= p
    BY <1>5, <1>6, <1>21, <2>2, DivGrows
  <2>4. (v - a) % z = 0 /\ (q - a) % z = 0 /\ v - a \in Nat /\ q - a \in Nat
    BY <1>2, <1>6, <1>7, <1>8, <2>1, <2>2, <2>3 DEF periodsBetween
  <2>5. v = q \/ v = q + z
    <3>1. CASE v < q + z
      <4>1. (v - a) - (q - a) < z /\ (q - a) - (v - a) < z
        BY <2>3, <3>1
      <4>2. v - a = q - a
        BY <2>4, <4>1, ResidueOnce
      <4>3. QED
        BY <4>2
    <3>2. QED
      BY <1>17, <2>3, <3>1
  <2>6. isOnCadence(s, c, t)
    BY <1>2, <1>6, <2>2, <2>5 DEF isOnCadence, periodsBetween
  <2>7. t \in S
    <3>1. d \in (c + 1)..(c + (s.size + 1) * s.unit + s.every)
      BY <1>4
    <3>2. PICK top \in Nat : top = c + (s.size + 1) * s.unit + s.every
      BY <1>2, <1>10
    <3>3. t \in (c + 1)..(c + (s.size + 1) * s.unit + s.every)
      BY <1>5, <1>21, <3>1, <3>2
    <3>4. QED
      BY <2>1, <2>6, <3>3
  <2>8. QED
    BY <1>4, <1>5, <1>21, <2>7
<1>22. QED
  BY <1>4, <1>5, <1>20, <1>21

\* The next run of a trigger node's rule is the next fire of the reference.
LEMMA NextFire ==
    ASSUME NEW s, Cadenced(s), NEW since \in Nat, NEW c \in Nat, Fires(s, since, c)
    PROVE  /\ computeNextRunAt(s, c) \in Nat /\ computeNextRunAt(s, c) > c
           /\ Fires(s, since, computeNextRunAt(s, c))
           /\ \A t \in Nat : c < t /\ t < computeNextRunAt(s, c) => ~Fires(s, since, t)
<1>1. s \in TriggerSchedules /\ (s \in EveryNth => s.every <= s.unit) /\ since <= c
  BY FiresAre DEF Cadenced
<1>2. CASE s \in PlainCrons
  <2>1. s.kind = "cron" /\ s.every \in Nat \ {0} /\ s.phase \in Nat /\ s.phase < s.every
    BY <1>2 DEF PlainCrons
  <2>2. \E t \in (c + 1)..(c + s.every) : Matches(s, t)
    BY <2>1, MatchInCycle DEF Matches
  <2>3. PICK d \in (c + 1)..(c + s.every) : d = cronNextRun(s, c) /\ Matches(s, d)
    BY <2>2 DEF cronNextRun
  <2>4. computeNextRunAt(s, c) = d /\ d \in Nat /\ d > c
    BY <2>1, <2>3 DEF computeNextRunAt
  <2>5. Fires(s, since, d)
    BY <1>1, <2>1, <2>3, <2>4, FiresAre
  <2>6. ASSUME NEW t \in Nat, c < t, t < d, Fires(s, since, t) PROVE FALSE
    <3>1. Matches(s, t)
      BY <1>1, <2>1, <2>6, FiresAre
    <3>2. t % s.every = d % s.every /\ d - t < s.every /\ t - d < s.every
      BY <2>1, <2>3, <2>6, <3>1 DEF Matches
    <3>3. t = d
      BY <2>1, <2>4, <3>2, ResidueOnce
    <3>4. QED
      BY <2>6, <3>3
  <2>7. QED
    BY <2>4, <2>5, <2>6
<1>3. CASE s \in [kind : {"interval"}, every : Nat \ {0}]
  <2>1. s.kind = "interval" /\ s.every \in Nat \ {0}
    BY <1>3
  <2>2. PICK e \in Nat \ {0}, b \in Nat : e = s.every /\ b = c - since
    BY <1>1, <2>1
  <2>3. computeNextRunAt(s, c) = c + e /\ c + e \in Nat /\ c + e > c
    BY <2>1, <2>2 DEF computeNextRunAt
  <2>4. b % e = 0
    <3>1. CASE c = since
      BY <2>2, <3>1
    <3>2. CASE c # since
      BY <2>1, <2>2, <3>2, FiresAre
    <3>3. QED
      BY <3>1, <3>2
  <2>5. (b + e) % e = 0
    BY <2>2, <2>4, ResidueStep
  <2>6. Fires(s, since, c + e)
    <3>1. (c + e) - since = b + e /\ since <= c + e
      BY <1>1, <2>2
    <3>2. QED
      BY <2>1, <2>2, <2>3, <2>5, <3>1, FiresAre
  <2>7. ASSUME NEW t \in Nat, c < t, t < c + e, Fires(s, since, t) PROVE FALSE
    <3>1. (t - since) % e = 0 /\ t - since \in Nat
      BY <1>1, <2>1, <2>2, <2>7, FiresAre
    <3>2. (t - since) - (b + e) < e /\ (b + e) - (t - since) < e /\ b + e \in Nat
      BY <1>1, <2>2, <2>7
    <3>3. t - since = b + e
      BY <2>2, <2>5, <3>1, <3>2, ResidueOnce
    <3>4. QED
      BY <1>1, <2>2, <2>7, <3>3
  <2>8. QED
    BY <2>3, <2>6, <2>7
<1>4. CASE s \in EveryNth
  <2>1. computeNextRunAt(s, c) = recurringCronNextRun(s, c)
    BY <1>4 DEF EveryNth, computeNextRunAt
  <2>2. QED
    BY <1>1, <1>4, <2>1, NextOfEveryNth
<1>5. QED
  BY <1>1, <1>2, <1>3, <1>4 DEF TriggerSchedules

\* A walk that starts at a fire goes through all fires, and only fires.
LEMMA WalkFires ==
    ASSUME NEW s, Cadenced(s), NEW since \in Nat, NEW first \in Nat, Fires(s, since, first),
           NEW limit \in Nat, NEW f, IsWalk(s, first, f, limit)
    PROVE  \A n \in 0..limit :
             /\ Fires(s, since, f[n])
             /\ \A t \in Nat : first <= t /\ t < f[n] /\ Fires(s, since, t) =>
                  \E k \in 0..(n - 1) : t = f[k]
<1>0. f \in [0..limit -> Nat] /\ f[0] = first
      /\ \A n \in 1..limit : f[n] = computeNextRunAt(s, f[n - 1])
  BY DEF IsWalk
<1>. DEFINE Good(n) == /\ Fires(s, since, f[n])
                       /\ \A t \in Nat : first <= t /\ t < f[n] /\ Fires(s, since, t) =>
                            \E k \in 0..(n - 1) : t = f[k]
            Bad == {n \in 0..limit : ~Good(n)}
<1>1. ASSUME Bad # {} PROVE FALSE
  <2>1. Bad \subseteq Nat
    OBVIOUS
  <2>2. PICK m \in Bad : \A n \in Bad : m <= n
    BY <1>1, <2>1, LeastOf
  <2>3. CASE m = 0
    <3>1. Good(0)
      BY <1>0
    <3>2. QED
      BY <2>2, <2>3, <3>1
  <2>4. CASE m # 0
    <3>1. m - 1 \in 0..limit /\ m - 1 \notin Bad /\ m \in 1..limit
      BY <2>2, <2>4
    <3>2. Good(m - 1)
      BY <3>1
    <3>3. PICK c \in Nat : c = f[m - 1]
      BY <1>0, <3>1
    <3>4. f[m] = computeNextRunAt(s, c)
      BY <1>0, <3>1, <3>3
    <3>5. /\ f[m] \in Nat /\ f[m] > c
          /\ Fires(s, since, f[m])
          /\ \A t \in Nat : c < t /\ t < f[m] => ~Fires(s, since, t)
      BY <3>2, <3>3, <3>4, NextFire
    <3>6. ASSUME NEW t \in Nat, first <= t, t < f[m], Fires(s, since, t)
          PROVE  \E k \in 0..(m - 1) : t = f[k]
      <4>1. CASE t < c
        <5>1. PICK k \in 0..((m - 1) - 1) : t = f[k]
          BY <3>2, <3>3, <3>6, <4>1
        <5>2. k \in 0..(m - 1)
          BY <3>1
        <5>3. QED
          BY <5>1, <5>2
      <4>2. CASE t = c
        <5>1. m - 1 \in 0..(m - 1)
          BY <3>1
        <5>2. QED
          BY <3>3, <4>2, <5>1
      <4>3. QED
        BY <3>5, <3>6, <4>1, <4>2
    <3>7. Good(m)
      BY <3>5, <3>6
    <3>8. QED
      BY <2>2, <3>7
  <2>5. QED
    BY <2>3, <2>4
<1>2. QED
  BY <1>1

\* A plan records the fires before the clock it leaves, which is a fire itself.
LEMMA PlanFires ==
    ASSUME NEW s, Cadenced(s), NEW since \in Nat, NEW first \in Nat, Fires(s, since, first),
           NEW at \in Nat, NEW window \in Nat, NEW max \in Nat
    PROVE  LET plan == planOccurrences(s, first, at, window, max)
           IN  /\ plan.nextRunAt \in Nat /\ plan.nextRunAt >= first
               /\ Fires(s, since, plan.nextRunAt)
               /\ plan.occurrences =
                    {t \in Nat : first <= t /\ t < plan.nextRunAt /\ Fires(s, since, t)}
               /\ \A t \in plan.occurrences : t <= at + window
               /\ Cardinality(plan.occurrences) = max \/ plan.nextRunAt > at + window
<1>. DEFINE f == occurrencesFrom(s, first, max)
            kept == {n \in 0..(max - 1) : f[n] # Null /\ f[n] <= at + window}
            c == Cardinality(kept)
<1>0. s \in TriggerSchedules
  BY DEF Cadenced
<1>1. IsWalk(s, first, f, max)
  BY <1>0, WalkIs
<1>2. planOccurrences(s, first, at, window, max)
        = [occurrences |-> {f[n] : n \in kept}, nextRunAt |-> f[c]]
  BY DEF planOccurrences
<1>. HIDE DEF f
<1>3. f[0] = first /\ f \in [0..max -> Nat]
  BY <1>1 DEF IsWalk
<1>4. \A n \in 0..max : \A k \in 0..n : f[k] <= f[n] /\ (k < n => f[k] < f[n])
  BY <1>0, <1>1, WalkGoesUp
<1>5. IsFiniteSet(kept) /\ c \in 0..max
  <2>1. IsFiniteSet(0..(max - 1)) /\ Cardinality(0..(max - 1)) = max
    BY FS_Interval
  <2>2. kept \subseteq 0..(max - 1)
    OBVIOUS
  <2>. HIDE DEF kept
  <2>3. IsFiniteSet(kept) /\ Cardinality(kept) <= Cardinality(0..(max - 1))
    BY <2>1, <2>2, FS_Subset
  <2>4. Cardinality(kept) \in Nat
    BY <2>3, FS_CardinalityType
  <2>5. QED
    BY <2>1, <2>3, <2>4
\* What is kept is where the walk begins.
<1>6. kept = 0..(c - 1)
  <2>1. ASSUME NEW n \in kept, NEW k \in 0..n PROVE k \in kept
    <3>1. k \in 0..(max - 1) /\ n \in 0..max /\ k \in 0..max
      BY <2>1
    <3>2. f[k] \in Nat /\ f[k] <= f[n] /\ f[n] \in Nat
      BY <1>3, <1>4, <2>1, <3>1
    <3>3. QED
      BY <2>1, <3>1, <3>2, NullAssumption
  <2>2. kept \subseteq Nat
    OBVIOUS
  <2>3. ASSUME NEW k \in Nat, k \notin kept PROVE c <= k
    <3>1. \A n \in kept : n \in 0..(k - 1)
      BY <2>1, <2>2, <2>3
    <3>2. IsFiniteSet(0..(k - 1)) /\ Cardinality(0..(k - 1)) = k
      BY FS_Interval
    <3>. HIDE DEF kept
    <3>3. Cardinality(kept) <= Cardinality(0..(k - 1))
      BY <3>1, <3>2, FS_Subset
    <3>4. QED
      BY <3>2, <3>3
  <2>4. ASSUME NEW k \in kept PROVE c >= k + 1
    <3>1. \A n \in 0..k : n \in kept
      BY <2>1
    <3>2. k \in Nat
      BY <2>2
    <3>3. Cardinality(0..k) = k + 1
      BY <3>2, FS_Interval
    <3>. HIDE DEF kept
    <3>4. Cardinality(0..k) <= Cardinality(kept)
      BY <1>5, <3>1, FS_Subset
    <3>5. QED
      BY <3>3, <3>4
  <2>. HIDE DEF kept
  <2>5. ASSUME NEW k \in 0..(c - 1) PROVE k \in kept
    BY <1>5, <2>3
  <2>6. ASSUME NEW k \in kept PROVE k \in 0..(c - 1)
    BY <1>5, <2>2, <2>4
  <2>7. QED
    BY <2>5, <2>6
<1>7. c = max \/ f[c] > at + window
  <2>1. CASE c # max
    <3>1. c \in 0..(max - 1) /\ c \notin kept
      <4>. HIDE DEF kept, c
      <4>1. QED
        BY <1>5, <1>6, <2>1
    <3>2. f[c] \in Nat
      BY <1>3, <1>5
    <3>3. QED
      BY <3>1, <3>2, NullAssumption
  <2>2. QED
    BY <2>1
<1>8. \A n \in kept : f[n] <= at + window
  OBVIOUS
<1>. HIDE DEF kept, c
<1>9. \A n \in 0..max :
        /\ Fires(s, since, f[n])
        /\ \A t \in Nat : first <= t /\ t < f[n] /\ Fires(s, since, t) =>
             \E k \in 0..(n - 1) : t = f[k]
  BY <1>1, WalkFires
<1>10. {f[n] : n \in kept} = {t \in Nat : first <= t /\ t < f[c] /\ Fires(s, since, t)}
  <2>1. ASSUME NEW n \in kept
        PROVE  f[n] \in Nat /\ first <= f[n] /\ f[n] < f[c] /\ Fires(s, since, f[n])
    <3>1. n \in 0..max /\ n \in 0..c /\ n < c /\ 0 \in 0..n
      BY <1>5, <1>6, <2>1
    <3>2. QED
      BY <1>3, <1>4, <1>5, <1>9, <3>1
  <2>2. ASSUME NEW t \in Nat, first <= t, t < f[c], Fires(s, since, t)
        PROVE  \E n \in kept : t = f[n]
    BY <1>5, <1>6, <1>9, <2>2
  <2>3. QED
    BY <2>1, <2>2
<1>11. Cardinality({f[n] : n \in kept}) = c
  <2>1. [n \in kept |-> f[n]] \in Bijection(kept, {f[n] : n \in kept})
    <3>1. \A n, k \in kept : f[n] = f[k] => n = k
      <4>1. \A n, k \in kept : n < k => f[n] < f[k]
        <5>1. \A n, k \in kept : n < k => k \in 0..max /\ n \in 0..k
          BY <1>5, <1>6
        <5>2. QED
          BY <1>4, <5>1
      <4>2. \A n \in kept : n \in Nat /\ f[n] \in Nat
        BY <1>3, <1>5, <1>6
      <4>3. QED
        BY <4>1, <4>2
    <3>2. QED
      BY <3>1 DEF Bijection, Injection, Surjection, IsInjective
  <2>2. Cardinality(kept) = c
    BY DEF c
  <2>3. QED
    BY <1>5, <2>1, <2>2, FS_Bijection DEF ExistsBijection
<1>12. f[c] \in Nat /\ f[c] >= first
  <2>1. 0 \in 0..c
    BY <1>5
  <2>2. QED
    BY <1>3, <1>4, <1>5, <2>1
<1>13. QED
  BY <1>2, <1>7, <1>8, <1>9, <1>5, <1>10, <1>11, <1>12

-----------------------------------------------------------------------------
(* What the plan of a row is good for.                                     *)

LEMMA ConstantTypes ==
    /\ Window \in Nat /\ MaxPerJob \in Nat \ {0} /\ PlanRetry \in Nat \ {0}
    /\ MaxNow \in Nat /\ MaxJobs \in Nat \ {0} /\ Lookahead \in Nat
    /\ MaxFaults \in Nat /\ MaxRegistrations \in Nat
    /\ MaxSkew \in Nat /\ MaxSkew < PlanRetry
BY MaterializerAssumption, JobStoreAssumption, SkewAssumption

\* Planned or deferred, the clock stays set, and does not go back behind both
\* what it was and what any clock shows at the time of the plan.
LEMMA PlanOrDefer ==
    ASSUME NEW n \in Names, NEW row \in Row, row.clock # Null,
           NEW at \in Nat, NEW failing
    PROVE  LET plan == planOrDeferJob(n, row, at, failing)
           IN  /\ plan.occurrences \subseteq Nat
               /\ \A t \in plan.occurrences : t >= row.clock
               /\ plan.nextRunAt \in Nat
               /\ plan.nextRunAt >= row.clock \/ plan.nextRunAt > at + MaxSkew
               /\ Anchor(n, row, plan, failing) \in Nat
<1>1. row.clock \in Nat /\ row.since \in Nat
  BY DEF Row
<1>2. ScheduleOf[n] \in TriggerSchedules
  BY NamesAssumption
<1>. DEFINE plan == planOrDeferJob(n, row, at, failing)
            walk == planOccurrences(ScheduleOf[n], row.clock, at, Window, MaxPerJob)
<1>3. CASE row.intact /\ n \notin failing
  <2>1. plan = walk
    BY <1>3 DEF planOrDeferJob
  <2>2. /\ walk.occurrences \subseteq Nat
        /\ \A t \in walk.occurrences : t >= row.clock
        /\ walk.nextRunAt \in Nat /\ walk.nextRunAt >= row.clock
    BY <1>1, <1>2, ConstantTypes, PlanOf
  <2>3. Anchor(n, row, plan, failing) = row.since
    BY <1>3 DEF Anchor
  <2>. HIDE DEF plan, walk
  <2>4. QED
    BY <1>1, <2>1, <2>2, <2>3 DEF plan
<1>4. CASE ~(row.intact /\ n \notin failing)
  <2>1. plan = [occurrences |-> {}, nextRunAt |-> at + PlanRetry]
    BY <1>4, Zenon DEF planOrDeferJob
  <2>2. Anchor(n, row, plan, failing) = plan.nextRunAt
    BY <1>4, Zenon DEF Anchor
  <2>. HIDE DEF plan
  <2>3. plan.occurrences = {} /\ plan.nextRunAt = at + PlanRetry
    BY <2>1
  <2>4. plan.nextRunAt \in Nat /\ plan.nextRunAt > at + MaxSkew
    BY <2>3, ConstantTypes
  <2>5. QED
    BY <2>2, <2>3, <2>4 DEF plan
<1>5. QED
  BY <1>3, <1>4

\* Rows that may be planned: those of a claim, or those to seed.
IsBatch(c) ==
    /\ c.now \in Nat
    /\ DOMAIN c.rows \subseteq Names
    /\ \A n \in DOMAIN c.rows : c.rows[n] \in Row /\ c.rows[n].clock # Null

Table == [Names -> Row \cup {Null}]

\* advanceMany moves clocks and leaves the rest of every row alone.
LEMMA AdvanceKeeps ==
    ASSUME NEW rows \in Table, NEW c, IsBatch(c), NEW failing
    PROVE  LET after == advanceMany(rows, c, planOrDeferJobs(c, failing), failing)
           IN  /\ after \in Table
               /\ \A n \in Names :
                    /\ after[n] = Null <=> rows[n] = Null
                    /\ rows[n] # Null =>
                         /\ after[n].id = rows[n].id
                         /\ after[n].def = rows[n].def
                         /\ after[n].intact = rows[n].intact
                    /\ n \notin DOMAIN c.rows => after[n] = rows[n]
                    /\ rows[n] # Null /\ rows[n].id # c.rows[n].id => after[n] = rows[n]
                    /\ rows[n] = Null => after[n] = rows[n]
                    /\ rows[n] # Null /\ rows[n].clock # Null => after[n].clock # Null
                    /\ rows[n] # Null /\ n \in DOMAIN c.rows /\ rows[n].id = c.rows[n].id =>
                         /\ after[n].clock \in Nat
                         /\ after[n].clock >= c.rows[n].clock \/ after[n].clock > c.now + MaxSkew
<1>. DEFINE plans == planOrDeferJobs(c, failing)
            after == advanceMany(rows, c, plans, failing)
            moved(n) == n \in DOMAIN plans /\ rows[n] # Null /\ rows[n].id = c.rows[n].id
            next(n) == [rows[n] EXCEPT
                          !.clock = plans[n].nextRunAt,
                          !.since = Anchor(n, c.rows[n], plans[n], failing)]
<1>1. DOMAIN plans = DOMAIN c.rows
  BY DEF planOrDeferJobs
<1>2. \A n \in DOMAIN c.rows : plans[n] = planOrDeferJob(n, c.rows[n], c.now, failing)
  BY DEF planOrDeferJobs
<1>3. after = [n \in Names |-> IF moved(n) THEN next(n) ELSE rows[n]]
  BY Zenon DEF advanceMany
<1>. HIDE DEF after
<1>4. ASSUME NEW n \in Names, moved(n)
      PROVE  /\ next(n) \in Row
             /\ next(n).id = rows[n].id /\ next(n).def = rows[n].def
             /\ next(n).intact = rows[n].intact
             /\ next(n).clock \in Nat
             /\ next(n).clock >= c.rows[n].clock \/ next(n).clock > c.now + MaxSkew
  <2>1. n \in DOMAIN c.rows /\ c.rows[n] \in Row /\ c.rows[n].clock # Null /\ c.now \in Nat
    BY <1>1, <1>4 DEF IsBatch
  <2>2. /\ plans[n].nextRunAt \in Nat
        /\ plans[n].nextRunAt >= c.rows[n].clock \/ plans[n].nextRunAt > c.now + MaxSkew
        /\ Anchor(n, c.rows[n], plans[n], failing) \in Nat
    BY <1>2, <2>1, PlanOrDefer
  <2>. HIDE DEF plans
  <2>3. rows[n] \in Row
    BY <1>4 DEF Table
  <2>4. QED
    BY <2>2, <2>3 DEF Row
<1>5. \A n \in Names : after[n] = IF moved(n) THEN next(n) ELSE rows[n]
  BY <1>3
<1>6. after \in Table
  <2>1. \A n \in Names : (IF moved(n) THEN next(n) ELSE rows[n]) \in Row \cup {Null}
    <3>. TAKE n \in Names
    <3>1. CASE moved(n)
      BY <1>4, <3>1
    <3>2. CASE ~moved(n)
      BY <3>2 DEF Table
    <3>3. QED
      BY <3>1, <3>2
  <2>. HIDE DEF moved, next, plans
  <2>2. QED
    BY <1>3, <2>1 DEF Table
<1>7. ASSUME NEW n \in Names
      PROVE  /\ after[n] = Null <=> rows[n] = Null
             /\ rows[n] # Null =>
                  /\ after[n].id = rows[n].id
                  /\ after[n].def = rows[n].def
                  /\ after[n].intact = rows[n].intact
             /\ n \notin DOMAIN c.rows => after[n] = rows[n]
             /\ rows[n] # Null /\ rows[n].id # c.rows[n].id => after[n] = rows[n]
             /\ rows[n] = Null => after[n] = rows[n]
             /\ rows[n] # Null /\ rows[n].clock # Null => after[n].clock # Null
             /\ rows[n] # Null /\ n \in DOMAIN c.rows /\ rows[n].id = c.rows[n].id =>
                  /\ after[n].clock \in Nat
                  /\ after[n].clock >= c.rows[n].clock \/ after[n].clock > c.now + MaxSkew
  <2>1. CASE moved(n)
    <3>1. rows[n] # Null /\ n \in DOMAIN c.rows /\ rows[n].id = c.rows[n].id
      BY <1>1, <2>1
    <3>2. after[n] = next(n)
      BY <1>5, <2>1
    <3>3. /\ after[n] \in Row
          /\ after[n].id = rows[n].id /\ after[n].def = rows[n].def
          /\ after[n].intact = rows[n].intact
          /\ after[n].clock \in Nat
          /\ after[n].clock >= c.rows[n].clock \/ after[n].clock > c.now + MaxSkew
      BY <1>4, <2>1, <3>2
    <3>4. QED
      BY <3>1, <3>3, RowAssumption, NullAssumption
  <2>2. CASE ~moved(n)
    <3>1. after[n] = rows[n]
      BY <1>5, <2>2
    <3>2. ~(rows[n] # Null /\ n \in DOMAIN c.rows /\ rows[n].id = c.rows[n].id)
      BY <1>1, <2>2
    <3>3. QED
      BY <3>1, <3>2
  <2>3. QED
    BY <2>1, <2>2
<1>8. QED
  BY <1>6, <1>7 DEF after

\* What is recorded for a batch is of its rows, and no earlier than their clocks.
LEMMA RecordedFor ==
    ASSUME NEW c, IsBatch(c), NEW failing,
           NEW k \in toNewOccurrences(c, planOrDeferJobs(c, failing))
    PROVE  /\ k \in Occurrence
           /\ k.name \in DOMAIN c.rows
           /\ k.id = c.rows[k.name].id /\ k.def = c.rows[k.name].def
           /\ k.at >= c.rows[k.name].clock
<1>. DEFINE plans == planOrDeferJobs(c, failing)
<1>1. DOMAIN plans = DOMAIN c.rows
  BY DEF planOrDeferJobs
<1>2. \A n \in DOMAIN c.rows : plans[n] = planOrDeferJob(n, c.rows[n], c.now, failing)
  BY DEF planOrDeferJobs
<1>. HIDE DEF plans
<1>3. PICK n \in DOMAIN plans : \E t \in plans[n].occurrences :
        k = [name |-> n, id |-> c.rows[n].id, at |-> t, def |-> c.rows[n].def,
             status |-> "pending"]
  BY DEF toNewOccurrences, plans
<1>4. PICK t \in plans[n].occurrences :
        k = [name |-> n, id |-> c.rows[n].id, at |-> t, def |-> c.rows[n].def,
             status |-> "pending"]
  BY <1>3
<1>5. n \in DOMAIN c.rows /\ n \in Names /\ c.rows[n] \in Row /\ c.rows[n].clock # Null
      /\ c.now \in Nat
  BY <1>1 DEF IsBatch
<1>6. t \in Nat /\ t >= c.rows[n].clock
  BY <1>2, <1>5, PlanOrDefer
<1>7. QED
  BY <1>4, <1>5, <1>6 DEF Occurrence, Row

LEMMA InsertedTasks ==
    ASSUME NEW tasks, NEW rows, NEW k \in insertIgnoringDuplicates(tasks, rows)
    PROVE  k \in tasks \/ k \in rows
BY DEF insertIgnoringDuplicates

\* The ids of new rows are fresh, and one each.
LEMMA NewIdsFresh ==
    ASSUME NEW S, S \subseteq Names, lastId \in Nat
    PROVE  /\ Cardinality(S) \in Nat
           /\ \A n \in S : NewIds(S)[n] \in (lastId + 1)..(lastId + Cardinality(S))
           /\ \A n, k \in S : NewIds(S)[n] = NewIds(S)[k] => n = k
<1>1. IsFiniteSet(S) /\ Cardinality(S) \in Nat
  BY NamesAssumption, FS_Subset, FS_CardinalityType
<1>. DEFINE c == Cardinality(S)
            T == (lastId + 1)..(lastId + c)
<1>2. PICK f : f \in Bijection(1..c, S)
  BY <1>1, FS_CardinalityType DEF ExistsBijection
<1>3. Injection(S, T) # {}
  <2>1. /\ f \in [1..c -> S]
        /\ \A a, b \in 1..c : f[a] = f[b] => a = b
        /\ \A n \in S : \E a \in 1..c : f[a] = n
    BY <1>2 DEF Bijection, Injection, Surjection, IsInjective
  <2>. DEFINE g == [n \in S |-> lastId + (CHOOSE a \in 1..c : f[a] = n)]
  <2>2. \A n \in S : (CHOOSE a \in 1..c : f[a] = n) \in 1..c
                     /\ f[CHOOSE a \in 1..c : f[a] = n] = n
    BY <2>1
  <2>3. g \in [S -> T]
    BY <1>1, <2>2
  <2>4. \A x, y \in S : g[x] = g[y] => x = y
    BY <1>1, <2>2
  <2>5. g \in Injection(S, T)
    BY <2>3, <2>4 DEF Injection, IsInjective
  <2>6. QED
    BY <2>5
<1>4. NewIds(S) \in Injection(S, T)
  BY <1>3 DEF NewIds
<1>5. QED
  BY <1>1, <1>4 DEF Injection, IsInjective

-----------------------------------------------------------------------------
(* The invariant.                                                          *)

Has(m, step) == registration[m] # Null /\ registration[m].step = step

\* A row of n; a degenerate rule's has no clock.
Known(n, row) ==
    row \in Row /\ row.id <= lastId /\ (row.clock = Null <=> n \in Degenerate)

RowsKnown == \A n \in Names : Exists(n) => Known(n, job[n])

CollectedTypes ==
    \A m \in Mains : Has(m, "collected") \/ Has(m, "found") =>
        /\ DOMAIN registration[m].firstRun \subseteq Names
        /\ \A n \in DOMAIN registration[m].firstRun :
             registration[m].firstRun[n] \in IF n \in Degenerate THEN {Null} ELSE Nat

FoundTypes ==
    \A m \in Mains : Has(m, "found") =>
        /\ registration[m].existing \in Table
        /\ \A n \in Names : registration[m].existing[n] # Null =>
             Known(n, registration[m].existing[n])

WrittenTypes ==
    \A m \in Mains : Has(m, "written") =>
        /\ DOMAIN registration[m].rows \subseteq Names
        /\ \A n \in DOMAIN registration[m].rows :
             Known(n, registration[m].rows[n]) /\ registration[m].rows[n].intact
        /\ registration[m].removed \subseteq Names
        /\ registration[m].seed.now \in 0..now
        /\ DOMAIN registration[m].seed.rows \subseteq Names \ Degenerate
        /\ \A n \in DOMAIN registration[m].seed.rows : Known(n, registration[m].seed.rows[n])

\* A pass works on rows nobody else changes, on a time that has come.
PassesHold ==
    \A p \in Passes : pass[p] # Null =>
        /\ pass[p].now <= now
        /\ \A n \in DOMAIN pass[p].rows :
             /\ n \notin Degenerate
             /\ lock[n] = p /\ Exists(n) /\ job[n] = pass[p].rows[n]

\* A main holds the rows it has written, and no others.
MainsHold ==
    \A m \in Mains : Held(m) =
        IF Has(m, "written") THEN DOMAIN registration[m].rows \cup registration[m].removed
        ELSE {}

WrittenFits ==
    \A m \in Mains : Has(m, "written") =>
        /\ registration[m].removed
             \cap (DOMAIN registration[m].rows \cup DOMAIN registration[m].seed.rows) = {}
        /\ \A n \in registration[m].removed : Exists(n)
        /\ \A n \in DOMAIN registration[m].rows :
             Exists(n) => job[n].id = registration[m].rows[n].id
        /\ \A n \in DOMAIN registration[m].rows \cap DOMAIN registration[m].seed.rows :
             registration[m].seed.rows[n] = registration[m].rows[n]

TasksBelong == \A k \in task : Exists(k.name) /\ job[k.name].id = k.id

\* Nobody has found the row of n damaged, nor will redefine it.
Fresh(n) ==
    /\ job[n].intact
    /\ \A m \in Mains :
        /\ Has(m, "found") /\ registration[m].existing[n] # Null
             /\ registration[m].existing[n].id = job[n].id => registration[m].existing[n].intact
        /\ Has(m, "written") => n \notin DOMAIN registration[m].rows

\* A row that was inserted since a main looked for it is fresh ...
FreshFound ==
    \A m \in Mains : Has(m, "found") =>
        \A n \in DOMAIN registration[m].firstRun :
            registration[m].existing[n] = Null /\ Exists(n) => Fresh(n)

\* ... and so is one the main will seed although another inserted it.
FreshWritten ==
    \A m \in Mains : Has(m, "written") =>
        \A n \in DOMAIN registration[m].seed.rows \ DOMAIN registration[m].rows :
            Exists(n) /\ job[n].id = registration[m].seed.rows[n].id =>
                Fresh(n) /\ job[n].def = registration[m].seed.rows[n].def

\* The id of a row about to be inserted has been read by nobody.
ReservedUnseen ==
    \A m \in Mains : Has(m, "written") =>
        \A n \in DOMAIN registration[m].rows : ~Exists(n) =>
            \A i \in Mains :
                /\ Has(i, "found") /\ registration[i].existing[n] # Null =>
                     registration[i].existing[n].id # registration[m].rows[n].id
                /\ Has(i, "written") /\ n \in DOMAIN registration[i].seed.rows
                     /\ n \notin DOMAIN registration[i].rows =>
                     registration[i].seed.rows[n].id # registration[m].rows[n].id

RanKnown == \A x \in ran : x.name \in Names /\ x.at \in 0..(now + MaxSkew)

\* The job of x was removed while no registration was under way, and was not
\* registered again on a clock behind.
Retired(x) ==
    /\ Exists(x.name) => job[x.name].id # x.id
    /\ x.name \notin raced \cup behind

BeforeRow(x) ==
    Exists(x.name) /\ job[x.name].clock # Null => x.at < job[x.name].clock

BeforeTasks(x) == \A k \in task : k.name = x.name => x.at < k.at

BeforePasses(x) ==
    \A p \in Passes :
        pass[p] # Null /\ x.name \in DOMAIN pass[p].rows => x.at <= pass[p].now + MaxSkew

BeforeRegistrations(x) ==
    \A m \in Mains :
        /\ Has(m, "collected") \/ Has(m, "found") =>
             (x.name \in DOMAIN registration[m].firstRun \ Degenerate =>
                x.at < registration[m].firstRun[x.name])
        /\ Has(m, "written") =>
             /\ x.name \in DOMAIN registration[m].rows \ Degenerate =>
                  x.at < registration[m].rows[x.name].clock
             /\ x.name \in DOMAIN registration[m].seed.rows =>
                  /\ x.at < registration[m].seed.rows[x.name].clock
                  /\ x.at <= registration[m].seed.now + MaxSkew

\* All that may still be started under its name comes later.
RetiredBefore ==
    \A x \in ran : Retired(x) =>
        BeforeRow(x) /\ BeforeTasks(x) /\ BeforePasses(x) /\ BeforeRegistrations(x)

JobInv ==
    /\ TypeOK
    /\ RowsKnown
    /\ CollectedTypes
    /\ FoundTypes
    /\ WrittenTypes
    /\ PassesHold
    /\ MainsHold
    /\ WrittenFits
    /\ TasksBelong
    /\ PendingIsCurrent
    /\ FreshFound
    /\ FreshWritten
    /\ ReservedUnseen
    /\ RanKnown
    /\ RetiredBefore
    /\ NoDoubleFire

-----------------------------------------------------------------------------
LEMMA Types ==
    ASSUME TypeOK
    PROVE  /\ now \in Nat /\ now \in 0..MaxNow /\ lastId \in Nat /\ lastId \in 0..MaxJobs
           /\ job \in Table /\ task \subseteq Occurrence
           /\ DOMAIN job = Names /\ DOMAIN lock = Names
           /\ DOMAIN registration = Mains /\ DOMAIN pass = Passes
           /\ \A p \in Passes : pass[p] # Null => IsClaim(pass[p]) /\ pass[p].now \in Nat
           /\ \A n \in Names : Exists(n) => job[n] \in Row
BY ConstantTypes DEF TypeOK, JobStoreTypeOK, MaterializerTypeOK, ProvisionerTypeOK, Table, IsClaim, Exists

LEMMA JobInitial == Init => JobInv
<1>. SUFFICES ASSUME Init PROVE JobInv
  OBVIOUS
<1>1. /\ now = 0 /\ task = {} /\ ran = {} /\ lastId = 0 /\ faults = 0 /\ begun = 0 /\ raced = {}
      /\ behind = {}
      /\ job = [n \in Names |-> Null] /\ lock = [n \in Names |-> Null]
      /\ pass = [p \in Passes |-> Null] /\ registration = [m \in Mains |-> Null]
  BY DEF Init, JobStoreInit, MaterializerInit, ProvisionerInit
<1>2. TypeOK
  BY <1>1, ConstantTypes DEF TypeOK, JobStoreTypeOK, MaterializerTypeOK, ProvisionerTypeOK
<1>3. \A n \in Names : ~Exists(n) /\ lock[n] = Null
  BY <1>1 DEF Exists
<1>4. \A m \in Mains : registration[m] = Null
  BY <1>1
<1>5. \A m \in Mains : Held(m) = {}
  BY <1>3, HoldersAssumption DEF Held
<1>6. RowsKnown /\ TasksBelong /\ PendingIsCurrent /\ RanKnown /\ RetiredBefore /\ NoDoubleFire
  BY <1>1, <1>3 DEF RowsKnown, TasksBelong, PendingIsCurrent, RanKnown, RetiredBefore, NoDoubleFire
<1>7. CollectedTypes /\ FoundTypes /\ WrittenTypes /\ MainsHold /\ WrittenFits
  BY <1>4, <1>5 DEF CollectedTypes, FoundTypes, WrittenTypes, MainsHold, WrittenFits, Has
<1>8. FreshFound /\ FreshWritten /\ ReservedUnseen /\ PassesHold
  BY <1>1, <1>4 DEF FreshFound, FreshWritten, ReservedUnseen, PassesHold, Has
<1>9. QED
  BY <1>2, <1>6, <1>7, <1>8 DEF JobInv

\* Locks taken and released by one holder are nothing to another.
LEMMA LocksOf ==
    ASSUME TypeOK, NEW who \in Passes \cup Mains, NEW S
    PROVE  /\ Unlock(who) => /\ \A n \in Names : lock[n] # who => lock'[n] = lock[n]
                             /\ \A m \in Mains : Held(m)' = IF m = who THEN {} ELSE Held(m)
           /\ Lock(S, who) /\ S \subseteq Names /\ Free(S, who) =>
                /\ \A n \in Names \ S : lock'[n] = lock[n]
                /\ \A n \in S : lock'[n] = who
                /\ \A p \in (Passes \cup Mains) \ {who} : \A n \in Names : lock[n] = p => lock'[n] = p
                /\ \A m \in Mains : Held(m)' = IF m = who THEN Held(m) \cup S ELSE Held(m)
<1>1. ASSUME Unlock(who)
      PROVE  /\ \A n \in Names : lock[n] # who => lock'[n] = lock[n]
             /\ \A m \in Mains : Held(m)' = IF m = who THEN {} ELSE Held(m)
  BY <1>1, HoldersAssumption DEF Unlock, Held
<1>2. ASSUME Lock(S, who), S \subseteq Names, Free(S, who)
      PROVE  /\ \A n \in Names \ S : lock'[n] = lock[n]
             /\ \A n \in S : lock'[n] = who
             /\ \A p \in (Passes \cup Mains) \ {who} : \A n \in Names : lock[n] = p => lock'[n] = p
             /\ \A m \in Mains : Held(m)' = IF m = who THEN Held(m) \cup S ELSE Held(m)
  BY <1>2, HoldersAssumption DEF Lock, Free, Held
<1>3. QED
  BY <1>1, <1>2

\* A pass that begins or is given up, and the passing of time, touch nothing
\* but passes, their locks and the clock.
LEMMA QuietStep ==
    ASSUME JobInv, TypeOK', PassesHold', now' >= now, now' \in Nat,
           UNCHANGED <<job, task, lastId, registration, raced, ran, behind>>,
           \A m \in Mains : Held(m)' = Held(m),
           \A x \in ran : Retired(x) => BeforePasses(x)'
    PROVE  JobInv'
<1>1. now \in Nat
  BY Types DEF JobInv
<1>2. RowsKnown' /\ CollectedTypes' /\ FoundTypes'
  BY DEF JobInv, RowsKnown, CollectedTypes, FoundTypes, Known, Exists, Has
<1>3. WrittenTypes'
  BY <1>1 DEF JobInv, WrittenTypes, Known, Has
<1>4. MainsHold' /\ WrittenFits'
  BY DEF JobInv, MainsHold, WrittenFits, Has, Exists
<1>5. TasksBelong' /\ PendingIsCurrent' /\ NoDoubleFire'
  BY DEF JobInv, TasksBelong, PendingIsCurrent, NoDoubleFire, Exists
<1>6. FreshFound' /\ FreshWritten' /\ ReservedUnseen'
  BY DEF JobInv, FreshFound, FreshWritten, ReservedUnseen, Fresh, Has, Exists
<1>7. RanKnown'
  BY <1>1, ConstantTypes DEF JobInv, RanKnown
<1>8. RetiredBefore'
  BY DEF JobInv, RetiredBefore, Retired, BeforeRow, BeforeTasks, BeforeRegistrations, Has, Exists
<1>9. QED
  BY <1>2, <1>3, <1>4, <1>5, <1>6, <1>7, <1>8 DEF JobInv

LEMMA TickKeeps ==
    ASSUME JobInv, Tick
    PROVE  JobInv'
<1>1. now \in Nat /\ now' = now + 1 /\ now < MaxNow
  BY Types DEF JobInv, Tick
<1>2. UNCHANGED <<job, task, lock, lastId, faults, pass, registration, begun, raced, ran, behind>>
  BY DEF Tick
<1>3. TypeOK'
  BY <1>1, <1>2, ConstantTypes DEF JobInv, TypeOK, JobStoreTypeOK, MaterializerTypeOK, ProvisionerTypeOK
<1>4. PassesHold'
  <2>1. \A p \in Passes : pass[p] # Null => pass[p].now \in Nat
    BY Types DEF JobInv
  <2>2. QED
    BY <1>1, <1>2, <2>1 DEF JobInv, PassesHold, Exists
<1>5. \A m \in Mains : Held(m)' = Held(m)
  BY <1>2 DEF Held
<1>6. \A x \in ran : Retired(x) => BeforePasses(x)'
  BY <1>2 DEF JobInv, RetiredBefore, BeforePasses
<1>7. QED
  BY <1>1, <1>2, <1>3, <1>4, <1>5, <1>6, QuietStep

LEMMA ClaimKeeps ==
    ASSUME JobInv, NEW p \in Passes, ClaimDueJobs(p),
           UNCHANGED <<registration, begun, raced, ran, behind>>
    PROVE  JobInv'
<1>1. PICK S \in ClaimBatches :
        /\ pass' = [pass EXCEPT ![p] = [now |-> now, rows |-> [n \in S |-> job[n]]]]
        /\ Lock(S, p)
  BY DEF ClaimDueJobs
<1>2. S \subseteq Names /\ \A n \in S : Exists(n) /\ lock[n] = Null /\ n \notin Degenerate
  BY DEF ClaimBatches, Claimable, Due, JobInv, RowsKnown, Known
<1>3. UNCHANGED <<now, job, task, lastId, faults>> /\ pass[p] = Null
  BY DEF ClaimDueJobs
<1>4. now \in 0..MaxNow /\ DOMAIN pass = Passes /\ DOMAIN lock = Names /\ job \in Table
  BY Types DEF JobInv
<1>5. /\ pass'[p] = [now |-> now, rows |-> [n \in S |-> job[n]]]
      /\ \A q \in Passes \ {p} : pass'[q] = pass[q]
      /\ DOMAIN pass' = Passes
  BY <1>1, <1>4
<1>6. /\ \A n \in Names \ S : lock'[n] = lock[n]
      /\ \A n \in S : lock'[n] = p
      /\ \A q \in (Passes \cup Mains) \ {p} : \A n \in Names : lock[n] = q => lock'[n] = q
      /\ \A m \in Mains : Held(m)' = IF m = p THEN Held(m) \cup S ELSE Held(m)
  BY <1>1, <1>2, LocksOf DEF JobInv, Free
<1>7. \A m \in Mains : Held(m)' = Held(m)
  BY <1>6, HoldersAssumption
<1>8. TypeOK'
  <2>1. IsClaim([now |-> now, rows |-> [n \in S |-> job[n]]])
    BY <1>2, <1>4 DEF IsClaim, Table, Exists
  <2>2. MaterializerTypeOK'
    BY <1>3, <1>5, <2>1 DEF JobInv, TypeOK, MaterializerTypeOK, IsClaim
  <2>3. lock' \in [Names -> Passes \cup Mains \cup {Null}]
    BY <1>1 DEF JobInv, TypeOK, JobStoreTypeOK, Lock
  <2>4. QED
    BY <1>3, <2>2, <2>3 DEF JobInv, TypeOK, JobStoreTypeOK, ProvisionerTypeOK
<1>9. PassesHold'
  <2>1. ASSUME NEW q \in Passes, pass'[q] # Null
        PROVE  /\ pass'[q].now <= now
               /\ \A n \in DOMAIN pass'[q].rows :
                    n \notin Degenerate /\ lock'[n] = q /\ Exists(n) /\ job[n] = pass'[q].rows[n]
    <3>1. CASE q = p
      BY <1>2, <1>4, <1>5, <1>6, <3>1
    <3>2. CASE q # p
      <4>1. pass'[q] = pass[q] /\ DOMAIN pass[q].rows \subseteq Names
        BY <1>5, <2>1, <3>2, Types DEF JobInv, IsClaim
      <4>2. QED
        BY <1>6, <2>1, <3>2, <4>1 DEF JobInv, PassesHold
    <3>3. QED
      BY <3>1, <3>2
  <2>2. QED
    BY <1>3, <2>1 DEF PassesHold, Exists
<1>10. \A x \in ran : Retired(x) => BeforePasses(x)'
  BY <1>3, <1>5 DEF JobInv, RetiredBefore, BeforePasses, RanKnown
<1>11. QED
  BY <1>3, <1>4, <1>7, <1>8, <1>9, <1>10, QuietStep

LEMMA AbandonPassKeeps ==
    ASSUME JobInv, NEW p \in Passes, AbandonPass(p),
           UNCHANGED <<registration, begun, raced, ran, behind>>
    PROVE  JobInv'
<1>1. /\ pass' = [pass EXCEPT ![p] = Null] /\ Unlock(p)
      /\ UNCHANGED <<now, job, task, lastId>>
      /\ faults < MaxFaults /\ faults' = faults + 1
  BY DEF AbandonPass, Fault
<1>2. now \in Nat /\ DOMAIN pass = Passes
  BY Types DEF JobInv
<1>3. /\ pass'[p] = Null /\ DOMAIN pass' = Passes
      /\ \A q \in Passes \ {p} : pass'[q] = pass[q]
  BY <1>1, <1>2
<1>4. /\ \A n \in Names : lock[n] # p => lock'[n] = lock[n]
      /\ \A m \in Mains : Held(m)' = IF m = p THEN {} ELSE Held(m)
  BY <1>1, LocksOf DEF JobInv
<1>5. \A m \in Mains : Held(m)' = Held(m)
  BY <1>4, HoldersAssumption
<1>6. TypeOK'
  <2>1. MaterializerTypeOK'
    BY <1>1, <1>3 DEF JobInv, TypeOK, MaterializerTypeOK, IsClaim
  <2>2. lock' \in [Names -> Passes \cup Mains \cup {Null}]
    BY <1>1 DEF JobInv, TypeOK, JobStoreTypeOK, Unlock
  <2>3. QED
    BY <1>1, <2>1, <2>2, ConstantTypes DEF JobInv, TypeOK, JobStoreTypeOK, ProvisionerTypeOK
<1>7. PassesHold'
  <2>1. \A q \in Passes : pass[q] # Null => DOMAIN pass[q].rows \subseteq Names
    BY Types DEF JobInv, IsClaim
  <2>2. QED
    BY <1>1, <1>3, <1>4, <2>1 DEF JobInv, PassesHold, Exists
<1>8. \A x \in ran : Retired(x) => BeforePasses(x)'
  BY <1>3 DEF JobInv, RetiredBefore, BeforePasses
<1>9. QED
  BY <1>1, <1>2, <1>5, <1>6, <1>7, <1>8, QuietStep

-----------------------------------------------------------------------------
LEMMA RecordKeeps ==
    ASSUME JobInv, NEW p \in Passes, RecordAndAdvance(p),
           UNCHANGED <<registration, begun, raced, ran, behind>>
    PROVE  JobInv'
<1>1. PICK failing \in SUBSET DOMAIN pass[p].rows :
        /\ IF failing = {} THEN UNCHANGED faults ELSE Fault
        /\ task' = insertIgnoringDuplicates(task,
                     toNewOccurrences(pass[p], planOrDeferJobs(pass[p], failing)))
        /\ job' = advanceMany(job, pass[p], planOrDeferJobs(pass[p], failing), failing)
  BY DEF RecordAndAdvance
<1>2. /\ pass[p] # Null /\ pass' = [pass EXCEPT ![p] = Null] /\ Unlock(p)
      /\ UNCHANGED <<now, lastId>>
  BY DEF RecordAndAdvance
<1>3. /\ now \in Nat /\ DOMAIN pass = Passes /\ job \in Table /\ task \subseteq Occurrence
      /\ \A n \in Names : Exists(n) => job[n] \in Row
      /\ \A q \in Passes : pass[q] # Null => IsClaim(pass[q]) /\ pass[q].now \in Nat
  BY Types DEF JobInv
<1>4. /\ pass'[p] = Null /\ DOMAIN pass' = Passes
      /\ \A q \in Passes \ {p} : pass'[q] = pass[q]
  BY <1>2, <1>3
<1>5. PICK c : c = pass[p]
  OBVIOUS
<1>6. /\ c.now \in Nat /\ c.now <= now /\ DOMAIN c.rows \subseteq Names
      /\ \A n \in DOMAIN c.rows : n \notin Degenerate /\ lock[n] = p /\ Exists(n) /\ job[n] = c.rows[n]
  BY <1>2, <1>3, <1>5 DEF JobInv, PassesHold, IsClaim
<1>7. IsBatch(c)
  BY <1>6 DEF IsBatch, JobInv, RowsKnown, Known
<1>8. /\ job' \in Table
      /\ \A n \in Names :
           /\ job'[n] = Null <=> job[n] = Null
           /\ job[n] # Null =>
                /\ job'[n].id = job[n].id
                /\ job'[n].def = job[n].def
                /\ job'[n].intact = job[n].intact
           /\ n \notin DOMAIN c.rows => job'[n] = job[n]
           /\ job[n] # Null /\ job[n].clock # Null => job'[n].clock # Null
           /\ job[n] # Null /\ n \in DOMAIN c.rows /\ job[n].id = c.rows[n].id =>
                /\ job'[n].clock \in Nat
                /\ job'[n].clock >= c.rows[n].clock \/ job'[n].clock > c.now + MaxSkew
  BY <1>1, <1>3, <1>5, <1>7, AdvanceKeeps
<1>9. ASSUME NEW k \in task', k \notin task
      PROVE  /\ k \in Occurrence /\ k.name \in DOMAIN c.rows
             /\ k.id = job[k.name].id /\ k.def = job[k.name].def
             /\ k.at >= job[k.name].clock
  <2>1. k \in toNewOccurrences(c, planOrDeferJobs(c, failing))
    BY <1>1, <1>5, <1>9, InsertedTasks
  <2>2. /\ k \in Occurrence
        /\ k.name \in DOMAIN c.rows
        /\ k.id = c.rows[k.name].id /\ k.def = c.rows[k.name].def
        /\ k.at >= c.rows[k.name].clock
    BY <1>7, <2>1, RecordedFor
  <2>3. QED
    BY <1>6, <2>2
<1>10. /\ \A n \in Names : lock[n] # p => lock'[n] = lock[n]
       /\ \A m \in Mains : Held(m)' = Held(m)
  <2>1. /\ \A n \in Names : lock[n] # p => lock'[n] = lock[n]
        /\ \A m \in Mains : Held(m)' = IF m = p THEN {} ELSE Held(m)
    BY <1>2, LocksOf DEF JobInv
  <2>2. QED
    BY <2>1, HoldersAssumption
<1>11. TypeOK'
  <2>1. MaterializerTypeOK'
    BY <1>2, <1>4 DEF JobInv, TypeOK, MaterializerTypeOK, IsClaim
  <2>2. lock' \in [Names -> Passes \cup Mains \cup {Null}]
    BY <1>2 DEF JobInv, TypeOK, JobStoreTypeOK, Unlock
  <2>3. task' \subseteq Occurrence
    BY <1>3, <1>9
  <2>4. faults' \in 0..MaxFaults
    BY <1>1, ConstantTypes DEF JobInv, TypeOK, JobStoreTypeOK, Fault
  <2>5. QED
    BY <1>2, <1>8, <2>1, <2>2, <2>3, <2>4
       DEF JobInv, TypeOK, JobStoreTypeOK, ProvisionerTypeOK, Table
<1>12. \A n \in Names : Exists(n)' <=> Exists(n)
  BY <1>8 DEF Exists
<1>13. RowsKnown'
  <2>1. \A n \in Names : Exists(n)' => job'[n] \in Row
    BY <1>8 DEF Table, Exists
  <2>2. \A n \in Names : Exists(n) => (job'[n].clock = Null <=> n \in Degenerate)
    BY <1>6, <1>8, NullAssumption DEF JobInv, RowsKnown, Known, Exists
  <2>3. QED
    BY <1>2, <1>8, <1>12, <2>1, <2>2 DEF JobInv, RowsKnown, Known, Exists
<1>14. CollectedTypes' /\ FoundTypes' /\ WrittenTypes'
  BY <1>2 DEF JobInv, CollectedTypes, FoundTypes, WrittenTypes, Known, Has
<1>15. PassesHold'
  <2>1. SUFFICES ASSUME NEW q \in Passes, pass'[q] # Null
                 PROVE  /\ pass'[q].now <= now'
                        /\ \A n \in DOMAIN pass'[q].rows :
                             n \notin Degenerate /\ lock'[n] = q /\ Exists(n)' /\ job'[n] = pass'[q].rows[n]
    BY DEF PassesHold
  <2>2. q # p /\ pass'[q] = pass[q] /\ pass[q].now <= now /\ DOMAIN pass[q].rows \subseteq Names
        /\ \A n \in DOMAIN pass[q].rows :
             n \notin Degenerate /\ lock[n] = q /\ Exists(n) /\ job[n] = pass[q].rows[n]
    BY <1>3, <1>4, <2>1 DEF JobInv, PassesHold, IsClaim
  <2>3. QED
    BY <1>2, <1>6, <1>8, <1>10, <1>12, <2>2
<1>16. MainsHold'
  BY <1>10 DEF JobInv, MainsHold, Has
<1>17. WrittenFits'
  BY <1>8, <1>12 DEF JobInv, WrittenFits, WrittenTypes, Has, Exists
<1>18. ASSUME NEW k \in task'
       PROVE  /\ Exists(k.name) /\ job[k.name].id = k.id /\ k.name \in Names
              /\ k.status = "pending" => job[k.name].def = k.def
  <2>1. CASE k \in task
    BY <1>3, <2>1 DEF JobInv, TasksBelong, PendingIsCurrent, Occurrence
  <2>2. CASE k \notin task
    BY <1>6, <1>9, <2>2
  <2>3. QED
    BY <2>1, <2>2
<1>19. TasksBelong' /\ PendingIsCurrent'
  BY <1>8, <1>12, <1>18 DEF TasksBelong, PendingIsCurrent, Exists
<1>20. \A n \in Names : Exists(n) /\ Fresh(n) => Fresh(n)'
  BY <1>8 DEF Fresh, Has, Exists
<1>21. FreshFound'
  BY <1>12, <1>20 DEF JobInv, FreshFound, CollectedTypes, Has
<1>22. FreshWritten'
  BY <1>8, <1>12, <1>20 DEF JobInv, FreshWritten, WrittenTypes, Has, Exists
<1>23. ReservedUnseen'
  BY <1>12 DEF JobInv, ReservedUnseen, WrittenTypes, Has
<1>24. RanKnown' /\ NoDoubleFire'
  BY <1>2 DEF JobInv, RanKnown, NoDoubleFire
<1>25. RetiredBefore'
  <2>1. SUFFICES ASSUME NEW x \in ran, Retired(x)'
                 PROVE  (BeforeRow(x) /\ BeforeTasks(x) /\ BeforePasses(x) /\ BeforeRegistrations(x))'
    BY DEF RetiredBefore
  <2>2. x.name \in Names /\ x.at \in Nat
    BY <1>3 DEF JobInv, RanKnown
  <2>3. Retired(x)
    BY <1>8, <1>12, <2>1, <2>2 DEF Retired, Exists
  <2>4. BeforeRow(x) /\ BeforeTasks(x) /\ BeforePasses(x) /\ BeforeRegistrations(x)
    BY <2>3 DEF JobInv, RetiredBefore
  <2>5. BeforeRow(x)'
    <3>1. SUFFICES ASSUME Exists(x.name), job'[x.name].clock # Null
                   PROVE  x.at < job'[x.name].clock
      BY <1>12, <2>2 DEF BeforeRow
    <3>0. job[x.name].clock # Null
      BY <1>6, <1>8, <2>2, <3>1 DEF JobInv, RowsKnown, Known, Exists
    <3>2. x.at < job[x.name].clock /\ job[x.name] \in Row /\ job[x.name].clock # Null
      BY <2>2, <2>4, <3>0, <3>1 DEF BeforeRow, JobInv, RowsKnown, Known
    <3>3. CASE x.name \in DOMAIN c.rows
      <4>1. x.at <= c.now + MaxSkew
        BY <1>2, <1>5, <2>4, <3>3 DEF BeforePasses
      <4>2. /\ job'[x.name].clock \in Nat
            /\ job'[x.name].clock >= job[x.name].clock \/ job'[x.name].clock > c.now + MaxSkew
        BY <1>6, <1>8, <2>2, <3>1, <3>3 DEF Exists
      <4>3. job[x.name].clock \in Nat
        BY <3>2 DEF Row
      <4>4. QED
        BY <1>6, <2>2, <3>2, <4>1, <4>2, <4>3, ConstantTypes
    <3>4. CASE x.name \notin DOMAIN c.rows
      BY <1>8, <2>2, <3>2, <3>4
    <3>5. QED
      BY <3>3, <3>4
  <2>6. BeforeTasks(x)'
    <3>1. SUFFICES ASSUME NEW k \in task', k.name = x.name PROVE x.at < k.at
      BY DEF BeforeTasks
    <3>2. CASE k \in task
      BY <2>4, <3>1, <3>2 DEF BeforeTasks
    <3>3. CASE k \notin task
      <4>1. k \in Occurrence /\ k.name \in DOMAIN c.rows /\ k.at >= job[k.name].clock
        BY <1>9, <3>3
      <4>2. x.at < job[k.name].clock /\ job[k.name] \in Row /\ job[k.name].clock # Null
        BY <1>6, <2>2, <2>4, <3>1, <4>1 DEF BeforeRow, JobInv, RowsKnown, Known
      <4>3. QED
        BY <2>2, <4>1, <4>2 DEF Occurrence, Row
    <3>4. QED
      BY <3>2, <3>3
  <2>7. BeforePasses(x)'
    BY <1>4, <2>4 DEF BeforePasses
  <2>8. BeforeRegistrations(x)'
    BY <2>4 DEF BeforeRegistrations, Has
  <2>9. QED
    BY <2>5, <2>6, <2>7, <2>8
<1>26. QED
  BY <1>11, <1>13, <1>14, <1>15, <1>16, <1>17, <1>19, <1>21, <1>22, <1>23, <1>24, <1>25 DEF JobInv

LEMMA StartKeeps ==
    ASSUME JobInv, NEW k \in task, Start(k)
    PROVE  JobInv'
<1>. DEFINE started == [k EXCEPT !.status = "started"]
            mark == [name |-> k.name, id |-> k.id, at |-> k.at]
<1>1. /\ k.status = "pending" /\ k.at <= now + MaxSkew
      /\ task' = (task \ {k}) \cup {started}
      /\ ran' = ran \cup {mark}
      /\ UNCHANGED <<now, job, lock, lastId, faults, pass, registration, begun, raced, behind>>
  BY DEF Start
<1>2. now \in Nat /\ k \in Occurrence /\ task \subseteq Occurrence
      /\ \A n \in Names : Exists(n) => job[n] \in Row
  BY Types DEF JobInv
<1>3. /\ started \in Occurrence /\ started.name = k.name /\ started.id = k.id
      /\ started.at = k.at /\ started.status = "started"
      /\ k.name \in Names /\ k.at \in Nat
  BY <1>2 DEF Occurrence
<1>. HIDE DEF started
<1>4. Exists(k.name) /\ job[k.name].id = k.id
  BY DEF JobInv, TasksBelong
<1>5. mark.name = k.name /\ mark.id = k.id /\ mark.at = k.at
  OBVIOUS
<1>. HIDE DEF mark
<1>6. TypeOK'
  BY <1>1, <1>2, <1>3
     DEF JobInv, TypeOK, JobStoreTypeOK, MaterializerTypeOK, ProvisionerTypeOK, IsClaim
<1>7. RowsKnown' /\ CollectedTypes' /\ FoundTypes' /\ WrittenTypes'
  BY <1>1 DEF JobInv, RowsKnown, CollectedTypes, FoundTypes, WrittenTypes, Known, Exists, Has
<1>8. PassesHold' /\ MainsHold' /\ WrittenFits'
  <2>1. \A m \in Mains : Held(m)' = Held(m)
    BY <1>1 DEF Held
  <2>2. QED
    BY <1>1, <2>1 DEF JobInv, PassesHold, MainsHold, WrittenFits, Exists, Has
<1>9. TasksBelong' /\ PendingIsCurrent'
  BY <1>1, <1>3, <1>4 DEF JobInv, TasksBelong, PendingIsCurrent, Exists
<1>10. FreshFound' /\ FreshWritten' /\ ReservedUnseen'
  BY <1>1 DEF JobInv, FreshFound, FreshWritten, ReservedUnseen, Fresh, Has, Exists
<1>11. RanKnown'
  BY <1>1, <1>2, <1>3, <1>5, ConstantTypes DEF JobInv, RanKnown
<1>12. RetiredBefore'
  <2>1. SUFFICES ASSUME NEW x \in ran', Retired(x)'
                 PROVE  (BeforeRow(x) /\ BeforeTasks(x) /\ BeforePasses(x) /\ BeforeRegistrations(x))'
    BY DEF RetiredBefore
  <2>2. Retired(x)
    BY <1>1, <2>1 DEF Retired, Exists
  <2>3. x \in ran
    BY <1>1, <1>4, <1>5, <2>2 DEF Retired
  <2>4. BeforeRow(x) /\ BeforeTasks(x) /\ BeforePasses(x) /\ BeforeRegistrations(x)
    BY <2>2, <2>3 DEF JobInv, RetiredBefore
  <2>5. BeforeTasks(x)'
    BY <1>1, <1>3, <2>4 DEF BeforeTasks
  <2>6. QED
    BY <1>1, <2>4, <2>5 DEF BeforeRow, BeforePasses, BeforeRegistrations, Exists, Has
<1>13. NoDoubleFire'
  <2>1. ASSUME NEW x \in ran, x.name = k.name, x.at = k.at, x.name \notin raced \cup behind
        PROVE  x.id = k.id
    <3>1. SUFFICES ASSUME x.id # k.id PROVE FALSE
      OBVIOUS
    <3>2. Retired(x)
      BY <1>4, <2>1, <3>1 DEF Retired
    <3>3. x.at < k.at
      BY <2>1, <3>2 DEF JobInv, RetiredBefore, BeforeTasks
    <3>4. QED
      BY <1>3, <2>1, <3>3
  <2>2. QED
    BY <1>1, <1>5, <2>1 DEF JobInv, NoDoubleFire
<1>14. QED
  BY <1>6, <1>7, <1>8, <1>9, <1>10, <1>11, <1>12, <1>13 DEF JobInv

LEMMA CorruptKeeps ==
    ASSUME JobInv, NEW d \in Names, Corrupt(d)
    PROVE  JobInv'
<1>1. /\ Exists(d) /\ lock[d] = Null /\ Registering = {}
      /\ job' = [job EXCEPT ![d].intact = FALSE]
      /\ faults < MaxFaults /\ faults' = faults + 1
      /\ UNCHANGED <<now, task, lock, lastId, pass, registration, begun, raced, ran, behind>>
  BY DEF Corrupt, Fault
<1>2. /\ job \in Table /\ DOMAIN job = Names /\ task \subseteq Occurrence /\ now \in Nat
      /\ job[d] \in Row
      /\ \A q \in Passes : pass[q] # Null => IsClaim(pass[q])
  BY <1>1, Types DEF JobInv
<1>3. /\ job'[d] = [job[d] EXCEPT !.intact = FALSE]
      /\ \A n \in Names \ {d} : job'[n] = job[n]
  BY <1>1, <1>2
<1>4. /\ job'[d] \in Row /\ job'[d].id = job[d].id /\ job'[d].def = job[d].def
      /\ job'[d].clock = job[d].clock
  BY <1>2, <1>3 DEF Row
<1>5. \A n \in Names : Exists(n)' <=> Exists(n)
  BY <1>1, <1>3, <1>4, RowAssumption DEF Exists
<1>6. \A m \in Mains : registration[m] = Null /\ registration'[m] = Null
  BY <1>1 DEF Registering
<1>7. job' \in Table
  BY <1>1, <1>2, <1>4 DEF Table
<1>8. TypeOK'
  BY <1>1, <1>7, ConstantTypes
     DEF JobInv, TypeOK, JobStoreTypeOK, MaterializerTypeOK, ProvisionerTypeOK, Table, IsClaim
<1>9. RowsKnown'
  BY <1>1, <1>3, <1>4, <1>5 DEF JobInv, RowsKnown, Known
<1>10. CollectedTypes' /\ FoundTypes' /\ WrittenTypes' /\ WrittenFits'
  BY <1>6 DEF CollectedTypes, FoundTypes, WrittenTypes, WrittenFits, Has
<1>11. FreshFound' /\ FreshWritten' /\ ReservedUnseen'
  BY <1>6 DEF FreshFound, FreshWritten, ReservedUnseen, Has
<1>12. MainsHold'
  BY <1>1 DEF JobInv, MainsHold, Held, Has
<1>13. PassesHold'
  <2>1. \A p \in Passes : pass[p] # Null => \A n \in DOMAIN pass[p].rows : n \in Names /\ n # d
    BY <1>1, <1>2, HoldersAssumption DEF JobInv, PassesHold, IsClaim
  <2>2. QED
    BY <1>1, <1>3, <1>5, <2>1 DEF JobInv, PassesHold
<1>14. TasksBelong' /\ PendingIsCurrent'
  <2>1. \A k \in task : k.name \in Names
    BY <1>2 DEF Occurrence
  <2>2. QED
    BY <1>1, <1>3, <1>4, <1>5, <2>1 DEF JobInv, TasksBelong, PendingIsCurrent
<1>15. RanKnown' /\ NoDoubleFire'
  BY <1>1 DEF JobInv, RanKnown, NoDoubleFire
<1>16. RetiredBefore'
  <2>1. SUFFICES ASSUME NEW x \in ran, Retired(x)'
                 PROVE  (BeforeRow(x) /\ BeforeTasks(x) /\ BeforePasses(x) /\ BeforeRegistrations(x))'
    BY <1>1 DEF RetiredBefore
  <2>2. x.name \in Names
    BY DEF JobInv, RanKnown
  <2>3. Retired(x)
    BY <1>1, <1>3, <1>4, <1>5, <2>1, <2>2 DEF Retired
  <2>4. BeforeRow(x) /\ BeforeTasks(x) /\ BeforePasses(x) /\ BeforeRegistrations(x)
    BY <2>3 DEF JobInv, RetiredBefore
  <2>5. BeforeRow(x)'
    BY <1>3, <1>4, <1>5, <2>2, <2>4 DEF BeforeRow
  <2>6. QED
    BY <1>1, <2>4, <2>5 DEF BeforeTasks, BeforePasses, BeforeRegistrations, Has
<1>17. QED
  BY <1>8, <1>9, <1>10, <1>11, <1>12, <1>13, <1>14, <1>15, <1>16 DEF JobInv

LEMMA RemoveKeeps ==
    ASSUME JobInv, RemoveWorkflow, UNCHANGED <<ran, behind>>
    PROVE  JobInv'
<1>. DEFINE S == {n \in Names : Exists(n)}
<1>1. /\ \A n \in S : lock[n] = Null
      /\ job' = [n \in Names |-> Null]
      /\ task' = Cascade(task, IdsOf(S))
      /\ raced' = raced \cup (IF Registering = {} THEN {} ELSE S)
      /\ UNCHANGED <<now, lock, lastId, faults, pass, registration, begun, ran, behind>>
  <2>1. /\ \A n \in S : lock[n] = Null
        /\ job' = [n \in Names |-> Null]
        /\ task' = Cascade(task, IdsOf(S))
        /\ raced' = raced \cup (IF Registering \ {Null} = {} THEN {} ELSE S)
        /\ UNCHANGED <<now, lock, lastId, faults, pass, registration, begun, ran, behind>>
    BY DEF RemoveWorkflow, Race
  <2>2. Registering \ {Null} = Registering
    BY HoldersAssumption DEF Registering
  <2>3. QED
    BY <2>1, <2>2
<1>2. /\ task \subseteq Occurrence /\ now \in Nat
      /\ \A q \in Passes : pass[q] # Null => IsClaim(pass[q])
  BY Types DEF JobInv
<1>3. \A n \in Names : ~Exists(n)'
  BY <1>1 DEF Exists
<1>4. task' = {}
  <2>1. \A k \in task : k.id \in IdsOf(S)
    BY <1>2 DEF JobInv, TasksBelong, IdsOf, Occurrence
  <2>2. QED
    BY <1>1, <2>1 DEF Cascade
<1>5. TypeOK'
  <2>1. raced' \subseteq Names
    BY <1>1 DEF JobInv, TypeOK, ProvisionerTypeOK
  <2>2. QED
    BY <1>1, <1>4, <2>1
       DEF JobInv, TypeOK, JobStoreTypeOK, MaterializerTypeOK, ProvisionerTypeOK, IsClaim
<1>6. \A n \in Names : Exists(n) => lock[n] \notin Passes \cup Mains
  BY <1>1, HoldersAssumption
<1>7. \A p \in Passes : pass[p] # Null => DOMAIN pass[p].rows = {}
  BY <1>2, <1>6 DEF JobInv, PassesHold, IsClaim
<1>8. \A m \in Mains : \A n \in Held(m) : ~Exists(n)
  BY <1>6 DEF Held
<1>9. RowsKnown' /\ CollectedTypes' /\ FoundTypes' /\ WrittenTypes'
  BY <1>1, <1>3 DEF JobInv, RowsKnown, CollectedTypes, FoundTypes, WrittenTypes, Known, Has
<1>10. PassesHold'
  BY <1>1, <1>7 DEF JobInv, PassesHold
<1>11. MainsHold'
  BY <1>1 DEF JobInv, MainsHold, Held, Has
<1>12. WrittenFits'
  <2>1. \A m \in Mains : Has(m, "written") => registration[m].removed = {}
    BY <1>8 DEF JobInv, MainsHold, WrittenFits
  <2>2. QED
    BY <1>1, <1>3, <2>1 DEF JobInv, WrittenFits, WrittenTypes, Has
<1>13. TasksBelong' /\ PendingIsCurrent'
  BY <1>4 DEF TasksBelong, PendingIsCurrent
<1>14. FreshFound' /\ FreshWritten'
  BY <1>1, <1>3 DEF JobInv, FreshFound, FreshWritten, CollectedTypes, WrittenTypes, Has
<1>15. ReservedUnseen'
  <2>1. \A m \in Mains : Has(m, "written") => \A n \in DOMAIN registration[m].rows : ~Exists(n)
    BY <1>8 DEF JobInv, MainsHold
  <2>2. QED
    BY <1>1, <2>1 DEF JobInv, ReservedUnseen, Has
<1>16. RanKnown' /\ NoDoubleFire'
  BY <1>1 DEF JobInv, RanKnown, NoDoubleFire
<1>17. RetiredBefore'
  <2>1. SUFFICES ASSUME NEW x \in ran, Retired(x)'
                 PROVE  (BeforeRow(x) /\ BeforeTasks(x) /\ BeforePasses(x) /\ BeforeRegistrations(x))'
    BY <1>1 DEF RetiredBefore
  <2>2. x.name \in Names
    BY DEF JobInv, RanKnown
  <2>3. (BeforeRow(x) /\ BeforeTasks(x))'
    BY <1>3, <1>4, <2>2 DEF BeforeRow, BeforeTasks
  <2>4. BeforePasses(x)'
    BY <1>1, <1>7 DEF BeforePasses
  <2>5. CASE Registering = {}
    <3>1. \A m \in Mains : registration'[m] = Null
      BY <1>1, <2>5 DEF Registering
    <3>2. QED
      BY <2>3, <2>4, <3>1 DEF BeforeRegistrations, Has
  <2>6. CASE Registering # {}
    <3>1. x.name \notin raced \cup behind /\ x.name \notin S
      BY <1>1, <2>1, <2>6 DEF Retired
    <3>2. Retired(x)
      BY <2>2, <3>1 DEF Retired
    <3>3. BeforeRegistrations(x)'
      BY <1>1, <3>2 DEF JobInv, RetiredBefore, BeforeRegistrations, Has
    <3>4. QED
      BY <2>3, <2>4, <3>3
  <2>7. QED
    BY <2>5, <2>6
<1>18. QED
  BY <1>5, <1>9, <1>10, <1>11, <1>12, <1>13, <1>14, <1>15, <1>16, <1>17 DEF JobInv

-----------------------------------------------------------------------------
LEMMA CollectKeeps ==
    ASSUME JobInv, NEW m \in Mains, NEW shows \in ClockReadings, Collect(m, shows),
           behind' = behind \cup (DOMAIN registration'[m].firstRun \cap Overtaken(shows)),
           UNCHANGED ran
    PROVE  JobInv'
<1>1. PICK D \in RuleSets :
        registration' = [registration EXCEPT ![m] =
          [step |-> "collected",
           firstRun |-> [n \in D |-> FirstRun(n, shows)]]]
  BY DEF Collect
<1>2. /\ registration[m] = Null /\ begun < MaxRegistrations /\ begun' = begun + 1
      /\ UNCHANGED <<now, job, task, lock, lastId, faults, pass, raced, ran>>
  BY DEF Collect, storeVars
<1>3. now \in Nat /\ shows \in Nat /\ DOMAIN registration = Mains /\ D \subseteq Names
  BY Types, RuleSetsAssumption DEF JobInv, ClockReadings
<1>. DEFINE r == [step |-> "collected",
                  firstRun |-> [n \in D |-> FirstRun(n, shows)]]
<1>4. /\ DOMAIN registration' = Mains /\ registration'[m] = r
      /\ \A i \in Mains \ {m} : registration'[i] = registration[i]
  BY <1>1, <1>3
<1>5. /\ r.step = "collected" /\ DOMAIN r.firstRun = D
      /\ \A n \in D : r.firstRun[n] \in IF n \in Degenerate THEN {Null} ELSE Nat
      /\ \A n \in D \ Degenerate : r.firstRun[n] > shows
  <2>1. ASSUME NEW n \in D
        PROVE  /\ r.firstRun[n] \in IF n \in Degenerate THEN {Null} ELSE Nat
               /\ n \notin Degenerate => r.firstRun[n] > shows
    <3>1. r.firstRun[n] = FirstRun(n, shows)
      OBVIOUS
    <3>2. ScheduleOf[n] \in TriggerSchedules
      BY <1>3, NamesAssumption
    <3>3. /\ computeFirstRunAt(ScheduleOf[n], shows) \in Nat
          /\ computeFirstRunAt(ScheduleOf[n], shows) > shows
      BY <1>3, <3>2, RunsLater
    <3>4. QED
      BY <3>1, <3>3 DEF FirstRun
  <2>2. QED
    BY <2>1
<1>. HIDE DEF r
<1>6. ASSUME NEW i \in Mains, NEW s \in {"found", "written"}, Has(i, s)'
      PROVE  i # m /\ Has(i, s) /\ registration'[i] = registration[i]
  BY <1>4, <1>5, <1>6 DEF Has
<1>7. ASSUME NEW i \in Mains, Has(i, "found") \/ Has(i, "written")
      PROVE  i # m /\ registration'[i] = registration[i]
  BY <1>2, <1>4, <1>7 DEF Has
<1>8. TypeOK'
  <2>1. begun' \in 0..MaxRegistrations
    BY <1>2, ConstantTypes DEF JobInv, TypeOK, ProvisionerTypeOK
  <2>0. behind' \subseteq Names
    BY <1>3, <1>4, <1>5 DEF JobInv, TypeOK
  <2>2. ProvisionerTypeOK'
    BY <1>2, <1>4, <1>5, <2>1 DEF JobInv, TypeOK, ProvisionerTypeOK
  <2>3. QED
    BY <1>2, <2>0, <2>2 DEF JobInv, TypeOK, JobStoreTypeOK, MaterializerTypeOK, IsClaim
<1>9. RowsKnown' /\ PassesHold' /\ TasksBelong' /\ PendingIsCurrent' /\ RanKnown' /\ NoDoubleFire'
  BY <1>2 DEF JobInv, RowsKnown, PassesHold, TasksBelong, PendingIsCurrent, RanKnown,
              NoDoubleFire, Known, Exists
<1>10. CollectedTypes'
  BY <1>3, <1>4, <1>5 DEF JobInv, CollectedTypes, Has
<1>11. FoundTypes'
  BY <1>2, <1>6 DEF JobInv, FoundTypes, Known
<1>12. WrittenTypes'
  BY <1>2, <1>6 DEF JobInv, WrittenTypes, Known
<1>13. MainsHold'
  <2>1. \A i \in Mains : Held(i)' = Held(i)
    BY <1>2 DEF Held
  <2>2. \A i \in Mains : Has(i, "written")' <=> Has(i, "written")
    BY <1>2, <1>4, <1>5 DEF Has
  <2>3. QED
    BY <1>7, <2>1, <2>2 DEF JobInv, MainsHold
<1>14. WrittenFits'
  BY <1>2, <1>6 DEF JobInv, WrittenFits, Exists
<1>15. \A n \in Names : Fresh(n) => Fresh(n)'
  BY <1>2, <1>6 DEF Fresh
<1>16. FreshFound'
  BY <1>2, <1>6, <1>15 DEF JobInv, FreshFound, CollectedTypes, Exists
<1>17. FreshWritten'
  BY <1>2, <1>6, <1>15 DEF JobInv, FreshWritten, WrittenTypes, Exists
<1>18. ReservedUnseen'
  BY <1>2, <1>6 DEF JobInv, ReservedUnseen, Exists
<1>19. RetiredBefore'
  <2>1. SUFFICES ASSUME NEW x \in ran, Retired(x)'
                 PROVE  (BeforeRow(x) /\ BeforeTasks(x) /\ BeforePasses(x) /\ BeforeRegistrations(x))'
    BY <1>2 DEF RetiredBefore
  <2>2. Retired(x) /\ x.at \in Nat
    BY <1>2, <1>3, <2>1 DEF Retired, Exists, JobInv, RanKnown
  <2>3. BeforeRow(x) /\ BeforeTasks(x) /\ BeforePasses(x) /\ BeforeRegistrations(x)
    BY <2>2 DEF JobInv, RetiredBefore
  <2>4. (BeforeRow(x) /\ BeforeTasks(x) /\ BeforePasses(x))'
    BY <1>2, <2>3 DEF BeforeRow, BeforeTasks, BeforePasses, Exists
  <2>5. ASSUME x.name \in D PROVE x.at <= shows
    BY <1>2, <1>3, <1>4, <1>5, <2>1, <2>2, <2>5 DEF Retired, Overtaken
  <2>6. x.name \in D \ Degenerate => x.at < r.firstRun[x.name]
    BY <1>3, <1>5, <2>2, <2>5
  <2>7. BeforeRegistrations(x)'
    <3>1. SUFFICES ASSUME NEW i \in Mains
                   PROVE  (/\ Has(i, "collected") \/ Has(i, "found") =>
                                (x.name \in DOMAIN registration[i].firstRun \ Degenerate =>
                                   x.at < registration[i].firstRun[x.name])
                           /\ Has(i, "written") =>
                                /\ x.name \in DOMAIN registration[i].rows \ Degenerate =>
                                     x.at < registration[i].rows[x.name].clock
                                /\ x.name \in DOMAIN registration[i].seed.rows =>
                                     /\ x.at < registration[i].seed.rows[x.name].clock
                                     /\ x.at <= registration[i].seed.now + MaxSkew)'
      BY DEF BeforeRegistrations
    <3>2. CASE i = m
      BY <1>4, <1>5, <2>6, <3>2 DEF Has
    <3>3. CASE i # m
      BY <1>4, <2>3, <3>3 DEF BeforeRegistrations, Has
    <3>4. QED
      BY <3>2, <3>3
  <2>8. QED
    BY <2>4, <2>7
<1>20. QED
  BY <1>8, <1>9, <1>10, <1>11, <1>12, <1>13, <1>14, <1>16, <1>17, <1>18, <1>19 DEF JobInv

LEMMA FindKeeps ==
    ASSUME JobInv, NEW m \in Mains, FindExisting(m), UNCHANGED <<ran, behind>>
    PROVE  JobInv'
<1>. DEFINE r == [step |-> "found", firstRun |-> registration[m].firstRun, existing |-> job]
<1>1. /\ Has(m, "collected")
      /\ registration' = [registration EXCEPT ![m] = r]
      /\ UNCHANGED <<now, job, task, lock, lastId, faults, pass, begun, raced, ran, behind>>
  BY DEF FindExisting, storeVars, Has
<1>2. now \in Nat /\ DOMAIN registration = Mains /\ job \in Table /\ DOMAIN job = Names
  BY Types DEF JobInv
<1>3. /\ DOMAIN registration' = Mains /\ registration'[m] = r
      /\ \A i \in Mains \ {m} : registration'[i] = registration[i]
  BY <1>1, <1>2
<1>4. r.step = "found" /\ r.firstRun = registration[m].firstRun /\ r.existing = job
  OBVIOUS
<1>. HIDE DEF r
<1>5. registration[m].step = "collected" /\ registration[m] # Null
  BY <1>1 DEF Has
<1>6. \A i \in Mains : Has(i, "written")' <=> Has(i, "written")
  BY <1>3, <1>4, <1>5 DEF Has
<1>7. \A i \in Mains : Has(i, "written") => i # m /\ registration'[i] = registration[i]
  BY <1>3, <1>5 DEF Has
<1>8. \A i \in Mains : Has(i, "found")' => i = m \/ (Has(i, "found") /\ registration'[i] = registration[i])
  BY <1>3 DEF Has
<1>9. TypeOK'
  <2>1. ProvisionerTypeOK'
    BY <1>1, <1>3, <1>4 DEF JobInv, TypeOK, ProvisionerTypeOK
  <2>2. QED
    BY <1>1, <2>1 DEF JobInv, TypeOK, JobStoreTypeOK, MaterializerTypeOK, IsClaim
<1>10. RowsKnown' /\ PassesHold' /\ TasksBelong' /\ PendingIsCurrent' /\ RanKnown' /\ NoDoubleFire'
  BY <1>1 DEF JobInv, RowsKnown, PassesHold, TasksBelong, PendingIsCurrent, RanKnown,
              NoDoubleFire, Known, Exists
<1>11. CollectedTypes'
  BY <1>1, <1>3, <1>4 DEF JobInv, CollectedTypes, Has
<1>12. FoundTypes'
  <2>1. \A n \in Names : job[n] # Null => Known(n, job[n])
    BY DEF JobInv, RowsKnown, Exists
  <2>2. ASSUME NEW i \in Mains, Has(i, "found")'
        PROVE  /\ registration'[i].existing \in Table
               /\ \A n \in Names : registration'[i].existing[n] # Null =>
                    Known(n, registration'[i].existing[n])
    <3>1. CASE i = m
      BY <1>2, <1>3, <1>4, <2>1, <3>1
    <3>2. CASE i # m
      BY <1>8, <2>2, <3>2 DEF JobInv, FoundTypes
    <3>3. QED
      BY <3>1, <3>2
  <2>3. QED
    BY <1>1, <2>2 DEF FoundTypes, Known
<1>13. WrittenTypes'
  BY <1>1, <1>6, <1>7 DEF JobInv, WrittenTypes, Known
<1>14. MainsHold'
  <2>1. \A i \in Mains : Held(i)' = Held(i)
    BY <1>1 DEF Held
  <2>2. QED
    BY <1>6, <1>7, <2>1 DEF JobInv, MainsHold
<1>15. WrittenFits'
  BY <1>1, <1>6, <1>7 DEF JobInv, WrittenFits, Exists
<1>16. \A n \in Names : Fresh(n) => Fresh(n)'
  BY <1>1, <1>3, <1>4, <1>6, <1>7, <1>8 DEF Fresh
<1>17. FreshFound'
  <2>1. SUFFICES ASSUME NEW i \in Mains, Has(i, "found")',
                        NEW n \in DOMAIN registration'[i].firstRun,
                        registration'[i].existing[n] = Null, Exists(n)
                 PROVE  Fresh(n)'
    BY <1>1 DEF FreshFound, Exists
  <2>2. i # m
    BY <1>3, <1>4, <2>1 DEF Exists
  <2>3. QED
    BY <1>8, <1>16, <2>1, <2>2 DEF JobInv, FreshFound, CollectedTypes
<1>18. FreshWritten'
  <2>1. \A i \in Mains : Has(i, "written") => DOMAIN registration[i].seed.rows \subseteq Names
    BY DEF JobInv, WrittenTypes
  <2>2. QED
    BY <1>1, <1>6, <1>7, <1>16, <2>1 DEF JobInv, FreshWritten, Exists
<1>19. ReservedUnseen'
  <2>1. SUFFICES ASSUME NEW j \in Mains, Has(j, "written")',
                        NEW n \in DOMAIN registration'[j].rows, ~Exists(n), NEW i \in Mains
                 PROVE  /\ Has(i, "found")' /\ registration'[i].existing[n] # Null =>
                             registration'[i].existing[n].id # registration'[j].rows[n].id
                        /\ Has(i, "written")' /\ n \in DOMAIN registration'[i].seed.rows
                             /\ n \notin DOMAIN registration'[i].rows =>
                             registration'[i].seed.rows[n].id # registration'[j].rows[n].id
    BY <1>1 DEF ReservedUnseen, Exists
  <2>2. Has(j, "written") /\ registration'[j] = registration[j]
    BY <1>6, <1>7, <2>1
  <2>3. CASE i = m
    BY <1>3, <1>4, <2>1, <2>3 DEF Has, Exists
  <2>4. CASE i # m
    BY <1>6, <1>7, <1>8, <2>1, <2>2, <2>4 DEF JobInv, ReservedUnseen
  <2>5. QED
    BY <2>3, <2>4
<1>20. RetiredBefore'
  <2>1. SUFFICES ASSUME NEW x \in ran, Retired(x)'
                 PROVE  (BeforeRow(x) /\ BeforeTasks(x) /\ BeforePasses(x) /\ BeforeRegistrations(x))'
    BY <1>1 DEF RetiredBefore
  <2>2. Retired(x)
    BY <1>1, <2>1 DEF Retired, Exists
  <2>3. BeforeRow(x) /\ BeforeTasks(x) /\ BeforePasses(x) /\ BeforeRegistrations(x)
    BY <2>2 DEF JobInv, RetiredBefore
  <2>4. (BeforeRow(x) /\ BeforeTasks(x) /\ BeforePasses(x))'
    BY <1>1, <2>3 DEF BeforeRow, BeforeTasks, BeforePasses, Exists
  <2>5. BeforeRegistrations(x)'
    BY <1>1, <1>3, <1>4, <2>3 DEF BeforeRegistrations, Has
  <2>6. QED
    BY <2>4, <2>5
<1>21. QED
  BY <1>9, <1>10, <1>11, <1>12, <1>13, <1>14, <1>15, <1>17, <1>18, <1>19, <1>20 DEF JobInv

\* A registration that ends without a commit.
LEMMA GiveUpKeeps ==
    ASSUME JobInv, NEW m \in Mains, Unlock(m),
           registration' = [registration EXCEPT ![m] = Null],
           faults' \in 0..MaxFaults,
           UNCHANGED <<now, job, task, lastId, pass, begun, raced, ran, behind>>
    PROVE  JobInv'
<1>1. DOMAIN registration = Mains /\ \A p \in Passes : pass[p] # Null => IsClaim(pass[p])
  BY Types DEF JobInv
<1>2. /\ DOMAIN registration' = Mains /\ registration'[m] = Null
      /\ \A i \in Mains \ {m} : registration'[i] = registration[i]
  BY <1>1
<1>3. \A i \in Mains : \A s \in {"collected", "found", "written"} :
        Has(i, s)' => Has(i, s) /\ i # m /\ registration'[i] = registration[i]
  BY <1>2 DEF Has
<1>4. /\ \A n \in Names : lock[n] # m => lock'[n] = lock[n]
      /\ \A i \in Mains : Held(i)' = IF i = m THEN {} ELSE Held(i)
  BY LocksOf DEF JobInv
<1>5. TypeOK'
  <2>1. ProvisionerTypeOK'
    BY <1>2 DEF JobInv, TypeOK, ProvisionerTypeOK
  <2>2. lock' \in [Names -> Passes \cup Mains \cup {Null}]
    BY DEF JobInv, TypeOK, JobStoreTypeOK, Unlock
  <2>3. QED
    BY <2>1, <2>2 DEF JobInv, TypeOK, JobStoreTypeOK, MaterializerTypeOK, IsClaim
<1>6. RowsKnown' /\ TasksBelong' /\ PendingIsCurrent' /\ RanKnown' /\ NoDoubleFire'
  BY DEF JobInv, RowsKnown, TasksBelong, PendingIsCurrent, RanKnown,
              NoDoubleFire, Known, Exists
<1>7. PassesHold'
  BY <1>1, <1>4, HoldersAssumption DEF JobInv, PassesHold, Exists, IsClaim
<1>8. CollectedTypes'
  BY <1>3 DEF JobInv, CollectedTypes
<1>9. FoundTypes'
  BY <1>3 DEF JobInv, FoundTypes, Known
<1>10. WrittenTypes'
  BY <1>3 DEF JobInv, WrittenTypes, Known
<1>11. MainsHold'
  BY <1>2, <1>4 DEF JobInv, MainsHold, Has
<1>12. WrittenFits'
  BY <1>3 DEF JobInv, WrittenFits, Exists
<1>13. \A n \in Names : Fresh(n) => Fresh(n)'
  BY <1>3 DEF Fresh
<1>14. FreshFound'
  BY <1>3, <1>13 DEF JobInv, FreshFound, CollectedTypes, Exists
<1>15. FreshWritten'
  BY <1>3, <1>13 DEF JobInv, FreshWritten, WrittenTypes, Exists
<1>16. ReservedUnseen'
  BY <1>3 DEF JobInv, ReservedUnseen, Exists
<1>17. RetiredBefore'
  <2>1. SUFFICES ASSUME NEW x \in ran, Retired(x)'
                 PROVE  (BeforeRow(x) /\ BeforeTasks(x) /\ BeforePasses(x) /\ BeforeRegistrations(x))'
    BY DEF RetiredBefore
  <2>2. Retired(x)
    BY <2>1 DEF Retired, Exists
  <2>3. BeforeRow(x) /\ BeforeTasks(x) /\ BeforePasses(x) /\ BeforeRegistrations(x)
    BY <2>2 DEF JobInv, RetiredBefore
  <2>4. (BeforeRow(x) /\ BeforeTasks(x) /\ BeforePasses(x))'
    BY <2>3 DEF BeforeRow, BeforeTasks, BeforePasses, Exists
  <2>5. BeforeRegistrations(x)'
    BY <1>3, <2>3 DEF BeforeRegistrations
  <2>6. QED
    BY <2>4, <2>5
<1>18. QED
  BY <1>5, <1>6, <1>7, <1>8, <1>9, <1>10, <1>11, <1>12, <1>14, <1>15, <1>16, <1>17 DEF JobInv

-----------------------------------------------------------------------------
\* What Write locks and keeps: rows with fresh ids where it found nobody's, the
\* redefinition of rows found damaged, and the rows others inserted meanwhile.
LEMMA WhatIsWritten ==
    ASSUME JobInv, NEW m \in Mains, Has(m, "found")
    PROVE  LET r == registration[m]
               rows == WrittenRows(r)
               seeded == Live(RowsToSeed(r))
               last == lastId + Cardinality(Inserted(r))
           IN  /\ last \in Nat /\ lastId <= last
               /\ DOMAIN rows \subseteq DOMAIN r.firstRun
               /\ ToInsert(r) \cup ToRedefine(r) \subseteq DOMAIN r.firstRun
               /\ DOMAIN rows \subseteq ToInsert(r) \cup ToRedefine(r)
               /\ \A n \in DOMAIN rows :
                    /\ rows[n] \in Row /\ rows[n].id <= last /\ (rows[n].clock = Null <=> n \in Degenerate)
                    /\ rows[n].intact /\ rows[n].clock = r.firstRun[n]
                    /\ ~Exists(n) => rows[n].id > lastId
                    /\ Exists(n) => /\ rows[n].id = job[n].id
                                    /\ r.existing[n] # Null /\ r.existing[n].id = job[n].id
                                    /\ ~r.existing[n].intact
               /\ DOMAIN seeded \subseteq DOMAIN r.firstRun \ Degenerate
               /\ \A n \in DOMAIN seeded \cap DOMAIN rows : seeded[n] = rows[n]
               /\ \A n \in DOMAIN seeded \ DOMAIN rows :
                    seeded[n] = job[n] /\ Exists(n) /\ r.existing[n] = Null
<1>1. PICK r : r = registration[m]
  OBVIOUS
<1>2. /\ lastId \in Nat /\ job \in Table /\ r.existing \in Table
      /\ DOMAIN r.firstRun \subseteq Names
      /\ \A n \in DOMAIN r.firstRun : r.firstRun[n] \in IF n \in Degenerate THEN {Null} ELSE Nat
      /\ \A n \in Names : r.existing[n] # Null => Known(n, r.existing[n])
      /\ \A n \in Names : Exists(n) => Known(n, job[n])
  BY <1>1, Types DEF JobInv, FoundTypes, CollectedTypes, RowsKnown
<1>3. PICK ins, red : ins = Inserted(r) /\ red = Redefined(r)
  OBVIOUS
<1>4. PICK rows : rows = WrittenRows(r)
  OBVIOUS
<1>5. PICK seeded : seeded = Live(RowsToSeed(r))
  OBVIOUS
<1>6. /\ ToInsert(r) \cup ToRedefine(r) \subseteq DOMAIN r.firstRun
      /\ ins \subseteq ToInsert(r) /\ red \subseteq ToRedefine(r)
      /\ \A n \in ins : ~Exists(n) /\ n \in Names
      /\ \A n \in ToInsert(r) \ ins : Exists(n)
      /\ \A n \in ToInsert(r) : r.existing[n] = Null
  BY <1>2, <1>3 DEF Inserted, ToInsert, ToRedefine, Redefined
<1>7. ASSUME NEW n \in red
      PROVE  /\ n \in Names /\ Exists(n) /\ r.existing[n] # Null
             /\ r.existing[n].id = job[n].id /\ ~r.existing[n].intact
  <2>1. /\ n \in DOMAIN r.firstRun /\ n \notin ToInsert(r) /\ Exists(n)
        /\ ~holdsDefinition(r.existing[n], r.firstRun[n]) /\ job[n].id = r.existing[n].id
    BY <1>3 DEF Redefined, ToRedefine
  <2>2. r.existing[n] # Null /\ n \in Names
    BY <1>2, <2>1 DEF ToInsert
  <2>3. (r.existing[n].clock # Null) = (r.firstRun[n] # Null)
    BY <1>2, <2>1, <2>2, NullAssumption DEF Known
  <2>4. ~r.existing[n].intact
    BY <2>1, <2>3 DEF holdsDefinition
  <2>5. QED
    BY <2>1, <2>2, <2>4
<1>8. /\ Cardinality(ins) \in Nat
      /\ \A n \in ins : NewIds(ins)[n] \in (lastId + 1)..(lastId + Cardinality(ins))
  <2>1. ins \subseteq Names
    BY <1>6
  <2>2. QED
    BY <1>2, <2>1, NewIdsFresh
<1>9. rows = [n \in ins \cup red |->
                IF n \in ins
                THEN [id |-> NewIds(ins)[n], def |-> 1, clock |-> r.firstRun[n],
                      since |-> Since(r.firstRun[n]), intact |-> TRUE]
                ELSE [job[n] EXCEPT !.def = @ + 1, !.clock = r.firstRun[n],
                                    !.since = Since(r.firstRun[n]), !.intact = TRUE]]
  BY <1>3, <1>4, Zenon DEF WrittenRows
<1>10. DOMAIN rows = ins \cup red
  BY <1>9
<1>11. ASSUME NEW n \in ins
       PROVE  /\ rows[n] \in Row /\ rows[n].id <= lastId + Cardinality(ins)
              /\ (rows[n].clock = Null <=> n \in Degenerate)
              /\ rows[n].intact /\ rows[n].clock = r.firstRun[n]
              /\ rows[n].id > lastId
  <2>1. rows[n] = [id |-> NewIds(ins)[n], def |-> 1, clock |-> r.firstRun[n],
                   since |-> Since(r.firstRun[n]), intact |-> TRUE]
    BY <1>9
  <2>2. /\ n \in DOMAIN r.firstRun /\ r.firstRun[n] \in Nat \cup {Null}
        /\ r.firstRun[n] = Null <=> n \in Degenerate
        /\ Since(r.firstRun[n]) \in Nat
    BY <1>2, <1>6, NullAssumption DEF Since
  <2>3. NewIds(ins)[n] \in (lastId + 1)..(lastId + Cardinality(ins))
    BY <1>8
  <2>4. QED
    BY <1>2, <1>8, <2>1, <2>2, <2>3, NullAssumption DEF Row
<1>12. ASSUME NEW n \in red
       PROVE  /\ rows[n] \in Row /\ rows[n].id <= lastId + Cardinality(ins)
              /\ (rows[n].clock = Null <=> n \in Degenerate)
              /\ rows[n].intact /\ rows[n].clock = r.firstRun[n]
              /\ rows[n].id = job[n].id
  <2>1. n \notin ins /\ job[n] \in Row /\ job[n].id <= lastId
    BY <1>2, <1>6, <1>7 DEF Known
  <2>2. rows[n] = [job[n] EXCEPT !.def = @ + 1, !.clock = r.firstRun[n],
                                 !.since = Since(r.firstRun[n]), !.intact = TRUE]
    BY <1>9, <2>1
  <2>3. /\ n \in DOMAIN r.firstRun /\ r.firstRun[n] \in Nat \cup {Null}
        /\ r.firstRun[n] = Null <=> n \in Degenerate
        /\ Since(r.firstRun[n]) \in Nat
    BY <1>2, <1>6, <1>7, NullAssumption DEF Since
  <2>4. rows[n] \in Row /\ rows[n].id = job[n].id /\ rows[n].clock = r.firstRun[n] /\ rows[n].intact
    <3>1. /\ job[n] = [id |-> job[n].id, def |-> job[n].def, clock |-> job[n].clock,
                       since |-> job[n].since, intact |-> job[n].intact]
          /\ job[n].id \in Nat /\ job[n].def + 1 \in Nat
      BY <2>1 DEF Row
    <3>2. rows[n] = [id |-> job[n].id, def |-> job[n].def + 1, clock |-> r.firstRun[n],
                     since |-> Since(r.firstRun[n]), intact |-> TRUE]
      BY <2>2, <3>1
    <3>3. QED
      BY <2>3, <3>1, <3>2 DEF Row
  <2>5. job[n].id \in Nat
    BY <2>1 DEF Row
  <2>6. QED
    BY <1>2, <1>8, <2>1, <2>3, <2>4, <2>5, NullAssumption
<1>13. /\ DOMAIN seeded \subseteq DOMAIN rows \cup ToInsert(r)
       /\ \A n \in DOMAIN seeded : seeded[n].clock # Null
       /\ \A n \in DOMAIN seeded : seeded[n] = IF n \in DOMAIN rows THEN rows[n] ELSE job[n]
  <2>. DEFINE all == [n \in DOMAIN rows \cup ToInsert(r) |->
                        IF n \in DOMAIN rows THEN rows[n] ELSE job[n]]
  <2>1. RowsToSeed(r) = all
    BY <1>4, Zenon DEF RowsToSeed
  <2>2. seeded = [n \in {k \in DOMAIN all : all[k].clock # Null} |-> all[n]]
    BY <1>5, <2>1, Zenon DEF Live, Restrict
  <2>3. QED
    BY <2>2
<1>14. /\ \A n \in DOMAIN seeded \cap DOMAIN rows : seeded[n] = rows[n]
       /\ \A n \in DOMAIN seeded \ DOMAIN rows :
            seeded[n] = job[n] /\ Exists(n) /\ r.existing[n] = Null
  BY <1>6, <1>10, <1>13
<1>15. \A n \in DOMAIN rows :
         /\ rows[n] \in Row /\ rows[n].id <= lastId + Cardinality(ins)
         /\ (rows[n].clock = Null <=> n \in Degenerate)
         /\ rows[n].intact /\ rows[n].clock = r.firstRun[n]
         /\ ~Exists(n) => rows[n].id > lastId
         /\ Exists(n) => /\ rows[n].id = job[n].id
                         /\ r.existing[n] # Null /\ r.existing[n].id = job[n].id
                         /\ ~r.existing[n].intact
  <2>. TAKE n \in DOMAIN rows
  <2>1. CASE n \in ins
    BY <1>6, <1>11, <2>1
  <2>2. CASE n \in red
    BY <1>7, <1>12, <2>2
  <2>3. QED
    BY <1>10, <2>1, <2>2
<1>16. /\ DOMAIN rows \subseteq ToInsert(r) \cup ToRedefine(r)
       /\ DOMAIN rows \subseteq DOMAIN r.firstRun
       /\ DOMAIN seeded \subseteq DOMAIN r.firstRun \ Degenerate
  <2>1. ASSUME NEW n \in DOMAIN seeded PROVE n \in DOMAIN r.firstRun /\ n \notin Degenerate
    <3>1. n \in DOMAIN r.firstRun /\ n \in Names
      BY <1>2, <1>6, <1>10, <1>13
    <3>2. CASE n \in DOMAIN rows
      BY <1>13, <1>15, <3>1, <3>2
    <3>3. CASE n \notin DOMAIN rows
      BY <1>2, <1>13, <1>14, <3>1, <3>3 DEF Known
    <3>4. QED
      BY <3>1, <3>2, <3>3
  <2>2. QED
    BY <1>6, <1>10, <2>1
<1>17. /\ lastId + Cardinality(ins) \in Nat /\ lastId <= lastId + Cardinality(ins)
  BY <1>2, <1>8
<1>18. QED
  BY <1>1, <1>3, <1>4, <1>5, <1>6, <1>14, <1>15, <1>16, <1>17

LEMMA WriteKeeps ==
    ASSUME JobInv, NEW m \in Mains, Write(m), UNCHANGED <<ran, behind>>
    PROVE  JobInv'
<1>1. PICK r : r = registration[m]
  OBVIOUS
<1>2. PICK rows, seeded, removed :
        /\ rows = WrittenRows(r) /\ seeded = Live(RowsToSeed(r))
        /\ removed = {n \in ToRemove(r) : Exists(n) /\ job[n].id = r.existing[n].id}
  OBVIOUS
<1>. DEFINE w == [step |-> "written", rows |-> rows, removed |-> removed,
                  seed |-> [now |-> now, rows |-> seeded]]
<1>3. /\ Has(m, "found")
      /\ Free(ToInsert(r) \cup ToRedefine(r) \cup ToRemove(r), m)
      /\ lastId + Cardinality(Inserted(r)) <= MaxJobs
      /\ lastId' = lastId + Cardinality(Inserted(r))
      /\ Lock(DOMAIN rows \cup removed, m)
      /\ registration' = [registration EXCEPT ![m] = w]
      /\ UNCHANGED <<now, job, task, faults, pass, begun, raced, ran, behind>>
  BY <1>1, <1>2 DEF Write, Has
<1>4. /\ now \in Nat /\ lastId \in Nat /\ DOMAIN registration = Mains /\ job \in Table
      /\ \A p \in Passes : pass[p] # Null => IsClaim(pass[p])
  BY Types DEF JobInv
<1>5. /\ lastId' \in Nat /\ lastId <= lastId'
      /\ DOMAIN rows \subseteq DOMAIN r.firstRun
      /\ DOMAIN rows \subseteq ToInsert(r) \cup ToRedefine(r)
      /\ \A n \in DOMAIN rows :
           /\ rows[n] \in Row /\ rows[n].id <= lastId' /\ (rows[n].clock = Null <=> n \in Degenerate)
           /\ rows[n].intact /\ rows[n].clock = r.firstRun[n]
           /\ ~Exists(n) => rows[n].id > lastId
           /\ Exists(n) => /\ rows[n].id = job[n].id
                           /\ r.existing[n] # Null /\ r.existing[n].id = job[n].id
                           /\ ~r.existing[n].intact
      /\ DOMAIN seeded \subseteq DOMAIN r.firstRun \ Degenerate
      /\ \A n \in DOMAIN seeded \cap DOMAIN rows : seeded[n] = rows[n]
      /\ \A n \in DOMAIN seeded \ DOMAIN rows :
           seeded[n] = job[n] /\ Exists(n) /\ r.existing[n] = Null
  <2>1. PICK last : last = lastId + Cardinality(Inserted(r))
    OBVIOUS
  <2>2. /\ last \in Nat /\ lastId <= last
        /\ DOMAIN rows \subseteq DOMAIN r.firstRun
        /\ DOMAIN rows \subseteq ToInsert(r) \cup ToRedefine(r)
        /\ \A n \in DOMAIN rows :
             /\ rows[n] \in Row /\ rows[n].id <= last /\ (rows[n].clock = Null <=> n \in Degenerate)
             /\ rows[n].intact /\ rows[n].clock = r.firstRun[n]
             /\ ~Exists(n) => rows[n].id > lastId
             /\ Exists(n) => /\ rows[n].id = job[n].id
                             /\ r.existing[n] # Null /\ r.existing[n].id = job[n].id
                             /\ ~r.existing[n].intact
        /\ DOMAIN seeded \subseteq DOMAIN r.firstRun \ Degenerate
        /\ \A n \in DOMAIN seeded \cap DOMAIN rows : seeded[n] = rows[n]
        /\ \A n \in DOMAIN seeded \ DOMAIN rows :
             seeded[n] = job[n] /\ Exists(n) /\ r.existing[n] = Null
    BY <1>1, <1>2, <1>3, <2>1, WhatIsWritten
  <2>3. QED
    BY <1>3, <2>1, <2>2
<1>6. /\ DOMAIN r.firstRun \subseteq Names
      /\ \A n \in DOMAIN r.firstRun : r.firstRun[n] \in IF n \in Degenerate THEN {Null} ELSE Nat
  BY <1>1, <1>3 DEF JobInv, CollectedTypes
<1>7. removed \subseteq Names /\ removed \cap DOMAIN r.firstRun = {} /\ \A n \in removed : Exists(n)
  BY <1>2 DEF ToRemove
<1>8. /\ DOMAIN registration' = Mains /\ registration'[m] = w
      /\ \A i \in Mains \ {m} : registration'[i] = registration[i]
  BY <1>3, <1>4
<1>9. w.step = "written" /\ w.rows = rows /\ w.removed = removed
      /\ w.seed.now = now /\ w.seed.rows = seeded
  OBVIOUS
<1>10. /\ rows = [n \in DOMAIN rows |-> rows[n]] /\ DOMAIN rows \subseteq Names
       /\ seeded = [n \in DOMAIN seeded |-> seeded[n]] /\ DOMAIN seeded \subseteq Names \ Degenerate
       /\ \A n \in DOMAIN seeded : /\ seeded[n] \in Row /\ seeded[n].id <= lastId'
                                   /\ seeded[n].clock # Null
  <2>1. rows = [n \in DOMAIN rows |-> rows[n]]
    BY <1>2 DEF WrittenRows
  <2>2. seeded = [n \in DOMAIN seeded |-> seeded[n]]
    BY <1>2 DEF Live, Restrict
  <2>3. ASSUME NEW n \in DOMAIN seeded
        PROVE  seeded[n] \in Row /\ seeded[n].id <= lastId' /\ seeded[n].clock # Null
    <3>1. CASE n \in DOMAIN rows
      BY <1>5, <3>1
    <3>2. CASE n \notin DOMAIN rows
      <4>1. seeded[n] = job[n] /\ Known(n, job[n])
        BY <1>5, <1>6, <3>2 DEF JobInv, RowsKnown
      <4>2. job[n].id \in Nat
        BY <4>1 DEF Known, Row
      <4>3. QED
        BY <1>4, <1>5, <4>1, <4>2 DEF Known
    <3>3. QED
      BY <3>1, <3>2
  <2>4. QED
    BY <1>5, <1>6, <2>1, <2>2, <2>3
<1>11. w \in Written(DOMAIN rows, DOMAIN seeded)
  <2>1. rows \in [DOMAIN rows -> Row] /\ seeded \in [DOMAIN seeded -> Row]
    BY <1>5, <1>10
  <2>2. QED
    BY <1>4, <1>7, <2>1, Zenon DEF Written, w
<1>12. w # Null
  BY <1>10, <1>11, RegistrationAssumption
<1>. HIDE DEF w
<1>13. ProvisionerTypeOK'
  BY <1>3, <1>8, <1>9 DEF JobInv, TypeOK, ProvisionerTypeOK
<1>14. registration[m].step = "found" /\ registration[m] # Null
  BY <1>3 DEF Has
<1>15. /\ \A i \in Mains : Has(i, "written")' <=> i = m \/ Has(i, "written")
       /\ \A i \in Mains : Has(i, "written") => i # m
       /\ \A i \in Mains : Has(i, "found")' <=> i # m /\ Has(i, "found")
       /\ \A i \in Mains : Has(i, "collected")' <=> i # m /\ Has(i, "collected")
  BY <1>8, <1>9, <1>12, <1>14 DEF Has
<1>16. /\ \A n \in Names \ (DOMAIN rows \cup removed) : lock'[n] = lock[n]
       /\ \A q \in (Passes \cup Mains) \ {m} : \A n \in Names : lock[n] = q => lock'[n] = q
       /\ \A i \in Mains : Held(i)' = IF i = m THEN Held(i) \cup (DOMAIN rows \cup removed)
                                              ELSE Held(i)
  <2>1. DOMAIN rows \cup removed \subseteq ToInsert(r) \cup ToRedefine(r) \cup ToRemove(r)
    BY <1>2, <1>5
  <2>2. Free(DOMAIN rows \cup removed, m) /\ DOMAIN rows \cup removed \subseteq Names
    BY <1>3, <1>7, <1>10, <2>1 DEF Free
  <2>3. QED
    BY <1>3, <2>2, LocksOf DEF JobInv
<1>17. Held(m) = {}
  BY <1>15, <1>14 DEF JobInv, MainsHold, Has
<1>18. TypeOK'
  <2>1. lastId' \in 0..MaxJobs
    BY <1>3, <1>5, ConstantTypes
  <2>2. lock' \in [Names -> Passes \cup Mains \cup {Null}]
    BY <1>3 DEF JobInv, TypeOK, JobStoreTypeOK, Lock
  <2>3. QED
    BY <1>3, <1>13, <2>1, <2>2
       DEF JobInv, TypeOK, JobStoreTypeOK, MaterializerTypeOK, IsClaim
<1>19. \A n, row : Known(n, row) => Known(n, row)'
  <2>1. \A row \in Row : row.id \in Nat
    BY DEF Row
  <2>2. QED
    BY <1>4, <1>5, <2>1 DEF Known
<1>20. RowsKnown' /\ TasksBelong' /\ PendingIsCurrent' /\ RanKnown' /\ NoDoubleFire'
  <2>1. RowsKnown'
    BY <1>3, <1>19 DEF JobInv, RowsKnown, Exists
  <2>2. QED
    BY <1>3, <2>1 DEF JobInv, TasksBelong, PendingIsCurrent, RanKnown, NoDoubleFire, Exists
<1>21. CollectedTypes'
  BY <1>8, <1>15 DEF JobInv, CollectedTypes
<1>22. FoundTypes'
  BY <1>8, <1>15, <1>19 DEF JobInv, FoundTypes
<1>23. WrittenTypes'
  <2>1. ASSUME NEW i \in Mains, Has(i, "written")', NEW v, v = registration'[i]
        PROVE  /\ DOMAIN v.rows \subseteq Names
               /\ \A n \in DOMAIN v.rows : Known(n, v.rows[n])' /\ v.rows[n].intact
               /\ v.removed \subseteq Names
               /\ v.seed.now \in 0..now
               /\ DOMAIN v.seed.rows \subseteq Names \ Degenerate
               /\ \A n \in DOMAIN v.seed.rows : Known(n, v.seed.rows[n])'
    <3>1. CASE i = m
      <4>1. \A n \in DOMAIN rows : Known(n, rows[n])' /\ rows[n].intact
        BY <1>5 DEF Known
      <4>2. \A n \in DOMAIN seeded : Known(n, seeded[n])'
        BY <1>10 DEF Known
      <4>3. now \in 0..now /\ v = w
        BY <1>4, <1>8, <2>1, <3>1
      <4>4. QED
        BY <1>7, <1>9, <1>10, <4>1, <4>2, <4>3
    <3>2. CASE i # m
      <4>1. Has(i, "written") /\ v = registration[i]
        BY <1>8, <1>15, <2>1, <3>2
      <4>2. QED
        BY <1>19, <4>1 DEF JobInv, WrittenTypes
    <3>3. QED
      BY <3>1, <3>2
  <2>2. QED
    BY <1>3, <2>1 DEF WrittenTypes, Known
<1>24. PassesHold'
  BY <1>3, <1>4, <1>16, HoldersAssumption DEF JobInv, PassesHold, Exists, IsClaim
<1>25. MainsHold'
  BY <1>8, <1>9, <1>15, <1>16, <1>17 DEF JobInv, MainsHold
<1>26. WrittenFits'
  <2>1. SUFFICES ASSUME NEW i \in Mains, Has(i, "written")'
                 PROVE  LET v == registration'[i]
                        IN  /\ v.removed \cap (DOMAIN v.rows \cup DOMAIN v.seed.rows) = {}
                            /\ \A n \in v.removed : Exists(n)
                            /\ \A n \in DOMAIN v.rows : Exists(n) => job[n].id = v.rows[n].id
                            /\ \A n \in DOMAIN v.rows \cap DOMAIN v.seed.rows :
                                 v.seed.rows[n] = v.rows[n]
    BY <1>3 DEF WrittenFits, Exists
  <2>2. CASE i = m
    BY <1>5, <1>7, <1>8, <1>9, <2>2
  <2>3. CASE i # m
    BY <1>8, <1>15, <2>1, <2>3 DEF JobInv, WrittenFits
  <2>4. QED
    BY <2>2, <2>3
<1>27. ASSUME NEW n \in Names, Exists(n), Fresh(n)
       PROVE  n \notin DOMAIN rows /\ Fresh(n)'
  <2>1. n \notin DOMAIN rows
    BY <1>1, <1>3, <1>5, <1>27 DEF Fresh
  <2>2. QED
    BY <1>3, <1>8, <1>9, <1>15, <1>27, <2>1 DEF Fresh
<1>28. FreshFound'
  BY <1>3, <1>8, <1>15, <1>27 DEF JobInv, FreshFound, CollectedTypes, Exists
<1>29. FreshWritten'
  <2>1. SUFFICES ASSUME NEW i \in Mains, Has(i, "written")',
                        NEW n \in DOMAIN registration'[i].seed.rows \ DOMAIN registration'[i].rows,
                        Exists(n), job[n].id = registration'[i].seed.rows[n].id
                 PROVE  Fresh(n)' /\ job[n].def = registration'[i].seed.rows[n].def
    BY <1>3 DEF FreshWritten, Exists
  <2>2. CASE i = m
    <3>1. n \in DOMAIN seeded \ DOMAIN rows
      BY <1>8, <1>9, <2>1, <2>2
    <3>2. n \in DOMAIN r.firstRun /\ n \in Names /\ r.existing[n] = Null /\ seeded[n] = job[n]
      BY <1>5, <1>6, <3>1
    <3>3. Fresh(n)
      BY <1>1, <1>3, <2>1, <3>2 DEF JobInv, FreshFound
    <3>4. QED
      BY <1>8, <1>9, <1>27, <2>1, <2>2, <3>2, <3>3
  <2>3. CASE i # m
    <3>1. /\ registration'[i] = registration[i] /\ Has(i, "written") /\ n \in Names
      BY <1>8, <1>15, <2>1, <2>3 DEF JobInv, WrittenTypes
    <3>2. Fresh(n) /\ job[n].def = registration[i].seed.rows[n].def
      BY <2>1, <3>1 DEF JobInv, FreshWritten
    <3>3. QED
      BY <1>27, <2>1, <3>1, <3>2
  <2>4. QED
    BY <2>2, <2>3
<1>30. ReservedUnseen'
  <2>1. SUFFICES ASSUME NEW j \in Mains, Has(j, "written")',
                        NEW n \in DOMAIN registration'[j].rows, ~Exists(n), NEW i \in Mains
                 PROVE  /\ Has(i, "found")' /\ registration'[i].existing[n] # Null =>
                             registration'[i].existing[n].id # registration'[j].rows[n].id
                        /\ Has(i, "written")' /\ n \in DOMAIN registration'[i].seed.rows
                             /\ n \notin DOMAIN registration'[i].rows =>
                             registration'[i].seed.rows[n].id # registration'[j].rows[n].id
    BY <1>3 DEF ReservedUnseen, Exists
  <2>2. CASE i = m
    <3>1. ~Has(i, "found")'
      BY <1>15, <2>2
    <3>2. n \in DOMAIN registration'[i].seed.rows => n \in DOMAIN registration'[i].rows
      BY <1>5, <1>8, <1>9, <2>1, <2>2
    <3>3. QED
      BY <3>1, <3>2
  <2>3. CASE i # m /\ j = m
    <3>1. registration'[j].rows[n].id > lastId /\ registration'[j].rows[n] \in Row /\ n \in Names
      BY <1>5, <1>8, <1>9, <1>10, <2>1, <2>3
    <3>2. registration'[j].rows[n].id \in Nat
      BY <3>1 DEF Row
    <3>3. \A k, row : Known(k, row) => row.id # registration'[j].rows[n].id
      <4>1. \A row \in Row : row.id \in Nat
        BY DEF Row
      <4>2. QED
        BY <1>4, <3>1, <3>2, <4>1 DEF Known
    <3>4. Has(i, "found")' /\ registration'[i].existing[n] # Null =>
            Known(n, registration'[i].existing[n])
      BY <1>8, <1>15, <2>3, <3>1 DEF JobInv, FoundTypes
    <3>5. Has(i, "written")' /\ n \in DOMAIN registration'[i].seed.rows =>
            Known(n, registration'[i].seed.rows[n])
      BY <1>8, <1>15, <2>3, <3>1 DEF JobInv, WrittenTypes
    <3>6. QED
      BY <3>3, <3>4, <3>5
  <2>4. CASE i # m /\ j # m
    BY <1>8, <1>15, <2>1, <2>4 DEF JobInv, ReservedUnseen
  <2>5. QED
    BY <2>2, <2>3, <2>4
<1>31. RetiredBefore'
  <2>1. SUFFICES ASSUME NEW x \in ran, Retired(x)'
                 PROVE  (BeforeRow(x) /\ BeforeTasks(x) /\ BeforePasses(x) /\ BeforeRegistrations(x))'
    BY <1>3 DEF RetiredBefore
  <2>2. Retired(x) /\ x.at <= now + MaxSkew
    BY <1>3, <1>4, <2>1, ConstantTypes DEF Retired, Exists, JobInv, RanKnown
  <2>3. BeforeRow(x) /\ BeforeTasks(x) /\ BeforePasses(x) /\ BeforeRegistrations(x)
    BY <2>2 DEF JobInv, RetiredBefore
  <2>4. (BeforeRow(x) /\ BeforeTasks(x) /\ BeforePasses(x))'
    BY <1>3, <2>3 DEF BeforeRow, BeforeTasks, BeforePasses, Exists
  <2>5. \A n \in DOMAIN rows \ Degenerate : n = x.name => x.at < rows[n].clock
    BY <1>1, <1>3, <1>5, <2>3 DEF BeforeRegistrations
  <2>6. \A n \in DOMAIN seeded : n = x.name => x.at < seeded[n].clock
    BY <1>5, <1>10, <2>3, <2>5 DEF BeforeRow
  <2>7. BeforeRegistrations(x)'
    <3>1. SUFFICES ASSUME NEW i \in Mains
                   PROVE  /\ (Has(i, "collected") \/ Has(i, "found"))' =>
                               (x.name \in DOMAIN registration'[i].firstRun \ Degenerate =>
                                  x.at < registration'[i].firstRun[x.name])
                          /\ Has(i, "written")' =>
                               /\ x.name \in DOMAIN registration'[i].rows \ Degenerate =>
                                    x.at < registration'[i].rows[x.name].clock
                               /\ x.name \in DOMAIN registration'[i].seed.rows =>
                                    /\ x.at < registration'[i].seed.rows[x.name].clock
                                    /\ x.at <= registration'[i].seed.now + MaxSkew
      BY DEF BeforeRegistrations
    <3>2. CASE i = m
      BY <1>8, <1>9, <1>15, <2>2, <2>5, <2>6, <3>2
    <3>3. CASE i # m
      BY <1>8, <1>15, <2>3, <3>3 DEF BeforeRegistrations
    <3>4. QED
      BY <3>2, <3>3
  <2>8. QED
    BY <2>4, <2>7
<1>32. QED
  BY <1>18, <1>20, <1>21, <1>22, <1>23, <1>24, <1>25, <1>26, <1>28, <1>29, <1>30, <1>31 DEF JobInv

-----------------------------------------------------------------------------
\* The rows after a registration commits: those it removed are gone, those it
\* wrote are in place, those it seeds have moved on, the others are as before.
LEMMA WhatIsCommitted ==
    ASSUME JobInv, NEW m \in Mains, CommitRegistration(m)
    PROVE  LET r == registration[m]
               seeds == DOMAIN r.seed.rows \ Gone(r)
           IN  /\ Has(m, "written")
               /\ Free(DOMAIN r.seed.rows, m)
               /\ registration' = [registration EXCEPT ![m] = Null]
               /\ raced' = raced \cup (IF Registering \ {m} = {} THEN {} ELSE r.removed)
               /\ faults' \in 0..MaxFaults
               /\ Unlock(m) /\ UNCHANGED <<now, lastId, pass, begun>>
               /\ IsBatch(r.seed)
               /\ job' \in Table
               /\ \A n \in r.removed : job'[n] = Null
               /\ \A n \in DOMAIN r.rows :
                    /\ n \notin r.removed /\ job'[n] # Null
                    /\ job'[n].id = r.rows[n].id /\ job'[n].def = r.rows[n].def
                    /\ job'[n].intact /\ (job'[n].clock = Null <=> n \in Degenerate)
                    /\ n \notin seeds => job'[n] = r.rows[n]
               /\ \A n \in seeds :
                    /\ n \notin r.removed
                    /\ n \notin DOMAIN r.rows => Exists(n) /\ job[n].id = r.seed.rows[n].id
                    /\ job'[n].clock \in Nat
                    /\ job'[n].clock >= r.seed.rows[n].clock \/ job'[n].clock > r.seed.now + MaxSkew
               /\ \A n \in Names : n \notin r.removed /\ n \notin DOMAIN r.rows =>
                    /\ job'[n] = Null <=> job[n] = Null
                    /\ job[n] # Null =>
                         /\ job'[n].id = job[n].id /\ job'[n].def = job[n].def
                         /\ job'[n].intact = job[n].intact
                         /\ (job'[n].clock = Null <=> n \in Degenerate)
                    /\ n \notin seeds => job'[n] = job[n]
               /\ \A k \in task' :
                    \/ k \in task /\ k.id \notin IdsOf(r.removed)
                         /\ (k.status = "pending" =>
                               \A n \in DOMAIN r.rows : k.id # r.rows[n].id)
                    \/ /\ k \in Occurrence /\ k.name \in seeds
                       /\ k.id = r.seed.rows[k.name].id /\ k.def = r.seed.rows[k.name].def
                       /\ k.at >= r.seed.rows[k.name].clock
<1>1. PICK r : r = registration[m]
  OBVIOUS
<1>2. PICK stored : stored = [n \in Names |-> IF n \in r.removed THEN Null
                                              ELSE IF n \in DOMAIN r.rows THEN r.rows[n]
                                              ELSE job[n]]
  OBVIOUS
<1>3. PICK withdrawn : withdrawn = {r.rows[n].id : n \in DOMAIN r.rows}
  OBVIOUS
<1>4. PICK kept : kept = Cascade(deletePendingByJobIds(task, withdrawn), IdsOf(r.removed))
  OBVIOUS
<1>5. /\ Has(m, "written") /\ Free(DOMAIN r.seed.rows, m)
      /\ registration' = [registration EXCEPT ![m] = Null]
      /\ raced' = raced \cup (IF Registering \ {m} = {} THEN {} ELSE r.removed)
      /\ Unlock(m) /\ UNCHANGED <<now, lastId, pass, begun>>
  BY <1>1 DEF CommitRegistration, Has, Race
<1>6. PICK failing \in SUBSET DOMAIN r.seed.rows :
        /\ \A n \in Gone(r) : planOrDeferJobs(r.seed, failing)[n].occurrences = {}
        /\ IF failing = {} THEN UNCHANGED faults ELSE Fault
        /\ task' = insertIgnoringDuplicates(kept,
                     toNewOccurrences(r.seed, planOrDeferJobs(r.seed, failing)))
        /\ job' = advanceMany(stored, r.seed, planOrDeferJobs(r.seed, failing), failing)
  BY <1>1, <1>2, <1>3, <1>4, Zenon DEF CommitRegistration
<1>7. faults' \in 0..MaxFaults
  BY <1>6, ConstantTypes DEF JobInv, TypeOK, JobStoreTypeOK, Fault
<1>8. /\ DOMAIN r.rows \subseteq Names /\ r.removed \subseteq Names
      /\ \A n \in DOMAIN r.rows : Known(n, r.rows[n]) /\ r.rows[n].intact
      /\ r.seed.now \in 0..now
      /\ DOMAIN r.seed.rows \subseteq Names \ Degenerate
      /\ \A n \in DOMAIN r.seed.rows : Known(n, r.seed.rows[n])
  BY <1>1, <1>5 DEF JobInv, WrittenTypes
<1>9. /\ r.removed \cap (DOMAIN r.rows \cup DOMAIN r.seed.rows) = {}
      /\ \A n \in DOMAIN r.rows : Exists(n) => job[n].id = r.rows[n].id
      /\ \A n \in DOMAIN r.rows \cap DOMAIN r.seed.rows : r.seed.rows[n] = r.rows[n]
      /\ Held(m) = DOMAIN r.rows \cup r.removed
  BY <1>1, <1>5 DEF JobInv, WrittenFits, MainsHold
<1>10. now \in Nat /\ job \in Table
  BY Types DEF JobInv
<1>11. \A n \in Names : Exists(n) => Known(n, job[n])
  BY DEF JobInv, RowsKnown
<1>12. IsBatch(r.seed)
  BY <1>8, <1>10 DEF IsBatch, Known
<1>13. stored \in Table
  <2>1. \A n \in Names : (IF n \in r.removed THEN Null
                          ELSE IF n \in DOMAIN r.rows THEN r.rows[n]
                          ELSE job[n]) \in Row \cup {Null}
    BY <1>8, <1>10 DEF Table, Known
  <2>2. QED
    BY <1>2, <2>1 DEF Table
<1>14. /\ \A n \in r.removed : stored[n] = Null
       /\ \A n \in DOMAIN r.rows : n \notin r.removed /\ stored[n] = r.rows[n]
       /\ \A n \in Names : n \notin r.removed /\ n \notin DOMAIN r.rows => stored[n] = job[n]
  BY <1>2, <1>8, <1>9
<1>. DEFINE seeds == DOMAIN r.seed.rows \ Gone(r)
<1>15. /\ \A n \in seeds :
            n \notin r.removed /\ (n \notin DOMAIN r.rows => Exists(n) /\ job[n].id = r.seed.rows[n].id)
       /\ \A n \in DOMAIN r.seed.rows \ seeds :
            /\ n \in Names /\ n \notin DOMAIN r.rows /\ n \notin r.removed
            /\ ~(Exists(n) /\ job[n].id = r.seed.rows[n].id)
  BY <1>8, <1>9 DEF Gone
<1>. HIDE DEF seeds
<1>0. seeds \subseteq DOMAIN r.seed.rows
  BY DEF seeds
<1>16. /\ job' \in Table
       /\ \A n \in Names :
            /\ job'[n] = Null <=> stored[n] = Null
            /\ stored[n] # Null =>
                 /\ job'[n].id = stored[n].id
                 /\ job'[n].def = stored[n].def
                 /\ job'[n].intact = stored[n].intact
            /\ n \notin seeds => job'[n] = stored[n]
            /\ stored[n] # Null /\ stored[n].clock # Null => job'[n].clock # Null
            /\ stored[n] # Null /\ n \in DOMAIN r.seed.rows /\ stored[n].id = r.seed.rows[n].id =>
                 /\ job'[n].clock \in Nat
                 /\ job'[n].clock >= r.seed.rows[n].clock \/ job'[n].clock > r.seed.now + MaxSkew
  <2>1. /\ job' \in Table
        /\ \A n \in Names :
             /\ job'[n] = Null <=> stored[n] = Null
             /\ stored[n] # Null =>
                  /\ job'[n].id = stored[n].id
                  /\ job'[n].def = stored[n].def
                  /\ job'[n].intact = stored[n].intact
             /\ n \notin DOMAIN r.seed.rows => job'[n] = stored[n]
             /\ stored[n] # Null /\ stored[n].id # r.seed.rows[n].id => job'[n] = stored[n]
             /\ stored[n] = Null => job'[n] = stored[n]
             /\ stored[n] # Null /\ stored[n].clock # Null => job'[n].clock # Null
             /\ stored[n] # Null /\ n \in DOMAIN r.seed.rows /\ stored[n].id = r.seed.rows[n].id =>
                  /\ job'[n].clock \in Nat
                  /\ job'[n].clock >= r.seed.rows[n].clock \/ job'[n].clock > r.seed.now + MaxSkew
    BY <1>6, <1>12, <1>13, AdvanceKeeps
  <2>2. ASSUME NEW n \in Names, n \notin seeds PROVE job'[n] = stored[n]
    <3>1. CASE n \in DOMAIN r.seed.rows
      <4>1. stored[n] = job[n] /\ ~(Exists(n) /\ job[n].id = r.seed.rows[n].id)
        BY <1>14, <1>15, <2>2, <3>1
      <4>2. QED
        BY <2>1, <4>1 DEF Exists
    <3>2. CASE n \notin DOMAIN r.seed.rows
      BY <2>1, <3>2
    <3>3. QED
      BY <3>1, <3>2
  <2>3. QED
    BY <2>1, <2>2
<1>17. \A n \in r.removed : job'[n] = Null
  BY <1>8, <1>14, <1>16
<1>18. ASSUME NEW n \in DOMAIN r.rows
       PROVE  /\ n \notin r.removed /\ job'[n] # Null
              /\ job'[n].id = r.rows[n].id /\ job'[n].def = r.rows[n].def
              /\ job'[n].intact /\ (job'[n].clock = Null <=> n \in Degenerate)
              /\ n \notin seeds => job'[n] = r.rows[n]
  <2>1. /\ n \in Names /\ stored[n] = r.rows[n] /\ n \notin r.removed
        /\ r.rows[n] # Null /\ (r.rows[n].clock = Null <=> n \in Degenerate) /\ r.rows[n].intact
    BY <1>8, <1>14, RowAssumption DEF Known
  <2>2. n \in seeds => job'[n].clock \in Nat /\ n \notin Degenerate
    BY <1>0, <1>8, <1>9, <1>16, <2>1
  <2>3. QED
    BY <1>16, <2>1, <2>2, NullAssumption
<1>19. ASSUME NEW n \in seeds
       PROVE  /\ job'[n].clock \in Nat
              /\ job'[n].clock >= r.seed.rows[n].clock \/ job'[n].clock > r.seed.now + MaxSkew
  <2>1. stored[n] # Null /\ stored[n].id = r.seed.rows[n].id /\ n \in Names
    BY <1>0, <1>8, <1>9, <1>14, <1>15, RowAssumption DEF Known, Exists
  <2>2. QED
    BY <1>0, <1>16, <2>1
<1>20. ASSUME NEW n \in Names, n \notin r.removed, n \notin DOMAIN r.rows
       PROVE  /\ job'[n] = Null <=> job[n] = Null
              /\ job[n] # Null =>
                   /\ job'[n].id = job[n].id /\ job'[n].def = job[n].def
                   /\ job'[n].intact = job[n].intact
                   /\ (job'[n].clock = Null <=> n \in Degenerate)
              /\ n \notin seeds => job'[n] = job[n]
  <2>1. stored[n] = job[n] /\ (job[n] # Null => (job[n].clock = Null <=> n \in Degenerate))
    BY <1>11, <1>14, <1>20 DEF Known, Exists
  <2>2. n \in seeds => job'[n].clock \in Nat /\ n \notin Degenerate
    BY <1>0, <1>8, <1>19
  <2>3. QED
    BY <1>16, <2>1, <2>2, NullAssumption
<1>21. ASSUME NEW k \in task'
       PROVE  \/ k \in task /\ k.id \notin IdsOf(r.removed)
                   /\ (k.status = "pending" => \A n \in DOMAIN r.rows : k.id # r.rows[n].id)
              \/ /\ k \in Occurrence /\ k.name \in seeds
                 /\ k.id = r.seed.rows[k.name].id /\ k.def = r.seed.rows[k.name].def
                 /\ k.at >= r.seed.rows[k.name].clock
  <2>1. CASE k \in kept
    BY <1>3, <1>4, <2>1 DEF Cascade, deletePendingByJobIds
  <2>2. CASE k \notin kept
    <3>1. k \in toNewOccurrences(r.seed, planOrDeferJobs(r.seed, failing))
      BY <1>6, <2>2, InsertedTasks
    <3>2. /\ k \in Occurrence /\ k.name \in DOMAIN r.seed.rows
          /\ k.id = r.seed.rows[k.name].id /\ k.def = r.seed.rows[k.name].def
          /\ k.at >= r.seed.rows[k.name].clock
      BY <1>12, <3>1, RecordedFor
    <3>3. k.name \in seeds
      <4>. DEFINE plans == planOrDeferJobs(r.seed, failing)
      <4>1. PICK n \in DOMAIN plans : \E t \in plans[n].occurrences :
              k = [name |-> n, id |-> r.seed.rows[n].id, at |-> t,
                   def |-> r.seed.rows[n].def, status |-> "pending"]
        BY <3>1 DEF toNewOccurrences
      <4>2. plans[k.name].occurrences # {}
        BY <4>1
      <4>3. QED
        BY <1>6, <3>2, <4>2 DEF seeds
    <3>4. QED
      BY <3>2, <3>3
  <2>3. QED
    BY <2>1, <2>2
<1>22. QED
  BY <1>1, <1>5, <1>7, <1>12, <1>15, <1>16, <1>17, <1>18, <1>19, <1>20, <1>21 DEF seeds

LEMMA CommitKeeps ==
    ASSUME JobInv, NEW m \in Mains, CommitRegistration(m), UNCHANGED <<ran, behind>>
    PROVE  JobInv'
<1>1. PICK r, seeds : r = registration[m] /\ seeds = DOMAIN r.seed.rows \ Gone(r)
  OBVIOUS
<1>2. /\ Has(m, "written")
      /\ Free(DOMAIN r.seed.rows, m)
      /\ registration' = [registration EXCEPT ![m] = Null]
      /\ raced' = raced \cup (IF Registering \ {m} = {} THEN {} ELSE r.removed)
      /\ faults' \in 0..MaxFaults
      /\ Unlock(m) /\ UNCHANGED <<now, lastId, pass, begun>>
      /\ IsBatch(r.seed)
      /\ job' \in Table
  BY <1>1, WhatIsCommitted
<1>3. /\ \A n \in r.removed : job'[n] = Null
      /\ \A n \in DOMAIN r.rows :
           /\ n \notin r.removed /\ job'[n] # Null
           /\ job'[n].id = r.rows[n].id /\ job'[n].def = r.rows[n].def
           /\ job'[n].intact /\ (job'[n].clock = Null <=> n \in Degenerate)
           /\ n \notin seeds => job'[n] = r.rows[n]
      /\ \A n \in seeds :
           /\ n \in DOMAIN r.seed.rows /\ n \notin r.removed
           /\ n \notin DOMAIN r.rows => Exists(n) /\ job[n].id = r.seed.rows[n].id
           /\ job'[n].clock \in Nat
           /\ job'[n].clock >= r.seed.rows[n].clock \/ job'[n].clock > r.seed.now + MaxSkew
      /\ \A n \in Names : n \notin r.removed /\ n \notin DOMAIN r.rows =>
           /\ job'[n] = Null <=> job[n] = Null
           /\ job[n] # Null =>
                /\ job'[n].id = job[n].id /\ job'[n].def = job[n].def
                /\ job'[n].intact = job[n].intact
                /\ (job'[n].clock = Null <=> n \in Degenerate)
           /\ n \notin seeds => job'[n] = job[n]
  BY <1>1, WhatIsCommitted
<1>4. \A k \in task' :
        \/ k \in task /\ k.id \notin IdsOf(r.removed)
             /\ (k.status = "pending" => \A n \in DOMAIN r.rows : k.id # r.rows[n].id)
        \/ /\ k \in Occurrence /\ k.name \in seeds
           /\ k.id = r.seed.rows[k.name].id /\ k.def = r.seed.rows[k.name].def
           /\ k.at >= r.seed.rows[k.name].clock
  BY <1>1, WhatIsCommitted
<1>5. /\ DOMAIN r.rows \subseteq Names /\ r.removed \subseteq Names
      /\ \A n \in DOMAIN r.rows : Known(n, r.rows[n]) /\ r.rows[n].intact
      /\ r.seed.now \in 0..now
      /\ DOMAIN r.seed.rows \subseteq Names \ Degenerate
      /\ \A n \in DOMAIN r.seed.rows : Known(n, r.seed.rows[n])
  BY <1>1, <1>2 DEF JobInv, WrittenTypes
<1>6. /\ \A n \in r.removed : Exists(n)
      /\ \A n \in DOMAIN r.rows : Exists(n) => job[n].id = r.rows[n].id
      /\ \A n \in DOMAIN r.rows \cap DOMAIN r.seed.rows : r.seed.rows[n] = r.rows[n]
      /\ Held(m) = DOMAIN r.rows \cup r.removed
  BY <1>1, <1>2 DEF JobInv, WrittenFits, MainsHold
<1>7. /\ now \in Nat /\ DOMAIN registration = Mains /\ task \subseteq Occurrence /\ job \in Table
      /\ \A p \in Passes : pass[p] # Null => IsClaim(pass[p])
  BY Types DEF JobInv
<1>8. /\ DOMAIN registration' = Mains /\ registration'[m] = Null
      /\ \A i \in Mains \ {m} : registration'[i] = registration[i]
  BY <1>2, <1>7
<1>9. \A i \in Mains : \A s \in {"collected", "found", "written"} :
        Has(i, s)' => Has(i, s) /\ i # m /\ registration'[i] = registration[i]
  BY <1>8 DEF Has
<1>10. /\ \A n \in Names : lock[n] # m => lock'[n] = lock[n]
       /\ \A i \in Mains : Held(i)' = IF i = m THEN {} ELSE Held(i)
  BY <1>2, LocksOf DEF JobInv
<1>11. \A n \in Names : Exists(n)' <=> n \notin r.removed /\ (Exists(n) \/ n \in DOMAIN r.rows)
  BY <1>3 DEF Exists
\* What another holds is neither written nor seeded.
<1>12. ASSUME NEW q \in (Passes \cup Mains) \ {m}, NEW n \in Names, lock[n] = q
       PROVE  /\ job'[n] = job[n] /\ lock'[n] = q /\ n \notin DOMAIN r.rows
              /\ n \notin r.removed /\ n \notin DOMAIN r.seed.rows
  <2>1. n \notin Held(m)
    BY <1>12 DEF Held
  <2>2. n \notin DOMAIN r.seed.rows
    BY <1>2, <1>12, HoldersAssumption DEF Free
  <2>3. QED
    BY <1>3, <1>6, <1>10, <1>12, <2>1, <2>2
<1>13. TypeOK'
  <2>1. ProvisionerTypeOK'
    BY <1>2, <1>5, <1>8 DEF JobInv, TypeOK, ProvisionerTypeOK
  <2>2. lock' \in [Names -> Passes \cup Mains \cup {Null}]
    BY <1>2 DEF JobInv, TypeOK, JobStoreTypeOK, Unlock
  <2>3. task' \subseteq Occurrence
    BY <1>4, <1>7
  <2>4. QED
    BY <1>2, <2>1, <2>2, <2>3 DEF JobInv, TypeOK, JobStoreTypeOK, MaterializerTypeOK, IsClaim, Table
<1>14. RowsKnown'
  <2>1. SUFFICES ASSUME NEW n \in Names, Exists(n)' PROVE Known(n, job[n])'
    BY DEF RowsKnown
  <2>2. job'[n] \in Row
    BY <1>2, <2>1 DEF Table, Exists
  <2>3. CASE n \in DOMAIN r.rows
    BY <1>2, <1>3, <1>5, <2>2, <2>3 DEF Known
  <2>4. CASE n \notin DOMAIN r.rows
    BY <1>2, <1>3, <1>11, <2>1, <2>2, <2>4 DEF JobInv, RowsKnown, Known, Exists
  <2>5. QED
    BY <2>3, <2>4
<1>15. CollectedTypes'
  BY <1>9 DEF JobInv, CollectedTypes
<1>16. FoundTypes' /\ WrittenTypes'
  <2>1. FoundTypes'
    BY <1>2, <1>9 DEF JobInv, FoundTypes, Known
  <2>2. WrittenTypes'
    BY <1>2, <1>9 DEF JobInv, WrittenTypes, Known
  <2>3. QED
    BY <2>1, <2>2
<1>17. PassesHold'
  <2>1. SUFFICES ASSUME NEW q \in Passes, pass[q] # Null
                 PROVE  /\ pass[q].now <= now
                        /\ \A n \in DOMAIN pass[q].rows :
                             n \notin Degenerate /\ lock'[n] = q /\ Exists(n)' /\ job'[n] = pass[q].rows[n]
    BY <1>2 DEF PassesHold
  <2>2. /\ pass[q].now <= now /\ DOMAIN pass[q].rows \subseteq Names
        /\ \A n \in DOMAIN pass[q].rows :
             n \notin Degenerate /\ lock[n] = q /\ Exists(n) /\ job[n] = pass[q].rows[n]
    BY <1>7, <2>1 DEF JobInv, PassesHold, IsClaim
  <2>3. q # m
    BY HoldersAssumption
  <2>4. QED
    BY <1>11, <1>12, <2>2, <2>3
<1>18. MainsHold'
  BY <1>8, <1>10 DEF JobInv, MainsHold, Has
\* Another main's rows are untouched.
<1>19. ASSUME NEW i \in Mains, Has(i, "written")',
              NEW n \in DOMAIN registration[i].rows \cup registration[i].removed
       PROVE  /\ job'[n] = job[n] /\ n \in Names
              /\ n \notin DOMAIN r.rows /\ n \notin r.removed /\ n \notin DOMAIN r.seed.rows
  <2>1. i # m /\ n \in Held(i)
    BY <1>9, <1>19 DEF JobInv, MainsHold
  <2>2. n \in Names /\ lock[n] = i
    BY <2>1 DEF Held
  <2>3. QED
    BY <1>12, <2>1, <2>2
<1>20. WrittenFits'
  <2>1. SUFFICES ASSUME NEW i \in Mains, Has(i, "written")',
                        NEW v, v = registration[i]
                 PROVE  /\ v.removed \cap (DOMAIN v.rows \cup DOMAIN v.seed.rows) = {}
                        /\ \A n \in v.removed : Exists(n)'
                        /\ \A n \in DOMAIN v.rows : Exists(n)' => job'[n].id = v.rows[n].id
                        /\ \A n \in DOMAIN v.rows \cap DOMAIN v.seed.rows :
                             v.seed.rows[n] = v.rows[n]
    BY <1>9 DEF WrittenFits
  <2>2. Has(i, "written")
    BY <1>9, <2>1
  <2>3. QED
    BY <1>11, <1>19, <2>1, <2>2 DEF JobInv, WrittenFits
<1>21. ASSUME NEW k \in task, k.id \notin IdsOf(r.removed)
       PROVE  /\ k.name \in Names /\ Exists(k.name) /\ job[k.name].id = k.id
              /\ k.name \notin r.removed
              /\ k.name \in DOMAIN r.rows => k.id = r.rows[k.name].id
  <2>1. k.name \in Names /\ Exists(k.name) /\ job[k.name].id = k.id
    BY <1>7 DEF JobInv, TasksBelong, Occurrence
  <2>2. QED
    BY <1>6, <1>21, <2>1 DEF IdsOf
<1>22. TasksBelong'
  <2>1. SUFFICES ASSUME NEW k \in task' PROVE Exists(k.name)' /\ job'[k.name].id = k.id
    BY DEF TasksBelong
  <2>2. CASE k \in task /\ k.id \notin IdsOf(r.removed)
    BY <1>3, <1>11, <1>21, <2>2 DEF Exists
  <2>3. CASE k.name \in seeds /\ k.id = r.seed.rows[k.name].id
    BY <1>3, <1>5, <1>6, <1>11, <2>3 DEF Exists
  <2>4. QED
    BY <1>4, <2>2, <2>3
<1>23. PendingIsCurrent'
  <2>1. SUFFICES ASSUME NEW k \in task', k.status = "pending" PROVE job'[k.name].def = k.def
    BY <1>22 DEF PendingIsCurrent, TasksBelong
  <2>2. CASE k \in task /\ k.id \notin IdsOf(r.removed)
             /\ \A n \in DOMAIN r.rows : k.id # r.rows[n].id
    <3>1. k.name \in Names /\ Exists(k.name) /\ k.name \notin r.removed /\ k.name \notin DOMAIN r.rows
      BY <1>21, <2>2
    <3>2. QED
      BY <1>3, <2>1, <2>2, <3>1 DEF JobInv, PendingIsCurrent, Exists
  <2>3. CASE k.name \in seeds /\ k.def = r.seed.rows[k.name].def
    <3>1. CASE k.name \in DOMAIN r.rows
      BY <1>3, <1>6, <2>3, <3>1
    <3>2. CASE k.name \notin DOMAIN r.rows
      <4>1. Exists(k.name) /\ job[k.name].id = r.seed.rows[k.name].id /\ k.name \in Names
            /\ k.name \notin r.removed
        BY <1>3, <1>5, <2>3, <3>2
      <4>2. job[k.name].def = r.seed.rows[k.name].def
        BY <1>1, <1>2, <2>3, <3>2, <4>1 DEF JobInv, FreshWritten
      <4>3. QED
        BY <1>3, <2>3, <3>2, <4>1, <4>2 DEF Exists
    <3>3. QED
      BY <3>1, <3>2
  <2>4. QED
    BY <1>4, <2>1, <2>2, <2>3
<1>24. ASSUME NEW n \in Names, n \notin DOMAIN r.rows, n \notin r.removed, Exists(n), Fresh(n)
       PROVE  Fresh(n)'
  BY <1>3, <1>9, <1>24 DEF Fresh, Exists
\* A row just inserted is fresh to the others.
<1>25. ASSUME NEW n \in DOMAIN r.rows, ~Exists(n)
       PROVE  Fresh(n)'
  <2>1. job'[n].intact /\ job'[n].id = r.rows[n].id /\ n \in Names
    BY <1>3, <1>5
  <2>2. ASSUME NEW i \in Mains, Has(i, "found")', registration'[i].existing[n] # Null
        PROVE  registration'[i].existing[n].id # job'[n].id
    BY <1>1, <1>2, <1>9, <1>25, <2>1, <2>2 DEF JobInv, ReservedUnseen
  <2>3. ASSUME NEW i \in Mains, Has(i, "written")'
        PROVE  n \notin DOMAIN registration'[i].rows
    BY <1>9, <1>19, <2>3
  <2>4. QED
    BY <2>1, <2>2, <2>3 DEF Fresh
<1>26. FreshFound'
  <2>1. SUFFICES ASSUME NEW i \in Mains, Has(i, "found"), i # m,
                        NEW n \in DOMAIN registration[i].firstRun, n \in Names,
                        registration[i].existing[n] = Null, Exists(n)'
                 PROVE  Fresh(n)'
    BY <1>9 DEF FreshFound, JobInv, CollectedTypes
  <2>2. CASE Exists(n)
    <3>1. Fresh(n)
      BY <2>1, <2>2 DEF JobInv, FreshFound
    <3>2. n \notin DOMAIN r.rows
      BY <1>1, <1>2, <3>1 DEF Fresh
    <3>3. QED
      BY <1>11, <1>24, <2>1, <2>2, <3>1, <3>2
  <2>3. CASE ~Exists(n)
    BY <1>11, <1>25, <2>1, <2>3
  <2>4. QED
    BY <2>2, <2>3
<1>27. FreshWritten'
  <2>1. SUFFICES ASSUME NEW i \in Mains, Has(i, "written"), i # m, NEW v, v = registration[i],
                        NEW n \in DOMAIN v.seed.rows \ DOMAIN v.rows, n \in Names,
                        Exists(n)', job'[n].id = v.seed.rows[n].id
                 PROVE  Fresh(n)' /\ job'[n].def = v.seed.rows[n].def
    BY <1>9 DEF FreshWritten, JobInv, WrittenTypes
  <2>2. CASE Exists(n)
    <3>1. job[n].id = v.seed.rows[n].id
      BY <1>3, <1>6, <1>11, <2>1, <2>2 DEF Exists
    <3>2. Fresh(n) /\ job[n].def = v.seed.rows[n].def
      BY <2>1, <2>2, <3>1 DEF JobInv, FreshWritten
    <3>3. n \notin DOMAIN r.rows
      BY <1>1, <1>2, <3>2 DEF Fresh
    <3>4. QED
      BY <1>3, <1>11, <1>24, <2>1, <2>2, <3>2, <3>3 DEF Exists
  <2>3. CASE ~Exists(n)
    <3>1. n \in DOMAIN r.rows /\ job'[n].id = r.rows[n].id
      BY <1>3, <1>11, <2>1, <2>3
    <3>2. v.seed.rows[n].id # r.rows[n].id
      BY <1>1, <1>2, <2>1, <2>3, <3>1 DEF JobInv, ReservedUnseen
    <3>3. QED
      BY <2>1, <3>1, <3>2
  <2>4. QED
    BY <2>2, <2>3
<1>28. ReservedUnseen'
  <2>1. SUFFICES ASSUME NEW j \in Mains, Has(j, "written")', NEW n \in DOMAIN registration[j].rows,
                        ~Exists(n)', NEW i \in Mains
                 PROVE  /\ Has(i, "found")' /\ registration[i].existing[n] # Null =>
                             registration[i].existing[n].id # registration[j].rows[n].id
                        /\ Has(i, "written")' /\ n \in DOMAIN registration[i].seed.rows
                             /\ n \notin DOMAIN registration[i].rows =>
                             registration[i].seed.rows[n].id # registration[j].rows[n].id
    BY <1>9 DEF ReservedUnseen
  <2>2. ~Exists(n) /\ Has(j, "written")
    BY <1>9, <1>11, <1>19, <2>1
  <2>3. QED
    BY <1>9, <2>1, <2>2 DEF JobInv, ReservedUnseen
<1>29. RanKnown' /\ NoDoubleFire'
  <2>1. raced \subseteq raced'
    BY <1>2
  <2>2. QED
    BY <1>2, <2>1 DEF JobInv, RanKnown, NoDoubleFire
<1>30. RetiredBefore'
  <2>1. SUFFICES ASSUME NEW x \in ran, Retired(x)'
                 PROVE  (BeforeRow(x) /\ BeforeTasks(x) /\ BeforePasses(x) /\ BeforeRegistrations(x))'
    BY DEF RetiredBefore
  <2>2. x.name \in Names /\ x.at \in Nat
    BY <1>7 DEF JobInv, RanKnown
  <2>3. CASE ~Retired(x)
    <3>1. Exists(x.name) /\ job[x.name].id = x.id /\ x.name \notin raced' \cup behind
      BY <1>2, <2>1, <2>3 DEF Retired
    <3>2. x.name \in r.removed
      BY <1>3, <1>6, <1>11, <2>1, <2>2, <3>1 DEF Retired, Exists
    <3>3. Registering \ {m} = {}
      BY <1>2, <3>1, <3>2
    <3>4. \A i \in Mains : registration'[i] = Null
      BY <1>8, <3>3 DEF Registering
    <3>5. BeforeRegistrations(x)'
      BY <3>4 DEF BeforeRegistrations, Has
    <3>6. BeforeRow(x)'
      BY <1>11, <2>2, <3>2 DEF BeforeRow
    <3>7. \A k \in task' : k.name # x.name
      <4>1. SUFFICES ASSUME NEW k \in task', k.name = x.name PROVE FALSE
        OBVIOUS
      <4>2. Exists(k.name)'
        BY <1>22 DEF TasksBelong
      <4>3. QED
        BY <1>11, <2>2, <3>2, <4>1, <4>2
    <3>8. BeforeTasks(x)'
      BY <3>7 DEF BeforeTasks
    <3>9. BeforePasses(x)'
      <4>1. \A q \in Passes : pass[q] # Null => x.name \notin DOMAIN pass[q].rows
        <5>1. lock[x.name] = m
          BY <1>6, <2>2, <3>2 DEF Held
        <5>2. QED
          BY <5>1, HoldersAssumption DEF JobInv, PassesHold
      <4>2. QED
        BY <1>2, <4>1 DEF BeforePasses
    <3>10. QED
      BY <3>5, <3>6, <3>8, <3>9
  <2>4. CASE Retired(x)
    <3>1. BeforeRow(x) /\ BeforeTasks(x) /\ BeforePasses(x) /\ BeforeRegistrations(x)
      BY <2>4 DEF JobInv, RetiredBefore
    <3>2. /\ x.name \in DOMAIN r.rows \ Degenerate => x.at < r.rows[x.name].clock
          /\ x.name \in DOMAIN r.seed.rows =>
               x.at < r.seed.rows[x.name].clock /\ x.at <= r.seed.now + MaxSkew
      BY <1>1, <1>2, <3>1 DEF BeforeRegistrations
    <3>3. BeforeRow(x)'
      <4>1. SUFFICES ASSUME Exists(x.name)', job'[x.name].clock # Null PROVE x.at < job'[x.name].clock
        BY DEF BeforeRow
      <4>2. CASE x.name \in seeds
        <5>1. /\ job'[x.name].clock \in Nat
              /\ job'[x.name].clock >= r.seed.rows[x.name].clock \/ job'[x.name].clock > r.seed.now + MaxSkew
          BY <1>3, <4>2
        <5>2. r.seed.rows[x.name].clock \in Nat /\ r.seed.now \in Nat
          BY <1>3, <1>5, <1>7, <4>2, NullAssumption DEF Known, Row
        <5>3. QED
          BY <1>3, <2>2, <3>2, <4>2, <5>1, <5>2, ConstantTypes
      <4>3. CASE x.name \notin seeds /\ x.name \in DOMAIN r.rows
        BY <1>3, <3>2, <4>1, <4>3
      <4>4. CASE x.name \notin seeds /\ x.name \notin DOMAIN r.rows
        BY <1>3, <1>11, <2>2, <3>1, <4>1, <4>4 DEF BeforeRow, Exists
      <4>5. QED
        BY <4>2, <4>3, <4>4
    <3>4. BeforeTasks(x)'
      <4>1. SUFFICES ASSUME NEW k \in task', k.name = x.name PROVE x.at < k.at
        BY DEF BeforeTasks
      <4>2. CASE k \in task
        BY <3>1, <4>1, <4>2 DEF BeforeTasks
      <4>3. CASE k \in Occurrence /\ k.name \in seeds
                 /\ k.at >= r.seed.rows[k.name].clock
        <5>1. r.seed.rows[k.name].clock \in Nat /\ k.at \in Nat
          BY <1>3, <1>5, <4>3 DEF Known, Row, Occurrence
        <5>2. QED
          BY <1>3, <2>2, <3>2, <4>1, <4>3, <5>1
      <4>4. QED
        BY <1>4, <4>2, <4>3
    <3>5. BeforePasses(x)'
      BY <1>2, <3>1 DEF BeforePasses
    <3>6. BeforeRegistrations(x)'
      BY <1>9, <3>1 DEF BeforeRegistrations
    <3>7. QED
      BY <3>3, <3>4, <3>5, <3>6
  <2>5. QED
    BY <2>3, <2>4
<1>31. QED
  BY <1>13, <1>14, <1>15, <1>16, <1>17, <1>18, <1>20, <1>22, <1>23, <1>26, <1>27, <1>28, <1>29,
     <1>30 DEF JobInv

-----------------------------------------------------------------------------
LEMMA JobStep == JobInv /\ [Next]_vars => JobInv'
<1>. SUFFICES ASSUME JobInv, [Next]_vars PROVE JobInv'
  OBVIOUS
<1>0. ASSUME NEW m \in Mains, StartRegistration(m) PROVE JobInv'
  BY <1>0, CollectKeeps DEF StartRegistration
<1>1. ASSUME NEW p \in Passes, MaterializerStep(p) PROVE JobInv'
  BY <1>1, ClaimKeeps, RecordKeeps, AbandonPassKeeps DEF MaterializerStep
<1>2. ASSUME NEW m \in Mains, RegistrationStep(m) PROVE JobInv'
  <2>1. UNCHANGED <<ran, behind>>
    BY <1>2 DEF RegistrationStep
  <2>2. CASE FindExisting(m) \/ Write(m) \/ CommitRegistration(m)
    BY <2>1, <2>2, FindKeeps, WriteKeeps, CommitKeeps
  <2>3. CASE SeedFails(m) \/ AbandonRegistration(m)
    <3>1. /\ Unlock(m) /\ registration' = [registration EXCEPT ![m] = Null]
          /\ UNCHANGED <<now, job, task, lastId, pass, begun, raced>>
      BY <2>3 DEF SeedFails, AbandonRegistration
    <3>2. faults' \in 0..MaxFaults
      BY <2>3, ConstantTypes
         DEF SeedFails, AbandonRegistration, Fault, JobInv, TypeOK, JobStoreTypeOK
    <3>3. QED
      BY <2>1, <3>1, <3>2, GiveUpKeeps
  <2>4. QED
    BY <1>2, <2>2, <2>3 DEF RegistrationStep
<1>3. CASE RemoveWorkflow /\ UNCHANGED <<ran, behind>>
  BY <1>3, RemoveKeeps
<1>4. ASSUME NEW k \in task, Start(k) PROVE JobInv'
  BY <1>4, StartKeeps
<1>5. ASSUME NEW n \in Names, Corrupt(n) PROVE JobInv'
  BY <1>5, CorruptKeeps
<1>6. CASE Tick
  BY <1>6, TickKeeps
<1>7. CASE UNCHANGED vars
  <2>1. UNCHANGED <<now, job, task, lock, lastId, faults, pass, registration, begun, raced, ran, behind>>
    BY <1>7 DEF vars, storeVars
  <2>2. TypeOK'
    BY <2>1 DEF JobInv, TypeOK, JobStoreTypeOK, MaterializerTypeOK, ProvisionerTypeOK, IsClaim
  <2>3. PassesHold' /\ \A m \in Mains : Held(m)' = Held(m)
    BY <2>1 DEF JobInv, PassesHold, Exists, Held
  <2>4. \A x \in ran : Retired(x) => BeforePasses(x)'
    BY <2>1 DEF JobInv, RetiredBefore, BeforePasses
  <2>5. now \in Nat
    BY Types DEF JobInv
  <2>6. QED
    BY <2>1, <2>2, <2>3, <2>4, <2>5, QuietStep
<1>8. QED
  BY <1>0, <1>1, <1>2, <1>3, <1>4, <1>5, <1>6, <1>7 DEF Next

\* The invariant of the materializer, the provisioner and the executor over one
\* database: what a pass or a registration holds nobody else changes, what it has
\* read without a lock is either still so or recognisably of another row,
\* and what a job that is gone has fired lies before all that may start under its
\* name, on clocks up to MaxSkew off the database's (clock-skew.ts): but for the
\* rules removed beside a registration, or registered on a clock behind.
THEOREM JobInvariance == Spec => []JobInv
<1>1. Init => JobInv
  BY JobInitial
<1>2. JobInv /\ [Next]_vars => JobInv'
  BY JobStep
<1>3. QED
  BY <1>1, <1>2, PTL DEF Spec

\* Every row, task, claim and registration is of its type, and a job that was
\* deferred keeps an instant to count from (materialize, provision).
THEOREM JobTypeCorrect == Spec => []TypeOK
<1>1. JobInv => TypeOK
  BY DEF JobInv
<1>2. QED
  BY <1>1, JobInvariance, PTL

\* provision and materialize: a waiting task is of the definition its job has
\* now, whatever two mains, passes, faults and removals do between.
THEOREM PendingOfCurrentDefinition == Spec => []PendingIsCurrent
<1>1. JobInv => PendingIsCurrent
  BY DEF JobInv
<1>2. QED
  BY <1>1, JobInvariance, PTL

\* provision: no rule is started twice for one instant under two job ids, with
\* every clock up to MaxSkew off the database's, unless it was removed while a
\* registration was under way or registered on a clock behind one of its fires.
THEOREM OneInstantOneFire == Spec => []NoDoubleFire
<1>1. JobInv => NoDoubleFire
  BY DEF JobInv
<1>2. QED
  BY <1>1, JobInvariance, PTL

\* Where the clocks agree, no rule is registered on one behind its fires.
NeverBehind == MaxSkew = 0 => behind = {}

LEMMA AgreeingClocksAreNeverBehind == Spec => []NeverBehind
<1>1. Init => NeverBehind
  BY DEF Init, NeverBehind
<1>2. JobInv /\ NeverBehind /\ [Next]_vars => NeverBehind'
  <2>. SUFFICES ASSUME JobInv, behind = {}, [Next]_vars, MaxSkew = 0 PROVE behind' = {}
    BY DEF NeverBehind
  <2>1. ASSUME NEW m \in Mains, StartRegistration(m) PROVE behind' = {}
    <3>1. PICK r \in ClockReadings :
            behind' = behind \cup (DOMAIN registration'[m].firstRun \cap Overtaken(r))
      BY <2>1 DEF StartRegistration
    <3>2. now \in Nat
      BY Types DEF JobInv
    <3>3. r = now
      BY <3>2 DEF ClockReadings
    <3>4. \A x \in ran : x.at \in Nat /\ x.at <= now
      BY <3>2 DEF JobInv, RanKnown
    <3>5. Overtaken(r) = {}
      BY <3>2, <3>3, <3>4 DEF Overtaken
    <3>6. QED
      BY <3>1, <3>5
  <2>2. ASSUME NEW p \in Passes, MaterializerStep(p) PROVE behind' = {}
    BY <2>2 DEF MaterializerStep
  <2>3. ASSUME NEW m \in Mains, RegistrationStep(m) PROVE behind' = {}
    BY <2>3 DEF RegistrationStep
  <2>4. ASSUME NEW k \in task, Start(k) PROVE behind' = {}
    BY <2>4 DEF Start
  <2>5. ASSUME NEW n \in Names, Corrupt(n) PROVE behind' = {}
    BY <2>5 DEF Corrupt
  <2>6. CASE Tick
    BY <2>6 DEF Tick
  <2>7. CASE UNCHANGED vars
    BY <2>7 DEF vars
  <2>8. QED
    BY <2>1, <2>2, <2>3, <2>4, <2>5, <2>6, <2>7 DEF Next
<1>3. QED
  BY <1>1, <1>2, JobInvariance, PTL DEF Spec

\* No rule is started twice for one instant, the clocks agreeing.
OnceOnAgreeingClocks ==
    MaxSkew = 0 =>
      \A x, y \in ran :
        x.name = y.name /\ x.at = y.at /\ x.name \notin raced => x.id = y.id

\* computeFirstRunAt on the registrar's clock: where the clocks of the mains and
\* the database agree, no rule is started twice for one instant under two job
\* ids, over every order of registrations, removals and fires, unless it was
\* removed while a registration was under way.
THEOREM AgreeingClocksFireOnce == Spec => []OnceOnAgreeingClocks
<1>1. NoDoubleFire /\ NeverBehind => OnceOnAgreeingClocks
  BY DEF NoDoubleFire, NeverBehind, OnceOnAgreeingClocks
<1>2. QED
  BY <1>1, OneInstantOneFire, AgreeingClocksAreNeverBehind, PTL

-----------------------------------------------------------------------------
(* Plans against the reference.                                            *)

\* A schedule a plan may be made for: one of a trigger node's rules whose
\* periods all hold a match, or a job that runs once.
Plannable(s) == Cadenced(s) \/ s \in [kind : {"one_off"}, fireAt : Nat]

\* A plan of a schedule, its first fire being `first`.
PlanMatches(s, first, at, window, max) ==
    LET plan == planOccurrences(s, first, at, window, max)
        upTo == IF plan.nextRunAt = Null THEN at + window ELSE plan.nextRunAt
    IN  /\ plan.occurrences \cup ({plan.nextRunAt} \ {Null}) = ReferenceFires(s, first, upTo)
        /\ \A t \in plan.occurrences : t <= at + window
        /\ Cardinality(plan.occurrences) = max \/ upTo >= at + window

\* A job that runs once is planned once.
LEMMA PlanOfOneOff ==
    ASSUME NEW s \in [kind : {"one_off"}, fireAt : Nat], NEW first \in Nat,
           NEW at \in Nat, NEW window \in Nat, NEW max \in Nat \ {0}
    PROVE  PlanMatches(s, first, at, window, max)
<1>. DEFINE Steps(g) == [n \in 0..max |->
                           IF n = 0 THEN first
                           ELSE IF s.kind = "one_off" \/ g[n - 1] = Null THEN Null
                           ELSE computeNextRunAt(s, g[n - 1])]
            f == occurrencesFrom(s, first, max)
            kept == {n \in 0..(max - 1) : f[n] # Null /\ f[n] <= at + window}
            plan == planOccurrences(s, first, at, window, max)
<1>1. s.kind = "one_off"
  OBVIOUS
<1>2. \A g : Steps(g) = [n \in 0..max |-> IF n = 0 THEN first ELSE Null]
  BY <1>1
<1>3. f = CHOOSE h : h = Steps(h)
  BY Zenon DEF occurrencesFrom
<1>4. f = Steps(f)
  <2>. HIDE DEF f
  <2>1. \E h : h = Steps(h)
    BY <1>2
  <2>2. QED
    BY <1>3, <2>1
<1>5. plan = [occurrences |-> {f[n] : n \in kept}, nextRunAt |-> f[Cardinality(kept)]]
  BY DEF planOccurrences
<1>. HIDE DEF f, plan
<1>6. f[0] = first /\ \A n \in 1..max : f[n] = Null
  <2>1. f = [n \in 0..max |-> IF n = 0 THEN first ELSE Null]
    BY <1>2, <1>4
  <2>2. 0 \in 0..max
    OBVIOUS
  <2>3. QED
    BY <2>1, <2>2
<1>7. first # Null
  BY NullAssumption
<1>8. \A limit \in Nat : first <= limit => ReferenceFires(s, first, limit) = {first}
  BY <1>1 DEF ReferenceFires
<1>9. CASE first <= at + window
  <2>1. kept = {0}
    BY <1>6, <1>7, <1>9
  <2>2. Cardinality(kept) = 1
    BY <2>1, FS_Singleton
  <2>3. 1 \in 1..max
    OBVIOUS
  <2>. HIDE DEF kept
  <2>4. {f[n] : n \in kept} = {first}
    BY <1>6, <2>1
  <2>5. plan.occurrences = {first} /\ plan.nextRunAt = Null
    BY <1>5, <1>6, <2>2, <2>3, <2>4
  <2>6. {first} \cup ({Null} \ {Null}) = {first}
    OBVIOUS
  <2>7. at + window \in Nat
    OBVIOUS
  <2>8. QED
    BY <1>8, <1>9, <2>5, <2>6, <2>7 DEF PlanMatches, plan
<1>10. CASE first > at + window
  <2>1. kept = {}
    BY <1>6, <1>10
  <2>2. Cardinality(kept) = 0
    BY <2>1, FS_EmptySet
  <2>. HIDE DEF kept
  <2>3. plan.occurrences = {} /\ plan.nextRunAt = first
    BY <1>5, <1>6, <2>1, <2>2
  <2>4. {} \cup ({first} \ {Null}) = {first}
    BY <1>7
  <2>5. QED
    BY <1>7, <1>8, <1>10, <2>3, <2>4 DEF PlanMatches, plan
<1>11. QED
  BY <1>9, <1>10

LEMMA PlanOfCadenced ==
    ASSUME NEW s, Cadenced(s), NEW first \in Nat,
           NEW at \in Nat, NEW window \in Nat, NEW max \in Nat
    PROVE  PlanMatches(s, first, at, window, max)
<1>. DEFINE plan == planOccurrences(s, first, at, window, max)
            next == plan.nextRunAt
<1>1. Fires(s, first, first)
  BY FiresAre
<1>2. /\ next \in Nat /\ next >= first
      /\ Fires(s, first, next)
      /\ plan.occurrences = {t \in Nat : first <= t /\ t < next /\ Fires(s, first, t)}
      /\ \A t \in plan.occurrences : t <= at + window
      /\ Cardinality(plan.occurrences) = max \/ next > at + window
  BY <1>1, PlanFires
<1>. HIDE DEF plan
<1>3. next # Null
  BY <1>2, NullAssumption
<1>4. \A t : t \in ReferenceFires(s, first, next) <=> t \in Nat /\ t <= next /\ Fires(s, first, t)
  BY <1>2, ReferenceMember
<1>5. \A t \in Nat : Fires(s, first, t) => first <= t
  BY FiresAre
<1>6. plan.occurrences \cup ({next} \ {Null}) = ReferenceFires(s, first, next)
  <2>1. ASSUME NEW t \in ReferenceFires(s, first, next)
        PROVE  t \in plan.occurrences \/ t = next
    <3>1. t \in Nat /\ t <= next /\ Fires(s, first, t)
      BY <1>4
    <3>2. t = next \/ t < next
      BY <1>2, <3>1
    <3>3. QED
      BY <1>2, <1>5, <3>1, <3>2
  <2>2. ASSUME NEW t \in plan.occurrences PROVE t \in ReferenceFires(s, first, next)
    <3>1. t \in Nat /\ t < next /\ Fires(s, first, t)
      BY <1>2
    <3>2. t <= next
      BY <1>2, <3>1
    <3>3. QED
      BY <1>4, <3>1, <3>2
  <2>3. next \in ReferenceFires(s, first, next)
    BY <1>2, <1>4
  <2>4. QED
    BY <1>3, <2>1, <2>2, <2>3
<1>7. Cardinality(plan.occurrences) = max \/ next >= at + window
  BY <1>2
<1>8. QED
  BY <1>2, <1>3, <1>6, <1>7 DEF PlanMatches, plan

\* planOccurrences is right for every schedule a job may have, every first fire,
\* every time of planning, window and batch size: it records the fires before
\* the clock it leaves and no other, none beyond the window, and stops only at
\* the end of the window or of the batch.  The walk of the code goes from one
\* fire to the next; the reference takes every fire counted from the first.
THEOREM PlansRecordTheFires ==
    ASSUME NEW s, Plannable(s), NEW first \in Nat,
           NEW at \in Nat, NEW window \in Nat, NEW max \in Nat \ {0}
    PROVE  PlanMatches(s, first, at, window, max)
BY PlanOfOneOff, PlanOfCadenced DEF Plannable

\* What a run compares over its bounds, for any set of such schedules.
THEOREM PlansAgree ==
    ASSUME \A s \in PlannedSchedules : Plannable(s)
    PROVE  Spec => []PlansMatchReference
<1>1. PlansMatchReference
  <2>1. \A s \in PlannedSchedules, first \in 0..5, at \in 0..9, max \in 1..4 :
          PlanMatches(s, first, at, Window, max)
    BY PlansRecordTheFires, ConstantTypes
  <2>2. QED
    BY <2>1 DEF PlansMatchReference, PlanMatches
<1>2. QED
  BY <1>1, PTL

-----------------------------------------------------------------------------
(* Nothing is skipped, where every rule fires in each of its periods.      *)

AllCadenced == \A n \in Names : Cadenced(ScheduleOf[n])

\* The clock of the row is a fire, and every fire before it has its task.
Covered(tasks, n, row) ==
    /\ Fires(ScheduleOf[n], row.since, row.clock)
    /\ \A t \in Nat : t < row.clock /\ Fires(ScheduleOf[n], row.since, t) =>
         \E k \in tasks : k.id = row.id /\ k.at = t

StoreCovered == \A n \in Names \ Degenerate : Exists(n) => Covered(task, n, job[n])

\* So it is for the rows a main seeds although another inserted them, as they
\* were when it read them.
SeedCovered ==
    \A m \in Mains : Has(m, "written") =>
        \A n \in DOMAIN registration[m].seed.rows \ DOMAIN registration[m].rows :
            Exists(n) /\ job[n].id = registration[m].seed.rows[n].id =>
                Covered(task, n, registration[m].seed.rows[n])

\* A row written counts its fires from its first run.
WrittenAnew ==
    \A m \in Mains : Has(m, "written") =>
        \A n \in DOMAIN registration[m].rows \ Degenerate :
            registration[m].rows[n].since = registration[m].rows[n].clock

\* The withdrawal and the deletion of tasks by id reach no other job's.
StoredIdsDiffer ==
    \A n, k \in Names : Exists(n) /\ Exists(k) /\ job[n].id = job[k].id => n = k

ReservedIdsDiffer ==
    \A i \in Mains : Has(i, "written") =>
        \A n \in DOMAIN registration[i].rows : ~Exists(n) =>
            /\ \A k \in Names : Exists(k) => job[k].id # registration[i].rows[n].id
            /\ \A j \in Mains : Has(j, "written") =>
                 \A k \in DOMAIN registration[j].rows :
                     ~Exists(k) /\ registration[j].rows[k].id = registration[i].rows[n].id => k = n

SkipInv ==
    /\ StoreCovered
    /\ SeedCovered
    /\ WrittenAnew
    /\ StoredIdsDiffer
    /\ ReservedIdsDiffer

LEMMA CoveredStays ==
    ASSUME NEW n, NEW row, NEW tasks, Covered(tasks, n, row), NEW more,
           \A k \in tasks : k.id = row.id => \E j \in more : j.id = k.id /\ j.at = k.at,
           NEW same, same.id = row.id, same.clock = row.clock, same.since = row.since
    PROVE  Covered(more, n, same)
BY DEF Covered

\* A clock set by hand has no fire before it.
LEMMA CoveredAnew ==
    ASSUME NEW n, NEW row, row.clock \in Nat, row.since = row.clock, NEW tasks
    PROVE  Covered(tasks, n, row)
<1>1. Fires(ScheduleOf[n], row.since, row.clock)
  BY FiresAre
<1>2. \A t \in Nat : Fires(ScheduleOf[n], row.since, t) => row.since <= t
  BY FiresAre
<1>3. QED
  BY <1>1, <1>2 DEF Covered

\* The tasks recorded with a plan cover the clock it leaves.
LEMMA AdvanceCovers ==
    ASSUME AllCadenced, NEW rows \in Table, NEW c, IsBatch(c), NEW failing, NEW tasks,
           NEW n \in DOMAIN c.rows, rows[n] # Null, rows[n].id = c.rows[n].id,
           Covered(tasks, n, c.rows[n])
    PROVE  Covered(insertIgnoringDuplicates(tasks,
                     toNewOccurrences(c, planOrDeferJobs(c, failing))),
                   n, advanceMany(rows, c, planOrDeferJobs(c, failing), failing)[n])
<1>1. PICK row : row = c.rows[n]
  OBVIOUS
<1>2. n \in Names /\ row \in Row /\ row.clock \in Nat /\ row.since \in Nat /\ c.now \in Nat
  BY <1>1 DEF IsBatch, Row
<1>3. PICK plans : plans = planOrDeferJobs(c, failing)
  OBVIOUS
<1>4. /\ DOMAIN plans = DOMAIN c.rows
      /\ plans[n] = planOrDeferJob(n, row, c.now, failing)
  BY <1>1, <1>3 DEF planOrDeferJobs
<1>5. PICK all : all = insertIgnoringDuplicates(tasks, toNewOccurrences(c, plans))
  OBVIOUS
<1>6. PICK after : after = advanceMany(rows, c, plans, failing)[n]
  OBVIOUS
<1>7. after = [rows[n] EXCEPT !.clock = plans[n].nextRunAt,
                              !.since = Anchor(n, row, plans[n], failing)]
  BY <1>1, <1>2, <1>4, <1>6 DEF advanceMany
<1>8. rows[n] \in Row
  BY <1>2 DEF Table
<1>9. /\ after.id = row.id /\ after.clock = plans[n].nextRunAt
      /\ after.since = Anchor(n, row, plans[n], failing)
  BY <1>1, <1>7, <1>8 DEF Row
<1>10. CASE row.intact /\ n \notin failing
  <2>1. plans[n] = planOccurrences(ScheduleOf[n], row.clock, c.now, Window, MaxPerJob)
    BY <1>4, <1>10 DEF planOrDeferJob
  <2>2. after.since = row.since
    BY <1>9, <1>10 DEF Anchor
  <2>3. /\ Fires(ScheduleOf[n], row.since, row.clock)
        /\ \A t \in Nat : t < row.clock /\ Fires(ScheduleOf[n], row.since, t) =>
             \E k \in tasks : k.id = row.id /\ k.at = t
    BY <1>1 DEF Covered
  <2>4. /\ after.clock \in Nat
        /\ Fires(ScheduleOf[n], row.since, after.clock)
        /\ plans[n].occurrences = {t \in Nat : /\ row.clock <= t /\ t < after.clock
                                               /\ Fires(ScheduleOf[n], row.since, t)}
    <3>1. Cadenced(ScheduleOf[n]) /\ Window \in Nat /\ MaxPerJob \in Nat
      BY <1>2, ConstantTypes DEF AllCadenced
    <3>2. PICK s : s = ScheduleOf[n]
      OBVIOUS
    <3>3. PICK since, first, at, window, max \in Nat :
            /\ since = row.since /\ first = row.clock /\ at = c.now
            /\ window = Window /\ max = MaxPerJob
      BY <1>2, <3>1
    <3>4. Cadenced(s) /\ Fires(s, since, first)
      BY <2>3, <3>1, <3>2, <3>3
    <3>. DEFINE plan == planOccurrences(s, first, at, window, max)
    <3>5. /\ plan.nextRunAt \in Nat /\ plan.nextRunAt >= first
          /\ Fires(s, since, plan.nextRunAt)
          /\ plan.occurrences =
               {t \in Nat : first <= t /\ t < plan.nextRunAt /\ Fires(s, since, t)}
          /\ \A t \in plan.occurrences : t <= at + window
          /\ Cardinality(plan.occurrences) = max \/ plan.nextRunAt > at + window
      BY <3>4, PlanFires
    <3>6. plans[n] = plan
      BY <2>1, <3>2, <3>3
    <3>. HIDE DEF plan
    <3>7. QED
      BY <1>9, <3>2, <3>3, <3>5, <3>6
  <2>5. ASSUME NEW t \in plans[n].occurrences
        PROVE  \E k \in all : k.id = row.id /\ k.at = t
    <3>. DEFINE k == [name |-> n, id |-> c.rows[n].id, at |-> t,
                      def |-> c.rows[n].def, status |-> "pending"]
    <3>1. k \in toNewOccurrences(c, plans)
      BY <1>4 DEF toNewOccurrences
    <3>2. k.id = row.id /\ k.at = t
      BY <1>1
    <3>. HIDE DEF k
    <3>3. QED
      BY <1>5, <3>1, <3>2 DEF insertIgnoringDuplicates
  <2>6. tasks \subseteq all
    BY <1>5 DEF insertIgnoringDuplicates
  <2>7. ASSUME NEW t \in Nat, t < after.clock, Fires(ScheduleOf[n], after.since, t)
        PROVE  \E k \in all : k.id = after.id /\ k.at = t
    <3>1. CASE t < row.clock
      BY <1>9, <2>2, <2>3, <2>6, <2>7, <3>1
    <3>2. CASE row.clock <= t
      BY <1>9, <2>2, <2>4, <2>5, <2>7, <3>2
    <3>3. QED
      BY <1>2, <3>1, <3>2
  <2>8. Covered(all, n, after)
    BY <2>2, <2>4, <2>7 DEF Covered
  <2>9. QED
    BY <1>3, <1>5, <1>6, <2>8
<1>11. CASE ~(row.intact /\ n \notin failing)
  <2>1. plans[n].nextRunAt = c.now + PlanRetry
    BY <1>4, <1>11 DEF planOrDeferJob
  <2>2. after.since = plans[n].nextRunAt
    BY <1>9, <1>11 DEF Anchor
  <2>3. after.clock \in Nat /\ after.since = after.clock
    BY <1>2, <1>9, <2>1, <2>2, ConstantTypes
  <2>4. Covered(all, n, after)
    BY <2>3, CoveredAnew
  <2>5. QED
    BY <1>3, <1>5, <1>6, <2>4
<1>12. QED
  BY <1>10, <1>11

LEMMA SkipInitial == Init => SkipInv
<1>. SUFFICES ASSUME Init PROVE SkipInv
  OBVIOUS
<1>1. job = [n \in Names |-> Null] /\ registration = [m \in Mains |-> Null]
  BY DEF Init, JobStoreInit, ProvisionerInit
<1>2. \A n \in Names : ~Exists(n)
  BY <1>1 DEF Exists
<1>3. \A m \in Mains : \A s : ~Has(m, s)
  BY <1>1 DEF Has
<1>4. QED
  BY <1>2, <1>3 DEF SkipInv, StoreCovered, SeedCovered, WrittenAnew, StoredIdsDiffer,
                    ReservedIdsDiffer

\* A step that leaves the rows and what is written alone, and loses no task.
LEMMA SkipQuiet ==
    ASSUME SkipInv, UNCHANGED job,
           \A k \in task : \E j \in task' : j.id = k.id /\ j.at = k.at,
           \A m \in Mains : Has(m, "written")' =>
               Has(m, "written") /\ registration'[m] = registration[m]
    PROVE  SkipInv'
<1>1. \A n : Exists(n)' <=> Exists(n)
  BY DEF Exists
<1>2. ASSUME NEW n, NEW row, Covered(task, n, row) PROVE Covered(task', n, row)
  BY <1>2, CoveredStays
<1>3. StoreCovered'
  BY <1>1, <1>2 DEF SkipInv, StoreCovered
<1>4. SeedCovered'
  BY <1>1, <1>2 DEF SkipInv, SeedCovered
<1>5. WrittenAnew'
  BY DEF SkipInv, WrittenAnew
<1>6. StoredIdsDiffer' /\ ReservedIdsDiffer'
  BY <1>1 DEF SkipInv, StoredIdsDiffer, ReservedIdsDiffer
<1>7. QED
  BY <1>3, <1>4, <1>5, <1>6 DEF SkipInv

LEMMA StartCovers ==
    ASSUME JobInv, SkipInv, NEW k \in task, Start(k)
    PROVE  SkipInv'
<1>. DEFINE started == [k EXCEPT !.status = "started"]
<1>1. task' = (task \ {k}) \cup {started} /\ UNCHANGED <<job, registration>>
  BY DEF Start
<1>2. k \in Occurrence
  BY Types DEF JobInv
<1>3. started.id = k.id /\ started.at = k.at
  BY <1>2 DEF Occurrence
<1>. HIDE DEF started
<1>4. \A x \in task : \E j \in task' : j.id = x.id /\ j.at = x.at
  BY <1>1, <1>3
<1>5. \A m \in Mains : Has(m, "written")' =>
        Has(m, "written") /\ registration'[m] = registration[m]
  BY <1>1 DEF Has
<1>6. QED
  BY <1>1, <1>4, <1>5, SkipQuiet

LEMMA CorruptCovers ==
    ASSUME JobInv, SkipInv, NEW d \in Names, Corrupt(d)
    PROVE  SkipInv'
<1>1. /\ Exists(d) /\ Registering = {} /\ job' = [job EXCEPT ![d].intact = FALSE]
      /\ UNCHANGED <<task, registration>>
  BY DEF Corrupt
<1>2. DOMAIN job = Names /\ job[d] \in Row
  BY <1>1, Types DEF JobInv
<1>3. job'[d] = [job[d] EXCEPT !.intact = FALSE] /\ \A n \in Names \ {d} : job'[n] = job[n]
  BY <1>1, <1>2
<1>4. \A n \in Names : Exists(n)' => Exists(n)
  BY <1>1, <1>3 DEF Exists
<1>5. \A n \in Names : /\ job'[n].id = job[n].id /\ job'[n].clock = job[n].clock
                       /\ job'[n].since = job[n].since
  BY <1>2, <1>3 DEF Row
<1>6. \A m \in Mains : ~Has(m, "written")'
  BY <1>1 DEF Has, Registering
<1>7. StoreCovered'
  <2>1. SUFFICES ASSUME NEW n \in Names \ Degenerate, Exists(n)' PROVE Covered(task', n, job'[n])
    BY DEF StoreCovered
  <2>2. Covered(task, n, job[n])
    BY <1>4, <2>1 DEF SkipInv, StoreCovered
  <2>3. QED
    BY <1>1, <1>5, <2>2, CoveredStays
<1>8. StoredIdsDiffer'
  BY <1>4, <1>5 DEF SkipInv, StoredIdsDiffer
<1>9. QED
  BY <1>6, <1>7, <1>8 DEF SkipInv, SeedCovered, WrittenAnew, ReservedIdsDiffer

LEMMA RemoveCovers ==
    ASSUME JobInv, SkipInv, RemoveWorkflow
    PROVE  SkipInv'
<1>1. /\ \A n \in Names : Exists(n) => lock[n] = Null
      /\ job' = [n \in Names |-> Null] /\ UNCHANGED registration
  BY DEF RemoveWorkflow
<1>2. \A n \in Names : ~Exists(n)'
  BY <1>1 DEF Exists
<1>3. \A m \in Mains : Has(m, "written")' => Has(m, "written") /\ registration'[m] = registration[m]
  BY <1>1 DEF Has
<1>4. \A m \in Mains : Has(m, "written") =>
        /\ DOMAIN registration[m].rows \subseteq Names
        /\ DOMAIN registration[m].seed.rows \subseteq Names \ Degenerate
        /\ \A n \in DOMAIN registration[m].rows : ~Exists(n)
  <2>1. \A m \in Mains : \A n \in Held(m) : ~Exists(n)
    BY <1>1, HoldersAssumption DEF Held
  <2>2. QED
    BY <2>1 DEF JobInv, MainsHold, WrittenTypes
<1>5. StoreCovered' /\ SeedCovered' /\ StoredIdsDiffer'
  BY <1>2, <1>3, <1>4 DEF StoreCovered, SeedCovered, StoredIdsDiffer
<1>6. WrittenAnew'
  BY <1>3 DEF SkipInv, WrittenAnew
<1>7. ReservedIdsDiffer'
  BY <1>2, <1>3, <1>4 DEF SkipInv, ReservedIdsDiffer
<1>8. QED
  BY <1>5, <1>6, <1>7 DEF SkipInv

LEMMA RecordCovers ==
    ASSUME AllCadenced, JobInv, SkipInv, NEW p \in Passes, RecordAndAdvance(p),
           UNCHANGED registration
    PROVE  SkipInv'
<1>1. PICK c : c = pass[p]
  OBVIOUS
<1>2. PICK failing \in SUBSET DOMAIN c.rows :
        /\ task' = insertIgnoringDuplicates(task,
                     toNewOccurrences(c, planOrDeferJobs(c, failing)))
        /\ job' = advanceMany(job, c, planOrDeferJobs(c, failing), failing)
  BY <1>1, Zenon DEF RecordAndAdvance
<1>3. c # Null /\ job \in Table /\ IsClaim(c) /\ c.now \in Nat
  BY <1>1, Types DEF JobInv, RecordAndAdvance
<1>4. \A n \in DOMAIN c.rows : n \in Names \ Degenerate /\ Exists(n) /\ job[n] = c.rows[n]
  BY <1>1, <1>3 DEF JobInv, PassesHold, IsClaim
<1>5. IsBatch(c)
  BY <1>3, <1>4 DEF IsBatch, IsClaim, JobInv, RowsKnown, Known
<1>6. \A n \in Names :
        /\ job'[n] = Null <=> job[n] = Null
        /\ job[n] # Null => job'[n].id = job[n].id
        /\ n \notin DOMAIN c.rows => job'[n] = job[n]
  BY <1>2, <1>3, <1>5, AdvanceKeeps
<1>7. task \subseteq task'
  BY <1>2 DEF insertIgnoringDuplicates
<1>8. \A n \in Names : Exists(n)' <=> Exists(n)
  BY <1>6 DEF Exists
<1>9. ASSUME NEW n, NEW row, Covered(task, n, row) PROVE Covered(task', n, row)
  BY <1>7, <1>9, CoveredStays
<1>10. StoreCovered'
  <2>1. SUFFICES ASSUME NEW n \in Names \ Degenerate, Exists(n) PROVE Covered(task', n, job'[n])
    BY <1>8 DEF StoreCovered
  <2>2. Covered(task, n, job[n])
    BY <2>1 DEF SkipInv, StoreCovered
  <2>3. CASE n \in DOMAIN c.rows
    <3>1. job[n] # Null /\ job[n].id = c.rows[n].id /\ Covered(task, n, c.rows[n])
      BY <1>4, <2>2, <2>3 DEF Exists
    <3>2. QED
      BY <1>2, <1>3, <1>5, <2>3, <3>1, AdvanceCovers
  <2>4. CASE n \notin DOMAIN c.rows
    BY <1>6, <1>9, <2>2, <2>4
  <2>5. QED
    BY <2>3, <2>4
<1>11. \A m \in Mains : Has(m, "written")' <=> Has(m, "written")
  BY DEF Has
<1>12. \A m \in Mains : Has(m, "written") =>
         /\ DOMAIN registration[m].rows \subseteq Names
         /\ DOMAIN registration[m].seed.rows \subseteq Names \ Degenerate
  BY DEF JobInv, WrittenTypes
<1>13. SeedCovered'
  <2>1. SUFFICES ASSUME NEW m \in Mains, Has(m, "written"),
                        NEW n \in DOMAIN registration[m].seed.rows \ DOMAIN registration[m].rows,
                        Exists(n)', job'[n].id = registration[m].seed.rows[n].id
                 PROVE  Covered(task', n, registration[m].seed.rows[n])
    BY <1>11 DEF SeedCovered
  <2>2. Exists(n) /\ job[n].id = registration[m].seed.rows[n].id
    BY <1>6, <1>8, <1>12, <2>1 DEF Exists
  <2>3. Covered(task, n, registration[m].seed.rows[n])
    BY <2>1, <2>2 DEF SkipInv, SeedCovered
  <2>4. QED
    BY <1>9, <2>3
<1>14. WrittenAnew'
  BY <1>11 DEF SkipInv, WrittenAnew
<1>15. StoredIdsDiffer'
  BY <1>6, <1>8 DEF SkipInv, StoredIdsDiffer, Exists
<1>16. ReservedIdsDiffer'
  <2>1. \A k \in Names : Exists(k) => job'[k].id = job[k].id
    BY <1>6 DEF Exists
  <2>2. QED
    BY <1>8, <1>11, <1>12, <2>1 DEF SkipInv, ReservedIdsDiffer
<1>17. QED
  BY <1>10, <1>13, <1>14, <1>15, <1>16 DEF SkipInv

\* A row written is new, or redefined, and counts from its first run.
LEMMA WrittenIsNew ==
    ASSUME JobInv, NEW m \in Mains, Has(m, "found")
    PROVE  LET rows == WrittenRows(registration[m])
           IN  /\ \A n \in DOMAIN rows \ Degenerate : rows[n].since = rows[n].clock
               /\ \A n, k \in DOMAIN rows :
                    ~Exists(n) /\ ~Exists(k) /\ rows[n].id = rows[k].id => n = k
<1>1. PICK r : r = registration[m]
  OBVIOUS
<1>2. PICK ins, red : ins = Inserted(r) /\ red = Redefined(r)
  OBVIOUS
<1>3. PICK rows : rows = WrittenRows(r)
  OBVIOUS
<1>4. rows = [n \in ins \cup red |->
                IF n \in ins
                THEN [id |-> NewIds(ins)[n], def |-> 1, clock |-> r.firstRun[n],
                      since |-> Since(r.firstRun[n]), intact |-> TRUE]
                ELSE [job[n] EXCEPT !.def = @ + 1, !.clock = r.firstRun[n],
                                    !.since = Since(r.firstRun[n]), !.intact = TRUE]]
  BY <1>2, <1>3, Zenon DEF WrittenRows
<1>5. lastId \in Nat /\ DOMAIN r.firstRun \subseteq Names
  BY <1>1, Types DEF JobInv, CollectedTypes
<1>0. \A n \in DOMAIN r.firstRun : r.firstRun[n] \in IF n \in Degenerate THEN {Null} ELSE Nat
  BY <1>1 DEF JobInv, CollectedTypes
<1>6. ins \subseteq Names /\ red \subseteq Names /\ \A n \in red : Exists(n)
  BY <1>2, <1>5 DEF Inserted, ToInsert, Redefined, ToRedefine
<1>7. DOMAIN rows = ins \cup red
  BY <1>4
<1>8. ASSUME NEW n \in ins
      PROVE  /\ n \notin Degenerate => rows[n].since = rows[n].clock
             /\ rows[n].id = NewIds(ins)[n]
  <2>1. n \in DOMAIN r.firstRun
    BY <1>2 DEF Inserted, ToInsert
  <2>2. n \notin Degenerate => Since(r.firstRun[n]) = r.firstRun[n]
    BY <1>0, <2>1, NullAssumption DEF Since
  <2>3. QED
    BY <1>4, <2>2
<1>9. ASSUME NEW n \in red, n \notin ins, n \notin Degenerate
      PROVE  rows[n].since = rows[n].clock
  <2>1. job[n] \in Row
    BY <1>6, Types DEF JobInv
  <2>2. rows[n] = [job[n] EXCEPT !.def = @ + 1, !.clock = r.firstRun[n],
                                 !.since = Since(r.firstRun[n]), !.intact = TRUE]
    BY <1>4, <1>9
  <2>3. Since(r.firstRun[n]) = r.firstRun[n]
    BY <1>0, <1>2, <1>9, NullAssumption DEF Since, Redefined, ToRedefine
  <2>4. QED
    BY <2>1, <2>2, <2>3 DEF Row
<1>10. \A n, k \in ins : NewIds(ins)[n] = NewIds(ins)[k] => n = k
  BY <1>5, <1>6, NewIdsFresh
<1>11. \A n \in DOMAIN rows \ Degenerate : rows[n].since = rows[n].clock
  BY <1>7, <1>8, <1>9
<1>12. \A n, k \in DOMAIN rows :
         ~Exists(n) /\ ~Exists(k) /\ rows[n].id = rows[k].id => n = k
  BY <1>6, <1>7, <1>8, <1>10
<1>13. QED
  BY <1>1, <1>3, <1>11, <1>12

LEMMA WriteCovers ==
    ASSUME JobInv, SkipInv, NEW m \in Mains, Write(m)
    PROVE  SkipInv'
<1>1. PICK r : r = registration[m]
  OBVIOUS
<1>2. PICK rows, seeded, removed :
        /\ rows = WrittenRows(r) /\ seeded = Live(RowsToSeed(r))
        /\ removed = {n \in ToRemove(r) : Exists(n) /\ job[n].id = r.existing[n].id}
  OBVIOUS
<1>. DEFINE w == [step |-> "written", rows |-> rows, removed |-> removed,
                  seed |-> [now |-> now, rows |-> seeded]]
<1>3. /\ Has(m, "found")
      /\ lastId' = lastId + Cardinality(Inserted(r))
      /\ registration' = [registration EXCEPT ![m] = w]
      /\ UNCHANGED <<job, task>>
  BY <1>1, <1>2 DEF Write, Has
<1>4. DOMAIN registration = Mains /\ lastId \in Nat
  BY Types DEF JobInv
<1>5. /\ \A n \in DOMAIN rows : ~Exists(n) => rows[n].id > lastId /\ rows[n] \in Row
      /\ DOMAIN rows \subseteq DOMAIN r.firstRun
      /\ DOMAIN seeded \subseteq DOMAIN r.firstRun \ Degenerate
      /\ \A n \in DOMAIN seeded \ DOMAIN rows : seeded[n] = job[n]
  BY <1>1, <1>2, <1>3, WhatIsWritten
<1>6. /\ \A n \in DOMAIN rows \ Degenerate : rows[n].since = rows[n].clock
      /\ \A n, k \in DOMAIN rows :
           ~Exists(n) /\ ~Exists(k) /\ rows[n].id = rows[k].id => n = k
  BY <1>1, <1>2, <1>3, WrittenIsNew
<1>7. DOMAIN rows \subseteq Names /\ DOMAIN seeded \subseteq Names
  BY <1>1, <1>3, <1>5 DEF JobInv, CollectedTypes
<1>8. /\ registration'[m] = w /\ w.step = "written" /\ w.rows = rows /\ w.seed.rows = seeded
      /\ \A i \in Mains \ {m} : registration'[i] = registration[i]
  BY <1>3, <1>4
<1>. HIDE DEF w
<1>9. \A i \in Mains : i # m /\ Has(i, "written")' =>
        Has(i, "written") /\ registration'[i] = registration[i]
  BY <1>8 DEF Has
<1>10. \A n : Exists(n)' <=> Exists(n)
  BY <1>3 DEF Exists
<1>11. StoreCovered'
  BY <1>3, <1>10 DEF SkipInv, StoreCovered
<1>12. SeedCovered'
  <2>1. SUFFICES ASSUME NEW i \in Mains, Has(i, "written")', NEW v, v = registration'[i],
                        NEW n \in DOMAIN v.seed.rows \ DOMAIN v.rows,
                        Exists(n), job[n].id = v.seed.rows[n].id
                 PROVE  Covered(task, n, v.seed.rows[n])
    BY <1>3, <1>10 DEF SeedCovered
  <2>2. CASE i = m
    BY <1>5, <1>7, <1>8, <2>1, <2>2 DEF SkipInv, StoreCovered
  <2>3. CASE i # m
    BY <1>9, <2>1, <2>3 DEF SkipInv, SeedCovered
  <2>4. QED
    BY <2>2, <2>3
<1>13. WrittenAnew'
  <2>1. SUFFICES ASSUME NEW i \in Mains, Has(i, "written")', NEW v, v = registration'[i],
                        NEW n \in DOMAIN v.rows \ Degenerate
                 PROVE  v.rows[n].since = v.rows[n].clock
    BY DEF WrittenAnew
  <2>2. CASE i = m
    BY <1>6, <1>8, <2>1, <2>2
  <2>3. CASE i # m
    BY <1>9, <2>1, <2>3 DEF SkipInv, WrittenAnew
  <2>4. QED
    BY <2>2, <2>3
<1>14. StoredIdsDiffer'
  BY <1>3, <1>10 DEF SkipInv, StoredIdsDiffer
\* A fresh id is nobody's.
<1>15. ASSUME NEW n \in DOMAIN rows, ~Exists(n)
       PROVE  \A k, row : Known(k, row) => row.id # rows[n].id
  <2>1. rows[n].id \in Nat /\ rows[n].id > lastId
    BY <1>5, <1>15 DEF Row
  <2>2. \A row \in Row : row.id \in Nat
    BY DEF Row
  <2>3. QED
    BY <1>4, <2>1, <2>2 DEF Known
<1>16. \A k \in Names : Exists(k) => Known(k, job[k])
  BY DEF JobInv, RowsKnown
<1>17. \A j \in Mains : Has(j, "written") =>
         \A k \in DOMAIN registration[j].rows : Known(k, registration[j].rows[k])
  BY DEF JobInv, WrittenTypes
<1>18. ReservedIdsDiffer'
  <2>1. SUFFICES ASSUME NEW i \in Mains, Has(i, "written")', NEW v, v = registration'[i],
                        NEW n \in DOMAIN v.rows, ~Exists(n)
                 PROVE  /\ \A k \in Names : Exists(k) => job[k].id # v.rows[n].id
                        /\ \A j \in Mains : Has(j, "written")' =>
                             \A k \in DOMAIN registration'[j].rows :
                               ~Exists(k) /\ registration'[j].rows[k].id = v.rows[n].id => k = n
    BY <1>3, <1>10 DEF ReservedIdsDiffer
  <2>2. \A k \in Names : Exists(k) => job[k].id # v.rows[n].id
    <3>1. CASE i = m
      BY <1>8, <1>15, <1>16, <2>1, <3>1
    <3>2. CASE i # m
      BY <1>9, <2>1, <3>2 DEF SkipInv, ReservedIdsDiffer
    <3>3. QED
      BY <3>1, <3>2
  <2>3. ASSUME NEW j \in Mains, Has(j, "written")', NEW u, u = registration'[j],
               NEW k \in DOMAIN u.rows, ~Exists(k), u.rows[k].id = v.rows[n].id
        PROVE  k = n
    <3>1. CASE i = m /\ j = m
      BY <1>6, <1>8, <2>1, <2>3, <3>1
    <3>2. CASE i = m /\ j # m
      <4>1. Known(k, u.rows[k]) /\ n \in DOMAIN rows /\ v.rows[n] = rows[n]
        BY <1>8, <1>9, <1>17, <2>1, <2>3, <3>2
      <4>2. QED
        BY <1>15, <2>1, <2>3, <4>1
    <3>3. CASE i # m /\ j = m
      <4>1. Known(n, v.rows[n]) /\ k \in DOMAIN rows /\ u.rows[k] = rows[k]
        BY <1>8, <1>9, <1>17, <2>1, <2>3, <3>3
      <4>2. QED
        BY <1>15, <2>3, <4>1
    <3>4. CASE i # m /\ j # m
      BY <1>9, <2>1, <2>3, <3>4 DEF SkipInv, ReservedIdsDiffer
    <3>5. QED
      BY <3>1, <3>2, <3>3, <3>4
  <2>4. QED
    BY <2>2, <2>3
<1>19. QED
  BY <1>11, <1>12, <1>13, <1>14, <1>18 DEF SkipInv

\* What a commit does to the tasks: those of its own rows may be withdrawn, the
\* others stay, and every row it leaves is covered.
LEMMA CommitRecords ==
    ASSUME AllCadenced, JobInv, SkipInv, NEW m \in Mains, CommitRegistration(m)
    PROVE  LET r == registration[m]
           IN  /\ \A k \in task : /\ k.id \notin IdsOf(r.removed)
                                  /\ \A n \in DOMAIN r.rows : k.id # r.rows[n].id
                                  => k \in task'
               /\ \A n \in (DOMAIN r.rows \ Degenerate) \cup (DOMAIN r.seed.rows \ Gone(r)) :
                    Covered(task', n, job'[n])
<1>1. PICK r : r = registration[m]
  OBVIOUS
<1>2. PICK stored : stored = [n \in Names |-> IF n \in r.removed THEN Null
                                              ELSE IF n \in DOMAIN r.rows THEN r.rows[n]
                                              ELSE job[n]]
  OBVIOUS
<1>3. PICK withdrawn : withdrawn = {r.rows[n].id : n \in DOMAIN r.rows}
  OBVIOUS
<1>4. PICK kept : kept = Cascade(deletePendingByJobIds(task, withdrawn), IdsOf(r.removed))
  OBVIOUS
<1>5. Has(m, "written") /\ IsBatch(r.seed)
  BY <1>1, WhatIsCommitted
<1>6. PICK failing \in SUBSET DOMAIN r.seed.rows :
        /\ task' = insertIgnoringDuplicates(kept,
                     toNewOccurrences(r.seed, planOrDeferJobs(r.seed, failing)))
        /\ job' = advanceMany(stored, r.seed, planOrDeferJobs(r.seed, failing), failing)
  BY <1>1, <1>2, <1>3, <1>4, Zenon DEF CommitRegistration
<1>7. /\ DOMAIN r.rows \subseteq Names /\ DOMAIN r.seed.rows \subseteq Names
      /\ \A n \in DOMAIN r.rows : /\ Known(n, r.rows[n])
                                  /\ n \notin Degenerate => r.rows[n].since = r.rows[n].clock
      /\ \A n \in DOMAIN r.rows \cap DOMAIN r.seed.rows : r.seed.rows[n] = r.rows[n]
      /\ r.removed \cap (DOMAIN r.rows \cup DOMAIN r.seed.rows) = {}
      /\ Held(m) = DOMAIN r.rows \cup r.removed
      /\ job \in Table
  BY <1>1, <1>5, Types DEF JobInv, WrittenTypes, WrittenFits, MainsHold, SkipInv, WrittenAnew
<1>8. stored \in Table
  <2>1. \A n \in Names : (IF n \in r.removed THEN Null
                          ELSE IF n \in DOMAIN r.rows THEN r.rows[n]
                          ELSE job[n]) \in Row \cup {Null}
    BY <1>7 DEF Table, Known
  <2>2. QED
    BY <1>2, <2>1 DEF Table
<1>9. ASSUME NEW k \in task, k.id \notin IdsOf(r.removed),
             \A n \in DOMAIN r.rows : k.id # r.rows[n].id
      PROVE  k \in kept
  BY <1>3, <1>4, <1>9 DEF Cascade, deletePendingByJobIds
<1>10. kept \subseteq task'
  BY <1>6 DEF insertIgnoringDuplicates
<1>11. ASSUME NEW n \in DOMAIN r.rows, n \notin Degenerate
       PROVE  Covered(task', n, job'[n])
  <2>1. n \in Names /\ stored[n] = r.rows[n] /\ stored[n] # Null /\ r.rows[n].clock \in Nat
    BY <1>2, <1>7, <1>11, RowAssumption DEF Known, Row
  <2>2. Covered(kept, n, r.rows[n]) /\ Covered(task', n, r.rows[n])
    BY <1>7, <1>11, <2>1, CoveredAnew
  <2>3. CASE n \in DOMAIN r.seed.rows
    <3>1. stored[n].id = r.seed.rows[n].id /\ Covered(kept, n, r.seed.rows[n])
      BY <1>7, <2>1, <2>2, <2>3
    <3>2. QED
      BY <1>5, <1>6, <1>8, <2>1, <2>3, <3>1, AdvanceCovers
  <2>4. CASE n \notin DOMAIN r.seed.rows
    BY <1>1, <2>2, <2>4, WhatIsCommitted
  <2>5. QED
    BY <2>3, <2>4
<1>12. ASSUME NEW n \in DOMAIN r.seed.rows \ Gone(r), n \notin DOMAIN r.rows
       PROVE  Covered(task', n, job'[n])
  <2>1. n \in Names /\ n \notin r.removed /\ Exists(n) /\ job[n].id = r.seed.rows[n].id
    BY <1>7, <1>12 DEF Gone
  <2>2. stored[n] = job[n] /\ stored[n] # Null
    BY <1>2, <1>12, <2>1 DEF Exists
  <2>3. Covered(task, n, r.seed.rows[n])
    BY <1>1, <1>5, <1>12, <2>1 DEF SkipInv, SeedCovered
  <2>4. \A k \in r.removed : Exists(k) /\ k \in Names => job[k].id # job[n].id
    BY <2>1 DEF SkipInv, StoredIdsDiffer
  <2>5. job[n].id \notin IdsOf(r.removed)
    <3>1. r.removed \subseteq Names
      BY <1>1, <1>5 DEF JobInv, WrittenTypes
    <3>2. QED
      BY <2>4, <3>1 DEF IdsOf
  <2>6. ASSUME NEW k \in DOMAIN r.rows PROVE job[n].id # r.rows[k].id
    <3>1. k \in Names /\ k # n
      BY <1>7, <1>12
    <3>2. CASE Exists(k)
      <4>1. job[k].id = r.rows[k].id
        BY <1>1, <1>5, <3>2 DEF JobInv, WrittenFits
      <4>2. QED
        BY <2>1, <3>1, <3>2, <4>1 DEF SkipInv, StoredIdsDiffer
    <3>3. CASE ~Exists(k)
      BY <1>1, <1>5, <2>1, <3>3 DEF SkipInv, ReservedIdsDiffer
    <3>4. QED
      BY <3>2, <3>3
  <2>7. Covered(kept, n, r.seed.rows[n])
    BY <1>9, <2>1, <2>3, <2>5, <2>6, CoveredStays
  <2>8. QED
    BY <1>5, <1>6, <1>8, <2>1, <2>2, <2>7, AdvanceCovers
<1>13. QED
  <2>1. \A n \in DOMAIN r.rows : n \notin Gone(r)
    BY DEF Gone
  <2>2. \A n \in DOMAIN r.seed.rows \ Gone(r) : Covered(task', n, job'[n])
    <3>1. \A n \in DOMAIN r.seed.rows : n \notin Degenerate
      BY <1>1, <1>5 DEF JobInv, WrittenTypes
    <3>2. QED
      BY <1>11, <1>12, <3>1
  <2>3. QED
    BY <1>1, <1>9, <1>10, <1>11, <2>2

LEMMA CommitCovers ==
    ASSUME AllCadenced, JobInv, SkipInv, NEW m \in Mains, CommitRegistration(m)
    PROVE  SkipInv'
<1>1. PICK r : r = registration[m]
  OBVIOUS
<1>2. /\ Has(m, "written")
      /\ registration' = [registration EXCEPT ![m] = Null]
      /\ \A n \in r.removed : job'[n] = Null
      /\ \A n \in DOMAIN r.rows : /\ n \notin r.removed /\ job'[n] # Null
                                  /\ job'[n].id = r.rows[n].id
      /\ \A n \in Names : n \notin r.removed /\ n \notin DOMAIN r.rows =>
           /\ job'[n] = Null <=> job[n] = Null
           /\ job[n] # Null => job'[n].id = job[n].id
           /\ n \notin DOMAIN r.seed.rows \ Gone(r) => job'[n] = job[n]
  BY <1>1, WhatIsCommitted
<1>3. /\ \A k \in task : /\ k.id \notin IdsOf(r.removed)
                         /\ \A n \in DOMAIN r.rows : k.id # r.rows[n].id
                         => k \in task'
      /\ \A n \in (DOMAIN r.rows \ Degenerate) \cup (DOMAIN r.seed.rows \ Gone(r)) :
           Covered(task', n, job'[n])
  BY <1>1, CommitRecords
<1>4. /\ DOMAIN r.rows \subseteq Names /\ r.removed \subseteq Names
      /\ \A n \in DOMAIN r.rows : Exists(n) => job[n].id = r.rows[n].id
      /\ Held(m) = DOMAIN r.rows \cup r.removed
  BY <1>1, <1>2 DEF JobInv, WrittenTypes, WrittenFits, MainsHold
<1>5. DOMAIN registration = Mains
  BY Types DEF JobInv
<1>6. /\ registration'[m] = Null
      /\ \A i \in Mains \ {m} : registration'[i] = registration[i]
  BY <1>2, <1>5
<1>7. \A i \in Mains : Has(i, "written")' =>
        Has(i, "written") /\ i # m /\ registration'[i] = registration[i]
  BY <1>6 DEF Has
<1>8. \A n \in Names : Exists(n)' <=> n \notin r.removed /\ (Exists(n) \/ n \in DOMAIN r.rows)
  BY <1>2 DEF Exists
<1>9. \A n \in Names : Exists(n) /\ Exists(n)' => job'[n].id = job[n].id
  BY <1>2, <1>4, <1>8 DEF Exists
\* The tasks of a job that was neither removed nor written stay.
<1>10. ASSUME NEW n \in Names, Exists(n), n \notin r.removed, n \notin DOMAIN r.rows
       PROVE  \A k \in task : k.id = job[n].id => k \in task'
  <2>1. job[n].id \notin IdsOf(r.removed)
    BY <1>4, <1>10 DEF IdsOf, SkipInv, StoredIdsDiffer
  <2>2. ASSUME NEW k \in DOMAIN r.rows PROVE job[n].id # r.rows[k].id
    <3>1. k \in Names /\ k # n
      BY <1>4, <1>10
    <3>2. CASE Exists(k)
      BY <1>4, <1>10, <3>1, <3>2 DEF SkipInv, StoredIdsDiffer
    <3>3. CASE ~Exists(k)
      BY <1>1, <1>2, <1>10, <3>3 DEF SkipInv, ReservedIdsDiffer
    <3>4. QED
      BY <3>2, <3>3
  <2>3. QED
    BY <1>3, <2>1, <2>2
<1>11. StoreCovered'
  <2>1. SUFFICES ASSUME NEW n \in Names \ Degenerate, Exists(n)' PROVE Covered(task', n, job'[n])
    BY DEF StoreCovered
  <2>2. CASE n \in DOMAIN r.rows \cup (DOMAIN r.seed.rows \ Gone(r))
    BY <1>3, <2>1, <2>2
  <2>3. CASE n \notin DOMAIN r.rows \cup (DOMAIN r.seed.rows \ Gone(r))
    <3>1. Exists(n) /\ n \notin r.removed /\ job'[n] = job[n]
      BY <1>2, <1>8, <2>1, <2>3
    <3>2. Covered(task, n, job[n])
      BY <3>1 DEF SkipInv, StoreCovered
    <3>3. QED
      BY <1>10, <2>3, <3>1, <3>2, CoveredStays
  <2>4. QED
    BY <2>2, <2>3
\* What another main has written is untouched.
<1>12. ASSUME NEW i \in Mains, Has(i, "written")', NEW n \in DOMAIN registration[i].rows
       PROVE  /\ n \in Names /\ n \notin DOMAIN r.rows /\ n \notin r.removed
              /\ Exists(n)' <=> Exists(n)
  <2>1. i # m /\ n \in Held(i)
    BY <1>7, <1>12 DEF JobInv, MainsHold
  <2>2. n \in Names /\ n \notin Held(m)
    BY <2>1 DEF Held
  <2>3. QED
    BY <1>4, <1>8, <2>2
<1>13. SeedCovered'
  <2>1. SUFFICES ASSUME NEW i \in Mains, Has(i, "written"), i # m, NEW v, v = registration[i],
                        NEW n \in DOMAIN v.seed.rows \ DOMAIN v.rows, n \in Names,
                        Exists(n)', job'[n].id = v.seed.rows[n].id
                 PROVE  Covered(task', n, v.seed.rows[n])
    BY <1>7 DEF SeedCovered, JobInv, WrittenTypes
  <2>2. CASE Exists(n)
    <3>1. job[n].id = v.seed.rows[n].id
      BY <1>9, <2>1, <2>2
    <3>2. Fresh(n) /\ Covered(task, n, v.seed.rows[n])
      BY <2>1, <2>2, <3>1 DEF JobInv, FreshWritten, SkipInv, SeedCovered
    <3>3. n \notin DOMAIN r.rows /\ n \notin r.removed
      BY <1>1, <1>2, <1>8, <2>1, <3>2 DEF Fresh
    <3>4. QED
      BY <1>10, <2>1, <2>2, <3>1, <3>2, <3>3, CoveredStays
  <2>3. CASE ~Exists(n)
    <3>1. n \in DOMAIN r.rows /\ job'[n].id = r.rows[n].id
      BY <1>2, <1>8, <2>1, <2>3
    <3>2. v.seed.rows[n].id # r.rows[n].id
      BY <1>1, <1>2, <2>1, <2>3, <3>1 DEF JobInv, ReservedUnseen
    <3>3. QED
      BY <2>1, <3>1, <3>2
  <2>4. QED
    BY <2>2, <2>3
<1>14. WrittenAnew'
  BY <1>7 DEF SkipInv, WrittenAnew
\* A row just inserted has an id of its own.
<1>15. ASSUME NEW n \in DOMAIN r.rows, ~Exists(n)
       PROVE  /\ \A k \in Names : Exists(k) => job[k].id # r.rows[n].id
              /\ \A k \in DOMAIN r.rows : ~Exists(k) /\ r.rows[k].id = r.rows[n].id => k = n
  BY <1>1, <1>2, <1>15 DEF SkipInv, ReservedIdsDiffer
<1>16. StoredIdsDiffer'
  <2>1. SUFFICES ASSUME NEW n \in Names, NEW k \in Names, Exists(n)', Exists(k)',
                        job'[n].id = job'[k].id
                 PROVE  n = k
    BY DEF StoredIdsDiffer
  <2>2. ASSUME NEW x \in Names, Exists(x)'
        PROVE  \/ Exists(x) /\ job'[x].id = job[x].id
               \/ ~Exists(x) /\ x \in DOMAIN r.rows /\ job'[x].id = r.rows[x].id
    BY <1>2, <1>8, <1>9, <2>2
  <2>3. CASE Exists(n) /\ Exists(k)
    BY <2>1, <2>2, <2>3 DEF SkipInv, StoredIdsDiffer
  <2>4. CASE Exists(n) /\ ~Exists(k)
    BY <1>15, <2>1, <2>2, <2>4
  <2>5. CASE ~Exists(n) /\ Exists(k)
    BY <1>15, <2>1, <2>2, <2>5
  <2>6. CASE ~Exists(n) /\ ~Exists(k)
    BY <1>15, <2>1, <2>2, <2>6
  <2>7. QED
    BY <2>3, <2>4, <2>5, <2>6
<1>17. ReservedIdsDiffer'
  <2>1. SUFFICES ASSUME NEW i \in Mains, Has(i, "written")', NEW n \in DOMAIN registration[i].rows,
                        ~Exists(n)'
                 PROVE  /\ \A k \in Names : Exists(k)' => job'[k].id # registration[i].rows[n].id
                        /\ \A j \in Mains : Has(j, "written")' =>
                             \A k \in DOMAIN registration[j].rows :
                               ~Exists(k)' /\ registration[j].rows[k].id = registration[i].rows[n].id
                                 => k = n
    BY <1>7 DEF ReservedIdsDiffer
  <2>2. Has(i, "written") /\ ~Exists(n) /\ n \in Names /\ n \notin DOMAIN r.rows
    BY <1>7, <1>12, <2>1
  <2>3. ASSUME NEW k \in Names, Exists(k)' PROVE job'[k].id # registration[i].rows[n].id
    <3>1. CASE Exists(k)
      BY <1>9, <2>2, <2>3, <3>1, <2>1 DEF SkipInv, ReservedIdsDiffer
    <3>2. CASE ~Exists(k)
      <4>1. k \in DOMAIN r.rows /\ job'[k].id = r.rows[k].id
        BY <1>2, <1>8, <2>3, <3>2
      <4>2. r.rows[k].id = registration[i].rows[n].id => k = n
        BY <1>1, <1>2, <2>1, <2>2, <3>2, <4>1 DEF SkipInv, ReservedIdsDiffer
      <4>3. QED
        BY <2>2, <4>1, <4>2
    <3>3. QED
      BY <3>1, <3>2
  <2>4. ASSUME NEW j \in Mains, Has(j, "written")', NEW k \in DOMAIN registration[j].rows,
               ~Exists(k)', registration[j].rows[k].id = registration[i].rows[n].id
        PROVE  k = n
    <3>1. Has(j, "written") /\ ~Exists(k)
      BY <1>7, <1>12, <2>4
    <3>2. QED
      BY <2>1, <2>2, <2>4, <3>1 DEF SkipInv, ReservedIdsDiffer
  <2>5. QED
    BY <2>3, <2>4
<1>18. QED
  BY <1>11, <1>13, <1>14, <1>16, <1>17 DEF SkipInv

LEMMA SkipStep ==
    ASSUME AllCadenced
    PROVE  JobInv /\ SkipInv /\ [Next]_vars => SkipInv'
<1>. SUFFICES ASSUME JobInv, SkipInv, [Next]_vars PROVE SkipInv'
  OBVIOUS
\* Most steps leave the rows, the tasks and what is written alone.
<1>1. ASSUME UNCHANGED <<job, task>>,
             \A m \in Mains : Has(m, "written")' =>
                 Has(m, "written") /\ registration'[m] = registration[m]
      PROVE  SkipInv'
  BY <1>1, SkipQuiet
<1>2. ASSUME UNCHANGED <<job, task, registration>> PROVE SkipInv'
  BY <1>1, <1>2 DEF Has
<1>3. ASSUME NEW p \in Passes, MaterializerStep(p) PROVE SkipInv'
  <2>1. CASE ClaimDueJobs(p) \/ AbandonPass(p)
    BY <1>2, <1>3, <2>1 DEF MaterializerStep, ClaimDueJobs, AbandonPass
  <2>2. CASE RecordAndAdvance(p)
    BY <1>3, <2>2, RecordCovers DEF MaterializerStep
  <2>3. QED
    BY <1>3, <2>1, <2>2 DEF MaterializerStep
<1>0. DOMAIN registration = Mains
  BY Types DEF JobInv
<1>11. ASSUME NEW m \in Mains, NEW v, v.step # "written",
              registration' = [registration EXCEPT ![m] = v], UNCHANGED <<job, task>>
       PROVE  SkipInv'
  <2>1. \A i \in Mains : Has(i, "written")' =>
          Has(i, "written") /\ registration'[i] = registration[i]
    BY <1>0, <1>11 DEF Has
  <2>2. QED
    BY <1>1, <1>11, <2>1
<1>12. ASSUME NEW m \in Mains, StartRegistration(m) PROVE SkipInv'
  <2>1. PICK r \in ClockReadings : Collect(m, r)
    BY <1>12 DEF StartRegistration
  <2>2. PICK D \in RuleSets :
          registration' = [registration EXCEPT ![m] =
            [step |-> "collected", firstRun |-> [n \in D |-> FirstRun(n, r)]]]
    BY <2>1 DEF Collect
  <2>3. [step |-> "collected", firstRun |-> [n \in D |-> FirstRun(n, r)]].step # "written"
    OBVIOUS
  <2>4. UNCHANGED <<job, task>>
    BY <2>1 DEF Collect, storeVars
  <2>5. QED
    BY <1>11, <2>2, <2>3, <2>4
<1>4. ASSUME NEW m \in Mains, RegistrationStep(m) PROVE SkipInv'
  <2>1. CASE FindExisting(m)
    <3>1. registration' = [registration EXCEPT ![m] =
            [step |-> "found", firstRun |-> registration[m].firstRun, existing |-> job]]
      BY <2>1 DEF FindExisting
    <3>2. [step |-> "found", firstRun |-> registration[m].firstRun,
           existing |-> job].step # "written"
      OBVIOUS
    <3>3. UNCHANGED <<job, task>>
      BY <2>1 DEF FindExisting, storeVars
    <3>4. QED
      BY <1>11, <3>1, <3>2, <3>3
  <2>2. CASE Write(m)
    BY <2>2, WriteCovers
  <2>3. CASE CommitRegistration(m)
    BY <2>3, CommitCovers
  <2>4. CASE SeedFails(m) \/ AbandonRegistration(m)
    <3>1. registration' = [registration EXCEPT ![m] = Null] /\ UNCHANGED <<job, task>>
      BY <2>4 DEF SeedFails, AbandonRegistration
    <3>2. \A i \in Mains : Has(i, "written")' =>
            Has(i, "written") /\ registration'[i] = registration[i]
      BY <1>0, <3>1 DEF Has
    <3>3. QED
      BY <1>1, <3>1, <3>2
  <2>5. QED
    BY <1>4, <2>1, <2>2, <2>3, <2>4 DEF RegistrationStep
<1>5. CASE RemoveWorkflow /\ UNCHANGED <<ran, behind>>
  BY <1>5, RemoveCovers
<1>6. ASSUME NEW k \in task, Start(k) PROVE SkipInv'
  BY <1>6, StartCovers
<1>7. ASSUME NEW n \in Names, Corrupt(n) PROVE SkipInv'
  BY <1>7, CorruptCovers
<1>8. CASE Tick
  BY <1>2, <1>8 DEF Tick
<1>9. CASE UNCHANGED vars
  BY <1>2, <1>9 DEF vars, storeVars
<1>10. QED
  BY <1>3, <1>4, <1>5, <1>6, <1>7, <1>8, <1>9, <1>12 DEF Next

\* materialize and provision: where every rule fires in each of its periods, all
\* the instants a rule fires at between the one its clock was last set to by hand
\* and its clock have their tasks - over aborted and failing passes, two mains
\* registering at once, redefinitions, removals, damaged rows and seeds planned
\* from rows another main has moved on since.
THEOREM NoInstantFallsThrough ==
    ASSUME AllCadenced
    PROVE  Spec => []NothingSkipped
<1>1. Init => SkipInv
  BY SkipInitial
<1>2. JobInv /\ SkipInv /\ [Next]_vars => SkipInv'
  BY SkipStep
<1>3. JobInv /\ SkipInv => NothingSkipped
  <2>1. SUFFICES ASSUME JobInv, SkipInv, NEW n \in Names, Exists(n)
                 PROVE  LET upTo == IF job[n].clock = Null THEN MaxNow + Window
                                    ELSE job[n].clock - 1
                        IN  \A t \in FiresOf(n, job[n].since, upTo) :
                                \E k \in task : k.id = job[n].id /\ k.at = t
    BY DEF NothingSkipped
  <2>2. CASE n \in Degenerate
    BY <2>2 DEF FiresOf
  <2>3. CASE n \notin Degenerate
    <3>1. PICK since, clock \in Nat : since = job[n].since /\ clock = job[n].clock
      BY <2>1, <2>3, NullAssumption DEF JobInv, RowsKnown, Known, Row
    <3>2. clock # Null /\ clock - 1 \in Int
      BY NullAssumption
    <3>3. ASSUME NEW t \in ReferenceFires(ScheduleOf[n], since, clock - 1)
          PROVE  \E k \in task : k.id = job[n].id /\ k.at = t
      <4>1. t \in Nat /\ t <= clock - 1 /\ Fires(ScheduleOf[n], since, t)
        BY <3>1, <3>2, ReferenceMember
      <4>2. t < clock
        BY <3>1, <4>1
      <4>3. QED
        BY <2>1, <2>3, <3>1, <4>1, <4>2 DEF SkipInv, StoreCovered, Covered
    <3>4. QED
      BY <2>3, <3>1, <3>2, <3>3 DEF FiresOf
  <2>4. QED
    BY <2>2, <2>3
<1>4. QED
  BY <1>1, <1>2, <1>3, JobInvariance, PTL DEF Spec

=============================================================================
