-------------------------- MODULE SchedulerProofs --------------------------
(***************************************************************************)
(* Proofs about Scheduler, for every registry, cadence, backoff and bound. *)
(*                                                                         *)
(* Cadences are arithmetic: hours split into days and weeks, and a period  *)
(* has one occurrence (CadenceIsRight).  The registry is a sequence: what  *)
(* an edit, an insertion or a replacement keeps (ReplacedEntry to          *)
(* RestoredKeeps), and that migrations leave themes ahead of crystallize.  *)
(* PlanIsRight says what a tick may plan.  On these rests SchedulerInv:    *)
(* saved watermarks are starts' and seedings', the gaps are the dispatcher *)
(* in flight and the jobs a kill or an edit has excused, and failures      *)
(* outnumber retries.                                                      *)
(***************************************************************************)
EXTENDS Scheduler, FiniteSetTheorems, SequenceTheorems, TLAPS

----------------------------------------------------------------------------
(* Quotients and remainders                                                *)

LEMMA Division ==
  ASSUME NEW a \in Int, NEW b \in Nat \ {0}
  PROVE  a \div b \in Int /\ a % b \in 0 .. b - 1 /\ a = b * (a \div b) + (a % b)
OBVIOUS

LEMMA Multiples ==
  ASSUME NEW b \in Nat \ {0}, NEW k \in Int, b * k < b, b * k > -b
  PROVE  k = 0
  <1>1. ASSUME k >= 1 PROVE b * k >= b
    BY <1>1
  <1>2. ASSUME k <= -1 PROVE b * k <= -b
    BY <1>2
  <1> QED
    BY <1>1, <1>2

LEMMA DivisionIsUnique ==
  ASSUME NEW a \in Int, NEW b \in Nat \ {0}, NEW q \in Int, NEW r \in 0 .. b - 1, a = b * q + r
  PROVE  a \div b = q /\ a % b = r
  <1>1. PICK p \in Int : p = a \div b
    BY Division
  <1>2. PICK s \in 0 .. b - 1 : s = a % b
    BY Division
  <1>3. a = b * p + s
    BY <1>1, <1>2, Division
  <1>4. b * (q - p) = s - r
    BY <1>3
  <1>5. b * (q - p) < b /\ b * (q - p) > -b
    BY <1>4
  <1>6. q - p = 0
    BY <1>5, Multiples
  <1>7. q = p
    BY <1>6
  <1>8. s = r
    BY <1>3, <1>7
  <1> QED
    BY <1>1, <1>2, <1>7, <1>8

\* Within one period of a time only its two ends have its remainder.
LEMMA Periods ==
  ASSUME NEW a \in Int, NEW p \in Nat \ {0}, NEW t \in a .. a + p
  PROVE  t % p = a % p <=> t \in {a, a + p}
  <1>1. PICK q \in Int, r \in 0 .. p - 1 : a = p * q + r /\ a % p = r
    BY Division
  <1>2. (a + p) % p = r
    <2>1. PICK b \in Int, k \in Int : b = a + p /\ k = q + 1
      OBVIOUS
    <2>2. b = p * k + r
      BY <1>1, <2>1
    <2> QED
      BY ZenonT(60), <2>1, <2>2, DivisionIsUnique
  <1>3. ASSUME t % p = r PROVE t \in {a, a + p}
    <2>1. PICK k \in Int : t = p * k + r
      <3>1. t \in Int
        OBVIOUS
      <3> QED
        BY <1>3, <3>1, Division
    <2>2. PICK m \in Int : p * m = t - a
      <3>1. p * (k - q) = t - a
        BY <1>1, <2>1
      <3>2. k - q \in Int
        OBVIOUS
      <3> QED
        BY <3>1, <3>2
    <2>3. CASE t = a + p
      BY <2>3
    <2>4. CASE t < a + p
      <3>1. p * m < p /\ p * m > -p
        BY <2>2, <2>4
      <3>2. m = 0
        BY <3>1, Multiples
      <3>3. p * m = 0
        BY <3>2
      <3> QED
        BY <2>2, <3>3
    <2> QED
      BY <2>3, <2>4
  <1> QED
    BY <1>1, <1>2, <1>3

\* The position in the week is the day of the week and the hour of the day.
LEMMA WeekPositions ==
  ASSUME NEW w \in Int, NEW day \in 0 .. DaysPerWeek - 1, NEW hour \in 0 .. HoursPerDay - 1
  PROVE  /\ HoursPerWeek \in Nat \ {0}
         /\ (HoursPerDay * (DaysPerWeek * w + day) + hour) % HoursPerWeek = day * HoursPerDay + hour
  <1>1. PICK r \in Int : r = day * HoursPerDay + hour
    BY TimeConstants
  <1>2. PICK P \in Int : P = HoursPerDay * DaysPerWeek
    BY TimeConstants
  <1>3. r \in 0 .. P - 1 /\ P \in Nat \ {0}
    <2>1. PICK k \in Int : k = DaysPerWeek - 1 - day /\ k >= 0
      BY TimeConstants
    <2>2. HoursPerDay * k >= 0
      BY <2>1, TimeConstants
    <2>3. HoursPerDay * k = P - HoursPerDay - day * HoursPerDay
      BY <1>2, <2>1, TimeConstants
    <2>4. day * HoursPerDay >= 0
      BY TimeConstants
    <2> QED
      BY <1>1, <2>2, <2>3, <2>4, TimeConstants
  <1>4. PICK a \in Int : a = HoursPerDay * (DaysPerWeek * w + day) + hour
    BY TimeConstants
  <1>5. a = P * w + r
    BY <1>1, <1>2, <1>4, TimeConstants
  <1>6. a % P = r
    BY <1>3, <1>5, DivisionIsUnique
  <1> QED
    BY <1>1, <1>2, <1>3, <1>4, <1>6 DEF HoursPerWeek

\* The weekday c.day that is not after the day of t, at most a week back.
LEMMA DaysBack ==
  ASSUME NEW d \in Int, NEW day \in 0 .. DaysPerWeek - 1
  PROVE  \E k \in 0 .. DaysPerWeek - 1, w \in Int :
            /\ k = ((d % DaysPerWeek) - day) % DaysPerWeek
            /\ d - k = DaysPerWeek * w + day
  <1>1. PICK v \in Int, e \in Int : e = d % DaysPerWeek /\ d = DaysPerWeek * v + e
    <2>1. /\ d \div DaysPerWeek \in Int /\ d % DaysPerWeek \in Int
          /\ d = DaysPerWeek * (d \div DaysPerWeek) + (d % DaysPerWeek)
      BY TimeConstants, Division
    <2> QED
      BY <2>1
  <1>2. PICK b \in Int : b = e - day
    BY <1>1
  <1>3. PICK m \in Int, k \in 0 .. DaysPerWeek - 1 : k = b % DaysPerWeek /\ b = DaysPerWeek * m + k
    BY ZenonT(60), TimeConstants, Division
  <1>4. PICK w \in Int : w = v + m
    OBVIOUS
  <1>5. d - k = DaysPerWeek * w + day
    <2>1. DaysPerWeek * w = DaysPerWeek * v + DaysPerWeek * m
      BY <1>4, TimeConstants
    <2>2. DaysPerWeek * v \in Int /\ DaysPerWeek * m \in Int
      BY TimeConstants
    <2> QED
      BY <1>1, <1>2, <1>3, <2>1, <2>2
  <1> QED
    BY <1>1, <1>2, <1>3, <1>5

LEMMA CadenceIsRight ==
  ASSUME NEW c \in Cadences \ {Broken}, NEW t \in Int
  PROVE  /\ MostRecent(c, t) \in Int /\ NextOccurrence(c, t) \in Int
         /\ MostRecent(c, t) <= t /\ t < NextOccurrence(c, t)
         /\ t - MostRecent(c, t) < HoursPerWeek
         /\ \A s \in MostRecent(c, t) .. NextOccurrence(c, t) :
               IsOccurrence(c, s) <=> s \in {MostRecent(c, t), NextOccurrence(c, t)}
  <1> DEFINE H == HoursPerDay
  <1>1. PICK d \in Int, h \in 0 .. H - 1 : t = H * d + h /\ t % H = h /\ t \div H = d
    BY TimeConstants, Division
  <1>2. PICK mid \in Int : mid = H * d
    BY TimeConstants
  <1>3. Midnight(t) = mid /\ t = mid + h
    BY <1>1, <1>2 DEF Midnight
  <1>4. HoursPerWeek \in Nat \ {0} /\ HoursPerWeek >= H
    BY TimeConstants DEF HoursPerWeek
  <1>5. CASE c.kind = "daily" /\ c.hour \in 0 .. H - 1
    <2>1. PICK last \in Int : last = NotAfter(mid + c.hour, t, H)
      BY <1>5, TimeConstants DEF NotAfter
    <2>2. last <= t /\ t < last + H
      BY <1>3, <1>5, <2>1, TimeConstants DEF NotAfter
    <2>3. last % H = c.hour
      <3>1. PICK q \in Int : last = H * q + c.hour
        <4>1. H * (d - 1) = mid - H
          BY <1>2, TimeConstants
        <4>2. last = H * d + c.hour \/ last = H * (d - 1) + c.hour
          BY <1>2, <1>5, <2>1, <4>1, TimeConstants DEF NotAfter
        <4> QED
          BY <4>2
      <3> QED
        BY <1>5, <3>1, TimeConstants, DivisionIsUnique
    <2>4. MostRecent(c, t) = last /\ NextOccurrence(c, t) = last + H
      BY <1>3, <1>5, <2>1 DEF MostRecent, NextOccurrence
    <2>5. \A s \in last .. last + H : s % H = c.hour <=> s \in {last, last + H}
      <3> TAKE s \in last .. last + H
      <3>1. s % H = last % H <=> s \in {last, last + H}
        BY Periods, TimeConstants
      <3> QED
        BY <2>3, <3>1
    <2> QED
      BY <1>4, <1>5, <2>2, <2>4, <2>5, TimeConstants DEF IsOccurrence
  <1>6. CASE c.kind = "weekly" /\ c.hour \in 0 .. H - 1 /\ c.day \in 0 .. DaysPerWeek - 1
    <2> DEFINE P == HoursPerWeek
    <2>1. PICK k \in 0 .. DaysPerWeek - 1, w \in Int :
             /\ k = (Weekday(t) - c.day) % DaysPerWeek
             /\ d - k = DaysPerWeek * w + c.day
      <3>1. \E k \in 0 .. DaysPerWeek - 1, w \in Int :
               /\ k = ((d % DaysPerWeek) - c.day) % DaysPerWeek
               /\ d - k = DaysPerWeek * w + c.day
        BY <1>6, DaysBack
      <3>2. Weekday(t) = d % DaysPerWeek
        BY <1>1 DEF Weekday
      <3> QED
        BY <3>1, <3>2
    <2>2. PICK cand \in Int : cand = mid - k * H + c.hour
      BY <1>6, TimeConstants
    <2>3. cand % P = c.day * H + c.hour
      <3>1. cand = H * (DaysPerWeek * w + c.day) + c.hour
        BY <1>2, <1>6, <2>1, <2>2, TimeConstants
      <3> QED
        BY <1>6, <3>1, WeekPositions
    <2>4. t - P < cand /\ cand < t + H
      <3>1. k * H >= 0 /\ k * H <= P - H
        <4>1. PICK j \in Int : j = DaysPerWeek - 1 - k /\ j >= 0
          BY TimeConstants
        <4>2. H * j >= 0
          BY <4>1, TimeConstants
        <4> QED
          BY <4>1, <4>2, TimeConstants DEF HoursPerWeek
      <3> QED
        BY <1>3, <1>4, <1>6, <2>2, <3>1, TimeConstants
    <2>5. PICK last \in Int : last = NotAfter(cand, t, P)
      BY <1>4 DEF NotAfter
    <2>6. last <= t /\ t < last + P
      BY <1>4, <2>4, <2>5, TimeConstants DEF NotAfter
    <2>7. last % P = c.day * H + c.hour
      <3>1. CASE last = cand
        BY <2>3, <3>1
      <3>2. CASE last = cand - P
        <4>1. cand = last + P /\ cand \in last .. last + P
          BY <1>4, <3>2
        <4>2. cand % P = last % P
          <5>1. PICK p \in Nat \ {0} : p = P
            BY <1>4
          <5>2. cand \in last .. last + p /\ cand \in {last, last + p}
            BY <4>1, <5>1
          <5>3. cand % p = last % p
            BY ZenonT(60), <5>2, Periods
          <5> QED
            BY <5>1, <5>3
        <4> QED
          BY <2>3, <4>2
      <3> QED
        BY <2>5, <3>1, <3>2 DEF NotAfter
    <2>8. MostRecent(c, t) = last /\ NextOccurrence(c, t) = last + P
      BY <1>3, <1>6, <2>1, <2>2, <2>5 DEF MostRecent, NextOccurrence
    <2>9. \A s \in last .. last + P : s % P = c.day * H + c.hour <=> s \in {last, last + P}
      <3> TAKE s \in last .. last + P
      <3>1. s % P = last % P <=> s \in {last, last + P}
        BY <1>4, Periods
      <3> QED
        BY <2>7, <3>1
    <2> QED
      BY <1>4, <1>6, <2>6, <2>8, <2>9 DEF IsOccurrence
  <1>7. CASE c.kind = "every" /\ c.every \in 1 .. H - 1
    <2> DEFINE n == c.every
    <2>0. PICK m \in Nat \ {0} : m = c.every /\ m < H
      BY <1>7, TimeConstants
    <2>1. PICK q \in Int, r \in 0 .. n - 1 : h = n * q + r /\ h \div n = q
      <3>1. h \div m \in Int /\ h % m \in 0 .. m - 1 /\ h = m * (h \div m) + (h % m)
        BY Division
      <3> QED
        BY <2>0, <3>1
    <2>2. PICK slot \in Int : slot = q * n
      BY <1>7
    <2>3. slot <= h /\ h < slot + n /\ slot >= 0
      <3>1. h = slot + r
        BY <1>7, <2>1, <2>2
      <3>2. q >= 0
        <4>1. ASSUME q <= -1 PROVE n * q <= -n
          BY <1>7, <4>1
        <4> QED
          BY <1>7, <2>1, <4>1
      <3>3. slot >= 0
        BY <1>7, <2>2, <3>2
      <3> QED
        BY <1>7, <3>1, <3>3
    <2>4. MostRecent(c, t) = mid + slot
      <3>1. t - Midnight(t) = h
        BY <1>3
      <3> QED
        BY <1>3, <1>7, <2>1, <2>2, <3>1 DEF MostRecent
    <2>5. NextOccurrence(c, t) = IF slot + n < H THEN mid + slot + n ELSE mid + H
      <3>1. mid + slot + n < mid + H <=> slot + n < H
        BY <1>7, TimeConstants
      <3> QED
        BY <1>3, <1>7, <2>4, <3>1 DEF NextOccurrence
    <2>6. ASSUME NEW s \in mid .. mid + H - 1 PROVE s % H = s - mid
      <3>1. PICK i \in 0 .. H - 1 : i = s - mid
        BY TimeConstants
      <3>2. s \in Int /\ s = H * d + i
        BY <1>2, <3>1, TimeConstants
      <3> QED
        BY <3>1, <3>2, TimeConstants, DivisionIsUnique
    <2>7. slot % n = 0 /\ slot \in Nat
      <3>1. slot = n * q + 0
        BY <1>7, <2>2
      <3> QED
        BY <1>7, <2>3, <3>1, DivisionIsUnique
    <2>8. ASSUME NEW s \in mid + slot .. NextOccurrence(c, t)
          PROVE  IsOccurrence(c, s) <=> s \in {mid + slot, NextOccurrence(c, t)}
      <3>1. CASE s = mid + H
        <4>1. PICK e \in Int : e = d + 1
          OBVIOUS
        <4>2. s = H * e + 0
          BY <1>2, <3>1, <4>1, TimeConstants
        <4>3. s % H = 0
          <5>1. s \in Int /\ 0 \in 0 .. H - 1
            BY <3>1, TimeConstants
          <5> QED
            BY <4>2, <5>1, TimeConstants, DivisionIsUnique
        <4>5. 0 % n = 0
          <5>1. 0 = m * 0 + 0 /\ 0 \in 0 .. m - 1
            OBVIOUS
          <5> QED
            BY <2>0, <5>1, DivisionIsUnique
        <4>4. s = NextOccurrence(c, t)
          BY <1>7, <2>5, <3>1, TimeConstants
        <4> QED
          BY <1>7, <4>3, <4>4, <4>5 DEF IsOccurrence
      <3>2. CASE s # mid + H
        <4>1. PICK i \in Int : i = s - mid
          BY <2>5, <2>2, <1>7
        <4>2. s \in mid .. mid + H - 1 /\ i \in slot .. slot + n
          BY <1>7, <2>3, <2>5, <3>2, <4>1, TimeConstants
        <4>3. i % n = slot % n <=> i \in {slot, slot + n}
          <5>0. i \in slot .. slot + m
            BY <2>0, <4>2
          <5>1. i % m = slot % m <=> i \in {slot, slot + m}
            BY <5>0, Periods
          <5> QED
            BY <2>0, <5>1
        <4>4. IsOccurrence(c, s) <=> i \in {slot, slot + n}
          BY <1>7, <2>6, <2>7, <4>1, <4>2, <4>3 DEF IsOccurrence
        <4>5. i \in {slot, slot + n} <=> s \in {mid + slot, NextOccurrence(c, t)}
          <5>1. i \in {slot, slot + n} <=> s \in {mid + slot, mid + slot + n}
            BY <2>0, <4>1
          <5>2. CASE slot + n < H
            BY <2>0, <2>5, <5>1, <5>2
          <5>3. CASE ~(slot + n < H)
            BY <2>0, <2>5, <4>1, <4>2, <5>1, <5>3, TimeConstants
          <5> QED
            BY <5>2, <5>3
        <4> QED
          BY <4>4, <4>5
      <3> QED
        BY <3>1, <3>2
    <2>9. mid + slot <= t /\ t < NextOccurrence(c, t) /\ t - (mid + slot) < H
      BY <1>3, <1>7, <2>3, <2>5, TimeConstants
    <2> QED
      BY <1>4, <1>7, <2>4, <2>5, <2>8, <2>9, TimeConstants
  <1> QED
    BY <1>5, <1>6, <1>7, CadencesParse

----------------------------------------------------------------------------
(* Positions in order                                                      *)

\* Below each position there are fewer than there are in all, and fewer than
\* below any later one.
LEMMA Ranks ==
  ASSUME NEW S, S \subseteq Nat, IsFiniteSet(S), NEW k \in S
  PROVE  /\ Cardinality({j \in S : j < k}) \in 0 .. Cardinality(S) - 1
         /\ \A i \in S : i < k => Cardinality({j \in S : j < i}) < Cardinality({j \in S : j < k})
  <1> DEFINE Below(i) == {j \in S : j < i}
  <1>1. ASSUME NEW i \in S
        PROVE  /\ IsFiniteSet(Below(i)) /\ Cardinality(Below(i)) \in Nat
               /\ Cardinality(S) \in Nat /\ Cardinality(Below(i)) < Cardinality(S)
    <2>1. Below(i) \subseteq S /\ i \notin Below(i)
      OBVIOUS
    <2> HIDE DEF Below
    <2>2. /\ IsFiniteSet(Below(i)) /\ Cardinality(Below(i)) <= Cardinality(S)
          /\ Cardinality(S) = Cardinality(Below(i)) => S = Below(i)
      BY <2>1, FS_Subset
    <2>3. Cardinality(Below(i)) \in Nat /\ Cardinality(S) \in Nat
      BY <2>2, FS_CardinalityType
    <2>4. Cardinality(S) # Cardinality(Below(i))
      BY <2>1, <2>2
    <2> QED
      BY <2>2, <2>3, <2>4
  <1>2. ASSUME NEW i \in S, i < k
        PROVE  Cardinality(Below(i)) < Cardinality(Below(k))
    <2>1. Below(i) \subseteq Below(k)
      <3>1. i \in Int /\ k \in Int /\ \A j \in S : j \in Int
        OBVIOUS
      <3>2. \A j \in S : j < i => j < k
        BY <1>2, <3>1
      <3> QED
        BY <3>2
    <2>2. i \in Below(k) /\ i \notin Below(i)
      BY <1>2
    <2>3. IsFiniteSet(Below(k)) /\ Cardinality(Below(k)) \in Nat /\ Cardinality(Below(i)) \in Nat
      BY <1>1
    <2> HIDE DEF Below
    <2>4. /\ Cardinality(Below(i)) <= Cardinality(Below(k))
          /\ Cardinality(Below(k)) = Cardinality(Below(i)) => Below(k) = Below(i)
      BY <2>1, <2>3, FS_Subset
    <2>5. Cardinality(Below(k)) # Cardinality(Below(i))
      BY <2>2, <2>4
    <2> QED
      BY <2>3, <2>4, <2>5
  <1>3. Cardinality(Below(k)) \in 0 .. Cardinality(S) - 1
    <2> HIDE DEF Below
    <2> QED
      BY <1>1
  <1> QED
    BY <1>2, <1>3

LEMMA NthIsThere ==
  ASSUME NEW S, S \subseteq Nat, IsFiniteSet(S), NEW n \in 1 .. Cardinality(S)
  PROVE  Nth(S, n) \in S /\ Cardinality({j \in S : j < Nth(S, n)}) = n - 1
  <1> DEFINE N == Cardinality(S)
             rank == [k \in S |-> Cardinality({j \in S : j < k})]
             ranks == 0 .. (N - 1)
  <1>1. N \in Nat
    BY FS_CardinalityType
  <1>2. rank \in [S -> ranks]
    BY Ranks
  <1>3. \A i, j \in S : rank[i] = rank[j] => i = j
    <2>1. ASSUME NEW i \in S, NEW j \in S, i < j PROVE rank[i] # rank[j]
      <3>1. rank[i] < rank[j] /\ rank[i] \in ranks
        BY <2>1, Ranks
      <3>2. rank[i] \in Int
        BY <1>1, <3>1
      <3> HIDE DEF rank, N
      <3> QED
        BY <3>1, <3>2
    <2>2. \A i, j \in S : i = j \/ i < j \/ j < i
      OBVIOUS
    <2> HIDE DEF rank
    <2> QED
      BY <2>1, <2>2
  <1>4. IsFiniteSet(ranks) /\ Cardinality(ranks) = N
    <2>1. 0 \in Int /\ N - 1 \in Int
      BY <1>1
    <2>2. IsFiniteSet(ranks) /\ Cardinality(ranks) = IF 0 > N - 1 THEN 0 ELSE (N - 1) - 0 + 1
      BY <2>1, FS_Interval
    <2> HIDE DEF N, ranks
    <2> QED
      BY <1>1, <2>2
  <1>5. rank \in Injection(S, ranks)
    <2> HIDE DEF rank, ranks
    <2> QED
      BY <1>2, <1>3 DEF Injection, IsInjective
  <1>6. rank \in Surjection(S, ranks)
    <2> HIDE DEF rank, ranks
    <2> QED
      BY <1>4, <1>5, FS_Injection
  <1>7. n - 1 \in ranks
    <2> HIDE DEF N
    <2>1. n \in 1 .. N
      BY DEF N
    <2> QED
      BY <1>1, <2>1
  <1>8. \E k \in S : rank[k] = n - 1
    <2> HIDE DEF rank, ranks
    <2> QED
      BY <1>6, <1>7 DEF Surjection
  <1>9. \E k \in S : Cardinality({j \in S : j < k}) = n - 1
    BY <1>8
  <1> QED
    BY <1>9 DEF Nth

LEMMA NthIsInOrder ==
  ASSUME NEW S, S \subseteq Nat, IsFiniteSet(S),
         NEW m \in 1 .. Cardinality(S), NEW n \in 1 .. Cardinality(S)
  PROVE  /\ Nth(S, m) = Nth(S, n) => m = n
         /\ Nth(S, m) < Nth(S, n) => m < n
  <1>1. Cardinality(S) \in Nat /\ m \in Int /\ n \in Int
    BY FS_CardinalityType
  <1>2. /\ Nth(S, m) \in S /\ Cardinality({j \in S : j < Nth(S, m)}) = m - 1
        /\ Nth(S, n) \in S /\ Cardinality({j \in S : j < Nth(S, n)}) = n - 1
    BY NthIsThere
  <1>3. Nth(S, m) < Nth(S, n) => m - 1 < n - 1
    BY <1>2, Ranks
  <1> QED
    BY <1>1, <1>2, <1>3

LEMMA LeastPosition ==
  ASSUME NEW n \in Nat, NEW S, S \subseteq 1 .. n, S # {}
  PROVE  \E k \in S : \A j \in S : k <= j
  <1>1. IsFiniteSet(S) /\ S \subseteq Nat
    <2>1. IsFiniteSet(1 .. n)
      <3>1. 1 \in Int /\ n \in Int
        OBVIOUS
      <3> QED
        BY <3>1, FS_Interval
    <2>2. IsFiniteSet(S)
      BY <2>1, FS_Subset
    <2>3. \A j \in 1 .. n : j \in Nat
      OBVIOUS
    <2> QED
      BY <2>2, <2>3
  <1>2. 1 \in 1 .. Cardinality(S)
    <2>1. Cardinality(S) \in Nat /\ Cardinality(S) # 0
      BY <1>1, FS_CardinalityType, FS_EmptySet
    <2> QED
      BY <2>1
  <1>3. Nth(S, 1) \in S /\ Cardinality({j \in S : j < Nth(S, 1)}) = 0
    <2>1. Nth(S, 1) \in S /\ Cardinality({j \in S : j < Nth(S, 1)}) = 1 - 1
      BY <1>1, <1>2, NthIsThere
    <2> QED
      BY <2>1
  <1>4. {j \in S : j < Nth(S, 1)} = {}
    <2>1. IsFiniteSet({j \in S : j < Nth(S, 1)})
      BY <1>1, FS_Subset
    <2> QED
      BY <1>3, <2>1, FS_EmptySet
  <1>5. \A j \in S : ~(j < Nth(S, 1))
    BY <1>4
  <1>6. \A j, k \in S : ~(j < k) => k <= j
    <2>1. \A j \in S : j \in Int
      BY <1>1
    <2> QED
      BY <2>1
  <1> QED
    BY <1>3, <1>5, <1>6

----------------------------------------------------------------------------
(* The registry                                                            *)

LEMMA GetIsFirst ==
  ASSUME NEW reg \in Seq(JobConfigs), NEW id, Has(reg, id)
  PROVE  /\ Get(reg, id) \in DOMAIN reg /\ reg[Get(reg, id)].id = id
         /\ \A k \in 1 .. Get(reg, id) - 1 : reg[k].id # id
  <1> DEFINE S == {i \in DOMAIN reg : reg[i].id = id}
  <1>1. Len(reg) \in Nat /\ DOMAIN reg = 1 .. Len(reg)
    BY LenProperties
  <1>2. PICK k \in S : \A j \in S : k <= j
    <2>1. S \subseteq 1 .. Len(reg) /\ S # {}
      BY <1>1 DEF Has
    <2> HIDE DEF S
    <2> QED
      BY <1>1, <2>1, LeastPosition
  <1>3. k \in DOMAIN reg /\ reg[k].id = id /\ \A j \in 1 .. k - 1 : reg[j].id # id
    BY <1>1, <1>2
  <1> QED
    BY <1>3 DEF Get

LEMMA UsableIsFirst ==
  ASSUME NEW reg \in Seq(JobConfigs), NEW i
  PROVE  i \in UsableEntries(reg) <=>
            /\ i \in DOMAIN reg /\ reg[i].cadence # Broken
            /\ \A k \in 1 .. i - 1 : reg[k].id # reg[i].id
  <1> SUFFICES ASSUME i \in DOMAIN reg
               PROVE  i = Get(reg, reg[i].id) <=> \A k \in 1 .. i - 1 : reg[k].id # reg[i].id
    BY DEF UsableEntries
  <1>1. Len(reg) \in Nat /\ DOMAIN reg = 1 .. Len(reg)
    BY LenProperties
  <1>2. Has(reg, reg[i].id)
    BY DEF Has
  <1>3. PICK g : g = Get(reg, reg[i].id)
    OBVIOUS
  <1>4. g \in DOMAIN reg /\ reg[g].id = reg[i].id /\ \A k \in 1 .. g - 1 : reg[k].id # reg[i].id
    BY <1>2, <1>3, GetIsFirst
  <1> QED
    BY <1>1, <1>3, <1>4

\* An entry is replaced by one of the same id.
LEMMA ReplacedEntry ==
  ASSUME NEW reg \in Seq(JobConfigs), NEW i \in DOMAIN reg, NEW e \in JobConfigs, e.id = reg[i].id,
         NEW new, new = [reg EXCEPT ![i] = e]
  PROVE  /\ new \in Seq(JobConfigs) /\ DOMAIN new = DOMAIN reg
         /\ \A k \in DOMAIN reg : new[k] = IF k = i THEN e ELSE reg[k]
         /\ \A k \in DOMAIN reg : new[k].id = reg[k].id
  <1>1. DOMAIN reg = 1 .. Len(reg)
    BY LenProperties
  <1>2. new \in Seq(JobConfigs) /\ Len(new) = Len(reg)
    BY <1>1, ExceptSeq
  <1>3. DOMAIN new = DOMAIN reg
    BY <1>1, <1>2, LenProperties
  <1>4. \A k \in DOMAIN reg : new[k] = IF k = i THEN e ELSE reg[k]
    OBVIOUS
  <1> QED
    BY <1>2, <1>3, <1>4

\* The ids in place, the usable entries change only where cadences do.
LEMMA UsableAfterReplacing ==
  ASSUME NEW reg \in Seq(JobConfigs), NEW new \in Seq(JobConfigs), DOMAIN new = DOMAIN reg,
         \A k \in DOMAIN reg : new[k].id = reg[k].id,
         NEW id, \A k \in DOMAIN reg : reg[k].id = id => new[k].cadence = reg[k].cadence,
         id \in UsableIds(new)
  PROVE  id \in UsableIds(reg)
  <1>1. PICK i \in UsableEntries(new) : new[i].id = id
    BY DEF UsableIds
  <1>2. /\ i \in DOMAIN new /\ new[i].cadence # Broken
        /\ \A k \in 1 .. i - 1 : new[k].id # new[i].id
    BY <1>1, UsableIsFirst
  <1>3. DOMAIN reg = 1 .. Len(reg) /\ Len(reg) \in Nat
    BY LenProperties
  <1>4. \A k \in 1 .. i - 1 : k \in DOMAIN reg
    BY <1>2, <1>3
  <1>5. i \in UsableEntries(reg)
    BY <1>1, <1>2, <1>4, UsableIsFirst
  <1> QED
    BY <1>1, <1>2, <1>5 DEF UsableIds

LEMMA AppendedEntry ==
  ASSUME NEW reg \in Seq(JobConfigs), NEW e \in JobConfigs, NEW new, new = Append(reg, e)
  PROVE  /\ new \in Seq(JobConfigs)
         /\ DOMAIN new = DOMAIN reg \cup {Len(reg) + 1} /\ Len(reg) + 1 \notin DOMAIN reg
         /\ \A k \in DOMAIN reg : new[k] = reg[k]
         /\ new[Len(reg) + 1] = e
  <1>1. DOMAIN reg = 1 .. Len(reg) /\ Len(reg) \in Nat
    BY LenProperties
  <1> QED
    BY <1>1, AppendProperties

\* An edit makes no other id usable.
LEMMA UsableAfterEditing ==
  ASSUME NEW reg \in Seq(JobConfigs), NEW e \in JobConfigs, NEW new,
         \/ \E i \in DOMAIN reg : reg[i].id = e.id /\ new = [reg EXCEPT ![i] = e]
         \/ new = Append(reg, e)
  PROVE  /\ new \in Seq(JobConfigs)
         /\ \A id \in UsableIds(new) : id = e.id \/ id \in UsableIds(reg)
  <1>1. ASSUME NEW i \in DOMAIN reg, reg[i].id = e.id, new = [reg EXCEPT ![i] = e],
               NEW id \in UsableIds(new), id # e.id
        PROVE  id \in UsableIds(reg)
    <2>1. /\ new \in Seq(JobConfigs) /\ DOMAIN new = DOMAIN reg
          /\ \A k \in DOMAIN reg : new[k] = IF k = i THEN e ELSE reg[k]
          /\ \A k \in DOMAIN reg : new[k].id = reg[k].id
      BY <1>1, ReplacedEntry
    <2>2. \A k \in DOMAIN reg : reg[k].id = id => new[k].cadence = reg[k].cadence
      BY <1>1, <2>1
    <2> QED
      BY <1>1, <2>1, <2>2, UsableAfterReplacing
  <1>2. ASSUME new = Append(reg, e), NEW id \in UsableIds(new), id # e.id
        PROVE  id \in UsableIds(reg)
    <2>1. /\ new \in Seq(JobConfigs)
          /\ DOMAIN new = DOMAIN reg \cup {Len(reg) + 1}
          /\ \A k \in DOMAIN reg : new[k] = reg[k]
          /\ new[Len(reg) + 1] = e
      BY <1>2, AppendedEntry
    <2>2. PICK i \in UsableEntries(new) : new[i].id = id
      BY <1>2 DEF UsableIds
    <2>3. /\ i \in DOMAIN new /\ new[i].cadence # Broken
          /\ \A k \in 1 .. i - 1 : new[k].id # new[i].id
      BY <2>1, <2>2, UsableIsFirst
    <2>4. i \in DOMAIN reg
      BY <1>2, <2>1, <2>2, <2>3
    <2>5. DOMAIN reg = 1 .. Len(reg) /\ Len(reg) \in Nat
      BY LenProperties
    <2>6. \A k \in 1 .. i - 1 : k \in DOMAIN reg
      BY <2>4, <2>5
    <2>7. i \in UsableEntries(reg)
      BY SMTT(30), <2>1, <2>3, <2>4, <2>6, UsableIsFirst
    <2> QED
      BY <2>1, <2>2, <2>4, <2>7 DEF UsableIds
  <1>3. new \in Seq(JobConfigs)
    BY ReplacedEntry, AppendedEntry
  <1> QED
    BY <1>1, <1>2, <1>3

LEMMA InsertedEntry ==
  ASSUME NEW reg \in Seq(JobConfigs), NEW e \in JobConfigs, NEW p \in 1 .. Len(reg) + 1,
         NEW new, new = InsertAt(reg, p, e)
  PROVE  /\ new \in Seq(JobConfigs) /\ DOMAIN new = 1 .. Len(reg) + 1 /\ Len(new) = Len(reg) + 1
         /\ new[p] = e
         /\ \A k \in 1 .. p - 1 : new[k] = reg[k]
         /\ \A k \in p .. Len(reg) : new[k + 1] = reg[k]
  <1> DEFINE a == SubSeq(reg, 1, p - 1)
             b == SubSeq(reg, p, Len(reg))
  <1>1. Len(reg) \in Nat /\ p \in Nat /\ p >= 1 /\ p - 1 \in Nat
    BY LenProperties
  <1>2. \A i \in 1 .. Len(reg) : reg[i] \in JobConfigs
    BY ElementOfSeq
  <1>3. /\ a \in Seq(JobConfigs) /\ Len(a) = p - 1
        /\ \A i \in 1 .. p - 1 : a[i] = reg[i]
    <2>1. \A i \in 1 .. p - 1 : reg[i] \in JobConfigs
      BY <1>1, <1>2
    <2>2. 1 \in Int /\ p - 1 \in Int
      BY <1>1
    <2>3. /\ a \in Seq(JobConfigs) /\ Len(a) = IF 1 <= p - 1 THEN (p - 1) - 1 + 1 ELSE 0
          /\ \A i \in 1 .. (p - 1) - 1 + 1 : a[i] = reg[1 + i - 1]
      BY <2>1, <2>2, SubSeqProperties
    <2> HIDE DEF a
    <2> QED
      BY <1>1, <2>3
  <1>4. /\ b \in Seq(JobConfigs) /\ Len(b) = Len(reg) - p + 1
        /\ \A i \in 1 .. Len(reg) - p + 1 : b[i] = reg[p + i - 1]
    <2>1. \A i \in p .. Len(reg) : reg[i] \in JobConfigs
      BY <1>1, <1>2
    <2>2. p \in Int /\ Len(reg) \in Int
      BY <1>1
    <2>3. /\ b \in Seq(JobConfigs) /\ Len(b) = IF p <= Len(reg) THEN Len(reg) - p + 1 ELSE 0
          /\ \A i \in 1 .. Len(reg) - p + 1 : b[i] = reg[p + i - 1]
      BY <2>1, <2>2, SubSeqProperties
    <2> HIDE DEF b
    <2> QED
      BY <1>1, <2>3
  <1>5. <<e>> \in Seq(JobConfigs) /\ Len(<<e>>) = 1 /\ <<e>>[1] = e
    OBVIOUS
  <1>6. new = (a \o <<e>>) \o b
    BY DEF InsertAt
  <1> HIDE DEF a, b
  <1>7. /\ a \o <<e>> \in Seq(JobConfigs) /\ Len(a \o <<e>>) = p
        /\ \A i \in 1 .. p : (a \o <<e>>)[i] = IF i <= p - 1 THEN a[i] ELSE <<e>>[i - (p - 1)]
    BY <1>1, <1>3, <1>5, ConcatProperties
  <1>8. /\ new \in Seq(JobConfigs) /\ Len(new) = Len(reg) + 1
        /\ \A i \in 1 .. Len(reg) + 1 : new[i] = IF i <= p THEN (a \o <<e>>)[i] ELSE b[i - p]
    BY <1>1, <1>4, <1>6, <1>7, ConcatProperties
  <1>9. DOMAIN new = 1 .. Len(reg) + 1
    BY <1>8, LenProperties
  <1>10. new[p] = e
    <2>1. (a \o <<e>>)[p] = <<e>>[p - (p - 1)]
      BY <1>1, <1>7
    <2>2. p - (p - 1) = 1 /\ p \in 1 .. Len(reg) + 1 /\ p <= p
      BY <1>1
    <2> QED
      BY <1>5, <1>8, <2>1, <2>2
  <1>11. ASSUME NEW k \in 1 .. p - 1 PROVE new[k] = reg[k]
    <2>1. k \in 1 .. p /\ k <= p - 1 /\ k <= p /\ k \in 1 .. Len(reg) + 1
      BY <1>1
    <2> QED
      BY <1>3, <1>7, <1>8, <2>1
  <1>12. ASSUME NEW k \in p .. Len(reg) PROVE new[k + 1] = reg[k]
    <2>1. /\ k + 1 \in 1 .. Len(reg) + 1 /\ ~(k + 1 <= p) /\ k + 1 - p \in 1 .. Len(reg) - p + 1
          /\ p + (k + 1 - p) - 1 = k
      BY <1>1
    <2>2. new[k + 1] = b[k + 1 - p]
      BY <1>8, <2>1
    <2>3. b[k + 1 - p] = reg[p + (k + 1 - p) - 1]
      BY <1>4, <2>1
    <2> QED
      BY <2>1, <2>2, <2>3
  <1> QED
    BY <1>8, <1>9, <1>10, <1>11, <1>12

LEMMA BuiltInsAreConfigs == \A n \in 1 .. 3 : BuiltIns[n] \in JobConfigs
  <1> SUFFICES ASSUME NEW n \in 1 .. 3 PROVE BuiltIns[n] \in JobConfigs
    OBVIOUS
  <1>1. n \in 1 .. Len(BuiltIns)
    BY SchedulerConstants
  <1> QED
    BY <1>1, SchedulerConstants, ElementOfSeq

LEMMA WithKeeps ==
  ASSUME NEW reg \in Seq(JobConfigs), NEW n \in 1 .. 3, NEW new, new = With(reg, n)
  PROVE  /\ new \in Seq(JobConfigs) /\ Has(new, BuiltIns[n].id)
         /\ Len(new) >= Len(reg) /\ Len(new) >= 1
         /\ Entries(reg) \subseteq Entries(new)
         /\ ~Has(reg, BuiltIns[n].id) =>
               LET p == IF n <= Len(reg) THEN n ELSE Len(reg) + 1
               IN  new = InsertAt(reg, p, BuiltIns[n]) /\ p \in 1 .. Len(reg) + 1
  <1>1. DOMAIN reg = 1 .. Len(reg) /\ Len(reg) \in Nat
    BY LenProperties
  <1>2. CASE Has(reg, BuiltIns[n].id)
    BY <1>1, <1>2 DEF With, Has
  <1>3. CASE ~Has(reg, BuiltIns[n].id)
    <2>1. PICK p \in 1 .. Len(reg) + 1 : p = IF n <= Len(reg) THEN n ELSE Len(reg) + 1
      BY <1>1
    <2>2. new = InsertAt(reg, p, BuiltIns[n])
      BY <1>3, <2>1 DEF With
    <2>3. BuiltIns[n] \in JobConfigs
      BY BuiltInsAreConfigs
    <2>4. /\ new \in Seq(JobConfigs) /\ DOMAIN new = 1 .. Len(reg) + 1 /\ Len(new) = Len(reg) + 1
          /\ new[p] = BuiltIns[n]
          /\ \A k \in 1 .. p - 1 : new[k] = reg[k]
          /\ \A k \in p .. Len(reg) : new[k + 1] = reg[k]
      BY SMTT(30), <2>2, <2>3, InsertedEntry
    <2>5. ASSUME NEW k \in DOMAIN reg PROVE \E j \in DOMAIN new : new[j] = reg[k]
      <3>1. CASE k \in 1 .. p - 1
        BY <1>1, <2>4, <3>1
      <3>2. CASE k \in p .. Len(reg)
        BY <1>1, <2>4, <3>2
      <3> QED
        BY <1>1, <3>1, <3>2
    <2>6. Entries(reg) \subseteq Entries(new)
      BY <2>5 DEF Entries
    <2>7. Has(new, BuiltIns[n].id)
      BY <2>4 DEF Has
    <2> QED
      BY <1>1, <1>3, <2>1, <2>2, <2>4, <2>6, <2>7
  <1> QED
    BY <1>2, <1>3

LEMMA RestoredKeeps ==
  ASSUME NEW reg \in Seq(JobConfigs)
  PROVE  Restored(reg) \in Seq(JobConfigs) /\ Entries(reg) \subseteq Entries(Restored(reg))
  <1>1. PICK a : a = With(reg, 1)
    OBVIOUS
  <1>2. PICK b : b = With(a, 2)
    OBVIOUS
  <1>3. a \in Seq(JobConfigs) /\ Entries(reg) \subseteq Entries(a)
    BY <1>1, WithKeeps
  <1>4. b \in Seq(JobConfigs) /\ Entries(a) \subseteq Entries(b)
    BY <1>2, <1>3, WithKeeps
  <1>5. With(b, 3) \in Seq(JobConfigs) /\ Entries(b) \subseteq Entries(With(b, 3))
    BY <1>4, WithKeeps
  <1> QED
    BY <1>1, <1>2, <1>3, <1>4, <1>5 DEF Restored

LEMMA ThemesAheadAfterDaily ==
  ASSUME NEW reg \in Seq(JobConfigs), ThemesAhead(reg)
  PROVE  ThemesAhead(With(reg, 1))
  <1>1. PICK new : new = With(reg, 1)
    OBVIOUS
  <1>2. CASE Has(reg, DailyId)
    BY <1>2 DEF With, DailyId
  <1>3. CASE ~Has(reg, DailyId)
    <2>1. DOMAIN reg = 1 .. Len(reg) /\ Len(reg) \in Nat
      BY LenProperties
    <2>2. PICK p \in 1 .. Len(reg) + 1 : new = InsertAt(reg, p, BuiltIns[1])
      <3>1. LET q == IF 1 <= Len(reg) THEN 1 ELSE Len(reg) + 1
            IN  new = InsertAt(reg, q, BuiltIns[1]) /\ q \in 1 .. Len(reg) + 1
        <4>1. ~Has(reg, BuiltIns[1].id) /\ 1 \in 1 .. 3
          BY <1>3 DEF DailyId
        <4> QED
          BY <1>1, <4>1, WithKeeps
      <3> QED
        BY <3>1
    <2>3. BuiltIns[1] \in JobConfigs
      BY BuiltInsAreConfigs
    <2>4. /\ DOMAIN new = 1 .. Len(reg) + 1
          /\ new[p] = BuiltIns[1]
          /\ \A k \in 1 .. p - 1 : new[k] = reg[k]
          /\ \A k \in p .. Len(reg) : new[k + 1] = reg[k]
      BY <2>2, <2>3, InsertedEntry
    <2>5. new[p].id = DailyId
      BY <2>4 DEF DailyId
    \* where an entry of the new registry was, and where an entry went
    <2>6. ASSUME NEW k \in DOMAIN new, k # p
          PROVE  \E j \in DOMAIN reg : new[k] = reg[j] /\ k = IF j < p THEN j ELSE j + 1
      <3>1. CASE k < p
        <4>1. k \in 1 .. p - 1 /\ k \in DOMAIN reg
          BY <2>1, <2>4, <3>1
        <4> QED
          BY <2>4, <3>1, <4>1
      <3>2. CASE k > p
        <4>1. PICK j \in p .. Len(reg) : k = j + 1
          <5>1. k \in Int /\ p \in Int /\ k <= Len(reg) + 1
            BY <2>1, <2>4
          <5>2. k - 1 \in p .. Len(reg) /\ k = (k - 1) + 1
            BY <2>1, <3>2, <5>1
          <5> QED
            BY <5>2
        <4> QED
          BY <2>1, <2>4, <4>1
      <3> QED
        BY <2>4, <2>6, <3>1, <3>2
    <2>7. ASSUME NEW j \in DOMAIN reg
          PROVE  \E k \in DOMAIN new : new[k] = reg[j] /\ k = IF j < p THEN j ELSE j + 1
      <3>1. CASE j < p
        BY <2>1, <2>4, <3>1
      <3>2. CASE j >= p
        BY <2>1, <2>4, <3>2
      <3> QED
        BY <2>1, <3>1, <3>2
    <2>8. ASSUME NEW k \in DOMAIN new, new[k].id = CrystallizeId
          PROVE  \E j \in DOMAIN reg : reg[j].id = CrystallizeId /\ k = IF j < p THEN j ELSE j + 1
      BY <2>5, <2>6, <2>8, SchedulerConstants
    <2>9. CASE Has(reg, ThemesId)
      <3>1. PICK i \in DOMAIN reg : /\ reg[i].id = ThemesId
                                   /\ \A k \in DOMAIN reg : reg[k].id = CrystallizeId => i < k
        BY <2>9 DEF ThemesAhead
      <3>2. PICK c \in DOMAIN reg : reg[c].id = CrystallizeId
        BY <2>9 DEF ThemesAhead
      <3>3. PICK m \in DOMAIN new : new[m] = reg[i] /\ m = IF i < p THEN i ELSE i + 1
        BY <2>7
      <3>4. \E k \in DOMAIN new : new[k].id = CrystallizeId
        BY <2>7, <3>2
      <3>5. \A k \in DOMAIN new : new[k].id = CrystallizeId => m < k
        BY <2>1, <2>8, <3>1, <3>3
      <3>6. Has(new, ThemesId)
        BY <3>1, <3>3 DEF Has
      <3> QED
        BY <1>1, <3>1, <3>3, <3>4, <3>5, <3>6 DEF ThemesAhead
    <2>10. CASE ~Has(reg, ThemesId)
      <3>1. \A k \in DOMAIN reg : reg[k].id = CrystallizeId => k >= 2
        BY <2>10 DEF ThemesAhead
      <3>2. ~Has(new, ThemesId)
        BY <2>5, <2>6, <2>10, SchedulerConstants DEF Has
      <3>3. \A k \in DOMAIN new : new[k].id = CrystallizeId => k >= 2
        BY <2>1, <2>8, <3>1
      <3> QED
        BY <1>1, <3>2, <3>3 DEF ThemesAhead
    <2> QED
      BY <2>9, <2>10
  <1> QED
    BY <1>2, <1>3

\* Behind the daily job, the migration puts themes second and crystallize, if
\* that is missing too, third.
LEMMA ThemesAheadWhenRestored ==
  ASSUME NEW reg \in Seq(JobConfigs), ThemesAhead(reg)
  PROVE  ThemesAhead(Restored(reg))
  <1>1. PICK a : a = With(reg, 1)
    OBVIOUS
  <1>2. PICK b : b = With(a, 2)
    OBVIOUS
  <1>3. PICK c : c = With(b, 3)
    OBVIOUS
  <1>4. a \in Seq(JobConfigs) /\ Len(a) >= 1 /\ ThemesAhead(a)
    BY <1>1, WithKeeps, ThemesAheadAfterDaily
  <1>5. b \in Seq(JobConfigs) /\ Has(b, ThemesId)
    BY <1>2, <1>4, WithKeeps DEF ThemesId
  <1>6. c \in Seq(JobConfigs)
    BY <1>3, <1>5, WithKeeps
  <1>7. DOMAIN a = 1 .. Len(a) /\ Len(a) \in Nat /\ DOMAIN b = 1 .. Len(b) /\ Len(b) \in Nat
    BY <1>4, <1>5, LenProperties
  <1>8. CASE Has(a, ThemesId)
    <2>1. b = a
      BY <1>2, <1>8 DEF With, ThemesId
    <2>2. Has(b, CrystallizeId)
      BY <1>4, <1>8, <2>1 DEF ThemesAhead, Has
    <2>3. c = b
      BY <1>3, <2>2 DEF With, CrystallizeId
    <2> QED
      BY <1>1, <1>2, <1>3, <1>4, <2>1, <2>3 DEF Restored
  <1>9. CASE ~Has(a, ThemesId)
    <2>1. BuiltIns[2] \in JobConfigs /\ BuiltIns[3] \in JobConfigs
      BY BuiltInsAreConfigs
    <2>2. b = InsertAt(a, 2, BuiltIns[2]) /\ 2 \in 1 .. Len(a) + 1
      <3>1. LET p == IF 2 <= Len(a) THEN 2 ELSE Len(a) + 1
            IN  b = InsertAt(a, p, BuiltIns[2]) /\ p \in 1 .. Len(a) + 1
        BY <1>2, <1>4, <1>9, WithKeeps DEF ThemesId
      <3> QED
        BY <1>4, <1>7, <3>1
    <2>3. /\ DOMAIN b = 1 .. Len(a) + 1 /\ Len(b) = Len(a) + 1
          /\ b[2] = BuiltIns[2]
          /\ \A k \in 1 .. 2 - 1 : b[k] = a[k]
          /\ \A k \in 2 .. Len(a) : b[k + 1] = a[k]
      BY SMTT(30), <1>4, <2>1, <2>2, InsertedEntry
    <2>4. b[2].id = ThemesId /\ 2 \in DOMAIN b
      BY <1>4, <1>7, <2>3 DEF ThemesId
    <2>5. \A k \in DOMAIN b : b[k].id = CrystallizeId => 2 < k
      <3>1. \A k \in DOMAIN a : a[k].id = CrystallizeId => k >= 2
        BY <1>4, <1>9 DEF ThemesAhead
      <3>2. b[1] = a[1] /\ 1 \in DOMAIN a
        BY <1>4, <1>7, <2>3
      <3>3. b[1].id # CrystallizeId
        BY <3>1, <3>2
      <3> QED
        BY <1>7, <2>4, <3>3, SchedulerConstants
    <2>6. CASE Has(b, CrystallizeId)
      <3>1. c = b
        BY <1>3, <2>6 DEF With, CrystallizeId
      <3> QED
        BY <1>1, <1>2, <1>3, <1>5, <2>4, <2>5, <2>6, <3>1 DEF Restored, ThemesAhead, Has
    <2>7. CASE ~Has(b, CrystallizeId)
      <3>1. c = InsertAt(b, 3, BuiltIns[3]) /\ 3 \in 1 .. Len(b) + 1
        <4>1. LET p == IF 3 <= Len(b) THEN 3 ELSE Len(b) + 1
              IN  c = InsertAt(b, p, BuiltIns[3]) /\ p \in 1 .. Len(b) + 1
          BY <1>3, <1>5, <2>7, WithKeeps DEF CrystallizeId
        <4>2. Len(b) >= 2
          BY <1>4, <1>7, <2>3
        <4> QED
          BY <1>7, <4>1, <4>2
      <3>2. /\ DOMAIN c = 1 .. Len(b) + 1
            /\ c[3] = BuiltIns[3]
            /\ \A k \in 1 .. 3 - 1 : c[k] = b[k]
            /\ \A k \in 3 .. Len(b) : c[k + 1] = b[k]
        <4>1. PICK p \in 1 .. Len(b) + 1 : p = 3 /\ c = InsertAt(b, p, BuiltIns[3])
          BY <3>1
        <4>2. /\ DOMAIN c = 1 .. Len(b) + 1
              /\ c[p] = BuiltIns[3]
              /\ \A k \in 1 .. p - 1 : c[k] = b[k]
              /\ \A k \in p .. Len(b) : c[k + 1] = b[k]
          <5>1. b \in Seq(JobConfigs)
            BY <1>5
          <5>2. PICK e \in JobConfigs : e = BuiltIns[3]
            BY <2>1
          <5>3. c = InsertAt(b, p, e)
            BY <4>1, <5>2
          <5>4. /\ DOMAIN c = 1 .. Len(b) + 1
                /\ c[p] = e
                /\ \A k \in 1 .. p - 1 : c[k] = b[k]
                /\ \A k \in p .. Len(b) : c[k + 1] = b[k]
            BY <5>1, <5>3, InsertedEntry
          <5> QED
            BY <5>2, <5>4
        <4> QED
          BY <4>1, <4>2
      <3>3. c[2].id = ThemesId /\ 2 \in DOMAIN c /\ 3 \in DOMAIN c /\ c[3].id = CrystallizeId
        BY <1>7, <2>4, <3>1, <3>2 DEF CrystallizeId
      <3>4. \A k \in DOMAIN c : c[k].id = CrystallizeId => 2 < k
        <4>1. c[1] = b[1] /\ 1 \in DOMAIN b
          BY <1>4, <1>7, <2>3, <3>2
        <4>2. c[1].id # CrystallizeId
          BY <2>7, <4>1 DEF Has
        <4> QED
          BY <1>7, <3>2, <3>3, <4>2, SchedulerConstants
      <3> QED
        BY <1>1, <1>2, <1>3, <3>3, <3>4 DEF Restored, ThemesAhead, Has
    <2> QED
      BY <2>6, <2>7
  <1> QED
    BY <1>8, <1>9

----------------------------------------------------------------------------
(* The plan of a tick                                                      *)

LEMMA ListedEntries ==
  ASSUME NEW reg \in Seq(JobConfigs), NEW S, S \subseteq DOMAIN reg, NEW why \in {"due", "retry"},
         NEW s, s = Listed(reg, S, why)
  PROVE  /\ s \in Seq(Planned)
         /\ \A n \in 1 .. Len(s) : Nth(S, n) \in S /\ s[n] = [id |-> reg[Nth(S, n)].id, why |-> why]
         /\ \A m, n \in 1 .. Len(s) : /\ Nth(S, m) = Nth(S, n) => m = n
                                      /\ Nth(S, m) < Nth(S, n) => m < n
  <1>1. DOMAIN reg = 1 .. Len(reg) /\ Len(reg) \in Nat
    BY LenProperties
  <1>2. S \subseteq Nat /\ IsFiniteSet(S)
    <2>1. 1 \in Int /\ Len(reg) \in Int
      BY <1>1
    <2>2. IsFiniteSet(1 .. Len(reg))
      BY <2>1, FS_Interval
    <2>3. IsFiniteSet(S)
      BY <1>1, <2>2, FS_Subset
    <2>4. \A k \in 1 .. Len(reg) : k \in Nat
      OBVIOUS
    <2> QED
      BY <1>1, <2>3, <2>4
  <1>3. PICK c \in Nat : c = Cardinality(S)
    BY <1>2, FS_CardinalityType
  <1>4. \A n \in 1 .. c : Nth(S, n) \in S
    BY <1>2, <1>3, NthIsThere
  <1>5. \A k \in S : reg[k].id \in Ids
    <2>1. \A k \in S : reg[k] \in JobConfigs
      BY <1>1, ElementOfSeq
    <2> QED
      BY <2>1 DEF JobConfigs
  <1>7. s = [n \in 1 .. c |-> [id |-> reg[Nth(S, n)].id, why |-> why]]
    BY <1>3 DEF Listed
  <1>8. \A n \in 1 .. c : s[n] = [id |-> reg[Nth(S, n)].id, why |-> why] /\ s[n] \in Planned
    BY <1>4, <1>5, <1>7 DEF Planned
  <1>9. s \in [1 .. c -> Planned]
    BY <1>7, <1>8
  <1>10. s \in Seq(Planned) /\ Len(s) = c
    BY <1>9
  <1>11. \A m, n \in 1 .. c : /\ Nth(S, m) = Nth(S, n) => m = n
                              /\ Nth(S, m) < Nth(S, n) => m < n
    <2> TAKE m, n \in 1 .. c
    <2> QED
      BY <1>2, <1>3, NthIsInOrder
  <1> QED
    BY <1>4, <1>8, <1>10, <1>11

\* A plan names usable entries, each once, for a reason they have, and those of
\* one reason in the order of the registry.
LEMMA PlanIsRight ==
  ASSUME registry \in Seq(JobConfigs), NEW plan, plan = Plan(registry, now)
  PROVE  /\ plan \in Seq(Planned)
         /\ \E at \in [DOMAIN plan -> UsableEntries(registry)] :
               /\ \A i \in DOMAIN plan :
                     LET e == registry[at[i]]
                     IN  /\ plan[i].id = e.id
                         /\ \/ plan[i].why = "due" /\ IsDue(e.cadence, runs[e.id], now)
                            \/ plan[i].why = "retry" /\ RetryDue(runs[e.id], now)
               /\ \A i, k \in DOMAIN plan :
                     /\ at[i] = at[k] => i = k
                     /\ plan[i].why = plan[k].why /\ at[i] < at[k] => i < k
  <1> DEFINE live == {i \in UsableEntries(registry) : registry[i].enabled}
             due == {i \in live : IsDue(registry[i].cadence, runs[registry[i].id], now)}
             owed == {i \in live \ due : RetryDue(runs[registry[i].id], now)}
  <1>1. PICK D : D = due
    OBVIOUS
  <1>2. PICK O : O = owed
    OBVIOUS
  <1>3. /\ D \subseteq UsableEntries(registry) /\ O \subseteq UsableEntries(registry)
        /\ \A i \in D : i \notin O
        /\ \A i \in D : IsDue(registry[i].cadence, runs[registry[i].id], now)
        /\ \A i \in O : RetryDue(runs[registry[i].id], now)
    BY <1>1, <1>2
  <1>4. plan = Listed(registry, D, "due") \o Listed(registry, O, "retry")
    BY <1>1, <1>2 DEF Plan
  <1>5. D \subseteq DOMAIN registry /\ O \subseteq DOMAIN registry
    BY <1>3 DEF UsableEntries
  <1>6. PICK a : a = Listed(registry, D, "due")
    OBVIOUS
  <1>7. PICK b : b = Listed(registry, O, "retry")
    OBVIOUS
  <1>8. PICK m \in Nat :
           /\ a \in Seq(Planned) /\ Len(a) = m
           /\ \A n \in 1 .. m : Nth(D, n) \in D /\ a[n] = [id |-> registry[Nth(D, n)].id, why |-> "due"]
           /\ \A j, n \in 1 .. m : /\ Nth(D, j) = Nth(D, n) => j = n
                                   /\ Nth(D, j) < Nth(D, n) => j < n
    <2>1. /\ a \in Seq(Planned)
          /\ \A n \in 1 .. Len(a) : Nth(D, n) \in D /\ a[n] = [id |-> registry[Nth(D, n)].id, why |-> "due"]
          /\ \A j, n \in 1 .. Len(a) : /\ Nth(D, j) = Nth(D, n) => j = n
                                       /\ Nth(D, j) < Nth(D, n) => j < n
      <3>1. D \subseteq DOMAIN registry /\ "due" \in {"due", "retry"}
        BY <1>5
      <3> QED
        BY <1>6, <3>1, ListedEntries
    <2>2. PICK m \in Nat : m = Len(a)
      BY <2>1, LenProperties
    <2> QED
      BY <2>1, <2>2
  <1>9. PICK l \in Nat :
           /\ b \in Seq(Planned) /\ Len(b) = l
           /\ \A n \in 1 .. l : Nth(O, n) \in O /\ b[n] = [id |-> registry[Nth(O, n)].id, why |-> "retry"]
           /\ \A j, n \in 1 .. l : /\ Nth(O, j) = Nth(O, n) => j = n
                                   /\ Nth(O, j) < Nth(O, n) => j < n
    <2>1. /\ b \in Seq(Planned)
          /\ \A n \in 1 .. Len(b) : Nth(O, n) \in O /\ b[n] = [id |-> registry[Nth(O, n)].id, why |-> "retry"]
          /\ \A j, n \in 1 .. Len(b) : /\ Nth(O, j) = Nth(O, n) => j = n
                                       /\ Nth(O, j) < Nth(O, n) => j < n
      <3>1. O \subseteq DOMAIN registry /\ "retry" \in {"due", "retry"}
        BY <1>5
      <3> QED
        BY <1>7, <3>1, ListedEntries
    <2>2. PICK l \in Nat : l = Len(b)
      BY <2>1, LenProperties
    <2> QED
      BY <2>1, <2>2
  <1>10. /\ plan \in Seq(Planned) /\ Len(plan) = m + l
         /\ \A i \in 1 .. m + l : plan[i] = IF i <= m THEN a[i] ELSE b[i - m]
    <2>1. plan = a \o b
      BY <1>4, <1>6, <1>7
    <2>2. a \in Seq(Planned) /\ Len(a) = m
      BY <1>8
    <2>3. b \in Seq(Planned) /\ Len(b) = l
      BY <1>9
    <2>4. /\ a \o b \in Seq(Planned) /\ Len(a \o b) = Len(a) + Len(b)
          /\ \A i \in 1 .. Len(a) + Len(b) : (a \o b)[i] = IF i <= Len(a) THEN a[i] ELSE b[i - Len(a)]
      BY <2>2, <2>3, ConcatProperties
    <2> QED
      BY <2>1, <2>2, <2>3, <2>4
  <1>11. DOMAIN plan = 1 .. m + l
    BY <1>10, LenProperties
  <1> DEFINE at == [i \in 1 .. m + l |-> IF i <= m THEN Nth(D, i) ELSE Nth(O, i - m)]
  <1>12. ASSUME NEW i \in 1 .. m + l, i <= m
         PROVE  /\ i \in 1 .. m /\ at[i] = Nth(D, i) /\ at[i] \in D
                /\ plan[i] = [id |-> registry[at[i]].id, why |-> "due"]
    <2>1. i \in 1 .. m
      BY <1>12
    <2> QED
      BY <1>8, <1>10, <1>12, <2>1
  <1>13. ASSUME NEW i \in 1 .. m + l, ~(i <= m)
         PROVE  /\ i - m \in 1 .. l /\ at[i] = Nth(O, i - m) /\ at[i] \in O
                /\ plan[i] = [id |-> registry[at[i]].id, why |-> "retry"]
    <2>1. i - m \in 1 .. l
      BY <1>13
    <2> QED
      BY <1>9, <1>10, <1>13, <2>1
  <1>14. at \in [1 .. m + l -> UsableEntries(registry)]
    <2>1. \A i \in 1 .. m + l : at[i] \in UsableEntries(registry)
      <3> TAKE i \in 1 .. m + l
      <3> HIDE DEF at
      <3> QED
        BY <1>3, <1>12, <1>13
    <2> QED
      BY <2>1
  <1> HIDE DEF at
  <1>15. \A i \in 1 .. m + l :
            LET e == registry[at[i]]
            IN  /\ plan[i].id = e.id
                /\ \/ plan[i].why = "due" /\ IsDue(e.cadence, runs[e.id], now)
                   \/ plan[i].why = "retry" /\ RetryDue(runs[e.id], now)
    <2> TAKE i \in 1 .. m + l
    <2>1. CASE i <= m
      <3>1. PICK p \in D : at[i] = p /\ plan[i] = [id |-> registry[p].id, why |-> "due"]
        BY <1>12, <2>1
      <3>2. IsDue(registry[p].cadence, runs[registry[p].id], now)
        BY <1>3
      <3> QED
        BY <3>1, <3>2
    <2>2. CASE ~(i <= m)
      <3>1. PICK p \in O : at[i] = p /\ plan[i] = [id |-> registry[p].id, why |-> "retry"]
        BY <1>13, <2>2
      <3>2. RetryDue(runs[registry[p].id], now)
        BY <1>3
      <3> QED
        BY <3>1, <3>2
    <2> QED
      BY <2>1, <2>2
  <1>16. ASSUME NEW i \in 1 .. m + l, NEW k \in 1 .. m + l
         PROVE  /\ at[i] = at[k] => i = k
                /\ plan[i].why = plan[k].why /\ at[i] < at[k] => i < k
    <2>1. CASE i <= m /\ k <= m
      <3>1. i \in 1 .. m /\ at[i] = Nth(D, i)
        BY <1>12, <2>1
      <3>2. k \in 1 .. m /\ at[k] = Nth(D, k)
        BY <1>12, <2>1
      <3>3. /\ Nth(D, i) = Nth(D, k) => i = k
            /\ Nth(D, i) < Nth(D, k) => i < k
        <4>1. \A x, y \in 1 .. m : /\ Nth(D, x) = Nth(D, y) => x = y
                                   /\ Nth(D, x) < Nth(D, y) => x < y
          BY <1>8
        <4> QED
          BY <3>1, <3>2, <4>1, Zenon
      <3> QED
        BY <3>1, <3>2, <3>3
    <2>2. CASE ~(i <= m) /\ ~(k <= m)
      <3>1. PICK j \in 1 .. l, n \in 1 .. l :
               j = i - m /\ at[i] = Nth(O, j) /\ n = k - m /\ at[k] = Nth(O, n)
        BY <1>13, <2>2
      <3>2. /\ Nth(O, j) = Nth(O, n) => j = n
            /\ Nth(O, j) < Nth(O, n) => j < n
        <4>1. \A x, y \in 1 .. l : /\ Nth(O, x) = Nth(O, y) => x = y
                                   /\ Nth(O, x) < Nth(O, y) => x < y
          BY <1>9
        <4> QED
          BY <4>1, Zenon
      <3>3. i = j + m /\ k = n + m
        BY <3>1
      <3> QED
        BY <3>1, <3>2, <3>3
    <2>3. CASE i <= m /\ ~(k <= m)
      <3>1. at[i] \in D /\ at[k] \in O
        BY <1>12, <1>13, <2>3
      <3>2. i < k
        BY <2>3
      <3> QED
        BY <1>3, <3>1, <3>2
    <2>4. CASE ~(i <= m) /\ k <= m
      <3>1. at[i] \in O /\ plan[i] = [id |-> registry[at[i]].id, why |-> "retry"]
        BY <1>13, <2>4
      <3>2. at[k] \in D /\ plan[k] = [id |-> registry[at[k]].id, why |-> "due"]
        BY <1>12, <2>4
      <3>3. plan[i].why = "retry" /\ plan[k].why = "due"
        BY <3>1, <3>2
      <3> QED
        BY <1>3, <3>1, <3>2, <3>3
    <2> QED
      BY <2>1, <2>2, <2>3, <2>4
  <1> QED
    BY <1>10, <1>11, <1>14, <1>15, <1>16

----------------------------------------------------------------------------
(* The invariant                                                           *)

LEMMA RegistryTypes ==
  ASSUME NEW reg \in Seq(JobConfigs)
  PROVE  /\ \A i \in DOMAIN reg : reg[i] \in JobConfigs /\ reg[i].id \in Ids
         /\ UsableEntries(reg) \subseteq DOMAIN reg /\ UsableIds(reg) \subseteq Ids
  <1>1. \A i \in DOMAIN reg : reg[i] \in JobConfigs
    BY LenProperties, ElementOfSeq
  <1>2. \A i \in DOMAIN reg : reg[i].id \in Ids
    BY <1>1 DEF JobConfigs
  <1> QED
    BY <1>1, <1>2 DEF UsableEntries, UsableIds

\* No two usable entries have one id.
LEMMA OneEntryEach ==
  ASSUME NEW reg, NEW i \in UsableEntries(reg), NEW k \in UsableEntries(reg), reg[i].id = reg[k].id
  PROVE  i = k
  BY DEF UsableEntries

LEMMA HeadAndTail ==
  ASSUME NEW q \in Seq(Planned), q # <<>>
  PROVE  /\ 1 \in DOMAIN q /\ Head(q) = q[1] /\ q[1] \in Planned
         /\ Tail(q) \in Seq(Planned)
         /\ \A i \in DOMAIN Tail(q) : i + 1 \in DOMAIN q /\ i + 1 # 1 /\ Tail(q)[i] = q[i + 1]
  <1>1. DOMAIN q = 1 .. Len(q) /\ Len(q) \in Nat /\ Len(q) # 0
    BY LenProperties, EmptySeq
  <1>2. 1 \in DOMAIN q
    BY <1>1
  <1>3. q[1] \in Planned
    BY <1>1, <1>2, ElementOfSeq
  <1>4. /\ Head(q) = q[1] /\ Tail(q) \in Seq(Planned) /\ Len(Tail(q)) = Len(q) - 1
        /\ \A i \in 1 .. Len(Tail(q)) : Tail(q)[i] = q[i + 1]
    BY HeadTailProperties
  <1>5. DOMAIN Tail(q) = 1 .. Len(q) - 1
    BY <1>4, LenProperties
  <1>6. \A i \in 1 .. Len(q) - 1 : i + 1 \in 1 .. Len(q) /\ i + 1 # 1
    BY <1>1
  <1> QED
    BY <1>1, <1>2, <1>3, <1>4, <1>5, <1>6

\* Enabling and giving the daily job its hour leave the other fields alone.
LEMMA EnabledKeeps ==
  ASSUME registry \in Seq(JobConfigs), NEW id, NEW on \in BOOLEAN, SetEnabled(id, on)
  PROVE  /\ registry' \in Seq(JobConfigs) /\ DOMAIN registry' = DOMAIN registry
         /\ \A k \in DOMAIN registry : /\ registry'[k].id = registry[k].id
                                       /\ registry'[k].cadence = registry[k].cadence
  <1>1. PICK i \in DOMAIN registry : i = Get(registry, id)
    BY GetIsFirst DEF SetEnabled
  <1>2. registry[i] \in JobConfigs
    BY RegistryTypes
  <1>3. PICK e : e = [registry[i] EXCEPT !.enabled = on]
    OBVIOUS
  <1>4. e \in JobConfigs /\ e.id = registry[i].id /\ e.cadence = registry[i].cadence
    BY <1>2, <1>3 DEF JobConfigs
  <1>5. registry' = [registry EXCEPT ![i] = e]
    BY <1>1, <1>3 DEF SetEnabled
  <1> QED
    BY <1>4, <1>5, ReplacedEntry

LEMMA DailyAtKeeps ==
  ASSUME NEW reg \in Seq(JobConfigs), NEW c \in DailyCadences, NEW new, new = WithDailyAt(reg, c)
  PROVE  /\ new \in Seq(JobConfigs) /\ DOMAIN new = DOMAIN reg
         /\ \A k \in DOMAIN reg : /\ new[k].id = reg[k].id
                                  /\ reg[k].id # DailyId => new[k].cadence = reg[k].cadence
  <1>1. CASE Has(reg, DailyId)
    <2>1. PICK i \in DOMAIN reg : i = Get(reg, DailyId) /\ reg[i].id = DailyId
      BY <1>1, GetIsFirst
    <2>2. reg[i] \in JobConfigs
      BY RegistryTypes
    <2>3. PICK e : e = [reg[i] EXCEPT !.cadence = c]
      OBVIOUS
    <2>4. e \in JobConfigs /\ e.id = reg[i].id
      BY <2>2, <2>3 DEF JobConfigs, Cadences
    <2>5. new = [reg EXCEPT ![i] = e]
      BY <1>1, <2>1, <2>3 DEF WithDailyAt
    <2> QED
      BY <2>1, <2>4, <2>5, ReplacedEntry
  <1>2. CASE ~Has(reg, DailyId)
    BY <1>2 DEF WithDailyAt
  <1> QED
    BY <1>1, <1>2

LEMMA RecordedIsJobRun ==
  ASSUME NEW prev \in JobRuns \cup {Never}, NEW w \in Nat, NEW f \in Nat,
         NEW status \in {"ok", "error", "seeded"}
  PROVE  Recorded(prev, w, f, status) \in JobRuns
  <1>1. prev # Never => prev.consecutive_failures \in Nat
    BY DEF JobRuns
  <1> QED
    BY <1>1 DEF Recorded, JobRuns

\* A seeded job has run just now, as far as the cadence goes.
LEMMA SeededIsJobRun ==
  ASSUME now \in Nat
  PROVE  Seeded \in JobRuns /\ Seeded # Never /\ Seeded.last_run = now /\ Seeded.last_status = "seeded"
  <1>1. Seeded \in JobRuns
    BY RecordedIsJobRun DEF Seeded
  <1>2. Seeded.last_run = now /\ Seeded.last_status = "seeded"
    BY DEF Seeded, Recorded
  <1> QED
    BY <1>1, <1>2, SchedulerConstants

LEMMA InitInv ==
  ASSUME Init
  PROVE  SchedulerInv
  <1>1. FirstHour \in Nat
    BY TimeConstants
  <1>2. registry \in Seq(JobConfigs)
    BY SchedulerConstants DEF Init
  <1>3. now \in Nat /\ now >= FirstHour /\ now = FirstHour
    BY <1>1 DEF Init
  <1>4. Seeded \in JobRuns /\ Seeded # Never /\ Seeded.last_run = now /\ Seeded.last_status = "seeded"
    BY <1>3, SeededIsJobRun
  <1>5. \A id \in Ids : /\ runs[id] = IF Has(registry, id) THEN Seeded ELSE Never
                        /\ begun[id] = IF Has(registry, id) THEN now ELSE 0
                        /\ ended[id] = 0 /\ retries[id] = 0
    BY DEF Init
  <1>6. pc = "off" /\ todo = <<>> /\ asOf = 0 /\ outcome = Never /\ excused = {}
    BY DEF Init
  <1>7. TypeOK
    <2>1. runs \in [Ids -> JobRuns \cup {Never}] /\ begun \in [Ids -> Nat]
      BY <1>3, <1>4 DEF Init
    <2>2. ended \in [Ids -> Nat] /\ retries \in [Ids -> Nat]
      BY DEF Init
    <2>3. todo \in Seq(Planned)
      BY <1>6
    <2> QED
      BY <1>2, <1>3, <1>6, <2>1, <2>2, <2>3 DEF TypeOK
  <1>8. DispatcherInv
    BY <1>6 DEF DispatcherInv
  <1>9. ASSUME NEW id \in Ids PROVE JobInv(id)
    <2>1. id \in UsableIds(registry) => Has(registry, id)
      BY DEF UsableIds, UsableEntries, Has
    <2>2. retries[id] <= Len(Backoff)
      BY <1>5, SchedulerConstants, LenProperties
    <2> QED
      BY <1>3, <1>4, <1>5, <1>6, <2>1, <2>2 DEF JobInv, InFlight
  <1> QED
    BY <1>7, <1>8, <1>9 DEF SchedulerInv

\* Time passes or the clock falls back; nothing else moves.
LEMMA ClockPreserves ==
  ASSUME SchedulerInv, Pass \/ FallBack \/ UNCHANGED vars
  PROVE  SchedulerInv'
  <1>1. now' \in Nat /\ now' >= FirstHour
    BY TimeConstants DEF SchedulerInv, TypeOK, Pass, FallBack, vars
  <1>2. UNCHANGED <<registry, runs, pc, todo, asOf, outcome, begun, excused, ended, retries>>
    BY DEF Pass, FallBack, vars, disk, dispatcher, history
  <1>3. TypeOK'
    BY <1>1, <1>2 DEF SchedulerInv, TypeOK
  <1>4. DispatcherInv'
    BY <1>2 DEF SchedulerInv, DispatcherInv, Current, Failures
  <1>5. \A id \in Ids : JobInv(id)'
    BY <1>2 DEF SchedulerInv, JobInv, Current, Failures, InFlight, UsableIds, UsableEntries, Get
  <1> QED
    BY <1>3, <1>4, <1>5 DEF SchedulerInv

\* Seeding is announced before it is done: pc = "seed" stands for the state
\* entries still missing.
LEMMA InitRegistryPreserves ==
  ASSUME SchedulerInv, InitRegistry \/ \E c \in DailyCadences : Install(c)
  PROVE  SchedulerInv'
  <1>1. /\ pc = "off" /\ pc' = "seed"
        /\ UNCHANGED <<now, runs, todo, asOf, outcome, begun, excused, ended, retries>>
    BY DEF InitRegistry, Install, history
  <1>2. registry' \in Seq(JobConfigs)
    <2>1. CASE InitRegistry
      BY <2>1, RestoredKeeps DEF InitRegistry, SchedulerInv, TypeOK
    <2>2. ASSUME NEW c \in DailyCadences, Install(c) PROVE registry' \in Seq(JobConfigs)
      <3>1. PICK reg : reg = WithDailyAt(registry, c)
        OBVIOUS
      <3>2. reg \in Seq(JobConfigs)
        BY <3>1, DailyAtKeeps DEF SchedulerInv, TypeOK
      <3> QED
        BY <2>2, <3>1, <3>2, RestoredKeeps DEF Install
    <2> QED
      BY <2>1, <2>2
  <1>3. TypeOK'
    BY <1>1, <1>2 DEF SchedulerInv, TypeOK
  <1>4. DispatcherInv'
    BY <1>1 DEF SchedulerInv, DispatcherInv, Current, Failures
  <1>5. \A id \in Ids : JobInv(id)'
    BY <1>1 DEF SchedulerInv, JobInv, Current, Failures, InFlight
  <1> QED
    BY <1>3, <1>4, <1>5 DEF SchedulerInv

LEMMA SeedMissingPreserves ==
  ASSUME SchedulerInv, SeedMissing
  PROVE  SchedulerInv'
  <1>1. PICK missing : missing = {id \in UsableIds(registry) : runs[id] = Never}
    OBVIOUS
  <1>2. /\ pc = "seed" /\ pc' = "off"
        /\ runs' = [id \in Ids |-> IF id \in missing THEN Seeded ELSE runs[id]]
        /\ begun' = [id \in Ids |-> IF id \in missing THEN now ELSE begun[id]]
        /\ UNCHANGED <<now, registry, todo, asOf, outcome, excused, ended, retries>>
    BY <1>1 DEF SeedMissing
  <1>3. TypeOK
    BY DEF SchedulerInv
  <1>4. Seeded \in JobRuns /\ Seeded # Never /\ Seeded.last_run = now /\ Seeded.last_status = "seeded"
    BY <1>3, SeededIsJobRun DEF TypeOK
  <1>5. TypeOK'
    <2>1. runs' \in [Ids -> JobRuns \cup {Never}] /\ begun' \in [Ids -> Nat]
      BY <1>2, <1>3, <1>4 DEF TypeOK
    <2> QED
      BY <1>2, <1>3, <2>1 DEF TypeOK
  <1>6. todo = <<>> /\ todo' = <<>>
    BY <1>2 DEF SchedulerInv, DispatcherInv
  <1>7. DispatcherInv'
    BY <1>2, <1>6 DEF DispatcherInv
  <1>8. ASSUME NEW id \in Ids PROVE JobInv(id)'
    <2>1. JobInv(id)
      BY DEF SchedulerInv
    <2>2. UsableIds(registry)' = UsableIds(registry)
      BY <1>2
    <2>3. CASE id \in missing
      <3>1. runs'[id] = Seeded /\ begun'[id] = now /\ runs[id] = Never
        BY <1>1, <1>2, <2>3
      <3>2. ~(ended[id] > 0)
        BY <1>2, <2>1, <3>1 DEF JobInv
      <3> QED
        BY <1>2, <1>4, <2>1, <3>1, <3>2 DEF JobInv
    <2>4. CASE id \notin missing
      <3>1. runs'[id] = runs[id] /\ begun'[id] = begun[id]
        BY <1>2, <2>4
      <3>2. id \in UsableIds(registry) => runs[id] # Never
        BY <1>1, <2>4
      <3> QED
        BY <1>2, <2>1, <2>2, <3>1, <3>2 DEF JobInv, InFlight, Failures
    <2> QED
      BY <2>3, <2>4
  <1> QED
    BY <1>5, <1>7, <1>8 DEF SchedulerInv

LEMMA SetEnabledPreserves ==
  ASSUME SchedulerInv, NEW job \in Ids, NEW on \in BOOLEAN, SetEnabled(job, on)
  PROVE  SchedulerInv'
  <1>1. /\ pc = "off" /\ Has(registry, job)
        /\ registry' = [registry EXCEPT ![Get(registry, job)].enabled = on]
        /\ UNCHANGED <<now, runs, pc, todo, asOf, outcome, begun, excused, ended, retries>>
    BY DEF SetEnabled, dispatcher, history
  <1>2. registry \in Seq(JobConfigs)
    BY DEF SchedulerInv, TypeOK
  <1>3. /\ registry' \in Seq(JobConfigs) /\ DOMAIN registry' = DOMAIN registry
        /\ \A k \in DOMAIN registry : registry'[k].id = registry[k].id
                                     /\ registry'[k].cadence = registry[k].cadence
    BY <1>2, EnabledKeeps
  <1>4. TypeOK'
    BY <1>1, <1>3 DEF SchedulerInv, TypeOK
  <1>5. DispatcherInv'
    BY <1>1 DEF SchedulerInv, DispatcherInv, Current, Failures
  <1>6. ASSUME NEW id \in Ids PROVE JobInv(id)'
    <2>1. JobInv(id)
      BY DEF SchedulerInv
    <2>2. id \in UsableIds(registry') => id \in UsableIds(registry)
      <3>1. PICK new \in Seq(JobConfigs) : new = registry'
        BY <1>3
      <3>2. id \in UsableIds(new) => id \in UsableIds(registry)
        BY <1>2, <1>3, <3>1, UsableAfterReplacing
      <3> QED
        BY <3>1, <3>2
    <2>3. UsableIds(registry)' = UsableIds(registry')
      BY DEF UsableIds, UsableEntries, Get
    <2> QED
      BY <1>1, <2>1, <2>2, <2>3 DEF JobInv, InFlight, Failures, Current
  <1> QED
    BY <1>4, <1>5, <1>6 DEF SchedulerInv

LEMMA AbortPreserves ==
  ASSUME SchedulerInv, Abort
  PROVE  SchedulerInv'
  <1>1. /\ pc # "off" /\ pc' = "off" /\ todo' = <<>> /\ asOf' = 0 /\ outcome' = Never
        /\ excused' = excused \cup CutOff
        /\ ended' = [id \in Ids |-> IF id \in CutOff THEN 0 ELSE ended[id]]
        /\ UNCHANGED <<now, registry, runs, begun, retries>>
    BY DEF Abort, disk
  <1>2. TypeOK
    BY DEF SchedulerInv
  <1>3. CutOff \subseteq Ids
    <2>1. CASE pc \in {"run", "save"}
      <3>1. todo # <<>>
        BY <2>1 DEF SchedulerInv, DispatcherInv
      <3>2. Current \in Ids
        BY <1>2, <3>1, HeadAndTail DEF TypeOK, Current, Planned
      <3> QED
        BY <2>1, <3>2 DEF CutOff
    <2>2. CASE pc \notin {"run", "save"}
      BY <1>2, <2>2, RegistryTypes DEF CutOff, TypeOK
    <2> QED
      BY <2>1, <2>2
  <1>4. TypeOK'
    <2>1. ended' \in [Ids -> Nat] /\ excused' \subseteq Ids
      BY <1>1, <1>2, <1>3 DEF TypeOK
    <2>2. todo' \in Seq(Planned)
      BY <1>1
    <2> QED
      BY <1>1, <1>2, <2>1, <2>2 DEF TypeOK
  <1>5. DispatcherInv'
    BY <1>1 DEF DispatcherInv
  <1>6. ASSUME NEW id \in Ids PROVE JobInv(id)'
    <2>1. JobInv(id)
      BY DEF SchedulerInv
    <2>2. InFlight(id) => id \in CutOff
      BY DEF InFlight, CutOff
    <2>3. id \in UsableIds(registry) /\ runs[id] = Never => id \in excused \cup CutOff
      BY <2>1, <2>2 DEF JobInv, CutOff
    <2>4. ended'[id] > 0 => ended'[id] = ended[id] /\ id \notin CutOff
      BY <1>1
    <2>5. ended'[id] > 0 => runs[id] # Never /\ runs[id].last_failure_at = ended'[id]
      BY <2>1, <2>4 DEF JobInv, CutOff
    <2>6. UsableIds(registry)' = UsableIds(registry)
      BY <1>1
    <2> QED
      BY <1>1, <2>1, <2>2, <2>3, <2>5, <2>6 DEF JobInv, Failures
  <1> QED
    BY <1>4, <1>5, <1>6 DEF SchedulerInv

LEMMA EditPreserves ==
  ASSUME SchedulerInv, NEW e \in HandWritten, Edit(e)
  PROVE  SchedulerInv'
  <1>1. /\ \/ \E i \in DOMAIN registry : registry[i].id = e.id /\ registry' = [registry EXCEPT ![i] = e]
           \/ registry' = Append(registry, e)
        /\ excused' = excused \cup {e.id}
        /\ UNCHANGED <<now, runs, pc, todo, asOf, outcome, begun, ended, retries>>
    BY DEF Edit, dispatcher
  <1>2. registry \in Seq(JobConfigs) /\ e \in JobConfigs /\ e.id \in Ids
    BY SchedulerConstants DEF SchedulerInv, TypeOK, JobConfigs
  <1>3. PICK new : new = registry'
    OBVIOUS
  <1>4. /\ new \in Seq(JobConfigs)
        /\ \A id \in UsableIds(new) : id = e.id \/ id \in UsableIds(registry)
    BY <1>1, <1>2, <1>3, UsableAfterEditing
  <1>5. UsableIds(registry)' = UsableIds(new)
    BY <1>3 DEF UsableIds, UsableEntries, Get
  <1>6. TypeOK'
    BY <1>1, <1>2, <1>3, <1>4 DEF SchedulerInv, TypeOK
  <1>7. DispatcherInv'
    BY <1>1 DEF SchedulerInv, DispatcherInv, Current, Failures
  <1>8. ASSUME NEW id \in Ids PROVE JobInv(id)'
    <2>1. JobInv(id)
      BY DEF SchedulerInv
    <2> QED
      BY <1>1, <1>4, <1>5, <2>1 DEF JobInv, InFlight, Failures, Current
  <1> QED
    BY <1>6, <1>7, <1>8 DEF SchedulerInv

LEMMA TickPreserves ==
  ASSUME SchedulerInv, Tick
  PROVE  SchedulerInv'
  <1>1. TypeOK
    BY DEF SchedulerInv
  <1>2. registry \in Seq(JobConfigs) /\ now \in Nat
    BY <1>1 DEF TypeOK
  <1>3. PICK plan : plan = Plan(registry, now)
    OBVIOUS
  <1>4. /\ pc = "off" /\ plan # <<>> /\ pc' = "start" /\ todo' = plan /\ asOf' = now
        /\ UNCHANGED <<now, registry, runs, outcome, begun, excused, ended, retries>>
    BY <1>3 DEF Tick, disk, history
  <1>5. plan \in Seq(Planned)
    BY <1>2, <1>3, PlanIsRight
  <1>6. PICK at \in [DOMAIN plan -> UsableEntries(registry)] :
           /\ \A i \in DOMAIN plan :
                 LET e == registry[at[i]]
                 IN  /\ plan[i].id = e.id
                     /\ \/ plan[i].why = "due" /\ IsDue(e.cadence, runs[e.id], now)
                        \/ plan[i].why = "retry" /\ RetryDue(runs[e.id], now)
           /\ \A i, k \in DOMAIN plan :
                 /\ at[i] = at[k] => i = k
                 /\ plan[i].why = plan[k].why /\ at[i] < at[k] => i < k
    BY <1>2, <1>3, PlanIsRight
  <1>7. \A i, k \in DOMAIN plan : plan[i].id = plan[k].id => i = k
    <2> SUFFICES ASSUME NEW i \in DOMAIN plan, NEW k \in DOMAIN plan, plan[i].id = plan[k].id
                 PROVE  i = k
      OBVIOUS
    <2>1. PICK x \in UsableEntries(registry), y \in UsableEntries(registry) : x = at[i] /\ y = at[k]
      BY <1>6
    <2>2. registry[x].id = registry[y].id
      BY <1>6, <2>1
    <2>3. x = y
      BY <2>2, OneEntryEach
    <2> QED
      BY <1>6, <2>1, <2>3
  <1>8. ASSUME NEW i \in DOMAIN plan, plan[i].why = "retry"
        PROVE  /\ runs[plan[i].id] # Never /\ runs[plan[i].id].last_status = "error"
               /\ Failures(plan[i].id) \in DOMAIN Backoff
    <2>1. RetryDue(runs[plan[i].id], now)
      BY <1>6, <1>8
    <2> QED
      BY <2>1 DEF RetryDue, Failures
  <1>9. TypeOK'
    BY <1>1, <1>2, <1>4, <1>5 DEF TypeOK
  <1>10. DispatcherInv'
    <2>1. \A id : Failures(id)' = Failures(id)
      BY <1>4 DEF Failures
    <2> QED
      BY <1>4, <1>7, <1>8, <2>1 DEF DispatcherInv
  <1>11. \A id \in Ids : JobInv(id)'
    <2> SUFFICES ASSUME NEW id \in Ids PROVE JobInv(id)'
      OBVIOUS
    <2>1. JobInv(id)
      BY DEF SchedulerInv
    <2>2. UsableIds(registry)' = UsableIds(registry)
      BY <1>4
    <2> QED
      BY <1>4, <2>1, <2>2 DEF JobInv, InFlight, Failures
  <1> QED
    BY <1>9, <1>10, <1>11 DEF SchedulerInv

LEMMA RunNowPreserves ==
  ASSUME SchedulerInv, NEW job \in Ids, NEW byPortal, RunNow(job, byPortal)
  PROVE  SchedulerInv'
  <1>1. TypeOK
    BY DEF SchedulerInv
  <1>2. PICK p \in Planned : p = [id |-> job, why |-> "forced"]
    BY DEF Planned
  <1>3. /\ pc = "off" /\ pc' = "start" /\ todo' = <<p>> /\ asOf' = now
        /\ UNCHANGED <<now, registry, runs, outcome, begun, excused, ended, retries>>
    BY <1>2 DEF RunNow, disk, history
  <1>4. todo' \in Seq(Planned) /\ todo' # <<>> /\ DOMAIN todo' = {1} /\ todo'[1] = p
    BY <1>3
  <1>5. TypeOK'
    BY <1>1, <1>3, <1>4 DEF TypeOK
  <1>6. DispatcherInv'
    BY <1>2, <1>3, <1>4 DEF DispatcherInv
  <1>7. \A id \in Ids : JobInv(id)'
    <2> SUFFICES ASSUME NEW id \in Ids PROVE JobInv(id)'
      OBVIOUS
    <2>1. JobInv(id)
      BY DEF SchedulerInv
    <2>2. UsableIds(registry)' = UsableIds(registry)
      BY <1>3
    <2> QED
      BY <1>3, <2>1, <2>2 DEF JobInv, InFlight, Failures
  <1> QED
    BY <1>5, <1>6, <1>7 DEF SchedulerInv

\* The job at the head is known and nobody's but the dispatcher's.
LEMMA CurrentJob ==
  ASSUME SchedulerInv, pc \in {"start", "run", "save"}
  PROVE  /\ todo \in Seq(Planned) /\ todo # <<>>
         /\ Current \in Ids /\ Current = todo[1].id /\ Head(todo) = todo[1] /\ 1 \in DOMAIN todo
         /\ runs[Current] \in JobRuns \cup {Never}
  <1>1. todo \in Seq(Planned) /\ todo # <<>>
    BY DEF SchedulerInv, TypeOK, DispatcherInv
  <1>2. 1 \in DOMAIN todo /\ Head(todo) = todo[1] /\ todo[1] \in Planned
    BY <1>1, HeadAndTail
  <1>3. Current \in Ids /\ Current = todo[1].id
    BY <1>2 DEF Current, Planned
  <1> QED
    BY <1>1, <1>2, <1>3 DEF SchedulerInv, TypeOK

LEMMA StartJobPreserves ==
  ASSUME SchedulerInv, StartJob
  PROVE  SchedulerInv'
  <1>1. TypeOK
    BY DEF SchedulerInv
  <1>2. /\ pc = "start" /\ pc' = "run"
        /\ begun' = [begun EXCEPT ![Current] = asOf] /\ excused' = excused \ {Current}
        /\ UNCHANGED <<now, registry, runs, todo, asOf, outcome, ended, retries>>
    BY DEF StartJob, disk
  <1>3. Current \in Ids /\ todo # <<>>
    BY <1>2, CurrentJob
  <1>4. Current' = Current
    BY <1>2 DEF Current
  <1>5. TypeOK'
    <2>1. begun' \in [Ids -> Nat] /\ excused' \subseteq Ids
      BY <1>1, <1>2 DEF TypeOK
    <2> QED
      BY <1>1, <1>2, <2>1 DEF TypeOK
  <1>6. begun'[Current] = asOf
    BY <1>1, <1>2, <1>3 DEF TypeOK
  <1>7. DispatcherInv'
    <2>1. \A id : Failures(id)' = Failures(id)
      BY <1>2 DEF Failures
    <2> QED
      BY <1>2, <1>3, <1>4, <1>6, <2>1 DEF SchedulerInv, DispatcherInv
  <1>8. ASSUME NEW id \in Ids PROVE JobInv(id)'
    <2>1. JobInv(id)
      BY DEF SchedulerInv
    <2>2. UsableIds(registry)' = UsableIds(registry)
      BY <1>2
    <2>3. CASE id = Current
      <3>1. InFlight(id)'
        BY <1>2, <1>4, <2>3 DEF InFlight
      <3> QED
        BY <1>2, <2>1, <3>1 DEF JobInv, Failures
    <2>4. CASE id # Current
      <3>1. begun'[id] = begun[id] /\ (id \in excused' <=> id \in excused)
        BY <1>1, <1>2, <2>4 DEF TypeOK
      <3>2. ~InFlight(id) /\ ~InFlight(id)'
        BY <1>2, <1>4, <2>4 DEF InFlight
      <3> QED
        BY <1>2, <2>1, <2>2, <3>1, <3>2 DEF JobInv, Failures
    <2> QED
      BY <2>3, <2>4
  <1> QED
    BY <1>5, <1>7, <1>8 DEF SchedulerInv

LEMMA EndJobPreserves ==
  ASSUME SchedulerInv, NEW won \in BOOLEAN, EndJob(won)
  PROVE  SchedulerInv'
  <1>1. TypeOK
    BY DEF SchedulerInv
  <1>2. PICK status \in {"ok", "error", "seeded"} : status = IF won THEN "ok" ELSE "error"
    OBVIOUS
  <1>3. /\ pc = "run" /\ pc' = "save"
        /\ outcome' = Recorded(runs[Current], asOf, FailedAt, status)
        /\ ended' = [ended EXCEPT ![Current] = IF won \/ Head(todo).why = "forced" THEN 0 ELSE now]
        /\ UNCHANGED <<now, registry, runs, todo, asOf, begun, excused, retries>>
    BY <1>2 DEF EndJob, disk, Watermark
  <1>4. Current \in Ids /\ todo # <<>> /\ runs[Current] \in JobRuns \cup {Never}
    BY <1>3, CurrentJob
  <1>5. PICK f \in Nat : f = FailedAt
    BY <1>1 DEF FailedAt, TypeOK
  <1>6. PICK prev \in JobRuns \cup {Never} : prev = runs[Current]
    BY <1>4
  <1>7. PICK o : o = outcome' /\ o = Recorded(prev, asOf, f, status)
    BY <1>3, <1>5, <1>6
  <1>8. /\ o \in JobRuns /\ o # Never /\ o.last_run = asOf /\ o.last_status = status
        /\ status = "error" => o.last_failure_at = f
        /\ status = "error" =>
              o.consecutive_failures = 1 + (IF prev = Never THEN 0 ELSE prev.consecutive_failures)
    <2>1. PICK w \in Nat : w = asOf
      BY <1>1 DEF TypeOK
    <2>2. o = Recorded(prev, w, f, status)
      BY <1>7, <2>1
    <2>3. o \in JobRuns /\ o # Never
      BY ZenonT(60), <2>2, RecordedIsJobRun, SchedulerConstants
    <2> QED
      BY <2>1, <2>2, <2>3 DEF Recorded
  <1>9. Current' = Current
    BY <1>3 DEF Current
  <1>10. TypeOK'
    <2>1. ended' \in [Ids -> Nat]
      BY <1>1, <1>3 DEF TypeOK
    <2> QED
      BY <1>1, <1>3, <1>7, <1>8, <2>1 DEF TypeOK
  <1>11. DispatcherInv'
    <2>1. \A id : Failures(id)' = Failures(id)
      BY <1>3 DEF Failures
    <2>2. status = "error" => o.consecutive_failures = Failures(Current) + 1
      <3>1. Failures(Current) \in Nat
        BY <1>4 DEF Failures, JobRuns
      <3> QED
        BY <1>6, <1>8, <3>1 DEF Failures
    <2>3. outcome' # Never /\ outcome'.last_run = asOf'
          /\ (outcome'.last_status = "error" => outcome'.consecutive_failures = Failures(Current)' + 1)
      BY <1>3, <1>7, <1>8, <1>9, <2>1, <2>2
    <2>4. ended'[Current] > 0 => outcome'.last_failure_at = ended'[Current]
      <3> SUFFICES ASSUME ended'[Current] > 0 PROVE outcome'.last_failure_at = ended'[Current]
        OBVIOUS
      <3>1. ended'[Current] = IF won \/ Head(todo).why = "forced" THEN 0 ELSE now
        BY <1>1, <1>3, <1>4 DEF TypeOK
      <3>2. ~won /\ Head(todo).why # "forced" /\ ended'[Current] = now
        BY <3>1
      <3>3. status = "error" /\ f = now
        BY <1>2, <1>5, <3>2 DEF FailedAt
      <3> QED
        BY <1>7, <1>8, <3>2, <3>3
    <2> QED
      BY <1>3, <1>4, <1>9, <2>1, <2>3, <2>4 DEF SchedulerInv, DispatcherInv
  <1>12. ASSUME NEW id \in Ids PROVE JobInv(id)'
    <2>1. JobInv(id)
      BY DEF SchedulerInv
    <2>2. UsableIds(registry)' = UsableIds(registry)
      BY <1>3
    <2>3. InFlight(id) <=> InFlight(id)'
      BY <1>3, <1>9 DEF InFlight
    <2>4. ASSUME ended'[id] > 0
          PROVE  (runs[id] # Never /\ runs[id].last_failure_at = ended'[id]) \/ id = Current
      BY <1>1, <1>3, <2>1, <2>4 DEF TypeOK, JobInv
    <2> QED
      BY <1>3, <1>9, <2>1, <2>2, <2>3, <2>4 DEF JobInv, Failures
  <1> QED
    BY <1>10, <1>11, <1>12 DEF SchedulerInv

LEMMA SavePreserves ==
  ASSUME SchedulerInv, Save
  PROVE  SchedulerInv'
  <1>1. TypeOK
    BY DEF SchedulerInv
  <1>2. /\ pc = "save"
        /\ runs' = [runs EXCEPT ![Current] = outcome]
        /\ todo' = Tail(todo) /\ pc' = IF Tail(todo) = <<>> THEN "off" ELSE "start"
        /\ asOf' = (IF Tail(todo) = <<>> THEN 0 ELSE asOf) /\ outcome' = Never
        /\ retries' = [retries EXCEPT ![Current] = IF Head(todo).why = "retry" THEN @ + 1 ELSE 0]
        /\ UNCHANGED <<now, registry, begun, excused, ended>>
    BY DEF Save, NextJob
  <1>3. PICK job \in Ids : job = Current
    BY <1>2, CurrentJob
  <1>4. /\ todo \in Seq(Planned) /\ todo # <<>> /\ 1 \in DOMAIN todo
        /\ Head(todo) = todo[1] /\ job = todo[1].id
    BY <1>2, <1>3, CurrentJob
  <1>5. /\ Tail(todo) \in Seq(Planned)
        /\ \A i \in DOMAIN Tail(todo) : i + 1 \in DOMAIN todo /\ i + 1 # 1 /\ Tail(todo)[i] = todo[i + 1]
    BY <1>4, HeadAndTail
  <1>6. /\ begun[job] = asOf /\ outcome # Never /\ outcome.last_run = asOf
        /\ outcome.last_status = "error" => outcome.consecutive_failures = Failures(job) + 1
    BY <1>2, <1>3 DEF SchedulerInv, DispatcherInv
  <1>7. outcome \in JobRuns
    BY <1>1, <1>6 DEF TypeOK
  <1>8. runs'[job] = outcome /\ \A id \in Ids \ {job} : runs'[id] = runs[id]
    BY <1>1, <1>2, <1>3 DEF TypeOK
  <1>9. /\ retries'[job] = IF Head(todo).why = "retry" THEN retries[job] + 1 ELSE 0
        /\ \A id \in Ids \ {job} : retries'[id] = retries[id]
    BY <1>1, <1>2, <1>3 DEF TypeOK
  <1>10. TypeOK'
    <2>1. runs' \in [Ids -> JobRuns \cup {Never}]
      BY <1>1, <1>2, <1>7 DEF TypeOK
    <2>2. retries' \in [Ids -> Nat]
      BY <1>1, <1>2, <1>3 DEF TypeOK
    <2>3. asOf' \in Nat /\ pc' \in {"off", "start"} /\ todo' \in Seq(Planned)
      BY <1>1, <1>2, <1>5 DEF TypeOK
    <2> QED
      BY <1>1, <1>2, <2>1, <2>2, <2>3 DEF TypeOK
  <1>11. DispatcherInv'
    <2>1. todo' = <<>> <=> pc' \in {"off", "seed"}
      BY <1>2
    <2>2. \A i, k \in DOMAIN todo : todo[i].id = todo[k].id => i = k
      BY DEF SchedulerInv, DispatcherInv
    <2>3. ASSUME NEW i \in DOMAIN Tail(todo), NEW k \in DOMAIN Tail(todo), Tail(todo)[i].id = Tail(todo)[k].id
          PROVE  i = k
      <3>1. i + 1 = k + 1
        BY <1>5, <2>2, <2>3
      <3>2. i \in Int /\ k \in Int
        BY <1>5, LenProperties
      <3> QED
        BY <3>1, <3>2
    <2>4. ASSUME NEW i \in DOMAIN Tail(todo), Tail(todo)[i].why = "retry"
          PROVE  LET run == runs'[Tail(todo)[i].id]
                 IN  run # Never /\ run.last_status = "error" /\ run.consecutive_failures \in DOMAIN Backoff
      <3>1. PICK k \in DOMAIN todo : k # 1 /\ Tail(todo)[i] = todo[k]
        BY <1>5
      <3>2. PICK id : id = todo[k].id
        OBVIOUS
      <3>3. id \in Ids /\ id # job
        <4>1. todo[k] \in Planned
          BY <1>4, LenProperties, ElementOfSeq
        <4> QED
          BY <1>4, <2>2, <3>1, <3>2, <4>1 DEF Planned
      <3>4. runs[id] # Never /\ runs[id].last_status = "error" /\ Failures(id) \in DOMAIN Backoff
        BY <2>4, <3>1, <3>2 DEF SchedulerInv, DispatcherInv
      <3> QED
        BY <1>8, <3>1, <3>2, <3>3, <3>4 DEF Failures
    <2>5. \A i, k \in DOMAIN todo' : todo'[i].id = todo'[k].id => i = k
      BY <1>2, <2>3
    <2>6. \A i \in DOMAIN todo' : todo'[i].why = "retry" =>
             /\ runs'[todo'[i].id] # Never /\ runs'[todo'[i].id].last_status = "error"
             /\ Failures(todo[i].id)' \in DOMAIN Backoff
      BY <1>2, <2>4 DEF Failures
    <2> QED
      BY <1>2, <2>1, <2>5, <2>6 DEF DispatcherInv
  <1>12. ASSUME NEW id \in Ids PROVE JobInv(id)'
    <2>1. JobInv(id)
      BY DEF SchedulerInv
    <2>2. UsableIds(registry)' = UsableIds(registry)
      BY <1>2
    <2>3. CASE id = job
      <3>1. begun'[id] = runs'[id].last_run /\ runs'[id] # Never
        BY <1>2, <1>6, <1>8, <2>3
      <3>2. ended'[id] > 0 => runs'[id].last_failure_at = ended'[id]
        <4>1. ended[job] > 0 => outcome.last_failure_at = ended[job]
          BY <1>2, <1>3 DEF SchedulerInv, DispatcherInv
        <4> QED
          BY <1>2, <1>8, <2>3, <4>1
      <3>3. retries[id] \in Nat /\ Len(Backoff) \in Nat /\ Failures(id) \in Nat
        BY <1>1, SchedulerConstants, LenProperties DEF TypeOK, Failures, JobRuns
      <3>4. Head(todo).why = "retry" => /\ retries[id] < Failures(id) /\ Failures(id) <= Len(Backoff)
        <4>1. SUFFICES ASSUME Head(todo).why = "retry"
                       PROVE  retries[id] < Failures(id) /\ Failures(id) <= Len(Backoff)
          OBVIOUS
        <4>2. /\ runs[id] # Never /\ runs[id].last_status = "error"
              /\ Failures(id) \in DOMAIN Backoff
          BY <1>4, <2>3, <4>1 DEF SchedulerInv, DispatcherInv
        <4>3. DOMAIN Backoff = 1 .. Len(Backoff)
          BY SchedulerConstants, LenProperties
        <4> QED
          BY <2>1, <3>3, <4>2, <4>3 DEF JobInv
      <3>5. retries'[id] <= Len(Backoff)
        BY <1>9, <2>3, <3>3, <3>4
      <3>6. runs'[id].last_status = "error" => retries'[id] < Failures(id)'
        <4>1. Failures(id)' = outcome.consecutive_failures
          BY <1>6, <1>8, <2>3 DEF Failures
        <4>2. outcome.last_status = "error" => outcome.consecutive_failures = Failures(id) + 1
          BY <1>6, <2>3
        <4> QED
          BY <1>8, <1>9, <2>3, <3>3, <3>4, <4>1, <4>2
      <3> QED
        BY <3>1, <3>2, <3>5, <3>6 DEF JobInv
    <2>4. CASE id # job
      <3>1. runs'[id] = runs[id] /\ retries'[id] = retries[id]
        BY <1>8, <1>9, <2>4
      <3>2. ~InFlight(id) /\ pc # "seed"
        BY <1>2, <1>3, <2>4 DEF InFlight
      <3>3. ended[id] > 0 => runs[id] # Never /\ runs[id].last_failure_at = ended[id]
        BY <1>3, <2>1, <2>4 DEF JobInv
      <3> QED
        BY <1>2, <2>1, <2>2, <3>1, <3>2, <3>3 DEF JobInv, Failures
    <2> QED
      BY <2>3, <2>4
  <1> QED
    BY <1>10, <1>11, <1>12 DEF SchedulerInv

\* The invariant holds of every run: a saved watermark is the last start's or
\* seeding's, a usable job without one is about to be seeded or was edited in,
\* retries are fewer than failures, and a tick plans each job once.
THEOREM SchedulerInvariant == Spec => []SchedulerInv
  <1>1. Init => SchedulerInv
    BY InitInv
  <1>2. SchedulerInv /\ [Next]_vars => SchedulerInv'
    <2> SUFFICES ASSUME SchedulerInv, [Next]_vars PROVE SchedulerInv'
      OBVIOUS
    <2>1. CASE Tick
      BY <2>1, TickPreserves
    <2>2. ASSUME NEW id \in Ids, NEW b \in BOOLEAN, RunNow(id, b) PROVE SchedulerInv'
      BY <2>2, RunNowPreserves
    <2>3. CASE StartJob
      BY <2>3, StartJobPreserves
    <2>4. ASSUME NEW ok \in BOOLEAN, EndJob(ok) PROVE SchedulerInv'
      BY <2>4, EndJobPreserves
    <2>5. CASE Save
      BY <2>5, SavePreserves
    <2>6. CASE InitRegistry \/ \E c \in DailyCadences : Install(c)
      BY <2>6, InitRegistryPreserves
    <2>7. CASE SeedMissing
      BY <2>7, SeedMissingPreserves
    <2>8. ASSUME NEW id \in Ids, NEW on \in BOOLEAN, SetEnabled(id, on) PROVE SchedulerInv'
      BY <2>8, SetEnabledPreserves
    <2>9. CASE Abort
      BY <2>9, AbortPreserves
    <2>10. ASSUME NEW e \in HandWritten, Edit(e) PROVE SchedulerInv'
      BY <2>10, EditPreserves
    <2>11. CASE Pass \/ FallBack \/ UNCHANGED vars
      BY <2>11, ClockPreserves
    <2> QED
      BY <2>1, <2>2, <2>3, <2>4, <2>5, <2>6, <2>7, <2>8, <2>9, <2>10, <2>11 DEF Next
  <1> QED
    BY <1>1, <1>2, PTL DEF Spec

----------------------------------------------------------------------------
(* What the runs check                                                     *)

\* For every cadence that parses and every hour, the arithmetic finds the last
\* occurrence up to now and the first one after it, and none in between.
THEOREM CadencesHold == Spec => []CadencesAreRight
  <1>1. SchedulerInv => CadencesAreRight
    <2> SUFFICES ASSUME SchedulerInv, NEW c \in Cadences \ {Broken},
                        NEW last, last = MostRecent(c, now), NEW next, next = NextOccurrence(c, now)
                 PROVE  /\ last <= now /\ now < next
                        /\ \A t \in last .. next : IsOccurrence(c, t) <=> t \in {last, next}
      BY DEF CadencesAreRight
    <2>1. PICK t \in Int : t = now
      BY DEF SchedulerInv, TypeOK
    <2>2. /\ MostRecent(c, t) <= t /\ t < NextOccurrence(c, t)
          /\ \A s \in MostRecent(c, t) .. NextOccurrence(c, t) :
                IsOccurrence(c, s) <=> s \in {MostRecent(c, t), NextOccurrence(c, t)}
      BY CadenceIsRight
    <2> QED
      BY <2>1, <2>2
  <1> QED
    BY <1>1, SchedulerInvariant, PTL

\* What a tick plans, in terms of the registry and the state entries.
LEMMA TickPlans ==
  ASSUME SchedulerInv, Tick, NEW i \in DOMAIN todo'
  PROVE  LET id == todo'[i].id
         IN  /\ id \in Ids /\ id \in UsableIds(registry) /\ Cadence(id) \in Cadences \ {Broken}
             /\ todo'[i].why = "due" => IsDue(Cadence(id), runs[id], now)
             /\ todo'[i].why = "retry" => RetryDue(runs[id], now)
  <1>1. PICK plan : plan = todo' /\ plan = Plan(registry, now)
    BY DEF Tick
  <1>2. registry \in Seq(JobConfigs)
    BY DEF SchedulerInv, TypeOK
  <1>3. PICK at \in [DOMAIN plan -> UsableEntries(registry)] :
           \A k \in DOMAIN plan :
              LET e == registry[at[k]]
              IN  /\ plan[k].id = e.id
                  /\ \/ plan[k].why = "due" /\ IsDue(e.cadence, runs[e.id], now)
                     \/ plan[k].why = "retry" /\ RetryDue(runs[e.id], now)
    BY <1>1, <1>2, PlanIsRight
  <1>4. PICK p \in UsableEntries(registry) : p = at[i]
    BY <1>1, <1>3
  <1>5. PICK id : id = todo'[i].id
    OBVIOUS
  <1>6. /\ id = registry[p].id
        /\ todo'[i].why = "due" => IsDue(registry[p].cadence, runs[id], now)
        /\ todo'[i].why = "retry" => RetryDue(runs[id], now)
    BY <1>1, <1>3, <1>4, <1>5
  <1>7. p = Get(registry, id) /\ registry[p].cadence # Broken /\ p \in DOMAIN registry
    BY <1>4, <1>6 DEF UsableEntries
  <1>8. Cadence(id) = registry[p].cadence
    BY <1>7 DEF Cadence
  <1>9. id \in Ids /\ registry[p].cadence \in Cadences
    BY <1>2, <1>6, <1>7, RegistryTypes DEF JobConfigs
  <1>10. id \in UsableIds(registry)
    BY <1>4, <1>6 DEF UsableIds
  <1> QED
    BY <1>5, <1>6, <1>7, <1>8, <1>9, <1>10

\* An attempt that a dispatcher was done with is not made again for the same
\* occurrence, and no built-in is due before it was seeded.
THEOREM DueHolds == Spec => DueIsDue
  <1>1. SchedulerInv /\ [Next]_vars =>
          [Tick => \A i \in DOMAIN todo' : LET id == todo'[i].id IN
             /\ todo'[i].why = "due" => id \in excused \/ begun[id] < MostRecent(Cadence(id), now)
             /\ id \in {e.id : e \in Entries(BuiltIns)} => runs[id] # Never \/ id \in excused]_vars
    <2> SUFFICES ASSUME SchedulerInv, Tick, NEW i \in DOMAIN todo', NEW id, id = todo'[i].id
                 PROVE  /\ todo'[i].why = "due" => id \in excused \/ begun[id] < MostRecent(Cadence(id), now)
                        /\ runs[id] # Never \/ id \in excused
      OBVIOUS
    <2>1. /\ id \in Ids /\ id \in UsableIds(registry) /\ Cadence(id) \in Cadences \ {Broken}
          /\ todo'[i].why = "due" => IsDue(Cadence(id), runs[id], now)
      BY TickPlans
    <2>2. JobInv(id) /\ pc = "off"
      BY <2>1 DEF SchedulerInv, Tick
    <2>3. runs[id] # Never \/ id \in excused
      BY <2>1, <2>2 DEF JobInv, InFlight
    <2>4. id \in excused \/ begun[id] = IF runs[id] = Never THEN 0 ELSE runs[id].last_run
      BY <2>2 DEF JobInv, InFlight
    <2> QED
      BY <2>1, <2>3, <2>4 DEF IsDue
  <1> QED
    BY <1>1, SchedulerInvariant, PTL DEF Spec, DueIsDue

\* A failing job is retried at most once for each backoff, and not before the
\* backoff has passed since the failed attempt ended.
THEOREM RetriesHold == Spec => RetriesAreMeasured
  <1>1. SchedulerInv => \A id \in Ids : retries[id] <= Len(Backoff)
    BY DEF SchedulerInv, JobInv
  <1>2. SchedulerInv /\ [Next]_vars =>
          [Tick => \A i \in DOMAIN todo' : LET id == todo'[i].id IN
              todo'[i].why = "retry" /\ ended[id] > 0 =>
                  now >= ended[id] + Backoff[runs[id].consecutive_failures]]_vars
    <2> SUFFICES ASSUME SchedulerInv, Tick, NEW i \in DOMAIN todo', NEW id, id = todo'[i].id,
                        todo'[i].why = "retry", ended[id] > 0
                 PROVE  now >= ended[id] + Backoff[runs[id].consecutive_failures]
      OBVIOUS
    <2>1. id \in Ids /\ RetryDue(runs[id], now)
      BY TickPlans
    <2>2. runs[id].last_failure_at = ended[id]
      BY <2>1 DEF SchedulerInv, JobInv, Tick
    <2> QED
      BY <2>1, <2>2 DEF RetryDue
  <1> QED
    BY <1>1, <1>2, SchedulerInvariant, PTL DEF Spec, RetriesAreMeasured

\* Entries that keep their ids keep their order.
LEMMA ThemesAheadWithSameIds ==
  ASSUME NEW reg, NEW new, DOMAIN new = DOMAIN reg, \A k \in DOMAIN reg : new[k].id = reg[k].id,
         ThemesAhead(reg)
  PROVE  ThemesAhead(new)
  <1>1. {k \in DOMAIN new : new[k].id = CrystallizeId} = {k \in DOMAIN reg : reg[k].id = CrystallizeId}
    OBVIOUS
  <1>2. Has(new, ThemesId) <=> Has(reg, ThemesId)
    BY DEF Has
  <1>3. PICK after : after = {k \in DOMAIN reg : reg[k].id = CrystallizeId}
    OBVIOUS
  <1>4. CASE Has(reg, ThemesId)
    <2>1. after # {} /\ \E i \in DOMAIN reg : reg[i].id = ThemesId /\ \A k \in after : i < k
      BY <1>3, <1>4 DEF ThemesAhead
    <2> QED
      BY <1>1, <1>2, <1>3, <1>4, <2>1 DEF ThemesAhead
  <1>5. CASE ~Has(reg, ThemesId)
    <2>1. \A k \in after : k >= 2
      BY <1>3, <1>5 DEF ThemesAhead
    <2> QED
      BY <1>1, <1>2, <1>3, <1>5, <2>1 DEF ThemesAhead
  <1> QED
    BY <1>4, <1>5

\* An edit of neither job leaves themes ahead.
LEMMA ThemesAheadAfterEditing ==
  ASSUME NEW reg \in Seq(JobConfigs), NEW e \in JobConfigs, e.id \notin {ThemesId, CrystallizeId},
         NEW new, new = Append(reg, e), ThemesAhead(reg)
  PROVE  ThemesAhead(new)
  <1>1. PICK last : last = Len(reg) + 1
    OBVIOUS
  <1>2. /\ DOMAIN new = DOMAIN reg \cup {last} /\ last \notin DOMAIN reg
        /\ \A k \in DOMAIN reg : new[k] = reg[k]
        /\ new[last] = e
    BY <1>1, AppendedEntry
  <1>3. {k \in DOMAIN new : new[k].id = CrystallizeId} = {k \in DOMAIN reg : reg[k].id = CrystallizeId}
    BY <1>2
  <1>4. Has(new, ThemesId) <=> Has(reg, ThemesId)
    BY <1>2 DEF Has
  <1>5. PICK after : after = {k \in DOMAIN reg : reg[k].id = CrystallizeId}
    OBVIOUS
  <1>6. CASE Has(reg, ThemesId)
    <2>1. after # {} /\ \E i \in DOMAIN reg : reg[i].id = ThemesId /\ \A k \in after : i < k
      BY <1>5, <1>6 DEF ThemesAhead
    <2>2. \E i \in DOMAIN new : new[i].id = ThemesId /\ \A k \in after : i < k
      BY <1>2, <2>1
    <2> QED
      BY <1>3, <1>4, <1>5, <1>6, <2>1, <2>2 DEF ThemesAhead
  <1>7. CASE ~Has(reg, ThemesId)
    <2>1. \A k \in after : k >= 2
      BY <1>5, <1>7 DEF ThemesAhead
    <2> QED
      BY <1>3, <1>4, <1>5, <1>7, <2>1 DEF ThemesAhead
  <1> QED
    BY <1>6, <1>7

\* No command drops an entry or changes the cadence of one but the daily job's.
LEMMA CommandsKeep ==
  ASSUME SchedulerInv, [Next]_vars, ~\E e \in HandWritten : Edit(e)
  PROVE  \A e \in Entries(registry) : \E f \in Entries(registry') :
            f.id = e.id /\ (f.cadence = e.cadence \/ e.id = DailyId)
  <1>1. registry \in Seq(JobConfigs)
    BY DEF SchedulerInv, TypeOK
  <1>2. CASE UNCHANGED registry
    BY <1>2 DEF Entries
  <1>3. CASE InitRegistry
    <2>1. Entries(registry) \subseteq Entries(Restored(registry))
      BY <1>1, RestoredKeeps
    <2>2. Entries(registry) \subseteq Entries(registry')
      BY <1>3, <2>1 DEF InitRegistry
    <2> QED
      BY <2>2
  <1>4. ASSUME NEW c \in DailyCadences, Install(c), NEW e \in Entries(registry)
        PROVE  \E f \in Entries(registry') : f.id = e.id /\ (f.cadence = e.cadence \/ e.id = DailyId)
    <2>1. PICK reg : reg = WithDailyAt(registry, c)
      OBVIOUS
    <2>2. /\ reg \in Seq(JobConfigs) /\ DOMAIN reg = DOMAIN registry
          /\ \A k \in DOMAIN registry : /\ reg[k].id = registry[k].id
                                        /\ registry[k].id # DailyId => reg[k].cadence = registry[k].cadence
      BY <1>1, <2>1, DailyAtKeeps
    <2>3. Entries(reg) \subseteq Entries(Restored(reg))
      BY <2>2, RestoredKeeps
    <2>4. Entries(reg) \subseteq Entries(registry')
      BY <1>4, <2>1, <2>3 DEF Install
    <2>5. PICK k \in DOMAIN registry : e = registry[k]
      BY DEF Entries
    <2>6. reg[k] \in Entries(reg)
      BY <2>2 DEF Entries
    <2> QED
      BY <2>2, <2>4, <2>5, <2>6
  <1>5. ASSUME NEW id \in Ids, NEW on \in BOOLEAN, SetEnabled(id, on)
        PROVE  \A e \in Entries(registry) : \E f \in Entries(registry') : f.id = e.id /\ f.cadence = e.cadence
    <2>1. /\ DOMAIN registry' = DOMAIN registry
          /\ \A k \in DOMAIN registry : /\ registry'[k].id = registry[k].id
                                        /\ registry'[k].cadence = registry[k].cadence
      BY <1>1, <1>5, EnabledKeeps
    <2> QED
      BY <2>1 DEF Entries
  <1>6. \/ InitRegistry \/ (\E c \in DailyCadences : Install(c))
        \/ (\E id \in Ids, on \in BOOLEAN : SetEnabled(id, on))
        \/ UNCHANGED registry
    BY DEF Next, vars, disk, Tick, RunNow, StartJob, EndJob, Save, SeedMissing, Abort, Pass, FallBack
  <1> QED
    BY <1>2, <1>3, <1>4, <1>5, <1>6

\* What keeps themes ahead of crystallize in every plan: their order in the file.
InOrder(q) ==
    \A i, k \in DOMAIN q :
       q[i].id = ThemesId /\ q[k].id = CrystallizeId /\ q[i].why = q[k].why => i < k

LEMMA PlanIsInOrder ==
  ASSUME registry \in Seq(JobConfigs), ThemesAhead(registry), NEW plan, plan = Plan(registry, now)
  PROVE  InOrder(plan)
  <1>1. PICK at \in [DOMAIN plan -> UsableEntries(registry)] :
           /\ \A i \in DOMAIN plan : plan[i].id = registry[at[i]].id
           /\ \A i, k \in DOMAIN plan : plan[i].why = plan[k].why /\ at[i] < at[k] => i < k
    BY PlanIsRight
  <1> SUFFICES ASSUME NEW i \in DOMAIN plan, NEW k \in DOMAIN plan,
                      plan[i].id = ThemesId, plan[k].id = CrystallizeId, plan[i].why = plan[k].why
               PROVE  i < k
    BY DEF InOrder
  <1>2. PICK x \in UsableEntries(registry), y \in UsableEntries(registry) : x = at[i] /\ y = at[k]
    BY <1>1
  <1>3. registry[x].id = ThemesId /\ registry[y].id = CrystallizeId
    BY <1>1, <1>2
  <1>4. /\ x \in DOMAIN registry /\ y \in DOMAIN registry
        /\ \A j \in 1 .. x - 1 : registry[j].id # ThemesId
    BY <1>3, UsableIsFirst
  <1>5. PICK j \in DOMAIN registry : registry[j].id = ThemesId /\ j < y
    <2>1. Has(registry, ThemesId)
      BY <1>3, <1>4 DEF Has
    <2> QED
      BY <1>3, <1>4, <2>1 DEF ThemesAhead
  <1>6. DOMAIN registry = 1 .. Len(registry) /\ Len(registry) \in Nat
    BY LenProperties
  <1>7. ~(j \in 1 .. x - 1) /\ x \in Int /\ j \in Int /\ y \in Int /\ j >= 1
    BY <1>4, <1>5, <1>6
  <1>8. x < y
    BY <1>5, <1>7
  <1> QED
    BY <1>1, <1>2, <1>8

ThemesInv == ThemesAhead(registry) /\ InOrder(todo)

LEMMA ThemesInvIsKept ==
  ASSUME ThemesComeFirst, SchedulerInv, ThemesInv, [Next]_vars
  PROVE  ThemesInv'
  <1>1. registry \in Seq(JobConfigs) /\ ThemesAhead(registry) /\ InOrder(todo)
    BY DEF SchedulerInv, TypeOK, ThemesInv
  <1>2. ASSUME UNCHANGED registry PROVE ThemesAhead(registry)'
    BY <1>1, <1>2 DEF ThemesAhead, Has
  <1>3. ASSUME UNCHANGED todo PROVE InOrder(todo)'
    BY <1>1, <1>3 DEF InOrder
  <1>4. ASSUME NEW new, new = registry', ThemesAhead(new) PROVE ThemesAhead(registry)'
    BY <1>4 DEF ThemesAhead, Has
  <1>5. CASE Tick
    <2>1. PICK plan : plan = Plan(registry, now) /\ plan = todo'
      BY <1>5 DEF Tick
    <2>2. InOrder(plan)
      BY <1>1, <2>1, PlanIsInOrder
    <2>3. UNCHANGED registry
      BY <1>5 DEF Tick, disk
    <2> QED
      BY <1>2, <2>1, <2>2, <2>3 DEF ThemesInv, InOrder
  <1>6. ASSUME NEW id \in Ids, NEW b \in BOOLEAN, RunNow(id, b) PROVE ThemesInv'
    <2>1. UNCHANGED registry /\ todo' = <<[id |-> id, why |-> "forced"]>>
      BY <1>6 DEF RunNow, disk
    <2>2. \A i, k \in DOMAIN todo' : todo'[i].id = todo'[k].id
      BY <2>1
    <2> QED
      BY <1>2, <2>1, <2>2, SchedulerConstants DEF ThemesInv, InOrder
  <1>7. CASE Save
    <2>1. UNCHANGED registry /\ todo' = Tail(todo) /\ pc = "save"
      BY <1>7 DEF Save, NextJob
    <2>2. todo \in Seq(Planned) /\ todo # <<>>
      BY <2>1, CurrentJob
    <2>3. /\ Tail(todo) \in Seq(Planned)
          /\ \A i \in DOMAIN Tail(todo) : i + 1 \in DOMAIN todo /\ Tail(todo)[i] = todo[i + 1]
      BY <2>2, HeadAndTail
    <2>4. ASSUME NEW i \in DOMAIN Tail(todo), NEW k \in DOMAIN Tail(todo),
                 Tail(todo)[i].id = ThemesId, Tail(todo)[k].id = CrystallizeId,
                 Tail(todo)[i].why = Tail(todo)[k].why
          PROVE  i < k
      <3>1. i + 1 < k + 1
        BY <1>1, <2>3, <2>4 DEF InOrder
      <3>2. i \in Int /\ k \in Int
        BY <2>3, LenProperties
      <3> QED
        BY <3>1, <3>2
    <2> QED
      BY <1>2, <2>1, <2>4 DEF ThemesInv, InOrder
  <1>8. CASE InitRegistry
    <2>1. PICK new : new = registry' /\ new = Restored(registry)
      BY <1>8 DEF InitRegistry
    <2>2. ThemesAhead(new)
      BY <1>1, <2>1, ThemesAheadWhenRestored
    <2>3. UNCHANGED todo
      BY <1>8 DEF InitRegistry
    <2> QED
      BY <1>3, <1>4, <2>1, <2>2, <2>3 DEF ThemesInv
  <1>9. ASSUME NEW c \in DailyCadences, Install(c) PROVE ThemesInv'
    <2>1. PICK reg : reg = WithDailyAt(registry, c)
      OBVIOUS
    <2>2. /\ reg \in Seq(JobConfigs) /\ DOMAIN reg = DOMAIN registry
          /\ \A k \in DOMAIN registry : reg[k].id = registry[k].id
      BY <1>1, <2>1, DailyAtKeeps
    <2>3. ThemesAhead(reg)
      BY <1>1, <2>2, ThemesAheadWithSameIds
    <2>4. PICK new : new = registry' /\ new = Restored(reg)
      BY <1>9, <2>1 DEF Install
    <2>5. ThemesAhead(new)
      BY <2>2, <2>3, <2>4, ThemesAheadWhenRestored
    <2>6. UNCHANGED todo
      BY <1>9 DEF Install
    <2> QED
      BY <1>3, <1>4, <2>4, <2>5, <2>6 DEF ThemesInv
  <1>10. ASSUME NEW id \in Ids, NEW on \in BOOLEAN, SetEnabled(id, on) PROVE ThemesInv'
    <2>1. PICK new : new = registry'
      OBVIOUS
    <2>2. /\ DOMAIN new = DOMAIN registry
          /\ \A k \in DOMAIN registry : new[k].id = registry[k].id
      BY <1>1, <1>10, <2>1, EnabledKeeps
    <2>3. ThemesAhead(new)
      BY <1>1, <2>2, ThemesAheadWithSameIds
    <2>4. UNCHANGED todo
      BY <1>10 DEF SetEnabled, dispatcher
    <2> QED
      BY <1>3, <1>4, <2>1, <2>3, <2>4 DEF ThemesInv
  <1>11. CASE Abort
    <2>1. UNCHANGED registry /\ todo' = <<>>
      BY <1>11 DEF Abort, disk
    <2> QED
      BY <1>2, <2>1 DEF ThemesInv, InOrder
  <1>12. ASSUME NEW e \in HandWritten, Edit(e) PROVE ThemesInv'
    <2>1. e \in JobConfigs /\ e.id \notin {ThemesId, CrystallizeId}
      BY SchedulerConstants DEF ThemesComeFirst
    <2>2. PICK new : new = registry'
      OBVIOUS
    <2>3. \/ \E i \in DOMAIN registry : registry[i].id = e.id /\ new = [registry EXCEPT ![i] = e]
          \/ new = Append(registry, e)
      BY <1>12, <2>2 DEF Edit
    <2>4. ASSUME NEW i \in DOMAIN registry, registry[i].id = e.id, new = [registry EXCEPT ![i] = e]
          PROVE  ThemesAhead(new)
      <3>1. DOMAIN new = DOMAIN registry /\ \A k \in DOMAIN registry : new[k].id = registry[k].id
        BY <1>1, <2>1, <2>4, ReplacedEntry
      <3> QED
        BY <1>1, <3>1, ThemesAheadWithSameIds
    <2>5. ASSUME new = Append(registry, e)
          PROVE  ThemesAhead(new)
      BY <1>1, <2>1, <2>5, ThemesAheadAfterEditing
    <2>6. UNCHANGED todo
      BY <1>12 DEF Edit, dispatcher
    <2> QED
      BY <1>3, <1>4, <2>2, <2>3, <2>4, <2>5, <2>6 DEF ThemesInv
  <1>13. CASE StartJob \/ (\E ok \in BOOLEAN : EndJob(ok)) \/ SeedMissing \/ Pass \/ FallBack \/ UNCHANGED vars
    <2>1. UNCHANGED <<registry, todo>>
      BY <1>13 DEF StartJob, EndJob, SeedMissing, Pass, FallBack, vars, disk, dispatcher
    <2> QED
      BY <1>2, <1>3, <2>1 DEF ThemesInv
  <1> QED
    BY <1>5, <1>6, <1>7, <1>8, <1>9, <1>10, <1>11, <1>12, <1>13 DEF Next

\* No command drops an entry or changes a cadence that is not the daily job's,
\* and a tick that owes both jobs clusters before it synthesizes, for registries
\* that start as the releases left them.
THEOREM RegistryHolds ==
  ASSUME ThemesComeFirst
  PROVE  Spec => RegistryIsKept
  <1>1. Init => ThemesInv
    BY DEF Init, ThemesInv, InOrder, ThemesComeFirst
  <1>2. SchedulerInv /\ ThemesInv /\ [Next]_vars => ThemesInv'
    BY ThemesInvIsKept
  <1>3. ThemesInv => \A i, k \in DOMAIN todo :
          todo[i].id = ThemesId /\ todo[k].id = CrystallizeId /\ todo[i].why = todo[k].why => i < k
    BY DEF ThemesInv, InOrder
  <1>4. SchedulerInv /\ [Next]_vars =>
          [(\E e \in HandWritten : Edit(e)) \/
           \A e \in Entries(registry) : \E f \in Entries(registry') :
              f.id = e.id /\ (f.cadence = e.cadence \/ e.id = DailyId)]_vars
    BY CommandsKeep
  <1> QED
    BY <1>1, <1>2, <1>3, <1>4, SchedulerInvariant, PTL DEF Spec, RegistryIsKept
=============================================================================
