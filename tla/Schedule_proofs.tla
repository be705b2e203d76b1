-------------------------- MODULE Schedule_proofs ---------------------------
(***************************************************************************)
(* Theorems about the calendar, for any lengths of the levels and of the   *)
(* months and any descriptions: the search never turns back, what it finds *)
(* matches the schedule, and it steps over nothing that does, but for the  *)
(* two kinds of descriptions that Schedule names.                          *)
(***************************************************************************)
EXTENDS Schedule, Lists_proofs

-----------------------------------------------------------------------------
(* Division.                                                               *)

\* The quotient and the remainder.
LEMMA Division ==
    ASSUME NEW x \in Nat, NEW L \in Nat \ {0}
    PROVE  /\ x \div L \in Nat /\ x % L \in 0 .. L - 1
           /\ x = ((x \div L) * L) + (x % L)
  BY Z3

\* A remainder is reached by one quotient only.
LEMMA Composed ==
    ASSUME NEW a \in Nat, NEW L \in Nat \ {0}, NEW b \in 0 .. L - 1
    PROVE  ((a * L) + b) \div L = a /\ ((a * L) + b) % L = b
  BY Z3

\* What has the smaller quotient is smaller.
LEMMA QuotientOrder ==
    ASSUME NEW a \in Nat, NEW c \in Nat, NEW L \in Nat \ {0}, a < c
    PROVE  (a * L) + L <= c * L
  BY Z3

\* A product of naturals is a natural.
LEMMA Product ==
    ASSUME NEW a \in Nat, NEW b \in Nat
    PROVE  a * b \in Nat /\ (a # 0 /\ b # 0 => a * b # 0)
  BY Z3

\* A set of naturals that is not empty has a minimum.
LEMMA MinFacts ==
    ASSUME NEW S \in SUBSET Nat, S # {}
    PROVE  Min(S) \in S /\ \A k \in S : Min(S) <= k
  BY LeastNatural DEF Min

-----------------------------------------------------------------------------
(* One level of the search.                                                *)

\* What the search finds at a level, with the carry of the level below.
Found(s, at, l, carry) ==
    LET next_levels_valid == \A k \in l + 1..MONTH : at[k] \in s[k]
        i == Min({k \in 0..Length[l] - 1 : (at[l] + carry + k) % Length[l] \in s[l]})
        j == IF next_levels_valid THEN (at[l] + carry + i) % Length[l] ELSE Min(s[l])
    IN  [value |-> j,
         carry |-> IF next_levels_valid /\ j < at[l] + carry THEN 1 ELSE 0]

\* The levels are searched from the seconds up.
LEMMA LevelByLevel ==
    ASSUME NEW s, NEW at
    PROVE  /\ FirstPossible(s, at)[SEC] = Found(s, at, SEC, 0)
           /\ \A l \in MIN..MONTH :
                FirstPossible(s, at)[l] = Found(s, at, l, FirstPossible(s, at)[l - 1].carry)
<1> DEFINE Eq(f) == f = [l \in TimeLevels |->
                            Found(s, at, l, IF l = SEC THEN 0 ELSE f[l - 1].carry)]
           r0 == Found(s, at, 0, 0)
           r1 == Found(s, at, 1, r0.carry)
           r2 == Found(s, at, 2, r1.carry)
           r3 == Found(s, at, 3, r2.carry)
           r4 == Found(s, at, 4, r3.carry)
           h == [l \in 0..4 |-> IF l = 0 THEN r0 ELSE IF l = 1 THEN r1
                                ELSE IF l = 2 THEN r2 ELSE IF l = 3 THEN r3 ELSE r4]
           first == CHOOSE f : Eq(f)
<1>1. Eq(h)
  <2> HIDE DEF r0, r1, r2, r3, r4
  <2>1. h[0] = r0 /\ h[1] = r1 /\ h[2] = r2 /\ h[3] = r3 /\ h[4] = r4
    OBVIOUS
  <2>2. \A l \in 0..4 : h[l] = Found(s, at, l, IF l = 0 THEN 0 ELSE h[l - 1].carry)
    <3> HIDE DEF h
    <3>1. /\ h[0] = Found(s, at, 0, 0) /\ h[1] = Found(s, at, 1, h[0].carry)
          /\ h[2] = Found(s, at, 2, h[1].carry) /\ h[3] = Found(s, at, 3, h[2].carry)
          /\ h[4] = Found(s, at, 4, h[3].carry)
      BY <2>1 DEF r0, r1, r2, r3, r4
    <3> TAKE l \in 0..4
    <3>2. l = 0 \/ l = 1 \/ l = 2 \/ l = 3 \/ l = 4
      OBVIOUS
    <3> QED
      BY <3>1, <3>2
  <2> QED
    BY <2>2 DEF TimeLevels, SEC, MONTH
<1>2. Eq(first)
  <2> HIDE DEF h
  <2> QED
    BY <1>1
<1>3. FirstPossible(s, at) = first
  BY DEF FirstPossible, Found
<1> HIDE DEF first
<1>4. /\ first[SEC] = Found(s, at, SEC, 0)
      /\ \A l \in MIN..MONTH : first[l] = Found(s, at, l, first[l - 1].carry)
  BY <1>2 DEF TimeLevels, SEC, MIN, MONTH
<1> QED
  BY <1>3, <1>4

\* What is asked of the result r of a level that `carry' was carried to: an
\* allowed value; if the levels above allow the present time, the first one
\* from the present value and what was carried on, or the very first one, if
\* there is none and the level carries on; else the very first one.
LevelDone(s, at, l, carry, r) ==
    LET next_levels_valid == \A k \in l + 1..MONTH : at[k] \in s[k]
    IN  /\ r.value \in s[l] /\ r.carry \in {0, 1}
        /\ next_levels_valid /\ r.carry = 0 => r.value >= at[l] + carry
        /\ r.carry = 1 => next_levels_valid
        /\ ~ next_levels_valid \/ r.carry = 1 => \A v \in s[l] : r.value <= v
        /\ next_levels_valid =>
             \A v \in s[l] : v >= at[l] + carry => r.carry = 0 /\ r.value <= v

\* A level yields that.
LEMMA FoundFacts ==
    ASSUME NEW s, NEW at, NEW l, Length[l] \in Nat \ {0}, at[l] \in 0..Length[l] - 1,
           NEW carry \in {0, 1}, s[l] \in SUBSET (0..Length[l] - 1), s[l] # {}
    PROVE  LevelDone(s, at, l, carry, Found(s, at, l, carry))
<1> DEFINE L == Length[l]
           a == at[l] + carry
           K == {k \in 0..L - 1 : (a + k) % L \in s[l]}
           valid == \A k \in l + 1..MONTH : at[k] \in s[k]
           j == IF valid THEN (a + Min(K)) % L ELSE Min(s[l])
           c == IF valid /\ j < a THEN 1 ELSE 0
<1>1. a \in 0..L /\ L \in Nat \ {0}
  OBVIOUS
<1>2. Found(s, at, l, carry) = [value |-> j, carry |-> c]
  BY DEF Found
<1>3. \A v \in s[l] : v \in 0..L - 1
  OBVIOUS
<1>4. ASSUME NEW v \in s[l] PROVE IF v >= a THEN v - a \in K ELSE (v + L) - a \in K
  <2>1. v \in 0..L - 1
    OBVIOUS
  <2>2. CASE v >= a
    <3>1. v - a \in 0..L - 1 /\ a + (v - a) = v /\ v % L = v
      BY <1>1, <2>1, <2>2
    <3> QED
      BY <2>2, <3>1
  <2>3. CASE ~ (v >= a)
    <3>1. (v + L) - a \in 0..L - 1 /\ a + ((v + L) - a) = (1 * L) + v
      BY <1>1, <2>1, <2>3
    <3>2. ((1 * L) + v) % L = v
      BY <1>1, <2>1, Composed
    <3> QED
      BY <2>3, <3>1, <3>2
  <2> QED
    BY <2>2, <2>3
<1>5. K # {} /\ K \in SUBSET Nat
  <2>1. PICK v \in s[l] : TRUE
    OBVIOUS
  <2> HIDE DEF a
  <2> QED
    BY <1>1, <1>4, <2>1
<1>6. Min(s[l]) \in s[l] /\ \A v \in s[l] : Min(s[l]) <= v
  BY MinFacts
<1> DEFINE i == Min(K)
<1>7. i \in 0..L - 1 /\ (a + i) % L \in s[l] /\ \A k \in K : i <= k
  <2>1. \A k \in K : k \in 0..L - 1 /\ (a + k) % L \in s[l]
    OBVIOUS
  <2> HIDE DEF K, a
  <2> QED
    BY <1>5, <2>1, MinFacts
<1> HIDE DEF K, i, a
<1>8. (a + i) % L = IF a + i < L THEN a + i ELSE (a + i) - L
  <2>1. a + i \in Nat /\ (a + i) - L < L /\ a \in Nat /\ i \in Nat
    BY <1>1, <1>7
  <2>2. CASE a + i < L
    BY <1>1, <2>1, <2>2
  <2>3. CASE ~ (a + i < L)
    <3> DEFINE b == (a + i) - L
    <3>1. b \in 0..L - 1 /\ a + i = (1 * L) + b
      BY <1>1, <2>1, <2>3
    <3> HIDE DEF b
    <3>2. ((1 * L) + b) % L = b
      BY <1>1, <3>1, Composed
    <3> QED
      BY <2>3, <3>1, <3>2 DEF b
  <2> QED
    BY <2>2, <2>3
<1> HIDE DEF L, valid
<1>9. ASSUME valid, NEW v \in s[l], v >= a PROVE c = 0 /\ j <= v
  <2>1. v \in 0..L - 1 /\ i <= v - a
    BY <1>3, <1>4, <1>7, <1>9
  <2>2. a + i <= v /\ a + i < L /\ a \in Nat /\ i \in Nat
    BY <1>1, <1>7, <2>1
  <2>3. j = a + i
    BY <1>8, <1>9, <2>2 DEF i
  <2> HIDE DEF j
  <2> QED
    BY <2>2, <2>3
<1>10. ASSUME valid, j < a, NEW v \in s[l] PROVE j <= v
  <2>1. ~ (v >= a)
    <3> HIDE DEF j
    <3> QED
      BY <1>9, <1>10
  <2>2. v \in 0..L - 1 /\ i <= (v + L) - a
    BY <1>3, <1>4, <1>7, <2>1
  <2>3. j = (a + i) % L
    BY <1>10 DEF i
  <2> HIDE DEF j
  <2>4. a \in Nat /\ i \in Nat /\ L \in Nat
    BY <1>1, <1>7
  <2>5. ~ (a + i < L)
    BY <1>8, <1>10, <2>3, <2>4
  <2> QED
    BY <1>8, <2>2, <2>3, <2>4, <2>5
<1>11. j \in s[l] /\ j \in Nat
  BY <1>3, <1>6, <1>7 DEF i, L
<1>12. ~ valid => \A v \in s[l] : j <= v
  BY <1>6
<1>13. a \in Nat
  BY <1>1
<1> HIDE DEF j
<1>14. LevelDone(s, at, l, carry, [value |-> j, carry |-> c])
  <2>1. c \in {0, 1} /\ (c = 1 <=> valid /\ j < a)
    OBVIOUS
  <2>2. valid /\ c = 0 => j >= a
    BY <1>11, <1>13
  <2> HIDE DEF c
  <2> DEFINE r == [value |-> j, carry |-> c]
  <2>3. r.value = j /\ r.carry = c
    OBVIOUS
  <2> HIDE DEF r
  <2>4. ~ valid \/ c = 1 => \A v \in s[l] : j <= v
    BY <1>10, <1>12, <2>1
  <2>5. valid => \A v \in s[l] : v >= a => c = 0 /\ j <= v
    BY <1>9 DEF c
  <2>6. /\ r.value \in s[l] /\ r.carry \in {0, 1}
        /\ valid /\ r.carry = 0 => r.value >= a
        /\ r.carry = 1 => valid
        /\ ~ valid \/ r.carry = 1 => \A v \in s[l] : r.value <= v
        /\ valid => \A v \in s[l] : v >= a => r.carry = 0 /\ r.value <= v
    BY <1>11, <2>1, <2>2, <2>3, <2>4, <2>5
  <2> QED
    BY <2>6 DEF LevelDone, valid, a, r
<1> QED
  BY <1>2, <1>14

-----------------------------------------------------------------------------
(* The months.                                                             *)

\* The lengths are positive naturals.
LEMMA Lengths ==
    /\ \A l \in ScheduleLevels : Length[l] \in Nat \ {0}
    /\ Years * Length[MONTH] \in Nat \ {0}
    /\ (Years + 1) * Length[MONTH] = (Years * Length[MONTH]) + Length[MONTH]
<1>1. \A l \in ScheduleLevels : Length[l] \in Nat \ {0}
  BY ScheduleAssumption
<1>2. MONTH \in ScheduleLevels /\ Years \in Nat \ {0}
  BY ScheduleAssumption DEF ScheduleLevels, SEC, WDAY, MONTH
<1> DEFINE L == Length[MONTH]
<1>3. L \in Nat \ {0}
  BY <1>1, <1>2
<1> HIDE DEF L
<1>4. Years * L \in Nat \ {0}
  BY <1>2, <1>3, Product
<1>5. (Years + 1) * L = (Years * L) + L
  BY <1>2, <1>3, Z3
<1> QED
  BY <1>1, <1>4, <1>5 DEF L

\* A month of a year has a day at least and no more than there are numbers.
LEMMA DaysFacts ==
    ASSUME NEW y \in Nat, NEW m \in 0..Length[MONTH] - 1
    PROVE  DaysOf(y, m) \in 1..Length[DAY]
<1>1. DAY \in ScheduleLevels /\ Length[DAY] \in Nat
  BY ScheduleAssumption DEF ScheduleLevels, SEC, WDAY, DAY
<1>2. MonthDays[m] \in 1..Length[DAY]
  BY ScheduleAssumption
<1>3. m = LeapMonth => MonthDays[m] < Length[DAY]
  BY ScheduleAssumption
<1> QED
  BY <1>1, <1>2, <1>3 DEF DaysOf

\* Every month starts after the one before it, and before its day numbers
\* are used up.
LEMMA MonthsFollow ==
    LET n == (Years + 1) * Length[MONTH]
    IN  /\ MonthStart[0] = 0
        /\ \A k \in 0..n : MonthStart[k] \in Nat
        /\ \A k \in 0..n - 1 : /\ MonthStart[k] < MonthStart[k + 1]
                               /\ MonthStart[k + 1] <= MonthStart[k] + Length[DAY]
                               /\ MonthStart[k + 1] = MonthStart[k]
                                    + DaysOf(k \div Length[MONTH], k % Length[MONTH])
<1> DEFINE n == (Years + 1) * Length[MONTH]
           D(k) == DaysOf((k - 1) \div Length[MONTH], (k - 1) % Length[MONTH])
           F == [p \in (0 .. n) \X Nat |-> IF p[1] = 0 THEN 0 ELSE p[2] + D(p[1])]
           Eq(g) == g = [k \in 0 .. n |-> IF k = 0 THEN 0 ELSE g[k - 1] + D(k)]
           start == CHOOSE g : Eq(g)
<1>1. n \in Nat /\ Length[MONTH] \in Nat \ {0} /\ Length[DAY] \in Nat
  <2>1. MONTH \in ScheduleLevels /\ DAY \in ScheduleLevels
    BY DEF ScheduleLevels, SEC, WDAY, MONTH, DAY
  <2> QED
    BY <2>1, Lengths
<1> HIDE DEF n
<1>2. ASSUME NEW k \in 1 .. n PROVE D(k) \in 1..Length[DAY]
  <2>1. k - 1 \in Nat
    BY <1>1
  <2> DEFINE x == k - 1
  <2> HIDE DEF x
  <2>2. x \div Length[MONTH] \in Nat /\ x % Length[MONTH] \in 0..Length[MONTH] - 1
    BY <1>1, <2>1, Division DEF x
  <2>3. DaysOf(x \div Length[MONTH], x % Length[MONTH]) \in 1..Length[DAY]
    BY <2>2, DaysFacts
  <2> QED
    BY <2>3 DEF x
<1> HIDE DEF D
<1>3. F \in [(0 .. n) \X Nat -> Nat]
  <2> SUFFICES ASSUME NEW p \in (0 .. n) \X Nat
               PROVE  (IF p[1] = 0 THEN 0 ELSE p[2] + D(p[1])) \in Nat
    OBVIOUS
  <2>1. p[1] # 0 => p[1] \in 1 .. n
    BY <1>1
  <2> QED
    BY <1>1, <1>2, <2>1
<1>4. ASSUME NEW i \in 0 .. n, i # 0, NEW x \in Nat PROVE F[<<i, x>>] = x + D(i)
  BY <1>4
<1> HIDE DEF F
<1>5. PICK h : Solves(h, 0, n, 0, F)
  BY <1>1, <1>3, RecursionExists
<1>6. h \in [0 .. n -> Nat]
  BY <1>1, <1>3, <1>5, RecursionType
<1>7. \A i \in 0 .. n : i # 0 => i - 1 \in 0 .. n
  BY <1>1
<1>8. Eq(h)
  <2>1. \A i \in 0 .. n : h[i] = IF i = 0 THEN 0 ELSE F[<<i, h[i - 1]>>]
    BY <1>5 DEF Solves
  <2>2. ASSUME NEW i \in 0 .. n, i # 0 PROVE h[i] = h[i - 1] + D(i)
    <3>1. h[i - 1] \in Nat
      BY <1>6, <1>7, <2>2
    <3> QED
      BY <1>4, <2>1, <2>2, <3>1
  <2> QED
    BY <1>6, <2>1, <2>2
<1>9. Eq(start)
  BY <1>8
<1>10. MonthStart = start
  BY DEF MonthStart, start, Eq, n, D
<1> HIDE DEF start
<1>11. start[0] = 0 /\ \A k \in 1 .. n : start[k] = start[k - 1] + D(k)
  BY <1>1, <1>9
<1>12. \A k \in 0 .. n : start[k] \in Nat
  <2> DEFINE Bad == {k \in 0 .. n : start[k] \notin Nat}
  <2>1. SUFFICES ASSUME Bad # {} PROVE FALSE
    BY <2>1
  <2>2. Bad \in SUBSET Nat
    OBVIOUS
  <2>3. PICK m \in Bad : \A k \in Bad : m <= k
    BY <2>1, <2>2, LeastNatural
  <2>4. m # 0
    BY <1>11
  <2>5. m \in 1 .. n /\ m - 1 \in 0 .. n /\ m - 1 \notin Bad
    BY <1>1, <2>3, <2>4
  <2> QED
    BY <1>2, <1>11, <2>3, <2>5
<1>13. ASSUME NEW k \in 0 .. n - 1
       PROVE  /\ start[k] < start[k + 1] /\ start[k + 1] <= start[k] + Length[DAY]
              /\ start[k + 1] = start[k] + DaysOf(k \div Length[MONTH], k % Length[MONTH])
  <2>1. k \in 0 .. n /\ k + 1 \in 1 .. n /\ (k + 1) - 1 = k
    BY <1>1
  <2>2. start[k + 1] = start[k] + D(k + 1) /\ start[k] \in Nat
    BY <1>11, <1>12, <2>1
  <2>3. D(k + 1) \in 1..Length[DAY]
    BY <1>2, <2>1
  <2>4. D(k + 1) = DaysOf(k \div Length[MONTH], k % Length[MONTH])
    BY <2>1 DEF D
  <2>5. start[k] < start[k + 1] /\ start[k + 1] <= start[k] + Length[DAY]
    BY <1>1, <2>2, <2>3
  <2> QED
    BY <2>2, <2>4, <2>5
<1> QED
  BY <1>10, <1>11, <1>12, <1>13 DEF n

\* A month starts after every earlier one has ended.
LEMMA MonthsInOrder ==
    ASSUME NEW i \in 0..(Years + 1) * Length[MONTH], NEW j \in 0..(Years + 1) * Length[MONTH],
           i < j
    PROVE  MonthStart[i + 1] <= MonthStart[j]
<1> DEFINE n == (Years + 1) * Length[MONTH]
           Bad == {k \in 0..n : i < k /\ ~ (MonthStart[i + 1] <= MonthStart[k])}
<1>1. /\ \A k \in 0..n : MonthStart[k] \in Nat
      /\ \A k \in 0..n - 1 : MonthStart[k] < MonthStart[k + 1]
  BY MonthsFollow
<1>2. n \in Nat
  BY Lengths DEF ScheduleLevels, SEC, MONTH, WDAY
<1> HIDE DEF n
<1>3. i \in 0..n /\ j \in 0..n
  BY DEF n
<1>4. SUFFICES ASSUME Bad # {} PROVE FALSE
  BY <1>3, <1>4
<1>5. Bad \in SUBSET Nat
  OBVIOUS
<1>6. PICK m \in Bad : \A k \in Bad : m <= k
  BY <1>4, <1>5, LeastNatural
<1>7. m \in 0..n /\ i < m /\ ~ (MonthStart[i + 1] <= MonthStart[m])
  BY <1>6
<1>8. m # i + 1
  BY <1>1, <1>3, <1>7
<1>9. m - 1 \in 0..n /\ i < m - 1 /\ ~(m <= m - 1)
  BY <1>2, <1>3, <1>7, <1>8
<1>10. MonthStart[i + 1] <= MonthStart[m - 1]
  BY <1>6, <1>9
<1>11. m - 1 \in 0..n - 1 /\ (m - 1) + 1 = m /\ i + 1 \in 0..n
  BY <1>2, <1>3, <1>7, <1>9
<1>12. MonthStart[m - 1] < MonthStart[m]
  BY <1>1, <1>11
<1> QED
  BY <1>1, <1>7, <1>9, <1>10, <1>11, <1>12

\* Every day of the calendar is in a month.
LEMMA MonthOfDay ==
    ASSUME NEW day \in Nat, day < MonthStart[Years * Length[MONTH]]
    PROVE  \E k \in 0..Years * Length[MONTH] - 1 :
              MonthStart[k] <= day /\ day < MonthStart[k + 1]
<1> DEFINE N == Years * Length[MONTH]
           n == (Years + 1) * Length[MONTH]
           T == {k \in 0..N : day < MonthStart[k]}
<1>1. MonthStart[0] = 0 /\ \A k \in 0..n : MonthStart[k] \in Nat
  BY MonthsFollow
<1>2. N \in Nat \ {0} /\ n \in Nat /\ N <= n
  BY Lengths DEF ScheduleLevels, SEC, MONTH, WDAY
<1>3. N \in T
  BY <1>2
<1> HIDE DEF N, n
<1>4. T \in SUBSET Nat
  OBVIOUS
<1>5. PICK m \in T : \A k \in T : m <= k
  BY <1>3, <1>4, LeastNatural
<1>6. m \in 0..N /\ day < MonthStart[m]
  BY <1>5
<1>7. m # 0
  BY <1>1, <1>6
<1>8. m - 1 \in 0..N - 1 /\ m - 1 \in 0..n /\ (m - 1) + 1 = m /\ ~(m <= m - 1) /\ m - 1 \in 0..N
  BY <1>2, <1>6, <1>7
<1>9. ~(day < MonthStart[m - 1])
  BY <1>5, <1>8
<1>10. MonthStart[m - 1] <= day
  BY <1>1, <1>8, <1>9
<1> QED
  BY <1>6, <1>8, <1>10 DEF N

-----------------------------------------------------------------------------
(* The time of day.                                                        *)

\* The second at h:m:s of a day.
Clock(day, h, m, s) ==
    (((((day * Length[HOUR]) + h) * Length[MIN]) + m) * Length[SEC]) + s

\* mktime counts the seconds of the days, hours and minutes.
LEMMA ClockSum ==
    ASSUME NEW day \in Nat, NEW h \in Nat, NEW m \in Nat, NEW s \in Nat
    PROVE  /\ (day * DaySeconds) + (((h * Length[MIN]) + m) * Length[SEC]) + s
                 = Clock(day, h, m, s)
           /\ Clock(day, h, m, s) \in Nat
<1> DEFINE a == Length[SEC]
           b == Length[MIN]
           c == Length[HOUR]
<1>1. a \in Nat /\ b \in Nat /\ c \in Nat
  BY Lengths DEF ScheduleLevels, SEC, MIN, HOUR, WDAY
<1> HIDE DEF a, b, c
<1>2. (day * ((a * b) * c)) + (((h * b) + m) * a) + s
        = (((((day * c) + h) * b) + m) * a) + s
  BY <1>1, Z3
<1>3. (((((day * c) + h) * b) + m) * a) + s \in Nat
  BY <1>1, Z3
<1> QED
  BY <1>2, <1>3 DEF Clock, DaySeconds, a, b, c

\* Dividing by a product is dividing twice.
LEMMA DivDiv ==
    ASSUME NEW x \in Nat, NEW a \in Nat \ {0}, NEW b \in Nat \ {0}
    PROVE  (x \div a) \div b = x \div (a * b)
<1> DEFINE q == x \div a
           r == x % a
           p == q \div b
           u == q % b
<1>1. q \in Nat /\ r \in 0..a - 1 /\ x = (q * a) + r
  BY Division
<1>2. p \in Nat /\ u \in 0..b - 1 /\ q = (p * b) + u
  BY <1>1, Division
<1> HIDE DEF q, r, p, u
<1>3. x = (p * (a * b)) + ((u * a) + r)
  BY <1>1, <1>2, Z3
<1>4. (u * a) + r \in 0..(a * b) - 1 /\ a * b \in Nat \ {0}
  <2>1. (u * a) + a <= b * a
    BY <1>2, QuotientOrder
  <2>2. u * a \in Nat /\ a * b \in Nat \ {0} /\ a * b = b * a
    BY <1>2, Z3
  <2> DEFINE v == u * a
             w == a * b
  <2>3. v + a <= w /\ v \in Nat /\ w \in Nat \ {0} /\ a \in Nat
    BY <2>1, <2>2
  <2> HIDE DEF v, w
  <2>4. v + r \in 0..w - 1
    BY <1>1, <2>3
  <2> QED
    BY <2>2, <2>4 DEF v, w
<1> DEFINE z == (u * a) + r
           d == a * b
<1> HIDE DEF z, d
<1>5. ((p * d) + z) \div d = p
  BY <1>2, <1>4, Composed DEF z, d
<1> QED
  BY <1>3, <1>5 DEF z, d, p, q

\* The parts of a second of a day.
LEMMA ClockParts ==
    ASSUME NEW day \in Nat, NEW h \in 0..Length[HOUR] - 1, NEW m \in 0..Length[MIN] - 1,
           NEW s \in 0..Length[SEC] - 1
    PROVE  LET t == Clock(day, h, m, s)
           IN  /\ t % Length[SEC] = s
               /\ (t \div Length[SEC]) % Length[MIN] = m
               /\ (t \div (Length[SEC] * Length[MIN])) % Length[HOUR] = h
               /\ t \div DaySeconds = day
<1> DEFINE a == Length[SEC]
           b == Length[MIN]
           c == Length[HOUR]
           dh == (day * c) + h
           dm == (dh * b) + m
           t == (dm * a) + s
<1>1. a \in Nat \ {0} /\ b \in Nat \ {0} /\ c \in Nat \ {0}
  BY Lengths DEF ScheduleLevels, SEC, MIN, HOUR, WDAY
<1>2. h \in 0..c - 1 /\ m \in 0..b - 1 /\ s \in 0..a - 1
  OBVIOUS
<1>3. Clock(day, h, m, s) = t /\ DaySeconds = (a * b) * c
  BY DEF Clock, DaySeconds
<1> HIDE DEF a, b, c
<1>4. dh \in Nat /\ dh \div c = day /\ dh % c = h
  <2>1. day * c \in Nat
    BY <1>1, Product
  <2>2. (((day * c) + h) \div c = day) /\ (((day * c) + h) % c = h)
    BY <1>1, <1>2, Composed
  <2> DEFINE v == day * c
  <2> HIDE DEF v
  <2>3. v + h \in Nat
    BY <1>1, <1>2, <2>1 DEF v
  <2> QED
    BY <2>2, <2>3 DEF v
<1> HIDE DEF dh
<1>5. dm \in Nat /\ dm \div b = dh /\ dm % b = m
  <2>1. dh * b \in Nat
    BY <1>1, <1>4, Product
  <2>2. (((dh * b) + m) \div b = dh) /\ (((dh * b) + m) % b = m)
    BY <1>1, <1>4, <1>2, Composed
  <2> DEFINE v == dh * b
  <2> HIDE DEF v
  <2>3. v + m \in Nat
    BY <1>1, <1>2, <2>1 DEF v
  <2> QED
    BY <2>2, <2>3 DEF v
<1> HIDE DEF dm
<1>6. t \in Nat /\ t \div a = dm /\ t % a = s
  <2>1. dm * a \in Nat
    BY <1>1, <1>5, Product
  <2>2. (((dm * a) + s) \div a = dm) /\ (((dm * a) + s) % a = s)
    BY <1>1, <1>5, <1>2, Composed
  <2> DEFINE v == dm * a
  <2> HIDE DEF v
  <2>3. v + s \in Nat
    BY <1>1, <1>2, <2>1 DEF v
  <2> QED
    BY <2>2, <2>3 DEF v
<1> HIDE DEF t
<1>7. t \div (a * b) = dh /\ a * b \in Nat \ {0}
  BY <1>1, <1>5, <1>6, DivDiv, Product
<1>8. t \div ((a * b) * c) = day
  <2> DEFINE ab == a * b
  <2> HIDE DEF ab
  <2>1. (t \div ab) \div c = t \div (ab * c)
    BY <1>1, <1>6, <1>7, DivDiv DEF ab
  <2> QED
    BY <1>4, <1>7, <2>1 DEF ab
<1> QED
  BY <1>3, <1>4, <1>5, <1>6, <1>7, <1>8 DEF a, b, c

\* Every second is put together from its parts.
LEMMA ClockOf ==
    ASSUME NEW t \in Nat
    PROVE  LET h == (t \div (Length[SEC] * Length[MIN])) % Length[HOUR]
               m == (t \div Length[SEC]) % Length[MIN]
               s == t % Length[SEC]
           IN  /\ t \div DaySeconds \in Nat
               /\ h \in 0..Length[HOUR] - 1 /\ m \in 0..Length[MIN] - 1
               /\ s \in 0..Length[SEC] - 1
               /\ t = Clock(t \div DaySeconds, h, m, s)
<1> DEFINE a == Length[SEC]
           b == Length[MIN]
           c == Length[HOUR]
           q1 == t \div a
           q2 == q1 \div b
           q3 == q2 \div c
<1>1. a \in Nat \ {0} /\ b \in Nat \ {0} /\ c \in Nat \ {0}
  BY Lengths DEF ScheduleLevels, SEC, MIN, HOUR, WDAY
<1>2. DaySeconds = (a * b) * c
  BY DEF DaySeconds
<1> HIDE DEF a, b, c
<1>3. q1 \in Nat /\ t % a \in 0..a - 1 /\ t = (q1 * a) + (t % a)
  BY <1>1, Division
<1> HIDE DEF q1
<1>4. q2 \in Nat /\ q1 % b \in 0..b - 1 /\ q1 = (q2 * b) + (q1 % b)
  BY <1>1, <1>3, Division
<1> HIDE DEF q2
<1>5. q3 \in Nat /\ q2 % c \in 0..c - 1 /\ q2 = (q3 * c) + (q2 % c)
  BY <1>1, <1>4, Division
<1> HIDE DEF q3
<1>6. q2 = t \div (a * b) /\ a * b \in Nat \ {0}
  BY <1>1, DivDiv, Product DEF q1, q2
<1>7. q3 = t \div ((a * b) * c)
  <2> DEFINE ab == a * b
  <2> HIDE DEF ab
  <2>1. (t \div ab) \div c = t \div (ab * c)
    BY <1>1, <1>6, DivDiv DEF ab
  <2> QED
    BY <1>6, <2>1 DEF ab, q3
<1>8. t = (((((q3 * c) + (q2 % c)) * b) + (q1 % b)) * a) + (t % a)
  BY <1>3, <1>4, <1>5
<1>9. Clock(t \div DaySeconds, (t \div (a * b)) % c, (t \div a) % b, t % a)
        = (((((q3 * c) + (q2 % c)) * b) + (q1 % b)) * a) + (t % a)
  BY <1>2, <1>6, <1>7 DEF Clock, q1, a, b, c
<1> QED
  BY <1>2, <1>3, <1>4, <1>5, <1>6, <1>7, <1>8, <1>9 DEF a, b, c, q1

\* One digit more of a lexicographic order.
LEMMA DigitOrder ==
    ASSUME NEW x \in Nat, NEW y \in Nat, NEW L \in Nat \ {0},
           NEW b \in 0..L - 1, NEW e \in 0..L - 1, x < y \/ (x = y /\ b <= e)
    PROVE  /\ (x * L) + b <= (y * L) + e
           /\ x < y \/ b < e => (x * L) + b < (y * L) + e
<1> DEFINE p == x * L
           q == y * L
<1>1. p \in Nat /\ q \in Nat /\ (x = y => p = q)
  BY Product
<1>2. x < y => p + L <= q
  BY QuotientOrder
<1> HIDE DEF p, q
<1>3. p + b <= q + e /\ (x < y \/ b < e => p + b < q + e)
  BY <1>1, <1>2
<1> QED
  BY <1>3 DEF p, q

\* Seconds are ordered as their days, hours, minutes and seconds.
LEMMA ClockOrder ==
    ASSUME NEW day \in Nat, NEW h \in 0..Length[HOUR] - 1, NEW m \in 0..Length[MIN] - 1,
           NEW s \in 0..Length[SEC] - 1,
           NEW day2 \in Nat, NEW h2 \in 0..Length[HOUR] - 1, NEW m2 \in 0..Length[MIN] - 1,
           NEW s2 \in 0..Length[SEC] - 1,
           \/ day < day2
           \/ day = day2 /\ h < h2
           \/ day = day2 /\ h = h2 /\ m < m2
           \/ day = day2 /\ h = h2 /\ m = m2 /\ s <= s2
    PROVE  /\ Clock(day, h, m, s) <= Clock(day2, h2, m2, s2)
           /\ ~ (day = day2 /\ h = h2 /\ m = m2 /\ s = s2)
                => Clock(day, h, m, s) < Clock(day2, h2, m2, s2)
<1> DEFINE a == Length[SEC]
           b == Length[MIN]
           c == Length[HOUR]
           dh == (day * c) + h
           eh == (day2 * c) + h2
           dm == (dh * b) + m
           em == (eh * b) + m2
<1>1. a \in Nat \ {0} /\ b \in Nat \ {0} /\ c \in Nat \ {0}
  BY Lengths DEF ScheduleLevels, SEC, MIN, HOUR, WDAY
<1>2. /\ h \in 0..c - 1 /\ m \in 0..b - 1 /\ s \in 0..a - 1
      /\ h2 \in 0..c - 1 /\ m2 \in 0..b - 1 /\ s2 \in 0..a - 1
  OBVIOUS
<1>3. Clock(day, h, m, s) = (dm * a) + s /\ Clock(day2, h2, m2, s2) = (em * a) + s2
  BY DEF Clock
<1> HIDE DEF a, b, c
<1>4. dh \in Nat /\ eh \in Nat /\ (day = day2 /\ h = h2 => dh = eh)
  <2>1. day * c \in Nat /\ day2 * c \in Nat
    BY <1>1, Product
  <2> QED
    BY <1>2, <2>1
<1>5. day < day2 \/ (day = day2 /\ h < h2) => dh < eh
  BY <1>1, <1>2, DigitOrder
<1> HIDE DEF dh, eh
<1>6. dm \in Nat /\ em \in Nat /\ (dh = eh /\ m = m2 => dm = em)
  <2>1. dh * b \in Nat /\ eh * b \in Nat
    BY <1>1, <1>4, Product
  <2> QED
    BY <1>2, <2>1
<1>7. dh < eh \/ (dh = eh /\ m < m2) => dm < em
  BY <1>1, <1>2, <1>4, DigitOrder
<1> HIDE DEF dm, em
<1>8. dm < em \/ (dm = em /\ s <= s2)
  BY <1>4, <1>5, <1>6, <1>7
<1>9. (dm * a) + s <= (em * a) + s2 /\ (dm < em \/ s < s2 => (dm * a) + s < (em * a) + s2)
  BY <1>1, <1>2, <1>6, <1>8, DigitOrder
<1>10. ~ (day = day2 /\ h = h2 /\ m = m2 /\ s = s2) => dm < em \/ s < s2
  BY <1>1, <1>2, <1>4, <1>5, <1>7
<1> QED
  BY <1>3, <1>9, <1>10

-----------------------------------------------------------------------------
(* localtime and mktime.                                                   *)

\* The number of the month of a struct tm, counted from the first year.
MonthNumber(year, at) == year * Length[MONTH] + at[MONTH]

\* A day has a second at least.
LEMMA DayLength == DaySeconds \in Nat \ {0}
<1> DEFINE a == Length[SEC]
           b == Length[MIN]
           c == Length[HOUR]
<1>1. a \in Nat \ {0} /\ b \in Nat \ {0} /\ c \in Nat \ {0}
  BY Lengths DEF ScheduleLevels, SEC, MIN, HOUR, WDAY
<1>2. DaySeconds = (a * b) * c
  BY DEF DaySeconds
<1> HIDE DEF a, b, c
<1>3. a * b \in Nat \ {0}
  BY <1>1, Product
<1> DEFINE ab == a * b
<1> HIDE DEF ab
<1>4. ab * c \in Nat \ {0}
  BY <1>1, <1>3, Product DEF ab
<1> QED
  BY <1>2, <1>4 DEF ab

\* The day of a second of the calendar is in one of its months.
LEMMA DayOfSecond ==
    ASSUME NEW t \in Seconds
    PROVE  /\ t \in Nat /\ t \div DaySeconds \in Nat
           /\ t \div DaySeconds < MonthStart[Years * Length[MONTH]]
<1> DEFINE M == MonthStart[Years * Length[MONTH]]
           day == t \div DaySeconds
<1>1. M \in Nat
  <2>1. Years * Length[MONTH] \in 0..(Years + 1) * Length[MONTH]
    BY Lengths DEF ScheduleLevels, SEC, MONTH, WDAY
  <2> QED
    BY <2>1, MonthsFollow
<1>2. t \in 0..M * DaySeconds - 1
  BY DEF Seconds
<1>3. DaySeconds \in Nat \ {0}
  BY DayLength
<1> DEFINE D == DaySeconds
<1> HIDE DEF M, D
<1>4. M * D \in Nat /\ t \in Nat /\ t < M * D
  BY <1>1, <1>2, <1>3, Product DEF D
<1>5. t \div D \in Nat /\ t % D \in 0..D - 1 /\ t = ((t \div D) * D) + (t % D)
  BY <1>3, <1>4, Division DEF D
<1> DEFINE q == t \div D
<1> HIDE DEF q
<1>6. q \in Nat /\ q * D \in Nat /\ q * D <= t
  <2>1. q \in Nat /\ t = (q * D) + (t % D) /\ t % D \in Nat
    BY <1>3, <1>5 DEF q, D
  <2>2. q * D \in Nat
    BY <1>3, <2>1, Product DEF D
  <2> QED
    BY <2>1, <2>2
<1>7. q < M
  <2>1. CASE M < q
    <3>1. (M * D) + D <= q * D
      BY <1>1, <1>3, <1>6, <2>1, QuotientOrder DEF D
    <3> QED
      BY <1>3, <1>4, <1>6, <3>1 DEF D
  <2>2. CASE M = q
    BY <1>4, <1>6, <2>2
  <2> QED
    BY <1>1, <1>6, <2>1, <2>2
<1> QED
  BY <1>4, <1>6, <1>7 DEF q, D, M

\* The struct tm of a second: its parts are in range, its day is a day of its
\* month, and it stands for that second.
LEMMA LocalTime ==
    ASSUME NEW t \in Seconds
    PROVE  LET tm == localtime[t]
               k == MonthNumber(tm.year, tm.at)
               day == t \div DaySeconds
           IN  /\ tm.year \in 0..Years - 1
               /\ \A l \in TimeLevels : tm.at[l] \in 0..Length[l] - 1
               /\ k \in 0..Years * Length[MONTH] - 1
               /\ day \in Nat /\ MonthStart[k] + tm.at[DAY] = day /\ day < MonthStart[k + 1]
               /\ t = Clock(day, tm.at[HOUR], tm.at[MIN], tm.at[SEC])
<1> DEFINE day == t \div DaySeconds
           N == Years * Length[MONTH]
           L == Length[MONTH]
           InMonth(k) == MonthStart[k] <= day /\ day < MonthStart[k + 1]
           k == CHOOSE k \in 0..N - 1 : InMonth(k)
           tm == localtime[t]
<1>1. t \in Nat /\ day \in Nat /\ day < MonthStart[N]
  BY DayOfSecond
<1>2. k \in 0..N - 1 /\ InMonth(k)
  <2>1. \E j \in 0..N - 1 : InMonth(j)
    BY <1>1, MonthOfDay
  <2> HIDE DEF InMonth
  <2> QED
    BY <2>1
<1>3. /\ tm.year = k \div L
      /\ tm.at[MONTH] = k % L
      /\ tm.at[DAY] = day - MonthStart[k]
      /\ tm.at[HOUR] = (t \div (Length[SEC] * Length[MIN])) % Length[HOUR]
      /\ tm.at[MIN] = (t \div Length[SEC]) % Length[MIN]
      /\ tm.at[SEC] = t % Length[SEC]
  BY DEF localtime, TimeLevels, SEC, MIN, HOUR, DAY, MONTH
<1>4. /\ L \in Nat \ {0} /\ Length[DAY] \in Nat \ {0} /\ N \in Nat
      /\ (Years + 1) * L = N + L /\ Years \in Nat
  BY Lengths, ScheduleAssumption DEF ScheduleLevels, SEC, MONTH, DAY, WDAY
<1> HIDE DEF k, day, N, tm
<1>5. MonthStart[k] \in Nat /\ MonthStart[k + 1] <= MonthStart[k] + Length[DAY]
      /\ MonthStart[k + 1] \in Nat
  <2> DEFINE n == (Years + 1) * L
  <2>1. n = N + L
    BY <1>4
  <2> HIDE DEF n
  <2>2. k \in 0..n - 1 /\ k \in 0..n /\ k + 1 \in 0..n
    BY <1>2, <1>4, <2>1
  <2> QED
    BY <2>2, MonthsFollow DEF n
<1>6. tm.at[DAY] \in 0..Length[DAY] - 1 /\ MonthStart[k] + tm.at[DAY] = day
  BY <1>1, <1>2, <1>3, <1>4, <1>5
<1>7. tm.year \in Nat /\ tm.at[MONTH] \in 0..L - 1 /\ MonthNumber(tm.year, tm.at) = k
  <2>1. k \in Nat
    BY <1>2, <1>4
  <2>2. k \div L \in Nat /\ k % L \in 0..L - 1 /\ k = ((k \div L) * L) + (k % L)
    BY <1>4, <2>1, Division
  <2> QED
    BY <1>3, <2>2 DEF MonthNumber
<1>8. tm.year \in 0..Years - 1
  <2> DEFINE y == tm.year
             v == Years * L
             u == y * L
  <2>1. u + tm.at[MONTH] = k /\ N = v
    BY <1>7 DEF MonthNumber, N
  <2>2. u \in Nat /\ y \in Nat /\ (y = Years => u = v) /\ (Years < y => v + L <= u)
    BY <1>4, <1>7, Product, QuotientOrder
  <2> HIDE DEF y, u, v
  <2>3. y < Years
    BY <1>2, <1>4, <1>7, <2>1, <2>2
  <2> QED
    BY <1>4, <2>2, <2>3 DEF y
<1>9. /\ tm.at[HOUR] \in 0..Length[HOUR] - 1 /\ tm.at[MIN] \in 0..Length[MIN] - 1
      /\ tm.at[SEC] \in 0..Length[SEC] - 1
      /\ t = Clock(day, tm.at[HOUR], tm.at[MIN], tm.at[SEC])
  BY <1>1, <1>3, ClockOf DEF day
<1>10. \A l \in TimeLevels : tm.at[l] \in 0..Length[l] - 1
  <2> TAKE l \in TimeLevels
  <2>1. l = SEC \/ l = MIN \/ l = HOUR \/ l = DAY \/ l = MONTH
    BY DEF TimeLevels, SEC, MIN, HOUR, DAY, MONTH
  <2> QED
    BY <1>6, <1>7, <1>9, <2>1
<1> QED
  BY <1>1, <1>2, <1>6, <1>7, <1>8, <1>9, <1>10 DEF day, N, tm

-----------------------------------------------------------------------------
(* One call of get_next_time.                                              *)

\* What the constructor accepts: some values at each level, all in range.
IsSchedule(s) ==
    \A l \in ScheduleLevels : s[l] \in SUBSET (0..Length[l] - 1) /\ s[l] # {}

\* The first date that the levels allow.
DateFound(s, from) == [l \in TimeLevels |-> FirstPossible(s, localtime[from].at)[l].value]
YearFound(s, from) == localtime[from].year + FirstPossible(s, localtime[from].at)[MONTH].carry

\* What each of the levels yields.
LEMMA LevelFacts ==
    ASSUME NEW s, IsSchedule(s), NEW from \in Seconds
    PROVE  LET at == localtime[from].at
               found == FirstPossible(s, at)
           IN  /\ LevelDone(s, at, SEC, 0, found[SEC])
               /\ LevelDone(s, at, MIN, found[SEC].carry, found[MIN])
               /\ LevelDone(s, at, HOUR, found[MIN].carry, found[HOUR])
               /\ LevelDone(s, at, DAY, found[HOUR].carry, found[DAY])
               /\ LevelDone(s, at, MONTH, found[DAY].carry, found[MONTH])
<1> DEFINE at == localtime[from].at
           found == FirstPossible(s, at)
<1>1. \A l \in TimeLevels : at[l] \in 0..Length[l] - 1
  BY LocalTime
<1>2. \A l \in TimeLevels : Length[l] \in Nat \ {0} /\ s[l] \in SUBSET (0..Length[l] - 1) /\ s[l] # {}
  BY Lengths DEF IsSchedule, TimeLevels, ScheduleLevels, SEC, MONTH, WDAY
<1>3. /\ found[SEC] = Found(s, at, SEC, 0)
      /\ \A l \in MIN..MONTH : found[l] = Found(s, at, l, found[l - 1].carry)
  BY LevelByLevel
<1> HIDE DEF at, found
<1>4. ASSUME NEW l \in TimeLevels, NEW c \in {0, 1}
      PROVE  LevelDone(s, at, l, c, Found(s, at, l, c))
  <2>1. Length[l] \in Nat \ {0} /\ at[l] \in 0..Length[l] - 1
    BY <1>1, <1>2
  <2>2. s[l] \in SUBSET (0..Length[l] - 1) /\ s[l] # {}
    BY <1>2
  <2> QED
    BY <2>1, <2>2, FoundFacts
<1>5. \A l, c, r : LevelDone(s, at, l, c, r) => r.carry \in {0, 1}
  BY DEF LevelDone
<1>6. ASSUME NEW l \in MIN..MONTH, found[l - 1].carry \in {0, 1}
      PROVE  LevelDone(s, at, l, found[l - 1].carry, found[l])
  <2>1. l \in TimeLevels
    BY DEF TimeLevels, SEC, MIN, MONTH
  <2> QED
    BY <1>3, <1>4, <1>6, <2>1
<1>7. /\ SEC \in TimeLevels /\ MIN \in MIN..MONTH /\ HOUR \in MIN..MONTH /\ DAY \in MIN..MONTH
      /\ MONTH \in MIN..MONTH
      /\ MIN - 1 = SEC /\ HOUR - 1 = MIN /\ DAY - 1 = HOUR /\ MONTH - 1 = DAY
  BY DEF TimeLevels, SEC, MIN, HOUR, DAY, MONTH
<1>8. LevelDone(s, at, SEC, 0, found[SEC])
  BY <1>3, <1>4, <1>7
<1>9. LevelDone(s, at, MIN, found[SEC].carry, found[MIN])
  BY <1>5, <1>6, <1>7, <1>8
<1>10. LevelDone(s, at, HOUR, found[MIN].carry, found[HOUR])
  BY <1>5, <1>6, <1>7, <1>9
<1>11. LevelDone(s, at, DAY, found[HOUR].carry, found[DAY])
  BY <1>5, <1>6, <1>7, <1>10
<1>12. LevelDone(s, at, MONTH, found[DAY].carry, found[MONTH])
  BY <1>5, <1>6, <1>7, <1>11
<1> QED
  BY <1>8, <1>9, <1>10, <1>11, <1>12 DEF at, found

\* Each part of it is allowed, and it is no earlier than `from': in a later
\* month, or on a later day of the month, or later that day.
LEMMA DateFacts ==
    ASSUME NEW s, IsSchedule(s), NEW from \in Seconds
    PROVE  LET tm == localtime[from]
               at == DateFound(s, from)
               k == MonthNumber(tm.year, tm.at)
               j == MonthNumber(YearFound(s, from), at)
           IN  /\ YearFound(s, from) \in Nat
               /\ \A l \in TimeLevels : at[l] \in s[l] /\ at[l] \in 0..Length[l] - 1
               /\ j \in 0..(Years + 1) * Length[MONTH] - 1
               /\ k <= j
               /\ k = j => /\ tm.at[DAY] <= at[DAY]
                           /\ tm.at[DAY] = at[DAY] =>
                                /\ tm.at[HOUR] <= at[HOUR]
                                /\ tm.at[HOUR] = at[HOUR] =>
                                     /\ tm.at[MIN] <= at[MIN]
                                     /\ tm.at[MIN] = at[MIN] => tm.at[SEC] <= at[SEC]
<1> DEFINE tm == localtime[from]
           now_at == tm.at
           found == FirstPossible(s, now_at)
           at == DateFound(s, from)
           L == Length[MONTH]
           k == MonthNumber(tm.year, tm.at)
           j == MonthNumber(YearFound(s, from), at)
<1>1. /\ tm.year \in 0..Years - 1
      /\ \A l \in TimeLevels : now_at[l] \in 0..Length[l] - 1
  BY LocalTime
<1>2. \A l \in TimeLevels : Length[l] \in Nat \ {0} /\ s[l] \in SUBSET (0..Length[l] - 1) /\ s[l] # {}
  BY Lengths DEF IsSchedule, TimeLevels, ScheduleLevels, SEC, MONTH, WDAY
<1>3. /\ LevelDone(s, now_at, SEC, 0, found[SEC])
      /\ LevelDone(s, now_at, MIN, found[SEC].carry, found[MIN])
      /\ LevelDone(s, now_at, HOUR, found[MIN].carry, found[HOUR])
      /\ LevelDone(s, now_at, DAY, found[HOUR].carry, found[DAY])
      /\ LevelDone(s, now_at, MONTH, found[DAY].carry, found[MONTH])
  BY LevelFacts
<1>4. \A l \in TimeLevels : at[l] = found[l].value
  BY DEF DateFound
<1>5. YearFound(s, from) = tm.year + found[MONTH].carry
  BY DEF YearFound
<1> HIDE DEF tm, found, at
<1> HIDE DEF now_at
<1> DEFINE Ok(l, c) == /\ found[l].value \in s[l] /\ found[l].carry \in {0, 1}
                       /\ (/\ \A i \in l + 1..MONTH : now_at[i] \in s[i]
                           /\ found[l].carry = 0) => found[l].value >= now_at[l] + c
<1>7. /\ SEC \in TimeLevels /\ MIN \in TimeLevels /\ HOUR \in TimeLevels
      /\ DAY \in TimeLevels /\ MONTH \in TimeLevels
  BY DEF TimeLevels, SEC, MIN, HOUR, DAY, MONTH
<1>8. Ok(SEC, 0)
  BY <1>3 DEF LevelDone
<1>10. Ok(MIN, found[SEC].carry)
  BY <1>3 DEF LevelDone
<1>11. Ok(HOUR, found[MIN].carry)
  BY <1>3 DEF LevelDone
<1>12. Ok(DAY, found[HOUR].carry)
  BY <1>3 DEF LevelDone
<1>13. Ok(MONTH, found[DAY].carry)
  BY <1>3 DEF LevelDone
<1>14. \A l \in TimeLevels : at[l] \in s[l] /\ at[l] \in 0..Length[l] - 1
  <2> TAKE l \in TimeLevels
  <2>1. l = SEC \/ l = MIN \/ l = HOUR \/ l = DAY \/ l = MONTH
    BY DEF TimeLevels, SEC, MIN, HOUR, DAY, MONTH
  <2>2. at[l] \in s[l]
    BY <1>4, <1>8, <1>10, <1>11, <1>12, <1>13, <2>1
  <2> QED
    BY <1>2, <2>2
<1> DEFINE cs == found[SEC].carry
           cm == found[MIN].carry
           ch == found[HOUR].carry
           cd == found[DAY].carry
           cy == found[MONTH].carry
<1>15. cs \in {0, 1} /\ cm \in {0, 1} /\ ch \in {0, 1} /\ cd \in {0, 1} /\ cy \in {0, 1}
  BY <1>8, <1>10, <1>11, <1>12, <1>13
<1>16. \A l \in TimeLevels : now_at[l] \in 0..Length[l] - 1 /\ at[l] \in Nat /\ now_at[l] \in Nat
  BY <1>1, <1>2, <1>14 DEF now_at
<1>17. cy = 0 => at[MONTH] >= now_at[MONTH] + cd
  <2>1. \A i \in MONTH + 1..MONTH : now_at[i] \in s[i]
    BY DEF MONTH
  <2> QED
    BY <1>4, <1>7, <1>13, <2>1
<1>18. now_at[MONTH] \in s[MONTH] /\ cd = 0 => at[DAY] >= now_at[DAY] + ch
  <2>1. \A i \in DAY + 1..MONTH : i = MONTH
    BY DEF MONTH, DAY
  <2> QED
    BY <1>4, <1>7, <1>12, <2>1
<1>19. now_at[MONTH] \in s[MONTH] /\ now_at[DAY] \in s[DAY] /\ ch = 0 => at[HOUR] >= now_at[HOUR] + cm
  <2>1. \A i \in HOUR + 1..MONTH : i = MONTH \/ i = DAY
    BY DEF MONTH, DAY, HOUR
  <2> QED
    BY <1>4, <1>7, <1>11, <2>1
<1>20. (/\ now_at[MONTH] \in s[MONTH] /\ now_at[DAY] \in s[DAY] /\ now_at[HOUR] \in s[HOUR]
        /\ cm = 0) => at[MIN] >= now_at[MIN] + cs
  <2> SUFFICES ASSUME now_at[MONTH] \in s[MONTH], now_at[DAY] \in s[DAY], now_at[HOUR] \in s[HOUR], cm = 0
               PROVE  at[MIN] >= now_at[MIN] + cs
    OBVIOUS
  <2>1. \A i \in MIN + 1..MONTH : i = MONTH \/ i = DAY \/ i = HOUR
    BY DEF MONTH, DAY, HOUR, MIN
  <2>2. \A i \in MIN + 1..MONTH : now_at[i] \in s[i]
    BY ONLY <2>1, now_at[MONTH] \in s[MONTH], now_at[DAY] \in s[DAY], now_at[HOUR] \in s[HOUR],
       Zenon
  <2>3. found[MIN].value >= now_at[MIN] + cs
    BY <1>10, <2>2
  <2> QED
    BY <1>4, <1>7, <2>3
<1>21. (/\ now_at[MONTH] \in s[MONTH] /\ now_at[DAY] \in s[DAY] /\ now_at[HOUR] \in s[HOUR]
        /\ now_at[MIN] \in s[MIN] /\ cs = 0) => at[SEC] >= now_at[SEC]
  <2> SUFFICES ASSUME now_at[MONTH] \in s[MONTH], now_at[DAY] \in s[DAY],
               now_at[HOUR] \in s[HOUR], now_at[MIN] \in s[MIN], cs = 0
               PROVE  at[SEC] >= now_at[SEC]
    OBVIOUS
  <2>1. \A i \in SEC + 1..MONTH : i = MONTH \/ i = DAY \/ i = HOUR \/ i = MIN
    BY DEF MONTH, DAY, HOUR, MIN, SEC
  <2>2. \A i \in SEC + 1..MONTH : now_at[i] \in s[i]
    BY ONLY <2>1, now_at[MONTH] \in s[MONTH], now_at[DAY] \in s[DAY], now_at[HOUR] \in s[HOUR],
       now_at[MIN] \in s[MIN], Zenon
  <2>3. found[SEC].value >= now_at[SEC] + 0
    BY <1>8, <2>2
  <2> QED
    BY <1>4, <1>7, <1>16, <2>3
<1> HIDE DEF Ok, cs, cm, ch, cd, cy
<1>22. /\ L \in Nat \ {0} /\ Years \in Nat /\ Years * L \in Nat
       /\ (Years + 1) * L = (Years * L) + L
  BY Lengths, ScheduleAssumption DEF ScheduleLevels, SEC, MONTH, WDAY
<1> DEFINE m == now_at[MONTH]
           f == at[MONTH]
           y == tm.year
           z == y + cy
<1>23. k = (y * L) + m /\ j = (z * L) + f
  BY <1>5 DEF MonthNumber, cy, now_at
<1>24. m \in 0..L - 1 /\ f \in 0..L - 1 /\ y \in 0..Years - 1 /\ z \in Nat /\ z <= Years
  BY <1>1, <1>7, <1>14, <1>15, <1>16, <1>22
<1> HIDE DEF L, m, f, y, k, j
<1>25. z * L = (y * L) + (cy * L) /\ y * L \in Nat
  <2>1. (y + cy) * L = (y * L) + (cy * L)
    BY <1>15, <1>22, <1>24, Z3
  <2> QED
    BY <1>22, <1>24, <2>1, Product
<1>26. cy * L = IF cy = 0 THEN 0 ELSE L
  BY <1>15, <1>22
<1>27. z * L <= Years * L
  <2>1. z < Years => (z * L) + L <= Years * L
    BY <1>22, <1>24, QuotientOrder
  <2> DEFINE p == z * L
             q == Years * L
  <2>2. p \in Nat /\ q \in Nat /\ L \in Nat
    BY <1>22, <1>24, Product
  <2>3. z = Years => p = q
    OBVIOUS
  <2>4. z = Years \/ z < Years
    BY <1>22, <1>24
  <2> HIDE DEF p, q, z
  <2> QED
    BY <2>1, <2>2, <2>3, <2>4 DEF p, q
<1> DEFINE p == z * L
           q == Years * L
           r == y * L
           x == cy * L
           n == (Years + 1) * L
<1>28. p \in Nat /\ q \in Nat /\ r \in Nat /\ n = q + L /\ p = r + x /\ p <= q
  BY <1>22, <1>24, <1>25, <1>27, Product
<1>29. k = r + m /\ j = p + f /\ (x = IF cy = 0 THEN 0 ELSE L)
  BY <1>23, <1>26
<1> HIDE DEF p, q, r, x, n, z
<1>30. j \in 0..n - 1
  BY <1>22, <1>24, <1>28, <1>29
<1>31. k <= j /\ (k = j => cy = 0 /\ m = f)
  <2>1. cy = 0 => f >= m + cd
    BY <1>17 DEF f, m
  <2>2. CASE cy = 0
    BY <1>15, <1>24, <1>28, <1>29, <2>1, <2>2
  <2>3. CASE cy # 0
    <3>1. r + m < (r + L) + f
      BY <1>22, <1>24, <1>28
    <3>2. k < j
      BY <1>28, <1>29, <2>3, <3>1
    <3> QED
      BY <1>24, <1>28, <1>29, <3>2
  <2> QED
    BY <2>2, <2>3
<1>32. ASSUME k = j
       PROVE  /\ now_at[DAY] <= at[DAY]
              /\ now_at[DAY] = at[DAY] =>
                   /\ now_at[HOUR] <= at[HOUR]
                   /\ now_at[HOUR] = at[HOUR] =>
                        /\ now_at[MIN] <= at[MIN]
                        /\ now_at[MIN] = at[MIN] => now_at[SEC] <= at[SEC]
  <2>1. now_at[MONTH] = at[MONTH] /\ cd = 0 /\ now_at[MONTH] \in s[MONTH]
    <3>1. cy = 0 /\ m = f
      BY <1>31, <1>32
    <3>2. f >= m + cd
      BY <1>17, <3>1 DEF f, m
    <3>3. cd = 0
      BY <1>15, <1>24, <3>1, <3>2
    <3> QED
      BY <1>7, <1>14, <3>1, <3>3 DEF m, f
  <2>2. at[DAY] >= now_at[DAY] + ch
    BY <1>18, <2>1
  <2>3. now_at[DAY] <= at[DAY]
    BY <1>7, <1>15, <1>16, <2>2
  <2>4. ASSUME now_at[DAY] = at[DAY]
        PROVE  now_at[DAY] \in s[DAY] /\ at[HOUR] >= now_at[HOUR] + cm /\ now_at[HOUR] <= at[HOUR]
    <3>1. ch = 0 /\ now_at[DAY] \in s[DAY]
      BY <1>7, <1>14, <1>15, <1>16, <2>2, <2>4
    <3>2. at[HOUR] >= now_at[HOUR] + cm
      BY <1>19, <2>1, <3>1
    <3> QED
      BY <1>7, <1>15, <1>16, <3>1, <3>2
  <2>5. ASSUME now_at[DAY] = at[DAY], now_at[HOUR] = at[HOUR]
        PROVE  now_at[HOUR] \in s[HOUR] /\ at[MIN] >= now_at[MIN] + cs /\ now_at[MIN] <= at[MIN]
    <3>1. cm = 0 /\ now_at[HOUR] \in s[HOUR]
      BY <1>7, <1>14, <1>15, <1>16, <2>4, <2>5
    <3>2. at[MIN] >= now_at[MIN] + cs
      BY <1>20, <2>1, <2>4, <2>5, <3>1
    <3> QED
      BY <1>7, <1>15, <1>16, <3>1, <3>2
  <2>6. ASSUME now_at[DAY] = at[DAY], now_at[HOUR] = at[HOUR], now_at[MIN] = at[MIN]
        PROVE  now_at[SEC] <= at[SEC]
    <3>1. cs = 0 /\ now_at[MIN] \in s[MIN]
      BY <1>7, <1>14, <1>15, <1>16, <2>5, <2>6
    <3>2. at[SEC] >= now_at[SEC]
      BY <1>21, <2>1, <2>4, <2>5, <2>6, <3>1
    <3> QED
      BY <1>7, <1>16, <3>2
  <2> QED
    BY <2>3, <2>4, <2>5, <2>6
<1>33. YearFound(s, from) \in Nat
  BY <1>5, <1>24 DEF z, y, cy
<1> QED
  BY <1>14, <1>30, <1>31, <1>32, <1>33 DEF n, k, j, L, now_at, tm, at

\* The date found, against a date of the schedule: if that date is no earlier
\* than `from', the date found is no later than it; and if the date found is on
\* another day than `from', it has the first hour, minute and second allowed.
LEMMA LeastDate ==
    ASSUME NEW s, IsSchedule(s), NEW from \in Seconds,
           NEW u, \A l \in TimeLevels : u[l] \in s[l], NEW yt \in Nat
    PROVE  LET now_at == localtime[from].at
               at == DateFound(s, from)
               k == MonthNumber(localtime[from].year, now_at)
               j == MonthNumber(YearFound(s, from), at)
               kt == MonthNumber(yt, u)
           IN  /\ (\/ k < kt
                   \/ /\ k = kt
                      /\ \/ now_at[DAY] < u[DAY]
                         \/ /\ now_at[DAY] = u[DAY]
                            /\ \/ now_at[HOUR] < u[HOUR]
                               \/ /\ now_at[HOUR] = u[HOUR]
                                  /\ \/ now_at[MIN] < u[MIN]
                                     \/ now_at[MIN] = u[MIN] /\ now_at[SEC] <= u[SEC])
                  => /\ j <= kt
                     /\ j = kt =>
                          /\ at[DAY] <= u[DAY]
                          /\ at[DAY] = u[DAY] =>
                               /\ at[HOUR] <= u[HOUR]
                               /\ at[HOUR] = u[HOUR] =>
                                    /\ at[MIN] <= u[MIN]
                                    /\ at[MIN] = u[MIN] => at[SEC] <= u[SEC]
               /\ ~ (k = j /\ now_at[DAY] = at[DAY]) =>
                    at[HOUR] <= u[HOUR] /\ at[MIN] <= u[MIN] /\ at[SEC] <= u[SEC]
<1> DEFINE tm == localtime[from]
           now_at == tm.at
           found == FirstPossible(s, now_at)
           at == DateFound(s, from)
           L == Length[MONTH]
           k == MonthNumber(tm.year, now_at)
           j == MonthNumber(YearFound(s, from), at)
           kt == MonthNumber(yt, u)
<1>1. tm.year \in 0..Years - 1 /\ \A l \in TimeLevels : now_at[l] \in 0..Length[l] - 1
  BY LocalTime
<1>2. \A l \in TimeLevels : Length[l] \in Nat \ {0} /\ s[l] \in SUBSET (0..Length[l] - 1)
  BY Lengths DEF IsSchedule, TimeLevels, ScheduleLevels, SEC, MONTH, WDAY
<1>3. /\ LevelDone(s, now_at, SEC, 0, found[SEC])
      /\ LevelDone(s, now_at, MIN, found[SEC].carry, found[MIN])
      /\ LevelDone(s, now_at, HOUR, found[MIN].carry, found[HOUR])
      /\ LevelDone(s, now_at, DAY, found[HOUR].carry, found[DAY])
      /\ LevelDone(s, now_at, MONTH, found[DAY].carry, found[MONTH])
  BY LevelFacts
<1>4. \A l \in TimeLevels : at[l] = found[l].value
  BY DEF DateFound
<1>5. YearFound(s, from) = tm.year + found[MONTH].carry
  BY DEF YearFound
<1> HIDE DEF tm, now_at, found, at
<1>6. /\ SEC \in TimeLevels /\ MIN \in TimeLevels /\ HOUR \in TimeLevels
      /\ DAY \in TimeLevels /\ MONTH \in TimeLevels
  BY DEF TimeLevels, SEC, MIN, HOUR, DAY, MONTH
<1> DEFINE nS == now_at[SEC]
           nN == now_at[MIN]
           nH == now_at[HOUR]
           nD == now_at[DAY]
           nM == now_at[MONTH]
           fS == at[SEC]
           fN == at[MIN]
           fH == at[HOUR]
           fD == at[DAY]
           fM == at[MONTH]
           uS == u[SEC]
           uN == u[MIN]
           uH == u[HOUR]
           uD == u[DAY]
           uM == u[MONTH]
           cs == found[SEC].carry
           cm == found[MIN].carry
           ch == found[HOUR].carry
           cd == found[DAY].carry
           cy == found[MONTH].carry
           iN == nN \in s[MIN]
           iH == nH \in s[HOUR]
           iD == nD \in s[DAY]
           iM == nM \in s[MONTH]
<1> DEFINE Level(valid, ok, f, n, v, cin, c) ==
             /\ c \in {0, 1}
             /\ valid /\ c = 0 => f >= n + cin
             /\ c = 1 => valid
             /\ ~ valid \/ c = 1 => f <= v
             /\ valid /\ v >= n + cin => c = 0 /\ f <= v
             /\ valid /\ ok /\ n >= n + cin => c = 0 /\ f <= n
             /\ f = n => ok
<1>7. ASSUME NEW l \in TimeLevels, NEW c, LevelDone(s, now_at, l, c, found[l])
      PROVE  Level(\A i \in l + 1..MONTH : now_at[i] \in s[i], now_at[l] \in s[l],
                   at[l], now_at[l], u[l], c, found[l].carry)
  <2>1. u[l] \in s[l] /\ at[l] = found[l].value
    BY <1>4
  <2> HIDE DEF Level
  <2> QED
    BY <1>7, <2>1 DEF LevelDone, Level
<1>8. /\ Level(\A i \in SEC + 1..MONTH : now_at[i] \in s[i], nS \in s[SEC], fS, nS, uS, 0, cs)
      /\ Level(\A i \in MIN + 1..MONTH : now_at[i] \in s[i], iN, fN, nN, uN, cs, cm)
      /\ Level(\A i \in HOUR + 1..MONTH : now_at[i] \in s[i], iH, fH, nH, uH, cm, ch)
      /\ Level(\A i \in DAY + 1..MONTH : now_at[i] \in s[i], iD, fD, nD, uD, ch, cd)
      /\ Level(\A i \in MONTH + 1..MONTH : now_at[i] \in s[i], iM, fM, nM, uM, cd, cy)
  <2> HIDE DEF Level
  <2> QED
    BY <1>3, <1>6, <1>7
<1>9. /\ (\A i \in SEC + 1..MONTH : now_at[i] \in s[i]) <=> (iM /\ iD /\ iH /\ iN)
      /\ (\A i \in MIN + 1..MONTH : now_at[i] \in s[i]) <=> (iM /\ iD /\ iH)
      /\ (\A i \in HOUR + 1..MONTH : now_at[i] \in s[i]) <=> (iM /\ iD)
      /\ (\A i \in DAY + 1..MONTH : now_at[i] \in s[i]) <=> iM
      /\ (\A i \in MONTH + 1..MONTH : now_at[i] \in s[i])
  <2>1. /\ \A i : i \in SEC + 1..MONTH <=> i \in {MONTH, DAY, HOUR, MIN}
        /\ \A i : i \in MIN + 1..MONTH <=> i \in {MONTH, DAY, HOUR}
        /\ \A i : i \in HOUR + 1..MONTH <=> i \in {MONTH, DAY}
        /\ \A i : i \in DAY + 1..MONTH <=> i \in {MONTH}
        /\ \A i : i \notin MONTH + 1..MONTH
    BY DEF SEC, MIN, HOUR, DAY, MONTH
  <2> QED
    BY <2>1, Zenon
<1>10. /\ \A l \in TimeLevels : now_at[l] \in Nat /\ at[l] \in Nat /\ u[l] \in Nat
       /\ nM \in 0..L - 1 /\ fM \in 0..L - 1 /\ uM \in 0..L - 1
  <2>1. \A l \in TimeLevels : at[l] \in 0..Length[l] - 1
    BY DateFacts DEF at
  <2>2. \A l \in TimeLevels : u[l] \in 0..Length[l] - 1
    BY <1>2
  <2> QED
    BY <1>1, <1>2, <1>6, <2>1, <2>2 DEF now_at
<1>11. /\ nS \in Nat /\ nN \in Nat /\ nH \in Nat /\ nD \in Nat /\ nM \in Nat
       /\ fS \in Nat /\ fN \in Nat /\ fH \in Nat /\ fD \in Nat /\ fM \in Nat
       /\ uS \in Nat /\ uN \in Nat /\ uH \in Nat /\ uD \in Nat /\ uM \in Nat
  BY <1>6, <1>10
<1>12. L \in Nat \ {0} /\ tm.year \in Nat /\ k \in Nat /\ kt \in Nat /\ k <= j /\ j \in Nat
  <2>1. L \in Nat \ {0} /\ tm.year \in Nat /\ Years \in Nat
    BY <1>1, <1>2, <1>6, ScheduleAssumption
  <2>2. tm.year * L \in Nat /\ yt * L \in Nat
    BY <2>1, Product
  <2>3. k <= j /\ j \in 0..(Years + 1) * Length[MONTH] - 1
    BY DateFacts DEF k, j, tm, now_at, at
  <2>4. k = (tm.year * L) + nM /\ kt = (yt * L) + uM
    BY DEF MonthNumber, k, kt, now_at
  <2>5. k \in Nat /\ kt \in Nat
    BY <1>11, <2>2, <2>4
  <2>6. j \in Nat
    BY <2>3, Lengths
  <2> QED
    BY <2>1, <2>3, <2>5, <2>6
<1>13. k = (tm.year * L) + nM /\ j = ((tm.year + cy) * L) + fM /\ kt = (yt * L) + uM
  BY <1>5 DEF MonthNumber, k, j, kt, now_at
<1> HIDE DEF nS, nN, nH, nD, nM, fS, fN, fH, fD, fM, uS, uN, uH, uD, uM, cs, cm, ch, cd, cy,
             iN, iH, iD, iM, k, j, kt, L
<1>14. /\ Level(iM /\ iD /\ iH /\ iN, nS \in s[SEC], fS, nS, uS, 0, cs)
       /\ Level(iM /\ iD /\ iH, iN, fN, nN, uN, cs, cm)
       /\ Level(iM /\ iD, iH, fH, nH, uH, cm, ch)
       /\ Level(iM, iD, fD, nD, uD, ch, cd)
       /\ Level(TRUE, iM, fM, nM, uM, cd, cy)
  BY <1>8, <1>9
<1>15. cs \in {0, 1} /\ cm \in {0, 1} /\ ch \in {0, 1} /\ cd \in {0, 1} /\ cy \in {0, 1}
  BY <1>14
<1>16. /\ cy = 0 => fM >= nM + cd
       /\ cy = 1 => fM <= uM
       /\ uM >= nM + cd => cy = 0 /\ fM <= uM
       /\ iM /\ nM >= nM + cd => cy = 0 /\ fM <= nM
       /\ fM = nM => iM
  BY <1>14
<1> DEFINE y == tm.year
           X == y * L
           T == yt * L
<1>17. /\ X \in Nat /\ T \in Nat
       /\ (yt < y => T + L <= X) /\ (y < yt => X + L <= T) /\ (yt = y => T = X)
  BY <1>12, Product, QuotientOrder
<1>18. k = X + nM /\ kt = T + uM /\ j = (IF cy = 0 THEN X ELSE X + L) + fM
  <2>1. cy = 0 => (y + cy) * L = X
    BY <1>12
  <2>2. cy = 1 => (y + cy) * L = X + L
    <3>1. (y + 1) * L = (y * L) + L
      BY <1>12, Z3
    <3> QED
      BY <3>1
  <2>3. j = ((y + cy) * L) + fM
    BY <1>13
  <2>4. k = X + nM /\ kt = T + uM
    BY <1>13
  <2>5. cy = 0 => j = X + fM
    BY <2>1, <2>3
  <2>6. cy = 1 => j = (X + L) + fM
    BY <2>2, <2>3
  <2> HIDE DEF X, T
  <2> QED
    BY <1>15, <2>4, <2>5, <2>6
<1> HIDE DEF X, T, y
<1>19. nM < L /\ fM < L /\ uM < L /\ L \in Nat /\ y \in Nat
  <2>1. L \in Nat /\ y \in Nat
    BY <1>12 DEF y
  <2>2. nM \in 0..L - 1 /\ fM \in 0..L - 1 /\ uM \in 0..L - 1
    BY <1>10 DEF nM, fM, uM
  <2> QED
    BY <2>1, <2>2
<1> HIDE DEF Level
<1>20. kt >= k + cd => j <= kt
  <2> SUFFICES ASSUME kt >= k + cd PROVE j <= kt
    OBVIOUS
  <2>1. ~ (yt < y)
    BY <1>11, <1>15, <1>17, <1>18, <1>19
  <2>2. CASE yt = y
    <3>1. uM >= nM + cd
      BY <1>11, <1>15, <1>17, <1>18, <2>2
    <3>2. cy = 0 /\ fM <= uM
      BY <1>16, <3>1
    <3> QED
      BY <1>11, <1>17, <1>18, <2>2, <3>2
  <2>3. CASE y < yt
    <3>1. CASE cy = 0
      BY <1>11, <1>17, <1>18, <1>19, <2>3, <3>1
    <3>2. CASE cy = 1
      BY <1>11, <1>16, <1>17, <1>18, <1>19, <2>3, <3>2
    <3> QED
      BY <1>15, <3>1, <3>2
  <2> QED
    BY <1>19, <2>1, <2>2, <2>3
<1>21. iM /\ cd = 0 => j = k
  <2> SUFFICES ASSUME iM, cd = 0 PROVE j = k
    OBVIOUS
  <2>1. cy = 0 /\ fM <= nM
    BY <1>11, <1>16
  <2>2. fM = nM
    BY <1>11, <1>16, <2>1
  <2> QED
    BY <1>18, <2>1, <2>2
<1>22. j = k => iM /\ cd = 0
  <2> SUFFICES ASSUME j = k PROVE iM /\ cd = 0
    OBVIOUS
  <2>1. cy = 0
    BY <1>11, <1>15, <1>17, <1>18, <1>19
  <2>2. fM = nM
    BY <1>11, <1>17, <1>18, <2>1
  <2>3. cd = 0
    BY <1>11, <1>15, <1>16, <2>1, <2>2
  <2> QED
    BY <1>16, <2>2, <2>3
\* Nothing is carried if the date is no earlier in the lower levels.
<1>23. cs = 1 => uS < nS
  BY <1>11, <1>14 DEF Level
<1>24. cm = 1 => uN < nN \/ (uN = nN /\ uS < nS)
  <2>1. cm = 1 => ~ (uN >= nN + cs)
    BY <1>14 DEF Level
  <2> QED
    BY <1>11, <1>15, <1>23, <2>1
<1>25. ch = 1 => uH < nH \/ (uH = nH /\ (uN < nN \/ (uN = nN /\ uS < nS)))
  <2>1. ch = 1 => ~ (uH >= nH + cm)
    BY <1>14 DEF Level
  <2> QED
    BY <1>11, <1>15, <1>24, <2>1
<1>26. cd = 1 => uD < nD \/ (uD = nD /\ (uH < nH \/ (uH = nH /\ (uN < nN \/ (uN = nN /\ uS < nS)))))
  <2>1. cd = 1 => ~ (uD >= nD + ch)
    BY <1>14 DEF Level
  <2> QED
    BY <1>11, <1>15, <1>25, <2>1
\* A level to which nothing is carried, and the levels above it, stay.
<1>27. iM /\ iD /\ ch = 0 => cd = 0 /\ fD = nD /\ j = k
  <2> SUFFICES ASSUME iM, iD, ch = 0 PROVE cd = 0 /\ fD = nD /\ j = k
    OBVIOUS
  <2>1. cd = 0 /\ fD <= nD
    BY <1>11, <1>14 DEF Level
  <2>2. fD >= nD + ch
    BY <1>14, <2>1 DEF Level
  <2> QED
    BY <1>11, <1>21, <2>1, <2>2
<1>28. iM /\ iD /\ iH /\ cm = 0 => ch = 0 /\ fH = nH
  <2> SUFFICES ASSUME iM, iD, iH, cm = 0 PROVE ch = 0 /\ fH = nH
    OBVIOUS
  <2>1. ch = 0 /\ fH <= nH
    BY <1>11, <1>14 DEF Level
  <2>2. fH >= nH + cm
    BY <1>14, <2>1 DEF Level
  <2> QED
    BY <1>11, <2>1, <2>2
<1>29. iM /\ iD /\ iH /\ iN /\ cs = 0 => cm = 0 /\ fN = nN
  <2> SUFFICES ASSUME iM, iD, iH, iN, cs = 0 PROVE cm = 0 /\ fN = nN
    OBVIOUS
  <2>1. cm = 0 /\ fN <= nN
    BY <1>11, <1>14 DEF Level
  <2>2. fN >= nN + cs
    BY <1>14, <2>1 DEF Level
  <2> QED
    BY <1>11, <2>1, <2>2
\* A level below one that moves has the first value allowed.
<1>30. ~ (iM /\ cd = 0) => fD <= uD
  BY <1>14, <1>15 DEF Level
<1>31. ~ (iM /\ iD /\ ch = 0) => fH <= uH
  BY <1>14, <1>15 DEF Level
<1>32. ~ (iM /\ iD /\ iH /\ cm = 0) => fN <= uN
  BY <1>14, <1>15 DEF Level
<1>33. ~ (iM /\ iD /\ iH /\ iN /\ cs = 0) => fS <= uS
  BY <1>14, <1>15 DEF Level
<1>34. ~ (k = j /\ nD = fD) => fH <= uH /\ fN <= uN /\ fS <= uS
  BY <1>27, <1>28, <1>29, <1>31, <1>32, <1>33
<1> DEFINE LaterS == nS <= uS
           LaterN == nN < uN \/ (nN = uN /\ LaterS)
           LaterH == nH < uH \/ (nH = uH /\ LaterN)
           LaterD == nD < uD \/ (nD = uD /\ LaterH)
<1>35. ASSUME k < kt \/ (k = kt /\ LaterD)
       PROVE  /\ j <= kt
              /\ j = kt =>
                   /\ fD <= uD
                   /\ fD = uD =>
                        /\ fH <= uH
                        /\ fH = uH =>
                             /\ fN <= uN
                             /\ fN = uN => fS <= uS
  <2>1. j <= kt
    <3>1. ASSUME k = kt PROVE cd = 0
      <4>1. LaterD
        BY <1>12, <1>35, <3>1
      <4>2. ~ (uD < nD) /\ ~ (uD = nD /\ ~ LaterH)
        BY <1>11, <4>1
      <4>3. ~ (uD < nD \/ (uD = nD /\ (uH < nH \/ (uH = nH /\ (uN < nN \/ (uN = nN /\ uS < nS))))))
        BY <1>11, <4>2
      <4>4. cd # 1
        BY <1>26, <4>3
      <4> QED
        BY <1>15, <4>4
    <3>2. kt >= k + cd
      BY <1>12, <1>15, <1>35, <3>1
    <3> QED
      BY <1>20, <3>2
  <2>2. ASSUME j = kt PROVE fD <= uD
    <3> SUFFICES ASSUME iM, cd = 0 PROVE fD <= uD
      BY <1>30
    <3>1. LaterD
      BY <1>12, <1>21, <1>35, <2>2
    <3>2. uD >= nD + ch
      BY <1>11, <1>15, <1>25, <3>1
    <3> QED
      BY <1>14, <3>2 DEF Level
  <2>3. ASSUME j = kt, fD = uD PROVE fH <= uH
    <3> SUFFICES ASSUME iM, iD, ch = 0 PROVE fH <= uH
      BY <1>31
    <3>1. LaterH
      BY <1>11, <1>12, <1>27, <1>35, <2>3
    <3>2. uH >= nH + cm
      BY <1>11, <1>15, <1>24, <3>1
    <3> QED
      BY <1>14, <3>2 DEF Level
  <2>4. ASSUME j = kt, fD = uD, fH = uH PROVE fN <= uN
    <3> SUFFICES ASSUME iM, iD, iH, cm = 0 PROVE fN <= uN
      BY <1>32
    <3>1. LaterN
      BY <1>11, <1>12, <1>27, <1>28, <1>35, <2>4
    <3>2. uN >= nN + cs
      BY <1>11, <1>15, <1>23, <3>1
    <3> QED
      BY <1>14, <3>2 DEF Level
  <2>5. ASSUME j = kt, fD = uD, fH = uH, fN = uN PROVE fS <= uS
    <3> SUFFICES ASSUME iM, iD, iH, iN, cs = 0 PROVE fS <= uS
      BY <1>33
    <3>1. LaterS
      BY <1>11, <1>12, <1>27, <1>28, <1>29, <1>35, <2>5
    <3>2. uS >= nS + 0
      BY <1>11, <3>1
    <3> QED
      BY <1>14, <3>2 DEF Level
  <2> QED
    BY <2>1, <2>2, <2>3, <2>4, <2>5
<1> QED
  BY <1>34, <1>35 DEF k, j, kt, nS, nN, nH, nD, fS, fN, fH, fD, uS, uN, uH, uD, tm, now_at, at

\* mktime puts a date together as the clock does.
LEMMA MktimeClock ==
    ASSUME NEW year, NEW at,
           MonthStart[MonthNumber(year, at)] + at[DAY] \in Nat,
           at[HOUR] \in Nat, at[MIN] \in Nat, at[SEC] \in Nat
    PROVE  /\ mktime(year, at) = Clock(MonthStart[MonthNumber(year, at)] + at[DAY],
                                       at[HOUR], at[MIN], at[SEC])
           /\ mktime(year, at) \in Nat
<1> DEFINE day == MonthStart[MonthNumber(year, at)] + at[DAY]
<1>1. mktime(year, at) = (day * DaySeconds) + (((at[HOUR] * Length[MIN]) + at[MIN]) * Length[SEC]) + at[SEC]
  BY DEF mktime, MonthNumber
<1>2. day \in Nat
  OBVIOUS
<1> HIDE DEF day
<1>3. /\ (day * DaySeconds) + (((at[HOUR] * Length[MIN]) + at[MIN]) * Length[SEC]) + at[SEC]
           = Clock(day, at[HOUR], at[MIN], at[SEC])
      /\ Clock(day, at[HOUR], at[MIN], at[SEC]) \in Nat
  BY <1>2, ClockSum
<1> QED
  BY <1>1, <1>3 DEF day

\* The second of the date found is not before `from'.  It is on a later day,
\* or the date found is a day of the same month, and the same day of it.
LEMMA FirstFacts ==
    ASSUME NEW s, IsSchedule(s), NEW from \in Seconds
    PROVE  LET at == DateFound(s, from)
               first == mktime(YearFound(s, from), at)
           IN  /\ first \in Nat /\ first >= from
               /\ first \div DaySeconds \in Nat /\ first \div DaySeconds >= from \div DaySeconds
               /\ first \div DaySeconds = from \div DaySeconds =>
                    /\ localtime[from].at[MONTH] = at[MONTH]
                    /\ localtime[from].at[DAY] = at[DAY]
               /\ \A l \in {SEC, MIN, HOUR} : first \in Seconds => localtime[first].at[l] = at[l]
<1> DEFINE tm == localtime[from]
           at == DateFound(s, from)
           L == Length[MONTH]
           k == MonthNumber(tm.year, tm.at)
           j == MonthNumber(YearFound(s, from), at)
           first == mktime(YearFound(s, from), at)
           today == from \div DaySeconds
           n == (Years + 1) * L
           day == MonthStart[j] + at[DAY]
<1>1. /\ tm.year \in 0..Years - 1
      /\ \A l \in TimeLevels : tm.at[l] \in 0..Length[l] - 1
      /\ k \in 0..Years * L - 1
      /\ today \in Nat /\ MonthStart[k] + tm.at[DAY] = today /\ today < MonthStart[k + 1]
      /\ from = Clock(today, tm.at[HOUR], tm.at[MIN], tm.at[SEC])
  BY LocalTime
<1>2. /\ YearFound(s, from) \in Nat
      /\ \A l \in TimeLevels : at[l] \in 0..Length[l] - 1
      /\ j \in 0..n - 1
      /\ k <= j
      /\ k = j => /\ tm.at[DAY] <= at[DAY]
                  /\ tm.at[DAY] = at[DAY] =>
                       /\ tm.at[HOUR] <= at[HOUR]
                       /\ tm.at[HOUR] = at[HOUR] =>
                            /\ tm.at[MIN] <= at[MIN]
                            /\ tm.at[MIN] = at[MIN] => tm.at[SEC] <= at[SEC]
  BY DateFacts
<1>3. /\ L \in Nat \ {0} /\ Years \in Nat /\ Years * L \in Nat /\ n = (Years * L) + L
      /\ \A l \in TimeLevels : Length[l] \in Nat \ {0}
  BY Lengths, ScheduleAssumption DEF ScheduleLevels, TimeLevels, SEC, MONTH, WDAY
<1>4. /\ SEC \in TimeLevels /\ MIN \in TimeLevels /\ HOUR \in TimeLevels
      /\ DAY \in TimeLevels /\ MONTH \in TimeLevels
  BY DEF TimeLevels, SEC, MIN, HOUR, DAY, MONTH
<1>5. tm.year \in Nat
  BY <1>1, <1>3
<1>6. k = (tm.year * L) + tm.at[MONTH] /\ j = (YearFound(s, from) * L) + at[MONTH]
  BY DEF MonthNumber
<1> HIDE DEF tm, at, L, k, j, first, today, n
<1>7. k \in 0..n /\ j \in 0..n /\ k + 1 \in 0..n
  BY <1>1, <1>2, <1>3
<1>8. MonthStart[k] \in Nat /\ MonthStart[j] \in Nat /\ MonthStart[k + 1] \in Nat
  BY <1>7, MonthsFollow DEF n, L
<1>9. day \in Nat /\ at[DAY] \in Nat /\ tm.at[DAY] \in Nat
  BY <1>1, <1>2, <1>3, <1>4, <1>8
<1>10. k < j => today < day
  <2>1. k < j => MonthStart[k + 1] <= MonthStart[j]
    BY <1>7, MonthsInOrder DEF n, L
  <2> QED
    BY <1>1, <1>8, <1>9, <2>1
<1>11. k = j => day - today = at[DAY] - tm.at[DAY] /\ today <= day
  BY <1>1, <1>2, <1>8, <1>9
<1>12. today <= day /\ (today = day => k = j /\ tm.at[DAY] = at[DAY])
  <2>1. k = j \/ k < j
    BY <1>2, <1>7
  <2> QED
    BY <1>1, <1>9, <1>10, <1>11, <2>1
<1>13. at[HOUR] \in 0..Length[HOUR] - 1 /\ at[MIN] \in 0..Length[MIN] - 1 /\ at[SEC] \in 0..Length[SEC] - 1
  BY <1>2, <1>4
<1>14. tm.at[HOUR] \in 0..Length[HOUR] - 1 /\ tm.at[MIN] \in 0..Length[MIN] - 1 /\ tm.at[SEC] \in 0..Length[SEC] - 1
  BY <1>1, <1>4
<1>15. first = Clock(day, at[HOUR], at[MIN], at[SEC]) /\ first \in Nat
  <2>1. MonthStart[MonthNumber(YearFound(s, from), at)] + at[DAY] \in Nat
    BY <1>9 DEF j
  <2>2. at[HOUR] \in Nat /\ at[MIN] \in Nat /\ at[SEC] \in Nat
    BY <1>13
  <2> QED
    BY <2>1, <2>2, MktimeClock DEF first, j
<1> HIDE DEF day
<1>16. /\ first % Length[SEC] = at[SEC]
       /\ (first \div Length[SEC]) % Length[MIN] = at[MIN]
       /\ (first \div (Length[SEC] * Length[MIN])) % Length[HOUR] = at[HOUR]
       /\ first \div DaySeconds = day
  BY <1>9, <1>13, <1>15, ClockParts
<1>17. \/ today < day
       \/ today = day /\ tm.at[HOUR] < at[HOUR]
       \/ today = day /\ tm.at[HOUR] = at[HOUR] /\ tm.at[MIN] < at[MIN]
       \/ today = day /\ tm.at[HOUR] = at[HOUR] /\ tm.at[MIN] = at[MIN] /\ tm.at[SEC] <= at[SEC]
  <2>1. today = day => tm.at[HOUR] <= at[HOUR]
    BY <1>2, <1>12
  <2>2. today = day /\ tm.at[HOUR] = at[HOUR] => tm.at[MIN] <= at[MIN]
    BY <1>2, <1>12
  <2>3. today = day /\ tm.at[HOUR] = at[HOUR] /\ tm.at[MIN] = at[MIN] => tm.at[SEC] <= at[SEC]
    BY <1>2, <1>12
  <2> DEFINE h == tm.at[HOUR]
             h2 == at[HOUR]
             m == tm.at[MIN]
             m2 == at[MIN]
  <2>4. h \in Nat /\ h2 \in Nat /\ m \in Nat /\ m2 \in Nat
    BY <1>3, <1>4, <1>13, <1>14
  <2> HIDE DEF h, h2, m, m2
  <2> QED
    BY <1>1, <1>9, <1>12, <2>1, <2>2, <2>3, <2>4 DEF h, h2, m, m2
<1>18. Clock(today, tm.at[HOUR], tm.at[MIN], tm.at[SEC]) <= Clock(day, at[HOUR], at[MIN], at[SEC])
  BY <1>1, <1>9, <1>13, <1>14, <1>17, ClockOrder
<1>19. first >= from
  BY <1>1, <1>15, <1>18, DayOfSecond
<1>20. k = j => tm.at[MONTH] = at[MONTH]
  <2> DEFINE y == tm.year
             z == YearFound(s, from)
             u == tm.at[MONTH]
             v == at[MONTH]
  <2>1. y \in Nat /\ z \in Nat /\ u \in 0..L - 1 /\ v \in 0..L - 1
    BY <1>1, <1>2, <1>4, <1>5 DEF L
  <2>2. k = (y * L) + u /\ j = (z * L) + v
    BY <1>6
  <2> HIDE DEF y, z, u, v
  <2>3. ((y * L) + u) % L = u /\ ((z * L) + v) % L = v
    BY <1>3, <2>1, Composed
  <2> QED
    BY <2>2, <2>3 DEF u, v
<1>21. ASSUME first \in Seconds
       PROVE  /\ localtime[first].at[SEC] = at[SEC] /\ localtime[first].at[MIN] = at[MIN]
              /\ localtime[first].at[HOUR] = at[HOUR]
  <2>1. /\ localtime[first].at[HOUR] = (first \div (Length[SEC] * Length[MIN])) % Length[HOUR]
        /\ localtime[first].at[MIN] = (first \div Length[SEC]) % Length[MIN]
        /\ localtime[first].at[SEC] = first % Length[SEC]
    BY <1>21 DEF localtime, TimeLevels, SEC, MIN, HOUR, DAY, MONTH
  <2> QED
    BY <1>16, <2>1
<1>22. first \div DaySeconds \in Nat /\ first \div DaySeconds >= today
  BY <1>1, <1>9, <1>12, <1>16
<1>23. first \div DaySeconds = today => tm.at[MONTH] = at[MONTH] /\ tm.at[DAY] = at[DAY]
  BY <1>12, <1>16, <1>20
<1> QED
  BY <1>15, <1>19, <1>21, <1>22, <1>23 DEF first, today, tm, at

\* The next day, for which the hours and minutes are reset, is later.
LEMMA NextDay ==
    ASSUME NEW t \in Seconds
    PROVE  LET tm == localtime[t]
               next_day == mktime(tm.year, [tm.at EXCEPT ![MIN] = 0, ![HOUR] = 0, ![DAY] = @ + 1])
           IN  /\ next_day \in Nat /\ next_day > t
               /\ next_day = Clock((t \div DaySeconds) + 1, 0, 0, tm.at[SEC])
<1> DEFINE tm == localtime[t]
           at == [tm.at EXCEPT ![MIN] = 0, ![HOUR] = 0, ![DAY] = @ + 1]
           k == MonthNumber(tm.year, tm.at)
           today == t \div DaySeconds
<1>1. /\ \A l \in TimeLevels : tm.at[l] \in 0..Length[l] - 1
      /\ k \in 0..Years * Length[MONTH] - 1
      /\ today \in Nat /\ MonthStart[k] + tm.at[DAY] = today
      /\ t = Clock(today, tm.at[HOUR], tm.at[MIN], tm.at[SEC])
  BY LocalTime
<1>2. DOMAIN tm.at = TimeLevels
  BY DEF localtime
<1>3. MonthStart[k] \in Nat
  <2>1. k \in 0..(Years + 1) * Length[MONTH]
    BY <1>1, Lengths DEF ScheduleLevels, SEC, MONTH, WDAY
  <2> QED
    BY <2>1, MonthsFollow
<1>4. \A l \in TimeLevels : Length[l] \in Nat \ {0}
  BY Lengths DEF ScheduleLevels, TimeLevels, SEC, MONTH, WDAY
<1> HIDE DEF tm, k, today
<1>5. at[MIN] = 0 /\ at[HOUR] = 0 /\ at[DAY] = tm.at[DAY] + 1 /\ at[SEC] = tm.at[SEC]
      /\ at[MONTH] = tm.at[MONTH]
  BY <1>2 DEF TimeLevels, SEC, MIN, HOUR, DAY, MONTH
<1>6. /\ tm.at[HOUR] \in 0..Length[HOUR] - 1 /\ tm.at[MIN] \in 0..Length[MIN] - 1
      /\ tm.at[SEC] \in 0..Length[SEC] - 1 /\ tm.at[DAY] \in 0..Length[DAY] - 1
      /\ 0 \in 0..Length[HOUR] - 1 /\ 0 \in 0..Length[MIN] - 1
  BY <1>1, <1>4 DEF TimeLevels, SEC, MIN, HOUR, DAY, MONTH
<1> HIDE DEF at
<1>7. MonthNumber(tm.year, at) = k
  BY <1>5 DEF MonthNumber, k
<1>8. MonthStart[k] + at[DAY] = today + 1 /\ today + 1 \in Nat
  BY <1>1, <1>3, <1>5, <1>6
<1>9. mktime(tm.year, at) = Clock(today + 1, 0, 0, tm.at[SEC]) /\ mktime(tm.year, at) \in Nat
  <2>1. tm.at[SEC] \in Nat
    BY <1>6
  <2>2. at[HOUR] \in Nat /\ at[MIN] \in Nat /\ at[SEC] \in Nat
    BY <1>5, <2>1
  <2>3. MonthStart[MonthNumber(tm.year, at)] + at[DAY] = today + 1
    BY <1>7, <1>8
  <2>4. /\ mktime(tm.year, at) = Clock(MonthStart[MonthNumber(tm.year, at)] + at[DAY],
                                      at[HOUR], at[MIN], at[SEC])
        /\ mktime(tm.year, at) \in Nat
    BY <1>8, <2>2, <2>3, MktimeClock
  <2> QED
    BY <1>5, <2>3, <2>4
<1>10. Clock(today, tm.at[HOUR], tm.at[MIN], tm.at[SEC]) < Clock(today + 1, 0, 0, tm.at[SEC])
  <2>1. today \in Nat /\ today + 1 \in Nat /\ today < today + 1
    BY <1>1
  <2> DEFINE tomorrow == today + 1
  <2> HIDE DEF tomorrow
  <2>2. Clock(today, tm.at[HOUR], tm.at[MIN], tm.at[SEC]) < Clock(tomorrow, 0, 0, tm.at[SEC])
    BY <1>6, <2>1, ClockOrder DEF tomorrow
  <2> QED
    BY <2>2 DEF tomorrow
<1> QED
  BY <1>1, <1>9, <1>10 DEF tm, at, today

\* A call returns a later time to go on from, or a time that is not before
\* `from' and matches, unless it is past the end of the calendar.
LEMMA CallFacts ==
    ASSUME NEW s, IsSchedule(s), NEW from \in Seconds
    PROVE  LET call == Attempt(s, from)
           IN  /\ call.time \in Nat
               /\ call.again => call.time > from
               /\ ~ call.again => call.time >= from /\ (call.time \in Seconds => Matches(s, call.time))
<1> DEFINE tm == localtime[from]
           at == DateFound(s, from)
           first == mktime(YearFound(s, from), at)
           first_t == localtime[first]
           next_day == mktime(first_t.year, [first_t.at EXCEPT ![MIN] = 0, ![HOUR] = 0, ![DAY] = @ + 1])
           NotADate == first_t.at[DAY] # at[DAY] \/ first_t.at[MONTH] # at[MONTH]
<1>1. /\ first \in Nat /\ first >= from
      /\ first \div DaySeconds \in Nat /\ first \div DaySeconds >= from \div DaySeconds
      /\ first \div DaySeconds = from \div DaySeconds =>
           tm.at[MONTH] = at[MONTH] /\ tm.at[DAY] = at[DAY]
      /\ \A l \in {SEC, MIN, HOUR} : first \in Seconds => first_t.at[l] = at[l]
  BY FirstFacts
<1>2. Attempt(s, from) =
        IF first \notin Seconds THEN [again |-> FALSE, time |-> first]
        ELSE IF NotADate THEN [again |-> TRUE, time |-> first]
        ELSE IF first_t.wday \notin s[WDAY] THEN [again |-> TRUE, time |-> next_day]
        ELSE [again |-> FALSE, time |-> first]
  BY DEF Attempt, DateFound, YearFound
<1>3. \A l \in TimeLevels : at[l] \in s[l]
  BY DateFacts
<1>4. from \in Nat
  BY DayOfSecond
<1>5. first \in Seconds => next_day \in Nat /\ next_day > first
  BY NextDay
<1>6. ASSUME first \in Seconds, NotADate PROVE first > from
  <2>1. first # from
    <3>1. SUFFICES ASSUME first = from PROVE FALSE
      OBVIOUS
    <3>2. tm.at[MONTH] = at[MONTH] /\ tm.at[DAY] = at[DAY]
      BY <1>1, <3>1
    <3>3. tm = first_t
      BY <3>1
    <3> HIDE DEF tm, first_t, at
    <3> QED
      BY <1>6, <3>2, <3>3
  <2> HIDE DEF first
  <2> QED
    BY <1>1, <1>4, <2>1
<1>7. ASSUME first \in Seconds, ~ NotADate, first_t.wday \in s[WDAY]
      PROVE  Matches(s, first)
  <2>1. \A l \in TimeLevels : l \in {SEC, MIN, HOUR} \/ l = DAY \/ l = MONTH
    BY DEF TimeLevels, SEC, MIN, HOUR, DAY, MONTH
  <2>2. \A l \in {SEC, MIN, HOUR} : first_t.at[l] = at[l]
    BY <1>1, <1>7
  <2>3. first_t.at[DAY] = at[DAY] /\ first_t.at[MONTH] = at[MONTH]
    BY <1>7
  <2>4. \A l \in TimeLevels : first_t.at[l] = at[l]
    <3> HIDE DEF first_t, at
    <3> QED
      BY <2>1, <2>2, <2>3
  <2> QED
    BY <1>3, <1>7, <2>4 DEF Matches
<1> HIDE DEF first, first_t, next_day, at, NotADate
<1>8. CASE first \notin Seconds
  BY <1>1, <1>2, <1>8
<1>9. CASE first \in Seconds /\ NotADate
  BY <1>1, <1>2, <1>6, <1>9
<1>10. CASE first \in Seconds /\ ~ NotADate /\ first_t.wday \notin s[WDAY]
  BY <1>1, <1>2, <1>4, <1>5, <1>10
<1>11. CASE first \in Seconds /\ ~ NotADate /\ first_t.wday \in s[WDAY]
  BY <1>1, <1>2, <1>7, <1>11
<1> QED
  BY <1>8, <1>9, <1>10, <1>11

-----------------------------------------------------------------------------
(* What the search steps over.                                             *)

\* Seconds are ordered as their dates.
LEMMA DateOrder ==
    ASSUME NEW a \in Seconds, NEW b \in Seconds, a <= b
    PROVE  LET x == localtime[a].at
               y == localtime[b].at
               k == MonthNumber(localtime[a].year, x)
               kt == MonthNumber(localtime[b].year, y)
           IN  \/ k < kt
               \/ /\ k = kt
                  /\ \/ x[DAY] < y[DAY]
                     \/ /\ x[DAY] = y[DAY]
                        /\ \/ x[HOUR] < y[HOUR]
                           \/ /\ x[HOUR] = y[HOUR]
                              /\ \/ x[MIN] < y[MIN]
                                 \/ x[MIN] = y[MIN] /\ x[SEC] <= y[SEC]
<1> DEFINE x == localtime[a].at
           y == localtime[b].at
           k == MonthNumber(localtime[a].year, x)
           kt == MonthNumber(localtime[b].year, y)
           N == Years * Length[MONTH]
           n == (Years + 1) * Length[MONTH]
           da == a \div DaySeconds
           db == b \div DaySeconds
<1>1. /\ \A l \in TimeLevels : x[l] \in 0..Length[l] - 1
      /\ k \in 0..N - 1 /\ da \in Nat /\ MonthStart[k] + x[DAY] = da /\ da < MonthStart[k + 1]
      /\ a = Clock(da, x[HOUR], x[MIN], x[SEC])
  BY LocalTime
<1>2. /\ \A l \in TimeLevels : y[l] \in 0..Length[l] - 1
      /\ kt \in 0..N - 1 /\ db \in Nat /\ MonthStart[kt] + y[DAY] = db /\ db < MonthStart[kt + 1]
      /\ b = Clock(db, y[HOUR], y[MIN], y[SEC])
  BY LocalTime
<1>3. /\ SEC \in TimeLevels /\ MIN \in TimeLevels /\ HOUR \in TimeLevels
      /\ DAY \in TimeLevels /\ MONTH \in TimeLevels
  BY DEF TimeLevels, SEC, MIN, HOUR, DAY, MONTH
<1>4. N \in Nat /\ n \in Nat /\ N < n
      /\ Length[SEC] \in Nat /\ Length[MIN] \in Nat /\ Length[HOUR] \in Nat /\ Length[DAY] \in Nat
  BY Lengths DEF ScheduleLevels, SEC, MIN, HOUR, DAY, MONTH, WDAY
<1> HIDE DEF x, y, k, kt, da, db, N, n
<1>5. k \in 0..n /\ kt \in 0..n /\ k + 1 \in 0..n /\ kt + 1 \in 0..n /\ k \in Nat /\ kt \in Nat
  BY <1>1, <1>2, <1>4
<1>6. MonthStart[k] \in Nat /\ MonthStart[kt] \in Nat /\ MonthStart[kt + 1] \in Nat
  BY <1>5, MonthsFollow DEF n
<1>7. /\ x[HOUR] \in 0..Length[HOUR] - 1 /\ x[MIN] \in 0..Length[MIN] - 1
      /\ x[SEC] \in 0..Length[SEC] - 1 /\ x[DAY] \in 0..Length[DAY] - 1
      /\ y[HOUR] \in 0..Length[HOUR] - 1 /\ y[MIN] \in 0..Length[MIN] - 1
      /\ y[SEC] \in 0..Length[SEC] - 1 /\ y[DAY] \in 0..Length[DAY] - 1
  BY <1>1, <1>2, <1>3
<1>8. /\ x[HOUR] \in Nat /\ x[MIN] \in Nat /\ x[SEC] \in Nat /\ x[DAY] \in Nat
      /\ y[HOUR] \in Nat /\ y[MIN] \in Nat /\ y[SEC] \in Nat /\ y[DAY] \in Nat
  BY <1>4, <1>7
<1>9. a \in Nat /\ b \in Nat
  BY DayOfSecond
<1>10. ~ (\/ db < da
          \/ db = da /\ y[HOUR] < x[HOUR]
          \/ db = da /\ y[HOUR] = x[HOUR] /\ y[MIN] < x[MIN]
          \/ db = da /\ y[HOUR] = x[HOUR] /\ y[MIN] = x[MIN] /\ y[SEC] < x[SEC])
  <2> SUFFICES ASSUME \/ db < da
                      \/ db = da /\ y[HOUR] < x[HOUR]
                      \/ db = da /\ y[HOUR] = x[HOUR] /\ y[MIN] < x[MIN]
                      \/ db = da /\ y[HOUR] = x[HOUR] /\ y[MIN] = x[MIN] /\ y[SEC] < x[SEC]
               PROVE  FALSE
    OBVIOUS
  <2>1. /\ \/ db < da
           \/ db = da /\ y[HOUR] < x[HOUR]
           \/ db = da /\ y[HOUR] = x[HOUR] /\ y[MIN] < x[MIN]
           \/ db = da /\ y[HOUR] = x[HOUR] /\ y[MIN] = x[MIN] /\ y[SEC] <= x[SEC]
        /\ ~ (db = da /\ y[HOUR] = x[HOUR] /\ y[MIN] = x[MIN] /\ y[SEC] = x[SEC])
    BY <1>1, <1>2, <1>8
  <2>2. Clock(db, y[HOUR], y[MIN], y[SEC]) < Clock(da, x[HOUR], x[MIN], x[SEC])
    BY <1>1, <1>2, <1>7, <2>1, ClockOrder
  <2>3. b < a
    BY <1>1, <1>2, <2>2
  <2> QED
    BY <1>9, <2>3
<1>11. ~ (kt < k)
  <2> SUFFICES ASSUME kt < k PROVE FALSE
    OBVIOUS
  <2>1. MonthStart[kt + 1] <= MonthStart[k]
    BY <1>5, MonthsInOrder DEF n
  <2>2. db < da
    BY <1>1, <1>2, <1>6, <1>8, <2>1
  <2> QED
    BY <1>10, <2>2
<1>12. k = kt => (x[DAY] < y[DAY] <=> da < db) /\ (x[DAY] = y[DAY] <=> da = db)
  BY <1>1, <1>2, <1>6, <1>8
<1>13. k = kt => x[DAY] < y[DAY] \/ x[DAY] = y[DAY]
  BY <1>1, <1>2, <1>10, <1>12
<1> QED
  BY <1>5, <1>8, <1>10, <1>11, <1>12, <1>13 DEF x, y, k, kt

\* No second of the schedule lies between `from' and the date found, except
\* where the day is carried past the first days of a month.
LEMMA NoneBefore ==
    ASSUME NEW s, IsSchedule(s), NEW from \in Seconds, NEW t \in Seconds,
           from <= t, t < mktime(YearFound(s, from), DateFound(s, from)), Matches(s, t)
    PROVE  OverflowsFar(s)
<1> DEFINE x == localtime[from].at
           at == DateFound(s, from)
           u == localtime[t].at
           L == Length[MONTH]
           k == MonthNumber(localtime[from].year, x)
           j == MonthNumber(YearFound(s, from), at)
           kt == MonthNumber(localtime[t].year, u)
           N == Years * Length[MONTH]
           n == (Years + 1) * L
           today == from \div DaySeconds
           dt == t \div DaySeconds
           first == mktime(YearFound(s, from), at)
           df == MonthStart[j] + at[DAY]
<1>1. /\ k \in 0..N - 1 /\ today \in Nat /\ MonthStart[k] + x[DAY] = today
      /\ today < MonthStart[k + 1] /\ x[DAY] \in 0..Length[DAY] - 1
  BY LocalTime DEF TimeLevels, SEC, DAY, MONTH
<1>2. /\ \A l \in TimeLevels : u[l] \in 0..Length[l] - 1
      /\ kt \in 0..N - 1 /\ dt \in Nat /\ MonthStart[kt] + u[DAY] = dt /\ dt < MonthStart[kt + 1]
      /\ t = Clock(dt, u[HOUR], u[MIN], u[SEC])
      /\ localtime[t].year \in Nat
  <2>1. Years \in Nat
    BY ScheduleAssumption
  <2> QED
    BY <2>1, LocalTime
<1>3. /\ YearFound(s, from) \in Nat
      /\ \A l \in TimeLevels : at[l] \in s[l] /\ at[l] \in 0..Length[l] - 1
      /\ j \in 0..n - 1 /\ k <= j
  BY DateFacts
<1>4. \A l \in TimeLevels : u[l] \in s[l]
  BY DEF Matches
<1>5. /\ \/ k < kt
         \/ /\ k = kt
            /\ \/ x[DAY] < u[DAY]
               \/ /\ x[DAY] = u[DAY]
                  /\ \/ x[HOUR] < u[HOUR]
                     \/ /\ x[HOUR] = u[HOUR]
                        /\ \/ x[MIN] < u[MIN]
                           \/ x[MIN] = u[MIN] /\ x[SEC] <= u[SEC]
  BY DateOrder
<1>6. /\ j <= kt
      /\ j = kt =>
           /\ at[DAY] <= u[DAY]
           /\ at[DAY] = u[DAY] =>
                /\ at[HOUR] <= u[HOUR]
                /\ at[HOUR] = u[HOUR] =>
                     /\ at[MIN] <= u[MIN]
                     /\ at[MIN] = u[MIN] => at[SEC] <= u[SEC]
  <2> HIDE DEF u
  <2> QED
    BY <1>2, <1>4, <1>5, LeastDate
<1>7. ~ (k = j /\ x[DAY] = at[DAY]) =>
        at[HOUR] <= u[HOUR] /\ at[MIN] <= u[MIN] /\ at[SEC] <= u[SEC]
  <2> HIDE DEF u
  <2> QED
    BY <1>2, <1>4, LeastDate
<1>8. /\ SEC \in TimeLevels /\ MIN \in TimeLevels /\ HOUR \in TimeLevels
      /\ DAY \in TimeLevels /\ MONTH \in TimeLevels
  BY DEF TimeLevels, SEC, MIN, HOUR, DAY, MONTH
<1>9. /\ N \in Nat /\ n \in Nat /\ N < n /\ L \in Nat \ {0}
      /\ Length[SEC] \in Nat /\ Length[MIN] \in Nat /\ Length[HOUR] \in Nat /\ Length[DAY] \in Nat
  BY Lengths DEF ScheduleLevels, SEC, MIN, HOUR, DAY, MONTH, WDAY
<1>10. j = (YearFound(s, from) * L) + at[MONTH] /\ t < first /\ t \in Nat
  BY DayOfSecond DEF MonthNumber
<1> HIDE DEF x, at, u, L, k, j, kt, N, n, today, dt, first
<1>11. /\ k \in 0..n /\ j \in 0..n /\ kt \in 0..n /\ j + 1 \in 0..n /\ k + 1 \in 0..n
       /\ k \in Nat /\ j \in Nat /\ kt \in Nat
  BY <1>1, <1>2, <1>3, <1>9
<1>12. /\ MonthStart[k] \in Nat /\ MonthStart[j] \in Nat /\ MonthStart[kt] \in Nat
       /\ MonthStart[j + 1] \in Nat
       /\ MonthStart[j + 1] = MonthStart[j] + DaysOf(j \div L, j % L)
  BY <1>3, <1>11, MonthsFollow DEF n, L
<1>13. /\ at[HOUR] \in 0..Length[HOUR] - 1 /\ at[MIN] \in 0..Length[MIN] - 1
       /\ at[SEC] \in 0..Length[SEC] - 1 /\ at[DAY] \in 0..Length[DAY] - 1
       /\ at[MONTH] \in 0..L - 1 /\ at[DAY] \in s[DAY] /\ at[MONTH] \in s[MONTH]
       /\ u[HOUR] \in 0..Length[HOUR] - 1 /\ u[MIN] \in 0..Length[MIN] - 1
       /\ u[SEC] \in 0..Length[SEC] - 1 /\ u[DAY] \in 0..Length[DAY] - 1 /\ u[DAY] \in s[DAY]
  BY <1>2, <1>3, <1>4, <1>8 DEF L
<1>14. /\ at[HOUR] \in Nat /\ at[MIN] \in Nat /\ at[SEC] \in Nat /\ at[DAY] \in Nat
       /\ u[HOUR] \in Nat /\ u[MIN] \in Nat /\ u[SEC] \in Nat /\ u[DAY] \in Nat /\ x[DAY] \in Nat
  BY <1>1, <1>9, <1>13
<1>15. df \in Nat
  BY <1>12, <1>14
<1>16. first = Clock(df, at[HOUR], at[MIN], at[SEC]) /\ first \in Nat
  BY <1>14, <1>15, MktimeClock DEF first, j
<1>17. ~ (\/ df < dt
          \/ df = dt /\ at[HOUR] < u[HOUR]
          \/ df = dt /\ at[HOUR] = u[HOUR] /\ at[MIN] < u[MIN]
          \/ df = dt /\ at[HOUR] = u[HOUR] /\ at[MIN] = u[MIN] /\ at[SEC] <= u[SEC])
  <2> SUFFICES ASSUME \/ df < dt
                      \/ df = dt /\ at[HOUR] < u[HOUR]
                      \/ df = dt /\ at[HOUR] = u[HOUR] /\ at[MIN] < u[MIN]
                      \/ df = dt /\ at[HOUR] = u[HOUR] /\ at[MIN] = u[MIN] /\ at[SEC] <= u[SEC]
               PROVE  FALSE
    OBVIOUS
  <2> HIDE DEF df
  <2>1. Clock(df, at[HOUR], at[MIN], at[SEC]) <= Clock(dt, u[HOUR], u[MIN], u[SEC])
    BY <1>2, <1>13, <1>15, ClockOrder
  <2>2. first <= t
    BY <1>2, <1>16, <2>1
  <2> QED
    BY <1>10, <1>16, <2>2
<1>18. j # kt
  <2> SUFFICES ASSUME j = kt PROVE FALSE
    OBVIOUS
  <2>1. at[DAY] <= u[DAY]
    BY <1>6
  <2>2. CASE at[DAY] = u[DAY]
    <3>1. df = dt
      BY <1>2, <2>2
    <3>2. at[HOUR] <= u[HOUR] /\ (at[HOUR] = u[HOUR] => at[MIN] <= u[MIN])
          /\ (at[HOUR] = u[HOUR] /\ at[MIN] = u[MIN] => at[SEC] <= u[SEC])
      BY <1>6, <2>2
    <3> HIDE DEF df
    <3> QED
      BY <1>14, <1>17, <3>1, <3>2
  <2>3. CASE at[DAY] # u[DAY]
    <3>1. df < dt
      BY <1>2, <1>12, <1>14, <2>1, <2>3
    <3> QED
      BY <1>17, <3>1
  <2> QED
    BY <2>2, <2>3
<1>19. j < kt
  BY <1>6, <1>11, <1>18
<1>20. MonthStart[j + 1] <= MonthStart[kt]
  BY <1>11, <1>19, MonthsInOrder DEF n, L
<1> DEFINE days == MonthStart[j + 1] - MonthStart[j]
           over == df - MonthStart[j + 1]
<1>21. dt <= df /\ df >= MonthStart[j + 1]
  BY <1>2, <1>12, <1>14, <1>15, <1>17, <1>20
<1>22. over = at[DAY] - days /\ u[DAY] <= over /\ days \in Int
  BY <1>2, <1>12, <1>14, <1>20, <1>21
<1>23. u[DAY] # over
  <2> SUFFICES ASSUME u[DAY] = over PROVE FALSE
    OBVIOUS
  <2>1. df = dt
    BY <1>2, <1>12, <1>14, <1>15, <1>20, <1>21
  <2>2. ~ (k = j /\ x[DAY] = at[DAY])
    BY <1>1, <1>12, <1>14, <1>21
  <2>3. at[HOUR] <= u[HOUR] /\ at[MIN] <= u[MIN] /\ at[SEC] <= u[SEC]
    BY <1>7, <2>2
  <2> HIDE DEF df
  <2> QED
    BY <1>14, <1>17, <2>1, <2>3
<1>24. MonthDays[at[MONTH]] \in Nat /\ MonthDays[at[MONTH]] <= days
  <2>1. j % L = at[MONTH]
    BY <1>3, <1>9, <1>10, <1>13, Composed
  <2>2. days = DaysOf(j \div L, at[MONTH])
    <3> DEFINE D == DaysOf(j \div L, j % L)
    <3>1. j \div L \in Nat /\ j % L \in 0..L - 1
      BY <1>9, <1>11, Division
    <3>2. D \in 1..Length[DAY]
      BY <3>1, DaysFacts DEF L
    <3>3. D \in Nat /\ D = DaysOf(j \div L, at[MONTH])
      BY <1>9, <2>1, <3>2
    <3> HIDE DEF D
    <3>4. MonthStart[j + 1] = MonthStart[j] + D
      BY <1>12 DEF D
    <3> QED
      BY <1>12, <3>3, <3>4
  <2>3. MonthDays[at[MONTH]] \in Nat
    <3>1. MonthDays[at[MONTH]] \in 1..Length[DAY]
      BY <1>13, ScheduleAssumption DEF L
    <3> QED
      BY <1>9, <3>1
  <2> QED
    BY <2>2, <2>3 DEF DaysOf
<1>25. u[DAY] < at[DAY] - MonthDays[at[MONTH]] /\ at[DAY] > MonthDays[at[MONTH]]
  <2> HIDE DEF days, df
  <2>1. over \in Int
    BY <1>14, <1>22
  <2> HIDE DEF over
  <2> QED
    BY <1>14, <1>22, <1>23, <1>24, <2>1
<1> QED
  BY <1>13, <1>25 DEF OverflowsFar

\* Nor does one lie before the time that a call returns, except there, or in
\* the first minute of a day of which the seconds are kept.
LEMMA CallSkips ==
    ASSUME NEW s, IsSchedule(s), NEW from \in Seconds, NEW t \in Seconds,
           from <= t, t < Attempt(s, from).time, Matches(s, t)
    PROVE  KeepsSeconds(s) \/ OverflowsFar(s)
<1> DEFINE at == DateFound(s, from)
           first == mktime(YearFound(s, from), at)
           first_t == localtime[first]
           next_day == mktime(first_t.year, [first_t.at EXCEPT ![MIN] = 0, ![HOUR] = 0, ![DAY] = @ + 1])
           NotADate == first_t.at[DAY] # at[DAY] \/ first_t.at[MONTH] # at[MONTH]
           u == localtime[t].at
           df == first \div DaySeconds
           dt == t \div DaySeconds
           sec == first_t.at[SEC]
<1>1. Attempt(s, from) =
        IF first \notin Seconds THEN [again |-> FALSE, time |-> first]
        ELSE IF NotADate THEN [again |-> TRUE, time |-> first]
        ELSE IF first_t.wday \notin s[WDAY] THEN [again |-> TRUE, time |-> next_day]
        ELSE [again |-> FALSE, time |-> first]
  BY DEF Attempt, DateFound, YearFound
<1>2. t < first => OverflowsFar(s)
  BY NoneBefore
<1>3. first \in Nat /\ (first \in Seconds => first_t.at[SEC] = at[SEC])
  BY FirstFacts
<1>4. at[SEC] \in s[SEC]
  BY DateFacts DEF TimeLevels, SEC, MONTH
<1>5. \A l \in {SEC, MIN, HOUR} : u[l] \in s[l]
  BY DEF Matches, TimeLevels, SEC, MIN, HOUR, MONTH
<1>6. localtime[t].wday \in s[WDAY] /\ localtime[t].wday = dt % Length[WDAY]
  BY DEF Matches, localtime
<1>7. first \in Seconds => first_t.wday = df % Length[WDAY]
  BY DEF localtime
<1>8. t \in Nat
  BY DayOfSecond
<1>9. /\ \A l \in {SEC, MIN, HOUR} : u[l] \in 0..Length[l] - 1
      /\ dt \in Nat /\ t = Clock(dt, u[HOUR], u[MIN], u[SEC])
  BY LocalTime DEF TimeLevels, SEC, MIN, HOUR, MONTH
<1>10. first \in Seconds =>
         /\ \A l \in {SEC, MIN, HOUR} : first_t.at[l] \in 0..Length[l] - 1
         /\ df \in Nat /\ first = Clock(df, first_t.at[HOUR], first_t.at[MIN], first_t.at[SEC])
         /\ next_day = Clock(df + 1, 0, 0, sec)
  BY LocalTime, NextDay DEF TimeLevels, SEC, MIN, HOUR, MONTH
<1>11. /\ Length[SEC] \in Nat \ {0} /\ Length[MIN] \in Nat \ {0} /\ Length[HOUR] \in Nat \ {0}
       /\ Length[WDAY] \in Nat \ {0} /\ s[SEC] \in SUBSET (0..Length[SEC] - 1)
  BY Lengths DEF IsSchedule, ScheduleLevels, SEC, MIN, HOUR, WDAY
<1> HIDE DEF at, first, first_t, next_day, NotADate, u, df, dt, sec
<1>12. CASE Attempt(s, from).time = first
  BY <1>2, <1>12
<1>13. CASE Attempt(s, from).time # first
  <2>1. first \in Seconds /\ first_t.wday \notin s[WDAY] /\ Attempt(s, from).time = next_day
    BY <1>1, <1>13
  <2>2. SUFFICES ASSUME ~ (t < first) PROVE KeepsSeconds(s)
    BY <1>2
  <2>3. df \in Nat /\ df % Length[WDAY] \notin s[WDAY] /\ sec \in s[SEC] /\ sec \in 0..Length[SEC] - 1
    BY <1>3, <1>4, <1>7, <1>10, <2>1 DEF sec
  <2>4. /\ u[HOUR] \in 0..Length[HOUR] - 1 /\ u[MIN] \in 0..Length[MIN] - 1
        /\ u[SEC] \in 0..Length[SEC] - 1
        /\ first_t.at[HOUR] \in 0..Length[HOUR] - 1 /\ first_t.at[MIN] \in 0..Length[MIN] - 1
        /\ first_t.at[SEC] \in 0..Length[SEC] - 1
    BY <1>9, <1>10, <2>1
  <2>5. ~ (dt < df)
    <3> SUFFICES ASSUME dt < df PROVE FALSE
      OBVIOUS
    <3>1. Clock(dt, u[HOUR], u[MIN], u[SEC])
            < Clock(df, first_t.at[HOUR], first_t.at[MIN], first_t.at[SEC])
      <4>1. dt # df /\ dt \in Nat
        BY <1>9, <2>3
      <4> QED
        BY <2>3, <2>4, <4>1, ClockOrder
    <3>2. t < first
      BY <1>9, <1>10, <2>1, <3>1
    <3> QED
      BY <2>2, <3>2
  <2>6. dt # df
    BY <1>6, <2>3
  <2> DEFINE tomorrow == df + 1
  <2>7. tomorrow \in Nat /\ tomorrow <= dt
    BY <1>9, <2>3, <2>5, <2>6
  <2>8. 0 \in 0..Length[HOUR] - 1 /\ 0 \in 0..Length[MIN] - 1
        /\ u[HOUR] >= 0 /\ u[MIN] >= 0 /\ u[HOUR] \in Nat /\ u[MIN] \in Nat /\ u[SEC] \in Nat
        /\ sec \in Nat
    BY <1>11, <2>3, <2>4
  <2>9. t < Clock(tomorrow, 0, 0, sec)
    BY <1>10, <2>1
  <2> HIDE DEF tomorrow
  <2>10. ~ (\/ tomorrow < dt
            \/ tomorrow = dt /\ 0 < u[HOUR]
            \/ tomorrow = dt /\ 0 = u[HOUR] /\ 0 < u[MIN]
            \/ tomorrow = dt /\ 0 = u[HOUR] /\ 0 = u[MIN] /\ sec <= u[SEC])
    <3> SUFFICES ASSUME \/ tomorrow < dt
                        \/ tomorrow = dt /\ 0 < u[HOUR]
                        \/ tomorrow = dt /\ 0 = u[HOUR] /\ 0 < u[MIN]
                        \/ tomorrow = dt /\ 0 = u[HOUR] /\ 0 = u[MIN] /\ sec <= u[SEC]
                 PROVE  FALSE
      OBVIOUS
    <3>1. Clock(tomorrow, 0, 0, sec) <= Clock(dt, u[HOUR], u[MIN], u[SEC])
      BY <1>9, <2>3, <2>4, <2>7, <2>8, ClockOrder
    <3>2. Clock(tomorrow, 0, 0, sec) \in Nat
      BY <2>7, <2>8, ClockSum
    <3>3. Clock(tomorrow, 0, 0, sec) <= t
      BY <1>9, <3>1
    <3> QED
      BY <1>8, <2>9, <3>2, <3>3
  <2>11. u[HOUR] = 0 /\ u[MIN] = 0 /\ u[SEC] < sec
    BY <1>9, <2>7, <2>8, <2>10
  <2>12. 0 \in s[HOUR] /\ 0 \in s[MIN] /\ u[SEC] \in s[SEC]
    BY <1>5, <2>11
  <2>13. Cardinality(s[SEC]) > 1
    <3> DEFINE l == Length[SEC] - 1
               C == s[SEC]
    <3>1. l \in Int /\ C \in SUBSET (0..l)
      BY <1>11
    <3> HIDE DEF l
    <3>2. IsFiniteSet(C)
      <4>1. IsFiniteSet(0..l)
        BY <3>1, FS_Interval
      <4> HIDE DEF C
      <4> QED
        BY <3>1, <4>1, FS_Subset
    <3>3. Cardinality(C) \in Nat
      BY <3>2, FS_CardinalityType
    <3>4. u[SEC] # sec /\ u[SEC] \in C /\ sec \in C
      BY <2>3, <2>8, <2>11, <2>12
    <3> HIDE DEF C
    <3>5. Cardinality(C) # 0
      BY <3>2, <3>4, FS_EmptySet
    <3>6. Cardinality(C) # 1
      BY <3>2, <3>4, FS_Singleton
    <3>7. Cardinality(C) > 1
      BY <3>3, <3>5, <3>6
    <3> QED
      BY <3>7 DEF C
  <2>14. s[WDAY] # 0..Length[WDAY] - 1
    <3>1. df % Length[WDAY] \in 0..Length[WDAY] - 1
      BY <1>11, <2>3, Division
    <3> QED
      BY <2>3, <3>1
  <2> QED
    BY <2>12, <2>13, <2>14 DEF KeepsSeconds
<1> QED
  BY <1>12, <1>13

-----------------------------------------------------------------------------
(* The calls one after the other.                                          *)

\* The function of the calls exists, for each of them goes on from a later
\* time: it is built from the end of the calendar.
LEMMA SearchExists ==
    ASSUME NEW s, IsSchedule(s)
    PROVE  \E search : search = [t \in Seconds |->
               LET call == Attempt(s, t)
               IN  IF call.again /\ call.time \in Seconds THEN search[call.time] ELSE call.time]
<1> DEFINE E == MonthStart[Years * Length[MONTH]] * DaySeconds
           From(n) == {t \in Seconds : t >= E - n}
           Goes(t) == Attempt(s, t).again /\ Attempt(s, t).time \in Seconds
           to(t) == Attempt(s, t).time
           Step(g, t) == IF Goes(t) THEN g[to(t)] ELSE to(t)
           IsSearch(g, T) == g = [t \in T |-> Step(g, t)]
           Bad == {n \in 0..E : ~ \E g : IsSearch(g, From(n))}
<1>1. E \in Nat
  <2>1. Years * Length[MONTH] \in 0..(Years + 1) * Length[MONTH]
    BY Lengths DEF ScheduleLevels, SEC, MONTH, WDAY
  <2>2. MonthStart[Years * Length[MONTH]] \in Nat
    BY <2>1, MonthsFollow
  <2> QED
    BY <2>2, DayLength, Product
<1>2. Seconds = 0..E - 1
  BY DEF Seconds
<1>3. \A t \in Seconds : to(t) \in Nat /\ (Goes(t) => to(t) \in Seconds /\ to(t) > t)
  BY CallFacts
<1> HIDE DEF E, Goes, to
<1>4. From(E) = Seconds
  BY <1>1, <1>2
<1>5. SUFFICES ASSUME Bad # {} PROVE FALSE
  <2>1. E \notin Bad /\ E \in 0..E
    BY <1>1, <1>5
  <2>2. PICK g : IsSearch(g, Seconds)
    BY <1>4, <2>1
  <2> QED
    BY <2>2 DEF Goes, to
<1>6. Bad \in SUBSET Nat
  OBVIOUS
<1> HIDE DEF Bad
<1>7. PICK n \in Bad : \A k \in Bad : n <= k
  BY <1>5, <1>6, LeastNatural
<1>8. n \in 0..E /\ \A g : ~ IsSearch(g, From(n))
  BY <1>7 DEF Bad
<1>9. CASE n = 0
  <2>1. From(n) = {}
    BY <1>1, <1>2, <1>9
  <2> DEFINE g == [t \in From(n) |-> 0]
  <2>2. IsSearch(g, From(n))
    BY <2>1
  <2> QED
    BY <1>8, <2>2
<1>10. CASE n # 0
  <2>1. n - 1 \in 0..E /\ ~(n <= n - 1)
    BY <1>1, <1>8, <1>10
  <2>2. PICK h : IsSearch(h, From(n - 1))
    BY <1>7, <2>1 DEF Bad
  <2> DEFINE first == E - n
             g == [t \in From(n) |-> Step(h, t)]
  <2>3. first \in Seconds /\ \A t \in From(n) : t = first \/ t \in From(n - 1)
    BY <1>1, <1>2, <1>8, <1>10
  <2>4. ASSUME NEW t \in From(n), Goes(t) PROVE to(t) \in From(n - 1) /\ to(t) \in From(n)
    BY <1>1, <1>2, <1>3, <1>8, <2>1, <2>4
  <2>5. \A t \in From(n - 1) : h[t] = Step(h, t) /\ t \in From(n)
    BY <1>1, <1>2, <1>8, <2>1, <2>2
  <2>6. \A t \in From(n) : g[t] = Step(h, t)
    OBVIOUS
  <2>7. \A t \in From(n) : Step(g, t) = Step(h, t)
    <3> HIDE DEF g, From
    <3> QED
      BY <2>4, <2>5, <2>6
  <2>8. IsSearch(g, From(n))
    <3> HIDE DEF Step, From
    <3> QED
      BY <2>6, <2>7
  <2> QED
    BY <1>8, <2>8
<1> QED
  BY <1>9, <1>10

\* The search never turns back, what it returns matches, unless it is past the
\* end of the calendar, and nothing is stepped over but by the two exceptions.
LEMMA SearchFacts ==
    ASSUME NEW s, IsSchedule(s), NEW from \in Seconds
    PROVE  /\ get_next_time(s, from) \in Nat /\ get_next_time(s, from) >= from
           /\ get_next_time(s, from) \in Seconds => Matches(s, get_next_time(s, from))
           /\ \A t \in Seconds : from <= t /\ t < get_next_time(s, from) /\ Matches(s, t)
                                   => KeepsSeconds(s) \/ OverflowsFar(s)
<1> DEFINE Eq(g) == g = [t \in Seconds |->
               LET call == Attempt(s, t)
               IN  IF call.again /\ call.time \in Seconds THEN g[call.time] ELSE call.time]
           search == CHOOSE g : Eq(g)
           E == MonthStart[Years * Length[MONTH]] * DaySeconds
           Good(t) == /\ search[t] \in Nat /\ search[t] >= t
                      /\ search[t] \in Seconds => Matches(s, search[t])
                      /\ \A w \in Seconds : t <= w /\ w < search[t] /\ Matches(s, w)
                                              => KeepsSeconds(s) \/ OverflowsFar(s)
           Bad == {t \in Seconds : ~ Good(t)}
           Rest == {E - t : t \in Bad}
<1>1. Eq(search)
  <2>1. \E g : Eq(g)
    BY SearchExists
  <2> QED
    BY <2>1
<1>2. get_next_time(s, from) = search[from]
  BY DEF get_next_time
<1> HIDE DEF search
<1>3. E \in Nat /\ Seconds = 0..E - 1
  <2>1. Years * Length[MONTH] \in 0..(Years + 1) * Length[MONTH]
    BY Lengths DEF ScheduleLevels, SEC, MONTH, WDAY
  <2>2. MonthStart[Years * Length[MONTH]] \in Nat
    BY <2>1, MonthsFollow
  <2>3. E \in Nat
    BY <2>2, DayLength, Product
  <2> QED
    BY <2>3 DEF Seconds
<1> HIDE DEF E
<1>4. SUFFICES ASSUME Bad # {} PROVE FALSE
  <2>1. Good(from)
    BY <1>4
  <2> QED
    BY <1>2, <2>1
<1>5. Bad \subseteq Seconds /\ \A t \in Bad : ~ Good(t)
  OBVIOUS
<1>6. \A t \in Seconds : t \notin Bad => Good(t)
  OBVIOUS
<1> HIDE DEF Bad, Good
<1>7. Rest \in SUBSET Nat /\ Rest # {}
  BY <1>3, <1>4, <1>5
<1>8. PICK r \in Rest : \A k \in Rest : r <= k
  BY <1>7, LeastNatural
<1>9. PICK t \in Bad : r = E - t
  BY <1>8
<1>10. ASSUME NEW u \in Bad PROVE u <= t
  <2>1. E - u \in Rest
    OBVIOUS
  <2>2. u \in Int /\ t \in Int /\ E \in Int
    BY <1>3, <1>5
  <2>3. E - t <= E - u
    BY <1>8, <1>9, <2>1
  <2> QED
    BY <2>2, <2>3
<1>11. t \in Seconds /\ t \in Nat
  BY <1>3, <1>5
<1> DEFINE call == Attempt(s, t)
<1>12. /\ call.time \in Nat
       /\ call.again => call.time > t
       /\ ~ call.again => call.time >= t /\ (call.time \in Seconds => Matches(s, call.time))
  BY <1>11, CallFacts
<1>13. search[t] = IF call.again /\ call.time \in Seconds THEN search[call.time] ELSE call.time
  BY <1>1, <1>11
<1>16. \A w \in Seconds : t <= w /\ w < call.time /\ Matches(s, w)
                            => KeepsSeconds(s) \/ OverflowsFar(s)
  BY <1>11, CallSkips
<1>17. \A w \in Seconds : w \in Nat
  BY <1>3
<1> HIDE DEF call
<1>14. CASE call.again /\ call.time \in Seconds
  <2>1. call.time \notin Bad
    BY <1>10, <1>11, <1>12, <1>14
  <2>2. Good(call.time)
    BY <1>6, <1>14, <2>1
  <2>3. Good(t)
    <3>1. search[t] = search[call.time]
      BY <1>13, <1>14
    <3>2. search[t] \in Nat /\ search[t] >= t
      BY <1>11, <1>12, <1>14, <2>2, <3>1 DEF Good
    <3>3. search[t] \in Seconds => Matches(s, search[t])
      BY <2>2, <3>1 DEF Good
    <3>4. ASSUME NEW w \in Seconds, t <= w, w < search[t], Matches(s, w)
          PROVE  KeepsSeconds(s) \/ OverflowsFar(s)
      <4>1. CASE w < call.time
        BY <1>16, <3>4, <4>1
      <4>2. CASE call.time <= w
        BY <2>2, <3>1, <3>4, <4>2 DEF Good
      <4> QED
        BY <1>12, <1>17, <4>1, <4>2
    <3> QED
      BY <3>2, <3>3, <3>4 DEF Good
  <2> QED
    BY <1>5, <2>3
<1>15. CASE ~ (call.again /\ call.time \in Seconds)
  <2>1. search[t] = call.time
    BY <1>13, <1>15
  <2>2. Good(t)
    <3>1. ~ call.again \/ call.time \notin Seconds
      BY <1>15
    <3>2. search[t] \in Nat /\ search[t] >= t
      BY <1>11, <1>12, <2>1
    <3>3. search[t] \in Seconds => Matches(s, search[t])
      BY <1>12, <2>1, <3>1
    <3> QED
      BY <1>16, <2>1, <3>2, <3>3 DEF Good
  <2> QED
    BY <1>5, <2>2
<1> QED
  BY <1>14, <1>15

-----------------------------------------------------------------------------
(* The alarm.                                                              *)

\* The calendar is long enough: from every time of the clock the search ends
\* within it.  It is the bound on the years that makes this an assumption.
SearchEnds ==
    \A d \in Descriptions : Accepts(d) =>
        \A t \in 0..Horizon : t + 1 \in Seconds /\ get_next_time(Parsed(d), t + 1) \in Seconds

\* The alarm at `time', seen at `t': it matches, and nothing that matches lies
\* between but by the two exceptions.
IsAlarm(s, t, time) ==
    /\ time \in Seconds /\ Matches(s, time)
    /\ \A w \in Seconds : t < w /\ w < time /\ Matches(s, w) => KeepsSeconds(s) \/ OverflowsFar(s)

\* The schedule is one that was accepted, and the alarm has the time that the
\* search found for it, which the clock does not pass before it rings.
AlarmInv ==
    /\ \E d \in Descriptions : Accepts(d) /\ schedule = Parsed(d)
    /\ now \in 0..Horizon
    /\ executing \in BOOLEAN
    /\ next \in Seconds
    /\ ~ executing => now <= next /\ IsAlarm(schedule, now, next)

\* A description that is accepted leaves some values at every level.
LEMMA ParsedFacts ==
    ASSUME NEW d, Accepts(d)
    PROVE  IsSchedule(Parsed(d)) /\ Parsed(d) \in [ScheduleLevels -> SUBSET Nat]
<1>1. ASSUME NEW l \in ScheduleLevels
      PROVE  Parsed(d)[l] \in SUBSET (0..Length[l] - 1) /\ Parsed(d)[l] # {}
  <2>1. Length[l] \in Nat \ {0}
    BY Lengths
  <2>2. d[l] \subseteq 0..Length[l] - 1
    BY DEF Accepts
  <2>3. Parsed(d)[l] = IF d[l] = {} THEN 0..Length[l] - 1 ELSE d[l]
    BY DEF Parsed
  <2> QED
    BY <2>1, <2>2, <2>3
<1>2. ASSUME NEW l \in ScheduleLevels PROVE Parsed(d)[l] \in SUBSET Nat
  <2>1. Parsed(d)[l] \in SUBSET (0..Length[l] - 1)
    BY <1>1
  <2>2. 0..Length[l] - 1 \subseteq Nat
    BY Lengths
  <2> HIDE DEF Parsed
  <2> QED
    BY <2>1, <2>2
<1>3. DOMAIN Parsed(d) = ScheduleLevels /\ Parsed(d) = [l \in ScheduleLevels |-> Parsed(d)[l]]
  BY DEF Parsed
<1> QED
  BY <1>1, <1>2, <1>3 DEF IsSchedule

\* The alarm is set to a later time, as it should be.
LEMMA AlarmFacts ==
    ASSUME SearchEnds, NEW d \in Descriptions, Accepts(d), NEW t \in 0..Horizon
    PROVE  LET next_time == GetNextTime(Parsed(d), t)
           IN  next_time > t /\ IsAlarm(Parsed(d), t, next_time)
<1> DEFINE found == get_next_time(Parsed(d), t + 1)
           P == Parsed(d)
<1>1. t \in Nat /\ t + 1 \in Seconds /\ found \in Seconds
  BY ScheduleAssumption DEF SearchEnds
<1>2. IsSchedule(P)
  BY ParsedFacts
<1>3. /\ found \in Nat /\ found >= t + 1 /\ Matches(P, found)
      /\ \A w \in Seconds : t + 1 <= w /\ w < found /\ Matches(P, w)
                              => KeepsSeconds(P) \/ OverflowsFar(P)
  BY <1>1, <1>2, SearchFacts
<1> HIDE DEF found
<1>4. GetNextTime(P, t) = found
  <2>1. ~ (found <= t)
    BY <1>1, <1>3
  <2> QED
    BY <2>1 DEF GetNextTime, found
<1>5. \A w \in Seconds : t < w => t + 1 <= w
  BY <1>1, DayOfSecond
<1> HIDE DEF P
<1>6. IsAlarm(P, t, found)
  BY <1>1, <1>3, <1>5 DEF IsAlarm
<1>7. found > t
  BY <1>1, <1>3
<1> QED
  BY <1>4, <1>6, <1>7 DEF P

\* AlarmInv is an invariant.
LEMMA AlarmAlways ==
    ASSUME SearchEnds
    PROVE  Spec => []AlarmInv
<1>1. Init => AlarmInv
  <2> SUFFICES ASSUME Init PROVE AlarmInv
    OBVIOUS
  <2>1. PICK d \in Descriptions : Accepts(d) /\ schedule = Parsed(d)
    BY DEF Init
  <2>2. now = 0 /\ next = GetNextTime(schedule, now)
    BY DEF Init
  <2>3. executing \in BOOLEAN
    BY DEF Init
  <2>4. now \in 0..Horizon
    BY <2>2, ScheduleAssumption
  <2>5. next > now /\ IsAlarm(schedule, now, next)
    BY <2>1, <2>2, <2>4, AlarmFacts
  <2>6. next \in Seconds
    BY <2>5 DEF IsAlarm
  <2>7. next \in Nat /\ now \in Nat
    BY <2>2, <2>6, DayOfSecond
  <2>8. now <= next
    BY <2>5, <2>7
  <2>9. \E x \in Descriptions : Accepts(x) /\ schedule = Parsed(x)
    BY <2>1
  <2> QED
    BY <2>3, <2>4, <2>5, <2>6, <2>8, <2>9 DEF AlarmInv
<1>2. AlarmInv /\ [Next]_vars => AlarmInv'
  <2> SUFFICES ASSUME AlarmInv, [Next]_vars PROVE AlarmInv'
    OBVIOUS
  <2>1. /\ now \in 0..Horizon /\ next \in Seconds /\ executing \in BOOLEAN
        /\ ~ executing => now <= next /\ IsAlarm(schedule, now, next)
    BY DEF AlarmInv
  <2>2. PICK d \in Descriptions : Accepts(d) /\ schedule = Parsed(d)
    BY DEF AlarmInv
  <2>3. Horizon \in Nat /\ next \in Nat /\ now \in Nat
    BY <2>1, ScheduleAssumption, DayOfSecond
  <2>4. CASE Tick
    <3>1. now < Horizon /\ (executing \/ now < next) /\ now' = now + 1
          /\ schedule' = schedule /\ next' = next /\ executing' = executing
      BY <2>4 DEF Tick
    <3>2. now' \in 0..Horizon /\ (~ executing => now' <= next)
      BY <2>3, <3>1
    <3>3. ASSUME ~ executing PROVE IsAlarm(schedule, now, next)'
      <4>1. \A w \in Seconds : now' < w => now < w
        BY <2>3, <3>1, DayOfSecond
      <4>2. IsAlarm(schedule, now', next)
        BY <2>1, <3>3, <4>1 DEF IsAlarm
      <4> QED
        BY <3>1, <4>2 DEF IsAlarm, Matches, KeepsSeconds, OverflowsFar
    <3> QED
      BY <2>1, <2>2, <3>1, <3>2, <3>3 DEF AlarmInv
  <2>5. CASE Ring
    <3>1. executing' = TRUE /\ now' = now /\ schedule' = schedule /\ next' = next
      BY <2>5 DEF Ring
    <3> QED
      BY <2>1, <2>2, <3>1 DEF AlarmInv
  <2>6. CASE SetAgain
    <3>1. executing' = FALSE /\ now' = now /\ schedule' = schedule
          /\ next' = GetNextTime(schedule, now)
      BY <2>6 DEF SetAgain
    <3>2. next' > now /\ IsAlarm(schedule, now, next')
      BY <2>1, <2>2, <3>1, AlarmFacts
    <3>3. next' \in Seconds
      BY <3>2 DEF IsAlarm
    <3>4. now' <= next'
      BY <2>3, <3>1, <3>2, <3>3, DayOfSecond
    <3>5. IsAlarm(schedule, now, next)'
      BY <3>1, <3>2 DEF IsAlarm, Matches, KeepsSeconds, OverflowsFar
    <3> QED
      BY <2>1, <2>2, <3>1, <3>3, <3>4, <3>5 DEF AlarmInv
  <2>7. CASE UNCHANGED vars
    <3>1. executing' = executing /\ now' = now /\ schedule' = schedule /\ next' = next
      BY <2>7 DEF vars
    <3>2. ~ executing => IsAlarm(schedule, now, next)'
      BY <2>1, <3>1 DEF IsAlarm, Matches, KeepsSeconds, OverflowsFar
    <3> QED
      BY <2>1, <2>2, <3>1, <3>2 DEF AlarmInv
  <2> QED
    BY <2>4, <2>5, <2>6, <2>7 DEF Next
<1> QED
  BY <1>1, <1>2, PTL DEF Spec

\* The state of the calendar is well typed: the alarm is always a second of it
\* (WorkflowSchedule asks for the next time when the instance has ended).
THEOREM AlarmsWellTyped ==
    ASSUME SearchEnds
    PROVE  Spec => []TypeOK
<1>1. AlarmInv => TypeOK
  <2> SUFFICES ASSUME AlarmInv PROVE TypeOK
    OBVIOUS
  <2>1. schedule \in [ScheduleLevels -> SUBSET Nat]
    BY ParsedFacts DEF AlarmInv
  <2> QED
    BY <2>1 DEF AlarmInv, TypeOK
<1> QED
  BY <1>1, AlarmAlways, PTL

\* The alarm is always set to a time of the schedule that has not passed, for
\* every description that is accepted (the search of Schedule.cpp:122-221, on
\* any calendar that is long enough).
THEOREM AlarmsAreScheduled ==
    ASSUME SearchEnds
    PROVE  Spec => []AlarmIsScheduled
<1>1. AlarmInv => AlarmIsScheduled
  <2> SUFFICES ASSUME AlarmInv, ~ executing PROVE next >= now /\ Matches(schedule, next)
    BY DEF AlarmIsScheduled
  <2>1. now <= next /\ Matches(schedule, next)
    BY DEF AlarmInv, IsAlarm
  <2>2. now \in Nat /\ next \in Nat
    BY ScheduleAssumption, DayOfSecond DEF AlarmInv
  <2> QED
    BY <2>1, <2>2
<1> QED
  BY <1>1, AlarmAlways, PTL

\* No time of the schedule passes while the alarm waits for a later one, except
\* for the descriptions whose retry keeps the second found, or whose day is
\* carried past the first days of the next month (Schedule.cpp:205, 211).
THEOREM NoTimeIsSkipped ==
    ASSUME SearchEnds
    PROVE  Spec => []NothingSkipped
<1>1. AlarmInv => NothingSkipped
  <2> SUFFICES ASSUME AlarmInv, ~ executing, now + 1 < next, Matches(schedule, now + 1)
               PROVE  KeepsSeconds(schedule) \/ OverflowsFar(schedule)
    BY DEF NothingSkipped
  <2>1. now \in Nat /\ next \in Seconds /\ next \in Nat
    BY ScheduleAssumption, DayOfSecond DEF AlarmInv
  <2> DEFINE E == MonthStart[Years * Length[MONTH]] * DaySeconds
             w == now + 1
  <2>2. w \in Seconds
    <3>1. next \in 0..E - 1 /\ Seconds = 0..E - 1
      BY <2>1 DEF Seconds
    <3>2. E \in Int
      <4>1. Years * Length[MONTH] \in 0..(Years + 1) * Length[MONTH]
        BY Lengths DEF ScheduleLevels, SEC, MONTH, WDAY
      <4>2. MonthStart[Years * Length[MONTH]] \in Nat
        BY <4>1, MonthsFollow
      <4> QED
        BY <4>2, DayLength, Product
    <3> HIDE DEF E
    <3> QED
      BY <2>1, <3>1, <3>2
  <2>3. now < w /\ w < next
    BY <2>1
  <2>4. IsAlarm(schedule, now, next)
    BY DEF AlarmInv
  <2> QED
    BY <2>2, <2>3, <2>4 DEF IsAlarm
<1> QED
  BY <1>1, AlarmAlways, PTL
=============================================================================
