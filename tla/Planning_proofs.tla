--------------------------- MODULE Planning_proofs ---------------------------
(* What holds of Planning for any BOM, any calendar, any assembly times and any *)
(* number of the administrator's changes.                                       *)
EXTENDS Planning, FiniteSetTheorems, SequenceTheorems, TLAPS

-----------------------------------------------------------------------------
(* Numbers and finite sets: an induction is a smallest counterexample *)

\* A set of finite sets has a member that contains no other.
LEMMA MinimalMember ==
  ASSUME NEW F, F # {}, \A T \in F : IsFiniteSet(T)
  PROVE  \E T \in F : \A U \in F : U \subseteq T => U = T
<1> DEFINE S == UNION F
           R == StrictSubsetOrdering(S)
<1>1. IsWellFoundedOn(R, FiniteSubsetsOf(S))
  BY FS_StrictSubsetOrderingWellFounded
<1>2. F \subseteq FiniteSubsetsOf(S)
  BY DEF FiniteSubsetsOf
<1>3. \E T \in F : \A U \in F : ~ (<<U, T>> \in R)
  <2> HIDE DEF R, S
  <2> QED
    BY <1>1, <1>2, WFMin
<1>4. \A U, T \in F : <<U, T>> \in R <=> U \subseteq T /\ U # T
  BY DEF StrictSubsetOrdering
<1> HIDE DEF R
<1> QED
  BY <1>3, <1>4

\* Of finitely many integers one is the least and one the greatest.
LEMMA LeastInteger ==
  ASSUME NEW T, T \subseteq Int, IsFiniteSet(T), T # {}
  PROVE  \E m \in T : \A k \in T : m <= k
<1> DEFINE Below(m) == {k \in T : k < m}
           F == {Below(m) : m \in T}
<1>1. F # {} /\ \A U \in F : IsFiniteSet(U)
  <2>1. \A m \in T : Below(m) \in SUBSET T
    OBVIOUS
  <2> HIDE DEF Below
  <2>2. \A m \in T : IsFiniteSet(Below(m))
    BY <2>1, FS_Subset
  <2> QED
    BY <2>2
<1>2. PICK M \in F : \A U \in F : U \subseteq M => U = M
  <2> HIDE DEF F
  <2> QED
    BY <1>1, MinimalMember
<1>3. PICK m \in T : M = Below(m)
  OBVIOUS
<1>4. ASSUME NEW k \in T, k < m PROVE FALSE
  <2>1. Below(k) \in F
    OBVIOUS
  <2>2. k \in M /\ k \notin Below(k)
    BY <1>3, <1>4
  <2>3. Below(k) \subseteq M
    <3>1. \A z \in T : z < k => z < m
      <4>1. \A z \in T : z \in Int
        OBVIOUS
      <4> HIDE DEF F, Below
      <4> QED
        BY <1>4, <4>1
    <3> QED
      BY <1>3, <3>1
  <2> HIDE DEF F, Below
  <2> QED
    BY <1>2, <2>1, <2>2, <2>3
<1> QED
  BY <1>4

LEMMA GreatestInteger ==
  ASSUME NEW T, T \subseteq Int, IsFiniteSet(T), T # {}
  PROVE  \E m \in T : \A k \in T : m >= k
<1> DEFINE Above(m) == {k \in T : k > m}
           F == {Above(m) : m \in T}
<1>1. F # {} /\ \A U \in F : IsFiniteSet(U)
  <2>1. \A m \in T : Above(m) \in SUBSET T
    OBVIOUS
  <2> HIDE DEF Above
  <2>2. \A m \in T : IsFiniteSet(Above(m))
    BY <2>1, FS_Subset
  <2> QED
    BY <2>2
<1>2. PICK M \in F : \A U \in F : U \subseteq M => U = M
  <2> HIDE DEF F
  <2> QED
    BY <1>1, MinimalMember
<1>3. PICK m \in T : M = Above(m)
  OBVIOUS
<1>4. ASSUME NEW k \in T, k > m PROVE FALSE
  <2>1. Above(k) \in F
    OBVIOUS
  <2>2. k \in M /\ k \notin Above(k)
    BY <1>3, <1>4
  <2>3. Above(k) \subseteq M
    <3>1. \A z \in T : z > k => z > m
      <4>1. \A z \in T : z \in Int
        OBVIOUS
      <4> HIDE DEF F, Above
      <4> QED
        BY <1>4, <4>1
    <3> QED
      BY <1>3, <3>1
  <2> HIDE DEF F, Above
  <2> QED
    BY <1>2, <2>1, <2>2, <2>3
<1> QED
  BY <1>4

\* The library's Max and Min are what they say on finite sets of integers.
LEMMA MaxIs ==
  ASSUME NEW T, T \subseteq Int, IsFiniteSet(T), T # {}
  PROVE  Max(T) \in T /\ \A k \in T : k <= Max(T)
<1>1. PICK m \in T : \A k \in T : m >= k
  BY GreatestInteger
<1>2. Max(T) \in T /\ \A k \in T : Max(T) >= k
  BY <1>1, Zenon DEF Max
<1> QED
  BY <1>2

LEMMA MinIs ==
  ASSUME NEW T, T \subseteq Int, IsFiniteSet(T), T # {}
  PROVE  Min(T) \in T /\ \A k \in T : Min(T) <= k
<1>1. PICK m \in T : \A k \in T : m <= k
  BY LeastInteger
<1> QED
  BY <1>1, Zenon DEF Min

\* What holds of zero and of the successor of each number it holds of, holds of all.
LEMMA AllNumbers ==
  ASSUME NEW S, 0 \in S, \A n \in Nat : n \in S => n + 1 \in S
  PROVE  Nat \subseteq S
<1> SUFFICES ASSUME NEW n \in Nat, n \notin S PROVE FALSE
  OBVIOUS
<1> DEFINE T == {k \in 0 .. n : k \notin S}
<1>1. T \subseteq Int /\ n \in T
  OBVIOUS
<1>2. IsFiniteSet(T)
  <2>1. T \in SUBSET (0 .. n) /\ IsFiniteSet(0 .. n)
    BY FS_Interval
  <2> HIDE DEF T
  <2> QED
    BY <2>1, FS_Subset
<1>3. PICK m \in T : \A k \in T : m <= k
  <2> HIDE DEF T
  <2> QED
    BY <1>1, <1>2, LeastInteger
<1>4. m # 0 /\ m - 1 \in Nat /\ m - 1 \notin T
  BY <1>3
<1> QED
  BY <1>3, <1>4

\* A function whose last value is given and whose other values are steps from the next.
IsChain(f, lo, hi, base, step) ==
  f = [i \in lo .. hi |-> IF i = hi THEN base ELSE step[<<i, f[i + 1]>>]]

\* A function defined from the last number of an interval down exists, and has its values
\* where its first value and its steps have theirs.
LEMMA ChainExists ==
  ASSUME NEW lo \in Int, NEW hi \in Int, lo <= hi,
         NEW V, NEW base \in V, NEW step \in [(lo .. hi) \X V -> V]
  PROVE  \E f \in [lo .. hi -> V] : IsChain(f, lo, hi, base, step)
<1> DEFINE Is(f, k) == \A i \in (hi - k) .. hi : f[i] = IF i = hi THEN base ELSE step[<<i, f[i + 1]>>]
           S == {k \in Nat : k <= hi - lo => \E f \in [(hi - k) .. hi -> V] : Is(f, k)}
<1>1. 0 \in S
  <2>1. [i \in (hi - 0) .. hi |-> base] \in [(hi - 0) .. hi -> V]
    OBVIOUS
  <2>2. Is([i \in (hi - 0) .. hi |-> base], 0)
    OBVIOUS
  <2> QED
    BY <2>1, <2>2
<1>2. ASSUME NEW n \in Nat, n \in S PROVE n + 1 \in S
  <2>1. SUFFICES ASSUME n + 1 <= hi - lo PROVE \E f \in [(hi - (n + 1)) .. hi -> V] : Is(f, n + 1)
    OBVIOUS
  <2>2. PICK f \in [(hi - n) .. hi -> V] : Is(f, n)
    BY <1>2, <2>1
  <2> DEFINE c == hi - (n + 1)
             g == [i \in c .. hi |-> IF i = c THEN step[<<c, f[c + 1]>>] ELSE f[i]]
  <2>3. c \in lo .. hi /\ c < hi /\ c + 1 = hi - n /\ c + 1 \in (hi - n) .. hi
    BY <2>1
  <2>4. f[c + 1] \in V /\ step[<<c, f[c + 1]>>] \in V
    BY <2>3
  <2>5. \A i \in c .. hi : i = c \/ i \in (hi - n) .. hi
    BY <2>3
  <2>6. g \in [c .. hi -> V]
    BY <2>4, <2>5
  <2>7. \A i \in c .. hi : g[i] = IF i = hi THEN base ELSE step[<<i, g[i + 1]>>]
    <3>1. SUFFICES ASSUME NEW i \in c .. hi
                   PROVE  g[i] = IF i = hi THEN base ELSE step[<<i, g[i + 1]>>]
      OBVIOUS
    <3>2. CASE i = c
      <4>1. g[c + 1] = f[c + 1]
        BY <2>3
      <4> QED
        BY <2>3, <3>2, <4>1
    <3>3. CASE i # c
      <4>1. i \in (hi - n) .. hi /\ g[i] = f[i]
        BY <2>3, <2>5, <3>3
      <4>2. i # hi => g[i + 1] = f[i + 1]
        BY <2>3, <3>3
      <4> QED
        BY <2>2, <4>1, <4>2
    <3> QED
      BY <3>2, <3>3
  <2> QED
    BY <2>6, <2>7
<1>3. hi - lo \in S
  <2> HIDE DEF S
  <2> QED
    BY <1>1, <1>2, AllNumbers
<1>4. PICK f \in [(hi - (hi - lo)) .. hi -> V] : Is(f, hi - lo)
  BY <1>3
<1>5. hi - (hi - lo) = lo
  OBVIOUS
<1>6. f = [i \in lo .. hi |-> f[i]]
  BY <1>5
<1>7. [i \in lo .. hi |-> f[i]] = [i \in lo .. hi |-> IF i = hi THEN base ELSE step[<<i, f[i + 1]>>]]
  BY <1>4, <1>5
<1>8. IsChain(f, lo, hi, base, step)
  BY <1>6, <1>7 DEF IsChain
<1> QED
  BY <1>5, <1>8

-----------------------------------------------------------------------------
(* The calendar *)

\* A stretch of the calendar says of every day whether it is a workday.
IsCalendar(calendar) ==
  DOMAIN calendar \subseteq Int /\ \A d \in DOMAIN calendar : calendar[d] \in BOOLEAN

\* The workdays of a calendar from one day up to another, and how many there are.
Workdays(from, to, calendar) == {d \in from .. to - 1 : IsWorkday(d, calendar)}
Count(from, to, calendar) == Cardinality(Workdays(from, to, calendar))

LEMMA WorkdayIsKnown ==
  ASSUME NEW calendar, IsCalendar(calendar), NEW d \in Int
  PROVE  IsWorkday(d, calendar) \in BOOLEAN
<1>1. d \in DOMAIN calendar => calendar[d] \in BOOLEAN
  BY DEF IsCalendar
<1>2. (d % 7 < 5) \in BOOLEAN
  OBVIOUS
<1> QED
  BY <1>1, <1>2, Zenon DEF IsWorkday

LEMMA CountIsNumber ==
  ASSUME NEW calendar, NEW from \in Int, NEW to \in Int
  PROVE  IsFiniteSet(Workdays(from, to, calendar)) /\ Count(from, to, calendar) \in Nat
<1>1. Workdays(from, to, calendar) \in SUBSET (from .. to - 1) /\ IsFiniteSet(from .. to - 1)
  BY FS_Interval DEF Workdays
<1>2. IsFiniteSet(Workdays(from, to, calendar))
  BY <1>1, FS_Subset
<1> QED
  BY <1>2, FS_CardinalityType DEF Count

\* No days, no workdays; one day more, one more if it is a workday.
LEMMA CountOfNone ==
  ASSUME NEW calendar, NEW from \in Int
  PROVE  Count(from, from, calendar) = 0
<1>1. Workdays(from, from, calendar) = {}
  BY DEF Workdays
<1> QED
  BY <1>1, FS_EmptySet DEF Count

LEMMA CountOneMore ==
  ASSUME NEW calendar, IsCalendar(calendar), NEW from \in Int, NEW to \in Int, from <= to
  PROVE  Count(from, to + 1, calendar) =
           Count(from, to, calendar) + IF IsWorkday(to, calendar) THEN 1 ELSE 0
<1>1. IsFiniteSet(Workdays(from, to, calendar)) /\ Count(from, to, calendar) \in Nat
  BY CountIsNumber
<1>2. \A d \in Int : d \in from .. (to + 1) - 1 <=> d \in from .. to - 1 \/ d = to
  OBVIOUS
<1>3. to \notin Workdays(from, to, calendar)
  BY DEF Workdays
<1>4. CASE IsWorkday(to, calendar)
  <2>1. Workdays(from, to + 1, calendar) = Workdays(from, to, calendar) \union {to}
    BY <1>2, <1>4 DEF Workdays
  <2>2. Cardinality(Workdays(from, to, calendar) \union {to}) = Count(from, to, calendar) + 1
    BY <1>1, <1>3, FS_AddElement DEF Count
  <2> QED
    BY <1>4, <2>1, <2>2 DEF Count
<1>5. CASE ~IsWorkday(to, calendar)
  <2>1. Workdays(from, to + 1, calendar) = Workdays(from, to, calendar)
    BY <1>2, <1>5 DEF Workdays
  <2> QED
    BY <1>1, <1>5, <2>1 DEF Count
<1> QED
  BY <1>4, <1>5

\* A longer stretch has no fewer workdays.
LEMMA CountGrows ==
  ASSUME NEW calendar, NEW a \in Int, NEW b \in Int, NEW c \in Int, NEW d \in Int,
         a <= b, c <= d
  PROVE  Count(b, c, calendar) <= Count(a, d, calendar)
<1>1. Workdays(b, c, calendar) \in SUBSET Workdays(a, d, calendar)
  BY DEF Workdays
<1>2. IsFiniteSet(Workdays(a, d, calendar))
  BY CountIsNumber
<1> QED
  BY <1>1, <1>2, FS_Subset DEF Count

\* Two calendars that agree on a stretch count alike on it.
LEMMA CountAgrees ==
  ASSUME NEW p, NEW q, NEW from, NEW to,
         \A d \in from .. to - 1 : IsWorkday(d, p) <=> IsWorkday(d, q)
  PROVE  Count(from, to, p) = Count(from, to, q)
<1>1. Workdays(from, to, p) = Workdays(from, to, q)
  BY DEF Workdays
<1> QED
  BY <1>1 DEF Count

-----------------------------------------------------------------------------
(* subtract_workdays *)

\* The recursion of SubtractWorkdays.
IsBack(back, from, n, calendar) ==
  back = [i \in 0 .. MaxIterations + 1 |-> [left \in 0 .. n |->
            IF left = 0 \/ i > MaxIterations
            THEN from - i
            ELSE back[i + 1][IF IsWorkday(from - i - 1, calendar) THEN left - 1 ELSE left]]]

LEMMA SubtractIs ==
  ASSUME NEW from, NEW n, NEW calendar
  PROVE  SubtractWorkdays(from, n, calendar) =
           IF n <= 0 THEN from ELSE (CHOOSE back : IsBack(back, from, n, calendar))[0][n]
BY Zenon DEF SubtractWorkdays, IsBack

LEMMA BackExists ==
  ASSUME NEW from \in Int, NEW n \in Nat, NEW calendar, IsCalendar(calendar)
  PROVE  \E back : IsBack(back, from, n, calendar)
<1> DEFINE M == MaxIterations
           V == [0 .. n -> Int]
           next(i, left) == IF IsWorkday(from - i - 1, calendar) THEN left - 1 ELSE left
           row(i, g) == [left \in 0 .. n |-> IF left = 0 THEN from - i ELSE g[next(i, left)]]
           step == [p \in (0 .. M + 1) \X V |-> row(p[1], p[2])]
           base == [left \in 0 .. n |-> from - (M + 1)]
<1>1. M \in Nat
  BY CalendarIsLoaded
<1> HIDE DEF M
<1>2. ASSUME NEW i \in 0 .. M + 1, NEW left \in 0 .. n, left # 0 PROVE next(i, left) \in 0 .. n
  BY <1>1, <1>2
<1>3. ASSUME NEW i \in 0 .. M + 1, NEW g \in V PROVE row(i, g) \in V
  BY <1>1, <1>2
<1>4. step \in [(0 .. M + 1) \X V -> V]
  <2> HIDE DEF V, row
  <2> QED
    BY <1>3
<1>5. base \in V
  BY <1>1
<1>6. PICK f \in [0 .. M + 1 -> V] : IsChain(f, 0, M + 1, base, step)
  <2>1. 0 \in Int /\ M + 1 \in Int /\ 0 <= M + 1
    BY <1>1
  <2> HIDE DEF V, base, step, row, next
  <2> QED
    BY <1>4, <1>5, <2>1, ChainExists
<1>7. ASSUME NEW i \in 0 .. M + 1
      PROVE  f[i] = [left \in 0 .. n |-> IF left = 0 \/ i > M THEN from - i ELSE f[i + 1][next(i, left)]]
  <2>1. CASE i = M + 1
    <3>1. f[i] = base
      BY <1>6, <2>1 DEF IsChain
    <3>2. base = [left \in 0 .. n |-> IF left = 0 \/ i > M THEN from - i ELSE f[i + 1][next(i, left)]]
      BY <1>1, <2>1
    <3> QED
      BY <3>1, <3>2
  <2>2. CASE i # M + 1
    <3>1. i <= M /\ i + 1 \in 0 .. M + 1
      BY <1>1, <2>2
    <3>2. <<i, f[i + 1]>> \in (0 .. M + 1) \X V
      BY <1>6, <3>1
    <3>3. f[i] = step[<<i, f[i + 1]>>]
      BY <1>6, <2>2 DEF IsChain
    <3>4. step[<<i, f[i + 1]>>] = row(i, f[i + 1])
      <4> HIDE DEF row, V
      <4> QED
        BY <3>2
    <3>5. row(i, f[i + 1]) = [left \in 0 .. n |-> IF left = 0 \/ i > M THEN from - i
                                                   ELSE f[i + 1][next(i, left)]]
      BY <1>1, <3>1
    <3> QED
      BY <3>3, <3>4, <3>5
  <2> QED
    BY <2>1, <2>2
<1>8. IsBack(f, from, n, calendar)
  <2>1. f = [i \in 0 .. M + 1 |-> f[i]]
    BY <1>6
  <2>2. [i \in 0 .. M + 1 |-> f[i]] =
          [i \in 0 .. M + 1 |->
             [left \in 0 .. n |-> IF left = 0 \/ i > M THEN from - i ELSE f[i + 1][next(i, left)]]]
    BY <1>7
  <2> QED
    BY <2>1, <2>2, Zenon DEF IsBack, M
<1> QED
  BY <1>8

\* The day the loop over the days stops at when it began at one day, has come back to
\* another and has some workdays left: with that many workdays behind it unless the loop
\* was cut off, and no day too early.
IsReached(day, begun, from, left, calendar) ==
  /\ day \in Int /\ day <= from /\ begun - day <= MaxIterations + 1
  /\ begun - day <= MaxIterations => Count(day, from, calendar) = left
  /\ \A x \in Int : day < x /\ x <= from => Count(x, from, calendar) < left

LEMMA BackReaches ==
  ASSUME NEW from \in Int, NEW n \in Nat, NEW calendar, IsCalendar(calendar),
         NEW back, IsBack(back, from, n, calendar)
  PROVE  \A i \in 0 .. MaxIterations + 1 : \A left \in 0 .. n :
           IsReached(back[i][left], from, from - i, left, calendar)
<1> DEFINE M == MaxIterations
           At(i) == \A left \in 0 .. n : IsReached(back[i][left], from, from - i, left, calendar)
           S == {k \in Nat : k <= M + 1 => At(M + 1 - k)}
           next(i, left) == IF IsWorkday(from - i - 1, calendar) THEN left - 1 ELSE left
<1>1. M \in Nat
  BY CalendarIsLoaded
<1>2. ASSUME NEW i \in 0 .. M + 1, NEW left \in 0 .. n
      PROVE  back[i][left] = IF left = 0 \/ i > M THEN from - i ELSE back[i + 1][next(i, left)]
  <2>1. back[i] = [l \in 0 .. n |-> IF l = 0 \/ i > M THEN from - i ELSE back[i + 1][next(i, l)]]
    BY Zenon DEF IsBack
  <2> QED
    BY <2>1
<1> HIDE DEF M
<1>3. ASSUME NEW i \in 0 .. M + 1, NEW left \in 0 .. n, left = 0 \/ i > M
      PROVE  IsReached(back[i][left], from, from - i, left, calendar)
  <2>1. back[i][left] = from - i
    BY <1>2, <1>3
  <2>2. i = M + 1 \/ left = 0
    BY <1>1, <1>3
  <2>3. Count(from - i, from - i, calendar) = 0
    BY <1>1, CountOfNone
  <2>4. from - (from - i) = i
    BY <1>1
  <2> QED
    BY <1>1, <2>1, <2>2, <2>3, <2>4 DEF IsReached, M
<1>4. ASSUME NEW i \in 0 .. M, At(i + 1) PROVE At(i)
  <2>1. SUFFICES ASSUME NEW left \in 0 .. n, left # 0
                 PROVE  IsReached(back[i][left], from, from - i, left, calendar)
    <3>1. i \in 0 .. M + 1
      BY <1>1
    <3> QED
      BY <1>3, <3>1
  <2> DEFINE day == from - i - 1
             r == back[i + 1][next(i, left)]
             more == IF IsWorkday(day, calendar) THEN 1 ELSE 0
  <2>2. /\ i \in 0 .. M + 1 /\ i + 1 \in 0 .. M + 1 /\ ~(i > M)
        /\ day \in Int /\ from - (i + 1) = day /\ from - i = day + 1
    BY <1>1
  <2>3. next(i, left) \in 0 .. n /\ next(i, left) = left - more /\ more \in {0, 1}
    BY <2>1
  <2>4. back[i][left] = r
    BY <1>2, <2>1, <2>2
  <2> HIDE DEF day, next, r, more
  <2>5. IsReached(r, from, day, left - more, calendar)
    <3>1. IsReached(back[i + 1][next(i, left)], from, from - (i + 1), next(i, left), calendar)
      BY <1>4, <2>3
    <3> QED
      BY <2>2, <2>3, <3>1 DEF r
  <2>6. /\ r \in Int /\ r <= day /\ from - r <= M + 1
        /\ from - r <= M => Count(r, day, calendar) = left - more
        /\ \A x \in Int : r < x /\ x <= day => Count(x, day, calendar) < left - more
    BY <2>5 DEF IsReached, M
  <2>7. \A x \in Int : x <= day => /\ Count(x, day + 1, calendar) = Count(x, day, calendar) + more
                                   /\ Count(x, day, calendar) \in Nat
    BY <2>2, CountOneMore, CountIsNumber DEF more
  <2>8. Count(day + 1, day + 1, calendar) = 0
    BY <2>2, CountOfNone
  <2>9. from - r <= M => Count(r, day + 1, calendar) = left
    BY <2>3, <2>6, <2>7
  <2>10. ASSUME NEW x \in Int, r < x, x <= day + 1 PROVE Count(x, day + 1, calendar) < left
    <3>1. CASE x <= day
      BY <2>2, <2>3, <2>6, <2>7, <2>10, <3>1
    <3>2. CASE ~(x <= day)
      <4>1. x = day + 1
        BY <2>2, <2>10, <3>2
      <4> QED
        BY <2>1, <2>8, <4>1
    <3> QED
      BY <3>1, <3>2
  <2>11. r <= day + 1
    BY <2>2, <2>6
  <2> QED
    BY <2>2, <2>4, <2>6, <2>9, <2>10, <2>11 DEF IsReached, M
<1>5. 0 \in S
  <2>1. M + 1 - 0 \in 0 .. M + 1 /\ M + 1 - 0 > M
    BY <1>1
  <2>2. At(M + 1 - 0)
    BY <1>3, <2>1
  <2> HIDE DEF At
  <2> QED
    BY <2>2
<1>6. ASSUME NEW k \in Nat, k \in S PROVE k + 1 \in S
  <2>1. SUFFICES ASSUME k + 1 <= M + 1 PROVE At(M + 1 - (k + 1))
    <3> HIDE DEF At
    <3> QED
      OBVIOUS
  <2>2. M + 1 - (k + 1) \in 0 .. M /\ M + 1 - k = (M + 1 - (k + 1)) + 1
    BY <1>1, <2>1
  <2>3. At(M + 1 - k)
    <3>1. k <= M + 1
      BY <1>1, <2>1
    <3> HIDE DEF At
    <3> QED
      BY <1>6, <3>1
  <2>4. At((M + 1 - (k + 1)) + 1)
    <3> HIDE DEF At
    <3> QED
      BY <2>2, <2>3
  <2> HIDE DEF At
  <2> QED
    BY <1>4, <2>2, <2>4
<1>7. ASSUME NEW i \in 0 .. M + 1 PROVE At(i)
  <2>1. M + 1 - i \in Nat /\ M + 1 - i <= M + 1 /\ M + 1 - (M + 1 - i) = i
    BY <1>1
  <2>2. M + 1 - i \in S
    <3> HIDE DEF S
    <3> QED
      BY <1>5, <1>6, <2>1, AllNumbers
  <2> HIDE DEF At
  <2> QED
    BY <2>1, <2>2
<1> QED
  BY <1>7 DEF M

\* What subtract_workdays (calendar_utils) returns, for any calendar: unless its cap cuts it, a
\* day from which exactly n workdays pass, and from no later day do as many; the day
\* itself if n is not positive; and never a day further back than the cap.
THEOREM SubtractReaches ==
  ASSUME NEW from \in Int, NEW n \in Int, NEW calendar, IsCalendar(calendar)
  PROVE  LET day == SubtractWorkdays(from, n, calendar)
         IN /\ day \in Int /\ day <= from /\ from - day <= MaxIterations + 1
            /\ n <= 0 => day = from
            /\ n >= 0 /\ from - day <= MaxIterations => Count(day, from, calendar) = n
            /\ \A x \in Int : day < x /\ x <= from => Count(x, from, calendar) < n
<1>1. MaxIterations \in Nat
  BY CalendarIsLoaded
<1>2. CASE n <= 0
  <2>1. SubtractWorkdays(from, n, calendar) = from
    BY <1>2, SubtractIs
  <2>2. Count(from, from, calendar) = 0
    BY CountOfNone
  <2> QED
    BY <1>1, <1>2, <2>1, <2>2
<1>3. CASE ~(n <= 0)
  <2> DEFINE back == CHOOSE b : IsBack(b, from, n, calendar)
  <2>1. n \in Nat /\ n > 0
    BY <1>3
  <2>2. IsBack(back, from, n, calendar)
    BY <2>1, BackExists
  <2>3. SubtractWorkdays(from, n, calendar) = back[0][n]
    BY <1>3, SubtractIs
  <2> HIDE DEF back
  <2>4. 0 \in 0 .. MaxIterations + 1 /\ n \in 0 .. n /\ from - 0 = from
    BY <1>1, <2>1
  <2>5. IsReached(back[0][n], from, from - 0, n, calendar)
    BY <2>1, <2>2, <2>4, BackReaches
  <2> QED
    BY <2>1, <2>3, <2>4, <2>5 DEF IsReached
<1> QED
  BY <1>2, <1>3

-----------------------------------------------------------------------------
(* What a step loads of the calendar *)

LEMMA EntriesAreCalendar ==
  ASSUME world \in Worlds
  PROVE  IsCalendar(world.entries) /\ world.today \in Int
BY WorldsAreTables DEF IsCalendar

\* On the days a step loads, the calendar is the factory's.
LEMMA LoadedIs ==
  ASSUME world \in Worlds, NEW first \in Int, NEW last \in Int
  PROVE  /\ IsCalendar(Calendar(first, last))
         /\ \A d \in first .. last :
              IsWorkday(d, Calendar(first, last)) <=> IsWorkday(d, world.entries)
<1> DEFINE entries == world.entries
           loaded == Calendar(first, last)
<1>1. IsCalendar(entries)
  BY EntriesAreCalendar
<1>2. loaded = [d \in DOMAIN entries \intersect (first .. last) |-> entries[d]]
  BY DEF Calendar, Restrict
<1> HIDE DEF entries, loaded
<1>3. IsCalendar(loaded)
  BY <1>1, <1>2 DEF IsCalendar
<1>4. ASSUME NEW d \in first .. last PROVE IsWorkday(d, loaded) <=> IsWorkday(d, entries)
  <2>1. d \in DOMAIN loaded <=> d \in DOMAIN entries
    BY <1>2
  <2>2. d \in DOMAIN loaded => loaded[d] = entries[d]
    BY <1>2
  <2> QED
    BY <2>1, <2>2, Zenon DEF IsWorkday
<1> QED
  BY <1>3, <1>4 DEF loaded, entries

LEMMA FactoryDaysIs ==
  ASSUME NEW from, NEW to
  PROVE  FactoryDays(from, to) = Count(from, to, world.entries)
BY Zenon DEF FactoryDays, Count, Workdays

\* Counting back in a loaded stretch, without leaving it, counts the factory's workdays.
LEMMA BackInside ==
  ASSUME world \in Worlds, NEW first \in Int, NEW last \in Int, NEW from \in Int, NEW n \in Int,
         from <= last + 1,
         NEW day, day = SubtractWorkdays(from, n, Calendar(first, last)),
         day >= first, from - day <= MaxIterations
  PROVE  /\ day \in Int /\ day <= from
         /\ n >= 0 => FactoryDays(day, from) = n
         /\ \A x \in Int : day < x /\ x <= from => FactoryDays(x, from) < n
<1> DEFINE loaded == Calendar(first, last)
<1>1. IsCalendar(loaded)
  BY LoadedIs
<1>2. /\ day \in Int /\ day <= from
      /\ n >= 0 /\ from - day <= MaxIterations => Count(day, from, loaded) = n
      /\ \A x \in Int : day < x /\ x <= from => Count(x, from, loaded) < n
  <2> HIDE DEF loaded
  <2> QED
    BY <1>1, SubtractReaches DEF loaded
<1>3. ASSUME NEW x \in Int, day <= x PROVE Count(x, from, loaded) = FactoryDays(x, from)
  <2>1. \A d \in x .. from - 1 : d \in first .. last
    BY <1>2, <1>3
  <2>2. \A d \in x .. from - 1 : IsWorkday(d, loaded) <=> IsWorkday(d, world.entries)
    BY <2>1, LoadedIs
  <2>3. Count(x, from, loaded) = Count(x, from, world.entries)
    <3> HIDE DEF loaded
    <3> QED
      BY <2>2, CountAgrees
  <2> QED
    BY <2>3, FactoryDaysIs
<1> HIDE DEF loaded
<1> QED
  BY <1>2, <1>3

LEMMA FactoryDaysGrow ==
  ASSUME NEW a \in Int, NEW b \in Int, NEW c \in Int, NEW d \in Int, a <= b, c <= d
  PROVE  /\ FactoryDays(b, c) <= FactoryDays(a, d)
         /\ FactoryDays(b, c) \in Nat /\ FactoryDays(a, d) \in Nat
BY CountGrows, CountIsNumber, FactoryDaysIs

-----------------------------------------------------------------------------
(* The check and the machine plan *)

LEMMA WholeDaysIs ==
  ASSUME NEW halves \in Int
  PROVE  WholeDays(halves) \in Int /\ (halves >= 0 => WholeDays(halves) >= 0)
BY DEF WholeDays

LEMMA DistanceIs ==
  ASSUME NEW a \in Nat, NEW b \in Nat
  PROVE  Distance(a, b) \in Nat
BY DEF Distance

\* A machine has a cycle whatever the baselines.
LEMMA MachineCycleIs ==
  ASSUME world \in Worlds
  PROVE  MachineCycle \in Int
<1> DEFINE known == world.baselines
           qty == IF world.qty = 0 THEN 1 ELSE world.qty
           Nearest(q) == q \in DOMAIN known /\ \A r \in DOMAIN known :
                           \/ Distance(q, qty) < Distance(r, qty)
                           \/ Distance(q, qty) = Distance(r, qty) /\ q <= r
           nearest == CHOOSE q \in DOMAIN known : \A r \in DOMAIN known :
                           \/ Distance(q, qty) < Distance(r, qty)
                           \/ Distance(q, qty) = Distance(r, qty) /\ q <= r
<1>1. /\ qty \in Nat /\ qty # 0
      /\ DOMAIN known \subseteq Nat /\ IsFiniteSet(DOMAIN known)
      /\ \A q \in DOMAIN known : known[q] \in Int
  BY WorldsAreTables
<1> HIDE DEF known, qty
<1>2. ASSUME DOMAIN known # {} PROVE \E q : Nearest(q)
  <2> DEFINE far == {Distance(q, qty) : q \in DOMAIN known}
  <2>1. far \subseteq Int /\ far # {}
    BY <1>1, <1>2, DistanceIs
  <2>2. IsFiniteSet(far)
    <3>1. IsFiniteSet(DOMAIN known)
      BY <1>1
    <3> DEFINE at == [q \in DOMAIN known |-> Distance(q, qty)]
    <3>2. at \in Surjection(DOMAIN known, far)
      BY DEF Surjection
    <3> HIDE DEF far, at
    <3> QED
      BY <3>1, <3>2, FS_Surjection
  <2>3. PICK m \in far : \A k \in far : m <= k
    <3> HIDE DEF far
    <3> QED
      BY <2>1, <2>2, LeastInteger
  <2> DEFINE near == {q \in DOMAIN known : Distance(q, qty) = m}
  <2>4. near \subseteq Int /\ near # {} /\ near \in SUBSET DOMAIN known
    BY <1>1, <2>3
  <2>5. PICK q \in near : \A k \in near : q <= k
    <3> HIDE DEF near
    <3>1. IsFiniteSet(near)
      BY <1>1, <2>4, FS_Subset
    <3> QED
      BY <2>4, <3>1, LeastInteger
  <2>6. ASSUME NEW r \in DOMAIN known
        PROVE  \/ Distance(q, qty) < Distance(r, qty)
               \/ Distance(q, qty) = Distance(r, qty) /\ q <= r
    <3>1. Distance(q, qty) = m /\ m <= Distance(r, qty) /\ Distance(r, qty) \in Int /\ m \in Int
      BY <1>1, <2>3, <2>5, DistanceIs
    <3> QED
      BY <2>5, <3>1
  <2> QED
    BY <2>5, <2>6
<1>3. DOMAIN known # {} => nearest \in DOMAIN known
  BY <1>2, Zenon
<1> HIDE DEF nearest
<1>4. CASE qty \in DOMAIN known
  <2>1. MachineCycle = known[qty]
    BY <1>4, Zenon DEF MachineCycle, known, qty
  <2> QED
    BY <1>1, <1>4, <2>1
<1>5. CASE qty \notin DOMAIN known /\ DOMAIN known = {}
  <2>1. MachineCycle = DefaultCycle
    BY <1>5, Zenon DEF MachineCycle, known, qty
  <2> QED
    BY <2>1, TimesAreNumbers
<1>6. CASE qty \notin DOMAIN known /\ DOMAIN known # {}
  <2>1. MachineCycle = IF nearest = 0 THEN known[nearest] ELSE (known[nearest] * qty) \div nearest
    BY <1>6, Zenon DEF MachineCycle, known, qty, nearest
  <2>2. nearest \in Nat /\ known[nearest] \in Int
    BY <1>1, <1>3, <1>6
  <2>3. \A c, d \in Int : c * d \in Int
    OBVIOUS
  <2>4. \A c \in Int : \A d \in Nat : d # 0 => c \div d \in Int
    OBVIOUS
  <2> QED
    BY <1>1, <2>1, <2>2, <2>3, <2>4
<1> QED
  BY <1>4, <1>5, <1>6

\* The machine plan's dates lie in the calendar it loaded and within the cap.
MachineFitsCalendar ==
  /\ PlannedStart >= Delivery - (WholeDays(MachineCycle) * 2 + CycleSlack)
  /\ Delivery - PlannedStart <= MaxIterations

\* They do when the stretch it loads, which the cap must not cut, has as many of the
\* factory's workdays as the cycle takes.
MachineHasDays ==
  LET days == WholeDays(MachineCycle)
      reach == days * 2 + CycleSlack
  IN reach \in 0 .. MaxIterations /\ FactoryDays(Delivery - reach, Delivery) >= days

LEMMA DaysSuffice ==
  ASSUME world \in Worlds, MachineHasDays
  PROVE  MachineFitsCalendar
<1> DEFINE n == WholeDays(MachineCycle)
           early == Delivery - (n * 2 + CycleSlack)
           last == Delivery + EndSlack
<1>1. /\ n \in Int /\ Delivery \in Int
      /\ {CycleSlack, EndSlack, MaxIterations} \subseteq Nat
  BY MachineCycleIs, WholeDaysIs, CalendarIsLoaded
<1>2. PlannedStart = SubtractWorkdays(Delivery, n, Calendar(early, last))
  BY DEF PlannedStart
<1>3. n * 2 + CycleSlack \in 0 .. MaxIterations /\ FactoryDays(early, Delivery) >= n
  BY DEF MachineHasDays
<1> HIDE DEF n
<1>4. /\ early \in Int /\ last \in Int /\ early <= Delivery /\ Delivery <= last
      /\ Delivery - early <= MaxIterations
  BY <1>1, <1>3
<1> HIDE DEF early, last
<1>5. IsCalendar(Calendar(early, last))
  BY <1>4, LoadedIs
<1>6. /\ PlannedStart \in Int
      /\ \A x \in Int : PlannedStart < x /\ x <= Delivery => Count(x, Delivery, Calendar(early, last)) < n
  BY <1>1, <1>2, <1>5, SubtractReaches
<1>7. Count(early, Delivery, Calendar(early, last)) = FactoryDays(early, Delivery)
  <2>1. \A d \in early .. Delivery - 1 :
          IsWorkday(d, Calendar(early, last)) <=> IsWorkday(d, world.entries)
    BY <1>1, <1>4, LoadedIs
  <2> QED
    BY <2>1, CountAgrees, FactoryDaysIs
<1>8. FactoryDays(early, Delivery) \in Nat
  BY <1>1, <1>4, FactoryDaysGrow
<1>9. PlannedStart >= early
  BY <1>1, <1>3, <1>4, <1>6, <1>7, <1>8
<1>10. Delivery - PlannedStart <= MaxIterations
  BY <1>1, <1>4, <1>6, <1>9
<1> QED
  BY <1>9, <1>10 DEF MachineFitsCalendar, early, n

LEMMA TriggerMatches ==
  ASSUME world \in Worlds, MachineFitsCalendar
  PROVE  PlannedStart \in Int /\ (world.today < TriggerDate <=> world.today < PlannedStart)
<1> DEFINE n == WholeDays(MachineCycle)
           early == Delivery - (n * 2 + CycleSlack)
           seen == world.today - CheckSlack
           last == Delivery + EndSlack
<1>1. /\ n \in Int /\ Delivery \in Int /\ world.today \in Int
      /\ {CheckSlack, CycleSlack, EndSlack, MaxIterations} \subseteq Nat
  BY MachineCycleIs, WholeDaysIs, CalendarIsLoaded, EntriesAreCalendar
<1>2. /\ PlannedStart = SubtractWorkdays(Delivery, n, Calendar(early, last))
      /\ TriggerDate = SubtractWorkdays(Delivery, n, Calendar(seen, last))
  BY DEF PlannedStart, TriggerDate
<1>3. PlannedStart >= early /\ Delivery - PlannedStart <= MaxIterations
  BY DEF MachineFitsCalendar
<1> HIDE DEF n
<1>4. early \in Int /\ seen \in Int /\ last \in Int /\ Delivery <= last + 1 /\ seen <= world.today
  BY <1>1
<1> HIDE DEF early, last, seen
<1>5. /\ PlannedStart \in Int /\ PlannedStart <= Delivery
      /\ n >= 0 => FactoryDays(PlannedStart, Delivery) = n
      /\ \A x \in Int : PlannedStart < x /\ x <= Delivery => FactoryDays(x, Delivery) < n
  BY <1>1, <1>2, <1>3, <1>4, BackInside
<1>6. /\ TriggerDate \in Int /\ TriggerDate <= Delivery
      /\ n <= 0 => TriggerDate = Delivery
      /\ \A x \in Int : TriggerDate < x /\ x <= Delivery => Count(x, Delivery, Calendar(seen, last)) < n
  <2>1. IsCalendar(Calendar(seen, last))
    BY <1>4, LoadedIs
  <2> QED
    BY <1>1, <1>2, <2>1, SubtractReaches
<1>7. n <= 0 => PlannedStart = Delivery
  <2>1. IsCalendar(Calendar(early, last))
    BY <1>4, LoadedIs
  <2> QED
    BY <1>1, <1>2, <2>1, SubtractReaches
<1>8. ASSUME TriggerDate >= seen, Delivery - TriggerDate <= MaxIterations
      PROVE  /\ n >= 0 => FactoryDays(TriggerDate, Delivery) = n
             /\ \A x \in Int : TriggerDate < x /\ x <= Delivery => FactoryDays(x, Delivery) < n
  <2>1. /\ world \in Worlds /\ n \in Int /\ Delivery \in Int /\ Delivery <= last + 1
        /\ TriggerDate = SubtractWorkdays(Delivery, n, Calendar(seen, last))
    BY <1>1, <1>2, <1>4
  <2>2. ASSUME NEW t, t = SubtractWorkdays(Delivery, n, Calendar(seen, last)),
               t >= seen, Delivery - t <= MaxIterations
        PROVE  /\ n >= 0 => FactoryDays(t, Delivery) = n
               /\ \A x \in Int : t < x /\ x <= Delivery => FactoryDays(x, Delivery) < n
    BY <1>4, <2>1, <2>2, BackInside
  <2> QED
    BY <1>8, <2>1, <2>2
<1>9. CASE n > 0 /\ TriggerDate > PlannedStart
  <2>1. Delivery - TriggerDate <= MaxIterations
    BY <1>1, <1>3, <1>5, <1>6, <1>9
  <2>2. FactoryDays(TriggerDate, Delivery) < n
    BY <1>5, <1>6, <1>9
  <2>3. ~(TriggerDate >= seen)
    BY <1>1, <1>8, <1>9, <2>1, <2>2
  <2> QED
    BY <1>1, <1>4, <1>5, <1>6, <1>9, <2>3
<1>10. CASE n > 0 /\ TriggerDate < PlannedStart
  <2>1. Count(PlannedStart, Delivery, Calendar(seen, last)) < n
    BY <1>5, <1>6, <1>10
  <2>2. ASSUME seen <= PlannedStart PROVE FALSE
    <3>1. \A d \in PlannedStart .. Delivery - 1 : d \in seen .. last
      BY <1>4, <1>5, <2>2, <1>1
    <3>2. \A d \in PlannedStart .. Delivery - 1 :
            IsWorkday(d, Calendar(seen, last)) <=> IsWorkday(d, world.entries)
      BY <1>4, <3>1, LoadedIs
    <3>3. Count(PlannedStart, Delivery, Calendar(seen, last)) = FactoryDays(PlannedStart, Delivery)
      BY <3>2, CountAgrees, FactoryDaysIs
    <3> QED
      BY <1>1, <1>5, <1>10, <2>1, <3>3
  <2> QED
    BY <1>1, <1>4, <1>5, <1>6, <1>10, <2>2
<1> QED
  BY <1>1, <1>5, <1>6, <1>7, <1>9, <1>10

\* The last verdict is the check's on what planning finds, which nothing changes.
VerdictInv ==
  /\ world \in Worlds
  /\ verdict = "schedulable" => ~(world.today < TriggerDate)
  /\ verdict = "pending_trigger" => world.today < TriggerDate

LEMMA VerdictInit == Init => VerdictInv
BY NamesAreListed DEF Init, VerdictInv

\* MachineCycle of a table of baselines and a quantity.
CycleOf(known, ordered) ==
  LET qty == IF ordered = 0 THEN 1 ELSE ordered
      nearest == CHOOSE q \in DOMAIN known : \A r \in DOMAIN known :
                   \/ Distance(q, qty) < Distance(r, qty)
                   \/ Distance(q, qty) = Distance(r, qty) /\ q <= r
  IN CASE qty \in DOMAIN known -> known[qty]
       [] DOMAIN known = {} -> DefaultCycle
       [] OTHER -> IF nearest = 0 THEN known[nearest] ELSE (known[nearest] * qty) \div nearest

LEMMA SameWorld ==
  ASSUME world' = world
  PROVE  /\ MachineCycle' = MachineCycle
         /\ TriggerDate' = TriggerDate
         /\ PlannedStart' = PlannedStart
<1>1. \A a, b : Calendar(a, b)' = Calendar(a, b)
  BY Zenon DEF Calendar
<1>2. MachineCycle' = MachineCycle
  <2>1. MachineCycle = CycleOf(world.baselines, world.qty)
    BY Zenon DEF MachineCycle, CycleOf
  <2>2. MachineCycle' = CycleOf(world'.baselines, world'.qty)
    BY Zenon DEF MachineCycle, CycleOf
  <2> QED
    BY <2>1, <2>2
<1>3. TriggerDate' = TriggerDate
  BY <1>1, <1>2, Zenon DEF TriggerDate
<1>4. PlannedStart' = PlannedStart
  BY <1>1, <1>2, Zenon DEF PlannedStart
<1> QED
  BY <1>2, <1>3, <1>4

LEMMA WorldIsFixed == [Next]_vars => world' = world
BY DEF Next, vars, CheckOrder, BuildMachine, BuildParts, SaveTime, DeleteTime, Edit

LEMMA VerdictStep == VerdictInv /\ [Next]_vars => VerdictInv'
<1> SUFFICES ASSUME VerdictInv, [Next]_vars PROVE VerdictInv'
  OBVIOUS
<1>1. world' = world
  BY WorldIsFixed
<1>2. TriggerDate' = TriggerDate
  BY <1>1, SameWorld
<1>3. CASE CheckOrder
  <2>1. verdict' \in {"missing_bom", "pending_trigger", "schedulable"}
    BY <1>3, Zenon DEF CheckOrder
  <2>2. verdict' = "schedulable" => ~(world.today < TriggerDate)
    BY <1>3, Zenon DEF CheckOrder
  <2>3. verdict' = "pending_trigger" => world.today < TriggerDate
    BY <1>3, Zenon DEF CheckOrder
  <2> QED
    BY <1>1, <1>2, <2>2, <2>3 DEF VerdictInv
<1>4. CASE UNCHANGED verdict
  BY <1>1, <1>2, <1>4 DEF VerdictInv
<1> QED
  BY <1>3, <1>4 DEF Next, vars, BuildMachine, BuildParts, SaveTime, DeleteTime, Edit

LEMMA VerdictHolds == Spec => []VerdictInv
BY VerdictInit, VerdictStep, PTL DEF Spec

\* The check (schedule_check_service) and the machine plan (machine_schedule_service) load
\* different stretches of the calendar; as long as the plan's dates lie in what it loaded,
\* they agree on whether the planned start has come, for any calendar and any cycle.
THEOREM VerdictAgrees == Spec => [](MachineFitsCalendar => VerdictMatchesPlan)
<1>1. VerdictInv => (MachineFitsCalendar => VerdictMatchesPlan)
  <2> SUFFICES ASSUME VerdictInv, MachineFitsCalendar PROVE VerdictMatchesPlan
    OBVIOUS
  <2>1. /\ PlannedStart \in Int /\ world.today \in Int
        /\ world.today < TriggerDate <=> world.today < PlannedStart
    BY TriggerMatches, EntriesAreCalendar DEF VerdictInv
  <2> QED
    BY <2>1 DEF VerdictInv, VerdictMatchesPlan
<1> QED
  BY <1>1, VerdictHolds, PTL

\* Of any order, then, whose cycle fits the workdays the machine plan loads: the schedule
\* check finds it schedulable exactly when the planned start has come.
THEOREM VerdictAgreesInTime == Spec => [](MachineHasDays => VerdictMatchesPlan)
<1>1. VerdictInv => (MachineHasDays => MachineFitsCalendar)
  BY DaysSuffice DEF VerdictInv
<1> QED
  BY <1>1, VerdictHolds, VerdictAgrees, PTL

-----------------------------------------------------------------------------
(* The assembly times *)

TimeRow == [seq : Int, half : Int, final : BOOLEAN]

IsTable(table) == DOMAIN table \subseteq Names /\ table \in [DOMAIN table -> TimeRow]

LEMMA FinalsAndSubs ==
  ASSUME NEW table, IsTable(table)
  PROVE  /\ DOMAIN table = Finals(table) \union Subs(table)
         /\ Finals(table) \intersect Subs(table) = {}
         /\ Whole \in DOMAIN table => Whole \in Finals(table)
BY DEF Finals, Subs, IsTable, TimeRow

\* The last sequence of the assemblies other than the final one.
LEMMA LastSubIs ==
  ASSUME NEW table, IsTable(table)
  PROVE  LastSub(table) \in Int /\ \A n \in Subs(table) : table[n].seq <= LastSub(table)
<1> DEFINE seqs == {table[n].seq : n \in Subs(table)}
<1>1. seqs \subseteq Int
  BY DEF Subs, IsTable, TimeRow
<1>2. IsFiniteSet(seqs)
  <2> DEFINE seqOf == [n \in Subs(table) |-> table[n].seq]
  <2>1. Subs(table) \in SUBSET Names
    BY DEF Subs, IsTable
  <2>2. IsFiniteSet(Subs(table))
    BY <2>1, NamesAreListed, FS_Subset
  <2>3. seqOf \in Surjection(Subs(table), seqs)
    BY DEF Surjection
  <2> HIDE DEF seqs, seqOf
  <2> QED
    BY <2>2, <2>3, FS_Surjection
<1>3. LastSub(table) = IF seqs = {} THEN 0 ELSE Max(seqs)
  BY DEF LastSub
<1>4. \A n \in Subs(table) : table[n].seq \in seqs
  OBVIOUS
<1> HIDE DEF seqs
<1>5. CASE seqs = {}
  BY <1>3, <1>4, <1>5
<1>6. CASE seqs # {}
  <2>1. Max(seqs) \in seqs /\ \A k \in seqs : k <= Max(seqs)
    BY <1>1, <1>2, <1>6, MaxIs
  <2> QED
    BY <1>1, <1>3, <1>4, <1>6, <2>1
<1> QED
  BY <1>5, <1>6

\* Reconciling leaves which rows are final, the other rows and all times, and puts the
\* final assembly of that name last.
LEMMA ReconcileIs ==
  ASSUME NEW table, IsTable(table)
  PROVE  LET new == Reconcile(table)
         IN /\ IsTable(new) /\ DOMAIN new = DOMAIN table
            /\ Finals(new) = Finals(table) /\ Subs(new) = Subs(table)
            /\ \A n \in Subs(table) : new[n] = table[n]
            /\ \A n \in DOMAIN table : new[n].half = table[n].half
            /\ Whole \in DOMAIN new => \A n \in Subs(new) : new[n].seq < new[Whole].seq
<1> DEFINE new == Reconcile(table)
           last(n) == IF n = Whole THEN LastSub(table) + 1 ELSE DefaultSeq[n]
<1>1. LastSub(table) \in Int /\ \A n \in Subs(table) : table[n].seq <= LastSub(table)
  BY LastSubIs
<1>2. DOMAIN new = DOMAIN table
  BY DEF Reconcile
<1>3. \A n \in DOMAIN table : table[n] \in TimeRow /\ n \in Names
  BY DEF IsTable
<1>4. \A n \in DOMAIN table : last(n) \in Int
  BY <1>1, <1>3, TimesAreNumbers
<1>5. \A n \in Finals(table) : new[n] = [table[n] EXCEPT !.final = TRUE, !.seq = last(n)]
  BY DEF Reconcile, Finals
<1>6. \A n \in DOMAIN table : n \notin Finals(table) => new[n] = table[n]
  BY DEF Reconcile
<1>7. Finals(table) \subseteq DOMAIN table
  BY DEF Finals
<1> HIDE DEF last
<1>8. ASSUME NEW n \in Finals(table)
      PROVE  /\ new[n] \in TimeRow /\ new[n].final = TRUE /\ new[n].seq = last(n)
             /\ new[n].half = table[n].half
  <2> HIDE DEF new
  <2>1. PICK row \in TimeRow : row = table[n]
    BY <1>3, <1>7
  <2>2. new[n] = [row EXCEPT !.final = TRUE, !.seq = last(n)] /\ last(n) \in Int
    BY <1>4, <1>5, <1>7, <2>1
  <2> QED
    BY <2>1, <2>2 DEF TimeRow
<1>9. ASSUME NEW n \in DOMAIN table PROVE new[n] \in TimeRow /\ new[n].half = table[n].half
  <2> HIDE DEF new
  <2> QED
    BY <1>3, <1>6, <1>8
<1>10. IsTable(new)
  <2>1. new = [n \in DOMAIN table |-> new[n]]
    BY DEF Reconcile
  <2>2. DOMAIN table \subseteq Names
    BY DEF IsTable
  <2> HIDE DEF new
  <2> QED
    BY <1>2, <1>9, <2>1, <2>2 DEF IsTable
<1>11. Finals(new) = Finals(table)
  <2> HIDE DEF new
  <2>1. \A n \in DOMAIN table : n \in Finals(new) <=> n \in Finals(table)
    BY <1>2, <1>6, <1>8 DEF Finals
  <2>2. Finals(new) \subseteq DOMAIN table
    BY <1>2 DEF Finals
  <2> QED
    BY <1>7, <2>1, <2>2
<1>12. Subs(new) = Subs(table)
  <2> HIDE DEF new
  <2>1. \A t : IsTable(t) => Subs(t) = DOMAIN t \ Finals(t)
    BY FinalsAndSubs
  <2> QED
    BY <1>2, <1>10, <1>11, <2>1
<1>13. \A n \in Subs(table) : new[n] = table[n]
  <2> HIDE DEF new
  <2> QED
    BY <1>6, FinalsAndSubs
<1>14. ASSUME Whole \in DOMAIN new, NEW n \in Subs(new) PROVE new[n].seq < new[Whole].seq
  <2> HIDE DEF new
  <2>1. Whole \in Finals(table) /\ n \in Subs(table)
    BY <1>2, <1>12, <1>14, FinalsAndSubs
  <2>2. new[Whole].seq = LastSub(table) + 1
    BY <1>8, <2>1 DEF last
  <2>3. table[n].seq \in Int
    BY <1>3, <2>1 DEF Subs, TimeRow
  <2> QED
    BY <1>1, <1>13, <2>1, <2>2, <2>3
<1> QED
  BY <1>2, <1>9, <1>10, <1>11, <1>12, <1>13, <1>14

LEMMA DefaultRowIs ==
  ASSUME NEW table, IsTable(table), NEW name \in Names
  PROVE  /\ DefaultRow(table, name) \in TimeRow
         /\ name = Whole => /\ DefaultRow(table, name).seq = LastSub(table) + 1
                            /\ DefaultRow(table, name).final = TRUE
<1>1. LastSub(table) + 1 \in Int
  BY LastSubIs
<1>2. DefaultSeq[name] \in Int /\ DefaultFinal \in Int /\ DefaultSub \in Int
  BY TimesAreNumbers
<1> QED
  BY <1>1, <1>2 DEF DefaultRow, TimeRow

LEMMA EnsureIs ==
  ASSUME NEW table, IsTable(table), NEW names, names \subseteq Names
  PROVE  /\ IsTable(Ensure(table, names))
         /\ DOMAIN Ensure(table, names) = DOMAIN table \union names
         /\ \A n \in DOMAIN table : Ensure(table, names)[n] = table[n]
         /\ \A n \in names : n \notin DOMAIN table => Ensure(table, names)[n] = DefaultRow(table, n)
<1>1. \A n \in DOMAIN table : table[n] \in TimeRow
  BY DEF IsTable
<1>2. \A n \in names : DefaultRow(table, n) \in TimeRow
  BY DefaultRowIs
<1> QED
  BY <1>1, <1>2 DEF Ensure, IsTable

\* A model without a final assembly gets one, and it comes last.
LEMMA EnsureWhole ==
  ASSUME NEW table, IsTable(table), Finals(table) = {}
  PROVE  LET new == Ensure(table, {Whole})
         IN /\ IsTable(new) /\ Finals(new) = {Whole}
            /\ \A n \in Subs(new) : new[n].seq < new[Whole].seq
<1> DEFINE new == Ensure(table, {Whole})
<1>1. Whole \in Names /\ Whole \notin DOMAIN table
  BY FinalsAndSubs, NamesAreListed
<1>2. /\ IsTable(new) /\ DOMAIN new = DOMAIN table \union {Whole}
      /\ \A n \in DOMAIN table : new[n] = table[n]
      /\ new[Whole] = DefaultRow(table, Whole)
  BY <1>1, EnsureIs
<1> HIDE DEF new
<1>3. new[Whole].seq = LastSub(table) + 1
  BY <1>1, <1>2, DefaultRowIs
<1>4. \A n \in DOMAIN table : n \in Subs(table) /\ n # Whole /\ ~table[n].final
  BY <1>1, FinalsAndSubs DEF Finals
<1>5. Finals(new) = {Whole}
  BY <1>1, <1>2, <1>4 DEF Finals
<1>6. ASSUME NEW n \in Subs(new) PROVE new[n].seq < new[Whole].seq
  <2>1. n \in DOMAIN table
    BY <1>2 DEF Subs
  <2>2. table[n].seq \in Int /\ table[n].seq <= LastSub(table) /\ LastSub(table) \in Int
    BY <1>4, <2>1, LastSubIs DEF IsTable, TimeRow
  <2> QED
    BY <1>2, <1>3, <2>1, <2>2
<1> QED
  BY <1>2, <1>5, <1>6 DEF new

\* What there is of assembly times is a table with at most one final assembly, which comes
\* last.
TimesInv == world \in Worlds /\ IsTable(times) /\ FinalComesLast

LEMMA TimesInit == Init => TimesInv
<1> SUFFICES ASSUME Init PROVE TimesInv
  OBVIOUS
<1>1. times = <<>> /\ world \in Worlds
  BY DEF Init
<1>2. DOMAIN times = {}
  BY <1>1
<1>3. Finals(times) = {}
  BY <1>2 DEF Finals
<1>4. Cardinality(Finals(times)) <= 1
  BY <1>3, FS_EmptySet
<1>5. IsTable(times)
  BY <1>1, <1>2 DEF IsTable
<1> QED
  BY <1>1, <1>2, <1>4, <1>5 DEF TimesInv, FinalComesLast

\* Every change of the table is reconciled before it is saved.
LEMMA Reconciled ==
  ASSUME NEW table, IsTable(table), Cardinality(Finals(Reconcile(table))) <= 1,
         times' = Reconcile(table), world \in Worlds, world' = world
  PROVE  TimesInv'
<1>1. /\ IsTable(times') /\ Cardinality(Finals(times')) <= 1
      /\ Whole \in DOMAIN times' => \A n \in Subs(times') : times'[n].seq < times'[Whole].seq
  BY ReconcileIs
<1> QED
  BY <1>1 DEF TimesInv, FinalComesLast

LEMMA EditKeeps ==
  ASSUME TimesInv, NEW table, IsTable(table), Edit(table)
  PROVE  TimesInv'
<1>1. Cardinality(Finals(table)) <= 1 /\ times' = Reconcile(table) /\ world' = world
  BY DEF Edit
<1>2. Finals(Reconcile(table)) = Finals(table)
  BY ReconcileIs
<1> QED
  BY <1>1, <1>2, Reconciled DEF TimesInv

\* The names of a BOM's assemblies.
LEMMA PicksAre ==
  ASSUME NEW pick \in Picks
  PROVE  /\ DOMAIN pick = {NameOf[r] : r \in AssemblyRows}
         /\ \A n \in DOMAIN pick : pick[n] \in AssemblyRows /\ NameOf[pick[n]] = n
BY DEF Picks

LEMMA AssembliesHaveNames ==
  ASSUME world \in Worlds
  PROVE  AssemblyRows \subseteq Rows /\ \A r \in AssemblyRows : NameOf[r] \in Names
BY WorldsAreTables, NamesAreListed DEF AssemblyRows

LEMMA TimesStep == TimesInv /\ [Next]_vars => TimesInv'
<1> SUFFICES ASSUME TimesInv, [Next]_vars PROVE TimesInv'
  OBVIOUS
<1>1. world \in Worlds /\ world' = world /\ IsTable(times) /\ FinalComesLast
  BY WorldIsFixed DEF TimesInv
<1>2. CASE UNCHANGED times
  BY <1>1, <1>2 DEF TimesInv, FinalComesLast, Finals, Subs
<1>3. CASE BuildMachine
  <2>1. CASE Finals(times) = {}
    <3>1. times' = Ensure(times, {Whole})
      BY <1>3, <2>1 DEF BuildMachine
    <3>2. /\ IsTable(times') /\ Finals(times') = {Whole}
          /\ \A n \in Subs(times') : times'[n].seq < times'[Whole].seq
      BY <1>1, <2>1, <3>1, EnsureWhole
    <3>3. Cardinality({Whole}) = 1
      BY FS_Singleton
    <3> QED
      BY <1>1, <3>2, <3>3 DEF TimesInv, FinalComesLast
  <2>2. CASE Finals(times) # {}
    <3>1. times' = times
      BY <1>3, <2>2 DEF BuildMachine
    <3> QED
      BY <1>2, <3>1
  <2> QED
    BY <2>1, <2>2
<1>4. CASE BuildParts
  <2>1. CASE AssemblyRows = {} /\ UNCHANGED <<times, parts>>
    BY <1>2, <2>1
  <2>2. ASSUME NEW pick \in Picks, times' = Reconcile(Ensure(times, DOMAIN pick)),
               Cardinality(Finals(times')) <= 1
        PROVE  TimesInv'
    <3>1. DOMAIN pick \subseteq Names
      BY <1>1, PicksAre, AssembliesHaveNames
    <3>2. IsTable(Ensure(times, DOMAIN pick))
      BY <1>1, <3>1, EnsureIs
    <3> QED
      BY <1>1, <2>2, <3>2, Reconciled
  <2> QED
    BY <1>4, <2>1, <2>2 DEF BuildParts
<1>5. ASSUME NEW name \in Names, NEW request \in Requests, SaveTime(name, request) PROVE TimesInv'
  <2> DEFINE final == request.final \/ name = Whole
             row == [seq |-> IF final THEN LastSub(times) + 1 ELSE request.seq,
                     half |-> request.half, final |-> final]
             table == [n \in DOMAIN times \union {name} |-> IF n = name THEN row ELSE times[n]]
  <2>1. row \in TimeRow
    <3>1. request.seq \in Int /\ request.half \in Int /\ LastSub(times) + 1 \in Int
      BY <1>1, TimesAreNumbers, LastSubIs
    <3>2. final \in BOOLEAN
      OBVIOUS
    <3> HIDE DEF final
    <3> QED
      BY <3>1, <3>2 DEF TimeRow
  <2> HIDE DEF row
  <2>2. IsTable(table)
    BY <1>1, <2>1 DEF IsTable
  <2>3. Edit(table)
    BY <1>5, Zenon DEF SaveTime, table, row, final
  <2> HIDE DEF table
  <2> QED
    BY <2>2, <2>3, EditKeeps
<1>6. ASSUME NEW name \in Names, DeleteTime(name) PROVE TimesInv'
  <2> DEFINE table == Restrict(times, DOMAIN times \ {name})
  <2>1. IsTable(table)
    BY <1>1 DEF IsTable, Restrict
  <2>2. Edit(table)
    BY <1>6 DEF DeleteTime
  <2> HIDE DEF table
  <2> QED
    BY <2>1, <2>2, EditKeeps
<1>7. CASE CheckOrder
  BY <1>2, <1>7 DEF CheckOrder
<1> QED
  BY <1>2, <1>3, <1>4, <1>5, <1>6, <1>7 DEF Next, vars

LEMMA TimesHold == Spec => []TimesInv
BY TimesInit, TimesStep, PTL DEF Spec

\* The administrator's saves and deletions (admin_assembly_time_router) and the rows that
\* planning adds (assembly_time_default_service) leave a model at most one final assembly,
\* and one of that name after all others.
THEOREM FinalLast == Spec => []FinalComesLast
<1>1. TimesInv => FinalComesLast
  BY DEF TimesInv
<1> QED
  BY <1>1, TimesHold, PTL

-----------------------------------------------------------------------------
(* The ends of the assemblies *)

LEMMA FactoryDaysStay ==
  ASSUME world' = world
  PROVE  \A a, b : FactoryDays(a, b)' = FactoryDays(a, b)
<1>1. \A a, b : FactoryDays(a, b) = Count(a, b, world.entries)
  BY FactoryDaysIs
<1>2. \A a, b : FactoryDays(a, b)' = Count(a, b, world'.entries)
  BY Zenon DEF FactoryDays, Count, Workdays
<1> QED
  BY <1>1, <1>2

LEMMA WholeDaysGrow ==
  ASSUME NEW a \in Int, NEW b \in Int, a <= b
  PROVE  WholeDays(a) <= WholeDays(b)
<1>1. CASE a < 0 /\ b < 0
  <2>1. -a >= -b /\ -b >= 0 /\ -a \in Nat /\ -b \in Nat
    BY <1>1
  <2>2. \A c, d \in Nat : c <= d => c \div 2 <= d \div 2
    OBVIOUS
  <2> QED
    BY <1>1, <2>1, <2>2 DEF WholeDays
<1>2. CASE a < 0 /\ b >= 0
  <2>1. (-a) \div 2 >= 0 /\ b \div 2 >= 0
    BY <1>2
  <2> QED
    BY <1>2, <2>1 DEF WholeDays
<1>3. CASE a >= 0
  BY <1>3 DEF WholeDays
<1> QED
  BY <1>1, <1>2, <1>3

\* The time of a group is that of its longest assembly, and never negative.
LEMMA GroupTimeIs ==
  ASSUME NEW table, IsTable(table), NEW group, group \subseteq DOMAIN table
  PROVE  /\ GroupTime(table, group) \in Nat
         /\ \A n \in group : table[n].half \in Int /\ table[n].half <= GroupTime(table, group)
<1> DEFINE halves == {table[n].half : n \in group}
           all == halves \union {0}
<1>1. \A n \in group : table[n].half \in Int
  BY DEF IsTable, TimeRow
<1>2. IsFiniteSet(halves)
  <2> DEFINE half == [n \in group |-> table[n].half]
  <2>1. group \in SUBSET Names
    BY DEF IsTable
  <2>2. IsFiniteSet(group)
    BY <2>1, NamesAreListed, FS_Subset
  <2>3. half \in Surjection(group, halves)
    BY DEF Surjection
  <2> HIDE DEF half, halves
  <2> QED
    BY <2>2, <2>3, FS_Surjection
<1>3. all \subseteq Int /\ all # {} /\ 0 \in all /\ \A n \in group : table[n].half \in all
  BY <1>1
<1>4. GroupTime(table, group) = Max(all)
  BY Zenon DEF GroupTime, all, halves
<1>5. IsFiniteSet(all)
  <2> HIDE DEF halves
  <2> QED
    BY <1>2, FS_AddElement
<1> HIDE DEF all
<1>6. Max(all) \in all /\ \A k \in all : k <= Max(all)
  BY <1>3, <1>5, MaxIs
<1>7. Max(all) \in Int /\ 0 <= Max(all)
  BY <1>3, <1>6
<1>8. \A n \in group : table[n].half <= Max(all)
  BY <1>3, <1>6
<1> HIDE DEF halves
<1> QED
  BY <1>1, <1>4, <1>7, <1>8

\* The sequences of the assemblies of a BOM, the days of a group and of final assembly.
Sequences(table, names) == {table[n].seq : n \in names}
GroupDays(table, names, seq) == WholeDays(GroupTime(table, InGroup(table, names, seq)))
FinalDays == WholeDays(IF machine.assembly = 0 THEN DefaultFinal ELSE machine.assembly)

LEMMA SequencesAre ==
  ASSUME NEW table, IsTable(table), NEW names, names # {}, names \subseteq DOMAIN table
  PROVE  LET seqs == Sequences(table, names)
         IN /\ Min(seqs) \in Int /\ Max(seqs) \in Int /\ Min(seqs) <= Max(seqs)
            /\ \A n \in names : table[n].seq \in Min(seqs) .. Max(seqs)
<1> DEFINE seqs == Sequences(table, names)
           seqOf == [n \in names |-> table[n].seq]
<1>1. seqs \subseteq Int /\ seqs # {} /\ \A n \in names : table[n].seq \in seqs
  BY DEF Sequences, IsTable, TimeRow
<1>2. IsFiniteSet(seqs)
  <2>1. names \in SUBSET Names
    BY DEF IsTable
  <2>2. IsFiniteSet(names)
    BY <2>1, NamesAreListed, FS_Subset
  <2>3. seqOf \in Surjection(names, seqs)
    BY DEF Surjection, Sequences
  <2> HIDE DEF seqs, seqOf
  <2> QED
    BY <2>2, <2>3, FS_Surjection
<1> HIDE DEF seqs, seqOf
<1>3. Max(seqs) \in seqs /\ \A k \in seqs : k <= Max(seqs)
  BY <1>1, <1>2, MaxIs
<1>4. Min(seqs) \in seqs /\ \A k \in seqs : Min(seqs) <= k
  BY <1>1, <1>2, MinIs
<1>5. Min(seqs) \in Int /\ Max(seqs) \in Int /\ Min(seqs) <= Max(seqs)
  BY <1>1, <1>3, <1>4
<1>6. ASSUME NEW n \in names PROVE table[n].seq \in Min(seqs) .. Max(seqs)
  BY <1>1, <1>3, <1>4, <1>5
<1> QED
  BY <1>5, <1>6 DEF seqs

LEMMA GroupDaysAre ==
  ASSUME NEW table, IsTable(table), NEW names, names \subseteq DOMAIN table, NEW seq
  PROVE  /\ GroupDays(table, names, seq) \in Nat
         /\ \A n \in names : table[n].seq = seq => WholeDays(table[n].half) <= GroupDays(table, names, seq)
<1> DEFINE group == InGroup(table, names, seq)
           time == GroupTime(table, group)
<1>1. group \subseteq DOMAIN table /\ \A n \in names : table[n].seq = seq => n \in group
  BY DEF InGroup
<1> HIDE DEF group
<1>2. time \in Nat /\ \A n \in group : table[n].half \in Int /\ table[n].half <= time
  BY <1>1, GroupTimeIs
<1>3. GroupDays(table, names, seq) = WholeDays(time)
  BY DEF GroupDays, group
<1> HIDE DEF time
<1>4. WholeDays(time) \in Nat
  BY <1>2, WholeDaysIs
<1>5. \A n \in group : WholeDays(table[n].half) <= WholeDays(time)
  BY <1>2, WholeDaysGrow
<1> QED
  BY <1>1, <1>3, <1>4, <1>5

\* The recursion of GroupEnds.
IsEnds(end, table, names, calendar) ==
  end = [seq \in Min(Sequences(table, names)) .. Max(Sequences(table, names)) |->
           IF seq = Max(Sequences(table, names))
           THEN SubtractWorkdays(machine.end, FinalDays, calendar)
           ELSE SubtractWorkdays(end[seq + 1], GroupDays(table, names, seq + 1), calendar)]

LEMMA GroupEndsIs ==
  ASSUME NEW table, NEW names, NEW calendar
  PROVE  GroupEnds(table, names, calendar) = CHOOSE end : IsEnds(end, table, names, calendar)
BY Zenon DEF GroupEnds, IsEnds, Sequences, GroupDays, FinalDays

LEMMA FinalDaysAre ==
  ASSUME machine.assembly \in Int
  PROVE  FinalDays \in Int /\ (WholeDays(machine.assembly) <= FinalDays \/ WholeDays(machine.assembly) <= 0)
<1>1. DefaultFinal \in Int
  BY TimesAreNumbers
<1>2. WholeDays(0) <= 0
  BY DEF WholeDays
<1>3. WholeDays(machine.assembly) \in Int /\ WholeDays(DefaultFinal) \in Int
  BY <1>1, WholeDaysIs
<1>4. CASE machine.assembly = 0
  BY <1>2, <1>3, <1>4 DEF FinalDays
<1>5. CASE machine.assembly # 0
  BY <1>3, <1>5 DEF FinalDays
<1> QED
  BY <1>4, <1>5

LEMMA EndsExist ==
  ASSUME NEW table, IsTable(table), NEW names, names # {}, names \subseteq DOMAIN table,
         NEW calendar, IsCalendar(calendar), machine.end \in Int, machine.assembly \in Int
  PROVE  \E end : IsEnds(end, table, names, calendar)
<1> DEFINE lo == Min(Sequences(table, names))
           hi == Max(Sequences(table, names))
           base == SubtractWorkdays(machine.end, FinalDays, calendar)
           step == [p \in (lo .. hi) \X Int |->
                      SubtractWorkdays(p[2], GroupDays(table, names, p[1] + 1), calendar)]
<1>1. lo \in Int /\ hi \in Int /\ lo <= hi
  BY SequencesAre
<1>2. \A seq : GroupDays(table, names, seq) \in Int
  BY GroupDaysAre
<1>3. \A from, n \in Int : SubtractWorkdays(from, n, calendar) \in Int
  BY SubtractReaches
<1>4. base \in Int
  BY <1>3, FinalDaysAre
<1>5. step \in [(lo .. hi) \X Int -> Int]
  BY <1>2, <1>3
<1> HIDE DEF lo, hi, base, step
<1>6. PICK f \in [lo .. hi -> Int] : IsChain(f, lo, hi, base, step)
  BY <1>1, <1>4, <1>5, ChainExists
<1>7. ASSUME NEW seq \in lo .. hi
      PROVE  f[seq] = IF seq = hi THEN base
                      ELSE SubtractWorkdays(f[seq + 1], GroupDays(table, names, seq + 1), calendar)
  <2>1. CASE seq = hi
    BY <1>6, <2>1 DEF IsChain
  <2>2. CASE seq # hi
    <3>1. f[seq] = step[<<seq, f[seq + 1]>>]
      BY <1>6, <2>2 DEF IsChain
    <3>2. seq + 1 \in lo .. hi
      BY <1>1, <2>2
    <3>3. <<seq, f[seq + 1]>> \in (lo .. hi) \X Int
      BY <1>6, <3>2
    <3>4. step[<<seq, f[seq + 1]>>] =
            SubtractWorkdays(f[seq + 1], GroupDays(table, names, seq + 1), calendar)
      BY <3>3 DEF step
    <3> QED
      BY <2>2, <3>1, <3>4
  <2> QED
    BY <2>1, <2>2
<1>8. f = [seq \in lo .. hi |-> f[seq]]
  BY <1>6
<1>9. [seq \in lo .. hi |-> f[seq]] =
        [seq \in lo .. hi |-> IF seq = hi THEN base
                      ELSE SubtractWorkdays(f[seq + 1], GroupDays(table, names, seq + 1), calendar)]
  BY <1>7
<1>10. IsEnds(f, table, names, calendar)
  BY <1>8, <1>9, Zenon DEF IsEnds, lo, hi, base
<1> QED
  BY <1>10

\* The groups end one before the other, the last when final assembly begins.
LEMMA EndsDescend ==
  ASSUME NEW table, IsTable(table), NEW names, names # {}, names \subseteq DOMAIN table,
         NEW calendar, IsCalendar(calendar), machine.end \in Int, machine.assembly \in Int,
         NEW end, IsEnds(end, table, names, calendar)
  PROVE  LET lo == Min(Sequences(table, names))
             hi == Max(Sequences(table, names))
         IN /\ \A s \in lo .. hi : end[s] \in Int
            /\ end[hi] = SubtractWorkdays(machine.end, FinalDays, calendar)
            /\ \A s \in lo .. hi : s # hi =>
                 end[s] = SubtractWorkdays(end[s + 1], GroupDays(table, names, s + 1), calendar)
            /\ \A s, t \in lo .. hi : s <= t => end[s] <= end[t]
            /\ \A s \in lo .. hi : end[s] <= machine.end
<1> DEFINE lo == Min(Sequences(table, names))
           hi == Max(Sequences(table, names))
           S == {k \in Nat : hi - k \in lo .. hi => end[hi - k] \in Int}
<1>1. lo \in Int /\ hi \in Int /\ lo <= hi
  BY SequencesAre
<1>2. \A seq : GroupDays(table, names, seq) \in Int
  BY GroupDaysAre
<1>3. \A from, n \in Int : /\ SubtractWorkdays(from, n, calendar) \in Int
                           /\ SubtractWorkdays(from, n, calendar) <= from
  BY SubtractReaches
<1>4. ASSUME NEW s \in lo .. hi
      PROVE  end[s] = IF s = hi THEN SubtractWorkdays(machine.end, FinalDays, calendar)
                      ELSE SubtractWorkdays(end[s + 1], GroupDays(table, names, s + 1), calendar)
  BY Zenon DEF IsEnds
<1> HIDE DEF lo, hi
<1>5. hi \in lo .. hi /\ lo \in lo .. hi
  BY <1>1
<1>6. end[hi] = SubtractWorkdays(machine.end, FinalDays, calendar)
  BY <1>4, <1>5
<1>7. end[hi] \in Int /\ end[hi] <= machine.end
  BY <1>3, <1>6, FinalDaysAre
<1>8. ASSUME NEW s \in lo .. hi PROVE end[s] \in Int
  <2>1. 0 \in S
    BY <1>1, <1>7
  <2>2. ASSUME NEW k \in Nat, k \in S PROVE k + 1 \in S
    <3>1. SUFFICES ASSUME hi - (k + 1) \in lo .. hi PROVE end[hi - (k + 1)] \in Int
      OBVIOUS
    <3>2. /\ hi - k \in lo .. hi /\ hi - (k + 1) # hi /\ (hi - (k + 1)) + 1 = hi - k
      BY <1>1, <3>1
    <3>3. end[hi - (k + 1)] = SubtractWorkdays(end[hi - k], GroupDays(table, names, hi - k), calendar)
      BY <1>4, <3>1, <3>2
    <3>4. end[hi - k] \in Int
      BY <2>2, <3>2
    <3> QED
      BY <1>2, <1>3, <3>3, <3>4
  <2>3. hi - s \in S
    <3>1. hi - s \in Nat
      BY <1>1
    <3> HIDE DEF S
    <3> QED
      BY <2>1, <2>2, <3>1, AllNumbers
  <2>4. hi - (hi - s) = s
    BY <1>1
  <2> QED
    BY <2>3, <2>4
<1>9. ASSUME NEW s \in lo .. hi, s # hi
      PROVE  /\ s + 1 \in lo .. hi
             /\ end[s] = SubtractWorkdays(end[s + 1], GroupDays(table, names, s + 1), calendar)
             /\ end[s] <= end[s + 1]
  <2>1. s + 1 \in lo .. hi
    BY <1>1, <1>9
  <2>2. end[s] = SubtractWorkdays(end[s + 1], GroupDays(table, names, s + 1), calendar)
    BY <1>4, <1>9
  <2>3. end[s + 1] \in Int
    BY <1>8, <2>1
  <2> QED
    BY <1>2, <1>3, <2>1, <2>2, <2>3
<1>10. ASSUME NEW s \in lo .. hi, NEW t \in lo .. hi, s <= t PROVE end[s] <= end[t]
  <2> DEFINE Q == {k \in Nat : s + k \in lo .. hi => end[s] <= end[s + k]}
  <2>1. 0 \in Q
    BY <1>1, <1>8
  <2>2. ASSUME NEW k \in Nat, k \in Q PROVE k + 1 \in Q
    <3>1. SUFFICES ASSUME s + (k + 1) \in lo .. hi PROVE end[s] <= end[s + (k + 1)]
      OBVIOUS
    <3>2. s + k \in lo .. hi /\ s + k # hi /\ (s + k) + 1 = s + (k + 1)
      BY <1>1, <3>1
    <3>3. end[s + k] <= end[s + (k + 1)]
      BY <1>9, <3>2
    <3>4. end[s] <= end[s + k]
      BY <2>2, <3>2
    <3>5. end[s] \in Int /\ end[s + k] \in Int /\ end[s + (k + 1)] \in Int
      BY <1>8, <3>1, <3>2
    <3> QED
      BY <3>3, <3>4, <3>5
  <2>3. t - s \in Q
    <3>1. t - s \in Nat
      BY <1>1, <1>10
    <3> HIDE DEF Q
    <3> QED
      BY <2>1, <2>2, <3>1, AllNumbers
  <2>4. s + (t - s) = t
    BY <1>1
  <2> QED
    BY <2>3, <2>4
<1>11. ASSUME NEW s \in lo .. hi PROVE end[s] <= machine.end
  <2>1. end[s] <= end[hi] /\ end[s] \in Int
    BY <1>1, <1>5, <1>8, <1>10
  <2> QED
    BY <1>7, <2>1
<1> QED
  BY <1>6, <1>8, <1>9, <1>10, <1>11 DEF lo, hi

\* A group whose end lies in the loaded calendar leaves every later group the days of its
\* longest assembly, and the machine those of final assembly.
LEMMA GroupsInOrder ==
  ASSUME world \in Worlds, machine.end = Delivery, machine.assembly \in Int,
         NEW table, IsTable(table), NEW names, names # {}, names \subseteq DOMAIN table
  PROVE  LET end == GroupEnds(table, names, Calendar(machine.end - PartReach, machine.end + EndSlack))
         IN \A n \in names :
              LET e == end[table[n].seq]
              IN /\ e \in Int /\ e <= Delivery
                 /\ e >= Delivery - PartReach =>
                      /\ FactoryDays(e, Delivery) >= WholeDays(machine.assembly)
                      /\ \A q \in names : table[n].seq < table[q].seq =>
                           FactoryDays(e, end[table[q].seq]) >= WholeDays(table[q].half)
<1> DEFINE first == Delivery - PartReach
           last == Delivery + EndSlack
           calendar == Calendar(first, last)
           lo == Min(Sequences(table, names))
           hi == Max(Sequences(table, names))
           end == GroupEnds(table, names, calendar)
<1>1. /\ Delivery \in Int /\ first \in Int /\ last \in Int /\ Delivery <= last
      /\ first >= Delivery - MaxIterations /\ MaxIterations \in Int
  BY CalendarIsLoaded
<1>2. IsCalendar(calendar) /\ machine.end \in Int
  BY <1>1, LoadedIs
<1> HIDE DEF calendar, first, last
<1>3. /\ lo \in Int /\ hi \in Int /\ lo <= hi
      /\ \A n \in names : table[n].seq \in lo .. hi
  BY SequencesAre
<1>4. IsEnds(end, table, names, calendar)
  <2>1. \E e : IsEnds(e, table, names, calendar)
    BY <1>2, EndsExist
  <2>2. end = CHOOSE e : IsEnds(e, table, names, calendar)
    BY GroupEndsIs
  <2> QED
    BY <2>1, <2>2, Zenon
<1> HIDE DEF end
<1>5. /\ \A s \in lo .. hi : end[s] \in Int
      /\ end[hi] = SubtractWorkdays(machine.end, FinalDays, calendar)
      /\ \A s \in lo .. hi : s # hi =>
           end[s] = SubtractWorkdays(end[s + 1], GroupDays(table, names, s + 1), calendar)
      /\ \A s, t \in lo .. hi : s <= t => end[s] <= end[t]
      /\ \A s \in lo .. hi : end[s] <= machine.end
  BY <1>2, <1>4, EndsDescend
<1> HIDE DEF lo, hi
<1>6. ASSUME NEW from \in Int, from <= Delivery, NEW days \in Int, NEW day,
             day = SubtractWorkdays(from, days, calendar), day >= first, day \in Int
      PROVE  FactoryDays(day, from) >= days /\ FactoryDays(day, from) \in Int
  <2>1. from <= last + 1 /\ from - day <= MaxIterations
    BY <1>1, <1>6
  <2>2. days >= 0 => FactoryDays(day, from) = days
    BY <1>1, <1>6, <2>1, BackInside DEF calendar
  <2>3. FactoryDays(day, from) \in Nat
    BY <1>6, FactoryDaysGrow
  <2> QED
    BY <2>2, <2>3
<1>7. ASSUME NEW n \in names
      PROVE  LET e == end[table[n].seq]
             IN /\ e \in Int /\ e <= Delivery
                /\ e >= first =>
                     /\ FactoryDays(e, Delivery) >= WholeDays(machine.assembly)
                     /\ \A q \in names : table[n].seq < table[q].seq =>
                          FactoryDays(e, end[table[q].seq]) >= WholeDays(table[q].half)
  <2> DEFINE e == end[table[n].seq]
  <2>1. table[n].seq \in lo .. hi
    BY <1>3
  <2>2. e \in Int /\ e <= Delivery /\ \A t \in lo .. hi : table[n].seq <= t => e <= end[t]
    BY <1>5, <2>1
  <2> HIDE DEF e
  <2>3. ASSUME e >= first PROVE FactoryDays(e, Delivery) >= WholeDays(machine.assembly)
    <3>1. hi \in lo .. hi /\ table[n].seq <= hi
      BY <1>3, <2>1
    <3>2. end[hi] \in Int /\ e <= end[hi] /\ end[hi] <= Delivery
      BY <1>5, <2>2, <3>1
    <3>3. end[hi] >= first
      BY <1>1, <2>2, <2>3, <3>2
    <3>4. FinalDays \in Int /\ WholeDays(machine.assembly) \in Int
          /\ (WholeDays(machine.assembly) <= FinalDays \/ WholeDays(machine.assembly) <= 0)
      BY FinalDaysAre, WholeDaysIs
    <3>5. FactoryDays(end[hi], Delivery) >= FinalDays
      BY <1>1, <1>5, <1>6, <3>2, <3>3, <3>4
    <3>6. /\ FactoryDays(end[hi], Delivery) <= FactoryDays(e, Delivery)
          /\ FactoryDays(end[hi], Delivery) \in Nat /\ FactoryDays(e, Delivery) \in Nat
      BY <1>1, <2>2, <3>2, FactoryDaysGrow
    <3> QED
      BY <3>4, <3>5, <3>6
  <2>4. ASSUME e >= first, NEW q \in names, table[n].seq < table[q].seq
        PROVE  FactoryDays(e, end[table[q].seq]) >= WholeDays(table[q].half)
    <3>1. PICK t \in lo .. hi : t = table[q].seq
      BY <1>3
    <3>2. /\ t - 1 \in lo .. hi /\ t - 1 # hi /\ (t - 1) + 1 = t /\ table[n].seq <= t - 1
          /\ t - 1 <= t
      BY <1>3, <2>1, <2>4, <3>1
    <3>3. /\ end[t - 1] \in Int /\ end[t] \in Int /\ e <= end[t - 1] /\ end[t] <= Delivery
          /\ end[t - 1] <= end[t]
          /\ end[t - 1] = SubtractWorkdays(end[t], GroupDays(table, names, t), calendar)
      BY <1>5, <2>2, <3>2
    <3>4. end[t - 1] >= first
      BY <1>1, <2>2, <2>4, <3>3
    <3>5. /\ GroupDays(table, names, t) \in Int
          /\ WholeDays(table[q].half) <= GroupDays(table, names, t)
      BY <3>1, GroupDaysAre
    <3>6. FactoryDays(end[t - 1], end[t]) >= GroupDays(table, names, t)
      BY <1>6, <3>3, <3>4, <3>5
    <3>7. /\ FactoryDays(end[t - 1], end[t]) <= FactoryDays(e, end[t])
          /\ FactoryDays(end[t - 1], end[t]) \in Nat /\ FactoryDays(e, end[t]) \in Nat
      <4>1. end[t] <= end[t]
        BY <3>3
      <4> HIDE DEF e
      <4> QED
        BY <2>2, <3>3, <4>1, FactoryDaysGrow
    <3>8. WholeDays(table[q].half) \in Int
      BY WholeDaysIs DEF IsTable, TimeRow
    <3> QED
      BY <3>1, <3>5, <3>6, <3>7, <3>8
  <2> QED
    BY <2>2, <2>3, <2>4 DEF e
<1> QED
  BY <1>7 DEF end, calendar, first, last

-----------------------------------------------------------------------------
(* The rows of the part plan *)

LEMMA PartRowIs ==
  ASSUME NEW name, NEW timing, NEW row, NEW end, NEW calendar,
         NEW p \in PartRows(name, timing, row, end, calendar)
  PROVE  LET paths == PartPaths(Child[row])
         IN /\ p.name = name /\ p.seq = timing.seq /\ p.half = timing.half /\ p.end = end
            /\ paths = <<>> => p.path = <<>>
            /\ paths # <<>> => /\ p.path \in Range(paths)
                               /\ p.cycle = PartCycle(p.path)
                               /\ p.start = SubtractWorkdays(end, PartCycle(KeyPath(paths)), calendar)
<1> DEFINE paths == PartPaths(Child[row])
<1>1. CASE paths = <<>>
  <2>1. p = [name |-> name, seq |-> timing.seq, half |-> timing.half, end |-> end,
             path |-> <<>>, cycle |-> None, key |-> FALSE, start |-> None]
    BY <1>1, Zenon DEF PartRows
  <2> HIDE DEF paths
  <2> QED
    BY <1>1, <2>1 DEF paths
<1>2. CASE paths # <<>>
  <2>1. PICK path \in Range(paths) :
          p = [name |-> name, seq |-> timing.seq, half |-> timing.half, end |-> end,
               path |-> path, cycle |-> PartCycle(path), key |-> IsKey(path, KeyPath(paths)),
               start |-> SubtractWorkdays(end, PartCycle(KeyPath(paths)), calendar)]
    BY <1>2, Zenon DEF PartRows
  <2> HIDE DEF paths
  <2> QED
    BY <1>2, <2>1 DEF paths
<1> QED
  BY <1>1, <1>2

\* The other way round: there is a row for every path, and one if there is no path.
LEMMA PartRowFor ==
  ASSUME NEW name, NEW timing, NEW row, NEW end, NEW calendar
  PROVE  LET paths == PartPaths(Child[row])
             rows == PartRows(name, timing, row, end, calendar)
         IN /\ paths = <<>> => \E p \in rows : p.path = <<>>
            /\ paths # <<>> => \A path \in Range(paths) : \E p \in rows : p.path = path
<1> DEFINE paths == PartPaths(Child[row])
           rows == PartRows(name, timing, row, end, calendar)
<1>1. CASE paths = <<>>
  <2> DEFINE p == [name |-> name, seq |-> timing.seq, half |-> timing.half, end |-> end,
                   path |-> <<>>, cycle |-> None, key |-> FALSE, start |-> None]
  <2>1. p \in rows
    BY <1>1, Zenon DEF PartRows
  <2>2. p.path = <<>>
    OBVIOUS
  <2> HIDE DEF p, rows, paths
  <2> QED
    BY <1>1, <2>1, <2>2 DEF rows, paths
<1>2. CASE paths # <<>>
  <2>1. ASSUME NEW path \in Range(paths) PROVE \E p \in rows : p.path = path
    <3> DEFINE p == [name |-> name, seq |-> timing.seq, half |-> timing.half, end |-> end,
               path |-> path, cycle |-> PartCycle(path), key |-> IsKey(path, KeyPath(paths)),
               start |-> SubtractWorkdays(end, PartCycle(KeyPath(paths)), calendar)]
    <3>1. p \in rows
      BY <1>2, Zenon DEF PartRows
    <3>2. p.path = path
      OBVIOUS
    <3> HIDE DEF p, rows
    <3> QED
      BY <3>1, <3>2
  <2> HIDE DEF rows, paths
  <2> QED
    BY <1>2, <2>1 DEF rows, paths
<1> QED
  BY <1>1, <1>2

\* What BuildParts writes.
LEMMA BuiltParts ==
  ASSUME BuildParts, world \in Worlds, AssemblyRows # {}, machine.end = Delivery
  PROVE  \E pick \in Picks :
           /\ DOMAIN pick # {}
           /\ times' = Reconcile(Ensure(times, DOMAIN pick))
           /\ parts' = UNION {PartRows(n, times'[n], pick[n],
                                GroupEnds(times', DOMAIN pick,
                                          Calendar(machine.end - PartReach, machine.end + EndSlack))[times'[n].seq],
                                Calendar(machine.end - PartReach, machine.end + EndSlack)) : n \in DOMAIN pick}
BY Zenon DEF BuildParts

-----------------------------------------------------------------------------
(* The order of the assemblies *)

\* The ends of the plan lie in the calendar the part plan loaded.
EndsFitCalendar == \A p \in parts : p.end >= Delivery - PartReach

\* The planning transaction keeps the machine plan it began with until its parts follow.
OrderInv ==
  /\ stage = "machine" => machine.end = Delivery /\ machine.assembly \in Int
  /\ AssemblyRows = {} => parts = {}
  /\ EndsFitCalendar => AssembliesInOrder

LEMMA OrderInit == Init => OrderInv
BY DEF Init, OrderInv, AssembliesInOrder

LEMMA OrderStep == TimesInv /\ TimesInv' /\ OrderInv /\ [Next]_vars => OrderInv'
<1> SUFFICES ASSUME TimesInv, TimesInv', OrderInv, [Next]_vars PROVE OrderInv'
  OBVIOUS
<1>1. world' = world /\ world \in Worlds /\ IsTable(times) /\ IsTable(times')
  BY WorldIsFixed DEF TimesInv
<1>2. /\ AssemblyRows' = AssemblyRows
      /\ \A a, b : FactoryDays(a, b)' = FactoryDays(a, b)
  BY <1>1, FactoryDaysStay DEF AssemblyRows
<1>3. CASE stage # "machine" /\ stage' # "machine" /\ UNCHANGED <<machine, parts>>
  BY <1>2, <1>3 DEF OrderInv, EndsFitCalendar, AssembliesInOrder
<1>4. CASE UNCHANGED <<stage, machine, parts>>
  BY <1>2, <1>4 DEF OrderInv, EndsFitCalendar, AssembliesInOrder
<1>5. CASE BuildMachine
  <2>1. stage' = "machine" /\ parts' = parts
        /\ machine' = [start |-> PlannedStart, end |-> Delivery, cycle |-> MachineCycle,
                       assembly |-> times'[CHOOSE n \in Finals(times') : TRUE].half]
        /\ times' = IF Finals(times) = {} THEN Ensure(times, {Whole}) ELSE times
    BY <1>5, Zenon DEF BuildMachine
  <2>2. Finals(times') # {}
    BY <1>1, <2>1, EnsureWhole
  <2>3. PICK n \in Finals(times') : n = CHOOSE f \in Finals(times') : TRUE
    BY <2>2, Zenon
  <2>4. times'[n].half \in Int
    BY <1>1, <2>3 DEF Finals, IsTable, TimeRow
  <2>5. machine'.end = Delivery /\ machine'.assembly \in Int
    BY <2>1, <2>3, <2>4
  <2>6. AssembliesInOrder'
    BY <2>1 DEF AssembliesInOrder
  <2> QED
    BY <1>2, <2>1, <2>5, <2>6 DEF OrderInv
<1>6. CASE BuildParts
  <2>1. stage' = "idle" /\ machine' = machine /\ machine.end = Delivery /\ machine.assembly \in Int
    BY <1>6 DEF BuildParts, OrderInv
  <2>2. CASE AssemblyRows = {}
    <3>1. \A pick \in Picks : DOMAIN pick = {}
      BY <2>2, PicksAre
    <3>2. parts' = parts /\ parts = {}
      BY <1>6, <2>2, <3>1, Zenon DEF BuildParts, OrderInv
    <3>3. parts' = {}
      BY <3>2
    <3>4. AssembliesInOrder'
      BY <3>3 DEF AssembliesInOrder
    <3> QED
      BY <2>1, <3>3, <3>4 DEF OrderInv
  <2>3. CASE AssemblyRows # {}
    <3> DEFINE calendar == Calendar(machine.end - PartReach, machine.end + EndSlack)
    <3>1. PICK pick \in Picks :
            /\ DOMAIN pick # {}
            /\ times' = Reconcile(Ensure(times, DOMAIN pick))
            /\ parts' = UNION {PartRows(n, times'[n], pick[n],
                                 GroupEnds(times', DOMAIN pick, calendar)[times'[n].seq], calendar) :
                                 n \in DOMAIN pick}
      BY <1>1, <1>6, <2>1, <2>3, BuiltParts
    <3> DEFINE names == DOMAIN pick
               ends == GroupEnds(times', names, calendar)
    <3>2. names \subseteq DOMAIN times' /\ names # {}
      <4>1. names \subseteq Names
        BY <1>1, PicksAre, AssembliesHaveNames
      <4>2. IsTable(Ensure(times, names)) /\ names \subseteq DOMAIN Ensure(times, names)
        BY <1>1, <4>1, EnsureIs
      <4> QED
        BY <3>1, <4>2, ReconcileIs
    <3>3. \A n \in names :
            LET e == ends[times'[n].seq]
            IN /\ e \in Int /\ e <= Delivery
               /\ e >= Delivery - PartReach =>
                    /\ FactoryDays(e, Delivery) >= WholeDays(machine.assembly)
                    /\ \A q \in names : times'[n].seq < times'[q].seq =>
                         FactoryDays(e, ends[times'[q].seq]) >= WholeDays(times'[q].half)
      <4> HIDE DEF names
      <4> QED
        BY <1>1, <2>1, <3>2, GroupsInOrder
    <3> HIDE DEF ends, calendar
    <3>4. ASSUME NEW p \in parts'
          PROVE  \E n \in names : /\ p.seq = times'[n].seq /\ p.half = times'[n].half
                                  /\ p.end = ends[times'[n].seq]
      <4>1. PICK n \in names : p \in PartRows(n, times'[n], pick[n], ends[times'[n].seq], calendar)
        BY <3>1, <3>4 DEF ends
      <4> QED
        BY <4>1, PartRowIs
    <3>5. ASSUME EndsFitCalendar' PROVE AssembliesInOrder'
      <4>1. ASSUME NEW p \in parts'
            PROVE  /\ FactoryDays(p.end, Delivery) >= WholeDays(machine.assembly)
                   /\ \A q \in parts' : p.seq < q.seq => FactoryDays(p.end, q.end) >= WholeDays(q.half)
        <5>1. PICK n \in names : /\ p.seq = times'[n].seq /\ p.half = times'[n].half
                                 /\ p.end = ends[times'[n].seq]
          BY <3>4
        <5>2. p.end >= Delivery - PartReach
          BY <3>5, <4>1 DEF EndsFitCalendar
        <5>3. /\ FactoryDays(p.end, Delivery) >= WholeDays(machine.assembly)
              /\ \A q \in names : times'[n].seq < times'[q].seq =>
                   FactoryDays(p.end, ends[times'[q].seq]) >= WholeDays(times'[q].half)
          BY <3>3, <5>1, <5>2
        <5>4. ASSUME NEW q \in parts', p.seq < q.seq
              PROVE  FactoryDays(p.end, q.end) >= WholeDays(q.half)
          <6>1. PICK m \in names : /\ q.seq = times'[m].seq /\ q.half = times'[m].half
                                   /\ q.end = ends[times'[m].seq]
            BY <3>4
          <6> QED
            BY <5>1, <5>3, <5>4, <6>1
        <5> QED
          BY <5>3, <5>4
      <4> QED
        BY <1>2, <2>1, <4>1 DEF AssembliesInOrder
    <3> QED
      BY <1>2, <2>1, <2>3, <3>5 DEF OrderInv
  <2> QED
    BY <2>2, <2>3
<1>7. CASE CheckOrder
  <2>1. stage = "idle" /\ stage' \in {"idle", "checked"} /\ machine' = machine /\ parts' = parts
    BY <1>7, Zenon DEF CheckOrder
  <2> QED
    BY <1>3, <2>1
<1> QED
  BY <1>4, <1>5, <1>6, <1>7 DEF Next, vars, SaveTime, DeleteTime, Edit

LEMMA OrderHolds == Spec => []OrderInv
BY TimesHold, OrderInit, OrderStep, PTL DEF Spec

\* The part plan (part_schedule_service): as long as its assemblies end in the year of
\* calendar it loaded, the parts of each are finished early enough to assemble them before
\* an assembly of a later sequence is due, and all of them before final assembly, for any
\* BOM, any times, any calendar and any sequences, gaps and negative numbers among them.
THEOREM AssembliesHold == Spec => [](EndsFitCalendar => AssembliesInOrder)
<1>1. OrderInv => (EndsFitCalendar => AssembliesInOrder)
  BY DEF OrderInv
<1> QED
  BY <1>1, OrderHolds, PTL

-----------------------------------------------------------------------------
(* Sequences *)

\* Finitely many integers can be listed upwards, each of them once.
IsUpwards(seq, S) ==
  /\ seq \in [1 .. Cardinality(S) -> S]
  /\ \A i, j \in 1 .. Cardinality(S) : i < j => seq[i] < seq[j]

LEMMA UpwardsExists ==
  ASSUME NEW S, S \subseteq Int, IsFiniteSet(S)
  PROVE  \E seq : IsUpwards(seq, S)
<1> DEFINE F == {T \in SUBSET S : ~ \E seq : IsUpwards(seq, T)}
<1> SUFFICES ASSUME F # {} PROVE FALSE
  OBVIOUS
<1>1. \A T \in F : IsFiniteSet(T)
  BY FS_Subset
<1>2. PICK T \in F : \A U \in F : U \subseteq T => U = T
  <2> HIDE DEF F
  <2> QED
    BY <1>1, MinimalMember
<1>3. T \subseteq Int /\ IsFiniteSet(T) /\ ~ \E seq : IsUpwards(seq, T)
  BY <1>1, <1>2
<1>4. T # {}
  <2>1. SUFFICES ASSUME T = {} PROVE IsUpwards(<<>>, T)
    BY <1>3
  <2>2. Cardinality(T) = 0
    BY <2>1, FS_EmptySet
  <2> QED
    BY <2>1, <2>2 DEF IsUpwards
<1>5. PICK m \in T : \A k \in T : m >= k
  BY <1>3, <1>4, GreatestInteger
<1> DEFINE U == T \ {m}
           n == Cardinality(U)
<1>6. n \in Nat /\ Cardinality(T) = n + 1
  <2>1. IsFiniteSet(U) /\ Cardinality(U) = Cardinality(T) - 1 /\ Cardinality(T) \in Nat
    BY <1>3, FS_RemoveElement, FS_CardinalityType
  <2>2. Cardinality(U) \in Nat
    BY <2>1, FS_CardinalityType
  <2> QED
    BY <2>1, <2>2
<1>7. PICK q : IsUpwards(q, U)
  <2>1. U \in SUBSET S /\ U \subseteq T /\ U # T
    BY <1>2, <1>5
  <2>2. U \notin F
    <3> HIDE DEF F, U
    <3> QED
      BY <1>2, <2>1
  <2> HIDE DEF U
  <2> QED
    BY <2>1, <2>2
<1> DEFINE r == [i \in 1 .. (n + 1) |-> IF i = n + 1 THEN m ELSE q[i]]
<1>8. q \in [1 .. n -> U] /\ \A i, j \in 1 .. n : i < j => q[i] < q[j]
  BY <1>7 DEF IsUpwards
<1>9. \A x \in U : x \in T /\ x \in Int /\ m \in Int /\ x < m
  <2>1. \A x \in U : x \in T /\ x # m /\ x \in Int /\ m \in Int /\ m >= x
    BY <1>3, <1>5
  <2> HIDE DEF U
  <2> QED
    BY <2>1
<1> HIDE DEF n, U
<1>10. \A i \in 1 .. (n + 1) : i # n + 1 => i \in 1 .. n /\ r[i] = q[i] /\ q[i] \in U
  BY <1>6, <1>8
<1>11. r[n + 1] = m /\ r \in [1 .. (n + 1) -> T]
  BY <1>6, <1>8, <1>9, <1>10
<1>12. ASSUME NEW i \in 1 .. (n + 1), NEW j \in 1 .. (n + 1), i < j PROVE r[i] < r[j]
  <2>1. i # n + 1 /\ r[i] \in U /\ i \in 1 .. n /\ r[i] = q[i]
    <3>1. i # n + 1
      BY <1>6, <1>12
    <3> QED
      BY <1>10, <3>1
  <2>2. CASE j = n + 1
    BY <1>9, <1>11, <2>1, <2>2
  <2>3. CASE j # n + 1
    <3>1. j \in 1 .. n /\ r[j] = q[j]
      BY <1>10, <2>3
    <3> QED
      BY <1>8, <1>12, <2>1, <3>1
  <2> QED
    BY <2>2, <2>3
<1>13. IsUpwards(r, T)
  <2> HIDE DEF r
  <2> QED
    BY <1>6, <1>11, <1>12 DEF IsUpwards
<1> QED
  BY <1>3, <1>13

\* A sequence without repetitions and as long as the set it is drawn from misses nothing.
LEMMA NothingMissed ==
  ASSUME NEW S, S \subseteq Int, IsFiniteSet(S), NEW seq, IsUpwards(seq, S)
  PROVE  seq \in Seq(S) /\ Range(seq) = S
<1> DEFINE n == Cardinality(S)
<1>1. n \in Nat
  BY FS_CardinalityType
<1>2. seq \in [1 .. n -> S] /\ \A i, j \in 1 .. n : i < j => seq[i] < seq[j]
  BY DEF IsUpwards
<1> HIDE DEF n
<1>3. ASSUME NEW i \in 1 .. n, NEW j \in 1 .. n, seq[i] = seq[j] PROVE i = j
  <2>1. seq[i] \in Int /\ seq[j] \in Int
    BY <1>2
  <2>2. ~(i < j) /\ ~(j < i)
    BY <1>2, <1>3, <2>1
  <2> QED
    BY <1>1, <2>2
<1>4. seq \in Injection(1 .. n, S)
  BY <1>2, <1>3 DEF Injection, IsInjective
<1>5. Cardinality(1 .. n) = n /\ IsFiniteSet(1 .. n)
  BY <1>1, FS_Interval
<1>6. seq \in Surjection(1 .. n, S)
  BY <1>4, <1>5, FS_Injection DEF n
<1>7. Range(seq) = S
  BY <1>2, <1>6 DEF Surjection, Range
<1> QED
  BY <1>1, <1>2, <1>7

\* The recursion of FlattenSeq.
IsFlatten(f, ss) ==
  f = [i \in 1 .. Len(ss) |-> IF i = 1 THEN ss[i] ELSE f[i - 1] \o ss[i]]

LEMMA FlattenExists ==
  ASSUME NEW V, NEW ss \in Seq(Seq(V)), Len(ss) # 0
  PROVE  \E f : IsFlatten(f, ss)
<1> DEFINE n == Len(ss)
           Is(f, k) == \A i \in 1 .. k : f[i] = IF i = 1 THEN ss[i] ELSE f[i - 1] \o ss[i]
           S == {k \in Nat : \E f : f = [i \in 1 .. k |-> f[i]] /\ Is(f, k)}
<1>1. 0 \in S
  <2>1. <<>> = [i \in 1 .. 0 |-> <<>>[i]] /\ Is(<<>>, 0)
    OBVIOUS
  <2> QED
    BY <2>1
<1>2. ASSUME NEW k \in Nat, k \in S PROVE k + 1 \in S
  <2>1. PICK f : f = [i \in 1 .. k |-> f[i]] /\ Is(f, k)
    BY <1>2
  <2> DEFINE g == [i \in 1 .. k + 1 |->
                     IF i = k + 1 THEN IF i = 1 THEN ss[i] ELSE f[i - 1] \o ss[i] ELSE f[i]]
  <2>2. \A i \in 1 .. k + 1 : i # k + 1 => i \in 1 .. k
    OBVIOUS
  <2>3. ASSUME NEW i \in 1 .. k + 1
        PROVE  g[i] = IF i = 1 THEN ss[i] ELSE g[i - 1] \o ss[i]
    <3>1. i # 1 => i - 1 \in 1 .. k + 1 /\ i - 1 # k + 1
      OBVIOUS
    <3>2. i # 1 => g[i - 1] = f[i - 1]
      BY <3>1
    <3>3. CASE i = k + 1
      BY <3>2, <3>3
    <3>4. CASE i # k + 1
      <4>1. g[i] = f[i] /\ i \in 1 .. k
        BY <2>2, <3>4
      <4> QED
        BY <2>1, <3>2, <4>1
    <3> QED
      BY <3>3, <3>4
  <2>4. g = [i \in 1 .. k + 1 |-> g[i]] /\ Is(g, k + 1)
    <3>1. g = [i \in 1 .. k + 1 |-> g[i]]
      OBVIOUS
    <3> HIDE DEF g
    <3> QED
      BY <2>3, <3>1
  <2> HIDE DEF g, Is
  <2> QED
    BY <2>4
<1>3. n \in S
  <2>1. n \in Nat
    BY LenProperties
  <2> HIDE DEF S
  <2> QED
    BY <1>1, <1>2, <2>1, AllNumbers
<1>4. PICK f : f = [i \in 1 .. n |-> f[i]] /\ Is(f, n)
  BY <1>3
<1>5. [i \in 1 .. n |-> f[i]] = [i \in 1 .. n |-> IF i = 1 THEN ss[i] ELSE f[i - 1] \o ss[i]]
  BY <1>4
<1>6. IsFlatten(f, ss)
  BY <1>4, <1>5, Zenon DEF IsFlatten
<1> QED
  BY <1>6

\* Flattening keeps the elements of every sequence and adds none.
LEMMA FlattenIs ==
  ASSUME NEW V, NEW ss \in Seq(Seq(V))
  PROVE  /\ FlattenSeq(ss) \in Seq(V)
         /\ Range(FlattenSeq(ss)) = UNION {Range(ss[i]) : i \in DOMAIN ss}
<1> DEFINE n == Len(ss)
<1>1. n \in Nat /\ DOMAIN ss = 1 .. n /\ \A i \in 1 .. n : ss[i] \in Seq(V)
  BY LenProperties, ElementOfSeq
<1>2. CASE n = 0
  <2>1. ss = <<>>
    BY <1>2, EmptySeq
  <2>2. FlattenSeq(ss) = ss
    BY <1>2 DEF FlattenSeq
  <2>3. Range(<<>>) = {}
    BY DEF Range
  <2>4. DOMAIN ss = {}
    BY <1>1, <1>2
  <2>5. UNION {Range(ss[i]) : i \in DOMAIN ss} = {}
    BY <2>4
  <2>6. <<>> \in Seq(V)
    OBVIOUS
  <2> QED
    BY <2>1, <2>2, <2>3, <2>5, <2>6
<1>3. CASE n # 0
  <2> DEFINE f == CHOOSE g : IsFlatten(g, ss)
  <2>1. IsFlatten(f, ss)
    BY <1>3, FlattenExists
  <2>2. FlattenSeq(ss) = f[n]
    BY <1>3, Zenon DEF FlattenSeq, IsFlatten
  <2> HIDE DEF f
  <2>3. \A i \in 1 .. n : f[i] = IF i = 1 THEN ss[i] ELSE f[i - 1] \o ss[i]
    BY <2>1, Zenon DEF IsFlatten
  <2> DEFINE Upto(i) == UNION {Range(ss[j]) : j \in 1 .. i}
             At(i) == f[i] \in Seq(V) /\ Range(f[i]) = Upto(i)
             S == {k \in Nat : k + 1 <= n => At(k + 1)}
  <2> HIDE DEF n
  <2>4. 0 \in S
    <3>1. f[1] = ss[1] /\ ss[1] \in Seq(V)
      BY <1>1, <1>3, <2>3
    <3>2. Upto(1) = Range(ss[1])
      <4>1. \A j \in 1 .. 1 : j = 1
        OBVIOUS
      <4> QED
        BY <4>1
    <3>3. At(0 + 1)
      BY <3>1, <3>2
    <3> HIDE DEF At
    <3> QED
      BY <3>3
  <2>5. ASSUME NEW k \in Nat, k \in S PROVE k + 1 \in S
    <3>1. SUFFICES ASSUME k + 1 + 1 <= n PROVE At(k + 1 + 1)
      <4> HIDE DEF At
      <4> QED
        OBVIOUS
    <3>2. At(k + 1)
      <4> HIDE DEF At
      <4> QED
        BY <1>1, <2>5, <3>1
    <3>3. /\ k + 1 + 1 \in 1 .. n /\ k + 1 + 1 # 1 /\ (k + 1 + 1) - 1 = k + 1
      BY <1>1, <3>1
    <3>4. f[k + 1 + 1] = f[k + 1] \o ss[k + 1 + 1]
      BY <2>3, <3>3
    <3>5. f[k + 1] \in Seq(V) /\ ss[k + 1 + 1] \in Seq(V)
      BY <1>1, <3>2, <3>3
    <3>6. /\ f[k + 1 + 1] \in Seq(V)
          /\ Range(f[k + 1 + 1]) = Range(f[k + 1]) \union Range(ss[k + 1 + 1])
      BY <3>4, <3>5, ConcatProperties, RangeConcatenation
    <3>7. Upto(k + 1 + 1) = Upto(k + 1) \union Range(ss[k + 1 + 1])
      <4>1. \A j : j \in 1 .. k + 1 + 1 <=> j \in 1 .. k + 1 \/ j = k + 1 + 1
        OBVIOUS
      <4> QED
        BY <4>1
    <3> HIDE DEF Upto
    <3> QED
      BY <3>2, <3>6, <3>7
  <2>6. n - 1 \in S
    <3>1. n - 1 \in Nat
      BY <1>1, <1>3
    <3> HIDE DEF S
    <3> QED
      BY <2>4, <2>5, <3>1, AllNumbers
  <2>7. At(n)
    <3>1. (n - 1) + 1 = n /\ n <= n
      BY <1>1
    <3> HIDE DEF At
    <3> QED
      BY <2>6, <3>1
  <2> QED
    BY <1>1, <2>2, <2>7 DEF n
<1> QED
  BY <1>2, <1>3

-----------------------------------------------------------------------------
(* The walk down the BOM *)

Materials == Range(Child)

LEMMA MaterialsAre ==
  IsFiniteSet(Materials) /\ \A r \in Rows : Child[r] \in Materials
<1>1. \A r \in Rows : Child[r] \in Materials
  BY RowsAreOrdered DEF Materials, Range
<1>2. IsFiniteSet(Materials)
  <2> DEFINE child == [r \in Rows |-> Child[r]]
  <2>1. child \in Surjection(Rows, Materials)
    BY RowsAreOrdered DEF Surjection, Materials, Range
  <2> HIDE DEF child
  <2> QED
    BY <2>1, RowsAreOrdered, FS_Surjection
<1> QED
  BY <1>1, <1>2

RowsBelow(material) == {r \in world.bom : Parent[r] = material}

\* The rows of a material are walked in their order, and each of them.
LEMMA ChildRowsAre ==
  ASSUME world \in Worlds, NEW material
  PROVE  /\ ChildRows(material) \in Seq(RowsBelow(material))
         /\ Range(ChildRows(material)) = RowsBelow(material)
<1> DEFINE rows == RowsBelow(material)
<1>1. rows \subseteq Int /\ IsFiniteSet(rows)
  <2>1. rows \in SUBSET Rows
    BY WorldsAreTables DEF RowsBelow
  <2> QED
    BY <2>1, RowsAreOrdered, FS_Subset
<1>2. ChildRows(material) =
        CHOOSE seq \in [1 .. Cardinality(rows) -> rows] :
          \A i, j \in DOMAIN seq : i < j => seq[i] < seq[j]
  BY Zenon DEF ChildRows, RowsBelow
<1> HIDE DEF rows
<1>3. PICK q : IsUpwards(q, rows)
  BY <1>1, UpwardsExists
<1>4. \E seq \in [1 .. Cardinality(rows) -> rows] : \A i, j \in DOMAIN seq : i < j => seq[i] < seq[j]
  BY <1>3 DEF IsUpwards
<1>5. /\ ChildRows(material) \in [1 .. Cardinality(rows) -> rows]
      /\ \A i, j \in DOMAIN ChildRows(material) : i < j =>
           ChildRows(material)[i] < ChildRows(material)[j]
  BY <1>2, <1>4, Zenon
<1>6. IsUpwards(ChildRows(material), rows)
  BY <1>5 DEF IsUpwards
<1> QED
  BY <1>1, <1>6, NothingMissed DEF rows

\* The recursion of PartPaths: what a row contributes, given the walks that have seen its
\* child, and what the rows of each material do.
Branch(walk, seen, row) ==
  LET below == walk[seen \union {Child[row]}][Child[row]]
  IN IF Child[row] \in seen THEN <<>>
     ELSE (IF row \in world.own THEN << <<row>> >> ELSE <<>>)
          \o [j \in DOMAIN below |-> <<row>> \o below[j]]

Level(walk, seen) ==
  [material \in Materials |->
     FlattenSeq([i \in DOMAIN ChildRows(material) |-> Branch(walk, seen, ChildRows(material)[i])])]

IsWalk(walk) == walk = [seen \in SUBSET Materials |-> Level(walk, seen)]

LEMMA PartPathsIs ==
  ASSUME NEW assembly
  PROVE  PartPaths(assembly) = (CHOOSE walk : IsWalk(walk))[{assembly}][assembly]
BY Zenon DEF PartPaths, IsWalk, Level, Branch, Materials

\* A walk uses only the walks that have seen one more material.
LEMMA LevelUses ==
  ASSUME world \in Worlds, NEW seen \in SUBSET Materials, NEW v, NEW w,
         \A c \in Materials \ seen : v[seen \union {c}] = w[seen \union {c}]
  PROVE  Level(v, seen) = Level(w, seen)
<1>1. ASSUME NEW row \in Rows PROVE Branch(v, seen, row) = Branch(w, seen, row)
  <2>1. CASE Child[row] \in seen
    BY <2>1 DEF Branch
  <2>2. CASE Child[row] \notin seen
    <3>1. v[seen \union {Child[row]}] = w[seen \union {Child[row]}]
      BY <2>2, MaterialsAre
    <3> QED
      BY <3>1 DEF Branch
  <2> QED
    BY <2>1, <2>2
<1>2. ASSUME NEW material \in Materials
      PROVE  [i \in DOMAIN ChildRows(material) |-> Branch(v, seen, ChildRows(material)[i])] =
             [i \in DOMAIN ChildRows(material) |-> Branch(w, seen, ChildRows(material)[i])]
  <2>1. \A i \in DOMAIN ChildRows(material) : ChildRows(material)[i] \in Rows
    <3>1. \A r \in Range(ChildRows(material)) : r \in Rows
      BY ChildRowsAre, WorldsAreTables DEF RowsBelow
    <3> QED
      BY <3>1 DEF Range
  <2> QED
    BY <1>1, <2>1
<1> QED
  BY <1>2 DEF Level

\* However the BOM loops, the walk ends: there is a function that satisfies the recursion.
LEMMA WalkExists ==
  ASSUME world \in Worlds
  PROVE  \E walk : IsWalk(walk)
<1> DEFINE Left(seen) == Cardinality(Materials \ seen)
           Upto(walk, k) == \A seen \in SUBSET Materials : Left(seen) < k => walk[seen] = Level(walk, seen)
           S == {k \in Nat : \E walk : Upto(walk, k)}
<1>1. ASSUME NEW seen \in SUBSET Materials PROVE Left(seen) \in Nat
  <2>1. Materials \ seen \in SUBSET Materials
    OBVIOUS
  <2>2. IsFiniteSet(Materials \ seen)
    BY <2>1, MaterialsAre, FS_Subset
  <2> QED
    BY <2>2, FS_CardinalityType
<1>2. ASSUME NEW seen \in SUBSET Materials, NEW c \in Materials \ seen
      PROVE  seen \union {c} \in SUBSET Materials /\ Left(seen \union {c}) = Left(seen) - 1
  <2>1. Materials \ (seen \union {c}) = (Materials \ seen) \ {c}
    OBVIOUS
  <2>2. Materials \ seen \in SUBSET Materials
    OBVIOUS
  <2>3. IsFiniteSet(Materials \ seen)
    BY <2>2, MaterialsAre, FS_Subset
  <2> QED
    BY <2>1, <2>3, FS_RemoveElement
<1> HIDE DEF Left
<1>3. 0 \in S
  <2>1. Upto(<<>>, 0)
    BY <1>1
  <2> QED
    BY <2>1
<1>4. ASSUME NEW k \in Nat, k \in S PROVE k + 1 \in S
  <2>1. PICK w : Upto(w, k)
    BY <1>4
  <2> DEFINE v == [seen \in SUBSET Materials |-> IF Left(seen) < k THEN w[seen] ELSE Level(w, seen)]
  <2>2. ASSUME NEW seen \in SUBSET Materials, Left(seen) < k + 1 PROVE v[seen] = Level(v, seen)
    <3>1. ASSUME NEW c \in Materials \ seen PROVE v[seen \union {c}] = w[seen \union {c}]
      <4>1. seen \union {c} \in SUBSET Materials /\ Left(seen \union {c}) = Left(seen) - 1
        BY <1>2
      <4>2. Left(seen \union {c}) < k
        BY <1>1, <2>2, <4>1
      <4> QED
        BY <4>1, <4>2
    <3> HIDE DEF v
    <3>2. Level(v, seen) = Level(w, seen)
      BY <3>1, LevelUses
    <3>3. v[seen] = Level(w, seen)
      <4>1. CASE Left(seen) < k
        BY <2>1, <4>1 DEF v
      <4>2. CASE ~(Left(seen) < k)
        BY <4>2 DEF v
      <4> QED
        BY <4>1, <4>2
    <3> QED
      BY <3>2, <3>3
  <2> HIDE DEF v
  <2>3. Upto(v, k + 1)
    BY <2>2
  <2> QED
    BY <2>3
<1>5. Left({}) + 1 \in S
  <2>1. Left({}) + 1 \in Nat
    BY <1>1
  <2> HIDE DEF S
  <2> QED
    BY <1>3, <1>4, <2>1, AllNumbers
<1>6. PICK w : Upto(w, Left({}) + 1)
  BY <1>5
<1>7. ASSUME NEW seen \in SUBSET Materials PROVE Left(seen) < Left({}) + 1
  <2>1. Materials \ seen \in SUBSET (Materials \ {}) /\ Materials \ {} = Materials
    OBVIOUS
  <2>2. Left(seen) <= Left({})
    BY <2>1, MaterialsAre, FS_Subset DEF Left
  <2> QED
    BY <1>1, <2>2
<1> DEFINE v == [seen \in SUBSET Materials |-> w[seen]]
<1>8. ASSUME NEW seen \in SUBSET Materials PROVE v[seen] = Level(v, seen)
  <2>1. \A c \in Materials \ seen : v[seen \union {c}] = w[seen \union {c}]
    OBVIOUS
  <2>2. v[seen] = w[seen]
    OBVIOUS
  <2>3. w[seen] = Level(w, seen)
    BY <1>6, <1>7
  <2> HIDE DEF v
  <2> QED
    BY <2>1, <2>2, <2>3, LevelUses
<1>9. v = [seen \in SUBSET Materials |-> v[seen]]
  OBVIOUS
<1> HIDE DEF v
<1>10. [seen \in SUBSET Materials |-> v[seen]] = [seen \in SUBSET Materials |-> Level(v, seen)]
  BY <1>8
<1>11. IsWalk(v)
  BY <1>9, <1>10, Zenon DEF IsWalk
<1> QED
  BY <1>11

\* Ways down the BOM from a material to a self-made part that meet no material twice and
\* none already seen.
WalkPaths(seen, material) ==
  {path \in Seq(world.bom) :
     /\ path # <<>> /\ Last(path) \in world.own
     /\ Parent[path[1]] = material
     /\ \A i \in 2 .. Len(path) : Parent[path[i]] = Child[path[i - 1]]
     /\ \A i \in DOMAIN path : /\ Child[path[i]] \notin seen
                               /\ \A j \in 1 .. i - 1 : Child[path[j]] # Child[path[i]]}

BranchPaths(seen, row) == {path \in WalkPaths(seen, Parent[row]) : path[1] = row}

LEMMA OneElement ==
  ASSUME NEW V, NEW x \in V
  PROVE  /\ <<x>> \in Seq(V) /\ <<x>> # <<>> /\ Len(<<x>>) = 1
         /\ <<x>>[1] = x /\ DOMAIN <<x>> = {1}
  OBVIOUS

\* A row put before a path.
Before(row, path) == <<row>> \o path
IsBeforeOne(path, row, paths) == \E b \in paths : path = Before(row, b)

LEMMA RowBefore ==
  ASSUME NEW V, NEW row \in V, NEW b \in Seq(V),
         NEW c, c = <<row>> \o b
  PROVE  /\ c \in Seq(V) /\ c # <<>>
         /\ Len(c) = Len(b) + 1 /\ Len(b) \in Nat
         /\ c[1] = row
         /\ \A i \in 2 .. Len(b) + 1 : i - 1 \in 1 .. Len(b) /\ c[i] = b[i - 1]
         /\ b # <<>> => c[Len(c)] = b[Len(b)]
<1>1. <<row>> \in Seq(V) /\ Len(<<row>>) = 1 /\ <<row>>[1] = row /\ Len(b) \in Nat
  BY LenProperties
<1>2. /\ <<row>> \o b \in Seq(V) /\ Len(<<row>> \o b) = 1 + Len(b)
      /\ \A i \in 1 .. 1 + Len(b) : (<<row>> \o b)[i] = IF i <= 1 THEN <<row>>[i] ELSE b[i - 1]
  BY <1>1, ConcatProperties
<1>3. c \in Seq(V) /\ Len(c) = Len(b) + 1
  BY <1>1, <1>2
<1>4. c[1] = row /\ \A i \in 2 .. Len(b) + 1 : i - 1 \in 1 .. Len(b) /\ c[i] = b[i - 1]
  BY <1>1, <1>2
<1>5. c # <<>>
  BY <1>1, <1>3, EmptySeq
<1>6. ASSUME b # <<>> PROVE c[Len(c)] = b[Len(b)]
  <2>1. Len(b) \in Nat \ {0}
    BY <1>6, EmptySeq
  <2>2. Len(c) \in 2 .. Len(b) + 1 /\ Len(c) - 1 = Len(b)
    BY <1>3, <2>1
  <2> QED
    BY <1>4, <2>2
<1> QED
  BY <1>1, <1>3, <1>4, <1>5, <1>6

\* A self-made row is a path; a row before a path that has seen its child is one.
LEMMA RowIsPath ==
  ASSUME NEW seen, NEW row \in world.bom, row \in world.own, Child[row] \notin seen
  PROVE  <<row>> \in BranchPaths(seen, row)
<1>1. /\ <<row>> \in Seq(world.bom) /\ <<row>> # <<>> /\ Len(<<row>>) = 1
      /\ <<row>>[1] = row /\ DOMAIN <<row>> = {1}
  <2> DEFINE V == world.bom
  <2>1. row \in V
    OBVIOUS
  <2> HIDE DEF V
  <2>2. /\ <<row>> \in Seq(V) /\ <<row>> # <<>> /\ Len(<<row>>) = 1
        /\ <<row>>[1] = row /\ DOMAIN <<row>> = {1}
    BY <2>1, OneElement
  <2> QED
    BY <2>2, Zenon DEF V
<1>2. Last(<<row>>) = row
  BY <1>1 DEF Last
<1>3. <<row>> \in WalkPaths(seen, Parent[row])
  BY <1>1, <1>2 DEF WalkPaths
<1> QED
  BY <1>1, <1>3 DEF BranchPaths

LEMMA RowBeforePath ==
  ASSUME NEW seen, NEW row \in world.bom, Child[row] \notin seen,
         NEW b \in WalkPaths(seen \union {Child[row]}, Child[row])
  PROVE  Before(row, b) \in BranchPaths(seen, row)
<1> DEFINE path == <<row>> \o b
           n == Len(b)
<1>1. /\ b \in Seq(world.bom) /\ b # <<>> /\ Last(b) \in world.own
      /\ Parent[b[1]] = Child[row]
      /\ \A i \in 2 .. Len(b) : Parent[b[i]] = Child[b[i - 1]]
      /\ \A i \in DOMAIN b : /\ Child[b[i]] \notin seen \union {Child[row]}
                             /\ \A j \in 1 .. i - 1 : Child[b[j]] # Child[b[i]]
  BY DEF WalkPaths
<1>2. /\ path \in Seq(world.bom) /\ path # <<>>
      /\ Len(path) = n + 1 /\ n \in Nat /\ path[1] = row
      /\ \A i \in 2 .. n + 1 : i - 1 \in 1 .. n /\ path[i] = b[i - 1]
      /\ Last(path) = Last(b)
  <2> DEFINE V == world.bom
  <2>1. row \in V /\ b \in Seq(V) /\ b # <<>>
    BY <1>1
  <2> HIDE DEF V
  <2>2. /\ path \in Seq(V) /\ path # <<>>
        /\ Len(path) = n + 1 /\ n \in Nat /\ path[1] = row
        /\ \A i \in 2 .. n + 1 : i - 1 \in 1 .. n /\ path[i] = b[i - 1]
        /\ Last(path) = Last(b)
    <3>1. path = <<row>> \o b
      OBVIOUS
    <3> HIDE DEF path, n
    <3>2. /\ path \in Seq(V) /\ path # <<>>
          /\ Len(path) = Len(b) + 1 /\ Len(b) \in Nat /\ path[1] = row
          /\ \A i \in 2 .. Len(b) + 1 : i - 1 \in 1 .. Len(b) /\ path[i] = b[i - 1]
          /\ path[Len(path)] = b[Len(b)]
      BY <2>1, <3>1, RowBefore
    <3> QED
      BY <3>2 DEF n, Last
  <2> HIDE DEF path, n
  <2> QED
    BY <2>2, Zenon DEF V
<1>3. DOMAIN path = 1 .. n + 1 /\ DOMAIN b = 1 .. n
  BY <1>1, <1>2, LenProperties
<1> HIDE DEF path, n
<1>4. ASSUME NEW i \in 2 .. n + 1 PROVE Parent[path[i]] = Child[path[i - 1]]
  <2>1. CASE i = 2
    BY <1>1, <1>2, <2>1
  <2>2. CASE i # 2
    <3>1. i - 1 \in 2 .. n + 1 /\ i - 1 \in 2 .. n /\ (i - 1) - 1 \in 1 .. n
      BY <1>2, <2>2
    <3>2. path[i] = b[i - 1] /\ path[i - 1] = b[(i - 1) - 1]
      BY <1>2, <3>1
    <3>3. Parent[b[i - 1]] = Child[b[(i - 1) - 1]]
      BY <1>1, <3>1 DEF n
    <3> QED
      BY <3>2, <3>3
  <2> QED
    BY <2>1, <2>2
<1>5. ASSUME NEW i \in 1 .. n + 1
      PROVE  Child[path[i]] \notin seen /\ \A j \in 1 .. i - 1 : Child[path[j]] # Child[path[i]]
  <2>1. CASE i = 1
    BY <1>2, <2>1
  <2>2. CASE i # 1
    <3>1. i \in 2 .. n + 1 /\ i - 1 \in 1 .. n /\ path[i] = b[i - 1]
      BY <1>2, <2>2
    <3>2. /\ Child[b[i - 1]] \notin seen \union {Child[row]}
          /\ \A j \in 1 .. (i - 1) - 1 : Child[b[j]] # Child[b[i - 1]]
      BY <1>1, <1>3, <3>1
    <3>3. ASSUME NEW j \in 1 .. i - 1 PROVE Child[path[j]] # Child[path[i]]
      <4>1. CASE j = 1
        BY <1>2, <3>1, <3>2, <4>1
      <4>2. CASE j # 1
        <5>1. j \in 2 .. n + 1 /\ j - 1 \in 1 .. (i - 1) - 1
          BY <1>2, <3>1, <4>2
        <5>2. path[j] = b[j - 1]
          BY <1>2, <5>1
        <5> QED
          BY <3>1, <3>2, <5>1, <5>2
      <4> QED
        BY <4>1, <4>2
    <3> QED
      BY <3>1, <3>2, <3>3
  <2> QED
    BY <2>1, <2>2
<1>6. path \in WalkPaths(seen, Parent[row])
  BY <1>1, <1>2, <1>3, <1>4, <1>5 DEF WalkPaths
<1> QED
  BY <1>2, <1>6 DEF BranchPaths, path, Before

\* The other way round: a path is its first row, or that before a shorter path.
LEMMA PathIsRowBefore ==
  ASSUME NEW seen, NEW row, NEW path \in BranchPaths(seen, row)
  PROVE  /\ row \in world.bom /\ Child[row] \notin seen
         /\ \/ row \in world.own /\ path = <<row>>
            \/ IsBeforeOne(path, row, WalkPaths(seen \union {Child[row]}, Child[row]))
<1>1. /\ path \in Seq(world.bom) /\ path # <<>> /\ Last(path) \in world.own /\ path[1] = row
      /\ \A i \in 2 .. Len(path) : Parent[path[i]] = Child[path[i - 1]]
      /\ \A i \in DOMAIN path : /\ Child[path[i]] \notin seen
                                /\ \A j \in 1 .. i - 1 : Child[path[j]] # Child[path[i]]
  BY DEF BranchPaths, WalkPaths
<1> DEFINE n == Len(path)
           b == Tail(path)
<1>2. n \in Nat \ {0} /\ DOMAIN path = 1 .. n /\ path \in [1 .. n -> world.bom]
  BY <1>1, EmptySeq, LenProperties
<1>3. row \in world.bom /\ Child[row] \notin seen
  BY <1>1, <1>2
<1>4. /\ b \in Seq(world.bom) /\ Len(b) = n - 1
      /\ \A i \in 1 .. Len(b) : b[i] = path[i + 1]
  BY <1>1, HeadTailProperties
<1>5. DOMAIN b = 1 .. n - 1
  BY <1>4, LenProperties
<1>6. path = <<row>> \o b
  <2>1. /\ <<row>> \o b \in Seq(world.bom) /\ Len(<<row>> \o b) = Len(b) + 1
        /\ (<<row>> \o b)[1] = row
        /\ \A i \in 2 .. Len(b) + 1 : i - 1 \in 1 .. Len(b) /\ (<<row>> \o b)[i] = b[i - 1]
    <3> DEFINE V == world.bom
    <3>1. row \in V /\ b \in Seq(V)
      BY <1>3, <1>4
    <3> DEFINE c == <<row>> \o b
    <3>2. c = <<row>> \o b
      OBVIOUS
    <3> HIDE DEF V, b, c
    <3>3. /\ c \in Seq(V) /\ Len(c) = Len(b) + 1 /\ c[1] = row
          /\ \A i \in 2 .. Len(b) + 1 : i - 1 \in 1 .. Len(b) /\ c[i] = b[i - 1]
      BY <3>1, <3>2, RowBefore
    <3> QED
      BY <3>3, Zenon DEF V, c
  <2> DEFINE c == <<row>> \o b
  <2> HIDE DEF c, b, n
  <2>2. c \in Seq(world.bom) /\ Len(c) = n
    BY <1>2, <1>4, <2>1 DEF c
  <2>3. ASSUME NEW i \in 1 .. n PROVE path[i] = c[i]
    <3>1. CASE i = 1
      BY <1>1, <2>1, <3>1 DEF c
    <3>2. CASE i # 1
      <4>1. i \in 2 .. Len(b) + 1 /\ (i - 1) + 1 = i /\ i - 1 \in 1 .. Len(b)
        BY <1>2, <1>4, <3>2
      <4> QED
        BY <1>4, <2>1, <4>1 DEF c
    <3> QED
      BY <3>1, <3>2
  <2>4. Len(path) = Len(c)
    BY <2>2 DEF n
  <2>5. \A i \in 1 .. Len(path) : path[i] = c[i]
    BY <2>3 DEF n
  <2>6. path = c
    BY <1>1, <2>2, <2>4, <2>5, SeqEqual
  <2> QED
    BY <2>6 DEF c
<1> HIDE DEF b, n
<1>7. CASE n = 1
  <2>1. b = <<>>
    BY <1>4, <1>7, EmptySeq
  <2>2. <<row>> \o <<>> = <<row>>
    <3> DEFINE V == world.bom
    <3>1. row \in V
      BY <1>3
    <3> HIDE DEF V
    <3>2. <<row>> \in Seq(V)
      BY <3>1, OneElement
    <3> QED
      BY <3>2, ConcatEmptySeq
  <2>3. Last(path) = row
    BY <1>1, <1>7 DEF Last, n
  <2> QED
    BY <1>1, <1>3, <1>6, <2>1, <2>2, <2>3
<1>8. CASE n # 1
  <2>1. n - 1 \in Nat \ {0} /\ b # <<>> /\ 1 \in 1 .. n - 1
    BY <1>2, <1>4, <1>8, EmptySeq
  <2>2. Last(b) \in world.own
    <3>1. Last(path) = Last(b)
      <4> DEFINE V == world.bom
      <4>1. row \in V /\ b \in Seq(V)
        BY <1>3, <1>4
      <4> HIDE DEF V
      <4>2. path[Len(path)] = b[Len(b)]
        BY <4>1, <1>6, <2>1, RowBefore
      <4> QED
        BY <4>2 DEF Last
    <3> QED
      BY <1>1, <3>1
  <2>3. Parent[b[1]] = Child[row]
    <3>1. b[1] = path[1 + 1] /\ 1 + 1 \in 2 .. n
      BY <1>2, <1>4, <1>8, <2>1
    <3>2. Parent[path[1 + 1]] = Child[path[(1 + 1) - 1]]
      BY <1>1, <3>1 DEF n
    <3> QED
      BY <1>1, <3>1, <3>2
  <2>4. ASSUME NEW i \in 2 .. n - 1 PROVE Parent[b[i]] = Child[b[i - 1]]
    <3>1. i \in 1 .. n - 1 /\ i - 1 \in 1 .. n - 1 /\ i + 1 \in 2 .. n /\ (i - 1) + 1 = (i + 1) - 1
      BY <1>2
    <3>2. b[i] = path[i + 1] /\ b[i - 1] = path[(i + 1) - 1]
      BY <1>4, <3>1
    <3>3. Parent[path[i + 1]] = Child[path[(i + 1) - 1]]
      BY <1>1, <3>1 DEF n
    <3> QED
      BY <3>2, <3>3
  <2>5. ASSUME NEW i \in 1 .. n - 1
        PROVE  /\ Child[b[i]] \notin seen \union {Child[row]}
               /\ \A j \in 1 .. i - 1 : Child[b[j]] # Child[b[i]]
    <3>1. i + 1 \in 1 .. n /\ b[i] = path[i + 1] /\ 1 \in 1 .. (i + 1) - 1
      BY <1>2, <1>4
    <3>2. /\ Child[path[i + 1]] \notin seen
          /\ \A j \in 1 .. (i + 1) - 1 : Child[path[j]] # Child[path[i + 1]]
      BY <1>1, <1>2, <3>1
    <3>3. Child[path[1]] # Child[path[i + 1]]
      BY <3>1, <3>2
    <3>4. ASSUME NEW j \in 1 .. i - 1 PROVE Child[b[j]] # Child[b[i]]
      <4>1. j \in 1 .. n - 1 /\ j + 1 \in 1 .. (i + 1) - 1
        BY <1>2
      <4>2. b[j] = path[j + 1]
        BY <1>4, <4>1
      <4> QED
        BY <3>1, <3>2, <4>1, <4>2
    <3> QED
      BY <1>1, <3>1, <3>2, <3>3, <3>4
  <2>6. b \in WalkPaths(seen \union {Child[row]}, Child[row])
    BY <1>4, <1>5, <2>1, <2>2, <2>3, <2>4, <2>5 DEF WalkPaths
  <2> QED
    BY <1>3, <1>6, <2>6 DEF Before, IsBeforeOne
<1> QED
  BY <1>7, <1>8

\* Putting one row before each of a list of paths.
BeforeAll(row, below) == [j \in DOMAIN below |-> Before(row, below[j])]

LEMMA BeforeEach ==
  ASSUME NEW V, NEW row \in V, NEW below \in Seq(Seq(V))
  PROVE  /\ BeforeAll(row, below) \in Seq(Seq(V))
         /\ \A b \in Range(below) : Before(row, b) \in Range(BeforeAll(row, below))
         /\ \A path \in Range(BeforeAll(row, below)) : IsBeforeOne(path, row, Range(below))
<1> DEFINE more == BeforeAll(row, below)
<1> HIDE DEF more
<1>1. Len(below) \in Nat /\ DOMAIN below = 1 .. Len(below)
      /\ \A j \in 1 .. Len(below) : below[j] \in Seq(V)
  BY LenProperties, ElementOfSeq
<1>2. <<row>> \in Seq(V)
  BY OneElement
<1>3. \A j \in 1 .. Len(below) : Before(row, below[j]) \in Seq(V)
  BY <1>1, <1>2, ConcatProperties DEF Before
<1>4. DOMAIN more = 1 .. Len(below) /\ \A j \in 1 .. Len(below) : more[j] = Before(row, below[j])
  BY <1>1 DEF BeforeAll, more
<1>5. more \in [1 .. Len(below) -> Seq(V)]
  BY <1>1, <1>3 DEF BeforeAll, more
<1>6. more \in Seq(Seq(V))
  <2> DEFINE S == Seq(V)
             n == Len(below)
  <2>1. n \in Nat /\ more \in [1 .. n -> S]
    BY <1>1, <1>5
  <2> HIDE DEF S, n
  <2> QED
    BY <2>1 DEF S
<1> HIDE <1>3
<1>7. ASSUME NEW b \in Range(below) PROVE Before(row, b) \in Range(more)
  <2>1. PICK j \in 1 .. Len(below) : b = below[j]
    BY <1>1 DEF Range
  <2>2. more[j] = Before(row, b) /\ j \in DOMAIN more
    BY <1>4, <2>1
  <2>3. more[j] \in Range(more)
    BY <2>2 DEF Range
  <2> QED
    BY <2>2, <2>3
<1>8. ASSUME NEW path \in Range(more) PROVE \E b \in Range(below) : path = Before(row, b)
  <2>1. PICK j \in 1 .. Len(below) : path = more[j]
    BY <1>4 DEF Range
  <2>2. below[j] \in Range(below)
    BY <1>1 DEF Range
  <2>3. path = Before(row, below[j])
    BY <1>4, <2>1
  <2> QED
    BY <2>2, <2>3
<1> QED
  BY <1>6, <1>7, <1>8 DEF more, IsBeforeOne

\* What one row contributes are the paths that begin with it.
LEMMA BranchIs ==
  ASSUME NEW walk, NEW seen, NEW row \in world.bom, NEW below,
         below = walk[seen \union {Child[row]}][Child[row]],
         Child[row] \notin seen =>
           /\ below \in Seq(Seq(world.bom))
           /\ Range(below) = WalkPaths(seen \union {Child[row]}, Child[row])
  PROVE  /\ Branch(walk, seen, row) \in Seq(Seq(world.bom))
         /\ Range(Branch(walk, seen, row)) = BranchPaths(seen, row)
<1> DEFINE V == world.bom
           W == WalkPaths(seen \union {Child[row]}, Child[row])
           B == BranchPaths(seen, row)
<1>1. CASE Child[row] \in seen
  <2>1. Branch(walk, seen, row) = <<>>
    BY <1>1, Zenon DEF Branch
  <2>2. B = {}
    BY <1>1, PathIsRowBefore
  <2>3. <<>> \in Seq(Seq(V)) /\ Range(<<>>) = {}
    BY DEF Range
  <2> QED
    BY <2>1, <2>2, <2>3
<1>2. CASE Child[row] \notin seen
  <2> DEFINE own == IF row \in world.own THEN << <<row>> >> ELSE <<>>
             more == BeforeAll(row, below)
  <2>1. Branch(walk, seen, row) = own \o more
    BY <1>2, Zenon DEF Branch, BeforeAll, Before
  <2>2. row \in V /\ below \in Seq(Seq(V)) /\ Range(below) = W
    BY <1>2
  <2>3. /\ row \in world.own => <<row>> \in B
        /\ \A b \in W : Before(row, b) \in B
        /\ \A path \in B : (row \in world.own /\ path = <<row>>) \/ \E b \in W : path = Before(row, b)
    <3>1. row \in world.own => <<row>> \in BranchPaths(seen, row)
      BY <1>2, RowIsPath
    <3>2. ASSUME NEW b \in W PROVE Before(row, b) \in B
      BY <1>2, RowBeforePath
    <3>3. ASSUME NEW path \in B
          PROVE  (row \in world.own /\ path = <<row>>) \/ \E b \in W : path = Before(row, b)
      <4>1. path \in BranchPaths(seen, row)
        OBVIOUS
      <4> HIDE DEF own, more, B, V
      <4>2. \/ row \in world.own /\ path = <<row>>
            \/ IsBeforeOne(path, row, WalkPaths(seen \union {Child[row]}, Child[row]))
        BY <4>1, PathIsRowBefore
      <4> QED
        BY <4>2 DEF IsBeforeOne
    <3> QED
      BY <3>1, <3>2, <3>3
  <2> HIDE DEF V, W, B
  <2>4. /\ more \in Seq(Seq(V))
        /\ \A b \in Range(below) : Before(row, b) \in Range(more)
        /\ \A path \in Range(more) : IsBeforeOne(path, row, Range(below))
    BY <2>2, BeforeEach
  <2>5. <<row>> \in Seq(V)
    BY <2>2, OneElement
  <2>6. own \in Seq(Seq(V)) /\ Range(own) = IF row \in world.own THEN {<<row>>} ELSE {}
    <3>1. CASE row \in world.own
      <4> DEFINE x == <<row>>
      <4>1. x \in Seq(V) /\ own = <<x>>
        BY <2>5, <3>1
      <4> HIDE DEF x
      <4>2. <<x>> \in Seq(Seq(V)) /\ <<x>>[1] = x /\ DOMAIN <<x>> = {1}
        BY <4>1, OneElement
      <4>3. Range(<<x>>) = {x}
        BY <4>2 DEF Range
      <4> QED
        BY <3>1, <4>1, <4>2, <4>3 DEF x
    <3>2. CASE row \notin world.own
      <4>1. own = <<>> /\ <<>> \in Seq(Seq(V)) /\ Range(<<>>) = {}
        BY <3>2 DEF Range
      <4> QED
        BY <3>2, <4>1
    <3> QED
      BY <3>1, <3>2
  <2> HIDE DEF own, more
  <2>7. own \o more \in Seq(Seq(V)) /\ Range(own \o more) = Range(own) \union Range(more)
    BY <2>4, <2>6, ConcatProperties, RangeConcatenation
  <2>8. Range(own) \union Range(more) = B
    <3>1. ASSUME NEW path \in B PROVE path \in Range(own) \union Range(more)
      BY <2>2, <2>3, <2>4, <2>6, <3>1, Zenon DEF IsBeforeOne
    <3>2. ASSUME NEW path \in Range(own) PROVE path \in B
      BY <2>3, <2>6, <3>2, Zenon
    <3>3. ASSUME NEW path \in Range(more) PROVE path \in B
      BY <2>2, <2>3, <2>4, <3>3, Zenon DEF IsBeforeOne
    <3> QED
      BY <3>1, <3>2, <3>3, Zenon
  <2> QED
    BY <2>1, <2>7, <2>8 DEF V, B
<1> QED
  BY <1>1, <1>2

\* What a walk visits are all the paths down from a material.
LEMMA WalkIs ==
  ASSUME world \in Worlds, NEW walk, IsWalk(walk)
  PROVE  \A seen \in SUBSET Materials : \A material \in Materials :
           /\ walk[seen][material] \in Seq(Seq(world.bom))
           /\ Range(walk[seen][material]) = WalkPaths(seen, material)
<1> DEFINE Good(seen) == \A material \in Materials :
             /\ walk[seen][material] \in Seq(Seq(world.bom))
             /\ Range(walk[seen][material]) = WalkPaths(seen, material)
           F == {Materials \ seen : seen \in {s \in SUBSET Materials : ~Good(s)}}
<1> SUFFICES ASSUME F # {} PROVE FALSE
  OBVIOUS
<1>1. \A T \in F : IsFiniteSet(T)
  <2>1. \A T \in F : T \in SUBSET Materials
    OBVIOUS
  <2> HIDE DEF F
  <2> QED
    BY <2>1, MaterialsAre, FS_Subset
<1>2. PICK T \in F : \A U \in F : U \subseteq T => U = T
  <2> HIDE DEF F
  <2> QED
    BY <1>1, MinimalMember
<1>3. PICK seen \in SUBSET Materials : ~Good(seen) /\ T = Materials \ seen
  BY <1>2
<1>4. ASSUME NEW c \in Materials \ seen PROVE Good(seen \union {c})
  <2> DEFINE U == Materials \ (seen \union {c})
  <2>1. seen \union {c} \in SUBSET Materials /\ U \subseteq T /\ U # T
    BY <1>3
  <2>2. U \notin F
    <3> HIDE DEF F, U
    <3> QED
      BY <1>2, <2>1
  <2> QED
    BY <2>1, <2>2
<1>5. walk[seen] = Level(walk, seen)
  BY DEF IsWalk
<1>6. ASSUME NEW row \in world.bom
      PROVE  /\ Branch(walk, seen, row) \in Seq(Seq(world.bom))
             /\ Range(Branch(walk, seen, row)) = BranchPaths(seen, row)
  <2>1. Child[row] \in Materials
    BY MaterialsAre, WorldsAreTables
  <2>2. Child[row] \notin seen => Good(seen \union {Child[row]})
    BY <1>4, <2>1
  <2> QED
    BY <2>1, <2>2, BranchIs
<1>7. ASSUME NEW material \in Materials
      PROVE  /\ walk[seen][material] \in Seq(Seq(world.bom))
             /\ Range(walk[seen][material]) = WalkPaths(seen, material)
  <2> DEFINE rows == ChildRows(material)
             ss == [i \in DOMAIN rows |-> Branch(walk, seen, rows[i])]
  <2>1. walk[seen][material] = FlattenSeq(ss)
    BY <1>5, Zenon DEF Level
  <2>2. rows \in Seq(RowsBelow(material)) /\ Range(rows) = RowsBelow(material)
    BY ChildRowsAre
  <2>3. RowsBelow(material) \subseteq world.bom /\ \A r \in RowsBelow(material) : Parent[r] = material
    BY DEF RowsBelow
  <2> HIDE DEF rows
  <2>4. Len(rows) \in Nat /\ DOMAIN rows = 1 .. Len(rows)
        /\ \A i \in DOMAIN rows : rows[i] \in RowsBelow(material)
    BY <2>2, LenProperties, ElementOfSeq
  <2>5. \A i \in DOMAIN rows : ss[i] \in Seq(Seq(world.bom)) /\ Range(ss[i]) = BranchPaths(seen, rows[i])
    BY <1>6, <2>3, <2>4
  <2>6. ss \in Seq(Seq(Seq(world.bom))) /\ DOMAIN ss = DOMAIN rows
    <3>1. ss \in [1 .. Len(rows) -> Seq(Seq(world.bom))]
      BY <2>4, <2>5
    <3> QED
      BY <2>4, <3>1
  <2> HIDE DEF ss
  <2>7. /\ FlattenSeq(ss) \in Seq(Seq(world.bom))
        /\ Range(FlattenSeq(ss)) = UNION {Range(ss[i]) : i \in DOMAIN ss}
    <3> DEFINE V == Seq(world.bom)
    <3>1. ss \in Seq(Seq(V))
      BY <2>6
    <3> HIDE DEF V
    <3>2. /\ FlattenSeq(ss) \in Seq(V)
          /\ Range(FlattenSeq(ss)) = UNION {Range(ss[i]) : i \in DOMAIN ss}
      BY <3>1, FlattenIs, Zenon
    <3> QED
      BY <3>2, Zenon DEF V
  <2>8. ASSUME NEW path \in WalkPaths(seen, material)
        PROVE  \E i \in DOMAIN ss : path \in Range(ss[i])
    <3>1. path \in Seq(world.bom) /\ path # <<>> /\ Parent[path[1]] = material
      BY DEF WalkPaths
    <3>2. path[1] \in RowsBelow(material)
      BY <3>1, EmptySeq, ElementOfSeq, LenProperties DEF RowsBelow
    <3>3. path \in BranchPaths(seen, path[1])
      BY <3>1 DEF BranchPaths
    <3>4. PICK i \in DOMAIN rows : rows[i] = path[1]
      BY <2>2, <3>2 DEF Range
    <3> QED
      BY <2>5, <2>6, <3>3, <3>4
  <2>9. ASSUME NEW i \in DOMAIN ss, NEW path \in Range(ss[i]) PROVE path \in WalkPaths(seen, material)
    <3>1. rows[i] \in RowsBelow(material) /\ Range(ss[i]) = BranchPaths(seen, rows[i])
      BY <2>4, <2>5, <2>6
    <3>2. path \in WalkPaths(seen, Parent[rows[i]])
      BY <2>9, <3>1 DEF BranchPaths
    <3> QED
      BY <2>3, <3>1, <3>2
  <2>10. UNION {Range(ss[i]) : i \in DOMAIN ss} = WalkPaths(seen, material)
    <3> HIDE <2>5, <2>6
    <3> QED
      BY <2>8, <2>9
  <2> QED
    BY <2>1, <2>7, <2>10
<1> QED
  BY <1>3, <1>7

\* The rows that can stand on a path below an assembly, and the materials they list.
RowsUnder == {r \in world.bom : \E s \in world.bom : Child[s] = Parent[r]}
MaterialsUnder == {Child[r] : r \in RowsUnder}

LEMMA UnderAreFinite ==
  ASSUME world \in Worlds
  PROVE  IsFiniteSet(RowsUnder) /\ IsFiniteSet(MaterialsUnder) /\ Cardinality(MaterialsUnder) \in Nat
<1>1. RowsUnder \in SUBSET Rows
  BY WorldsAreTables DEF RowsUnder
<1>2. IsFiniteSet(RowsUnder)
  BY <1>1, RowsAreOrdered, FS_Subset
<1>3. MaterialsUnder \in SUBSET Materials
  BY <1>1, MaterialsAre DEF MaterialsUnder
<1>4. IsFiniteSet(MaterialsUnder)
  BY <1>3, MaterialsAre, FS_Subset
<1> QED
  BY <1>2, <1>4, FS_CardinalityType

\* A path meets no material twice, so it is no longer than there are materials.
LEMMA PathsAreShort ==
  ASSUME world \in Worlds, NEW row \in world.bom, NEW path \in WalkPaths({Child[row]}, Child[row])
  PROVE  path \in BoundedSeq(RowsUnder, Cardinality(MaterialsUnder))
<1> DEFINE n == Len(path)
           f == [i \in 1 .. n |-> Child[path[i]]]
<1>1. /\ path \in Seq(world.bom) /\ path # <<>>
      /\ Parent[path[1]] = Child[row]
      /\ \A i \in 2 .. n : Parent[path[i]] = Child[path[i - 1]]
      /\ \A i \in DOMAIN path : \A j \in 1 .. i - 1 : Child[path[j]] # Child[path[i]]
  BY DEF WalkPaths
<1>2. n \in Nat \ {0} /\ DOMAIN path = 1 .. n /\ path \in [1 .. n -> world.bom]
  BY <1>1, EmptySeq, LenProperties
<1> HIDE DEF n
<1>3. ASSUME NEW i \in 1 .. n PROVE path[i] \in RowsUnder
  <2>1. path[i] \in world.bom
    BY <1>2
  <2>2. CASE i = 1
    BY <1>1, <2>1, <2>2 DEF RowsUnder
  <2>3. CASE i # 1
    <3>1. i \in 2 .. n /\ i - 1 \in 1 .. n
      BY <1>2, <2>3
    <3>2. path[i - 1] \in world.bom /\ Parent[path[i]] = Child[path[i - 1]]
      BY <1>1, <1>2, <3>1
    <3> QED
      BY <2>1, <3>2 DEF RowsUnder
  <2> QED
    BY <2>2, <2>3
<1>4. path \in [1 .. n -> RowsUnder]
  BY <1>2, <1>3
<1>5. f \in Injection(1 .. n, MaterialsUnder)
  <2>1. f \in [1 .. n -> MaterialsUnder]
    BY <1>3 DEF MaterialsUnder
  <2>2. ASSUME NEW i \in 1 .. n, NEW j \in 1 .. n, f[i] = f[j] PROVE i = j
    <3>1. CASE i < j
      <4>1. i \in 1 .. j - 1
        BY <3>1
      <4> QED
        BY <1>1, <1>2, <2>2, <4>1
    <3>2. CASE j < i
      <4>1. j \in 1 .. i - 1
        BY <3>2
      <4> QED
        BY <1>1, <1>2, <2>2, <4>1
    <3> QED
      BY <3>1, <3>2
  <2>3. DOMAIN f = 1 .. n
    OBVIOUS
  <2> HIDE DEF f
  <2>4. IsInjective(f)
    BY <2>2, <2>3 DEF IsInjective
  <2> QED
    BY <2>1, <2>4 DEF Injection
<1> HIDE DEF f
<1>6. Cardinality(1 .. n) = n
  BY <1>2, FS_Interval
<1>7. n <= Cardinality(MaterialsUnder)
  BY <1>5, <1>6, UnderAreFinite, FS_Injection
<1>8. n \in 0 .. Cardinality(MaterialsUnder)
  BY <1>2, <1>7, UnderAreFinite
<1> QED
  BY <1>4, <1>8 DEF BoundedSeq, SeqOf

\* What _collect_recursive_self_made_parts_from_rows (key_part_identify_service) finds below a
\* row, however the BOM loops: every way down to a self-made part that meets no material
\* twice, and no other.
THEOREM PartPathsAre ==
  ASSUME world \in Worlds, NEW row \in world.bom
  PROVE  /\ PartPaths(Child[row]) \in Seq(Seq(world.bom))
         /\ Range(PartPaths(Child[row])) = SimplePaths(Child[row])
<1> DEFINE m == Child[row]
<1>1. m \in Materials /\ {m} \in SUBSET Materials
  BY MaterialsAre, WorldsAreTables
<1>2. PICK walk : IsWalk(walk) /\ walk = CHOOSE w : IsWalk(w)
  BY WalkExists
<1>3. PartPaths(m) = walk[{m}][m]
  BY <1>2, PartPathsIs
<1>4. PartPaths(m) \in Seq(Seq(world.bom)) /\ Range(PartPaths(m)) = WalkPaths({m}, m)
  BY <1>1, <1>2, <1>3, WalkIs
<1>5. ASSUME NEW path \in WalkPaths({m}, m) PROVE path \in SimplePaths(m)
  <2>1. path \in BoundedSeq(RowsUnder, Cardinality(MaterialsUnder))
    BY PathsAreShort
  <2> QED
    BY <2>1 DEF WalkPaths, SimplePaths, RowsUnder, MaterialsUnder
<1>6. ASSUME NEW path \in SimplePaths(m) PROVE path \in WalkPaths({m}, m)
  <2>1. path \in BoundedSeq(RowsUnder, Cardinality(MaterialsUnder))
    BY Zenon DEF SimplePaths, RowsUnder, MaterialsUnder
  <2>2. PICK k \in 0 .. Cardinality(MaterialsUnder) : path \in [1 .. k -> RowsUnder]
    BY <2>1 DEF BoundedSeq, SeqOf
  <2>3. RowsUnder \subseteq world.bom
    BY DEF RowsUnder
  <2>4. path \in Seq(world.bom)
    <3>1. k \in Nat /\ path \in [1 .. k -> world.bom]
      BY <2>2, <2>3, UnderAreFinite
    <3> QED
      BY <3>1
  <2> QED
    BY <2>4 DEF WalkPaths, SimplePaths
<1> HIDE DEF m
<1>7. WalkPaths({m}, m) = SimplePaths(m)
  BY <1>5, <1>6
<1> QED
  BY <1>4, <1>7 DEF m

-----------------------------------------------------------------------------
(* Every path is planned, and fits *)

\* How EveryPathPlanned counts them.
PathsOf(rows, name) == {p.path : p \in {q \in rows : q.name = name}}
Wanted(row) == LET wanted == SimplePaths(Child[row]) IN IF wanted = {} THEN {<<>>} ELSE wanted

LEMMA PlannedMeans ==
  EveryPathPlanned <=>
    (parts # {} => \A n \in {NameOf[r] : r \in AssemblyRows} :
                     \E r \in AssemblyRows : NameOf[r] = n /\ PathsOf(parts, n) = Wanted(r))
BY Zenon DEF EveryPathPlanned, PathsOf, Wanted

\* The same of another BOM table.
PathsIn(bom, own, material) ==
  LET below == {r \in bom : \E s \in bom : Child[s] = Parent[r]}
  IN {path \in BoundedSeq(below, Cardinality({Child[r] : r \in below})) :
     /\ path # <<>> /\ Last(path) \in own
     /\ Parent[path[1]] = material
     /\ \A i \in 2 .. Len(path) : Parent[path[i]] = Child[path[i - 1]]
     /\ \A i \in DOMAIN path : /\ Child[path[i]] # material
                               /\ \A j \in 1 .. i - 1 : Child[path[j]] # Child[path[i]]}

LEMMA WantedStays ==
  ASSUME world' = world
  PROVE  AssemblyRows' = AssemblyRows /\ \A r : Wanted(r)' = Wanted(r)
<1>1. AssemblyRows' = AssemblyRows
  BY DEF AssemblyRows
<1>2. \A m : SimplePaths(m) = PathsIn(world.bom, world.own, m)
  BY Zenon DEF SimplePaths, PathsIn
<1>3. \A m : SimplePaths(m)' = PathsIn(world'.bom, world'.own, m)
  BY Zenon DEF SimplePaths, PathsIn
<1>4. \A r : Wanted(r) = IF SimplePaths(Child[r]) = {} THEN {<<>>} ELSE SimplePaths(Child[r])
  BY DEF Wanted
<1>5. \A r : Wanted(r)' = IF SimplePaths(Child[r])' = {} THEN {<<>>} ELSE SimplePaths(Child[r])'
  BY DEF Wanted
<1>6. \A m : SimplePaths(m)' = SimplePaths(m)
  BY <1>2, <1>3
<1> QED
  BY <1>1, <1>4, <1>5, <1>6

\* A row's assembly has the paths it should have.
LEMMA RowsHavePaths ==
  ASSUME world \in Worlds, NEW row \in world.bom,
         NEW name, NEW timing, NEW end, NEW calendar,
         NEW rows, rows = PartRows(name, timing, row, end, calendar)
  PROVE  (\A p \in rows : p.name = name) /\ {p.path : p \in rows} = Wanted(row)
<1> DEFINE paths == PartPaths(Child[row])
           wanted == SimplePaths(Child[row])
<1>1. paths \in Seq(Seq(world.bom)) /\ Range(paths) = wanted
  BY PartPathsAre
<1>2. paths = <<>> <=> wanted = {}
  <2> HIDE DEF paths, wanted
  <2>1. CASE paths = <<>>
    BY <1>1, <2>1 DEF Range
  <2>2. CASE paths # <<>>
    <3>1. 1 \in DOMAIN paths
      <4> DEFINE V == Seq(world.bom)
      <4>1. paths \in Seq(V)
        BY <1>1
      <4> HIDE DEF V
      <4> QED
        BY <2>2, <4>1, EmptySeq, LenProperties
    <3>2. paths[1] \in Range(paths)
      BY <3>1 DEF Range
    <3> QED
      BY <1>1, <2>2, <3>2
  <2> QED
    BY <2>1, <2>2
<1>3. \A p \in rows : /\ p.name = name
                      /\ paths = <<>> => p.path = <<>>
                      /\ paths # <<>> => p.path \in Range(paths)
  <2> HIDE DEF paths, wanted
  <2> QED
    BY PartRowIs DEF paths
<1>4. /\ paths = <<>> => \E p \in rows : p.path = <<>>
      /\ paths # <<>> => \A path \in Range(paths) : \E p \in rows : p.path = path
  <2> HIDE DEF paths, wanted
  <2> QED
    BY PartRowFor DEF paths
<1>5. Wanted(row) = IF wanted = {} THEN {<<>>} ELSE wanted
  BY DEF Wanted
<1> HIDE DEF paths, wanted
<1> QED
  BY <1>1, <1>2, <1>3, <1>4, <1>5

\* The key part takes no less time than any other.
LEMMA KeyIsLongest ==
  ASSUME world \in Worlds, NEW row \in world.bom,
         NEW paths, paths = PartPaths(Child[row]), paths # <<>>
  PROVE  /\ PartCycle(KeyPath(paths)) \in Nat
         /\ \A path \in Range(paths) : /\ PartCycle(path) \in Nat
                                       /\ PartCycle(path) <= PartCycle(KeyPath(paths))
<1>1. paths \in Seq(Seq(world.bom)) /\ Range(paths) = SimplePaths(Child[row])
  BY PartPathsAre
<1>2. \A path \in Range(paths) : PartCycle(path) \in Nat
  <2>1. \A path \in Range(paths) : Last(path) \in world.own
    BY <1>1 DEF SimplePaths
  <2> QED
    BY <2>1, WorldsAreTables, TimesAreNumbers DEF PartCycle
<1> DEFINE n == Len(paths)
           c == [i \in 1 .. n |-> PartCycle(paths[i])]
           C == Range(c)
<1>3. n \in Nat \ {0} /\ DOMAIN paths = 1 .. n
  <2> DEFINE V == Seq(world.bom)
  <2>1. paths \in Seq(V)
    BY <1>1
  <2> HIDE DEF V
  <2> QED
    BY <2>1, EmptySeq, LenProperties
<1> HIDE DEF n
<1>4. \A i \in 1 .. n : paths[i] \in Range(paths) /\ c[i] \in Nat /\ c[i] = PartCycle(paths[i])
  BY <1>2, <1>3 DEF Range
<1>5. DOMAIN c = 1 .. n
  OBVIOUS
<1> HIDE DEF c
<1>6. C \subseteq Int /\ IsFiniteSet(C) /\ C # {}
  <2>1. C \subseteq Int /\ C # {}
    BY <1>3, <1>4, <1>5 DEF Range
  <2>2. c \in Surjection(1 .. n, C)
    <3>1. c = [i \in 1 .. n |-> c[i]]
      BY <1>5 DEF c
    <3> QED
      BY <1>5, <3>1 DEF Surjection, Range
  <2>3. IsFiniteSet(1 .. n)
    BY <1>3, FS_Interval
  <2> HIDE DEF C
  <2> QED
    BY <2>1, <2>2, <2>3, FS_Surjection
<1>7. PICK m \in C : \A k \in C : m >= k
  <2> HIDE DEF C
  <2> QED
    BY <1>6, GreatestInteger
<1> DEFINE I == {i \in 1 .. n : c[i] = m}
<1>8. I \subseteq Int /\ IsFiniteSet(I) /\ I # {}
  <2>1. I \in SUBSET (1 .. n) /\ I # {}
    BY <1>5 DEF Range
  <2>2. IsFiniteSet(1 .. n)
    BY <1>3, FS_Interval
  <2> HIDE DEF I
  <2>3. IsFiniteSet(I)
    BY <2>1, <2>2, FS_Subset
  <2>4. 1 .. n \subseteq Int
    BY <1>3
  <2> QED
    BY <2>1, <2>3, <2>4
<1>9. PICK i \in I : \A k \in I : i <= k
  <2> HIDE DEF I
  <2> QED
    BY <1>8, LeastInteger
<1>10. ASSUME NEW j \in 1 .. n PROVE c[j] <= c[i] /\ (j < i => c[j] < c[i])
  <2>1. c[j] \in C /\ c[j] \in Nat /\ c[i] = m /\ c[i] \in Nat
    BY <1>4, <1>5 DEF Range
  <2>2. c[j] <= c[i]
    BY <1>7, <2>1
  <2>3. ASSUME j < i PROVE c[j] # c[i]
    <3>1. j \notin I
      BY <1>3, <1>9, <2>3
    <3> QED
      BY <2>1, <3>1
  <2> QED
    BY <2>1, <2>2, <2>3
<1>11. \E k \in DOMAIN paths :
         /\ \A j \in DOMAIN paths : PartCycle(paths[j]) <= PartCycle(paths[k])
         /\ \A j \in 1 .. k - 1 : PartCycle(paths[j]) < PartCycle(paths[k])
  <2>1. i \in 1 .. n
    OBVIOUS
  <2>2. \A j \in 1 .. i - 1 : j \in 1 .. n /\ j < i
    BY <1>3, <2>1
  <2> QED
    BY <1>3, <1>4, <1>10, <2>1, <2>2
<1>12. PICK k \in DOMAIN paths : /\ KeyPath(paths) = paths[k]
                                 /\ \A j \in DOMAIN paths : PartCycle(paths[j]) <= PartCycle(paths[k])
  BY <1>11, Zenon DEF KeyPath
<1> QED
  BY <1>2, <1>3, <1>4, <1>12 DEF Range

\* The planned starts lie in the calendar the part plan loaded.
StartsFitCalendar == \A p \in parts : p.path # <<>> => p.start >= Delivery - PartReach

PathsInv == EveryPathPlanned /\ (StartsFitCalendar => PartsFit)

\* A part can be made between its start and its end.
LEMMA RowsFit ==
  ASSUME world \in Worlds, NEW row \in world.bom,
         NEW name, NEW timing, NEW end \in Int, end <= Delivery,
         NEW calendar, calendar = Calendar(Delivery - PartReach, Delivery + EndSlack),
         NEW p \in PartRows(name, timing, row, end, calendar),
         p.path # <<>>, p.start >= Delivery - PartReach
  PROVE  FactoryDays(p.start, p.end) >= p.cycle
<1> DEFINE paths == PartPaths(Child[row])
           key == PartCycle(KeyPath(paths))
<1>1. /\ p.end = end
      /\ paths # <<>> /\ p.path \in Range(paths) /\ p.cycle = PartCycle(p.path)
      /\ p.start = SubtractWorkdays(end, key, calendar)
  BY PartRowIs
<1>2. key \in Nat /\ p.cycle \in Nat /\ p.cycle <= key
  <2> HIDE DEF paths
  <2> QED
    BY <1>1, KeyIsLongest DEF paths
<1> HIDE DEF paths, key
<1> DEFINE first == Delivery - PartReach
           last == Delivery + EndSlack
           start == p.start
<1>3. /\ first \in Int /\ last \in Int /\ key \in Int /\ end <= last + 1
      /\ end - first <= MaxIterations /\ MaxIterations \in Nat
  BY <1>2, CalendarIsLoaded
<1>4. start = SubtractWorkdays(end, key, Calendar(first, last)) /\ start >= first
  BY <1>1
<1>5. IsCalendar(Calendar(first, last))
  <2> HIDE DEF first, last
  <2> QED
    BY <1>3, LoadedIs
<1> HIDE DEF first, last, start
<1>6. start \in Int
  BY <1>3, <1>4, <1>5, SubtractReaches
<1>7. end - start <= MaxIterations
  BY <1>3, <1>4, <1>6
<1>8. FactoryDays(start, end) = key
  <2>1. ASSUME NEW from \in Int, from <= last + 1, NEW days \in Int, NEW day,
               day = SubtractWorkdays(from, days, Calendar(first, last)), day >= first,
               from - day <= MaxIterations
        PROVE  days >= 0 => FactoryDays(day, from) = days
    BY <1>3, <2>1, BackInside
  <2> QED
    BY <1>2, <1>3, <1>4, <1>7, <2>1
<1> QED
  BY <1>1, <1>2, <1>8 DEF start

LEMMA PathsInit == Init => PathsInv
BY PlannedMeans DEF Init, PathsInv, PartsFit

LEMMA PathsStep == TimesInv /\ TimesInv' /\ OrderInv /\ PathsInv /\ [Next]_vars => PathsInv'
<1> SUFFICES ASSUME TimesInv, TimesInv', OrderInv, PathsInv, [Next]_vars PROVE PathsInv'
  OBVIOUS
<1>1. world' = world /\ world \in Worlds /\ IsTable(times) /\ IsTable(times')
  BY WorldIsFixed DEF TimesInv
<1>2. /\ AssemblyRows' = AssemblyRows /\ \A r : Wanted(r)' = Wanted(r)
      /\ \A a, b : FactoryDays(a, b)' = FactoryDays(a, b)
  BY <1>1, WantedStays, FactoryDaysStay
<1>3. EveryPathPlanned' <=>
        (parts' # {} => \A n \in {NameOf[r] : r \in AssemblyRows} :
                          \E r \in AssemblyRows : NameOf[r] = n /\ PathsOf(parts', n) = Wanted(r))
  <2>1. EveryPathPlanned' <=>
          (parts' # {} => \A n \in {NameOf[r] : r \in AssemblyRows'} :
                            \E r \in AssemblyRows' : NameOf[r] = n /\ PathsOf(parts', n) = Wanted(r)')
    BY Zenon DEF EveryPathPlanned, PathsOf, Wanted
  <2> QED
    BY <1>2, <2>1
<1>4. CASE UNCHANGED parts
  <2>1. EveryPathPlanned'
    BY <1>3, <1>4, PlannedMeans DEF PathsInv
  <2> QED
    BY <1>2, <1>4, <2>1 DEF PathsInv, StartsFitCalendar, PartsFit
<1>5. CASE BuildParts
  <2>1. stage' = "idle" /\ machine' = machine /\ machine.end = Delivery /\ machine.assembly \in Int
    BY <1>5 DEF BuildParts, OrderInv
  <2>2. CASE AssemblyRows = {}
    <3>1. \A pick \in Picks : DOMAIN pick = {}
      BY <2>2, PicksAre
    <3>2. parts' = parts
      BY <1>5, <2>2, <3>1, Zenon DEF BuildParts
    <3> QED
      BY <1>4, <3>2
  <2>3. CASE AssemblyRows # {}
    <3> DEFINE calendar == Calendar(machine.end - PartReach, machine.end + EndSlack)
    <3>1. PICK pick \in Picks :
            /\ DOMAIN pick # {}
            /\ times' = Reconcile(Ensure(times, DOMAIN pick))
            /\ parts' = UNION {PartRows(n, times'[n], pick[n],
                                 GroupEnds(times', DOMAIN pick, calendar)[times'[n].seq], calendar) :
                                 n \in DOMAIN pick}
      BY <1>1, <1>5, <2>1, <2>3, BuiltParts
    <3> DEFINE names == DOMAIN pick
               ends == GroupEnds(times', names, calendar)
               rows(n) == PartRows(n, times'[n], pick[n], ends[times'[n].seq], calendar)
    <3>2. names \subseteq DOMAIN times' /\ names # {}
      <4>1. names \subseteq Names
        BY <1>1, PicksAre, AssembliesHaveNames
      <4>2. IsTable(Ensure(times, names)) /\ names \subseteq DOMAIN Ensure(times, names)
        BY <1>1, <4>1, EnsureIs
      <4> QED
        BY <3>1, <4>2, ReconcileIs
    <3>3. \A n \in names : ends[times'[n].seq] \in Int /\ ends[times'[n].seq] <= Delivery
      <4> HIDE DEF names
      <4> QED
        BY <1>1, <2>1, <3>2, GroupsInOrder
    <3>4. names = {NameOf[r] : r \in AssemblyRows}
          /\ \A n \in names : /\ pick[n] \in AssemblyRows /\ pick[n] \in world.bom
                              /\ NameOf[pick[n]] = n
      BY PicksAre DEF AssemblyRows
    <3>5. calendar = Calendar(Delivery - PartReach, Delivery + EndSlack)
      BY <2>1
    <3>6. parts' = UNION {rows(n) : n \in names}
      BY <3>1, Zenon
    <3> HIDE DEF names, ends, calendar
    <3>7. ASSUME NEW n \in names
          PROVE  (\A p \in rows(n) : p.name = n) /\ {p.path : p \in rows(n)} = Wanted(pick[n])
      BY <1>1, <3>4, RowsHavePaths
    <3>8. ASSUME NEW n \in names, NEW p \in rows(n), p.path # <<>>, p.start >= Delivery - PartReach
          PROVE  FactoryDays(p.start, p.end) >= p.cycle
      BY <1>1, <3>3, <3>4, <3>5, <3>8, RowsFit
    <3> HIDE DEF rows
    <3>9. ASSUME NEW n \in names PROVE PathsOf(parts', n) = Wanted(pick[n])
      <4>1. {q \in parts' : q.name = n} = rows(n)
        <5>1. ASSUME NEW q \in parts', q.name = n PROVE q \in rows(n)
          <6>1. PICK m \in names : q \in rows(m)
            BY <3>6
          <6>2. q.name = m
            BY <3>7, <6>1
          <6> QED
            BY <5>1, <6>1, <6>2
        <5>2. ASSUME NEW q \in rows(n) PROVE q \in parts' /\ q.name = n
          BY <3>6, <3>7
        <5> QED
          BY <5>1, <5>2
      <4> QED
        BY <3>7, <4>1, Zenon DEF PathsOf
    <3>10. EveryPathPlanned'
      BY <1>3, <3>4, <3>9
    <3>11. ASSUME StartsFitCalendar' PROVE PartsFit'
      <4>1. ASSUME NEW p \in parts', p.path # <<>> PROVE FactoryDays(p.start, p.end) >= p.cycle
        <5>1. PICK n \in names : p \in rows(n)
          BY <3>6
        <5>2. p.start >= Delivery - PartReach
          BY <3>11, <4>1 DEF StartsFitCalendar
        <5> QED
          BY <3>8, <4>1, <5>1, <5>2
      <4> QED
        BY <1>2, <4>1 DEF PartsFit
    <3> QED
      BY <3>10, <3>11 DEF PathsInv
  <2> QED
    BY <2>2, <2>3
<1> QED
  BY <1>4, <1>5 DEF Next, vars, CheckOrder, BuildMachine, SaveTime, DeleteTime, Edit

LEMMA PathsHold == Spec => []PathsInv
BY TimesHold, OrderHolds, PathsInit, PathsStep, PTL DEF Spec

\* The walk of the BOM (key_part_identify_service) and the part plan: every occurrence of every
\* self-made part below every assembly is planned, for any BOM, loops, several parents and
\* repeated assemblies among them.
THEOREM PathsArePlanned == Spec => []EveryPathPlanned
<1>1. PathsInv => EveryPathPlanned
  BY DEF PathsInv
<1> QED
  BY <1>1, PathsHold, PTL

\* The key part (part_schedule_service): as long as its starts lie in the year of calendar
\* it loaded, the part plan gives every part of every assembly, not only the key part, at
\* least its cycle in days the factory works.
THEOREM PartsHaveTime == Spec => [](StartsFitCalendar => PartsFit)
<1>1. PathsInv => (StartsFitCalendar => PartsFit)
  BY DEF PathsInv
<1> QED
  BY <1>1, PathsHold, PTL
=============================================================================
