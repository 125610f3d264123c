-------------------------- MODULE PriceResultProofs --------------------------
(***************************************************************************)
(* GetPrice for every book and all quotes: from what fetchAll is proved to     *)
(* collect. What a sum over a set of trades is follows from the fold's        *)
(* recursion, by a least counterexample.                                     *)
(***************************************************************************)
EXTENDS PriceResult, PriceFetchProofs

Fetched == TypeOK /\ CountedOnce /\ Complete

\* One trade for each key of the window.
OnceEach(trades) ==
    /\ trades \subseteq TheWindow
    /\ \A t \in TheWindow : \E u \in trades : Key(u) = Key(t)
    /\ \A t, u \in trades : Key(t) = Key(u) => t = u

\* What a successful fetch has collected is the window, each trade once.
LEMMA AllIsTheWindow ==
    ASSUME Fetched, result = "ok"
    PROVE  all \in SUBSET TheWindow /\ OnceEach(all)
BY DEF Fetched, TypeOK, CountedOnce, Complete, TheWindow, OnceEach

LEMMA PriceIsAfterSuccess ==
    ASSUME Fetched, Returned = "price"
    PROVE  result = "ok"
BY DEF Fetched, TypeOK, Returned

LEMMA FetchedAlways ==
    ASSUME TiesAssumption
    PROVE  Spec => []Fetched
<1>1. Spec => []TypeOK /\ []CountedOnce /\ []Complete
  BY FetchTypeCorrect, FetchCountsOnce, FetchComplete
<1>2. TypeOK /\ CountedOnce /\ Complete => Fetched
  BY DEF Fetched
<1> QED
  BY <1>1, <1>2, PTL

\* ErrNoTrades is returned only for a window without trades (main.go:72-77).
THEOREM NoTradesIsTrue ==
    ASSUME TiesAssumption
    PROVE  Spec => []QuietWindowIsEmpty
<1>1. Fetched => QuietWindowIsEmpty
  BY DEF Fetched, TypeOK, Complete, QuietWindowIsEmpty, Returned, TheWindow
<1> QED
  BY <1>1, FetchedAlways, PTL

------------------------------------------------------------------------------
(* The calendar *)

LEMMA TimesIsMonotone ==
    ASSUME NEW a \in Int, NEW b \in Int, NEW h \in Nat, a <= b
    PROVE  a * h <= b * h
OBVIOUS

\* A midnight is an hour from its place in a calendar without summer time.
LEMMA MidnightType ==
    ASSUME NEW d \in Days
    PROVE  /\ d \in Nat /\ midnight(d) \in Int /\ d * DayHours \in Int
           /\ d * DayHours + EDT <= midnight(d)
           /\ midnight(d) <= d * DayHours + EDT + 1
<1>1. d \in Nat /\ DayHours \in Nat /\ EDT \in Nat
  BY CalendarAssumption
<1>2. Offset[d] = EDT \/ Offset[d] = EDT + 1
  BY CalendarAssumption
<1>3. d * DayHours \in Int
  BY <1>1
<1> QED
  BY <1>1, <1>2, <1>3 DEF midnight

\* A day of the window's length ago, in the same calendar.
LEMMA DaysBefore ==
    ASSUME NEW d \in Days
    PROVE  /\ (d - WindowDays) * DayHours = d * DayHours - WindowDays * DayHours
           /\ WindowDays * DayHours \in Int
BY CalendarAssumption

\* The days of the calendar do not overlap, and window() ends with today's
\* midnight.
LEMMA WindowEndsToday ==
    ASSUME NEW now \in Int, NEW today \in Days, OnDay(now, today)
    PROVE  window(now) = [start |-> midnight(today) - WindowDays * DayHours,
                          end |-> midnight(today)]
<1> DEFINE d == CHOOSE d \in Days : OnDay(now, d)
<1>1. d \in Days /\ OnDay(now, d)
  OBVIOUS
<1>2. d \in Int /\ today \in Int /\ midnight(d) \in Int /\ midnight(today) \in Int
  BY <1>1, MidnightType
<1>3. d = today
  BY <1>1, <1>2 DEF OnDay
<1> QED
  BY <1>3 DEF window

\* A day after d begins after whatever happens on d - WindowDays + 1 and later.
LEMMA WindowReachesBack ==
    ASSUME NEW d \in Days, NEW e \in Days, e < d + WindowDays
    PROVE  midnight(e) - WindowDays * DayHours <= midnight(d)
<1>1. e - WindowDays \in Int /\ d \in Int /\ d - 1 \in Int /\ DayHours \in Nat
      /\ e - WindowDays <= d - 1
  BY CalendarAssumption, MidnightType
<1>2. (e - WindowDays) * DayHours <= (d - 1) * DayHours
  BY <1>1, TimesIsMonotone
<1>3. (d - 1) * DayHours = d * DayHours - DayHours
  BY <1>1
<1> QED
  BY <1>2, <1>3, MidnightType, DaysBefore, CalendarAssumption

\* The window starts at a midnight, or an hour off where the clocks were moved.
LEMMA WindowStartsAtMidnight ==
    ASSUME NEW far \in Days, NEW today \in Days, far + WindowDays = today,
           NEW moved, moved = IF Offset[far] = Offset[today] THEN 0 ELSE 1
    PROVE  /\ midnight(far) - moved <= midnight(today) - WindowDays * DayHours
           /\ midnight(today) - WindowDays * DayHours <= midnight(far) + moved
<1>1. (today - WindowDays) * DayHours = today * DayHours - WindowDays * DayHours
  BY DaysBefore
<1>2. today - WindowDays = far
  BY MidnightType, CalendarAssumption
<1>3. midnight(today) - WindowDays * DayHours = far * DayHours + Offset[today]
  BY <1>1, <1>2, MidnightType, DaysBefore, CalendarAssumption DEF midnight
<1>4. far * DayHours \in Int /\ EDT \in Int
      /\ Offset[far] \in {EDT, EDT + 1} /\ Offset[today] \in {EDT, EDT + 1}
  BY MidnightType, CalendarAssumption
<1> QED
  BY <1>3, <1>4 DEF midnight

\* A trade is averaged by the runs of WindowDays - 1 to WindowDays + 1 days, six
\* to eight: by those of the days after its own, never by those of its own day
\* or before, nor once the window has moved on (price.go:156-168).
THEOREM AveragedDayAfterDay ==
    ASSUME NEW t \in Int, NEW d \in Days, OnDay(t, d), NEW e \in Days
    PROVE  LET averaged == midnight(e) - WindowDays * DayHours <= t /\ t < midnight(e)
           IN  /\ d < e /\ e < d + WindowDays => averaged
               /\ e <= d => ~averaged
               /\ d + 1 \in Days /\ e > d + WindowDays + 1 => ~averaged
<1> DEFINE start == midnight(e) - WindowDays * DayHours
<1>1. /\ d \in Nat /\ e \in Nat /\ midnight(d) \in Int /\ midnight(e) \in Int
      /\ start \in Int /\ WindowDays \in Nat
  BY MidnightType, DaysBefore, CalendarAssumption
<1>2. ASSUME d < e, e < d + WindowDays
      PROVE  start <= t /\ t < midnight(e)
  BY <1>1, <1>2, WindowReachesBack DEF OnDay
<1>3. ASSUME e <= d
      PROVE  ~(t < midnight(e))
  <2>1. CASE e = d
    BY <2>1, <1>1 DEF OnDay
  <2>2. CASE e < d
    <3>1. midnight(e) < midnight(d) + 1
      <4>1. e * DayHours <= (d - 1) * DayHours
        BY <1>1, <2>2, TimesIsMonotone, CalendarAssumption
      <4>2. (d - 1) * DayHours = d * DayHours - DayHours
        BY <1>1, CalendarAssumption
      <4> QED
        BY <4>1, <4>2, <1>1, MidnightType, CalendarAssumption
    <3> QED
      BY <3>1, <1>1 DEF OnDay
  <2> QED
    BY <2>1, <2>2, <1>1, <1>3
<1>4. ASSUME d + 1 \in Days, e > d + WindowDays + 1
      PROVE  ~(start <= t)
  <2>1. t < midnight(d + 1)
    BY <1>1, <1>4 DEF OnDay
  <2>2. (d + 2) * DayHours <= (e - WindowDays) * DayHours
    BY <1>1, <1>4, TimesIsMonotone, CalendarAssumption
  <2>3. (d + 2) * DayHours = (d + 1) * DayHours + DayHours
    BY <1>1, CalendarAssumption
  <2>4. midnight(d + 1) <= start
    BY <2>2, <2>3, <1>1, <1>4, MidnightType, DaysBefore, CalendarAssumption
  <2> QED
    BY <2>1, <2>4, <1>1, <1>4, MidnightType
<1> QED
  BY <1>2, <1>3, <1>4

\* What is averaged are the WindowDays days before today, the far one included and
\* one alone too, up to the hour by which the clocks were moved since
\* (price.go:156-168).
THEOREM WholeDaysAreAveraged ==
    ASSUME TiesAssumption
    PROVE  Spec => []AveragesWholeDays
<1>1. Fetched => AveragesWholeDays
  <2> SUFFICES ASSUME Fetched, Returned = "price", NEW far \in Days, NEW today \in Days,
                      OnDay(Now, today), far + WindowDays = today,
                      NEW moved, moved = IF Offset[far] = Offset[today] THEN 0 ELSE 1
               PROVE  /\ \A t \in Trades :
                            midnight(far) + moved <= created[t] /\ created[t] < midnight(today)
                            => \E u \in all : Key(u) = Key(t)
                      /\ \A t \in all :
                            midnight(far) - moved <= created[t] /\ created[t] < midnight(today)
    BY DEF AveragesWholeDays
  <2>1. /\ WindowStart = midnight(today) - WindowDays * DayHours
        /\ WindowEnd = midnight(today)
    BY WindowEndsToday, WindowAssumption
  <2>2. midnight(far) - moved <= WindowStart /\ WindowStart <= midnight(far) + moved
    BY <2>1, WindowStartsAtMidnight
  <2>3. /\ midnight(far) \in Int /\ midnight(today) \in Int /\ moved \in Int
        /\ WindowStart \in Nat /\ WindowEnd \in Nat
    BY MidnightType, FetchAssumption
  <2>4. /\ created \in [Trades -> Nat] /\ all \subseteq TheWindow
        /\ OnceEach(all)
    BY AllIsTheWindow, PriceIsAfterSuccess, BookType DEF Fetched
  <2>5. ASSUME NEW t \in Trades, midnight(far) + moved <= created[t],
               created[t] < midnight(today)
        PROVE  \E u \in all : Key(u) = Key(t)
    <3>1. created[t] \in Nat
      BY <2>4
    <3>2. InWindow(t)
      BY <2>1, <2>2, <2>3, <2>5, <3>1 DEF InWindow
    <3> QED
      BY <2>4, <3>2 DEF OnceEach, TheWindow
  <2>6. ASSUME NEW t \in all
        PROVE  midnight(far) - moved <= created[t] /\ created[t] < midnight(today)
    <3>1. t \in Trades /\ InWindow(t) /\ created[t] \in Nat
      BY <2>4 DEF TheWindow
    <3> QED
      BY <2>1, <2>2, <2>3, <3>1 DEF InWindow
  <2> QED
    BY <2>5, <2>6
<1> QED
  BY <1>1, FetchedAlways, PTL

------------------------------------------------------------------------------
(* Sums *)

Pick(s) == CHOOSE x \in s : TRUE

\* A sum of f, an element at a time.
Step(f, g, s) == IF s = {} THEN 0 ELSE f[Pick(s)] + g[s \ {Pick(s)}]

LEMMA PickedIn ==
    ASSUME NEW S, IsFiniteSet(S), NEW s \in SUBSET S, s # {}
    PROVE  /\ Pick(s) \in s
           /\ Cardinality(s) \in Nat \ {0}
           /\ s \ {Pick(s)} \in SUBSET S
           /\ Cardinality(s \ {Pick(s)}) = Cardinality(s) - 1
<1>1. Pick(s) \in s
  BY DEF Pick
<1>2. IsFiniteSet(s) /\ Cardinality(s) \in Nat
  BY FS_Subset, FS_CardinalityType
<1>3. Cardinality(s) # 0
  BY <1>2, FS_EmptySet
<1> QED
  BY <1>1, <1>2, <1>3, FS_RemoveElement

\* The recursion of a sum over the subsets of a finite set has a solution.
LEMMA SumExists ==
    ASSUME NEW f, NEW S, IsFiniteSet(S)
    PROVE  \E g : g = [s \in SUBSET S |-> Step(f, g, s)]
<1> DEFINE
      Upto(n, g) == \A s \in SUBSET S : Cardinality(s) <= n => g[s] = Step(f, g, s)
      Solved(n) == \E g : g = [s \in SUBSET S |-> g[s]] /\ Upto(n, g)
      Unsolved == {n \in Nat : ~Solved(n)}
<1>0. \A s \in SUBSET S : Cardinality(s) \in Nat
  BY FS_Subset, FS_CardinalityType
<1>1. ASSUME NEW n \in Unsolved, \A k \in Unsolved : n <= k
      PROVE  FALSE
  <2>0. n \in Nat /\ (n # 0 => n - 1 \in Nat /\ Solved(n - 1))
    <3> HIDE DEF Solved
    <3> QED
      BY <1>1
  <2>1. CASE n = 0
    <3> DEFINE g == [s \in SUBSET S |-> 0]
    <3>1. \A s \in SUBSET S : Cardinality(s) <= 0 => s = {}
      BY <1>0, FS_Subset, FS_EmptySet
    <3>2. Upto(0, g)
      BY <3>1 DEF Step
    <3>3. Solved(0)
      BY <3>2
    <3> QED
      BY <2>1, <3>3
  <2>2. CASE n # 0
    <3>1. n - 1 \in Nat /\ Solved(n - 1)
      BY <2>0, <2>2
    <3>2. PICK h : h = [s \in SUBSET S |-> h[s]] /\ Upto(n - 1, h)
      BY <3>1
    <3> DEFINE g == [s \in SUBSET S |-> IF Cardinality(s) <= n - 1 THEN h[s] ELSE Step(f, h, s)]
    <3>3. ASSUME NEW s \in SUBSET S, Cardinality(s) <= n
          PROVE  g[s] = Step(f, g, s)
      <4>1. CASE s = {}
        <5>1. Cardinality(s) <= n - 1
          BY <3>1, <4>1, FS_EmptySet
        <5> QED
          BY <3>2, <4>1, <5>1 DEF Step
      <4>2. CASE s # {}
        <5>1. /\ s \ {Pick(s)} \in SUBSET S
              /\ Cardinality(s \ {Pick(s)}) <= n - 1
          BY <1>0, <3>1, <3>3, <4>2, PickedIn
        <5>2. g[s \ {Pick(s)}] = h[s \ {Pick(s)}]
          BY <5>1
        <5>3. Step(f, g, s) = Step(f, h, s)
          BY <5>2 DEF Step
        <5>4. g[s] = Step(f, h, s)
          BY <3>2
        <5> QED
          BY <5>3, <5>4
      <4> QED
        BY <4>1, <4>2
    <3>4. Upto(n, g)
      BY <3>3
    <3>5. g = [s \in SUBSET S |-> g[s]]
      OBVIOUS
    <3>6. Solved(n)
      BY <3>4, <3>5
    <3> QED
      BY <3>6
  <2> QED
    BY <2>1, <2>2
<1>2. Unsolved = {}
  <2> HIDE DEF Solved
  <2>1. Unsolved \in SUBSET Nat
    OBVIOUS
  <2> HIDE DEF Unsolved
  <2> QED
    BY <1>1, <2>1, LeastNumber
<1>3. Cardinality(S) \in Nat
  BY FS_CardinalityType
<1>4. Solved(Cardinality(S))
  BY <1>2, <1>3
<1>5. PICK g : g = [s \in SUBSET S |-> g[s]] /\ Upto(Cardinality(S), g)
  BY <1>4
<1>6. \A s \in SUBSET S : g[s] = Step(f, g, s)
  BY <1>5, FS_Subset
<1>7. g = [s \in SUBSET S |-> Step(f, g, s)]
  BY <1>5, <1>6
<1> QED
  BY <1>7

\* The volume and the amounts paid, over the sets of trades within S.
Volumes(S) ==
    CHOOSE g : g = [s \in SUBSET S |->
        IF s = {} THEN 0 ELSE Quantity[Pick(s)] + g[s \ {Pick(s)}]]
Amounts(S) ==
    CHOOSE g : g = [s \in SUBSET S |->
        IF s = {} THEN 0 ELSE PriceOf[Pick(s)] * Quantity[Pick(s)] + g[s \ {Pick(s)}]]

LEMMA TotalsAreSums ==
    ASSUME NEW trades
    PROVE  LET S == Counted(trades)
           IN  VWAP(trades).num = Amounts(S)[S] /\ totalVolume(trades) = Volumes(S)[S]
BY DEF VWAP, totalVolume, MapThenSumSet, MapThenFoldSet, Volumes, Amounts, Pick

LEMMA VolumesDefined ==
    ASSUME NEW S, IsFiniteSet(S)
    PROVE  Volumes(S) = [s \in SUBSET S |->
             IF s = {} THEN 0 ELSE Quantity[Pick(s)] + Volumes(S)[s \ {Pick(s)}]]
<1>1. PICK g : g = [s \in SUBSET S |-> Step(Quantity, g, s)]
  BY SumExists
<1>2. g = [s \in SUBSET S |->
        IF s = {} THEN 0 ELSE Quantity[Pick(s)] + g[s \ {Pick(s)}]]
  BY <1>1 DEF Step
<1> QED
  BY <1>2 DEF Volumes

LEMMA AmountsDefined ==
    ASSUME NEW S, IsFiniteSet(S)
    PROVE  Amounts(S) = [s \in SUBSET S |->
             IF s = {} THEN 0 ELSE PriceOf[Pick(s)] * Quantity[Pick(s)] + Amounts(S)[s \ {Pick(s)}]]
<1> DEFINE f == [t \in S |-> PriceOf[t] * Quantity[t]]
<1>1. PICK g : g = [s \in SUBSET S |-> Step(f, g, s)]
  BY SumExists
<1>2. \A s \in SUBSET S : Step(f, g, s) =
        IF s = {} THEN 0 ELSE PriceOf[Pick(s)] * Quantity[Pick(s)] + g[s \ {Pick(s)}]
  BY DEF Step, Pick
<1> HIDE DEF f
<1>3. g = [s \in SUBSET S |->
        IF s = {} THEN 0 ELSE PriceOf[Pick(s)] * Quantity[Pick(s)] + g[s \ {Pick(s)}]]
  BY <1>1, <1>2
<1> QED
  BY <1>3 DEF Amounts

LEMMA VolumesStep ==
    ASSUME NEW S, IsFiniteSet(S), NEW s \in SUBSET S, s # {}
    PROVE  /\ Volumes(S)[{}] = 0
           /\ Volumes(S)[s] = Quantity[Pick(s)] + Volumes(S)[s \ {Pick(s)}]
BY VolumesDefined

LEMMA AmountsStep ==
    ASSUME NEW S, IsFiniteSet(S), NEW s \in SUBSET S, s # {}
    PROVE  /\ Amounts(S)[{}] = 0
           /\ Amounts(S)[s] =
                PriceOf[Pick(s)] * Quantity[Pick(s)] + Amounts(S)[s \ {Pick(s)}]
BY AmountsDefined

\* One trade more, and the lower of two prices is still no more than the average.
LEMMA LowerIsBelow ==
    ASSUME NEW p \in Int, NEW q \in Nat \ {0}, NEW r \in Int, NEW v \in Nat, NEW a \in Int,
           r * v <= a
    PROVE  \/ p * (q + v) <= p * q + a
           \/ r * (q + v) <= p * q + a
<1>1. p * (q + v) = p * q + p * v /\ r * (q + v) = r * q + r * v
  OBVIOUS
<1>2. /\ p * v \in Int /\ p * q \in Int /\ r * q \in Int /\ r * v \in Int
  OBVIOUS
<1>3. CASE p <= r
  <2>1. p * v <= r * v
    <3>1. (r - p) * v >= 0
      <4>1. \A x, y \in Nat : x * y >= 0
        OBVIOUS
      <4> QED
        BY <1>3, <4>1
    <3>2. (r - p) * v = r * v - p * v
      OBVIOUS
    <3> QED
      BY <1>2, <3>1, <3>2
  <2> QED
    BY <1>1, <1>2, <2>1
<1>4. CASE r <= p
  <2>1. r * q <= p * q
    <3>1. (p - r) * q >= 0
      <4>1. \A x, y \in Nat : x * y >= 0
        OBVIOUS
      <4> QED
        BY <1>4, <4>1
    <3>2. (p - r) * q = p * q - r * q
      OBVIOUS
    <3> QED
      BY <1>2, <3>1, <3>2
  <2> QED
    BY <1>1, <1>2, <2>1
<1> QED
  BY <1>3, <1>4

LEMMA HigherIsAbove ==
    ASSUME NEW p \in Int, NEW q \in Nat \ {0}, NEW r \in Int, NEW v \in Nat, NEW a \in Int,
           a <= r * v
    PROVE  \/ p * q + a <= p * (q + v)
           \/ p * q + a <= r * (q + v)
<1>1. \A x, y \in Int : (0 - x) * y = 0 - x * y
  OBVIOUS
<1>2. /\ p * q \in Int /\ r * v \in Int /\ p * (q + v) \in Int /\ r * (q + v) \in Int
  OBVIOUS
<1>3. (0 - r) * v <= 0 - a
  BY <1>1, <1>2
<1>4. \/ (0 - p) * (q + v) <= (0 - p) * q + (0 - a)
      \/ (0 - r) * (q + v) <= (0 - p) * q + (0 - a)
  BY <1>3, LowerIsBelow
<1> QED
  BY <1>1, <1>2, <1>4

\* The average of trades of positive quantity lies among their prices.
LEMMA AverageLies ==
    ASSUME NEW S, IsFiniteSet(S), S # {},
           \A t \in S : PriceOf[t] \in Int /\ Quantity[t] \in Nat \ {0}
    PROVE  /\ Volumes(S)[S] \in Nat \ {0}
           /\ \E t, u \in S : /\ PriceOf[t] * Volumes(S)[S] <= Amounts(S)[S]
                            /\ Amounts(S)[S] <= PriceOf[u] * Volumes(S)[S]
<1> DEFINE
      V == Volumes(S)
      A == Amounts(S)
      Lies(s) ==
          /\ V[s] \in Nat \ {0} /\ A[s] \in Int
          /\ \E t \in s : PriceOf[t] * V[s] <= A[s]
          /\ \E u \in s : A[s] <= PriceOf[u] * V[s]
      Off == {s \in SUBSET S : s # {} /\ ~Lies(s)}
<1>0. \A s \in SUBSET S : Cardinality(s) \in Nat
  BY FS_Subset, FS_CardinalityType
<1>1. ASSUME NEW s \in SUBSET S, s # {},
             \A r \in SUBSET S : r # {} /\ Cardinality(r) < Cardinality(s) => Lies(r)
      PROVE  Lies(s)
  <2> DEFINE x == Pick(s)
             r == s \ {x}
             p == PriceOf[x]
             q == Quantity[x]
  <2>1. /\ x \in s /\ r \in SUBSET S /\ p \in Int /\ q \in Nat \ {0}
        /\ Cardinality(r) < Cardinality(s)
    BY <1>0, <1>1, PickedIn
  <2>2. V[s] = q + V[r] /\ A[s] = p * q + A[r] /\ V[{}] = 0 /\ A[{}] = 0
    BY <1>1, VolumesStep, AmountsStep
  <2> HIDE DEF V, A, x, p, q
  <2>3. CASE r = {}
    <3>1. V[s] = q + 0 /\ A[s] = p * q + 0 /\ p * q \in Int
      <4>1. V[r] = 0 /\ A[r] = 0
        BY <2>2, <2>3
      <4> HIDE DEF r
      <4> QED
        BY <2>1, <2>2, <4>1
    <3>2. V[s] = q /\ A[s] = p * q /\ p * V[s] = A[s]
      BY <2>1, <3>1
    <3> QED
      BY <2>1, <3>1, <3>2 DEF p
  <2>4. CASE r # {}
    <3>1. Lies(r)
      BY <1>1, <2>1, <2>4
    <3>2. PICK t \in r : PriceOf[t] * V[r] <= A[r]
      BY <3>1
    <3>3. PICK u \in r : A[r] <= PriceOf[u] * V[r]
      BY <3>1
    <3>4. /\ V[r] \in Nat \ {0} /\ A[r] \in Int
          /\ t \in s /\ u \in s /\ PriceOf[t] \in Int /\ PriceOf[u] \in Int
      BY <2>1, <3>1
    <3> HIDE DEF r, Lies
    <3>5. p * V[s] <= A[s] \/ PriceOf[t] * V[s] <= A[s]
      BY <2>1, <2>2, <3>2, <3>4, LowerIsBelow
    <3>6. A[s] <= p * V[s] \/ A[s] <= PriceOf[u] * V[s]
      BY <2>1, <2>2, <3>3, <3>4, HigherIsAbove
    <3>7. V[s] \in Nat \ {0} /\ A[s] \in Int
      BY <2>1, <2>2, <3>4
    <3> QED
      BY <2>1, <3>4, <3>5, <3>6, <3>7 DEF Lies, p
  <2> QED
    BY <2>3, <2>4
<1> HIDE DEF Lies
<1>2. Off = {}
  <2> SUFFICES ASSUME Off # {}
               PROVE  FALSE
    OBVIOUS
  <2>1. PICK s \in Off : \A r \in Off : ~(Cardinality(r) < Cardinality(s))
    BY LeastSubset
  <2>2. \A r \in SUBSET S : r # {} /\ Cardinality(r) < Cardinality(s) => Lies(r)
    BY <2>1
  <2> QED
    BY <1>1, <2>2
<1>3. Lies(S)
  BY <1>2
<1> QED
  BY <1>3 DEF Lies

\* Whatever the trades of the window, those of a quantity below zero included,
\* the price returned lies between two prices paid (price.go:294-325).
THEOREM PriceIsAnAverage == Spec => []AveragesPrices
<1>1. TypeOK => AveragesPrices
  <2> SUFFICES ASSUME TypeOK, Returned = "price"
               PROVE  /\ Result.volume > 0
                      /\ \E t, u \in all :
                            /\ Quantity[t] > 0 /\ Quantity[u] > 0
                            /\ PriceOf[t] * Result.price.den <= Result.price.num
                            /\ Result.price.num <= PriceOf[u] * Result.price.den
    BY DEF AveragesPrices
  <2> DEFINE S == Counted(all)
  <2>1. S # {} /\ \A t \in all : Parses(t)
    BY DEF TypeOK, Returned
  <2>2. all \subseteq Trades /\ IsFiniteSet(Trades)
    BY FetchAssumption DEF TypeOK
  <2>3. IsFiniteSet(S) /\ S \subseteq all
    BY <2>2, FS_Subset DEF Counted
  <2>4. \A t \in S : PriceOf[t] \in Int /\ Quantity[t] \in Nat \ {0}
    BY <2>1, <2>2, <2>3, QuoteAssumption DEF Parses, Counted
  <2>5. /\ Result.volume = Volumes(S)[S] /\ Result.price.den = Volumes(S)[S]
        /\ Result.price.num = Amounts(S)[S]
    BY TotalsAreSums DEF Result, VWAP
  <2>6. \A t \in S : Quantity[t] > 0
    BY DEF Counted
  <2> HIDE DEF S
  <2> QED
    BY <2>1, <2>3, <2>4, <2>5, <2>6, AverageLies
<1> QED
  BY <1>1, FetchTypeCorrect, PTL

------------------------------------------------------------------------------
(* The loops *)

\* g sums f up over the subsets of S, taken in any order.
Adds(S, f, g) ==
    /\ g[{}] = 0
    /\ \A s \in SUBSET S : g[s] \in Int /\ \A x \in s : g[s] = f[x] + g[s \ {x}]

\* A sum over a set may be taken in any order.
LEMMA SumInAnyOrder ==
    ASSUME NEW S, IsFiniteSet(S), NEW f \in [S -> Int],
           NEW g, g = [s \in SUBSET S |-> Step(f, g, s)]
    PROVE  Adds(S, f, g)
<1> DEFINE
      Free(s) == g[s] \in Int /\ \A x \in s : g[s] = f[x] + g[s \ {x}]
      Off == {s \in SUBSET S : ~Free(s)}
<1>0. /\ g[{}] = 0
      /\ \A s \in SUBSET S : s # {} => g[s] = f[Pick(s)] + g[s \ {Pick(s)}]
  BY DEF Step
<1>1. ASSUME NEW s \in SUBSET S,
             \A r \in SUBSET S : Cardinality(r) < Cardinality(s) => Free(r)
      PROVE  Free(s)
  <2>1. CASE s = {}
    BY <1>0, <2>1
  <2>2. CASE s # {}
    <3> DEFINE c == Pick(s)
    <3>1. c \in s /\ f[c] \in Int
      BY <2>2, PickedIn
    <3>2. ASSUME NEW x \in s
          PROVE  Free(s \ {x})
      <4>1. IsFiniteSet(s) /\ Cardinality(s) \in Nat
        BY FS_Subset, FS_CardinalityType
      <4>2. Cardinality(s \ {x}) = Cardinality(s) - 1
        BY <4>1, FS_RemoveElement
      <4>3. Cardinality(s \ {x}) < Cardinality(s)
        BY <4>1, <4>2
      <4> QED
        BY <1>1, <4>3
    <3>3. g[s] = f[c] + g[s \ {c}] /\ g[s \ {c}] \in Int
      BY <1>0, <2>2, <3>1, <3>2
    <3>4. ASSUME NEW x \in s, x # c
          PROVE  g[s] = f[x] + g[s \ {x}]
      <4>1. (s \ {c}) \ {x} = (s \ {x}) \ {c}
        OBVIOUS
      <4> DEFINE rest == (s \ {c}) \ {x}
      <4>2. g[s \ {c}] = f[x] + g[rest]
        BY <3>1, <3>2, <3>4
      <4>3. g[s \ {x}] = f[c] + g[rest]
        BY <3>1, <3>2, <3>4, <4>1
      <4>4. Free(s \ {x}) /\ c \in s \ {x} /\ rest \in SUBSET S /\ f[x] \in Int
        BY <3>1, <3>2, <3>4
      <4>5. g[rest] \in Int
        <5>1. IsFiniteSet(s) /\ Cardinality(s) \in Nat
          BY FS_Subset, FS_CardinalityType
        <5>2. /\ IsFiniteSet(s \ {c}) /\ Cardinality(s \ {c}) = Cardinality(s) - 1
              /\ Cardinality(rest) = Cardinality(s \ {c}) - 1
          BY <3>1, <3>4, <5>1, FS_RemoveElement
        <5>3. Cardinality(rest) < Cardinality(s)
          BY <5>1, <5>2
        <5> QED
          BY <1>1, <4>4, <5>3
      <4> HIDE DEF rest
      <4> QED
        BY <3>1, <3>3, <4>2, <4>3, <4>4, <4>5
    <3> HIDE DEF c
    <3>5. g[s] \in Int
      BY <3>1, <3>3
    <3>6. \A x \in s : g[s] = f[x] + g[s \ {x}]
      BY <3>3, <3>4
    <3> QED
      BY <3>5, <3>6
  <2> QED
    BY <2>1, <2>2
<1> HIDE DEF Free
<1>2. Off = {}
  <2> SUFFICES ASSUME Off # {}
               PROVE  FALSE
    OBVIOUS
  <2>1. PICK s \in Off : \A r \in Off : ~(Cardinality(r) < Cardinality(s))
    BY LeastSubset
  <2>2. \A r \in SUBSET S : Cardinality(r) < Cardinality(s) => Free(r)
    BY <2>1
  <2> QED
    BY <1>1, <2>2
<1> QED
  BY <1>0, <1>2 DEF Free, Adds

LEMMA VolumesAdd ==
    ASSUME NEW S, IsFiniteSet(S), NEW q \in [S -> Int], \A t \in S : q[t] = Quantity[t]
    PROVE  Adds(S, q, Volumes(S))
<1>1. PICK g : g = Volumes(S)
  OBVIOUS
<1>2. g = [s \in SUBSET S |-> IF s = {} THEN 0 ELSE Quantity[Pick(s)] + g[s \ {Pick(s)}]]
  BY <1>1, VolumesDefined
<1>3. \A s \in SUBSET S : s # {} => q[Pick(s)] = Quantity[Pick(s)]
  BY PickedIn
<1>4. \A s \in SUBSET S : Step(q, g, s) =
        IF s = {} THEN 0 ELSE Quantity[Pick(s)] + g[s \ {Pick(s)}]
  BY <1>3 DEF Step
<1>5. g = [s \in SUBSET S |-> Step(q, g, s)]
  BY <1>2, <1>4
<1>6. Adds(S, q, g)
  BY <1>5, SumInAnyOrder
<1> QED
  BY <1>1, <1>6

LEMMA AmountsAdd ==
    ASSUME NEW S, IsFiniteSet(S), NEW a \in [S -> Int], \A t \in S : a[t] = PriceOf[t] * Quantity[t]
    PROVE  Adds(S, a, Amounts(S))
<1>1. PICK g : g = Amounts(S)
  OBVIOUS
<1>2. g = [s \in SUBSET S |-> IF s = {} THEN 0 ELSE PriceOf[Pick(s)] * Quantity[Pick(s)] + g[s \ {Pick(s)}]]
  BY <1>1, AmountsDefined
<1>3. \A s \in SUBSET S : s # {} => a[Pick(s)] = PriceOf[Pick(s)] * Quantity[Pick(s)]
  BY PickedIn
<1>4. \A s \in SUBSET S : Step(a, g, s) =
        IF s = {} THEN 0 ELSE PriceOf[Pick(s)] * Quantity[Pick(s)] + g[s \ {Pick(s)}]
  BY <1>3 DEF Step
<1>5. g = [s \in SUBSET S |-> Step(a, g, s)]
  BY <1>2, <1>4
<1>6. Adds(S, a, g)
  BY <1>5, SumInAnyOrder
<1> QED
  BY <1>1, <1>6

\* order brings each of the trades, once.
Lists(n, order, trades) ==
    /\ order \in [1..n -> trades]
    /\ \A i, j \in 1..n : order[i] = order[j] => i = j
    /\ \A t \in trades : \E i \in 1..n : order[i] = t

\* sum holds what a loop over order has added up, skipping what is not in S.
Loop(n, order, S, f, sum) ==
    /\ sum[0] = 0
    /\ \A i \in 1..n : sum[i] = IF order[i] \in S THEN sum[i - 1] + f[order[i]] ELSE sum[i - 1]

LEMMA LoopSums ==
    ASSUME NEW trades, NEW S, S \subseteq trades, NEW f \in [S -> Int],
           NEW g, Adds(S, f, g), NEW n \in Nat, NEW order, Lists(n, order, trades),
           NEW sum, Loop(n, order, S, f, sum)
    PROVE  sum[n] = g[S]
<1> DEFINE
      Done(i) == {t \in S : \E j \in 1..i : order[j] = t}
      Off == {i \in 0..n : sum[i] # g[Done(i)]}
<1>1. Done(0) = {} /\ Done(n) = S
  BY DEF Lists
<1>2. ASSUME NEW i \in 1..n, sum[i - 1] = g[Done(i - 1)]
      PROVE  sum[i] = g[Done(i)]
  <2>1. CASE order[i] \in S
    <3>1. Done(i) \in SUBSET S /\ order[i] \in Done(i)
      BY <2>1
    <3>2. Done(i - 1) = Done(i) \ {order[i]}
      BY DEF Lists
    <3>3. f[order[i]] \in Int /\ sum[i] = sum[i - 1] + f[order[i]]
      BY <2>1 DEF Loop
    <3>4. Done(i - 1) \in SUBSET S
      OBVIOUS
    <3> HIDE DEF Done
    <3>5. \A s \in SUBSET S : g[s] \in Int /\ \A x \in s : g[s] = f[x] + g[s \ {x}]
      BY DEF Adds
    <3>6. g[Done(i)] = f[order[i]] + g[Done(i) \ {order[i]}]
      BY <3>1, <3>5
    <3>7. g[Done(i)] = f[order[i]] + g[Done(i - 1)] /\ g[Done(i - 1)] \in Int
      BY <3>2, <3>4, <3>5, <3>6
    <3> QED
      BY <1>2, <3>3, <3>7
  <2>2. CASE order[i] \notin S
    <3>1. Done(i - 1) = Done(i)
      BY <2>2
    <3> QED
      BY <1>2, <2>2, <3>1 DEF Loop
  <2> QED
    BY <2>1, <2>2
<1>3. sum[0] = g[Done(0)]
  BY <1>1 DEF Adds, Loop
<1> HIDE DEF Done
<1>4. Off = {}
  <2> SUFFICES ASSUME Off # {}
               PROVE  FALSE
    OBVIOUS
  <2>1. Off \in SUBSET Nat
    OBVIOUS
  <2>2. PICK i \in Off : \A k \in Off : i <= k
    BY <2>1, LeastNumber
  <2>3. i \in 1..n /\ i - 1 \in 0..n /\ i - 1 \notin Off
    BY <1>3, <2>2
  <2> QED
    BY <1>2, <2>3
<1>5. n \in 0..n
  OBVIOUS
<1> QED
  BY <1>1, <1>4, <1>5

\* The loops of VWAP and totalVolume, over the trades in whatever order the
\* pages brought them and past those of no quantity, add up to the model's sums
\* (price.go:294-341).
THEOREM LoopsAddUp ==
    ASSUME NEW trades \in SUBSET Trades, \A t \in trades : Parses(t),
           NEW n \in Nat, NEW order, Lists(n, order, trades),
           NEW volume, Loop(n, order, Counted(trades), Quantity, volume),
           NEW amount,
           Loop(n, order, Counted(trades), [t \in trades |-> PriceOf[t] * Quantity[t]], amount)
    PROVE  totalVolume(trades) = volume[n] /\ VWAP(trades) = [num |-> amount[n], den |-> volume[n]]
<1> DEFINE
      S == Counted(trades)
      q == [t \in S |-> Quantity[t]]
      paid == [t \in trades |-> PriceOf[t] * Quantity[t]]
      a == [t \in S |-> PriceOf[t] * Quantity[t]]
<1>1. /\ IsFiniteSet(S) /\ S \subseteq trades
      /\ \A t \in S : PriceOf[t] \in Int /\ Quantity[t] \in Int
  BY FetchAssumption, FS_Subset, QuoteAssumption DEF Counted, Parses
<1>2. /\ q \in [S -> Int] /\ a \in [S -> Int]
      /\ \A t \in S : q[t] = Quantity[t] /\ a[t] = PriceOf[t] * Quantity[t] /\ a[t] = paid[t]
  BY <1>1
<1>3. totalVolume(trades) = Volumes(S)[S] /\ VWAP(trades).num = Amounts(S)[S]
      /\ VWAP(trades) = [num |-> VWAP(trades).num, den |-> totalVolume(trades)]
  BY TotalsAreSums DEF VWAP
<1> HIDE DEF S, q, a, paid
<1>4. Loop(n, order, S, Quantity, volume) /\ Loop(n, order, S, paid, amount)
  BY DEF S, paid
<1>5. Loop(n, order, S, q, volume) /\ Loop(n, order, S, a, amount)
  BY <1>2, <1>4 DEF Loop
<1>6. Adds(S, q, Volumes(S))
  BY <1>1, <1>2, VolumesAdd
<1>7. Adds(S, a, Amounts(S))
  BY <1>1, <1>2, AmountsAdd
<1>8. \A f, g, sum : f \in [S -> Int] /\ Adds(S, f, g) /\ Loop(n, order, S, f, sum) => sum[n] = g[S]
  BY <1>1, LoopSums
<1>9. volume[n] = Volumes(S)[S]
  BY <1>2, <1>5, <1>6, <1>8
<1>10. amount[n] = Amounts(S)[S]
  BY <1>2, <1>5, <1>7, <1>8
<1> QED
  BY <1>3, <1>9, <1>10

=============================================================================
