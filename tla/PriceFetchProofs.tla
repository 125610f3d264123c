--------------------------- MODULE PriceFetchProofs ---------------------------
(***************************************************************************)
(* fetchAll for every book, window and page size: what it collects is of the *)
(* window and counted once, it is never stuck and over after a bounded number *)
(* of steps, and if the trades of one moment never fill a page, it collects   *)
(* them all and never asks for the same page twice.                           *)
(***************************************************************************)
EXTENDS PriceFetch, FiniteSetTheorems, WellFoundedInduction, TLAPS

TiesAssumption == \A b \in Books : TiesFit(b)

\* What has been collected lies behind the cursor, and nothing behind the
\* cursor is missing.
CursorInv ==
    /\ WindowStart <= cursor
    /\ \A t \in all : created[t] <= cursor
    /\ \A t \in Trades : InWindow(t) /\ created[t] < cursor => Key(t) \in seen

SeenInv == seen = {Key(t) : t \in all}

\* Where the retry loop and fetchAll are, seen from one another.
StageInv ==
    /\ phase = "backoff" => attempt < Page!Limit
    /\ phase = "returned" /\ result = "none" => ret = "nil" /\ Serves(batch)
    /\ result # "none" => phase = "returned"

IInv ==
    /\ TypeOK
    /\ StageInv
    /\ SeenInv
    /\ CountedOnce
    /\ result = "none" => CursorInv

LEMMA ConfigType ==
    [Attempts |-> MaxRetries + 1, Backoff |-> RetryWait] \in Page!Configs
BY FetchAssumption DEF Page!Configs

LEMMA LimitType == Page!Limit \in Nat \ {0}
BY FetchAssumption DEF Page!Limit

LEMMA BookType == TypeOK => created \in [Trades -> Nat]
BY FetchAssumption DEF TypeOK

\* Trades of one key are of one moment: dedupeKey holds the time or the id.
LEMMA KeyTime ==
    ASSUME NEW t \in Trades, NEW u \in Trades, Key(t) = Key(u)
    PROVE  created[t] = created[u]
BY DEF Key, TimeOnly

\* A page of one moment of the window is smaller than PageSize.
LEMMA OneMoment ==
    ASSUME TiesAssumption, TypeOK, NEW c \in Nat, WindowStart <= c, c < WindowEnd,
           NEW page \in SUBSET Trades, \A t \in page : created[t] = c
    PROVE  Cardinality(page) < PageSize
<1> DEFINE ties == {t \in Trades : created[t] = c}
<1>1. page \subseteq ties
  OBVIOUS
<1>2. IsFiniteSet(ties)
  BY FetchAssumption, FS_Subset
<1>3. /\ Cardinality(page) <= Cardinality(ties)
      /\ Cardinality(page) \in Nat
      /\ Cardinality(ties) \in Nat
  BY <1>1, <1>2, FS_Subset, FS_CardinalityType
<1>4. Cardinality(ties) < PageSize
  BY FetchAssumption DEF TiesAssumption, TypeOK, TiesFit
<1> QED
  BY <1>3, <1>4, FetchAssumption

LEMMA InitInv == Init => IInv
<1> SUFFICES ASSUME Init
             PROVE  IInv
  OBVIOUS
<1>1. TypeOK
  <2>1. attempt \in 1..Page!Limit
    BY LimitType DEF Init, Page!Start
  <2>2. ctxDone \in BOOLEAN
    BY DEF Init
  <2>3. Page!TypeOK
    BY <2>1, <2>2, ConfigType DEF Init, Page!Start, Page!TypeOK
  <2> QED
    BY <2>3, FetchAssumption DEF Init, TypeOK
<1> QED
  BY <1>1, BookType, FetchAssumption
     DEF Init, Page!Start, IInv, StageInv, SeenInv, CountedOnce, CursorInv, InWindow

------------------------------------------------------------------------------
(* One page *)

PageRead == phase = "returned" /\ ret = "nil" /\ result = "none"

\* When the last page has been read nothing of the window is missing.
LEMMA LastPageCompletes ==
    ASSUME TiesAssumption, TypeOK, SeenInv, CursorInv, Serves(batch),
           NEW kept \in SUBSET batch, Additions(kept), LastPage(kept),
           NEW u \in Trades, InWindow(u), Key(u) \notin seen
    PROVE  \E k \in kept : Key(k) = Key(u)
<1> USE FetchAssumption, BookType
<1>1. cursor \in Nat /\ WindowStart <= cursor /\ created[u] >= cursor /\ created[u] \in Nat
  BY DEF CursorInv, TypeOK
<1>2. u \in Eligible
  BY <1>1 DEF Eligible, InWindow, BeforeEnd
<1>3. CASE u \in batch
  BY <1>3 DEF Additions
<1>4. CASE u \notin batch
  <2>1. /\ Cardinality(batch) = PageSize
        /\ \A t \in batch : created[t] <= created[u]
        /\ batch \subseteq Eligible
    BY <1>2, <1>4 DEF Serves
  <2>2. kept = {}
    BY <2>1 DEF LastPage
  <2>3. ASSUME NEW t \in batch
        PROVE  created[t] = cursor
    <3>1. t \in Trades /\ created[t] \in Nat /\ created[t] >= cursor /\ created[t] <= created[u]
      BY <2>1 DEF Eligible
    <3>2. InWindow(t)
      BY <1>1, <3>1 DEF InWindow
    <3>3. Key(t) \in seen
      BY <2>2, <3>2 DEF Additions
    <3>4. PICK a \in all : Key(a) = Key(t)
      BY <3>3 DEF SeenInv
    <3>5. created[a] = created[t] /\ created[a] <= cursor
      BY <3>1, <3>4, KeyTime DEF CursorInv, TypeOK
    <3> QED
      BY <1>1, <3>1, <3>5
  <2>4. cursor < WindowEnd
    BY <1>1 DEF InWindow, CursorInv
  <2>5. Cardinality(batch) < PageSize
    <3>1. batch \in SUBSET Trades
      BY DEF TypeOK
    <3> QED
      BY <1>1, <2>3, <2>4, <3>1, OneMoment
  <2> QED
    BY <2>1, <2>5
<1> QED
  BY <1>3, <1>4

\* Before a further page is asked for, the cursor moves to a later moment and
\* what it leaves behind is collected.
LEMMA FurtherPage ==
    ASSUME TypeOK, SeenInv, CursorInv, Serves(batch),
           NEW kept \in SUBSET batch, Additions(kept), ~LastPage(kept),
           NEW n \in batch, IsNewest(n)
    PROVE  /\ created[n] \in Nat /\ cursor <= created[n]
           /\ \A t \in all \union kept : created[t] <= created[n]
           /\ \A u \in Trades : InWindow(u) /\ created[u] < created[n] =>
                Key(u) \in seen \union {Key(t) : t \in kept}
           /\ TiesAssumption => cursor < created[n]
<1> USE FetchAssumption, BookType
<1>1. /\ n \in Trades /\ created[n] \in Nat /\ cursor \in Nat
      /\ cursor <= created[n] /\ batch \subseteq Eligible
  BY DEF Serves, Eligible, TypeOK
<1>2. \A t \in all \union kept : created[t] <= created[n]
  BY <1>1 DEF IsNewest, CursorInv, TypeOK
<1>3. ASSUME NEW u \in Trades, InWindow(u), created[u] < created[n],
             Key(u) \notin seen
      PROVE  \E k \in kept : Key(k) = Key(u)
  <2>1. created[u] \in Nat /\ created[u] >= cursor
    BY <1>1, <1>3 DEF CursorInv
  <2>2. u \in Eligible
    BY <1>3, <2>1 DEF Eligible, InWindow, BeforeEnd
  <2>3. u \in batch
    BY <1>1, <1>3, <2>1, <2>2 DEF Serves
  <2> QED
    BY <1>3, <2>3 DEF Additions
<1>4. ASSUME TiesAssumption, cursor = created[n]
      PROVE  FALSE
  <2>1. \A t \in batch : created[t] = cursor
    BY <1>1, <1>4 DEF IsNewest, Eligible, TypeOK
  <2>2. PICK k \in kept : InWindow(k)
    BY DEF LastPage, Additions
  <2>3. cursor < WindowEnd /\ WindowStart <= cursor
    BY <2>1, <2>2 DEF InWindow
  <2>4. batch \in SUBSET Trades
    BY DEF TypeOK
  <2>5. Cardinality(batch) < PageSize
    BY <1>1, <1>4, <2>1, <2>3, <2>4, OneMoment
  <2> QED
    BY <2>5 DEF LastPage
<1> QED
  BY <1>1, <1>2, <1>3, <1>4

------------------------------------------------------------------------------
(* The retry loop *)

LEMMA CallKeeps ==
    ASSUME Page!TypeOK, NEW outcome \in {"ok", "transient", "permanent"},
           Page!CallReturns(outcome)
    PROVE  /\ Page!TypeOK'
           /\ phase = "call"
           /\ phase' \in {"backoff", "returned"}
           /\ phase' = "backoff" => attempt' < Page!Limit
           /\ outcome = "ok" => phase' = "returned" /\ ret' = "nil"
<1> USE DEF Page!CallReturns, Page!Return, Page!EnterSelect, Page!TypeOK
<1>1. /\ phase = "call"
      /\ phase' \in {"backoff", "returned"}
      /\ attempt' = attempt
      /\ outcome = "ok" => phase' = "returned" /\ ret' = "nil"
  OBVIOUS
<1>2. ret' \in Page!Returns \union {"none"}
  BY DEF Page!Returns
<1>3. phase' = "backoff" => attempt' < Page!Limit
  OBVIOUS
<1>4. Page!TypeOK'
  BY <1>1, <1>2 DEF Page!Limit
<1> QED
  BY <1>1, <1>3, <1>4

LEMMA BackoffKeeps ==
    ASSUME Page!TypeOK, phase = "backoff" => attempt < Page!Limit,
           Page!BackoffElapses \/ Page!BackoffCancelled
    PROVE  /\ Page!TypeOK'
           /\ phase = "backoff"
           /\ phase' \in {"call", "returned"}
<1> USE DEF Page!BackoffElapses, Page!BackoffCancelled, Page!Return
<1>1. phase = "backoff" /\ phase' \in {"call", "returned"}
  OBVIOUS
<1>2. ret' \in Page!Returns \union {"none"}
  BY DEF Page!Returns, Page!TypeOK
<1>3. attempt' \in 1..Page!Limit
  BY LimitType DEF Page!TypeOK
<1> QED
  BY <1>1, <1>2, <1>3 DEF Page!TypeOK, Page!Limit

\* What does not touch the collection keeps what is known of it.
LEMMA CollectionKeeps ==
    ASSUME IInv, UNCHANGED <<created, cursor, all, seen>>,
           Page!TypeOK', batch' \subseteq Trades,
           StageInv', result' \in {"none", "error"} \/ UNCHANGED result,
           result' = "none" => result = "none"
    PROVE  IInv' /\ (Complete => Complete')
<1>1. TypeOK'
  BY DEF IInv, TypeOK, Key, TimeOnly
<1>2. SeenInv' /\ CountedOnce' /\ (CursorInv => CursorInv')
  BY DEF IInv, SeenInv, CountedOnce, CursorInv, InWindow, Key, TimeOnly
<1>3. Complete => Complete'
  BY DEF Complete, InWindow, Key, TimeOnly
<1> QED
  BY <1>1, <1>2, <1>3 DEF IInv

LEMMA CollectInv ==
    ASSUME IInv, Collect
    PROVE  IInv' /\ (TiesAssumption => Complete')
<1> USE DEF IInv
<1>1. PICK kept \in SUBSET batch :
         /\ Additions(kept)
         /\ all' = all \union kept
         /\ seen' = seen \union {Key(t) : t \in kept}
         /\ \/ /\ LastPage(kept)
               /\ result' = "ok"
               /\ UNCHANGED <<cursor, pageVars>>
            \/ /\ ~LastPage(kept)
               /\ \E t \in batch : IsNewest(t) /\ cursor' = created[t]
               /\ phase' = "call" /\ attempt' = 1 /\ ret' = "none"
               /\ UNCHANGED result
  BY DEF Collect
<1>2. /\ result = "none" /\ UNCHANGED <<ctxDone, created, batch>>
      /\ phase = "returned" /\ Serves(batch) /\ CursorInv
  BY DEF Collect, StageInv
<1>3. \A t : Key(t)' = Key(t) /\ InWindow(t)' = InWindow(t)
  BY <1>2 DEF Key, TimeOnly, InWindow
<1>4. SeenInv'
  BY <1>1, <1>3 DEF SeenInv
<1>5. CountedOnce'
  BY <1>1, <1>3 DEF CountedOnce, Additions, SeenInv
<1>6. all' \subseteq Trades /\ seen' \subseteq {Key(t) : t \in Trades}
  BY <1>1 DEF TypeOK
<1>7. CASE LastPage(kept)
  <2>1. result' = "ok" /\ UNCHANGED <<cursor, pageVars>>
    BY <1>1, <1>7
  <2>2. TypeOK'
    BY <1>2, <1>3, <1>6, <2>1 DEF TypeOK, Page!TypeOK, Page!Limit, pageVars
  <2>3. StageInv'
    BY <1>2, <2>1 DEF StageInv, pageVars
  <2>4. ASSUME TiesAssumption, NEW u \in Trades, InWindow(u)
        PROVE  \E a \in all' : Key(a) = Key(u)
    <3>1. CASE Key(u) \in seen
      BY <1>1, <3>1 DEF SeenInv
    <3>2. CASE Key(u) \notin seen
      BY <1>1, <1>2, <1>7, <2>4, <3>2, LastPageCompletes
    <3> QED
      BY <3>1, <3>2
  <2>5. TiesAssumption => Complete'
    BY <1>3, <2>4 DEF Complete
  <2> QED
    BY <1>4, <1>5, <2>1, <2>2, <2>3, <2>5
<1>8. CASE ~LastPage(kept)
  <2>1. PICK n \in batch : IsNewest(n) /\ cursor' = created[n]
    BY <1>1, <1>8
  <2>2. phase' = "call" /\ attempt' = 1 /\ ret' = "none" /\ result' = "none"
    BY <1>1, <1>2, <1>8
  <2>3. /\ cursor' \in Nat /\ cursor <= cursor'
        /\ \A t \in all' : created[t] <= cursor'
        /\ \A u \in Trades : InWindow(u) /\ created[u] < cursor' => Key(u) \in seen'
    BY <1>1, <1>2, <1>8, <2>1, FurtherPage
  <2>4. CursorInv'
    BY <1>2, <1>3, <2>3, FetchAssumption DEF CursorInv, TypeOK
  <2>5. TypeOK'
    <3>1. attempt' \in 1..Page!Limit
      BY <2>2, LimitType
    <3>2. Page!TypeOK'
      BY <1>2, <2>2, <3>1 DEF TypeOK, Page!TypeOK, Page!Limit
    <3> QED
      BY <1>2, <1>3, <1>6, <2>2, <2>3, <3>2 DEF TypeOK
  <2>6. StageInv'
    BY <2>2 DEF StageInv
  <2> QED
    BY <1>4, <1>5, <2>2, <2>4, <2>5, <2>6 DEF Complete
<1> QED
  BY <1>7, <1>8

LEMMA NextInv ==
    ASSUME IInv, [Next]_vars
    PROVE  IInv' /\ (TiesAssumption /\ Complete => Complete')
<1> DEFINE Kept == IInv' /\ (TiesAssumption /\ Complete => Complete')
<1>t. Page!TypeOK /\ batch \subseteq Trades /\ result \in {"none", "ok", "error"}
  BY DEF IInv, TypeOK
<1>s. \A page : Serves(page) /\ UNCHANGED <<created, cursor>> => Serves(page)'
  BY DEF Serves, Eligible, BeforeEnd
<1>1. ASSUME NEW page \in SUBSET Trades, PageArrives(page)
      PROVE  Kept
  <2>1. Page!TypeOK' /\ phase' = "returned" /\ ret' = "nil"
    BY <1>1, <1>t, CallKeeps DEF PageArrives
  <2>2. /\ result = "none" /\ Serves(page) /\ batch' = page
        /\ UNCHANGED <<created, cursor, all, seen, result>>
    BY <1>1 DEF PageArrives
  <2>3. Serves(batch)'
    BY <2>2 DEF Serves, Eligible, BeforeEnd
  <2>4. StageInv'
    BY <2>1, <2>2, <2>3 DEF StageInv
  <2> QED
    BY <2>1, <2>2, <2>4, CollectionKeeps
<1>2. ASSUME NEW outcome \in {"transient", "permanent"}, PageFails(outcome)
      PROVE  Kept
  <2>1. /\ Page!TypeOK' /\ phase' \in {"backoff", "returned"}
        /\ phase' = "backoff" => attempt' < Page!Limit
    BY <1>2, <1>t, CallKeeps DEF PageFails
  <2>2. /\ result = "none"
        /\ result' = IF phase' = "returned" THEN "error" ELSE result
        /\ UNCHANGED <<created, cursor, batch, all, seen>>
    BY <1>2 DEF PageFails, AfterPage
  <2>3. StageInv'
    BY <2>1, <2>2 DEF StageInv
  <2> QED
    BY <1>t, <2>1, <2>2, <2>3, CollectionKeeps
<1>3. CASE BackoffEnds
  <2>1. Page!TypeOK' /\ phase = "backoff" /\ phase' \in {"call", "returned"}
    BY <1>3, <1>t, BackoffKeeps DEF BackoffEnds, IInv, StageInv
  <2>2. /\ result = "none"
        /\ result' = IF phase' = "returned" THEN "error" ELSE result
        /\ UNCHANGED <<created, cursor, batch, all, seen>>
    BY <1>3, <1>t, <2>1 DEF BackoffEnds, AfterPage, IInv, StageInv
  <2>3. StageInv'
    BY <2>1, <2>2 DEF StageInv
  <2> QED
    BY <1>t, <2>1, <2>2, <2>3, CollectionKeeps
<1>4. CASE Collect
  BY <1>4, CollectInv
<1>5. CASE Deadline
  <2>1. UNCHANGED pageVars /\ UNCHANGED fetchVars /\ ctxDone' = TRUE
    BY <1>5 DEF Deadline
  <2>2. Page!TypeOK'
    BY <1>t, <2>1 DEF Page!TypeOK, Page!Limit, pageVars
  <2>3. StageInv'
    BY <1>s, <2>1 DEF IInv, StageInv, pageVars, fetchVars
  <2> QED
    BY <1>t, <2>1, <2>2, <2>3, CollectionKeeps DEF fetchVars
<1>6. CASE UNCHANGED vars
  <2>1. UNCHANGED pageVars /\ UNCHANGED fetchVars /\ ctxDone' = ctxDone
    BY <1>6 DEF vars
  <2>2. Page!TypeOK'
    BY <1>t, <2>1 DEF Page!TypeOK, Page!Limit, pageVars
  <2>3. StageInv'
    BY <1>s, <2>1 DEF IInv, StageInv, pageVars, fetchVars
  <2> QED
    BY <1>t, <2>1, <2>2, <2>3, CollectionKeeps DEF fetchVars
<1> QED
  BY <1>1, <1>2, <1>3, <1>4, <1>5, <1>6 DEF Next, CallEnds

\* The inductive invariant, whatever the book.
THEOREM FetchInvariant == Spec => []IInv
<1>1. IInv /\ [Next]_vars => IInv'
  BY NextInv
<1> QED
  BY InitInv, <1>1, PTL DEF Spec

\* The variables keep their ranges.
THEOREM FetchTypeCorrect == Spec => []TypeOK
<1>1. IInv => TypeOK
  BY DEF IInv
<1> QED
  BY FetchInvariant, <1>1, PTL

\* Only trades of the window are averaged, each of them once, even where a moment
\* fills a page and trades are lost.
THEOREM FetchCountsOnce == Spec => []CountedOnce
<1>1. IInv => CountedOnce
  BY DEF IInv
<1> QED
  BY FetchInvariant, <1>1, PTL

\* A fetch that reports success has every trade of the window, if no moment fills
\* a page.
THEOREM FetchComplete ==
    ASSUME TiesAssumption
    PROVE  Spec => []Complete
<1>1. Init => Complete
  BY DEF Init, Complete
<1>2. IInv /\ Complete /\ [Next]_vars => Complete'
  BY NextInv
<1> QED
  BY <1>1, <1>2, FetchInvariant, PTL DEF Spec

\* No page is asked for twice.
THEOREM FetchAdvances ==
    ASSUME TiesAssumption
    PROVE  Spec => CursorAdvances
<1>1. IInv /\ [Next]_vars
        => [phase = "returned" /\ phase' = "call" => cursor' > cursor]_vars
  <2> SUFFICES ASSUME IInv, Next, phase = "returned", phase' = "call"
               PROVE  cursor' > cursor
    BY DEF vars, pageVars
  <2>1. ~(\E page \in SUBSET Trades : PageArrives(page))
    BY CallKeeps DEF PageArrives, IInv, TypeOK
  <2>2. ~(\E outcome \in {"transient", "permanent"} : PageFails(outcome))
    BY CallKeeps DEF PageFails, IInv, TypeOK
  <2>3. ~BackoffEnds
    BY BackoffKeeps DEF BackoffEnds, IInv, TypeOK, StageInv
  <2>4. Collect
    BY <2>1, <2>2, <2>3 DEF Next, CallEnds, Deadline, pageVars
  <2>5. PICK kept \in SUBSET batch :
          /\ Additions(kept)
          /\ ~LastPage(kept)
          /\ \E n \in batch : IsNewest(n) /\ cursor' = created[n]
    BY <2>4 DEF Collect, pageVars
  <2>6. TypeOK /\ SeenInv /\ CursorInv /\ Serves(batch)
    BY <2>4 DEF Collect, IInv, StageInv
  <2>7. PICK n \in batch : IsNewest(n) /\ cursor' = created[n]
    BY <2>5
  <2>8. cursor < created[n] /\ cursor \in Nat /\ created[n] \in Nat
    BY <2>5, <2>6, <2>7, FurtherPage DEF TypeOK
  <2> QED
    BY <2>7, <2>8
<1> QED
  BY FetchInvariant, <1>1, PTL DEF Spec, CursorAdvances

------------------------------------------------------------------------------
(* Paging ends *)

\* The most steps left in the page that is fetched.
Left ==
    IF phase = "returned"
    THEN 1
    ELSE 2 * (Page!Limit - attempt) + (IF phase = "call" THEN 3 ELSE 2)

StepsOfAPage == 2 * Page!Limit + 1

\* The most steps left of all: each trade still to come may cost a page.
Rank ==
    IF result = "none"
    THEN Cardinality(Trades \ all) * StepsOfAPage + Left
    ELSE 0

LEMMA OneFewer ==
    ASSUME NEW c \in Nat, NEW d \in Nat, d < c, NEW n \in Nat
    PROVE  d * n + n <= c * n
<1>1. (c - (d + 1)) * n >= 0
  <2>1. \A x, y \in Nat : x * y >= 0
    OBVIOUS
  <2> QED
    BY <2>1
<1>2. (c - (d + 1)) * n = c * n - (d * n + n) /\ c * n \in Int /\ d * n \in Int
  OBVIOUS
<1> QED
  BY <1>1, <1>2

LEMMA StepsType == StepsOfAPage \in Nat /\ Page!Limit \in Nat \ {0}
BY LimitType DEF StepsOfAPage

LEMMA LeftType ==
    ASSUME IInv
    PROVE  Left \in 1..StepsOfAPage
BY StepsType DEF IInv, TypeOK, Page!TypeOK, Left, StepsOfAPage

\* How many trades are still to come.
LEMMA MissingType ==
    ASSUME all \subseteq Trades
    PROVE  /\ Cardinality(Trades \ all) \in 0..Cardinality(Trades)
           /\ Cardinality(Trades) \in Nat
           /\ Cardinality(Trades \ all) * StepsOfAPage \in Nat
           /\ Cardinality(Trades \ all) * StepsOfAPage <= Cardinality(Trades) * StepsOfAPage
<1>1. /\ Cardinality(Trades \ all) \in Nat /\ Cardinality(Trades) \in Nat
      /\ Cardinality(Trades \ all) <= Cardinality(Trades)
  BY FetchAssumption, FS_Subset, FS_CardinalityType
<1> DEFINE c == Cardinality(Trades \ all)
           n == Cardinality(Trades)
<1>2. \A x, y \in Nat : x * y \in Nat
  OBVIOUS
<1> HIDE DEF c, n
<1>3. c \in Nat /\ n \in Nat /\ c <= n
  BY <1>1 DEF c, n
<1>4. c * StepsOfAPage \in Nat /\ n * StepsOfAPage \in Nat
  BY <1>2, <1>3, StepsType
<1>5. c * StepsOfAPage <= n * StepsOfAPage
  <2>1. CASE c = n
    BY <1>4, <2>1
  <2>2. CASE c < n
    <3>1. c * StepsOfAPage + StepsOfAPage <= n * StepsOfAPage
      BY <1>3, <2>2, OneFewer, StepsType
    <3> QED
      BY <1>4, <3>1, StepsType
  <2> QED
    BY <1>3, <2>1, <2>2
<1> QED
  BY <1>1, <1>4, <1>5 DEF c, n

StepsAtMost == Cardinality(Trades) * StepsOfAPage + StepsOfAPage

RankInv ==
    /\ Left \in 1..StepsOfAPage
    /\ Rank \in 0..StepsAtMost
    /\ result = "none" => Rank >= 1

LEMMA RankType ==
    ASSUME IInv
    PROVE  RankInv
<1> DEFINE c == Cardinality(Trades \ all) * StepsOfAPage
           n == Cardinality(Trades) * StepsOfAPage
<1>1. c \in Nat /\ n \in Nat /\ c <= n
  <2>1. \A x, y \in Nat : x * y \in Nat
    OBVIOUS
  <2> QED
    BY <2>1, MissingType, StepsType DEF IInv, TypeOK
<1>2. Rank = IF result = "none" THEN c + Left ELSE 0
  BY DEF Rank
<1> HIDE DEF c
<1>3. Left \in 1..StepsOfAPage
  BY LeftType
<1>4. n + StepsOfAPage \in Nat
  BY <1>1, StepsType
<1> HIDE DEF n
<1>5. Rank \in 0..(n + StepsOfAPage) /\ (result = "none" => Rank >= 1)
  BY <1>1, <1>2, <1>3, <1>4, StepsType
<1> QED
  BY <1>3, <1>5 DEF n, RankInv, StepsAtMost

\* A step of fetchPage leaves fewer of them.
LEMMA RetrySteps ==
    ASSUME IInv,
           \/ \E outcome \in {"ok", "transient", "permanent"} : Page!CallReturns(outcome)
           \/ Page!BackoffElapses \/ Page!BackoffCancelled
    PROVE  Left' < Left
BY LimitType
   DEF IInv, TypeOK, StageInv, Left, Page!TypeOK, Page!CallReturns, Page!EnterSelect,
       Page!Return, Page!BackoffElapses, Page!BackoffCancelled, Page!Limit

\* A further page is asked for only after a new trade.
LEMMA PagesArePaidFor ==
    ASSUME IInv, Collect, result' = "none"
    PROVE  Cardinality(Trades \ all') < Cardinality(Trades \ all) /\ phase' = "call" /\ attempt' = 1
<1>1. PICK kept \in SUBSET batch :
         /\ Additions(kept)
         /\ all' = all \union kept
         /\ ~LastPage(kept)
         /\ phase' = "call" /\ attempt' = 1
  BY DEF Collect
<1>2. kept # {} /\ kept \subseteq Trades
  BY <1>1 DEF LastPage, IInv, TypeOK
<1>3. PICK t \in kept : t \notin all
  BY <1>1, <1>2 DEF Additions, IInv, SeenInv
<1>4. Trades \ all' \subseteq Trades \ all /\ t \in (Trades \ all) \ (Trades \ all')
  BY <1>1, <1>2, <1>3
<1>5. IsFiniteSet(Trades \ all)
  BY FetchAssumption, FS_Subset
<1>6. /\ Cardinality(Trades \ all') <= Cardinality(Trades \ all)
      /\ Cardinality(Trades \ all') = Cardinality(Trades \ all) => Trades \ all' = Trades \ all
      /\ Cardinality(Trades \ all') \in Nat /\ Cardinality(Trades \ all) \in Nat
  BY <1>4, <1>5, FS_Subset, FS_CardinalityType
<1> QED
  BY <1>1, <1>4, <1>6

LEMMA RankFalls ==
    ASSUME IInv, IInv', RankInv, RankInv', Next
    PROVE  Rank' < Rank \/ UNCHANGED <<pageVars, fetchVars>>
<1>0. Rank \in Nat /\ Rank' \in Nat /\ (result = "none" => Rank >= 1)
      /\ (result' # "none" => Rank' = 0)
  BY MissingType, StepsType DEF RankInv, StepsAtMost, Rank
<1> DEFINE c == Cardinality(Trades \ all) * StepsOfAPage
<1>1. ASSUME result = "none", all' = all, Left' < Left
      PROVE  Rank' < Rank
  <2>1. CASE result' = "none"
    <3>1. Rank' = c + Left' /\ Rank = c + Left /\ c \in Nat
      BY <1>1, <2>1, MissingType DEF Rank, IInv, TypeOK
    <3>2. Left \in Int /\ Left' \in Int
      BY StepsType DEF RankInv, StepsOfAPage, Page!Limit
    <3>3. \A k \in Nat, x, y \in Int : x < y => k + x < k + y
      OBVIOUS
    <3> HIDE DEF c
    <3>4. c + Left' < c + Left
      BY <1>1, <3>1, <3>2, <3>3
    <3> QED
      BY <3>1, <3>4
  <2>2. CASE result' # "none"
    BY <1>0, <1>1, <2>2
  <2> QED
    BY <2>1, <2>2
<1>2. ASSUME NEW page \in SUBSET Trades, PageArrives(page)
      PROVE  Rank' < Rank
  BY <1>1, <1>2, RetrySteps DEF PageArrives
<1>3. ASSUME NEW outcome \in {"transient", "permanent"}, PageFails(outcome)
      PROVE  Rank' < Rank
  BY <1>1, <1>3, RetrySteps DEF PageFails, AfterPage
<1>4. CASE BackoffEnds
  <2>1. result = "none"
    BY <1>4 DEF BackoffEnds, Page!BackoffElapses, Page!BackoffCancelled, IInv, StageInv, TypeOK
  <2> QED
    BY <1>1, <1>4, <2>1, RetrySteps DEF BackoffEnds, AfterPage
<1>5. CASE Collect
  <2>1. result = "none" /\ phase = "returned"
    BY <1>5 DEF Collect
  <2>2. CASE result' # "none"
    BY <1>0, <2>1, <2>2
  <2>3. CASE result' = "none"
    <3> DEFINE d == Cardinality(Trades \ all)
               e == Cardinality(Trades \ all')
    <3>1. e < d /\ e \in Nat /\ d \in Nat /\ phase' = "call" /\ attempt' = 1
      <4>1. all \subseteq Trades /\ all' \subseteq Trades
        BY DEF IInv, TypeOK
      <4>2. IsFiniteSet(Trades \ all) /\ IsFiniteSet(Trades \ all')
        BY FetchAssumption, FS_Subset
      <4> QED
        BY <1>5, <2>3, <4>2, PagesArePaidFor, FS_CardinalityType
    <3>2. Rank = d * StepsOfAPage + 1
      BY <2>1 DEF Rank, Left
    <3>3. Rank' = e * StepsOfAPage + StepsOfAPage
      <4>1. Left' = StepsOfAPage
        BY <3>1, StepsType DEF Left, StepsOfAPage, Page!Limit
      <4> QED
        BY <2>3, <4>1 DEF Rank, StepsOfAPage, Page!Limit
    <3> HIDE DEF d, e
    <3>4. e * StepsOfAPage + StepsOfAPage <= d * StepsOfAPage
      BY <3>1, OneFewer, StepsType
    <3>5. d * StepsOfAPage \in Nat /\ e * StepsOfAPage \in Nat
      <4>1. \A x, y \in Nat : x * y \in Nat
        OBVIOUS
      <4> QED
        BY <3>1, <4>1, StepsType
    <3> QED
      BY <3>2, <3>3, <3>4, <3>5, StepsType
  <2> QED
    BY <2>2, <2>3
<1>6. CASE Deadline
  BY <1>6 DEF Deadline, pageVars, fetchVars
<1> QED
  BY <1>2, <1>3, <1>4, <1>5, <1>6 DEF Next, CallEnds

\* However the retries, the pages and the deadline interleave, and even where
\* trades are lost, paging is over after a number of steps that the exchange's
\* trades and the retries bound: what FetchEnds needs besides fairness
\* (price.go:170-222).
THEOREM FetchIsBounded ==
    Spec => /\ [](Rank \in 0..StepsAtMost)
            /\ [][Rank' < Rank \/ UNCHANGED <<pageVars, fetchVars>>]_vars
<1>1. IInv => RankInv
  BY RankType
<1>2. RankInv => Rank \in 0..StepsAtMost
  BY DEF RankInv
<1>3. IInv /\ IInv' /\ RankInv /\ RankInv' /\ [Next]_vars
        => [Rank' < Rank \/ UNCHANGED <<pageVars, fetchVars>>]_vars
  BY RankFalls
<1> QED
  BY FetchInvariant, <1>1, <1>2, <1>3, PTL DEF Spec

------------------------------------------------------------------------------
(* Paging goes on *)

\* Induction by a least counterexample.
LEMMA LeastNumber ==
    ASSUME NEW N \in SUBSET Nat, N # {}
    PROVE  \E n \in N : \A k \in N : n <= k
<1>1. PICK n \in N : \A k \in N : ~(<<k, n>> \in OpToRel(<, Nat))
  BY NatLessThanWellFounded, WFMin
<1>2. \A k \in N : ~(k < n)
  BY <1>1 DEF OpToRel
<1> QED
  BY <1>2

LEMMA LeastSubset ==
    ASSUME NEW S, IsFiniteSet(S), NEW Off \in SUBSET SUBSET S, Off # {}
    PROVE  \E s \in Off : \A r \in Off : ~(Cardinality(r) < Cardinality(s))
<1>1. \A s \in SUBSET S : Cardinality(s) \in Nat
  BY FS_Subset, FS_CardinalityType
<1> DEFINE N == {Cardinality(s) : s \in Off}
<1>2. N \in SUBSET Nat /\ N # {}
  BY <1>1
<1>3. PICK n \in N : \A k \in N : n <= k
  BY <1>2, LeastNumber
<1>4. PICK s \in Off : n = Cardinality(s)
  OBVIOUS
<1> QED
  BY <1>1, <1>3, <1>4

\* The n oldest of the trades of E.
OldestOf(n, E, page) ==
    /\ page \subseteq E
    /\ Cardinality(page) = n
    /\ \A t \in page, u \in E \ page : created[t] <= created[u]

LEMMA OneOlder ==
    ASSUME created \in [Trades -> Nat], NEW E \in SUBSET Trades, IsFiniteSet(E),
           NEW n \in Nat, n + 1 <= Cardinality(E), NEW page, OldestOf(n, E, page)
    PROVE  \E more : OldestOf(n + 1, E, more)
<1>1. IsFiniteSet(page) /\ page \subseteq E /\ Cardinality(page) = n /\ Cardinality(E) \in Nat
  BY FS_Subset, FS_CardinalityType DEF OldestOf
<1>2. E \ page # {}
  <2>1. E \ page = {} => E = page
    BY <1>1
  <2> QED
    BY <1>1, <2>1
<1> DEFINE times == {created[u] : u \in E \ page}
<1>3. times \in SUBSET Nat /\ times # {}
  BY <1>2
<1>4. PICK c \in times : \A k \in times : c <= k
  BY <1>3, LeastNumber
<1>5. PICK u \in E \ page : c = created[u]
  OBVIOUS
<1>6. \A v \in E \ page : created[u] <= created[v]
  BY <1>4, <1>5
<1>7. Cardinality(page \union {u}) = n + 1
  BY <1>1, <1>5, FS_AddElement
<1>8. OldestOf(n + 1, E, page \union {u})
  BY <1>1, <1>5, <1>6, <1>7 DEF OldestOf
<1> QED
  BY <1>8

\* Of a set of trades there are the n oldest.
LEMMA OldestExist ==
    ASSUME created \in [Trades -> Nat], NEW E \in SUBSET Trades, IsFiniteSet(E),
           NEW n \in Nat, n <= Cardinality(E)
    PROVE  \E page : OldestOf(n, E, page)
<1> DEFINE Off == {k \in Nat : k <= Cardinality(E) /\ ~(\E page : OldestOf(k, E, page))}
<1>1. Cardinality(E) \in Nat
  BY FS_CardinalityType
<1>2. \E page : OldestOf(0, E, page)
  BY FS_EmptySet DEF OldestOf
<1>3. Off = {}
  <2> SUFFICES ASSUME Off # {}
               PROVE  FALSE
    OBVIOUS
  <2>1. PICK k \in Off : \A m \in Off : k <= m
    BY LeastNumber
  <2>2. k # 0 /\ k - 1 \in Nat /\ k - 1 \notin Off /\ k - 1 <= Cardinality(E)
    BY <1>1, <1>2, <2>1
  <2>3. PICK page : OldestOf(k - 1, E, page)
    BY <2>2
  <2>4. (k - 1) + 1 = k /\ k <= Cardinality(E)
    BY <2>1
  <2>5. \E more : OldestOf((k - 1) + 1, E, more)
    BY <2>2, <2>3, <2>4, OneOlder
  <2> QED
    BY <2>4, <2>5
<1> QED
  BY <1>3

LEMMA SomePageServes ==
    ASSUME IInv
    PROVE  \E page \in SUBSET Trades : Serves(page)
<1>1. Eligible \in SUBSET Trades /\ IsFiniteSet(Eligible) /\ created \in [Trades -> Nat]
  BY FetchAssumption, BookType, FS_Subset DEF Eligible, IInv
<1>2. CASE Cardinality(Eligible) <= PageSize
  BY <1>1, <1>2 DEF Serves
<1>3. CASE ~(Cardinality(Eligible) <= PageSize)
  <2>1. PageSize \in Nat /\ PageSize <= Cardinality(Eligible)
    BY <1>1, <1>3, FetchAssumption, FS_CardinalityType
  <2>2. PICK page : OldestOf(PageSize, Eligible, page)
    BY <1>1, <2>1, OldestExist
  <2> QED
    BY <1>1, <1>3, <2>2 DEF OldestOf, Serves
<1> QED
  BY <1>2, <1>3

LEMMA SomeAdditions ==
    \E kept \in SUBSET batch : Additions(kept)
<1> DEFINE fresh == {t \in batch : InWindow(t) /\ Key(t) \notin seen}
           one(k) == CHOOSE t \in fresh : Key(t) = k
           kept == {t \in fresh : t = one(Key(t))}
<1>1. \A t \in fresh : one(Key(t)) \in fresh /\ Key(one(Key(t))) = Key(t)
  OBVIOUS
<1> HIDE DEF one
<1>2. \A t \in fresh : one(Key(t)) \in kept
  BY <1>1
<1>3. Additions(kept)
  BY <1>1, <1>2 DEF Additions
<1> QED
  BY <1>3

LEMMA SomeNewest ==
    ASSUME IInv, batch # {}
    PROVE  \E t \in batch : IsNewest(t)
<1>1. batch \in SUBSET Trades /\ IsFiniteSet(batch) /\ created \in [Trades -> Nat]
  BY FetchAssumption, BookType, FS_Subset DEF IInv, TypeOK
<1>2. Cardinality(batch) \in Nat /\ Cardinality(batch) # 0
  BY <1>1, FS_CardinalityType, FS_EmptySet
<1>3. PICK page : OldestOf(Cardinality(batch) - 1, batch, page)
  BY <1>1, <1>2, OldestExist
<1>4. PICK t \in batch : t \notin page
  BY <1>2, <1>3 DEF OldestOf
<1>5. batch = page \union {t}
  <2>1. IsFiniteSet(page) /\ page \union {t} \subseteq batch
    BY <1>1, <1>3, <1>4, FS_Subset DEF OldestOf
  <2>2. Cardinality(page \union {t}) = Cardinality(batch)
    <3>1. Cardinality(page \union {t}) = Cardinality(page) + 1
      BY <1>4, <2>1, FS_AddElement
    <3> QED
      BY <1>2, <1>3, <3>1 DEF OldestOf
  <2> QED
    BY <1>1, <2>1, <2>2, FS_Subset
<1>6. \A u \in batch : created[u] <= created[t]
  BY <1>1, <1>3, <1>4, <1>5 DEF OldestOf
<1> QED
  BY <1>4, <1>6 DEF IsNewest

\* Until fetchAll returns there is something for it to do, whatever it has been
\* served: a page to ask for, a wait, or a page with trades to keep and, if it is
\* not the last, a newest trade to go on from (price.go:176-222).
FetchGoesOn ==
    result = "none" =>
        \/ phase = "call" /\ \E page \in SUBSET Trades : Serves(page)
        \/ phase = "backoff" /\ attempt < Page!Limit
        \/ /\ PageRead
           /\ \E kept \in SUBSET batch :
                 /\ Additions(kept)
                 /\ LastPage(kept) \/ \E t \in batch : IsNewest(t)

\* fetchAll is never stuck.
THEOREM FetchIsNeverStuck == Spec => []FetchGoesOn
<1>1. IInv => FetchGoesOn
  <2> SUFFICES ASSUME IInv, result = "none"
               PROVE  \/ phase = "call" /\ \E page \in SUBSET Trades : Serves(page)
                      \/ phase = "backoff" /\ attempt < Page!Limit
                      \/ /\ PageRead
                         /\ \E kept \in SUBSET batch :
                               /\ Additions(kept)
                               /\ LastPage(kept) \/ \E t \in batch : IsNewest(t)
    BY DEF FetchGoesOn
  <2>1. phase \in {"call", "backoff", "returned"}
    BY DEF IInv, TypeOK, Page!TypeOK
  <2>2. CASE phase = "call"
    BY <2>2, SomePageServes
  <2>3. CASE phase = "backoff"
    BY <2>3 DEF IInv, StageInv
  <2>4. CASE phase = "returned"
    <3>1. PageRead
      BY <2>4 DEF PageRead, IInv, StageInv
    <3>2. PICK kept \in SUBSET batch : Additions(kept)
      BY SomeAdditions
    <3>3. LastPage(kept) \/ batch # {}
      BY <3>2 DEF LastPage
    <3> QED
      BY <3>1, <3>2, <3>3, SomeNewest
  <2> QED
    BY <2>1, <2>2, <2>3, <2>4
<1> QED
  BY FetchInvariant, <1>1, PTL

=============================================================================
