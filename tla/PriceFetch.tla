----------------------------- MODULE PriceFetch -----------------------------
(***************************************************************************)
(* price.Client.fetchAll: page through the trades of the window by moving a  *)
(* cursor to the newest trade seen, dropping what was seen before. Each page *)
(* is fetched by fetchPage, whose retry loop is the shape of retry.Do with   *)
(* MaxRetries + 1 attempts and its own idea of transient.                    *)
(***************************************************************************)
EXTENDS Integers, FiniteSets

CONSTANTS
    Trades,      \* the exchange's trades
    NoId,        \* those the API sends without an id, alike but for the time
    Books,       \* the assignments of creation times the exchange may have
    WindowStart, WindowEnd,   \* [WindowStart, WindowEnd)
    PageSize,
    MaxRetries, RetryWait,
    IgnoresEnd   \* the API serves trades from WindowEnd on too

ASSUME FetchAssumption ==
    /\ IsFiniteSet(Trades) /\ NoId \subseteq Trades
    /\ Books \subseteq [Trades -> Nat]
    /\ WindowStart \in Nat /\ WindowEnd \in Nat
    /\ PageSize \in Nat \ {0}
    /\ MaxRetries \in Nat /\ RetryWait \in Nat \ {0}
    /\ IgnoresEnd \in BOOLEAN

VARIABLES
    phase, attempt, ret, ctxDone,   \* fetchPage's retry loop, and the context
    created,   \* the exchange's book, the same throughout
    cursor,    \* start of the next page asked for
    batch,     \* the page fetchPage returned last
    all,       \* trades collected
    seen,      \* their keys
    result     \* what fetchAll returned, "none" while it runs

Page == INSTANCE Retry
            WITH cfg <- [Attempts |-> MaxRetries + 1, Backoff |-> RetryWait]

pageVars == <<phase, attempt, ret>>
fetchVars == <<created, cursor, batch, all, seen, result>>
vars == <<pageVars, ctxDone, fetchVars>>

\* dedupeKey: the id, or the remaining fields, of which only the time differs.
TimeOnly(t) == <<"created", created[t]>>
Key(t) == IF t \in NoId THEN TimeOnly(t) ELSE <<"id", t>>

BeforeEnd(t) == created[t] < WindowEnd
InWindow(t) == WindowStart <= created[t] /\ created[t] < WindowEnd

\* The trades of one moment fit in a page with room to spare.
TiesFit(book) ==
    \A c \in WindowStart..WindowEnd - 1 : Cardinality({t \in Trades : book[t] = c}) < PageSize

TypeOK ==
    /\ Page!TypeOK
    /\ created \in Books
    /\ cursor \in Nat
    /\ batch \subseteq Trades
    /\ all \subseteq Trades
    /\ seen \subseteq {Key(t) : t \in Trades}
    /\ result \in {"none", "ok", "error"}

Init ==
    /\ Page!Start
    /\ ctxDone = FALSE
    /\ created \in Books
    /\ cursor = WindowStart
    /\ batch = {}
    /\ all = {}
    /\ seen = {}
    /\ result = "none"

------------------------------------------------------------------------------
(* The API, from how fetchAll uses it *)

Eligible == {t \in Trades : created[t] >= cursor /\ (BeforeEnd(t) \/ IgnoresEnd)}

\* A page holds the oldest eligible trades, in any order, and is short only
\* when there are no more.
Serves(page) ==
    /\ page \subseteq Eligible
    /\ IF Cardinality(Eligible) <= PageSize
       THEN page = Eligible
       ELSE /\ Cardinality(page) = PageSize
            /\ \A t \in page, u \in Eligible \ page : created[t] <= created[u]

------------------------------------------------------------------------------

PageArrives(page) ==
    /\ result = "none"
    /\ Serves(page)
    /\ Page!CallReturns("ok")
    /\ batch' = page
    /\ UNCHANGED <<created, cursor, all, seen, result>>

\* An error taken for the end of the trades.
ErrorsEndPaging ==
    /\ result' = IF phase' = "returned" THEN "ok" ELSE result
    /\ UNCHANGED <<created, cursor, batch, all, seen>>

\* fetchAll returns the error of a fetchPage that is over.
AfterPage ==
    /\ result' = IF phase' = "returned" THEN "error" ELSE result
    /\ UNCHANGED <<created, cursor, batch, all, seen>>

\* transient: a network error, a timeout, 429 or 5xx. permanent: another
\* status, a body that is too large or does not decode, a time that does not
\* parse.
PageFails(outcome) ==
    /\ result = "none"
    /\ Page!CallReturns(outcome)
    /\ AfterPage

BackoffEnds ==
    /\ Page!BackoffElapses \/ Page!BackoffCancelled
    /\ AfterPage

\* The window taken for what the API filters.
TrustsTheWindow(kept) ==
    /\ kept \subseteq {t \in batch : Key(t) \notin seen}
    /\ \A t \in batch : Key(t) \notin seen => \E u \in kept : Key(u) = Key(t)
    /\ \A t, u \in kept : Key(t) = Key(u) => t = u

\* One trade of each new key of the page, if it is in the window.
Additions(kept) ==
    /\ kept \subseteq {t \in batch : InWindow(t) /\ Key(t) \notin seen}
    /\ \A t \in batch : InWindow(t) /\ Key(t) \notin seen =>
          \E u \in kept : Key(u) = Key(t)
    /\ \A t, u \in kept : Key(t) = Key(u) => t = u

\* The cursor of a page that is not sorted as expected.
AnyOfPage(t) == t \in batch

IsNewest(t) == t \in batch /\ \A u \in batch : created[u] <= created[t]

\* A full page always asks for another.
StopsOnShortPage(kept) == Cardinality(batch) < PageSize

\* A page that is not full, or brought nothing new, is the last.
LastPage(kept) == Cardinality(batch) < PageSize \/ kept = {}

Collect ==
    /\ phase = "returned"
    /\ ret = "nil"
    /\ result = "none"
    /\ \E kept \in SUBSET batch :
         /\ Additions(kept)
         /\ all' = all \union kept
         /\ seen' = seen \union {Key(t) : t \in kept}
         /\ \/ /\ LastPage(kept)
               /\ result' = "ok"
               /\ UNCHANGED <<cursor, pageVars>>
            \/ /\ ~LastPage(kept)
               /\ \E t \in batch : IsNewest(t) /\ cursor' = created[t]
               /\ phase' = "call" /\ attempt' = 1 /\ ret' = "none"
               /\ UNCHANGED result
    /\ UNCHANGED <<ctxDone, created, batch>>

Deadline ==
    /\ ~ctxDone
    /\ ctxDone' = TRUE
    /\ UNCHANGED <<pageVars, fetchVars>>

CallEnds ==
    \/ \E page \in SUBSET Trades : PageArrives(page)
    \/ \E outcome \in {"transient", "permanent"} : PageFails(outcome)

Next ==
    \/ CallEnds
    \/ BackoffEnds
    \/ Collect
    \/ Deadline

\* An HTTP call ends by the client's timeout; timers fire; the program runs on.
Fairness == WF_vars(CallEnds) /\ WF_vars(BackoffEnds) /\ WF_vars(Collect)

Spec == Init /\ [][Next]_vars /\ Fairness

------------------------------------------------------------------------------
(* Properties *)

\* What goes into the average is of the window, and a boundary trade served by
\* two pages is counted once (price.go:170-174).
CountedOnce ==
    /\ \A t \in all : InWindow(t)
    /\ \A t, u \in all : Key(t) = Key(u) => t = u

\* When fetchAll reports success no trade of the window is missing, but for
\* those its key takes for one it has (price.go:170-174, 207-209).
Complete ==
    result = "ok" =>
        \A t \in Trades : InWindow(t) => \E u \in all : Key(u) = Key(t)

\* Every further page is asked for from a later moment: the same request is
\* never made twice (price.go:214-219).
CursorAdvances ==
    [][phase = "returned" /\ phase' = "call" => cursor' > cursor]_vars

\* Paging ends, with or without a deadline.
FetchEnds == <>(result # "none")

=============================================================================
