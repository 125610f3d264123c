-------------------------------- MODULE Window --------------------------------
(***************************************************************************)
(* price.Client.window: the WindowDays days, counted in UTC, that end at the *)
(* last midnight Eastern. Eastern time is behind UTC by one number of hours  *)
(* in summer and by one more in winter, so the days between its midnights    *)
(* are not all of 24 hours. Time is in hours from a midnight UTC.            *)
(***************************************************************************)
EXTENDS Integers

CONSTANTS
    Days,        \* the days of the calendar
    Offset,      \* the hours Eastern is behind UTC at each day's midnight
    EDT,         \* in summer
    DayHours,    \* 24
    WindowDays   \* the client's

ASSUME CalendarAssumption ==
    /\ Days \subseteq Nat
    /\ EDT \in Nat
    /\ Offset \in [Days -> {EDT, EDT + 1}]
    /\ DayHours \in Nat /\ DayHours > 1
    /\ WindowDays \in Nat \ {0}

midnight(d) == d * DayHours + Offset[d]

\* t is on day d of the Eastern calendar.
OnDay(t, d) == midnight(d) <= t /\ \A e \in Days : e > d => t < midnight(e)

\* Midnight UTC instead.
MidnightUTC(now) ==
    LET end == DayHours * (now \div DayHours)
    IN  [start |-> end - WindowDays * DayHours, end |-> end]

window(now) ==
    LET end == midnight(CHOOSE d \in Days : OnDay(now, d))
    IN  [start |-> end - WindowDays * DayHours, end |-> end]

=============================================================================
