------------------------------- MODULE Logging -------------------------------
(***************************************************************************)
(* Which log lines are posted to Slack: the levels of logging.go and the      *)
(* filters of slack.go. A line is posted once, from within the log call;      *)
(* whether it arrives is looked at by no one.                                 *)
(***************************************************************************)
EXTENDS Integers

\* slog's levels.
Levels == [debug |-> -4, info |-> 0, warn |-> 4, error |-> 8]

\* Anything else is info.
parseLevel(s) ==
    IF s \in DOMAIN Levels THEN Levels[s]
    ELSE IF s = "warning" THEN Levels.warn
    ELSE Levels.info

\* What is logged: lines of a level, and the startup banner.
Lines == {"banner"} \union DOMAIN Levels

\* Below the level it is meant for.
BelowLevel(c, line) == c.slack /\ (line = "banner" \/ Levels[line] <= c.slackLevel)

\* Which of them are posted to Slack: the banner and errors whatever the level.
Notifies(c, line) == c.slack /\ (line \in {"banner", "error"} \/ c.slackLevel <= Levels[line])

=============================================================================
