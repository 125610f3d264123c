----------------------------- MODULE RetryBudget -----------------------------
(***************************************************************************)
(* retry.Do on its own, with any fn and any context: what a caller may rely *)
(* on whatever the node answers and whenever the context ends.              *)
(***************************************************************************)
EXTENDS Retry

CONSTANT ConfigsUsed    \* the configurations Do is called with

ASSUME ConfigsAssumption == ConfigsUsed \subseteq Configs

VARIABLES
    last,    \* class of fn's latest result, "none" before the first
    waited,  \* history: delay spent in the selects that ran to their timer
    late     \* history: calls of fn that started after the context ended

vars == <<doVars, last, waited, late>>

StartsLate == IF ctxDone THEN 1 ELSE 0

Init ==
    /\ cfg \in ConfigsUsed
    /\ ctxDone \in BOOLEAN
    /\ Start
    /\ last = "none"
    /\ waited = 0
    /\ late = StartsLate

FnReturns(outcome) ==
    /\ CallReturns(outcome)
    /\ last' = outcome
    /\ UNCHANGED <<waited, late>>

Elapse ==
    /\ BackoffElapses
    /\ waited' = waited + Delay(attempt)
    /\ late' = late + StartsLate
    /\ UNCHANGED last

Cancel ==
    /\ BackoffCancelled
    /\ UNCHANGED <<last, waited, late>>

ContextEnds ==
    /\ ~ctxDone
    /\ ctxDone' = TRUE
    /\ UNCHANGED <<cfg, phase, attempt, ret, last, waited, late>>

Next ==
    \/ \E outcome \in Outcomes : FnReturns(outcome)
    \/ Elapse
    \/ Cancel
    \/ ContextEnds

\* fn may hang until its context ends and no longer (a gRPC call returns then);
\* timers fire; the context has a deadline.
Fairness ==
    /\ WF_vars(ctxDone /\ \E outcome \in Outcomes : FnReturns(outcome))
    /\ WF_vars(Elapse \/ Cancel)
    /\ WF_vars(ContextEnds)

Spec == Init /\ [][Next]_vars /\ Fairness

------------------------------------------------------------------------------

BudgetTypeOK ==
    /\ TypeOK
    /\ last \in Outcomes \union {"none"}
    /\ waited \in Nat
    /\ late \in Nat

\* The error Do returns says what happened: nil only after a success, the bare
\* error only after a permanent one, "exhausted" only after a transient error
\* on the last attempt, ctx.Err() only when the context ended with a transient
\* error behind and attempts left (retry.go:47-70).
ReturnsTheTruth ==
    /\ ret = "nil" => last = "ok"
    /\ ret = "permanent" => last = "permanent"
    /\ ret = "exhausted" => last = "transient" /\ attempt = Limit
    /\ ret = "cancelled" => last = "transient" /\ attempt < Limit /\ ctxDone

\* Linear backoff costs exactly Backoff * (1 + 2 + ... + (attempt - 1)): with
\* Default at most 1.5 s over a call (retry.go:22-24, 28-33).
LinearBackoff == 2 * waited = cfg.Backoff * (attempt * (attempt - 1))

\* However the end of the context races the timers, at most one call of fn
\* starts after it (retry.go:52-58).
AtMostOneLateCall == late <= 1

\* fn is called again only after a transient error and never once Do returned:
\* what is permanent is not replayed (retry.go:65-67).
ReplaysOnlyTransient ==
    [][attempt' # attempt => last = "transient" /\ ret = "none"]_vars

\* Do returns, whatever fn answers: it cannot outlive its context by more than
\* the call in progress.
DoReturns == <>(phase = "returned")

=============================================================================
