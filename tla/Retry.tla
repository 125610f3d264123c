-------------------------------- MODULE Retry --------------------------------
(***************************************************************************)
(* retry.Do: call fn until it succeeds, fails for good, runs out of         *)
(* attempts, or the context ends while Do waits between two attempts.       *)
(*                                                                          *)
(* The module gives Do's control as actions over four variables, so that a  *)
(* caller (Broadcaster, PriceFetch) can be composed with it by INSTANCE.    *)
(* What fn does is the caller's: here one call is one step, CallReturns,    *)
(* whose argument is the class IsRetryable puts the call's error in.        *)
(***************************************************************************)
EXTENDS Integers

VARIABLES
    cfg,      \* the Config Do was called with, the same throughout
    phase,    \* "call": fn runs;  "backoff": Do waits;  "returned"
    attempt,  \* number of the attempt that runs or is waited for
    ret,      \* what Do returned, "none" while it runs
    ctxDone   \* the caller's context has ended

doVars == <<cfg, phase, attempt, ret, ctxDone>>

Configs == [Attempts : Int, Backoff : Nat \ {0}]

\* The two configurations the program uses, backoffs in milliseconds.
Default == [Attempts |-> 3, Backoff |-> 500]
Broadcast == [Attempts |-> 2, Backoff |-> 500]

\* What IsRetryable makes of fn's result: no error, a transient gRPC status,
\* anything else.
Outcomes == {"ok", "transient", "permanent"}

\* "cancelled" is ctx.Err(), "exhausted" wraps the last error.
Returns == {"nil", "permanent", "exhausted", "cancelled"}

\* cfg.Attempts taken as it comes.
RawLimit == cfg.Attempts

\* cfg.Attempts with values below 1 treated as 1.
Limit == IF cfg.Attempts < 1 THEN 1 ELSE cfg.Attempts

\* The same delay before every retry.
ConstantDelay(n) == cfg.Backoff

\* The nth retry waits n times the base delay.
Delay(n) == cfg.Backoff * n

TypeOK ==
    /\ cfg \in Configs
    /\ phase \in {"call", "backoff", "returned"}
    /\ attempt \in 1..Limit
    /\ ret \in Returns \union {"none"}
    /\ ctxDone \in BOOLEAN

Start ==
    /\ phase = "call"
    /\ attempt = 1
    /\ ret = "none"

------------------------------------------------------------------------------

\* The error is kept, the loop goes on.
KeepsLooping(r) ==
    /\ ret' = r
    /\ UNCHANGED <<phase, attempt>>

Return(r) ==
    /\ phase' = "returned"
    /\ ret' = r
    /\ UNCHANGED <<attempt>>

\* A wait that always runs its delay out.
EnterSelectUnchecked ==
    phase' = "backoff" /\ UNCHANGED <<attempt, ret>>

\* A transient error with attempts left: Do enters the select. A context that
\* is already done is the only branch ready then, since the delay is positive.
EnterSelect ==
    \/ ctxDone /\ Return("cancelled")
    \/ ~ctxDone /\ phase' = "backoff" /\ UNCHANGED <<attempt, ret>>

\* Every error treated as worth a replay.
CallReturnsAnyError(outcome) ==
    /\ phase = "call"
    /\ \/ outcome = "ok" /\ Return("nil")
       \/ outcome # "ok" /\ attempt = Limit /\ Return("exhausted")
       \/ outcome # "ok" /\ attempt < Limit /\ EnterSelect
    /\ UNCHANGED ctxDone /\ cfg' = cfg

\* Transient errors replayed without counting.
CallReturnsUncounted(outcome) ==
    /\ phase = "call"
    /\ \/ outcome = "ok" /\ Return("nil")
       \/ outcome = "permanent" /\ Return("permanent")
       \/ outcome = "transient" /\ EnterSelect
    /\ UNCHANGED ctxDone /\ cfg' = cfg

CallReturns(outcome) ==
    /\ phase = "call"
    /\ \/ outcome = "ok" /\ Return("nil")
       \/ outcome = "permanent" /\ Return("permanent")
       \/ outcome = "transient" /\ attempt = Limit /\ Return("exhausted")
       \/ outcome = "transient" /\ attempt < Limit /\ EnterSelect
    /\ UNCHANGED ctxDone /\ cfg' = cfg

\* The delay ends. The select may take this branch even when the context ended
\* during the delay: with both channels ready Go picks either.
BackoffElapses ==
    /\ phase = "backoff"
    /\ phase' = "call"
    /\ attempt' = attempt + 1
    /\ UNCHANGED <<ret, ctxDone>> /\ cfg' = cfg

BackoffCancelled ==
    /\ phase = "backoff"
    /\ ctxDone
    /\ Return("cancelled")
    /\ UNCHANGED ctxDone /\ cfg' = cfg

=============================================================================
