----------------------------- MODULE RetryProofs -----------------------------
(***************************************************************************)
(* What retry.Do promises, for every set of configurations: the safety      *)
(* properties TLC checks in MCRetry, from one inductive invariant, and that *)
(* it has no more than a bounded number of steps to take.                   *)
(***************************************************************************)
EXTENDS RetryBudget, TLAPS

\* While fn runs or Do waits nothing has been returned, and Do waits only after
\* a transient error with attempts left.
ControlInv ==
    /\ ret = "none" <=> phase # "returned"
    /\ phase = "backoff" => last = "transient" /\ attempt < Limit

\* A late call has been made only if the context ended, and then Do is past
\* its last wait: it enters the select only with the context alive.
LateInv ==
    /\ late > 0 => ctxDone
    /\ phase = "backoff" => late = 0

IInv ==
    /\ BudgetTypeOK
    /\ ControlInv
    /\ ReturnsTheTruth
    /\ LinearBackoff
    /\ AtMostOneLateCall
    /\ LateInv

\* One more wait of Delay(attempt) keeps the closed form of the backoff.
LEMMA BackoffSum ==
    ASSUME NEW b \in Nat, NEW a \in Nat, NEW w \in Nat,
           2 * w = b * (a * (a - 1))
    PROVE  2 * (w + b * a) = b * ((a + 1) * a)
<1>1. (a + 1) * a = a * (a - 1) + 2 * a
  OBVIOUS
<1>2. b * (a * (a - 1) + 2 * a) = b * (a * (a - 1)) + 2 * (b * a)
  OBVIOUS
<1> QED
  BY <1>1, <1>2

LEMMA InitInv == Init => IInv
BY ConfigsAssumption
   DEF Init, Start, StartsLate, IInv, BudgetTypeOK, TypeOK, Configs, Limit,
       ControlInv, ReturnsTheTruth, LinearBackoff, AtMostOneLateCall, LateInv

LEMMA NextInv == IInv /\ [Next]_vars => IInv'
<1> SUFFICES ASSUME IInv, [Next]_vars
             PROVE  IInv'
  OBVIOUS
<1> USE DEF IInv, BudgetTypeOK, TypeOK, Configs, Limit, Outcomes, Returns
<1>1. ASSUME NEW outcome \in Outcomes, FnReturns(outcome)
      PROVE  IInv'
  <2> USE <1>1 DEF FnReturns, CallReturns, EnterSelect, Return
  <2>1. BudgetTypeOK'
    OBVIOUS
  <2>2. ControlInv' /\ ReturnsTheTruth' /\ LateInv'
    BY DEF ControlInv, ReturnsTheTruth, LateInv
  <2>3. LinearBackoff' /\ AtMostOneLateCall'
    BY DEF LinearBackoff, AtMostOneLateCall
  <2> QED
    BY <2>1, <2>2, <2>3
<1>2. CASE Elapse
  <2> USE <1>2 DEF Elapse, BackoffElapses, StartsLate, Delay
  <2>1. BudgetTypeOK'
    BY DEF ControlInv
  <2>2. ControlInv' /\ ReturnsTheTruth' /\ LateInv' /\ AtMostOneLateCall'
    BY DEF ControlInv, ReturnsTheTruth, LateInv, AtMostOneLateCall
  <2>3. LinearBackoff'
    <3>1. 2 * (waited + cfg.Backoff * attempt) = cfg.Backoff * ((attempt + 1) * attempt)
      BY BackoffSum DEF LinearBackoff
    <3> QED
      BY <3>1 DEF LinearBackoff
  <2> QED
    BY <2>1, <2>2, <2>3
<1>3. CASE Cancel
  BY <1>3 DEF Cancel, BackoffCancelled, Return, ControlInv, ReturnsTheTruth,
              LinearBackoff, AtMostOneLateCall, LateInv
<1>4. CASE ContextEnds
  BY <1>4 DEF ContextEnds, ControlInv, ReturnsTheTruth, LinearBackoff,
              AtMostOneLateCall, LateInv
<1>5. CASE UNCHANGED vars
  BY <1>5 DEF vars, doVars, ControlInv, ReturnsTheTruth, LinearBackoff,
              AtMostOneLateCall, LateInv
<1> QED
  BY <1>1, <1>2, <1>3, <1>4, <1>5 DEF Next

\* The inductive invariant holds in every state of every call of Do.
THEOREM RetryInvariant == Spec => []IInv
BY InitInv, NextInv, PTL DEF Spec

\* The variables keep their ranges, the attempt number within the limit.
THEOREM RetryTypeCorrect == Spec => []BudgetTypeOK
<1>1. IInv => BudgetTypeOK
  BY DEF IInv
<1> QED
  BY RetryInvariant, <1>1, PTL

\* The error Do returns tells what fn's last result was and why Do stopped.
THEOREM RetryReturnsTheTruth == Spec => []ReturnsTheTruth
<1>1. IInv => ReturnsTheTruth
  BY DEF IInv
<1> QED
  BY RetryInvariant, <1>1, PTL

\* The delay spent is the linear backoff's, whatever Attempts and Backoff are.
THEOREM RetryBackoffIsLinear == Spec => []LinearBackoff
<1>1. IInv => LinearBackoff
  BY DEF IInv
<1> QED
  BY RetryInvariant, <1>1, PTL

\* At most one call of fn starts after the context ended.
THEOREM RetryRespectsContext == Spec => []AtMostOneLateCall
<1>1. IInv => AtMostOneLateCall
  BY DEF IInv
<1> QED
  BY RetryInvariant, <1>1, PTL

\* A step that starts another attempt follows a transient error.
THEOREM RetryReplaysOnlyTransient == Spec => ReplaysOnlyTransient
<1>1. IInv /\ [Next]_vars
        => [attempt' # attempt => last = "transient" /\ ret = "none"]_vars
  BY DEF IInv, BudgetTypeOK, TypeOK, ControlInv, Next, FnReturns, CallReturns,
         EnterSelect, Return, Elapse, BackoffElapses, Cancel, BackoffCancelled,
         ContextEnds, vars, doVars
<1> QED
  BY RetryInvariant, <1>1, PTL DEF Spec, ReplaysOnlyTransient

------------------------------------------------------------------------------
(* Do ends *)

\* The most steps Do has left: two for every attempt, and once the context has
\* ended, the call in progress and what is left of the wait before it.
Left ==
    IF phase = "returned" THEN 0
    ELSE IF ctxDone THEN (IF phase = "call" THEN 1 ELSE 2)
    ELSE 2 * (Limit - attempt) + (IF phase = "call" THEN 2 ELSE 1)

LEMMA LeftType ==
    ASSUME IInv
    PROVE  Left \in 0..2 * Limit /\ (ctxDone => Left <= 2)
<1>1. Limit \in Nat /\ attempt \in 1..Limit /\ phase \in {"call", "backoff", "returned"}
  BY DEF IInv, BudgetTypeOK, TypeOK, Configs, Limit
<1>2. phase = "backoff" => attempt < Limit
  BY DEF IInv, ControlInv
<1> QED
  BY <1>1, <1>2 DEF Left

LEMMA LeftFalls ==
    ASSUME IInv, Next, phase # "returned"
    PROVE  Left' < Left
<1>1. Limit \in Nat /\ attempt \in 1..Limit /\ phase \in {"call", "backoff"} /\ ctxDone \in BOOLEAN
  BY DEF IInv, BudgetTypeOK, TypeOK, Configs, Limit
<1>2. phase = "backoff" => attempt < Limit
  BY DEF IInv, ControlInv
<1>3. Limit' = Limit
  BY DEF Next, FnReturns, CallReturns, Elapse, BackoffElapses, Cancel, BackoffCancelled,
         ContextEnds, Limit
<1>4. ASSUME NEW outcome \in Outcomes, FnReturns(outcome)
      PROVE  Left' < Left
  BY <1>1, <1>3, <1>4 DEF FnReturns, CallReturns, EnterSelect, Return, Left
<1>5. CASE Elapse
  BY <1>1, <1>2, <1>3, <1>5 DEF Elapse, BackoffElapses, Left
<1>6. CASE Cancel
  BY <1>1, <1>2, <1>3, <1>6 DEF Cancel, BackoffCancelled, Return, Left
<1>7. CASE ContextEnds
  BY <1>1, <1>2, <1>3, <1>7 DEF ContextEnds, Left
<1> QED
  BY <1>4, <1>5, <1>6, <1>7 DEF Next

\* Whatever fn answers Do has at most two steps for every attempt, and two once
\* the context has ended: it does not outlive its context by more than a call.
\* It is what DoReturns needs besides fairness (retry.go:47-70).
THEOREM RetryIsBounded ==
    Spec => /\ [](Left \in 0..2 * Limit /\ (ctxDone => Left <= 2))
            /\ [][phase # "returned" => Left' < Left]_vars
<1>1. IInv => Left \in 0..2 * Limit /\ (ctxDone => Left <= 2)
  BY LeftType
<1>2. IInv /\ [Next]_vars => [phase # "returned" => Left' < Left]_vars
  BY LeftFalls
<1> QED
  BY RetryInvariant, <1>1, <1>2, PTL DEF Spec

=============================================================================
