----------------------------- MODULE Submission -----------------------------
(***************************************************************************)
(* What BroadcastAndConfirm promises its caller: one tx meets one fate, and  *)
(* a verdict other than "unconfirmed" names a fate that is settled and so    *)
(* can never be contradicted. "unconfirmed" promises nothing.                *)
(***************************************************************************)
VARIABLES
    fate,     \* "open" until the tx has "landed" or is "dead": it failed in a
              \* block or never can be in one
    verdict   \* what the caller has been told, "none" before

subVars == <<fate, verdict>>

Init ==
    /\ fate \in {"open", "dead"}
    /\ verdict = "none"

Settle ==
    /\ fate = "open"
    /\ fate' \in {"landed", "dead"}
    /\ UNCHANGED verdict

Fits(v) ==
    CASE v = "success"       -> fate = "landed"
      [] v = "deliverFailed" -> fate = "dead"
      [] v = "rejected"      -> fate = "dead"
      [] v = "unconfirmed"   -> TRUE

Report ==
    /\ verdict = "none"
    /\ verdict' \in {"success", "deliverFailed", "rejected", "unconfirmed"}
    /\ Fits(verdict')
    /\ UNCHANGED fate

Next == Settle \/ Report

\* The caller is told something, sooner or later.
Spec == Init /\ [][Next]_subVars /\ WF_subVars(Report)

=============================================================================
