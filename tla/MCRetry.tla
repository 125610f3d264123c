------------------------------- MODULE MCRetry -------------------------------
(* retry.Do with the program's two configurations, with fetchPage's four     *)
(* attempts, and with the attempt counts Do turns into 1.                    *)
EXTENDS RetryBudget

MCConfigs ==
    {Default, Broadcast}
        \union {[Attempts |-> n, Backoff |-> 500] : n \in {-1, 0, 1, 4}}

=============================================================================
