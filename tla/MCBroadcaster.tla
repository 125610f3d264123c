---------------------------- MODULE MCBroadcaster ----------------------------
(* One call of BroadcastAndConfirm with the program's retry configuration.   *)
(* A second tx is there for what a caller that signs again would send.       *)
EXTENDS Broadcaster

CONSTANTS t1, t2

MCTxs == {t1, t2}
\* retry.Broadcast()
MCRetryCfg == [Attempts |-> 2, Backoff |-> 500]

=============================================================================
