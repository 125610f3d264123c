------------------------------ MODULE MCOracle ------------------------------
(* Two runs, and prices that convert to too little, to two factors in one    *)
(* band and to one out of the band of a third. The runs' environments are    *)
(* the defaults but for what is named.                                       *)
EXTENDS Oracle

At(n) == [num |-> n, den |-> 4000]

MCThresholdHigh == At(2000)
MCThresholdMid == At(200)
MCRatio == [num |-> 3, den |-> 1]

MCRuns == 1..2
MCPrices == {[num |-> 1, den |-> 8001], At(400), At(500), At(2000)}

Defaults ==
    [UNORDERED |-> Empty, UNORDERED_TIMEOUT |-> Empty, FORCE_UPDATE |-> Empty,
     DRY_RUN |-> Empty, numbers |-> Empty, required |-> Required,
     SLACK_WEBHOOK_URL |-> FALSE, SLACK_LOG_LEVEL |-> ""]

Slack(e) == [e EXCEPT !.SLACK_WEBHOOK_URL = TRUE]
Forced(e) == [e EXCEPT !.FORCE_UPDATE = TRUE]
Ordered(e) == [e EXCEPT !.UNORDERED = FALSE]
Dry(e) == [e EXCEPT !.DRY_RUN = TRUE]

\* A timeout that is over when the tx is built.
Expired(e) == [e EXCEPT !.UNORDERED_TIMEOUT = -1]

UnorderedEnvs ==
    {Slack(Defaults), Forced(Defaults), Dry(Defaults), Forced(Expired(Defaults))}

OrderedEnvs == {Ordered(Defaults), Ordered(Forced(Defaults)), Ordered(Dry(Defaults))}

\* UNORDERED may change from run to run.
TurnEnvs == UnorderedEnvs \union {Ordered(Defaults)}

MixedEnvs ==
    {Slack(Defaults), Slack(Ordered(Defaults)), Ordered(Forced(Defaults)),
     Slack(Expired(Defaults)), Slack(Dry(Defaults)),
     [Slack(Defaults) EXCEPT !.UNORDERED_TIMEOUT = MaxTimeout + 1],
     [Slack(Defaults) EXCEPT !.DRY_RUN = Garbage, !.SLACK_LOG_LEVEL = "error"]}

=============================================================================
