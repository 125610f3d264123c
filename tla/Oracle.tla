------------------------------- MODULE Oracle -------------------------------
(***************************************************************************)
(* Runs of the program (run() of cmd/oracle), one CronJob pod each, against  *)
(* one chain. A run loads its config, reads a price, computes a factor,      *)
(* compares it with the params on chain, looks up its account, estimates     *)
(* fees, tells Slack of them, signs and submits; between any two of its      *)
(* calls the chain and the other runs go on. What BroadcastAndConfirm tells  *)
(* it is module Submission's Report.                                         *)
(*                                                                          *)
(* One clock serves the pods and the block times; its unit is arbitrary.     *)
(***************************************************************************)
EXTENDS FactorUpdates, Config, FiniteSets

CONSTANTS
    Runs,          \* 1..n, in the order they start
    Envs,          \* the environments a run may find
    OneAtATime,    \* a run starts only when the one before it has ended
    Buffer,        \* main.go's 5 seconds
    OrderedBudget, \* main.go's 2 minutes
    MaxTime        \* bound of the clock

ASSUME OracleAssumption ==
    /\ Runs \subseteq Nat
    /\ Envs \subseteq Environments
    /\ OneAtATime \in BOOLEAN
    /\ {Buffer, OrderedBudget, MaxTime} \subseteq Nat

VARIABLES
    now,
    seq,       \* the oracle account's sequence
    landed,    \* runs whose tx changed the factor
    strays,    \* those whose tx did so after they had ended (for the properties)
    dead,      \* runs whose tx failed in a block or was never valid
    pc,        \* where a run is
    env,       \* its environment
    cfg,       \* the config it loaded
    price,     \* the price it fetched
    deadline,  \* of its submit context
    account,   \* the sequence it looked up
    signed,    \* its signed tx, NoTx before
    sent,      \* runs whose tx may have left the pod
    verdict,   \* what BroadcastAndConfirm returned
    outcome,   \* how it ended: updated and skipped exit 0, the others 1
    posted     \* the kinds of line it has posted to Slack, delivered or not

chainVars == <<factor, last, seq, landed, strays, dead>>
runVars == <<pc, env, cfg, price, deadline, account, signed, sent, verdict, outcome, posted>>
vars == <<now, chainVars, runVars>>

Stages ==
    {"idle", "fetching", "reading", "building", "estimating", "notifying", "confirming", "ended"}
Outcomes == {"updated", "skipped", "failed", "unconfirmed"}
NoTx == [seq |-> -1, expiry |-> -1]

TypeOK ==
    /\ factor \in {Unset} \union [definition : Nat \ {0}, converted : Nat \ {0}]
    /\ last \in [price : Prices \union {NoUpdate.price}, forced : BOOLEAN]
    /\ {now, seq} \subseteq Nat
    /\ strays \subseteq landed /\ landed \subseteq Runs /\ dead \subseteq Runs
    /\ pc \in [Runs -> Stages]
    /\ env \in [Runs -> Envs]
    /\ cfg \in [Runs -> Configs]
    /\ price \in [Runs -> Prices \union {NoUpdate.price}]
    /\ deadline \in [Runs -> Int]
    /\ account \in [Runs -> Nat]
    /\ signed \in [Runs -> [seq : Nat \union {-1}, expiry : Int]]
    /\ sent \subseteq Runs
    /\ verdict \in [Runs -> {"none", "success", "deliverFailed", "rejected", "unconfirmed"}]
    /\ outcome \in [Runs -> Outcomes \union {"none"}]
    /\ posted \in [Runs -> SUBSET Lines]

OracleInit ==
    /\ Init
    /\ now = 0 /\ seq = 0
    /\ landed = {} /\ strays = {} /\ dead = {}
    /\ pc = [r \in Runs |-> "idle"]
    /\ env \in [Runs -> Envs]
    /\ cfg = [r \in Runs |-> Load(env[r])]
    /\ price = [r \in Runs |-> NoUpdate.price]
    /\ deadline = [r \in Runs |-> 0]
    /\ account = [r \in Runs |-> 0]
    /\ signed = [r \in Runs |-> NoTx]
    /\ sent = {}
    /\ verdict = [r \in Runs |-> "none"]
    /\ outcome = [r \in Runs |-> "none"]
    /\ posted = [r \in Runs |-> {}]

------------------------------------------------------------------------------
(* A run *)

\* The log lines of a segment: those that pass the filter go to Slack, and the
\* run goes on whether they arrive or not.
Log(r, lines) ==
    posted' = [posted EXCEPT ![r] = @ \union {l \in lines : Notifies(cfg[r], l)}]

Goto(r, stage, lines) ==
    /\ pc' = [pc EXCEPT ![r] = stage]
    /\ Log(r, lines)
    /\ UNCHANGED outcome

End(r, result, lines) ==
    /\ pc' = [pc EXCEPT ![r] = "ended"]
    /\ outcome' = [outcome EXCEPT ![r] = result]
    /\ Log(r, lines)

\* The config is not ok, which is reported, or the run goes on.
Start(r) ==
    /\ pc[r] = "idle"
    /\ \A q \in Runs : q < r => IF OneAtATime THEN pc[q] = "ended" ELSE pc[q] # "idle"
    /\ IF cfg[r].ok THEN Goto(r, "fetching", {"banner"}) ELSE End(r, "failed", {"error"})
    /\ UNCHANGED <<now, chainVars, env, cfg, price, deadline, account, signed, sent, verdict>>

\* No price: the fetch fails, or the window holds no trades.
NoPrice(r) ==
    /\ pc[r] = "fetching"
    /\ End(r, "failed", {"error"}) \/ End(r, "skipped", {"warn"})
    /\ UNCHANGED <<now, chainVars, env, cfg, price, deadline, account, signed, sent, verdict>>

\* The lines of a price that was fetched, and of the guards being bypassed.
PriceLines(c) == IF c.force THEN {"info", "warn"} ELSE {"info"}

\* A price, from a window with enough trades and volume or not.
FetchPrice(r, p, liquid) ==
    /\ pc[r] = "fetching"
    /\ price' = [price EXCEPT ![r] = p]
    /\ \/ ~liquid /\ ~cfg[r].force /\ End(r, "skipped", {"info", "warn"})
       \/ (liquid \/ cfg[r].force) /\ Refuses(p) /\ End(r, "failed", PriceLines(cfg[r]) \union {"error"})
       \/ (liquid \/ cfg[r].force) /\ ~Refuses(p) /\ Goto(r, "reading", PriceLines(cfg[r]))
    /\ UNCHANGED <<now, chainVars, env, cfg, deadline, account, signed, sent, verdict>>

\* The submit phase ends with the tx's own timeout.
NoBuffer(c) == IF c.unordered THEN c.timeout ELSE OrderedBudget

submitTimeout(c) == IF c.unordered THEN c.timeout + Buffer ELSE OrderedBudget

\* Due whenever it is another factor.
DueIfChanged(r) == Compute(price[r]) # factor

Due(r) == Updates(price[r], factor, cfg[r].force)

\* The line of a skip: nothing to do, or a price out of the band.
SkipLine(r) == IF Compute(price[r]) = factor THEN "info" ELSE "warn"

\* The params come back: the factor is the one already there, or out of the
\* band, or due for an update, whose clock starts now.
ReadParams(r) ==
    /\ pc[r] = "reading"
    /\ \/ /\ ~Due(r)
          /\ End(r, "skipped", {SkipLine(r)})
          /\ UNCHANGED deadline
       \/ /\ Due(r)
          /\ Goto(r, "building", {})
          /\ deadline' = [deadline EXCEPT ![r] = now + submitTimeout(cfg[r])]
    /\ UNCHANGED <<now, chainVars, env, cfg, price, account, signed, sent, verdict>>

\* The account's sequence for an ordered tx; an unordered one needs only the
\* account number.
LookUpAccount(r) ==
    /\ pc[r] = "building"
    /\ now <= deadline[r]
    /\ account' = [account EXCEPT ![r] = seq]
    /\ Goto(r, "estimating", {})
    /\ UNCHANGED <<now, chainVars, env, cfg, price, deadline, signed, sent, verdict>>

\* The fees come back and are logged.
EstimateFees(r) ==
    /\ pc[r] = "estimating"
    /\ now <= deadline[r]
    /\ Goto(r, "notifying", {"info"})
    /\ UNCHANGED <<now, chainVars, env, cfg, price, deadline, account, signed, sent, verdict>>

\* BuildUnordered stamps the timeout, BuildOrdered the sequence.
Build(r) ==
    IF cfg[r].unordered THEN [seq |-> -1, expiry |-> now + cfg[r].timeout]
    ELSE [seq |-> account[r], expiry |-> -1]

\* The log call is over, after whatever time, and the tx is built and signed. A
\* dry run stops here; with the context over nothing is sent any more.
Sign(r) ==
    /\ pc[r] = "notifying"
    /\ signed' = [signed EXCEPT ![r] = Build(r)]
    /\ IF cfg[r].dryRun
       THEN End(r, "skipped", {"info"}) /\ UNCHANGED sent
       ELSE /\ Goto(r, "confirming", {})
            /\ sent' = IF now <= deadline[r] THEN sent \union {r} ELSE sent
    /\ UNCHANGED <<now, chainVars, env, cfg, price, deadline, account, verdict>>

\* A query, an address check or the signer fails, with or without retries.
Fails(r) ==
    /\ pc[r] \in {"reading", "building", "estimating", "notifying"}
    /\ End(r, "failed", {"error"})
    /\ UNCHANGED <<now, chainVars, env, cfg, price, deadline, account, signed, sent, verdict>>

\* A sent tx can be in a later block while its sequence is the account's or its
\* timeout is not over.
Valid(r) == IF cfg[r].unordered THEN now <= signed[r].expiry ELSE signed[r].seq = seq

Fate(r) ==
    IF r \in landed THEN "landed"
    ELSE IF r \in dead \/ ~Valid(r) THEN "dead"
    ELSE "open"

Call(r) == INSTANCE Submission WITH fate <- Fate(r), verdict <- verdict[r]

\* Every verdict but success is a failure.
NotConfirmedFailed(v) == IF v = "success" THEN "updated" ELSE "failed"

OutcomeOf(v) ==
    CASE v = "success"                        -> "updated"
      [] v = "unconfirmed"                    -> "unconfirmed"
      [] v \in {"deliverFailed", "rejected"}  -> "failed"

\* A tx that is not confirmed is a warning, not an alarm.
LineOf(v) ==
    CASE v = "success"                        -> "info"
      [] v = "unconfirmed"                    -> "warn"
      [] v \in {"deliverFailed", "rejected"}  -> "error"

\* BroadcastAndConfirm returns; unconfirmed only when its context is over, and
\* always so when that kept the tx from being sent.
Report(r, v) ==
    /\ pc[r] = "confirming"
    /\ Call(r)!Fits(v)
    /\ v = "unconfirmed" => now >= deadline[r]
    /\ r \notin sent => v = "unconfirmed"
    /\ verdict' = [verdict EXCEPT ![r] = v]
    /\ End(r, OutcomeOf(v), {LineOf(v)})
    /\ UNCHANGED <<now, chainVars, env, cfg, price, deadline, account, signed, sent>>

RunStep(r) ==
    \/ Start(r)
    \/ NoPrice(r)
    \/ \E p \in Prices, liquid \in BOOLEAN : FetchPrice(r, p, liquid)
    \/ ReadParams(r)
    \/ LookUpAccount(r)
    \/ EstimateFees(r)
    \/ Sign(r)
    \/ Fails(r)
    \/ \E v \in {"success", "deliverFailed", "rejected", "unconfirmed"} : Report(r, v)

------------------------------------------------------------------------------
(* The chain *)

\* A tx that is executed uses its sequence up, whether it succeeds or not.
Lands(r) ==
    /\ r \in sent /\ Fate(r) = "open"
    /\ landed' = landed \union {r}
    /\ strays' = IF pc[r] = "ended" THEN strays \union {r} ELSE strays
    /\ factor' = Compute(price[r])
    /\ last' = [price |-> price[r], forced |-> cfg[r].force]
    /\ seq' = IF cfg[r].unordered THEN seq ELSE seq + 1
    /\ UNCHANGED <<now, dead, runVars>>

Dies(r) ==
    /\ r \in sent /\ Fate(r) = "open"
    /\ dead' = dead \union {r}
    /\ seq' \in IF cfg[r].unordered THEN {seq} ELSE {seq, seq + 1}
    /\ UNCHANGED <<now, factor, last, landed, strays, runVars>>

\* Time waits for no run.
Tick ==
    /\ now < MaxTime
    /\ now' = now + 1
    /\ UNCHANGED <<chainVars, runVars>>

OracleNext ==
    \/ \E r \in Runs : RunStep(r)
    \/ \E r \in Runs : Lands(r) \/ Dies(r)
    \/ Tick

OracleSpec == OracleInit /\ [][OracleNext]_vars

------------------------------------------------------------------------------
(* Properties *)

\* What a run reports stays true: after "updated" its tx is on chain, after
\* "failed" or "skipped" it is not and never will be, a dry run's least of all
\* (main.go:229-248).
OutcomesAreHonest ==
    \A r \in Runs :
        /\ outcome[r] = "updated" => r \in landed
        /\ outcome[r] \in {"failed", "skipped"} => r \notin landed

\* How long after its submit context was made an unordered run built its tx.
BuildTime(r) == (signed[r].expiry - cfg[r].timeout) - (deadline[r] - submitTimeout(cfg[r]))

\* The buffer was gone when the tx was built, with the account and fee queries,
\* their retries and the Slack call before it; the code allows that.
Late(r) == cfg[r].unordered /\ r \in sent /\ BuildTime(r) >= Buffer

\* An unordered run that gives up leaves a tx that can still be executed only if
\* it was built late, whatever UNORDERED_TIMEOUT is, and then for no longer than
\* that timeout (main.go:216-222; submit.go:61-83).
OpenOnlyIfLate ==
    \A r \in Runs :
        cfg[r].unordered /\ pc[r] = "ended" /\ r \in sent /\ Fate(r) = "open"
        => Late(r) /\ now <= deadline[r] + cfg[r].timeout

\* A default that stands in for a variable that does not parse never sends a
\* tx, least of all in what was to be a dry run (config.go:103-166, 193-208).
OnlyAsConfigured ==
    \A r \in sent :
        /\ env[r].DRY_RUN \in {FALSE, Empty}
        /\ Garbage \notin {env[r].UNORDERED, env[r].UNORDERED_TIMEOUT, env[r].numbers}
        /\ cfg[r].force => env[r].FORCE_UPDATE = TRUE
        /\ signed[r].expiry - now <= MaxTimeout

\* Where Slack is configured the runs that post an error are those that fail, a
\* config that does not load included, whatever SLACK_LOG_LEVEL is: a tx that is
\* left unconfirmed and a skipped update raise no alarm. Whether a post arrives
\* is not the program's to know (main.go:43-57, 229-248; slack.go:146-157).
ErrorsAreFailures ==
    \A r \in Runs : cfg[r].slack => ("error" \in posted[r] <=> outcome[r] = "failed")

\* With runs one at a time an older run's update lands over a newer one's only
\* if it was built late, or is an ordered one over an unordered one, after
\* UNORDERED was changed (main.go:229-240).
NoStaleOverwrite ==
    [][\A r \in landed' \ landed, q \in landed :
          r < q => Late(r) \/ (~cfg[r].unordered /\ cfg[q].unordered)]_vars

\* With runs one at a time, and until a tx lands that its run had given up on,
\* each change of the factor on chain is due against the factor it replaces: a
\* different one, and in the band unless forced (main.go:159-183).
KeepsFactorPromise == [][strays' = {} => Next]_factorVars

\* "a computed price > Nx or < 1/Nx the on-chain price, the update is refused"
\* (config.go:85-88): as a step of the chain.
UpdatesStayInBand ==
    [][factor' # factor /\ ~last'.forced => WithinBand(last'.price, factor)]_vars

\* DRY_RUN "never signs or broadcasts the tx" (config.go:60-61).
DryRunNeverSigns ==
    \A r \in Runs : cfg[r].dryRun => signed[r] = NoTx

=============================================================================
