# A TLA+ model of flatfees-oracle

The program runs once per invocation: it fetches a week of HASH-USD trades,
computes a volume-weighted price, turns it into the `x/flatfees` conversion
factor and, when the factor on chain should change, submits one signed
transaction and waits for it. This directory holds models of its parts, the TLC
configurations that check them, and proofs that TLAPS checks.

Paths below are relative to `src/`.

## 1. The system

| Component | State it keeps | Operations | Hard behaviour |
|---|---|---|---|
| `internal/retry` | attempt counter, last error | `Do`, `IsRetryable` | context against timer in one `select`, attempt limits |
| `internal/tx/broadcast.go` | the signed bytes, the classified broadcast error, the hash it polls | `Broadcast`, `Confirm`, `BroadcastAndConfirm`, `recoveryHash` | lost acks, replays, late requests, duplicates, deadlines |
| Provenance node (external) | mempool, duplicate cache, chain, sequence or timeout protection | `BroadcastTx`, `GetTx`, blocks | restarts, evictions, refusals |
| `internal/price` (fetch) | cursor, trades collected, keys seen | `fetchAll`, `fetchPage`, `doFetch` | page order, boundary overlap, ties, retries, termination |
| `internal/price` (aggregation) | none | `GetPrice`, `window`, `VWAP`, `totalVolume` | quotes that do not parse, quantities of zero and below, daylight saving time |
| `internal/convert` | none | `Compute`, `selectTier`, `roundHalfUp` | tier borders, rounding to zero |
| `internal/guard` | none | `CheckMovement`, `CheckLiquidity` | exact price against a rounded one |
| `internal/chain` | none | `CurrentParams`, `EstimateTxFees`, `AccountInfo`, `SameFactor`, `ImpliedPrice` | answers go stale |
| `internal/tx/signer.go`, `submit.go` | signed tx | `SubmitOrdered`, `SubmitUnordered`, `Build*` | sequence or timeout fixed at build time |
| `cmd/oracle` `run()` | where the run is, its deadlines, its exit | the pipeline | unconfirmed exits, retried jobs, two runs at a time |
| `internal/config` | the configuration, the errors collected while parsing | `Load`, `getBool` and the like | defaults for what does not parse, boundary values |
| `internal/logging` | message ids, the Slack notifier | `New`, `log`, `notify`, sanitizer | a notification takes time outside every deadline, and may not arrive |
| the CronJob and the market (external) | the price from day to day | a run a day, `FORCE_UPDATE` by hand | failed days, lockout by the movement guard |

`run()` calls the others in turn: `price.GetPrice`, `guard.CheckLiquidity`,
`convert.Compute`, `chain.CurrentParams`, `chain.SameFactor`,
`guard.CheckMovement`, then `tx.Submitter`, which calls the account and fee
queries, the signer and `BroadcastAndConfirm`. Each remote read and the
broadcast go through `retry.Do`; `fetchPage` has a loop of the same shape. The
program has one thread, so what interleaves with it is the node, the network,
the clock, and other runs of the same program.

What makes each part correct:

* **retry** - returns what the last call said; never replays a permanent error;
  waits linearly; makes no more than one call once the context is over; ends.
* **broadcaster** - a verdict other than "unconfirmed" is the truth and stays
  it; it polls for its own transaction; it ends by its context.
* **price fetch** - every trade of the window once, nothing else; ends.
* **price aggregation** - the average is of whole Eastern days, the far one
  included, and lies among the prices paid; an error is never reported as a quiet
  window.
* **convert and guard** - the factor implies its price up to the rounding, on
  both sides of a threshold; an unforced update moves the implied price by no
  more than the band and the rounding; a market that moves within the band is
  never locked out.
* **config and logging** - a variable that does not parse never steers a run; the
  runs that post an error to Slack are those that fail.
* **run()** - how it ends is true of the chain and stays true; an unordered run
  that gives up leaves something that may still land only if it built it late;
  until that happens no update lands over a newer one, and each change of the
  factor was due against the factor it replaces.

`PROJECT.json` lists the hazards, each at its line with the properties that
cover it.

## 2. Modules

```
Retry ------- RetryBudget ------ RetryProofs
  |  (INSTANCE: Do)
  +--------- Broadcaster ------- BroadcasterProofs
  |            |  EXTENDS TxNode, implements Submission
  |  (INSTANCE: Page)
  +--------- PriceFetch -------- PriceFetchProofs
               |
Window ---- PriceResult -------- PriceResultProofs

Convert ----- FactorUpdates ---- FactorUpdatesProofs
               |  |                |             |
               | Market ------- MarketProofs     |
Logging ----- Config                             |
               |                                 |
              Oracle -------- OracleProofs ---- OracleTimingProofs
               (implements FactorUpdates, relies on Submission)
```

**Retry** has `retry.Do`'s control as actions: `CallReturns(outcome)` is the
return of `fn`, with the class `IsRetryable` gives its error; `EnterSelect` the
head of the next iteration; `BackoffElapses` and `BackoffCancelled` the two
branches of the `select`, either of which may be taken once the context is done
and the timer has fired. The code tests the context only in that `select`, and
so does the model. The variable `cfg` can be instantiated by a constant.
**RetryBudget** runs it alone, with any `fn` and any context, and history
variables for the time waited and the calls started late.

**TxNode** is the node as the broadcaster meets it. It is external; `NodeFaults`
names what it may do beyond its duty: lose its duplicate cache in a restart,
evict a valid transaction, refuse one for being full, omit a hash.
**Broadcaster** is `BroadcastAndConfirm`. A request is a record on the wire that
the node may handle at any later time or never; an answer reaches the client
only while the attempt it belongs to is running. `CallFails` covers an error
before and after the node handled the request, which is what makes an ack lost.
A transaction stands for the hash of its bytes, so `ComputeTxHash` is `txBytes`
and the node's hash is the hash of what it was sent, or nothing.
`BroadcastReturns` is the classification and the branch of lines 174-192 in one
step, as the program has no call in between. **Submission** is the abstract
promise: one transaction with one fate, one report that fits it.

**PriceFetch** is `fetchAll` over `fetchPage`. The API is external and answers
with the `PageSize` oldest trades from the cursor on, in any order; which of the
trades that tie for the last place it picks is its choice. `PageFails` covers
`doFetch`'s errors by class, `Collect` the body of the loop after a page.
Trades are model values with a creation time; the key of a trade without an id
is its time, the other fields being alike.

**Window** is `window()`: hours from a midnight UTC, a calendar of days whose
midnights are `EDT` or `EDT + 1` hours behind UTC, and the window of `WindowDays`
days of `DayHours` hours that ends at the last of them. **PriceResult** is
`GetPrice` over what `fetchAll` collected: `Returned` is its exit (the fetch's
error, `ErrNoTrades`, an error for a quote that does not parse, a price), `VWAP`
and `totalVolume` the sums over the trades of positive quantity. A quote is an
integer in the API's smallest unit, or `Garbage`. It has no steps of its own: its
properties are of the states of `PriceFetch`, so that they speak of every way the
window can be cut into pages.

**Convert** has `selectTier`, `Compute`, `roundHalfUp`, `ImpliedPrice`, the band
of `CheckMovement` and the skip-if-unchanged test in exact rationals, as the
code has them in `big.Rat`. The scales are constants with the relation the code's
have: a tier begins where its scale gives `MinDefinition` musd. **FactorUpdates**
is the abstract promise to the chain: the factor changes only by an update that
is due. **Market** puts it beside a price that moves from day to day: `Midnight`
is the window moving on, `Lands` a run of the day whose update lands, and a run
that fails or skips is a day without `Lands`. `drift` is what `DailyMove` has
compounded to since the factor was the price's conversion, `quiet` that the band
still has room for it; both are there for the properties.

**Logging** has the levels, `parseLevel` and the filters of the four `Notify`
functions and of the startup banner: which log line is also posted to Slack. The
banner has no filter, errors pass every level. **Config** is `config.Load` from a
run's environment. The variables that steer `run()` have values, `Empty` or
`Garbage`; `numbers` stands for the others that are parsed, which only have to
parse; `get` returns the default for what does not, `HasError` is the error
tracker, and `Load` returns the config with `ok` false where the code returns it
with an error.

**Oracle** is `run()` with `Submitter` for any number of runs, each with an
environment of its own. Its actions are the segments of `run()` between two
remote calls: `Start` (43-62: the config, or its error and exit), `FetchPrice`
and `NoPrice` (lines 71-124; whether the window is liquid is a choice),
`ReadParams` (150-183, and the start of the submit deadline), `LookUpAccount`,
`EstimateFees` (the fee query and the log line that follows it), `Sign` (`Build*`
with the timeout counted from that moment, and the dry-run exit), `Report` (the
verdict of `BroadcastAndConfirm` and the exits of 229-248). `Fails` is any query,
address check or signer error on the way. Between `EstimateFees` and `Sign` the
run is inside the log call.

Time passes freely (`Tick`): a query may take until the submit context is over,
and the log call, which is under no context of the run, longer than that. `Sign`
then still builds and signs, but nothing is sent any more (`sent` has the runs
whose transaction may have left the pod) and `Report` can only be "unconfirmed".
`posted` has the kinds of line a run has posted to Slack. A post is one attempt
whose result no one looks at, so that `posted` says nothing of what arrived.
`strays` has the transactions that landed after their run had ended; it is there
for the properties, and no action reads it.

`Report` uses `Submission`'s `Fits`: the promise `Broadcaster` is shown
to keep is what `Oracle` relies on. A sent transaction may land at any time while
it is valid, or never.

## 3. Runs

| Run | Question | Result |
|---|---|---|
| `retry_budget` | what a caller of `Do` may rely on | holds, 150 states |
| `broadcast_any_node` | honest verdicts with a node that does all of `NodeFaults` | holds, 2492 states |
| `broadcast_promise` | does `BroadcastAndConfirm` implement `Submission`, with a node that may evict | holds, 1538 states |
| `reject_after_restart` | "the tx did NOT enter the mempool" with a restarting node | violated |
| `unconfirmed_unsent` | "`ErrConfirmTimeout` means Broadcast succeeded" | violated |
| `fetch_window` | every trade once, whatever the page order, and what is made of them | holds, 106143 states |
| `fetch_ties` | the same when a moment fills a page | violated |
| `factor_updates` | rounding, tiers and band over sequences of updates; does the factor follow the market | holds, 4943 states |
| `oracle_in_turn` | two runs in turn, of either kind, with queries and log calls that take any time | holds, 1.7 million states |
| `oracle_overlap` | two runs at the same time, ordered or not, with environments that may not parse | holds, 4.0 million states |
| `stale_guard` | is the band kept by what lands, ordered runs in turn | violated |
| `dry_run_signs` | "never signs" | violated |

### What the violations show

* `unconfirmed_unsent`: the context ends before an attempt is sent (or both
  attempts fail on the wire), the recovery poll times out, and the error wraps
  `ErrConfirmTimeout`, whose comment and whose handling in `main.go` say that the
  node has the transaction.
* `reject_after_restart`: the first attempt is accepted and included, its ack is
  lost, the node restarts; the replay is refused by replay protection and the
  caller gets `ErrCheckTxRejected` for a transaction that is on chain.
* `fetch_ties`: with `PageSize` trades at one moment the cursor stays there, the
  next page has nothing new, and the fetch succeeds without the later trades.
* `stale_guard`: the first ordered run gives up on a transaction that has no
  timeout; it lands after the second run's guard and before its sequence query.
  The second update follows, out of the band of the factor it replaces.
* `dry_run_signs`: `Submitter` signs before it looks at `DryRun`. Nothing is sent.

### Bounds

`MCRetry` uses the program's two configurations, `fetchPage`'s four attempts and
the counts -1, 0, 1. `MCBroadcaster` has the program's two attempts; the second
transaction is there for what a faulty caller would send, and a single caller's
behaviour does not depend on others'. `MCPriceFetch` has six trades at six
moments with pages of three: a window of three pages, a page that ends inside a
group of ties, stray trades on both sides and two trades without ids. The order
of the trades' times is fixed for part of them. One price does not parse, one
quantity is negative and one zero, and which of them are in the window is the
book's choice. The calendar has days of two hours and a window of two days; the clocks
go back in the second of them, so that the window starts an hour away from the far
day's midnight. `MCFactorUpdates` lets a quiet day move the price by half as
much again, in a band of 3: there is room for two days without a run and not for
three.
`MCFactorUpdates` and `MCOracle` scale the tiers by 10 in place of 1000, since
TLC's integers are 32 bits wide; every half step next to the borders is in the set.
`MCOracle` has two runs and a clock of five ticks in turn, four side by side: one
transaction that outlives its run and one run after or beside it are what the
properties are about. A timeout is one tick and the `Buffer` two, so that there
are builds in time, builds on the last tick of the buffer, builds when it is gone
and builds when the submit context is over, and `MaxTime` leaves room for a run
that gives up and a run after it. The environments of `TurnEnvs` and `MixedEnvs`
are the defaults and the defaults with some variables changed, for each way of
changing them that `run()` tells apart: forced, dry, ordered, a timeout below
zero and one above the chain's, Slack, a `DRY_RUN` that does not parse with Slack
at its error level.

`CHECK_DEADLOCK FALSE` is set in every cfg because each of the systems ends:
`Do` returns, the call has its verdict, the fetch its result, the runs their
exits.

### Fairness

`RetryBudget`: the context has a deadline and a call returns once it is over
(gRPC's contract), timers fire. `Broadcaster`: the same; of the node nothing is
assumed, and a poll is assumed to return only once the context is over.
`PriceFetch`: an HTTP call ends by the client's own timeout; the context need
not end. `Market`: an update that is due without being forced lands some time,
as the CronJob runs every day and not every run fails; the market is under no
obligation, and no one has to force a run. `Oracle` is checked for safety only.

## 4. Proofs

| Module | What is proved, for every value of the constants |
|---|---|
| `RetryProofs` | the safety properties of `retry_budget`; `Do` takes a bounded number of steps, and two once its context is over |
| `BroadcasterProofs` | the safety properties of both broadcast runs and the safety part of the refinement of `Submission`; no more than three steps from the end of the context to the verdict |
| `PriceFetchProofs` | type and `CountedOnce` for every book; `Complete` and `CursorAdvances` where ties fit a page; paging takes a bounded number of steps and is never stuck |
| `PriceResultProofs` | `QuietWindowIsEmpty`, `AveragesWholeDays`, `AveragesPrices`; on how many days' runs a trade is averaged; what the loops of `VWAP` and `totalVolume` add up to |
| `FactorUpdatesProofs` | `TracksThePrice`, `FollowsThePrice`, `MovesAreBounded` of any sequence of updates |
| `MarketProofs` | `NeverLockedOut`; in a quiet market only a landing is missing; a market's updates are updates of `FactorUpdates` |
| `OracleProofs` | type, `OutcomesAreHonest`, `OnlyAsConfigured` and `ErrorsAreFailures`, for any number of runs, ordered or not, in turn or not, and any environments; a run sees steps of `Submission` |
| `OracleTimingProofs` | `TracksThePrice` and `FollowsThePrice` on the chain of any runs; `OpenOnlyIfLate` of any runs; of runs in turn, ordered or not, `NoStaleOverwrite`, and until a tx strays the refinement of `FactorUpdates`, the bound of a move and the band |

Where steps are involved each follows the same line: an inductive invariant,
`Init => IInv`, `IInv /\ [Next]_vars => IInv'`, and the properties from it.

* *Retry.* `ControlInv` ties the phase to the last outcome and `LateInv` says
  that `Do` never waits after a late call; with the second, one late call cannot
  be followed by another. The closed form of the linear backoff is a lemma.
  `RetryIsBounded` is a rank, `Left`, that every step before the return lowers
  and the end of the context cuts to two: a call and a wait that is cut short.
* *Broadcaster.* `OwnTxOnly` says that everything on the wire, in the mempool or
  on chain is the caller's own transaction, which makes replays harmless,
  `StageInv` ties the phase of `Do` to the stage of the call. The promise needs
  `PromiseInv` too: a transaction that waits or landed is still in the duplicate
  cache, so that a replay is answered "duplicate" and never "rejected". It holds
  only with `NodeAssumption` (a node that may evict but does not restart or refuse
  for being full); `reject_after_restart` shows that the assumption is needed.
  `Confirm` polls for as long as its context lives, so that only the steps after
  the context's end can be bounded, whatever the node does: `ReportIsNear`.
* *PriceFetch.* `CursorInv`: no trade of the window behind the cursor is missing.
  A full page that brings something new ends past the cursor, because the trades
  of one moment do not fill a page (`TiesAssumption`); `fetch_ties` shows that
  this assumption is needed for `Complete` and `CursorAdvances`. The invariant
  itself is not: that what is collected is of the window and counted once holds
  of every book. Nor is it needed for paging to end. `FetchIsBounded` is a rank
  that every step but the deadline's lowers: a further page is asked for only
  after a new trade, so that the trades still to come, each worth the steps of one
  page with all its attempts, pay for it. `FetchIsNeverStuck` is the other half:
  whatever was served, there is a page of the oldest eligible trades to serve, and
  in a page a choice of one trade for each new key and a newest trade.
* *PriceResult.* What `PriceFetch` is proved to collect (`Fetched`) is all that is
  needed: the properties are about what the code makes of it. The calendar part is
  arithmetic: midnights of the calendar lie `DayHours` apart up to an hour, so
  that `window()`, which counts its days in UTC, takes in every trade of the days
  it is about, the far one's but for an hour when the clocks have gone back since,
  and takes in an hour of the day before when they have gone forward
  (`AveragesWholeDays`; where the clocks were not moved it is exact). Hence
  `AveragedDayAfterDay`: a trade is in the average of `WindowDays - 1` to
  `WindowDays + 1` days' runs, and these follow each other. `PriceIsAnAverage` is
  about the sums of `VWAP`, folds over sets of trades. The library's induction
  theorems cannot be instantiated, but its theorem on minimal elements of
  well-founded relations can: `LeastNumber` and `LeastSubset` give a least
  counterexample, `SumExists` that the fold's recursion has a solution, so that
  the `CHOOSE` behind it takes one (`VolumesStep`, `AmountsStep`), and
  `AverageLies` that adding a trade of positive quantity keeps the average between
  two prices (`LowerIsBelow`, `HigherIsAbove`). In the same way `SumInAnyOrder`
  shows that the order is immaterial, and `LoopsAddUp` that the code's loops over
  the slice, in whatever order the pages brought the trades, end with the model's
  sums.
* *FactorUpdates.* `DefinitionIsNearest` bounds what `roundHalfUp` does by half a
  musd, and a tier's scale gives at least `MinDefinition`, so the rounding is one
  part in `2 * MinDefinition` of the price (`ImpliesItsPrice`). For `FollowsThePrice`
  the factors of two tiers are compared at the threshold between them, where both
  round to the same amount when the scales divide each other (`ScalesDivide`, as
  the program's do).
* *Market.* `MarketInv` says that the price is within `drift` of the one
  the factor was made from, `DriftInv` that `quiet` is "the band has room for
  drift": `NeverLockedOut` follows from both and the rounding bound. With it
  `OnlyALandingIsMissing`: in a quiet market the factor is the day's price's, or an
  update to it is due that nobody has to force, and landing makes it so. What is
  left of `Converges` is that some run lands.
* *Oracle.* `SequenceInv` (no sequence is ahead of the account's) and the
  timeout, which only recedes, make a fate other than open final, so that an exit
  that was true stays true (`ExitInv`). Nothing is assumed of how long the queries
  and the log calls of a run take. `TimedInv`: only the deadline makes a run give
  up, and what it sent was built before the deadline. From there it is arithmetic
  that a transaction built in the first `Buffer` of the submit context is expired
  when the run gives up, so that one that can still land was built late
  (`OnlyTheLateAreOpen`), and no later than the deadline, so that it can land for
  one timeout more at most. `StraysInv` carries that over to what lands after its
  run's end: it was built late or is ordered, and the run had said that it might.
  `QueueInv`: with runs one at a time those before the run under way are over;
  `SequencedInv`: an ordered run's sequence is no lower than those signed before
  it, and used up by its landing, so that an older one cannot land after it. Hence
  `NewestWins`: a stale overwrite needs a transaction built late, or an ordered one,
  left unconfirmed, over an unordered one of a later run, after `UNORDERED` was
  changed. `DueInv`: while no transaction has strayed, the factor an update was due
  against is still there when it lands, whichever kind it is. Hence
  `EveryUpdateWasDue`, the refinement of `FactorUpdates` up to the first stray, and
  with it the theorems about updates as theorems about the chain
  (`ChainMovesAreBounded`, `BandHoldsUntilStray`). The condition cannot go:
  `stale_guard` is what a stray does, and a late build may do the same to unordered
  runs. What does not depend on when an update lands needs none of this:
  `PricedInv`, a run carries a price it fetched, is enough for `ChainTracks` and
  `ChainFollows`, of ordered and overlapping runs too.
* *Oracle and Broadcaster.* `Oracle` uses `Submission`'s promise for the verdict of
  `BroadcastAndConfirm`. `RunsSeeSubmissions` is the check that it uses it rightly:
  projected on one run's transaction and verdict, each step of `Oracle` is a step
  of `Submission` or none, from the moment it is sent. It is the same module that
  `BroadcasterKeepsPromise` shows `Broadcaster` to implement.
* *Config and logging.* `LoadedInv`: a run past its start has an environment that
  loads; `ExpiryInv`: a sent tx's timeout was counted from a configured one that
  the chain accepts. `ErrorsAreFailures` is inductive with these: no step of a run
  that goes on posts an error, and an exit posts one exactly when it is a failure
  (`GotoPosts`, `EndPosts`).

Assumptions are the named `ASSUME`s of the modules and these, which are hypotheses
of the theorems that use them: `NodeAssumption`; `TiesAssumption`, of
`FetchComplete`, `FetchAdvances` and what `PriceResultProofs` says of the window;
`BandIsOn` for `MovesStayInBand` and `ChainMovesAreBounded`; `ScalesDivide` for
`FactorFollows` and `ChainFollows`; and `OneAtATime` for `NewestWins`,
`EveryUpdateWasDue` and the two theorems after it.

Only model-checked: the liveness properties (`DoReturns`, `Reports`, `FetchEnds`,
`Converges`) and the liveness part of `KeepsPromise`. They need fairness and with
it `ENABLED`, which the prover does not have. The part that is about the code and
not the scheduler is proved: `RetryIsBounded`, `ReportIsNear`, `FetchIsBounded`
with `FetchIsNeverStuck`, and `OnlyALandingIsMissing`. Each invariant of a passing
run is stated by a theorem, and each action property.

## 5. What is assumed and what is left out

* `Oracle` has one clock for the pods and the block times; a skew between them
  takes from the buffer like a slow query does. The time a query or a log call
  takes is not bounded: the code bounds the account and fee queries by the submit
  context only, which lasts `UNORDERED_TIMEOUT` and 5 seconds, and the log call by
  the notifier's own 3 seconds. Two calls of `retry.Do` with their backoffs of
  1.5 seconds and one Slack post make 6 already, so that an unordered transaction
  can be signed when the buffer is gone, and then outlive its run, as the
  comments at `main.go:231-233` and `broadcast.go:43-47` say it may. The properties
  name that case (`Late`, `strays`) and say what holds beside it.
* `NoStaleOverwrite` and `KeepsFactorPromise` are stated for runs one at a time,
  which is for the CronJob's `concurrencyPolicy` to see to (`README.md:74`; the
  manifests are not in the repository). For runs that overlap, `OutcomesAreHonest`,
  `OpenOnlyIfLate`, `OnlyAsConfigured` and `ErrorsAreFailures` are what remains.
* Whether a Slack post arrives (`slack.go:205-215` drops the error of one that does
  not) is no part of the program's state, so that nothing is claimed of it.
* `Oracle` takes `Submission`'s promise as kept, so the node of `NodeAssumption`.
* The two minutes that bound the price fetch and the params query show only as
  failures.
* `CheckLiquidity` is the choice `liquid` of `FetchPrice`: either answer is open to
  every price. Its two comparisons are not modelled; that what they compare is the
  window's trades, each once, is `CountedOnce` and `Complete`. `MIN_TRADES` counts
  trades of zero quantity too (`price.go:131`). Two trades without ids that agree
  in every field of the key are one trade to the code and to `Complete`.
* `PollsOwnTx` exempts an accepting answer without a hash: the code polls the empty
  string then (`broadcast.go:111`), and the call ends unconfirmed.
* Not modelled: the sanitizer of log lines (regular expressions over text, no
  state), message ids and the texts posted to Slack; keys, sign bytes and
  protobuf; the unpacking of query responses. They are pure data: no state of a
  run depends on them but through an error, and `Fails` is that error.

Where the docs and the code differ without a run of the models to show it:

* `README.md:69` says that the chain settings are "Required only when `DRY_RUN` is
  false"; `config.go:141-157` requires them in every mode. `Config` has the code's.
* `config.go:74` says that the unordered timeout "must be less than 5 minutes";
  the test at line 159 is `>`, so that five minutes pass. `MaxTimeout` is included in the model.
* The comment at `price.go:138` says that unparseable quantities are excluded
  from the volume; line 146 returns an error for one, and so does the model.

## 6. Plan

1. *Done*: `Retry`, `Broadcaster` with `TxNode` and `Submission`, `PriceFetch`;
   `Convert`, `FactorUpdates` and `Oracle`; the proofs about them, down to the
   refinement of `FactorUpdates`.
2. *Done*: the rounding, the band and the order of factors, proved
   (`FactorUpdatesProofs`), and of the chain of any runs (`OracleTimingProofs`).
3. *Done*: convergence in a market that moves within the band (`Market`).
4. *Done*: aggregation and the window across a change of
   daylight saving time (`Window`, `PriceResult`).
5. *Done*: the configuration and what is posted to Slack, in `Oracle` (`Config`,
   `Logging`).
6. *Done*: the average lies among the prices paid, and the loops add up to it;
   the bounds behind termination; `Oracle` and `Broadcaster` meet at `Submission`.
7. Left: the first phase's context in `Oracle`, which would let its failures
   depend on the time the fetch takes; a composition of `Oracle` with
   `Broadcaster` in place of `Submission`, whose state space is the product of
   both; the sanitizer, were its patterns ever to matter to a run.
