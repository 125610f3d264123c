----------------------------- MODULE OracleProofs -----------------------------
(***************************************************************************)
(* run() for any number of runs, prices, scales and environments, ordered or *)
(* not, in turn or overlapping: what a run reports stays true, what a config *)
(* that was loaded lets a run do, and which of its lines are posted to Slack.  *)
(***************************************************************************)
EXTENDS Oracle, TLAPS

\* A tx is sent by a run that has it signed and does not sign again.
SentInv ==
    \A r \in Runs :
        /\ r \in sent => pc[r] \in {"confirming", "ended"}
        /\ r \in landed => r \in sent
        /\ pc[r] \in {"building", "estimating", "notifying", "confirming"} => ~Refuses(price[r])
        /\ r \in sent => ~Refuses(price[r])

\* A sequence that was looked up is never ahead of the account's, so that a tx
\* whose sequence is used has no second chance.
SequenceInv ==
    \A r \in Runs : account[r] <= seq /\ signed[r].seq <= seq

\* What an exit says of the tx is settled.
ExitInv ==
    \A r \in Runs :
        /\ pc[r] # "ended" => outcome[r] = "none"
        /\ outcome[r] = "updated" => r \in landed
        /\ outcome[r] = "skipped" => r \notin sent
        /\ outcome[r] = "failed" => r \notin sent \/ Fate(r) = "dead"

ConfigInv == \A r \in Runs : cfg[r] = Load(env[r])

IInv ==
    /\ TypeOK
    /\ ConfigInv
    /\ SentInv
    /\ SequenceInv
    /\ ExitInv

------------------------------------------------------------------------------

LEMMA ComputeType ==
    ASSUME NEW p \in Rationals, ~Refuses(p)
    PROVE  Compute(p) \in [definition : Nat \ {0}, converted : Nat \ {0}]
<1>1. selectTier(p) \in Nat \ {0}
  BY ScalesAssumption DEF selectTier
<1> DEFINE n == selectTier(p) * p.num
           d == Million * p.den
<1>2. n \in Int /\ d \in Nat \ {0}
  <2>1. p.num \in Int /\ p.den \in Nat \ {0}
    BY DEF Rationals
  <2>2. \A x, y \in Nat \ {0} : x * y \in Nat \ {0}
    OBVIOUS
  <2> QED
    BY <1>1, <2>1, <2>2, ScalesAssumption
<1>3. DefinitionOf(p) = (2 * n + d) \div (2 * d)
  BY DEF DefinitionOf, roundHalfUp
<1> HIDE DEF n, d
<1>4. DefinitionOf(p) \in Int
  BY <1>2, <1>3
<1> QED
  BY <1>1, <1>4 DEF Refuses, Compute

\* What Load returns, with an error or without.
LEMMA LoadType ==
    ASSUME NEW e \in Environments
    PROVE  Load(e) \in Configs
<1>1. /\ get(e.UNORDERED, TRUE) \in BOOLEAN
      /\ get(e.FORCE_UPDATE, FALSE) \in BOOLEAN
      /\ get(e.DRY_RUN, FALSE) \in BOOLEAN
      /\ get(e.UNORDERED_TIMEOUT, DefaultTimeout) \in Int
      /\ e.SLACK_WEBHOOK_URL \in BOOLEAN
  BY ConfigAssumption DEF Environments, Optional, get
<1>2. parseLevel(e.SLACK_LOG_LEVEL) \in Int
  <2>1. \A l \in DOMAIN Levels : Levels[l] \in Int
    BY DEF Levels
  <2>2. Levels.warn \in Int /\ Levels.info \in Int
    BY DEF Levels
  <2> QED
    BY <2>1, <2>2 DEF parseLevel
<1> QED
  BY <1>1, <1>2 DEF Load, Configs

LEMMA InitInv == OracleInit => IInv
<1> SUFFICES ASSUME OracleInit
             PROVE  IInv
  OBVIOUS
<1>1. TypeOK
  BY OracleAssumption, LoadType
     DEF OracleInit, Init, TypeOK, NoUpdate, NoTx, Stages, Outcomes
<1>2. SentInv /\ SequenceInv /\ ExitInv /\ ConfigInv
  BY OracleAssumption DEF OracleInit, SentInv, SequenceInv, ExitInv, ConfigInv, NoTx
<1> QED
  BY <1>1, <1>2 DEF IInv

\* A verdict other than "unconfirmed" is the tx's fate.
LEMMA ReportFits ==
    ASSUME NEW r \in Runs, NEW v, Call(r)!Fits(v)
    PROVE  /\ v = "success" => Fate(r) = "landed"
           /\ v \in {"deliverFailed", "rejected"} => Fate(r) = "dead"
BY DEF Call!Fits

\* Each run's price is a rational, before it fetched one as well.
LEMMA PriceType ==
    ASSUME TypeOK, NEW r \in Runs
    PROVE  price[r] \in Rationals
BY PricesAssumption DEF TypeOK, NoUpdate, Rationals

LEMMA SubmitTimeoutType ==
    ASSUME TypeOK, NEW r \in Runs
    PROVE  submitTimeout(cfg[r]) \in Int
BY OracleAssumption DEF submitTimeout, TypeOK, Configs

LEMMA LineNames == Lines = {"banner", "debug", "info", "warn", "error"}
BY DEF Lines, Levels

\* A step of a run posts lines, the others none.
LEMMA PostsLines ==
    ASSUME [OracleNext]_vars
    PROVE  \/ UNCHANGED posted
           \/ \E r \in Runs, lines \in SUBSET Lines : Log(r, lines)
<1>1. ASSUME NEW r \in Runs, NEW p \in Prices, NEW liquid \in BOOLEAN, FetchPrice(r, p, liquid)
      PROVE  \E lines \in SUBSET Lines : Log(r, lines)
  BY <1>1, LineNames DEF FetchPrice, PriceLines, Goto, End
<1>2. ASSUME NEW r \in Runs,
             NEW v \in {"success", "deliverFailed", "rejected", "unconfirmed"}, Report(r, v)
      PROVE  \E lines \in SUBSET Lines : Log(r, lines)
  BY <1>2, LineNames DEF Report, LineOf, End
<1>3. ASSUME NEW r \in Runs, ReadParams(r)
      PROVE  \E lines \in SUBSET Lines : Log(r, lines)
  BY <1>3, LineNames DEF ReadParams, SkipLine, Goto, End
<1>4. ASSUME NEW r \in Runs,
             Start(r) \/ NoPrice(r) \/ LookUpAccount(r) \/ EstimateFees(r) \/ Sign(r) \/ Fails(r)
      PROVE  \E lines \in SUBSET Lines : Log(r, lines)
  BY <1>4, LineNames DEF Start, NoPrice, LookUpAccount, EstimateFees, Sign, Fails, Goto, End
<1>5. UNCHANGED runVars => UNCHANGED posted
  BY DEF runVars
<1> QED
  BY <1>1, <1>2, <1>3, <1>4, <1>5 DEF OracleNext, RunStep, vars, Lands, Dies, Tick

\* The variables' ranges, one step on.
LEMMA TypeInv == IInv /\ [OracleNext]_vars => TypeOK'
<1> SUFFICES ASSUME IInv, [OracleNext]_vars
             PROVE  TypeOK'
  OBVIOUS
<1> USE DEF IInv, TypeOK, chainVars, Stages, Outcomes
<1>0. posted' \in [Runs -> SUBSET Lines]
  BY PostsLines DEF Log
<1>1. CASE UNCHANGED vars
  BY <1>0, <1>1 DEF vars, runVars
<1>2. ASSUME NEW r \in Runs, Start(r)
      PROVE  TypeOK'
  <2>1. CASE Goto(r, "fetching", {"banner"})
    BY <1>0, <1>2, <2>1 DEF Start, Goto
  <2>2. CASE End(r, "failed", {"error"})
    BY <1>0, <1>2, <2>2 DEF Start, End
  <2> QED
    BY <1>0, <1>2, <2>1, <2>2 DEF Start
<1>3. ASSUME NEW r \in Runs, NoPrice(r)
      PROVE  TypeOK'
  BY <1>0, <1>3 DEF NoPrice, End
<1>4. ASSUME NEW r \in Runs, NEW p \in Prices, NEW liquid \in BOOLEAN,
             FetchPrice(r, p, liquid)
      PROVE  TypeOK'
  BY <1>0, <1>4 DEF FetchPrice, Goto, End
<1>5. ASSUME NEW r \in Runs, ReadParams(r)
      PROVE  TypeOK'
  <2>1. now + submitTimeout(cfg[r]) \in Int
    BY SubmitTimeoutType
  <2>2. deadline' \in [Runs -> Int]
    BY <1>5, <2>1 DEF ReadParams
  <2>3. pc' \in [Runs -> Stages] /\ outcome' \in [Runs -> Outcomes \union {"none"}]
    BY <1>5 DEF ReadParams, Goto, End
  <2> QED
    BY <1>0, <1>5, <2>2, <2>3 DEF ReadParams
<1>6. ASSUME NEW r \in Runs, LookUpAccount(r)
      PROVE  TypeOK'
  BY <1>0, <1>6 DEF LookUpAccount, Goto
<1>7. ASSUME NEW r \in Runs, EstimateFees(r)
      PROVE  TypeOK'
  BY <1>0, <1>7 DEF EstimateFees, Goto
<1>7s. ASSUME NEW r \in Runs, Sign(r)
      PROVE  TypeOK'
  <2>1. Build(r) \in [seq : Nat \union {-1}, expiry : Int]
    BY DEF Build, Configs
  <2>2. signed' \in [Runs -> [seq : Nat \union {-1}, expiry : Int]]
    BY <1>7s, <2>1 DEF Sign
  <2>3. sent' \subseteq Runs
    BY <1>7s DEF Sign
  <2>4. pc' \in [Runs -> Stages] /\ outcome' \in [Runs -> Outcomes \union {"none"}]
    BY <1>7s DEF Sign, Goto, End
  <2> QED
    BY <1>0, <1>7s, <2>2, <2>3, <2>4 DEF Sign
<1>8. ASSUME NEW r \in Runs, Fails(r)
      PROVE  TypeOK'
  BY <1>0, <1>8 DEF Fails, End
<1>9. ASSUME NEW r \in Runs,
             NEW v \in {"success", "deliverFailed", "rejected", "unconfirmed"},
             Report(r, v)
      PROVE  TypeOK'
  <2>1. OutcomeOf(v) \in Outcomes
    BY DEF OutcomeOf
  <2> QED
    BY <1>0, <1>9, <2>1 DEF Report, End
<1>10. ASSUME NEW r \in Runs, Lands(r)
       PROVE  TypeOK'
  <2>1. Compute(price[r]) \in [definition : Nat \ {0}, converted : Nat \ {0}]
    BY <1>10, PriceType, ComputeType DEF Lands, SentInv
  <2>2. seq' \in Nat
    BY <1>10 DEF Lands
  <2>3. last' \in [price : Prices \union {NoUpdate.price}, forced : BOOLEAN]
    BY <1>10 DEF Lands, Configs
  <2> QED
    BY <1>0, <1>10, <2>1, <2>2, <2>3 DEF Lands, runVars
<1>11. ASSUME NEW r \in Runs, Dies(r)
       PROVE  TypeOK'
  BY <1>0, <1>11 DEF Dies, runVars
<1>12. CASE Tick
  BY <1>0, <1>12 DEF Tick, runVars
<1> QED
  BY <1>1, <1>2, <1>3, <1>4, <1>5, <1>6, <1>7, <1>7s, <1>8, <1>9, <1>10, <1>11, <1>12
     DEF OracleNext, RunStep

\* A step of run r that does not touch the chain or what has been signed.
LEMMA StepOfRun ==
    ASSUME IInv, TypeOK', NEW r \in Runs,
           UNCHANGED <<now, chainVars, env, cfg, signed, sent>>,
           \A q \in Runs \ {r} :
              /\ pc'[q] = pc[q] /\ outcome'[q] = outcome[q]
              /\ price'[q] = price[q] /\ account'[q] = account[q],
           account'[r] <= seq,
           r \in sent => pc'[r] = "ended" /\ price'[r] = price[r],
           pc'[r] \in {"building", "estimating", "notifying", "confirming"} => ~Refuses(price'[r]),
           pc'[r] # "ended" => outcome'[r] = "none",
           outcome'[r] = "updated" => r \in landed,
           outcome'[r] = "skipped" => r \notin sent,
           outcome'[r] = "failed" => r \notin sent \/ Fate(r) = "dead"
    PROVE  IInv'
<1>1. \A q \in Runs : Fate(q)' = Fate(q)
  BY DEF Fate, Valid, chainVars
<1>2. SentInv'
  BY DEF IInv, SentInv, chainVars
<1>3. SequenceInv'
  BY DEF IInv, SequenceInv, chainVars
<1>4. ExitInv'
  BY <1>1 DEF IInv, ExitInv, chainVars
<1> QED
  BY <1>2, <1>3, <1>4 DEF IInv, ConfigInv

\* A fate that is settled stays so while the chain and the clock go on.
LEMMA SettledStays ==
    ASSUME IInv, NEW q \in Runs, Fate(q) = "dead",
           signed'[q] = signed[q], cfg'[q] = cfg[q],
           now' >= now, now' \in Nat, seq' >= seq, seq' \in Nat,
           q \in landed' => q \in landed, dead \subseteq dead'
    PROVE  Fate(q)' = "dead"
<1> USE DEF IInv, TypeOK
<1>1. q \notin landed /\ (q \in dead \/ ~Valid(q))
  BY DEF Fate
<1>2. ~Valid(q) => ~Valid(q)'
  <2>1. CASE cfg[q].unordered
    BY <2>1 DEF Valid
  <2>2. CASE ~cfg[q].unordered
    <3>1. signed[q].seq <= seq /\ signed[q].seq \in Int /\ seq \in Int
      BY DEF SequenceInv
    <3>2. signed[q].seq = signed'[q].seq /\ seq' \in Int /\ seq' >= seq
      OBVIOUS
    <3>3. \A a, b, c \in Int : a <= b /\ a # b /\ c >= b => a # c
      OBVIOUS
    <3>4. signed[q].seq # seq => signed'[q].seq # seq'
      BY <3>1, <3>2, <3>3
    <3> QED
      BY <2>2, <3>4 DEF Valid
  <2> QED
    BY <2>1, <2>2
<1> QED
  BY <1>1, <1>2 DEF Fate

\* What the chain does to a tx under way.
LEMMA StepOfChain ==
    ASSUME IInv, TypeOK', UNCHANGED runVars, now' >= now, seq' >= seq,
           landed \subseteq landed', dead \subseteq dead',
           \A q \in landed' \ landed : q \in sent /\ Fate(q) = "open"
    PROVE  IInv'
<1>1. SentInv'
  BY DEF IInv, TypeOK, SentInv, runVars
<1>2. SequenceInv'
  BY DEF IInv, TypeOK, SequenceInv, runVars
<1>3. ASSUME NEW q \in Runs, Fate(q) = "dead"
      PROVE  Fate(q)' = "dead"
  <2>1. q \in landed' => q \in landed
    BY <1>3
  <2>2. now' \in Nat /\ seq' \in Nat /\ signed' = signed /\ cfg' = cfg
    BY DEF TypeOK, runVars
  <2> QED
    BY <1>3, <2>1, <2>2, SettledStays
<1>4. ExitInv'
  BY <1>3 DEF IInv, ExitInv, runVars
<1> QED
  BY <1>1, <1>2, <1>4 DEF IInv, ConfigInv, runVars

LEMMA NextInv == IInv /\ [OracleNext]_vars => IInv'
<1> SUFFICES ASSUME IInv, [OracleNext]_vars
             PROVE  IInv'
  OBVIOUS
<1>0. TypeOK'
  BY TypeInv
<1>1. CASE UNCHANGED vars
  BY <1>1, <1>0, StepOfChain DEF vars, chainVars, IInv, TypeOK
<1> USE DEF IInv, TypeOK
<1>2. ASSUME NEW r \in Runs, Start(r)
      PROVE  IInv'
  <2>1. r \notin sent /\ account[r] <= seq /\ outcome[r] = "none"
    BY <1>2 DEF Start, SentInv, SequenceInv, ExitInv
  <2>2. UNCHANGED <<now, chainVars, env, cfg, price, account, signed, sent>>
    BY <1>2 DEF Start
  <2>3. CASE Goto(r, "fetching", {"banner"})
    BY <1>0, <2>1, <2>2, <2>3, StepOfRun DEF Goto
  <2>4. CASE End(r, "failed", {"error"})
    BY <1>0, <2>1, <2>2, <2>4, StepOfRun DEF End
  <2> QED
    BY <1>2, <2>3, <2>4 DEF Start
<1>3. ASSUME NEW r \in Runs, NoPrice(r)
      PROVE  IInv'
  <2>1. r \notin sent /\ account[r] <= seq
    BY <1>3 DEF NoPrice, SentInv, SequenceInv
  <2>2. UNCHANGED <<now, chainVars, env, cfg, price, account, signed, sent>>
    BY <1>3 DEF NoPrice
  <2>3. ASSUME NEW result \in {"failed", "skipped"}, NEW lines, End(r, result, lines)
        PROVE  IInv'
    BY <1>0, <2>1, <2>2, <2>3, StepOfRun DEF End
  <2> QED
    BY <1>3, <2>3 DEF NoPrice
<1>4. ASSUME NEW r \in Runs, NEW p \in Prices, NEW liquid \in BOOLEAN,
             FetchPrice(r, p, liquid)
      PROVE  IInv'
  <2>1. r \notin sent /\ account[r] <= seq /\ outcome[r] = "none"
    BY <1>4 DEF FetchPrice, SentInv, SequenceInv, ExitInv
  <2>2. /\ UNCHANGED <<now, chainVars, env, cfg, account, signed, sent>>
        /\ price' = [price EXCEPT ![r] = p]
    BY <1>4 DEF FetchPrice
  <2>3. ASSUME NEW result \in {"failed", "skipped"}, NEW lines, End(r, result, lines)
        PROVE  IInv'
    BY <1>0, <2>1, <2>2, <2>3, StepOfRun DEF End
  <2>4. CASE Goto(r, "reading", PriceLines(cfg[r]))
    BY <1>0, <2>1, <2>2, <2>4, StepOfRun DEF Goto
  <2> QED
    BY <1>4, <2>3, <2>4 DEF FetchPrice
<1>5. ASSUME NEW r \in Runs, ReadParams(r)
      PROVE  IInv'
  <2>1. r \notin sent /\ account[r] <= seq
    BY <1>5 DEF ReadParams, SentInv, SequenceInv
  <2>2. UNCHANGED <<now, chainVars, env, cfg, price, account, signed, sent>>
    BY <1>5 DEF ReadParams
  <2>3. CASE ~Due(r) /\ End(r, "skipped", {SkipLine(r)})
    BY <1>0, <2>1, <2>2, <2>3, StepOfRun DEF End
  <2>4. CASE Due(r) /\ Goto(r, "building", {})
    <3>1. ~Refuses(price[r])
      BY <2>4 DEF Due, Updates
    <3>2. outcome[r] = "none"
      BY <1>5 DEF ReadParams, ExitInv
    <3> QED
      BY <1>0, <2>1, <2>2, <2>4, <3>1, <3>2, StepOfRun DEF Goto
  <2> QED
    BY <1>5, <2>3, <2>4 DEF ReadParams
<1>6. ASSUME NEW r \in Runs, LookUpAccount(r)
      PROVE  IInv'
  <2>1. r \notin sent /\ outcome[r] = "none" /\ ~Refuses(price[r])
    BY <1>6 DEF LookUpAccount, SentInv, ExitInv
  <2>2. account' = [account EXCEPT ![r] = seq] /\ pc' = [pc EXCEPT ![r] = "estimating"]
    BY <1>6 DEF LookUpAccount, Goto
  <2>3. UNCHANGED <<now, chainVars, env, cfg, price, signed, sent, outcome>>
    BY <1>6 DEF LookUpAccount, Goto
  <2>4. account'[r] <= seq
    BY <2>2
  <2>5. \A q \in Runs \ {r} : pc'[q] = pc[q] /\ account'[q] = account[q]
    BY <2>2
  <2>6. pc'[r] = "estimating"
    BY <2>2
  <2> QED
    BY <1>0, <2>1, <2>3, <2>4, <2>5, <2>6, StepOfRun
<1>7. ASSUME NEW r \in Runs, EstimateFees(r)
      PROVE  IInv'
  <2>1. r \notin sent /\ outcome[r] = "none" /\ ~Refuses(price[r]) /\ account[r] <= seq
    BY <1>7 DEF EstimateFees, SentInv, SequenceInv, ExitInv
  <2> QED
    BY <1>0, <1>7, <2>1, StepOfRun DEF EstimateFees, Goto
<1>7s. ASSUME NEW r \in Runs, Sign(r)
      PROVE  IInv'
  <2>1. r \notin sent /\ r \notin landed
    BY <1>7s DEF Sign, SentInv
  <2>2. SentInv'
    BY <1>7s, <2>1 DEF Sign, Goto, End, SentInv, chainVars
  <2>3. SequenceInv'
    BY <1>7s DEF Sign, Build, SequenceInv, chainVars
  <2>4. \A q \in Runs \ {r} : Fate(q)' = Fate(q)
    BY <1>7s DEF Sign, Fate, Valid, chainVars
  <2>5. ExitInv'
    BY <1>7s, <2>1, <2>4 DEF Sign, Goto, End, ExitInv, chainVars
  <2>6. ConfigInv'
    BY <1>7s DEF Sign, ConfigInv
  <2> QED
    BY <1>0, <2>2, <2>3, <2>5, <2>6
<1>8. ASSUME NEW r \in Runs, Fails(r)
      PROVE  IInv'
  <2>1. r \notin sent /\ account[r] <= seq
    BY <1>8 DEF Fails, SentInv, SequenceInv
  <2> QED
    BY <1>0, <1>8, <2>1, StepOfRun DEF Fails, End
<1>9. ASSUME NEW r \in Runs,
             NEW v \in {"success", "deliverFailed", "rejected", "unconfirmed"},
             Report(r, v)
      PROVE  IInv'
  <2>1. /\ OutcomeOf(v) = "updated" => v = "success"
        /\ OutcomeOf(v) = "failed" => v \in {"deliverFailed", "rejected"}
        /\ OutcomeOf(v) # "skipped"
    BY DEF OutcomeOf
  <2>2. /\ OutcomeOf(v) = "updated" => r \in landed
        /\ OutcomeOf(v) = "failed" => Fate(r) = "dead"
    BY <1>9, <2>1, ReportFits DEF Report, Fate
  <2> QED
    BY <1>0, <1>9, <2>1, <2>2, StepOfRun
       DEF Report, End, SentInv, SequenceInv, ExitInv
<1>10. ASSUME NEW r \in Runs, Lands(r)
       PROVE  IInv'
  BY <1>0, <1>10, StepOfChain DEF Lands
<1>11. ASSUME NEW r \in Runs, Dies(r)
       PROVE  IInv'
  BY <1>0, <1>11, StepOfChain DEF Dies
<1>12. CASE Tick
  BY <1>0, <1>12, StepOfChain DEF Tick, chainVars
<1> QED
  BY <1>1, <1>2, <1>3, <1>4, <1>5, <1>6, <1>7, <1>7s, <1>8, <1>9, <1>10, <1>11, <1>12
     DEF OracleNext, RunStep

\* The inductive invariant holds in every state, ordered or not, whatever the
\* number of runs and however they overlap.
THEOREM OracleInvariant == OracleSpec => []IInv
BY InitInv, NextInv, PTL DEF OracleSpec

\* The variables keep their ranges; a factor on chain has two positive amounts.
THEOREM OracleTypeCorrect == OracleSpec => []TypeOK
<1>1. IInv => TypeOK
  BY DEF IInv
<1> QED
  BY OracleInvariant, <1>1, PTL

\* No report of a run is contradicted by the chain, then or later.
THEOREM ReportsStayTrue == OracleSpec => []OutcomesAreHonest
<1>1. IInv => OutcomesAreHonest
  BY DEF IInv, ExitInv, SentInv, OutcomesAreHonest, Fate
<1> QED
  BY OracleInvariant, <1>1, PTL

------------------------------------------------------------------------------
(* The fate of a tx *)

\* A run does not sign again what it has sent, nor load its config again.
LEMMA SentIsKept ==
    ASSUME IInv, [OracleNext]_vars, NEW q \in sent
    PROVE  q \in Runs /\ q \in sent' /\ cfg' = cfg /\ signed'[q] = signed[q]
<1>0. TypeOK /\ SentInv /\ q \in Runs
  BY DEF IInv, TypeOK
<1>1. cfg' = cfg /\ sent \subseteq sent'
  BY DEF OracleNext, RunStep, vars, runVars, Start, NoPrice, FetchPrice, ReadParams,
         LookUpAccount, EstimateFees, Sign, Fails, Report, Lands, Dies, Tick
<1>2. ASSUME NEW r \in Runs, Sign(r)
      PROVE  signed'[q] = signed[q]
  BY <1>0, <1>2 DEF Sign, SentInv, TypeOK
<1>3. signed' = signed \/ \E r \in Runs : Sign(r)
  BY DEF OracleNext, RunStep, vars, runVars, Start, NoPrice, FetchPrice, ReadParams,
         LookUpAccount, EstimateFees, Fails, Report, Lands, Dies, Tick
<1> QED
  BY <1>0, <1>1, <1>2, <1>3

\* Time, the sequence and what is in blocks only grow.
LEMMA ChainGrows ==
    ASSUME IInv, [OracleNext]_vars
    PROVE  /\ now' >= now /\ now' \in Nat /\ seq' >= seq /\ seq' \in Nat
           /\ landed \subseteq landed' /\ dead \subseteq dead'
           /\ \A q \in landed' \ landed : Lands(q) /\ q \in Runs
<1>1. now \in Nat /\ seq \in Nat
  BY DEF IInv, TypeOK
<1>2. CASE UNCHANGED <<now, chainVars>>
  BY <1>1, <1>2 DEF chainVars
<1>3. ASSUME NEW r \in Runs, Lands(r)
      PROVE  /\ now' = now /\ seq' >= seq /\ seq' \in Nat
             /\ landed' = landed \union {r} /\ dead' = dead
  BY <1>1, <1>3 DEF Lands
<1>4. ASSUME NEW r \in Runs, Dies(r)
      PROVE  /\ now' = now /\ seq' >= seq /\ seq' \in Nat
             /\ landed' = landed /\ dead \subseteq dead'
  BY <1>1, <1>4 DEF Dies
<1>5. CASE Tick
  BY <1>1, <1>5 DEF Tick, chainVars
<1>6. \/ UNCHANGED <<now, chainVars>> \/ Tick \/ \E r \in Runs : Lands(r) \/ Dies(r)
  BY DEF OracleNext, RunStep, vars, Start, NoPrice, FetchPrice, ReadParams,
         LookUpAccount, EstimateFees, Sign, Fails, Report
<1> QED
  BY <1>1, <1>2, <1>3, <1>4, <1>5, <1>6

\* Once settled a fate stays, whatever the chain, the clock and the runs do.
LEMMA FateStays ==
    ASSUME IInv, [OracleNext]_vars, NEW q \in sent, Fate(q) # "open"
    PROVE  Fate(q)' = Fate(q)
<1>1. CASE Fate(q) = "landed"
  BY <1>1, ChainGrows DEF Fate
<1>2. CASE Fate(q) = "dead"
  <2>1. q \in landed' => q \in landed
    BY <1>2, ChainGrows DEF Lands
  <2> QED
    BY <1>2, <2>1, ChainGrows, SentIsKept, SettledStays
<1> QED
  BY <1>1, <1>2 DEF Fate

\* A run hears of its tx's fate once, and ends with it.
VerdictInv == \A r \in Runs : pc[r] # "ended" => verdict[r] = "none"

LEMMA NextVerdict == IInv /\ VerdictInv /\ [OracleNext]_vars => VerdictInv'
<1> SUFFICES ASSUME IInv, VerdictInv, [OracleNext]_vars
             PROVE  VerdictInv'
  OBVIOUS
<1> USE DEF IInv, TypeOK, VerdictInv
<1>1. ASSUME NEW r \in Runs, pc[r] # "ended", NEW stage, pc' = [pc EXCEPT ![r] = stage],
             verdict' = verdict
      PROVE  VerdictInv'
  BY <1>1
<1>2. ASSUME NEW r \in Runs,
             NEW v \in {"success", "deliverFailed", "rejected", "unconfirmed"},
             Report(r, v)
      PROVE  VerdictInv'
  BY <1>2 DEF Report, End
<1>3. CASE UNCHANGED runVars
  BY <1>3 DEF runVars
<1>4. ASSUME NEW r \in Runs, RunStep(r),
             ~\E v \in {"success", "deliverFailed", "rejected", "unconfirmed"} : Report(r, v)
      PROVE  VerdictInv'
  <2>1. /\ pc[r] # "ended" /\ verdict' = verdict
        /\ \E stage \in Stages : pc' = [pc EXCEPT ![r] = stage]
    BY <1>4 DEF RunStep, Start, NoPrice, FetchPrice, ReadParams, LookUpAccount,
           EstimateFees, Sign, Fails, Goto, End, Stages
  <2> QED
    BY <1>1, <2>1
<1> QED
  BY <1>2, <1>3, <1>4 DEF OracleNext, RunStep, vars, Lands, Dies, Tick

\* A run that has sent its tx sees what module Submission promises a caller of
\* BroadcastAndConfirm, one step at a time, with the chain and all the other runs
\* going on beside it: the counterpart of what module Broadcaster implements.
THEOREM RunsSeeSubmissions ==
    OracleSpec =>
        [][/\ \A r \in sent' \ sent : Call(r)!Init'
           /\ \A r \in sent : Call(r)!Next \/ UNCHANGED Call(r)!subVars]_vars
<1>1. OracleInit => VerdictInv
  BY DEF OracleInit, VerdictInv
<1>2. IInv /\ VerdictInv /\ [OracleNext]_vars =>
          [/\ \A r \in sent' \ sent : Call(r)!Init'
           /\ \A r \in sent : Call(r)!Next \/ UNCHANGED Call(r)!subVars]_vars
  <2> SUFFICES ASSUME IInv, VerdictInv, OracleNext
               PROVE  /\ \A r \in sent' \ sent : Call(r)!Init'
                      /\ \A r \in sent : Call(r)!Next \/ UNCHANGED Call(r)!subVars
    OBVIOUS
  <2>0. TypeOK /\ SentInv
    BY DEF IInv
  <2>1. ASSUME NEW r \in sent' \ sent
        PROVE  Call(r)!Init'
    <3>1. r \in Runs /\ Sign(r)
      BY <2>1 DEF OracleNext, RunStep, runVars, Start, NoPrice, FetchPrice, ReadParams,
             LookUpAccount, EstimateFees, Sign, Fails, Report, Lands, Dies, Tick
    <3>2. verdict'[r] = "none"
      BY <3>1 DEF Sign, VerdictInv
    <3>3. r \notin landed'
      BY <2>0, <2>1, <3>1 DEF Sign, SentInv, chainVars
    <3> QED
      BY <3>2, <3>3 DEF Fate, Call!Init
  <2>2. ASSUME NEW r \in sent, verdict'[r] = verdict[r]
        PROVE  Call(r)!Next \/ UNCHANGED Call(r)!subVars
    <3>1. CASE Fate(r) = "open"
      BY <2>2, <3>1 DEF Fate, Call!Next, Call!Settle, Call!subVars
    <3>2. CASE Fate(r) # "open"
      <4>1. Fate(r)' = Fate(r)
        BY <3>2, FateStays
      <4> QED
        BY <2>2, <4>1 DEF Call!subVars
    <3> QED
      BY <3>1, <3>2
  <2>3. ASSUME NEW r \in sent, verdict'[r] # verdict[r]
        PROVE  Call(r)!Next
    <3>1. PICK v \in {"success", "deliverFailed", "rejected", "unconfirmed"} : Report(r, v)
      BY <2>0, <2>3 DEF TypeOK, OracleNext, RunStep, runVars, Start, NoPrice, FetchPrice,
             ReadParams, LookUpAccount, EstimateFees, Sign, Fails, Report, Lands, Dies, Tick
    <3>2. r \in Runs /\ verdict[r] = "none" /\ verdict'[r] = v
      BY <2>0, <3>1 DEF TypeOK, Report, VerdictInv
    <3>3. Fate(r)' = Fate(r)
      BY <3>1 DEF Report, Fate, Valid, chainVars
    <3>4. Call(r)!Fits(verdict'[r])
      BY <3>1, <3>2 DEF Report
    <3> QED
      BY <3>2, <3>3, <3>4 DEF Call!Next, Call!Report
  <2> QED
    BY <2>1, <2>2, <2>3
<1> QED
  BY <1>1, <1>2, NextVerdict, OracleInvariant, PTL DEF OracleSpec

------------------------------------------------------------------------------
(* The environment of a run, and the lines it posts *)

\* A run that got past Load has a config that is ok, and one that sent its tx
\* was no dry run.
LoadedInv ==
    \A r \in Runs :
        /\ pc[r] \notin {"idle", "ended"} => cfg[r].ok
        /\ r \in sent => cfg[r].ok /\ ~cfg[r].dryRun

\* Time only takes from what is left of a tx's timeout.
ExpiryInv ==
    \A r \in Runs : cfg[r].ok => signed[r].expiry <= now + MaxTimeout

EInv == LoadedInv /\ ExpiryInv /\ ErrorsAreFailures

------------------------------------------------------------------------------

LEMMA InitEnvironment == OracleInit => EInv
<1> SUFFICES ASSUME OracleInit
             PROVE  EInv
  OBVIOUS
<1>1. LoadedInv /\ ErrorsAreFailures
  BY DEF OracleInit, LoadedInv, ErrorsAreFailures
<1>2. ExpiryInv
  BY ConfigAssumption DEF OracleInit, ExpiryInv, NoTx
<1> QED
  BY <1>1, <1>2 DEF EInv

\* A run that ends posts an error for a failure and for nothing else.
LEMMA EndPosts ==
    ASSUME TypeOK, ExitInv, ErrorsAreFailures, NEW r \in Runs, pc[r] # "ended", UNCHANGED cfg,
           NEW result, NEW lines, result = "failed" <=> "error" \in lines,
           End(r, result, lines)
    PROVE  ErrorsAreFailures'
<1> USE DEF TypeOK
<1>1. outcome'[r] = result /\ posted'[r] = posted[r] \union {l \in lines : Notifies(cfg[r], l)}
  BY DEF End, Log
<1>2. \A q \in Runs \ {r} : outcome'[q] = outcome[q] /\ posted'[q] = posted[q]
  BY DEF End, Log
<1>3. cfg[r].slack => "error" \notin posted[r]
  BY DEF ErrorsAreFailures, ExitInv
<1>4. cfg[r].slack => Notifies(cfg[r], "error")
  BY DEF Notifies
<1> QED
  BY <1>1, <1>2, <1>3, <1>4 DEF ErrorsAreFailures

\* A run that goes on posts none.
LEMMA GotoPosts ==
    ASSUME TypeOK, ErrorsAreFailures, NEW r \in Runs, UNCHANGED cfg,
           NEW stage, NEW lines, "error" \notin lines, Goto(r, stage, lines)
    PROVE  ErrorsAreFailures'
<1>1. outcome' = outcome /\ posted'[r] = posted[r] \union {l \in lines : Notifies(cfg[r], l)}
  BY DEF TypeOK, Goto, Log
<1>2. \A q \in Runs \ {r} : posted'[q] = posted[q]
  BY DEF TypeOK, Goto, Log
<1> QED
  BY <1>1, <1>2 DEF ErrorsAreFailures

\* A step of a run that is past Load, or of one whose config is ok, that signs
\* nothing.
LEMMA StepOfLoaded ==
    ASSUME TypeOK, LoadedInv, ExpiryInv, NEW r \in Runs, UNCHANGED <<now, cfg, signed, sent>>,
           NEW stage \in Stages, pc' = [pc EXCEPT ![r] = stage],
           stage # "ended" => cfg[r].ok
    PROVE  LoadedInv' /\ ExpiryInv'
BY DEF TypeOK, LoadedInv, ExpiryInv

LEMMA NextEnvironment == IInv /\ EInv /\ [OracleNext]_vars => EInv'
<1> SUFFICES ASSUME IInv, EInv, [OracleNext]_vars
             PROVE  EInv'
  OBVIOUS
<1>0. TypeOK /\ SentInv /\ ExitInv /\ LoadedInv /\ ExpiryInv /\ ErrorsAreFailures
  BY DEF IInv, EInv
<1>a. ASSUME NEW r \in Runs, pc[r] # "ended", UNCHANGED <<now, cfg, signed, sent>>,
             NEW result, NEW lines, result = "failed" <=> "error" \in lines,
             End(r, result, lines)
      PROVE  EInv'
  <2>1. pc' = [pc EXCEPT ![r] = "ended"] /\ "ended" \in Stages
    BY <1>a DEF End, Stages
  <2>2. LoadedInv' /\ ExpiryInv'
    BY <1>0, <1>a, <2>1, StepOfLoaded
  <2>3. ErrorsAreFailures'
    BY <1>0, <1>a, EndPosts
  <2> QED
    BY <2>2, <2>3 DEF EInv
<1>b. ASSUME NEW r \in Runs, pc[r] # "ended", cfg[r].ok, UNCHANGED <<now, cfg, signed, sent>>,
             NEW stage \in Stages, NEW lines, "error" \notin lines, Goto(r, stage, lines)
      PROVE  EInv'
  <2>1. pc' = [pc EXCEPT ![r] = stage]
    BY <1>b DEF Goto
  <2>2. LoadedInv' /\ ExpiryInv'
    BY <1>0, <1>b, <2>1, StepOfLoaded
  <2>3. ErrorsAreFailures'
    BY <1>0, <1>b, GotoPosts
  <2> QED
    BY <2>2, <2>3 DEF EInv
<1>c. \A c : "error" \notin PriceLines(c)
  BY DEF PriceLines
<1>1. CASE UNCHANGED vars
  BY <1>0, <1>1 DEF EInv, LoadedInv, ExpiryInv, ErrorsAreFailures, vars, runVars
<1>2. ASSUME NEW r \in Runs, Start(r)
      PROVE  EInv'
  BY <1>2, <1>a, <1>b DEF Start, Stages
<1>3. ASSUME NEW r \in Runs, NoPrice(r)
      PROVE  EInv'
  BY <1>3, <1>a DEF NoPrice
<1>4. ASSUME NEW r \in Runs, NEW p \in Prices, NEW liquid \in BOOLEAN,
             FetchPrice(r, p, liquid)
      PROVE  EInv'
  <2>1. cfg[r].ok
    BY <1>0, <1>4 DEF FetchPrice, LoadedInv
  <2> QED
    BY <1>4, <2>1, <1>a, <1>b, <1>c DEF FetchPrice, Stages
<1>5. ASSUME NEW r \in Runs, ReadParams(r)
      PROVE  EInv'
  <2>1. cfg[r].ok
    BY <1>0, <1>5 DEF ReadParams, LoadedInv
  <2>2. "error" \notin {SkipLine(r)}
    BY DEF SkipLine
  <2> QED
    BY <1>5, <2>1, <2>2, <1>a, <1>b DEF ReadParams, Stages
<1>6. ASSUME NEW r \in Runs, LookUpAccount(r)
      PROVE  EInv'
  <2>1. cfg[r].ok
    BY <1>0, <1>6 DEF LookUpAccount, LoadedInv
  <2> QED
    BY <1>6, <2>1, <1>b DEF LookUpAccount, Stages
<1>7. ASSUME NEW r \in Runs, EstimateFees(r)
      PROVE  EInv'
  <2>1. cfg[r].ok
    BY <1>0, <1>7 DEF EstimateFees, LoadedInv
  <2> QED
    BY <1>7, <2>1, <1>b DEF EstimateFees, Stages
<1>8. ASSUME NEW r \in Runs, Sign(r)
      PROVE  EInv'
  <2>1. cfg[r].ok /\ pc[r] # "ended" /\ UNCHANGED <<now, cfg>>
    BY <1>0, <1>8 DEF Sign, LoadedInv
  <2>2. ErrorsAreFailures'
    <3>1. CASE End(r, "skipped", {"info"})
      BY <1>0, <2>1, <3>1, EndPosts
    <3>2. CASE Goto(r, "confirming", {})
      BY <1>0, <2>1, <3>2, GotoPosts
    <3> QED
      BY <1>8, <3>1, <3>2 DEF Sign
  <2>3. Build(r).expiry <= now + MaxTimeout
    <3>1. cfg[r] = Load(env[r])
      BY DEF IInv, ConfigInv
    <3>2. cfg[r].unordered => cfg[r].timeout <= MaxTimeout
      BY <2>1, <3>1 DEF Load
    <3> QED
      BY <1>0, <3>2, ConfigAssumption DEF TypeOK, Configs, Build
  <2>4. ExpiryInv'
    BY <1>0, <1>8, <2>1, <2>3 DEF Sign, TypeOK, ExpiryInv
  <2>5. LoadedInv'
    BY <1>0, <1>8, <2>1 DEF Sign, Goto, End, TypeOK, LoadedInv
  <2> QED
    BY <2>2, <2>4, <2>5 DEF EInv
<1>9. ASSUME NEW r \in Runs, Fails(r)
      PROVE  EInv'
  BY <1>9, <1>a DEF Fails
<1>10. ASSUME NEW r \in Runs,
              NEW v \in {"success", "deliverFailed", "rejected", "unconfirmed"},
              Report(r, v)
       PROVE  EInv'
  <2>1. OutcomeOf(v) = "failed" <=> "error" \in {LineOf(v)}
    BY DEF OutcomeOf, LineOf
  <2> QED
    BY <1>10, <2>1, <1>a DEF Report
<1>11. ASSUME NEW r \in Runs, Lands(r) \/ Dies(r)
       PROVE  EInv'
  BY <1>0, <1>11 DEF Lands, Dies, EInv, LoadedInv, ExpiryInv, ErrorsAreFailures, runVars
<1>12. CASE Tick
  <2>1. now' = now + 1 /\ UNCHANGED runVars
    BY <1>12 DEF Tick
  <2>2. LoadedInv' /\ ErrorsAreFailures'
    BY <1>0, <2>1 DEF LoadedInv, ErrorsAreFailures, runVars
  <2>3. ExpiryInv'
    BY <1>0, <2>1, ConfigAssumption DEF TypeOK, ExpiryInv, runVars
  <2> QED
    BY <2>2, <2>3 DEF EInv
<1> QED
  BY <1>1, <1>2, <1>3, <1>4, <1>5, <1>6, <1>7, <1>8, <1>9, <1>10, <1>11, <1>12
     DEF OracleNext, RunStep

\* What is loaded, posted and left of the timeouts, in every state.
THEOREM EnvironmentInvariant == OracleSpec => []EInv
<1>1. IInv /\ EInv /\ [OracleNext]_vars => EInv'
  BY NextEnvironment
<1> QED
  BY InitEnvironment, <1>1, OracleInvariant, PTL DEF OracleSpec

\* A tx is sent only by a run whose variables all parse, not in a dry run, and
\* with no longer a timeout than the chain's.
THEOREM SentAsConfigured == OracleSpec => []OnlyAsConfigured
<1>1. IInv /\ EInv => OnlyAsConfigured
  <2> SUFFICES ASSUME IInv, EInv, NEW r \in sent
               PROVE  /\ env[r].DRY_RUN \in {FALSE, Empty}
                      /\ Garbage \notin {env[r].UNORDERED, env[r].UNORDERED_TIMEOUT, env[r].numbers}
                      /\ cfg[r].force => env[r].FORCE_UPDATE = TRUE
                      /\ signed[r].expiry - now <= MaxTimeout
    BY DEF OnlyAsConfigured
  <2>1. r \in Runs /\ cfg[r].ok /\ ~cfg[r].dryRun /\ cfg[r] = Load(env[r])
    BY DEF IInv, TypeOK, EInv, LoadedInv, ConfigInv
  <2>2. env[r] \in Environments
    BY <2>1, OracleAssumption DEF IInv, TypeOK
  <2>3. ~HasError(env[r])
    BY <2>1 DEF Load
  <2>4. get(env[r].DRY_RUN, FALSE) = FALSE /\ cfg[r].force = get(env[r].FORCE_UPDATE, FALSE)
    <3>1. /\ cfg[r].dryRun = get(env[r].DRY_RUN, FALSE)
          /\ cfg[r].force = get(env[r].FORCE_UPDATE, FALSE)
      BY <2>1 DEF Load
    <3>2. cfg[r].dryRun \in BOOLEAN
      BY <2>1 DEF IInv, TypeOK, Configs
    <3> QED
      BY <2>1, <3>1, <3>2
  <2>5. env[r].DRY_RUN \in {FALSE, Empty}
    BY <2>2, <2>3, <2>4 DEF HasError, get, Environments, Optional
  <2>6. cfg[r].force => env[r].FORCE_UPDATE = TRUE
    BY <2>2, <2>4 DEF get, Environments, Optional
  <2>7. signed[r].expiry - now <= MaxTimeout
    BY <2>1, ConfigAssumption DEF IInv, TypeOK, EInv, ExpiryInv
  <2> QED
    BY <2>3, <2>5, <2>6, <2>7 DEF HasError
<1> QED
  BY <1>1, OracleInvariant, EnvironmentInvariant, PTL

\* Where Slack is configured a run posts an error if and only if it fails, at any
\* level and however the runs overlap (main.go:43-57; slack.go:146-157).
THEOREM ErrorsAreReported == OracleSpec => []ErrorsAreFailures
<1>1. EInv => ErrorsAreFailures
  BY DEF EInv
<1> QED
  BY <1>1, EnvironmentInvariant, PTL

=============================================================================
