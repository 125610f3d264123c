-------------------------- MODULE OracleTimingProofs --------------------------
(***************************************************************************)
(* The chain under the runs of the program. However they overlap its factor  *)
(* is the conversion of a price that was fetched, and what an unordered run   *)
(* leaves open at its exit was built when the buffer was gone. Runs one at a  *)
(* time overwrite a newer update only so, or where UNORDERED was changed; and *)
(* until a tx lands that its run had given up on, every change of the factor  *)
(* was due against the factor it replaced.                                   *)
(***************************************************************************)
EXTENDS OracleProofs, FactorUpdatesProofs

\* What is sent is built before the deadline, and only the deadline makes a run
\* give up on it.
TimedInv ==
    \A r \in Runs :
        /\ r \in sent /\ cfg[r].unordered => signed[r].expiry <= deadline[r] + cfg[r].timeout
        /\ outcome[r] = "unconfirmed" => deadline[r] <= now
        /\ pc[r] = "ended" => outcome[r] # "none"

\* What lands after its run had ended is ordered or was built late, and its run
\* said that it might.
StraysInv ==
    \A r \in strays :
        /\ outcome[r] = "unconfirmed"
        /\ cfg[r].unordered => Late(r)

\* One run is under way, and those before it are over.
QueueInv ==
    \A r \in Runs : pc[r] # "idle" => \A q \in Runs : q < r => pc[q] = "ended"

\* The sequence of a run's tx is no lower than those of earlier runs' txs, and
\* used up by its landing.
SequencedInv ==
    \A r \in Runs :
        /\ r \in landed /\ ~cfg[r].unordered => signed[r].seq < seq
        /\ \A q \in Runs : q < r =>
              /\ pc[r] \in {"estimating", "notifying"} => signed[q].seq <= account[r]
              /\ r \in sent /\ ~cfg[r].unordered => signed[q].seq <= signed[r].seq

\* A run past its fetch has a price that GetPrice returned.
PricedInv ==
    \A r \in Runs :
        /\ pc[r] \in {"reading", "building", "estimating", "notifying"} => price[r] \in Prices
        /\ r \in sent => price[r] \in Prices

\* While no tx has strayed, the update of the run under way is due.
DueInv ==
    strays = {} =>
        \A r \in Runs :
            /\ pc[r] \in {"building", "estimating", "notifying"} => Due(r)
            /\ pc[r] = "confirming" /\ r \in sent /\ Fate(r) = "open" => Due(r)

------------------------------------------------------------------------------
(* What is open at an exit *)

LEMMA InitTimed == OracleInit => TimedInv
BY DEF OracleInit, TimedInv

\* A step of run r that moves neither the clock nor a signature.
LEMMA TimedStepOfRun ==
    ASSUME TimedInv, NEW r \in Runs,
           UNCHANGED <<now, signed, sent, cfg>>,
           \A q \in Runs \ {r} :
              pc'[q] = pc[q] /\ outcome'[q] = outcome[q] /\ deadline'[q] = deadline[q],
           r \in sent => deadline'[r] = deadline[r],
           outcome'[r] = "unconfirmed" => deadline'[r] <= now,
           pc'[r] = "ended" => outcome'[r] # "none"
    PROVE  TimedInv'
BY DEF TimedInv

LEMMA NextTimed == IInv /\ TimedInv /\ [OracleNext]_vars => TimedInv'
<1> SUFFICES ASSUME IInv, TimedInv, [OracleNext]_vars
             PROVE  TimedInv'
  OBVIOUS
<1>0. TypeOK /\ SentInv /\ ExitInv
  BY DEF IInv
<1>1. CASE UNCHANGED vars
  BY <1>1 DEF vars, runVars, TimedInv
<1>a. ASSUME NEW r \in Runs, UNCHANGED <<now, cfg, signed, sent, deadline>>,
             NEW result \in {"failed", "skipped"}, NEW lines, End(r, result, lines)
      PROVE  TimedInv'
  BY <1>0, <1>a, TimedStepOfRun DEF End, TypeOK
<1>b. ASSUME NEW r \in Runs, pc[r] # "ended", r \notin sent, UNCHANGED <<now, cfg, signed, sent>>,
             \A q \in Runs \ {r} : deadline'[q] = deadline[q],
             NEW stage, NEW lines, stage # "ended", Goto(r, stage, lines)
      PROVE  TimedInv'
  <2>1. outcome[r] = "none" /\ outcome' = outcome
    BY <1>0, <1>b DEF Goto, ExitInv
  <2> QED
    BY <1>0, <1>b, <2>1, TimedStepOfRun DEF Goto, TypeOK
<1>2. ASSUME NEW r \in Runs, Start(r)
      PROVE  TimedInv'
  <2>1. r \notin sent
    BY <1>0, <1>2 DEF Start, SentInv
  <2> QED
    BY <1>2, <2>1, <1>a, <1>b DEF Start
<1>3. ASSUME NEW r \in Runs, NoPrice(r) \/ Fails(r)
      PROVE  TimedInv'
  BY <1>3, <1>a DEF NoPrice, Fails
<1>4. ASSUME NEW r \in Runs, NEW p \in Prices, NEW liquid \in BOOLEAN,
             FetchPrice(r, p, liquid)
      PROVE  TimedInv'
  <2>1. r \notin sent
    BY <1>0, <1>4 DEF FetchPrice, SentInv
  <2> QED
    BY <1>4, <2>1, <1>a, <1>b DEF FetchPrice
<1>5. ASSUME NEW r \in Runs, ReadParams(r)
      PROVE  TimedInv'
  <2>1. r \notin sent /\ pc[r] # "ended" /\ UNCHANGED <<now, cfg, signed, sent>>
    BY <1>0, <1>5 DEF ReadParams, SentInv
  <2>2. CASE End(r, "skipped", {SkipLine(r)}) /\ UNCHANGED deadline
    BY <2>1, <2>2, <1>a
  <2>3. CASE /\ Goto(r, "building", {})
             /\ deadline' = [deadline EXCEPT ![r] = now + submitTimeout(cfg[r])]
    <3>1. \A q \in Runs \ {r} : deadline'[q] = deadline[q]
      BY <1>0, <2>3 DEF TypeOK
    <3> QED
      BY <2>1, <2>3, <3>1, <1>b
  <2> QED
    BY <1>5, <2>2, <2>3 DEF ReadParams
<1>6. ASSUME NEW r \in Runs, LookUpAccount(r) \/ EstimateFees(r)
      PROVE  TimedInv'
  <2>1. r \notin sent
    BY <1>0, <1>6 DEF LookUpAccount, EstimateFees, SentInv
  <2> QED
    BY <1>6, <2>1, <1>b DEF LookUpAccount, EstimateFees
<1>7. ASSUME NEW r \in Runs, Sign(r)
      PROVE  TimedInv'
  <2>1. UNCHANGED <<now, cfg, deadline>> /\ r \notin sent
    BY <1>0, <1>7 DEF Sign, SentInv
  <2>2. r \in sent' => now <= deadline[r]
    BY <1>7, <2>1 DEF Sign
  <2>3. cfg[r].unordered => signed'[r].expiry = now + cfg[r].timeout
    BY <1>0, <1>7 DEF Sign, Build, TypeOK
  <2>4. now \in Int /\ deadline[r] \in Int /\ cfg[r].timeout \in Int
    BY <1>0 DEF TypeOK, Configs
  <2>5. \A q \in Runs \ {r} : signed'[q] = signed[q] /\ (q \in sent' <=> q \in sent)
    BY <1>0, <1>7 DEF Sign, TypeOK
  <2>6. \A q \in Runs \ {r} : pc'[q] = pc[q] /\ outcome'[q] = outcome[q]
    BY <1>0, <1>7 DEF Sign, Goto, End, TypeOK
  <2>7. outcome'[r] \in {"none", "skipped"} /\ (pc'[r] = "ended" => outcome'[r] = "skipped")
    BY <1>0, <1>7 DEF Sign, Goto, End, TypeOK, ExitInv
  <2> QED
    BY <2>1, <2>2, <2>3, <2>4, <2>5, <2>6, <2>7 DEF TimedInv
<1>8. ASSUME NEW r \in Runs,
             NEW v \in {"success", "deliverFailed", "rejected", "unconfirmed"},
             Report(r, v)
      PROVE  TimedInv'
  <2>1. OutcomeOf(v) # "none" /\ (OutcomeOf(v) = "unconfirmed" => v = "unconfirmed")
    BY DEF OutcomeOf
  <2>2. OutcomeOf(v) = "unconfirmed" => deadline[r] <= now
    BY <1>0, <1>8, <2>1 DEF Report, TypeOK
  <2> QED
    BY <1>0, <1>8, <2>1, <2>2, TimedStepOfRun DEF Report, End, TypeOK
<1>9. ASSUME NEW r \in Runs, Lands(r) \/ Dies(r)
      PROVE  TimedInv'
  BY <1>9 DEF Lands, Dies, runVars, TimedInv
<1>10. CASE Tick
  BY <1>0, <1>10 DEF Tick, runVars, TypeOK, TimedInv
<1> QED
  BY <1>1, <1>2, <1>3, <1>4, <1>5, <1>6, <1>7, <1>8, <1>9, <1>10 DEF OracleNext, RunStep

LEMMA TimedInvariant == OracleSpec => [](IInv /\ TimedInv)
<1>1. OracleInit => IInv /\ TimedInv
  BY InitInv, InitTimed
<1>2. IInv /\ TimedInv /\ [OracleNext]_vars => (IInv /\ TimedInv)'
  BY NextInv, NextTimed
<1> QED
  BY <1>1, <1>2, PTL DEF OracleSpec

\* A tx that is open when its run has ended was given up on; an unordered one was
\* open at the deadline, so that the buffer was gone when it was built.
LEMMA OpenIsLate ==
    ASSUME IInv, TimedInv, NEW r \in sent, pc[r] = "ended", Fate(r) = "open"
    PROVE  /\ r \in Runs /\ outcome[r] = "unconfirmed"
           /\ cfg[r].unordered => Late(r) /\ now <= deadline[r] + cfg[r].timeout
<1>1. r \in Runs
  BY DEF IInv, TypeOK
<1>2. outcome[r] = "unconfirmed"
  <2>1. outcome[r] \in {"updated", "skipped", "failed", "unconfirmed"}
    BY <1>1 DEF IInv, TypeOK, Outcomes, TimedInv
  <2> QED
    BY <1>1, <2>1 DEF IInv, ExitInv, Fate
<1>3. ASSUME cfg[r].unordered
      PROVE  Late(r) /\ now <= deadline[r] + cfg[r].timeout
  <2>1. now <= signed[r].expiry /\ deadline[r] <= now
    BY <1>1, <1>2, <1>3 DEF Fate, Valid, TimedInv
  <2>2. signed[r].expiry <= deadline[r] + cfg[r].timeout
    BY <1>1, <1>3 DEF TimedInv
  <2>3. /\ {now, signed[r].expiry, deadline[r], cfg[r].timeout} \subseteq Int
        /\ Buffer \in Nat
    BY <1>1, OracleAssumption DEF IInv, TypeOK, Configs
  <2>4. BuildTime(r) = (signed[r].expiry - cfg[r].timeout) - (deadline[r] - (cfg[r].timeout + Buffer))
    BY <1>3 DEF BuildTime, submitTimeout
  <2>5. BuildTime(r) >= Buffer
    BY <2>1, <2>3, <2>4
  <2> QED
    BY <1>3, <2>1, <2>2, <2>3, <2>5 DEF Late
<1> QED
  BY <1>1, <1>2, <1>3

\* An unordered run leaves a tx that could still be executed only if it was built
\* when the buffer was gone, for every timeout, buffer and number of runs, ordered
\* ones beside it included (main.go:216-222; submit.go:61-83).
THEOREM OnlyTheLateAreOpen == OracleSpec => []OpenOnlyIfLate
<1>1. IInv /\ TimedInv => OpenOnlyIfLate
  BY OpenIsLate DEF OpenOnlyIfLate
<1> QED
  BY <1>1, TimedInvariant, PTL

\* Of an ended run's tx nothing changes any more but the clock.
LEMMA EndedStays ==
    ASSUME IInv, [OracleNext]_vars, NEW q \in Runs, pc[q] = "ended"
    PROVE  /\ cfg' = cfg /\ pc'[q] = "ended" /\ outcome'[q] = outcome[q]
           /\ q \in sent => Late(q)' = Late(q)
<1> USE DEF IInv, TypeOK
<1>1. pc'[q] = "ended" /\ outcome'[q] = outcome[q] /\ deadline'[q] = deadline[q]
  <2>1. ASSUME NEW r \in Runs, RunStep(r)
        PROVE  pc'[q] = "ended" /\ outcome'[q] = outcome[q] /\ deadline'[q] = deadline[q]
    <3>1. r # q
      BY <2>1 DEF RunStep, Start, NoPrice, FetchPrice, ReadParams, LookUpAccount,
             EstimateFees, Sign, Fails, Report
    <3> QED
      BY <2>1, <3>1 DEF RunStep, Start, NoPrice, FetchPrice, ReadParams, LookUpAccount,
             EstimateFees, Sign, Fails, Report, Goto, End
  <2> QED
    BY <2>1 DEF OracleNext, vars, runVars, Lands, Dies, Tick
<1>2. cfg' = cfg
  BY DEF OracleNext, RunStep, vars, runVars, Start, NoPrice, FetchPrice, ReadParams,
         LookUpAccount, EstimateFees, Sign, Fails, Report, Lands, Dies, Tick
<1>3. ASSUME q \in sent
      PROVE  Late(q)' = Late(q)
  <2>1. q \in sent' /\ signed'[q] = signed[q]
    BY <1>3, SentIsKept
  <2> QED
    BY <1>1, <1>2, <1>3, <2>1 DEF Late, BuildTime, submitTimeout
<1> QED
  BY <1>1, <1>2, <1>3

\* A tx strays by landing when its run has ended.
LEMMA StraysByLanding ==
    ASSUME [OracleNext]_vars, NEW r \in strays', r \notin strays
    PROVE  r \in Runs /\ Lands(r) /\ pc[r] = "ended"
<1>1. UNCHANGED strays \/ \E q \in Runs : Lands(q)
  BY DEF OracleNext, RunStep, vars, chainVars, Start, NoPrice, FetchPrice, ReadParams,
         LookUpAccount, EstimateFees, Sign, Fails, Report, Dies, Tick
<1>2. ASSUME NEW q \in Runs, Lands(q)
      PROVE  q = r /\ pc[q] = "ended"
  BY <1>2 DEF Lands
<1> QED
  BY <1>1, <1>2

LEMMA NextStrays == IInv /\ TimedInv /\ StraysInv /\ [OracleNext]_vars => StraysInv'
<1> SUFFICES ASSUME IInv, TimedInv, StraysInv, [OracleNext]_vars, NEW r \in strays'
             PROVE  outcome'[r] = "unconfirmed" /\ (cfg'[r].unordered => Late(r)')
  BY DEF StraysInv
<1>1. CASE r \in strays
  <2>1. outcome[r] = "unconfirmed" /\ (cfg[r].unordered => Late(r))
    BY <1>1 DEF StraysInv
  <2>2. r \in Runs /\ r \in sent /\ pc[r] = "ended"
    BY <1>1, <2>1 DEF IInv, TypeOK, SentInv, ExitInv
  <2> QED
    BY <2>1, <2>2, EndedStays
<1>2. CASE r \notin strays
  <2>1. Lands(r) /\ pc[r] = "ended" /\ r \in Runs
    BY <1>2, StraysByLanding
  <2>2. r \in sent /\ Fate(r) = "open"
    BY <2>1 DEF Lands
  <2> QED
    BY <2>1, <2>2, OpenIsLate, EndedStays
<1> QED
  BY <1>1, <1>2

\* A tx that lands after its run is one the run said it could not confirm, ordered
\* or built when the buffer was gone: what strays stands for in the properties of
\* the chain (main.go:229-240).
THEOREM StraysAreGivenUp == OracleSpec => []StraysInv
<1>1. OracleInit => StraysInv
  BY DEF OracleInit, StraysInv
<1> QED
  BY <1>1, NextStrays, TimedInvariant, PTL DEF OracleSpec

------------------------------------------------------------------------------
(* The factor on chain, whatever the runs and however they overlap *)

LEMMA NextPriced == IInv /\ PricedInv /\ [OracleNext]_vars => PricedInv'
<1> SUFFICES ASSUME IInv, PricedInv, [OracleNext]_vars
             PROVE  PricedInv'
  OBVIOUS
<1> USE DEF IInv, TypeOK, PricedInv
<1>1. CASE UNCHANGED vars
  BY <1>1 DEF vars, runVars
<1>2. ASSUME NEW r \in Runs, Start(r) \/ NoPrice(r)
      PROVE  PricedInv'
  BY <1>2 DEF Start, NoPrice, Goto, End
<1>3. ASSUME NEW r \in Runs, NEW p \in Prices, NEW liquid \in BOOLEAN,
             FetchPrice(r, p, liquid)
      PROVE  PricedInv'
  BY <1>3 DEF FetchPrice, Goto, End
<1>4. ASSUME NEW r \in Runs, ReadParams(r) \/ LookUpAccount(r) \/ EstimateFees(r) \/ Fails(r)
      PROVE  PricedInv'
  BY <1>4 DEF ReadParams, LookUpAccount, EstimateFees, Fails, Goto, End
<1>5. ASSUME NEW r \in Runs, Sign(r)
      PROVE  PricedInv'
  BY <1>5 DEF Sign, Goto, End
<1>6. ASSUME NEW r \in Runs,
             NEW v \in {"success", "deliverFailed", "rejected", "unconfirmed"},
             Report(r, v)
      PROVE  PricedInv'
  BY <1>6 DEF Report, End
<1>7. ASSUME NEW r \in Runs, Lands(r) \/ Dies(r)
      PROVE  PricedInv'
  BY <1>7 DEF Lands, Dies, runVars
<1>8. CASE Tick
  BY <1>8 DEF Tick, runVars
<1> QED
  BY <1>1, <1>2, <1>3, <1>4, <1>5, <1>6, <1>7, <1>8 DEF OracleNext, RunStep

LEMMA PricedInvariant == OracleSpec => [](IInv /\ PricedInv)
<1>1. OracleInit => PricedInv
  BY DEF OracleInit, PricedInv
<1> QED
  BY <1>1, NextPriced, OracleInvariant, PTL DEF OracleSpec

\* The chain's factor changes by a landing and by nothing else.
LEMMA LandingOrNot ==
    ASSUME [OracleNext]_vars
    PROVE  \/ \E r \in Runs : Lands(r)
           \/ UNCHANGED <<factorVars, landed, seq>>
           \/ UNCHANGED <<factorVars, landed>> /\ \E r \in Runs : Dies(r)
BY DEF factorVars, OracleNext, RunStep, vars, chainVars, Start, NoPrice, FetchPrice,
       ReadParams, LookUpAccount, EstimateFees, Sign, Fails, Report, Lands, Dies, Tick

\* The factor on chain is at all times the conversion of a price a run fetched,
\* by whichever of overlapping runs, ordered or not.
THEOREM ChainHoldsAConversion == OracleSpec => []ConversionInv
<1>1. OracleInit => ConversionInv
  BY DEF OracleInit, Init, ConversionInv, Unset, IsFactorSet
<1>2. IInv /\ PricedInv /\ ConversionInv /\ [OracleNext]_vars => ConversionInv'
  <2> SUFFICES ASSUME IInv, PricedInv, ConversionInv, [OracleNext]_vars
               PROVE  ConversionInv'
    OBVIOUS
  <2>1. ASSUME NEW r \in Runs, Lands(r)
        PROVE  ConversionInv'
    BY <2>1 DEF Lands, PricedInv, ConversionInv
  <2>2. CASE UNCHANGED factorVars
    BY <2>2 DEF factorVars, ConversionInv
  <2> QED
    BY <2>1, <2>2, LandingOrNot
<1> QED
  BY <1>1, <1>2, PricedInvariant, PTL DEF OracleSpec

\* However runs overlap and whatever they are configured to, the factor on chain
\* implies the price of its update up to one part in 2 * MinDefinition
\* (README.md:17-18; convert.go:88-117).
THEOREM ChainTracks == OracleSpec => []TracksThePrice
<1>1. ConversionInv => TracksThePrice
  BY ImpliesItsPrice, PricesAssumption DEF ConversionInv, TracksThePrice
<1> QED
  BY <1>1, ChainHoldsAConversion, PTL

\* However runs overlap, a landing at a higher price never makes HASH cheaper on
\* chain (convert.go:88-97).
THEOREM ChainFollows == ScalesDivide => (OracleSpec => FollowsThePrice)
<1> SUFFICES ASSUME ScalesDivide
             PROVE  OracleSpec => FollowsThePrice
  OBVIOUS
<1> DEFINE Follow ==
       (IsFactorSet(factor) /\ AtLeast(last'.price, last.price)) =>
            AtLeast(ImpliedPrice(factor'), ImpliedPrice(factor))
<1>1. ConversionInv /\ ConversionInv' /\ IInv /\ PricedInv /\ [OracleNext]_vars
         => [Follow]_factorVars
  <2> SUFFICES ASSUME ConversionInv, IInv, PricedInv, [OracleNext]_vars,
                      ~(UNCHANGED factorVars),
                      IsFactorSet(factor), AtLeast(last'.price, last.price)
               PROVE  AtLeast(ImpliedPrice(factor'), ImpliedPrice(factor))
    BY Zenon
  <2>1. PICK r \in Runs : Lands(r)
    BY LandingOrNot
  <2>2. price[r] \in Prices /\ factor' = Compute(price[r]) /\ last'.price = price[r]
    BY <2>1 DEF Lands, PricedInv
  <2>3. price[r] \in Rationals /\ last.price \in Rationals /\ factor = Compute(last.price)
    BY <2>2, PricesAssumption DEF ConversionInv
  <2> QED
    BY <2>2, <2>3, ImpliedIsMonotone
<1> QED
  BY <1>1, ChainHoldsAConversion, PricedInvariant, PTL DEF OracleSpec, FollowsThePrice

------------------------------------------------------------------------------
(* One run at a time *)

\* What a run may step to, and what it may not.
LEMMA PcMoves ==
    ASSUME IInv, [OracleNext]_vars, NEW q \in Runs
    PROVE  /\ pc[q] = "ended" => pc'[q] = "ended"
           /\ pc[q] = "idle" /\ pc'[q] # "idle" => Start(q)
           /\ pc[q] = "idle" => pc'[q] \in {"idle", "fetching", "ended"}
<1> USE DEF IInv, TypeOK
<1>1. CASE pc' = pc
  BY <1>1
<1>2. ASSUME NEW r \in Runs, RunStep(r)
      PROVE  /\ pc[q] = "ended" => pc'[q] = "ended"
             /\ pc[q] = "idle" /\ pc'[q] # "idle" => Start(q)
             /\ pc[q] = "idle" => pc'[q] \in {"idle", "fetching", "ended"}
  <2>1. CASE Start(r)
    BY <2>1 DEF Start, Goto, End
  <2>2. CASE ~Start(r)
    BY <1>2, <2>2 DEF RunStep, NoPrice, FetchPrice, ReadParams, LookUpAccount, EstimateFees,
           Sign, Fails, Report, Goto, End
  <2> QED
    BY <2>1, <2>2
<1> QED
  BY <1>1, <1>2 DEF OracleNext, vars, runVars, Lands, Dies, Tick

\* A run moves its own state only.
LEMMA OthersStay ==
    ASSUME IInv, NEW q \in Runs, RunStep(q), NEW r \in Runs, r # q
    PROVE  pc'[r] = pc[r] /\ account'[r] = account[r] /\ (r \in sent' <=> r \in sent)
<1> USE DEF IInv, TypeOK
<1>1. CASE Sign(q)
  BY <1>1 DEF Sign, Goto, End
<1>2. CASE ~Sign(q)
  BY <1>2 DEF RunStep, Start, NoPrice, FetchPrice, ReadParams, LookUpAccount, EstimateFees,
         Fails, Report, Goto, End
<1> QED
  BY <1>1, <1>2

\* What a run is doing when it enters the submit phase, goes on in it or sends.
LEMMA SubmitSteps ==
    ASSUME IInv, [OracleNext]_vars, NEW r \in Runs
    PROVE  /\ pc'[r] \in {"building", "estimating", "notifying"} =>
                pc[r] \in {"building", "estimating", "notifying"} \/ (ReadParams(r) /\ Due(r))
           /\ pc'[r] \in {"estimating", "notifying"} =>
                \/ LookUpAccount(r)
                \/ pc[r] \in {"estimating", "notifying"} /\ account'[r] = account[r]
           /\ r \in sent' => r \in sent \/ Sign(r)
<1> USE DEF IInv, TypeOK
<1>1. CASE UNCHANGED runVars
  BY <1>1 DEF runVars
<1>2. ASSUME NEW q \in Runs, q # r, RunStep(q)
      PROVE  pc'[r] = pc[r] /\ account'[r] = account[r] /\ (r \in sent' <=> r \in sent)
  BY <1>2, OthersStay
<1>3. CASE ReadParams(r)
  BY <1>3 DEF ReadParams, Goto, End
<1>4. CASE LookUpAccount(r) \/ EstimateFees(r)
  BY <1>4 DEF LookUpAccount, EstimateFees, Goto
<1>5. CASE Sign(r)
  BY <1>5 DEF Sign, Goto, End
<1>6. CASE Start(r) \/ NoPrice(r) \/ Fails(r)
  BY <1>6 DEF Start, NoPrice, Fails, Goto, End
<1>7. ASSUME NEW p \in Prices, NEW liquid \in BOOLEAN, FetchPrice(r, p, liquid)
      PROVE  pc'[r] \in {"ended", "reading"} /\ sent' = sent
  BY <1>7 DEF FetchPrice, Goto, End
<1>8. ASSUME NEW v \in {"success", "deliverFailed", "rejected", "unconfirmed"}, Report(r, v)
      PROVE  pc'[r] = "ended" /\ sent' = sent
  BY <1>8 DEF Report, End
<1>9. RunStep(r) \/ UNCHANGED runVars \/ \E q \in Runs : q # r /\ RunStep(q)
  BY DEF OracleNext, vars, Lands, Dies, Tick
<1>10. CASE RunStep(r)
  BY <1>10, <1>3, <1>4, <1>5, <1>6, <1>7, <1>8 DEF RunStep
<1> QED
  BY <1>1, <1>2, <1>9, <1>10

LEMMA NextQueue ==
    ASSUME OneAtATime
    PROVE  IInv /\ QueueInv /\ [OracleNext]_vars => QueueInv'
<1> SUFFICES ASSUME IInv, QueueInv, [OracleNext]_vars,
                    NEW r \in Runs, pc'[r] # "idle", NEW q \in Runs, q < r
             PROVE  pc'[q] = "ended"
  BY DEF QueueInv
<1>1. pc[q] = "ended"
  <2>1. CASE pc[r] # "idle"
    BY <2>1 DEF QueueInv
  <2>2. CASE pc[r] = "idle"
    BY <2>2, PcMoves DEF Start
  <2> QED
    BY <2>1, <2>2
<1> QED
  BY <1>1, PcMoves

LEMMA NextSequenced ==
    ASSUME OneAtATime
    PROVE  IInv /\ QueueInv /\ SequencedInv /\ [OracleNext]_vars => SequencedInv'
<1> SUFFICES ASSUME IInv, QueueInv, SequencedInv, [OracleNext]_vars
             PROVE  SequencedInv'
  OBVIOUS
<1> USE DEF IInv, TypeOK
<1>1. \A q \in Runs : pc[q] = "ended" => signed'[q] = signed[q]
  BY DEF OracleNext, RunStep, vars, runVars, Start, NoPrice, FetchPrice, ReadParams,
         LookUpAccount, EstimateFees, Sign, Fails, Report, Lands, Dies, Tick
<1>2. ASSUME NEW r \in Runs, r \in landed', ~cfg'[r].unordered
      PROVE  signed'[r].seq < seq'
  <2>0. r \in sent
    BY <1>2, ChainGrows DEF Lands, SentInv
  <2>1. signed'[r] = signed[r] /\ cfg' = cfg
    BY <2>0, SentIsKept
  <2>2. CASE r \in landed
    BY <1>2, <2>1, <2>2, ChainGrows DEF SequencedInv
  <2>3. CASE r \notin landed
    <3>1. Lands(r)
      BY <1>2, <2>3, ChainGrows
    <3>2. signed[r].seq = seq /\ seq' = seq + 1
      BY <1>2, <2>1, <3>1 DEF Lands, Fate, Valid
    <3> QED
      BY <2>1, <3>2
  <2> QED
    BY <2>2, <2>3
<1>3. ASSUME NEW r \in Runs, NEW q \in Runs, q < r
      PROVE  /\ pc'[r] \in {"estimating", "notifying"} => signed'[q].seq <= account'[r]
             /\ r \in sent' /\ ~cfg'[r].unordered => signed'[q].seq <= signed'[r].seq
  <2>1. pc[r] # "idle" => signed'[q] = signed[q]
    BY <1>1, <1>3 DEF QueueInv
  <2>2. ASSUME pc'[r] \in {"estimating", "notifying"}
        PROVE  signed'[q].seq <= account'[r]
    <3>1. pc[r] # "idle"
      BY <2>2, PcMoves
    <3>2. CASE pc[r] \in {"estimating", "notifying"} /\ account'[r] = account[r]
      BY <1>3, <2>1, <3>1, <3>2 DEF SequencedInv
    <3>3. CASE LookUpAccount(r)
      BY <2>1, <3>1, <3>3 DEF LookUpAccount, SequenceInv
    <3>4. \/ LookUpAccount(r)
          \/ pc[r] \in {"estimating", "notifying"} /\ account'[r] = account[r]
      BY <2>2, SubmitSteps
    <3> QED
      BY <3>2, <3>3, <3>4
  <2>3. ASSUME r \in sent', ~cfg'[r].unordered
        PROVE  signed'[q].seq <= signed'[r].seq
    <3>1. CASE r \in sent
      <4>1. signed'[r] = signed[r] /\ cfg' = cfg
        BY <3>1, SentIsKept
      <4>2. pc[r] # "idle"
        BY <3>1 DEF SentInv
      <4> QED
        BY <1>3, <2>1, <2>3, <3>1, <4>1, <4>2 DEF SequencedInv
    <3>2. CASE r \notin sent
      <4>1. Sign(r) /\ cfg' = cfg
        BY <2>3, <3>2, SubmitSteps DEF Sign
      <4>2. signed'[r].seq = account[r] /\ pc[r] = "notifying"
        BY <2>3, <4>1 DEF Sign, Build
      <4> QED
        BY <1>3, <2>1, <4>2 DEF SequencedInv
    <3> QED
      BY <3>1, <3>2
  <2> QED
    BY <2>2, <2>3
<1> QED
  BY <1>2, <1>3 DEF SequencedInv

\* Runs in turn, their sequences in order, what they sent over when they end.
LEMMA QueueInvariant ==
    ASSUME OneAtATime
    PROVE  OracleSpec => [](IInv /\ TimedInv /\ QueueInv /\ SequencedInv)
<1>1. OracleInit => QueueInv /\ SequencedInv
  BY DEF OracleInit, QueueInv, SequencedInv
<1> QED
  BY <1>1, NextQueue, NextSequenced, TimedInvariant, PTL DEF OracleSpec

\* A landing over a newer run's is of a run that has ended: of a tx built late, or
\* of an ordered one over an unordered one, which leaves the account's sequence alone.
LEMMA OverwritesAreLate ==
    ASSUME IInv, TimedInv, QueueInv, SequencedInv, NEW r \in Runs, Lands(r),
           NEW q \in landed, r < q
    PROVE  Late(r) \/ (~cfg[r].unordered /\ cfg[q].unordered)
<1>1. q \in Runs /\ q \in sent /\ r \in sent /\ Fate(r) = "open"
  BY DEF IInv, TypeOK, SentInv, Lands
<1>2. pc[r] = "ended"
  BY <1>1 DEF QueueInv, IInv, SentInv
<1>3. cfg[r].unordered => Late(r)
  BY <1>1, <1>2, OpenIsLate
<1>4. ASSUME ~cfg[r].unordered, ~cfg[q].unordered
      PROVE  FALSE
  <2>1. signed[q].seq < seq /\ signed[r].seq <= signed[q].seq
    BY <1>1, <1>4 DEF SequencedInv
  <2>2. signed[r].seq = seq
    BY <1>4 DEF Lands, Fate, Valid
  <2>3. seq \in Int /\ signed[q].seq \in Int
    BY <1>1 DEF IInv, TypeOK
  <2> QED
    BY <2>1, <2>2, <2>3
<1> QED
  BY <1>3, <1>4

\* Runs one at a time, however many, overwrite a newer update only with one built
\* late, or with an ordered one where UNORDERED was changed; an ordered tx that is
\* still open over another needs the sequence the newer one has used up.
THEOREM NewestWins ==
    ASSUME OneAtATime
    PROVE  OracleSpec => NoStaleOverwrite
<1>1. IInv /\ TimedInv /\ QueueInv /\ SequencedInv /\ [OracleNext]_vars =>
          [\A r \in landed' \ landed, q \in landed :
              r < q => Late(r) \/ (~cfg[r].unordered /\ cfg[q].unordered)]_vars
  <2> SUFFICES ASSUME IInv, TimedInv, QueueInv, SequencedInv, OracleNext,
                      NEW r \in landed' \ landed, NEW q \in landed, r < q
               PROVE  Late(r) \/ (~cfg[r].unordered /\ cfg[q].unordered)
    OBVIOUS
  <2>1. Lands(r) /\ r \in Runs
    BY ChainGrows
  <2> QED
    BY <2>1, OverwritesAreLate
<1> QED
  BY <1>1, QueueInvariant, PTL DEF OracleSpec, NoStaleOverwrite

\* When the tx of the run under way changes the chain, no other run is past its
\* start and short of its end.
LEMMA DueAfterLanding ==
    ASSUME IInv, QueueInv, [OracleNext]_vars, NEW r \in Runs, Lands(r), pc[r] # "ended"
    PROVE  DueInv'
<1>0. TypeOK /\ SentInv
  BY DEF IInv
<1>1. pc[r] = "confirming"
  BY <1>0 DEF Lands, SentInv
<1>2. \A q \in Runs \ {r} : pc[q] \in {"idle", "ended"}
  <2> SUFFICES ASSUME NEW q \in Runs \ {r}
               PROVE  pc[q] \in {"idle", "ended"}
    OBVIOUS
  <2>1. q < r \/ r < q
    BY OracleAssumption
  <2> QED
    BY <1>1, <2>1 DEF QueueInv
<1>3. Fate(r)' = "landed"
  BY DEF Lands, Fate
<1>4. pc' = pc
  BY DEF Lands, runVars
<1> QED
  BY <1>1, <1>2, <1>3, <1>4 DEF DueInv

LEMMA NextDue == IInv /\ QueueInv /\ DueInv /\ [OracleNext]_vars => DueInv'
<1> SUFFICES ASSUME IInv, QueueInv, DueInv, [OracleNext]_vars, strays' = {}
             PROVE  DueInv'
  BY DEF DueInv
<1>0. TypeOK /\ SentInv
  BY DEF IInv
<1>s. strays = {}
  BY DEF OracleNext, RunStep, vars, chainVars, Start, NoPrice, FetchPrice, ReadParams,
         LookUpAccount, EstimateFees, Sign, Fails, Report, Lands, Dies, Tick
<1>1. ASSUME NEW r \in Runs, Lands(r)
      PROVE  DueInv'
  <2>1. pc[r] # "ended"
    BY <1>1 DEF Lands
  <2> QED
    BY <1>1, <2>1, DueAfterLanding
<1>2. ASSUME factor' = factor, NEW r \in Runs
      PROVE  /\ pc'[r] \in {"building", "estimating", "notifying"} => Due(r)'
             /\ pc'[r] = "confirming" /\ r \in sent' /\ Fate(r)' = "open" => Due(r)'
  <2>1. cfg' = cfg
    BY DEF OracleNext, RunStep, vars, runVars, Start, NoPrice, FetchPrice, ReadParams,
           LookUpAccount, EstimateFees, Sign, Fails, Report, Lands, Dies, Tick
  <2>2. price'[r] = price[r] => Due(r)' = Due(r)
    BY <1>2, <2>1 DEF Due
  <2>3. CASE price'[r] # price[r]
    <3>1. PICK q \in Runs, p \in Prices, liquid \in BOOLEAN : FetchPrice(q, p, liquid)
      BY <2>3 DEF OracleNext, RunStep, vars, runVars, Start, NoPrice, ReadParams,
             LookUpAccount, EstimateFees, Sign, Fails, Report, Lands, Dies, Tick
    <3>2. q = r
      BY <1>0, <2>3, <3>1 DEF TypeOK, FetchPrice
    <3>3. pc'[r] \in {"reading", "ended"}
      BY <1>0, <3>1, <3>2 DEF TypeOK, FetchPrice, Goto, End
    <3> QED
      BY <3>3
  <2>4. CASE price'[r] = price[r]
    <3>1. ASSUME pc'[r] \in {"building", "estimating", "notifying"}
          PROVE  Due(r)'
      <4>1. pc[r] \in {"building", "estimating", "notifying"} \/ Due(r)
        BY <3>1, SubmitSteps
      <4> QED
        BY <1>s, <2>2, <2>4, <4>1 DEF DueInv
    <3>2. ASSUME pc'[r] = "confirming", r \in sent', Fate(r)' = "open"
          PROVE  Due(r)'
      <4>1. CASE r \in sent
        <5>1. pc[r] = "confirming"
          BY <1>0, <3>2, <4>1, PcMoves DEF SentInv
        <5>2. Fate(r) = "open"
          BY <3>2, <4>1, FateStays
        <5> QED
          BY <1>s, <2>2, <2>4, <4>1, <5>1, <5>2 DEF DueInv
      <4>2. CASE r \notin sent
        <5>1. pc[r] = "notifying"
          BY <3>2, <4>2, SubmitSteps DEF Sign
        <5> QED
          BY <1>s, <2>2, <2>4, <5>1 DEF DueInv
      <4> QED
        BY <4>1, <4>2
    <3> QED
      BY <3>1, <3>2
  <2> QED
    BY <2>3, <2>4
<1>3. factor' = factor \/ \E r \in Runs : Lands(r)
  BY LandingOrNot DEF factorVars
<1> QED
  BY <1>1, <1>2, <1>3 DEF DueInv

LEMMA DueInvariant ==
    ASSUME OneAtATime
    PROVE  OracleSpec => [](IInv /\ PricedInv /\ DueInv)
<1>1. OracleInit => DueInv
  BY DEF OracleInit, DueInv
<1> QED
  BY <1>1, NextDue, QueueInvariant, PricedInvariant, PTL DEF OracleSpec

\* A change of the factor with no tx astray is an update that was due.
LEMMA LandingIsDue ==
    ASSUME IInv, PricedInv, DueInv, [OracleNext]_vars, strays' = {}, ~(UNCHANGED factorVars)
    PROVE  Next
<1>1. PICK r \in Runs : Lands(r)
  BY LandingOrNot
<1>2. strays = {} /\ pc[r] # "ended"
  BY <1>1 DEF Lands
<1>3. r \in sent /\ Fate(r) = "open" /\ pc[r] = "confirming"
  BY <1>1, <1>2 DEF Lands, IInv, SentInv
<1>4. price[r] \in Prices /\ Due(r)
  BY <1>2, <1>3 DEF PricedInv, DueInv
<1>5. cfg[r].force \in BOOLEAN
  BY DEF IInv, TypeOK, Configs
<1>6. Update(price[r], cfg[r].force)
  BY <1>1, <1>4 DEF Lands, Update, Due
<1> QED
  BY <1>4, <1>5, <1>6 DEF Next

\* The runs of the program, one at a time, ordered or not, keep the promise of
\* module FactorUpdates until a tx lands that its run had given up on: each change
\* of the factor on chain was due against the factor it replaced.
THEOREM EveryUpdateWasDue ==
    ASSUME OneAtATime
    PROVE  OracleSpec => KeepsFactorPromise
<1>1. IInv /\ PricedInv /\ DueInv /\ [OracleNext]_vars => [strays' = {} => Next]_factorVars
  BY LandingIsDue
<1> QED
  BY <1>1, DueInvariant, PTL DEF OracleSpec, KeepsFactorPromise

\* From the fetch to the block: with no tx astray, an unforced run moves the price
\* that the chain implies no further than the band and one musd, though its guard
\* compared with params it read several queries before its tx was executed
\* (guard.go:43-67).
THEOREM ChainMovesAreBounded ==
    ASSUME OneAtATime, BandIsOn
    PROVE  OracleSpec =>
             [][(strays' = {} /\ IsFactorSet(factor) /\ ~last'.forced) =>
                 LET old == ImpliedPrice(factor)
                     up == [definition |-> factor'.definition - 1,
                            converted |-> factor'.converted]
                     down == [definition |-> factor'.definition + 1,
                              converted |-> factor'.converted]
                 IN  /\ AtLeast(Times(old, MaxMoveRatio), ImpliedPrice(up))
                     /\ AtLeast(ImpliedPrice(down), Over(old, MaxMoveRatio))]_factorVars
<1>1. IInv /\ PricedInv /\ DueInv /\ ConversionInv /\ [OracleNext]_vars =>
          [(strays' = {} /\ IsFactorSet(factor) /\ ~last'.forced) =>
              LET old == ImpliedPrice(factor)
                  up == [definition |-> factor'.definition - 1,
                         converted |-> factor'.converted]
                  down == [definition |-> factor'.definition + 1,
                           converted |-> factor'.converted]
              IN  /\ AtLeast(Times(old, MaxMoveRatio), ImpliedPrice(up))
                  /\ AtLeast(ImpliedPrice(down), Over(old, MaxMoveRatio))]_factorVars
  BY LandingIsDue, MoveIsBounded
<1> QED
  BY <1>1, DueInvariant, ChainHoldsAConversion, PTL DEF OracleSpec

\* What config.go:85-88 says of MAX_PRICE_MOVE_RATIO as a step of the chain is so
\* of runs one at a time until a tx strays, which run stale_guard needs.
THEOREM BandHoldsUntilStray ==
    ASSUME OneAtATime
    PROVE  OracleSpec =>
             [][strays' = {} /\ factor' # factor /\ ~last'.forced
                  => WithinBand(last'.price, factor)]_vars
<1>1. IInv /\ PricedInv /\ DueInv /\ [OracleNext]_vars =>
          [strays' = {} /\ factor' # factor /\ ~last'.forced
             => WithinBand(last'.price, factor)]_vars
  <2> SUFFICES ASSUME IInv, PricedInv, DueInv, OracleNext, strays' = {}, factor' # factor,
                      ~last'.forced
               PROVE  WithinBand(last'.price, factor)
    OBVIOUS
  <2>1. Next
    BY LandingIsDue DEF factorVars
  <2>2. PICK p \in Prices, forced \in BOOLEAN : Update(p, forced)
    BY <2>1 DEF Next
  <2> QED
    BY <2>2 DEF Update, Updates
<1> QED
  BY <1>1, DueInvariant, PTL DEF OracleSpec

=============================================================================
