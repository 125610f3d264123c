-------------------------- MODULE BroadcasterProofs --------------------------
(***************************************************************************)
(* BroadcastAndConfirm for every set of transactions, every retry            *)
(* configuration and, but for the promise itself, every fault of the node.   *)
(***************************************************************************)
EXTENDS Broadcaster, TLAPS

\* Whatever travels, waits or landed is the caller's tx and no other.
OwnTxOnly ==
    /\ \A req \in wire : req.tx = txBytes
    /\ answer.hash \in {txBytes, NoHash}
    /\ pool \subseteq {txBytes}
    /\ \A t \in Txs : chain[t] # "none" => t = txBytes

\* Where Do, Broadcast and Confirm are, seen from one another.
StageInv ==
    /\ phase = "returned" <=> stage # "broadcasting"
    /\ phase = "backoff" => attempt < Do!Limit
    /\ verdict # "none" <=> stage = "done"
    /\ hash \in {txBytes, NoHash}
    /\ NoHash = hash /\ stage \in {"polling", "sleeping"}
         => "nohash" \in NodeFaults /\ bErr = "none"
    /\ answer.code # "none" /\ answer.hash = NoHash => "nohash" \in NodeFaults

\* A tx executed in a block is not waiting for another.
ExecutedOnce == \A t \in Txs : t \in pool => chain[t] = "none"

IInv ==
    /\ TypeOK
    /\ OwnTxOnly
    /\ ExecutedOnce
    /\ StageInv
    /\ HonestVerdicts

LEMMA LimitType == Do!Limit \in Nat \ {0}
<1>1. RetryCfg.Attempts \in Int
  BY BroadcasterAssumption DEF Do!Configs
<1> QED
  BY <1>1 DEF Do!Limit

LEMMA InitInv == Init => IInv
<1> SUFFICES ASSUME Init
             PROVE  IInv
  OBVIOUS
<1> USE BroadcasterAssumption DEF Init
<1>1. NodeTypeOK
  BY DEF NodeInit, NodeTypeOK, Results
<1>2. Do!TypeOK
  <2>1. ctxDone \in BOOLEAN
    OBVIOUS
  <2>2. attempt \in 1..Do!Limit
    BY LimitType DEF Do!Start
  <2>3. RetryCfg \in Do!Configs
    OBVIOUS
  <2> QED
    BY <2>1, <2>2, <2>3 DEF Do!Start, Do!TypeOK
<1>3. TypeOK
  BY <1>1, <1>2 DEF TypeOK, NoAnswer, Answers, Hashes
<1>4. OwnTxOnly /\ ExecutedOnce
  BY DEF NodeInit, NoAnswer, OwnTxOnly, ExecutedOnce
<1>5. StageInv /\ HonestVerdicts
  BY DEF Do!Start, NoAnswer, StageInv, HonestVerdicts
<1> QED
  BY <1>3, <1>4, <1>5 DEF IInv

\* The node never changes the client, keeps its types, and only moves the tx it
\* has: what GetTx found once is found the same ever after.
LEMMA NodeKeeps ==
    ASSUME NodeTypeOK, pool \subseteq {txBytes}, ExecutedOnce, NodeStep,
           \A t \in Txs : chain[t] # "none" => t = txBytes
    PROVE  /\ NodeTypeOK'
           /\ pool' \subseteq {txBytes}
           /\ \A t \in Txs : chain'[t] # "none" => t = txBytes
           /\ chain[txBytes] # "none" => chain' = chain
           /\ ExecutedOnce'
BY DEF NodeTypeOK, Results, NodeStep, Include, Evict, Restart, Bar, ExecutedOnce

LEMMA CheckTxKeeps ==
    ASSUME NodeTypeOK, pool \subseteq {txBytes}, ExecutedOnce,
           NEW code \in Codes, CheckTx(txBytes, code)
    PROVE  /\ NodeTypeOK'
           /\ pool' \subseteq {txBytes}
           /\ chain' = chain
           /\ ExecutedOnce'
BY BroadcasterAssumption DEF NodeTypeOK, CheckTx, nodeVars, ExecutedOnce

\* A call of Do keeps its ranges, and either Do returned or goes on.
LEMMA CallKeeps ==
    ASSUME Do!TypeOK, NEW outcome \in {"ok", "transient", "permanent"},
           Do!CallReturns(outcome)
    PROVE  /\ Do!TypeOK'
           /\ phase = "call"
           /\ phase' \in {"backoff", "returned"}
           /\ phase' = "backoff" => attempt' < Do!Limit
           /\ outcome # "transient" => phase' = "returned"
           /\ ctxDone' = ctxDone
<1> USE DEF Do!CallReturns, Do!Return, Do!EnterSelect, Do!TypeOK
<1>1. /\ phase = "call"
      /\ phase' \in {"backoff", "returned"}
      /\ ctxDone' = ctxDone
      /\ attempt' = attempt
      /\ outcome # "transient" => phase' = "returned"
  OBVIOUS
<1>2. ret' \in Do!Returns \union {"none"}
  BY DEF Do!Returns
<1>3. phase' = "backoff" => attempt' < Do!Limit
  OBVIOUS
<1>4. Do!TypeOK'
  BY <1>1, <1>2 DEF Do!Limit
<1> QED
  BY <1>1, <1>3, <1>4

LEMMA BackoffKeeps ==
    ASSUME Do!TypeOK, phase = "backoff" => attempt < Do!Limit,
           Do!BackoffElapses \/ Do!BackoffCancelled
    PROVE  /\ Do!TypeOK'
           /\ phase = "backoff"
           /\ phase' \in {"call", "returned"}
           /\ ctxDone' = ctxDone
<1> USE DEF Do!BackoffElapses, Do!BackoffCancelled, Do!Return
<1>1. phase = "backoff" /\ phase' \in {"call", "returned"} /\ ctxDone' = ctxDone
  OBVIOUS
<1>2. ret' \in Do!Returns \union {"none"}
  BY DEF Do!Returns, Do!TypeOK
<1>3. attempt' \in 1..Do!Limit
  BY LimitType DEF Do!TypeOK
<1> QED
  BY <1>1, <1>2, <1>3 DEF Do!TypeOK, Do!Limit

\* Broadcast's return leads to Confirm with the hash of the caller's bytes, or
\* with none if the node gave none, or to a refusal.
ReturnFacts(err) ==
    /\ bErr' = err
    /\ stage' \in {"polling", "done"}
    /\ stage' = "done" => verdict' = "rejected"
    /\ stage' = "polling" => verdict' = "none"
    /\ hash' \in {txBytes, NoHash}
    /\ NoHash = hash' /\ stage' = "polling"
         => "nohash" \in NodeFaults /\ bErr' = "none"

LEMMA ReturnKeeps ==
    ASSUME NEW err \in {"none", "rpc", "duplicate", "rejected"},
           NEW nodeHash \in {txBytes, NoHash},
           err = "none" /\ nodeHash = NoHash => "nohash" \in NodeFaults,
           BroadcastReturns(err, nodeHash), verdict = "none"
    PROVE  ReturnFacts(err)
BY BroadcasterAssumption
   DEF ReturnFacts, BroadcastReturns, Refuse, GoOnToConfirm, PollHash

\* A step in which Do returns and Broadcast with it.
LEMMA OverInv ==
    ASSUME IInv, NEW err \in {"none", "rpc", "duplicate", "rejected"},
           ReturnFacts(err), phase' = "returned", Do!TypeOK',
           sent' \in BOOLEAN, answer' \in {answer, NoAnswer},
           UNCHANGED <<nodeVars, wire>>
    PROVE  IInv'
<1> USE BroadcasterAssumption
        DEF IInv, TypeOK, OwnTxOnly, StageInv, HonestVerdicts
<1>1. answer' \in Answers
  BY DEF NoAnswer, Answers, Hashes
<1>2. NodeTypeOK' /\ ExecutedOnce'
  BY DEF nodeVars, NodeTypeOK, ExecutedOnce
<1>3. TypeOK'
  BY <1>1, <1>2 DEF ReturnFacts, Verdicts, Hashes
<1>4. OwnTxOnly'
  BY DEF nodeVars, NoAnswer
<1>5. StageInv' /\ HonestVerdicts'
  BY DEF nodeVars, NoAnswer, ReturnFacts
<1> QED
  BY <1>2, <1>3, <1>4, <1>5

\* A step of Do after which it goes on.
LEMMA RunningInv ==
    ASSUME IInv, phase # "returned", phase' \in {"call", "backoff"}, Do!TypeOK',
           phase' = "backoff" => attempt' < Do!Limit,
           sent' \in BOOLEAN, answer' \in {answer, NoAnswer},
           UNCHANGED <<nodeVars, wire, stage, bErr, hash, verdict>>
    PROVE  IInv'
<1> USE BroadcasterAssumption
        DEF IInv, TypeOK, OwnTxOnly, StageInv, HonestVerdicts
<1>1. answer' \in Answers
  BY DEF NoAnswer, Answers, Hashes
<1>2. NodeTypeOK' /\ ExecutedOnce'
  BY DEF nodeVars, NodeTypeOK, ExecutedOnce
<1>3. TypeOK' /\ OwnTxOnly'
  BY <1>1, <1>2 DEF nodeVars, NoAnswer
<1>4. StageInv' /\ HonestVerdicts'
  BY DEF nodeVars, NoAnswer
<1> QED
  BY <1>2, <1>3, <1>4

\* Each step of the client or of the node keeps the invariant.
LEMMA NextInv == IInv /\ [Next]_vars => IInv'
<1> SUFFICES ASSUME IInv, [Next]_vars
             PROVE  IInv'
  OBVIOUS
<1> USE BroadcasterAssumption
        DEF IInv, TypeOK, OwnTxOnly, StageInv, HonestVerdicts
<1>a. /\ NodeTypeOK /\ UNCHANGED nodeVars => NodeTypeOK'
      /\ ExecutedOnce /\ UNCHANGED nodeVars => ExecutedOnce'
  BY DEF nodeVars, NodeTypeOK, ExecutedOnce
<1>b. Do!TypeOK /\ UNCHANGED doVars => Do!TypeOK'
  BY DEF doVars, Do!TypeOK, Do!Limit
<1>1. CASE SendBroadcast
  <2>1. [attempt |-> attempt, tx |-> txBytes] \in Requests
    BY BroadcasterAssumption DEF Requests, Do!TypeOK
  <2> QED
    BY <1>1, <1>a, <1>b, <2>1 DEF SendBroadcast, nodeVars, doVars
<1>2. ASSUME NEW req \in wire, NodeHandles(req)
      PROVE  IInv'
  <2>1. PICK code \in Codes : CheckTx(req.tx, code)
             /\ \E h \in IF "nohash" \in NodeFaults THEN {req.tx, NoHash} ELSE {req.tx} :
                  answer' = IF phase = "call" /\ req.attempt = attempt
                            THEN [code |-> code, hash |-> h] ELSE answer
    BY <1>2 DEF NodeHandles
  <2>2. NodeTypeOK' /\ pool' \subseteq {txBytes} /\ chain' = chain /\ ExecutedOnce'
    BY <2>1, CheckTxKeeps
  <2>3. \/ answer' = answer
        \/ \E h \in {txBytes, NoHash} :
             /\ answer' = [code |-> code, hash |-> h]
             /\ h = NoHash => "nohash" \in NodeFaults
    BY <2>1
  <2>4. /\ answer' \in Answers
        /\ answer'.hash \in {txBytes, NoHash}
        /\ answer'.code # "none" /\ answer'.hash = NoHash => "nohash" \in NodeFaults
    <3>1. CASE answer' = answer
      BY <3>1
    <3>2. ASSUME NEW h \in {txBytes, NoHash}, answer' = [code |-> code, hash |-> h],
                 h = NoHash => "nohash" \in NodeFaults
          PROVE  <2>4!1
      BY <3>2 DEF Answers, Hashes
    <3> QED
      BY <2>3, <3>1, <3>2
  <2>5. wire' \subseteq wire
        /\ UNCHANGED <<doVars, sent, stage, bErr, hash, verdict>>
    BY <1>2 DEF NodeHandles
  <2>6. TypeOK' /\ OwnTxOnly'
    BY <1>b, <2>2, <2>4, <2>5
  <2>7. StageInv'
    BY <2>4, <2>5 DEF doVars
  <2>8. HonestVerdicts'
    BY <2>2, <2>5
  <2> QED
    BY <2>2, <2>6, <2>7, <2>8
<1>3. ASSUME NEW req \in wire, LoseRequest(req)
      PROVE  IInv'
  BY <1>3, <1>a, <1>b DEF LoseRequest, nodeVars, doVars
<1>4. CASE AnswerArrives
  <2> DEFINE err == IF answer.code = "accepted" THEN "none" ELSE answer.code
  <2>1. answer.code # "none" /\ answer.hash \in {txBytes, NoHash}
    BY <1>4 DEF AnswerArrives
  <2>2. err \in {"none", "rpc", "duplicate", "rejected"}
    BY <2>1 DEF Answers, Codes
  <2>3. Do!CallReturns("ok") /\ BroadcastReturns(err, answer.hash)
    BY <1>4 DEF AnswerArrives
  <2>4. phase = "call" /\ phase' = "returned" /\ Do!TypeOK'
    BY <2>3, CallKeeps
  <2>5. sent' = FALSE /\ answer' = NoAnswer /\ UNCHANGED <<nodeVars, wire>>
    BY <1>4 DEF AnswerArrives
  <2>6. ReturnFacts(err)
    <3>1. err = "none" /\ answer.hash = NoHash => "nohash" \in NodeFaults
      BY <2>1
    <3> HIDE DEF err
    <3> QED
      BY <2>1, <2>2, <2>3, <2>4, <3>1, ReturnKeeps
  <2> HIDE DEF err
  <2> QED
    BY <1>a, <2>2, <2>4, <2>5, <2>6, OverInv
<1>5. CASE NilResponse
  <2>1. Do!CallReturns("ok") /\ BroadcastReturns("rpc", NoHash)
    BY <1>5 DEF NilResponse
  <2>2. phase = "call" /\ phase' = "returned" /\ Do!TypeOK'
    BY <2>1, CallKeeps
  <2>3. sent' = FALSE /\ answer' = NoAnswer /\ UNCHANGED <<nodeVars, wire>>
    BY <1>5 DEF NilResponse
  <2>4. ReturnFacts("rpc")
    BY <2>1, <2>2, ReturnKeeps
  <2> QED
    BY <2>2, <2>3, <2>4, OverInv
<1>6. ASSUME NEW o \in {"transient", "permanent"}, CallFails(o)
      PROVE  IInv'
  <2>1. /\ phase = "call"
        /\ phase' \in {"backoff", "returned"}
        /\ phase' = "backoff" => attempt' < Do!Limit
        /\ Do!TypeOK'
    BY <1>6, CallKeeps DEF CallFails
  <2>2. sent' = FALSE /\ answer' = NoAnswer /\ UNCHANGED <<nodeVars, wire>>
    BY <1>6 DEF CallFails
  <2>3. CASE phase' = "returned"
    <3>1. ReturnFacts("rpc")
      BY <1>6, <2>1, <2>3, ReturnKeeps DEF CallFails, AfterDo
    <3> QED
      BY <2>1, <2>2, <2>3, <3>1, OverInv
  <2>4. CASE phase' = "backoff"
    <3>1. UNCHANGED <<stage, bErr, hash, verdict>>
      BY <1>6, <2>4 DEF CallFails, AfterDo
    <3> QED
      BY <2>1, <2>2, <2>4, <3>1, RunningInv
  <2> QED
    BY <2>1, <2>3, <2>4
<1>7. CASE BackoffEnds
  <2>1. /\ phase = "backoff"
        /\ phase' \in {"call", "returned"}
        /\ Do!TypeOK'
    BY <1>7, BackoffKeeps DEF BackoffEnds
  <2>2. UNCHANGED <<nodeVars, sent, wire, answer>>
    BY <1>7 DEF BackoffEnds
  <2>3. CASE phase' = "returned"
    <3>1. ReturnFacts("rpc")
      BY <1>7, <2>1, <2>3, ReturnKeeps DEF BackoffEnds, AfterDo
    <3> QED
      BY <2>1, <2>2, <2>3, <3>1, OverInv
  <2>4. CASE phase' = "call"
    <3>1. UNCHANGED <<stage, bErr, hash, verdict>>
      BY <1>7, <2>4 DEF BackoffEnds, AfterDo
    <3> QED
      BY <2>1, <2>2, <2>4, <3>1, RunningInv
  <2> QED
    BY <2>1, <2>3, <2>4
<1>8. CASE PollFinds
  <2>1. hash = txBytes /\ chain[txBytes] \in {"ok", "failed"}
    BY <1>8 DEF PollFinds, NodeTypeOK, Results
  <2>2. verdict' = IF chain[txBytes] = "ok" THEN "success" ELSE "deliverFailed"
    BY <1>8, <2>1 DEF PollFinds, PollVerdict
  <2> QED
    BY <1>8, <1>a, <1>b, <2>1, <2>2 DEF PollFinds, nodeVars, doVars, Verdicts
<1>9. CASE PollMisses
  BY <1>9, <1>a, <1>b DEF PollMisses, AfterMiss, GiveUp, nodeVars, doVars, Verdicts
<1>10. CASE SleepEnds
  BY <1>10, <1>a, <1>b DEF SleepEnds, GiveUp, nodeVars, doVars, Verdicts
<1>11. CASE Deadline
  BY <1>11, <1>a DEF Deadline, nodeVars, clientVars, Do!TypeOK, Do!Limit
<1>12. CASE NodeStep /\ UNCHANGED <<doVars, clientVars>>
  BY <1>12, <1>b, NodeKeeps DEF doVars, clientVars
<1>13. CASE UNCHANGED vars
  BY <1>13, <1>a, <1>b DEF vars, nodeVars, doVars, clientVars
<1> QED
  BY <1>1, <1>2, <1>3, <1>4, <1>5, <1>6, <1>7, <1>8, <1>9, <1>10, <1>11, <1>12,
     <1>13 DEF Next, CallEnds, Poll

\* The inductive invariant holds in every state, whatever the node's faults.
THEOREM BroadcasterInvariant == Spec => []IInv
BY InitInv, NextInv, PTL DEF Spec

\* The variables of client and node keep their ranges.
THEOREM BroadcasterTypeCorrect == Spec => []TypeOK
<1>1. IInv => TypeOK
  BY DEF IInv
<1> QED
  BY BroadcasterInvariant, <1>1, PTL

\* "success" and "deliverFailed" are what the chain says of the caller's tx.
THEOREM VerdictsAreHonest == Spec => []HonestVerdicts
<1>1. IInv => HonestVerdicts
  BY DEF IInv
<1> QED
  BY BroadcasterInvariant, <1>1, PTL

\* Confirm polls the hash of the bytes that were sent.
THEOREM ConfirmPollsOwnTx == Spec => []PollsOwnTx
<1>1. IInv => PollsOwnTx
  BY DEF IInv, StageInv, PollsOwnTx
<1> QED
  BY BroadcasterInvariant, <1>1, PTL

------------------------------------------------------------------------------
(* The promise, kept with a node that loses txs but not its cache *)

NodeAssumption == NodeFaults \subseteq {"evict"}

\* No request still under way can bring the tx into the mempool any more.
Refused == Fate = "dead" /\ txBytes \notin pool

\* A tx that waits or landed is still in the cache, so a replay is a duplicate
\* and not a rejection; a rejection under way is final.
PromiseInv ==
    /\ chain[txBytes] = "ok" => txBytes \in cache
    /\ txBytes \in pool => txBytes \in cache
    /\ answer.code = "rejected" => Refused
    /\ verdict = "rejected" => Refused

LEMMA PromiseInit == Init => PromiseInv /\ Promise!Init
BY BroadcasterAssumption
   DEF Init, NodeInit, NoAnswer, PromiseInv, Refused, Fate, Promise!Init

\* What the node does to the fate: settle it, or nothing.
LEMMA NodeSettles ==
    ASSUME NodeAssumption, IInv, PromiseInv, NodeStep
    PROVE  /\ chain'[txBytes] = "ok" => txBytes \in cache'
           /\ txBytes \in pool' => txBytes \in cache'
           /\ Refused => Refused'
           /\ Fate = "dead" => Fate' = "dead"
           /\ Fate = "landed" => Fate' = "landed"
           /\ Fate' \in {"open", "dead", "landed"}
BY BroadcasterAssumption
   DEF NodeAssumption, IInv, TypeOK, NodeTypeOK, Results, OwnTxOnly, ExecutedOnce,
       PromiseInv, Refused, Fate, NodeStep, Include, Evict, Restart, Bar

PromiseStep == PromiseInv' /\ [Promise!Next]_(Promise!subVars)

\* A step that leaves the fate alone and tells the caller nothing, or what fits.
LEMMA ClientPromise ==
    ASSUME PromiseInv, UNCHANGED <<chain, barred>>, cache \subseteq cache',
           txBytes \in pool' => txBytes \in cache',
           Refused => txBytes \notin pool',
           answer'.code = "rejected" => Refused,
           \/ verdict' = verdict
           \/ /\ verdict = "none"
              /\ verdict' \in Verdicts
              /\ verdict' = "success" => Fate = "landed"
              /\ verdict' = "deliverFailed" => Fate = "dead"
              /\ verdict' = "rejected" => Refused
    PROVE  PromiseStep
<1>1. Fate' = Fate
  BY DEF Fate
<1>2. PromiseInv'
  BY <1>1 DEF PromiseInv, Refused
<1>3. CASE verdict' = verdict
  BY <1>1, <1>2, <1>3 DEF PromiseStep, Promise!subVars
<1>4. CASE verdict' # verdict
  <2>1. verdict = "none" /\ verdict' \in Verdicts
    BY <1>4
  <2>2. Promise!Fits(verdict')
    BY <1>4, <2>1 DEF Promise!Fits, Verdicts, Refused
  <2>3. Promise!Report
    BY <1>1, <2>1, <2>2 DEF Promise!Report, Verdicts
  <2> QED
    BY <1>2, <2>3 DEF PromiseStep, Promise!Next
<1> QED
  BY <1>3, <1>4

\* Every step keeps PromiseInv and is a step or a stutter of Submission.
LEMMA NextPromise ==
    ASSUME NodeAssumption
    PROVE  IInv /\ PromiseInv /\ [Next]_vars => PromiseStep
<1> SUFFICES ASSUME IInv, PromiseInv, [Next]_vars
             PROVE  PromiseStep
  OBVIOUS
<1> USE BroadcasterAssumption DEF NodeAssumption, nodeVars
<1>n. NoAnswer.code # "rejected"
  BY DEF NoAnswer
<1>0. /\ answer.code = "rejected" => Refused
      /\ txBytes \in pool => txBytes \in cache
      /\ Refused => txBytes \notin pool
  BY DEF PromiseInv, Refused
<1>1. CASE SendBroadcast
  BY <1>0, <1>1, ClientPromise DEF SendBroadcast
<1>2. ASSUME NEW req \in wire, NodeHandles(req)
      PROVE  PromiseStep
  <2>1. PICK code \in Codes : CheckTx(req.tx, code)
             /\ \E h \in IF "nohash" \in NodeFaults THEN {req.tx, NoHash} ELSE {req.tx} :
                  answer' = IF phase = "call" /\ req.attempt = attempt
                            THEN [code |-> code, hash |-> h] ELSE answer
    BY <1>2 DEF NodeHandles
  <2>2. req.tx = txBytes
    BY DEF IInv, OwnTxOnly
  <2>3. UNCHANGED <<chain, barred>> /\ cache \subseteq cache' /\ verdict' = verdict
    BY <1>2, <2>1 DEF NodeHandles, CheckTx
  <2>4. /\ code = "rejected" => Refused
        /\ txBytes \in pool' => txBytes \in cache'
        /\ Refused => txBytes \notin pool'
    BY <2>1, <2>2
       DEF CheckTx, PromiseInv, Refused, Fate, IInv, TypeOK, NodeTypeOK, Results
  <2>5. answer'.code = "rejected" => Refused
    BY <1>0, <2>1, <2>4
  <2> QED
    BY <2>3, <2>4, <2>5, ClientPromise
<1>3. ASSUME NEW req \in wire, LoseRequest(req)
      PROVE  PromiseStep
  BY <1>0, <1>3, ClientPromise DEF LoseRequest
<1>4. CASE AnswerArrives
  <2>1. verdict = "none"
    BY <1>4, CallKeeps DEF AnswerArrives, IInv, StageInv, TypeOK
  <2>2. verdict' = verdict \/ (verdict' = "rejected" /\ answer.code = "rejected")
    BY <1>4 DEF AnswerArrives, BroadcastReturns, Refuse, GoOnToConfirm
  <2> QED
    BY <1>n, <1>0, <1>4, <2>1, <2>2, ClientPromise DEF AnswerArrives, Verdicts
<1>5. CASE NilResponse
  BY <1>n, <1>0, <1>5, ClientPromise
     DEF NilResponse, BroadcastReturns, Refuse, GoOnToConfirm
<1>6. ASSUME NEW o \in {"transient", "permanent"}, CallFails(o)
      PROVE  PromiseStep
  <2>1. verdict' = verdict
    BY <1>6 DEF CallFails, AfterDo, BroadcastReturns, Refuse, GoOnToConfirm
  <2> QED
    BY <1>n, <1>0, <1>6, <2>1, ClientPromise DEF CallFails
<1>7. CASE BackoffEnds
  <2>1. verdict' = verdict
    BY <1>7 DEF BackoffEnds, AfterDo, BroadcastReturns, Refuse, GoOnToConfirm
  <2> QED
    BY <1>0, <1>7, <2>1, ClientPromise DEF BackoffEnds
<1>8. CASE PollFinds
  <2>1. verdict = "none" /\ hash = txBytes /\ chain[txBytes] \in {"ok", "failed"}
    BY <1>8 DEF PollFinds, IInv, StageInv, TypeOK, NodeTypeOK, Results
  <2>2. verdict' = IF chain[txBytes] = "ok" THEN "success" ELSE "deliverFailed"
    BY <1>8, <2>1 DEF PollFinds, PollVerdict
  <2>3. /\ verdict' = "success" => Fate = "landed"
        /\ verdict' = "deliverFailed" => Fate = "dead"
        /\ verdict' # "rejected"
    BY <2>1, <2>2 DEF Fate
  <2> QED
    BY <1>0, <1>8, <2>1, <2>2, <2>3, ClientPromise DEF PollFinds, Verdicts
<1>9. CASE PollMisses
  BY <1>0, <1>9, ClientPromise
     DEF PollMisses, AfterMiss, GiveUp, Verdicts, IInv, StageInv
<1>10. CASE SleepEnds
  BY <1>0, <1>10, ClientPromise DEF SleepEnds, GiveUp, Verdicts, IInv, StageInv
<1>11. CASE Deadline
  BY <1>0, <1>11, ClientPromise DEF Deadline, clientVars
<1>12. CASE NodeStep /\ UNCHANGED <<doVars, clientVars>>
  <2>1. PromiseInv'
    BY <1>12, NodeSettles DEF PromiseInv, clientVars
  <2>2. Fate' = Fate \/ (Fate = "open" /\ Fate' \in {"landed", "dead"})
    BY <1>12, NodeSettles DEF Fate
  <2>3. UNCHANGED Promise!subVars \/ Promise!Settle
    BY <1>12, <2>2 DEF Promise!subVars, Promise!Settle, clientVars
  <2> QED
    BY <2>1, <2>3 DEF PromiseStep, Promise!Next
<1>13. CASE UNCHANGED vars
  BY <1>0, <1>13, ClientPromise DEF vars, clientVars
<1> QED
  BY <1>1, <1>2, <1>3, <1>4, <1>5, <1>6, <1>7, <1>8, <1>9, <1>10, <1>11, <1>12,
     <1>13 DEF Next, CallEnds, Poll

\* With a node that keeps its cache, Broadcaster implements Submission (safety):
\* it starts as Submission does and every step is one of Submission or a stutter.
THEOREM BroadcasterKeepsPromise ==
    ASSUME NodeAssumption
    PROVE  Spec => Promise!Init /\ [][Promise!Next]_(Promise!subVars)
<1>1. Init => IInv /\ PromiseInv /\ Promise!Init
  BY InitInv, PromiseInit
<1>2. IInv /\ PromiseInv /\ [Next]_vars
        => IInv' /\ PromiseInv' /\ [Promise!Next]_(Promise!subVars)
  BY NextInv, NextPromise DEF PromiseStep
<1> QED
  BY <1>1, <1>2, PTL DEF Spec

\* With such a node, a tx reported as refused never lands.
THEOREM RejectionIsTrue ==
    ASSUME NodeAssumption
    PROVE  Spec => []RejectedNeverLanded
<1>1. Init => IInv /\ PromiseInv
  BY InitInv, PromiseInit
<1>2. IInv /\ PromiseInv /\ [Next]_vars => IInv' /\ PromiseInv'
  BY NextInv, NextPromise DEF PromiseStep
<1>3. PromiseInv => RejectedNeverLanded
  BY DEF PromiseInv, Refused, Fate, RejectedNeverLanded
<1> QED
  BY <1>1, <1>2, <1>3, PTL DEF Spec

\* With such a node, nothing about the tx changes on chain once the caller has a
\* definite verdict.
THEOREM DefiniteVerdictsAreFinal ==
    ASSUME NodeAssumption
    PROVE  Spec => VerdictsAreFinal
<1>1. Init => IInv /\ PromiseInv
  BY InitInv, PromiseInit
<1>2. IInv /\ PromiseInv /\ [Next]_vars => IInv' /\ PromiseInv'
  BY NextInv, NextPromise DEF PromiseStep
<1>3. IInv /\ PromiseInv /\ [Next]_vars
        => [(verdict \in Verdicts \ {"unconfirmed"}) => UNCHANGED chain[txBytes]]_vars
  <2> SUFFICES ASSUME IInv, PromiseInv, Next, verdict \in Verdicts \ {"unconfirmed"}
               PROVE  UNCHANGED chain[txBytes]
    BY DEF vars, nodeVars
  <2>1. CASE NodeStep
    <3>1. CASE chain[txBytes] # "none"
      BY <2>1, <3>1, NodeKeeps DEF IInv, TypeOK, OwnTxOnly
    <3>2. CASE chain[txBytes] = "none"
      <4>1. txBytes \notin pool
        BY <3>2 DEF IInv, HonestVerdicts, PromiseInv, Refused, Verdicts
      <4> QED
        BY <2>1, <4>1, BroadcasterAssumption
           DEF NodeStep, Include, Evict, Restart, Bar, IInv, OwnTxOnly
    <3> QED
      BY <3>1, <3>2
  <2>2. CASE ~NodeStep
    BY <2>2 DEF Next, SendBroadcast, NodeHandles, CheckTx, LoseRequest, CallEnds,
                AnswerArrives, NilResponse, CallFails, BackoffEnds, Poll,
                PollFinds, PollMisses, SleepEnds, Deadline, nodeVars
  <2> QED
    BY <2>1, <2>2
<1> QED
  BY <1>1, <1>2, <1>3, PTL DEF Spec, VerdictsAreFinal

------------------------------------------------------------------------------
(* The call ends *)

\* What the client still has to do once its context has ended: the wait, the
\* call and the poll it is in, none of them to be followed by another.
Left ==
    CASE stage = "done" -> 0
      [] stage = "polling" -> 1
      [] stage = "sleeping" -> 2
      [] stage = "broadcasting" -> IF phase = "call" THEN 2 ELSE 3

clientControl == <<doVars, stage, bErr, hash, verdict>>

LEMMA LeftFalls ==
    ASSUME IInv, Next, ctxDone
    PROVE  Left' < Left \/ UNCHANGED clientControl
<1>0. /\ stage \in {"broadcasting", "polling", "sleeping", "done"}
      /\ phase \in {"call", "backoff", "returned"}
      /\ phase = "returned" <=> stage # "broadcasting"
  BY DEF IInv, TypeOK, Do!TypeOK, StageInv
<1>1. ASSUME NEW outcome \in {"ok", "transient", "permanent"}, Do!CallReturns(outcome)
      PROVE  phase = "call" /\ phase' = "returned" /\ stage = "broadcasting" /\ Left = 2
  BY <1>0, <1>1 DEF Do!CallReturns, Do!Return, Do!EnterSelect, Left
<1>2. ASSUME NEW err, NEW h, BroadcastReturns(err, h)
      PROVE  Left' \in {0, 1}
  BY <1>2 DEF BroadcastReturns, Refuse, GoOnToConfirm, Left
<1>3. CASE AnswerArrives \/ NilResponse
  <2>1. Left = 2
    BY <1>1, <1>3 DEF AnswerArrives, NilResponse
  <2>2. Left' \in {0, 1}
    BY <1>2, <1>3 DEF AnswerArrives, NilResponse
  <2> QED
    BY <2>1, <2>2
<1>4. ASSUME NEW o \in {"transient", "permanent"}, CallFails(o)
      PROVE  Left' < Left
  <2>1. Left = 2 /\ phase' = "returned"
    BY <1>1, <1>4 DEF CallFails
  <2>2. Left' \in {0, 1}
    BY <1>2, <1>4, <2>1 DEF CallFails, AfterDo
  <2> QED
    BY <2>1, <2>2
<1>5. CASE BackoffEnds
  <2>1. phase = "backoff" /\ stage = "broadcasting" /\ Left = 3
    BY <1>0, <1>5 DEF BackoffEnds, Do!BackoffElapses, Do!BackoffCancelled, Left
  <2>2. CASE phase' = "returned"
    <3>1. Left' \in {0, 1}
      BY <1>2, <1>5, <2>2 DEF BackoffEnds, AfterDo
    <3> QED
      BY <2>1, <3>1
  <2>3. CASE phase' # "returned"
    <3>1. phase' = "call" /\ stage' = "broadcasting"
      BY <1>5, <2>1, <2>3
         DEF BackoffEnds, AfterDo, Do!BackoffElapses, Do!BackoffCancelled, Do!Return
    <3> QED
      BY <2>1, <3>1 DEF Left
  <2> QED
    BY <2>2, <2>3
<1>6. CASE Poll \/ SleepEnds
  BY <1>6 DEF Poll, PollFinds, PollMisses, AfterMiss, SleepEnds, GiveUp, Left
<1>7. CASE SendBroadcast \/ Deadline
  BY <1>7 DEF SendBroadcast, Deadline
<1>8. CASE (\E req \in wire : NodeHandles(req) \/ LoseRequest(req))
           \/ (NodeStep /\ UNCHANGED <<doVars, clientVars>>)
  BY <1>8 DEF NodeHandles, LoseRequest, doVars, clientVars, clientControl
<1> QED
  BY <1>3, <1>4, <1>5, <1>6, <1>7, <1>8 DEF Next, CallEnds

\* Once its context has ended the client has three steps at most to its verdict,
\* whatever the node does meanwhile and however often it is configured to retry:
\* what Reports needs besides fairness (broadcast.go:131-154, 173-196).
THEOREM ReportIsNear ==
    Spec => /\ [](Left \in 0..3 /\ (Left = 0 => verdict # "none"))
            /\ [][ctxDone => Left' < Left \/ UNCHANGED clientControl]_vars
<1>1. IInv => Left \in 0..3 /\ (Left = 0 => verdict # "none")
  <2> SUFFICES ASSUME IInv
               PROVE  Left \in 0..3 /\ (Left = 0 => verdict # "none")
    OBVIOUS
  <2>1. /\ stage \in {"broadcasting", "polling", "sleeping", "done"}
        /\ verdict # "none" <=> stage = "done"
    BY DEF IInv, TypeOK, StageInv
  <2> QED
    BY <2>1 DEF Left
<1>2. IInv /\ [Next]_vars => [ctxDone => Left' < Left \/ UNCHANGED clientControl]_vars
  BY LeftFalls
<1> QED
  BY BroadcasterInvariant, <1>1, <1>2, PTL DEF Spec

=============================================================================
