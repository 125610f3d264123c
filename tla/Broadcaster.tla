----------------------------- MODULE Broadcaster -----------------------------
(***************************************************************************)
(* tx.BroadcastAndConfirm: the signed bytes go out with at most one replay   *)
(* (retry.Do), then GetTx is polled until the tx is in a block or the        *)
(* context ends. Requests may be lost, or handled by the node long after the *)
(* client gave up on them; answers may be lost; the node lives on when the   *)
(* caller has its verdict.                                                   *)
(***************************************************************************)
EXTENDS TxNode, Integers

CONSTANTS
    txBytes,   \* the parameter of BroadcastAndConfirm
    NoHash,    \* the empty string in place of a hash
    RetryCfg   \* the Config handed to retry.Do: retry.Broadcast()

VARIABLES
    phase, attempt, ret, ctxDone,   \* retry.Do's, and the caller's context
    sent,     \* the running attempt's request has left the client
    wire,     \* requests the node has not handled yet
    answer,   \* the node's answer to the running attempt, under way
    stage,    \* "broadcasting", "polling", "sleeping" (in Confirm), "done"
    bErr,     \* Broadcast's classified error, "none" when nil or not known yet
    hash,     \* the hash Confirm polls: a tx stands for the hash of its bytes
    verdict   \* what BroadcastAndConfirm returned, "none" while it runs

Do == INSTANCE Retry WITH cfg <- RetryCfg

doVars == <<phase, attempt, ret, ctxDone>>
clientVars == <<sent, wire, answer, stage, bErr, hash, verdict>>
vars == <<nodeVars, doVars, clientVars>>

ASSUME BroadcasterAssumption ==
    /\ txBytes \in Txs
    /\ NoHash \notin Txs
    /\ RetryCfg \in Do!Configs

Codes == {"accepted", "duplicate", "rejected"}
Hashes == Txs \union {NoHash}
NoAnswer == [code |-> "none", hash |-> NoHash]
Answers == [code : Codes \union {"none"}, hash : Hashes]
Requests == [attempt : 1..Do!Limit, tx : Txs]
Verdicts == {"success", "deliverFailed", "rejected", "unconfirmed"}

TypeOK ==
    /\ NodeTypeOK
    /\ Do!TypeOK
    /\ sent \in BOOLEAN
    /\ wire \subseteq Requests
    /\ answer \in Answers
    /\ stage \in {"broadcasting", "polling", "sleeping", "done"}
    /\ bErr \in {"none", "rpc", "duplicate", "rejected"}
    /\ hash \in Hashes
    /\ verdict \in Verdicts \union {"none"}

Init ==
    /\ NodeInit
    /\ Do!Start
    /\ ctxDone = FALSE
    /\ sent = FALSE
    /\ wire = {}
    /\ answer = NoAnswer
    /\ stage = "broadcasting"
    /\ bErr = "none"
    /\ hash = NoHash
    /\ verdict = "none"

------------------------------------------------------------------------------
(* Broadcast *)

\* Every attempt sends the same bytes.
SendBroadcast ==
    /\ phase = "call"
    /\ ~sent
    /\ ~ctxDone
    /\ sent' = TRUE
    /\ wire' = wire \union {[attempt |-> attempt, tx |-> txBytes]}
    /\ UNCHANGED <<nodeVars, doVars, answer, stage, bErr, hash, verdict>>

\* The node handles a request, of the running attempt or of one given up. Only
\* the running attempt's answer can still reach the client.
NodeHandles(req) ==
    /\ req \in wire
    /\ wire' = wire \ {req}
    /\ \E code \in Codes :
         /\ CheckTx(req.tx, code)
         /\ \E h \in IF "nohash" \in NodeFaults THEN {req.tx, NoHash} ELSE {req.tx} :
              answer' = IF phase = "call" /\ req.attempt = attempt
                        THEN [code |-> code, hash |-> h] ELSE answer
    /\ UNCHANGED <<doVars, sent, stage, bErr, hash, verdict>>

LoseRequest(req) ==
    /\ req \in wire
    /\ wire' = wire \ {req}
    /\ UNCHANGED <<nodeVars, doVars, sent, answer, stage, bErr, hash, verdict>>

\* recoveryHash with only the node's word for the hash.
NodeHashOnly(err, nodeHash) == nodeHash

\* What Confirm polls: the node's hash, or the hash of the bytes when Broadcast
\* failed and the node gave none.
PollHash(err, nodeHash) ==
    IF err = "none" \/ (err = "duplicate" /\ nodeHash # NoHash)
    THEN nodeHash
    ELSE txBytes

Refuse(nodeHash) ==
    /\ stage' = "done"
    /\ hash' = nodeHash
    /\ verdict' = "rejected"

GoOnToConfirm(err, nodeHash) ==
    /\ stage' = "polling"
    /\ hash' = PollHash(err, nodeHash)
    /\ UNCHANGED verdict

\* A duplicate taken for a rejection like any other.
DuplicateIsFinal(err, nodeHash) ==
    /\ bErr' = err
    /\ \/ err \in {"rejected", "duplicate"} /\ Refuse(nodeHash)
       \/ err \notin {"rejected", "duplicate"} /\ GoOnToConfirm(err, nodeHash)

\* Every failed broadcast taken for a definite one.
AnyErrorIsFinal(err, nodeHash) ==
    /\ bErr' = err
    /\ \/ err # "none" /\ Refuse(nodeHash)
       \/ err = "none" /\ GoOnToConfirm(err, nodeHash)

\* Broadcast returns err: a CheckTx rejection is final, the rest goes on to
\* Confirm.
BroadcastReturns(err, nodeHash) ==
    /\ bErr' = err
    /\ \/ err = "rejected" /\ Refuse(nodeHash)
       \/ err # "rejected" /\ GoOnToConfirm(err, nodeHash)

AnswerArrives ==
    /\ sent
    /\ answer.code # "none"
    /\ Do!CallReturns("ok")
    /\ BroadcastReturns(IF answer.code = "accepted" THEN "none" ELSE answer.code,
                        answer.hash)
    /\ sent' = FALSE
    /\ answer' = NoAnswer
    /\ UNCHANGED <<nodeVars, wire>>

\* The call succeeds without a TxResponse.
NilResponse ==
    /\ sent
    /\ Do!CallReturns("ok")
    /\ BroadcastReturns("rpc", NoHash)
    /\ sent' = FALSE
    /\ answer' = NoAnswer
    /\ UNCHANGED <<nodeVars, wire>>

\* Do goes on, or is over and Broadcast fails with ErrBroadcastRPC.
AfterDo ==
    IF phase' = "returned"
    THEN BroadcastReturns("rpc", NoHash)
    ELSE UNCHANGED <<stage, bErr, hash, verdict>>

\* The call fails, before or after the node handled it; with the context done
\* it fails without being sent.
CallFails(outcome) ==
    /\ sent \/ ctxDone
    /\ Do!CallReturns(outcome)
    /\ AfterDo
    /\ sent' = FALSE
    /\ answer' = NoAnswer
    /\ UNCHANGED <<nodeVars, wire>>

BackoffEnds ==
    /\ Do!BackoffElapses \/ Do!BackoffCancelled
    /\ AfterDo
    /\ UNCHANGED <<nodeVars, sent, wire, answer>>

------------------------------------------------------------------------------
(* Confirm *)

\* Found means done well.
FoundMeansSuccess(result) == "success"

PollVerdict(result) == IF result = "ok" THEN "success" ELSE "deliverFailed"

PollFinds ==
    /\ stage = "polling"
    /\ hash # NoHash
    /\ chain[hash] # "none"
    /\ stage' = "done"
    /\ verdict' = PollVerdict(chain[hash])
    /\ UNCHANGED <<nodeVars, doVars, sent, wire, answer, bErr, hash>>

GiveUp ==
    /\ stage' = "done"
    /\ verdict' = "unconfirmed"

\* A wait that does not look at the context.
KeepsPolling == stage' = "sleeping" /\ UNCHANGED verdict

\* With the context done the select has one branch ready, the timer not yet.
AfterMiss ==
    IF ctxDone THEN GiveUp ELSE stage' = "sleeping" /\ UNCHANGED verdict

\* GetTx errs, finds nothing (yet), or answers without a TxResponse.
PollMisses ==
    /\ stage = "polling"
    /\ AfterMiss
    /\ UNCHANGED <<nodeVars, doVars, sent, wire, answer, bErr, hash>>

\* The poll timer fires, or the context ends the wait; when both are ready
\* either branch is taken.
SleepEnds ==
    /\ stage = "sleeping"
    /\ \/ stage' = "polling" /\ UNCHANGED verdict
       \/ ctxDone /\ GiveUp
    /\ UNCHANGED <<nodeVars, doVars, sent, wire, answer, bErr, hash>>

Deadline ==
    /\ ~ctxDone
    /\ ctxDone' = TRUE
    /\ UNCHANGED <<nodeVars, phase, attempt, ret, clientVars>>

------------------------------------------------------------------------------

CallEnds == AnswerArrives \/ NilResponse \/ \E o \in {"transient", "permanent"} : CallFails(o)
Poll == PollFinds \/ PollMisses

Next ==
    \/ SendBroadcast
    \/ \E req \in wire : NodeHandles(req) \/ LoseRequest(req)
    \/ CallEnds
    \/ BackoffEnds
    \/ Poll
    \/ SleepEnds
    \/ Deadline
    \/ NodeStep /\ UNCHANGED <<doVars, clientVars>>

\* The context has a deadline, timers fire, and a call returns once its context
\* is done. Of the node nothing is assumed.
Fairness ==
    /\ WF_vars(Deadline)
    /\ WF_vars(ctxDone /\ CallEnds)
    /\ WF_vars(BackoffEnds)
    /\ WF_vars(ctxDone /\ Poll)
    /\ WF_vars(SleepEnds)

Spec == Init /\ [][Next]_vars /\ Fairness

------------------------------------------------------------------------------
(* Properties *)

\* A definite on-chain verdict is what the chain says of the caller's own tx:
\* neither a lost answer, a replay, an answer to an earlier attempt nor the
\* recovery path makes it another one (broadcast.go:173-196).
HonestVerdicts ==
    /\ verdict = "success" => chain[txBytes] = "ok"
    /\ verdict = "deliverFailed" => chain[txBytes] = "failed"

\* Confirm polls the hash of the bytes that were sent, whichever way Broadcast
\* ended; only a node that accepts and omits the hash misleads it
\* (recoveryHash, broadcast.go:201-216).
PollsOwnTx ==
    stage \in {"polling", "sleeping"} =>
        hash = txBytes \/ ("nohash" \in NodeFaults /\ bErr = "none")

\* Once the caller is told that the tx is in a block or was refused, no late
\* request and no block makes it untrue (broadcast.go:33-36, 173-196).
VerdictsAreFinal ==
    [][(verdict \in Verdicts \ {"unconfirmed"}) => UNCHANGED chain[txBytes]]_vars

\* The call returns, whatever the node does (broadcast.go:121-127).
Reports == <>(stage = "done")

\* ErrCheckTxRejected: "the tx did NOT enter the mempool" (broadcast.go:33-35);
\* what never entered cannot have landed.
RejectedNeverLanded == verdict = "rejected" => chain[txBytes] # "ok"

\* ErrConfirmTimeout: "Broadcast succeeded (the tx passed CheckTx and entered
\* the mempool)" (broadcast.go:43-44).
UnconfirmedWasAccepted == verdict = "unconfirmed" => txBytes \in entered

\* The promise, with the fate read off the node.
Fate ==
    IF chain[txBytes] = "ok" THEN "landed"
    ELSE IF barred \/ chain[txBytes] = "failed" THEN "dead"
    ELSE "open"

Promise == INSTANCE Submission WITH fate <- Fate

\* Broadcaster keeps Submission's promise.
KeepsPromise == Promise!Spec

=============================================================================
