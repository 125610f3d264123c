SPECIFICATION Spec
CONSTANTS
    t1 = t1
    t2 = t2
    Txs <- MCTxs
    txBytes = t1
    NoHash = NoHash
    RetryCfg <- MCRetryCfg
    NodeFaults = {"evict"}
INVARIANTS
    RejectedNeverLanded
PROPERTIES
    VerdictsAreFinal
    KeepsPromise
CHECK_DEADLOCK FALSE
