SPECIFICATION Spec
CONSTANTS
    t1 = t1
    t2 = t2
    Txs <- MCTxs
    txBytes = t1
    NoHash = NoHash
    RetryCfg <- MCRetryCfg
    NodeFaults = {"restart"}
INVARIANTS
    RejectedNeverLanded
CHECK_DEADLOCK FALSE
