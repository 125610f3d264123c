------------------------------- MODULE TxNode -------------------------------
(***************************************************************************)
(* The Provenance node as tx.Broadcaster meets it: CheckTx on a broadcast,   *)
(* a mempool with its duplicate cache, blocks, and what GetTx finds. The     *)
(* node is not part of the repository; its answers are the ones the          *)
(* sentinels of broadcast.go and its tests describe.                         *)
(***************************************************************************)
CONSTANTS
    Txs,        \* signed transactions, as bytes
    NodeFaults  \* what the node may do beyond its duty, a subset of AllFaults

\* restart: the duplicate cache is lost;  evict: a valid tx leaves the mempool;
\* full: a valid tx is refused;  nohash: a response omits TxHash.
AllFaults == {"restart", "evict", "full", "nohash"}

ASSUME FaultsAssumption == NodeFaults \subseteq AllFaults

VARIABLES
    pool,     \* txs waiting for a block
    cache,    \* txs CheckTx answers with "already in mempool cache"
    chain,    \* result of a tx in a block, "none" before
    barred,   \* replay protection is against these txs: their sequence is used
              \* or their timeout over, or they were never valid
    entered   \* history: txs that have ever been in the mempool

nodeVars == <<pool, cache, chain, barred, entered>>

Results == {"none", "ok", "failed"}

NodeTypeOK ==
    /\ pool \subseteq Txs
    /\ cache \subseteq Txs
    /\ chain \in [Txs -> Results]
    /\ barred \in BOOLEAN
    /\ entered \subseteq Txs

NodeInit ==
    /\ pool = {}
    /\ cache = {}
    /\ chain = [t \in Txs |-> "none"]
    /\ barred \in BOOLEAN
    /\ entered = {}

------------------------------------------------------------------------------

\* A tx still in the cache is a duplicate, whatever became of it; replay
\* protection and a full mempool refuse; the rest enters.
CheckTx(t, code) ==
    \/ /\ code = "duplicate"
       /\ t \in cache
       /\ UNCHANGED nodeVars
    \/ /\ code = "rejected"
       /\ t \notin cache
       /\ barred \/ chain[t] # "none" \/ "full" \in NodeFaults
       /\ UNCHANGED nodeVars
    \/ /\ code = "accepted"
       /\ t \notin cache
       /\ ~barred
       /\ chain[t] = "none"
       /\ pool' = pool \union {t}
       /\ cache' = cache \union {t}
       /\ entered' = entered \union {t}
       /\ UNCHANGED <<chain, barred>>

\* A block executes t. Success keeps t in the cache; a failure may drop it.
Include(t) ==
    /\ t \in pool
    /\ pool' = pool \ {t}
    /\ \/ /\ ~barred
          /\ chain' = [chain EXCEPT ![t] = "ok"]
          /\ cache' = cache \union {t}
       \/ /\ chain' = [chain EXCEPT ![t] = "failed"]
          /\ cache' \in {cache, cache \ {t}}
    /\ UNCHANGED <<barred, entered>>

\* The recheck after a block drops what replay protection is against.
Evict(t) ==
    /\ t \in pool
    /\ barred \/ "evict" \in NodeFaults
    /\ pool' = pool \ {t}
    /\ cache' \in {cache, cache \ {t}}
    /\ UNCHANGED <<chain, barred, entered>>

\* The node comes back without its cache; its peers may have kept the txs.
Restart ==
    /\ "restart" \in NodeFaults
    /\ pool' \in {{}, pool}
    /\ cache' \in {{}, pool'}
    /\ UNCHANGED <<chain, barred, entered>>

Bar ==
    /\ ~barred
    /\ barred' = TRUE
    /\ UNCHANGED <<pool, cache, chain, entered>>

NodeStep ==
    \/ \E t \in Txs : Include(t)
    \/ \E t \in Txs : Evict(t)
    \/ Restart
    \/ Bar

=============================================================================
