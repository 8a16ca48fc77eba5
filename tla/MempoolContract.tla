--------------------------- MODULE MempoolContract ---------------------------
(***************************************************************************)
(* What CTxMemPool promises its clients (the wallet, the miner, the      *)
(* relay), stated over the set of pooled hashes and the chain tip only.  *)
(* The pool changes in three ways:                                        *)
(*   - an admission adds one entry that is not confirmed; a certificate  *)
(*     may at the same time replace entries of the pool;                 *)
(*   - an eviction takes entries out of the pool;                         *)
(*   - a new tip takes out every entry it confirms, and others;          *)
(*   - a tip that goes back may bring the entries it unconfirms back.     *)
(* Whatever leaves without being confirmed leaves with every pool entry  *)
(* that depends on it: no entry stays in the pool while a parent it      *)
(* spends, or whose sidechain it uses, has been dropped.                 *)
(***************************************************************************)
CONSTANTS
    TxHashes,     \* candidate transactions
    CertHashes,   \* candidate certificates
    Entry,        \* hash -> body: vin, scCreations, fts, btrs
    InitChain     \* the tip the pool starts against

VARIABLES
    pool,         \* the hashes of the pooled transactions and certificates
    tip           \* the chain tip, a record with the confirmed hashes in txs

vars == <<pool, tip>>

Hashes == TxHashes \cup CertHashes

(* The pool entries h depends on: those whose outputs it spends and, for *)
(* a transaction, those creating a sidechain it forwards to or requests  *)
(* a backward transfer from.                                              *)
Parents(P, h) ==
    {p \in P : \E o \in Entry[h].vin : o[1] = p}
    \cup (IF h \in CertHashes THEN {}
          ELSE {t \in P \cap TxHashes : Entry[t].scCreations \cap (Entry[h].fts \cup Entry[h].btrs) # {}})

(* No entry of survivors depends on an entry of gone. *)
NoOrphans(P, survivors, gone) == \A e \in survivors : Parents(P, e) \cap gone = {}

Init == pool = {} /\ tip = InitChain

Admit ==
    \E h \in Hashes \ pool :
        /\ h \notin tip.txs
        /\ h \in pool'
        /\ IF h \in TxHashes THEN pool' = pool \cup {h} ELSE pool' \ {h} \subseteq pool
        /\ NoOrphans(pool, pool', pool \ pool')
        /\ UNCHANGED tip

Evict ==
    /\ pool' \subseteq pool
    /\ NoOrphans(pool, pool', pool \ pool')
    /\ UNCHANGED tip

NewTip ==
    /\ tip' # tip
    /\ pool' \subseteq pool \ tip'.txs
    /\ NoOrphans(pool, pool', (pool \ pool') \ tip'.txs)

(* Whatever of the old pool and of the unconfirmed entries is not in the *)
(* new pool is gone, with every entry depending on it.                    *)
Reorg ==
    /\ tip' # tip
    /\ tip'.txs \subseteq tip.txs
    /\ LET back == tip.txs \ tip'.txs
       IN /\ pool' \subseteq pool \cup back
          /\ NoOrphans(pool \cup back, pool', (pool \cup back) \ pool')

Next == Admit \/ Evict \/ NewTip \/ Reorg

Spec == Init /\ [][Next]_vars

==============================================================================
