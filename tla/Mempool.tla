------------------------------- MODULE Mempool -------------------------------
(***************************************************************************)
(* CTxMemPool of src/src/txmempool.cpp: the pool of unconfirmed           *)
(* transactions and sidechain certificates, its secondary indexes         *)
(* (mapNextTx, mapNullifiers, mapSidechains), the removal cascades run    *)
(* when a block is connected, and the deferred wallet notification.       *)
(*                                                                         *)
(* A transaction or certificate is a hash; its body is the constant       *)
(* Entry[hash], abstracted to what the pool reads of it: the spent        *)
(* outpoints, the number of outputs, shielded nullifiers and anchors,     *)
(* the CSW inputs, the sidechain outputs, and for a certificate its       *)
(* sidechain, epoch, quality and backward-transfer outputs.  The chain    *)
(* (pcoinsTip and the validator in main.cpp) is an environment record.   *)
(***************************************************************************)
EXTENDS Integers, SequencesExt

CONSTANTS
    TxHashes,       \* candidate transactions
    CertHashes,     \* candidate certificates
    GenesisHashes,  \* transactions confirmed before the model starts
    ScIds,          \* sidechain ids
    Entry,          \* hash -> body, see EntryBody
    InitChain,      \* the chain tip the pool starts against
    NoHash,         \* uint256 SetNull(): the empty pointer or hash
    MaxSeq,         \* bound on nRecentlyAddedSequence (number of additions)
    MaxEpoch,       \* bound on a sidechain's certificate epoch
    MaxBlockLen,    \* bound on the entries of one block
    MayInterrupt    \* whether a SyncWithWallets call may raise boost::thread_interrupted

Hashes == TxHashes \cup CertHashes
Outpoints == UNION {Entry[h].vin : h \in Hashes}
Nullifiers == UNION {Entry[h].nullifiers : h \in TxHashes}
Anchors == UNION {Entry[h].anchors : h \in TxHashes}
ScStates == {"NONE", "ALIVE", "CEASED"}

EntryBody == [vin : SUBSET ((Hashes \cup GenesisHashes) \X Nat), nOut : Nat,
              nullifiers : SUBSET Nullifiers, anchors : SUBSET Anchors,
              csw : SUBSET [scId : ScIds, nullifier : Nat, nValue : Nat],
              scCreations : SUBSET ScIds, fts : SUBSET ScIds, btrs : SUBSET ScIds,
              scId : ScIds \cup {NoHash}, epoch : Nat, quality : Nat, bwt : SUBSET Nat]

ASSUME /\ TxHashes \cap CertHashes = {}
       /\ \A h \in Hashes : Entry[h] \in EntryBody
       \* a sidechain id is derived from its creating transaction
       /\ \A h1, h2 \in TxHashes : h1 # h2 => Entry[h1].scCreations \cap Entry[h2].scCreations = {}

VARIABLES
    mapTx,                  \* hashes of the pool's transactions
    mapCertificate,         \* hashes of the pool's certificates
    mapNextTx,              \* outpoint -> hash of the pool entry spending it
    mapNullifiers,          \* shielded nullifier -> hash of the pool tx
    mapSidechains,          \* scId -> CSidechainMemPoolEntry
    mapDeltas,              \* hashes with a fee/priority delta
    mapRecentlyAddedTxBase, \* hashes not yet handed to the wallets
    nRecentlyAddedSequence,
    nNotifiedSequence,
    removedTxs,             \* out-lists of the last removal call
    removedCerts,
    notifyPc,               \* NotifyRecentlyAdded: "idle", "syncing", or "ended"
                            \*   once an interrupt has ended its thread
    notifyBatch,            \*   the snapshot being synced outside the lock
    notifySequence,         \*   nRecentlyAddedSequence captured with it
    walletTxs,              \* hashes SyncWithWallets has delivered
    syncFailed,             \* hashes whose SyncWithWallets threw
    chain,                  \* pcoinsTip and the sidechain view of the tip
    undo                    \* the blocks connected, oldest first: the tip each
                            \*   was connected to, and its entries

pool == <<mapTx, mapCertificate, mapNextTx, mapNullifiers, mapSidechains, mapDeltas,
          mapRecentlyAddedTxBase, nRecentlyAddedSequence, nNotifiedSequence,
          removedTxs, removedCerts>>
notify == <<notifyPc, notifyBatch, notifySequence, walletTxs, syncFailed>>
vars == <<pool, notify, chain, undo>>

(* The pool as one record, so that a handler is an operator from a pool  *)
(* to a pool and the calls a handler makes compose.                      *)
Mp == [mapTx |-> mapTx, mapCertificate |-> mapCertificate, mapNextTx |-> mapNextTx,
       mapNullifiers |-> mapNullifiers, mapSidechains |-> mapSidechains,
       mapDeltas |-> mapDeltas, mapRecentlyAddedTxBase |-> mapRecentlyAddedTxBase,
       nRecentlyAddedSequence |-> nRecentlyAddedSequence,
       nNotifiedSequence |-> nNotifiedSequence,
       removedTxs |-> removedTxs, removedCerts |-> removedCerts]

SetMp(m) == /\ mapTx' = m.mapTx
            /\ mapCertificate' = m.mapCertificate
            /\ mapNextTx' = m.mapNextTx
            /\ mapNullifiers' = m.mapNullifiers
            /\ mapSidechains' = m.mapSidechains
            /\ mapDeltas' = m.mapDeltas
            /\ mapRecentlyAddedTxBase' = m.mapRecentlyAddedTxBase
            /\ nRecentlyAddedSequence' = m.nRecentlyAddedSequence
            /\ nNotifiedSequence' = m.nNotifiedSequence
            /\ removedTxs' = m.removedTxs
            /\ removedCerts' = m.removedCerts

(* A call whose out-lists are dummies leaves the caller's lists alone.   *)
Quietly(before, after) ==
    [after EXCEPT !.removedTxs = before.removedTxs, !.removedCerts = before.removedCerts]

InPool(m) == m.mapTx \cup m.mapCertificate

------------------------------------------------------------------------------
(* Linear-time folds.  SequencesExt's FoldLeft and SetToSeq, evaluated by *)
(* their definitions, enumerate subsets and functions; these are the same *)
(* operators written by recursion on the sequence and the set.           *)
RECURSIVE FoldLeftSeq(_, _, _)
FoldLeftSeq(op(_, _), acc, seq) ==
    IF seq = <<>> THEN acc ELSE FoldLeftSeq(op, op(acc, Head(seq)), Tail(seq))

RECURSIVE SeqOfSet(_)
SeqOfSet(S) ==
    IF S = {} THEN <<>> ELSE LET x == CHOOSE x \in S : TRUE IN <<x>> \o SeqOfSet(S \ {x})

FoldOverSet(op(_, _), base, S) == FoldLeftSeq(LAMBDA acc, x : op(x, acc), base, SeqOfSet(S))

(* Small maps with a varying domain (std::map).                          *)
EmptyMap == [x \in {} |-> NoHash]
MapPut(f, k, v) == (k :> v) @@ f
MapErase(f, k) == Restrict(f, DOMAIN f \ {k})

(* CSidechainMemPoolEntry and the ways the pool edits its rows.          *)
NullRow == [scCreationTxHash |-> NoHash, fwdTxHashes |-> {}, mcBtrsTxHashes |-> {},
            mcBtrsCertDataHash |-> NoHash, cswNullifiers |-> EmptyMap,
            cswTotalAmount |-> 0, mBackwardCertificates |-> EmptyMap]

IsNull(row) == row = NullRow

Row(ms, sc) == IF sc \in DOMAIN ms THEN ms[sc] ELSE NullRow

PutRow(ms, sc, row) == [s \in DOMAIN ms \cup {sc} |-> IF s = sc THEN row ELSE ms[s]]

(* Write a modified row back, erasing it when it became null.            *)
UpdateRow(ms, sc, row) ==
    IF IsNull(row) THEN Restrict(ms, DOMAIN ms \ {sc}) ELSE PutRow(ms, sc, row)

HasSidechainCreationTx(m, sc) ==
    sc \in DOMAIN m.mapSidechains /\ m.mapSidechains[sc].scCreationTxHash # NoHash

HaveCswNullifier(m, sc, nf) ==
    sc \in DOMAIN m.mapSidechains /\ nf \in DOMAIN m.mapSidechains[sc].cswNullifiers

Spender(m, o) == IF o \in DOMAIN m.mapNextTx THEN m.mapNextTx[o] ELSE NoHash

CswSum(h, sc) == MapThenSumSet(LAMBDA c : c.nValue, {c \in Entry[h].csw : c.scId = sc})

CswScIds(h) == {c.scId : c \in Entry[h].csw}

------------------------------------------------------------------------------
(***************************************************************************)
(* Adding to the pool: addUnchecked for a transaction and a certificate.  *)
(* certDataHash is the scIdToCertDataHash map the validator passes in.    *)
(***************************************************************************)
(* Mutant: the CSW amount is not added to the sidechain's total. *)
AddUncheckedTx_NoCswTotal(m, h, certDataHash) ==
    LET e == Entry[h]
        AddCsw(c, ms) == PutRow(ms, c.scId,
                           [Row(ms, c.scId) EXCEPT !.cswNullifiers = MapPut(@, c.nullifier, h)])
        AddSc(sc, ms) == PutRow(ms, sc, [Row(ms, sc) EXCEPT !.scCreationTxHash = h])
        AddFwd(sc, ms) == PutRow(ms, sc, [Row(ms, sc) EXCEPT !.fwdTxHashes = @ \cup {h}])
        AddBtr(sc, ms) == PutRow(ms, sc,
                           [Row(ms, sc) EXCEPT !.mcBtrsTxHashes = @ \cup {h},
                                               !.mcBtrsCertDataHash =
                                                   IF @ = NoHash THEN certDataHash[sc] ELSE @])
        ms1 == FoldOverSet(AddCsw, m.mapSidechains, e.csw)
        ms2 == FoldOverSet(AddBtr, FoldOverSet(AddFwd, FoldOverSet(AddSc, ms1, e.scCreations), e.fts), e.btrs)
    IN [m EXCEPT !.mapTx = @ \cup {h},
                 !.mapRecentlyAddedTxBase = @ \cup {h},
                 !.nRecentlyAddedSequence = @ + 1,
                 !.mapNextTx = [o \in DOMAIN @ |-> IF o \in e.vin THEN h ELSE @[o]],
                 !.mapNullifiers = [nf \in DOMAIN @ |-> IF nf \in e.nullifiers THEN h ELSE @[nf]],
                 !.mapSidechains = ms2]

AddUncheckedTx(m, h, certDataHash) ==
    LET e == Entry[h]
        AddCsw(c, ms) == PutRow(ms, c.scId,
                           [Row(ms, c.scId) EXCEPT !.cswNullifiers = MapPut(@, c.nullifier, h),
                                                   !.cswTotalAmount = @ + c.nValue])
        AddSc(sc, ms) == PutRow(ms, sc, [Row(ms, sc) EXCEPT !.scCreationTxHash = h])
        AddFwd(sc, ms) == PutRow(ms, sc, [Row(ms, sc) EXCEPT !.fwdTxHashes = @ \cup {h}])
        AddBtr(sc, ms) == PutRow(ms, sc,
                           [Row(ms, sc) EXCEPT !.mcBtrsTxHashes = @ \cup {h},
                                               !.mcBtrsCertDataHash =
                                                   IF @ = NoHash THEN certDataHash[sc] ELSE @])
        ms1 == FoldOverSet(AddCsw, m.mapSidechains, e.csw)
        ms2 == FoldOverSet(AddBtr, FoldOverSet(AddFwd, FoldOverSet(AddSc, ms1, e.scCreations), e.fts), e.btrs)
    IN [m EXCEPT !.mapTx = @ \cup {h},
                 !.mapRecentlyAddedTxBase = @ \cup {h},
                 !.nRecentlyAddedSequence = @ + 1,
                 !.mapNextTx = [o \in DOMAIN @ |-> IF o \in e.vin THEN h ELSE @[o]],
                 !.mapNullifiers = [nf \in DOMAIN @ |-> IF nf \in e.nullifiers THEN h ELSE @[nf]],
                 !.mapSidechains = ms2]

AddUncheckedCert(m, h) ==
    LET e == Entry[h]
        row == Row(m.mapSidechains, e.scId)
    IN [m EXCEPT !.mapCertificate = @ \cup {h},
                 !.mapRecentlyAddedTxBase = @ \cup {h},
                 !.nRecentlyAddedSequence = @ + 1,
                 !.mapNextTx = [o \in DOMAIN @ |-> IF o \in e.vin THEN h ELSE @[o]],
                 !.mapSidechains = PutRow(@, e.scId,
                       [row EXCEPT !.mBackwardCertificates = MapPut(@, e.quality, h)])]

------------------------------------------------------------------------------
(***************************************************************************)
(* Walking the DAG of pool entries.  The direct-dependency functions      *)
(* return sequences, duplicates included; the two loops keep the deque    *)
(* discipline of the code (BFS pops the back, DFS the front, both push    *)
(* to the front what is in neither the deque nor the result).  A set the  *)
(* code iterates in key order is taken in SetToSeq order.                 *)
(***************************************************************************)
(* Mutant: parents among the pool certificates are missed. *)
MempoolDirectDependenciesFrom_TxParentsOnly(m, h) ==
    LET e == Entry[h]
        ms == m.mapSidechains
        inPool == SelectSeq(SeqOfSet(e.vin), LAMBDA o : o[1] \in m.mapTx)
        creators == IF h \in CertHashes THEN {}
                    ELSE {ms[sc].scCreationTxHash : sc \in {s \in e.fts \cup e.btrs : HasSidechainCreationTx(m, s)}}
    IN [k \in DOMAIN inPool |-> inPool[k][1]] \o SeqOfSet(creators)

(* Mutant: the direction is swapped, the pool spenders of h's outputs   *)
(* are taken for its dependencies.                                        *)
MempoolDirectDependenciesFrom_Spenders(m, h) ==
    LET spent == SelectSeq([i \in 1..Entry[h].nOut |-> <<h, i - 1>>], LAMBDA o : Spender(m, o) # NoHash)
    IN [k \in DOMAIN spent |-> m.mapNextTx[spent[k]]]

MempoolDirectDependenciesFrom(m, h) ==
    LET e == Entry[h]
        ms == m.mapSidechains
        inPool == SelectSeq(SeqOfSet(e.vin), LAMBDA o : o[1] \in InPool(m))
        creators == IF h \in CertHashes THEN {}
                    ELSE {ms[sc].scCreationTxHash : sc \in {s \in e.fts \cup e.btrs : HasSidechainCreationTx(m, s)}}
    IN [k \in DOMAIN inPool |-> inPool[k][1]] \o SeqOfSet(creators)

(* Push to the front of toVisit each of deps that is in neither toVisit  *)
(* nor res.                                                               *)
PushNew(toVisit, res, deps) ==
    FoldLeftSeq(LAMBDA acc, d : IF Contains(acc, d) \/ Contains(res, d) THEN acc ELSE <<d>> \o acc,
             toVisit, deps)

RECURSIVE BfsFrom(_, _, _)
BfsFrom(m, toVisit, res) ==
    IF toVisit = <<>> THEN res
    ELSE LET cur == Last(toVisit)
             res1 == IF Contains(res, cur) THEN res ELSE Append(res, cur)
         IN BfsFrom(m, PushNew(Front(toVisit), res1, MempoolDirectDependenciesFrom(m, cur)), res1)

MempoolDependenciesFrom(m, h) == BfsFrom(m, MempoolDirectDependenciesFrom(m, h), <<>>)

(* Mutant: a creation tx has no dependants through its sidechain. *)
MempoolDirectDependenciesOf_NoScDependants(m, h) ==
    LET e == Entry[h]
        ms == m.mapSidechains
        spent == SelectSeq([i \in 1..e.nOut |-> <<h, i - 1>>], LAMBDA o : Spender(m, o) # NoHash)
        created == IF h \in CertHashes THEN {} ELSE e.scCreations \cap DOMAIN ms
        onSc == UNION {ms[sc].fwdTxHashes \cup ms[sc].mcBtrsTxHashes : sc \in created}
    IN [k \in DOMAIN spent |-> m.mapNextTx[spent[k]]] 

MempoolDirectDependenciesOf(m, h) ==
    LET e == Entry[h]
        ms == m.mapSidechains
        spent == SelectSeq([i \in 1..e.nOut |-> <<h, i - 1>>], LAMBDA o : Spender(m, o) # NoHash)
        created == IF h \in CertHashes THEN {} ELSE e.scCreations \cap DOMAIN ms
        onSc == UNION {ms[sc].fwdTxHashes \cup ms[sc].mcBtrsTxHashes : sc \in created}
    IN [k \in DOMAIN spent |-> m.mapNextTx[spent[k]]] \o SeqOfSet(onSc)

RECURSIVE DfsOf(_, _, _)
DfsOf(m, toVisit, res) ==
    IF toVisit = <<>> THEN res
    ELSE LET cur == Head(toVisit)
             res1 == IF Contains(res, cur) THEN res ELSE Append(res, cur)
         IN DfsOf(m, PushNew(Tail(toVisit), res1, MempoolDirectDependenciesOf(m, cur)), res1)

MempoolDependenciesOf(m, h) == DfsOf(m, MempoolDirectDependenciesOf(m, h), <<>>)

------------------------------------------------------------------------------
(***************************************************************************)
(* remove(origTx, removedTxs, removedCerts, fRecursive).  The traversal   *)
(* runs on the pool before any erasure; origTx need not be in the pool.   *)
(***************************************************************************)
(* The sidechain rows after tx x leaves: its CSW nullifiers and amounts, *)
(* then its BTRs, forward transfers and creations, each row erased once  *)
(* it is null.                                                            *)
RemoveTxSidechains(ms0, x) ==
    LET e == Entry[x]
        DelCsw(c, ms) == UpdateRow(ms, c.scId,
                           [Row(ms, c.scId) EXCEPT !.cswNullifiers = MapErase(@, c.nullifier),
                                                   !.cswTotalAmount = @ - c.nValue])
        DelBtr(sc, ms) ==
            IF sc \notin DOMAIN ms THEN ms
            ELSE LET r == [ms[sc] EXCEPT !.mcBtrsTxHashes = @ \ {x}]
                 IN UpdateRow(ms, sc, IF r.mcBtrsTxHashes = {}
                                      THEN [r EXCEPT !.mcBtrsCertDataHash = NoHash] ELSE r)
        DelFwd(sc, ms) ==
            IF sc \notin DOMAIN ms THEN ms
            ELSE UpdateRow(ms, sc, [ms[sc] EXCEPT !.fwdTxHashes = @ \ {x}])
        DelSc(sc, ms) == UpdateRow(ms, sc, [Row(ms, sc) EXCEPT !.scCreationTxHash = NoHash])
        ms1 == FoldOverSet(DelBtr, FoldOverSet(DelCsw, ms0, e.csw), e.btrs)
    IN FoldOverSet(DelSc, FoldOverSet(DelFwd, ms1, e.fts), e.scCreations)

(* Erase keys of an index (std::map::erase). *)
Unlink(f, keys) == [k \in DOMAIN f |-> IF k \in keys THEN NoHash ELSE f[k]]

(* Mutant: mapNextTx keeps the inputs of a removed tx. *)
RemoveTxEntry_KeepsNextTx(m, x) ==
    [m EXCEPT !.mapRecentlyAddedTxBase = @ \ {x},
              !.mapNullifiers = Unlink(@, Entry[x].nullifiers),
              !.mapSidechains = RemoveTxSidechains(@, x),
              !.removedTxs = Append(@, x), !.mapTx = @ \ {x}]

(* Mutant: mapNullifiers keeps the nullifiers of a removed tx. *)
RemoveTxEntry_KeepsNullifiers(m, x) ==
    [m EXCEPT !.mapRecentlyAddedTxBase = @ \ {x}, !.mapNextTx = Unlink(@, Entry[x].vin),
              !.mapSidechains = RemoveTxSidechains(@, x),
              !.removedTxs = Append(@, x), !.mapTx = @ \ {x}]

RemoveTxEntry(m, x) ==
    [m EXCEPT !.mapRecentlyAddedTxBase = @ \ {x}, !.mapNextTx = Unlink(@, Entry[x].vin),
              !.mapNullifiers = Unlink(@, Entry[x].nullifiers),
              !.mapSidechains = RemoveTxSidechains(@, x),
              !.removedTxs = Append(@, x), !.mapTx = @ \ {x}]

(* Mutant: the row is written back even when it became null. *)
RemoveCertSidechains_KeepsNullRow(ms, x) ==
    LET row == Row(ms, Entry[x].scId)
    IN PutRow(ms, Entry[x].scId, [row EXCEPT !.mBackwardCertificates = RestrictValues(@, LAMBDA v : v # x)])

(* The row of certificate x's sidechain after CSidechainMemPoolEntry::   *)
(* EraseCert, erased once null.                                           *)
RemoveCertSidechains(ms, x) ==
    LET row == Row(ms, Entry[x].scId)
    IN UpdateRow(ms, Entry[x].scId, [row EXCEPT !.mBackwardCertificates = RestrictValues(@, LAMBDA v : v # x)])

RemoveCertEntry(m, x) ==
    [m EXCEPT !.mapRecentlyAddedTxBase = @ \ {x}, !.mapNextTx = Unlink(@, Entry[x].vin),
              !.mapSidechains = RemoveCertSidechains(@, x),
              !.removedCerts = Append(@, x), !.mapCertificate = @ \ {x}]

RemoveOne(m, x) ==
    IF x \in m.mapTx THEN RemoveTxEntry(m, x)
    ELSE IF x \in m.mapCertificate THEN RemoveCertEntry(m, x)
    ELSE m

(* Mutant: the cascade is dropped, as with fRecursive = false. *)
remove_NonRecursive(m, h, fRecursive) == FoldLeftSeq(RemoveOne, m, <<h>>)

remove(m, h, fRecursive) ==
    FoldLeftSeq(RemoveOne, m, <<h>> \o (IF fRecursive THEN MempoolDependenciesOf(m, h) ELSE <<>>))

------------------------------------------------------------------------------
(***************************************************************************)
(* The chain tip as the pool reads it (CCoinsViewCache pcoinsTip):        *)
(* confirmed hashes, spent outpoints, nullifiers, CSW nullifiers as       *)
(* <<scId, nullifier>> pairs, and per sidechain its state, balance,       *)
(* current certificate epoch, top confirmed quality of that epoch and     *)
(* active certificate data hash.                                          *)
(***************************************************************************)
CheckScTxTiming(ch, sc) == ch.scState[sc] = "ALIVE"

CheckCertTiming(ch, sc, epoch) == ch.scState[sc] = "ALIVE" /\ epoch = ch.certEpoch[sc]

ChainUnspent(ch, o) == o[1] \in ch.txs /\ o \notin ch.spent /\ o[2] < Entry[o[1]].nOut

------------------------------------------------------------------------------
(* Remove each of a set of entries recursively, skipping those an      *)
(* earlier removal already took ("check that a tx is still in map").     *)
RemoveStillPresent(m, hashes) ==
    FoldLeftSeq(LAMBDA acc, x : IF x \in InPool(acc) THEN remove(acc, x, TRUE) ELSE acc,
                m, SeqOfSet(hashes))

(* removeConflicts(tx): pool entries sharing an input, a nullifier or a  *)
(* CSW nullifier with the confirmed tx, each removed recursively, then   *)
(* removeOutOfScBalanceCsw against pcoinsTip.                             *)
RemoveOutOfScBalanceCsw(m, ch) ==
    LET ms == m.mapSidechains
        over == {sc \in DOMAIN ms : ms[sc].cswTotalAmount # 0 /\ ms[sc].cswTotalAmount > ch.balance[sc]}
        txesToRemove == UNION {Range(ms[sc].cswNullifiers) : sc \in over}
    IN RemoveStillPresent(m, txesToRemove)

NullifierUser(m, nf) == m.mapNullifiers[nf]

CswUser(m, c) == IF HaveCswNullifier(m, c.scId, c.nullifier)
                 THEN m.mapSidechains[c.scId].cswNullifiers[c.nullifier] ELSE NoHash

(* The pool entry a key of the given kind points at, or NoHash. *)
Conflict(m, kind, k) ==
    CASE kind = "input" -> Spender(m, k)
      [] kind = "nullifier" -> NullifierUser(m, k)
      [] kind = "csw" -> CswUser(m, k)

(* remove every conflicting entry the lookup finds for the keys, in turn *)
RemoveEach(m, keys, kind, h) ==
    FoldLeftSeq(LAMBDA acc, k : IF Conflict(acc, kind, k) \notin {NoHash, h}
                             THEN remove(acc, Conflict(acc, kind, k), TRUE) ELSE acc,
             m, SeqOfSet(keys))

(* Mutant: spenders of the confirmed inputs are kept. *)
RemoveConflictsTx_NoInputConflicts(m, h, ch) ==
    LET e == Entry[h]
        m1 == m
        m2 == RemoveEach(m1, e.nullifiers, "nullifier", h)
        m3 == RemoveEach(m2, e.csw, "csw", h)
    IN RemoveOutOfScBalanceCsw(m3, ch)

(* Mutant: users of the confirmed nullifiers are kept. *)
RemoveConflictsTx_NoNullifierConflicts(m, h, ch) ==
    LET e == Entry[h]
        m1 == RemoveEach(m, e.vin, "input", h)
        m2 == m1
        m3 == RemoveEach(m2, e.csw, "csw", h)
    IN RemoveOutOfScBalanceCsw(m3, ch)

(* Mutant: removeOutOfScBalanceCsw is not called. *)
RemoveConflictsTx_NoBalanceCheck(m, h, ch) ==
    LET e == Entry[h]
        m1 == RemoveEach(m, e.vin, "input", h)
        m2 == RemoveEach(m1, e.nullifiers, "nullifier", h)
        m3 == RemoveEach(m2, e.csw, "csw", h)
    IN m3

RemoveConflictsTx(m, h, ch) ==
    LET e == Entry[h]
        m1 == RemoveEach(m, e.vin, "input", h)
        m2 == RemoveEach(m1, e.nullifiers, "nullifier", h)
        m3 == RemoveEach(m2, e.csw, "csw", h)
    IN RemoveOutOfScBalanceCsw(m3, ch)

(* removeConflicts(cert): input conflicts, then every pool cert of the   *)
(* same sidechain and epoch whose quality is not above the confirmed one. *)
(* Mutant: only strictly lower qualities are superseded. *)
LowerQualCerts_Strict(m, h) ==
    IF Entry[h].scId \notin DOMAIN m.mapSidechains THEN {}
    ELSE {c \in Range(m.mapSidechains[Entry[h].scId].mBackwardCertificates) :
              Entry[c].epoch = Entry[h].epoch /\ Entry[c].quality < Entry[h].quality}

LowerQualCerts(m, h) ==
    IF Entry[h].scId \notin DOMAIN m.mapSidechains THEN {}
    ELSE {c \in Range(m.mapSidechains[Entry[h].scId].mBackwardCertificates) :
              Entry[c].epoch = Entry[h].epoch /\ Entry[c].quality <= Entry[h].quality}

RemoveConflictsCert(m, h) ==
    LET m1 == RemoveEach(m, Entry[h].vin, "input", h)
    IN RemoveStillPresent(m1, LowerQualCerts(m1, h))

(* removeForBlock(vtx) and removeForBlock(vcert): each block entry is    *)
(* removed without its descendants (dummy lists), then its conflicts,    *)
(* then its priority delta.                                               *)
RemoveForBlockTxs(m, vtx, ch) ==
    FoldLeftSeq(LAMBDA acc, h :
                 LET m1 == RemoveConflictsTx(Quietly(acc, remove(acc, h, FALSE)), h, ch)
                 IN [m1 EXCEPT !.mapDeltas = @ \ {h}],
             m, vtx)

RemoveForBlockCerts(m, vcert) ==
    FoldLeftSeq(LAMBDA acc, h :
                 LET m1 == RemoveConflictsCert(Quietly(acc, remove(acc, h, FALSE)), h)
                 IN [m1 EXCEPT !.mapDeltas = @ \ {h}],
             m, vcert)

------------------------------------------------------------------------------
(* checkTxImmatureExpenditures / checkCertImmatureExpenditures.  Without *)
(* reorganisations every confirmed output is mature; a tx spending a     *)
(* pool certificate, or an input whose coins are gone, fails.            *)
CheckTxImmatureExpenditures(m, h, ch) ==
    \A o \in Entry[h].vin : o[1] \in m.mapTx \/ (o[1] \notin m.mapCertificate /\ o[1] \in ch.txs)

CheckCertImmatureExpenditures(m, h, ch) ==
    \A o \in Entry[h].vin : o[1] \in InPool(m) \/ o[1] \in ch.txs

(* Mutant: BTRs are never checked against the active cert data hash. *)
OutdatedBtrs_Unchecked(m, ch) == {}

(* BTRs whose row's certificate data hash is not the tip's active one. *)
OutdatedBtrs(m, ch) ==
    LET ms == m.mapSidechains
    IN UNION {ms[sc].mcBtrsTxHashes :
                 sc \in {s \in DOMAIN ms : ch.activeCertDataHash[s] # ms[s].mcBtrsCertDataHash}}

RemoveStaleTransactions(m, ch) ==
    LET ms == m.mapSidechains
        Stale(h) ==
            \/ ~CheckTxImmatureExpenditures(m, h, ch)
            \/ \E sc \in Entry[h].fts \cup Entry[h].btrs :
                   ~HasSidechainCreationTx(m, sc) /\ ~CheckScTxTiming(ch, sc)
            \/ \E sc \in CswScIds(h) : ch.scState[sc] # "CEASED"
        txesToRemove == {h \in m.mapTx : Stale(h)} \cup OutdatedBtrs(m, ch)
    IN RemoveStillPresent(m, txesToRemove)

RemoveStaleCertificates(m, ch) ==
    LET certsToRemove == {c \in m.mapCertificate :
                              \/ ~CheckCertImmatureExpenditures(m, c, ch)
                              \/ ~CheckCertTiming(ch, Entry[c].scId, Entry[c].epoch)}
        m1 == RemoveStillPresent(m, certsToRemove)
    IN [m1 EXCEPT !.removedTxs = m.removedTxs]

(* removeWithAnchor: every pool tx with a joinsplit on the invalid root, *)
(* each removed recursively into dummy lists.                             *)
RemoveWithAnchorOp(m, invalidRoot) ==
    LET transactionsToRemove == {h \in m.mapTx : invalidRoot \in Entry[h].anchors}
    IN Quietly(m, FoldLeftSeq(LAMBDA acc, h : remove(acc, h, TRUE), m, SeqOfSet(transactionsToRemove)))

------------------------------------------------------------------------------
(***************************************************************************)
(* Admission: the structural pre-checks of the pool, and the contextual   *)
(* checks main.cpp's validator makes through CCoinsViewMemPool (the pool  *)
(* layered over the tip), abstracted to the facts the pool relies on.     *)
(***************************************************************************)
(* Mutant: an input from a pool certificate is not refused. *)
CheckIncomingTxConflicts_CertInput(m, h) ==
    LET e == Entry[h] IN
    /\ h \notin m.mapTx
    /\ \A o \in e.vin : Spender(m, o) = NoHash
    /\ \A sc \in e.scCreations : ~HasSidechainCreationTx(m, sc)
    /\ \A nf \in e.nullifiers : m.mapNullifiers[nf] = NoHash
    /\ \A c \in e.csw : ~HaveCswNullifier(m, c.scId, c.nullifier)

CheckIncomingTxConflicts(m, h) ==
    LET e == Entry[h] IN
    /\ h \notin m.mapTx
    /\ \A o \in e.vin : Spender(m, o) = NoHash /\ o[1] \notin m.mapCertificate
    /\ \A sc \in e.scCreations : ~HasSidechainCreationTx(m, sc)
    /\ \A nf \in e.nullifiers : m.mapNullifiers[nf] = NoHash
    /\ \A c \in e.csw : ~HaveCswNullifier(m, c.scId, c.nullifier)

(* Mutant: ancestors' qualities are not compared. *)
CheckIncomingCertConflicts_NoQualityCheck(m, h) ==
    LET e == Entry[h] IN
    /\ h \notin m.mapCertificate
    /\ \A o \in e.vin : /\ Spender(m, o) = NoHash
                        /\ o[1] \in m.mapCertificate => o[2] \notin Entry[o[1]].bwt

CheckIncomingCertConflicts(m, h) ==
    LET e == Entry[h] IN
    /\ h \notin m.mapCertificate
    /\ \A o \in e.vin : /\ Spender(m, o) = NoHash
                        /\ o[1] \in m.mapCertificate => o[2] \notin Entry[o[1]].bwt
    /\ \A dep \in ToSet(MempoolDependenciesFrom(m, h)) :
           dep \in m.mapCertificate /\ Entry[dep].scId = e.scId => Entry[dep].quality < e.quality

(* CCoinsViewMemPool::GetSidechain(scId).balance *)
ViewBalance(m, ch, sc) ==
    LET base == IF HasSidechainCreationTx(m, sc) THEN 0 ELSE ch.balance[sc]
        total == Row(m.mapSidechains, sc).cswTotalAmount
    IN IF total > 0 THEN base - total ELSE base

(* An input the view can supply: an output of a pool entry or an unspent *)
(* confirmed output.                                                      *)
ViewHasInput(m, ch, o) ==
    \/ o[1] \in InPool(m) /\ o[2] < Entry[o[1]].nOut
    \/ ChainUnspent(ch, o)

(* CCoinsViewMemPool::GetNullifier, HaveSidechain and HaveCswNullifier: *)
(* the pool's index first, then the tip.                                   *)
ViewGetNullifier(m, ch, nf) == m.mapNullifiers[nf] # NoHash \/ nf \in ch.nullifiers

ViewHaveSidechain(m, ch, sc) == HasSidechainCreationTx(m, sc) \/ ch.scState[sc] # "NONE"

ViewHaveCswNullifier(m, ch, sc, nf) ==
    HaveCswNullifier(m, sc, nf) \/ <<sc, nf>> \in ch.cswNullifiers

TxValidForPool(m, ch, h) ==
    LET e == Entry[h] IN
    /\ h \notin ch.txs
    /\ \A o \in e.vin : ViewHasInput(m, ch, o)
    /\ \A nf \in e.nullifiers : ~ViewGetNullifier(m, ch, nf)
    /\ \A c \in e.csw : ch.scState[c.scId] = "CEASED" /\ ~ViewHaveCswNullifier(m, ch, c.scId, c.nullifier)
    /\ \A sc \in CswScIds(h) : CswSum(h, sc) <= ViewBalance(m, ch, sc)
    /\ \A sc \in e.scCreations : ~ViewHaveSidechain(m, ch, sc)
    /\ \A sc \in e.fts \cup e.btrs : HasSidechainCreationTx(m, sc) \/ ch.scState[sc] = "ALIVE"

CertValidForPool(m, ch, h) ==
    LET e == Entry[h] IN
    /\ h \notin ch.txs
    /\ \A o \in e.vin : ViewHasInput(m, ch, o)
    /\ CheckCertTiming(ch, e.scId, e.epoch)
    /\ e.quality > ch.topQuality[e.scId]

(* FindCertWithQuality(scId, quality).first *)
FindCertWithQuality(m, sc, q) ==
    LET same == {c \in Range(Row(m.mapSidechains, sc).mBackwardCertificates) : Entry[c].quality = q}
    IN IF same = {} THEN NoHash ELSE CHOOSE c \in same : TRUE

(* RemoveCertAndSync: recursive removal into local lists. *)
RemoveCertAndSync(m, h) ==
    IF h \notin m.mapCertificate THEN m ELSE Quietly(m, remove(m, h, TRUE))

(* DisconnectTip resurrects an entry of the disconnected block through   *)
(* the admission path; one that is refused is handed to remove() with    *)
(* fRecursive, which takes out the pool entries spending its outputs.     *)
Resurrect(m, ch, h) ==
    CASE h \in TxHashes /\ CheckIncomingTxConflicts(m, h) /\ TxValidForPool(m, ch, h) ->
             AddUncheckedTx(m, h, ch.activeCertDataHash)
      [] h \in CertHashes /\ CheckIncomingCertConflicts(m, h) /\ CertValidForPool(m, ch, h) ->
             AddUncheckedCert(RemoveCertAndSync(m, FindCertWithQuality(m, Entry[h].scId, Entry[h].quality)), h)
      [] OTHER -> Quietly(m, remove(m, h, TRUE))

------------------------------------------------------------------------------
(***************************************************************************)
(* Blocks.  An entry is valid on the tip when its inputs are unspent      *)
(* there, its nullifiers unused, its CSWs within the ceased balance, its  *)
(* sidechain outputs target live sidechains and a certificate beats the   *)
(* epoch's top quality.  ConnectBlock connects txs before certs.          *)
(***************************************************************************)
ValidOnChain(ch, h) ==
    LET e == Entry[h] IN
    /\ h \notin ch.txs
    /\ \A o \in e.vin : ChainUnspent(ch, o)
    /\ e.nullifiers \cap ch.nullifiers = {}
    /\ \A c \in e.csw : ch.scState[c.scId] = "CEASED" /\ <<c.scId, c.nullifier>> \notin ch.cswNullifiers
    /\ \A sc \in CswScIds(h) : CswSum(h, sc) <= ch.balance[sc]
    /\ \A sc \in e.scCreations : ch.scState[sc] = "NONE"
    /\ \A sc \in e.fts \cup e.btrs : ch.scState[sc] = "ALIVE"
    /\ h \in CertHashes => CheckCertTiming(ch, e.scId, e.epoch) /\ e.quality > ch.topQuality[e.scId]

ApplyToChain(ch, h) ==
    LET e == Entry[h] IN
    [ch EXCEPT !.txs = @ \cup {h},
               !.spent = @ \cup e.vin,
               !.nullifiers = @ \cup e.nullifiers,
               !.cswNullifiers = @ \cup {<<c.scId, c.nullifier>> : c \in e.csw},
               !.balance = [sc \in ScIds |-> @[sc] - CswSum(h, sc)],
               !.scState = [sc \in ScIds |-> IF sc \in e.scCreations THEN "ALIVE" ELSE @[sc]],
               !.topQuality = IF h \in CertHashes THEN [@ EXCEPT ![e.scId] = e.quality] ELSE @,
               !.activeCertDataHash = IF h \in CertHashes THEN [@ EXCEPT ![e.scId] = h] ELSE @]

ApplyBlock(ch, blk) == FoldLeftSeq(ApplyToChain, ch, blk)

ValidBlock(ch, blk) ==
    \A i \in 1..Len(blk) : ValidOnChain(ApplyBlock(ch, SubSeq(blk, 1, i - 1)), blk[i])

IsTx(h) == h \in TxHashes
IsCert(h) == h \in CertHashes

Blocks == {blk \in BoundedSeq(Hashes, MaxBlockLen) :
              /\ IsInjective(blk)
              /\ \A i, j \in 1..Len(blk) : i < j /\ IsCert(blk[i]) => IsCert(blk[j])}

(* Tip changes other than the block's entries: a sidechain missing its   *)
(* certificate window ceases, or a new certificate epoch opens.          *)
ChainEvents(ch) ==
    {<<"none", NoHash>>}
    \cup {<<"cease", sc>> : sc \in {s \in ScIds : ch.scState[s] = "ALIVE"}}
    \cup {<<"epoch", sc>> : sc \in {s \in ScIds : ch.scState[s] = "ALIVE" /\ ch.certEpoch[s] < MaxEpoch}}

AfterEvent(ch, ev) ==
    CASE ev[1] = "cease" -> [ch EXCEPT !.scState[ev[2]] = "CEASED"]
      [] ev[1] = "epoch" -> [ch EXCEPT !.certEpoch[ev[2]] = @ + 1, !.topQuality[ev[2]] = 0]
      [] OTHER -> ch

------------------------------------------------------------------------------
(***************************************************************************)
(* check(pcoins): the pool's sanity checker, run under -checkmempool.     *)
(* Each operator is TRUE when the asserts of its part of check() hold.   *)
(* The duplicate coins views are a record of the entries whose outputs   *)
(* they added and the outpoints they spent on top of pcoinsTip.  Sizes,  *)
(* memory usage, input positions, joinsplit anchors and script checks    *)
(* are not kept by the model.                                             *)
(***************************************************************************)
EmptyView == [added |-> {}, spent |-> {}]

(* CCoinsViewCache::AccessCoins(o.hash)->IsAvailable(o.n) on a view. *)
ViewAvailable(ch, view, o) ==
    /\ o \notin view.spent
    /\ ChainUnspent(ch, o) \/ (o[1] \in view.added /\ o[2] < Entry[o[1]].nOut)

ViewHaveInputs(ch, view, h) == \A o \in Entry[h].vin : ViewAvailable(ch, view, o)

(* UpdateCoins: spend the inputs, add the outputs. *)
ViewUpdateCoins(view, h) == [added |-> view.added \cup {h}, spent |-> view.spent \cup Entry[h].vin]

(* The while loop over waitingOnDependants: an entry whose inputs the    *)
(* view lacks goes to the back, and more consecutive requeues than       *)
(* entries waiting means no entry can ever be applied.                    *)
RECURSIVE DrainWaiting(_, _, _, _)
DrainWaiting(ch, view, queue, steps) ==
    IF queue = <<>> THEN [ok |-> TRUE, view |-> view]
    ELSE LET e == Head(queue)
         IN IF ViewHaveInputs(ch, view, e)
            THEN DrainWaiting(ch, ViewUpdateCoins(view, e), Tail(queue), 0)
            ELSE IF steps + 1 < Len(queue)
                 THEN DrainWaiting(ch, view, Append(Tail(queue), e), steps + 1)
                 ELSE [ok |-> FALSE, view |-> view]

(* The waiting list holds the waiting entries in the order of their     *)
(* hashes, the pool maps' order; the hashes are arbitrary, so every      *)
(* order is one the code can meet.  The entries that do not wait are     *)
(* applied to the view before any waiting one, in an order that cannot   *)
(* change the view.                                                       *)
WaitingOrders(S) == SetToSeqs(S)

(* A tx's inputs: a pool tx's existing output, never a pool cert's, else *)
(* an available coin of pcoinsTip; mapNextTx names the tx.               *)
TxInputsOk(m, ch, h) ==
    \A o \in Entry[h].vin :
        /\ IF o[1] \in m.mapTx THEN o[2] < Entry[o[1]].nOut
           ELSE o[1] \notin m.mapCertificate /\ ChainUnspent(ch, o)
        /\ m.mapNextTx[o] = h

TxScCreationsOk(m, ch, h) ==
    \A sc \in Entry[h].scCreations :
        /\ sc \in DOMAIN m.mapSidechains
        /\ m.mapSidechains[sc].scCreationTxHash = h
        /\ ch.scState[sc] = "NONE"
        /\ m.mapSidechains[sc].mBackwardCertificates = EmptyMap
        /\ m.mapSidechains[sc].cswNullifiers = EmptyMap
        /\ m.mapSidechains[sc].cswTotalAmount = 0

(* Forward transfers and BTRs are recorded and not dangling: the         *)
(* creation is in the pool, or the sidechain is alive (fwd) or exists    *)
(* (btr) on the tip.                                                      *)
TxFwdsOk(m, ch, h) ==
    \A sc \in Entry[h].fts :
        /\ sc \in DOMAIN m.mapSidechains
        /\ h \in m.mapSidechains[sc].fwdTxHashes
        /\ IF m.mapSidechains[sc].scCreationTxHash # NoHash
           THEN m.mapSidechains[sc].scCreationTxHash \in m.mapTx
           ELSE ch.scState[sc] = "ALIVE"

TxBtrsOk(m, ch, h) ==
    \A sc \in Entry[h].btrs :
        /\ sc \in DOMAIN m.mapSidechains
        /\ h \in m.mapSidechains[sc].mcBtrsTxHashes
        /\ IF m.mapSidechains[sc].scCreationTxHash # NoHash
           THEN m.mapSidechains[sc].scCreationTxHash \in m.mapTx
           ELSE ch.scState[sc] # "NONE"

(* Each CSW is recorded under its nullifier, its sidechain has ceased,  *)
(* and the tx's CSWs per sidechain stay within the sidechain's balance. *)
TxCswsOk(m, ch, h) ==
    /\ \A c \in Entry[h].csw :
           /\ c.scId \in DOMAIN m.mapSidechains
           /\ c.nullifier \in DOMAIN m.mapSidechains[c.scId].cswNullifiers
           /\ m.mapSidechains[c.scId].cswNullifiers[c.nullifier] = h
           /\ ch.scState[c.scId] = "CEASED"
    /\ \A sc \in CswScIds(h) : CswSum(h, sc) <= ch.balance[sc]

TxNullifiersOk(ch, h) == Entry[h].nullifiers \cap ch.nullifiers = {}

(* cswsTotalBalances against each row's cswTotalAmount. *)
CswTotalsOk(m) ==
    \A sc \in UNION {CswScIds(t) : t \in m.mapTx} :
        MapThenSumSet(LAMBDA t : CswSum(t, sc), m.mapTx) = m.mapSidechains[sc].cswTotalAmount

TxDependsWait(m, h) == \E o \in Entry[h].vin : o[1] \in m.mapTx

(* The loop over mapTx, then the replay of the waiting txs: the         *)
(* mempoolDuplicateTx view after every pool tx, or ok = FALSE.           *)
CheckTxs(m, ch) ==
    LET step(acc, h) ==
            [ok |-> /\ acc.ok
                    /\ TxInputsOk(m, ch, h) /\ TxScCreationsOk(m, ch, h) /\ TxFwdsOk(m, ch, h)
                    /\ TxCswsOk(m, ch, h) /\ TxBtrsOk(m, ch, h) /\ TxNullifiersOk(ch, h)
                    /\ TxDependsWait(m, h) \/ ViewHaveInputs(ch, acc.view, h),
             view |-> IF TxDependsWait(m, h) THEN acc.view ELSE ViewUpdateCoins(acc.view, h)]
        pass == FoldLeftSeq(step, [ok |-> TRUE, view |-> EmptyView], SeqOfSet(m.mapTx))
        drains == {DrainWaiting(ch, pass.view, q, 0) : q \in WaitingOrders({h \in m.mapTx : TxDependsWait(m, h)})}
    IN [ok |-> pass.ok /\ CswTotalsOk(m) /\ \A d \in drains : d.ok,
        view |-> (CHOOSE d \in drains : TRUE).view]

(* The loop over mapCertificate and the replay of the waiting certs on  *)
(* mempoolDuplicateCert, layered on the tx view: a cert is recorded in   *)
(* its row; it may spend a pool cert's change but not its backward       *)
(* transfers, anything else must be available after the pool's txs.      *)
(* CSidechainMemPoolEntry::GetCert / HasCert: a certificate is recorded *)
(* under some quality of the row.                                         *)
HasCert(row, c) == c \in Range(row.mBackwardCertificates)

CheckCerts(m, ch, txView) ==
    LET DependsWait(c) == \E o \in Entry[c].vin : o[1] \in m.mapCertificate
        InputsOk(c) ==
            \A o \in Entry[c].vin :
                /\ IF o[1] \in m.mapCertificate THEN o[2] \notin Entry[o[1]].bwt /\ o[2] < Entry[o[1]].nOut
                   ELSE ViewAvailable(ch, txView, o)
                /\ m.mapNextTx[o] = c
        step(acc, c) ==
            [ok |-> /\ acc.ok
                    /\ Entry[c].scId \in DOMAIN m.mapSidechains
                    /\ HasCert(m.mapSidechains[Entry[c].scId], c)
                    /\ InputsOk(c)
                    /\ DependsWait(c) \/ ViewHaveInputs(ch, acc.view, c),
             view |-> IF DependsWait(c) THEN acc.view ELSE ViewUpdateCoins(acc.view, c)]
        pass == FoldLeftSeq(step, [ok |-> TRUE, view |-> txView], SeqOfSet(m.mapCertificate))
    IN /\ pass.ok
       /\ \A q \in WaitingOrders({c \in m.mapCertificate : DependsWait(c)}) :
              DrainWaiting(ch, pass.view, q, 0).ok

(* The reverse checks: every mapNextTx entry names a pool entry with    *)
(* that input, every mapNullifiers entry a pool tx (the code reads the  *)
(* entry before asserting it was found; either way check() fails).     *)
CheckNextTx(m) ==
    \A o \in DOMAIN m.mapNextTx :
        m.mapNextTx[o] # NoHash => m.mapNextTx[o] \in InPool(m) /\ o \in Entry[m.mapNextTx[o]].vin

CheckNullifiers(m) ==
    \A nf \in DOMAIN m.mapNullifiers : m.mapNullifiers[nf] # NoHash => m.mapNullifiers[nf] \in m.mapTx

Check(m, ch) ==
    LET txs == CheckTxs(m, ch)
    IN txs.ok /\ CheckCerts(m, ch, txs.view) /\ CheckNextTx(m) /\ CheckNullifiers(m)

------------------------------------------------------------------------------
(***************************************************************************)
(* The state machine.  Every call of the pool's public interface runs     *)
(* under the pool lock, so each is one atomic step; its out-lists start   *)
(* empty.  NotifyRecentlyAdded releases the lock between its phases.      *)
(***************************************************************************)
Init ==
    /\ mapTx = {}
    /\ mapCertificate = {}
    /\ mapNextTx = [o \in Outpoints |-> NoHash]
    /\ mapNullifiers = [nf \in Nullifiers |-> NoHash]
    /\ mapSidechains = EmptyMap
    /\ mapDeltas = {}
    /\ mapRecentlyAddedTxBase = {}
    /\ nRecentlyAddedSequence = 0
    /\ nNotifiedSequence = 0
    /\ removedTxs = <<>>
    /\ removedCerts = <<>>
    /\ notifyPc = "idle"
    /\ notifyBatch = {}
    /\ notifySequence = 0
    /\ walletTxs = {}
    /\ syncFailed = {}
    /\ chain = InitChain
    /\ undo = <<>>

Fresh == [Mp EXCEPT !.removedTxs = <<>>, !.removedCerts = <<>>]

(* AcceptToMemoryPool for a transaction: pre-check, validation, add. *)
AcceptTx ==
    \E h \in TxHashes :
        /\ nRecentlyAddedSequence < MaxSeq
        /\ CheckIncomingTxConflicts(Mp, h)
        /\ TxValidForPool(Mp, chain, h)
        /\ SetMp(AddUncheckedTx(Fresh, h, chain.activeCertDataHash))
        /\ UNCHANGED <<notify, chain, undo>>

(* AcceptCertificateToMemoryPool: a pool cert of the same sidechain and  *)
(* quality is replaced through RemoveCertAndSync before the add.          *)
AcceptCert ==
    \E h \in CertHashes :
        /\ nRecentlyAddedSequence < MaxSeq
        /\ CheckIncomingCertConflicts(Mp, h)
        /\ CertValidForPool(Mp, chain, h)
        /\ LET old == FindCertWithQuality(Mp, Entry[h].scId, Entry[h].quality)
           IN SetMp(AddUncheckedCert(RemoveCertAndSync(Fresh, old), h))
        /\ UNCHANGED <<notify, chain, undo>>

(* ConnectTip: the tip moves, then removeForBlock(vtx),                  *)
(* removeForBlock(vcert), removeStaleTransactions and                    *)
(* removeStaleCertificates run against the new tip; the out-lists are    *)
(* the conflicting and outdated entries together.                        *)
ConnectBlock ==
    \E ev \in ChainEvents(chain), blk \in Blocks :
        LET ch1 == AfterEvent(chain, ev)
            ch2 == ApplyBlock(ch1, blk)
            m1 == RemoveForBlockTxs(Fresh, SelectSeq(blk, IsTx), ch2)
            m2 == RemoveForBlockCerts(m1, SelectSeq(blk, IsCert))
        IN /\ ev[1] # "none" \/ blk # <<>>
           /\ ValidBlock(ch1, blk)
           /\ chain' = ch2
           /\ undo' = Append(undo, [tip |-> chain, blk |-> blk])
           /\ SetMp(RemoveStaleCertificates(RemoveStaleTransactions(m2, ch2), ch2))
           /\ UNCHANGED notify

(* DisconnectTip: the tip goes back to the one the last block was        *)
(* connected to, the block's txs then certs are resurrected, and         *)
(* removeStaleTransactions and removeStaleCertificates run against the   *)
(* restored tip; every list is a dummy.                                   *)
DisconnectBlock ==
    /\ undo # <<>>
    /\ LET u == Last(undo)
           m1 == FoldLeftSeq(LAMBDA acc, h : Resurrect(acc, u.tip, h), Fresh, u.blk)
       IN /\ nRecentlyAddedSequence + Len(u.blk) <= MaxSeq
          /\ chain' = u.tip
          /\ undo' = Front(undo)
          /\ SetMp(Quietly(Fresh, RemoveStaleCertificates(RemoveStaleTransactions(m1, u.tip), u.tip)))
          /\ UNCHANGED notify

(* A caller of remove(entry, ..., fRecursive = true). *)
RemoveRecursive ==
    \E h \in InPool(Mp) :
        /\ SetMp(remove(Fresh, h, TRUE))
        /\ UNCHANGED <<notify, chain, undo>>

(* DisconnectTip changed the shielded root. *)
RemoveWithAnchor ==
    \E a \in Anchors :
        /\ SetMp(RemoveWithAnchorOp(Fresh, a))
        /\ UNCHANGED <<notify, chain, undo>>

Clear ==
    /\ SetMp([Fresh EXCEPT !.mapTx = {}, !.mapCertificate = {}, !.mapDeltas = {},
                           !.mapNextTx = [o \in Outpoints |-> NoHash], !.mapSidechains = EmptyMap])
    /\ UNCHANGED <<notify, chain, undo>>

(* prioritisetransaction on a pool entry (a delta for an absent hash     *)
(* only waits in mapDeltas, which no property reads).                    *)
PrioritiseTransaction ==
    \E h \in InPool(Mp) :
        /\ mapDeltas' = mapDeltas \cup {h}
        /\ UNCHANGED <<mapTx, mapCertificate, mapNextTx, mapNullifiers, mapSidechains,
                       mapRecentlyAddedTxBase, nRecentlyAddedSequence, nNotifiedSequence,
                       removedTxs, removedCerts, notify, chain, undo>>

(* NotifyRecentlyAdded, first block under the lock: capture the          *)
(* sequence, take the queue, clear it.                                    *)
NotifyDrain ==
    /\ notifyPc = "idle"
    /\ notifyPc' = "syncing"
    /\ notifySequence' = nRecentlyAddedSequence
    /\ notifyBatch' = mapRecentlyAddedTxBase
    /\ mapRecentlyAddedTxBase' = {}
    /\ UNCHANGED <<mapTx, mapCertificate, mapNextTx, mapNullifiers, mapSidechains, mapDeltas,
                   nRecentlyAddedSequence, nNotifiedSequence, removedTxs, removedCerts,
                   walletTxs, syncFailed, chain, undo>>

(* IsFullyNotified (regtest only). *)
IsFullyNotified(m) == m.nRecentlyAddedSequence = m.nNotifiedSequence

(* Outside the lock: one SyncWithWallets call, which returns ...          *)
NotifySync ==
    /\ notifyPc = "syncing"
    /\ \E h \in notifyBatch :
           /\ notifyBatch' = notifyBatch \ {h}
           /\ walletTxs' = walletTxs \cup {h}
    /\ UNCHANGED <<pool, notifyPc, notifySequence, syncFailed, chain, undo>>

(* ... or throws, and the exception is swallowed. *)
NotifySyncThrows ==
    /\ notifyPc = "syncing"
    /\ \E h \in notifyBatch :
           /\ notifyBatch' = notifyBatch \ {h}
           /\ syncFailed' = syncFailed \cup {h}
    /\ UNCHANGED <<pool, notifyPc, notifySequence, walletTxs, chain, undo>>

(* ... or raises boost::thread_interrupted, which is rethrown: the call  *)
(* ends there, the rest of the batch is lost and the sequence is not     *)
(* published.  The interrupt is the shutdown's, and the rethrow ends the *)
(* notifying thread: it never calls NotifyRecentlyAdded again.           *)
NotifyInterrupted ==
    /\ MayInterrupt
    /\ notifyPc = "syncing"
    /\ notifyBatch # {}
    /\ notifyPc' = "ended"
    /\ notifyBatch' = {}
    /\ UNCHANGED <<pool, notifySequence, walletTxs, syncFailed, chain, undo>>

(* Mutant: the sequence is read after the sync, not with the queue. *)
NotifyDone_LateSequence ==
    /\ notifyPc = "syncing"
    /\ notifyBatch = {}
    /\ notifyPc' = "idle"
    /\ nNotifiedSequence' = nRecentlyAddedSequence
    /\ UNCHANGED <<mapTx, mapCertificate, mapNextTx, mapNullifiers, mapSidechains, mapDeltas,
                   mapRecentlyAddedTxBase, nRecentlyAddedSequence, removedTxs, removedCerts,
                   notifyBatch, notifySequence, walletTxs, syncFailed, chain, undo>>

(* regtest: the lock again, to publish the captured sequence. *)
NotifyDone ==
    /\ notifyPc = "syncing"
    /\ notifyBatch = {}
    /\ notifyPc' = "idle"
    /\ nNotifiedSequence' = notifySequence
    /\ UNCHANGED <<mapTx, mapCertificate, mapNextTx, mapNullifiers, mapSidechains, mapDeltas,
                   mapRecentlyAddedTxBase, nRecentlyAddedSequence, removedTxs, removedCerts,
                   notifyBatch, notifySequence, walletTxs, syncFailed, chain, undo>>

Next ==
    \/ AcceptTx
    \/ AcceptCert
    \/ ConnectBlock
    \/ DisconnectBlock
    \/ RemoveRecursive
    \/ RemoveWithAnchor
    \/ Clear
    \/ PrioritiseTransaction
    \/ NotifyDrain
    \/ NotifySync
    \/ NotifySyncThrows
    \/ NotifyInterrupted
    \/ NotifyDone

Spec == Init /\ [][Next]_vars

(* The pool seen by its clients: the pooled hashes and the tip. *)
Contract == INSTANCE MempoolContract WITH pool <- InPool(Mp), tip <- chain

------------------------------------------------------------------------------
(***************************************************************************)
(* Properties.                                                             *)
(***************************************************************************)
RowOK(r) ==
    /\ r.scCreationTxHash \in TxHashes \cup {NoHash}
    /\ r.fwdTxHashes \subseteq TxHashes /\ r.mcBtrsTxHashes \subseteq TxHashes
    /\ r.mcBtrsCertDataHash \in CertHashes \cup {NoHash}
    /\ DOMAIN r.cswNullifiers \subseteq Nat /\ Range(r.cswNullifiers) \subseteq TxHashes
    /\ r.cswTotalAmount \in Nat
    /\ DOMAIN r.mBackwardCertificates \subseteq Nat /\ Range(r.mBackwardCertificates) \subseteq CertHashes

(* Every variable holds a value of its type. *)
TypeOK ==
    /\ mapTx \subseteq TxHashes
    /\ mapCertificate \subseteq CertHashes
    /\ mapNextTx \in [Outpoints -> Hashes \cup {NoHash}]
    /\ mapNullifiers \in [Nullifiers -> TxHashes \cup {NoHash}]
    /\ DOMAIN mapSidechains \subseteq ScIds
    /\ \A sc \in DOMAIN mapSidechains : RowOK(mapSidechains[sc])
    /\ mapDeltas \subseteq Hashes
    /\ mapRecentlyAddedTxBase \subseteq Hashes
    /\ nRecentlyAddedSequence \in 0..MaxSeq
    /\ nNotifiedSequence \in 0..MaxSeq
    /\ removedTxs \in Seq(TxHashes)
    /\ removedCerts \in Seq(CertHashes)
    /\ notifyPc \in {"idle", "syncing", "ended"}
    /\ notifyBatch \subseteq Hashes
    /\ notifySequence \in 0..MaxSeq
    /\ walletTxs \subseteq Hashes
    /\ syncFailed \subseteq Hashes
    /\ \A i \in 1..Len(undo) : undo[i].blk \in Seq(Hashes)

(* The pool's CSW inputs towards a sidechain, as <<tx, csw>> pairs. *)
PoolCsws(sc) == {<<t, c>> \in mapTx \X UNION {Entry[t].csw : t \in mapTx} :
                     c \in Entry[t].csw /\ c.scId = sc}

(* The sidechain row check() recomputes from mapTx and mapCertificate. *)
ExpectedRow(sc) ==
    LET creators == {t \in mapTx : sc \in Entry[t].scCreations}
        btrs == {t \in mapTx : sc \in Entry[t].btrs}
        csws == PoolCsws(sc)
        certs == {c \in mapCertificate : Entry[c].scId = sc}
    IN [scCreationTxHash |-> IF creators = {} THEN NoHash ELSE CHOOSE t \in creators : TRUE,
        fwdTxHashes |-> {t \in mapTx : sc \in Entry[t].fts},
        mcBtrsTxHashes |-> btrs,
        mcBtrsCertDataHash |-> IF btrs = {} THEN NoHash ELSE Row(mapSidechains, sc).mcBtrsCertDataHash,
        cswNullifiers |-> [nf \in {p[2].nullifier : p \in csws} |->
                              CHOOSE t \in mapTx : <<t, nf>> \in {<<p[1], p[2].nullifier>> : p \in csws}],
        cswTotalAmount |-> MapThenSumSet(LAMBDA p : p[2].nValue, csws),
        mBackwardCertificates |-> [q \in {Entry[c].quality : c \in certs} |->
                                      CHOOSE c \in certs : Entry[c].quality = q]]

(* The secondary indexes agree with the owning tables, as check()        *)
(* asserts: mapNextTx names the one pool entry spending each outpoint,   *)
(* and mapSidechains is exactly what the pool's entries imply, with one  *)
(* entry per CSW nullifier and one certificate per quality (the          *)
(* precondition addUnchecked(cert) asserts), a cswTotalAmount equal to   *)
(* the sum of the CSW values, and no null row left behind.  A wrong      *)
(* erase in remove(), a missed update in addUnchecked, or a cascade that *)
(* removes an entry without its index entries breaks it.                 *)
IndexesConsistent ==
    /\ \A o \in Outpoints :
           LET users == {e \in InPool(Mp) : o \in Entry[e].vin}
           IN IF users = {} THEN mapNextTx[o] = NoHash ELSE users = {mapNextTx[o]}
    /\ \A sc \in ScIds :
           /\ \A p1, p2 \in PoolCsws(sc) : p1[2].nullifier = p2[2].nullifier => p1 = p2
           /\ \A c1, c2 \in mapCertificate :
                  Entry[c1].scId = sc /\ Entry[c2].scId = sc /\ Entry[c1].quality = Entry[c2].quality
                  => c1 = c2
    /\ mapSidechains = [sc \in {s \in ScIds : ~IsNull(ExpectedRow(s))} |-> ExpectedRow(sc)]

(* Every shielded nullifier of a pool tx maps to that tx and every       *)
(* mapNullifiers entry names a pool tx using it (check(), the loop over  *)
(* mapNullifiers).  addUnchecked, remove and clear() must keep it.       *)
NullifierIndexConsistent ==
    \A nf \in Nullifiers :
        LET users == {t \in mapTx : nf \in Entry[t].nullifiers}
        IN IF users = {} THEN mapNullifiers[nf] = NoHash ELSE users = {mapNullifiers[nf]}

(* Every pool entry is still acceptable on the current tip: its inputs   *)
(* are outputs of pool entries or unspent confirmed outputs, it is not   *)
(* itself confirmed, its nullifiers and CSW nullifiers are unused on     *)
(* chain, its forward transfers and BTRs target a sidechain created in   *)
(* the pool or alive, its CSWs a ceased sidechain, its BTRs carry the    *)
(* tip's active certificate data hash, and a certificate is in its       *)
(* sidechain's current epoch.  This is what removeForBlock,              *)
(* removeConflicts, removeStaleTransactions and removeStaleCertificates  *)
(* must restore after every block, whatever the block holds.             *)
PoolValidOnTip ==
    /\ \A e \in InPool(Mp) :
           /\ e \notin chain.txs
           /\ \A o \in Entry[e].vin : (o[1] \in InPool(Mp) /\ o[2] < Entry[o[1]].nOut)
                                      \/ ChainUnspent(chain, o)
    /\ \A t \in mapTx :
           /\ Entry[t].nullifiers \cap chain.nullifiers = {}
           /\ \A c \in Entry[t].csw : chain.scState[c.scId] = "CEASED"
                                      /\ <<c.scId, c.nullifier>> \notin chain.cswNullifiers
           /\ \A sc \in Entry[t].fts \cup Entry[t].btrs :
                  HasSidechainCreationTx(Mp, sc) \/ chain.scState[sc] = "ALIVE"
    /\ \A sc \in DOMAIN mapSidechains :
           mapSidechains[sc].mcBtrsTxHashes # {} =>
               mapSidechains[sc].mcBtrsCertDataHash = chain.activeCertDataHash[sc]
    /\ \A c \in mapCertificate : CheckCertTiming(chain, Entry[c].scId, Entry[c].epoch)

(* The pool's CSWs towards a sidechain never claim more than its         *)
(* confirmed balance (removeOutOfScBalanceCsw after every confirmed tx). *)
CswWithinBalance ==
    \A sc \in DOMAIN mapSidechains : mapSidechains[sc].cswTotalAmount <= chain.balance[sc]

(* No pool certificate is superseded by a confirmed one: a confirmed     *)
(* certificate removes every pool certificate of its sidechain and epoch *)
(* whose quality is not above its own (removeConflicts(cert)).           *)
NoSupersededCert ==
    \A c \in mapCertificate :
        Entry[c].epoch = chain.certEpoch[Entry[c].scId] => Entry[c].quality > chain.topQuality[Entry[c].scId]

(* check() never asserts: in every state the pool reaches, the sanity    *)
(* checker main.cpp runs after each operation under -checkmempool finds   *)
(* every entry's inputs, indexes and sidechain rows as it expects, and    *)
(* its replay of the pool onto a copy of pcoinsTip, parents before        *)
(* children through the waiting lists, applies every tx and cert.        *)
CheckNeverAsserts == Check(Mp, chain)

------------------------------------------------------------------------------
(* Reference definitions of the DAG: direct parents and children from    *)
(* the entries' bodies, closed by a fixpoint.                             *)
ParentsRef(h) ==
    {p \in InPool(Mp) : \E o \in Entry[h].vin : o[1] = p}
    \cup (IF h \in CertHashes THEN {}
          ELSE {t \in mapTx : Entry[t].scCreations \cap (Entry[h].fts \cup Entry[h].btrs) # {}})

ChildrenRef(h) ==
    {c \in InPool(Mp) : \E o \in Entry[c].vin : o[1] = h}
    \cup (IF h \in CertHashes THEN {}
          ELSE {t \in mapTx : (Entry[t].fts \cup Entry[t].btrs) \cap Entry[h].scCreations # {}})

RECURSIVE Reach(_, _, _)
Reach(Step(_), frontier, seen) ==
    LET new == UNION {Step(x) : x \in frontier} \ seen
    IN IF new = {} THEN seen ELSE Reach(Step, new, seen \cup new)

AncestorsRef(h) == Reach(ParentsRef, {h}, {})
DescendantsRef(h) == Reach(ChildrenRef, {h}, {})

(* mempoolDependenciesFrom and mempoolDependenciesOf return each         *)
(* ancestor, resp. descendant, of any entry exactly once, for entries in *)
(* the pool and for entries remove() is handed after they left it.       *)
TraversalsAreClosures ==
    \A h \in Hashes :
        LET from == MempoolDependenciesFrom(Mp, h)
            of == MempoolDependenciesOf(Mp, h)
        IN /\ IsInjective(from) /\ ToSet(from) = AncestorsRef(h) \ {h}
           /\ IsInjective(of) /\ ToSet(of) = DescendantsRef(h) \ {h}

(* No pool certificate depends, directly or through other entries, on a  *)
(* pool certificate of the same sidechain with an equal or higher        *)
(* quality (checkIncomingCertConflicts, with the replacement done by     *)
(* RemoveCertAndSync and the removals of every cascade).                 *)
CertQualityOrder ==
    \A c \in mapCertificate :
        \A d \in AncestorsRef(c) \cap mapCertificate :
            d # c /\ Entry[d].scId = Entry[c].scId => Entry[d].quality < Entry[c].quality

(* Once IsFullyNotified holds, every entry in the pool has been handed   *)
(* to SyncWithWallets: NotifyRecentlyAdded publishes the sequence it     *)
(* captured together with the queue it drained.                          *)
FullyNotifiedMeansHandled ==
    IsFullyNotified(Mp) => InPool(Mp) \subseteq walletTxs \cup syncFailed

(* The pool implements MempoolContract: every call that drops an entry  *)
(* without confirming it (remove with fRecursive, removeConflicts, the    *)
(* stale and anchor removals, clear, a certificate's replacement) drops  *)
(* every pool entry depending on it, through a spent output or a         *)
(* sidechain created in the pool, and a new tip leaves no entry it       *)
(* confirms.                                                              *)
PoolContract == Contract!Spec

------------------------------------------------------------------------------
(* remove() reports a removal cascade in the order its entries leave:    *)
(* no entry is listed before one of its descendants (the out-list order  *)
(* the pool's contract promises to its callers).                         *)
RemovedDescendantsFirst ==
    [][\A i, j \in 1..Len(removedTxs') :
           i < j => removedTxs'[j] \notin DescendantsRef(removedTxs'[i])]_vars

(* A block never reports one of its own entries as conflicting or        *)
(* outdated: removeForBlock(vtx) must not evict, through                 *)
(* removeOutOfScBalanceCsw, a CSW the same block confirms.               *)
BlockNeverConflictsOwnEntries ==
    [][\A h \in chain'.txs \ chain.txs : h \notin ToSet(removedTxs') \cup ToSet(removedCerts')]_vars

(* DisconnectTip loses none of the block it disconnects: every entry of  *)
(* it is admitted again.  This needs every earlier ConnectTip to have     *)
(* removed from the pool all that conflicts with the block (double        *)
(* spends, nullifiers, CSW balance), and the resurrection to validate     *)
(* against the restored tip.                                              *)
DisconnectResurrectsBlock ==
    [][Len(undo') < Len(undo) => ToSet(Last(undo).blk) \subseteq InPool(Mp')]_vars

==============================================================================
