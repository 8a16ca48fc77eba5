------------------------------- MODULE MC_Notify -----------------------------
(***************************************************************************)
(* The wallet notifier interleaved with every caller of the pool.  T1     *)
(* spends genesis output 0, T2 spends T1, T3 double-spends T1's input;    *)
(* the pool is also cleared and prioritised.                              *)
(***************************************************************************)
EXTENDS Mempool

CONSTANTS G, T1, T2, T3

NoBody == [vin |-> {}, nOut |-> 1, nullifiers |-> {}, anchors |-> {}, csw |-> {},
           scCreations |-> {}, fts |-> {}, btrs |-> {},
           scId |-> NoHash, epoch |-> 0, quality |-> 0, bwt |-> {}]

MCEntry ==
    (G :> NoBody) @@
    (T1 :> [NoBody EXCEPT !.vin = {<<G, 0>>}]) @@
    (T2 :> [NoBody EXCEPT !.vin = {<<T1, 0>>}]) @@
    (T3 :> [NoBody EXCEPT !.vin = {<<G, 0>>}])

MCInitChain ==
    [txs |-> {G}, spent |-> {}, nullifiers |-> {}, cswNullifiers |-> {},
     scState |-> [sc \in {} |-> "NONE"], balance |-> [sc \in {} |-> 0],
     certEpoch |-> [sc \in {} |-> 0], topQuality |-> [sc \in {} |-> 0],
     activeCertDataHash |-> [sc \in {} |-> NoHash]]

==============================================================================
