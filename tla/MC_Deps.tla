------------------------------- MODULE MC_Deps -------------------------------
(***************************************************************************)
(* Transparent and sidechain dependencies between transactions.  Genesis  *)
(* G has two outputs.  T1 creates sidechain S; T2 forwards to S, so it    *)
(* depends on T1 through mapSidechains; T3 spends T2; T4 double-spends    *)
(* T2's input, so a block confirming T4 evicts T2, T3 and T5, which      *)
(* spends T3: T3 and T5 wait on their parents in check()'s replay.       *)
(***************************************************************************)
EXTENDS Mempool

CONSTANTS G, T1, T2, T3, T4, T5, S

NoBody == [vin |-> {}, nOut |-> 1, nullifiers |-> {}, anchors |-> {}, csw |-> {},
           scCreations |-> {}, fts |-> {}, btrs |-> {},
           scId |-> NoHash, epoch |-> 0, quality |-> 0, bwt |-> {}]

MCEntry ==
    (G :> [NoBody EXCEPT !.nOut = 2]) @@
    (T1 :> [NoBody EXCEPT !.vin = {<<G, 0>>}, !.scCreations = {S}]) @@
    (T2 :> [NoBody EXCEPT !.vin = {<<G, 1>>}, !.fts = {S}]) @@
    (T3 :> [NoBody EXCEPT !.vin = {<<T2, 0>>}]) @@
    (T4 :> [NoBody EXCEPT !.vin = {<<G, 1>>}]) @@
    (T5 :> [NoBody EXCEPT !.vin = {<<T3, 0>>}])

MCInitChain ==
    [txs |-> {G}, spent |-> {}, nullifiers |-> {}, cswNullifiers |-> {},
     scState |-> (S :> "NONE"), balance |-> (S :> 0), certEpoch |-> (S :> 0),
     topQuality |-> (S :> 0), activeCertDataHash |-> (S :> NoHash)]

(* The pool driven by the validator, the block processor and callers of  *)
(* remove(); the wallet notifier and the RPCs are checked in MC_Notify.   *)
NextDeps == AcceptTx \/ ConnectBlock \/ RemoveRecursive
SpecDeps == Init /\ [][NextDeps]_vars

==============================================================================
