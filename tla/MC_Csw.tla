------------------------------- MODULE MC_Csw --------------------------------
(***************************************************************************)
(* Ceased-sidechain withdrawals and shielded spends.  Sidechain Z has     *)
(* ceased with balance 4.  K1 and K2 withdraw 2 each (nullifiers 1, 2),   *)
(* K3 withdraws 1 (nullifier 3) and K4 reuses K1's nullifier.  Z1 spends  *)
(* shielded nullifier N1 under anchor R1 and Z2 double-spends N1 under    *)
(* anchor R2; Z3 spends Z1's output.                                      *)
(***************************************************************************)
EXTENDS Mempool

CONSTANTS K1, K2, K3, K4, Z1, Z2, Z3, Z, N1, R1, R2

NoBody == [vin |-> {}, nOut |-> 1, nullifiers |-> {}, anchors |-> {}, csw |-> {},
           scCreations |-> {}, fts |-> {}, btrs |-> {},
           scId |-> NoHash, epoch |-> 0, quality |-> 0, bwt |-> {}]

Csw(nf, v) == [NoBody EXCEPT !.csw = {[scId |-> Z, nullifier |-> nf, nValue |-> v]}]

MCEntry ==
    (K1 :> Csw(1, 2)) @@ (K2 :> Csw(2, 2)) @@ (K3 :> Csw(3, 1)) @@ (K4 :> Csw(1, 1)) @@
    (Z1 :> [NoBody EXCEPT !.nullifiers = {N1}, !.anchors = {R1}]) @@
    (Z2 :> [NoBody EXCEPT !.nullifiers = {N1}, !.anchors = {R2}]) @@
    (Z3 :> [NoBody EXCEPT !.vin = {<<Z1, 0>>}])

MCInitChain ==
    [txs |-> {}, spent |-> {}, nullifiers |-> {}, cswNullifiers |-> {},
     scState |-> (Z :> "CEASED"), balance |-> (Z :> 4), certEpoch |-> (Z :> 0),
     topQuality |-> (Z :> 0), activeCertDataHash |-> (Z :> NoHash)]

NextCsw == AcceptTx \/ ConnectBlock \/ DisconnectBlock \/ RemoveRecursive \/ RemoveWithAnchor
SpecCsw == Init /\ [][NextCsw]_vars

(* The same pool when the host also calls clear(). *)
SpecCswClear == Init /\ [][NextCsw \/ Clear]_vars

==============================================================================
