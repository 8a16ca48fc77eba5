------------------------------- MODULE MC_Certs ------------------------------
(***************************************************************************)
(* Certificates of the live sidechain A for epoch 0.  C1 (quality 2)      *)
(* spends genesis output 0 and has change outputs 0 and 1 and a backward  *)
(* transfer at 2; C2 (quality 3) spends C1's change 0; C4 (quality 1)     *)
(* would spend C1's change 1, below its ancestor's quality; C3 has C1's   *)
(* quality and no inputs, so admitting it replaces C1 and a block         *)
(* confirming it supersedes C1.  T5 requests a backward transfer from A   *)
(* against the active certificate data hash; T6 spends C1's change 1,    *)
(* which the pool accepts only once C1 is confirmed, so a disconnection  *)
(* of C1's block leaves it spending a pooled certificate.  Blocks are    *)
(* connected and disconnected.  Nothing spends a backward transfer:      *)
(* those mature only epochs after their certificate, deeper than the     *)
(* one-block disconnections here.                                        *)
(***************************************************************************)
EXTENDS Mempool

CONSTANTS G, T5, T6, C1, C2, C3, C4, A

NoBody == [vin |-> {}, nOut |-> 1, nullifiers |-> {}, anchors |-> {}, csw |-> {},
           scCreations |-> {}, fts |-> {}, btrs |-> {},
           scId |-> NoHash, epoch |-> 0, quality |-> 0, bwt |-> {}]

CertBody(vin, q) == [NoBody EXCEPT !.vin = vin, !.nOut = 3, !.scId = A, !.quality = q, !.bwt = {2}]

MCEntry ==
    (G :> [NoBody EXCEPT !.nOut = 2]) @@
    (T5 :> [NoBody EXCEPT !.vin = {<<G, 1>>}, !.btrs = {A}]) @@
    (T6 :> [NoBody EXCEPT !.vin = {<<C1, 1>>}]) @@
    (C1 :> CertBody({<<G, 0>>}, 2)) @@
    (C2 :> CertBody({<<C1, 0>>}, 3)) @@
    (C3 :> CertBody({}, 2)) @@
    (C4 :> CertBody({<<C1, 1>>}, 1))

MCInitChain ==
    [txs |-> {G}, spent |-> {}, nullifiers |-> {}, cswNullifiers |-> {},
     scState |-> (A :> "ALIVE"), balance |-> (A :> 10), certEpoch |-> (A :> 0),
     topQuality |-> (A :> 0), activeCertDataHash |-> (A :> NoHash)]

NextCerts == AcceptTx \/ AcceptCert \/ ConnectBlock \/ DisconnectBlock \/ RemoveRecursive
SpecCerts == Init /\ [][NextCerts]_vars

==============================================================================
