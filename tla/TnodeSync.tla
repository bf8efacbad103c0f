----------------------------- MODULE TnodeSync ------------------------------
(***************************************************************************)
(* The sync gate (tnodeSync, CTnodeSync): the asset the node is currently  *)
(* synchronising.  The class is not under src/; it is modelled from spec   *)
(* section 4.6 and from how src/test/tnode_tests.cpp drives it: four calls *)
(* of SwitchToNextAsset take a fresh node to the synced state (lines       *)
(* 155-157, 227-228) and Reset takes it back (line 216).  The RPC layer    *)
(* reads IsBlockchainSynced (rpctnode.cpp:212) and IsTnodeListSynced       *)
(* (rpctnode.cpp:298).                                                     *)
(***************************************************************************)
EXTENDS Naturals

\* Assets in the order the gate passes through them.
INITIAL == 0
WAITING == 1
LIST    == 2
WINNERS == 3
FINISHED == 4
Assets == INITIAL..FINISHED

VARIABLE syncAsset

SyncTypeOK == syncAsset \in Assets

\* IsBlockchainSynced: past the wait for the chain tip.
IsBlockchainSynced == syncAsset > WAITING

\* IsTnodeListSynced: the tnode list has been fetched from peers.
IsTnodeListSynced == syncAsset > LIST

\* IsSynced (spec: IsConsensusEnforceable): every asset is done.
IsSynced == syncAsset = FINISHED

SyncInit == syncAsset = INITIAL

\* SwitchToNextAsset: strictly forward, one asset at a time.
SwitchToNextAsset == /\ syncAsset < FINISHED
                     /\ syncAsset' = syncAsset + 1

\* Reset: back to INITIAL on a detected desync or operator request.
Reset == /\ syncAsset # INITIAL
         /\ syncAsset' = INITIAL

SyncNext == SwitchToNextAsset \/ Reset
=============================================================================
