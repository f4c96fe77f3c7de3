---------------------------- MODULE DendrethRelay ----------------------------
(***************************************************************************)
(* RelayProxy with the DendrETH light client: a contract on the target     *)
(* chain that follows the source's beacon chain through succinct proofs    *)
(* and hands the relay the execution state root of the last finalized      *)
(* block, and updateStorageModified, the update of ProxyContract that      *)
(* checks the old and the new storage root and moves the relay's record.   *)
(*                                                                         *)
(* A beacon header is the number of the source block it carries.  The      *)
(* circuit behind verifyUpdate accepts a header later than the optimistic  *)
(* one together with the block finalized when that header was attested;    *)
(* FinalityLag says how many blocks finality is behind.                    *)
(***************************************************************************)
EXTENDS RelayProxy

CONSTANT FinalityLag

ASSUME FinalityAssumption == FinalityLag \in Nat

VARIABLES
  optimisticHeader,    \* BeaconLightClient._optimistic_header_root
  finalizedExecution   \* BeaconLightClient._finalized_execution_state_root

beaconVars == <<optimisticHeader, finalizedExecution>>
dendrethVars == <<srcChain, tgtChain, srcContractStateRoots, latestBlockNr,
                  proxyStorageInfos, proxyStorage, optimisticHeader, finalizedExecution>>

\* The block finalized when block a is attested, never before the first.
FinalizedBy(a) == IF a > FinalityLag THEN a - FinalityLag ELSE 1

\* RelayContract.getStateRootDendreth
StateRootDendreth == finalizedExecution

\* No slot emptied on the way from s to t held the word that one filled on the way
\* has now.
NoWordMoved(s, t) ==
  \A from, to \in Keys :
    s[from] # Empty /\ t[from] = Empty /\ s[to] = Empty /\ t[to] # Empty => s[from] # t[to]

\* Where the old root that ProxyContract.computeRoots puts together from a proof
\* the client built can be relied on: the proxy holds the storage r recorded of
\* it, and no word moved.
Rebuilt(s, r, t) == s = r /\ NoWordMoved(s, t)

\* The old root: the proof of slots ks carries the storage t of its block, the
\* proxy puts its own current words s back into those slots.
OldRoot(s, t, ks) == Overlay(t, s, ks)

-----------------------------------------------------------------------------
\* The light client is deployed with the first source block as its checkpoint.
DendrethInit ==
  /\ Init
  /\ optimisticHeader = 1
  /\ finalizedExecution = 1

\* BeaconLightClient.light_client_update
LightClientUpdate(a) ==
  /\ a > optimisticHeader
  /\ a <= Len(srcChain)
  /\ optimisticHeader' = a
  /\ finalizedExecution' = FinalizedBy(a)
  /\ UNCHANGED <<chainVars, rootVars, proxyStorageInfos, proxyStorage>>

\* RelayContract.addBlockDendreth: the light client's current root, stored under
\* any number.
AddBlockDendreth(n) ==
  /\ srcContractStateRoots' = [srcContractStateRoots EXCEPT ![n] = finalizedExecution]
  /\ latestBlockNr' = IF n > latestBlockNr THEN n ELSE latestBlockNr
  /\ UNCHANGED <<chainVars, proxyStorageInfos, proxyStorage, beaconVars>>

\* Mutant of updateStorageModified: what is recorded is the storage the update
\* results in.
UpdateRecordsResult(p, m, u, ks, n) ==
  /\ p \in Wired
  /\ Migrated(p)
  /\ m \in 1..Len(srcChain)
  /\ VerifyProof(m, StateRootDendreth)
  /\ proxyStorageInfos[p].blockNumber < n
  /\ proxyStorage' = [proxyStorage EXCEPT ![p] = Overlay(@, u, ks)]
  /\ proxyStorageInfos' = [proxyStorageInfos EXCEPT ![p] =
       [storageRoot |-> proxyStorage'[p], migrationState |-> TRUE, blockNumber |-> n]]
  /\ UNCHANGED <<chainVars, rootVars, beaconVars>>

\* Mutant: updateProxyInfo without its requirement on the block number.
UpdateWithoutOrder(p, m, u, ks, n) ==
  /\ p \in Wired
  /\ Migrated(p)
  /\ m \in 1..Len(srcChain)
  /\ VerifyProof(m, StateRootDendreth)
  /\ proxyStorage' = [proxyStorage EXCEPT ![p] = Overlay(@, u, ks)]
  /\ proxyStorageInfos' = [proxyStorageInfos EXCEPT ![p] =
       [storageRoot |-> srcChain[m], migrationState |-> TRUE, blockNumber |-> n]]
  /\ UNCHANGED <<chainVars, rootVars, beaconVars>>

\* ProxyContract.updateStorageModified: the source account proof m, a storage
\* proof that has the words u in the slots ks, and n, the number the caller
\* names.  updateProxyInfo requires the number to grow.  Which storage proofs
\* pass the comparison of the old and the new root is left open here.
UpdateStorageModified(p, m, u, ks, n) ==
  /\ p \in Wired
  /\ Migrated(p)
  /\ m \in 1..Len(srcChain)
  /\ VerifyProof(m, StateRootDendreth)
  /\ proxyStorageInfos[p].blockNumber < n
  /\ proxyStorage' = [proxyStorage EXCEPT ![p] = Overlay(@, u, ks)]
  /\ proxyStorageInfos' = [proxyStorageInfos EXCEPT ![p] =
       [storageRoot |-> srcChain[m], migrationState |-> TRUE, blockNumber |-> n]]
  /\ UNCHANGED <<chainVars, rootVars, beaconVars>>

\* Mutant: the old storage root is not compared.
BuiltWithoutOldRoot(p, m, u, ks, n) ==
  /\ m \in 1..Len(srcChain)
  /\ \A k \in ks : proxyStorage[p][k] # Empty \/ srcChain[m][k] # Empty
  /\ Rebuilt(proxyStorage[p], proxyStorageInfos[p].storageRoot, srcChain[m]) => u = srcChain[m]
  /\ UpdateStorageModified(p, m, u, ks, n)

\* The same with a storage proof of the client's, of slots one of the two holds:
\* where the old root is rebuilt, it must be the recorded one, and the words are
\* the source's in block m.  Elsewhere a wrong old root may come out as the
\* recorded one, with any words.
BuiltUpdate(p, m, u, ks, n) ==
  /\ m \in 1..Len(srcChain)
  /\ \A k \in ks : proxyStorage[p][k] # Empty \/ srcChain[m][k] # Empty
  /\ Rebuilt(proxyStorage[p], proxyStorageInfos[p].storageRoot, srcChain[m]) =>
       /\ OldRoot(proxyStorage[p], srcChain[m], ks) = proxyStorageInfos[p].storageRoot
       /\ u = srcChain[m]
  /\ UpdateStorageModified(p, m, u, ks, n)

\* What anybody may do as in Next; only, addBlock is not given a root under which
\* an account that is not the source's can be shown.
AnyContractStep ==
  \/ OtherSteps
  \/ \E n \in Numbers, root \in Roots \ {OtherRoot} : AddBlock(n, root)

LightClientSteps ==
  \/ \E a \in SrcBlocks : LightClientUpdate(a)
  \/ \E n \in Numbers : AddBlockDendreth(n)

\* Updates with any storage proof that passes.
DendrethNext ==
  \/ AnyContractStep /\ UNCHANGED beaconVars
  \/ LightClientSteps
  \/ \E p \in Proxies, m \in SrcBlocks, u \in Storage, ks \in SlotSets, n \in Numbers :
        UpdateStorageModified(p, m, u, ks, n)

DendrethSpec == DendrethInit /\ [][DendrethNext]_dendrethVars

\* Updates with the storage proofs the client builds.
BuiltNext ==
  \/ AnyContractStep /\ UNCHANGED beaconVars
  \/ LightClientSteps
  \/ \E p \in Proxies, m \in SrcBlocks, u \in Storage, ks \in SlotSets, n \in Numbers :
        BuiltUpdate(p, m, u, ks, n)

BuiltSpec == DendrethInit /\ [][BuiltNext]_dendrethVars


-----------------------------------------------------------------------------
(***************************************************************************)
(* One operator at a time: the proxy is filled, the operator stops writing *)
(* and has the migration verified once; every change after that goes       *)
(* through updateStorageModified with a proof of the client's that can be  *)
(* relied on; and a call names the block its proof was read at.  Only      *)
(* addBlock feeds the relay's table, with right roots.                     *)
(***************************************************************************)
SerialVerify(p, h, n) ==
  /\ ~Migrated(p)
  /\ tgtChain[h][p] = proxyStorage[p]
  /\ VerifyMigrateContract(p, h, n, n)

SerialUpdate(p, n, u, ks) ==
  /\ BuiltUpdate(p, n, u, ks, n)
  /\ NoWordMoved(proxyStorage[p], srcChain[n])

SerialNext ==
  \/ SourceBlock /\ UNCHANGED beaconVars
  \/ TargetBlock /\ UNCHANGED beaconVars
  \/ \E n \in SrcBlocks : AddBlock(n, n) /\ UNCHANGED beaconVars
  \/ \E p \in Proxies, t \in Storage, ks \in SlotSets :
        AddStorage(p, t, ks) /\ UNCHANGED beaconVars
  \/ \E p \in Proxies, h \in 1..Len(tgtChain), n \in SrcBlocks :
        SerialVerify(p, h, n) /\ UNCHANGED beaconVars
  \/ \E a \in SrcBlocks : LightClientUpdate(a)
  \/ \E p \in Proxies, n \in SrcBlocks, u \in Storage, ks \in SlotSets :
        SerialUpdate(p, n, u, ks)

SerialSpec == DendrethInit /\ [][SerialNext]_dendrethVars

-----------------------------------------------------------------------------
(***************************************************************************)
(* Properties.                                                             *)
(***************************************************************************)
\* The type invariant, with the light client's two headers.
DendrethTypeOK ==
  /\ TypeOK
  /\ optimisticHeader \in 1..Len(srcChain)
  /\ finalizedExecution \in 1..optimisticHeader

\* Whatever words anybody writes, under whatever number anybody stores a root the
\* light client or the source has, and whatever storage proof passes, the storage
\* root recorded of a migrated proxy is one the source contract really had.
RecordedRootIsGenuine ==
  \A p \in Proxies : Migrated(p) =>
    \E m \in 1..Len(srcChain) : proxyStorageInfos[p].storageRoot = srcChain[m]

\* updateStorageModified, called with storage proofs the client built, takes a
\* proxy that holds what the relay records, if no word moved, to the source
\* contract's complete storage, although the caller chooses which slots the proof
\* covers: a slot that changed and was left out makes the old root come out wrong.
VerifiedUpdateIsComplete ==
  [][\A p \in Proxies :
       LET info == proxyStorageInfos[p]
           t == srcChain[finalizedExecution]
       IN  /\ Rebuilt(proxyStorage[p], info.storageRoot, t)
           /\ proxyStorage'[p] # proxyStorage[p]
           /\ proxyStorageInfos'[p] # info
           => proxyStorage'[p] = t]_dendrethVars

\* Under the serial operator, and as long as no update carries a word that moved, a
\* migrated proxy holds exactly the source contract's storage in the block the
\* relay names.
MirrorsRecordedBlock ==
  \A p \in Proxies : Migrated(p) =>
    /\ proxyStorageInfos[p].blockNumber \in 1..Len(srcChain)
    /\ proxyStorage[p] = srcChain[proxyStorageInfos[p].blockNumber]
    /\ proxyStorage[p] = proxyStorageInfos[p].storageRoot

\* And the serial operator implements Mirror, on the same condition: what a proxy
\* shows, once it is migrated, is a complete source storage, block after block.
AbstractMirror == INSTANCE Mirror WITH
  Hidden <- NoRoot,
  history <- srcChain,
  block <- [p \in Proxies |-> proxyStorageInfos[p].blockNumber],
  view <- [p \in Proxies |-> IF Migrated(p) THEN proxyStorage[p] ELSE NoRoot]

ImplementsMirror == AbstractMirror!MirrorSpec

=============================================================================
