------------------------ MODULE DendrethRelay_proofs ------------------------
(***************************************************************************)
(* What the verifying update guarantees for every set of slots, words and  *)
(* proxies and every length of the chains, and that a serial operator      *)
(* implements Mirror.  What a storage proof of the client's makes of the   *)
(* words is part of BuiltUpdate, and a theorem of Tries_proofs.            *)
(***************************************************************************)
EXTENDS DendrethRelay, RelayProxy_proofs

\* The heart of updateStorageModified: if putting the old words s back into
\* the proven slots of the new storage t gives s again, then taking the proven
\* slots from t gives all of t.
LEMMA ProvenSlotsSuffice ==
  ASSUME NEW s \in Storage, NEW t \in Storage, NEW ks, OldRoot(s, t, ks) = s
  PROVE  Overlay(s, t, ks) = t
<1>1. \A k \in Keys : k \notin ks => t[k] = s[k]
  BY DEF OldRoot, Overlay
<1>2. \A k \in Keys : Overlay(s, t, ks)[k] = t[k]
  BY <1>1 DEF Overlay
<1>. QED
  BY <1>2 DEF Overlay, Storage

\* What updateStorageModified does to the two contracts' variables.
LEMMA ModifiedEffect ==
  ASSUME TypeOK, NEW p \in Proxies, NEW m \in SrcBlocks, NEW u \in Storage,
         NEW n \in Numbers, NEW ks, UpdateStorageModified(p, m, u, ks, n)
  PROVE  /\ m \in 1..Len(srcChain) /\ srcChain[m] \in Storage /\ m = finalizedExecution
         /\ Migrated(p) /\ proxyStorageInfos[p].blockNumber < n
         /\ proxyStorage'[p] = Overlay(proxyStorage[p], u, ks)
         /\ proxyStorageInfos'[p].storageRoot = srcChain[m]
         /\ proxyStorageInfos'[p].migrationState
         /\ proxyStorageInfos'[p].blockNumber = n
         /\ \A q \in Proxies \ {p} :
              /\ proxyStorage'[q] = proxyStorage[q]
              /\ proxyStorageInfos'[q] = proxyStorageInfos[q]
         /\ UNCHANGED <<chainVars, rootVars, beaconVars>>
         /\ TypeOK'
<1>1. m \in 1..Len(srcChain) /\ srcChain[m] \in Storage
  BY DEF UpdateStorageModified, TypeOK
<1>2. Overlay(proxyStorage[p], u, ks) \in Storage
  BY <1>1, OverlayType DEF TypeOK
<1>3. [storageRoot |-> srcChain[m], migrationState |-> TRUE, blockNumber |-> n]
        \in ProxyContractInfo
  BY <1>1 DEF ProxyContractInfo
<1>4. TypeOK'
  BY <1>2, <1>3 DEF UpdateStorageModified, TypeOK, chainVars, rootVars
<1>5. proxyStorageInfos'[p] =
        [storageRoot |-> srcChain[m], migrationState |-> TRUE, blockNumber |-> n]
  BY DEF UpdateStorageModified, TypeOK
<1>. QED
  BY <1>1, <1>4, <1>5 DEF UpdateStorageModified, TypeOK, VerifyProof, StateRootDendreth

\* Where the old root can be relied on, an update with a proof of the client's
\* brings the whole of block m.
LEMMA BuiltEffect ==
  ASSUME TypeOK, NEW p \in Proxies, NEW m \in SrcBlocks, NEW u \in Storage,
         NEW n \in Numbers, NEW ks, BuiltUpdate(p, m, u, ks, n),
         Rebuilt(proxyStorage[p], proxyStorageInfos[p].storageRoot, srcChain[m])
  PROVE  proxyStorage'[p] = srcChain[m]
<1>1. /\ u = srcChain[m]
      /\ OldRoot(proxyStorage[p], srcChain[m], ks) = proxyStorage[p]
      /\ UpdateStorageModified(p, m, u, ks, n)
  BY DEF BuiltUpdate, Rebuilt
<1>2. proxyStorage[p] \in Storage
  BY DEF TypeOK
<1>3. srcChain[m] \in Storage /\ proxyStorage'[p] = Overlay(proxyStorage[p], u, ks)
  BY <1>1, ModifiedEffect
<1>. QED
  BY <1>1, <1>2, <1>3, ProvenSlotsSuffice

\* A light client update keeps its two headers inside the source chain.
LEMMA UpdateType ==
  ASSUME DendrethTypeOK, NEW a \in SrcBlocks, LightClientUpdate(a)
  PROVE  DendrethTypeOK'
<1>1. TypeOK'
  BY DEF DendrethTypeOK, LightClientUpdate, TypeOK, chainVars, rootVars
<1>2. FinalizedBy(a) \in 1..a
  BY FinalityAssumption DEF FinalityAssumption, FinalizedBy, SrcBlocks
<1>3. optimisticHeader' \in 1..Len(srcChain)' /\ finalizedExecution' \in 1..optimisticHeader'
  BY <1>2 DEF LightClientUpdate, SrcBlocks, chainVars, DendrethTypeOK, TypeOK
<1>. QED
  BY <1>1, <1>3 DEF DendrethTypeOK

\* The source chain only grows at its end.
LEMMA ChainGrows ==
  ASSUME TypeOK, SourceBlock
  PROVE  /\ Len(srcChain') = Len(srcChain) + 1
         /\ \A n \in 1..Len(srcChain) : n \in 1..Len(srcChain') /\ srcChain'[n] = srcChain[n]
BY DEF TypeOK, SourceBlock

\* No transaction of the relay or the proxy and no target block shortens or
\* changes the source chain.
LEMMA NextKeepsChain ==
  ASSUME TypeOK, [Next]_vars
  PROVE  /\ Len(srcChain') >= Len(srcChain)
         /\ \A n \in 1..Len(srcChain) : n \in 1..Len(srcChain') /\ srcChain'[n] = srcChain[n]
<1>1. CASE SourceBlock
  BY <1>1, ChainGrows DEF TypeOK
<1>2. CASE ~SourceBlock
  <2>1. srcChain' = srcChain
    BY <1>2 DEF Next, OtherSteps, vars, TargetBlock, AddBlock, AddStorage, VerifyMigrateContract,
       MigrationVerified, VerifyMigrateContractOriginal, UpdateStorage, chainVars
  <2>. QED
    BY <2>1 DEF TypeOK
<1>. QED
  BY <1>1, <1>2

-----------------------------------------------------------------------------
\* Under every caller: the relay's table has no roots but the source's, under
\* whatever numbers.
TableIsOfSource == \A n \in Numbers : srcContractStateRoots[n] \in 0..Len(srcChain)

GenuineInv == DendrethTypeOK /\ TableIsOfSource /\ RecordedRootIsGenuine

\* The contracts' steps here are among those of any caller.
LEMMA AnyIsNext == AnyContractStep => Next
BY DEF AnyContractStep, Next

\* An update with a proof of the client's is one of the updates.
LEMMA BuiltIsDendreth == [BuiltNext]_dendrethVars => [DendrethNext]_dendrethVars
BY DEF BuiltNext, DendrethNext, BuiltUpdate

\* Every step keeps the variables in their types.
LEMMA DendrethTypeStep == DendrethTypeOK /\ [DendrethNext]_dendrethVars => DendrethTypeOK'
<1> SUFFICES ASSUME DendrethTypeOK, [DendrethNext]_dendrethVars PROVE DendrethTypeOK'
  OBVIOUS
<1>0. TypeOK
  BY DEF DendrethTypeOK
<1>1. CASE [AnyContractStep]_vars /\ UNCHANGED beaconVars
  <2>1. TypeOK'
    BY <1>0, <1>1, AnyIsNext, TypeStep
  <2>2. Len(srcChain') >= Len(srcChain)
    BY <1>0, <1>1, AnyIsNext, NextKeepsChain
  <2>. QED
    BY <1>1, <2>1, <2>2 DEF DendrethTypeOK, beaconVars, TypeOK, SrcBlocks
<1>2. ASSUME NEW a \in SrcBlocks, LightClientUpdate(a)
      PROVE  DendrethTypeOK'
  BY <1>2, UpdateType
<1>3. ASSUME NEW n \in Numbers, AddBlockDendreth(n)
      PROVE  DendrethTypeOK'
  <2>1. finalizedExecution \in Roots
    <3>1. Len(srcChain) \in 1..MaxSrcBlock /\ MaxSrcBlock \in Nat
      BY <1>0, ConstantsAssumption DEF ConstantsAssumption, TypeOK, SrcBlocks
    <3>2. finalizedExecution \in 1..MaxSrcBlock
      BY <3>1 DEF DendrethTypeOK
    <3>. QED
      BY <3>2, RootsAndNumbers DEF SrcBlocks
  <2>2. TypeOK'
    BY <1>3, <2>1 DEF AddBlockDendreth, DendrethTypeOK, TypeOK, chainVars
  <2>. QED
    BY <1>3, <2>2 DEF AddBlockDendreth, DendrethTypeOK, beaconVars, chainVars
<1>4. ASSUME NEW p \in Proxies, NEW m \in SrcBlocks, NEW u \in Storage, NEW n \in Numbers,
             NEW ks, UpdateStorageModified(p, m, u, ks, n)
      PROVE  DendrethTypeOK'
  <2>1. TypeOK'
    BY <1>0, <1>4, ModifiedEffect
  <2>. QED
    BY <1>4, <2>1 DEF UpdateStorageModified, DendrethTypeOK, beaconVars, chainVars
<1>. QED
  BY <1>1, <1>2, <1>3, <1>4 DEF DendrethNext, LightClientSteps, dendrethVars, vars, beaconVars

\* The light client starts inside the source chain.
LEMMA DendrethInitType == DendrethInit => DendrethTypeOK
<1>1. Init => Len(srcChain) = 1
  BY DEF Init
<1>. QED
  BY <1>1, TypeInit DEF DendrethInit, DendrethTypeOK

\* Every step keeps the table free of other roots.
LEMMA TableStep == GenuineInv /\ [DendrethNext]_dendrethVars => TableIsOfSource'
<1> SUFFICES ASSUME GenuineInv, [DendrethNext]_dendrethVars PROVE TableIsOfSource'
  OBVIOUS
<1>0. DendrethTypeOK /\ TypeOK /\ TableIsOfSource
  BY DEF GenuineInv, DendrethTypeOK
<1>1. CASE SourceBlock
  BY <1>0, <1>1, ChainGrows DEF SourceBlock, rootVars, TableIsOfSource, TypeOK
<1>2. ASSUME NEW n \in Numbers, NEW root \in 0..Len(srcChain), UNCHANGED srcChain,
             srcContractStateRoots' = [srcContractStateRoots EXCEPT ![n] = root]
      PROVE  TableIsOfSource'
  BY <1>0, <1>2 DEF TableIsOfSource, TypeOK
<1>3. ASSUME NEW n \in Numbers, NEW root \in Roots \ {OtherRoot}, AddBlock(n, root)
      PROVE  TableIsOfSource'
  <2>1. root \in 0..Len(srcChain)
    BY <1>0, <1>3 DEF AddBlock, KnownRoots, NoBlock, TypeOK
  <2>. QED
    BY <1>2, <1>3, <2>1 DEF AddBlock, chainVars
<1>4. ASSUME NEW n \in Numbers, AddBlockDendreth(n)
      PROVE  TableIsOfSource'
  <2>1. finalizedExecution \in 0..Len(srcChain)
    BY <1>0 DEF DendrethTypeOK, TypeOK
  <2>. QED
    BY <1>2, <1>4, <2>1 DEF AddBlockDendreth, chainVars
<1>5. CASE UNCHANGED <<srcChain, rootVars>>
  BY <1>0, <1>5 DEF rootVars, TableIsOfSource
<1>. QED
  BY <1>1, <1>3, <1>4, <1>5 DEF DendrethNext, AnyContractStep, OtherSteps, LightClientSteps,
     dendrethVars, TargetBlock, AddStorage, UpdateStorage, VerifyMigrateContract,
     VerifyMigrateContractOriginal, LightClientUpdate, UpdateStorageModified, chainVars, rootVars

\* Every step keeps recorded storage roots genuine.
LEMMA GenuineStep == GenuineInv /\ [DendrethNext]_dendrethVars => GenuineInv'
<1> SUFFICES ASSUME GenuineInv, [DendrethNext]_dendrethVars PROVE GenuineInv'
  OBVIOUS
<1>0. TypeOK /\ DendrethTypeOK /\ DendrethTypeOK' /\ TableIsOfSource /\ TableIsOfSource'
  BY DendrethTypeStep, TableStep DEF GenuineInv, DendrethTypeOK
<1>1. SUFFICES ASSUME NEW p \in Proxies, Migrated(p)'
               PROVE  \E m \in 1..Len(srcChain') :
                        proxyStorageInfos'[p].storageRoot = srcChain'[m]
  BY <1>0 DEF GenuineInv, RecordedRootIsGenuine
<1>k. /\ Len(srcChain') >= Len(srcChain)
      /\ \A n \in 1..Len(srcChain) : n \in 1..Len(srcChain') /\ srcChain'[n] = srcChain[n]
  <2>1. CASE [Next]_vars
    BY <2>1, <1>0, NextKeepsChain
  <2>2. CASE ~[Next]_vars
    <3>1. srcChain' = srcChain
      BY <2>2, AnyIsNext DEF DendrethNext, LightClientSteps, dendrethVars, vars, LightClientUpdate,
         AddBlockDendreth, UpdateStorageModified, chainVars
    <3>. QED
      BY <3>1, <1>0 DEF TypeOK
  <2>. QED
    BY <2>1, <2>2
<1>2. CASE proxyStorageInfos'[p] = proxyStorageInfos[p]
  BY <1>1, <1>2, <1>k DEF GenuineInv, RecordedRootIsGenuine, Migrated
<1>3. ASSUME NEW q \in Proxies, NEW h \in 1..MaxTgtBlock, NEW m \in Roots,
             NEW n \in Numbers, VerifyMigrateContract(q, h, m, n)
      PROVE  \E j \in 1..Len(srcChain') : proxyStorageInfos'[p].storageRoot = srcChain'[j]
  <2>1. CASE q = p
    <3>0. /\ m \in AccountProofs /\ m = srcContractStateRoots[n]
          /\ tgtChain[h][q] \in ShownBy(m)
          /\ proxyStorageInfos'[q] =
               [storageRoot |-> tgtChain[h][q], migrationState |-> TRUE, blockNumber |-> n]
      BY <1>0, <1>3, VerifyRecords
    <3>1. m \in 0..Len(srcChain)
      BY <1>0, <3>0 DEF TableIsOfSource
    <3>2. m # OtherRoot /\ m \in 1..Len(srcChain)
      BY <1>0, <3>0, <3>1, ConstantsAssumption
         DEF ConstantsAssumption, AccountProofs, OtherRoot, TypeOK, SrcBlocks
    <3>3. proxyStorageInfos'[p].storageRoot = srcChain[m]
      BY <2>1, <3>0, <3>2 DEF ShownBy
    <3>. QED
      BY <3>2, <3>3, <1>k
  <2>2. CASE q # p
    BY <1>0, <1>2, <1>3, <2>2 DEF VerifyMigrateContract, MigrationVerified, TypeOK
  <2>. QED
    BY <2>1, <2>2
<1>4. ASSUME NEW q \in Proxies, NEW m \in SrcBlocks, NEW u \in Storage, NEW n \in Numbers,
             NEW ks, UpdateStorageModified(q, m, u, ks, n)
      PROVE  \E j \in 1..Len(srcChain') : proxyStorageInfos'[p].storageRoot = srcChain'[j]
  <2>1. CASE q = p
    <3>1. proxyStorageInfos'[p].storageRoot = srcChain[m] /\ m \in 1..Len(srcChain)
      BY <1>0, <1>4, <2>1, ModifiedEffect
    <3>. QED
      BY <3>1, <1>k
  <2>2. CASE q # p
    BY <1>0, <1>2, <1>4, <2>2, ModifiedEffect
  <2>. QED
    BY <2>1, <2>2
<1>5. CASE UNCHANGED proxyStorageInfos
  BY <1>2, <1>5
<1>. QED
  BY <1>3, <1>4, <1>5 DEF DendrethNext, AnyContractStep, OtherSteps, LightClientSteps, dendrethVars,
     SourceBlock, TargetBlock, AddBlock, AddStorage, UpdateStorage, VerifyMigrateContractOriginal,
     LightClientUpdate, AddBlockDendreth, rootVars

\* The light client's headers and the contracts' variables keep their types.
THEOREM DendrethTypeCorrect == DendrethSpec => []DendrethTypeOK
BY DendrethInitType, DendrethTypeStep, PTL DEF DendrethSpec

\* As long as the roots given to addBlock are the source's, with any numbers, any
\* words and any storage proofs, the storage root recorded of a proxy is one the
\* source contract really had.
THEOREM GenuineCorrect == DendrethSpec => []RecordedRootIsGenuine
<1>1. DendrethInit => GenuineInv
  BY DendrethInitType DEF DendrethInit, Init, GenuineInv, TableIsOfSource, NoBlock,
     RecordedRootIsGenuine, Migrated
<1>2. GenuineInv => RecordedRootIsGenuine
  BY DEF GenuineInv
<1>. QED
  BY <1>1, <1>2, GenuineStep, PTL DEF DendrethSpec

\* With the storage proofs the client builds, a verified update of a proxy that
\* holds what is recorded is complete unless a word moved, whichever slots the
\* proof covers.
THEOREM UpdateComplete == BuiltSpec => VerifiedUpdateIsComplete
<1> DEFINE Complete ==
      \A p \in Proxies :
        LET info == proxyStorageInfos[p]
            t == srcChain[finalizedExecution]
        IN  /\ Rebuilt(proxyStorage[p], info.storageRoot, t)
            /\ proxyStorage'[p] # proxyStorage[p]
            /\ proxyStorageInfos'[p] # info
            => proxyStorage'[p] = t
<1>1. DendrethTypeOK /\ [BuiltNext]_dendrethVars => [Complete]_dendrethVars
  <2> SUFFICES ASSUME DendrethTypeOK, [BuiltNext]_dendrethVars, NEW p \in Proxies,
                      Rebuilt(proxyStorage[p], proxyStorageInfos[p].storageRoot,
                              srcChain[finalizedExecution]),
                      proxyStorage'[p] # proxyStorage[p],
                      proxyStorageInfos'[p] # proxyStorageInfos[p]
               PROVE  proxyStorage'[p] = srcChain[finalizedExecution]
    OBVIOUS
  <2>0. TypeOK
    BY DEF DendrethTypeOK
  <2>1. PICK q \in Proxies, m \in SrcBlocks, u \in Storage, ks \in SlotSets, n \in Numbers :
          BuiltUpdate(q, m, u, ks, n)
    \* every other step leaves the storage or the record alone
    BY DEF BuiltNext, AnyContractStep, OtherSteps, LightClientSteps, dendrethVars, SourceBlock,
       TargetBlock, AddBlock, AddStorage, UpdateStorage, VerifyMigrateContract,
       VerifyMigrateContractOriginal, LightClientUpdate, AddBlockDendreth, rootVars, chainVars
  <2>2. UpdateStorageModified(q, m, u, ks, n)
    BY <2>1 DEF BuiltUpdate
  <2>3. q = p /\ m = finalizedExecution
    BY <2>0, <2>2, ModifiedEffect
  <2>4. BuiltUpdate(p, m, u, ks, n)
    BY <2>1, <2>3
  <2>5. Rebuilt(proxyStorage[p], proxyStorageInfos[p].storageRoot, srcChain[m])
    BY <2>3
  <2>6. proxyStorage'[p] = srcChain[m]
    BY <2>0, <2>4, <2>5, BuiltEffect
  <2>. QED
    BY <2>3, <2>6
<1>2. BuiltSpec => []DendrethTypeOK
  BY DendrethInitType, DendrethTypeStep, BuiltIsDendreth, PTL DEF BuiltSpec
<1>. QED
  BY <1>1, <1>2, PTL DEF BuiltSpec, VerifiedUpdateIsComplete

-----------------------------------------------------------------------------
\* Under the serial operator.  The strengthening of MirrorsRecordedBlock: the
\* relay's table is right, so the block verified is the block named, and an
\* unmigrated proxy has no block yet.
SerialInv ==
  /\ DendrethTypeOK
  /\ StateRootIsOfItsBlock
  /\ MirrorsRecordedBlock
  /\ \A p \in Proxies : ~Migrated(p) => proxyStorageInfos[p].blockNumber = 0

\* addBlock keeps the relay's table right.
LEMMA AddBlockKeepsTable ==
  ASSUME TypeOK, StateRootIsOfItsBlock, NEW n \in SrcBlocks, AddBlock(n, n)
  PROVE  StateRootIsOfItsBlock'
<1>1. /\ n \in Numbers /\ n \in 1..Len(srcChain)
      /\ srcContractStateRoots'[n] = n
      /\ \A j \in Numbers \ {n} : srcContractStateRoots'[j] = srcContractStateRoots[j]
  BY RootsAndNumbers DEF AddBlock, KnownRoots, NoBlock, SrcBlocks, TypeOK
<1>. QED
  BY <1>1 DEF AddBlock, chainVars, StateRootIsOfItsBlock, TypeOK

\* What a serial verification does.
LEMMA SerialVerifyEffect ==
  ASSUME TypeOK, StateRootIsOfItsBlock, NEW p \in Proxies, NEW h \in 1..Len(tgtChain),
         NEW n \in SrcBlocks, SerialVerify(p, h, n)
  PROVE  /\ n \in 1..Len(srcChain)
         /\ ~Migrated(p)
         /\ proxyStorage[p] = srcChain[n]
         /\ proxyStorageInfos'[p].storageRoot = srcChain[n]
         /\ proxyStorageInfos'[p].migrationState
         /\ proxyStorageInfos'[p].blockNumber = n
         /\ \A q \in Proxies \ {p} : proxyStorageInfos'[q] = proxyStorageInfos[q]
         /\ UNCHANGED <<srcChain, proxyStorage, srcContractStateRoots>>
<1>1. /\ h \in 1..MaxTgtBlock /\ n \in Roots /\ n \in Numbers
      /\ ~Migrated(p) /\ tgtChain[h][p] = proxyStorage[p] /\ VerifyMigrateContract(p, h, n, n)
  BY RootsAndNumbers, ConstantsAssumption DEF ConstantsAssumption, SerialVerify, TypeOK
<1>2. /\ n = srcContractStateRoots[n]
      /\ tgtChain[h][p] \in ShownBy(n)
      /\ proxyStorageInfos'[p] =
           [storageRoot |-> tgtChain[h][p], migrationState |-> TRUE, blockNumber |-> n]
      /\ \A q \in Proxies \ {p} : proxyStorageInfos'[q] = proxyStorageInfos[q]
      /\ UNCHANGED <<chainVars, rootVars, proxyStorage>>
  BY <1>1, VerifyRecords
<1>3. n \in 1..Len(srcChain)
  BY <1>1, <1>2 DEF StateRootIsOfItsBlock, NoBlock, SrcBlocks, TypeOK
<1>4. ShownBy(n) = {srcChain[n]}
  BY RootsAndNumbers DEF ShownBy
<1>. QED
  BY <1>1, <1>2, <1>3, <1>4 DEF chainVars, rootVars

\* What a serial update does: it brings the whole of block n.
LEMMA SerialUpdateEffect ==
  ASSUME SerialInv, NEW p \in Proxies, NEW n \in SrcBlocks, NEW u \in Storage, NEW ks,
         SerialUpdate(p, n, u, ks)
  PROVE  /\ n \in 1..Len(srcChain)
         /\ Migrated(p)
         /\ proxyStorageInfos[p].blockNumber < n
         /\ proxyStorage'[p] = srcChain[n]
         /\ proxyStorageInfos'[p].storageRoot = srcChain[n]
         /\ proxyStorageInfos'[p].migrationState
         /\ proxyStorageInfos'[p].blockNumber = n
         /\ \A q \in Proxies \ {p} : /\ proxyStorage'[q] = proxyStorage[q]
                                     /\ proxyStorageInfos'[q] = proxyStorageInfos[q]
         /\ UNCHANGED <<srcChain, srcContractStateRoots>>
<1>1. TypeOK /\ n \in Numbers
  BY RootsAndNumbers DEF SerialInv, DendrethTypeOK
<1>2. BuiltUpdate(p, n, u, ks, n) /\ UpdateStorageModified(p, n, u, ks, n)
  BY DEF SerialUpdate, BuiltUpdate
<1>3. Migrated(p)
  BY <1>2 DEF UpdateStorageModified
<1>4. Rebuilt(proxyStorage[p], proxyStorageInfos[p].storageRoot, srcChain[n])
  BY <1>3 DEF SerialInv, MirrorsRecordedBlock, SerialUpdate, Rebuilt
<1>5. proxyStorage'[p] = srcChain[n]
  BY <1>1, <1>2, <1>4, BuiltEffect
<1>6. UNCHANGED <<srcChain, srcContractStateRoots>>
  BY <1>2 DEF UpdateStorageModified, chainVars, rootVars
<1>. QED
  BY <1>1, <1>2, <1>5, <1>6, ModifiedEffect

\* A serial step is one of the steps every caller may take.
LEMMA SerialIsDendreth == TypeOK /\ [SerialNext]_dendrethVars => [DendrethNext]_dendrethVars
<1> SUFFICES ASSUME TypeOK, [SerialNext]_dendrethVars PROVE [DendrethNext]_dendrethVars
  OBVIOUS
<1>1. 1..Len(tgtChain) \subseteq 1..MaxTgtBlock
  BY ConstantsAssumption DEF ConstantsAssumption, TypeOK
<1>2. ASSUME NEW p \in Proxies, NEW h \in 1..Len(tgtChain), NEW n \in SrcBlocks,
             SerialVerify(p, h, n), UNCHANGED beaconVars
      PROVE  DendrethNext
  <2>1. h \in 1..MaxTgtBlock /\ n \in Roots /\ n \in Numbers
    BY <1>1, RootsAndNumbers
  <2>. QED
    BY <1>2, <2>1 DEF SerialVerify, DendrethNext, AnyContractStep, OtherSteps
<1>3. ASSUME NEW p \in Proxies, NEW n \in SrcBlocks, NEW u \in Storage, NEW ks \in SlotSets,
             SerialUpdate(p, n, u, ks)
      PROVE  DendrethNext
  <2>1. n \in Numbers /\ UpdateStorageModified(p, n, u, ks, n)
    BY <1>3, RootsAndNumbers DEF SerialUpdate, BuiltUpdate
  <2>. QED
    BY <2>1 DEF DendrethNext
<1>4. ASSUME NEW a \in SrcBlocks, LightClientUpdate(a)
      PROVE  DendrethNext
  BY <1>4 DEF DendrethNext, LightClientSteps
<1>5. ASSUME NEW n \in SrcBlocks, AddBlock(n, n), UNCHANGED beaconVars
      PROVE  DendrethNext
  <2>1. n \in Numbers /\ n \in Roots \ {OtherRoot}
    BY RootsAndNumbers
  <2>. QED
    BY <1>5, <2>1 DEF DendrethNext, AnyContractStep
<1>6. ASSUME SourceBlock \/ TargetBlock
               \/ (\E p \in Proxies, t \in Storage, ks \in SlotSets : AddStorage(p, t, ks)),
             UNCHANGED beaconVars
      PROVE  DendrethNext
  BY <1>6 DEF DendrethNext, AnyContractStep, OtherSteps
<1>. QED
  BY <1>2, <1>3, <1>4, <1>5, <1>6 DEF SerialNext

\* The serial invariant holds at the start.
LEMMA SerialInit == DendrethInit => SerialInv
BY DendrethInitType DEF DendrethInit, Init, SerialInv, StateRootIsOfItsBlock,
   MirrorsRecordedBlock, Migrated

\* Every serial step preserves it.
LEMMA SerialStep == SerialInv /\ [SerialNext]_dendrethVars => SerialInv'
<1> SUFFICES ASSUME SerialInv, [SerialNext]_dendrethVars PROVE SerialInv'
  OBVIOUS
<1>0. TypeOK /\ DendrethTypeOK'
  BY SerialIsDendreth, DendrethTypeStep DEF SerialInv, DendrethTypeOK
<1>1. CASE SourceBlock
  BY <1>0, <1>1, ChainGrows DEF SourceBlock, rootVars, SerialInv, StateRootIsOfItsBlock,
     MirrorsRecordedBlock, Migrated, TypeOK, Numbers
<1>2. ASSUME NEW n \in SrcBlocks, AddBlock(n, n)
      PROVE  SerialInv'
  <2>1. StateRootIsOfItsBlock'
    BY <1>0, <1>2, AddBlockKeepsTable DEF SerialInv
  <2>. QED
    BY <1>0, <1>2, <2>1 DEF AddBlock, chainVars, SerialInv, MirrorsRecordedBlock, Migrated
<1>3. ASSUME NEW p \in Proxies, NEW t \in Storage, NEW ks, AddStorage(p, t, ks)
      PROVE  SerialInv'
  <2>1. \A q \in Proxies : Migrated(q) => proxyStorage'[q] = proxyStorage[q]
    BY <1>0, <1>3 DEF AddStorage, TypeOK
  <2>. QED
    BY <1>0, <1>3, <2>1 DEF AddStorage, chainVars, rootVars, SerialInv, StateRootIsOfItsBlock,
       MirrorsRecordedBlock, Migrated
<1>4. ASSUME NEW p \in Proxies, NEW h \in 1..Len(tgtChain), NEW n \in SrcBlocks,
             SerialVerify(p, h, n)
      PROVE  SerialInv'
  BY <1>0, <1>4, SerialVerifyEffect DEF SerialInv, StateRootIsOfItsBlock,
     MirrorsRecordedBlock, Migrated
<1>5. ASSUME NEW p \in Proxies, NEW n \in SrcBlocks, NEW u \in Storage, NEW ks,
             SerialUpdate(p, n, u, ks)
      PROVE  SerialInv'
  BY <1>0, <1>5, SerialUpdateEffect DEF SerialInv, StateRootIsOfItsBlock,
     MirrorsRecordedBlock, Migrated
<1>6. CASE /\ UNCHANGED <<srcChain, rootVars, proxyStorageInfos, proxyStorage>>
  BY <1>0, <1>6 DEF rootVars, SerialInv, StateRootIsOfItsBlock, MirrorsRecordedBlock, Migrated
<1>. QED
  BY <1>1, <1>2, <1>3, <1>4, <1>5, <1>6 DEF SerialNext, dendrethVars, TargetBlock,
     LightClientUpdate, chainVars, rootVars

\* The serial invariant holds throughout.
LEMMA SerialAlways == SerialSpec => []SerialInv
BY SerialInit, SerialStep, PTL DEF SerialSpec

\* A proxy migrated and updated by a serial operator, with no update that carries a
\* word that moved, always holds the source contract's complete storage in the
\* block the relay names for it.
THEOREM MirrorCorrect == SerialSpec => []MirrorsRecordedBlock
<1>1. SerialInv => MirrorsRecordedBlock
  BY DEF SerialInv
<1>. QED
  BY <1>1, SerialAlways, PTL

-----------------------------------------------------------------------------
\* The refinement.  What a proxy shows and the block it shows, read off the
\* contracts' state.
ShownBlock == [p \in Proxies |-> proxyStorageInfos[p].blockNumber]
ShownStorage == [p \in Proxies |-> IF Migrated(p) THEN proxyStorage[p] ELSE NoRoot]

\* A migration or update of one proxy to block n is a Show of the mirror.
LEMMA StepIsShow ==
  ASSUME NEW p \in Proxies, NEW n \in 1..Len(srcChain),
         proxyStorageInfos[p].blockNumber < n,
         proxyStorageInfos'[p].migrationState,
         proxyStorageInfos'[p].blockNumber = n,
         proxyStorage'[p] = srcChain[n],
         \A q \in Proxies \ {p} : /\ proxyStorage'[q] = proxyStorage[q]
                                 /\ proxyStorageInfos'[q] = proxyStorageInfos[q],
         UNCHANGED srcChain
  PROVE  AbstractMirror!Show(p, n)
<1>1. n > ShownBlock[p]
  <2>1. ShownBlock[p] = proxyStorageInfos[p].blockNumber
    BY DEF ShownBlock
  <2>. QED
    BY <2>1
<1>2. ShownBlock' = [ShownBlock EXCEPT ![p] = n]
  BY DEF ShownBlock
<1>3. ShownStorage' = [ShownStorage EXCEPT ![p] = srcChain[n]]
  BY DEF ShownStorage, Migrated
<1>. QED
  BY <1>1, <1>2, <1>3 DEF AbstractMirror!Show, ShownBlock, ShownStorage

\* Every serial step is a step of the mirror or none.
LEMMA StepSimulation ==
  SerialInv /\ [SerialNext]_dendrethVars
    => [AbstractMirror!MirrorNext]_(AbstractMirror!mirrorVars)
<1> SUFFICES ASSUME SerialInv, [SerialNext]_dendrethVars
             PROVE  [AbstractMirror!MirrorNext]_(AbstractMirror!mirrorVars)
  OBVIOUS
<1>0. TypeOK
  BY DEF SerialInv, DendrethTypeOK
<1>1. CASE SourceBlock
  <2>1. ShownBlock' = ShownBlock /\ ShownStorage' = ShownStorage
    BY <1>1 DEF SourceBlock, ShownBlock, ShownStorage, Migrated
  <2>2. \E s \in Storage : srcChain' = Append(srcChain, s)
    BY <1>1 DEF SourceBlock
  <2>. QED
    BY <2>1, <2>2 DEF AbstractMirror!MirrorNext, AbstractMirror!Extend, ShownBlock,
       ShownStorage
<1>2. ASSUME NEW p \in Proxies, NEW t \in Storage, NEW ks, AddStorage(p, t, ks)
      PROVE  UNCHANGED AbstractMirror!mirrorVars
  <2>1. \A q \in Proxies : Migrated(q) => proxyStorage'[q] = proxyStorage[q]
    BY <1>0, <1>2 DEF AddStorage, TypeOK
  <2>. QED
    BY <1>2, <2>1 DEF AddStorage, chainVars, AbstractMirror!mirrorVars, Migrated
<1>3. ASSUME NEW p \in Proxies, NEW h \in 1..Len(tgtChain), NEW n \in SrcBlocks,
             SerialVerify(p, h, n)
      PROVE  AbstractMirror!MirrorNext
  <2>1. proxyStorageInfos[p].blockNumber = 0 /\ n > 0
    BY <1>0, <1>3, SerialVerifyEffect DEF SerialInv, SrcBlocks
  <2>2. AbstractMirror!Show(p, n)
    BY <1>0, <1>3, <2>1, SerialVerifyEffect, StepIsShow DEF SerialInv
  <2>. QED
    BY <1>0, <1>3, <2>2, SerialVerifyEffect DEF SerialInv, AbstractMirror!MirrorNext
<1>4. ASSUME NEW p \in Proxies, NEW n \in SrcBlocks, NEW u \in Storage, NEW ks,
             SerialUpdate(p, n, u, ks)
      PROVE  AbstractMirror!MirrorNext
  <2>1. AbstractMirror!Show(p, n)
    BY <1>4, SerialUpdateEffect, StepIsShow
  <2>. QED
    BY <1>4, <2>1, SerialUpdateEffect DEF AbstractMirror!MirrorNext
<1>5. CASE UNCHANGED <<srcChain, proxyStorageInfos, proxyStorage>>
  BY <1>5 DEF AbstractMirror!mirrorVars, Migrated
<1>. QED
  BY <1>1, <1>2, <1>3, <1>4, <1>5 DEF SerialNext, dendrethVars, TargetBlock, AddBlock,
     LightClientUpdate, chainVars, rootVars

\* The same proxy behaves as Mirror says, for every step.
THEOREM Refinement == SerialSpec => ImplementsMirror
<1>1. DendrethInit => AbstractMirror!MirrorInit
  BY DEF DendrethInit, Init, AbstractMirror!MirrorInit, Migrated
<1>. QED
  BY <1>1, StepSimulation, SerialAlways, PTL DEF SerialSpec, ImplementsMirror,
     AbstractMirror!MirrorSpec

=============================================================================
