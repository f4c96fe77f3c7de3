-------------------------- MODULE RelayProxy_proofs --------------------------
(***************************************************************************)
(* What RelayContract and ProxyContract guarantee for every set of slots,  *)
(* words and proxies and every length of the two chains.                   *)
(***************************************************************************)
EXTENDS RelayProxy, TLAPS

\* The storage addStorage and updateStorage leave behind is a storage.
LEMMA OverlayType ==
  ASSUME NEW s \in Storage, NEW t \in Storage, NEW ks
  PROVE  Overlay(s, t, ks) \in Storage
BY DEF Overlay, Storage

\* A source block's number can be named and is a root; the other root is none.
LEMMA RootsAndNumbers ==
  /\ SrcBlocks \subseteq Numbers /\ SrcBlocks \subseteq Roots
  /\ NoBlock \in Roots /\ OtherRoot \in Roots /\ OtherRoot \notin SrcBlocks /\ OtherRoot # NoBlock
BY ConstantsAssumption DEF ConstantsAssumption, SrcBlocks, Numbers, Roots, NoBlock, OtherRoot

\* The blocks the source has are blocks it can have.
LEMMA ChainBlocks == ASSUME TypeOK PROVE 1..Len(srcChain) \subseteq SrcBlocks
BY ConstantsAssumption DEF ConstantsAssumption, TypeOK, SrcBlocks

\* A step that feeds the relay right roots is one of anybody's.
LEMMA FedIsAny == [FedNext]_vars => [Next]_vars
BY RootsAndNumbers DEF FedNext, Next

\* Every transaction and every block keeps the variables in their types.
LEMMA TypeStep == TypeOK /\ [Next]_vars => TypeOK'
<1> SUFFICES ASSUME TypeOK, [Next]_vars PROVE TypeOK'
  OBVIOUS
<1> USE ConstantsAssumption DEF ConstantsAssumption, TypeOK, chainVars, rootVars
<1>1. CASE SourceBlock
  BY <1>1 DEF SourceBlock, SrcBlocks
<1>2. CASE TargetBlock
  BY <1>2 DEF TargetBlock
<1>3. ASSUME NEW n \in Numbers, NEW root \in Roots, AddBlock(n, root)
      PROVE  TypeOK'
  BY <1>3 DEF AddBlock
<1>4. ASSUME NEW p \in Proxies, NEW t \in Storage, NEW ks, AddStorage(p, t, ks)
      PROVE  TypeOK'
  <2>1. proxyStorage' \in [Proxies -> Storage]
    BY <1>4, OverlayType DEF AddStorage
  <2>. QED
    BY <1>4, <2>1 DEF AddStorage
<1>5. ASSUME NEW p \in Proxies, NEW h \in 1..MaxTgtBlock, NEW m \in Roots,
             NEW n \in Numbers, VerifyMigrateContract(p, h, m, n)
      PROVE  TypeOK'
  <2>1. tgtChain[h][p] \in Storage
    BY <1>5 DEF VerifyMigrateContract, MigrationVerified, BlockHashKnown
  <2>2. [storageRoot |-> tgtChain[h][p], migrationState |-> TRUE, blockNumber |-> n]
          \in ProxyContractInfo
    BY <2>1 DEF ProxyContractInfo
  <2>. QED
    BY <1>5, <2>2 DEF VerifyMigrateContract, MigrationVerified
<1>6. ASSUME NEW p \in Proxies, NEW m \in Roots, NEW t \in Storage, NEW ks,
             UpdateStorage(p, m, t, ks)
      PROVE  TypeOK'
  <2>1. proxyStorage' \in [Proxies -> Storage]
    BY <1>6, OverlayType DEF UpdateStorage
  <2>. QED
    BY <1>6, <2>1 DEF UpdateStorage
<1>7. CASE UNCHANGED vars
  BY <1>7 DEF vars
<1>. QED
  BY <1>1, <1>2, <1>3, <1>4, <1>5, <1>6, <1>7 DEF Next, OtherSteps, VerifyMigrateContractOriginal

\* And so they are before the first transaction.
LEMMA TypeInit == Init => TypeOK
BY ConstantsAssumption DEF ConstantsAssumption, Init, TypeOK, SrcBlocks, Numbers, Roots, Storage,
   EmptyStorage, NoBlock, ProxyContractInfo

\* The variables of the two contracts and the two chains keep their types,
\* whatever anybody calls.
THEOREM TypeCorrect == Spec => []TypeOK
BY TypeInit, TypeStep, PTL DEF Spec

-----------------------------------------------------------------------------
(***************************************************************************)
(* Whatever anybody calls.                                                 *)
(***************************************************************************)
\* What a verification records: a storage the proxy had in a sealed block.
LEMMA VerifyRecords ==
  ASSUME TypeOK, NEW p \in Proxies, NEW h \in 1..MaxTgtBlock, NEW m \in Roots,
         NEW n \in Numbers, VerifyMigrateContract(p, h, m, n)
  PROVE  /\ h \in 1..Len(tgtChain) /\ m \in AccountProofs /\ m = srcContractStateRoots[n]
         /\ tgtChain[h][p] \in ShownBy(m)
         /\ proxyStorageInfos'[p] =
              [storageRoot |-> tgtChain[h][p], migrationState |-> TRUE, blockNumber |-> n]
         /\ \A q \in Proxies \ {p} : proxyStorageInfos'[q] = proxyStorageInfos[q]
         /\ UNCHANGED <<chainVars, rootVars, proxyStorage>>
BY DEF VerifyMigrateContract, MigrationVerified, BlockHashKnown, VerifyProof, TypeOK

\* Every step keeps a sealed block for every record.
LEMMA ShownStep == TypeOK /\ RecordedRootWasShown /\ [Next]_vars => RecordedRootWasShown'
<1> SUFFICES ASSUME TypeOK, RecordedRootWasShown, [Next]_vars PROVE RecordedRootWasShown'
  OBVIOUS
<1>1. CASE TargetBlock
  <2>1. /\ Len(tgtChain') = Len(tgtChain) + 1
        /\ \A h \in 1..Len(tgtChain) : tgtChain'[h] = tgtChain[h]
    BY <1>1 DEF TargetBlock, TypeOK
  <2>. QED
    BY <1>1, <2>1 DEF TargetBlock, RecordedRootWasShown, Migrated, TypeOK
<1>2. ASSUME NEW p \in Proxies, NEW h \in 1..MaxTgtBlock, NEW m \in Roots,
             NEW n \in Numbers, VerifyMigrateContract(p, h, m, n)
      PROVE  RecordedRootWasShown'
  <2>1. /\ h \in 1..Len(tgtChain) /\ tgtChain' = tgtChain
        /\ proxyStorageInfos'[p] =
             [storageRoot |-> tgtChain[h][p], migrationState |-> TRUE, blockNumber |-> n]
        /\ \A q \in Proxies \ {p} : proxyStorageInfos'[q] = proxyStorageInfos[q]
    BY <1>2, VerifyRecords DEF chainVars
  <2>. QED
    BY <2>1 DEF RecordedRootWasShown, Migrated
<1>3. CASE UNCHANGED <<tgtChain, proxyStorageInfos>>
  BY <1>3 DEF RecordedRootWasShown, Migrated
<1>. QED
  BY <1>1, <1>2, <1>3 DEF Next, OtherSteps, vars, chainVars, SourceBlock, AddBlock, AddStorage,
     UpdateStorage, VerifyMigrateContractOriginal

\* Whatever roots, numbers and words anybody hands in, a recorded storage root was
\* the proxy's in some sealed target block.
THEOREM RecordWitnessed == Spec => []RecordedRootWasShown
<1>1. Init => RecordedRootWasShown
  BY DEF Init, RecordedRootWasShown, Migrated
<1>. QED
  BY <1>1, ShownStep, TypeInit, TypeStep, PTL DEF Spec

-----------------------------------------------------------------------------
(***************************************************************************)
(* Where addBlock is given right roots.                                    *)
(***************************************************************************)
\* The inductive invariant: the types, the relay's table of state roots and
\* its newest entry, and what is recorded of migrated proxies.
IInv ==
  /\ TypeOK
  /\ StateRootIsOfItsBlock
  /\ LatestRootIsNewest
  /\ RecordedRootIsSourceRoot
  /\ RecordedRootWasShown

\* The invariant holds before the first transaction.
LEMMA InvInit == Init => IInv
BY TypeInit DEF Init, IInv, StateRootIsOfItsBlock, LatestRootIsNewest,
   RecordedRootIsSourceRoot, RecordedRootWasShown, Migrated

\* Every transaction and every block preserves the invariant.
LEMMA InvStep == IInv /\ [FedNext]_vars => IInv'
<1> SUFFICES ASSUME IInv, [FedNext]_vars PROVE IInv'
  OBVIOUS
<1>t. TypeOK /\ TypeOK' /\ RecordedRootWasShown'
  BY FedIsAny, TypeStep, ShownStep DEF IInv
<1> USE <1>t, ConstantsAssumption DEF ConstantsAssumption, chainVars, rootVars
<1>1. CASE SourceBlock
  <2>1. PICK s \in Storage : srcChain' = Append(srcChain, s)
    BY <1>1 DEF SourceBlock
  <2>2. /\ Len(srcChain') = Len(srcChain) + 1
        /\ \A n \in 1..Len(srcChain) : srcChain'[n] = srcChain[n]
    BY <2>1 DEF TypeOK
  <2>3. StateRootIsOfItsBlock' /\ LatestRootIsNewest'
    BY <1>1, <2>2 DEF SourceBlock, IInv, StateRootIsOfItsBlock, LatestRootIsNewest,
       LatestStateRoot, TypeOK, Numbers
  <2>4. RecordedRootIsSourceRoot'
    BY <1>1, <2>2 DEF SourceBlock, IInv, RecordedRootIsSourceRoot, Migrated, TypeOK
  <2>. QED
    BY <2>3, <2>4 DEF IInv
<1>3. ASSUME NEW n \in SrcBlocks, AddBlock(n, n)
      PROVE  IInv'
  <2>0. /\ n \in Numbers /\ n \in 1..Len(srcChain)
        /\ srcContractStateRoots'[n] = n
        /\ \A j \in Numbers \ {n} : srcContractStateRoots'[j] = srcContractStateRoots[j]
    BY <1>3, RootsAndNumbers DEF AddBlock, KnownRoots, NoBlock, SrcBlocks, TypeOK
  <2>1. StateRootIsOfItsBlock'
    BY <1>3, <2>0 DEF AddBlock, IInv, StateRootIsOfItsBlock, TypeOK
  <2>2. LatestRootIsNewest'
    <3>1. n \in Int /\ n > 0 /\ latestBlockNr \in Int /\ latestBlockNr \in Numbers
      BY DEF SrcBlocks, Numbers, TypeOK
    <3>2. CASE n > latestBlockNr
      <4>1. latestBlockNr' = n
        BY <1>3, <3>2 DEF AddBlock
      <4>2. \A j \in Numbers : srcContractStateRoots'[j] # NoBlock => j <= n
        BY <2>0, <3>1, <3>2 DEF IInv, LatestRootIsNewest, Numbers
      <4>. QED
        BY <2>0, <4>1, <4>2 DEF LatestRootIsNewest, LatestStateRoot
    <3>3. CASE ~(n > latestBlockNr)
      <4>1. latestBlockNr' = latestBlockNr /\ latestBlockNr # 0
        BY <1>3, <3>1, <3>3 DEF AddBlock
      <4>2. srcContractStateRoots'[latestBlockNr] = latestBlockNr
        BY <2>0, <3>1, <4>1 DEF IInv, LatestRootIsNewest, LatestStateRoot
      <4>3. \A j \in Numbers : srcContractStateRoots'[j] # NoBlock => j <= latestBlockNr
        BY <2>0, <3>1, <3>3 DEF IInv, LatestRootIsNewest, Numbers
      <4>. QED
        BY <4>1, <4>2, <4>3 DEF LatestRootIsNewest, LatestStateRoot
    <3>. QED
      BY <3>2, <3>3
  <2>. QED
    BY <1>3, <2>1, <2>2 DEF AddBlock, IInv, RecordedRootIsSourceRoot, Migrated
<1>5. ASSUME NEW p \in Proxies, NEW h \in 1..MaxTgtBlock, NEW m \in Roots,
             NEW n \in Numbers, VerifyMigrateContract(p, h, m, n)
      PROVE  IInv'
  <2>0. /\ m \in AccountProofs /\ m = srcContractStateRoots[n]
        /\ tgtChain[h][p] \in ShownBy(m)
        /\ proxyStorageInfos'[p] =
             [storageRoot |-> tgtChain[h][p], migrationState |-> TRUE, blockNumber |-> n]
        /\ \A q \in Proxies \ {p} : proxyStorageInfos'[q] = proxyStorageInfos[q]
        /\ UNCHANGED <<srcChain, rootVars>>
    BY <1>t, <1>5, VerifyRecords DEF chainVars
  <2>1. m = n /\ n \in 1..Len(srcChain)
    \* the table holds m under n, and what it holds under n belongs to n
    <3>1. m # NoBlock
      BY <2>0 DEF AccountProofs, NoBlock, OtherRoot
    <3>. QED
      BY <2>0, <3>1 DEF IInv, StateRootIsOfItsBlock, Numbers, NoBlock, TypeOK
  <2>2. ShownBy(m) = {srcChain[n]}
    BY <1>t, <2>1, RootsAndNumbers, ChainBlocks DEF ShownBy
  <2>3. RecordedRootIsSourceRoot'
    BY <2>0, <2>1, <2>2 DEF IInv, RecordedRootIsSourceRoot, Migrated
  <2>. QED
    BY <1>t, <2>0, <2>3 DEF IInv, StateRootIsOfItsBlock, LatestRootIsNewest, LatestStateRoot
<1>6. CASE UNCHANGED <<srcChain, rootVars, proxyStorageInfos>>
  BY <1>6 DEF IInv, StateRootIsOfItsBlock, LatestRootIsNewest, LatestStateRoot,
     RecordedRootIsSourceRoot, Migrated
<1>. QED
  BY <1>1, <1>3, <1>5, <1>6 DEF FedNext, OtherSteps, vars, TargetBlock, AddStorage, UpdateStorage,
     VerifyMigrateContractOriginal

\* The invariant holds of every behaviour.
LEMMA InvAlways == FedSpec => []IInv
BY InvInit, InvStep, PTL DEF FedSpec

\* If addBlock is given right roots, getLatestStateRoot is the newest root added,
\* whatever the order of the calls.
THEOREM LatestRootCorrect == FedSpec => []LatestRootIsNewest
<1>1. IInv => LatestRootIsNewest
  BY DEF IInv
<1>. QED
  BY <1>1, InvAlways, PTL

\* If addBlock is given right roots, a recorded storage root is the source
\* contract's in the recorded block, whatever else anybody calls.
THEOREM RecordCorrect == FedSpec => []RecordedRootIsSourceRoot
<1>1. IInv => RecordedRootIsSourceRoot
  BY DEF IInv
<1>. QED
  BY <1>1, InvAlways, PTL

=============================================================================
