----------------------------- MODULE RelayProxy -----------------------------
(***************************************************************************)
(* The two contracts deployed on the target chain, RelayContract and       *)
(* ProxyContract, between the source chain they follow and the target      *)
(* chain they run on.  One action is one transaction of one of the two     *)
(* contracts, or one block of one of the two chains.  A transaction that   *)
(* reverts changes nothing and is no step.                                 *)
(*                                                                         *)
(* Abstractions.  The storage of a contract is a function from slots to    *)
(* values, Empty being the zero word.  A storage hash is the storage it    *)
(* commits to.  A state root is the number of the source block it belongs  *)
(* to (two blocks never share a state root), NoBlock being bytes32(0) and  *)
(* OtherRoot a root that is no source block's, made by a caller who can    *)
(* show any account under it.  An account proof is named by the root it    *)
(* leads to.  Headers of the target chain are checked against blockhash,   *)
(* so they are those of its blocks.                                        *)
(*                                                                         *)
(* The functions of the contracts are open to everybody: Next has them     *)
(* called with any numbers, roots and words.  FedNext differs from it in   *)
(* one hypothesis, which some properties need: addBlock is only given      *)
(* source blocks' roots, under their own numbers.                          *)
(***************************************************************************)
EXTENDS Integers, Sequences

CONSTANTS
  Keys,             \* the storage slots of the source contract
  Values,           \* the words a slot can hold
  Empty,            \* the zero word
  NoRoot,           \* bytes32(0) where a storage root is expected
  Proxies,          \* the proxy contracts registered at the relay
  Wired,            \* the proxies compiled with this relay and this source
  BlockHashWindow,  \* how many past blocks BLOCKHASH still answers for
  MaxSrcBlock,      \* bound: last block of the source chain
  MaxTgtBlock       \* bound: last block of the target chain

Storage == [Keys -> Values]
NoBlock == 0
OtherRoot == MaxSrcBlock + 1
SrcBlocks == 1..MaxSrcBlock
Numbers == 0..(MaxSrcBlock + 1)  \* bound: the numbers a call can name
Roots == 0..(MaxSrcBlock + 1)
EmptyStorage == [k \in Keys |-> Empty]
SlotSets == (SUBSET Keys) \ {{}}

ASSUME ConstantsAssumption ==
  /\ Empty \in Values
  /\ NoRoot \notin Storage
  /\ Wired \subseteq Proxies
  /\ BlockHashWindow \in Nat \ {0}
  /\ MaxSrcBlock \in Nat \ {0}
  /\ MaxTgtBlock \in Nat \ {0}

VARIABLES
  srcChain,               \* srcChain[n]: the source contract's storage in source block n
  tgtChain,               \* tgtChain[h]: the storage of every proxy in target block h
  srcContractStateRoots,  \* RelayContract: source block number -> state root
  latestBlockNr,          \* RelayContract: largest block number ever added
  proxyStorageInfos,      \* RelayContract: what is recorded of each proxy
  proxyStorage            \* the current storage of each proxy

chainVars == <<srcChain, tgtChain>>
rootVars == <<srcContractStateRoots, latestBlockNr>>
vars == <<srcChain, tgtChain, srcContractStateRoots, latestBlockNr,
          proxyStorageInfos, proxyStorage>>

ProxyContractInfo ==
  [storageRoot : Storage \cup {NoRoot}, migrationState : BOOLEAN, blockNumber : Numbers]

Migrated(p) == proxyStorageInfos[p].migrationState

(***************************************************************************)
(* What the contracts ask of proofs, headers and roots.                    *)
(***************************************************************************)
\* RelayContract.getLatestStateRoot
LatestStateRoot == srcContractStateRoots[latestBlockNr]

\* The state roots and the account proofs of the source contract there are by now.
KnownRoots == {NoBlock, OtherRoot} \cup 1..Len(srcChain)
AccountProofs == {OtherRoot} \cup 1..Len(srcChain)

\* GetProofLib.verifyProof: an account proof leads to one state root only.
VerifyProof(proof, root) == root = proof

\* The storages an account proof can be the proof of.
ShownBy(proof) == IF proof = OtherRoot THEN Storage ELSE {srcChain[proof]}

\* blockhash(h) inside the block being built on top of tgtChain: zero for
\* that block itself and for blocks older than the window.
BlockHashKnown(h) ==
  /\ h \in 1..Len(tgtChain)
  /\ h > Len(tgtChain) - BlockHashWindow

\* The storage s after the slots in ks took the values they have in t.
Overlay(s, t, ks) == [k \in Keys |-> IF k \in ks THEN t[k] ELSE s[k]]

-----------------------------------------------------------------------------
(***************************************************************************)
(* Initially the source contract and the proxies are deployed, each chain  *)
(* has the block of the deployment, and the relay knows nothing.           *)
(***************************************************************************)
Init ==
  /\ \E s \in Storage : srcChain = <<s>>
  /\ tgtChain = <<[p \in Proxies |-> EmptyStorage]>>
  /\ srcContractStateRoots = [n \in Numbers |-> NoBlock]
  /\ latestBlockNr = 0
  /\ proxyStorageInfos = [p \in Proxies |->
       [storageRoot |-> NoRoot, migrationState |-> FALSE, blockNumber |-> 0]]
  /\ proxyStorage = [p \in Proxies |-> EmptyStorage]

\* A source block is mined, with any transactions on the source contract.
SourceBlock ==
  /\ Len(srcChain) < MaxSrcBlock
  /\ \E s \in Storage : srcChain' = Append(srcChain, s)
  /\ UNCHANGED <<tgtChain, rootVars, proxyStorageInfos, proxyStorage>>

\* A target block is sealed over the transactions executed so far.
TargetBlock ==
  /\ Len(tgtChain) < MaxTgtBlock
  /\ tgtChain' = Append(tgtChain, proxyStorage)
  /\ UNCHANGED <<srcChain, rootVars, proxyStorageInfos, proxyStorage>>

\* Mutant of addBlock: the newest block forgotten when an older one comes in late.
AddBlockLosesLatest(n, root) ==
  /\ root \in KnownRoots
  /\ srcContractStateRoots' = [srcContractStateRoots EXCEPT ![n] = root]
  /\ latestBlockNr' = n
  /\ UNCHANGED <<chainVars, proxyStorageInfos, proxyStorage>>

\* RelayContract.addBlock: any root, under any number.
AddBlock(n, root) ==
  /\ root \in KnownRoots
  /\ srcContractStateRoots' = [srcContractStateRoots EXCEPT ![n] = root]
  /\ latestBlockNr' = IF n > latestBlockNr THEN n ELSE latestBlockNr
  /\ UNCHANGED <<chainVars, proxyStorageInfos, proxyStorage>>

\* ProxyContract.addStorage: one batch, any words t for the slots in ks.  Anyone
\* may call it until the migration is recorded.
AddStorage(p, t, ks) ==
  /\ p \in Wired
  /\ ~Migrated(p)
  /\ proxyStorage' = [proxyStorage EXCEPT ![p] = Overlay(@, t, ks)]
  /\ UNCHANGED <<chainVars, rootVars, proxyStorageInfos>>

\* Mutants of verifyMigrateContract: the two storage hashes are not compared;
\* the number recorded is the newest known one; the source's hash is recorded.
MigrationUncompared(p, h, m, n) ==
  /\ BlockHashKnown(h)
  /\ p \in Wired
  /\ m \in AccountProofs
  /\ VerifyProof(m, srcContractStateRoots[n])

\* What RelayContract.verifyMigrateContract requires of header h of the target
\* chain and the proxy's account proof in it, the source account proof m, and n,
\* the source block number the caller names.
MigrationVerified(p, h, m, n) ==
  /\ BlockHashKnown(h)
  /\ p \in Wired
  /\ m \in AccountProofs
  /\ VerifyProof(m, srcContractStateRoots[n])
  /\ tgtChain[h][p] \in ShownBy(m)

VerifyMigrateRecordsLatest(p, h, m, n) ==
  /\ MigrationVerified(p, h, m, n)
  /\ proxyStorageInfos' = [proxyStorageInfos EXCEPT ![p] =
       [storageRoot |-> tgtChain[h][p], migrationState |-> TRUE, blockNumber |-> latestBlockNr]]
  /\ UNCHANGED <<chainVars, rootVars, proxyStorage>>

VerifyMigrateTrustsSource(p, h, m, n) ==
  /\ MigrationUncompared(p, h, m, n)
  /\ \E t \in ShownBy(m) : proxyStorageInfos' = [proxyStorageInfos EXCEPT ![p] =
       [storageRoot |-> t, migrationState |-> TRUE, blockNumber |-> n]]
  /\ UNCHANGED <<chainVars, rootVars, proxyStorage>>

\* RelayContract.verifyMigrateContract.
VerifyMigrateContract(p, h, m, n) ==
  /\ MigrationVerified(p, h, m, n)
  /\ proxyStorageInfos' = [proxyStorageInfos EXCEPT ![p] =
       [storageRoot |-> tgtChain[h][p], migrationState |-> TRUE, blockNumber |-> n]]
  /\ UNCHANGED <<chainVars, rootVars, proxyStorage>>

\* RelayContract.verifyMigrateContractOriginal: a second copy of the same body.
VerifyMigrateContractOriginal(p, h, m, n) == VerifyMigrateContract(p, h, m, n)

\* Mutant of updateStorage: a proof against any root the relay knows is enough.
UpdateAgainstAnyRoot(p, m, t, ks) ==
  /\ p \in Wired
  /\ Migrated(p)
  /\ m \in AccountProofs
  /\ VerifyProof(m, srcContractStateRoots[m])
  /\ proxyStorage' = [proxyStorage EXCEPT ![p] = Overlay(@, t, ks)]
  /\ UNCHANGED <<chainVars, rootVars, proxyStorageInfos>>

\* ProxyContract.updateStorage(bytes): the source account proof m and a storage
\* proof that has the words t in the slots ks.  The account proof is checked
\* against the latest root.  The checks of the storage proof against the old and
\* the new storage root and the call that would update the relay's record are
\* commented out, so the words may be any.
UpdateStorage(p, m, t, ks) ==
  /\ p \in Wired
  /\ Migrated(p)
  /\ m \in AccountProofs
  /\ VerifyProof(m, LatestStateRoot)
  /\ proxyStorage' = [proxyStorage EXCEPT ![p] = Overlay(@, t, ks)]
  /\ UNCHANGED <<chainVars, rootVars, proxyStorageInfos>>

\* All steps but addBlock.
OtherSteps ==
  \/ SourceBlock
  \/ TargetBlock
  \/ \E p \in Proxies, t \in Storage, ks \in SlotSets : AddStorage(p, t, ks)
  \/ \E p \in Proxies, h \in 1..MaxTgtBlock, m \in Roots, n \in Numbers :
        \/ VerifyMigrateContract(p, h, m, n)
        \/ VerifyMigrateContractOriginal(p, h, m, n)
  \/ \E p \in Proxies, m \in Roots, t \in Storage, ks \in SlotSets : UpdateStorage(p, m, t, ks)

\* Anybody calls everything.
Next == OtherSteps \/ \E n \in Numbers, root \in Roots : AddBlock(n, root)

Spec == Init /\ [][Next]_vars

\* The same where whoever calls addBlock gives it the root of a source block
\* and the number of that block.
FedNext == OtherSteps \/ \E n \in SrcBlocks : AddBlock(n, n)

FedSpec == Init /\ [][FedNext]_vars

-----------------------------------------------------------------------------
(***************************************************************************)
(* Properties.                                                             *)
(***************************************************************************)
\* The type invariant of the two contracts and the two chains.
TypeOK ==
  /\ srcChain \in Seq(Storage)
  /\ Len(srcChain) \in SrcBlocks
  /\ tgtChain \in Seq([Proxies -> Storage])
  /\ Len(tgtChain) \in 1..MaxTgtBlock
  /\ srcContractStateRoots \in [Numbers -> Roots]
  /\ latestBlockNr \in Numbers
  /\ proxyStorageInfos \in [Proxies -> ProxyContractInfo]
  /\ proxyStorage \in [Proxies -> Storage]

\* If the relay is fed with right roots, getStateRoot answers with the root of the
\* block asked for, or with none: what the properties below rest on.
StateRootIsOfItsBlock ==
  \A n \in Numbers : srcContractStateRoots[n] # NoBlock =>
    /\ srcContractStateRoots[n] = n
    /\ n <= Len(srcChain)

\* If the relay is fed with right roots, getLatestStateRoot answers with that of
\* the newest source block it was ever told of, in whatever order blocks came.
LatestRootIsNewest ==
  /\ latestBlockNr # 0 => LatestStateRoot = latestBlockNr
  /\ \A n \in Numbers : srcContractStateRoots[n] # NoBlock => n <= latestBlockNr

\* If the relay is fed with right roots, what it records of a migrated proxy is
\* true of the source chain, whatever words anybody wrote and however often the
\* verification is repeated: the recorded storage root is the source contract's
\* in the recorded block.
RecordedRootIsSourceRoot ==
  \A p \in Proxies : Migrated(p) =>
    LET info == proxyStorageInfos[p]
    IN  /\ info.blockNumber \in 1..Len(srcChain)
        /\ info.storageRoot = srcChain[info.blockNumber]

\* Whatever roots, numbers and words anybody hands in, what is recorded was true
\* of the proxy: in some sealed target block it had exactly the recorded storage.
RecordedRootWasShown ==
  \A p \in Proxies : Migrated(p) =>
    \E h \in 1..Len(tgtChain) : tgtChain[h][p] = proxyStorageInfos[p].storageRoot


\* Claimed: updateStorage verifies "the provided storage proofs", so a word it
\* writes is the source contract's in the newest block the relay knows.
UpdateWritesAreProven ==
  [][\A p \in Proxies : Migrated(p) =>
       \A k \in Keys : proxyStorage'[p][k] # proxyStorage[p][k] =>
         /\ latestBlockNr \in 1..Len(srcChain)
         /\ proxyStorage'[p][k] = srcChain[latestBlockNr][k]]_vars

\* Claimed: verifyMigrateContract "checks if the migration of the source
\* contract to the proxy contract was successful", so the storage that
\* becomes locked is the storage that was verified.
MigrationLocksVerifiedStorage ==
  [][\A p \in Proxies : ~Migrated(p) /\ Migrated(p)' =>
       proxyStorage[p] = proxyStorageInfos'[p].storageRoot]_vars

=============================================================================
