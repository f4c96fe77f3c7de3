------------------------ MODULE ForkMigration_proofs ------------------------
(***************************************************************************)
(* What the fork command guarantees for every storage, every number of     *)
(* attempts, batches and blocks, and every RPC call that may fail.         *)
(***************************************************************************)
EXTENDS ForkMigration, RelayProxy_proofs

\* What the processes submit.
Txs ==
  [kind : {"addBlock"}, by : 1..MaxAttempts, number : SrcBlocks]
  \cup [kind : {"deploy"}, by : 1..MaxAttempts, proxies : SUBSET Proxies]
  \cup [kind : {"addStorage"}, by : 1..MaxAttempts, proxy : Wired, block : SrcBlocks,
        slots : SlotSets]
  \cup [kind : {"verify"}, by : 1..MaxAttempts, proxy : Wired, header : 1..MaxTgtBlock,
        proxyProof : 0..MaxTgtBlock, block : SrcBlocks, number : SrcBlocks]

Pending == {mempool[i] : i \in DOMAIN mempool}

\* A process knows the header and the proof once it has read them, and submits
\* no slots before it knows the keys.
ReadsDone ==
  /\ args \in Arguments
  /\ pc = "keys" => proxyKeys = {}
  /\ pc \notin Ended \cup {"keys", "header"} => header \in 1..Len(srcChain)
  /\ pc \notin Ended \cup {"keys", "header", "proof"} => proofBlock \in 1..Len(srcChain)

\* A process fills and verifies no proxy but its own, and verifies last.
Ownership ==
  /\ \A tx \in Pending : tx.kind \in {"addStorage", "verify"} => tx.proxy = Addresses[tx.by]
  /\ pc \notin Ended \cup {"waitVerify", "check"} =>
       \A tx \in Pending : tx.kind = "verify" => tx.by # attempt

\* Target block h shows the storage of proxy p as it is.
Shows(h, p) == h \in 1..Len(tgtChain) /\ tgtChain[h][p] = proxyStorage[p]

\* From the header of a verification on, until the verification is executed, nothing
\* writes to its proxy.
Quiet ==
  /\ ~unsealed => tgtChain[Len(tgtChain)] = proxyStorage
  /\ pc \in {"proxyHeader", "proxyProof", "verify"} => AllMined
  /\ pc \in {"proxyProof", "verify"} => Shows(proxyHeader, NewProxy)
  /\ \A tx \in Pending : tx.kind = "verify" =>
       /\ Shows(tx.header, tx.proxy)
       /\ \A other \in Pending : other.kind = "addStorage" => other.proxy # tx.proxy

\* The inductive invariant.
ForkInv ==
  /\ IInv
  /\ ForkTypeOK
  /\ mempool \in Seq(Txs)
  /\ ReadsDone
  /\ Ownership
  /\ Quiet
  /\ MigratedCopyIsComplete

-----------------------------------------------------------------------------
(***************************************************************************)
(* The mempool.                                                            *)
(***************************************************************************)
\* What is pending was submitted by a process.
LEMMA PendingTxs ==
  ASSUME mempool \in Seq(Txs)
  PROVE  Pending \subseteq Txs
BY DEF Pending

\* A submission adds a transaction.
LEMMA PendingAfterSubmit ==
  ASSUME mempool \in Seq(Txs), NEW tx \in Txs, Submit(tx)
  PROVE  mempool' \in Seq(Txs) /\ Pending' = Pending \cup {tx}
<1>1. mempool' = Append(mempool, tx)
  BY DEF Submit
<1>2. /\ mempool' \in Seq(Txs)
      /\ DOMAIN mempool' = DOMAIN mempool \cup {Len(mempool) + 1}
      /\ mempool'[Len(mempool) + 1] = tx
      /\ \A i \in DOMAIN mempool : mempool'[i] = mempool[i]
  BY <1>1
<1>. QED
  BY <1>2 DEF Pending

\* An execution takes the oldest transaction out.
LEMMA PendingAfterExecute ==
  ASSUME mempool \in Seq(Txs), ExecuteTx
  PROVE  /\ mempool' \in Seq(Txs) /\ Pending' \subseteq Pending
         /\ Head(mempool) \in Pending /\ Head(mempool) \in Txs
<1>1. mempool # <<>> /\ mempool' = Tail(mempool)
  BY DEF ExecuteTx
<1>2. /\ Len(mempool) \in Nat \ {0}
      /\ Head(mempool) = mempool[1] /\ Head(mempool) \in Txs
      /\ mempool' \in Seq(Txs)
      /\ Len(mempool') = Len(mempool) - 1
      /\ \A i \in 1..Len(mempool') : mempool'[i] = mempool[i + 1]
  BY <1>1
<1>3. ASSUME NEW i \in DOMAIN mempool' PROVE mempool'[i] \in Pending
  <2>1. i + 1 \in DOMAIN mempool /\ mempool'[i] = mempool[i + 1]
    BY <1>2
  <2>. QED
    BY <2>1 DEF Pending
<1>. QED
  BY <1>2, <1>3 DEF Pending

\* An executed transaction is a call of the contracts, or changes nothing of them.
LEMMA ExecuteCases ==
  ASSUME mempool \in Seq(Txs), ExecuteTx
  PROVE  \/ UNCHANGED vars
         \/ \E n \in SrcBlocks : AddBlock(n, n)
         \/ \E tx \in Pending :
              /\ tx.kind = "addStorage" /\ tx \in Txs /\ tx.block \in 1..Len(srcChain)
              /\ AddStorage(tx.proxy, srcChain[tx.block], tx.slots)
         \/ \E tx \in Pending :
              /\ tx.kind = "verify" /\ tx \in Txs
              /\ VerifyMigrateContract(tx.proxy, tx.header, tx.block, tx.number)
<1> DEFINE tx == Head(mempool)
<1>1. tx \in Pending /\ tx \in Txs
  BY PendingAfterExecute
<1>2. CASE Succeeds(tx) /\ Effect(tx)
  <2>1. CASE tx.kind = "addBlock" /\ AddBlock(tx.number, tx.number)
    <3>1. tx.number \in SrcBlocks
      BY <1>1, <2>1 DEF Txs
    <3>. QED
      BY <2>1, <3>1
  <2>. QED
    BY <1>1, <1>2, <2>1 DEF Effect
<1>3. CASE UNCHANGED vars
  BY <1>3
<1>. QED
  BY <1>2, <1>3 DEF ExecuteTx

\* Only calls of proxies and verifications revert.
LEMMA RevertedKinds ==
  ASSUME mempool \in Seq(Txs), ExecuteTx, reverted \subseteq {"addStorage", "verify", "update"}
  PROVE  reverted' \subseteq {"addStorage", "verify", "update"}
<1> DEFINE tx == Head(mempool)
<1>1. tx \in Txs
  BY PendingAfterExecute
<1>2. tx.kind \in {"addBlock", "deploy"} => Succeeds(tx)
  BY DEF Succeeds
<1>3. tx.kind \in {"addBlock", "deploy", "addStorage", "verify"}
  BY <1>1 DEF Txs
<1>4. reverted' = reverted \/ (~Succeeds(tx) /\ reverted' \subseteq reverted \cup {tx.kind})
  BY DEF ExecuteTx
<1>. QED
  BY <1>2, <1>3, <1>4

-----------------------------------------------------------------------------
(***************************************************************************)
(* Every step of the fork is a step of the contracts.                      *)
(***************************************************************************)
\* The process changes nothing of the two contracts and chains, the rest does what
\* RelayProxy says, and what it adds to the relay are right roots.
LEMMA ContractsStep == TypeOK /\ mempool \in Seq(Txs) /\ [ForkNext]_allVars => [FedNext]_vars
<1> SUFFICES ASSUME TypeOK, mempool \in Seq(Txs), [ForkNext]_allVars PROVE [FedNext]_vars
  OBVIOUS
<1>1. CASE Operator
  BY <1>1 DEF Operator, ReadKeys, ReadHeader, ReadProof, SubmitAddBlock, SubmitDeployment, Deployed,
     SubmitBatches, BatchesMined, ReadProxyHeader, ReadProxyProof, SubmitVerify, VerifyMined,
     CheckMigrationState
<1>2. CASE RpcFails \/ RunAgain
  BY <1>2 DEF RpcFails, RunAgain
<1>3. CASE Execute
  <2>1. ASSUME NEW tx \in Txs, tx.kind = "addStorage", tx.block \in 1..Len(srcChain),
               AddStorage(tx.proxy, srcChain[tx.block], tx.slots)
        PROVE  FedNext
    <3>1. tx.proxy \in Proxies /\ srcChain[tx.block] \in Storage /\ tx.slots \in SlotSets
      BY <2>1, ConstantsAssumption DEF Txs, ConstantsAssumption, TypeOK
    <3>. QED
      BY <2>1, <3>1 DEF FedNext, OtherSteps
  <2>2. ASSUME NEW tx \in Txs, tx.kind = "verify",
               VerifyMigrateContract(tx.proxy, tx.header, tx.block, tx.number)
        PROVE  FedNext
    <3>1. /\ tx.proxy \in Proxies /\ tx.header \in 1..MaxTgtBlock
          /\ tx.block \in Roots /\ tx.number \in Numbers
      BY <2>2, ConstantsAssumption, RootsAndNumbers DEF Txs, ConstantsAssumption
    <3>. QED
      BY <2>2, <3>1 DEF FedNext, OtherSteps
  <2>. QED
    BY <1>3, <2>1, <2>2, ExecuteCases DEF Execute, FedNext
<1>4. CASE Seal \/ OthersBlock
  BY <1>4 DEF Seal, SealBlock, OthersBlock, NoiseBlock, FedNext, OtherSteps
<1>5. CASE SourceBlock
  BY <1>5 DEF FedNext, OtherSteps
<1>6. CASE UNCHANGED allVars
  BY <1>6 DEF allVars
<1>. QED
  BY <1>1, <1>2, <1>3, <1>4, <1>5, <1>6 DEF ForkNext

-----------------------------------------------------------------------------
(***************************************************************************)
(* Types, and what the process has read.                                   *)
(***************************************************************************)
\* The chains only grow.
LEMMA ChainsGrow ==
  ASSUME TypeOK, [Next]_vars
  PROVE  /\ Len(srcChain) \in Nat \ {0} /\ Len(srcChain) <= Len(srcChain')
         /\ \A n \in 1..Len(srcChain) : srcChain'[n] = srcChain[n]
         /\ Len(tgtChain) \in Nat \ {0} /\ Len(tgtChain) <= Len(tgtChain')
         /\ \A h \in 1..Len(tgtChain) : tgtChain'[h] = tgtChain[h]
<1> USE ConstantsAssumption DEF ConstantsAssumption, TypeOK, SrcBlocks, chainVars, rootVars
<1>1. CASE SourceBlock
  BY <1>1 DEF SourceBlock
<1>2. CASE TargetBlock
  BY <1>2 DEF TargetBlock
<1>3. CASE UNCHANGED chainVars
  BY <1>3
<1>. QED
  BY <1>1, <1>2, <1>3 DEF Next, OtherSteps, vars, AddBlock, AddStorage, VerifyMigrateContract,
     VerifyMigrateContractOriginal, UpdateStorage

\* The proxy of a process is one of those compiled with this relay.
LEMMA NewProxyWired ==
  ASSUME attempt \in 1..MaxAttempts
  PROVE  NewProxy \in Wired
BY AccountAssumption DEF AccountAssumption, NewProxy

\* Everything the process submits is a transaction of its own.
LEMMA SubmitCases ==
  ASSUME ForkInv, Operator
  PROVE  \/ UNCHANGED <<mempool, unsealed, attempt, reverted, deployment, disturbances, vars>>
         \/ \E tx \in Txs :
              /\ Submit(tx) /\ tx.by = attempt
              /\ UNCHANGED vars
              /\ \/ /\ tx.kind \in {"addBlock", "deploy"}
                    /\ pc \notin Ended \cup {"waitVerify", "check", "proxyHeader", "proxyProof", "verify"}
                    /\ pc' \notin {"proxyHeader", "proxyProof", "verify"}
                 \/ /\ tx.kind = "addStorage" /\ tx.proxy = NewProxy
                    /\ pc = "batches" /\ pc' = "batches"
                 \/ /\ tx.kind = "verify" /\ tx.proxy = NewProxy /\ tx.header = proxyHeader
                    /\ pc = "verify" /\ pc' = "waitVerify"
<1>1. /\ attempt \in 1..MaxAttempts /\ NewProxy \in Wired
      /\ Len(srcChain) \in SrcBlocks /\ Len(tgtChain) \in 1..MaxTgtBlock
      /\ 1..Len(srcChain) \subseteq SrcBlocks
  BY NewProxyWired, ConstantsAssumption
     DEF ForkInv, ForkTypeOK, AccountTypeOK, TypeOK, SrcBlocks, ConstantsAssumption
<1>2. CASE SubmitAddBlock
  <2>1. AddBlockTx(header) \in Txs
    BY <1>1, <1>2 DEF ForkInv, ReadsDone, SubmitAddBlock, Goto, Ended, AddBlockTx, Txs
  <2>. QED
    BY <1>2, <2>1 DEF SubmitAddBlock, Goto, Ended, AddBlockTx
<1>3. CASE SubmitDeployment
  <2>1. DeployTx({}) \in Txs /\ DeployTx({NewProxy}) \in Txs
    BY <1>1, ConstantsAssumption DEF DeployTx, Txs, ConstantsAssumption
  <2>. QED
    BY <1>3, <2>1 DEF SubmitDeployment, Goto, Ended, DeployTx
<1>4. CASE SubmitBatches
  <2>1. ASSUME NEW ks \in SUBSET proxyKeys, pc = "batches", ks # {}
        PROVE  AddStorageTx(NewProxy, proofBlock, ks) \in Txs
    <3>1. proofBlock \in SrcBlocks
      BY <1>1, <2>1 DEF ForkInv, ReadsDone, Ended
    <3>2. ks \in SlotSets
      BY <2>1 DEF ForkInv, ForkTypeOK, SlotSets
    <3>. QED
      BY <1>1, <3>1, <3>2 DEF AddStorageTx, Txs
  <2>. QED
    BY <1>4, <2>1 DEF SubmitBatches, AddStorageTx, accountVars
<1>5. CASE SubmitVerify
  <2>1. header \in SrcBlocks /\ proofBlock \in SrcBlocks
    BY <1>1, <1>5 DEF ForkInv, ReadsDone, SubmitVerify, Goto, Ended
  <2>2. proxyHeader \in 1..Len(tgtChain) /\ proxyProof \in 0..Len(tgtChain)
    BY <1>5 DEF ForkInv, Quiet, Shows, ForkTypeOK, SubmitVerify, Goto
  <2>3. proxyHeader \in 1..MaxTgtBlock /\ proxyProof \in 0..MaxTgtBlock
    BY <1>1, <2>2, ConstantsAssumption DEF ConstantsAssumption
  <2>4. VerifyTx(NewProxy, proxyHeader, proxyProof, proofBlock, header) \in Txs
    BY <1>1, <2>1, <2>3 DEF VerifyTx, Txs
  <2>. QED
    BY <1>5, <2>4 DEF SubmitVerify, Goto, VerifyTx
<1>6. CASE UNCHANGED <<vars, accountVars>>
  BY <1>6 DEF accountVars
<1>. QED
  BY <1>2, <1>3, <1>4, <1>5, <1>6
     DEF Operator, ReadKeys, ReadHeader, ReadProof, Deployed, BatchesMined,
         ReadProxyHeader, ReadProxyProof, VerifyMined, CheckMigrationState

\* Types of the account's variables are kept.
LEMMA AccountTypeStep == ForkInv /\ [ForkNext]_allVars => AccountTypeOK' /\ mempool' \in Seq(Txs)
<1> SUFFICES ASSUME ForkInv, [ForkNext]_allVars PROVE AccountTypeOK' /\ mempool' \in Seq(Txs)
  OBVIOUS
<1>t. TypeOK'
  BY ContractsStep, FedIsAny, TypeStep DEF ForkInv, IInv
<1>a. \A tx \in Pending : tx.by \in 1..attempt
  BY DEF ForkInv, ForkTypeOK, AccountTypeOK, Pending
<1>b. ASSUME mempool' \in Seq(Txs), \A tx \in Pending' : tx.by \in 1..attempt'
      PROVE  \A i \in DOMAIN mempool' : mempool'[i].by \in 1..attempt'
  BY <1>b DEF Pending
<1> USE <1>t DEF ForkInv, ForkTypeOK, AccountTypeOK
<1>1. CASE Operator
  <2>1. CASE UNCHANGED <<mempool, unsealed, attempt, reverted, deployment, disturbances, vars>>
    BY <2>1
  <2>2. ASSUME NEW tx \in Txs, Submit(tx), tx.by = attempt
        PROVE  AccountTypeOK' /\ mempool' \in Seq(Txs)
    <3>1. mempool' \in Seq(Txs) /\ Pending' = Pending \cup {tx}
      BY <2>2, PendingAfterSubmit
    <3>2. \A other \in Pending' : other.by \in 1..attempt'
      BY <1>a, <2>2, <3>1 DEF Submit
    <3>. QED
      BY <1>b, <2>2, <3>1, <3>2 DEF Submit
  <2>. QED
    BY <1>1, <2>1, <2>2, SubmitCases
<1>2. CASE RpcFails
  BY <1>2, AccountAssumption DEF RpcFails, Disturb, AccountAssumption
<1>3. CASE RunAgain
  <2>1. attempt' \in 1..MaxAttempts /\ attempt' = attempt + 1 /\ mempool' = mempool
    BY <1>3, AccountAssumption DEF RunAgain, NextAttempt, AccountAssumption
  <2>2. \A i \in DOMAIN mempool' : mempool'[i].by \in 1..attempt'
    BY <2>1
  <2>. QED
    BY <1>3, <2>1, <2>2, AccountAssumption DEF RunAgain, NextAttempt, AccountAssumption
<1>4. CASE Execute
  <2>1. ExecuteTx
    BY <1>4 DEF Execute
  <2>2. mempool' \in Seq(Txs) /\ Pending' \subseteq Pending
    BY <2>1, PendingAfterExecute
  <2>3. reverted' \subseteq {"addStorage", "verify", "update"}
    BY <2>1, RevertedKinds
  <2>4. /\ attempt' = attempt /\ disturbances' = disturbances /\ unsealed' = TRUE
    BY <2>1 DEF ExecuteTx
  <2>5. deployment' \in [Proxies -> {"none", "executed", "mined"}]
    BY <2>1 DEF ExecuteTx, Effect
  <2>6. \A i \in DOMAIN mempool' : mempool'[i].by \in 1..attempt'
    BY <1>a, <1>b, <2>2, <2>4
  <2>. QED
    BY <2>2, <2>3, <2>4, <2>5, <2>6
<1>5. CASE Seal
  BY <1>5 DEF Seal, SealBlock
<1>6. CASE OthersBlock
  BY <1>6, AccountAssumption DEF OthersBlock, NoiseBlock, Disturb, AccountAssumption
<1>7. CASE SourceBlock /\ UNCHANGED <<accountVars, forkVars>>
  BY <1>7 DEF accountVars
<1>8. CASE UNCHANGED allVars
  BY <1>8 DEF allVars, accountVars
<1>. QED
  BY <1>1, <1>2, <1>3, <1>4, <1>5, <1>6, <1>7, <1>8 DEF ForkNext

\* What the process has read are slots and blocks that exist.
LEMMA ReadsStep ==
  ForkInv /\ [ForkNext]_allVars => ForkTypeOK' /\ ReadsDone'
<1> SUFFICES ASSUME ForkInv, [ForkNext]_allVars PROVE ForkTypeOK' /\ ReadsDone'
  OBVIOUS
<1>a. AccountTypeOK'
  BY AccountTypeStep
<1>g. /\ Len(srcChain) \in Nat \ {0} /\ Len(srcChain') \in Nat /\ Len(srcChain) <= Len(srcChain')
      /\ Len(tgtChain) \in Nat \ {0} /\ Len(tgtChain') \in Nat /\ Len(tgtChain) <= Len(tgtChain')
  BY <1>a, ContractsStep, FedIsAny, ChainsGrow DEF ForkInv, IInv, AccountTypeOK, TypeOK
<1>n. At \in 1..Len(srcChain)
  BY <1>g DEF At, ForkInv, ReadsDone, Arguments
<1> USE <1>a, <1>g, <1>n DEF ForkInv, ForkTypeOK, ReadsDone, Ended, Goto, readVars
<1>1. CASE ReadKeys \/ ReadHeader \/ ReadProof
  BY <1>1 DEF ReadKeys, ReadHeader, ReadProof, vars, accountVars
<1>2. CASE SubmitAddBlock \/ SubmitDeployment \/ SubmitVerify
  BY <1>2 DEF SubmitAddBlock, SubmitDeployment, SubmitVerify, vars
<1>3. CASE SubmitBatches
  BY <1>3 DEF SubmitBatches, vars
<1>4. CASE Deployed \/ BatchesMined
  BY <1>4 DEF Deployed, BatchesMined, vars
<1>5. CASE VerifyMined \/ CheckMigrationState
  BY <1>5 DEF VerifyMined, CheckMigrationState, vars
<1>6. CASE ReadProxyHeader \/ ReadProxyProof
  BY <1>6 DEF ReadProxyHeader, ReadProxyProof, LatestProof, vars
<1>7. CASE RpcFails
  BY <1>7 DEF RpcFails, vars
<1>8. CASE RunAgain
  BY <1>8 DEF RunAgain, vars
<1>9. CASE UNCHANGED forkVars
  BY <1>9 DEF forkVars
<1>. QED
  BY <1>1, <1>2, <1>3, <1>4, <1>5, <1>6, <1>7, <1>8, <1>9
     DEF ForkNext, Operator, Execute, Seal, OthersBlock, allVars

-----------------------------------------------------------------------------
(***************************************************************************)
(* Nobody writes to a proxy between the header of its verification and     *)
(* the verification.                                                       *)
(***************************************************************************)
\* The proxies of two processes differ.
LEMMA OwnProxy ==
  ASSUME ForkInv, NEW tx \in Pending, tx.kind \in {"addStorage", "verify"}, tx.by # attempt
  PROVE  tx.proxy # NewProxy
<1>1. tx.by \in 1..MaxAttempts /\ attempt \in 1..MaxAttempts
  BY PendingTxs DEF ForkInv, ForkTypeOK, AccountTypeOK, Txs
<1>. QED
  BY <1>1, AccountAssumption DEF ForkInv, Ownership, NewProxy, AccountAssumption

\* Every step keeps a process to its own proxy.
LEMMA OwnershipStep == ForkInv /\ [ForkNext]_allVars => Ownership'
<1> SUFFICES ASSUME ForkInv, [ForkNext]_allVars PROVE Ownership'
  OBVIOUS
<1>a. \A tx \in Pending : tx.by \in 1..attempt /\ attempt \in Nat
  BY DEF ForkInv, ForkTypeOK, AccountTypeOK, Pending
<1> USE DEF ForkInv, Ownership, Ended
<1>1. CASE Operator
  <2>1. CASE UNCHANGED <<mempool, unsealed, attempt, reverted, deployment, disturbances, vars>>
    <3>1. Pending' = Pending
      BY <2>1 DEF Pending
    <3>2. pc \in Ended \cup {"waitVerify", "check"} => pc' \in Ended \cup {"check"}
      BY <1>1, <2>1 DEF Operator, Goto, ReadKeys, ReadHeader, ReadProof, SubmitAddBlock,
         SubmitDeployment, Deployed, SubmitBatches, BatchesMined, ReadProxyHeader, ReadProxyProof,
         SubmitVerify, VerifyMined, CheckMigrationState
    <3>. QED
      BY <2>1, <3>1, <3>2
  <2>2. ASSUME NEW tx \in Txs, Submit(tx), tx.by = attempt, tx.kind \in {"addBlock", "deploy"},
               pc \notin Ended \cup {"waitVerify", "check", "proxyHeader", "proxyProof", "verify"}
        PROVE  Ownership'
    BY <2>2, PendingAfterSubmit DEF Submit
  <2>3. ASSUME NEW tx \in Txs, Submit(tx), tx.by = attempt, tx.kind = "addStorage",
               tx.proxy = NewProxy, pc = "batches"
        PROVE  Ownership'
    BY <2>3, PendingAfterSubmit DEF Submit, NewProxy
  <2>4. ASSUME NEW tx \in Txs, Submit(tx), tx.by = attempt, tx.kind = "verify",
               tx.proxy = NewProxy, pc' = "waitVerify"
        PROVE  Ownership'
    BY <2>4, PendingAfterSubmit DEF Submit, NewProxy
  <2>. QED
    BY <1>1, <2>1, <2>2, <2>3, <2>4, SubmitCases
<1>2. CASE RpcFails
  <2>1. /\ Pending' = Pending /\ attempt' = attempt
        /\ pc \in Ended \cup {"waitVerify", "check"} => pc' \in Ended
    BY <1>2 DEF RpcFails, Disturb, Pending
  <2>. QED
    BY <2>1
<1>3. CASE RunAgain
  BY <1>a, <1>3 DEF RunAgain, NextAttempt, Pending
<1>4. CASE Execute
  <2>1. Pending' \subseteq Pending
    BY <1>4, PendingAfterExecute DEF Execute
  <2>. QED
    BY <1>4, <2>1 DEF Execute, ExecuteTx, forkVars
<1>5. CASE Seal \/ OthersBlock
  BY <1>5 DEF Seal, SealBlock, OthersBlock, NoiseBlock, Disturb, forkVars, Pending
<1>6. CASE UNCHANGED <<accountVars, forkVars>>
  BY <1>6 DEF accountVars, forkVars, Pending
<1>. QED
  BY <1>1, <1>2, <1>3, <1>4, <1>5, <1>6 DEF ForkNext, allVars

\* A proxy nobody writes to is shown as it is by the block that showed it so.
LEMMA ShowsStep ==
  ASSUME ForkInv, [ForkNext]_allVars, NEW h, NEW p, Shows(h, p),
         proxyStorage'[p] = proxyStorage[p]
  PROVE  Shows(h, p)'
<1>1. TypeOK /\ [Next]_vars
  BY ContractsStep, FedIsAny DEF ForkInv, IInv
<1>2. Len(tgtChain') \in Nat
  BY <1>1, TypeStep DEF TypeOK
<1>. QED
  BY <1>1, <1>2, ChainsGrow DEF Shows

\* Every step leaves a proxy alone that is to be verified.
LEMMA QuietStep == ForkInv /\ [ForkNext]_allVars => Quiet'
<1> SUFFICES ASSUME ForkInv, [ForkNext]_allVars PROVE Quiet'
  OBVIOUS
<1>t. TypeOK /\ Len(tgtChain) \in Nat \ {0} /\ tgtChain \in Seq([Proxies -> Storage])
  BY ConstantsAssumption DEF ForkInv, IInv, TypeOK, ConstantsAssumption
<1> USE DEF ForkInv, Quiet
<1>1. CASE Operator
  <2>1. CASE UNCHANGED <<mempool, unsealed, attempt, reverted, deployment, disturbances, vars>>
    <3>1. Pending' = Pending /\ (\A h, p : Shows(h, p)' <=> Shows(h, p)) /\ NewProxy' = NewProxy
      BY <2>1 DEF Pending, Shows, vars, NewProxy
    <3>2. AllMined' <=> AllMined
      BY <2>1 DEF AllMined
    <3>3. pc' \in {"proxyHeader", "proxyProof", "verify"} => AllMined
      BY <1>1, <2>1 DEF Operator, Goto, ReadKeys, ReadHeader, ReadProof, SubmitAddBlock,
         SubmitDeployment, Deployed, SubmitBatches, BatchesMined, ReadProxyHeader, ReadProxyProof,
         SubmitVerify, VerifyMined, CheckMigrationState, Submit
    <3>4. pc' \in {"proxyProof", "verify"} => Shows(proxyHeader', NewProxy)
      <4>1. CASE ReadProxyHeader
        <5>1. proxyHeader' = Len(tgtChain) /\ tgtChain[Len(tgtChain)] = proxyStorage
          BY <4>1 DEF ReadProxyHeader, Goto, AllMined
        <5>. QED
          BY <1>t, <5>1 DEF Shows
      <4>2. CASE ReadProxyProof
        BY <4>2 DEF ReadProxyProof, Goto
      <4>. QED
        BY <1>1, <2>1, <4>1, <4>2 DEF Operator, Goto, ReadKeys, ReadHeader, ReadProof,
           SubmitAddBlock, SubmitDeployment, Deployed, SubmitBatches, BatchesMined, SubmitVerify,
           VerifyMined, CheckMigrationState
    <3>5. (~unsealed => tgtChain[Len(tgtChain)] = proxyStorage)'
      BY <2>1 DEF vars
    <3>. QED
      BY <3>1, <3>2, <3>3, <3>4, <3>5
  <2>2. ASSUME NEW tx \in Txs, Submit(tx), UNCHANGED vars,
               tx.kind \in {"addBlock", "deploy"} \/ (tx.kind = "addStorage" /\ tx.proxy = NewProxy),
               pc \notin Ended \cup {"waitVerify", "check"},
               pc' \notin {"proxyHeader", "proxyProof", "verify"}
        PROVE  Quiet'
    <3>1. Pending' = Pending \cup {tx} /\ unsealed' = unsealed
      BY <2>2, PendingAfterSubmit DEF Submit
    <3>2. \A h, p : Shows(h, p)' <=> Shows(h, p)
      BY <2>2 DEF Shows, vars
    <3>3. \A other \in Pending : other.kind = "verify" => other.by # attempt
      BY <2>2 DEF Ownership
    <3>4. \A other \in Pending : other.kind = "verify" => other.proxy # NewProxy
      BY <3>3, OwnProxy
    <3>5. (~unsealed => tgtChain[Len(tgtChain)] = proxyStorage)'
      BY <2>2, <3>1 DEF vars
    <3>. QED
      BY <2>2, <3>1, <3>2, <3>4, <3>5
  <2>3. ASSUME NEW tx \in Txs, Submit(tx), UNCHANGED vars, tx.kind = "verify",
               tx.proxy = NewProxy, tx.header = proxyHeader, pc = "verify", pc' = "waitVerify"
        PROVE  Quiet'
    <3>1. Pending' = Pending \cup {tx} /\ unsealed' = unsealed
      BY <2>3, PendingAfterSubmit DEF Submit
    <3>2. \A h, p : Shows(h, p)' <=> Shows(h, p)
      BY <2>3 DEF Shows, vars
    <3>3. Pending = {}
      BY <2>3 DEF Pending, AllMined
    <3>4. (~unsealed => tgtChain[Len(tgtChain)] = proxyStorage)'
      BY <2>3, <3>1 DEF vars
    <3>. QED
      BY <2>3, <3>1, <3>2, <3>3, <3>4
  <2>. QED
    BY <1>1, <2>1, <2>2, <2>3, SubmitCases DEF Ended
<1>2. CASE RpcFails \/ RunAgain
  <2>1. UNCHANGED vars /\ Pending' = Pending /\ unsealed' = unsealed
    BY <1>2 DEF RpcFails, Disturb, RunAgain, NextAttempt, Pending
  <2>2. (\A h, p : Shows(h, p)' <=> Shows(h, p)) /\ (~unsealed => tgtChain[Len(tgtChain)] = proxyStorage)'
    BY <2>1 DEF Shows, vars
  <2>3. pc' \notin {"proxyHeader", "proxyProof", "verify"}
    BY <1>2 DEF RpcFails, RunAgain, Goto
  <2>. QED
    BY <2>1, <2>2, <2>3
<1>3. CASE Execute
  <2>1. ExecuteTx /\ UNCHANGED forkVars
    BY <1>3 DEF Execute
  <2>2. /\ mempool # <<>> /\ unsealed' = TRUE /\ Pending' \subseteq Pending
    BY <2>1, PendingAfterExecute DEF ExecuteTx
  <2>3. pc' \notin {"proxyHeader", "proxyProof", "verify"}
    BY <2>1, <2>2 DEF AllMined, forkVars
  <2>4. ASSUME NEW tx \in Pending, tx.kind = "verify"
        PROVE  Shows(tx.header, tx.proxy)'
    <3>1. CASE UNCHANGED vars
      BY <2>4, <3>1, ShowsStep DEF vars
    <3>2. ASSUME NEW n \in SrcBlocks, AddBlock(n, n) PROVE Shows(tx.header, tx.proxy)'
      BY <2>4, <3>2, ShowsStep DEF AddBlock
    <3>3. ASSUME NEW other \in Pending, other.kind = "addStorage",
                 AddStorage(other.proxy, srcChain[other.block], other.slots)
          PROVE  Shows(tx.header, tx.proxy)'
      <4>1. other.proxy # tx.proxy
        BY <2>4, <3>3
      <4>2. proxyStorage'[tx.proxy] = proxyStorage[tx.proxy]
        BY <1>t, <3>3, <4>1 DEF AddStorage, TypeOK
      <4>. QED
        BY <2>4, <4>2, ShowsStep
    <3>4. ASSUME NEW other \in Pending,
                 VerifyMigrateContract(other.proxy, other.header, other.block, other.number)
          PROVE  Shows(tx.header, tx.proxy)'
      BY <2>4, <3>4, ShowsStep DEF VerifyMigrateContract
    <3>. QED
      BY <2>1, <3>1, <3>2, <3>3, <3>4, ExecuteCases
  <2>. QED
    BY <2>2, <2>3, <2>4
<1>4. CASE Seal \/ OthersBlock
  <2>1. /\ TargetBlock /\ UNCHANGED forkVars
        /\ Pending' = Pending /\ NewProxy' = NewProxy /\ mempool' = mempool
        /\ unsealed' = FALSE \/ unsealed' = unsealed
    BY <1>4 DEF Seal, SealBlock, OthersBlock, NoiseBlock, Disturb, Pending, NewProxy
  <2>2. \A h, p : Shows(h, p) => Shows(h, p)'
    BY <2>1, ShowsStep DEF TargetBlock
  <2>3. (tgtChain[Len(tgtChain)] = proxyStorage)'
    BY <1>t, <2>1 DEF TargetBlock, TypeOK
  <2>4. AllMined => AllMined'
    BY <2>1 DEF AllMined
  <2>. QED
    BY <2>1, <2>2, <2>3, <2>4 DEF forkVars, readVars
<1>5. CASE (SourceBlock \/ UNCHANGED vars) /\ UNCHANGED <<accountVars, forkVars>>
  <2>1. /\ Pending' = Pending /\ NewProxy' = NewProxy /\ (AllMined' <=> AllMined)
        /\ unsealed' = unsealed /\ pc' = pc /\ proxyHeader' = proxyHeader
    BY <1>5 DEF accountVars, forkVars, readVars, Pending, NewProxy, AllMined
  <2>2. tgtChain' = tgtChain /\ proxyStorage' = proxyStorage
    BY <1>5 DEF SourceBlock, vars
  <2>. QED
    BY <2>1, <2>2 DEF Shows
<1>. QED
  BY <1>1, <1>2, <1>3, <1>4, <1>5 DEF ForkNext, allVars

-----------------------------------------------------------------------------
(***************************************************************************)
(* The theorems.                                                           *)
(***************************************************************************)
\* Every step leaves the migrated proxies complete.
LEMMA CompleteStep == ForkInv /\ [ForkNext]_allVars => MigratedCopyIsComplete'
<1> SUFFICES ASSUME ForkInv, [ForkNext]_allVars, NEW p \in Proxies, Migrated(p)'
             PROVE  (proxyStorage[p] = srcChain[proxyStorageInfos[p].blockNumber])'
  BY DEF MigratedCopyIsComplete
<1>t. TypeOK /\ [Next]_vars /\ IInv'
  BY ContractsStep, FedIsAny, InvStep DEF ForkInv, IInv
<1>1. CASE UNCHANGED <<proxyStorage, proxyStorageInfos>>
  <2>1. Migrated(p) /\ proxyStorage[p] = srcChain[proxyStorageInfos[p].blockNumber]
    BY <1>1 DEF Migrated, ForkInv, MigratedCopyIsComplete
  <2>2. proxyStorageInfos[p].blockNumber \in 1..Len(srcChain)
    BY <2>1 DEF ForkInv, IInv, RecordedRootIsSourceRoot
  <2>. QED
    BY <1>1, <1>t, <2>1, <2>2, ChainsGrow
<1>2. ASSUME NEW q \in Proxies, NEW t, NEW ks, AddStorage(q, t, ks)
      PROVE  (proxyStorage[p] = srcChain[proxyStorageInfos[p].blockNumber])'
  <2>1. p # q /\ Migrated(p)
    BY <1>2 DEF AddStorage, Migrated
  <2>2. /\ proxyStorage'[p] = proxyStorage[p] /\ proxyStorageInfos' = proxyStorageInfos
        /\ srcChain' = srcChain
    BY <1>2, <1>t, <2>1 DEF AddStorage, TypeOK, chainVars
  <2>. QED
    BY <2>1, <2>2 DEF ForkInv, MigratedCopyIsComplete
<1>3. ASSUME NEW tx \in Pending, tx.kind = "verify",
             VerifyMigrateContract(tx.proxy, tx.header, tx.block, tx.number)
      PROVE  (proxyStorage[p] = srcChain[proxyStorageInfos[p].blockNumber])'
  <2>1. proxyStorage' = proxyStorage /\ srcChain' = srcChain
    BY <1>3 DEF VerifyMigrateContract, chainVars
  <2>2. CASE p = tx.proxy
    <3>1. proxyStorageInfos'[p].storageRoot = tgtChain[tx.header][p]
      BY <1>3, <1>t, <2>2 DEF VerifyMigrateContract, TypeOK
    <3>2. tgtChain[tx.header][p] = proxyStorage[p]
      BY <1>3, <2>2 DEF ForkInv, Quiet, Shows
    <3>3. (proxyStorageInfos[p].storageRoot = srcChain[proxyStorageInfos[p].blockNumber])'
      BY <1>t DEF IInv, RecordedRootIsSourceRoot
    <3>. QED
      BY <2>1, <3>1, <3>2, <3>3
  <2>3. CASE p # tx.proxy
    <3>1. proxyStorageInfos'[p] = proxyStorageInfos[p]
      BY <1>3, <1>t, <2>3 DEF VerifyMigrateContract, TypeOK
    <3>. QED
      BY <2>1, <3>1 DEF ForkInv, MigratedCopyIsComplete, Migrated
  <2>. QED
    BY <2>2, <2>3
<1>4. CASE Execute
  <2>1. ASSUME NEW tx \in Txs, tx.kind = "addStorage" PROVE tx.proxy \in Proxies
    BY <2>1, ConstantsAssumption DEF Txs, ConstantsAssumption
  <2>2. CASE \E n \in SrcBlocks : AddBlock(n, n)
    BY <1>1, <2>2 DEF AddBlock
  <2>3. CASE UNCHANGED vars
    BY <1>1, <2>3 DEF vars
  <2>4. mempool \in Seq(Txs) /\ ExecuteTx
    BY <1>4 DEF Execute, ForkInv
  <2>. QED
    BY <1>2, <1>3, <2>1, <2>2, <2>3, <2>4, ExecuteCases
<1>5. CASE Operator
  BY <1>1, <1>5, SubmitCases DEF vars
<1>6. CASE RpcFails \/ RunAgain
  BY <1>1, <1>6 DEF RpcFails, RunAgain, vars
<1>7. CASE Seal \/ OthersBlock
  BY <1>1, <1>7 DEF Seal, SealBlock, OthersBlock, NoiseBlock, TargetBlock
<1>8. CASE SourceBlock \/ UNCHANGED allVars
  BY <1>1, <1>8 DEF SourceBlock, allVars, vars
<1>. QED
  BY <1>4, <1>5, <1>6, <1>7, <1>8 DEF ForkNext

\* The invariant holds when the first process starts.
LEMMA ForkInvInit == ForkInit => ForkInv
<1> SUFFICES ASSUME ForkInit PROVE ForkInv
  OBVIOUS
<1>1. IInv /\ TypeOK
  BY InvInit DEF ForkInit, IInv
<1>2. mempool = <<>> /\ Pending = {} /\ mempool \in Seq(Txs)
  BY DEF ForkInit, AccountInit, Pending
<1>3. Len(srcChain) = 1 /\ Len(tgtChain) = 1 /\ tgtChain[1] = proxyStorage
  BY DEF ForkInit, Init
<1>4. ForkTypeOK
  <2>1. attempt = 1 /\ 1 \in 1..MaxAttempts /\ unsealed = FALSE
    BY AccountAssumption DEF ForkInit, AccountInit, AccountAssumption
  <2>2. deployment \in [Proxies -> {"none", "executed", "mined"}]
    BY DEF ForkInit, AccountInit
  <2>3. reverted = {} /\ disturbances = 0 /\ 0 \in 0..MaxDisturbances
    BY AccountAssumption DEF ForkInit, AccountInit, AccountAssumption
  <2>4. \A i \in DOMAIN mempool : mempool[i].by \in 1..attempt
    BY <1>2
  <2>5. unsealed \in BOOLEAN
    BY <2>1
  <2>6. AccountTypeOK
    BY <1>1, <2>1, <2>2, <2>3, <2>4, <2>5 DEF AccountTypeOK
  <2>. QED
    BY <1>3, <2>6 DEF ForkInit, ForkTypeOK
<1>5. ReadsDone /\ Ownership /\ Quiet
  BY <1>2, <1>3 DEF ForkInit, ReadsDone, Ownership, Quiet, Ended
<1>6. MigratedCopyIsComplete
  BY DEF ForkInit, Init, MigratedCopyIsComplete, Migrated
<1>. QED
  BY <1>1, <1>2, <1>4, <1>5, <1>6 DEF ForkInv

\* Every step preserves the invariant.
LEMMA ForkInvStep == ForkInv /\ [ForkNext]_allVars => ForkInv'
<1>1. ForkInv /\ [ForkNext]_allVars => IInv'
  BY ContractsStep, InvStep DEF ForkInv, IInv
<1>. QED
  BY <1>1, AccountTypeStep, ReadsStep, OwnershipStep, QuietStep, CompleteStep DEF ForkInv

\* A process submits only slots it was given and blocks it has read, and the
\* transactions under way are those of the processes so far.
THEOREM ForkTypeCorrect == ForkSpec => []ForkTypeOK
<1>1. ForkInv => ForkTypeOK
  BY DEF ForkInv
<1>. QED
  BY <1>1, ForkInvInit, ForkInvStep, PTL DEF ForkSpec

\* However the two chains go on, whichever calls fail, and whatever the processes
\* before have left half done: a proxy the relay records as migrated holds the source
\* contract's storage in the recorded block.
THEOREM MigrationComplete == ForkSpec => []MigratedCopyIsComplete
<1>1. ForkInv => MigratedCopyIsComplete
  BY DEF ForkInv
<1>. QED
  BY <1>1, ForkInvInit, ForkInvStep, PTL DEF ForkSpec

\* Whatever a process of the fork does, the two contracts take a step of their own, and
\* addBlock gets the right root: the fork and its faults are one of the environments in
\* which the contracts keep their promises.
THEOREM ForkImplementsContracts == ForkSpec => FedSpec
<1>1. ForkInit => Init
  BY DEF ForkInit
<1>2. ForkInv /\ [ForkNext]_allVars => [FedNext]_vars
  BY ContractsStep DEF ForkInv, IInv
<1>. QED
  BY <1>1, <1>2, ForkInvInit, ForkInvStep, PTL DEF ForkSpec, FedSpec

=============================================================================
