-------------------------- MODULE DemoClient_proofs --------------------------
(***************************************************************************)
(* Why the client of the demo, which waits for no receipt of a batch,      *)
(* records only complete copies if it sleeps long enough: for every number *)
(* of processes, methods, slots and blocks.                                *)
(***************************************************************************)
EXTENDS DemoClient, RelayProxy_proofs, SequenceTheorems

Calls ==
  {"read", "addBlock", "deploy", "addStorage", "wait", "header", "verify", "receipt", "state",
   "update"}

\* What the methods have in common: a batch is followed by a sleep, and a
\* verification comes right after the header it is for.
Ordered(calls) ==
  \A i \in 1..Len(calls) :
    /\ calls[i] = "addStorage" => i < Len(calls) /\ calls[i + 1] = "wait"
    /\ calls[i] = "verify" => i = 1 \/ calls[i - 1] = "header"

Batches ==
  [kind : {"addStorage"}, by : 1..MaxAttempts, proxy : Proxies \cup {NoProxy}, block : Nat,
   slots : SlotSets]

\* What a process sends.  A verification names the block of its proof.
Txs ==
  [kind : {"addBlock"}, by : 1..MaxAttempts, number : Nat]
  \cup [kind : {"deploy"}, by : 1..MaxAttempts, proxies : SUBSET Proxies]
  \cup Batches
  \cup {tx \in [kind : {"verify"}, by : 1..MaxAttempts, proxy : Proxies \cup {NoProxy}, header : Nat,
                proxyProof : Nat, block : Nat, number : Nat] : tx.block = tx.number}
  \cup [kind : {"update"}, by : 1..MaxAttempts, proxy : Proxies \cup {NoProxy}]

DemoTypes ==
  /\ attempt \in 1..MaxAttempts
  /\ todo \in Seq(Calls) /\ Ordered(todo)
  /\ latestBlock \in Nat /\ latestProxyChainBlock \in Nat /\ proxyChainProof \in Nat
  /\ proxyContract \in Proxies \cup {NoProxy}
  /\ mempool \in Seq(Txs)
  /\ storageAdds \in Seq(Batches)

\* Target block h shows the storage of proxy p as it is.
Shows(h, p) == h \in 1..Len(tgtChain) /\ tgtChain[h][p] = proxyStorage[p]

Sealed == tgtChain[Len(tgtChain)] = proxyStorage

NoBatchSent == \A i \in DOMAIN mempool : mempool[i].kind # "addStorage"

\* A batch is under way only while the client sleeps.
Asleep == storageAdds # <<>> => Does("wait") /\ Len(storageAdds) = 1
Settled == storageAdds # <<>> \/ ~Does("wait") => NoBatchSent /\ Sealed

\* A verification is executed before the batches behind it, and is of a block that
\* shows the proxy as it is.
InOrder ==
  \A i, j \in DOMAIN mempool :
    mempool[i].kind = "addStorage" /\ mempool[j].kind = "verify" => j < i
ShownAsIs ==
  /\ \A i \in DOMAIN mempool :
       mempool[i].kind = "verify" => Shows(mempool[i].header, mempool[i].proxy)
  /\ Does("verify") => Shows(latestProxyChainBlock, proxyContract)

\* What a client that sleeps long enough keeps true.
Patience == Asleep /\ Settled /\ InOrder /\ ShownAsIs /\ MigratedCopyIsComplete

\* The inductive invariant.
DemoInv ==
  /\ IInv
  /\ DemoTypes
  /\ ~unsealed => Sealed
  /\ patient => Patience

-----------------------------------------------------------------------------
(***************************************************************************)
(* The calls of a method.                                                  *)
(***************************************************************************)
\* What is left of a method after a call of it.
LEMMA TailOrdered ==
  ASSUME NEW calls \in Seq(Calls), calls # <<>>, Ordered(calls)
  PROVE  /\ Tail(calls) \in Seq(Calls) /\ Ordered(Tail(calls))
         /\ Head(calls) = "addStorage" => Tail(calls) # <<>> /\ Head(Tail(calls)) = "wait"
         /\ Tail(calls) # <<>> /\ Head(Tail(calls)) = "verify" => Head(calls) = "header"
<1> DEFINE rest == Tail(calls)
<1>1. /\ Len(calls) \in Nat \ {0} /\ rest \in Seq(Calls) /\ Len(rest) = Len(calls) - 1
      /\ Head(calls) = calls[1]
      /\ \A i \in 1..Len(rest) : rest[i] = calls[i + 1]
      /\ rest # <<>> => Len(calls) >= 2 /\ Head(rest) = calls[2]
      /\ Len(calls) >= 2 => rest # <<>>
  OBVIOUS
<1> HIDE DEF rest
<1>2. ASSUME NEW i \in 1..Len(rest)
      PROVE  /\ rest[i] = "addStorage" => i < Len(rest) /\ rest[i + 1] = "wait"
             /\ rest[i] = "verify" => i = 1 \/ rest[i - 1] = "header"
  <2>1. i + 1 \in 1..Len(calls) /\ rest[i] = calls[i + 1]
    BY <1>1
  <2>2. CASE rest[i] = "addStorage"
    <3>1. i + 1 < Len(calls) /\ calls[(i + 1) + 1] = "wait"
      BY <2>1, <2>2 DEF Ordered
    <3>2. i + 1 \in 1..Len(rest)
      BY <1>1, <3>1
    <3>. QED
      BY <1>1, <2>2, <3>1, <3>2
  <2>3. CASE rest[i] = "verify" /\ i # 1
    <3>1. calls[(i + 1) - 1] = "header"
      <4>1. calls[i + 1] = "verify" /\ i + 1 # 1
        BY <1>1, <2>1, <2>3
      <4>. QED
        BY <2>1, <4>1 DEF Ordered
    <3>2. i - 1 \in 1..Len(rest) /\ (i - 1) + 1 = (i + 1) - 1
      BY <1>1, <2>3
    <3>. QED
      BY <1>1, <2>3, <3>1, <3>2
  <2>. QED
    BY <2>2, <2>3
<1>3. Head(calls) = "addStorage" => rest # <<>> /\ Head(rest) = "wait"
  <2> SUFFICES ASSUME Head(calls) = "addStorage" PROVE rest # <<>> /\ Head(rest) = "wait"
    OBVIOUS
  <2>1. 1 \in 1..Len(calls) /\ calls[1] = "addStorage"
    BY <1>1
  <2>2. 1 < Len(calls) /\ calls[1 + 1] = "wait"
    BY <2>1 DEF Ordered
  <2>. QED
    BY <1>1, <2>2
<1>4. rest # <<>> /\ Head(rest) = "verify" => Head(calls) = "header"
  <2> SUFFICES ASSUME rest # <<>>, Head(rest) = "verify" PROVE Head(calls) = "header"
    OBVIOUS
  <2>1. 2 \in 1..Len(calls) /\ calls[2] = "verify"
    BY <1>1
  <2>2. calls[2 - 1] = "header"
    BY <2>1 DEF Ordered
  <2>. QED
    BY <1>1, <2>2
<1>. QED
  BY <1>1, <1>2, <1>3, <1>4 DEF Ordered, rest

\* The methods begin with neither a sleep nor a verification.
Methods ==
  {InitializeProxyContract, InitiateMigrationWithDeployedProxy, DendrethSetAAndMigrateRaw,
   DendrethVerifyMigration, MigrateChangesToProxy}

LEMMA MethodsOrdered ==
  ASSUME NEW method \in Methods
  PROVE  /\ method \in Seq(Calls) /\ Ordered(method)
         /\ method # <<>> /\ Head(method) \in {"read", "addBlock"}
<1>1. CASE method = InitializeProxyContract
  BY <1>1 DEF InitializeProxyContract, Calls, Ordered
<1>2. CASE method = InitiateMigrationWithDeployedProxy
  BY <1>2 DEF InitiateMigrationWithDeployedProxy, Calls, Ordered
<1>3. CASE method = DendrethSetAAndMigrateRaw
  BY <1>3 DEF DendrethSetAAndMigrateRaw, Calls, Ordered
<1>4. CASE method = DendrethVerifyMigration
  BY <1>4 DEF DendrethVerifyMigration, Calls, Ordered
<1>5. CASE method = MigrateChangesToProxy
  BY <1>5 DEF MigrateChangesToProxy, Calls, Ordered
<1>. QED
  BY <1>1, <1>2, <1>3, <1>4, <1>5 DEF Methods

-----------------------------------------------------------------------------
(***************************************************************************)
(* The contracts and the types.                                            *)
(***************************************************************************)
\* A step of the client's model is a step of the contracts, and what it adds to the
\* relay are right roots.
LEMMA ContractsStep == DemoInv /\ [DemoNext]_demoAllVars => [FedNext]_vars
<1> SUFFICES ASSUME DemoInv, [DemoNext]_demoAllVars PROVE [FedNext]_vars
  OBVIOUS
<1>t. TypeOK
  BY DEF DemoInv, IInv
<1>1. CASE ExecuteTx
  <2> DEFINE tx == Head(mempool)
  <2>1. tx \in Txs
    BY <1>1 DEF ExecuteTx, DemoInv, DemoTypes
  <2>2. CASE Succeeds(tx) /\ Effect(tx)
    <3>0. 1..Len(srcChain) \subseteq SrcBlocks /\ 1..Len(tgtChain) \subseteq 1..MaxTgtBlock
      BY <1>t, ConstantsAssumption DEF TypeOK, SrcBlocks, ConstantsAssumption
    <3>1. CASE tx.kind = "addBlock" /\ tx.number \in 1..Len(srcChain) /\ AddBlock(tx.number, tx.number)
      BY <3>0, <3>1 DEF FedNext
    <3>2. CASE UNCHANGED vars
      BY <3>2
    <3>3. CASE /\ tx.kind = "addStorage" /\ tx.block \in 1..Len(srcChain)
               /\ AddStorage(tx.proxy, srcChain[tx.block], tx.slots)
      <4>1. tx.slots \in SlotSets
        BY <2>1, <3>3 DEF Txs, Batches
      <4>2. tx.proxy \in Proxies /\ srcChain[tx.block] \in Storage
        BY <1>t, <3>3, ConstantsAssumption DEF AddStorage, ConstantsAssumption, TypeOK
      <4>. QED
        BY <3>3, <4>1, <4>2 DEF FedNext, OtherSteps
    <3>4. CASE tx.kind = "verify" /\ VerifyMigrateContract(tx.proxy, tx.header, tx.block, tx.number)
      <4>1. tx.block = tx.number
        BY <2>1, <3>4 DEF Txs, Batches
      <4>2. tx.block \in SrcBlocks \cup {OtherRoot}
        BY <3>0, <3>4 DEF VerifyMigrateContract, MigrationVerified, AccountProofs
      <4>3. /\ tx.proxy \in Proxies /\ tx.block \in Roots /\ tx.number \in Numbers
            /\ tx.header \in 1..MaxTgtBlock
        BY <3>0, <3>4, <4>1, <4>2, RootsAndNumbers, ConstantsAssumption
           DEF VerifyMigrateContract, MigrationVerified, BlockHashKnown, ConstantsAssumption,
               Roots, Numbers
      <4>. QED
        BY <3>4, <4>3 DEF FedNext, OtherSteps
    <3>. QED
      BY <2>2, <3>1, <3>2, <3>3, <3>4 DEF Effect
  <2>3. CASE UNCHANGED vars
    BY <2>3
  <2>. QED
    BY <1>1, <2>2, <2>3 DEF ExecuteTx
<1>2. CASE TargetBlock \/ SourceBlock
  BY <1>2 DEF FedNext, OtherSteps
<1>3. CASE UNCHANGED vars
  BY <1>3
<1>. QED
  BY <1>1, <1>2, <1>3 DEF DemoNext, demoAllVars, Target, SealBlock, NoiseBlock, CallInitialize,
     CallOnDeployed, CallVerify, CallMigrateChanges, Call, Method, ReadSource, SendAddBlock,
     SendDeployment, CallAddStorage, Sleep, ReadProxyChain, SendVerify, AwaitReceipt,
     GetMigrationState, SendUpdate, SendStorageAdd, CallFails, StorageAddFails, NewProcess

\* The steps of the client and its processes.
ClientStep ==
  \/ CallInitialize
  \/ \E p \in Wired :
        \/ CallOnDeployed(p)
        \/ \E n \in SrcBlocks : CallVerify(p, n)
        \/ \E isDeployed \in BOOLEAN : CallMigrateChanges(isDeployed, p)
  \/ Method \/ CallFails \/ StorageAddFails \/ NewProcess

\* They change nothing of the chains.
LEMMA ClientLeaves == ClientStep => UNCHANGED <<vars, unsealed, patient>>
BY DEF ClientStep, CallInitialize, CallOnDeployed, CallVerify, CallMigrateChanges, Call, Method,
   ReadSource, SendAddBlock, SendDeployment, CallAddStorage, Sleep, ReadProxyChain, SendVerify,
   AwaitReceipt, GetMigrationState, SendUpdate, SendStorageAdd, CallFails, StorageAddFails,
   NewProcess, NextAttempt, Submit, Disturb, Continue, Return, accountVars, methodVars

\* After a block everything executed is sealed.
LEMMA SealedStep == DemoInv /\ [DemoNext]_demoAllVars => (~unsealed => Sealed)'
<1> SUFFICES ASSUME DemoInv, [DemoNext]_demoAllVars PROVE (~unsealed => Sealed)'
  OBVIOUS
<1>t. TypeOK
  BY DEF DemoInv, IInv
<1>1. CASE ExecuteTx
  BY <1>1 DEF ExecuteTx
<1>2. CASE TargetBlock
  <2>1. tgtChain' = Append(tgtChain, proxyStorage) /\ proxyStorage' = proxyStorage
    BY <1>2 DEF TargetBlock
  <2>2. Len(tgtChain') = Len(tgtChain) + 1 /\ tgtChain'[Len(tgtChain) + 1] = proxyStorage
    BY <1>t, <2>1 DEF TypeOK
  <2>. QED
    BY <2>1, <2>2 DEF Sealed
<1>3. CASE UNCHANGED <<tgtChain, proxyStorage, unsealed>>
  BY <1>3 DEF DemoInv, Sealed
<1>. QED
  BY <1>1, <1>2, <1>3, ClientLeaves DEF DemoNext, ClientStep, demoAllVars, accountVars, vars, Target,
     SealBlock, NoiseBlock, SourceBlock

\* Sending a transaction.
LEMMA AfterSubmit ==
  ASSUME mempool \in Seq(Txs), NEW tx \in Txs, Submit(tx)
  PROVE  /\ mempool' \in Seq(Txs)
         /\ DOMAIN mempool' = DOMAIN mempool \cup {Len(mempool) + 1}
         /\ DOMAIN mempool = 1..Len(mempool) /\ Len(mempool) \in Nat
         /\ mempool'[Len(mempool) + 1] = tx
         /\ \A i \in DOMAIN mempool : mempool'[i] = mempool[i]
<1>1. mempool' = Append(mempool, tx)
  BY DEF Submit
<1>. QED
  BY <1>1

\* What the client sends is a transaction.
LEMMA SentTxs ==
  ASSUME DemoTypes
  PROVE  /\ AddBlockTx(latestBlock) \in Txs /\ AddBlockTx(latestBlock).kind = "addBlock"
         /\ DeployTx({NewProxy}) \in Txs /\ DeployTx({NewProxy}).kind = "deploy"
         /\ AddStorageTx(proxyContract, latestBlock, KeyList) \in Batches
         /\ VerifyTx(proxyContract, latestProxyChainBlock, proxyChainProof, latestBlock, latestBlock)
              \in Txs
         /\ UpdateTx(proxyContract) \in Txs /\ UpdateTx(proxyContract).kind = "update"
<1>1. NewProxy \in Proxies
  BY AccountAssumption, ConstantsAssumption DEF AccountAssumption, ConstantsAssumption, DemoTypes, NewProxy
<1>2. KeyList \in SlotSets
  BY DemoAssumption DEF DemoAssumption, SlotSets
<1>3. AddBlockTx(latestBlock) \in Txs /\ AddBlockTx(latestBlock).kind = "addBlock"
  BY DEF DemoTypes, Txs, AddBlockTx
<1>4. DeployTx({NewProxy}) \in Txs /\ DeployTx({NewProxy}).kind = "deploy"
  BY <1>1 DEF DemoTypes, Txs, DeployTx
<1>5. AddStorageTx(proxyContract, latestBlock, KeyList) \in Batches
  BY <1>2 DEF DemoTypes, Batches, AddStorageTx
<1>6. VerifyTx(proxyContract, latestProxyChainBlock, proxyChainProof, latestBlock, latestBlock) \in Txs
  BY DEF DemoTypes, Txs, VerifyTx
<1>7. UpdateTx(proxyContract) \in Txs /\ UpdateTx(proxyContract).kind = "update"
  BY DEF DemoTypes, Txs, UpdateTx
<1>. QED
  BY <1>3, <1>4, <1>5, <1>6, <1>7

\* The client's step leaves a rest of a method, sends transactions, and reads numbers.
LEMMA TypesStep == DemoInv /\ [DemoNext]_demoAllVars => DemoTypes'
<1> SUFFICES ASSUME DemoInv, [DemoNext]_demoAllVars PROVE DemoTypes'
  OBVIOUS
<1>t. TypeOK /\ DemoTypes
  BY DEF DemoInv, IInv
<1>p. AccountAssumption /\ ConstantsAssumption
  BY AccountAssumption, ConstantsAssumption, Zenon
<1>1. CASE ExecuteTx /\ UNCHANGED demoVars
  <2>1. mempool' \in Seq(Txs)
    BY <1>1, <1>t DEF ExecuteTx, DemoTypes
  <2>. QED
    BY <1>1, <1>t, <2>1 DEF ExecuteTx, demoVars, readBlocks, clientVars, DemoTypes
<1>2. CASE UNCHANGED <<attempt, mempool, demoVars>>
  BY <1>2, <1>t DEF demoVars, readBlocks, clientVars, DemoTypes
<1>3. CASE CallInitialize \/ \E p \in Wired :
             \/ CallOnDeployed(p)
             \/ \E n \in SrcBlocks : CallVerify(p, n)
             \/ \E isDeployed \in BOOLEAN : CallMigrateChanges(isDeployed, p)
  <2>1. PICK method \in Methods : Call(method)
    BY <1>3 DEF CallInitialize, CallOnDeployed, CallVerify, CallMigrateChanges, Methods
  <2>2. todo' \in Seq(Calls) /\ Ordered(todo')
    BY <2>1, MethodsOrdered DEF Call
  <2>3. latestBlock' \in Nat /\ proxyContract' \in Proxies \cup {NoProxy}
    BY <1>3, <1>p, <1>t DEF CallInitialize, CallOnDeployed, CallVerify, CallMigrateChanges, DemoTypes,
       SrcBlocks, ConstantsAssumption
  <2>. QED
    BY <1>t, <2>1, <2>2, <2>3 DEF Call, DemoTypes
<1>4. CASE Method
  <2>1. todo' \in Seq(Calls) /\ Ordered(todo')
    <3>1. CASE todo # <<>> /\ Continue
      BY <1>t, <3>1, TailOrdered DEF Continue, DemoTypes
    <3>2. CASE todo' = <<>>
      BY <3>2 DEF Ordered
    <3>3. CASE todo' = todo
      BY <1>t, <3>3 DEF DemoTypes
    <3>. QED
      BY <1>4, <3>1, <3>2, <3>3 DEF Method, ReadSource, SendAddBlock, SendDeployment, CallAddStorage, Sleep,
         ReadProxyChain, SendVerify, AwaitReceipt, GetMigrationState, SendUpdate, SendStorageAdd,
         Does, Return, Throw
  <2>2. latestBlock' \in Nat /\ latestProxyChainBlock' \in Nat /\ proxyChainProof' \in Nat
    <3>1. Len(srcChain) \in Nat /\ Len(tgtChain) \in Nat /\ LatestProof(proxyContract) \in Nat
      BY <1>t DEF TypeOK, LatestProof
    <3>2. CASE UNCHANGED readBlocks
      BY <1>t, <3>2 DEF readBlocks, DemoTypes
    <3>3. CASE latestBlock' = 0 /\ latestProxyChainBlock' = 0 /\ proxyChainProof' = 0
      BY <3>3
    <3>4. CASE ReadSource \/ ReadProxyChain
      BY <1>t, <3>1, <3>4 DEF ReadSource, ReadProxyChain, DemoTypes
    <3>. QED
      BY <1>4, <3>2, <3>3, <3>4 DEF Method, SendAddBlock, SendDeployment, CallAddStorage, Sleep,
         SendVerify, AwaitReceipt, GetMigrationState, SendUpdate, SendStorageAdd, Return, Throw
  <2>3. proxyContract' \in Proxies \cup {NoProxy}
    <3>1. NewProxy \in Proxies
      BY <1>p, <1>t DEF AccountAssumption, ConstantsAssumption, DemoTypes, NewProxy
    <3>. QED
      BY <1>4, <1>t, <3>1 DEF Method, ReadSource, SendAddBlock, SendDeployment, CallAddStorage, Sleep,
         ReadProxyChain, SendVerify, AwaitReceipt, GetMigrationState, SendUpdate, SendStorageAdd,
         clientVars, DemoTypes
  <2>4. mempool' \in Seq(Txs) /\ attempt' = attempt
    <3>1. CASE UNCHANGED <<mempool, attempt>>
      BY <1>t, <3>1 DEF DemoTypes
    <3>2. CASE \E tx \in Txs : Submit(tx)
      BY <1>t, <3>2, AfterSubmit DEF DemoTypes, Submit
    <3>3. CASE SendStorageAdd
      <4>1. Head(storageAdds) \in Txs
        BY <1>t, <3>3 DEF SendStorageAdd, DemoTypes, Txs
      <4>. QED
        BY <3>2, <3>3, <4>1 DEF SendStorageAdd
    <3>. QED
      BY <1>4, <1>t, <3>1, <3>2, <3>3, SentTxs DEF Method, ReadSource, SendAddBlock, SendDeployment,
         CallAddStorage, Sleep, ReadProxyChain, SendVerify, AwaitReceipt, GetMigrationState, SendUpdate,
         accountVars
  <2>5. storageAdds' \in Seq(Batches)
    <3>1. CASE storageAdds' = storageAdds
      BY <1>t, <3>1 DEF DemoTypes
    <3>2. CASE CallAddStorage
      BY <1>t, <3>2, SentTxs DEF CallAddStorage, DemoTypes
    <3>3. CASE SendStorageAdd
      BY <1>t, <3>3 DEF SendStorageAdd, DemoTypes
    <3>. QED
      BY <1>4, <3>1, <3>2, <3>3 DEF Method, ReadSource, SendAddBlock, SendDeployment, Sleep,
         ReadProxyChain, SendVerify, AwaitReceipt, GetMigrationState, SendUpdate
  <2>. QED
    BY <1>t, <2>1, <2>2, <2>3, <2>4, <2>5 DEF DemoTypes
<1>5. CASE CallFails \/ StorageAddFails \/ NewProcess
  <2>1. /\ todo' = <<>> /\ latestBlock' = 0 /\ latestProxyChainBlock' = 0 /\ proxyChainProof' = 0
        /\ mempool' = mempool /\ storageAdds' \in {storageAdds, <<>>}
        /\ proxyContract' \in {proxyContract, NoProxy}
        /\ \/ attempt' = attempt
           \/ attempt < MaxAttempts /\ attempt' = attempt + 1
    BY <1>5 DEF CallFails, StorageAddFails, NewProcess, NextAttempt, Disturb, Throw, Return, clientVars
  <2>2. todo' \in Seq(Calls) /\ Ordered(todo')
    BY <2>1 DEF Ordered
  <2>3. attempt' \in 1..MaxAttempts
    BY <1>p, <1>t, <2>1 DEF DemoTypes, AccountAssumption
  <2>4. storageAdds' \in Seq(Batches)
    <3>1. <<>> \in Seq(Batches)
      OBVIOUS
    <3>. QED
      BY <1>t, <2>1, <3>1 DEF DemoTypes
  <2>. QED
    BY <1>t, <2>1, <2>2, <2>3, <2>4 DEF DemoTypes
<1>. QED
  BY <1>1, <1>2, <1>3, <1>4, <1>5 DEF DemoNext, demoAllVars, accountVars, Target, SealBlock,
     NoiseBlock, Disturb

-----------------------------------------------------------------------------
(***************************************************************************)
(* Patience.                                                               *)
(***************************************************************************)
\* While the client does not sleep no batch is under way.
LEMMA AwakeStep ==
  ASSUME Patience, ~Does("wait"), UNCHANGED <<vars, storageAdds>>, NoBatchSent', ShownAsIs'
  PROVE  Patience'
<1>1. storageAdds = <<>> /\ Sealed
  BY DEF Patience, Asleep, Settled
<1>2. Sealed' /\ MigratedCopyIsComplete'
  BY <1>1 DEF Patience, Sealed, MigratedCopyIsComplete, Migrated, vars
<1>. QED
  BY <1>1, <1>2 DEF Patience, Asleep, Settled, InOrder, NoBatchSent

\* The head of the mempool is executed.
LEMMA ExecuteKeeps ==
  ASSUME DemoInv, Patience, ExecuteTx, UNCHANGED demoVars
  PROVE  Patience'
<1> DEFINE tx == Head(mempool)
<1>t. TypeOK /\ mempool \in Seq(Txs) /\ mempool # <<>> /\ tx \in Txs
  BY DEF ExecuteTx, DemoInv, DemoTypes, IInv
<1>s. /\ 1 \in DOMAIN mempool /\ mempool[1] = tx
      /\ \A i \in DOMAIN mempool' : /\ i \in Nat \ {0} /\ i + 1 \in DOMAIN mempool
                                    /\ mempool'[i] = mempool[i + 1]
  BY <1>t DEF ExecuteTx
<1>u. UNCHANGED <<todo, storageAdds, latestProxyChainBlock, proxyContract>>
  BY DEF demoVars, readBlocks, clientVars
<1>1. Asleep'
  BY <1>u DEF Patience, Asleep, Does
<1>2. InOrder'
  <2>1. ASSUME NEW i \in DOMAIN mempool', NEW j \in DOMAIN mempool',
               mempool'[i].kind = "addStorage", mempool'[j].kind = "verify"
        PROVE  j < i
    <3>1. j + 1 < i + 1
      BY <1>s, <2>1 DEF Patience, InOrder
    <3>. QED
      BY <1>s, <3>1
  <2>. QED
    BY <2>1 DEF InOrder
<1>3. CASE tx.kind = "addStorage"
  <2>1. \A j \in DOMAIN mempool : mempool[j].kind # "verify"
    <3>1. SUFFICES ASSUME NEW j \in DOMAIN mempool, mempool[j].kind = "verify" PROVE FALSE
      OBVIOUS
    <3>2. j < 1 /\ j \in Nat \ {0}
      BY <1>3, <1>s, <1>t, <3>1 DEF Patience, InOrder
    <3>. QED
      BY <3>2
  <2>2. ~NoBatchSent
    BY <1>3, <1>s DEF NoBatchSent
  <2>3. storageAdds = <<>> /\ Does("wait")
    BY <2>2 DEF Patience, Settled
  <2>4. Does("wait")' /\ ~Does("verify")' /\ storageAdds' = <<>>
    BY <1>u, <2>3 DEF Does
  <2>5. ShownAsIs'
    BY <1>s, <2>1, <2>4 DEF ShownAsIs
  <2>6. MigratedCopyIsComplete'
    <3>1. CASE AddStorage(tx.proxy, srcChain[tx.block], tx.slots)
      BY <1>t, <3>1 DEF AddStorage, TypeOK, Patience, MigratedCopyIsComplete, Migrated, chainVars, rootVars
    <3>2. CASE UNCHANGED vars
      BY <3>2 DEF vars, Patience, MigratedCopyIsComplete, Migrated
    <3>. QED
      BY <1>3, <3>1, <3>2 DEF ExecuteTx, Effect
  <2>. QED
    BY <1>1, <1>2, <2>4, <2>5, <2>6 DEF Patience, Settled
<1>4. CASE tx.kind # "addStorage"
  <2>1. UNCHANGED <<tgtChain, srcChain, proxyStorage>>
    BY <1>4 DEF ExecuteTx, Effect, AddBlock, VerifyMigrateContract, MigrationVerified, vars, chainVars
  <2>2. ShownAsIs'
    BY <1>s, <1>u, <2>1 DEF Patience, ShownAsIs, Shows, Does
  <2>3. Settled'
    BY <1>s, <1>u, <2>1 DEF Patience, Settled, NoBatchSent, Sealed, Does
  <2>4. MigratedCopyIsComplete'
    <3>1. CASE UNCHANGED proxyStorageInfos
      BY <2>1, <3>1 DEF Patience, MigratedCopyIsComplete, Migrated
    <3>2. CASE tx.kind = "verify" /\ VerifyMigrateContract(tx.proxy, tx.header, tx.block, tx.number)
      <4>1. tx.block = tx.number
        BY <1>t, <3>2 DEF Txs, Batches
      <4>2. tgtChain[tx.header][tx.proxy] = proxyStorage[tx.proxy]
        BY <1>s, <3>2 DEF Patience, ShownAsIs, Shows
      <4>3. /\ srcChain[tx.block] = tgtChain[tx.header][tx.proxy]
            /\ proxyStorageInfos' = [proxyStorageInfos EXCEPT ![tx.proxy] =
                 [storageRoot |-> tgtChain[tx.header][tx.proxy], migrationState |-> TRUE,
                  blockNumber |-> tx.number]]
        <5>1. /\ tx.number \in Numbers /\ srcContractStateRoots[tx.number] = tx.block
              /\ tx.block \in AccountProofs /\ tgtChain[tx.header][tx.proxy] \in ShownBy(tx.block)
          <6>1. tx.block \in AccountProofs /\ srcContractStateRoots[tx.number] = tx.block
            BY <3>2 DEF VerifyMigrateContract, MigrationVerified, VerifyProof
          <6>2. tx.block \in SrcBlocks \cup {OtherRoot}
            BY <1>t, <6>1, ChainBlocks DEF AccountProofs
          <6>3. OtherRoot \in Numbers
            BY ConstantsAssumption DEF ConstantsAssumption, OtherRoot, Numbers
          <6>. QED
            BY <3>2, <4>1, <6>1, <6>2, <6>3, RootsAndNumbers
               DEF VerifyMigrateContract, MigrationVerified
        <5>2. tx.block # NoBlock
          BY <5>1, RootsAndNumbers DEF AccountProofs, NoBlock
        <5>3. tx.block = tx.number /\ tx.block <= Len(srcChain)
          BY <4>1, <5>1, <5>2 DEF DemoInv, IInv, StateRootIsOfItsBlock
        <5>4. tx.block \in 1..Len(srcChain)
          BY <1>t, <5>1, <5>2, <5>3 DEF Numbers, NoBlock, TypeOK
        <5>5. ShownBy(tx.block) = {srcChain[tx.block]}
          BY <1>t, <5>4, RootsAndNumbers, ChainBlocks DEF ShownBy
        <5>. QED
          BY <3>2, <5>1, <5>5 DEF VerifyMigrateContract
      <4>4. ASSUME NEW p \in Proxies, Migrated(p)'
            PROVE  proxyStorage[p] = srcChain[proxyStorageInfos'[p].blockNumber]
        <5>1. CASE p = tx.proxy
          BY <1>t, <4>1, <4>2, <4>3, <5>1 DEF TypeOK
        <5>2. CASE p # tx.proxy
          <6>1. proxyStorageInfos'[p] = proxyStorageInfos[p]
            BY <1>t, <4>3, <5>2 DEF TypeOK
          <6>. QED
            BY <4>4, <6>1 DEF Patience, MigratedCopyIsComplete, Migrated
        <5>. QED
          BY <5>1, <5>2
      <4>. QED
        BY <2>1, <4>4 DEF MigratedCopyIsComplete
    <3>. QED
      BY <1>4, <3>1, <3>2 DEF ExecuteTx, Effect, AddBlock, vars
  <2>. QED
    BY <1>1, <1>2, <2>2, <2>3, <2>4 DEF Patience
<1>. QED
  BY <1>3, <1>4

\* A block of either chain shows what was there and what is there.
LEMMA BlockKeeps ==
  ASSUME DemoInv, Patience, TargetBlock \/ SourceBlock, UNCHANGED <<mempool, demoVars>>
  PROVE  Patience'
<1>t. TypeOK
  BY DEF DemoInv, IInv
<1>u. UNCHANGED <<todo, storageAdds, latestProxyChainBlock, proxyContract, mempool, proxyStorage,
                  proxyStorageInfos>>
  BY DEF demoVars, readBlocks, clientVars, TargetBlock, SourceBlock
<1>1. Asleep' /\ InOrder'
  BY <1>u DEF Patience, Asleep, InOrder, Does
<1>2. CASE TargetBlock
  <2>1. /\ tgtChain' = Append(tgtChain, proxyStorage) /\ srcChain' = srcChain
        /\ Len(tgtChain') = Len(tgtChain) + 1 /\ Len(tgtChain) \in Nat
        /\ tgtChain'[Len(tgtChain) + 1] = proxyStorage
        /\ \A h \in 1..Len(tgtChain) : tgtChain'[h] = tgtChain[h]
    BY <1>2, <1>t DEF TargetBlock, TypeOK
  <2>2. \A h, p : Shows(h, p) => h \in 1..Len(tgtChain') /\ tgtChain'[h][p] = proxyStorage[p]
    BY <2>1 DEF Shows
  <2>3. ShownAsIs'
    BY <1>u, <2>2 DEF Patience, ShownAsIs, Shows, Does
  <2>4. Settled'
    BY <1>u, <2>1 DEF Patience, Settled, NoBatchSent, Sealed, Does
  <2>5. MigratedCopyIsComplete'
    BY <1>u, <2>1 DEF Patience, MigratedCopyIsComplete, Migrated
  <2>. QED
    BY <1>1, <2>3, <2>4, <2>5 DEF Patience
<1>3. CASE SourceBlock
  <2>1. /\ tgtChain' = tgtChain
        /\ \A n \in 1..Len(srcChain) : srcChain'[n] = srcChain[n]
    BY <1>3, <1>t DEF SourceBlock, TypeOK
  <2>2. ShownAsIs' /\ Settled'
    BY <1>u, <2>1 DEF Patience, ShownAsIs, Shows, Settled, NoBatchSent, Sealed, Does
  <2>3. MigratedCopyIsComplete'
    BY <1>u, <2>1 DEF DemoInv, IInv, RecordedRootIsSourceRoot, Patience, MigratedCopyIsComplete, Migrated
  <2>. QED
    BY <1>1, <2>2, <2>3 DEF Patience
<1>. QED
  BY <1>2, <1>3

\* What the client does before, during and after its sleep.
LEMMA ClientKeeps ==
  ASSUME DemoInv, patient, ClientStep
  PROVE  Patience'
<1>t. TypeOK /\ DemoTypes /\ Patience /\ UNCHANGED vars
  BY ClientLeaves DEF DemoInv, IInv
<1>v. UNCHANGED <<tgtChain, proxyStorage>> /\ (MigratedCopyIsComplete /\ Sealed => Sealed')
      /\ MigratedCopyIsComplete'
  BY <1>t DEF vars, Sealed, Patience, MigratedCopyIsComplete, Migrated
<1>a. ~Does("wait") => storageAdds = <<>> /\ NoBatchSent /\ Sealed
  BY <1>t DEF Patience, Asleep, Settled
<1>m. ASSUME mempool' = mempool
      PROVE  /\ NoBatchSent => NoBatchSent'
             /\ (\A i \in DOMAIN mempool :
                  mempool[i].kind = "verify" => Shows(mempool[i].header, mempool[i].proxy))'
  BY <1>m, <1>t, <1>v DEF Patience, ShownAsIs, Shows, NoBatchSent
<1>c. ASSUME NEW what, Does(what), Continue
      PROVE  /\ Does("verify")' => what = "header"
             /\ what = "addStorage" => Does("wait")'
  BY <1>c, <1>t, TailOrdered DEF Does, Continue, DemoTypes
<1>w. ASSUME NEW what, Does(what), what # "wait" PROVE ~Does("wait")
  BY <1>w DEF Does
<1>1. CASE CallInitialize \/ \E p \in Wired :
             \/ CallOnDeployed(p)
             \/ \E n \in SrcBlocks : CallVerify(p, n)
             \/ \E isDeployed \in BOOLEAN : CallMigrateChanges(isDeployed, p)
  <2>1. PICK method \in Methods : Call(method)
    BY <1>1 DEF CallInitialize, CallOnDeployed, CallVerify, CallMigrateChanges, Methods
  <2>2. ~Does("wait") /\ ~Does("verify")' /\ mempool' = mempool /\ storageAdds' = storageAdds
    BY <2>1, MethodsOrdered DEF Call, Does
  <2>3. NoBatchSent' /\ ShownAsIs'
    BY <1>a, <1>m, <2>2 DEF ShownAsIs
  <2>. QED
    BY <1>t, <2>2, <2>3, AwakeStep
<1>2. CASE ReadSource \/ ReadProxyChain \/ AwaitReceipt \/ GetMigrationState \/ CallFails \/ NewProcess
           \/ (SendUpdate /\ UNCHANGED accountVars)
  <2>1. mempool' = mempool /\ (storageAdds' = storageAdds \/ (NewProcess /\ storageAdds' = <<>>))
    BY <1>2 DEF ReadSource, ReadProxyChain, AwaitReceipt, GetMigrationState, CallFails, NewProcess,
       NextAttempt, Disturb, SendUpdate, accountVars
  <2>2. ~Does("wait")
    BY <1>2 DEF ReadSource, ReadProxyChain, AwaitReceipt, GetMigrationState, CallFails, NewProcess,
       SendUpdate, Does
  <2>3. storageAdds' = storageAdds /\ NoBatchSent'
    BY <1>a, <1>m, <2>1, <2>2
  <2>4. Does("verify")' => Shows(latestProxyChainBlock, proxyContract)'
    <3>1. CASE ReadProxyChain
      <4>1. latestProxyChainBlock' = Len(tgtChain') /\ Sealed' /\ Len(tgtChain') \in 1..Len(tgtChain')
        BY <1>a, <1>t, <1>v, <2>2, <3>1 DEF ReadProxyChain, TypeOK, Patience
      <4>. QED
        BY <4>1 DEF Shows, Sealed
    <3>2. CASE todo' = <<>>
      BY <3>2 DEF Does
    <3>3. CASE ReadSource \/ (AwaitReceipt /\ Continue)
      <4>1. ~Does("verify")'
        BY <1>c, <3>3 DEF ReadSource, AwaitReceipt
      <4>. QED
        BY <4>1
    <3>. QED
      BY <1>2, <3>1, <3>2, <3>3 DEF AwaitReceipt, GetMigrationState, CallFails, NewProcess, SendUpdate,
         Throw, Return
  <2>5. ShownAsIs'
    BY <1>m, <2>1, <2>4 DEF ShownAsIs
  <2>. QED
    BY <1>t, <2>2, <2>3, <2>5, AwakeStep
<1>3. CASE SendAddBlock \/ SendDeployment \/ SendVerify \/ (SendUpdate /\ ~UNCHANGED accountVars)
  <2>1. ~Does("wait") /\ ~Does("verify")' /\ storageAdds' = storageAdds
    <3>1. ~Does("wait") /\ storageAdds' = storageAdds
      BY <1>3 DEF SendAddBlock, SendDeployment, SendVerify, SendUpdate, Does
    <3>2. CASE SendUpdate
      BY <3>1, <3>2 DEF SendUpdate, Throw, Return, Does
    <3>3. CASE SendAddBlock \/ SendDeployment \/ SendVerify
      <4>1. ~Does("verify")'
        BY <1>c, <3>3 DEF SendAddBlock, SendDeployment, SendVerify
      <4>. QED
        BY <3>1, <4>1
    <3>. QED
      BY <1>3, <3>2, <3>3
  <2>2. PICK tx \in Txs : /\ Submit(tx) /\ tx.kind # "addStorage"
                          /\ tx.kind = "verify" => Shows(tx.header, tx.proxy)
    <3>1. CASE SendVerify
      <4> DEFINE tx == VerifyTx(proxyContract, latestProxyChainBlock, proxyChainProof, latestBlock,
                                latestBlock)
      <4>1. tx \in Txs /\ Submit(tx)
        BY <1>t, <3>1, SentTxs DEF SendVerify
      <4>2. tx.kind = "verify" /\ tx.header = latestProxyChainBlock /\ tx.proxy = proxyContract
        BY DEF VerifyTx
      <4>3. Shows(latestProxyChainBlock, proxyContract)
        BY <1>t, <3>1 DEF SendVerify, Patience, ShownAsIs
      <4>. QED
        BY <4>1, <4>2, <4>3
    <3>2. CASE SendAddBlock \/ SendDeployment \/ (SendUpdate /\ ~UNCHANGED accountVars)
      BY <1>t, <3>2, SentTxs DEF SendAddBlock, SendDeployment, SendUpdate
    <3>. QED
      BY <1>3, <3>1, <3>2
  <2>3. /\ DOMAIN mempool' = DOMAIN mempool \cup {Len(mempool) + 1}
        /\ mempool'[Len(mempool) + 1] = tx
        /\ \A i \in DOMAIN mempool : mempool'[i] = mempool[i]
    BY <1>t, <2>2, AfterSubmit DEF DemoTypes
  <2>4. NoBatchSent'
    BY <1>a, <2>1, <2>2, <2>3 DEF NoBatchSent
  <2>5. ShownAsIs'
    BY <1>t, <1>v, <2>1, <2>2, <2>3 DEF Patience, ShownAsIs, Shows
  <2>. QED
    BY <1>t, <2>1, <2>4, <2>5, AwakeStep
<1>4. CASE Sleep
  <2>1. mempool = <<>> /\ mempool' = <<>> /\ storageAdds' = <<>> /\ Sealed'
    BY <1>4, <1>t, <1>v DEF Sleep, AllMined, accountVars, DemoInv, Patience
  <2>2. ~Does("verify")'
    <3>1. CASE todo' = <<>>
      BY <3>1 DEF Does
    <3>2. CASE Does("wait") /\ Continue
      <4>. QED
        BY <1>c, <3>2
    <3>. QED
      BY <1>4, <3>1, <3>2 DEF Sleep, Return
  <2>. QED
    BY <1>v, <2>1, <2>2 DEF Patience, Asleep, Settled, InOrder, ShownAsIs, NoBatchSent
<1>5. CASE CallAddStorage
  <2>1. ~Does("wait") /\ Does("wait")' /\ ~Does("verify")' /\ mempool' = mempool
    BY <1>5, <1>c, <1>w DEF CallAddStorage, accountVars
  <2>2. Len(storageAdds') = 1
    BY <1>5, <1>a, <2>1 DEF CallAddStorage
  <2>3. NoBatchSent' /\ Sealed' /\ ShownAsIs'
    BY <1>a, <1>m, <1>t, <1>v, <2>1 DEF ShownAsIs, Patience
  <2>. QED
    BY <1>v, <2>1, <2>2, <2>3 DEF Patience, Asleep, Settled, InOrder, NoBatchSent
<1>6. CASE SendStorageAdd
  <2>1. Does("wait") /\ Len(storageAdds) = 1 /\ NoBatchSent
    BY <1>6, <1>t DEF SendStorageAdd, Patience, Asleep, Settled
  <2>2. Does("wait")' /\ ~Does("verify")' /\ storageAdds' = <<>>
    BY <1>6, <1>t, <2>1 DEF SendStorageAdd, Does, DemoTypes
  <2>3. Head(storageAdds) \in Txs /\ Head(storageAdds).kind = "addStorage" /\ Submit(Head(storageAdds))
    <3>1. Head(storageAdds) \in Batches
      BY <1>6, <1>t DEF SendStorageAdd, DemoTypes
    <3>2. Head(storageAdds) \in Txs
      BY <3>1 DEF Txs
    <3>3. Head(storageAdds).kind = "addStorage"
      BY <3>1 DEF Batches
    <3>. QED
      BY <1>6, <3>2, <3>3 DEF SendStorageAdd
  <2>4. /\ DOMAIN mempool' = DOMAIN mempool \cup {Len(mempool) + 1}
        /\ DOMAIN mempool = 1..Len(mempool) /\ Len(mempool) \in Nat
        /\ mempool'[Len(mempool) + 1].kind = "addStorage"
        /\ \A i \in DOMAIN mempool : mempool'[i] = mempool[i]
    BY <1>t, <2>3, AfterSubmit DEF DemoTypes
  <2>5. InOrder'
    BY <2>1, <2>4 DEF InOrder, NoBatchSent
  <2>6. ShownAsIs'
    BY <1>t, <1>v, <2>2, <2>4 DEF Patience, ShownAsIs, Shows
  <2>. QED
    BY <1>v, <2>2, <2>5, <2>6 DEF Patience, Asleep, Settled
<1>7. CASE StorageAddFails
  <2>1. NoBatchSent /\ Sealed
    BY <1>7, <1>t DEF StorageAddFails, Patience, Settled
  <2>2. ~Does("verify")' /\ storageAdds' = <<>> /\ mempool' = mempool
    BY <1>7 DEF StorageAddFails, Throw, Return, Disturb, Does
  <2>3. NoBatchSent' /\ Sealed' /\ ShownAsIs'
    BY <1>m, <1>t, <1>v, <2>1, <2>2 DEF ShownAsIs, Patience
  <2>. QED
    BY <1>v, <2>2, <2>3 DEF Patience, Asleep, Settled, InOrder, NoBatchSent
<1>. QED
  BY <1>1, <1>2, <1>3, <1>4, <1>5, <1>6, <1>7 DEF ClientStep, Method

-----------------------------------------------------------------------------
(***************************************************************************)
(* The invariant, and what follows from it.                                *)
(***************************************************************************)
\* It holds when the first process starts.
LEMMA DemoInvInit == DemoInit => DemoInv
<1> SUFFICES ASSUME DemoInit PROVE DemoInv
  OBVIOUS
<1>1. IInv
  BY InvInit DEF DemoInit
<1>2. /\ todo = <<>> /\ mempool = <<>> /\ storageAdds = <<>> /\ attempt = 1
      /\ latestBlock = 0 /\ latestProxyChainBlock = 0 /\ proxyChainProof = 0
      /\ proxyContract = NoProxy
  BY DEF DemoInit, AccountInit, Constructed
<1>3. DemoTypes
  <2>1. 1 \in 1..MaxAttempts
    BY AccountAssumption DEF AccountAssumption
  <2>2. Ordered(<<>>)
    BY DEF Ordered
  <2>. QED
    BY <1>2, <2>1, <2>2 DEF DemoTypes
<1>4. Sealed
  BY DEF DemoInit, Init, Sealed
<1>5. Patience
  <2>1. MigratedCopyIsComplete
    BY DEF DemoInit, Init, MigratedCopyIsComplete, Migrated
  <2>. QED
    BY <1>2, <1>4, <2>1 DEF Patience, Asleep, Settled, InOrder, ShownAsIs, NoBatchSent, Does
<1>. QED
  BY <1>1, <1>3, <1>4, <1>5 DEF DemoInv

\* Every step preserves it.
LEMMA DemoInvStep == DemoInv /\ [DemoNext]_demoAllVars => DemoInv'
<1> SUFFICES ASSUME DemoInv, [DemoNext]_demoAllVars PROVE DemoInv'
  OBVIOUS
<1>1. IInv' /\ DemoTypes' /\ (~unsealed => Sealed)'
  BY ContractsStep, InvStep, TypesStep, SealedStep DEF DemoInv
<1>2. ASSUME patient' PROVE Patience'
  <2>1. patient' = patient
    BY ClientLeaves DEF DemoNext, ClientStep, demoAllVars, demoVars, methodVars, Target
  <2>2. patient /\ Patience
    BY <1>2, <2>1 DEF DemoInv
  <2>3. CASE ClientStep
    BY <2>2, <2>3, ClientKeeps
  <2>4. CASE ExecuteTx /\ UNCHANGED demoVars
    BY <2>2, <2>4, ExecuteKeeps
  <2>5. CASE (TargetBlock \/ SourceBlock) /\ UNCHANGED <<mempool, demoVars>>
    BY <2>2, <2>5, BlockKeeps
  <2>6. CASE UNCHANGED demoAllVars
    <3>1. UNCHANGED <<vars, mempool, storageAdds, todo, latestProxyChainBlock, proxyContract>>
      BY <2>6 DEF demoAllVars, accountVars, demoVars, readBlocks, clientVars
    <3>. QED
      BY <2>2, <3>1 DEF vars, Patience, Asleep, Settled, InOrder, ShownAsIs, Shows, NoBatchSent, Sealed, Does,
         MigratedCopyIsComplete, Migrated
  <2>. QED
    BY <2>3, <2>4, <2>5, <2>6 DEF DemoNext, ClientStep, Target, SealBlock, NoiseBlock, Disturb, accountVars
<1>. QED
  BY <1>1, <1>2 DEF DemoInv

\* A client of the demo that sleeps long enough records no incomplete copy, whatever
\* its methods, their order, failing calls and the processes before it.
THEOREM PatientCopyCorrect == DemoSpec => []PatientCopyIsComplete
<1>1. DemoInv => PatientCopyIsComplete
  BY DEF DemoInv, Patience, PatientCopyIsComplete
<1>. QED
  BY <1>1, DemoInvInit, DemoInvStep, PTL DEF DemoSpec

-----------------------------------------------------------------------------
(***************************************************************************)
(* What the client knows of the chains, and what it has sent.              *)
(***************************************************************************)
BlocksExist ==
  /\ latestBlock \in 0..Len(srcChain)
  /\ latestProxyChainBlock \in 0..Len(tgtChain) /\ proxyChainProof \in 0..Len(tgtChain)

SentByNow ==
  /\ \A i \in DOMAIN mempool : mempool[i].by <= attempt
  /\ \A i \in DOMAIN storageAdds : storageAdds[i].by <= attempt

Account ==
  /\ unsealed \in BOOLEAN
  /\ deployment \in [Proxies -> {"none", "executed", "mined"}]
  /\ reverted \subseteq {"addStorage", "verify", "update"}
  /\ disturbances \in 0..MaxDisturbances

Outcomes == {"none", "thrown", "number", "true", "false"}

\* A method sends one batch at most.
OneBatch(calls) ==
  \A i, j \in 1..Len(calls) : calls[i] = "addStorage" /\ calls[j] = "addStorage" => i = j
BatchToCome == \E i \in 1..Len(todo) : todo[i] = "addStorage"

\* So there are no more of them under way than methods that were called.
FewBatches ==
  /\ OneBatch(todo)
  /\ commands \in Nat
  /\ \/ storageAdds = <<>> /\ ~BatchToCome
     \/ commands <= MaxCommands /\ Len(storageAdds) + (IF BatchToCome THEN 1 ELSE 0) <= commands

\* The inductive invariant.
DemoBounds ==
  /\ DemoInv
  /\ BlocksExist /\ SentByNow /\ Account /\ outcome \in Outcomes /\ FewBatches

\* No chain gets shorter.
LEMMA ChainsGrow ==
  ASSUME DemoInv, [DemoNext]_demoAllVars
  PROVE  /\ Len(srcChain) \in Nat /\ Len(srcChain') \in Nat /\ Len(srcChain) <= Len(srcChain')
         /\ Len(tgtChain) \in Nat /\ Len(tgtChain') \in Nat /\ Len(tgtChain) <= Len(tgtChain')
<1>1. TypeOK /\ [FedNext]_vars
  BY ContractsStep DEF DemoInv, IInv
<1>2. \/ UNCHANGED srcChain
      \/ \E w : srcChain' = Append(srcChain, w)
  BY <1>1 DEF FedNext, OtherSteps, SourceBlock, TargetBlock, AddBlock, AddStorage, VerifyMigrateContract,
     VerifyMigrateContractOriginal, UpdateStorage, vars, chainVars
<1>3. \/ UNCHANGED tgtChain
      \/ \E w : tgtChain' = Append(tgtChain, w)
  BY <1>1 DEF FedNext, OtherSteps, SourceBlock, TargetBlock, AddBlock, AddStorage, VerifyMigrateContract,
     VerifyMigrateContractOriginal, UpdateStorage, vars, chainVars
<1>. QED BY <1>1, <1>2, <1>3 DEF TypeOK

LEMMA BlocksStep == ASSUME DemoBounds, [DemoNext]_demoAllVars PROVE BlocksExist'
<1>1. LatestProof(proxyContract) \in 0..Len(tgtChain)
  BY ChainsGrow DEF LatestProof, DemoBounds
<1>2. /\ \/ latestBlock' \in {0, latestBlock, Len(srcChain)}
         \/ latestBlock' \in 1..Len(srcChain)
      /\ latestProxyChainBlock' \in {0, latestProxyChainBlock, Len(tgtChain)}
      /\ proxyChainProof' \in {0, proxyChainProof, LatestProof(proxyContract)}
  BY DEF DemoNext, demoAllVars, demoVars, readBlocks, Target, CallInitialize, CallOnDeployed, CallVerify,
     CallMigrateChanges, Call, Method, ReadSource, SendAddBlock, SendDeployment, CallAddStorage, Sleep,
     ReadProxyChain, SendVerify, AwaitReceipt, GetMigrationState, SendUpdate, SendStorageAdd, CallFails,
     StorageAddFails, NewProcess, Throw, Return
<1>. QED BY <1>1, <1>2, ChainsGrow DEF DemoBounds, BlocksExist

\* What is sent, or put into the list, is by the process that runs.
LEMMA SentStep == ASSUME DemoBounds, [DemoNext]_demoAllVars PROVE SentByNow'
<1>1. /\ DemoTypes /\ mempool \in Seq(Txs) /\ storageAdds \in Seq(Batches) /\ SentByNow
      /\ attempt \in Nat
  BY AccountAssumption DEF DemoBounds, DemoInv, DemoTypes, AccountAssumption
<1>2. attempt' \in {attempt, attempt + 1}
  BY DEF DemoNext, demoAllVars, accountVars, Target, ExecuteTx, SealBlock, NoiseBlock, Disturb, CallInitialize,
     CallOnDeployed, CallVerify, CallMigrateChanges, Call, Method, ReadSource, SendAddBlock, SendDeployment,
     CallAddStorage, Sleep, ReadProxyChain, SendVerify, AwaitReceipt, GetMigrationState, SendUpdate,
     SendStorageAdd, CallFails, StorageAddFails, NewProcess, NextAttempt, Submit
<1>3. \/ mempool' = mempool
      \/ mempool # <<>> /\ mempool' = Tail(mempool)
      \/ \E tx \in Txs : tx.by <= attempt /\ Submit(tx)
  <2>1. ASSUME NEW tx \in {AddBlockTx(latestBlock), DeployTx({NewProxy}), UpdateTx(proxyContract),
                 VerifyTx(proxyContract, latestProxyChainBlock, proxyChainProof, latestBlock, latestBlock)}
        PROVE  tx \in Txs /\ tx.by <= attempt
    <3>1. tx \in Txs
      BY <1>1, SentTxs
    <3>2. tx.by = attempt
      BY DEF AddBlockTx, DeployTx, UpdateTx, VerifyTx
    <3>. QED BY <1>1, <3>1, <3>2
  <2>2. CASE SendStorageAdd
    <3>1. Head(storageAdds) \in Batches /\ Head(storageAdds).by <= attempt /\ Submit(Head(storageAdds))
      BY <1>1, <2>2 DEF SendStorageAdd, SentByNow
    <3>. QED BY <3>1 DEF Txs
  <2>3. CASE ~SendStorageAdd
    BY <2>1, <2>3
    DEF DemoNext, demoAllVars, accountVars, Target, ExecuteTx, SealBlock, NoiseBlock, Disturb, CallInitialize,
        CallOnDeployed, CallVerify, CallMigrateChanges, Call, Method, ReadSource, SendAddBlock, SendDeployment,
        CallAddStorage, Sleep, ReadProxyChain, SendVerify, AwaitReceipt, GetMigrationState, SendUpdate,
        CallFails, StorageAddFails, NewProcess, NextAttempt
  <2>. QED BY <2>2, <2>3
<1>4. \A i \in DOMAIN mempool' : mempool'[i].by <= attempt
  <2>1. CASE mempool' = mempool
    BY <1>1, <2>1 DEF SentByNow
  <2>2. CASE mempool # <<>> /\ mempool' = Tail(mempool)
    BY <1>1, <2>2 DEF SentByNow
  <2>3. CASE \E tx \in Txs : tx.by <= attempt /\ Submit(tx)
    BY <1>1, <2>3, AfterSubmit DEF SentByNow
  <2>. QED BY <1>3, <2>1, <2>2, <2>3
<1>5. \A i \in DOMAIN storageAdds' : storageAdds'[i].by <= attempt
  <2>1. CASE storageAdds' \in {storageAdds, <<>>}
    BY <1>1, <2>1 DEF SentByNow
  <2>2. CASE SendStorageAdd
    BY <1>1, <2>2 DEF SendStorageAdd, SentByNow
  <2>3. CASE CallAddStorage
    <3>1. AddStorageTx(proxyContract, latestBlock, KeyList).by = attempt
      BY DEF AddStorageTx
    <3>. QED BY <1>1, <2>3, <3>1, SentTxs DEF CallAddStorage, SentByNow
  <2>. QED
    BY <2>1, <2>2, <2>3
    DEF DemoNext, demoAllVars, demoVars, Target, CallInitialize, CallOnDeployed, CallVerify,
        CallMigrateChanges, Call, Method, ReadSource, SendAddBlock, SendDeployment, Sleep, ReadProxyChain,
        SendVerify, AwaitReceipt, GetMigrationState, SendUpdate, CallFails, StorageAddFails, NewProcess
<1>6. /\ \A i \in DOMAIN mempool' : mempool'[i].by \in Int
      /\ \A i \in DOMAIN storageAdds' : storageAdds'[i].by \in Int
  <2>1. mempool' \in Seq(Txs) /\ storageAdds' \in Seq(Batches)
    BY TypesStep DEF DemoBounds, DemoTypes
  <2>2. (\A tx \in Txs : tx.by \in Int) /\ \A tx \in Batches : tx.by \in Int
    BY AccountAssumption DEF Txs, Batches, AccountAssumption
  <2>. QED BY <2>1, <2>2
<1>. QED BY <1>1, <1>2, <1>4, <1>5, <1>6 DEF SentByNow

LEMMA AccountStep == ASSUME DemoBounds, [DemoNext]_demoAllVars PROVE Account'
<1>1. Account /\ mempool \in Seq(Txs) /\ MaxDisturbances \in Nat
  BY AccountAssumption DEF DemoBounds, DemoInv, DemoTypes, AccountAssumption
<1>2. CASE ExecuteTx /\ UNCHANGED demoVars
  <2>. DEFINE tx == Head(mempool)
  <2>1. tx \in Txs
    BY <1>1, <1>2 DEF ExecuteTx
  <2>2. ~Succeeds(tx) => tx.kind \in {"addStorage", "verify", "update"}
    BY DEF Succeeds
  <2>3. reverted' \subseteq {"addStorage", "verify", "update"}
    BY <1>1, <1>2, <2>2 DEF ExecuteTx, Account
  <2>4. deployment' \in [Proxies -> {"none", "executed", "mined"}]
    BY <1>1, <1>2 DEF ExecuteTx, Effect, Account
  <2>. QED BY <1>1, <1>2, <2>3, <2>4 DEF ExecuteTx, Account
<1>3. CASE SealBlock
  BY <1>1, <1>3 DEF SealBlock, Account
<1>4. CASE NoiseBlock
  BY <1>1, <1>4 DEF NoiseBlock, Disturb, Account
<1>5. CASE ClientStep
  <2>1. /\ UNCHANGED <<unsealed, deployment>>
        /\ reverted' \in {reverted, {}}
        /\ \/ disturbances' \in {disturbances, 0}
           \/ disturbances < MaxDisturbances /\ disturbances' = disturbances + 1
    BY <1>5 DEF ClientStep, CallInitialize, CallOnDeployed, CallVerify, CallMigrateChanges, Call, Method,
       ReadSource, SendAddBlock, SendDeployment, CallAddStorage, Sleep, ReadProxyChain, SendVerify,
       AwaitReceipt, GetMigrationState, SendUpdate, SendStorageAdd, CallFails, StorageAddFails, NewProcess,
       NextAttempt, Submit, Disturb, accountVars
  <2>. QED BY <1>1, <2>1 DEF Account
<1>6. CASE UNCHANGED accountVars
  BY <1>1, <1>6 DEF accountVars, Account
<1>. QED
  BY <1>2, <1>3, <1>4, <1>5, <1>6 DEF DemoNext, ClientStep, demoAllVars, Target

LEMMA OutcomeStep == ASSUME DemoBounds, [DemoNext]_demoAllVars PROVE outcome' \in Outcomes
BY DEF DemoBounds, Outcomes, DemoNext, demoAllVars, demoVars, Target, CallInitialize, CallOnDeployed,
   CallVerify, CallMigrateChanges, Call, Method, ReadSource, SendAddBlock, SendDeployment, CallAddStorage,
   Sleep, ReadProxyChain, SendVerify, AwaitReceipt, GetMigrationState, SendUpdate, SendStorageAdd,
   CallFails, StorageAddFails, NewProcess, Continue, Throw, Return

LEMMA MethodsOneBatch == ASSUME NEW method \in Methods PROVE OneBatch(method)
<1>1. CASE method = InitializeProxyContract
  BY <1>1 DEF InitializeProxyContract, OneBatch
<1>2. CASE method = InitiateMigrationWithDeployedProxy
  BY <1>2 DEF InitiateMigrationWithDeployedProxy, OneBatch
<1>3. CASE method = DendrethSetAAndMigrateRaw
  BY <1>3 DEF DendrethSetAAndMigrateRaw, OneBatch
<1>4. CASE method = DendrethVerifyMigration
  BY <1>4 DEF DendrethVerifyMigration, OneBatch
<1>5. CASE method = MigrateChangesToProxy
  BY <1>5 DEF MigrateChangesToProxy, OneBatch
<1>. QED BY <1>1, <1>2, <1>3, <1>4, <1>5 DEF Methods

\* After a call of a method its batch is to come still, or was the call.
LEMMA TailBatches ==
  ASSUME NEW calls \in Seq(Calls), calls # <<>>, OneBatch(calls)
  PROVE  /\ OneBatch(Tail(calls))
         /\ (\E i \in 1..Len(Tail(calls)) : Tail(calls)[i] = "addStorage") =>
              \E i \in 1..Len(calls) : calls[i] = "addStorage"
         /\ Head(calls) = "addStorage" =>
              /\ \E i \in 1..Len(calls) : calls[i] = "addStorage"
              /\ ~ \E i \in 1..Len(Tail(calls)) : Tail(calls)[i] = "addStorage"
<1>1. /\ Len(calls) \in Nat \ {0} /\ Len(Tail(calls)) = Len(calls) - 1 /\ Head(calls) = calls[1]
      /\ \A i \in 1..Len(Tail(calls)) : Tail(calls)[i] = calls[i + 1]
  OBVIOUS
<1>2. \A i \in 1..Len(Tail(calls)) : i + 1 \in 1..Len(calls) /\ i + 1 # 1 /\ i \in Int
  BY <1>1
<1>3. 1 \in 1..Len(calls)
  BY <1>1
<1>4. OneBatch(Tail(calls))
  <2>1. SUFFICES ASSUME NEW i \in 1..Len(Tail(calls)), NEW j \in 1..Len(Tail(calls)),
                        Tail(calls)[i] = "addStorage", Tail(calls)[j] = "addStorage"
                 PROVE  i = j
    BY DEF OneBatch
  <2>2. i + 1 = j + 1
    BY <1>1, <1>2, <2>1 DEF OneBatch
  <2>. QED BY <1>2, <2>2
<1>. QED BY <1>1, <1>2, <1>3, <1>4 DEF OneBatch

LEMMA BatchesStep == ASSUME DemoBounds, [DemoNext]_demoAllVars PROVE FewBatches'
<1>1. /\ FewBatches /\ todo \in Seq(Calls) /\ storageAdds \in Seq(Batches) /\ MaxCommands \in Nat
      /\ Len(storageAdds) \in Nat
  BY DemoAssumption DEF DemoBounds, DemoInv, DemoTypes, DemoAssumption
<1>2. CASE \E method \in Methods : Call(method)
  <2>1. PICK method \in Methods : Call(method)
    BY <1>2
  <2>2. OneBatch(todo)'
    BY <2>1, MethodsOneBatch DEF Call
  <2>3. Len(storageAdds) <= commands
    BY <1>1 DEF FewBatches
  <2>4. commands' = commands + 1 /\ commands < MaxCommands /\ storageAdds' = storageAdds
    BY <2>1 DEF Call
  <2>. QED BY <1>1, <2>2, <2>3, <2>4 DEF FewBatches
<1>3. CASE UNCHANGED <<todo, storageAdds, commands>>
  BY <1>1, <1>3 DEF FewBatches, BatchToCome
<1>4. CASE CallAddStorage
  <2>1. /\ todo # <<>> /\ Head(todo) = "addStorage" /\ todo' = Tail(todo) /\ commands' = commands
        /\ Len(storageAdds') = Len(storageAdds) + 1
    BY <1>1, <1>4 DEF CallAddStorage, Does, Continue, methodVars
  <2>2. OneBatch(todo)' /\ BatchToCome /\ ~BatchToCome'
    BY <1>1, <2>1, TailBatches DEF FewBatches, BatchToCome
  <2>. QED BY <1>1, <2>1, <2>2 DEF FewBatches
<1>5. CASE SendStorageAdd
  <2>1. storageAdds # <<>> /\ Len(storageAdds') = Len(storageAdds) - 1 /\ UNCHANGED <<todo, commands>>
    BY <1>1, <1>5 DEF SendStorageAdd, methodVars
  <2>. QED BY <1>1, <2>1 DEF FewBatches, BatchToCome
<1>6. CASE /\ \/ todo' = <<>>
              \/ todo # <<>> /\ todo' = Tail(todo)
           /\ storageAdds' \in {storageAdds, <<>>} /\ commands' = commands
  <2>1. OneBatch(todo)' /\ (BatchToCome' => BatchToCome)
    <3>1. CASE todo' = <<>>
      BY <3>1 DEF OneBatch, BatchToCome
    <3>2. CASE todo # <<>> /\ todo' = Tail(todo)
      BY <1>1, <3>2, TailBatches DEF FewBatches, BatchToCome
    <3>. QED BY <1>6, <3>1, <3>2
  <2>2. CASE storageAdds' = storageAdds
    BY <1>1, <1>6, <2>1, <2>2 DEF FewBatches
  <2>3. CASE storageAdds' = <<>>
    <3>1. Len(storageAdds') = 0 /\ commands' = commands
      BY <1>6, <2>3
    <3>. QED BY <1>1, <2>1, <2>3, <3>1 DEF FewBatches
  <2>. QED BY <1>6, <2>2, <2>3
<1>7. CASE /\ \/ CallInitialize
            \/ \E p \in Wired :
                  \/ CallOnDeployed(p)
                  \/ \E n \in SrcBlocks : CallVerify(p, n)
                  \/ \E isDeployed \in BOOLEAN : CallMigrateChanges(isDeployed, p)
  <2>. \E method \in Methods : Call(method)
    BY <1>7 DEF CallInitialize, CallOnDeployed, CallVerify, CallMigrateChanges, Methods
  <2>. QED BY <1>2
<1>8. CASE Method
  <2>. USE DEF Does, Continue, Return, methodVars
  <2>1. CASE ReadSource \/ SendAddBlock \/ SendDeployment
    BY <1>6, <2>1 DEF ReadSource, SendAddBlock, SendDeployment
  <2>2. CASE Sleep
    BY <1>6, <2>2 DEF Sleep
  <2>3. CASE ReadProxyChain \/ SendVerify
    BY <1>6, <2>3 DEF ReadProxyChain, SendVerify
  <2>4. CASE AwaitReceipt
    BY <1>6, <2>4 DEF AwaitReceipt, Throw
  <2>5. CASE GetMigrationState \/ SendUpdate
    BY <1>6, <2>5 DEF GetMigrationState, SendUpdate, Throw
  <2>. QED BY <1>4, <1>5, <1>8, <2>1, <2>2, <2>3, <2>4, <2>5 DEF Method
<1>9. CASE CallFails \/ StorageAddFails \/ NewProcess
  <2>1. todo' = <<>> /\ commands' = commands
    BY <1>9 DEF CallFails, StorageAddFails, NewProcess, Throw, Return, methodVars
  <2>2. storageAdds' \in {storageAdds, <<>>}
    BY <1>9 DEF CallFails, StorageAddFails, NewProcess
  <2>. QED BY <1>6, <2>1, <2>2
<1>10. CASE UNCHANGED demoVars
  BY <1>3, <1>10 DEF demoVars, methodVars
<1>. QED
  BY <1>7, <1>8, <1>9, <1>10 DEF DemoNext, demoAllVars, Target

LEMMA BoundsInit == DemoInit => DemoBounds
<1>. SUFFICES ASSUME DemoInit PROVE DemoBounds
  OBVIOUS
<1>1. DemoInv
  BY DemoInvInit
<1>2. /\ todo = <<>> /\ mempool = <<>> /\ storageAdds = <<>> /\ commands \in {0, 1} /\ outcome = "none"
      /\ latestBlock = 0 /\ latestProxyChainBlock = 0 /\ proxyChainProof = 0
  BY DEF DemoInit, AccountInit, Constructed
<1>3. BlocksExist
  BY <1>1, <1>2, ConstantsAssumption DEF DemoInv, IInv, TypeOK, BlocksExist, SrcBlocks, ConstantsAssumption
<1>4. Account
  <2>1. MaxDisturbances \in Nat
    BY AccountAssumption DEF AccountAssumption
  <2>2. deployment \in [Proxies -> {"none", "executed", "mined"}]
    BY DEF DemoInit, AccountInit
  <2>3. unsealed \in BOOLEAN
    BY DEF DemoInit, AccountInit
  <2>4. reverted = {} /\ disturbances = 0
    BY DEF DemoInit, AccountInit
  <2>5. reverted \subseteq {"addStorage", "verify", "update"} /\ disturbances \in 0..MaxDisturbances
    BY <2>1, <2>4
  <2>. QED BY <2>2, <2>3, <2>5 DEF Account
<1>5. FewBatches
  BY <1>2 DEF FewBatches, OneBatch, BatchToCome
<1>. QED BY <1>1, <1>2, <1>3, <1>4, <1>5 DEF DemoBounds, SentByNow, Outcomes

LEMMA BoundsStep == DemoBounds /\ [DemoNext]_demoAllVars => DemoBounds'
BY DemoInvStep, BlocksStep, SentStep, AccountStep, OutcomeStep, BatchesStep DEF DemoBounds

\* The client's headers and proofs are of blocks the chains have, every transaction
\* under way is of this process or one before it, and there are no more batches
\* nobody waits for than methods that were called.
THEOREM DemoTypeCorrect == DemoSpec => []DemoTypeOK
<1>1. DemoBounds => DemoTypeOK
  <2>. SUFFICES ASSUME DemoBounds PROVE DemoTypeOK
    OBVIOUS
  <2>1. TypeOK /\ attempt \in 1..MaxAttempts /\ proxyContract \in Proxies \cup {NoProxy}
    BY DEF DemoBounds, DemoInv, DemoTypes, IInv
  <2>2. \A i \in DOMAIN mempool : mempool[i].by \in 1..attempt
    <3>1. \A i \in DOMAIN mempool : mempool[i] \in Txs
      BY DEF DemoBounds, DemoInv, DemoTypes
    <3>2. \A tx \in Txs : tx.by \in 1..MaxAttempts
      BY DEF Txs, Batches
    <3>. QED BY <2>1, <3>1, <3>2, AccountAssumption DEF DemoBounds, SentByNow, AccountAssumption
  <2>3. Len(storageAdds) \in 0..MaxCommands
    <3>1. Len(storageAdds) \in Nat /\ MaxCommands \in Nat /\ Len(<<>>) = 0
      BY DemoAssumption DEF DemoBounds, DemoInv, DemoTypes, DemoAssumption
    <3>. QED BY <3>1 DEF DemoBounds, FewBatches
  <2>. QED BY <2>1, <2>2, <2>3 DEF DemoBounds, BlocksExist, Account, Outcomes, DemoTypeOK, AccountTypeOK
<1>. QED BY <1>1, BoundsInit, BoundsStep, PTL DEF DemoSpec

\* Whatever the methods of a client of the demo do, the two contracts take a step of
\* their own, and addBlock gets the right root.
THEOREM DemoImplementsContracts == DemoSpec => FedSpec
<1>1. DemoInit => Init
  BY DEF DemoInit
<1>. QED
  BY <1>1, ContractsStep, DemoInvInit, DemoInvStep, PTL DEF DemoSpec, FedSpec

\* So what the contracts keep where addBlock is given right roots they keep under the
\* demo: the newest root the relay answers with and the record of a migrated proxy.
THEOREM DemoKeepsContracts ==
  DemoSpec => []LatestRootIsNewest /\ []RecordedRootIsSourceRoot /\ []RecordedRootWasShown
<1>1. IInv => LatestRootIsNewest /\ RecordedRootIsSourceRoot /\ RecordedRootWasShown
  BY DEF IInv
<1>. QED
  BY <1>1, DemoImplementsContracts, InvAlways, PTL

=============================================================================
