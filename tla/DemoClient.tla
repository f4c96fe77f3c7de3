----------------------------- MODULE DemoClient -----------------------------
(***************************************************************************)
(* TestChainProxySimpleStorage, the client of the demo, on the account of  *)
(* TargetAccount.  It does not wait for its receipts: it sends a batch,    *)
(* sleeps for some seconds, and goes on.  A process runs its methods one   *)
(* after the other; one that throws ends the process, and another process  *)
(* may try again with what is on the chain.                                *)
(*                                                                         *)
(* Abstractions.  A method is the list of its awaited calls.  A header and *)
(* a proof that is asked for at the header's number are one read.  A sleep *)
(* is patient if all that was sent before it is mined when it ends.        *)
(***************************************************************************)
EXTENDS TargetAccount

CONSTANTS
  KeyList,       \* the slots the client was given by initKeyList
  NoProxy,       \* proxyContract before it is set
  MaxCommands    \* bound: methods called

ASSUME DemoAssumption ==
  /\ KeyList \subseteq Keys /\ KeyList # {}
  /\ NoProxy \notin Proxies
  /\ MaxCommands \in Nat

VARIABLES
  todo,                   \* what the method still has to do
  patient,                \* whether the sleeps of the methods are long enough
  latestBlock,            \* number of the source header
  latestProxyChainBlock,  \* number of the target header
  proxyChainProof,        \* the target block of the proxy's proof
  proxyContract,          \* the proxy the client is attached to
  migrationState,         \* what the client believes of it
  outcome,                \* what the last method returned, or that it threw
  storageAdds,            \* the transaction nobody waits for, until it is sent
  commands                \* methods called so far

clientVars == <<proxyContract, migrationState>>
readBlocks == <<latestBlock, latestProxyChainBlock, proxyChainProof>>
methodVars == <<patient, commands>>
demoVars == <<todo, readBlocks, clientVars, outcome, storageAdds, methodVars>>
demoAllVars == <<vars, accountVars, demoVars>>

\* The methods.
InitializeProxyContract ==
  <<"read", "addBlock", "deploy", "addStorage", "wait", "header", "verify", "receipt", "state">>
InitiateMigrationWithDeployedProxy ==
  <<"read", "addBlock", "addStorage", "wait", "header", "verify", "receipt", "state">>
DendrethSetAAndMigrateRaw == <<"read", "addStorage", "wait">>
DendrethVerifyMigration == <<"addBlock", "header", "verify", "receipt", "state">>
MigrateChangesToProxy == <<"read", "addBlock", "wait", "update">>

\* The constructor.
Constructed ==
  /\ todo = <<>> /\ outcome = "none"
  /\ latestBlock = 0 /\ latestProxyChainBlock = 0 /\ proxyChainProof = 0
  /\ proxyContract = NoProxy /\ migrationState = FALSE /\ storageAdds = <<>>

\* Bound: a client that does not sleep long enough calls one method less.
DemoInit ==
  /\ Init
  /\ \E ps \in {{}, {Addresses[1]}} : AccountInit(ps)
  /\ Constructed
  /\ patient \in BOOLEAN
  /\ commands = IF patient THEN 0 ELSE 1

-----------------------------------------------------------------------------
(***************************************************************************)
(* Calls.                                                                  *)
(***************************************************************************)
Call(method) ==
  /\ todo = <<>> /\ outcome # "thrown"
  /\ commands < MaxCommands
  /\ commands' = commands + 1
  /\ todo' = method
  /\ outcome' = "none"
  /\ reverted' = {}
  /\ UNCHANGED <<vars, attempt, mempool, unsealed, deployment, disturbances, patient,
                 latestProxyChainBlock, proxyChainProof, migrationState, storageAdds>>

CallInitialize ==
  /\ deployment[NewProxy] = "none"
  /\ Call(InitializeProxyContract)
  /\ UNCHANGED <<latestBlock, proxyContract>>

\* With the address of a proxy that is deployed.
CallOnDeployed(p) ==
  /\ deployment[p] = "mined"
  /\ Call(InitiateMigrationWithDeployedProxy) \/ Call(DendrethSetAAndMigrateRaw)
  /\ proxyContract' = p
  /\ UNCHANGED latestBlock

\* With the number and the root of a source block.
CallVerify(p, n) ==
  /\ deployment[p] = "mined"
  /\ n \in 1..Len(srcChain)
  /\ Call(DendrethVerifyMigration)
  /\ proxyContract' = p /\ latestBlock' = n

\* With keys that changed; isDeployed stands in for the state of the client, and
\* the address is used by a client without a proxy.
CallMigrateChanges(isDeployed, address) ==
  /\ migrationState \/ isDeployed
  /\ deployment[address] = "mined"
  /\ Call(MigrateChangesToProxy)
  /\ proxyContract' = IF proxyContract = NoProxy THEN address ELSE proxyContract
  /\ UNCHANGED latestBlock

-----------------------------------------------------------------------------
(***************************************************************************)
(* The steps of a method.                                                  *)
(***************************************************************************)
Does(what) == todo # <<>> /\ Head(todo) = what
Continue == todo' = Tail(todo) /\ UNCHANGED outcome

\* The blocks are locals of a method.
Return(value) ==
  /\ todo' = <<>> /\ outcome' = value
  /\ latestBlock' = 0 /\ latestProxyChainBlock' = 0 /\ proxyChainProof' = 0
Throw == Return("thrown")

ReadSource ==
  /\ Does("read") /\ Continue
  /\ latestBlock' = Len(srcChain)
  /\ UNCHANGED <<vars, accountVars, latestProxyChainBlock, proxyChainProof, clientVars,
                 storageAdds, methodVars>>

SendAddBlock ==
  /\ Does("addBlock") /\ Continue
  /\ Submit(AddBlockTx(latestBlock))
  /\ UNCHANGED <<vars, readBlocks, clientVars, storageAdds, methodVars>>

SendDeployment ==
  /\ Does("deploy") /\ Continue
  /\ Submit(DeployTx({NewProxy}))
  /\ proxyContract' = NewProxy
  /\ UNCHANGED <<vars, readBlocks, migrationState, storageAdds, methodVars>>

\* The promise is put into a list, and Promise.all is given that list as one of
\* its two values: nobody waits for it, and nobody catches it when it rejects.
CallAddStorage ==
  /\ Does("addStorage") /\ Continue
  /\ storageAdds' = Append(storageAdds, AddStorageTx(proxyContract, latestBlock, KeyList))
  /\ UNCHANGED <<vars, accountVars, readBlocks, clientVars, methodVars>>

\* Mutant: the promise of the timer is not awaited.
SleepNotAwaited ==
  /\ Does("wait")
  /\ IF Len(todo) = 1 THEN Return("number") ELSE Continue /\ UNCHANGED readBlocks
  /\ UNCHANGED <<vars, accountVars, clientVars, storageAdds, methodVars>>

Sleep ==
  /\ Does("wait")
  /\ patient => AllMined /\ storageAdds = <<>>
  /\ IF Len(todo) = 1 THEN Return("number") ELSE Continue /\ UNCHANGED readBlocks
  /\ UNCHANGED <<vars, accountVars, clientVars, storageAdds, methodVars>>

\* Mutant: the header of the block still being built.
ReadPendingChain ==
  /\ Does("header") /\ Continue
  /\ latestProxyChainBlock' = Len(tgtChain) + 1
  /\ proxyChainProof' = LatestProof(proxyContract)
  /\ UNCHANGED <<vars, accountVars, latestBlock, clientVars, storageAdds, methodVars>>

ReadProxyChain ==
  /\ Does("header") /\ Continue
  /\ latestProxyChainBlock' = Len(tgtChain)
  /\ proxyChainProof' = LatestProof(proxyContract)
  /\ UNCHANGED <<vars, accountVars, latestBlock, clientVars, storageAdds, methodVars>>

SendVerify ==
  /\ Does("verify") /\ Continue
  /\ Submit(VerifyTx(proxyContract, latestProxyChainBlock, proxyChainProof, latestBlock, latestBlock))
  /\ UNCHANGED <<vars, readBlocks, clientVars, storageAdds, methodVars>>

AwaitReceipt ==
  /\ Does("receipt") /\ AllMined
  /\ IF "verify" \in reverted THEN Throw ELSE Continue /\ UNCHANGED readBlocks
  /\ UNCHANGED <<vars, accountVars, clientVars, storageAdds, methodVars>>

GetMigrationState ==
  /\ Does("state")
  /\ migrationState' = Migrated(proxyContract)
  /\ Return(IF migrationState' THEN "true" ELSE "false")
  /\ UNCHANGED <<vars, accountVars, proxyContract, storageAdds, methodVars>>

\* With the interface of config.ts updateStorage lacks an argument and throws.
\* With the compiled one it is sent, and reverts: a node that says so at once
\* makes the method return false, a receipt makes it throw.
SendUpdate ==
  /\ Does("update")
  /\ \/ Throw /\ UNCHANGED accountVars
     \/ Return("false") /\ UNCHANGED accountVars
     \/ Throw /\ Submit(UpdateTx(proxyContract))
  /\ UNCHANGED <<vars, clientVars, storageAdds, methodVars>>

\* A call that is awaited fails.
CallFails ==
  /\ todo # <<>> /\ ~Does("wait") /\ ~Does("addStorage")
  /\ Disturb /\ Throw
  /\ UNCHANGED <<vars, clientVars, storageAdds, methodVars>>

-----------------------------------------------------------------------------
(***************************************************************************)
(* The promise nobody waits for, and the end of a process.                 *)
(***************************************************************************)
\* The transaction gets its nonce, after whatever was sent in the meantime.
SendStorageAdd ==
  /\ storageAdds # <<>>
  /\ Submit(Head(storageAdds))
  /\ storageAdds' = Tail(storageAdds)
  /\ UNCHANGED <<vars, todo, readBlocks, clientVars, outcome, methodVars>>

\* An unhandled rejection ends the process.
StorageAddFails ==
  /\ storageAdds # <<>>
  /\ Disturb /\ Throw
  /\ storageAdds' = <<>>
  /\ UNCHANGED <<vars, clientVars, methodVars>>

\* A process with nothing to do has ended, and another one is started.
NewProcess ==
  /\ todo = <<>>
  /\ NextAttempt
  /\ Return("none") /\ storageAdds' = <<>>
  /\ proxyContract' = NoProxy /\ migrationState' = FALSE
  /\ UNCHANGED <<vars, methodVars>>

-----------------------------------------------------------------------------
Method ==
  \/ ReadSource \/ SendAddBlock \/ SendDeployment \/ CallAddStorage \/ Sleep
  \/ ReadProxyChain \/ SendVerify \/ AwaitReceipt \/ GetMigrationState \/ SendUpdate
  \/ SendStorageAdd

Target == (ExecuteTx \/ SealBlock) /\ UNCHANGED demoVars

DemoNext ==
  \/ CallInitialize
  \/ \E p \in Wired :
        \/ CallOnDeployed(p)
        \/ \E n \in SrcBlocks : CallVerify(p, n)
        \/ \E isDeployed \in BOOLEAN : CallMigrateChanges(isDeployed, p)
  \/ Method
  \/ CallFails \/ StorageAddFails \/ NewProcess
  \/ Target
  \/ NoiseBlock /\ UNCHANGED demoVars
  \/ SourceBlock /\ UNCHANGED <<accountVars, demoVars>>

\* The process runs, and the target chain executes and seals what it is sent.
DemoFairness == WF_demoAllVars(Method) /\ WF_demoAllVars(Target)

DemoSpec == DemoInit /\ [][DemoNext]_demoAllVars /\ DemoFairness

-----------------------------------------------------------------------------
(***************************************************************************)
(* Properties.                                                             *)
(***************************************************************************)
\* The type invariant: the client's headers and proofs are of blocks that the two
\* chains have.
DemoTypeOK ==
  /\ AccountTypeOK
  /\ latestBlock \in 0..Len(srcChain)
  /\ {latestProxyChainBlock, proxyChainProof} \subseteq 0..Len(tgtChain)
  /\ proxyContract \in Proxies \cup {NoProxy}
  /\ outcome \in {"none", "thrown", "number", "true", "false"}
  /\ Len(storageAdds) \in 0..MaxCommands

\* Although no receipt of a batch is waited for, and a process may die with its
\* batch under way, a client that sleeps long enough records no proxy as
\* migrated that is not a complete copy of the recorded block.
PatientCopyIsComplete == patient => MigratedCopyIsComplete

\* The source's storage in the block the client has read is in its key list.
KeyListSuffices == \A k \in Keys \ KeyList : srcChain[latestBlock][k] = Empty

\* A client that sleeps long enough migrates a proxy, however much an earlier
\* process left in it: once the client has read a block whose storage it has the
\* keys of, and unless a call fails or others mine a block, the method reports
\* that the proxy is migrated.
DemoMigrates ==
  (/\ patient /\ ~disturbed
   /\ \/ todo = Tail(InitializeProxyContract)
      \/ todo = Tail(InitiateMigrationWithDeployedProxy) /\ ~Migrated(proxyContract)
   /\ KeyListSuffices
   /\ mempool = <<>> /\ storageAdds = <<>>)
  ~> (outcome = "true" \/ disturbed)

=============================================================================
