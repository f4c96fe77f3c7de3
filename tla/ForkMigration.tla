---------------------------- MODULE ForkMigration ----------------------------
(***************************************************************************)
(* The fork command: ChainProxy.migrateSrcContract driving the contracts   *)
(* of RelayProxy with the account of TargetAccount.  One process reads the *)
(* two chains over separate RPC calls.  Both chains go on meanwhile:       *)
(* between any two reads the source may mine a block, and the target a     *)
(* block of somebody else.  When a fork has failed, the operator may run   *)
(* the command again: a new process deploys another proxy.                 *)
(*                                                                         *)
(* Abstractions.  An RPC call is one step and reads one block; paging      *)
(* through the storage keys is left out.  The relay contract exists: the   *)
(* command is given its address.                                           *)
(***************************************************************************)
EXTENDS TargetAccount

CONSTANT MaxPairs     \* bound: the largest key_value_pair_per_batch

ASSUME ForkAssumption == MaxPairs \in Nat \ {0}

VARIABLES
  args,        \* the command's options, see ForkInit
  pc,          \* where migrateSrcContract is
  keys,        \* the storage keys getAllKeys returned
  header,      \* latestBlock: number of the source header
  proofBlock,  \* the source block of initialValuesProof
  proxyKeys,   \* slots not yet submitted
  proxyHeader, \* latestProxyChainBlock: number of the target header
  proxyProof   \* the target block of proxyChainProof

readVars == <<args, keys, header, proofBlock, proxyHeader, proxyProof>>
forkVars == <<pc, readVars, proxyKeys>>
allVars == <<vars, accountVars, forkVars>>

\* The source block a call with the srcBlock argument reads.
At == IF args.srcBlock = 0 THEN Len(srcChain) ELSE args.srcBlock

Goto(from, to) == pc = from /\ pc' = to

\* srcBlock is --src-blocknr, a block number or 0 for 'latest', and pairsPerBatch
\* key_value_pair_per_batch.
Arguments == [srcBlock : 0..1, pairsPerBatch : 1..MaxPairs]

ForkInit ==
  /\ Init /\ AccountInit({})
  /\ args \in Arguments
  /\ pc = "keys"
  /\ keys = {} /\ proxyKeys = {}
  /\ header = 0 /\ proofBlock = 0 /\ proxyHeader = 0 /\ proxyProof = 0

-----------------------------------------------------------------------------
(***************************************************************************)
(* migrateSrcContract, up to the deployment of the proxy.                  *)
(***************************************************************************)
ReadKeys ==
  /\ Goto("keys", "header")
  /\ keys' = {k \in Keys : srcChain[At][k] # Empty}
  /\ UNCHANGED <<vars, args, header, proofBlock, proxyHeader, proxyProof, proxyKeys, accountVars>>

ReadHeader ==
  /\ Goto("header", "proof")
  /\ header' = At
  /\ UNCHANGED <<vars, args, keys, proofBlock, proxyHeader, proxyProof, proxyKeys, accountVars>>

ReadProof ==
  /\ Goto("proof", "addBlock")
  /\ proofBlock' = At
  /\ proxyKeys' = keys
  /\ UNCHANGED <<vars, args, keys, header, proxyHeader, proxyProof, accountVars>>

\* The promise of addBlock is that of its submission, nobody waits for it.
SubmitAddBlock ==
  /\ Goto("addBlock", "cloneLogic")
  /\ Submit(AddBlockTx(header))
  /\ UNCHANGED <<vars, readVars, proxyKeys>>

\* cloneLogic and deployProxy submit and wait for the receipt.
SubmitDeployment ==
  /\ \/ Goto("cloneLogic", "waitLogic") /\ Submit(DeployTx({}))
     \/ Goto("deployProxy", "waitProxy") /\ Submit(DeployTx({NewProxy}))
  /\ UNCHANGED <<vars, readVars, proxyKeys>>

Deployed ==
  /\ Goto("waitLogic", "deployProxy") \/ Goto("waitProxy", "batches")
  /\ AllMined
  /\ UNCHANGED <<vars, readVars, proxyKeys, accountVars>>

-----------------------------------------------------------------------------
(***************************************************************************)
(* initialStorageMigration.                                                *)
(***************************************************************************)
\* Mutant: the loop runs while a full batch is left.
FullBatchesOnly ==
  \/ /\ Goto("batches", "receipts")
     /\ Cardinality(proxyKeys) < args.pairsPerBatch
     /\ UNCHANGED <<vars, readVars, proxyKeys, accountVars>>
  \/ \E ks \in SUBSET proxyKeys :
       /\ pc = "batches" /\ pc' = pc
       /\ Cardinality(ks) = args.pairsPerBatch
       /\ Submit(AddStorageTx(NewProxy, proofBlock, ks))
       /\ proxyKeys' = proxyKeys \ ks
       /\ UNCHANGED <<vars, readVars>>

\* One batch after the other, each submission awaited, none of the receipts.
SubmitBatches ==
  \/ /\ Goto("batches", "receipts")
     /\ proxyKeys = {}
     /\ UNCHANGED <<vars, readVars, proxyKeys, accountVars>>
  \/ \E ks \in SUBSET proxyKeys :
       /\ pc = "batches" /\ pc' = pc
       /\ ks # {}
       /\ Cardinality(ks) = args.pairsPerBatch \/ (ks = proxyKeys /\ Cardinality(ks) < args.pairsPerBatch)
       /\ Submit(AddStorageTx(NewProxy, proofBlock, ks))
       /\ proxyKeys' = proxyKeys \ ks
       /\ UNCHANGED <<vars, readVars>>

\* All receipts; a reverted batch rejects, which nothing catches.
BatchesMined ==
  /\ AllMined
  /\ IF "addStorage" \in reverted THEN Goto("receipts", "crashed") ELSE Goto("receipts", "proxyHeader")
  /\ UNCHANGED <<vars, readVars, proxyKeys, accountVars>>

\* Mutant: the header of the block still being built.
ReadPendingHeader ==
  /\ Goto("proxyHeader", "proxyProof")
  /\ proxyHeader' = Len(tgtChain) + 1
  /\ UNCHANGED <<vars, args, keys, header, proofBlock, proxyProof, proxyKeys, accountVars>>

\* The latest target header, and then the proxy's account proof, also 'latest'.
ReadProxyHeader ==
  /\ Goto("proxyHeader", "proxyProof")
  /\ proxyHeader' = Len(tgtChain)
  /\ UNCHANGED <<vars, args, keys, header, proofBlock, proxyProof, proxyKeys, accountVars>>

ReadProxyProof ==
  /\ Goto("proxyProof", "verify")
  /\ proxyProof' = LatestProof(NewProxy)
  /\ UNCHANGED <<vars, args, keys, header, proofBlock, proxyHeader, proxyKeys, accountVars>>

SubmitVerify ==
  /\ Goto("verify", "waitVerify")
  /\ Submit(VerifyTx(NewProxy, proxyHeader, proxyProof, proofBlock, header))
  /\ UNCHANGED <<vars, readVars, proxyKeys>>

\* Mutant: a reverted verification is waited for again.
VerifySuccessful ==
  /\ AllMined /\ "verify" \notin reverted
  /\ Goto("waitVerify", "check")
  /\ UNCHANGED <<vars, readVars, proxyKeys, accountVars>>

VerifyMined ==
  /\ AllMined
  /\ IF "verify" \in reverted THEN Goto("waitVerify", "failed") ELSE Goto("waitVerify", "check")
  /\ UNCHANGED <<vars, readVars, proxyKeys, accountVars>>

CheckMigrationState ==
  /\ IF Migrated(NewProxy) THEN Goto("check", "done") ELSE Goto("check", "failed")
  /\ UNCHANGED <<vars, readVars, proxyKeys, accountVars>>

\* A failing read, and a failing batch, end the process; a failing deployment or
\* verification is caught and answered with false.
RpcFails ==
  /\ Disturb
  /\ \/ /\ pc \in {"keys", "header", "proof", "addBlock", "receipts", "proxyHeader", "proxyProof"}
        /\ pc' = "crashed"
     \/ pc = "batches" /\ proxyKeys # {} /\ pc' = "exited"
     \/ /\ pc \in {"cloneLogic", "waitLogic", "deployProxy", "waitProxy",
                   "verify", "waitVerify", "check"}
        /\ pc' = "failed"
     \/ pc = "cloneLogic" /\ pc' = "crashed"
  /\ UNCHANGED <<vars, readVars, proxyKeys>>

Ended == {"done", "failed", "crashed", "exited"}

\* The command is run again: nothing is kept, and nothing resumed.
RunAgain ==
  /\ pc \in Ended \ {"done"} /\ pc' = "keys"
  /\ NextAttempt
  /\ args' \in Arguments
  /\ keys' = {} /\ proxyKeys' = {}
  /\ header' = 0 /\ proofBlock' = 0 /\ proxyHeader' = 0 /\ proxyProof' = 0
  /\ UNCHANGED vars

Operator ==
  \/ ReadKeys \/ ReadHeader \/ ReadProof
  \/ SubmitAddBlock \/ SubmitDeployment \/ Deployed
  \/ SubmitBatches \/ BatchesMined
  \/ ReadProxyHeader \/ ReadProxyProof \/ SubmitVerify \/ VerifyMined \/ CheckMigrationState

-----------------------------------------------------------------------------
Execute == ExecuteTx /\ UNCHANGED forkVars
Seal == SealBlock /\ UNCHANGED forkVars
OthersBlock == NoiseBlock /\ UNCHANGED forkVars

ForkNext ==
  \/ Operator
  \/ RpcFails
  \/ RunAgain
  \/ Execute
  \/ Seal
  \/ OthersBlock
  \/ SourceBlock /\ UNCHANGED <<accountVars, forkVars>>

\* The process runs, and the target chain executes and seals what it is sent.
ForkFairness == WF_allVars(Operator) /\ WF_allVars(Execute) /\ WF_allVars(Seal)

ForkSpec == ForkInit /\ [][ForkNext]_allVars /\ ForkFairness

-----------------------------------------------------------------------------
(***************************************************************************)
(* Properties.                                                             *)
(***************************************************************************)
\* The type invariant: what the process has read are slots and blocks that exist,
\* and it submits only keys it was given by getAllKeys.
ForkTypeOK ==
  /\ AccountTypeOK
  /\ pc \in Ended \cup {"keys", "header", "proof", "addBlock", "cloneLogic", "waitLogic",
                        "deployProxy", "waitProxy", "batches", "receipts", "proxyHeader",
                        "proxyProof", "verify", "waitVerify", "check"}
  /\ proxyKeys \subseteq keys /\ keys \subseteq Keys
  /\ {header, proofBlock} \subseteq 0..Len(srcChain)
  /\ {proxyHeader, proxyProof} \subseteq 0..Len(tgtChain)

\* With a block number for --src-blocknr, and as long as no call fails and the
\* target chain only mines the account's transactions, a fork succeeds, however
\* the storage splits into batches and whatever an earlier process left behind.
ForkSucceeds == (pc = "keys" /\ args.srcBlock = 1 /\ ~disturbed) ~> (pc = "done" \/ disturbed)

\* Whatever the two chains do meanwhile, a fork comes to an end.
ForkEnds == []<>(pc \in Ended)

=============================================================================
