---------------------------- MODULE TargetAccount ----------------------------
(***************************************************************************)
(* The account on the target chain whose transactions drive the contracts  *)
(* of RelayProxy, and the chain that executes them.  A client process      *)
(* submits; a submitted transaction waits in the mempool, is executed in   *)
(* the order of the account's nonces, and is mined with the block sealed   *)
(* next.  A process that dies leaves its transactions behind: the next one *)
(* with the same account queues up after them.                             *)
(*                                                                         *)
(* Abstractions.  An account proof of a proxy read in one target block     *)
(* leads to the state root of no other, because every block carries some   *)
(* transaction.                                                            *)
(***************************************************************************)
EXTENDS RelayProxy, FiniteSets

CONSTANTS
  Placeholder,     \* the placeholder addresses of config.ts
  Addresses,       \* the proxy that a process deploys, if it deploys one
  MaxAttempts,     \* bound: processes, one after the other
  MaxDisturbances  \* bound: disturbances of one process

\* The addresses ProxyContract.sol declares, shortened.
DeclaredAddress == [relay |-> "0x0C4a", logic |-> "0x5870", source |-> "0xd1bA"]

ASSUME AccountAssumption ==
  /\ DOMAIN Placeholder = DOMAIN DeclaredAddress
  /\ MaxAttempts \in Nat \ {0}
  /\ \A i \in 1..MaxAttempts : Addresses[i] \in Wired
  /\ \A i, j \in 1..MaxAttempts : Addresses[i] = Addresses[j] => i = j
  /\ MaxDisturbances \in Nat

VARIABLES
  attempt,     \* the number of the process that runs
  mempool,     \* submitted, not yet executed transactions
  unsealed,    \* whether transactions were executed since the last target block
  deployment,  \* where the deployment of each proxy is
  reverted,    \* the kinds of this process's transactions that reverted
  disturbances \* of this process: failed calls, and target blocks of others

accountVars == <<attempt, mempool, unsealed, deployment, reverted, disturbances>>

\* ProxyContractBuilder.compiledAbiAndBytecode replaces a placeholder where the
\* bytecode has it; the proxy talks to this relay about this source only if
\* both addresses were replaced.
IsWired == \A f \in {"relay", "source"} : Placeholder[f] = DeclaredAddress[f]

NewProxy == Addresses[attempt]

\* eth_getProof of a proxy in the latest target block, 0 if it is not there yet.
LatestProof(p) == IF deployment[p] = "mined" THEN Len(tgtChain) ELSE 0

\* tx.wait(): everything submitted is in a sealed block.
AllMined == mempool = <<>> /\ ~unsealed

Submit(tx) ==
  /\ mempool' = Append(mempool, tx)
  /\ UNCHANGED <<attempt, unsealed, deployment, reverted, disturbances>>

\* What a process submits: roots, contracts, a batch of words of source block m,
\* and the proofs of a proxy in target block h and of the source in block m.
AddBlockTx(n) == [kind |-> "addBlock", by |-> attempt, number |-> n]
DeployTx(ps) == [kind |-> "deploy", by |-> attempt, proxies |-> ps]
AddStorageTx(p, m, ks) ==
  [kind |-> "addStorage", by |-> attempt, proxy |-> p, block |-> m, slots |-> ks]
VerifyTx(p, h, proof, m, n) ==
  [kind |-> "verify", by |-> attempt, proxy |-> p, header |-> h, proxyProof |-> proof,
   block |-> m, number |-> n]
UpdateTx(p) == [kind |-> "update", by |-> attempt, proxy |-> p]

disturbed == disturbances > 0

AccountInit(deployed) ==
  /\ attempt = 1
  /\ mempool = <<>> /\ unsealed = FALSE
  /\ deployment = [p \in Proxies |-> IF p \in deployed THEN "mined" ELSE "none"]
  /\ reverted = {} /\ disturbances = 0

\* An RPC call of the process fails, or a block of others comes in between.
Disturb ==
  /\ disturbances < MaxDisturbances
  /\ disturbances' = disturbances + 1
  /\ UNCHANGED <<attempt, mempool, unsealed, deployment, reverted>>

\* Another process takes over the account.
NextAttempt ==
  /\ attempt < MaxAttempts
  /\ attempt' = attempt + 1
  /\ reverted' = {} /\ disturbances' = 0
  /\ UNCHANGED <<mempool, unsealed, deployment>>

-----------------------------------------------------------------------------
(***************************************************************************)
(* The target chain.                                                       *)
(***************************************************************************)
\* The guards of the contracts' functions.  The storage proof of an update is
\* that of a client which leaves it out, and no list of nodes.
Succeeds(tx) ==
  CASE tx.kind = "addStorage" -> IsWired /\ ~Migrated(tx.proxy)
    [] tx.kind = "verify" ->
         /\ IsWired
         /\ tx.proxyProof = tx.header
         /\ MigrationVerified(tx.proxy, tx.header, tx.block, tx.number)
    [] tx.kind = "update" -> FALSE
    [] OTHER -> TRUE

\* What a transaction that does not revert does.  Processes submit the roots, under
\* their numbers, and the words of blocks they have read.
Effect(tx) ==
  \/ /\ tx.kind = "addBlock"
     /\ tx.number \in 1..Len(srcChain) /\ AddBlock(tx.number, tx.number)
     /\ UNCHANGED deployment
  \/ /\ tx.kind = "deploy"
     /\ deployment' = [p \in Proxies |-> IF p \in tx.proxies THEN "executed" ELSE deployment[p]]
     /\ UNCHANGED vars
  \/ /\ tx.kind = "addStorage"
     /\ tx.block \in 1..Len(srcChain) /\ AddStorage(tx.proxy, srcChain[tx.block], tx.slots)
     /\ UNCHANGED deployment
  \/ /\ tx.kind = "verify"
     /\ VerifyMigrateContract(tx.proxy, tx.header, tx.block, tx.number)
     /\ UNCHANGED deployment

ExecuteTx ==
  /\ mempool # <<>>
  /\ LET tx == Head(mempool)
     IN  \/ Succeeds(tx) /\ Effect(tx) /\ UNCHANGED reverted
         \/ /\ ~Succeeds(tx)
            /\ reverted' = IF tx.by = attempt THEN reverted \cup {tx.kind} ELSE reverted
            /\ UNCHANGED <<vars, deployment>>
  /\ mempool' = Tail(mempool)
  /\ unsealed' = TRUE
  /\ UNCHANGED <<attempt, disturbances>>

\* A block with transactions of the account.
SealBlock ==
  /\ unsealed
  /\ TargetBlock
  /\ unsealed' = FALSE
  /\ deployment' = [p \in Proxies |-> IF deployment[p] = "executed" THEN "mined" ELSE deployment[p]]
  /\ UNCHANGED <<attempt, mempool, reverted, disturbances>>

\* A block with only somebody else's transactions.
NoiseBlock ==
  /\ ~unsealed
  /\ TargetBlock
  /\ Disturb

-----------------------------------------------------------------------------
(***************************************************************************)
(* Properties.                                                             *)
(***************************************************************************)
\* The type invariant: every transaction under way was sent by this process or one
\* before it, and only calls of the proxies and of the verification revert.
AccountTypeOK ==
  /\ TypeOK
  /\ attempt \in 1..MaxAttempts
  /\ \A i \in DOMAIN mempool : mempool[i].by \in 1..attempt
  /\ unsealed \in BOOLEAN
  /\ deployment \in [Proxies -> {"none", "executed", "mined"}]
  /\ reverted \subseteq {"addStorage", "verify", "update"}
  /\ disturbances \in 0..MaxDisturbances

\* A proxy that the relay records as migrated is a complete copy: it holds the
\* source's storage in the recorded block, whatever a process read in which
\* block, and whatever the processes before it left half done.
MigratedCopyIsComplete ==
  \A p \in Proxies : Migrated(p) =>
    proxyStorage[p] = srcChain[proxyStorageInfos[p].blockNumber]

=============================================================================
