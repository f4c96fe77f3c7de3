-------------------------- MODULE MCClientLibrary --------------------------
(***************************************************************************)
(* What the client does on its own, for TLC: getAllKeys,                   *)
(* findDeploymentBlock, DiffHandler, the commands, and the code that       *)
(* deploys the logic contract.  They share nothing, so a behaviour is a    *)
(* use of one of them, the variables of the others being left in a state   *)
(* of theirs in which nothing is to do.                                    *)
(***************************************************************************)
EXTENDS KeyPaging, FindDeploymentBlock, StorageDiff, CommandLine, DeployingCode

\* getAllKeys has returned from a contract without keys.
PagingIdle ==
  /\ blockNum = "number"
  /\ keysAtStart = {} /\ present = {} /\ always = {} /\ keys = {}
  /\ offset = 0 /\ batchCounter = 2
  /\ paging = "return"
  /\ blocks = 0

\* findDeploymentBlock has returned -1 on the longest chain.
SearchIdle ==
  /\ deployment = MaxHead + 1
  /\ head = MaxHead /\ atStart = MaxHead
  /\ pc = "return"
  /\ low = MaxHead + 1 /\ high = MaxHead /\ mid = MaxHead
  /\ currCode = "0x"
  /\ result = -1

\* The contract has executed all its transactions, none of which changed a slot.
DiffIdle ==
  /\ history = [n \in 1..(MaxTxs + 1) |-> [k \in Keys |-> Empty]]
  /\ lost = {}

\* migration-status has found its config file missing.
CommandIdle ==
  /\ command = [name |-> "migration-status", proxyGiven |-> TRUE, relayGiven |-> FALSE,
                diffMode |-> "srcTx", account |-> "none", srcBlocknr |-> Latest,
                targetBlocknr |-> Latest, blockBatch |-> Unlimited]
  /\ place = "exit"
  /\ proxyContract = FALSE /\ relayContract = FALSE
  /\ migrationState = FALSE /\ initialized = FALSE
  /\ srcBlocknr = Latest /\ targetBlocknr = Latest
  /\ srcBlock = 0 /\ diffBase = Latest
  /\ sent = {} /\ record = 0

\* The code of length 1 is deployed.
CodeIdle ==
  /\ codeLength = 1 /\ value = 0
  /\ at = Len(DeployCode(1)) - 2
  /\ stack = <<0, 1>>
  /\ memory = [offset |-> Len(DeployCode(1)), size |-> 1]
  /\ deployed = [how |-> "returned", code |-> memory]

MCInit ==
  \/ PagingInit /\ SearchIdle /\ DiffIdle /\ CommandIdle /\ CodeIdle
  \/ PagingIdle /\ SearchInit /\ DiffIdle /\ CommandIdle /\ CodeIdle
  \/ PagingIdle /\ SearchIdle /\ DiffInit /\ CommandIdle /\ CodeIdle
  \/ PagingIdle /\ SearchIdle /\ DiffIdle /\ CommandInit /\ CodeIdle
  \/ PagingIdle /\ SearchIdle /\ DiffIdle /\ CommandIdle /\ CodeInit

MCNext ==
  \/ PagingNext /\ UNCHANGED <<deploymentVars, diffVars, commandVars, evmVars>>
  \/ SearchNext /\ UNCHANGED <<pagingVars, diffVars, commandVars, evmVars>>
  \/ DiffNext /\ UNCHANGED <<pagingVars, deploymentVars, commandVars, evmVars>>
  \/ CommandNext /\ UNCHANGED <<pagingVars, deploymentVars, diffVars, evmVars>>
  \/ Instruction /\ UNCHANGED <<pagingVars, deploymentVars, diffVars, commandVars>>

MCSpec ==
  /\ MCInit
  /\ [][MCNext]_<<pagingVars, deploymentVars, diffVars, commandVars, evmVars>>
  /\ WF_pagingVars(NextPage) /\ WF_deploymentVars(Search)
  /\ WF_commandVars(Command) /\ WF_evmVars(Instruction)

=============================================================================
