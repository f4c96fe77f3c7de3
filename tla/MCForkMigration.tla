--------------------------- MODULE MCForkMigration ---------------------------
(***************************************************************************)
(* ForkMigration and DendrethRelay for TLC: one operator alone brings the  *)
(* proxies into being, either with the fork command, through the mempool   *)
(* and with failing calls, or by the protocol of SerialSpec, which goes on *)
(* to update them.  Both implement Mirror.                                 *)
(***************************************************************************)
EXTENDS ForkMigration, DendrethRelay, TLC

CONSTANTS
  p1, p2,
  SerialProxies,    \* bound: the proxies of the serial operator
  SerialTgtBlocks,  \* bound: last target block under the serial operator
  ForkSrcBlocks     \* bound: last source block under the fork command

VARIABLE command    \* whether the operator runs the fork command

mcVars == <<allVars, beaconVars, command>>

\* config.ts as it is, and as ProxyContract.sol would need it.
ConfigPlaceholder == [relay |-> "0x4f0C", logic |-> "0xf6eE", source |-> "0xF7E3"]
MatchingPlaceholder == DeclaredAddress

\* The two proxies the account deploys.
MCAddresses == <<p1, p2>>

\* The command is not used.
ForkIdle ==
  /\ AccountInit({})
  /\ args = [srcBlock |-> 0, pairsPerBatch |-> 1]
  /\ pc = "done"
  /\ keys = {} /\ proxyKeys = {}
  /\ header = 0 /\ proofBlock = 0 /\ proxyHeader = 0 /\ proxyProof = 0

MCInit ==
  /\ DendrethInit
  /\ \/ command = TRUE /\ ForkInit
     \/ command = FALSE /\ ForkIdle

CommandNext ==
  /\ ForkNext /\ UNCHANGED beaconVars
  /\ Len(srcChain') <= ForkSrcBlocks

OperatorNext ==
  /\ SerialNext /\ UNCHANGED <<accountVars, forkVars>>
  /\ Len(tgtChain') <= SerialTgtBlocks
  /\ \A p \in Proxies \ SerialProxies :
       proxyStorage'[p] = proxyStorage[p] /\ proxyStorageInfos'[p] = proxyStorageInfos[p]

MCNext ==
  \/ command /\ CommandNext /\ UNCHANGED command
  \/ ~command /\ OperatorNext /\ UNCHANGED command

MCSpec == MCInit /\ [][MCNext]_mcVars /\ ForkFairness

=============================================================================
