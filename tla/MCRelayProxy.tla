---------------------------- MODULE MCRelayProxy ----------------------------
(***************************************************************************)
(* RelayProxy and DemoClient for TLC: the two contracts under any          *)
(* transactions, with proxies that have been there from the start, or      *)
(* under those of the client of the demo.                                  *)
(***************************************************************************)
EXTENDS DemoClient, TLC

CONSTANTS
  p1, p2,
  RelayProxies,     \* bound: proxies that anyone uses
  RelayTgtBlocks,   \* bound: last target block without the client
  ClientSrcBlocks   \* bound: last source block with the client

VARIABLE client     \* whether the client is the one who sends transactions

mcVars == <<demoAllVars, client>>

SlotSymmetry == Permutations(Keys)
MatchingPlaceholder == DeclaredAddress
MCAddresses == <<p1, p2>>

ClientIdle ==
  /\ AccountInit(Proxies)
  /\ Constructed
  /\ patient = FALSE /\ commands = 0

MCInit ==
  \/ client = FALSE /\ Init /\ ClientIdle
  \/ client = TRUE /\ DemoInit

RelayNext ==
  /\ FedNext /\ UNCHANGED <<accountVars, demoVars>>
  /\ Len(tgtChain') <= RelayTgtBlocks
  /\ \A p \in Proxies \ RelayProxies :
       proxyStorage'[p] = proxyStorage[p] /\ proxyStorageInfos'[p] = proxyStorageInfos[p]

ClientNext == DemoNext /\ Len(srcChain') <= ClientSrcBlocks

MCNext ==
  \/ ~client /\ RelayNext /\ UNCHANGED client
  \/ client /\ ClientNext /\ UNCHANGED client

MCSpec == MCInit /\ [][MCNext]_mcVars /\ DemoFairness

=============================================================================
