------------------------ MODULE FindDeploymentBlock ------------------------
(***************************************************************************)
(* findDeploymentBlock of utils.ts: the binary search for the block a      *)
(* contract was deployed in, from which getTransactions replays the        *)
(* contract's history when no first block is given.  The head of the chain *)
(* is read once; every look at the code is an RPC call of its own, and the *)
(* chain grows between them.  The search ends with the deployment block or *)
(* with -1.                                                                *)
(***************************************************************************)
EXTENDS Integers

CONSTANT MaxHead  \* bound: last block of the chain

ASSUME HeadAssumption == MaxHead \in Nat

VARIABLES
  deployment, \* the block the contract is deployed in
  head,       \* number of the chain's latest block
  atStart,    \* what head was when the search read it
  pc,         \* "head", "loop", "code", "before" or "return"
  low, high,  \* the search interval
  mid,        \* the block looked at
  currCode,   \* the code at mid
  result

searchVars == <<atStart, pc, low, high, mid, currCode, result>>
deploymentVars == <<deployment, head, atStart, pc, low, high, mid, currCode, result>>

\* provider.getCode(contractAddress, n): nothing but '0x' before the deployment
CodeAt(n) == IF n <= head /\ n >= deployment THEN "code" ELSE "0x"

SearchInit ==
  /\ deployment \in 0..(MaxHead + 1)
  /\ head \in 0..MaxHead
  /\ atStart = head
  /\ pc = "head"
  /\ low = 0 /\ high = 0 /\ mid = 0
  /\ currCode = "0x"
  /\ result = -1

\* The chain grows.
Grow ==
  /\ head < MaxHead
  /\ head' = head + 1
  /\ UNCHANGED <<deployment, searchVars>>

\* provider.getBlockNumber()
ReadHead ==
  /\ pc = "head" /\ pc' = "loop"
  /\ high' = head /\ atStart' = head
  /\ UNCHANGED <<deployment, head, low, mid, currCode, result>>

\* Mutant: the loop stops at an interval of one block.
LoopWhileLess ==
  /\ pc = "loop"
  /\ IF low < high
     THEN pc' = "code" /\ mid' = (low + high) \div 2 /\ UNCHANGED result
     ELSE pc' = "return" /\ result' = -1 /\ UNCHANGED mid
  /\ UNCHANGED <<deployment, head, atStart, low, high, currCode>>

Loop ==
  /\ pc = "loop"
  /\ IF low <= high
     THEN pc' = "code" /\ mid' = (low + high) \div 2 /\ UNCHANGED result
     ELSE pc' = "return" /\ result' = -1 /\ UNCHANGED mid
  /\ UNCHANGED <<deployment, head, atStart, low, high, currCode>>

\* currCode = getCode(mid); a contract at block 0 has no block before it.
ReadCode ==
  /\ pc = "code"
  /\ currCode' = CodeAt(mid)
  /\ IF currCode' = "code" /\ mid = 0 THEN pc' = "return" /\ result' = mid
                           ELSE pc' = "before" /\ UNCHANGED result
  /\ UNCHANGED <<deployment, head, atStart, low, high, mid>>

\* Mutant: the upper half keeps its lower end.
NarrowSlowly ==
  /\ pc = "before"
  /\ IF currCode = "code" /\ CodeAt(mid - 1) = "0x"
     THEN pc' = "return" /\ result' = mid /\ UNCHANGED <<low, high>>
     ELSE /\ pc' = "loop" /\ UNCHANGED result
          /\ IF currCode = "code" THEN high' = mid - 1 /\ UNCHANGED low
                                 ELSE low' = mid /\ UNCHANGED high
  /\ UNCHANGED <<deployment, head, atStart, mid, currCode>>

\* Mutant: any block with code is the deployment block.
NarrowAtAnyCode ==
  /\ pc = "before"
  /\ IF currCode = "code"
     THEN pc' = "return" /\ result' = mid /\ UNCHANGED <<low, high>>
     ELSE pc' = "loop" /\ low' = mid + 1 /\ UNCHANGED <<high, result>>
  /\ UNCHANGED <<deployment, head, atStart, mid, currCode>>

\* getCode(mid - 1), which is only asked when there is code at mid.
Narrow ==
  /\ pc = "before"
  /\ IF currCode = "code" /\ CodeAt(mid - 1) = "0x"
     THEN pc' = "return" /\ result' = mid /\ UNCHANGED <<low, high>>
     ELSE /\ pc' = "loop" /\ UNCHANGED result
          /\ IF currCode = "code" THEN high' = mid - 1 /\ UNCHANGED low
                                 ELSE low' = mid + 1 /\ UNCHANGED high
  /\ UNCHANGED <<deployment, head, atStart, mid, currCode>>

Search == ReadHead \/ Loop \/ ReadCode \/ Narrow

SearchNext == Search \/ Grow

SearchSpec == SearchInit /\ [][SearchNext]_deploymentVars /\ WF_deploymentVars(Search)

-----------------------------------------------------------------------------
(***************************************************************************)
(* Properties.                                                             *)
(***************************************************************************)
\* The type invariant.
SearchTypeOK ==
  /\ deployment \in Nat
  /\ head \in 0..MaxHead /\ atStart \in 0..head
  /\ pc \in {"head", "loop", "code", "before", "return"}
  /\ low \in Nat /\ high \in -1..atStart /\ mid \in Nat
  /\ currCode \in {"0x", "code"}
  /\ result \in Nat \cup {-1}

\* A block that is returned is the deployment block.
FoundIsDeployment == pc = "return" /\ result # -1 => result = deployment

\* The search fails only on a contract that was not yet deployed when the search
\* began, however the chain grows meanwhile.
MissedOnlyLater == pc = "return" /\ result = -1 => deployment > atStart

\* The search ends, the chain growing or not.
SearchEnds == <>(pc = "return")

=============================================================================
