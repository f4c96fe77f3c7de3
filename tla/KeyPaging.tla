----------------------------- MODULE KeyPaging -----------------------------
(***************************************************************************)
(* getAllKeys of utils.ts: the storage keys of a contract, listed page by  *)
(* page.  fork, state-diff and synchronize build their copy or their diff  *)
(* on the result.  With a block number every page is read from the same    *)
(* block, with 'latest', the default, from the block that is the latest    *)
(* then: the contract's storage may change between two pages.              *)
(*                                                                         *)
(* The node lists keys in the order of their hashes: a key is the number   *)
(* of its place in that order.                                             *)
(***************************************************************************)
EXTENDS Integers, FiniteSets

CONSTANTS
  MaxKey,     \* bound: keys are 1..MaxKey
  BatchSize,  \* batchSize
  MaxBlocks   \* bound: source blocks mined while the pages are read

AllKeys == 1..MaxKey

ASSUME PagingAssumption ==
  /\ MaxKey \in Nat
  /\ BatchSize \in Nat \ {0}
  /\ MaxBlocks \in Nat

VARIABLES
  blockNum,     \* "latest" or "number"
  keysAtStart,  \* the keys in the block the first page is read from
  present,      \* the keys in the block the next page is read from
  always,       \* the keys that were present all the time
  keys,         \* the keys listed so far
  offset,       \* the last of them, 0 for null
  batchCounter,
  paging,       \* "page", "return" or "throw"
  blocks        \* blocks mined so far

pagingVars == <<blockNum, keysAtStart, present, always, keys, offset, batchCounter, paging, blocks>>

\* parity_listStorageKeys(contract, count, from): the first count keys behind
\* from, or all of them if there are fewer.
IsPage(page, all, count, from) ==
  LET rest == {k \in all : k > from}
  IN  /\ page \subseteq rest
      /\ \A k \in page, l \in rest \ page : k < l
      /\ IF Cardinality(rest) <= count THEN page = rest ELSE Cardinality(page) = count

PagingInit ==
  /\ blockNum \in {"latest", "number"}
  /\ keysAtStart \in SUBSET AllKeys
  /\ present = keysAtStart /\ always = keysAtStart
  /\ keys = {} /\ offset = 0
  /\ batchCounter = 1
  /\ paging = "page"
  /\ blocks = 0

\* A block is mined in which the contract's keys are any set.
Block ==
  /\ blockNum = "latest" /\ paging = "page" /\ blocks < MaxBlocks
  /\ present' \in SUBSET AllKeys
  /\ always' = always \cap present'
  /\ blocks' = blocks + 1
  /\ UNCHANGED <<blockNum, keysAtStart, keys, offset, batchCounter, paging>>

\* The list has grown by a page; its last key is the next offset.
Appended(page) ==
  /\ keys' = keys \cup page
  /\ \/ page = {} /\ offset' = offset
     \/ offset' \in page /\ \A k \in page : k <= offset'
  /\ batchCounter' = batchCounter + 1
  /\ UNCHANGED <<blockNum, keysAtStart, present, always, blocks>>

\* Mutants: the loop ends with a page shorter than what was asked for, where the
\* node may have been asked for more than there is; an empty page is taken for an
\* error; the next page starts at the first key; the offset is itself skipped.
NextPageIfLonger ==
  /\ paging = "page"
  /\ \E page \in SUBSET AllKeys :
       /\ IsPage(page, present, BatchSize * batchCounter, offset)
       /\ Appended(page)
       /\ paging' = IF Cardinality(page) > BatchSize * batchCounter THEN "page" ELSE "return"

NextPageNotEmpty ==
  /\ paging = "page"
  /\ \E page \in (SUBSET AllKeys) \ {{}} :
       /\ IsPage(page, present, BatchSize * batchCounter, offset)
       /\ Appended(page)
       /\ paging' = IF Cardinality(page) >= BatchSize THEN "page" ELSE "return"

\* The node answers null where there is no contract, and so none of its keys.
NoContract ==
  /\ present = {}
  /\ paging' = "throw"
  /\ UNCHANGED <<blockNum, keysAtStart, present, always, keys, offset, batchCounter, blocks>>

\* One turn of the loop.  The page asked for grows with the counter, the loop
\* ends with a page shorter than a batch, or with null.
NextPage ==
  /\ paging = "page"
  /\ \/ NoContract
     \/ \E page \in SUBSET AllKeys :
          /\ IsPage(page, present, BatchSize * batchCounter, offset)
          /\ Appended(page)
          /\ paging' = IF Cardinality(page) >= BatchSize THEN "page" ELSE "return"

PagingNext == NextPage \/ Block

PagingSpec == PagingInit /\ [][PagingNext]_pagingVars /\ WF_pagingVars(NextPage)

-----------------------------------------------------------------------------
(***************************************************************************)
(* Properties.                                                             *)
(***************************************************************************)
\* The type invariant.
PagingTypeOK ==
  /\ blockNum \in {"latest", "number"}
  /\ {keysAtStart, present, always, keys} \subseteq SUBSET AllKeys
  /\ offset \in 0..MaxKey
  /\ batchCounter \in Nat \ {0}
  /\ paging \in {"page", "return", "throw"}
  /\ blocks \in 0..MaxBlocks

\* No page lists a key again: every page lies behind the keys before it.
PagesAreDisjoint ==
  [][\A k \in keys' \ keys : \A l \in keys : l < k]_pagingVars

\* Of one block the result has all keys and no others.
ListsAllKeys == paging = "return" /\ blockNum = "number" => keys = keysAtStart

\* While blocks are mined, a key the contract never lost is still listed.
ListsLastingKeys == paging = "return" => always \subseteq keys

\* The loop ends, however many keys there are and whatever is mined.
PagingEnds == <>(paging \in {"return", "throw"})

=============================================================================
