------------------------- MODULE ClientLibrary_proofs -------------------------
(***************************************************************************)
(* What the client does on its own is right for every number of keys and   *)
(* batch size, on every chain, for every set of slots and words, and for   *)
(* every command line.                                                     *)
(***************************************************************************)
EXTENDS KeyPaging, FindDeploymentBlock, StorageDiff, CommandLine, TLAPS

-----------------------------------------------------------------------------
(***************************************************************************)
(* getAllKeys.                                                             *)
(***************************************************************************)
\* The inductive invariant: up to the offset the list has every lasting key, and
\* of one block exactly the keys.
PagingInv ==
  /\ PagingTypeOK
  /\ always \subseteq present
  /\ \A k \in keys : k <= offset
  /\ \A k \in always : k <= offset => k \in keys
  /\ paging = "return" => always \subseteq keys
  /\ blockNum = "number" => present = keysAtStart /\ always = keysAtStart /\ keys \subseteq keysAtStart

\* A batch is never more than what is asked for.
LEMMA AskedFor ==
  ASSUME NEW b \in Nat \ {0}, NEW c \in Nat \ {0}
  PROVE  b * c \in Nat /\ b <= b * c
<1>1. PICK d \in Nat : c = d + 1
  <2>1. c - 1 \in Nat /\ c = (c - 1) + 1
    OBVIOUS
  <2> QED BY <2>1
<1>2. b * c = b * d + b /\ b * d \in Nat
  BY <1>1
<1> QED
  BY <1>2

\* A page shorter than a batch is all that is left.
LEMMA ShortPage ==
  ASSUME PagingTypeOK, NEW page, IsPage(page, present, BatchSize * batchCounter, offset),
         ~(Cardinality(page) >= BatchSize)
  PROVE  page = {k \in present : k > offset}
<1>1. BatchSize * batchCounter \in Nat /\ BatchSize <= BatchSize * batchCounter
  BY AskedFor, PagingAssumption DEF PagingAssumption, PagingTypeOK
<1>2. Cardinality(page) # BatchSize * batchCounter
  BY <1>1, PagingAssumption DEF PagingAssumption
<1> QED
  BY <1>2 DEF IsPage

LEMMA PagingInitInv == ASSUME PagingInit PROVE PagingInv
BY PagingAssumption DEF PagingAssumption, PagingInit, PagingInv, PagingTypeOK, AllKeys

LEMMA BlockInv == ASSUME PagingInv, Block PROVE PagingInv'
<1>1. PagingTypeOK'
  BY PagingAssumption DEF PagingAssumption, PagingInv, PagingTypeOK, Block
<1> QED
  BY <1>1 DEF PagingInv, Block

LEMMA NullInv == ASSUME PagingInv, NoContract PROVE PagingInv'
<1>1. PagingTypeOK'
  BY DEF PagingInv, PagingTypeOK, NoContract
<1> QED
  BY <1>1 DEF PagingInv, NoContract

LEMMA PageInv == ASSUME PagingInv, NextPage, ~NoContract PROVE PagingInv'
<1>1. PICK page \in SUBSET AllKeys :
        /\ IsPage(page, present, BatchSize * batchCounter, offset)
        /\ Appended(page)
        /\ paging' = IF Cardinality(page) >= BatchSize THEN "page" ELSE "return"
  BY DEF NextPage
<1>2. page \subseteq {k \in present : k > offset}
  BY <1>1 DEF IsPage
<1>3. PagingTypeOK'
  <2>1. offset' \in 0..MaxKey
    <3>1. (page = {} /\ offset' = offset) \/ offset' \in page
      BY <1>1 DEF Appended
    <3>2. page \subseteq 1..MaxKey /\ offset \in 0..MaxKey
      BY <1>1 DEF PagingInv, PagingTypeOK, AllKeys
    <3>3. CASE offset' = offset
      BY <3>2, <3>3
    <3>4. CASE offset' \in page
      <4>1. offset' \in 1..MaxKey
        BY <3>2, <3>4
      <4> QED BY <4>1, PagingAssumption DEF PagingAssumption
    <3> QED BY <3>1, <3>3, <3>4
  <2>2. batchCounter' \in Nat \ {0}
    BY <1>1 DEF Appended, PagingInv, PagingTypeOK
  <2>3. {keysAtStart, present, always, keys}' \subseteq SUBSET AllKeys
    BY <1>1 DEF Appended, PagingInv, PagingTypeOK
  <2> QED
    BY <1>1, <2>1, <2>2, <2>3 DEF Appended, PagingInv, PagingTypeOK
<1>4. \A k \in keys' : k <= offset'
  <2>1. SUFFICES ASSUME NEW k \in keys' PROVE k <= offset'
    OBVIOUS
  <2>2. offset <= offset'
    <3>1. offset \in Int
      BY DEF PagingInv, PagingTypeOK
    <3>2. offset' = offset \/ offset' \in page
      BY <1>1 DEF Appended
    <3>3. CASE offset' \in page
      <4>1. offset' > offset /\ offset' \in Int
        BY <1>2, <1>3, <3>3 DEF PagingTypeOK
      <4> QED BY <3>1, <4>1
    <3> QED BY <3>1, <3>2, <3>3
  <2>3. CASE k \in page
    BY <1>1, <2>3 DEF Appended
  <2>4. CASE k \in keys
    <3>1. k \in Int /\ offset \in Int /\ offset' \in Int
      BY <1>3, <2>4 DEF PagingInv, PagingTypeOK, AllKeys
    <3>2. k <= offset
      BY <2>4 DEF PagingInv
    <3> QED BY <2>2, <3>1, <3>2
  <2> QED
    BY <1>1, <2>1, <2>3, <2>4 DEF Appended
<1>5. ASSUME NEW k \in always', k <= offset' PROVE k \in keys'
  <2>1. k \in always /\ k \in present /\ k \in Int
    BY <1>1, <1>5 DEF Appended, PagingInv, PagingTypeOK, AllKeys
  <2>2. CASE k <= offset
    BY <1>1, <2>1, <2>2 DEF Appended, PagingInv
  <2>3. CASE k > offset
    <3>1. page # {} /\ offset' \in page
      BY <1>1, <1>5, <2>1, <2>3 DEF Appended, PagingInv, PagingTypeOK
    <3>2. k \in page
      <4>1. ASSUME k \notin page PROVE FALSE
        <5>1. offset' < k
          BY <1>1, <2>1, <2>3, <3>1, <4>1 DEF IsPage
        <5> QED
          BY <1>3, <1>5, <2>1, <5>1 DEF PagingTypeOK
      <4> QED BY <4>1
    <3> QED BY <1>1, <3>2 DEF Appended
  <2> QED
    BY <2>1, <2>2, <2>3 DEF PagingInv, PagingTypeOK
<1>6. ASSUME paging' = "return" PROVE always' \subseteq keys'
  <2>1. page = {k \in present : k > offset}
    BY <1>1, <1>6, ShortPage DEF PagingInv
  <2>2. SUFFICES ASSUME NEW k \in always' PROVE k \in keys'
    OBVIOUS
  <2>3. k \in always /\ k \in present /\ k \in Int
    BY <1>1, <2>2 DEF Appended, PagingInv, PagingTypeOK, AllKeys
  <2> QED
    BY <1>1, <2>1, <2>3 DEF Appended, PagingInv, PagingTypeOK
<1>7. blockNum' = "number" => present' = keysAtStart' /\ always' = keysAtStart' /\ keys' \subseteq keysAtStart'
  BY <1>1, <1>2 DEF Appended, PagingInv
<1>8. always' \subseteq present'
  BY <1>1 DEF Appended, PagingInv
<1> QED
  BY <1>3, <1>4, <1>5, <1>6, <1>7, <1>8 DEF PagingInv

LEMMA PagingStepInv == ASSUME PagingInv, [PagingNext]_pagingVars PROVE PagingInv'
<1>1. CASE UNCHANGED pagingVars
  BY <1>1 DEF PagingInv, PagingTypeOK, pagingVars
<1> QED
  BY <1>1, BlockInv, NullInv, PageInv DEF PagingNext

\* The type invariant of getAllKeys.
THEOREM PagingTypeCorrect == PagingSpec => []PagingTypeOK
<1>1. PagingInv => PagingTypeOK
  BY DEF PagingInv
<1> QED
  BY <1>1, PagingInitInv, PagingStepInv, PTL DEF PagingSpec

\* Whatever the number of keys and the batch size, getAllKeys returns the keys of
\* the block it is given, all of them and no others.
THEOREM ListCorrect == PagingSpec => []ListsAllKeys
<1>1. PagingInv => ListsAllKeys
  BY DEF PagingInv, ListsAllKeys
<1> QED
  BY <1>1, PagingInitInv, PagingStepInv, PTL DEF PagingSpec

\* And with 'latest' every key that was there from the first page to the last.
THEOREM LastingCorrect == PagingSpec => []ListsLastingKeys
<1>1. PagingInv => ListsLastingKeys
  BY DEF PagingInv, ListsLastingKeys
<1> QED
  BY <1>1, PagingInitInv, PagingStepInv, PTL DEF PagingSpec

\* No key is listed twice.
THEOREM DisjointCorrect == PagingSpec => PagesAreDisjoint
<1>1. ASSUME PagingInv, [PagingNext]_pagingVars
      PROVE  [\A k \in keys' \ keys : \A l \in keys : l < k]_pagingVars
  <2>1. CASE NextPage
    <3>1. SUFFICES ASSUME NEW k \in keys' \ keys, NEW l \in keys PROVE l < k
      OBVIOUS
    <3>2. k \in present /\ k > offset
      BY <2>1, <3>1 DEF NextPage, NoContract, Appended, IsPage
    <3> QED
      BY <1>1, <3>1, <3>2 DEF PagingInv, PagingTypeOK, AllKeys
  <2>2. CASE Block
    BY <2>2 DEF Block
  <2> QED
    BY <1>1, <2>1, <2>2 DEF PagingNext
<1> QED
  BY <1>1, PagingInitInv, PagingStepInv, PTL DEF PagingSpec, PagesAreDisjoint

-----------------------------------------------------------------------------
(***************************************************************************)
(* findDeploymentBlock.                                                    *)
(***************************************************************************)
\* The inductive invariant: a deployment block below the head the search began
\* with stays inside the interval, the block looked at as well, and what was
\* seen of it is still true, as code never goes away.
SearchInv ==
  /\ SearchTypeOK
  /\ pc = "head" => low = 0
  /\ pc # "head" /\ deployment <= atStart =>
       /\ low <= deployment
       /\ pc # "return" => deployment <= high
  /\ pc \in {"code", "before"} => low <= mid /\ mid <= high
  /\ pc = "before" => currCode = CodeAt(mid) /\ (currCode = "code" => mid > 0)
  /\ pc = "return" => \/ result = deployment
                      \/ result = -1 /\ deployment > atStart

\* The middle of a non-empty interval lies inside it.
LEMMA Middle ==
  ASSUME NEW l \in Nat, NEW h \in Nat, l <= h
  PROVE  /\ (l + h) \div 2 \in Nat
         /\ l <= (l + h) \div 2
         /\ (l + h) \div 2 <= h
BY SMT

LEMMA SearchInitInv == ASSUME SearchInit PROVE SearchInv
BY HeadAssumption DEF HeadAssumption, SearchInit, SearchInv, SearchTypeOK

LEMMA GrowInv == ASSUME SearchInv, Grow PROVE SearchInv'
BY HeadAssumption DEF HeadAssumption, SearchInv, SearchTypeOK, Grow, searchVars, CodeAt

LEMMA ReadHeadInv == ASSUME SearchInv, ReadHead PROVE SearchInv'
BY DEF SearchInv, SearchTypeOK, ReadHead

LEMMA LoopInv == ASSUME SearchInv, Loop PROVE SearchInv'
<1>1. CASE low <= high
  <2>1. low \in Nat /\ high \in Nat
    BY <1>1 DEF SearchInv, SearchTypeOK
  <2>2. mid' \in Nat /\ low <= mid' /\ mid' <= high
    BY <1>1, <2>1, Middle DEF Loop
  <2> QED
    BY <1>1, <2>1, <2>2 DEF SearchInv, SearchTypeOK, Loop
<1>2. CASE ~(low <= high)
  BY <1>2 DEF SearchInv, SearchTypeOK, Loop
<1> QED
  BY <1>1, <1>2

LEMMA ReadCodeInv == ASSUME SearchInv, ReadCode PROVE SearchInv'
BY DEF SearchInv, SearchTypeOK, ReadCode, CodeAt

LEMMA NarrowInv == ASSUME SearchInv, Narrow PROVE SearchInv'
BY DEF SearchInv, SearchTypeOK, Narrow, CodeAt

LEMMA SearchStepInv == ASSUME SearchInv, [SearchNext]_deploymentVars PROVE SearchInv'
<1>1. CASE UNCHANGED deploymentVars
  BY <1>1 DEF SearchInv, SearchTypeOK, deploymentVars, CodeAt
<1> QED
  BY <1>1, GrowInv, ReadHeadInv, LoopInv, ReadCodeInv, NarrowInv DEF SearchNext, Search

\* The variables of findDeploymentBlock stay in range: the interval may become
\* empty, never longer than the chain was.
THEOREM SearchTypeCorrect == SearchSpec => []SearchTypeOK
<1>1. SearchInv => SearchTypeOK
  BY DEF SearchInv
<1> QED
  BY <1>1, SearchInitInv, SearchStepInv, PTL DEF SearchSpec

\* On a chain of any length a search that returns a block has found the block
\* the contract was deployed in.
THEOREM FoundCorrect == SearchSpec => []FoundIsDeployment
<1>1. SearchInv => FoundIsDeployment
  BY DEF SearchInv, FoundIsDeployment
<1> QED
  BY <1>1, SearchInitInv, SearchStepInv, PTL DEF SearchSpec

\* And a search that fails was asked for a contract that did not exist yet.
THEOREM MissedCorrect == SearchSpec => []MissedOnlyLater
<1>1. SearchInv => MissedOnlyLater
  BY DEF SearchInv, MissedOnlyLater, SearchTypeOK
<1> QED
  BY <1>1, SearchInitInv, SearchStepInv, PTL DEF SearchSpec

-----------------------------------------------------------------------------
(***************************************************************************)
(* DiffHandler.                                                            *)
(***************************************************************************)
\* The keys of the diff by storage are the slots that differ.
LEMMA DiffKeys ==
  ASSUME NEW from \in Storage, NEW to \in Storage
  PROVE  GetKeys(DiffFromStorage(from, to)) = {k \in Keys : from[k] # to[k]}
<1> DEFINE D == DiffFromStorage(from, to)
<1>1. ASSUME NEW d \in D PROVE d.key \in Keys /\ from[d.key] # to[d.key]
  BY <1>1 DEF DiffFromStorage, OfKind, KeysOf
<1>2. ASSUME NEW k \in Keys, from[k] # to[k] PROVE \E d \in D : d.key = k
  <2>1. CASE from[k] = Empty
    <3>1. [kind |-> "Add", key |-> k] \in D
      BY <1>2, <2>1 DEF DiffFromStorage, OfKind, KeysOf
    <3> QED BY <3>1
  <2>2. CASE to[k] = Empty
    <3>1. [kind |-> "Remove", key |-> k] \in D
      BY <1>2, <2>2 DEF DiffFromStorage, OfKind, KeysOf
    <3> QED BY <3>1
  <2>3. CASE from[k] # Empty /\ to[k] # Empty
    <3>1. [kind |-> "Change", key |-> k] \in D
      BY <1>2, <2>3 DEF DiffFromStorage, OfKind, KeysOf
    <3> QED BY <3>1
  <2> QED BY <2>1, <2>2, <2>3
<1> QED
  BY <1>1, <1>2 DEF GetKeys

\* Its kinds say on which side a key is.
LEMMA DiffKinds ==
  ASSUME NEW from \in Storage, NEW to \in Storage, NEW d \in DiffFromStorage(from, to)
  PROVE  /\ d.kind = "Add" <=> from[d.key] = Empty
         /\ d.kind = "Remove" <=> to[d.key] = Empty
BY DEF DiffFromStorage, OfKind, KeysOf

\* The diff by proofs goes over the keys in another order, to the same end.
LEMMA SameDiff ==
  ASSUME NEW old \in Storage, NEW new \in Storage
  PROVE  DiffFromProof(old, new) = DiffFromStorage(old, new)
<1>1. {k \in KeysOf(new) : k \in KeysOf(old) /\ old[k] # new[k]}
        = {k \in KeysOf(old) \cap KeysOf(new) : old[k] # new[k]}
  OBVIOUS
<1> QED
  BY <1>1 DEF DiffFromProof, DiffFromStorage

LEMMA DiffTypeInv == DiffSpec => []DiffTypeOK
<1>1. DiffInit => DiffTypeOK
  BY DiffAssumption DEF DiffAssumption, DiffInit, DiffTypeOK, States
<1>2. ASSUME DiffTypeOK, [DiffNext]_diffVars PROVE DiffTypeOK'
  <2>1. CASE Transaction
    <3>1. PICK s \in Storage : history' = Append(history, s)
      BY <2>1 DEF Transaction
    <3>2. history' \in Seq(Storage) /\ Len(history') = Len(history) + 1
      BY <1>2, <3>1 DEF DiffTypeOK
    <3>3. Len(history') \in 1..(MaxTxs + 1)
      BY <1>2, <2>1, <3>2, DiffAssumption DEF DiffAssumption, DiffTypeOK, Transaction
    <3>4. States' = 1..Len(history') /\ States = 1..Len(history)
      BY <1>2, <3>2 DEF DiffTypeOK, States
    <3>5. lost' \subseteq States'
      <4>1. lost' \subseteq lost \cup {Len(history')}
        BY <2>1 DEF Transaction
      <4>2. States \subseteq States' /\ Len(history') \in States'
        BY <1>2, <3>2, <3>3, <3>4 DEF DiffTypeOK
      <4> QED BY <1>2, <4>1, <4>2 DEF DiffTypeOK
    <3> QED BY <3>2, <3>3, <3>5 DEF DiffTypeOK
  <2>2. CASE UNCHANGED diffVars
    BY <1>2, <2>2 DEF DiffTypeOK, diffVars, States
  <2> QED BY <1>2, <2>1, <2>2 DEF DiffNext
<1> QED
  BY <1>1, <1>2, PTL DEF DiffSpec

\* Of any two states the diff by storage has the slots that differ, each under
\* the right kind.
THEOREM StorageDiffCorrect == DiffSpec => []StorageDiffIsExact
<1>1. DiffTypeOK => StorageDiffIsExact
  <2>1. SUFFICES ASSUME DiffTypeOK, NEW b \in States, NEW t \in States
        PROVE  LET diffs == DiffFromStorage(history[b], history[t])
               IN  /\ GetKeys(diffs) = {k \in Keys : history[b][k] # history[t][k]}
                   /\ \A d \in diffs :
                        /\ d.kind = "Add" <=> history[b][d.key] = Empty
                        /\ d.kind = "Remove" <=> history[t][d.key] = Empty
    BY DEF StorageDiffIsExact
  <2>2. history[b] \in Storage /\ history[t] \in Storage
    BY <2>1 DEF DiffTypeOK, States
  <2> QED BY <2>2, DiffKeys, DiffKinds
<1> QED
  BY <1>1, DiffTypeInv, PTL

\* And the diff by proofs is the same set of differences.
THEOREM ProofDiffCorrect == DiffSpec => []ProofDiffIsStorageDiff
<1>1. DiffTypeOK => ProofDiffIsStorageDiff
  BY SameDiff DEF DiffTypeOK, States, ProofDiffIsStorageDiff
<1> QED
  BY <1>1, DiffTypeInv, PTL

-----------------------------------------------------------------------------
(***************************************************************************)
(* The diff by transactions.                                               *)
(***************************************************************************)
\* The transactions after state b and up to state t that changed slot k.
Writes(b, t, k) == {n \in (b + 1)..t : history[n - 1][k] # history[n][k]}

\* A slot nothing wrote to has its old value, another one that of its last write.
LastWrite(b, t, k) ==
  \/ Writes(b, t, k) = {} /\ history[b][k] = history[t][k]
  \/ \E n \in Writes(b, t, k) :
       (\A i \in Writes(b, t, k) : i <= n) /\ history[n][k] = history[t][k]

\* It is an invariant of the growing history, which stands in for an induction on t.
Traced == \A b, t \in States, k \in Keys : b <= t => LastWrite(b, t, k)

LEMMA TracedStep ==
  ASSUME DiffTypeOK, Traced, Transaction
  PROVE  Traced'
<1> DEFINE L == Len(history)
<1>1. PICK s \in Storage : history' = Append(history, s)
  BY DEF Transaction
<1>2. /\ L \in Nat \ {0} /\ States = 1..L /\ States' = 1..(L + 1)
      /\ \A n \in 1..L : history'[n] = history[n]
  BY <1>1, DiffAssumption DEF DiffAssumption, DiffTypeOK, States
<1>3. ASSUME NEW b \in 1..L, NEW t \in 1..L, NEW k \in Keys
      PROVE  Writes(b, t, k)' = Writes(b, t, k)
  <2>1. \A n \in (b + 1)..t : n \in 1..L /\ n - 1 \in 1..L
    BY <1>2
  <2>. QED
    BY <1>2, <2>1 DEF Writes
<1>4. SUFFICES ASSUME NEW b \in 1..(L + 1), NEW t \in 1..(L + 1), NEW k \in Keys, b <= t
               PROVE  LastWrite(b, t, k)'
  BY <1>2 DEF Traced
<1>5. CASE t <= L
  <2>1. b \in 1..L /\ t \in 1..L
    BY <1>2, <1>4, <1>5
  <2>2. LastWrite(b, t, k)
    BY <1>2, <1>4, <2>1 DEF Traced
  <2>3. \A n \in Writes(b, t, k) : n \in 1..L
    BY <2>1, <1>2 DEF Writes
  <2>. QED
    BY <1>2, <1>3, <2>1, <2>2, <2>3 DEF LastWrite
<1>6. CASE b = L + 1
  <2>1. t = b /\ Writes(b, t, k)' = {}
    BY <1>2, <1>4, <1>6 DEF Writes
  <2>. QED
    BY <2>1 DEF LastWrite
<1>7. CASE t = L + 1 /\ b <= L
  <2>1. b \in 1..L /\ L \in 1..L
    BY <1>2, <1>4, <1>7
  <2>2. LastWrite(b, L, k)
    BY <1>2, <1>4, <2>1 DEF Traced
  <2>3. Writes(b, t, k)' = Writes(b, L, k) \cup
          (IF history'[L][k] # history'[L + 1][k] THEN {L + 1} ELSE {})
    <3>1. \A n \in (b + 1)..L : n \in 1..L /\ n - 1 \in 1..L
      BY <1>2, <2>1
    <3>2. (b + 1)..t = ((b + 1)..L) \cup {L + 1} /\ (L + 1) - 1 = L
      BY <1>2, <1>7, <2>1
    <3>3. Writes(b, t, k)' = {n \in (b + 1)..t : history'[n - 1][k] # history'[n][k]}
      BY DEF Writes
    <3>4. {n \in (b + 1)..L : history'[n - 1][k] # history'[n][k]} = Writes(b, L, k)
      BY <1>2, <3>1 DEF Writes
    <3>. QED
      BY <3>2, <3>3, <3>4
  <2>4. \A n \in Writes(b, L, k) : n \in 1..L
    BY <1>2, <2>1 DEF Writes
  <2>5. CASE history'[L][k] # history'[L + 1][k]
    <3>1. L + 1 \in Writes(b, t, k)' /\ \A i \in Writes(b, t, k)' : i <= L + 1
      BY <1>2, <2>3, <2>4, <2>5
    <3>. QED
      BY <1>7, <3>1 DEF LastWrite
  <2>6. CASE history'[L][k] = history'[L + 1][k]
    <3>1. Writes(b, t, k)' = Writes(b, L, k)
      BY <2>3, <2>6
    <3>2. history'[t][k] = history[L][k] /\ history'[b] = history[b]
      BY <1>2, <1>7, <2>1, <2>6
    <3>3. \A n \in Writes(b, L, k) : history'[n] = history[n]
      BY <1>2, <2>4
    <3>. QED
      BY <2>2, <3>1, <3>2, <3>3 DEF LastWrite
  <2>. QED
    BY <2>5, <2>6
<1>. QED
  BY <1>2, <1>4, <1>5, <1>6, <1>7

LEMMA TracedAlways == DiffSpec => []Traced
<1>1. DiffInit => Traced
  <2> SUFFICES ASSUME DiffInit, NEW b \in States, NEW t \in States, NEW k \in Keys
               PROVE  LastWrite(b, t, k)
    BY DEF Traced
  <2>1. b = 1 /\ t = 1
    BY DEF DiffInit, States
  <2>. QED
    BY <2>1 DEF LastWrite, Writes
<1>2. DiffTypeOK /\ Traced /\ [DiffNext]_diffVars => Traced'
  <2>1. ASSUME UNCHANGED diffVars, Traced PROVE Traced'
    BY <2>1 DEF diffVars, Traced, LastWrite, Writes, States
  <2>. QED
    BY <2>1, TracedStep DEF DiffNext
<1>. QED
  BY <1>1, <1>2, DiffTypeInv, PTL DEF DiffSpec

\* The slots that the transactions that cannot be replayed changed.
Spoilt(b, t) == UNION {Replayed(history[n - 1], history[n]) : n \in lost \cap (b + 1)..t}

\* Replaying finds the last value of every slot it does not miss a write of.
LEMMA ReplayFinds ==
  ASSUME DiffTypeOK, Traced, NEW b \in States, NEW t \in States, b <= t,
         NEW k \in Keys, k \notin Spoilt(b, t)
  PROVE  LET changed == ChangedStorage(history, b, t, Replayable)
         IN  /\ k \in DOMAIN changed => changed[k] = history[t][k]
             /\ k \notin DOMAIN changed => history[b][k] = history[t][k]
<1> DEFINE writes(j) == {n \in Replayable : b < n /\ n <= t
                                           /\ j \in Replayed(history[n - 1], history[n])}
           last(j) == CHOOSE n \in writes(j) : \A i \in writes(j) : i <= n
           changed == ChangedStorage(history, b, t, Replayable)
<1>1. States = 1..Len(history) /\ Len(history) \in Nat
  BY DEF DiffTypeOK, States
<1>2. writes(k) = Writes(b, t, k)
  <2>1. ASSUME NEW n \in writes(k) PROVE n \in Writes(b, t, k)
    BY <1>1, <2>1 DEF Writes, Replayed, Replayable
  <2>2. ASSUME NEW n \in Writes(b, t, k) PROVE n \in writes(k)
    <3>1. /\ n \in States /\ b < n /\ n <= t /\ n \in (b + 1)..t
          /\ k \in Replayed(history[n - 1], history[n])
      BY <1>1, <2>2 DEF Writes, Replayed
    <3>2. n \notin lost
      BY <3>1 DEF Spoilt
    <3>. QED
      BY <3>1, <3>2 DEF Replayable
  <2>. QED
    BY <2>1, <2>2
<1>3. changed = [j \in {i \in Keys : writes(i) # {}} |-> history[last(j)][j]]
  BY DEF ChangedStorage
<1>4. LastWrite(b, t, k)
  BY DEF Traced
<1>5. CASE Writes(b, t, k) = {}
  BY <1>2, <1>3, <1>4, <1>5 DEF LastWrite
<1>6. CASE Writes(b, t, k) # {}
  <2>1. PICK n \in Writes(b, t, k) :
          (\A i \in Writes(b, t, k) : i <= n) /\ history[n][k] = history[t][k]
    BY <1>4, <1>6 DEF LastWrite
  <2>2. last(k) \in Writes(b, t, k) /\ \A i \in Writes(b, t, k) : i <= last(k)
    BY <1>2, <2>1
  <2>3. last(k) = n
    <3> HIDE DEF last
    <3>1. last(k) \in Int /\ n \in Int
      BY <1>1, <2>1, <2>2 DEF Writes
    <3>2. last(k) <= n /\ n <= last(k)
      BY <2>1, <2>2
    <3>. QED
      BY <3>1, <3>2
  <2>. QED
    BY <1>2, <1>3, <1>6, <2>1, <2>3
<1>. QED
  BY <1>5, <1>6

\* For every history, replaying the transactions finds what comparing the two states
\* finds, apart from the slots a lost transaction changed, and adds only slots that hold
\* nothing in either.
THEOREM TxsDiffCorrect == DiffSpec => []TxsDiffCoversStorageDiff
<1>1. DiffTypeOK /\ Traced => TxsDiffCoversStorageDiff
  <2>1. SUFFICES ASSUME DiffTypeOK, Traced, NEW b \in States, NEW t \in States, b <= t
        PROVE  LET byTxs == DiffFromTxs(history, b, t, Replayable)
                   byStorage == DiffFromStorage(history[b], history[t])
               IN  /\ \A d \in byStorage : d.key \notin Spoilt(b, t) => d \in byTxs
                   /\ \A d \in byTxs \ byStorage : d.key \notin Spoilt(b, t) =>
                        d.kind = "Add" /\ history[b][d.key] = Empty /\ history[t][d.key] = Empty
    BY DEF TxsDiffCoversStorageDiff, Spoilt
  <2> DEFINE changed == ChangedStorage(history, b, t, Replayable)
             byTxs == DiffFromTxs(history, b, t, Replayable)
             byStorage == DiffFromStorage(history[b], history[t])
  <2>2. \A k \in Keys : k \notin Spoilt(b, t) =>
          /\ k \in DOMAIN changed => changed[k] = history[t][k]
          /\ k \notin DOMAIN changed => history[b][k] = history[t][k]
    BY <2>1, ReplayFinds
  <2>3. DOMAIN changed \subseteq Keys
    BY DEF ChangedStorage
  <2> HIDE DEF changed
  <2>4. byTxs = OfKind("Add", DOMAIN changed \ KeysOf(history[b]))
                  \cup OfKind("Change", {k \in DOMAIN changed \cap KeysOf(history[b]) :
                                         changed[k] # Empty /\ changed[k] # history[b][k]})
                  \cup OfKind("Remove", {k \in DOMAIN changed \cap KeysOf(history[b]) :
                                         changed[k] = Empty})
    BY DEF DiffFromTxs, changed
  <2> HIDE DEF byTxs
  <2>5. ASSUME NEW d \in byStorage, d.key \notin Spoilt(b, t) PROVE d \in byTxs
    <3>1. CASE d \in OfKind("Add", KeysOf(history[t]) \ KeysOf(history[b]))
      <4>1. PICK k \in KeysOf(history[t]) \ KeysOf(history[b]) : d = [kind |-> "Add", key |-> k]
        BY <3>1 DEF OfKind
      <4>2. k \in DOMAIN changed \ KeysOf(history[b])
        BY <2>2, <2>5, <4>1 DEF KeysOf
      <4>. QED
        BY <2>4, <4>1, <4>2 DEF OfKind
    <3>2. CASE d \in OfKind("Remove", KeysOf(history[b]) \ KeysOf(history[t]))
      <4>1. PICK k \in KeysOf(history[b]) \ KeysOf(history[t]) : d = [kind |-> "Remove", key |-> k]
        BY <3>2 DEF OfKind
      <4>2. k \in DOMAIN changed \cap KeysOf(history[b]) /\ changed[k] = Empty
        BY <2>2, <2>5, <4>1 DEF KeysOf
      <4>. QED
        BY <2>4, <4>1, <4>2 DEF OfKind
    <3>3. CASE d \in OfKind("Change", {k \in KeysOf(history[b]) \cap KeysOf(history[t]) :
                                      history[b][k] # history[t][k]})
      <4>1. PICK k \in KeysOf(history[b]) \cap KeysOf(history[t]) :
              history[b][k] # history[t][k] /\ d = [kind |-> "Change", key |-> k]
        BY <3>3 DEF OfKind
      <4>2. /\ k \in DOMAIN changed \cap KeysOf(history[b])
            /\ changed[k] # Empty /\ changed[k] # history[b][k]
        BY <2>2, <2>5, <4>1 DEF KeysOf
      <4>. QED
        BY <2>4, <4>1, <4>2 DEF OfKind
    <3>. QED
      BY <2>5, <3>1, <3>2, <3>3 DEF DiffFromStorage
  <2>6. ASSUME NEW d \in byTxs, d \notin byStorage, d.key \notin Spoilt(b, t)
        PROVE  d.kind = "Add" /\ history[b][d.key] = Empty /\ history[t][d.key] = Empty
    BY <2>2, <2>3, <2>4, <2>6 DEF DiffFromStorage, OfKind, KeysOf
  <2>. QED
    BY <2>5, <2>6 DEF byTxs
<1>. QED
  BY <1>1, DiffTypeInv, TracedAlways, PTL

-----------------------------------------------------------------------------
(***************************************************************************)
(* The commands.                                                           *)
(***************************************************************************)
\* Where an action can be; before init has read anything; and where only commands
\* that synchronise are.
Places == {"options", "constructor", "lightInit", "init", "addresses", "state", "resolve", "tick",
           "diff", "migrate", "advance", "options updated", "end", "exit",
           "migration-status", "get-curr-blocknr", "fork", "state-diff"}
BeforeInit == {"options", "constructor", "lightInit", "init", "addresses", "state"}
AfterInit == {"resolve", "tick", "diff", "migrate", "advance", "options updated"}
Methods == {"fork", "relay", "update"}

\* The type invariant.
CommandTypeOK ==
  /\ command \in CommandLines
  /\ place \in Places
  /\ {proxyContract, relayContract, migrationState, initialized} \subseteq BOOLEAN
  /\ srcBlocknr \in Latest..(MaxBlock + 1)
  /\ targetBlocknr \in {Latest} \cup 1..MaxBlock
  /\ srcBlock \in Int
  /\ diffBase \in Latest..(MaxBlock + 1)
  /\ sent \in SUBSET Methods
  /\ record \in 0..MaxBlock

\* Only state-diff takes the short cut of lightInit, and it neither synchronises
\* nor is asked whether the proxy is migrated.
Placed ==
  /\ place = "lightInit" => ~IsSynchronizing
  /\ place \in AfterInit => IsSynchronizing
  /\ place = "state" => relayContract
  /\ place \in BeforeInit => ~initialized

\* What the fields say for a command that synchronises.
FieldsTrue ==
  IsSynchronizing =>
    /\ command.proxyGiven
    /\ migrationState => record # 0
    /\ initialized => relayContract

\* A number made from an unknown block is that of an object init has given up on.
UnknownBlock ==
  srcBlocknr = 0 => ~initialized /\ IsSynchronizing /\ place \notin BeforeInit

\* The inductive invariant.
CommandInv ==
  CommandTypeOK /\ Placed /\ FieldsTrue /\ UnknownBlock /\ UpdatesOnlyMigrated /\ DiffsStartAtBlocks

\* What a command line can be.
LEMMA CommandFacts ==
  ASSUME NEW c \in CommandLines
  PROVE  /\ c.name \in Synchronizing \cup {"state-diff", "migration-status", "get-curr-blocknr", "fork"}
         /\ c.name \in Synchronizing => c.proxyGiven
         /\ {c.proxyGiven, c.relayGiven} \subseteq BOOLEAN
         /\ c.srcBlocknr \in {Latest} \cup 1..MaxBlock
         /\ c.targetBlocknr \in {Latest} \cup 1..MaxBlock
         /\ c.blockBatch \in 1..Unlimited
<1> USE DEF CommandLines
<1>1. c.name \in Synchronizing \cup {"state-diff", "migration-status", "get-curr-blocknr", "fork"}
  BY DEF Synchronizing
<1>2. c.name \in Synchronizing => c.proxyGiven
  BY DEF Synchronizing
<1>3. c.proxyGiven \in BOOLEAN
  OBVIOUS
<1>4. c.relayGiven \in BOOLEAN
  OBVIOUS
<1>5. c.srcBlocknr \in {Latest} \cup 1..MaxBlock
  OBVIOUS
<1>6. c.targetBlocknr \in {Latest} \cup 1..MaxBlock
  OBVIOUS
<1>7. c.blockBatch \in 1..Unlimited
  <2>1. Unlimited \in 1..Unlimited
    BY CommandAssumption DEF CommandAssumption, Unlimited
  <2> QED
    BY <2>1
<1> QED
  BY <1>1, <1>2, <1>3, <1>4, <1>5, <1>6, <1>7

\* Nothing of what a command is started with changes the numbers' ranges.
LEMMA Numbers ==
  /\ MaxBlock \in Nat \ {0} /\ Latest = -1 /\ Unlimited = MaxBlock + 1
BY CommandAssumption DEF CommandAssumption, Latest, Unlimited

LEMMA CommandInitInv == ASSUME CommandInit PROVE CommandInv
<1>1. CommandTypeOK
  <2>1. command \in CommandLines /\ place \in Places
    BY DEF CommandInit, Places
  <2>2. {proxyContract, relayContract, migrationState, initialized} \subseteq BOOLEAN
    BY DEF CommandInit
  <2>3. srcBlocknr \in Latest..(MaxBlock + 1) /\ targetBlocknr \in {Latest} \cup 1..MaxBlock
    BY <2>1, CommandFacts, Numbers DEF CommandInit
  <2>4. srcBlock \in Int /\ diffBase \in Latest..(MaxBlock + 1)
    BY Numbers DEF CommandInit
  <2> QED
    BY <2>1, <2>2, <2>3, <2>4 DEF CommandInit, CommandTypeOK
<1> QED
  BY <1>1, CommandFacts, Numbers
  DEF CommandInit, CommandInv, Placed, FieldsTrue, UnknownBlock, UpdatesOnlyMigrated,
      DiffsStartAtBlocks, BeforeInit, AfterInit, IsSynchronizing

LEMMA OptionsInv == ASSUME CommandInv, Options PROVE CommandInv'
BY DEF CommandInv, CommandTypeOK, Placed, FieldsTrue, UnknownBlock, UpdatesOnlyMigrated,
       DiffsStartAtBlocks, BeforeInit, AfterInit, IsSynchronizing, Places, Options, From, fields, optionVars

LEMMA ConstructorInv == ASSUME CommandInv, Constructor PROVE CommandInv'
BY DEF CommandInv, CommandTypeOK, Placed, FieldsTrue, UnknownBlock, UpdatesOnlyMigrated, Synchronizing,
       DiffsStartAtBlocks, BeforeInit, AfterInit, IsSynchronizing, Places, Constructor, From, fields, optionVars

\* Where init and lightInit lead to.
LEMMA ReadyPlace ==
  ASSUME CommandTypeOK
  PROVE  /\ Ready \in Places \ BeforeInit
         /\ Ready \in AfterInit => IsSynchronizing
BY CommandFacts DEF CommandTypeOK, Ready, Places, BeforeInit, AfterInit, IsSynchronizing, Synchronizing

LEMMA LightInitInv == ASSUME CommandInv, LightInit PROVE CommandInv'
BY ReadyPlace
DEF CommandInv, CommandTypeOK, Placed, FieldsTrue, UnknownBlock, UpdatesOnlyMigrated,
       DiffsStartAtBlocks, BeforeInit, IsSynchronizing, LightInit, From, fields, optionVars

LEMMA InitContractsInv == ASSUME CommandInv, InitContracts PROVE CommandInv'
<1>1. CommandTypeOK'
  BY ReadyPlace, CommandFacts
  DEF CommandInv, CommandTypeOK, Places, InitContracts, From, optionVars
<1>2. command' = command /\ record' = record /\ sent' = sent /\ diffBase' = diffBase /\ srcBlocknr' = srcBlocknr
  BY DEF InitContracts, optionVars
<1>3. Placed'
  <2>1. place' = "addresses" \/ place' = Ready
    BY DEF InitContracts, From
  <2>2. place' = "addresses" => ~initialized'
    BY ReadyPlace DEF InitContracts, From, CommandInv, Placed, BeforeInit
  <2> QED
    BY <1>2, <2>1, <2>2, ReadyPlace DEF CommandInv, Placed, BeforeInit, AfterInit, IsSynchronizing
<1>4. FieldsTrue'
  BY <1>2 DEF CommandInv, Placed, FieldsTrue, BeforeInit, IsSynchronizing, InitContracts, From
<1>5. UnknownBlock'
  BY <1>2 DEF CommandInv, UnknownBlock, BeforeInit, IsSynchronizing, InitContracts, From
<1> QED
  BY <1>1, <1>2, <1>3, <1>4, <1>5 DEF CommandInv, UpdatesOnlyMigrated, DiffsStartAtBlocks

LEMMA ReadAddressesInv == ASSUME CommandInv, ReadAddresses PROVE CommandInv'
<1>1. CommandTypeOK'
  BY ReadyPlace
  DEF CommandInv, CommandTypeOK, Places, ReadAddresses, From, optionVars
<1> QED
  BY <1>1, ReadyPlace
  DEF CommandInv, Placed, FieldsTrue, UnknownBlock, UpdatesOnlyMigrated, BeforeInit, AfterInit,
       DiffsStartAtBlocks, IsSynchronizing, ReadAddresses, From, optionVars

LEMMA ReadMigrationStateInv == ASSUME CommandInv, ReadMigrationState PROVE CommandInv'
<1>1. CommandTypeOK'
  <2>1. {proxyContract', relayContract', migrationState', initialized'} \subseteq BOOLEAN
    <3>1. (record # 0) \in BOOLEAN
      OBVIOUS
    <3> QED
      BY <3>1 DEF CommandInv, CommandTypeOK, ReadMigrationState
  <2> QED
    BY <2>1, ReadyPlace
    DEF CommandInv, CommandTypeOK, Places, ReadMigrationState, From, optionVars
<1>2. command' = command /\ record' = record /\ sent' = sent /\ diffBase' = diffBase /\ srcBlocknr' = srcBlocknr
  BY DEF ReadMigrationState, optionVars
<1>3. Placed'
  BY ReadyPlace DEF CommandInv, Placed, BeforeInit, AfterInit, IsSynchronizing, ReadMigrationState, From
<1>4. FieldsTrue'
  BY <1>2 DEF CommandInv, Placed, FieldsTrue, BeforeInit, IsSynchronizing, ReadMigrationState, From
<1>5. UnknownBlock'
  BY <1>2 DEF CommandInv, UnknownBlock, BeforeInit, IsSynchronizing, ReadMigrationState, From
<1> QED
  BY <1>1, <1>2, <1>3, <1>4, <1>5 DEF CommandInv, UpdatesOnlyMigrated, DiffsStartAtBlocks

LEMMA MigrationStatusInv == ASSUME CommandInv, MigrationStatus PROVE CommandInv'
BY DEF CommandInv, CommandTypeOK, Placed, FieldsTrue, UnknownBlock, UpdatesOnlyMigrated,
       DiffsStartAtBlocks, BeforeInit, AfterInit, IsSynchronizing, Places, MigrationStatus, From, fields, optionVars

LEMMA ForkInv == ASSUME CommandInv, Fork PROVE CommandInv'
BY DEF CommandInv, CommandTypeOK, Placed, FieldsTrue, UnknownBlock, UpdatesOnlyMigrated, Methods,
       DiffsStartAtBlocks, BeforeInit, AfterInit, IsSynchronizing, Places, Fork, From, fields, optionVars

\* The block behind the relay's record, or 0 if init has given up.
LEMMA NextBlock ==
  ASSUME CommandTypeOK, FieldsTrue, IsSynchronizing
  PROVE  /\ CurrentBlockNumber + 1 \in 0..(MaxBlock + 1)
         /\ CurrentBlockNumber + 1 = 0 => ~initialized
BY Numbers DEF CommandTypeOK, FieldsTrue, CurrentBlockNumber

LEMMA ResolveInv == ASSUME CommandInv, Resolve PROVE CommandInv'
<1>1. IsSynchronizing
  BY DEF CommandInv, Resolve, Placed, AfterInit, From
<1>2. CASE UNCHANGED optionVars /\ From("resolve", "exit")
  BY <1>2
  DEF CommandInv, CommandTypeOK, Placed, FieldsTrue, UnknownBlock, UpdatesOnlyMigrated,
       DiffsStartAtBlocks, BeforeInit, AfterInit, IsSynchronizing, Places, Resolve, From, fields, optionVars
<1>3. CASE ~(UNCHANGED optionVars /\ From("resolve", "exit"))
  <2>1. /\ place' \in {"diff", "tick"}
        /\ srcBlocknr' = IF srcBlocknr = Latest THEN CurrentBlockNumber + 1 ELSE srcBlocknr
        /\ targetBlocknr' \in IF targetBlocknr = Latest THEN 1..MaxBlock ELSE {targetBlocknr}
        /\ srcBlock' = srcBlocknr'
        /\ UNCHANGED <<command, fields, diffBase, sent, record>>
    BY <1>3 DEF Resolve, From
  <2>2. /\ srcBlocknr' \in Latest..(MaxBlock + 1)
        /\ srcBlocknr' = 0 => ~initialized
    BY <1>1, <2>1, NextBlock, Numbers DEF CommandInv, CommandTypeOK, UnknownBlock
  <2>3. srcBlock' \in Int /\ targetBlocknr' \in {Latest} \cup 1..MaxBlock
    BY <2>1, <2>2, Numbers DEF CommandInv, CommandTypeOK
  <2> QED
    BY <1>1, <2>1, <2>2, <2>3
    DEF CommandInv, CommandTypeOK, Placed, FieldsTrue, UnknownBlock, UpdatesOnlyMigrated,
       DiffsStartAtBlocks, BeforeInit, AfterInit, IsSynchronizing, Places, fields
<1> QED
  BY <1>2, <1>3

LEMMA TickInv == ASSUME CommandInv, Tick PROVE CommandInv'
<1>1. srcBlock' \in Int
  BY Numbers DEF Tick, CommandInv, CommandTypeOK
<1> QED
  BY <1>1 DEF CommandInv, CommandTypeOK, Placed, FieldsTrue, UnknownBlock, UpdatesOnlyMigrated,
       DiffsStartAtBlocks, BeforeInit, AfterInit, IsSynchronizing, Places, Tick, From, fields

LEMMA OverPlace ==
  ASSUME CommandTypeOK
  PROVE  Over \in {"tick", "end"} /\ (Over = "tick" => IsSynchronizing)
BY DEF Over, IsSynchronizing, Synchronizing

LEMMA GetDiffInv == ASSUME CommandInv, GetDiff PROVE CommandInv'
<1>1. /\ place' \in {"tick", "end", "migrate", "advance"}
      /\ place' \in AfterInit => IsSynchronizing
  <2>1. place = "diff" => IsSynchronizing
    BY DEF CommandInv, Placed, AfterInit
  <2> QED
    BY <2>1, OverPlace DEF GetDiff, From, CommandInv, AfterInit
<1>2. diffBase' \in Latest..(MaxBlock + 1) /\ diffBase' # 0
  <2>1. CASE diffBase' = diffBase
    BY <2>1 DEF CommandInv, CommandTypeOK, DiffsStartAtBlocks
  <2>2. CASE diffBase' = Base /\ ~NoDiff
    <3>1. initialized
      BY <2>2 DEF NoDiff
    <3>2. srcBlocknr # 0
      BY <3>1 DEF CommandInv, UnknownBlock
    <3> QED
      BY <2>2, <3>2, Numbers DEF Base, CommandInv, CommandTypeOK
  <2> QED
    BY <2>1, <2>2 DEF GetDiff
<1> QED
  BY <1>1, <1>2 DEF CommandInv, CommandTypeOK, Placed, FieldsTrue, UnknownBlock, UpdatesOnlyMigrated,
       DiffsStartAtBlocks, BeforeInit, AfterInit, IsSynchronizing, Places, GetDiff, fields, optionVars

LEMMA MigrateChangesToProxyInv == ASSUME CommandInv, MigrateChangesToProxy PROVE CommandInv'
<1>1. IsSynchronizing /\ place' \in {"tick", "end", "advance"}
  BY OverPlace DEF CommandInv, MigrateChangesToProxy, Placed, AfterInit, From
<1>2. sent' \in SUBSET Methods
  BY DEF CommandInv, CommandTypeOK, Methods, MigrateChangesToProxy
<1>3. UpdatesOnlyMigrated'
  BY <1>1 DEF CommandInv, UpdatesOnlyMigrated, FieldsTrue, MigrateChangesToProxy
<1> QED
  BY <1>1, <1>2, <1>3 DEF CommandInv, CommandTypeOK, Placed, FieldsTrue, UnknownBlock,
       DiffsStartAtBlocks, BeforeInit, AfterInit, IsSynchronizing, Places, MigrateChangesToProxy, fields, optionVars

LEMMA LoopTurnInv == ASSUME CommandInv, LoopTurn PROVE CommandInv'
<1>1. IsSynchronizing /\ place' \in {"diff", "options updated"}
  BY DEF CommandInv, LoopTurn, Placed, AfterInit
<1>2. srcBlock' \in Int
  <2>1. command.blockBatch \in Int /\ srcBlock \in Int /\ LoopEnd \in Int
    BY CommandFacts, Numbers DEF CommandInv, CommandTypeOK, LoopEnd
  <2>2. LoopEnd - srcBlock \in Int
    BY <2>1
  <2>3. srcBlock' \in {srcBlock + (LoopEnd - srcBlock), srcBlock + command.blockBatch}
    BY DEF LoopTurn
  <2> QED
    BY <2>1, <2>2, <2>3
<1> QED
  BY <1>1, <1>2 DEF CommandInv, CommandTypeOK, Placed, FieldsTrue, UnknownBlock, UpdatesOnlyMigrated,
       DiffsStartAtBlocks, BeforeInit, AfterInit, IsSynchronizing, Places, LoopTurn, fields

LEMMA UpdateOptionsInv == ASSUME CommandInv, UpdateOptions PROVE CommandInv'
<1>1. IsSynchronizing /\ place' \in {"tick", "end"}
  BY OverPlace DEF CommandInv, UpdateOptions, Placed, AfterInit, From
<1>2. /\ srcBlocknr' \in Latest..(MaxBlock + 1)
      /\ srcBlocknr' = 0 => ~initialized
      /\ targetBlocknr' \in {Latest} \cup 1..MaxBlock
  <2>1. srcBlocknr' \in {CurrentBlockNumber + 1, Latest, srcBlocknr}
    BY DEF UpdateOptions
  <2>2. targetBlocknr' \in 1..MaxBlock \cup {Latest, targetBlocknr}
    BY DEF UpdateOptions
  <2> QED
    BY <1>1, <2>1, <2>2, NextBlock, Numbers DEF CommandInv, CommandTypeOK, UnknownBlock
<1> QED
  BY <1>1, <1>2 DEF CommandInv, CommandTypeOK, Placed, FieldsTrue, UnknownBlock, UpdatesOnlyMigrated,
       DiffsStartAtBlocks, BeforeInit, AfterInit, IsSynchronizing, Places, UpdateOptions, fields

LEMMA CallFailsInv == ASSUME CommandInv, CallFails PROVE CommandInv'
<1>1. place' \in {"tick", "end"} /\ (place' = "tick" => IsSynchronizing)
  BY OverPlace DEF CommandInv, CallFails
<1> QED
  BY <1>1 DEF CommandInv, CommandTypeOK, Placed, FieldsTrue, UnknownBlock, UpdatesOnlyMigrated,
       DiffsStartAtBlocks, BeforeInit, AfterInit, IsSynchronizing, Places, CallFails, fields, optionVars

\* A record only ever grows, so one that was true when it was read stays true.
LEMMA OthersRecordInv == ASSUME CommandInv, OthersRecord PROVE CommandInv'
<1>1. record' \in 0..MaxBlock /\ record' # 0
  BY Numbers DEF CommandInv, CommandTypeOK, OthersRecord
<1> QED
  BY <1>1 DEF CommandInv, CommandTypeOK, Placed, FieldsTrue, UnknownBlock, UpdatesOnlyMigrated,
       DiffsStartAtBlocks, BeforeInit, AfterInit, IsSynchronizing, Places, OthersRecord, fields, optionVars

LEMMA CommandStepInv == ASSUME CommandInv, [CommandNext]_commandVars PROVE CommandInv'
<1>1. CASE UNCHANGED commandVars
  BY <1>1 DEF CommandInv, CommandTypeOK, Placed, FieldsTrue, UnknownBlock, UpdatesOnlyMigrated,
       DiffsStartAtBlocks, BeforeInit, AfterInit, IsSynchronizing, commandVars, fields, optionVars
<1>2. CASE Command
  BY <1>2, OptionsInv, ConstructorInv, LightInitInv, InitContractsInv, ReadAddressesInv,
     ReadMigrationStateInv, MigrationStatusInv, ForkInv, ResolveInv, TickInv, GetDiffInv,
     MigrateChangesToProxyInv, LoopTurnInv, UpdateOptionsInv DEF Command
<1> QED
  BY <1>1, <1>2, CallFailsInv, OthersRecordInv DEF CommandNext

\* Every command keeps its fields, its blocks and what it has sent in their ranges,
\* whatever calls fail and whatever other processes do to the proxy.
THEOREM CommandTypeCorrect == CommandSpec => []CommandTypeOK
<1>1. CommandInv => CommandTypeOK
  BY DEF CommandInv
<1> QED
  BY <1>1, CommandInitInv, CommandStepInv, PTL DEF CommandSpec

\* No command ever updates a proxy that is not migrated: the migration state init
\* reads is not looked at again, but no other process takes a migration back.
THEOREM UpdatesMigratedCorrect == CommandSpec => []UpdatesOnlyMigrated
<1>1. CommandInv => UpdatesOnlyMigrated
  BY DEF CommandInv
<1> QED
  BY <1>1, CommandInitInv, CommandStepInv, PTL DEF CommandSpec

\* A block made from the -1 of an unknown record belongs to a command whose init has
\* failed, and getDiff refuses that one: no diff starts at it.
THEOREM DiffsStartCorrect == CommandSpec => []DiffsStartAtBlocks
<1>1. CommandInv => DiffsStartAtBlocks
  BY DEF CommandInv
<1> QED
  BY <1>1, CommandInitInv, CommandStepInv, PTL DEF CommandSpec

=============================================================================
