---------------------------- MODULE OptimizedProof ----------------------------
(***************************************************************************)
(* The optimised storage proof: the client merges the proofs of the slots  *)
(* that changed into one tree of the source's new trie (GetProof,          *)
(* ProofPathBuilder); the proxy contract takes the new words from it, and  *)
(* in updateStorageModified first computes both roots from it: the new     *)
(* one, and the old one with the words it holds now put back in.           *)
(*                                                                         *)
(* Abstractions.  The hash of a node is the node, so that a node is found  *)
(* by its hash where it is found by its position, the nibbles above it.    *)
(* Paths are a few nibbles, in which they differ, and a last item of their *)
(* own, which stands for the many nibbles a real path ends in.  The tree   *)
(* that is sent is a function from positions.  Encodings of words are in   *)
(* RLPCodec, account proofs in TrieProof, the relay's checks in            *)
(* DendrethRelay.                                                          *)
(***************************************************************************)
EXTENDS Trie

CONSTANTS
  BranchSize,  \* children of a branch, 16 in the code
  Digits,      \* nibbles written as a digit, 0..9 in the code
  Slots,       \* the slots, each as its path in the trie
  OldWords,    \* what a slot of the proxy can hold at first
  NewWords,    \* what a slot of the source was written
  ZeroWord,    \* an empty slot
  Garbage,     \* a word made of a piece of a hash
  MaxChanged,  \* bound: slots that differ
  MaxAsked     \* bound: slots whose proofs are asked for

Children == 0..(BranchSize - 1)

ASSUME SlotsAssumption ==
  /\ BranchSize \in Nat \ {0} /\ Digits \subseteq Children
  /\ IsFiniteSet(Slots)
  /\ \A s \in Slots : s \in Seq(Nat) /\ Len(s) >= 2 /\ Front(s) \in Seq(Children)
  /\ \A s, t \in Slots : Len(s) = Len(t) /\ (s # t => Front(s) # Front(t) /\ s[Len(s)] # t[Len(t)])

ASSUME WordsAssumption ==
  /\ ZeroWord \notin OldWords \cup NewWords /\ Garbage \notin OldWords \cup NewWords \cup {ZeroWord}
  /\ MaxChanged \in Nat /\ MaxAsked \in Nat

VARIABLES
  source,    \* the words of the source contract, at the block of the proof
  nodes,     \* position -> node of the source's trie
  proxy,     \* the words of the proxy contract
  recorded,  \* the storage root the relay has for the proxy
  asked,     \* the slots whose proofs have been merged
  required,  \* additional keys whose proofs are still to be merged
  tree,      \* position -> a branch, an extension, or a leaf with the key it is sent for
  phase      \* "asking", "adding", "failed", "rejected", "updated" or "verified"

treeVars == <<source, nodes, recorded, proxy, asked, required, tree, phase>>

Contents == OldWords \cup NewWords \cup {ZeroWord}

\* The keys of the diff.
Changed == {s \in Slots : proxy[s] # source[s]}

-----------------------------------------------------------------------------
(***************************************************************************)
(* The tries of the two chains.                                            *)
(***************************************************************************)
\* The empty string, which stands for an empty child, also for a hash 0, and its
\* hash, the root of the empty trie.
NoNode == [items |-> 0, hashed |-> FALSE]
EmptyRoot == [items |-> 0, hashed |-> TRUE]

Held(storage) == {s \in Slots : storage[s] # ZeroWord}
Entries(storage) == [s \in Held(storage) |-> storage[s]]

\* What is at each position.  The hash of a node is the node, that of an empty child
\* the empty string.
NodeAt(storage) ==
  LET node[p \in Seq(Nat)] ==
        LET below == EntriesBelow(Entries(storage), p)
        IN  IF DOMAIN below = {} THEN NoNode
            ELSE NodeWith(below, Children, LAMBDA rest : node[p \o rest])
  IN  node

RootOf(storage) == IF Held(storage) = {} THEN EmptyRoot ELSE NodeAt(storage)[<<>>]

BranchesOf(held) == {LongestCommonPrefix({s, t}) : s, t \in held} \ held

IsBranch(node) == node.items = 17

\* Where the nodes of a trie are: at the root, where branches refer to, and at the
\* branches that extensions refer to.
PositionsOf(storage) ==
  LET branches == BranchesOf(Held(storage))
      children == {Append(b, n) : b \in branches, n \in Children}
  IN  IF Held(storage) = {} THEN {}
      ELSE {<<>>} \cup branches
             \cup {p \in children : \E s \in Held(storage) : IsPrefix(p, s)}

\* No word, and no piece of a hash, is the hash of a node.
ASSUME NodesAssumption ==
  \A storage \in [Slots -> Contents] : \A p \in PositionsOf(storage) :
    NodeAt(storage)[p] \notin Contents \cup {Garbage}

NodesOf(storage) == [p \in PositionsOf(storage) |-> NodeAt(storage)[p]]

\* eth_getProof: the nodes down to where the path of k ends or leaves the trie.
ProofOf(k) == {p \in DOMAIN nodes : IsPrefix(p, k)}

\* Where the branch below an extension is.
BelowExtension(p) ==
  LET encodedPath == nodes[p].path
  IN  p \o SubSeq(encodedPath, IF encodedPath[1] = 1 THEN 2 ELSE 3, Len(encodedPath))

Longest(ps) == CHOOSE p \in ps : \A q \in ps : Len(q) <= Len(p)

-----------------------------------------------------------------------------
(***************************************************************************)
(* The client: optimizedStorageProof and ProofPathBuilder.                 *)
(***************************************************************************)
Leaf(node, k) == [kind |-> "leaf", node |-> node, key |-> k]
Inner(node) == [kind |-> IF IsBranch(node) THEN "branch" ELSE "extension"]
LeafAt(p) == p \in DOMAIN tree /\ tree[p].kind = "leaf"

\* The positions above the end of a proof become branches and extensions of the
\* tree where there is nothing yet (addBranch, addExtension).
WithInner(ps) ==
  [p \in DOMAIN tree \cup ps |->
     IF p \in DOMAIN tree THEN tree[p] ELSE Inner(nodes[p])]

\* insert replaces what was in the place of a leaf, with all that is below it.
WithLeaf(t, p, entry) ==
  [q \in {r \in DOMAIN t : ~IsPrefix(p, r)} \cup {p} |-> IF q = p THEN entry ELSE t[q]]

\* addDeletedValue: in the empty place under the last branch an artificial leaf.
WithDeletedValue(t, p, k) ==
  LET place == SubSeq(k, 1, Len(p) + 1)
  IN  WithLeaf(t, place, Leaf(TwoItems(Encoded(2, SubSeq(k, Len(p) + 2, Len(k))), ZeroWord), k))

Fail == phase' = "failed" /\ UNCHANGED tree

\* The first proof, of one node.  A node of two items is taken as a leaf if the
\* slot is not empty, as an extension otherwise, whatever it is.
FirstNode(k) ==
  /\ tree' = IF IsBranch(nodes[<<>>]) THEN WithDeletedValue(WithInner({<<>>}), <<>>, k)
             ELSE IF source[k] # ZeroWord THEN WithLeaf(tree, <<>>, Leaf(nodes[<<>>], k))
             ELSE [p \in {<<>>} |-> [kind |-> "extension"]]
  /\ UNCHANGED phase

\* A further proof of one node.  Adding to a leaf throws, and a root that became
\* its own child cannot be read by the contract.
RootAgain(k) ==
  IF IsBranch(nodes[<<>>]) THEN tree' = WithDeletedValue(tree, <<>>, k) /\ UNCHANGED phase
  ELSE IF LeafAt(<<>>) \/ DOMAIN tree = {<<>>} THEN Fail
  ELSE UNCHANGED <<tree, phase>>

\* A proof of several nodes.  The last one, if it is of two items, is added as
\* the leaf of k, also where it is an extension or the leaf of another slot.
\* Nodes are not looked for below a leaf: the last one is not added then, and the
\* client ends if there is another one below.
Descend(k) ==
  LET ps == ProofOf(k)
      last == Longest(ps)
      above == ps \ {last}
      hiding == {p \in above : LeafAt(p)}
  IN  IF hiding = {}
      THEN /\ tree' = IF IsBranch(nodes[last]) THEN WithDeletedValue(WithInner(ps), last, k)
                      ELSE WithLeaf(WithInner(above), last, Leaf(nodes[last], k))
           /\ UNCHANGED phase
      ELSE IF hiding = {Longest(above)} THEN UNCHANGED <<tree, phase>>
      ELSE Fail

MergeProof(k) ==
  /\ phase = "asking" /\ k \notin asked /\ Cardinality(asked) < MaxAsked
  /\ asked' = asked \cup {k}
  /\ IF ProofOf(k) = {} THEN UNCHANGED <<tree, phase>>
     ELSE IF ProofOf(k) # {<<>>} THEN Descend(k)
     ELSE IF tree = <<>> THEN FirstNode(k)
     ELSE RootAgain(k)
  /\ UNCHANGED <<source, nodes, recorded, proxy, required>>

\* getRequiredKeys walks down the tree, to a position with a height and a path, which
\* part from it at an extension.
Present(p) == {n \in Children : Append(p, n) \in DOMAIN tree}
LacksOneChild(p) ==
  /\ tree[p].kind = "branch"
  /\ Cardinality(Present(p)) = Cardinality({n \in Children : nodes[p].children[n] # NoNode}) - 1

WalkOn(visit) ==
  LET next(q, added) == [at |-> q, height |-> visit.height + 1, currPath |-> visit.currPath \o added]
      p == visit.at
  IN  CASE p \notin DOMAIN tree \/ LeafAt(p) -> {}
        [] p \in DOMAIN tree /\ tree[p].kind = "extension" -> {next(BelowExtension(p), nodes[p].path)}
        [] OTHER -> IF LacksOneChild(p) THEN {} ELSE {next(Append(p, n), <<n>>) : n \in Present(p)}

Visits ==
  LET visits[i \in Nat] == IF i = 0 THEN {[at |-> <<>>, height |-> 0, currPath |-> <<>>]}
                           ELSE UNION {WalkOn(visit) : visit \in visits[i - 1]}
  IN  UNION {visits[i] : i \in 0..Cardinality(DOMAIN tree)}

\* Below a branch all children of which but one are in the tree, the keys of the
\* other one.  The nibble compared is the one after next, and only digits are
\* indices of an array.
RequiredKeys(unchangedKeys) ==
  {k \in unchangedKeys :
     \E visit \in {v \in Visits : v.at \in DOMAIN tree /\ LacksOneChild(v.at)} :
       /\ SubSeq(k, 1, visit.height) = visit.currPath
       /\ k[visit.height + 2] \in Digits \ Present(visit.at)}

\* All proofs are merged.  The unchanged keys are all those of the source or of
\* the proxy, depending on the diff, or none.
LookForKeys ==
  /\ phase = "asking" /\ asked # {}
  /\ \E storage \in {source, proxy, [s \in Slots |-> ZeroWord]} :
       required' = RequiredKeys(Held(storage))
  /\ phase' = "adding"
  /\ UNCHANGED <<source, nodes, recorded, proxy, asked, tree>>

\* The proof of an additional key.  Nothing is taken for deleted here.  The node is
\* asked for its latest block: a proof that the tree does not refer to any more is
\* left out.
MergeAdditional(k) ==
  LET ps == ProofOf(k)
      last == Longest(ps)
      above == ps \ {last}
  IN  /\ phase = "adding" /\ k \in required
      /\ required' = required \ {k}
      /\ \/ tree' = tree
         \/ tree' = IF ps \subseteq {<<>>} \/ \E p \in above : LeafAt(p) THEN tree
                    ELSE IF IsBranch(nodes[last]) THEN WithInner(ps)
                    ELSE WithLeaf(WithInner(above), last, Leaf(nodes[last], k))
      /\ UNCHANGED <<source, nodes, recorded, proxy, asked, phase>>

-----------------------------------------------------------------------------
(***************************************************************************)
(* The contract: computeRoots and setStorageValues.                        *)
(***************************************************************************)
\* Mutant: a slot that was empty is put back as a leaf of zero.
RestoreZero(leaf) == TwoItems(leaf.node.path, proxy[leaf.key])

\* restoreOldValueState: the leaf with the word the slot holds now.
RestoreOldValueState(leaf) ==
  IF proxy[leaf.key] = ZeroWord THEN NoNode ELSE TwoItems(leaf.node.path, proxy[leaf.key])

\* restoreLeafAtPos: the leaf with the word it is sent with, for another height.
RestoreLeafAtPos(leaf, height) ==
  TwoItems(Encoded(2, SubSeq(leaf.key, height + 1, Len(leaf.key))), leaf.node.item)

\* An item of the tree as it was sent.
Sent(p) == IF p \in DOMAIN tree THEN tree[p] ELSE [kind |-> "empty"]

\* What the loop over a branch keeps: _oldList, generalChildAmount, oldValueIndex
\* (BranchSize: none), valuesAtNode, unhashedValuePosition, and mtHeight, which all
\* calls share.
LoopStart(p, height) ==
  [list |-> nodes[p].children, amount |-> 0, index |-> BranchSize,
   values |-> [n \in Children |-> Sent(Append(p, n))], unhashed |-> {},
   height |-> height, reverts |-> FALSE]

IsPresent(p, n) == nodes[p].children[n] # NoNode

\* What computeOldItem returns: a hash, or an item of the tree not hashed yet.
Returned(type, item, height) == [type |-> type, item |-> item, height |-> height]

\* An item below the one looked at comes back: its hash goes into _oldList.
PutBack(info, n, below) ==
  CASE below.type = "HASHED" -> [info EXCEPT !.list[n] = below.item, !.height = below.height]
    [] below.type = "REVERT" -> [info EXCEPT !.reverts = TRUE]
    [] OTHER -> [info EXCEPT !.values[n] = below.item, !.unhashed = @ \cup {n}, !.height = below.height]

\* One turn of the loop over a branch below the root, with what comes back from below.
OldChild(p, info, n, below) ==
  LET place == Append(p, n)
      present == IsPresent(p, n)
      counted == [info EXCEPT !.amount = IF present THEN @ + 1 ELSE @,
                              !.index = IF present /\ @ = BranchSize THEN n ELSE @]
      old == RestoreOldValueState(tree[place])
  IN  CASE Sent(place).kind = "empty" -> counted
        [] LeafAt(place) /\ old # NoNode ->
             [counted EXCEPT !.list[n] = old, !.amount = IF present THEN @ ELSE @ + 1]
        [] LeafAt(place) /\ old = NoNode ->
             [counted EXCEPT !.list[n] = old,
                             !.amount = IF present THEN @ - 1 ELSE @,
                             !.index = IF present /\ @ = n THEN BranchSize ELSE @]
        [] OTHER -> [PutBack(counted, n, below) EXCEPT !.index = n]

\* One turn of the loop over the root.  The decrement is not guarded.
OldChildOfRoot(info, n, below) ==
  LET place == <<n>>
      present == IsPresent(<<>>, n)
      counted == [info EXCEPT !.amount = IF present THEN @ + 1 ELSE @]
      old == RestoreOldValueState(tree[place])
  IN  CASE Sent(place).kind = "empty" -> counted
        [] LeafAt(place) /\ old # NoNode ->
             [counted EXCEPT !.list[n] = old, !.index = n, !.amount = IF present THEN @ ELSE @ + 1]
        [] LeafAt(place) /\ old = NoNode ->
             IF counted.amount = 0 THEN [info EXCEPT !.reverts = TRUE]
             ELSE [counted EXCEPT !.list[n] = old, !.amount = @ - 1]
        [] OTHER -> [PutBack(counted, n, below) EXCEPT !.index = IF below.type = "HASHED" THEN n ELSE @]

\* The loop over a branch; computed says what the calls for its items return.
OldTurns(p, start, computed) ==
  LET turn[i \in 0..BranchSize] ==
        IF i = 0 THEN start
        ELSE LET info == turn[i - 1]
                 below == computed[Append(p, i - 1)][info.height]
             IN  IF info.reverts THEN info
                 ELSE IF p = <<>> THEN OldChildOfRoot(info, i - 1, below)
                 ELSE OldChild(p, info, i - 1, below)
  IN  turn

\* A branch of one child was a leaf before, which is left to the node above.
\* Children that come back not hashed become leaves, if they are leaves.
OldBranch(info) ==
  LET leaves == {n \in info.unhashed : info.values[n].kind = "leaf"}
      single == info.amount = 1 /\ info.index < BranchSize
  IN  CASE info.reverts -> Returned("REVERT", NoNode, 0)
        [] ~info.reverts /\ single -> Returned("LEAF", info.values[info.index], info.height - 1)
        [] ~info.reverts /\ ~single /\ (\E n \in info.unhashed : info.values[n].kind = "empty") ->
             Returned("REVERT", NoNode, 0)
        [] OTHER ->
             Returned("HASHED",
                      Branch([n \in Children |-> IF n \in leaves THEN RestoreLeafAtPos(info.values[n], info.height)
                                                ELSE info.list[n]]),
                      info.height - 1)

\* An extension the branch of which is not hashed any more returns nothing.
OldExtension(p, below) ==
  CASE below.type = "HASHED" -> Returned("HASHED", TwoItems(nodes[p].path, below.item), below.height - 1)
    [] below.type = "REVERT" -> below
    [] OTHER -> Returned("BRANCH", [kind |-> "empty"], below.height)

\* computeOldItem, for every item of the tree and every mtHeight, which counts an
\* extension as one nibble.
OldItem ==
  LET computed[p \in DOMAIN tree] ==
        [height \in Int |->
           IF tree[p].kind = "extension" THEN OldExtension(p, computed[BelowExtension(p)][height + 1])
           ELSE OldBranch(OldTurns(p, LoopStart(p, height + 1), computed)[BranchSize])]
  IN  computed

\* The old root of a branch: none if one child is left.  What came back not
\* hashed is not put into _oldList.
OldRootOfBranch(info) ==
  IF info.reverts \/ (info.amount = 1 /\ info.index < BranchSize) THEN NoNode ELSE Branch(info.list)

\* The old root of an extension.  The hash that came back is read as an encoded
\* number, which it is if its first byte is that of a short one.
OldRootOfExtension(below) ==
  IF below.type # "HASHED" THEN {NoNode}
  ELSE {TwoItems(nodes[<<>>].path, item) : item \in {below.item, Garbage}}

\* computeRoots returns the old and the new root; what reverts has no old root.
OldRoots ==
  CASE LeafAt(<<>>) ->
         {IF RestoreOldValueState(tree[<<>>]) = NoNode THEN EmptyRoot ELSE RestoreOldValueState(tree[<<>>])}
    [] tree[<<>>].kind = "extension" ->
         OldRootOfExtension(OldItem[BelowExtension(<<>>)][1])
    [] OTHER ->
         {OldRootOfBranch(OldTurns(<<>>, LoopStart(<<>>, 1), OldItem)[BranchSize])}

NewRoot ==
  IF LeafAt(<<>>) THEN RestoreLeafAtPos(tree[<<>>], 0) ELSE nodes[<<>>]

\* A tree without nodes, or an extension without its branch, cannot be read.
Readable ==
  /\ tree # <<>>
  /\ \A p \in DOMAIN tree : tree[p].kind = "extension" => BelowExtension(p) \in DOMAIN tree

\* Mutant: what is below an extension is not looked at.
WordsAboveExtensions ==
  [s \in Slots |->
     LET leaves == {p \in DOMAIN tree : LeafAt(p) /\ tree[p].key = s
                      /\ ~ \E q \in DOMAIN tree : IsPrefix(q, p) /\ tree[q].kind = "extension"}
         item == tree[CHOOSE p \in leaves : TRUE].node.item
     IN  IF leaves = {} THEN proxy[s] ELSE IF item \in Contents THEN item ELSE Garbage]

\* setStorageValues: the word of every leaf, a slot having one at most.  The item
\* of an extension is a piece of a hash.
StoredWords ==
  [s \in Slots |->
     LET leaves == {p \in DOMAIN tree : LeafAt(p) /\ tree[p].key = s}
         item == tree[CHOOSE p \in leaves : TRUE].node.item
     IN  IF leaves = {} THEN proxy[s] ELSE IF item \in Contents THEN item ELSE Garbage]

-----------------------------------------------------------------------------
TreeInit ==
  /\ proxy \in [Slots -> OldWords \cup {ZeroWord}]
  /\ source \in [Slots -> Contents]
  /\ \A s \in Slots : source[s] \in NewWords \cup {ZeroWord, proxy[s]}
  /\ Cardinality(Changed) <= MaxChanged
  /\ nodes = NodesOf(source)
  /\ recorded = RootOf(proxy)
  /\ asked = {} /\ required = {} /\ tree = <<>>
  /\ phase = "asking"

Sending == phase = "adding" /\ required = {}

\* updateStorage: no root is checked.
UpdateStorage ==
  /\ Sending /\ Readable
  /\ proxy' = StoredWords
  /\ phase' = "updated"
  /\ UNCHANGED <<source, nodes, recorded, asked, required, tree>>

\* Mutant: the old root is not compared.
UpdateWithoutOldRoot ==
  /\ Sending /\ Readable
  /\ NewRoot = nodes[<<>>]
  /\ proxy' = StoredWords
  /\ recorded' = nodes[<<>>]
  /\ phase' = "verified"
  /\ UNCHANGED <<source, nodes, asked, required, tree>>

\* updateStorageModified: both roots are.
UpdateStorageModified ==
  /\ Sending /\ Readable
  /\ recorded \in OldRoots
  /\ NewRoot = nodes[<<>>]
  /\ proxy' = StoredWords
  /\ recorded' = nodes[<<>>]
  /\ phase' = "verified"
  /\ UNCHANGED <<source, nodes, asked, required, tree>>

\* It reverts.
Rejected ==
  /\ Sending
  /\ \/ ~Readable
     \/ Readable /\ (OldRoots # {recorded} \/ NewRoot # nodes[<<>>])
  /\ phase' = "rejected"
  /\ UNCHANGED <<source, nodes, recorded, proxy, asked, required, tree>>

TreeNext ==
  \/ \E k \in Slots : MergeProof(k) \/ MergeAdditional(k)
  \/ LookForKeys
  \/ UpdateStorage
  \/ UpdateStorageModified
  \/ Rejected

TreeSpec == TreeInit /\ [][TreeNext]_treeVars

-----------------------------------------------------------------------------
(***************************************************************************)
(* Properties.                                                             *)
(***************************************************************************)
\* What is asked for is held by one of the two at least.  A key neither holds gets
\* a leaf all the same, and with it a word that belongs to another slot.
NoneAskedInVain == asked \subseteq Held(source) \cup Held(proxy)

\* No slot that was emptied held the word that one of those filled has now.
NoWordMoves ==
  \A from, to \in Changed : source[from] = ZeroWord /\ proxy[to] = ZeroWord => proxy[from] # source[to]

\* An update both roots of which were checked leaves the proxy with the source's
\* words, whatever was asked for, and although computeRoots guesses the old trie:
\* it may fail to rebuild it, but unless a word moved, a wrong guess is never the
\* recorded root.
CheckedUpdateIsComplete ==
  [][phase' = "verified" /\ NoneAskedInVain /\ NoWordMoves => proxy' = source]_treeVars

\* What the relay says of the root it records for a proxy: it is the root of the
\* storage trie of the contract, here after an update of all that differs.
RecordsItsRoot ==
  [][phase' = "verified" /\ asked = Changed => recorded' = RootOf(proxy')]_treeVars

\* No branch comes or goes, and no two slots had one place after the other.
SameShape ==
  /\ BranchesOf(Held(source) \cup Held(proxy)) = BranchesOf(Held(source))
  /\ BranchesOf(Held(source) \cup Held(proxy)) = BranchesOf(Held(proxy))

\* Where no branch comes or goes, a checked update of all changes is accepted: with
\* values changed, added or removed at any branch below a root that is a branch,
\* or in a trie of one slot.
ValueUpdatesAreAccepted ==
  phase \in {"rejected", "failed"} =>
    ~ /\ Changed \subseteq asked /\ NoneAskedInVain /\ SameShape
      /\ \/ <<>> \in BranchesOf(Held(source))
         \/ \E k \in Slots : Held(source) = {k} /\ Held(proxy) \subseteq {k}

\* Without any check, as the client calls it, an update that removes nothing still
\* brings every change, whatever branches and extensions come.
AdditionsArrive ==
  [][phase' = "updated" /\ Changed \subseteq asked /\ NoneAskedInVain /\ Held(proxy) \subseteq Held(source)
     => proxy' = source]_treeVars

=============================================================================
