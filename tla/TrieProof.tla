------------------------------ MODULE TrieProof ------------------------------
(***************************************************************************)
(* MerklePatriciaProof.verify, on which the account proofs of RelayProxy   *)
(* rest: the loop that follows a path from the root of a trie down the     *)
(* nodes a caller hands in.  One step is one turn of the loop; the caller  *)
(* may hand in any node at any turn, or none.                              *)
(*                                                                         *)
(* Abstractions.  The hash of a node is the entries it stands for, each    *)
(* under the rest of its path, and no entries where it is the hash of no   *)
(* node.  A byte string that is a path is the sequence of its nibbles, two *)
(* per byte.  A branch has Radix children instead of 16.  Paths are        *)
(* hashes: all of one length.                                              *)
(***************************************************************************)
EXTENDS Trie

CONSTANTS
  Radix,        \* children of a branch
  PathLength,   \* nibbles of a path, an even number
  MaxEntries,   \* bound: entries of the trie
  Values        \* what an entry can hold

ASSUME TrieAssumption ==
  /\ Radix \in Nat \ {0}
  /\ PathLength \in Nat \ {0} /\ PathLength % 2 = 0
  /\ MaxEntries \in Nat

Nibbles == 0..(Radix - 1)
Paths == [1..PathLength -> Nibbles]

VARIABLES
  trie,     \* the entries under the root: path -> value
  path,     \* encodedPath as nibbles
  value,
  nodeKey,  \* the hash the next node must have
  pathPtr,
  genuine,  \* whether all nodes so far are those eth_getProof answers for path
  result    \* "loop", "true", "false" or "revert"

proofVars == <<trie, path, value, nodeKey, pathPtr, genuine, result>>

-----------------------------------------------------------------------------
(***************************************************************************)
(* verify.                                                                 *)
(***************************************************************************)
\* Mutant: the flag of an odd leaf is not recognised.
GetNibbleArrayOfExtension(b) ==
  IF b[1] = 1 THEN Tail(b) ELSE SubSeq(b, 3, Len(b))

GetNibbleArray(b) ==
  IF b[1] \in {1, 3} THEN Tail(b) ELSE SubSeq(b, 3, Len(b))

\* Mutant: the nibbles are counted without being compared.
NibblesWithoutComparison(encodedPartialPath, ptr) == Len(GetNibbleArray(encodedPartialPath))

\* How many nibbles of the path a node stands for: none if they do not match.
NibblesToTraverse(encodedPartialPath, ptr) ==
  LET partialPath == GetNibbleArray(encodedPartialPath)
  IN  IF SubSeq(path, ptr + 1, ptr + Len(partialPath)) = partialPath THEN Len(partialPath) ELSE 0

\* The read of path beyond its end reverts.
OutOfBounds(node) == pathPtr + Len(GetNibbleArray(node.path)) > Len(path)

ProofInit ==
  /\ \E ks \in SUBSET Paths :
       /\ IsFiniteSet(ks) /\ Cardinality(ks) \in 1..MaxEntries
       /\ trie \in [ks -> Values]
  /\ \E p \in Paths : path = GetNibbleArray(<<0, 0>> \o p)
  /\ value \in Values
  /\ nodeKey = trie
  /\ pathPtr = 0
  /\ genuine = TRUE
  /\ result = "loop"

Return(r) == result' = r /\ UNCHANGED <<trie, path, value, nodeKey, pathPtr, genuine>>

\* The node handed in is another one, or there is none.
WrongNode ==
  /\ result = "loop"
  /\ genuine' = FALSE /\ result' = "false"
  /\ UNCHANGED <<trie, path, value, nodeKey, pathPtr>>

\* No node has the hash: that of an empty child, or the value of a leaf.
NoSuchNode ==
  /\ result = "loop" /\ DOMAIN nodeKey = {}
  /\ Return("false")

\* The node of the hash the loop has come to.
Node == NodeWith(nodeKey, Nibbles, LAMBDA rest : EntriesBelow(nodeKey, rest))

\* A branch.  Its value is empty, every path being as long as another.
BranchNode ==
  /\ result = "loop" /\ DOMAIN nodeKey # {} /\ Node.items = 17
  /\ IF pathPtr = Len(path) THEN Return("false")
     ELSE /\ nodeKey' = Node.children[path[pathPtr + 1]]
          /\ pathPtr' = pathPtr + 1
          /\ UNCHANGED <<trie, path, value, genuine, result>>

\* What the loop looks for below a node of two items: the value of a leaf is the
\* hash of no node.
IsLeaf(node) == node.path[1] \in {2, 3}
HashIn(node) == IF IsLeaf(node) THEN <<>> ELSE node.item

\* A leaf or an extension: which one is told by the end of the path alone, and
\* the loop goes on below a node whose nibbles do not match.  A leaf's value may
\* be too long to be read as a hash.
PairNode ==
  /\ result = "loop" /\ DOMAIN nodeKey # {} /\ Node.items = 2
  /\ IF OutOfBounds(Node) THEN Return("revert")
     ELSE /\ pathPtr' = pathPtr + NibblesToTraverse(Node.path, pathPtr)
          /\ IF pathPtr' = Len(path)
             THEN /\ result' = IF Node.item = value THEN "true" ELSE "false"
                  /\ UNCHANGED nodeKey
             ELSE \/ nodeKey' = HashIn(Node) /\ UNCHANGED result
                  \/ IsLeaf(Node) /\ result' = "revert" /\ UNCHANGED nodeKey
          /\ UNCHANGED <<trie, path, value, genuine>>

ProofNext == WrongNode \/ NoSuchNode \/ BranchNode \/ PairNode

ProofSpec == ProofInit /\ [][ProofNext]_proofVars

-----------------------------------------------------------------------------
(***************************************************************************)
(* Properties.                                                             *)
(***************************************************************************)
\* Whatever nodes are handed in, a value is accepted only if the trie holds it
\* at that path, although the loop does not stop at a node that does not match.
AcceptedIsInTrie ==
  result = "true" => path \in DOMAIN trie /\ trie[path] = value

\* The nodes eth_getProof answers for an entry of the trie are accepted, whatever
\* shape the trie has.
EntryIsAccepted ==
  result \notin {"loop", "true"} /\ genuine => path \notin DOMAIN trie \/ trie[path] # value

=============================================================================
