--------------------------------- MODULE Trie ---------------------------------
(***************************************************************************)
(* Merkle Patricia tries as the two chains build them and the client and   *)
(* the contracts read them.  A path is the sequence of its nibbles; what   *)
(* stands for the hash of a node, and how many children a branch has, is   *)
(* left to the modules that use them.                                      *)
(***************************************************************************)
EXTENDS Integers, Sequences, FiniteSets, SequencesExt

\* The hex prefix encoding: a flag, a padding if the length is even.
Encoded(flag, p) == IF Len(p) % 2 = 1 THEN <<flag + 1>> \o p ELSE <<flag, 0>> \o p

\* A node has one item per nibble and a value, or two items: the encoded rest of
\* a path and a value or a child.
Branch(children) == [items |-> 17, children |-> children]
TwoItems(encodedPath, item) == [items |-> 2, path |-> encodedPath, item |-> item]

\* The entries below a path, each under the rest of its own.
EntriesBelow(entries, p) ==
  [s \in {SubSeq(t, Len(p) + 1, Len(t)) : t \in {u \in DOMAIN entries : IsPrefix(p, u)}} |-> entries[p \o s]]

\* The node that stands for some entries.  It holds the hashes of the nodes below,
\* each for the rest of the path to it.
NodeWith(entries, nibbles, Hash(_)) ==
  LET prefix == LongestCommonPrefix(DOMAIN entries)
  IN  IF Cardinality(DOMAIN entries) = 1
      THEN TwoItems(Encoded(2, prefix), entries[prefix])
      ELSE IF prefix # <<>>
           THEN TwoItems(Encoded(0, prefix), Hash(prefix))
           ELSE Branch([n \in nibbles |-> Hash(<<n>>)])

=============================================================================
