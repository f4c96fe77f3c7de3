--------------------------- MODULE Tries_proofs ---------------------------
(***************************************************************************)
(* MerklePatriciaProof.verify, for every trie, path, value and radix: what *)
(* it accepts is in the trie, and it accepts what eth_getProof answers for *)
(* an entry.  Then the optimised storage proof, for every set of slots and *)
(* words: what the tree that was sent says, what computeRoots makes of it, *)
(* that the words it brings are the source's, and where the old root is    *)
(* found again, so that the update is accepted.                            *)
(***************************************************************************)
EXTENDS TrieProof, OptimizedProof, SequenceTheorems, FiniteSetTheorems, TLAPS

-----------------------------------------------------------------------------
(***************************************************************************)
(* Numbers and sequences.                                                  *)
(***************************************************************************)
Smaller == OpToRel(<, Nat)

\* A bounded set of numbers has a greatest one.
LEMMA Greatest ==
  ASSUME NEW T \in SUBSET Nat, T # {}, NEW n \in Nat, \A x \in T : x <= n
  PROVE  \E x \in T : \A y \in T : y <= x
<1>. DEFINE U == {n - x : x \in T}
<1>1. U \in SUBSET Nat /\ U # {}
  <2>1. \A x \in T : n - x \in Nat
    OBVIOUS
  <2>2. \E x \in T : n - x \in U
    OBVIOUS
  <2>. QED BY <2>1, <2>2
<1>2. PICK u \in U : \A y \in U : ~(<<y, u>> \in Smaller)
  <2>1. IsWellFoundedOn(Smaller, Nat)
    BY NatLessThanWellFounded DEF Smaller
  <2>. QED BY <1>1, <2>1, WFMin
<1>3. PICK x \in T : u = n - x
  BY <1>2
<1>4. \A y \in T : ~(n - y < u)
  <2>1. TAKE y \in T
  <2>2. n - y \in U /\ n - y \in Nat /\ u \in Nat
    BY <1>1, <1>2
  <2>. QED BY <1>2, <2>2 DEF Smaller, OpToRel
<1>. QED BY <1>3, <1>4

Strings == Seq(Nat)

LEMMA PrefixFacts ==
  ASSUME NEW p \in Strings, NEW t \in Strings, IsPrefix(p, t)
  PROVE  /\ Len(p) <= Len(t)
         /\ SubSeq(t, 1, Len(p)) = p
         /\ SubSeq(t, Len(p) + 1, Len(t)) \in Strings
         /\ Len(SubSeq(t, Len(p) + 1, Len(t))) = Len(t) - Len(p)
         /\ p \o SubSeq(t, Len(p) + 1, Len(t)) = t
<1>1. Len(p) <= Len(t) /\ SubSeq(t, 1, Len(p)) = SubSeq(p, 1, Len(p))
  BY DEF IsPrefix
<1>2. SubSeq(p, 1, Len(p)) = p /\ SubSeq(t, 1, Len(t)) = t
  BY SubSeqFull DEF Strings
<1>3. Len(p) \in Nat /\ Len(t) \in Nat
  BY DEF Strings
<1>4. SubSeq(t, 1, Len(p)) \o SubSeq(t, Len(p) + 1, Len(t)) = SubSeq(t, 1, Len(t))
  <2>1. 1 \in 1..Len(t) + 1 /\ Len(p) \in 1 - 1..Len(t) /\ Len(t) \in Len(p)..Len(t)
    BY <1>1, <1>3
  <2>. QED BY <2>1, ConcatAdjacentSubSeq DEF Strings
<1>5. SubSeq(t, Len(p) + 1, Len(t)) \in Strings /\ Len(SubSeq(t, Len(p) + 1, Len(t))) = Len(t) - Len(p)
  <2>1. \A i \in Len(p) + 1..Len(t) : t[i] \in Nat
    BY <1>3 DEF Strings
  <2>2. Len(p) + 1 \in Int /\ Len(t) \in Int
    BY <1>3
  <2>. QED BY <1>1, <1>3, <2>1, <2>2, SubSeqProperties DEF Strings
<1>. QED BY <1>1, <1>2, <1>4, <1>5

\* A non-empty set of paths no longer than some number has a longest common prefix.
LEMMA CommonPrefix ==
  ASSUME NEW S \in SUBSET Strings, S # {}, NEW n \in Nat, \A s \in S : Len(s) <= n
  PROVE  /\ LongestCommonPrefix(S) \in Strings
         /\ \A s \in S : IsPrefix(LongestCommonPrefix(S), s)
         /\ \A p \in CommonPrefixes(S) : Len(p) <= Len(LongestCommonPrefix(S))
<1>. DEFINE C == CommonPrefixes(S)
            T == {Len(p) : p \in C}
<1>1. ASSUME NEW p \in C
      PROVE  p \in Strings /\ Len(p) <= n /\ \A s \in S : IsPrefix(p, s)
  <2>1. PICK s \in S : p \in Prefixes(s)
    BY DEF CommonPrefixes
  <2>2. PICK l \in 0..Len(s) : p = SubSeq(s, 1, l)
    BY <2>1 DEF Prefixes
  <2>3. p \in Strings /\ Len(p) = l
    <3>1. \A i \in 1..l : s[i] \in Nat
      BY <2>2 DEF Strings
    <3>2. 1 \in Int /\ l \in Int
      BY <2>2
    <3>. QED BY <2>2, <3>1, <3>2, SubSeqProperties DEF Strings
  <2>4. \A s0 \in S : IsPrefix(p, s0)
    BY DEF CommonPrefixes
  <2>. QED BY <2>2, <2>3, <2>4 DEF Strings
<1>2. <<>> \in C
  <2>1. PICK s \in S : TRUE
    OBVIOUS
  <2>2. SubSeq(s, 1, 0) = <<>> /\ 0 \in 0..Len(s)
    BY SubSeqEmpty DEF Strings
  <2>3. <<>> \in Prefixes(s)
    BY <2>2 DEF Prefixes
  <2>4. \A t \in S : IsPrefix(<<>>, t)
    <3>1. TAKE t \in S
    <3>2. Len(t) \in Nat /\ Len(<<>>) = 0
      BY DEF Strings
    <3>3. SubSeq(<<>>, 1, 0) = <<>> /\ SubSeq(t, 1, 0) = <<>>
      BY SubSeqEmpty
    <3>. QED BY <3>2, <3>3 DEF IsPrefix
  <2>. QED BY <2>3, <2>4 DEF CommonPrefixes
<1>3. \E p \in C : \A q \in C : Len(q) <= Len(p)
  <2>1. T \in SUBSET Nat /\ T # {} /\ \A x \in T : x <= n
    <3>1. \A p \in C : Len(p) \in Nat /\ Len(p) <= n
      BY <1>1 DEF Strings
    <3>2. Len(<<>>) \in T
      BY <1>2
    <3>. QED BY <3>1, <3>2
  <2>2. PICK x \in T : \A y \in T : y <= x
    BY <2>1, Greatest
  <2>. QED BY <2>2
<1>4. LongestCommonPrefix(S) \in C /\ \A q \in C : Len(q) <= Len(LongestCommonPrefix(S))
  BY <1>3 DEF LongestCommonPrefix
<1>. QED BY <1>1, <1>4

LEMMA PrefixOfOne ==
  ASSUME NEW s \in Strings
  PROVE  LongestCommonPrefix({s}) = s
<1>. DEFINE p == LongestCommonPrefix({s})
<1>1. Len(s) \in Nat
  BY DEF Strings
<1>2. p \in Strings /\ IsPrefix(p, s) /\ \A q \in CommonPrefixes({s}) : Len(q) <= Len(p)
  BY <1>1, CommonPrefix
<1>3. s \in CommonPrefixes({s})
  <2>1. s = SubSeq(s, 1, Len(s)) /\ Len(s) \in 0..Len(s)
    BY <1>1, SubSeqFull DEF Strings
  <2>2. s \in Prefixes(s)
    BY <2>1 DEF Prefixes
  <2>3. IsPrefix(s, s)
    BY <1>1 DEF IsPrefix
  <2>. QED BY <2>2, <2>3 DEF CommonPrefixes
<1>4. Len(p) = Len(s)
  <2>1. Len(s) <= Len(p)
    BY <1>2, <1>3
  <2>3. Len(p) \in Nat
    BY <1>2 DEF Strings
  <2>2. Len(p) <= Len(s)
    BY <1>2, PrefixFacts
  <2>. QED BY <1>1, <2>1, <2>2, <2>3
<1>5. SubSeq(s, 1, Len(p)) = p /\ SubSeq(s, 1, Len(s)) = s
  BY <1>2, PrefixFacts, SubSeqFull DEF Strings
<1>. QED BY <1>4, <1>5

-----------------------------------------------------------------------------
(***************************************************************************)
(* The nodes of a trie.                                                    *)
(***************************************************************************)
\* The contract takes from a node the nibbles that were encoded in it.
LEMMA NibblesOfEncoded ==
  ASSUME NEW p \in Strings, NEW f \in {0, 2}
  PROVE  /\ GetNibbleArray(Encoded(f, p)) = p
         /\ Encoded(f, p)[1] \in {2, 3} <=> f = 2
         /\ Encoded(f, p) \in Seq(Int) /\ Len(Encoded(f, p)) > Len(p)
<1>0. Len(p) \in Nat
  BY DEF Strings
<1>1. CASE Len(p) % 2 = 1
  <2>. DEFINE b == <<f + 1>> \o p
  <2>1. Encoded(f, p) = b
    BY <1>1 DEF Encoded
  <2>2. <<f + 1>> \in Seq(Int) /\ p \in Seq(Int) /\ Len(<<f + 1>>) = 1
    BY DEF Strings
  <2>3. b \in Seq(Int) /\ Len(b) = 1 + Len(p) /\ b[1] = f + 1 /\ \A i \in 2..Len(p) + 1 : b[i] = p[i - 1]
    BY <1>0, <2>2, ConcatProperties
  <2>4. Tail(b) = p
    <3>1. b # <<>>
      BY <2>3, <1>0
    <3>2. Tail(b) \in Seq(Int) /\ Len(Tail(b)) = Len(p) /\ \A i \in 1..Len(p) : Tail(b)[i] = b[i + 1]
      BY <1>0, <2>3, <3>1, HeadTailProperties
    <3>3. \A i \in 1..Len(p) : Tail(b)[i] = p[i]
      BY <1>0, <2>3, <3>2
    <3>. QED BY <2>2, <3>2, <3>3, SeqEqual
  <2>5. f + 1 \in {1, 3} /\ (f + 1 \in {2, 3} <=> f = 2)
    OBVIOUS
  <2>6. b[1] \in {1, 3} /\ (b[1] \in {2, 3} <=> f = 2)
    BY <2>3, <2>5
  <2>7. GetNibbleArray(b) = Tail(b)
    BY <2>6 DEF GetNibbleArray
  <2>. HIDE DEF b
  <2>. QED BY <1>0, <2>1, <2>3, <2>4, <2>6, <2>7
<1>2. CASE Len(p) % 2 # 1
  <2>. DEFINE b == <<f, 0>> \o p
  <2>1. Encoded(f, p) = b
    BY <1>2 DEF Encoded
  <2>2. <<f, 0>> \in Seq(Int) /\ p \in Seq(Int) /\ Len(<<f, 0>>) = 2
    BY DEF Strings
  <2>3. b \in Seq(Int) /\ Len(b) = 2 + Len(p) /\ b[1] = f /\ \A i \in 3..Len(p) + 2 : b[i] = p[i - 2]
    BY <1>0, <2>2, ConcatProperties
  <2>4. SubSeq(b, 3, Len(b)) = p
    <3>1. \A i \in 3..Len(b) : b[i] \in Int
      BY <1>0, <2>3
    <3>2. /\ SubSeq(b, 3, Len(b)) \in Seq(Int) /\ Len(SubSeq(b, 3, Len(b))) = Len(p)
          /\ \A i \in 1..Len(p) : SubSeq(b, 3, Len(b))[i] = b[i + 2]
      BY <1>0, <2>3, <3>1, SubSeqProperties
    <3>3. \A i \in 1..Len(p) : SubSeq(b, 3, Len(b))[i] = p[i]
      BY <1>0, <2>3, <3>2
    <3>. QED BY <2>2, <3>2, <3>3, SeqEqual
  <2>5. f \notin {1, 3} /\ (f \in {2, 3} <=> f = 2)
    OBVIOUS
  <2>6. b[1] \notin {1, 3} /\ (b[1] \in {2, 3} <=> f = 2)
    BY <2>3, <2>5
  <2>7. GetNibbleArray(b) = SubSeq(b, 3, Len(b))
    BY <2>6 DEF GetNibbleArray
  <2>. HIDE DEF b
  <2>. QED BY <1>0, <2>1, <2>3, <2>4, <2>6, <2>7
<1>. QED BY <1>1, <1>2

LEMMA EntriesBelowFacts ==
  ASSUME NEW e, DOMAIN e \in SUBSET Strings, NEW p \in Strings
  PROVE  /\ DOMAIN EntriesBelow(e, p) \in SUBSET Strings
         /\ \A s \in DOMAIN EntriesBelow(e, p) :
              /\ p \o s \in DOMAIN e /\ EntriesBelow(e, p)[s] = e[p \o s]
              /\ Len(p \o s) = Len(p) + Len(s)
         /\ \A t \in DOMAIN e : IsPrefix(p, t) => SubSeq(t, Len(p) + 1, Len(t)) \in DOMAIN EntriesBelow(e, p)
         /\ IsFiniteSet(DOMAIN e) => IsFiniteSet(DOMAIN EntriesBelow(e, p))
<1>. DEFINE P == {u \in DOMAIN e : IsPrefix(p, u)}
            S == {SubSeq(t, Len(p) + 1, Len(t)) : t \in P}
            rest == [t \in P |-> SubSeq(t, Len(p) + 1, Len(t))]
<1>1. EntriesBelow(e, p) = [s \in S |-> e[p \o s]]
  BY DEF EntriesBelow
<1>2. ASSUME NEW s \in S
      PROVE  s \in Strings /\ p \o s \in DOMAIN e /\ Len(p \o s) = Len(p) + Len(s)
  <2>1. PICK t \in P : s = SubSeq(t, Len(p) + 1, Len(t))
    OBVIOUS
  <2>2. t \in DOMAIN e /\ t \in Strings /\ IsPrefix(p, t)
    OBVIOUS
  <2>3. s \in Strings /\ p \o s = t /\ Len(s) = Len(t) - Len(p)
    BY <2>1, <2>2, PrefixFacts
  <2>4. Len(p) \in Nat /\ Len(t) \in Nat
    BY <2>2 DEF Strings
  <2>5. Len(t) = Len(p) + Len(s)
    BY <2>3, <2>4
  <2>. QED BY <2>2, <2>3, <2>5
<1>3. IsFiniteSet(DOMAIN e) => IsFiniteSet(S)
  <2>1. SUFFICES ASSUME IsFiniteSet(DOMAIN e) PROVE IsFiniteSet(S)
    OBVIOUS
  <2>2. IsFiniteSet(P)
    BY <2>1, FS_Subset
  <2>3. rest \in Surjection(P, S)
    BY DEF Surjection
  <2>. QED BY <2>2, <2>3, FS_Surjection
<1>4. DOMAIN EntriesBelow(e, p) = S /\ \A s \in S : EntriesBelow(e, p)[s] = e[p \o s]
  BY <1>1
<1>. QED BY <1>2, <1>3, <1>4

\* A leaf, an extension or a branch.
LEMMA NodeCases ==
  ASSUME NEW e, DOMAIN e \in SUBSET Strings, IsFiniteSet(DOMAIN e), DOMAIN e # {},
         NEW n \in Nat, \A s \in DOMAIN e : Len(s) <= n,
         NEW nibbles, NEW node, node = NodeWith(e, nibbles, LAMBDA rest : EntriesBelow(e, rest))
  PROVE  \/ \E s \in Strings :
              /\ DOMAIN e = {s}
              /\ node = TwoItems(Encoded(2, s), e[s])
         \/ \E p \in Strings \ {<<>>} :
              /\ \A t \in DOMAIN e : IsPrefix(p, t)
              /\ \A s : DOMAIN e # {s}
              /\ node = TwoItems(Encoded(0, p), EntriesBelow(e, p))
         \/ /\ \A s : DOMAIN e # {s}
            /\ node = Branch([i \in nibbles |-> EntriesBelow(e, <<i>>)])
<1>. DEFINE prefix == LongestCommonPrefix(DOMAIN e)
<1>1. prefix \in Strings /\ \A t \in DOMAIN e : IsPrefix(prefix, t)
  BY CommonPrefix
<1>2. Cardinality(DOMAIN e) = 1 <=> \E s : DOMAIN e = {s}
  BY FS_Singleton
<1>3. CASE Cardinality(DOMAIN e) = 1
  <2>1. PICK s \in Strings : DOMAIN e = {s}
    BY <1>2, <1>3
  <2>2. prefix = s
    BY <2>1, PrefixOfOne
  <2>3. node = TwoItems(Encoded(2, prefix), e[prefix])
    BY <1>3 DEF NodeWith
  <2>. QED BY <2>1, <2>2, <2>3
<1>4. CASE Cardinality(DOMAIN e) # 1 /\ prefix # <<>>
  <2>1. node = TwoItems(Encoded(0, prefix), EntriesBelow(e, prefix))
    BY <1>4 DEF NodeWith
  <2>. QED BY <1>1, <1>2, <1>4, <2>1
<1>5. CASE Cardinality(DOMAIN e) # 1 /\ prefix = <<>>
  <2>1. node = Branch([i \in nibbles |-> EntriesBelow(e, <<i>>)])
    BY <1>5 DEF NodeWith
  <2>. QED BY <1>2, <1>5, <2>1
<1>. QED BY <1>3, <1>4, <1>5

-----------------------------------------------------------------------------
(***************************************************************************)
(* The loop.                                                               *)
(***************************************************************************)
ProofTypeOK ==
  /\ DOMAIN trie \in SUBSET Strings /\ \A t \in DOMAIN trie : Len(t) = PathLength
  /\ path \in Seq(Nibbles) /\ Len(path) = PathLength
  /\ pathPtr \in 0..PathLength
  /\ DOMAIN nodeKey \in SUBSET Strings /\ IsFiniteSet(DOMAIN nodeKey)

\* All entries below the node that is looked for have as many nibbles left.  Where
\* a node did not match, that is fewer than the path has.
NoneTooLong ==
  /\ \A s \in DOMAIN nodeKey : pathPtr + Len(s) <= PathLength
  /\ \A s, t \in DOMAIN nodeKey : Len(s) = Len(t)

\* If it is as many as the path has left, every node above matched: below the node
\* are entries of the trie that begin as the path does.
BelowThePath ==
  \A s \in DOMAIN nodeKey : pathPtr + Len(s) = PathLength =>
    LET p == SubSeq(path, 1, pathPtr) \o s
    IN  p \in DOMAIN trie /\ trie[p] = nodeKey[s]

RestOfPath == SubSeq(path, pathPtr + 1, PathLength)

\* With the nodes of eth_getProof the entry that is proved is among them.
OnThePath == genuine /\ path \in DOMAIN trie => RestOfPath \in DOMAIN nodeKey

ProofInv ==
  /\ ProofTypeOK
  /\ result = "loop" => NoneTooLong /\ BelowThePath /\ OnThePath
  /\ AcceptedIsInTrie
  /\ EntryIsAccepted

LEMMA NibbleStrings == Nibbles \subseteq Nat /\ Seq(Nibbles) \subseteq Strings
BY TrieAssumption DEF Nibbles, Strings

LEMMA PathFacts ==
  ASSUME ProofTypeOK
  PROVE  /\ path \in Strings
         /\ Len(path) = PathLength /\ PathLength \in Nat /\ pathPtr \in Nat /\ pathPtr <= PathLength
         /\ SubSeq(path, 1, pathPtr) \in Strings /\ Len(SubSeq(path, 1, pathPtr)) = pathPtr
         /\ RestOfPath \in Strings /\ Len(RestOfPath) = PathLength - pathPtr
         /\ SubSeq(path, 1, pathPtr) \o RestOfPath = path
<1>1. Len(path) = PathLength /\ PathLength \in Nat /\ pathPtr \in Nat /\ pathPtr <= PathLength /\ path \in Seq(Nat)
  BY TrieAssumption, NibbleStrings DEF ProofTypeOK, Strings
<1>2. SubSeq(path, 1, pathPtr) \in Strings /\ Len(SubSeq(path, 1, pathPtr)) = pathPtr
  BY <1>1, SubSeqProperties DEF Strings
<1>3. RestOfPath \in Strings /\ Len(RestOfPath) = PathLength - pathPtr
  BY <1>1, SubSeqProperties DEF Strings, RestOfPath
<1>4. SubSeq(path, 1, pathPtr) \o RestOfPath = path
  <2>1. 1 \in 1..Len(path) + 1 /\ pathPtr \in 1 - 1..Len(path) /\ Len(path) \in pathPtr..Len(path)
    BY <1>1
  <2>. QED BY <1>1, <2>1, ConcatAdjacentSubSeq, SubSeqFull DEF RestOfPath
<1>. QED BY <1>1, <1>2, <1>3, <1>4 DEF Strings

LEMMA RestBegins ==
  ASSUME ProofTypeOK, NEW p \in Strings, p # <<>>, pathPtr + Len(p) <= PathLength
  PROVE  SubSeq(RestOfPath, 1, Len(p)) = SubSeq(path, pathPtr + 1, pathPtr + Len(p))
<1>1. pathPtr \in Nat /\ PathLength \in Nat /\ Len(path) = PathLength /\ path \in Strings
  BY PathFacts DEF ProofTypeOK
<1>2. Len(p) \in Nat /\ Len(p) # 0
  BY EmptySeq DEF Strings
<1>3. /\ pathPtr + 1 \in 1..Len(path) /\ PathLength \in 1..Len(path)
      /\ 1 \in 1..PathLength - (pathPtr + 1) + 1
      /\ Len(p) \in 1..PathLength - (pathPtr + 1) + 1
  BY <1>1, <1>2
<1>4. SubSeq(SubSeq(path, pathPtr + 1, PathLength), 1, Len(p))
      = SubSeq(path, (pathPtr + 1) + 1 - 1, (pathPtr + 1) + Len(p) - 1)
  BY <1>1, <1>3, SubSeqOfSubSeq DEF Strings
<1>5. (pathPtr + 1) + 1 - 1 = pathPtr + 1 /\ (pathPtr + 1) + Len(p) - 1 = pathPtr + Len(p)
  BY <1>1, <1>2
<1>. QED BY <1>4, <1>5 DEF RestOfPath

\* The entries below a node that matches.
LEMMA Descent ==
  ASSUME ProofTypeOK, NoneTooLong, BelowThePath, OnThePath,
         NEW p \in Strings, p # <<>>, NEW b, b = EntriesBelow(nodeKey, p),
         NEW ptr, ptr = pathPtr + Len(p), ptr <= PathLength,
         SubSeq(path, pathPtr + 1, ptr) = p
  PROVE  /\ \A s \in DOMAIN b : ptr + Len(s) <= PathLength
         /\ \A s, t \in DOMAIN b : Len(s) = Len(t)
         /\ \A s \in DOMAIN b : ptr + Len(s) = PathLength =>
              /\ SubSeq(path, 1, ptr) \o s \in DOMAIN trie
              /\ trie[SubSeq(path, 1, ptr) \o s] = b[s]
         /\ genuine /\ path \in DOMAIN trie => SubSeq(path, ptr + 1, PathLength) \in DOMAIN b
<1>. DEFINE done == SubSeq(path, 1, pathPtr)
<1>1. /\ pathPtr \in Nat /\ PathLength \in Nat /\ pathPtr <= PathLength /\ done \in Strings
      /\ Len(path) = PathLength /\ path \in Strings /\ DOMAIN nodeKey \in SUBSET Strings
  BY PathFacts DEF ProofTypeOK
<1>2. Len(p) \in Nat /\ Len(p) >= 1 /\ ptr \in Nat
  <2>1. Len(p) \in Nat /\ Len(p) # 0
    BY EmptySeq DEF Strings
  <2>. QED BY <1>1, <2>1
<1>3. /\ DOMAIN b \in SUBSET Strings
      /\ \A s \in DOMAIN b : p \o s \in DOMAIN nodeKey /\ b[s] = nodeKey[p \o s] /\ Len(p \o s) = Len(p) + Len(s)
      /\ \A t \in DOMAIN nodeKey : IsPrefix(p, t) => SubSeq(t, Len(p) + 1, Len(t)) \in DOMAIN b
  BY <1>1, EntriesBelowFacts
<1>4. \A s \in DOMAIN b : Len(s) \in Nat
  BY <1>3 DEF Strings
<1>5. ASSUME NEW s \in DOMAIN b
      PROVE  ptr + Len(s) <= PathLength /\ \A t \in DOMAIN b : Len(s) = Len(t)
  <2>1. pathPtr + Len(p \o s) <= PathLength
    BY <1>3 DEF NoneTooLong
  <2>2. ASSUME NEW t \in DOMAIN b PROVE Len(s) = Len(t)
    <3>1. Len(p \o s) = Len(p \o t)
      BY <1>3 DEF NoneTooLong
    <3>. QED BY <1>2, <1>3, <1>4, <3>1
  <2>. QED BY <1>1, <1>2, <1>3, <1>4, <2>1, <2>2
<1>6. SubSeq(path, 1, ptr) = done \o p
  <2>1. 1 \in 1..Len(path) + 1 /\ pathPtr \in 1 - 1..Len(path) /\ ptr \in pathPtr..Len(path)
    BY <1>1, <1>2
  <2>. QED BY <1>1, <2>1, ConcatAdjacentSubSeq DEF Strings
<1>7. ASSUME NEW s \in DOMAIN b, ptr + Len(s) = PathLength
      PROVE  /\ SubSeq(path, 1, ptr) \o s \in DOMAIN trie
             /\ trie[SubSeq(path, 1, ptr) \o s] = b[s]
  <2>1. SubSeq(path, 1, ptr) \o s = done \o (p \o s)
    <3>1. done \in Seq(Nat) /\ p \in Seq(Nat) /\ s \in Seq(Nat)
      BY <1>1, <1>3 DEF Strings
    <3>2. \A r, t, u \in Seq(Nat) : (r \o t) \o u = r \o (t \o u)
      BY ConcatAssociative
    <3>3. (done \o p) \o s = done \o (p \o s)
      BY <3>1, <3>2
    <3>4. SubSeq(path, 1, ptr) \o s = (done \o p) \o s
      BY <1>6
    <3>. QED BY <3>3, <3>4
  <2>2. pathPtr + Len(p \o s) = PathLength
    BY <1>1, <1>2, <1>3, <1>4, <1>7
  <2>3. p \o s \in DOMAIN nodeKey /\ b[s] = nodeKey[p \o s]
    BY <1>3
  <2>. QED BY <2>1, <2>2, <2>3 DEF BelowThePath
<1>8. ASSUME genuine, path \in DOMAIN trie
      PROVE  SubSeq(path, ptr + 1, PathLength) \in DOMAIN b
  <2>1. RestOfPath \in DOMAIN nodeKey /\ RestOfPath \in Strings /\ Len(RestOfPath) = PathLength - pathPtr
    BY <1>8, PathFacts DEF OnThePath
  <2>2. Len(p) <= Len(RestOfPath)
    BY <1>1, <1>2, <2>1
  <2>3. SubSeq(RestOfPath, 1, Len(p)) = SubSeq(path, pathPtr + 1, ptr)
    BY RestBegins
  <2>4. SubSeq(p, 1, Len(p)) = p
    BY SubSeqFull DEF Strings
  <2>5. IsPrefix(p, RestOfPath)
    BY <2>2, <2>3, <2>4 DEF IsPrefix
  <2>6. SubSeq(RestOfPath, Len(p) + 1, Len(RestOfPath)) = SubSeq(path, ptr + 1, PathLength)
    <3>1. CASE ptr = PathLength
      <4>1. Len(RestOfPath) < Len(p) + 1 /\ PathLength < ptr + 1
        BY <1>1, <1>2, <2>1, <3>1
      <4>. QED BY <1>1, <1>2, <2>1, <4>1, SubSeqEmpty
    <3>2. CASE ptr < PathLength
      <4>1. /\ pathPtr + 1 \in 1..Len(path) /\ PathLength \in 1..Len(path)
            /\ Len(p) + 1 \in 1..PathLength - (pathPtr + 1) + 1
            /\ PathLength - pathPtr \in 1..PathLength - (pathPtr + 1) + 1
        BY <1>1, <1>2, <3>2
      <4>2. SubSeq(SubSeq(path, pathPtr + 1, PathLength), Len(p) + 1, PathLength - pathPtr)
            = SubSeq(path, (pathPtr + 1) + (Len(p) + 1) - 1, (pathPtr + 1) + (PathLength - pathPtr) - 1)
        BY <1>1, <4>1, SubSeqOfSubSeq DEF Strings
      <4>3. (pathPtr + 1) + (Len(p) + 1) - 1 = ptr + 1 /\ (pathPtr + 1) + (PathLength - pathPtr) - 1 = PathLength
        BY <1>1, <1>2
      <4>. QED BY <2>1, <4>2, <4>3 DEF RestOfPath
    <3>. QED BY <1>1, <1>2, <3>1, <3>2
  <2>. QED BY <1>3, <2>1, <2>5, <2>6
<1>. QED BY <1>5, <1>7, <1>8

LEMMA ProofInitInv == ProofInit => ProofInv
<1>. SUFFICES ASSUME ProofInit PROVE ProofInv
  OBVIOUS
<1>1. PathLength \in Nat /\ PathLength % 2 = 0
  BY TrieAssumption
<1>2. ASSUME NEW t \in Paths
      PROVE  t \in Strings /\ t \in Seq(Nibbles) /\ Len(t) = PathLength
  BY <1>1, NibbleStrings DEF Paths
<1>3. PICK ks \in SUBSET Paths : IsFiniteSet(ks) /\ trie \in [ks -> Values]
  BY DEF ProofInit
<1>4. DOMAIN trie \in SUBSET Strings /\ (\A t \in DOMAIN trie : Len(t) = PathLength) /\ IsFiniteSet(DOMAIN trie)
  BY <1>2, <1>3
<1>5. path \in Strings /\ path \in Seq(Nibbles) /\ Len(path) = PathLength
  <2>1. PICK p \in Paths : path = GetNibbleArray(<<0, 0>> \o p)
    BY DEF ProofInit
  <2>2. Encoded(0, p) = <<0, 0>> \o p
    BY <1>1, <1>2 DEF Encoded
  <2>3. path = p
    BY <1>2, <2>1, <2>2, NibblesOfEncoded
  <2>. QED BY <1>2, <2>3
<1>6. nodeKey = trie /\ pathPtr = 0 /\ result = "loop"
  BY DEF ProofInit
<1>7. ProofTypeOK
  BY <1>1, <1>4, <1>5, <1>6 DEF ProofTypeOK
<1>8. NoneTooLong
  BY <1>1, <1>4, <1>6 DEF NoneTooLong
<1>9. BelowThePath
  <2>1. SubSeq(path, 1, pathPtr) = <<>>
    BY <1>6, SubSeqEmpty
  <2>2. \A s \in DOMAIN nodeKey : <<>> \o s = s
    BY <1>4, <1>6, ConcatEmptySeq DEF Strings
  <2>. QED BY <1>6, <2>1, <2>2 DEF BelowThePath
<1>10. OnThePath
  <2>1. RestOfPath = path
    BY <1>5, <1>6, SubSeqFull DEF RestOfPath, Strings
  <2>. QED BY <1>6, <2>1 DEF OnThePath
<1>. QED BY <1>6, <1>7, <1>8, <1>9, <1>10 DEF ProofInv, AcceptedIsInTrie, EntryIsAccepted

LEMMA NoNodeInv ==
  ASSUME ProofInv, WrongNode \/ NoSuchNode
  PROVE  ProofInv'
<1>1. ProofTypeOK' /\ result' = "false"
  BY DEF ProofInv, ProofTypeOK, WrongNode, NoSuchNode, Return
<1>2. EntryIsAccepted'
  <2>1. CASE WrongNode
    BY <2>1 DEF WrongNode, EntryIsAccepted
  <2>2. CASE NoSuchNode
    <3>1. ~(genuine /\ path \in DOMAIN trie)
      BY <2>2 DEF ProofInv, OnThePath, NoSuchNode
    <3>. QED BY <2>2, <3>1 DEF NoSuchNode, Return, EntryIsAccepted
  <2>. QED BY <2>1, <2>2
<1>. QED BY <1>1, <1>2 DEF ProofInv, AcceptedIsInTrie

\* The loop goes down along a part of the path.
LEMMA MatchInv ==
  ASSUME ProofInv, result = "loop", UNCHANGED <<trie, path, value, genuine, result>>,
         NEW p \in Strings, p # <<>>, nodeKey' = EntriesBelow(nodeKey, p),
         pathPtr' = pathPtr + Len(p), pathPtr' <= PathLength,
         SubSeq(path, pathPtr + 1, pathPtr') = p
  PROVE  ProofInv'
<1>1. ProofTypeOK /\ NoneTooLong /\ BelowThePath /\ OnThePath
  BY DEF ProofInv
<1>2. pathPtr \in Nat /\ Len(p) \in Nat /\ PathLength \in Nat
  BY <1>1, PathFacts DEF Strings
<1>3. /\ \A s \in DOMAIN nodeKey' : pathPtr' + Len(s) <= PathLength
      /\ \A s, t \in DOMAIN nodeKey' : Len(s) = Len(t)
      /\ \A s \in DOMAIN nodeKey' : pathPtr' + Len(s) = PathLength =>
           /\ SubSeq(path, 1, pathPtr') \o s \in DOMAIN trie
           /\ trie[SubSeq(path, 1, pathPtr') \o s] = (nodeKey')[s]
      /\ genuine /\ path \in DOMAIN trie => SubSeq(path, pathPtr' + 1, PathLength) \in DOMAIN nodeKey'
  <2>1. \A b, ptr : b = EntriesBelow(nodeKey, p) /\ ptr = pathPtr + Len(p) /\ ptr <= PathLength
                      /\ SubSeq(path, pathPtr + 1, ptr) = p =>
          /\ \A s \in DOMAIN b : ptr + Len(s) <= PathLength
          /\ \A s, t \in DOMAIN b : Len(s) = Len(t)
          /\ \A s \in DOMAIN b : ptr + Len(s) = PathLength =>
               /\ SubSeq(path, 1, ptr) \o s \in DOMAIN trie
               /\ trie[SubSeq(path, 1, ptr) \o s] = b[s]
          /\ genuine /\ path \in DOMAIN trie => SubSeq(path, ptr + 1, PathLength) \in DOMAIN b
    BY <1>1, Descent
  <2>. QED BY <2>1
<1>4. ProofTypeOK'
  <2>1. DOMAIN nodeKey' \in SUBSET Strings /\ IsFiniteSet(DOMAIN nodeKey')
    BY <1>1, EntriesBelowFacts DEF ProofTypeOK
  <2>2. pathPtr' \in 0..PathLength
    BY <1>2
  <2>. QED BY <1>1, <2>1, <2>2 DEF ProofTypeOK
<1>5. NoneTooLong' /\ BelowThePath' /\ OnThePath'
  BY <1>3 DEF NoneTooLong, BelowThePath, OnThePath, RestOfPath
<1>. QED BY <1>4, <1>5 DEF ProofInv, AcceptedIsInTrie, EntryIsAccepted

\* The cases of the node the loop has come to.
LEMMA CurrentNode ==
  ASSUME ProofTypeOK, NoneTooLong, DOMAIN nodeKey # {}
  PROVE  \/ \E s \in Strings :
              /\ DOMAIN nodeKey = {s}
              /\ Node = TwoItems(Encoded(2, s), nodeKey[s])
         \/ \E p \in Strings \ {<<>>} :
              /\ \A t \in DOMAIN nodeKey : IsPrefix(p, t)
              /\ \A s : DOMAIN nodeKey # {s}
              /\ Node = TwoItems(Encoded(0, p), EntriesBelow(nodeKey, p))
         \/ /\ \A s : DOMAIN nodeKey # {s}
            /\ Node = Branch([i \in Nibbles |-> EntriesBelow(nodeKey, <<i>>)])
<1>1. \A s \in DOMAIN nodeKey : Len(s) <= PathLength
  BY PathFacts DEF ProofTypeOK, NoneTooLong, Strings
<1>2. DOMAIN nodeKey \in SUBSET Strings /\ IsFiniteSet(DOMAIN nodeKey) /\ PathLength \in Nat
  BY TrieAssumption DEF ProofTypeOK
<1>. QED BY <1>1, <1>2, NodeCases DEF Node

LEMMA BranchNodeInv ==
  ASSUME ProofInv, BranchNode
  PROVE  ProofInv'
<1>1. /\ ProofTypeOK /\ NoneTooLong /\ BelowThePath /\ OnThePath
      /\ result = "loop" /\ DOMAIN nodeKey # {} /\ Node.items = 17
      /\ Len(path) = PathLength
  BY DEF ProofInv, BranchNode, ProofTypeOK
<1>2. /\ \A s : DOMAIN nodeKey # {s}
      /\ Node = Branch([i \in Nibbles |-> EntriesBelow(nodeKey, <<i>>)])
  <2>1. \A a, b : TwoItems(a, b).items # 17
    BY DEF TwoItems
  <2>. QED BY <1>1, <2>1, CurrentNode
<1>3. CASE pathPtr = PathLength
  <2>1. result' = "false" /\ UNCHANGED <<trie, path, value, nodeKey, pathPtr, genuine>>
    BY <1>1, <1>3 DEF BranchNode, Return
  <2>2. ~(genuine /\ path \in DOMAIN trie)
    <3>1. SUFFICES ASSUME genuine, path \in DOMAIN trie PROVE FALSE
      OBVIOUS
    <3>2. RestOfPath \in DOMAIN nodeKey /\ Len(RestOfPath) = 0
      BY <1>1, <1>3, <3>1, PathFacts DEF OnThePath
    <3>3. \A s \in DOMAIN nodeKey : s = <<>>
      <4>1. TAKE s \in DOMAIN nodeKey
      <4>2. Len(s) = 0 /\ s \in Strings
        BY <1>1, <3>2 DEF NoneTooLong, ProofTypeOK
      <4>. QED BY <4>2, EmptySeq DEF Strings
    <3>. QED BY <1>2, <3>2, <3>3
  <2>. QED BY <1>1, <2>1, <2>2 DEF ProofInv, ProofTypeOK, AcceptedIsInTrie, EntryIsAccepted
<1>4. CASE pathPtr # PathLength
  <2>. DEFINE n == path[pathPtr + 1]
  <2>1. /\ nodeKey' = Node.children[n] /\ pathPtr' = pathPtr + 1
        /\ UNCHANGED <<trie, path, value, genuine, result>>
    BY <1>1, <1>4 DEF BranchNode
  <2>2. pathPtr \in Nat /\ pathPtr + 1 \in 1..PathLength /\ PathLength \in Nat
    BY <1>1, <1>4, PathFacts
  <2>3. n \in Nibbles /\ n \in Nat
    <3>1. path \in Seq(Nibbles)
      BY <1>1 DEF ProofTypeOK
    <3>2. n \in Nibbles
      BY <1>1, <2>2, <3>1
    <3>. QED BY <3>2, NibbleStrings
  <2>4. nodeKey' = EntriesBelow(nodeKey, <<n>>)
    BY <1>2, <2>1, <2>3 DEF Branch
  <2>5. <<n>> \in Strings /\ <<n>> # <<>> /\ Len(<<n>>) = 1
    BY <2>3 DEF Strings
  <2>6. SubSeq(path, pathPtr + 1, pathPtr + 1) = <<n>>
    <3>1. /\ SubSeq(path, pathPtr + 1, pathPtr + 1) \in Strings
          /\ Len(SubSeq(path, pathPtr + 1, pathPtr + 1)) = 1
          /\ SubSeq(path, pathPtr + 1, pathPtr + 1)[1] = n
      <4>1. path \in Seq(Nat) /\ \A i \in pathPtr + 1..pathPtr + 1 : path[i] \in Nat
        BY <1>1, <2>2, <2>3, PathFacts DEF Strings
      <4>. QED BY <1>1, <2>2, <4>1, SubSeqProperties DEF Strings
    <3>2. \A q \in Seq(Nat) : Len(q) = 1 /\ q[1] = n => q = <<n>>
      BY <2>3
    <3>. QED BY <3>1, <3>2 DEF Strings
  <2>7. PICK p \in Strings : p = <<n>>
    BY <2>5
  <2>8. /\ p # <<>> /\ nodeKey' = EntriesBelow(nodeKey, p) /\ pathPtr' = pathPtr + Len(p)
        /\ pathPtr' <= PathLength /\ SubSeq(path, pathPtr + 1, pathPtr') = p
    BY <2>1, <2>2, <2>4, <2>5, <2>6, <2>7
  <2>. QED BY <1>1, <2>1, <2>8, MatchInv
<1>. QED BY <1>3, <1>4

\* What the loop does at a leaf or an extension that holds the nibbles p.
LEMMA PairNodeCases ==
  ASSUME ProofTypeOK, PairNode, NEW p \in Strings, NEW f \in {0, 2}, NEW item,
         Node = TwoItems(Encoded(f, p), item), pathPtr + Len(p) <= PathLength
  PROVE  /\ UNCHANGED <<trie, path, value, genuine>>
         /\ \/ SubSeq(path, pathPtr + 1, pathPtr + Len(p)) = p /\ pathPtr' = pathPtr + Len(p)
            \/ SubSeq(path, pathPtr + 1, pathPtr + Len(p)) # p /\ pathPtr' = pathPtr
         /\ \/ /\ pathPtr' = PathLength /\ nodeKey' = nodeKey
               /\ result' = IF item = value THEN "true" ELSE "false"
            \/ /\ pathPtr' # PathLength /\ result' = result
               /\ nodeKey' = IF f = 2 THEN <<>> ELSE item
            \/ /\ f = 2 /\ pathPtr' # PathLength /\ result' = "revert"
               /\ nodeKey' = nodeKey
<1>1. Node.path = Encoded(f, p) /\ Node.item = item
  BY DEF TwoItems
<1>2. GetNibbleArray(Node.path) = p /\ (Node.path[1] \in {2, 3} <=> f = 2)
  BY <1>1, NibblesOfEncoded
<1>3. Len(path) = PathLength /\ pathPtr \in Nat /\ PathLength \in Nat /\ Len(p) \in Nat
  BY PathFacts DEF Strings
<1>4. ~OutOfBounds(Node)
  BY <1>2, <1>3 DEF OutOfBounds
<1>5. /\ pathPtr' = pathPtr + NibblesToTraverse(Node.path, pathPtr)
      /\ IF pathPtr' = Len(path)
         THEN result' = (IF Node.item = value THEN "true" ELSE "false") /\ UNCHANGED nodeKey
         ELSE \/ nodeKey' = HashIn(Node) /\ UNCHANGED result
              \/ IsLeaf(Node) /\ result' = "revert" /\ UNCHANGED nodeKey
      /\ UNCHANGED <<trie, path, value, genuine>>
  BY <1>4 DEF PairNode
<1>6. NibblesToTraverse(Node.path, pathPtr)
      = IF SubSeq(path, pathPtr + 1, pathPtr + Len(p)) = p THEN Len(p) ELSE 0
  BY <1>2 DEF NibblesToTraverse
<1>7. HashIn(Node) = (IF f = 2 THEN <<>> ELSE item) /\ (IsLeaf(Node) <=> f = 2)
  BY <1>1, <1>2 DEF HashIn, IsLeaf
<1>. QED BY <1>1, <1>3, <1>5, <1>6, <1>7

\* At a leaf: the path ends there if the loop is where the entry is.
LEMMA LeafInv ==
  ASSUME ProofInv, PairNode, NEW s \in Strings, DOMAIN nodeKey = {s},
         Node = TwoItems(Encoded(2, s), nodeKey[s])
  PROVE  ProofInv'
<1>1. ProofTypeOK /\ NoneTooLong /\ BelowThePath /\ OnThePath /\ result = "loop"
  BY DEF ProofInv, PairNode
<1>2. pathPtr \in Nat /\ PathLength \in Nat /\ Len(s) \in Nat
  BY <1>1, PathFacts DEF Strings
<1>3. pathPtr + Len(s) <= PathLength
  BY <1>1 DEF NoneTooLong
<1>4. /\ UNCHANGED <<trie, path, value, genuine>>
      /\ \/ SubSeq(path, pathPtr + 1, pathPtr + Len(s)) = s /\ pathPtr' = pathPtr + Len(s)
         \/ SubSeq(path, pathPtr + 1, pathPtr + Len(s)) # s /\ pathPtr' = pathPtr
      /\ \/ /\ pathPtr' = PathLength /\ nodeKey' = nodeKey
            /\ result' = IF nodeKey[s] = value THEN "true" ELSE "false"
         \/ pathPtr' # PathLength /\ result' = result /\ nodeKey' = <<>>
         \/ pathPtr' # PathLength /\ result' = "revert" /\ nodeKey' = nodeKey
  BY <1>1, <1>3, PairNodeCases
<1>5. pathPtr' \in 0..PathLength
  BY <1>2, <1>3, <1>4
<1>6. CASE pathPtr' = PathLength
  <2>1. s = RestOfPath /\ pathPtr + Len(s) = PathLength
    <3>1. CASE SubSeq(path, pathPtr + 1, pathPtr + Len(s)) = s /\ pathPtr' = pathPtr + Len(s)
      BY <1>6, <3>1 DEF RestOfPath
    <3>2. CASE SubSeq(path, pathPtr + 1, pathPtr + Len(s)) # s /\ pathPtr' = pathPtr
      <4>1. Len(s) = 0
        BY <1>2, <1>3, <1>6, <3>2
      <4>2. s = <<>>
        BY <4>1, EmptySeq DEF Strings
      <4>3. SubSeq(path, pathPtr + 1, pathPtr + Len(s)) = <<>>
        BY <1>2, <4>1, SubSeqEmpty
      <4>. QED BY <3>2, <4>2, <4>3
    <3>. QED BY <1>4, <3>1, <3>2
  <2>2. path \in DOMAIN trie /\ trie[path] = nodeKey[s]
    <3>1. SubSeq(path, 1, pathPtr) \o s = path
      BY <1>1, <2>1, PathFacts
    <3>. QED BY <1>1, <2>1, <3>1 DEF BelowThePath
  <2>3. nodeKey' = nodeKey /\ result' = IF nodeKey[s] = value THEN "true" ELSE "false"
    BY <1>4, <1>6
  <2>4. ProofTypeOK'
    BY <1>1, <1>4, <1>5, <2>3 DEF ProofTypeOK
  <2>5. AcceptedIsInTrie' /\ EntryIsAccepted' /\ result' # "loop"
    BY <1>4, <2>2, <2>3 DEF AcceptedIsInTrie, EntryIsAccepted
  <2>. QED BY <2>4, <2>5 DEF ProofInv
<1>7. CASE pathPtr' # PathLength
  <2>1. ~(genuine /\ path \in DOMAIN trie)
    <3>1. SUFFICES ASSUME genuine, path \in DOMAIN trie PROVE FALSE
      OBVIOUS
    <3>2. RestOfPath = s /\ Len(s) = PathLength - pathPtr
      BY <1>1, <3>1, PathFacts DEF OnThePath
    <3>3. pathPtr + Len(s) = PathLength
      BY <1>2, <3>2
    <3>4. SubSeq(path, pathPtr + 1, pathPtr + Len(s)) = s
      BY <3>2, <3>3 DEF RestOfPath
    <3>. QED BY <1>4, <1>7, <3>3, <3>4
  <2>2. CASE result' = result /\ nodeKey' = <<>>
    <3>1. result' = "loop" /\ DOMAIN nodeKey' = {}
      BY <1>1, <2>2
    <3>2. ProofTypeOK'
      <4>1. IsFiniteSet({})
        BY FS_EmptySet
      <4>. QED BY <1>1, <1>4, <1>5, <3>1, <4>1 DEF ProofTypeOK
    <3>3. NoneTooLong' /\ BelowThePath'
      BY <3>1 DEF NoneTooLong, BelowThePath
    <3>4. OnThePath'
      BY <1>4, <2>1 DEF OnThePath
    <3>. QED BY <3>1, <3>2, <3>3, <3>4 DEF ProofInv, AcceptedIsInTrie, EntryIsAccepted
  <2>3. CASE result' = "revert" /\ nodeKey' = nodeKey
    <3>1. ProofTypeOK'
      BY <1>1, <1>4, <1>5, <2>3 DEF ProofTypeOK
    <3>2. AcceptedIsInTrie' /\ EntryIsAccepted' /\ result' # "loop"
      BY <1>4, <2>1, <2>3 DEF AcceptedIsInTrie, EntryIsAccepted
    <3>. QED BY <3>1, <3>2 DEF ProofInv
  <2>. QED BY <1>4, <1>7, <2>2, <2>3
<1>. QED BY <1>6, <1>7

\* At an extension: if it does not match, no path below it can be traversed to its
\* end any more.
LEMMA ExtensionInv ==
  ASSUME ProofInv, PairNode, NEW p \in Strings, p # <<>>,
         \A t \in DOMAIN nodeKey : IsPrefix(p, t), \A s : DOMAIN nodeKey # {s},
         Node = TwoItems(Encoded(0, p), EntriesBelow(nodeKey, p))
  PROVE  ProofInv'
<1>1. /\ ProofTypeOK /\ NoneTooLong /\ BelowThePath /\ OnThePath /\ result = "loop"
      /\ DOMAIN nodeKey # {} /\ DOMAIN nodeKey \in SUBSET Strings
  BY DEF ProofInv, PairNode, ProofTypeOK
<1>2. pathPtr \in Nat /\ PathLength \in Nat /\ Len(p) \in Nat /\ Len(p) # 0
  BY <1>1, PathFacts, EmptySeq DEF Strings
<1>3. \A t \in DOMAIN nodeKey : Len(p) <= Len(t) /\ Len(t) \in Nat /\ pathPtr + Len(t) <= PathLength
  BY <1>1, PrefixFacts DEF NoneTooLong, Strings
<1>4. pathPtr + Len(p) <= PathLength
  BY <1>1, <1>2, <1>3
<1>5. /\ UNCHANGED <<trie, path, value, genuine>>
      /\ \/ SubSeq(path, pathPtr + 1, pathPtr + Len(p)) = p /\ pathPtr' = pathPtr + Len(p)
         \/ SubSeq(path, pathPtr + 1, pathPtr + Len(p)) # p /\ pathPtr' = pathPtr
      /\ \/ pathPtr' = PathLength
         \/ pathPtr' # PathLength /\ result' = result /\ nodeKey' = EntriesBelow(nodeKey, p)
  BY <1>1, <1>4, PairNodeCases
<1>6. pathPtr' # PathLength
  <2>1. SUFFICES ASSUME pathPtr' = PathLength PROVE FALSE
    OBVIOUS
  <2>2. pathPtr + Len(p) = PathLength
    BY <1>2, <1>4, <1>5, <2>1
  <2>3. ASSUME NEW t \in DOMAIN nodeKey PROVE t = p
    <3>1. Len(t) = Len(p) /\ t \in Strings /\ IsPrefix(p, t)
      BY <1>1, <1>2, <1>3, <2>2
    <3>2. SubSeq(t, 1, Len(p)) = p /\ SubSeq(t, 1, Len(t)) = t
      BY <3>1, PrefixFacts, SubSeqFull DEF Strings
    <3>. QED BY <3>1, <3>2
  <2>4. DOMAIN nodeKey = {p}
    BY <1>1, <2>3
  <2>. QED BY <2>4
<1>7. CASE SubSeq(path, pathPtr + 1, pathPtr + Len(p)) = p /\ pathPtr' = pathPtr + Len(p)
  <2>1. /\ UNCHANGED <<trie, path, value, genuine, result>> /\ nodeKey' = EntriesBelow(nodeKey, p)
        /\ pathPtr' <= PathLength /\ SubSeq(path, pathPtr + 1, pathPtr') = p
    BY <1>4, <1>5, <1>6, <1>7
  <2>. QED BY <1>1, <1>7, <2>1, MatchInv
<1>8. CASE SubSeq(path, pathPtr + 1, pathPtr + Len(p)) # p /\ pathPtr' = pathPtr
  <2>1. /\ DOMAIN nodeKey' \in SUBSET Strings /\ IsFiniteSet(DOMAIN nodeKey')
        /\ \A s \in DOMAIN nodeKey' : p \o s \in DOMAIN nodeKey /\ Len(p \o s) = Len(p) + Len(s)
    <3>1. nodeKey' = EntriesBelow(nodeKey, p) /\ IsFiniteSet(DOMAIN nodeKey)
      BY <1>1, <1>5, <1>6 DEF ProofTypeOK
    <3>2. /\ DOMAIN EntriesBelow(nodeKey, p) \in SUBSET Strings
          /\ IsFiniteSet(DOMAIN EntriesBelow(nodeKey, p))
          /\ \A s \in DOMAIN EntriesBelow(nodeKey, p) :
               p \o s \in DOMAIN nodeKey /\ Len(p \o s) = Len(p) + Len(s)
      BY <1>1, <3>1, EntriesBelowFacts
    <3>. QED BY <3>1, <3>2
  <2>2. \A s \in DOMAIN nodeKey' : Len(s) \in Nat
    BY <2>1 DEF Strings
  <2>3. ProofTypeOK'
    BY <1>1, <1>5, <1>8, <2>1 DEF ProofTypeOK
  <2>4. \A s \in DOMAIN nodeKey' : pathPtr' + Len(s) < PathLength
    <3>1. TAKE s \in DOMAIN nodeKey'
    <3>2. pathPtr + Len(p \o s) <= PathLength /\ Len(p \o s) = Len(p) + Len(s) /\ Len(s) \in Nat
      BY <1>3, <2>1, <2>2
    <3>. QED BY <1>2, <1>8, <3>2
  <2>5. ASSUME NEW s \in DOMAIN nodeKey', NEW t \in DOMAIN nodeKey'
        PROVE  Len(s) = Len(t)
    <3>1. Len(p \o s) = Len(p \o t)
      BY <1>1, <2>1 DEF NoneTooLong
    <3>. QED BY <1>2, <2>1, <2>2, <3>1
  <2>6. NoneTooLong'
    BY <1>2, <1>8, <2>2, <2>4, <2>5 DEF NoneTooLong
  <2>7. BelowThePath'
    BY <1>2, <1>8, <2>2, <2>4 DEF BelowThePath
  <2>8. ~(genuine /\ path \in DOMAIN trie)
    <3>1. SUFFICES ASSUME genuine, path \in DOMAIN trie PROVE FALSE
      OBVIOUS
    <3>2. RestOfPath \in DOMAIN nodeKey /\ RestOfPath \in Strings
      BY <1>1, <3>1 DEF OnThePath
    <3>3. SubSeq(RestOfPath, 1, Len(p)) = p
      BY <3>2, PrefixFacts
    <3>. QED BY <1>1, <1>4, <1>8, <3>3, RestBegins
  <2>9. OnThePath' /\ result' = "loop"
    BY <1>1, <1>5, <1>6, <2>8 DEF OnThePath
  <2>. QED BY <2>3, <2>6, <2>7, <2>9 DEF ProofInv, AcceptedIsInTrie, EntryIsAccepted
<1>. QED BY <1>5, <1>7, <1>8

LEMMA ProofStepInv == ProofInv /\ [ProofNext]_proofVars => ProofInv'
<1>. SUFFICES ASSUME ProofInv, [ProofNext]_proofVars PROVE ProofInv'
  OBVIOUS
<1>1. CASE WrongNode \/ NoSuchNode
  BY <1>1, NoNodeInv
<1>2. CASE BranchNode
  BY <1>2, BranchNodeInv
<1>3. CASE PairNode
  <2>1. ProofTypeOK /\ NoneTooLong /\ DOMAIN nodeKey # {} /\ Node.items = 2
    BY <1>3 DEF ProofInv, PairNode
  <2>2. \A children : Branch(children).items # 2
    BY DEF Branch
  <2>3. CASE \E s \in Strings : DOMAIN nodeKey = {s} /\ Node = TwoItems(Encoded(2, s), nodeKey[s])
    BY <1>3, <2>3, LeafInv
  <2>4. CASE \E p \in Strings \ {<<>>} :
               /\ \A t \in DOMAIN nodeKey : IsPrefix(p, t)
               /\ \A s : DOMAIN nodeKey # {s}
               /\ Node = TwoItems(Encoded(0, p), EntriesBelow(nodeKey, p))
    BY <1>3, <2>4, ExtensionInv
  <2>. QED BY <2>1, <2>2, <2>3, <2>4, CurrentNode
<1>4. CASE UNCHANGED proofVars
  BY <1>4 DEF ProofInv, ProofTypeOK, NoneTooLong, BelowThePath, OnThePath, RestOfPath,
              AcceptedIsInTrie, EntryIsAccepted, proofVars
<1>. QED BY <1>1, <1>2, <1>3, <1>4 DEF ProofNext

LEMMA ProofInvariant == ProofSpec => []ProofInv
BY ProofInitInv, ProofStepInv, PTL DEF ProofSpec

\* verify accepts no value that the trie under the root does not hold at the path,
\* whatever nodes a caller hands in, although a node that does not match does not
\* end the loop, and a leaf and an extension are not told apart.
THEOREM AcceptedIsInTrieCorrect == ProofSpec => []AcceptedIsInTrie
BY ProofInvariant, PTL DEF ProofInv

\* verify accepts every entry of the trie with the nodes that eth_getProof answers,
\* whatever leaves, extensions and branches are on its way.
THEOREM EntryIsAcceptedCorrect == ProofSpec => []EntryIsAccepted
BY ProofInvariant, PTL DEF ProofInv

-----------------------------------------------------------------------------
(***************************************************************************)
(* The positions and the nodes of the tries in OptimizedProof.             *)
(***************************************************************************)
LEMMA Induction ==
  ASSUME NEW T \in SUBSET Nat, 0 \in T, \A n \in T : n + 1 \in T, NEW m \in Nat
  PROVE  m \in T
<1>. DEFINE U == {x \in 0..m : \A y \in 0..m : y + x = m => y \notin T}
<1>1. SUFFICES ASSUME m \notin T PROVE FALSE
  OBVIOUS
<1>2. 0 \in U
  BY <1>1
<1>3. U \in SUBSET Nat /\ U # {} /\ \A x \in U : x <= m
  BY <1>2
<1>4. PICK x \in U : \A y \in U : y <= x
  <2>. HIDE DEF U
  <2>. QED BY <1>3, Greatest
<1>5. m - x \in 0..m /\ m - x \notin T /\ x \in 0..m
  OBVIOUS
<1>6. m - x # 0
  BY <1>5
<1>7. m - x - 1 \in 0..m /\ m - x - 1 \notin T
  <2>1. m - x - 1 \in 0..m /\ (m - x - 1) + 1 = m - x
    BY <1>5, <1>6
  <2>. QED BY <1>5, <2>1
<1>8. x + 1 \in 0..m /\ \A y \in 0..m : y + (x + 1) = m => y = m - x - 1
  BY <1>5, <1>6
<1>9. x + 1 \in U
  BY <1>7, <1>8
<1>. QED BY <1>4, <1>5, <1>9

LEMMA PrefixByItems ==
  ASSUME NEW p \in Strings, NEW t \in Strings
  PROVE  IsPrefix(p, t) <=> Len(p) <= Len(t) /\ \A i \in 1..Len(p) : p[i] = t[i]
<1>1. Len(p) \in Nat /\ Len(t) \in Nat
  BY DEF Strings
<1>2. SubSeq(p, 1, Len(p)) = p
  BY SubSeqFull DEF Strings
<1>3. ASSUME Len(p) <= Len(t)
      PROVE  SubSeq(t, 1, Len(p)) = p <=> \A i \in 1..Len(p) : p[i] = t[i]
  <2>1. \A i \in 1..Len(p) : t[i] \in Nat
    BY <1>1, <1>3 DEF Strings
  <2>2. /\ SubSeq(t, 1, Len(p)) \in Seq(Nat) /\ Len(SubSeq(t, 1, Len(p))) = Len(p)
        /\ \A i \in 1..Len(p) : SubSeq(t, 1, Len(p))[i] = t[i]
    <3>1. \A i \in 1..Len(p) : 1 + i - 1 = i
      BY <1>1
    <3>. QED BY <1>1, <1>3, <2>1, <3>1, SubSeqProperties DEF Strings
  <2>3. (\A i \in 1..Len(p) : SubSeq(t, 1, Len(p))[i] = p[i]) => SubSeq(t, 1, Len(p)) = p
    BY <2>2, SeqEqual DEF Strings
  <2>. QED BY <2>2, <2>3
<1>. QED BY <1>2, <1>3 DEF IsPrefix

LEMMA PrefixOfPrefix ==
  ASSUME NEW p \in Strings, NEW q \in Strings, NEW t \in Strings, IsPrefix(p, q), IsPrefix(q, t)
  PROVE  IsPrefix(p, t)
<1>1. Len(p) \in Nat /\ Len(q) \in Nat /\ Len(t) \in Nat
  BY DEF Strings
<1>2. Len(p) <= Len(q) /\ \A i \in 1..Len(p) : p[i] = q[i]
  BY PrefixByItems
<1>3. Len(q) <= Len(t) /\ \A i \in 1..Len(q) : q[i] = t[i]
  BY PrefixByItems
<1>4. Len(p) <= Len(t) /\ \A i \in 1..Len(p) : p[i] = t[i]
  BY <1>1, <1>2, <1>3
<1>. QED BY <1>4, PrefixByItems

LEMMA SlotFacts ==
  /\ \A s \in Slots : s \in Strings
  /\ \E l \in Nat : l >= 2 /\ \A s \in Slots : Len(s) = l
<1>1. \A s \in Slots : s \in Strings /\ Len(s) \in Nat /\ Len(s) >= 2
  BY SlotsAssumption DEF Strings
<1>2. \A s, t \in Slots : Len(s) = Len(t)
  BY SlotsAssumption
<1>. QED BY <1>1, <1>2

\* Two slots differ before their last item, and the item where they part is that
\* of a child.
LEMMA SlotsPart ==
  ASSUME NEW j \in Slots, NEW k \in Slots, j # k, NEW b \in Strings, IsPrefix(b, j), IsPrefix(b, k)
  PROVE  /\ Len(b) + 1 < Len(k)
         /\ k[Len(b) + 1] \in Children
         /\ Append(b, k[Len(b) + 1]) \in Strings
         /\ Len(Append(b, k[Len(b) + 1])) = Len(b) + 1
         /\ IsPrefix(Append(b, k[Len(b) + 1]), k)
<1>1. /\ j \in Strings /\ k \in Strings /\ Len(j) = Len(k) /\ Len(k) \in Nat /\ Len(k) >= 2
      /\ Front(j) # Front(k) /\ Front(k) \in Seq(Children)
  BY SlotsAssumption DEF Strings
<1>2. /\ Len(b) \in Nat /\ Len(b) <= Len(k)
      /\ \A i \in 1..Len(b) : b[i] = j[i] /\ b[i] = k[i]
  BY <1>1, PrefixByItems DEF Strings
<1>3. ASSUME NEW s \in {j, k}
      PROVE  /\ Front(s) \in Seq(Nat) /\ Len(Front(s)) = Len(k) - 1
             /\ \A i \in 1..Len(k) - 1 : Front(s)[i] = s[i]
  <2>1. s \in Strings /\ Len(s) = Len(k) /\ s \in Seq(Nat)
    BY <1>1 DEF Strings
  <2>2. \A i \in 1..Len(k) - 1 : s[i] \in Nat /\ 1 + i - 1 = i
    BY <1>1, <2>1
  <2>. QED BY <1>1, <2>1, <2>2, SubSeqProperties DEF Front
<1>4. Len(b) < Len(k) - 1
  <2>1. SUFFICES ASSUME Len(k) - 1 <= Len(b) PROVE FALSE
    BY <1>1, <1>2
  <2>2. \A i \in 1..Len(k) - 1 : Front(j)[i] = Front(k)[i]
    <3>1. TAKE i \in 1..Len(k) - 1
    <3>2. i \in 1..Len(b)
      BY <1>1, <1>2, <2>1
    <3>3. j[i] = k[i]
      BY <1>2, <3>2
    <3>4. Front(j)[i] = j[i] /\ Front(k)[i] = k[i]
      BY <1>3
    <3>. QED BY <3>3, <3>4
  <2>. QED BY <1>1, <1>3, <2>2, SeqEqual
<1>. DEFINE n == k[Len(b) + 1]
<1>5. n \in Children /\ n \in Nat
  <2>1. Len(b) + 1 \in 1..Len(k) - 1
    BY <1>1, <1>2, <1>4
  <2>2. n = Front(k)[Len(b) + 1]
    BY <1>3, <2>1
  <2>3. Front(k)[Len(b) + 1] \in Children
    BY <1>1, <1>3, <2>1
  <2>4. k[Len(b) + 1] \in Nat
    BY <1>1, <1>2, <1>4 DEF Strings
  <2>. QED BY <2>2, <2>3, <2>4
<1>6. /\ Append(b, n) \in Strings /\ Len(Append(b, n)) = Len(b) + 1
      /\ \A i \in 1..Len(b) : Append(b, n)[i] = b[i]
      /\ Append(b, n)[Len(b) + 1] = n
  <2>. HIDE DEF n
  <2>. QED BY <1>2, <1>5, AppendProperties DEF Strings
<1>7. IsPrefix(Append(b, n), k)
  <2>1. ASSUME NEW i \in 1..Len(b) + 1 PROVE Append(b, n)[i] = k[i]
    <3>1. CASE i = Len(b) + 1
      BY <1>6, <3>1
    <3>2. CASE i # Len(b) + 1
      <4>1. i \in 1..Len(b)
        BY <1>2, <3>2
      <4>. QED BY <1>2, <1>6, <4>1
    <3>. QED BY <3>1, <3>2
  <2>2. Len(b) + 1 <= Len(k)
    BY <1>1, <1>2, <1>4
  <2>. HIDE DEF n
  <2>. QED BY <1>1, <1>6, <2>1, <2>2, PrefixByItems
<1>. QED BY <1>1, <1>2, <1>4, <1>5, <1>6, <1>7


LEMMA EntriesFacts ==
  ASSUME NEW storage, NEW p \in Strings
  PROVE  /\ DOMAIN Entries(storage) = Held(storage) /\ Held(storage) \subseteq Slots
         /\ Held(storage) \in SUBSET Strings
         /\ \A s \in Held(storage) : Entries(storage)[s] = storage[s]
         /\ DOMAIN EntriesBelow(Entries(storage), p) \in SUBSET Strings
         /\ \A s \in DOMAIN EntriesBelow(Entries(storage), p) :
              p \o s \in Held(storage) /\ EntriesBelow(Entries(storage), p)[s] = storage[p \o s]
         /\ \A t \in Held(storage) :
              IsPrefix(p, t) => SubSeq(t, Len(p) + 1, Len(t)) \in DOMAIN EntriesBelow(Entries(storage), p)
<1>1. /\ DOMAIN Entries(storage) = Held(storage) /\ Held(storage) \in SUBSET Strings
      /\ \A s \in Held(storage) : Entries(storage)[s] = storage[s]
  BY SlotFacts DEF Entries, Held
<1>2. \A e : DOMAIN e \in SUBSET Strings =>
        /\ DOMAIN EntriesBelow(e, p) \in SUBSET Strings
        /\ \A s \in DOMAIN EntriesBelow(e, p) : p \o s \in DOMAIN e /\ EntriesBelow(e, p)[s] = e[p \o s]
        /\ \A t \in DOMAIN e : IsPrefix(p, t) => SubSeq(t, Len(p) + 1, Len(t)) \in DOMAIN EntriesBelow(e, p)
  BY EntriesBelowFacts
<1>3. Held(storage) \subseteq Slots
  BY DEF Held
<1>. QED BY <1>1, <1>2, <1>3

\* What is at a position, with what f says of the positions below it.
NodeFrom(storage, f, p) ==
  LET below == EntriesBelow(Entries(storage), p)
  IN  IF DOMAIN below = {} THEN NoNode
      ELSE NodeWith(below, Children, LAMBDA rest : f[p \o rest])

LEMMA ConcatFacts ==
  ASSUME NEW p \in Strings, NEW t \in Strings
  PROVE  \E u \in Strings : u = p \o t /\ Len(u) = Len(p) + Len(t) /\ Len(t) \in Nat /\ Len(p) \in Nat
<1>1. /\ p \o t \in Strings /\ Len(p \o t) = Len(p) + Len(t)
      /\ Len(t) \in Nat /\ Len(p) \in Nat
  BY ConcatProperties DEF Strings
<1>. QED BY <1>1, Zenon

\* It depends on longer positions only.
LEMMA NodeFromLonger ==
  ASSUME NEW storage, NEW f, NEW g, NEW p \in Strings,
         \A q \in Strings : Len(q) > Len(p) => f[q] = g[q]
  PROVE  NodeFrom(storage, f, p) = NodeFrom(storage, g, p)
<1>. DEFINE below == EntriesBelow(Entries(storage), p)
            prefix == LongestCommonPrefix(DOMAIN below)
<1>0. Len(p) \in Nat
  BY DEF Strings
<1>1. CASE DOMAIN below = {}
  BY <1>1 DEF NodeFrom
<1>2. CASE DOMAIN below # {}
  <2>1. DOMAIN below \in SUBSET Strings /\ \E n \in Nat : \A s \in DOMAIN below : Len(s) <= n
    <3>1. PICK l \in Nat : \A s \in Slots : Len(s) = l
      BY SlotFacts
    <3>2. ASSUME NEW s \in DOMAIN below PROVE s \in Strings /\ Len(s) <= l
      <4>1. s \in Strings /\ p \o s \in Slots
        BY EntriesFacts
      <4>2. PICK u \in Strings : u = p \o s /\ Len(u) = Len(p) + Len(s) /\ Len(s) \in Nat
        BY <4>1, ConcatFacts
      <4>3. Len(u) = l
        BY <3>1, <4>1, <4>2
      <4>. QED BY <1>0, <4>1, <4>2, <4>3
    <3>. QED BY <3>2
  <2>2. prefix \in Strings
    <3>. HIDE DEF below
    <3>. QED BY <1>2, <2>1, CommonPrefix
  <2>3. \A t \in Strings : t # <<>> => f[p \o t] = g[p \o t]
    <3>1. TAKE t \in Strings
    <3>2. HAVE t # <<>>
    <3>3. PICK u \in Strings : u = p \o t /\ Len(u) = Len(p) + Len(t) /\ Len(t) \in Nat
      BY ConcatFacts
    <3>4. Len(u) > Len(p)
      BY <1>0, <3>2, <3>3, EmptySeq DEF Strings
    <3>5. f[u] = g[u]
      BY <3>4
    <3>. QED BY <3>3, <3>5
  <2>4. \A n \in Children : f[p \o <<n>>] = g[p \o <<n>>]
    <3>1. \A n \in Children : <<n>> \in Strings /\ <<n>> # <<>>
      BY SlotsAssumption DEF Children, Strings
    <3>. QED BY <2>3, <3>1
  <2>5. prefix # <<>> => f[p \o prefix] = g[p \o prefix]
    BY <2>2, <2>3
  <2>6. Branch([n \in Children |-> f[p \o <<n>>]]) = Branch([n \in Children |-> g[p \o <<n>>]])
    BY <2>4
  <2>. HIDE DEF below
  <2>7. NodeWith(below, Children, LAMBDA rest : f[p \o rest]) = NodeWith(below, Children, LAMBDA rest : g[p \o rest])
    BY <2>5, <2>6 DEF NodeWith
  <2>. QED BY <1>2, <2>7 DEF NodeFrom, below
<1>. QED BY <1>1, <1>2

\* A position longer than every path is empty.
LEMMA NodeFromLong ==
  ASSUME NEW storage, NEW f, NEW p \in Strings, \A s \in Slots : Len(s) < Len(p)
  PROVE  NodeFrom(storage, f, p) = NoNode
<1>1. ASSUME NEW s \in DOMAIN EntriesBelow(Entries(storage), p) PROVE FALSE
  <2>1. s \in Strings /\ p \o s \in Slots
    BY EntriesFacts
  <2>2. PICK u \in Strings : u = p \o s /\ Len(u) = Len(p) + Len(s) /\ Len(s) \in Nat /\ Len(p) \in Nat
    BY <2>1, ConcatFacts
  <2>3. Len(u) < Len(p)
    BY <2>1, <2>2
  <2>. QED BY <2>2, <2>3
<1>. QED BY <1>1 DEF NodeFrom

\* The recursive definition of NodeAt defines what it says.
LEMMA NodeAtFixpoint ==
  ASSUME NEW storage
  PROVE  \A p \in Strings : NodeAt(storage)[p] = NodeFrom(storage, NodeAt(storage), p)
<1>1. PICK l \in Nat : \A s \in Slots : Len(s) = l
  BY SlotFacts
<1>. DEFINE Defines(f, m) == \A p \in Strings : Len(p) + m > l => f[p] = NodeFrom(storage, f, p)
            T == {m \in Nat : \E f : Defines(f, m)}
<1>2. \A p \in Strings : Len(p) \in Nat
  BY DEF Strings
<1>3. 0 \in T
  <2>. DEFINE f == [p \in Strings |-> NoNode]
  <2>1. ASSUME NEW p \in Strings, Len(p) + 0 > l PROVE f[p] = NodeFrom(storage, f, p)
    <3>1. \A s \in Slots : Len(s) < Len(p)
      BY <1>1, <1>2, <2>1
    <3>2. f[p] = NoNode
      OBVIOUS
    <3>. HIDE DEF f
    <3>. QED BY <3>1, <3>2, NodeFromLong
  <2>. HIDE DEF f
  <2>. QED BY <2>1
<1>4. ASSUME NEW m \in T PROVE m + 1 \in T
  <2>1. PICK f : Defines(f, m)
    OBVIOUS
  <2>. DEFINE g == [p \in Strings |-> IF Len(p) + m > l THEN f[p] ELSE NodeFrom(storage, f, p)]
  <2>2. m \in Nat
    OBVIOUS
  <2>3. ASSUME NEW p \in Strings, Len(p) + (m + 1) > l PROVE g[p] = NodeFrom(storage, g, p)
    <3>1. \A q \in Strings : Len(q) > Len(p) => g[q] = f[q]
      BY <1>2, <2>2, <2>3
    <3>2. g[p] = NodeFrom(storage, f, p)
      <4>1. Len(p) + m > l => f[p] = NodeFrom(storage, f, p)
        BY <2>1
      <4>. QED BY <4>1
    <3>. HIDE DEF g
    <3>3. NodeFrom(storage, g, p) = NodeFrom(storage, f, p)
      BY <3>1, NodeFromLonger
    <3>. QED BY <3>2, <3>3
  <2>4. Defines(g, m + 1)
    <3>. HIDE DEF g
    <3>. QED BY <2>3
  <2>. HIDE DEF g, Defines
  <2>. QED BY <2>2, <2>4
<1>5. l + 1 \in T
  <2>1. T \in SUBSET Nat
    OBVIOUS
  <2>. HIDE DEF T
  <2>. QED BY <1>3, <1>4, <2>1, Induction
<1>6. PICK f : Defines(f, l + 1)
  BY <1>5
<1>7. \A p \in Strings : f[p] = NodeFrom(storage, f, p)
  BY <1>2, <1>6
<1>. DEFINE Solves(node) == node = [p \in Strings |-> NodeFrom(storage, node, p)]
            g == [p \in Strings |-> f[p]]
<1>8. \E node : Solves(node)
  <2>1. \A q \in Strings : g[q] = f[q]
    OBVIOUS
  <2>2. \A p \in Strings : NodeFrom(storage, g, p) = NodeFrom(storage, f, p)
    <3>. HIDE DEF g
    <3>. QED BY <2>1, NodeFromLonger
  <2>3. g = [p \in Strings |-> NodeFrom(storage, g, p)]
    BY <1>7, <2>2
  <2>. HIDE DEF g
  <2>. QED BY <2>3
<1>9. NodeAt(storage) = CHOOSE node : Solves(node)
  BY DEF NodeAt, NodeFrom, Strings
<1>10. Solves(NodeAt(storage))
  <2>. HIDE DEF Solves
  <2>. QED BY <1>8, <1>9
<1>. QED BY <1>10


\* The leaf of a slot that is alone below a position.
LEMMA NodeOfOne ==
  ASSUME NEW storage, NEW k \in Held(storage), NEW p \in Strings, IsPrefix(p, k),
         \A j \in Held(storage) : IsPrefix(p, j) => j = k
  PROVE  NodeAt(storage)[p] = TwoItems(Encoded(2, SubSeq(k, Len(p) + 1, Len(k))), storage[k])
<1>. DEFINE below == EntriesBelow(Entries(storage), p)
            s == SubSeq(k, Len(p) + 1, Len(k))
<1>1. /\ DOMAIN below \in SUBSET Strings /\ s \in DOMAIN below
      /\ \A t \in DOMAIN below : p \o t \in Held(storage) /\ below[t] = storage[p \o t]
  BY EntriesFacts
<1>2. k \in Strings /\ p \o s = k
  BY EntriesFacts, PrefixFacts
<1>. HIDE DEF s
<1>3. ASSUME NEW t \in DOMAIN below PROVE t = s
  <2>1. t \in Strings /\ s \in Strings /\ p \o t \in Held(storage)
    BY <1>1
  <2>2. IsPrefix(p, p \o t)
    <3>1. /\ Len(p \o t) = Len(p) + Len(t) /\ p \o t \in Seq(Nat) /\ Len(p) \in Nat /\ Len(t) \in Nat
          /\ \A i \in 1..Len(p) : (p \o t)[i] = p[i]
      BY <2>1, ConcatProperties DEF Strings
    <3>2. Len(p) <= Len(p \o t)
      BY <3>1
    <3>. QED BY <3>1, <3>2, PrefixByItems DEF Strings
  <2>3. p \o t = k
    BY <2>1, <2>2
  <2>. QED BY <1>2, <2>1, <2>3, ConcatSimplifications DEF Strings
<1>4. DOMAIN below = {s} /\ s \in Strings /\ below[s] = storage[k]
  BY <1>1, <1>2, <1>3
<1>5. Cardinality(DOMAIN below) = 1 /\ LongestCommonPrefix(DOMAIN below) = s
  BY <1>4, FS_Singleton, PrefixOfOne
<1>6. NodeAt(storage)[p] = NodeFrom(storage, NodeAt(storage), p)
  BY NodeAtFixpoint
<1>7. NodeFrom(storage, NodeAt(storage), p) = TwoItems(Encoded(2, s), below[s])
  <2>1. DOMAIN below # {}
    BY <1>4
  <2>2. NodeFrom(storage, NodeAt(storage), p)
        = NodeWith(below, Children, LAMBDA rest : NodeAt(storage)[p \o rest])
    BY <2>1 DEF NodeFrom
  <2>. HIDE DEF below
  <2>3. NodeWith(below, Children, LAMBDA rest : NodeAt(storage)[p \o rest]) = TwoItems(Encoded(2, s), below[s])
    BY <1>5 DEF NodeWith
  <2>. QED BY <2>2, <2>3
<1>. QED BY <1>4, <1>6, <1>7 DEF s

LEMMA EmptyPrefix == <<>> \in Strings /\ \A t \in Strings : IsPrefix(<<>>, t)
<1>1. <<>> \in Strings /\ Len(<<>>) = 0
  BY DEF Strings
<1>2. \A t \in Strings : Len(t) \in Nat
  BY DEF Strings
<1>. QED BY <1>1, <1>2, PrefixByItems

LEMMA HeldFacts ==
  \A storage : \A s \in Held(storage) : s \in Slots /\ s \in Strings
BY SlotFacts DEF Held

LEMMA BranchMembers ==
  ASSUME NEW held, NEW b
  PROVE  b \in BranchesOf(held) <=> b \notin held /\ \E s, t \in held : b = LongestCommonPrefix({s, t})
<1>. DEFINE common(s, t) == LongestCommonPrefix({s, t})
<1>1. BranchesOf(held) = {common(s, t) : s, t \in held} \ held
  BY DEF BranchesOf
<1>. HIDE DEF common
<1>2. b \in {common(s, t) : s, t \in held} <=> \E s, t \in held : b = common(s, t)
  OBVIOUS
<1>3. b \in BranchesOf(held) <=> b \notin held /\ \E s, t \in held : b = common(s, t)
  BY <1>1, <1>2
<1>. QED BY <1>3 DEF common

LEMMA PositionMembers ==
  ASSUME NEW storage, Held(storage) # {}, NEW p
  PROVE  p \in PositionsOf(storage)
         <=> \/ p = <<>> \/ p \in BranchesOf(Held(storage))
             \/ /\ \E b \in BranchesOf(Held(storage)), n \in Children : p = Append(b, n)
                /\ \E s \in Held(storage) : IsPrefix(p, s)
<1>. DEFINE branches == BranchesOf(Held(storage))
            children == {Append(b, n) : b \in branches, n \in Children}
<1>1. PositionsOf(storage)
      = {<<>>} \cup branches \cup {q \in children : \E s \in Held(storage) : IsPrefix(q, s)}
  BY DEF PositionsOf
<1>2. p \in children <=> \E b \in branches, n \in Children : p = Append(b, n)
  <2>. HIDE DEF branches
  <2>. QED BY SMT
<1>. HIDE DEF children, branches
<1>3. p \in PositionsOf(storage)
      <=> \/ p = <<>> \/ p \in branches
          \/ p \in children /\ \E s \in Held(storage) : IsPrefix(p, s)
  BY <1>1
<1>. QED BY <1>2, <1>3 DEF branches

LEMMA PositionFacts ==
  ASSUME NEW storage
  PROVE  /\ PositionsOf(storage) \subseteq Strings
         /\ Held(storage) # {} => <<>> \in PositionsOf(storage)
<1>1. ASSUME NEW b \in BranchesOf(Held(storage)) PROVE b \in Strings
  <2>1. PICK j, k \in Held(storage) : b = LongestCommonPrefix({j, k})
    BY BranchMembers
  <2>2. j \in Strings /\ k \in Strings
    BY HeldFacts
  <2>3. PICK l \in Nat : Len(j) <= l /\ Len(k) <= l
    <3>1. Len(j) \in Nat /\ Len(k) \in Nat
      BY <2>2 DEF Strings
    <3>. QED BY <3>1
  <2>4. LongestCommonPrefix({j, k}) \in Strings
    BY <2>2, <2>3, CommonPrefix
  <2>. QED BY <2>1, <2>4
<1>2. \A b \in Strings, n \in Children : Append(b, n) \in Strings
  BY AppendProperties, SlotsAssumption DEF Children, Strings
<1>3. CASE Held(storage) = {}
  BY <1>3 DEF PositionsOf
<1>4. CASE Held(storage) # {}
  <2>1. ASSUME NEW p \in PositionsOf(storage) PROVE p \in Strings
    <3>1. \/ p = <<>> \/ p \in BranchesOf(Held(storage))
          \/ \E b \in BranchesOf(Held(storage)), n \in Children : p = Append(b, n)
      BY <1>4, PositionMembers, Zenon
    <3>. QED BY <1>1, <1>2, <3>1, EmptyPrefix
  <2>. QED BY <1>4, <2>1, PositionMembers
<1>. QED BY <1>3, <1>4

-----------------------------------------------------------------------------
(***************************************************************************)
(* The proof of a slot that is held ends in its own leaf.                  *)
(***************************************************************************)
End(k) == Longest(ProofOf(k))

Traced == nodes = NodesOf(source)

LEMMA EndIsLongest ==
  ASSUME Traced, NEW k \in Held(source)
  PROVE  /\ k \in Strings /\ <<>> \in ProofOf(k)
         /\ End(k) \in ProofOf(k) /\ End(k) \in Strings /\ IsPrefix(End(k), k)
         /\ DOMAIN nodes = PositionsOf(source)
         /\ \A p \in ProofOf(k) : Len(p) <= Len(End(k))
<1>1. k \in Strings /\ DOMAIN nodes = PositionsOf(source)
  BY HeldFacts DEF Traced, NodesOf
<1>2. <<>> \in ProofOf(k) /\ ProofOf(k) \subseteq Strings /\ \A p \in ProofOf(k) : IsPrefix(p, k)
  BY <1>1, PositionFacts, EmptyPrefix DEF ProofOf
<1>3. \E p \in ProofOf(k) : \A q \in ProofOf(k) : Len(q) <= Len(p)
  <2>. DEFINE T == {Len(p) : p \in ProofOf(k)}
  <2>1. T \in SUBSET Nat /\ T # {} /\ Len(k) \in Nat /\ \A x \in T : x <= Len(k)
    <3>1. ASSUME NEW p \in ProofOf(k) PROVE Len(p) \in Nat /\ Len(p) <= Len(k)
      BY <1>1, <1>2, PrefixFacts DEF Strings
    <3>2. Len(k) \in Nat
      BY <1>1 DEF Strings
    <3>. QED BY <1>2, <3>1, <3>2
  <2>2. PICK x \in T : \A y \in T : y <= x
    <3>. HIDE DEF T
    <3>. QED BY <2>1, Greatest
  <2>. QED BY <2>2
<1>4. End(k) \in ProofOf(k) /\ \A q \in ProofOf(k) : Len(q) <= Len(End(k))
  BY <1>3 DEF End, Longest
<1>. QED BY <1>1, <1>2, <1>4

LEMMA EndIsOwn ==
  ASSUME Traced, NEW j \in Held(source), NEW k \in Held(source), IsPrefix(End(k), j)
  PROVE  j = k
<1>1. SUFFICES ASSUME j # k PROVE FALSE
  OBVIOUS
<1>. DEFINE e == End(k)
            b == LongestCommonPrefix({j, k})
            n == k[Len(b) + 1]
<1>2. /\ k \in Strings /\ j \in Strings /\ e \in Strings /\ IsPrefix(e, k) /\ IsPrefix(e, j)
      /\ DOMAIN nodes = PositionsOf(source)
      /\ \A p \in ProofOf(k) : Len(p) <= Len(e)
  BY EndIsLongest
<1>3. b \in Strings /\ IsPrefix(b, j) /\ IsPrefix(b, k) /\ \A p \in CommonPrefixes({j, k}) : Len(p) <= Len(b)
  <2>1. PICK l \in Nat : Len(j) <= l /\ Len(k) <= l
    <3>1. Len(j) \in Nat /\ Len(k) \in Nat
      BY <1>2 DEF Strings
    <3>. QED BY <3>1
  <2>. QED BY <1>2, <2>1, CommonPrefix
<1>4. Len(e) <= Len(b)
  <2>1. Len(e) \in 0..Len(k) /\ e = SubSeq(k, 1, Len(e))
    BY <1>2, PrefixFacts DEF Strings
  <2>2. e \in Prefixes(k)
    BY <2>1 DEF Prefixes
  <2>3. e \in CommonPrefixes({j, k})
    BY <1>2, <2>2 DEF CommonPrefixes
  <2>. QED BY <1>3, <2>3
<1>. HIDE DEF b
<1>5. j \in Slots /\ k \in Slots
  BY HeldFacts
<1>6. /\ Len(b) + 1 < Len(k) /\ n \in Children /\ Append(b, n) \in Strings
      /\ Len(Append(b, n)) = Len(b) + 1 /\ IsPrefix(Append(b, n), k)
  BY <1>1, <1>3, <1>5, SlotsPart
<1>7. b \in BranchesOf(Held(source))
  <2>1. Len(b) # Len(k) /\ \A s \in Held(source) : Len(s) = Len(k)
    <3>1. Len(b) \in Nat /\ Len(k) \in Nat
      BY <1>2, <1>3 DEF Strings
    <3>2. \A s \in Held(source) : Len(s) = Len(k)
      BY <1>5, SlotsAssumption DEF Held
    <3>. QED BY <1>6, <3>1, <3>2
  <2>2. b \notin Held(source)
    BY <2>1
  <2>3. b = LongestCommonPrefix({j, k})
    BY DEF b
  <2>. QED BY <2>2, <2>3, BranchMembers
<1>8. Append(b, n) \in ProofOf(k)
  <2>1. Append(b, n) \in PositionsOf(source)
    <3>. HIDE DEF n
    <3>. QED BY <1>6, <1>7, PositionMembers
  <2>. QED BY <1>2, <1>6, <2>1 DEF ProofOf
<1>9. Len(b) \in Nat /\ Len(e) \in Nat
  BY <1>2, <1>3 DEF Strings
<1>10. Len(b) + 1 <= Len(e)
  BY <1>2, <1>6, <1>8
<1>. QED BY <1>4, <1>9, <1>10

LEMMA EndIsLeaf ==
  ASSUME Traced, NEW k \in Held(source)
  PROVE  ~IsBranch(nodes[End(k)]) /\ nodes[End(k)].item = source[k]
<1>1. \E encodedPath : NodeAt(source)[End(k)] = TwoItems(encodedPath, source[k])
  BY EndIsLongest, EndIsOwn, NodeOfOne
<1>2. nodes[End(k)] = NodeAt(source)[End(k)]
  BY EndIsLongest DEF Traced, NodesOf, ProofOf
<1>. QED BY <1>1, <1>2 DEF TwoItems, IsBranch


-----------------------------------------------------------------------------
(***************************************************************************)
(* The tree the client builds, while all it asks for is held by the        *)
(* source.                                                                 *)
(***************************************************************************)
TreeTypeOK ==
  /\ Traced
  /\ source \in [Slots -> Contents] /\ proxy \in [Slots -> Contents \cup {Garbage}]

\* Every leaf is that of a slot of the source, in its own place.
LeavesAreGenuine ==
  \A p \in DOMAIN tree : LeafAt(p) =>
    tree[p].key \in Held(source) /\ p = End(tree[p].key) /\ tree[p].node = nodes[p]

\* The leaf of no slot that was asked for is lost again.
AskedAreThere == \A k \in asked : LeafAt(End(k))

Growing ==
  phase \in {"asking", "adding"} /\ asked \subseteq Held(source) /\ Held(proxy) \subseteq Held(source) =>
    /\ required \subseteq Held(source)
    /\ phase = "asking" /\ asked = {} => tree = <<>>
    /\ LeavesAreGenuine
    /\ AskedAreThere

TreeInv == TreeTypeOK /\ Growing

\* No leaf is on the way to another one.
LEMMA NothingHides ==
  ASSUME Traced, LeavesAreGenuine, NEW k \in Held(source), NEW p \in ProofOf(k), LeafAt(p)
  PROVE  p = End(k)
<1>1. tree[p].key \in Held(source) /\ p = End(tree[p].key) /\ IsPrefix(p, k)
  BY DEF LeavesAreGenuine, LeafAt, ProofOf
<1>2. tree[p].key = k
  BY <1>1, EndIsOwn
<1>. QED BY <1>1, <1>2

\* The leaf of a slot is put at the end of its proof.
LEMMA LeafIsAdded ==
  ASSUME Traced, LeavesAreGenuine, AskedAreThere, asked \subseteq Held(source),
         NEW k \in Held(source), NEW ps, UNCHANGED <<source, nodes>>,
         tree' = WithLeaf(WithInner(ps), End(k), Leaf(nodes[End(k)], k)),
         asked' \subseteq asked \cup {k}
  PROVE  LeavesAreGenuine' /\ AskedAreThere'
<1>. DEFINE t == WithInner(ps)
            e == End(k)
<1>1. /\ \A p \in DOMAIN t : t[p].kind = "leaf" => LeafAt(p) /\ t[p] = tree[p]
      /\ \A p : LeafAt(p) => p \in DOMAIN t /\ t[p] = tree[p]
  <2>1. \A node : Inner(node).kind # "leaf"
    BY DEF Inner
  <2>. QED BY <2>1 DEF WithInner, LeafAt
<1>2. /\ \A p \in DOMAIN tree' :
           (p = e /\ (tree')[p] = Leaf(nodes[e], k)) \/ (p \in DOMAIN t /\ (tree')[p] = t[p])
      /\ e \in DOMAIN tree' /\ (tree')[e] = Leaf(nodes[e], k)
      /\ \A p \in DOMAIN t : ~IsPrefix(e, p) => p \in DOMAIN tree' /\ ((tree')[p] = t[p] \/ p = e)
  <2>. HIDE DEF t, e
  <2>1. tree' = [q \in {r \in DOMAIN t : ~IsPrefix(e, r)} \cup {e} |-> IF q = e THEN Leaf(nodes[e], k) ELSE t[q]]
    BY DEF WithLeaf, t, e
  <2>. QED BY <2>1
<1>3. \A j : End(j)' = End(j)
  BY DEF End, ProofOf
<1>4. LeavesAreGenuine'
  <2>1. SUFFICES ASSUME NEW p \in DOMAIN tree', (tree')[p].kind = "leaf"
                 PROVE  /\ (tree')[p].key \in Held(source) /\ p = End((tree')[p].key)
                        /\ (tree')[p].node = nodes[p]
    BY <1>3 DEF LeavesAreGenuine, LeafAt, Held
  <2>2. CASE p = e /\ (tree')[p] = Leaf(nodes[e], k)
    BY <2>2 DEF Leaf
  <2>3. CASE p \in DOMAIN t /\ (tree')[p] = t[p]
    <3>1. LeafAt(p) /\ (tree')[p] = tree[p]
      BY <1>1, <2>1, <2>3
    <3>. QED BY <3>1 DEF LeavesAreGenuine, LeafAt
  <2>. QED BY <1>2, <2>2, <2>3
<1>5. AskedAreThere'
  <2>1. SUFFICES ASSUME NEW j \in asked' PROVE End(j) \in DOMAIN tree' /\ (tree')[End(j)].kind = "leaf"
    BY <1>3 DEF AskedAreThere, LeafAt
  <2>2. CASE j = k
    BY <1>2, <2>2 DEF Leaf
  <2>3. CASE j # k
    <3>1. j \in asked /\ j \in Held(source) /\ LeafAt(End(j))
      BY <2>3 DEF AskedAreThere
    <3>2. ~IsPrefix(e, End(j))
      <4>1. SUFFICES ASSUME IsPrefix(e, End(j)) PROVE FALSE
        OBVIOUS
      <4>2. IsPrefix(e, j)
        <5>1. e \in Strings /\ End(j) \in Strings /\ j \in Strings /\ IsPrefix(End(j), j)
          BY <3>1, EndIsLongest
        <5>. QED BY <4>1, <5>1, PrefixOfPrefix
      <4>. QED BY <2>3, <3>1, <4>2, EndIsOwn
    <3>3. End(j) \in DOMAIN t /\ t[End(j)].kind = "leaf"
      BY <1>1, <3>1 DEF LeafAt
    <3>4. End(j) # e
      <4>1. IsPrefix(End(j), j)
        BY <3>1, EndIsLongest
      <4>. QED BY <2>3, <3>1, <4>1, EndIsOwn
    <3>. QED BY <1>2, <3>2, <3>3, <3>4
  <2>. QED BY <2>2, <2>3
<1>. QED BY <1>4, <1>5

LEMMA TreeInitInv == TreeInit => TreeInv
<1>. SUFFICES ASSUME TreeInit PROVE TreeInv
  OBVIOUS
<1>1. Traced /\ source \in [Slots -> Contents] /\ proxy \in [Slots -> Contents \cup {Garbage}]
  BY DEF TreeInit, Traced, Contents
<1>2. asked = {} /\ required = {} /\ tree = <<>>
  BY DEF TreeInit
<1>3. DOMAIN tree = {}
  BY <1>2
<1>. QED BY <1>1, <1>2, <1>3 DEF TreeInv, TreeTypeOK, Growing, LeavesAreGenuine, AskedAreThere

LEMMA MergeProofInv ==
  ASSUME TreeInv, NEW k \in Slots, MergeProof(k)
  PROVE  TreeInv'
<1>1. /\ TreeTypeOK /\ Growing /\ Traced /\ phase = "asking" /\ k \notin asked
      /\ asked' = asked \cup {k} /\ UNCHANGED <<source, nodes, proxy, required>>
  BY DEF TreeInv, TreeTypeOK, MergeProof
<1>2. TreeTypeOK'
  BY <1>1 DEF TreeTypeOK, Traced
<1>3. ASSUME asked' \subseteq Held(source), Held(proxy) \subseteq Held(source)
      PROVE  LeavesAreGenuine' /\ AskedAreThere'
  <2>1. k \in Held(source) /\ asked \subseteq Held(source)
    BY <1>1, <1>3
  <2>2. LeavesAreGenuine /\ AskedAreThere /\ (asked = {} => tree = <<>>)
    BY <1>1, <1>3, <2>1 DEF Growing
  <2>3. /\ <<>> \in ProofOf(k) /\ End(k) \in ProofOf(k) /\ ~IsBranch(nodes[End(k)])
        /\ Longest(ProofOf(k)) = End(k)
    BY <1>1, <2>1, EndIsLongest, EndIsLeaf DEF End
  <2>4. \E ps : tree' = WithLeaf(WithInner(ps), End(k), Leaf(nodes[End(k)], k))
    <3>1. CASE ProofOf(k) # {<<>>}
      <4>. DEFINE above == ProofOf(k) \ {End(k)}
      <4>1. {p \in above : LeafAt(p)} = {}
        BY <1>1, <2>1, <2>2, NothingHides
      <4>2. Descend(k)
        BY <2>3, <3>1 DEF MergeProof
      <4>3. tree' = WithLeaf(WithInner(above), End(k), Leaf(nodes[End(k)], k))
        BY <2>3, <4>1, <4>2 DEF Descend
      <4>. QED BY <4>3
    <3>2. CASE ProofOf(k) = {<<>>}
      <4>1. End(k) = <<>> /\ ~IsBranch(nodes[<<>>])
        BY <2>3, <3>2
      <4>2. asked = {}
        <5>1. SUFFICES ASSUME NEW j \in asked PROVE FALSE
          OBVIOUS
        <5>2. j \in Held(source) /\ j # k /\ IsPrefix(End(k), j)
          BY <1>1, <2>1, <4>1, HeldFacts, EmptyPrefix
        <5>. QED BY <1>1, <2>1, <5>2, EndIsOwn
      <4>3. FirstNode(k)
        BY <2>2, <3>2, <4>2 DEF MergeProof
      <4>4. source[k] # ZeroWord
        BY <2>1 DEF Held
      <4>5. tree' = WithLeaf(tree, <<>>, Leaf(nodes[<<>>], k))
        BY <4>1, <4>3, <4>4 DEF FirstNode
      <4>6. WithInner({}) = tree
        <5>1. tree = <<>>
          BY <2>2, <4>2
        <5>2. DOMAIN tree \cup {} = {} /\ DOMAIN tree = {}
          BY <5>1
        <5>. QED BY <5>1, <5>2 DEF WithInner
      <4>. QED BY <4>1, <4>5, <4>6
    <3>. QED BY <3>1, <3>2
  <2>. QED BY <1>1, <2>1, <2>2, <2>4, LeafIsAdded
<1>4. Growing'
  <2>1. phase' # "adding" /\ asked' # {} /\ Held(source)' = Held(source) /\ Held(proxy)' = Held(proxy)
    <3>1. phase' # "adding"
      BY <1>1 DEF MergeProof, Descend, FirstNode, RootAgain, Fail
    <3>. QED BY <1>1, <3>1 DEF Held
  <2>2. asked' \subseteq Held(source) /\ Held(proxy) \subseteq Held(source) => required \subseteq Held(source)
    BY <1>1 DEF Growing
  <2>. QED BY <1>1, <1>3, <2>1, <2>2 DEF Growing
<1>. QED BY <1>2, <1>4 DEF TreeInv

LEMMA LookForKeysInv ==
  ASSUME TreeInv, LookForKeys
  PROVE  TreeInv'
<1>1. /\ TreeTypeOK /\ Growing /\ phase = "asking" /\ asked # {} /\ phase' = "adding"
      /\ UNCHANGED <<source, nodes, proxy, asked, tree>>
  BY DEF TreeInv, LookForKeys
<1>2. TreeTypeOK'
  BY <1>1 DEF TreeTypeOK, Traced
<1>3. required' \subseteq Held(source) \cup Held(proxy)
  <2>1. PICK storage \in {source, proxy, [s \in Slots |-> ZeroWord]} : required' = RequiredKeys(Held(storage))
    BY DEF LookForKeys
  <2>2. Held([s \in Slots |-> ZeroWord]) = {}
    BY DEF Held
  <2>3. required' \subseteq Held(storage)
    BY <2>1 DEF RequiredKeys
  <2>. QED BY <2>2, <2>3
<1>4. Held(source)' = Held(source) /\ Held(proxy)' = Held(proxy)
  BY <1>1 DEF Held
<1>5. LeavesAreGenuine' <=> LeavesAreGenuine
  BY <1>1, <1>4 DEF LeavesAreGenuine, LeafAt, End, ProofOf
<1>6. AskedAreThere' <=> AskedAreThere
  BY <1>1, <1>4 DEF AskedAreThere, LeafAt, End, ProofOf
<1>. QED BY <1>1, <1>2, <1>3, <1>4, <1>5, <1>6 DEF TreeInv, Growing

LEMMA MergeAdditionalInv ==
  ASSUME TreeInv, NEW k \in Slots, MergeAdditional(k)
  PROVE  TreeInv'
<1>1. /\ TreeTypeOK /\ Growing /\ Traced /\ phase = "adding" /\ k \in required
      /\ required' = required \ {k} /\ UNCHANGED <<source, nodes, proxy, asked, phase>>
  BY DEF TreeInv, TreeTypeOK, MergeAdditional
<1>2. TreeTypeOK'
  BY <1>1 DEF TreeTypeOK, Traced
<1>3. Held(source)' = Held(source) /\ Held(proxy)' = Held(proxy)
  BY <1>1 DEF Held
<1>4. ASSUME asked \subseteq Held(source), Held(proxy) \subseteq Held(source)
      PROVE  LeavesAreGenuine' /\ AskedAreThere'
  <2>1. k \in Held(source) /\ LeavesAreGenuine /\ AskedAreThere
    BY <1>1, <1>4 DEF Growing
  <2>2. ~IsBranch(nodes[End(k)]) /\ Longest(ProofOf(k)) = End(k)
    BY <1>1, <2>1, EndIsLeaf DEF End
  <2>. DEFINE above == ProofOf(k) \ {End(k)}
  <2>3. CASE tree' = tree
    <3>1. LeavesAreGenuine' <=> LeavesAreGenuine
      BY <1>1, <1>3, <2>3 DEF LeavesAreGenuine, LeafAt, End, ProofOf
    <3>2. AskedAreThere' <=> AskedAreThere
      BY <1>1, <1>3, <2>3 DEF AskedAreThere, LeafAt, End, ProofOf
    <3>. QED BY <2>1, <3>1, <3>2
  <2>4. CASE tree' = WithLeaf(WithInner(above), End(k), Leaf(nodes[End(k)], k))
    BY <1>1, <1>4, <2>1, <2>4, LeafIsAdded
  <2>. QED BY <2>2, <2>3, <2>4 DEF MergeAdditional
<1>. QED BY <1>1, <1>2, <1>3, <1>4 DEF TreeInv, Growing

\* What the contract takes from the tree: of every slot that has a leaf, the word
\* of the source.
LEMMA StoredIsSource ==
  ASSUME Traced, source \in [Slots -> Contents], LeavesAreGenuine, AskedAreThere,
         asked \subseteq Held(source), NEW s \in Slots
  PROVE  /\ StoredWords[s] \in {source[s], proxy[s]}
         /\ s \in asked => StoredWords[s] = source[s]
<1>. DEFINE leaves == {p \in DOMAIN tree : LeafAt(p) /\ tree[p].key = s}
            leaf == CHOOSE p \in leaves : TRUE
<1>1. StoredWords[s] = IF leaves = {} THEN proxy[s]
                       ELSE IF tree[leaf].node.item \in Contents THEN tree[leaf].node.item ELSE Garbage
  BY DEF StoredWords
<1>2. ASSUME NEW p \in leaves PROVE tree[p].node.item = source[s]
  <2>1. s \in Held(source) /\ p = End(s) /\ tree[p].node = nodes[p]
    BY DEF LeavesAreGenuine
  <2>. QED BY <2>1, EndIsLeaf
<1>3. leaves # {} => tree[leaf].node.item = source[s]
  <2>1. leaves # {} => leaf \in leaves
    <3>. HIDE DEF leaves
    <3>. QED OBVIOUS
  <2>. HIDE DEF leaves, leaf
  <2>. QED BY <1>2, <2>1
<1>4. s \in asked => leaves # {}
  <2>1. SUFFICES ASSUME s \in asked PROVE End(s) \in leaves
    OBVIOUS
  <2>2. LeafAt(End(s)) /\ s \in Held(source)
    BY <2>1 DEF AskedAreThere
  <2>3. tree[End(s)].key \in Held(source) /\ End(s) = End(tree[End(s)].key)
    BY <2>2 DEF LeavesAreGenuine, LeafAt
  <2>4. IsPrefix(End(s), s)
    BY <2>2, EndIsLongest
  <2>5. tree[End(s)].key = s
    BY <2>2, <2>3, <2>4, EndIsOwn
  <2>. QED BY <2>2, <2>5 DEF LeafAt
<1>5. source[s] \in Contents
  OBVIOUS
<1>. HIDE DEF leaves, leaf
<1>. QED BY <1>1, <1>3, <1>4, <1>5

LEMMA UpdateInv ==
  ASSUME TreeInv, UpdateStorage \/ UpdateStorageModified \/ Rejected
  PROVE  TreeInv'
<1>1. /\ phase' \notin {"asking", "adding"} /\ UNCHANGED <<source, nodes>>
      /\ proxy' = proxy \/ proxy' = StoredWords
  BY DEF UpdateStorage, UpdateStorageModified, Rejected
<1>2. TreeTypeOK
  BY DEF TreeInv
<1>3. StoredWords \in [Slots -> Contents \cup {Garbage}]
  <2>1. \A s \in Slots : proxy[s] \in Contents \cup {Garbage}
    BY <1>2 DEF TreeTypeOK
  <2>. QED BY <2>1 DEF StoredWords
<1>4. TreeTypeOK'
  BY <1>1, <1>2, <1>3 DEF TreeTypeOK, Traced
<1>. QED BY <1>1, <1>4 DEF TreeInv, Growing

LEMMA TreeStepInv == TreeInv /\ [TreeNext]_treeVars => TreeInv'
<1>. SUFFICES ASSUME TreeInv, [TreeNext]_treeVars PROVE TreeInv'
  OBVIOUS
<1>1. CASE \E k \in Slots : MergeProof(k)
  BY <1>1, MergeProofInv
<1>2. CASE \E k \in Slots : MergeAdditional(k)
  BY <1>2, MergeAdditionalInv
<1>3. CASE LookForKeys
  BY <1>3, LookForKeysInv
<1>4. CASE UpdateStorage \/ UpdateStorageModified \/ Rejected
  BY <1>4, UpdateInv
<1>5. CASE UNCHANGED treeVars
  BY <1>5 DEF TreeInv, TreeTypeOK, Traced, Growing, LeavesAreGenuine, AskedAreThere, Held, LeafAt, End, ProofOf, treeVars
<1>. QED BY <1>1, <1>2, <1>3, <1>4, <1>5 DEF TreeNext

\* An update without any check brings every change, if all changes are asked for and
\* nothing was removed: no proof that is merged later, also none of an additional
\* key, takes the leaf of another slot away, whatever shape the trie has.
THEOREM AdditionsArriveCorrect == TreeSpec => AdditionsArrive
<1>1. ASSUME TreeInv, TreeNext, phase' = "updated", Changed \subseteq asked, NoneAskedInVain,
             Held(proxy) \subseteq Held(source)
      PROVE  proxy' = source \/ UNCHANGED treeVars
  <2>1. CASE UpdateStorage
    <3>1. /\ Traced /\ source \in [Slots -> Contents] /\ LeavesAreGenuine /\ AskedAreThere
          /\ asked \subseteq Held(source) /\ proxy' = StoredWords
      BY <1>1, <2>1 DEF TreeInv, TreeTypeOK, Growing, NoneAskedInVain, UpdateStorage, Sending
    <3>2. ASSUME NEW s \in Slots PROVE StoredWords[s] = source[s]
      <4>1. s \notin asked => proxy[s] = source[s]
        BY <1>1 DEF Changed
      <4>. QED BY <3>1, <4>1, StoredIsSource
    <3>3. StoredWords = [s \in Slots |-> StoredWords[s]]
      BY DEF StoredWords
    <3>. QED BY <3>1, <3>2, <3>3
  <2>2. CASE (\E k \in Slots : MergeProof(k) \/ MergeAdditional(k)) \/ LookForKeys \/ UpdateStorageModified \/ Rejected
    <3>1. phase' # "updated"
      BY <2>2 DEF MergeProof, Descend, FirstNode, RootAgain, Fail, MergeAdditional, LookForKeys,
                  UpdateStorageModified, Rejected
    <3>. QED BY <1>1, <3>1
  <2>. QED BY <1>1, <2>1, <2>2 DEF TreeNext
<1>2. TreeInv /\ [TreeNext]_treeVars
      => [phase' = "updated" /\ Changed \subseteq asked /\ NoneAskedInVain /\ Held(proxy) \subseteq Held(source)
          => proxy' = source]_treeVars
  BY <1>1
<1>. QED BY <1>2, TreeInitInv, TreeStepInv, PTL DEF TreeSpec, AdditionsArrive

-----------------------------------------------------------------------------
(***************************************************************************)
(* What a node of a trie tells.                                            *)
(***************************************************************************)
Below(storage, p) == {s \in Held(storage) : IsPrefix(p, s)}
Rest(p, s) == SubSeq(s, Len(p) + 1, Len(s))

\* Of two beginnings of a path the shorter one is the beginning of the other.
LEMMA PrefixesOfOne ==
  ASSUME NEW p \in Strings, NEW q \in Strings, NEW t \in Strings, IsPrefix(p, t), IsPrefix(q, t), Len(p) <= Len(q)
  PROVE  IsPrefix(p, q) /\ (Len(p) = Len(q) => p = q)
<1>1. Len(p) \in Nat /\ Len(q) \in Nat /\ Len(t) \in Nat
  BY DEF Strings
<1>2. /\ Len(p) <= Len(t) /\ \A i \in 1..Len(p) : p[i] = t[i]
      /\ Len(q) <= Len(t) /\ \A i \in 1..Len(q) : q[i] = t[i]
  BY PrefixByItems
<1>3. \A i \in 1..Len(p) : p[i] = q[i]
  BY <1>1, <1>2
<1>4. Len(p) = Len(q) => p = q
  BY <1>3, SeqEqual DEF Strings
<1>. QED BY <1>3, <1>4, PrefixByItems

LEMMA ConcatPrefix ==
  ASSUME NEW p \in Strings, NEW t \in Strings
  PROVE  p \o t \in Strings /\ IsPrefix(p, p \o t)
<1>1. /\ Len(p \o t) = Len(p) + Len(t) /\ p \o t \in Seq(Nat) /\ Len(p) \in Nat /\ Len(t) \in Nat
      /\ \A i \in 1..Len(p) : (p \o t)[i] = p[i]
  BY ConcatProperties DEF Strings
<1>2. Len(p) <= Len(p \o t)
  BY <1>1
<1>. QED BY <1>1, <1>2, PrefixByItems DEF Strings

\* What a path begins with after p.
LEMMA PrefixAfter ==
  ASSUME NEW p \in Strings, NEW c \in Strings, NEW s \in Strings, IsPrefix(p, s)
  PROVE  IsPrefix(p \o c, s) <=> IsPrefix(c, Rest(p, s))
<1>. DEFINE r == Rest(p, s)
<1>1. r \in Strings /\ p \o r = s /\ Len(r) = Len(s) - Len(p) /\ Len(p) <= Len(s)
  BY PrefixFacts DEF Rest
<1>2. /\ p \o c \in Strings /\ Len(p \o c) = Len(p) + Len(c) /\ Len(p) \in Nat /\ Len(c) \in Nat
      /\ \A i \in 1..Len(p) : (p \o c)[i] = p[i]
      /\ \A i \in 1..Len(c) : (p \o c)[Len(p) + i] = c[i]
  <2>1. /\ p \o c \in Seq(Nat) /\ Len(p \o c) = Len(p) + Len(c) /\ Len(p) \in Nat /\ Len(c) \in Nat
        /\ \A i \in 1..Len(p) : (p \o c)[i] = p[i]
        /\ \A i \in Len(p) + 1..Len(p) + Len(c) : (p \o c)[i] = c[i - Len(p)]
    BY ConcatProperties DEF Strings
  <2>2. ASSUME NEW i \in 1..Len(c) PROVE (p \o c)[Len(p) + i] = c[i]
    <3>1. Len(p) + i \in Len(p) + 1..Len(p) + Len(c) /\ (Len(p) + i) - Len(p) = i
      BY <2>1
    <3>. QED BY <2>1, <3>1
  <2>. QED BY <2>1, <2>2 DEF Strings
<1>3. /\ Len(s) \in Nat /\ Len(r) \in Nat
      /\ \A i \in 1..Len(p) : s[i] = p[i]
      /\ \A i \in 1..Len(r) : s[Len(p) + i] = r[i]
  <2>. HIDE DEF r
  <2>1. /\ Len(p) \in Nat /\ Len(r) \in Nat /\ Len(s) \in Nat
        /\ \A i \in 1..Len(p) : (p \o r)[i] = p[i]
        /\ \A i \in Len(p) + 1..Len(p) + Len(r) : (p \o r)[i] = r[i - Len(p)]
    BY <1>1, ConcatProperties DEF Strings
  <2>2. ASSUME NEW i \in 1..Len(r) PROVE s[Len(p) + i] = r[i]
    <3>1. Len(p) + i \in Len(p) + 1..Len(p) + Len(r) /\ (Len(p) + i) - Len(p) = i
      BY <2>1
    <3>. QED BY <1>1, <2>1, <3>1
  <2>. QED BY <1>1, <2>1, <2>2
<1>. HIDE DEF r
<1>4. IsPrefix(c, r) <=> Len(c) <= Len(r) /\ \A i \in 1..Len(c) : c[i] = r[i]
  BY <1>1, PrefixByItems
<1>5. IsPrefix(p \o c, s) <=> Len(p) + Len(c) <= Len(s) /\ \A i \in 1..Len(p) + Len(c) : (p \o c)[i] = s[i]
  BY <1>2, PrefixByItems
<1>6. ASSUME IsPrefix(c, r) PROVE IsPrefix(p \o c, s)
  <2>1. ASSUME NEW i \in 1..Len(p) + Len(c) PROVE (p \o c)[i] = s[i]
    <3>1. CASE i <= Len(p)
      <4>1. i \in 1..Len(p)
        BY <1>2, <3>1
      <4>. QED BY <1>2, <1>3, <4>1
    <3>2. CASE i > Len(p)
      <4>1. i - Len(p) \in 1..Len(c) /\ i - Len(p) \in 1..Len(r) /\ Len(p) + (i - Len(p)) = i
        BY <1>2, <1>3, <1>4, <1>6, <3>2
      <4>2. (p \o c)[Len(p) + (i - Len(p))] = c[i - Len(p)] /\ s[Len(p) + (i - Len(p))] = r[i - Len(p)]
        BY <1>2, <1>3, <4>1
      <4>. QED BY <1>4, <1>6, <4>1, <4>2
    <3>. QED BY <1>2, <3>1, <3>2
  <2>. QED BY <1>1, <1>2, <1>3, <1>4, <1>5, <1>6, <2>1
<1>7. ASSUME IsPrefix(p \o c, s) PROVE IsPrefix(c, r)
  <2>1. ASSUME NEW i \in 1..Len(c) PROVE c[i] = r[i]
    <3>1. Len(p) + i \in 1..Len(p) + Len(c) /\ i \in 1..Len(r)
      BY <1>1, <1>2, <1>3, <1>5, <1>7
    <3>. QED BY <1>2, <1>3, <1>5, <1>7, <3>1
  <2>. QED BY <1>1, <1>2, <1>3, <1>4, <1>5, <1>7, <2>1
<1>. QED BY <1>6, <1>7 DEF r

\* Where two slots part is their longest common prefix, and a branch.
LEMMA PartsThere ==
  ASSUME NEW storage, NEW b \in Strings, NEW j \in Below(storage, b), NEW k \in Below(storage, b),
         j[Len(b) + 1] # k[Len(b) + 1]
  PROVE  b \in BranchesOf(Held(storage))
<1>1. /\ j \in Slots /\ k \in Slots /\ j \in Strings /\ k \in Strings /\ j # k
      /\ j \in Held(storage) /\ k \in Held(storage) /\ IsPrefix(b, j) /\ IsPrefix(b, k)
  BY HeldFacts DEF Below
<1>2. Len(b) + 1 < Len(k) /\ Len(b) + 1 < Len(j) /\ Len(b) \in Nat /\ Len(j) \in Nat /\ Len(k) \in Nat
  BY <1>1, SlotsPart DEF Strings
<1>. DEFINE c == LongestCommonPrefix({j, k})
<1>3. c \in Strings /\ IsPrefix(c, j) /\ IsPrefix(c, k) /\ \A p \in CommonPrefixes({j, k}) : Len(p) <= Len(c)
  <2>1. PICK l \in Nat : Len(j) <= l /\ Len(k) <= l
    BY <1>2
  <2>. QED BY <1>1, <2>1, CommonPrefix
<1>4. b \in CommonPrefixes({j, k})
  <2>1. b = SubSeq(k, 1, Len(b)) /\ Len(b) \in 0..Len(k)
    BY <1>1, <1>2, PrefixFacts
  <2>2. b \in Prefixes(k)
    BY <2>1 DEF Prefixes
  <2>. QED BY <1>1, <2>2 DEF CommonPrefixes
<1>. HIDE DEF c
<1>5. Len(c) = Len(b)
  <2>1. Len(c) \in Nat /\ Len(b) <= Len(c)
    BY <1>3, <1>4 DEF Strings
  <2>2. ~(Len(b) < Len(c))
    <3>1. SUFFICES ASSUME Len(b) < Len(c) PROVE FALSE
      OBVIOUS
    <3>2. Len(b) + 1 \in 1..Len(c)
      BY <1>2, <2>1, <3>1
    <3>3. c[Len(b) + 1] = j[Len(b) + 1] /\ c[Len(b) + 1] = k[Len(b) + 1]
      BY <1>1, <1>3, <3>2, PrefixByItems
    <3>. QED BY <3>3
  <2>. QED BY <1>2, <2>1, <2>2
<1>6. b = c
  BY <1>1, <1>2, <1>3, <1>5, PrefixesOfOne
<1>7. b \notin Held(storage)
  <2>1. \A s \in Held(storage) : Len(s) = Len(k)
    BY <1>1, HeldFacts, SlotsAssumption
  <2>. QED BY <1>2, <2>1
<1>. QED BY <1>1, <1>6, <1>7, BranchMembers DEF c

\* Two slots at least are held below a branch.
LEMMA BranchPair ==
  ASSUME NEW storage, NEW b \in BranchesOf(Held(storage))
  PROVE  b \in Strings /\ \E j, k \in Below(storage, b) : j # k
<1>1. PICK j, k \in Held(storage) : b = LongestCommonPrefix({j, k}) /\ b \notin Held(storage)
  <2>1. b \notin Held(storage) /\ \E j, k \in Held(storage) : b = LongestCommonPrefix({j, k})
    BY BranchMembers
  <2>. QED BY <2>1
<1>2. j \in Strings /\ k \in Strings /\ Len(j) \in Nat /\ Len(k) \in Nat
  BY HeldFacts DEF Strings
<1>3. b \in Strings /\ IsPrefix(b, j) /\ IsPrefix(b, k)
  <2>1. PICK l \in Nat : Len(j) <= l /\ Len(k) <= l
    BY <1>2
  <2>. QED BY <1>1, <1>2, <2>1, CommonPrefix
<1>4. j # k
  <2>1. SUFFICES ASSUME j = k PROVE FALSE
    OBVIOUS
  <2>2. {j, k} = {j} /\ LongestCommonPrefix({j}) = j
    BY <1>2, <2>1, PrefixOfOne
  <2>. QED BY <1>1, <2>2
<1>. QED BY <1>1, <1>3, <1>4 DEF Below

LEMMA EncodedOnce ==
  ASSUME NEW f \in {0, 2}, NEW g \in {0, 2}, NEW p \in Strings, NEW q \in Strings, Encoded(f, p) = Encoded(g, q)
  PROVE  f = g /\ p = q
<1>1. GetNibbleArray(Encoded(f, p)) = p /\ (Encoded(f, p)[1] \in {2, 3} <=> f = 2)
  BY NibblesOfEncoded
<1>2. GetNibbleArray(Encoded(g, q)) = q /\ (Encoded(g, q)[1] \in {2, 3} <=> g = 2)
  BY NibblesOfEncoded
<1>3. f = 2 <=> g = 2
  BY <1>1, <1>2
<1>. QED BY <1>1, <1>2, <1>3

\* What is at a position: nothing, the leaf of the only slot held below, an extension
\* to the branch all slots below part at, or that branch.
IsEmptyAt(storage, p) == Below(storage, p) = {} /\ NodeAt(storage)[p] = NoNode

IsLeafAt(storage, p, k) ==
  /\ Below(storage, p) = {k}
  /\ NodeAt(storage)[p] = TwoItems(Encoded(2, Rest(p, k)), storage[k])

IsExtensionAt(storage, p, e) ==
  /\ e # <<>> /\ p \o e \in BranchesOf(Held(storage))
  /\ Below(storage, p) \subseteq Below(storage, p \o e)
  /\ NodeAt(storage)[p] = TwoItems(Encoded(0, e), NodeAt(storage)[p \o e])

IsBranchAt(storage, p) ==
  /\ p \in BranchesOf(Held(storage))
  /\ NodeAt(storage)[p] = Branch([n \in Children |-> NodeAt(storage)[Append(p, n)]])

LEMMA BelowFacts ==
  ASSUME NEW storage, NEW p \in Strings, NEW s \in Below(storage, p)
  PROVE  /\ s \in Held(storage) /\ s \in Slots /\ s \in Strings /\ IsPrefix(p, s)
         /\ Rest(p, s) \in Strings /\ p \o Rest(p, s) = s /\ Len(Rest(p, s)) = Len(s) - Len(p)
<1>1. s \in Held(storage) /\ s \in Slots /\ s \in Strings /\ IsPrefix(p, s)
  BY HeldFacts DEF Below
<1>. QED BY <1>1, PrefixFacts DEF Rest

\* The entries below a position that holds two slots at least.
LEMMA EntriesOfMany ==
  ASSUME NEW storage, NEW p \in Strings, NEW j \in Below(storage, p), NEW k \in Below(storage, p), j # k,
         NEW R, R = DOMAIN EntriesBelow(Entries(storage), p)
  PROVE  /\ R = {Rest(p, s) : s \in Below(storage, p)}
         /\ R \in SUBSET Strings /\ R # {} /\ Cardinality(R) # 1
         /\ \E l \in Nat : \A r \in R : Len(r) <= l
<1>1. ASSUME NEW r \in R PROVE r \in Strings /\ p \o r \in Below(storage, p) /\ Rest(p, p \o r) = r
  <2>1. r \in Strings /\ p \o r \in Held(storage)
    BY EntriesFacts
  <2>2. p \o r \in Strings /\ IsPrefix(p, p \o r)
    BY <2>1, ConcatPrefix
  <2>3. p \o Rest(p, p \o r) = p \o r /\ Rest(p, p \o r) \in Strings
    BY <2>2, PrefixFacts DEF Rest
  <2>. QED BY <2>1, <2>2, <2>3, ConcatSimplifications DEF Below, Strings
<1>2. ASSUME NEW s \in Below(storage, p) PROVE Rest(p, s) \in R /\ Rest(p, s) \in Strings /\ p \o Rest(p, s) = s
  BY BelowFacts, EntriesFacts DEF Rest
<1>3. R = {Rest(p, s) : s \in Below(storage, p)}
  BY <1>1, <1>2
<1>4. Rest(p, j) \in R /\ Rest(p, k) \in R /\ Rest(p, j) # Rest(p, k)
  BY <1>2
<1>5. IsFiniteSet(R)
  <2>. DEFINE f == [s \in Below(storage, p) |-> Rest(p, s)]
  <2>1. IsFiniteSet(Below(storage, p))
    <3>1. Below(storage, p) \in SUBSET Slots
      BY DEF Below, Held
    <3>. QED BY <3>1, SlotsAssumption, FS_Subset
  <2>2. f \in [Below(storage, p) -> R] /\ \A r \in R : \E s \in Below(storage, p) : f[s] = r
    BY <1>1, <1>2
  <2>3. f \in Surjection(Below(storage, p), R)
    BY <2>2 DEF Surjection
  <2>. QED BY <2>1, <2>3, FS_Surjection DEF ExistsSurjection
<1>6. Cardinality(R) # 1
  <2>1. ~ \E x : R = {x}
    BY <1>4
  <2>. QED BY <1>5, <2>1, FS_Singleton
<1>7. \A r \in R : Len(r) <= Len(k) /\ Len(k) \in Nat
  <2>0. PICK l \in Nat : \A s \in Slots : Len(s) = l
    BY SlotFacts
  <2>1. TAKE r \in R
  <2>2. r \in Strings /\ p \o r \in Slots /\ k \in Slots
    BY <1>1, BelowFacts
  <2>3. Len(p \o r) = Len(k) /\ Len(k) \in Nat
    BY <2>0, <2>2, Zenon
  <2>4. Len(p \o r) = Len(p) + Len(r) /\ Len(p) \in Nat /\ Len(r) \in Nat
    BY <2>2, ConcatProperties DEF Strings
  <2>. QED BY <2>3, <2>4
<1>. QED BY <1>1, <1>3, <1>4, <1>6, <1>7

\* Slots that have a common prefix as long as possible part after it.
LEMMA PartAfter ==
  ASSUME NEW storage, NEW p \in Strings, NEW j \in Below(storage, p), NEW k \in Below(storage, p), j # k,
         NEW R, R = DOMAIN EntriesBelow(Entries(storage), p),
         NEW c, c = LongestCommonPrefix(R)
  PROVE  /\ c \in Strings /\ p \o c \in BranchesOf(Held(storage))
         /\ Below(storage, p) \subseteq Below(storage, p \o c)
<1>1. /\ R = {Rest(p, s) : s \in Below(storage, p)}
      /\ R \in SUBSET Strings /\ R # {}
      /\ \E l \in Nat : \A r \in R : Len(r) <= l
  BY EntriesOfMany
<1>2. /\ c \in Strings /\ \A r \in R : IsPrefix(c, r)
      /\ \A q \in CommonPrefixes(R) : Len(q) <= Len(c)
  BY <1>1, CommonPrefix
<1>. DEFINE b == p \o c
<1>3. b \in Strings /\ Len(c) \in Nat
  BY <1>2, ConcatPrefix DEF Strings
<1>4. ASSUME NEW s \in Below(storage, p) PROVE s \in Below(storage, b)
  <2>1. s \in Strings /\ IsPrefix(p, s) /\ s \in Held(storage) /\ IsPrefix(c, Rest(p, s))
    BY <1>1, <1>2, BelowFacts
  <2>2. IsPrefix(b, s)
    BY <1>2, <2>1, PrefixAfter
  <2>. QED BY <2>1, <2>2 DEF Below
<1>. HIDE DEF b
<1>5. \E s, t \in Below(storage, b) : s[Len(b) + 1] # t[Len(b) + 1]
  <2>1. SUFFICES ASSUME \A s, t \in Below(storage, b) : s[Len(b) + 1] = t[Len(b) + 1] PROVE FALSE
    OBVIOUS
  <2>. DEFINE n == k[Len(b) + 1]
              longer == Append(c, n)
  <2>2. n \in Children /\ n \in Nat
    <3>1. k \in Slots /\ j \in Slots /\ IsPrefix(b, k) /\ IsPrefix(b, j)
      BY <1>4, BelowFacts DEF Below
    <3>. QED BY <1>3, <3>1, SlotsPart DEF Children
  <2>. HIDE DEF n
  <2>3. longer \in Strings /\ Len(longer) = Len(c) + 1
    BY <1>2, <2>2, AppendProperties DEF Strings
  <2>6. longer = c \o <<n>> /\ <<n>> \in Strings
    BY <1>2, <2>2, AppendProperties DEF Strings
  <2>. HIDE DEF longer
  <2>4. ASSUME NEW s \in Below(storage, p) PROVE IsPrefix(longer, Rest(p, s))
    <3>1. s \in Below(storage, b) /\ k \in Below(storage, b) /\ j \in Below(storage, b)
      BY <1>4
    <3>2. s[Len(b) + 1] = n
      BY <2>1, <3>1 DEF n
    <3>3. IsPrefix(Append(b, n), s)
      <4>1. s # j \/ s # k
        OBVIOUS
      <4>2. s \in Slots /\ j \in Slots /\ k \in Slots /\ IsPrefix(b, s) /\ IsPrefix(b, j) /\ IsPrefix(b, k)
        BY <3>1, HeldFacts DEF Below
      <4>. QED BY <1>3, <3>2, <4>1, <4>2, SlotsPart
    <3>4. Append(b, n) = p \o longer
      <4>1. Append(b, n) = b \o <<n>>
        BY <1>3, <2>2 DEF Strings
      <4>2. (p \o c) \o <<n>> = p \o (c \o <<n>>)
        BY <1>2, <2>6, ConcatAssociative DEF Strings
      <4>. QED BY <2>6, <4>1, <4>2 DEF b
    <3>. QED BY <2>3, <3>3, <3>4, BelowFacts, PrefixAfter
  <2>5. longer \in CommonPrefixes(R)
    <3>1. \A r \in R : IsPrefix(longer, r)
      BY <1>1, <2>4
    <3>2. PICK r \in R : TRUE
      BY <1>1
    <3>3. IsPrefix(longer, r) /\ r \in Strings
      BY <1>1, <3>1
    <3>4. longer = SubSeq(r, 1, Len(longer)) /\ Len(longer) \in 0..Len(r)
      <4>1. Len(longer) \in Nat /\ Len(r) \in Nat
        BY <2>3, <3>3 DEF Strings
      <4>2. Len(longer) <= Len(r) /\ SubSeq(r, 1, Len(longer)) = longer
        BY <2>3, <3>3, PrefixFacts
      <4>. QED BY <4>1, <4>2
    <3>5. longer \in Prefixes(r)
      BY <3>4 DEF Prefixes
    <3>. QED BY <3>1, <3>5 DEF CommonPrefixes
  <2>. QED BY <1>2, <1>3, <2>3, <2>5
<1>6. b \in BranchesOf(Held(storage))
  BY <1>3, <1>5, PartsThere
<1>. QED BY <1>2, <1>4, <1>6 DEF b

LEMMA NodeView ==
  ASSUME NEW storage, NEW p \in Strings
  PROVE  \/ IsEmptyAt(storage, p)
         \/ \E k \in Below(storage, p) : IsLeafAt(storage, p, k)
         \/ \E e \in Strings : IsExtensionAt(storage, p, e)
         \/ IsBranchAt(storage, p)
<1>. DEFINE below == EntriesBelow(Entries(storage), p)
            R == DOMAIN below
            node == NodeAt(storage)
<1>1. node[p] = NodeFrom(storage, node, p)
  BY NodeAtFixpoint
<1>2. CASE Below(storage, p) = {}
  <2>1. R = {}
    <3>1. SUFFICES ASSUME NEW r \in R PROVE FALSE
      OBVIOUS
    <3>2. r \in Strings /\ p \o r \in Held(storage)
      BY EntriesFacts
    <3>3. p \o r \in Below(storage, p)
      BY <3>2, ConcatPrefix DEF Below
    <3>. QED BY <1>2, <3>3
  <2>2. node[p] = NoNode
    BY <1>1, <2>1 DEF NodeFrom
  <2>. QED BY <1>2, <2>2 DEF IsEmptyAt
<1>3. CASE \E k : Below(storage, p) = {k}
  <2>1. PICK k : Below(storage, p) = {k}
    BY <1>3
  <2>2. k \in Held(storage) /\ IsPrefix(p, k) /\ \A j \in Held(storage) : IsPrefix(p, j) => j = k
    BY <2>1 DEF Below
  <2>3. node[p] = TwoItems(Encoded(2, Rest(p, k)), storage[k])
    BY <2>2, NodeOfOne DEF Rest
  <2>. QED BY <2>1, <2>3 DEF IsLeafAt
<1>4. CASE \E j, k \in Below(storage, p) : j # k
  <2>1. PICK j, k \in Below(storage, p) : j # k
    BY <1>4
  <2>. DEFINE c == LongestCommonPrefix(R)
  <2>2. R # {} /\ Cardinality(R) # 1
    <3>. HIDE DEF R
    <3>1. R = DOMAIN EntriesBelow(Entries(storage), p)
      BY DEF R
    <3>. QED BY <2>1, <3>1, EntriesOfMany
  <2>3. /\ c \in Strings /\ p \o c \in BranchesOf(Held(storage))
        /\ Below(storage, p) \subseteq Below(storage, p \o c)
    <3>. HIDE DEF R, c
    <3>1. R = DOMAIN EntriesBelow(Entries(storage), p) /\ c = LongestCommonPrefix(R)
      BY DEF R, c
    <3>. QED BY <2>1, <3>1, PartAfter
  <2>4. node[p] = IF c # <<>> THEN TwoItems(Encoded(0, c), node[p \o c])
                  ELSE Branch([n \in Children |-> node[p \o <<n>>]])
    <3>1. NodeFrom(storage, node, p) = NodeWith(below, Children, LAMBDA rest : node[p \o rest])
      BY <2>2 DEF NodeFrom
    <3>. HIDE DEF below, node
    <3>2. NodeWith(below, Children, LAMBDA rest : node[p \o rest])
          = IF c # <<>> THEN TwoItems(Encoded(0, c), node[p \o c])
            ELSE Branch([n \in Children |-> node[p \o <<n>>]])
      BY <2>2 DEF NodeWith
    <3>. QED BY <1>1, <3>1, <3>2
  <2>5. CASE c # <<>>
    <3>1. IsExtensionAt(storage, p, c)
      <4>. HIDE DEF c
      <4>. QED BY <2>3, <2>4, <2>5 DEF IsExtensionAt
    <3>. QED BY <2>3, <3>1
  <2>6. CASE c = <<>>
    <3>1. p \o c = p /\ \A n \in Children : p \o <<n>> = Append(p, n)
      <4>1. p \o <<>> = p /\ \A n \in Nat : p \o <<n>> = Append(p, n)
        BY ConcatSimplifications DEF Strings
      <4>2. Children \subseteq Nat
        BY SlotsAssumption DEF Children
      <4>. HIDE DEF c
      <4>. QED BY <2>6, <4>1, <4>2
    <3>. HIDE DEF c
    <3>2. node[p] = Branch([n \in Children |-> node[Append(p, n)]])
      BY <2>4, <2>6, <3>1
    <3>. QED BY <2>3, <3>1, <3>2 DEF IsBranchAt
  <2>. QED BY <2>5, <2>6
<1>. QED BY <1>2, <1>3, <1>4

LEMMA NodeShapes ==
  /\ \A a, b : TwoItems(a, b) # NoNode /\ TwoItems(a, b) # EmptyRoot /\ ~IsBranch(TwoItems(a, b))
  /\ \A x : Branch(x) # NoNode /\ Branch(x) # EmptyRoot /\ IsBranch(Branch(x))
  /\ \A a, b, x : TwoItems(a, b) # Branch(x)
  /\ \A a, b, c, d : TwoItems(a, b) = TwoItems(c, d) => a = c /\ b = d
  /\ \A x, y : Branch(x) = Branch(y) => x = y
  /\ NoNode # EmptyRoot /\ ~IsBranch(NoNode)
<1>1. \A a, b : TwoItems(a, b) # NoNode /\ TwoItems(a, b) # EmptyRoot /\ ~IsBranch(TwoItems(a, b))
  <2>1. TAKE a, b
  <2>2. TwoItems(a, b).items = 2 /\ NoNode.items = 0 /\ EmptyRoot.items = 0
    BY DEF TwoItems, NoNode, EmptyRoot
  <2>. QED BY <2>2 DEF IsBranch
<1>2. \A x : Branch(x) # NoNode /\ Branch(x) # EmptyRoot /\ IsBranch(Branch(x))
  <2>1. TAKE x
  <2>2. Branch(x).items = 17 /\ NoNode.items = 0 /\ EmptyRoot.items = 0
    BY DEF Branch, NoNode, EmptyRoot
  <2>. QED BY <2>2 DEF IsBranch
<1>3. \A a, b, x : TwoItems(a, b) # Branch(x)
  <2>1. TAKE a, b, x
  <2>2. TwoItems(a, b).items = 2 /\ Branch(x).items = 17
    BY DEF TwoItems, Branch
  <2>. QED BY <2>2
<1>4. \A a, b, c, d : TwoItems(a, b) = TwoItems(c, d) => a = c /\ b = d
  <2>1. \A a, b : TwoItems(a, b).path = a /\ TwoItems(a, b).item = b
    BY DEF TwoItems
  <2>. QED BY <2>1
<1>5. \A x, y : Branch(x) = Branch(y) => x = y
  <2>1. \A x : Branch(x).children = x
    BY DEF Branch
  <2>. QED BY <2>1
<1>6. NoNode # EmptyRoot /\ ~IsBranch(NoNode)
  <2>1. NoNode.hashed = FALSE /\ EmptyRoot.hashed = TRUE /\ NoNode.items = 0
    BY DEF NoNode, EmptyRoot
  <2>. QED BY <2>1 DEF IsBranch
<1>. QED BY <1>1, <1>2, <1>3, <1>4, <1>5, <1>6

LEMMA ViewShapes ==
  ASSUME NEW storage, NEW p
  PROVE  /\ IsEmptyAt(storage, p) => NodeAt(storage)[p] = NoNode
         /\ \A k : IsLeafAt(storage, p, k) => \E a, b : NodeAt(storage)[p] = TwoItems(a, b)
         /\ \A e : IsExtensionAt(storage, p, e) => \E a, b : NodeAt(storage)[p] = TwoItems(a, b)
         /\ IsBranchAt(storage, p) => \E x : NodeAt(storage)[p] = Branch(x)
<1>1. IsEmptyAt(storage, p) => NodeAt(storage)[p] = NoNode
  BY DEF IsEmptyAt
<1>2. \A k : IsLeafAt(storage, p, k) => NodeAt(storage)[p] = TwoItems(Encoded(2, Rest(p, k)), storage[k])
  BY DEF IsLeafAt
<1>3. \A e : IsExtensionAt(storage, p, e) => NodeAt(storage)[p] = TwoItems(Encoded(0, e), NodeAt(storage)[p \o e])
  BY DEF IsExtensionAt
<1>4. IsBranchAt(storage, p) => NodeAt(storage)[p] = Branch([n \in Children |-> NodeAt(storage)[Append(p, n)]])
  BY DEF IsBranchAt
<1>. QED BY <1>1, <1>2, <1>3, <1>4, Zenon

\* What is below a position can be told from the node there.
LEMMA TellsEmpty ==
  ASSUME NEW storage, NEW p \in Strings, NodeAt(storage)[p] = NoNode
  PROVE  Below(storage, p) = {}
<1>1. IsEmptyAt(storage, p)
  <2>1. ~IsBranchAt(storage, p)
    BY ViewShapes, NodeShapes
  <2>2. \A k : ~IsLeafAt(storage, p, k)
    BY ViewShapes, NodeShapes
  <2>3. \A e : ~IsExtensionAt(storage, p, e)
    BY ViewShapes, NodeShapes
  <2>. QED BY <2>1, <2>2, <2>3, NodeView
<1>. QED BY <1>1 DEF IsEmptyAt

LEMMA TellsLeaf ==
  ASSUME NEW storage, NEW p \in Strings, NEW c \in Strings, NEW x,
         NodeAt(storage)[p] = TwoItems(Encoded(2, c), x)
  PROVE  Below(storage, p) = {p \o c} /\ storage[p \o c] = x /\ x # ZeroWord
<1>1. PICK k \in Below(storage, p) : IsLeafAt(storage, p, k)
  <2>1. ASSUME NEW e \in Strings, IsExtensionAt(storage, p, e) PROVE FALSE
    <3>1. Encoded(0, e) = Encoded(2, c)
      BY <2>1, NodeShapes DEF IsExtensionAt
    <3>. QED BY <3>1, EncodedOnce
  <2>2. ~IsEmptyAt(storage, p) /\ ~IsBranchAt(storage, p)
    BY ViewShapes, NodeShapes
  <2>. QED BY <2>1, <2>2, NodeView
<1>2. Rest(p, k) \in Strings /\ p \o Rest(p, k) = k /\ k \in Held(storage)
  BY BelowFacts
<1>3. Below(storage, p) = {k} /\ Encoded(2, Rest(p, k)) = Encoded(2, c) /\ storage[k] = x
  BY <1>1, NodeShapes DEF IsLeafAt
<1>4. Rest(p, k) = c
  BY <1>2, <1>3, EncodedOnce
<1>. QED BY <1>2, <1>3, <1>4 DEF Held

LEMMA TellsExtension ==
  ASSUME NEW storage, NEW p \in Strings, NEW c \in Strings, NEW x,
         NodeAt(storage)[p] = TwoItems(Encoded(0, c), x)
  PROVE  IsExtensionAt(storage, p, c) /\ x = NodeAt(storage)[p \o c]
<1>1. PICK e \in Strings : IsExtensionAt(storage, p, e)
  <2>1. ASSUME NEW k \in Below(storage, p), IsLeafAt(storage, p, k) PROVE FALSE
    <3>1. Encoded(2, Rest(p, k)) = Encoded(0, c) /\ Rest(p, k) \in Strings
      BY <2>1, NodeShapes, BelowFacts DEF IsLeafAt
    <3>. QED BY <3>1, EncodedOnce
  <2>2. ~IsEmptyAt(storage, p) /\ ~IsBranchAt(storage, p)
    BY ViewShapes, NodeShapes
  <2>. QED BY <2>1, <2>2, NodeView
<1>2. Encoded(0, e) = Encoded(0, c) /\ x = NodeAt(storage)[p \o e]
  BY <1>1, NodeShapes DEF IsExtensionAt
<1>3. e = c
  BY <1>2, EncodedOnce
<1>. QED BY <1>1, <1>2, <1>3

LEMMA TellsBranch ==
  ASSUME NEW storage, NEW p \in Strings, IsBranch(NodeAt(storage)[p])
  PROVE  IsBranchAt(storage, p)
<1>1. ~IsEmptyAt(storage, p)
  BY ViewShapes, NodeShapes
<1>2. \A k : ~IsLeafAt(storage, p, k)
  BY ViewShapes, NodeShapes
<1>3. \A e : ~IsExtensionAt(storage, p, e)
  BY ViewShapes, NodeShapes
<1>. QED BY <1>1, <1>2, <1>3, NodeView

\* A slot below a branch is below one of its children.
LEMMA BelowChild ==
  ASSUME NEW storage, NEW p \in BranchesOf(Held(storage)), NEW s \in Slots, IsPrefix(p, s)
  PROVE  \E n \in Children : Append(p, n) \in Strings /\ IsPrefix(Append(p, n), s) /\ Len(Append(p, n)) = Len(p) + 1
<1>1. p \in Strings /\ \E j, k \in Below(storage, p) : j # k
  BY BranchPair
<1>2. PICK j \in Below(storage, p) : j # s
  BY <1>1
<1>3. j \in Slots /\ IsPrefix(p, j)
  BY HeldFacts DEF Below
<1>. QED BY <1>1, <1>2, <1>3, SlotsPart

LEMMA ChildString ==
  ASSUME NEW p \in Strings, NEW n \in Children
  PROVE  Append(p, n) \in Strings /\ Len(Append(p, n)) = Len(p) + 1 /\ IsPrefix(p, Append(p, n))
<1>1. n \in Nat
  BY SlotsAssumption DEF Children
<1>2. /\ Append(p, n) \in Strings /\ Len(Append(p, n)) = Len(p) + 1 /\ Len(p) \in Nat
      /\ \A i \in 1..Len(p) : Append(p, n)[i] = p[i]
  BY <1>1, AppendProperties DEF Strings
<1>3. Len(p) <= Len(Append(p, n))
  BY <1>2
<1>. QED BY <1>2, <1>3, PrefixByItems

\* The words below a position are those of any storage with the same node there.
LEMMA SameNodeSameWords ==
  ASSUME NEW f, NEW g, NEW p \in Strings, NodeAt(f)[p] = NodeAt(g)[p], NEW s \in Slots, IsPrefix(p, s)
  PROVE  f[s] = g[s]
<1>1. PICK l \in Nat : \A t \in Slots : Len(t) = l
  BY SlotFacts
<1>. DEFINE Same(q) == NodeAt(f)[q] = NodeAt(g)[q] => \A t \in Slots : IsPrefix(q, t) => f[t] = g[t]
            T == {m \in Nat : \A q \in Strings : Len(q) + m > l => Same(q)}
<1>2. 0 \in T
  <2>1. ASSUME NEW q \in Strings, Len(q) + 0 > l, NEW t \in Slots, IsPrefix(q, t) PROVE FALSE
    <3>1. Len(q) \in Nat /\ Len(q) <= Len(t) /\ Len(t) = l
      BY <1>1, <2>1, SlotFacts, PrefixFacts DEF Strings
    <3>. QED BY <2>1, <3>1
  <2>. QED BY <2>1
<1>3. ASSUME NEW m \in T PROVE m + 1 \in T
  <2>1. SUFFICES ASSUME NEW q \in Strings, Len(q) + (m + 1) > l, NodeAt(f)[q] = NodeAt(g)[q],
                        NEW t \in Slots, IsPrefix(q, t)
                 PROVE  f[t] = g[t]
    OBVIOUS
  <2>2. \A storage : t \notin Below(storage, q) => storage[t] = ZeroWord
    BY <2>1 DEF Below, Held
  <2>3. \A r \in Strings : Len(r) > Len(q) => Same(r)
    <3>1. TAKE r \in Strings
    <3>2. HAVE Len(r) > Len(q)
    <3>3. Len(r) + m > l
      <4>1. Len(r) \in Nat /\ Len(q) \in Nat /\ m \in Nat
        BY DEF Strings
      <4>. QED BY <2>1, <3>2, <4>1
    <3>. QED BY <3>3
  <2>. HIDE DEF T
  <2>4. CASE IsEmptyAt(f, q)
    <3>1. Below(f, q) = {} /\ Below(g, q) = {}
      BY <2>1, <2>4, TellsEmpty DEF IsEmptyAt
    <3>. QED BY <2>2, <3>1
  <2>5. CASE \E k \in Below(f, q) : IsLeafAt(f, q, k)
    <3>1. PICK k \in Below(f, q) : IsLeafAt(f, q, k)
      BY <2>5
    <3>2. Rest(q, k) \in Strings /\ q \o Rest(q, k) = k /\ Below(f, q) = {k}
      BY <3>1, BelowFacts DEF IsLeafAt
    <3>3. Below(g, q) = {k} /\ g[k] = f[k]
      <4>1. NodeAt(g)[q] = TwoItems(Encoded(2, Rest(q, k)), f[k])
        BY <2>1, <3>1 DEF IsLeafAt
      <4>2. Below(g, q) = {q \o Rest(q, k)} /\ g[q \o Rest(q, k)] = f[k]
        <5>. DEFINE c == Rest(q, k)
        <5>1. c \in Strings /\ NodeAt(g)[q] = TwoItems(Encoded(2, c), f[k])
          BY <3>2, <4>1
        <5>. HIDE DEF c
        <5>2. Below(g, q) = {q \o c} /\ g[q \o c] = f[k]
          BY <5>1, TellsLeaf
        <5>. QED BY <5>2 DEF c
      <4>. QED BY <3>2, <4>2
    <3>. QED BY <2>2, <3>2, <3>3
  <2>6. CASE \E e \in Strings : IsExtensionAt(f, q, e)
    <3>1. PICK e \in Strings : IsExtensionAt(f, q, e)
      BY <2>6
    <3>2. IsExtensionAt(g, q, e) /\ NodeAt(f)[q \o e] = NodeAt(g)[q \o e]
      <4>1. NodeAt(g)[q] = TwoItems(Encoded(0, e), NodeAt(f)[q \o e])
        BY <2>1, <3>1 DEF IsExtensionAt
      <4>. QED BY <4>1, TellsExtension
    <3>3. q \o e \in Strings /\ Len(q \o e) > Len(q)
      <4>1. PICK u \in Strings : u = q \o e /\ Len(u) = Len(q) + Len(e) /\ Len(e) \in Nat /\ Len(q) \in Nat
        BY ConcatFacts
      <4>2. Len(e) # 0
        BY <3>1, EmptySeq DEF IsExtensionAt, Strings
      <4>3. Len(u) > Len(q)
        BY <4>1, <4>2
      <4>. QED BY <4>1, <4>3
    <3>4. IsPrefix(q \o e, t) => f[t] = g[t]
      BY <2>3, <3>2, <3>3
    <3>5. ~IsPrefix(q \o e, t) => t \notin Below(f, q) /\ t \notin Below(g, q)
      BY <3>1, <3>2 DEF IsExtensionAt, Below
    <3>. QED BY <2>2, <3>4, <3>5
  <2>7. CASE IsBranchAt(f, q)
    <3>1. IsBranchAt(g, q)
      <4>1. IsBranch(NodeAt(f)[q])
        BY <2>7, ViewShapes, NodeShapes, Zenon
      <4>. QED BY <2>1, <4>1, TellsBranch
    <3>2. [n \in Children |-> NodeAt(f)[Append(q, n)]] = [n \in Children |-> NodeAt(g)[Append(q, n)]]
      BY <2>1, <2>7, <3>1, NodeShapes DEF IsBranchAt
    <3>3. PICK n \in Children : Append(q, n) \in Strings /\ IsPrefix(Append(q, n), t) /\ Len(Append(q, n)) = Len(q) + 1
      BY <2>1, <2>7, BelowChild DEF IsBranchAt
    <3>4. NodeAt(f)[Append(q, n)] = NodeAt(g)[Append(q, n)]
      BY <3>2
    <3>5. Len(Append(q, n)) > Len(q)
      BY <3>3 DEF Strings
    <3>. QED BY <2>1, <2>3, <3>3, <3>4, <3>5
  <2>. QED BY <2>4, <2>5, <2>6, <2>7, NodeView
<1>4. l + 1 \in T
  <2>1. T \in SUBSET Nat
    OBVIOUS
  <2>. HIDE DEF T
  <2>. QED BY <1>2, <1>3, <2>1, Induction
<1>5. Len(p) + (l + 1) > l
  BY DEF Strings
<1>. QED BY <1>4, <1>5

-----------------------------------------------------------------------------
(***************************************************************************)
(* Where the nodes of a trie are, and where the proof of a slot ends.      *)
(***************************************************************************)
LEMMA BranchPositions ==
  ASSUME NEW storage, NEW b \in BranchesOf(Held(storage))
  PROVE  /\ b \in PositionsOf(storage)
         /\ \A n \in Children : Below(storage, Append(b, n)) # {} => Append(b, n) \in PositionsOf(storage)
<1>1. Held(storage) # {}
  BY BranchPair DEF Below
<1>2. ASSUME NEW n \in Children, Below(storage, Append(b, n)) # {} PROVE Append(b, n) \in PositionsOf(storage)
  <2>1. \E s \in Held(storage) : IsPrefix(Append(b, n), s)
    BY <1>2 DEF Below
  <2>2. \E c \in BranchesOf(Held(storage)), m \in Children : Append(b, n) = Append(c, m)
    BY Zenon
  <2>. QED BY <1>1, <2>1, <2>2, PositionMembers
<1>. QED BY <1>1, <1>2, PositionMembers

LEMMA PositionHolds ==
  ASSUME NEW storage, NEW p \in PositionsOf(storage)
  PROVE  p \in Strings /\ Below(storage, p) # {}
<1>1. p \in Strings /\ Held(storage) # {}
  BY PositionFacts DEF PositionsOf
<1>2. CASE p = <<>>
  BY <1>1, <1>2, HeldFacts, EmptyPrefix DEF Below
<1>3. CASE p \in BranchesOf(Held(storage))
  BY <1>1, <1>3, BranchPair
<1>4. CASE \E s \in Held(storage) : IsPrefix(p, s)
  BY <1>1, <1>4 DEF Below
<1>5. p = <<>> \/ p \in BranchesOf(Held(storage)) \/ \E s \in Held(storage) : IsPrefix(p, s)
  BY <1>1, PositionMembers
<1>. QED BY <1>1, <1>2, <1>3, <1>4, <1>5

HoldsMany(storage, p) == \E j, k \in Below(storage, p) : j # k

\* Above another position more than one slot is held.
LEMMA PositionsAbove ==
  ASSUME NEW storage, NEW p \in PositionsOf(storage), NEW q \in PositionsOf(storage), IsPrefix(p, q), p # q
  PROVE  HoldsMany(storage, p)
<1>1. p \in Strings /\ q \in Strings /\ Held(storage) # {}
  BY PositionFacts DEF PositionsOf
<1>2. Len(p) \in Nat /\ Len(q) \in Nat /\ Len(p) < Len(q)
  <2>1. Len(p) \in Nat /\ Len(q) \in Nat /\ Len(p) <= Len(q)
    BY <1>1, PrefixFacts DEF Strings
  <2>2. IsPrefix(q, q)
    BY <1>1, PrefixByItems
  <2>3. Len(p) # Len(q)
    BY <1>1, <2>1, <2>2, PrefixesOfOne
  <2>. QED BY <2>1, <2>3
<1>3. ASSUME NEW b \in BranchesOf(Held(storage)), IsPrefix(p, b) PROVE HoldsMany(storage, p)
  <2>1. b \in Strings /\ \E j, k \in Below(storage, b) : j # k
    BY BranchPair
  <2>2. \A s \in Below(storage, b) : s \in Below(storage, p)
    BY <1>1, <1>3, <2>1, HeldFacts, PrefixOfPrefix DEF Below
  <2>. QED BY <2>1, <2>2 DEF HoldsMany
<1>4. q # <<>>
  BY <1>2
<1>5. CASE q \in BranchesOf(Held(storage))
  BY <1>3, <1>5
<1>6. CASE \E b \in BranchesOf(Held(storage)), n \in Children : q = Append(b, n)
  <2>1. PICK b \in BranchesOf(Held(storage)), n \in Children : q = Append(b, n)
    BY <1>6
  <2>2. b \in Strings /\ IsPrefix(b, q) /\ Len(q) = Len(b) + 1 /\ Len(b) \in Nat
    <3>1. b \in Strings /\ Len(b) \in Nat
      BY BranchPair DEF Strings
    <3>. QED BY <2>1, <3>1, ChildString
  <2>3. IsPrefix(p, b)
    <3>1. Len(p) <= Len(b)
      BY <1>2, <2>2
    <3>. QED BY <1>1, <2>2, <3>1, PrefixesOfOne
  <2>. QED BY <1>3, <2>3
<1>. QED BY <1>1, <1>4, <1>5, <1>6, PositionMembers

LEMMA TracedNodes ==
  ASSUME Traced, NEW p \in DOMAIN nodes
  PROVE  /\ p \in Strings /\ p \in PositionsOf(source) /\ nodes[p] = NodeAt(source)[p]
         /\ Held(source) # {} /\ <<>> \in DOMAIN nodes
<1>1. DOMAIN nodes = PositionsOf(source) /\ \A q \in PositionsOf(source) : nodes[q] = NodeAt(source)[q]
  BY DEF Traced, NodesOf
<1>2. Held(source) # {}
  BY <1>1 DEF PositionsOf
<1>. QED BY <1>1, <1>2, PositionFacts

LEMMA EndOfProof ==
  ASSUME Traced, NEW k \in Slots, Held(source) # {}
  PROVE  /\ k \in Strings /\ <<>> \in ProofOf(k)
         /\ End(k) \in ProofOf(k) /\ End(k) \in Strings /\ IsPrefix(End(k), k)
         /\ End(k) \in DOMAIN nodes
         /\ \A p \in ProofOf(k) : Len(p) <= Len(End(k))
<1>1. k \in Strings /\ DOMAIN nodes = PositionsOf(source)
  BY SlotFacts DEF Traced, NodesOf
<1>2. <<>> \in ProofOf(k) /\ ProofOf(k) \subseteq Strings /\ \A p \in ProofOf(k) : IsPrefix(p, k)
  BY <1>1, PositionFacts, EmptyPrefix DEF ProofOf
<1>3. \E p \in ProofOf(k) : \A q \in ProofOf(k) : Len(q) <= Len(p)
  <2>. DEFINE T == {Len(p) : p \in ProofOf(k)}
  <2>1. T \in SUBSET Nat /\ T # {} /\ Len(k) \in Nat /\ \A x \in T : x <= Len(k)
    <3>1. ASSUME NEW p \in ProofOf(k) PROVE Len(p) \in Nat /\ Len(p) <= Len(k)
      BY <1>1, <1>2, PrefixFacts DEF Strings
    <3>2. Len(k) \in Nat
      BY <1>1 DEF Strings
    <3>. QED BY <1>2, <3>1, <3>2
  <2>2. PICK x \in T : \A y \in T : y <= x
    <3>. HIDE DEF T
    <3>. QED BY <2>1, Greatest
  <2>. QED BY <2>2
<1>4. End(k) \in ProofOf(k) /\ \A q \in ProofOf(k) : Len(q) <= Len(End(k))
  BY <1>3 DEF End, Longest
<1>. QED BY <1>1, <1>2, <1>4 DEF ProofOf

\* The place of a slot below the branch its proof ends at is empty.
LEMMA EndIsBranch ==
  ASSUME Traced, NEW k \in Slots, Held(source) # {}, IsBranch(nodes[End(k)]),
         NEW q, q = SubSeq(k, 1, Len(End(k)) + 1)
  PROVE  /\ k \notin Held(source) /\ Below(source, q) = {}
         /\ q \in Strings /\ IsPrefix(q, k) /\ Len(q) = Len(End(k)) + 1
         /\ \E n \in Children : q = Append(End(k), n)
<1>. DEFINE e == End(k)
            n == k[Len(e) + 1]
<1>1. /\ k \in Strings /\ e \in Strings /\ IsPrefix(e, k) /\ e \in DOMAIN nodes
      /\ \A p \in ProofOf(k) : Len(p) <= Len(e)
  BY EndOfProof
<1>2. IsBranchAt(source, e) /\ e \in BranchesOf(Held(source))
  BY <1>1, TracedNodes, TellsBranch DEF IsBranchAt
<1>3. k \notin Held(source)
  BY EndIsLeaf
<1>4. PICK j \in Below(source, e) : j # k
  BY <1>2, BranchPair
<1>5. j \in Slots /\ IsPrefix(e, j)
  BY HeldFacts DEF Below
<1>6. /\ n \in Children /\ Append(e, n) \in Strings
      /\ Len(Append(e, n)) = Len(e) + 1 /\ IsPrefix(Append(e, n), k)
  BY <1>1, <1>4, <1>5, SlotsPart
<1>7. q = Append(e, n)
  <2>1. SubSeq(k, 1, Len(Append(e, n))) = Append(e, n)
    BY <1>1, <1>6, PrefixFacts
  <2>. QED BY <1>6, <2>1
<1>8. Below(source, q) = {}
  <2>1. SUFFICES ASSUME Below(source, q) # {} PROVE FALSE
    OBVIOUS
  <2>. HIDE DEF e, n
  <2>2. q \in DOMAIN nodes
    <3>1. DOMAIN nodes = PositionsOf(source)
      BY DEF Traced, NodesOf
    <3>. QED BY <1>2, <1>6, <1>7, <2>1, <3>1, BranchPositions
  <2>3. q \in ProofOf(k)
    BY <1>6, <1>7, <2>2 DEF ProofOf
  <2>4. Len(q) <= Len(e)
    BY <1>1, <2>3, Zenon
  <2>6. Len(e) \in Nat
    BY <1>1 DEF Strings
  <2>5. Len(q) = Len(e) + 1
    BY <1>6, <1>7
  <2>. QED BY <2>4, <2>5, <2>6
<1>. QED BY <1>3, <1>6, <1>7, <1>8

LEMMA ExtensionIsLonger ==
  ASSUME NEW p \in Strings, NEW e \in Strings, e # <<>>
  PROVE  p \o e \in Strings /\ Len(p \o e) > Len(p)
<1>1. PICK u \in Strings : u = p \o e /\ Len(u) = Len(p) + Len(e) /\ Len(e) \in Nat /\ Len(p) \in Nat
  BY ConcatFacts
<1>2. Len(e) # 0
  BY EmptySeq DEF Strings
<1>3. Len(u) > Len(p)
  BY <1>1, <1>2
<1>. QED BY <1>1, <1>3

\* An extension refers to the branch its nibbles lead to.
LEMMA BelowExtensionIs ==
  ASSUME NEW p \in Strings, NEW e \in Strings, NEW x, nodes[p] = TwoItems(Encoded(0, e), x)
  PROVE  BelowExtension(p) = p \o e
<1>. DEFINE b == Encoded(0, e)
<1>1. nodes[p].path = b
  BY DEF TwoItems
<1>2. /\ GetNibbleArray(b) = e /\ b[1] \notin {2, 3}
      /\ b \in Seq(Int) /\ Len(b) > Len(e) /\ Len(e) \in Nat
  BY NibblesOfEncoded DEF Strings
<1>. HIDE DEF b
<1>3. b # <<>>
  BY <1>2
<1>4. Tail(b) = SubSeq(b, 2, Len(b))
  BY <1>2, <1>3, TailIsSubSeq
<1>5. SubSeq(b, IF b[1] = 1 THEN 2 ELSE 3, Len(b)) = e
  BY <1>2, <1>4 DEF GetNibbleArray
<1>. QED BY <1>1, <1>5 DEF BelowExtension

\* The node of two items at the end of the proof of a slot is its own leaf, that of
\* another slot, or an extension that leads away from it.
LEMMA EndIsPair ==
  ASSUME Traced, NEW k \in Slots, Held(source) # {}, ~IsBranch(nodes[End(k)]),
         NEW e, e = End(k)
  PROVE  \/ k \in Held(source) /\ IsLeafAt(source, e, k)
         \/ k \notin Held(source) /\ \E j \in Held(source) : IsLeafAt(source, e, j)
         \/ k \notin Held(source) /\ \E c \in Strings : IsExtensionAt(source, e, c) /\ ~IsPrefix(e \o c, k)
<1>1. /\ k \in Strings /\ e \in Strings /\ IsPrefix(e, k) /\ e \in DOMAIN nodes
      /\ \A p \in ProofOf(k) : Len(p) <= Len(e)
  BY EndOfProof
<1>2. Below(source, e) # {} /\ nodes[e] = NodeAt(source)[e]
  BY <1>1, TracedNodes, PositionHolds
<1>3. k \in Held(source) => Below(source, e) = {k}
  <2>1. \A j \in Below(source, e) : k \in Held(source) => j = k
    BY EndIsOwn DEF Below
  <2>. QED BY <1>2, <2>1
<1>4. CASE \E j \in Below(source, e) : IsLeafAt(source, e, j)
  <2>1. PICK j \in Below(source, e) : IsLeafAt(source, e, j)
    BY <1>4
  <2>2. j \in Held(source)
    BY DEF Below
  <2>. QED BY <1>3, <2>1, <2>2
<1>5. CASE \E c \in Strings : IsExtensionAt(source, e, c)
  <2>1. PICK c \in Strings : IsExtensionAt(source, e, c)
    BY <1>5
  <2>2. e \o c \in Strings /\ Len(e \o c) > Len(e) /\ e \o c \in BranchesOf(Held(source))
    BY <1>1, <2>1, ExtensionIsLonger DEF IsExtensionAt
  <2>3. e \o c \in DOMAIN nodes
    BY <2>2, BranchPositions DEF Traced, NodesOf
  <2>4. ~IsPrefix(e \o c, k)
    <3>1. SUFFICES ASSUME IsPrefix(e \o c, k) PROVE FALSE
      OBVIOUS
    <3>2. e \o c \in ProofOf(k)
      BY <2>3, <3>1 DEF ProofOf
    <3>3. Len(e \o c) <= Len(e)
      BY <1>1, <3>2
    <3>4. Len(e \o c) \in Nat /\ Len(e) \in Nat
      BY <1>1, <2>2 DEF Strings
    <3>. QED BY <2>2, <3>3, <3>4
  <2>5. k \notin Held(source)
    <3>1. SUFFICES ASSUME k \in Held(source) PROVE FALSE
      OBVIOUS
    <3>2. \E i, j \in Below(source, e \o c) : i # j
      BY <2>2, BranchPair
    <3>3. Below(source, e \o c) \subseteq Below(source, e)
      <4>1. IsPrefix(e, e \o c)
        BY <1>1, ConcatPrefix
      <4>. QED BY <1>1, <2>2, <4>1, HeldFacts, PrefixOfPrefix DEF Below
    <3>. QED BY <1>3, <3>1, <3>2, <3>3
  <2>. QED BY <2>1, <2>4, <2>5
<1>6. ~IsEmptyAt(source, e)
  BY <1>2 DEF IsEmptyAt
<1>7. ~IsBranchAt(source, e)
  BY <1>2, ViewShapes, NodeShapes
<1>. QED BY <1>1, <1>4, <1>5, <1>6, <1>7, NodeView

-----------------------------------------------------------------------------
(***************************************************************************)
(* What computeOldItem returns, for every tree that can be read.           *)
(***************************************************************************)
NextTurn(p, info, n, below) ==
  IF info.reverts THEN info
  ELSE IF p = <<>> THEN OldChildOfRoot(info, n, below)
  ELSE OldChild(p, info, n, below)

TurnFrom(p, start, computed, turn, i) ==
  IF i = 0 THEN start
  ELSE NextTurn(p, turn[i - 1], i - 1, computed[Append(p, i - 1)][turn[i - 1].height])

LEMMA OldTurnsFixpoint ==
  ASSUME NEW p, NEW start, NEW computed
  PROVE  \A i \in 0..BranchSize :
           OldTurns(p, start, computed)[i] = TurnFrom(p, start, computed, OldTurns(p, start, computed), i)
<1>. DEFINE From(turn, i) == TurnFrom(p, start, computed, turn, i)
            T == {m \in Nat : \E f : \A i \in 0..m : f[i] = From(f, i)}
            Solves(turn) == turn = [i \in 0..BranchSize |-> From(turn, i)]
<1>1. \A f, g : \A i \in Nat : (i # 0 => f[i - 1] = g[i - 1]) => From(f, i) = From(g, i)
  BY DEF TurnFrom
<1>2. \A f : From(f, 0) = start
  BY DEF TurnFrom
<1>3. OldTurns(p, start, computed) = CHOOSE turn : Solves(turn)
  BY DEF OldTurns, TurnFrom, NextTurn
<1>. HIDE DEF From
<1>4. 0 \in T
  <2>1. [i \in {0} |-> start][0] = start
    OBVIOUS
  <2>2. \A i \in 0..0 : [j \in {0} |-> start][i] = From([j \in {0} |-> start], i)
    BY <1>2, <2>1
  <2>. QED BY <2>2
<1>5. ASSUME NEW m \in T PROVE m + 1 \in T
  <2>1. m \in Nat
    OBVIOUS
  <2>2. PICK f : \A i \in 0..m : f[i] = From(f, i)
    OBVIOUS
  <2>. DEFINE g == [i \in 0..m + 1 |-> IF i <= m THEN f[i] ELSE From(f, i)]
  <2>3. ASSUME NEW i \in 0..m + 1 PROVE g[i] = From(g, i)
    <3>1. i # 0 => g[i - 1] = f[i - 1]
      BY <2>1
    <3>2. g[i] = From(f, i)
      BY <2>1, <2>2
    <3>. HIDE DEF g
    <3>. QED BY <1>1, <3>1, <3>2
  <2>. HIDE DEF g
  <2>. QED BY <2>1, <2>3
<1>6. BranchSize \in T
  <2>1. T \in SUBSET Nat /\ BranchSize \in Nat
    BY SlotsAssumption
  <2>. HIDE DEF T
  <2>. QED BY <1>4, <1>5, <2>1, Induction
<1>7. PICK f : \A i \in 0..BranchSize : f[i] = From(f, i)
  BY <1>6
<1>8. \E turn : Solves(turn)
  <2>. DEFINE g == [i \in 0..BranchSize |-> f[i]]
  <2>1. ASSUME NEW i \in 0..BranchSize PROVE From(g, i) = From(f, i)
    <3>1. i # 0 => g[i - 1] = f[i - 1]
      BY SlotsAssumption
    <3>. HIDE DEF g
    <3>. QED BY <1>1, <3>1
  <2>2. g = [i \in 0..BranchSize |-> From(g, i)]
    BY <1>7, <2>1
  <2>. HIDE DEF g
  <2>. QED BY <2>2
<1>9. Solves(OldTurns(p, start, computed))
  <2>. HIDE DEF Solves
  <2>. QED BY <1>3, <1>8
<1>. QED BY <1>9 DEF From

\* The loop asks only for what is below an item that is there.
LEMMA TurnIgnores ==
  ASSUME NEW p \in Strings, NEW n \in Children, NEW info, NEW a, NEW b, Append(p, n) \in DOMAIN tree => a = b
  PROVE  NextTurn(p, info, n, a) = NextTurn(p, info, n, b)
<1>1. CASE Append(p, n) \in DOMAIN tree
  BY <1>1
<1>2. CASE Append(p, n) \notin DOMAIN tree
  <2>1. Sent(Append(p, n)).kind = "empty" /\ ~LeafAt(Append(p, n))
    BY <1>2 DEF Sent, LeafAt
  <2>2. p = <<>> => <<n>> = Append(p, n)
    BY DEF Strings
  <2>3. OldChild(p, info, n, a) = OldChild(p, info, n, b)
    BY <2>1 DEF OldChild
  <2>4. p = <<>> => OldChildOfRoot(info, n, a) = OldChildOfRoot(info, n, b)
    BY <2>1, <2>2 DEF OldChildOfRoot
  <2>. QED BY <2>3, <2>4 DEF NextTurn
<1>. QED BY <1>1, <1>2

LEMMA TurnsAgree ==
  ASSUME NEW p \in Strings, NEW start, NEW f, NEW g,
         \A n \in Children : Append(p, n) \in DOMAIN tree => f[Append(p, n)] = g[Append(p, n)]
  PROVE  OldTurns(p, start, f)[BranchSize] = OldTurns(p, start, g)[BranchSize]
<1>. DEFINE a == OldTurns(p, start, f)
            b == OldTurns(p, start, g)
            T == {m \in Nat : m <= BranchSize => a[m] = b[m]}
<1>1. /\ \A i \in 0..BranchSize : a[i] = TurnFrom(p, start, f, a, i)
      /\ \A i \in 0..BranchSize : b[i] = TurnFrom(p, start, g, b, i)
  BY OldTurnsFixpoint
<1>. HIDE DEF a, b
<1>2. BranchSize \in Nat
  BY SlotsAssumption
<1>3. 0 \in T
  BY <1>1, <1>2 DEF TurnFrom
<1>4. ASSUME NEW m \in T PROVE m + 1 \in T
  <2>1. SUFFICES ASSUME m + 1 <= BranchSize PROVE a[m + 1] = b[m + 1]
    OBVIOUS
  <2>2. m \in Children /\ m + 1 \in 0..BranchSize /\ m + 1 # 0 /\ (m + 1) - 1 = m /\ a[m] = b[m]
    BY <1>2, <2>1 DEF Children
  <2>. DEFINE x == f[Append(p, m)][a[m].height]
              y == g[Append(p, m)][a[m].height]
  <2>3. a[m + 1] = NextTurn(p, a[m], m, x) /\ b[m + 1] = NextTurn(p, a[m], m, y)
    BY <1>1, <2>2 DEF TurnFrom
  <2>4. Append(p, m) \in DOMAIN tree => x = y
    BY <2>2
  <2>. HIDE DEF x, y
  <2>. QED BY <2>2, <2>3, <2>4, TurnIgnores
<1>5. BranchSize \in T
  <2>1. T \in SUBSET Nat
    OBVIOUS
  <2>. HIDE DEF T
  <2>. QED BY <1>2, <1>3, <1>4, <2>1, Induction
<1>. QED BY <1>2, <1>5 DEF a, b

\* Items are below slots, and an extension comes with the branch below it.
ItemsAreFound ==
  /\ \A p \in DOMAIN tree : p \in Strings /\ \E s \in Slots : IsPrefix(p, s)
  /\ \A p \in DOMAIN tree : tree[p].kind = "extension" =>
       BelowExtension(p) \in DOMAIN tree /\ Len(BelowExtension(p)) > Len(p)

ItemFrom(computed, p) ==
  [height \in Int |->
     IF tree[p].kind = "extension" THEN OldExtension(p, computed[BelowExtension(p)][height + 1])
     ELSE OldBranch(OldTurns(p, LoopStart(p, height + 1), computed)[BranchSize])]

LEMMA ItemFromLonger ==
  ASSUME ItemsAreFound, NEW p \in DOMAIN tree, NEW f, NEW g,
         \A q \in DOMAIN tree : Len(q) > Len(p) => f[q] = g[q]
  PROVE  ItemFrom(f, p) = ItemFrom(g, p)
<1>1. CASE tree[p].kind = "extension"
  <2>1. f[BelowExtension(p)] = g[BelowExtension(p)]
    BY <1>1 DEF ItemsAreFound
  <2>. QED BY <1>1, <2>1 DEF ItemFrom
<1>2. CASE tree[p].kind # "extension"
  <2>1. p \in Strings
    BY DEF ItemsAreFound
  <2>2. ASSUME NEW n \in Children, Append(p, n) \in DOMAIN tree PROVE f[Append(p, n)] = g[Append(p, n)]
    <3>1. Len(Append(p, n)) > Len(p)
      <4>1. Len(Append(p, n)) = Len(p) + 1 /\ Len(p) \in Nat
        BY <2>1, ChildString DEF Strings
      <4>. QED BY <4>1
    <3>. QED BY <2>2, <3>1
  <2>3. \A start : OldTurns(p, start, f)[BranchSize] = OldTurns(p, start, g)[BranchSize]
    BY <2>1, <2>2, TurnsAgree
  <2>. QED BY <1>2, <2>3 DEF ItemFrom
<1>. QED BY <1>1, <1>2

LEMMA OldItemFixpoint ==
  ASSUME ItemsAreFound
  PROVE  \A p \in DOMAIN tree : OldItem[p] = ItemFrom(OldItem, p)
<1>1. PICK l \in Nat : \A s \in Slots : Len(s) = l
  BY SlotFacts
<1>2. \A p \in DOMAIN tree : Len(p) \in Nat /\ Len(p) <= l
  <2>1. TAKE p \in DOMAIN tree
  <2>2. PICK s \in Slots : p \in Strings /\ IsPrefix(p, s)
    BY DEF ItemsAreFound
  <2>3. s \in Strings /\ Len(s) = l /\ Len(p) \in Nat
    BY <1>1, <2>2, SlotFacts DEF Strings
  <2>. QED BY <2>2, <2>3, PrefixFacts
<1>. DEFINE Defines(f, m) == \A p \in DOMAIN tree : Len(p) + m > l => f[p] = ItemFrom(f, p)
            T == {m \in Nat : \E f : Defines(f, m)}
            Solves(item) == item = [p \in DOMAIN tree |-> ItemFrom(item, p)]
<1>3. OldItem = CHOOSE item : Solves(item)
  BY DEF OldItem, ItemFrom
<1>4. 0 \in T
  <2>1. \A p \in DOMAIN tree : ~(Len(p) + 0 > l)
    BY <1>2
  <2>2. Defines(<<>>, 0)
    BY <2>1
  <2>. QED BY <2>2
<1>5. ASSUME NEW m \in T PROVE m + 1 \in T
  <2>1. PICK f : Defines(f, m)
    OBVIOUS
  <2>. DEFINE g == [p \in DOMAIN tree |-> IF Len(p) + m > l THEN f[p] ELSE ItemFrom(f, p)]
  <2>2. m \in Nat
    OBVIOUS
  <2>3. ASSUME NEW p \in DOMAIN tree, Len(p) + (m + 1) > l PROVE g[p] = ItemFrom(g, p)
    <3>1. \A q \in DOMAIN tree : Len(q) > Len(p) => g[q] = f[q]
      BY <1>2, <2>2, <2>3
    <3>2. g[p] = ItemFrom(f, p)
      <4>1. Len(p) + m > l => f[p] = ItemFrom(f, p)
        BY <2>1
      <4>. QED BY <4>1
    <3>. HIDE DEF g
    <3>3. ItemFrom(g, p) = ItemFrom(f, p)
      BY <3>1, ItemFromLonger
    <3>. QED BY <3>2, <3>3
  <2>4. Defines(g, m + 1)
    <3>. HIDE DEF g
    <3>. QED BY <2>3
  <2>. HIDE DEF g, Defines
  <2>. QED BY <2>2, <2>4
<1>6. l + 1 \in T
  <2>1. T \in SUBSET Nat
    OBVIOUS
  <2>. HIDE DEF T
  <2>. QED BY <1>4, <1>5, <2>1, Induction
<1>7. PICK f : Defines(f, l + 1)
  BY <1>6
<1>8. \A p \in DOMAIN tree : f[p] = ItemFrom(f, p)
  BY <1>2, <1>7
<1>. DEFINE g == [p \in DOMAIN tree |-> f[p]]
<1>9. \E item : Solves(item)
  <2>1. \A q \in DOMAIN tree : g[q] = f[q]
    OBVIOUS
  <2>2. \A p \in DOMAIN tree : ItemFrom(g, p) = ItemFrom(f, p)
    <3>. HIDE DEF g
    <3>. QED BY <2>1, ItemFromLonger
  <2>3. g = [p \in DOMAIN tree |-> ItemFrom(g, p)]
    BY <1>8, <2>2
  <2>. HIDE DEF g
  <2>. QED BY <2>3
<1>10. Solves(OldItem)
  <2>. HIDE DEF Solves
  <2>. QED BY <1>3, <1>9
<1>. QED BY <1>10

-----------------------------------------------------------------------------
(***************************************************************************)
(* What one turn of the loop over a branch does.                           *)
(***************************************************************************)
Fields == {"list", "amount", "index", "values", "unhashed", "height", "reverts"}

IsInfo(info) ==
  /\ DOMAIN info = Fields
  /\ DOMAIN info.list = Children /\ DOMAIN info.values = Children

Put(f, n, x) == [f EXCEPT ![n] = x]

\* What is counted before an item is looked at, and what comes back from it.
Counts(info, new) ==
  /\ DOMAIN new = Fields
  /\ new.list = info.list /\ new.values = info.values /\ new.unhashed = info.unhashed
  /\ new.height = info.height /\ new.reverts = info.reverts

PutsBack(info, n, below, new) ==
  /\ DOMAIN new = Fields
  /\ new.amount = info.amount /\ new.index = info.index
  /\ IF below.type = "REVERT" THEN new.reverts /\ new.list = info.list /\ new.values = info.values
     ELSE /\ new.reverts = info.reverts /\ new.height = below.height
          /\ IF below.type = "HASHED"
             THEN new.list = Put(info.list, n, below.item) /\ new.values = info.values /\ new.unhashed = info.unhashed
             ELSE new.list = info.list /\ new.values = Put(info.values, n, below.item)
                  /\ new.unhashed = info.unhashed \cup {n}

LEMMA PutBackIs ==
  ASSUME NEW info, IsInfo(info), NEW n, NEW below
  PROVE  PutsBack(info, n, below, PutBack(info, n, below))
<1>. DEFINE new == PutBack(info, n, below)
            item == below.item
            height == below.height
<1>1. CASE below.type = "HASHED"
  <2>. DEFINE R == [info EXCEPT !.list[n] = item]
  <2>1. new = [R EXCEPT !.height = height]
    BY <1>1 DEF PutBack
  <2>2. /\ DOMAIN R = Fields /\ R.list = Put(info.list, n, item) /\ R.values = info.values
        /\ R.unhashed = info.unhashed /\ R.amount = info.amount /\ R.index = info.index /\ R.reverts = info.reverts
    <3>. HIDE DEF item
    <3>. QED BY DEF IsInfo, Fields, Put
  <2>. HIDE DEF R, new, height
  <2>3. /\ DOMAIN new = Fields /\ new.list = R.list /\ new.values = R.values /\ new.unhashed = R.unhashed
        /\ new.amount = R.amount /\ new.index = R.index /\ new.reverts = R.reverts /\ new.height = height
    BY <2>1, <2>2 DEF Fields
  <2>. QED BY <1>1, <2>2, <2>3 DEF PutsBack, new, height
<1>2. CASE below.type = "REVERT"
  <2>1. new = [info EXCEPT !.reverts = TRUE]
    BY <1>2 DEF PutBack
  <2>. HIDE DEF new
  <2>2. /\ DOMAIN new = Fields /\ new.amount = info.amount /\ new.index = info.index /\ new.reverts = TRUE
        /\ new.list = info.list /\ new.values = info.values
    BY <2>1 DEF IsInfo, Fields
  <2>. QED BY <1>2, <2>2 DEF PutsBack, new
<1>3. CASE below.type \notin {"HASHED", "REVERT"}
  <2>. DEFINE R == [info EXCEPT !.values[n] = item]
              S == [R EXCEPT !.unhashed = info.unhashed \cup {n}]
  <2>1. new = [S EXCEPT !.height = height]
    BY <1>3 DEF PutBack
  <2>2. /\ DOMAIN R = Fields /\ R.values = Put(info.values, n, item) /\ R.list = info.list
        /\ R.amount = info.amount /\ R.index = info.index /\ R.reverts = info.reverts
    <3>. HIDE DEF item
    <3>. QED BY DEF IsInfo, Fields, Put
  <2>. HIDE DEF R
  <2>3. /\ DOMAIN S = Fields /\ S.values = R.values /\ S.list = R.list /\ S.unhashed = info.unhashed \cup {n}
        /\ S.amount = R.amount /\ S.index = R.index /\ S.reverts = R.reverts
    BY <2>2 DEF Fields
  <2>. HIDE DEF S, new, height
  <2>4. /\ DOMAIN new = Fields /\ new.list = S.list /\ new.values = S.values /\ new.unhashed = S.unhashed
        /\ new.amount = S.amount /\ new.index = S.index /\ new.reverts = S.reverts /\ new.height = height
    BY <2>1, <2>3 DEF Fields
  <2>. QED BY <1>3, <2>2, <2>3, <2>4 DEF PutsBack, new, height
<1>. QED BY <1>1, <1>2, <1>3

IsInner(q) == q \in DOMAIN tree /\ tree[q].kind \notin {"leaf", "empty"}

\* What a turn does to what comes back from the branch, if it does not revert.
Takes(p, info, n, below, new) ==
  LET q == Append(p, n)
  IN  /\ IsInfo(new)
      /\ ~new.reverts =>
           /\ Sent(q).kind = "empty" =>
                /\ new.list = info.list /\ new.values = info.values
                /\ new.unhashed = info.unhashed /\ new.height = info.height
           /\ LeafAt(q) =>
                /\ new.list = Put(info.list, n, RestoreOldValueState(tree[q])) /\ new.values = info.values
                /\ new.unhashed = info.unhashed /\ new.height = info.height
           /\ IsInner(q) =>
                /\ below.type # "REVERT" /\ new.height = below.height
                /\ IF below.type = "HASHED"
                   THEN new.list = Put(info.list, n, below.item) /\ new.values = info.values
                        /\ new.unhashed = info.unhashed
                   ELSE new.list = info.list /\ new.values = Put(info.values, n, below.item)
                        /\ new.unhashed = info.unhashed \cup {n}

Contributes(p, n) ==
  LET q == Append(p, n)
  IN  IF LeafAt(q) THEN RestoreOldValueState(tree[q]) # NoNode ELSE IsPresent(p, n)

\* How a turn counts the children the old branch had.
Tallies(p, info, n, new) ==
  IF Contributes(p, n)
  THEN new.amount = info.amount + 1 /\ (info.index = BranchSize => new.index \in {n, BranchSize})
  ELSE new.amount = info.amount /\ new.index \in {info.index, BranchSize}

LEMMA PutDomain == \A f, n, x : DOMAIN Put(f, n, x) = DOMAIN f
BY DEF Put

LEMMA ItemKinds ==
  ASSUME NEW q
  PROVE  /\ Sent(q).kind = "empty" \/ LeafAt(q) \/ IsInner(q)
         /\ LeafAt(q) => Sent(q).kind # "empty" /\ ~IsInner(q)
         /\ IsInner(q) => Sent(q).kind # "empty" /\ ~LeafAt(q)
         /\ q \in DOMAIN tree => Sent(q) = tree[q]
         /\ q \notin DOMAIN tree => Sent(q).kind = "empty"
<1>1. q \in DOMAIN tree => Sent(q) = tree[q]
  BY DEF Sent
<1>2. q \notin DOMAIN tree => Sent(q).kind = "empty"
  BY DEF Sent
<1>. QED BY <1>1, <1>2 DEF LeafAt, IsInner

LEMMA ChildTurn ==
  ASSUME NEW p, NEW n \in Children, NEW info, IsInfo(info), ~info.reverts, info.amount \in Int, NEW below,
         IsInner(Append(p, n)) => IsPresent(p, n)
  PROVE  /\ Takes(p, info, n, below, OldChild(p, info, n, below))
         /\ Tallies(p, info, n, OldChild(p, info, n, below))
<1>. DEFINE q == Append(p, n)
            present == IsPresent(p, n)
            a == IF present THEN info.amount + 1 ELSE info.amount
            i == IF present /\ info.index = BranchSize THEN n ELSE info.index
            counted == [info EXCEPT !.amount = a, !.index = i]
            old == RestoreOldValueState(tree[q])
            new == OldChild(p, info, n, below)
<1>1. /\ Sent(q).kind = "empty" => new = counted
      /\ LeafAt(q) /\ old # NoNode =>
           new = [counted EXCEPT !.list[n] = old, !.amount = IF present THEN counted.amount ELSE counted.amount + 1]
      /\ LeafAt(q) /\ old = NoNode =>
           new = [counted EXCEPT !.list[n] = old,
                                 !.amount = IF present THEN counted.amount - 1 ELSE counted.amount,
                                 !.index = IF present /\ counted.index = n THEN BranchSize ELSE counted.index]
      /\ IsInner(q) => new = [PutBack(counted, n, below) EXCEPT !.index = n]
  <2>1. /\ LeafAt(q) => Sent(q).kind # "empty"
        /\ IsInner(q) => Sent(q).kind # "empty" /\ ~LeafAt(q)
    BY ItemKinds
  <2>. HIDE DEF q, present, a, i, old
  <2>2. new = CASE Sent(q).kind = "empty" -> counted
                [] LeafAt(q) /\ old # NoNode ->
                     [counted EXCEPT !.list[n] = old, !.amount = IF present THEN @ ELSE @ + 1]
                [] LeafAt(q) /\ old = NoNode ->
                     [counted EXCEPT !.list[n] = old,
                                     !.amount = IF present THEN @ - 1 ELSE @,
                                     !.index = IF present /\ @ = n THEN BranchSize ELSE @]
                [] OTHER -> [PutBack(counted, n, below) EXCEPT !.index = n]
    BY DEF OldChild, q, present, a, i, old
  <2>. HIDE DEF counted, new
  <2>. QED BY <2>1, <2>2
<1>2. Counts(info, counted) /\ counted.amount = a /\ counted.index = i
  <2>. HIDE DEF a, i
  <2>. DEFINE R == [info EXCEPT !.amount = a]
  <2>1. counted = [R EXCEPT !.index = i]
    OBVIOUS
  <2>2. /\ DOMAIN R = Fields /\ R.list = info.list /\ R.values = info.values /\ R.unhashed = info.unhashed
        /\ R.height = info.height /\ R.reverts = info.reverts /\ R.amount = a
    BY DEF IsInfo, Fields
  <2>. HIDE DEF R, counted
  <2>. QED BY <2>1, <2>2 DEF Counts, Fields
<1>3. IsInfo(counted)
  <2>. HIDE DEF counted
  <2>. QED BY <1>2 DEF Counts, IsInfo
<1>4. Contributes(p, n) <=> IF LeafAt(q) THEN old # NoNode ELSE present
  BY DEF Contributes
<1>5. n # BranchSize
  BY SlotsAssumption DEF Children
<1>. HIDE DEF counted, new, q, present, old
<1>6. CASE Sent(q).kind = "empty"
  <2>1. new = counted /\ ~LeafAt(q) /\ ~IsInner(q)
    BY <1>1, <1>6, ItemKinds
  <2>2. Takes(p, info, n, below, new)
    BY <1>2, <1>3, <1>6, <2>1 DEF Takes, Counts, q
  <2>3. Tallies(p, info, n, new)
    BY <1>2, <1>4, <2>1 DEF Tallies
  <2>. QED BY <2>2, <2>3 DEF new
<1>7. CASE LeafAt(q) /\ old # NoNode
  <2>. DEFINE R == [counted EXCEPT !.list[n] = old]
              b == IF present THEN counted.amount ELSE counted.amount + 1
  <2>1. new = [R EXCEPT !.amount = b]
    BY <1>1, <1>7
  <2>2. /\ DOMAIN R = Fields /\ R.list = Put(info.list, n, old) /\ R.values = info.values
        /\ R.unhashed = info.unhashed /\ R.height = info.height /\ R.index = i
    BY <1>2 DEF Counts, Fields, Put
  <2>. HIDE DEF R
  <2>3. /\ DOMAIN new = Fields /\ new.list = R.list /\ new.values = R.values /\ new.amount = b
        /\ new.unhashed = R.unhashed /\ new.height = R.height /\ new.index = R.index
    <3>. HIDE DEF b
    <3>. QED BY <2>1, <2>2 DEF Fields
  <2>4. IsInfo(new)
    BY <2>2, <2>3, PutDomain DEF IsInfo
  <2>5. Takes(p, info, n, below, new)
    <3>1. Sent(q).kind # "empty" /\ ~IsInner(q)
      BY <1>7, ItemKinds
    <3>. QED BY <2>2, <2>3, <2>4, <3>1 DEF Takes, q, old
  <2>6. Tallies(p, info, n, new)
    <3>1. new.amount = info.amount + 1 /\ new.index = i /\ Contributes(p, n)
      BY <1>2, <1>4, <1>7, <2>2, <2>3
    <3>. QED BY <3>1 DEF Tallies
  <2>. QED BY <2>5, <2>6 DEF new
<1>8. CASE LeafAt(q) /\ old = NoNode
  <2>. DEFINE R == [counted EXCEPT !.list[n] = old]
              b == IF present THEN counted.amount - 1 ELSE counted.amount
              c == IF present /\ counted.index = n THEN BranchSize ELSE counted.index
              S == [R EXCEPT !.amount = b]
  <2>1. new = [S EXCEPT !.index = c]
    BY <1>1, <1>8
  <2>2. /\ DOMAIN R = Fields /\ R.list = Put(info.list, n, old) /\ R.values = info.values
        /\ R.unhashed = info.unhashed /\ R.height = info.height
    BY <1>2 DEF Counts, Fields, Put
  <2>. HIDE DEF R
  <2>3. /\ DOMAIN S = Fields /\ S.list = R.list /\ S.values = R.values /\ S.amount = b
        /\ S.unhashed = R.unhashed /\ S.height = R.height
    <3>. HIDE DEF b
    <3>. QED BY <2>2 DEF Fields
  <2>. HIDE DEF S
  <2>4. /\ DOMAIN new = Fields /\ new.list = S.list /\ new.values = S.values /\ new.amount = S.amount
        /\ new.unhashed = S.unhashed /\ new.height = S.height /\ new.index = c
    <3>. HIDE DEF b, c
    <3>. QED BY <2>1, <2>3 DEF Fields
  <2>5. IsInfo(new)
    BY <2>2, <2>3, <2>4, PutDomain DEF IsInfo
  <2>6. Takes(p, info, n, below, new)
    <3>1. Sent(q).kind # "empty" /\ ~IsInner(q)
      BY <1>8, ItemKinds
    <3>. QED BY <2>2, <2>3, <2>4, <2>5, <3>1 DEF Takes, q, old
  <2>7. Tallies(p, info, n, new)
    <3>1. new.amount = info.amount /\ ~Contributes(p, n)
      BY <1>2, <1>4, <1>8, <2>3, <2>4
    <3>2. new.index \in {info.index, BranchSize}
      BY <1>2, <2>4
    <3>. QED BY <3>1, <3>2 DEF Tallies
  <2>. QED BY <2>6, <2>7 DEF new
<1>9. CASE IsInner(q)
  <2>. DEFINE R == PutBack(counted, n, below)
  <2>1. PutsBack(counted, n, below, R)
    BY <1>3, PutBackIs
  <2>2. new = [R EXCEPT !.index = n]
    BY <1>1, <1>9
  <2>. HIDE DEF R
  <2>3. /\ DOMAIN new = Fields /\ new.list = R.list /\ new.values = R.values /\ new.amount = R.amount
        /\ new.unhashed = R.unhashed /\ new.height = R.height /\ new.reverts = R.reverts /\ new.index = n
    BY <2>1, <2>2 DEF PutsBack, Fields
  <2>4. Sent(q).kind # "empty" /\ ~LeafAt(q)
    BY <1>9, ItemKinds
  <2>5. IsInfo(new)
    <3>1. DOMAIN new.list = Children /\ DOMAIN new.values = Children
      BY <1>3, <2>1, <2>3, PutDomain DEF IsInfo, PutsBack
    <3>. QED BY <2>3, <3>1 DEF IsInfo
  <2>6. Takes(p, info, n, below, new)
    <3>1. Counts(info, counted)
      BY <1>2
    <3>. QED BY <2>1, <2>3, <2>4, <2>5, <3>1 DEF Takes, q, Counts, PutsBack
  <2>7. Tallies(p, info, n, new)
    <3>1. present /\ Contributes(p, n)
      BY <1>4, <1>9, <2>4 DEF q, present
    <3>2. new.amount = info.amount + 1
      BY <1>2, <2>1, <2>3, <3>1 DEF PutsBack
    <3>. QED BY <2>3, <3>1, <3>2 DEF Tallies
  <2>. QED BY <2>6, <2>7 DEF new
<1>. QED BY <1>6, <1>7, <1>8, <1>9, ItemKinds DEF q

LEMMA RootTurn ==
  ASSUME NEW n \in Children, NEW info, IsInfo(info), ~info.reverts, NEW below
  PROVE  Takes(<<>>, info, n, below, OldChildOfRoot(info, n, below))
<1>. DEFINE q == <<n>>
            present == IsPresent(<<>>, n)
            a == IF present THEN info.amount + 1 ELSE info.amount
            counted == [info EXCEPT !.amount = a]
            old == RestoreOldValueState(tree[q])
            new == OldChildOfRoot(info, n, below)
            b == IF present THEN counted.amount ELSE counted.amount + 1
            c == IF below.type = "HASHED" THEN n ELSE PutBack(counted, n, below).index
            d == counted.amount - 1
<1>1. Append(<<>>, n) = q
  OBVIOUS
<1>2. /\ Sent(q).kind = "empty" => new = counted
      /\ LeafAt(q) /\ old # NoNode => new = [counted EXCEPT !.list[n] = old, !.index = n, !.amount = b]
      /\ LeafAt(q) /\ old = NoNode =>
           \/ new = [info EXCEPT !.reverts = TRUE]
           \/ new = [counted EXCEPT !.list[n] = old, !.amount = d]
      /\ IsInner(q) => new = [PutBack(counted, n, below) EXCEPT !.index = c]
  <2>1. /\ LeafAt(q) => Sent(q).kind # "empty"
        /\ IsInner(q) => Sent(q).kind # "empty" /\ ~LeafAt(q)
    BY ItemKinds
  <2>. HIDE DEF q, present, a, old
  <2>2. new = CASE Sent(q).kind = "empty" -> counted
                [] LeafAt(q) /\ old # NoNode ->
                     [counted EXCEPT !.list[n] = old, !.index = n, !.amount = IF present THEN @ ELSE @ + 1]
                [] LeafAt(q) /\ old = NoNode ->
                     IF counted.amount = 0 THEN [info EXCEPT !.reverts = TRUE]
                     ELSE [counted EXCEPT !.list[n] = old, !.amount = @ - 1]
                [] OTHER -> [PutBack(counted, n, below) EXCEPT !.index = IF below.type = "HASHED" THEN n ELSE @]
    BY DEF OldChildOfRoot, q, present, a, old
  <2>. HIDE DEF counted, new
  <2>. QED BY <2>1, <2>2
<1>3. Counts(info, counted)
  <2>. HIDE DEF a
  <2>. QED BY DEF IsInfo, Counts, Fields
<1>. HIDE DEF counted, new, q, present, old, b, c, d
<1>4. IsInfo(counted)
  BY <1>3 DEF Counts, IsInfo
<1>5. CASE Sent(q).kind = "empty"
  <2>1. new = counted /\ ~LeafAt(q) /\ ~IsInner(q)
    BY <1>2, <1>5, ItemKinds
  <2>. QED BY <1>1, <1>3, <1>4, <1>5, <2>1 DEF Takes, Counts, new
<1>6. CASE LeafAt(q)
  <2>. DEFINE R == [counted EXCEPT !.list[n] = old]
              S == [R EXCEPT !.index = n]
  <2>1. \/ new = [S EXCEPT !.amount = b]
        \/ new = [R EXCEPT !.amount = d]
        \/ new = [info EXCEPT !.reverts = TRUE]
    BY <1>2, <1>6
  <2>2. /\ DOMAIN R = Fields /\ R.list = Put(info.list, n, old) /\ R.values = info.values
        /\ R.unhashed = info.unhashed /\ R.height = info.height
    BY <1>3 DEF Counts, Fields, Put
  <2>. HIDE DEF R
  <2>3. /\ DOMAIN S = Fields /\ S.list = R.list /\ S.values = R.values
        /\ S.unhashed = R.unhashed /\ S.height = R.height
    BY <2>2 DEF Fields
  <2>. HIDE DEF S
  <2>4. Sent(q).kind # "empty" /\ ~IsInner(q)
    BY <1>6, ItemKinds
  <2>5. CASE new = [info EXCEPT !.reverts = TRUE]
    <3>1. DOMAIN new = Fields /\ new.reverts = TRUE /\ new.list = info.list /\ new.values = info.values
      BY <2>5 DEF IsInfo, Fields
    <3>2. IsInfo(new)
      BY <3>1 DEF IsInfo
    <3>. QED BY <3>1, <3>2 DEF Takes, new
  <2>6. CASE new = [S EXCEPT !.amount = b] \/ new = [R EXCEPT !.amount = d]
    <3>1. /\ DOMAIN new = Fields /\ new.list = R.list /\ new.values = R.values
          /\ new.unhashed = R.unhashed /\ new.height = R.height
      BY <2>2, <2>3, <2>6 DEF Fields
    <3>2. IsInfo(new)
      BY <2>2, <3>1, PutDomain DEF IsInfo
    <3>. QED BY <1>1, <2>2, <2>4, <3>1, <3>2 DEF Takes, new, old
  <2>. QED BY <2>1, <2>5, <2>6
<1>7. CASE IsInner(q)
  <2>. DEFINE R == PutBack(counted, n, below)
  <2>1. PutsBack(counted, n, below, R)
    BY <1>4, PutBackIs
  <2>2. new = [R EXCEPT !.index = c]
    BY <1>2, <1>7
  <2>. HIDE DEF R
  <2>3. /\ DOMAIN new = Fields /\ new.list = R.list /\ new.values = R.values
        /\ new.unhashed = R.unhashed /\ new.height = R.height /\ new.reverts = R.reverts
    BY <2>1, <2>2 DEF PutsBack, Fields
  <2>4. Sent(q).kind # "empty" /\ ~LeafAt(q)
    BY <1>7, ItemKinds
  <2>5. IsInfo(new)
    <3>1. DOMAIN new.list = Children /\ DOMAIN new.values = Children
      BY <1>4, <2>1, <2>3, PutDomain DEF IsInfo, PutsBack
    <3>. QED BY <2>3, <3>1 DEF IsInfo
  <2>. QED BY <1>1, <1>3, <2>1, <2>3, <2>4, <2>5 DEF Takes, Counts, PutsBack, new
<1>. QED BY <1>5, <1>6, <1>7, ItemKinds

\* What a child is after its turn, and before.
Done(p, computed, info, n) ==
  LET q == Append(p, n)
  IN  /\ ~IsInner(q) =>
           /\ n \notin info.unhashed /\ info.values[n] = Sent(q)
           /\ info.list[n] = IF LeafAt(q) THEN RestoreOldValueState(tree[q]) ELSE nodes[p].children[n]
      /\ IsInner(q) =>
           \E height \in Nat :
             /\ computed[q][height].type # "REVERT"
             /\ IF computed[q][height].type = "HASHED"
                THEN n \notin info.unhashed /\ info.values[n] = Sent(q) /\ info.list[n] = computed[q][height].item
                ELSE n \in info.unhashed /\ info.values[n] = computed[q][height].item
                     /\ info.list[n] = nodes[p].children[n]

ToDo(p, info, n) ==
  n \notin info.unhashed /\ info.values[n] = Sent(Append(p, n)) /\ info.list[n] = nodes[p].children[n]

LoopInv(p, start, computed, info, m) ==
  \/ info.reverts
  \/ /\ IsInfo(info) /\ info.height \in Nat /\ info.height >= start
     /\ \A n \in Children : IF n < m THEN Done(p, computed, info, n) ELSE ToDo(p, info, n)

\* One child counts if the amount is one, and the index is no other child then.
TallyInv(p, info, m) ==
  \/ info.reverts
  \/ /\ info.amount \in Nat
     /\ info.amount = 0 => info.index = BranchSize /\ \A n \in Children : n < m => ~Contributes(p, n)
     /\ info.amount = 1 => \E c \in Children :
          info.index \in {c, BranchSize} /\ \A n \in Children : n < m /\ Contributes(p, n) => n = c

\* What comes back from the items below a branch is at their height at least.
Balanced(p, computed) ==
  \A n \in Children, height \in Nat :
    IsInner(Append(p, n)) /\ computed[Append(p, n)][height].type # "REVERT" =>
      computed[Append(p, n)][height].height \in Nat /\ computed[Append(p, n)][height].height >= height

LEMMA LoopStep ==
  ASSUME NEW p, NEW start \in Nat, NEW computed, Balanced(p, computed),
         NEW info, ~info.reverts, NEW m \in Children, LoopInv(p, start, computed, info, m),
         NEW new, Takes(p, info, m, computed[Append(p, m)][info.height], new)
  PROVE  LoopInv(p, start, computed, new, m + 1)
<1>. DEFINE q == Append(p, m)
            below == computed[q][info.height]
<1>1. SUFFICES ASSUME ~new.reverts PROVE LoopInv(p, start, computed, new, m + 1)
  BY DEF LoopInv
<1>2. /\ IsInfo(info) /\ info.height \in Nat /\ info.height >= start
      /\ \A n \in Children : IF n < m THEN Done(p, computed, info, n) ELSE ToDo(p, info, n)
  BY DEF LoopInv
<1>3. m \in Nat /\ Children \subseteq Nat
  BY SlotsAssumption DEF Children
<1>4. IsInfo(new)
  BY DEF Takes
<1>5. /\ new.height \in Nat /\ new.height >= start
      /\ Done(p, computed, new, m)
      /\ \A n \in Children \ {m} : /\ new.list[n] = info.list[n] /\ new.values[n] = info.values[n]
                                   /\ n \in new.unhashed <=> n \in info.unhashed
  <2>1. ToDo(p, info, m)
    BY <1>2, <1>3
  <2>2. \A f, x : DOMAIN f = Children => Put(f, m, x)[m] = x /\ \A n \in Children \ {m} : Put(f, m, x)[n] = f[n]
    BY DEF Put
  <2>3. DOMAIN info.list = Children /\ DOMAIN info.values = Children
    BY <1>2 DEF IsInfo
  <2>4. CASE Sent(q).kind = "empty"
    <3>1. /\ new.list = info.list /\ new.values = info.values
          /\ new.unhashed = info.unhashed /\ new.height = info.height
      BY <1>1, <2>4 DEF Takes
    <3>2. ~IsInner(q) /\ ~LeafAt(q)
      BY <2>4, ItemKinds
    <3>. QED BY <1>2, <2>1, <3>1, <3>2 DEF Done, ToDo
  <2>5. CASE LeafAt(q)
    <3>1. /\ new.list = Put(info.list, m, RestoreOldValueState(tree[q])) /\ new.values = info.values
          /\ new.unhashed = info.unhashed /\ new.height = info.height
      BY <1>1, <2>5 DEF Takes
    <3>2. ~IsInner(q)
      BY <2>5, ItemKinds
    <3>. QED BY <1>2, <2>1, <2>2, <2>3, <2>5, <3>1, <3>2 DEF Done, ToDo
  <2>6. CASE IsInner(q)
    <3>1. /\ below.type # "REVERT" /\ new.height = below.height
          /\ IF below.type = "HASHED"
             THEN new.list = Put(info.list, m, below.item) /\ new.values = info.values
                  /\ new.unhashed = info.unhashed
             ELSE new.list = info.list /\ new.values = Put(info.values, m, below.item)
                  /\ new.unhashed = info.unhashed \cup {m}
      BY <1>1, <2>6 DEF Takes
    <3>2. below.height \in Nat /\ below.height >= info.height
      BY <1>2, <2>6, <3>1 DEF Balanced
    <3>3. new.height \in Nat /\ new.height >= start
      BY <1>2, <3>1, <3>2
    <3>4. Done(p, computed, new, m)
      <4>1. /\ below.type # "REVERT"
            /\ IF below.type = "HASHED"
               THEN m \notin new.unhashed /\ new.values[m] = Sent(q) /\ new.list[m] = below.item
               ELSE m \in new.unhashed /\ new.values[m] = below.item /\ new.list[m] = nodes[p].children[m]
        <5>. HIDE DEF below, q
        <5>. QED BY <2>1, <2>2, <2>3, <3>1 DEF ToDo, q
      <4>. QED BY <1>2, <2>6, <4>1 DEF Done
    <3>5. \A n \in Children \ {m} : /\ new.list[n] = info.list[n] /\ new.values[n] = info.values[n]
                                    /\ n \in new.unhashed <=> n \in info.unhashed
      <4>. HIDE DEF below, q
      <4>. QED BY <2>2, <2>3, <3>1
    <3>. HIDE DEF below, q
    <3>. QED BY <3>3, <3>4, <3>5
  <2>. QED BY <2>4, <2>5, <2>6, ItemKinds
<1>6. ASSUME NEW n \in Children, n < m + 1 PROVE Done(p, computed, new, n)
  <2>1. CASE n = m
    BY <1>5, <2>1
  <2>2. CASE n # m
    <3>1. n < m /\ Done(p, computed, info, n)
      BY <1>2, <1>3, <1>6, <2>2
    <3>2. new.list[n] = info.list[n] /\ new.values[n] = info.values[n] /\ (n \in new.unhashed <=> n \in info.unhashed)
      BY <1>5, <2>2
    <3>. QED BY <3>1, <3>2 DEF Done
  <2>. QED BY <2>1, <2>2
<1>7. ASSUME NEW n \in Children, ~(n < m + 1) PROVE ToDo(p, new, n)
  <2>1. n # m /\ ToDo(p, info, n)
    BY <1>2, <1>3, <1>7
  <2>2. new.list[n] = info.list[n] /\ new.values[n] = info.values[n] /\ (n \in new.unhashed <=> n \in info.unhashed)
    BY <1>5, <2>1
  <2>. QED BY <2>1, <2>2 DEF ToDo
<1>. QED BY <1>1, <1>4, <1>5, <1>6, <1>7 DEF LoopInv

LEMMA TallyStep ==
  ASSUME NEW p, NEW info, NEW m \in Children, ~info.reverts, TallyInv(p, info, m),
         NEW new, Tallies(p, info, m, new)
  PROVE  TallyInv(p, new, m + 1)
<1>1. /\ info.amount \in Nat
      /\ info.amount = 0 => info.index = BranchSize /\ \A n \in Children : n < m => ~Contributes(p, n)
      /\ info.amount = 1 => \E c \in Children :
           info.index \in {c, BranchSize} /\ \A n \in Children : n < m /\ Contributes(p, n) => n = c
  BY DEF TallyInv
<1>2. \A n \in Children : n < m + 1 => n < m \/ n = m
  BY SlotsAssumption DEF Children
<1>3. CASE Contributes(p, m)
  <2>1. new.amount = info.amount + 1 /\ (info.index = BranchSize => new.index \in {m, BranchSize})
    BY <1>3 DEF Tallies
  <2>2. new.amount \in Nat /\ new.amount # 0
    BY <1>1, <2>1
  <2>3. ASSUME new.amount = 1
        PROVE  new.index \in {m, BranchSize} /\ \A n \in Children : n < m + 1 /\ Contributes(p, n) => n = m
    <3>1. info.amount = 0
      BY <1>1, <2>1, <2>3
    <3>. QED BY <1>1, <1>2, <2>1, <3>1
  <2>. QED BY <2>2, <2>3 DEF TallyInv
<1>4. CASE ~Contributes(p, m)
  <2>1. new.amount = info.amount /\ new.index \in {info.index, BranchSize}
    BY <1>4 DEF Tallies
  <2>2. ASSUME new.amount = 0 PROVE new.index = BranchSize /\ \A n \in Children : n < m + 1 => ~Contributes(p, n)
    BY <1>1, <1>2, <1>4, <2>1, <2>2
  <2>3. ASSUME new.amount = 1
        PROVE  \E c \in Children :
                 new.index \in {c, BranchSize} /\ \A n \in Children : n < m + 1 /\ Contributes(p, n) => n = c
    <3>1. PICK c \in Children :
            info.index \in {c, BranchSize} /\ \A n \in Children : n < m /\ Contributes(p, n) => n = c
      BY <1>1, <2>1, <2>3
    <3>2. new.index \in {c, BranchSize}
      BY <2>1, <3>1
    <3>3. \A n \in Children : n < m + 1 /\ Contributes(p, n) => n = c
      BY <1>2, <1>4, <3>1
    <3>. QED BY <3>2, <3>3
  <2>. QED BY <1>1, <2>1, <2>2, <2>3 DEF TallyInv
<1>. QED BY <1>3, <1>4

\* What it starts from.
LEMMA LoopStarts ==
  ASSUME NEW p, NEW start \in Nat, NEW computed, DOMAIN nodes[p].children = Children,
         NEW info, info = LoopStart(p, start)
  PROVE  /\ LoopInv(p, start, computed, info, 0)
         /\ info.amount = 0 /\ info.index = BranchSize /\ info.unhashed = {} /\ ~info.reverts
<1>. DEFINE v == [n \in Children |-> Sent(Append(p, n))]
<1>1. info = [list |-> nodes[p].children, amount |-> 0, index |-> BranchSize, values |-> v, unhashed |-> {},
              height |-> start, reverts |-> FALSE]
  BY DEF LoopStart
<1>. HIDE DEF v
<1>2. /\ DOMAIN info = Fields /\ info.list = nodes[p].children /\ info.amount = 0 /\ info.index = BranchSize
      /\ info.values = v /\ info.unhashed = {} /\ info.height = start /\ ~info.reverts
  BY <1>1 DEF Fields
<1>3. \A n \in Children : ToDo(p, info, n) /\ ~(n < 0)
  BY <1>2, SlotsAssumption DEF ToDo, Children, v
<1>4. IsInfo(info) /\ info.height \in Nat /\ info.height >= start
  BY <1>2 DEF IsInfo, v
<1>. QED BY <1>2, <1>3, <1>4 DEF LoopInv

\* What the loop over a branch comes to.
LEMMA LoopResult ==
  ASSUME NEW p \in Strings, NEW start \in Nat, NEW computed, Balanced(p, computed),
         DOMAIN nodes[p].children = Children,
         \A n \in Children : IsInner(Append(p, n)) => IsPresent(p, n),
         NEW info, info = OldTurns(p, LoopStart(p, start), computed)[BranchSize]
  PROVE  /\ LoopInv(p, start, computed, info, BranchSize)
         /\ p # <<>> => TallyInv(p, info, BranchSize)
<1>. DEFINE turn == OldTurns(p, LoopStart(p, start), computed)
            Inv(m) == /\ LoopInv(p, start, computed, turn[m], m)
                      /\ p # <<>> => TallyInv(p, turn[m], m)
            T == {m \in Nat : m <= BranchSize => Inv(m)}
<1>1. \A i \in 0..BranchSize : turn[i] = TurnFrom(p, LoopStart(p, start), computed, turn, i)
  BY OldTurnsFixpoint
<1>2. BranchSize \in Nat /\ Children = 0..(BranchSize - 1)
  BY SlotsAssumption DEF Children
<1>3. 0 \in T
  <2>. DEFINE s == LoopStart(p, start)
  <2>1. turn[0] = s
    BY <1>1, <1>2 DEF TurnFrom
  <2>2. LoopInv(p, start, computed, s, 0) /\ s.amount = 0 /\ s.index = BranchSize
    BY LoopStarts
  <2>. HIDE DEF s, turn
  <2>3. \A n \in Children : ~(n < 0)
    BY <1>2
  <2>4. TallyInv(p, s, 0)
    BY <2>2, <2>3 DEF TallyInv
  <2>. QED BY <2>1, <2>2, <2>4
<1>4. ASSUME NEW m \in T PROVE m + 1 \in T
  <2>1. SUFFICES ASSUME m + 1 <= BranchSize PROVE Inv(m + 1)
    OBVIOUS
  <2>2. m \in Children /\ m \in Nat /\ m + 1 \in 0..BranchSize /\ m + 1 # 0 /\ (m + 1) - 1 = m /\ Inv(m)
    BY <1>2, <2>1
  <2>. DEFINE was == turn[m]
              below == computed[Append(p, m)][was.height]
              new == turn[m + 1]
  <2>3. new = NextTurn(p, was, m, below)
    BY <1>1, <2>2 DEF TurnFrom
  <2>4. LoopInv(p, start, computed, was, m) /\ (p # <<>> => TallyInv(p, was, m))
    BY <2>2
  <2>5. CASE was.reverts
    <3>1. new = was
      BY <2>3, <2>5 DEF NextTurn
    <3>. HIDE DEF was, new, turn
    <3>. QED BY <2>5, <3>1 DEF LoopInv, TallyInv, new
  <2>6. CASE ~was.reverts
    <3>. HIDE DEF was, new, turn
    <3>1. IsInfo(was)
      BY <2>4, <2>6 DEF LoopInv
    <3>2. CASE p = <<>>
      <4>1. new = OldChildOfRoot(was, m, below)
        BY <2>3, <2>6, <3>2 DEF NextTurn
      <4>2. Takes(<<>>, was, m, below, OldChildOfRoot(was, m, below))
        <5>. HIDE DEF below
        <5>. QED BY <2>2, <2>6, <3>1, RootTurn
      <4>3. LoopInv(p, start, computed, new, m + 1)
        BY <2>2, <2>4, <2>6, <3>2, <4>1, <4>2, LoopStep
      <4>. QED BY <3>2, <4>3 DEF new
    <3>3. CASE p # <<>>
      <4>1. new = OldChild(p, was, m, below)
        BY <2>3, <2>6, <3>3 DEF NextTurn
      <4>2. was.amount \in Int
        BY <2>4, <2>6, <3>3 DEF TallyInv
      <4>3. Takes(p, was, m, below, new) /\ Tallies(p, was, m, new)
        <5>. HIDE DEF below
        <5>. QED BY <2>2, <2>6, <3>1, <4>1, <4>2, ChildTurn
      <4>4. LoopInv(p, start, computed, new, m + 1)
        BY <2>2, <2>4, <2>6, <4>3, LoopStep
      <4>5. TallyInv(p, new, m + 1)
        BY <2>2, <2>4, <2>6, <3>3, <4>3, TallyStep
      <4>. QED BY <4>4, <4>5 DEF new
    <3>. QED BY <3>2, <3>3
  <2>. QED BY <2>5, <2>6
<1>5. BranchSize \in T
  <2>1. T \in SUBSET Nat
    OBVIOUS
  <2>. HIDE DEF T
  <2>. QED BY <1>2, <1>3, <1>4, <2>1, Induction
<1>. QED BY <1>2, <1>5

-----------------------------------------------------------------------------
(***************************************************************************)
(* The tree the client builds, when all it asks for is held by one of the  *)
(* two contracts.                                                          *)
(***************************************************************************)
HeldByOne == Held(source) \cup Held(proxy)

\* The leaf of a slot is what its proof ends in, or an artificial one below that.
Place(k) == IF IsBranch(nodes[End(k)]) THEN SubSeq(k, 1, Len(End(k)) + 1) ELSE End(k)

LeafNode(k) ==
  IF IsBranch(nodes[End(k)])
  THEN TwoItems(Encoded(2, SubSeq(k, Len(End(k)) + 2, Len(k))), ZeroWord)
  ELSE nodes[End(k)]

IsLeafOf(t, p, k) == p = Place(k) /\ t[p] = Leaf(LeafNode(k), k)

IsInnerOf(t, p) ==
  p \in DOMAIN nodes /\ t[p] = Inner(nodes[p]) /\ (HoldsMany(source, p) \/ DOMAIN t = {<<>>})

Assembled(t) ==
  /\ t # <<>> => Held(source) # {} /\ <<>> \in DOMAIN t
  /\ \A p \in DOMAIN t : (\E k \in HeldByOne : IsLeafOf(t, p, k)) \/ IsInnerOf(t, p)

LEMMA WithInnerAssembled ==
  ASSUME Traced, Assembled(tree), NEW ps \in SUBSET DOMAIN nodes, <<>> \in ps, \A p \in ps : HoldsMany(source, p)
  PROVE  Assembled(WithInner(ps)) /\ <<>> \in DOMAIN WithInner(ps)
<1>. DEFINE t == WithInner(ps)
<1>1. /\ DOMAIN t = DOMAIN tree \cup ps
      /\ \A p \in DOMAIN tree : t[p] = tree[p]
      /\ \A p \in ps \ DOMAIN tree : t[p] = Inner(nodes[p])
  BY DEF WithInner
<1>. HIDE DEF t
<1>2. Held(source) # {}
  BY TracedNodes
<1>3. ASSUME NEW p \in DOMAIN t PROVE (\E k \in HeldByOne : IsLeafOf(t, p, k)) \/ IsInnerOf(t, p)
  <2>1. CASE p \in DOMAIN tree
    <3>1. t[p] = tree[p]
      BY <1>1, <2>1
    <3>2. CASE \E k \in HeldByOne : IsLeafOf(tree, p, k)
      BY <3>1, <3>2 DEF IsLeafOf
    <3>3. CASE IsInnerOf(tree, p)
      <4>1. p \in DOMAIN nodes /\ t[p] = Inner(nodes[p]) /\ (HoldsMany(source, p) \/ p = <<>>)
        BY <2>1, <3>1, <3>3 DEF IsInnerOf
      <4>2. HoldsMany(source, p)
        BY <4>1
      <4>. QED BY <4>1, <4>2 DEF IsInnerOf
    <3>. QED BY <2>1, <3>2, <3>3 DEF Assembled
  <2>2. CASE p \in ps \ DOMAIN tree
    <3>1. t[p] = Inner(nodes[p]) /\ HoldsMany(source, p) /\ p \in DOMAIN nodes
      BY <1>1, <2>2
    <3>. QED BY <3>1 DEF IsInnerOf
  <2>. QED BY <1>1, <2>1, <2>2
<1>. QED BY <1>1, <1>2, <1>3 DEF Assembled, t

LEMMA WithLeafAssembled ==
  ASSUME NEW t, Assembled(t), Held(source) # {}, NEW k \in HeldByOne, Place(k) \in Strings,
         NEW entry, entry = Leaf(LeafNode(k), k),
         Place(k) # <<>> => <<>> \in DOMAIN t /\ HoldsMany(source, <<>>)
  PROVE  Assembled(WithLeaf(t, Place(k), entry))
<1>. DEFINE place == Place(k)
            u == WithLeaf(t, place, entry)
<1>1. /\ DOMAIN u = {r \in DOMAIN t : ~IsPrefix(place, r)} \cup {place}
      /\ u[place] = entry
      /\ \A q \in DOMAIN u : q # place => q \in DOMAIN t /\ u[q] = t[q]
  <2>. HIDE DEF place
  <2>. QED BY DEF WithLeaf
<1>. HIDE DEF u
<1>2. <<>> \in DOMAIN u
  <2>1. CASE place = <<>>
    BY <1>1, <2>1
  <2>2. CASE place # <<>>
    <3>1. Len(place) # 0 /\ Len(place) \in Nat /\ Len(<<>>) = 0
      BY <2>2, EmptySeq DEF Strings
    <3>2. ~IsPrefix(place, <<>>)
      BY <3>1, EmptyPrefix, PrefixFacts
    <3>. QED BY <1>1, <2>2, <3>2
  <2>. QED BY <2>1, <2>2
<1>3. ASSUME NEW q \in DOMAIN u PROVE (\E j \in HeldByOne : IsLeafOf(u, q, j)) \/ IsInnerOf(u, q)
  <2>1. CASE q = place
    <3>1. IsLeafOf(u, q, k)
      BY <1>1, <2>1 DEF IsLeafOf
    <3>. QED BY <3>1
  <2>2. CASE q # place
    <3>1. q \in DOMAIN t /\ u[q] = t[q]
      BY <1>1, <2>2
    <3>2. CASE \E j \in HeldByOne : IsLeafOf(t, q, j)
      BY <3>1, <3>2 DEF IsLeafOf
    <3>3. CASE IsInnerOf(t, q)
      <4>1. q \in DOMAIN nodes /\ u[q] = Inner(nodes[q]) /\ (HoldsMany(source, q) \/ q = <<>>)
        BY <3>1, <3>3 DEF IsInnerOf
      <4>2. HoldsMany(source, q)
        BY <2>2, <4>1
      <4>. QED BY <4>1, <4>2 DEF IsInnerOf
    <3>. QED BY <3>1, <3>2, <3>3 DEF Assembled
  <2>. QED BY <2>1, <2>2
<1>. QED BY <1>2, <1>3 DEF Assembled, u

\* On the way to the end of a proof more than one slot is held.
LEMMA ProofsHoldMany ==
  ASSUME Traced, NEW k \in Slots, Held(source) # {}
  PROVE  /\ \A p \in ProofOf(k) \ {End(k)} : HoldsMany(source, p)
         /\ IsBranch(nodes[End(k)]) => HoldsMany(source, End(k))
         /\ ProofOf(k) \subseteq DOMAIN nodes /\ <<>> \in ProofOf(k)
<1>1. /\ k \in Strings /\ End(k) \in Strings /\ IsPrefix(End(k), k) /\ End(k) \in DOMAIN nodes
      /\ \A p \in ProofOf(k) : Len(p) <= Len(End(k))
      /\ <<>> \in ProofOf(k)
  BY EndOfProof
<1>2. ASSUME NEW p \in ProofOf(k) \ {End(k)} PROVE HoldsMany(source, p)
  <2>1. p \in DOMAIN nodes /\ IsPrefix(p, k) /\ Len(p) <= Len(End(k))
    BY <1>1 DEF ProofOf
  <2>2. p \in Strings /\ p \in PositionsOf(source) /\ End(k) \in PositionsOf(source)
    BY <1>1, <2>1, TracedNodes
  <2>3. IsPrefix(p, End(k))
    BY <1>1, <2>1, <2>2, PrefixesOfOne
  <2>. QED BY <2>2, <2>3, PositionsAbove
<1>3. ASSUME IsBranch(nodes[End(k)]) PROVE HoldsMany(source, End(k))
  <2>1. IsBranchAt(source, End(k))
    BY <1>1, <1>3, TracedNodes, TellsBranch
  <2>. QED BY <2>1, BranchPair DEF IsBranchAt, HoldsMany
<1>4. ProofOf(k) \subseteq DOMAIN nodes
  BY DEF ProofOf
<1>. QED BY <1>1, <1>2, <1>3, <1>4

LEMMA PlaceFacts ==
  ASSUME Traced, NEW k \in Slots, Held(source) # {}
  PROVE  /\ Place(k) \in Strings /\ IsPrefix(Place(k), k)
         /\ IsBranch(nodes[End(k)]) => Place(k) # <<>> /\ k \notin Held(source) /\ Below(source, Place(k)) = {}
<1>1. k \in Strings /\ End(k) \in Strings /\ IsPrefix(End(k), k)
  BY EndOfProof
<1>2. CASE IsBranch(nodes[End(k)])
  <2>1. /\ k \notin Held(source) /\ Below(source, Place(k)) = {}
        /\ Place(k) \in Strings /\ IsPrefix(Place(k), k) /\ Len(Place(k)) = Len(End(k)) + 1
    BY <1>2, EndIsBranch DEF Place
  <2>2. Len(End(k)) \in Nat /\ Len(<<>>) = 0
    BY <1>1 DEF Strings
  <2>3. Len(Place(k)) # 0
    BY <2>1, <2>2
  <2>. QED BY <2>1, <2>2, <2>3
<1>3. CASE ~IsBranch(nodes[End(k)])
  BY <1>1, <1>3 DEF Place
<1>. QED BY <1>2, <1>3

LEMMA ProofAssembled ==
  ASSUME Traced, Assembled(tree), NEW k \in HeldByOne, Held(source) # {}
  PROVE  /\ IsBranch(nodes[End(k)]) =>
              /\ Assembled(WithInner(ProofOf(k)))
              /\ Assembled(WithDeletedValue(WithInner(ProofOf(k)), End(k), k))
              /\ End(k) = <<>> /\ tree # <<>> => Assembled(WithDeletedValue(tree, End(k), k))
         /\ ~IsBranch(nodes[End(k)]) /\ ProofOf(k) # {<<>>} =>
              Assembled(WithLeaf(WithInner(ProofOf(k) \ {End(k)}), End(k), Leaf(nodes[End(k)], k)))
<1>0. k \in Slots
  BY HeldFacts DEF HeldByOne
<1>1. /\ \A p \in ProofOf(k) \ {End(k)} : HoldsMany(source, p)
      /\ IsBranch(nodes[End(k)]) => HoldsMany(source, End(k))
      /\ ProofOf(k) \subseteq DOMAIN nodes /\ <<>> \in ProofOf(k)
  BY <1>0, ProofsHoldMany
<1>2. Place(k) \in Strings
  BY <1>0, PlaceFacts
<1>3. ASSUME IsBranch(nodes[End(k)])
      PROVE  /\ Assembled(WithInner(ProofOf(k)))
             /\ Assembled(WithDeletedValue(WithInner(ProofOf(k)), End(k), k))
             /\ End(k) = <<>> /\ tree # <<>> => Assembled(WithDeletedValue(tree, End(k), k))
  <2>1. Assembled(WithInner(ProofOf(k))) /\ <<>> \in DOMAIN WithInner(ProofOf(k)) /\ HoldsMany(source, <<>>)
    <3>1. \A p \in ProofOf(k) : HoldsMany(source, p)
      BY <1>1, <1>3
    <3>. QED BY <1>1, <3>1, WithInnerAssembled
  <2>2. \A t : WithDeletedValue(t, End(k), k) = WithLeaf(t, Place(k), Leaf(LeafNode(k), k))
    BY <1>3 DEF WithDeletedValue, Place, LeafNode
  <2>3. \A t : Assembled(t) /\ <<>> \in DOMAIN t => Assembled(WithLeaf(t, Place(k), Leaf(LeafNode(k), k)))
    BY <1>2, <2>1, WithLeafAssembled
  <2>4. tree # <<>> => <<>> \in DOMAIN tree
    BY DEF Assembled
  <2>. QED BY <2>1, <2>2, <2>3, <2>4
<1>4. ASSUME ~IsBranch(nodes[End(k)]), ProofOf(k) # {<<>>}
      PROVE  Assembled(WithLeaf(WithInner(ProofOf(k) \ {End(k)}), End(k), Leaf(nodes[End(k)], k)))
  <2>1. End(k) # <<>>
    <3>1. SUFFICES ASSUME End(k) = <<>> PROVE \A p \in ProofOf(k) : p = <<>>
      BY <1>1, <1>4
    <3>2. ASSUME NEW p \in ProofOf(k) PROVE p = <<>>
      <4>1. p \in Strings /\ Len(p) <= Len(<<>>)
        BY <1>0, <3>1, EndOfProof, TracedNodes DEF ProofOf
      <4>2. Len(p) \in Nat /\ Len(<<>>) = 0
        BY <4>1 DEF Strings
      <4>. QED BY <4>1, <4>2, EmptySeq DEF Strings
    <3>. QED BY <3>2
  <2>. DEFINE above == ProofOf(k) \ {End(k)}
  <2>2. Assembled(WithInner(above)) /\ <<>> \in DOMAIN WithInner(above) /\ HoldsMany(source, <<>>)
    <3>1. above \in SUBSET DOMAIN nodes /\ <<>> \in above /\ \A p \in above : HoldsMany(source, p)
      BY <1>1, <2>1
    <3>. HIDE DEF above
    <3>. QED BY <3>1, WithInnerAssembled
  <2>3. Place(k) = End(k) /\ LeafNode(k) = nodes[End(k)]
    BY <1>4 DEF Place, LeafNode
  <2>. HIDE DEF above
  <2>4. Assembled(WithLeaf(WithInner(above), Place(k), Leaf(LeafNode(k), k)))
    BY <1>2, <2>2, WithLeafAssembled
  <2>. QED BY <2>3, <2>4 DEF above
<1>. QED BY <1>3, <1>4

CheckedInv ==
  /\ Traced /\ source \in [Slots -> Contents]
  /\ phase \in {"asking", "adding"} /\ NoneAskedInVain =>
       /\ required \subseteq HeldByOne
       /\ recorded = RootOf(proxy) /\ proxy \in [Slots -> Contents]
       /\ Assembled(tree)

LEMMA AssembledThen ==
  ASSUME UNCHANGED <<source, nodes, proxy>>, Assembled(tree')
  PROVE  Assembled(tree)'
<1>1. Held(source)' = Held(source) /\ Held(proxy)' = Held(proxy)
  BY DEF Held
<1>2. \A k : End(k)' = End(k)
  BY DEF End, ProofOf
<1>3. \A k : Place(k)' = Place(k) /\ LeafNode(k)' = LeafNode(k)
  BY <1>2 DEF Place, LeafNode
<1>4. \A p : HoldsMany(source, p)' <=> HoldsMany(source, p)
  BY <1>1 DEF HoldsMany, Below
<1>. QED BY <1>1, <1>3, <1>4 DEF Assembled, IsLeafOf, IsInnerOf, HeldByOne

LEMMA MergeProofAssembled ==
  ASSUME Traced, Assembled(tree), NEW k \in HeldByOne, MergeProof(k), phase' # "failed"
  PROVE  Assembled(tree')
<1>1. CASE ProofOf(k) = {}
  <2>1. tree' = tree
    BY <1>1 DEF MergeProof
  <2>. QED BY <2>1
<1>2. CASE ProofOf(k) # {}
  <2>1. Held(source) # {} /\ k \in Slots
    <3>1. \E p : p \in DOMAIN nodes
      BY <1>2 DEF ProofOf
    <3>. QED BY <3>1, TracedNodes, HeldFacts DEF HeldByOne
  <2>2. /\ IsBranch(nodes[End(k)]) =>
             /\ Assembled(WithInner(ProofOf(k)))
             /\ Assembled(WithDeletedValue(WithInner(ProofOf(k)), End(k), k))
             /\ End(k) = <<>> /\ tree # <<>> => Assembled(WithDeletedValue(tree, End(k), k))
        /\ ~IsBranch(nodes[End(k)]) /\ ProofOf(k) # {<<>>} =>
             Assembled(WithLeaf(WithInner(ProofOf(k) \ {End(k)}), End(k), Leaf(nodes[End(k)], k)))
    BY <2>1, ProofAssembled
  <2>3. Longest(ProofOf(k)) = End(k) /\ End(k) \in ProofOf(k)
    BY <2>1, EndOfProof DEF End
  <2>4. CASE ProofOf(k) # {<<>>}
    <3>1. Descend(k)
      BY <1>2, <2>4 DEF MergeProof
    <3>2. \/ tree' = tree
          \/ IsBranch(nodes[End(k)]) /\ tree' = WithDeletedValue(WithInner(ProofOf(k)), End(k), k)
          \/ /\ ~IsBranch(nodes[End(k)])
             /\ tree' = WithLeaf(WithInner(ProofOf(k) \ {End(k)}), End(k), Leaf(nodes[End(k)], k))
      BY <2>3, <3>1 DEF Descend, Fail
    <3>. QED BY <2>2, <2>4, <3>2
  <2>5. CASE ProofOf(k) = {<<>>}
    <3>1. End(k) = <<>>
      BY <2>3, <2>5
    <3>2. CASE tree = <<>>
      <4>1. FirstNode(k)
        BY <2>5, <3>2 DEF MergeProof
      <4>2. CASE IsBranch(nodes[<<>>])
        <5>1. tree' = WithDeletedValue(WithInner(ProofOf(k)), End(k), k)
          BY <2>5, <3>1, <4>1, <4>2 DEF FirstNode
        <5>. QED BY <2>2, <3>1, <4>2, <5>1
      <4>3. CASE ~IsBranch(nodes[<<>>]) /\ source[k] # ZeroWord
        <5>1. tree' = WithLeaf(tree, <<>>, Leaf(nodes[<<>>], k))
          BY <4>1, <4>3 DEF FirstNode
        <5>2. Place(k) = <<>> /\ LeafNode(k) = nodes[<<>>]
          BY <3>1, <4>3 DEF Place, LeafNode
        <5>3. Assembled(WithLeaf(tree, Place(k), Leaf(LeafNode(k), k)))
          BY <2>1, <5>2, EmptyPrefix, WithLeafAssembled
        <5>. QED BY <5>1, <5>2, <5>3
      <4>4. CASE ~IsBranch(nodes[<<>>]) /\ source[k] = ZeroWord
        <5>. DEFINE t == [p \in {<<>>} |-> [kind |-> "extension"]]
        <5>1. tree' = t
          BY <4>1, <4>4 DEF FirstNode
        <5>2. DOMAIN t = {<<>>} /\ t[<<>>] = Inner(nodes[<<>>])
          BY <4>4 DEF Inner
        <5>3. <<>> \in DOMAIN nodes
          BY <2>5 DEF ProofOf
        <5>. HIDE DEF t
        <5>. QED BY <2>1, <5>1, <5>2, <5>3 DEF Assembled, IsInnerOf
      <4>. QED BY <4>2, <4>3, <4>4
    <3>3. CASE tree # <<>>
      <4>1. RootAgain(k)
        BY <2>5, <3>3 DEF MergeProof
      <4>2. \/ tree' = tree
            \/ IsBranch(nodes[End(k)]) /\ tree' = WithDeletedValue(tree, End(k), k)
        BY <3>1, <4>1 DEF RootAgain, Fail
      <4>. QED BY <2>2, <3>1, <3>3, <4>2
    <3>. QED BY <3>2, <3>3
  <2>. QED BY <2>4, <2>5
<1>. QED BY <1>1, <1>2

LEMMA MergeAdditionalAssembled ==
  ASSUME Traced, Assembled(tree), NEW k \in HeldByOne, MergeAdditional(k)
  PROVE  Assembled(tree')
<1>1. CASE tree' = tree
  BY <1>1
<1>2. CASE tree' # tree
  <2>1. ~(ProofOf(k) \subseteq {<<>>})
    BY <1>2 DEF MergeAdditional
  <2>2. Held(source) # {} /\ k \in Slots
    <3>1. \E p : p \in DOMAIN nodes
      BY <2>1 DEF ProofOf
    <3>. QED BY <3>1, TracedNodes, HeldFacts DEF HeldByOne
  <2>3. \/ IsBranch(nodes[End(k)]) /\ tree' = WithInner(ProofOf(k))
        \/ /\ ~IsBranch(nodes[End(k)])
           /\ tree' = WithLeaf(WithInner(ProofOf(k) \ {End(k)}), End(k), Leaf(nodes[End(k)], k))
    BY <1>2 DEF MergeAdditional, End
  <2>4. ProofOf(k) # {<<>>}
    BY <2>1
  <2>. QED BY <2>2, <2>3, <2>4, ProofAssembled
<1>. QED BY <1>1, <1>2

LEMMA CheckedInit == TreeInit => CheckedInv
<1>. SUFFICES ASSUME TreeInit PROVE CheckedInv
  OBVIOUS
<1>1. /\ Traced /\ source \in [Slots -> Contents] /\ proxy \in [Slots -> Contents]
      /\ recorded = RootOf(proxy) /\ required = {} /\ tree = <<>>
  BY DEF TreeInit, Traced, Contents
<1>2. DOMAIN tree = {}
  BY <1>1
<1>. QED BY <1>1, <1>2 DEF CheckedInv, Assembled

LEMMA CheckedStep == CheckedInv /\ [TreeNext]_treeVars => CheckedInv'
<1>. SUFFICES ASSUME CheckedInv, [TreeNext]_treeVars PROVE CheckedInv'
  OBVIOUS
<1>1. Traced /\ source \in [Slots -> Contents]
  BY DEF CheckedInv
<1>2. UNCHANGED <<source, nodes>>
  BY DEF TreeNext, MergeProof, MergeAdditional, LookForKeys, UpdateStorage, UpdateStorageModified, Rejected, treeVars
<1>3. Traced' /\ source' \in [Slots -> Contents]
  BY <1>1, <1>2 DEF Traced
<1>4. ASSUME UNCHANGED <<source, nodes, proxy, recorded>>, required' \subseteq HeldByOne, Assembled(tree'),
             NoneAskedInVain, phase \in {"asking", "adding"}
      PROVE  CheckedInv'
  <2>1. recorded' = RootOf(proxy)' /\ proxy' \in [Slots -> Contents]
    BY <1>4 DEF CheckedInv
  <2>2. Assembled(tree)'
    BY <1>4, AssembledThen
  <2>3. HeldByOne' = HeldByOne
    BY <1>4 DEF HeldByOne, Held
  <2>. QED BY <1>3, <1>4, <2>1, <2>2, <2>3 DEF CheckedInv
<1>5. ASSUME ~(phase' \in {"asking", "adding"} /\ NoneAskedInVain') PROVE CheckedInv'
  BY <1>3, <1>5 DEF CheckedInv
<1>6. ASSUME UNCHANGED <<source, proxy>>, asked \subseteq asked' PROVE NoneAskedInVain' => NoneAskedInVain
  BY <1>6 DEF NoneAskedInVain, Held
<1>7. ASSUME phase \in {"asking", "adding"}, NoneAskedInVain PROVE required \subseteq HeldByOne /\ Assembled(tree)
  BY <1>7 DEF CheckedInv
<1>8. ASSUME NEW k \in Slots, MergeProof(k), NoneAskedInVain', phase' \in {"asking", "adding"} PROVE CheckedInv'
  <2>1. phase = "asking" /\ asked' = asked \cup {k} /\ UNCHANGED <<source, nodes, proxy, recorded, required>>
    BY <1>8 DEF MergeProof
  <2>2. NoneAskedInVain
    BY <1>6, <1>8, <2>1
  <2>3. k \in HeldByOne
    BY <1>8, <2>1 DEF NoneAskedInVain, HeldByOne, Held
  <2>4. Assembled(tree')
    BY <1>1, <1>7, <1>8, <2>1, <2>2, <2>3, MergeProofAssembled
  <2>. QED BY <1>4, <1>7, <2>1, <2>2, <2>4
<1>9. ASSUME NEW k \in Slots, MergeAdditional(k), NoneAskedInVain' PROVE CheckedInv'
  <2>1. /\ phase = "adding" /\ k \in required /\ required' = required \ {k}
        /\ UNCHANGED <<source, nodes, proxy, recorded, asked>>
    BY <1>9 DEF MergeAdditional
  <2>2. NoneAskedInVain
    BY <1>6, <1>9, <2>1
  <2>3. k \in HeldByOne
    BY <1>7, <2>1, <2>2
  <2>4. Assembled(tree')
    BY <1>1, <1>7, <1>9, <2>1, <2>2, <2>3, MergeAdditionalAssembled
  <2>. QED BY <1>4, <1>7, <2>1, <2>2, <2>4
<1>10. ASSUME LookForKeys, NoneAskedInVain' PROVE CheckedInv'
  <2>1. phase = "asking" /\ UNCHANGED <<source, nodes, proxy, recorded, asked, tree>>
    BY <1>10 DEF LookForKeys
  <2>2. NoneAskedInVain
    BY <1>6, <1>10, <2>1
  <2>3. required' \subseteq HeldByOne
    <3>1. PICK storage \in {source, proxy, [s \in Slots |-> ZeroWord]} : required' = RequiredKeys(Held(storage))
      BY <1>10 DEF LookForKeys
    <3>2. Held([s \in Slots |-> ZeroWord]) = {}
      BY DEF Held
    <3>3. required' \subseteq Held(storage)
      BY <3>1 DEF RequiredKeys
    <3>. QED BY <3>2, <3>3 DEF HeldByOne
  <2>. QED BY <1>4, <1>7, <2>1, <2>2, <2>3
<1>11. ASSUME UpdateStorage \/ UpdateStorageModified \/ Rejected PROVE CheckedInv'
  <2>1. phase' \notin {"asking", "adding"}
    BY <1>11 DEF UpdateStorage, UpdateStorageModified, Rejected
  <2>. QED BY <1>5, <2>1
<1>12. ASSUME UNCHANGED treeVars PROVE CheckedInv'
  <2>1. UNCHANGED <<source, nodes, proxy, recorded, asked, required, tree, phase>>
    BY <1>12 DEF treeVars
  <2>2. NoneAskedInVain' => NoneAskedInVain
    BY <1>6, <2>1
  <2>. QED BY <1>4, <1>5, <1>7, <2>1, <2>2
<1>. QED BY <1>5, <1>8, <1>9, <1>10, <1>11, <1>12 DEF TreeNext

-----------------------------------------------------------------------------
(***************************************************************************)
(* The items of a tree that can be read.                                   *)
(***************************************************************************)
Sendable ==
  /\ Traced /\ source \in [Slots -> Contents] /\ proxy \in [Slots -> Contents]
  /\ Assembled(tree) /\ Readable

LEMMA BranchAtBranch ==
  ASSUME NEW storage, NEW b \in BranchesOf(Held(storage))
  PROVE  IsBranchAt(storage, b)
<1>1. b \in Strings /\ \E j, k \in Below(storage, b) : j # k
  BY BranchPair
<1>2. ~IsEmptyAt(storage, b) /\ \A k : ~IsLeafAt(storage, b, k)
  BY <1>1 DEF IsEmptyAt, IsLeafAt
<1>0. PICK j, k \in Held(storage) : b = LongestCommonPrefix({j, k}) /\ b \notin Held(storage)
  <2>1. b \notin Held(storage) /\ \E j, k \in Held(storage) : b = LongestCommonPrefix({j, k})
    BY BranchMembers
  <2>. QED BY <2>1
<1>3. ASSUME NEW e \in Strings, IsExtensionAt(storage, b, e) PROVE FALSE
  <2>2. j \in Strings /\ k \in Strings /\ Len(j) \in Nat /\ Len(k) \in Nat
    BY HeldFacts DEF Strings
  <2>3. IsPrefix(b, j) /\ IsPrefix(b, k) /\ \A p \in CommonPrefixes({j, k}) : Len(p) <= Len(b)
    <3>1. PICK l \in Nat : Len(j) <= l /\ Len(k) <= l
      BY <2>2
    <3>. QED BY <1>0, <2>2, <3>1, CommonPrefix
  <2>. DEFINE c == b \o e
  <2>4. c \in Strings /\ Len(c) > Len(b) /\ Below(storage, b) \subseteq Below(storage, c)
    BY <1>1, <1>3, ExtensionIsLonger DEF IsExtensionAt
  <2>. HIDE DEF c
  <2>5. IsPrefix(c, j) /\ IsPrefix(c, k)
    BY <2>3, <2>4 DEF Below
  <2>6. c \in CommonPrefixes({j, k})
    <3>1. c = SubSeq(k, 1, Len(c)) /\ Len(c) \in 0..Len(k)
      BY <2>2, <2>4, <2>5, PrefixFacts DEF Strings
    <3>2. c = SubSeq(j, 1, Len(c)) /\ Len(c) \in 0..Len(j)
      BY <2>2, <2>4, <2>5, PrefixFacts DEF Strings
    <3>. QED BY <2>5, <3>1, <3>2 DEF CommonPrefixes, Prefixes
  <2>7. Len(c) <= Len(b) /\ Len(c) \in Nat /\ Len(b) \in Nat
    BY <1>1, <2>3, <2>4, <2>6 DEF Strings
  <2>. QED BY <2>4, <2>7
<1>. QED BY <1>1, <1>2, <1>3, NodeView

\* The node that stands alone at the root does not lead back to it.
LEMMA RootLeadsAway ==
  ASSUME Traced, <<>> \in DOMAIN nodes, ~IsBranch(nodes[<<>>])
  PROVE  BelowExtension(<<>>) # <<>>
<1>1. nodes[<<>>] = NodeAt(source)[<<>>] /\ <<>> \in Strings /\ Below(source, <<>>) # {}
  BY TracedNodes, PositionHolds
<1>2. CASE \E k \in Below(source, <<>>) : IsLeafAt(source, <<>>, k)
  <2>1. PICK k \in Below(source, <<>>) : IsLeafAt(source, <<>>, k)
    BY <1>2
  <2>. DEFINE r == Rest(<<>>, k)
              b == Encoded(2, r)
  <2>2. nodes[<<>>].path = b
    BY <1>1, <2>1 DEF IsLeafAt, TwoItems
  <2>3. r \in Strings /\ Len(r) = Len(k) - 0 /\ Len(k) \in Nat /\ Len(k) >= 2
    <3>1. r \in Strings /\ Len(r) = Len(k) - Len(<<>>) /\ k \in Slots
      BY <1>1, BelowFacts
    <3>2. Len(<<>>) = 0
      OBVIOUS
    <3>3. Len(k) \in Nat /\ Len(k) >= 2
      BY <3>1, SlotFacts DEF Strings
    <3>. HIDE DEF r
    <3>. QED BY <3>1, <3>2, <3>3
  <2>. HIDE DEF r
  <2>4. b \in Seq(Int) /\ Len(b) > Len(r) /\ b[1] \in {2, 3}
    BY <2>3, NibblesOfEncoded
  <2>. HIDE DEF b
  <2>5. Len(b) \in Nat /\ Len(b) >= 3
    BY <2>3, <2>4
  <2>6. SubSeq(b, 3, Len(b)) # <<>>
    <3>1. \A i \in 3..Len(b) : b[i] \in Int
      BY <2>4, <2>5
    <3>0. PICK l \in Nat : l = Len(b) /\ l >= 3
      BY <2>5
    <3>2. Len(SubSeq(b, 3, Len(b))) \in Nat /\ Len(SubSeq(b, 3, Len(b))) = l - 2
      <4>1. b \in Seq(Int) /\ 3 \in Int /\ l \in Int /\ 3 <= l + 1
        BY <2>4, <3>0
      <4>2. Len(SubSeq(b, 3, l)) = l - 3 + 1
        BY <3>0, <3>1, <4>1, SubSeqProperties
      <4>. QED BY <3>0, <4>2
    <3>3. Len(SubSeq(b, 3, Len(b))) # 0
      BY <3>0, <3>2
    <3>4. Len(<<>>) = 0
      OBVIOUS
    <3>. QED BY <3>3, <3>4, Zenon
  <2>7. BelowExtension(<<>>) = <<>> \o SubSeq(b, 3, Len(b))
    <3>1. b[1] # 1
      BY <2>4
    <3>. QED BY <2>2, <3>1 DEF BelowExtension
  <2>8. SubSeq(b, 3, Len(b)) \in Seq(Int)
    <3>1. \A i \in 3..Len(b) : b[i] \in Int
      BY <2>4, <2>5
    <3>. QED BY <2>5, <3>1, SubSeqProperties
  <2>. QED BY <2>6, <2>7, <2>8
<1>3. CASE \E e \in Strings : IsExtensionAt(source, <<>>, e)
  <2>1. PICK e \in Strings : IsExtensionAt(source, <<>>, e)
    BY <1>3
  <2>2. BelowExtension(<<>>) = <<>> \o e
    BY <1>1, <2>1, BelowExtensionIs DEF IsExtensionAt
  <2>3. Len(<<>> \o e) > Len(<<>>)
    BY <1>1, <2>1, ExtensionIsLonger DEF IsExtensionAt
  <2>. QED BY <2>2, <2>3
<1>4. CASE IsBranchAt(source, <<>>)
  BY <1>1, <1>4, ViewShapes, NodeShapes
<1>5. ~IsEmptyAt(source, <<>>)
  BY <1>1 DEF IsEmptyAt
<1>. QED BY <1>1, <1>2, <1>3, <1>4, <1>5, NodeView

LEMMA ItemIs ==
  ASSUME Sendable, NEW p \in DOMAIN tree
  PROVE  /\ LeafAt(p) => \E k \in HeldByOne : IsLeafOf(tree, p, k)
         /\ IsInner(p) => IsInnerOf(tree, p)
         /\ LeafAt(p) \/ IsInner(p)
         /\ Held(source) # {} /\ tree # <<>> /\ <<>> \in DOMAIN tree
<1>1. \A node : Inner(node).kind \in {"branch", "extension"}
  BY DEF Inner
<1>2. IsInnerOf(tree, p) => IsInner(p) /\ ~LeafAt(p)
  BY <1>1 DEF IsInnerOf, IsInner, LeafAt
<1>3. \A k : IsLeafOf(tree, p, k) => LeafAt(p) /\ ~IsInner(p)
  BY DEF IsLeafOf, Leaf, LeafAt, IsInner
<1>4. (\E k \in HeldByOne : IsLeafOf(tree, p, k)) \/ IsInnerOf(tree, p)
  BY DEF Sendable, Assembled
<1>5. tree # <<>>
  BY DEF Sendable, Readable
<1>. QED BY <1>2, <1>3, <1>4, <1>5 DEF Sendable, Assembled

\* What the node of a leaf is, and what is held below its position.
LEMMA LeafFacts ==
  ASSUME Sendable, NEW p, LeafAt(p), NEW k, k = tree[p].key, NEW node, node = tree[p].node
  PROVE  /\ tree[p].kind = "leaf" /\ p \in Strings /\ k \in HeldByOne /\ k \in Slots /\ k \in Strings
         /\ IsPrefix(p, k) /\ p = Place(k) /\ node = LeafNode(k) /\ Held(source) # {}
         /\ \/ /\ k \in Held(source) /\ Below(source, p) = {k}
               /\ node = TwoItems(Encoded(2, Rest(p, k)), source[k])
            \/ /\ k \notin Held(source) /\ Below(source, p) = {} /\ IsBranch(nodes[End(k)])
               /\ node = TwoItems(Encoded(2, Rest(p, k)), ZeroWord)
            \/ /\ k \notin Held(source) /\ ~IsBranch(nodes[End(k)])
               /\ \E j \in Held(source) :
                    Below(source, p) = {j} /\ node = TwoItems(Encoded(2, Rest(p, j)), source[j])
            \/ /\ k \notin Held(source) /\ ~IsBranch(nodes[End(k)])
               /\ \E c \in Strings : \E x :
                    /\ IsExtensionAt(source, p, c) /\ ~IsPrefix(p \o c, k)
                    /\ node = TwoItems(Encoded(0, c), x) /\ x \notin Contents \cup {Garbage}
<1>1. p \in DOMAIN tree /\ tree[p].kind = "leaf"
  BY DEF LeafAt
<1>2. PICK i \in HeldByOne : IsLeafOf(tree, p, i)
  BY <1>1, ItemIs
<1>3. i = k /\ p = Place(k) /\ node = LeafNode(k)
  BY <1>2 DEF IsLeafOf, Leaf
<1>4. k \in HeldByOne /\ k \in Slots /\ k \in Strings /\ Held(source) # {} /\ Traced /\ source \in [Slots -> Contents]
  BY <1>1, <1>2, <1>3, ItemIs, HeldFacts DEF HeldByOne, Sendable
<1>5. /\ p \in Strings /\ IsPrefix(p, k)
      /\ IsBranch(nodes[End(k)]) => k \notin Held(source) /\ Below(source, p) = {}
  BY <1>3, <1>4, PlaceFacts
<1>6. CASE IsBranch(nodes[End(k)])
  <2>1. node = TwoItems(Encoded(2, Rest(p, k)), ZeroWord)
    <3>1. Len(p) = Len(End(k)) + 1 /\ Len(End(k)) \in Nat
      BY <1>3, <1>4, <1>6, EndIsBranch, EndOfProof DEF Place, Strings
    <3>2. Len(p) + 1 = Len(End(k)) + 2
      BY <3>1
    <3>. QED BY <1>3, <1>6, <3>2 DEF LeafNode, Rest
  <2>. QED BY <1>1, <1>3, <1>4, <1>5, <1>6, <2>1
<1>7. CASE ~IsBranch(nodes[End(k)])
  <2>1. p = End(k) /\ node = nodes[p] /\ p \in DOMAIN nodes
    BY <1>3, <1>4, <1>7, EndOfProof DEF Place, LeafNode
  <2>2. node = NodeAt(source)[p]
    BY <1>4, <2>1, TracedNodes
  <2>3. \/ k \in Held(source) /\ IsLeafAt(source, p, k)
        \/ k \notin Held(source) /\ \E j \in Held(source) : IsLeafAt(source, p, j)
        \/ k \notin Held(source) /\ \E c \in Strings : IsExtensionAt(source, p, c) /\ ~IsPrefix(p \o c, k)
    BY <1>4, <1>7, <2>1, EndIsPair
  <2>4. ASSUME NEW c \in Strings, IsExtensionAt(source, p, c)
        PROVE  \E x : node = TwoItems(Encoded(0, c), x) /\ x \notin Contents \cup {Garbage}
    <3>1. p \o c \in PositionsOf(source)
      BY <2>4, BranchPositions DEF IsExtensionAt
    <3>2. NodeAt(source)[p \o c] \notin Contents \cup {Garbage}
      BY <1>4, <3>1, NodesAssumption
    <3>. QED BY <2>2, <2>4, <3>2 DEF IsExtensionAt
  <2>5. \A j : IsLeafAt(source, p, j) => Below(source, p) = {j} /\ node = TwoItems(Encoded(2, Rest(p, j)), source[j])
    BY <2>2 DEF IsLeafAt
  <2>. QED BY <1>1, <1>3, <1>4, <1>5, <1>7, <2>3, <2>4, <2>5
<1>. QED BY <1>6, <1>7

LEMMA InnerFacts ==
  ASSUME Sendable, NEW p, IsInner(p)
  PROVE  /\ p \in Strings /\ p \in DOMAIN nodes /\ nodes[p] = NodeAt(source)[p] /\ HoldsMany(source, p)
         /\ \/ /\ tree[p].kind = "extension"
               /\ \E e \in Strings :
                    /\ IsExtensionAt(source, p, e) /\ BelowExtension(p) = p \o e
                    /\ p \o e \in Strings /\ Len(p \o e) > Len(p) /\ IsInner(p \o e)
            \/ /\ tree[p].kind = "branch" /\ IsBranchAt(source, p)
               /\ nodes[p].children = [n \in Children |-> NodeAt(source)[Append(p, n)]]
               /\ \A n \in Children : IsInner(Append(p, n)) => IsPresent(p, n)
<1>1. p \in DOMAIN tree /\ IsInnerOf(tree, p) /\ <<>> \in DOMAIN tree /\ Traced
  BY ItemIs DEF IsInner, Sendable
<1>2. /\ p \in DOMAIN nodes /\ p \in Strings /\ nodes[p] = NodeAt(source)[p] /\ Below(source, p) # {}
      /\ tree[p].kind = IF IsBranch(nodes[p]) THEN "branch" ELSE "extension"
  BY <1>1, TracedNodes, PositionHolds DEF IsInnerOf, Inner
<1>3. CASE IsBranch(nodes[p])
  <2>1. IsBranchAt(source, p)
    BY <1>2, <1>3, TellsBranch
  <2>2. nodes[p].children = [n \in Children |-> NodeAt(source)[Append(p, n)]]
    <3>. DEFINE x == [n \in Children |-> NodeAt(source)[Append(p, n)]]
    <3>1. nodes[p] = Branch(x)
      BY <1>2, <2>1 DEF IsBranchAt
    <3>. HIDE DEF x
    <3>2. nodes[p].children = x
      BY <3>1 DEF Branch
    <3>. QED BY <3>2 DEF x
  <2>3. ASSUME NEW n \in Children, IsInner(Append(p, n)) PROVE IsPresent(p, n)
    <3>. DEFINE q == Append(p, n)
    <3>1. q \in DOMAIN tree /\ IsInnerOf(tree, q)
      BY <2>3, ItemIs DEF IsInner
    <3>2. q \in Strings /\ Len(q) = Len(p) + 1 /\ Len(p) \in Nat /\ Len(<<>>) = 0
      BY <1>2, ChildString DEF Strings
    <3>3. q # <<>>
      <4>. HIDE DEF q
      <4>. QED BY <3>2
    <3>. HIDE DEF q
    <3>4. HoldsMany(source, q)
      BY <3>1, <3>3 DEF IsInnerOf
    <3>5. NodeAt(source)[q] # NoNode
      BY <3>2, <3>4, TellsEmpty DEF HoldsMany
    <3>. QED BY <2>2, <3>5 DEF IsPresent, q
  <2>4. HoldsMany(source, p)
    BY <2>1, BranchPair DEF IsBranchAt, HoldsMany
  <2>. QED BY <1>2, <1>3, <2>1, <2>2, <2>3, <2>4
<1>4. CASE ~IsBranch(nodes[p])
  <2>1. tree[p].kind = "extension" /\ BelowExtension(p) \in DOMAIN tree
    BY <1>1, <1>2, <1>4 DEF Sendable, Readable
  <2>2. HoldsMany(source, p)
    <3>1. SUFFICES ASSUME DOMAIN tree = {<<>>} PROVE FALSE
      BY <1>1 DEF IsInnerOf
    <3>2. p = <<>> /\ BelowExtension(<<>>) = <<>>
      BY <1>1, <2>1, <3>1
    <3>. QED BY <1>1, <1>2, <1>4, <3>2, RootLeadsAway
  <2>3. PICK e \in Strings : IsExtensionAt(source, p, e)
    <3>1. ~IsEmptyAt(source, p) /\ \A k : ~IsLeafAt(source, p, k)
      BY <2>2 DEF HoldsMany, IsEmptyAt, IsLeafAt
    <3>2. ~IsBranchAt(source, p)
      BY <1>2, <1>4, ViewShapes, NodeShapes
    <3>. QED BY <1>2, <3>1, <3>2, NodeView
  <2>4. BelowExtension(p) = p \o e
    BY <1>2, <2>3, BelowExtensionIs DEF IsExtensionAt
  <2>. DEFINE q == p \o e
  <2>5. q \in Strings /\ Len(q) > Len(p) /\ q \in BranchesOf(Held(source))
    BY <1>2, <2>3, ExtensionIsLonger DEF IsExtensionAt
  <2>. HIDE DEF q
  <2>6. IsInner(q)
    <3>1. SUFFICES ASSUME LeafAt(q) PROVE FALSE
      BY <2>1, <2>4, ItemIs DEF q
    <3>2. \E j, k \in Below(source, q) : j # k
      BY <2>5, BranchPair
    <3>3. IsBranch(NodeAt(source)[q]) /\ IsBranchAt(source, q)
      BY <2>5, BranchAtBranch, ViewShapes, NodeShapes
    <3>4. PICK c \in Strings : \E x : tree[q].node = TwoItems(Encoded(0, c), x) /\ IsExtensionAt(source, q, c)
      <4>1. ~(\E k : Below(source, q) = {k}) /\ Below(source, q) # {}
        BY <3>2
      <4>. QED BY <3>1, <4>1, LeafFacts
    <3>. QED BY <3>3, <3>4, ViewShapes, NodeShapes
  <2>. QED BY <1>2, <2>1, <2>2, <2>3, <2>4, <2>5, <2>6 DEF q
<1>. QED BY <1>3, <1>4

LEMMA SendableItems == Sendable => ItemsAreFound
<1>. SUFFICES ASSUME Sendable PROVE ItemsAreFound
  OBVIOUS
<1>1. ASSUME NEW p \in DOMAIN tree PROVE p \in Strings /\ \E s \in Slots : IsPrefix(p, s)
  <2>1. CASE LeafAt(p)
    BY <2>1, LeafFacts
  <2>2. CASE IsInner(p)
    <3>1. p \in Strings /\ HoldsMany(source, p)
      BY <2>2, InnerFacts
    <3>. QED BY <3>1, HeldFacts DEF HoldsMany, Below
  <2>. QED BY <2>1, <2>2, ItemIs
<1>2. ASSUME NEW p \in DOMAIN tree, tree[p].kind = "extension"
      PROVE  BelowExtension(p) \in DOMAIN tree /\ Len(BelowExtension(p)) > Len(p)
  <2>1. IsInner(p)
    BY <1>2 DEF IsInner
  <2>2. PICK e \in Strings : BelowExtension(p) = p \o e /\ Len(p \o e) > Len(p) /\ IsInner(p \o e)
    BY <1>2, <2>1, InnerFacts
  <2>. QED BY <2>2 DEF IsInner
<1>. QED BY <1>1, <1>2 DEF ItemsAreFound

\* A slot that ends with another word than the source's.
Bad(s) == StoredWords[s] # source[s]
HasLeaf(s) == \E p : LeafAt(p) /\ tree[p].key = s

LEMMA BadFacts ==
  ASSUME Sendable, NEW s \in Slots, Bad(s)
  PROVE  /\ source[s] # proxy[s] /\ s \in HeldByOne
         /\ HasLeaf(s) => s \notin Held(source) /\ ~IsBranch(nodes[End(s)])
<1>. DEFINE leaves == {p \in DOMAIN tree : LeafAt(p) /\ tree[p].key = s}
            leaf == CHOOSE p \in leaves : TRUE
<1>1. StoredWords[s] = IF leaves = {} THEN proxy[s]
                       ELSE IF tree[leaf].node.item \in Contents THEN tree[leaf].node.item ELSE Garbage
  BY DEF StoredWords
<1>2. HasLeaf(s) <=> leaves # {}
  BY DEF HasLeaf, LeafAt
<1>3. source[s] \in Contents /\ ZeroWord \in Contents
  BY DEF Sendable, Contents
<1>4. ASSUME HasLeaf(s)
      PROVE  s \in HeldByOne /\ s \notin Held(source) /\ ~IsBranch(nodes[End(s)])
  <2>1. leaf \in leaves
    <3>. HIDE DEF leaves
    <3>. QED BY <1>2, <1>4
  <2>2. LeafAt(leaf) /\ tree[leaf].key = s
    BY <2>1
  <2>3. leaves # {}
    BY <1>2, <1>4
  <2>. HIDE DEF leaf, leaves
  <2>. DEFINE item == tree[leaf].node.item
  <2>4. item # source[s]
    BY <1>1, <1>3, <2>3 DEF Bad
  <2>5. s \in HeldByOne
    BY <2>2, LeafFacts
  <2>6. \A a, b : TwoItems(a, b).item = b
    BY DEF TwoItems
  <2>7. s \notin Held(source)
    <3>1. SUFFICES ASSUME s \in Held(source) PROVE tree[leaf].node = TwoItems(Encoded(2, Rest(leaf, s)), source[s])
      BY <2>4, <2>6
    <3>. QED BY <2>2, <3>1, LeafFacts
  <2>8. ~IsBranch(nodes[End(s)])
    <3>1. SUFFICES ASSUME IsBranch(nodes[End(s)]) PROVE tree[leaf].node = TwoItems(Encoded(2, Rest(leaf, s)), ZeroWord)
      BY <2>4, <2>6, <2>7 DEF Held
    <3>. QED BY <2>2, <2>7, <3>1, LeafFacts
  <2>. QED BY <2>5, <2>7, <2>8
<1>5. CASE HasLeaf(s)
  BY <1>4, <1>5 DEF HeldByOne, Held
<1>6. CASE ~HasLeaf(s)
  <2>1. source[s] # proxy[s]
    <3>. HIDE DEF leaves, leaf
    <3>. QED BY <1>1, <1>2, <1>6 DEF Bad
  <2>. QED BY <1>6, <2>1 DEF HeldByOne, Held
<1>. QED BY <1>5, <1>6

LEMMA SameGood ==
  ASSUME Sendable, NEW p \in Strings, NodeAt(source)[p] = NodeAt(proxy)[p], NEW s \in Slots, IsPrefix(p, s)
  PROVE  ~Bad(s)
<1>1. source[s] = proxy[s]
  BY SameNodeSameWords
<1>. QED BY <1>1, BadFacts

\* Where a leaf was put back as the proxy has it, no slot ends with a wrong word.
LEMMA LeafGood ==
  ASSUME Sendable, NEW p, LeafAt(p), NodeAt(proxy)[p] = RestoreOldValueState(tree[p]), NEW s \in Slots, IsPrefix(p, s)
  PROVE  ~Bad(s)
<1>. DEFINE k == tree[p].key
            node == tree[p].node
            old == RestoreOldValueState(tree[p])
<1>1. SUFFICES ASSUME Bad(s) PROVE FALSE
  OBVIOUS
<1>2. /\ p \in Strings /\ k \in HeldByOne /\ k \in Slots /\ k \in Strings /\ IsPrefix(p, k) /\ HasLeaf(k)
      /\ \/ /\ k \in Held(source) /\ Below(source, p) = {k}
            /\ node = TwoItems(Encoded(2, Rest(p, k)), source[k])
         \/ /\ k \notin Held(source) /\ Below(source, p) = {} /\ IsBranch(nodes[End(k)])
            /\ node = TwoItems(Encoded(2, Rest(p, k)), ZeroWord)
         \/ /\ k \notin Held(source) /\ ~IsBranch(nodes[End(k)])
            /\ \E j \in Held(source) :
                 Below(source, p) = {j} /\ node = TwoItems(Encoded(2, Rest(p, j)), source[j])
         \/ /\ k \notin Held(source) /\ ~IsBranch(nodes[End(k)])
            /\ \E c \in Strings : \E x :
                 /\ IsExtensionAt(source, p, c) /\ ~IsPrefix(p \o c, k)
                 /\ node = TwoItems(Encoded(0, c), x) /\ x \notin Contents \cup {Garbage}
  BY LeafFacts DEF HasLeaf
<1>3. /\ source[s] # proxy[s] /\ s \in Held(source) \cup Held(proxy)
      /\ HasLeaf(s) => s \notin Held(source) /\ ~IsBranch(nodes[End(s)])
  BY <1>1, BadFacts DEF HeldByOne
<1>4. old = IF proxy[k] = ZeroWord THEN NoNode ELSE TwoItems(node.path, proxy[k])
  BY DEF RestoreOldValueState
<1>5. \A t \in Held(source) : IsPrefix(p, t) => t \in Below(source, p)
  BY DEF Below
<1>6. \A t \in Held(proxy) : IsPrefix(p, t) => t \in Below(proxy, p)
  BY DEF Below
<1>7. \A a, b : TwoItems(a, b).path = a
  BY DEF TwoItems
<1>. HIDE DEF k, node
<1>8. CASE proxy[k] = ZeroWord
  <2>1. Below(proxy, p) = {}
    BY <1>2, <1>4, <1>8, TellsEmpty
  <2>2. k \in Held(source) /\ Below(source, p) = {k}
    BY <1>2, <1>8 DEF HeldByOne, Held
  <2>3. s = k
    BY <1>3, <1>5, <1>6, <2>1, <2>2
  <2>. QED BY <1>2, <1>3, <2>2, <2>3
<1>9. CASE proxy[k] # ZeroWord
  <2>1. NodeAt(proxy)[p] = TwoItems(node.path, proxy[k]) /\ k \in Below(proxy, p)
    BY <1>2, <1>4, <1>6, <1>9 DEF Held
  <2>2. ASSUME NEW t \in Strings, IsPrefix(p, t), node.path = Encoded(2, Rest(p, t)) PROVE Below(proxy, p) = {t}
    <3>1. Rest(p, t) \in Strings /\ p \o Rest(p, t) = t
      BY <1>2, <2>2, PrefixFacts DEF Rest
    <3>. QED BY <1>2, <2>1, <2>2, <3>1, TellsLeaf
  <2>3. CASE k \in Held(source) /\ Below(source, p) = {k} /\ node = TwoItems(Encoded(2, Rest(p, k)), source[k])
    <3>1. Below(proxy, p) = {k}
      BY <1>2, <1>7, <2>2, <2>3
    <3>2. s = k
      BY <1>3, <1>5, <1>6, <2>3, <3>1
    <3>. QED BY <1>2, <1>3, <2>3, <3>2
  <2>4. CASE Below(source, p) = {} /\ IsBranch(nodes[End(k)]) /\ node = TwoItems(Encoded(2, Rest(p, k)), ZeroWord)
    <3>1. Below(proxy, p) = {k}
      BY <1>2, <1>7, <2>2, <2>4
    <3>2. s = k
      BY <1>3, <1>5, <1>6, <2>4, <3>1
    <3>. QED BY <1>2, <1>3, <2>4, <3>2
  <2>5. CASE k \notin Held(source) /\ \E j \in Held(source) :
               Below(source, p) = {j} /\ node = TwoItems(Encoded(2, Rest(p, j)), source[j])
    <3>1. PICK j \in Held(source) : Below(source, p) = {j} /\ node = TwoItems(Encoded(2, Rest(p, j)), source[j])
      BY <2>5
    <3>2. j \in Strings /\ IsPrefix(p, j)
      BY <3>1, HeldFacts DEF Below
    <3>3. Below(proxy, p) = {j}
      BY <1>7, <2>2, <3>1, <3>2
    <3>. QED BY <2>1, <2>5, <3>1, <3>3
  <2>6. CASE \E c \in Strings : \E x : ~IsPrefix(p \o c, k) /\ node = TwoItems(Encoded(0, c), x)
    <3>. PICK c \in Strings : \E x : ~IsPrefix(p \o c, k) /\ node = TwoItems(Encoded(0, c), x)
      BY <2>6
    <3>1. PICK x : ~IsPrefix(p \o c, k) /\ node = TwoItems(Encoded(0, c), x)
      OBVIOUS
    <3>2. NodeAt(proxy)[p] = TwoItems(Encoded(0, c), proxy[k])
      BY <1>7, <2>1, <3>1
    <3>3. IsExtensionAt(proxy, p, c)
      BY <1>2, <3>2, TellsExtension
    <3>. QED BY <2>1, <3>1, <3>3 DEF IsExtensionAt, Below
  <2>. QED BY <1>2, <2>3, <2>4, <2>5, <2>6
<1>. QED BY <1>8, <1>9

\* A leaf that comes back for a branch of which one child was left: what it says of
\* the slots below.
Justified(q, leaf) ==
  /\ \E p : LeafAt(p) /\ tree[p] = leaf /\ IsPrefix(q, p)
  /\ \A s \in Below(source, q) :
       \/ HasLeaf(s)
       \/ leaf.key \notin Held(source) /\ (leaf.node.item = source[s] \/ leaf.node.item \notin Contents)

\* Where such a leaf was put back with the word it is sent with, no slot ends with a
\* wrong word, unless a word moved.
LEMMA RestoredGood ==
  ASSUME Sendable, NoWordMoves, NEW q \in Strings, NEW leaf, Justified(q, leaf), NEW height \in Nat,
         NodeAt(proxy)[q] = RestoreLeafAtPos(leaf, height), NEW s \in Slots, IsPrefix(q, s)
  PROVE  ~Bad(s)
<1>1. SUFFICES ASSUME Bad(s) PROVE FALSE
  OBVIOUS
<1>2. PICK p : LeafAt(p) /\ tree[p] = leaf /\ IsPrefix(q, p)
  BY DEF Justified
<1>. DEFINE k == leaf.key
            item == leaf.node.item
<1>3. /\ source[s] # proxy[s] /\ s \in Held(source) \cup Held(proxy)
      /\ HasLeaf(s) => s \notin Held(source) /\ ~IsBranch(nodes[End(s)])
  BY <1>1, BadFacts DEF HeldByOne
<1>4. /\ p \in Strings /\ k \in HeldByOne /\ k \in Slots /\ k \in Strings /\ IsPrefix(p, k) /\ HasLeaf(k)
      /\ \/ k \in Held(source) /\ item = source[k]
         \/ k \notin Held(source) /\ IsBranch(nodes[End(k)])
         \/ /\ k \notin Held(source)
            /\ (\E j \in Held(source) : Below(source, p) = {j} /\ item = source[j]) \/ item \notin Contents
  <2>1. \A a, b : TwoItems(a, b).item = b
    BY DEF TwoItems
  <2>. QED BY <1>2, <2>1, LeafFacts DEF HasLeaf
<1>5. IsPrefix(q, k)
  BY <1>2, <1>4, PrefixOfPrefix
<1>6. PICK c \in Strings : c = SubSeq(k, height + 1, Len(k))
  <2>1. \A i \in height + 1..Len(k) : k[i] \in Nat
    BY <1>4 DEF Strings
  <2>2. height + 1 \in Int /\ Len(k) \in Int
    BY <1>4 DEF Strings
  <2>. QED BY <2>1, <2>2, SubSeqProperties DEF Strings
<1>7. PICK t : t = q \o c /\ Below(proxy, q) = {t} /\ proxy[t] = item /\ item # ZeroWord
  <2>1. NodeAt(proxy)[q] = TwoItems(Encoded(2, c), item)
    BY <1>6 DEF RestoreLeafAtPos
  <2>. HIDE DEF item
  <2>2. Below(proxy, q) = {q \o c} /\ proxy[q \o c] = item /\ item # ZeroWord
    BY <2>1, TellsLeaf
  <2>. QED BY <2>2
<1>8. t \in Held(proxy) /\ t \in Slots /\ IsPrefix(q, t) /\ item \in Contents
  <2>1. t \in Held(proxy) /\ t \in Slots /\ IsPrefix(q, t)
    BY <1>7, HeldFacts DEF Below
  <2>. QED BY <1>7, <2>1 DEF Sendable
<1>9. \A i \in Slots : IsPrefix(q, i) /\ i # t => proxy[i] = ZeroWord
  BY <1>7 DEF Below, Held
<1>10. \A i \in Slots : source[i] # ZeroWord <=> i \in Held(source)
  BY DEF Held
<1>11. ASSUME NEW to \in Slots, IsPrefix(q, to), to \in Held(source), t \notin Held(source), item = source[to] PROVE FALSE
  <2>1. to # t /\ proxy[to] = ZeroWord /\ source[t] = ZeroWord
    BY <1>8, <1>9, <1>10, <1>11
  <2>2. t \in Changed /\ to \in Changed
    BY <1>7, <1>8, <1>10, <1>11, <2>1 DEF Changed
  <2>3. proxy[t] # source[to]
    BY <2>1, <2>2 DEF NoWordMoves
  <2>. QED BY <1>7, <1>11, <2>3
<1>12. k \notin Held(source) => k = t
  BY <1>4, <1>5, <1>7 DEF HeldByOne, Below
<1>. HIDE DEF k, item
<1>13. CASE s \in Held(source)
  <2>1. ~HasLeaf(s) /\ s \in Below(source, q)
    BY <1>3, <1>13 DEF Below
  <2>2. k \notin Held(source) /\ (item = source[s] \/ item \notin Contents)
    BY <2>1 DEF Justified, k, item
  <2>. QED BY <1>8, <1>11, <1>12, <1>13, <2>2
<1>14. CASE s \notin Held(source)
  <2>1. s = t
    BY <1>3, <1>7, <1>14 DEF Below
  <2>2. k \notin Held(source)
    <3>1. SUFFICES ASSUME k \in Held(source) PROVE FALSE
      OBVIOUS
    <3>. QED BY <1>4, <1>5, <1>11, <1>14, <2>1, <3>1
  <2>3. k = s /\ ~IsBranch(nodes[End(k)])
    BY <1>3, <1>4, <1>12, <2>1, <2>2
  <2>4. PICK j \in Held(source) : Below(source, p) = {j} /\ item = source[j]
    BY <1>4, <1>8, <2>2, <2>3
  <2>5. j \in Slots /\ IsPrefix(q, j)
    <3>1. j \in Slots /\ j \in Strings /\ IsPrefix(p, j)
      BY <2>4, HeldFacts DEF Below
    <3>. QED BY <1>2, <1>4, <3>1, PrefixOfPrefix
  <2>. QED BY <1>11, <1>14, <2>1, <2>4, <2>5
<1>. QED BY <1>13, <1>14

LEMMA ReturnedFields ==
  \A type, item, height :
    /\ Returned(type, item, height).type = type
    /\ Returned(type, item, height).item = item
    /\ Returned(type, item, height).height = height
BY DEF Returned

LEMMA OldExtensionIs ==
  ASSUME NEW p, NEW below
  PROVE  LET r == OldExtension(p, below)
         IN  \/ /\ below.type = "HASHED" /\ r.type = "HASHED"
                /\ r.item = TwoItems(nodes[p].path, below.item) /\ r.height = below.height - 1
             \/ r.type = "REVERT"
             \/ below.type # "REVERT" /\ r.type = "BRANCH" /\ r.item.kind = "empty" /\ r.height = below.height
<1>1. CASE below.type = "HASHED"
  <2>1. OldExtension(p, below) = Returned("HASHED", TwoItems(nodes[p].path, below.item), below.height - 1)
    BY <1>1 DEF OldExtension
  <2>. QED BY <1>1, <2>1, ReturnedFields
<1>2. CASE below.type = "REVERT"
  BY <1>2 DEF OldExtension
<1>3. CASE below.type \notin {"HASHED", "REVERT"}
  <2>1. OldExtension(p, below) = Returned("BRANCH", [kind |-> "empty"], below.height)
    BY <1>3 DEF OldExtension
  <2>. QED BY <1>3, <2>1, ReturnedFields
<1>. QED BY <1>1, <1>2, <1>3

\* A child of the old branch as it is hashed at last.
OldItemOf(info, n) ==
  IF n \in info.unhashed /\ info.values[n].kind = "leaf"
  THEN RestoreLeafAtPos(info.values[n], info.height) ELSE info.list[n]

LEMMA OldBranchIs ==
  ASSUME NEW info
  PROVE  LET r == OldBranch(info)
         IN  \/ r.type = "REVERT"
             \/ /\ ~info.reverts /\ info.amount = 1 /\ info.index < BranchSize
                /\ r.type = "LEAF" /\ r.item = info.values[info.index] /\ r.height = info.height - 1
             \/ /\ ~info.reverts /\ r.type = "HASHED" /\ r.height = info.height - 1
                /\ r.item = Branch([n \in Children |-> OldItemOf(info, n)])
<1>. DEFINE leaves == {n \in info.unhashed : info.values[n].kind = "leaf"}
            single == info.amount = 1 /\ info.index < BranchSize
            bad == \E n \in info.unhashed : info.values[n].kind = "empty"
            f == [n \in Children |-> IF n \in leaves THEN RestoreLeafAtPos(info.values[n], info.height)
                                     ELSE info.list[n]]
            r == OldBranch(info)
<1>1. r = CASE info.reverts -> Returned("REVERT", NoNode, 0)
            [] ~info.reverts /\ single -> Returned("LEAF", info.values[info.index], info.height - 1)
            [] ~info.reverts /\ ~single /\ bad -> Returned("REVERT", NoNode, 0)
            [] OTHER -> Returned("HASHED", Branch(f), info.height - 1)
  BY DEF OldBranch
<1>2. f = [n \in Children |-> OldItemOf(info, n)]
  BY DEF OldItemOf
<1>. HIDE DEF r, f, single, bad
<1>3. \/ r = Returned("REVERT", NoNode, 0)
      \/ ~info.reverts /\ single /\ r = Returned("LEAF", info.values[info.index], info.height - 1)
      \/ ~info.reverts /\ r = Returned("HASHED", Branch(f), info.height - 1)
  BY <1>1
<1>4. CASE r = Returned("REVERT", NoNode, 0)
  BY <1>4, ReturnedFields DEF r
<1>5. CASE ~info.reverts /\ single /\ r = Returned("LEAF", info.values[info.index], info.height - 1)
  <2>1. r.type = "LEAF" /\ r.item = info.values[info.index] /\ r.height = info.height - 1
    BY <1>5, ReturnedFields
  <2>. QED BY <1>5, <2>1 DEF single, r
<1>6. CASE ~info.reverts /\ r = Returned("HASHED", Branch(f), info.height - 1)
  <2>1. r.type = "HASHED" /\ r.item = Branch(f) /\ r.height = info.height - 1
    BY <1>6, ReturnedFields
  <2>. QED BY <1>2, <1>6, <2>1 DEF r
<1>. QED BY <1>3, <1>4, <1>5, <1>6

\* What computeOldItem returns is at its height at least; a leaf is justified; what is
\* hashed to the node the proxy has leaves no slot with a wrong word.
Claims(q) ==
  \A height \in Nat :
    LET r == OldItem[q][height]
    IN  r.type # "REVERT" =>
          /\ r.height \in Nat /\ r.height >= height
          /\ r.type # "HASHED" /\ r.item.kind = "leaf" => Justified(q, r.item)
          /\ r.type = "HASHED" /\ r.item = NodeAt(proxy)[q] => \A s \in Slots : IsPrefix(q, s) => ~Bad(s)

\* The children of a branch that comes out as the proxy has it.
LEMMA ChildGood ==
  ASSUME Sendable, NoWordMoves, NEW p \in Strings, NEW n \in Children, NEW q, q = Append(p, n),
         nodes[p].children[n] = NodeAt(source)[q], IsInner(q) => Claims(q),
         NEW info, info.height \in Nat, Done(p, OldItem, info, n),
         NodeAt(proxy)[q] \in {info.list[n], OldItemOf(info, n)},
         NEW s \in Slots, IsPrefix(q, s)
  PROVE  ~Bad(s)
<1>1. q \in Strings
  BY ChildString
<1>2. CASE NodeAt(proxy)[q] = NodeAt(source)[q]
  BY <1>1, <1>2, SameGood
<1>3. CASE LeafAt(q)
  <2>1. ~IsInner(q)
    BY <1>3, ItemKinds
  <2>2. n \notin info.unhashed /\ info.list[n] = RestoreOldValueState(tree[q])
    BY <1>3, <2>1 DEF Done
  <2>3. NodeAt(proxy)[q] = RestoreOldValueState(tree[q])
    BY <2>2 DEF OldItemOf
  <2>. QED BY <1>3, <2>3, LeafGood
<1>4. CASE ~LeafAt(q) /\ ~IsInner(q)
  <2>1. n \notin info.unhashed /\ info.list[n] = NodeAt(source)[q]
    BY <1>4 DEF Done
  <2>. QED BY <1>2, <2>1 DEF OldItemOf
<1>5. CASE IsInner(q)
  <2>1. PICK height \in Nat :
          /\ OldItem[q][height].type # "REVERT"
          /\ IF OldItem[q][height].type = "HASHED"
             THEN n \notin info.unhashed /\ info.list[n] = OldItem[q][height].item
             ELSE n \in info.unhashed /\ info.values[n] = OldItem[q][height].item
                  /\ info.list[n] = nodes[p].children[n]
    BY <1>5 DEF Done
  <2>2. CASE OldItem[q][height].type = "HASHED"
    <3>1. NodeAt(proxy)[q] = OldItem[q][height].item
      BY <2>1, <2>2 DEF OldItemOf
    <3>. QED BY <1>5, <2>2, <3>1 DEF Claims
  <2>3. CASE OldItem[q][height].type # "HASHED"
    <3>. DEFINE leaf == OldItem[q][height].item
    <3>1. CASE NodeAt(proxy)[q] = info.list[n]
      BY <1>2, <2>1, <2>3, <3>1
    <3>2. CASE NodeAt(proxy)[q] # info.list[n]
      <4>1. NodeAt(proxy)[q] = RestoreLeafAtPos(leaf, info.height) /\ leaf.kind = "leaf"
        BY <2>1, <2>3, <3>2 DEF OldItemOf
      <4>2. Justified(q, leaf)
        BY <1>5, <2>1, <2>3, <4>1 DEF Claims
      <4>. HIDE DEF leaf
      <4>. QED BY <1>1, <4>1, <4>2, RestoredGood
    <3>. QED BY <3>1, <3>2
  <2>. QED BY <2>2, <2>3
<1>. QED BY <1>3, <1>4, <1>5

LEMMA BranchGood ==
  ASSUME Sendable, NoWordMoves, NEW p \in Strings, IsBranchAt(source, p),
         nodes[p].children = [n \in Children |-> NodeAt(source)[Append(p, n)]],
         \A n \in Children : IsInner(Append(p, n)) => Claims(Append(p, n)),
         NEW info, info.height \in Nat, \A n \in Children : Done(p, OldItem, info, n),
         NEW g, \A n \in Children : g[n] \in {info.list[n], OldItemOf(info, n)},
         NodeAt(proxy)[p] = Branch(g), NEW s \in Slots, IsPrefix(p, s)
  PROVE  ~Bad(s)
<1>. DEFINE x == [n \in Children |-> NodeAt(proxy)[Append(p, n)]]
<1>1. IsBranchAt(proxy, p)
  <2>1. IsBranch(NodeAt(proxy)[p])
    BY NodeShapes
  <2>. QED BY <2>1, TellsBranch
<1>2. g = x
  <2>1. Branch(g) = Branch(x)
    BY <1>1 DEF IsBranchAt
  <2>. HIDE DEF x
  <2>. QED BY <2>1, NodeShapes
<1>3. PICK n \in Children : IsPrefix(Append(p, n), s)
  BY BelowChild DEF IsBranchAt
<1>4. nodes[p].children[n] = NodeAt(source)[Append(p, n)] /\ g[n] = NodeAt(proxy)[Append(p, n)]
  BY <1>2
<1>5. NodeAt(proxy)[Append(p, n)] \in {info.list[n], OldItemOf(info, n)}
  BY <1>4
<1>6. Done(p, OldItem, info, n) /\ (IsInner(Append(p, n)) => Claims(Append(p, n)))
  OBVIOUS
<1>. DEFINE q == Append(p, n)
<1>7. /\ q = Append(p, n) /\ nodes[p].children[n] = NodeAt(source)[q] /\ IsPrefix(q, s)
      /\ NodeAt(proxy)[q] \in {info.list[n], OldItemOf(info, n)} /\ (IsInner(q) => Claims(q))
  BY <1>3, <1>4, <1>5, <1>6
<1>. HIDE DEF q, x
<1>. QED BY <1>6, <1>7, ChildGood

LEMMA LeafJustified ==
  ASSUME Sendable, NEW q, LeafAt(q)
  PROVE  Justified(q, tree[q])
<1>. DEFINE leaf == tree[q]
<1>1. IsPrefix(q, q)
  BY LeafFacts, PrefixByItems
<1>2. ASSUME NEW s \in Below(source, q)
      PROVE  \/ HasLeaf(s)
             \/ leaf.key \notin Held(source) /\ (leaf.node.item = source[s] \/ leaf.node.item \notin Contents)
  <2>1. \A a, b : TwoItems(a, b).item = b
    BY DEF TwoItems
  <2>2. \/ Below(source, q) = {leaf.key}
        \/ leaf.key \notin Held(source) /\ \E j \in Held(source) : Below(source, q) = {j} /\ leaf.node.item = source[j]
        \/ leaf.key \notin Held(source) /\ leaf.node.item \notin Contents
    BY <1>2, <2>1, LeafFacts
  <2>. QED BY <1>2, <2>2 DEF HasLeaf
<1>. QED BY <1>1, <1>2 DEF Justified

\* The child that is left is a leaf that says what was below the branch.
LEMMA SingleJustified ==
  ASSUME Sendable, NEW p \in Strings, IsBranchAt(source, p),
         nodes[p].children = [n \in Children |-> NodeAt(source)[Append(p, n)]],
         \A n \in Children : IsInner(Append(p, n)) => Claims(Append(p, n)),
         NEW info, \A n \in Children : Done(p, OldItem, info, n),
         NEW c \in Children, \A n \in Children : Contributes(p, n) => n = c,
         info.values[c].kind = "leaf"
  PROVE  Justified(p, info.values[c])
<1>. DEFINE leaf == info.values[c]
            q == Append(p, c)
            Told(s) == \/ HasLeaf(s)
                       \/ leaf.key \notin Held(source) /\ (leaf.node.item = source[s] \/ leaf.node.item \notin Contents)
<1>1. Done(p, OldItem, info, c) /\ (IsInner(q) => Claims(q))
  OBVIOUS
<1>2. q \in Strings /\ IsPrefix(p, q)
  BY ChildString
<1>. HIDE DEF q
<1>3. Justified(q, leaf)
  <2>1. CASE ~IsInner(q)
    <3>1. leaf = Sent(q)
      BY <1>1, <2>1 DEF Done, q
    <3>2. LeafAt(q) /\ leaf = tree[q]
      <4>1. LeafAt(q)
        BY <2>1, <3>1, ItemKinds
      <4>2. Sent(q) = tree[q]
        BY <4>1 DEF Sent, LeafAt
      <4>. QED BY <3>1, <4>1, <4>2
    <3>. QED BY <3>2, LeafJustified
  <2>2. CASE IsInner(q)
    <3>1. PICK height \in Nat :
            /\ OldItem[q][height].type # "REVERT"
            /\ IF OldItem[q][height].type = "HASHED" THEN leaf = Sent(q) ELSE leaf = OldItem[q][height].item
      BY <1>1, <2>2 DEF Done, q
    <3>2. Sent(q).kind # "leaf"
      BY <2>2 DEF IsInner, Sent
    <3>. QED BY <1>1, <2>2, <3>1, <3>2 DEF Claims
  <2>. QED BY <2>1, <2>2
<1>4. \E l : LeafAt(l) /\ tree[l] = leaf /\ IsPrefix(p, l)
  <2>1. PICK l : LeafAt(l) /\ tree[l] = leaf /\ IsPrefix(q, l)
    BY <1>3 DEF Justified
  <2>2. l \in Strings
    BY <2>1, LeafFacts
  <2>. QED BY <1>2, <2>1, <2>2, PrefixOfPrefix
<1>5. ASSUME NEW s \in Below(source, p) PROVE Told(s)
  <2>1. PICK n \in Children : Append(p, n) \in Strings /\ IsPrefix(Append(p, n), s)
    BY BelowFacts, BelowChild DEF IsBranchAt
  <2>2. s \in Below(source, Append(p, n))
    BY <1>5, <2>1 DEF Below
  <2>3. CASE n = c
    BY <1>3, <2>2, <2>3 DEF Justified, q
  <2>4. CASE n # c
    <3>. DEFINE b == Append(p, n)
    <3>1. ~Contributes(p, n)
      BY <2>4
    <3>2. CASE LeafAt(b)
      <4>1. RestoreOldValueState(tree[b]) = NoNode
        BY <3>1, <3>2 DEF Contributes
      <4>2. proxy[tree[b].key] = ZeroWord
        BY <4>1, NodeShapes DEF RestoreOldValueState
      <4>. HIDE DEF b
      <4>3. tree[b].key \in Held(source) /\ Below(source, b) = {tree[b].key}
        BY <3>2, <4>2, LeafFacts DEF HeldByOne, Held
      <4>4. s = tree[b].key
        BY <2>2, <4>3 DEF b
      <4>. QED BY <3>2, <4>4 DEF HasLeaf
    <3>3. CASE ~LeafAt(b)
      <4>1. NodeAt(source)[b] = NoNode
        BY <3>1, <3>3 DEF Contributes, IsPresent
      <4>2. Below(source, b) = {}
        <5>. HIDE DEF b
        <5>1. b \in Strings
          BY <2>1 DEF b
        <5>. QED BY <4>1, <5>1, TellsEmpty
      <4>. QED BY <2>2, <4>2
    <3>. QED BY <3>2, <3>3
  <2>. QED BY <2>3, <2>4
<1>. QED BY <1>4, <1>5 DEF Justified

LEMMA BranchClaims ==
  ASSUME Sendable, NoWordMoves, NEW p, IsInner(p), tree[p].kind = "branch", p # <<>>,
         \A n \in Children : IsInner(Append(p, n)) => Claims(Append(p, n))
  PROVE  Claims(p)
<1>1. /\ p \in Strings /\ p \in DOMAIN tree /\ IsBranchAt(source, p)
      /\ nodes[p].children = [n \in Children |-> NodeAt(source)[Append(p, n)]]
      /\ \A n \in Children : IsInner(Append(p, n)) => IsPresent(p, n)
  BY InnerFacts DEF IsInner
<1>. SUFFICES ASSUME NEW height \in Nat, NEW r, r = OldItem[p][height], r.type # "REVERT"
              PROVE  /\ r.height \in Nat /\ r.height >= height
                     /\ r.type # "HASHED" /\ r.item.kind = "leaf" => Justified(p, r.item)
                     /\ r.type = "HASHED" /\ r.item = NodeAt(proxy)[p] => \A s \in Slots : IsPrefix(p, s) => ~Bad(s)
  BY DEF Claims
<1>. DEFINE start == height + 1
            info == OldTurns(p, LoopStart(p, start), OldItem)[BranchSize]
<1>2. r = OldBranch(info)
  <2>1. OldItem[p] = ItemFrom(OldItem, p)
    BY <1>1, SendableItems, OldItemFixpoint
  <2>. QED BY <2>1 DEF ItemFrom
<1>3. start \in Nat
  OBVIOUS
<1>. HIDE DEF start, info
<1>4. LoopInv(p, start, OldItem, info, BranchSize) /\ TallyInv(p, info, BranchSize)
  <2>1. Balanced(p, OldItem)
    BY DEF Balanced, Claims
  <2>2. DOMAIN nodes[p].children = Children
    BY <1>1
  <2>3. info = OldTurns(p, LoopStart(p, start), OldItem)[BranchSize]
    BY DEF info
  <2>. QED BY <1>1, <1>3, <2>1, <2>2, <2>3, LoopResult
<1>5. \A n \in Children : n < BranchSize
  BY SlotsAssumption DEF Children
<1>6. ASSUME ~info.reverts
      PROVE  /\ info.height \in Nat /\ info.height >= start
             /\ \A n \in Children : Done(p, OldItem, info, n)
  BY <1>4, <1>5, <1>6 DEF LoopInv
<1>7. CASE /\ ~info.reverts /\ info.amount = 1 /\ info.index < BranchSize
           /\ r.type = "LEAF" /\ r.item = info.values[info.index] /\ r.height = info.height - 1
  <2>1. r.height \in Nat /\ r.height >= height
    BY <1>6, <1>7 DEF start
  <2>2. PICK c \in Children :
          info.index \in {c, BranchSize} /\ \A n \in Children : n < BranchSize /\ Contributes(p, n) => n = c
    BY <1>4, <1>7 DEF TallyInv
  <2>3. info.index = c /\ \A n \in Children : Contributes(p, n) => n = c
    <3>1. ~(BranchSize < BranchSize)
      BY SlotsAssumption
    <3>. QED BY <1>5, <1>7, <2>2, <3>1
  <2>4. ASSUME r.item.kind = "leaf" PROVE Justified(p, r.item)
    <3>1. r.item = info.values[c]
      BY <1>7, <2>3
    <3>. QED BY <1>1, <1>6, <1>7, <2>3, <2>4, <3>1, SingleJustified
  <2>. QED BY <1>7, <2>1, <2>4
<1>8. CASE /\ ~info.reverts /\ r.type = "HASHED" /\ r.height = info.height - 1
           /\ r.item = Branch([n \in Children |-> OldItemOf(info, n)])
  <2>1. r.height \in Nat /\ r.height >= height
    BY <1>6, <1>8 DEF start
  <2>2. ASSUME r.item = NodeAt(proxy)[p], NEW s \in Slots, IsPrefix(p, s) PROVE ~Bad(s)
    <3>. DEFINE g == [n \in Children |-> OldItemOf(info, n)]
    <3>1. NodeAt(proxy)[p] = Branch(g) /\ \A n \in Children : g[n] \in {info.list[n], OldItemOf(info, n)}
      BY <1>8, <2>2
    <3>. HIDE DEF g
    <3>. QED BY <1>1, <1>6, <1>8, <2>2, <3>1, BranchGood
  <2>. QED BY <1>8, <2>1, <2>2
<1>. QED BY <1>2, <1>7, <1>8, OldBranchIs

\* An extension that comes out as the proxy has it, above a branch that was hashed.
LEMMA ExtensionGood ==
  ASSUME Sendable, NEW p \in Strings, NEW e \in Strings, IsExtensionAt(source, p, e),
         nodes[p] = NodeAt(source)[p], NEW q, q = p \o e, Claims(q), NEW height \in Nat,
         NEW below, below = OldItem[q][height], below.type = "HASHED",
         NodeAt(proxy)[p] = TwoItems(nodes[p].path, below.item), NEW s \in Slots, IsPrefix(p, s)
  PROVE  ~Bad(s)
<1>1. nodes[p].path = Encoded(0, e)
  <2>1. \A a, b : TwoItems(a, b).path = a
    BY DEF TwoItems
  <2>. QED BY <2>1 DEF IsExtensionAt
<1>2. IsExtensionAt(proxy, p, e) /\ below.item = NodeAt(proxy)[q]
  <2>. DEFINE x == below.item
  <2>1. NodeAt(proxy)[p] = TwoItems(Encoded(0, e), x)
    BY <1>1
  <2>. HIDE DEF x
  <2>2. IsExtensionAt(proxy, p, e) /\ x = NodeAt(proxy)[p \o e]
    BY <2>1, TellsExtension
  <2>. QED BY <2>2 DEF x
<1>3. CASE IsPrefix(q, s)
  <2>1. below.type # "REVERT"
    OBVIOUS
  <2>. QED BY <1>2, <1>3, <2>1 DEF Claims
<1>4. CASE ~IsPrefix(q, s)
  <2>1. s \notin Below(source, q) /\ s \notin Below(proxy, q)
    BY <1>4 DEF Below
  <2>2. s \notin Below(source, p) /\ s \notin Below(proxy, p)
    BY <1>2, <2>1 DEF IsExtensionAt
  <2>3. s \notin HeldByOne
    BY <2>2 DEF Below, HeldByOne
  <2>. QED BY <2>3, BadFacts
<1>. QED BY <1>3, <1>4

LEMMA ExtensionClaims ==
  ASSUME Sendable, NEW p, IsInner(p), tree[p].kind = "extension",
         NEW e \in Strings, IsExtensionAt(source, p, e), NEW q, q = p \o e, BelowExtension(p) = q,
         IsInner(q), Claims(q)
  PROVE  Claims(p)
<1>1. p \in Strings /\ p \in DOMAIN tree /\ nodes[p] = NodeAt(source)[p]
  BY InnerFacts DEF IsInner
<1>. SUFFICES ASSUME NEW height \in Nat, NEW r, r = OldItem[p][height], r.type # "REVERT"
              PROVE  /\ r.height \in Nat /\ r.height >= height
                     /\ r.type # "HASHED" /\ r.item.kind = "leaf" => Justified(p, r.item)
                     /\ r.type = "HASHED" /\ r.item = NodeAt(proxy)[p] => \A s \in Slots : IsPrefix(p, s) => ~Bad(s)
  BY DEF Claims
<1>. DEFINE start == height + 1
            below == OldItem[q][start]
<1>2. r = OldExtension(p, below)
  <2>1. OldItem[p] = ItemFrom(OldItem, p)
    BY <1>1, SendableItems, OldItemFixpoint
  <2>. QED BY <2>1 DEF ItemFrom
<1>3. start \in Nat /\ start = height + 1
  OBVIOUS
<1>. HIDE DEF start
<1>4. below.type # "REVERT" => below.height \in Nat /\ below.height >= start
  BY <1>3 DEF Claims
<1>5. CASE /\ below.type = "HASHED" /\ r.type = "HASHED"
           /\ r.item = TwoItems(nodes[p].path, below.item) /\ r.height = below.height - 1
  <2>1. r.height \in Nat /\ r.height >= height
    <3>1. below.height \in Nat /\ below.height >= start
      BY <1>4, <1>5
    <3>. HIDE DEF below
    <3>. QED BY <1>3, <1>5, <3>1
  <2>2. ASSUME r.item = NodeAt(proxy)[p], NEW s \in Slots, IsPrefix(p, s) PROVE ~Bad(s)
    BY <1>1, <1>3, <1>5, <2>2, ExtensionGood
  <2>. QED BY <1>5, <2>1, <2>2
<1>6. CASE below.type # "REVERT" /\ r.type = "BRANCH" /\ r.item.kind = "empty" /\ r.height = below.height
  <2>1. r.height \in Nat /\ r.height >= height
    <3>1. below.height \in Nat /\ below.height >= start
      BY <1>4, <1>6
    <3>. HIDE DEF below
    <3>. QED BY <1>3, <1>6, <3>1
  <2>. QED BY <1>6, <2>1
<1>. HIDE DEF below
<1>. QED BY <1>2, <1>5, <1>6, OldExtensionIs

\* The claims hold below the root: those of an item follow from those of the items
\* below it, which are at longer positions.
LEMMA ClaimsHold ==
  ASSUME Sendable, NoWordMoves
  PROVE  \A p : IsInner(p) /\ p # <<>> => Claims(p)
<1>1. PICK l \in Nat : \A s \in Slots : Len(s) = l
  BY SlotFacts
<1>2. \A p : IsInner(p) => p \in Strings /\ Len(p) \in Nat /\ Len(p) <= l
  <2>1. SUFFICES ASSUME NEW p, IsInner(p) PROVE p \in Strings /\ Len(p) \in Nat /\ Len(p) <= l
    OBVIOUS
  <2>2. p \in DOMAIN tree
    BY <2>1 DEF IsInner
  <2>3. PICK s \in Slots : p \in Strings /\ IsPrefix(p, s)
    BY <2>2, SendableItems DEF ItemsAreFound
  <2>4. s \in Strings /\ Len(s) = l /\ Len(p) \in Nat
    BY <1>1, <2>3, SlotFacts DEF Strings
  <2>. QED BY <2>3, <2>4, PrefixFacts
<1>. DEFINE T == {m \in Nat : \A p : IsInner(p) /\ p # <<>> /\ Len(p) + m > l => Claims(p)}
<1>3. 0 \in T
  <2>1. \A p : IsInner(p) => ~(Len(p) + 0 > l)
    BY <1>2
  <2>. QED BY <2>1
<1>4. ASSUME NEW m \in T PROVE m + 1 \in T
  <2>1. m \in Nat /\ \A p : IsInner(p) /\ p # <<>> /\ Len(p) + m > l => Claims(p)
    OBVIOUS
  <2>2. ASSUME NEW p, IsInner(p), p # <<>>, Len(p) + (m + 1) > l PROVE Claims(p)
    <3>1. p \in Strings /\ Len(p) \in Nat /\ Len(<<>>) = 0
      BY <1>2, <2>2
    <3>2. ASSUME NEW q, IsInner(q), Len(q) > Len(p) PROVE Claims(q)
      <4>1. Len(q) \in Nat
        BY <1>2, <3>2
      <4>2. Len(q) + m > l
        BY <2>1, <2>2, <3>1, <3>2, <4>1
      <4>3. q # <<>>
        BY <3>1, <3>2
      <4>. QED BY <2>1, <3>2, <4>2, <4>3
    <3>3. CASE tree[p].kind = "branch"
      <4>1. ASSUME NEW n \in Children, IsInner(Append(p, n)) PROVE Claims(Append(p, n))
        <5>1. Len(Append(p, n)) = Len(p) + 1
          BY <3>1, ChildString
        <5>2. Len(Append(p, n)) > Len(p)
          BY <3>1, <5>1
        <5>. QED BY <3>2, <4>1, <5>2
      <4>. QED BY <2>2, <3>3, <4>1, BranchClaims
    <3>4. CASE tree[p].kind = "extension"
      <4>1. PICK e \in Strings :
              IsExtensionAt(source, p, e) /\ BelowExtension(p) = p \o e /\ Len(p \o e) > Len(p) /\ IsInner(p \o e)
        BY <2>2, <3>4, InnerFacts
      <4>2. Claims(p \o e)
        BY <3>2, <4>1
      <4>. QED BY <2>2, <3>4, <4>1, <4>2, ExtensionClaims
    <3>. QED BY <2>2, <3>3, <3>4, InnerFacts
  <2>3. m + 1 \in Nat
    BY <2>1
  <2>. QED BY <2>2, <2>3
<1>5. l + 1 \in T
  <2>1. T \in SUBSET Nat
    OBVIOUS
  <2>. HIDE DEF T
  <2>. QED BY <1>3, <1>4, <2>1, Induction
<1>6. \A p : IsInner(p) => Len(p) + (l + 1) > l
  BY <1>2
<1>. QED BY <1>5, <1>6

\* The root the relay has for the proxy is the node of its trie, or that of the
\* empty trie.
LEMMA RootIs ==
  \/ RootOf(proxy) = EmptyRoot /\ NodeAt(proxy)[<<>>] = NoNode
  \/ RootOf(proxy) = NodeAt(proxy)[<<>>] /\ RootOf(proxy) \notin {NoNode, EmptyRoot}
<1>1. <<>> \in Strings
  BY EmptyPrefix
<1>2. CASE Held(proxy) = {}
  <2>1. Below(proxy, <<>>) = {}
    BY <1>2 DEF Below
  <2>2. IsEmptyAt(proxy, <<>>)
    <3>1. \A k : ~IsLeafAt(proxy, <<>>, k)
      BY <2>1 DEF IsLeafAt
    <3>2. \A b : b \notin BranchesOf(Held(proxy))
      BY <1>2, BranchMembers
    <3>3. ~IsBranchAt(proxy, <<>>) /\ \A e : ~IsExtensionAt(proxy, <<>>, e)
      BY <3>2 DEF IsBranchAt, IsExtensionAt
    <3>. QED BY <1>1, <3>1, <3>3, NodeView
  <2>. QED BY <1>2, <2>2 DEF RootOf, IsEmptyAt
<1>3. CASE Held(proxy) # {}
  <2>1. Below(proxy, <<>>) # {}
    BY <1>3, HeldFacts, EmptyPrefix DEF Below
  <2>2. NodeAt(proxy)[<<>>] # NoNode
    BY <1>1, <2>1, TellsEmpty
  <2>3. NodeAt(proxy)[<<>>] # EmptyRoot
    <3>1. IsEmptyAt(proxy, <<>>) => NodeAt(proxy)[<<>>] # EmptyRoot
      BY NodeShapes DEF IsEmptyAt
    <3>2. \A k : IsLeafAt(proxy, <<>>, k) => NodeAt(proxy)[<<>>] # EmptyRoot
      BY NodeShapes DEF IsLeafAt
    <3>3. \A e : IsExtensionAt(proxy, <<>>, e) => NodeAt(proxy)[<<>>] # EmptyRoot
      BY NodeShapes DEF IsExtensionAt
    <3>4. IsBranchAt(proxy, <<>>) => NodeAt(proxy)[<<>>] # EmptyRoot
      BY NodeShapes DEF IsBranchAt
    <3>. QED BY <1>1, <3>1, <3>2, <3>3, <3>4, NodeView
  <2>. QED BY <1>3, <2>2, <2>3 DEF RootOf
<1>. QED BY <1>2, <1>3

\* The old root of a tree whose root is a branch.
LEMMA RootBranchGood ==
  ASSUME Sendable, NoWordMoves, IsInner(<<>>), tree[<<>>].kind = "branch",
         RootOf(proxy) = OldRootOfBranch(OldTurns(<<>>, LoopStart(<<>>, 1), OldItem)[BranchSize]),
         NEW s \in Slots
  PROVE  ~Bad(s)
<1>. DEFINE p == <<>>
            start == 1
            info == OldTurns(p, LoopStart(p, start), OldItem)[BranchSize]
<1>1. /\ p \in Strings /\ IsBranchAt(source, p)
      /\ nodes[p].children = [n \in Children |-> NodeAt(source)[Append(p, n)]]
      /\ \A n \in Children : IsInner(Append(p, n)) => IsPresent(p, n)
  BY InnerFacts
<1>2. RootOf(proxy) = OldRootOfBranch(info) /\ IsPrefix(p, s) /\ start \in Nat
  BY EmptyPrefix, SlotFacts
<1>3. \A n \in Children : IsInner(Append(p, n)) => Claims(Append(p, n))
  <2>1. \A n \in Children : Append(p, n) # <<>>
    <3>1. ASSUME NEW n \in Children PROVE Append(p, n) # <<>>
      <4>1. Len(Append(p, n)) = Len(p) + 1 /\ Len(<<>>) = 0
        BY <1>1, ChildString
      <4>2. Len(Append(p, n)) # Len(<<>>)
        BY <4>1
      <4>. QED BY <4>2
    <3>. QED BY <3>1
  <2>. QED BY <2>1, ClaimsHold
<1>4. LoopInv(p, start, OldItem, info, BranchSize)
  <2>1. Balanced(p, OldItem)
    BY <1>3 DEF Balanced, Claims
  <2>2. DOMAIN nodes[p].children = Children
    BY <1>1
  <2>3. info = OldTurns(p, LoopStart(p, start), OldItem)[BranchSize]
    OBVIOUS
  <2>. HIDE DEF p, start, info
  <2>. QED BY <1>1, <1>2, <2>1, <2>2, <2>3, LoopResult
<1>. HIDE DEF p, start, info
<1>5. /\ ~info.reverts /\ NodeAt(proxy)[p] = Branch(info.list)
  <2>1. RootOf(proxy) = NodeAt(proxy)[p] \/ RootOf(proxy) = EmptyRoot
    BY RootIs DEF p
  <2>2. RootOf(proxy) # NoNode
    BY RootIs, NodeShapes
  <2>3. ~info.reverts /\ RootOf(proxy) = Branch(info.list)
    BY <1>2, <2>2 DEF OldRootOfBranch
  <2>4. RootOf(proxy) # EmptyRoot
    BY <2>3, NodeShapes
  <2>. QED BY <2>1, <2>3, <2>4
<1>6. info.height \in Nat /\ \A n \in Children : Done(p, OldItem, info, n)
  <2>1. \A n \in Children : n < BranchSize
    BY SlotsAssumption DEF Children
  <2>. QED BY <1>4, <1>5, <2>1 DEF LoopInv
<1>. DEFINE g == info.list
<1>7. NodeAt(proxy)[p] = Branch(g) /\ \A n \in Children : g[n] \in {info.list[n], OldItemOf(info, n)}
  BY <1>5
<1>. HIDE DEF g
<1>. QED BY <1>1, <1>2, <1>3, <1>6, <1>7, BranchGood

LEMMA RootExtensionGood ==
  ASSUME Sendable, NoWordMoves, IsInner(<<>>), tree[<<>>].kind = "extension",
         RootOf(proxy) \in OldRootOfExtension(OldItem[BelowExtension(<<>>)][1]),
         NEW s \in Slots
  PROVE  ~Bad(s)
<1>. DEFINE p == <<>>
<1>1. /\ p \in Strings /\ nodes[p] = NodeAt(source)[p] /\ IsPrefix(p, s)
  BY InnerFacts, EmptyPrefix, SlotFacts
<1>2. PICK e \in Strings :
        IsExtensionAt(source, p, e) /\ BelowExtension(p) = p \o e /\ Len(p \o e) > Len(p) /\ IsInner(p \o e)
  BY InnerFacts
<1>3. PICK q : q = p \o e /\ q # <<>> /\ IsInner(q) /\ BelowExtension(<<>>) = q
  <2>1. p \o e # <<>>
    BY <1>2
  <2>. QED BY <1>2, <2>1
<1>4. Claims(q)
  BY <1>3, ClaimsHold
<1>. DEFINE height == 1
            below == OldItem[q][height]
<1>5. height \in Nat /\ RootOf(proxy) \in OldRootOfExtension(below)
  BY <1>3
<1>. HIDE DEF height, below, p
<1>6. /\ below.type = "HASHED"
      /\ \E item \in {below.item, Garbage} : RootOf(proxy) = TwoItems(nodes[p].path, item)
  <2>1. RootOf(proxy) # NoNode
    BY RootIs, NodeShapes
  <2>2. below.type = "HASHED"
    BY <1>5, <2>1 DEF OldRootOfExtension
  <2>. QED BY <1>5, <2>2 DEF OldRootOfExtension, p
<1>7. PICK item \in {below.item, Garbage} : RootOf(proxy) = TwoItems(nodes[p].path, item)
  BY <1>6
<1>8. NodeAt(proxy)[p] = TwoItems(nodes[p].path, item)
  <2>1. RootOf(proxy) # EmptyRoot
    BY <1>7, NodeShapes
  <2>. QED BY <1>7, <2>1, RootIs DEF p
<1>9. item # Garbage
  <2>1. SUFFICES ASSUME item = Garbage PROVE FALSE
    OBVIOUS
  <2>2. nodes[p].path = Encoded(0, e)
    <3>1. \A a, b : TwoItems(a, b).path = a
      BY DEF TwoItems
    <3>. QED BY <1>1, <1>2, <3>1 DEF IsExtensionAt
  <2>3. NodeAt(proxy)[p] = TwoItems(Encoded(0, e), Garbage)
    BY <1>8, <2>1, <2>2
  <2>4. IsExtensionAt(proxy, p, e) /\ NodeAt(proxy)[p \o e] = Garbage
    BY <1>1, <2>3, TellsExtension
  <2>5. p \o e \in PositionsOf(proxy)
    BY <2>4, BranchPositions DEF IsExtensionAt
  <2>. QED BY <2>4, <2>5, NodesAssumption DEF Sendable
<1>10. NodeAt(proxy)[p] = TwoItems(nodes[p].path, below.item)
  BY <1>7, <1>8, <1>9
<1>11. below = OldItem[q][height]
  BY DEF below
<1>. QED BY <1>1, <1>2, <1>3, <1>4, <1>5, <1>6, <1>10, <1>11, ExtensionGood

\* If the old root computed from the tree is the one recorded, no slot ends with
\* a wrong word.
LEMMA RecordedRootGood ==
  ASSUME Sendable, NoWordMoves, RootOf(proxy) \in OldRoots, NEW s \in Slots
  PROVE  ~Bad(s)
<1>1. <<>> \in DOMAIN tree /\ (LeafAt(<<>>) \/ IsInner(<<>>)) /\ IsPrefix(<<>>, s)
  <2>1. \E p : p \in DOMAIN tree
    <3>. SUFFICES ASSUME DOMAIN tree = {} PROVE FALSE
      OBVIOUS
    <3>. QED BY SlotFacts DEF Sendable, Readable, Assembled
  <2>2. <<>> \in DOMAIN tree
    BY <2>1, ItemIs
  <2>. QED BY <2>2, ItemIs, EmptyPrefix, SlotFacts
<1>2. CASE LeafAt(<<>>)
  <2>. DEFINE old == RestoreOldValueState(tree[<<>>])
  <2>1. OldRoots = {IF old = NoNode THEN EmptyRoot ELSE old}
    <3>1. tree[<<>>].kind = "leaf"
      BY <1>2 DEF LeafAt
    <3>. QED BY <1>2, <3>1 DEF OldRoots
  <2>2. old # EmptyRoot
    BY NodeShapes DEF RestoreOldValueState
  <2>. HIDE DEF old
  <2>3. NodeAt(proxy)[<<>>] = old
    <3>1. RootOf(proxy) = IF old = NoNode THEN EmptyRoot ELSE old
      BY <2>1
    <3>. QED BY <2>2, <3>1, RootIs, NodeShapes
  <2>. QED BY <1>1, <1>2, <2>3, LeafGood DEF old
<1>3. CASE IsInner(<<>>) /\ tree[<<>>].kind = "extension"
  <2>1. ~LeafAt(<<>>)
    BY <1>3, ItemKinds
  <2>2. RootOf(proxy) \in OldRootOfExtension(OldItem[BelowExtension(<<>>)][1])
    BY <1>3, <2>1 DEF OldRoots
  <2>. QED BY <1>3, <2>2, RootExtensionGood
<1>4. CASE IsInner(<<>>) /\ tree[<<>>].kind = "branch"
  <2>1. ~LeafAt(<<>>) /\ tree[<<>>].kind # "extension"
    BY <1>4, ItemKinds
  <2>2. RootOf(proxy) = OldRootOfBranch(OldTurns(<<>>, LoopStart(<<>>, 1), OldItem)[BranchSize])
    BY <2>1 DEF OldRoots
  <2>. QED BY <1>4, <2>2, RootBranchGood
<1>. QED BY <1>1, <1>2, <1>3, <1>4, InnerFacts

\* An update both roots of which were checked leaves the proxy with the source's
\* words, whatever was asked for, unless a word moved: the old root is the recorded
\* one only if the tree has a leaf for every slot that differs, with the right word.
THEOREM CheckedUpdateIsCompleteCorrect == TreeSpec => CheckedUpdateIsComplete
<1>1. ASSUME CheckedInv, TreeNext, phase' = "verified", NoneAskedInVain, NoWordMoves
      PROVE  proxy' = source \/ UNCHANGED treeVars
  <2>1. CASE UpdateStorageModified
    <3>1. Sendable /\ RootOf(proxy) \in OldRoots /\ proxy' = StoredWords
      BY <1>1, <2>1 DEF CheckedInv, UpdateStorageModified, Sending, Sendable
    <3>2. \A s \in Slots : StoredWords[s] = source[s]
      BY <1>1, <3>1, RecordedRootGood DEF Bad
    <3>3. StoredWords = [s \in Slots |-> StoredWords[s]]
      BY DEF StoredWords
    <3>4. source = [s \in Slots |-> source[s]]
      BY <1>1 DEF CheckedInv
    <3>. QED BY <3>1, <3>2, <3>3, <3>4
  <2>2. CASE (\E k \in Slots : MergeProof(k) \/ MergeAdditional(k)) \/ LookForKeys \/ UpdateStorage \/ Rejected
    <3>1. phase = phase' \/ phase' # "verified"
      BY <2>2 DEF MergeProof, Descend, FirstNode, RootAgain, Fail, MergeAdditional, LookForKeys,
                  UpdateStorage, Rejected
    <3>2. phase \in {"asking", "adding"}
      BY <2>2 DEF MergeProof, MergeAdditional, LookForKeys, UpdateStorage, Rejected, Sending
    <3>. QED BY <1>1, <3>1, <3>2
  <2>. QED BY <1>1, <2>1, <2>2 DEF TreeNext
<1>2. CheckedInv /\ [TreeNext]_treeVars
      => [phase' = "verified" /\ NoneAskedInVain /\ NoWordMoves => proxy' = source]_treeVars
  BY <1>1
<1>. QED BY <1>2, CheckedInit, CheckedStep, PTL DEF TreeSpec, CheckedUpdateIsComplete

\* Below a branch two slots part at once.
LEMMA BranchParts ==
  ASSUME NEW storage, NEW b \in BranchesOf(Held(storage))
  PROVE  /\ b \in Strings /\ Len(b) \in Nat
         /\ \E j, k \in Below(storage, b) : j[Len(b) + 1] # k[Len(b) + 1]
<1>1. PICK j, k \in Held(storage) : b = LongestCommonPrefix({j, k}) /\ b \notin Held(storage)
  <2>1. b \notin Held(storage) /\ \E j, k \in Held(storage) : b = LongestCommonPrefix({j, k})
    BY BranchMembers
  <2>. QED BY <2>1
<1>2. j \in Slots /\ k \in Slots /\ j \in Strings /\ k \in Strings /\ Len(j) \in Nat /\ Len(k) \in Nat
  BY HeldFacts DEF Strings
<1>3. /\ b \in Strings /\ IsPrefix(b, j) /\ IsPrefix(b, k)
      /\ \A p \in CommonPrefixes({j, k}) : Len(p) <= Len(b)
  <2>1. PICK l \in Nat : Len(j) <= l /\ Len(k) <= l
    BY <1>2
  <2>. QED BY <1>1, <1>2, <2>1, CommonPrefix
<1>4. j # k
  <2>1. SUFFICES ASSUME j = k PROVE FALSE
    OBVIOUS
  <2>2. {j, k} = {j} /\ LongestCommonPrefix({j}) = j
    BY <1>2, <2>1, PrefixOfOne
  <2>. QED BY <1>1, <2>2
<1>5. ASSUME j[Len(b) + 1] = k[Len(b) + 1] PROVE FALSE
  <2>. DEFINE c == Append(b, k[Len(b) + 1])
  <2>1. c \in Strings /\ Len(c) = Len(b) + 1 /\ IsPrefix(c, k) /\ IsPrefix(c, j)
    BY <1>2, <1>3, <1>4, <1>5, SlotsPart
  <2>. HIDE DEF c
  <2>2. c \in Prefixes(k)
    <3>1. c = SubSeq(k, 1, Len(c)) /\ Len(c) \in 0..Len(k)
      BY <1>2, <2>1, PrefixFacts DEF Strings
    <3>. QED BY <3>1 DEF Prefixes
  <2>3. c \in CommonPrefixes({j, k})
    BY <2>1, <2>2 DEF CommonPrefixes
  <2>. QED BY <1>3, <2>1, <2>3 DEF Strings
<1>6. j \in Below(storage, b) /\ k \in Below(storage, b)
  BY <1>3 DEF Below
<1>7. Len(b) \in Nat
  BY <1>3 DEF Strings
<1>. QED BY <1>3, <1>5, <1>6, <1>7

\* They are not below one longer position.
LEMMA BranchIsLast ==
  ASSUME NEW storage, NEW b \in BranchesOf(Held(storage)), NEW c \in Strings, Len(b) < Len(c)
  PROVE  ~(Below(storage, b) \subseteq Below(storage, c))
<1>1. SUFFICES ASSUME Below(storage, b) \subseteq Below(storage, c) PROVE FALSE
  OBVIOUS
<1>2. PICK j, k \in Below(storage, b) : j[Len(b) + 1] # k[Len(b) + 1]
  BY BranchParts
<1>3. j \in Strings /\ k \in Strings /\ IsPrefix(c, j) /\ IsPrefix(c, k)
  BY <1>1, <1>2, HeldFacts DEF Below
<1>4. Len(b) + 1 \in 1..Len(c)
  BY BranchParts DEF Strings
<1>5. c[Len(b) + 1] = j[Len(b) + 1] /\ c[Len(b) + 1] = k[Len(b) + 1]
  BY <1>3, <1>4, PrefixByItems
<1>. QED BY <1>2, <1>5

LEMMA BelowLonger ==
  ASSUME NEW storage, NEW p \in Strings, NEW c \in Strings
  PROVE  p \o c \in Strings /\ Below(storage, p \o c) \subseteq Below(storage, p)
<1>1. p \o c \in Strings /\ IsPrefix(p, p \o c)
  BY ConcatPrefix
<1>. HIDE DEF IsPrefix
<1>2. ASSUME NEW s \in Below(storage, p \o c) PROVE s \in Below(storage, p)
  <2>1. s \in Held(storage) /\ s \in Strings /\ IsPrefix(p \o c, s)
    BY HeldFacts DEF Below
  <2>. QED BY <1>1, <2>1, PrefixOfPrefix DEF Below
<1>. QED BY <1>1, <1>2

\* Two tries have an extension to one position, if both have a branch there and none
\* before.
LEMMA SameExtension ==
  ASSUME NEW f, NEW g, NEW p \in Strings, NEW e \in Strings, IsExtensionAt(f, p, e),
         p \notin BranchesOf(Held(g)), p \o e \in BranchesOf(Held(g)),
         \A c \in Strings : p \o c \in BranchesOf(Held(g)) => p \o c \in BranchesOf(Held(f))
  PROVE  NodeAt(g)[p] = TwoItems(Encoded(0, e), NodeAt(g)[p \o e])
<1>1. PICK i, k \in Below(g, p \o e) : i # k
  BY BranchPair
<1>2. i \in Below(g, p) /\ k \in Below(g, p)
  BY <1>1, BelowLonger
<1>3. PICK c \in Strings : IsExtensionAt(g, p, c)
  <2>1. ~IsEmptyAt(g, p) /\ ~(\E j \in Below(g, p) : IsLeafAt(g, p, j)) /\ ~IsBranchAt(g, p)
    BY <1>1, <1>2 DEF IsEmptyAt, IsLeafAt, IsBranchAt
  <2>. QED BY <2>1, NodeView
<1>. DEFINE pc == p \o c
            pe == p \o e
<1>4. /\ pc \in Strings /\ pe \in Strings /\ Len(pc) \in Nat /\ Len(pe) \in Nat
      /\ pc \in BranchesOf(Held(g)) /\ pc \in BranchesOf(Held(f)) /\ pe \in BranchesOf(Held(g))
      /\ Below(g, p) \subseteq Below(g, pc) /\ Below(f, p) \subseteq Below(f, pe)
      /\ Below(g, pe) \subseteq Below(g, p) /\ Below(f, pc) \subseteq Below(f, p)
  BY <1>3, BelowLonger DEF IsExtensionAt, Strings
<1>5. i \in Strings /\ IsPrefix(pc, i) /\ IsPrefix(pe, i)
  BY <1>1, <1>2, <1>4, HeldFacts DEF Below
<1>. HIDE DEF pc, pe
<1>6. ~(Len(pe) < Len(pc)) /\ ~(Len(pc) < Len(pe))
  BY <1>4, BranchIsLast
<1>7. pc = pe
  BY <1>4, <1>5, <1>6, PrefixesOfOne
<1>8. c = e
  <2>1. p \o c = p \o e
    BY <1>7 DEF pc, pe
  <2>2. Len(c) = Len(e) /\ Len(c) \in Nat
    <3>1. /\ Len(p \o c) = Len(p) + Len(c) /\ Len(p) \in Nat /\ Len(c) \in Nat /\ Len(e) \in Nat
          /\ Len(p \o e) = Len(p) + Len(e)
      BY DEF Strings
    <3>. QED BY <2>1, <3>1
  <2>3. ASSUME NEW n \in 1..Len(c) PROVE c[n] = e[n]
    <3>1. (p \o c)[Len(p) + n] = c[n] /\ (p \o e)[Len(p) + n] = e[n]
      BY <2>2, <2>3 DEF Strings
    <3>. QED BY <2>1, <3>1
  <2>4. IsPrefix(c, e) /\ IsPrefix(e, e)
    BY <2>2, <2>3, PrefixByItems
  <2>. QED BY <2>2, <2>4, PrefixesOfOne
<1>. QED BY <1>3, <1>8 DEF IsExtensionAt

LEMMA NothingBelow ==
  ASSUME NEW storage, NEW p \in Strings, Below(storage, p) = {}
  PROVE  NodeAt(storage)[p] = NoNode
<1>1. \A k : ~IsLeafAt(storage, p, k)
  BY DEF IsLeafAt
<1>2. \A e \in Strings : ~IsExtensionAt(storage, p, e)
  BY BelowLonger, BranchPair DEF IsExtensionAt
<1>3. ~IsBranchAt(storage, p)
  BY BranchPair DEF IsBranchAt
<1>. QED BY <1>1, <1>2, <1>3, NodeView DEF IsEmptyAt

LEMMA BranchAgrees ==
  ASSUME NEW f, NEW g, NEW b \in BranchesOf(Held(f)), Below(f, b) \subseteq Below(g, b)
  PROVE  b \in BranchesOf(Held(g))
<1>1. b \in Strings /\ \E j, k \in Below(g, b) : j[Len(b) + 1] # k[Len(b) + 1]
  BY BranchParts
<1>. QED BY <1>1, PartsThere

\* No branch is where an extension begins.
LEMMA ExtensionIsNoBranch ==
  ASSUME NEW storage, NEW p \in Strings, NEW e \in Strings, IsExtensionAt(storage, p, e)
  PROVE  p \notin BranchesOf(Held(storage)) /\ p \o e \in Strings /\ Len(p \o e) > Len(p)
<1>1. p \o e \in Strings /\ Len(p \o e) > Len(p)
  BY ExtensionIsLonger DEF IsExtensionAt
<1>2. Len(p) < Len(p \o e)
  BY <1>1 DEF Strings
<1>. QED BY <1>1, <1>2, BranchIsLast DEF IsExtensionAt

\* The node at a position is made of the words below it.
LEMMA SameWordsSameNode ==
  ASSUME NEW f, NEW g, NEW p \in Strings, \A s \in Slots : IsPrefix(p, s) => f[s] = g[s]
  PROVE  NodeAt(f)[p] = NodeAt(g)[p]
<1>1. PICK l \in Nat : \A t \in Slots : Len(t) = l
  BY SlotFacts
<1>. DEFINE Agree(q) == \A t \in Slots : IsPrefix(q, t) => f[t] = g[t]
            Same(q) == Agree(q) => NodeAt(f)[q] = NodeAt(g)[q]
            T == {m \in Nat : \A q \in Strings : Len(q) + m > l => Same(q)}
<1>2. 0 \in T
  <2>1. ASSUME NEW q \in Strings, Len(q) + 0 > l, NEW storage PROVE NodeAt(storage)[q] = NoNode
    <3>1. ASSUME NEW t \in Slots, IsPrefix(q, t) PROVE FALSE
      <4>1. Len(q) \in Nat /\ Len(q) <= Len(t) /\ Len(t) = l
        BY <1>1, <3>1, SlotFacts, PrefixFacts DEF Strings
      <4>. QED BY <2>1, <4>1
    <3>2. Below(storage, q) = {}
      BY <3>1, HeldFacts DEF Below
    <3>. QED BY <3>2, NothingBelow
  <2>2. \A q \in Strings : Len(q) + 0 > l => NodeAt(f)[q] = NodeAt(g)[q]
    BY <2>1
  <2>. QED BY <2>2
<1>3. ASSUME NEW m \in T PROVE m + 1 \in T
  <2>1. SUFFICES ASSUME NEW q \in Strings, Len(q) + (m + 1) > l, Agree(q)
                 PROVE  NodeAt(f)[q] = NodeAt(g)[q]
    OBVIOUS
  <2>2. ASSUME NEW r \in Strings, IsPrefix(q, r)
        PROVE  /\ Agree(r) /\ Below(f, r) = Below(g, r)
               /\ Len(r) > Len(q) => NodeAt(f)[r] = NodeAt(g)[r]
    <3>1. Agree(r)
      BY <2>1, <2>2, PrefixOfPrefix, SlotFacts
    <3>2. Below(f, r) = Below(g, r)
      BY <3>1 DEF Below, Held
    <3>3. Len(r) > Len(q) => Len(r) + m > l
      <4>1. Len(r) \in Nat /\ Len(q) \in Nat /\ m \in Nat
        BY DEF Strings
      <4>. QED BY <2>1, <4>1
    <3>4. Len(r) > Len(q) => Same(r)
      BY <3>3
    <3>. QED BY <3>1, <3>2, <3>4
  <2>3. Below(f, q) = Below(g, q)
    BY <2>1 DEF Below, Held
  <2>. HIDE DEF T, Agree
  <2>4. CASE IsEmptyAt(f, q)
    BY <2>3, <2>4, NothingBelow DEF IsEmptyAt
  <2>5. CASE \E k \in Below(f, q) : IsLeafAt(f, q, k)
    <3>1. PICK k \in Below(f, q) : IsLeafAt(f, q, k)
      BY <2>5
    <3>2. Below(g, q) = {k} /\ k \in Slots /\ k \in Held(g) /\ k \in Strings /\ IsPrefix(q, k)
      BY <2>3, <3>1, HeldFacts DEF IsLeafAt, Below
    <3>3. NodeAt(g)[q] = TwoItems(Encoded(2, SubSeq(k, Len(q) + 1, Len(k))), g[k])
      BY <3>2, NodeOfOne DEF Below
    <3>4. f[k] = g[k]
      BY <2>1, <3>2 DEF Agree
    <3>. QED BY <3>1, <3>3, <3>4 DEF IsLeafAt, Rest
  <2>6. CASE \E e \in Strings : IsExtensionAt(f, q, e)
    <3>1. PICK e \in Strings : IsExtensionAt(f, q, e)
      BY <2>6
    <3>2. q \notin BranchesOf(Held(f)) /\ q \o e \in Strings /\ Len(q \o e) > Len(q)
      BY <3>1, ExtensionIsNoBranch
    <3>3. \A c \in Strings : Below(f, q \o c) = Below(g, q \o c)
      BY <2>2, ConcatPrefix
    <3>4. q \notin BranchesOf(Held(g))
      BY <2>3, <3>2, BranchAgrees
    <3>5. q \o e \in BranchesOf(Held(g))
      BY <3>1, <3>3, BranchAgrees DEF IsExtensionAt
    <3>6. \A c \in Strings : q \o c \in BranchesOf(Held(g)) => q \o c \in BranchesOf(Held(f))
      BY <3>3, BranchAgrees
    <3>7. NodeAt(g)[q] = TwoItems(Encoded(0, e), NodeAt(g)[q \o e])
      BY <3>1, <3>4, <3>5, <3>6, SameExtension
    <3>8. NodeAt(f)[q \o e] = NodeAt(g)[q \o e]
      BY <2>2, <3>2, ConcatPrefix
    <3>. QED BY <3>1, <3>7, <3>8 DEF IsExtensionAt
  <2>7. CASE IsBranchAt(f, q)
    <3>1. IsBranchAt(g, q)
      BY <2>3, <2>7, BranchAgrees, BranchAtBranch DEF IsBranchAt
    <3>2. ASSUME NEW n \in Children PROVE NodeAt(f)[Append(q, n)] = NodeAt(g)[Append(q, n)]
      <4>1. Append(q, n) \in Strings /\ Len(Append(q, n)) = Len(q) + 1 /\ IsPrefix(q, Append(q, n))
        BY ChildString
      <4>2. Len(Append(q, n)) > Len(q)
        BY <4>1 DEF Strings
      <4>. QED BY <2>2, <4>1, <4>2
    <3>. QED BY <2>7, <3>1, <3>2 DEF IsBranchAt
  <2>. QED BY <2>4, <2>5, <2>6, <2>7, NodeView
<1>4. l + 1 \in T
  <2>1. T \in SUBSET Nat
    OBVIOUS
  <2>. HIDE DEF T
  <2>. QED BY <1>2, <1>3, <2>1, Induction
<1>5. Len(p) + (l + 1) > l
  BY DEF Strings
<1>. QED BY <1>4, <1>5

\* From where an extension begins no position is before the branch it leads to.
LEMMA ExtensionSkips ==
  ASSUME NEW storage, NEW p \in Strings, NEW e \in Strings, IsExtensionAt(storage, p, e),
         NEW q \in PositionsOf(storage), IsPrefix(p, q), p # q
  PROVE  IsPrefix(p \o e, q)
<1>. DEFINE r == p \o e
<1>1. /\ r \in Strings /\ Len(r) > Len(p) /\ r \in BranchesOf(Held(storage))
      /\ Below(storage, p) \subseteq Below(storage, r) /\ Held(storage) # {}
  BY ExtensionIsNoBranch, BranchPair DEF IsExtensionAt, Below
<1>2. q \in Strings /\ Below(storage, q) # {}
  BY PositionHolds
<1>3. ASSUME NEW t \in Strings, IsPrefix(p, t) PROVE Below(storage, t) \subseteq Below(storage, r)
  <2>1. \A s \in Held(storage) : IsPrefix(t, s) => IsPrefix(p, s)
    BY <1>3, PrefixOfPrefix, HeldFacts
  <2>. QED BY <1>1, <2>1 DEF Below
<1>4. PICK s \in Below(storage, q) : TRUE
  BY <1>2
<1>5. s \in Strings /\ IsPrefix(q, s) /\ IsPrefix(r, s)
  BY <1>2, <1>3, <1>4, HeldFacts DEF Below
<1>6. Len(p) \in Nat /\ Len(q) \in Nat /\ Len(r) \in Nat /\ Len(p) < Len(q)
  <2>1. Len(p) \in Nat /\ Len(q) \in Nat /\ Len(r) \in Nat /\ Len(p) <= Len(q)
    BY <1>1, <1>2, PrefixByItems DEF Strings
  <2>2. IsPrefix(q, q)
    BY <1>2, PrefixByItems DEF Strings
  <2>. QED BY <1>2, <2>1, <2>2, PrefixesOfOne
<1>. HIDE DEF r
<1>7. ~(Len(q) < Len(r))
  <2>1. SUFFICES ASSUME Len(q) < Len(r) PROVE FALSE
    OBVIOUS
  <2>2. ASSUME NEW b \in BranchesOf(Held(storage)), IsPrefix(p, b), Len(b) < Len(r) PROVE FALSE
    <3>1. b \in Strings
      BY BranchPair
    <3>. QED BY <1>1, <1>3, <2>2, <3>1, BranchIsLast
  <2>3. q # <<>>
    BY <1>6
  <2>4. q \notin BranchesOf(Held(storage))
    BY <2>1, <2>2
  <2>5. PICK b \in BranchesOf(Held(storage)), n \in Children : q = Append(b, n)
    BY <1>1, <2>3, <2>4, PositionMembers
  <2>6. b \in Strings /\ Len(q) = Len(b) + 1 /\ IsPrefix(b, q) /\ Len(b) \in Nat
    BY <2>5, BranchPair, ChildString DEF Strings
  <2>7. IsPrefix(p, b) /\ Len(b) < Len(r)
    BY <1>2, <1>6, <2>1, <2>6, PrefixesOfOne
  <2>. QED BY <2>2, <2>7
<1>8. Len(r) <= Len(q)
  BY <1>6, <1>7
<1>9. IsPrefix(r, q)
  BY <1>1, <1>2, <1>5, <1>8, PrefixesOfOne
<1>. QED BY <1>9 DEF r

-----------------------------------------------------------------------------
(***************************************************************************)
(* Where no branch comes or goes, the old trie is found again.             *)
(***************************************************************************)
\* The place of a slot's leaf is above no other slot.
LEMMA OwnPlace ==
  ASSUME Traced, SameShape, Held(source) # {}, NEW k \in HeldByOne, NEW j \in HeldByOne, IsPrefix(Place(k), j)
  PROVE  j = k
<1>1. SUFFICES ASSUME j # k PROVE FALSE
  OBVIOUS
<1>2. j \in Slots /\ k \in Slots /\ j \in Strings /\ k \in Strings /\ Len(j) \in Nat /\ Len(k) \in Nat
  BY HeldFacts DEF HeldByOne, Strings
<1>. DEFINE b == LongestCommonPrefix({j, k})
<1>3. b \in Strings /\ IsPrefix(b, j) /\ IsPrefix(b, k) /\ \A p \in CommonPrefixes({j, k}) : Len(p) <= Len(b)
  <2>1. PICK l \in Nat : Len(j) <= l /\ Len(k) <= l
    BY <1>2
  <2>. QED BY <1>2, <2>1, CommonPrefix
<1>4. b \in BranchesOf(Held(source))
  <2>1. Len(b) + 1 < Len(k) /\ Len(b) \in Nat
    BY <1>1, <1>2, <1>3, SlotsPart DEF Strings
  <2>2. b \notin HeldByOne
    <3>1. \A s \in HeldByOne : Len(s) = Len(k)
      BY <1>2, HeldFacts, SlotsAssumption DEF HeldByOne
    <3>. QED BY <2>1, <3>1
  <2>3. b \in BranchesOf(HeldByOne)
    BY <2>2, BranchMembers
  <2>. QED BY <2>3 DEF SameShape, HeldByOne
<1>. HIDE DEF b
<1>5. /\ Place(k) \in Strings /\ IsPrefix(Place(k), k)
      /\ End(k) \in Strings /\ IsPrefix(End(k), k) /\ End(k) \in DOMAIN nodes
      /\ \A p \in ProofOf(k) : Len(p) <= Len(End(k))
  BY <1>2, PlaceFacts, EndOfProof
<1>6. Len(b) <= Len(End(k))
  <2>1. b \in DOMAIN nodes
    BY <1>4, BranchPositions DEF Traced, NodesOf
  <2>2. b \in ProofOf(k)
    BY <1>3, <2>1 DEF ProofOf
  <2>. QED BY <1>5, <2>2
<1>7. Len(Place(k)) <= Len(b)
  <2>1. Place(k) = SubSeq(k, 1, Len(Place(k))) /\ Len(Place(k)) \in 0..Len(k)
    BY <1>2, <1>5, PrefixFacts DEF Strings
  <2>2. Place(k) \in Prefixes(k)
    BY <2>1 DEF Prefixes
  <2>3. Place(k) \in CommonPrefixes({j, k})
    BY <1>5, <2>2 DEF CommonPrefixes
  <2>. QED BY <1>3, <2>3
<1>8. CASE IsBranch(nodes[End(k)])
  <2>1. Len(Place(k)) = Len(End(k)) + 1
    BY <1>2, <1>8, EndIsBranch DEF Place
  <2>. QED BY <1>3, <1>5, <1>6, <1>7, <2>1 DEF Strings
<1>9. CASE ~IsBranch(nodes[End(k)])
  <2>1. Place(k) = End(k)
    BY <1>9 DEF Place
  <2>2. Len(End(k)) = Len(b) /\ Len(End(k)) <= Len(b)
    BY <1>3, <1>5, <1>6, <1>7, <2>1 DEF Strings
  <2>3. b = End(k)
    BY <1>2, <1>3, <1>5, <2>2, PrefixesOfOne
  <2>4. nodes[b] = NodeAt(source)[b]
    BY <1>5, <2>3, TracedNodes
  <2>5. IsBranch(NodeAt(source)[b])
    BY <1>4, BranchAtBranch, ViewShapes, NodeShapes
  <2>. QED BY <1>9, <2>3, <2>4, <2>5
<1>. QED BY <1>8, <1>9

\* A leaf is restored to what the proxy has in its place.
LEMMA LeafRestored ==
  ASSUME Sendable, SameShape, NEW q, LeafAt(q)
  PROVE  /\ q \in Strings /\ RestoreOldValueState(tree[q]) = NodeAt(proxy)[q]
         /\ NodeAt(proxy)[q] = NoNode => Below(source, q) # {}
<1>. DEFINE k == tree[q].key
            node == tree[q].node
            old == RestoreOldValueState(tree[q])
<1>1. /\ q \in Strings /\ k \in HeldByOne /\ k \in Slots /\ k \in Strings /\ IsPrefix(q, k)
      /\ q = Place(k) /\ Held(source) # {}
      /\ \/ node = TwoItems(Encoded(2, Rest(q, k)), source[k])
         \/ node = TwoItems(Encoded(2, Rest(q, k)), ZeroWord)
         \/ k \notin Held(source) /\ \E j \in Held(source) : Below(source, q) = {j}
         \/ \E c \in Strings : IsExtensionAt(source, q, c)
  BY LeafFacts
<1>2. old = IF proxy[k] = ZeroWord THEN NoNode ELSE TwoItems(node.path, proxy[k])
  BY DEF RestoreOldValueState
<1>. HIDE DEF k, node, old
<1>3. Below(source, q) \subseteq {k} /\ Below(proxy, q) \subseteq {k}
  <2>1. \A j \in HeldByOne : IsPrefix(q, j) => j = k
    BY <1>1, OwnPlace DEF Sendable
  <2>. QED BY <2>1 DEF Below, HeldByOne
<1>4. node.path = Encoded(2, Rest(q, k))
  <2>1. ~(k \notin Held(source) /\ \E j \in Held(source) : Below(source, q) = {j})
    BY <1>3
  <2>2. ~(\E c \in Strings : IsExtensionAt(source, q, c))
    <3>1. SUFFICES ASSUME NEW c \in Strings, IsExtensionAt(source, q, c) PROVE FALSE
      OBVIOUS
    <3>2. PICK i, j \in Below(source, q \o c) : i # j
      BY <3>1, BranchPair DEF IsExtensionAt
    <3>. QED BY <1>1, <1>3, <3>2, BelowLonger
  <2>3. \A a, b : TwoItems(a, b).path = a
    BY DEF TwoItems
  <2>. QED BY <1>1, <2>1, <2>2, <2>3
<1>5. CASE proxy[k] = ZeroWord
  <2>1. Below(proxy, q) = {}
    BY <1>3, <1>5 DEF Below, Held
  <2>2. k \in Below(source, q)
    BY <1>1, <1>5 DEF Below, Held, HeldByOne
  <2>. QED BY <1>1, <1>2, <1>5, <2>1, <2>2, NothingBelow DEF old
<1>6. CASE proxy[k] # ZeroWord
  <2>1. k \in Held(proxy) /\ \A j \in Held(proxy) : IsPrefix(q, j) => j = k
    BY <1>1, <1>3, <1>6 DEF Held, Below
  <2>2. NodeAt(proxy)[q] = TwoItems(Encoded(2, Rest(q, k)), proxy[k])
    BY <1>1, <2>1, NodeOfOne DEF Rest
  <2>3. old = NodeAt(proxy)[q] /\ NodeAt(proxy)[q] # NoNode
    BY <1>2, <1>4, <1>6, <2>2, NodeShapes
  <2>. QED BY <1>1, <2>3 DEF old
<1>. QED BY <1>5, <1>6

\* The leaves of all that changed are there, with the nodes above them.
AllSent == \A s \in Changed : LeafAt(Place(s)) /\ ProofOf(s) \subseteq DOMAIN tree

\* A child that is not in the tree is the same in both tries.
LEMMA QuietChild ==
  ASSUME Sendable, SameShape, AllSent, Held(source) # {}, NEW p \in Strings, IsBranchAt(source, p),
         NEW n \in Children, NEW q, q = Append(p, n), q \notin DOMAIN tree
  PROVE  NodeAt(source)[q] = NodeAt(proxy)[q]
<1>1. q \in Strings /\ Len(q) = Len(p) + 1 /\ IsPrefix(p, q) /\ Len(p) \in Nat
  BY ChildString DEF Strings
<1>2. SUFFICES ASSUME NEW s \in Slots, IsPrefix(q, s), source[s] # proxy[s] PROVE FALSE
  BY <1>1, SameWordsSameNode
<1>3. s \in Changed /\ s \in HeldByOne /\ s \in Strings
  BY <1>2, SlotFacts DEF Changed, HeldByOne, Held
<1>4. LeafAt(Place(s)) /\ Place(s) # q /\ ProofOf(s) \subseteq DOMAIN tree
  BY <1>3 DEF AllSent, LeafAt
<1>5. /\ Place(s) \in Strings /\ IsPrefix(Place(s), s) /\ Len(Place(s)) \in Nat
      /\ End(s) \in Strings /\ IsPrefix(End(s), s) /\ End(s) \in DOMAIN nodes /\ Len(End(s)) \in Nat
  BY <1>2, PlaceFacts, EndOfProof DEF Strings, Sendable
<1>6. CASE Len(Place(s)) <= Len(p)
  <2>1. IsPrefix(p, s)
    BY <1>1, <1>2, <1>3, PrefixOfPrefix
  <2>2. IsPrefix(Place(s), p)
    BY <1>3, <1>5, <1>6, <2>1, PrefixesOfOne
  <2>3. PICK i, j \in Below(source, p) : i # j
    BY BranchPair DEF IsBranchAt
  <2>4. \A t \in Below(source, p) : t \in HeldByOne /\ IsPrefix(Place(s), t)
    <3>1. \A t \in Below(source, p) : t \in Strings /\ t \in HeldByOne /\ IsPrefix(p, t)
      BY HeldFacts DEF Below, HeldByOne
    <3>. QED BY <1>5, <2>2, <3>1, PrefixOfPrefix
  <2>5. i = s /\ j = s
    BY <1>3, <2>3, <2>4, OwnPlace DEF Sendable
  <2>. QED BY <2>3, <2>5
<1>7. CASE Len(Place(s)) = Len(q)
  <2>1. Len(Place(s)) <= Len(q)
    BY <1>5, <1>7
  <2>2. Place(s) = q
    BY <1>1, <1>2, <1>3, <1>5, <1>7, <2>1, PrefixesOfOne
  <2>. QED BY <1>4, <2>2
<1>8. CASE Len(Place(s)) > Len(q)
  <2>1. Len(End(s)) >= Len(q)
    <3>1. CASE IsBranch(nodes[End(s)])
      <4>1. Len(Place(s)) = Len(End(s)) + 1
        BY <1>2, <3>1, EndIsBranch DEF Place, Sendable
      <4>. QED BY <1>1, <1>5, <1>8, <4>1
    <3>2. CASE ~IsBranch(nodes[End(s)])
      BY <1>1, <1>5, <1>8, <3>2 DEF Place
    <3>. QED BY <3>1, <3>2
  <2>2. IsPrefix(q, End(s))
    BY <1>1, <1>2, <1>3, <1>5, <2>1, PrefixesOfOne
  <2>3. Below(source, End(s)) # {}
    BY <1>5, TracedNodes, PositionHolds DEF Sendable
  <2>4. Below(source, q) # {}
    <3>1. PICK t \in Below(source, End(s)) : TRUE
      BY <2>3
    <3>2. t \in Held(source) /\ t \in Strings /\ IsPrefix(End(s), t)
      BY <3>1, HeldFacts DEF Below
    <3>3. IsPrefix(q, t)
      BY <1>1, <1>5, <2>2, <3>2, PrefixOfPrefix
    <3>. QED BY <3>2, <3>3 DEF Below
  <2>5. q \in DOMAIN nodes
    BY <2>4, BranchPositions DEF IsBranchAt, Sendable, Traced, NodesOf
  <2>6. q \in ProofOf(s)
    BY <1>2, <2>5 DEF ProofOf
  <2>. QED BY <1>4, <2>6
<1>. QED BY <1>1, <1>5, <1>6, <1>7, <1>8

\* A turn that does not revert, and counts whom it has to.
GoesOn(p, info, n, new) ==
  ~new.reverts /\ new.amount = IF Contributes(p, n) THEN info.amount + 1 ELSE info.amount

LEMMA ChildGoesOn ==
  ASSUME NEW p, NEW n \in Children, NEW info, IsInfo(info), ~info.reverts, info.amount \in Nat, NEW below,
         IsInner(Append(p, n)) => IsPresent(p, n) /\ below.type = "HASHED"
  PROVE  GoesOn(p, info, n, OldChild(p, info, n, below))
<1>. DEFINE q == Append(p, n)
            present == IsPresent(p, n)
            a == IF present THEN info.amount + 1 ELSE info.amount
            i == IF present /\ info.index = BranchSize THEN n ELSE info.index
            counted == [info EXCEPT !.amount = a, !.index = i]
            old == RestoreOldValueState(tree[q])
            new == OldChild(p, info, n, below)
            b == IF present THEN counted.amount ELSE counted.amount + 1
            c == IF present THEN counted.amount - 1 ELSE counted.amount
            d == IF present /\ counted.index = n THEN BranchSize ELSE counted.index
<1>1. Tallies(p, info, n, new)
  BY ChildTurn
<1>2. \/ new = counted
      \/ new = [counted EXCEPT !.list[n] = old, !.amount = b]
      \/ new = [counted EXCEPT !.list[n] = old, !.amount = c, !.index = d]
      \/ IsInner(q) /\ new = [PutBack(counted, n, below) EXCEPT !.index = n]
  <2>1. IsInner(q) \/ Sent(q).kind = "empty" \/ LeafAt(q)
    BY ItemKinds
  <2>. HIDE DEF q, present, a, i, old
  <2>2. new = CASE Sent(q).kind = "empty" -> counted
                [] LeafAt(q) /\ old # NoNode ->
                     [counted EXCEPT !.list[n] = old, !.amount = IF present THEN @ ELSE @ + 1]
                [] LeafAt(q) /\ old = NoNode ->
                     [counted EXCEPT !.list[n] = old,
                                     !.amount = IF present THEN @ - 1 ELSE @,
                                     !.index = IF present /\ @ = n THEN BranchSize ELSE @]
                [] OTHER -> [PutBack(counted, n, below) EXCEPT !.index = n]
    BY DEF OldChild, q, present, a, i, old
  <2>. HIDE DEF counted, new
  <2>. QED BY <2>1, <2>2
<1>3. DOMAIN counted = Fields /\ counted.reverts = info.reverts /\ IsInfo(counted)
  <2>. HIDE DEF a, i
  <2>. DEFINE R == [info EXCEPT !.amount = a]
  <2>1. counted = [R EXCEPT !.index = i]
    OBVIOUS
  <2>2. DOMAIN R = Fields /\ R.list = info.list /\ R.values = info.values /\ R.reverts = info.reverts
    BY DEF IsInfo, Fields
  <2>. HIDE DEF R, counted
  <2>3. DOMAIN counted = Fields /\ counted.list = R.list /\ counted.values = R.values /\ counted.reverts = R.reverts
    BY <2>1, <2>2 DEF Fields
  <2>. QED BY <2>2, <2>3 DEF IsInfo
<1>. HIDE DEF counted, new, old, b, c, d
<1>4. CASE new = counted
  BY <1>1, <1>3, <1>4 DEF GoesOn, Tallies, new
<1>5. CASE \/ new = [counted EXCEPT !.list[n] = old, !.amount = b]
           \/ new = [counted EXCEPT !.list[n] = old, !.amount = c, !.index = d]
  <2>. DEFINE R == [counted EXCEPT !.list[n] = old]
              S == [R EXCEPT !.amount = c]
  <2>1. new = [R EXCEPT !.amount = b] \/ new = [S EXCEPT !.index = d]
    BY <1>5
  <2>2. DOMAIN R = Fields /\ R.reverts = info.reverts
    BY <1>3 DEF Fields
  <2>. HIDE DEF R
  <2>3. DOMAIN S = Fields /\ S.reverts = info.reverts
    BY <2>2 DEF Fields
  <2>. HIDE DEF S
  <2>4. new.reverts = info.reverts
    BY <2>1, <2>2, <2>3 DEF Fields
  <2>. QED BY <1>1, <2>4 DEF GoesOn, Tallies, new
<1>6. CASE IsInner(q) /\ new = [PutBack(counted, n, below) EXCEPT !.index = n]
  <2>. DEFINE R == PutBack(counted, n, below)
  <2>1. PutsBack(counted, n, below, R) /\ below.type = "HASHED"
    BY <1>3, <1>6, PutBackIs
  <2>. HIDE DEF R
  <2>2. DOMAIN R = Fields /\ R.reverts = info.reverts
    BY <1>3, <2>1 DEF PutsBack
  <2>3. new = [R EXCEPT !.index = n]
    BY <1>6 DEF R
  <2>4. new.reverts = info.reverts
    BY <2>2, <2>3 DEF Fields
  <2>. QED BY <1>1, <2>4 DEF GoesOn, Tallies, new
<1>. QED BY <1>2, <1>4, <1>5, <1>6

\* At the root only if nothing is taken away that is not there.
LEMMA RootGoesOn ==
  ASSUME NEW n \in Children, NEW info, IsInfo(info), ~info.reverts, info.amount \in Nat, NEW below,
         IsInner(<<n>>) => IsPresent(<<>>, n) /\ below.type = "HASHED",
         LeafAt(<<n>>) /\ RestoreOldValueState(tree[<<n>>]) = NoNode => IsPresent(<<>>, n)
  PROVE  GoesOn(<<>>, info, n, OldChildOfRoot(info, n, below))
<1>. DEFINE q == <<n>>
            present == IsPresent(<<>>, n)
            a == IF present THEN info.amount + 1 ELSE info.amount
            counted == [info EXCEPT !.amount = a]
            old == RestoreOldValueState(tree[q])
            new == OldChildOfRoot(info, n, below)
            b == IF present THEN counted.amount ELSE counted.amount + 1
            d == counted.amount - 1
            e == IF below.type = "HASHED" THEN n ELSE PutBack(counted, n, below).index
<1>1. Contributes(<<>>, n) <=> IF LeafAt(q) THEN old # NoNode ELSE present
  BY DEF Contributes
<1>2. DOMAIN counted = Fields /\ counted.reverts = info.reverts /\ counted.amount = a /\ IsInfo(counted)
  <2>. HIDE DEF a
  <2>1. /\ DOMAIN counted = Fields /\ counted.list = info.list /\ counted.values = info.values
        /\ counted.reverts = info.reverts /\ counted.amount = a
    BY DEF IsInfo, Fields
  <2>. HIDE DEF counted
  <2>. QED BY <2>1 DEF IsInfo
<1>3. /\ Sent(q).kind = "empty" => new = counted
      /\ LeafAt(q) /\ old # NoNode => new = [counted EXCEPT !.list[n] = old, !.index = n, !.amount = b]
      /\ LeafAt(q) /\ old = NoNode => new = [counted EXCEPT !.list[n] = old, !.amount = d]
      /\ IsInner(q) => new = [PutBack(counted, n, below) EXCEPT !.index = e]
  <2>1. /\ LeafAt(q) => Sent(q).kind # "empty"
        /\ IsInner(q) => Sent(q).kind # "empty" /\ ~LeafAt(q)
    BY ItemKinds
  <2>2. LeafAt(q) /\ old = NoNode => counted.amount # 0
    BY <1>2
  <2>. HIDE DEF q, present, a, old
  <2>3. new = CASE Sent(q).kind = "empty" -> counted
                [] LeafAt(q) /\ old # NoNode ->
                     [counted EXCEPT !.list[n] = old, !.index = n, !.amount = IF present THEN @ ELSE @ + 1]
                [] LeafAt(q) /\ old = NoNode ->
                     IF counted.amount = 0 THEN [info EXCEPT !.reverts = TRUE]
                     ELSE [counted EXCEPT !.list[n] = old, !.amount = @ - 1]
                [] OTHER -> [PutBack(counted, n, below) EXCEPT !.index = IF below.type = "HASHED" THEN n ELSE @]
    BY DEF OldChildOfRoot, q, present, a, old
  <2>. HIDE DEF counted, new
  <2>. QED BY <2>1, <2>2, <2>3
<1>. HIDE DEF counted, new, old, b, d, e
<1>4. CASE Sent(q).kind = "empty"
  <2>1. new = counted /\ ~LeafAt(q)
    BY <1>3, <1>4, ItemKinds
  <2>. QED BY <1>1, <1>2, <2>1 DEF GoesOn, new
<1>5. CASE LeafAt(q)
  <2>. DEFINE R == [counted EXCEPT !.list[n] = old]
              S == [R EXCEPT !.index = n]
  <2>1. /\ old # NoNode => new = [S EXCEPT !.amount = b]
        /\ old = NoNode => new = [R EXCEPT !.amount = d]
    BY <1>3, <1>5
  <2>2. DOMAIN R = Fields /\ R.reverts = info.reverts
    BY <1>2 DEF Fields
  <2>. HIDE DEF R
  <2>3. DOMAIN S = Fields /\ S.reverts = info.reverts
    BY <2>2 DEF Fields
  <2>. HIDE DEF S
  <2>4. new.reverts = info.reverts /\ new.amount = IF old # NoNode THEN b ELSE d
    BY <2>1, <2>2, <2>3 DEF Fields
  <2>5. old # NoNode => b = info.amount + 1
    BY <1>2 DEF b
  <2>6. old = NoNode => d = info.amount
    <3>1. old = NoNode => present
      BY <1>5 DEF old
    <3>. QED BY <1>2, <3>1 DEF d
  <2>. QED BY <1>1, <1>5, <2>4, <2>5, <2>6 DEF GoesOn, new
<1>6. CASE IsInner(q)
  <2>. DEFINE R == PutBack(counted, n, below)
  <2>1. PutsBack(counted, n, below, R) /\ below.type = "HASHED" /\ present /\ ~LeafAt(q)
    BY <1>2, <1>6, PutBackIs, ItemKinds
  <2>. HIDE DEF R
  <2>2. DOMAIN R = Fields /\ R.reverts = info.reverts /\ R.amount = info.amount + 1
    BY <1>2, <2>1 DEF PutsBack
  <2>3. new = [R EXCEPT !.index = e]
    BY <1>3, <1>6 DEF R
  <2>4. new.reverts = info.reverts /\ new.amount = R.amount
    BY <2>2, <2>3 DEF Fields
  <2>. QED BY <1>1, <2>1, <2>2, <2>4 DEF GoesOn, new
<1>. QED BY <1>4, <1>5, <1>6, ItemKinds

\* computeOldItem finds the node the proxy has.
Restored(q) ==
  \A height \in Nat :
    LET r == OldItem[q][height]
    IN  r.type = "HASHED" /\ r.item = NodeAt(proxy)[q] /\ r.height \in Nat /\ r.height >= height

ChildRestored(p, n) ==
  LET q == Append(p, n)
  IN  /\ IsInner(q) => IsPresent(p, n) /\ Restored(q)
      /\ LeafAt(q) => /\ RestoreOldValueState(tree[q]) = NodeAt(proxy)[q]
                      /\ NodeAt(proxy)[q] = NoNode => IsPresent(p, n)
      /\ ~LeafAt(q) /\ ~IsInner(q) => nodes[p].children[n] = NodeAt(proxy)[q]

IsChildren(f) == f = [n \in Children |-> f[n]]

\* The loop goes on, and counts the children.
Steady(p, info, m) ==
  /\ IsChildren(info.list) /\ ~info.reverts /\ info.unhashed = {} /\ info.amount \in Nat
  /\ info.amount = 0 => \A n \in Children : n < m => ~Contributes(p, n)
  /\ info.amount = 1 => \E c \in Children : \A n \in Children : n < m /\ Contributes(p, n) => n = c

LEMMA SteadyStep ==
  ASSUME NEW p, NEW info, NEW m \in Children, Steady(p, info, m), NEW new, GoesOn(p, info, m, new),
         new.unhashed = {}, IsChildren(new.list)
  PROVE  Steady(p, new, m + 1)
<1>1. \A n \in Children : n < m + 1 => n < m \/ n = m
  BY SlotsAssumption DEF Children
<1>2. info.amount \in Nat /\ ~new.reverts
  BY DEF Steady, GoesOn
<1>3. CASE Contributes(p, m)
  <2>1. new.amount = info.amount + 1
    BY <1>3 DEF GoesOn
  <2>2. new.amount \in Nat /\ new.amount # 0
    BY <1>2, <2>1
  <2>3. ASSUME new.amount = 1 PROVE \A n \in Children : n < m + 1 /\ Contributes(p, n) => n = m
    <3>1. info.amount = 0
      BY <1>2, <2>1, <2>3
    <3>. QED BY <1>1, <3>1 DEF Steady
  <2>. QED BY <1>2, <2>2, <2>3 DEF Steady
<1>4. CASE ~Contributes(p, m)
  <2>1. new.amount = info.amount
    BY <1>4 DEF GoesOn
  <2>2. new.amount = 0 => \A n \in Children : n < m + 1 => ~Contributes(p, n)
    BY <1>1, <1>4, <2>1 DEF Steady
  <2>3. new.amount = 1 => \E c \in Children : \A n \in Children : n < m + 1 /\ Contributes(p, n) => n = c
    BY <1>1, <1>4, <2>1 DEF Steady
  <2>. QED BY <1>2, <2>1, <2>2, <2>3 DEF Steady
<1>. QED BY <1>3, <1>4

LEMMA TurnRestores ==
  ASSUME NEW p, NEW start \in Nat, NEW n \in Children, ChildRestored(p, n), Balanced(p, OldItem),
         NEW info, LoopInv(p, start, OldItem, info, n), Steady(p, info, n),
         NEW new, new = NextTurn(p, info, n, OldItem[Append(p, n)][info.height])
  PROVE  LoopInv(p, start, OldItem, new, n + 1) /\ Steady(p, new, n + 1)
<1>. DEFINE q == Append(p, n)
            below == OldItem[q][info.height]
<1>1. IsInfo(info) /\ info.height \in Nat /\ ~info.reverts /\ info.amount \in Nat /\ info.unhashed = {}
  BY DEF LoopInv, Steady
<1>2. IsInner(q) => IsPresent(p, n) /\ below.type = "HASHED"
  BY <1>1 DEF ChildRestored, Restored
<1>3. LeafAt(q) /\ RestoreOldValueState(tree[q]) = NoNode => IsPresent(p, n)
  BY DEF ChildRestored
<1>4. new = IF p = <<>> THEN OldChildOfRoot(info, n, below) ELSE OldChild(p, info, n, below)
  BY <1>1 DEF NextTurn
<1>. HIDE DEF below
<1>5. Takes(p, info, n, below, new) /\ GoesOn(p, info, n, new)
  <2>1. CASE p = <<>>
    <3>1. q = <<n>>
      BY <2>1
    <3>. QED BY <1>1, <1>2, <1>3, <1>4, <2>1, <3>1, RootTurn, RootGoesOn
  <2>2. CASE p # <<>>
    <3>1. info.amount \in Int
      BY <1>1
    <3>2. Takes(p, info, n, below, new)
      BY <1>1, <1>2, <1>4, <2>2, <3>1, ChildTurn
    <3>3. GoesOn(p, info, n, new)
      BY <1>1, <1>2, <1>4, <2>2, ChildGoesOn
    <3>. QED BY <3>2, <3>3
  <2>. QED BY <2>1, <2>2
<1>6. new.unhashed = {} /\ IsChildren(new.list)
  <2>1. ~new.reverts
    BY <1>5 DEF GoesOn
  <2>2. new.unhashed = {} /\ (new.list = info.list \/ \E x : new.list = Put(info.list, n, x))
    BY <1>1, <1>2, <1>5, <2>1, ItemKinds DEF Takes
  <2>3. ASSUME NEW x, new.list = Put(info.list, n, x) PROVE IsChildren(new.list)
    <3>1. DOMAIN info.list = Children
      BY <1>1 DEF IsInfo
    <3>. QED BY <2>3, <3>1 DEF Put, IsChildren
  <2>4. IsChildren(info.list)
    BY DEF Steady
  <2>. QED BY <2>2, <2>3, <2>4
<1>7. Steady(p, new, n + 1)
  BY <1>5, <1>6, SteadyStep
<1>8. LoopInv(p, start, OldItem, new, n + 1)
  BY <1>1, <1>5, LoopStep DEF below
<1>. QED BY <1>7, <1>8

\* A child of the old branch contributes if something is below it.
LEMMA ChildContributes ==
  ASSUME NEW p \in Strings, NEW n \in Children, ChildRestored(p, n), Below(proxy, Append(p, n)) # {}
  PROVE  Contributes(p, n)
<1>. DEFINE q == Append(p, n)
<1>1. NodeAt(proxy)[q] # NoNode
  BY ChildString, TellsEmpty
<1>. QED BY <1>1, ItemKinds DEF ChildRestored, Contributes, IsPresent

LEMMA LoopRestores ==
  ASSUME NEW p \in Strings, NEW start \in Nat, p \in BranchesOf(Held(proxy)),
         IsChildren(nodes[p].children), \A n \in Children : ChildRestored(p, n),
         NEW info, info = OldTurns(p, LoopStart(p, start), OldItem)[BranchSize]
  PROVE  /\ ~info.reverts /\ info.unhashed = {} /\ info.amount # 1
         /\ info.height \in Nat /\ info.height >= start
         /\ info.list = [n \in Children |-> NodeAt(proxy)[Append(p, n)]]
<1>. DEFINE turn == OldTurns(p, LoopStart(p, start), OldItem)
            Inv(m) == LoopInv(p, start, OldItem, turn[m], m) /\ Steady(p, turn[m], m)
            T == {m \in Nat : m <= BranchSize => Inv(m)}
<1>1. \A i \in 0..BranchSize : turn[i] = TurnFrom(p, LoopStart(p, start), OldItem, turn, i)
  BY OldTurnsFixpoint
<1>2. BranchSize \in Nat /\ Children = 0..(BranchSize - 1)
  BY SlotsAssumption DEF Children
<1>3. Balanced(p, OldItem)
  BY DEF Balanced, ChildRestored, Restored
<1>4. 0 \in T
  <2>1. turn[0] = LoopStart(p, start)
    BY <1>1, <1>2 DEF TurnFrom
  <2>. HIDE DEF turn
  <2>2. LoopInv(p, start, OldItem, turn[0], 0) /\ turn[0].amount = 0 /\ turn[0].unhashed = {} /\ ~turn[0].reverts
    BY <2>1, LoopStarts DEF IsChildren
  <2>3. \A n \in Children : ~(n < 0)
    BY <1>2
  <2>4. turn[0].list = nodes[p].children
    BY <2>1 DEF LoopStart
  <2>. QED BY <2>2, <2>3, <2>4 DEF Steady
<1>5. ASSUME NEW m \in T PROVE m + 1 \in T
  <2>1. SUFFICES ASSUME m + 1 <= BranchSize PROVE Inv(m + 1)
    OBVIOUS
  <2>2. m \in Children /\ m \in Nat /\ m + 1 \in 0..BranchSize /\ m + 1 # 0 /\ (m + 1) - 1 = m /\ Inv(m)
    BY <1>2, <2>1
  <2>3. turn[m + 1] = NextTurn(p, turn[m], m, OldItem[Append(p, m)][turn[m].height])
    BY <1>1, <2>2 DEF TurnFrom
  <2>. HIDE DEF turn
  <2>. QED BY <1>3, <2>2, <2>3, TurnRestores
<1>6. BranchSize \in T
  <2>1. T \in SUBSET Nat
    OBVIOUS
  <2>. HIDE DEF T
  <2>. QED BY <1>2, <1>4, <1>5, <2>1, Induction
<1>7. LoopInv(p, start, OldItem, info, BranchSize) /\ Steady(p, info, BranchSize)
  BY <1>2, <1>6
<1>. HIDE DEF turn, T
<1>8. \A n \in Children : n < BranchSize /\ Done(p, OldItem, info, n)
  BY <1>2, <1>7 DEF LoopInv, Steady
<1>9. IsInfo(info) /\ info.height \in Nat /\ info.height >= start /\ ~info.reverts /\ info.unhashed = {}
  BY <1>7 DEF LoopInv, Steady
<1>10. ASSUME NEW n \in Children PROVE info.list[n] = NodeAt(proxy)[Append(p, n)]
  <2>. DEFINE q == Append(p, n)
  <2>1. Done(p, OldItem, info, n) /\ ChildRestored(p, n)
    BY <1>8
  <2>2. CASE IsInner(q)
    <3>1. PICK height \in Nat :
            IF OldItem[q][height].type = "HASHED" THEN info.list[n] = OldItem[q][height].item ELSE TRUE
      BY <2>1, <2>2 DEF Done
    <3>. QED BY <2>1, <2>2, <3>1 DEF ChildRestored, Restored
  <2>3. CASE ~IsInner(q)
    BY <2>1, <2>3 DEF Done, ChildRestored
  <2>. QED BY <2>2, <2>3
<1>11. info.list = [n \in Children |-> NodeAt(proxy)[Append(p, n)]]
  <2>1. info.list = [n \in Children |-> info.list[n]]
    BY <1>7 DEF Steady, IsChildren
  <2>. QED BY <1>10, <2>1
<1>12. info.amount # 1
  <2>1. PICK j, k \in Below(proxy, p) : j[Len(p) + 1] # k[Len(p) + 1]
    BY BranchParts
  <2>2. ASSUME NEW s \in {j, k}
        PROVE  s[Len(p) + 1] \in Children /\ Below(proxy, Append(p, s[Len(p) + 1])) # {}
    <3>1. /\ j \in Slots /\ k \in Slots /\ j # k /\ IsPrefix(p, j) /\ IsPrefix(p, k)
          /\ j \in Held(proxy) /\ k \in Held(proxy)
      BY <2>1, HeldFacts DEF Below
    <3>2. s[Len(p) + 1] \in Children /\ IsPrefix(Append(p, s[Len(p) + 1]), s)
      BY <3>1, SlotsPart
    <3>. QED BY <3>1, <3>2 DEF Below
  <2>3. Contributes(p, j[Len(p) + 1]) /\ Contributes(p, k[Len(p) + 1])
    BY <2>2, ChildContributes
  <2>. QED BY <1>7, <1>8, <2>1, <2>2, <2>3 DEF Steady
<1>. QED BY <1>9, <1>11, <1>12

\* What is known when the call is sent, if all that changed was asked for.
AllRestorable == Sendable /\ SameShape /\ AllSent /\ Held(source) # {}

LEMMA ChildrenRestored ==
  ASSUME AllRestorable, NEW p, IsInner(p), tree[p].kind = "branch",
         \A n \in Children : IsInner(Append(p, n)) => Restored(Append(p, n))
  PROVE  /\ p \in Strings /\ p \in BranchesOf(Held(source)) /\ p \in BranchesOf(Held(proxy))
         /\ IsBranchAt(proxy, p) /\ IsChildren(nodes[p].children)
         /\ \A n \in Children : ChildRestored(p, n)
<1>1. /\ p \in Strings /\ p \in DOMAIN tree /\ IsBranchAt(source, p)
      /\ nodes[p].children = [n \in Children |-> NodeAt(source)[Append(p, n)]]
      /\ \A n \in Children : IsInner(Append(p, n)) => IsPresent(p, n)
  BY InnerFacts DEF IsInner, AllRestorable
<1>2. p \in BranchesOf(Held(source)) /\ p \in BranchesOf(Held(proxy))
  BY <1>1 DEF IsBranchAt, AllRestorable, SameShape
<1>3. IsBranchAt(proxy, p)
  BY <1>2, BranchAtBranch
<1>4. IsChildren(nodes[p].children)
  BY <1>1 DEF IsChildren
<1>5. ASSUME NEW n \in Children PROVE ChildRestored(p, n)
  <2>. DEFINE q == Append(p, n)
  <2>1. nodes[p].children[n] = NodeAt(source)[q] /\ q \in Strings
    BY <1>1, ChildString
  <2>2. IsInner(q) => IsPresent(p, n) /\ Restored(q)
    BY <1>1
  <2>3. ASSUME LeafAt(q)
        PROVE  /\ RestoreOldValueState(tree[q]) = NodeAt(proxy)[q]
               /\ NodeAt(proxy)[q] = NoNode => IsPresent(p, n)
    <3>1. /\ RestoreOldValueState(tree[q]) = NodeAt(proxy)[q]
          /\ NodeAt(proxy)[q] = NoNode => Below(source, q) # {}
      BY <2>3, LeafRestored DEF AllRestorable
    <3>2. Below(source, q) # {} => NodeAt(source)[q] # NoNode
      BY <2>1, TellsEmpty
    <3>. QED BY <2>1, <3>1, <3>2 DEF IsPresent
  <2>4. ASSUME ~LeafAt(q), ~IsInner(q) PROVE nodes[p].children[n] = NodeAt(proxy)[q]
    <3>1. q \notin DOMAIN tree
      BY <2>4, ItemIs DEF AllRestorable
    <3>2. NodeAt(source)[q] = NodeAt(proxy)[q]
      BY <1>1, <3>1, QuietChild DEF AllRestorable
    <3>. QED BY <2>1, <3>2
  <2>. QED BY <2>2, <2>3, <2>4 DEF ChildRestored
<1>. QED BY <1>1, <1>2, <1>3, <1>4, <1>5

LEMMA BranchRestored ==
  ASSUME AllRestorable, NEW p, IsInner(p), tree[p].kind = "branch",
         \A n \in Children : IsInner(Append(p, n)) => Restored(Append(p, n))
  PROVE  Restored(p)
<1>1. /\ p \in Strings /\ p \in BranchesOf(Held(proxy)) /\ IsBranchAt(proxy, p)
      /\ IsChildren(nodes[p].children) /\ \A n \in Children : ChildRestored(p, n)
  BY ChildrenRestored
<1>. SUFFICES ASSUME NEW height \in Nat, NEW r, r = OldItem[p][height]
              PROVE  r.type = "HASHED" /\ r.item = NodeAt(proxy)[p] /\ r.height \in Nat /\ r.height >= height
  BY DEF Restored
<1>. DEFINE start == height + 1
            info == OldTurns(p, LoopStart(p, start), OldItem)[BranchSize]
            children == [n \in Children |-> NodeAt(proxy)[Append(p, n)]]
<1>2. r = OldBranch(info)
  <2>1. p \in DOMAIN tree /\ OldItem[p] = ItemFrom(OldItem, p)
    BY SendableItems, OldItemFixpoint DEF AllRestorable, IsInner
  <2>. QED BY <2>1 DEF ItemFrom
<1>3. start \in Nat
  OBVIOUS
<1>4. /\ ~info.reverts /\ info.unhashed = {} /\ info.amount # 1
      /\ info.height \in Nat /\ info.height >= start /\ info.list = children
  <2>. HIDE DEF start
  <2>. QED BY <1>1, <1>3, LoopRestores
<1>. HIDE DEF info
<1>5. r = Returned("HASHED", Branch(children), info.height - 1)
  <2>. DEFINE f == [n \in Children |-> IF n \in {m \in info.unhashed : info.values[m].kind = "leaf"}
                                       THEN RestoreLeafAtPos(info.values[n], info.height) ELSE info.list[n]]
  <2>1. f = children
    BY <1>4
  <2>2. ~(info.amount = 1 /\ info.index < BranchSize) /\ ~(\E n \in info.unhashed : info.values[n].kind = "empty")
    BY <1>4
  <2>3. r = Returned("HASHED", Branch(f), info.height - 1)
    <3>. HIDE DEF children
    <3>. QED BY <1>2, <1>4, <2>2 DEF OldBranch
  <2>. QED BY <2>1, <2>3
<1>6. NodeAt(proxy)[p] = Branch(children)
  BY <1>1 DEF IsBranchAt
<1>. HIDE DEF children
<1>7. r.type = "HASHED" /\ r.item = NodeAt(proxy)[p] /\ r.height = info.height - 1
  BY <1>5, <1>6, ReturnedFields
<1>. QED BY <1>4, <1>7

LEMMA ExtensionRestored ==
  ASSUME AllRestorable, NEW p, IsInner(p), tree[p].kind = "extension",
         NEW e \in Strings, IsExtensionAt(source, p, e), NEW q, q = p \o e, BelowExtension(p) = q, Restored(q)
  PROVE  Restored(p)
<1>1. p \in Strings /\ p \in DOMAIN tree /\ nodes[p] = NodeAt(source)[p]
  BY InnerFacts DEF IsInner, AllRestorable
<1>2. nodes[p].path = Encoded(0, e)
  <2>1. \A a, b : TwoItems(a, b).path = a
    BY DEF TwoItems
  <2>. QED BY <1>1, <2>1 DEF IsExtensionAt
<1>3. NodeAt(proxy)[p] = TwoItems(Encoded(0, e), NodeAt(proxy)[q])
  <2>1. BranchesOf(Held(source)) = BranchesOf(Held(proxy))
    BY DEF AllRestorable, SameShape
  <2>2. p \notin BranchesOf(Held(source)) /\ p \o e \in BranchesOf(Held(source))
    BY <1>1, ExtensionIsNoBranch DEF IsExtensionAt
  <2>. QED BY <1>1, <2>1, <2>2, SameExtension
<1>. SUFFICES ASSUME NEW height \in Nat, NEW r, r = OldItem[p][height]
              PROVE  r.type = "HASHED" /\ r.item = NodeAt(proxy)[p] /\ r.height \in Nat /\ r.height >= height
  BY DEF Restored
<1>. DEFINE start == height + 1
            below == OldItem[q][start]
<1>4. r = OldExtension(p, below)
  <2>1. OldItem[p] = ItemFrom(OldItem, p)
    BY <1>1, SendableItems, OldItemFixpoint DEF AllRestorable
  <2>. QED BY <2>1 DEF ItemFrom
<1>5. start \in Nat /\ start = height + 1
  OBVIOUS
<1>6. below.type = "HASHED" /\ below.item = NodeAt(proxy)[q] /\ below.height \in Nat /\ below.height >= start
  <2>. HIDE DEF start
  <2>. QED BY <1>5 DEF Restored
<1>. HIDE DEF below, start
<1>7. r = Returned("HASHED", TwoItems(nodes[p].path, below.item), below.height - 1)
  BY <1>4, <1>6 DEF OldExtension
<1>8. r.type = "HASHED" /\ r.item = NodeAt(proxy)[p] /\ r.height = below.height - 1
  BY <1>2, <1>3, <1>6, <1>7, ReturnedFields
<1>. QED BY <1>5, <1>6, <1>8

\* From the longest positions up, every item below the root is restored.
LEMMA ItemsRestored ==
  ASSUME AllRestorable
  PROVE  \A p : IsInner(p) => Restored(p)
<1>1. PICK l \in Nat : \A s \in Slots : Len(s) = l
  BY SlotFacts
<1>2. \A p : IsInner(p) => p \in Strings /\ Len(p) \in Nat /\ Len(p) <= l
  <2>1. SUFFICES ASSUME NEW p, IsInner(p) PROVE p \in Strings /\ Len(p) \in Nat /\ Len(p) <= l
    OBVIOUS
  <2>2. p \in DOMAIN tree
    BY <2>1 DEF IsInner
  <2>3. PICK s \in Slots : p \in Strings /\ IsPrefix(p, s)
    BY <2>2, SendableItems DEF ItemsAreFound, AllRestorable
  <2>4. s \in Strings /\ Len(s) = l /\ Len(p) \in Nat
    BY <1>1, <2>3, SlotFacts DEF Strings
  <2>. QED BY <2>3, <2>4, PrefixFacts
<1>. DEFINE T == {m \in Nat : \A p : IsInner(p) /\ Len(p) + m > l => Restored(p)}
<1>3. 0 \in T
  <2>1. \A p : IsInner(p) => ~(Len(p) + 0 > l)
    BY <1>2
  <2>. QED BY <2>1
<1>4. ASSUME NEW m \in T PROVE m + 1 \in T
  <2>1. m \in Nat /\ \A p : IsInner(p) /\ Len(p) + m > l => Restored(p)
    OBVIOUS
  <2>2. ASSUME NEW p, IsInner(p), Len(p) + (m + 1) > l PROVE Restored(p)
    <3>1. p \in Strings /\ Len(p) \in Nat
      BY <1>2, <2>2
    <3>2. ASSUME NEW q, IsInner(q), Len(q) > Len(p) PROVE Restored(q)
      <4>1. Len(q) \in Nat
        BY <1>2, <3>2
      <4>2. Len(q) + m > l
        BY <2>1, <2>2, <3>1, <3>2, <4>1
      <4>. QED BY <2>1, <3>2, <4>2
    <3>3. CASE tree[p].kind = "branch"
      <4>1. ASSUME NEW n \in Children, IsInner(Append(p, n)) PROVE Restored(Append(p, n))
        <5>1. Len(Append(p, n)) = Len(p) + 1
          BY <3>1, ChildString
        <5>2. Len(Append(p, n)) > Len(p)
          BY <3>1, <5>1
        <5>. QED BY <3>2, <4>1, <5>2
      <4>. QED BY <2>2, <3>3, <4>1, BranchRestored
    <3>4. CASE tree[p].kind = "extension"
      <4>1. PICK e \in Strings :
              IsExtensionAt(source, p, e) /\ BelowExtension(p) = p \o e /\ Len(p \o e) > Len(p) /\ IsInner(p \o e)
        BY <2>2, <3>4, InnerFacts DEF AllRestorable
      <4>2. Restored(p \o e)
        BY <3>2, <4>1
      <4>. QED BY <2>2, <3>4, <4>1, <4>2, ExtensionRestored
    <3>. QED BY <2>2, <3>3, <3>4, InnerFacts DEF AllRestorable
  <2>3. m + 1 \in Nat
    BY <2>1
  <2>. QED BY <2>2, <2>3
<1>5. l + 1 \in T
  <2>1. T \in SUBSET Nat
    OBVIOUS
  <2>. HIDE DEF T
  <2>. QED BY <1>3, <1>4, <2>1, Induction
<1>6. \A p : IsInner(p) => Len(p) + (l + 1) > l
  BY <1>2
<1>. QED BY <1>5, <1>6

LEMMA BranchRootRestored ==
  ASSUME AllRestorable, <<>> \in BranchesOf(Held(source))
  PROVE  OldRoots = {RootOf(proxy)} /\ NewRoot = nodes[<<>>]
<1>1. <<>> \in DOMAIN tree /\ <<>> \in Strings
  BY BranchPair DEF AllRestorable, Sendable, Readable, Assembled
<1>2. ~LeafAt(<<>>)
  <2>1. SUFFICES ASSUME LeafAt(<<>>) PROVE FALSE
    OBVIOUS
  <2>2. PICK k \in HeldByOne : <<>> = Place(k)
    BY <2>1, LeafFacts DEF AllRestorable
  <2>3. PICK i, j \in Below(source, <<>>) : i # j
    BY BranchPair
  <2>4. \A t \in Below(source, <<>>) : t \in HeldByOne /\ IsPrefix(Place(k), t)
    BY <2>2 DEF Below, HeldByOne
  <2>5. i = k /\ j = k
    BY <2>4, OwnPlace DEF AllRestorable, Sendable
  <2>. QED BY <2>3, <2>5
<1>3. IsInner(<<>>)
  BY <1>1, <1>2, ItemIs DEF AllRestorable
<1>4. tree[<<>>].kind = "branch"
  <2>1. SUFFICES ASSUME tree[<<>>].kind # "branch" PROVE FALSE
    OBVIOUS
  <2>2. PICK e \in Strings : IsExtensionAt(source, <<>>, e)
    BY <1>3, <2>1, InnerFacts DEF AllRestorable
  <2>. QED BY <1>1, <2>2, ExtensionIsNoBranch
<1>. DEFINE info == OldTurns(<<>>, LoopStart(<<>>, 1), OldItem)[BranchSize]
            children == [n \in Children |-> NodeAt(proxy)[Append(<<>>, n)]]
<1>5. OldRoots = {OldRootOfBranch(info)} /\ NewRoot = nodes[<<>>]
  BY <1>2, <1>4 DEF OldRoots, NewRoot
<1>6. /\ <<>> \in BranchesOf(Held(proxy)) /\ IsBranchAt(proxy, <<>>)
      /\ IsChildren(nodes[<<>>].children) /\ \A n \in Children : ChildRestored(<<>>, n)
  BY <1>3, <1>4, ChildrenRestored, ItemsRestored
<1>7. ~info.reverts /\ info.amount # 1 /\ info.list = children
  <2>1. ASSUME NEW p \in Strings, NEW start \in Nat, p \in BranchesOf(Held(proxy)),
               IsChildren(nodes[p].children), \A n \in Children : ChildRestored(p, n),
               NEW i, i = OldTurns(p, LoopStart(p, start), OldItem)[BranchSize]
        PROVE  ~i.reverts /\ i.amount # 1 /\ i.list = [n \in Children |-> NodeAt(proxy)[Append(p, n)]]
    BY <2>1, LoopRestores
  <2>2. 1 \in Nat
    OBVIOUS
  <2>. QED BY <1>1, <1>6, <2>1, <2>2, Zenon DEF info, children
<1>8. NodeAt(proxy)[<<>>] = Branch(children)
  BY <1>6 DEF IsBranchAt
<1>. HIDE DEF info, children
<1>9. OldRootOfBranch(info) = NodeAt(proxy)[<<>>]
  BY <1>7, <1>8 DEF OldRootOfBranch
<1>10. RootOf(proxy) = NodeAt(proxy)[<<>>]
  <2>1. PICK j \in Below(proxy, <<>>) : TRUE
    BY <1>6, BranchPair
  <2>2. Held(proxy) # {}
    BY <2>1 DEF Below
  <2>. QED BY <2>2 DEF RootOf
<1>. QED BY <1>5, <1>9, <1>10

LEMMA SingleRootRestored ==
  ASSUME AllRestorable, NEW k \in Slots, Held(source) = {k}, Held(proxy) \subseteq {k}
  PROVE  OldRoots = {RootOf(proxy)} /\ NewRoot = nodes[<<>>]
<1>1. <<>> \in DOMAIN tree
  BY DEF AllRestorable, Sendable, Readable, Assembled
<1>2. LeafAt(<<>>)
  <2>1. ~HoldsMany(source, <<>>)
    BY DEF HoldsMany, Below
  <2>. QED BY <1>1, <2>1, ItemIs, InnerFacts DEF AllRestorable
<1>3. HeldByOne = {k} /\ k \in Held(source)
  BY DEF HeldByOne
<1>4. /\ tree[<<>>].key = k /\ tree[<<>>].node = LeafNode(k) /\ <<>> = Place(k)
      /\ LeafNode(k) = TwoItems(Encoded(2, Rest(<<>>, k)), source[k])
  BY <1>2, <1>3, LeafFacts DEF AllRestorable
<1>5. LeafNode(k) = nodes[<<>>]
  <2>1. ~IsBranch(nodes[End(k)])
    BY <1>3, EndIsBranch DEF AllRestorable, Sendable
  <2>. QED BY <1>4, <2>1 DEF LeafNode, Place
<1>6. NewRoot = nodes[<<>>]
  <2>1. \A a, b : TwoItems(a, b).item = b
    BY DEF TwoItems
  <2>. DEFINE leaf == tree[<<>>]
  <2>2. Rest(<<>>, k) = SubSeq(leaf.key, 0 + 1, Len(leaf.key))
    BY <1>4 DEF Rest
  <2>4. leaf.node.item = source[k]
    BY <1>4, <2>1
  <2>. HIDE DEF leaf
  <2>3. RestoreLeafAtPos(leaf, 0) = TwoItems(Encoded(2, Rest(<<>>, k)), source[k])
    BY <2>2, <2>4, Zenon DEF RestoreLeafAtPos
  <2>. USE DEF leaf
  <2>. QED BY <1>2, <1>4, <1>5, <2>3 DEF NewRoot
<1>7. RestoreOldValueState(tree[<<>>]) = NodeAt(proxy)[<<>>]
  BY <1>2, LeafRestored DEF AllRestorable
<1>8. OldRoots = {RootOf(proxy)}
  <2>. DEFINE old == RestoreOldValueState(tree[<<>>])
  <2>1. OldRoots = {IF old = NoNode THEN EmptyRoot ELSE old}
    BY <1>2 DEF OldRoots, LeafAt
  <2>2. old = NodeAt(proxy)[<<>>]
    BY <1>7
  <2>. HIDE DEF old
  <2>. QED BY <2>1, <2>2, RootIs
<1>. QED BY <1>6, <1>8

-----------------------------------------------------------------------------
(***************************************************************************)
(* The tree that is sent, where no branch comes or goes.                   *)
(***************************************************************************)
Regular ==
  /\ SameShape
  /\ \/ <<>> \in BranchesOf(Held(source))
     \/ \E k \in Slots : Held(source) = {k} /\ Held(proxy) \subseteq {k}

\* Below each extension its branch, for each key its leaf, with the nodes above it.
Complete(t, keys) ==
  /\ \A p \in DOMAIN t : t[p].kind = "extension" =>
       BelowExtension(p) \in DOMAIN t /\ BelowExtension(p) \in BranchesOf(Held(source))
  /\ \A k \in keys : Place(k) \in DOMAIN t /\ t[Place(k)].kind = "leaf" /\ ProofOf(k) \subseteq DOMAIN t

LEMMA RegularHolds ==
  ASSUME Regular
  PROVE  Held(source) # {} /\ SameShape
<1>1. ASSUME <<>> \in BranchesOf(Held(source)) PROVE Held(source) # {}
  <2>1. PICK j \in Below(source, <<>>) : TRUE
    BY <1>1, BranchPair
  <2>. QED BY <2>1 DEF Below
<1>. QED BY <1>1 DEF Regular

\* The place of a leaf is above no branch, and below the other nodes of its proof.
LEMMA PlaceBelow ==
  ASSUME Traced, SameShape, Held(source) # {}, NEW k \in HeldByOne
  PROVE  /\ k \in Slots /\ Place(k) \in Strings /\ IsPrefix(Place(k), k)
         /\ \A b \in BranchesOf(Held(source)) : ~IsPrefix(Place(k), b)
         /\ \A r \in ProofOf(k) : IsPrefix(Place(k), r) => r = Place(k)
         /\ IsBranch(nodes[End(k)]) => ProofOf(k) \ {Place(k)} = ProofOf(k)
         /\ ~IsBranch(nodes[End(k)]) => Place(k) = End(k)
<1>1. k \in Slots /\ Place(k) \in Strings /\ IsPrefix(Place(k), k) /\ k \in Strings
  BY HeldFacts, PlaceFacts DEF HeldByOne
<1>2. ASSUME NEW b \in BranchesOf(Held(source)), IsPrefix(Place(k), b) PROVE FALSE
  <2>1. b \in Strings /\ \E i, j \in Below(source, b) : i # j
    BY BranchPair
  <2>2. PICK i, j \in Below(source, b) : i # j
    BY <2>1
  <2>3. \A t \in Below(source, b) : t \in HeldByOne /\ IsPrefix(Place(k), t)
    <3>1. \A t \in Below(source, b) : t \in Strings /\ t \in HeldByOne /\ IsPrefix(b, t)
      BY HeldFacts DEF Below, HeldByOne
    <3>. QED BY <1>1, <1>2, <2>1, <3>1, PrefixOfPrefix
  <2>4. i = k /\ j = k
    BY <2>3, OwnPlace
  <2>. QED BY <2>2, <2>4
<1>3. /\ End(k) \in Strings /\ End(k) \in ProofOf(k) /\ Len(End(k)) \in Nat
      /\ \A r \in ProofOf(k) : Len(r) <= Len(End(k)) /\ r \in Strings /\ Len(r) \in Nat /\ IsPrefix(r, k)
  BY <1>1, EndOfProof, TracedNodes DEF ProofOf, Strings
<1>4. IsBranch(nodes[End(k)]) => Len(Place(k)) = Len(End(k)) + 1
  BY <1>1, EndIsBranch DEF Place
<1>5. ~IsBranch(nodes[End(k)]) => Place(k) = End(k)
  BY DEF Place
<1>6. Len(Place(k)) \in Nat /\ Len(Place(k)) >= Len(End(k))
  BY <1>1, <1>3, <1>4, <1>5 DEF Strings
<1>7. ASSUME NEW r \in ProofOf(k), IsPrefix(Place(k), r) PROVE r = Place(k)
  <2>1. Len(Place(k)) <= Len(r)
    BY <1>1, <1>3, <1>7, PrefixFacts
  <2>2. Len(r) = Len(Place(k))
    BY <1>3, <1>6, <2>1
  <2>. QED BY <1>1, <1>3, <2>1, <2>2, PrefixesOfOne
<1>8. ASSUME IsBranch(nodes[End(k)]) PROVE Place(k) \notin ProofOf(k)
  BY <1>3, <1>4, <1>6, <1>8
<1>. QED BY <1>1, <1>2, <1>5, <1>7, <1>8

\* No leaf is above the last node of a proof.
LEMMA NoLeafAbove ==
  ASSUME Traced, Assembled(tree), SameShape, Held(source) # {}, NEW k \in HeldByOne,
         NEW p \in ProofOf(k), p # Place(k)
  PROVE  ~LeafAt(p)
<1>1. ASSUME LeafAt(p) PROVE \E j \in HeldByOne : p = Place(j)
  <2>1. \A node : Inner(node).kind # "leaf"
    BY DEF Inner
  <2>. QED BY <1>1, <2>1 DEF LeafAt, Assembled, IsLeafOf, IsInnerOf
<1>2. ASSUME NEW j \in HeldByOne, p = Place(j) PROVE FALSE
  <2>1. IsPrefix(Place(j), k)
    BY <1>2 DEF ProofOf
  <2>2. j = k
    BY <2>1, OwnPlace
  <2>. QED BY <1>2, <2>2
<1>. QED BY <1>1, <1>2

\* Branches of an extension are on the way of every proof that passes it.
LEMMA PassesOn ==
  ASSUME Traced, SameShape, Held(source) # {}, NEW k \in HeldByOne,
         NEW p \in ProofOf(k), p # Place(k), Inner(nodes[p]).kind = "extension"
  PROVE  /\ BelowExtension(p) \in ProofOf(k) \ {Place(k)}
         /\ BelowExtension(p) \in BranchesOf(Held(source))
<1>1. ~IsBranch(nodes[p])
  BY DEF Inner
<1>2. p # End(k) /\ k \in Slots
  BY <1>1, PlaceBelow
<1>3. /\ p \in DOMAIN nodes /\ p \in Strings /\ nodes[p] = NodeAt(source)[p] /\ IsPrefix(p, k)
      /\ HoldsMany(source, p)
  BY <1>2, TracedNodes, ProofsHoldMany DEF ProofOf
<1>4. PICK e \in Strings : IsExtensionAt(source, p, e)
  <2>1. ~IsEmptyAt(source, p) /\ \A j : ~IsLeafAt(source, p, j)
    BY <1>3 DEF HoldsMany, IsEmptyAt, IsLeafAt
  <2>2. ~IsBranchAt(source, p)
    BY <1>1, <1>3, ViewShapes, NodeShapes
  <2>. QED BY <1>3, <2>1, <2>2, NodeView
<1>5. BelowExtension(p) = p \o e
  BY <1>3, <1>4, BelowExtensionIs DEF IsExtensionAt
<1>6. p \o e \in BranchesOf(Held(source)) /\ p \o e \in DOMAIN nodes /\ p \o e \in Strings
  BY <1>3, <1>4, BranchPositions, ConcatPrefix DEF IsExtensionAt, Traced, NodesOf
<1>7. /\ End(k) \in Strings /\ IsPrefix(End(k), k) /\ End(k) \in PositionsOf(source) /\ k \in Strings
      /\ Len(p) <= Len(End(k))
  BY <1>2, EndOfProof, TracedNodes
<1>8. IsPrefix(p, End(k))
  BY <1>3, <1>7, PrefixesOfOne
<1>9. IsPrefix(p \o e, End(k))
  BY <1>2, <1>3, <1>4, <1>7, <1>8, ExtensionSkips
<1>10. IsPrefix(p \o e, k)
  BY <1>6, <1>7, <1>9, PrefixOfPrefix
<1>11. p \o e \in ProofOf(k)
  BY <1>6, <1>10 DEF ProofOf
<1>12. p \o e # Place(k)
  <2>1. \A t \in Strings : IsPrefix(t, t)
    <3>1. \A t \in Strings : Len(t) \in Nat
      BY DEF Strings
    <3>. QED BY <3>1, PrefixByItems
  <2>2. ~IsPrefix(Place(k), p \o e)
    BY <1>6, PlaceBelow
  <2>. QED BY <1>6, <2>1, <2>2
<1>. QED BY <1>5, <1>6, <1>11, <1>12

\* The nodes above a place are added to a tree, where there is nothing yet.
Adds(t, ps) ==
  /\ DOMAIN t = DOMAIN tree \cup ps
  /\ \A p \in DOMAIN tree : t[p] = tree[p]
  /\ \A p \in ps : p \notin DOMAIN tree => t[p] = Inner(nodes[p])

LEMMA WithInnerAdds == \A ps : Adds(WithInner(ps), ps)
BY DEF Adds, WithInner

LEMMA AddsComplete ==
  ASSUME Traced, SameShape, Held(source) # {}, NEW keys, Complete(tree, keys), NEW k \in HeldByOne,
         NEW t, Adds(t, ProofOf(k) \ {Place(k)})
  PROVE  Complete(t, keys)
<1>. DEFINE ps == ProofOf(k) \ {Place(k)}
<1>1. ASSUME NEW p \in DOMAIN t, t[p].kind = "extension"
      PROVE  BelowExtension(p) \in DOMAIN t /\ BelowExtension(p) \in BranchesOf(Held(source))
  <2>1. CASE p \in DOMAIN tree
    BY <1>1, <2>1 DEF Adds, Complete
  <2>2. CASE p \notin DOMAIN tree
    <3>1. p \in ProofOf(k) /\ p # Place(k) /\ Inner(nodes[p]).kind = "extension"
      BY <1>1, <2>2 DEF Adds
    <3>. QED BY <3>1, PassesOn DEF Adds
  <2>. QED BY <2>1, <2>2
<1>2. ASSUME NEW j \in keys PROVE Place(j) \in DOMAIN t /\ t[Place(j)].kind = "leaf" /\ ProofOf(j) \subseteq DOMAIN t
  BY DEF Adds, Complete
<1>. QED BY <1>1, <1>2 DEF Complete

\* Nothing of what is there is lost in the place of a leaf.
LEMMA LeafComplete ==
  ASSUME Traced, SameShape, Held(source) # {}, NEW keys \in SUBSET HeldByOne, NEW k \in HeldByOne,
         NEW t, Complete(t, keys), ProofOf(k) \ {Place(k)} \subseteq DOMAIN t,
         NEW node, NEW u, u = WithLeaf(t, Place(k), Leaf(node, k))
  PROVE  Complete(u, keys \cup {k})
<1>1. /\ Place(k) \in Strings /\ IsPrefix(Place(k), k)
      /\ \A b \in BranchesOf(Held(source)) : ~IsPrefix(Place(k), b)
      /\ \A r \in ProofOf(k) : IsPrefix(Place(k), r) => r = Place(k)
  BY PlaceBelow
<1>2. /\ DOMAIN u = {r \in DOMAIN t : ~IsPrefix(Place(k), r)} \cup {Place(k)}
      /\ \A q \in DOMAIN u : q # Place(k) => u[q] = t[q]
      /\ u[Place(k)].kind = "leaf"
  BY DEF WithLeaf, Leaf
<1>3. ASSUME NEW p \in DOMAIN u, u[p].kind = "extension"
      PROVE  BelowExtension(p) \in DOMAIN u /\ BelowExtension(p) \in BranchesOf(Held(source))
  <2>1. p \in DOMAIN t /\ t[p].kind = "extension"
    BY <1>2, <1>3
  <2>2. BelowExtension(p) \in DOMAIN t /\ BelowExtension(p) \in BranchesOf(Held(source))
    BY <2>1 DEF Complete
  <2>. QED BY <1>1, <1>2, <2>2
<1>4. Place(k) \in DOMAIN u /\ u[Place(k)].kind = "leaf" /\ ProofOf(k) \subseteq DOMAIN u
  BY <1>1, <1>2
<1>5. ASSUME NEW j \in keys, j # k
      PROVE  Place(j) \in DOMAIN u /\ u[Place(j)].kind = "leaf" /\ ProofOf(j) \subseteq DOMAIN u
  <2>1. j \in HeldByOne /\ j \in Strings
    BY HeldFacts DEF HeldByOne
  <2>2. Place(j) \in DOMAIN t /\ t[Place(j)].kind = "leaf" /\ ProofOf(j) \subseteq DOMAIN t
    BY DEF Complete
  <2>3. ASSUME NEW r \in Strings, IsPrefix(r, j), IsPrefix(Place(k), r) PROVE FALSE
    <3>1. IsPrefix(Place(k), j)
      BY <1>1, <2>1, <2>3, PrefixOfPrefix
    <3>. QED BY <1>5, <2>1, <3>1, OwnPlace
  <2>4. Place(j) \in Strings /\ IsPrefix(Place(j), j) /\ \A r \in ProofOf(j) : r \in Strings /\ IsPrefix(r, j)
    BY <2>1, PlaceBelow, TracedNodes DEF ProofOf
  <2>5. ~IsPrefix(Place(k), Place(j)) /\ \A r \in ProofOf(j) : ~IsPrefix(Place(k), r)
    BY <2>3, <2>4
  <2>6. Place(j) \in DOMAIN u /\ Place(j) # Place(k) /\ ProofOf(j) \subseteq DOMAIN u
    <3>1. \A s \in Strings : IsPrefix(s, s)
      <4>1. \A s \in Strings : Len(s) \in Nat
        BY DEF Strings
      <4>. QED BY <4>1, PrefixByItems
    <3>2. Place(j) # Place(k)
      BY <1>1, <2>5, <3>1
    <3>. QED BY <1>2, <2>2, <2>5, <3>2
  <2>. QED BY <1>2, <2>2, <2>6
<1>. QED BY <1>3, <1>4, <1>5 DEF Complete

\* A proof is added whole.
LEMMA ProofComplete ==
  ASSUME Traced, SameShape, Held(source) # {}, NEW keys \in SUBSET HeldByOne, Complete(tree, keys),
         NEW k \in HeldByOne, NEW t, Adds(t, ProofOf(k) \ {Place(k)}),
         NEW node, NEW u, u = WithLeaf(t, Place(k), Leaf(node, k))
  PROVE  Complete(u, keys \cup {k})
<1>1. Complete(t, keys)
  BY AddsComplete
<1>2. ProofOf(k) \ {Place(k)} \subseteq DOMAIN t
  BY DEF Adds
<1>. QED BY <1>1, <1>2, LeafComplete

LEMMA MergeProofComplete ==
  ASSUME Traced, Assembled(tree), Regular, Complete(tree, asked), asked' \subseteq HeldByOne,
         asked = {} => tree = <<>>, NEW k \in Slots, MergeProof(k)
  PROVE  phase' = phase /\ Complete(tree', asked')
<1>1. Held(source) # {} /\ SameShape
  BY RegularHolds
<1>2. asked' = asked \cup {k} /\ k \notin asked /\ k \in HeldByOne /\ asked \in SUBSET HeldByOne
  BY DEF MergeProof
<1>3. /\ <<>> \in ProofOf(k) /\ Longest(ProofOf(k)) = End(k) /\ End(k) \in ProofOf(k)
      /\ IsBranch(nodes[End(k)]) => ProofOf(k) \ {Place(k)} = ProofOf(k)
      /\ ~IsBranch(nodes[End(k)]) => Place(k) = End(k)
  BY <1>1, <1>2, EndOfProof, PlaceBelow DEF End
<1>4. ASSUME NEW t, Adds(t, ProofOf(k) \ {Place(k)}), NEW node
      PROVE  Complete(WithLeaf(t, Place(k), Leaf(node, k)), asked')
  BY <1>1, <1>2, <1>4, ProofComplete
<1>5. ASSUME IsBranch(nodes[End(k)]), NEW t
      PROVE  WithDeletedValue(t, End(k), k) = WithLeaf(t, Place(k), Leaf(LeafNode(k), k))
  BY <1>5 DEF WithDeletedValue, Place, LeafNode
<1>6. CASE ProofOf(k) # {<<>>}
  <2>. DEFINE above == ProofOf(k) \ {End(k)}
  <2>1. {p \in above : LeafAt(p)} = {}
    BY <1>1, <1>2, <1>3, NoLeafAbove
  <2>2. Descend(k)
    BY <1>3, <1>6 DEF MergeProof
  <2>3. /\ tree' = IF IsBranch(nodes[End(k)]) THEN WithDeletedValue(WithInner(ProofOf(k)), End(k), k)
                   ELSE WithLeaf(WithInner(above), End(k), Leaf(nodes[End(k)], k))
        /\ phase' = phase
    BY <1>3, <2>1, <2>2 DEF Descend
  <2>4. CASE IsBranch(nodes[End(k)])
    <3>1. tree' = WithLeaf(WithInner(ProofOf(k) \ {Place(k)}), Place(k), Leaf(LeafNode(k), k))
      BY <1>3, <1>5, <2>3, <2>4
    <3>. QED BY <1>4, <2>3, <3>1, WithInnerAdds
  <2>5. CASE ~IsBranch(nodes[End(k)])
    <3>1. tree' = WithLeaf(WithInner(ProofOf(k) \ {Place(k)}), Place(k), Leaf(nodes[End(k)], k))
      BY <1>3, <2>3, <2>5
    <3>. QED BY <1>4, <2>3, <3>1, WithInnerAdds
  <2>. QED BY <2>4, <2>5
<1>7. CASE ProofOf(k) = {<<>>}
  <2>1. End(k) = <<>>
    BY <1>3, <1>7
  <2>2. CASE IsBranch(nodes[<<>>])
    <3>1. \E t : Adds(t, ProofOf(k)) /\ tree' = WithDeletedValue(t, End(k), k) /\ phase' = phase
      <4>1. CASE tree = <<>>
        BY <1>7, <2>1, <2>2, <4>1, WithInnerAdds DEF MergeProof, FirstNode
      <4>2. CASE tree # <<>>
        <5>1. tree' = WithDeletedValue(tree, <<>>, k) /\ phase' = phase
          BY <1>7, <2>2, <4>2 DEF MergeProof, RootAgain
        <5>2. Adds(tree, ProofOf(k))
          BY <1>7, <4>2 DEF Assembled, Adds
        <5>. QED BY <2>1, <5>1, <5>2
      <4>. QED BY <4>1, <4>2
    <3>. QED BY <1>3, <1>4, <1>5, <2>1, <2>2, <3>1
  <2>3. CASE ~IsBranch(nodes[<<>>])
    <3>1. <<>> \notin BranchesOf(Held(source))
      <4>1. <<>> \in DOMAIN nodes
        BY <1>3 DEF ProofOf
      <4>. QED BY <2>3, <4>1, TracedNodes, BranchAtBranch, ViewShapes, NodeShapes
    <3>2. HeldByOne = {k} /\ Held(source) = {k}
      BY <1>2, <3>1 DEF Regular, HeldByOne
    <3>3. tree = <<>> /\ source[k] # ZeroWord
      BY <1>2, <3>2 DEF Held
    <3>4. tree' = WithLeaf(tree, Place(k), Leaf(nodes[<<>>], k)) /\ phase' = phase
      BY <1>3, <1>7, <2>1, <2>3, <3>3 DEF MergeProof, FirstNode
    <3>5. Adds(tree, ProofOf(k) \ {Place(k)})
      BY <1>3, <1>7, <2>1, <2>3 DEF Adds
    <3>. QED BY <1>4, <3>4, <3>5
  <2>. QED BY <2>2, <2>3
<1>. QED BY <1>6, <1>7

LEMMA MergeAdditionalComplete ==
  ASSUME Traced, Regular, Complete(tree, asked), asked \subseteq HeldByOne, NEW k \in HeldByOne, MergeAdditional(k)
  PROVE  Complete(tree', asked)
<1>1. CASE tree' = tree
  BY <1>1
<1>2. CASE tree' # tree
  <2>1. Held(source) # {} /\ SameShape
    BY RegularHolds
  <2>2. /\ Longest(ProofOf(k)) = End(k)
        /\ IsBranch(nodes[End(k)]) => ProofOf(k) \ {Place(k)} = ProofOf(k)
        /\ ~IsBranch(nodes[End(k)]) => Place(k) = End(k)
    BY <2>1, PlaceBelow DEF End
  <2>3. CASE IsBranch(nodes[End(k)])
    <3>1. tree' = WithInner(ProofOf(k) \ {Place(k)})
      BY <1>2, <2>2, <2>3 DEF MergeAdditional
    <3>. QED BY <2>1, <3>1, WithInnerAdds, AddsComplete
  <2>4. CASE ~IsBranch(nodes[End(k)])
    <3>1. tree' = WithLeaf(WithInner(ProofOf(k) \ {Place(k)}), Place(k), Leaf(nodes[End(k)], k))
      BY <1>2, <2>2, <2>4 DEF MergeAdditional
    <3>2. Complete(tree', asked \cup {k})
      BY <2>1, <3>1, WithInnerAdds, ProofComplete
    <3>. QED BY <3>2 DEF Complete
  <2>. QED BY <2>3, <2>4
<1>. QED BY <1>1, <1>2

\* What the call is sent with, when all that changed was asked for.
AcceptedInv ==
  /\ CheckedInv
  /\ phase \in {"asking", "adding"} /\ NoneAskedInVain /\ Regular =>
       /\ Complete(tree, asked)
       /\ phase = "adding" => asked # {}
       /\ phase = "asking" /\ asked = {} => tree = <<>>
  /\ ValueUpdatesAreAccepted

LEMMA CompleteThen ==
  ASSUME UNCHANGED <<source, nodes>>, Complete(tree', asked')
  PROVE  Complete(tree, asked)'
<1>1. Held(source)' = Held(source)
  BY DEF Held
<1>2. \A k : ProofOf(k)' = ProofOf(k) /\ Place(k)' = Place(k)
  BY DEF Place, End, ProofOf
<1>3. \A p : BelowExtension(p)' = BelowExtension(p)
  BY DEF BelowExtension
<1>. QED BY <1>1, <1>2, <1>3 DEF Complete

LEMMA AcceptedInit == TreeInit => AcceptedInv
<1>. SUFFICES ASSUME TreeInit PROVE AcceptedInv
  OBVIOUS
<1>1. tree = <<>> /\ asked = {} /\ phase = "asking" /\ DOMAIN tree = {}
  BY DEF TreeInit
<1>2. Complete(tree, asked)
  BY <1>1 DEF Complete
<1>3. CheckedInv
  BY CheckedInit
<1>. QED BY <1>1, <1>2, <1>3 DEF AcceptedInv, ValueUpdatesAreAccepted

\* A tree with all that changed is not rejected.
LEMMA NotRejected ==
  ASSUME AcceptedInv, Regular, NoneAskedInVain, Changed \subseteq asked
  PROVE  ~Rejected
<1>. SUFFICES ASSUME Rejected PROVE FALSE
  OBVIOUS
<1>1. phase = "adding" /\ asked # {} /\ Complete(tree, asked)
  BY DEF AcceptedInv, Rejected, Sending
<1>2. Held(source) # {} /\ SameShape
  BY RegularHolds
<1>3. Readable
  <2>1. tree # <<>>
    <3>1. PICK k \in asked : Place(k) \in DOMAIN tree
      BY <1>1 DEF Complete
    <3>. QED BY <3>1
  <2>. QED BY <1>1, <2>1 DEF Readable, Complete
<1>4. Sendable /\ recorded = RootOf(proxy)
  BY <1>1, <1>3 DEF AcceptedInv, CheckedInv, Sendable
<1>5. AllSent
  BY <1>1 DEF AllSent, Complete, LeafAt
<1>6. OldRoots = {RootOf(proxy)} /\ NewRoot = nodes[<<>>]
  BY <1>2, <1>4, <1>5, BranchRootRestored, SingleRootRestored DEF AllRestorable, Regular
<1>. QED BY <1>3, <1>4, <1>6 DEF Rejected

LEMMA AcceptedStep == AcceptedInv /\ [TreeNext]_treeVars => AcceptedInv'
<1>. SUFFICES ASSUME AcceptedInv, [TreeNext]_treeVars PROVE AcceptedInv'
  OBVIOUS
<1>1. CheckedInv /\ CheckedInv' /\ UNCHANGED <<source, nodes>>
  BY CheckedStep DEF AcceptedInv, TreeNext, MergeProof, MergeAdditional, LookForKeys, UpdateStorage,
     UpdateStorageModified, Rejected, treeVars
<1>2. ASSUME UNCHANGED proxy, asked \subseteq asked'
      PROVE  /\ NoneAskedInVain' => NoneAskedInVain
             /\ Regular' <=> Regular
             /\ Changed' = Changed
             /\ NoneAskedInVain' => asked' \subseteq HeldByOne
  BY <1>1, <1>2 DEF NoneAskedInVain, Regular, SameShape, Changed, HeldByOne, Held, BranchesOf
<1>3. ASSUME phase' \notin {"asking", "adding", "rejected", "failed"} PROVE AcceptedInv'
  BY <1>1, <1>3 DEF AcceptedInv, ValueUpdatesAreAccepted
<1>4. ASSUME phase' \in {"asking", "adding"}, UNCHANGED proxy, asked \subseteq asked',
             NoneAskedInVain' /\ NoneAskedInVain /\ Regular =>
               /\ Complete(tree', asked')
               /\ phase' = "adding" => asked' # {}
               /\ phase' = "asking" /\ asked' = {} => tree' = <<>>
      PROVE  AcceptedInv'
  <2>1. NoneAskedInVain' /\ Regular' =>
          /\ Complete(tree, asked)'
          /\ phase' = "adding" => asked' # {}
          /\ phase' = "asking" /\ asked' = {} => tree' = <<>>
    BY <1>1, <1>2, <1>4, CompleteThen
  <2>. QED BY <1>1, <1>4, <2>1 DEF AcceptedInv, ValueUpdatesAreAccepted
<1>5. ASSUME phase' \in {"rejected", "failed"}, UNCHANGED proxy, asked \subseteq asked',
             ~(Regular /\ NoneAskedInVain' /\ NoneAskedInVain /\ Changed \subseteq asked')
      PROVE  AcceptedInv'
  <2>1. ~(Regular' /\ NoneAskedInVain' /\ Changed' \subseteq asked')
    BY <1>2, <1>5
  <2>2. ValueUpdatesAreAccepted'
    BY <2>1 DEF ValueUpdatesAreAccepted, Regular
  <2>. QED BY <1>1, <1>5, <2>2 DEF AcceptedInv
<1>6. ASSUME NEW k \in Slots, MergeProof(k) PROVE AcceptedInv'
  <2>1. phase = "asking" /\ asked' = asked \cup {k} /\ UNCHANGED proxy
    BY <1>6 DEF MergeProof
  <2>2. phase' \in {"asking", "failed"}
    BY <1>6, <2>1 DEF MergeProof, Descend, FirstNode, RootAgain, Fail
  <2>3. ASSUME NoneAskedInVain', Regular PROVE phase' = phase /\ Complete(tree', asked')
    <3>1. NoneAskedInVain /\ asked' \subseteq HeldByOne
      BY <1>2, <2>1, <2>3
    <3>2. /\ Traced /\ Assembled(tree) /\ Complete(tree, asked)
          /\ asked = {} => tree = <<>>
      BY <1>1, <2>1, <2>3, <3>1 DEF AcceptedInv, CheckedInv
    <3>. QED BY <1>6, <2>3, <3>1, <3>2, MergeProofComplete
  <2>4. asked' # {}
    BY <2>1
  <2>. QED BY <1>4, <1>5, <2>1, <2>2, <2>3, <2>4
<1>7. ASSUME NEW k \in Slots, MergeAdditional(k) PROVE AcceptedInv'
  <2>1. phase = "adding" /\ k \in required /\ UNCHANGED <<proxy, asked, phase>>
    BY <1>7 DEF MergeAdditional
  <2>2. ASSUME NoneAskedInVain, Regular PROVE Complete(tree', asked') /\ asked' # {}
    <3>1. /\ Traced /\ k \in HeldByOne /\ Complete(tree, asked) /\ asked \subseteq HeldByOne
          /\ asked # {}
      BY <1>1, <2>1, <2>2 DEF AcceptedInv, CheckedInv, NoneAskedInVain, HeldByOne
    <3>2. Complete(tree', asked)
      BY <1>7, <2>2, <3>1, MergeAdditionalComplete
    <3>. QED BY <2>1, <3>1, <3>2
  <2>. QED BY <1>4, <2>1, <2>2
<1>8. ASSUME LookForKeys PROVE AcceptedInv'
  <2>1. phase = "asking" /\ phase' = "adding" /\ asked # {} /\ UNCHANGED <<proxy, asked, tree>>
    BY <1>8 DEF LookForKeys
  <2>2. ASSUME NoneAskedInVain, Regular PROVE Complete(tree', asked')
    BY <2>1, <2>2 DEF AcceptedInv
  <2>. QED BY <1>4, <2>1, <2>2
<1>9. ASSUME UpdateStorage \/ UpdateStorageModified PROVE AcceptedInv'
  BY <1>3, <1>9 DEF UpdateStorage, UpdateStorageModified
<1>10. ASSUME Rejected PROVE AcceptedInv'
  <2>1. phase' = "rejected" /\ UNCHANGED <<proxy, asked>>
    BY <1>10 DEF Rejected
  <2>2. ~(Regular /\ NoneAskedInVain /\ Changed \subseteq asked)
    BY <1>10, NotRejected
  <2>. QED BY <1>5, <2>1, <2>2
<1>11. ASSUME UNCHANGED treeVars PROVE AcceptedInv'
  <2>1. UNCHANGED <<proxy, asked, tree, phase>>
    BY <1>11 DEF treeVars
  <2>2. CASE phase \in {"asking", "adding"}
    BY <1>4, <2>1, <2>2 DEF AcceptedInv
  <2>3. CASE phase \in {"rejected", "failed"}
    BY <1>5, <2>1, <2>3 DEF AcceptedInv, ValueUpdatesAreAccepted, Regular
  <2>. QED BY <1>3, <2>1, <2>2, <2>3
<1>. QED BY <1>6, <1>7, <1>8, <1>9, <1>10, <1>11 DEF TreeNext

\* Where no branch comes or goes, updateStorageModified accepts an update of all
\* that changed: computeRoots finds the recorded root again.
THEOREM ValueUpdatesAreAcceptedCorrect == TreeSpec => []ValueUpdatesAreAccepted
<1>1. AcceptedInv => ValueUpdatesAreAccepted
  BY DEF AcceptedInv
<1>. QED BY <1>1, AcceptedInit, AcceptedStep, PTL DEF TreeSpec

=============================================================================
