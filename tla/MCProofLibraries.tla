-------------------------- MODULE MCProofLibraries --------------------------
(***************************************************************************)
(* How proofs are put together and taken apart, for TLC: the loop of       *)
(* MerklePatriciaProof, RLPWriter with RLPReader, and the optimised proof  *)
(* of a storage update.  A behaviour is a use of one of them, the          *)
(* variables of the others being left where nothing is to do.              *)
(***************************************************************************)
EXTENDS MCRLPCodec, MCOptimizedProof, TrieProof, TLC

\* No node was handed in for the path of zeros.
ProofIdle ==
  /\ path = [i \in 1..PathLength |-> 0]
  /\ value \in Values
  /\ trie = [p \in {path} |-> value]
  /\ nodeKey = trie
  /\ pathPtr = 0
  /\ genuine = FALSE
  /\ result = "false"

\* The empty list was written and read.
CodecIdle ==
  /\ items = <<>> /\ words = <<>> /\ encoded = <<>> /\ read = <<>>
  /\ wire = EncodeList(<<>>)
  /\ nextPtr = 2

MCInit ==
  \/ ProofInit /\ CodecIdle /\ TreeIdle
  \/ ProofIdle /\ CodecInit /\ TreeIdle
  \/ ProofIdle /\ CodecIdle /\ TreeInit

MCNext ==
  \/ ProofNext /\ UNCHANGED <<codecVars, treeVars>>
  \/ CodecNext /\ UNCHANGED <<proofVars, treeVars>>
  \/ TreeNext /\ UNCHANGED <<proofVars, codecVars>>

\* What an entry holds is only ever compared.
ValueSymmetry == Permutations(Values)

MCSpec == MCInit /\ [][MCNext]_<<proofVars, codecVars, treeVars>>

=============================================================================
