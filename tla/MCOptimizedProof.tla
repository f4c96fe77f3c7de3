-------------------------- MODULE MCOptimizedProof --------------------------
(***************************************************************************)
(* Instances of OptimizedProof for TLC.  The slots make every shape: a     *)
(* root that is a branch of three children, an extension, a leaf; branches *)
(* under branches and under extensions, with two children and with three.  *)
(***************************************************************************)
EXTENDS OptimizedProof

MCSlots == {<<0, 0, 0, 0>>, <<0, 0, 1, 1>>, <<0, 0, 2, 2>>, <<0, 1, 0, 3>>, <<1, 1, 1, 4>>, <<2, 0, 0, 5>>}

\* Branches below branches, for a word that moves from one slot to another.
WordSlots == {<<0, 0, 0, 0, 0>>, <<0, 0, 0, 1, 1>>, <<0, 0, 1, 0, 2>>, <<0, 1, 0, 0, 3>>, <<1, 0, 0, 0, 4>>}

\* No update is on its way.
TreeIdle ==
  /\ proxy = [s \in Slots |-> ZeroWord] /\ source = proxy
  /\ nodes = <<>> /\ recorded = EmptyRoot
  /\ asked = {} /\ required = {} /\ tree = <<>>
  /\ phase = "failed"

=============================================================================
