--------------------------- MODULE MCDendrethRelay ---------------------------
(***************************************************************************)
(* DendrethRelay for TLC; the slots are interchangeable.                   *)
(***************************************************************************)
EXTENDS DendrethRelay, TLC

SlotSymmetry == Permutations(Keys)

=============================================================================
