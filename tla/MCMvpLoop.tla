------------------------------- MODULE MCMvpLoop -------------------------------
(* Small instances of MvpLoop for TLC. *)
EXTENDS MvpLoop, TLC

Symmetry == Permutations(Criteria)
=============================================================================
