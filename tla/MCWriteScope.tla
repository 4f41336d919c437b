---------------------------- MODULE MCWriteScope ----------------------------
(* Small instances of WriteScope for TLC. *)
EXTENDS WriteScope, TLC

Symmetry == Permutations(Projects) \union Permutations(Operations)
=============================================================================
