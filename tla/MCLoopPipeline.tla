---------------------------- MODULE MCLoopPipeline ----------------------------
(* Small instances of LoopPipeline for TLC. *)
EXTENDS LoopPipeline, TLC

Symmetry == Permutations(Calls)
=============================================================================
