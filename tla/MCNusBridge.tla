---------------------------- MODULE MCNusBridge ----------------------------
(* Blocks are interchangeable: k_malloc() returns any free one. *)
EXTENDS NusBridge, TLC

Symmetry == Permutations(Block)
=============================================================================
