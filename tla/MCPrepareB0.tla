---------------------------- MODULE MCPrepareB0 ----------------------------
(* PrepareB0 on short chains of two branches. *)
EXTENDS PrepareB0, TLC

Symmetry == Permutations(Branch)

=============================================================================
