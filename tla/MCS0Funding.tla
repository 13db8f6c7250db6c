---------------------------- MODULE MCS0Funding ----------------------------
(* S0Funding on small sets of namespaces and transactions. *)
EXTENDS S0Funding, TLC

\* Namespaces and transactions are interchangeable.
Symmetry == Permutations(Namespace) \cup Permutations(Tx)

=============================================================================
