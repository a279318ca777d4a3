------------------------------ MODULE MCLinks ------------------------------
(* An instance of Links for TLC. *)
EXTENDS Links, TLC

Symmetry == Permutations(MACs)

=============================================================================
