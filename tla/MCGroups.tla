------------------------------ MODULE MCGroups ------------------------------
(* An instance of Groups for TLC. *)
EXTENDS Groups

Symmetry == Permutations(Clients)

\* No property says anything of the states after a disturbance.
Undisturbed == ~disturbed

=============================================================================
