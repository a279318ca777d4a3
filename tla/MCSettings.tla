----------------------------- MODULE MCSettings -----------------------------
(* Instances of Settings for TLC. *)
EXTENDS Settings, TLC

Symmetry == Permutations(Clients) \cup Permutations(Pollers)

=============================================================================
