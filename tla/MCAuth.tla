------------------------------- MODULE MCAuth -------------------------------
(* An instance of Auth for TLC. *)
EXTENDS Auth, TLC

Symmetry == Permutations(Clients) \cup Permutations(Codes) \cup Permutations(Tokens)

=============================================================================
