------------------------------ MODULE MCPoller ------------------------------
(* An instance of Poller for TLC. *)
EXTENDS Poller, TLC

Symmetry == Permutations(Senders)

=============================================================================
