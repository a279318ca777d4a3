---------------------------- MODULE MCHttpCheck ----------------------------
(* An instance of HttpCheck for TLC. *)
EXTENDS HttpCheck, TLC

=============================================================================
