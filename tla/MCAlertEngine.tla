--------------------------- MODULE MCAlertEngine ---------------------------
(* Instances of AlertEngine for TLC. *)
EXTENDS AlertEngine, TLC

Symmetry == Permutations(Handlers) \cup Permutations(MACs)

\* As in config.Defaults an alert of a loss cools longer than one of a return; it
\* takes a tick more than the cleanup age, the longest the cleanup never cuts short.
DefaultCooldown ==
    [t \in CooledTypes |-> IF t \in {"priority_offline", "service_down"} THEN 2 ELSE 1]

=============================================================================
