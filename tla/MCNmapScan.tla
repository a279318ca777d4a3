----------------------------- MODULE MCNmapScan -----------------------------
(* An instance of NmapScan for TLC: one device, which a page may spell in a  *)
(* second way.                                                               *)
EXTENDS NmapScan, TLC

CONSTANTS m1, lower1

OneDevice == [k \in Keys |-> m1]

=============================================================================
