----------------------------- MODULE MCRegistry -----------------------------
(* Instances of Registry for TLC. *)
EXTENDS Registry, TLC

\* Senders are interchangeable unless one of them is MdnsSender, and so are MAC
\* addresses: no definition of Registry tells two of them apart.
Symmetry == Permutations(Senders) \cup Permutations(MACs)

\* Beside the mDNS sender only the services are interchangeable.
ServiceSymmetry == Permutations(Services)

=============================================================================
