------------------------------ MODULE Throttle ------------------------------
(***************************************************************************)
(* What docs/alerting.md promises of the alert engine's deduplication: an  *)
(* alert's fingerprint is its type and MAC, and a second alert with the    *)
(* same fingerprint is accepted only once the cooldown of its type is over.*)
(* The engine keeps this in memory, so a restart ends every cooldown.      *)
(***************************************************************************)
EXTENDS Naturals

CONSTANTS Types, MACs, Cooldown   \* Cooldown: alert type -> ticks

VARIABLES
    remaining,   \* fingerprint -> ticks until its cooldown is over
    boots        \* number of starts of the process, modulo 2

tvars == <<remaining, boots>>

Key == Types \X MACs

TInit == remaining = [k \in Key |-> 0] /\ boots = 0

\* An alert with fingerprint k is accepted.
Accept(k) ==
    /\ remaining[k] = 0
    /\ remaining' = [remaining EXCEPT ![k] = Cooldown[k[1]]]
    /\ UNCHANGED boots

TTick ==
    /\ remaining' = [k \in Key |-> IF remaining[k] = 0 THEN 0 ELSE remaining[k] - 1]
    /\ UNCHANGED boots

TRestart ==
    /\ remaining' = [k \in Key |-> 0]
    /\ boots' = 1 - boots

TNext == (\E k \in Key : Accept(k)) \/ TTick \/ TRestart

TSpec == TInit /\ [][TNext]_tvars

=============================================================================
