----------------------------- MODULE MCLiveTickets -----------------------------
(* LiveTickets for TLC. No liveness is checked, so symmetry is sound. *)
EXTENDS LiveTickets, TLC

Symmetry == Permutations(Tickets) \union Permutations(Cameras) \union Permutations(Upgrades)
================================================================================
