---------------------------- MODULE MC_RelayHub ----------------------------
(* The relay alone, with an open environment of nodes. *)
EXTENDS RelayHub, TLC

HubSymmetry == Permutations(Conns)
=============================================================================
