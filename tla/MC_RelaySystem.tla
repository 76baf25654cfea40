--------------------------- MODULE MC_RelaySystem ---------------------------
(* One agent, the relay and CLI runs on small instances. *)
EXTENDS RelaySystem, TLC

ConnSymmetry == Permutations(Conns)
=============================================================================
