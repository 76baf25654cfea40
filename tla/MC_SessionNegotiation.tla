----------------------- MODULE MC_SessionNegotiation -----------------------
(* Two devices; both sessions go from d1 to d2, so they share d1's engine. *)
EXTENDS SessionNegotiation, TLC

CONSTANTS d1, d2

MCFrom == [s \in Sessions |-> d1]
MCTo   == [s \in Sessions |-> d2]

SessionSymmetry == Permutations(Sessions)
=============================================================================
