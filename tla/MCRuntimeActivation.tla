------------------------- MODULE MCRuntimeActivation -------------------------
(* Two coordinators, two requests, two snapshots, four revisions. *)
EXTENDS RuntimeActivation, TLC

Symmetry == Permutations(Coordinators) \cup Permutations(Requests)
=============================================================================
