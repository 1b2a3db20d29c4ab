----------------------------- MODULE MCQueryBudget -----------------------------
(* Threads on one budget whose counters end just above the retained limit,   *)
(* so that exceeding it and overflowing are different calls.                 *)
EXTENDS QueryBudget, TLC

MCLimit  == [source |-> 2, retained |-> 3, files |-> 1]
MCShapes == {[retained |-> 1, files |-> 0], [retained |-> 2, files |-> 1]}
Symmetry == Permutations(Threads)
=============================================================================
