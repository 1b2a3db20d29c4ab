----------------------------- MODULE AtomicBudget -----------------------------
(***************************************************************************)
(* What a QueryBudget promises to the phases that share it, as if every    *)
(* call took effect at one instant: charges and reservations are admitted  *)
(* only while no terminal cause is sealed and only within the limits, a    *)
(* release gives back what it returns, and the first cause is the cause.   *)
(***************************************************************************)
EXTENDS Integers

CONSTANTS Charges,   \* what consume() counts
          Dims,      \* the dimensions of a ReservationShape
          Retained,  \* the retained bytes: both charged and reserved
          Limit,     \* the inclusive limit of each resource
          Shapes     \* the shapes that may be reserved

VARIABLES charged, used, terminal

Init ==
    /\ charged = [c \in Charges |-> 0]
    /\ used = [d \in Dims |-> 0]
    /\ terminal = "none"

Charge ==
    /\ terminal = "none"
    /\ \E c \in Charges :
          /\ charged' = [charged EXCEPT ![c] = charged'[c]]
          /\ charged[c] < charged'[c]
          /\ charged'[c] + (IF c = Retained THEN used[c] ELSE 0) <= Limit[c]
    /\ UNCHANGED <<used, terminal>>

Reserve ==
    /\ terminal = "none"
    /\ \E shape \in Shapes :
          /\ used' = [d \in Dims |-> used[d] + shape[d]]
          /\ \A d \in Dims :
                used'[d] + (IF d = Retained THEN charged[d] ELSE 0) <= Limit[d]
    /\ UNCHANGED <<charged, terminal>>

Release ==
    /\ \E shape \in Shapes :
          /\ \A d \in Dims : shape[d] <= used[d]
          /\ used' = [d \in Dims |-> used[d] - shape[d]]
    /\ UNCHANGED <<charged, terminal>>

Seal ==
    /\ terminal = "none"
    /\ terminal' # "none"
    /\ UNCHANGED <<charged, used>>

Next == Charge \/ Reserve \/ Release \/ Seal

Spec == Init /\ [][Next]_<<charged, used, terminal>>
=============================================================================
