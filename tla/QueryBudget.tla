------------------------------ MODULE QueryBudget ------------------------------
(***************************************************************************)
(* The QueryBudget every phase of one query shares: cumulative charges on  *)
(* atomic counters, live reservations under a mutex, a sticky terminal     *)
(* cause under a reader-writer lock, and threads that charge, reserve,     *)
(* release and terminate in any interleaving.  Each action is one step     *)
(* between lock operations; who holds a lock follows from the program      *)
(* counters.                                                               *)
(* Source: crates/sf-core/src/query_control.rs, query_control/reservation.rs*)
(***************************************************************************)
EXTENDS Integers, FiniteSets, Functions

CONSTANTS Threads,
          Charges,   \* the QueryCharge values; one also stands for the
                     \* ...Exceeded cause that exceeding it seals
          Dims,      \* the dimensions of a ReservationShape
          Retained,  \* retained bytes, the resource in both
          Limit,     \* the inclusive limit of each resource
          Shapes,    \* the shapes callers ask for
          NoToken,   \* a thread that holds no ReservationToken
          MaxCount   \* u64::MAX

Resources == Charges \cup Dims
Amounts   == 0 .. MaxCount

\* Causes sealed from outside: the deadline, a client that left, shutdown.
OutsideCauses == {"DeadlineExceeded", "Cancelled"}
Causes == OutsideCauses \cup {"AccountingOverflow"} \cup Charges

ASSUME BudgetAssumption ==
    /\ IsFiniteSet(Threads)
    /\ MaxCount \in Nat
    /\ Retained \in Charges \cap Dims
    /\ Limit \in [Resources -> Amounts]
    /\ Shapes \subseteq [Dims -> Amounts]
    /\ NoToken \notin Shapes
    /\ "none" \notin Charges /\ "ok" \notin Charges /\ "refused" \notin Charges

VARIABLES
    charged,   \* the counters of BudgetState
    used,      \* ReservationLedger.used
    terminal,  \* BudgetState.terminal
    pc,        \* where each thread is in its call
    op,        \* the call's arguments: what, how much, and the cause to seal
    current,   \* the counter as the thread last loaded it
    held,      \* the ReservationToken each thread owns
    result     \* what each thread's last call returned

vars == <<charged, used, terminal, pc, op, current, held, result>>
budget == <<charged, used, terminal>>

\* Inside these a thread holds the terminal lock for reading ...
Reading == {"load", "swap", "charge", "charging", "storing",
            "reserve", "reserving"}
\* ... and inside these it holds the ledger's mutex.
InLedger == {"charging", "storing", "reserving", "dropping"}

ChargeOp(c, n) ==
    [of |-> c, amount |-> n, shape |-> NoToken, cause |-> "none"]
ShapeOp(shape) ==
    [of |-> Retained, amount |-> 0, shape |-> shape, cause |-> "none"]
SealOp(cause) ==
    [of |-> Retained, amount |-> 0, shape |-> NoToken, cause |-> cause]
NoOp == SealOp("none")

TypeOK ==
    /\ charged \in [Charges -> Amounts]
    /\ used \in [Dims -> Amounts]
    /\ terminal \in Causes \cup {"none"}
    /\ pc \in [Threads -> Reading \cup {"idle", "seal", "drop", "dropping"}]
    /\ op \in [Threads -> [of : Charges, amount : Amounts,
                           shape : Shapes \cup {NoToken},
                           cause : Causes \cup {"none"}]]
    /\ current \in [Threads -> Amounts]
    /\ held \in [Threads -> Shapes \cup {NoToken}]
    /\ result \in [Threads -> Causes \cup {"ok", "refused"}]

Init ==
    /\ charged = [c \in Charges |-> 0]
    /\ used = [d \in Dims |-> 0]
    /\ terminal = "none"
    /\ pc = [t \in Threads |-> "idle"]
    /\ op = [t \in Threads |-> NoOp]
    /\ current = [t \in Threads |-> 0]
    /\ held = [t \in Threads |-> NoToken]
    /\ result = [t \in Threads |-> "ok"]

-----------------------------------------------------------------------------
GoTo(t, to) == pc' = [pc EXCEPT ![t] = to]

Call(t, to, args) ==
    /\ GoTo(t, to)
    /\ op' = [op EXCEPT ![t] = args]
    /\ UNCHANGED <<current, result>>

Return(t, r) ==
    /\ GoTo(t, "idle")
    /\ op' = [op EXCEPT ![t] = NoOp]
    /\ current' = [current EXCEPT ![t] = 0]
    /\ result' = [result EXCEPT ![t] = r]

\* An error path of consume: every lock is given up before terminate is called.
GoSeal(t, cause) ==
    /\ GoTo(t, "seal")
    /\ op' = [op EXCEPT ![t] = SealOp(cause)]
    /\ current' = [current EXCEPT ![t] = 0]
    /\ UNCHANGED result

\* consume: the terminal lock is taken for reading and kept while nothing is
\* sealed.  Sealing is instantaneous, so the lock is never found taken.
BeginCharge(t, c, n) ==
    /\ pc[t] = "idle"
    /\ IF terminal # "none" THEN Return(t, terminal)
       ELSE IF n = 0 THEN Return(t, "ok")
       ELSE Call(t, IF c = Retained THEN "charge" ELSE "load",
                 ChargeOp(c, n))
    /\ UNCHANGED <<budget, held>>

LoadCounter(t) ==
    /\ pc[t] = "load"
    /\ current' = [current EXCEPT ![t] = charged[op[t].of]]
    /\ GoTo(t, "swap")
    /\ UNCHANGED <<budget, op, held, result>>

\* A loop that checks its stale value and then adds to the counter it finds.
SwapBlindly(t) ==
    LET c == op[t].of
        next == current[t] + op[t].amount
    IN  /\ pc[t] = "swap"
        /\ IF next > MaxCount THEN GoSeal(t, "AccountingOverflow") /\ UNCHANGED charged
           ELSE IF next > Limit[c] THEN GoSeal(t, c) /\ UNCHANGED charged
           ELSE /\ charged' = [charged EXCEPT ![c] = @ + op[t].amount]
                /\ Return(t, "ok")
        /\ UNCHANGED <<used, terminal, held>>

\* One turn of the compare-exchange loop; a spurious failure changes nothing.
SwapCounter(t) ==
    LET c == op[t].of
        next == current[t] + op[t].amount
    IN  /\ pc[t] = "swap"
        /\ IF next > MaxCount THEN GoSeal(t, "AccountingOverflow") /\ UNCHANGED charged
           ELSE IF next > Limit[c] THEN GoSeal(t, c) /\ UNCHANGED charged
           ELSE IF charged[c] = current[t]
           THEN charged' = [charged EXCEPT ![c] = next] /\ Return(t, "ok")
           ELSE /\ current' = [current EXCEPT ![t] = charged[c]]
                /\ UNCHANGED <<charged, pc, op, result>>
        /\ UNCHANGED <<used, terminal, held>>

\* The ledger's mutex, behind the terminal lock or, in Drop, alone.
LockLedger(t) ==
    /\ \A u \in Threads : pc[u] \notin InLedger
    /\ \/ pc[t] = "charge" /\ GoTo(t, "charging")
       \/ pc[t] = "reserve" /\ GoTo(t, "reserving")
       \/ pc[t] = "drop" /\ GoTo(t, "dropping")
    /\ UNCHANGED <<budget, op, current, held, result>>

\* Retained bytes: one limit for the cumulative charge and the reservations.
CheckRetained(t) ==
    LET combined == charged[Retained] + op[t].amount + used[Retained]
    IN  /\ pc[t] = "charging"
        /\ IF combined > MaxCount THEN GoSeal(t, "AccountingOverflow")
           ELSE IF combined > Limit[Retained] THEN GoSeal(t, Retained)
           ELSE /\ current' = [current EXCEPT ![t] = charged[Retained]]
                /\ GoTo(t, "storing")
                /\ UNCHANGED <<op, result>>
        /\ UNCHANGED <<budget, held>>

StoreRetained(t) ==
    /\ pc[t] = "storing"
    /\ charged' = [charged EXCEPT ![Retained] = current[t] + op[t].amount]
    /\ Return(t, "ok")
    /\ UNCHANGED <<used, terminal, held>>

\* terminate: the write lock waits for every reader; the first cause is kept.
Seal(t) ==
    LET cause == IF terminal = "none" THEN op[t].cause ELSE terminal
    IN  /\ pc[t] = "seal"
        /\ \A u \in Threads : pc[u] \notin Reading
        /\ terminal' = cause
        /\ Return(t, cause)
        /\ UNCHANGED <<charged, used, held>>

Terminate(t, cause) ==
    /\ pc[t] = "idle"
    /\ Call(t, "seal", SealOp(cause))
    /\ UNCHANGED <<budget, held>>

-----------------------------------------------------------------------------
(* Reservations. *)

BeginReserve(t, shape) ==
    /\ pc[t] = "idle" /\ held[t] = NoToken
    /\ IF terminal # "none" THEN Return(t, terminal)
       ELSE Call(t, "reserve", ShapeOp(shape))
    /\ UNCHANGED <<budget, held>>

\* admit: every dimension or none; a refusal seals nothing.
Admit(t) ==
    LET candidate == [d \in Dims |-> used[d] + op[t].shape[d]]
        Total(d) == candidate[d] + (IF d = Retained THEN charged[d] ELSE 0)
        fits == \A d \in Dims : Total(d) <= Limit[d]
    IN  /\ pc[t] = "reserving"
        /\ IF fits
           THEN /\ used' = candidate
                /\ held' = [held EXCEPT ![t] = op[t].shape]
                /\ Return(t, "ok")
           ELSE UNCHANGED <<used, held>> /\ Return(t, "refused")
        /\ UNCHANGED <<charged, terminal>>

\* ReservationToken::release or drop, on any path and at any time.
BeginDrop(t) ==
    /\ pc[t] = "idle" /\ held[t] # NoToken
    /\ Call(t, "drop", ShapeOp(held[t]))
    /\ UNCHANGED <<budget, held>>

\* A drop that leaves the shape in the token, and a plain subtraction.
ReleaseKeepingToken(t) ==
    /\ pc[t] = "dropping"
    /\ used' = [d \in Dims |-> used[d] - held[t][d]]
    /\ Return(t, result[t])
    /\ UNCHANGED <<charged, terminal, held>>

\* Drop and ledger.release: what the ledger does not hold it does not give back.
Release(t) ==
    /\ pc[t] = "dropping"
    /\ used' = IF \A d \in Dims : held[t][d] <= used[d]
               THEN [d \in Dims |-> used[d] - held[t][d]] ELSE used
    /\ held' = [held EXCEPT ![t] = NoToken]
    /\ Return(t, result[t])
    /\ UNCHANGED <<charged, terminal>>

Consume(t) ==
    \/ \E c \in Charges, n \in Amounts : BeginCharge(t, c, n)
    \/ LoadCounter(t) \/ SwapCounter(t)
    \/ CheckRetained(t) \/ StoreRetained(t)
ReserveAndDrop(t) ==
    \/ \E shape \in Shapes : BeginReserve(t, shape)
    \/ Admit(t) \/ BeginDrop(t) \/ Release(t)
Termination(t) == Seal(t) \/ \E cause \in OutsideCauses : Terminate(t, cause)

Next == \E t \in Threads :
    Consume(t) \/ ReserveAndDrop(t) \/ LockLedger(t) \/ Termination(t)

Spec == Init /\ [][Next]_vars

-----------------------------------------------------------------------------
(* Properties *)

(* No interleaving of charges, reservations and releases exceeds a limit;  *)
(* what is charged and what is reserved of the retained bytes share one.   *)
WithinLimits ==
    /\ \A c \in Charges : charged[c] <= Limit[c]
    /\ \A d \in Dims : used[d] <= Limit[d]
    /\ charged[Retained] + used[Retained] <= Limit[Retained]

(* The ledger never forgets a token and never counts one twice: what is    *)
(* reserved is exactly what the threads' tokens amount to.                 *)
ReservedIsOwned ==
    \A d \in Dims :
        used[d] = SumFunction([t \in Threads |->
                                  IF held[t] = NoToken THEN 0 ELSE held[t][d]])

(* Sealing is a cut: once a cause is sealed, no charge and no reservation  *)
(* that was already on its way takes effect, and the cause stays.          *)
NothingAdmittedOnceSealed ==
    [][terminal # "none" =>
          /\ terminal' = terminal /\ charged' = charged
          /\ \A d \in Dims : used'[d] <= used[d]]_vars

(* A call that reports a cause reports the one that is sealed, the same    *)
(* for every thread, even when several overrun different limits at once.   *)
FailureIsSealed ==
    \A t \in Threads : result[t] \in Causes => terminal = result[t]

Atomic == INSTANCE AtomicBudget
(* Every interleaving of the locks and the compare-exchange loop is an     *)
(* execution of calls that take effect at one instant.                     *)
ImplementsAtomic == Atomic!Spec
=============================================================================
