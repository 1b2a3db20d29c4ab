--------------------------- MODULE QueryBudgetProofs ---------------------------
(***************************************************************************)
(* Theorems of QueryBudget for any number of threads, any limits, any      *)
(* shapes and any counter width: the limits hold, sealing is a cut, every  *)
(* reported cause is the sealed one, and the locked and compare-exchanged  *)
(* steps implement the atomic budget.                                      *)
(*                                                                         *)
(* The limits are not inductive by themselves: a thread about to store its *)
(* retained charge relies on what it checked earlier, which holds because  *)
(* it has the ledger's mutex; and an admission relies on the terminal lock *)
(* it reads under.  Locks and Arguments say what each place in a call may  *)
(* rely on.  That the ledger holds exactly the tokens is a statement about *)
(* a sum over the threads: the lemmas on sums come before it.              *)
(***************************************************************************)
EXTENDS QueryBudget, TLAPS, FiniteSetTheorems, WellFoundedInduction

Locks ==
    /\ \A t \in Threads : pc[t] \in Reading => terminal = "none"
    /\ \A t, u \in Threads :
          pc[t] \in InLedger /\ pc[u] \in InLedger => t = u

ArgumentsOf(t) ==
    /\ pc[t] \in {"load", "swap"} => op[t].of # Retained
    /\ pc[t] \in {"load", "swap", "charge", "charging", "storing"} =>
          op[t].amount > 0
    /\ pc[t] \in {"reserve", "reserving"} => op[t].shape \in Shapes
    /\ pc[t] \in {"drop", "dropping"} => held[t] \in Shapes
    /\ pc[t] = "seal" => op[t].cause \in Causes
    /\ pc[t] = "storing" =>
          /\ current[t] = charged[Retained]
          /\ current[t] + op[t].amount + used[Retained] <= Limit[Retained]

Arguments == \A t \in Threads : ArgumentsOf(t)

\* The part of TypeOK about the threads' calls.
ThreadsTyped ==
    /\ pc \in [Threads -> Reading \cup {"idle", "seal", "drop", "dropping"}]
    /\ op \in [Threads -> [of : Charges, amount : Amounts,
                           shape : Shapes \cup {NoToken},
                           cause : Causes \cup {"none"}]]
    /\ current \in [Threads -> Amounts]
    /\ result \in [Threads -> Causes \cup {"ok", "refused"}]

IInv == TypeOK /\ Locks /\ Arguments /\ WithinLimits

-----------------------------------------------------------------------------
(* What the constants give: the limits are amounts, and the causes are none *)
(* of the other results.                                                    *)
LEMMA Constants ==
    /\ MaxCount \in Nat
    /\ Retained \in Charges /\ Retained \in Dims
    /\ \A c \in Charges : Limit[c] \in Amounts
    /\ \A d \in Dims : Limit[d] \in Amounts
    /\ \A s \in Shapes, d \in Dims : s[d] \in Amounts
    /\ NoToken \notin Shapes
    /\ "none" \notin Causes /\ "ok" \notin Causes /\ "refused" \notin Causes
BY BudgetAssumption DEF Resources, Causes, OutsideCauses

LEMMA InitInv == Init => IInv
<1> SUFFICES ASSUME Init PROVE IInv
    OBVIOUS
<1>1. TypeOK
    BY Constants DEF Init, TypeOK, NoOp, SealOp, Amounts, Causes, Reading
<1>2. Locks /\ Arguments
    BY DEF Init, Locks, Arguments, ArgumentsOf, Reading, InLedger
<1>3. WithinLimits
    BY Constants DEF Init, WithinLimits, Amounts
<1> QED BY <1>1, <1>2, <1>3 DEF IInv

(* A thread that returns, turns to sealing or begins a call stays typed.    *)
LEMMA ReturnTyped ==
    ASSUME TypeOK, NEW t \in Threads, NEW r \in Causes \cup {"ok", "refused"},
           Return(t, r)
    PROVE  ThreadsTyped'
BY Constants DEF TypeOK, ThreadsTyped, Return, GoTo, NoOp, SealOp, Amounts

LEMMA SealTyped ==
    ASSUME TypeOK, NEW t \in Threads, NEW cause \in Causes, GoSeal(t, cause)
    PROVE  ThreadsTyped'
BY Constants DEF TypeOK, ThreadsTyped, GoSeal, GoTo, NoOp, SealOp, Amounts

LEMMA CallTyped ==
    ASSUME TypeOK, NEW t \in Threads,
           NEW to \in Reading \cup {"idle", "seal", "drop", "dropping"},
           NEW args \in [of : Charges, amount : Amounts,
                         shape : Shapes \cup {NoToken},
                         cause : Causes \cup {"none"}],
           Call(t, to, args)
    PROVE  ThreadsTyped'
BY DEF TypeOK, ThreadsTyped, Call, GoTo

LEMMA TypeStep == IInv /\ [Next]_vars => TypeOK'
<1> SUFFICES ASSUME IInv, [Next]_vars PROVE TypeOK'
    OBVIOUS
<1>t. TypeOK /\ Arguments /\ WithinLimits
    BY DEF IInv
<1>p. /\ \A t \in Threads : op[t].of \in Charges /\ op[t].amount \in Amounts
      /\ \A t \in Threads : current[t] \in Amounts
      /\ \A t \in Threads : op[t].shape \in Shapes \cup {NoToken}
      /\ \A t \in Threads : result[t] \in Causes \cup {"ok", "refused"}
      /\ \A c \in Charges : charged[c] \in Amounts
      /\ \A d \in Dims : used[d] \in Amounts
    BY <1>t DEF TypeOK
<1>q. /\ charged \in [Charges -> Amounts] /\ used \in [Dims -> Amounts]
      /\ terminal \in Causes \cup {"none"} /\ ThreadsTyped
      /\ held \in [Threads -> Shapes \cup {NoToken}]
    BY <1>t DEF TypeOK, ThreadsTyped
<1>n. (/\ charged' \in [Charges -> Amounts] /\ used' \in [Dims -> Amounts]
       /\ terminal' \in Causes \cup {"none"} /\ ThreadsTyped'
       /\ held' \in [Threads -> Shapes \cup {NoToken}]) => TypeOK'
    BY DEF TypeOK, ThreadsTyped
<1> USE <1>q, <1>n
<1>1. ASSUME NEW t \in Threads, NEW c \in Charges, NEW n \in Amounts,
             BeginCharge(t, c, n)
      PROVE  TypeOK'
  <2>1. CASE terminal # "none"
    <3>1. terminal \in Causes /\ Return(t, terminal)
        BY <1>1, <1>t, <2>1 DEF TypeOK, BeginCharge
    <3> QED BY <1>1, <1>t, <3>1, ReturnTyped DEF BeginCharge, budget
  <2>2. CASE terminal = "none" /\ n = 0
    <3>1. Return(t, "ok")
        BY <1>1, <2>2 DEF BeginCharge
    <3> QED BY <1>1, <1>t, <3>1, ReturnTyped DEF BeginCharge, budget
  <2>3. CASE terminal = "none" /\ n # 0
    <3> DEFINE args == ChargeOp(c, n)
    <3>1. args \in [of : Charges, amount : Amounts,
                    shape : Shapes \cup {NoToken}, cause : Causes \cup {"none"}]
        BY Constants DEF ChargeOp, ShapeOp, SealOp
    <3>2. Call(t, "charge", args) \/ Call(t, "load", args)
        BY <1>1, <2>3 DEF BeginCharge
    <3>3. ThreadsTyped'
        BY <1>t, <3>1, <3>2, CallTyped DEF Reading
    <3> QED BY <1>1, <1>t, <3>3 DEF BeginCharge, budget
  <2> QED BY <2>1, <2>2, <2>3
<1>2. ASSUME NEW t \in Threads, LoadCounter(t)
      PROVE  TypeOK'
  <2>1. ThreadsTyped'
      BY <1>2, <1>t, <1>p DEF LoadCounter, GoTo, TypeOK, ThreadsTyped, Reading
  <2> QED BY <1>2, <1>t, <2>1 DEF LoadCounter, budget
<1>3. ASSUME NEW t \in Threads, SwapCounter(t)
      PROVE  TypeOK'
  <2> DEFINE c == op[t].of
             next == current[t] + op[t].amount
  <2>0. c \in Charges /\ next \in Nat /\ Limit[c] \in Amounts
      BY <1>p, Constants DEF Amounts
  <2>1. CASE \E cause \in Causes : GoSeal(t, cause) /\ UNCHANGED charged
      BY <1>3, <1>t, <2>1, SealTyped DEF SwapCounter
  <2>2. CASE next <= Limit[c] /\ charged' = [charged EXCEPT ![c] = next]
             /\ Return(t, "ok")
    <3>1. charged' \in [Charges -> Amounts]
        BY <1>t, <2>0, <2>2, Constants DEF TypeOK, Amounts
    <3> QED BY <1>3, <1>t, <2>2, <3>1, ReturnTyped DEF SwapCounter
  <2>3. CASE current' = [current EXCEPT ![t] = charged[c]]
             /\ UNCHANGED <<charged, pc, op, result>>
    <3>1. ThreadsTyped'
        BY <1>t, <1>p, <2>0, <2>3 DEF TypeOK, ThreadsTyped
    <3> QED BY <1>3, <1>t, <2>3, <3>1 DEF SwapCounter
  <2>4. {"AccountingOverflow", c} \subseteq Causes
      BY <2>0 DEF Causes
  <2> QED BY <1>3, <2>0, <2>1, <2>2, <2>3, <2>4 DEF SwapCounter, Amounts
<1>4. ASSUME NEW t \in Threads, LockLedger(t)
      PROVE  TypeOK'
  <2>1. ThreadsTyped'
      BY <1>4, <1>t DEF LockLedger, GoTo, TypeOK, ThreadsTyped, Reading
  <2> QED BY <1>4, <1>t, <2>1 DEF LockLedger, budget
<1>5. ASSUME NEW t \in Threads, CheckRetained(t)
      PROVE  TypeOK'
  <2>0. {"AccountingOverflow", Retained} \subseteq Causes
      BY Constants DEF Causes
  <2>1. CASE \E cause \in Causes : GoSeal(t, cause)
      BY <1>5, <1>t, <2>1, SealTyped DEF CheckRetained, budget
  <2>2. CASE /\ current' = [current EXCEPT ![t] = charged[Retained]]
             /\ GoTo(t, "storing") /\ UNCHANGED <<op, result>>
    <3>1. ThreadsTyped'
        BY <1>t, <1>p, <2>2, Constants DEF GoTo, TypeOK, ThreadsTyped, Reading
    <3> QED BY <1>5, <1>t, <3>1 DEF CheckRetained, budget
  <2> QED BY <1>5, <2>0, <2>1, <2>2 DEF CheckRetained
<1>6. ASSUME NEW t \in Threads, StoreRetained(t)
      PROVE  TypeOK'
  <2>1. current[t] + op[t].amount \in Amounts
      BY <1>6, <1>t, <1>p, Constants DEF StoreRetained, Arguments, ArgumentsOf, Amounts
  <2>2. charged' \in [Charges -> Amounts]
      BY <1>6, <1>t, <2>1 DEF StoreRetained, TypeOK
  <2> QED BY <1>6, <1>t, <2>2, ReturnTyped DEF StoreRetained
<1>7. ASSUME NEW t \in Threads, Seal(t)
      PROVE  TypeOK'
  <2> DEFINE cause == IF terminal = "none" THEN op[t].cause ELSE terminal
  <2>1. cause \in Causes
      BY <1>7, <1>t DEF Seal, Arguments, ArgumentsOf, TypeOK
  <2>2. Return(t, cause) /\ terminal' = cause
      BY <1>7 DEF Seal
  <2> QED BY <1>7, <1>t, <2>1, <2>2, ReturnTyped DEF Seal
<1>8. ASSUME NEW t \in Threads, NEW cause \in OutsideCauses, Terminate(t, cause)
      PROVE  TypeOK'
  <2>1. SealOp(cause)
            \in [of : Charges, amount : Amounts,
                 shape : Shapes \cup {NoToken}, cause : Causes \cup {"none"}]
      BY Constants DEF ChargeOp, ShapeOp, SealOp, Causes, Amounts
  <2>2. ThreadsTyped'
      BY <1>8, <1>t, <2>1, CallTyped DEF Terminate
  <2> QED BY <1>8, <1>t, <2>2 DEF Terminate, budget
<1>9. ASSUME NEW t \in Threads, NEW shape \in Shapes, BeginReserve(t, shape)
      PROVE  TypeOK'
  <2>1. CASE terminal # "none"
    <3>1. terminal \in Causes /\ Return(t, terminal)
        BY <1>9, <1>t, <2>1 DEF TypeOK, BeginReserve
    <3> QED BY <1>9, <1>t, <3>1, ReturnTyped DEF BeginReserve, budget
  <2>2. CASE terminal = "none"
    <3>1. ShapeOp(shape)
              \in [of : Charges, amount : Amounts,
                   shape : Shapes \cup {NoToken}, cause : Causes \cup {"none"}]
        BY Constants DEF ChargeOp, ShapeOp, SealOp, Amounts
    <3>2. Call(t, "reserve", ShapeOp(shape))
        BY <1>9, <2>2 DEF BeginReserve
    <3>3. ThreadsTyped'
        BY <1>t, <3>1, <3>2, CallTyped DEF Reading
    <3> QED BY <1>9, <1>t, <3>3 DEF BeginReserve, budget
  <2> QED BY <2>1, <2>2
<1>10. ASSUME NEW t \in Threads, Admit(t)
       PROVE  TypeOK'
  <2> DEFINE candidate == [d \in Dims |-> used[d] + op[t].shape[d]]
             Total(d) == candidate[d] + (IF d = Retained THEN charged[d] ELSE 0)
  <2>0. op[t].shape \in Shapes
      BY <1>10, <1>t DEF Admit, Arguments, ArgumentsOf
  <2>1. CASE \A d \in Dims : Total(d) <= Limit[d]
    <3>1. ASSUME NEW d \in Dims PROVE candidate[d] \in Amounts
      <4>1. candidate[d] \in Nat /\ candidate[d] <= Total(d)
          BY <1>p, <2>0, Constants DEF Amounts
      <4> QED BY <2>1, <4>1, Constants, <1>p DEF Amounts
    <3>2. used' = candidate /\ used' \in [Dims -> Amounts]
        BY <1>10, <2>1, <3>1 DEF Admit
    <3>3. held' \in [Threads -> Shapes \cup {NoToken}] /\ Return(t, "ok")
        BY <1>10, <1>t, <2>0, <2>1 DEF Admit, TypeOK
    <3> QED BY <1>10, <1>t, <3>2, <3>3, ReturnTyped DEF Admit
  <2>2. CASE ~\A d \in Dims : Total(d) <= Limit[d]
    <3>1. UNCHANGED <<used, held>> /\ Return(t, "refused")
        BY <1>10, <2>2 DEF Admit
    <3> QED BY <1>10, <1>t, <3>1, ReturnTyped DEF Admit
  <2> QED BY <2>1, <2>2
<1>11. ASSUME NEW t \in Threads, BeginDrop(t)
       PROVE  TypeOK'
  <2>1. ShapeOp(held[t])
            \in [of : Charges, amount : Amounts,
                 shape : Shapes \cup {NoToken}, cause : Causes \cup {"none"}]
      BY <1>t, Constants DEF ChargeOp, ShapeOp, SealOp, Amounts, TypeOK
  <2>2. ThreadsTyped'
      BY <1>11, <1>t, <2>1, CallTyped DEF BeginDrop
  <2> QED BY <1>11, <1>t, <2>2 DEF BeginDrop, budget
<1>12. ASSUME NEW t \in Threads, Release(t)
       PROVE  TypeOK'
  <2>0. held[t] \in Shapes /\ \A d \in Dims : held[t][d] \in Amounts
      BY <1>12, <1>t, Constants DEF Release, Arguments, ArgumentsOf
  <2>1. used' \in [Dims -> Amounts]
    <3>1. CASE \A d \in Dims : held[t][d] <= used[d]
      <4>1. ASSUME NEW d \in Dims PROVE used[d] - held[t][d] \in Amounts
          BY <1>p, <2>0, <3>1, Constants DEF Amounts
      <4> QED BY <1>12, <3>1, <4>1 DEF Release
    <3>2. CASE ~\A d \in Dims : held[t][d] <= used[d]
        BY <1>12, <1>t, <3>2 DEF Release, TypeOK
    <3> QED BY <3>1, <3>2
  <2>2. held' \in [Threads -> Shapes \cup {NoToken}] /\ Return(t, result[t])
      BY <1>12, <1>t DEF Release, TypeOK
  <2> QED BY <1>12, <1>t, <1>p, <2>1, <2>2, ReturnTyped DEF Release
<1>13. CASE UNCHANGED vars
    BY <1>t, <1>13 DEF vars, TypeOK
<1> QED
    BY <1>1, <1>2, <1>3, <1>4, <1>5, <1>6, <1>7, <1>8, <1>9, <1>10, <1>11,
       <1>12, <1>13
    DEF Next, Consume, ReserveAndDrop, Termination

-----------------------------------------------------------------------------
(* A step of one thread keeps the locks if it enters the terminal lock only *)
(* while nothing is sealed, and the ledger only while nobody is in it.      *)
LEMMA LocksKept ==
    ASSUME IInv, NEW t \in Threads, NEW to, GoTo(t, to), terminal' = terminal,
           to \in Reading => pc[t] \in Reading \/ terminal = "none",
           to \in InLedger => \/ pc[t] \in InLedger
                              \/ \A u \in Threads : pc[u] \notin InLedger
    PROVE  Locks'
<1>1. /\ pc'[t] = to /\ \A u \in Threads : u # t => pc'[u] = pc[u]
      /\ TypeOK /\ Locks
    BY DEF IInv, TypeOK, GoTo
<1>2. \A u \in Threads : pc'[u] \in Reading => terminal' = "none"
    BY <1>1 DEF Locks
<1>3. \A u, v \in Threads : pc'[u] \in InLedger /\ pc'[v] \in InLedger => u = v
    BY <1>1 DEF Locks
<1> QED BY <1>2, <1>3 DEF Locks

LEMMA LocksStep == IInv /\ [Next]_vars => Locks'
<1> SUFFICES ASSUME IInv, [Next]_vars PROVE Locks'
    OBVIOUS
<1>0. TypeOK /\ Locks
    BY DEF IInv
<1>r. ASSUME NEW t \in Threads, NEW r, Return(t, r), terminal' = terminal
      PROVE  Locks'
    BY <1>r, LocksKept DEF Return, Reading, InLedger
<1>s. ASSUME NEW t \in Threads, NEW cause, GoSeal(t, cause), terminal' = terminal
      PROVE  Locks'
    BY <1>s, LocksKept DEF GoSeal, Reading, InLedger
<1>1. ASSUME NEW t \in Threads, NEW c \in Charges, NEW n \in Amounts,
             BeginCharge(t, c, n)
      PROVE  Locks'
  <2>1. CASE \E r : Return(t, r)
      BY <1>1, <1>r, <2>1 DEF BeginCharge, budget
  <2>2. CASE terminal = "none" /\ GoTo(t, IF c = Retained THEN "charge" ELSE "load")
      BY <1>1, <2>2, LocksKept DEF BeginCharge, budget, InLedger
  <2> QED BY <1>1, <2>1, <2>2 DEF BeginCharge, Call
<1>2. ASSUME NEW t \in Threads, LoadCounter(t)
      PROVE  Locks'
    BY <1>2, LocksKept DEF LoadCounter, budget, Reading, InLedger
<1>3. ASSUME NEW t \in Threads, SwapCounter(t)
      PROVE  Locks'
  <2>1. CASE UNCHANGED pc
      BY <1>0, <1>3, <2>1 DEF SwapCounter, Locks
  <2> QED BY <1>3, <1>r, <1>s, <2>1 DEF SwapCounter
<1>4. ASSUME NEW t \in Threads, LockLedger(t)
      PROVE  Locks'
  <2>1. terminal' = terminal /\ \A u \in Threads : pc[u] \notin InLedger
      BY <1>4 DEF LockLedger, budget
  <2>2. \/ pc[t] = "charge" /\ GoTo(t, "charging")
        \/ pc[t] = "reserve" /\ GoTo(t, "reserving")
        \/ GoTo(t, "dropping")
      BY <1>4 DEF LockLedger
  <2> QED BY <2>1, <2>2, LocksKept DEF Reading
<1>5. ASSUME NEW t \in Threads, CheckRetained(t)
      PROVE  Locks'
  <2>1. CASE GoTo(t, "storing")
      BY <1>5, <2>1, LocksKept DEF CheckRetained, budget, Reading, InLedger
  <2> QED BY <1>5, <1>s, <2>1 DEF CheckRetained, budget
<1>6. ASSUME NEW t \in Threads, StoreRetained(t)
      PROVE  Locks'
    BY <1>6, <1>r DEF StoreRetained
<1>7. ASSUME NEW t \in Threads, Seal(t)
      PROVE  Locks'
  <2>1. \A u \in Threads : pc[u] \notin Reading
      BY <1>7 DEF Seal
  <2>2. pc' = [pc EXCEPT ![t] = "idle"]
      BY <1>7 DEF Seal, Return, GoTo
  <2>3. \A u \in Threads : pc'[u] = pc[u] \/ pc'[u] = "idle"
      BY <1>0, <2>2 DEF TypeOK
  <2> QED BY <1>0, <2>1, <2>3 DEF Locks, Reading, InLedger
<1>8. ASSUME NEW t \in Threads, NEW cause \in OutsideCauses, Terminate(t, cause)
      PROVE  Locks'
    BY <1>8, LocksKept DEF Terminate, Call, budget, Reading, InLedger
<1>9. ASSUME NEW t \in Threads, NEW shape \in Shapes, BeginReserve(t, shape)
      PROVE  Locks'
  <2>1. CASE Return(t, terminal)
      BY <1>9, <1>r, <2>1 DEF BeginReserve, budget
  <2>2. CASE terminal = "none" /\ GoTo(t, "reserve")
      BY <1>9, <2>2, LocksKept DEF BeginReserve, budget, InLedger
  <2> QED BY <1>9, <2>1, <2>2 DEF BeginReserve, Call
<1>10. ASSUME NEW t \in Threads, Admit(t)
       PROVE  Locks'
    BY <1>10, <1>r DEF Admit
<1>11. ASSUME NEW t \in Threads, BeginDrop(t)
       PROVE  Locks'
    BY <1>11, LocksKept DEF BeginDrop, Call, budget, Reading, InLedger
<1>12. ASSUME NEW t \in Threads, Release(t)
       PROVE  Locks'
    BY <1>12, <1>r DEF Release
<1>13. CASE UNCHANGED vars
    BY <1>0, <1>13 DEF vars, Locks
<1> QED
    BY <1>1, <1>2, <1>3, <1>4, <1>5, <1>6, <1>7, <1>8, <1>9, <1>10, <1>11,
       <1>12, <1>13
    DEF Next, Consume, ReserveAndDrop, Termination

-----------------------------------------------------------------------------
(* What a thread may rely on survives every step of another one: only the   *)
(* holder of the ledger's mutex moves what a storing thread has checked.    *)
LEMMA ArgumentsKept ==
    ASSUME IInv, NEW t \in Threads,
           \A u \in Threads : u # t => /\ pc'[u] = pc[u] /\ op'[u] = op[u]
                                       /\ current'[u] = current[u]
                                       /\ held'[u] = held[u],
           \/ pc[t] \in InLedger
           \/ charged'[Retained] = charged[Retained] /\ used'[Retained] = used[Retained],
           ArgumentsOf(t)'
    PROVE  Arguments'
<1>1. Arguments /\ Locks
    BY DEF IInv
<1>2. ASSUME NEW u \in Threads, u # t PROVE ArgumentsOf(u)'
  <2>1. ArgumentsOf(u)
      BY <1>1 DEF Arguments
  <2>2. pc[u] = "storing" => /\ charged'[Retained] = charged[Retained]
                             /\ used'[Retained] = used[Retained]
      BY <1>1, <1>2 DEF Locks, InLedger
  <2> QED BY <1>2, <2>1, <2>2 DEF ArgumentsOf
<1> QED BY <1>2 DEF Arguments

LEMMA ArgumentsStep == IInv /\ [Next]_vars => Arguments'
<1> SUFFICES ASSUME IInv, [Next]_vars PROVE Arguments'
    OBVIOUS
<1>0. TypeOK /\ Arguments
    BY DEF IInv
\* The other threads' calls are untouched.
<1>r. ASSUME NEW t \in Threads, NEW r, Return(t, r)
      PROVE  /\ \A u \in Threads : u # t => /\ pc'[u] = pc[u] /\ op'[u] = op[u]
                                            /\ current'[u] = current[u]
             /\ ArgumentsOf(t)'
  <2>1. pc'[t] = "idle"
      BY <1>0, <1>r DEF Return, GoTo, TypeOK
  <2> QED BY <1>0, <1>r, <2>1 DEF Return, GoTo, TypeOK, ArgumentsOf
<1>s. ASSUME NEW t \in Threads, NEW cause \in Causes, GoSeal(t, cause)
      PROVE  /\ \A u \in Threads : u # t => /\ pc'[u] = pc[u] /\ op'[u] = op[u]
                                            /\ current'[u] = current[u]
             /\ ArgumentsOf(t)'
  <2>1. pc'[t] = "seal" /\ op'[t].cause = cause
      BY <1>0, <1>s DEF GoSeal, GoTo, SealOp, TypeOK
  <2> QED BY <1>0, <1>s, <2>1 DEF GoSeal, GoTo, TypeOK, ArgumentsOf
<1>c. ASSUME NEW t \in Threads, NEW to, NEW args, Call(t, to, args)
      PROVE  /\ \A u \in Threads : u # t => /\ pc'[u] = pc[u] /\ op'[u] = op[u]
                                            /\ current'[u] = current[u]
             /\ pc'[t] = to /\ op'[t] = args /\ current'[t] = current[t]
    BY <1>0, <1>c DEF Call, GoTo, TypeOK
<1>1. ASSUME NEW t \in Threads, NEW c \in Charges, NEW n \in Amounts,
             BeginCharge(t, c, n)
      PROVE  Arguments'
  <2>0. UNCHANGED <<charged, used, held>>
      BY <1>1 DEF BeginCharge, budget
  <2>1. CASE \E r : Return(t, r)
      BY <1>r, <2>0, <2>1, ArgumentsKept
  <2>2. CASE n # 0 /\ Call(t, IF c = Retained THEN "charge" ELSE "load", ChargeOp(c, n))
    <3>1. ArgumentsOf(t)'
        BY <1>c, <2>2 DEF ArgumentsOf, ChargeOp, Amounts
    <3> QED BY <1>c, <2>0, <2>2, <3>1, ArgumentsKept
  <2> QED BY <1>1, <2>1, <2>2 DEF BeginCharge
<1>2. ASSUME NEW t \in Threads, LoadCounter(t)
      PROVE  Arguments'
  <2>1. /\ pc[t] = "load" /\ pc'[t] = "swap" /\ UNCHANGED <<charged, used, held, op>>
        /\ \A u \in Threads : u # t => /\ pc'[u] = pc[u] /\ current'[u] = current[u]
      BY <1>0, <1>2 DEF LoadCounter, GoTo, TypeOK, budget
  <2>2. ArgumentsOf(t)'
      BY <1>0, <2>1 DEF Arguments, ArgumentsOf
  <2> QED BY <2>1, <2>2, ArgumentsKept
<1>3. ASSUME NEW t \in Threads, SwapCounter(t)
      PROVE  Arguments'
  <2>0. /\ pc[t] = "swap" /\ op[t].of # Retained /\ op[t].of \in Charges
        /\ UNCHANGED <<used, held>>
      BY <1>0, <1>3 DEF SwapCounter, Arguments, ArgumentsOf, TypeOK
  <2>1. charged'[Retained] = charged[Retained]
    <3>1. \/ charged' = charged
          \/ charged' = [charged EXCEPT ![op[t].of] = current[t] + op[t].amount]
        BY <1>3 DEF SwapCounter
    <3> QED BY <1>0, <2>0, <3>1, Constants DEF TypeOK
  <2>2. {"AccountingOverflow", op[t].of} \subseteq Causes
      BY <2>0 DEF Causes
  <2>3. CASE \E cause \in Causes : GoSeal(t, cause)
      BY <1>s, <2>0, <2>1, <2>3, ArgumentsKept
  <2>4. CASE Return(t, "ok")
      BY <1>r, <2>0, <2>1, <2>4, ArgumentsKept
  <2>5. CASE /\ current' = [current EXCEPT ![t] = charged[op[t].of]]
             /\ UNCHANGED <<charged, pc, op, result>>
    <3>1. ArgumentsOf(t)'
        BY <1>0, <2>0, <2>5 DEF Arguments, ArgumentsOf
    <3>2. \A u \in Threads : u # t => current'[u] = current[u]
        BY <1>0, <2>5 DEF TypeOK
    <3> QED BY <2>0, <2>1, <2>5, <3>1, <3>2, ArgumentsKept
  <2> QED BY <1>3, <2>2, <2>3, <2>4, <2>5 DEF SwapCounter
<1>4. ASSUME NEW t \in Threads, LockLedger(t)
      PROVE  Arguments'
  <2>1. /\ UNCHANGED <<charged, used, held, op, current>>
        /\ \A u \in Threads : u # t => pc'[u] = pc[u]
        /\ \/ pc[t] = "charge" /\ pc'[t] = "charging"
           \/ pc[t] = "reserve" /\ pc'[t] = "reserving"
           \/ pc[t] = "drop" /\ pc'[t] = "dropping"
      BY <1>0, <1>4 DEF LockLedger, GoTo, TypeOK, budget
  <2>2. ArgumentsOf(t)'
      BY <1>0, <2>1 DEF Arguments, ArgumentsOf
  <2> QED BY <2>1, <2>2, ArgumentsKept
<1>5. ASSUME NEW t \in Threads, CheckRetained(t)
      PROVE  Arguments'
  <2>0. pc[t] = "charging" /\ UNCHANGED <<charged, used, held>>
      BY <1>5 DEF CheckRetained, budget
  <2>1. CASE \E cause \in Causes : GoSeal(t, cause)
      BY <1>s, <2>0, <2>1, ArgumentsKept
  <2>2. CASE /\ charged[Retained] + op[t].amount + used[Retained] <= Limit[Retained]
             /\ current' = [current EXCEPT ![t] = charged[Retained]]
             /\ GoTo(t, "storing") /\ UNCHANGED op
    <3>1. /\ pc'[t] = "storing" /\ current'[t] = charged[Retained]
          /\ \A u \in Threads : u # t => /\ pc'[u] = pc[u]
                                         /\ current'[u] = current[u]
        BY <1>0, <2>2 DEF GoTo, TypeOK
    <3>2. ArgumentsOf(t)'
        BY <1>0, <2>0, <2>2, <3>1 DEF Arguments, ArgumentsOf
    <3> QED BY <2>0, <2>2, <3>1, <3>2, ArgumentsKept
  <2>3. {"AccountingOverflow", Retained} \subseteq Causes
      BY Constants DEF Causes
  <2>4. charged[Retained] + op[t].amount + used[Retained] \in Int
        /\ Limit[Retained] \in Int
      BY <1>0, Constants DEF TypeOK, Amounts
  <2> QED BY <1>5, <2>1, <2>2, <2>3, <2>4 DEF CheckRetained
<1>6. ASSUME NEW t \in Threads, StoreRetained(t)
      PROVE  Arguments'
  <2>1. pc[t] \in InLedger /\ Return(t, "ok") /\ UNCHANGED held
      BY <1>6 DEF StoreRetained, InLedger
  <2> QED BY <1>r, <2>1, ArgumentsKept
<1>7. ASSUME NEW t \in Threads, Seal(t)
      PROVE  Arguments'
  <2>1. UNCHANGED <<charged, used, held>> /\ \E r : Return(t, r)
      BY <1>7 DEF Seal
  <2> QED BY <1>r, <2>1, ArgumentsKept
<1>8. ASSUME NEW t \in Threads, NEW cause \in OutsideCauses, Terminate(t, cause)
      PROVE  Arguments'
  <2>1. UNCHANGED <<charged, used, held>> /\ Call(t, "seal", SealOp(cause))
      BY <1>8 DEF Terminate, budget
  <2>2. ArgumentsOf(t)'
      BY <1>c, <2>1 DEF ArgumentsOf, SealOp, Causes
  <2> QED BY <1>c, <2>1, <2>2, ArgumentsKept
<1>9. ASSUME NEW t \in Threads, NEW shape \in Shapes, BeginReserve(t, shape)
      PROVE  Arguments'
  <2>0. UNCHANGED <<charged, used, held>>
      BY <1>9 DEF BeginReserve, budget
  <2>1. CASE Return(t, terminal)
      BY <1>r, <2>0, <2>1, ArgumentsKept
  <2>2. CASE Call(t, "reserve", ShapeOp(shape))
    <3>1. ArgumentsOf(t)'
        BY <1>c, <2>2 DEF ArgumentsOf, ShapeOp
    <3> QED BY <1>c, <2>0, <2>2, <3>1, ArgumentsKept
  <2> QED BY <1>9, <2>1, <2>2 DEF BeginReserve
<1>10. ASSUME NEW t \in Threads, Admit(t)
       PROVE  Arguments'
  <2>1. /\ pc[t] \in InLedger
        /\ \A u \in Threads : u # t => held'[u] = held[u]
        /\ \E r : Return(t, r)
      BY <1>0, <1>10 DEF Admit, InLedger, TypeOK
  <2> QED BY <1>r, <2>1, ArgumentsKept
<1>11. ASSUME NEW t \in Threads, BeginDrop(t)
       PROVE  Arguments'
  <2>1. /\ UNCHANGED <<charged, used, held>> /\ held[t] \in Shapes
        /\ Call(t, "drop", ShapeOp(held[t]))
      BY <1>0, <1>11 DEF BeginDrop, budget, TypeOK
  <2>2. ArgumentsOf(t)'
      BY <1>c, <2>1 DEF ArgumentsOf
  <2> QED BY <1>c, <2>1, <2>2, ArgumentsKept
<1>12. ASSUME NEW t \in Threads, Release(t)
       PROVE  Arguments'
  <2>1. /\ pc[t] \in InLedger
        /\ \A u \in Threads : u # t => held'[u] = held[u]
        /\ Return(t, result[t])
      BY <1>0, <1>12 DEF Release, InLedger, TypeOK
  <2> QED BY <1>r, <2>1, ArgumentsKept
<1>13. CASE UNCHANGED vars
    BY <1>0, <1>13 DEF vars, Arguments, ArgumentsOf
<1> QED
    BY <1>1, <1>2, <1>3, <1>4, <1>5, <1>6, <1>7, <1>8, <1>9, <1>10, <1>11,
       <1>12, <1>13
    DEF Next, Consume, ReserveAndDrop, Termination

-----------------------------------------------------------------------------
(* Every step takes effect on the counters, the ledger and the cause as one *)
(* call of the atomic budget, or not at all.                                *)
LEMMA BudgetStep == IInv /\ [Next]_vars => [Atomic!Next]_budget
<1> SUFFICES ASSUME IInv, [Next]_vars, ~UNCHANGED budget PROVE Atomic!Next
    BY DEF budget
<1>0. TypeOK /\ Locks /\ Arguments
    BY DEF IInv
<1>p. /\ \A t \in Threads : op[t].of \in Charges /\ op[t].amount \in Amounts
      /\ \A t \in Threads : current[t] \in Amounts
      /\ \A c \in Charges : charged[c] \in Amounts /\ Limit[c] \in Amounts
      /\ \A d \in Dims : used[d] \in Amounts
      /\ Retained \in Charges /\ Retained \in Dims
    BY <1>0, Constants DEF TypeOK
<1>1. ASSUME NEW t \in Threads, SwapCounter(t) PROVE Atomic!Next
  <2> DEFINE c == op[t].of
             next == current[t] + op[t].amount
  <2>0. /\ pc[t] = "swap" /\ c # Retained /\ op[t].amount > 0 /\ terminal = "none"
        /\ UNCHANGED <<used, terminal>>
      BY <1>0, <1>1 DEF SwapCounter, Arguments, ArgumentsOf, Locks, Reading
  <2>1. /\ charged[c] = current[t] /\ ~(next > Limit[c])
        /\ charged' = [charged EXCEPT ![c] = next]
      BY <1>1, <2>0 DEF SwapCounter, budget
  <2>2. charged'[c] = next
      BY <1>0, <1>p, <2>1 DEF TypeOK
  <2>3. charged[c] < charged'[c] /\ charged'[c] <= Limit[c] /\ charged'[c] \in Int
      BY <1>p, <2>0, <2>1, <2>2 DEF Amounts
  <2>4. c \in Charges /\ charged' = [charged EXCEPT ![c] = charged'[c]]
      BY <1>p, <2>1, <2>2
  <2>5. charged'[c] + (IF c = Retained THEN used[c] ELSE 0) <= Limit[c]
      BY <2>0, <2>3
  <2>6. Atomic!Charge
      BY <2>0, <2>3, <2>4, <2>5 DEF Atomic!Charge
  <2> QED BY <2>6 DEF Atomic!Next
<1>2. ASSUME NEW t \in Threads, StoreRetained(t) PROVE Atomic!Next
  <2>0. /\ terminal = "none" /\ UNCHANGED <<used, terminal>> /\ op[t].amount > 0
        /\ current[t] = charged[Retained]
        /\ current[t] + op[t].amount + used[Retained] <= Limit[Retained]
      BY <1>0, <1>2 DEF StoreRetained, Arguments, ArgumentsOf, Locks, Reading
  <2>1. charged' = [charged EXCEPT ![Retained] = current[t] + op[t].amount]
      BY <1>2 DEF StoreRetained
  <2>2. charged'[Retained] = current[t] + op[t].amount
      BY <1>0, <1>p, <2>1 DEF TypeOK
  <2>3. /\ charged[Retained] < charged'[Retained]
        /\ charged'[Retained] + used[Retained] <= Limit[Retained]
      BY <1>p, <2>0, <2>2 DEF Amounts
  <2>4. charged' = [charged EXCEPT ![Retained] = charged'[Retained]]
      BY <2>1, <2>2
  <2>5. Atomic!Charge
      BY <1>p, <2>0, <2>3, <2>4 DEF Atomic!Charge
  <2> QED BY <2>5 DEF Atomic!Next
<1>3. ASSUME NEW t \in Threads, Admit(t) PROVE Atomic!Next
  <2> DEFINE candidate == [d \in Dims |-> used[d] + op[t].shape[d]]
  <2>0. /\ terminal = "none" /\ UNCHANGED <<charged, terminal>>
        /\ op[t].shape \in Shapes
      BY <1>0, <1>3 DEF Admit, Arguments, ArgumentsOf, Locks, Reading
  <2>1. /\ used' = candidate
        /\ \A d \in Dims :
              candidate[d] + (IF d = Retained THEN charged[d] ELSE 0) <= Limit[d]
      BY <1>3, <2>0 DEF Admit, budget
  <2>2. Atomic!Reserve
      BY <2>0, <2>1 DEF Atomic!Reserve
  <2> QED BY <2>2 DEF Atomic!Next
<1>4. ASSUME NEW t \in Threads, Release(t) PROVE Atomic!Next
  <2>0. /\ UNCHANGED <<charged, terminal>> /\ held[t] \in Shapes
      BY <1>0, <1>4 DEF Release, Arguments, ArgumentsOf
  <2>1. /\ \A d \in Dims : held[t][d] <= used[d]
        /\ used' = [d \in Dims |-> used[d] - held[t][d]]
      BY <1>4, <2>0 DEF Release, budget
  <2>2. Atomic!Release
      BY <2>0, <2>1 DEF Atomic!Release
  <2> QED BY <2>2 DEF Atomic!Next
<1>5. ASSUME NEW t \in Threads, Seal(t) PROVE Atomic!Next
  <2>0. UNCHANGED <<charged, used>> /\ op[t].cause \in Causes
      BY <1>0, <1>5 DEF Seal, Arguments, ArgumentsOf
  <2>1. terminal = "none" /\ terminal' = op[t].cause
      BY <1>5, <2>0 DEF Seal, budget
  <2>2. Atomic!Seal
      BY <2>0, <2>1, Constants DEF Atomic!Seal
  <2> QED BY <2>2 DEF Atomic!Next
<1> QED
    BY <1>1, <1>2, <1>3, <1>4, <1>5
    DEF Next, Consume, ReserveAndDrop, Termination, vars, budget, BeginCharge,
        LoadCounter, LockLedger, CheckRetained, Terminate, BeginReserve, BeginDrop

(* No call of the atomic budget exceeds a limit.                            *)
LEMMA LimitsStep == IInv /\ [Next]_vars => WithinLimits'
<1> SUFFICES ASSUME IInv, [Atomic!Next]_budget, TypeOK' PROVE WithinLimits'
    BY BudgetStep, TypeStep
<1>p. /\ WithinLimits /\ Retained \in Charges /\ Retained \in Dims
      /\ \A c \in Charges : charged[c] \in Amounts /\ charged'[c] \in Amounts
      /\ \A d \in Dims : used[d] \in Amounts /\ used'[d] \in Amounts
      /\ \A c \in Charges : Limit[c] \in Amounts
      /\ \A d \in Dims : Limit[d] \in Amounts
    BY Constants DEF IInv, TypeOK
<1>1. CASE Atomic!Charge
  <2>1. UNCHANGED used
      BY <1>1 DEF Atomic!Charge
  <2>2. PICK c \in Charges :
            /\ charged' = [charged EXCEPT ![c] = charged'[c]]
            /\ charged'[c] + (IF c = Retained THEN used[c] ELSE 0) <= Limit[c]
      BY <1>1 DEF Atomic!Charge
  <2>3. \A b \in Charges : b # c => charged'[b] = charged[b]
      BY <2>2 DEF IInv, TypeOK
  <2>4. charged'[c] <= Limit[c]
      BY <1>p, <2>2 DEF Amounts
  <2>5. charged'[Retained] + used'[Retained] <= Limit[Retained]
      BY <1>p, <2>1, <2>2, <2>3 DEF WithinLimits
  <2>6. \A b \in Charges : charged'[b] <= Limit[b]
      BY <1>p, <2>3, <2>4 DEF WithinLimits
  <2> QED BY <1>p, <2>1, <2>5, <2>6 DEF WithinLimits
<1>2. CASE Atomic!Reserve
  <2>1. /\ UNCHANGED charged
        /\ \A d \in Dims :
              used'[d] + (IF d = Retained THEN charged[d] ELSE 0) <= Limit[d]
      BY <1>2 DEF Atomic!Reserve
  <2>2. ASSUME NEW d \in Dims PROVE used'[d] <= Limit[d]
      BY <1>p, <2>1 DEF Amounts
  <2>3. charged'[Retained] + used'[Retained] <= Limit[Retained]
      BY <1>p, <2>1 DEF Amounts
  <2> QED BY <1>p, <2>1, <2>2, <2>3 DEF WithinLimits
<1>3. CASE Atomic!Release
  <2>1. PICK shape \in Shapes : used' = [d \in Dims |-> used[d] - shape[d]]
      BY <1>3 DEF Atomic!Release
  <2>2. ASSUME NEW d \in Dims PROVE used'[d] <= used[d]
    <3>1. shape[d] \in Nat
        BY Constants DEF Amounts
    <3>2. used'[d] = used[d] - shape[d]
        BY <2>1
    <3> QED BY <1>p, <3>1, <3>2 DEF Amounts
  <2>3. UNCHANGED charged
      BY <1>3 DEF Atomic!Release
  <2> QED BY <1>p, <2>2, <2>3 DEF WithinLimits, Amounts
<1>4. CASE Atomic!Seal \/ UNCHANGED budget
    BY <1>p, <1>4 DEF Atomic!Seal, budget, WithinLimits
<1> QED BY <1>1, <1>2, <1>3, <1>4 DEF Atomic!Next

LEMMA Inductive == IInv /\ [Next]_vars => IInv'
BY TypeStep, LocksStep, ArgumentsStep, LimitsStep DEF IInv

LEMMA SpecIInv == Spec => []IInv
BY InitInv, Inductive, PTL DEF Spec

-----------------------------------------------------------------------------
(* The budget's state has its type; in particular no counter wraps.         *)
THEOREM TypeCorrect == Spec => []TypeOK
<1>1. IInv => TypeOK
    BY DEF IInv
<1> QED BY <1>1, SpecIInv, PTL

(* Charges and reservations never exceed a limit, nor, for the retained     *)
(* bytes, do both together, whatever the threads interleave.                *)
THEOREM LimitsHold == Spec => []WithinLimits
<1>1. IInv => WithinLimits
    BY DEF IInv
<1> QED BY <1>1, SpecIInv, PTL

(* Once a cause is sealed, nothing that was on its way is admitted.         *)
THEOREM SealingCuts == Spec => NothingAdmittedOnceSealed
<1>1. ASSUME IInv, [Next]_vars, terminal # "none", ~UNCHANGED vars
      PROVE  /\ terminal' = terminal /\ charged' = charged
             /\ \A d \in Dims : used'[d] <= used[d]
  <2>1. [Atomic!Next]_budget
      BY <1>1, BudgetStep
  <2>t. \A d \in Dims : used[d] \in Amounts
      BY <1>1 DEF IInv, TypeOK
  <2>2. CASE Atomic!Release
    <3>1. PICK shape \in Shapes : used' = [d \in Dims |-> used[d] - shape[d]]
        BY <2>2 DEF Atomic!Release
    <3>2. ASSUME NEW d \in Dims PROVE used'[d] <= used[d]
        BY <2>t, <3>1, Constants DEF Amounts
    <3> QED BY <2>2, <3>2 DEF Atomic!Release
  <2>3. CASE UNCHANGED budget
      BY <2>t, <2>3 DEF budget, Amounts
  <2> QED
      BY <1>1, <2>1, <2>2, <2>3
      DEF Atomic!Next, Atomic!Charge, Atomic!Reserve, Atomic!Seal
<1> QED BY <1>1, SpecIInv, PTL DEF Spec, NothingAdmittedOnceSealed

(* The first cause sticks through every step.                               *)
LEMMA CauseSticks ==
    IInv /\ [Next]_vars /\ terminal # "none" => terminal' = terminal
BY BudgetStep
DEF Atomic!Next, Atomic!Charge, Atomic!Reserve, Atomic!Release, Atomic!Seal, budget

(* Every cause a call reports is the one that is sealed.                    *)
THEOREM FailureSealed == Spec => []FailureIsSealed
<1> DEFINE Inv == IInv /\ FailureIsSealed
<1>1. Init => Inv
  <2>1. Init => FailureIsSealed
      BY Constants DEF Init, FailureIsSealed
  <2> QED BY <2>1, InitInv
<1>2. Inv /\ [Next]_vars => Inv'
  <2> SUFFICES ASSUME IInv, FailureIsSealed, [Next]_vars
               PROVE  FailureIsSealed'
      BY Inductive
  <2>0. TypeOK /\ (terminal # "none" => terminal' = terminal)
        /\ "none" \notin Causes /\ "ok" \notin Causes /\ "refused" \notin Causes
      BY CauseSticks, Constants DEF IInv
  <2>1. ASSUME NEW t \in Threads,
               result'[t] \in Causes => terminal' = result'[t],
               \A u \in Threads : u # t => result'[u] = result[u]
        PROVE  FailureIsSealed'
      BY <2>0, <2>1 DEF FailureIsSealed
  <2>r. ASSUME NEW t \in Threads, NEW r, Return(t, r),
               r \in Causes => terminal' = r
        PROVE  FailureIsSealed'
    <3>1. result'[t] = r /\ \A u \in Threads : u # t => result'[u] = result[u]
        BY <2>0, <2>r DEF Return, TypeOK
    <3> QED BY <2>1, <2>r, <3>1
  <2>u. ASSUME UNCHANGED result
        PROVE  FailureIsSealed'
      BY <2>0, <2>u DEF FailureIsSealed
  <2>3. ASSUME NEW t \in Threads, NEW c \in Charges, NEW n \in Amounts,
               BeginCharge(t, c, n)
        PROVE  FailureIsSealed'
      BY <2>0, <2>3, <2>r, <2>u DEF BeginCharge, Call, budget
  <2>4. ASSUME NEW t \in Threads, SwapCounter(t)
        PROVE  FailureIsSealed'
      BY <2>0, <2>4, <2>r, <2>u DEF SwapCounter, GoSeal
  <2>5. ASSUME NEW t \in Threads, CheckRetained(t)
        PROVE  FailureIsSealed'
      BY <2>5, <2>u DEF CheckRetained, GoSeal
  <2>6. ASSUME NEW t \in Threads, StoreRetained(t)
        PROVE  FailureIsSealed'
      BY <2>0, <2>6, <2>r DEF StoreRetained
  <2>7. ASSUME NEW t \in Threads, Seal(t)
        PROVE  FailureIsSealed'
      BY <2>7, <2>r DEF Seal
  <2>8. ASSUME NEW t \in Threads, NEW shape \in Shapes, BeginReserve(t, shape)
        PROVE  FailureIsSealed'
      BY <2>0, <2>8, <2>r, <2>u DEF BeginReserve, Call, budget
  <2>9. ASSUME NEW t \in Threads, Admit(t)
        PROVE  FailureIsSealed'
      BY <2>0, <2>9, <2>r DEF Admit
  <2>10. ASSUME NEW t \in Threads, Release(t)
         PROVE  FailureIsSealed'
    <3>1. Return(t, result[t]) /\ UNCHANGED terminal
        BY <2>10 DEF Release
    <3>2. result[t] \in Causes => terminal' = result[t]
        BY <3>1 DEF FailureIsSealed
    <3> QED BY <2>r, <3>1, <3>2
  <2>11. ASSUME NEW t \in Threads,
                \/ LoadCounter(t) \/ LockLedger(t) \/ BeginDrop(t)
                \/ \E cause \in OutsideCauses : Terminate(t, cause)
         PROVE  FailureIsSealed'
      BY <2>11, <2>u DEF LoadCounter, LockLedger, BeginDrop, Terminate, Call
  <2> QED
      BY <2>u, <2>3, <2>4, <2>5, <2>6, <2>7, <2>8, <2>9, <2>10, <2>11
      DEF Next, Consume, ReserveAndDrop, Termination, vars
<1>3. Inv => FailureIsSealed
    OBVIOUS
<1> QED BY <1>1, <1>2, <1>3, PTL DEF Spec

(* The locked and compare-exchanged steps implement the atomic budget.      *)
THEOREM Refinement == Spec => ImplementsAtomic
<1>1. Init => Atomic!Init
    BY DEF Init, Atomic!Init
<1>2. IInv /\ [Next]_vars => [Atomic!Next]_<<charged, used, terminal>>
    BY BudgetStep DEF budget
<1> QED BY <1>1, <1>2, SpecIInv, PTL DEF Spec, ImplementsAtomic, Atomic!Spec

-----------------------------------------------------------------------------
(* Sums over finite sets.  An induction is an argument about the smallest   *)
(* counterexample.                                                          *)

LEMMA LeastNumber ==
  ASSUME NEW N \in SUBSET Nat, N # {}
  PROVE  \E n \in N : \A m \in N : n <= m
<1> DEFINE Less == OpToRel(<, Nat)
<1>1. PICK n \in N : \A m \in N : ~(<<m, n>> \in Less)
  <2> HIDE DEF Less
  <2>1. IsWellFoundedOn(Less, Nat)
    BY NatLessThanWellFounded DEF Less
  <2> QED
    BY <2>1, WFMin
<1>2. ASSUME NEW m \in N PROVE n <= m
  <2>1. <<m, n>> \in Nat \X Nat
    OBVIOUS
  <2>2. ~(m < n)
    BY <1>1, <2>1 DEF OpToRel
  <2> QED
    BY <2>2
<1> QED
  BY <1>2

LEMMA SmallestSet ==
  ASSUME NEW T, IsFiniteSet(T), NEW Bad \in SUBSET SUBSET T, Bad # {}
  PROVE  \E s \in Bad : \A r \in SUBSET s : r # s => r \notin Bad
<1>1. \A s \in Bad : IsFiniteSet(s) /\ Cardinality(s) \in Nat
  BY FS_Subset, FS_CardinalityType
<1> DEFINE Sizes == {Cardinality(s) : s \in Bad}
<1>2. PICK n \in Sizes : \A m \in Sizes : n <= m
  <2>1. Sizes \in SUBSET Nat /\ Sizes # {}
    BY <1>1
  <2> HIDE DEF Sizes
  <2> QED
    BY <2>1, LeastNumber
<1>3. PICK s \in Bad : Cardinality(s) = n
  OBVIOUS
<1>4. ASSUME NEW r \in SUBSET s, r # s, r \in Bad
      PROVE  FALSE
  <2>1. Cardinality(r) <= Cardinality(s) /\ (Cardinality(s) = Cardinality(r) => s = r)
    BY <1>1, FS_Subset
  <2>2. Cardinality(s) <= Cardinality(r)
    BY <1>2, <1>3, <1>4
  <2>3. Cardinality(s) = Cardinality(r)
    BY <1>1, <1>4, <2>1, <2>2
  <2> QED
    BY <1>4, <2>1, <2>3
<1> QED
  BY <1>4

\* g sums f over the sets in S, as the fold of the community modules does.
Picked(s) == CHOOSE x \in s : TRUE
Adds(f, g, S) ==
    g = [s \in S |-> IF s = {} THEN 0 ELSE f[Picked(s)] + g[s \ {Picked(s)}]]

LEMMA PickedIsIn == ASSUME NEW s, s # {} PROVE Picked(s) \in s
  BY DEF Picked

\* There is such a function: for the empty set, and for sets one larger.
LEMMA SumsExist ==
  ASSUME NEW T, IsFiniteSet(T), NEW f
  PROVE  \E g : Adds(f, g, SUBSET T)
<1> DEFINE Upto(n) == {s \in SUBSET T : Cardinality(s) <= n}
           Bad == {n \in Nat : ~\E g : Adds(f, g, Upto(n))}
<1>1. \A s \in SUBSET T : IsFiniteSet(s) /\ Cardinality(s) \in Nat /\ Cardinality(s) <= Cardinality(T)
  BY FS_Subset, FS_CardinalityType
<1>2. Bad = {}
  <2> SUFFICES ASSUME Bad # {} PROVE FALSE
    OBVIOUS
  <2>1. PICK n \in Bad : \A m \in Bad : n <= m
    <3>1. Bad \in SUBSET Nat
      OBVIOUS
    <3> HIDE DEF Bad
    <3> QED
      BY <3>1, LeastNumber
  <2>2. n \in Nat /\ ~\E g : Adds(f, g, Upto(n))
    OBVIOUS
  <2>3. CASE n = 0
    <3> DEFINE g == [s \in Upto(0) |-> 0]
    <3>1. ASSUME NEW s \in Upto(0) PROVE s = {}
      BY <1>1, <3>1, FS_EmptySet
    <3>2. Adds(f, g, Upto(0))
      BY <3>1 DEF Adds
    <3> QED
      BY <2>2, <2>3, <3>2
  <2>4. CASE n # 0
    <3>1. n - 1 \in Nat /\ n - 1 \notin Bad
      <4>1. n - 1 \in Nat /\ ~(n <= n - 1)
        BY <2>2, <2>4
      <4> HIDE DEF Bad
      <4> QED
        BY <2>1, <4>1
    <3>2. PICK g : Adds(f, g, Upto(n - 1))
      BY <3>1
    <3> DEFINE h == [s \in Upto(n) |->
                       IF s = {} THEN 0 ELSE f[Picked(s)] + g[s \ {Picked(s)}]]
    <3>3. ASSUME NEW s \in Upto(n - 1) PROVE h[s] = g[s]
      <4>1. s \in Upto(n)
        BY <1>1, <2>2
      <4>2. g[s] = IF s = {} THEN 0 ELSE f[Picked(s)] + g[s \ {Picked(s)}]
        BY <3>2 DEF Adds
      <4> QED
        BY <4>1, <4>2
    <3>4. ASSUME NEW s \in Upto(n), s # {}
          PROVE  s \ {Picked(s)} \in Upto(n - 1)
      <4>1. IsFiniteSet(s) /\ Cardinality(s) \in Nat /\ Cardinality(s) <= n
        BY <1>1
      <4>2. Cardinality(s \ {Picked(s)}) = Cardinality(s) - 1
        BY <3>4, <4>1, PickedIsIn, FS_RemoveElement
      <4>3. Cardinality(s) - 1 <= n - 1
        BY <2>2, <4>1
      <4> QED
        BY <4>2, <4>3
    <3>5. Adds(f, h, Upto(n))
      <4>1. ASSUME NEW s \in Upto(n)
            PROVE  (IF s = {} THEN 0 ELSE f[Picked(s)] + g[s \ {Picked(s)}])
                     = (IF s = {} THEN 0 ELSE f[Picked(s)] + h[s \ {Picked(s)}])
        BY <3>3, <3>4
      <4> QED
        BY <4>1 DEF Adds
    <3> QED
      BY <2>2, <3>5
  <2> QED
    BY <2>3, <2>4
<1>3. Upto(Cardinality(T)) = SUBSET T /\ Cardinality(T) \in Nat
  BY <1>1, FS_CardinalityType
<1> QED
  BY <1>2, <1>3

LEMMA SumIsAdded ==
  ASSUME NEW T, IsFiniteSet(T), NEW f, DOMAIN f = T
  PROVE  \E g : Adds(f, g, SUBSET T) /\ SumFunction(f) = g[T]
<1> DEFINE iter == CHOOSE g : Adds(f, g, SUBSET T)
<1>1. Adds(f, iter, SUBSET T)
  BY SumsExist
<1>2. SumFunction(f) = iter[T]
  BY DEF SumFunction, SumFunctionOnSet, FoldFunctionOnSet, MapThenFoldSet, Adds, Picked
<1> QED
  BY <1>1, <1>2

\* Sums of integers that differ in one place differ as they do.
LEMMA SumsDiffer ==
  ASSUME NEW T, IsFiniteSet(T), NEW f \in [T -> Int], NEW f2 \in [T -> Int], NEW t \in T,
         \A u \in T : u # t => f2[u] = f[u],
         NEW g, Adds(f, g, SUBSET T), NEW g2, Adds(f2, g2, SUBSET T)
  PROVE  g[T] \in Int /\ g2[T] \in Int /\ g2[T] = g[T] + f2[t] - f[t]
<1> DEFINE Good(s) == /\ g[s] \in Int /\ g2[s] \in Int
                      /\ g2[s] = g[s] + (IF t \in s THEN f2[t] - f[t] ELSE 0)
           Bad == {s \in SUBSET T : ~Good(s)}
<1>1. Bad = {}
  <2> SUFFICES ASSUME Bad # {} PROVE FALSE
    OBVIOUS
  <2>1. PICK s \in Bad : \A r \in SUBSET s : r # s => r \notin Bad
    <3>1. Bad \in SUBSET SUBSET T
      OBVIOUS
    <3> HIDE DEF Bad
    <3> QED
      BY <3>1, SmallestSet
  <2>2. s \in SUBSET T /\ ~Good(s)
    OBVIOUS
  <2>3. s # {}
    <3>1. {} \in SUBSET T
      OBVIOUS
    <3>2. g[{}] = 0 /\ g2[{}] = 0
      BY <3>1 DEF Adds
    <3>3. Good({})
      BY <3>2
    <3> QED
      BY <2>2, <3>3
  <2>4. PICK x : x = Picked(s)
    OBVIOUS
  <2>5. x \in s /\ x \in T /\ s \ {x} \in SUBSET T
    BY <2>2, <2>3, <2>4, PickedIsIn
  <2>6. Good(s \ {x})
    BY <2>1, <2>5
  <2>7. g[s] = f[x] + g[s \ {x}] /\ g2[s] = f2[x] + g2[s \ {x}]
    BY <2>2, <2>3, <2>4 DEF Adds
  <2>8. f[x] \in Int /\ f2[x] \in Int /\ f[t] \in Int /\ f2[t] \in Int
    BY <2>5
  <2>9. CASE x = t
    BY <2>2, <2>5, <2>6, <2>7, <2>8, <2>9
  <2>10. CASE x # t
    <3>1. f2[x] = f[x] /\ (t \in s \ {x} <=> t \in s)
      BY <2>5, <2>10
    <3> QED
      BY <2>2, <2>6, <2>7, <2>8, <3>1
  <2> QED
    BY <2>9, <2>10
<1>2. Good(T)
  BY <1>1
<1> QED
  BY <1>2

LEMMA SumsOfNaturals ==
  ASSUME NEW T, IsFiniteSet(T), NEW f \in [T -> Nat], NEW g, Adds(f, g, SUBSET T)
  PROVE  g[T] \in Nat /\ ((\A t \in T : f[t] = 0) => g[T] = 0)
<1> DEFINE Good(s) == g[s] \in Nat /\ ((\A t \in T : f[t] = 0) => g[s] = 0)
           Bad == {s \in SUBSET T : ~Good(s)}
<1>1. Bad = {}
  <2> SUFFICES ASSUME Bad # {} PROVE FALSE
    OBVIOUS
  <2>1. PICK s \in Bad : \A r \in SUBSET s : r # s => r \notin Bad
    <3>1. Bad \in SUBSET SUBSET T
      OBVIOUS
    <3> HIDE DEF Bad
    <3> QED
      BY <3>1, SmallestSet
  <2>2. s \in SUBSET T /\ ~Good(s)
    OBVIOUS
  <2>3. s # {}
    <3>1. {} \in SUBSET T
      OBVIOUS
    <3>2. g[{}] = 0
      BY <3>1 DEF Adds
    <3>3. Good({})
      BY <3>2
    <3> QED
      BY <2>2, <3>3
  <2>4. PICK x : x = Picked(s)
    OBVIOUS
  <2>5. x \in s /\ x \in T /\ s \ {x} \in SUBSET T
    BY <2>2, <2>3, <2>4, PickedIsIn
  <2>6. Good(s \ {x})
    BY <2>1, <2>5
  <2>7. g[s] = f[x] + g[s \ {x}]
    BY <2>2, <2>3, <2>4 DEF Adds
  <2>8. f[x] \in Nat
    BY <2>5
  <2> QED
    BY <2>2, <2>5, <2>6, <2>7, <2>8
<1>2. Good(T)
  BY <1>1
<1> QED
  BY <1>2

LEMMA SumFacts ==
  ASSUME NEW T, IsFiniteSet(T), NEW f \in [T -> Nat]
  PROVE  /\ SumFunction(f) \in Nat
         /\ (\A t \in T : f[t] = 0) => SumFunction(f) = 0
         /\ \A t \in T : f[t] <= SumFunction(f)
<1>1. PICK g : Adds(f, g, SUBSET T) /\ SumFunction(f) = g[T]
  BY SumIsAdded
<1>2. SumFunction(f) \in Nat /\ ((\A t \in T : f[t] = 0) => SumFunction(f) = 0)
  BY <1>1, SumsOfNaturals
<1>3. ASSUME NEW t \in T PROVE f[t] <= SumFunction(f)
  <2> DEFINE f2 == [f EXCEPT ![t] = 0]
  <2>1. f2 \in [T -> Nat] /\ f2[t] = 0 /\ \A u \in T : u # t => f2[u] = f[u]
    OBVIOUS
  <2> HIDE DEF f2
  <2>2. PICK g2 : Adds(f2, g2, SUBSET T)
    BY SumsExist
  <2>3. g2[T] \in Nat
    BY <2>1, <2>2, SumsOfNaturals
  <2>4. f \in [T -> Int] /\ f2 \in [T -> Int] /\ f[t] \in Nat
    BY <2>1
  <2>5. g2[T] = g[T] + f2[t] - f[t]
    BY <1>1, <2>1, <2>2, <2>4, SumsDiffer
  <2> QED
    BY <1>1, <1>2, <2>1, <2>3, <2>4, <2>5
<1> QED
  BY <1>2, <1>3

LEMMA SumAfterChange ==
  ASSUME NEW T, IsFiniteSet(T), NEW f \in [T -> Nat], NEW f2 \in [T -> Nat], NEW t \in T,
         \A u \in T : u # t => f2[u] = f[u]
  PROVE  SumFunction(f2) = SumFunction(f) + f2[t] - f[t]
<1>1. PICK g : Adds(f, g, SUBSET T) /\ SumFunction(f) = g[T]
  BY SumIsAdded
<1>2. PICK g2 : Adds(f2, g2, SUBSET T) /\ SumFunction(f2) = g2[T]
  BY SumIsAdded
<1>3. f \in [T -> Int] /\ f2 \in [T -> Int]
  OBVIOUS
<1> QED
  BY <1>1, <1>2, <1>3, SumsDiffer

-----------------------------------------------------------------------------
(* The ledger and the tokens.                                               *)

\* What each thread's token holds of a dimension.
Owned(d) == [t \in Threads |-> IF held[t] = NoToken THEN 0 ELSE held[t][d]]

\* A thread that is about to be given a token has none.
EmptyHanded == \A t \in Threads : pc[t] \in {"reserve", "reserving"} => held[t] = NoToken

TokenInv == IInv /\ EmptyHanded /\ ReservedIsOwned

OwnedType == \A d \in Dims : Owned(d) \in [Threads -> Nat]

LEMMA OwnedTyped == TypeOK => OwnedType
<1> SUFFICES ASSUME TypeOK, NEW d \in Dims, NEW t \in Threads
             PROVE  (IF held[t] = NoToken THEN 0 ELSE held[t][d]) \in Nat
    BY DEF Owned, OwnedType
<1>1. held[t] = NoToken \/ held[t] \in Shapes
    BY DEF TypeOK
<1>2. held[t] \in Shapes => held[t][d] \in Nat
    BY Constants DEF Amounts
<1> QED BY <1>1, <1>2

\* A thread gets or loses its token, and the ledger changes by just that.
LEMMA OneTokenChanges ==
    ASSUME TypeOK, TypeOK', ReservedIsOwned, NEW t \in Threads,
           \A u \in Threads : u # t => held'[u] = held[u],
           \A d \in Dims : used'[d] = used[d] + Owned(d)'[t] - Owned(d)[t]
    PROVE  ReservedIsOwned'
<1> SUFFICES ASSUME NEW d \in Dims PROVE used'[d] = SumFunction(Owned(d)')
    BY DEF ReservedIsOwned, Owned
<1>1. Owned(d) \in [Threads -> Nat] /\ Owned(d)' \in [Threads -> Nat]
  <2>1. TypeOK' => OwnedType'
      BY OwnedTyped, PTL
  <2> QED BY <2>1, OwnedTyped DEF OwnedType
<1>2. \A u \in Threads : u # t => Owned(d)'[u] = Owned(d)[u]
    BY DEF Owned
<1>3. used[d] = SumFunction(Owned(d))
    BY DEF ReservedIsOwned, Owned
<1>4. SumFunction(Owned(d)') = SumFunction(Owned(d)) + Owned(d)'[t] - Owned(d)[t]
    BY <1>1, <1>2, BudgetAssumption, SumAfterChange
<1>5. used'[d] = used[d] + Owned(d)'[t] - Owned(d)[t]
    OBVIOUS
<1> QED BY <1>3, <1>4, <1>5

LEMMA AdmitKeepsTokens ==
    ASSUME TokenInv, TypeOK', NEW t \in Threads, Admit(t)
    PROVE  ReservedIsOwned'
<1>0. TypeOK /\ ReservedIsOwned /\ Arguments /\ pc[t] = "reserving" /\ held[t] = NoToken
    BY DEF TokenInv, IInv, EmptyHanded, Admit
<1>1. CASE UNCHANGED <<used, held>>
    BY <1>0, <1>1 DEF ReservedIsOwned
<1>2. CASE /\ used' = [d \in Dims |-> used[d] + op[t].shape[d]]
           /\ held' = [held EXCEPT ![t] = op[t].shape]
  <2>1. op[t].shape \in Shapes /\ op[t].shape # NoToken
      BY <1>0, Constants DEF Arguments, ArgumentsOf
  <2>2. held'[t] = op[t].shape /\ \A u \in Threads : u # t => held'[u] = held[u]
      BY <1>0, <1>2 DEF TypeOK
  <2>3. ASSUME NEW d \in Dims
        PROVE  used'[d] = used[d] + Owned(d)'[t] - Owned(d)[t]
    <3>1. Owned(d)'[t] = op[t].shape[d] /\ Owned(d)[t] = 0
        BY <1>0, <2>1, <2>2 DEF Owned
    <3>2. op[t].shape[d] \in Nat /\ used[d] \in Nat
        BY <1>0, <2>1, Constants DEF TypeOK, Amounts
    <3>3. used'[d] = used[d] + op[t].shape[d]
        BY <1>2
    <3> QED BY <3>1, <3>2, <3>3
  <2> QED BY <1>0, <2>2, <2>3, OneTokenChanges
<1> QED BY <1>1, <1>2 DEF Admit

LEMMA ReleaseKeepsTokens ==
    ASSUME TokenInv, TypeOK', NEW t \in Threads, Release(t)
    PROVE  ReservedIsOwned'
<1>0. /\ TypeOK /\ ReservedIsOwned /\ held[t] \in Shapes /\ held[t] # NoToken
      /\ held' = [held EXCEPT ![t] = NoToken]
    BY Constants DEF TokenInv, IInv, Arguments, ArgumentsOf, Release
<1>1. ASSUME NEW d \in Dims
      PROVE  held[t][d] <= used[d] /\ Owned(d)[t] = held[t][d]
  <2>1. Owned(d) \in [Threads -> Nat] /\ used[d] = SumFunction(Owned(d))
      BY <1>0, OwnedTyped DEF OwnedType, ReservedIsOwned, Owned
  <2>2. Owned(d)[t] = held[t][d]
      BY <1>0 DEF Owned
  <2> QED BY <2>1, <2>2, BudgetAssumption, SumFacts
<1>2. used' = [d \in Dims |-> used[d] - held[t][d]]
    BY <1>1 DEF Release
<1>3. held'[t] = NoToken /\ \A u \in Threads : u # t => held'[u] = held[u]
    BY <1>0 DEF TypeOK
<1>4. ASSUME NEW d \in Dims
      PROVE  used'[d] = used[d] + Owned(d)'[t] - Owned(d)[t]
  <2>1. Owned(d)'[t] = 0
      BY <1>3 DEF Owned
  <2>2. used[d] \in Nat /\ held[t][d] \in Nat
      BY <1>0, Constants DEF TypeOK, Amounts
  <2> QED BY <1>1, <1>2, <2>1, <2>2
<1> QED BY <1>0, <1>3, <1>4, OneTokenChanges

LEMMA TokenInit == Init => TokenInv
<1> SUFFICES ASSUME Init PROVE EmptyHanded /\ ReservedIsOwned
    BY InitInv DEF TokenInv
<1>1. EmptyHanded
    BY DEF Init, EmptyHanded
<1>2. ASSUME NEW d \in Dims PROVE used[d] = SumFunction(Owned(d))
  <2>1. Owned(d) \in [Threads -> Nat]
      BY InitInv, OwnedTyped DEF OwnedType, IInv
  <2>2. \A t \in Threads : Owned(d)[t] = 0
      BY DEF Init, Owned
  <2>3. used[d] = 0
      BY DEF Init
  <2> QED BY <2>1, <2>2, <2>3, BudgetAssumption, SumFacts
<1> QED BY <1>1, <1>2 DEF ReservedIsOwned, Owned

LEMMA TokenStep == TokenInv /\ [Next]_vars => TokenInv'
<1> SUFFICES ASSUME TokenInv, [Next]_vars PROVE TokenInv'
    OBVIOUS
<1>0. IInv /\ IInv' /\ TypeOK /\ TypeOK'
    BY Inductive DEF TokenInv, IInv
<1>1. ASSUME NEW t \in Threads, Admit(t) \/ Release(t)
      PROVE  EmptyHanded'
  <2>1. /\ \A u \in Threads : u # t => held'[u] = held[u] /\ pc'[u] = pc[u]
        /\ pc'[t] = "idle"
      BY <1>0, <1>1 DEF Admit, Release, Return, GoTo, TypeOK
  <2> QED BY <2>1 DEF TokenInv, EmptyHanded
<1>2. ASSUME NEW t \in Threads, UNCHANGED held,
             \/ pc'[t] \notin {"reserve", "reserving"} \/ held[t] = NoToken
             \/ pc[t] \in {"reserve", "reserving"},
             \A u \in Threads : u # t => pc'[u] = pc[u]
      PROVE  EmptyHanded'
    BY <1>2 DEF TokenInv, EmptyHanded
<1>3. ASSUME UNCHANGED <<used, held>>
      PROVE  ReservedIsOwned'
    BY <1>3 DEF TokenInv, ReservedIsOwned
<1>4. ASSUME NEW t \in Threads,
             \/ Consume(t) \/ LockLedger(t) \/ Termination(t) \/ BeginDrop(t)
             \/ \E shape \in Shapes : BeginReserve(t, shape)
      PROVE  EmptyHanded' /\ ReservedIsOwned'
  <2>1. UNCHANGED <<used, held>>
      BY <1>4
      DEF Consume, BeginCharge, LoadCounter, SwapCounter, CheckRetained, StoreRetained, LockLedger,
          Termination, Seal, Terminate, BeginDrop, BeginReserve, budget
  <2>2. \A u \in Threads : u # t => pc'[u] = pc[u]
      BY <1>0, <1>4
      DEF Consume, BeginCharge, LoadCounter, SwapCounter, CheckRetained, StoreRetained, LockLedger,
          Termination, Seal, Terminate, BeginDrop, BeginReserve, Return, Call, GoSeal, GoTo, TypeOK
  <2>3. \/ pc'[t] \notin {"reserve", "reserving"} \/ held[t] = NoToken
        \/ pc[t] \in {"reserve", "reserving"}
      BY <1>0, <1>4
      DEF Consume, BeginCharge, LoadCounter, SwapCounter, CheckRetained, StoreRetained, LockLedger,
          Termination, Seal, Terminate, BeginDrop, BeginReserve, Return, Call, GoSeal, GoTo, TypeOK
  <2> QED BY <1>2, <1>3, <2>1, <2>2, <2>3
<1>5. CASE UNCHANGED vars
    BY <1>0, <1>3, <1>5 DEF vars, TokenInv, EmptyHanded
<1> QED
    BY <1>0, <1>1, <1>4, <1>5, AdmitKeepsTokens, ReleaseKeepsTokens
    DEF TokenInv, Next, ReserveAndDrop

(* The ledger never forgets a token and never counts one twice: what is     *)
(* reserved of a dimension is the sum of what the threads' tokens hold, for *)
(* any number of threads; so a release is never more than the ledger holds. *)
THEOREM LedgerIsExact == Spec => []ReservedIsOwned
<1>1. TokenInv => ReservedIsOwned
    BY DEF TokenInv
<1> QED BY <1>1, TokenInit, TokenStep, PTL DEF Spec
=============================================================================
