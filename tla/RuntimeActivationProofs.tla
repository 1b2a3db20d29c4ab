----------------------- MODULE RuntimeActivationProofs -----------------------
(***************************************************************************)
(* Proofs about RuntimeActivation for every number of coordinators,        *)
(* requests and snapshots and for every counter width.                     *)
(***************************************************************************)
EXTENDS RuntimeActivation, TLAPS

(* A state is ready exactly when it has no cause, and holds a snapshot then;*)
(* the activation id never runs ahead of the revision.                      *)
Shape ==
    /\ rt.ready <=> rt.cause = NoCause
    /\ rt.ready => rt.snap \in Snapshots
    /\ rt.id <= rt.rev

(* Every token is of a runtime that was open, no later than now; a token    *)
(* something moved past is strictly older or the runtime has closed, and a  *)
(* token nothing moved past is the current readiness.                       *)
Tokens ==
    \A c \in Coordinators :
        expected[c] # NoReadiness =>
            /\ ~Closed(expected[c])
            /\ expected[c].rev <= rt.rev
            /\ moved[c] => expected[c].rev < rt.rev \/ Closed(rt)
            /\ ~moved[c] => expected[c] = Readiness(rt)

IInv == TypeOK /\ Shape /\ Tokens

-----------------------------------------------------------------------------
(* Lemmas about the three transitions of the state. *)

(* A publishable state has room for both counters.                          *)
LEMMA PublishTyped ==
    ASSUME NEW state \in RuntimeStates, NEW s \in Snapshots,
           state.id < MaxRevision, state.rev < MaxRevision
    PROVE  /\ PublishedState(state, s) \in RuntimeStates
           /\ PublishedState(state, s).id = state.id + 1
           /\ PublishedState(state, s).rev = state.rev + 1
           /\ PublishedState(state, s).ready
           /\ PublishedState(state, s).cause = NoCause
           /\ PublishedState(state, s).snap = s
    BY ActivationAssumption
    DEF PublishedState, ReadyState, RuntimeStates, Counter

(* Becoming not ready takes the next revision, or closes at the last one.   *)
LEMMA NotReadyTyped ==
    ASSUME NEW state \in RuntimeStates,
           NEW c \in ObservedCauses \cup ClosingCauses
    PROVE  /\ NotReadyTransition(state, c) \in RuntimeStates
           /\ ~NotReadyTransition(state, c).ready
           /\ NotReadyTransition(state, c).id = state.id
           /\ NotReadyTransition(state, c).cause \in ObservedCauses \cup ClosingCauses
           /\ state.rev < MaxRevision =>
                 /\ NotReadyTransition(state, c).rev = state.rev + 1
                 /\ NotReadyTransition(state, c).cause = c
           /\ ~(state.rev < MaxRevision) =>
                 /\ state.rev = MaxRevision
                 /\ NotReadyTransition(state, c).rev = state.rev
                 /\ NotReadyTransition(state, c).cause = "StateRevisionExhausted"
    BY ActivationAssumption
    DEF NotReadyTransition, NotReadyState, RuntimeStates, Counter,
        ObservedCauses, ClosingCauses

(* Dropping the snapshot of a state yields a readiness that agrees with it. *)
LEMMA ReadinessTyped ==
    ASSUME NEW state \in RuntimeStates
    PROVE  /\ Readiness(state) \in Readinesses
           /\ Readiness(state) # NoReadiness
           /\ Closed(Readiness(state)) <=> Closed(state)
           /\ Readiness(state).rev = state.rev
           /\ Readiness(state).id = state.id
    BY ActivationAssumption
    DEF Readiness, RuntimeStates, Readinesses, Closed

(* A cause a coordinator reports is never a closing one, and none is "None".*)
LEMMA CausesDisjoint ==
    /\ ObservedCauses \cap ClosingCauses = {}
    /\ NoCause \notin ObservedCauses \cup ClosingCauses
    /\ "Administrative" \in ClosingCauses
    /\ "StateRevisionExhausted" \in ClosingCauses
    BY DEF ObservedCauses, ClosingCauses, NoCause

-----------------------------------------------------------------------------
LEMMA InitInv == Init => IInv
<1> SUFFICES ASSUME Init PROVE IInv
    OBVIOUS
<1>1. rt = [ready |-> TRUE, id |-> 1, rev |-> 1, cause |-> NoCause,
            snap |-> InitialSnapshot]
    BY DEF Init, InitialState, ReadyState
<1>2. TypeOK
    BY <1>1, ActivationAssumption, ManagerAssumption
    DEF Init, TypeOK, RuntimeStates, Counter
<1>3. Shape
    BY <1>1, ManagerAssumption DEF Shape
<1>4. Tokens
    BY DEF Init, Tokens
<1> QED BY <1>2, <1>3, <1>4 DEF IInv

(* Typing of the whole state is preserved by every action.                  *)
LEMMA TypeStep == IInv /\ [Next]_vars => TypeOK'
<1> SUFFICES ASSUME IInv, [Next]_vars PROVE TypeOK'
    OBVIOUS
<1>t. TypeOK /\ Shape
    BY DEF IInv
<1>1. ASSUME NEW c \in Coordinators, ReadReadiness(c) PROVE TypeOK'
    BY <1>1, <1>t, ReadinessTyped DEF ReadReadiness, TypeOK
<1>2. ASSUME NEW c \in Coordinators, NEW s \in Snapshots, Activate(c, s)
      PROVE TypeOK'
  <2>1. rt' \in RuntimeStates
      BY <1>2, <1>t, PublishTyped DEF Activate, CanPublish, TypeOK
  <2>2. published' \in [Counter -> Snapshots \cup {NoSnapshot}]
      BY <1>2, <1>t DEF Activate, TypeOK
  <2>3. expected' \in [Coordinators -> Readinesses \cup {NoReadiness}]
      BY <1>2, <1>t DEF Activate, TypeOK
  <2>4. moved' \in [Coordinators -> BOOLEAN]
      BY <1>2, <1>t, ZenonT(30) DEF Activate, TypeOK, MovedAfter
  <2> QED BY <1>2, <1>t, <2>1, <2>2, <2>3, <2>4 DEF Activate, TypeOK
<1>3. ASSUME NEW c \in Coordinators, NEW cause \in ObservedCauses,
             Fence(c, cause)
      PROVE TypeOK'
  <2>1. rt' \in RuntimeStates
      BY <1>3, <1>t, NotReadyTyped DEF Fence, AfterFence, TypeOK
  <2>2. Readiness(rt') \in Readinesses
      BY <2>1, ReadinessTyped
  <2>3. expected' \in [Coordinators -> Readinesses \cup {NoReadiness}]
      BY <1>3, <1>t, <2>2 DEF Fence, TypeOK
  <2>4. moved' \in [Coordinators -> BOOLEAN]
      BY <1>3, <1>t, ZenonT(30) DEF Fence, TypeOK, MovedAfter
  <2> QED BY <1>3, <1>t, <2>1, <2>3, <2>4 DEF Fence, TypeOK
<1>4. CASE CloseAdministratively
  <2>1. rt' \in RuntimeStates
      BY <1>4, <1>t, NotReadyTyped, CausesDisjoint
      DEF CloseAdministratively, TypeOK
  <2>2. moved' \in [Coordinators -> BOOLEAN]
      BY <1>4, <1>t, ZenonT(30) DEF CloseAdministratively, AllMoved, TypeOK
  <2> QED BY <1>4, <1>t, <2>1, <2>2 DEF CloseAdministratively, TypeOK
<1>5. ASSUME NEW r \in Requests, AcquireLease(r) PROVE TypeOK'
  <2>1. [id |-> rt.id, rev |-> rt.rev, snap |-> rt.snap] \in Leases
      BY <1>5, <1>t DEF AcquireLease, Shape, TypeOK, RuntimeStates, Leases
  <2> QED BY <1>5, <1>t, <2>1 DEF AcquireLease, TypeOK
<1>6. ASSUME NEW r \in Requests, ReleaseLease(r) PROVE TypeOK'
    BY <1>6, <1>t DEF ReleaseLease, TypeOK
<1>7. CASE UNCHANGED vars
    BY <1>7, <1>t DEF vars, TypeOK
<1> QED BY <1>1, <1>2, <1>3, <1>4, <1>5, <1>6, <1>7 DEF Next

-----------------------------------------------------------------------------
(* What an action does to rt, stated once for the invariants below.         *)

(* A publication moves an open runtime to the next activation.              *)
LEMMA ActivateStep ==
    ASSUME TypeOK, NEW c \in Coordinators, NEW s \in Snapshots,
           Activate(c, s), CanPublish(rt, expected[c])
    PROVE  /\ ~Closed(rt) /\ rt.id < MaxRevision /\ rt.rev < MaxRevision
           /\ rt' # rt
           /\ rt'.id = rt.id + 1 /\ rt'.rev = rt.rev + 1
           /\ rt'.ready /\ rt'.cause = NoCause /\ rt'.snap = s
           /\ Readiness(rt') = [ready |-> TRUE, id |-> rt.id + 1,
                                rev |-> rt.rev + 1, cause |-> NoCause]
<1>1. /\ ~Closed(expected[c]) /\ Readiness(rt) = expected[c]
      /\ rt.id < MaxRevision /\ rt.rev < MaxRevision
      /\ rt' = PublishedState(rt, s)
    BY DEF Activate, CanPublish
<1>2. rt \in RuntimeStates /\ rt.rev \in Int
    BY DEF TypeOK, RuntimeStates, Counter
<1>3. ~Closed(rt)
    BY <1>1, <1>2, ReadinessTyped
<1>4. /\ rt'.id = rt.id + 1 /\ rt'.rev = rt.rev + 1
      /\ rt'.ready /\ rt'.cause = NoCause /\ rt'.snap = s
    BY <1>1, <1>2, PublishTyped
<1>5. Readiness(rt') = [ready |-> TRUE, id |-> rt.id + 1,
                        rev |-> rt.rev + 1, cause |-> NoCause]
    BY <1>1 DEF Readiness, PublishedState, ReadyState
<1> QED BY <1>1, <1>2, <1>3, <1>4, <1>5

(* Becoming not ready changes the readiness in one of two ways.             *)
LEMMA NotReadyStep ==
    ASSUME TypeOK, NEW cause \in ObservedCauses \cup ClosingCauses,
           rt' = NotReadyTransition(rt, cause)
    PROVE  /\ ~rt'.ready /\ rt'.id = rt.id
           /\ \/ /\ rt.rev < MaxRevision /\ rt'.rev = rt.rev + 1
                 /\ rt'.cause = cause
                 /\ Readiness(rt') = [ready |-> FALSE, id |-> rt.id,
                                      rev |-> rt.rev + 1, cause |-> cause]
              \/ /\ rt.rev = MaxRevision /\ rt'.rev = rt.rev
                 /\ rt'.cause = "StateRevisionExhausted" /\ Closed(rt')
                 /\ Readiness(rt') = [ready |-> FALSE, id |-> rt.id,
                                      rev |-> rt.rev,
                                      cause |-> "StateRevisionExhausted"]
<1>1. rt \in RuntimeStates
    BY DEF TypeOK
<1>2. CASE rt.rev < MaxRevision
  <2>1. rt' = NotReadyState(rt.id, rt.rev + 1, cause)
      BY <1>2 DEF NotReadyTransition
  <2> QED BY <1>2, <2>1 DEF NotReadyState, Readiness
<1>3. CASE ~(rt.rev < MaxRevision)
  <2>1. rt' = NotReadyState(rt.id, rt.rev, "StateRevisionExhausted")
      BY <1>3 DEF NotReadyTransition
  <2>2. rt.rev = MaxRevision
      BY <1>1, <1>3, ActivationAssumption DEF RuntimeStates, Counter
  <2> QED BY <2>1, <2>2, CausesDisjoint DEF NotReadyState, Readiness, Closed
<1> QED BY <1>2, <1>3

(* A fence acts on an open runtime or does nothing.                         *)
LEMMA FenceStep ==
    ASSUME IInv, NEW c \in Coordinators, NEW cause \in ObservedCauses,
           Fence(c, cause)
    PROVE  \/ rt' = rt /\ expected[c] # Readiness(rt)
           \/ /\ ~Closed(rt) /\ rt' # rt
              /\ expected[c] = Readiness(rt)
              /\ rt' = NotReadyTransition(rt, cause)
<1>1. expected[c] # NoReadiness /\ ~Closed(expected[c])
    BY DEF IInv, Tokens, Fence
<1>2. rt' = AfterFence(rt, expected[c], cause)
    BY DEF Fence
<1>3. rt \in RuntimeStates
    BY DEF IInv, TypeOK
<1>4. CASE Readiness(rt) = expected[c]
  <2>1. rt' = NotReadyTransition(rt, cause)
      BY <1>2, <1>4 DEF AfterFence
  <2>2. ~Closed(rt)
      BY <1>1, <1>3, <1>4, ReadinessTyped
  <2>3. rt' # rt
    <3>1. \/ rt.rev < MaxRevision /\ rt'.rev = rt.rev + 1
          \/ Closed(rt')
        BY <2>1, NotReadyStep DEF IInv
    <3> QED BY <3>1, <2>2, <1>3 DEF RuntimeStates, Counter
  <2> QED BY <1>4, <2>1, <2>2, <2>3
<1>5. CASE Readiness(rt) # expected[c]
    BY <1>2, <1>5 DEF AfterFence
<1> QED BY <1>4, <1>5

-----------------------------------------------------------------------------
(* The inductive invariant.                                                 *)

LEMMA ShapeStep == IInv /\ [Next]_vars => Shape'
<1> SUFFICES ASSUME IInv, [Next]_vars PROVE Shape'
    OBVIOUS
<1>t. TypeOK /\ Shape /\ rt \in RuntimeStates
    BY DEF IInv, TypeOK
<1>n. ASSUME NEW k \in ObservedCauses \cup ClosingCauses,
             rt' = NotReadyTransition(rt, k)
      PROVE Shape'
  <2>1. /\ ~rt'.ready /\ rt'.id = rt.id
        /\ rt'.rev = rt.rev + 1 \/ rt'.rev = rt.rev
      BY <1>n, <1>t, NotReadyStep
  <2>2. rt'.cause # NoCause
      BY <1>n, <1>t, NotReadyStep, CausesDisjoint
  <2> QED BY <1>t, <2>1, <2>2 DEF Shape, RuntimeStates, Counter
<1>1. ASSUME NEW c \in Coordinators, NEW s \in Snapshots, Activate(c, s)
      PROVE Shape'
  <2>1. CASE CanPublish(rt, expected[c])
      BY <1>1, <1>t, <2>1, ActivateStep DEF Shape, RuntimeStates, Counter
  <2>2. CASE ~CanPublish(rt, expected[c])
      BY <1>1, <1>t, <2>2 DEF Activate, Shape
  <2> QED BY <2>1, <2>2
<1>2. ASSUME NEW c \in Coordinators, NEW cause \in ObservedCauses,
             Fence(c, cause)
      PROVE Shape'
    BY <1>2, <1>t, <1>n, FenceStep DEF Shape
<1>3. CASE CloseAdministratively
    BY <1>3, <1>n, CausesDisjoint DEF CloseAdministratively
<1>4. CASE UNCHANGED rt
    BY <1>4, <1>t DEF Shape
<1> QED
    BY <1>1, <1>2, <1>3, <1>4
    DEF Next, vars, ReadReadiness, AcquireLease, ReleaseLease

LEMMA TokensStep == IInv /\ [Next]_vars => Tokens'
<1> SUFFICES ASSUME IInv, [Next]_vars,
                    NEW d \in Coordinators, expected'[d] # NoReadiness
             PROVE  /\ ~Closed(expected'[d])
                    /\ expected'[d].rev <= rt'.rev
                    /\ moved'[d] => \/ expected'[d].rev < rt'.rev
                                    \/ Closed(rt')
                    /\ ~moved'[d] => expected'[d] = Readiness(rt')
    BY DEF Tokens
<1>t. TypeOK /\ Tokens /\ rt \in RuntimeStates
    BY DEF IInv, TypeOK
<1>d. expected[d] # NoReadiness => expected[d].rev \in Int
    BY <1>t DEF TypeOK, Readinesses, Counter
<1>r. rt.rev \in Int /\ rt'.rev \in Int
    BY TypeStep, <1>t DEF TypeOK, RuntimeStates, Counter
<1>1. ASSUME NEW c \in Coordinators, ReadReadiness(c)
      PROVE  /\ ~Closed(expected'[d])
             /\ expected'[d].rev <= rt'.rev
             /\ moved'[d] => expected'[d].rev < rt'.rev \/ Closed(rt')
             /\ ~moved'[d] => expected'[d] = Readiness(rt')
  <2>1. CASE c = d
    <3>1. expected'[d] = Readiness(rt) /\ moved'[d] = FALSE /\ rt' = rt
        BY <1>1, <1>t, <2>1 DEF ReadReadiness, TypeOK
    <3>2. ~Closed(rt)
        BY <1>1 DEF ReadReadiness
    <3> QED BY <1>t, <1>r, <3>1, <3>2, ReadinessTyped
  <2>2. CASE c # d
    <3>1. expected'[d] = expected[d] /\ moved'[d] = moved[d] /\ rt' = rt
        BY <1>1, <1>t, <2>2 DEF ReadReadiness, TypeOK
    <3> QED BY <1>t, <3>1 DEF Tokens
  <2> QED BY <2>1, <2>2
<1>2. ASSUME NEW c \in Coordinators, NEW s \in Snapshots, Activate(c, s)
      PROVE  /\ ~Closed(expected'[d])
             /\ expected'[d].rev <= rt'.rev
             /\ moved'[d] => expected'[d].rev < rt'.rev \/ Closed(rt')
             /\ ~moved'[d] => expected'[d] = Readiness(rt')
  <2>1. c # d /\ expected'[d] = expected[d]
      BY <1>2, <1>t DEF Activate, TypeOK
  <2>2. CASE CanPublish(rt, expected[c])
    <3>1. rt' # rt /\ rt'.rev = rt.rev + 1
        BY <1>2, <1>t, <2>2, ActivateStep
    <3>2. moved'[d]
        BY <1>2, <2>1, <3>1 DEF Activate, MovedAfter
    <3>3. ~Closed(expected[d]) /\ expected[d].rev <= rt.rev
        BY <1>t, <2>1 DEF Tokens
    <3> QED BY <2>1, <3>1, <3>2, <3>3, <1>d, <1>r
  <2>3. CASE ~CanPublish(rt, expected[c])
    <3>1. rt' = rt /\ moved'[d] = moved[d]
        BY <1>2, <2>3 DEF Activate, MovedAfter
    <3> QED BY <1>t, <2>1, <3>1 DEF Tokens
  <2> QED BY <2>2, <2>3
<1>3. ASSUME NEW c \in Coordinators, NEW cause \in ObservedCauses,
             Fence(c, cause)
      PROVE  /\ ~Closed(expected'[d])
             /\ expected'[d].rev <= rt'.rev
             /\ moved'[d] => expected'[d].rev < rt'.rev \/ Closed(rt')
             /\ ~moved'[d] => expected'[d] = Readiness(rt')
  <2>1. CASE rt' = rt /\ expected[c] # Readiness(rt)
    <3>1. moved'[d] = moved[d]
        BY <1>3, <2>1 DEF Fence, MovedAfter
    <3>2. c # d /\ expected'[d] = expected[d]
        BY <1>3, <1>t, <2>1 DEF Fence, FenceAccepted, TypeOK
    <3> QED BY <1>t, <2>1, <3>1, <3>2 DEF Tokens
  <2>2. CASE /\ ~Closed(rt) /\ rt' # rt
             /\ expected[c] = Readiness(rt)
             /\ rt' = NotReadyTransition(rt, cause)
    <3>1. moved'[d] = (d # c)
        BY <1>3, <2>2 DEF Fence, MovedAfter
    <3>2. \/ rt.rev < MaxRevision /\ rt'.rev = rt.rev + 1
             /\ rt'.cause = cause /\ ~rt'.ready
          \/ rt.rev = MaxRevision /\ rt'.rev = rt.rev /\ Closed(rt')
        BY <2>2, <1>t, NotReadyStep
    <3>3. CASE c = d
      <4>1. FenceAccepted(rt, expected[c]) /\ expected'[d] = Readiness(rt')
          BY <1>3, <1>t, <3>3 DEF Fence, TypeOK
      <4>2. rt.rev < MaxRevision
          BY <4>1 DEF FenceAccepted
      <4>3. rt'.cause = cause
          BY <3>2, <4>2, <1>r, ActivationAssumption
      <4>4. ~Closed(rt')
          BY <4>3, CausesDisjoint DEF Closed
      <4>5. rt' \in RuntimeStates
          BY TypeStep DEF TypeOK
      <4>6. ~moved'[d]
          BY <3>1, <3>3
      <4>7. /\ ~Closed(Readiness(rt'))
            /\ Readiness(rt').rev = rt'.rev
          BY <4>4, <4>5, ReadinessTyped
      <4> QED BY <4>1, <4>6, <4>7, <1>r
    <3>4. CASE c # d
      <4>1. expected'[d] = expected[d] /\ moved'[d]
          BY <1>3, <1>t, <3>1, <3>4 DEF Fence, TypeOK
      <4>2. ~Closed(expected[d]) /\ expected[d].rev <= rt.rev
          BY <1>t, <4>1 DEF Tokens
      <4> QED BY <3>2, <4>1, <4>2, <1>d, <1>r
    <3> QED BY <3>3, <3>4
  <2> QED BY <1>3, <2>1, <2>2, FenceStep
<1>4. ASSUME CloseAdministratively
      PROVE  /\ ~Closed(expected'[d])
             /\ expected'[d].rev <= rt'.rev
             /\ moved'[d] => expected'[d].rev < rt'.rev \/ Closed(rt')
             /\ ~moved'[d] => expected'[d] = Readiness(rt')
  <2>1. /\ rt' = NotReadyTransition(rt, "Administrative")
        /\ expected' = expected
        /\ ~moved'[d] => ~moved[d] /\ rt' = rt
      BY <1>4 DEF CloseAdministratively, AllMoved
  <2>2. Closed(rt') /\ (rt'.rev = rt.rev + 1 \/ rt'.rev = rt.rev)
      BY <2>1, <1>t, NotReadyStep, CausesDisjoint DEF Closed
  <2>3. ~Closed(expected[d]) /\ expected[d].rev <= rt.rev
        /\ (~moved[d] => expected[d] = Readiness(rt))
      BY <1>t, <2>1 DEF Tokens
  <2> QED BY <2>1, <2>2, <2>3, <1>d, <1>r
<1>5. ASSUME UNCHANGED <<rt, expected, moved>>
      PROVE  /\ ~Closed(expected'[d])
             /\ expected'[d].rev <= rt'.rev
             /\ moved'[d] => expected'[d].rev < rt'.rev \/ Closed(rt')
             /\ ~moved'[d] => expected'[d] = Readiness(rt')
    BY <1>5, <1>t DEF Tokens
<1> QED
    BY <1>1, <1>2, <1>3, <1>4, <1>5
    DEF Next, vars, AcquireLease, ReleaseLease

LEMMA Inductive == IInv /\ [Next]_vars => IInv'
    BY TypeStep, ShapeStep, TokensStep DEF IInv

LEMMA SpecIInv == Spec => []IInv
    BY InitInv, Inductive, PTL DEF Spec

-----------------------------------------------------------------------------
(* Every reachable state is well formed, for any number of coordinators.    *)
THEOREM TypeCorrect == Spec => []TypeOK
<1>1. IInv => TypeOK
    BY DEF IInv
<1> QED BY <1>1, SpecIInv, PTL

(* No compare-and-swap of a coordinator can succeed over a transition that  *)
(* happened since it read the readiness: there is no ABA.                   *)
THEOREM NoABA == Spec => []TokenCurrentIffUnmoved
<1>1. IInv => TokenCurrentIffUnmoved
  <2> SUFFICES ASSUME IInv, NEW c \in Coordinators,
                      expected[c] # NoReadiness
               PROVE  expected[c] = Readiness(rt) <=> ~moved[c]
      BY DEF TokenCurrentIffUnmoved
  <2>1. rt \in RuntimeStates /\ rt.rev \in Int
      BY DEF IInv, TypeOK, RuntimeStates, Counter
  <2>2. ASSUME expected[c] = Readiness(rt), moved[c] PROVE FALSE
    <3>1. ~Closed(rt)
        BY <2>1, <2>2, ReadinessTyped DEF IInv, Tokens
    <3>2. expected[c].rev = rt.rev
        BY <2>1, <2>2, ReadinessTyped
    <3> QED BY <2>1, <2>2, <3>1, <3>2 DEF IInv, Tokens
  <2> QED BY <2>2 DEF IInv, Tokens
<1> QED BY <1>1, SpecIInv, PTL

(* Closing is final for every coordinator, whatever work it still has in    *)
(* flight: its token is of an open runtime and cannot be current.           *)
THEOREM ClosingFinal == Spec => ClosedIsFinal
<1>1. ASSUME IInv, [Next]_vars PROVE [Closed(rt) => Closed(rt')]_rt
  <2>1. ASSUME NEW c \in Coordinators, NEW s \in Snapshots, Activate(c, s),
               Closed(rt)
        PROVE  rt' = rt
      BY <1>1, <2>1, ActivateStep DEF IInv, Activate
  <2>2. ASSUME NEW c \in Coordinators, NEW cause \in ObservedCauses,
               Fence(c, cause), Closed(rt)
        PROVE  rt' = rt
      BY <1>1, <2>2, FenceStep
  <2>3. ASSUME CloseAdministratively PROVE Closed(rt')
      BY <1>1, <2>3, NotReadyStep, CausesDisjoint
      DEF CloseAdministratively, IInv, Closed
  <2> QED
      BY <1>1, <2>1, <2>2, <2>3
      DEF Next, vars, ReadReadiness, AcquireLease, ReleaseLease
<1> QED BY <1>1, SpecIInv, PTL DEF ClosedIsFinal, Spec

-----------------------------------------------------------------------------
(* Publication never rewrites the snapshot recorded under an earlier id.    *)
LEMMA LeaseStep ==
    IInv /\ LeasePinsItsActivation /\ [Next]_vars => LeasePinsItsActivation'
<1> SUFFICES ASSUME IInv, LeasePinsItsActivation, [Next]_vars
             PROVE  LeasePinsItsActivation'
    OBVIOUS
<1>t. /\ TypeOK /\ rt.id \in Counter /\ rt.id \in Int
      /\ Counter \subseteq Int
    BY DEF IInv, TypeOK, RuntimeStates, Counter
<1>l. ASSUME NEW r \in Requests, lease[r] # NoLease
      PROVE  lease[r].id \in Int /\ lease[r].id <= rt.id
             /\ lease[r].snap = published[lease[r].id]
             /\ lease[r].id \in Counter
    BY <1>l, <1>t DEF LeasePinsItsActivation, TypeOK, Leases, Counter
<1>1. ASSUME NEW c \in Coordinators, NEW s \in Snapshots, Activate(c, s)
      PROVE LeasePinsItsActivation'
  <2>1. CASE CanPublish(rt, expected[c])
    <3>1. /\ rt'.id = rt.id + 1 /\ rt'.snap = s /\ rt.id < MaxRevision
          /\ published' = [published EXCEPT ![rt'.id] = s] /\ lease' = lease
        BY <1>1, <1>t, <2>1, ActivateStep DEF Activate
    <3>2. rt'.id \in Counter
        BY <1>t, <3>1, ActivationAssumption DEF Counter
    <3>3. published'[rt'.id] = rt'.snap
        BY <1>t, <3>1, <3>2 DEF TypeOK
    <3>4. ASSUME NEW r \in Requests, lease'[r] # NoLease
          PROVE  /\ lease'[r].id <= rt'.id
                 /\ lease'[r].snap = published'[lease'[r].id]
      <4>1. /\ lease[r].id \in Int /\ lease[r].id <= rt.id
            /\ lease[r].id \in Counter
            /\ lease[r].snap = published[lease[r].id]
          BY <1>l, <3>1, <3>4
      <4>2. lease[r].id <= rt'.id /\ lease[r].id # rt'.id
          BY <1>t, <3>1, <4>1 DEF Counter
      <4>3. published'[lease[r].id] = published[lease[r].id]
          BY <1>t, <3>1, <4>1, <4>2 DEF TypeOK
      <4> QED BY <3>1, <4>1, <4>2, <4>3
    <3> QED BY <3>3, <3>4 DEF LeasePinsItsActivation
  <2>2. CASE ~CanPublish(rt, expected[c])
      BY <1>1, <2>2 DEF Activate, LeasePinsItsActivation
  <2> QED BY <2>1, <2>2
<1>n. ASSUME NEW k \in ObservedCauses \cup ClosingCauses,
             rt' = NotReadyTransition(rt, k), UNCHANGED <<lease, published>>
      PROVE LeasePinsItsActivation'
    BY <1>n, <1>t, NotReadyStep DEF LeasePinsItsActivation
<1>2. ASSUME NEW c \in Coordinators, NEW cause \in ObservedCauses,
             Fence(c, cause)
      PROVE LeasePinsItsActivation'
    BY <1>2, <1>n, FenceStep DEF Fence, LeasePinsItsActivation
<1>3. CASE CloseAdministratively
    BY <1>3, <1>n, CausesDisjoint DEF CloseAdministratively
<1>4. ASSUME NEW q \in Requests, AcquireLease(q)
      PROVE LeasePinsItsActivation'
  <2>1. rt' = rt /\ published' = published /\ rt.snap = published[rt.id]
      BY <1>4 DEF AcquireLease, LeasePinsItsActivation
  <2>2. ASSUME NEW r \in Requests, lease'[r] # NoLease
        PROVE  /\ lease'[r].id <= rt'.id
               /\ lease'[r].snap = published'[lease'[r].id]
    <3>1. CASE r = q
      <4>1. lease'[r] = [id |-> rt.id, rev |-> rt.rev, snap |-> rt.snap]
          BY <1>4, <1>t, <3>1 DEF AcquireLease, TypeOK
      <4> QED BY <1>t, <2>1, <4>1
    <3>2. CASE r # q
      <4>1. lease'[r] = lease[r]
          BY <1>4, <1>t, <3>2 DEF AcquireLease, TypeOK
      <4> QED BY <1>l, <2>1, <2>2, <4>1
    <3> QED BY <3>1, <3>2
  <2> QED BY <2>1, <2>2 DEF LeasePinsItsActivation
<1>5. ASSUME NEW q \in Requests, ReleaseLease(q)
      PROVE LeasePinsItsActivation'
    BY <1>5, <1>t DEF ReleaseLease, LeasePinsItsActivation, TypeOK
<1>6. CASE UNCHANGED <<rt, lease, published>>
    BY <1>6 DEF LeasePinsItsActivation
<1> QED
    BY <1>1, <1>2, <1>3, <1>4, <1>5, <1>6 DEF Next, vars, ReadReadiness

(* A request keeps the snapshot of the activation it was admitted under.    *)
THEOREM LeasesPin == Spec => []LeasePinsItsActivation
<1>1. Init => LeasePinsItsActivation
    BY ActivationAssumption
    DEF Init, LeasePinsItsActivation, InitialState, ReadyState, Counter
<1> QED BY <1>1, LeaseStep, SpecIInv, PTL DEF Spec

-----------------------------------------------------------------------------
(* The manager implements the readiness contract: the initial state maps to *)
(* the contract's, and every step to one of its steps or to a stutter.      *)
THEOREM Refinement == Spec => ImplementsContract
<1>1. Init => Contract!Init
    BY DEF Init, Contract!Init, Contract!Readiness, Contract!InitialState,
           Contract!ReadyState, Contract!NoCause,
           Readiness, InitialState, ReadyState, NoCause
<1>2. ASSUME IInv, [Next]_vars
      PROVE  [Contract!Next]_(Readiness(rt))
  <2>t. TypeOK /\ rt \in RuntimeStates
      BY <1>2 DEF IInv, TypeOK
  <2>r. /\ Readiness(rt).rev = rt.rev /\ Readiness(rt).id = rt.id
        /\ Closed(Readiness(rt)) <=> Closed(rt)
      BY <2>t, ReadinessTyped
  <2>1. ASSUME NEW c \in Coordinators, NEW s \in Snapshots, Activate(c, s)
        PROVE  [Contract!Next]_(Readiness(rt))
    <3>1. CASE CanPublish(rt, expected[c])
      <4>1. Contract!PublishNext
          BY <2>1, <2>t, <2>r, <3>1, ActivateStep
          DEF Contract!PublishNext, Contract!Closed, Closed,
              Contract!ClosingCauses, ClosingCauses, Contract!NoCause, NoCause
      <4> QED BY <4>1 DEF Contract!Next
    <3>2. CASE ~CanPublish(rt, expected[c])
        BY <2>1, <3>2 DEF Activate
    <3> QED BY <3>1, <3>2
  <2>2. ASSUME NEW c \in Coordinators, NEW cause \in ObservedCauses,
               Fence(c, cause)
        PROVE  [Contract!Next]_(Readiness(rt))
    <3>1. CASE rt' = rt
        BY <3>1
    <3>2. CASE /\ ~Closed(rt)
               /\ rt' = NotReadyTransition(rt, cause)
      <4>1. Contract!ReportObservation \/ Contract!Close
          BY <2>t, <2>r, <3>2, NotReadyStep
          DEF Contract!ReportObservation, Contract!Close, Contract!Closed,
              Closed, Contract!ClosingCauses, ClosingCauses,
              Contract!ObservedCauses, ObservedCauses
      <4> QED BY <4>1 DEF Contract!Next
    <3> QED BY <1>2, <2>2, <3>1, <3>2, FenceStep
  <2>3. CASE CloseAdministratively
    <3>1. rt' = NotReadyTransition(rt, "Administrative")
        BY <2>3 DEF CloseAdministratively
    <3>2. Contract!Close
        BY <2>t, <2>r, <3>1, NotReadyStep, CausesDisjoint DEF Contract!Close
    <3> QED BY <3>2 DEF Contract!Next
  <2>4. CASE UNCHANGED rt
      BY <2>4
  <2> QED
      BY <1>2, <2>1, <2>2, <2>3, <2>4
      DEF Next, vars, ReadReadiness, AcquireLease, ReleaseLease
<1> QED BY <1>1, <1>2, SpecIInv, PTL DEF Spec, ImplementsContract, Contract!Spec
=============================================================================
