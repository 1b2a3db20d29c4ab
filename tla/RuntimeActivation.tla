-------------------------- MODULE RuntimeActivation --------------------------
(***************************************************************************)
(* RuntimeManager on its own: any number of coordinators that read the     *)
(* readiness, work, and then publish or fence against what they read;      *)
(* shutdown closing the runtime at any moment; requests that lease the     *)
(* published snapshot.  Each action is one critical section of the lock.   *)
(* Source: crates/sf-serve/src/activation.rs, activation_reload.rs.        *)
(***************************************************************************)
EXTENDS ActivationState

CONSTANTS Coordinators, Requests, NoLease, InitialSnapshot

ASSUME ManagerAssumption == InitialSnapshot \in Snapshots

VARIABLES
    rt,        \* RuntimeManager.state
    expected,  \* the readiness each coordinator holds, or NoReadiness
    lease,     \* the RuntimeSnapshotLease each request holds, or NoLease
    published, \* history: the snapshot published under each activation id
    moved      \* history: rt changed since the coordinator took its token

vars == <<rt, expected, lease, published, moved>>

Leases == [id : Counter, rev : Counter, snap : Snapshots]

ASSUME LeaseAssumption == NoLease \notin Leases

TypeOK ==
    /\ rt \in RuntimeStates
    /\ expected \in [Coordinators -> Readinesses \cup {NoReadiness}]
    /\ lease \in [Requests -> Leases \cup {NoLease}]
    /\ published \in [Counter -> Snapshots \cup {NoSnapshot}]
    /\ moved \in [Coordinators -> BOOLEAN]

Init ==
    /\ rt = InitialState(InitialSnapshot)
    /\ expected = [c \in Coordinators |-> NoReadiness]
    /\ lease = [r \in Requests |-> NoLease]
    /\ published = [i \in Counter |->
                       IF i = 1 THEN InitialSnapshot ELSE NoSnapshot]
    /\ moved = [c \in Coordinators |-> FALSE]

\* Every coordinator other than the one that moved the state is now behind.
MovedAfter(mover) ==
    [c \in Coordinators |-> IF rt' # rt THEN c # mover ELSE moved[c]]

\* Everybody is behind when the mover is not a coordinator.
AllMoved == [c \in Coordinators |-> moved[c] \/ rt' # rt]

-----------------------------------------------------------------------------
(* Coordinators *)

\* readiness(); neither coordinator goes on from a closed runtime.
ReadReadiness(c) ==
    /\ ~Closed(rt)
    /\ expected' = [expected EXCEPT ![c] = Readiness(rt)]
    /\ moved' = [moved EXCEPT ![c] = FALSE]
    /\ UNCHANGED <<rt, lease, published>>

\* activate_candidate / activate_authored: the candidate is consumed.
Activate(c, s) ==
    /\ expected[c] # NoReadiness
    /\ IF CanPublish(rt, expected[c])
       THEN /\ rt' = PublishedState(rt, s)
            /\ published' = [published EXCEPT ![rt'.id] = s]
       ELSE UNCHANGED <<rt, published>>
    /\ expected' = [expected EXCEPT ![c] = NoReadiness]
    /\ moved' = MovedAfter(c)
    /\ UNCHANGED lease

\* transition_not_ready / fence_authored: success hands back the new token.
Fence(c, cause) ==
    /\ expected[c] # NoReadiness
    /\ rt' = AfterFence(rt, expected[c], cause)
    /\ expected' = [expected EXCEPT
                       ![c] = IF FenceAccepted(rt, expected[c])
                              THEN Readiness(rt') ELSE NoReadiness]
    /\ moved' = MovedAfter(c)
    /\ UNCHANGED <<lease, published>>

\* mark_current_administratively_not_ready: whatever is current is closed.
CloseAdministratively ==
    /\ rt' = NotReadyTransition(rt, "Administrative")
    /\ moved' = AllMoved
    /\ UNCHANGED <<expected, lease, published>>

-----------------------------------------------------------------------------
(* Requests *)

AcquireLease(r) ==
    /\ lease[r] = NoLease
    /\ rt.ready
    /\ lease' = [lease EXCEPT
                    ![r] = [id |-> rt.id, rev |-> rt.rev, snap |-> rt.snap]]
    /\ UNCHANGED <<rt, expected, published, moved>>

ReleaseLease(r) ==
    /\ lease[r] # NoLease
    /\ lease' = [lease EXCEPT ![r] = NoLease]
    /\ UNCHANGED <<rt, expected, published, moved>>

Next ==
    \/ \E c \in Coordinators : ReadReadiness(c)
    \/ \E c \in Coordinators, s \in Snapshots : Activate(c, s)
    \/ \E c \in Coordinators, cause \in ObservedCauses : Fence(c, cause)
    \/ CloseAdministratively
    \/ \E r \in Requests : AcquireLease(r)
    \/ \E r \in Requests : ReleaseLease(r)

Spec == Init /\ [][Next]_vars

-----------------------------------------------------------------------------
(* Properties *)

(* No ABA: a coordinator's token equals the current readiness exactly when *)
(* nothing at all happened to the runtime since the token was taken, so a  *)
(* compare-and-swap on it can never succeed over an intervening transition.*)
TokenCurrentIffUnmoved ==
    \A c \in Coordinators :
        expected[c] # NoReadiness =>
            (expected[c] = Readiness(rt) <=> ~moved[c])

(* A lease pins the snapshot published under its activation id, for as     *)
(* long as it is held and whatever is published or fenced meanwhile, and   *)
(* the runtime itself serves the snapshot of its current activation.       *)
LeasePinsItsActivation ==
    /\ rt.ready => rt.snap = published[rt.id]
    /\ \A r \in Requests :
          lease[r] # NoLease =>
              /\ lease[r].id <= rt.id
              /\ lease[r].snap = published[lease[r].id]

(* Closing is final: no transition leaves the administrative or exhausted  *)
(* states, even for a coordinator whose work began while it was ready.     *)
ClosedIsFinal == [][Closed(rt) => Closed(rt')]_rt

Contract == INSTANCE ReadinessContract WITH readiness <- Readiness(rt)
(* The manager implements the readiness contract.                          *)
ImplementsContract == Contract!Spec
=============================================================================
