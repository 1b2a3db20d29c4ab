--------------------------- MODULE ActivationState ---------------------------
(***************************************************************************)
(* The value a RuntimeManager guards with its write lock, and the three    *)
(* pure transitions every caller performs under that lock: publish a       *)
(* candidate, fence after an observation, and close administratively.      *)
(* Source: crates/sf-serve/src/activation.rs and activation_reload.rs.     *)
(*                                                                         *)
(* Both counters are u64 in the code and are advanced with checked_add, so *)
(* their width is the constant MaxRevision: the last value a counter has.  *)
(***************************************************************************)
EXTENDS Integers

CONSTANTS Snapshots,     \* the immutable generations a builder may produce
          NoSnapshot,    \* what a runtime that is not ready holds
          NoReadiness,   \* the token of a coordinator that holds none
          MaxRevision    \* the largest value of an ActivationId or a revision

ObservedCauses == {"SchemaDrift", "SourceUnavailable", "CapabilityDrift"}
ClosingCauses  == {"Administrative", "StateRevisionExhausted"}
NoCause        == "None"

Counter == 1 .. MaxRevision

\* What RuntimeReadiness carries: everything but the snapshot.
Readinesses == [ready : BOOLEAN, id : Counter, rev : Counter,
                cause : ObservedCauses \cup ClosingCauses \cup {NoCause}]

RuntimeStates ==
    [ready : BOOLEAN, id : Counter, rev : Counter,
     cause : ObservedCauses \cup ClosingCauses \cup {NoCause},
     snap  : Snapshots \cup {NoSnapshot}]

ASSUME ActivationAssumption ==
    /\ MaxRevision \in Nat \ {0}
    /\ NoSnapshot \notin Snapshots
    /\ NoReadiness \notin Readinesses

ReadyState(i, r, s) ==
    [ready |-> TRUE, id |-> i, rev |-> r, cause |-> NoCause, snap |-> s]

NotReadyState(i, r, c) ==
    [ready |-> FALSE, id |-> i, rev |-> r, cause |-> c, snap |-> NoSnapshot]

\* RuntimeManager::new publishes the start-up snapshot as the first activation.
InitialState(s) == ReadyState(1, 1, s)

Readiness(state) ==
    [ready |-> state.ready, id |-> state.id,
     rev   |-> state.rev,   cause |-> state.cause]

\* Causes from which neither coordinator recovers (reload.rs, terminal).
Closed(state) == ~state.ready /\ state.cause \in ClosingCauses

-----------------------------------------------------------------------------
(* Publication: the expected readiness must be complete and current. *)

CanPublishById(state, expected) ==      \* compares the activation id alone
    /\ ~Closed(expected)
    /\ state.id = expected.id
    /\ state.id < MaxRevision
    /\ state.rev < MaxRevision

CanPublish(state, expected) ==
    /\ ~Closed(expected)
    /\ Readiness(state) = expected
    /\ state.id < MaxRevision
    /\ state.rev < MaxRevision

PublishedReusingId(state, s) == ReadyState(state.id, state.rev + 1, s)

PublishedState(state, s) == ReadyState(state.id + 1, state.rev + 1, s)

(* Becoming not ready advances the revision; the last revision closes. *)

NotReadyKeepingRevision(state, c) ==    \* no fresh revision for a repeat
    NotReadyState(state.id, state.rev, c)

NotReadyWithoutExhaustion(state, c) ==  \* the counter saturates silently
    NotReadyState(state.id,
                  IF state.rev < MaxRevision THEN state.rev + 1 ELSE state.rev,
                  c)

NotReadyTransition(state, c) ==
    IF state.rev < MaxRevision
    THEN NotReadyState(state.id, state.rev + 1, c)
    ELSE NotReadyState(state.id, state.rev, "StateRevisionExhausted")

\* Fencing succeeds for the caller only if a fresh revision was left.
FenceAccepted(state, expected) ==
    /\ Readiness(state) = expected
    /\ state.rev < MaxRevision

\* The state after fence(expected, c): unchanged when expected is stale.
AfterFence(state, expected, c) ==
    IF Readiness(state) = expected THEN NotReadyTransition(state, c) ELSE state
=============================================================================
