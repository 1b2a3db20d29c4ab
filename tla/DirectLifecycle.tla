--------------------------- MODULE DirectLifecycle ---------------------------
(***************************************************************************)
(* The PostgreSQL Direct lifecycle: one coordinator task that probes the   *)
(* served generation while ready and rebuilds while not, the build task it *)
(* joins even after a timeout, the monitor that fails readiness closed     *)
(* when the coordinator ends abnormally, and the supervisor the server's   *)
(* background future shuts down.                                           *)
(* Source: crates/sf-serve/src/pg_direct_lifecycle/coordinator.rs and      *)
(* builder.rs, startup_direct.rs (the background future), config.rs.       *)
(***************************************************************************)
EXTENDS ActivationState

CONSTANTS InitialSnapshot,
          MaxChanges,     \* bound: schema changes at the source
          MaxFaults       \* bound: failures, panics and timeouts

ASSUME DirectAssumption ==
    /\ InitialSnapshot \in Snapshots
    /\ {MaxChanges, MaxFaults} \subseteq Nat

VARIABLES
    rt,          \* RuntimeManager.state
    phase,       \* ShutdownPhase: "Running" or "Draining"
    closing,     \* begin_shutdown has moved the phase and not yet closed rt
    schema,      \* what the source would show now
    worker,      \* the coordinator: where it is, and the readiness it read
    generation,  \* the expectation it probes with
    build,       \* the task of control.build, and its result
    permit,      \* control_permits: "free", "held", or kept by "cleanup"
    monitor,     \* "waiting", "failing" closed, "done", or "aborted"
    stop,        \* the oneshot to the coordinator: "open", "sent", "dropped"
    planned,     \* the supervisor's planned flag
    sup,         \* where the background future and its shutdown() are
    reads,       \* fail_closed: the readiness the monitor or supervisor read
    changes, faults

vars == <<rt, phase, closing, schema, worker, generation, build, permit,
          monitor, stop, planned, sup, reads, changes, faults>>

workerVars  == <<worker, generation>>
buildVars   == <<build, permit>>
superVars   == <<monitor, stop, planned, sup, reads>>
outsideVars == <<phase, closing, schema, changes>>

Failers == {"monitor", "supervisor"}
Exits   == {"planned", "unexpected", "panicked", "aborted"}
BuildSteps == {"acquire", "observe", "bind"}
NoBuild == [pc |-> "none", seen |-> NoSnapshot, result |-> "none"]

BuildLive == build.pc \in BuildSteps
Exited == worker.pc \in Exits

TypeOK ==
    /\ rt \in RuntimeStates
    /\ phase \in {"Running", "Draining"} /\ closing \in BOOLEAN
    /\ schema \in Snapshots /\ generation \in Snapshots
    /\ worker.pc \in {"tick", "probe", "probing", "build", "late", "joining"}
                     \cup Exits
    /\ worker.token \in Readinesses \cup {NoReadiness}
    /\ worker.fenced \in BOOLEAN
    /\ build.pc \in BuildSteps \cup {"none", "done"}
    /\ build.seen \in Snapshots \cup {NoSnapshot}
    /\ build.result \in ObservedCauses \cup {"none", "candidate", "panic"}
    /\ permit \in {"free", "held", "cleanup"}
    /\ monitor \in {"waiting", "failing", "done", "aborted"}
    /\ stop \in {"open", "sent", "dropped"} /\ planned \in BOOLEAN
    /\ sup \in {"watching", "stopping", "failing", "joining", "ok", "error",
                "dropping", "dropped"}
    /\ reads \in [Failers -> Readinesses \cup {NoReadiness}]
    /\ changes \in 0 .. MaxChanges /\ faults \in 0 .. MaxFaults

Init ==
    /\ rt = InitialState(InitialSnapshot)
    /\ phase = "Running" /\ closing = FALSE
    /\ schema = InitialSnapshot /\ generation = InitialSnapshot
    /\ worker = [pc |-> "tick", token |-> NoReadiness, fenced |-> TRUE]
    /\ build = NoBuild
    /\ permit = "free"
    /\ monitor = "waiting" /\ stop = "open" /\ planned = FALSE
    /\ sup = "watching"
    /\ reads = [f \in Failers |-> NoReadiness]
    /\ changes = 0 /\ faults = 0

-----------------------------------------------------------------------------
(* The source, and config.begin_shutdown by the signal task.                *)

AlterSchema ==
    /\ changes < MaxChanges
    /\ schema' \in Snapshots \ {schema}
    /\ changes' = changes + 1
    /\ UNCHANGED <<rt, phase, closing, workerVars, buildVars, superVars, faults>>

Signal ==
    /\ phase = "Running"
    /\ phase' = "Draining" /\ closing' = TRUE
    /\ UNCHANGED <<rt, schema, workerVars, buildVars, superVars, changes, faults>>

MarkAdministrative ==
    /\ closing
    /\ closing' = FALSE
    /\ rt' = NotReadyTransition(rt, "Administrative")
    /\ UNCHANGED <<phase, schema, workerVars, buildVars, superVars, changes,
                   faults>>

-----------------------------------------------------------------------------
(* The coordinator: run_coordinator. *)

GoTo(pc) == worker' = [worker EXCEPT !.pc = pc]

\* The loop's select and the readiness it acts on.
Tick ==
    /\ worker.pc = "tick" /\ ~Closed(rt)
    /\ worker' = [pc |-> IF rt.ready THEN "probe" ELSE "build",
                  token |-> Readiness(rt), fenced |-> TRUE]
    /\ build' = IF rt.ready THEN build ELSE [NoBuild EXCEPT !.pc = "acquire"]
    /\ UNCHANGED <<rt, generation, permit, superVars, outsideVars, faults>>

\* transition_failure: a stale token is no error, an exhausted counter is.
TransitionFailure(cause) ==
    rt' = AfterFence(rt, worker.token, cause)
FailureRefused ==
    Readiness(rt) = worker.token /\ ~FenceAccepted(rt, worker.token)

\* A failed probe is left for the next tick to confirm.
ReportLater(cause) == GoTo("tick") /\ UNCHANGED rt

ReportFailure(cause) ==
    /\ TransitionFailure(cause)
    /\ GoTo(IF FailureRefused THEN "unexpected" ELSE "tick")

\* control_budget, then probe_direct_expectation.
ProbeBegins ==
    /\ worker.pc = "probe"
    /\ IF permit = "free"
       THEN permit' = "held" /\ GoTo("probing") /\ UNCHANGED rt
       ELSE UNCHANGED permit /\ ReportFailure("SourceUnavailable")
    /\ UNCHANGED <<generation, build, superVars, outsideVars, faults>>

ProbeEnds ==
    /\ worker.pc = "probing"
    /\ permit' = "free"
    /\ IF schema = generation
       THEN GoTo("tick") /\ UNCHANGED rt
       ELSE ReportFailure("SchemaDrift")
    /\ UNCHANGED <<generation, build, superVars, outsideVars, faults>>

\* An error of the probe, or its timeout: native cleanup may keep the permit.
ProbeFails ==
    /\ worker.pc = "probing" /\ faults < MaxFaults
    /\ permit' \in {"free", "cleanup"}
    /\ \E cause \in ObservedCauses : ReportFailure(cause)
    /\ faults' = faults + 1
    /\ UNCHANGED <<generation, build, superVars, outsideVars>>

\* The probe runs in the coordinator's own task: its panic ends both.
ProbePanics ==
    /\ worker.pc = "probing" /\ faults < MaxFaults
    /\ permit' \in {"free", "cleanup"}
    /\ GoTo("panicked")
    /\ faults' = faults + 1
    /\ UNCHANGED <<rt, generation, build, superVars, outsideVars>>

\* A coordinator that no longer polls the stop once the runtime is closed.
StopAtTickWhileOpen ==
    /\ worker.pc \in {"tick", "probe", "probing"} /\ stop # "open" /\ ~Closed(rt)
    /\ GoTo(IF stop = "sent" THEN "planned" ELSE "unexpected")
    /\ permit' \in IF worker.pc = "probing" THEN {"free", "cleanup"} ELSE {permit}
    /\ UNCHANGED <<rt, generation, build, superVars, outsideVars, faults>>

\* The stop signal, or a dropped sender, while no build is running.
StopAtTick ==
    /\ worker.pc \in {"tick", "probe", "probing"} /\ stop # "open"
    /\ GoTo(IF stop = "sent" THEN "planned" ELSE "unexpected")
    /\ permit' \in IF worker.pc = "probing" THEN {"free", "cleanup"} ELSE {permit}
    /\ UNCHANGED <<rt, generation, build, superVars, outsideVars, faults>>

-----------------------------------------------------------------------------
(* build_once and the build task. *)

BuildReturns(result) ==
    build' = [build EXCEPT !.pc = "done", !.result = result]

BuildAcquires ==
    /\ build.pc = "acquire"
    /\ IF permit = "free"
       THEN permit' = "held" /\ build' = [build EXCEPT !.pc = "observe"]
       ELSE UNCHANGED permit /\ BuildReturns("SourceUnavailable")
    /\ UNCHANGED <<rt, workerVars, superVars, outsideVars, faults>>

\* observe_on_control: the first, unprotected observation.
BuildObserves ==
    /\ build.pc = "observe"
    /\ build' = [build EXCEPT !.pc = "bind", !.seen = schema]
    /\ UNCHANGED <<rt, workerVars, permit, superVars, outsideVars, faults>>

\* The protected candidate must show the schema first observed.
BuildBinds ==
    /\ build.pc = "bind"
    /\ permit' = "free"
    /\ BuildReturns(IF build.seen = schema THEN "candidate" ELSE "SchemaDrift")
    /\ UNCHANGED <<rt, workerVars, superVars, outsideVars, faults>>

BuildFails ==
    /\ build.pc \in {"observe", "bind"} /\ faults < MaxFaults
    /\ permit' \in {"free", "cleanup"}
    /\ \E result \in ObservedCauses \cup {"panic"} : BuildReturns(result)
    /\ faults' = faults + 1
    /\ UNCHANGED <<rt, workerVars, superVars, outsideVars>>

CleanupEnds ==
    /\ permit = "cleanup"
    /\ permit' = "free"
    /\ UNCHANGED <<rt, workerVars, build, superVars, outsideVars, faults>>

\* A candidate in time: published, stale (kept for the next tick), or out of
\* counters.
PublishBuildKeepingExpectation ==
    /\ worker.pc = "build" /\ build.result = "candidate"
    /\ IF CanPublish(rt, worker.token)
       THEN rt' = PublishedState(rt, build.seen) /\ GoTo("tick")
       ELSE /\ UNCHANGED rt
            /\ GoTo(IF Readiness(rt) = worker.token THEN "unexpected" ELSE "tick")
    /\ build' = NoBuild
    /\ UNCHANGED <<generation, permit, superVars, outsideVars, faults>>

PublishBuild ==
    /\ worker.pc = "build" /\ build.result = "candidate"
    /\ IF CanPublish(rt, worker.token)
       THEN /\ rt' = PublishedState(rt, build.seen)
            /\ generation' = build.seen
            /\ GoTo("tick")
       ELSE /\ UNCHANGED <<rt, generation>>
            /\ GoTo(IF Readiness(rt) = worker.token THEN "unexpected" ELSE "tick")
    /\ build' = NoBuild
    /\ UNCHANGED <<permit, superVars, outsideVars, faults>>

RejectBuild ==
    /\ worker.pc = "build" /\ build.result \in ObservedCauses
    /\ ReportFailure(build.result)
    /\ build' = NoBuild
    /\ UNCHANGED <<generation, permit, superVars, outsideVars, faults>>

\* The task ended, but only past the deadline: its result is not used.
BuildTooLate ==
    /\ worker.pc = "build" /\ build.result \notin {"none", "panic"}
    /\ faults < MaxFaults
    /\ ReportFailure("SourceUnavailable")
    /\ build' = NoBuild
    /\ faults' = faults + 1
    /\ UNCHANGED <<generation, permit, superVars, outsideVars>>

\* The timeout without joining the task.
BuildTimeoutDetaching ==
    /\ worker.pc = "build" /\ BuildLive /\ faults < MaxFaults
    /\ ReportFailure("SourceUnavailable")
    /\ faults' = faults + 1
    /\ UNCHANGED <<generation, build, permit, superVars, outsideVars>>

\* The deadline revokes publication; the task is joined all the same.
BuildTimeout ==
    /\ worker.pc = "build" /\ BuildLive /\ faults < MaxFaults
    /\ TransitionFailure("SourceUnavailable")
    /\ worker' = [worker EXCEPT !.pc = "late", !.fenced = ~FailureRefused]
    /\ faults' = faults + 1
    /\ UNCHANGED <<generation, build, permit, superVars, outsideVars>>

BuildPanicked ==
    /\ worker.pc = "build" /\ build.result = "panic"
    /\ GoTo("unexpected")
    /\ build' = NoBuild
    /\ UNCHANGED <<rt, generation, permit, superVars, outsideVars, faults>>

LateBuildJoined ==
    /\ worker.pc = "late" /\ build.pc = "done"
    /\ GoTo(IF build.result = "panic" \/ ~worker.fenced
            THEN "unexpected" ELSE "tick")
    /\ build' = NoBuild
    /\ UNCHANGED <<rt, generation, permit, superVars, outsideVars, faults>>

StopWhileBuilding ==
    /\ worker.pc \in {"build", "late"} /\ stop # "open"
    /\ GoTo("joining")
    /\ UNCHANGED <<rt, generation, buildVars, superVars, outsideVars, faults>>

StopJoinsBuild ==
    /\ worker.pc = "joining" /\ build.pc = "done"
    /\ GoTo(IF build.result # "panic" /\ stop = "sent" /\ worker.fenced
            THEN "planned" ELSE "unexpected")
    /\ build' = NoBuild
    /\ UNCHANGED <<rt, generation, permit, superVars, outsideVars, faults>>

-----------------------------------------------------------------------------
(* fail_closed, run by the monitor or by the supervisor: read, then fence    *)
(* against what was read, again if that has become stale.                    *)

FailClosedRead(f) ==
    /\ reads[f] = NoReadiness
    /\ ~Closed(rt)
    /\ reads' = [reads EXCEPT ![f] = Readiness(rt)]
    /\ UNCHANGED rt

\* TRUE when fail_closed is over for f after this step.
FailClosedFence(f, over) ==
    /\ reads[f] # NoReadiness
    /\ rt' = AfterFence(rt, reads[f], "SourceUnavailable")
    /\ reads' = [reads EXCEPT ![f] = NoReadiness]
    /\ over = (Readiness(rt) = reads[f])

FailClosedSeesClosed(f) ==
    /\ reads[f] = NoReadiness
    /\ Closed(rt)
    /\ UNCHANGED <<rt, reads>>

FailClosed(f, begun, over) ==
    \/ FailClosedRead(f) /\ begun
    \/ FailClosedFence(f, TRUE) /\ over
    \/ FailClosedFence(f, FALSE) /\ begun
    \/ FailClosedSeesClosed(f) /\ over

-----------------------------------------------------------------------------
(* The monitor. *)

\* A monitor that only waits for the coordinator to end.
MonitorTrustingExit ==
    /\ monitor = "waiting" /\ Exited
    /\ monitor' = "done"
    /\ UNCHANGED <<rt, workerVars, buildVars, stop, planned, sup, reads,
                   outsideVars, faults>>

\* Clean means a planned exit that the supervisor had planned.
MonitorJoins ==
    /\ monitor = "waiting" /\ Exited
    /\ monitor' = IF worker.pc = "planned" /\ planned THEN "done" ELSE "failing"
    /\ UNCHANGED <<rt, workerVars, buildVars, stop, planned, sup, reads,
                   outsideVars, faults>>

MonitorFailsClosed ==
    /\ monitor = "failing"
    /\ FailClosed("monitor", monitor' = "failing", monitor' = "done")
    /\ UNCHANGED <<workerVars, buildVars, stop, planned, sup, outsideVars,
                   faults>>

-----------------------------------------------------------------------------
(* The supervisor: startup_direct's background future and shutdown().       *)

\* The phase is seen; shutdown() finds begin_shutdown already begun.
SeeDraining ==
    /\ sup = "watching" /\ phase = "Draining"
    /\ sup' = "stopping" /\ planned' = TRUE
    /\ UNCHANGED <<rt, workerVars, buildVars, monitor, stop, reads, outsideVars,
                   faults>>

\* stop.send fails when the coordinator has already gone.
SendStop ==
    /\ sup = "stopping"
    /\ IF Exited THEN sup' = "failing" /\ UNCHANGED stop
                 ELSE sup' = "joining" /\ stop' = "sent"
    /\ UNCHANGED <<rt, workerVars, buildVars, monitor, planned, reads,
                   outsideVars, faults>>

SupervisorFailsClosed ==
    /\ sup = "failing"
    /\ FailClosed("supervisor", sup' = "failing", sup' = "joining")
    /\ UNCHANGED <<workerVars, buildVars, monitor, stop, planned, outsideVars,
                   faults>>

\* The stop is not joined before the readiness is examined.
ShutdownWithoutJoin ==
    /\ sup = "joining"
    /\ sup' = IF ~rt.ready /\ rt.cause = "Administrative" THEN "ok" ELSE "error"
    /\ UNCHANGED <<rt, workerVars, buildVars, monitor, stop, planned, reads,
                   outsideVars, faults>>

ShutdownReturns ==
    /\ sup = "joining" /\ monitor = "done"
    /\ sup' = IF ~rt.ready /\ rt.cause = "Administrative" THEN "ok" ELSE "error"
    /\ UNCHANGED <<rt, workerVars, buildVars, monitor, stop, planned, reads,
                   outsideVars, faults>>

\* Serving returned before shutdown() did: Drop of the armed supervisor.
SupervisorDropped ==
    /\ sup \in {"watching", "joining"}
    /\ sup' = "dropping"
    /\ UNCHANGED <<rt, workerVars, buildVars, monitor, stop, planned, reads,
                   outsideVars, faults>>

DropFailsClosed ==
    /\ sup = "dropping"
    /\ FailClosed("supervisor", sup' = "dropping" /\ UNCHANGED <<stop, monitor>>,
                  /\ sup' = "dropped"
                  /\ stop' = IF stop = "open" THEN "dropped" ELSE stop
                  /\ monitor' = IF monitor = "done" THEN "done" ELSE "aborted")
    /\ UNCHANGED <<workerVars, buildVars, planned, outsideVars, faults>>

\* worker_abort.abort() lands at the coordinator's next await.
AbortLands ==
    /\ sup = "dropped" /\ ~Exited
    /\ GoTo("aborted")
    /\ permit' \in IF worker.pc = "probing" THEN {"free", "cleanup"} ELSE {permit}
    /\ UNCHANGED <<rt, generation, build, superVars, outsideVars, faults>>

-----------------------------------------------------------------------------
Working ==
    Tick \/ ProbeBegins \/ ProbeEnds \/ StopAtTick \/ PublishBuild
         \/ RejectBuild \/ BuildPanicked \/ LateBuildJoined
         \/ StopWhileBuilding \/ StopJoinsBuild \/ AbortLands
Building == BuildAcquires \/ BuildObserves \/ BuildBinds
Failing == ProbeFails \/ ProbePanics \/ BuildFails \/ BuildTooLate \/ BuildTimeout
Supervising ==
    SeeDraining \/ SendStop \/ SupervisorFailsClosed \/ ShutdownReturns
                \/ DropFailsClosed

Next ==
    \/ AlterSchema \/ Signal \/ MarkAdministrative
    \/ Working \/ Building \/ Failing \/ CleanupEnds
    \/ MonitorJoins \/ MonitorFailsClosed
    \/ Supervising \/ SupervisorDropped

Spec == Init /\ [][Next]_vars

\* Tasks are polled and timers fire; a stop that has been sent is taken before
\* the loop's next tick (the selects are biased), whence its own fairness.
Fairness ==
    /\ WF_vars(Working) /\ WF_vars(Building) /\ WF_vars(CleanupEnds)
    /\ SF_vars(StopAtTick)
    /\ WF_vars(MonitorJoins) /\ WF_vars(MonitorFailsClosed)
    /\ WF_vars(Supervising) /\ WF_vars(MarkAdministrative)

FairSpec == Spec /\ Fairness

-----------------------------------------------------------------------------
(* Properties *)

(* While ready, the expectation the coordinator probes with is that of the *)
(* generation being served, so a probe never vouches for another one.      *)
ProbesWhatIsServed == rt.ready => rt.snap = generation

(* No native build is ever left to itself: while one runs, the coordinator *)
(* is waiting for it, through timeouts and a stop, unless it was aborted.  *)
BuildIsOwned ==
    BuildLive => worker.pc \in {"build", "late", "joining", "aborted"}

(* When the coordinator has ended in any way that was not both planned and *)
(* requested, the monitor leaves the runtime not ready for good.           *)
AbnormalExitFailsClosed ==
    monitor = "done" /\ ~(worker.pc = "planned" /\ planned) => ~rt.ready

(* shutdown() that reports success has joined the coordinator, left no     *)
(* native build behind, and the runtime is closed.                         *)
SuccessfulShutdownIsComplete ==
    sup = "ok" => Exited /\ ~BuildLive /\ Closed(rt)

(* Drift is noticed and repaired: once the source is left alone, the       *)
(* runtime comes to serve its current schema and keeps doing so, unless it *)
(* was closed or the coordinator has ended.                                *)
SettlesOnSource ==
    <>[](Closed(rt) \/ Exited \/ (rt.ready /\ rt.snap = schema))

(* Shutdown of the supervisor ends, whatever the coordinator was doing.    *)
ShutdownEnds ==
    phase = "Draining" ~> sup \in {"ok", "error", "dropped"}

(* A planned stop of a coordinator that did nothing wrong succeeds.        *)
PlannedShutdownSucceeds ==
    sup = "error" => worker.pc # "planned" \/ rt.cause = "StateRevisionExhausted"
=============================================================================
