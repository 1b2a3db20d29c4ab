------------------------- MODULE DirectLifecycleProofs -------------------------
(***************************************************************************)
(* The Direct lifecycle, for every set of schemas, any number of changes   *)
(* and faults, and every counter width; and that the rest of the server    *)
(* may read its runtime as ReadinessContract says.                         *)
(***************************************************************************)
EXTENDS DirectLifecycle, TLAPS

RuntimeInv ==
    /\ rt \in RuntimeStates
    /\ rt.ready <=> rt.cause = NoCause
    /\ generation \in Snapshots /\ schema \in Snapshots
    /\ ProbesWhatIsServed

Idle == {"tick", "probe", "probing"}
WorkerRecords ==
    [pc : Idle \cup {"build", "late", "joining"} \cup Exits,
     token : Readinesses \cup {NoReadiness}, fenced : BOOLEAN]
BuildRecords ==
    [pc : BuildSteps \cup {"none", "done"}, seen : Snapshots \cup {NoSnapshot},
     result : ObservedCauses \cup {"none", "candidate", "panic"}]

\* There is a build only while the coordinator waits for it, or was aborted
\* waiting; it has a result only when it is done, and a candidate has a schema.
BuildInv ==
    /\ worker \in WorkerRecords
    /\ build \in BuildRecords
    /\ build.pc # "none" => worker.pc \in {"build", "late", "joining", "aborted"}
    /\ build.pc # "done" => build.result = "none"
    /\ build.pc = "bind" \/ build.result = "candidate" => build.seen \in Snapshots

\* Only a dropped supervisor aborts; the monitor acts only on an ended
\* coordinator, and what anybody fences against was read from an open runtime.
EndInv ==
    /\ worker.pc = "aborted" => sup = "dropped"
    /\ monitor \in {"failing", "done"} => Exited
    /\ sup = "ok" => monitor = "done" /\ Closed(rt)
    /\ reads \in [Failers -> Readinesses \cup {NoReadiness}]
    /\ \A f \in Failers : reads[f] # NoReadiness => ~Closed(reads[f])
    /\ AbnormalExitFailsClosed

IInv == RuntimeInv /\ BuildInv /\ EndInv

-----------------------------------------------------------------------------
\* The initial states satisfy the invariant.
LEMMA IInvInit == Init => IInv
<1> SUFFICES ASSUME Init PROVE IInv OBVIOUS
<1>1. /\ rt \in RuntimeStates /\ rt.ready /\ rt.cause = NoCause
      /\ rt.snap = InitialSnapshot
    BY ActivationAssumption, DirectAssumption
    DEF Init, InitialState, ReadyState, RuntimeStates, Counter
<1>2. RuntimeInv
    BY <1>1, DirectAssumption DEF Init, RuntimeInv, ProbesWhatIsServed
<1>3. BuildInv
    BY DEF Init, BuildInv, NoBuild, WorkerRecords, BuildRecords, Idle, BuildSteps
<1>4. EndInv BY DEF Init, EndInv, AbnormalExitFailsClosed, Exited, Exits
<1> QED BY <1>2, <1>3, <1>4 DEF IInv

\* Moving to not ready keeps the runtime well formed, and closed once closed.
LEMMA NotReadyTyped ==
    ASSUME NEW state \in RuntimeStates,
           NEW c \in ObservedCauses \cup ClosingCauses
    PROVE  LET next == NotReadyTransition(state, c)
           IN  /\ next \in RuntimeStates
               /\ ~next.ready /\ next.cause # NoCause
               /\ next.cause \in {c, "StateRevisionExhausted"}
    BY ActivationAssumption
    DEF NotReadyTransition, NotReadyState, RuntimeStates, Counter,
        ObservedCauses, ClosingCauses, NoCause

\* A readiness is typed, and tells whether the runtime is closed.
LEMMA ReadinessTyped ==
    ASSUME NEW state \in RuntimeStates
    PROVE  /\ Readiness(state) \in Readinesses /\ Readiness(state) # NoReadiness
           /\ Closed(Readiness(state)) <=> Closed(state)
    BY ActivationAssumption DEF Readiness, RuntimeStates, Readinesses, Closed

\* A fence against whatever was read, current or stale.
LEMMA Fencing ==
    ASSUME RuntimeInv, NEW token, NEW cause \in ObservedCauses,
           rt' = AfterFence(rt, token, cause), UNCHANGED <<generation, schema>>
    PROVE  /\ RuntimeInv'
           /\ rt'.ready => rt' = rt
           /\ Readiness(rt) = token => ~rt'.ready
           /\ ~Closed(token) /\ Closed(rt) => Closed(rt)'
<1>1. rt \in RuntimeStates BY DEF RuntimeInv
<1>2. CASE Readiness(rt) # token
    BY <1>1, <1>2 DEF AfterFence, RuntimeInv, ProbesWhatIsServed
<1>3. CASE Readiness(rt) = token
    <2>1. rt' = NotReadyTransition(rt, cause) BY <1>3 DEF AfterFence
    <2>2. rt' \in RuntimeStates /\ ~rt'.ready /\ rt'.cause # NoCause
        BY <1>1, <2>1, NotReadyTyped
    <2>3. Closed(token) <=> Closed(rt) BY <1>1, <1>3, ReadinessTyped
    <2> QED BY <2>2, <2>3 DEF RuntimeInv, ProbesWhatIsServed
<1> QED BY <1>2, <1>3

-----------------------------------------------------------------------------
(* The coordinator. *)

\* A step of a coordinator that has not ended cannot disturb what the monitor
\* and the supervisor rely on after its end.
LEMMA RunningKeepsEnd ==
    ASSUME IInv, ~Exited, UNCHANGED <<monitor, sup, reads>>,
           worker'.pc = "aborted" => sup = "dropped"
    PROVE  EndInv'
    BY DEF IInv, EndInv, AbnormalExitFailsClosed

\* What a coordinator may do with its build as it moves on.
LEMMA MovingOn ==
    ASSUME IInv, NEW pc \in Idle \cup {"build", "late", "joining"} \cup Exits,
           GoTo(pc)
    PROVE  worker' \in WorkerRecords /\ worker'.pc = pc
    BY DEF IInv, BuildInv, WorkerRecords, GoTo

\* A coordinator that has taken the result has no build.
LEMMA NoBuildKeeps ==
    ASSUME worker' \in WorkerRecords, build' = NoBuild
    PROVE  BuildInv'
    BY DEF BuildInv, NoBuild, BuildRecords, BuildSteps

\* Probes, and builds whose result is not used.
LEMMA ReportStep ==
    ASSUME IInv, ProbeBegins \/ ProbeEnds \/ ProbeFails \/ RejectBuild \/ BuildTooLate
    PROVE  IInv'
<1>1. /\ worker.pc \in Idle \cup {"build"}
      /\ UNCHANGED <<generation, monitor, sup, reads, schema>>
    BY DEF ProbeBegins, ProbeEnds, ProbeFails, RejectBuild, BuildTooLate, Idle,
           superVars, outsideVars
<1>2. \/ \E pc \in Idle : GoTo(pc) /\ UNCHANGED rt
      \/ \E cause \in ObservedCauses : ReportFailure(cause)
    BY DEF ProbeBegins, ProbeEnds, ProbeFails, RejectBuild, BuildTooLate, Idle,
           ObservedCauses
<1>3. \E pc \in Idle \cup {"unexpected"} : GoTo(pc)
    BY <1>2 DEF ReportFailure, Idle
<1>4. RuntimeInv'
    <2>1. CASE UNCHANGED rt
        BY <1>1, <2>1 DEF IInv, RuntimeInv, ProbesWhatIsServed
    <2>2. CASE \E cause \in ObservedCauses : ReportFailure(cause)
        BY <1>1, <2>2, Fencing DEF IInv, ReportFailure, TransitionFailure
    <2> QED BY <1>2, <2>1, <2>2
<1>5. worker' \in WorkerRecords /\ worker'.pc \in Idle \cup {"unexpected"}
    BY <1>3, MovingOn DEF Exits
<1>6. BuildInv'
    <2>1. CASE RejectBuild \/ BuildTooLate
        BY <1>5, <2>1, NoBuildKeeps DEF RejectBuild, BuildTooLate
    <2>2. CASE ProbeBegins \/ ProbeEnds \/ ProbeFails
        <3>1. build.pc = "none" /\ UNCHANGED build
            BY <2>2 DEF ProbeBegins, ProbeEnds, ProbeFails, IInv, BuildInv
        <3> QED BY <1>5, <3>1 DEF IInv, BuildInv
    <2> QED BY <2>1, <2>2
<1>7. EndInv'
    BY <1>1, <1>5, RunningKeepsEnd DEF Exited, Exits, Idle
<1> QED BY <1>4, <1>6, <1>7 DEF IInv

\* The deadline of a build leaves the build with the coordinator.
LEMMA TimeoutStep == ASSUME IInv, BuildTimeout PROVE IInv'
<1>1. /\ worker.pc = "build" /\ TransitionFailure("SourceUnavailable")
      /\ worker' = [worker EXCEPT !.pc = "late", !.fenced = ~FailureRefused]
      /\ UNCHANGED <<generation, build, monitor, sup, reads, schema>>
    BY DEF BuildTimeout, superVars, outsideVars
<1>2. RuntimeInv'
    BY <1>1, Fencing DEF IInv, TransitionFailure, ObservedCauses
<1>3. (~FailureRefused) \in BOOLEAN OBVIOUS
<1>4. worker' \in WorkerRecords /\ worker'.pc = "late"
    BY <1>1, <1>3, Zenon DEF IInv, BuildInv, WorkerRecords
<1>5. BuildInv' BY <1>1, <1>4 DEF IInv, BuildInv
<1>6. EndInv' BY <1>1, <1>4, RunningKeepsEnd DEF Exited, Exits
<1> QED BY <1>2, <1>5, <1>6 DEF IInv

\* A publication moves the served generation and the expectation together.
LEMMA PublishStep == ASSUME IInv, PublishBuild PROVE IInv'
<1>1. /\ worker.pc = "build" /\ build' = NoBuild /\ build.seen \in Snapshots
      /\ UNCHANGED <<monitor, sup, reads, schema>>
    BY DEF PublishBuild, superVars, outsideVars, IInv, BuildInv
<1>2. \E pc \in {"tick", "unexpected"} : GoTo(pc) BY DEF PublishBuild
<1>3. worker' \in WorkerRecords /\ worker'.pc \in {"tick", "unexpected"}
    BY <1>2, MovingOn DEF Idle, Exits
<1>4. RuntimeInv'
    <2>1. CASE CanPublish(rt, worker.token)
        <3>1. rt' = PublishedState(rt, build.seen) /\ generation' = build.seen
            BY <2>1 DEF PublishBuild
        <3>2. /\ rt' \in RuntimeStates /\ rt'.ready /\ rt'.cause = NoCause
              /\ rt'.snap = build.seen
            BY <1>1, <2>1, <3>1, ActivationAssumption
            DEF IInv, RuntimeInv, CanPublish, PublishedState, ReadyState,
                RuntimeStates, Counter
        <3> QED BY <1>1, <3>1, <3>2 DEF IInv, RuntimeInv, ProbesWhatIsServed
    <2>2. CASE ~CanPublish(rt, worker.token)
        BY <1>1, <2>2 DEF PublishBuild, IInv, RuntimeInv, ProbesWhatIsServed
    <2> QED BY <2>1, <2>2
<1>5. BuildInv' BY <1>1, <1>3, NoBuildKeeps
<1>6. EndInv' BY <1>1, <1>3, RunningKeepsEnd DEF Exited, Exits
<1> QED BY <1>4, <1>5, <1>6 DEF IInv

\* A tick starts a probe or a build, by what it read.
LEMMA TickStep == ASSUME IInv, Tick PROVE IInv'
<1>1. /\ worker.pc = "tick" /\ build.pc = "none"
      /\ UNCHANGED <<rt, generation, monitor, sup, reads, schema>>
    BY DEF Tick, superVars, outsideVars, IInv, BuildInv
<1>2. Readiness(rt) \in Readinesses
    BY ReadinessTyped DEF IInv, RuntimeInv
<1>3. /\ worker' \in WorkerRecords /\ worker'.pc \in {"probe", "build"}
      /\ worker'.pc = "build" <=> ~rt.ready
    BY <1>2 DEF Tick, WorkerRecords, Idle
<1>4. RuntimeInv' BY <1>1 DEF IInv, RuntimeInv, ProbesWhatIsServed
<1>5. BuildInv'
    BY <1>1, <1>3
    DEF Tick, IInv, BuildInv, NoBuild, BuildRecords, BuildSteps
<1>6. EndInv' BY <1>1, <1>3, RunningKeepsEnd DEF Exited, Exits
<1> QED BY <1>4, <1>5, <1>6 DEF IInv

\* Stops, panics, joins and aborts.
LEMMA MoveStep ==
    ASSUME IInv,
           \/ ProbePanics \/ StopAtTick \/ BuildPanicked \/ LateBuildJoined
           \/ StopWhileBuilding \/ StopJoinsBuild \/ AbortLands
    PROVE  IInv'
<1>1. /\ worker.pc \in Idle \cup {"build", "late", "joining"}
      /\ UNCHANGED <<rt, generation, monitor, sup, reads, schema>>
    BY DEF ProbePanics, StopAtTick, BuildPanicked, LateBuildJoined,
           StopWhileBuilding, StopJoinsBuild, AbortLands, Idle, superVars,
           outsideVars, buildVars, IInv, BuildInv, WorkerRecords, Exited
<1>2. RuntimeInv' BY <1>1 DEF IInv, RuntimeInv, ProbesWhatIsServed
<1>3. PICK pc \in {"tick", "joining"} \cup Exits :
         /\ GoTo(pc)
         /\ pc = "aborted" => sup = "dropped"
         /\ \/ build' = NoBuild
            \/ UNCHANGED build /\ (build.pc = "none" \/ pc \in {"joining", "aborted"})
    BY DEF ProbePanics, StopAtTick, BuildPanicked, LateBuildJoined,
           StopWhileBuilding, StopJoinsBuild, AbortLands, Exits, buildVars,
           IInv, BuildInv
<1>4. worker' \in WorkerRecords /\ worker'.pc = pc
    BY <1>3, MovingOn DEF Idle
<1>5. BuildInv'
    <2>1. CASE build' = NoBuild BY <1>4, <2>1, NoBuildKeeps
    <2>2. CASE UNCHANGED build /\ (build.pc = "none" \/ pc \in {"joining", "aborted"})
        BY <1>4, <2>2 DEF IInv, BuildInv
    <2> QED BY <1>3, <2>1, <2>2
<1>6. EndInv'
    BY <1>1, <1>3, <1>4, RunningKeepsEnd DEF Exited, Exits, Idle
<1> QED BY <1>2, <1>5, <1>6 DEF IInv

-----------------------------------------------------------------------------
(* The build task. *)

\* The build task keeps to itself.
LEMMA BuildStep == ASSUME IInv, Building \/ BuildFails PROVE IInv'
<1>1. /\ UNCHANGED <<rt, generation, worker, monitor, planned, sup, reads, schema>>
      /\ build.pc \in BuildSteps
    BY DEF Building, BuildFails, BuildAcquires, BuildObserves, BuildBinds,
           workerVars, superVars, outsideVars, BuildSteps
<1>2. /\ build' \in BuildRecords /\ build'.pc # "none"
      /\ build'.pc # "done" => build'.result = "none"
      /\ build'.pc = "bind" \/ build'.result = "candidate" => build'.seen \in Snapshots
    <2> USE DEF IInv, BuildInv, BuildRecords, BuildSteps, BuildReturns,
                ObservedCauses
    <2>1. CASE BuildAcquires BY <2>1 DEF BuildAcquires
    <2>2. CASE BuildObserves BY <2>2 DEF BuildObserves, RuntimeInv
    <2>3. CASE BuildBinds BY <2>3 DEF BuildBinds
    <2>4. CASE BuildFails BY <2>4 DEF BuildFails
    <2> QED BY <2>1, <2>2, <2>3, <2>4 DEF Building
<1>3. RuntimeInv' BY <1>1 DEF IInv, RuntimeInv, ProbesWhatIsServed
<1>4. BuildInv' BY <1>1, <1>2 DEF IInv, BuildInv, BuildSteps
<1>5. EndInv'
    BY <1>1 DEF IInv, EndInv, AbnormalExitFailsClosed, Exited
<1> QED BY <1>3, <1>4, <1>5 DEF IInv

-----------------------------------------------------------------------------
(* The source, shutdown, the monitor and the supervisor. *)

\* Steps that disturb neither coordinator nor build.
LEMMA OutsideStep ==
    ASSUME IInv,
           \/ AlterSchema \/ Signal \/ MarkAdministrative \/ CleanupEnds
           \/ MonitorJoins \/ SeeDraining \/ SendStop \/ ShutdownReturns
           \/ SupervisorDropped
    PROVE  IInv'
<1>1. UNCHANGED <<worker, generation, build, reads>> /\ schema' \in Snapshots
    BY DEF AlterSchema, Signal, MarkAdministrative, CleanupEnds, MonitorJoins,
           SeeDraining, SendStop, ShutdownReturns, SupervisorDropped,
           workerVars, buildVars, superVars, outsideVars, IInv, RuntimeInv
<1>2. rt' = rt \/ rt' = NotReadyTransition(rt, "Administrative")
    BY DEF AlterSchema, Signal, MarkAdministrative, CleanupEnds, MonitorJoins,
           SeeDraining, SendStop, ShutdownReturns, SupervisorDropped
<1>3. RuntimeInv' /\ (rt'.ready => rt' = rt) /\ (Closed(rt) => Closed(rt)')
    <2>1. CASE rt' = rt
        BY <1>1, <2>1 DEF IInv, RuntimeInv, ProbesWhatIsServed
    <2>2. CASE rt' = NotReadyTransition(rt, "Administrative")
        <3>1. /\ rt' \in RuntimeStates /\ ~rt'.ready /\ rt'.cause # NoCause
              /\ rt'.cause \in ClosingCauses
            BY <2>2, NotReadyTyped DEF IInv, RuntimeInv, ClosingCauses
        <3> QED BY <1>1, <3>1 DEF IInv, RuntimeInv, ProbesWhatIsServed, Closed
    <2> QED BY <1>2, <2>1, <2>2
<1>4. BuildInv' BY <1>1 DEF IInv, BuildInv
<1>5. /\ sup' = "dropped" <=> sup = "dropped"
      /\ sup' = "ok" => \/ sup = "ok" /\ monitor' = monitor
                        \/ monitor' = "done" /\ Closed(rt) /\ rt' = rt
      /\ monitor' = monitor \/ (Exited /\ monitor = "waiting" /\
            (monitor' = "failing" \/ (worker.pc = "planned" /\ planned)))
    <2> USE DEF superVars, outsideVars
    <2>1. CASE AlterSchema \/ Signal \/ MarkAdministrative \/ CleanupEnds
        BY <2>1 DEF AlterSchema, Signal, MarkAdministrative, CleanupEnds
    <2>2. CASE MonitorJoins
        BY <2>2 DEF MonitorJoins, IInv, EndInv
    <2>3. CASE SeeDraining \/ SendStop \/ SupervisorDropped
        BY <2>3 DEF SeeDraining, SendStop, SupervisorDropped
    <2>4. CASE ShutdownReturns
        BY <2>4 DEF ShutdownReturns, Closed, ClosingCauses
    <2> QED BY <2>1, <2>2, <2>3, <2>4
<1>6. planned => planned'
    BY DEF AlterSchema, Signal, MarkAdministrative, CleanupEnds, MonitorJoins,
           SeeDraining, SendStop, ShutdownReturns, SupervisorDropped,
           superVars
<1>7. EndInv'
    BY <1>1, <1>3, <1>5, <1>6 DEF IInv, EndInv, AbnormalExitFailsClosed, Exited
<1> QED BY <1>3, <1>4, <1>7 DEF IInv

\* fail_closed, by the monitor, the supervisor or its drop.
LEMMA FailClosedStep ==
    ASSUME IInv, MonitorFailsClosed \/ SupervisorFailsClosed \/ DropFailsClosed
    PROVE  IInv'
<1>1. UNCHANGED <<worker, generation, build, schema, planned>>
    BY DEF MonitorFailsClosed, SupervisorFailsClosed, DropFailsClosed,
           workerVars, buildVars, outsideVars
<1> DEFINE Ended(f, over) ==
              \/ FailClosedRead(f) /\ ~over
              \/ FailClosedFence(f, over)
              \/ FailClosedSeesClosed(f) /\ over
           Told(over) ==
              /\ monitor' = "done" => monitor = "done" \/ (over /\ monitor = "failing")
              /\ monitor' = "failing" => monitor = "failing"
              /\ sup' # "ok" \/ (sup = "ok" /\ monitor' = monitor)
              /\ sup = "dropped" => sup' = "dropped"
<1>2. PICK f \in Failers, over \in BOOLEAN : Ended(f, over) /\ Told(over)
    <2>1. CASE MonitorFailsClosed
        <3>1. /\ monitor = "failing" /\ UNCHANGED sup
              /\ FailClosed("monitor", monitor' = "failing", monitor' = "done")
            BY <2>1 DEF MonitorFailsClosed
        <3>2. sup # "ok" BY <3>1 DEF IInv, EndInv
        <3>3. \/ Ended("monitor", FALSE) /\ monitor' = "failing"
              \/ Ended("monitor", TRUE) /\ monitor' = "done"
            BY <3>1 DEF FailClosed
        <3>4. \/ Ended("monitor", FALSE) /\ Told(FALSE)
              \/ Ended("monitor", TRUE) /\ Told(TRUE)
            BY <3>1, <3>2, <3>3
        <3> HIDE DEF Ended, Told
        <3> QED BY <3>4 DEF Failers
    <2>2. CASE SupervisorFailsClosed
        <3>1. /\ sup = "failing" /\ UNCHANGED monitor
              /\ FailClosed("supervisor", sup' = "failing", sup' = "joining")
            BY <2>2 DEF SupervisorFailsClosed
        <3>2. \/ Ended("supervisor", FALSE) /\ sup' = "failing"
              \/ Ended("supervisor", TRUE) /\ sup' = "joining"
            BY <3>1 DEF FailClosed
        <3>3. \/ Ended("supervisor", FALSE) /\ Told(FALSE)
              \/ Ended("supervisor", TRUE) /\ Told(TRUE)
            BY <3>1, <3>2 DEF IInv, EndInv
        <3> HIDE DEF Ended, Told
        <3> QED BY <3>3 DEF Failers
    <2>3. CASE DropFailsClosed
        <3>1. /\ sup = "dropping"
              /\ FailClosed("supervisor",
                            sup' = "dropping" /\ UNCHANGED <<stop, monitor>>,
                            /\ sup' = "dropped"
                            /\ stop' = IF stop = "open" THEN "dropped" ELSE stop
                            /\ monitor' = IF monitor = "done" THEN "done"
                                                              ELSE "aborted")
            BY <2>3 DEF DropFailsClosed
        <3>2. \/ Ended("supervisor", FALSE) /\ sup' = "dropping" /\ UNCHANGED monitor
              \/ /\ Ended("supervisor", TRUE) /\ sup' = "dropped"
                 /\ monitor' = IF monitor = "done" THEN "done" ELSE "aborted"
            BY <3>1 DEF FailClosed
        <3>3. \/ Ended("supervisor", FALSE) /\ Told(FALSE)
              \/ Ended("supervisor", TRUE) /\ Told(TRUE)
            BY <3>1, <3>2
        <3> HIDE DEF Ended, Told
        <3> QED BY <3>3 DEF Failers
    <2> QED BY <2>1, <2>2, <2>3
<1>3. /\ RuntimeInv' /\ (rt'.ready => rt' = rt) /\ (Closed(rt) => Closed(rt)')
      /\ over => ~rt'.ready
      /\ reads' \in [Failers -> Readinesses \cup {NoReadiness}]
      /\ \A g \in Failers : reads'[g] # NoReadiness => ~Closed(reads'[g])
    <2>1. rt \in RuntimeStates /\ reads \in [Failers -> Readinesses \cup {NoReadiness}]
          /\ \A g \in Failers : reads[g] # NoReadiness => ~Closed(reads[g])
        BY DEF IInv, RuntimeInv, EndInv
    <2>2. CASE FailClosedRead(f) /\ ~over
        <3>1. Readiness(rt) \in Readinesses /\ ~Closed(Readiness(rt))
            BY <2>1, <2>2, ReadinessTyped DEF FailClosedRead
        <3> QED BY <1>1, <2>1, <2>2, <3>1
                DEF FailClosedRead, IInv, RuntimeInv, ProbesWhatIsServed
    <2>3. CASE FailClosedFence(f, over)
        <3>1. /\ rt' = AfterFence(rt, reads[f], "SourceUnavailable")
              /\ ~Closed(reads[f]) /\ over = (Readiness(rt) = reads[f])
            BY <2>1, <2>3 DEF FailClosedFence
        <3>2. /\ RuntimeInv' /\ (rt'.ready => rt' = rt)
              /\ (Closed(rt) => Closed(rt)') /\ (over => ~rt'.ready)
            BY <1>1, <3>1, Fencing DEF IInv, ObservedCauses
        <3> QED BY <2>1, <2>3, <3>2 DEF FailClosedFence
    <2>4. CASE FailClosedSeesClosed(f) /\ over
        BY <1>1, <2>1, <2>4
        DEF FailClosedSeesClosed, IInv, RuntimeInv, ProbesWhatIsServed, Closed
    <2> QED BY <1>2, <2>2, <2>3, <2>4
<1>4. BuildInv' BY <1>1 DEF IInv, BuildInv
<1>5. EndInv'
    BY <1>1, <1>2, <1>3 DEF IInv, EndInv, AbnormalExitFailsClosed, Exited
<1> QED BY <1>3, <1>4, <1>5 DEF IInv

-----------------------------------------------------------------------------
\* The invariant is inductive.
LEMMA IInvStep == IInv /\ [Next]_vars => IInv'
<1> SUFFICES ASSUME IInv, [Next]_vars PROVE IInv' OBVIOUS
<1>1. CASE UNCHANGED vars
    BY <1>1
    DEF vars, workerVars, buildVars, superVars, IInv, RuntimeInv, BuildInv, EndInv,
        ProbesWhatIsServed, AbnormalExitFailsClosed, Exited
<1>2. CASE Next
    BY <1>2, ReportStep, TimeoutStep, PublishStep, TickStep, MoveStep, BuildStep,
       OutsideStep, FailClosedStep
    DEF Next, Working, Failing, Supervising
<1> QED BY <1>1, <1>2

\* It holds throughout.
LEMMA SpecIInv == Spec => []IInv
    BY IInvInit, IInvStep, PTL DEF Spec

(* A probe is always of the generation being served.                        *)
THEOREM ProbesServed == Spec => []ProbesWhatIsServed
<1>1. IInv => ProbesWhatIsServed BY DEF IInv, RuntimeInv
<1> QED BY <1>1, SpecIInv, PTL

(* Native builds are always waited for, through timeouts and a stop, unless *)
(* the coordinator was aborted.                                             *)
THEOREM BuildsOwned == Spec => []BuildIsOwned
<1>1. IInv => BuildIsOwned
    BY DEF IInv, BuildInv, BuildIsOwned, BuildLive, BuildSteps
<1> QED BY <1>1, SpecIInv, PTL

(* However the coordinator ends abnormally, once the monitor is done the    *)
(* runtime is not ready, and nobody publishes any more.                     *)
THEOREM AbnormalExitsFailClosed == Spec => []AbnormalExitFailsClosed
<1>1. IInv => AbnormalExitFailsClosed BY DEF IInv, EndInv
<1> QED BY <1>1, SpecIInv, PTL

(* A shutdown() that reports success has left nothing running or open.      *)
THEOREM SuccessComplete == Spec => []SuccessfulShutdownIsComplete
<1>1. IInv => SuccessfulShutdownIsComplete
    BY DEF IInv, EndInv, BuildInv, SuccessfulShutdownIsComplete, Exited, Exits,
           BuildLive, BuildSteps
<1> QED BY <1>1, SpecIInv, PTL

-----------------------------------------------------------------------------
(* The rest of the server reads the runtime as ReadinessContract describes   *)
(* it, whichever lifecycle drives it.                                        *)

Contract == INSTANCE ReadinessContract WITH readiness <- Readiness(rt)

\* The coordinator acts on a readiness it read while the runtime was open.
TokenOpen == worker.token # NoReadiness => ~Closed(worker.token)

Allowed == Contract!Next \/ UNCHANGED Readiness(rt)

LEMMA TokenOpenStep == ASSUME IInv, TokenOpen, [Next]_vars PROVE TokenOpen'
<1>1. worker'.token = worker.token \/ Tick
    <2>1. worker = [pc |-> worker.pc, token |-> worker.token,
                    fenced |-> worker.fenced]
        BY DEF IInv, BuildInv, WorkerRecords
    <2>2. \A pc : GoTo(pc) => worker'.token = worker.token
        BY <2>1 DEF GoTo
    <2>3. CASE BuildTimeout BY <2>1, <2>3 DEF BuildTimeout
    <2>4. CASE UNCHANGED worker BY <2>4
    <2>5. CASE \/ ProbeBegins \/ ProbeEnds \/ ProbeFails \/ ProbePanics
               \/ StopAtTick \/ PublishBuild \/ RejectBuild \/ BuildTooLate
               \/ BuildPanicked \/ LateBuildJoined \/ StopWhileBuilding
               \/ StopJoinsBuild \/ AbortLands
        <3>1. \E pc : GoTo(pc)
            BY <2>5
            DEF ProbeBegins, ProbeEnds, ProbeFails, ProbePanics, StopAtTick,
                PublishBuild, RejectBuild, BuildTooLate, BuildPanicked,
                LateBuildJoined, StopWhileBuilding, StopJoinsBuild, AbortLands,
                ReportFailure
        <3> QED BY <2>2, <3>1
    <2>6. CASE ~(\/ ProbeBegins \/ ProbeEnds \/ ProbeFails \/ ProbePanics
                 \/ StopAtTick \/ PublishBuild \/ RejectBuild \/ BuildTooLate
                 \/ BuildPanicked \/ LateBuildJoined \/ StopWhileBuilding
                 \/ StopJoinsBuild \/ AbortLands \/ BuildTimeout \/ Tick)
        <3>1. UNCHANGED worker
            BY <2>6
            DEF Next, Working, Failing, Supervising, Building, vars, workerVars,
                AlterSchema, Signal, MarkAdministrative, BuildAcquires,
                BuildObserves, BuildBinds, BuildFails, CleanupEnds, MonitorJoins,
                MonitorFailsClosed, SeeDraining, SendStop, SupervisorFailsClosed,
                ShutdownReturns, SupervisorDropped, DropFailsClosed
        <3> QED BY <3>1
    <2> QED BY <2>3, <2>5, <2>6
<1>2. CASE worker'.token = worker.token BY <1>2 DEF TokenOpen
<1>3. CASE Tick
    <2>1. worker'.token = Readiness(rt) /\ ~Closed(rt) BY <1>3 DEF Tick
    <2>2. ~Closed(Readiness(rt))
        BY <2>1, ReadinessTyped DEF IInv, RuntimeInv
    <2> QED BY <2>1, <2>2 DEF TokenOpen
<1> QED BY <1>1, <1>2, <1>3

\* Becoming not ready is closing, or reporting from an open runtime.
LEMMA NotReadyAllowed ==
    ASSUME rt \in RuntimeStates, NEW c \in ObservedCauses \cup {"Administrative"},
           c \in ObservedCauses => ~Closed(Readiness(rt)),
           rt' = NotReadyTransition(rt, c)
    PROVE  Contract!Next
<1>1. rt.rev \in Nat /\ MaxRevision \in Nat /\ rt.rev <= MaxRevision
    BY ActivationAssumption DEF RuntimeStates, Counter
<1>2. CASE rt.rev < MaxRevision
    <2>1. Readiness(rt)' = [ready |-> FALSE, id |-> rt.id, rev |-> rt.rev + 1,
                            cause |-> c]
        BY <1>2 DEF NotReadyTransition, Readiness, NotReadyState
    <2>2. Readiness(rt).rev = rt.rev /\ Readiness(rt).id = rt.id
        BY DEF Readiness
    <2>3. CASE c = "Administrative"
        BY <1>2, <2>1, <2>2, <2>3 DEF Contract!Next, Contract!Close
    <2>4. CASE c \in ObservedCauses
        <3>1. ~Contract!Closed(Readiness(rt)) /\ c \in Contract!ObservedCauses
            BY <2>4 DEF Contract!Closed, Contract!ClosingCauses, Closed,
                        ClosingCauses, Contract!ObservedCauses, ObservedCauses
        <3> QED BY <1>2, <2>1, <2>2, <3>1
                DEF Contract!Next, Contract!ReportObservation
    <2> QED BY <2>3, <2>4
<1>3. CASE rt.rev = MaxRevision
    <2>1. Readiness(rt)' = [ready |-> FALSE, id |-> rt.id, rev |-> rt.rev,
                            cause |-> "StateRevisionExhausted"]
        <3>1. ~(rt.rev < MaxRevision) BY <1>1, <1>3
        <3>2. rt' = NotReadyState(rt.id, rt.rev, "StateRevisionExhausted")
            BY <3>1 DEF NotReadyTransition
        <3> QED BY <3>2 DEF Readiness, NotReadyState
    <2> QED BY <1>3, <2>1 DEF Contract!Next, Contract!Close, Readiness
<1> QED BY <1>1, <1>2, <1>3

\* A fence against something that was open, or against nothing.
LEMMA FencingAllowed ==
    ASSUME rt \in RuntimeStates, NEW token, NEW cause \in ObservedCauses,
           token # NoReadiness => ~Closed(token),
           rt' = AfterFence(rt, token, cause)
    PROVE  Allowed
<1>1. CASE Readiness(rt) = token
    <2>1. ~Closed(Readiness(rt)) BY <1>1, ReadinessTyped
    <2>2. rt' = NotReadyTransition(rt, cause) BY <1>1 DEF AfterFence
    <2> QED BY <2>1, <2>2, NotReadyAllowed DEF Allowed
<1>2. CASE Readiness(rt) # token
    <2>1. rt' = rt BY <1>2 DEF AfterFence
    <2> QED BY <2>1 DEF Allowed
<1> QED BY <1>1, <1>2

\* A publication that is accepted is of the next activation and revision.
LEMMA PublishingAllowed ==
    ASSUME rt \in RuntimeStates, NEW s, CanPublish(rt, worker.token),
           rt' = PublishedState(rt, s)
    PROVE  Contract!Next
<1>1. rt.id < MaxRevision /\ rt.rev < MaxRevision /\ ~Closed(Readiness(rt))
    BY DEF CanPublish
<1>2. Contract!PublishNext
    BY <1>1
    DEF Contract!PublishNext, Readiness, PublishedState, ReadyState, Closed,
        ClosingCauses, Contract!Closed, Contract!ClosingCauses,
        Contract!NoCause, NoCause
<1> QED BY <1>2 DEF Contract!Next

\* Every step of the lifecycle is a step of the contract, or a stutter.
LEMMA EveryStepAllowed == ASSUME IInv, TokenOpen, [Next]_vars PROVE Allowed
<1>1. rt \in RuntimeStates BY DEF IInv, RuntimeInv
<1>2. CASE UNCHANGED rt BY <1>2 DEF Allowed
<1>3. CASE MarkAdministrative
    BY <1>1, <1>3, NotReadyAllowed
    DEF MarkAdministrative, Allowed, ObservedCauses
<1>4. CASE \E cause \in ObservedCauses : TransitionFailure(cause)
    BY <1>1, <1>4, FencingAllowed DEF TransitionFailure, TokenOpen
<1>5. CASE \E f \in Failers : FailClosedFence(f, TRUE) \/ FailClosedFence(f, FALSE)
    <2>1. PICK f \in Failers : rt' = AfterFence(rt, reads[f], "SourceUnavailable")
        BY <1>5 DEF FailClosedFence
    <2>2. reads[f] # NoReadiness => ~Closed(reads[f]) BY DEF IInv, EndInv
    <2> QED BY <1>1, <2>1, <2>2, FencingAllowed DEF ObservedCauses
<1>6. CASE PublishBuild /\ CanPublish(rt, worker.token)
    BY <1>1, <1>6, PublishingAllowed DEF PublishBuild, Allowed
<1>7. \/ UNCHANGED rt \/ MarkAdministrative
      \/ \E cause \in ObservedCauses : TransitionFailure(cause)
      \/ \E f \in Failers : FailClosedFence(f, TRUE) \/ FailClosedFence(f, FALSE)
      \/ PublishBuild /\ CanPublish(rt, worker.token)
    <2>1. CASE UNCHANGED vars BY <2>1 DEF vars
    <2>2. CASE AlterSchema \/ Signal \/ MarkAdministrative
        BY <2>2 DEF AlterSchema, Signal
    <2>3. CASE \/ ProbeBegins \/ ProbeEnds \/ ProbeFails \/ RejectBuild
               \/ BuildTooLate \/ BuildTimeout
        BY <2>3 DEF ProbeBegins, ProbeEnds, ProbeFails, RejectBuild,
                    BuildTooLate, BuildTimeout, ReportFailure, ObservedCauses
    <2>4. CASE \/ Tick \/ ProbePanics \/ StopAtTick \/ BuildPanicked
               \/ LateBuildJoined \/ StopWhileBuilding \/ StopJoinsBuild
               \/ AbortLands
        BY <2>4 DEF Tick, ProbePanics, StopAtTick, BuildPanicked,
                    LateBuildJoined, StopWhileBuilding, StopJoinsBuild, AbortLands
    <2>5. CASE Building \/ BuildFails \/ CleanupEnds
        BY <2>5 DEF Building, BuildFails, CleanupEnds, BuildAcquires,
                    BuildObserves, BuildBinds
    <2>6. CASE \/ MonitorJoins \/ SeeDraining \/ SendStop \/ ShutdownReturns
               \/ SupervisorDropped
        BY <2>6 DEF MonitorJoins, SeeDraining, SendStop, ShutdownReturns,
                    SupervisorDropped
    <2>7. CASE PublishBuild BY <2>7 DEF PublishBuild
    <2>8. CASE MonitorFailsClosed
        BY <2>8 DEF MonitorFailsClosed, FailClosed, FailClosedRead,
                    FailClosedSeesClosed, Failers
    <2>9. CASE SupervisorFailsClosed
        BY <2>9 DEF SupervisorFailsClosed, FailClosed, FailClosedRead,
                    FailClosedSeesClosed, Failers
    <2>10. CASE DropFailsClosed
        BY <2>10 DEF DropFailsClosed, FailClosed, FailClosedRead,
                     FailClosedSeesClosed, Failers
    <2> QED BY <2>1, <2>2, <2>3, <2>4, <2>5, <2>6, <2>7, <2>8, <2>9, <2>10
            DEF Next, Working, Failing, Supervising
<1> QED BY <1>2, <1>3, <1>4, <1>5, <1>6, <1>7

(* Whatever the coordinator, its monitor and its supervisor do, readiness   *)
(* moves only by publishing the next activation, by reporting what was      *)
(* observed of an open runtime, or by closing it, and a closed runtime      *)
(* never publishes or reports again.                                        *)
THEOREM ReadinessIsAsContracted == Spec => Contract!Spec
<1>1. Init => Contract!Init
    BY DEF Init, Contract!Init, Readiness, InitialState, ReadyState,
           Contract!InitialState, Contract!ReadyState, Contract!Readiness,
           Contract!NoCause, NoCause
<1>2. Init => TokenOpen BY DEF Init, TokenOpen
<1>3. IInv /\ TokenOpen /\ [Next]_vars => TokenOpen' BY TokenOpenStep
<1>4. IInv /\ TokenOpen /\ [Next]_vars => [Contract!Next]_(Readiness(rt))
    BY EveryStepAllowed DEF Allowed
<1> QED BY <1>1, <1>2, <1>3, <1>4, SpecIInv, PTL DEF Spec, Contract!Spec

(* No step of any of them reopens a runtime that has been closed.           *)
THEOREM ClosingFinal == Spec => [][Closed(rt) => Closed(rt)']_vars
<1>1. ASSUME IInv, TokenOpen, [Next]_vars PROVE Closed(rt) => Closed(rt)'
    <2> SUFFICES ASSUME Closed(rt) PROVE Closed(rt)' OBVIOUS
    <2>2. /\ Closed(Readiness(rt)) <=> Closed(rt)
          /\ Closed(Readiness(rt)') <=> Closed(rt)'
        BY DEF Readiness, Closed
    <2>3. Contract!Closed(Readiness(rt))
        BY <2>2 DEF Closed, Contract!Closed, ClosingCauses, Contract!ClosingCauses
    <2>4. Allowed BY <1>1, EveryStepAllowed
    <2>5. CASE UNCHANGED Readiness(rt) BY <2>2, <2>5
    <2>6. CASE Contract!Next
        <3>1. Contract!Close
            BY <2>3, <2>6
            DEF Contract!Next, Contract!PublishNext, Contract!ReportObservation
        <3>2. Closed(Readiness(rt)')
            BY <3>1 DEF Contract!Close, Closed, ClosingCauses
        <3> QED BY <2>2, <3>2
    <2> QED BY <2>4, <2>5, <2>6 DEF Allowed
<1>2. Init => TokenOpen BY DEF Init, TokenOpen
<1>3. IInv /\ TokenOpen /\ [Next]_vars => TokenOpen' BY TokenOpenStep
<1> QED BY <1>1, <1>2, <1>3, SpecIInv, PTL DEF Spec

-----------------------------------------------------------------------------
(* Types. *)

\* What the invariant leaves out.
OtherTypes ==
    /\ phase \in {"Running", "Draining"} /\ closing \in BOOLEAN
    /\ permit \in {"free", "held", "cleanup"}
    /\ monitor \in {"waiting", "failing", "done", "aborted"}
    /\ stop \in {"open", "sent", "dropped"} /\ planned \in BOOLEAN
    /\ sup \in {"watching", "stopping", "failing", "joining", "ok", "error",
                "dropping", "dropped"}
    /\ changes \in 0 .. MaxChanges /\ faults \in 0 .. MaxFaults

LEMMA OtherTypesStep == ASSUME OtherTypes, [Next]_vars PROVE OtherTypes'
<1> USE DEF OtherTypes, superVars, outsideVars, workerVars, buildVars
<1>0. MaxChanges \in Nat /\ MaxFaults \in Nat BY DirectAssumption
<1>1. CASE UNCHANGED vars BY <1>1 DEF vars
<1>2. CASE AlterSchema \/ Signal \/ MarkAdministrative
    <2>1. CASE AlterSchema
        <3>1. changes' \in 0 .. MaxChanges BY <1>0, <2>1 DEF AlterSchema
        <3> QED BY <2>1, <3>1 DEF AlterSchema
    <2>2. CASE Signal \/ MarkAdministrative
        BY <2>2 DEF Signal, MarkAdministrative
    <2> QED BY <1>2, <2>1, <2>2
<1>3. CASE Working
    BY <1>3
    DEF Working, Tick, ProbeBegins, ProbeEnds, StopAtTick, PublishBuild,
        RejectBuild, BuildPanicked, LateBuildJoined, StopWhileBuilding,
        StopJoinsBuild, AbortLands
<1>4. CASE Building \/ CleanupEnds
    BY <1>4 DEF Building, CleanupEnds, BuildAcquires, BuildObserves, BuildBinds
<1>5. CASE Failing
    BY <1>0, <1>5
    DEF Failing, ProbeFails, ProbePanics, BuildFails, BuildTooLate, BuildTimeout
<1>6. CASE MonitorJoins \/ SeeDraining \/ SendStop \/ ShutdownReturns \/ SupervisorDropped
    BY <1>6
    DEF MonitorJoins, SeeDraining, SendStop, ShutdownReturns, SupervisorDropped
<1>7. CASE MonitorFailsClosed
    BY <1>7 DEF MonitorFailsClosed, FailClosed
<1>8. CASE SupervisorFailsClosed
    BY <1>8 DEF SupervisorFailsClosed, FailClosed
<1>9. CASE DropFailsClosed
    BY <1>9 DEF DropFailsClosed, FailClosed
<1> QED BY <1>1, <1>2, <1>3, <1>4, <1>5, <1>6, <1>7, <1>8, <1>9
        DEF Next, Supervising

(* Whatever is interleaved, the lifecycle's state stays well formed; no     *)
(* counter of the runtime leaves its range.                                 *)
THEOREM TypeCorrect == Spec => []TypeOK
<1>0. MaxChanges \in Nat /\ MaxFaults \in Nat BY DirectAssumption
<1>1. Init => OtherTypes
    <2>1. 0 \in 0 .. MaxChanges /\ 0 \in 0 .. MaxFaults BY <1>0
    <2> QED BY <2>1 DEF Init, OtherTypes
<1>2. OtherTypes /\ [Next]_vars => OtherTypes' BY OtherTypesStep
<1>3. IInv /\ OtherTypes => TypeOK
    BY DEF IInv, RuntimeInv, BuildInv, EndInv, OtherTypes, TypeOK,
           WorkerRecords, BuildRecords, Idle
<1> QED BY <1>1, <1>2, <1>3, SpecIInv, PTL DEF Spec
=============================================================================
