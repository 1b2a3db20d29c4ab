-------------------------- MODULE AuthoredReloadProofs --------------------------
(***************************************************************************)
(* The authored reload, for every number of sources, every set of file     *)
(* contents and schemas, any number of changes and faults, and every       *)
(* counter width.                                                          *)
(***************************************************************************)
EXTENDS AuthoredReload, TLAPS

BuilderRecords ==
    [pc : BuildSteps \cup {"none", "done"}, seen : Seq(Observations),
     inputs : Inputs, token : Readinesses \cup {NoReadiness},
     verdict : Verdicts]

\* A builder observes the sources in order and offers a candidate only when it
\* has seen them all; it has a verdict exactly when it is done.
BuilderInv ==
    /\ builder \in BuilderRecords
    /\ Len(builder.seen) <= SourceCount
    /\ builder.pc = "observe" => Len(builder.seen) < SourceCount
    /\ builder.pc = "recapture" \/ builder.verdict = "candidate" =>
          Len(builder.seen) = SourceCount
    /\ builder.pc \in {"none", "capture", "parse"} => builder.seen = <<>>
    /\ builder.pc = "capture" => builder.inputs = baseline.inputs
    /\ builder.pc # "done" => builder.verdict = "none"
    /\ builder.pc # "none" => worker \in {"await", "late", "stopped"}

StateInv ==
    /\ rt \in RuntimeStates
    /\ rt.ready <=> rt.cause = NoCause
    /\ phase \in {"Running", "Draining"}
    /\ closing \in BOOLEAN /\ aborted \in BOOLEAN
    /\ world \in Generations /\ baseline \in Generations
    /\ worker \in {"tick", "acquire", "await", "late", "stopped"}
    /\ expected \in Readinesses \cup {NoReadiness}
    /\ outcome \in {"none", "published", "refused", "failed", "panicked"}
    /\ permit \in {"none", "free", "attempt", "cleanup"}
    /\ changes \in 0 .. MaxChanges /\ faults \in 0 .. MaxFaults
    /\ spare \in 0 .. MaxSpareAttempts

\* While an attempt is under way its token is of an open runtime, and current if
\* the runtime is still ready: nobody else publishes.
Attempting == worker \in {"acquire", "await", "late"} \/ builder.pc # "none"
TokenInv ==
    Attempting =>
        /\ expected \in Readinesses
        /\ ~Closed(expected)
        /\ rt.ready => Readiness(rt) = expected

\* A timed-out attempt has fenced.
LateInv == worker = "late" => ~rt.ready

IInv ==
    /\ StateInv /\ BuilderInv /\ TokenInv /\ LateInv
    /\ ServesBaseline /\ ObservedDriftFenced /\ FailedAttemptFences

-----------------------------------------------------------------------------
(* The transitions of the runtime. *)

\* Every move of the readiness is one the contract allows.
Allowed == Contract!Next \/ UNCHANGED Readiness(rt)

\* Readiness is typed and tells whether the runtime is closed.
LEMMA ReadinessTyped ==
    ASSUME NEW state \in RuntimeStates
    PROVE  /\ Readiness(state) \in Readinesses
           /\ Closed(Readiness(state)) <=> Closed(state)
           /\ Readiness(state).rev = state.rev
           /\ Readiness(state).id = state.id
           /\ Readiness(state).cause = state.cause
           /\ Readiness(state).ready = state.ready
    BY DEF Readiness, RuntimeStates, Readinesses, Closed

\* Becoming not ready takes the next revision, or closes at the last one.
LEMMA NotReadyTyped ==
    ASSUME NEW state \in RuntimeStates,
           NEW c \in ObservedCauses \cup ClosingCauses
    PROVE  LET next == NotReadyTransition(state, c)
           IN  /\ next \in RuntimeStates
               /\ ~next.ready /\ next.cause # NoCause
               /\ next.id = state.id
               /\ state.rev < MaxRevision => next.rev = state.rev + 1 /\ next.cause = c
               /\ ~(state.rev < MaxRevision) =>
                     /\ state.rev = MaxRevision /\ next.rev = state.rev
                     /\ next.cause = "StateRevisionExhausted"
    BY ReloadAssumption
    DEF NotReadyTransition, NotReadyState, RuntimeStates, Counter,
        ObservedCauses, ClosingCauses, NoCause

\* Both ways of closing are ways the contract knows.
LEMMA ContractCloses ==
    ASSUME rt \in RuntimeStates,
           \/ rt' = NotReadyTransition(rt, "Administrative")
           \/ rt.rev = MaxRevision
              /\ rt' = NotReadyState(rt.id, rt.rev, "StateRevisionExhausted")
    PROVE  Contract!Next
<1>1. rt.rev \in Nat /\ MaxRevision \in Nat /\ rt.rev <= MaxRevision
    BY ReloadAssumption DEF RuntimeStates, Counter
<1>2. CASE rt.rev < MaxRevision
    <2>1. rt' = NotReadyState(rt.id, rt.rev + 1, "Administrative")
        BY <1>1, <1>2 DEF NotReadyTransition
    <2>2. Readiness(rt)' = [ready |-> FALSE, id |-> rt.id, rev |-> rt.rev + 1,
                            cause |-> "Administrative"]
        BY <2>1 DEF Readiness, NotReadyState
    <2> QED BY <1>2, <2>2 DEF Contract!Next, Contract!Close, Readiness
<1>3. CASE rt.rev = MaxRevision
    <2>1. rt' = NotReadyState(rt.id, rt.rev, "StateRevisionExhausted")
        BY <1>1, <1>3 DEF NotReadyTransition
    <2>2. Readiness(rt)' = [ready |-> FALSE, id |-> rt.id, rev |-> rt.rev,
                            cause |-> "StateRevisionExhausted"]
        BY <2>1 DEF Readiness, NotReadyState
    <2> QED BY <1>3, <2>2 DEF Contract!Next, Contract!Close, Readiness
<1> QED BY <1>1, <1>2, <1>3

\* Closing administratively is allowed from everywhere, and closes.
LEMMA Closing ==
    ASSUME StateInv, rt' = NotReadyTransition(rt, "Administrative")
    PROVE  /\ rt' \in RuntimeStates /\ ~rt'.ready /\ rt'.cause # NoCause
           /\ Closed(rt)' /\ Allowed
<1>1. rt \in RuntimeStates BY DEF StateInv
<1>2. /\ rt' \in RuntimeStates /\ ~rt'.ready /\ rt'.cause # NoCause
      /\ Closed(rt')
    BY <1>1, NotReadyTyped DEF ClosingCauses, Closed
<1>3. rt.rev \in Nat /\ MaxRevision \in Nat /\ rt.rev <= MaxRevision
    BY <1>1, ReloadAssumption DEF RuntimeStates, Counter
<1>4. Contract!Next
    BY <1>1, <1>3, ContractCloses
<1> QED BY <1>2, <1>4 DEF Allowed

\* A fence of the current attempt leaves the runtime not ready, whether or not
\* the token was still current, and never reopens a closed one.
LEMMA Fencing ==
    ASSUME StateInv, TokenInv, Attempting, NEW cause \in ObservedCauses,
           Fenced(cause)
    PROVE  /\ rt' \in RuntimeStates /\ ~rt'.ready /\ rt'.cause # NoCause
           /\ expected' \in Readinesses /\ ~Closed(expected')
           /\ Allowed
<1>1. rt \in RuntimeStates /\ Readiness(rt) \in Readinesses
    BY ReadinessTyped DEF StateInv
<1>2. expected \in Readinesses /\ ~Closed(expected)
      /\ (rt.ready => Readiness(rt) = expected)
    BY DEF TokenInv
<1>3. rt.rev \in Nat /\ MaxRevision \in Nat /\ rt.rev <= MaxRevision
    BY <1>1, ReloadAssumption DEF RuntimeStates, Counter
<1>4. CASE Readiness(rt) # expected
    <2>1. rt' = rt /\ expected' = expected
        BY <1>4 DEF Fenced, AfterFence, FenceAccepted
    <2>2. ~rt.ready /\ rt.cause # NoCause BY <1>2, <1>4 DEF StateInv
    <2> QED BY <1>1, <1>2, <2>1, <2>2 DEF Allowed
<1>5. CASE Readiness(rt) = expected
    <2>1. rt' = NotReadyTransition(rt, cause)
        BY <1>5 DEF Fenced, AfterFence
    <2>2. /\ rt' \in RuntimeStates /\ ~rt'.ready /\ rt'.cause # NoCause
        BY <1>1, <2>1, NotReadyTyped
    <2>3. expected' \in Readinesses /\ ~Closed(expected')
        <3>1. CASE rt.rev < MaxRevision
            <4>1. expected' = Readiness(rt')
                BY <1>5, <3>1 DEF Fenced, FenceAccepted
            <4>2. rt'.cause = cause BY <1>1, <2>1, <3>1, NotReadyTyped
            <4>3. ~Closed(rt') BY <4>2 DEF Closed, ObservedCauses, ClosingCauses
            <4> QED BY <2>2, <4>1, <4>3, ReadinessTyped
        <3>2. CASE ~(rt.rev < MaxRevision)
            BY <1>2, <3>2 DEF Fenced, FenceAccepted
        <3> QED BY <3>1, <3>2
    <2>4. ~Closed(Readiness(rt)) BY <1>2, <1>5
    <2>5. Contract!Next
        <3>1. CASE rt.rev < MaxRevision
            BY <1>1, <2>1, <2>4, <3>1
            DEF Contract!Next, Contract!ReportObservation, Readiness,
                NotReadyTransition, NotReadyState, Closed, ClosingCauses,
                Contract!Closed, Contract!ClosingCauses,
                Contract!ObservedCauses, ObservedCauses
        <3>2. CASE rt.rev = MaxRevision
            BY <1>1, <1>3, <2>1, <3>2, ContractCloses
            DEF NotReadyTransition
        <3> QED BY <1>3, <3>1, <3>2
    <2> QED BY <2>2, <2>3, <2>5 DEF Allowed
<1> QED BY <1>4, <1>5

\* A publication serves the candidate, and the contract allows it.
LEMMA Publishing ==
    ASSUME StateInv, NEW token, CanPublish(rt, token),
           NEW g \in Generations, rt' = PublishedState(rt, g)
    PROVE  /\ rt' \in RuntimeStates /\ rt'.ready /\ rt'.cause = NoCause
           /\ rt'.snap = g /\ Allowed
<1>1. rt \in RuntimeStates BY DEF StateInv
<1>2. rt.id < MaxRevision /\ rt.rev < MaxRevision /\ ~Closed(Readiness(rt))
    BY DEF CanPublish
<1>3. /\ rt' \in RuntimeStates /\ rt'.ready /\ rt'.cause = NoCause
      /\ rt'.snap = g
    BY <1>1, <1>2, ReloadAssumption
    DEF PublishedState, ReadyState, RuntimeStates, Counter
<1>4. Contract!PublishNext
    BY <1>1, <1>2
    DEF Contract!PublishNext, Readiness, PublishedState, ReadyState, Closed,
        ClosingCauses, Contract!Closed, Contract!ClosingCauses,
        Contract!NoCause, NoCause
<1> QED BY <1>3, <1>4 DEF Allowed, Contract!Next

\* Between attempts the builder is well formed.
LEMMA NoBuilderTyped ==
    ASSUME world \in Generations
    PROVE  /\ NoBuilder \in BuilderRecords /\ NoBuilder.pc = "none"
           /\ NoBuilder.verdict = "none" /\ NoBuilder.seen = <<>>
           /\ Len(NoBuilder.seen) = 0
<1>1. \E f \in Inputs : TRUE BY DEF Generations
<1>2. (CHOOSE f \in Inputs : TRUE) \in Inputs BY <1>1
<1>3. <<>> \in Seq(Observations) OBVIOUS
<1> QED BY <1>2, <1>3 DEF NoBuilder, BuilderRecords, Verdicts

-----------------------------------------------------------------------------
\* The initial states satisfy the invariant.
LEMMA IInvInit == Init => IInv
<1> SUFFICES ASSUME Init PROVE IInv OBVIOUS
<1>1. world \in Generations /\ baseline = world /\ rt = InitialState(world)
    BY DEF Init
<1>2. /\ rt \in RuntimeStates /\ rt.ready /\ rt.cause = NoCause
      /\ rt.snap = world
    BY <1>1, ReloadAssumption
    DEF InitialState, ReadyState, RuntimeStates, Counter
<1>3. NoBuilder \in BuilderRecords /\ NoBuilder.pc = "none"
      /\ NoBuilder.verdict = "none" /\ NoBuilder.seen = <<>>
    BY <1>1, NoBuilderTyped
<1>4. StateInv
    <2>1. permit \in {"none", "free"} BY DEF Init
    <2>2. closing \in BOOLEAN /\ aborted \in BOOLEAN BY Zenon DEF Init
    <2>3. 0 \in 0 .. MaxChanges /\ 0 \in 0 .. MaxFaults /\ 0 \in 0 .. MaxSpareAttempts
        BY ReloadAssumption
    <2>4. (rt.ready <=> rt.cause = NoCause) BY <1>2
    <2> QED BY <1>1, <1>2, <2>1, <2>2, <2>3, <2>4 DEF Init, StateInv
<1>5. BuilderInv BY <1>3, ReloadAssumption DEF Init, BuilderInv
<1>6. TokenInv /\ LateInv BY <1>3 DEF Init, TokenInv, LateInv, Attempting
<1>7. ServesBaseline /\ ObservedDriftFenced /\ FailedAttemptFences
    BY <1>1, <1>2, <1>3
    DEF Init, ServesBaseline, ObservedDriftFenced, FailedAttemptFences
<1> QED BY <1>4, <1>5, <1>6, <1>7 DEF IInv

-----------------------------------------------------------------------------
(* The world and shutdown. *)

\* Files and sources change under the builder's eyes.
LEMMA WorldStep ==
    ASSUME IInv, Environment
    PROVE  IInv' /\ Allowed
<1>1. world' \in Generations
    <2>1. CASE EditFiles
        BY <2>1 DEF EditFiles, IInv, StateInv, Generations
    <2>2. CASE AlterSource
        <3>1. PICK t \in Sources, o \in Observations :
                 world' = [world EXCEPT !.obs[t] = o]
            BY <2>2 DEF AlterSource
        <3>2. world.obs \in [Sources -> Observations]
            BY DEF IInv, StateInv, Generations
        <3>3. [world.obs EXCEPT ![t] = o] \in [Sources -> Observations]
            BY <3>2
        <3>4. world' = [world EXCEPT !.obs = [world.obs EXCEPT ![t] = o]]
            BY <3>1
        <3> QED BY <3>3, <3>4 DEF IInv, StateInv, Generations
    <2> QED BY <2>1, <2>2 DEF Environment
<1>2. /\ changes' \in 0 .. MaxChanges
      /\ UNCHANGED <<runtimeVars, baseline, worker, aborted, attemptVars,
                     outcome, faults, spare>>
    BY ReloadAssumption DEF Environment, EditFiles, AlterSource, IInv, StateInv
<1>3. StateInv' BY <1>1, <1>2 DEF IInv, StateInv, runtimeVars, attemptVars
<1>4. BuilderInv' /\ TokenInv' /\ LateInv'
    BY <1>2 DEF IInv, BuilderInv, TokenInv, LateInv, Attempting, runtimeVars,
                attemptVars
<1>5. ServesBaseline' /\ ObservedDriftFenced' /\ FailedAttemptFences'
    BY <1>2 DEF IInv, ServesBaseline, ObservedDriftFenced, FailedAttemptFences,
                runtimeVars, attemptVars
<1> QED BY <1>2, <1>3, <1>4, <1>5 DEF IInv, Allowed, runtimeVars

\* Shutdown, in both its halves, and the end of the worker.
LEMMA ShutdownStep ==
    ASSUME IInv, Signal \/ MarkAdministrative \/ DropSupervisor \/ AbortWorker
    PROVE  IInv' /\ Allowed
<1>1. /\ UNCHANGED <<world, baseline, attemptVars, outcome, bounds>>
      /\ worker' = worker \/ worker' = "stopped"
    BY DEF Signal, MarkAdministrative, DropSupervisor, AbortWorker, WorkerEnds
<1>2. phase' \in {"Running", "Draining"}
    BY DEF IInv, StateInv, Signal, MarkAdministrative, DropSupervisor,
           AbortWorker, WorkerEnds, BeginShutdown
<1>3. closing' \in BOOLEAN /\ aborted' \in BOOLEAN
    BY Zenon DEF IInv, StateInv, Signal, MarkAdministrative, DropSupervisor,
                 AbortWorker, WorkerEnds, BeginShutdown
<1>4. \/ UNCHANGED rt
      \/ rt' = NotReadyTransition(rt, "Administrative")
    BY DEF Signal, MarkAdministrative, DropSupervisor, AbortWorker
<1>5. /\ rt' \in RuntimeStates /\ (rt'.ready <=> rt'.cause = NoCause)
      /\ rt'.ready => UNCHANGED rt
      /\ Closed(rt) => Closed(rt')
      /\ Allowed
    BY <1>4, Closing DEF IInv, StateInv, Allowed
<1>6. StateInv'
    BY <1>1, <1>2, <1>3, <1>5 DEF IInv, StateInv, attemptVars, bounds
<1>7. BuilderInv' /\ TokenInv' /\ LateInv'
    BY <1>1, <1>5
    DEF IInv, BuilderInv, TokenInv, LateInv, Attempting, attemptVars
<1>8. ServesBaseline' /\ ObservedDriftFenced' /\ FailedAttemptFences'
    BY <1>1, <1>5
    DEF IInv, ServesBaseline, ObservedDriftFenced, FailedAttemptFences,
        attemptVars
<1> QED BY <1>5, <1>6, <1>7, <1>8 DEF IInv


-----------------------------------------------------------------------------
(* The coordinator begins an attempt. *)

\* Ticks, starts and leftover cleanup.
LEMMA BeginStep ==
    ASSUME IInv, Tick \/ StartAttempt \/ CleanupEnds
    PROVE  IInv' /\ Allowed
<1>1. UNCHANGED <<rt, world, baseline, aborted, outcome, changes, faults>>
    BY DEF Tick, StartAttempt, CleanupEnds, bounds, runtimeVars
<1>2. rt \in RuntimeStates /\ Readiness(rt) \in Readinesses
      /\ (Closed(Readiness(rt)) <=> Closed(rt))
    BY ReadinessTyped DEF IInv, StateInv
<1>3. phase' \in {"Running", "Draining"}
    BY DEF IInv, StateInv, Tick, StartAttempt, CleanupEnds, WorkerEnds,
           BeginShutdown, runtimeVars
<1>4. closing' \in BOOLEAN
    BY Zenon DEF IInv, StateInv, Tick, StartAttempt, CleanupEnds, WorkerEnds,
                 BeginShutdown, runtimeVars
<1>5. CASE Tick
    <2>1. builder.pc = "none" /\ UNCHANGED <<builder, permit>>
        BY <1>5 DEF Tick, IInv, BuilderInv
    <2>2. \/ worker' = "stopped" /\ UNCHANGED <<expected, spare>>
          \/ worker' = "acquire" /\ expected' = Readiness(rt) /\ ~Closed(rt)
        BY <1>5 DEF Tick, WorkerEnds
    <2>3. spare' \in 0 .. MaxSpareAttempts
        <3>1. CASE Closed(rt)
            BY <1>5, <3>1 DEF Tick, IInv, StateInv
        <3>2. CASE ~Closed(rt) /\ Spare
            BY <1>5, <3>2, ReloadAssumption DEF Tick, IInv, StateInv
        <3>3. CASE ~Closed(rt) /\ ~Spare
            BY <1>5, <3>3 DEF Tick, IInv, StateInv
        <3> QED BY <3>1, <3>2, <3>3
    <2>4. StateInv'
        BY <1>1, <1>2, <1>3, <1>4, <2>1, <2>2, <2>3, <1>5
        DEF IInv, StateInv, Tick
    <2>5. BuilderInv' /\ TokenInv' /\ LateInv'
        BY <1>1, <1>2, <2>1, <2>2, <1>5
        DEF IInv, StateInv, BuilderInv, TokenInv, LateInv, Attempting, Tick
    <2>6. ServesBaseline' /\ ObservedDriftFenced' /\ FailedAttemptFences'
        BY <1>1, <2>1, <2>2, <1>5
        DEF IInv, ServesBaseline, ObservedDriftFenced, FailedAttemptFences, Tick
    <2> QED BY <1>1, <2>4, <2>5, <2>6 DEF IInv, Allowed
<1>6. CASE StartAttempt
    <2> DEFINE fresh == [NoBuilder EXCEPT !.pc = "capture",
                                          !.inputs = baseline.inputs]
    <2>1. UNCHANGED <<expected, spare>> /\ worker = "acquire" /\ builder.pc = "none"
        BY <1>6 DEF StartAttempt, bounds, IInv, BuilderInv
    <2>2. \/ worker' = "stopped" /\ UNCHANGED <<builder, permit>>
          \/ worker' = "await" /\ builder' = fresh
             /\ permit' \in {"attempt", "none"}
        BY <1>6 DEF StartAttempt, WorkerEnds
    <2>3. /\ fresh \in BuilderRecords /\ fresh.pc = "capture"
          /\ fresh.inputs = baseline.inputs /\ fresh.verdict = "none"
          /\ fresh.seen = <<>> /\ Len(fresh.seen) = 0
        <3>1. /\ NoBuilder \in BuilderRecords /\ NoBuilder.verdict = "none"
              /\ NoBuilder.seen = <<>> /\ Len(NoBuilder.seen) = 0
            BY NoBuilderTyped DEF IInv, StateInv
        <3>2. baseline.inputs \in Inputs BY DEF IInv, StateInv, Generations
        <3> QED BY <3>1, <3>2 DEF BuilderRecords, BuildSteps
    <2>4. StateInv'
        BY <1>1, <1>3, <1>4, <2>1, <2>2 DEF IInv, StateInv
    <2>5. BuilderInv'
        BY <1>1, <2>1, <2>2, <2>3, ReloadAssumption DEF IInv, BuilderInv
    <2>6. TokenInv' /\ LateInv'
        BY <1>1, <2>1, <2>2, <2>3 DEF IInv, TokenInv, LateInv, Attempting
    <2>7. ServesBaseline' /\ ObservedDriftFenced' /\ FailedAttemptFences'
        BY <1>1, <2>1, <2>2, <2>3
        DEF IInv, ServesBaseline, ObservedDriftFenced, FailedAttemptFences
    <2> QED BY <1>1, <2>4, <2>5, <2>6, <2>7 DEF IInv, Allowed
<1>7. CASE CleanupEnds
    <2>1. /\ permit' = "free"
          /\ UNCHANGED <<phase, closing, worker, expected, builder, spare>>
        BY <1>7 DEF CleanupEnds, runtimeVars, bounds
    <2>2. StateInv' BY <1>1, <2>1 DEF IInv, StateInv
    <2>3. BuilderInv' /\ TokenInv' /\ LateInv'
        BY <1>1, <2>1 DEF IInv, BuilderInv, TokenInv, LateInv, Attempting
    <2>4. ServesBaseline' /\ ObservedDriftFenced' /\ FailedAttemptFences'
        BY <1>1, <2>1
        DEF IInv, ServesBaseline, ObservedDriftFenced, FailedAttemptFences
    <2> QED BY <1>1, <2>2, <2>3, <2>4 DEF IInv, Allowed
<1> QED BY <1>5, <1>6, <1>7

-----------------------------------------------------------------------------
(* The builder. *)

\* What every step of the builder leaves alone, and what it may do to the
\* runtime: nothing, or a fence.
BuilderEffect ==
    /\ UNCHANGED <<phase, closing, world, baseline, worker, aborted, outcome,
                   changes, spare>>
    /\ permit' \in {permit, "cleanup", "free"}
    /\ faults' \in 0 .. MaxFaults
    /\ \/ UNCHANGED <<rt, expected>>
       \/ \E cause \in ObservedCauses : Fenced(cause)

\* A step of the builder with such an effect keeps the invariant.
LEMMA EffectKeeps ==
    ASSUME IInv, builder.pc # "none", BuilderEffect, BuilderInv',
           \/ ObservedDriftFenced' \/ ~rt'.ready
    PROVE  IInv' /\ Allowed
<1>1. Attempting /\ worker \in {"await", "late", "stopped"}
    BY DEF Attempting, IInv, BuilderInv
<1>2. CASE UNCHANGED <<rt, expected>>
    <2>1. StateInv' BY <1>2 DEF IInv, StateInv, BuilderEffect
    <2>2. TokenInv' /\ LateInv'
        BY <1>1, <1>2
        DEF IInv, TokenInv, LateInv, Attempting, BuilderEffect
    <2>3. ServesBaseline' /\ ObservedDriftFenced' /\ FailedAttemptFences'
        BY <1>1, <1>2
        DEF IInv, ServesBaseline, ObservedDriftFenced, FailedAttemptFences,
            BuilderEffect
    <2> QED BY <1>2, <2>1, <2>2, <2>3 DEF IInv, Allowed
<1>3. CASE \E cause \in ObservedCauses : Fenced(cause)
    <2>1. /\ rt' \in RuntimeStates /\ ~rt'.ready /\ rt'.cause # NoCause
          /\ expected' \in Readinesses /\ ~Closed(expected') /\ Allowed
        BY <1>1, <1>3, Fencing DEF IInv
    <2>2. StateInv' BY <2>1 DEF IInv, StateInv, BuilderEffect
    <2>3. TokenInv' /\ LateInv' BY <2>1 DEF TokenInv, LateInv
    <2>4. ServesBaseline' /\ ObservedDriftFenced' /\ FailedAttemptFences'
        BY <1>1, <2>1
        DEF ServesBaseline, ObservedDriftFenced, FailedAttemptFences,
            BuilderEffect
    <2> QED BY <2>1, <2>2, <2>3, <2>4 DEF IInv
<1> QED BY <1>2, <1>3 DEF BuilderEffect


\* A fence by the builder, and the builder after it.
LEMMA FenceAndGoEffect ==
    ASSUME IInv, builder.pc # "none", NEW b, NEW pc, NEW cause \in ObservedCauses,
           FenceAndGo(b, cause, pc)
    PROVE  /\ Fenced(cause) /\ ~rt'.ready
           /\ permit' \in {permit, "cleanup", "free"}
           /\ \/ builder' = [b EXCEPT !.pc = pc]
              \/ builder' = [b EXCEPT !.pc = "done", !.verdict = "SchemaDrift"]
<1>1. Attempting BY DEF Attempting
<1>2. ~rt'.ready
    BY <1>1, Fencing DEF IInv, FenceAndGo
<1> QED BY <1>2 DEF FenceAndGo, BuilderContinues, BuilderReturns

\* The capture compares the files with the baseline.
LEMMA CaptureStep == ASSUME IInv, Capture PROVE IInv' /\ Allowed
<1> DEFINE b == [builder EXCEPT !.inputs = world.inputs]
<1>1. /\ builder \in BuilderRecords /\ builder.pc = "capture"
      /\ builder.seen = <<>> /\ builder.verdict = "none"
      /\ worker \in {"await", "late", "stopped"}
    BY DEF Capture, IInv, BuilderInv
<1>2. /\ b \in BuilderRecords /\ b.pc = "capture" /\ b.seen = <<>>
      /\ b.verdict = "none" /\ b.inputs = world.inputs
    BY <1>1 DEF BuilderRecords, IInv, StateInv, Generations
<1>3. \/ /\ b.inputs # baseline.inputs
         /\ FenceAndGo(b, "SchemaDrift", "parse")
      \/ /\ b.inputs = baseline.inputs
         /\ BuilderContinues(b, "parse") /\ UNCHANGED <<rt, expected>>
    BY DEF Capture
<1>4. /\ permit' \in {permit, "cleanup", "free"}
      /\ \/ builder' = [b EXCEPT !.pc = "parse"]
         \/ builder' = [b EXCEPT !.pc = "done", !.verdict = "SchemaDrift"]
      /\ \/ UNCHANGED <<rt, expected>> /\ b.inputs = baseline.inputs
         \/ Fenced("SchemaDrift") /\ ~rt'.ready
    BY <1>1, <1>3, FenceAndGoEffect DEF BuilderContinues, ObservedCauses
<1>5. BuilderEffect
    BY <1>4 DEF BuilderEffect, Capture, bounds, IInv, StateInv, ObservedCauses
<1>6. BuilderInv'
    <2>1. /\ builder' \in BuilderRecords /\ builder'.seen = <<>>
          /\ \/ builder'.pc = "parse" /\ builder'.verdict = "none"
             \/ builder'.pc = "done" /\ builder'.verdict = "SchemaDrift"
        BY <1>2, <1>4 DEF BuilderRecords, BuildSteps, Verdicts, ObservedCauses
    <2>2. Len(builder'.seen) = 0 BY <2>1
    <2> QED BY <1>1, <1>5, <2>1, <2>2, ReloadAssumption
            DEF BuilderInv, BuilderEffect
<1>7. ObservedDriftFenced' \/ ~rt'.ready
    <2>1. builder'.inputs = b.inputs /\ builder'.seen = <<>>
        BY <1>2, <1>4 DEF BuilderRecords
    <2> QED BY <1>4, <1>5, <2>1 DEF ObservedDriftFenced, BuilderEffect
<1> QED BY <1>1, <1>5, <1>6, <1>7, EffectKeeps

\* Steps after which the builder has seen what it had seen before.
LEMMA SameSeenStep ==
    ASSUME IInv, Parse \/ Recapture \/ BuilderFails \/ BuilderPanics
    PROVE  IInv' /\ Allowed
<1>1. /\ builder \in BuilderRecords /\ BuilderLive
      /\ worker \in {"await", "late", "stopped"}
      /\ UNCHANGED <<rt, expected>>
    BY DEF Parse, Recapture, BuilderFails, BuilderPanics, IInv, BuilderInv,
           BuilderLive, BuildSteps, runtimeVars
<1>2. BuilderEffect
    <2>1. permit' \in {permit, "cleanup", "free"}
        BY DEF Parse, Recapture, BuilderFails, BuilderPanics, BuilderReturns,
               BuilderContinues
    <2>2. faults' \in 0 .. MaxFaults
        <3>1. faults \in 0 .. MaxFaults /\ MaxFaults \in Nat
            BY ReloadAssumption DEF IInv, StateInv
        <3>2. faults' = faults \/ (faults < MaxFaults /\ faults' = faults + 1)
            BY DEF Parse, Recapture, BuilderFails, BuilderPanics, bounds
        <3> QED BY <3>1, <3>2
    <2>3. UNCHANGED <<phase, closing, world, baseline, worker, aborted, outcome,
                      changes, spare>>
        BY DEF Parse, Recapture, BuilderFails, BuilderPanics, runtimeVars, bounds
    <2> QED BY <1>1, <2>1, <2>2, <2>3 DEF BuilderEffect
<1>3. PICK v \in Verdicts, t \in Readinesses \cup {NoReadiness} :
         \/ /\ builder.pc = "parse"
            /\ builder' = [builder EXCEPT !.pc = "observe"]
         \/ /\ v = "candidate" => builder.pc = "recapture"
            /\ builder' = [builder EXCEPT !.token = t, !.pc = "done", !.verdict = v]
    <2>0. [builder EXCEPT !.token = builder.token] = builder
        BY <1>1 DEF BuilderRecords
    <2>1. CASE Parse \/ BuilderFails \/ BuilderPanics
        <3>1. PICK v \in Verdicts :
                 \/ /\ builder.pc = "parse"
                    /\ builder' = [builder EXCEPT !.pc = "observe"]
                 \/ /\ v # "candidate"
                    /\ builder' = [builder EXCEPT !.pc = "done", !.verdict = v]
            BY <2>1
            DEF Parse, BuilderFails, BuilderPanics, BuilderReturns,
                BuilderContinues, Verdicts, ObservedCauses
        <3>2. builder.token \in Readinesses \cup {NoReadiness}
            BY <1>1 DEF BuilderRecords
        <3>3. [builder EXCEPT !.token = builder.token, !.pc = "done", !.verdict = v]
              = [builder EXCEPT !.pc = "done", !.verdict = v]
            BY <1>1 DEF BuilderRecords
        <3> QED BY <3>1, <3>2, <3>3
    <2>2. CASE Recapture
        <3>1. CASE world.inputs # builder.inputs
            <4>1. builder' = [builder EXCEPT !.pc = "done", !.verdict = "SchemaDrift"]
                BY <2>2, <3>1 DEF Recapture, BuilderReturns
            <4>2. builder' = [builder EXCEPT !.token = builder.token, !.pc = "done",
                                             !.verdict = "SchemaDrift"]
                BY <1>1, <4>1 DEF BuilderRecords
            <4> QED BY <1>1, <4>2 DEF BuilderRecords, Verdicts, ObservedCauses
        <3>2. CASE world.inputs = builder.inputs
            <4>1. builder' = [builder EXCEPT !.token = expected, !.pc = "done",
                                             !.verdict = "candidate"]
                BY <2>2, <3>2, <1>1 DEF Recapture, BuilderReturns, BuilderRecords
            <4>2. expected \in Readinesses \cup {NoReadiness}
                BY DEF IInv, StateInv
            <4> QED BY <2>2, <4>1, <4>2 DEF Verdicts, Recapture
        <3> QED BY <3>1, <3>2
    <2> QED BY <2>1, <2>2
<1>4. /\ builder' \in BuilderRecords
      /\ builder'.seen = builder.seen /\ builder'.inputs = builder.inputs
      /\ builder'.pc \in {"observe", "done"}
      /\ builder'.pc = "observe" => builder.pc = "parse" /\ builder'.verdict = "none"
      /\ builder'.verdict = "candidate" => builder.pc = "recapture"
    <2>1. builder.verdict = "none"
        BY <1>1 DEF IInv, BuilderInv, BuilderLive, BuildSteps
    <2> QED BY <1>1, <1>3, <2>1 DEF BuilderRecords, BuildSteps
<1>5. BuilderInv'
    BY <1>1, <1>2, <1>4, ReloadAssumption
    DEF IInv, BuilderInv, BuilderEffect, BuilderLive, BuildSteps
<1>6. ObservedDriftFenced'
    BY <1>1, <1>2, <1>4
    DEF IInv, BuilderInv, ObservedDriftFenced, BuilderEffect, BuilderLive,
        BuildSteps
<1> QED BY <1>1, <1>2, <1>5, <1>6, EffectKeeps DEF BuilderLive, BuildSteps

\* An observation extends what has been seen by the next source.
LEMMA ObserveStep == ASSUME IInv, Observe PROVE IInv' /\ Allowed
<1> DEFINE t == Len(builder.seen) + 1
           b == [builder EXCEPT !.seen = Append(builder.seen, world.obs[t])]
           pc == IF t = SourceCount THEN "recapture" ELSE "observe"
<1>1. /\ builder \in BuilderRecords /\ builder.pc = "observe"
      /\ builder.verdict = "none" /\ Len(builder.seen) < SourceCount
      /\ worker \in {"await", "late", "stopped"}
    BY DEF Observe, IInv, BuilderInv
<1>2. builder.seen \in Seq(Observations) /\ t \in Sources /\ Len(builder.seen) \in Nat
    BY <1>1, ReloadAssumption DEF BuilderRecords, Sources
<1>3. world.obs[t] \in Observations
    BY <1>2 DEF IInv, StateInv, Generations
<1>4. /\ Append(builder.seen, world.obs[t]) \in Seq(Observations)
      /\ Len(Append(builder.seen, world.obs[t])) = t
      /\ Append(builder.seen, world.obs[t])[t] = world.obs[t]
      /\ \A i \in 1 .. Len(builder.seen) :
            Append(builder.seen, world.obs[t])[i] = builder.seen[i]
    BY <1>2, <1>3
<1>5. /\ b \in BuilderRecords /\ b.pc = "observe" /\ b.verdict = "none"
      /\ b.seen = Append(builder.seen, world.obs[t])
      /\ b.inputs = builder.inputs
    BY <1>1, <1>4 DEF BuilderRecords
<1>6. /\ permit' \in {permit, "cleanup", "free"}
      /\ \/ builder' = [b EXCEPT !.pc = pc]
         \/ \E v \in ObservedCauses :
               builder' = [b EXCEPT !.pc = "done", !.verdict = v]
      /\ \/ UNCHANGED <<rt, expected>> /\ b.seen[t] = baseline.obs[t]
         \/ \E cause \in ObservedCauses : Fenced(cause) /\ ~rt'.ready
    <2>1. CASE baseline.obs[t].verified /\ ~b.seen[t].verified
        <3>1. Fenced("CapabilityDrift") /\ permit' \in {permit, "cleanup", "free"}
              /\ \E v \in ObservedCauses :
                    builder' = [b EXCEPT !.pc = "done", !.verdict = v]
            BY <2>1 DEF Observe, BuilderReturns, ObservedCauses
        <3>2. ~rt'.ready
            BY <1>1, <3>1, Fencing DEF Attempting, IInv, ObservedCauses
        <3> QED BY <3>1, <3>2 DEF ObservedCauses
    <2>2. CASE /\ ~(baseline.obs[t].verified /\ ~b.seen[t].verified)
               /\ b.seen[t] # baseline.obs[t]
        <3>1. FenceAndGo(b, "SchemaDrift", pc) BY <2>2 DEF Observe
        <3> QED BY <1>1, <3>1, FenceAndGoEffect DEF ObservedCauses
    <2>3. CASE /\ ~(baseline.obs[t].verified /\ ~b.seen[t].verified)
               /\ b.seen[t] = baseline.obs[t]
        BY <2>3 DEF Observe, BuilderContinues
    <2> QED BY <2>1, <2>2, <2>3
<1>7. BuilderEffect
    BY <1>6 DEF BuilderEffect, Observe, bounds, IInv, StateInv
<1>8. /\ builder' \in BuilderRecords /\ builder'.seen = b.seen
      /\ builder'.inputs = builder.inputs
      /\ \/ builder'.pc = pc /\ builder'.verdict = "none"
         \/ builder'.pc = "done" /\ builder'.verdict \in ObservedCauses
    BY <1>5, <1>6 DEF BuilderRecords, BuildSteps, Verdicts
<1>9. BuilderInv'
    BY <1>1, <1>2, <1>4, <1>5, <1>7, <1>8, ReloadAssumption
    DEF BuilderInv, BuilderEffect, ObservedCauses
<1>10. ObservedDriftFenced' \/ ~rt'.ready
    <2>1. DOMAIN b.seen = 1 .. t /\ DOMAIN builder.seen = 1 .. Len(builder.seen)
        BY <1>2, <1>4, <1>5
    <2>2. CASE rt'.ready
        <3>1. UNCHANGED <<rt, expected, baseline>> /\ b.seen[t] = baseline.obs[t]
            BY <1>6, <1>7, <2>2 DEF BuilderEffect
        <3>2. /\ builder.inputs = baseline.inputs
              /\ \A i \in DOMAIN builder.seen : builder.seen[i] = baseline.obs[i]
            BY <1>1, <2>2, <3>1 DEF IInv, ObservedDriftFenced
        <3>3. \A i \in 1 .. t : b.seen[i] = baseline.obs[i]
            <4> SUFFICES ASSUME NEW i \in 1 .. t PROVE b.seen[i] = baseline.obs[i]
                OBVIOUS
            <4>1. i = t \/ i \in 1 .. Len(builder.seen) BY <1>2
            <4> QED BY <1>4, <1>5, <2>1, <3>1, <3>2, <4>1
        <3> HIDE DEF b
        <3> QED BY <1>5, <1>8, <2>1, <3>1, <3>2, <3>3 DEF ObservedDriftFenced
    <2> QED BY <2>2
<1> QED BY <1>1, <1>7, <1>9, <1>10, EffectKeeps

-----------------------------------------------------------------------------
(* The end of an attempt. *)

\* Whatever ended the attempt, what holds between attempts holds again.
LEMMA EndKeeps ==
    ASSUME IInv, NEW result \in {"published", "refused", "failed", "panicked"},
           AttemptEnds(result),
           UNCHANGED <<phase, closing, world, aborted, permit, bounds>>,
           rt' \in RuntimeStates, rt'.ready <=> rt'.cause = NoCause,
           baseline' \in Generations, ServesBaseline',
           expected' \in Readinesses \cup {NoReadiness},
           result \in {"failed", "panicked"} => ~rt'.ready,
           result = "panicked" => Closed(rt')
    PROVE  IInv'
<1>1. /\ builder' = NoBuilder /\ builder'.pc = "none" /\ worker' = "tick"
      /\ outcome' = result
    BY NoBuilderTyped DEF AttemptEnds, IInv, StateInv
<1>2. StateInv' BY <1>1 DEF IInv, StateInv, bounds
<1>3. BuilderInv'
    BY <1>1, NoBuilderTyped, ReloadAssumption DEF BuilderInv, IInv, StateInv
<1>4. TokenInv' /\ LateInv' BY <1>1 DEF TokenInv, LateInv, Attempting
<1>5. ObservedDriftFenced' /\ FailedAttemptFences'
    BY <1>1 DEF ObservedDriftFenced, FailedAttemptFences
<1> QED BY <1>2, <1>3, <1>4, <1>5 DEF IInv

\* The four ways in which an attempt ends.
LEMMA FinishStep == ASSUME IInv, Finishing PROVE IInv' /\ Allowed
<1>1. CASE FinishWithCandidate
    <2>1. builder \in BuilderRecords /\ Len(builder.seen) = SourceCount
        BY <1>1 DEF FinishWithCandidate, IInv, BuilderInv
    <2>2. Candidate \in Generations
        <3>1. builder.seen \in Seq(Observations) /\ builder.inputs \in Inputs
            BY <2>1 DEF BuilderRecords
        <3>2. builder.seen \in [Sources -> Observations]
            BY <2>1, <3>1 DEF Sources
        <3> QED BY <3>1, <3>2 DEF Candidate, Generations
    <2>3. UNCHANGED <<phase, closing, world, aborted, expected, permit, bounds>>
        BY <1>1 DEF FinishWithCandidate
    <2>4. CASE CanPublish(rt, builder.token)
        <3>1. /\ rt' = PublishedState(rt, Candidate) /\ baseline' = Candidate
              /\ AttemptEnds("published")
            BY <1>1, <2>4 DEF FinishWithCandidate
        <3>2. /\ rt' \in RuntimeStates /\ rt'.ready /\ rt'.cause = NoCause
              /\ rt'.snap = Candidate /\ Allowed
            BY <2>2, <2>4, <3>1, Publishing DEF IInv
        <3> HIDE DEF Candidate
        <3>3. ServesBaseline' BY <3>1, <3>2 DEF ServesBaseline
        <3> QED BY <2>2, <2>3, <3>1, <3>2, <3>3, EndKeeps DEF IInv, StateInv
    <2>5. CASE ~CanPublish(rt, builder.token)
        <3>1. UNCHANGED <<rt, baseline>> /\ AttemptEnds("refused")
            BY <1>1, <2>5 DEF FinishWithCandidate
        <3>2. ServesBaseline' BY <3>1 DEF IInv, ServesBaseline
        <3> QED BY <2>3, <3>1, <3>2, EndKeeps DEF IInv, StateInv, Allowed
    <2> QED BY <2>4, <2>5
<1>2. CASE FinishRejected
    <2>1. Attempting /\ builder.verdict \in ObservedCauses
        BY <1>2 DEF FinishRejected, Attempting
    <2>2. Fenced(builder.verdict) /\ AttemptEnds("failed")
          /\ UNCHANGED <<phase, closing, world, baseline, aborted, permit, bounds>>
        BY <1>2 DEF FinishRejected
    <2>3. /\ rt' \in RuntimeStates /\ ~rt'.ready /\ rt'.cause # NoCause
          /\ expected' \in Readinesses /\ Allowed
        BY <2>1, <2>2, Fencing DEF IInv
    <2>4. ServesBaseline' BY <2>3 DEF ServesBaseline
    <2> QED BY <2>2, <2>3, <2>4, EndKeeps DEF IInv, StateInv
<1>3. CASE FinishPanicked
    <2>1. rt' = NotReadyTransition(rt, "Administrative") /\ AttemptEnds("panicked")
          /\ UNCHANGED <<phase, closing, world, baseline, aborted, expected,
                         permit, bounds>>
        BY <1>3 DEF FinishPanicked
    <2>2. /\ rt' \in RuntimeStates /\ ~rt'.ready /\ rt'.cause # NoCause
          /\ Closed(rt)' /\ Allowed
        BY <2>1, Closing DEF IInv
    <2>3. ServesBaseline' BY <2>2 DEF ServesBaseline
    <2> QED BY <2>1, <2>2, <2>3, EndKeeps DEF IInv, StateInv
<1>4. CASE FinishLate
    <2>1. AttemptEnds("failed") /\ ~rt.ready
          /\ UNCHANGED <<rt, phase, closing, world, baseline, aborted, expected,
                         permit, bounds>>
        BY <1>4 DEF FinishLate, IInv, LateInv, runtimeVars
    <2>2. ServesBaseline' BY <2>1 DEF ServesBaseline
    <2> QED BY <2>1, <2>2, EndKeeps DEF IInv, StateInv, Allowed
<1> QED BY <1>1, <1>2, <1>3, <1>4 DEF Finishing

\* The attempt's timeout.
LEMMA TimeoutStep == ASSUME IInv, Timeout PROVE IInv' /\ Allowed
<1>1. /\ Fenced("SourceUnavailable") /\ worker = "await" /\ worker' = "late"
      /\ UNCHANGED <<phase, closing, world, baseline, aborted, builder, outcome,
                     permit, changes, spare>>
    BY DEF Timeout
<1>2. /\ rt' \in RuntimeStates /\ ~rt'.ready /\ rt'.cause # NoCause
      /\ expected' \in Readinesses /\ ~Closed(expected') /\ Allowed
    BY <1>1, Fencing DEF IInv, Attempting, ObservedCauses
<1>3. faults' \in 0 .. MaxFaults
    <2>1. faults \in 0 .. MaxFaults /\ MaxFaults \in Nat
        BY ReloadAssumption DEF IInv, StateInv
    <2>2. faults < MaxFaults /\ faults' = faults + 1 BY DEF Timeout
    <2> QED BY <2>1, <2>2
<1>4. StateInv' BY <1>1, <1>2, <1>3 DEF IInv, StateInv
<1>5. BuilderInv' BY <1>1 DEF IInv, BuilderInv
<1>6. TokenInv' /\ LateInv' BY <1>2 DEF TokenInv, LateInv
<1>7. ServesBaseline' /\ ObservedDriftFenced' /\ FailedAttemptFences'
    BY <1>1, <1>2 DEF ServesBaseline, ObservedDriftFenced, FailedAttemptFences
<1> QED BY <1>2, <1>4, <1>5, <1>6, <1>7 DEF IInv

-----------------------------------------------------------------------------
\* The invariant is inductive, and every step is one the contract allows.
LEMMA IInvStep == IInv /\ [Next]_vars => IInv' /\ Allowed
<1> SUFFICES ASSUME IInv, [Next]_vars PROVE IInv' /\ Allowed OBVIOUS
<1>1. CASE UNCHANGED vars
    <2>1. StateInv' /\ BuilderInv' /\ TokenInv' /\ LateInv'
        BY <1>1
        DEF IInv, StateInv, BuilderInv, TokenInv, LateInv, Attempting, vars
    <2>2. ServesBaseline' /\ ObservedDriftFenced' /\ FailedAttemptFences'
        BY <1>1
        DEF IInv, ServesBaseline, ObservedDriftFenced, FailedAttemptFences, vars
    <2> QED BY <1>1, <2>1, <2>2 DEF IInv, Allowed, vars
<1>2. CASE Next
    BY <1>2, WorldStep, ShutdownStep, BeginStep, CaptureStep, SameSeenStep,
       ObserveStep, FinishStep, TimeoutStep
    DEF Next, Building
<1> QED BY <1>1, <1>2

\* It holds throughout.
LEMMA SpecIInv == Spec => []IInv
    BY IInvInit, IInvStep, PTL DEF Spec

(* Every variable keeps its type: a candidate is always a whole generation, *)
(* one observation per source, and no counter of the runtime overflows.     *)
THEOREM TypeCorrect == Spec => []TypeOK
<1>1. IInv => TypeOK
    <2> SUFFICES ASSUME IInv PROVE TypeOK OBVIOUS
    <2>1. builder \in BuilderRecords BY DEF IInv, BuilderInv
    <2>2. /\ builder.pc \in BuildSteps \cup {"none", "done"}
          /\ builder.inputs \in Inputs
          /\ \A i \in DOMAIN builder.seen : builder.seen[i] \in Observations
          /\ builder.token \in Readinesses \cup {NoReadiness}
          /\ builder.verdict \in Verdicts
        BY <2>1 DEF BuilderRecords
    <2>3. closing \in BOOLEAN /\ aborted \in BOOLEAN BY Zenon DEF IInv, StateInv
    <2> QED BY <2>2, <2>3 DEF IInv, StateInv, BuilderInv, TypeOK
<1> QED BY <1>1, SpecIInv, PTL

(* What the builder has seen to differ from the served generation already   *)
(* refuses new requests, also when its fence was refused as stale.          *)
THEOREM DriftFenced == Spec => []ObservedDriftFenced
<1>1. IInv => ObservedDriftFenced BY DEF IInv
<1> QED BY <1>1, SpecIInv, PTL

(* The baseline of the next observation is the generation being served.     *)
THEOREM BaselineServed == Spec => []ServesBaseline
<1>1. IInv => ServesBaseline BY DEF IInv
<1> QED BY <1>1, SpecIInv, PTL

(* A failed, late or panicked attempt leaves the runtime not ready.         *)
THEOREM FailuresFence == Spec => []FailedAttemptFences
<1>1. IInv => FailedAttemptFences BY DEF IInv
<1> QED BY <1>1, SpecIInv, PTL

(* The reload coordinator, its builder and shutdown together move readiness *)
(* only as the contract of the runtime allows.                              *)
THEOREM Refinement == Spec => ImplementsContract
<1>1. Init => Contract!Init
    BY DEF Init, Contract!Init, Readiness, InitialState, ReadyState,
           Contract!InitialState, Contract!ReadyState, Contract!Readiness,
           Contract!NoCause, NoCause
<1>2. IInv /\ [Next]_vars => [Contract!Next]_(Readiness(rt))
    BY IInvStep DEF Allowed
<1> QED BY <1>1, <1>2, SpecIInv, PTL DEF Spec, ImplementsContract, Contract!Spec

(* Neither an attempt nor shutdown reopens a runtime that has been closed.  *)
THEOREM ClosingFinal == Spec => [][Closed(rt) => Closed(rt)']_vars
<1>1. ASSUME IInv, [Next]_vars PROVE Closed(rt) => Closed(rt)'
    <2> SUFFICES ASSUME Closed(rt) PROVE Closed(rt)' OBVIOUS
    <2>2. /\ Closed(Readiness(rt)) <=> Closed(rt)
          /\ Closed(Readiness(rt)') <=> Closed(rt)'
        BY DEF Readiness, Closed
    <2>3. Contract!Closed(Readiness(rt))
        BY <2>2 DEF Closed, Contract!Closed, ClosingCauses, Contract!ClosingCauses
    <2>4. Allowed BY <1>1, IInvStep
    <2>5. CASE UNCHANGED Readiness(rt) BY <2>2, <2>5
    <2>6. CASE Contract!Next
        <3>1. Contract!Close
            BY <2>3, <2>6
            DEF Contract!Next, Contract!PublishNext, Contract!ReportObservation
        <3>2. Closed(Readiness(rt)')
            BY <3>1 DEF Contract!Close, Closed, ClosingCauses
        <3> QED BY <2>2, <3>2
    <2> QED BY <2>4, <2>5, <2>6 DEF Allowed
<1> QED BY <1>1, SpecIInv, PTL DEF Spec
=============================================================================
