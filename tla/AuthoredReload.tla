---------------------------- MODULE AuthoredReload ----------------------------
(***************************************************************************)
(* The authored-generation reload of crates/sf-serve/src/reload.rs and     *)
(* reload/baseline.rs: one coordinator task that wakes up every interval,  *)
(* one blocking builder per attempt that captures the semantic files,      *)
(* observes the sources in order, fences what it finds changed, and hands  *)
(* a candidate back; a 60 s attempt timeout; panics; shutdown; and the     *)
(* control permit a verified attempt owns.  The files and the sources      *)
(* change while the builder reads them.                                    *)
(***************************************************************************)
EXTENDS Integers, Sequences

CONSTANTS NoSnapshot, NoReadiness, MaxRevision,
          SourceCount,      \* configured sources, observed in this order
          Inputs,           \* the semantic files' possible contents
          InvalidInputs,    \* the contents that do not parse
          Tables,           \* the normalised schemas a source may show
          VerifiedModes,    \* the values of opts.require_verified_generation
          MaxChanges,       \* bound: edits of files and sources
          MaxFaults,        \* bound: failed steps, panics and timeouts
          MaxSpareAttempts  \* bound: attempts begun with nothing to repair, or
                            \* while the world cannot be served

Sources == 1 .. SourceCount
Observations == [tables : Tables, verified : BOOLEAN]
\* What a candidate is built from, and what a Baseline remembers of it.
Generations == [inputs : Inputs, obs : [Sources -> Observations]]

INSTANCE ActivationState WITH Snapshots <- Generations

ASSUME ReloadAssumption ==
    /\ MaxRevision \in Nat \ {0}
    /\ NoSnapshot \notin Generations /\ NoReadiness \notin Readinesses
    /\ SourceCount \in Nat \ {0}
    /\ InvalidInputs \subseteq Inputs
    /\ VerifiedModes \subseteq BOOLEAN
    /\ {MaxChanges, MaxFaults, MaxSpareAttempts} \subseteq Nat

VARIABLES
    rt,        \* RuntimeManager.state
    phase,     \* ShutdownPhase: "Running" or "Draining"
    closing,   \* begin_shutdown has moved the phase and not yet closed rt
    world,     \* the files and the sources as they are now
    baseline,  \* the coordinator's Arc<Baseline>
    worker,    \* where the coordinator task is
    aborted,   \* the Supervisor was dropped
    expected,  \* Attempt.expected
    builder,   \* the blocking builder of the current attempt
    outcome,   \* how the last finished attempt ended
    permit,    \* config.control_work: none in the ordinary mode, else free,
               \* with the attempt, or with native cleanup that outlived it
    changes, faults, spare

vars == <<rt, phase, closing, world, baseline, worker, aborted, expected,
          builder, outcome, permit, changes, faults, spare>>

runtimeVars == <<rt, phase, closing>>
attemptVars == <<expected, builder, permit>>
bounds      == <<changes, faults, spare>>

\* opts.require_verified_generation
Gated == permit # "none"

BuildSteps == {"capture", "parse", "observe", "recapture"}
Verdicts   == ObservedCauses \cup {"none", "candidate", "panic"}

NoBuilder == [pc |-> "none", seen |-> <<>>, inputs |-> CHOOSE f \in Inputs : TRUE,
              token |-> NoReadiness, verdict |-> "none"]

TypeOK ==
    /\ rt \in RuntimeStates
    /\ phase \in {"Running", "Draining"}
    /\ closing \in BOOLEAN /\ aborted \in BOOLEAN
    /\ world \in Generations /\ baseline \in Generations
    /\ worker \in {"tick", "acquire", "await", "late", "stopped"}
    /\ expected \in Readinesses \cup {NoReadiness}
    /\ builder.pc \in BuildSteps \cup {"none", "done"}
    /\ builder.inputs \in Inputs
    /\ Len(builder.seen) <= SourceCount
    /\ \A i \in DOMAIN builder.seen : builder.seen[i] \in Observations
    /\ builder.token \in Readinesses \cup {NoReadiness}
    /\ builder.verdict \in Verdicts
    /\ outcome \in {"none", "published", "refused", "failed", "panicked"}
    /\ permit \in {"none", "free", "attempt", "cleanup"}
    /\ changes \in 0 .. MaxChanges /\ faults \in 0 .. MaxFaults
    /\ spare \in 0 .. MaxSpareAttempts

\* build_config: the baseline is what the first snapshot was built from.
Init ==
    /\ permit \in {IF v THEN "free" ELSE "none" : v \in VerifiedModes}
    /\ world \in {g \in Generations : g.inputs \notin InvalidInputs}
    /\ Gated => \A s \in Sources : world.obs[s].verified
    /\ baseline = world
    /\ rt = InitialState(world)
    /\ phase = "Running" /\ closing = FALSE
    /\ worker = "tick" /\ aborted = FALSE
    /\ expected = NoReadiness
    /\ builder = NoBuilder
    /\ outcome = "none"
    /\ changes = 0 /\ faults = 0 /\ spare = 0

-----------------------------------------------------------------------------
(* The files and the sources, outside the server. *)

EditFiles ==
    /\ changes < MaxChanges
    /\ \E f \in Inputs \ {world.inputs} : world' = [world EXCEPT !.inputs = f]
    /\ changes' = changes + 1
    /\ UNCHANGED <<runtimeVars, baseline, worker, aborted, attemptVars,
                   outcome, faults, spare>>

AlterSource ==
    /\ changes < MaxChanges
    /\ \E s \in Sources : \E o \in Observations \ {world.obs[s]} :
          /\ Gated => o.verified
          /\ world' = [world EXCEPT !.obs[s] = o]
    /\ changes' = changes + 1
    /\ UNCHANGED <<runtimeVars, baseline, worker, aborted, attemptVars,
                   outcome, faults, spare>>

-----------------------------------------------------------------------------
(* Shutdown: the phase moves first, the runtime is closed after.            *)

\* config.begin_shutdown, first half: only the first caller goes on to close.
BeginShutdown ==
    /\ phase' = "Draining"
    /\ closing' = (closing \/ phase = "Running")

Signal ==
    /\ phase = "Running"
    /\ BeginShutdown
    /\ UNCHANGED <<rt, world, baseline, worker, aborted, attemptVars, outcome,
                   bounds>>

\* config.begin_shutdown, second half.
MarkAdministrative ==
    /\ closing
    /\ closing' = FALSE
    /\ rt' = NotReadyTransition(rt, "Administrative")
    /\ UNCHANGED <<phase, world, baseline, worker, aborted, attemptVars,
                   outcome, bounds>>

\* Supervisor::drop, once serving has returned.
DropSupervisor ==
    /\ ~aborted
    /\ aborted' = TRUE
    /\ BeginShutdown
    /\ UNCHANGED <<rt, world, baseline, worker, attemptVars, outcome, bounds>>

\* The task ends, by break or by abort at an await: WorkerGuard::drop.
WorkerEnds ==
    /\ worker' = "stopped"
    /\ BeginShutdown

AbortWorker ==
    /\ aborted /\ worker \in {"tick", "await", "late"}
    /\ WorkerEnds
    /\ UNCHANGED <<rt, world, baseline, aborted, attemptVars, outcome, bounds>>

-----------------------------------------------------------------------------
(* The builder.  Attempt::fence holds the attempt's mutex throughout.       *)

BuilderLive == builder.pc \in BuildSteps

\* The attempt keeps the token it began with.
FencedForgettingToken(cause) ==
    /\ rt' = AfterFence(rt, expected, cause)
    /\ UNCHANGED expected

Fenced(cause) ==
    /\ rt' = AfterFence(rt, expected, cause)
    /\ expected' = IF FenceAccepted(rt, expected) THEN Readiness(rt')
                                                  ELSE expected

\* The blocking closure returns; its budget clone goes, native cleanup may
\* still hold another.
BuilderReturns(b, verdict, leftover) ==
    /\ builder' = [b EXCEPT !.pc = "done", !.verdict = verdict]
    /\ permit' = IF ~Gated THEN permit ELSE IF leftover THEN "cleanup" ELSE "free"

BuilderContinues(b, pc) == builder' = [b EXCEPT !.pc = pc] /\ UNCHANGED permit

FenceAndGo(b, cause, pc) ==
    /\ Fenced(cause)
    /\ IF FenceAccepted(rt, expected) THEN BuilderContinues(b, pc)
       ELSE BuilderReturns(b, "SchemaDrift", FALSE)  \* transition_error

\* Attempt::capture
CaptureUnfenced ==
    /\ builder.pc = "capture"
    /\ BuilderContinues([builder EXCEPT !.inputs = world.inputs], "parse")
    /\ UNCHANGED <<rt, expected>>
    /\ UNCHANGED <<phase, closing, world, baseline, worker, aborted, outcome,
                   bounds>>

Capture ==
    /\ builder.pc = "capture"
    /\ LET b == [builder EXCEPT !.inputs = world.inputs]
       IN  IF b.inputs # baseline.inputs
           THEN FenceAndGo(b, "SchemaDrift", "parse")
           ELSE BuilderContinues(b, "parse") /\ UNCHANGED <<rt, expected>>
    /\ UNCHANGED <<phase, closing, world, baseline, worker, aborted, outcome,
                   bounds>>

\* build_snapshot parses ontology and mappings before any source is opened.
Parse ==
    /\ builder.pc = "parse"
    /\ IF builder.inputs \in InvalidInputs
       THEN BuilderReturns(builder, "SchemaDrift", FALSE)
       ELSE BuilderContinues(builder, "observe")
    /\ UNCHANGED <<runtimeVars, world, baseline, worker, aborted, expected,
                   outcome, bounds>>

\* Attempt::observe, once per source in the order of build_snapshot.
Observe ==
    /\ builder.pc = "observe"
    /\ LET s == Len(builder.seen) + 1
           b == [builder EXCEPT !.seen = Append(@, world.obs[s])]
           pc == IF s = SourceCount THEN "recapture" ELSE "observe"
       IN  IF baseline.obs[s].verified /\ ~b.seen[s].verified
           THEN /\ Fenced("CapabilityDrift")
                /\ BuilderReturns(b, IF FenceAccepted(rt, expected)
                                     THEN "CapabilityDrift" ELSE "SchemaDrift",
                                  FALSE)
           ELSE IF b.seen[s] # baseline.obs[s]
           THEN FenceAndGo(b, "SchemaDrift", pc)
           ELSE BuilderContinues(b, pc) /\ UNCHANGED <<rt, expected>>
    /\ UNCHANGED <<phase, closing, world, baseline, worker, aborted, outcome,
                   bounds>>

\* The files are read again; a change during construction is refused.
Recapture ==
    /\ builder.pc = "recapture"
    /\ IF world.inputs # builder.inputs
       THEN BuilderReturns(builder, "SchemaDrift", FALSE)
       ELSE BuilderReturns([builder EXCEPT !.token = expected], "candidate",
                           FALSE)
    /\ UNCHANGED <<runtimeVars, world, baseline, worker, aborted, expected,
                   outcome, bounds>>

\* Any step of the builder may fail: unreadable file, source I/O, validation,
\* the 30 s control deadline.  Source work may leave native cleanup behind.
BuilderFails ==
    /\ BuilderLive /\ faults < MaxFaults
    /\ \E cause \in ObservedCauses, leftover \in BOOLEAN :
          /\ leftover => Gated /\ builder.pc = "observe"
          /\ BuilderReturns(builder, cause, leftover)
    /\ faults' = faults + 1
    /\ UNCHANGED <<runtimeVars, world, baseline, worker, aborted, expected,
                   outcome, changes, spare>>

BuilderPanics ==
    /\ BuilderLive /\ faults < MaxFaults
    /\ BuilderReturns(builder, "panic", FALSE)
    /\ faults' = faults + 1
    /\ UNCHANGED <<runtimeVars, world, baseline, worker, aborted, expected,
                   outcome, changes, spare>>

\* A worker thread or cancel task that kept the budget clone finally ends.
CleanupEnds ==
    /\ permit = "cleanup"
    /\ permit' = "free"
    /\ UNCHANGED <<runtimeVars, world, baseline, worker, aborted, expected,
                   builder, outcome, bounds>>

-----------------------------------------------------------------------------
(* The coordinator. *)

\* The coordinator could bring the runtime to readiness as the world is now.
WorldServable ==
    /\ world.inputs \notin InvalidInputs
    /\ \A s \in Sources : baseline.obs[s].verified => world.obs[s].verified

Spare == rt.ready \/ ~WorldServable

\* The loop without its terminal check.
TickWhateverTheState ==
    /\ worker = "tick"
    /\ Spare /\ ~Closed(rt) => spare < MaxSpareAttempts
    /\ worker' = "acquire"
    /\ expected' = Readiness(rt)
    /\ spare' = IF Spare THEN spare + 1 ELSE spare
    /\ UNCHANGED <<runtimeVars, world, baseline, aborted, builder, outcome,
                   permit, changes, faults>>

\* ticks.tick(), then readiness(); a terminal readiness leaves the loop.
Tick ==
    /\ worker = "tick"
    /\ Spare /\ ~Closed(rt) => spare < MaxSpareAttempts
    /\ IF Closed(rt)
       THEN WorkerEnds /\ UNCHANGED <<expected, spare>>
       ELSE /\ worker' = "acquire"
            /\ expected' = Readiness(rt)
            /\ spare' = IF Spare THEN spare + 1 ELSE spare
            /\ UNCHANGED <<phase, closing>>
    /\ UNCHANGED <<rt, world, baseline, aborted, builder, outcome, permit,
                   changes, faults>>

\* control_budget_pair in the verified mode, then refresh spawns the builder;
\* files it has not captured yet count as unchanged.
StartAttempt ==
    /\ worker = "acquire"
    /\ IF Gated /\ permit # "free"
       THEN WorkerEnds /\ UNCHANGED <<builder, permit>>
       ELSE /\ worker' = "await"
            /\ builder' = [NoBuilder EXCEPT !.pc = "capture",
                                            !.inputs = baseline.inputs]
            /\ permit' = IF Gated THEN "attempt" ELSE "none"
            /\ UNCHANGED <<phase, closing>>
    /\ UNCHANGED <<rt, world, baseline, aborted, expected, outcome, bounds>>

AttemptEnds(result) ==
    /\ worker' = "tick"
    /\ builder' = NoBuilder
    /\ outcome' = result

Candidate == [inputs |-> builder.inputs, obs |-> builder.seen]

\* finish_attempt forgetting to hand the new baseline back.
PublishKeepingBaseline ==
    /\ worker = "await" /\ builder.verdict = "candidate"
    /\ IF CanPublish(rt, builder.token)
       THEN /\ rt' = PublishedState(rt, Candidate)
            /\ AttemptEnds("published")
       ELSE AttemptEnds("refused") /\ UNCHANGED rt
    /\ UNCHANGED <<phase, closing, world, baseline, aborted, expected, permit,
                   bounds>>

\* finish_attempt with a candidate: publish, and only then adopt its baseline.
FinishWithCandidate ==
    /\ worker = "await" /\ builder.verdict = "candidate"
    /\ IF CanPublish(rt, builder.token)
       THEN /\ rt' = PublishedState(rt, Candidate)
            /\ baseline' = Candidate
            /\ AttemptEnds("published")
       ELSE AttemptEnds("refused") /\ UNCHANGED <<rt, baseline>>
    /\ UNCHANGED <<phase, closing, world, aborted, expected, permit, bounds>>

\* finish_attempt with an error, leaving readiness to the builder's fences.
FinishRejectedQuietly ==
    /\ worker = "await" /\ builder.verdict \in ObservedCauses
    /\ AttemptEnds("failed")
    /\ UNCHANGED <<runtimeVars, world, baseline, aborted, expected, permit,
                   bounds>>

\* finish_attempt with an error: fence with its cause, stale or not.
FinishRejected ==
    /\ worker = "await" /\ builder.verdict \in ObservedCauses
    /\ Fenced(builder.verdict)
    /\ AttemptEnds("failed")
    /\ UNCHANGED <<phase, closing, world, baseline, aborted, permit, bounds>>

\* The builder panicked, before the timeout or after it.
FinishPanicked ==
    /\ worker \in {"await", "late"} /\ builder.verdict = "panic"
    /\ rt' = NotReadyTransition(rt, "Administrative")
    /\ AttemptEnds("panicked")
    /\ UNCHANGED <<phase, closing, world, baseline, aborted, expected, permit,
                   bounds>>

\* The 60 s timeout: fence, then keep waiting for the builder.
Timeout ==
    /\ worker = "await" /\ BuilderLive /\ faults < MaxFaults
    /\ Fenced("SourceUnavailable")
    /\ worker' = "late"
    /\ faults' = faults + 1
    /\ UNCHANGED <<phase, closing, world, baseline, aborted, builder, outcome,
                   permit, changes, spare>>

\* A late builder's result is dropped, whatever it is.
FinishLate ==
    /\ worker = "late" /\ builder.verdict \notin {"none", "panic"}
    /\ AttemptEnds("failed")
    /\ UNCHANGED <<runtimeVars, world, baseline, aborted, expected, permit,
                   bounds>>

Environment == EditFiles \/ AlterSource
Building == Capture \/ Parse \/ Observe \/ Recapture
Finishing == FinishWithCandidate \/ FinishRejected \/ FinishPanicked \/ FinishLate

Next ==
    \/ Environment
    \/ Signal \/ MarkAdministrative \/ DropSupervisor \/ AbortWorker
    \/ Building \/ BuilderFails \/ BuilderPanics \/ CleanupEnds
    \/ Tick \/ StartAttempt \/ Timeout \/ Finishing

Spec == Init /\ [][Next]_vars

\* The runtime polls the coordinator, its blocking threads and its timers;
\* nothing obliges files to change, steps to fail or a signal to arrive.
Fairness ==
    /\ WF_vars(Building) /\ WF_vars(CleanupEnds)
    /\ WF_vars(Tick) /\ WF_vars(StartAttempt) /\ WF_vars(Finishing)
    /\ WF_vars(MarkAdministrative) /\ WF_vars(AbortWorker)

FairSpec == Spec /\ Fairness

-----------------------------------------------------------------------------
(* Properties *)

(* As soon as the builder has read a file or a source that differs from    *)
(* what the served generation was built from, new requests are refused.    *)
ObservedDriftFenced ==
    (/\ builder.pc \notin {"none", "capture"}
     /\ \/ builder.inputs # baseline.inputs
        \/ \E s \in DOMAIN builder.seen : builder.seen[s] # baseline.obs[s])
    => ~rt.ready

(* A ready runtime serves exactly the generation the coordinator compares  *)
(* the next observation with, so drift is always measured against what is  *)
(* being served.                                                           *)
ServesBaseline == rt.ready => rt.snap = baseline

(* An attempt that failed, timed out or panicked leaves the runtime not    *)
(* ready, even when its own fence was stale; a panic leaves it closed.     *)
FailedAttemptFences ==
    worker \in {"tick", "acquire"} =>
        /\ outcome \in {"failed", "panicked"} => ~rt.ready
        /\ outcome = "panicked" => Closed(rt)

Contract == INSTANCE ReadinessContract
                WITH readiness <- Readiness(rt), Snapshots <- Generations
(* Whatever attempts, timeouts and shutdown do, the runtime's readiness    *)
(* moves only as the contract allows.                                      *)
ImplementsContract == Contract!Spec

(* Once files and sources are valid for good and no more steps fail, the   *)
(* runtime becomes ready again unless it was closed.                       *)
HealsOnceServable ==
    <>[]WorldServable => []<>(rt.ready \/ Closed(rt))

(* Shutdown closes the runtime and ends the coordinator.                   *)
ShutdownStopsWorker ==
    phase = "Draining" ~> (Closed(rt) /\ worker = "stopped")

(* The coordinator gives up only when the runtime is closed or the         *)
(* supervisor is gone: while not ready it keeps retrying.                  *)
StopsOnlyWhenClosed ==
    [][worker' = "stopped" /\ worker # "stopped" => Closed(rt) \/ aborted]_vars
=============================================================================
