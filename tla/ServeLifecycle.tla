---------------------------- MODULE ServeLifecycle ----------------------------
(***************************************************************************)
(* Serving and its end: requests pass the admission steps one by one, own  *)
(* a permit until the last clone of their budget is gone, and race the     *)
(* three phases of shutdown; the serving task joins the HTTP server and    *)
(* the background future, waits for owned work, forces the phase at the    *)
(* drain bound and gives up at the cleanup bound.  A coordinator takes and *)
(* returns the control gate beside them.                                   *)
(* Source: crates/sf-serve/src/lifecycle.rs, request_deadline.rs,          *)
(* budget.rs, config.rs, deadline.rs; startup_authored.rs for the gate.    *)
(***************************************************************************)
EXTENDS Integers, FiniteSets

CONSTANTS Requests,
          MaxConcurrent,  \* max_concurrent_requests
          Modes           \* "ordinary", "verified" (a gated authored
                          \* coordinator), "direct" (a background future)

ASSUME ServeAssumption ==
    /\ IsFiniteSet(Requests)
    /\ MaxConcurrent \in Nat \ {0}
    /\ Modes \subseteq {"ordinary", "verified", "direct"}

VARIABLES
    phase,       \* the watch channel's ShutdownPhase
    closing,     \* a begin_shutdown has moved the phase and not closed runtime
    runtime,     \* "ready", "fenced" by the coordinator, or "closed"
    signal,      \* the graceful_signal task: "waiting", "begun", "announced"
    accepting,   \* the listener is polled
    conn,        \* each request's connection: "none", "open", "closed"
    pc,          \* each request's place in RequestDeadlineService.call
    terminal,    \* each budget's terminal cause
    late,        \* each budget's deadline has passed
    mintedIn,    \* history: the phase in which each budget was minted
    owners,      \* who holds a clone of an admitted budget
    available,   \* request_admission_permits.available_permits()
    main,        \* the serving task
    outcome,     \* what it will return
    background,  \* the background future
    coordinator, \* the authored coordinator in the verified mode
    gate         \* control_work: "free", with the "attempt", or its "cleanup"

vars == <<phase, closing, runtime, signal, accepting, conn, pc, terminal, late,
          mintedIn, owners, available, main, outcome, background, coordinator, gate>>

requestVars  == <<conn, pc, terminal, late, mintedIn, owners, available>>
shutdownVars == <<phase, closing, signal, accepting>>
mainVars     == <<main, outcome, background>>
controlVars  == <<runtime, coordinator, gate>>

Owners == {"handler", "worker", "producer"}
\* "shutdown" and "gone" are both QueryControlError::Cancelled; which of the two
\* it was is kept for the properties.
Causes == {"none", "shutdown", "deadline", "gone"}

TypeOK ==
    /\ phase \in {"Running", "Draining", "Forced"} /\ closing \in BOOLEAN
    /\ runtime \in {"ready", "fenced", "closed"}
    /\ signal \in {"waiting", "begun", "announced"} /\ accepting \in BOOLEAN
    /\ conn \in [Requests -> {"none", "open", "closed"}]
    /\ pc \in [Requests -> {"none", "minted", "checked", "leased", "permitted",
                            "handling", "responded", "rejected"}]
    /\ terminal \in [Requests -> Causes]
    /\ late \in [Requests -> BOOLEAN]
    /\ mintedIn \in [Requests -> {"none", "Running", "Draining", "Forced"}]
    /\ owners \in [Requests -> SUBSET Owners]
    /\ available \in 0 .. MaxConcurrent
    /\ main \in {"serving", "background", "owned", "gate", "returned"}
    /\ outcome \in {"none", "drained", "forced", "failed", "timedout"}
    /\ background \in {"running", "ok", "error"}
    /\ coordinator \in {"none", "tick", "acquire", "working", "stopped"}
    /\ gate \in {"free", "attempt", "cleanup"}

Init ==
    /\ phase = "Running" /\ closing = FALSE /\ runtime = "ready"
    /\ signal = "waiting" /\ accepting = TRUE
    /\ conn = [r \in Requests |-> "none"]
    /\ pc = [r \in Requests |-> "none"]
    /\ terminal = [r \in Requests |-> "none"]
    /\ late = [r \in Requests |-> FALSE]
    /\ mintedIn = [r \in Requests |-> "none"]
    /\ owners = [r \in Requests |-> {}]
    /\ available = MaxConcurrent
    /\ main = "serving" /\ outcome = "none"
    /\ \E mode \in Modes :
          /\ background = IF mode = "direct" THEN "running" ELSE "ok"
          /\ coordinator = IF mode = "verified" THEN "tick" ELSE "none"
    /\ gate = "free"

-----------------------------------------------------------------------------
(* Shutdown begins. *)

\* config.begin_shutdown: the caller that moves the phase closes the runtime.
BeginShutdown ==
    /\ phase' = IF phase = "Running" THEN "Draining" ELSE phase
    /\ closing' = (closing \/ phase = "Running")

SignalArrives ==
    /\ signal = "waiting"
    /\ signal' = "begun"
    /\ BeginShutdown
    /\ UNCHANGED <<accepting, requestVars, mainVars, controlVars>>

CloseRuntime ==
    /\ closing
    /\ closing' = FALSE
    /\ runtime' = "closed"
    /\ UNCHANGED <<phase, signal, accepting, requestVars, mainVars, coordinator,
                   gate>>

\* started_tx.send: after begin_shutdown, so after its own closing if it had one.
Announce ==
    /\ signal = "begun" /\ ~closing
    /\ signal' = "announced"
    /\ UNCHANGED <<phase, closing, accepting, requestVars, mainVars, controlVars>>

\* The server sees the signal future resolved and leaves its accept loop.
StopAccepting ==
    /\ signal = "announced" /\ accepting
    /\ accepting' = FALSE
    /\ UNCHANGED <<phase, closing, signal, requestVars, mainVars, controlVars>>

-----------------------------------------------------------------------------
(* A request: RequestDeadlineService.call, then the handler. *)

Connect(r) ==
    /\ conn[r] = "none" /\ accepting
    /\ conn' = [conn EXCEPT ![r] = "open"]
    /\ UNCHANGED <<mintedIn, pc, terminal, late, owners, available, shutdownVars, mainVars,
                   controlVars>>

Move(r, to) == pc' = [pc EXCEPT ![r] = to]
Ends(r, cause) ==
    terminal' = [terminal EXCEPT
                    ![r] = IF terminal[r] = "none" THEN cause ELSE terminal[r]]

\* request_budget_for observing only the forced phase, as its checkpoints do.
MintWhateverThePhase(r) ==
    /\ conn[r] = "open" /\ pc[r] = "none"
    /\ Move(r, "minted")
    /\ mintedIn' = [mintedIn EXCEPT ![r] = phase]
    /\ UNCHANGED <<terminal, conn, late, owners, available, shutdownVars, mainVars,
                   controlVars>>

\* request_budget_for: a budget minted once shutdown has begun is cancelled.
Mint(r) ==
    /\ conn[r] = "open" /\ pc[r] = "none"
    /\ Move(r, "minted")
    /\ mintedIn' = [mintedIn EXCEPT ![r] = phase]
    /\ IF phase # "Running" THEN Ends(r, "shutdown") ELSE UNCHANGED terminal
    /\ UNCHANGED <<conn, late, owners, available, shutdownVars, mainVars,
                   controlVars>>

\* check_at for a budget that takes draining for forced shutdown.
CheckpointStoppingAtDrain(r) ==
    IF terminal[r] # "none" THEN terminal[r]
    ELSE IF late[r] THEN "deadline"
    ELSE IF phase # "Running" THEN "shutdown"
    ELSE "none"

\* check_at: the sticky cause first; cancel() prefers a deadline that has
\* passed to the forced phase that called it.
Checkpoint(r) ==
    IF terminal[r] # "none" THEN terminal[r]
    ELSE IF late[r] THEN "deadline"
    ELSE IF phase = "Forced" THEN "shutdown"
    ELSE "none"

PassCheckpoint(r, to) ==
    /\ Ends(r, Checkpoint(r))
    /\ Move(r, IF Checkpoint(r) = "none" THEN to ELSE "rejected")

\* Credentials are verified before the first checkpoint.
RefuseCredentials(r) ==
    /\ pc[r] = "minted"
    /\ Move(r, "rejected")
    /\ UNCHANGED <<mintedIn, conn, terminal, late, owners, available, shutdownVars,
                   mainVars, controlVars>>

FirstCheckpoint(r) ==
    /\ pc[r] = "minted"
    /\ PassCheckpoint(r, "checked")
    /\ UNCHANGED <<mintedIn, conn, late, owners, available, shutdownVars, mainVars,
                   controlVars>>

Lease(r) ==
    /\ pc[r] = "checked"
    /\ Move(r, IF runtime = "ready" THEN "leased" ELSE "rejected")
    /\ UNCHANGED <<mintedIn, conn, terminal, late, owners, available, shutdownVars,
                   mainVars, controlVars>>

\* try_acquire_owned: no queue, a request without a permit is shed.
TryAcquire(r) ==
    /\ pc[r] = "leased"
    /\ IF available > 0
       THEN available' = available - 1 /\ Move(r, "permitted")
       ELSE UNCHANGED available /\ Move(r, "rejected")
    /\ UNCHANGED <<mintedIn, conn, terminal, late, owners, shutdownVars, mainVars,
                   controlVars>>

\* Admission that trusts its first checkpoint.
AdmitUnchecked(r) ==
    /\ pc[r] = "permitted"
    /\ Move(r, "handling")
    /\ owners' = [owners EXCEPT ![r] = {"handler"}]
    /\ UNCHANGED <<mintedIn, conn, terminal, late, available, shutdownVars, mainVars,
                   controlVars>>

\* The second checkpoint, then retain_admission; or the permit is returned.
Admit(r) ==
    /\ pc[r] = "permitted"
    /\ PassCheckpoint(r, "handling")
    /\ IF Checkpoint(r) = "none"
       THEN owners' = [owners EXCEPT ![r] = {"handler"}] /\ UNCHANGED available
       ELSE UNCHANGED owners /\ available' = available + 1
    /\ UNCHANGED <<mintedIn, conn, late, shutdownVars, mainVars, controlVars>>

DeadlinePasses(r) ==
    /\ pc[r] \notin {"none", "rejected"} /\ ~late[r]
    /\ late' = [late EXCEPT ![r] = TRUE]
    /\ UNCHANGED <<mintedIn, conn, pc, terminal, owners, available, shutdownVars, mainVars,
                   controlVars>>

\* The permit returned with the handler, whatever else still runs.
OwnedByWithHandler(r, os) ==
    /\ owners' = [owners EXCEPT ![r] = os]
    /\ available' = IF "handler" \in owners[r] /\ "handler" \notin os
                    THEN available + 1 ELSE available

\* Clones of the budget as a set: the permit returns with the last of them.
OwnedBy(r, os) ==
    /\ owners' = [owners EXCEPT ![r] = os]
    /\ available' = IF owners[r] # {} /\ os = {} THEN available + 1 ELSE available

\* spawn_blocking with the budget's clone: compilation and native source work.
SpawnWorker(r) ==
    /\ pc[r] = "handling" /\ "worker" \notin owners[r]
    /\ OwnedBy(r, owners[r] \cup {"worker"})
    /\ UNCHANGED <<mintedIn, conn, pc, terminal, late, shutdownVars, mainVars, controlVars>>

\* A handler that is raced against forced shutdown only.
InterruptWhenForced(r) ==
    /\ pc[r] = "handling" /\ phase = "Forced"
    /\ Move(r, "responded")
    /\ Ends(r, "shutdown")
    /\ OwnedBy(r, owners[r] \ {"handler"})
    /\ UNCHANGED <<mintedIn, conn, late, shutdownVars, mainVars, controlVars>>

\* run_until_deadline: the deadline and the forced phase win over a response;
\* the handler is dropped with its worker, if any, left to itself.
Interrupt(r) ==
    /\ pc[r] = "handling" /\ (late[r] \/ phase = "Forced")
    /\ Move(r, "responded")
    /\ Ends(r, IF late[r] THEN "deadline" ELSE "shutdown")
    /\ OwnedBy(r, owners[r] \ {"handler"})
    /\ UNCHANGED <<mintedIn, conn, late, shutdownVars, mainVars, controlVars>>

\* The handler answers, having awaited its worker; a producer may stream on.
Respond(r) ==
    /\ pc[r] = "handling" /\ "worker" \notin owners[r]
    /\ ~late[r] /\ phase # "Forced"
    /\ Move(r, "responded")
    /\ \E os \in {{}, {"producer"}} : OwnedBy(r, os)
    /\ UNCHANGED <<mintedIn, conn, terminal, late, shutdownVars, mainVars, controlVars>>

\* A worker or a producer ends: done, or told so by a checkpoint.
OwnerEnds(r) ==
    /\ \E o \in owners[r] \ {"handler"} :
          /\ OwnedBy(r, owners[r] \ {o})
          /\ IF o = "producer" THEN Ends(r, Checkpoint(r)) ELSE UNCHANGED terminal
    /\ UNCHANGED <<mintedIn, conn, pc, late, shutdownVars, mainVars, controlVars>>

\* The client leaves: the handler's future is dropped and its CancellationGuard
\* cancels the budget; a streaming producer finds its channel closed later.
Disconnect(r) ==
    /\ conn[r] = "open" /\ pc[r] \in {"handling", "responded"}
    /\ conn' = [conn EXCEPT ![r] = "closed"]
    /\ IF pc[r] = "handling"
       THEN /\ Move(r, "responded")
            /\ Ends(r, IF late[r] THEN "deadline" ELSE "gone")
            /\ OwnedBy(r, owners[r] \ {"handler"})
       ELSE UNCHANGED <<pc, terminal, owners, available>>
    /\ UNCHANGED <<mintedIn, late, shutdownVars, mainVars, controlVars>>

\* The body is complete, or the connection was idle: the connection ends.
CloseConnection(r) ==
    /\ conn[r] = "open"
    /\ pc[r] \in {"none", "responded", "rejected"}
    /\ "producer" \notin owners[r]
    /\ conn' = [conn EXCEPT ![r] = "closed"]
    /\ UNCHANGED <<mintedIn, pc, terminal, late, owners, available, shutdownVars, mainVars,
                   controlVars>>

-----------------------------------------------------------------------------
(* The coordinator of verified generations and the control gate. *)

\* A coordinator without its WorkerGuard.
CoordinatorStopsSilently == coordinator' = "stopped" /\ UNCHANGED <<phase, closing>>

\* WorkerGuard::drop, on every way out of the task.
CoordinatorStops == coordinator' = "stopped" /\ BeginShutdown

\* ticks.tick() and readiness(): a closed runtime ends the coordinator.
CoordinatorTicks ==
    /\ coordinator = "tick"
    /\ IF runtime = "closed"
       THEN CoordinatorStops
       ELSE coordinator' = "acquire" /\ UNCHANGED <<phase, closing>>
    /\ UNCHANGED <<runtime, gate, signal, accepting, requestVars, mainVars>>

\* control_budget_pair: the gate alone is asked, not the phase.
AcquireGate ==
    /\ coordinator = "acquire"
    /\ IF gate = "free"
       THEN /\ gate' = "attempt" /\ coordinator' = "working"
            /\ UNCHANGED <<phase, closing>>
       ELSE UNCHANGED gate /\ CoordinatorStops
    /\ UNCHANGED <<runtime, signal, accepting, requestVars, mainVars>>

AttemptEnds ==
    /\ coordinator = "working"
    /\ coordinator' = "tick"
    /\ gate' \in {"free", "cleanup"}
    /\ runtime' \in IF runtime = "closed" THEN {"closed"} ELSE {"ready", "fenced"}
    /\ UNCHANGED <<shutdownVars, requestVars, mainVars>>

GateCleanupEnds ==
    /\ gate = "cleanup"
    /\ gate' = "free"
    /\ UNCHANGED <<runtime, coordinator, shutdownVars, requestVars, mainVars>>

-----------------------------------------------------------------------------
(* The serving task: serve_listener_with_background. *)

ServerDone == ~accepting /\ \A r \in Requests : conn[r] # "open"

\* The Direct background future ends some time after draining has begun.
BackgroundEnds ==
    /\ background = "running" /\ phase # "Running" /\ main # "returned"
    /\ background' \in {"ok", "error"}
    /\ UNCHANGED <<main, outcome, shutdownVars, requestVars, controlVars>>

\* try_join: both halves ended well.
GracefulJoined ==
    /\ main = "serving" /\ outcome = "none"
    /\ ServerDone /\ background = "ok"
    /\ main' = "owned"
    /\ UNCHANGED <<outcome, background, shutdownVars, requestVars, controlVars>>

\* begin_shutdown and force_shutdown; the dropped server stops accepting, its
\* connections live on.
ForceShutdown(result) ==
    /\ phase' = "Forced"
    /\ accepting' = FALSE
    /\ main' = "background"
    /\ outcome' = result
    /\ UNCHANGED <<closing, signal, background, requestVars, controlVars>>

\* try_join: the background failed first; by then the phase has been moved.
BackgroundFailed ==
    /\ main = "serving" /\ outcome = "none" /\ background = "error"
    /\ ForceShutdown("failed")

\* timeout_at(started + drain_timeout) while the graceful future is pending.
DrainBound ==
    /\ signal = "announced" /\ outcome = "none" /\ main # "returned"
    /\ ForceShutdown("forced")

BackgroundAwaited ==
    /\ main = "background" /\ background # "running"
    /\ main' = "owned"
    /\ outcome' = IF background = "error" THEN "failed" ELSE outcome
    /\ UNCHANGED <<background, shutdownVars, requestVars, controlVars>>

\* await_owned_work, first operand: every request permit is back.
SeePermitsFree ==
    /\ main = "owned" /\ available = MaxConcurrent
    /\ main' = "gate"
    /\ UNCHANGED <<outcome, background, shutdownVars, requestVars, controlVars>>

\* Second operand: the control gate, if there is one; else sleep and retry.
SeeGate ==
    /\ main = "gate"
    /\ IF gate = "free"
       THEN main' = "returned" /\ outcome' = IF outcome = "none" THEN "drained"
                                             ELSE outcome
       ELSE main' = "owned" /\ UNCHANGED outcome
    /\ UNCHANGED <<background, shutdownVars, requestVars, controlVars>>

\* The allowance granted only once the background has ended.
CleanupBoundAfterBackground ==
    /\ main \in {"owned", "gate"} /\ outcome # "none"
    /\ main' = "returned" /\ outcome' = "timedout"
    /\ UNCHANGED <<background, shutdownVars, requestVars, controlVars>>

\* The 3 s allowance for owned cleanup.
CleanupBound ==
    /\ main \in {"background", "owned", "gate"} /\ outcome # "none"
    /\ main' = "returned" /\ outcome' = "timedout"
    /\ UNCHANGED <<background, shutdownVars, requestVars, controlVars>>

-----------------------------------------------------------------------------
Shutdown == SignalArrives \/ CloseRuntime \/ Announce \/ StopAccepting
Admission(r) == Mint(r) \/ FirstCheckpoint(r) \/ Lease(r) \/ TryAcquire(r) \/ Admit(r)
Handling(r) == SpawnWorker(r) \/ Respond(r) \/ Interrupt(r)
Request(r) ==
    Connect(r) \/ Admission(r) \/ RefuseCredentials(r) \/ Handling(r)
               \/ DeadlinePasses(r) \/ OwnerEnds(r) \/ Disconnect(r) \/ CloseConnection(r)
Control == CoordinatorTicks \/ AcquireGate \/ AttemptEnds \/ GateCleanupEnds
Graceful == GracefulJoined \/ BackgroundFailed \/ BackgroundAwaited
                           \/ SeePermitsFree \/ SeeGate
Serving == Graceful \/ DrainBound \/ CleanupBound

Next ==
    \/ Shutdown \/ Control \/ BackgroundEnds \/ Serving
    \/ \E r \in Requests : Request(r)

Spec == Init /\ [][Next]_vars

\* Timers fire and the runtime polls the signal task, the serving task and the
\* handlers.  No worker, producer, client, coordinator or background future is
\* obliged to end.
Fairness ==
    /\ WF_vars(CloseRuntime) /\ WF_vars(Announce) /\ WF_vars(StopAccepting)
    /\ WF_vars(DrainBound) /\ WF_vars(CleanupBound) /\ WF_vars(Graceful)
    /\ \A r \in Requests :
          /\ WF_vars(Admission(r)) /\ WF_vars(DeadlinePasses(r))
          /\ WF_vars(Interrupt(r))

FairSpec == Spec /\ Fairness

-----------------------------------------------------------------------------
(* Properties *)

Holding(r) == pc[r] = "permitted" \/ owners[r] # {}

(* Permits are neither leaked nor returned early: what is missing from the *)
(* semaphore is held by requests that still own work, so deadlines and     *)
(* disconnects never let more native work run than max_concurrent_requests.*)
PermitsMatchOwnedWork ==
    available + Cardinality({r \in Requests : Holding(r)}) = MaxConcurrent

(* When serving returns in any way but by giving up at the cleanup bound,  *)
(* no request owns work any more, and none that was still being admitted   *)
(* gets to own any.                                                        *)
NothingOwnedAfterReturn ==
    main = "returned" /\ outcome # "timedout"
        => \A r \in Requests : owners[r] = {}

(* A request whose budget was minted after shutdown had begun never owns   *)
(* work, even if it comes before the runtime is closed.                    *)
LatecomersNeverAdmitted ==
    \A r \in Requests :
        owners[r] # {} => mintedIn[r] = "Running"

(* Draining lets admitted requests finish: shutdown ends one only when it  *)
(* is forced.                                                              *)
DrainSparesAdmitted ==
    [][\A r \in Requests :
          pc[r] \in {"permitted", "handling"} /\ terminal'[r] = "shutdown"
              => phase = "Forced"]_vars

(* After the signal, serving returns within its two bounds, whatever       *)
(* requests, workers, the background and the coordinator do.               *)
SignalEndsServing == signal # "waiting" ~> main = "returned"

(* Every admitted request leaves the handler, by its deadline at the       *)
(* latest.                                                                 *)
HandlersEnd ==
    \A r \in Requests : pc[r] = "handling" ~> pc[r] # "handling"

(* A coordinator that ends, for whatever reason, closes the runtime: no    *)
(* generation is served that nobody watches.                               *)
UnwatchedRuntimeCloses == coordinator = "stopped" ~> runtime = "closed"
=============================================================================
