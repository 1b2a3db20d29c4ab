-------------------------- MODULE ServeLifecycleProofs --------------------------
(***************************************************************************)
(* Admission, permits and shutdown, for every number of requests, every    *)
(* number of permits and all three modes of serving.                       *)
(***************************************************************************)
EXTENDS ServeLifecycle, TLAPS, FiniteSetTheorems

Admitting == {"minted", "checked", "leased", "permitted", "handling"}

\* A request under way has an open connection; it owns work only past the second
\* checkpoint, streams only once it has responded, and is not stopped before.
RequestInv ==
    \A r \in Requests :
        /\ pc[r] \in Admitting => conn[r] = "open"
        /\ pc[r] = "handling" <=> "handler" \in owners[r]
        /\ owners[r] # {} => pc[r] \in {"handling", "responded"}
        /\ "producer" \in owners[r] => pc[r] = "responded"
        /\ pc[r] \in Admitting \ {"minted"} => terminal[r] = "none"

\* A budget minted once shutdown has begun is cancelled, and stays so.
MintInv ==
    \A r \in Requests :
        /\ pc[r] # "none" /\ terminal[r] = "none" => mintedIn[r] = "Running"
        /\ owners[r] # {} => mintedIn[r] = "Running"

\* The serving task waits for owned work either because the server has ended on
\* its own, when no connection is left, or after it has forced the phase.
ServingInv ==
    /\ main \in {"owned", "gate"} /\ outcome = "none" => ServerDone
    /\ outcome = "drained" => ServerDone /\ main = "returned"
    /\ outcome \in {"forced", "failed", "timedout"} => phase = "Forced"
    /\ main \in {"returned", "background"} => outcome # "none"
    /\ main = "gate" \/ (main = "returned" /\ outcome # "timedout") =>
          \A r \in Requests : owners[r] = {}

IInv == TypeOK /\ RequestInv /\ MintInv /\ PermitsMatchOwnedWork /\ ServingInv

-----------------------------------------------------------------------------
\* The initial states satisfy the invariant.
LEMMA IInvInit == Init => IInv
<1> SUFFICES ASSUME Init PROVE IInv OBVIOUS
<1> USE DEF Init
<1>1. TypeOK
    <2>1. available \in 0 .. MaxConcurrent BY ServeAssumption
    <2>2. background \in {"running", "ok", "error"}
        OBVIOUS
    <2>3. coordinator \in {"none", "tick", "acquire", "working", "stopped"}
        OBVIOUS
    <2>4. /\ terminal \in [Requests -> Causes]
          /\ owners \in [Requests -> SUBSET Owners]
        BY DEF Causes, Owners
    <2> QED BY <2>1, <2>2, <2>3, <2>4 DEF TypeOK
<1>2. RequestInv /\ MintInv /\ ServingInv
    BY DEF RequestInv, MintInv, ServingInv, Admitting
<1>3. PermitsMatchOwnedWork
    <2>1. {r \in Requests : Holding(r)} = {} BY DEF Holding
    <2> QED BY <2>1, FS_EmptySet, ServeAssumption DEF PermitsMatchOwnedWork
<1> QED BY <1>1, <1>2, <1>3 DEF IInv

-----------------------------------------------------------------------------
(* Permits. *)

\* The request r gains, keeps or loses its hold, and the semaphore agrees.
Balanced(r) ==
    /\ \A q \in Requests : q # r => (Holding(q)' <=> Holding(q))
    /\ \/ (Holding(r)' <=> Holding(r)) /\ available' = available
       \/ ~Holding(r) /\ Holding(r)' /\ available' = available - 1
       \/ Holding(r) /\ ~Holding(r)' /\ available' = available + 1

\* A balanced step keeps the sum of free and held permits.
LEMMA BalancedStep ==
    ASSUME TypeOK, PermitsMatchOwnedWork, NEW r \in Requests, Balanced(r)
    PROVE  PermitsMatchOwnedWork'
<1> DEFINE S == {q \in Requests : Holding(q)}
           T == {q \in Requests : Holding(q)'}
<1>1. IsFiniteSet(S) BY FS_Subset, ServeAssumption
<1>2. Cardinality(S) \in Nat /\ available \in Int /\ MaxConcurrent \in Int
    BY <1>1, FS_CardinalityType, ServeAssumption DEF TypeOK
<1>3. available + Cardinality(S) = MaxConcurrent BY DEF PermitsMatchOwnedWork
<1>4. CASE (Holding(r)' <=> Holding(r)) /\ available' = available
    <2>1. T = S BY <1>4 DEF Balanced
    <2> QED BY <2>1, <1>3, <1>4 DEF PermitsMatchOwnedWork
<1>5. CASE ~Holding(r) /\ Holding(r)' /\ available' = available - 1
    <2>1. T = S \cup {r} /\ r \notin S BY <1>5 DEF Balanced
    <2>2. Cardinality(T) = Cardinality(S) + 1 BY <1>1, <2>1, FS_AddElement
    <2>3. available' + Cardinality(T) = MaxConcurrent
        BY <1>2, <1>3, <1>5, <2>2
    <2> QED BY <2>3 DEF PermitsMatchOwnedWork
<1>6. CASE Holding(r) /\ ~Holding(r)' /\ available' = available + 1
    <2>1. T = S \ {r} /\ r \in S BY <1>6 DEF Balanced
    <2>2. Cardinality(T) = Cardinality(S) - 1 BY <1>1, <2>1, FS_RemoveElement
    <2>3. available' + Cardinality(T) = MaxConcurrent
        BY <1>2, <1>3, <1>6, <2>2
    <2> QED BY <2>3 DEF PermitsMatchOwnedWork
<1> QED BY <1>4, <1>5, <1>6 DEF Balanced

\* No permit is missing exactly when nobody holds one.
LEMMA AllFree ==
    ASSUME TypeOK, PermitsMatchOwnedWork, available = MaxConcurrent
    PROVE  \A r \in Requests : ~Holding(r)
<1> DEFINE S == {q \in Requests : Holding(q)}
<1>1. IsFiniteSet(S) BY FS_Subset, ServeAssumption
<1>2. Cardinality(S) \in Nat BY <1>1, FS_CardinalityType
<1>3. Cardinality(S) = 0 BY <1>2, ServeAssumption DEF PermitsMatchOwnedWork
<1> QED BY <1>1, <1>3, FS_EmptySet

\* What is free never exceeds what there is.
LEMMA FreeBounded ==
    ASSUME PermitsMatchOwnedWork, available \in Int
    PROVE  available <= MaxConcurrent
<1> DEFINE S == {q \in Requests : Holding(q)}
<1>1. IsFiniteSet(S) BY FS_Subset, ServeAssumption
<1>2. Cardinality(S) \in Nat BY <1>1, FS_CardinalityType
<1> QED BY <1>2, ServeAssumption DEF PermitsMatchOwnedWork

\* Every step of a request is balanced.
LEMMA RequestBalanced ==
    ASSUME IInv, NEW r \in Requests, Request(r)
    PROVE  Balanced(r)
<1> USE DEF IInv, TypeOK, RequestInv, Balanced, Holding, Owners, Admitting
<1>1. CASE Connect(r) \/ Mint(r) \/ RefuseCredentials(r) \/ DeadlinePasses(r)
             \/ CloseConnection(r)
    BY <1>1 DEF Connect, Mint, RefuseCredentials, DeadlinePasses,
                CloseConnection, Move
<1>2. CASE FirstCheckpoint(r) \/ Lease(r) \/ TryAcquire(r) \/ Admit(r)
    BY <1>2 DEF FirstCheckpoint, Lease, TryAcquire, Admit, PassCheckpoint, Move
<1>3. CASE SpawnWorker(r) BY <1>3 DEF SpawnWorker, OwnedBy
<1>4. CASE Respond(r) BY <1>4 DEF Respond, OwnedBy, Move
<1>5. CASE Interrupt(r) BY <1>5 DEF Interrupt, OwnedBy, Move
<1>6. CASE OwnerEnds(r) BY <1>6 DEF OwnerEnds, OwnedBy
<1>7. CASE Disconnect(r) BY <1>7 DEF Disconnect, OwnedBy, Move
<1> QED BY <1>1, <1>2, <1>3, <1>4, <1>5, <1>6, <1>7 DEF Request, Admission, Handling

-----------------------------------------------------------------------------
(* The steps of a request. *)

\* All of the type invariant but the bound on what is free.
ShapeOK ==
    /\ conn \in [Requests -> {"none", "open", "closed"}]
    /\ pc \in [Requests -> {"none", "minted", "checked", "leased", "permitted",
                            "handling", "responded", "rejected"}]
    /\ terminal \in [Requests -> Causes]
    /\ late \in [Requests -> BOOLEAN]
    /\ mintedIn \in [Requests -> {"none", "Running", "Draining", "Forced"}]
    /\ owners \in [Requests -> SUBSET Owners]
    /\ available \in Nat

\* Every step of a request keeps the types.
LEMMA RequestShape ==
    ASSUME IInv, NEW r \in Requests, Request(r)
    PROVE  ShapeOK'
<1> USE DEF IInv, TypeOK, ShapeOK, Causes, Owners
<1>1. CASE Connect(r) \/ CloseConnection(r)
    BY <1>1, ServeAssumption DEF Connect, CloseConnection
<1>12. CASE DeadlinePasses(r)
    <2>1. late' \in [Requests -> BOOLEAN]
        BY <1>12, Zenon DEF DeadlinePasses
    <2>2. UNCHANGED <<conn, pc, terminal, mintedIn, owners, available>>
        BY <1>12 DEF DeadlinePasses
    <2> QED BY <2>1, <2>2, ServeAssumption
<1>11. CASE RefuseCredentials(r) \/ Lease(r)
    BY <1>11, ServeAssumption DEF RefuseCredentials, Lease, Move
<1>2. CASE Mint(r) BY <1>2, ServeAssumption DEF Mint, Move, Ends
<1>3. CASE FirstCheckpoint(r)
    BY <1>3, ServeAssumption DEF FirstCheckpoint, PassCheckpoint, Checkpoint, Move, Ends
<1>4. CASE TryAcquire(r) BY <1>4, ServeAssumption DEF TryAcquire, Move
<1>5. CASE Admit(r)
    BY <1>5, ServeAssumption DEF Admit, PassCheckpoint, Checkpoint, Move, Ends
<1>6. CASE SpawnWorker(r) BY <1>6, ServeAssumption DEF SpawnWorker, OwnedBy
<1>7. CASE Respond(r) BY <1>7, ServeAssumption DEF Respond, OwnedBy, Move
<1>8. CASE Interrupt(r)
    BY <1>8, ServeAssumption DEF Interrupt, OwnedBy, Move, Ends
<1>9. CASE OwnerEnds(r)
    BY <1>9, ServeAssumption DEF OwnerEnds, OwnedBy, Ends, Checkpoint
<1>10. CASE Disconnect(r)
    BY <1>10, ServeAssumption DEF Disconnect, OwnedBy, Move, Ends
<1> QED BY <1>1, <1>2, <1>3, <1>4, <1>5, <1>6, <1>7, <1>8, <1>9, <1>10, <1>11, <1>12
        DEF Request, Admission, Handling

\* Every step of a request keeps its own invariants.
LEMMA RequestKeeps ==
    ASSUME IInv, NEW r \in Requests, Request(r)
    PROVE  RequestInv' /\ MintInv'
<1> USE DEF IInv, TypeOK, RequestInv, MintInv, Admitting, Causes, Owners
<1>1. CASE Connect(r) \/ DeadlinePasses(r) \/ CloseConnection(r)
             \/ RefuseCredentials(r) \/ Lease(r) \/ TryAcquire(r)
    BY <1>1
    DEF Connect, DeadlinePasses, CloseConnection, RefuseCredentials, Lease,
        TryAcquire, Move
<1>2. CASE Mint(r) BY <1>2 DEF Mint, Move, Ends
<1>3. CASE FirstCheckpoint(r)
    BY <1>3 DEF FirstCheckpoint, PassCheckpoint, Checkpoint, Move, Ends
<1>5. CASE Admit(r)
    BY <1>5 DEF Admit, PassCheckpoint, Checkpoint, Move, Ends
<1>6. CASE SpawnWorker(r) BY <1>6 DEF SpawnWorker, OwnedBy
<1>7. CASE Respond(r) BY <1>7 DEF Respond, OwnedBy, Move
<1>8. CASE Interrupt(r) BY <1>8 DEF Interrupt, OwnedBy, Move, Ends
<1>9. CASE OwnerEnds(r) BY <1>9 DEF OwnerEnds, OwnedBy, Ends, Checkpoint
<1>10. CASE Disconnect(r) BY <1>10 DEF Disconnect, OwnedBy, Move, Ends
<1> QED BY <1>1, <1>2, <1>3, <1>5, <1>6, <1>7, <1>8, <1>9, <1>10
        DEF Request, Admission, Handling

\* Once the serving task relies on it, no request comes to own work.
LEMMA RequestServing ==
    ASSUME IInv, NEW r \in Requests, Request(r)
    PROVE  ServingInv'
<1> USE DEF IInv, TypeOK, RequestInv, ServingInv, Admitting, Owners
<1>1. UNCHANGED <<phase, accepting, main, outcome>>
    BY DEF Request, Admission, Handling, Connect, Mint, RefuseCredentials,
           FirstCheckpoint, Lease, TryAcquire, Admit, SpawnWorker, Respond,
           Interrupt, DeadlinePasses, OwnerEnds, Disconnect, CloseConnection,
           shutdownVars, mainVars
<1>2. ServerDone => ServerDone'
    BY <1>1
    DEF ServerDone, Request, Admission, Handling, Connect, Mint,
        RefuseCredentials, FirstCheckpoint, Lease, TryAcquire, Admit,
        SpawnWorker, Respond, Interrupt, DeadlinePasses, OwnerEnds, Disconnect,
        CloseConnection
<1>3. ASSUME ServerDone \/ phase = "Forced", \A q \in Requests : owners[q] = {}
      PROVE  \A q \in Requests : owners'[q] = {}
    <2>1. ~Admit(r) \/ UNCHANGED owners
        BY <1>3 DEF Admit, PassCheckpoint, Checkpoint, ServerDone
    <2>2. ~SpawnWorker(r) /\ ~Respond(r) /\ ~Interrupt(r) /\ ~OwnerEnds(r)
        BY <1>3 DEF SpawnWorker, Respond, Interrupt, OwnerEnds
    <2>3. UNCHANGED owners
        BY <1>3, <2>1, <2>2
        DEF Request, Admission, Handling, Connect, Mint, RefuseCredentials,
            FirstCheckpoint, Lease, TryAcquire, DeadlinePasses, Disconnect,
            CloseConnection
    <2> QED BY <1>3, <2>3
<1>4. main = "gate" \/ (main = "returned" /\ outcome # "timedout")
          => ServerDone \/ phase = "Forced"
    OBVIOUS
<1> QED BY <1>1, <1>2, <1>3, <1>4
\* Altogether, the steps of a request keep the invariant.
LEMMA RequestStep ==
    ASSUME IInv, NEW r \in Requests, Request(r)
    PROVE  IInv'
<1>1. PermitsMatchOwnedWork'
    BY RequestBalanced, BalancedStep DEF IInv
<1>2. ShapeOK' BY RequestShape
<1>3. available' <= MaxConcurrent
    <2> DEFINE T == {q \in Requests : Holding(q)'}
    <2>1. IsFiniteSet(T) BY FS_Subset, ServeAssumption
    <2>2. Cardinality(T) \in Nat BY <2>1, FS_CardinalityType
    <2>3. available' + Cardinality(T) = MaxConcurrent
        BY <1>1 DEF PermitsMatchOwnedWork
    <2> QED BY <1>2, <2>2, <2>3, ServeAssumption DEF ShapeOK
<1>4. UNCHANGED <<shutdownVars, mainVars, controlVars>>
    BY DEF Request, Admission, Handling, Connect, Mint, RefuseCredentials,
           FirstCheckpoint, Lease, TryAcquire, Admit, SpawnWorker, Respond,
           Interrupt, DeadlinePasses, OwnerEnds, Disconnect, CloseConnection
<1>5. available' \in 0 .. MaxConcurrent
    BY <1>2, <1>3, ServeAssumption DEF ShapeOK
<1>6. TypeOK'
    BY <1>2, <1>4, <1>5
    DEF IInv, TypeOK, ShapeOK, shutdownVars, mainVars, controlVars
<1> QED BY <1>1, <1>6, RequestKeeps, RequestServing DEF IInv

-----------------------------------------------------------------------------
(* All other steps leave the requests alone. *)

\* What concerns requests is kept by steps that leave them alone.
LEMMA OtherKeeps ==
    ASSUME IInv, UNCHANGED requestVars
    PROVE  RequestInv' /\ MintInv' /\ PermitsMatchOwnedWork'
<1>1. \A r \in Requests : Holding(r)' <=> Holding(r) BY DEF requestVars, Holding
<1>2. {r \in Requests : Holding(r)'} = {r \in Requests : Holding(r)} BY <1>1
<1>3. PermitsMatchOwnedWork'
    BY <1>2 DEF IInv, PermitsMatchOwnedWork, requestVars
<1>4. RequestInv' /\ MintInv'
    BY DEF IInv, RequestInv, MintInv, requestVars
<1> QED BY <1>3, <1>4

\* The phases of shutdown and the coordinator with its gate.
LEMMA ShutdownStep ==
    ASSUME IInv, Shutdown \/ Control
    PROVE  IInv'
<1> USE DEF IInv, Shutdown, Control, SignalArrives, CloseRuntime, Announce,
            StopAccepting, CoordinatorTicks, AcquireGate, AttemptEnds,
            GateCleanupEnds, CoordinatorStops, BeginShutdown
<1>1. UNCHANGED requestVars OBVIOUS
<1>2. TypeOK'
    <2>1. closing' \in BOOLEAN /\ accepting' \in BOOLEAN
        BY Zenon DEF TypeOK, shutdownVars
    <2>2. /\ phase' \in {"Running", "Draining", "Forced"}
          /\ runtime' \in {"ready", "fenced", "closed"}
          /\ signal' \in {"waiting", "begun", "announced"}
          /\ coordinator' \in {"none", "tick", "acquire", "working", "stopped"}
          /\ gate' \in {"free", "attempt", "cleanup"}
        BY DEF TypeOK, shutdownVars, controlVars
    <2>3. UNCHANGED mainVars OBVIOUS
    <2> QED BY <1>1, <2>1, <2>2, <2>3 DEF TypeOK, requestVars, mainVars
<1>3. ServingInv'
    <2>1. UNCHANGED mainVars /\ (phase = "Forced" => phase' = "Forced")
        BY DEF TypeOK, shutdownVars
    <2>2. ~accepting => ~accepting' BY DEF shutdownVars
    <2>3. ServerDone => ServerDone' BY <1>1, <2>2 DEF ServerDone, requestVars
    <2> QED BY <1>1, <2>1, <2>3 DEF ServingInv, requestVars, mainVars
<1> QED BY <1>1, <1>2, <1>3, OtherKeeps

\* The serving task: joining, forcing, waiting and giving up.
LEMMA ServingStep ==
    ASSUME IInv, BackgroundEnds \/ Serving
    PROVE  IInv'
<1> USE DEF IInv, Serving, Graceful, BackgroundEnds, GracefulJoined,
            BackgroundFailed, BackgroundAwaited, SeePermitsFree, SeeGate,
            DrainBound, CleanupBound, ForceShutdown
<1>1. UNCHANGED requestVars OBVIOUS
<1>2. TypeOK'
    <2>1. closing' \in BOOLEAN /\ accepting' \in BOOLEAN
        BY DEF TypeOK, shutdownVars
    <2>2. /\ phase' \in {"Running", "Draining", "Forced"}
          /\ main' \in {"serving", "background", "owned", "gate", "returned"}
          /\ outcome' \in {"none", "drained", "forced", "failed", "timedout"}
          /\ background' \in {"running", "ok", "error"}
        BY DEF TypeOK, shutdownVars
    <2>3. UNCHANGED <<controlVars, signal>> BY DEF shutdownVars
    <2> QED BY <1>1, <2>1, <2>2, <2>3 DEF TypeOK, requestVars, controlVars
<1>3. ServingInv'
    <2> USE DEF ServingInv, ServerDone, requestVars, shutdownVars, TypeOK
    <2>1. CASE BackgroundEnds BY <2>1
    <2>2. CASE GracefulJoined BY <2>2
    <2>3. CASE BackgroundFailed \/ DrainBound BY <2>3
    <2>4. CASE BackgroundAwaited BY <2>4
    <2>5. CASE SeePermitsFree BY <2>5, AllFree DEF Holding
    <2>6. CASE SeeGate BY <2>6
    <2>7. CASE CleanupBound BY <2>7
    <2> QED BY <2>1, <2>2, <2>3, <2>4, <2>5, <2>6, <2>7
<1> QED BY <1>1, <1>2, <1>3, OtherKeeps

\* The invariant is inductive.
LEMMA IInvStep == IInv /\ [Next]_vars => IInv'
<1> SUFFICES ASSUME IInv, [Next]_vars PROVE IInv' OBVIOUS
<1>1. CASE UNCHANGED vars
    <2>1. UNCHANGED requestVars BY <1>1 DEF vars, requestVars
    <2>2. TypeOK' BY <1>1 DEF vars, IInv, TypeOK
    <2>3. ServingInv' BY <1>1 DEF vars, IInv, ServingInv, ServerDone
    <2> QED BY <2>1, <2>2, <2>3, OtherKeeps DEF IInv
<1> QED BY <1>1, RequestStep, ShutdownStep, ServingStep DEF Next

\* It holds throughout.
LEMMA SpecIInv == Spec => []IInv
    BY IInvInit, IInvStep, PTL DEF Spec

-----------------------------------------------------------------------------
(* Every variable keeps its type; in particular the semaphore never counts  *)
(* more permits than it was made with.                                      *)
THEOREM TypeCorrect == Spec => []TypeOK
<1>1. IInv => TypeOK BY DEF IInv
<1> QED BY <1>1, SpecIInv, PTL

(* A permit is missing for as long as, and only while, some clone of its    *)
(* request's budget lives, over every order of deadline, disconnect, worker *)
(* and producer.                                                            *)
THEOREM PermitsExact == Spec => []PermitsMatchOwnedWork
<1>1. IInv => PermitsMatchOwnedWork BY DEF IInv
<1> QED BY <1>1, SpecIInv, PTL

(* Serving that returns before its cleanup bound leaves no owned work, also *)
(* when a request is admitted around the moment the permits were counted.   *)
THEOREM NothingLeftBehind == Spec => []NothingOwnedAfterReturn
<1>1. IInv => NothingOwnedAfterReturn
    BY DEF IInv, ServingInv, NothingOwnedAfterReturn
<1> QED BY <1>1, SpecIInv, PTL

(* A budget minted after shutdown has begun never comes to own work.        *)
THEOREM LatecomersStayOut == Spec => []LatecomersNeverAdmitted
<1>1. IInv => LatecomersNeverAdmitted
    BY DEF IInv, MintInv, LatecomersNeverAdmitted
<1> QED BY <1>1, SpecIInv, PTL

(* Draining ends no admitted request; only forcing does.                    *)
THEOREM DrainSpares == Spec => DrainSparesAdmitted
<1> DEFINE A == \A r \in Requests :
          pc[r] \in {"permitted", "handling"} /\ terminal'[r] = "shutdown"
              => phase = "Forced"
<1>1. ASSUME IInv, [Next]_vars PROVE A
    <2> SUFFICES ASSUME NEW r \in Requests, pc[r] \in {"permitted", "handling"},
                        terminal'[r] = "shutdown"
                 PROVE  phase = "Forced"
        OBVIOUS
    <2>1. terminal[r] = "none" BY <1>1 DEF IInv, RequestInv, Admitting
    <2>2. terminal \in [Requests -> Causes] BY <1>1 DEF IInv, TypeOK
    <2>3. PICK q \in Requests : Request(q)
        BY <1>1, <2>1
        DEF Next, vars, Shutdown, Control, SignalArrives, CloseRuntime, Announce,
            StopAccepting, CoordinatorTicks, AcquireGate, AttemptEnds,
            GateCleanupEnds, Serving, Graceful, BackgroundEnds, GracefulJoined,
            BackgroundFailed, BackgroundAwaited, SeePermitsFree, SeeGate,
            DrainBound, CleanupBound, ForceShutdown, requestVars
    <2>4. q = r
        BY <2>1, <2>2, <2>3
        DEF Request, Admission, Handling, Connect, Mint, RefuseCredentials,
            FirstCheckpoint, Lease, TryAcquire, Admit, SpawnWorker, Respond,
            Interrupt, DeadlinePasses, OwnerEnds, Disconnect, CloseConnection,
            PassCheckpoint, Ends
    <2> QED
        BY <2>1, <2>2, <2>3, <2>4
        DEF Request, Admission, Handling, Connect, Mint, RefuseCredentials,
            FirstCheckpoint, Lease, TryAcquire, Admit, SpawnWorker, Respond,
            Interrupt, DeadlinePasses, OwnerEnds, Disconnect, CloseConnection,
            PassCheckpoint, Ends, Checkpoint
<1> QED BY <1>1, SpecIInv, PTL DEF Spec, DrainSparesAdmitted
=============================================================================
