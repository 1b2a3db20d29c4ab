--------------------------- MODULE AuthorityProofs ---------------------------
(***************************************************************************)
(* Proofs about the capture authority, for any runs, resources, requests,  *)
(* clock readings, fence bound and number of concurrent calls.             *)
(* First the atomic authority: the store of a live lease is never corrupt, *)
(* and fences order the leases of a resource.  Then the PostgreSQL store:  *)
(* with broken connections, lost COMMIT answers and dropped callers it     *)
(* implements the atomic one, for the head lock and the snapshot check     *)
(* make what a transaction planned on be what it commits on; so it         *)
(* inherits what is proved of the atomic one, and it tells its callers the *)
(* truth.                                                                  *)
(***************************************************************************)
EXTENDS PostgresAuthority, TLAPS


\* What one operation does, with plan_transition and finalize_transition
\* expanded for its kind.
LEMMA RegisterStep ==
  ASSUME NEW req, NEW now, Register(req, now)
  PROVE  /\ runs[req.run].phase = "Unregistered"
         /\ runs' = [runs EXCEPT ![req.run] =
              [NoRun EXCEPT !.phase = "Registered", !.claim = req.op.claim,
                            !.registration = Len(events) + 1]]
         /\ resources' = resources
         /\ events' = Append(events, req)
<1>1. req.op.kind = "Register"
  BY DEF Register
<1>2. Apply(req, now, 0)
  BY DEF Register
<1>3. AcceptsRegister(req.op, runs[req.run])
  BY <1>1, <1>2 DEF Apply, Accepts
<1>4. RunAfter(req, runs[req.run], Len(events) + 1, now, 0) =
        [NoRun EXCEPT !.phase = "Registered", !.claim = req.op.claim,
                      !.registration = Len(events) + 1]
  BY <1>1 DEF RunAfter
<1>5. ResourcesAfter(req, runs[req.run], resources, 0) = resources
  BY <1>1 DEF ResourcesAfter
<1> QED
  BY <1>2, <1>3, <1>4, <1>5 DEF Apply, AcceptsRegister

LEMMA GrantStep ==
  ASSUME NEW req, NEW now, NEW fence, GrantLease(req, now, fence)
  PROVE  /\ runs[req.run].phase = "Registered"
         /\ \A x \in req.op.resources : Reusable(resources[x]) /\ resources[x].fence < fence
         /\ runs' = [runs EXCEPT ![req.run] =
              [@ EXCEPT !.phase = "Leased",
                        !.lease = [event |-> Len(events) + 1, resources |-> req.op.resources,
                                   fence |-> fence, notAfter |-> now + req.op.duration,
                                   review |-> req.op.review]]]
         /\ resources' = Lease(resources, req.op.resources, req.run, fence)
         /\ events' = Append(events, req)
<1>1. req.op.kind = "GrantLease"
  BY DEF GrantLease
<1>2. Apply(req, now, fence)
  BY DEF GrantLease
<1>3. AcceptsGrant(req.op, runs[req.run], resources, fence)
  BY <1>1, <1>2 DEF Apply, Accepts
<1>4. RunAfter(req, runs[req.run], Len(events) + 1, now, fence) =
        [runs[req.run] EXCEPT !.phase = "Leased",
                  !.lease = [event |-> Len(events) + 1, resources |-> req.op.resources,
                             fence |-> fence, notAfter |-> now + req.op.duration,
                             review |-> req.op.review]]
  BY <1>1 DEF RunAfter
<1>5. ResourcesAfter(req, runs[req.run], resources, fence)
        = Lease(resources, req.op.resources, req.run, fence)
  BY <1>1 DEF ResourcesAfter
<1> QED
  BY <1>2, <1>3, <1>4, <1>5 DEF Apply, AcceptsGrant, IsNextFence

LEMMA StartStep ==
  ASSUME NEW req, NEW now, StartAttempt(req, now)
  PROVE  /\ runs[req.run].phase = "Leased"
         /\ runs' = [runs EXCEPT ![req.run] =
              [@ EXCEPT !.phase = "AttemptStarted", !.attempt = Len(events) + 1]]
         /\ resources' = Continue(resources, runs[req.run].lease.resources, "AttemptStarted")
         /\ events' = Append(events, req)
<1>1. req.op.kind = "StartAttempt"
  BY DEF StartAttempt
<1>2. Apply(req, now, 0)
  BY DEF StartAttempt
<1>3. AcceptsStart(req.run, req.op, runs[req.run], resources, now)
  BY <1>1, <1>2 DEF Apply, Accepts
<1>4. RunAfter(req, runs[req.run], Len(events) + 1, now, 0) =
        [runs[req.run] EXCEPT !.phase = "AttemptStarted", !.attempt = Len(events) + 1]
  BY <1>1 DEF RunAfter
<1>5. ResourcesAfter(req, runs[req.run], resources, 0)
        = Continue(resources, runs[req.run].lease.resources, "AttemptStarted")
  BY <1>1 DEF ResourcesAfter
<1> QED
  BY <1>2, <1>3, <1>4, <1>5 DEF Apply, AcceptsStart

\* A terminal before the start, or of the attempt: the run leaves its phase and
\* its resources, if it held any, take the disposition of the request.
LEMMA PreStartStep ==
  ASSUME NEW req, NEW now, PreStartTerminal(req, now)
  PROVE  /\ runs' = [runs EXCEPT ![req.run] =
              [@ EXCEPT !.phase = "PreStartTerminal",
                        !.terminal = TerminalOf(req.op, Len(events) + 1)]]
         /\ \/ /\ runs[req.run].phase = "Registered"
               /\ resources' = resources
            \/ /\ runs[req.run].phase = "Leased"
               /\ req.op.disposition \in {"ReleasedUnstarted", "Quarantined"}
               /\ resources' = Continue(resources, runs[req.run].lease.resources,
                                        req.op.disposition)
         /\ events' = Append(events, req)
<1>1. req.op.kind = "PreStartTerminal"
  BY DEF PreStartTerminal
<1>2. Apply(req, now, 0)
  BY DEF PreStartTerminal
<1>3. AcceptsPreStartTerminal(req.run, req.op, runs[req.run], resources, now)
  BY <1>1, <1>2 DEF Apply, Accepts
<1>4. ValidPreStartTerminal(req.op)
  <2>1. ValidOperation(req.op)
    BY <1>2 DEF Apply, Accepts
  <2> QED
    BY <1>1, <2>1 DEF ValidOperation
<1>5. RunAfter(req, runs[req.run], Len(events) + 1, now, 0) =
        [runs[req.run] EXCEPT !.phase = "PreStartTerminal",
                              !.terminal = TerminalOf(req.op, Len(events) + 1)]
  BY <1>1 DEF RunAfter
<1>6. runs' = [runs EXCEPT ![req.run] = RunAfter(req, @, Len(events) + 1, now, 0)]
  BY <1>2 DEF Apply
<1>7. CASE req.op.stage = "PreLease"
  <2>1. req.op.disposition = "None"
    BY <1>4, <1>7 DEF ValidPreStartTerminal
  <2>2. ResourcesAfter(req, runs[req.run], resources, 0) = resources
    BY <1>1, <2>1 DEF ResourcesAfter
  <2>3. runs[req.run].phase = "Registered"
    BY <1>3, <1>7 DEF AcceptsPreStartTerminal
  <2> QED
    BY <1>2, <1>5, <1>6, <2>2, <2>3 DEF Apply
<1>8. CASE req.op.stage = "LeasedPreStart"
  <2>1. req.op.disposition \in {"ReleasedUnstarted", "Quarantined"}
    BY <1>4, <1>8 DEF ValidPreStartTerminal
  <2>2. ResourcesAfter(req, runs[req.run], resources, 0)
          = Continue(resources, runs[req.run].lease.resources, req.op.disposition)
    BY <1>1, <2>1 DEF ResourcesAfter
  <2>3. runs[req.run].phase = "Leased"
    BY <1>3, <1>8 DEF AcceptsPreStartTerminal
  <2> QED
    BY <1>2, <1>5, <1>6, <2>1, <2>2, <2>3 DEF Apply
<1> QED
  BY <1>3, <1>7, <1>8 DEF AcceptsPreStartTerminal

LEMMA AttemptTerminalStep ==
  ASSUME NEW req, NEW now, AttemptTerminal(req, now)
  PROVE  /\ runs[req.run].phase = "AttemptStarted"
         /\ req.op.outcome = "CandidateComplete" =>
              req.op.disposition = "ReleasedAfterCleanup"
         /\ req.op.kind = "AttemptTerminal"
         /\ runs' = [runs EXCEPT ![req.run] =
              [@ EXCEPT !.phase = IF req.op.outcome = "CandidateComplete"
                                  THEN "CandidateSuccessAwaitingFinal"
                                  ELSE "FailedFinalOptional",
                        !.terminal = TerminalOf(req.op, Len(events) + 1)]]
         /\ resources' = Continue(resources, runs[req.run].lease.resources, req.op.disposition)
         /\ events' = Append(events, req)
<1>1. req.op.kind = "AttemptTerminal"
  BY DEF AttemptTerminal
<1>2. Apply(req, now, 0)
  BY DEF AttemptTerminal
<1>3. AcceptsAttemptTerminal(req.run, req.op, runs[req.run], resources)
  BY <1>1, <1>2 DEF Apply, Accepts
<1>4. ValidOutcome(req.op)
  <2>1. ValidOperation(req.op)
    BY <1>2 DEF Apply, Accepts
  <2> QED
    BY <1>1, <2>1 DEF ValidOperation
<1>5. req.op.outcome = "CandidateComplete" => req.op.disposition = "ReleasedAfterCleanup"
  BY <1>4 DEF ValidOutcome
<1>6. RunAfter(req, runs[req.run], Len(events) + 1, now, 0) =
        [runs[req.run] EXCEPT !.phase = IF req.op.outcome = "CandidateComplete"
                                        THEN "CandidateSuccessAwaitingFinal"
                                        ELSE "FailedFinalOptional",
                              !.terminal = TerminalOf(req.op, Len(events) + 1)]
  BY <1>1 DEF RunAfter
<1>7. ResourcesAfter(req, runs[req.run], resources, 0)
        = Continue(resources, runs[req.run].lease.resources, req.op.disposition)
  BY <1>1 DEF ResourcesAfter
<1> QED
  BY <1>1, <1>2, <1>3, <1>5, <1>6, <1>7 DEF Apply, AcceptsAttemptTerminal

LEMMA FinalWitnessStep ==
  ASSUME NEW req, NEW now, FinalWitness(req, now)
  PROVE  /\ runs[req.run].phase = "CandidateSuccessAwaitingFinal"
         /\ runs' = [runs EXCEPT ![req.run] =
              [@ EXCEPT !.phase = "FinalWitnessed", !.witness = Len(events) + 1]]
         /\ resources' = resources
         /\ events' = Append(events, req)
<1>1. req.op.kind = "FinalWitness"
  BY DEF FinalWitness
<1>2. Apply(req, now, 0)
  BY DEF FinalWitness
<1>3. AcceptsFinalWitness(req.op, runs[req.run])
  BY <1>1, <1>2 DEF Apply, Accepts
<1>4. RunAfter(req, runs[req.run], Len(events) + 1, now, 0) =
        [runs[req.run] EXCEPT !.phase = "FinalWitnessed", !.witness = Len(events) + 1]
  BY <1>1 DEF RunAfter
<1>5. ResourcesAfter(req, runs[req.run], resources, 0) = resources
  BY <1>1 DEF ResourcesAfter
<1> QED
  BY <1>2, <1>3, <1>4, <1>5 DEF Apply, AcceptsFinalWitness

-----------------------------------------------------------------------------
LEMMA Typed ==
  ASSUME NEW req \in Requests
  PROVE  /\ req \in Request
         /\ req.run \in Runs
         /\ req.op.kind \in {"Register", "GrantLease", "StartAttempt", "PreStartTerminal",
                             "AttemptTerminal", "FinalWitness"}
         /\ req.op.kind = "Register" => req.op.claim \in Claims
         /\ req.op.kind = "GrantLease" =>
              /\ req.op.resources \in SUBSET Resources
              /\ req.op.duration \in Nat
              /\ req.op.review \in SUBSET Receipts
         /\ req.op.kind = "PreStartTerminal" =>
              req.op.disposition \in Dispositions \cup {"None"}
         /\ req.op.kind = "AttemptTerminal" =>
              /\ req.op.outcome \in AttemptOutcomes
              /\ req.op.disposition \in Dispositions
              /\ req.op.outputs \in Outputs \cup {NoOutputs}
<1>1. req \in Request
  BY PlannerAssumption
<1>2. req.run \in Runs /\ req.op \in Operation
  BY <1>1 DEF Request
<1> QED
  BY <1>1, <1>2 DEF Operation

LEMMA NoRunTyped == NoRun \in [phase : Phases, claim : {"None"}, registration : Nat,
                               lease : LeaseState, attempt : Nat, terminal : TerminalState,
                               witness : Nat]
<1>1. NoLease \in LeaseState
  BY DEF NoLease, LeaseState
<1>2. NoTerminal \in TerminalState
  BY DEF NoTerminal, TerminalState
<1> QED
  BY <1>1, <1>2 DEF NoRun, Phases

\* finalize_transition keeps rows well formed: that of the run ...
LEMMA RunTyped ==
  ASSUME NEW req \in Requests, NEW run \in RunState, NEW seq \in Nat, NEW now \in Times,
         NEW fence \in 0..MaxFence
  PROVE  RunAfter(req, run, seq, now, fence) \in RunState
<1>1. CASE req.op.kind = "Register"
  <2>1. req.op.claim \in Claims
    BY <1>1, Typed
  <2> QED
    BY <1>1, <2>1, NoRunTyped DEF RunAfter, RunState, Phases
<1>2. CASE req.op.kind = "GrantLease"
  <2>1. req.op.resources \in SUBSET Resources /\ req.op.duration \in Nat
        /\ req.op.review \in SUBSET Receipts
    BY <1>2, Typed
  <2>2. fence \in Nat /\ now \in Int
    BY PlannerAssumption
  <2>3. [event |-> seq, resources |-> req.op.resources, fence |-> fence,
         notAfter |-> now + req.op.duration, review |-> req.op.review] \in LeaseState
    BY <2>1, <2>2 DEF LeaseState
  <2> QED
    BY <1>2, <2>3 DEF RunAfter, RunState, Phases
<1>3. CASE req.op.kind = "StartAttempt"
  BY <1>3 DEF RunAfter, RunState, Phases
<1>4. CASE req.op.kind \in {"PreStartTerminal", "AttemptTerminal"}
  <2>1. TerminalOf(req.op, seq) \in TerminalState
    BY <1>4, Typed DEF TerminalOf, TerminalState
  <2> QED
    BY <1>4, <2>1 DEF RunAfter, RunState, Phases
<1>5. CASE req.op.kind = "FinalWitness"
  BY <1>5 DEF RunAfter, RunState, Phases
<1> QED
  BY <1>1, <1>2, <1>3, <1>4, <1>5, Typed

\* ... and those of the resources.
LEMMA ResourcesTyped ==
  ASSUME NEW req \in Requests, NEW run, NEW rows \in [Resources -> ResourceState],
         NEW fence \in 0..MaxFence
  PROVE  ResourcesAfter(req, run, rows, fence) \in [Resources -> ResourceState]
<1>1. ASSUME NEW members, NEW d \in Dispositions
      PROVE  Continue(rows, members, d) \in [Resources -> ResourceState]
  BY DEF Continue, ResourceState
<1>2. ASSUME NEW members, NEW r \in Runs
      PROVE  Lease(rows, members, r, fence) \in [Resources -> ResourceState]
  <2>1. fence \in Nat /\ "HeldPreStart" \in Dispositions
    BY PlannerAssumption DEF Dispositions
  <2> QED
    BY <2>1 DEF Lease, ResourceState
<1>3. "AttemptStarted" \in Dispositions
  BY DEF Dispositions
<1> QED
  BY <1>1, <1>2, <1>3, Typed DEF ResourcesAfter

\* Every operation keeps the stored rows well formed.
LEMMA TypeStep == TypeOK /\ [Next]_vars => TypeOK'
<1> SUFFICES ASSUME TypeOK, [Next]_vars PROVE TypeOK'
  OBVIOUS
<1>1. CASE Next
  <2>1. PICK req \in Requests, now \in Times, fence \in 0..MaxFence : Apply(req, now, fence)
    <3>1. 0 \in 0..MaxFence
      BY PlannerAssumption
    <3> QED
      BY <1>1, <3>1 DEF Next, Register, GrantLease, StartAttempt, PreStartTerminal,
         AttemptTerminal, FinalWitness
  <2>2. req \in Request /\ req.run \in Runs /\ Len(events) + 1 \in Nat
    BY Typed DEF TypeOK
  <2>3. runs[req.run] \in RunState
    BY <2>2 DEF TypeOK
  <2>4. RunAfter(req, runs[req.run], Len(events) + 1, now, fence) \in RunState
    BY <2>2, <2>3, RunTyped
  <2>5. runs' \in [Runs -> RunState]
    BY <2>1, <2>4 DEF TypeOK, Apply
  <2>6. resources' \in [Resources -> ResourceState]
    BY <2>1, ResourcesTyped DEF TypeOK, Apply
  <2>7. events' \in Seq(Request)
    BY <2>1, <2>2 DEF TypeOK, Apply
  <2> QED
    BY <2>5, <2>6, <2>7 DEF TypeOK
<1>2. CASE UNCHANGED vars
  BY <1>2 DEF TypeOK, vars
<1> QED
  BY <1>1, <1>2

-----------------------------------------------------------------------------
(***************************************************************************)
(* The inductive invariant.  Fences order leases because no fence of a     *)
(* resource is ever below that of a lease that listed it, and every lease  *)
(* is an event of the log, older than the next one.                        *)
(***************************************************************************)
LeasesInLog ==
  \A r \in Runs :
    /\ runs[r].lease.event <= Len(events)
    /\ runs[r].phase \in {"Unregistered", "Registered"} => runs[r].lease = NoLease

FenceHighWater ==
  \A r \in Runs : \A x \in runs[r].lease.resources :
    runs[r].lease.fence <= resources[x].fence

Inv ==
  /\ TypeOK
  /\ LeasesInLog
  /\ FenceHighWater
  /\ LiveLeasesContinue
  /\ FencesOrderLeases
  /\ SuccessLeavesCleanResources

Succeeded == {"CandidateSuccessAwaitingFinal", "FinalWitnessed"}
Live == {"Leased", "AttemptStarted"}

\* The three shapes of a step, by what it does to leases and resources.
OthersKeepPhase(r) == \A s \in Runs \ {r} : runs'[s].phase = runs[s].phase

LeasesKept == \A s \in Runs : runs'[s].lease = runs[s].lease

Quiet(r) ==
  /\ r \in Runs
  /\ LeasesKept
  /\ OthersKeepPhase(r)
  /\ runs'[r].phase \notin Live
  /\ runs'[r].phase = "Registered" => runs[r].phase = "Unregistered"
  /\ runs'[r].phase # "Unregistered"
  /\ runs'[r].phase \in Succeeded => runs[r].phase \in Succeeded
  /\ resources' = resources
  /\ Len(events') = Len(events) + 1

Granted(r, members, fence) ==
  /\ r \in Runs
  /\ members \subseteq Resources
  /\ fence \in Nat
  /\ runs[r].phase = "Registered"
  /\ runs'[r].phase = "Leased"
  /\ OthersKeepPhase(r)
  /\ \A s \in Runs \ {r} : runs'[s].lease = runs[s].lease
  /\ runs'[r].lease.event = Len(events) + 1
  /\ runs'[r].lease.resources = members
  /\ runs'[r].lease.fence = fence
  /\ \A x \in members : Reusable(resources[x]) /\ resources[x].fence < fence
  /\ resources' = Lease(resources, members, r, fence)
  /\ Len(events') = Len(events) + 1

Continued(r, d) ==
  /\ r \in Runs
  /\ LeasesKept
  /\ OthersKeepPhase(r)
  /\ runs[r].phase \in Live
  /\ runs'[r].phase \notin {"Unregistered", "Registered", "Leased"}
  /\ runs'[r].phase = "AttemptStarted" => d = "AttemptStarted"
  /\ runs'[r].phase \in Succeeded => d = "ReleasedAfterCleanup"
  /\ resources' = Continue(resources, runs[r].lease.resources, d)
  /\ Len(events') = Len(events) + 1

LEMMA Shapes ==
  ASSUME Inv, Next
  PROVE  \/ \E r \in Runs : Quiet(r)
         \/ \E r \in Runs : \E members, fence : Granted(r, members, fence)
         \/ \E r \in Runs : \E d : Continued(r, d)
<1> USE DEF Inv
<1>0. ASSUME NEW req \in Requests, events' = Append(events, req)
      PROVE  Len(events') = Len(events) + 1
  BY <1>0, Typed DEF TypeOK
<1>e. ASSUME NEW req \in Requests, NEW run, runs' = [runs EXCEPT ![req.run] = run]
      PROVE  /\ req.run \in Runs
             /\ runs'[req.run] = run
             /\ \A s \in Runs \ {req.run} : runs'[s] = runs[s]
  BY <1>e, Typed DEF TypeOK
<1>f. \A r \in Runs : runs[r] \in RunState
  BY DEF TypeOK
<1>1. ASSUME NEW req \in Requests, NEW now \in Times, Register(req, now) PROVE Quiet(req.run)
  <2> DEFINE run == [NoRun EXCEPT !.phase = "Registered", !.claim = req.op.claim,
                                  !.registration = Len(events) + 1]
  <2>1. /\ runs[req.run].phase = "Unregistered"
        /\ runs' = [runs EXCEPT ![req.run] = run]
        /\ resources' = resources
        /\ events' = Append(events, req)
    BY <1>1, RegisterStep
  <2>2. run.phase = "Registered" /\ run.lease = NoLease
    BY DEF NoRun
  <2> HIDE DEF run
  <2>3. req.run \in Runs /\ runs'[req.run] = run
        /\ \A s \in Runs \ {req.run} : runs'[s] = runs[s]
    BY <2>1, <1>e
  <2>4. runs[req.run].lease = NoLease
    BY <2>1, <2>3 DEF LeasesInLog
  <2> QED
    BY <1>0, <2>1, <2>2, <2>3, <2>4 DEF Quiet, LeasesKept, OthersKeepPhase, Live, Succeeded
<1>2. ASSUME NEW req \in Requests, NEW now \in Times, NEW fence \in 0..MaxFence,
             GrantLease(req, now, fence)
      PROVE  Granted(req.run, req.op.resources, fence)
  <2> DEFINE lease == [event |-> Len(events) + 1, resources |-> req.op.resources,
                       fence |-> fence, notAfter |-> now + req.op.duration,
                       review |-> req.op.review]
             run == [runs[req.run] EXCEPT !.phase = "Leased", !.lease = lease]
  <2>1. /\ runs[req.run].phase = "Registered"
        /\ \A x \in req.op.resources : Reusable(resources[x]) /\ resources[x].fence < fence
        /\ runs' = [runs EXCEPT ![req.run] = run]
        /\ resources' = Lease(resources, req.op.resources, req.run, fence)
        /\ events' = Append(events, req)
    BY <1>2, GrantStep
  <2>2. req.op.kind = "GrantLease"
    BY <1>2 DEF GrantLease
  <2>3. req.op.resources \in SUBSET Resources /\ req.run \in Runs
    BY <2>2, Typed
  <2>4. run.phase = "Leased" /\ run.lease = lease
    BY <1>f, <2>3 DEF RunState
  <2>5. run.lease.event = Len(events) + 1 /\ run.lease.resources = req.op.resources
        /\ run.lease.fence = fence
    BY <2>4
  <2> HIDE DEF run, lease
  <2>6. runs'[req.run] = run /\ \A s \in Runs \ {req.run} : runs'[s] = runs[s]
    BY <2>1, <1>e
  <2>7. fence \in Nat
    BY PlannerAssumption
  <2> QED
    BY <1>0, <2>1, <2>3, <2>4, <2>5, <2>6, <2>7 DEF Granted, OthersKeepPhase
<1>3. ASSUME NEW req \in Requests, NEW now \in Times, StartAttempt(req, now)
      PROVE  Continued(req.run, "AttemptStarted")
  <2> DEFINE run == [runs[req.run] EXCEPT !.phase = "AttemptStarted",
                                          !.attempt = Len(events) + 1]
  <2>1. /\ runs[req.run].phase = "Leased"
        /\ runs' = [runs EXCEPT ![req.run] = run]
        /\ resources' = Continue(resources, runs[req.run].lease.resources, "AttemptStarted")
        /\ events' = Append(events, req)
    BY <1>3, StartStep
  <2>2. req.run \in Runs
    BY Typed
  <2>3. run.phase = "AttemptStarted" /\ run.lease = runs[req.run].lease
    BY <1>f, <2>2 DEF RunState
  <2> HIDE DEF run
  <2>4. runs'[req.run] = run /\ \A s \in Runs \ {req.run} : runs'[s] = runs[s]
    BY <2>1, <1>e
  <2> QED
    BY <1>0, <2>1, <2>2, <2>3, <2>4
       DEF Continued, LeasesKept, OthersKeepPhase, Live, Succeeded
<1>4. ASSUME NEW req \in Requests, NEW now \in Times, PreStartTerminal(req, now)
      PROVE  Quiet(req.run) \/ Continued(req.run, req.op.disposition)
  <2> DEFINE run == [runs[req.run] EXCEPT !.phase = "PreStartTerminal",
                                          !.terminal = TerminalOf(req.op, Len(events) + 1)]
  <2>1. runs' = [runs EXCEPT ![req.run] = run] /\ events' = Append(events, req)
    BY <1>4, PreStartStep
  <2>2. \/ runs[req.run].phase = "Registered" /\ resources' = resources
        \/ /\ runs[req.run].phase = "Leased"
           /\ resources' = Continue(resources, runs[req.run].lease.resources,
                                    req.op.disposition)
    BY <1>4, PreStartStep
  <2>3. req.run \in Runs
    BY Typed
  <2>4. run.phase = "PreStartTerminal" /\ run.lease = runs[req.run].lease
    BY <1>f, <2>3 DEF RunState
  <2> HIDE DEF run
  <2>5. runs'[req.run] = run /\ \A s \in Runs \ {req.run} : runs'[s] = runs[s]
    BY <2>1, <1>e
  <2> QED
    BY <1>0, <2>1, <2>2, <2>3, <2>4, <2>5
       DEF Quiet, Continued, LeasesKept, OthersKeepPhase, Live, Succeeded
<1>5. ASSUME NEW req \in Requests, NEW now \in Times, AttemptTerminal(req, now)
      PROVE  Continued(req.run, req.op.disposition)
  <2> DEFINE phase == IF req.op.outcome = "CandidateComplete"
                      THEN "CandidateSuccessAwaitingFinal"
                      ELSE "FailedFinalOptional"
             run == [runs[req.run] EXCEPT !.phase = phase,
                       !.terminal = TerminalOf(req.op, Len(events) + 1)]
  <2>1. /\ runs[req.run].phase = "AttemptStarted"
        /\ req.op.outcome = "CandidateComplete" =>
             req.op.disposition = "ReleasedAfterCleanup"
        /\ runs' = [runs EXCEPT ![req.run] = run]
        /\ resources' = Continue(resources, runs[req.run].lease.resources, req.op.disposition)
        /\ events' = Append(events, req)
    BY <1>5, AttemptTerminalStep
  <2>2. req.run \in Runs
    BY Typed
  <2>3. run.phase = phase /\ run.lease = runs[req.run].lease
    BY <1>f, <2>2 DEF RunState
  <2> HIDE DEF run
  <2>4. runs'[req.run] = run /\ \A s \in Runs \ {req.run} : runs'[s] = runs[s]
    BY <2>1, <1>e
  <2> QED
    BY <1>0, <2>1, <2>2, <2>3, <2>4
       DEF Continued, LeasesKept, OthersKeepPhase, Live, Succeeded
<1>6. ASSUME NEW req \in Requests, NEW now \in Times, FinalWitness(req, now) PROVE Quiet(req.run)
  <2> DEFINE run == [runs[req.run] EXCEPT !.phase = "FinalWitnessed",
                                          !.witness = Len(events) + 1]
  <2>1. /\ runs[req.run].phase = "CandidateSuccessAwaitingFinal"
        /\ runs' = [runs EXCEPT ![req.run] = run]
        /\ resources' = resources
        /\ events' = Append(events, req)
    BY <1>6, FinalWitnessStep
  <2>2. req.run \in Runs
    BY Typed
  <2>3. run.phase = "FinalWitnessed" /\ run.lease = runs[req.run].lease
    BY <1>f, <2>2 DEF RunState
  <2> HIDE DEF run
  <2>4. runs'[req.run] = run /\ \A s \in Runs \ {req.run} : runs'[s] = runs[s]
    BY <2>1, <1>e
  <2> QED
    BY <1>0, <2>1, <2>2, <2>3, <2>4 DEF Quiet, LeasesKept, OthersKeepPhase, Live, Succeeded
<1>7. \A req \in Requests : req.run \in Runs
  BY Typed
<1> QED
  BY <1>1, <1>2, <1>3, <1>4, <1>5, <1>6, <1>7 DEF Next

\* The other conjuncts of Inv.
Safe ==
  LeasesInLog /\ FenceHighWater /\ LiveLeasesContinue /\ FencesOrderLeases
    /\ SuccessLeavesCleanResources

LEMMA QuietStep ==
  ASSUME Inv, NEW r \in Runs, Quiet(r)
  PROVE  Safe'
<1> USE DEF Inv
<1>k. /\ \A s \in Runs : runs'[s].lease = runs[s].lease
      /\ \A s \in Runs : s # r => runs'[s].phase = runs[s].phase
      /\ resources' = resources
      /\ Len(events') = Len(events) + 1
      /\ Len(events) \in Nat
      /\ runs'[r].phase \notin {"Leased", "AttemptStarted", "Unregistered"}
      /\ runs'[r].phase = "Registered" => runs[r].phase = "Unregistered"
      /\ runs'[r].phase \in Succeeded => runs[r].phase \in Succeeded
  BY DEF Quiet, LeasesKept, OthersKeepPhase, Live, TypeOK
<1>t. \A s \in Runs : runs[s].lease.event \in Nat
  BY DEF TypeOK, RunState, LeaseState
<1>1. LeasesInLog'
  BY <1>k, <1>t DEF LeasesInLog
<1>2. FenceHighWater'
  BY <1>k DEF FenceHighWater
<1>3. LiveLeasesContinue'
  BY <1>k DEF LiveLeasesContinue, Continues
<1>4. FencesOrderLeases'
  BY <1>k DEF FencesOrderLeases
<1>5. SuccessLeavesCleanResources'
  BY <1>k DEF SuccessLeavesCleanResources, Succeeded
<1> QED
  BY <1>1, <1>2, <1>3, <1>4, <1>5 DEF Safe

LEMMA GrantedStep ==
  ASSUME Inv, NEW r \in Runs, NEW members, NEW fence, Granted(r, members, fence)
  PROVE  Safe'
<1> USE DEF Inv
<1>k. /\ \A s \in Runs : s # r => runs'[s].lease = runs[s].lease /\ runs'[s].phase = runs[s].phase
      /\ runs[r].phase = "Registered" /\ runs'[r].phase = "Leased"
      /\ runs'[r].lease.event = Len(events) + 1
      /\ runs'[r].lease.resources = members
      /\ runs'[r].lease.fence = fence
      /\ Len(events') = Len(events) + 1
      /\ Len(events) \in Nat
      /\ members \subseteq Resources
      /\ fence \in Nat
  BY DEF Granted, OthersKeepPhase, TypeOK
<1>t. \A s \in Runs : /\ runs[s].lease.event \in Nat
                      /\ runs[s].lease.resources \subseteq Resources
                      /\ runs[s].lease.fence \in Nat
  BY DEF TypeOK, RunState, LeaseState
<1>u. \A x \in Resources : resources[x].fence \in Nat
  BY DEF TypeOK, ResourceState
<1>m. /\ \A x \in members : /\ resources[x].fence < fence
                            /\ resources[x].disposition \notin {"HeldPreStart", "AttemptStarted"}
                            /\ resources'[x] = [fence |-> fence, disposition |-> "HeldPreStart",
                                                owner |-> r]
      /\ \A x \in Resources \ members : resources'[x] = resources[x]
  BY <1>k DEF Granted, Lease, Reusable
<1>1. LeasesInLog'
  BY <1>k, <1>t DEF LeasesInLog
<1>2. FenceHighWater'
  <2> SUFFICES ASSUME NEW s \in Runs, NEW x \in runs'[s].lease.resources
               PROVE  runs'[s].lease.fence <= resources'[x].fence
    BY DEF FenceHighWater
  <2>1. CASE s = r
    BY <2>1, <1>k, <1>m
  <2>2. CASE s # r
    <3>1. x \in Resources /\ runs[s].lease.fence <= resources[x].fence
      BY <2>2, <1>k, <1>t DEF FenceHighWater
    <3> QED
      BY <2>2, <3>1, <1>k, <1>t, <1>u, <1>m
  <2> QED
    BY <2>1, <2>2
<1>3. LiveLeasesContinue'
  <2>1. Continues(r, runs[r].lease, resources, "HeldPreStart")' 
    BY <1>k, <1>m DEF Continues
  <2>2. ASSUME NEW s \in Runs, s # r, NEW d \in {"HeldPreStart", "AttemptStarted"},
               Continues(s, runs[s].lease, resources, d)
        PROVE  Continues(s, runs'[s].lease, resources', d)
    <3> SUFFICES ASSUME NEW x \in runs[s].lease.resources
                 PROVE  resources'[x] = [fence |-> runs[s].lease.fence, disposition |-> d,
                                         owner |-> s]
      BY <2>2, <1>k DEF Continues
    <3>1. resources[x] = [fence |-> runs[s].lease.fence, disposition |-> d, owner |-> s]
      BY <2>2 DEF Continues
    <3>2. resources[x].disposition = d
      BY <3>1
    <3>3. x \notin members
      BY <3>2, <1>m
    <3> QED
      BY <3>1, <3>3, <1>t, <1>m
  <2> QED
    BY <2>1, <2>2, <1>k DEF LiveLeasesContinue
<1>4. FencesOrderLeases'
  <2> SUFFICES ASSUME NEW s \in Runs, NEW t \in Runs,
                      0 < runs'[s].lease.event,
                      runs'[s].lease.event < runs'[t].lease.event,
                      runs'[s].lease.resources \cap runs'[t].lease.resources # {}
               PROVE  runs'[s].lease.fence < runs'[t].lease.fence
    BY DEF FencesOrderLeases
  <2>1. CASE s # r /\ t # r
    BY <2>1, <1>k DEF FencesOrderLeases
  <2>2. CASE s # r /\ t = r
    <3>1. PICK x \in runs[s].lease.resources : x \in members
      BY <2>2, <1>k
    <3>2. runs[s].lease.fence <= resources[x].fence /\ resources[x].fence < fence
          /\ x \in Resources
      BY <3>1, <1>m, <1>t DEF FenceHighWater
    <3> QED
      BY <2>2, <3>2, <1>k, <1>t, <1>u
  <2>3. CASE s = r
    <3>1. runs'[t].lease.event <= Len(events) \/ t = r
      BY <1>k DEF LeasesInLog
    <3> QED
      BY <2>3, <3>1, <1>k, <1>t
  <2> QED
    BY <2>1, <2>2, <2>3
<1>5. SuccessLeavesCleanResources'
  <2> SUFFICES ASSUME NEW s \in Runs, runs'[s].phase \in Succeeded,
                      NEW x \in runs'[s].lease.resources
               PROVE  \/ resources'[x].fence > runs'[s].lease.fence
                      \/ resources'[x] = [fence |-> runs'[s].lease.fence,
                                          disposition |-> "ReleasedAfterCleanup",
                                          owner |-> NoOwner]
    BY DEF SuccessLeavesCleanResources, Succeeded
  <2>1. s # r /\ runs[s].phase \in Succeeded /\ x \in runs[s].lease.resources
        /\ runs'[s].lease = runs[s].lease /\ x \in Resources
    BY <1>k, <1>t DEF Succeeded
  <2>2. \/ resources[x].fence > runs[s].lease.fence
        \/ resources[x] = [fence |-> runs[s].lease.fence,
                           disposition |-> "ReleasedAfterCleanup", owner |-> NoOwner]
    BY <2>1 DEF SuccessLeavesCleanResources, Succeeded
  <2>3. runs[s].lease.fence <= resources[x].fence
    BY <2>1 DEF FenceHighWater
  <2>4. CASE x \in members
    <3>1. resources'[x].fence = fence /\ resources[x].fence < fence
      BY <2>4, <1>m
    <3> QED
      BY <3>1, <2>1, <2>3, <1>t, <1>u, <1>k
  <2>5. CASE x \notin members
    BY <2>5, <2>1, <2>2, <1>m
  <2> QED
    BY <2>4, <2>5
<1> QED
  BY <1>1, <1>2, <1>3, <1>4, <1>5 DEF Safe

\* A run with a live lease owns its resources, under its fence.
LEMMA HolderOwns ==
  ASSUME LiveLeasesContinue, NEW t \in Runs, runs[t].phase \in {"Leased", "AttemptStarted"},
         NEW x \in runs[t].lease.resources
  PROVE  resources[x].fence = runs[t].lease.fence /\ resources[x].owner = t
<1>1. PICK d : Continues(t, runs[t].lease, resources, d)
  BY DEF LiveLeasesContinue
<1>2. resources[x] = [fence |-> runs[t].lease.fence, disposition |-> d, owner |-> t]
  BY <1>1 DEF Continues
<1> QED
  BY <1>2

LEMMA ContinuedStep ==
  ASSUME Inv, NEW r \in Runs, NEW d, Continued(r, d)
  PROVE  Safe'
<1> USE DEF Inv
<1> DEFINE held == runs[r].lease.resources
<1>k. /\ \A s \in Runs : runs'[s].lease = runs[s].lease
      /\ \A s \in Runs : s # r => runs'[s].phase = runs[s].phase
      /\ runs[r].phase \in {"Leased", "AttemptStarted"}
      /\ runs'[r].phase \notin {"Unregistered", "Registered", "Leased"}
      /\ runs'[r].phase = "AttemptStarted" => d = "AttemptStarted"
      /\ runs'[r].phase \in Succeeded => d = "ReleasedAfterCleanup"
      /\ Len(events') = Len(events) + 1
      /\ Len(events) \in Nat
  BY DEF Continued, LeasesKept, OthersKeepPhase, Live, TypeOK
<1>t. \A s \in Runs : /\ runs[s].lease.event \in Nat
                      /\ runs[s].lease.resources \subseteq Resources
                      /\ runs[s].lease.fence \in Nat
  BY DEF TypeOK, RunState, LeaseState
<1>o. \A x \in held : resources[x].fence = runs[r].lease.fence /\ resources[x].owner = r
  BY <1>k, HolderOwns
<1>m. /\ \A x \in held :
           resources'[x] = [fence |-> runs[r].lease.fence, disposition |-> d,
                            owner |-> IF d \in {"HeldPreStart", "AttemptStarted"}
                                      THEN r ELSE NoOwner]
      /\ \A x \in Resources \ held : resources'[x] = resources[x]
  BY <1>o, <1>t DEF Continued, Continue
<1>f. \A x \in Resources : resources'[x].fence = resources[x].fence
  BY <1>m, <1>o
<1>1. LeasesInLog'
  BY <1>k, <1>t DEF LeasesInLog
<1>2. FenceHighWater'
  BY <1>k, <1>t, <1>f DEF FenceHighWater
<1>n. ASSUME NEW s \in Runs, s # r, NEW x \in runs[s].lease.resources, NEW e, NEW f,
             resources[x] = [fence |-> f, disposition |-> e, owner |-> s]
      PROVE  resources'[x] = resources[x]
  <2>1. resources[x].owner = s
    BY <1>n
  <2> QED
    BY <2>1, <1>n, <1>o, <1>m, <1>t
<1>3. LiveLeasesContinue'
  <2>1. runs'[r].phase = "AttemptStarted" =>
          Continues(r, runs'[r].lease, resources', "AttemptStarted")
    BY <1>k, <1>m DEF Continues
  <2>2. ASSUME NEW s \in Runs, s # r, NEW e, Continues(s, runs[s].lease, resources, e)
        PROVE  Continues(s, runs'[s].lease, resources', e)
    BY <2>2, <1>k, <1>n DEF Continues
  <2> QED
    BY <2>1, <2>2, <1>k DEF LiveLeasesContinue
<1>4. FencesOrderLeases'
  BY <1>k DEF FencesOrderLeases
<1>5. SuccessLeavesCleanResources'
  <2> SUFFICES ASSUME NEW s \in Runs, runs'[s].phase \in Succeeded,
                      NEW x \in runs'[s].lease.resources
               PROVE  \/ resources'[x].fence > runs'[s].lease.fence
                      \/ resources'[x] = [fence |-> runs'[s].lease.fence,
                                          disposition |-> "ReleasedAfterCleanup",
                                          owner |-> NoOwner]
    BY DEF SuccessLeavesCleanResources, Succeeded
  <2>1. CASE s = r
    BY <2>1, <1>k, <1>m
  <2>2. CASE s # r
    <3>1. runs[s].phase \in Succeeded /\ x \in runs[s].lease.resources /\ x \in Resources
      BY <2>2, <1>k, <1>t
    <3>2. \/ resources[x].fence > runs[s].lease.fence
          \/ resources[x] = [fence |-> runs[s].lease.fence,
                             disposition |-> "ReleasedAfterCleanup", owner |-> NoOwner]
      BY <3>1 DEF SuccessLeavesCleanResources, Succeeded
    <3>3. CASE resources[x].fence > runs[s].lease.fence
      BY <3>3, <3>1, <1>f, <1>k
    <3>4. CASE resources[x] = [fence |-> runs[s].lease.fence,
                               disposition |-> "ReleasedAfterCleanup", owner |-> NoOwner]
      <4>1. resources[x].owner = NoOwner
        BY <3>4
      <4>2. x \notin held
        BY <4>1, <1>o, PlannerAssumption
      <4> QED
        BY <3>4, <4>2, <3>1, <1>m, <1>k
    <3> QED
      BY <3>2, <3>3, <3>4
  <2> QED
    BY <2>1, <2>2
<1> QED
  BY <1>1, <1>2, <1>3, <1>4, <1>5 DEF Safe

-----------------------------------------------------------------------------
LEMMA InvInit == Init => Inv
<1> SUFFICES ASSUME Init PROVE Inv
  OBVIOUS
<1>1. \A r \in Runs : runs[r] = NoRun
  BY DEF Init
<1>2. NoRun.lease = NoLease /\ NoRun.phase = "Unregistered"
  BY DEF NoRun
<1>3. NoLease.event = 0 /\ NoLease.resources = {}
  BY DEF NoLease
<1>4. NoRun \in RunState
  BY NoRunTyped DEF RunState
<1>5. TypeOK
  BY <1>4 DEF Init, TypeOK, NoResource, ResourceState
<1>6. Len(events) = 0
  BY DEF Init
<1>7. LeasesInLog /\ FenceHighWater /\ FencesOrderLeases
  BY <1>1, <1>2, <1>3, <1>6 DEF LeasesInLog, FenceHighWater, FencesOrderLeases
<1>8. LiveLeasesContinue /\ SuccessLeavesCleanResources
  BY <1>1, <1>2 DEF LiveLeasesContinue, SuccessLeavesCleanResources
<1> QED
  BY <1>5, <1>7, <1>8 DEF Inv

LEMMA InvStep == Inv /\ [Next]_vars => Inv'
<1> SUFFICES ASSUME Inv, [Next]_vars PROVE Inv'
  OBVIOUS
<1>1. TypeOK'
  BY TypeStep DEF Inv
<1>2. ASSUME Next PROVE Safe'
  BY <1>2, Shapes, QuietStep, GrantedStep, ContinuedStep
<1>3. ASSUME UNCHANGED vars PROVE Safe'
  BY <1>3 DEF vars, Inv, Safe, LeasesInLog, FenceHighWater, LiveLeasesContinue, Continues,
     FencesOrderLeases, SuccessLeavesCleanResources
<1> QED
  BY <1>1, <1>2, <1>3 DEF Inv, Safe

\* The inductive invariant of plan_transition and finalize_transition: the rows of
\* a run and of the resources it leased agree with each other and with the log.
THEOREM InvHolds == Spec => []Inv
  BY InvInit, InvStep, PTL DEF Spec

\* The rows of the authority are well formed in every reachable state, for any
\* runs, resources and requests.
THEOREM TypeCorrect == Spec => []TypeOK
<1>1. Inv => TypeOK
  BY DEF Inv
<1> QED
  BY <1>1, InvHolds, PTL

\* plan_transition never meets a corrupt continuation: the resources of a live
\* lease stay as that lease left them, for any number of competing runs.
THEOREM LeasesContinue == Spec => []LiveLeasesContinue
<1>1. Inv => LiveLeasesContinue
  BY DEF Inv
<1> QED
  BY <1>1, InvHolds, PTL

\* No resource is held by two runs at once.
THEOREM Exclusive == Spec => []HoldersAreDisjoint
<1>1. Inv => HoldersAreDisjoint
  <2> SUFFICES ASSUME Inv, NEW r \in Runs, NEW s \in Runs, r # s, Holds(r), Holds(s),
                      NEW x \in runs[r].lease.resources, x \in runs[s].lease.resources
               PROVE  FALSE
    BY DEF HoldersAreDisjoint
  <2>1. resources[x].owner = r
    BY HolderOwns DEF Inv, Holds
  <2>2. resources[x].owner = s
    BY HolderOwns DEF Inv, Holds
  <2> QED
    BY <2>1, <2>2
<1> QED
  BY <1>1, InvHolds, PTL

\* The later of two leases that share a resource has the larger fence.
THEOREM FencesGrow == Spec => []FencesOrderLeases
<1>1. Inv => FencesOrderLeases
  BY DEF Inv
<1> QED
  BY <1>1, InvHolds, PTL

\* A successful run's resources were released clean, or have moved on under a
\* larger fence.
THEOREM SuccessIsClean == Spec => []SuccessLeavesCleanResources
<1>1. Inv => SuccessLeavesCleanResources
  BY DEF Inv
<1> QED
  BY <1>1, InvHolds, PTL

-----------------------------------------------------------------------------
(* The PostgreSQL store.                                                   *)


\* What the head's holder has staged is one step of the authority from the
\* committed tables.
Staged(req, now, fence) ==
  /\ Len(events) < MaxEvents
  /\ Accepts(req, runs[req.run], resources, now, fence)
  /\ ~Found(events, req)
  /\ req.op.kind # "GrantLease" => fence = 0
  /\ tx.staged.runs = [runs EXCEPT ![req.run] = RunAfter(req, @, Len(events) + 1, now, fence)]
  /\ tx.staged.resources = ResourcesAfter(req, runs[req.run], resources, fence)
  /\ tx.staged.events = Append(events, req)

Shape ==
  /\ events \in Seq(Request)
  /\ pc \in [Calls -> Locations]
  /\ request \in [Calls -> Requests \cup {NoRequest}]
  /\ snapshot = [c \in Calls |-> snapshot[c]]
  /\ tx = [call |-> tx.call, stage |-> tx.stage, staged |-> tx.staged]
  /\ tx.call \in Calls \cup {NoCall}
  /\ tx.stage \in {"open", "submitted"}

Asked ==
  \A c \in Calls : pc[c] \notin {"idle", "answered"} => request[c] \in Requests

HeadHolder ==
  /\ tx.stage = "submitted" => tx.call \in Calls
  /\ \A c \in Calls :
       /\ pc[c] \in {"planning", "staging"} => tx.call = c /\ tx.stage = "open"
       /\ pc[c] = "committing" => tx.call = c /\ tx.stage = "submitted"
       /\ pc[c] = "begin" => tx.call # c

SnapshotsArePast ==
  \A c \in Calls :
    /\ pc[c] \in {"locking", "planning"} => ~Found(snapshot[c].events, request[c])
    /\ pc[c] = "locking" =>
         /\ snapshot[c].events \in Seq(Request)
         /\ snapshot[c] = Current \/ Len(snapshot[c].events) < Len(events)
    /\ pc[c] = "planning" => snapshot[c] = Current

StagedIsStep ==
  (tx.stage = "submitted" \/ \E c \in Calls : pc[c] = "staging") =>
    \E req \in Requests, now \in Times, fence \in 0..MaxFence : Staged(req, now, fence)

PInv == Shape /\ Asked /\ HeadHolder /\ SnapshotsArePast /\ StagedIsStep

LEMMA PInvInit == StoreInit => PInv
<1> SUFFICES ASSUME StoreInit PROVE PInv
  OBVIOUS
<1>1. tx = NoTx /\ tx.stage = "open" /\ tx.call = NoCall /\ events = <<>>
      /\ pc = [c \in Calls |-> "idle"]
  BY DEF StoreInit, NoTx, Nothing
<1>2. Shape
  BY <1>1 DEF StoreInit, Shape, NoTx, Locations
<1> QED
  BY <1>1, <1>2 DEF PInv, Asked, HeadHolder, SnapshotsArePast, StagedIsStep

\* The tables change by the commit of the head's holder only, and then by a step
\* of the authority.
LEMMA CommitIsStep ==
  ASSUME PInv, ServerCommits
  PROVE  Next /\ Len(events') = Len(events) + 1 /\ events' \in Seq(Request)
<1>1. tx.stage = "submitted" /\ runs' = tx.staged.runs /\ resources' = tx.staged.resources
      /\ events' = tx.staged.events
  BY DEF ServerCommits
<1>2. PICK req \in Requests, now \in Times, fence \in 0..MaxFence : Staged(req, now, fence)
  BY <1>1 DEF PInv, StagedIsStep
<1>3. Apply(req, now, fence)
  BY <1>1, <1>2 DEF Staged, Apply
<1>4. req \in Request
  BY PlannerAssumption
<1>5. req.op.kind \in {"Register", "GrantLease", "StartAttempt", "PreStartTerminal",
                       "AttemptTerminal", "FinalWitness"}
  BY <1>4 DEF Request, Operation
<1>6. req.op.kind # "GrantLease" => Apply(req, now, 0)
  BY <1>2, <1>3 DEF Staged
<1>7. Next
  BY <1>3, <1>5, <1>6 DEF Next, Register, GrantLease,
     StartAttempt, PreStartTerminal, AttemptTerminal,
     FinalWitness
<1>8. events' = Append(events, req)
  BY <1>1, <1>2 DEF Staged
<1> QED
  BY <1>4, <1>7, <1>8 DEF PInv, Shape

LEMMA OthersKeepTables ==
  ASSUME [StoreNext]_storeVars, ~ServerCommits
  PROVE  UNCHANGED db
<1>1. ASSUME NEW c \in Calls, NEW req \in Requests, Call(c, req) PROVE UNCHANGED db
  BY <1>1 DEF Call
<1>2. ASSUME NEW c \in Calls, Begin(c) PROVE UNCHANGED db
  BY <1>2 DEF Begin
<1>3. ASSUME NEW c \in Calls, LockHead(c) PROVE UNCHANGED db
  BY <1>3 DEF LockHead
<1>4. ASSUME NEW c \in Calls, Plan(c) PROVE UNCHANGED db
  BY <1>4 DEF Plan, Refuse
<1>5. ASSUME NEW c \in Calls, MaterializerFails(c) PROVE UNCHANGED db
  BY <1>5 DEF MaterializerFails, Refuse
<1>6. ASSUME NEW c \in Calls, SubmitCommit(c) PROVE UNCHANGED db
  BY <1>6 DEF SubmitCommit
<1>7. ASSUME NEW c \in Calls, Acknowledge(c) PROVE UNCHANGED db
  BY <1>7 DEF Acknowledge
<1>8. ASSUME NEW c \in Calls, RecoverExact(c) PROVE UNCHANGED db
  BY <1>8 DEF RecoverExact
<1>9. ASSUME NEW c \in Calls, ConnectionFails(c) PROVE UNCHANGED db
  BY <1>9 DEF ConnectionFails
<1>10. ASSUME NEW c \in Calls, Cancel(c) PROVE UNCHANGED db
  BY <1>10 DEF Cancel
<1>11. ServerAborts => UNCHANGED db
  BY DEF ServerAborts
<1>12. UNCHANGED storeVars => UNCHANGED db
  BY DEF storeVars, db, vars
<1> QED
  BY <1>1, <1>2, <1>3, <1>4, <1>5, <1>6, <1>7, <1>8, <1>9, <1>10, <1>11, <1>12
  DEF StoreNext, Step

\* A call that leaves the tables alone and ends up holding neither the head nor a
\* snapshot, with the head left as it was or released by its holder.
Leaves(c, l) ==
  /\ l \in {"recovering", "answered", "idle", "acknowledged"}
  /\ Goto(c, l)
  /\ UNCHANGED db
  /\ tx' = tx \/ (tx.call = c /\ tx' = NoTx)
  /\ request' \in [Calls -> Requests \cup {NoRequest}]
  /\ \A d \in Calls \ {c} : request'[d] = request[d] /\ snapshot'[d] = snapshot[d]
  /\ l \in {"idle", "answered"} \/ request'[c] \in Requests
  /\ snapshot' = [d \in Calls |-> snapshot'[d]]

LEMMA LeavesKeepsPInv ==
  ASSUME PInv, NEW c \in Calls, NEW l, Leaves(c, l)
  PROVE  PInv'
<1>1. pc \in [Calls -> Locations] /\ pc' = [pc EXCEPT ![c] = l] /\ l \in Locations
  BY DEF PInv, Shape, Leaves, Goto, Locations
<1>2. pc'[c] = l /\ \A d \in Calls \ {c} : pc'[d] = pc[d]
  BY <1>1
<1>3. Current' = Current /\ events' = events /\ runs' = runs /\ resources' = resources
  BY DEF Leaves, Current, db, vars
<1>4. \/ tx' = tx
      \/ /\ tx.call = c /\ tx'.call = NoCall /\ tx'.stage = "open"
         /\ tx' = [call |-> tx'.call, stage |-> tx'.stage, staged |-> tx'.staged]
  BY DEF Leaves, NoTx
<1>5. Shape'
  BY <1>1, <1>3, <1>4 DEF PInv, Shape, Leaves
<1>6. Asked'
  BY <1>2 DEF PInv, Asked, Leaves
<1>7. HeadHolder'
  BY <1>2, <1>4, CallsAssumption DEF PInv, HeadHolder, Leaves
<1>8. SnapshotsArePast'
  BY <1>2, <1>3 DEF PInv, SnapshotsArePast, Leaves
<1>9. StagedIsStep'
  <2>1. ASSUME tx' = tx PROVE StagedIsStep'
    BY <1>2, <1>3, <2>1 DEF PInv, StagedIsStep, Leaves, Staged
  <2>2. ASSUME tx.call = c, tx'.stage = "open" PROVE StagedIsStep'
    BY <1>2, <2>2 DEF PInv, StagedIsStep, HeadHolder, Leaves
  <2> QED
    BY <1>4, <2>1, <2>2
<1> QED
  BY <1>5, <1>6, <1>7, <1>8, <1>9 DEF PInv

LEMMA CallKeepsPInv ==
  ASSUME PInv, NEW c \in Calls, NEW req \in Requests, Call(c, req)
  PROVE  PInv'
<1>1. pc \in [Calls -> Locations] /\ pc' = [pc EXCEPT ![c] = "begin"] /\ tx.call # c
      /\ request \in [Calls -> Requests \cup {NoRequest}]
      /\ request' = [request EXCEPT ![c] = req] /\ tx' = tx /\ snapshot' = snapshot
      /\ pc[c] \in {"idle", "answered"}
  BY DEF PInv, Shape, Call, Goto
<1>2. Current' = Current /\ events' = events /\ runs' = runs /\ resources' = resources
  BY DEF Call, Current, db, vars
<1>3. pc'[c] = "begin" /\ request'[c] = req
      /\ \A d \in Calls \ {c} : pc'[d] = pc[d] /\ request'[d] = request[d]
  BY <1>1
<1>4. Shape'
  BY <1>1, <1>2 DEF PInv, Shape, Locations
<1>5. Asked' /\ HeadHolder'
  BY <1>1, <1>3 DEF PInv, Asked, HeadHolder
<1>6. SnapshotsArePast'
  BY <1>1, <1>2, <1>3 DEF PInv, SnapshotsArePast
<1>7. StagedIsStep'
  BY <1>1, <1>2, <1>3 DEF PInv, StagedIsStep, Staged
<1> QED
  BY <1>4, <1>5, <1>6, <1>7 DEF PInv

LEMMA BeginKeepsPInv ==
  ASSUME PInv, NEW c \in Calls, Begin(c)
  PROVE  PInv'
<1>0. pc[c] = "begin" /\ request[c] \in Requests /\ tx' = tx /\ request' = request
      /\ UNCHANGED db
  BY DEF PInv, Asked, Begin
<1>1. CASE Goto(c, "locking")
  <2>1. pc \in [Calls -> Locations] /\ pc' = [pc EXCEPT ![c] = "locking"]
        /\ snapshot' = [snapshot EXCEPT ![c] = Current] /\ ~Found(events, request[c])
        /\ snapshot = [d \in Calls |-> snapshot[d]]
    BY <1>0, <1>1 DEF PInv, Shape, Begin, Answer, Recovering, Goto
  <2>2. Current' = Current /\ events' = events /\ runs' = runs /\ resources' = resources
    BY <1>0 DEF Current, db, vars
  <2>3. pc'[c] = "locking" /\ snapshot'[c] = Current
        /\ \A d \in Calls \ {c} : pc'[d] = pc[d] /\ snapshot'[d] = snapshot[d]
    BY <2>1
  <2>4. Shape'
    BY <1>0, <2>1, <2>2 DEF PInv, Shape, Locations
  <2>5. Asked' /\ HeadHolder'
    BY <1>0, <2>3 DEF PInv, Asked, HeadHolder
  <2>6. Current.events = events
    BY DEF Current
  <2>7. SnapshotsArePast'
    BY <1>0, <2>1, <2>2, <2>3, <2>6 DEF PInv, SnapshotsArePast, Shape
  <2>8. StagedIsStep'
    BY <1>0, <2>2, <2>3 DEF PInv, StagedIsStep, Staged
  <2> QED
    BY <2>4, <2>5, <2>7, <2>8 DEF PInv
<1>2. CASE Goto(c, "answered") /\ snapshot' = [snapshot EXCEPT ![c] = Nothing]
  <2>1. Leaves(c, "answered")
    BY <1>0, <1>2 DEF PInv, Shape, Leaves
  <2> QED
    BY <2>1, LeavesKeepsPInv
<1>3. CASE Goto(c, "recovering") /\ snapshot' = [snapshot EXCEPT ![c] = Nothing]
  <2>1. Leaves(c, "recovering")
    BY <1>0, <1>3 DEF PInv, Shape, Leaves
  <2> QED
    BY <2>1, LeavesKeepsPInv
<1> QED
  BY <1>1, <1>2, <1>3 DEF Begin, Answer, Recovering

LEMMA LockHeadKeepsPInv ==
  ASSUME PInv, NEW c \in Calls, LockHead(c)
  PROVE  PInv'
<1>0. pc[c] = "locking" /\ request[c] \in Requests /\ request' = request
      /\ UNCHANGED db /\ tx.call = NoCall
  BY DEF PInv, Asked, LockHead
<1>1. CASE Recovering(c, "Postgres") /\ UNCHANGED tx
  <2>1. Leaves(c, "recovering")
    BY <1>0, <1>1 DEF PInv, Shape, Leaves, Recovering
  <2> QED
    BY <2>1, LeavesKeepsPInv
<1>2. CASE Len(events) = Len(snapshot[c].events) /\ ~(Recovering(c, "Postgres") /\ UNCHANGED tx)
  <2>1. tx'.call = c /\ tx'.stage = "open" /\ snapshot' = snapshot
        /\ tx' = [call |-> tx'.call, stage |-> tx'.stage, staged |-> tx'.staged]
        /\ pc' = [pc EXCEPT ![c] = "planning"]
    BY <1>2 DEF LockHead, NoTx, Goto
  <2>2. Current' = Current /\ events' = events /\ runs' = runs /\ resources' = resources
    BY <1>0 DEF Current, db, vars
  <2>3. pc'[c] = "planning" /\ \A d \in Calls \ {c} : pc'[d] = pc[d]
    BY <2>1 DEF PInv, Shape
  <2>4. Shape'
    BY <1>0, <2>1, <2>2 DEF PInv, Shape, Locations
  <2>5. Asked'
    BY <1>0, <2>3 DEF PInv, Asked
  <2>6. HeadHolder'
    BY <1>0, <2>1, <2>3, CallsAssumption DEF PInv, HeadHolder
  <2>7. snapshot[c] = Current /\ ~Found(snapshot[c].events, request[c])
    BY <1>0, <1>2 DEF PInv, SnapshotsArePast, Shape
  <2>8. SnapshotsArePast'
    BY <1>0, <2>1, <2>2, <2>3, <2>7 DEF PInv, SnapshotsArePast
  <2>9. \A d \in Calls : pc'[d] # "staging"
    BY <1>0, <2>3, CallsAssumption DEF PInv, HeadHolder
  <2>10. StagedIsStep'
    BY <2>1, <2>9 DEF StagedIsStep
  <2> QED
    BY <2>4, <2>5, <2>6, <2>8, <2>10 DEF PInv
<1> QED
  BY <1>1, <1>2 DEF LockHead

LEMMA RefuseKeepsPInv ==
  ASSUME PInv, NEW c \in Calls, pc[c] \in {"planning", "staging"}, Refuse(c)
  PROVE  PInv'
<1>1. tx.call = c /\ request[c] \in Requests
  BY DEF PInv, HeadHolder, Asked
<1>2. Leaves(c, "answered")
  BY <1>1 DEF PInv, Shape, Leaves, Refuse, Answer, db, vars
<1> QED
  BY <1>2, LeavesKeepsPInv

LEMMA PlanKeepsPInv ==
  ASSUME PInv, NEW c \in Calls, Plan(c)
  PROVE  PInv'
<1>0. pc[c] = "planning" /\ tx.call = c /\ tx.stage = "open" /\ snapshot[c] = Current
      /\ request[c] \in Requests /\ ~Found(events, request[c])
  BY DEF PInv, HeadHolder, SnapshotsArePast, Plan, Asked, Current
<1> DEFINE req == request[c]
           stage(now, fence) ==
             [runs |-> [runs EXCEPT ![req.run] =
                          RunAfter(req, runs[req.run], Len(events) + 1, now, fence)],
              resources |-> ResourcesAfter(req, runs[req.run], resources, fence),
              events |-> Append(events, req)]
<1>1. snapshot[c].runs = runs /\ snapshot[c].resources = resources /\ snapshot[c].events = events
  BY <1>0 DEF Current
<1>2. CASE Refuse(c)
  BY <1>0, <1>2, RefuseKeepsPInv
<1>3. CASE \E now \in Times, fence \in 0..MaxFence :
             /\ Len(events) + 1 <= MaxEvents
             /\ Accepts(req, runs[req.run], resources, now, fence)
             /\ req.op.kind # "GrantLease" => fence = 0
             /\ tx' = [tx EXCEPT !.staged = stage(now, fence)]
             /\ Goto(c, "staging")
             /\ UNCHANGED <<db, request, snapshot>>
  <2>1. PICK now \in Times, fence \in 0..MaxFence :
             /\ Len(events) + 1 <= MaxEvents
             /\ Accepts(req, runs[req.run], resources, now, fence)
             /\ req.op.kind # "GrantLease" => fence = 0
             /\ tx' = [tx EXCEPT !.staged = stage(now, fence)]
             /\ Goto(c, "staging")
             /\ UNCHANGED <<db, request, snapshot>>
    BY <1>3
  <2> HIDE DEF stage
  <2>2. tx'.call = c /\ tx'.stage = "open" /\ tx'.staged = stage(now, fence)
        /\ tx' = [call |-> tx'.call, stage |-> tx'.stage, staged |-> tx'.staged]
    BY <1>0, <2>1 DEF PInv, Shape
  <2>3. Current' = Current /\ events' = events /\ runs' = runs /\ resources' = resources
    BY <2>1 DEF Current, db, vars
  <2>4. pc'[c] = "staging" /\ \A d \in Calls \ {c} : pc'[d] = pc[d]
    BY <2>1 DEF PInv, Shape, Goto
  <2>5. Shape'
    BY <2>1, <2>2, <2>3 DEF PInv, Shape, Locations, Goto
  <2>6. Asked'
    BY <1>0, <2>1, <2>4 DEF PInv, Asked
  <2>7. HeadHolder'
    BY <1>0, <2>2, <2>4 DEF PInv, HeadHolder
  <2>8. SnapshotsArePast'
    BY <2>1, <2>3, <2>4 DEF PInv, SnapshotsArePast
  <2>9. Len(events) < MaxEvents
    <3>1. Len(events) \in Nat
      BY DEF PInv, Shape
    <3> QED
      BY <2>1, <3>1, CallsAssumption
  <2>10. /\ stage(now, fence).runs =
              [runs EXCEPT ![req.run] = RunAfter(req, @, Len(events) + 1, now, fence)]
         /\ stage(now, fence).resources = ResourcesAfter(req, runs[req.run], resources, fence)
         /\ stage(now, fence).events = Append(events, req)
    BY DEF stage
  <2>11. Staged(req, now, fence)'
    BY <1>0, <2>1, <2>2, <2>3, <2>9, <2>10 DEF Staged
  <2>12. StagedIsStep'
    BY <1>0, <2>1, <2>11 DEF StagedIsStep
  <2> QED
    BY <2>5, <2>6, <2>7, <2>8, <2>12 DEF PInv
<1> QED
  BY <1>1, <1>2, <1>3 DEF Plan

LEMMA SubmitKeepsPInv ==
  ASSUME PInv, NEW c \in Calls, SubmitCommit(c)
  PROVE  PInv'
<1>0. pc[c] = "staging" /\ tx.call = c /\ request[c] \in Requests /\ request' = request
      /\ UNCHANGED db /\ snapshot' = [snapshot EXCEPT ![c] = Nothing]
      /\ snapshot = [d \in Calls |-> snapshot[d]]
  BY DEF PInv, Shape, HeadHolder, Asked, SubmitCommit
<1>1. tx'.call = c /\ tx'.stage = "submitted" /\ tx'.staged = tx.staged
      /\ tx' = [call |-> tx'.call, stage |-> tx'.stage, staged |-> tx'.staged]
  BY <1>0 DEF PInv, Shape, SubmitCommit
<1>2. Current' = Current /\ events' = events /\ runs' = runs /\ resources' = resources
  BY <1>0 DEF Current, db, vars
<1>3. pc'[c] = "committing"
      /\ \A d \in Calls \ {c} : pc'[d] = pc[d] /\ snapshot'[d] = snapshot[d]
  BY <1>0 DEF PInv, Shape, SubmitCommit, Goto
<1>4. Shape'
  BY <1>0, <1>1, <1>2 DEF PInv, Shape, Locations, SubmitCommit, Goto
<1>5. Asked'
  BY <1>0, <1>3 DEF PInv, Asked
<1>6. HeadHolder'
  BY <1>0, <1>1, <1>3 DEF PInv, HeadHolder
<1>7. SnapshotsArePast'
  BY <1>0, <1>2, <1>3 DEF PInv, SnapshotsArePast
<1>8. StagedIsStep'
  <2>1. PICK req \in Requests, now \in Times, fence \in 0..MaxFence : Staged(req, now, fence)
    BY <1>0 DEF PInv, StagedIsStep
  <2>2. Staged(req, now, fence)'
    BY <1>1, <1>2, <2>1 DEF Staged
  <2> QED
    BY <2>2 DEF StagedIsStep
<1> QED
  BY <1>4, <1>5, <1>6, <1>7, <1>8 DEF PInv

LEMMA CommitKeepsPInv ==
  ASSUME PInv, ServerCommits
  PROVE  PInv'
<1>0. tx.stage = "submitted" /\ tx.call \in Calls /\ tx' = NoTx /\ request' = request
      /\ snapshot' = snapshot
  BY DEF PInv, HeadHolder, ServerCommits
<1>1. tx'.call = NoCall /\ tx'.stage = "open"
      /\ tx' = [call |-> tx'.call, stage |-> tx'.stage, staged |-> tx'.staged]
  BY <1>0 DEF NoTx
<1>2. events' \in Seq(Request) /\ Len(events') = Len(events) + 1
  BY CommitIsStep
<1>3. \A d \in Calls : pc'[d] \in {pc[d], "acknowledged"}
                       /\ (pc'[d] = "acknowledged" => pc[d] \in {"committing", "acknowledged"})
  BY <1>0 DEF PInv, Shape, ServerCommits
<1>4. pc' \in [Calls -> Locations]
  BY <1>0 DEF PInv, Shape, ServerCommits, Locations
<1>5. \A d \in Calls : pc'[d] \notin {"planning", "staging", "committing"}
  <2>1. \A d \in Calls : pc[d] \notin {"planning", "staging"}
    BY <1>0 DEF PInv, HeadHolder
  <2>2. \A d \in Calls \ {tx.call} : pc[d] # "committing"
    BY DEF PInv, HeadHolder
  <2>3. pc'[tx.call] # "committing"
    BY <1>0 DEF PInv, Shape, ServerCommits
  <2> QED
    BY <1>0, <1>3, <2>1, <2>2, <2>3
<1>6. Shape'
  BY <1>0, <1>1, <1>2, <1>4 DEF PInv, Shape
<1>7. Asked'
  BY <1>0, <1>3 DEF PInv, Asked
<1>8. HeadHolder'
  BY <1>1, <1>5, CallsAssumption DEF HeadHolder
<1>9. SnapshotsArePast'
  <2>1. ASSUME NEW d \in Calls, pc'[d] = "locking"
        PROVE  /\ ~Found(snapshot'[d].events, request'[d])
               /\ snapshot'[d].events \in Seq(Request)
               /\ Len(snapshot'[d].events) < Len(events')
    <3>1. pc[d] = "locking"
      BY <1>3, <2>1
    <3>2. /\ ~Found(snapshot[d].events, request[d])
          /\ snapshot[d].events \in Seq(Request)
          /\ snapshot[d] = Current \/ Len(snapshot[d].events) < Len(events)
      BY <3>1 DEF PInv, SnapshotsArePast
    <3>3. Len(snapshot[d].events) \in Nat /\ Len(events) \in Nat
      BY <3>2 DEF PInv, Shape
    <3>4. Len(snapshot[d].events) <= Len(events)
      BY <3>2, <3>3 DEF Current
    <3> QED
      BY <1>0, <1>2, <3>2, <3>3, <3>4
  <2> QED
    BY <1>5, <2>1 DEF SnapshotsArePast
<1>10. StagedIsStep'
  BY <1>1, <1>5 DEF StagedIsStep
<1> QED
  BY <1>6, <1>7, <1>8, <1>9, <1>10 DEF PInv

LEMMA AbortKeepsPInv ==
  ASSUME PInv, ServerAborts
  PROVE  PInv'
<1> DEFINE c == tx.call
<1>0. c \in Calls /\ tx' = NoTx /\ UNCHANGED db /\ request' = request
      /\ pc[c] \notin {"planning", "staging"}
  BY DEF PInv, Shape, HeadHolder, ServerAborts
<1>1. CASE pc[c] = "committing"
  <2>1. Leaves(c, "recovering")
    BY <1>0, <1>1 DEF PInv, Shape, Asked, Leaves, ServerAborts, Recovering
  <2> QED
    BY <1>0, <2>1, LeavesKeepsPInv
<1>2. CASE pc[c] # "committing"
  <2>1. pc' = pc /\ snapshot' = snapshot /\ tx'.call = NoCall /\ tx'.stage = "open"
        /\ tx' = [call |-> tx'.call, stage |-> tx'.stage, staged |-> tx'.staged]
    BY <1>0, <1>2 DEF ServerAborts, NoTx
  <2>2. Current' = Current /\ events' = events /\ runs' = runs /\ resources' = resources
    BY <1>0 DEF Current, db, vars
  <2>3. \A d \in Calls : pc[d] \notin {"planning", "staging", "committing"}
    BY <1>0, <1>2 DEF PInv, HeadHolder
  <2>4. Shape' /\ Asked'
    BY <1>0, <2>1, <2>2 DEF PInv, Shape, Asked
  <2>5. HeadHolder' /\ SnapshotsArePast' /\ StagedIsStep'
    BY <1>0, <2>1, <2>2, <2>3, CallsAssumption
    DEF PInv, HeadHolder, SnapshotsArePast, StagedIsStep
  <2> QED
    BY <2>4, <2>5 DEF PInv
<1> QED
  BY <1>1, <1>2

LEMMA OtherCallsKeepPInv ==
  ASSUME PInv, NEW c \in Calls,
         Acknowledge(c) \/ RecoverExact(c) \/ ConnectionFails(c) \/ Cancel(c)
  PROVE  PInv'
<1>0. snapshot = [d \in Calls |-> snapshot[d]] /\ request \in [Calls -> Requests \cup {NoRequest}]
      /\ (pc[c] \notin {"idle", "answered"} => request[c] \in Requests)
  BY DEF PInv, Shape, Asked
<1>1. CASE Acknowledge(c)
  <2>1. Leaves(c, "answered")
    BY <1>0, <1>1 DEF Leaves, Acknowledge, Answer
  <2> QED
    BY <2>1, LeavesKeepsPInv
<1>2. CASE RecoverExact(c)
  <2>1. Leaves(c, "answered")
    BY <1>0, <1>2 DEF Leaves, RecoverExact, Answer
  <2> QED
    BY <2>1, LeavesKeepsPInv
<1>3. CASE ConnectionFails(c)
  <2>1. Leaves(c, "recovering")
    BY <1>0, <1>3 DEF Leaves, ConnectionFails, Recovering
  <2> QED
    BY <2>1, LeavesKeepsPInv
<1>4. CASE Cancel(c)
  <2>1. Leaves(c, "idle")
    BY <1>0, <1>4 DEF Leaves, Cancel
  <2> QED
    BY <2>1, LeavesKeepsPInv
<1> QED
  BY <1>1, <1>2, <1>3, <1>4

LEMMA PInvStep == PInv /\ [StoreNext]_storeVars => PInv'
<1> SUFFICES ASSUME PInv, [StoreNext]_storeVars PROVE PInv'
  OBVIOUS
<1>1. ASSUME NEW c \in Calls, NEW req \in Requests, Call(c, req) PROVE PInv'
  BY <1>1, CallKeepsPInv
<1>2. ASSUME NEW c \in Calls, Begin(c) PROVE PInv'
  BY <1>2, BeginKeepsPInv
<1>3. ASSUME NEW c \in Calls, LockHead(c) PROVE PInv'
  BY <1>3, LockHeadKeepsPInv
<1>4. ASSUME NEW c \in Calls, Plan(c) PROVE PInv'
  BY <1>4, PlanKeepsPInv
<1>5. ASSUME NEW c \in Calls, MaterializerFails(c) PROVE PInv'
  BY <1>5, RefuseKeepsPInv DEF MaterializerFails
<1>6. ASSUME NEW c \in Calls, SubmitCommit(c) PROVE PInv'
  BY <1>6, SubmitKeepsPInv
<1>7. ASSUME NEW c \in Calls,
             Acknowledge(c) \/ RecoverExact(c) \/ ConnectionFails(c) \/ Cancel(c)
      PROVE  PInv'
  BY <1>7, OtherCallsKeepPInv
<1>8. CASE ServerCommits
  BY <1>8, CommitKeepsPInv
<1>9. CASE ServerAborts
  BY <1>9, AbortKeepsPInv
<1>10. CASE UNCHANGED storeVars
  BY <1>10 DEF storeVars, PInv, Shape, Asked, HeadHolder, SnapshotsArePast, StagedIsStep,
     Staged, Current
<1> QED
  BY <1>1, <1>2, <1>3, <1>4, <1>5, <1>6, <1>7, <1>8, <1>9, <1>10 DEF StoreNext, Step

\* The inductive invariant: whoever holds the head has planned on the committed
\* tables, so that what it staged is a step of the authority from them.
THEOREM PInvHolds == StoreSpec => []PInv
  BY PInvInit, PInvStep, PTL DEF StoreSpec

\* Whatever breaks, what reaches the tables of lock_authority_head's holders is a
\* sequence of atomic steps of the authority: the store refines AuthorityKernel.
THEOREM StoreImplementsKernel == StoreSpec => ImplementsKernel
<1>1. StoreInit => Init
  BY DEF StoreInit, Init, Nothing
<1>2. PInv /\ [StoreNext]_storeVars => [Next]_vars
  <2> SUFFICES ASSUME PInv, [StoreNext]_storeVars PROVE [Next]_vars
    OBVIOUS
  <2>1. CASE ServerCommits
    BY <2>1, CommitIsStep
  <2>2. CASE ~ServerCommits
    <3>1. UNCHANGED db
      BY <2>2, OthersKeepTables
    <3> QED
      BY <3>1 DEF db
  <2> QED
    BY <2>1, <2>2
<1> QED
  BY <1>1, <1>2, PInvHolds, PTL DEF StoreSpec, ImplementsKernel, Spec

-----------------------------------------------------------------------------
(* What callers are told.  A call whose COMMIT was sent never hears an error *)
(* other than CommitOutcomeUnknown, whether the server has decided it or     *)
(* not; and what the holder of the head has staged is the event it was asked *)
(* for.                                                                     *)
Submitted(c) == tx.call = c /\ tx.stage = "submitted"

TruthTyped ==
  /\ error \in [Calls -> Errors]
  /\ answer \in [Calls -> Answers]
  /\ wrote \in [Calls -> BOOLEAN]

SentIsAdmitted(c) ==
  Submitted(c) \/ wrote[c] =>
    /\ pc[c] \in {"committing", "acknowledged", "recovering", "answered", "idle"}
    /\ pc[c] = "recovering" => error[c] = "CommitOutcomeUnknown"
    /\ pc[c] = "answered" => answer[c] \notin {"Refused", "Postgres"}

StagedIsAsked(c) ==
  pc[c] \in {"staging", "committing"} => Exact(tx.staged.events, request[c])

WrittenIsAsked(c) ==
  \/ pc[c] = "acknowledged"
  \/ pc[c] = "answered" /\ answer[c] \in {"Committed", "Recovered"}
  => Exact(events, request[c])

TruthOf(c) == SentIsAdmitted(c) /\ StagedIsAsked(c) /\ WrittenIsAsked(c)

Truth == TruthTyped /\ \A c \in Calls : TruthOf(c)

\* A step of c is no concern of another call, as long as the log stays, nothing is
\* submitted for the other, and what it has staged is left alone.
SameFor(d) ==
  /\ pc'[d] = pc[d] /\ error'[d] = error[d] /\ answer'[d] = answer[d]
  /\ wrote'[d] = wrote[d] /\ request'[d] = request[d]
  /\ Submitted(d)' => Submitted(d)
  /\ pc[d] \in {"staging", "committing"} => tx'.staged = tx.staged

LEMMA StepOfOneCall ==
  ASSUME Truth, NEW c \in Calls, events' = events, TruthTyped', TruthOf(c)',
         \A d \in Calls \ {c} : SameFor(d)
  PROVE  Truth'
<1>1. ASSUME NEW d \in Calls \ {c} PROVE TruthOf(d)'
  <2>1. TruthOf(d) /\ SameFor(d)
    BY DEF Truth
  <2>2. SentIsAdmitted(d)' /\ StagedIsAsked(d)' /\ WrittenIsAsked(d)'
    BY <2>1 DEF TruthOf, SameFor, SentIsAdmitted, StagedIsAsked, WrittenIsAsked, Exact
  <2> QED
    BY <2>2 DEF TruthOf
<1> QED
  BY <1>1 DEF Truth

LEMMA TruthInit == StoreInit => Truth
  BY DEF StoreInit, Truth, TruthTyped, TruthOf, SentIsAdmitted, StagedIsAsked,
     WrittenIsAsked, Submitted, NoTx, Errors, Answers

\* The event that a planned transaction stages is the one that was asked for.
LEMMA AppendedIsExact ==
  ASSUME NEW log \in Seq(Request), NEW req \in Request
  PROVE  Exact(Append(log, req), req)
<1>1. Len(log) + 1 \in DOMAIN Append(log, req) /\ Append(log, req)[Len(log) + 1] = req
  OBVIOUS
<1> QED
  BY <1>1 DEF Exact

LEMMA ExactIsKept ==
  ASSUME NEW log \in Seq(Request), NEW new \in Request, NEW req, Exact(log, req)
  PROVE  Exact(Append(log, new), req)
<1>1. PICK i \in DOMAIN log : log[i] = req
  BY DEF Exact
<1>2. i \in DOMAIN Append(log, new) /\ Append(log, new)[i] = req
  BY <1>1
<1> QED
  BY <1>2 DEF Exact

\* Calls before COMMIT is sent: their own transaction, if any, is open and they
\* have written nothing.
Early == {"begin", "locking", "planning", "staging"}

LEMMA NothingSentEarly ==
  ASSUME Truth, NEW c \in Calls, pc[c] \in Early
  PROVE  ~Submitted(c) /\ ~wrote[c]
  BY DEF Early, Truth, TruthOf, SentIsAdmitted

LEMMA EarlyStepsKeepTruth ==
  ASSUME PInv, Truth, NEW c \in Calls,
         \/ \E req \in Requests : Call(c, req)
         \/ Begin(c) \/ LockHead(c) \/ MaterializerFails(c)
  PROVE  Truth'
<1>1. events' = events
  BY DEF Call, Begin, LockHead, MaterializerFails, Refuse, db, vars
<1>2. TruthTyped'
  BY DEF Truth, TruthTyped, Call, Begin, LockHead, MaterializerFails, Refuse, Recovering,
     Answer, Errors, Answers
<1>3. \A d \in Calls \ {c} : SameFor(d)
  BY CallsAssumption
  DEF PInv, Shape, HeadHolder, Truth, TruthTyped, SameFor, Submitted, Call, Begin, LockHead,
      MaterializerFails, Refuse, Recovering, Answer, Goto, NoTx
<1>4. TruthOf(c)'
  <2>1. CASE \E req \in Requests : Call(c, req)
    BY <2>1 DEF PInv, Shape, Truth, TruthTyped, Call, Goto, TruthOf, SentIsAdmitted,
       StagedIsAsked, WrittenIsAsked, Submitted
  <2>2. CASE Begin(c)
    <3>1. ~Submitted(c) /\ ~wrote[c]
      BY <2>2, NothingSentEarly DEF Begin, Early
    <3>2. wrote' = wrote /\ tx' = tx /\ request' = request
      BY <2>2 DEF Begin
    <3>3. \/ pc'[c] \in {"locking", "recovering"}
          \/ pc'[c] = "answered" /\ (answer'[c] = "Recovered" => Exact(events, request[c]))
                                 /\ answer'[c] # "Committed"
      BY <2>2 DEF PInv, Shape, Truth, TruthTyped, Begin, Goto, Answer, Recovering
    <3> QED
      BY <1>1, <3>1, <3>2, <3>3 DEF TruthOf, SentIsAdmitted, StagedIsAsked, WrittenIsAsked,
         Submitted
  <2>3. CASE LockHead(c)
    <3>1. ~Submitted(c) /\ ~wrote[c]
      BY <2>3, NothingSentEarly DEF LockHead, Early
    <3>2. wrote' = wrote /\ pc'[c] \in {"planning", "recovering"} /\ ~Submitted(c)'
      BY <2>3, <3>1 DEF PInv, Shape, LockHead, Goto, Recovering, NoTx, Submitted
    <3> QED
      BY <3>1, <3>2 DEF TruthOf, SentIsAdmitted, StagedIsAsked, WrittenIsAsked
  <2>4. CASE MaterializerFails(c)
    <3>1. ~wrote[c]
      BY <2>4, NothingSentEarly DEF MaterializerFails, Early
    <3>2. wrote' = wrote /\ pc'[c] = "answered" /\ answer'[c] = "Refused" /\ ~Submitted(c)'
      BY <2>4, CallsAssumption
      DEF PInv, Shape, Truth, TruthTyped, MaterializerFails, Refuse, Answer, Goto, NoTx, Submitted
    <3> QED
      BY <3>1, <3>2 DEF TruthOf, SentIsAdmitted, StagedIsAsked, WrittenIsAsked
  <2> QED
    BY <2>1, <2>2, <2>3, <2>4
<1> QED
  BY <1>1, <1>2, <1>3, <1>4, StepOfOneCall

LEMMA PlanKeepsTruth ==
  ASSUME PInv, Truth, NEW c \in Calls, Plan(c)
  PROVE  Truth'
<1>0. pc[c] = "planning" /\ tx.call = c /\ tx.stage = "open" /\ snapshot[c] = Current
      /\ request[c] \in Requests
  BY DEF PInv, HeadHolder, SnapshotsArePast, Plan, Asked
<1>1. ~wrote[c]
  BY <1>0, NothingSentEarly DEF Early
<1>2. CASE Refuse(c)
  <2>1. events' = events /\ TruthTyped' /\ wrote' = wrote
    BY <1>2 DEF Truth, TruthTyped, Refuse, Answer, Answers, db, vars
  <2>2. \A d \in Calls \ {c} : SameFor(d)
    BY <1>0, <1>2, CallsAssumption
    DEF PInv, Shape, HeadHolder, Truth, TruthTyped, SameFor, Submitted, Refuse, Answer, Goto, NoTx
  <2>3. pc'[c] = "answered" /\ answer'[c] = "Refused" /\ ~Submitted(c)'
    BY <1>2, CallsAssumption
    DEF PInv, Shape, Truth, TruthTyped, Refuse, Answer, Goto, NoTx, Submitted
  <2>4. TruthOf(c)'
    BY <1>1, <2>1, <2>3 DEF TruthOf, SentIsAdmitted, StagedIsAsked, WrittenIsAsked
  <2> QED
    BY <2>1, <2>2, <2>4, StepOfOneCall
<1>3. CASE ~Refuse(c)
  <2>1. PICK staged :
          /\ tx' = [tx EXCEPT !.staged = staged]
          /\ staged.events = Append(snapshot[c].events, request[c])
          /\ Goto(c, "staging")
          /\ UNCHANGED <<db, request, error, answer, wrote>>
    BY <1>3 DEF Plan
  <2>2. events' = events /\ TruthTyped' /\ wrote' = wrote /\ request' = request
    BY <2>1 DEF Truth, TruthTyped, db, vars
  <2>3. tx'.call = c /\ tx'.stage = "open" /\ tx'.staged = staged /\ pc'[c] = "staging"
        /\ \A d \in Calls \ {c} : pc'[d] = pc[d]
    BY <1>0, <2>1 DEF PInv, Shape, Goto
  <2>4. \A d \in Calls \ {c} : pc[d] \notin {"staging", "committing"} /\ ~Submitted(d)'
    BY <1>0, <2>3 DEF PInv, HeadHolder, Submitted
  <2>5. \A d \in Calls \ {c} : SameFor(d)
    BY <2>1, <2>3, <2>4 DEF SameFor
  <2>6. Exact(staged.events, request[c])
    <3>1. request[c] \in Request /\ snapshot[c].events \in Seq(Request)
      BY <1>0, PlannerAssumption DEF PInv, Shape, Current
    <3> QED
      BY <2>1, <3>1, AppendedIsExact
  <2>7. TruthOf(c)'
    BY <1>1, <2>2, <2>3, <2>6 DEF TruthOf, SentIsAdmitted, StagedIsAsked, WrittenIsAsked,
       Submitted
  <2> QED
    BY <2>2, <2>5, <2>7, StepOfOneCall
<1> QED
  BY <1>2, <1>3

LEMMA LateStepsKeepTruth ==
  ASSUME PInv, Truth, NEW c \in Calls,
         SubmitCommit(c) \/ Acknowledge(c) \/ RecoverExact(c) \/ Cancel(c)
  PROVE  Truth'
<1>1. events' = events /\ wrote' = wrote /\ TruthTyped'
  BY DEF Truth, TruthTyped, SubmitCommit, Acknowledge, RecoverExact, Cancel, Answer, Errors,
     Answers, db, vars
<1>2. \A d \in Calls \ {c} : SameFor(d)
  BY DEF PInv, Shape, HeadHolder, Truth, TruthTyped, SameFor, Submitted, SubmitCommit,
     Acknowledge, RecoverExact, Cancel, Answer, Goto
<1>0. TruthOf(c)
  BY DEF Truth
<1>3. TruthOf(c)'
  <2>1. CASE SubmitCommit(c)
    BY <1>0, <1>1, <2>1
    DEF PInv, Shape, SubmitCommit, Goto, TruthOf, SentIsAdmitted, StagedIsAsked,
        WrittenIsAsked, Exact
  <2>2. CASE Acknowledge(c)
    BY <1>0, <1>1, <2>2
    DEF PInv, Shape, Truth, TruthTyped, Acknowledge, Answer, Goto, TruthOf, SentIsAdmitted,
        StagedIsAsked, WrittenIsAsked
  <2>3. CASE RecoverExact(c)
    <3>1. pc[c] = "recovering" /\ pc'[c] = "answered" /\ tx' = tx /\ request' = request
          /\ \/ answer'[c] = "Recovered" /\ Exact(events, request[c])
             \/ answer'[c] = error[c] /\ error[c] \in Errors
      BY <2>3 DEF PInv, Shape, Truth, TruthTyped, RecoverExact, Answer, Goto
    <3> QED
      BY <1>0, <1>1, <3>1 DEF TruthOf, SentIsAdmitted, StagedIsAsked, WrittenIsAsked, Submitted,
         Errors
  <2>4. CASE Cancel(c)
    BY <2>4 DEF PInv, Shape, Cancel, Goto, TruthOf, SentIsAdmitted, StagedIsAsked, WrittenIsAsked
  <2> QED
    BY <2>1, <2>2, <2>3, <2>4
<1> QED
  BY <1>1, <1>2, <1>3, StepOfOneCall

\* Losing the connection is told as an error that fits what was sent.
LEMMA FailuresKeepTruth ==
  ASSUME PInv, Truth, NEW c \in Calls, ConnectionFails(c)
  PROVE  Truth'
<1>0. TruthOf(c)
  BY DEF Truth
<1>1. events' = events /\ wrote' = wrote /\ tx' = tx /\ TruthTyped'
  BY DEF Truth, TruthTyped, ConnectionFails, Recovering, Errors, db, vars
<1>2. \A d \in Calls \ {c} : SameFor(d)
  BY DEF PInv, Shape, Truth, TruthTyped, SameFor, Submitted, ConnectionFails, Recovering, Goto
<1>3. pc'[c] = "recovering"
      /\ (error'[c] = "CommitOutcomeUnknown" \/ pc[c] \in Early)
  BY DEF PInv, Shape, Truth, TruthTyped, ConnectionFails, Recovering, Goto, Early
<1>4. pc[c] \in Early => ~Submitted(c) /\ ~wrote[c]
  BY NothingSentEarly
<1>5. TruthOf(c)'
  BY <1>1, <1>3, <1>4 DEF TruthOf, SentIsAdmitted, StagedIsAsked, WrittenIsAsked, Submitted
<1> QED
  BY <1>1, <1>2, <1>5, StepOfOneCall

LEMMA AbortKeepsTruth ==
  ASSUME PInv, Truth, ServerAborts
  PROVE  Truth'
<1>0. PICK c \in Calls : tx.call = c /\ TruthOf(c)
  BY DEF PInv, Shape, ServerAborts, Truth
<1>1. events' = events /\ wrote' = wrote /\ answer' = answer /\ request' = request
      /\ tx' = NoTx /\ TruthTyped'
  BY DEF Truth, TruthTyped, ServerAborts, Recovering, Errors, db, vars
<1>2. \A d \in Calls : ~Submitted(d)'
  BY <1>1, CallsAssumption DEF Submitted, NoTx
<1>3. \A d \in Calls \ {c} : SameFor(d)
  BY <1>0, <1>1, <1>2
  DEF PInv, Shape, HeadHolder, Truth, TruthTyped, SameFor, ServerAborts, Recovering, Goto
<1>4. TruthOf(c)'
  <2>1. CASE pc[c] = "committing"
    <3>1. pc'[c] = "recovering" /\ error'[c] = "CommitOutcomeUnknown"
      BY <1>0, <2>1 DEF PInv, Shape, Truth, TruthTyped, ServerAborts, Recovering, Goto
    <3> QED
      BY <1>1, <1>2, <3>1 DEF TruthOf, SentIsAdmitted, StagedIsAsked, WrittenIsAsked
  <2>2. CASE pc[c] # "committing"
    <3>1. pc' = pc /\ error' = error /\ pc[c] # "staging"
      BY <1>0, <2>2 DEF PInv, HeadHolder, ServerAborts
    <3> QED
      BY <1>0, <1>1, <1>2, <2>2, <3>1
      DEF TruthOf, SentIsAdmitted, StagedIsAsked, WrittenIsAsked
  <2> QED
    BY <2>1, <2>2
<1> QED
  BY <1>0, <1>1, <1>3, <1>4, StepOfOneCall

\* The commit appends the event that its call asked for, and keeps the others.
LEMMA CommitKeepsTruth ==
  ASSUME PInv, Truth, ServerCommits
  PROVE  Truth'
<1>0. PICK c \in Calls : tx.call = c /\ TruthOf(c) /\ Submitted(c)
  BY DEF PInv, HeadHolder, ServerCommits, Truth, Submitted
<1>1. events' = tx.staged.events /\ error' = error /\ answer' = answer /\ request' = request
      /\ tx' = NoTx /\ TruthTyped' /\ wrote' = [wrote EXCEPT ![c] = TRUE]
  BY <1>0 DEF Truth, TruthTyped, ServerCommits
<1>2. PICK req \in Requests : tx.staged.events = Append(events, req)
  BY <1>0 DEF PInv, StagedIsStep, Staged, Submitted
<1>3. \A d \in Calls : Exact(events, request[d]) => Exact(events', request[d])
  BY <1>1, <1>2, ExactIsKept, PlannerAssumption DEF PInv, Shape
<1>4. \A d \in Calls : ~Submitted(d)'
  BY <1>1, CallsAssumption DEF Submitted, NoTx
<1>5. \A d \in Calls \ {c} :
         /\ pc'[d] = pc[d] /\ wrote'[d] = wrote[d] /\ pc[d] \notin {"staging", "committing"}
  BY <1>0, <1>1 DEF PInv, Shape, HeadHolder, Truth, TruthTyped, ServerCommits
<1>6. ASSUME NEW d \in Calls \ {c} PROVE TruthOf(d)'
  <2>1. TruthOf(d)
    BY DEF Truth
  <2> QED
    BY <1>1, <1>3, <1>4, <1>5, <2>1 DEF TruthOf, SentIsAdmitted, StagedIsAsked, WrittenIsAsked
<1>7. TruthOf(c)'
  <2>1. pc'[c] = (IF pc[c] = "committing" THEN "acknowledged" ELSE pc[c])
    BY <1>0 DEF PInv, Shape, ServerCommits
  <2>2. pc[c] = "committing" => Exact(events', request[c])
    BY <1>0, <1>1 DEF TruthOf, StagedIsAsked
  <2>3. pc'[c] \notin {"staging", "committing"}
    BY <1>0, <2>1 DEF TruthOf, SentIsAdmitted
  <2> QED
    BY <1>0, <1>1, <1>3, <2>1, <2>2, <2>3
    DEF TruthOf, SentIsAdmitted, StagedIsAsked, WrittenIsAsked
<1> QED
  BY <1>0, <1>1, <1>6, <1>7 DEF Truth

LEMMA TruthStep == PInv /\ Truth /\ [StoreNext]_storeVars => Truth'
<1> SUFFICES ASSUME PInv, Truth, [StoreNext]_storeVars PROVE Truth'
  OBVIOUS
<1>1. ASSUME NEW c \in Calls,
             (\E req \in Requests : Call(c, req)) \/ Begin(c) \/ LockHead(c) \/ MaterializerFails(c)
      PROVE  Truth'
  BY <1>1, EarlyStepsKeepTruth
<1>2. ASSUME NEW c \in Calls, Plan(c) PROVE Truth'
  BY <1>2, PlanKeepsTruth
<1>3. ASSUME NEW c \in Calls, SubmitCommit(c) \/ Acknowledge(c) \/ RecoverExact(c) \/ Cancel(c)
      PROVE  Truth'
  BY <1>3, LateStepsKeepTruth
<1>4. ASSUME NEW c \in Calls, ConnectionFails(c) PROVE Truth'
  BY <1>4, FailuresKeepTruth
<1>5. CASE ServerCommits
  BY <1>5, CommitKeepsTruth
<1>6. CASE ServerAborts
  BY <1>6, AbortKeepsTruth
<1>7. CASE UNCHANGED storeVars
  BY <1>7 DEF storeVars, Truth, TruthTyped, TruthOf, SentIsAdmitted, StagedIsAsked,
     WrittenIsAsked, Submitted, Exact
<1> QED
  BY <1>1, <1>2, <1>3, <1>4, <1>5, <1>6, <1>7 DEF StoreNext, Step

LEMMA TruthHolds == StoreSpec => []Truth
  BY TruthInit, TruthStep, PInvHolds, PTL DEF StoreSpec

\* apply, its lookups and recover_exact never lie: whatever fails, Committed and
\* Recovered are answered of events in the log only, and an error that is not
\* CommitOutcomeUnknown only when this call has written nothing and never will.
THEOREM CallersAreToldTheTruth == StoreSpec => []AnswersAreTrue
<1>1. Truth => AnswersAreTrue
  BY DEF Truth, TruthOf, SentIsAdmitted, WrittenIsAsked, AnswersAreTrue, Submitted
<1> QED
  BY <1>1, TruthHolds, PTL

-----------------------------------------------------------------------------
(* What a transaction reads and stages is well formed, as the tables are.   *)
ReadAndStaged == tx.staged \in State /\ snapshot \in [Calls -> State]

LEMMA NothingTyped == Nothing \in State
<1>1. NoRun \in RunState
  BY NoRunTyped DEF RunState
<1>2. NoResource \in ResourceState
  BY DEF NoResource, ResourceState
<1> QED
  BY <1>1, <1>2 DEF Nothing, State

LEMMA ReadAndStagedStep ==
  ASSUME PInv, TypeOK, ReadAndStaged, [StoreNext]_storeVars
  PROVE  ReadAndStaged'
<1> USE NothingTyped
<1>0. Current \in State
  BY DEF TypeOK, Current, State
<1>1. ASSUME NEW c \in Calls, NEW req \in Requests, Call(c, req) PROVE ReadAndStaged'
  BY <1>1 DEF ReadAndStaged, Call
<1>2. ASSUME NEW c \in Calls, Begin(c) PROVE ReadAndStaged'
  BY <1>0, <1>2 DEF ReadAndStaged, Begin, Answer, Recovering
<1>3. ASSUME NEW c \in Calls, LockHead(c) PROVE ReadAndStaged'
  BY <1>0, <1>3 DEF ReadAndStaged, PInv, Shape, LockHead, Recovering, NoTx
<1>4. ASSUME NEW c \in Calls, Refuse(c) PROVE ReadAndStaged'
  BY <1>4 DEF ReadAndStaged, Refuse, Answer, NoTx
<1>5. ASSUME NEW c \in Calls, Plan(c), ~Refuse(c) PROVE ReadAndStaged'
  <2>1. request[c] \in Requests /\ snapshot[c] \in State
    BY <1>5 DEF PInv, Asked, Plan, ReadAndStaged
  <2>2. request[c] \in Request /\ request[c].run \in Runs
        /\ Len(snapshot[c].events) + 1 \in Nat
    BY <2>1, Typed DEF State
  <2>3. snapshot[c].runs[request[c].run] \in RunState
    BY <2>1, <2>2 DEF State
  <2>4. PICK now \in Times, fence \in 0..MaxFence :
          tx'.staged =
            [runs |-> [snapshot[c].runs EXCEPT ![request[c].run] =
                         RunAfter(request[c], snapshot[c].runs[request[c].run],
                                  Len(snapshot[c].events) + 1, now, fence)],
             resources |-> ResourcesAfter(request[c], snapshot[c].runs[request[c].run],
                                          snapshot[c].resources, fence),
             events |-> Append(snapshot[c].events, request[c])]
    BY <1>5 DEF PInv, Shape, Plan
  <2>5. RunAfter(request[c], snapshot[c].runs[request[c].run],
                 Len(snapshot[c].events) + 1, now, fence) \in RunState
    BY <2>1, <2>2, <2>3, RunTyped
  <2>6. ResourcesAfter(request[c], snapshot[c].runs[request[c].run],
                       snapshot[c].resources, fence) \in [Resources -> ResourceState]
    BY <2>1, ResourcesTyped DEF State
  <2>7. tx'.staged \in State
    BY <2>1, <2>2, <2>4, <2>5, <2>6 DEF State
  <2>8. snapshot' = snapshot
    BY <1>5 DEF Plan
  <2> QED
    BY <2>7, <2>8 DEF ReadAndStaged
<1>6. ASSUME NEW c \in Calls, SubmitCommit(c) PROVE ReadAndStaged'
  BY <1>6 DEF ReadAndStaged, PInv, Shape, SubmitCommit
<1>7. ASSUME NEW c \in Calls, Acknowledge(c) \/ RecoverExact(c) \/ ConnectionFails(c) \/ Cancel(c)
      PROVE  ReadAndStaged'
  BY <1>7 DEF ReadAndStaged, Acknowledge, RecoverExact, ConnectionFails, Cancel, Answer,
     Recovering
<1>8. CASE ServerCommits \/ ServerAborts
  BY <1>8 DEF ReadAndStaged, ServerCommits, ServerAborts, Recovering, NoTx
<1>9. CASE UNCHANGED storeVars
  BY <1>9 DEF ReadAndStaged, storeVars
<1> QED
  BY <1>1, <1>2, <1>3, <1>4, <1>5, <1>6, <1>7, <1>8, <1>9
  DEF StoreNext, Step, MaterializerFails

\* Tables, transaction and calls are well formed, whatever fails.
THEOREM StoreTypeCorrect == StoreSpec => []StoreTypeOK
<1>1. StoreInit => ReadAndStaged
  BY NothingTyped DEF StoreInit, ReadAndStaged, NoTx
<1>2. PInv /\ TypeOK /\ ReadAndStaged /\ [StoreNext]_storeVars => ReadAndStaged'
  BY ReadAndStagedStep
<1>3. StoreSpec => []TypeOK
  BY StoreImplementsKernel, TypeCorrect, PTL DEF ImplementsKernel
<1>4. PInv /\ Truth /\ TypeOK /\ ReadAndStaged => StoreTypeOK
  <2> SUFFICES ASSUME PInv, Truth, TypeOK, ReadAndStaged PROVE StoreTypeOK
    OBVIOUS
  <2>1. tx \in [call : Calls \cup {NoCall}, stage : {"open", "submitted"}, staged : State]
    <3>1. tx = [call |-> tx.call, stage |-> tx.stage, staged |-> tx.staged]
          /\ tx.call \in Calls \cup {NoCall} /\ tx.stage \in {"open", "submitted"}
          /\ tx.staged \in State
      BY DEF PInv, Shape, ReadAndStaged
    <3> HIDE DEF State
    <3> QED
      BY <3>1
  <2> QED
    BY <2>1 DEF PInv, Shape, Truth, TruthTyped, TypeOK, ReadAndStaged, StoreTypeOK
<1> QED
  BY <1>1, <1>2, <1>3, <1>4, PInvHolds, TruthHolds, PTL DEF StoreSpec

\* What is proved of the atomic authority holds of the PostgreSQL tables, whatever
\* fails: the leases of running attempts are never corrupt ...
THEOREM StoreLeasesContinue == StoreSpec => []LiveLeasesContinue
  BY StoreImplementsKernel, LeasesContinue, PTL DEF ImplementsKernel

\* ... fences order the leases of every resource ...
THEOREM StoreFencesGrow == StoreSpec => []FencesOrderLeases
  BY StoreImplementsKernel, FencesGrow, PTL DEF ImplementsKernel

\* ... and success leaves clean resources.
THEOREM StoreSuccessIsClean == StoreSpec => []SuccessLeavesCleanResources
  BY StoreImplementsKernel, SuccessIsClean, PTL DEF ImplementsKernel
=============================================================================
