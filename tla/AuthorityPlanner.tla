-------------------------- MODULE AuthorityPlanner --------------------------
(***************************************************************************)
(* The pure half of the capture authority: plan_transition decides whether *)
(* a request is admissible in the state of its run and of its resources,   *)
(* finalize_transition says what the accepted event makes of them.  Event  *)
(* digests are the events' global sequence numbers, 0 for "none"; a        *)
(* digest that names an event stands for the identifiers that event fixes  *)
(* (lease, runner, session, boot and attempt ids, conflict-set digest).    *)
(* The pair of review receipts is the set of the two.                      *)
(***************************************************************************)
EXTENDS Integers

CONSTANTS
  Runs,        \* run keys: (project authority, run id)
  Resources,   \* resource ids
  NoOwner,     \* the owner of a resource nobody holds
  Digests,     \* semantic request digests, unique per request
  Claims,      \* claim digests
  Receipts,    \* review receipt digests
  Outputs,     \* complete output sets of an attempt
  NoOutputs,   \* an attempt terminal without outputs
  Times,       \* readings of the database clock, in milliseconds
  MaxFence,    \* the largest fence (u64::MAX in the code)
  Requests     \* the requests that callers submit

Phases ==
  {"Unregistered", "Registered", "Leased", "AttemptStarted", "PreStartTerminal",
   "CandidateSuccessAwaitingFinal", "FailedFinalOptional", "FinalWitnessed"}

Dispositions ==
  {"HeldPreStart", "AttemptStarted", "ReleasedUnstarted", "ReleasedAfterCleanup",
   "Quarantined"}

AttemptOutcomes ==
  {"CandidateComplete", "ProcessFailed", "Timeout", "RunnerLost", "OutputMissing",
   "OutputInvalid", "CleanupFailed", "EgressViolation", "FenceInvalidated",
   "InternalFailure"}

ProcessDispositions == {"ExitedZero", "ExitedNonzero", "Terminated", "RunnerLost", "Unknown"}
EgressDispositions == {"IsolatedNoViolation", "ViolationDetected", "Unknown"}

Operation ==
  [kind : {"Register"}, claim : Claims]
    \cup
  [kind : {"GrantLease"}, registration : Nat, claim : Claims,
   resources : SUBSET Resources, duration : Nat, review : SUBSET Receipts]
    \cup
  [kind : {"StartAttempt"}, lease : Nat, fence : Nat]
    \cup
  [kind : {"PreStartTerminal"}, registration : Nat, stage : {"PreLease", "LeasedPreStart"},
   expired : BOOLEAN, disposition : Dispositions \cup {"None"}]
    \cup
  [kind : {"AttemptTerminal"}, start : Nat, lease : Nat, fence : Nat,
   outcome : AttemptOutcomes, process : ProcessDispositions, egress : EgressDispositions,
   cleanup : BOOLEAN, disposition : Dispositions, outputs : Outputs \cup {NoOutputs}]
    \cup
  [kind : {"FinalWitness"}, terminal : Nat, lease : Nat, fence : Nat, attempt : Nat,
   outputs : Outputs, review : SUBSET Receipts]

Request == [digest : Digests, run : Runs, op : Operation]

ASSUME PlannerAssumption ==
  /\ NoOwner \notin Runs
  /\ NoOutputs \notin Outputs
  /\ Times \subseteq Int
  /\ MaxFence \in Nat
  /\ Requests \subseteq Request

(***************************************************************************)
(* The stored state of a run and of a resource.                            *)
(***************************************************************************)
LeaseState ==
  [event : Nat, resources : SUBSET Resources, fence : Nat, notAfter : Int,
   review : SUBSET Receipts]

NoLease == [event |-> 0, resources |-> {}, fence |-> 0, notAfter |-> 0, review |-> {}]

TerminalState ==
  [event : Nat, outcome : AttemptOutcomes \cup {"None", "PreStart"},
   outputs : Outputs \cup {NoOutputs}]

NoTerminal == [event |-> 0, outcome |-> "None", outputs |-> NoOutputs]

RunState ==
  [phase : Phases, claim : Claims \cup {"None"}, registration : Nat, lease : LeaseState,
   attempt : Nat, terminal : TerminalState, witness : Nat]

NoRun ==
  [phase |-> "Unregistered", claim |-> "None", registration |-> 0, lease |-> NoLease,
   attempt |-> 0, terminal |-> NoTerminal, witness |-> 0]

ResourceState ==
  [fence : Nat, disposition : Dispositions \cup {"None"}, owner : Runs \cup {NoOwner}]

NoResource == [fence |-> 0, disposition |-> "None", owner |-> NoOwner]

(***************************************************************************)
(* Operation::validate                                                     *)
(***************************************************************************)
ValidPreStartTerminal(op) ==
  IF op.stage = "LeasedPreStart"
  THEN op.disposition \in {"ReleasedUnstarted", "Quarantined"}
  ELSE op.disposition = "None" /\ ~op.expired

SafeRelease(op) ==
  op.disposition = "ReleasedAfterCleanup" =>
    /\ op.cleanup
    /\ op.process \notin {"RunnerLost", "Unknown"}
    /\ op.egress = "IsolatedNoViolation"

ValidOutcome(op) ==
  LET none == op.outputs = NoOutputs
      quarantined == op.disposition = "Quarantined"
  IN  CASE op.outcome = "CandidateComplete" ->
             /\ ~none
             /\ op.process = "ExitedZero"
             /\ op.egress = "IsolatedNoViolation"
             /\ op.disposition = "ReleasedAfterCleanup"
        [] op.outcome = "ProcessFailed" -> none /\ op.process \in {"ExitedNonzero", "Terminated"}
        [] op.outcome = "Timeout" -> none /\ op.process \in {"Terminated", "Unknown"}
        [] op.outcome = "RunnerLost" ->
             none /\ op.process = "RunnerLost" /\ op.egress = "Unknown" /\ quarantined
        [] op.outcome \in {"OutputMissing", "OutputInvalid"} -> none
        [] op.outcome = "CleanupFailed" -> ~op.cleanup /\ quarantined
        [] op.outcome = "EgressViolation" -> op.egress = "ViolationDetected" /\ quarantined
        [] op.outcome \in {"FenceInvalidated", "InternalFailure"} -> none /\ quarantined

ValidReviews(review) == \E p, q \in review : p # q /\ review = {p, q}

ValidOperation(op) ==
  CASE op.kind = "Register" -> TRUE
    [] op.kind = "GrantLease" ->
         ValidReviews(op.review) /\ op.duration > 0 /\ op.resources # {}
    [] op.kind = "StartAttempt" -> op.fence > 0
    [] op.kind = "PreStartTerminal" -> ValidPreStartTerminal(op)
    [] op.kind = "AttemptTerminal" -> op.fence > 0 /\ SafeRelease(op) /\ ValidOutcome(op)
    [] op.kind = "FinalWitness" -> ValidReviews(op.review) /\ op.fence > 0

(***************************************************************************)
(* plan_transition: each operation's conditions on the state of its run,   *)
(* of the resources, and on the clock read inside the transaction.         *)
(***************************************************************************)
ReusableWhileHeld(resource) == resource.disposition # "Quarantined"

Reusable(resource) ==
  resource.disposition \in {"None", "ReleasedUnstarted", "ReleasedAfterCleanup"}

IsNextFenceOfSome(fence, members, resources) ==
  \E x \in members : fence = resources[x].fence + 1

\* lease_resource_transition: one more than the largest fence of the set.
IsNextFence(fence, members, resources) ==
  /\ \A x \in members : resources[x].fence < fence
  /\ \E x \in members : fence = resources[x].fence + 1

\* validate_lease_refs
NamesLease(op, lease) == op.lease = lease.event /\ op.fence = lease.fence

\* continuation_resource_transition; what it rejects is a corrupt store.
Continues(r, lease, resources, disposition) ==
  \A x \in lease.resources :
    resources[x] = [fence |-> lease.fence, disposition |-> disposition, owner |-> r]

AcceptsRegister(op, run) == run.phase = "Unregistered"

AcceptsGrant(op, run, resources, fence) ==
  /\ run.phase = "Registered"
  /\ op.registration = run.registration
  /\ op.claim = run.claim
  /\ \A x \in op.resources : Reusable(resources[x])
  /\ IsNextFence(fence, op.resources, resources)

AcceptsStart(r, op, run, resources, now) ==
  /\ run.phase = "Leased"
  /\ now < run.lease.notAfter
  /\ NamesLease(op, run.lease)
  /\ Continues(r, run.lease, resources, "HeldPreStart")

AcceptsPreStartTerminal(r, op, run, resources, now) ==
  /\ op.registration = run.registration
  /\ \/ op.stage = "PreLease" /\ run.phase = "Registered"
     \/ /\ op.stage = "LeasedPreStart"
        /\ run.phase = "Leased"
        /\ op.expired <=> now >= run.lease.notAfter
        /\ Continues(r, run.lease, resources, "HeldPreStart")

AcceptsAttemptTerminal(r, op, run, resources) ==
  /\ run.phase = "AttemptStarted"
  /\ op.start = run.attempt
  /\ NamesLease(op, run.lease)
  /\ Continues(r, run.lease, resources, "AttemptStarted")

AcceptsFinalWitness(op, run) ==
  /\ run.phase = "CandidateSuccessAwaitingFinal"
  /\ run.terminal.outcome = "CandidateComplete"
  /\ NamesLease(op, run.lease)
  /\ op.terminal = run.terminal.event
  /\ op.attempt = run.attempt
  /\ op.outputs = run.terminal.outputs
  /\ op.review \cap run.lease.review = {}

Accepts(req, run, resources, now, fence) ==
  LET op == req.op
  IN  /\ ValidOperation(op)
      /\ \/ op.kind = "Register" /\ AcceptsRegister(op, run)
         \/ op.kind = "GrantLease" /\ AcceptsGrant(op, run, resources, fence)
         \/ op.kind = "StartAttempt" /\ AcceptsStart(req.run, op, run, resources, now)
         \/ /\ op.kind = "PreStartTerminal"
            /\ AcceptsPreStartTerminal(req.run, op, run, resources, now)
         \/ op.kind = "AttemptTerminal" /\ AcceptsAttemptTerminal(req.run, op, run, resources)
         \/ op.kind = "FinalWitness" /\ AcceptsFinalWitness(op, run)

(***************************************************************************)
(* finalize_transition: the run and the resources after event "seq".       *)
(***************************************************************************)
TerminalOf(op, seq) ==
  [event |-> seq,
   outcome |-> IF op.kind = "AttemptTerminal" THEN op.outcome ELSE "PreStart",
   outputs |-> IF op.kind = "AttemptTerminal" THEN op.outputs ELSE NoOutputs]

RunAfter(req, run, seq, now, fence) ==
  LET op == req.op
  IN  CASE op.kind = "Register" ->
             [NoRun EXCEPT !.phase = "Registered", !.claim = op.claim, !.registration = seq]
        [] op.kind = "GrantLease" ->
             [run EXCEPT !.phase = "Leased",
                         !.lease = [event |-> seq, resources |-> op.resources, fence |-> fence,
                                    notAfter |-> now + op.duration, review |-> op.review]]
        [] op.kind = "StartAttempt" -> [run EXCEPT !.phase = "AttemptStarted", !.attempt = seq]
        [] op.kind = "PreStartTerminal" ->
             [run EXCEPT !.phase = "PreStartTerminal", !.terminal = TerminalOf(op, seq)]
        [] op.kind = "AttemptTerminal" ->
             [run EXCEPT !.phase = IF op.outcome = "CandidateComplete"
                                   THEN "CandidateSuccessAwaitingFinal"
                                   ELSE "FailedFinalOptional",
                         !.terminal = TerminalOf(op, seq)]
        [] op.kind = "FinalWitness" -> [run EXCEPT !.phase = "FinalWitnessed", !.witness = seq]

ContinueKeepingOwner(resources, members, disposition) ==
  [x \in Resources |->
     IF x \in members THEN [resources[x] EXCEPT !.disposition = disposition] ELSE resources[x]]

\* continue_resources: the owner stays only while the disposition is active.
Continue(resources, members, disposition) ==
  [x \in Resources |->
     IF x \in members
     THEN [fence |-> resources[x].fence, disposition |-> disposition,
           owner |-> IF disposition \in {"HeldPreStart", "AttemptStarted"}
                     THEN resources[x].owner ELSE NoOwner]
     ELSE resources[x]]

\* transition_resources
Lease(resources, members, r, fence) ==
  [x \in Resources |->
     IF x \in members
     THEN [fence |-> fence, disposition |-> "HeldPreStart", owner |-> r]
     ELSE resources[x]]

ResourcesAfter(req, run, resources, fence) ==
  LET op == req.op
  IN  CASE op.kind = "GrantLease" -> Lease(resources, op.resources, req.run, fence)
        [] op.kind = "StartAttempt" -> Continue(resources, run.lease.resources, "AttemptStarted")
        [] op.kind = "PreStartTerminal" /\ op.disposition # "None" ->
             Continue(resources, run.lease.resources, op.disposition)
        [] op.kind = "AttemptTerminal" ->
             Continue(resources, run.lease.resources, op.disposition)
        [] OTHER -> resources

\* lookup_exact and exact_match: the event of a request's digest, and whether
\* that event was made by this very request.
Found(events, req) == \E i \in DOMAIN events : events[i].digest = req.digest
Exact(events, req) == \E i \in DOMAIN events : events[i] = req
=============================================================================
