-------------------------- MODULE AuthorityKernel --------------------------
(***************************************************************************)
(* The capture authority as its callers may think of it, which is the      *)
(* reference store of memory.rs: a request is applied in one atomic step   *)
(* to a log of events, the runs and the resources, or not at all.          *)
(***************************************************************************)
EXTENDS AuthorityPlanner, Sequences

CONSTANT MaxEvents   \* bound on the length of the event log

VARIABLES runs, resources, events

vars == <<runs, resources, events>>

TypeOK ==
  /\ runs \in [Runs -> RunState]
  /\ resources \in [Resources -> ResourceState]
  /\ events \in Seq(Request)

Init ==
  /\ runs = [r \in Runs |-> NoRun]
  /\ resources = [x \in Resources |-> NoResource]
  /\ events = <<>>

\* stage_mutation: the event is appended and the rows it names are replaced.
Apply(req, now, fence) ==
  /\ Len(events) < MaxEvents
  /\ Accepts(req, runs[req.run], resources, now, fence)
  /\ ~Found(events, req)
  /\ runs' = [runs EXCEPT ![req.run] = RunAfter(req, @, Len(events) + 1, now, fence)]
  /\ resources' = ResourcesAfter(req, runs[req.run], resources, fence)
  /\ events' = Append(events, req)

Register(req, now) == req.op.kind = "Register" /\ Apply(req, now, 0)
GrantLease(req, now, fence) == req.op.kind = "GrantLease" /\ Apply(req, now, fence)
StartAttempt(req, now) == req.op.kind = "StartAttempt" /\ Apply(req, now, 0)
PreStartTerminal(req, now) == req.op.kind = "PreStartTerminal" /\ Apply(req, now, 0)
AttemptTerminal(req, now) == req.op.kind = "AttemptTerminal" /\ Apply(req, now, 0)
FinalWitness(req, now) == req.op.kind = "FinalWitness" /\ Apply(req, now, 0)

Next ==
  \E req \in Requests, now \in Times :
    \/ Register(req, now)
    \/ \E fence \in 0..MaxFence : GrantLease(req, now, fence)
    \/ StartAttempt(req, now)
    \/ PreStartTerminal(req, now)
    \/ AttemptTerminal(req, now)
    \/ FinalWitness(req, now)

Spec == Init /\ [][Next]_vars

-----------------------------------------------------------------------------
Holds(r) == runs[r].phase \in {"Leased", "AttemptStarted"}

\* The store of a live lease is never corrupt: from the grant to the terminal
\* event every resource of the lease carries that lease's fence, run and stage,
\* whatever other runs did in between (continuation_resource_transition's
\* CorruptState is unreachable).
LiveLeasesContinue ==
  \A r \in Runs :
    /\ runs[r].phase = "Leased" => Continues(r, runs[r].lease, resources, "HeldPreStart")
    /\ runs[r].phase = "AttemptStarted" =>
         Continues(r, runs[r].lease, resources, "AttemptStarted")

\* Two runs never hold overlapping resource sets at once (the conflict set is
\* leased as a whole).
HoldersAreDisjoint ==
  \A r, s \in Runs :
    r # s /\ Holds(r) /\ Holds(s) => runs[r].lease.resources \cap runs[s].lease.resources = {}

\* Fences order the leases of a resource: of two leases that share one, granted
\* at any distance, the later has the larger fence, so a runner that was granted
\* an earlier one can always be told from the current holder.
FencesOrderLeases ==
  \A r, s \in Runs :
    /\ 0 < runs[r].lease.event
    /\ runs[r].lease.event < runs[s].lease.event
    /\ runs[r].lease.resources \cap runs[s].lease.resources # {}
    => runs[r].lease.fence < runs[s].lease.fence

\* A run that succeeded left clean resources behind: each was released after
\* cleanup under the run's own fence, or has since been leased under a larger one.
SuccessLeavesCleanResources ==
  \A r \in Runs :
    runs[r].phase \in {"CandidateSuccessAwaitingFinal", "FinalWitnessed"} =>
      \A x \in runs[r].lease.resources :
        \/ resources[x].fence > runs[r].lease.fence
        \/ resources[x] = [fence |-> runs[r].lease.fence,
                           disposition |-> "ReleasedAfterCleanup", owner |-> NoOwner]

\* What ADR-0042 says of a started attempt: its resources stay held until a
\* terminal event confirms the cleanup, and are quarantined when it does not.
StartedHeldUntilCleanup ==
  [][\A x \in Resources :
       resources[x].disposition = "AttemptStarted" =>
         \/ resources'[x] = resources[x]
         \/ resources'[x].disposition \in {"ReleasedAfterCleanup", "Quarantined"}]_vars
=============================================================================
