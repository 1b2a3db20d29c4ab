------------------------- MODULE MCAuthorityKernel -------------------------
(* Two runs that compete for two resources, with requests that name the    *)
(* right and the wrong events, two reuses of one digest, and every way an  *)
(* attempt's terminal can dispose of the resources.                        *)
EXTENDS AuthorityKernel

CONSTANTS a, b, x, y

MCRuns == {a, b}
MCResources == {x, y}
MCReceipts == {"pre1", "pre2", "post1", "post2"}
MCTimes == {0, 2}
Pre == {"pre1", "pre2"}
Post == {"post1", "post2"}

Ops ==
  [kind : {"Register"}, claim : {"c1", "c2"}]
    \cup
  [kind : {"GrantLease"}, registration : 1..4, claim : {"c1"},
   resources : {{x}, {y}, {x, y}}, duration : {1}, review : {Pre}]
    \cup
  [kind : {"StartAttempt"}, lease : 2..6, fence : 1..2]
    \cup
  [kind : {"PreStartTerminal"}, registration : 1..4, stage : {"PreLease"},
   expired : {FALSE}, disposition : {"None"}]
    \cup
  [kind : {"PreStartTerminal"}, registration : 1..4, stage : {"LeasedPreStart"},
   expired : BOOLEAN, disposition : {"ReleasedUnstarted", "Quarantined"}]
    \cup
  {[kind |-> "AttemptTerminal", start |-> at.start, lease |-> at.lease, fence |-> fence,
    outcome |-> end.outcome, process |-> end.process, egress |-> end.egress,
    cleanup |-> end.cleanup, disposition |-> end.disposition, outputs |-> end.outputs] :
     at \in {p \in [lease : 2..6, start : 3..7] : p.start = p.lease + 1
                                                   \/ p.start = p.lease + 2},
     fence \in 1..2,
     end \in
       {[outcome |-> "CandidateComplete", process |-> "ExitedZero",
         egress |-> "IsolatedNoViolation", cleanup |-> TRUE,
         disposition |-> "ReleasedAfterCleanup", outputs |-> "out"],
        [outcome |-> "RunnerLost", process |-> "RunnerLost", egress |-> "Unknown",
         cleanup |-> FALSE, disposition |-> "Quarantined", outputs |-> "none"]}
         \cup
       {[outcome |-> "ProcessFailed", process |-> "Terminated", egress |-> "Unknown",
         cleanup |-> FALSE, disposition |-> d, outputs |-> "none"] :
           d \in {"ReleasedUnstarted", "ReleasedAfterCleanup", "AttemptStarted"}}}
    \cup
  [kind : {"FinalWitness"}, terminal : 4..6, lease : 2..3, fence : {1}, attempt : 3..5,
   outputs : {"out"}, review : {Pre, Post}]

Changed == [kind |-> "Register", claim |-> "c1"]

MCRequests ==
  {[digest |-> <<r, op>>, run |-> r, op |-> op] : r \in MCRuns, op \in Ops}
    \cup
  {[digest |-> <<r, Changed>>, run |-> r, op |-> [Changed EXCEPT !.claim = "c2"]] : r \in MCRuns}

MCDigests == {<<r, op>> : r \in MCRuns, op \in Ops}
=============================================================================
