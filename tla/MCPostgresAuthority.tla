------------------------ MODULE MCPostgresAuthority ------------------------
(* Two concurrent calls, two runs that want the same resource, and a digest *)
(* that is reused for a changed request.                                    *)
EXTENDS PostgresAuthority

CONSTANTS a, b, x, c1, c2

MCRuns == {a, b}
MCResources == {x}
MCCalls == {c1, c2}

Start == [kind |-> "StartAttempt", lease |-> 2, fence |-> 1]

Ops ==
  {[kind |-> "Register", claim |-> "c1"]}
    \cup
  [kind : {"GrantLease"}, registration : 1..2, claim : {"c1"}, resources : {{x}},
   duration : {1}, review : {{"p", "q"}}]

MCRequests ==
  {[digest |-> <<r, op>>, run |-> r, op |-> op] : r \in MCRuns, op \in Ops}
    \cup
  {[digest |-> <<a, Start>>, run |-> a, op |-> Start]}
    \cup
  {[digest |-> <<a, [kind |-> "Register", claim |-> "c1"]>>, run |-> a,
    op |-> [kind |-> "Register", claim |-> "c2"]]}

MCDigests == {req.digest : req \in MCRequests}
=============================================================================
