--------------------------- MODULE GenerationSources ---------------------------
(***************************************************************************)
(* What the verified generations of all kinds of source have in common: the *)
(* sources and their schemas, the requests with their budgets, and the      *)
(* result that a request awaits.                                            *)
(* Source: crates/sf-serve/src/generation.rs, budget.rs.                    *)
(***************************************************************************)
EXTENDS Naturals

CONSTANTS
    Sources,     \* verified sources, ordered by id, of one connection each
    Requests,
    Deployments, \* the kinds of the sources, one of which is the case
    MaxEvents,   \* bound: schema changes, failures, panics, budgets that stop and
                 \* requests that vanish, taken together
    Nobody       \* no request

Kinds == {"sqlite", "postgres", "mysql"}

ASSUME SourceAssumption ==
    /\ Sources \subseteq Nat
    /\ Deployments \subseteq [Sources -> Kinds]
    /\ MaxEvents \in Nat
    /\ Nobody \notin Requests

VARIABLES
    kind,    \* of each source, the same throughout
    drifted, \* whether the schema committed to each source is another by now
    stopped, \* the request's budget: deadline, cause or forced shutdown
    events,
    reply    \* what the begin or finish that a request awaits has returned

world == <<kind, drifted, stopped, events>>

WorldTypeOK ==
    /\ kind \in Deployments
    /\ drifted \in [Sources -> BOOLEAN]
    /\ stopped \in [Requests -> BOOLEAN]
    /\ events \in 0 .. MaxEvents
    /\ reply \in [Requests -> {"none", "ok", "err"}]

WorldInit ==
    /\ kind \in Deployments
    /\ drifted = [s \in Sources |-> FALSE]
    /\ stopped = [r \in Requests |-> FALSE]
    /\ events = 0
    /\ reply = [r \in Requests |-> "none"]

Calm    == UNCHANGED world
Counted == events < MaxEvents /\ events' = events + 1
Happens == Counted /\ UNCHANGED <<kind, drifted, stopped>>

Tells(r, what) == reply' = [reply EXCEPT ![r] = what]
Heard(r)       == Tells(r, "none")

\* Another process changes the schema.
Drifts(s) ==
    /\ ~drifted[s] /\ Counted
    /\ drifted' = [drifted EXCEPT ![s] = TRUE]
    /\ UNCHANGED <<kind, stopped, reply>>

\* Deadline, a limit or forced shutdown.
BudgetStops(r) ==
    /\ ~stopped[r] /\ Counted
    /\ stopped' = [stopped EXCEPT ![r] = TRUE]
    /\ UNCHANGED <<kind, drifted, reply>>
=============================================================================
