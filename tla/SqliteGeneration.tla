---------------------------- MODULE SqliteGeneration ---------------------------
(***************************************************************************)
(* The members of verified SQLite sources.  A member is one connection     *)
(* with a semaphore of one permit; a generation is the read transaction    *)
(* that one request holds on it, from the observation of the schema to the *)
(* cleanup that a detached task runs once the generation's workers have    *)
(* left.  Here are the steps of the member, of its generation and of its   *)
(* blocking workers; the requests that hold generations take theirs in     *)
(* FederatedRequests.                                                      *)
(* Source: crates/sf-sql/src/backend/sqlite/generation.rs, owned.rs,       *)
(* owned_demand.rs.                                                        *)
(***************************************************************************)
EXTENDS GenerationSources

VARIABLES
    member, \* the semaphore and the connection of each source
    gen,    \* GenerationState and the lease or cleanup task that owns it
    worker, \* the blocking worker of each generation, one at a time: streams
            \* borrow the backend, and end when their worker has gone
    stream  \* what the receiver of the worker's rows is to find

NoGeneration ==
    [st |-> "none", owner |-> Nobody, awaited |-> FALSE, check |-> FALSE,
     failed |-> FALSE, clean |-> FALSE]

\* A worker counted in operations.active, and one that is gone with its Arcs.
Active(s) == worker[s] \in {"queued", "locked", "unlocked", "panicked"}
Gone(s)   == worker[s] = "free"

LeasedSqlite(r, s) == gen[s].st = "leased" /\ gen[s].owner = r

SqliteTypeOK ==
    /\ member \in [Sources -> [free : BOOLEAN, closed : BOOLEAN, poisoned : BOOLEAN,
                               txn : BOOLEAN]]
    /\ gen \in [Sources -> [st : {"none", "begin", "leased", "cleanup", "ended"},
                            owner : Requests \cup {Nobody}, awaited : BOOLEAN,
                            check : BOOLEAN, failed : BOOLEAN, clean : BOOLEAN]]
    /\ worker \in [Sources -> {"free", "queued", "locked", "unlocked", "panicked", "left"}]
    /\ stream \in [Sources -> {"none", "open", "eof", "err", "cut"}]

SqliteInit ==
    /\ member = [s \in Sources |-> [free |-> TRUE, closed |-> FALSE, poisoned |-> FALSE,
                                    txn |-> FALSE]]
    /\ gen = [s \in Sources |-> NoGeneration]
    /\ worker = [s \in Sources |-> "free"]
    /\ stream = [s \in Sources |-> "none"]

-----------------------------------------------------------------------------
(* What the owner of a generation does to it, as updates of gen[s].         *)

\* acquire: the permit is taken and the state made for it; the blocking begin.
Taken(r) == [NoGeneration EXCEPT !.st = "begin", !.owner = r, !.awaited = TRUE]

\* finish: close, then the cleanup that checks the schema, awaited.
Finishing(g) == [g EXCEPT !.st = "cleanup", !.check = TRUE, !.awaited = TRUE]

\* drop: close, then the cleanup that nobody waits for.
Dropped(g) == [g EXCEPT !.st = "cleanup", !.check = FALSE, !.awaited = FALSE]

\* The request's future is dropped with whatever it holds of the generation.
Abandoned(g) ==
    IF g.st = "leased" THEN Dropped(g) ELSE [g EXCEPT !.awaited = FALSE]

-----------------------------------------------------------------------------
(* begin's blocking closure holds the mutex throughout.                     *)

\* GenerationState is left as clean or not; result goes to who awaits it.
Ends(s, clean, result) ==
    /\ gen' = [gen EXCEPT ![s].st = "ended", ![s].clean = clean]
    /\ IF gen[s].awaited THEN Tells(gen[s].owner, result) ELSE UNCHANGED reply

\* begin's success, leaving the lease to a caller who may have gone.
BeginOkForgotten(s) ==
    /\ gen[s].st = "begin" /\ ~member[s].txn /\ ~drifted[s]
    /\ member' = [member EXCEPT ![s].txn = TRUE]
    /\ gen' = [gen EXCEPT ![s].st = "leased"]
    /\ Calm /\ UNCHANGED <<reply, worker, stream>>

\* The schema is the expected one; a lease nobody takes is dropped.
BeginOk(s) ==
    /\ gen[s].st = "begin"
    /\ ~member[s].txn /\ ~drifted[s]
    /\ member' = [member EXCEPT ![s].txn = TRUE]
    /\ gen' = [gen EXCEPT ![s] = IF @.awaited THEN [@ EXCEPT !.st = "leased"]
                                              ELSE Dropped(@)]
    /\ Calm /\ UNCHANGED <<reply, worker, stream>>

\* The budget ends it before BEGIN or in the observation, or the schema has
\* drifted: nothing has begun, or ROLLBACK has ended it.
BeginRefused(s) ==
    /\ gen[s].st = "begin"
    /\ drifted[s] \/ stopped[gen[s].owner]
    /\ Ends(s, TRUE, "err")
    /\ Calm /\ UNCHANGED <<member, worker, stream>>

\* BEGIN or the observation fails; then ROLLBACK may fail, or the closure panics.
BeginFaulty(s) ==
    /\ gen[s].st = "begin" /\ Happens
    /\ \/ Ends(s, TRUE, "err") /\ UNCHANGED member
       \/ /\ Ends(s, FALSE, "err")
          /\ \E panics \in BOOLEAN :
                member' = [member EXCEPT ![s].txn = TRUE, ![s].poisoned = panics]
    /\ UNCHANGED <<worker, stream>>

-----------------------------------------------------------------------------
(* A worker of column_names, result_columns or open_branch.                 *)

\* The mutex comes, poisoned or not.
WorkerLocks(s) ==
    /\ worker[s] = "queued"
    /\ worker' = [worker EXCEPT ![s] = "locked"]
    /\ Calm /\ UNCHANGED <<reply, member, gen, stream>>

\* Statement, progress handler and mutex go in this order; the receiver, if
\* there still is one, has found or will find outcome.
WorkerExits(s, pc, outcome) ==
    /\ worker' = [worker EXCEPT ![s] = pc]
    /\ stream' = [stream EXCEPT ![s] = IF @ = "open" THEN outcome ELSE @]

\* No more rows, or no more receiver.
WorkerEnds(s) ==
    /\ worker[s] = "locked"
    /\ WorkerExits(s, "unlocked", "eof")
    /\ Calm /\ UNCHANGED <<reply, member, gen>>

\* A checkpoint of the budget fails, in the progress handler or between rows.
WorkerInterrupted(s) ==
    /\ worker[s] = "locked" /\ stopped[gen[s].owner]
    /\ WorkerExits(s, "unlocked", "err")
    /\ Calm /\ UNCHANGED <<reply, member, gen>>

\* A statement fails; SQLite may have ended the transaction with it.
WorkerFails(s) ==
    /\ worker[s] = "locked" /\ Happens
    /\ \E lost \in BOOLEAN : member' = [member EXCEPT ![s].txn = @ /\ ~lost]
    /\ WorkerExits(s, "unlocked", "err")
    /\ UNCHANGED <<reply, gen>>

\* Unwinding poisons the mutex; the receiver will see the channel closed, which
\* is how a result ends as well.
WorkerPanics(s) ==
    /\ worker[s] = "locked" /\ Happens
    /\ member' = [member EXCEPT ![s].poisoned = TRUE]
    /\ WorkerExits(s, "panicked", "cut")
    /\ UNCHANGED <<reply, gen>>

\* Operation::drop; its Arc of the state and the lease are still to go.
OperationDrops(s) ==
    /\ worker[s] \in {"unlocked", "panicked"}
    /\ gen' = [gen EXCEPT ![s].failed = @ \/ worker[s] = "panicked"]
    /\ worker' = [worker EXCEPT ![s] = "left"]
    /\ Calm /\ UNCHANGED <<reply, member, stream>>

\* The Arcs go, then the sender: the receiver may now see the channel closed.
WorkerGoes(s) ==
    /\ worker[s] = "left"
    /\ worker' = [worker EXCEPT ![s] = "free"]
    /\ Calm /\ UNCHANGED <<reply, member, gen, stream>>

-----------------------------------------------------------------------------
(* cleanup, spawned by finish or by drop; nobody's cancellation ends it.    *)

\* finish found the transaction still open and the schema as expected: the
\* snapshot cannot have moved, but the budget may interrupt the observation.
Validations(s) ==
    IF ~gen[s].check THEN {"ok"}
    ELSE IF ~member[s].txn THEN {"err"}
    ELSE {"ok"} \cup (IF stopped[gen[s].owner] THEN {"err"} ELSE {})

\* The mutex is poisoned: the connection is not touched any more.
CleanupRefused(s) ==
    /\ member[s].poisoned
    /\ Ends(s, FALSE, "err")
    /\ Calm /\ UNCHANGED member

\* Without a transaction ROLLBACK is an error; with one it ends it, and the
\* member is clean unless a worker has panicked.
CleanupRollsBack(s) ==
    /\ ~member[s].poisoned
    /\ member' = [member EXCEPT ![s].txn = FALSE]
    /\ \E validation \in Validations(s) :
          IF ~member[s].txn \/ gen[s].failed
          THEN Ends(s, FALSE, "err") ELSE Ends(s, TRUE, validation)
    /\ Calm

\* ROLLBACK fails, or the closure panics and poisons the mutex.
CleanupFails(s) ==
    /\ ~member[s].poisoned /\ Happens
    /\ \E panics \in BOOLEAN : member' = [member EXCEPT ![s].poisoned = panics]
    /\ Ends(s, FALSE, "err")

\* drain, then the blocking closure under the mutex.
Cleanup(s) ==
    /\ gen[s].st = "cleanup" /\ ~Active(s)
    /\ CleanupRefused(s) \/ CleanupRollsBack(s) \/ CleanupFails(s)
    /\ UNCHANGED <<worker, stream>>

\* The last Arc goes, and an unclean state is not noticed.
ReleaseWithoutPoison(s) ==
    /\ gen[s].st = "ended" /\ Gone(s)
    /\ gen' = [gen EXCEPT ![s] = NoGeneration]
    /\ member' = [member EXCEPT ![s].free = TRUE]
    /\ Calm /\ UNCHANGED <<reply, worker, stream>>

\* The last Arc of the state goes: an unclean one closes the semaphore before
\* the permit returns.
Release(s) ==
    /\ gen[s].st = "ended" /\ Gone(s)
    /\ gen' = [gen EXCEPT ![s] = NoGeneration]
    /\ member' = [member EXCEPT ![s].free = TRUE, ![s].closed = ~gen[s].clean]
    /\ Calm /\ UNCHANGED <<reply, worker, stream>>

-----------------------------------------------------------------------------
WorkerStep(s) ==
    \/ WorkerLocks(s) \/ WorkerEnds(s) \/ WorkerInterrupted(s)
    \/ WorkerFails(s) \/ WorkerPanics(s)
    \/ OperationDrops(s) \/ WorkerGoes(s)

BeginStep(s) == BeginOk(s) \/ BeginRefused(s) \/ BeginFaulty(s)
=============================================================================
