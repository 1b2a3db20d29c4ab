---------------------------- MODULE PooledGeneration ---------------------------
(***************************************************************************)
(* The verified generations of PostgreSQL and MySQL sources: a connection   *)
(* of a pool, from the moment a request takes it to the moment it is either *)
(* proved clean and recycled or closed by a detached task that first tries  *)
(* to cancel what still runs on it.  The request's own future drives every  *)
(* step but those of that task and of the server, so that a budget that     *)
(* stops, or a client that leaves, ends it between any two of them.         *)
(* Source: crates/sf-serve/src/pg_generation/lease.rs, backend/pg_conn.rs,  *)
(* mysql_generation.rs, mysql_query.rs, mysql_query/generation.rs.          *)
(***************************************************************************)
EXTENDS GenerationSources

VARIABLES
    conn,  \* the one slot of each pool: whether it is free, whether its session is
           \* in a transaction (of a verified generation, with its limits and
           \* its marker), whether the server executes a statement of it, and
           \* what has become of a request to cancel that
    lease  \* DirtyGeneration or MysqlQuery, then Discard

Fresh   == [free |-> TRUE, txn |-> FALSE, busy |-> FALSE, cancel |-> "none"]
NoLease == [st |-> "none", owner |-> Nobody, valid |-> TRUE]

PooledTypeOK ==
    /\ conn \in [Sources -> [free : BOOLEAN, txn : BOOLEAN, busy : BOOLEAN,
                             cancel : {"none", "sent", "over"}]]
    /\ lease \in [Sources -> [st : {"none", "setup", "leased", "check", "rollback",
                                    "discard"},
                              owner : Requests \cup {Nobody}, valid : BOOLEAN]]

PooledInit ==
    /\ conn = [s \in Sources |-> Fresh]
    /\ lease = [s \in Sources |-> NoLease]

LeasedPooled(r, s) == lease[s].st = "leased" /\ lease[s].owner = r

-----------------------------------------------------------------------------
(* What its owner does to a lease, as updates of lease[s].                  *)

\* PgConn::drop and MysqlQuery::drop of a connection not marked reusable.
Discarded(l) == [l EXCEPT !.st = "discard"]

\* finish_bounded and MysqlQuery::finish revalidate first, cleanup-only close
\* of PostgreSQL does not.
Checked(l)    == [l EXCEPT !.st = "check"]
RolledBack(l, valid) == [l EXCEPT !.st = "rollback", !.valid = valid]

\* close: rollback_bounded, or finish of a query that has succeeded.
Closed(s) == IF kind[s] = "postgres" THEN RolledBack(lease[s], TRUE) ELSE Checked(lease[s])

\* What the drop of the request's future leaves of its lease.
LeftBehind(s) == IF lease[s].st = "none" THEN lease[s] ELSE Discarded(lease[s])

-----------------------------------------------------------------------------
(* Setting up: the limits, BEGIN, the relation locks, the observation.      *)

\* get: the slot comes, recycled or connected anew.
TakeConnection(r, s) ==
    /\ conn[s].free
    /\ conn' = [conn EXCEPT ![s].free = FALSE, ![s].busy = TRUE]
    /\ lease' = [lease EXCEPT ![s] = [NoLease EXCEPT !.st = "setup", !.owner = r]]

\* The server has executed BEGIN.
ServerBegins(s) ==
    /\ lease[s].st = "setup" /\ ~conn[s].txn
    /\ conn' = [conn EXCEPT ![s].txn = TRUE]
    /\ Calm /\ UNCHANGED <<lease, reply>>

\* The protected observation is the expected one.
Observed(s) ==
    /\ lease[s].st = "setup" /\ conn[s].txn
    /\ ~drifted[s] /\ ~stopped[lease[s].owner]
    /\ conn' = [conn EXCEPT ![s].busy = FALSE]
    /\ lease' = [lease EXCEPT ![s].st = "leased"]
    /\ Calm /\ UNCHANGED reply

\* What was observed, or a statement, is refused: PostgreSQL rolls back before
\* the request hears of it, a MySQL query is dropped with its error.
Refused(s) ==
    IF kind[s] = "postgres"
    THEN lease' = [lease EXCEPT ![s] = RolledBack(@, FALSE)] /\ UNCHANGED reply
    ELSE lease' = [lease EXCEPT ![s] = Discarded(@)] /\ Tells(lease[s].owner, "err")

Mismatched(s) ==
    /\ lease[s].st = "setup" /\ conn[s].txn /\ drifted[s]
    /\ conn' = [conn EXCEPT ![s].busy = FALSE]
    /\ Refused(s)
    /\ Calm

\* A lock or an observation fails; before BEGIN is acknowledged the connection
\* is dropped at once.
SetupFails(s) ==
    /\ lease[s].st = "setup" /\ Happens
    /\ \/ lease' = [lease EXCEPT ![s] = Discarded(@)] /\ Tells(lease[s].owner, "err")
       \/ conn[s].txn /\ Refused(s)
    /\ UNCHANGED conn

-----------------------------------------------------------------------------
(* Finishing.                                                               *)

\* The server is through with the statement, read to its end or not.
Answers(s) ==
    /\ conn[s].busy /\ lease[s].st # "setup"
    /\ conn' = [conn EXCEPT ![s].busy = FALSE]
    /\ Calm /\ UNCHANGED <<lease, reply>>

\* Dropped dirty, with the error its owner hears.
Spoiled(s) ==
    /\ lease' = [lease EXCEPT ![s] = Discarded(@)]
    /\ Tells(lease[s].owner, "err")
    /\ UNCHANGED conn

\* ROLLBACK and, in MySQL, the limits and the marker are acknowledged: only
\* now may the pool have it back.
Recycled(s) ==
    /\ conn' = [conn EXCEPT ![s].txn = FALSE, ![s].free = TRUE]
    /\ lease' = [lease EXCEPT ![s] = NoLease]

\* The facts are captured once more behind what was still running.  The budget
\* may cut that short, or a query fail, but ROLLBACK follows anyway.  The locks
\* keep the relations; what else the facts cover may have drifted visibly.
PgChecks(s) ==
    /\ lease[s].st = "check" /\ kind[s] = "postgres"
    /\ \E valid \in BOOLEAN :
          /\ lease' = [lease EXCEPT ![s] = RolledBack(@, valid)]
          /\ \/ ~conn[s].busy /\ (valid \/ drifted[s])
             \/ ~valid /\ stopped[lease[s].owner]
    /\ Calm /\ UNCHANGED <<conn, reply>>

PgCheckFails(s) ==
    /\ lease[s].st = "check" /\ kind[s] = "postgres" /\ Happens
    /\ lease' = [lease EXCEPT ![s] = RolledBack(@, FALSE)]
    /\ UNCHANGED <<conn, reply>>

\* Not under the budget, for it has to happen after the budget has stopped.
PgRollsBack(s) ==
    /\ lease[s].st = "rollback" /\ ~conn[s].busy
    /\ Recycled(s)
    /\ Tells(lease[s].owner, IF lease[s].valid THEN "ok" ELSE "err")
    /\ Calm

\* Two seconds are over, or the connection is lost.
PgRollbackFails(s) ==
    /\ lease[s].st = "rollback" /\ Happens
    /\ Spoiled(s)

\* close_generation and the restoration behind it, all under the budget.
MysqlCloses(s) ==
    /\ lease[s].st = "check" /\ kind[s] = "mysql"
    /\ ~conn[s].busy /\ ~stopped[lease[s].owner]
    /\ Recycled(s)
    /\ Tells(lease[s].owner, "ok")
    /\ Calm

MysqlCloseCut(s) ==
    /\ lease[s].st = "check" /\ kind[s] = "mysql"
    /\ (drifted[s] /\ ~conn[s].busy) \/ stopped[lease[s].owner]
    /\ Spoiled(s)
    /\ Calm

MysqlCloseFails(s) ==
    /\ lease[s].st = "check" /\ kind[s] = "mysql" /\ Happens
    /\ Spoiled(s)

-----------------------------------------------------------------------------
(* The detached task: a request to cancel that nobody acknowledges, bounded *)
(* by a second or two, and then the connection is closed whatever became    *)
(* of it.                                                                   *)

CancelSent(s) ==
    /\ lease[s].st = "discard" /\ conn[s].cancel = "none"
    /\ conn' = [conn EXCEPT ![s].cancel = "sent"]
    /\ Calm /\ UNCHANGED <<lease, reply>>

\* It stops whatever the session executes by then.
CancelArrives(s) ==
    /\ conn[s].cancel = "sent"
    /\ conn' = [conn EXCEPT ![s].cancel = "over", ![s].busy = FALSE]
    /\ Calm /\ UNCHANGED <<lease, reply>>

\* The session ends, and with it what the request to cancel was aimed at; the
\* pool may open another.
Close(s) ==
    /\ lease[s].st = "discard"
    /\ conn' = [conn EXCEPT ![s] = Fresh]
    /\ lease' = [lease EXCEPT ![s] = NoLease]
    /\ Calm /\ UNCHANGED reply

LeaseStep(s) ==
    \/ Observed(s) \/ Mismatched(s)
    \/ PgChecks(s) \/ PgRollsBack(s)
    \/ MysqlCloses(s) \/ MysqlCloseCut(s)

LeaseFailure(s) ==
    SetupFails(s) \/ PgCheckFails(s) \/ PgRollbackFails(s) \/ MysqlCloseFails(s)

ServerStep(s) == ServerBegins(s) \/ Answers(s)
CancelStep(s) == CancelSent(s) \/ CancelArrives(s)
=============================================================================
