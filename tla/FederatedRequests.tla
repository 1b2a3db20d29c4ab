--------------------------- MODULE FederatedRequests ---------------------------
(***************************************************************************)
(* Requests over one or two verified sources: the generations are acquired *)
(* in the order of the source ids, the query is compiled under them, its   *)
(* fragments are driven one after the other, each finishing its generation *)
(* before the next, and whatever fails hands back the rest.  A request may *)
(* also vanish, its future dropped at any point where it waits.            *)
(* Source: crates/sf-serve/src/generation.rs, sqlite_generation.rs,        *)
(* pg_generation.rs, mysql_query.rs, federation.rs, http.rs.               *)
(***************************************************************************)
EXTENDS SqliteGeneration, PooledGeneration, Sequences, SequencesExt

CONSTANTS
    Fragments, \* the sources of each request, in the order of its plan
    MaxOpens   \* bound: statements that one fragment runs

ASSUME RequestAssumption ==
    /\ Fragments \in [Requests -> Seq(Sources)]
    /\ \A r \in Requests : Len(Fragments[r]) \in 1 .. 2 /\ IsInjective(Fragments[r])
    /\ MaxOpens \in Nat

VARIABLES
    pc,       \* where each request is
    step,     \* which of its sources it acquires or drives
    opens,    \* statements the fragment has opened
    result,   \* what driving the fragment came to, while it is being finished
    answer,   \* how the request ended
    obtained, \* history: the sources whose generation it was given
    torn,     \* history: it read outside the transaction of a generation
    short     \* history: a closed channel was taken for the end of a result

sqliteVars == <<member, gen, worker, stream>>
pooledVars == <<conn, lease>>
sourceVars == <<world, reply, sqliteVars, pooledVars>>
history    == <<obtained, torn, short>>
vars       == <<sourceVars, pc, step, opens, result, answer, history>>

\* Without the sort.
AcquireAsPlanned(r) == Fragments[r]

\* In the order of the ids.
AcquireOrder(r) ==
    CHOOSE order \in {Fragments[r], Reverse(Fragments[r])} :
        \A i, j \in DOMAIN order : i < j => order[i] < order[j]

Waited(r) == AcquireOrder(r)[step[r]]
Driven(r) == Fragments[r][step[r]]
Sqlite(s) == kind[s] = "sqlite"

Leased(r, s) == LeasedSqlite(r, s) \/ LeasedPooled(r, s)
Leases(r)    == {s \in Sources : Leased(r, s)}
Driving(s)   == \E r \in Requests : pc[r] = "drive" /\ Driven(r) = s /\ Leased(r, s)

TypeOK ==
    /\ WorldTypeOK /\ SqliteTypeOK /\ PooledTypeOK
    /\ pc \in [Requests -> {"acquire", "begin", "compile", "drive", "finish",
                            "undo", "undoing", "done"}]
    /\ step \in [Requests -> 1 .. 2]
    /\ opens \in [Requests -> 0 .. MaxOpens]
    /\ result \in [Requests -> {"ok", "err"}]
    /\ answer \in [Requests -> {"none", "ok", "err", "gone"}]
    /\ obtained \in [Requests -> SUBSET Sources]
    /\ torn \in SUBSET Requests
    /\ short \in SUBSET Requests

Init ==
    /\ WorldInit /\ SqliteInit /\ PooledInit
    /\ pc = [r \in Requests |-> "acquire"]
    /\ step = [r \in Requests |-> 1]
    /\ opens = [r \in Requests |-> 0]
    /\ result = [r \in Requests |-> "ok"]
    /\ answer = [r \in Requests |-> "none"]
    /\ obtained = [r \in Requests |-> {}]
    /\ torn = {}
    /\ short = {}

Goes(r, to) == pc' = [pc EXCEPT ![r] = to]

-----------------------------------------------------------------------------
(* VerifiedGenerationLeases::acquire.                                       *)

\* The semaphore's permit, and the blocking begin behind it.
TakeMember(r, s) ==
    /\ Sqlite(s) /\ member[s].free /\ ~member[s].closed
    /\ member' = [member EXCEPT ![s].free = FALSE]
    /\ gen' = [gen EXCEPT ![s] = Taken(r)]
    /\ UNCHANGED <<worker, stream, pooledVars>>

TakePermit(r) ==
    LET s == Waited(r) IN
    /\ pc[r] = "acquire"
    /\ \/ TakeMember(r, s)
       \/ ~Sqlite(s) /\ TakeConnection(r, s) /\ UNCHANGED sqliteVars
    /\ Goes(r, "begin")
    /\ UNCHANGED <<world, reply, step, opens, result, answer, history>>

\* The budget ends the wait, or the member is retired.
AcquireFails(r) ==
    LET s == Waited(r) IN
    /\ pc[r] = "acquire" /\ (stopped[r] \/ (Sqlite(s) /\ member[s].closed))
    /\ Goes(r, "undo")
    /\ UNCHANGED <<sourceVars, step, opens, result, answer, history>>

\* The pool has waited long enough, or cannot connect.
ConnectFails(r) ==
    /\ pc[r] = "acquire" /\ ~Sqlite(Waited(r)) /\ Happens
    /\ Goes(r, "undo")
    /\ UNCHANGED <<reply, sqliteVars, pooledVars, step, opens, result, answer, history>>

\* The lease is given; then the next source, or the compiler.
Begun(r) ==
    LET s == Waited(r) IN
    /\ pc[r] = "begin" /\ Leased(r, s) /\ ~stopped[r]
    /\ obtained' = [obtained EXCEPT ![r] = @ \cup {s}]
    /\ IF step[r] < Len(Fragments[r])
       THEN step' = [step EXCEPT ![r] = @ + 1] /\ Goes(r, "acquire")
       ELSE step' = [step EXCEPT ![r] = 1] /\ Goes(r, "compile")
    /\ UNCHANGED <<sourceVars, opens, result, answer, torn, short>>

\* budget.run drops the wait for begin, or the lease it has just returned; the
\* rollback of a refused generation is not under the budget.
BeginCut(r) ==
    LET s == Waited(r) IN
    /\ pc[r] = "begin" /\ stopped[r] /\ lease[s].st # "rollback"
    /\ gen' = [gen EXCEPT ![s] = IF @.owner = r THEN Abandoned(@) ELSE @]
    /\ lease' = [lease EXCEPT ![s] = IF @.owner = r THEN LeftBehind(s) ELSE @]
    /\ Heard(r)
    /\ Goes(r, "undo")
    /\ UNCHANGED <<world, member, worker, stream, conn,
                   step, opens, result, answer, history>>

BeginErr(r) ==
    /\ pc[r] = "begin" /\ reply[r] = "err"
    /\ Heard(r)
    /\ Goes(r, "undo")
    /\ UNCHANGED <<world, sqliteVars, pooledVars, step, opens, result, answer, history>>

\* The authoritative compilation and the binding of its plan.
Compile(r) ==
    /\ pc[r] = "compile"
    /\ Goes(r, "drive") \/ Goes(r, "undo")
    /\ UNCHANGED <<sourceVars, step, opens, result, answer, history>>

-----------------------------------------------------------------------------
(* drive: select_each over the generation's backend.                        *)

\* The receiver has found the channel closed, all rows being read or not.
Exhausted(s) == stream[s] \in {"eof", "cut"} /\ worker[s] = "free"

\* A result cut short is taken for one that has been read to its end.
Believed(r, s) == short' = IF Exhausted(s) /\ stream[s] = "cut" THEN short \cup {r} ELSE short

\* The first branch or the next: register, and the blocking worker.
OpenMember(r, s) ==
    /\ Sqlite(s) /\ ~gen[s].failed
    /\ stream[s] = "none" \/ Exhausted(s)
    /\ worker' = [worker EXCEPT ![s] = "queued"]
    /\ stream' = [stream EXCEPT ![s] = "open"]
    /\ Believed(r, s)
    /\ UNCHANGED <<member, gen, pooledVars, torn>>

\* The statement goes to the session once the one before has been answered.
OpenPooled(r, s) ==
    /\ ~Sqlite(s) /\ ~conn[s].busy
    /\ conn' = [conn EXCEPT ![s].busy = TRUE]
    /\ torn' = IF conn[s].txn THEN torn ELSE torn \cup {r}
    /\ UNCHANGED <<lease, sqliteVars, short>>

Open(r) ==
    LET s == Driven(r) IN
    /\ pc[r] = "drive" /\ opens[r] < MaxOpens
    /\ opens' = [opens EXCEPT ![r] = @ + 1]
    /\ OpenMember(r, s) \/ OpenPooled(r, s)
    /\ UNCHANGED <<world, reply, pc, step, result, answer, obtained>>

\* The SQLite worker has a row for the receiver that its request is reading.
Row(s) ==
    /\ worker[s] = "locked" /\ stream[s] = "open" /\ Driving(s) /\ ~stopped[gen[s].owner]
    /\ torn' = IF member[s].txn THEN torn ELSE torn \cup {gen[s].owner}
    /\ UNCHANGED <<sourceVars, pc, step, opens, result, answer, obtained, short>>

\* The backend and its receiver are dropped, and finish is awaited.
FinishMember(r, s) ==
    /\ Sqlite(s)
    /\ stream' = [stream EXCEPT ![s] = "none"]
    /\ gen' = [gen EXCEPT ![s] = Finishing(@)]
    /\ UNCHANGED <<reply, member, worker, pooledVars>>

\* A MySQL query that has failed is not finished, only dropped.
FinishPooled(r, s, res) ==
    /\ ~Sqlite(s)
    /\ IF kind[s] = "mysql" /\ res = "err"
       THEN Spoiled(s)
       ELSE lease' = [lease EXCEPT ![s] = Checked(@)] /\ UNCHANGED <<conn, reply>>
    /\ UNCHANGED sqliteVars

FinishDriven(r, res) ==
    /\ FinishMember(r, Driven(r)) \/ FinishPooled(r, Driven(r), res)
    /\ result' = [result EXCEPT ![r] = res]
    /\ Goes(r, "finish")
    /\ UNCHANGED <<step, opens, answer, obtained, torn>>

\* Results read to their end, or as far as a LIMIT or ASK wants them.
DriveOk(r) ==
    /\ pc[r] = "drive"
    /\ Believed(r, Driven(r))
    /\ FinishDriven(r, "ok")
    /\ Calm

\* An error among the rows, a refused registration, or the budget.
DriveErr(r) ==
    LET s == Driven(r) IN
    /\ pc[r] = "drive"
    /\ \/ (stopped[r] \/ gen[s].failed \/ stream[s] = "err") /\ Calm
       \/ ~Sqlite(s) /\ Happens
    /\ FinishDriven(r, "err")
    /\ UNCHANGED short

-----------------------------------------------------------------------------
(* What finishing comes to.                                                 *)

\* The next fragment, the end, or the return of what remains.
Proceeds(r, well) ==
    /\ pc[r] = "finish" /\ reply[r] # "none"
    /\ Heard(r)
    /\ opens' = [opens EXCEPT ![r] = 0]
    /\ result' = [result EXCEPT ![r] = "ok"]
    /\ IF ~well THEN Goes(r, "undo") /\ UNCHANGED <<step, answer>>
       ELSE IF step[r] < Len(Fragments[r])
       THEN step' = [step EXCEPT ![r] = @ + 1] /\ Goes(r, "drive") /\ UNCHANGED answer
       ELSE answer' = [answer EXCEPT ![r] = "ok"] /\ Goes(r, "done") /\ UNCHANGED step
    /\ UNCHANGED <<world, sqliteVars, pooledVars, history>>

\* What finish says is let go.
FinishReturnsUnread(r) == Proceeds(r, result[r] = "ok")

\* Both the rows and the finish must be well.
FinishReturns(r) == Proceeds(r, result[r] = "ok" /\ reply[r] = "ok")

-----------------------------------------------------------------------------
(* VerifiedGenerationLeases::finish and close_acquired: one after another.  *)

\* The leases are dropped instead of finished.
UndoByDropping(r) ==
    /\ pc[r] = "undo"
    /\ gen' = [s \in Sources |-> IF LeasedSqlite(r, s) THEN Dropped(gen[s]) ELSE gen[s]]
    /\ lease' = [s \in Sources |-> IF LeasedPooled(r, s) THEN LeftBehind(s) ELSE lease[s]]
    /\ answer' = [answer EXCEPT ![r] = "err"] /\ Goes(r, "done")
    /\ UNCHANGED <<world, reply, member, worker, stream, conn,
                   step, opens, result, history>>

\* The next lease, or the end.
CloseLease(s) ==
    IF Sqlite(s) THEN gen' = [gen EXCEPT ![s] = Finishing(@)] /\ UNCHANGED lease
                 ELSE lease' = [lease EXCEPT ![s] = Closed(s)] /\ UNCHANGED gen

Undo(r) ==
    /\ pc[r] = "undo"
    /\ IF Leases(r) = {}
       THEN answer' = [answer EXCEPT ![r] = "err"] /\ Goes(r, "done") /\ UNCHANGED <<gen, lease>>
       ELSE (\E s \in Leases(r) : CloseLease(s)) /\ Goes(r, "undoing") /\ UNCHANGED answer
    /\ UNCHANGED <<world, reply, member, worker, stream, conn,
                   step, opens, result, history>>

UndoReturns(r) ==
    /\ pc[r] = "undoing" /\ reply[r] # "none"
    /\ Heard(r)
    /\ Goes(r, "undo")
    /\ UNCHANGED <<world, sqliteVars, pooledVars, step, opens, result, answer, history>>

\* The future is dropped: leases, receivers, and the waits for blocking work.
Vanish(r) ==
    /\ pc[r] # "done" /\ Happens
    /\ gen' = [s \in Sources |-> IF gen[s].owner = r THEN Abandoned(gen[s]) ELSE gen[s]]
    /\ stream' = [s \in Sources |-> IF gen[s].owner = r THEN "none" ELSE stream[s]]
    /\ lease' = [s \in Sources |-> IF lease[s].owner = r THEN LeftBehind(s) ELSE lease[s]]
    /\ Heard(r)
    /\ answer' = [answer EXCEPT ![r] = "gone"]
    /\ Goes(r, "done")
    /\ UNCHANGED <<member, worker, conn, step, opens, result, history>>

-----------------------------------------------------------------------------
\* A worker whose rows nobody takes blocks on the channel until the receiver goes.
Unblocked(s) == worker[s] = "locked" /\ stream[s] = "open" => Driving(s)

\* What a polled handler does when nothing else happens.
Proceed(r) ==
    \/ TakePermit(r) \/ AcquireFails(r) \/ Begun(r) \/ BeginCut(r)
    \/ BeginErr(r) \/ Compile(r) \/ DriveOk(r) \/ FinishReturns(r)
    \/ Undo(r) \/ UndoReturns(r)

RequestStep(r) == Proceed(r) \/ Open(r) \/ DriveErr(r) \/ ConnectFails(r) \/ Vanish(r)

reqVars == <<pc, step, opens, result, answer, history>>

\* What runs beside the requests.
Begins(s)      == BeginStep(s) /\ UNCHANGED <<pooledVars, reqVars>>
CleansUp(s)    == Cleanup(s) /\ UNCHANGED <<pooledVars, reqVars>>
LastGoes(s)    == Release(s) /\ UNCHANGED <<pooledVars, reqVars>>
WorkerRuns(s)  == Unblocked(s) /\ WorkerStep(s) /\ UNCHANGED <<pooledVars, reqVars>>
LeaseRuns(s)   == LeaseStep(s) /\ UNCHANGED <<sqliteVars, reqVars>>
LeaseFails(s)  == LeaseFailure(s) /\ UNCHANGED <<sqliteVars, reqVars>>
ServerRuns(s)  == ServerStep(s) /\ UNCHANGED <<sqliteVars, reqVars>>
CancelRuns(s)  == CancelStep(s) /\ UNCHANGED <<sqliteVars, reqVars>>
Closes(s)      == Close(s) /\ UNCHANGED <<sqliteVars, reqVars>>
WorldMoves ==
    /\ (\E s \in Sources : Drifts(s)) \/ (\E r \in Requests : BudgetStops(r))
    /\ UNCHANGED <<sqliteVars, pooledVars, reqVars>>

Next ==
    \/ \E r \in Requests : RequestStep(r)
    \/ \E s \in Sources :
          \/ Begins(s) \/ CleansUp(s) \/ LastGoes(s) \/ Row(s) \/ WorkerRuns(s)
          \/ LeaseRuns(s) \/ LeaseFails(s) \/ ServerRuns(s) \/ CancelRuns(s) \/ Closes(s)
    \/ WorldMoves

Spec == Init /\ [][Next]_vars

\* Handlers are polled, blocking workers run and end, servers answer, permits are
\* handed out, and cleanup tasks run.  Nothing obliges the budget to stop, a pool
\* to give up waiting, a client to leave or a step to fail.
Fairness ==
    /\ \A r \in Requests : WF_vars(Proceed(r))
    /\ \A s \in Sources :
          /\ WF_vars(Begins(s) \/ CleansUp(s) \/ LastGoes(s)) /\ WF_vars(WorkerRuns(s))
          /\ WF_vars(LeaseRuns(s) \/ Closes(s)) /\ WF_vars(ServerRuns(s))

FairSpec == Spec /\ Fairness

-----------------------------------------------------------------------------
(* A connection that can be taken is idle: no transaction, no worker or      *)
(* statement of an earlier generation, no request to cancel under way, no   *)
(* poisoned mutex, whatever happened to the request that used it last.      *)
FreeMemberIsClean ==
    \A s \in Sources :
        /\ member[s].free /\ ~member[s].closed =>
            /\ ~member[s].txn /\ ~member[s].poisoned
            /\ Gone(s) /\ stream[s] = "none"
        /\ conn[s].free => conn[s] = Fresh

(* A request that succeeds has read every row in the transaction its       *)
(* schema was verified in, and no panicking worker has cut its rows short,  *)
(* which looks like the end of a result to the code that reads them.        *)
SuccessIsSound ==
    \A r \in Requests : answer[r] = "ok" => r \notin short \cup torn

(* A request that has answered has seen the cleanup of every generation it  *)
(* was given, on the paths where a later source failed as well; all that    *)
(* may go on is the closing of a connection that could not be proved clean. *)
AnsweredHoldsNothing ==
    \A r \in Requests, s \in Sources :
        answer[r] \in {"ok", "err"} /\ s \in obtained[r] =>
            /\ gen[s].owner = r => gen[s].st = "ended"
            /\ lease[s].owner = r => lease[s].st = "discard"

(* Requests that need several members of one permit each never wait for     *)
(* each other for ever, without the help of a deadline.                     *)
RequestsEnd == \A r \in Requests : <>(pc[r] = "done")

(* Every connection returns its permit, to be taken again or retired, even  *)
(* if nobody has waited for begin or for the cleanup.                       *)
MembersComeBack == \A s \in Sources : <>[](member[s].free /\ conn[s].free)
=============================================================================
