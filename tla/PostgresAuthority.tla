------------------------- MODULE PostgresAuthority -------------------------
(***************************************************************************)
(* The PostgreSQL store of the capture authority.  Each call of apply runs *)
(* one SERIALIZABLE transaction: it fixes its snapshot with the first      *)
(* exact lookup, locks the authority head, plans on the snapshot, stages   *)
(* its writes and commits.  The connection may break at any point, the     *)
(* COMMIT may take effect or not without the caller learning of it, and    *)
(* after such a failure the caller looks for its exact event through       *)
(* another pool.  Calls are concurrent, and callers retry by calling again.*)
(*                                                                         *)
(* SELECT ... FOR UPDATE of the head waits for its holder and fails when   *)
(* the head has moved since the snapshot; both, like the server's freedom  *)
(* to decide a submitted COMMIT later, are PostgreSQL's.                   *)
(***************************************************************************)
EXTENDS AuthorityKernel

CONSTANTS
  Calls,       \* concurrent calls of apply
  NoCall,      \* nobody: the head is not locked
  NoRequest    \* the request of a call that was never made

ASSUME CallsAssumption ==
  NoCall \notin Calls /\ NoRequest \notin Requests /\ MaxEvents \in Nat

VARIABLES
  tx,                       \* the transaction that holds the head
  pc, request, snapshot, error, answer, wrote   \* the calls

db == vars   \* the committed tables
storeVars == <<runs, resources, events, tx, pc, request, snapshot, error, answer, wrote>>

State == [runs : [Runs -> RunState], resources : [Resources -> ResourceState],
          events : Seq(Request)]

Current == [runs |-> runs, resources |-> resources, events |-> events]
Nothing == [runs |-> [r \in Runs |-> NoRun], resources |-> [x \in Resources |-> NoResource],
            events |-> <<>>]

\* stage "open": statements are still being sent; "submitted": COMMIT was sent.
NoTx == [call |-> NoCall, stage |-> "open", staged |-> Nothing]

Errors == {"None", "Postgres", "CommitOutcomeUnknown"}
Answers == {"None", "Committed", "Recovered", "Refused", "Postgres", "CommitOutcomeUnknown"}
Locations ==
  {"idle", "begin", "locking", "planning", "staging", "committing", "acknowledged",
   "recovering", "answered"}

StoreTypeOK ==
  /\ runs \in [Runs -> RunState]
  /\ resources \in [Resources -> ResourceState]
  /\ events \in Seq(Request)
  /\ tx \in [call : Calls \cup {NoCall}, stage : {"open", "submitted"}, staged : State]
  /\ pc \in [Calls -> Locations]
  /\ request \in [Calls -> Requests \cup {NoRequest}]
  /\ snapshot \in [Calls -> State]
  /\ error \in [Calls -> Errors]
  /\ answer \in [Calls -> Answers]
  /\ wrote \in [Calls -> BOOLEAN]

StoreInit ==
  /\ runs = Nothing.runs
  /\ resources = Nothing.resources
  /\ events = Nothing.events
  /\ tx = NoTx
  /\ pc = [c \in Calls |-> "idle"]
  /\ request = [c \in Calls |-> NoRequest]
  /\ snapshot = [c \in Calls |-> Nothing]
  /\ error = [c \in Calls |-> "None"]
  /\ answer = [c \in Calls |-> "None"]
  /\ wrote = [c \in Calls |-> FALSE]

Goto(c, l) == pc' = [pc EXCEPT ![c] = l]

Answer(c, a) ==
  /\ Goto(c, "answered")
  /\ answer' = [answer EXCEPT ![c] = a]
  /\ snapshot' = [snapshot EXCEPT ![c] = Nothing]

\* Postgres and CommitOutcomeUnknown are not reported before an exact recovery.
Recovering(c, e) ==
  /\ Goto(c, "recovering")
  /\ error' = [error EXCEPT ![c] = e]
  /\ snapshot' = [snapshot EXCEPT ![c] = Nothing]

\* A call: any request, the first time or again, while other calls are running.
Call(c, req) ==
  /\ pc[c] \in {"idle", "answered"}
  /\ tx.call # c
  /\ Goto(c, "begin")
  /\ request' = [request EXCEPT ![c] = req]
  /\ error' = [error EXCEPT ![c] = "None"]
  /\ answer' = [answer EXCEPT ![c] = "None"]
  /\ wrote' = [wrote EXCEPT ![c] = FALSE]
  /\ UNCHANGED <<db, tx, snapshot>>

\* The first lookup fixes the snapshot; a request already applied is answered
\* from it, by a read-only commit that may fail.
Begin(c) ==
  /\ pc[c] = "begin"
  /\ \/ /\ ~Found(events, request[c])
        /\ Goto(c, "locking")
        /\ snapshot' = [snapshot EXCEPT ![c] = Current]
        /\ UNCHANGED <<error, answer>>
     \/ /\ Exact(events, request[c])
        /\ \/ Answer(c, "Recovered") /\ UNCHANGED error
           \/ Recovering(c, "CommitOutcomeUnknown") /\ UNCHANGED answer
     \/ /\ Found(events, request[c])
        /\ ~Exact(events, request[c])
        /\ Answer(c, "Refused")
        /\ UNCHANGED error
  /\ UNCHANGED <<db, tx, request, wrote>>

LockHeadUnchecked(c) ==
  /\ pc[c] = "locking"
  /\ tx.call = NoCall
  /\ tx' = [NoTx EXCEPT !.call = c]
  /\ Goto(c, "planning")
  /\ UNCHANGED <<db, error, snapshot, request, answer, wrote>>

\* lock_authority_head
LockHead(c) ==
  /\ pc[c] = "locking"
  /\ tx.call = NoCall
  /\ IF Len(events) = Len(snapshot[c].events)
     THEN /\ tx' = [NoTx EXCEPT !.call = c]
          /\ Goto(c, "planning")
          /\ UNCHANGED <<error, snapshot>>
     ELSE Recovering(c, "Postgres") /\ UNCHANGED tx
  /\ UNCHANGED <<db, request, answer, wrote>>

\* Rows are loaded, the clock is read under the lock, and plan_transition
\* decides; the accepted event is materialized outside the database, which may
\* fail, and the writes of finalize_transition are staged.  A sequence or fence
\* beyond its bound is refused like any other request.
Refuse(c) ==
  /\ Answer(c, "Refused")
  /\ tx' = NoTx
  /\ UNCHANGED <<db, request, error, wrote>>

Plan(c) ==
  /\ pc[c] = "planning"
  /\ LET req == request[c]
         snap == snapshot[c]
         run == snap.runs[req.run]
         seq == Len(snap.events) + 1
     IN  \/ \E now \in Times, fence \in 0..MaxFence :
              /\ seq <= MaxEvents
              /\ Accepts(req, run, snap.resources, now, fence)
              /\ req.op.kind # "GrantLease" => fence = 0
              /\ tx' = [tx EXCEPT !.staged =
                   [runs |-> [snap.runs EXCEPT ![req.run] = RunAfter(req, run, seq, now, fence)],
                    resources |-> ResourcesAfter(req, run, snap.resources, fence),
                    events |-> Append(snap.events, req)]]
              /\ Goto(c, "staging")
              /\ UNCHANGED <<db, request, snapshot, error, answer, wrote>>
         \/ /\ \/ seq > MaxEvents
               \/ \E now \in Times : \A fence \in 0..MaxFence :
                    ~Accepts(req, run, snap.resources, now, fence)
            /\ Refuse(c)

MaterializerFails(c) == pc[c] = "staging" /\ Refuse(c)

\* The last statement was the head's compare-and-set; COMMIT is sent.
SubmitCommit(c) ==
  /\ pc[c] = "staging"
  /\ tx' = [tx EXCEPT !.stage = "submitted"]
  /\ Goto(c, "committing")
  /\ snapshot' = [snapshot EXCEPT ![c] = Nothing]
  /\ UNCHANGED <<db, request, error, answer, wrote>>

\* The server decides a submitted COMMIT, whether or not its caller is there.
ServerCommits ==
  /\ tx.stage = "submitted"
  /\ runs' = tx.staged.runs
  /\ resources' = tx.staged.resources
  /\ events' = tx.staged.events
  /\ tx' = NoTx
  /\ wrote' = [wrote EXCEPT ![tx.call] = TRUE]
  /\ pc' = [pc EXCEPT ![tx.call] = IF @ = "committing" THEN "acknowledged" ELSE @]
  /\ UNCHANGED <<request, snapshot, error, answer>>

\* The server aborts a transaction that was submitted, or whose caller is gone.
ServerAborts ==
  /\ tx.call # NoCall
  /\ tx.stage = "submitted" \/ pc[tx.call] \notin {"planning", "staging"}
  /\ IF pc[tx.call] = "committing"
     THEN Recovering(tx.call, "CommitOutcomeUnknown")
     ELSE UNCHANGED <<pc, error, snapshot>>
  /\ tx' = NoTx
  /\ UNCHANGED <<db, request, answer, wrote>>

Acknowledge(c) ==
  /\ pc[c] = "acknowledged"
  /\ Answer(c, "Committed")
  /\ UNCHANGED <<db, tx, request, error, wrote>>

ConnectionFailsWithOneError(c) ==
  /\ pc[c] \in {"begin", "locking", "planning", "staging", "committing", "acknowledged"}
  /\ Recovering(c, "Postgres")
  /\ UNCHANGED <<db, tx, request, answer, wrote>>

\* A statement or the pool fails before COMMIT was sent; or the answer to COMMIT
\* is lost.  The server's side of the transaction is left as it is.
ConnectionFails(c) ==
  /\ \/ pc[c] \in {"begin", "locking", "planning", "staging"} /\ Recovering(c, "Postgres")
     \/ pc[c] \in {"committing", "acknowledged"} /\ Recovering(c, "CommitOutcomeUnknown")
  /\ UNCHANGED <<db, tx, request, answer, wrote>>

RecoverUntilFound(c) ==
  /\ pc[c] = "recovering"
  /\ Exact(events, request[c])
  /\ Answer(c, "Recovered")
  /\ error' = [error EXCEPT ![c] = "None"]
  /\ UNCHANGED <<db, tx, request, wrote>>

\* recover_exact, through the recovery pool; when it finds nothing, or fails,
\* the caller is told of the original error.
RecoverExact(c) ==
  /\ pc[c] = "recovering"
  /\ \/ Exact(events, request[c]) /\ Answer(c, "Recovered")
     \/ Answer(c, error[c])
  /\ error' = [error EXCEPT ![c] = "None"]
  /\ UNCHANGED <<db, tx, request, wrote>>

\* The caller drops the future of its call.
Cancel(c) ==
  /\ pc[c] \notin {"idle", "answered"}
  /\ Goto(c, "idle")
  /\ snapshot' = [snapshot EXCEPT ![c] = Nothing]
  /\ request' = [request EXCEPT ![c] = NoRequest]
  /\ error' = [error EXCEPT ![c] = "None"]
  /\ UNCHANGED <<db, tx, answer, wrote>>

Step(c) ==
  \/ Begin(c) \/ LockHead(c) \/ Plan(c) \/ MaterializerFails(c) \/ SubmitCommit(c)
  \/ Acknowledge(c) \/ RecoverExact(c)

StoreNext ==
  \/ \E c \in Calls, req \in Requests : Call(c, req)
  \/ \E c \in Calls : Step(c) \/ ConnectionFails(c) \/ Cancel(c)
  \/ ServerCommits
  \/ ServerAborts

\* Calls run on, and the server decides each transaction in the end.
Fairness ==
  /\ \A c \in Calls : WF_storeVars(Begin(c) \/ Plan(c) \/ SubmitCommit(c)
                              \/ Acknowledge(c) \/ RecoverExact(c))
  /\ \A c \in Calls : SF_storeVars(LockHead(c))
  /\ WF_storeVars(ServerCommits \/ ServerAborts)

StoreSpec == StoreInit /\ [][StoreNext]_storeVars /\ Fairness

-----------------------------------------------------------------------------
\* Whatever fails, the store is the atomic authority of AuthorityKernel: what
\* happens to the committed tables is a behaviour of its specification.
ImplementsKernel == Spec

\* What a caller was told is true: after Committed or Recovered the event of this
\* very request is in the log, and after any error but CommitOutcomeUnknown this
\* call has written nothing and never will.
AnswersAreTrue ==
  \A c \in Calls :
    pc[c] = "answered" =>
      /\ answer[c] \in {"Committed", "Recovered"} => Exact(events, request[c])
      /\ answer[c] \in {"Refused", "Postgres"} =>
           ~wrote[c] /\ ~(tx.call = c /\ tx.stage = "submitted")

\* Every call is answered or dropped: the head lock is handed on even when its
\* holder's caller disappears, so nobody waits for it for ever.
CallsAreAnswered ==
  \A c \in Calls : pc[c] = "begin" ~> pc[c] \in {"answered", "idle"}
=============================================================================
