----------------------------- MODULE ParserWorker -----------------------------
(***************************************************************************)
(* The compilation of one request: its handler, the blocking thread that   *)
(* owns the compiler slot, the isolated process that parses the query, and *)
(* the supervision of that process, which must contain and reap it on      *)
(* every path.  The process parses what a client sent and may do anything. *)
(* Source: crates/sf-sparql/src/parser_isolation/supervisor/ and           *)
(* runtime.rs; crates/sf-serve/src/deadline.rs.                            *)
(***************************************************************************)
EXTENDS Naturals, Sequences

CONSTANTS MaxUnread,   \* bound: parts the process writes ahead of its reader
          MaxRefusals  \* bound: signals that the kernel refuses to deliver

VARIABLES
    handler,  \* the request's handler: it waits for the thread, or is done
    slot,     \* the CompilerReservation: "free", or moved into the "thread"
    thread,   \* where the blocking thread is
    path,     \* on whose behalf it kills: "contain", "drop", "unbound", or not
    told,     \* what it has come to
    process,  \* the parser process
    exit,     \* its status, once it has one
    output,   \* what it has written and nobody has read
    closed,   \* it has closed its output
    pid,      \* whose its number is
    struck,   \* history: whom the last signal by number has reached
    expired,  \* wall_deadline
    failed,   \* the kinds of signal refused in the attempt under way
    refused,  \* how many signals have been refused so far
    stopped   \* the request's budget: a deadline, a cause, or forced shutdown

processVars == <<process, exit, output, closed, pid, struck>>
killVars    == <<path, failed, refused>>
parserVars  == <<handler, slot, thread, told, processVars, expired, killVars>>

Exchange == {"ready", "answer", "eof", "wait"}
Killing  == {"group", "exact", "fallback"}
Parts    == {"ready", "answer", "junk"}
Gone     == {"none", "reaped"}

TypeOK ==
    /\ handler \in {"new", "waiting", "planned", "failed"}
    /\ slot \in {"free", "thread"}
    /\ thread \in Exchange \cup Killing
                \cup {"idle", "queued", "sweep", "reap", "compile", "over"}
    /\ path \in {"none", "contain", "drop", "unbound"}
    /\ told \in {"none", "plan", "failed", "expired"}
    /\ process \in {"none", "running", "dying", "zombie", "reaped"}
    /\ exit \in {"none", "success", "failure"}
    /\ output \in Seq(Parts) /\ Len(output) <= MaxUnread
    /\ pid \in {"nobody", "worker", "stranger"}
    /\ struck \in {"nobody", "worker", "stranger"}
    /\ failed \subseteq Killing /\ refused \in 0 .. MaxRefusals
    /\ {closed, expired, stopped} \subseteq BOOLEAN

Init ==
    /\ handler = "new" /\ slot = "free"
    /\ thread = "idle" /\ path = "none" /\ told = "none"
    /\ process = "none" /\ exit = "none" /\ output = <<>> /\ closed = FALSE
    /\ pid = "nobody" /\ struck = "nobody"
    /\ expired = FALSE /\ failed = {} /\ refused = 0

-----------------------------------------------------------------------------
(* The handler. *)

\* run_compiler: the slot moves into the closure.
Submit ==
    /\ handler = "new" /\ ~stopped
    /\ handler' = "waiting" /\ slot' = "thread" /\ thread' = "queued"
    /\ UNCHANGED <<told, processVars, expired, killVars, stopped>>

\* budget.run(task) hands over what the thread returned, the slot with it.
Joined ==
    /\ handler = "waiting" /\ thread = "over"
    /\ handler' = IF told = "plan" /\ ~stopped THEN "planned" ELSE "failed"
    /\ slot' = "free"
    /\ UNCHANGED <<thread, told, processVars, expired, killVars, stopped>>

\* A handler that has lent its slot to the thread, and takes it with it.
AbandonWithSlot ==
    /\ handler \in {"new", "waiting"}
    /\ handler' = "failed" /\ slot' = "free"
    /\ UNCHANGED <<thread, told, processVars, expired, killVars>>

\* The handler gives up; the thread, if it is still under way, goes on.
Abandon ==
    /\ handler \in {"new", "waiting"}
    /\ handler' = "failed"
    /\ slot' = IF thread \in {"idle", "over"} THEN "free" ELSE slot
    /\ UNCHANGED <<thread, told, processVars, expired, killVars>>

Interrupted == stopped /\ Abandon /\ UNCHANGED stopped

\* CancellationGuard: the client is gone, the budget is cancelled.
Disconnected == Abandon /\ stopped' = TRUE

-----------------------------------------------------------------------------
(* The thread, until it has a process to talk to. *)

\* The closure returns; without a waiter its value is dropped at once.
Over(result) ==
    /\ thread' = "over" /\ told' = result
    /\ slot' = IF handler = "waiting" THEN slot ELSE "free"
    /\ UNCHANGED handler

Refuse ==
    /\ thread = "queued"
    /\ Over("failed")
    /\ UNCHANGED <<processVars, expired, killVars, stopped>>

\* Stopped before it spawns, or unable to.
DeclineStopped == stopped /\ Refuse
SpawnFails     == ~stopped /\ Refuse

\* A process with its pidfd and its pipes, or one that has to be killed without.
Spawn ==
    /\ thread = "queued" /\ ~stopped
    /\ \/ thread' = "ready" /\ UNCHANGED path
       \/ thread' = "group" /\ path' = "unbound"
    /\ process' = "running" /\ pid' = "worker"
    /\ UNCHANGED <<handler, slot, told, exit, output, closed, struck, expired,
                   failed, refused, stopped>>

-----------------------------------------------------------------------------
(* The exchange.  Every step asks the budget and the deadline.              *)

Read(place, part, next) ==
    /\ thread = place /\ ~stopped /\ ~expired
    /\ output # <<>> /\ Head(output) = part
    /\ output' = Tail(output) /\ thread' = next
    /\ UNCHANGED <<handler, slot, told, process, exit, closed, pid, struck,
                   expired, killVars, stopped>>

\* A frame that is complete is taken for the whole output.
ReadAnswerOnly == Read("answer", "answer", "wait")

ReadReady == Read("ready", "ready", "answer")

ReadAnswer == Read("answer", "answer", "eof")

\* expect_eof
SeeEof ==
    /\ thread = "eof" /\ ~stopped /\ ~expired
    /\ output = <<>> /\ closed
    /\ thread' = "wait"
    /\ UNCHANGED <<handler, slot, told, processVars, expired, killVars, stopped>>

\* waitid without WNOWAIT.
SeeExitReaping ==
    /\ thread = "wait" /\ ~stopped /\ ~expired
    /\ process = "zombie"
    /\ thread' = "sweep" /\ process' = "reaped" /\ pid' = "nobody"
    /\ UNCHANGED <<handler, slot, told, exit, output, closed, struck, expired,
                   killVars, stopped>>

\* The pidfd says so, and waitid leaves the process waitable.
SeeExit ==
    /\ thread = "wait" /\ ~stopped /\ ~expired
    /\ process = "zombie"
    /\ thread' = "sweep"
    /\ UNCHANGED <<handler, slot, told, processVars, expired, killVars, stopped>>

\* contain_live_failure, or the drop of the process by a panic.
Kill(why, result) ==
    /\ thread' = "group" /\ path' = why /\ told' = result
    /\ UNCHANGED <<handler, slot, processVars, expired, failed, refused, stopped>>

Breached ==
    \/ thread \in {"ready", "answer"}
       /\ IF output = <<>> THEN closed ELSE Head(output) # thread
    \/ thread = "eof" /\ output # <<>>

ExchangeFails ==
    /\ thread \in Exchange /\ (stopped \/ expired \/ Breached)
    /\ Kill("contain", IF expired /\ ~stopped THEN "expired" ELSE "failed")

\* A system call of the supervisor fails.
CallFails == thread \in Exchange /\ Kill("contain", "failed")

Panics == thread \in Exchange /\ Kill("drop", "failed")

-----------------------------------------------------------------------------
(* Containment: terminate_and_reap, terminate_unbound_child.                *)

\* Who is reached by a signal sent to the number, or through the pidfd.
Hits(byNumber) ==
    /\ struck' = IF byNumber THEN pid ELSE struck
    /\ process' = IF process = "running" /\ (byNumber => pid = "worker")
                  THEN "dying" ELSE process
    /\ UNCHANGED <<exit, output, closed, pid>>

AfterSignal(kind, missed) ==
    /\ failed' = missed
    /\ thread' =
         CASE kind = "group" -> "exact"
           [] kind = "exact" /\ missed = {"group", "exact"} /\ path # "unbound" -> "fallback"
           [] OTHER -> "reap"

Signal(kind, byNumber) ==
    /\ thread = kind
    /\ Hits(byNumber) /\ AfterSignal(kind, failed)
    /\ UNCHANGED <<handler, slot, told, expired, path, refused, stopped>>

SignalGroup    == Signal("group", TRUE)
SignalExact    == Signal("exact", path = "unbound")
SignalFallback == Signal("fallback", TRUE)

SignalRefused ==
    /\ thread \in {"group", "exact"} /\ refused < MaxRefusals
    /\ refused' = refused + 1
    /\ AfterSignal(thread, failed \cup {thread})
    /\ UNCHANGED <<handler, slot, told, processVars, expired, path, stopped>>

\* Nothing could be signalled: an error now, and once more in drop.
FallbackRefused ==
    /\ thread = "fallback" /\ refused < MaxRefusals
    /\ refused' = refused + 1
    /\ failed' = {}
    /\ IF path = "contain"
       THEN /\ thread' = "group" /\ path' = "drop" /\ told' = "failed"
            /\ UNCHANGED <<handler, slot>>
       ELSE Over("failed") /\ UNCHANGED path
    /\ UNCHANGED <<processVars, expired, stopped>>

Sweep ==
    /\ thread = "sweep"
    /\ Hits(TRUE) /\ thread' = "reap"
    /\ UNCHANGED <<handler, slot, told, expired, killVars, stopped>>

SweepRefused ==
    /\ thread = "sweep" /\ refused < MaxRefusals
    /\ refused' = refused + 1 /\ failed' = {"group"} /\ thread' = "reap"
    /\ UNCHANGED <<handler, slot, told, processVars, expired, path, stopped>>

\* wait(): the process leaves its number.  A failure to signal is the result;
\* public_error seals the deadline into the budget.
Reap ==
    /\ thread = "reap" /\ process = "zombie"
    /\ process' = "reaped" /\ pid' = "nobody"
    /\ IF path = "none" /\ failed = {} /\ exit = "success" /\ ~stopped
       THEN /\ thread' = "compile"
            /\ UNCHANGED <<handler, slot, told, stopped>>
       ELSE /\ Over(IF failed = {} /\ told = "expired" THEN "expired" ELSE "failed")
            /\ stopped' = (stopped \/ told' = "expired")
    /\ UNCHANGED <<exit, output, closed, struck, expired, killVars>>

\* The decoded answer is a query and compiles, or it is a rejection or does not;
\* running out of a resource seals the budget too.
Compiled ==
    /\ thread = "compile"
    /\ Over(IF stopped THEN "failed" ELSE "plan")
    /\ UNCHANGED <<processVars, expired, killVars, stopped>>

Rejected ==
    /\ thread = "compile"
    /\ Over("failed")
    /\ stopped' \in {stopped, TRUE}
    /\ UNCHANGED <<processVars, expired, killVars>>

-----------------------------------------------------------------------------
(* The process, the kernel and the clock. *)

Writes ==
    /\ process = "running" /\ ~closed /\ Len(output) < MaxUnread
    /\ \E part \in Parts : output' = Append(output, part)
    /\ UNCHANGED <<handler, slot, thread, told, process, exit, closed, pid,
                   struck, expired, killVars, stopped>>

Closes ==
    /\ process = "running" /\ ~closed
    /\ closed' = TRUE
    /\ UNCHANGED <<handler, slot, thread, told, process, exit, output, pid,
                   struck, expired, killVars, stopped>>

Ends(status) ==
    /\ process' = "zombie" /\ exit' = status /\ closed' = TRUE
    /\ UNCHANGED <<handler, slot, thread, told, output, pid, struck, expired,
                   killVars, stopped>>

Exits == process = "running" /\ \E status \in {"success", "failure"} : Ends(status)
Dies  == process = "dying" /\ Ends("failure")

NumberReused ==
    /\ process = "reaped" /\ pid = "nobody"
    /\ pid' = "stranger"
    /\ UNCHANGED <<handler, slot, thread, told, process, exit, output, closed,
                   struck, expired, killVars, stopped>>

Expires ==
    /\ thread \in Exchange /\ ~expired
    /\ expired' = TRUE
    /\ UNCHANGED <<handler, slot, thread, told, processVars, killVars, stopped>>

-----------------------------------------------------------------------------
Handler   == Submit \/ Joined \/ Interrupted
Supervise ==
    \/ DeclineStopped \/ Spawn
    \/ ReadReady \/ ReadAnswer \/ SeeEof \/ SeeExit \/ ExchangeFails
    \/ SignalGroup \/ SignalExact \/ SignalFallback \/ Sweep
    \/ Reap \/ Compiled
Mishap    == SpawnFails \/ CallFails \/ Panics \/ SignalRefused \/ FallbackRefused
                        \/ SweepRefused \/ Rejected
Process   == Writes \/ Closes \/ Exits \/ NumberReused

Next == Handler \/ Supervise \/ Mishap \/ Process \/ Dies \/ Expires

-----------------------------------------------------------------------------
(* Properties *)

(* A signal by number never reaches a process that has inherited the       *)
(* number: groups are swept before their leader is reaped, on every path.  *)
SignalsHitTheWorker == struck # "stranger"

(* The compiler slot bounds the processes: it is free again only when the  *)
(* process is reaped, even if the handler has long given up, unless the    *)
(* kernel has refused every way to kill it.                                *)
SlotOutlivesProcess == slot = "free" => process \in Gone \/ refused > 2

(* A plan is made only from the complete output of a process that exited   *)
(* successfully and has been reaped.                                       *)
PlanIsWhole ==
    thread = "compile" \/ told = "plan" =>
        process = "reaped" /\ exit = "success" /\ output = <<>>
=============================================================================
