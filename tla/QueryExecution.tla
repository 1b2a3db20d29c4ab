---------------------------- MODULE QueryExecution ----------------------------
(***************************************************************************)
(* A streamed query from its handler's start to the end of its body: the   *)
(* compilation with its isolated parser, and then, with the plan, the      *)
(* producer and the body, under one request budget that either may stop.   *)
(* Source: crates/sf-serve/src/http.rs (process, dispatch).                *)
(***************************************************************************)
EXTENDS StreamBody

CONSTANTS MaxUnread, MaxRefusals

ASSUME ExecutionAssumption == MaxUnread \in Nat /\ MaxRefusals \in Nat

VARIABLES handler, slot, thread, path, told, process, exit, output, closed,
          pid, struck, expired, failed, refused

Parser == INSTANCE ParserWorker

streamVars == <<document, producerVars, queue, outcome, clientVars>>
parserVars == <<handler, slot, thread, path, told, process, exit, output, closed,
                pid, struck, expired, failed, refused>>
allVars    == <<vars, parserVars>>

ExecutionInit == Init /\ Parser!Init

-----------------------------------------------------------------------------
\* No body before there is a plan; the request's budget is one for both.
Compiling == Parser!Next /\ UNCHANGED streamVars
Streaming == handler = "planned" /\ Next /\ UNCHANGED parserVars
Stopping  == BudgetStops /\ UNCHANGED parserVars

\* The connection ends while the handler is still at work.
Leaving ==
    /\ handler # "planned" /\ client # "gone"
    /\ client' = "gone"
    /\ Parser!Disconnected
    /\ UNCHANGED <<document, producerVars, queue, outcome, body, delivered, verdict>>

ExecutionNext == Compiling \/ Streaming \/ Stopping \/ Leaving

Planned(A) == handler = "planned" /\ A /\ UNCHANGED parserVars
Alone(A)   == A /\ UNCHANGED streamVars

\* The runtime polls the handler, the task and the body; the blocking thread
\* runs; the kernel ends what it has killed; both deadlines come.  The parser
\* owes no output, the driver no rows, and the client need not read.
ExecutionSpec ==
    /\ ExecutionInit /\ [][ExecutionNext]_allVars
    /\ WF_allVars(Alone(Parser!Handler)) /\ WF_allVars(Alone(Parser!Supervise))
    /\ WF_allVars(Alone(Parser!Dies)) /\ WF_allVars(Alone(Parser!Expires))
    /\ WF_allVars(Stopping)
    /\ WF_allVars(Planned(Task)) /\ WF_allVars(Planned(Poll))

-----------------------------------------------------------------------------
(* Properties *)

(* See ParserWorker: no signal reaches a stranger; no slot is free while   *)
(* its process lives; no plan comes from a part of an answer.              *)
SignalsHitTheWorker == Parser!SignalsHitTheWorker
SlotOutlivesProcess == Parser!SlotOutlivesProcess
PlanIsWhole         == Parser!PlanIsWhole

(* Whatever the parser process, the driver and the client do: the handler  *)
(* or the producer ends, even with a client that stalls while the channel  *)
(* is full; the compiler slot comes back, unless the kernel has refused to *)
(* kill; and a client that reads its body is told how the result has ended.*)
RequestEnds ==
    /\ <>(handler = "failed" \/ pc = "over")
    /\ <>[](slot = "free" \/ refused > 1)
    /\ (handler = "planned" /\ client = "reading")
           ~> (verdict # "none" \/ client # "reading")
=============================================================================
