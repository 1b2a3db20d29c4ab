------------------------------ MODULE StreamBody ------------------------------
(***************************************************************************)
(* A streamed response body: the governed producer task that serialises    *)
(* rows into a buffer and sends it by chunks over a bounded channel, the   *)
(* out-of-band terminal outcome, the fused body that drains the channel    *)
(* before it looks at the outcome, a client that may stall or leave, and   *)
(* the request budget that ends the producer.                              *)
(* Source: crates/sf-serve/src/terminal_body.rs, stream.rs, budget.rs.     *)
(***************************************************************************)
EXTENDS Naturals, Sequences

CONSTANTS Capacity,   \* CHANNEL_CAP
          ChunkSize,  \* CHUNK, in pieces of the document
          MaxRows     \* bound: rows of a result

ASSUME StreamAssumption ==
    /\ Capacity \in Nat \ {0}
    /\ ChunkSize \in Nat \ {0}
    /\ MaxRows \in Nat

VARIABLES
    document,   \* header, rows and footer, in the order they are serialised
    serialised, \* how many of them have been serialised
    buffer,     \* SharedBuf: serialised and not yet taken
    chunk,      \* the bytes of the send under way
    pc,         \* the producer task
    result,     \* the ProducerOutcome it has come to
    stopped,    \* the budget: its deadline, its cause, or forced shutdown
    queue,      \* the mpsc channel
    outcome,    \* the oneshot: "none", a ProducerOutcome, or "dropped"
    body,       \* FusedBodyStream.phase
    client,     \* "reading", "stalled" for good, or "gone" with the body
    delivered,  \* the concatenation of what the body has yielded
    verdict     \* how the body has ended for the client

vars == <<document, serialised, buffer, chunk, pc, result, stopped, queue,
          outcome, body, client, delivered, verdict>>

producerVars == <<serialised, buffer, chunk, pc, result>>
clientVars   == <<body, client, delivered, verdict>>

\* Where budget.run still governs the producer's future.
Governed == {"start", "drive", "send", "tail", "returned"}
Outcomes == {"Complete", "Failed"}
Pieces   == 1 .. MaxRows + 2
Document(rows) == [i \in 1 .. rows + 2 |-> i]

TypeOK ==
    /\ document \in {Document(rows) : rows \in 0 .. MaxRows}
    /\ serialised \in 0 .. Len(document)
    /\ buffer \in Seq(Pieces) /\ Len(buffer) <= ChunkSize
    /\ chunk \in Seq(Pieces) /\ Len(chunk) <= ChunkSize + 1
    /\ pc \in Governed \cup {"ended", "stored", "over"}
    /\ result \in Outcomes \cup {"none"}
    /\ stopped \in BOOLEAN
    /\ queue \in Seq(Seq(Pieces)) /\ Len(queue) <= Capacity
    /\ outcome \in Outcomes \cup {"none", "dropped"}
    /\ body \in {"Data", "Terminal", "Done"}
    /\ client \in {"reading", "stalled", "gone"}
    /\ delivered \in Seq(Pieces)
    /\ verdict \in {"none", "clean", "failed"}

Init ==
    /\ \E rows \in 0 .. MaxRows : document = Document(rows)
    /\ serialised = 0 /\ buffer = <<>> /\ chunk = <<>>
    /\ pc = "start" /\ result = "none" /\ stopped = FALSE
    /\ queue = <<>> /\ outcome = "none"
    /\ body = "Data" /\ client = "reading"
    /\ delivered = <<>> /\ verdict = "none"

-----------------------------------------------------------------------------
(* The producer.  Every charge and every checkpoint asks the budget.        *)

\* The producer's future is over and its sender with it; the task has another.
Ends(r) ==
    /\ pc' = "ended" /\ result' = r
    /\ buffer' = <<>> /\ chunk' = <<>>
    /\ UNCHANGED serialised

\* The next piece goes to the buffer; the buffer, once full, to a send.
Serialise(full, sending, keeping) ==
    /\ serialised' = serialised + 1
    /\ LET filled == Append(buffer, document[serialised + 1])
       IN  IF Len(filled) >= full
           THEN pc' = sending /\ chunk' = filled /\ buffer' = <<>>
           ELSE pc' = keeping /\ buffer' = filled /\ UNCHANGED chunk
    /\ UNCHANGED result

\* The serialiser is created, and writes the header.
Start ==
    /\ pc = "start"
    /\ IF stopped THEN Ends("Failed")
       ELSE /\ serialised' = 1 /\ buffer' = <<document[1]>> /\ pc' = "drive"
            /\ UNCHANGED <<chunk, result>>
    /\ UNCHANGED <<document, stopped, queue, outcome, clientVars>>

\* The sink is called with the next row; take_if_full.
Row ==
    /\ pc = "drive" /\ serialised + 1 < Len(document)
    /\ IF stopped THEN Ends("Failed") ELSE Serialise(ChunkSize, "send", "drive")
    /\ UNCHANGED <<document, stopped, queue, outcome, clientVars>>

\* The driver has no more rows: the footer is written; take_all.
Finish ==
    /\ pc = "drive" /\ serialised + 1 = Len(document)
    /\ IF stopped THEN Ends("Failed") ELSE Serialise(1, "tail", "tail")
    /\ UNCHANGED <<document, stopped, queue, outcome, clientVars>>

DriverFails ==
    /\ pc \in {"start", "drive"}
    /\ Ends("Failed")
    /\ UNCHANGED <<document, stopped, queue, outcome, clientVars>>

\* send().await goes on once the channel has room.
Send ==
    /\ pc \in {"send", "tail"} /\ client # "gone" /\ Len(queue) < Capacity
    /\ queue' = Append(queue, chunk) /\ chunk' = <<>>
    /\ pc' = IF pc = "send" THEN "drive" ELSE "returned"
    /\ UNCHANGED <<document, serialised, buffer, result, stopped, outcome, clientVars>>

\* ... and fails once the body has been dropped.
SendFails ==
    /\ pc \in {"send", "tail"} /\ client = "gone"
    /\ Ends("Failed")
    /\ UNCHANGED <<document, stopped, queue, outcome, clientVars>>

\* budget.run checks once more when the producer has returned Ok.
Return ==
    /\ pc = "returned"
    /\ Ends(IF stopped THEN "Failed" ELSE "Complete")
    /\ UNCHANGED <<document, stopped, queue, outcome, clientVars>>

-----------------------------------------------------------------------------
(* The task around the producer. *)

\* A budget that is asked between rows and not while a send waits.
InterruptBetweenRows ==
    /\ pc \in Governed \ {"send", "tail"} /\ stopped
    /\ Ends("Failed")
    /\ UNCHANGED <<document, stopped, queue, outcome, clientVars>>

\* budget.run drops the producer wherever it waits.
Interrupt ==
    /\ pc \in Governed /\ stopped
    /\ Ends("Failed")
    /\ UNCHANGED <<document, stopped, queue, outcome, clientVars>>

\* The task is over without an outcome: every sender is dropped with it.
Vanish ==
    /\ pc' = "over" /\ outcome' = "dropped"
    /\ buffer' = <<>> /\ chunk' = <<>>
    /\ UNCHANGED <<serialised, result>>

\* closed_tx.closed(): the budget is cancelled and no outcome is stored.
ClientGone ==
    /\ pc \in Governed /\ client = "gone"
    /\ Vanish
    /\ stopped' = TRUE
    /\ UNCHANGED <<document, queue, clientVars>>

Panics ==
    /\ pc \in Governed
    /\ Vanish
    /\ UNCHANGED <<document, stopped, queue, clientVars>>

\* terminal.finish(result), with the data channel still open.
StoreOutcome ==
    /\ pc = "ended"
    /\ pc' = "stored" /\ outcome' = result
    /\ UNCHANGED <<document, serialised, buffer, chunk, result, stopped, queue,
                   clientVars>>

\* drop(closed_tx): the last sender closes the data channel.
DropWatcher ==
    /\ pc = "stored"
    /\ pc' = "over"
    /\ UNCHANGED <<document, serialised, buffer, chunk, result, stopped, queue,
                   outcome, clientVars>>

\* The deadline, forced shutdown, or a cause another phase has sealed.
BudgetStops ==
    /\ ~stopped
    /\ stopped' = TRUE
    /\ UNCHANGED <<document, producerVars, queue, outcome, clientVars>>

-----------------------------------------------------------------------------
(* The body, polled by a client that reads. *)

YieldData ==
    /\ client = "reading" /\ body = "Data" /\ queue # <<>>
    /\ delivered' = delivered \o Head(queue)
    /\ queue' = Tail(queue)
    /\ UNCHANGED <<document, producerVars, stopped, outcome, body, client, verdict>>

SeeDataEnd ==
    /\ client = "reading" /\ body = "Data" /\ queue = <<>> /\ pc = "over"
    /\ body' = "Terminal"
    /\ UNCHANGED <<document, producerVars, stopped, queue, outcome, client,
                   delivered, verdict>>

\* A body that takes a producer that disappeared for one that has finished.
YieldVerdictTrusting ==
    /\ client = "reading" /\ body = "Terminal" /\ outcome # "none"
    /\ body' = "Done"
    /\ verdict' = IF outcome = "Failed" THEN "failed" ELSE "clean"
    /\ UNCHANGED <<document, producerVars, stopped, queue, outcome, client, delivered>>

\* The outcome, or its absence, is the verdict; afterwards the body is fused.
YieldVerdict ==
    /\ client = "reading" /\ body = "Terminal" /\ outcome # "none"
    /\ body' = "Done"
    /\ verdict' = IF outcome = "Complete" THEN "clean" ELSE "failed"
    /\ UNCHANGED <<document, producerVars, stopped, queue, outcome, client, delivered>>

Stall ==
    /\ client = "reading"
    /\ client' = "stalled"
    /\ UNCHANGED <<document, producerVars, stopped, queue, outcome, body,
                   delivered, verdict>>

\* The body is dropped, and what is queued with it.
Leave ==
    /\ client # "gone"
    /\ client' = "gone" /\ queue' = <<>>
    /\ UNCHANGED <<document, producerVars, stopped, outcome, body, delivered, verdict>>

-----------------------------------------------------------------------------
Producing == Start \/ Row \/ Finish \/ DriverFails \/ Send \/ SendFails \/ Return
Task == Interrupt \/ ClientGone \/ StoreOutcome \/ DropWatcher
Poll == YieldData \/ SeeDataEnd \/ YieldVerdict

Next == Producing \/ Task \/ Panics \/ BudgetStops \/ Poll \/ Stall \/ Leave

Spec == Init /\ [][Next]_vars

-----------------------------------------------------------------------------
(* Properties *)

Result == INSTANCE ResultStream
(* "A live body never sees silent EOF": whatever the driver, the budget,   *)
(* panics and the client's pace do, a client that sees a clean end has the *)
(* whole document, and what it has at any time is its beginning.           *)
ImplementsResult == Result!Spec
=============================================================================
