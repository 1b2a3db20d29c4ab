------------------------- MODULE QueryExecutionProofs -------------------------
(***************************************************************************)
(* The supervision of the isolated parser, for every bound on what it has  *)
(* written and on the signals that the kernel refuses; and the body, which *)
(* for every document, capacity and size of chunk ends honestly.           *)
(***************************************************************************)
EXTENDS QueryExecution, TLAPS, SequenceTheorems

Owned   == {"running", "dying", "zombie"}
Engaged == Parser!Exchange \cup Parser!Killing \cup {"sweep", "reap"}

\* The worker keeps its number until it is reaped, and is not reaped while the
\* thread has anything to do with it.
NumberInv ==
    /\ process \in Owned \cup {"none", "reaped"}
    /\ process \in Owned => pid = "worker"
    /\ thread \in Engaged => process \in Owned
    /\ thread \in {"idle", "queued"} => process = "none"
    /\ struck # "stranger"

\* The slot stays with the thread until it is over, and a thread that leaves its
\* process alive has been refused three signals.
SlotInv ==
    /\ handler = "new" => thread = "idle"
    /\ thread \notin {"idle", "over"} => slot = "thread"
    /\ thread = "over" => process \in Parser!Gone \/ refused > 2
    /\ slot = "free" => process \in Parser!Gone \/ refused > 2

RefusalInv ==
    /\ refused \in Nat
    /\ thread \in Parser!Exchange \cup {"idle", "queued", "sweep", "group"} => failed = {}
    /\ thread = "exact" =>
          failed = {} \/ (failed = {"group"} /\ refused >= 1)
    /\ thread = "fallback" => refused >= 2

\* From the end of the output on, an undisturbed exchange has nothing unread.
AnswerInv ==
    /\ thread \in {"wait", "sweep"} \/ (thread = "reap" /\ path = "none") =>
          output = <<>> /\ closed
    /\ thread \in {"compile"} \cup Parser!Exchange \cup {"idle", "queued", "sweep"} =>
          path = "none"
    /\ thread \in Parser!Killing => path # "none"
    /\ PlanIsWhole
    /\ thread # "over" => told # "plan"

IInv == NumberInv /\ SlotInv /\ RefusalInv /\ AnswerInv

-----------------------------------------------------------------------------
\* The initial states satisfy the invariant.
LEMMA IInvInit == ExecutionInit => IInv
    BY DEF ExecutionInit, Parser!Init, IInv, NumberInv, SlotInv, RefusalInv,
           AnswerInv, Owned, Engaged, PlanIsWhole, Parser!PlanIsWhole,
           Parser!Exchange, Parser!Killing, Parser!Gone

\* Nothing that the invariant speaks of changes.
LEMMA IInvUnchanged == IInv /\ UNCHANGED parserVars => IInv'
    BY DEF parserVars, IInv, NumberInv, SlotInv, RefusalInv, AnswerInv,
           PlanIsWhole, Parser!PlanIsWhole

\* The handler's steps.
LEMMA HandlerStep ==
    ASSUME IInv, Parser!Handler \/ Parser!Disconnected
    PROVE  IInv'
    <1> USE DEF Owned, Engaged, Parser!Exchange, Parser!Killing, Parser!Gone
    <1>1. NumberInv'
        BY DEF IInv, NumberInv, SlotInv, Parser!Handler, Parser!Submit,
               Parser!Joined, Parser!Interrupted, Parser!Disconnected,
               Parser!Abandon, Parser!processVars
    <1>2. SlotInv'
        BY DEF IInv, NumberInv, SlotInv, Parser!Handler, Parser!Submit,
               Parser!Joined, Parser!Interrupted, Parser!Disconnected,
               Parser!Abandon, Parser!processVars, Parser!killVars
    <1>3. RefusalInv'
        BY DEF IInv, SlotInv, RefusalInv, Parser!Handler, Parser!Submit,
               Parser!Joined, Parser!Interrupted, Parser!Disconnected,
               Parser!Abandon, Parser!killVars
    <1>4. AnswerInv'
        BY DEF IInv, SlotInv, AnswerInv, PlanIsWhole, Parser!PlanIsWhole,
               Parser!Handler, Parser!Submit, Parser!Joined, Parser!Interrupted,
               Parser!Disconnected, Parser!Abandon, Parser!processVars,
               Parser!killVars
    <1> QED BY <1>1, <1>2, <1>3, <1>4 DEF IInv

\* Until the thread has a process, and the exchange with it.
LEMMA ExchangeStep ==
    ASSUME IInv,
           \/ Parser!DeclineStopped \/ Parser!SpawnFails \/ Parser!Spawn
           \/ Parser!ReadReady \/ Parser!ReadAnswer \/ Parser!SeeEof
           \/ Parser!SeeExit \/ Parser!ExchangeFails \/ Parser!CallFails
           \/ Parser!Panics
    PROVE  IInv'
    <1> USE DEF Owned, Engaged, Parser!Exchange, Parser!Killing, Parser!Gone
    <1>1. NumberInv'
        BY DEF IInv, NumberInv, SlotInv, Parser!DeclineStopped,
               Parser!SpawnFails, Parser!Refuse, Parser!Over, Parser!Spawn,
               Parser!ReadReady, Parser!ReadAnswer, Parser!Read,
               Parser!SeeEof, Parser!SeeExit, Parser!ExchangeFails,
               Parser!CallFails, Parser!Panics, Parser!Kill,
               Parser!processVars, Parser!killVars
    <1>2. SlotInv'
        BY DEF IInv, NumberInv, SlotInv, RefusalInv, Parser!DeclineStopped,
               Parser!SpawnFails, Parser!Refuse, Parser!Over, Parser!Spawn,
               Parser!ReadReady, Parser!ReadAnswer, Parser!Read,
               Parser!SeeEof, Parser!SeeExit, Parser!ExchangeFails,
               Parser!CallFails, Parser!Panics, Parser!Kill,
               Parser!processVars, Parser!killVars
    <1>3. RefusalInv'
        BY DEF IInv, SlotInv, RefusalInv, Parser!DeclineStopped,
               Parser!SpawnFails, Parser!Refuse, Parser!Over, Parser!Spawn,
               Parser!ReadReady, Parser!ReadAnswer, Parser!Read,
               Parser!SeeEof, Parser!SeeExit, Parser!ExchangeFails,
               Parser!CallFails, Parser!Panics, Parser!Kill,
               Parser!processVars, Parser!killVars
    <1>4. AnswerInv'
        BY DEF IInv, NumberInv, SlotInv, AnswerInv, PlanIsWhole,
               Parser!PlanIsWhole, Parser!DeclineStopped, Parser!SpawnFails,
               Parser!Refuse, Parser!Over, Parser!Spawn, Parser!ReadReady,
               Parser!ReadAnswer, Parser!Read, Parser!SeeEof,
               Parser!SeeExit, Parser!ExchangeFails, Parser!CallFails,
               Parser!Panics, Parser!Kill, Parser!processVars,
               Parser!killVars
    <1> QED BY <1>1, <1>2, <1>3, <1>4 DEF IInv

\* Signals, delivered or refused.
LEMMA SignalStep ==
    ASSUME IInv,
           \/ Parser!SignalGroup \/ Parser!SignalExact \/ Parser!SignalFallback
           \/ Parser!SignalRefused \/ Parser!FallbackRefused
           \/ Parser!Sweep \/ Parser!SweepRefused
    PROVE  IInv'
    <1> USE DEF Owned, Engaged, Parser!Exchange, Parser!Killing, Parser!Gone
    <1>1. NumberInv'
        BY DEF IInv, NumberInv, SlotInv, Parser!SignalGroup,
               Parser!SignalExact, Parser!SignalFallback, Parser!Signal,
               Parser!SignalRefused, Parser!FallbackRefused, Parser!Sweep,
               Parser!SweepRefused, Parser!Hits, Parser!AfterSignal,
               Parser!Over, Parser!processVars, Parser!killVars
    <1>2. SlotInv'
        BY DEF IInv, NumberInv, SlotInv, RefusalInv, Parser!SignalGroup,
               Parser!SignalExact, Parser!SignalFallback, Parser!Signal,
               Parser!SignalRefused, Parser!FallbackRefused, Parser!Sweep,
               Parser!SweepRefused, Parser!Hits, Parser!AfterSignal,
               Parser!Over, Parser!processVars, Parser!killVars
    <1>3. RefusalInv'
        BY DEF IInv, SlotInv, RefusalInv, Parser!SignalGroup,
               Parser!SignalExact, Parser!SignalFallback, Parser!Signal,
               Parser!SignalRefused, Parser!FallbackRefused, Parser!Sweep,
               Parser!SweepRefused, Parser!Hits, Parser!AfterSignal,
               Parser!Over, Parser!processVars, Parser!killVars
    <1>4. AnswerInv'
        BY DEF IInv, NumberInv, SlotInv, AnswerInv, PlanIsWhole,
               Parser!PlanIsWhole, Parser!SignalGroup, Parser!SignalExact,
               Parser!SignalFallback, Parser!Signal, Parser!SignalRefused,
               Parser!FallbackRefused, Parser!Sweep, Parser!SweepRefused,
               Parser!Hits, Parser!AfterSignal, Parser!Over,
               Parser!processVars, Parser!killVars
    <1> QED BY <1>1, <1>2, <1>3, <1>4 DEF IInv

\* The reaping, and what follows it.
LEMMA EndStep ==
    ASSUME IInv, Parser!Reap \/ Parser!Compiled \/ Parser!Rejected
    PROVE  IInv'
    <1> USE DEF Owned, Engaged, Parser!Exchange, Parser!Killing, Parser!Gone
    <1>1. NumberInv'
        BY DEF IInv, NumberInv, SlotInv, Parser!Reap, Parser!Compiled,
               Parser!Rejected, Parser!Over, Parser!processVars,
               Parser!killVars
    <1>2. SlotInv'
        BY DEF IInv, NumberInv, SlotInv, AnswerInv, PlanIsWhole,
               Parser!PlanIsWhole, Parser!Reap, Parser!Compiled,
               Parser!Rejected, Parser!Over, Parser!processVars,
               Parser!killVars
    <1>3. RefusalInv'
        BY DEF IInv, SlotInv, RefusalInv, Parser!Reap, Parser!Compiled,
               Parser!Rejected, Parser!Over, Parser!processVars,
               Parser!killVars
    <1>4. AnswerInv'
        BY DEF IInv, NumberInv, SlotInv, AnswerInv, PlanIsWhole,
               Parser!PlanIsWhole, Parser!Reap, Parser!Compiled,
               Parser!Rejected, Parser!Over, Parser!processVars,
               Parser!killVars
    <1> QED BY <1>1, <1>2, <1>3, <1>4 DEF IInv

\* The process, the kernel and the clock.
LEMMA WorldStep ==
    ASSUME IInv, Parser!Process \/ Parser!Dies \/ Parser!Expires
    PROVE  IInv'
    <1> USE DEF Owned, Engaged, Parser!Exchange, Parser!Killing, Parser!Gone
    <1>1. NumberInv'
        BY DEF IInv, NumberInv, SlotInv, Parser!Process, Parser!Writes,
               Parser!Closes, Parser!Exits, Parser!Dies, Parser!Ends,
               Parser!NumberReused, Parser!Expires, Parser!processVars,
               Parser!killVars
    <1>2. SlotInv'
        BY DEF IInv, NumberInv, SlotInv, RefusalInv, Parser!Process,
               Parser!Writes, Parser!Closes, Parser!Exits, Parser!Dies,
               Parser!Ends, Parser!NumberReused, Parser!Expires,
               Parser!processVars, Parser!killVars
    <1>3. RefusalInv'
        BY DEF IInv, SlotInv, RefusalInv, Parser!Process, Parser!Writes,
               Parser!Closes, Parser!Exits, Parser!Dies, Parser!Ends,
               Parser!NumberReused, Parser!Expires, Parser!processVars,
               Parser!killVars
    <1>4. AnswerInv'
        BY DEF IInv, NumberInv, SlotInv, AnswerInv, PlanIsWhole,
               Parser!PlanIsWhole, Parser!Process, Parser!Writes,
               Parser!Closes, Parser!Exits, Parser!Dies, Parser!Ends,
               Parser!NumberReused, Parser!Expires, Parser!processVars,
               Parser!killVars
    <1> QED BY <1>1, <1>2, <1>3, <1>4 DEF IInv

\* The invariant is inductive; the steps of the body leave it alone.
LEMMA IInvStep == IInv /\ [ExecutionNext]_allVars => IInv'
<1> SUFFICES ASSUME IInv, [ExecutionNext]_allVars PROVE IInv' OBVIOUS
<1>1. CASE Compiling
    BY <1>1, HandlerStep, ExchangeStep, SignalStep, EndStep, WorldStep
    DEF Compiling, Parser!Next, Parser!Supervise, Parser!Mishap
<1>2. CASE Streaming BY <1>2, IInvUnchanged DEF Streaming
<1>3. CASE Stopping BY <1>3, IInvUnchanged DEF Stopping
<1>4. CASE Leaving BY <1>4, HandlerStep DEF Leaving
<1>5. CASE UNCHANGED allVars BY <1>5, IInvUnchanged DEF allVars
<1> QED BY <1>1, <1>2, <1>3, <1>4, <1>5 DEF ExecutionNext

\* It holds throughout.
LEMMA SpecIInv == ExecutionSpec => []IInv
    BY IInvInit, IInvStep, PTL DEF ExecutionSpec

-----------------------------------------------------------------------------
(* No signal is ever delivered to a process that has inherited the parser's *)
(* number, whatever fails, times out or panics.                             *)
THEOREM Contained == ExecutionSpec => []SignalsHitTheWorker
<1>1. IInv => SignalsHitTheWorker
    BY DEF IInv, NumberInv, SignalsHitTheWorker, Parser!SignalsHitTheWorker
<1> QED BY <1>1, SpecIInv, PTL

(* A free compiler slot means a reaped parser, or a kernel that has refused *)
(* three signals.                                                           *)
THEOREM SlotsBoundProcesses == ExecutionSpec => []SlotOutlivesProcess
<1>1. IInv => SlotOutlivesProcess
    BY DEF IInv, SlotInv, SlotOutlivesProcess, Parser!SlotOutlivesProcess
<1> QED BY <1>1, SpecIInv, PTL

(* Plans come only from complete answers of reaped, successful parsers.     *)
THEOREM PlansAreWhole == ExecutionSpec => []PlanIsWhole
<1>1. IInv => PlanIsWhole
    BY DEF IInv, AnswerInv
<1> QED BY <1>1, SpecIInv, PTL

-----------------------------------------------------------------------------
(* The body.  The pieces of a document are numbered, so that what is under   *)
(* way between the serialiser and the client can be told by its place.       *)

\* The pieces of the document that follow the first n.
Continues(run, n) == \A i \in 1 .. Len(run) : run[i] = n + i

\* Where a queued chunk begins and ends, and what has been sent.
From(k) == queue[k][1] - 1
Upto(k) == From(k) + Len(queue[k])
Sent    == IF queue = <<>> THEN Len(delivered) ELSE Upto(Len(queue))

\* What is delivered is the beginning, and what is queued goes on without gaps.
QueueInv ==
    /\ Continues(delivered, 0)
    /\ client # "gone" =>
       /\ \A k \in 1 .. Len(queue) :
             queue[k] # <<>> /\ Continues(queue[k], From(k)) /\ Upto(k) <= serialised
       /\ queue # <<>> => From(1) = Len(delivered)
       /\ \A k \in 1 .. Len(queue) - 1 : From(k + 1) = Upto(k)

\* A governed producer has in hand what lies between the sent and the serialised.
ProducerInv ==
    /\ client # "gone" /\ pc \in Governed =>
          /\ Continues(chunk, Sent) /\ Continues(buffer, Sent + Len(chunk))
          /\ serialised = Sent + Len(chunk) + Len(buffer)
    /\ pc = "start" => serialised = 0
    /\ pc \in {"start", "drive", "returned"} => chunk = <<>>
    /\ pc \in {"send", "tail"} => chunk # <<>> /\ buffer = <<>>
    /\ pc = "returned" => buffer = <<>>
    /\ pc \in {"start", "drive", "send"} => serialised < Len(document)
    /\ pc \in {"tail", "returned"} => serialised = Len(document)

\* It is complete only with everything sent, and the body looks only when it has
\* everything delivered.
OutcomeInv ==
    /\ pc \in Governed => result = "none" /\ outcome = "none"
    /\ outcome = "Complete" => result = "Complete"
    /\ client # "gone" /\ result = "Complete" => Sent = Len(document)
    /\ client = "reading" /\ body # "Data" => queue = <<>> /\ pc = "over"
    /\ verdict # "none" <=> body = "Done"

BodyInv == TypeOK /\ QueueInv /\ ProducerInv /\ OutcomeInv

LEMMA DocumentFacts ==
  ASSUME TypeOK
  PROVE  /\ document \in Seq(Nat) /\ document \in Seq(Pieces) /\ Len(document) \in Nat
         /\ Len(document) >= 2
         /\ \A i \in 1 .. Len(document) : document[i] = i /\ i \in Pieces
<1>1. PICK rows \in 0 .. MaxRows : document = [i \in 1 .. rows + 2 |-> i]
  BY DEF TypeOK, Document
<1>2. rows \in Nat /\ MaxRows \in Nat /\ rows <= MaxRows
  BY StreamAssumption
<1>3. \A i \in 1 .. rows + 2 : i \in Nat /\ i \in Pieces
  BY <1>2 DEF Pieces
<1>4. document \in [1 .. rows + 2 -> Nat] /\ document \in [1 .. rows + 2 -> Pieces]
  BY <1>1, <1>3
<1>5. document \in Seq(Nat) /\ document \in Seq(Pieces) /\ Len(document) = rows + 2
  BY <1>2, <1>4
<1> QED
  BY <1>1, <1>2, <1>3, <1>5

LEMMA ContinuesAppend ==
  ASSUME NEW run \in Seq(Nat), NEW n \in Nat, Continues(run, n)
  PROVE  Continues(Append(run, n + Len(run) + 1), n)
  BY DEF Continues

LEMMA ContinuesConcat ==
  ASSUME NEW a \in Seq(Nat), NEW b \in Seq(Nat), NEW n \in Nat,
         Continues(a, n), Continues(b, n + Len(a))
  PROVE  Continues(a \o b, n)
<1> SUFFICES ASSUME NEW i \in 1 .. Len(a \o b) PROVE (a \o b)[i] = n + i
  BY DEF Continues
<1>1. Len(a \o b) = Len(a) + Len(b) /\ Len(a) \in Nat /\ Len(b) \in Nat
  OBVIOUS
<1>2. CASE i <= Len(a)
  BY <1>1, <1>2 DEF Continues
<1>3. CASE i > Len(a)
  <2>1. (a \o b)[i] = b[i - Len(a)] /\ i - Len(a) \in 1 .. Len(b)
    BY <1>1, <1>3
  <2>2. b[i - Len(a)] = n + Len(a) + (i - Len(a))
    BY <1>1, <2>1 DEF Continues
  <2> QED
    BY <1>1, <2>1, <2>2
<1> QED
  BY <1>1, <1>2, <1>3

\* The places are natural numbers.
LEMMA Places ==
  ASSUME TypeOK
  PROVE  /\ queue \in Seq(Seq(Pieces)) /\ Len(queue) \in Nat
         /\ delivered \in Seq(Nat) /\ chunk \in Seq(Nat) /\ buffer \in Seq(Nat)
         /\ Len(delivered) \in Nat /\ Len(chunk) \in Nat /\ Len(buffer) \in Nat
         /\ serialised \in Nat /\ serialised <= Len(document)
         /\ \A k \in 1 .. Len(queue) :
               /\ queue[k] \in Seq(Nat) /\ Len(queue[k]) \in Nat
               /\ queue[k] # <<>> => Len(queue[k]) > 0 /\ From(k) \in Nat /\ Upto(k) \in Nat
<1>1. ASSUME NEW q \in Seq(Pieces)
      PROVE  q \in Seq(Nat) /\ Len(q) \in Nat /\ (q # <<>> => Len(q) > 0 /\ q[1] \in Pieces)
  <2>1. \A i \in 1 .. Len(q) : q[i] \in Nat
    <3>1. Pieces \subseteq Nat
      BY StreamAssumption DEF Pieces
    <3> QED
      BY <3>1, ElementOfSeq
  <2>2. q \in Seq(Nat)
    BY <2>1
  <2>3. q # <<>> => Len(q) > 0
    OBVIOUS
  <2> QED
    BY <2>2, <2>3
<1>2. queue \in Seq(Seq(Pieces)) /\ Len(queue) \in Nat
  BY DEF TypeOK
<1>3. /\ delivered \in Seq(Nat) /\ chunk \in Seq(Nat) /\ buffer \in Seq(Nat)
      /\ Len(delivered) \in Nat /\ Len(chunk) \in Nat /\ Len(buffer) \in Nat
  BY <1>1 DEF TypeOK
<1>4. serialised \in Nat /\ serialised <= Len(document)
  BY DocumentFacts DEF TypeOK
<1>5. ASSUME NEW k \in 1 .. Len(queue)
      PROVE  /\ queue[k] \in Seq(Nat) /\ Len(queue[k]) \in Nat
             /\ queue[k] # <<>> => Len(queue[k]) > 0 /\ From(k) \in Nat /\ Upto(k) \in Nat
  <2>1. queue[k] \in Seq(Pieces)
    BY <1>2
  <2>2. queue[k] \in Seq(Nat) /\ Len(queue[k]) \in Nat
    BY <1>1, <2>1
  <2>3. ASSUME queue[k] # <<>> PROVE Len(queue[k]) > 0 /\ From(k) \in Nat /\ Upto(k) \in Nat
    BY <1>1, <2>1, <2>2, <2>3, StreamAssumption DEF From, Upto, Pieces
  <2> QED
    BY <2>2, <2>3
<1> QED
  BY <1>2, <1>3, <1>4, <1>5

LEMMA SentIsANumber ==
  ASSUME TypeOK, QueueInv, client # "gone"
  PROVE  Sent \in Nat /\ (queue # <<>> => Sent <= serialised)
<1>1. CASE queue = <<>>
  BY <1>1, Places DEF Sent
<1>2. CASE queue # <<>>
  <2>1. Len(queue) \in 1 .. Len(queue)
    BY <1>2, Places
  <2> QED
    BY <1>2, <2>1, Places DEF Sent, QueueInv
<1> QED
  BY <1>1, <1>2

\* What stays where it is when queue, delivered, client and serialised do, or
\* when the serialiser goes on.
LEMMA QueueStays ==
  ASSUME BodyInv, UNCHANGED <<queue, delivered>>, client' # "gone" => client # "gone",
         serialised' \in Nat, serialised' >= serialised
  PROVE  QueueInv' /\ Sent' = Sent
<1>1. Sent' = Sent /\ \A k : From(k)' = From(k) /\ Upto(k)' = Upto(k)
  BY DEF Sent, From, Upto
<1>2. ASSUME client # "gone", NEW k \in 1 .. Len(queue)
      PROVE  queue[k] # <<>> /\ Continues(queue[k], From(k)) /\ Upto(k) <= serialised'
  <2>1. queue[k] # <<>> /\ Continues(queue[k], From(k)) /\ Upto(k) <= serialised
    BY <1>2 DEF BodyInv, QueueInv
  <2>2. Upto(k) \in Nat /\ serialised \in Nat
    BY <2>1, Places DEF BodyInv
  <2> QED
    BY <2>1, <2>2
<1> QED
  BY <1>1, <1>2 DEF BodyInv, QueueInv, Continues

\* The producer's future is over, one way or another.
LEMMA EndsKeeps ==
  ASSUME BodyInv, NEW r \in Outcomes, Ends(r), pc \in Governed, r = "Complete" => pc = "returned",
         UNCHANGED <<document, queue, outcome, clientVars>>, stopped' \in BOOLEAN
  PROVE  BodyInv'
<1>1. TypeOK'
  <2>1. <<>> \in Seq(Pieces) /\ Len(<<>>) = 0
    OBVIOUS
  <2> QED
    BY <2>1, StreamAssumption DEF BodyInv, TypeOK, Ends, clientVars
<1>2. QueueInv' /\ Sent' = Sent
  BY QueueStays, Places DEF BodyInv, Ends, clientVars
<1>3. ProducerInv'
  BY DEF BodyInv, ProducerInv, Ends, Governed
<1>4. OutcomeInv'
  <2>1. pc = "returned" /\ client # "gone" => Sent = Len(document)
    <3>1. Len(<<>>) = 0
      OBVIOUS
    <3>2. ASSUME pc = "returned", client # "gone" PROVE Sent = Len(document)
      <4>1. chunk = <<>> /\ buffer = <<>> /\ serialised = Len(document)
            /\ serialised = Sent + Len(chunk) + Len(buffer)
        BY <3>2 DEF BodyInv, ProducerInv, Governed
      <4> QED
        BY <3>1, <3>2, <4>1, SentIsANumber, Places DEF BodyInv
    <3> QED
      BY <3>2
  <2>2. outcome' = "none" /\ pc' = "ended" /\ result' = r
    BY DEF BodyInv, OutcomeInv, Ends
  <2>3. client = "reading" => body = "Data"
    BY DEF BodyInv, OutcomeInv, Governed
  <2> QED
    BY <1>2, <2>1, <2>2, <2>3 DEF BodyInv, OutcomeInv, Governed, clientVars
<1> QED
  BY <1>1, <1>2, <1>3, <1>4 DEF BodyInv

LEMMA VanishKeeps ==
  ASSUME BodyInv, Vanish, pc \in Governed,
         UNCHANGED <<document, queue, clientVars>>, stopped' \in BOOLEAN
  PROVE  BodyInv'
<1>1. TypeOK'
  <2>1. <<>> \in Seq(Pieces) /\ Len(<<>>) = 0
    OBVIOUS
  <2> QED
    BY <2>1, StreamAssumption DEF BodyInv, TypeOK, Vanish, clientVars
<1>2. QueueInv' /\ Sent' = Sent
  BY QueueStays, Places DEF BodyInv, Vanish, clientVars
<1>3. ProducerInv'
  BY DEF BodyInv, ProducerInv, Vanish, Governed
<1>4. OutcomeInv'
  <2>1. result = "none" /\ (client = "reading" => body = "Data")
    BY DEF BodyInv, OutcomeInv, Governed
  <2> QED
    BY <1>2, <2>1 DEF BodyInv, OutcomeInv, Vanish, Governed, clientVars
<1> QED
  BY <1>1, <1>2, <1>3, <1>4 DEF BodyInv

\* One more piece, in the buffer or with it in the send.
LEMMA SerialiseKeeps ==
  ASSUME BodyInv, NEW full \in {1, ChunkSize}, NEW sending, NEW keeping,
         Serialise(full, sending, keeping), pc = "drive", serialised < Len(document),
         \/ /\ full = 1 /\ sending = "tail" /\ serialised + 1 = Len(document)
         \/ /\ full = ChunkSize /\ sending = "send" /\ keeping = "drive"
            /\ serialised + 1 < Len(document),
         UNCHANGED <<document, stopped, queue, outcome, clientVars>>
  PROVE  BodyInv'
<1> DEFINE filled == Append(buffer, document[serialised + 1])
<1>1. /\ document[serialised + 1] = serialised + 1 /\ serialised + 1 \in Pieces
      /\ serialised \in Nat
  BY DocumentFacts, Places DEF BodyInv
<1>2. /\ filled \in Seq(Pieces) /\ Len(filled) = Len(buffer) + 1 /\ Len(filled) \in Nat \ {0}
      /\ Len(filled) <= ChunkSize + 1
  BY <1>1, StreamAssumption DEF BodyInv, TypeOK
<1>3. /\ \/ Len(filled) >= full /\ pc' = sending /\ chunk' = filled /\ buffer' = <<>>
         \/ ~(Len(filled) >= full) /\ pc' = keeping /\ buffer' = filled /\ chunk' = chunk
      /\ serialised' = serialised + 1 /\ result' = result
  BY DEF Serialise
<1> HIDE DEF filled
<1>4. Len(filled) >= full \/ (pc' = "drive" /\ serialised' < Len(document))
  BY <1>1, <1>2, <1>3, DocumentFacts DEF BodyInv
<1>5. chunk = <<>>
  BY DEF BodyInv, ProducerInv
<1>6. QueueInv' /\ Sent' = Sent
  BY <1>1, <1>3, QueueStays DEF clientVars
<1>7. ASSUME client # "gone"
      PROVE  Continues(filled, Sent) /\ serialised' = Sent + Len(filled) /\ Sent \in Nat
  <2>1. Sent \in Nat /\ Len(buffer) \in Nat /\ buffer \in Seq(Nat)
    BY <1>7, SentIsANumber, Places DEF BodyInv
  <2>2. Continues(buffer, Sent + Len(chunk)) /\ serialised = Sent + Len(chunk) + Len(buffer)
    BY <1>7 DEF BodyInv, ProducerInv, Governed
  <2>3. Len(chunk) = 0
    BY <1>5
  <2>4. Continues(buffer, Sent) /\ serialised = Sent + Len(buffer)
    BY <2>1, <2>2, <2>3
  <2>5. filled = Append(buffer, Sent + Len(buffer) + 1)
    BY <1>1, <2>4 DEF filled
  <2> QED
    BY <1>2, <1>3, <2>1, <2>4, <2>5, ContinuesAppend
<1>8. TypeOK'
  <2>1. serialised' \in 0 .. Len(document)
    BY <1>1, <1>3, DocumentFacts DEF BodyInv
  <2>2. <<>> \in Seq(Pieces) /\ Len(<<>>) = 0
    OBVIOUS
  <2>3. ASSUME Len(filled) >= full
        PROVE  /\ buffer' \in Seq(Pieces) /\ Len(buffer') <= ChunkSize
               /\ chunk' \in Seq(Pieces) /\ Len(chunk') <= ChunkSize + 1
    <3>1. buffer' = <<>> /\ chunk' = filled
      BY <1>3, <2>3
    <3>2. Len(buffer') <= ChunkSize
      BY <2>2, <3>1, StreamAssumption
    <3> QED
      BY <1>2, <2>2, <3>1, <3>2
  <2>4. ASSUME ~(Len(filled) >= full)
        PROVE  /\ buffer' \in Seq(Pieces) /\ Len(buffer') <= ChunkSize
               /\ chunk' \in Seq(Pieces) /\ Len(chunk') <= ChunkSize + 1
    <3>1. buffer' = filled /\ chunk' = <<>>
      BY <1>3, <1>5, <2>4
    <3>2. Len(filled) <= ChunkSize
      BY <1>2, <2>4, StreamAssumption
    <3>3. Len(chunk') <= ChunkSize + 1
      BY <2>2, <3>1, StreamAssumption
    <3> QED
      BY <1>2, <2>2, <3>1, <3>2, <3>3
  <2>5. pc' \in Governed
    BY <1>3, <1>4 DEF Governed
  <2> QED
    BY <1>3, <2>1, <2>3, <2>4, <2>5 DEF BodyInv, TypeOK, clientVars
<1>9. Len(<<>>) = 0 /\ filled # <<>>
  BY <1>2
<1>10. Continues(<<>>, 0) /\ \A n : Continues(<<>>, n)
  BY DEF Continues
<1>11. ProducerInv'
  <2>1. CASE Len(filled) >= full
    <3>1. pc' \in {"send", "tail"} /\ chunk' = filled /\ buffer' = <<>>
      BY <1>3, <2>1
    <3>2. pc' = "send" => serialised' < Len(document)
      BY <1>1, <1>3, <2>1
    <3>3. pc' = "tail" => serialised' = Len(document)
      BY <1>1, <1>3, <2>1
    <3>4. client # "gone" =>
            /\ Continues(chunk', Sent) /\ Continues(buffer', Sent + Len(chunk'))
            /\ serialised' = Sent + Len(chunk') + Len(buffer')
      BY <1>2, <1>7, <1>9, <1>10, <3>1
    <3> QED
      BY <1>6, <1>9, <3>1, <3>2, <3>3, <3>4 DEF ProducerInv, clientVars
  <2>2. CASE ~(Len(filled) >= full)
    <3>1. pc' = "drive" /\ chunk' = <<>> /\ buffer' = filled /\ serialised' < Len(document)
      BY <1>3, <1>4, <1>5, <2>2
    <3>2. client # "gone" =>
            /\ Continues(chunk', Sent) /\ Continues(buffer', Sent + Len(chunk'))
            /\ serialised' = Sent + Len(chunk') + Len(buffer')
      BY <1>2, <1>7, <1>9, <1>10, <3>1
    <3> QED
      BY <1>6, <3>1, <3>2 DEF ProducerInv, clientVars
  <2> QED
    BY <2>1, <2>2
<1>12. OutcomeInv'
  <2>1. pc \in Governed /\ pc # "over"
    BY DEF Governed
  <2>2. result = "none" /\ outcome = "none"
    BY <2>1 DEF BodyInv, OutcomeInv
  <2>3. client = "reading" => body = "Data"
    BY <2>1 DEF BodyInv, OutcomeInv
  <2>4. verdict # "none" <=> body = "Done"
    BY DEF BodyInv, OutcomeInv
  <2>5. result' = "none" /\ outcome' = "none" /\ UNCHANGED <<body, client, verdict>>
    BY <1>3, <2>2 DEF clientVars
  <2> QED
    BY <2>3, <2>4, <2>5 DEF OutcomeInv
<1> QED
  BY <1>6, <1>8, <1>11, <1>12 DEF BodyInv

\* The header, or nothing when the budget has stopped.
LEMMA StartKeeps ==
  ASSUME BodyInv, Start
  PROVE  BodyInv'
<1>1. CASE stopped
  BY <1>1, EndsKeeps DEF Start, Governed, Outcomes, BodyInv, TypeOK
<1>2. CASE ~stopped
  <2>1. /\ document[1] = 1 /\ 1 \in Pieces /\ 1 < Len(document) /\ Len(document) \in Nat
    <3>1. Len(document) \in Nat /\ Len(document) >= 2
      BY DocumentFacts DEF BodyInv
    <3>2. 1 \in 1 .. Len(document)
      BY <3>1
    <3> QED
      BY <3>1, <3>2, DocumentFacts DEF BodyInv
  <2>2. /\ serialised' = 1 /\ buffer' = <<1>> /\ pc' = "drive"
        /\ UNCHANGED <<document, chunk, result, stopped, queue, outcome, clientVars>>
    BY <1>2, <2>1 DEF Start
  <2>3. <<1>> \in Seq(Pieces) /\ Len(<<1>>) = 1 /\ Len(<<>>) = 0 /\ <<1>>[1] = 1
    BY <2>1
  <2>4. TypeOK'
    <3>1. Len(buffer') <= ChunkSize
      BY <2>2, <2>3, StreamAssumption
    <3>2. serialised' \in 0 .. Len(document)
      BY <2>1, <2>2
    <3> QED
      BY <2>2, <2>3, <3>1, <3>2 DEF BodyInv, TypeOK, Governed, clientVars
  <2>5. serialised = 0 /\ chunk = <<>>
    BY DEF BodyInv, ProducerInv, Start
  <2>6. QueueInv' /\ Sent' = Sent
    BY <2>2, <2>5, QueueStays DEF clientVars
  <2>7. client # "gone" =>
          /\ Continues(chunk, Sent) /\ Continues(buffer', Sent + Len(chunk))
          /\ serialised' = Sent + Len(chunk) + Len(buffer')
    <3> SUFFICES ASSUME client # "gone"
                 PROVE  /\ Continues(chunk, Sent) /\ Continues(buffer', Sent + Len(chunk))
                        /\ serialised' = Sent + Len(chunk) + Len(buffer')
      OBVIOUS
    <3>1. Continues(chunk, Sent) /\ serialised = Sent + Len(chunk) + Len(buffer)
      BY DEF BodyInv, ProducerInv, Start, Governed
    <3>2. Sent = 0
      BY <2>3, <2>5, <3>1, SentIsANumber, Places DEF BodyInv
    <3>3. Continues(<<1>>, 0)
      BY <2>3 DEF Continues
    <3> QED
      BY <2>2, <2>3, <2>5, <3>1, <3>2, <3>3
  <2>8. ProducerInv'
    BY <2>1, <2>2, <2>5, <2>6, <2>7 DEF ProducerInv, clientVars
  <2>9. OutcomeInv'
    <3>1. pc \in Governed /\ pc # "over"
      BY DEF Start, Governed
    <3>2. /\ result = "none" /\ outcome = "none" /\ (client = "reading" => body = "Data")
          /\ verdict # "none" <=> body = "Done"
      BY <3>1 DEF BodyInv, OutcomeInv
    <3> QED
      BY <2>2, <3>2 DEF OutcomeInv, clientVars
  <2> QED
    BY <2>4, <2>6, <2>8, <2>9 DEF BodyInv
<1> QED
  BY <1>1, <1>2

\* The chunk goes to the end of the queue.
LEMMA SendKeeps ==
  ASSUME BodyInv, Send
  PROVE  BodyInv'
<1>0. PICK n \in Nat : n = Len(queue)
  BY Places DEF BodyInv
<1>1. /\ chunk # <<>> /\ buffer = <<>> /\ Continues(chunk, Sent)
      /\ serialised = Sent + Len(chunk) + Len(buffer)
      /\ pc = "send" => serialised < Len(document)
      /\ pc = "tail" => serialised = Len(document)
  BY DEF BodyInv, ProducerInv, Send, Governed
<1>2. /\ Sent \in Nat /\ Len(chunk) \in Nat \ {0} /\ chunk \in Seq(Pieces)
      /\ serialised \in Nat /\ Len(buffer) = 0
  BY <1>1, SentIsANumber, Places DEF BodyInv, Send, TypeOK
<1>3. /\ queue' = Append(queue, chunk) /\ chunk' = <<>>
      /\ UNCHANGED <<document, serialised, buffer, result, stopped, outcome, clientVars>>
      /\ pc' = IF pc = "send" THEN "drive" ELSE "returned"
  BY DEF Send
<1>4. /\ Len(queue') = n + 1 /\ queue' \in Seq(Seq(Pieces)) /\ queue'[n + 1] = chunk
      /\ \A k \in 1 .. n : queue'[k] = queue[k]
  BY <1>0, <1>2, <1>3, Places DEF BodyInv
<1>5. chunk[1] = Sent + 1
  BY <1>1, <1>2 DEF Continues
<1>6. /\ From(n + 1)' = Sent /\ Upto(n + 1)' = serialised
      /\ \A k \in 1 .. n : From(k)' = From(k) /\ Upto(k)' = Upto(k)
  BY <1>1, <1>2, <1>4, <1>5 DEF From, Upto
<1>7. queue' # <<>> /\ Sent' = serialised
  <2>1. queue' # <<>>
    <3>1. Len(<<>>) = 0
      OBVIOUS
    <3> QED
      BY <1>0, <1>4, <3>1
  <2>2. Sent' = Upto(n + 1)'
    BY <1>4, <2>1 DEF Sent, Upto, From
  <2> QED
    BY <1>6, <2>1, <2>2
<1>8. QueueInv'
  <2>1. /\ Continues(delivered, 0)
        /\ \A k \in 1 .. n :
              queue[k] # <<>> /\ Continues(queue[k], From(k)) /\ Upto(k) <= serialised
        /\ queue # <<>> => From(1) = Len(delivered)
        /\ \A k \in 1 .. n - 1 : From(k + 1) = Upto(k)
    BY <1>0 DEF BodyInv, QueueInv, Send
  <2>2. ASSUME NEW k \in 1 .. n + 1
        PROVE  queue'[k] # <<>> /\ Continues(queue'[k], From(k)') /\ Upto(k)' <= serialised
    <3>1. CASE k = n + 1
      BY <1>1, <1>2, <1>4, <1>6, <3>1
    <3>2. CASE k # n + 1
      <4>1. k \in 1 .. n
        BY <1>2, <3>2
      <4> QED
        BY <1>4, <1>6, <2>1, <4>1
    <3> QED
      BY <3>1, <3>2
  <2>3. From(1)' = Len(delivered)
    <3>1. CASE queue = <<>>
      <4>1. n = 0
        BY <1>0, <3>1
      <4> QED
        BY <1>6, <3>1, <4>1 DEF Sent
    <3>2. CASE queue # <<>>
      <4>1. 1 \in 1 .. n
        BY <1>0, <3>2, Places DEF BodyInv
      <4> QED
        BY <1>6, <2>1, <3>2, <4>1
    <3> QED
      BY <3>1, <3>2
  <2>4. ASSUME NEW k \in 1 .. n
        PROVE  From(k + 1)' = Upto(k)'
    <3>1. CASE k = n
      <4>1. queue # <<>>
        BY <1>0, <3>1
      <4> QED
        BY <1>0, <1>6, <3>1, <4>1 DEF Sent
    <3>2. CASE k # n
      <4>1. k \in 1 .. n - 1 /\ k + 1 \in 1 .. n
        BY <1>2, <3>2
      <4> QED
        BY <1>6, <2>1, <4>1
    <3> QED
      BY <3>1, <3>2
  <2>5. delivered' = delivered /\ serialised' = serialised
    BY <1>3 DEF clientVars
  <2>6. Len(queue') - 1 = n
    BY <1>2, <1>4
  <2> QED
    BY <1>4, <2>1, <2>2, <2>3, <2>4, <2>5, <2>6 DEF QueueInv, Continues
<1>9. TypeOK'
  <2>1. Len(queue') <= Capacity
    BY <1>0, <1>4, StreamAssumption DEF Send
  <2>2. <<>> \in Seq(Pieces) /\ Len(<<>>) = 0
    OBVIOUS
  <2>3. pc' \in Governed
    BY <1>3 DEF Governed
  <2> QED
    BY <1>3, <1>4, <2>1, <2>2, <2>3, StreamAssumption DEF BodyInv, TypeOK, clientVars
<1>10. ProducerInv'
  <2>1. Len(<<>>) = 0 /\ \A m : Continues(<<>>, m)
    BY DEF Continues
  <2>2. chunk' = <<>> /\ buffer' = <<>> /\ serialised' = serialised /\ Sent' = serialised
    BY <1>1, <1>3, <1>7
  <2>3. /\ pc' \in {"drive", "returned"} /\ document' = document
        /\ pc' = "drive" => serialised < Len(document)
        /\ pc' = "returned" => serialised = Len(document)
    BY <1>1, <1>3 DEF Send
  <2> QED
    BY <1>2, <2>1, <2>2, <2>3 DEF ProducerInv
<1>11. OutcomeInv'
  <2>1. pc \in Governed /\ pc # "over"
    BY DEF Send, Governed
  <2>2. /\ result = "none" /\ outcome = "none" /\ (client = "reading" => body = "Data")
        /\ verdict # "none" <=> body = "Done"
    BY <2>1 DEF BodyInv, OutcomeInv
  <2> QED
    BY <1>3, <2>2 DEF OutcomeInv, clientVars
<1> QED
  BY <1>8, <1>9, <1>10, <1>11 DEF BodyInv

\* The body yields the chunk at the head: the next of the document.
LEMMA YieldKeeps ==
  ASSUME BodyInv, YieldData
  PROVE  /\ BodyInv' /\ verdict = "none" /\ Len(delivered') > Len(delivered)
         /\ delivered' = SubSeq(document, 1, Len(delivered'))
<1>0. PICK n \in Nat : n = Len(queue)
  BY Places DEF BodyInv
<1>1. PICK h \in Seq(Pieces) : h = queue[1] /\ h = Head(queue) /\ h # <<>> /\ 1 \in 1 .. n
  <2>1. queue # <<>> /\ queue \in Seq(Seq(Pieces)) /\ client # "gone"
    BY Places DEF BodyInv, YieldData
  <2>2. 1 \in 1 .. n
    BY <1>0, <2>1
  <2>3. queue[1] \in Seq(Pieces) /\ queue[1] = Head(queue)
    BY <1>0, <2>1, <2>2, ElementOfSeq
  <2>4. queue[1] # <<>>
    BY <1>0, <2>1, <2>2 DEF BodyInv, QueueInv
  <2> QED
    BY <2>2, <2>3, <2>4
<1>2. /\ h \in Seq(Nat) /\ Len(h) \in Nat /\ Len(h) > 0
      /\ delivered \in Seq(Nat) /\ delivered \in Seq(Pieces) /\ Len(delivered) \in Nat
  BY <1>0, <1>1, Places DEF BodyInv, TypeOK
<1>3. /\ Continues(h, Len(delivered)) /\ Continues(delivered, 0)
      /\ From(1) = Len(delivered) /\ Upto(1) = Len(delivered) + Len(h)
      /\ Upto(1) <= serialised
  <2>1. /\ Continues(queue[1], From(1)) /\ Continues(delivered, 0)
        /\ From(1) = Len(delivered) /\ Upto(1) <= serialised
    BY <1>0, <1>1 DEF BodyInv, QueueInv, YieldData
  <2> QED
    BY <1>1, <2>1 DEF Upto
<1>4. /\ delivered' = delivered \o h /\ queue' = Tail(queue)
      /\ UNCHANGED <<document, producerVars, stopped, outcome, body, client, verdict>>
      /\ client = "reading" /\ body = "Data"
  BY <1>1 DEF YieldData
<1>5. /\ delivered' \in Seq(Nat) /\ delivered' \in Seq(Pieces)
      /\ Len(delivered') = Len(delivered) + Len(h)
  BY <1>1, <1>2, <1>4
<1>6. Continues(delivered', 0)
  <2>1. Continues(h, 0 + Len(delivered))
    BY <1>2, <1>3
  <2> QED
    BY <1>2, <1>3, <1>4, <2>1, ContinuesConcat
<1>7. /\ Len(queue') = n - 1 /\ queue' \in Seq(Seq(Pieces))
      /\ \A k \in 1 .. n - 1 : queue'[k] = queue[k + 1]
  <2>1. queue # <<>> /\ queue \in Seq(Seq(Pieces))
    BY Places DEF BodyInv, YieldData
  <2> QED
    BY <1>0, <1>4, <2>1, HeadTailProperties
<1>8. \A k \in 1 .. n - 1 : From(k)' = From(k + 1) /\ Upto(k)' = Upto(k + 1)
  BY <1>7 DEF From, Upto
<1>9. /\ \A k \in 1 .. n :
            queue[k] # <<>> /\ Continues(queue[k], From(k)) /\ Upto(k) <= serialised
      /\ \A k \in 1 .. n - 1 : From(k + 1) = Upto(k)
  BY <1>0, <1>4 DEF BodyInv, QueueInv
<1>10. queue' # <<>> => From(1)' = Len(delivered')
  <2> SUFFICES ASSUME queue' # <<>> PROVE From(1)' = Len(delivered')
    OBVIOUS
  <2>1. 1 \in 1 .. n - 1
    <3>1. Len(queue') \in Nat \ {0}
      BY <1>7, EmptySeq
    <3> QED
      BY <1>7, <3>1
  <2>2. From(1)' = From(1 + 1) /\ From(1 + 1) = Upto(1)
    BY <1>8, <1>9, <2>1
  <2> QED
    BY <1>3, <1>5, <2>2
<1>11. QueueInv'
  <2>1. ASSUME NEW k \in 1 .. n - 1
        PROVE  queue'[k] # <<>> /\ Continues(queue'[k], From(k)') /\ Upto(k)' <= serialised
    <3>1. k + 1 \in 1 .. n
      OBVIOUS
    <3> QED
      BY <1>7, <1>8, <1>9, <3>1
  <2>2. ASSUME NEW k \in 1 .. n - 2
        PROVE  From(k + 1)' = Upto(k)'
    <3>1. k \in 1 .. n - 1 /\ k + 1 \in 1 .. n - 1
      OBVIOUS
    <3> QED
      BY <1>8, <1>9, <3>1
  <2>3. serialised' = serialised /\ Len(queue') - 1 = n - 2
    BY <1>4, <1>7 DEF producerVars
  <2> QED
    BY <1>6, <1>7, <1>10, <2>1, <2>2, <2>3 DEF QueueInv, Continues
<1>12. Sent' = Sent
  <2>1. CASE n = 1
    <3>1. queue' = <<>>
      BY <1>7, <2>1, EmptySeq
    <3>2. queue # <<>>
      BY DEF YieldData
    <3> QED
      BY <1>0, <1>3, <1>5, <2>1, <3>1, <3>2 DEF Sent
  <2>2. CASE n # 1
    <3>1. n - 1 \in 1 .. n - 1 /\ queue # <<>>
      BY <1>1, <2>2 DEF YieldData
    <3>2. queue' # <<>>
      BY <1>7, <3>1, EmptySeq
    <3>3. Sent' = Upto(n - 1)'
      BY <1>7, <3>2 DEF Sent, Upto, From
    <3>4. Upto(n - 1)' = Upto(n)
      BY <1>8, <3>1
    <3> QED
      BY <1>0, <3>1, <3>3, <3>4 DEF Sent
  <2> QED
    BY <2>1, <2>2
<1>13. TypeOK'
  <2>1. Len(queue') <= Capacity
    BY <1>0, <1>7, StreamAssumption DEF BodyInv, TypeOK
  <2> QED
    BY <1>4, <1>5, <1>7, <2>1 DEF BodyInv, TypeOK, producerVars
<1>14. ProducerInv'
  BY <1>4, <1>12 DEF BodyInv, ProducerInv, producerVars
<1>15. OutcomeInv'
  BY <1>4, <1>12 DEF BodyInv, OutcomeInv, producerVars
<1>16. verdict = "none"
  BY <1>4 DEF BodyInv, OutcomeInv
<1>17. delivered' = SubSeq(document, 1, Len(delivered'))
  <2>1. Len(delivered') <= Len(document) /\ Len(delivered') \in Nat
    BY <1>2, <1>3, <1>5, Places, DocumentFacts DEF BodyInv
  <2>2. \A i \in 1 .. Len(delivered') : i \in 1 .. Len(document) /\ document[i] = i
    BY <2>1, DocumentFacts DEF BodyInv
  <2>3. \A i \in 1 .. Len(delivered') : delivered'[i] = i
    BY <1>6, <2>1 DEF Continues
  <2>4. SubSeq(document, 1, Len(delivered')) = [i \in 1 .. Len(delivered') |-> document[i]]
    BY <2>1
  <2>5. delivered' = [i \in 1 .. Len(delivered') |-> delivered'[i]]
    BY <1>5
  <2> QED
    BY <2>2, <2>3, <2>4, <2>5
<1> QED
  BY <1>2, <1>5, <1>11, <1>13, <1>14, <1>15, <1>16, <1>17 DEF BodyInv

\* What neither serialises nor sends.
LEMMA OthersKeep ==
  ASSUME BodyInv,
         StoreOutcome \/ DropWatcher \/ BudgetStops \/ SeeDataEnd \/ YieldVerdict \/ Stall
  PROVE  BodyInv'
<1>1. TypeOK'
  BY DEF BodyInv, TypeOK, StoreOutcome, DropWatcher, BudgetStops, SeeDataEnd, YieldVerdict, Stall,
         producerVars, clientVars
<1>2. QueueInv' /\ Sent' = Sent
  BY QueueStays, Places
  DEF BodyInv, StoreOutcome, DropWatcher, BudgetStops, SeeDataEnd, YieldVerdict, Stall,
      producerVars, clientVars
<1>3. ProducerInv'
  BY <1>2
  DEF BodyInv, ProducerInv, StoreOutcome, DropWatcher, BudgetStops, SeeDataEnd, YieldVerdict, Stall,
      producerVars, clientVars, Governed
<1>4. OutcomeInv'
  BY <1>2
  DEF BodyInv, TypeOK, OutcomeInv, StoreOutcome, DropWatcher, BudgetStops, SeeDataEnd, YieldVerdict,
      Stall, producerVars, clientVars, Governed
<1> QED
  BY <1>1, <1>2, <1>3, <1>4 DEF BodyInv

\* A client that is gone gets nothing more, and nothing is said of its queue.
LEMMA GoneKeeps ==
  ASSUME BodyInv, client' = "gone", queue' \in {queue, <<>>}, stopped' \in BOOLEAN,
         UNCHANGED <<document, producerVars, outcome, body, delivered, verdict>>
  PROVE  BodyInv'
<1>1. <<>> \in Seq(Seq(Pieces)) /\ Len(<<>>) = 0
  OBVIOUS
<1>2. Len(queue') <= Capacity
  BY <1>1, StreamAssumption DEF BodyInv, TypeOK
<1>3. TypeOK'
  BY <1>1, <1>2 DEF BodyInv, TypeOK, producerVars
<1> QED
  BY <1>3 DEF BodyInv, QueueInv, ProducerInv, OutcomeInv, producerVars, Continues

\* So does the compilation, but for the budget that the two share.
LEMMA AsideKeeps ==
  ASSUME BodyInv, UNCHANGED streamVars, stopped' \in BOOLEAN
  PROVE  BodyInv'
<1>1. TypeOK'
  BY DEF BodyInv, TypeOK, streamVars, producerVars, clientVars
<1>2. QueueInv' /\ Sent' = Sent
  BY QueueStays, Places DEF BodyInv, streamVars, producerVars, clientVars
<1> QED
  BY <1>1, <1>2 DEF BodyInv, ProducerInv, OutcomeInv, streamVars, producerVars, clientVars

LEMMA CompilingStops ==
  ASSUME Parser!Next, stopped \in BOOLEAN
  PROVE  stopped' \in BOOLEAN
<1>1. CASE Parser!Handler \/ Parser!Process \/ Parser!Dies \/ Parser!Expires
  BY <1>1
  DEF Parser!Handler, Parser!Submit, Parser!Joined, Parser!Interrupted, Parser!Process,
      Parser!Writes, Parser!Closes, Parser!Exits, Parser!Dies, Parser!Ends, Parser!NumberReused,
      Parser!Expires
<1>2. CASE Parser!Reap
  <2>1. PICK b \in BOOLEAN : b = (stopped \/ told' = "expired")
    OBVIOUS
  <2>2. stopped' \in {stopped, b}
    BY <1>2, <2>1, Zenon DEF Parser!Reap
  <2> QED
    BY <2>2
<1>3. CASE Parser!Supervise /\ ~Parser!Reap
  BY <1>3
  DEF Parser!Supervise, Parser!DeclineStopped, Parser!Refuse, Parser!Spawn, Parser!ReadReady,
      Parser!ReadAnswer, Parser!Read, Parser!SeeEof, Parser!SeeExit, Parser!ExchangeFails,
      Parser!Kill, Parser!SignalGroup, Parser!SignalExact, Parser!SignalFallback, Parser!Signal,
      Parser!Sweep, Parser!Compiled
<1>4. CASE Parser!Mishap
  BY <1>4
  DEF Parser!Mishap, Parser!SpawnFails, Parser!Refuse, Parser!CallFails, Parser!Panics, Parser!Kill,
      Parser!SignalRefused, Parser!FallbackRefused, Parser!SweepRefused, Parser!Rejected
<1> QED
  BY <1>1, <1>2, <1>3, <1>4 DEF Parser!Next

LEMMA BodyStep == BodyInv /\ [Next]_vars => BodyInv'
<1> SUFFICES ASSUME BodyInv, [Next]_vars PROVE BodyInv'
  OBVIOUS
<1>0. stopped \in BOOLEAN /\ "Failed" \in Outcomes /\ "Complete" \in Outcomes
  BY DEF BodyInv, TypeOK, Outcomes
<1>1. CASE Start
  BY <1>1, StartKeeps
<1>2. CASE Row \/ Finish
  <2>1. CASE stopped
    BY <1>0, <1>2, <2>1, EndsKeeps DEF Row, Finish, Governed
  <2>2. CASE ~stopped
    BY <1>2, <2>2, SerialiseKeeps DEF BodyInv, ProducerInv, Row, Finish
  <2> QED
    BY <2>1, <2>2
<1>3. CASE DriverFails \/ SendFails \/ Interrupt
  BY <1>0, <1>3, EndsKeeps DEF DriverFails, SendFails, Interrupt, Governed
<1>4. CASE Return
  BY <1>0, <1>4, EndsKeeps DEF Return, Governed
<1>5. CASE Send
  BY <1>5, SendKeeps
<1>6. CASE ClientGone \/ Panics
  BY <1>0, <1>6, VanishKeeps DEF ClientGone, Panics
<1>7. CASE StoreOutcome \/ DropWatcher \/ BudgetStops \/ SeeDataEnd \/ YieldVerdict \/ Stall
  BY <1>7, OthersKeep
<1>8. CASE YieldData
  BY <1>8, YieldKeeps
<1>9. CASE Leave
  BY <1>0, <1>9, GoneKeeps DEF Leave
<1>10. CASE UNCHANGED vars
  BY <1>0, <1>10, AsideKeeps DEF vars, streamVars, producerVars, clientVars
<1> QED
  BY <1>1, <1>2, <1>3, <1>4, <1>5, <1>6, <1>7, <1>8, <1>9, <1>10
  DEF Next, Producing, Task, Poll

\* Chunks extend what the client has, and a clean verdict finds everything there.
LEMMA BodyRefines ==
  BodyInv /\ [Next]_vars => [Result!Next]_<<document, delivered, verdict>>
<1> SUFFICES ASSUME BodyInv, [Next]_vars
             PROVE  [Result!Next]_<<document, delivered, verdict>>
  OBVIOUS
<1>1. CASE YieldData
  <2>1. Result!Receive
    BY <1>1, YieldKeeps DEF YieldData, Result!Receive
  <2> QED
    BY <2>1 DEF Result!Next
<1>2. CASE YieldVerdict
  <2>1. verdict = "none" /\ verdict' \in {"clean", "failed"} /\ UNCHANGED <<document, delivered>>
    BY <1>2 DEF BodyInv, OutcomeInv, YieldVerdict
  <2>2. ASSUME verdict' = "clean" PROVE delivered = document
    <3>1. result = "Complete" /\ queue = <<>> /\ client # "gone"
      BY <1>2, <2>2 DEF BodyInv, OutcomeInv, YieldVerdict
    <3>2. Len(delivered) = Len(document)
      BY <3>1 DEF BodyInv, OutcomeInv, Sent
    <3>3. \A i \in 1 .. Len(document) : delivered[i] = document[i]
      BY <3>2, DocumentFacts DEF BodyInv, QueueInv, Continues
    <3>4. delivered \in Seq(Nat) /\ document \in Seq(Nat)
      BY DocumentFacts, Places DEF BodyInv
    <3> QED
      BY <3>2, <3>3, <3>4, SeqEqual
  <2> QED
    BY <2>1, <2>2 DEF Result!Next, Result!End
<1>3. CASE Producing \/ Task \/ Panics \/ BudgetStops \/ SeeDataEnd \/ Stall \/ Leave \/ UNCHANGED vars
  BY <1>3
  DEF Producing, Start, Row, Finish, DriverFails, Send, SendFails, Return, Task, Interrupt,
      ClientGone, StoreOutcome, DropWatcher, Panics, BudgetStops, SeeDataEnd, Stall, Leave,
      producerVars, clientVars, vars
<1> QED
  BY <1>1, <1>2, <1>3 DEF Next, Poll

LEMMA BodyInit == Init => BodyInv /\ Result!Init
<1> SUFFICES ASSUME Init PROVE BodyInv /\ Result!Init
  OBVIOUS
<1>1. PICK rows \in 0 .. MaxRows : document = [i \in 1 .. rows + 2 |-> i]
  BY DEF Init, Document
<1>2. rows \in Nat
  BY StreamAssumption
<1>3. document \in Seq(Nat) /\ Len(document) = rows + 2
  BY <1>1, <1>2
<1>4. /\ <<>> \in Seq(Pieces) /\ <<>> \in Seq(Seq(Pieces)) /\ Len(<<>>) = 0
      /\ \A n : Continues(<<>>, n)
  BY DEF Continues
<1>5. TypeOK
  <2>1. 0 \in 0 .. Len(document)
    BY <1>2, <1>3
  <2>2. document \in {Document(r) : r \in 0 .. MaxRows}
    BY <1>1 DEF Document
  <2>3. 0 <= ChunkSize /\ 0 <= ChunkSize + 1 /\ 0 <= Capacity
    BY StreamAssumption
  <2> QED
    BY <1>4, <2>1, <2>2, <2>3 DEF Init, TypeOK, Governed
<1>6. QueueInv
  <2>1. 1 .. Len(queue) = {} /\ 1 .. Len(queue) - 1 = {}
    BY <1>4 DEF Init
  <2> QED
    BY <1>4, <2>1 DEF Init, QueueInv
<1>7. ProducerInv
  BY <1>2, <1>3, <1>4 DEF Init, ProducerInv, Sent, Governed
<1>8. OutcomeInv
  BY DEF Init, OutcomeInv, Governed
<1> QED
  BY <1>3, <1>5, <1>6, <1>7, <1>8 DEF BodyInv, Init, Result!Init

\* Every step keeps the body's invariant and is one the reader may expect.
LEMMA ExecutionStep ==
  BodyInv /\ [ExecutionNext]_allVars
     => BodyInv' /\ [Result!Next]_<<document, delivered, verdict>>
<1> SUFFICES ASSUME BodyInv, [ExecutionNext]_allVars
             PROVE  BodyInv' /\ [Result!Next]_<<document, delivered, verdict>>
  OBVIOUS
<1>1. CASE Streaming
  BY <1>1, BodyStep, BodyRefines DEF Streaming
<1>2. CASE Stopping
  BY <1>2, BodyStep, BodyRefines DEF Stopping, Next
<1>3. CASE Leaving
  BY <1>3, GoneKeeps DEF Leaving, Parser!Disconnected
<1>4. CASE Compiling
  <2>1. stopped' \in BOOLEAN
    BY <1>4, CompilingStops DEF Compiling, BodyInv, TypeOK
  <2> QED
    BY <1>4, <2>1, AsideKeeps DEF Compiling, streamVars, clientVars
<1>5. CASE UNCHANGED allVars
  BY <1>5, BodyStep, BodyRefines DEF allVars
<1> QED
  BY <1>1, <1>2, <1>3, <1>4, <1>5 DEF ExecutionNext

(* A client that sees a clean end has the whole document, and at any time   *)
(* its beginning: of any length, in chunks of any size over a channel of    *)
(* any capacity, whatever the driver, the budget, the compilation, panics   *)
(* and the client do.                                                       *)
THEOREM EndsAreHonest == ExecutionSpec => ImplementsResult
<1>1. ExecutionInit => BodyInv /\ Result!Init
  BY BodyInit DEF ExecutionInit
<1> QED
  BY <1>1, ExecutionStep, PTL DEF ExecutionSpec, ImplementsResult, Result!Spec

(* The document, the chunks on their way, the parts of the producer and the *)
(* body stay well formed: the channel never holds more than its capacity.   *)
THEOREM TypeCorrect == ExecutionSpec => []TypeOK
<1>1. ExecutionInit => BodyInv
  BY BodyInit DEF ExecutionInit
<1>2. BodyInv => TypeOK
  BY DEF BodyInv
<1> QED
  BY <1>1, <1>2, ExecutionStep, PTL DEF ExecutionSpec

-----------------------------------------------------------------------------
(* The types of the compilation; the budget is the body's as well.           *)
PlaceTypes ==
  /\ handler \in {"new", "waiting", "planned", "failed"}
  /\ slot \in {"free", "thread"}
  /\ thread \in Parser!Exchange \cup Parser!Killing
              \cup {"idle", "queued", "sweep", "reap", "compile", "over"}
  /\ path \in {"none", "contain", "drop", "unbound"}
  /\ told \in {"none", "plan", "failed", "expired"}

ProcessTypes ==
  /\ process \in {"none", "running", "dying", "zombie", "reaped"}
  /\ exit \in {"none", "success", "failure"}
  /\ pid \in {"nobody", "worker", "stranger"}
  /\ struck \in {"nobody", "worker", "stranger"}
  /\ closed \in BOOLEAN /\ expired \in BOOLEAN

OutputTypes ==
  output \in Seq(Parser!Parts) /\ Len(output) <= MaxUnread

RefusalTypes ==
  failed \subseteq Parser!Killing /\ refused \in 0 .. MaxRefusals

ParserTypes == PlaceTypes /\ ProcessTypes /\ OutputTypes /\ RefusalTypes

LEMMA PlacesTyped ==
  ASSUME PlaceTypes, Parser!Next \/ Parser!Disconnected
  PROVE  PlaceTypes'
<1> USE DEF PlaceTypes, Parser!Exchange, Parser!Killing, Parser!processVars,
            Parser!killVars
<1>1. CASE Parser!Handler \/ Parser!Disconnected
  BY <1>1 DEF Parser!Handler, Parser!Submit, Parser!Joined, Parser!Interrupted,
     Parser!Disconnected, Parser!Abandon
<1>2. CASE Parser!Supervise
  <2>1. CASE \/ Parser!DeclineStopped \/ Parser!Spawn \/ Parser!ReadReady
             \/ Parser!ReadAnswer \/ Parser!SeeEof \/ Parser!SeeExit
             \/ Parser!ExchangeFails
    BY <2>1 DEF Parser!DeclineStopped, Parser!Refuse, Parser!Over, Parser!Spawn,
       Parser!ReadReady, Parser!ReadAnswer, Parser!Read, Parser!SeeEof,
       Parser!SeeExit, Parser!ExchangeFails, Parser!Kill
  <2>2. CASE Parser!SignalGroup \/ Parser!SignalExact \/ Parser!SignalFallback \/ Parser!Sweep
    BY <2>2 DEF Parser!SignalGroup, Parser!SignalExact, Parser!SignalFallback,
       Parser!Signal, Parser!AfterSignal, Parser!Sweep
  <2>3. CASE Parser!Reap \/ Parser!Compiled
    BY <2>3 DEF Parser!Reap, Parser!Compiled, Parser!Over
  <2> QED
    BY <1>2, <2>1, <2>2, <2>3 DEF Parser!Supervise
<1>3. CASE Parser!Mishap
  BY <1>3 DEF Parser!Mishap, Parser!SpawnFails, Parser!Refuse, Parser!Over,
     Parser!CallFails, Parser!Panics, Parser!Kill, Parser!SignalRefused,
     Parser!AfterSignal, Parser!FallbackRefused, Parser!SweepRefused,
     Parser!Rejected
<1>4. CASE Parser!Process \/ Parser!Dies \/ Parser!Expires
  BY <1>4 DEF Parser!Process, Parser!Dies, Parser!Expires, Parser!Writes,
     Parser!Closes, Parser!Exits, Parser!Ends, Parser!NumberReused
<1> QED
  BY <1>1, <1>2, <1>3, <1>4 DEF Parser!Next

LEMMA ProcessTyped ==
  ASSUME ProcessTypes, Parser!Next \/ Parser!Disconnected
  PROVE  ProcessTypes'
<1> USE DEF ProcessTypes, Parser!processVars, Parser!killVars
<1>1. CASE Parser!Handler \/ Parser!Disconnected
  BY <1>1 DEF Parser!Handler, Parser!Submit, Parser!Joined, Parser!Interrupted,
     Parser!Disconnected, Parser!Abandon
<1>2. CASE Parser!Supervise
  <2>1. CASE \/ Parser!DeclineStopped \/ Parser!Spawn \/ Parser!ReadReady
             \/ Parser!ReadAnswer \/ Parser!SeeEof \/ Parser!SeeExit
             \/ Parser!ExchangeFails
    BY <2>1 DEF Parser!DeclineStopped, Parser!Refuse, Parser!Over, Parser!Spawn,
       Parser!ReadReady, Parser!ReadAnswer, Parser!Read, Parser!SeeEof,
       Parser!SeeExit, Parser!ExchangeFails, Parser!Kill
  <2>2. CASE Parser!SignalGroup \/ Parser!SignalExact \/ Parser!SignalFallback \/ Parser!Sweep
    BY <2>2 DEF Parser!SignalGroup, Parser!SignalExact, Parser!SignalFallback,
       Parser!Signal, Parser!Hits, Parser!Sweep
  <2>3. CASE Parser!Reap \/ Parser!Compiled
    BY <2>3 DEF Parser!Reap, Parser!Compiled
  <2> QED
    BY <1>2, <2>1, <2>2, <2>3 DEF Parser!Supervise
<1>3. CASE Parser!Mishap
  BY <1>3 DEF Parser!Mishap, Parser!SpawnFails, Parser!Refuse,
     Parser!CallFails, Parser!Panics, Parser!Kill, Parser!SignalRefused,
     Parser!FallbackRefused, Parser!SweepRefused, Parser!Rejected
<1>4. CASE Parser!Process \/ Parser!Dies \/ Parser!Expires
  BY <1>4 DEF Parser!Process, Parser!Dies, Parser!Expires, Parser!Writes,
     Parser!Closes, Parser!Exits, Parser!Ends, Parser!NumberReused
<1> QED
  BY <1>1, <1>2, <1>3, <1>4 DEF Parser!Next

\* Only reads and writes touch the output, and a write needs room for it.
LEMMA OutputTyped ==
  ASSUME OutputTypes, Parser!Next \/ Parser!Disconnected
  PROVE  OutputTypes'
<1>0. MaxUnread \in Nat /\ Len(output) \in Nat
  BY ExecutionAssumption DEF OutputTypes
<1>1. CASE Parser!ReadReady \/ Parser!ReadAnswer
  <2>1. output # <<>> /\ output' = Tail(output)
    BY <1>1 DEF Parser!ReadReady, Parser!ReadAnswer, Parser!Read
  <2>2. output' \in Seq(Parser!Parts) /\ Len(output') = Len(output) - 1
    BY <2>1, HeadTailProperties DEF OutputTypes
  <2> QED
    BY <1>0, <2>2 DEF OutputTypes
<1>2. CASE Parser!Writes
  <2>1. PICK part \in Parser!Parts : output' = Append(output, part)
    BY <1>2 DEF Parser!Writes
  <2>2. output' \in Seq(Parser!Parts) /\ Len(output') = Len(output) + 1
    BY <2>1, AppendProperties DEF OutputTypes
  <2>3. Len(output) < MaxUnread
    BY <1>2 DEF Parser!Writes
  <2> QED
    BY <1>0, <2>2, <2>3 DEF OutputTypes
<1>3. CASE ~(Parser!ReadReady \/ Parser!ReadAnswer \/ Parser!Writes)
  <2>1. UNCHANGED output
    BY <1>3 DEF Parser!Next, Parser!Handler, Parser!Submit, Parser!Joined,
       Parser!Interrupted, Parser!Disconnected, Parser!Abandon,
       Parser!Supervise, Parser!DeclineStopped, Parser!Refuse, Parser!Spawn,
       Parser!SeeEof, Parser!SeeExit, Parser!ExchangeFails, Parser!Kill,
       Parser!SignalGroup, Parser!SignalExact, Parser!SignalFallback,
       Parser!Signal, Parser!Hits, Parser!Sweep, Parser!Reap,
       Parser!Compiled, Parser!Mishap, Parser!SpawnFails, Parser!CallFails,
       Parser!Panics, Parser!SignalRefused, Parser!FallbackRefused,
       Parser!SweepRefused, Parser!Rejected, Parser!Process, Parser!Closes,
       Parser!Exits, Parser!Ends, Parser!NumberReused, Parser!Dies,
       Parser!Expires, Parser!processVars
  <2> QED
    BY <2>1 DEF OutputTypes
<1> QED
  BY <1>1, <1>2, <1>3

LEMMA RefusalsTyped ==
  ASSUME RefusalTypes, Parser!Next \/ Parser!Disconnected
  PROVE  RefusalTypes'
<1>0. MaxRefusals \in Nat /\ refused \in Nat
  BY ExecutionAssumption DEF RefusalTypes
<1>1. CASE Parser!SignalRefused \/ Parser!FallbackRefused \/ Parser!SweepRefused
  <2>1. refused < MaxRefusals /\ refused' = refused + 1
    BY <1>1 DEF Parser!SignalRefused, Parser!FallbackRefused, Parser!SweepRefused
  <2>2. refused' \in 0 .. MaxRefusals
    BY <1>0, <2>1
  <2>3. failed' \subseteq Parser!Killing
    BY <1>1 DEF RefusalTypes, Parser!Killing, Parser!SignalRefused,
       Parser!AfterSignal, Parser!FallbackRefused, Parser!SweepRefused
  <2> QED
    BY <2>2, <2>3 DEF RefusalTypes
<1>2. CASE ~(Parser!SignalRefused \/ Parser!FallbackRefused \/ Parser!SweepRefused)
  <2>1. UNCHANGED <<failed, refused>>
    BY <1>2 DEF Parser!Next, Parser!Handler, Parser!Submit, Parser!Joined,
       Parser!Interrupted, Parser!Disconnected, Parser!Abandon,
       Parser!Supervise, Parser!DeclineStopped, Parser!Refuse, Parser!Over,
       Parser!Spawn, Parser!ReadReady, Parser!ReadAnswer, Parser!Read,
       Parser!SeeEof, Parser!SeeExit, Parser!ExchangeFails, Parser!Kill,
       Parser!SignalGroup, Parser!SignalExact, Parser!SignalFallback,
       Parser!Signal, Parser!AfterSignal, Parser!Sweep, Parser!Reap,
       Parser!Compiled, Parser!Mishap, Parser!SpawnFails, Parser!CallFails,
       Parser!Panics, Parser!Rejected, Parser!Process, Parser!Writes,
       Parser!Closes, Parser!Exits, Parser!Ends, Parser!NumberReused,
       Parser!Dies, Parser!Expires, Parser!killVars
  <2> QED
    BY <2>1 DEF RefusalTypes
<1> QED
  BY <1>1, <1>2

LEMMA ParserTypesInit == ExecutionInit => ParserTypes
<1> SUFFICES ASSUME ExecutionInit PROVE ParserTypes OBVIOUS
<1>1. PlaceTypes /\ ProcessTypes
  BY DEF ExecutionInit, Parser!Init, PlaceTypes, ProcessTypes
<1>2. OutputTypes
  BY ExecutionAssumption, EmptySeq DEF ExecutionInit, Parser!Init, OutputTypes
<1>3. RefusalTypes
  <2>1. 0 \in 0 .. MaxRefusals
    BY ExecutionAssumption
  <2> QED
    BY <2>1 DEF ExecutionInit, Parser!Init, RefusalTypes
<1> QED
  BY <1>1, <1>2, <1>3 DEF ParserTypes

LEMMA ParserTypesStep == ParserTypes /\ [ExecutionNext]_allVars => ParserTypes'
<1> SUFFICES ASSUME ParserTypes, [ExecutionNext]_allVars PROVE ParserTypes'
  OBVIOUS
<1>1. CASE Compiling \/ Leaving
  BY <1>1, PlacesTyped, ProcessTyped, OutputTyped, RefusalsTyped
  DEF Compiling, Leaving, ParserTypes
<1>2. CASE UNCHANGED parserVars
  BY <1>2 DEF parserVars, ParserTypes, PlaceTypes, ProcessTypes, OutputTypes,
     RefusalTypes
<1> QED
  BY <1>1, <1>2 DEF ExecutionNext, Streaming, Stopping, allVars

(* The places of handler and thread, the process and what it has written    *)
(* stay well formed: nothing is unread beyond the pipe's bound.             *)
THEOREM ParserTypeCorrect == ExecutionSpec => []Parser!TypeOK
<1>1. ParserTypes /\ TypeOK => Parser!TypeOK
  <2> SUFFICES ASSUME ParserTypes, TypeOK PROVE Parser!TypeOK OBVIOUS
  <2>1. {closed, expired, stopped} \subseteq BOOLEAN
    BY Zenon DEF ParserTypes, ProcessTypes, TypeOK
  <2> QED
    BY <2>1 DEF ParserTypes, PlaceTypes, ProcessTypes, OutputTypes,
       RefusalTypes, Parser!TypeOK
<1> QED
  BY <1>1, ParserTypesInit, ParserTypesStep, TypeCorrect, PTL DEF ExecutionSpec
=============================================================================
