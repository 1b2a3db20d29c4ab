------------------------ MODULE FederatedRequestsProofs ------------------------
(***************************************************************************)
(* Proofs about the verified generations, for any sources and kinds, any   *)
(* requests over one or two of them, and any number of failures: what can  *)
(* be taken is clean, what succeeds is whole, and what has answered holds  *)
(* nothing.                                                                *)
(***************************************************************************)
EXTENDS FederatedRequests, TLAPS

(***************************************************************************)
(* What a source is to the request it belongs to, whatever its kind: in    *)
(* the begin that the request waits for, leased, in the closing it waits   *)
(* for, over, or loose, with nobody waiting for what still happens to it.  *)
(***************************************************************************)
Owner(s) == IF Sqlite(s) THEN gen[s].owner ELSE lease[s].owner

State(s) ==
    IF Sqlite(s)
    THEN CASE gen[s].st = "none"   -> "none"
           [] gen[s].st = "leased" -> "leased"
           [] gen[s].st = "ended"  -> "over"
           [] gen[s].st = "begin"   /\ gen[s].awaited -> "begin"
           [] gen[s].st = "cleanup" /\ gen[s].awaited -> "closing"
           [] OTHER -> "loose"
    ELSE CASE lease[s].st = "none"    -> "none"
           [] lease[s].st = "setup"   -> "begin"
           [] lease[s].st = "leased"  -> "leased"
           [] lease[s].st = "discard" -> "over"
           [] OTHER -> "closing"

Is(r, s, state) == Owner(s) = r /\ State(s) = state

-----------------------------------------------------------------------------
(* Each source by itself.                                                   *)

\* A source has a generation or a lease, as its kind has it.
KindInv(s) == IF Sqlite(s) THEN lease[s] = NoLease ELSE gen[s] = NoGeneration

\* The permit is out while there is a generation, and what the generation leaves
\* behind is clean or retired.
MemberInv(s) ==
    /\ member[s].free <=> gen[s].st = "none"
    /\ gen[s].st = "none" => gen[s] = NoGeneration
    /\ gen[s].st = "none" => member[s].closed \/ (~member[s].txn /\ ~member[s].poisoned)
    /\ gen[s].st = "begin" => ~member[s].txn /\ ~member[s].poisoned /\ ~gen[s].failed
    /\ gen[s].st = "ended" /\ gen[s].clean => ~member[s].txn /\ ~member[s].poisoned

\* Workers and streams belong to leased generations, or to a cleanup that waits
\* for the worker; a closed channel of a panicked worker is a failed generation.
WorkerInv(s) ==
    /\ gen[s].st \in {"none", "begin"} => worker[s] = "free"
    /\ gen[s].st = "ended" => worker[s] \in {"free", "left"}
    /\ gen[s].st # "leased" => stream[s] = "none"
    /\ stream[s] = "none" => gen[s].st # "leased" \/ worker[s] = "free"
    /\ stream[s] = "cut" => gen[s].failed \/ worker[s] = "panicked"

\* A slot is out while there is a lease; the session of a lease that has been
\* given is in its transaction, and nothing is cancelled before the discarding.
ConnInv(s) ==
    /\ lease[s].st = "none" => lease[s] = NoLease /\ conn[s] = Fresh
    /\ lease[s].st # "none" => ~conn[s].free
    /\ lease[s].st = "leased" => conn[s].txn
    /\ conn[s].cancel # "none" => lease[s].st = "discard"

Local(s) == KindInv(s) /\ MemberInv(s) /\ WorkerInv(s) /\ ConnInv(s)
LocalInv == \A s \in Sources : Local(s)

-----------------------------------------------------------------------------
(* Sources and requests.                                                    *)

\* The sources whose leases a request must have, from where it is.
Held(r) ==
    CASE pc[r] \in {"acquire", "begin"} -> {AcquireOrder(r)[i] : i \in 1 .. step[r] - 1}
      [] pc[r] = "compile" -> {Fragments[r][i] : i \in 1 .. Len(Fragments[r])}
      [] pc[r] = "drive"   -> {Fragments[r][i] : i \in step[r] .. Len(Fragments[r])}
      [] pc[r] = "finish"  -> {Fragments[r][i] : i \in step[r] + 1 .. Len(Fragments[r])}
      [] OTHER -> {}

\* It has them, and others only just given, or to be handed back.
HeldIsLeased(r) == \A s \in Held(r) : Is(r, s, "leased")

LeasedIsHeld(r) ==
    \A s \in Sources : Is(r, s, "leased") =>
        \/ s \in Held(r)
        \/ pc[r] = "begin" /\ s = Waited(r)
        \/ pc[r] \in {"undo", "undoing"}

\* It waits for one begin or closing at a time, and not once it has been told.
WaitsForOne(r) ==
    /\ \A s \in Sources :
          /\ Is(r, s, "begin") => pc[r] = "begin" /\ s = Waited(r)
          /\ Is(r, s, "closing") =>
                \/ pc[r] = "begin" /\ s = Waited(r)
                \/ pc[r] = "finish" /\ s = Driven(r)
                \/ pc[r] = "undoing"
    /\ \A s, t \in Sources : Is(r, s, "closing") /\ Is(r, t, "closing") => s = t

ToldIsOver(r) ==
    reply[r] # "none" =>
        /\ pc[r] \in {"begin", "finish", "undoing"}
        /\ \A s \in Sources : ~Is(r, s, "begin") /\ ~Is(r, s, "closing")
        /\ pc[r] = "begin" => ~Is(r, Waited(r), "leased")

\* What has been left to itself was never given, or its request is gone.
LooseIsNotObtained(r) ==
    \A s \in Sources : Is(r, s, "loose") => s \notin obtained[r] \/ answer[r] = "gone"

Progress(r) ==
    /\ step[r] \in 1 .. Len(Fragments[r])
    /\ pc[r] = "compile" => step[r] = 1
    /\ pc[r] \in {"acquire", "begin"} =>
          \A i \in step[r] .. Len(Fragments[r]) : AcquireOrder(r)[i] \notin obtained[r]
    /\ answer[r] = "none" <=> pc[r] # "done"

Tie(r) ==
    /\ HeldIsLeased(r) /\ LeasedIsHeld(r) /\ WaitsForOne(r) /\ ToldIsOver(r)
    /\ LooseIsNotObtained(r) /\ Progress(r)
TieInv == \A r \in Requests : Tie(r)

-----------------------------------------------------------------------------
(* What a request that has read too little, or outside the transaction, has *)
(* before it: its finish cannot but fail.                                   *)
Doomed(r) ==
    \/ pc[r] = "drive" /\ Sqlite(Driven(r)) /\ ~member[Driven(r)].txn
    \/ /\ pc[r] = "finish"
       /\ \/ reply[r] = "err"
          \/ /\ Sqlite(Driven(r)) /\ Is(r, Driven(r), "closing")
             /\ gen[Driven(r)].failed \/ ~member[Driven(r)].txn
    \/ pc[r] \in {"undo", "undoing"}
    \/ pc[r] = "done" /\ answer[r] # "ok"

DoomInv == \A r \in short \cup torn : Doomed(r)

\* Rows are for a request that drives the source.
StreamInv ==
    \A s \in Sources : stream[s] # "none" =>
        \E r \in Requests : pc[r] = "drive" /\ Driven(r) = s

IInv == TypeOK /\ LocalInv /\ TieInv /\ StreamInv /\ DoomInv

-----------------------------------------------------------------------------
(* The order of acquisition.                                                *)

\* A sequence of one or two elements and its reverse.
LEMMA ReverseOfShort ==
  ASSUME NEW S, NEW f \in Seq(S), Len(f) \in 1 .. 2,
         \A i, j \in 1 .. Len(f) : f[i] = f[j] => i = j
  PROVE  /\ Reverse(f) \in Seq(S) /\ Len(Reverse(f)) = Len(f)
         /\ \A i, j \in 1 .. Len(f) : Reverse(f)[i] = Reverse(f)[j] => i = j
         /\ {Reverse(f)[i] : i \in 1 .. Len(f)} = {f[i] : i \in 1 .. Len(f)}
         /\ Len(f) = 2 => Reverse(f)[1] = f[2] /\ Reverse(f)[2] = f[1]
<1>1. Reverse(f) = [i \in 1 .. Len(f) |-> f[Len(f) - i + 1]]
  BY DEF Reverse
<1>2. CASE Len(f) = 1
  <2>1. 1 .. Len(f) = {1} /\ Reverse(f)[1] = f[1] /\ f[1] \in S
    BY <1>1, <1>2
  <2>2. Reverse(f) \in Seq(S) /\ Len(Reverse(f)) = 1
    BY <1>1, <1>2, <2>1
  <2> QED
    BY <1>2, <2>1, <2>2
<1>3. CASE Len(f) = 2
  <2>0. 1 .. Len(f) = {1, 2} /\ 1 \in 1 .. Len(f) /\ 2 \in 1 .. Len(f)
    BY <1>3
  <2>1. f[1] \in S /\ f[2] \in S /\ f[1] # f[2]
    BY <2>0
  <2>2. Reverse(f)[1] = f[2] /\ Reverse(f)[2] = f[1]
    BY <1>1, <1>3
  <2>3. Reverse(f) \in Seq(S) /\ Len(Reverse(f)) = 2
    BY <1>1, <1>3, <2>0, <2>1
  <2>4. /\ \A i, j \in {1, 2} : Reverse(f)[i] = Reverse(f)[j] => i = j
        /\ {Reverse(f)[i] : i \in {1, 2}} = {f[i] : i \in {1, 2}}
    BY <2>1, <2>2
  <2> QED
    BY <1>3, <2>0, <2>2, <2>3, <2>4
<1> QED
  BY <1>2, <1>3

\* A request acquires the sources of its plan, each once.
LEMMA OrderOfAcquisition ==
  ASSUME NEW r \in Requests
  PROVE  /\ Fragments[r] \in Seq(Sources) /\ Len(Fragments[r]) \in 1 .. 2
         /\ AcquireOrder(r) \in Seq(Sources) /\ Len(AcquireOrder(r)) = Len(Fragments[r])
         /\ \A i, j \in 1 .. Len(Fragments[r]) :
               /\ Fragments[r][i] = Fragments[r][j] => i = j
               /\ AcquireOrder(r)[i] = AcquireOrder(r)[j] => i = j
         /\ {AcquireOrder(r)[i] : i \in 1 .. Len(Fragments[r])}
              = {Fragments[r][i] : i \in 1 .. Len(Fragments[r])}
<1>1. PICK f : f = Fragments[r]
  OBVIOUS
<1>2. PICK g : g = Reverse(f)
  OBVIOUS
<1> DEFINE Sorted(order) == \A i, j \in DOMAIN order : i < j => order[i] < order[j]
<1>3. /\ f \in Seq(Sources) /\ Len(f) \in 1 .. 2
      /\ \A i, j \in 1 .. Len(f) : f[i] = f[j] => i = j
  BY <1>1, RequestAssumption DEF IsInjective
<1>4. /\ g \in Seq(Sources) /\ Len(g) = Len(f)
      /\ \A i, j \in 1 .. Len(f) : g[i] = g[j] => i = j
      /\ {g[i] : i \in 1 .. Len(f)} = {f[i] : i \in 1 .. Len(f)}
      /\ Len(f) = 2 => g[1] = f[2] /\ g[2] = f[1]
  BY <1>2, <1>3, ReverseOfShort
<1>5. Sorted(f) \/ Sorted(g)
  <2>1. CASE Len(f) = 1
    BY <1>3, <2>1
  <2>2. CASE Len(f) = 2
    <3>0. 1 \in 1 .. Len(f) /\ 2 \in 1 .. Len(f)
      BY <2>2
    <3>1. f[1] \in Sources /\ f[2] \in Sources /\ f[1] # f[2]
      BY <1>3, <3>0
    <3>2. f[1] \in Nat /\ f[2] \in Nat
      BY <3>1, SourceAssumption
    <3>3. CASE f[1] < f[2]
      BY <1>3, <2>2, <3>2, <3>3
    <3>4. CASE f[2] < f[1]
      <4>1. DOMAIN g = {1, 2} /\ g[1] = f[2] /\ g[2] = f[1]
        BY <1>3, <1>4, <2>2
      <4> QED
        BY <3>2, <3>4, <4>1
    <3> QED
      BY <3>1, <3>2, <3>3, <3>4
  <2> QED
    BY <1>3, <2>1, <2>2
<1>6. AcquireOrder(r) \in {f, g}
  <2>1. \E order \in {f, g} : Sorted(order)
    BY <1>5
  <2> QED
    BY <1>1, <1>2, <2>1 DEF AcquireOrder
<1> HIDE DEF Sorted
<1>7. CASE AcquireOrder(r) = f
  BY <1>1, <1>3, <1>7
<1>8. CASE AcquireOrder(r) = g
  <2>1. /\ f \in Seq(Sources) /\ Len(f) \in 1 .. 2 /\ g \in Seq(Sources) /\ Len(g) = Len(f)
        /\ \A i, j \in 1 .. Len(f) : (f[i] = f[j] => i = j) /\ (g[i] = g[j] => i = j)
        /\ {g[i] : i \in 1 .. Len(f)} = {f[i] : i \in 1 .. Len(f)}
    BY <1>3, <1>4
  <2>2. \A i, j \in 1 .. Len(Fragments[r]) :
           /\ Fragments[r][i] = Fragments[r][j] => i = j
           /\ AcquireOrder(r)[i] = AcquireOrder(r)[j] => i = j
    BY <1>1, <1>8, <2>1
  <2>3. {AcquireOrder(r)[i] : i \in 1 .. Len(Fragments[r])}
          = {Fragments[r][i] : i \in 1 .. Len(Fragments[r])}
    <3>1. \A x : (\E i \in 1 .. Len(f) : x = g[i]) <=> (\E i \in 1 .. Len(f) : x = f[i])
      BY <2>1
    <3>2. \A x : (\E i \in 1 .. Len(Fragments[r]) : x = AcquireOrder(r)[i])
                   <=> (\E i \in 1 .. Len(Fragments[r]) : x = Fragments[r][i])
      BY <1>1, <1>8, <3>1
    <3> QED
      BY <3>2
  <2> QED
    BY <1>1, <1>8, <2>1, <2>2, <2>3
<1> QED
  BY <1>6, <1>7, <1>8

\* What a request holds, drives and waits for is among the sources.
LEMMA PlacesAreSources ==
  ASSUME NEW r \in Requests, Progress(r)
  PROVE  /\ step[r] \in 1 .. Len(Fragments[r])
         /\ Waited(r) \in Sources /\ Driven(r) \in Sources
         /\ Held(r) \subseteq Sources
         /\ pc[r] = "drive" => Driven(r) \in Held(r)
<1>1. /\ Fragments[r] \in Seq(Sources) /\ Len(Fragments[r]) \in 1 .. 2
      /\ AcquireOrder(r) \in Seq(Sources) /\ Len(AcquireOrder(r)) = Len(Fragments[r])
  BY OrderOfAcquisition
<1>2. step[r] \in 1 .. Len(Fragments[r])
  BY DEF Progress
<1>3. \A i \in 1 .. Len(Fragments[r]) : Fragments[r][i] \in Sources /\ AcquireOrder(r)[i] \in Sources
  BY <1>1
<1>4. Held(r) \subseteq Sources
  <2>1. \A i \in 1 .. step[r] - 1 : i \in 1 .. Len(Fragments[r])
    BY <1>1, <1>2
  <2>2. \A i \in step[r] .. Len(Fragments[r]) : i \in 1 .. Len(Fragments[r])
    BY <1>1, <1>2
  <2>3. \A i \in step[r] + 1 .. Len(Fragments[r]) : i \in 1 .. Len(Fragments[r])
    BY <1>1, <1>2
  <2> QED
    BY <1>3, <2>1, <2>2, <2>3 DEF Held
<1>5. pc[r] = "drive" => Driven(r) \in Held(r)
  <2>1. step[r] \in step[r] .. Len(Fragments[r])
    BY <1>1, <1>2
  <2> QED
    BY <2>1 DEF Held, Driven
<1> QED
  BY <1>2, <1>3, <1>4, <1>5 DEF Waited, Driven

-----------------------------------------------------------------------------
(* Requests that a step is not about.                                       *)

\* A source is to the request what it was.
SameFor(q, s) == Owner(s) = q \/ Owner(s)' = q => Owner(s)' = Owner(s) /\ State(s)' = State(s)

\* What has been lost is not found again.
NoBetter(s) == (member'[s].txn => member[s].txn) /\ (gen[s].failed => gen'[s].failed)

LEMMA Bystander ==
  ASSUME NEW q \in Requests, Tie(q),
         pc'[q] = pc[q], step'[q] = step[q], obtained'[q] = obtained[q],
         answer'[q] = answer[q], reply'[q] = reply[q],
         \A s \in Sources : SameFor(q, s)
  PROVE  Tie(q)'
<1>1. \A s \in Sources : Owner(s)' = q => Owner(s) = q /\ State(s)' = State(s)
  BY DEF SameFor
<1>2. \A s \in Sources : Owner(s) = q => Owner(s)' = q /\ State(s)' = State(s)
  BY DEF SameFor
<1>3. Held(q)' = Held(q) /\ Waited(q)' = Waited(q) /\ Driven(q)' = Driven(q)
  BY DEF Held, Waited, Driven
<1>4. Waited(q) \in Sources /\ Driven(q) \in Sources /\ Held(q) \subseteq Sources
  BY PlacesAreSources DEF Tie
<1>5. HeldIsLeased(q)'
  BY <1>2, <1>3, <1>4 DEF Tie, HeldIsLeased, Is
<1>6. LeasedIsHeld(q)'
  BY <1>1, <1>3 DEF Tie, LeasedIsHeld, Is
<1>7. WaitsForOne(q)'
  BY <1>1, <1>3 DEF Tie, WaitsForOne, Is
<1>8. ToldIsOver(q)'
  BY <1>1, <1>3, <1>4 DEF Tie, ToldIsOver, Is
<1>9. LooseIsNotObtained(q)'
  BY <1>1 DEF Tie, LooseIsNotObtained, Is
<1>10. Progress(q)'
  BY DEF Tie, Progress
<1> QED
  BY <1>5, <1>6, <1>7, <1>8, <1>9, <1>10 DEF Tie

LEMMA DoomStays ==
  ASSUME NEW q \in Requests, Tie(q), Doomed(q), kind' = kind,
         pc'[q] = pc[q], step'[q] = step[q], answer'[q] = answer[q], reply'[q] = reply[q],
         \A s \in Sources : SameFor(q, s),
         \A s \in Sources : Is(q, s, "leased") \/ Is(q, s, "closing") => NoBetter(s)
  PROVE  Doomed(q)'
<1>1. Driven(q)' = Driven(q) /\ Sqlite(Driven(q))' = Sqlite(Driven(q))
  BY DEF Driven, Sqlite
<1>2. Driven(q) \in Sources
  BY PlacesAreSources DEF Tie
<1>3. CASE pc[q] = "drive" /\ Sqlite(Driven(q)) /\ ~member[Driven(q)].txn
  <2>1. Is(q, Driven(q), "leased")
    BY <1>3, PlacesAreSources DEF Tie, HeldIsLeased
  <2>2. ~member'[Driven(q)].txn
    BY <1>2, <1>3, <2>1 DEF NoBetter
  <2> QED
    BY <1>1, <1>3, <2>2 DEF Doomed
<1>4. CASE /\ pc[q] = "finish"
           /\ Sqlite(Driven(q)) /\ Is(q, Driven(q), "closing")
           /\ gen[Driven(q)].failed \/ ~member[Driven(q)].txn
  <2>1. Is(q, Driven(q), "closing")'
    BY <1>1, <1>2, <1>4 DEF Is, SameFor
  <2>2. gen'[Driven(q)].failed \/ ~member'[Driven(q)].txn
    BY <1>2, <1>4 DEF NoBetter
  <2> QED
    BY <1>1, <1>4, <2>1, <2>2 DEF Doomed
<1>5. CASE \/ pc[q] = "finish" /\ reply[q] = "err"
           \/ pc[q] \in {"undo", "undoing"}
           \/ pc[q] = "done" /\ answer[q] # "ok"
  BY <1>5 DEF Doomed
<1> QED
  BY <1>3, <1>4, <1>5 DEF Doomed

-----------------------------------------------------------------------------
(* What runs beside the requests.  To the request that it belongs to, a      *)
(* source stays what it is, is given, is on its way back, is over and has    *)
(* been told so, or is over and nobody is told.                              *)
KeepsState(s) == Owner(s)' = Owner(s) /\ State(s)' = State(s)

Stays(s) ==
    /\ KeepsState(s) /\ reply' = reply
    /\ State(s) \in {"leased", "closing"} => NoBetter(s)

IsGiven(s) ==
    /\ State(s) = "begin" /\ State(s)' \in {"leased", "closing"}
    /\ Owner(s)' = Owner(s) /\ reply' = reply

EndsAt(s) ==
    \/ State(s)' = "over" /\ Owner(s)' = Owner(s)
    \/ State(s)' = "none" /\ Owner(s)' = Nobody

IsTold(s, what) ==
    /\ State(s) \in {"begin", "closing"} /\ EndsAt(s)
    /\ reply' = [reply EXCEPT ![Owner(s)] = what]
    /\ what \in {"ok", "err"}
    /\ State(s) = "closing" /\ Sqlite(s) /\ (gen[s].failed \/ ~member[s].txn) => what = "err"

IsLeft(s) == State(s) \in {"loose", "over"} /\ EndsAt(s) /\ reply' = reply

SourceMoves(s) == Stays(s) \/ IsGiven(s) \/ (\E what : IsTold(s, what)) \/ IsLeft(s)

ByItself(s) ==
    /\ kind' = kind /\ UNCHANGED <<pc, step, obtained, answer, torn, short>>
    /\ stream'[s] # "none" => stream[s] # "none"
    /\ \A t \in Sources \ {s} :
          /\ member'[t] = member[t] /\ gen'[t] = gen[t] /\ lease'[t] = lease[t]
          /\ worker'[t] = worker[t] /\ stream'[t] = stream[t] /\ conn'[t] = conn[t]

\* No stream is opened, and whoever drives goes on driving.
LEMMA StreamsStay ==
  ASSUME StreamInv, \A s \in Sources : stream'[s] # "none" => stream[s] # "none",
         \A q \in Requests : pc[q] = "drive" => pc'[q] = "drive" /\ step'[q] = step[q]
  PROVE  StreamInv'
<1> SUFFICES ASSUME NEW s \in Sources, stream'[s] # "none"
             PROVE  \E r \in Requests : (pc[r] = "drive" /\ Driven(r) = s)'
  BY DEF StreamInv
<1>1. PICK r \in Requests : pc[r] = "drive" /\ Driven(r) = s
  BY DEF StreamInv
<1>2. (pc[r] = "drive" /\ Driven(r) = s)'
  BY <1>1 DEF Driven
<1> QED
  BY <1>2

LEMMA OthersKeepState ==
  ASSUME NEW s \in Sources, ByItself(s), NEW t \in Sources \ {s}
  PROVE  KeepsState(t) /\ NoBetter(t) /\ (Local(t) => Local(t)')
<1>1. /\ member'[t] = member[t] /\ gen'[t] = gen[t] /\ lease'[t] = lease[t]
      /\ worker'[t] = worker[t] /\ stream'[t] = stream[t] /\ conn'[t] = conn[t]
      /\ kind' = kind
  BY DEF ByItself
<1>2. KeepsState(t)
  BY <1>1 DEF KeepsState, Owner, State, Sqlite
<1>3. NoBetter(t)
  BY <1>1 DEF NoBetter
<1>4. Local(t) => Local(t)'
  BY <1>1 DEF Local, KindInv, MemberInv, WorkerInv, ConnInv, Sqlite
<1> QED
  BY <1>2, <1>3, <1>4

\* Whatever it is, it leaves the requests tied to their sources.
LEMMA SourceStepKeepsTie ==
  ASSUME TypeOK, TieInv, NEW s \in Sources, ByItself(s), SourceMoves(s)
  PROVE  TieInv'
<1> SUFFICES ASSUME NEW q \in Requests PROVE Tie(q)'
  BY DEF TieInv
<1>1. Tie(q)
  BY DEF TieInv
<1>2. /\ pc'[q] = pc[q] /\ step'[q] = step[q] /\ obtained'[q] = obtained[q]
      /\ answer'[q] = answer[q]
  BY DEF ByItself
<1>3. \A t \in Sources \ {s} : Owner(t)' = Owner(t) /\ State(t)' = State(t)
  BY OthersKeepState DEF KeepsState
<1>4. Held(q)' = Held(q) /\ Waited(q)' = Waited(q) /\ Driven(q)' = Driven(q)
  BY <1>2 DEF Held, Waited, Driven
<1>5. Waited(q) \in Sources /\ Driven(q) \in Sources /\ Held(q) \subseteq Sources
  BY <1>1, PlacesAreSources DEF Tie
<1>6. Progress(q)'
  BY <1>1, <1>2 DEF Tie, Progress
<1>7. CASE Stays(s)
  <2>1. \A t \in Sources : SameFor(q, t)
    BY <1>3, <1>7 DEF SameFor, Stays, KeepsState
  <2> QED
    BY <1>1, <1>2, <1>7, <2>1, Bystander DEF Stays
<1>8. CASE IsGiven(s)
  <2>1. CASE Owner(s) # q
    <3>1. \A t \in Sources : SameFor(q, t)
      BY <1>3, <1>8, <2>1 DEF SameFor, IsGiven
    <3> QED
      BY <1>1, <1>2, <1>8, <3>1, Bystander DEF IsGiven
  <2>2. CASE Owner(s) = q
    <3>1. Is(q, s, "begin") /\ Owner(s)' = q /\ State(s)' \in {"leased", "closing"}
      BY <1>8, <2>2 DEF Is, IsGiven
    <3>2. pc[q] = "begin" /\ s = Waited(q) /\ reply[q] = "none" /\ reply'[q] = "none"
      BY <1>1, <1>8, <3>1 DEF Tie, WaitsForOne, ToldIsOver, IsGiven, TypeOK, WorldTypeOK
    <3>3. HeldIsLeased(q)'
      BY <1>1, <1>3, <1>4, <1>5, <3>1 DEF Tie, HeldIsLeased, Is
    <3>4. LeasedIsHeld(q)'
      BY <1>1, <1>2, <1>3, <1>4, <3>2 DEF Tie, LeasedIsHeld, Is
    <3>5. \A t \in Sources : ~Is(q, t, "closing")
      <4> SUFFICES ASSUME NEW t \in Sources, Is(q, t, "closing") PROVE FALSE
        OBVIOUS
      <4>1. t = Waited(q)
        BY <1>1, <3>2 DEF Tie, WaitsForOne
      <4> QED
        BY <3>1, <3>2, <4>1 DEF Is
    <3>6. WaitsForOne(q)'
      BY <1>1, <1>2, <1>3, <1>4, <3>1, <3>2, <3>5 DEF Tie, WaitsForOne, Is
    <3>7. ToldIsOver(q)'
      BY <3>2 DEF ToldIsOver
    <3>8. LooseIsNotObtained(q)'
      BY <1>1, <1>2, <1>3, <3>1 DEF Tie, LooseIsNotObtained, Is
    <3> QED
      BY <1>6, <3>3, <3>4, <3>6, <3>7, <3>8 DEF Tie
  <2> QED
    BY <2>1, <2>2
<1>9. ASSUME NEW what, IsTold(s, what)
      PROVE  Tie(q)'
  <2>0. Nobody # q
    BY SourceAssumption
  <2>1. CASE Owner(s) # q
    <3>1. \A t \in Sources : SameFor(q, t)
      BY <1>3, <1>9, <2>0, <2>1 DEF SameFor, IsTold, EndsAt
    <3>2. reply'[q] = reply[q]
      BY <1>9, <2>1 DEF IsTold, TypeOK, WorldTypeOK
    <3> QED
      BY <1>1, <1>2, <3>1, <3>2, Bystander
  <2>2. CASE Owner(s) = q
    <3>1. Is(q, s, "begin") \/ Is(q, s, "closing")
      BY <1>9, <2>2 DEF Is, IsTold
    <3>2. State(s)' \in {"over", "none"}
      BY <1>9 DEF IsTold, EndsAt
    <3>3. \A t \in Sources \ {s} : ~Is(q, t, "begin") /\ ~Is(q, t, "closing")
      <4>1. CASE Is(q, s, "begin")
        <5>1. pc[q] = "begin" /\ s = Waited(q)
          BY <1>1, <4>1 DEF Tie, WaitsForOne
        <5> QED
          BY <1>1, <5>1 DEF Tie, WaitsForOne
      <4>2. CASE Is(q, s, "closing")
        <5>1. \A t \in Sources \ {s} : ~Is(q, t, "closing")
          BY <1>1, <4>2 DEF Tie, WaitsForOne
        <5>2. \A t \in Sources \ {s} : ~Is(q, t, "begin")
          BY <1>1, <4>2 DEF Tie, WaitsForOne
        <5> QED
          BY <5>1, <5>2
      <4> QED
        BY <3>1, <4>1, <4>2
    <3>4. /\ pc[q] \in {"begin", "finish", "undoing"}
          /\ pc[q] = "begin" => s = Waited(q)
      BY <1>1, <3>1 DEF Tie, WaitsForOne
    <3>5. HeldIsLeased(q)'
      BY <1>1, <1>3, <1>4, <1>5, <3>1 DEF Tie, HeldIsLeased, Is
    <3>6. LeasedIsHeld(q)'
      BY <1>1, <1>2, <1>3, <1>4, <3>2 DEF Tie, LeasedIsHeld, Is
    <3>7. \A t \in Sources : ~Is(q, t, "begin")' /\ ~Is(q, t, "closing")'
      BY <1>3, <3>2, <3>3 DEF Is
    <3>8. WaitsForOne(q)'
      BY <3>7 DEF WaitsForOne
    <3>9. ToldIsOver(q)'
      BY <1>2, <1>4, <3>2, <3>4, <3>7 DEF ToldIsOver, Is
    <3>10. LooseIsNotObtained(q)'
      BY <1>1, <1>2, <1>3, <3>2 DEF Tie, LooseIsNotObtained, Is
    <3> QED
      BY <1>6, <3>5, <3>6, <3>8, <3>9, <3>10 DEF Tie
  <2> QED
    BY <2>1, <2>2
<1>10. CASE IsLeft(s)
  <2>1. \A t \in Sources : Is(q, t, "leased") => Is(q, t, "leased")'
    BY <1>3, <1>10 DEF IsLeft, Is
  <2>2. \A t \in Sources : ~(State(t)' \in {"over", "none"}) => Owner(t)' = Owner(t) /\ State(t)' = State(t)
    BY <1>3, <1>10 DEF IsLeft, EndsAt
  <2>3. HeldIsLeased(q)'
    BY <1>1, <1>4, <1>5, <2>1 DEF Tie, HeldIsLeased
  <2>4. LeasedIsHeld(q)'
    BY <1>1, <1>2, <1>4, <2>2 DEF Tie, LeasedIsHeld, Is
  <2>5. WaitsForOne(q)'
    BY <1>1, <1>2, <1>4, <2>2 DEF Tie, WaitsForOne, Is
  <2>6. ToldIsOver(q)'
    BY <1>1, <1>2, <1>4, <1>5, <1>10, <2>2 DEF Tie, ToldIsOver, Is, IsLeft
  <2>7. LooseIsNotObtained(q)'
    BY <1>1, <1>2, <2>2 DEF Tie, LooseIsNotObtained, Is
  <2> QED
    BY <1>6, <2>3, <2>4, <2>5, <2>6, <2>7 DEF Tie
<1> QED
  BY <1>7, <1>8, <1>9, <1>10 DEF SourceMoves

LEMMA SourceStepKeepsDoom ==
  ASSUME TypeOK, TieInv, DoomInv, NEW s \in Sources, ByItself(s), SourceMoves(s)
  PROVE  DoomInv'
<1> SUFFICES ASSUME NEW q \in short \cup torn PROVE Doomed(q)'
  BY DEF DoomInv, ByItself
<1>1. q \in Requests /\ Tie(q) /\ Doomed(q) /\ Nobody # q
  BY SourceAssumption DEF DoomInv, TieInv, TypeOK
<1>2. /\ kind' = kind /\ pc'[q] = pc[q] /\ step'[q] = step[q] /\ obtained'[q] = obtained[q]
      /\ answer'[q] = answer[q]
  BY DEF ByItself
<1>3. \A t \in Sources \ {s} : Owner(t)' = Owner(t) /\ State(t)' = State(t) /\ NoBetter(t)
  BY OthersKeepState DEF KeepsState
<1>4. CASE Stays(s)
  <2>1. \A t \in Sources : SameFor(q, t)
    BY <1>3, <1>4 DEF SameFor, Stays, KeepsState
  <2>2. \A t \in Sources : Is(q, t, "leased") \/ Is(q, t, "closing") => NoBetter(t)
    BY <1>3, <1>4 DEF Is, Stays
  <2>3. reply'[q] = reply[q]
    BY <1>4 DEF Stays
  <2> QED
    BY <1>1, <1>2, <2>1, <2>2, <2>3, DoomStays
<1>5. CASE ~Stays(s) /\ Owner(s) # q
  <2>1. \A t \in Sources : SameFor(q, t)
    BY <1>1, <1>3, <1>5 DEF SameFor, SourceMoves, IsGiven, IsTold, IsLeft, EndsAt
  <2>2. \A t \in Sources : Is(q, t, "leased") \/ Is(q, t, "closing") => NoBetter(t)
    BY <1>3, <1>5 DEF Is
  <2>3. reply'[q] = reply[q]
    BY <1>1, <1>5 DEF SourceMoves, IsGiven, IsTold, IsLeft, TypeOK, WorldTypeOK
  <2> QED
    BY <1>1, <1>2, <2>1, <2>2, <2>3, DoomStays
<1>6. CASE ~Stays(s) /\ Owner(s) = q
  <2>1. State(s) # "leased"
    BY <1>6 DEF SourceMoves, IsGiven, IsTold, IsLeft
  <2>2. Driven(q)' = Driven(q) /\ Driven(q) \in Sources /\ Sqlite(Driven(q))' = Sqlite(Driven(q))
    BY <1>1, <1>2, PlacesAreSources DEF Tie, Driven, Sqlite
  <2>3. CASE pc[q] = "drive"
    <3>1. Is(q, Driven(q), "leased")
      BY <1>1, <2>3, PlacesAreSources DEF Tie, HeldIsLeased
    <3>2. Sqlite(Driven(q)) /\ ~member[Driven(q)].txn
      BY <1>1, <2>3 DEF Doomed
    <3>3. ~member'[Driven(q)].txn
      BY <1>3, <2>1, <2>2, <3>1, <3>2 DEF Is, NoBetter
    <3> QED
      BY <1>2, <2>2, <2>3, <3>2, <3>3 DEF Doomed
  <2>4. CASE pc[q] = "finish" /\ reply[q] = "err"
    <3>1. ~Is(q, s, "begin") /\ ~Is(q, s, "closing")
      BY <1>1, <2>4 DEF Tie, ToldIsOver
    <3>2. reply' = reply
      BY <1>6, <3>1 DEF SourceMoves, IsGiven, IsTold, IsLeft, Is
    <3> QED
      BY <1>2, <2>4, <3>2 DEF Doomed
  <2>5. CASE /\ pc[q] = "finish"
             /\ Sqlite(Driven(q)) /\ Is(q, Driven(q), "closing")
             /\ gen[Driven(q)].failed \/ ~member[Driven(q)].txn
    <3>1. CASE s = Driven(q)
      <4>1. IsTold(s, "err")
        BY <1>6, <2>5, <3>1 DEF SourceMoves, Stays, IsGiven, IsTold, IsLeft, Is
      <4>2. reply'[q] = "err"
        BY <1>1, <1>6, <4>1 DEF IsTold, TypeOK, WorldTypeOK
      <4> QED
        BY <1>2, <2>5, <4>2 DEF Doomed
    <3>2. CASE s # Driven(q)
      <4>1. Is(q, Driven(q), "closing")'
        BY <1>3, <2>2, <2>5, <3>2 DEF Is
      <4>2. gen'[Driven(q)].failed \/ ~member'[Driven(q)].txn
        BY <1>3, <2>2, <2>5, <3>2 DEF NoBetter
      <4> QED
        BY <1>2, <2>2, <2>5, <4>1, <4>2 DEF Doomed
    <3> QED
      BY <3>1, <3>2
  <2>6. CASE pc[q] \in {"undo", "undoing"} \/ (pc[q] = "done" /\ answer[q] # "ok")
    BY <1>2, <2>6 DEF Doomed
  <2> QED
    BY <1>1, <2>3, <2>4, <2>5, <2>6 DEF Doomed
<1> QED
  BY <1>4, <1>5, <1>6

-----------------------------------------------------------------------------
(* The steps of SQLite generations.                                         *)

MemberType == [free : BOOLEAN, closed : BOOLEAN, poisoned : BOOLEAN, txn : BOOLEAN]

GenType ==
    [st : {"none", "begin", "leased", "cleanup", "ended"}, owner : Requests \cup {Nobody},
     awaited : BOOLEAN, check : BOOLEAN, failed : BOOLEAN, clean : BOOLEAN]

LEMMA GenerationIsSqlite ==
  ASSUME NEW s \in Sources, Local(s), gen[s].st # "none"
  PROVE  Sqlite(s) /\ lease[s] = NoLease
BY DEF Local, KindInv, NoGeneration

\* The generation ends, and tells who waits for it.
LEMMA EndingTells ==
  ASSUME TypeOK, NEW s \in Sources, Sqlite(s), kind' = kind,
         gen[s].st \in {"begin", "cleanup"}, NEW clean, NEW what \in {"ok", "err"},
         Ends(s, clean, what),
         gen[s].st = "cleanup" /\ (gen[s].failed \/ ~member[s].txn) /\ gen[s].awaited
           => what = "err"
  PROVE  SourceMoves(s)
<1>1. gen' = [gen EXCEPT ![s].st = "ended", ![s].clean = clean]
  BY DEF Ends
<1>2. gen'[s].st = "ended" /\ gen'[s].owner = gen[s].owner /\ Sqlite(s)' = Sqlite(s)
  BY <1>1 DEF TypeOK, SqliteTypeOK, Sqlite
<1>3. EndsAt(s)
  BY <1>2 DEF EndsAt, Owner, State
<1>4. CASE gen[s].awaited
  <2>1. reply' = [reply EXCEPT ![gen[s].owner] = what]
    BY <1>4 DEF Ends, Tells
  <2>2. IsTold(s, what)
    BY <1>3, <1>4, <2>1 DEF IsTold, Owner, State
  <2> QED
    BY <2>2 DEF SourceMoves
<1>5. CASE ~gen[s].awaited
  <2>1. reply' = reply
    BY <1>5 DEF Ends
  <2>2. IsLeft(s)
    BY <1>3, <1>5, <2>1 DEF IsLeft, Owner, State
  <2> QED
    BY <2>2 DEF SourceMoves
<1> QED
  BY <1>4, <1>5

LEMMA BeginMoves ==
  ASSUME TypeOK, NEW s \in Sources, Local(s), Begins(s)
  PROVE  TypeOK' /\ ByItself(s) /\ SourceMoves(s) /\ Local(s)'
<1>1. /\ gen[s].st = "begin" /\ worker' = worker /\ stream' = stream /\ conn' = conn
      /\ lease' = lease /\ UNCHANGED <<pc, step, opens, result, answer, obtained, torn, short>>
  BY DEF Begins, BeginStep, BeginOk, BeginRefused, BeginFaulty, pooledVars, reqVars, history
<1>2. Sqlite(s) /\ lease[s] = NoLease
  BY <1>1, GenerationIsSqlite
<1>3. /\ worker[s] = "free" /\ stream[s] = "none" /\ ~member[s].free
      /\ ~member[s].txn /\ ~member[s].poisoned /\ ~gen[s].failed
  BY <1>1 DEF Local, MemberInv, WorkerInv
<1>4. WorldTypeOK /\ SqliteTypeOK /\ PooledTypeOK
  BY DEF TypeOK
<1>5. CASE BeginOk(s)
  <2>1. /\ member' = [member EXCEPT ![s].txn = TRUE]
        /\ gen' = [gen EXCEPT ![s] = IF @.awaited THEN [@ EXCEPT !.st = "leased"]
                                                  ELSE Dropped(@)]
        /\ kind' = kind /\ drifted' = drifted /\ stopped' = stopped /\ events' = events
        /\ reply' = reply
    BY <1>5 DEF BeginOk, Calm, world
  <2>2. WorldTypeOK' /\ SqliteTypeOK' /\ PooledTypeOK'
    <3>1. WorldTypeOK' /\ PooledTypeOK'
      BY <1>1, <1>4, <2>1 DEF WorldTypeOK, PooledTypeOK
    <3>2. gen[s] \in GenType /\ [gen[s] EXCEPT !.st = "leased"] \in GenType /\ Dropped(gen[s]) \in GenType
      BY <1>4 DEF SqliteTypeOK, GenType, Dropped
    <3>3. gen' \in [Sources -> GenType]
      BY <1>4, <2>1, <3>2 DEF SqliteTypeOK, GenType
    <3>4. member' \in [Sources -> MemberType]
      BY <1>4, <2>1 DEF SqliteTypeOK, MemberType
    <3> QED
      BY <1>1, <1>4, <3>1, <3>3, <3>4 DEF SqliteTypeOK, GenType, MemberType
  <2>3. ByItself(s)
    BY <1>1, <1>4, <2>1 DEF ByItself, SqliteTypeOK
  <2>4. Local(s)'
    BY <1>1, <1>2, <1>3, <1>4, <2>1
    DEF Local, KindInv, MemberInv, WorkerInv, ConnInv, Sqlite, SqliteTypeOK, Dropped, NoLease
  <2>5. SourceMoves(s)
    <3>1. CASE gen[s].awaited
      <4>1. IsGiven(s)
        BY <1>1, <1>2, <1>4, <2>1, <3>1 DEF IsGiven, Owner, State, Sqlite, SqliteTypeOK
      <4> QED
        BY <4>1 DEF SourceMoves
    <3>2. CASE ~gen[s].awaited
      <4>1. Stays(s)
        BY <1>1, <1>2, <1>4, <2>1, <3>2
        DEF Stays, KeepsState, Owner, State, Sqlite, SqliteTypeOK, Dropped
      <4> QED
        BY <4>1 DEF SourceMoves
    <3> QED
      BY <3>1, <3>2
  <2> QED
    BY <1>1, <2>2, <2>3, <2>4, <2>5 DEF TypeOK
<1>6. ASSUME NEW clean \in BOOLEAN, Ends(s, clean, "err"), kind' = kind, drifted' = drifted,
             stopped' = stopped, events' \in 0 .. MaxEvents,
             \/ member' = member /\ clean
             \/ \E panics \in BOOLEAN :
                   ~clean /\ member' = [member EXCEPT ![s].txn = TRUE, ![s].poisoned = panics]
      PROVE  TypeOK' /\ ByItself(s) /\ SourceMoves(s) /\ Local(s)'
  <2>1. /\ gen' = [gen EXCEPT ![s].st = "ended", ![s].clean = clean]
        /\ reply' = [reply EXCEPT ![gen[s].owner] = "err"] \/ reply' = reply
    BY <1>6 DEF Ends, Tells
  <2>2. WorldTypeOK' /\ SqliteTypeOK' /\ PooledTypeOK'
    <3>0. reply' \in [Requests -> {"none", "ok", "err"}]
      BY <1>4, <2>1 DEF WorldTypeOK
    <3>1. WorldTypeOK'
      <4>1. kind' = kind /\ drifted' = drifted /\ stopped' = stopped /\ events' \in 0 .. MaxEvents
        BY <1>6
      <4> QED
        BY <1>4, <3>0, <4>1 DEF WorldTypeOK
    <3>4. PooledTypeOK'
      BY <1>1, <1>4 DEF PooledTypeOK
    <3>2. gen' \in [Sources -> GenType]
      BY <1>4, <2>1 DEF SqliteTypeOK, GenType
    <3>3. member' \in [Sources -> MemberType]
      <4>1. CASE member' = member
        BY <1>4, <4>1 DEF SqliteTypeOK, MemberType
      <4>2. CASE \E panics \in BOOLEAN :
                   member' = [member EXCEPT ![s].txn = TRUE, ![s].poisoned = panics]
        <5>1. PICK panics \in BOOLEAN :
                 member' = [member EXCEPT ![s].txn = TRUE, ![s].poisoned = panics]
          BY <4>2
        <5>2. [member[s] EXCEPT !.txn = TRUE, !.poisoned = panics] \in MemberType
          <6>1. member[s] \in MemberType /\ panics \in BOOLEAN
            BY <1>4, <5>1 DEF SqliteTypeOK, MemberType
          <6> QED
            BY <6>1 DEF MemberType
        <5>3. member' = [member EXCEPT ![s] = [member[s] EXCEPT !.txn = TRUE, !.poisoned = panics]]
          BY <1>4, <5>1 DEF SqliteTypeOK
        <5> QED
          BY <1>4, <5>2, <5>3 DEF SqliteTypeOK, MemberType
      <4> QED
        BY <1>6, <4>1, <4>2
    <3> QED
      BY <1>1, <1>4, <3>1, <3>2, <3>3, <3>4 DEF SqliteTypeOK, GenType, MemberType
  <2>3. ByItself(s)
    BY <1>1, <1>4, <1>6, <2>1 DEF ByItself, SqliteTypeOK
  <2>4. Local(s)'
    BY <1>1, <1>2, <1>3, <1>4, <1>6, <2>1
    DEF Local, KindInv, MemberInv, WorkerInv, ConnInv, Sqlite, SqliteTypeOK, NoLease
  <2>5. SourceMoves(s)
    BY <1>1, <1>2, <1>4, <1>6, EndingTells
  <2> QED
    BY <1>1, <2>2, <2>3, <2>4, <2>5 DEF TypeOK
<1>7. CASE BeginRefused(s)
  BY <1>4, <1>6, <1>7 DEF BeginRefused, Calm, world, WorldTypeOK
<1>8. CASE BeginFaulty(s)
  <2>1. kind' = kind /\ drifted' = drifted /\ stopped' = stopped /\ events' \in 0 .. MaxEvents
    BY <1>4, <1>8, SourceAssumption DEF BeginFaulty, Happens, Counted, WorldTypeOK
  <2> QED
    BY <1>6, <1>8, <2>1 DEF BeginFaulty
<1> QED
  BY <1>5, <1>7, <1>8 DEF Begins, BeginStep

\* Workers run and end without the request's noticing.
LEMMA WorkerMoves ==
  ASSUME TypeOK, NEW s \in Sources, Local(s), WorkerRuns(s)
  PROVE  TypeOK' /\ ByItself(s) /\ SourceMoves(s) /\ Local(s)'
<1>1. /\ worker[s] # "free" /\ reply' = reply
      /\ conn' = conn /\ lease' = lease
      /\ UNCHANGED <<pc, step, opens, result, answer, obtained, torn, short>>
  BY DEF WorkerRuns, WorkerStep, WorkerLocks, WorkerEnds, WorkerInterrupted, WorkerFails,
         WorkerPanics, OperationDrops, WorkerGoes, pooledVars, reqVars, history
<1>2. WorldTypeOK /\ SqliteTypeOK /\ PooledTypeOK
  BY DEF TypeOK
<1>3. /\ gen[s].st \in {"leased", "cleanup", "ended"}
      /\ gen[s].st = "ended" => worker[s] = "left"
  BY <1>1, <1>2 DEF Local, WorkerInv, SqliteTypeOK
<1>4. Sqlite(s) /\ lease[s] = NoLease
  BY <1>3, GenerationIsSqlite
<1>5. /\ kind' = kind /\ drifted' = drifted /\ stopped' = stopped
      /\ events' = events \/ (events < MaxEvents /\ events' = events + 1)
  BY DEF WorkerRuns, WorkerStep, WorkerLocks, WorkerEnds, WorkerInterrupted, WorkerFails,
         WorkerPanics, OperationDrops, WorkerGoes, Calm, Happens, Counted, world
<1>6. WorldTypeOK' /\ PooledTypeOK'
  BY <1>1, <1>2, <1>5, SourceAssumption DEF WorldTypeOK, PooledTypeOK
\* The worker, its stream, and what they leave of member and generation.
<1>7. /\ \E w \in {"free", "locked", "unlocked", "panicked", "left"} :
            worker' = [worker EXCEPT ![s] = w]
      /\ \/ stream' = stream
         \/ \E o \in {"eof", "err", "cut"} :
               stream' = [stream EXCEPT ![s] = IF @ = "open" THEN o ELSE @]
      /\ \/ member' = member
         \/ \E lost \in BOOLEAN : member' = [member EXCEPT ![s].txn = @ /\ ~lost]
         \/ member' = [member EXCEPT ![s].poisoned = TRUE]
      /\ \/ gen' = gen
         \/ gen' = [gen EXCEPT ![s].failed = @ \/ worker[s] = "panicked"]
  BY DEF WorkerRuns, WorkerStep, WorkerLocks, WorkerEnds, WorkerInterrupted, WorkerFails,
         WorkerPanics, OperationDrops, WorkerGoes, WorkerExits
<1>8. member' \in [Sources -> MemberType]
  <2>1. ASSUME NEW lost \in BOOLEAN, member' = [member EXCEPT ![s].txn = @ /\ ~lost]
        PROVE  member' \in [Sources -> MemberType]
    <3>1. PICK b \in BOOLEAN : b = (member[s].txn /\ ~lost)
      BY Zenon
    <3>2. member' = [member EXCEPT ![s].txn = b]
      BY <2>1, <3>1, Zenon
    <3> QED
      BY <1>2, <3>2 DEF SqliteTypeOK, MemberType
  <2>2. CASE member' = member
    BY <1>2, <2>2 DEF SqliteTypeOK, MemberType
  <2>3. CASE member' = [member EXCEPT ![s].poisoned = TRUE]
    BY <1>2, <2>3 DEF SqliteTypeOK, MemberType
  <2> QED
    BY <1>7, <2>1, <2>2, <2>3
<1>9. gen' \in [Sources -> GenType]
  <2>1. ASSUME gen' = [gen EXCEPT ![s].failed = @ \/ worker[s] = "panicked"]
        PROVE  gen' \in [Sources -> GenType]
    <3>1. PICK b \in BOOLEAN : b = (gen[s].failed \/ worker[s] = "panicked")
      BY Zenon
    <3>2. gen' = [gen EXCEPT ![s].failed = b]
      BY <2>1, <3>1, Zenon
    <3> QED
      BY <1>2, <3>2 DEF SqliteTypeOK, GenType
  <2> QED
    BY <1>2, <1>7, <2>1 DEF SqliteTypeOK, GenType
<1>10. SqliteTypeOK'
  <2>1. worker' \in [Sources -> {"free", "queued", "locked", "unlocked", "panicked", "left"}]
    BY <1>2, <1>7 DEF SqliteTypeOK
  <2>2. stream' \in [Sources -> {"none", "open", "eof", "err", "cut"}]
    BY <1>2, <1>7 DEF SqliteTypeOK
  <2> QED
    BY <1>8, <1>9, <2>1, <2>2 DEF SqliteTypeOK, MemberType, GenType
<1>11. ByItself(s)
  BY <1>1, <1>2, <1>5, <1>7 DEF ByItself, SqliteTypeOK
<1>12. /\ gen'[s].st = gen[s].st /\ gen'[s].owner = gen[s].owner
       /\ gen'[s].awaited = gen[s].awaited /\ gen'[s].clean = gen[s].clean
       /\ gen[s].failed => gen'[s].failed
  BY <1>2, <1>7 DEF SqliteTypeOK
<1>13. /\ member'[s].free = member[s].free /\ member'[s].closed = member[s].closed
       /\ member'[s].txn => member[s].txn
       /\ gen[s].st = "ended" => member' = member
  <2>1. gen[s].st = "ended" => member' = member
    BY <1>3 DEF WorkerRuns, WorkerStep, WorkerLocks, WorkerEnds, WorkerInterrupted,
         WorkerFails, WorkerPanics, OperationDrops, WorkerGoes
  <2> QED
    BY <1>2, <1>7, <2>1 DEF SqliteTypeOK
<1>14. SourceMoves(s)
  <2>1. Stays(s)
    BY <1>1, <1>4, <1>5, <1>12, <1>13 DEF Stays, KeepsState, NoBetter, Owner, State, Sqlite
  <2> QED
    BY <2>1 DEF SourceMoves
<1>15. MemberInv(s)'
  BY <1>3, <1>12, <1>13 DEF Local, MemberInv
<1>16. WorkerInv(s)'
  <2>1. /\ gen[s].st = "ended" => worker'[s] = "free" /\ stream' = stream
        /\ worker[s] = "panicked" /\ worker'[s] # "panicked" => gen'[s].failed
        /\ stream'[s] = "cut" /\ stream[s] # "cut" => worker'[s] = "panicked"
        /\ gen[s].st # "leased" => stream[s] = "none"
        /\ stream[s] = "none" <=> stream'[s] = "none"
    BY <1>2, <1>3
    DEF WorkerRuns, WorkerStep, WorkerLocks, WorkerEnds, WorkerInterrupted, WorkerFails,
        WorkerPanics, OperationDrops, WorkerGoes, WorkerExits, SqliteTypeOK, Local, WorkerInv
  <2> QED
    BY <1>1, <1>2, <1>3, <1>12, <2>1 DEF Local, WorkerInv, SqliteTypeOK
<1>17. KindInv(s)' /\ ConnInv(s)'
  BY <1>1, <1>4, <1>5 DEF Local, KindInv, ConnInv, Sqlite
<1> QED
  BY <1>1, <1>6, <1>10, <1>11, <1>14, <1>15, <1>16, <1>17 DEF TypeOK, Local

LEMMA CleanupMoves ==
  ASSUME TypeOK, NEW s \in Sources, Local(s), CleansUp(s)
  PROVE  TypeOK' /\ ByItself(s) /\ SourceMoves(s) /\ Local(s)'
<1>1. /\ gen[s].st = "cleanup" /\ ~Active(s) /\ worker' = worker /\ stream' = stream
      /\ conn' = conn /\ lease' = lease
      /\ UNCHANGED <<pc, step, opens, result, answer, obtained, torn, short>>
  BY DEF CleansUp, Cleanup, pooledVars, reqVars, history
<1>2. WorldTypeOK /\ SqliteTypeOK /\ PooledTypeOK
  BY DEF TypeOK
<1>3. /\ worker[s] \in {"free", "left"} /\ stream[s] = "none" /\ ~member[s].free
      /\ Sqlite(s) /\ lease[s] = NoLease
  BY <1>1, <1>2, GenerationIsSqlite DEF Active, SqliteTypeOK, Local, WorkerInv, MemberInv
<1>4. /\ kind' = kind /\ drifted' = drifted /\ stopped' = stopped
      /\ events' = events \/ (events < MaxEvents /\ events' = events + 1)
  BY DEF CleansUp, Cleanup, CleanupRefused, CleanupRollsBack, CleanupFails,
         Calm, Happens, Counted, world
\* Clean is what has been rolled back, and only if no worker has failed.
<1>5. \E clean \in BOOLEAN, what \in {"ok", "err"}, b \in BOOLEAN :
         /\ Ends(s, clean, what)
         /\ \/ member' = member
            \/ member' = [member EXCEPT ![s].txn = FALSE]
            \/ member' = [member EXCEPT ![s].poisoned = b]
         /\ clean => ~member'[s].txn /\ ~member'[s].poisoned
         /\ gen[s].awaited /\ (gen[s].failed \/ ~member[s].txn) => what = "err"
  <2>1. CASE CleanupRefused(s)
    BY <2>1 DEF CleanupRefused
  <2>2. CASE CleanupRollsBack(s)
    <3>1. /\ ~member[s].poisoned /\ member' = [member EXCEPT ![s].txn = FALSE]
          /\ ~member'[s].txn /\ ~member'[s].poisoned
      BY <1>2, <2>2 DEF CleanupRollsBack, SqliteTypeOK
    <3>2. CASE ~member[s].txn \/ gen[s].failed
      <4>1. Ends(s, FALSE, "err")
        BY <2>2, <3>2 DEF CleanupRollsBack
      <4> QED
        BY <3>1, <4>1
    <3>3. CASE ~(~member[s].txn \/ gen[s].failed)
      <4>1. PICK v \in Validations(s) : Ends(s, TRUE, v)
        BY <2>2, <3>3 DEF CleanupRollsBack
      <4>2. v \in {"ok", "err"}
        BY <4>1 DEF Validations
      <4> QED
        BY <3>1, <3>3, <4>1, <4>2
    <3> QED
      BY <3>2, <3>3
  <2>3. CASE CleanupFails(s)
    <3>1. PICK b \in BOOLEAN : member' = [member EXCEPT ![s].poisoned = b]
      BY <2>3 DEF CleanupFails
    <3>2. Ends(s, FALSE, "err")
      BY <2>3 DEF CleanupFails
    <3> QED
      BY <3>1, <3>2
  <2> QED
    BY <2>1, <2>2, <2>3 DEF CleansUp, Cleanup
<1>6. PICK clean \in BOOLEAN, what \in {"ok", "err"}, b \in BOOLEAN :
         /\ Ends(s, clean, what)
         /\ \/ member' = member
            \/ member' = [member EXCEPT ![s].txn = FALSE]
            \/ member' = [member EXCEPT ![s].poisoned = b]
         /\ clean => ~member'[s].txn /\ ~member'[s].poisoned
         /\ gen[s].awaited /\ (gen[s].failed \/ ~member[s].txn) => what = "err"
  BY <1>5
<1>7. /\ gen' = [gen EXCEPT ![s].st = "ended", ![s].clean = clean]
      /\ reply' = [reply EXCEPT ![gen[s].owner] = what] \/ reply' = reply
  BY <1>6 DEF Ends, Tells
<1>8. WorldTypeOK' /\ PooledTypeOK'
  <2>1. reply' \in [Requests -> {"none", "ok", "err"}]
    BY <1>2, <1>7 DEF WorldTypeOK
  <2> QED
    BY <1>1, <1>2, <1>4, <2>1, SourceAssumption DEF WorldTypeOK, PooledTypeOK
<1>9. SqliteTypeOK'
  <2>1. gen' \in [Sources -> GenType]
    BY <1>2, <1>7 DEF SqliteTypeOK, GenType
  <2>2. member' \in [Sources -> MemberType]
    <3>1. member \in [Sources -> MemberType]
      BY <1>2 DEF SqliteTypeOK, MemberType
    <3>2. CASE member' = [member EXCEPT ![s].txn = FALSE]
      BY <3>1, <3>2 DEF MemberType
    <3>3. CASE member' = [member EXCEPT ![s].poisoned = b]
      BY <3>1, <3>3 DEF MemberType
    <3> QED
      BY <1>6, <3>1, <3>2, <3>3
  <2> QED
    BY <1>1, <1>2, <2>1, <2>2 DEF SqliteTypeOK, MemberType, GenType
<1>10. ByItself(s)
  BY <1>1, <1>2, <1>4, <1>6, <1>7 DEF ByItself, SqliteTypeOK
<1>11. SourceMoves(s)
  BY <1>1, <1>3, <1>4, <1>6, EndingTells
<1>12. Local(s)'
  <2>1. /\ gen'[s].st = "ended" /\ gen'[s].clean = clean
        /\ member'[s].free = member[s].free /\ lease'[s] = NoLease
    BY <1>1, <1>2, <1>3, <1>6, <1>7 DEF SqliteTypeOK
  <2> QED
    BY <1>1, <1>3, <1>4, <1>6, <2>1
    DEF Local, KindInv, MemberInv, WorkerInv, ConnInv, Sqlite, NoLease
<1> QED
  BY <1>1, <1>8, <1>9, <1>10, <1>11, <1>12 DEF TypeOK

LEMMA ReleaseMoves ==
  ASSUME TypeOK, NEW s \in Sources, Local(s), LastGoes(s)
  PROVE  TypeOK' /\ ByItself(s) /\ SourceMoves(s) /\ Local(s)'
<1>1. /\ gen[s].st = "ended" /\ worker[s] = "free"
      /\ gen' = [gen EXCEPT ![s] = NoGeneration]
      /\ member' = [member EXCEPT ![s].free = TRUE, ![s].closed = ~gen[s].clean]
      /\ kind' = kind /\ drifted' = drifted /\ stopped' = stopped /\ events' = events
      /\ reply' = reply /\ worker' = worker /\ stream' = stream /\ conn' = conn /\ lease' = lease
      /\ UNCHANGED <<pc, step, opens, result, answer, obtained, torn, short>>
  BY DEF LastGoes, Release, Gone, Calm, world, pooledVars, reqVars, history
<1>2. WorldTypeOK /\ SqliteTypeOK /\ PooledTypeOK
  BY DEF TypeOK
<1>3. Sqlite(s) /\ lease[s] = NoLease
  BY <1>1, GenerationIsSqlite
<1>4. PICK b \in BOOLEAN : b = ~gen[s].clean
  BY Zenon
<1>5. member' = [member EXCEPT ![s].free = TRUE, ![s].closed = b]
  BY <1>1, <1>4, Zenon
<1>6. WorldTypeOK' /\ PooledTypeOK'
  BY <1>1, <1>2 DEF WorldTypeOK, PooledTypeOK
<1>7. SqliteTypeOK'
  <2>1. gen' \in [Sources -> GenType]
    BY <1>1, <1>2 DEF SqliteTypeOK, GenType, NoGeneration
  <2>2. member' \in [Sources -> MemberType]
    BY <1>2, <1>5 DEF SqliteTypeOK, MemberType
  <2> QED
    BY <1>1, <1>2, <2>1, <2>2 DEF SqliteTypeOK, MemberType, GenType
<1>8. ByItself(s)
  BY <1>1, <1>2 DEF ByItself, SqliteTypeOK
<1>9. /\ gen'[s] = NoGeneration /\ member'[s].free /\ (member'[s].closed \/ gen[s].clean)
      /\ member'[s].txn = member[s].txn /\ member'[s].poisoned = member[s].poisoned
  BY <1>1, <1>2, <1>4, <1>5 DEF SqliteTypeOK
<1>10. SourceMoves(s)
  <2>1. IsLeft(s)
    BY <1>1, <1>3, <1>9 DEF IsLeft, EndsAt, Owner, State, Sqlite, NoGeneration
  <2> QED
    BY <2>1 DEF SourceMoves
<1>11. Local(s)'
  BY <1>1, <1>3, <1>9
  DEF Local, KindInv, MemberInv, WorkerInv, ConnInv, Sqlite, NoLease, NoGeneration
<1> QED
  BY <1>1, <1>6, <1>7, <1>8, <1>10, <1>11 DEF TypeOK

-----------------------------------------------------------------------------
(* The steps of pooled generations.                                         *)

ConnType  == [free : BOOLEAN, txn : BOOLEAN, busy : BOOLEAN, cancel : {"none", "sent", "over"}]
LeaseType == [st : {"none", "setup", "leased", "check", "rollback", "discard"},
              owner : Requests \cup {Nobody}, valid : BOOLEAN]

\* What such a step does to the slot and the lease of its source.
PooledEffect(s) ==
    /\ conn' \in [Sources -> ConnType] /\ lease' \in [Sources -> LeaseType]
    /\ \A t \in Sources \ {s} : conn'[t] = conn[t] /\ lease'[t] = lease[t]
    /\ ConnInv(s)' /\ SourceMoves(s)

PooledStep(s) ==
    LeaseRuns(s) \/ LeaseFails(s) \/ ServerRuns(s) \/ CancelRuns(s) \/ Closes(s)

LEMMA PooledStepIsPooled ==
  ASSUME TypeOK, NEW s \in Sources, Local(s), PooledStep(s)
  PROVE  /\ ~Sqlite(s) /\ gen[s] = NoGeneration /\ lease[s].st # "none" /\ ~conn[s].free
         /\ lease[s] \in LeaseType /\ conn[s] \in ConnType
         /\ gen' = gen /\ member' = member /\ worker' = worker /\ stream' = stream
         /\ UNCHANGED <<pc, step, opens, result, answer, obtained, torn, short>>
         /\ kind' = kind /\ drifted' = drifted /\ stopped' = stopped /\ events' \in 0 .. MaxEvents
<1>1. WorldTypeOK /\ PooledTypeOK
  BY DEF TypeOK
<1>2. lease[s].st # "none"
  <2>1. CASE LeaseRuns(s) \/ LeaseFails(s) \/ ServerBegins(s) \/ CancelSent(s) \/ Closes(s)
    BY <2>1 DEF LeaseRuns, LeaseFails, Closes, LeaseStep, LeaseFailure, Observed, Mismatched,
                PgChecks, PgRollsBack, MysqlCloses, MysqlCloseCut, SetupFails, PgCheckFails,
                PgRollbackFails, MysqlCloseFails, ServerBegins, CancelSent, Close
  <2>2. CASE Answers(s) \/ CancelArrives(s)
    BY <2>2 DEF Answers, CancelArrives, Local, ConnInv, Fresh
  <2> QED
    BY <2>1, <2>2 DEF PooledStep, ServerRuns, ServerStep, CancelRuns, CancelStep
<1>3. ~Sqlite(s) /\ gen[s] = NoGeneration /\ ~conn[s].free
  BY <1>2 DEF Local, KindInv, ConnInv, NoLease
<1>4. /\ gen' = gen /\ member' = member /\ worker' = worker /\ stream' = stream
      /\ UNCHANGED <<pc, step, opens, result, answer, obtained, torn, short>>
  BY DEF PooledStep, LeaseRuns, LeaseFails, ServerRuns, CancelRuns, Closes, sqliteVars, reqVars,
         history
<1>5. /\ kind' = kind /\ drifted' = drifted /\ stopped' = stopped
      /\ events' = events \/ (events < MaxEvents /\ events' = events + 1)
  BY DEF PooledStep, LeaseRuns, LeaseFails, ServerRuns, CancelRuns, Closes,
         LeaseStep, LeaseFailure, Observed, Mismatched, PgChecks, PgRollsBack, MysqlCloses,
         MysqlCloseCut, SetupFails, PgCheckFails, PgRollbackFails, MysqlCloseFails,
         ServerStep, ServerBegins, Answers, CancelStep, CancelSent, CancelArrives, Close,
         Calm, Happens, Counted, world
<1> QED
  BY <1>1, <1>2, <1>3, <1>4, <1>5, SourceAssumption
  DEF WorldTypeOK, PooledTypeOK, LeaseType, ConnType

LEMMA PooledMoves ==
  ASSUME TypeOK, NEW s \in Sources, Local(s), PooledStep(s), PooledEffect(s),
         reply' \in [Requests -> {"none", "ok", "err"}]
  PROVE  TypeOK' /\ ByItself(s) /\ SourceMoves(s) /\ Local(s)'
<1>1. /\ ~Sqlite(s) /\ gen[s] = NoGeneration
      /\ gen' = gen /\ member' = member /\ worker' = worker /\ stream' = stream
      /\ UNCHANGED <<pc, step, opens, result, answer, obtained, torn, short>>
      /\ kind' = kind /\ drifted' = drifted /\ stopped' = stopped /\ events' \in 0 .. MaxEvents
  BY PooledStepIsPooled
<1>2. WorldTypeOK /\ SqliteTypeOK /\ PooledTypeOK
  BY DEF TypeOK
<1>3. WorldTypeOK' /\ SqliteTypeOK' /\ PooledTypeOK'
  BY <1>1, <1>2 DEF WorldTypeOK, SqliteTypeOK, PooledTypeOK, PooledEffect, ConnType, LeaseType
<1>4. ByItself(s)
  BY <1>1 DEF ByItself, PooledEffect
<1>5. KindInv(s)' /\ MemberInv(s)' /\ WorkerInv(s)'
  BY <1>1 DEF Local, KindInv, MemberInv, WorkerInv, Sqlite
<1> QED
  BY <1>1, <1>3, <1>4, <1>5 DEF TypeOK, Local, PooledEffect

\* The lease takes another state, with its owner and its slot as they are.
BecomesFor(s, st) ==
    /\ \E l \in LeaseType :
          lease' = [lease EXCEPT ![s] = l] /\ l.st = st /\ l.owner = lease[s].owner
    /\ conn' = conn \/ conn' = [conn EXCEPT ![s].busy = FALSE]

LEMMA LeaseTakesState ==
  ASSUME TypeOK, NEW s \in Sources, Local(s), PooledStep(s),
         NEW st \in {"leased", "rollback", "discard"}, BecomesFor(s, st),
         lease[s].st \in {"setup", "check", "rollback"}, st = "leased" => conn[s].txn
  PROVE  /\ conn' \in [Sources -> ConnType] /\ lease' \in [Sources -> LeaseType]
         /\ \A t \in Sources \ {s} : conn'[t] = conn[t] /\ lease'[t] = lease[t]
         /\ ConnInv(s)'
         /\ ~Sqlite(s) /\ ~Sqlite(s)' /\ lease'[s].st = st /\ lease'[s].owner = lease[s].owner
<1>1. PICK l \in LeaseType :
         lease' = [lease EXCEPT ![s] = l] /\ l.st = st /\ l.owner = lease[s].owner
  BY DEF BecomesFor
<1>2. conn \in [Sources -> ConnType] /\ lease \in [Sources -> LeaseType]
  BY DEF TypeOK, PooledTypeOK, ConnType, LeaseType
<1>3. /\ lease' \in [Sources -> LeaseType] /\ lease'[s] = l
      /\ \A t \in Sources \ {s} : lease'[t] = lease[t]
  BY <1>1, <1>2
<1>4. conn' \in [Sources -> ConnType]
  <2>1. CASE conn' = conn
    BY <1>2, <2>1
  <2>2. CASE conn' = [conn EXCEPT ![s].busy = FALSE]
    BY <1>2, <2>2 DEF ConnType
  <2> QED
    BY <2>1, <2>2 DEF BecomesFor
<1>5. /\ \A t \in Sources \ {s} : conn'[t] = conn[t]
      /\ conn'[s].txn = conn[s].txn /\ conn'[s].free = conn[s].free
      /\ conn'[s].cancel = conn[s].cancel
  BY <1>2 DEF BecomesFor, ConnType
<1>6. ~conn[s].free /\ conn[s].cancel = "none" /\ ~Sqlite(s) /\ kind' = kind
  BY PooledStepIsPooled DEF Local, ConnInv
<1>7. ConnInv(s)'
  BY <1>1, <1>3, <1>5, <1>6 DEF ConnInv
<1> QED
  BY <1>1, <1>3, <1>4, <1>5, <1>6, <1>7 DEF Sqlite

\* The lease ends dirty, and its owner hears of an error.
LEMMA LeaseSpoiled ==
  ASSUME TypeOK, NEW s \in Sources, Local(s), PooledStep(s),
         BecomesFor(s, "discard"), Tells(lease[s].owner, "err"),
         lease[s].st \in {"setup", "check", "rollback"}
  PROVE  PooledEffect(s) /\ reply' \in [Requests -> {"none", "ok", "err"}]
<1>1. /\ conn' \in [Sources -> ConnType] /\ lease' \in [Sources -> LeaseType]
      /\ \A t \in Sources \ {s} : conn'[t] = conn[t] /\ lease'[t] = lease[t]
      /\ ConnInv(s)'
      /\ ~Sqlite(s) /\ ~Sqlite(s)' /\ lease'[s].st = "discard" /\ lease'[s].owner = lease[s].owner
  BY LeaseTakesState
<1>2. IsTold(s, "err")
  BY <1>1 DEF IsTold, EndsAt, Owner, State, Tells
<1>3. reply' \in [Requests -> {"none", "ok", "err"}]
  BY DEF Tells, TypeOK, WorldTypeOK
<1> QED
  BY <1>1, <1>2, <1>3 DEF PooledEffect, SourceMoves

\* The lease is given, or on its way back.
LEMMA LeaseGoesOn ==
  ASSUME TypeOK, NEW s \in Sources, Local(s), PooledStep(s),
         NEW st \in {"leased", "rollback"}, BecomesFor(s, st), reply' = reply,
         \/ lease[s].st = "setup" /\ conn[s].txn
         \/ lease[s].st = "check" /\ st = "rollback"
  PROVE  PooledEffect(s) /\ reply' \in [Requests -> {"none", "ok", "err"}]
<1>1. /\ conn' \in [Sources -> ConnType] /\ lease' \in [Sources -> LeaseType]
      /\ \A t \in Sources \ {s} : conn'[t] = conn[t] /\ lease'[t] = lease[t]
      /\ ConnInv(s)'
      /\ ~Sqlite(s) /\ ~Sqlite(s)' /\ lease'[s].st = st /\ lease'[s].owner = lease[s].owner
  BY LeaseTakesState
<1>2. CASE lease[s].st = "setup"
  <2>1. IsGiven(s)
    BY <1>1, <1>2 DEF IsGiven, Owner, State
  <2> QED
    BY <1>1, <2>1 DEF PooledEffect, SourceMoves, TypeOK, WorldTypeOK
<1>3. CASE lease[s].st = "check"
  <2>1. gen' = gen /\ member' = member
    BY PooledStepIsPooled
  <2>2. Stays(s)
    BY <1>1, <1>3, <2>1 DEF Stays, KeepsState, NoBetter, Owner, State
  <2> QED
    BY <1>1, <2>2 DEF PooledEffect, SourceMoves, TypeOK, WorldTypeOK
<1> QED
  BY <1>2, <1>3

\* The connection is proved clean, and its owner told.
LEMMA LeaseRecycled ==
  ASSUME TypeOK, NEW s \in Sources, Local(s), PooledStep(s), Recycled(s),
         NEW what \in {"ok", "err"}, Tells(lease[s].owner, what),
         lease[s].st \in {"check", "rollback"}, ~conn[s].busy
  PROVE  PooledEffect(s) /\ reply' \in [Requests -> {"none", "ok", "err"}]
<1>1. conn \in [Sources -> ConnType] /\ lease \in [Sources -> LeaseType]
  BY DEF TypeOK, PooledTypeOK, ConnType, LeaseType
<1>2. conn' \in [Sources -> ConnType]
  BY <1>1 DEF Recycled, ConnType
<1>3. lease' \in [Sources -> LeaseType] /\ lease'[s] = NoLease
  BY <1>1 DEF Recycled, LeaseType, NoLease
<1>4. \A t \in Sources \ {s} : conn'[t] = conn[t] /\ lease'[t] = lease[t]
  BY <1>1 DEF Recycled
<1>5. conn'[s] = Fresh
  <2>1. conn[s].cancel = "none"
    BY DEF Local, ConnInv
  <2> QED
    BY <1>1, <2>1 DEF Recycled, ConnType, Fresh
<1>6. ConnInv(s)'
  BY <1>3, <1>5 DEF ConnInv, NoLease, Fresh
<1>7. ~Sqlite(s) /\ ~Sqlite(s)'
  BY PooledStepIsPooled DEF Sqlite
<1>8. IsTold(s, what)
  BY <1>3, <1>7 DEF IsTold, EndsAt, Owner, State, Tells, NoLease
<1>9. reply' \in [Requests -> {"none", "ok", "err"}]
  BY DEF Tells, TypeOK, WorldTypeOK
<1> QED
  BY <1>2, <1>3, <1>4, <1>6, <1>8, <1>9 DEF PooledEffect, SourceMoves

\* Discarded and rolled back leases.
LEMMA LeaseUpdates ==
  ASSUME TypeOK, NEW s \in Sources
  PROVE  /\ Discarded(lease[s]) \in LeaseType /\ Discarded(lease[s]).st = "discard"
         /\ Discarded(lease[s]).owner = lease[s].owner
         /\ \A valid \in BOOLEAN :
               /\ RolledBack(lease[s], valid) \in LeaseType
               /\ RolledBack(lease[s], valid).st = "rollback"
               /\ RolledBack(lease[s], valid).owner = lease[s].owner
         /\ [lease[s] EXCEPT !.st = "leased"] \in LeaseType
         /\ [lease[s] EXCEPT !.st = "leased"].st = "leased"
         /\ [lease[s] EXCEPT !.st = "leased"].owner = lease[s].owner
<1>1. lease[s] \in LeaseType
  BY DEF TypeOK, PooledTypeOK, LeaseType
<1> QED
  BY <1>1 DEF LeaseType, Discarded, RolledBack

LEMMA RefusedEffect ==
  ASSUME TypeOK, NEW s \in Sources, Local(s), PooledStep(s), Refused(s),
         lease[s].st = "setup", conn[s].txn,
         conn' = conn \/ conn' = [conn EXCEPT ![s].busy = FALSE]
  PROVE  PooledEffect(s) /\ reply' \in [Requests -> {"none", "ok", "err"}]
<1>1. CASE kind[s] = "postgres"
  <2>1. lease' = [lease EXCEPT ![s] = RolledBack(lease[s], FALSE)] /\ reply' = reply
    BY <1>1 DEF Refused
  <2>2. BecomesFor(s, "rollback")
    BY <2>1, LeaseUpdates DEF BecomesFor
  <2> QED
    BY <2>1, <2>2, LeaseGoesOn
<1>2. CASE kind[s] # "postgres"
  <2>1. lease' = [lease EXCEPT ![s] = Discarded(lease[s])] /\ Tells(lease[s].owner, "err")
    BY <1>2 DEF Refused
  <2>2. BecomesFor(s, "discard")
    BY <2>1, LeaseUpdates DEF BecomesFor
  <2> QED
    BY <2>1, <2>2, LeaseSpoiled
<1> QED
  BY <1>1, <1>2

LEMMA SpoiledEffect ==
  ASSUME TypeOK, NEW s \in Sources, Local(s), PooledStep(s), Spoiled(s),
         lease[s].st \in {"check", "rollback"}
  PROVE  PooledEffect(s) /\ reply' \in [Requests -> {"none", "ok", "err"}]
<1>1. lease' = [lease EXCEPT ![s] = Discarded(lease[s])] /\ Tells(lease[s].owner, "err")
  BY DEF Spoiled
<1>2. BecomesFor(s, "discard")
  BY <1>1, LeaseUpdates DEF BecomesFor, Spoiled
<1> QED
  BY <1>1, <1>2, LeaseSpoiled

LEMMA LeaseEffects ==
  ASSUME TypeOK, NEW s \in Sources, Local(s), LeaseRuns(s) \/ LeaseFails(s)
  PROVE  PooledEffect(s) /\ reply' \in [Requests -> {"none", "ok", "err"}]
<1>1. PooledStep(s)
  BY DEF PooledStep
<1>2. CASE Observed(s)
  <2>1. lease' = [lease EXCEPT ![s] = [lease[s] EXCEPT !.st = "leased"]]
    BY <1>2 DEF Observed, TypeOK, PooledTypeOK
  <2>2. BecomesFor(s, "leased")
    BY <1>2, <2>1, LeaseUpdates DEF Observed, BecomesFor
  <2> QED
    BY <1>1, <1>2, <2>2, LeaseGoesOn DEF Observed
<1>3. CASE Mismatched(s)
  BY <1>1, <1>3, RefusedEffect DEF Mismatched
<1>4. CASE PgChecks(s)
  <2>1. PICK valid \in BOOLEAN : lease' = [lease EXCEPT ![s] = RolledBack(lease[s], valid)]
    BY <1>4 DEF PgChecks
  <2>2. BecomesFor(s, "rollback")
    BY <1>4, <2>1, LeaseUpdates DEF PgChecks, BecomesFor
  <2> QED
    BY <1>1, <1>4, <2>2, LeaseGoesOn DEF PgChecks
<1>5. CASE PgRollsBack(s)
  BY <1>1, <1>5, LeaseRecycled DEF PgRollsBack
<1>6. CASE MysqlCloses(s)
  BY <1>1, <1>6, LeaseRecycled DEF MysqlCloses
<1>7. CASE MysqlCloseCut(s) \/ PgRollbackFails(s) \/ MysqlCloseFails(s)
  BY <1>1, <1>7, SpoiledEffect DEF MysqlCloseCut, PgRollbackFails, MysqlCloseFails
<1>8. CASE SetupFails(s)
  <2>1. CASE lease' = [lease EXCEPT ![s] = Discarded(@)] /\ Tells(lease[s].owner, "err")
    <3>1. BecomesFor(s, "discard")
      BY <1>8, <2>1, LeaseUpdates DEF SetupFails, BecomesFor
    <3> QED
      BY <1>1, <1>8, <2>1, <3>1, LeaseSpoiled DEF SetupFails
  <2>2. CASE conn[s].txn /\ Refused(s)
    BY <1>1, <1>8, <2>2, RefusedEffect DEF SetupFails
  <2> QED
    BY <1>8, <2>1, <2>2 DEF SetupFails
<1>9. CASE PgCheckFails(s)
  <2>1. lease' = [lease EXCEPT ![s] = RolledBack(lease[s], FALSE)]
    BY <1>9 DEF PgCheckFails
  <2>2. BecomesFor(s, "rollback")
    BY <1>9, <2>1, LeaseUpdates DEF PgCheckFails, BecomesFor
  <2> QED
    BY <1>1, <1>9, <2>2, LeaseGoesOn DEF PgCheckFails
<1> QED
  BY <1>2, <1>3, <1>4, <1>5, <1>6, <1>7, <1>8, <1>9
  DEF LeaseRuns, LeaseFails, LeaseStep, LeaseFailure

\* The server and the task that discards.
LEMMA SessionEffects ==
  ASSUME TypeOK, NEW s \in Sources, Local(s), ServerRuns(s) \/ CancelRuns(s) \/ Closes(s)
  PROVE  PooledEffect(s) /\ reply' = reply
<1>1. PooledStep(s)
  BY DEF PooledStep
<1>2. /\ ~Sqlite(s) /\ ~Sqlite(s)' /\ lease[s].st # "none" /\ ~conn[s].free
      /\ gen' = gen /\ member' = member
  BY <1>1, PooledStepIsPooled DEF Sqlite
<1>3. conn \in [Sources -> ConnType] /\ lease \in [Sources -> LeaseType]
  BY DEF TypeOK, PooledTypeOK, ConnType, LeaseType
<1>4. CASE Closes(s)
  <2>1. /\ lease[s].st = "discard" /\ conn' = [conn EXCEPT ![s] = Fresh]
        /\ lease' = [lease EXCEPT ![s] = NoLease] /\ reply' = reply
    BY <1>4 DEF Closes, Close
  <2>2. /\ conn' \in [Sources -> ConnType] /\ lease' \in [Sources -> LeaseType]
        /\ conn'[s] = Fresh /\ lease'[s] = NoLease
        /\ \A t \in Sources \ {s} : conn'[t] = conn[t] /\ lease'[t] = lease[t]
    BY <1>3, <2>1 DEF Fresh, NoLease, ConnType, LeaseType
  <2>3. ConnInv(s)'
    BY <2>2 DEF ConnInv, Fresh, NoLease
  <2>4. IsLeft(s)
    BY <1>2, <2>1, <2>2 DEF IsLeft, EndsAt, Owner, State, NoLease
  <2> QED
    BY <2>1, <2>2, <2>3, <2>4 DEF PooledEffect, SourceMoves
<1>5. CASE ServerRuns(s) \/ CancelRuns(s)
  <2>1. /\ lease' = lease /\ reply' = reply
        /\ \/ conn' = [conn EXCEPT ![s].txn = TRUE]
           \/ conn' = [conn EXCEPT ![s].busy = FALSE]
           \/ lease[s].st = "discard" /\ conn' = [conn EXCEPT ![s].cancel = "sent"]
           \/ conn[s].cancel = "sent" /\ conn' = [conn EXCEPT ![s].cancel = "over", ![s].busy = FALSE]
    BY <1>5 DEF ServerRuns, ServerStep, ServerBegins, Answers, CancelRuns, CancelStep, CancelSent,
                CancelArrives
  <2>2. conn' \in [Sources -> ConnType]
    <3>1. CASE conn' = [conn EXCEPT ![s].txn = TRUE]
      BY <1>3, <3>1 DEF ConnType
    <3>2. CASE conn' = [conn EXCEPT ![s].busy = FALSE]
      BY <1>3, <3>2 DEF ConnType
    <3>3. CASE conn' = [conn EXCEPT ![s].cancel = "sent"]
      BY <1>3, <3>3 DEF ConnType
    <3>4. CASE conn' = [conn EXCEPT ![s].cancel = "over", ![s].busy = FALSE]
      BY <1>3, <3>4 DEF ConnType
    <3> QED
      BY <2>1, <3>1, <3>2, <3>3, <3>4
  <2>3. /\ \A t \in Sources \ {s} : conn'[t] = conn[t] /\ lease'[t] = lease[t]
        /\ conn'[s].free = conn[s].free /\ (conn[s].txn => conn'[s].txn)
        /\ conn'[s].cancel # "none" => conn[s].cancel # "none" \/ lease[s].st = "discard"
    BY <1>3, <2>1 DEF ConnType
  <2>4. ConnInv(s)'
    BY <1>2, <2>1, <2>3 DEF Local, ConnInv
  <2>5. Stays(s)
    BY <1>2, <2>1 DEF Stays, KeepsState, NoBetter, Owner, State
  <2> QED
    BY <1>3, <2>1, <2>2, <2>3, <2>4, <2>5 DEF PooledEffect, SourceMoves
<1> QED
  BY <1>4, <1>5

\* What runs beside the requests, taken together.
LEMMA SourceSteps ==
  ASSUME IInv, NEW s \in Sources,
         \/ Begins(s) \/ CleansUp(s) \/ LastGoes(s) \/ WorkerRuns(s)
         \/ LeaseRuns(s) \/ LeaseFails(s) \/ ServerRuns(s) \/ CancelRuns(s) \/ Closes(s)
  PROVE  IInv'
<1>1. TypeOK /\ LocalInv /\ TieInv /\ DoomInv /\ Local(s)
  BY DEF IInv, LocalInv
<1>2. TypeOK' /\ ByItself(s) /\ SourceMoves(s) /\ Local(s)'
  <2>1. CASE PooledStep(s)
    <3>1. PooledEffect(s) /\ reply' \in [Requests -> {"none", "ok", "err"}]
      BY <1>1, <2>1, LeaseEffects, SessionEffects DEF PooledStep, TypeOK, WorldTypeOK
    <3> QED
      BY <1>1, <2>1, <3>1, PooledMoves
  <2> QED
    BY <1>1, <2>1, BeginMoves, CleanupMoves, ReleaseMoves, WorkerMoves DEF PooledStep
<1>3. LocalInv'
  BY <1>1, <1>2, OthersKeepState DEF LocalInv
<1>4. TieInv'
  BY <1>1, <1>2, SourceStepKeepsTie
<1>5. DoomInv'
  BY <1>1, <1>2, SourceStepKeepsDoom
<1>6. StreamInv'
  BY <1>2, StreamsStay DEF IInv, ByItself
<1> QED
  BY <1>2, <1>3, <1>4, <1>5, <1>6 DEF IInv

-----------------------------------------------------------------------------
(* The steps of requests.                                                   *)

\* A step of the request, which touches no source of another request.
StepOf(r) ==
    /\ kind' = kind
    /\ \A q \in Requests \ {r} :
          /\ pc'[q] = pc[q] /\ step'[q] = step[q] /\ obtained'[q] = obtained[q]
          /\ answer'[q] = answer[q] /\ reply'[q] = reply[q]
    /\ \A s \in Sources :
          \/ KeepsState(s) /\ NoBetter(s)
          \/ Owner(s) \in {r, Nobody} /\ Owner(s)' \in {r, Nobody}
    /\ short' \cup torn' \subseteq short \cup torn \cup {r}

LEMMA RequestStepKeeps ==
  ASSUME IInv, NEW r \in Requests, StepOf(r), TypeOK', LocalInv', Tie(r)', StreamInv',
         r \in short' \cup torn' => Doomed(r)'
  PROVE  IInv'
<1>1. ASSUME NEW q \in Requests \ {r}
      PROVE  Tie(q)' /\ (Doomed(q) => Doomed(q)')
  <2>1. Tie(q) /\ q # Nobody
    BY SourceAssumption DEF IInv, TieInv
  <2>2. \A s \in Sources : SameFor(q, s)
    BY <2>1 DEF StepOf, SameFor, KeepsState
  <2>3. \A s \in Sources : Is(q, s, "leased") \/ Is(q, s, "closing") => NoBetter(s)
    BY <2>1 DEF StepOf, Is
  <2>4. /\ kind' = kind /\ pc'[q] = pc[q] /\ step'[q] = step[q] /\ obtained'[q] = obtained[q]
        /\ answer'[q] = answer[q] /\ reply'[q] = reply[q]
    BY DEF StepOf
  <2>5. Tie(q)'
    BY <2>1, <2>2, <2>4, Bystander
  <2>6. Doomed(q) => Doomed(q)'
    BY <2>1, <2>2, <2>3, <2>4, DoomStays
  <2> QED
    BY <2>5, <2>6
<1>2. TieInv'
  BY <1>1 DEF TieInv
<1>3. DoomInv'
  <2> SUFFICES ASSUME NEW q \in short' \cup torn' PROVE Doomed(q)'
    BY DEF DoomInv
  <2>1. CASE q = r
    BY <2>1
  <2>2. CASE q # r
    <3>1. q \in short \cup torn /\ q \in Requests \ {r}
      BY <2>2 DEF StepOf, IInv, TypeOK
    <3> QED
      BY <1>1, <3>1 DEF IInv, DoomInv
  <2> QED
    BY <2>1, <2>2
<1> QED
  BY <1>2, <1>3 DEF IInv

\* The lease predicates of the model, in terms of owners and states.
LEMMA LeasedMeans ==
  ASSUME NEW r \in Requests, NEW s \in Sources, Local(s)
  PROVE  Leased(r, s) <=> Is(r, s, "leased")
BY DEF Leased, LeasedSqlite, LeasedPooled, Is, Owner, State, Local, KindInv, NoLease, NoGeneration

\* A request that waits for nothing has been told nothing, and nothing of its
\* own is beginning or closing.
LEMMA NothingUnderWay ==
  ASSUME TypeOK, NEW r \in Requests, Tie(r),
         pc[r] \in {"acquire", "compile", "drive", "undo", "done"} \/ reply[r] # "none"
  PROVE  /\ \A s \in Sources : ~Is(r, s, "begin") /\ ~Is(r, s, "closing")
         /\ pc[r] \in {"acquire", "compile", "drive", "undo", "done"} => reply[r] = "none"
BY DEF Tie, WaitsForOne, ToldIsOver

LEMMA SourcesAsTheyWere ==
  ASSUME LocalInv, kind' = kind, member' = member, gen' = gen, worker' = worker,
         stream' = stream, conn' = conn, lease' = lease
  PROVE  LocalInv' /\ \A s \in Sources : KeepsState(s) /\ NoBetter(s)
<1>1. LocalInv'
  BY DEF LocalInv, Local, KindInv, MemberInv, WorkerInv, ConnInv, Sqlite
<1>2. \A s \in Sources : KeepsState(s) /\ NoBetter(s)
  BY DEF KeepsState, NoBetter, Owner, State, Sqlite
<1> QED
  BY <1>1, <1>2

\* What only other requests do, or none.
LEMMA NoSourceMoves ==
  ASSUME IInv, kind' = kind, member' = member, gen' = gen, worker' = worker,
         stream' = stream, conn' = conn, lease' = lease, reply' = reply,
         UNCHANGED <<pc, step, obtained, answer, short>>,
         TypeOK', NEW q \in Requests, torn' \subseteq torn \cup {q}, q \in torn' => Doomed(q)
  PROVE  IInv'
<1>1. LocalInv' /\ \A s \in Sources : KeepsState(s) /\ NoBetter(s)
  BY SourcesAsTheyWere DEF IInv
<1>2. \A s \in Sources : SameFor(q, s)
  BY <1>1 DEF SameFor, KeepsState
<1>3. Tie(q)'
  BY <1>2, Bystander DEF IInv, TieInv
<1>4. StepOf(q)
  BY <1>1 DEF StepOf
<1>5. q \in short' \cup torn' => Doomed(q)'
  BY <1>1, <1>2, DoomStays DEF IInv, TieInv, DoomInv
<1>6. StreamInv'
  BY StreamsStay DEF IInv
<1> QED
  BY <1>1, <1>3, <1>4, <1>5, <1>6, RequestStepKeeps

LEMMA WorldStep ==
  ASSUME IInv, WorldMoves \/ UNCHANGED vars
  PROVE  IInv'
<1>1. /\ kind' = kind /\ member' = member /\ gen' = gen /\ worker' = worker
      /\ stream' = stream /\ conn' = conn /\ lease' = lease /\ reply' = reply
      /\ UNCHANGED <<pc, step, opens, result, obtained, answer, short, torn>>
  BY DEF WorldMoves, Drifts, BudgetStops, sqliteVars, pooledVars, reqVars, history, vars,
         sourceVars, world
<1>2. WorldTypeOK'
  <2>1. /\ \/ drifted' = drifted
           \/ \E s \in Sources : drifted' = [drifted EXCEPT ![s] = TRUE]
        /\ \/ stopped' = stopped
           \/ \E r \in Requests : stopped' = [stopped EXCEPT ![r] = TRUE]
        /\ events' = events \/ (events < MaxEvents /\ events' = events + 1)
    BY DEF WorldMoves, Drifts, BudgetStops, Counted, vars, sourceVars, world
  <2>2. WorldTypeOK
    BY DEF IInv, TypeOK
  <2>3. drifted' \in [Sources -> BOOLEAN] /\ stopped' \in [Requests -> BOOLEAN]
    BY <2>1, <2>2 DEF WorldTypeOK
  <2>4. events' \in 0 .. MaxEvents
    BY <2>1, <2>2, SourceAssumption DEF WorldTypeOK
  <2> QED
    BY <1>1, <2>2, <2>3, <2>4 DEF WorldTypeOK
<1>3. TypeOK'
  BY <1>1, <1>2 DEF IInv, TypeOK, SqliteTypeOK, PooledTypeOK
<1>4. CASE Requests = {}
  BY <1>1, <1>3, <1>4, SourcesAsTheyWere, StreamsStay DEF IInv, TieInv, DoomInv, TypeOK
<1>5. CASE Requests # {}
  BY <1>1, <1>3, <1>5, NoSourceMoves DEF IInv, DoomInv
<1> QED
  BY <1>4, <1>5

\* A row that is not read in the generation's transaction is a row of a request
\* that drives a member without one.
LEMMA RowStep ==
  ASSUME IInv, NEW s \in Sources, Row(s)
  PROVE  IInv'
<1>1. /\ kind' = kind /\ member' = member /\ gen' = gen /\ worker' = worker
      /\ stream' = stream /\ conn' = conn /\ lease' = lease /\ reply' = reply
      /\ drifted' = drifted /\ stopped' = stopped /\ events' = events
      /\ UNCHANGED <<pc, step, opens, result, obtained, answer, short>>
      /\ torn' = IF member[s].txn THEN torn ELSE torn \cup {gen[s].owner}
  BY DEF Row, sourceVars, world, sqliteVars, pooledVars
<1>2. PICK r \in Requests : pc[r] = "drive" /\ Driven(r) = s /\ Leased(r, s)
  BY DEF Row, Driving
<1>3. Sqlite(s) /\ gen[s].owner = r
  <2>1. gen[s].st # "none"
    BY DEF Row, IInv, LocalInv, Local, WorkerInv
  <2>2. Sqlite(s)
    BY <2>1 DEF IInv, LocalInv, Local, KindInv, NoGeneration
  <2> QED
    BY <1>2, <2>2, LeasedMeans DEF IInv, LocalInv, Is, Owner
<1>4. TypeOK'
  BY <1>1, <1>3 DEF IInv, TypeOK, WorldTypeOK, SqliteTypeOK, PooledTypeOK
<1>5. r \in torn' => Doomed(r)
  BY <1>1, <1>2, <1>3 DEF IInv, DoomInv, Doomed
<1> QED
  BY <1>1, <1>3, <1>4, <1>5, NoSourceMoves

\* Steps of a request that leave the sources as they are.
LEMMA QuietStepKeeps ==
  ASSUME IInv, NEW r \in Requests,
         kind' = kind, drifted' = drifted, stopped' = stopped, events' \in 0 .. MaxEvents,
         member' = member, gen' = gen, worker' = worker, stream' = stream, conn' = conn,
         lease' = lease, short' = short, torn' = torn, pc[r] # "drive",
         NEW to \in {"acquire", "begin", "compile", "drive", "undo", "done"}, Goes(r, to),
         NEW i \in 1 .. 2, step' = [step EXCEPT ![r] = i],
         reply' = reply \/ Heard(r),
         NEW o \in SUBSET Sources, obtained' = [obtained EXCEPT ![r] = o],
         NEW a \in {"none", "ok", "err"}, answer' = [answer EXCEPT ![r] = a],
         opens' \in [Requests -> 0 .. MaxOpens], result' \in [Requests -> {"ok", "err"}],
         Tie(r)', r \in short \cup torn => Doomed(r)'
  PROVE  IInv'
<1>1. TypeOK /\ WorldTypeOK
  BY DEF IInv, TypeOK
<1>2. WorldTypeOK'
  BY <1>1 DEF WorldTypeOK, Heard, Tells
<1>3. /\ pc' \in [Requests -> {"acquire", "begin", "compile", "drive", "finish",
                               "undo", "undoing", "done"}]
      /\ step' \in [Requests -> 1 .. 2]
      /\ answer' \in [Requests -> {"none", "ok", "err", "gone"}]
      /\ obtained' \in [Requests -> SUBSET Sources]
  BY <1>1 DEF TypeOK, Goes
<1>4. TypeOK'
  BY <1>1, <1>2, <1>3 DEF TypeOK, SqliteTypeOK, PooledTypeOK
<1>5. LocalInv' /\ \A s \in Sources : KeepsState(s) /\ NoBetter(s)
  BY SourcesAsTheyWere DEF IInv
<1>6. StepOf(r)
  BY <1>1, <1>5 DEF StepOf, Goes, Heard, Tells, TypeOK, WorldTypeOK
<1>7. StreamInv'
  <2>1. \A q \in Requests : pc[q] = "drive" => pc'[q] = "drive" /\ step'[q] = step[q]
    BY <1>1 DEF Goes, TypeOK
  <2> QED
    BY <2>1, StreamsStay DEF IInv
<1> QED
  BY <1>4, <1>5, <1>6, <1>7, RequestStepKeeps

\* A request whose sources are as they were is tied to them in a place where it
\* waits for nothing, if it holds there what it held and obtains nothing new.
LEMMA TiedAgain ==
  ASSUME TypeOK, NEW r \in Requests, Tie(r), \A s \in Sources : KeepsState(s),
         \A s \in Sources : ~Is(r, s, "begin") /\ ~Is(r, s, "closing"),
         reply'[r] = "none", obtained'[r] = obtained[r],
         \A s \in Held(r)' : s \in Sources /\ Is(r, s, "leased"),
         LeasedIsHeld(r)', Progress(r)', answer[r] = "none"
  PROVE  Tie(r)'
<1>1. \A s \in Sources : Owner(s)' = Owner(s) /\ State(s)' = State(s)
  BY DEF KeepsState
<1>2. HeldIsLeased(r)'
  BY <1>1 DEF HeldIsLeased, Is
<1>3. WaitsForOne(r)'
  BY <1>1 DEF WaitsForOne, Is
<1>4. ToldIsOver(r)'
  BY DEF ToldIsOver
<1>5. LooseIsNotObtained(r)'
  BY <1>1 DEF LooseIsNotObtained, Is, Tie
<1> QED
  BY <1>2, <1>3, <1>4, <1>5 DEF Tie

\* To the point where everything is handed back.
LEMMA GoesToUndo ==
  ASSUME TypeOK, NEW r \in Requests, Tie(r), \A s \in Sources : KeepsState(s),
         pc[r] # "done", \A s \in Sources : ~Is(r, s, "begin") /\ ~Is(r, s, "closing"),
         pc'[r] = "undo", step'[r] = step[r], reply'[r] = "none", answer'[r] = answer[r],
         obtained'[r] = obtained[r]
  PROVE  Tie(r)' /\ Doomed(r)'
<1>1. Held(r)' = {}
  BY DEF Held
<1>2. LeasedIsHeld(r)'
  BY DEF LeasedIsHeld
<1>3. Progress(r)' /\ answer[r] = "none"
  BY DEF Tie, Progress
<1>4. Doomed(r)'
  BY DEF Doomed
<1> QED
  BY <1>1, <1>2, <1>3, <1>4, TiedAgain

LEMMA StepsToUndo ==
  ASSUME IInv, NEW r \in Requests,
         \/ AcquireFails(r) \/ ConnectFails(r) \/ BeginErr(r) \/ UndoReturns(r)
         \/ Compile(r) /\ Goes(r, "undo")
  PROVE  IInv'
<1>1. /\ kind' = kind /\ drifted' = drifted /\ stopped' = stopped
      /\ events' = events \/ (events < MaxEvents /\ events' = events + 1)
      /\ member' = member /\ gen' = gen /\ worker' = worker /\ stream' = stream /\ conn' = conn
      /\ lease' = lease /\ step' = step /\ opens' = opens /\ result' = result /\ answer' = answer
      /\ obtained' = obtained /\ short' = short /\ torn' = torn
  BY DEF AcquireFails, ConnectFails, BeginErr, UndoReturns, Compile, Happens, Counted, sourceVars,
         world, sqliteVars, pooledVars, history
<1>2. Goes(r, "undo") /\ pc[r] # "done" /\ pc[r] # "drive"
  BY DEF AcquireFails, ConnectFails, BeginErr, UndoReturns, Compile
<1>3. \/ reply' = reply /\ pc[r] \in {"acquire", "compile"}
      \/ Heard(r) /\ reply[r] # "none"
  BY DEF AcquireFails, ConnectFails, BeginErr, UndoReturns, Compile, sourceVars
<1>4. /\ TypeOK /\ Tie(r) /\ WorldTypeOK
      /\ step[r] \in 1 .. 2 /\ obtained[r] \in SUBSET Sources /\ answer[r] = "none"
  BY <1>2 DEF IInv, TieInv, Tie, Progress, TypeOK
<1>5. /\ \A s \in Sources : ~Is(r, s, "begin") /\ ~Is(r, s, "closing")
      /\ reply'[r] = "none" /\ pc'[r] = "undo"
  BY <1>2, <1>3, <1>4, NothingUnderWay DEF Heard, Tells, Goes, TypeOK, WorldTypeOK
<1>6. \A s \in Sources : KeepsState(s)
  BY <1>1, SourcesAsTheyWere DEF IInv
<1>7. Tie(r)' /\ Doomed(r)'
  BY <1>1, <1>2, <1>4, <1>5, <1>6, GoesToUndo
<1>8. /\ step' = [step EXCEPT ![r] = step[r]] /\ obtained' = [obtained EXCEPT ![r] = obtained[r]]
      /\ answer' = [answer EXCEPT ![r] = "none"]
  BY <1>1, <1>4 DEF TypeOK
<1>9. events' \in 0 .. MaxEvents
  BY <1>1, <1>4, SourceAssumption DEF WorldTypeOK
<1>10. opens' \in [Requests -> 0 .. MaxOpens] /\ result' \in [Requests -> {"ok", "err"}]
  BY <1>1, <1>4 DEF TypeOK
<1> QED
  BY <1>1, <1>2, <1>3, <1>4, <1>7, <1>8, <1>9, <1>10, QuietStepKeeps

LEMMA CompileStep ==
  ASSUME IInv, NEW r \in Requests, Compile(r)
  PROVE  IInv'
<1>1. CASE Goes(r, "undo")
  BY <1>1, StepsToUndo
<1>2. CASE Goes(r, "drive")
  <2>1. /\ kind' = kind /\ drifted' = drifted /\ stopped' = stopped /\ events' = events
        /\ reply' = reply
        /\ member' = member /\ gen' = gen /\ worker' = worker /\ stream' = stream
        /\ conn' = conn /\ lease' = lease /\ step' = step /\ opens' = opens /\ result' = result
        /\ answer' = answer /\ obtained' = obtained /\ short' = short /\ torn' = torn
        /\ pc[r] = "compile"
    BY DEF Compile, sourceVars, world, sqliteVars, pooledVars, history
  <2>2. TypeOK /\ Tie(r) /\ WorldTypeOK /\ pc'[r] = "drive"
    BY <1>2 DEF IInv, TieInv, TypeOK, Goes
  <2>3. \A s \in Sources : KeepsState(s)
    BY <2>1, SourcesAsTheyWere DEF IInv
  <2>4. /\ step[r] = 1 /\ step[r] \in 1 .. 2 /\ answer[r] = "none" /\ Progress(r)
        /\ obtained[r] \in SUBSET Sources
    BY <2>1, <2>2 DEF Tie, Progress, TypeOK
  <2>5. Held(r)' = Held(r)
    BY <2>1, <2>2, <2>4 DEF Held
  <2>6. Tie(r)'
    <3>1. /\ \A s \in Sources : ~Is(r, s, "begin") /\ ~Is(r, s, "closing")
          /\ reply'[r] = "none"
      BY <2>1, <2>2, NothingUnderWay
    <3>2. \A s \in Held(r)' : s \in Sources /\ Is(r, s, "leased")
      BY <2>2, <2>4, <2>5, PlacesAreSources DEF Tie, HeldIsLeased
    <3>3. LeasedIsHeld(r)'
      BY <2>1, <2>2, <2>3, <2>5 DEF Tie, LeasedIsHeld, Is, KeepsState
    <3>4. Progress(r)'
      BY <2>1, <2>2, <2>4 DEF Progress
    <3> QED
      BY <2>1, <2>2, <2>3, <2>4, <3>1, <3>2, <3>3, <3>4, TiedAgain
  <2>7. r \notin short \cup torn
    BY <2>1 DEF IInv, DoomInv, Doomed
  <2>8. /\ step' = [step EXCEPT ![r] = step[r]] /\ obtained' = [obtained EXCEPT ![r] = obtained[r]]
        /\ answer' = [answer EXCEPT ![r] = "none"] /\ events' \in 0 .. MaxEvents
        /\ opens' \in [Requests -> 0 .. MaxOpens] /\ result' \in [Requests -> {"ok", "err"}]
    BY <2>1, <2>2, <2>4 DEF TypeOK, WorldTypeOK
  <2> QED
    BY <1>2, <2>1, <2>4, <2>6, <2>7, <2>8, QuietStepKeeps
<1> QED
  BY <1>1, <1>2 DEF Compile

LEMMA BegunStep ==
  ASSUME IInv, NEW r \in Requests, Begun(r)
  PROVE  IInv'
<1>1. /\ kind' = kind /\ drifted' = drifted /\ stopped' = stopped /\ events' = events
      /\ reply' = reply
      /\ member' = member /\ gen' = gen /\ worker' = worker /\ stream' = stream
      /\ conn' = conn /\ lease' = lease /\ opens' = opens /\ result' = result
      /\ answer' = answer /\ short' = short /\ torn' = torn
      /\ pc[r] = "begin" /\ Leased(r, Waited(r))
      /\ obtained' = [obtained EXCEPT ![r] = @ \cup {Waited(r)}]
      /\ IF step[r] < Len(Fragments[r])
         THEN step' = [step EXCEPT ![r] = @ + 1] /\ Goes(r, "acquire")
         ELSE step' = [step EXCEPT ![r] = 1] /\ Goes(r, "compile")
  BY DEF Begun, sourceVars, world, sqliteVars, pooledVars
<1>2. TypeOK /\ Tie(r) /\ WorldTypeOK /\ Progress(r) /\ LocalInv
  BY DEF IInv, TieInv, TypeOK, Tie
<1>3. /\ step[r] \in 1 .. Len(Fragments[r]) /\ Waited(r) \in Sources /\ answer[r] = "none"
      /\ obtained[r] \subseteq Sources /\ Held(r) \subseteq Sources
  BY <1>1, <1>2, PlacesAreSources DEF Progress, TypeOK
<1>4. /\ AcquireOrder(r) \in Seq(Sources) /\ Len(Fragments[r]) \in 1 .. 2
      /\ Len(AcquireOrder(r)) = Len(Fragments[r])
      /\ \A i, j \in 1 .. Len(Fragments[r]) : AcquireOrder(r)[i] = AcquireOrder(r)[j] => i = j
      /\ {AcquireOrder(r)[i] : i \in 1 .. Len(Fragments[r])}
              = {Fragments[r][i] : i \in 1 .. Len(Fragments[r])}
  BY OrderOfAcquisition
<1>5. Is(r, Waited(r), "leased")
  BY <1>1, <1>2, <1>3, LeasedMeans DEF LocalInv
<1>6. reply[r] = "none" /\ reply'[r] = "none"
  BY <1>1, <1>2, <1>5 DEF Tie, ToldIsOver, TypeOK, WorldTypeOK
<1>7. \A s \in Sources : ~Is(r, s, "begin") /\ ~Is(r, s, "closing")
  BY <1>1, <1>2, <1>5 DEF Tie, WaitsForOne, Is
<1>8. \A s \in Sources : KeepsState(s) /\ Owner(s)' = Owner(s) /\ State(s)' = State(s)
  BY <1>1, <1>2, SourcesAsTheyWere DEF KeepsState
\* What is held is what was, and the source just begun.
<1>9. Held(r)' = Held(r) \cup {Waited(r)}
  <2>1. Held(r) = {AcquireOrder(r)[i] : i \in 1 .. step[r] - 1} /\ Waited(r) = AcquireOrder(r)[step[r]]
    BY <1>1 DEF Held, Waited
  <2>2. {AcquireOrder(r)[i] : i \in 1 .. step[r]}
          = {AcquireOrder(r)[i] : i \in 1 .. step[r] - 1} \cup {AcquireOrder(r)[step[r]]}
    <3>1. 1 .. step[r] = (1 .. step[r] - 1) \cup {step[r]}
      BY <1>3, <1>4
    <3> QED
      BY <3>1
  <2>3. CASE step[r] < Len(Fragments[r])
    <3>1. pc'[r] = "acquire" /\ step'[r] = step[r] + 1 /\ step'[r] - 1 = step[r]
      BY <1>1, <1>2, <1>3, <1>4, <2>3 DEF Goes, TypeOK
    <3>2. Held(r)' = {AcquireOrder(r)[i] : i \in 1 .. step'[r] - 1}
      BY <3>1 DEF Held
    <3> QED
      BY <2>1, <2>2, <3>1, <3>2
  <2>4. CASE ~(step[r] < Len(Fragments[r]))
    <3>1. pc'[r] = "compile" /\ step[r] = Len(Fragments[r])
      BY <1>1, <1>2, <1>3, <1>4, <2>4 DEF Goes, TypeOK
    <3>2. Held(r)' = {Fragments[r][i] : i \in 1 .. Len(Fragments[r])}
      BY <3>1 DEF Held
    <3> QED
      BY <1>4, <2>1, <2>2, <3>1, <3>2
  <2> QED
    BY <2>3, <2>4
<1>10. HeldIsLeased(r)'
  BY <1>2, <1>3, <1>5, <1>8, <1>9 DEF Tie, HeldIsLeased, Is
<1>11. LeasedIsHeld(r)'
  BY <1>1, <1>2, <1>8, <1>9 DEF Tie, LeasedIsHeld, Is
<1>12. WaitsForOne(r)' /\ ToldIsOver(r)'
  BY <1>6, <1>7, <1>8 DEF WaitsForOne, ToldIsOver, Is
<1>13. obtained'[r] = obtained[r] \cup {Waited(r)}
  BY <1>1, <1>2 DEF TypeOK
<1>14. LooseIsNotObtained(r)'
  BY <1>1, <1>2, <1>5, <1>8, <1>13 DEF Tie, LooseIsNotObtained, Is
<1>15. Progress(r)'
  <2>1. CASE step[r] < Len(Fragments[r])
    <3>1. pc'[r] = "acquire" /\ step'[r] = step[r] + 1
      BY <1>1, <1>2, <1>3, <2>1 DEF Goes, TypeOK
    <3>2. ASSUME NEW i \in step[r] + 1 .. Len(Fragments[r])
          PROVE  AcquireOrder(r)[i] \notin obtained'[r]
      <4>1. /\ i \in step[r] .. Len(Fragments[r]) /\ i # step[r]
            /\ i \in 1 .. Len(Fragments[r])
        BY <1>3, <1>4
      <4>2. AcquireOrder(r)[i] # AcquireOrder(r)[step[r]]
        BY <1>3, <1>4, <4>1
      <4> QED
        BY <1>1, <1>2, <1>13, <4>1, <4>2 DEF Progress, Waited
    <3> QED
      BY <1>1, <1>3, <1>4, <2>1, <3>1, <3>2 DEF Progress
  <2>2. CASE ~(step[r] < Len(Fragments[r]))
    <3>1. pc'[r] = "compile" /\ step'[r] = 1
      BY <1>1, <1>2, <1>3, <2>2 DEF Goes, TypeOK
    <3> QED
      BY <1>1, <1>3, <1>4, <3>1 DEF Progress
  <2> QED
    BY <2>1, <2>2
<1>16. Tie(r)'
  BY <1>10, <1>11, <1>12, <1>14, <1>15 DEF Tie
<1>17. r \notin short \cup torn
  BY <1>1 DEF IInv, DoomInv, Doomed
<1>18. /\ obtained[r] \cup {Waited(r)} \in SUBSET Sources
       /\ answer' = [answer EXCEPT ![r] = "none"] /\ events' \in 0 .. MaxEvents
       /\ opens' \in [Requests -> 0 .. MaxOpens] /\ result' \in [Requests -> {"ok", "err"}]
  BY <1>1, <1>2, <1>3 DEF TypeOK, WorldTypeOK
<1>19. CASE step[r] < Len(Fragments[r])
  <2>1. step[r] + 1 \in 1 .. 2 /\ step' = [step EXCEPT ![r] = step[r] + 1] /\ Goes(r, "acquire")
    BY <1>1, <1>3, <1>4, <1>19
  <2> QED
    BY <1>1, <1>16, <1>17, <1>18, <2>1, QuietStepKeeps
<1>20. CASE ~(step[r] < Len(Fragments[r]))
  <2>1. 1 \in 1 .. 2 /\ step' = [step EXCEPT ![r] = 1] /\ Goes(r, "compile")
    BY <1>1, <1>20
  <2> QED
    BY <1>1, <1>16, <1>17, <1>18, <2>1, QuietStepKeeps
<1> QED
  BY <1>19, <1>20

LEMMA FinishStep ==
  ASSUME IInv, NEW r \in Requests, FinishReturns(r)
  PROVE  IInv'
<1>1. /\ kind' = kind /\ drifted' = drifted /\ stopped' = stopped /\ events' = events
      /\ member' = member /\ gen' = gen /\ worker' = worker /\ stream' = stream
      /\ conn' = conn /\ lease' = lease
      /\ obtained' = obtained /\ short' = short /\ torn' = torn
      /\ pc[r] = "finish" /\ reply[r] # "none" /\ Heard(r)
      /\ opens' = [opens EXCEPT ![r] = 0] /\ result' = [result EXCEPT ![r] = "ok"]
  BY DEF FinishReturns, Proceeds, world, sqliteVars, pooledVars, history
<1>2. TypeOK /\ Tie(r) /\ WorldTypeOK /\ Progress(r) /\ pc[r] # "done"
  BY <1>1 DEF IInv, TieInv, TypeOK, Tie
<1>3. /\ step[r] \in 1 .. Len(Fragments[r]) /\ answer[r] = "none" /\ reply'[r] = "none"
      /\ obtained[r] \subseteq Sources /\ Held(r) \subseteq Sources
  BY <1>1, <1>2, PlacesAreSources DEF Progress, TypeOK, WorldTypeOK, Heard, Tells
<1>4. Len(Fragments[r]) \in 1 .. 2 /\ Fragments[r] \in Seq(Sources)
  BY OrderOfAcquisition
<1>5. \A s \in Sources : ~Is(r, s, "begin") /\ ~Is(r, s, "closing")
  BY <1>1, <1>2, NothingUnderWay
<1>6. \A s \in Sources : KeepsState(s) /\ Owner(s)' = Owner(s) /\ State(s)' = State(s)
  BY <1>1, SourcesAsTheyWere DEF IInv, KeepsState
<1>7. /\ obtained' = [obtained EXCEPT ![r] = obtained[r]] /\ events' \in 0 .. MaxEvents
      /\ opens' \in [Requests -> 0 .. MaxOpens] /\ result' \in [Requests -> {"ok", "err"}]
      /\ obtained[r] \in SUBSET Sources /\ obtained'[r] = obtained[r]
  BY <1>1, <1>2, RequestAssumption DEF TypeOK, WorldTypeOK
<1>8. CASE ~(result[r] = "ok" /\ reply[r] = "ok")
  <2>1. Goes(r, "undo") /\ step' = step /\ answer' = answer
    BY <1>8 DEF FinishReturns, Proceeds
  <2>2. Tie(r)' /\ Doomed(r)'
    <3>1. pc'[r] = "undo" /\ step'[r] = step[r] /\ answer'[r] = answer[r]
      BY <1>2, <2>1 DEF Goes, TypeOK
    <3> QED
      BY <1>2, <1>3, <1>5, <1>6, <1>7, <3>1, GoesToUndo
  <2>3. /\ step' = [step EXCEPT ![r] = step[r]] /\ step[r] \in 1 .. 2
        /\ answer' = [answer EXCEPT ![r] = "none"]
    BY <1>2, <1>3, <2>1 DEF TypeOK
  <2> QED
    BY <1>1, <1>7, <2>1, <2>2, <2>3, QuietStepKeeps
<1>9. CASE result[r] = "ok" /\ reply[r] = "ok"
  <2>1. r \notin short \cup torn
    BY <1>1, <1>5, <1>2, <1>9, PlacesAreSources DEF IInv, DoomInv, Doomed, Tie
  <2>2. CASE step[r] < Len(Fragments[r])
    <3>1. step' = [step EXCEPT ![r] = step[r] + 1] /\ Goes(r, "drive") /\ answer' = answer
      BY <1>9, <2>2 DEF FinishReturns, Proceeds
    <3>2. /\ step'[r] = step[r] + 1 /\ pc'[r] = "drive" /\ answer'[r] = "none"
          /\ step[r] + 1 \in 1 .. 2
      <4>1. step[r] + 1 \in 1 .. 2
        <5>1. \A i, n \in Nat : i \in 1 .. n /\ n \in 1 .. 2 /\ i < n => i + 1 \in 1 .. 2
          OBVIOUS
        <5>2. step[r] \in Nat /\ Len(Fragments[r]) \in Nat
          BY <1>3, <1>4
        <5> QED
          BY <1>3, <1>4, <2>2, <5>1, <5>2
      <4> QED
        BY <1>2, <1>3, <3>1, <4>1 DEF Goes, TypeOK
    <3>3. Held(r)' = Held(r)
      BY <1>1, <3>2 DEF Held
    <3>4. \A s \in Held(r)' : s \in Sources /\ Is(r, s, "leased")
      BY <1>2, <1>3, <3>3 DEF Tie, HeldIsLeased
    <3>5. LeasedIsHeld(r)'
      BY <1>1, <1>2, <1>6, <3>3 DEF Tie, LeasedIsHeld, Is
    <3>6. Progress(r)'
      BY <1>3, <1>4, <2>2, <3>2 DEF Progress
    <3>7. Tie(r)'
      BY <1>2, <1>3, <1>5, <1>6, <1>7, <3>4, <3>5, <3>6, TiedAgain
    <3>8. answer' = [answer EXCEPT ![r] = "none"]
      BY <1>2, <1>3, <3>1 DEF TypeOK
    <3> QED
      BY <1>1, <1>7, <2>1, <3>1, <3>2, <3>7, <3>8, QuietStepKeeps
  <2>3. CASE ~(step[r] < Len(Fragments[r]))
    <3>1. answer' = [answer EXCEPT ![r] = "ok"] /\ Goes(r, "done") /\ step' = step
      BY <1>9, <2>3 DEF FinishReturns, Proceeds
    <3>2. pc'[r] = "done" /\ answer'[r] = "ok" /\ step'[r] = step[r]
      BY <1>2, <3>1 DEF Goes, TypeOK
    <3>3. Held(r) = {} /\ Held(r)' = {}
      <4>1. step[r] + 1 .. Len(Fragments[r]) = {}
        BY <1>3, <1>4, <2>3
      <4> QED
        BY <1>1, <3>2, <4>1 DEF Held
    <3>4. \A s \in Sources : ~Is(r, s, "leased")
      BY <1>1, <1>2, <3>3 DEF Tie, LeasedIsHeld
    <3>5. LeasedIsHeld(r)'
      BY <1>6, <3>4 DEF LeasedIsHeld, Is
    <3>6. Progress(r)'
      BY <1>3, <3>2 DEF Progress
    <3>7. Tie(r)'
      BY <1>2, <1>3, <1>5, <1>6, <1>7, <3>3, <3>5, <3>6, TiedAgain
    <3>8. step' = [step EXCEPT ![r] = step[r]] /\ step[r] \in 1 .. 2
      BY <1>2, <3>1 DEF TypeOK
    <3> QED
      BY <1>1, <1>7, <2>1, <3>1, <3>7, <3>8, QuietStepKeeps
  <2> QED
    BY <2>2, <2>3
<1> QED
  BY <1>8, <1>9

\* With no lease left, the request answers that it has failed.
LEMMA UndoneStep ==
  ASSUME IInv, NEW r \in Requests, Undo(r), Leases(r) = {}
  PROVE  IInv'
<1>1. /\ kind' = kind /\ drifted' = drifted /\ stopped' = stopped /\ events' = events
      /\ reply' = reply /\ member' = member /\ gen' = gen /\ worker' = worker /\ stream' = stream
      /\ conn' = conn /\ lease' = lease /\ step' = step /\ opens' = opens /\ result' = result
      /\ obtained' = obtained /\ short' = short /\ torn' = torn
      /\ pc[r] = "undo" /\ answer' = [answer EXCEPT ![r] = "err"] /\ Goes(r, "done")
  BY DEF Undo, world, history
<1>2. TypeOK /\ Tie(r) /\ WorldTypeOK /\ Progress(r) /\ LocalInv
  BY DEF IInv, TieInv, TypeOK, Tie
<1>3. /\ pc'[r] = "done" /\ answer'[r] = "err" /\ step'[r] = step[r] /\ answer[r] = "none"
      /\ obtained'[r] = obtained[r]
  BY <1>1, <1>2 DEF TypeOK, Goes, Progress
<1>4. /\ \A s \in Sources : ~Is(r, s, "begin") /\ ~Is(r, s, "closing")
      /\ reply'[r] = "none"
  BY <1>1, <1>2, NothingUnderWay
<1>5. \A s \in Sources : KeepsState(s) /\ Owner(s)' = Owner(s) /\ State(s)' = State(s)
  BY <1>1, <1>2, SourcesAsTheyWere DEF KeepsState
<1>6. \A s \in Sources : ~Is(r, s, "leased")
  BY <1>2, LeasedMeans DEF Leases, LocalInv
<1>7. LeasedIsHeld(r)'
  BY <1>5, <1>6 DEF LeasedIsHeld, Is
<1>8. Held(r)' = {}
  BY <1>3 DEF Held
<1>9. Progress(r)'
  BY <1>2, <1>3 DEF Progress
<1>10. Tie(r)'
  BY <1>2, <1>3, <1>4, <1>5, <1>7, <1>8, <1>9, TiedAgain
<1>11. Doomed(r)'
  BY <1>3 DEF Doomed
<1>12. /\ step' = [step EXCEPT ![r] = step[r]] /\ step[r] \in 1 .. 2
       /\ obtained' = [obtained EXCEPT ![r] = obtained[r]] /\ obtained[r] \in SUBSET Sources
       /\ events' \in 0 .. MaxEvents
       /\ opens' \in [Requests -> 0 .. MaxOpens] /\ result' \in [Requests -> {"ok", "err"}]
  BY <1>1, <1>2 DEF TypeOK, WorldTypeOK
<1> QED
  BY <1>1, <1>10, <1>11, <1>12, QuietStepKeeps

-----------------------------------------------------------------------------
(* The steps of requests that touch their sources.                          *)

LEMMA OthersInPlace ==
  ASSUME NEW t \in Sources, kind' = kind, member'[t] = member[t], gen'[t] = gen[t],
         lease'[t] = lease[t], worker'[t] = worker[t], stream'[t] = stream[t], conn'[t] = conn[t],
         Local(t)
  PROVE  KeepsState(t) /\ NoBetter(t) /\ Local(t)'
BY DEF KeepsState, NoBetter, Owner, State, Sqlite, Local, KindInv, MemberInv, WorkerInv, ConnInv

LEMMA TakeStep ==
  ASSUME IInv, NEW r \in Requests, TakePermit(r)
  PROVE  IInv'
<1>1. PICK s \in Sources : s = Waited(r)
  BY PlacesAreSources DEF IInv, TieInv, Tie
<1>2. /\ kind' = kind /\ drifted' = drifted /\ stopped' = stopped /\ events' = events
      /\ reply' = reply /\ worker' = worker /\ stream' = stream
      /\ step' = step /\ opens' = opens /\ result' = result /\ answer' = answer
      /\ obtained' = obtained /\ short' = short /\ torn' = torn
      /\ pc[r] = "acquire" /\ Goes(r, "begin")
      /\ \/ TakeMember(r, s)
         \/ ~Sqlite(s) /\ TakeConnection(r, s) /\ UNCHANGED sqliteVars
  BY <1>1 DEF TakePermit, TakeMember, world, history, sqliteVars
<1>3. /\ TypeOK /\ Tie(r) /\ WorldTypeOK /\ SqliteTypeOK /\ PooledTypeOK /\ Progress(r)
      /\ LocalInv /\ Local(s)
  BY DEF IInv, TieInv, TypeOK, Tie, LocalInv
<1>4. pc'[r] = "begin" /\ step'[r] = step[r] /\ Waited(r)' = s
  BY <1>1, <1>2, <1>3 DEF Goes, TypeOK, Waited
\* The source was nobody's and is the request's now.
<1>5. /\ Owner(s) = Nobody /\ State(s) = "none" /\ Owner(s)' = r /\ State(s)' = "begin"
      /\ \A t \in Sources \ {s} :
            /\ member'[t] = member[t] /\ gen'[t] = gen[t] /\ lease'[t] = lease[t]
            /\ conn'[t] = conn[t]
      /\ Local(s)' /\ SqliteTypeOK' /\ PooledTypeOK'
  <2>1. CASE TakeMember(r, s)
    <3>1. /\ Sqlite(s) /\ member[s].free /\ ~member[s].closed
          /\ member' = [member EXCEPT ![s].free = FALSE] /\ gen' = [gen EXCEPT ![s] = Taken(r)]
          /\ conn' = conn /\ lease' = lease
      BY <2>1 DEF TakeMember, pooledVars
    <3>2. gen[s] = NoGeneration /\ lease[s] = NoLease /\ worker[s] = "free"
      BY <1>3, <3>1 DEF Local, KindInv, MemberInv, WorkerInv
    <3>3. /\ ~member[s].txn /\ ~member[s].poisoned /\ stream[s] = "none"
      BY <1>3, <3>1, <3>2 DEF Local, MemberInv, WorkerInv, NoGeneration
    <3>4. Taken(r) \in GenType
      BY DEF Taken, NoGeneration, GenType
    <3>5. /\ gen' \in [Sources -> GenType] /\ gen'[s] = Taken(r)
          /\ \A t \in Sources \ {s} : gen'[t] = gen[t] /\ member'[t] = member[t]
      BY <1>3, <3>1, <3>4 DEF SqliteTypeOK, GenType
    <3>6. /\ member' \in [Sources -> MemberType] /\ ~member'[s].free
          /\ member'[s].txn = member[s].txn /\ member'[s].poisoned = member[s].poisoned
      BY <1>3, <3>1 DEF SqliteTypeOK, MemberType
    <3>7. SqliteTypeOK' /\ PooledTypeOK'
      BY <1>2, <1>3, <3>1, <3>5, <3>6 DEF SqliteTypeOK, PooledTypeOK, GenType, MemberType
    <3>8. /\ Owner(s) = Nobody /\ State(s) = "none" /\ Owner(s)' = r /\ State(s)' = "begin"
      BY <1>2, <3>1, <3>2, <3>5 DEF Owner, State, Sqlite, NoGeneration, Taken
    <3>9. Local(s)'
      BY <1>2, <1>3, <3>1, <3>2, <3>3, <3>5, <3>6
      DEF Local, KindInv, MemberInv, WorkerInv, ConnInv, Sqlite, NoGeneration, NoLease, Taken
    <3> QED
      BY <3>1, <3>5, <3>7, <3>8, <3>9
  <2>2. CASE ~Sqlite(s) /\ TakeConnection(r, s) /\ UNCHANGED sqliteVars
    <3>1. /\ ~Sqlite(s) /\ conn[s].free /\ member' = member /\ gen' = gen
          /\ conn' = [conn EXCEPT ![s].free = FALSE, ![s].busy = TRUE]
          /\ lease' = [lease EXCEPT ![s] = [NoLease EXCEPT !.st = "setup", !.owner = r]]
      BY <2>2 DEF TakeConnection, sqliteVars
    <3>2. gen[s] = NoGeneration /\ lease[s] = NoLease /\ conn[s].cancel = "none"
      BY <1>3, <3>1 DEF Local, KindInv, ConnInv, Fresh
    <3>3. conn \in [Sources -> ConnType] /\ lease \in [Sources -> LeaseType]
      BY <1>3 DEF PooledTypeOK, ConnType, LeaseType
    <3>4. /\ lease' \in [Sources -> LeaseType] /\ lease'[s].st = "setup" /\ lease'[s].owner = r
          /\ \A t \in Sources \ {s} : lease'[t] = lease[t] /\ conn'[t] = conn[t]
      BY <3>1, <3>3 DEF LeaseType, NoLease
    <3>5. conn' \in [Sources -> ConnType] /\ ~conn'[s].free /\ conn'[s].cancel = "none"
      BY <3>1, <3>2, <3>3 DEF ConnType
    <3>6. SqliteTypeOK' /\ PooledTypeOK'
      BY <1>2, <1>3, <3>1, <3>4, <3>5 DEF SqliteTypeOK, PooledTypeOK, ConnType, LeaseType
    <3>7. /\ Owner(s) = Nobody /\ State(s) = "none" /\ Owner(s)' = r /\ State(s)' = "begin"
      BY <1>2, <3>1, <3>2, <3>4 DEF Owner, State, Sqlite, NoLease
    <3>8. Local(s)'
      BY <1>2, <1>3, <3>1, <3>2, <3>4, <3>5
      DEF Local, KindInv, MemberInv, WorkerInv, ConnInv, Sqlite
    <3> QED
      BY <3>1, <3>4, <3>6, <3>7, <3>8
  <2> QED
    BY <1>2, <2>1, <2>2
<1>6. \A t \in Sources \ {s} : KeepsState(t) /\ NoBetter(t) /\ Local(t)'
  BY <1>2, <1>3, <1>5, OthersInPlace DEF LocalInv
<1>7. LocalInv'
  BY <1>5, <1>6 DEF LocalInv
<1>8. TypeOK'
  BY <1>2, <1>3, <1>5 DEF TypeOK, WorldTypeOK, Goes
<1>9. StepOf(r)
  BY <1>2, <1>3, <1>5, <1>6 DEF StepOf, Goes, TypeOK
<1>10. /\ reply[r] = "none" /\ reply'[r] = "none"
       /\ \A t \in Sources : ~Is(r, t, "begin") /\ ~Is(r, t, "closing")
  BY <1>2, <1>3, NothingUnderWay
<1>11. \A t \in Sources \ {s} : Owner(t)' = Owner(t) /\ State(t)' = State(t)
  BY <1>6 DEF KeepsState
<1>12. Held(r)' = Held(r)
  BY <1>2, <1>4 DEF Held
<1>13. HeldIsLeased(r)'
  BY <1>3, <1>5, <1>11, <1>12, PlacesAreSources DEF Tie, HeldIsLeased, Is
<1>14. LeasedIsHeld(r)'
  BY <1>2, <1>3, <1>5, <1>11, <1>12 DEF Tie, LeasedIsHeld, Is
<1>15. WaitsForOne(r)'
  BY <1>4, <1>5, <1>10, <1>11 DEF WaitsForOne, Is
<1>16. ToldIsOver(r)'
  BY <1>10 DEF ToldIsOver
<1>17. LooseIsNotObtained(r)'
  BY <1>2, <1>3, <1>5, <1>11 DEF Tie, LooseIsNotObtained, Is
<1>18. Progress(r)'
  BY <1>2, <1>3, <1>4 DEF Progress
<1>19. Tie(r)'
  BY <1>13, <1>14, <1>15, <1>16, <1>17, <1>18 DEF Tie
<1>20. r \notin short' \cup torn'
  BY <1>2 DEF IInv, DoomInv, Doomed
<1>21. StreamInv'
  <2>1. \A q \in Requests : pc[q] = "drive" => pc'[q] = "drive" /\ step'[q] = step[q]
    BY <1>2, <1>3 DEF Goes, TypeOK
  <2> QED
    BY <1>2, <2>1, StreamsStay DEF IInv
<1> QED
  BY <1>7, <1>8, <1>9, <1>19, <1>20, <1>21, RequestStepKeeps

\* What is driven is leased.
LEMMA DrivenIsLeased ==
  ASSUME IInv, NEW r \in Requests, pc[r] = "drive"
  PROVE  /\ Driven(r) \in Sources /\ Local(Driven(r)) /\ Tie(r) /\ Is(r, Driven(r), "leased")
         /\ Sqlite(Driven(r)) => gen[Driven(r)].st = "leased" /\ gen[Driven(r)].owner = r
         /\ ~Sqlite(Driven(r)) => lease[Driven(r)].st = "leased" /\ lease[Driven(r)].owner = r
<1>1. /\ Driven(r) \in Sources /\ Local(Driven(r)) /\ Tie(r)
      /\ Is(r, Driven(r), "leased")
  BY PlacesAreSources DEF IInv, TieInv, LocalInv, Tie, HeldIsLeased
<1>2. Leased(r, Driven(r))
  BY <1>1, LeasedMeans
<1>3. Sqlite(Driven(r)) => gen[Driven(r)].st = "leased" /\ gen[Driven(r)].owner = r
  BY <1>1, <1>2 DEF Leased, LeasedSqlite, LeasedPooled, Local, KindInv, NoLease
<1>4. ~Sqlite(Driven(r)) => lease[Driven(r)].st = "leased" /\ lease[Driven(r)].owner = r
  BY <1>1, <1>2 DEF Leased, LeasedSqlite, LeasedPooled, Local, KindInv, NoGeneration
<1> QED
  BY <1>1, <1>3, <1>4

\* A request that no longer drives leaves no stream behind.
LEMMA DriverLeaves ==
  ASSUME IInv, NEW r \in Requests, NEW to, pc' = [pc EXCEPT ![r] = to], step' = step,
         \A s \in Sources : stream'[s] # "none" =>
             stream[s] # "none" /\ (pc[r] = "drive" => s # Driven(r))
  PROVE  StreamInv'
<1> SUFFICES ASSUME NEW s \in Sources, stream'[s] # "none"
             PROVE  \E q \in Requests : (pc[q] = "drive" /\ Driven(q) = s)'
  BY DEF StreamInv
<1>1. PICK q \in Requests : pc[q] = "drive" /\ Driven(q) = s
  BY DEF IInv, StreamInv
<1>2. q # r
  BY <1>1
<1>3. (pc[q] = "drive" /\ Driven(q) = s)'
  BY <1>1, <1>2 DEF IInv, TypeOK, Driven
<1> QED
  BY <1>3

\* A statement is not opened where rows were cut short, nor outside a transaction.
LEMMA OpenStep ==
  ASSUME IInv, NEW r \in Requests, Open(r)
  PROVE  IInv'
<1>1. PICK s : s = Driven(r)
  OBVIOUS
<1>2. /\ kind' = kind /\ drifted' = drifted /\ stopped' = stopped /\ events' = events
      /\ reply' = reply /\ pc' = pc /\ step' = step /\ result' = result /\ answer' = answer
      /\ obtained' = obtained
      /\ pc[r] = "drive" /\ opens[r] < MaxOpens /\ opens' = [opens EXCEPT ![r] = @ + 1]
      /\ OpenMember(r, s) \/ OpenPooled(r, s)
  BY <1>1 DEF Open, world
<1>3. /\ s \in Sources /\ Local(s) /\ Tie(r)
      /\ Sqlite(s) => gen[s].st = "leased" /\ gen[s].owner = r
      /\ ~Sqlite(s) => lease[s].st = "leased" /\ lease[s].owner = r
  BY <1>1, <1>2, DrivenIsLeased
<1>4. TypeOK /\ WorldTypeOK /\ SqliteTypeOK /\ PooledTypeOK /\ LocalInv
  BY DEF IInv, TypeOK
<1>5. /\ member' = member /\ gen' = gen /\ lease' = lease /\ short' = short /\ torn' = torn
      /\ \A t \in Sources \ {s} :
            worker'[t] = worker[t] /\ stream'[t] = stream[t] /\ conn'[t] = conn[t]
      /\ SqliteTypeOK' /\ PooledTypeOK' /\ Local(s)'
  <2>1. CASE OpenMember(r, s)
    <3>1. /\ Sqlite(s) /\ ~gen[s].failed
          /\ worker' = [worker EXCEPT ![s] = "queued"] /\ stream' = [stream EXCEPT ![s] = "open"]
          /\ Believed(r, s) /\ member' = member /\ gen' = gen /\ conn' = conn /\ lease' = lease
          /\ torn' = torn
      BY <2>1 DEF OpenMember, pooledVars
    <3>2. ~(Exhausted(s) /\ stream[s] = "cut")
      BY <1>3, <3>1 DEF Exhausted, Local, WorkerInv
    <3>3. short' = short
      BY <3>1, <3>2 DEF Believed
    <3>4. SqliteTypeOK' /\ PooledTypeOK'
      BY <1>4, <3>1 DEF SqliteTypeOK, PooledTypeOK
    <3>5. /\ worker'[s] = "queued" /\ stream'[s] = "open"
          /\ \A t \in Sources \ {s} : worker'[t] = worker[t] /\ stream'[t] = stream[t]
      BY <1>3, <1>4, <3>1 DEF SqliteTypeOK
    <3>6. Local(s)'
      BY <1>2, <1>3, <3>1, <3>5 DEF Local, KindInv, MemberInv, WorkerInv, ConnInv, Sqlite
    <3> QED
      BY <3>1, <3>3, <3>4, <3>5, <3>6
  <2>2. CASE OpenPooled(r, s)
    <3>1. /\ ~Sqlite(s) /\ conn' = [conn EXCEPT ![s].busy = TRUE]
          /\ torn' = IF conn[s].txn THEN torn ELSE torn \cup {r}
          /\ lease' = lease /\ member' = member /\ gen' = gen /\ worker' = worker
          /\ stream' = stream /\ short' = short
      BY <2>2 DEF OpenPooled, sqliteVars
    <3>2. torn' = torn
      BY <1>3, <3>1 DEF Local, ConnInv
    <3>3. /\ conn' \in [Sources -> ConnType]
          /\ \A t \in Sources \ {s} : conn'[t] = conn[t]
          /\ conn'[s].free = conn[s].free /\ conn'[s].txn = conn[s].txn
          /\ conn'[s].cancel = conn[s].cancel
      BY <1>3, <1>4, <3>1 DEF PooledTypeOK, ConnType
    <3>4. SqliteTypeOK' /\ PooledTypeOK'
      BY <1>4, <3>1, <3>3 DEF SqliteTypeOK, PooledTypeOK, ConnType
    <3>5. Local(s)'
      BY <1>2, <1>3, <3>1, <3>3
      DEF Local, KindInv, MemberInv, WorkerInv, ConnInv, Sqlite
    <3> QED
      BY <3>1, <3>2, <3>3, <3>4, <3>5
  <2> QED
    BY <1>2, <2>1, <2>2
<1>6. \A t \in Sources : KeepsState(t) /\ NoBetter(t)
  BY <1>2, <1>5 DEF KeepsState, NoBetter, Owner, State, Sqlite
<1>7. LocalInv'
  <2>1. \A t \in Sources \ {s} : Local(t)'
    BY <1>2, <1>4, <1>5, OthersInPlace DEF LocalInv
  <2> QED
    BY <1>5, <2>1 DEF LocalInv
<1>8. TypeOK'
  <2>1. opens' \in [Requests -> 0 .. MaxOpens]
    BY <1>2, <1>4, RequestAssumption DEF TypeOK
  <2>2. WorldTypeOK'
    BY <1>2, <1>4 DEF WorldTypeOK
  <2> QED
    BY <1>2, <1>4, <1>5, <2>1, <2>2 DEF TypeOK
<1>9. StepOf(r)
  BY <1>2, <1>5, <1>6 DEF StepOf
<1>10. \A t \in Sources : SameFor(r, t)
  BY <1>6 DEF SameFor, KeepsState
<1>11. Tie(r)'
  BY <1>2, <1>3, <1>10, Bystander
<1>12. r \in short' \cup torn' => Doomed(r)'
  BY <1>2, <1>3, <1>5, <1>6, <1>10, DoomStays DEF IInv, DoomInv
<1>13. StreamInv'
  <2> SUFFICES ASSUME NEW t \in Sources, stream'[t] # "none"
               PROVE  \E q \in Requests : (pc[q] = "drive" /\ Driven(q) = t)'
    BY DEF StreamInv
  <2>1. CASE t = s
    <3>1. (pc[r] = "drive" /\ Driven(r) = t)'
      BY <1>1, <1>2, <2>1 DEF Driven
    <3> QED
      BY <3>1
  <2>2. CASE t # s
    <3>1. PICK q \in Requests : pc[q] = "drive" /\ Driven(q) = t
      BY <1>5, <2>2 DEF IInv, StreamInv
    <3>2. (pc[q] = "drive" /\ Driven(q) = t)'
      BY <1>2, <3>1 DEF Driven
    <3> QED
      BY <3>2
  <2> QED
    BY <2>1, <2>2
<1> QED
  BY <1>7, <1>8, <1>9, <1>11, <1>12, <1>13, RequestStepKeeps

\* What has read too little, or outside the transaction, goes into a closing that
\* will say so.
LEMMA DrivenEnds ==
  ASSUME IInv, NEW r \in Requests, NEW res \in {"ok", "err"}, pc[r] = "drive",
         FinishDriven(r, res), kind' = kind, drifted' = drifted, stopped' = stopped,
         events' \in 0 .. MaxEvents, short' \subseteq short \cup {r},
         r \in short' => r \in short \/ (Sqlite(Driven(r)) /\ gen[Driven(r)].failed)
  PROVE  IInv'
<1>1. PICK s : s = Driven(r)
  OBVIOUS
<1>2. /\ s \in Sources /\ Local(s) /\ Tie(r) /\ Is(r, s, "leased") /\ Progress(r)
      /\ Sqlite(s) => gen[s].st = "leased" /\ gen[s].owner = r
      /\ ~Sqlite(s) => lease[s].st = "leased" /\ lease[s].owner = r
  BY <1>1, DrivenIsLeased DEF Tie
<1>3. TypeOK /\ WorldTypeOK /\ SqliteTypeOK /\ PooledTypeOK /\ LocalInv
  BY DEF IInv, TypeOK
<1>4. /\ FinishMember(r, s) \/ FinishPooled(r, s, res)
      /\ result' = [result EXCEPT ![r] = res] /\ Goes(r, "finish")
      /\ step' = step /\ opens' = opens /\ answer' = answer /\ obtained' = obtained /\ torn' = torn
  BY <1>1 DEF FinishDriven
<1>5. pc'[r] = "finish" /\ step'[r] = step[r] /\ Driven(r)' = s
  BY <1>1, <1>3, <1>4 DEF Goes, TypeOK, Driven
<1>6. /\ worker' = worker /\ member' = member /\ conn' = conn
      /\ \A t \in Sources \ {s} :
            /\ gen'[t] = gen[t] /\ lease'[t] = lease[t] /\ stream'[t] = stream[t]
      /\ stream'[s] = "none"
      /\ SqliteTypeOK' /\ PooledTypeOK' /\ Local(s)' /\ NoBetter(s)
      /\ Owner(s)' = r
      /\ \/ State(s)' = "closing" /\ reply' = reply
         \/ State(s)' = "over" /\ reply' = [reply EXCEPT ![r] = "err"] /\ ~Sqlite(s)
  <2>1. CASE FinishMember(r, s)
    <3>1. /\ Sqlite(s) /\ stream' = [stream EXCEPT ![s] = "none"]
          /\ gen' = [gen EXCEPT ![s] = Finishing(gen[s])] /\ reply' = reply /\ member' = member
          /\ worker' = worker /\ conn' = conn /\ lease' = lease
      BY <2>1 DEF FinishMember, pooledVars
    <3>2. /\ Finishing(gen[s]) \in GenType /\ Finishing(gen[s]).st = "cleanup"
          /\ Finishing(gen[s]).owner = gen[s].owner /\ Finishing(gen[s]).failed = gen[s].failed
          /\ Finishing(gen[s]).awaited
      BY <1>2, <1>3 DEF SqliteTypeOK, GenType, Finishing
    <3>3. /\ gen' \in [Sources -> GenType] /\ gen'[s] = Finishing(gen[s])
          /\ \A t \in Sources \ {s} : gen'[t] = gen[t]
      BY <1>2, <1>3, <3>1, <3>2 DEF SqliteTypeOK, GenType
    <3>4. /\ stream' \in [Sources -> {"none", "open", "eof", "err", "cut"}] /\ stream'[s] = "none"
          /\ \A t \in Sources \ {s} : stream'[t] = stream[t]
      BY <1>2, <1>3, <3>1 DEF SqliteTypeOK
    <3>5. SqliteTypeOK' /\ PooledTypeOK'
      BY <1>3, <3>1, <3>3, <3>4 DEF SqliteTypeOK, PooledTypeOK, GenType
    <3>6. Local(s)'
      BY <1>2, <3>1, <3>2, <3>3, <3>4
      DEF Local, KindInv, MemberInv, WorkerInv, ConnInv, Sqlite
    <3>7. Owner(s)' = r /\ State(s)' = "closing" /\ NoBetter(s)
      BY <1>2, <3>1, <3>2, <3>3 DEF Owner, State, Sqlite, NoBetter
    <3> QED
      BY <3>1, <3>3, <3>4, <3>5, <3>6, <3>7
  <2>2. CASE FinishPooled(r, s, res)
    <3>1. /\ ~Sqlite(s) /\ member' = member /\ gen' = gen /\ worker' = worker /\ stream' = stream
          /\ conn' = conn
      BY <2>2 DEF FinishPooled, Spoiled, sqliteVars
    <3>2. PICK l \in LeaseType :
             /\ lease' = [lease EXCEPT ![s] = l] /\ l.owner = r
             /\ \/ l.st = "check" /\ reply' = reply
                \/ l.st = "discard" /\ reply' = [reply EXCEPT ![r] = "err"]
      <4>1. lease[s] \in LeaseType /\ lease[s].owner = r
        BY <1>2, <1>3, <3>1 DEF PooledTypeOK, LeaseType
      <4>2. CASE Spoiled(s)
        <5>1. /\ lease' = [lease EXCEPT ![s] = Discarded(lease[s])]
              /\ reply' = [reply EXCEPT ![r] = "err"]
          BY <4>1, <4>2 DEF Spoiled, Tells
        <5>2. /\ Discarded(lease[s]) \in LeaseType /\ Discarded(lease[s]).st = "discard"
              /\ Discarded(lease[s]).owner = r
          BY <4>1 DEF Discarded, LeaseType
        <5> QED
          BY <5>1, <5>2
      <4>3. CASE lease' = [lease EXCEPT ![s] = Checked(@)] /\ UNCHANGED <<conn, reply>>
        <5>1. lease' = [lease EXCEPT ![s] = Checked(lease[s])] /\ reply' = reply
          BY <4>3
        <5>2. /\ Checked(lease[s]) \in LeaseType /\ Checked(lease[s]).st = "check"
              /\ Checked(lease[s]).owner = r
          BY <4>1 DEF Checked, LeaseType
        <5> QED
          BY <5>1, <5>2
      <4> QED
        BY <2>2, <4>2, <4>3 DEF FinishPooled
    <3>3. /\ lease' \in [Sources -> LeaseType] /\ lease'[s] = l
          /\ \A t \in Sources \ {s} : lease'[t] = lease[t]
      BY <1>2, <1>3, <3>2 DEF PooledTypeOK, LeaseType
    <3>4. SqliteTypeOK' /\ PooledTypeOK'
      BY <1>3, <3>1, <3>3 DEF SqliteTypeOK, PooledTypeOK, LeaseType
    <3>5. Local(s)'
      BY <1>2, <3>1, <3>2, <3>3
      DEF Local, KindInv, MemberInv, WorkerInv, ConnInv, Sqlite
    <3>6. /\ Owner(s)' = r /\ NoBetter(s)
          /\ \/ State(s)' = "closing" /\ reply' = reply
             \/ State(s)' = "over" /\ reply' = [reply EXCEPT ![r] = "err"]
      BY <1>2, <3>1, <3>2, <3>3 DEF Owner, State, Sqlite, NoBetter
    <3>7. stream'[s] = "none"
      BY <1>2, <3>1 DEF Local, KindInv, WorkerInv, NoGeneration
    <3> QED
      BY <3>1, <3>3, <3>4, <3>5, <3>6, <3>7
  <2> QED
    BY <1>4, <2>1, <2>2
<1>7. \A t \in Sources \ {s} : KeepsState(t) /\ NoBetter(t) /\ Local(t)'
  BY <1>3, <1>6, OthersInPlace DEF LocalInv
<1>8. LocalInv'
  BY <1>6, <1>7 DEF LocalInv
<1>9. TypeOK'
  <2>1. WorldTypeOK'
    BY <1>3, <1>6 DEF WorldTypeOK
  <2>2. /\ pc' \in [Requests -> {"acquire", "begin", "compile", "drive", "finish",
                                 "undo", "undoing", "done"}]
        /\ result' \in [Requests -> {"ok", "err"}] /\ short' \in SUBSET Requests
    BY <1>3, <1>4 DEF TypeOK, Goes
  <2> QED
    BY <1>3, <1>4, <1>6, <2>1, <2>2 DEF TypeOK
<1>10. StepOf(r)
  BY <1>2, <1>3, <1>4, <1>6, <1>7 DEF StepOf, Goes, TypeOK, WorldTypeOK, Is
<1>11. \A t \in Sources \ {s} : Owner(t)' = Owner(t) /\ State(t)' = State(t)
  BY <1>7 DEF KeepsState
<1>12. \A t \in Sources : ~Is(r, t, "begin") /\ ~Is(r, t, "closing")
  BY <1>2, <1>3, NothingUnderWay
<1>13. Held(r)' = Held(r) \ {s} /\ Held(r) \subseteq Sources
  <2>1. /\ Fragments[r] \in Seq(Sources) /\ Len(Fragments[r]) \in 1 .. 2
        /\ \A i, j \in 1 .. Len(Fragments[r]) : Fragments[r][i] = Fragments[r][j] => i = j
    BY OrderOfAcquisition
  <2>2. step[r] \in 1 .. Len(Fragments[r]) /\ s = Fragments[r][step[r]]
    BY <1>1, <1>2 DEF Progress, Driven
  <2>3. Held(r) = {Fragments[r][i] : i \in step[r] .. Len(Fragments[r])}
    BY DEF Held
  <2>4. Held(r)' = {Fragments[r][i] : i \in step[r] + 1 .. Len(Fragments[r])}
    BY <1>5 DEF Held
  <2>5. /\ step[r] .. Len(Fragments[r]) = (step[r] + 1 .. Len(Fragments[r])) \cup {step[r]}
        /\ step[r] \notin step[r] + 1 .. Len(Fragments[r])
        /\ \A i \in step[r] + 1 .. Len(Fragments[r]) : i \in 1 .. Len(Fragments[r])
    BY <2>1, <2>2
  <2>6. \A i \in step[r] + 1 .. Len(Fragments[r]) : Fragments[r][i] # s
    BY <2>1, <2>2, <2>5
  <2> QED
    BY <1>2, <2>2, <2>3, <2>4, <2>5, <2>6, PlacesAreSources
<1>14. HeldIsLeased(r)'
  BY <1>2, <1>11, <1>13 DEF Tie, HeldIsLeased, Is
<1>15. LeasedIsHeld(r)'
  BY <1>2, <1>6, <1>11, <1>13 DEF Tie, LeasedIsHeld, Is
<1>16. WaitsForOne(r)'
  BY <1>5, <1>6, <1>11, <1>12 DEF WaitsForOne, Is
<1>17. ToldIsOver(r)'
  <2>1. reply[r] = "none"
    BY <1>2, <1>3, NothingUnderWay
  <2> QED
    BY <1>5, <1>6, <1>11, <1>12, <2>1 DEF ToldIsOver, Is
<1>18. LooseIsNotObtained(r)'
  BY <1>2, <1>4, <1>6, <1>11 DEF Tie, LooseIsNotObtained, Is
<1>19. Progress(r)'
  BY <1>2, <1>4, <1>5 DEF Progress
<1>20. Tie(r)'
  BY <1>14, <1>15, <1>16, <1>17, <1>18, <1>19 DEF Tie
<1>21. r \in short' \cup torn' => Doomed(r)'
  <2> SUFFICES ASSUME r \in short' \cup torn' PROVE Doomed(r)'
    OBVIOUS
  <2>1. Sqlite(s) /\ (gen[s].failed \/ ~member[s].txn)
    <3>1. CASE r \in short \cup torn
      BY <1>1, <3>1 DEF IInv, DoomInv, Doomed
    <3>2. CASE r \notin short \cup torn
      BY <1>1, <1>4, <3>2
    <3> QED
      BY <3>1, <3>2
  <2>2. gen'[s].failed \/ ~member'[s].txn
    BY <1>6, <2>1 DEF NoBetter
  <2>3. Sqlite(s)' /\ Is(r, s, "closing")'
    BY <1>6, <2>1 DEF Is, Sqlite
  <2> QED
    BY <1>5, <2>2, <2>3 DEF Doomed
<1>22. StreamInv'
  BY <1>1, <1>4, <1>6, DriverLeaves DEF Goes
<1> QED
  BY <1>8, <1>9, <1>10, <1>20, <1>21, <1>22, RequestStepKeeps

LEMMA DriveStep ==
  ASSUME IInv, NEW r \in Requests, DriveOk(r) \/ DriveErr(r)
  PROVE  IInv'
<1>1. CASE DriveOk(r)
  <2>1. /\ pc[r] = "drive" /\ Believed(r, Driven(r)) /\ FinishDriven(r, "ok")
        /\ kind' = kind /\ drifted' = drifted /\ stopped' = stopped /\ events' = events
    BY <1>1 DEF DriveOk, Calm, world
  <2>2. short' \subseteq short \cup {r}
    BY <2>1 DEF Believed
  <2>3. r \in short' => r \in short \/ (Sqlite(Driven(r)) /\ gen[Driven(r)].failed)
    <3>1. Local(Driven(r)) /\ Driven(r) \in Sources
      BY <2>1, DrivenIsLeased
    <3>2. Exhausted(Driven(r)) /\ stream[Driven(r)] = "cut" =>
             Sqlite(Driven(r)) /\ gen[Driven(r)].failed
      BY <3>1 DEF Exhausted, Local, KindInv, WorkerInv, NoGeneration
    <3> QED
      BY <2>1, <3>2 DEF Believed
  <2> QED
    BY <2>1, <2>2, <2>3, DrivenEnds DEF IInv, TypeOK, WorldTypeOK
<1>2. CASE DriveErr(r)
  <2>1. /\ pc[r] = "drive" /\ FinishDriven(r, "err") /\ short' = short
        /\ kind' = kind /\ drifted' = drifted /\ stopped' = stopped
        /\ events' = events \/ (events < MaxEvents /\ events' = events + 1)
    BY <1>2 DEF DriveErr, Calm, Happens, Counted, world
  <2>2. events' \in 0 .. MaxEvents
    BY <2>1, SourceAssumption DEF IInv, TypeOK, WorldTypeOK
  <2> QED
    BY <2>1, <2>2, DrivenEnds
<1> QED
  BY <1>1, <1>2

\* What a request lets go of is loose or over, and nothing else changes.
LEMMA LetGo ==
  ASSUME TypeOK, LocalInv, NEW r \in Requests, NEW s \in Sources, kind' = kind,
         gen'[s] = IF gen[s].owner = r THEN Abandoned(gen[s]) ELSE gen[s],
         lease'[s] = IF lease[s].owner = r THEN LeftBehind(s) ELSE lease[s],
         member'[s] = member[s], worker'[s] = worker[s], conn'[s] = conn[s],
         stream'[s] = stream[s] \/ (gen[s].owner = r /\ stream'[s] = "none"),
         gen[s].owner = r /\ gen[s].st = "leased" => stream'[s] = "none"
  PROVE  /\ gen'[s] \in GenType /\ lease'[s] \in LeaseType
         /\ Local(s)' /\ Owner(s)' = Owner(s) /\ NoBetter(s)
         /\ Owner(s) = r => State(s)' \in {"loose", "over"}
         /\ Owner(s) # r => State(s)' = State(s)
<1>1. Local(s) /\ gen[s] \in GenType /\ lease[s] \in LeaseType /\ r # Nobody
  BY SourceAssumption DEF LocalInv, TypeOK, SqliteTypeOK, PooledTypeOK, GenType, LeaseType
<1>2. CASE Sqlite(s)
  <2>1. lease[s] = NoLease /\ lease'[s] = NoLease
    BY <1>1, <1>2 DEF Local, KindInv, NoLease
  <2>2. CASE gen[s].owner # r
    <3>1. gen'[s] = gen[s] /\ stream'[s] = stream[s]
      BY <2>2
    <3> QED
      BY <1>1, <1>2, <2>1, <2>2, <3>1, OthersInPlace DEF KeepsState, Owner
  <2>3. CASE gen[s].owner = r
    <3>1. /\ gen'[s] = Abandoned(gen[s]) /\ gen[s].st # "none"
      BY <1>1, <2>3 DEF Local, MemberInv, NoGeneration
    <3>2. /\ gen'[s] \in GenType /\ gen'[s].owner = r /\ ~gen'[s].awaited
          /\ gen'[s].st = (IF gen[s].st = "leased" THEN "cleanup" ELSE gen[s].st)
          /\ gen'[s].failed = gen[s].failed /\ gen'[s].clean = gen[s].clean
      BY <1>1, <2>3, <3>1 DEF GenType, Abandoned, Dropped
    <3>3. Local(s)'
      BY <1>1, <1>2, <2>1, <3>1, <3>2
      DEF Local, KindInv, MemberInv, WorkerInv, ConnInv, Sqlite, NoLease, GenType
    <3>4. Owner(s)' = r /\ Owner(s) = r /\ State(s)' \in {"loose", "over"}
      BY <1>1, <1>2, <2>3, <3>1, <3>2 DEF Owner, State, Sqlite, GenType
    <3> QED
      BY <1>1, <2>1, <3>2, <3>3, <3>4 DEF NoBetter
  <2> QED
    BY <2>2, <2>3
<1>3. CASE ~Sqlite(s)
  <2>1. gen[s] = NoGeneration /\ gen'[s] = NoGeneration /\ stream'[s] = stream[s]
    BY <1>1, <1>3 DEF Local, KindInv, NoGeneration
  <2>2. CASE lease[s].owner # r
    <3>1. lease'[s] = lease[s]
      BY <2>2
    <3> QED
      BY <1>1, <1>3, <2>1, <2>2, <3>1, OthersInPlace DEF KeepsState, Owner
  <2>3. CASE lease[s].owner = r
    <3>1. lease'[s] = Discarded(lease[s]) /\ lease[s].st # "none"
      BY <1>1, <2>3 DEF Local, ConnInv, NoLease, LeftBehind
    <3>2. lease'[s] \in LeaseType /\ lease'[s].owner = r /\ lease'[s].st = "discard"
      BY <1>1, <2>3, <3>1 DEF LeaseType, Discarded
    <3>3. Local(s)'
      BY <1>1, <1>3, <2>1, <3>1, <3>2
      DEF Local, KindInv, MemberInv, WorkerInv, ConnInv, Sqlite
    <3>4. Owner(s)' = r /\ Owner(s) = r /\ State(s)' = "over"
      BY <1>3, <2>3, <3>2 DEF Owner, State, Sqlite
    <3> QED
      BY <1>1, <2>1, <3>2, <3>3, <3>4 DEF NoBetter
  <2> QED
    BY <2>2, <2>3
<1> QED
  BY <1>2, <1>3

LEMMA VanishStep ==
  ASSUME IInv, NEW r \in Requests, Vanish(r)
  PROVE  IInv'
<1>1. /\ kind' = kind /\ drifted' = drifted /\ stopped' = stopped
      /\ events < MaxEvents /\ events' = events + 1
      /\ reply' = [reply EXCEPT ![r] = "none"] /\ member' = member /\ worker' = worker
      /\ conn' = conn /\ step' = step /\ opens' = opens /\ result' = result
      /\ obtained' = obtained /\ short' = short /\ torn' = torn
      /\ pc[r] # "done" /\ Goes(r, "done") /\ answer' = [answer EXCEPT ![r] = "gone"]
      /\ gen' = [s \in Sources |-> IF gen[s].owner = r THEN Abandoned(gen[s]) ELSE gen[s]]
      /\ stream' = [s \in Sources |-> IF gen[s].owner = r THEN "none" ELSE stream[s]]
      /\ lease' = [s \in Sources |-> IF lease[s].owner = r THEN LeftBehind(s) ELSE lease[s]]
  BY DEF Vanish, Happens, Counted, Heard, Tells, history
<1>2. TypeOK /\ Tie(r) /\ WorldTypeOK /\ SqliteTypeOK /\ PooledTypeOK /\ LocalInv /\ Progress(r)
  BY DEF IInv, TieInv, TypeOK, Tie
<1>3. \A s \in Sources :
         /\ gen'[s] \in GenType /\ lease'[s] \in LeaseType
         /\ Local(s)' /\ Owner(s)' = Owner(s) /\ NoBetter(s)
         /\ Owner(s) = r => State(s)' \in {"loose", "over"}
         /\ Owner(s) # r => State(s)' = State(s)
  BY <1>1, <1>2, LetGo
<1>4. TypeOK'
  <2>1. WorldTypeOK'
    BY <1>1, <1>2, SourceAssumption DEF WorldTypeOK
  <2>2. /\ gen' \in [Sources -> GenType] /\ lease' \in [Sources -> LeaseType]
        /\ stream' \in [Sources -> {"none", "open", "eof", "err", "cut"}]
    BY <1>1, <1>2, <1>3 DEF SqliteTypeOK
  <2>3. SqliteTypeOK' /\ PooledTypeOK'
    BY <1>1, <1>2, <2>2 DEF SqliteTypeOK, PooledTypeOK, GenType, LeaseType
  <2> QED
    BY <1>1, <1>2, <2>1, <2>3 DEF TypeOK, Goes
<1>5. LocalInv'
  BY <1>3 DEF LocalInv
<1>6. StepOf(r)
  BY <1>1, <1>2, <1>3 DEF StepOf, KeepsState, Goes, TypeOK, WorldTypeOK
<1>7. /\ pc'[r] = "done" /\ answer'[r] = "gone" /\ reply'[r] = "none" /\ step'[r] = step[r]
  BY <1>1, <1>2 DEF TypeOK, WorldTypeOK, Goes
<1>8. \A s \in Sources : Owner(s)' = r => State(s)' \in {"loose", "over"}
  BY <1>3
<1>9. Tie(r)'
  <2>1. HeldIsLeased(r)' /\ LeasedIsHeld(r)' /\ WaitsForOne(r)'
    BY <1>7, <1>8 DEF Held, HeldIsLeased, LeasedIsHeld, WaitsForOne, Is
  <2>2. ToldIsOver(r)' /\ LooseIsNotObtained(r)'
    BY <1>7 DEF ToldIsOver, LooseIsNotObtained
  <2>3. Progress(r)'
    BY <1>2, <1>7 DEF Progress
  <2> QED
    BY <2>1, <2>2, <2>3 DEF Tie
<1>10. Doomed(r)'
  BY <1>7 DEF Doomed
<1>11. StreamInv'
  <2>1. ASSUME NEW s \in Sources, stream'[s] # "none"
        PROVE  stream[s] # "none" /\ (pc[r] = "drive" => s # Driven(r))
    <3>1. stream[s] # "none" /\ gen[s].owner # r
      BY <1>1, <2>1
    <3>2. Sqlite(s)
      BY <1>2, <3>1 DEF LocalInv, Local, KindInv, WorkerInv, NoGeneration
    <3> QED
      BY <3>1, <3>2, DrivenIsLeased
  <2> QED
    BY <1>1, <2>1, DriverLeaves DEF Goes
<1> QED
  BY <1>4, <1>5, <1>6, <1>9, <1>10, <1>11, RequestStepKeeps

\* Nobody reads from a generation whose request does not drive.
LEMMA NoStreamElsewhere ==
  ASSUME IInv, NEW r \in Requests, pc[r] # "drive", NEW s \in Sources, Is(r, s, "leased")
  PROVE  stream[s] = "none"
<1> SUFFICES ASSUME stream[s] # "none" PROVE FALSE
  OBVIOUS
<1>1. PICK q \in Requests : pc[q] = "drive" /\ Driven(q) = s
  BY DEF IInv, StreamInv
<1>2. Is(q, s, "leased")
  BY <1>1, DrivenIsLeased
<1> QED
  BY <1>1, <1>2 DEF Is

LEMMA BeginCutStep ==
  ASSUME IInv, NEW r \in Requests, BeginCut(r)
  PROVE  IInv'
<1>1. PICK s \in Sources : s = Waited(r)
  BY PlacesAreSources DEF IInv, TieInv, Tie
<1>2. /\ kind' = kind /\ drifted' = drifted /\ stopped' = stopped /\ events' = events
      /\ reply' = [reply EXCEPT ![r] = "none"] /\ member' = member /\ worker' = worker
      /\ stream' = stream /\ conn' = conn /\ step' = step /\ opens' = opens /\ result' = result
      /\ answer' = answer /\ obtained' = obtained /\ short' = short /\ torn' = torn
      /\ pc[r] = "begin" /\ Goes(r, "undo")
      /\ gen' = [gen EXCEPT ![s] = IF gen[s].owner = r THEN Abandoned(gen[s]) ELSE gen[s]]
      /\ lease' = [lease EXCEPT ![s] = IF lease[s].owner = r THEN LeftBehind(s) ELSE lease[s]]
  BY <1>1 DEF BeginCut, world, Heard, Tells, history
<1>3. TypeOK /\ Tie(r) /\ WorldTypeOK /\ SqliteTypeOK /\ PooledTypeOK /\ LocalInv /\ Progress(r)
  BY DEF IInv, TieInv, TypeOK, Tie
<1>4. /\ gen'[s] = IF gen[s].owner = r THEN Abandoned(gen[s]) ELSE gen[s]
      /\ lease'[s] = IF lease[s].owner = r THEN LeftBehind(s) ELSE lease[s]
      /\ \A t \in Sources \ {s} : gen'[t] = gen[t] /\ lease'[t] = lease[t]
  BY <1>2, <1>3 DEF SqliteTypeOK, PooledTypeOK
<1>5. gen[s].owner = r /\ gen[s].st = "leased" => stream'[s] = "none"
  <2>1. gen[s].owner = r /\ gen[s].st = "leased" => Is(r, s, "leased")
    BY <1>3, LeasedMeans DEF Leased, LeasedSqlite, LocalInv
  <2> QED
    BY <1>2, <2>1, NoStreamElsewhere
<1>6. /\ gen'[s] \in GenType /\ lease'[s] \in LeaseType
      /\ Local(s)' /\ Owner(s)' = Owner(s) /\ NoBetter(s)
      /\ Owner(s) = r => State(s)' \in {"loose", "over"}
      /\ Owner(s) # r => State(s)' = State(s)
  BY <1>2, <1>3, <1>4, <1>5, LetGo
<1>7. \A t \in Sources \ {s} : KeepsState(t) /\ NoBetter(t) /\ Local(t)'
  BY <1>2, <1>3, <1>4, OthersInPlace DEF LocalInv
<1>8. LocalInv'
  BY <1>6, <1>7 DEF LocalInv
<1>9. TypeOK'
  <2>1. WorldTypeOK'
    BY <1>2, <1>3 DEF WorldTypeOK
  <2>2. gen' \in [Sources -> GenType] /\ lease' \in [Sources -> LeaseType]
    <3>1. gen \in [Sources -> GenType] /\ lease \in [Sources -> LeaseType]
      BY <1>3 DEF SqliteTypeOK, PooledTypeOK, GenType, LeaseType
    <3>2. gen' = [gen EXCEPT ![s] = gen'[s]] /\ lease' = [lease EXCEPT ![s] = lease'[s]]
      BY <1>2, <1>4
    <3> QED
      BY <1>6, <3>1, <3>2
  <2>3. SqliteTypeOK' /\ PooledTypeOK'
    BY <1>2, <1>3, <2>2 DEF SqliteTypeOK, PooledTypeOK, GenType, LeaseType
  <2> QED
    BY <1>2, <1>3, <2>1, <2>3 DEF TypeOK, Goes
<1>10. StepOf(r)
  BY <1>2, <1>3, <1>6, <1>7 DEF StepOf, KeepsState, Goes, TypeOK, WorldTypeOK
<1>11. /\ pc'[r] = "undo" /\ answer'[r] = answer[r] /\ reply'[r] = "none" /\ step'[r] = step[r]
       /\ obtained'[r] = obtained[r]
  BY <1>2, <1>3 DEF TypeOK, WorldTypeOK, Goes
<1>12. \A t \in Sources \ {s} : Owner(t)' = Owner(t) /\ State(t)' = State(t)
  BY <1>7 DEF KeepsState
<1>13. \A t \in Sources : ~Is(r, t, "begin")' /\ ~Is(r, t, "closing")'
  <2>1. \A t \in Sources \ {s} : ~Is(r, t, "begin") /\ ~Is(r, t, "closing")
    BY <1>1, <1>2, <1>3 DEF Tie, WaitsForOne
  <2> QED
    BY <1>6, <1>12, <2>1 DEF Is
<1>14. HeldIsLeased(r)' /\ LeasedIsHeld(r)'
  BY <1>11 DEF Held, HeldIsLeased, LeasedIsHeld
<1>15. WaitsForOne(r)' /\ ToldIsOver(r)'
  BY <1>11, <1>13 DEF WaitsForOne, ToldIsOver
<1>16. LooseIsNotObtained(r)'
  <2>1. s \notin obtained[r]
    <3>1. step[r] \in step[r] .. Len(Fragments[r])
      BY <1>3, OrderOfAcquisition DEF Progress
    <3> QED
      BY <1>1, <1>2, <1>3, <3>1 DEF Progress, Waited
  <2> QED
    BY <1>3, <1>11, <1>12, <2>1 DEF Tie, LooseIsNotObtained, Is
<1>17. Progress(r)'
  BY <1>2, <1>3, <1>11 DEF Progress
<1>18. Tie(r)'
  BY <1>14, <1>15, <1>16, <1>17 DEF Tie
<1>19. Doomed(r)'
  BY <1>11 DEF Doomed
<1>20. StreamInv'
  <2>1. \A q \in Requests : pc[q] = "drive" => pc'[q] = "drive" /\ step'[q] = step[q]
    BY <1>2, <1>3 DEF Goes, TypeOK
  <2> QED
    BY <1>2, <2>1, StreamsStay DEF IInv
<1> QED
  BY <1>8, <1>9, <1>10, <1>18, <1>19, <1>20, RequestStepKeeps

\* One of the leases to be handed back goes into its closing.
LEMMA CloseStep ==
  ASSUME IInv, NEW r \in Requests, Undo(r), Leases(r) # {}
  PROVE  IInv'
<1>1. /\ kind' = kind /\ drifted' = drifted /\ stopped' = stopped /\ events' = events
      /\ reply' = reply /\ member' = member /\ worker' = worker
      /\ stream' = stream /\ conn' = conn /\ step' = step /\ opens' = opens /\ result' = result
      /\ answer' = answer /\ obtained' = obtained /\ short' = short /\ torn' = torn
      /\ pc[r] = "undo" /\ Goes(r, "undoing")
      /\ \E s \in Leases(r) : CloseLease(s)
  BY DEF Undo, world, history
<1>2. PICK s \in Sources : Leased(r, s) /\ CloseLease(s)
  BY <1>1 DEF Leases
<1>3. /\ TypeOK /\ Tie(r) /\ WorldTypeOK /\ SqliteTypeOK /\ PooledTypeOK /\ LocalInv
      /\ Progress(r) /\ Local(s)
  BY DEF IInv, TieInv, TypeOK, Tie, LocalInv
<1>4. Is(r, s, "leased") /\ stream[s] = "none"
  BY <1>1, <1>2, <1>3, LeasedMeans, NoStreamElsewhere
<1>5. /\ \A t \in Sources \ {s} : gen'[t] = gen[t] /\ lease'[t] = lease[t]
      /\ SqliteTypeOK' /\ PooledTypeOK' /\ Local(s)' /\ NoBetter(s)
      /\ Owner(s)' = r /\ State(s)' = "closing"
  <2>1. CASE Sqlite(s)
    <3>1. gen' = [gen EXCEPT ![s] = Finishing(gen[s])] /\ lease' = lease
      BY <1>2, <2>1 DEF CloseLease
    <3>2. gen[s].st = "leased" /\ gen[s].owner = r /\ lease[s] = NoLease
      BY <1>2, <1>3, <2>1
      DEF Leased, LeasedSqlite, LeasedPooled, Local, KindInv, NoLease
    <3>3. /\ Finishing(gen[s]) \in GenType /\ Finishing(gen[s]).st = "cleanup"
          /\ Finishing(gen[s]).owner = r /\ Finishing(gen[s]).failed = gen[s].failed
          /\ Finishing(gen[s]).awaited
      BY <1>3, <3>2 DEF SqliteTypeOK, GenType, Finishing
    <3>4. /\ gen' \in [Sources -> GenType] /\ gen'[s] = Finishing(gen[s])
          /\ \A t \in Sources \ {s} : gen'[t] = gen[t]
      BY <1>3, <3>1, <3>3 DEF SqliteTypeOK, GenType
    <3>5. SqliteTypeOK' /\ PooledTypeOK'
      BY <1>1, <1>3, <3>1, <3>4 DEF SqliteTypeOK, PooledTypeOK, GenType
    <3>6. Local(s)'
      BY <1>1, <1>3, <1>4, <2>1, <3>1, <3>2, <3>3, <3>4
      DEF Local, KindInv, MemberInv, WorkerInv, ConnInv, Sqlite
    <3>7. Owner(s)' = r /\ State(s)' = "closing" /\ NoBetter(s)
      BY <1>1, <2>1, <3>2, <3>3, <3>4 DEF Owner, State, Sqlite, NoBetter
    <3> QED
      BY <3>1, <3>4, <3>5, <3>6, <3>7
  <2>2. CASE ~Sqlite(s)
    <3>1. gen' = gen /\ lease' = [lease EXCEPT ![s] = Closed(s)]
      BY <1>2, <2>2 DEF CloseLease
    <3>2. lease[s].st = "leased" /\ lease[s].owner = r /\ gen[s] = NoGeneration
      BY <1>2, <1>3, <2>2
      DEF Leased, LeasedSqlite, LeasedPooled, Local, KindInv, NoGeneration
    <3>3. /\ Closed(s) \in LeaseType /\ Closed(s).st \in {"check", "rollback"}
          /\ Closed(s).owner = r
      <4>1. lease[s] \in LeaseType
        BY <1>3 DEF PooledTypeOK, LeaseType
      <4>2. /\ Checked(lease[s]) \in LeaseType /\ Checked(lease[s]).st = "check"
            /\ Checked(lease[s]).owner = r
        BY <3>2, <4>1 DEF LeaseType, Checked
      <4>3. /\ RolledBack(lease[s], TRUE) \in LeaseType
            /\ RolledBack(lease[s], TRUE).st = "rollback" /\ RolledBack(lease[s], TRUE).owner = r
        BY <3>2, <4>1 DEF LeaseType, RolledBack
      <4> QED
        BY <4>2, <4>3 DEF Closed
    <3>4. /\ lease' \in [Sources -> LeaseType] /\ lease'[s] = Closed(s)
          /\ \A t \in Sources \ {s} : lease'[t] = lease[t]
      BY <1>3, <3>1, <3>3 DEF PooledTypeOK, LeaseType
    <3>5. SqliteTypeOK' /\ PooledTypeOK'
      BY <1>1, <1>3, <3>1, <3>4 DEF SqliteTypeOK, PooledTypeOK, LeaseType
    <3>6. Local(s)'
      BY <1>1, <1>3, <2>2, <3>1, <3>2, <3>3, <3>4
      DEF Local, KindInv, MemberInv, WorkerInv, ConnInv, Sqlite
    <3>7. Owner(s)' = r /\ State(s)' = "closing" /\ NoBetter(s)
      BY <1>1, <2>2, <3>1, <3>3, <3>4 DEF Owner, State, Sqlite, NoBetter
    <3> QED
      BY <3>1, <3>4, <3>5, <3>6, <3>7
  <2> QED
    BY <2>1, <2>2
<1>6. \A t \in Sources \ {s} : KeepsState(t) /\ NoBetter(t) /\ Local(t)'
  BY <1>1, <1>3, <1>5, OthersInPlace DEF LocalInv
<1>7. LocalInv'
  BY <1>5, <1>6 DEF LocalInv
<1>8. TypeOK'
  BY <1>1, <1>3, <1>5 DEF TypeOK, WorldTypeOK, Goes
<1>9. StepOf(r)
  BY <1>1, <1>3, <1>4, <1>5, <1>6 DEF StepOf, Goes, TypeOK, Is
<1>10. pc'[r] = "undoing"
  BY <1>1, <1>3 DEF TypeOK, Goes
<1>11. \A t \in Sources \ {s} : Owner(t)' = Owner(t) /\ State(t)' = State(t)
  BY <1>6 DEF KeepsState
<1>12. /\ reply'[r] = "none"
       /\ \A t \in Sources : ~Is(r, t, "begin") /\ ~Is(r, t, "closing")
  BY <1>1, <1>3, NothingUnderWay
<1>13. Tie(r)'
  <2>1. HeldIsLeased(r)' /\ LeasedIsHeld(r)' /\ ToldIsOver(r)'
    BY <1>10, <1>12 DEF Held, HeldIsLeased, LeasedIsHeld, ToldIsOver
  <2>2. WaitsForOne(r)'
    BY <1>5, <1>10, <1>11, <1>12 DEF WaitsForOne, Is
  <2>3. LooseIsNotObtained(r)'
    BY <1>1, <1>3, <1>5, <1>11 DEF Tie, LooseIsNotObtained, Is
  <2>4. Progress(r)'
    BY <1>1, <1>3, <1>10 DEF Progress
  <2> QED
    BY <2>1, <2>2, <2>3, <2>4 DEF Tie
<1>14. Doomed(r)'
  BY <1>10 DEF Doomed
<1>15. StreamInv'
  <2>1. \A q \in Requests : pc[q] = "drive" => pc'[q] = "drive" /\ step'[q] = step[q]
    BY <1>1, <1>3 DEF Goes, TypeOK
  <2> QED
    BY <1>1, <2>1, StreamsStay DEF IInv
<1> QED
  BY <1>7, <1>8, <1>9, <1>13, <1>14, <1>15, RequestStepKeeps

-----------------------------------------------------------------------------
(* The invariant.                                                           *)

LEMMA InitiallyInv == Init => IInv
<1> SUFFICES ASSUME Init PROVE IInv
  OBVIOUS
<1>1. TypeOK
  BY SourceAssumption, RequestAssumption
  DEF Init, WorldInit, SqliteInit, PooledInit, TypeOK, WorldTypeOK, SqliteTypeOK, PooledTypeOK,
      NoGeneration, NoLease, Fresh
<1>2. \A s \in Sources :
         /\ gen[s] = NoGeneration /\ lease[s] = NoLease /\ conn[s] = Fresh
         /\ member[s].free /\ ~member[s].txn /\ ~member[s].poisoned
         /\ worker[s] = "free" /\ stream[s] = "none"
  BY DEF Init, SqliteInit, PooledInit
<1>3. ASSUME NEW s \in Sources
      PROVE  Owner(s) = Nobody /\ State(s) = "none" /\ Local(s)
  <2>1. /\ gen[s].st = "none" /\ gen[s].owner = Nobody
        /\ lease[s].st = "none" /\ lease[s].owner = Nobody
        /\ conn[s].cancel = "none"
    BY <1>2 DEF NoGeneration, NoLease, Fresh
  <2>2. Owner(s) = Nobody
    BY <2>1 DEF Owner
  <2>3. State(s) = "none"
    BY <2>1 DEF State
  <2>4. KindInv(s) /\ MemberInv(s)
    BY <1>2, <2>1 DEF KindInv, MemberInv
  <2>5. WorkerInv(s) /\ ConnInv(s)
    BY <1>2, <2>1 DEF WorkerInv, ConnInv
  <2> QED
    BY <2>2, <2>3, <2>4, <2>5 DEF Local
<1>4. LocalInv
  BY <1>3 DEF LocalInv
<1>5. ASSUME NEW r \in Requests
      PROVE  Tie(r)
  <2>1. /\ pc[r] = "acquire" /\ step[r] = 1 /\ answer[r] = "none" /\ obtained[r] = {}
        /\ reply[r] = "none"
    BY DEF Init, WorldInit
  <2>2. Held(r) = {}
    <3>1. 1 .. step[r] - 1 = {}
      BY <2>1
    <3>2. Held(r) = {AcquireOrder(r)[i] : i \in 1 .. step[r] - 1}
      BY <2>1 DEF Held
    <3> QED
      BY <3>1, <3>2
  <2>3. HeldIsLeased(r) /\ LeasedIsHeld(r) /\ WaitsForOne(r) /\ ToldIsOver(r)
    BY <1>3, <2>1, <2>2 DEF HeldIsLeased, LeasedIsHeld, WaitsForOne, ToldIsOver, Is
  <2>4. Len(Fragments[r]) \in 1 .. 2
    BY OrderOfAcquisition
  <2>5. \A x : x \notin obtained[r]
    BY <2>1
  <2>6. LooseIsNotObtained(r)
    BY <2>5 DEF LooseIsNotObtained
  <2>7. step[r] \in 1 .. Len(Fragments[r])
    <3>1. 1 \in 1 .. Len(Fragments[r])
      BY <2>4
    <3> QED
      BY <2>1, <3>1
  <2>8. Progress(r)
    <3>1. \A i \in step[r] .. Len(Fragments[r]) : AcquireOrder(r)[i] \notin obtained[r]
      BY <2>5
    <3>2. (pc[r] = "compile" => step[r] = 1) /\ (answer[r] = "none" <=> pc[r] # "done")
      BY <2>1
    <3> QED
      BY <2>7, <3>1, <3>2 DEF Progress
  <2> QED
    BY <2>3, <2>6, <2>8 DEF Tie
<1>6. StreamInv /\ DoomInv
  BY <1>2 DEF StreamInv, DoomInv, Init
<1> QED
  BY <1>1, <1>4, <1>5, <1>6 DEF IInv, TieInv

LEMMA InvPreserved == IInv /\ [Next]_vars => IInv'
<1> SUFFICES ASSUME IInv, [Next]_vars PROVE IInv'
  OBVIOUS
<1>1. ASSUME NEW r \in Requests, RequestStep(r)
      PROVE  IInv'
  <2>1. CASE AcquireFails(r) \/ ConnectFails(r) \/ BeginErr(r) \/ UndoReturns(r)
    BY <2>1, StepsToUndo
  <2>2. CASE Undo(r)
    BY <2>2, UndoneStep, CloseStep
  <2>3. CASE TakePermit(r)
    BY <2>3, TakeStep
  <2>4. CASE Begun(r)
    BY <2>4, BegunStep
  <2>5. CASE BeginCut(r)
    BY <2>5, BeginCutStep
  <2>6. CASE Compile(r)
    BY <2>6, CompileStep
  <2>7. CASE Open(r)
    BY <2>7, OpenStep
  <2>8. CASE DriveOk(r) \/ DriveErr(r)
    BY <2>8, DriveStep
  <2>9. CASE FinishReturns(r)
    BY <2>9, FinishStep
  <2>10. CASE Vanish(r)
    BY <2>10, VanishStep
  <2> QED
    BY <1>1, <2>1, <2>2, <2>3, <2>4, <2>5, <2>6, <2>7, <2>8, <2>9, <2>10
    DEF RequestStep, Proceed
<1>2. ASSUME NEW s \in Sources,
             \/ Begins(s) \/ CleansUp(s) \/ LastGoes(s) \/ Row(s) \/ WorkerRuns(s)
             \/ LeaseRuns(s) \/ LeaseFails(s) \/ ServerRuns(s) \/ CancelRuns(s) \/ Closes(s)
      PROVE  IInv'
  BY <1>2, SourceSteps, RowStep
<1>3. CASE WorldMoves \/ UNCHANGED vars
  BY <1>3, WorldStep
<1> QED
  BY <1>1, <1>2, <1>3 DEF Next

(* What IInv says holds in every reachable state.                           *)
THEOREM InvHolds == Spec => []IInv
<1> QED
  BY InitiallyInv, InvPreserved, PTL DEF Spec

(* The variables keep their types: the states of generations, leases,       *)
(* workers, connections and requests are those that the model names.        *)
THEOREM TypeCorrect == Spec => []TypeOK
<1>1. IInv => TypeOK
  BY DEF IInv
<1> QED
  BY <1>1, InvHolds, PTL

(* A connection that can be taken is idle: the permit of a SQLite member    *)
(* comes back only behind the cleanup and the last worker, and a pooled     *)
(* slot only behind an acknowledged ROLLBACK or as another connection.      *)
THEOREM WhatIsFreeIsClean == Spec => []FreeMemberIsClean
<1>1. IInv => FreeMemberIsClean
  <2> SUFFICES ASSUME IInv, NEW s \in Sources
               PROVE  /\ member[s].free /\ ~member[s].closed =>
                            /\ ~member[s].txn /\ ~member[s].poisoned
                            /\ Gone(s) /\ stream[s] = "none"
                      /\ conn[s].free => conn[s] = Fresh
    BY DEF FreeMemberIsClean
  <2>1. Local(s)
    BY DEF IInv, LocalInv
  <2> QED
    BY <2>1 DEF Local, MemberInv, WorkerInv, ConnInv, Gone
<1> QED
  BY <1>1, InvHolds, PTL

(* A request that succeeds has read every row in the transaction of its     *)
(* generation, and none of its results was cut short by a worker's panic:   *)
(* what was lost is remembered in the generation, and fails its finish.     *)
THEOREM WhatSucceedsIsSound == Spec => []SuccessIsSound
<1>1. IInv => SuccessIsSound
  <2> SUFFICES ASSUME IInv, NEW r \in Requests, answer[r] = "ok", r \in short \cup torn
               PROVE  FALSE
    BY DEF SuccessIsSound
  <2>1. pc[r] = "done"
    BY DEF IInv, TieInv, Tie, Progress
  <2> QED
    BY <2>1 DEF IInv, DoomInv, Doomed
<1> QED
  BY <1>1, InvHolds, PTL

(* A request that has answered has seen the end of every generation it was  *)
(* given, whichever of its sources failed, and however often.               *)
THEOREM WhatHasAnsweredHoldsNothing == Spec => []AnsweredHoldsNothing
<1>1. IInv => AnsweredHoldsNothing
  <2> SUFFICES ASSUME IInv, NEW r \in Requests, NEW s \in Sources,
                      answer[r] \in {"ok", "err"}, s \in obtained[r]
               PROVE  /\ gen[s].owner = r => gen[s].st = "ended"
                      /\ lease[s].owner = r => lease[s].st = "discard"
    BY DEF AnsweredHoldsNothing
  <2>1. Tie(r) /\ Local(s) /\ TypeOK /\ r # Nobody
    BY SourceAssumption DEF IInv, TieInv, LocalInv
  <2>2. pc[r] = "done"
    BY <2>1 DEF Tie, Progress
  <2>3. ~Is(r, s, "leased")
    BY <2>1, <2>2 DEF Tie, LeasedIsHeld, Held
  <2>4. ~Is(r, s, "begin") /\ ~Is(r, s, "closing")
    BY <2>1, <2>2, NothingUnderWay
  <2>5. ~Is(r, s, "loose")
    BY <2>1 DEF Tie, LooseIsNotObtained
  <2>6. gen[s] \in GenType /\ lease[s] \in LeaseType
    BY <2>1 DEF TypeOK, SqliteTypeOK, PooledTypeOK, GenType, LeaseType
  <2>7. ASSUME gen[s].owner = r
        PROVE  gen[s].st = "ended"
    <3>1. Sqlite(s) /\ gen[s].st # "none"
      BY <2>1, <2>7 DEF Local, KindInv, MemberInv, NoGeneration
    <3> QED
      BY <2>3, <2>4, <2>5, <2>6, <2>7, <3>1 DEF Is, Owner, State, GenType
  <2>8. ASSUME lease[s].owner = r
        PROVE  lease[s].st = "discard"
    <3>1. ~Sqlite(s) /\ lease[s].st # "none"
      BY <2>1, <2>8 DEF Local, KindInv, ConnInv, NoLease
    <3> QED
      BY <2>3, <2>4, <2>5, <2>6, <2>8, <3>1 DEF Is, Owner, State, LeaseType
  <2> QED
    BY <2>7, <2>8
<1> QED
  BY <1>1, InvHolds, PTL
=============================================================================
