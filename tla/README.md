# A TLA+ verification of semantic-fabric

semantic-fabric answers SPARQL queries over relational sources by translating
them to SQL. The translation is sequential; what is hard to get right, and hard
to test, is the server around it: an immutable *generation* (mapping, ontology
and observed schemas) that coordinators replace while requests use it, read
transactions that must outlive or be cleaned up after the requests they serve,
budgets that several phases of one request share, a parser process that may do
anything, native work that outlives the future that started it, a shutdown that
has to end all of this within a bound, and beside the server an authority that
hands out leases through a database whose answers may be lost. This directory
models that part, checks it with TLC on small instances and proves its safety
with TLAPS for every instance: every invariant, action property and refinement
that a passing run checks is also a theorem, and what is left to TLC alone is
liveness.

Paths below are relative to the repository's root; `sf-serve` stands for
`crates/sf-serve/src`, and so on. `PROJECT.json` maps every definition to the
lines it stands for, lists the components with what is left out of each, and
lists each hazard of the code at its line with the properties that cover it.

## 1. Inventory

### The parts with state

| Component | State | Operations | Talks to |
|---|---|---|---|
| Runtime activation (`sf-serve/activation.rs`, `activation_reload.rs`) | one value under an `RwLock`: ready with a snapshot, or not ready with a cause; an activation id and a state revision | `readiness`, `lease`, `publish` against an expected readiness, `fence`, administrative closing | both coordinators, every request, shutdown |
| Authored reload (`reload.rs`, `reload/baseline.rs`) | the baseline (inputs and observations served), the current attempt's token, a blocking builder, a control permit in the verified mode | tick, capture, parse, observe each source, recapture, finish, timeout, panic, drop | runtime, files, sources, shutdown |
| PostgreSQL Direct lifecycle (`pg_direct_lifecycle/`) | the expectation last published, a build task, a stop channel, a planned flag, a control permit | probe, build, join a late build, monitor, `shutdown`, `fail_closed`, drop | runtime, source, background future of `startup_direct.rs` |
| Request admission and budget (`request_deadline.rs`, `budget.rs`, `config.rs`) | per request: deadline, sticky cause, shutdown observer, admission permit held by clones | mint, checkpoint, lease, `try_acquire`, second checkpoint, `retain_admission`, run until the deadline | runtime, shutdown phases, workers, body |
| Serving and shutdown (`lifecycle.rs`) | phase `Running`/`Draining`/`Forced` on a watch channel; the graceful future; drain and cleanup deadlines | `begin_shutdown`, drain, force, await owned work | everything above |
| Generation leases and connections (`generation.rs`, `federation.rs`, `pg_generation/`, `mysql_generation.rs`, `mysql_query/`, `backend/pg_conn.rs`, `sf-sql/backend/sqlite/generation.rs`, `owned*.rs`) | a semaphore and a connection per member, an open transaction, an operation barrier, a poisoned mutex, pool slots, statements the server still runs | acquire in source order, begin, observe, operate, finish, close, cleanup after cancellation, cancel, discard | requests, sources |
| Compilation (`deadline.rs`, `sf-sparql/parser_isolation/supervisor/`, `runtime.rs`) | a compiler slot, the blocking thread that owns it, one parser process with its output, exit and number | submit, spawn, handshake, exchange, EOF, exit, kill group / exact / fallback, sweep, reap, abandon | request budget, kernel, parser process |
| Response body (`terminal_body.rs`, `stream.rs`) | bounded channel, one-shot terminal outcome, phases of the fused body | spawn, send, finish, poll, client disconnect | request budget, hyper |
| Query budget (`sf-core/query_control.rs`, `query_control/reservation.rs`) | atomic counters, a reservation ledger under a mutex, a sticky cause under a reader-writer lock | `consume`, `reserve`, token drop, `terminate` | every phase of a query |
| Capture authority (`sf-capture-supervisor`) | a head, an event log, a row per run and per resource; in PostgreSQL, transactions on them | register, grant a lease, start an attempt, end it before or after the start, witness; apply with exact replay and exact recovery | callers that retry, PostgreSQL, a second pool |

### The parts without, or with little

* `sf-sparql`'s compiler (unfold, unify, saturate, IQ, emission), `sf-mapping`,
  `sf-validation`: large pure functions on data.
* `sf-sql`'s drivers and introspection, `sf-cli`: I/O and formatting.
* The plan cache, the bounded federated join and the global sort with its spill:
  state of one request or of one immutable binding.
* `sf-conformance`, `sf-bench`, `coding-harness`, `scripts`, `vendor`: around the
  product.

### What is hard, and the properties that make it correct

* **Transitions against a token.** A coordinator reads the readiness, works for
  seconds, then publishes or fences against what it read. No transition succeeds
  over an intervening one, closing is final, a lease pins one generation,
  counters end in closing.
* **Observation while the world moves.** What was seen to differ already refuses
  new requests; what is served is what the next observation is compared with; a
  failed attempt leaves the runtime not ready; the runtime heals when the world
  does.
* **Work that cannot be aborted.** Builders, build tasks, workers and native
  cleanup outlive timeouts and callers. No build is detached, permits and slots
  are returned exactly once and not before the work has ended.
* **Connections after failures.** Whatever became of the request that used a
  connection, the next one finds it clean or does not get it; a result cut short
  by a panic is not taken for a whole one; two requests never wait for each
  other's members for ever.
* **Abnormal ends.** No generation is served that nobody watches.
* **Shutdown.** Latecomers are not admitted, admitted requests drain, serving
  returns within its bounds and owns nothing when it does.
* **An untrusted process.** No signal reaches a process that has inherited a
  number, no answer is believed before the process has ended well and is reaped,
  and every request ends whatever the process does.
* **Results cut short.** A clean end implies the whole result; a reader is told
  how it ended.
* **Shared accounting.** No limit exceeded in any interleaving, sealing is a cut,
  one cause.
* **Leases through a database.** Fences grow, leases exclude each other, a
  commit whose outcome nobody heard is either found again or reported as unknown,
  and the tables are those of an atomic authority.

## 2. Modules

| Module | Models | Abstract specification |
|---|---|---|
| `ActivationState` | the guarded value of `RuntimeManager` and its transitions, as operators that the other modules extend | |
| `ReadinessContract` | what everybody may rely on: readiness moves by publishing the next activation, reporting an observation, or closing | is one |
| `RuntimeActivation` | the manager with any number of coordinators and requests | `ReadinessContract` |
| `AuthoredReload` | coordinator, builder, world, permit, shutdown | `ReadinessContract` |
| `DirectLifecycle` | coordinator, build task, monitor, supervisor, background future | `ReadinessContract` (in its proofs) |
| `ServeLifecycle` | requests from connection to last clone of their budget, shutdown phases, serving task, control gate | |
| `GenerationSources` | what the generations of all kinds of source share: schemas, budgets, what a request awaits | |
| `SqliteGeneration` | members of verified SQLite sources: transaction, workers, mutex, cleanup task | |
| `PooledGeneration` | connections of PostgreSQL and MySQL sources: set-up, finish, close, cancel, discard | |
| `FederatedRequests` | requests over one or two sources; composes the two modules before it | |
| `ParserWorker` | one compilation: handler, slot, blocking thread, parser process, signals | |
| `ResultStream` | what a client may conclude from a streamed result: a gapless beginning, then one verdict | is one |
| `StreamBody` | producer task, bounded channel, terminal outcome, fused body, client, budget | `ResultStream` |
| `QueryExecution` | composes `ParserWorker` and `StreamBody` under one budget, from the handler's start to the body's end | `ResultStream` |
| `AtomicBudget` | a query budget whose calls take effect at one instant | is one |
| `QueryBudget` | the same with every lock step and every turn of the compare-exchange loop separate | `AtomicBudget` |
| `AuthorityPlanner` | `plan_transition` and `finalize_transition`, as pure operators | |
| `AuthorityKernel` | the atomic authority, which is the memory store | is one |
| `PostgresAuthority` | the PostgreSQL store: concurrent transactions, failures, recovery; extends the kernel, whose tables are its committed ones (`StoreInit`, `StoreNext`, `StoreSpec` are the store's own) | `AuthorityKernel` |
| `*Proofs` | theorems about the module they are named for; `AuthorityProofs` is about the kernel and the PostgreSQL store | |
| `MC*` | constants and symmetry for TLC | |

How state corresponds to code:

* `rt` is `RuntimeManager.state`; `NotReadyState` carries no snapshot, as
  `RuntimeState::NotReady` does not. `MaxRevision` is `u64::MAX`: transitions are
  written with the bound of `checked_add`, so exhaustion is part of every run.
* A coordinator's program counter (`worker`), its token (`expected`,
  `worker.token`) and its task's (`builder`, `build`) are the local variables of
  the loops. A step of a model ends where the code awaits, locks or unlocks.
  `begin_shutdown` is two steps, since its callers and observers run on other
  threads: `phase` moves, and later `closing` becomes `rt` closed.
* In `ServeLifecycle` `owners[r]` is the set of holders of clones of a budget;
  `OwnedBy` returns the permit with the last, which is what dropping the last
  `Arc` of the budget does. `available` is the semaphore.
* In the generation modules each source has one connection, `member` (SQLite) or
  `conn` (pooled). `gen` is `GenerationState` and whoever owns it, the lease or
  the detached cleanup task; `worker` is the blocking worker counted in
  `operations.active`, `stream` what the receiver of its rows is to find. `lease`
  is `DirtyGeneration` or `MysqlQuery` and, once they are dropped, their
  `Discard`. `reply` is the value of the `begin` or `finish` a request awaits; when
  the request vanishes its `pc` says so and nobody hears the reply. Which kinds
  the sources are is chosen initially among `Deployments`.
* In `ParserWorker` `thread` is where the blocking thread is; `path` says on whose
  behalf it kills: `contain` (an error), `drop` (the guard's `Drop`, on a panic) or
  `unbound` (before the process was bound to the guard). `pid` is who owns the worker's number by now,
  and `struck` whom the last signal by number has hit. `told` is the thread's
  result. The parser's output is a sequence of parts, any of which may be junk.
* In `StreamBody` a result is a header, rows and a footer, serialised in that
  order; `delivered` is the concatenation of what the body yielded, so the
  refinement of `ResultStream` is about contents, not counts. The task keeps a
  sender after the producer's is gone: the channel is closed for the body only
  when `pc` is `"over"`.
* In `QueryBudget` who holds which lock follows from `pc`: `Reading` and
  `InLedger`. `charged`, `used` and `terminal` are shared with `AtomicBudget`
  directly, so the refinement needs no mapping.
* In the authority's modules an event's digest is its place in the log, and 0
  for none. `Accepts` is `plan_transition`, `RunAfter` and `ResourcesAfter` are
  `finalize_transition`. In `PostgresAuthority` `runs`, `resources` and `events` are
  the committed tables, `snapshot[c]` what a SERIALIZABLE transaction reads, and
  `tx` the transaction that holds the head's row lock with what it has staged; it
  belongs to the server and survives its call. The tables are shared with the
  kernel, so that refinement needs no mapping either.
* The variables `published`, `moved`, `obtained`, `torn`, `short`, `struck`, `wrote`,
  `mintedIn` and the `outcome` of the reload are history: only properties read them.

Each definition whose name says what it does wrong (`CanPublishById`,
`AdmitUnchecked`, `AbandonWithSlot`, ...) is a plausible bug of the definition
after it. Replacing the one with the other makes TLC report the property named
for it under `mutants` in `PROJECT.json`.

## 3. Runs

All runs use `tlc -workers 2 -config <cfg> <module>`.

| Run | Distinct states | What it shows |
|---|---|---|
| `activation` | 12 thousand | no ABA, leases pinned, closing final, the contract is implemented |
| `reload` | 473 thousand | safety of the authored reload in both modes over two sources; it heals; shutdown ends it |
| `reload_retry` | violated | finding 1 below |
| `direct` | 515 thousand | safety and liveness of the Direct lifecycle |
| `direct_stop` | violated | finding 2 below |
| `serve` | 253 thousand | admission, permits, drain and forced shutdown |
| `generations` | 529 thousand | connections come back clean or not at all, successes are whole, no request waits for ever |
| `query` | 120 thousand | the parser is contained, its slot and its answer are sound, the body tells the truth, the request ends |
| `budget` | 1.6 million, up to symmetry | limits, sealing, linearizability, no deadlock |
| `authority_kernel` | 23 thousand | leases continue, fences order them, success is clean |
| `authority_release` | violated | finding 3 below |
| `authority_postgres` | 169 thousand | the PostgreSQL store is the atomic authority, answers are true, calls are answered |

The runs list the properties that say something about the code. Each component's
`TypeOK` (`StoreTypeOK` for the PostgreSQL store, `Parser!TypeOK` for a compilation) is a
theorem.

Bounds, and why they are enough:

* `activation`: two coordinators, two requests, `MaxRevision` 4. The races are
  between two actors of each kind, and the counters are exhausted in the run.
* `reload`, `direct`: `MaxRevision` 7 and 6, more than the transitions needed
  before the budgets of changes and faults are spent, and small enough that
  exhaustion is reached too. `MaxChanges` 2: a change during an attempt and one
  during the attempt that repairs it. `MaxFaults` 1 and 2. `MaxSpareAttempts`
  bounds attempts that have nothing to repair; attempts that could heal the
  runtime are never bounded, so the bound does not decide `HealsOnceServable`.
* `serve`: two requests for one permit, all three modes.
* `generations`: two requests that need the single connections of the same two
  sources in opposite orders of their plans, over SQLite with PostgreSQL and
  MySQL with SQLite, so that every pair of protocols meets in one request or the
  other's cleanup. `MaxEvents` 2 is shared by everything that goes wrong (drift, a
  stopped budget, a client that leaves, a failure, a panic): one mishap and one
  during its handling. `MaxOpens` 2 statements per fragment: one after another on
  the same connection.
* `query`: up to five rows make chunks of two pieces over a channel of two
  chunks: the channel fills with pieces left to send, and the last chunk is
  sometimes a full one and sometimes not. The parser writes at most two parts
  ahead of its reader, which includes an answer followed by junk. Three refused
  signals are what it takes to leave a process alive.
* `budget`: three threads, because a lost update needs two and a seal between
  them a third. The counters end at 4 with limits 2, 3 and 1: exceeding a limit
  and overflowing the counter are different calls, and both happen. A
  compare-exchange that fails spuriously is a stutter there.
* `authority_kernel`: two runs, two resources leased singly or together, fences
  to 3, clock readings before and after expiry, seven events:
  one run to its witness and the other up to its lease of the same resources. Requests include wrong references, wrong fences and a digest reused
  with another content. `authority_release` needs five events.
* `authority_postgres`: two concurrent calls, which may be made again without
  bound, two runs that want one resource, three events, fences to 2.

Deadlock is checked in `budget` and `activation`. The other systems really stop: a
server that has returned, or a request that is done, has no further step.

Fairness, and what justifies it:

* `reload`: the tokio runtime polls the coordinator and its timers (`Tick`,
  `StartAttempt`, `Finishing`), blocking threads run (`Building`), a cancel task is
  bounded by one second (`CleanupEnds`), the caller of `begin_shutdown` reaches its
  second half, an aborted task ends. Nothing makes files change or steps fail,
  and nothing makes them stop failing but the bound.
* `direct`: the same, and strong fairness of `StopAtTick`, because the
  coordinator's selects are biased towards the stop signal: a stop that is ready
  whenever the loop comes round is taken, though probing disables it for a while.
* `serve`: timers fire and the signal task, serving task and handlers are polled.
  No worker, producer, client, coordinator or background future is assumed to
  end, which is the point of `SignalEndsServing`, `HandlersEnd` and
  `UnwatchedRuntimeCloses`.
* `generations`: handlers are polled, blocking workers run, servers answer,
  permits are handed out, cleanup tasks run. Nothing obliges a budget to stop, a
  pool to give up waiting or a client to leave, so `RequestsEnd` does not rest on a
  deadline.
* `query`: the runtime polls handler, task and body; the blocking thread runs; the
  kernel ends what it has killed; both deadlines come. The parser owes no output
  and no exit, the driver no rows, and the client need not read.
* `authority_postgres`: calls take their steps and the server decides a submitted
  COMMIT. `LockHead` is strongly fair because PostgreSQL queues the waiters of a
  row lock. No connection has to break or to hold.

### Findings

1. `reload_retry` (`reload.rs:132`): after a failed verified attempt whose native
   cleanup still owns the control permit, the next tick takes
   `Err(_) => break`, and the worker's guard shuts the server down. The README
   (line 248) and ADR-0050 (lines 355-356) promise retries while not ready; the
   Direct coordinator does retry on the same condition.
2. `direct_stop` (`coordinator.rs:195`): `begin_shutdown` moves the phase before it
   closes the runtime. `shutdown()`, woken by the phase, can read a runtime that
   is still ready and report `ShuttingDown` for a planned stop, which the serving
   task turns into forced shutdown. The test at
   `coordinator/tests.rs:461` expects success.
3. `authority_release` (`command.rs:304`): cleanup evidence is demanded only of the
   disposition `ReleasedAfterCleanup`. The terminal of an attempt that did start may
   report incomplete cleanup with `ReleasedUnstarted`, and `reusable()` hands its
   resources to the next run. ADR-0042 (line 333) says that expiry and missing
   cleanup never release a started resource.

## 4. Proofs

`tlapm M.tla` on each `*Proofs` module proves the theorems below for any values
of the constants, from the named assumptions in the modules (`ActivationAssumption`,
`ReloadAssumption`, ...) and nothing else. The bounds of the runs (`MaxChanges`,
`MaxEvents`, ...) are constants there too, so that no theorem rests on their size.

**Runtime activation.** `IInv == TypeOK /\ Shape /\ Tokens`. The properties alone
are not inductive. `Shape` says that the runtime is ready exactly when it has
no cause, that it then holds a snapshot, and that the activation id never runs
ahead of the revision, so that the id has room whenever the revision has;
`Tokens` says that every held token is of an open runtime and not ahead of the
current revision, is the current readiness if nothing moved, and is otherwise
strictly older *or the runtime is closed*: closing at the last revision is the
one transition that takes no fresh revision, which is why the disjunct is
needed. From it: `TypeCorrect`, `NoABA` (`TokenCurrentIffUnmoved`), `LeasesPin`,
`ClosingFinal` and `Refinement` (`ImplementsContract`). `LeasePinsItsActivation` is
inductive relative to `IInv`: a publication takes an id no lease has. The
argument goes through three lemmas on the transitions and three on the actions'
effect on `rt`, so that each invariant's step is by cases on four effects.

**Authored reload.** `IInv` joins typing, the builder's shape (`BuilderInv`: it
observes the sources in order, and has a candidate only when it has seen all),
`TokenInv`, `LateInv` and the three properties. `TokenInv` is the heart: while an
attempt is under way its token is of an open runtime, and is the current
readiness if the runtime is still ready, since nobody else publishes. Without it
a fence against the token could be stale and fail with the runtime ready.
`ObservedDriftFenced` becomes inductive because a builder that has captured
nothing counts as having seen the baseline. From it: `DriftFenced`,
`BaselineServed`, `FailuresFence`, `TypeCorrect`, `Refinement` and, read off the
contract, `ClosingFinal`: no attempt reopens a closed runtime.

**Direct lifecycle.** `IInv == RuntimeInv /\ BuildInv /\ EndInv`. `BuildInv` ties the
build task to the places of the coordinator that wait for it, `EndInv` the monitor,
supervisor and background future to what they have read: what anybody fences
against was read from an open runtime, so a `fail_closed` that loses its race has
lost it to a transition, never to a reopening. From it: `ProbesServed`,
`BuildsOwned`, `AbnormalExitsFailClosed`, `SuccessComplete`, `TypeCorrect`. With one
more fact, `TokenOpen` (the coordinator's token was read from an open runtime), every
step is a step of the contract or leaves readiness alone:
`ReadinessIsAsContracted`, and from it `ClosingFinal`. Of the changes of `rt` only four
have to be looked at: a publication, a fence of the coordinator, a fence of
`fail_closed`, and the second half of `begin_shutdown`.

**Serving.** `IInv == TypeOK /\ RequestInv /\ MintInv /\ PermitsMatchOwnedWork /\
ServingInv`. The permits are an equation on a cardinality, and each action adds or
removes at most one request from the set counted (`BalancedStep`). `MintInv` says
that a budget minted once shutdown had begun is cancelled from birth; `ServingInv`
says that the serving task waits for owned work only when no connection is left
or the phase is forced, and that nothing is owned past that wait. It needs the
second checkpoint: a request that takes a permit after the count fails there.
From it: `TypeCorrect`, `PermitsExact`, `NothingLeftBehind`, `LatecomersStayOut` and
the action property `DrainSpares`.

**Query execution.** `IInv == NumberInv /\ SlotInv /\ RefusalInv /\ AnswerInv`, on
the composition with the body. The worker keeps its number until it is reaped
and nobody signals after that; a thread that is over has reaped its process or
has been refused three signals, which takes an account of what was refused on the
way; between the end of the output and the reaping nothing is unread. From
it: `Contained`, `SlotsBoundProcesses`, `PlansAreWhole`.

The body has an invariant of its own, `BodyInv == TypeOK /\ QueueInv /\ ProducerInv /\
OutcomeInv`. That the client has read the beginning of the document is not
inductive: it depends on what is in the channel, the producer's chunk and its
buffer. Since a document's pieces are numbered, a chunk's first piece says where it
belongs, and each of these is stated as an interval (`Continues(chunk, offset)`)
instead of a concatenation: the queue goes on where the client stopped, without
gaps (`QueueInv`), the producer has in hand exactly what lies between the sent and
the serialised (`ProducerInv`), and a complete outcome is stored only with everything
sent (`OutcomeInv`). A client that has left is the exception: its queue is gone,
and nobody reads. From it: `EndsAreHonest` (`ImplementsResult`, the refinement of
`ResultStream`) and `TypeCorrect`; `ParserTypeCorrect` needs no invariant.

**Generations.** `IInv == TypeOK /\ LocalInv /\ TieInv /\ StreamInv /\ DoomInv`.
`FreeMemberIsClean` is a fact of a source, `AnsweredHoldsNothing` of a request, and
neither is inductive without the other. `LocalInv` says of each source what may
coexist with the state of its generation or lease: its permit, its transaction, its
worker and its stream; a member's cleanup leaves it clean or retires it.
`TieInv` says of each request which sources it must have leased (`Held`, by its place
and its step through the fragments), that it waits for one begin or closing at
a time, that what it was told is over, and that whatever became loose was never
given to it or the request has vanished. `Owner` and `State` give the two kinds of
source one vocabulary, so that the tie is stated once; the actions of the sources
are first reduced to moves in that vocabulary, and the tie is proved move by
move. Of the order of acquisition the argument needs only that it names the sources
of the plan once each (`OrderOfAcquisition`). `StreamInv` says that rows are for a
request that drives their source. `DoomInv` is for success: a request that
has read too little, or outside its transaction, can only fail at its finish, and
stays in that state through the closing of the source. From it: `TypeCorrect`,
`WhatIsFreeIsClean`, `WhatSucceedsIsSound`, `WhatHasAnsweredHoldsNothing`.

**Query budget.** `IInv == TypeOK /\ Locks /\ Arguments /\ WithinLimits`. `Locks` is
mutual exclusion on the ledger together with what a reader may assume: while a
thread reads, nothing is sealed. `Arguments` ties a thread's arguments to its
place: what `storing` will write is still the counter's value plus the amount
and still within the limit, what `dropping` gives back is the thread's token, a
seal has a cause. From it: `TypeCorrect` (no counter overflows), `LimitsHold`,
`SealingCuts`, `FailureSealed` (inductive relative to `IInv`) and `Refinement`
(`ImplementsAtomic`, linearizability). One lemma, `BudgetStep`, says that every
step is a step of `AtomicBudget` or leaves the budget alone; limits, sealing and
refinement all follow from it.

`LedgerIsExact` (`ReservedIsOwned`) is about a sum over any finite set of threads. The
library's induction theorems cannot be instantiated, so the facts about sums rest on
a smallest counterexample: the naturals are well founded, hence there is a smallest
set with no sum, or with two, and taking one thread out of it contradicts its size
(`LeastNumber`, `SmallestSet`, `SumsExist`, `SumsDiffer`). What is used of
them is `SumAfterChange`: when one term changes, the sum changes by as much. With
it `TokenInv == IInv /\ EmptyHanded /\ ReservedIsOwned` is inductive; `EmptyHanded` (a
thread that reserves holds no token yet) is what makes an admission add its amount
and not the difference to an older token.

**Authority kernel** (`AuthorityProofs`). `Inv` joins the type, `LeasesInLog` (a run without a lease has
the empty one), `FenceHighWater` (a resource's fence is at least that of any lease
that named it) and the three checked properties. `FencesOrderLeases` needs the
high-water mark, since the resources of one lease come from different histories;
`LiveLeasesContinue` needs that the fence and owner of a held resource change only
by its holder. Steps fall into three shapes (quiet, granting, continuing), so that
six operations need three proofs. From it: `TypeCorrect`, `LeasesContinue`,
`Exclusive`, `FencesGrow`, `SuccessIsClean`.

**PostgreSQL authority.** `PInv == Shape /\ Asked /\ HeadHolder /\ SnapshotsArePast /\
StagedIsStep`. A snapshot is the present state or has fewer events, so comparing
the head's sequence under its lock makes what is planned on current;
`HeadHolder` keeps it so until the transaction is decided, whoever its caller
still is; `StagedIsStep` says that what is staged is one step of the kernel from
the committed tables. Only `ServerCommits` moves the tables, hence
`StoreImplementsKernel`. What the kernel promises is then true of the committed
tables by the refinement alone: `StoreLeasesContinue`, `StoreFencesGrow`,
`StoreSuccessIsClean`.

What callers are told needs an invariant about the calls, `Truth`: a call whose COMMIT
was submitted, or has taken effect, is on a path to an answer that admits it, never
to a refusal (`SentIsAdmitted`); what is staged is the event that was asked for
(`StagedIsAsked`), and a call that knows it has succeeded finds its event in the log
(`WrittenIsAsked`), which no later commit of another call removes, since the log
only grows. From it: `CallersAreToldTheTruth` (`AnswersAreTrue`). `StoreTypeCorrect` rests on two
lemmas on `finalize_transition` (`RunTyped`, `ResourcesTyped`), as the kernel's
`TypeCorrect` does: what is staged is as well formed as what was read.

Only model-checked: the liveness properties (`HealsOnceServable`,
`ShutdownStopsWorker`, `SettlesOnSource`, `ShutdownEnds`, `SignalEndsServing`, `HandlersEnd`,
`UnwatchedRuntimeCloses`, `RequestsEnd`, `MembersComeBack`, `RequestEnds`,
`CallsAreAnswered`): their proofs would reason about fairness and ENABLED, which the
prover does not do. The three findings are counterexamples and have nothing to
prove.

## 5. Not modelled

* The contents of files, schemas, queries and results: model values that are
  compared for equality, which is all that the modelled code does with them. The
  compiler and the mapping front ends are therefore outside; their correctness is
  equivalence of queries over all databases, about which a check of small terms
  says little.
* The plan cache. Each cache belongs to one immutable compiler binding and dies
  with it, so that no plan of another generation can be read; what is left is the
  equality of keys.
* The bounded join, the global sort and its spill in a federated request; lanes
  without a verified generation; row-level security; the asynchronous SQL
  canonicalization, which takes the parser supervisor's lifecycle in bounded
  steps.
* Of the generations, error paths whose condition `FreeMemberIsClean` excludes
  (a begin that finds its connection already in a transaction or its mutex
  poisoned) and a check on reference counts that always passes.
* Of the parser supervisor, a failing `wait()` and the process's resource limits
  and sandbox. A process may outlive its slot only when the kernel refuses every
  signal; the properties say so.
* Of the authority, provisioning and the binding of the primary, the canonical
  bytes of requests and events, and readers of the outbox.
* Credentials, correlation ids, telemetry, metrics and response formatting. A
  poisoned lock of the activation, and an exhausted memory.
* Real time. Deadlines are events that may happen at any moment at which the code
  could see them, so every property holds for all durations; what is lost is
  that a deadline does *not* come before its time.

## 6. What could follow

In order of importance: the bounded join and the spill of the global sort as a
producer under `StreamBody`; the asynchronous SQL canonicalization as a second
client of `ParserWorker`; a theorem that composes `ServeLifecycle` with
`ReadinessContract`, so that what is proved of admission holds for either lifecycle.
