# A TLA+ model of RxJS (ReactiveX/rxjs)

This directory holds a TLA+ model of the parts of this repository whose
behaviour depends on the order in which callbacks, subscriptions, cancellations,
microtasks, timers, messages and failures happen: TLA+ modules, TLC configurations that model-check them on
small instances, and TLAPS proofs of theorems about them. `PROJECT.json` is the
index: components, runs, theorems, the source lines each definition stands for,
the known hazards, and the disagreements between code and documentation that the
runs show.

Contents:

1. [The system](#1-the-system): inventory of components
2. [Modules](#2-modules): what is modelled and how it corresponds to the code
3. [Runs](#3-runs): what TLC checks, the bounds, fairness
4. [Proofs](#4-proofs): what TLAPS proves and along which argument
5. [Findings](#5-findings): where the code and its documents part
6. [What the model shows beyond the runs](#6-what-the-model-shows-beyond-the-runs)
7. [Not modelled](#7-not-modelled)
8. [Plan](#8-plan)

To run one: `tlc -config Share_connections.cfg Share.tla`; to check the proofs:
`tlapm PlatformObservable_proof.tla`, and so for the other modules named `..._proof`.

## 1. The system

The library runs on one JavaScript thread. Two things nevertheless make it
concurrent. **Reentrancy**: every callback the library makes (a producer, an
observer, a teardown, an abort listener, a mapper, the factory of a notifier) is
arbitrary user code, which may call the library again before it returns, so that
a library function finds its own state changed in the middle of its body.
**Asynchrony**: promises, timers, async iterators and the garbage collector act
between two jobs of the event loop. The tools around the library meet what other
processes, the network and the file system do meanwhile, and may be killed.

The packages are `observable-polyfill` (the WICG Observable, for platforms that
lack it), `rxjs` (a library of operators installed under symbols on the platform
Observable and on `ColdObservable`), `test` (virtual time and marble tests) and
`migrate` (source-code migration, and a Skill that it installs). `apps/rxjs.dev`
is the documentation site, `scripts/release` publishes betas.

| Component | State it keeps | Operations | Interacts with | What is hard | What makes it correct |
|---|---|---|---|---|---|
| **Platform Observable and Subscriber** `observable-polyfill/src/index.ts:1-290, 543-627` | the weak reference to the active Subscriber; per Subscriber: active flag, observers, teardowns, abort signal; abort algorithms per signal | `subscribe`, `next`, `error`, `complete`, `addTeardown`, the patched `AbortController.abort` | everything else runs on it | all of them reenter each other; an observer may abort, end the run or subscribe again in the middle of a fan-out; iterator-closing teardowns rethrow | one shared run; the last observer to leave closes it; teardowns once, last first; one terminal notification, after the teardowns; no observer left behind |
| **Platform conversions** `index.ts:335-582` | iterator records, a pull in progress | `Observable.from` | Subscriber, user iterators, promises | an async pull answers after an abort; any method throws or gives no object | `return()` called once; nothing delivered after the abort; it comes to an end |
| **Platform operators** `index.ts:628-960` | counters, inner controllers, a queue of values (`flatMap`) | `takeUntil`, `map`, `filter`, `take`, `drop`, `flatMap`, `switchMap`, `inspect`, `catch`, `finally` | Subscriber, inner sources | mappers and inner sources that run synchronously | one inner source at a time; no value or completion lost |
| **Platform promise operators** `index.ts:961-1245` | `AbortableDeferred`: settled flag, controller | `first`, `last`, `find`, `some`, `every`, `reduce`, `forEach`, `toArray` | Subscriber, promises, signals | an abort races the settlement | settled by what decides first |
| **Platform events and installation** `index.ts:1246-1492` | globals installed so far | `EventTarget.when`, atomic installation with rollback | the host's globals | a step of the installation, or of the rollback, fails | all or nothing |
| **ColdObservable** `rxjs/src/cold-observable.ts` | per subscription: active flag, teardowns on the abort event | `subscribe`, `next`, `error`, `complete`, `addTeardown` | Subjects, `share`, every operator | a teardown registered after the abort | silence once over; every teardown runs |
| **Per-subscription Subjects** `per-subscription-subject-base.ts`, `behavior-subject.ts`, `replay-subject.ts` | set of observers, current value or buffer, end | `next`, `error`, `complete`, `subscribe` | ColdSubscriber | emissions and ends from within a replay or a fan-out | each value once; the buffer is the newest values; the end reaches everybody |
| **Subject and AsyncSubject** `subject.ts`, `async-subject.ts` | the runs it feeds, last value, end | `next`, `error`, `complete`, `subscribe` | platform Observable | a run that starts, joins or leaves in the middle of a fan-out | each value once; the end for all, late ones too |
| **share** `share.ts` | current Subject, connection, reset notifier, count, ended flags | `subscribe` (activation), teardown, the source's end, `reset`, `handleReset` | a connector's Subject, the source, notifiers | synchronous sources; resets at once, never or on a notifier, each of which may run while another is under way | one connection; kept while it has an observer, released with the last |
| **Connectable and multicast** `connectable.ts`, `ref-count.ts`, `connect.ts`, `multicast.ts`, `publish*.ts`, `share-replay.ts` | Subject, connection, a count per connectable | `connect`, disconnect, `refCount`, `connect(selector)` | Subjects, the source | disconnecting from within `connect()`; connectors that throw | one connection, closed with the last; fresh Subjects; a view misses nothing |
| **Async iteration** `util/observable-async-generators.ts`, `iterate-*.ts` | buffer, pending Deferred, terminal state; the language's queue of calls | `next()`, `return()`; the source's notifications | the source, the consumer, the microtask queue | values between two microtasks; overlapping calls; the end with values buffered | each policy's promise; every call is answered |
| **Flattening operators** `merge-map.ts`, `exhaust-map.ts`, `expand.ts`, `merge-scan.ts`, `switch-*.ts`, `merge.ts`, `concat.ts`, `on-error-resume-next.ts` | queue of outer values, active count, inner controllers | outer and inner `next`/`complete`, drain | sources, mappers | draining reentered from an inner source | concurrency limit; nothing lost; completion once, at the end |
| **Combination operators** `combine*.ts`, `fork-join.ts`, `zip*.ts`, `race.ts`, `sequence-equal.ts`, `partition.ts`, `with-latest-from.ts` | latest values or queues per source, counts | per-source `next`/`complete` | sources | a tuple's observer makes a source emit; sources that end while others are being subscribed to | tuples in order; completion as soon as no tuple can follow; one winner |
| **Timing operators** `debounce.ts`, `throttle.ts`, `timeout.ts`, `delay.ts`, `interval.ts`, ... | timers, durations, pending values | `next`, timer callbacks | timers, notifiers | a timer racing a value or an end | one outcome; no timer left |
| **Buffers, windows and groups** `buffer*.ts`, `window*.ts`, `group-by.ts` | open buffers, windows or groups | `next`, open/close inputs, timers | Subjects | closing one while values are being given | each value to those that were open when it came |
| **Recovery operators** `catch-error.ts`, `retry*.ts`, `repeat*.ts`, `finalize.ts`, `tap.ts` | attempts, the current subscription | the source's end, notifiers | the source | resubscribing within a subscription | one attempt at a time; what is to be called at the end is, once |
| **Value operators** `map.ts`, `filter.ts`, `scan.ts`, `take*.ts`, ... | a counter or a short queue | `next`/`complete` | the source | a value that overtakes the handler of the one before | what the operator stands for |
| **Construction protocol** `create.ts`, `index.ts`, `util/*-helpers.ts` | none that changes | chooses the constructor of results | every operator | no | - |
| **Virtual time** `test/src/virtual-time.ts`, `rx-test.ts`, `context.ts` | task queue, clock, patched globals, manual operations, tracked promises | schedule, clear, flush, advance, restore | timers, promises | tasks that set tasks; loops that await checkpoints; limits; overlapping operations | time and order; nothing left to run; the test ends |
| **Marble tests** `test/src/marble-parser.ts`, ... | none / a schedule | parse, compare | Virtual time | no | - |
| **Source migration** `migrate/src` | sets of what was converted and refused; the files of a plan | walk, rewrite, plan, write | file system | imports depend on the whole file; a write fails | all or nothing per pipeline, file and batch |
| **Skill installer** `migrate/src/skill-install.ts` | a directory, a backup, a stage, a provenance record | check, install, update, remove | file system, users, other installers | a process killed between two renames | a usable copy is kept; edits are kept unless forced |
| **Release** `scripts/release/beta.mjs` | candidates, what the registry has | pack, confirm, publish, verify | npm | a rerun after a partial publication | one commit for all; nothing unconfirmed |
| **Documentation site** `apps/rxjs.dev/src/app` | document cache, views, timers of the shell; measured headings | navigate, render, animate, spy | HTTP, timers, animations | what answers late | what is shown is of the last request |
| **Documentation search** `search/*`, `shared/web-worker.ts` | messages in flight, the index | load, query | a worker | answers that come after another question | the results of the last query |

## 2. Modules

| Module | What it is |
|---|---|
| `PlatformObservable`, `ObservableLifecycle` | the platform Observable, its Subscribers and the abort bridge; the abstract Idle/Active life cycle that it implements |
| `MCPlatformObservable` | its symmetry, for TLC |
| `PlatformObservable_proof` | its theorems: types, the shared run and the refinement; teardowns and release; who leaves and who is told |
| `AsyncIteration` | the four async generators |
| `AsyncIteration_proof` | its theorems: types, nothing lost, the newest kept, bursts whole |
| `Share` | `share()` on a ColdObservable |
| `Share_proof` | its theorems: types and the count; the connection |
| `CallStack`, `Downstream`, `Inputs` | what the modules of operators extend: the stack of calls, the Subscriber an operator sends to, the inputs it subscribes to |
| `ValueOperators`, `NotifierOperators`, `FlatteningOperators`, `Combination`, `BufferOperators`, `WindowOperators`, `Resubscription`, `TimedOperators`, `Finalization`, `Publishing` | the operators of the rxjs package, by family |
| `MCOperators` | these ten side by side |
| `Connectable`, `GroupBy`, `Subjects`, `PerSubscriptionSubject` | what gives one source to many |
| `PerSubscriptionSubject_proof` | the theorems of the last: types, the newest retained, each value once, the end for all, silence after it |
| `PlatformConversions`, `PlatformOperators`, `PlatformPromises` | what the platform Observable does beside `subscribe()` |
| `PlatformOperators_proof` | the theorems of the operators: types, nobody stranded, hooks called once |
| `VirtualTime` | the engine of `rxTest` |
| `VirtualTime_proof` | its theorems: the order of time, and a test that passes with nothing left |
| `LibraryParts` | these eight side by side, for any values of their constants |
| `LibraryParts_proof` | its theorems: nobody stranded, told once, silent once over, time goes on |
| `PlatformInstallation`, `SkillInstall`, `Publication`, `SemanticMigration`, `MigrationFiles` | what can stop half way |
| `DocsApp`, `ScrollSpy`, `SearchClient` | the documentation site |
| `Tools`, `MCTools` | these eight side by side, for any values of their constants; the values that TLC takes |
| `Tools_proof` | its theorems: all or nothing, and nothing stale, with the invariant of each of the eight |

**Composite modules.** `MCOperators`, `LibraryParts` and `Tools` instantiate
each of their modules with constants of its own; a variable (`op` or `part`)
chosen by `Init` says which of them a behaviour is of, and the others' variables
stay as they are. The modules share no state, so that this is the same as a run
for each; it lets one question be asked of all of them: is anything stranded, lost,
out of order, given twice, left half done or stale? A property of a composite is
the conjunction of those of its modules, under the name of the question; the
properties of the modules are stated and explained there.

**Conventions.** The modules about synchronous code have the call stack as a
variable. A frame is a call of a library function in progress: what it is doing,
on which object, what of its loop is left, and whether a user callback has control
or the library. User code may act exactly when the stack is empty (a new job) or
its top waits for a callback (`UserTurn`). One action is one stretch of library
code between two callbacks. `MaxDepth` bounds the nesting of calls that user code
makes; library steps may go deeper. In `PlatformObservable` and `Share`
a frame has fields for what is left of its loops; in the modules that extend
`CallStack` a frame is the list of steps that the function has yet to take (`todo`),
which its actions prepend to (`Proceed`, `Await`) or give up (`Abandon`: a return,
or a throw that is caught).

Definitions named `Bug...` are no part of the model: each is what a plausible
mistake would make of the next definition, and `PROJECT.json` pairs it with the
property that then fails. Variables marked *history* record what happened for the
properties and no guard of the model reads them, with the exception of the bounds
and of the identities of new things.

### PlatformObservable

One `ObservableImpl` with `#subscriber` (`slot`), the Subscribers its
`subscribe()` creates (`phase`, `list` for `#observerList`, `teardowns`, and
`fired` for their own signals), the signals that observers subscribe with
(`aborted`, `sig`) and the observers (`home`).

| Code | Actions |
|---|---|
| `subscribe()` (591) | `SubscribeJoin` an active run; `SubscribeStart` a new one, published before the initializer runs; `SubscribeAborted` for a signal already aborted; `InitThrows` |
| `Subscriber.next` (206) | `CallNext` takes the copy of the observers, `Deliver`, `Delivered` |
| `error`, `complete` (220, 242) | `Terminate`: the copy first, then `closeSubscriber()`, then the observers; `Deliver` counts what each is told |
| `closeSubscriber` (150) | the frames `algorithms` (abort algorithms on the Subscriber's signal run), `event` (its abort event), `teardown` (last first): `AlgorithmsDone`, `EventDone`, `RunTeardown`, `TeardownDone`, `CloseDone` |
| `addTeardown` (192) | `AddTeardown`, `AddTeardownLate` (runs at once) |
| `AbortController.abort` as patched (64) | `CallAbort` takes the copy of the algorithms; frame `abort`, then `NativeAbort`, then frame `dispatch` for the listeners |
| the function `addObserver()` returns | `RemoveObserver`, which closes the Subscriber after its last observer |
| `WeakRef` of `#subscriber` | `Collect`, between two jobs, when nothing keeps the Subscriber |

An algorithm is armed as long as its observer is in the list (`Armed`): the code
removes both together. Values, errors and reasons are left out, since no
control depends on them; a callback that throws is reported and then no different
from one that returns, except for initializers and for teardowns that close an
iterator (`IteratorClosers`: `propagateTeardownError` in the code), whose throw
leaves `closeSubscriber()` and takes the notification of `error()` or
`complete()` with it.

`ObservableLifecycle` is what the package's ARCHITECTURE.md draws: Idle or
Active, observers that join and leave, the last one to leave ends the run, and a
run that terminates owes each observer one terminal notification. It has no
stack. `Lifecycle` in `PlatformObservable` is the refinement mapping:
the active run is the open Subscriber, `owed` is what the `error` and `complete`
frames on the stack have yet to call.

### PerSubscriptionSubject

`fanout` is `#observers`, `buffer` is `#bufferValues` (or `#currentValue` as a
sequence of one), `state` combines `#completed` and `#hasError`. Each observer
has a `ColdSubscriber`: `cold` is its active flag and why it fell, `hooked` says
whether it holds the teardown that `addSubscriber()` registers. `next()` is
`CallNext` then `FanoutStep` per observer; `error()` and `complete()` are
`CallEnd`, whose fan-out ends each ColdSubscriber; `subscribe()` is `Subscribe`,
then `SetupNext` per retained value and `SetupDone`. The two Subjects differ in
`JoinsFirst`: a replaySubject joins an observer to the fan-out and then replays
a copy, a behaviorSubject gives the current value and then joins. Each of these
runs user code in the middle. Values are numbers in the order they were accepted.

### Share

The variables are those of the closure in `share()`: `subject`, `connection`
(`connectionController`), `resetting` (`resetController`: none, for a reference
count of zero, or for an end), `refCount`, `ended`. `rule` is the configuration,
chosen by `Init` among all 27. A Subject and a connection have the name of the
observer whose subscription made them. `cold` and `hooked` are the
ColdSubscribers, as above; `link` is the source's end of each connection; `over`
the Subjects that were told of an end. Activation is `Subscribe`, `Join` (or
`ConnectorThrows`: the connector throws, or the `subscribe()` of the Subject it made,
which then stays), `Connect`; leaving is `Leave`, from an abort or from an end;
the end of the source is `SourceEnds`, the rule for it, `Tell`, `TellOne`;
`handleReset()` is `ResetAtOnce`, `ResetNever`, `FactoryThrows`, or
`FactoryCalled` and `NotifierSubscribed`; `NotifierEmits` may come at any later
time; `reset()` is `Clear`.

`NotifierReenters` says whether the code of a notifier (its factory, producer and
teardown) calls the library back, and `SubscribedAs` whether observers may come
with signals already aborted. Both let the model show a finding (section 5) in a
run of its own and everything else in another run. `ConnectorFails` says whether
connectors and their Subjects may throw: they do in `share_connections`, and not in
the runs that show the findings.

### AsyncIteration

`policy` is one of the four generators, chosen by `Init`. `pc` is where the body
stands: at one of its awaits (`awaiting` the Deferred, `woken` once it is settled,
`settling` while the microtask that reads the buffer is queued, `pausing` at
`await RESOLVED`), about to yield, at the yield, or left. `queue` is the queue of
calls the language keeps for an async generator. The source acts in synchronous
turns (`inTurn`); microtasks run between turns, as does the consumer, which may
call `next()` and `return()` as often as it likes without waiting. `results` and `given` are
history: what the calls were given, as batches and as the values in them.

### The operators of the rxjs package

All of them share `Downstream`: `active` and `out`, what the observer was given.
`Notify` is `subscriber.next()`, `error()` and `complete()`; the observer's callback
runs in it and may do anything. Operators of several inputs share `Inputs`: `inputs`
are the subscriptions that `subscribeToSource()` opened, each with the controller that
ends it, `aborted` the controllers, `log` what was delivered to handlers (a value is
named by its place in it). A source's code runs inside `subscribe()` (frame at
`"within"`), so it may emit or end before that returns; a function of the user's is
called by `CallUser` and may throw (`UserThrows`).

| Module | `Init` chooses | A handler of the code is |
|---|---|---|
| `ValueOperators` | one of 27 operators and its count, seed or inclusiveness | the operator of its name (`Take`, `Distinct`, ...) for a value and `...End` for a completion |
| `NotifierOperators` | takeUntil, skipUntil, sample, withLatestFrom, debounce, throttle (leading, trailing), delayWhen | the operator of its name; `OtherCompletes`, `InputFails` |
| `FlatteningOperators` | mergeMap, exhaustMap, mergeScan, expand, switchMap, switchScan, merge (concat is concurrency 1), onErrorResumeNext; the concurrency | `MergeMap`, `Expand`, `SwitchMap`, ... for outer values; `InputCompletes` and `DrainLoop` for inner ends |
| `Combination` | combine, forkJoin, zip, race, sequenceEqual, partition; from a list, or collected from an outer source | `InputNext`, `InputCompletes`, `DrainBuffers`, `Win` |
| `BufferOperators` | buffer by delay or count, bufferToggle, bufferTime, with their options | `Buffer`, `CountValue`, `EmitBuffer`, `Tick` |
| `WindowOperators` | window, windowCount, windowToggle, windowWhen, windowTime | `SourceNext`, `Rotate`, `GiveEach`, `CloseWindow`, `Tick` |
| `Resubscription` | catchError, retry, retryWhen, repeat, repeatWhen; the count; with a delay or not | `Try`, `Again`, `Tell`, `TellNotifier`, `TimerFires` |
| `TimedOperators` | timeout, delay, observeOn, subscribeOn, sampleTime, timer, interval, animationFrames, timeInterval, timestamp | `Fires`, `SetTimer`, `InputNext`, `GivesUp` |
| `Finalization` | tap, finalize, fromEventPattern, generate | `Tapped`, `Teardown`, `Hook`, `Loop` |
| `Publishing` | connect(selector), whose Subject may be broken | `SubscribeView`, `SourceNext`, `FailConnector` |

`GivesWhatItShould` of each module compares `out` with a reference definition over
the log: what the operator stands for, said without its state.

**Calm.** The constant `Calm` of a module lists operators whose functions of the user
make no input emit while they run; section 6 says what happens otherwise.

### What gives one source to many

`Connectable` has the connectable's Subjects and connections, and the `RefCountState`s
with the runs of the views that `refCount()` returns. It is instantiated twice: two
views (`R`), and one view with `connect()` and `unsubscribe()` by hand (`M`).
`GroupBy` has the groups, the map from keys to them, and the runs of their views; `Route`
is the handler of a value, `Finally` what it does however it returns. It is instantiated
twice, with a source that emits inside anything and with one that does not. `Subjects` has
Subject and AsyncSubject, whose fan-out is over the runs of a platform Observable.

### What the platform Observable does beside subscribe()

`PlatformConversions` has the user code in progress (`at`), the answer that is awaited
(`pend`) and what was pulled, given and returned; `HeedAnswer` is the microtask of an
answer. `PlatformOperators` uses `Inputs`, with the platform's `Subscriber`;
`PlatformPromises` has the `AbortableDeferred`, whose `Settle` is first come, first served,
and the callbacks in progress.

### VirtualTime

A *driver* is an async function of the engine: the run (0), and each `flush()` or
`advanceTo()` of the test. Where each stands (`at`) is one of its awaits, or `look`
when its loop is about to look at the queue, or `run` while it runs a task. Its
code up to the next await is one step. `queue` holds the active tasks; the body of
the test sets and clears timers, starts operations, awaits a task or an operation,
settles or rejects. `execute()` is `Take`, `Returns` or `Throws`, and `Rested`. With `Prompt` the
body has no microtask left when a checkpoint ends; with `Overlap` operations are started
by tasks, or while another goes on.

### What can stop half way

`PlatformInstallation` plans, defines and rolls back properties of a realm that may
refuse either: a rollback throws (`UndoFails`, which the error reports) or is refused without
a word (`UndoRefused`, which it does not). `SkillInstall` has two commands of the installer at a time: each
action is a step of the file system, any of which fails (`StepFails`) or is the last
(a killed process), while the user edits the copy at any time, also between the look of a
command and its act. `Publication` runs the
command up to three times, from one of two commits: any step fails, an answer of the
registry is lost or late, and each tag is asked for by itself while others move tags.
`SemanticMigration` walks a file of up to four nodes, pipelines
of operators, imports and the lifecycle of a TestScheduler, in any nesting; an import loses what was
converted before it where it stands, and what is not needed at the end. `MigrationFiles`
reads, transforms, checks and writes a batch of two, while others make files.

### The documentation site

`DocsApp` goes from the location to what is shown: the cache of documents, the elements
that are loaded, the entering and leaving animations, and the timers of the shell. `ScrollSpy`
has layouts, window sizes and scroll positions, and what the service has measured.
`SearchClient` has the messages between the clients and the worker.


## 3. Runs

| Run | Bounds | Distinct states | Shows |
|---|---|---|---|
| `platform_sharing` | 2 Subscribers, 2 observers, 1 controller, 2 teardowns, depth 4 | 608,677 (with symmetry) | one shared run; teardowns once, last first; closed runs released; the terminal notification comes last; the abort bridge; nobody stranded |
| `platform_closers` | the same, depth 3, one teardown closes an iterator | 1,351,147 (without symmetry) | a throwing close takes the end away from all or from none; `ObservableLifecycle` is implemented |
| `async_policies` | 4 values, 4 calls, 3 turns after the first | 53,837 | nothing lost; the newest kept; bursts coalesce; calls are answered |
| `share_connections` | 3 observers, depth 3, all 27 configurations | 2,654,969 (with symmetry) | one connection; observers fed; kept and released with the last; a retained end stays |
| `operators` | depth 2 or 3, 4 to 7 notifications, 3 to 7 inputs, by family: see `MCOperators` | 2,522,233 | seven questions, of every operator of ten families |
| `library_parts` | by module: see below | 2,270,170 | eleven questions, of the eight parts of `LibraryParts` |
| `tools` | by module: see below | 3,995,986 | what can stop half way is all or nothing; what is shown is not stale |
| `subject_leak` | 2 observers, 2 values, depth 3 | violation | finding 1 |
| `async_close` | 2 values, 3 calls, 2 turns | violation | finding 2 |
| `share_aborted` | 2 observers, depth 3, signals already aborted | violation | finding 3 |
| `share_reentrant` | 2 observers, depth 3, notifiers that reenter | violation | finding 4 |
| `virtual_time_hang` | 1 timer, delays of 0 and 1 ms, no operations | violation | finding 5 |

The bounds of the parts of the last two composites are in `LibraryParts.cfg` and `MCTools`.
`library_parts`: two views of `refCount()` with 4 runs and 4 connections, or one
view with manual connections, 3 of each; 2 keys, 2 values and 2 group views; 3
observers of a Subject, 2 values; buffers of 2, 3 values; 7 notifications to a
platform operator, 9 to a promise operator; iterators of 3 values; 3 timers and one
manual operation, or 2 timers and two operations that overlap. `tools`: two
installer commands and two faults; three attempts to publish, from two commits; files
of three nodes over six pipelines; 4 paths in a batch of 2; two pages and three
visits; two layouts, two window sizes; two clients and four searches.

**Are the bounds enough?** Two Subscribers are the closing run and the next one;
a third would only repeat the second. Two observers are the fewest that make a
fan-out reenter with one leaving and one staying. Depth 4 is `error()` whose
close runs a teardown, which subscribes, whose initializer aborts: every pair of
library functions nests. A buffer of 2 with 3 values overflows
while a copy of it is being replayed. Three observers of `share()` are one that
connects, one that leaves in the middle, one that arrives after. Depth 3 lets
user code run inside a subscription or an end that runs inside another (each
pushes up to three frames); depth 4 was run once and found nothing else
(4,884,436 states, four minutes). Four values
in up to four turns give every grouping of a burst, and four calls keep the
generator's queue longer than its body can serve at once. An operator's log of
five or six notifications is three outer values with an inner value and an end, or
two rounds of two sources; its depth of 2 or 3 is a value that arrives inside the
observer, inside the mapper, or inside a subscription that a value caused. Sizes
and counts include 0 where the code treats it apart, 1, where beginning and end
coincide, and 2. Three attempts to publish are one that fails, one that meets what it left, and
one from another commit. Two faults of the installer are one that interrupts
and one that meets the recovery. Three visits are a page, another before
it is shown, and the first again.

Bounds that count what has happened (`MaxLog`, `MaxRuns`, ...) only stop user
code and the sources: what the library has begun it always finishes.

**Deadlock** is not looked for (`CHECK_DEADLOCK FALSE`). Observers, Subscribers
and values are used up, and user code may stop calling: the programs modelled
are libraries, which have no duty to go on. That nothing is left half done is
what the invariants about an empty stack, and the liveness properties, say instead.

**Fairness.**

- `AsyncIteration` assumes weak fairness of `TurnEnds` (synchronous code returns)
  and of `Microtask` (the engine runs queued microtasks). It assumes nothing of the
  source, which need not emit, nor of the consumer, which need not ask.
  `EndAnswersRequests` follows; `CloseAborts` does not (finding 2), for no fairness
  that the code justifies makes a silent source speak.
- `PlatformConversions` assumes weak fairness of `GoesOn`: microtasks run, user code
  returns, and an iterator that was asked answers. It assumes nothing of an
  observer, which need not leave. That a conversion comes to its end follows, for
  finite iterators.
- `VirtualTime` assumes weak fairness of `Library` (microtasks run), of `Body` (the
  callbacks of tasks return and the body of the test goes on, unless it awaits
  something) and of `PromiseSettles` (promises that `rxTest` tracks settle, as
  `context.track()` demands). `PartsEnd` follows where the body has no
  microtask of its own left when the engine looks (`Prompt`); where it may, it does not:
  that is finding 5.

`PartsEnd` of `library_parts` is the conjunction of the last two.
`ImplementsLifecycle` and the properties of the form `[][...]_vars` are safety
properties. `AllOrNothing` combines an invariant of each tool, what a step may not do
to what is on disk or in the registry, and, for `Publication`, that what is published is
confirmed.

**Symmetry.** `MCPlatformObservable` permutes Subscribers and observers,
`Symmetry` of `Share` observers; no definition chooses among them in a way a
permutation could see (`ActiveRun` chooses the only element there is), and the
runs that use symmetry have no liveness property and no refinement.

## 4. Proofs

`PlatformObservable_proof` proves, for any sets of Subscribers, observers,
controllers and teardowns, and any `MaxDepth`, from the assumption `ConstantsOK`
alone (the iterator closers are teardowns; `NoSub` and `NoCtl` are none of the
real ones; the bound is a natural number):

- `TypeCorrect`: `Spec => []TypeOK`. It is inductive as it stands. What makes it
  more than bookkeeping is the stack: two kinds of frames, whose fields each
  action updates separately. `TopFrameType`, `CallFrameType` and `SignalFrameType`
  say once what the innermost frame is and becomes, `PushStack`, `PopStack` and
  `ReplaceStack` what the three stack operators do.

- `ProducerShared`: `Spec => []OneSharedRun`. At most one run is active, it is the
  one that the next `subscribe()` joins, and it has an observer. It is not
  inductive: `EventDone` empties the observers of the Subscriber its frame is
  about, and were that Subscriber open, an active run without observers would
  result. The strengthening is `ClosingFramesClosed`: the Subscriber of a frame of
  `closeSubscriber()`, `error()` or `complete()` is closed already, however deep
  the frame lies. That holds since a Subscriber that is closed stays so
  (`ClosedForever`), so that frames already on the stack keep the property
  (`OldFramesClosed`) whatever callbacks do, and each action that pushes such a
  frame closes the Subscriber in the same step. `SharedInv` is the conjunction;
  `ClosingFramesStep` and `OneSharedRunStep` show that it is inductive.

Its second part proves, from the same assumption,

- `LifecycleImplemented`: `Spec => ImplementsLifecycle`, which the run `platform_closers`
  checks for two of each. The active run of the refinement mapping is a choice among the open
  Subscribers; `ActiveIsCurrent` says with `OneSharedRun` that it is the one in `slot`. What
  makes the step `Tell` hard is that what is owed lies on the stack: that `told[o]` is
  still 0, and that telling `o` takes it out of `owed` although other frames of `error()` and `complete()`
  may be in progress. `EndsInv` says why: an observer is in the list of
  the Subscriber it was added to only (`ListsAreHomes`), one that was told belongs to a
  closed Subscriber (`ToldAreOver`), those that a frame has yet to tell are untold and of
  its Subscriber (`FramesUntold`), and no two such frames are of one Subscriber
  (`EndsDiffer`), since a Subscriber is closed once. Most steps are shown to be
  *quiet*, that is, to leave these frames alone (`QuietStep`), from what pushing,
  popping and replacing a frame do; `EndingStep`, `TellingStep` and `CloseDoneStep`
  are about the others. `LifecycleStep` and `MappedStep` then match each step with
  one of the abstract specification.

Its third part is about how a Subscriber closes, and proves from the same assumption

- `UnwoundInOrder`, `RunsReleased`, `EndComesLast`: `Spec` implies `[]TeardownsLastFirst`,
  `[]QuiescentRunsReleased` and `[]TerminalComesLast`. They say what holds of a Subscriber when
  nothing is in progress, or of teardowns that have run; the frames that have yet to run
  them are what makes it true, so that none is inductive. `ReleaseInv` follows a
  Subscriber through its stages (`StageOf`): untouched, none of its teardowns run; closing,
  when exactly one frame is about it (`Alone`) and the teardowns that have run
  are those above what that frame has left; released, when all of them
  have run and it has no observers. No teardown is registered twice (`Distinct`),
  and whoever was told of an end belongs to one that is over (`ToldLast`).

The last part builds on it:

- `AbortedLeave`: `Spec => []AbortedObserversLeave`. An observer whose signal is aborted and
  who is still in an open run has its abort algorithm in what a frame of `abort()` has
  left (`AbortsPending`), even if it subscribed while the algorithms were running.
- `NoneStranded`: `Spec => []NoStrandedObserver`, when no teardown closes an iterator
  (`IteratorClosers = {}`). The hypothesis is the code's: `closeSubscriber()` lets what
  such a teardown throws through, and the end is then told to nobody (`TerminalsAllOrNone`
  says what is left, and TLC that no less would do).
- `AllOrNone`: `Spec => []TerminalsAllOrNone`, with throwing closers as well.

Its invariant is `Fates`: an observer that joined a run is in the list of an open one, or
was told, or left with its signal, or is owed the end by a frame on the stack, or
its run lost the end to a throwing closer, and then nobody in that run was told.
`Adjacent` says that the frame of a close lies next to the one that it closes for.

`Share_proof` proves `TypeCorrect`, `Spec => []TypeOK` for `Share`, from its `ConstantsOK`:
any observers, statuses and depth, and notifiers that do or do not call back. That the
count is the cardinality of the teardowns there are is part of it. `TypeInv`
adds that these are finitely many, that an observer that has not subscribed has no
teardown and no Subject, that what connects has a Subject, and what each frame knows of the
observers it is about (`StackTyped`).

Its second half proves the five other properties of the runs of `share()`, with
`NotifierReenters = FALSE`: where the code of a notifier calls the library
back, TLC finds a second connection (finding 4), so that the hypothesis cannot go.

- `TheOnlyConnection`, `ObserversFed`, `NotAbortedEarly`, `RetainedEnd`: `Spec` implies
  `[]OneConnection`, `[]ActiveObserversFed`, `KeptForTheLast` and `RetainedEndStays`.
- `ReleasedByTheLast`: `Spec => []ReleasedWithTheLast` when moreover `SubscribedAs = {"active"}`:
  with signals that are aborted already it is false (finding 3).

The inductive invariant of the first four is `ShareInv`. `Shape` describes the stack: the calls that decide on
a reset and carry it out are the innermost ones, and nothing of the user's comes between
them, so that what was decided still holds when it is done (`Ruled`: nobody is subscribed, or
the end is the one that was recorded). No two frames are entering the same observer, nor is one
entering that an outer frame is to tell of an end (`NoClash`). `Connected` ties the connection that `share()`
knows to its Subject and to the end that was recorded; `Untold` says that a recorded end which the
Subject has not heard of is on the stack, or was lost to a throwing factory. `AllFed`
follows an active observer through `subscribe()`: it is counted, and about to join or to be told,
or has joined a Subject that is current or about to end. For the fifth, `Leaving` says that
who is counted but not active has its teardown on the stack, and `LastGone` that
when nobody is counted and the connection is live, its reset is the innermost call.

`AsyncIteration_proof` proves, for any number of values, turns and requests (`BoundsOK`),

- `WellTyped`, `NothingLost`, `NewestStays`, `BurstsStayWhole`: `Spec` implies `[]TypeOK`, `[]Lossless`,
  `[]NewestKept` and `[]BurstsCoalesce`. The values stand in one `Line`: given, on their way, buffered.
  `StepFlows` says that a step either leaves the line, moves values along it or lets one
  join it, and `LineKept` that moving along changes nothing, whether a batch is
  taken or the first value. `Lined` (the line rises; it is all that was emitted; it ends with the
  newest) is then inductive, given `Stands`: at which awaits the buffer is empty, the
  result terminal, a Deferred installed or a request outstanding. For bursts, `Cut(k)` says that what
  follows value `k` is of a later turn, or will be. It holds of the last value taken from the
  buffer, since that is read in a microtask, between turns (`WayCutStep`), and once it holds
  it stays (`CutStep`).

That the generator comes to answer every call (`EndAnswersRequests`) is a liveness property.

`PerSubscriptionSubject_proof` proves, for any observers, any depth, any size and any
number of values (`ParametersOK`: both are natural numbers; an unlimited `size` is one of
`MaxValues` or more. It is a hypothesis and not an `ASSUME`, for the run `library_parts` reaches
the module by `INSTANCE`),

- `SubjectTyped`, `NewestRetained`, `ValuesGivenOnce`, `EndIsForAll`, `NothingAfterwards`: `Spec` implies
  `[]TypeOK`, `[]BufferIsNewest`, `[]EachValueOnce`, `[]EndReachesAll` and `SilentOnceOver`.

The run `library_parts` checks the same definitions on its part `coldSubject`, and
`LibraryParts_proof` takes the invariant from here. They speak of moments at which no call is in progress; the invariant says what the
calls in progress have left to do. `Balanced` keeps an account for each observer: what it is due is what it
was given and what each frame has `Pending` for it, and no value is in two of these places. `Joined`
says that the observer of a replaySubject is in the fan-out before its replay is over,
so that no value emitted meanwhile passes it by, and `Awaited` that an active
observer is in the fan-out, or a frame is about to put it there or to tell it of the end.
The lemmas `Balanced...`, `Led...` and `Frames...` say what pushing, replacing and popping a
frame do to these; the three step lemmas go through the actions.

`Tools_proof` is about the eight modules that `Tools` puts side by side, and proves from its `ConstantsOK`

- `LeavesAllOrNothing` and `ShowsNothingStale`: `Spec` implies `AllOrNothing` and `[]NothingStale`,
  the two properties of the run `tools`, for any number of commands, faults, commits, attempts,
  files, pipelines, pages, visits, layouts and searches.
- `ToolsInvariant`: `Spec => []ToolsInv`, from which both follow.

`ConstantsOK` says that 0, which stands for none, is no commit, page, path or layout; that a batch has a
file in it; that `TestScheduler` is not the local name of an operator; and that two layouts
have different heights, since the height of the page is all by which the code tells a
new layout (`scroll-spy.service.ts` compares `scrollHeight`): with two of the same height
the headings measured before stay, and the active one is wrong.

`ToolsInv` has an inductive invariant for each part, which says what lies between two of
the moments that the properties speak of:

- *`PublicationInv`*: what is packed is of the checkout and complete before any of it is sent
  (`Packed`), the packages before the one that is being looked at, published or verified are in the
  registry from this commit (`Sent`), and a tag that was asked for was seen, and is there unless it was
  moved since (`Tagged`).
- *`InstallationInv`*: the properties that are the polyfill's are those applied and not undone, and those
  that could not be, whose undoing threw or was refused; a silent refusal is only of what was not there before. With `PlannedIs` (what is wanted is planned, once, what the others need first) it
  says that whatever is undone last to first never takes `abort()` away from an `Observable`.
- *`SkillInv`*: a usable copy is at the target or is a backup that no process is about to discard (`Safe`);
  who met an edited copy and has no force has stopped, and an edit made while no command was between its
  look and its act is still there (`Respected`); and, where one process is alone, what
  each of its places has done to target, backup and stage (`Progress`).
- *`SemanticInv`*: the walk over the syntax tree. The path is exactly what its last node is
  in, and what is above the next node is on it (`PathInOrder`), so that leaving is in order; everything met
  is rewritten or refused unless something above it was passed by (`Met`, `Passed`); the walk knows
  that it is in a run until it leaves one within it (`InsideKnown`); what awaits is in an
  async function or in one that the walk has yet to leave (`AsyncOrOpen`); and an import that goes was converted
  in a pipeline that was rewritten, and stood after it or, at the end, is not needed (`Removals`).
- *`FilesInv`*: outputs are paths of their own (`Named`), and what was written is a beginning of a plan
  of which every file was fit (`Writing`).
- *`SearchInv`*: until the index is ready there is one message, wherever it is (`Stages`); and
  a message that a client waits for asks what that client asked last (`Asked`).
- *`SpyInv`*: what was measured is some layout in the window as it is, unless a resize is due
  (`Measured`), and the active heading is right for the position last looked at (`LookedRight`).
- *`DocsInv`*: what each stage of a rendering has done with the two views (`Rendering`, by induction
  over the documents that are queued while one is being rendered), that the viewer has the last document or
  has it to come (`Given`), and that a bar to be hidden has a timer that will (`Hiding`).

`VirtualTime_proof` proves, for any delays, tasks, operations and limits (`ParametersOK`: numbers),

- `AlwaysPassesDrained` and `AlwaysGoesOn`: `Spec` implies `[]PassesDrained` and
  `[][TimeGoesOn]_vars`.

`TimeInv` says who may do what: whose synchronous code is in progress is on the stack once, and runs a
task or looks for one (`Stacked`); operations are started in order (`Started`), and where
they do not overlap the body awaits the one that goes on, so that no other moves the
clock (`Alone`). Hence no task is due before `now`, what runs is due now, and an advance
has its target before it (`Timely`). A task that is live is in the queue, or is an interval
that is running (`Lives`): the run that finds the queue empty may pass. That the
queue has an earliest task, by due time, priority and order, is `SmallestOf` and
`EarliestIsFirst`.

`PlatformOperators_proof` proves, for any amounts, log and inputs (`ParametersOK`),

- `NeverLeftStranded` and `HookedOnce`: `Spec` implies `[]NeverStranded` and `[]HooksOnce`, when
  the functions of `flatMap` and `switchMap` make no input emit (`Calm`). The hypothesis is the code's: with a
  mapper that does, `OneInner` fails and a value may wait for nobody (section 6).

`NeverStranded` speaks of moments when nothing is in progress; what is in progress
has yet to subscribe to an input or to give the end (`Owed`), and for the
eight operators but `flatMap` and `switchMap`, `OwedOrFed` says that there is such a step or a live
input. For the other two the stack matters: only its top has a step left, outer frames have
returned control to inputs and have nothing more to do (`FlatFrames`). `flatMap` counts
its inner source (`InnerCounted`: one is live or about to be exactly when `n` is 1, and values wait only for it);
`switchMap` holds the controller of the newest (`InnerHeld`: the controller belongs to
an inner source that is live or about to be, and is not aborted, and the end waits for
it).

`LibraryParts_proof` is about the parts that `LibraryParts` puts side by side, and proves from
its `PartsOK` (bounds are natural numbers, amounts and delays sets of them)

- `AlwaysFed`, `AlwaysToldOnce`, `SilentAfterwards`, `TimeAlwaysGoesOn`: `PartSpec` implies
  `[]PartNeverStranded`, `[]ToldOnce`, `SilentOnceOver` and `TimeGoesOn`, the properties of the
  run `library_parts` of that name.
- `PartInvariant`: `PartSpec => []PartInv`, from which they follow.

`PartInv` is the invariant of the part that a behaviour is of. Those of the cold Subjects, the operators and
virtual time (with and without overlapping operations) come from the three modules above,
which are instantiated here as `LibraryParts` instantiates the modules that they are about;
`SameCold`, `SameOperator`, `SameTime` and `SameOverlap` say that the next-state relations of both
instances are the same. `ConversionInv` is of the conversions: an answer waits for
a microtask only while nothing else is in progress, and an iterator that said that it is done has
closed its subscriber. Of the promise methods, `refCount()`, `groupBy` and the
Subject no property among the four speaks.

Everything else is model-checked only:

- the liveness properties (`EndAnswersRequests`, `BodyServed`, `PartsEnd`), which are out of this prover's
  reach: it does not handle `ENABLED`, on which fairness rests;
- `GivesWhatItShould`, and the other questions of the run `operators`: they compare what an observer
  was given with definitions by recursion over the log, about which TLAPS cannot argue
  by induction;
- of `library_parts`, `ValuesGivenOnce` and `EndReachesAll`: their parts `coldSubject` are proved
  (`PerSubscriptionSubject_proof`), while `Subjects` flattens a sequence of sequences and `GroupBy` sorts a set
  into a sequence, both by recursion over data; `ReleasedWithTheLast` and `FedByOne`, of `Connectable` and `GroupBy`;
  and `PartTypeOK`, to whose conjuncts for the conversions, the cold Subjects, the operators and virtual
  time correspond the first conjuncts of the invariants above.

## 5. Findings

Each is the counterexample of a run that checks one property, which states what
a document, comment or test of the repository says.

1. `subject_leak`: the comment of `addSubscriber()` says that it removes the
   observer when it is cancelled. An observer already cancelled (an aborted
   signal; or a behaviorSubject's observer that aborts while it is given the
   current value) is added, and nothing removes it: the teardown is registered
   after the abort event that would have run it.
2. `async_close`: the comments of the generators say that closing one explicitly
   aborts its source observer. While a `next()` waits for a silent source, the
   language queues `return()` behind it, and the `finally` block is not reached.
3. `share_aborted`: by its test's title, `share()` disconnects only when the final
   ColdObservable subscriber leaves. A subscription with an aborted signal is counted and,
   for the reason of finding 1, never discounted: the source stays connected
   after its last subscriber has left.
4. `share_reentrant`: a delayed reset is to be cancelled when a new activation
   arrives. One that arrives from the notifier's own code (its factory or
   its teardown) finds nothing to cancel, and the reset then takes the
   connection away from under it.
5. `virtual_time_hang`: TESTING_DESIGN.md says that an async body can wait on virtual time
   without advancing it. When no task is queued after one checkpoint, `runUntilSettled()`
   goes on to await the body alone; a body that was still awaiting something else and then sets
   a timer and awaits it waits for a timer that nobody runs.

## 6. What the model shows beyond the runs

What follows was met while modelling. In each case the model allows
the behaviour, or would with the change named, but no document of the
repository promises otherwise in so many words; a property that speaks of it
excludes it, by a constant (`Calm`, `Prompt`, `Overlap`) or in its own
statement. To see one, take the operator out of `Calm` (or change the
constant) in the composite and check the property that names the operator.

*Operators reentered from the user's function (`Calm`).* The counter or flag is read
before the callback and used or written after it:
`elementAt` (element-at.ts:24) and an inclusive `takeWhile` (take-while.ts:28) let a nested value
through; `exhaustMap` and `mergeMap` count after the mapper (merge-map.ts:26), so a
nested value exceeds the concurrency; `mergeScan` and `expand` may complete early
(merge-scan.ts:55, expand.ts:53); `throttle` starts two durations (throttle.ts:86); `debounce`
and `delayWhen` keep an older duration (debounce.ts:52, delay-when.ts:60); `buffer` opens
its next delay twice (buffer.ts:96, 146); `windowCount` opens a window too many
(window-count.ts:59); `sequenceEqual` may
conclude before an outer comparison has returned (sequence-equal.ts:30);
`reduce` of the platform folds a nested value in first (index.ts:1121); platform `switchMap` keeps two
inner sources (837), `flatMap` starts two (769).
`retryWhen` starts a second notifier when the source fails again inside
`startNotifier()` (retry-when.ts:56).

*Ends that are missed.* `merge([])`, `concat([])`, `combine([])` and `race([])` over an
empty list never complete (merge.ts:39, combine.ts:60). `window` and `windowWhen` drop a
value that arrives while the previous window is told of its end (window.ts:60,
window-when.ts:67). When `groupBy` stops because nobody observes it, a group that
is still held never ends (group-by.ts:110); and a value that comes inside the handling of
another clears the flag that keeps the operator going while a group is handed over (296).
A `tap` whose `unsubscribe` callback throws does not call `finalize` (tap.ts:65). `timer` leaves its interval
running for an observer that leaves inside the first value (timer.ts:23), and a second
interval has no period (25). A source whose teardown connects again
inside a disconnect loses the Subject of its new connection (connectable.ts:175; `Acts`).

*Fan-out.* The platform `next()` works through a copy of its observers, and gives
the value to an observer that was aborted, or after the end of the run, in the
middle of it (index.ts:213). `inspect` tells an inspector that has just
thrown of an abort (880).

*Virtual time.* With `Overlap`, a manual operation may set the clock back
(`now = target`), an operation that fails loses the task it took, `advanceTo` may go
beyond the limit, and awaiting `flush()` inside scheduled async work waits for itself.

*Migration.* An operator in a pipeline that is refused, or nested in one, may lose its import
although the call stays (semantics.ts:587); the file as a whole is refused as well.
Arguments of a `cold()` renamed to `observable()` are not visited (185); a run nested in a
run resets the flag for what follows it (159). A file that appears between the preflight
and the write is overwritten, and a write that fails leaves those before it (node.ts).

An import declaration that stands after a converted pipeline loses the operators of that
pipeline before the walk has seen what follows, although a later pipeline that is refused still
calls them (semantics.ts:128, 407): `ImportsKept` excepts the imports that stand there.

*Sharing.* A connector that subscribes to the shared Observable from its own code makes a
second Subject inside the first `connector()`; `subject ??= connector()` (share.ts:103) then
replaces it, and the observer it was made for stays with a Subject that nobody can reach.
The model has no such connector.

*Skill installer and release.* Edits made between the check of a copy and its replacement are lost
(skill-install.ts:127): `past.edited` remembers the others, and only those are promised to stay. The restoration of one command may race another's replacement (256). The
cleanliness of the checkout is not looked at again between packs (beta.mjs:43).

*Documentation site.* Going back to the page on display before the slow one answers
leaves the loading state on (app.component.ts:213). A page that fails to load during an
interrupted entrance leaves a blank one. A failed "not found" document is kept for
its path (document.service.ts:80). A search client whose index fails to load over the network
waits forever (search.worker.ts:88); an error is replayed to later searches
(search.service.ts:36). After a resize the active heading may be wrong until the next scroll
(scroll-spy.service.ts:122).

*Installation.* A refusal of `Reflect.deleteProperty` by its result is not reported
(index.ts:1360): the error is then that of the definition, and the property stays. `AllOrNothing`
says that nothing else does, and that all that the realm had before is back.

## 7. Not modelled

- In modelled components: values, errors and abort reasons, and how errors are
  reported; the test whether a realm may still invoke callbacks
  (`canInvokeRealmCallbacks`); dependent signals (`AbortSignal.any`); the `maxAge`
  of a replaySubject; `share()` on a platform Observable, where the count is of runs and
  not of observers; a source that is no Observable and throws in
  `subscribe()`; a connector of `share()` that subscribes to the shared Observable itself (section 6); the order in which a `Set` is iterated (an arbitrary one is
  modelled; no property depends on it).
- `EventTarget.when()`: it registers a listener and removes it; the host does the rest.
- Virtual time: `refresh()`, the queues of animation frames and idle callbacks, the exchange
  of the globals, and the lock of a realm. Marble tests are sequential code over
  a schedule, which unit tests reach; so are the operators that only choose or rename others
  (`max`, `min`, `pluck`, `empty`, `never`, ...) and the construction protocol.
- Migration: the analysis, the command line and the conversion of assertions: sequential, over
  one file's syntax tree. The coherence and bundle scripts and the build: they compare and
  report, and keep nothing.
- The rest of the documentation site (scroll restoration, menus, analytics, examples): pure
  presentation, or of the browser.

## 8. Plan

Everything in the first plan of this project has a module. What would add most now:

1. Proofs: `ReleasedWithTheLast` and `FedByOne` of `Connectable`, along the lines of `Share_proof`;
   `EachValueOnce` and `KeepsLiveRunsOnly` of `Subjects` along those of
   `PerSubscriptionSubject_proof` (the end of an AsyncSubject flattens a sequence of any length,
   by recursion, and stays with TLC; a Subject has one run at a time); type correctness of what `CallStack`, `Downstream` and `Inputs` share; the
   concurrency limit of `FlatteningOperators` for any limit.
2. `replaySubject` with `maxAge`, over the clock of `TimedOperators`; `share()` on a platform
   Observable, over `PlatformObservable`.
3. `VirtualTime` with `refresh()` and the frame and idle queues, and `rxTest` with a
   lock for its realm.
4. Scroll restoration of the documentation site, with the router's events.
