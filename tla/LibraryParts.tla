---------------------------- MODULE LibraryParts ----------------------------
(***************************************************************************)
(* What is neither the core nor an operator of rxjs, side by side: what     *)
(* gives one source to many; the parts of the platform around its           *)
(* Observable; and the engine of rxTest.  A behaviour is that of one part,  *)
(* and each property speaks of one or more of them.                         *)
(***************************************************************************)
EXTENDS PlatformConversions, Sequences

CONSTANTS
  MaxDepth,                                        (* of all but the Subjects below *)
  Views, MaxRuns, MaxConns,                        (* of Connectable with refCount() *)
  ManualViews, ManualRuns, ManualConns,            (* the same, connected by hand   *)
  Keys, Durations, GroupValues, MaxViews,          (* of GroupBy                    *)
  Observers, SubjectValues,                        (* of Subjects                   *)
  ColdObservers, Size, ColdValues, ColdDepth,      (* of PerSubscriptionSubject     *)
  OperatorLog, MaxInputs, Amounts,                 (* of PlatformOperators          *)
  PromiseLog,                                      (* of PlatformPromises           *)
  Delays, MaxTasks, MaxOps, MaxTime, MaxExecutions,  (* of VirtualTime               *)
  OverlapDelays, OverlapTasks, OverlapOps, OverlapTime, OverlapExecutions
                                                   (* the same, where they overlap  *)

ASSUME PartsOK ==
  /\ {MaxDepth, OperatorLog, MaxInputs, Size, ColdValues} \subseteq Nat
  /\ {MaxTasks, MaxOps, OverlapTasks, OverlapOps} \subseteq Nat
  /\ Amounts \subseteq Nat /\ Delays \subseteq Nat /\ OverlapDelays \subseteq Nat

VARIABLES
  part,    (* which of them it is                                         *)
  stack,   (* of all but PlatformConversions, which this module extends   *)
  (* of Connectable                                                       *)
  reset, subjects, broken, bridge, conns, current, book, entry,
  (* of GroupBy                                                           *)
  keys, groups, map, viewed, views,
  (* of Subjects                                                          *)
  last, fan, fresh, got,
  (* of PerSubscriptionSubject                                            *)
  fanout, buffer, cold, hooked, emitted, received,
  (* of PlatformOperators                                                 *)
  k, st, hist, inputs, aborted,
  (* of PlatformPromises                                                  *)
  seeded, signal, outcome, acc,
  (* of VirtualTime                                                       *)
  now, queue, live, made, executions, failed, tracked, drivers, body,
  (* of two or three of them                                              *)
  runs, state, told, due, out, over, op, log

ofConversion == <<ended, at, opened, finished, pend, pulls, given, returned>>

ofConnectable == <<reset, subjects, broken, bridge, conns, current, book, entry>>

ofGroupBy == <<keys, groups, map, viewed, views>>

ofSubject == <<last, fan, fresh, got>>

ofCold == <<fanout, buffer, cold, hooked, emitted, received>>

ofOperator == <<k, st, hist, inputs, aborted>>

ofPromise == <<seeded, signal, outcome, acc>>

ofVirtualTime == <<now, queue, live, made, executions, failed, tracked, drivers, body>>

ofMany == <<ofConnectable, ofGroupBy, ofSubject, ofCold>>

ofPlatform == <<ofConversion, ofOperator, ofPromise>>

partVars ==
  <<part, stack, ofMany, ofPlatform, ofVirtualTime, runs, state, told, due, out, over, op, log,
    kind, active>>

-----------------------------------------------------------------------------
(* Views that refCount() returns, whose connector may break.                *)
R == INSTANCE Connectable WITH
       Manual <- FALSE, Acts <- FALSE, Breaks <- TRUE, Fails <- FALSE

(* Calls of connect() and unsubscribe() by hand as well.                    *)
M == INSTANCE Connectable WITH
       Views <- ManualViews, Manual <- TRUE, Acts <- FALSE, Breaks <- TRUE, Fails <- TRUE,
       MaxRuns <- ManualRuns, MaxConns <- ManualConns

G == INSTANCE GroupBy WITH Calm <- FALSE, MaxValues <- GroupValues

(* A source that does not emit inside what it has called.                   *)
Q == INSTANCE GroupBy WITH Calm <- TRUE, MaxValues <- GroupValues

S == INSTANCE Subjects WITH MaxValues <- SubjectValues

C == INSTANCE PerSubscriptionSubject WITH
       Observers <- ColdObservers, MaxValues <- ColdValues, MaxDepth <- ColdDepth

O == INSTANCE PlatformOperators WITH
       MaxLog <- OperatorLog,
       Ops <- {"takeUntil", "map", "filter", "take", "drop", "flatMap", "switchMap", "inspect",
               "catch", "finally"},
       Calm <- {"map", "filter", "flatMap", "switchMap", "inspect", "catch"}

P == INSTANCE PlatformPromises WITH
       MaxLog <- PromiseLog, Calm <- {"reduce"},
       Ops <- {"first", "last", "find", "some", "every", "forEach", "reduce", "toArray"}

(* Manual operations that the body awaits, one at a time...                  *)
V == INSTANCE VirtualTime WITH MaxRuns <- MaxExecutions, Prompt <- TRUE, Overlap <- FALSE

(* ...and those that tasks start, or the body while another goes on.        *)
W == INSTANCE VirtualTime WITH
       Delays <- OverlapDelays, MaxTasks <- OverlapTasks, MaxOps <- OverlapOps,
       MaxTime <- OverlapTime, MaxRuns <- OverlapExecutions, Prompt <- TRUE, Overlap <- TRUE

-----------------------------------------------------------------------------
NoConversion ==
  /\ ended = 0 /\ at = 0 /\ opened = 0 /\ finished = 0
  /\ pend = 0 /\ pulls = 0 /\ given = 0 /\ returned = 0

NoConnectable ==
  /\ reset = 0 /\ subjects = 0 /\ broken = 0 /\ bridge = 0
  /\ conns = 0 /\ current = 0 /\ book = 0 /\ entry = 0

NoGroupBy == keys = 0 /\ groups = 0 /\ map = 0 /\ viewed = 0 /\ views = 0

NoSubject == last = 0 /\ fan = 0 /\ fresh = 0 /\ got = 0

NoCold ==
  fanout = 0 /\ buffer = 0 /\ cold = 0 /\ hooked = 0 /\ emitted = 0 /\ received = 0

NoOperator == k = 0 /\ st = 0 /\ hist = 0 /\ inputs = 0 /\ aborted = 0

NoPromise == seeded = 0 /\ signal = 0 /\ outcome = 0 /\ acc = 0

NoVirtualTime ==
  /\ now = 0 /\ queue = 0 /\ live = 0 /\ made = 0 /\ executions = 0 /\ failed = 0
  /\ tracked = 0 /\ drivers = 0 /\ body = 0

NoMany == NoConnectable /\ NoGroupBy /\ NoSubject /\ NoCold

NoPlatform == NoConversion /\ NoOperator /\ NoPromise

ManyInit ==
  /\ NoPlatform /\ NoVirtualTime /\ op = 0 /\ log = 0
  /\ \/ /\ NoGroupBy /\ NoSubject /\ NoCold
        /\ state = 0 /\ kind = 0 /\ told = 0 /\ due = 0 /\ active = 0 /\ out = 0 /\ over = 0
        /\ \/ part = "refCount" /\ R!Init
           \/ part = "connect" /\ M!Init
     \/ /\ NoConnectable /\ NoSubject /\ NoCold
        /\ runs = 0 /\ kind = 0 /\ told = 0 /\ due = 0
        /\ \/ part = "groupBy" /\ G!Init
           \/ part = "calmGroupBy" /\ Q!Init
     \/ /\ NoConnectable /\ NoGroupBy /\ active = 0 /\ out = 0 /\ over = 0
        /\ \/ part = "subject" /\ NoCold /\ S!Init
           \/ part = "coldSubject" /\ NoSubject /\ runs = 0 /\ C!Init

PlatformInit ==
  /\ NoMany /\ NoVirtualTime /\ runs = 0 /\ state = 0 /\ told = 0 /\ due = 0
  /\ \/ /\ part = "conversion" /\ Init /\ NoOperator /\ NoPromise
        /\ stack = <<>> /\ out = 0 /\ over = 0 /\ op = 0 /\ log = 0
     \/ part = "operator" /\ O!Init /\ NoConversion /\ NoPromise /\ over = 0 /\ kind = 0
     \/ /\ part = "promise" /\ P!Init /\ NoConversion /\ NoOperator
        /\ active = 0 /\ out = 0 /\ kind = 0

TestInit ==
  /\ \/ part = "rxTest" /\ V!Init
     \/ part = "overlapping" /\ W!Init
  /\ NoMany /\ NoPlatform
  /\ runs = 0 /\ state = 0 /\ told = 0 /\ due = 0 /\ out = 0 /\ over = 0 /\ op = 0 /\ log = 0
  /\ kind = 0 /\ active = 0

PartInit == ManyInit \/ PlatformInit \/ TestInit

Connecting ==
  /\ \/ part = "refCount" /\ R!Next
     \/ part = "connect" /\ M!Next
  /\ UNCHANGED <<ofGroupBy, ofSubject, ofCold, state, kind, told, due, active, out, over>>

Grouping ==
  /\ \/ part = "groupBy" /\ G!Next
     \/ part = "calmGroupBy" /\ Q!Next
  /\ UNCHANGED <<ofConnectable, ofSubject, ofCold, runs, kind, told, due>>

Spreading ==
  /\ \/ part = "subject" /\ S!Next /\ UNCHANGED ofCold
     \/ part = "coldSubject" /\ C!Next /\ UNCHANGED <<ofSubject, runs>>
  /\ UNCHANGED <<ofConnectable, ofGroupBy, active, out, over>>

OfThePlatform ==
  \/ /\ part = "conversion" /\ Next
     /\ UNCHANGED <<stack, ofOperator, ofPromise, out, over, op, log>>
  \/ part = "operator" /\ O!Next /\ UNCHANGED <<ofConversion, ofPromise, over, kind>>
  \/ /\ part = "promise" /\ P!Next
     /\ UNCHANGED <<ofConversion, ofOperator, active, out, kind>>

PartNext ==
  /\ UNCHANGED part
  /\ \/ /\ Connecting \/ Grouping \/ Spreading
        /\ UNCHANGED <<ofPlatform, ofVirtualTime, op, log>>
     \/ OfThePlatform /\ UNCHANGED <<ofMany, ofVirtualTime, runs, state, told, due>>
     \/ /\ \/ part = "rxTest" /\ V!Next
           \/ part = "overlapping" /\ W!Next
        /\ UNCHANGED <<ofMany, ofPlatform, runs, state, told, due, out, over, op, log, kind,
                       active>>

testVars == V!vars

(* What the language runs by itself, of the parts that wait for it.         *)
PartFairness ==
  /\ WF_vars(part = "conversion" /\ GoesOn)
  /\ WF_testVars(part = "rxTest" /\ V!Library)
  /\ WF_testVars(part = "rxTest" /\ V!Body)
  /\ WF_testVars(part = "rxTest" /\ \E rejects \in BOOLEAN : V!PromiseSettles(rejects))

PartSpec == PartInit /\ [][PartNext]_partVars /\ PartFairness

-----------------------------------------------------------------------------
(* Every part keeps its variables in their types: references between them   *)
(* lead somewhere, nobody is told of two ends, a promise is settled once.   *)
PartTypeOK ==
  /\ part = "refCount" => R!TypeOK
  /\ part = "connect" => M!TypeOK
  /\ part = "groupBy" => G!TypeOK
  /\ part = "calmGroupBy" => Q!TypeOK
  /\ part = "subject" => S!TypeOK
  /\ part = "coldSubject" => C!TypeOK
  /\ part = "conversion" => TypeOK
  /\ part = "operator" => O!TypeOK
  /\ part = "promise" => P!TypeOK
  /\ part = "rxTest" => V!TypeOK
  /\ part = "overlapping" => W!TypeOK

(* What nobody observes is let go: the connection with the last run of all  *)
(* views of refCount(), whose count is exact (ref-count.ts:39 and 87), the  *)
(* source of groupBy with the last of its observers (group-by.ts:123), and  *)
(* a Subject keeps hold of live runs only, of none that was over before it  *)
(* started (subject.ts:34).                                                 *)
ReleasedWithTheLast ==
  /\ part = "refCount" => R!RunsCounted /\ R!ReleasedWithTheLast
  /\ part = "groupBy" => G!SourceReleased
  /\ part = "subject" => S!KeepsLiveRunsOnly

(* Whoever observes is fed, by one: a run of a view is on a Subject that a  *)
(* connection feeds (ref-count.ts:42), the source is not connected twice at *)
(* a time (connectable.ts:87), each connection has a Subject that no other  *)
(* has ended (connectable.ts:177), and a key has one group at a time that   *)
(* has not ended (group-by.ts:183).                                         *)
FedByOne ==
  /\ part = "refCount" => R!ActiveRunsFed
  /\ part = "connect" => M!OneConnection /\ M!FreshConnector
  /\ part = "groupBy" => G!OneGroupPerKey

(* An observer is given each value that it is due, once, whoever comes,     *)
(* leaves, ends or sends meanwhile: those of a Subject while it observes,   *)
(* the last one of an AsyncSubject, those it finds in the buffer of a       *)
(* behaviorSubject or a replaySubject, which are the newest, and the value  *)
(* that opens its group (group-by.ts:220).                                  *)
ValuesGivenOnce ==
  /\ part = "subject" => S!EachValueOnce /\ S!LastValueOnly
  /\ part = "coldSubject" => C!EachValueOnce /\ C!BufferIsNewest
  /\ part = "calmGroupBy" => Q!RoutedWhole

(* The end reaches all who observe a Subject, and those who come later      *)
(* (subject.ts:48, per-subscription-subject-base.ts:134); the result of     *)
(* groupBy ends after all of its groups (group-by.ts:155).                  *)
EndReachesAll ==
  /\ part = "subject" => S!EndReachesAll
  /\ part = "coldSubject" => C!EndReachesAll
  /\ part = "groupBy" => G!GroupsEndFirst

(* index.ts:496: while an operator or a conversion is active and nothing is *)
(* in progress, something is there that will notify it; and a test passes   *)
(* with nothing left to run (virtual-time.ts:384).                          *)
PartNeverStranded ==
  /\ part = "conversion" => NeverStranded
  /\ part = "operator" => O!NeverStranded
  /\ part = "rxTest" => V!PassesDrained
  /\ part = "overlapping" => W!PassesDrained

(* Who has to be told that it is over is told so once: an iterator that was *)
(* left early, however it was left, and none that said it is done           *)
(* (index.ts:381, 434, 479); an inspector that saw the subscription, by an  *)
(* end or by the abort, and the callback of finally (index.ts:880).         *)
ToldOnce ==
  /\ part = "conversion" => ReturnedOnce
  /\ part = "operator" => O!HooksOnce

(* Whatever the order in which source, notifier, inner sources and handler  *)
(* answer, the observer is given what that order says: flatMap and          *)
(* switchMap have one inner source at a time, and leave nothing outstanding *)
(* (index.ts:628-959); a promise is settled by what decides first - a       *)
(* value, an answer, an end or the abort (index.ts:961-1245).               *)
GivesWhatItShould ==
  /\ part = "operator" => O!GivesWhatItShould /\ O!OneInner /\ O!NothingOutstanding
  /\ part = "promise" => P!SettledByTheFirst

(* cold-observable.ts:45: an observer whose subscriber is over, or that has *)
(* left, is told nothing more; index.ts:508: nor is an async iterator       *)
(* asked for more once its observer has gone.                               *)
SilentOnceOver ==
  [][/\ part = "coldSubject" =>
          \A o \in DOMAIN cold : cold[o] \in {"cancelled", "ended"} =>
            received'[o] = received[o] /\ told'[o] = told[o]
     /\ part = "conversion" => (~active => pulls' = pulls)]_partVars

(* Virtual time goes on, runs each task when it is due, and stands still    *)
(* once the test has passed (virtual-time.ts:291, 411).                     *)
TimeGoesOn ==
  [][/\ part = "rxTest" => V!TimeGoesOn
     /\ part = "overlapping" => W!TimeGoesOn]_partVars

(* A conversion whose iterator goes on answering comes to an end, and so    *)
(* does a test whose body waits for virtual time only, and does so before   *)
(* the checkpoint of the engine is over (virtual-time.ts:330).              *)
PartsEnd ==
  <>(/\ part = "conversion" => AtAnEnd
     /\ part = "rxTest" => V!Over)
=============================================================================
