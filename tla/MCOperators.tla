---------------------------- MODULE MCOperators ----------------------------
(***************************************************************************)
(* The families of operators of the rxjs package, side by side: a behaviour *)
(* is one of a single operator, and each property speaks of the operators   *)
(* of one family.  Each family has bounds of its own.                       *)
(***************************************************************************)
EXTENDS Inputs

VARIABLES
  op,    (* the operator                                                  *)
  n,     (* a count or the number of its sources                          *)
  cfg,   (* its other options                                             *)
  st,    (* what its handlers close over                                  *)
  threw, (* history of ValueOperators                                     *)
  wins,  (* history of WindowOperators                                    *)
  views  (* the observers of Publishing                                   *)

vars == <<op, n, cfg, st, threw, wins, views, inputs, aborted, log, active, out, stack>>

ValueOps ==
  {"map", "filter", "scan", "reduce", "take", "skip", "takeLast", "skipLast", "takeWhile",
   "skipWhile", "count", "elementAt", "every", "find", "findIndex", "first", "last", "isEmpty",
   "single", "distinct", "distinctUntilChanged", "pairwise", "defaultIfEmpty", "throwIfEmpty",
   "startWith", "materialize", "dematerialize"}

NotifierOps ==
  {"takeUntil", "skipUntil", "sample", "withLatestFrom", "debounce", "throttle", "delayWhen"}

FlatteningOps ==
  {"mergeMap", "exhaustMap", "mergeScan", "expand", "switchMap", "switchScan", "merge",
   "onErrorResumeNext"}

CombinationOps == {"combine", "forkJoin", "zip", "race", "sequenceEqual", "partition"}

BufferOps == {"buffer", "bufferCount", "bufferToggle", "bufferTime"}

WindowOps == {"window", "windowCount", "windowToggle", "windowWhen", "windowTime"}

ResubscriptionOps == {"catchError", "retry", "retryWhen", "repeat", "repeatWhen"}

TimedOps ==
  {"timeout", "delay", "observeOn", "subscribeOn", "sampleTime", "timer", "interval",
   "animationFrames", "timeInterval", "timestamp"}

FinalOps == {"tap", "finalize", "fromEventPattern", "generate"}

V == INSTANCE ValueOperators WITH
       Ops <- ValueOps, Calm <- {"elementAt", "takeWhile"}, MaxInput <- 4,
       Source <- {1, 2, 3}, Counts <- {0, 1, 2}, opt <- cfg, input <- log

N == INSTANCE NotifierOperators WITH
       Ops <- NotifierOps, Calm <- {"debounce", "throttle", "delayWhen"}, MaxDepth <- 2,
       MaxLog <- 7, MaxInputs <- 7

F == INSTANCE FlatteningOperators WITH
       Ops <- FlatteningOps, Calm <- {"mergeMap", "exhaustMap", "mergeScan", "expand"},
       MaxDepth <- 2, Concurrency <- {1, 2}, Lists <- {1, 3}, conc <- cfg, list <- n

C == INSTANCE Combination WITH
       Ops <- CombinationOps, Calm <- {"sequenceEqual", "partition"}, MaxLog <- 5,
       MaxInputs <- 4,
       MaxSources <- 3, Differ <- 2

B == INSTANCE BufferOperators WITH
       Ops <- BufferOps, Calm <- {"buffer", "bufferCount"}, MaxLog <- 5,
       Sizes <- {1, 2}, Intervals <- {1, 2}

W == INSTANCE WindowOperators WITH
       Ops <- WindowOps, Calm <- {"window", "windowCount"}, MaxLog <- 5, MaxInputs <- 4,
       Sizes <- {1, 2}, Intervals <- {1, 2}, MaxWindows <- 3

R == INSTANCE Resubscription WITH
       Ops <- ResubscriptionOps, Calm <- {"retryWhen"}, Counts <- {0, 1, 2}, MaxInputs <- 6

T == INSTANCE TimedOperators WITH Ops <- TimedOps

E == INSTANCE Finalization WITH Ops <- FinalOps, MaxLog <- 5

P == INSTANCE Publishing WITH MaxViews <- 2, MaxLog <- 4, MaxInputs <- 3

(* Each family leaves alone what it has no use for. *)
Init ==
  \/ V!Init /\ inputs = <<>> /\ aborted = {} /\ wins = <<>> /\ views = <<>>
  \/ /\ threw = FALSE
     /\ \/ F!Init /\ wins = <<>> /\ views = <<>>
        \/ C!Init /\ wins = <<>> /\ views = <<>>
        \/ /\ n = 0
           /\ \/ N!Init /\ wins = <<>> /\ views = <<>>
              \/ B!Init /\ wins = <<>> /\ views = <<>>
              \/ R!Init /\ wins = <<>> /\ views = <<>>
              \/ T!Init /\ wins = <<>> /\ views = <<>>
              \/ E!Init /\ wins = <<>> /\ views = <<>> /\ cfg = {}
              \/ W!Init /\ views = <<>>
              \/ P!Init /\ wins = <<>> /\ op = "connect" /\ cfg = {}

Next ==
  \/ op \in ValueOps /\ V!Next /\ UNCHANGED <<inputs, aborted, wins, views>>
  \/ op \in NotifierOps /\ N!Next /\ UNCHANGED <<n, threw, wins, views>>
  \/ op \in FlatteningOps /\ F!Next /\ UNCHANGED <<threw, wins, views>>
  \/ op \in CombinationOps /\ C!Next /\ UNCHANGED <<threw, wins, views>>
  \/ op \in BufferOps /\ B!Next /\ UNCHANGED <<n, threw, wins, views>>
  \/ op \in WindowOps /\ W!Next /\ UNCHANGED <<n, threw, views>>
  \/ op \in ResubscriptionOps /\ R!Next /\ UNCHANGED <<n, threw, wins, views>>
  \/ op \in TimedOps /\ T!Next /\ UNCHANGED <<n, threw, wins, views>>
  \/ op \in FinalOps /\ E!Next /\ UNCHANGED <<n, cfg, threw, wins, views>>
  \/ op = "connect" /\ P!Next /\ UNCHANGED <<op, n, cfg, threw, wins>>

Spec == Init /\ [][Next]_vars

-----------------------------------------------------------------------------
(* Every operator keeps its variables in their types; an observer is given  *)
(* one end at most and nothing after it, and its Subscriber is inactive      *)
(* from then on, however deep the calls are nested.                          *)
TypeOK ==
  /\ op \in ValueOps => V!TypeOK
  /\ op \in NotifierOps => N!TypeOK
  /\ op \in FlatteningOps => F!TypeOK
  /\ op \in CombinationOps => C!TypeOK
  /\ op \in BufferOps => B!TypeOK
  /\ op \in WindowOps => W!TypeOK
  /\ op \in ResubscriptionOps => R!TypeOK
  /\ op \in TimedOps => T!TypeOK
  /\ op \in FinalOps => E!TypeOK
  /\ op = "connect" => P!TypeOK


(* Once no call is in progress the observer has had what the operator       *)
(* stands for: what the order says in which source, notifiers, durations    *)
(* and the other sources answered, however deep inside each other; and a    *)
(* callback that throws ends the result with that error.                    *)
GivesWhatItShould ==
  /\ op \in ValueOps => V!GivesWhatItShould /\ V!ThrowIsTheEnd
  /\ op \in NotifierOps => N!GivesWhatItShould
  /\ op \in CombinationOps => C!GivesWhatItShould
  /\ op \in ResubscriptionOps => R!GivesWhatItShould
  /\ op \in TimedOps => T!GivesWhatItShould /\ T!StampsRight

(* A completion loses nothing: the source and the inner source of every     *)
(* value are over (merge-scan.ts:32), a value that waits for the end of a   *)
(* throttle is still sent (throttle.ts:105), where no two buffers overlap   *)
(* each value has been given once or is in the open one, each value of      *)
(* retryWhen's notifier is an attempt (retry-when.ts:76), and a view of the *)
(* source that connect() shares sees all of its values (connect.ts:70).     *)
NothingLost ==
  /\ op \in NotifierOps => N!TrailingSurvives
  /\ op \in FlatteningOps => F!NothingOutstanding
  /\ op \in BufferOps => B!NothingLost
  /\ op \in ResubscriptionOps => R!EveryAttemptMade
  /\ op = "connect" => P!ViewsMissNothing

(* Values come in their order, once: those that throttle sends, those of    *)
(* the inner sources (expand.ts:45), and those that a window is given       *)
(* (window-toggle.ts:166), which are none from before it was opened.        *)
OrderKept ==
  /\ op \in NotifierOps => N!SentInOrder
  /\ op \in FlatteningOps => F!ValuesInOrder
  /\ op \in WindowOps => W!EachValueOnce /\ W!OwnValuesOnly

(* No input is live that should not be: the source is left before the       *)
(* observer is told of an end that it did not come to (take.ts:30), inner   *)
(* sources stay within the concurrency, switchMap has only the newest, race *)
(* only the winner, throttle and buffer have one duration at a time, retry  *)
(* and its like one attempt, and generate calls nothing for no observer.    *)
OnlyWhatIsNeeded ==
  /\ op \in ValueOps => V!DisconnectsFirst
  /\ op \in NotifierOps => N!OneThrottle
  /\ op \in FlatteningOps => F!WithinConcurrency /\ F!OnlyTheNewest
  /\ op \in CombinationOps => C!OneWinner
  /\ op \in BufferOps => B!OneDelay
  /\ op \in ResubscriptionOps => R!OneAttempt
  /\ op \in FinalOps => E!StopsWhenLeft

(* Buffers and windows that overlap begin and end where they should: by     *)
(* counts (buffer.ts:134, window-count.ts:65), by an opening and a closing  *)
(* input, or each by a timer of its own (buffer-time.ts:37).                *)
BoundariesExact ==
  /\ op \in BufferOps => B!CountedExactly /\ B!ToggledExactly /\ B!TimersMatch
  /\ op \in WindowOps => W!CountedExactly /\ W!TimersMatch
=============================================================================
