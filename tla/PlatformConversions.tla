------------------------- MODULE PlatformConversions -------------------------
(***************************************************************************)
(* Observable.from() of the platform: what it makes of an iterable, an     *)
(* async iterable and a promise, and how these are let go.                 *)
(*                                                                         *)
(* The iterator is user code: its methods may throw, give what is not an   *)
(* object, and abort the subscriber; its answers, when it is an async one, *)
(* come at any time, after the abort too.  Answers are heeded in           *)
(* microtasks.                                                             *)
(***************************************************************************)
EXTENDS Naturals

CONSTANT MaxValues  (* bound: values of the iterator *)

ASSUME ConversionsOK == MaxValues \in Nat

VARIABLES
  kind,      (* "iterable", "async" or "promise"                          *)
  active,    (* of the subscriber                                         *)
  ended,     (* history: how the subscriber was closed                    *)
  at,        (* the user code in progress                                 *)
  opened,    (* the teardown that lets the iterator go is registered      *)
  finished,  (* the iterator has said that it is done                     *)
  pend,      (* the answer that is awaited, or that a microtask has       *)
  pulls,     (* history: calls of the iterator's next()                   *)
  given,     (* history: values that the observer was given               *)
  returned   (* history: calls of the iterator's return()                 *)

vars == <<kind, active, ended, at, opened, finished, pend, pulls, given, returned>>

Answers == {"value", "done", "bad", "rejection"}

Init ==
  /\ kind \in {"iterable", "async", "promise"}
  /\ active = TRUE /\ ended = "none"
  /\ at = IF kind = "promise" THEN "idle" ELSE "opening"
  /\ opened = FALSE /\ finished = FALSE
  /\ pend = IF kind = "promise" THEN "awaited" ELSE "none"
  /\ pulls = 0 /\ given = 0 /\ returned = 0

BugReturnsAlways(how, done) ==
  /\ active' = FALSE
  /\ ended' = IF active THEN how ELSE ended
  /\ returned' = IF active /\ opened THEN returned + 1 ELSE returned

(* The subscriber is closed, and closeIterator() runs as its teardown.      *)
Close(how, done) ==
  /\ active' = FALSE
  /\ ended' = IF active THEN how ELSE ended
  /\ returned' = IF active /\ opened /\ ~done THEN returned + 1 ELSE returned

Goes == UNCHANGED <<active, ended, returned>>

BugAbortUnheard ==
  /\ active
  /\ active' = FALSE
  /\ UNCHANGED <<kind, ended, at, opened, finished, pend, pulls, given, returned>>

Abort ==
  /\ active
  /\ Close("abort", finished)
  /\ UNCHANGED <<kind, at, opened, finished, pend, pulls, given>>

(* pull(), or the condition of the loop. *)
Pull ==
  IF active THEN at' = "pulling" /\ pulls' = pulls + 1
  ELSE at' = "idle" /\ UNCHANGED pulls

(* [Symbol.iterator]() or [Symbol.asyncIterator]() gives an iterator.       *)
Open ==
  /\ at = "opening"
  /\ opened' = active
  /\ Pull
  /\ UNCHANGED <<kind, active, ended, finished, pend, given, returned>>

OpenFails ==
  /\ at = "opening"
  /\ at' = "idle"
  /\ Close("error", finished)
  /\ UNCHANGED <<kind, opened, finished, pend, pulls, given>>

(* subscriber.next(), whose observer is user code. *)
Give ==
  IF active /\ given < MaxValues THEN at' = "giving" /\ given' = given + 1
  ELSE at' = "idle" /\ UNCHANGED given

(* next() of an iterable returns, or throws ("rejection").                  *)
PullAnswered(a) ==
  /\ kind = "iterable" /\ at = "pulling"
  /\ a = "value" => given < MaxValues
  /\ IF a = "value" THEN Give /\ Goes /\ UNCHANGED finished
     ELSE /\ at' = "idle"
          /\ finished' = (finished \/ a = "done")
          /\ Close(IF a = "done" THEN "complete" ELSE "error", finished')
          /\ UNCHANGED given
  /\ UNCHANGED <<kind, opened, pend, pulls>>

(* next() of an async iterator returns what is to be awaited, or throws: the *)
(* error waits for a microtask.                                             *)
PullReturns(throws) ==
  /\ kind = "async" /\ at = "pulling"
  /\ at' = "idle"
  /\ pend' = IF throws THEN "rejection" ELSE "awaited"
  /\ UNCHANGED <<kind, active, ended, opened, finished, pulls, given, returned>>

Answer(a) ==
  /\ pend = "awaited"
  /\ a = "value" => given < MaxValues
  /\ kind = "promise" => a \in {"value", "rejection"}
  /\ pend' = a
  /\ UNCHANGED <<kind, active, ended, at, opened, finished, pulls, given, returned>>

BugNeverFinished ==
  /\ kind = "async" /\ at = "idle" /\ pend \in Answers
  /\ pend' = "none"
  /\ CASE pend = "value" -> Give /\ Goes /\ UNCHANGED finished
       [] pend = "done"  -> /\ finished' = TRUE
                            /\ Goes
                            /\ UNCHANGED <<at, given>>
       [] OTHER          -> Close("error", finished) /\ UNCHANGED <<at, given, finished>>
  /\ UNCHANGED <<kind, opened, pulls>>

BugAsksAgain ==
  /\ kind = "async" /\ at = "idle" /\ pend \in Answers
  /\ pend' = IF pend = "done" THEN "awaited" ELSE "none"
  /\ CASE pend = "value" -> Give /\ Goes
       [] pend = "done"  -> Goes /\ UNCHANGED <<at, given>>
       [] OTHER          -> Close("error", finished) /\ UNCHANGED <<at, given>>
  /\ UNCHANGED <<kind, opened, finished, pulls>>

(* The microtask of an answer of an async iterator. *)
HeedAnswer ==
  /\ kind = "async" /\ at = "idle" /\ pend \in Answers
  /\ pend' = "none"
  /\ CASE pend = "value" -> Give /\ Goes /\ UNCHANGED finished
       [] pend = "done"  -> /\ finished' = TRUE
                            /\ Close("complete", TRUE)
                            /\ UNCHANGED <<at, given>>
       [] OTHER          -> Close("error", finished) /\ UNCHANGED <<at, given, finished>>
  /\ UNCHANGED <<kind, opened, pulls>>

HeedPromise ==
  /\ kind = "promise" /\ at = "idle" /\ pend \in Answers
  /\ pend' = "none"
  /\ IF pend = "value" THEN Give /\ Goes
     ELSE Close("error", finished) /\ UNCHANGED <<at, given>>
  /\ UNCHANGED <<kind, opened, finished, pulls>>

(* The observer returns: the next pull, or the end of the promise.          *)
Given ==
  /\ at = "giving"
  /\ IF kind = "promise" THEN at' = "idle" /\ UNCHANGED pulls /\ Close("complete", TRUE)
     ELSE Pull /\ Goes
  /\ UNCHANGED <<kind, opened, finished, pend, given>>

Next ==
  \/ Abort
  \/ Open
  \/ OpenFails
  \/ \E a \in Answers : PullAnswered(a)
  \/ \E throws \in BOOLEAN : PullReturns(throws)
  \/ \E a \in Answers : Answer(a)
  \/ HeedAnswer
  \/ HeedPromise
  \/ Given

(* User code returns and microtasks run; the iterator answers.              *)
GoesOn ==
  \/ Open \/ OpenFails \/ Given \/ HeedAnswer \/ HeedPromise
  \/ \E a \in Answers : PullAnswered(a) \/ Answer(a)
  \/ \E throws \in BOOLEAN : PullReturns(throws)

Fairness == WF_vars(GoesOn)

Spec == Init /\ [][Next]_vars /\ Fairness

-----------------------------------------------------------------------------
(* Properties.                                                              *)

TypeOK ==
  /\ kind \in {"iterable", "async", "promise"}
  /\ ended \in {"none", "complete", "error", "abort"}
  /\ at \in {"idle", "opening", "pulling", "giving"}
  /\ active = (ended = "none")
  /\ pend \in Answers \cup {"none", "awaited"}

(* index.ts:381, 434, 479: an iterator that was left early is told so once,  *)
(* however it was left, and one that has said it is done is not told.       *)
ReturnedOnce ==
  /\ opened /\ ended \in {"error", "abort"} => returned = 1
  /\ ended \in {"none", "complete"} => returned = 0

(* index.ts:496: an active subscriber has an answer to wait for.            *)
NeverStranded == active /\ at = "idle" => pend # "none"

(* Nothing of the conversion is in progress any more, or will be. *)
AtAnEnd == ~active /\ at = "idle" /\ pend = "none"
=============================================================================
