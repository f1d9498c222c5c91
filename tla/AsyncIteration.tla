--------------------------- MODULE AsyncIteration ---------------------------
(***************************************************************************)
(* source[iterateEachValue](), [iterateBufferedValues](),                  *)
(* [iterateLatestValue]() and [iterateNextValue](): an async generator that *)
(* subscribes to the source when it is first advanced and turns pushed     *)
(* values into results of next().                                          *)
(*                                                                         *)
(* Three parties interleave: the source, whose values come in synchronous  *)
(* turns; the generator, which continues in microtasks, that is, between   *)
(* turns; and the consumer, which calls next() and return() between turns  *)
(* (a turn is a stretch of emissions in which nobody calls the generator)  *)
(* without having to wait for the answers.  The language queues those      *)
(* calls and serves them in order, whenever the body of the generator      *)
(* stands at a yield.                                                      *)
(*                                                                         *)
(* Values are numbered in the order the source emits them.                 *)
(***************************************************************************)
EXTENDS Naturals, Sequences, SequencesExt

CONSTANTS
  MaxValues,   (* bound: values the source emits                             *)
  MaxRequests, (* bound: calls of next() and return() the consumer makes     *)
  MaxTurns     (* bound: turns of the source                                 *)

ASSUME BoundsOK == {MaxValues, MaxRequests, MaxTurns} \subseteq Nat

Policies == {"each", "buffered", "latest", "next"}

VARIABLES
  policy,   (* which of the four generators this is                          *)
  pc,       (* where its body stands, see TypeOK                             *)
  buffer,   (* values, or latest as a sequence of at most one                *)
  pending,  (* whether a Deferred is installed                               *)
  terminal, (* the source's TerminalState                                    *)
  out,      (* what the awaited promise, or the yield, carries               *)
  queue,    (* the requests the generator has not settled                    *)
  aborted,  (* whether abortController has aborted the source's observer     *)
  inTurn,   (* whether the source's synchronous code is running              *)
  emitted,  (* history: the number of values emitted                         *)
  turns,    (* history: turns[v], the turn that v was emitted in             *)
  turnNo,   (* history: the number of turns begun                            *)
  requests, (* history: the number of requests made                          *)
  results,  (* history: what each next() was given, a value or a batch       *)
  given     (* history: the values they were given, one after the other      *)

vars == <<policy, pc, buffer, pending, terminal, out, queue, aborted, inTurn,
          emitted, turns, turnNo, requests, results,
          given>>

Init ==
  /\ policy \in Policies
  /\ pc = "start"
  /\ buffer = <<>>
  /\ pending = FALSE
  /\ terminal = "none"
  /\ out = <<>>
  /\ queue = <<>>
  /\ aborted = FALSE
  /\ inTurn = FALSE
  /\ emitted = 0
  /\ turns = <<>>
  /\ turnNo = 0
  /\ requests = 0
  /\ results = <<>>
  /\ given = <<>>

-----------------------------------------------------------------------------
(* The body of the generator, between two awaits.                           *)

Over == pc \in {"done", "closed"}

(* Leaving the body: at its end, by `throw state.error`, or because it was  *)
(* closed.  `finally` aborts the observer, and the requests still queued    *)
(* are answered "done".                                                     *)
Finish(how) ==
  /\ pc' = how
  /\ aborted' = TRUE
  /\ queue' = <<>>
  /\ pending' = FALSE
  /\ UNCHANGED <<buffer, out>>

Wait(rest) ==
  /\ pc' = "awaiting"
  /\ pending' = TRUE
  /\ queue' = rest
  /\ UNCHANGED <<buffer, out, aborted>>

(* Taking what is buffered; the latest value only after `await RESOLVED`. *)
Take(rest) ==
  /\ IF policy = "latest"
     THEN pc' = "pausing" /\ UNCHANGED <<buffer, out>>
     ELSE /\ pc' = "yielding"
          /\ out' = IF policy = "each" THEN <<Head(buffer)>> ELSE buffer
          /\ buffer' = IF policy = "each" THEN Tail(buffer) ELSE <<>>
  /\ queue' = rest
  /\ UNCHANGED <<pending, aborted>>

(* Variants of the definition that follows, as a mistake would have it, are *)
(* named Bug...: the properties are shown to notice them.                   *)
BugTerminalFirst(rest) ==
  IF terminal # "none" /\ (buffer = <<>> \/ policy = "latest")
  THEN Finish("done")
  ELSE IF buffer # <<>> THEN Take(rest) ELSE Wait(rest)

(* values.shift() with no test of values.length: 0 stands for undefined. *)
BugShiftUnchecked(rest) ==
  /\ pc' = "yielding"
  /\ out' = IF buffer = <<>> THEN <<0>> ELSE buffer
  /\ buffer' = <<>>
  /\ queue' = rest
  /\ UNCHANGED <<pending, aborted>>

(* The top of the while loop: an accepted value goes before the terminal    *)
(* state, and only with neither does the generator wait.                    *)
Loop(rest) ==
  IF buffer # <<>> THEN Take(rest)
  ELSE IF terminal # "none" THEN Finish("done") ELSE Wait(rest)

(* The body, at a yield, is given the first request of the queue. *)
Serve(requested) ==
  IF Head(requested) = "return" THEN Finish("closed") ELSE Loop(requested)

-----------------------------------------------------------------------------
(* The consumer.                                                            *)
Request(r) ==
  /\ ~inTurn
  /\ requests < MaxRequests
  /\ requests' = requests + 1
  /\ CASE pc = "start" /\ r = "next" ->
            (* source.subscribe(): the source may run right here *)
            /\ pc' = "subscribing"
            /\ inTurn' = TRUE
            /\ turnNo' = turnNo + 1
            /\ queue' = <<r>>
            /\ UNCHANGED <<buffer, pending, out, aborted>>
       [] pc = "start" /\ r = "return" ->
            (* nothing was subscribed to *)
            /\ pc' = "closed"
            /\ UNCHANGED <<buffer, pending, out, queue, aborted, inTurn, turnNo>>
       [] pc = "yielded" ->
            Serve(<<r>>) /\ UNCHANGED <<inTurn, turnNo>>
       [] Over ->
            UNCHANGED <<pc, buffer, pending, out, queue, aborted, inTurn, turnNo>>
       [] OTHER ->
            /\ queue' = Append(queue, r)
            /\ UNCHANGED <<pc, buffer, pending, out, aborted, inTurn, turnNo>>
  /\ UNCHANGED <<policy, terminal, emitted, turns, results, given>>

-----------------------------------------------------------------------------
(* The source.                                                              *)
TurnBegins ==
  /\ ~inTurn
  /\ pc # "start" /\ ~Over
  /\ terminal = "none"
  /\ turnNo < MaxTurns
  /\ inTurn' = TRUE
  /\ turnNo' = turnNo + 1
  /\ UNCHANGED <<policy, pc, buffer, pending, terminal, out, queue, aborted,
                 emitted, turns, requests, results, given>>

BugReadAtOnce(v) ==
  /\ pending' = FALSE
  /\ pc' = IF pending THEN "woken" ELSE pc
  /\ out' = IF pending THEN <<v>> ELSE out
  /\ buffer' = IF pending \/ policy = "next" THEN buffer ELSE Append(buffer, v)

BugDeferredKept(v) ==
  /\ pc' = IF pending THEN "woken" ELSE pc
  /\ out' = IF pending THEN <<v>> ELSE out
  /\ buffer' = IF pending THEN buffer ELSE Append(buffer, v)
  /\ UNCHANGED pending

(* What next(value) of the observer does, as the policy has it. *)
Accept(v) ==
  CASE policy \in {"each", "next"} /\ pending ->
         /\ pending' = FALSE
         /\ pc' = "woken"
         /\ out' = <<v>>
         /\ UNCHANGED buffer
    [] policy = "each" /\ ~pending ->
         /\ buffer' = Append(buffer, v)
         /\ UNCHANGED <<pc, pending, out>>
    [] policy = "next" /\ ~pending ->
         UNCHANGED <<pc, buffer, pending, out>>
    [] policy \in {"buffered", "latest"} ->
         (* the Deferred is resolved with a microtask that reads the buffer *)
         /\ buffer' = IF policy = "latest" THEN <<v>> ELSE Append(buffer, v)
         /\ pending' = FALSE
         /\ pc' = IF pending THEN "settling" ELSE pc
         /\ UNCHANGED out

Emit ==
  /\ inTurn
  /\ terminal = "none"
  /\ emitted < MaxValues
  /\ emitted' = emitted + 1
  /\ turns' = Append(turns, turnNo)
  /\ Accept(emitted + 1)
  /\ UNCHANGED <<policy, terminal, queue, aborted, inTurn, turnNo, requests,
                 results, given>>

BugPendingForgotten(kind) ==
  /\ inTurn
  /\ terminal = "none"
  /\ terminal' = kind
  /\ pending' = FALSE
  /\ UNCHANGED <<policy, pc, buffer, out, queue, aborted, inTurn, emitted,
                 turns, turnNo, requests, results, given>>

(* error() and complete() of the observer. *)
Terminate(kind) ==
  /\ inTurn
  /\ terminal = "none"
  /\ terminal' = kind
  /\ pending' = FALSE
  /\ pc' = IF pending THEN "woken" ELSE pc
  /\ out' = IF pending THEN <<>> ELSE out
  /\ UNCHANGED <<policy, buffer, queue, aborted, inTurn, emitted, turns, turnNo,
                 requests, results, given>>

TurnEnds ==
  /\ inTurn
  /\ inTurn' = FALSE
  /\ IF pc = "subscribing"
     THEN Loop(queue)
     ELSE UNCHANGED <<pc, buffer, pending, out, queue, aborted>>
  /\ UNCHANGED <<policy, terminal, emitted, turns, turnNo, requests, results,
                 given>>

-----------------------------------------------------------------------------
(* Microtasks.                                                              *)

(* The callback that reads the buffer on behalf of a resolved Deferred. *)
Settle ==
  /\ ~inTurn
  /\ pc = "settling"
  /\ out' = buffer
  /\ buffer' = <<>>
  /\ pc' = "woken"
  /\ UNCHANGED <<policy, pending, terminal, queue, aborted, inTurn, emitted,
                 turns, turnNo, requests, results, given>>

(* `await pending.promise` continues: an empty result is the terminal one. *)
Wake ==
  /\ ~inTurn
  /\ pc = "woken"
  /\ IF out = <<>>
     THEN Finish("done")
     ELSE pc' = "yielding" /\ UNCHANGED <<buffer, pending, out, queue, aborted>>
  /\ UNCHANGED <<policy, terminal, inTurn, emitted, turns, turnNo, requests,
                 results, given>>

(* `await RESOLVED`, in the latest-value generator. *)
Pause ==
  /\ ~inTurn
  /\ pc = "pausing"
  /\ out' = buffer
  /\ buffer' = <<>>
  /\ pc' = "yielding"
  /\ UNCHANGED <<policy, pending, terminal, queue, aborted, inTurn, emitted,
                 turns, turnNo, requests, results, given>>

(* The yield gives its value to the oldest request and takes up the next. *)
Yield ==
  /\ ~inTurn
  /\ pc = "yielding"
  /\ results' = Append(results, out)
  /\ given' = given \o out
  /\ IF Len(queue) = 1
     THEN /\ pc' = "yielded"
          /\ queue' = <<>>
          /\ UNCHANGED <<buffer, pending, out, aborted>>
     ELSE Serve(Tail(queue))
  /\ UNCHANGED <<policy, terminal, inTurn, emitted, turns, turnNo, requests>>

Microtask == Settle \/ Wake \/ Pause \/ Yield

Next ==
  \/ \E r \in {"next", "return"} : Request(r)
  \/ TurnBegins
  \/ Emit
  \/ \E kind \in {"complete", "error"} : Terminate(kind)
  \/ TurnEnds
  \/ Microtask

(* Synchronous code returns and microtasks run; nobody has to emit or ask. *)
Spec == Init /\ [][Next]_vars /\ WF_vars(TurnEnds) /\ WF_vars(Microtask)

-----------------------------------------------------------------------------
(* Properties.                                                              *)

(* Types, and where the body can stand: not started, in source.subscribe(), *)
(* at one of its awaits, at a yield, or left.                               *)
TypeOK ==
  /\ policy \in Policies
  /\ pc \in {"start", "subscribing", "awaiting", "settling", "woken", "pausing",
             "yielding", "yielded", "done", "closed"}
  /\ buffer \in Seq(1 .. emitted)
  /\ pending \in BOOLEAN
  /\ terminal \in {"none", "complete", "error"}
  /\ out \in Seq(1 .. emitted)
  /\ queue \in Seq({"next", "return"})
  /\ aborted \in BOOLEAN
  /\ inTurn \in BOOLEAN
  /\ emitted \in 0 .. MaxValues
  /\ turns \in Seq(1 .. turnNo) /\ Len(turns) = emitted
  /\ turnNo \in 0 .. MaxTurns + 1
  /\ requests \in 0 .. MaxRequests
  /\ results \in Seq(Seq(1 .. emitted))
  /\ given \in Seq(1 .. emitted)

(* Values that next() may yet be given: on their way, then buffered. *)
ToCome ==
  (IF pc \in {"woken", "yielding"} THEN out ELSE <<>>)
    \o (IF Over THEN <<>> ELSE buffer)

(* iterateEachValue and iterateBufferedValues lose, repeat and reorder      *)
(* nothing: what next() has given, what is on its way and what is buffered  *)
(* are the values emitted so far, and a source that ends has all its values *)
(* given first, unless the consumer closed the generator.                   *)
Lossless ==
  policy \in {"each", "buffered"} /\ pc # "closed" =>
    given \o ToCome = [v \in 1 .. emitted |-> v]

(* iterateLatestValue skips values but never the newest one, and            *)
(* iterateNextValue answers one next() with one value; neither goes back.   *)
NewestKept ==
  /\ \A i, j \in DOMAIN given : i < j => given[i] < given[j]
  /\ policy = "latest" /\ pc # "closed" /\ emitted > 0 =>
       given \o ToCome # <<>> /\ Last(given \o ToCome) = emitted

(* A synchronous burst is observed as one: a batch never splits the values  *)
(* of a turn, and the latest value given is the last of its turn.           *)
BurstsCoalesce ==
  /\ policy = "buffered" =>
       \A i, j \in DOMAIN results : i < j =>
         turns[Last(results[i])] < turns[Head(results[j])]
  /\ policy = "latest" =>
       \A i \in DOMAIN given :
         given[i] < emitted => turns[given[i]] < turns[given[i] + 1]

(* When the source has ended, every outstanding next() and return() is      *)
(* answered in the end, however many were queued and whatever is buffered.  *)
EndAnswersRequests == (terminal # "none") ~> (queue = <<>>)

(* "Explicitly closing the generator aborts its source observer", as        *)
(* iterate-*-value(s).ts has it.  return() waits in the queue while the     *)
(* body awaits a value that may never come: this does not hold.             *)
CloseAborts == (\E i \in DOMAIN queue : queue[i] = "return") ~> aborted
=============================================================================
