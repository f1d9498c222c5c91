---------------------------- MODULE VirtualTime ----------------------------
(***************************************************************************)
(* The engine of rxTest(): a queue of virtual tasks, and the async         *)
(* functions that take from it - the run itself, which drains the queue as *)
(* long as the body of the test has not settled and once more afterwards,  *)
(* and each flush() and advanceTo() that the test calls.                   *)
(*                                                                         *)
(* What an async function does up to its next await is one step; such a    *)
(* function starts inside its call, and so may run a task inside another.  *)
(* Where it awaits a checkpoint, microtasks of the body come first: as     *)
(* many as it needs if Prompt, some of them otherwise.                     *)
(***************************************************************************)
EXTENDS Naturals, Sequences, FiniteSets

CONSTANTS
  Delays,      (* of timers, and what advanceTo() adds to the time        *)
  MaxTasks,    (* bound: tasks that user code makes                       *)
  MaxOps,      (* bound: manual operations                                *)
  MaxTime,     (* config.maxVirtualTime                                   *)
  MaxRuns,     (* config.maxTaskExecutions                                *)
  Prompt,      (* the body has no microtask left when a checkpoint ends   *)
  Overlap      (* operations are started by tasks, or while one goes on   *)

VARIABLES
  now,         (* #now                                                    *)
  queue,       (* #tasks, those that are active                           *)
  live,        (* the tasks that will run, or run again, unless cleared   *)
  made,        (* #nextOrder                                              *)
  executions,  (* #taskExecutions                                         *)
  failed,      (* #hasError                                               *)
  tracked,     (* #trackedPromises: how many                              *)
  drivers,     (* the run, which is 0, and the manual operations          *)
  body,        (* of the test: what it awaits                             *)
  stack        (* the drivers whose synchronous code is in progress       *)

vars == <<now, queue, live, made, executions, failed, tracked, drivers, body, stack>>

Run == 0

Idle == [op |-> "none", target |-> 0, at |-> "off", task |-> 0]

Init ==
  /\ now = 0 /\ queue = {} /\ live = {} /\ made = 0 /\ executions = 0
  /\ failed = FALSE /\ tracked = 0
  /\ drivers = [d \in 0..MaxOps |-> IF d = Run THEN [Idle EXCEPT !.at = "look"] ELSE Idle]
  /\ body = [at |-> "busy", of |-> 0]
  /\ stack = <<>>

-----------------------------------------------------------------------------
At(d) == drivers[d].at

Finished == {"off", "done", "failed"}

(* #manualOperations *)
Operating == {d \in 1..MaxOps : At(d) \notin Finished}

Over == At(Run) \in Finished

Settled == body.at = "settled"

(* runUntilSettled() goes on as flushInternal(). *)
Op(d) == IF d # Run THEN drivers[d].op ELSE IF Settled THEN "flush" ELSE "settle"

(* d stands at this place, and its turn has come: it is being called, or a  *)
(* microtask resumes it.                                                    *)
Stands(d, place) ==
  At(d) = place /\ d \in IF stack = <<>> THEN DOMAIN drivers ELSE {Head(stack)}

Caller == IF stack = <<>> THEN <<>> ELSE Tail(stack)

Await(d, place) ==
  /\ drivers' = [drivers EXCEPT ![d] =
                   IF place \in Finished THEN [Idle EXCEPT !.at = place]
                   ELSE [@ EXCEPT !.at = place, !.task = 0]]
  /\ stack' = Caller

Wakes(place, of) == IF body = [at |-> place, of |-> of] THEN [at |-> "busy", of |-> 0] ELSE body

Stop(d, how) ==
  /\ Await(d, how)
  /\ body' = Wakes("op", d)
  /\ UNCHANGED <<now, queue, live, made, executions, failed, tracked>>

Priority(t) == IF t.kind = "immediate" THEN 0 ELSE 1

BugDueForgotten(t, u) ==
  \/ Priority(t) < Priority(u)
  \/ Priority(t) = Priority(u) /\ t.order < u.order

Precedes(t, u) ==
  \/ t.due < u.due
  \/ t.due = u.due /\ Priority(t) < Priority(u)
  \/ t.due = u.due /\ Priority(t) = Priority(u) /\ t.order < u.order

Earliest == CHOOSE t \in queue : \A u \in queue \ {t} : Precedes(t, u)

Exceeds == Earliest.due > MaxTime \/ executions = MaxRuns

(* execute(): the limits, then the clock, then the callback.                *)
Take(d) ==
  LET t == Earliest
  IN /\ queue' = queue \ {t}
     /\ IF Exceeds
        THEN /\ Await(d, "failed")
             /\ body' = Wakes("op", d)
             /\ UNCHANGED <<now, live, executions>>
        ELSE /\ now' = t.due
             /\ executions' = executions + 1
             /\ live' = IF t.kind = "interval" THEN live ELSE live \ {t.id}
             /\ drivers' = [drivers EXCEPT ![d].at = "run", ![d].task = t]
             /\ stack' = <<d>> \o Caller
             /\ body' = Wakes("task", t.id)
     /\ UNCHANGED <<made, failed, tracked>>

Wait(d, place) ==
  /\ Await(d, place)
  /\ UNCHANGED <<now, queue, live, made, executions, failed, tracked, body>>

-----------------------------------------------------------------------------
(* The loops.                                                               *)

(* runUntilSettled(): manual operations come first.                         *)
SettleLooks ==
  /\ Stands(Run, "look") /\ Op(Run) = "settle"
  /\ \/ body.at = "rejected" /\ Stop(Run, "failed")
     \/ body.at # "rejected" /\ Operating # {} /\ Wait(Run, "manual")
     \/ body.at # "rejected" /\ Operating = {} /\ Wait(Run, "check")

SettleChecked ==
  /\ Stands(Run, "check")
  /\ Prompt => body.at # "busy"
  /\ \/ (failed \/ body.at = "rejected") /\ Stop(Run, "failed")
     \/ /\ ~failed /\ body.at # "rejected"
        /\ \/ ~Settled /\ Operating # {} /\ Wait(Run, "manual")
           \/ ~Settled /\ Operating = {} /\ queue = {} /\ Wait(Run, "body")
           \/ (Settled \/ Operating = {}) /\ queue # {} /\ Take(Run)
           \/ Settled /\ queue = {} /\ Wait(Run, "empty")

(* Promises that the run awaits have settled.                               *)
Resumes ==
  /\ stack = <<>>
  /\ \/ At(Run) = "manual" /\ Operating = {}
     \/ At(Run) = "body" /\ body.at \in {"settled", "rejected"}
  /\ drivers' = [drivers EXCEPT ![Run].at = "look"]
  /\ UNCHANGED <<now, queue, live, made, executions, failed, tracked, body, stack>>

(* flushInternal() *)
FlushLooks(d) ==
  /\ Stands(d, "look") /\ Op(d) = "flush"
  /\ \/ failed /\ Stop(d, "failed")
     \/ ~failed /\ queue = {} /\ Wait(d, "empty")
     \/ ~failed /\ queue # {} /\ Take(d)

FlushChecked(d) ==
  /\ Stands(d, "empty")
  /\ \/ failed /\ Stop(d, "failed")
     \/ ~failed /\ queue # {} /\ Take(d)
     \/ ~failed /\ queue = {} /\ tracked > 0 /\ Wait(d, "race")
     \/ ~failed /\ queue = {} /\ tracked = 0 /\ Stop(d, "done")

(* advanceTo(): the time is set when nothing is due until then.             *)
AdvanceLooks(d) ==
  /\ Stands(d, "look") /\ Op(d) = "advance"
  /\ IF queue # {} /\ Earliest.due <= drivers[d].target
     THEN Take(d)
     ELSE /\ now' = drivers[d].target
          /\ Await(d, "last")
          /\ UNCHANGED <<queue, live, made, executions, failed, tracked, body>>

AdvanceChecked(d) == Stands(d, "last") /\ Stop(d, IF failed THEN "failed" ELSE "done")

(* The checkpoint of execute() is over.                                     *)
Rested(d) ==
  /\ Stands(d, "rest")
  /\ \/ failed /\ Stop(d, "failed")
     \/ /\ ~failed
        /\ drivers' = [drivers EXCEPT ![d].at = "look"]
        /\ UNCHANGED <<now, queue, live, made, executions, failed, tracked, body, stack>>

(* The callback of a task returns: a promise of it is tracked, and an       *)
(* interval that has not been cleared is put back.                          *)
Returns(d, promise) ==
  LET t == drivers[d].task
      again == t.kind = "interval" /\ t.id \in live
  IN /\ Stands(d, "run")
     /\ Await(d, "rest")
     /\ tracked' = tracked + promise
     /\ made' = IF again THEN made + 1 ELSE made
     /\ queue' = IF again
                 THEN queue \cup {[t EXCEPT !.due = @ + t.period, !.order = made + 1]}
                 ELSE queue
     /\ UNCHANGED <<now, live, executions, failed, body>>

Throws(d) ==
  /\ Stands(d, "run")
  /\ Await(d, "rest")
  /\ failed' = TRUE
  /\ UNCHANGED <<now, queue, live, made, executions, tracked, body>>

(* A tracked promise settles: the race of those who wait for one is over.   *)
PromiseSettles(rejects) ==
  /\ stack = <<>> /\ tracked > 0 /\ ~Over
  /\ tracked' = tracked - 1
  /\ failed' = (failed \/ rejects)
  /\ drivers' = [d \in DOMAIN drivers |->
                   IF At(d) = "race" THEN [drivers[d] EXCEPT !.at = "look"] ELSE drivers[d]]
  /\ UNCHANGED <<now, queue, live, made, executions, body, stack>>

-----------------------------------------------------------------------------
(* User code: the callback of a task, or the body of the test.              *)
InTask == stack # <<>> /\ At(Head(stack)) = "run"

InBody == stack = <<>> /\ body.at = "busy" /\ ~Over

(* setTimeout(), setInterval(), setImmediate() and schedule()               *)
Schedule(kind, delay) ==
  /\ InTask \/ InBody
  /\ made < MaxTasks
  /\ kind = "immediate" => delay = 0
  /\ made' = made + 1
  /\ live' = live \cup {made'}
  /\ queue' = queue \cup {[id |-> made', kind |-> kind, due |-> now + delay, order |-> made',
                           period |-> IF kind = "interval" THEN delay ELSE 0]}
  /\ UNCHANGED <<now, executions, failed, tracked, drivers, body, stack>>

(* clearTimeout() and its like.  The body's own timer is left to it.        *)
Clear(id) ==
  /\ InTask \/ InBody
  /\ id \in live
  /\ body # [at |-> "task", of |-> id]
  /\ live' = live \ {id}
  /\ queue' = {t \in queue : t.id # id}
  /\ UNCHANGED <<now, made, executions, failed, tracked, drivers, body, stack>>

(* flush(), advanceTo(): they start inside the call.  A body whose          *)
(* operations do not overlap awaits each of them.                           *)
Operate(op, delay) ==
  LET d == Cardinality({e \in 1..MaxOps : At(e) # "off"}) + 1
  IN /\ InBody \/ (Overlap /\ InTask)
     /\ d <= MaxOps
     /\ drivers' = [drivers EXCEPT ![d] = [op |-> op, target |-> now + delay, at |-> "look",
                                           task |-> 0]]
     /\ stack' = <<d>> \o stack
     /\ body' \in IF Overlap THEN {body} ELSE {[at |-> "op", of |-> d]}
     /\ UNCHANGED <<now, queue, live, made, executions, failed, tracked>>

BodyAwaits(place, of) ==
  /\ InBody
  /\ body' = [at |-> place, of |-> of]
  /\ UNCHANGED <<now, queue, live, made, executions, failed, tracked, drivers, stack>>

Library ==
  \/ SettleLooks \/ SettleChecked \/ Resumes
  \/ \E d \in DOMAIN drivers :
       \/ FlushLooks(d) \/ FlushChecked(d) \/ AdvanceLooks(d) \/ AdvanceChecked(d)
       \/ Rested(d) \/ Returns(d, 0)

(* A body whose operations do not overlap passes on what rejects them.      *)
Body ==
  \/ \E t \in queue : BodyAwaits("task", t.id)
  \/ \E d \in Operating : BodyAwaits("op", d)
  \/ (\A d \in 1..MaxOps : At(d) # "failed" \/ Overlap) /\ BodyAwaits("settled", 0)
  \/ BodyAwaits("rejected", 0)

Next ==
  \/ Library
  \/ Body
  \/ \E d \in DOMAIN drivers : (tracked = 0 /\ Returns(d, 1)) \/ Throws(d)
  \/ \E rejects \in BOOLEAN : PromiseSettles(rejects)
  \/ \E kind \in {"timer", "interval", "immediate"}, delay \in Delays : Schedule(kind, delay)
  \/ \E id \in live : Clear(id)
  \/ Operate("flush", 0)
  \/ \E delay \in Delays : Operate("advance", delay)

(* Microtasks run, callbacks return, promises settle, and the body goes on. *)
Fairness ==
  WF_vars(Library) /\ WF_vars(Body) /\ WF_vars(\E rejects \in BOOLEAN : PromiseSettles(rejects))

Spec == Init /\ [][Next]_vars /\ Fairness

-----------------------------------------------------------------------------
(* Properties.                                                              *)

Task == [id : Nat, kind : {"timer", "interval", "immediate"}, due : Nat, order : Nat,
         period : Nat]

TypeOK ==
  /\ now \in Nat /\ made \in Nat /\ executions \in 0..MaxRuns /\ tracked \in Nat
  /\ failed \in BOOLEAN
  /\ \A t \in queue : t \in Task /\ t.id \in live
  /\ body.at \in {"busy", "task", "op", "settled", "rejected"}
  /\ \A d \in DOMAIN drivers :
       /\ At(d) \in Finished \cup {"look", "run", "rest", "check", "manual", "body", "empty",
                                   "race", "last"}
       /\ (\E i \in DOMAIN stack : stack[i] = d) => At(d) \in {"run", "look"}

(* virtual-time.ts:384: a test passes with nothing left to run: neither a   *)
(* task that nobody has cleared, nor a promise, nor an operation.  Of those *)
(* that overlap, one that fails loses its task, and one may go on.          *)
PassesDrained ==
  At(Run) = "done" =>
    /\ queue = {} /\ tracked = 0 /\ ~failed
    /\ ~Overlap => live = {} /\ Operating = {}

(* virtual-time.ts:411: the time never goes back, a task is run before the  *)
(* time passes it, and nothing is run once the test has passed.  Operations *)
(* that overlap set the time back to the targets of the earlier ones.       *)
TimeGoesOn ==
  /\ ~Overlap => now' >= now /\ \A t \in queue' : t.due >= now'
  /\ At(Run) = "done" => executions' = executions

(* TESTING_DESIGN.md:429: "An async body can wait on virtual time without   *)
(* manually advancing it"; the engine goes on until the body has settled.   *)
BodyServed == <>Over
=============================================================================
