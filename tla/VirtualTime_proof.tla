-------------------------- MODULE VirtualTime_proof --------------------------
(***************************************************************************)
(* Proofs about VirtualTime, for any delays, any number of tasks and of    *)
(* manual operations, and any limits of the configuration.                 *)
(***************************************************************************)
EXTENDS VirtualTime, TLAPS, FiniteSetTheorems, WellFoundedInduction

(* What the proofs need of the parameters. *)
ParametersOK ==
  /\ Delays \subseteq Nat /\ MaxTasks \in Nat /\ MaxOps \in Nat
  /\ Overlap \in BOOLEAN

Places ==
  {"off", "look", "run", "rest", "check", "manual", "body", "empty", "race", "last", "done",
   "failed"}

Driver ==
  [op : {"none", "flush", "advance"}, target : Nat, at : Places, task : Task \cup {0}]

Drivers == 0 .. MaxOps

-----------------------------------------------------------------------------
(* The inductive invariant.                                                 *)

Typed ==
  /\ now \in Nat /\ made \in Nat /\ tracked \in Nat
  /\ failed \in BOOLEAN
  /\ queue \subseteq Task
  /\ drivers \in [Drivers -> Driver]
  /\ body \in [at : {"busy", "task", "op", "settled", "rejected"}, of : Nat]
  /\ stack \in Seq(Drivers)
  /\ \A d \in Drivers : At(d) = "run" => drivers[d].task \in Task

(* #nextOrder tells the tasks apart. *)
Numbered ==
  /\ \A t \in queue : t.order <= made
  /\ \A t \in queue : \A u \in queue : t.order = u.order => t = u

(* Whose synchronous code is in progress runs a task or is about to look for *)
(* one, is there once, and whoever runs a task is there.                     *)
Stacked ==
  /\ \A i \in DOMAIN stack : At(stack[i]) \in {"run", "look"}
  /\ \A i \in DOMAIN stack : \A j \in DOMAIN stack : stack[i] = stack[j] => i = j
  /\ \A d \in Drivers : At(d) = "run" => \E i \in DOMAIN stack : stack[i] = d

(* The operations that have been started are the first ones, and the run is *)
(* none of them.                                                            *)
Started ==
  /\ At(Run) # "last"
  /\ \E n \in Drivers : \A e \in 1 .. MaxOps : At(e) # "off" <=> e <= n

(* Once the test has passed nobody runs a task, and none is left. *)
Passed ==
  At(Run) = "done" =>
    /\ queue = {} /\ tracked = 0 /\ ~failed
    /\ \A d \in Drivers : At(d) # "run"
    /\ ~Overlap => Settled /\ live = {}

(* Where operations do not overlap, the body awaits the one that goes on.   *)
Alone ==
  ~Overlap =>
    /\ Len(stack) <= 1
    /\ \A d \in Operating : body = [at |-> "op", of |-> d]
    /\ At(Run) = "empty" => Settled
    /\ Settled => \A d \in 1 .. MaxOps : At(d) # "failed"

(* ...so that nobody's task or target is left behind by the time. *)
Timely ==
  ~Overlap =>
    /\ \A t \in queue : t.due >= now
    /\ \A d \in Drivers : At(d) = "run" => drivers[d].task.due = now
    /\ \A d \in Operating :
         /\ drivers[d].op = "advance" => drivers[d].target >= now
         /\ At(d) = "empty" => drivers[d].op = "flush"

(* A task that will run is in the queue, or is the interval that is running, *)
(* unless whoever took it from the queue failed.                             *)
Lives ==
  ~Overlap /\ ~failed /\ (\A d \in Drivers : At(d) # "failed") =>
    \A id \in live :
      \/ \E t \in queue : t.id = id
      \/ \E d \in Drivers : /\ At(d) = "run" /\ drivers[d].task.id = id
                            /\ drivers[d].task.kind = "interval"

TimeInv ==
  /\ Typed /\ Numbered /\ Stacked /\ Started
  /\ Passed /\ Alone /\ Timely /\ Lives

-----------------------------------------------------------------------------
(* The task that comes first.                                               *)

LEMMA SmallestOf ==
  ASSUME NEW S, S \subseteq Nat, S # {}
  PROVE  \E m \in S : \A n \in S : m <= n
<1>. DEFINE R == OpToRel(<, Nat)
<1>1. IsWellFoundedOn(R, Nat)
  BY NatLessThanWellFounded
<1>2. \A x, y \in Nat : y < x => <<y, x>> \in R
  BY DEF OpToRel
<1>. HIDE DEF R
<1>3. PICK m \in S : \A n \in S : <<n, m>> \notin R
  BY <1>1, WFMin
<1>4. \A n \in S : ~(n < m)
  BY <1>2, <1>3
<1>5. QED
  BY <1>4

(* #getNextTask(): there is one first task, unless the queue is empty.      *)
LEMMA EarliestIsFirst ==
  ASSUME Typed, Numbered, queue # {}
  PROVE  /\ Earliest \in queue
         /\ \A u \in queue : Earliest.due <= u.due
<1>1. \A t \in queue : t.due \in Nat /\ t.order \in Nat /\ Priority(t) \in Nat
  BY DEF Typed, Task, Priority
<1>. DEFINE Dues == {t.due : t \in queue}
<1>2. PICK due \in Dues : \A n \in Dues : due <= n
  BY <1>1, SmallestOf
<1>. DEFINE First == {t \in queue : t.due = due}
            Priorities == {Priority(t) : t \in First}
<1>3. First # {} /\ First \subseteq queue
  BY <1>2
<1>4. PICK p \in Priorities : \A n \in Priorities : p <= n
  <2>1. Priorities \subseteq Nat /\ Priorities # {}
    BY <1>1, <1>3
  <2>. QED
    BY <2>1, SmallestOf
<1>. DEFINE Best == {t \in First : Priority(t) = p}
            Orders == {t.order : t \in Best}
<1>5. PICK order \in Orders : \A n \in Orders : order <= n
  <2>1. Orders \subseteq Nat /\ Orders # {}
    BY <1>1, <1>4
  <2>. QED
    BY <2>1, SmallestOf
<1>6. PICK t \in Best : t.order = order
  BY <1>5
<1>7. ASSUME NEW u \in queue \ {t}
      PROVE  Precedes(t, u)
  <2>1. t \in queue /\ t.due = due /\ Priority(t) = p /\ t.due <= u.due
    BY <1>2, <1>6
  <2>2. u.due = due => p <= Priority(u)
    BY <1>4
  <2>3. u.due = due /\ Priority(u) = p => t.order <= u.order
    BY <1>5, <1>6
  <2>4. t.order # u.order
    BY <2>1 DEF Numbered
  <2>5. QED
    BY <1>1, <2>1, <2>2, <2>3, <2>4 DEF Precedes
<1>8. Earliest \in queue /\ \A u \in queue \ {Earliest} : Precedes(Earliest, u)
  BY <1>6, <1>7 DEF Earliest
<1>9. QED
  BY <1>1, <1>8 DEF Precedes

-----------------------------------------------------------------------------
(* The drivers.                                                             *)

(* A driver stops or waits: it is at the place, and the others where they   *)
(* were.                                                                    *)
LEMMA AwaitMoves ==
  ASSUME ParametersOK, Typed, NEW d \in Drivers, NEW place \in Places, Await(d, place)
  PROVE  /\ drivers' \in [Drivers -> Driver]
         /\ drivers'[d].at = place
         /\ \A e \in Drivers : e # d => drivers'[e] = drivers[e]
         /\ place \notin Finished => /\ drivers'[d].op = drivers[d].op
                                    /\ drivers'[d].target = drivers[d].target
         /\ stack' = Caller
<1>1. drivers[d] \in Driver
  BY DEF Typed
<1>2. /\ [Idle EXCEPT !.at = place] \in Driver
      /\ [drivers[d] EXCEPT !.at = place, !.task = 0] \in Driver
  BY <1>1 DEF Idle, Driver
<1>3. CASE place \in Finished
  <2>1. drivers' = [drivers EXCEPT ![d] = [Idle EXCEPT !.at = place]]
    BY <1>3 DEF Await
  <2>. QED
    BY <1>2, <1>3, <2>1 DEF Await, Typed, Idle
<1>4. CASE place \notin Finished
  <2>1. drivers' = [drivers EXCEPT ![d] = [drivers[d] EXCEPT !.at = place, !.task = 0]]
    BY <1>4 DEF Await
  <2>. QED
    BY <1>1, <1>2, <1>4, <2>1 DEF Await, Typed, Driver
<1>5. QED
  BY <1>3, <1>4

LEMMA CallerType ==
  ASSUME Typed
  PROVE  /\ Caller \in Seq(Drivers)
         /\ stack # <<>> => /\ Len(Caller) = Len(stack) - 1
                            /\ Head(stack) = stack[1] /\ Head(stack) \in Drivers
                            /\ \A i \in DOMAIN Caller : /\ i + 1 \in DOMAIN stack
                                                        /\ Caller[i] = stack[i + 1]
         /\ stack = <<>> => Caller = <<>>
BY DEF Typed, Caller

(* What the steps of the others leave in order. *)
LEMMA AwaitStacked ==
  ASSUME ParametersOK, Typed, Stacked, NEW d \in Drivers,
         NEW place \in Places \ {"off", "run"}, NEW p, Stands(d, p), Await(d, place)
  PROVE  /\ Stacked'
         /\ stack' \in Seq(Drivers)
         /\ stack # <<>> => stack' = Tail(stack) /\ Head(stack) = d
         /\ stack = <<>> => stack' = <<>>
<1>1. /\ drivers' \in [Drivers -> Driver]
      /\ drivers'[d].at = place
      /\ \A e \in Drivers : e # d => drivers'[e] = drivers[e]
      /\ stack' = Caller
  BY AwaitMoves
<1>2. stack # <<>> => Head(stack) = d
  BY DEF Stands
<1>3. \A i \in DOMAIN Caller : Caller[i] # d /\ Caller[i] \in Drivers
  BY <1>2, CallerType DEF Stacked, Typed
<1>4. \A i \in DOMAIN Caller : drivers'[Caller[i]].at \in {"run", "look"}
  BY <1>1, <1>3, CallerType DEF Stacked, At, Typed
<1>5. \A i \in DOMAIN Caller : \A j \in DOMAIN Caller : Caller[i] = Caller[j] => i = j
  <2>1. CASE stack = <<>>
    BY <2>1, CallerType
  <2>2. CASE stack # <<>>
    <3>1. ASSUME NEW i \in DOMAIN Caller, NEW j \in DOMAIN Caller, Caller[i] = Caller[j]
          PROVE  i = j
      <4>1. i + 1 \in DOMAIN stack /\ j + 1 \in DOMAIN stack /\ stack[i + 1] = stack[j + 1]
        BY <2>2, <3>1, CallerType
      <4>2. i + 1 = j + 1
        BY <4>1 DEF Stacked
      <4>3. i \in Nat /\ j \in Nat
        BY CallerType
      <4>. QED
        BY <4>2, <4>3
    <3>. QED
      BY <3>1
  <2>. QED
    BY <2>1, <2>2
<1>6. ASSUME NEW e \in Drivers, drivers'[e].at = "run"
      PROVE  \E i \in DOMAIN Caller : Caller[i] = e
  <2>1. e # d /\ At(e) = "run"
    BY <1>1, <1>6 DEF At
  <2>2. PICK i \in DOMAIN stack : stack[i] = e
    BY <2>1 DEF Stacked
  <2>3. i # 1 /\ i \in 1 .. Len(stack) /\ Len(stack) \in Nat /\ stack # <<>>
    BY <1>2, <2>1, <2>2, CallerType DEF Typed
  <2>4. i - 1 \in DOMAIN Caller /\ Caller[i - 1] = stack[(i - 1) + 1] /\ (i - 1) + 1 = i
    BY <2>3, CallerType
  <2>. QED
    BY <2>2, <2>4
<1>7. QED
  <2>1. Stacked'
    BY <1>1, <1>4, <1>5, <1>6 DEF Stacked, At
  <2>. QED
    BY <1>1, <1>2, <2>1, CallerType DEF Caller

(* execute(): the driver that takes a task runs it, within what called it.  *)
Runs(d) ==
  /\ drivers' = [drivers EXCEPT ![d].at = "run", ![d].task = Earliest]
  /\ stack' = <<d>> \o Caller

LEMMA RunsStacked ==
  ASSUME ParametersOK, Typed, Numbered, Stacked, queue # {},
         NEW d \in Drivers, NEW p, Stands(d, p), Runs(d)
  PROVE  /\ drivers' \in [Drivers -> Driver]
         /\ drivers'[d] = [drivers[d] EXCEPT !.at = "run", !.task = Earliest]
         /\ drivers'[d].at = "run" /\ drivers'[d].task = Earliest
         /\ drivers'[d].op = drivers[d].op /\ drivers'[d].target = drivers[d].target
         /\ \A e \in Drivers : e # d => drivers'[e] = drivers[e]
         /\ Stacked'
         /\ stack' \in Seq(Drivers)
         /\ IF stack = <<>> THEN stack' = <<d>> ELSE stack' = stack
<1>1. Earliest \in Task
  BY EarliestIsFirst DEF Typed
<1>2. /\ drivers' \in [Drivers -> Driver]
      /\ drivers'[d] = [drivers[d] EXCEPT !.at = "run", !.task = Earliest]
      /\ drivers'[d].at = "run" /\ drivers'[d].task = Earliest
      /\ drivers'[d].op = drivers[d].op /\ drivers'[d].target = drivers[d].target
      /\ \A e \in Drivers : e # d => drivers'[e] = drivers[e]
  <2>1. drivers' = [drivers EXCEPT ![d] = [drivers[d] EXCEPT !.at = "run", !.task = Earliest]]
    BY DEF Runs, Typed, Driver
  <2>2. [drivers[d] EXCEPT !.at = "run", !.task = Earliest] \in Driver
    BY <1>1 DEF Typed, Driver, Places
  <2>3. drivers[d] \in Driver
    BY DEF Typed
  <2>. QED
    BY <2>1, <2>2, <2>3 DEF Typed, Driver
<1>3. /\ stack' \in Seq(Drivers)
      /\ IF stack = <<>> THEN stack' = <<d>> ELSE stack' = stack
  <2>1. CASE stack = <<>>
    BY <2>1 DEF Runs, Caller
  <2>2. CASE stack # <<>>
    <3>1. Head(stack) = d
      BY <2>2 DEF Stands
    <3>. QED
      BY <2>2, <3>1 DEF Runs, Caller, Typed
  <2>. QED
    BY <2>1, <2>2
<1>4. Stacked'
  <2>1. CASE stack = <<>>
    <3>1. stack' = <<d>> /\ DOMAIN stack' = {1} /\ stack'[1] = d
      BY <1>3, <2>1
    <3>2. \A e \in Drivers : At(e) # "run"
      BY <2>1 DEF Stacked
    <3>. QED
      BY <1>2, <3>1, <3>2 DEF Stacked, At
  <2>2. CASE stack # <<>>
    <3>1. stack' = stack /\ stack[1] = d /\ 1 \in DOMAIN stack
      BY <1>3, <2>2, CallerType DEF Stands, Typed
    <3>2. \A i \in DOMAIN stack : stack[i] \in Drivers
      BY DEF Typed
    <3>. QED
      BY <1>2, <3>1, <3>2 DEF Stacked, At
  <2>. QED
    BY <2>1, <2>2
<1>5. QED
  BY <1>2, <1>3, <1>4

(* Nobody's code is in progress, and nobody starts to run a task. *)
LEMMA StandsUp ==
  ASSUME Typed, Stacked, stack = <<>>, UNCHANGED stack,
         drivers' \in [Drivers -> Driver],
         \A e \in Drivers : drivers'[e] = drivers[e] \/ drivers'[e].at = "look"
  PROVE  Stacked'
<1>1. \A e \in Drivers : drivers'[e].at # "run"
  BY DEF Stacked, At
<1>2. QED
  BY <1>1 DEF Stacked, At

LEMMA Untouched ==
  ASSUME Stacked, UNCHANGED <<drivers, stack>>
  PROVE  Stacked'
BY DEF Stacked, At

(* flush(), advanceTo(): an operation that was off looks.                   *)
LEMMA OperateStacked ==
  ASSUME ParametersOK, Typed, Stacked, Started, NEW op \in {"flush", "advance"},
         NEW delay \in Delays \cup {0}, Operate(op, delay)
  PROVE  \E d \in 1 .. MaxOps :
           /\ At(d) = "off"
           /\ drivers' \in [Drivers -> Driver]
           /\ drivers'[d] = [op |-> op, target |-> now + delay, at |-> "look", task |-> 0]
           /\ \A e \in Drivers : e # d => drivers'[e] = drivers[e]
           /\ stack' = <<d>> \o stack /\ stack' \in Seq(Drivers)
           /\ body' \in IF Overlap THEN {body} ELSE {[at |-> "op", of |-> d]}
           /\ Stacked' /\ Started'
<1>. DEFINE begun == {e \in 1 .. MaxOps : At(e) # "off"}
            d == Cardinality(begun) + 1
            new == [op |-> op, target |-> now + delay, at |-> "look", task |-> 0]
<1>1. PICK n \in Drivers : \A e \in 1 .. MaxOps : At(e) # "off" <=> e <= n
  BY DEF Started
<1>2. d = n + 1 /\ n \in Nat
  <2>1. begun = 1 .. n
    BY <1>1 DEF Drivers, ParametersOK
  <2>2. Cardinality(1 .. n) = n /\ n \in Nat
    BY FS_Interval DEF Drivers, ParametersOK
  <2>. QED
    BY <2>1, <2>2
<1>3. d <= MaxOps /\ drivers' = [drivers EXCEPT ![d] = new] /\ stack' = <<d>> \o stack
      /\ body' \in IF Overlap THEN {body} ELSE {[at |-> "op", of |-> d]}
  BY DEF Operate
<1>. HIDE DEF d
<1>4. d \in 1 .. MaxOps /\ d \in Drivers /\ ~(d <= n)
  BY <1>2, <1>3 DEF Drivers, ParametersOK
<1>5. At(d) = "off"
  BY <1>1, <1>4
<1>6. new \in Driver
  BY DEF Driver, Places, Typed, ParametersOK
<1>7. /\ drivers' \in [Drivers -> Driver]
      /\ drivers'[d] = new
      /\ \A e \in Drivers : e # d => drivers'[e] = drivers[e]
  BY <1>3, <1>4, <1>6 DEF Typed
<1>8. /\ stack' \in Seq(Drivers) /\ Len(stack') = Len(stack) + 1 /\ stack'[1] = d
      /\ \A i \in 1 .. Len(stack) : stack'[i + 1] = stack[i]
  BY <1>3, <1>4 DEF Typed
<1>9. Stacked'
  <2>1. \A i \in DOMAIN stack : stack[i] \in Drivers /\ stack[i] # d
    BY <1>5 DEF Stacked, Typed
  <2>2. \A i \in DOMAIN stack' : i = 1 \/ (i - 1 \in DOMAIN stack /\ stack'[i] = stack[i - 1])
    <3>1. \A i \in 1 .. Len(stack) + 1 : i = 1 \/ (i - 1 \in 1 .. Len(stack) /\ i = (i - 1) + 1)
      BY DEF Typed
    <3>. QED
      BY <1>8, <3>1 DEF Typed
  <2>3. ASSUME NEW i \in DOMAIN stack'
        PROVE  drivers'[stack'[i]].at \in {"run", "look"}
    <3>1. CASE i = 1
      BY <1>7, <1>8, <3>1
    <3>2. CASE i # 1
      <4>1. i - 1 \in DOMAIN stack /\ stack'[i] = stack[i - 1]
        BY <2>2, <3>2
      <4>2. drivers'[stack'[i]] = drivers[stack[i - 1]]
        BY <1>7, <2>1, <4>1
      <4>. QED
        BY <4>1, <4>2 DEF Stacked, At
    <3>. QED
      BY <3>1, <3>2
  <2>4. ASSUME NEW i \in DOMAIN stack', NEW j \in DOMAIN stack', stack'[i] = stack'[j]
        PROVE  i = j
    <3>1. CASE i = 1 \/ j = 1
      BY <1>8, <2>1, <2>2, <2>4, <3>1
    <3>2. CASE i # 1 /\ j # 1
      <4>1. i - 1 = j - 1
        BY <2>2, <2>4, <3>2 DEF Stacked
      <4>2. i \in Int /\ j \in Int
        BY <1>8
      <4>. QED
        BY <4>1, <4>2
    <3>. QED
      BY <3>1, <3>2
  <2>5. ASSUME NEW e \in Drivers, drivers'[e].at = "run"
        PROVE  \E i \in DOMAIN stack' : stack'[i] = e
    <3>1. At(e) = "run"
      BY <1>7, <2>5 DEF At
    <3>2. PICK i \in DOMAIN stack : stack[i] = e
      BY <3>1 DEF Stacked
    <3>3. i + 1 \in DOMAIN stack' /\ stack'[i + 1] = e
      BY <1>8, <3>2 DEF Typed
    <3>. QED
      BY <3>3
  <2>. QED
    BY <2>3, <2>4, <2>5 DEF Stacked, At
<1>10. Started'
  <2>0. drivers'[Run].at # "last"
    BY <1>4, <1>7 DEF Started, At, Run, Drivers, ParametersOK
  <2>1. d \in Drivers /\ d = n + 1
    BY <1>2, <1>4
  <2>2. \A e \in 1 .. MaxOps : drivers'[e].at # "off" <=> e <= d
    <3>1. \A e \in 1 .. MaxOps : e \in Drivers /\ e \in Nat /\ (e <= d <=> e <= n \/ e = d)
      BY <1>2, <2>1 DEF Drivers, ParametersOK
    <3>. QED
      BY <1>1, <1>4, <1>7, <3>1 DEF At
  <2>. QED
    BY <2>0, <2>1, <2>2 DEF Started, At
<1>11. QED
  BY <1>3, <1>4, <1>5, <1>7, <1>8, <1>9, <1>10

-----------------------------------------------------------------------------
(* The steps, by what they do.                                              *)

(* A driver stops or waits for something; the run that passes has seen that  *)
(* nothing is left.                                                         *)
WaitsAt(d, place) ==
  /\ \E p \in {"look", "check", "empty", "last", "rest"} : Stands(d, p)
  /\ Await(d, place)
  /\ place \in {"manual", "check", "body", "empty", "race", "failed", "done"}
  /\ place = "empty" => IF d = Run THEN Settled ELSE drivers[d].op = "flush"
  /\ d = Run /\ place = "done" => At(Run) = "empty" /\ ~failed /\ queue = {} /\ tracked = 0
  /\ body' = IF place \in Finished THEN Wakes("op", d) ELSE body
  /\ UNCHANGED <<now, queue, live, made, executions, failed, tracked>>

(* advanceTo() sets the time. *)
Advances(d) ==
  /\ d # Run
  /\ Stands(d, "look") /\ drivers[d].op = "advance"
  /\ \A t \in queue : t.due >= drivers[d].target
  /\ now' = drivers[d].target
  /\ Await(d, "last")
  /\ UNCHANGED <<queue, live, made, executions, failed, tracked, body>>

(* A task is taken from the queue. *)
Takes(d) ==
  /\ \E p \in {"look", "check", "empty"} : Stands(d, p)
  /\ queue # {}
  /\ d = Run /\ ~Overlap => Operating = {}
  /\ d # Run /\ ~Overlap /\ drivers[d].op = "advance" => Earliest.due <= drivers[d].target
  /\ Take(d)

(* What was awaited has come: some look again. *)
LooksAgain ==
  /\ stack = <<>> /\ UNCHANGED stack
  /\ drivers' \in [Drivers -> Driver]
  /\ \A e \in Drivers :
       \/ drivers'[e] = drivers[e]
       \/ /\ At(e) \in {"manual", "body", "rest", "race"}
          /\ drivers'[e] = [drivers[e] EXCEPT !.at = "look"]
  /\ failed' \in BOOLEAN /\ tracked' \in Nat /\ (failed => failed')
  /\ At(Run) = "done" => UNCHANGED <<failed, tracked>>
  /\ UNCHANGED <<now, queue, live, made, executions, body>>

(* The callback of a task is over. *)
Ends(d) == (\E promise \in {0, 1} : Returns(d, promise)) \/ Throws(d)

Acts ==
  \/ \E kind \in {"timer", "interval", "immediate"}, delay \in Delays : Schedule(kind, delay)
  \/ \E id \in live : Clear(id)
  \/ \E op \in {"flush", "advance"}, delay \in Delays \cup {0} : Operate(op, delay)
  \/ /\ \E place \in {"task", "op", "settled", "rejected"}, of \in Nat : BodyAwaits(place, of)
     /\ body'.at = "settled" => (Overlap \/ \A d \in 1 .. MaxOps : At(d) # "failed")

(* Op(d) of an operation is what it was started with. *)
LEMMA StepKinds ==
  ASSUME ParametersOK, TimeInv, Next
  PROVE  \/ \E d \in Drivers, place \in Places : WaitsAt(d, place)
         \/ \E d \in Drivers : Advances(d) \/ Takes(d) \/ Ends(d)
         \/ LooksAgain
         \/ Acts
<1>0. /\ Run \in Drivers /\ DOMAIN drivers = Drivers
      /\ Op(Run) # "advance"
      /\ \A d \in Drivers : d # Run => Op(d) = drivers[d].op
  BY DEF TimeInv, Typed, Run, Drivers, ParametersOK, Op
<1>1. ASSUME NEW d \in Drivers, NEW how \in {"failed", "done"}, Stop(d, how),
             NEW p \in {"look", "check", "empty", "last", "rest"}, Stands(d, p),
             d = Run /\ how = "done" => /\ At(Run) = "empty" /\ ~failed
                                        /\ queue = {} /\ tracked = 0
      PROVE  WaitsAt(d, how)
  BY <1>1 DEF Stop, WaitsAt, Finished
<1>2. ASSUME NEW d \in Drivers, NEW p \in {"look", "check", "empty", "last", "rest"},
             Stands(d, p), NEW place \in {"manual", "check", "body", "empty", "race"},
             Wait(d, place),
             place = "empty" => IF d = Run THEN Settled ELSE drivers[d].op = "flush"
      PROVE  WaitsAt(d, place)
  BY <1>2 DEF Wait, WaitsAt, Finished
<1>3. ASSUME SettleLooks
      PROVE  \E place \in Places : WaitsAt(Run, place)
  <2>1. Stands(Run, "look")
    BY <1>3 DEF SettleLooks
  <2>2. Stop(Run, "failed") \/ Wait(Run, "manual") \/ Wait(Run, "check")
    BY <1>3 DEF SettleLooks
  <2>. QED
    BY <1>0, <1>1, <1>2, <2>1, <2>2 DEF Places
<1>4. ASSUME SettleChecked
      PROVE  (\E place \in Places : WaitsAt(Run, place)) \/ Takes(Run)
  <2>1. Stands(Run, "check")
    BY <1>4 DEF SettleChecked
  <2>2. \/ Stop(Run, "failed") \/ Wait(Run, "manual") \/ Wait(Run, "body")
        \/ (Settled \/ Operating = {}) /\ queue # {} /\ Take(Run)
        \/ Settled /\ Wait(Run, "empty")
    BY <1>4 DEF SettleChecked
  <2>3. Settled /\ ~Overlap => Operating = {}
    BY DEF TimeInv, Alone, Settled
  <2>. QED
    BY <1>0, <1>1, <1>2, <2>1, <2>2, <2>3 DEF Places, Takes
<1>5. ASSUME Resumes
      PROVE  LooksAgain
  <2>1. drivers' = [drivers EXCEPT ![Run].at = "look"] /\ At(Run) \in {"manual", "body"}
    BY <1>5 DEF Resumes
  <2>2. \A d \in Drivers : drivers[d] \in Driver /\ [drivers[d] EXCEPT !.at = "look"] \in Driver
    BY DEF TimeInv, Typed, Driver, Places
  <2>3. drivers' \in [Drivers -> Driver]
    BY <1>0, <2>1, <2>2 DEF TimeInv, Typed
  <2>4. \A e \in Drivers : \/ drivers'[e] = drivers[e]
                           \/ /\ At(e) \in {"manual", "body", "rest", "race"}
                              /\ drivers'[e] = [drivers[e] EXCEPT !.at = "look"]
    BY <1>0, <2>1 DEF TimeInv, Typed
  <2>. QED
    BY <1>5, <2>3, <2>4 DEF Resumes, LooksAgain, TimeInv, Typed
<1>6. ASSUME NEW d \in Drivers, FlushLooks(d)
      PROVE  (\E place \in Places : WaitsAt(d, place)) \/ Takes(d)
  <2>1. Stands(d, "look") /\ Op(d) = "flush"
    BY <1>6 DEF FlushLooks
  <2>2. \/ Stop(d, "failed") \/ Wait(d, "empty")
        \/ queue # {} /\ Take(d)
    BY <1>6 DEF FlushLooks
  <2>3. d = Run => Settled
    BY <2>1 DEF Op
  <2>4. Settled /\ ~Overlap => Operating = {}
    BY DEF TimeInv, Alone, Settled
  <2>. QED
    BY <1>0, <1>1, <1>2, <2>1, <2>2, <2>3, <2>4 DEF Places, Takes
<1>7. ASSUME NEW d \in Drivers, FlushChecked(d)
      PROVE  (\E place \in Places : WaitsAt(d, place)) \/ Takes(d)
  <2>1. Stands(d, "empty") /\ At(d) = "empty"
    BY <1>7 DEF FlushChecked, Stands
  <2>2. \/ Stop(d, "failed") \/ Wait(d, "race")
        \/ queue # {} /\ Take(d)
        \/ ~failed /\ queue = {} /\ tracked = 0 /\ Stop(d, "done")
    BY <1>7 DEF FlushChecked
  <2>3. d = Run /\ ~Overlap => Operating = {}
    BY <2>1 DEF TimeInv, Alone, Settled
  <2>4. CASE queue # {} /\ Take(d)
    <3>1. d # Run /\ ~Overlap /\ drivers[d].op = "advance" => Earliest.due <= drivers[d].target
      <4>1. d # Run => d \in Operating
        BY <2>1 DEF Operating, Finished, Run, Drivers, ParametersOK
      <4>. QED
        BY <2>1, <4>1 DEF TimeInv, Timely
    <3>. QED
      BY <2>1, <2>3, <2>4, <3>1 DEF Takes
  <2>. QED
    BY <1>1, <1>2, <2>1, <2>2, <2>3, <2>4 DEF Places
<1>8. ASSUME NEW d \in Drivers, AdvanceLooks(d)
      PROVE  Advances(d) \/ Takes(d)
  <2>1. Stands(d, "look") /\ Op(d) = "advance" /\ d # Run /\ drivers[d].op = "advance"
    BY <1>0, <1>8 DEF AdvanceLooks
  <2>2. CASE queue # {} /\ Earliest.due <= drivers[d].target
    BY <1>8, <2>1, <2>2 DEF AdvanceLooks, Takes
  <2>3. CASE ~(queue # {} /\ Earliest.due <= drivers[d].target)
    <3>1. \A t \in queue : t.due >= drivers[d].target
      <4>1. ASSUME NEW t \in queue
            PROVE  t.due >= drivers[d].target
        <5>1. Earliest \in queue /\ Earliest.due <= t.due
          BY EarliestIsFirst DEF TimeInv
        <5>2. /\ Earliest.due \in Nat /\ t.due \in Nat
              /\ drivers[d].target \in Nat
          BY <5>1 DEF TimeInv, Typed, Task, Driver
        <5>. QED
          BY <2>3, <5>1, <5>2
      <4>. QED
        BY <4>1
    <3>. QED
      BY <1>8, <2>1, <2>3, <3>1 DEF AdvanceLooks, Advances
  <2>. QED
    BY <2>2, <2>3
<1>9. ASSUME NEW d \in Drivers, AdvanceChecked(d)
      PROVE  \E place \in Places : WaitsAt(d, place)
  <2>1. Stands(d, "last") /\ (Stop(d, "failed") \/ Stop(d, "done")) /\ d # Run
    BY <1>9 DEF AdvanceChecked, Stands, TimeInv, Started
  <2>. QED
    BY <1>1, <2>1 DEF Places
<1>10. ASSUME NEW d \in Drivers, Rested(d)
       PROVE  (\E place \in Places : WaitsAt(d, place)) \/ LooksAgain
  <2>1. Stands(d, "rest") /\ At(d) = "rest"
    BY <1>10 DEF Rested, Stands
  <2>2. CASE Stop(d, "failed")
    BY <1>1, <2>1, <2>2 DEF Places
  <2>3. CASE /\ drivers' = [drivers EXCEPT ![d].at = "look"]
             /\ UNCHANGED <<now, queue, live, made, executions, failed, tracked, body, stack>>
    <3>1. stack = <<>>
      <4>1. SUFFICES ASSUME stack # <<>>
                     PROVE  FALSE
        OBVIOUS
      <4>2. stack[1] = d /\ 1 \in DOMAIN stack
        BY <2>1, <4>1, CallerType DEF Stands, TimeInv, Typed
      <4>. QED
        BY <2>1, <4>2 DEF TimeInv, Stacked
    <3>2. \A e \in Drivers : drivers[e] \in Driver /\ [drivers[e] EXCEPT !.at = "look"] \in Driver
      BY DEF TimeInv, Typed, Driver, Places
    <3>3. drivers' \in [Drivers -> Driver]
      BY <2>3, <3>2 DEF TimeInv, Typed
    <3>4. \A e \in Drivers : \/ drivers'[e] = drivers[e]
                             \/ /\ At(e) \in {"manual", "body", "rest", "race"}
                                /\ drivers'[e] = [drivers[e] EXCEPT !.at = "look"]
      BY <2>1, <2>3 DEF TimeInv, Typed
    <3>. QED
      BY <2>3, <3>1, <3>3, <3>4 DEF LooksAgain, TimeInv, Typed
  <2>. QED
    BY <1>10, <2>2, <2>3 DEF Rested
<1>11. ASSUME NEW rejects \in BOOLEAN, PromiseSettles(rejects)
       PROVE  LooksAgain
  <2>1. \A e \in Drivers : drivers[e] \in Driver /\ [drivers[e] EXCEPT !.at = "look"] \in Driver
    BY DEF TimeInv, Typed, Driver, Places
  <2>2. drivers' = [e \in Drivers |-> IF At(e) = "race" THEN [drivers[e] EXCEPT !.at = "look"]
                                      ELSE drivers[e]]
    BY <1>0, <1>11 DEF PromiseSettles
  <2>3. drivers' \in [Drivers -> Driver]
    BY <2>1, <2>2
  <2>4. \A e \in Drivers : \/ drivers'[e] = drivers[e]
                           \/ /\ At(e) \in {"manual", "body", "rest", "race"}
                              /\ drivers'[e] = [drivers[e] EXCEPT !.at = "look"]
    BY <2>2
  <2>5. tracked' \in Nat /\ failed' \in BOOLEAN /\ (failed => failed') /\ At(Run) # "done"
    BY <1>11 DEF PromiseSettles, Over, Finished, TimeInv, Typed
  <2>. QED
    BY <1>11, <2>3, <2>4, <2>5 DEF PromiseSettles, LooksAgain
<1>12. ASSUME Body
       PROVE  Acts
  <2>1. ASSUME NEW place \in {"task", "op", "settled", "rejected"}, NEW of \in Nat,
               BodyAwaits(place, of),
               place = "settled" => (Overlap \/ \A d \in 1 .. MaxOps : At(d) # "failed")
        PROVE  Acts
    <3>1. body'.at = place
      BY <2>1 DEF BodyAwaits
    <3>. QED
      BY <2>1, <3>1 DEF Acts
  <2>2. \A t \in queue : t.id \in Nat
    BY DEF TimeInv, Typed, Task
  <2>3. \A d \in Operating : d \in Nat
    BY DEF Operating, ParametersOK
  <2>. QED
    BY <1>12, <2>1, <2>2, <2>3 DEF Body
<1>13. CASE Library
  BY <1>0, <1>3, <1>4, <1>5, <1>6, <1>7, <1>8, <1>9, <1>10, <1>13 DEF Library, Ends
<1>14. CASE \/ \E kind \in {"timer", "interval", "immediate"}, delay \in Delays :
                 Schedule(kind, delay)
            \/ \E id \in live : Clear(id)
            \/ Operate("flush", 0)
            \/ \E delay \in Delays : Operate("advance", delay)
  BY <1>14 DEF Acts
<1>15. CASE \E d \in DOMAIN drivers : (tracked = 0 /\ Returns(d, 1)) \/ Throws(d)
  BY <1>0, <1>15 DEF Ends
<1>16. QED
  BY <1>11, <1>12, <1>13, <1>14, <1>15 DEF Next

-----------------------------------------------------------------------------
(* What the steps keep.                                                     *)

(* What Take() does within the limits, and when it exceeds them.            *)
LEMMA TakeDoes ==
  ASSUME NEW d, Take(d)
  PROVE  /\ queue' = queue \ {Earliest} /\ UNCHANGED <<made, failed, tracked>>
         /\ \/ /\ Await(d, "failed") /\ body' = Wakes("op", d)
               /\ UNCHANGED <<now, live, executions>>
            \/ /\ Runs(d) /\ now' = Earliest.due /\ executions' = executions + 1
               /\ live' = IF Earliest.kind = "interval" THEN live ELSE live \ {Earliest.id}
               /\ body' = Wakes("task", Earliest.id)
BY DEF Take, Runs

LEMMA WakesType ==
  ASSUME Typed, NEW place, NEW of
  PROVE  /\ Wakes(place, of) \in [at : {"busy", "task", "op", "settled", "rejected"}, of : Nat]
         /\ Wakes(place, of) = body \/ Wakes(place, of).at = "busy"
BY DEF Typed, Wakes

(* The driver that ends its callback was running its task. *)
LEMMA EndsFrom ==
  ASSUME ParametersOK, Typed, NEW d \in Drivers, Ends(d)
  PROVE  /\ Stands(d, "run") /\ At(d) = "run" /\ drivers[d].task \in Task
         /\ Await(d, "rest")
         /\ UNCHANGED <<now, live, executions, body>>
BY DEF Ends, Returns, Throws, Stands, Typed

LEMMA TypedStep ==
  ASSUME ParametersOK, TimeInv, Next
  PROVE  Typed'
<1>. USE DEF TimeInv
<1>1. ASSUME NEW d \in Drivers, NEW place \in Places, WaitsAt(d, place)
      PROVE  Typed'
  <2>1. \A e \in Drivers : drivers'[e].at = "run" => drivers'[e] = drivers[e]
    BY <1>1, AwaitMoves DEF WaitsAt
  <2>2. drivers' \in [Drivers -> Driver] /\ stack' \in Seq(Drivers)
    BY <1>1, AwaitMoves, CallerType DEF WaitsAt
  <2>3. body' \in [at : {"busy", "task", "op", "settled", "rejected"}, of : Nat]
    BY <1>1, WakesType DEF WaitsAt, Typed
  <2>. QED
    BY <1>1, <2>1, <2>2, <2>3 DEF WaitsAt, Typed, At
<1>2. ASSUME NEW d \in Drivers, Advances(d)
      PROVE  Typed'
  <2>1. \A e \in Drivers : drivers'[e].at = "run" => drivers'[e] = drivers[e]
    BY <1>2, AwaitMoves DEF Advances, Places
  <2>2. drivers' \in [Drivers -> Driver] /\ stack' \in Seq(Drivers)
    BY <1>2, AwaitMoves, CallerType DEF Advances, Places
  <2>3. now' \in Nat
    BY <1>2 DEF Advances, Typed, Driver
  <2>. QED
    BY <1>2, <2>1, <2>2, <2>3 DEF Advances, Typed, At
<1>3. ASSUME NEW d \in Drivers, Takes(d)
      PROVE  Typed'
  <2>0. PICK p : Stands(d, p)
    BY <1>3 DEF Takes
  <2>1. Earliest \in queue /\ Earliest \in Task
    BY <1>3, EarliestIsFirst DEF Takes, Typed
  <2>2. body' \in [at : {"busy", "task", "op", "settled", "rejected"}, of : Nat]
    BY <1>3, TakeDoes, WakesType DEF Takes
  <2>3. queue' \subseteq Task /\ made' \in Nat /\ tracked' \in Nat /\ failed' \in BOOLEAN
    BY <1>3, TakeDoes DEF Takes, Typed
  <2>4. CASE Await(d, "failed") /\ UNCHANGED now
    <3>1. \A e \in Drivers : drivers'[e].at = "run" => drivers'[e] = drivers[e]
      BY <2>4, AwaitMoves DEF Places
    <3>2. drivers' \in [Drivers -> Driver] /\ stack' \in Seq(Drivers)
      BY <2>4, AwaitMoves, CallerType DEF Places
    <3>. QED
      BY <2>2, <2>3, <2>4, <3>1, <3>2 DEF Typed, At
  <2>5. CASE Runs(d) /\ now' = Earliest.due
    <3>1. /\ drivers' \in [Drivers -> Driver] /\ drivers'[d].task = Earliest
          /\ \A e \in Drivers : e # d => drivers'[e] = drivers[e]
          /\ stack' \in Seq(Drivers)
      BY <1>3, <2>0, <2>5, RunsStacked DEF Takes
    <3>2. now' \in Nat
      BY <2>1, <2>5 DEF Task
    <3>. QED
      BY <2>1, <2>2, <2>3, <3>1, <3>2 DEF Typed, At
  <2>. QED
    BY <1>3, <2>4, <2>5, TakeDoes DEF Takes
<1>4. ASSUME NEW d \in Drivers, Ends(d)
      PROVE  Typed'
  <2>1. \A e \in Drivers : drivers'[e].at = "run" => drivers'[e] = drivers[e]
    BY <1>4, EndsFrom, AwaitMoves DEF Places
  <2>2. drivers' \in [Drivers -> Driver] /\ stack' \in Seq(Drivers)
    BY <1>4, EndsFrom, AwaitMoves, CallerType DEF Places
  <2>. DEFINE t == drivers[d].task
              next == [t EXCEPT !.due = @ + t.period, !.order = made + 1]
  <2>3. next \in Task
    <3>1. t \in Task
      BY <1>4, EndsFrom
    <3>. HIDE DEF t
    <3>2. t.due + t.period \in Nat /\ made + 1 \in Nat
      BY <3>1 DEF Typed, Task
    <3>. QED
      BY <3>1, <3>2 DEF Task
  <2>4. queue' \subseteq Task /\ made' \in Nat /\ tracked' \in Nat /\ failed' \in BOOLEAN
    <3>1. CASE Throws(d)
      BY <3>1 DEF Throws, Typed
    <3>2. ASSUME NEW promise \in {0, 1}, Returns(d, promise)
          PROVE  /\ queue' \subseteq queue \cup {next} /\ made' \in {made, made + 1}
                 /\ tracked' = tracked + promise /\ UNCHANGED failed
      BY <3>2 DEF Returns
    <3>. QED
      BY <1>4, <2>3, <3>1, <3>2 DEF Ends, Typed
  <2>. QED
    BY <1>4, <2>1, <2>2, <2>4, EndsFrom DEF Typed, At
<1>5. CASE LooksAgain
  <2>1. \A e \in Drivers : drivers'[e] = drivers[e] \/ drivers'[e].at = "look"
    BY <1>5 DEF LooksAgain, Typed, Driver
  <2>. QED
    BY <1>5, <2>1 DEF LooksAgain, Typed, At
<1>6. ASSUME NEW kind \in {"timer", "interval", "immediate"}, NEW delay \in Delays,
             Schedule(kind, delay)
      PROVE  Typed'
  <2>1. made' \in Nat /\ delay \in Nat
    BY <1>6 DEF Schedule, Typed, ParametersOK
  <2>2. [id |-> made', kind |-> kind, due |-> now + delay, order |-> made',
         period |-> IF kind = "interval" THEN delay ELSE 0] \in Task
    BY <2>1 DEF Typed, Task
  <2>3. queue' \subseteq Task
    BY <1>6, <2>2 DEF Schedule, Typed
  <2>. QED
    BY <1>6, <2>1, <2>3 DEF Schedule, Typed, At
<1>7. ASSUME NEW id \in live, Clear(id)
      PROVE  Typed'
  BY <1>7 DEF Clear, Typed, At
<1>8. ASSUME NEW op \in {"flush", "advance"}, NEW delay \in Delays \cup {0}, Operate(op, delay)
      PROVE  Typed'
  <2>1. PICK d \in 1 .. MaxOps :
          /\ drivers' \in [Drivers -> Driver]
          /\ drivers'[d] = [op |-> op, target |-> now + delay, at |-> "look", task |-> 0]
          /\ \A e \in Drivers : e # d => drivers'[e] = drivers[e]
          /\ stack' \in Seq(Drivers)
          /\ body' \in IF Overlap THEN {body} ELSE {[at |-> "op", of |-> d]}
    BY <1>8, OperateStacked
  <2>2. body' \in [at : {"busy", "task", "op", "settled", "rejected"}, of : Nat]
    BY <2>1 DEF Typed, ParametersOK
  <2>. QED
    BY <1>8, <2>1, <2>2 DEF Operate, Typed, At
<1>9. ASSUME NEW place \in {"task", "op", "settled", "rejected"}, NEW of \in Nat,
             BodyAwaits(place, of)
      PROVE  Typed'
  BY <1>9 DEF BodyAwaits, Typed, At
<1>10. QED
  BY <1>1, <1>2, <1>3, <1>4, <1>5, <1>6, <1>7, <1>8, <1>9, StepKinds DEF Acts

LEMMA NumberedStep ==
  ASSUME ParametersOK, TimeInv, Next
  PROVE  Numbered'
<1>. USE DEF TimeInv
<1>1. CASE UNCHANGED made /\ queue' \subseteq queue
  BY <1>1 DEF Numbered
<1>2. ASSUME NEW t, t.order = made + 1, queue' = queue \cup {t}, made' = made + 1
      PROVE  Numbered'
  <2>1. \A u \in queue : u.order \in Nat /\ u.order <= made /\ made \in Nat
    BY DEF Numbered, Typed, Task
  <2>. QED
    BY <1>2, <2>1 DEF Numbered, Typed
<1>3. ASSUME NEW d \in Drivers, Ends(d)
      PROVE  Numbered'
  <2>1. drivers[d].task \in Task
    BY <1>3, EndsFrom
  <2>2. [drivers[d].task EXCEPT !.due = @ + drivers[d].task.period, !.order = made + 1].order
          = made + 1
    BY <2>1 DEF Task
  <2>3. CASE UNCHANGED <<made, queue>>
    BY <1>1, <2>3
  <2>4. CASE /\ made' = made + 1
             /\ queue' = queue \cup {[drivers[d].task EXCEPT !.due = @ + drivers[d].task.period,
                                                             !.order = made + 1]}
    BY <1>2, <2>2, <2>4
  <2>. QED
    BY <1>3, <2>3, <2>4 DEF Ends, Returns, Throws
<1>4. ASSUME NEW kind \in {"timer", "interval", "immediate"}, NEW delay \in Delays,
             Schedule(kind, delay)
      PROVE  Numbered'
  BY <1>2, <1>4 DEF Schedule
<1>5. ASSUME \/ \E d \in Drivers, place \in Places : WaitsAt(d, place)
             \/ \E d \in Drivers : Advances(d) \/ Takes(d)
             \/ LooksAgain
             \/ \E id \in live : Clear(id)
             \/ \E op \in {"flush", "advance"}, delay \in Delays \cup {0} : Operate(op, delay)
             \/ \E place \in {"task", "op", "settled", "rejected"}, of \in Nat :
                  BodyAwaits(place, of)
      PROVE  Numbered'
  BY <1>1, <1>5, TakeDoes DEF WaitsAt, Advances, Takes, LooksAgain, Clear, Operate, BodyAwaits
<1>6. QED
  BY <1>3, <1>4, <1>5, StepKinds DEF Acts

LEMMA StackedStep ==
  ASSUME ParametersOK, TimeInv, Next
  PROVE  Stacked' /\ Started'
<1>. USE DEF TimeInv
<1>0. Run \in Drivers /\ \A e \in 1 .. MaxOps : e \in Drivers
  BY DEF Run, Drivers, ParametersOK
<1>1. ASSUME NEW d \in Drivers, NEW place \in Places \ {"off", "run"}, NEW p, p # "off",
             Stands(d, p), Await(d, place), d = Run => place # "last"
      PROVE  Stacked' /\ Started'
  <2>1. Stacked'
    BY <1>1, AwaitStacked
  <2>2. At(d) = p /\ drivers'[d].at = place /\ \A e \in Drivers : e # d => drivers'[e] = drivers[e]
    BY <1>1, AwaitMoves DEF Stands
  <2>. QED
    BY <1>0, <1>1, <2>1, <2>2 DEF Started, At
<1>2. ASSUME NEW d \in Drivers, Takes(d)
      PROVE  Stacked' /\ Started'
  <2>1. PICK p \in {"look", "check", "empty"} : Stands(d, p)
    BY <1>2 DEF Takes
  <2>2. CASE Await(d, "failed")
    BY <1>1, <2>1, <2>2 DEF Places
  <2>3. CASE Runs(d)
    <3>1. Stacked' /\ drivers'[d].at = "run"
          /\ \A e \in Drivers : e # d => drivers'[e] = drivers[e]
      BY <1>2, <2>1, <2>3, RunsStacked DEF Takes
    <3>2. At(d) # "off"
      BY <2>1 DEF Stands
    <3>. QED
      BY <1>0, <3>1, <3>2 DEF Started, At
  <2>. QED
    BY <1>2, <2>2, <2>3, TakeDoes DEF Takes
<1>3. CASE LooksAgain
  <2>1. \A e \in Drivers : \/ drivers'[e] = drivers[e]
                           \/ drivers'[e].at = "look" /\ At(e) \in {"manual", "body", "rest", "race"}
    BY <1>3 DEF LooksAgain, Typed, Driver
  <2>2. Stacked'
    BY <1>3, <2>1, StandsUp DEF LooksAgain
  <2>. QED
    BY <1>0, <2>1, <2>2 DEF Started, At
<1>4. ASSUME NEW op \in {"flush", "advance"}, NEW delay \in Delays \cup {0}, Operate(op, delay)
      PROVE  Stacked' /\ Started'
  BY <1>4, OperateStacked
<1>5. ASSUME UNCHANGED <<drivers, stack>>
      PROVE  Stacked' /\ Started'
  BY <1>5, Untouched DEF Started, At
<1>6. ASSUME NEW d \in Drivers, NEW place \in Places, WaitsAt(d, place)
      PROVE  Stacked' /\ Started'
  BY <1>1, <1>6 DEF WaitsAt, Places
<1>7. ASSUME NEW d \in Drivers, Advances(d)
      PROVE  Stacked' /\ Started'
  BY <1>1, <1>7 DEF Advances, Places
<1>8. ASSUME NEW d \in Drivers, Ends(d)
      PROVE  Stacked' /\ Started'
  BY <1>1, <1>8, EndsFrom DEF Places
<1>9. QED
  BY <1>2, <1>3, <1>4, <1>5, <1>6, <1>7, <1>8, StepKinds DEF Acts, Schedule, Clear, BodyAwaits

(* Whose turn it is while it waits for something is called by nobody.       *)
LEMMA TurnOfWaiting ==
  ASSUME ParametersOK, Typed, Stacked, NEW d \in Drivers,
         NEW p \in Places \ {"run", "look"}, Stands(d, p)
  PROVE  stack = <<>> /\ \A e \in Drivers : At(e) # "run"
<1>1. stack = <<>>
  <2>1. SUFFICES ASSUME stack # <<>>
                 PROVE  FALSE
    OBVIOUS
  <2>2. stack[1] = d /\ 1 \in DOMAIN stack /\ At(d) = p
    BY <2>1, CallerType DEF Stands, Typed
  <2>. QED
    BY <2>2 DEF Stacked
<1>2. QED
  BY <1>1 DEF Stacked

(* The head of the stack is a driver. *)
LEMMA InTaskRuns ==
  ASSUME Typed, InTask
  PROVE  Head(stack) \in Drivers /\ At(Head(stack)) = "run" /\ stack # <<>>
BY CallerType DEF InTask

(* virtual-time.ts:384: once the test has passed nothing is run or asked.   *)
LEMMA WhenDone ==
  ASSUME ParametersOK, TimeInv, Next, At(Run) = "done"
  PROVE  /\ drivers'[Run].at = "done"
         /\ UNCHANGED <<queue, live, tracked, failed, executions>>
         /\ \A e \in Drivers : drivers'[e].at # "run"
         /\ ~Overlap => Settled'
<1>. USE DEF TimeInv
<1>0. /\ Run \in Drivers /\ queue = {} /\ \A e \in Drivers : At(e) # "run"
      /\ ~Overlap => body.at = "settled"
      /\ Over
  BY DEF Passed, Run, Drivers, ParametersOK, Over, Finished, Settled
<1>1. ~InTask /\ ~InBody
  BY <1>0, InTaskRuns DEF InBody
<1>2. ASSUME NEW d \in Drivers, NEW place \in Places, WaitsAt(d, place)
      PROVE  /\ drivers'[Run].at = "done" /\ UNCHANGED <<queue, live, tracked, failed, executions>>
             /\ \A e \in Drivers : drivers'[e].at # "run"
             /\ ~Overlap => body'.at = "settled"
  <2>1. d # Run
    BY <1>2 DEF WaitsAt, Stands
  <2>2. /\ drivers'[d].at = place /\ place # "run"
        /\ \A e \in Drivers : e # d => drivers'[e] = drivers[e]
    BY <1>2, AwaitMoves DEF WaitsAt
  <2>3. body.at = "settled" => body' = body
    BY <1>2 DEF WaitsAt, Wakes
  <2>. QED
    BY <1>0, <1>2, <2>1, <2>2, <2>3 DEF WaitsAt, At
<1>3. ASSUME NEW d \in Drivers, Advances(d)
      PROVE  /\ drivers'[Run].at = "done" /\ UNCHANGED <<queue, live, tracked, failed, executions>>
             /\ \A e \in Drivers : drivers'[e].at # "run"
             /\ ~Overlap => body'.at = "settled"
  <2>1. /\ d # Run /\ drivers'[d].at = "last"
        /\ \A e \in Drivers : e # d => drivers'[e] = drivers[e]
    BY <1>3, AwaitMoves DEF Advances, Places
  <2>. QED
    BY <1>0, <1>3, <2>1 DEF Advances, At
<1>4. ASSUME NEW d \in Drivers, Takes(d) \/ Ends(d)
      PROVE  FALSE
  BY <1>0, <1>4, EndsFrom DEF Takes
<1>5. ASSUME LooksAgain
      PROVE  /\ drivers'[Run].at = "done" /\ UNCHANGED <<queue, live, tracked, failed, executions>>
             /\ \A e \in Drivers : drivers'[e].at # "run"
             /\ ~Overlap => body'.at = "settled"
  <2>1. \A e \in Drivers :
          \/ drivers'[e] = drivers[e]
          \/ At(e) \in {"manual", "body", "rest", "race"} /\ drivers'[e].at = "look"
    BY <1>5 DEF LooksAgain, Typed, Driver
  <2>. QED
    BY <1>0, <1>5, <2>1 DEF LooksAgain, At
<1>6. ~Acts
  <2>1. \A kind, delay : ~Schedule(kind, delay)
    BY <1>1 DEF Schedule
  <2>2. \A id : ~Clear(id)
    BY <1>1 DEF Clear
  <2>3. \A op, delay : ~Operate(op, delay)
    BY <1>1 DEF Operate
  <2>4. \A place, of : ~BodyAwaits(place, of)
    BY <1>1 DEF BodyAwaits
  <2>. QED
    BY <2>1, <2>2, <2>3, <2>4 DEF Acts
<1>7. QED
  BY <1>2, <1>3, <1>4, <1>5, <1>6, StepKinds DEF Settled

LEMMA PassedStep ==
  ASSUME ParametersOK, TimeInv, Next
  PROVE  Passed'
<1>. USE DEF TimeInv
<1>0. Run \in Drivers
  BY DEF Run, Drivers, ParametersOK
<1>1. CASE At(Run) = "done"
  BY <1>1, WhenDone DEF Passed, At
<1>2. ASSUME At(Run) # "done", NEW d \in Drivers, NEW place \in Places, WaitsAt(d, place),
             drivers'[Run].at = "done"
      PROVE  Passed'
  <2>1. drivers'[d].at = place /\ \A e \in Drivers : e # d => drivers'[e] = drivers[e]
    BY <1>2, AwaitMoves DEF WaitsAt
  <2>2. d = Run /\ place = "done"
    BY <1>0, <1>2, <2>1 DEF At
  <2>3. /\ At(Run) = "empty" /\ ~failed /\ queue = {} /\ tracked = 0
        /\ UNCHANGED <<queue, live, tracked, failed>>
        /\ \E p : Stands(Run, p)
        /\ body' = Wakes("op", d)
    BY <1>2, <2>2 DEF WaitsAt, Finished
  <2>4. Stands(Run, "empty")
    BY <2>3 DEF Stands
  <2>5. \A e \in Drivers : At(e) # "run"
    BY <1>0, <2>4, TurnOfWaiting DEF Places
  <2>6. \A e \in Drivers : drivers'[e].at # "run"
    BY <2>1, <2>2, <2>5 DEF At
  <2>7. ASSUME ~Overlap
        PROVE  body' = body /\ body.at = "settled" /\ live = {}
    <3>1. body.at = "settled" /\ \A e \in 1 .. MaxOps : At(e) # "failed"
      BY <2>3, <2>7 DEF Alone, Settled
    <3>2. \A e \in Drivers : At(e) # "failed"
      BY <2>3, <3>1 DEF Drivers, Run, ParametersOK
    <3>3. live = {}
      BY <2>3, <2>5, <2>7, <3>2 DEF Lives
    <3>. QED
      BY <2>3, <3>1, <3>3 DEF Wakes
  <2>. QED
    BY <2>3, <2>6, <2>7 DEF Passed, At, Settled
<1>3. ASSUME At(Run) # "done", drivers'[Run].at = "done",
             \/ \E d \in Drivers : Advances(d) \/ Takes(d) \/ Ends(d)
             \/ LooksAgain
             \/ Acts
      PROVE  FALSE
  <2>1. ASSUME NEW d \in Drivers, Advances(d) \/ Ends(d)
        PROVE  FALSE
    <3>1. PICK place \in {"last", "rest"} : Await(d, place)
      BY <2>1, EndsFrom DEF Advances
    <3>2. drivers'[d].at = place /\ \A e \in Drivers : e # d => drivers'[e] = drivers[e]
      BY <3>1, AwaitMoves DEF Places
    <3>. QED
      BY <1>0, <1>3, <3>1, <3>2 DEF At
  <2>2. ASSUME NEW d \in Drivers, Takes(d)
        PROVE  FALSE
    <3>1. PICK p : Stands(d, p)
      BY <2>2 DEF Takes
    <3>2. CASE Await(d, "failed")
      BY <1>0, <1>3, <3>2, AwaitMoves DEF At, Places
    <3>3. CASE Runs(d)
      BY <1>0, <1>3, <2>2, <3>1, <3>3, RunsStacked DEF At, Takes
    <3>. QED
      BY <2>2, <3>2, <3>3, TakeDoes DEF Takes
  <2>3. ASSUME LooksAgain
        PROVE  FALSE
    <3>1. drivers'[Run] = drivers[Run] \/ drivers'[Run].at = "look"
      BY <1>0, <2>3 DEF LooksAgain, Typed, Driver
    <3>. QED
      BY <1>3, <3>1 DEF At
  <2>4. ASSUME NEW op \in {"flush", "advance"}, NEW delay \in Delays \cup {0}, Operate(op, delay)
        PROVE  FALSE
    <3>1. PICK d \in 1 .. MaxOps : \A e \in Drivers : e # d => drivers'[e] = drivers[e]
      BY <2>4, OperateStacked
    <3>2. d # Run
      BY DEF Run, ParametersOK
    <3>. QED
      BY <1>0, <1>3, <3>1, <3>2 DEF At
  <2>5. ~UNCHANGED drivers
    BY <1>3 DEF At
  <2>. QED
    BY <1>3, <2>1, <2>2, <2>3, <2>4, <2>5 DEF Acts, Schedule, Clear, BodyAwaits
<1>4. QED
  <2>1. CASE drivers'[Run].at # "done"
    BY <2>1 DEF Passed, At
  <2>. QED
    BY <1>1, <1>2, <1>3, <2>1, StepKinds

LEMMA AloneStep ==
  ASSUME ParametersOK, TimeInv, Next
  PROVE  Alone'
<1>. USE DEF TimeInv
<1>. SUFFICES ASSUME ~Overlap
              PROVE  /\ Len(stack') <= 1
                     /\ \A d \in 1 .. MaxOps : drivers'[d].at \notin Finished =>
                                                 body' = [at |-> "op", of |-> d]
                     /\ drivers'[Run].at = "empty" => body'.at = "settled"
                     /\ body'.at = "settled" =>
                          \A d \in 1 .. MaxOps : drivers'[d].at # "failed"
  BY DEF Alone, At, Settled, Operating
<1>0. /\ Run \in Drivers /\ Run \notin 1 .. MaxOps
      /\ \A e \in 1 .. MaxOps : e \in Drivers
      /\ \A e \in Drivers : e = Run \/ e \in 1 .. MaxOps
      /\ Len(stack) <= 1
      /\ \A d \in 1 .. MaxOps : drivers[d].at \notin Finished => body = [at |-> "op", of |-> d]
      /\ drivers[Run].at = "empty" => body.at = "settled"
      /\ body.at = "settled" => \A d \in 1 .. MaxOps : drivers[d].at # "failed"
  BY DEF Run, Drivers, ParametersOK, Alone, At, Settled, Operating
<1>. DEFINE Goal == /\ Len(stack') <= 1
                    /\ \A d \in 1 .. MaxOps : drivers'[d].at \notin Finished =>
                                                body' = [at |-> "op", of |-> d]
                    /\ drivers'[Run].at = "empty" => body'.at = "settled"
                    /\ body'.at = "settled" =>
                         \A d \in 1 .. MaxOps : drivers'[d].at # "failed"
<1>1. ASSUME NEW d \in Drivers, NEW place \in Places \ {"off", "run"},
             NEW p \in Places \ Finished, Stands(d, p), Await(d, place),
             d = Run /\ place = "empty" => Settled,
             body' = IF place \in Finished THEN Wakes("op", d) ELSE body
      PROVE  Goal
  <2>1. /\ drivers'[d].at = place /\ drivers[d].at \notin Finished
        /\ \A e \in Drivers : e # d => drivers'[e] = drivers[e]
    BY <1>1, AwaitMoves DEF Stands, At
  <2>2. Len(stack') <= 1
    <3>1. stack = <<>> => stack' = <<>>
      BY <1>1, AwaitStacked
    <3>2. stack # <<>> => Len(stack') = Len(stack) - 1
      BY <1>1, AwaitStacked DEF Typed
    <3>3. Len(stack) \in Nat
      BY DEF Typed
    <3>. QED
      BY <1>0, <3>1, <3>2, <3>3
  <2>3. ASSUME NEW e \in 1 .. MaxOps, drivers'[e].at \notin Finished
        PROVE  body' = [at |-> "op", of |-> e]
    <3>1. drivers[e].at \notin Finished /\ body = [at |-> "op", of |-> e]
      BY <1>0, <2>1, <2>3
    <3>2. CASE place \notin Finished
      BY <1>1, <3>1, <3>2
    <3>3. CASE place \in Finished
      <4>1. e # d
        BY <2>1, <2>3, <3>3
      <4>2. body # [at |-> "op", of |-> d]
        BY <3>1, <4>1
      <4>. QED
        BY <1>1, <3>1, <3>3, <4>2 DEF Wakes
    <3>. QED
      BY <3>2, <3>3
  <2>4. body.at = "settled" => body' = body
    BY <1>1 DEF Wakes
  <2>5. body'.at = "settled" => body' = body
    BY <1>1 DEF Wakes
  <2>6. drivers'[Run].at = "empty" => body'.at = "settled"
    BY <1>0, <1>1, <2>1, <2>4 DEF Settled
  <2>7. ASSUME body'.at = "settled", NEW e \in 1 .. MaxOps
        PROVE  drivers'[e].at # "failed"
    <3>1. e # d
      BY <1>0, <2>1, <2>5, <2>7
    <3>. QED
      BY <1>0, <2>1, <2>5, <2>7, <3>1
  <2>. QED
    BY <2>2, <2>3, <2>6, <2>7
<1>2. ASSUME NEW d \in Drivers, NEW place \in Places, WaitsAt(d, place)
      PROVE  Goal
  <2>1. PICK p \in {"look", "check", "empty", "last", "rest"} : Stands(d, p)
    BY <1>2 DEF WaitsAt
  <2>2. p \in Places \ Finished /\ place \in Places \ {"off", "run"}
    BY <1>2 DEF WaitsAt, Places, Finished
  <2>. QED
    BY <1>1, <1>2, <2>1, <2>2 DEF WaitsAt
<1>3. ASSUME NEW d \in Drivers, Advances(d)
      PROVE  Goal
  BY <1>1, <1>3 DEF Advances, Places, Finished
<1>4. ASSUME NEW d \in Drivers, Ends(d)
      PROVE  Goal
  BY <1>1, <1>4, EndsFrom DEF Places, Finished
<1>5. ASSUME NEW d \in Drivers, Takes(d)
      PROVE  Goal
  <2>1. PICK p \in {"look", "check", "empty"} : Stands(d, p)
    BY <1>5 DEF Takes
  <2>2. CASE Await(d, "failed") /\ body' = Wakes("op", d)
    BY <1>1, <2>1, <2>2 DEF Places, Finished
  <2>3. CASE Runs(d) /\ body' = Wakes("task", Earliest.id)
    <3>1. /\ drivers'[d].at = "run"
          /\ \A e \in Drivers : e # d => drivers'[e] = drivers[e]
          /\ IF stack = <<>> THEN stack' = <<d>> ELSE stack' = stack
      BY <1>5, <2>1, <2>3, RunsStacked DEF Takes
    <3>2. drivers[d].at \notin Finished
      BY <2>1 DEF Stands, At, Finished
    <3>3. Len(stack') <= 1
      <4>1. CASE stack = <<>>
        <5>1. stack' = <<d>> /\ Len(<<d>>) = 1
          BY <3>1, <4>1
        <5>. QED
          BY <5>1
      <4>2. CASE stack # <<>>
        <5>1. stack' = stack
          BY <3>1, <4>2
        <5>. QED
          BY <1>0, <5>1
      <4>. QED
        BY <4>1, <4>2
    <3>4. body.at # "task" => body' = body
      BY <2>3 DEF Wakes
    <3>5. body'.at = "settled" => body.at = "settled"
      BY <2>3 DEF Wakes
    <3>6. \A e \in 1 .. MaxOps : drivers'[e].at \notin Finished =>
                                   body' = [at |-> "op", of |-> e]
      BY <1>0, <3>1, <3>2, <3>4
    <3>. QED
      BY <1>0, <3>1, <3>2, <3>3, <3>4, <3>5, <3>6
  <2>. QED
    BY <1>5, <2>2, <2>3, TakeDoes DEF Takes
<1>6. ASSUME LooksAgain
      PROVE  Goal
  <2>1. \A e \in Drivers : \/ drivers'[e] = drivers[e]
                           \/ /\ drivers'[e].at = "look"
                              /\ drivers[e].at \in {"manual", "body", "rest", "race"}
    BY <1>6 DEF LooksAgain, Typed, Driver, At
  <2>2. \A e \in Drivers : /\ drivers[e].at \in Finished <=> drivers'[e].at \in Finished
                           /\ drivers'[e].at = "failed" => drivers[e].at = "failed"
    BY <2>1 DEF Finished
  <2>3. drivers'[Run].at = "empty" => drivers[Run].at = "empty"
    BY <1>0, <2>1
  <2>4. UNCHANGED <<stack, body>>
    BY <1>6 DEF LooksAgain
  <2>. QED
    BY <1>0, <2>2, <2>3, <2>4
<1>7. CASE UNCHANGED <<drivers, body, stack>>
  BY <1>0, <1>7
<1>8. ASSUME NEW op \in {"flush", "advance"}, NEW delay \in Delays \cup {0}, Operate(op, delay)
      PROVE  Goal
  <2>1. PICK d \in 1 .. MaxOps :
          /\ drivers'[d] = [op |-> op, target |-> now + delay, at |-> "look", task |-> 0]
          /\ \A e \in Drivers : e # d => drivers'[e] = drivers[e]
          /\ stack' = <<d>> \o stack
          /\ body' = [at |-> "op", of |-> d]
    BY <1>8, OperateStacked
  <2>2. stack = <<>> /\ body.at = "busy"
    BY <1>8 DEF Operate, InBody
  <2>3. Len(stack') = 1
    BY <2>1, <2>2
  <2>4. \A e \in 1 .. MaxOps : e # d => drivers'[e].at \in Finished
    BY <1>0, <2>1, <2>2
  <2>5. drivers'[Run].at # "empty"
    BY <1>0, <2>1, <2>2
  <2>. QED
    BY <1>0, <2>1, <2>3, <2>4, <2>5
<1>9. ASSUME NEW place \in {"task", "op", "settled", "rejected"}, NEW of \in Nat,
             BodyAwaits(place, of),
             body'.at = "settled" => \A d \in 1 .. MaxOps : At(d) # "failed"
      PROVE  Goal
  <2>1. body.at = "busy" /\ UNCHANGED <<drivers, stack>>
    BY <1>9 DEF BodyAwaits, InBody
  <2>. QED
    BY <1>0, <1>9, <2>1 DEF At
<1>10. QED
  BY <1>2, <1>3, <1>4, <1>5, <1>6, <1>7, <1>8, <1>9, StepKinds DEF Acts, Schedule, Clear

(* Where operations do not overlap nobody else runs a task.                 *)
LEMMA RunsAlone ==
  ASSUME ParametersOK, Typed, Stacked, Alone, ~Overlap, NEW d \in Drivers, NEW p, Stands(d, p)
  PROVE  \A e \in Drivers : e # d => At(e) # "run"
<1>1. ASSUME NEW e \in Drivers, e # d, At(e) = "run"
      PROVE  FALSE
  <2>1. PICK i \in DOMAIN stack : stack[i] = e
    BY <1>1 DEF Stacked
  <2>2. i = 1 /\ stack # <<>>
    BY <2>1 DEF Alone, Typed
  <2>3. stack[1] = d
    BY <2>2, CallerType DEF Stands
  <2>. QED
    BY <1>1, <2>1, <2>2, <2>3
<1>2. QED
  BY <1>1

(* virtual-time.ts:411: the time does not pass by what is due. *)
LEMMA TimelyStep ==
  ASSUME ParametersOK, TimeInv, Next, ~Overlap
  PROVE  Timely' /\ now' >= now
<1>. USE DEF TimeInv
<1>0. /\ Run \in Drivers /\ Run \notin 1 .. MaxOps
      /\ \A e \in 1 .. MaxOps : e \in Drivers
      /\ \A t \in queue : t.due \in Nat /\ t.due >= now
      /\ now \in Nat
      /\ \A e \in Drivers : drivers[e].at = "run" => drivers[e].task.due = now
      /\ \A e \in 1 .. MaxOps : drivers[e].at \notin Finished =>
           /\ body = [at |-> "op", of |-> e]
           /\ drivers[e].op = "advance" => drivers[e].target >= now
           /\ drivers[e].at = "empty" => drivers[e].op = "flush"
      /\ \A e \in Drivers : drivers[e] \in Driver /\ drivers[e].target \in Nat
  BY DEF Run, Drivers, ParametersOK, Alone, Timely, At, Operating, Typed, Task, Driver
<1>. DEFINE Late == /\ \A t \in queue' : t.due >= now'
                    /\ now' >= now
            Running == \A e \in Drivers : drivers'[e].at = "run" => drivers'[e].task.due = now'
            Heading(e) == drivers'[e].at \notin Finished =>
                            /\ drivers'[e].op = "advance" => drivers'[e].target >= now'
                            /\ drivers'[e].at = "empty" => drivers'[e].op = "flush"
            Goal == Late /\ Running /\ \A e \in 1 .. MaxOps : Heading(e)
<1>1. ASSUME NEW d \in Drivers, NEW place \in Places \ {"off", "run"},
             NEW p \in Places \ Finished, Stands(d, p), Await(d, place),
             d # Run /\ place = "empty" => drivers[d].op = "flush",
             UNCHANGED now, Late
      PROVE  Goal
  <2>1. /\ drivers'[d].at = place /\ drivers[d].at \notin Finished
        /\ \A e \in Drivers : e # d => drivers'[e] = drivers[e]
        /\ place \notin Finished => /\ drivers'[d].op = drivers[d].op
                                    /\ drivers'[d].target = drivers[d].target
    BY <1>1, AwaitMoves DEF Stands, At
  <2>2. Running
    BY <1>0, <1>1, <2>1
  <2>3. ASSUME NEW e \in 1 .. MaxOps
        PROVE  Heading(e)
    <3>1. CASE e = d
      BY <1>0, <1>1, <2>1, <3>1
    <3>2. CASE e # d
      BY <1>0, <1>1, <2>1, <3>2
    <3>. QED
      BY <3>1, <3>2
  <2>. QED
    BY <1>1, <2>2, <2>3
<1>2. ASSUME NEW d \in Drivers, NEW place \in Places, WaitsAt(d, place)
      PROVE  Goal
  <2>1. PICK p \in {"look", "check", "empty", "last", "rest"} : Stands(d, p)
    BY <1>2 DEF WaitsAt
  <2>2. p \in Places \ Finished /\ place \in Places \ {"off", "run"}
    BY <1>2 DEF WaitsAt, Places, Finished
  <2>3. UNCHANGED <<now, queue>> /\ Await(d, place)
        /\ (d # Run /\ place = "empty" => drivers[d].op = "flush")
    BY <1>2 DEF WaitsAt
  <2>. QED
    BY <1>0, <1>1, <2>1, <2>2, <2>3
<1>3. ASSUME NEW d \in Drivers, Ends(d)
      PROVE  Goal
  <2>1. Stands(d, "run") /\ drivers[d].at = "run" /\ Await(d, "rest") /\ UNCHANGED now
        /\ drivers[d].task \in Task
    BY <1>3, EndsFrom DEF At
  <2>. DEFINE t == drivers[d].task
              next == [t EXCEPT !.due = @ + t.period, !.order = made + 1]
  <2>2. queue' \subseteq queue \cup {next}
    BY <1>3 DEF Ends, Returns, Throws
  <2>3. next.due = t.due + t.period /\ t.due + t.period >= now
    <3>1. t \in Task /\ t.due = now
      BY <1>0, <2>1
    <3>. HIDE DEF t
    <3>2. t.period \in Nat /\ next.due = t.due + t.period
      BY <3>1 DEF Task
    <3>. QED
      BY <1>0, <3>1, <3>2
  <2>. HIDE DEF next
  <2>4. Late
    BY <1>0, <2>1, <2>2, <2>3
  <2>. QED
    BY <1>1, <2>1, <2>4 DEF Places, Finished
<1>4. ASSUME NEW d \in Drivers, Advances(d)
      PROVE  Goal
  <2>1. /\ d \in 1 .. MaxOps /\ drivers[d].at = "look" /\ drivers[d].op = "advance"
        /\ Stands(d, "look")
    BY <1>4 DEF Advances, Stands, At, Drivers, Run, ParametersOK
  <2>2. /\ drivers'[d].at = "last" /\ drivers'[d].op = drivers[d].op
        /\ drivers'[d].target = drivers[d].target
        /\ \A e \in Drivers : e # d => drivers'[e] = drivers[e]
    BY <1>4, AwaitMoves DEF Advances, Places, Finished
  <2>3. drivers[d].target >= now /\ body = [at |-> "op", of |-> d]
    BY <1>0, <2>1 DEF Finished
  <2>4. Late
    BY <1>4, <2>3 DEF Advances
  <2>5. Running
    BY <2>1, <2>2, RunsAlone DEF At
  <2>6. ASSUME NEW e \in 1 .. MaxOps
        PROVE  Heading(e)
    <3>1. CASE e = d
      BY <1>0, <1>4, <2>2, <3>1 DEF Advances
    <3>2. CASE e # d
      BY <1>0, <2>2, <2>3, <3>2
    <3>. QED
      BY <3>1, <3>2
  <2>. QED
    BY <2>4, <2>5, <2>6
<1>5. ASSUME NEW d \in Drivers, Takes(d)
      PROVE  Goal
  <2>1. PICK p \in {"look", "check", "empty"} : Stands(d, p)
    BY <1>5 DEF Takes
  <2>2. queue' = queue \ {Earliest}
    BY <1>5, TakeDoes DEF Takes
  <2>3. CASE Await(d, "failed") /\ UNCHANGED now
    BY <1>0, <1>1, <2>1, <2>2, <2>3 DEF Places, Finished
  <2>4. CASE Runs(d) /\ now' = Earliest.due
    <3>1. /\ drivers'[d].at = "run" /\ drivers'[d].task = Earliest
          /\ drivers'[d].op = drivers[d].op /\ drivers'[d].target = drivers[d].target
          /\ \A e \in Drivers : e # d => drivers'[e] = drivers[e]
      BY <1>5, <2>1, <2>4, RunsStacked DEF Takes
    <3>2. Earliest \in queue /\ \A u \in queue : Earliest.due <= u.due
      BY <1>5, EarliestIsFirst DEF Takes
    <3>3. Late
      BY <1>0, <2>2, <2>4, <3>2
    <3>4. Running
      BY <2>1, <2>4, <3>1, RunsAlone DEF At
    <3>5. ASSUME NEW e \in 1 .. MaxOps, drivers[e].at \notin Finished
          PROVE  e = d
      <4>1. Operating # {}
        BY <3>5 DEF Operating, At
      <4>2. d # Run
        BY <1>5, <4>1 DEF Takes
      <4>3. d \in 1 .. MaxOps /\ drivers[d].at \notin Finished
        BY <2>1, <4>2 DEF Stands, At, Finished, Drivers, Run, ParametersOK
      <4>4. [at |-> "op", of |-> e] = [at |-> "op", of |-> d]
        BY <1>0, <3>5, <4>3
      <4>. QED
        BY <4>4
    <3>6. ASSUME NEW e \in 1 .. MaxOps
          PROVE  Heading(e)
      <4>1. CASE e = d
        <5>1. drivers[d].op = "advance" => Earliest.due <= drivers[d].target
          BY <1>0, <1>5, <4>1 DEF Takes
        <5>2. Earliest.due \in Nat
          BY <1>0, <3>2
        <5>. QED
          BY <1>0, <2>4, <3>1, <4>1, <5>1, <5>2
      <4>2. CASE e # d
        BY <1>0, <3>1, <3>5, <4>2
      <4>. QED
        BY <4>1, <4>2
    <3>. QED
      BY <3>3, <3>4, <3>6
  <2>. QED
    BY <1>5, <2>3, <2>4, TakeDoes DEF Takes
<1>6. ASSUME LooksAgain
      PROVE  Goal
  <2>1. \A e \in Drivers : \/ drivers'[e] = drivers[e]
                           \/ /\ drivers'[e].at = "look" /\ drivers[e].at \notin Finished
                              /\ drivers'[e].op = drivers[e].op
                              /\ drivers'[e].target = drivers[e].target
    BY <1>6 DEF LooksAgain, Typed, Driver, At, Finished
  <2>2. UNCHANGED <<now, queue>>
    BY <1>6 DEF LooksAgain
  <2>3. Late /\ Running
    BY <1>0, <2>1, <2>2
  <2>4. ASSUME NEW e \in 1 .. MaxOps
        PROVE  Heading(e)
    BY <1>0, <2>1, <2>2
  <2>. QED
    BY <2>3, <2>4
<1>7. ASSUME UNCHANGED <<now, drivers>>, \A t \in queue' : t \in queue \/ t.due >= now
      PROVE  Goal
  BY <1>0, <1>7
<1>8. ASSUME NEW kind \in {"timer", "interval", "immediate"}, NEW delay \in Delays,
             Schedule(kind, delay)
      PROVE  Goal
  <2>1. now + delay >= now
    BY <1>0 DEF ParametersOK
  <2>2. \A t \in queue' : t \in queue \/ t.due = now + delay
    BY <1>8 DEF Schedule
  <2>. QED
    BY <1>7, <1>8, <2>1, <2>2 DEF Schedule
<1>9. ASSUME NEW op \in {"flush", "advance"}, NEW delay \in Delays \cup {0}, Operate(op, delay)
      PROVE  Goal
  <2>1. PICK d \in 1 .. MaxOps :
          /\ drivers'[d] = [op |-> op, target |-> now + delay, at |-> "look", task |-> 0]
          /\ \A e \in Drivers : e # d => drivers'[e] = drivers[e]
    BY <1>9, OperateStacked
  <2>2. UNCHANGED <<now, queue>>
    BY <1>9 DEF Operate
  <2>3. now + delay >= now
    BY <1>0 DEF ParametersOK
  <2>4. Late /\ Running
    BY <1>0, <2>1, <2>2
  <2>5. ASSUME NEW e \in 1 .. MaxOps
        PROVE  Heading(e)
    <3>1. CASE e = d
      BY <2>1, <2>2, <2>3, <3>1
    <3>2. CASE e # d
      BY <1>0, <2>1, <2>2, <3>2
    <3>. QED
      BY <3>1, <3>2
  <2>. QED
    BY <2>4, <2>5
<1>10. ASSUME \/ \E id \in live : Clear(id)
              \/ \E place \in {"task", "op", "settled", "rejected"}, of \in Nat :
                   BodyAwaits(place, of)
       PROVE  Goal
  BY <1>7, <1>10 DEF Clear, BodyAwaits
<1>11. Goal
  BY <1>2, <1>3, <1>4, <1>5, <1>6, <1>8, <1>9, <1>10, StepKinds DEF Acts
<1>12. QED
  BY <1>11 DEF Timely, At, Operating

LEMMA LivesStep ==
  ASSUME ParametersOK, TimeInv, Next
  PROVE  Lives'
<1>. USE DEF TimeInv
<1>. DEFINE Runs1(e, id) == /\ At(e) = "run" /\ drivers[e].task.id = id
                            /\ drivers[e].task.kind = "interval"
            Kept(id) == (\E t \in queue : t.id = id) \/ \E e \in Drivers : Runs1(e, id)
            Sound == ~failed /\ \A e \in Drivers : At(e) # "failed"
<1>. SUFFICES ASSUME ~Overlap, Sound'
              PROVE  \A id \in live' : Kept(id)'
  BY DEF Lives
<1>0. Sound => \A id \in live : Kept(id)
  BY DEF Lives
<1>. HIDE DEF Sound
<1>1. ASSUME NEW d \in Drivers, NEW place \in Places \ {"off", "run"},
             NEW p \in Places \ (Finished \cup {"run"}), Stands(d, p), Await(d, place),
             UNCHANGED <<queue, live, failed>>
      PROVE  \A id \in live' : Kept(id)'
  <2>1. /\ drivers'[d].at = place /\ At(d) = p
        /\ \A e \in Drivers : e # d => drivers'[e] = drivers[e]
    BY <1>1, AwaitMoves DEF Stands
  <2>2. Sound
    BY <1>1, <2>1 DEF Sound, At, Finished
  <2>3. \A e \in Drivers, id \in live : Runs1(e, id) => Runs1(e, id)'
    BY <1>1, <2>1 DEF At
  <2>. QED
    BY <1>0, <1>1, <2>2, <2>3
<1>2. ASSUME NEW d \in Drivers, NEW place \in Places, WaitsAt(d, place)
      PROVE  \A id \in live' : Kept(id)'
  <2>1. PICK p \in {"look", "check", "empty", "last", "rest"} : Stands(d, p)
    BY <1>2 DEF WaitsAt
  <2>2. p \in Places \ (Finished \cup {"run"}) /\ place \in Places \ {"off", "run"}
    BY <1>2 DEF WaitsAt, Places, Finished
  <2>. QED
    BY <1>1, <1>2, <2>1, <2>2 DEF WaitsAt
<1>3. ASSUME NEW d \in Drivers, Advances(d)
      PROVE  \A id \in live' : Kept(id)'
  BY <1>1, <1>3 DEF Advances, Places, Finished
<1>4. ASSUME NEW d \in Drivers, Takes(d)
      PROVE  \A id \in live' : Kept(id)'
  <2>1. PICK p \in {"look", "check", "empty"} : Stands(d, p)
    BY <1>4 DEF Takes
  <2>2. ~Await(d, "failed")
    BY AwaitMoves DEF Sound, At, Places
  <2>3. /\ Runs(d) /\ UNCHANGED failed
        /\ queue' = queue \ {Earliest}
        /\ live' = IF Earliest.kind = "interval" THEN live ELSE live \ {Earliest.id}
    BY <1>4, <2>2, TakeDoes DEF Takes
  <2>4. /\ drivers'[d].at = "run" /\ drivers'[d].task = Earliest
        /\ \A e \in Drivers : e # d => drivers'[e] = drivers[e]
    BY <1>4, <2>1, <2>3, RunsStacked DEF Takes
  <2>5. At(d) # "run" /\ At(d) # "failed"
    BY <2>1 DEF Stands
  <2>6. Sound
    BY <2>3, <2>4, <2>5 DEF Sound, At
  <2>7. ASSUME NEW id \in live'
        PROVE  Kept(id)'
    <3>1. id \in live
      BY <2>3, <2>7
    <3>2. CASE \E t \in queue : t.id = id
      <4>1. PICK t \in queue : t.id = id
        BY <3>2
      <4>2. CASE t = Earliest
        <5>1. Earliest.kind = "interval"
          BY <2>3, <2>7, <4>1, <4>2
        <5>2. Runs1(d, id)'
          BY <2>4, <4>1, <4>2, <5>1 DEF At
        <5>. QED
          BY <5>2
      <4>3. CASE t # Earliest
        BY <2>3, <4>1, <4>3
      <4>. QED
        BY <4>2, <4>3
    <3>3. ASSUME NEW e \in Drivers, Runs1(e, id)
          PROVE  Kept(id)'
      <4>1. Runs1(e, id)'
        BY <2>4, <2>5, <3>3 DEF At
      <4>. QED
        BY <4>1
    <3>. QED
      BY <1>0, <2>6, <3>1, <3>2, <3>3
  <2>. QED
    BY <2>7
<1>5. ASSUME NEW d \in Drivers, Ends(d)
      PROVE  \A id \in live' : Kept(id)'
  <2>1. At(d) = "run" /\ Await(d, "rest") /\ UNCHANGED live
    BY <1>5, EndsFrom
  <2>. DEFINE t == drivers[d].task
              again == t.kind = "interval" /\ t.id \in live
              next == [t EXCEPT !.due = @ + t.period, !.order = made + 1]
  <2>2. UNCHANGED failed /\ queue' = IF again THEN queue \cup {next} ELSE queue
    BY <1>5 DEF Ends, Returns, Throws, Sound
  <2>3. \A e \in Drivers : e # d => drivers'[e] = drivers[e]
    BY <2>1, AwaitMoves DEF Places
  <2>4. Sound
    BY <2>1, <2>2, <2>3 DEF Sound, At
  <2>5. next.id = t.id
    BY <1>5, EndsFrom DEF Task
  <2>6. ASSUME NEW id \in live', \E u \in queue : u.id = id
        PROVE  Kept(id)'
    BY <2>2, <2>6
  <2>7. ASSUME NEW id \in live', NEW e \in Drivers, Runs1(e, id)
        PROVE  Kept(id)'
    <3>1. CASE e # d
      <4>1. Runs1(e, id)'
        BY <2>3, <2>7, <3>1 DEF At
      <4>. QED
        BY <4>1
    <3>2. CASE e = d
      <4>1. again /\ t.id = id
        BY <2>1, <2>7, <3>2
      <4>2. next \in queue' /\ next.id = id
        BY <2>2, <2>5, <4>1
      <4>. QED
        BY <4>2
    <3>. QED
      BY <3>1, <3>2
  <2>. QED
    BY <1>0, <2>1, <2>4, <2>6, <2>7
<1>6. ASSUME LooksAgain
      PROVE  \A id \in live' : Kept(id)'
  <2>1. \A e \in Drivers : \/ drivers'[e] = drivers[e]
                           \/ /\ drivers'[e].at = "look"
                              /\ At(e) \in {"manual", "body", "rest", "race"}
    BY <1>6 DEF LooksAgain, Typed, Driver
  <2>2. UNCHANGED <<queue, live>> /\ (failed => failed')
    BY <1>6 DEF LooksAgain
  <2>3. Sound
    BY <2>1, <2>2 DEF Sound, At
  <2>4. \A e \in Drivers, id \in live : Runs1(e, id) => Runs1(e, id)'
    BY <2>1 DEF At
  <2>. QED
    BY <1>0, <2>2, <2>3, <2>4
<1>7. ASSUME UNCHANGED <<drivers, failed>>,
             \A id \in live' : \/ id \in live /\ \A t \in queue : t.id = id => t \in queue'
                               \/ \E t \in queue' : t.id = id
      PROVE  \A id \in live' : Kept(id)'
  <2>1. Sound /\ \A e \in Drivers, id \in live : Runs1(e, id) => Runs1(e, id)'
    BY <1>7 DEF Sound, At
  <2>. QED
    BY <1>0, <1>7, <2>1
<1>8. ASSUME NEW kind \in {"timer", "interval", "immediate"}, NEW delay \in Delays,
             Schedule(kind, delay)
      PROVE  \A id \in live' : Kept(id)'
  <2>. DEFINE new == [id |-> made', kind |-> kind, due |-> now + delay, order |-> made',
                      period |-> IF kind = "interval" THEN delay ELSE 0]
  <2>1. queue' = queue \cup {new} /\ live' = live \cup {made'} /\ new.id = made'
    BY <1>8 DEF Schedule
  <2>. HIDE DEF new
  <2>2. \A id \in live' : \/ id \in live /\ \A t \in queue : t.id = id => t \in queue'
                          \/ \E t \in queue' : t.id = id
    BY <2>1
  <2>. QED
    BY <1>7, <1>8, <2>2 DEF Schedule
<1>9. ASSUME NEW id \in live, Clear(id)
      PROVE  \A i \in live' : Kept(i)'
  BY <1>7, <1>9 DEF Clear
<1>10. ASSUME NEW op \in {"flush", "advance"}, NEW delay \in Delays \cup {0}, Operate(op, delay)
       PROVE  \A id \in live' : Kept(id)'
  <2>1. PICK d \in Drivers : /\ At(d) = "off" /\ drivers'[d].at = "look"
                             /\ \A e \in Drivers : e # d => drivers'[e] = drivers[e]
    <3>1. \A d \in 1 .. MaxOps : d \in Drivers
      BY DEF Drivers, ParametersOK
    <3>2. PICK d \in 1 .. MaxOps :
            /\ At(d) = "off"
            /\ drivers'[d] = [op |-> op, target |-> now + delay, at |-> "look", task |-> 0]
            /\ \A e \in Drivers : e # d => drivers'[e] = drivers[e]
      BY <1>10, OperateStacked
    <3>. QED
      BY <3>1, <3>2
  <2>2. UNCHANGED <<queue, live, failed>>
    BY <1>10 DEF Operate
  <2>3. Sound /\ \A e \in Drivers, id \in live : Runs1(e, id) => Runs1(e, id)'
    BY <2>1, <2>2 DEF Sound, At
  <2>. QED
    BY <1>0, <2>2, <2>3
<1>11. ASSUME NEW place \in {"task", "op", "settled", "rejected"}, NEW of \in Nat,
              BodyAwaits(place, of)
       PROVE  \A id \in live' : Kept(id)'
  BY <1>7, <1>11 DEF BodyAwaits
<1>12. QED
  BY <1>2, <1>3, <1>4, <1>5, <1>6, <1>8, <1>9, <1>10, <1>11, StepKinds DEF Acts

-----------------------------------------------------------------------------
LEMMA TimeInit ==
  ASSUME ParametersOK, Init
  PROVE  TimeInv
<1>1. /\ Run \in Drivers /\ drivers \in [Drivers -> Driver]
      /\ \A d \in Drivers : At(d) = IF d = Run THEN "look" ELSE "off"
      /\ \A d \in 1 .. MaxOps : d \in Drivers /\ d # Run
      /\ stack = <<>> /\ queue = {} /\ live = {} /\ now = 0 /\ made = 0 /\ tracked = 0
      /\ failed = FALSE /\ body = [at |-> "busy", of |-> 0]
  BY DEF Init, Run, Drivers, Driver, Places, Idle, At, ParametersOK
<1>2. Typed /\ Numbered /\ Stacked
  <2>1. Typed
    <3>1. /\ now \in Nat /\ made \in Nat /\ tracked \in Nat /\ failed \in BOOLEAN
          /\ queue \subseteq Task /\ drivers \in [Drivers -> Driver]
      BY <1>1
    <3>2. body \in [at : {"busy", "task", "op", "settled", "rejected"}, of : Nat]
      BY <1>1
    <3>3. stack \in Seq(Drivers)
      BY <1>1
    <3>4. \A d \in Drivers : At(d) # "run"
      BY <1>1
    <3>. QED
      BY <3>1, <3>2, <3>3, <3>4 DEF Typed
  <2>2. Numbered
    BY <1>1 DEF Numbered
  <2>3. Stacked
    BY <1>1 DEF Stacked
  <2>. QED
    BY <2>1, <2>2, <2>3
<1>3. Started
  <2>1. 0 \in Drivers /\ \A e \in 1 .. MaxOps : At(e) # "off" <=> e <= 0
    BY <1>1 DEF Drivers, ParametersOK
  <2>. QED
    BY <1>1, <2>1 DEF Started
<1>4. Passed /\ Alone /\ Timely /\ Lives
  BY <1>1 DEF Passed, Alone, Timely, Lives, Operating, Finished, Settled
<1>5. QED
  BY <1>2, <1>3, <1>4 DEF TimeInv

LEMMA TimeNext ==
  ASSUME ParametersOK, TimeInv, Next
  PROVE  TimeInv'
<1>1. Typed' /\ Numbered' /\ Stacked' /\ Started' /\ Passed' /\ Alone' /\ Lives'
  BY TypedStep, NumberedStep, StackedStep, PassedStep, AloneStep, LivesStep
<1>2. Timely'
  <2>1. CASE Overlap
    BY <2>1 DEF Timely
  <2>. QED
    BY <2>1, TimelyStep
<1>3. QED
  BY <1>1, <1>2 DEF TimeInv

LEMMA TimeStutters ==
  ASSUME TimeInv, UNCHANGED vars
  PROVE  TimeInv'
BY DEF TimeInv, vars, Typed, Numbered, Stacked, Started, Passed, Alone, Timely, Lives, At,
       Operating, Settled

(* A step of the time, as TimeGoesOn says it. *)
LEMMA TimeGoesOnStep ==
  ASSUME ParametersOK, TimeInv, Next
  PROVE  TimeGoesOn
<1>1. ASSUME ~Overlap
      PROVE  now' >= now /\ \A t \in queue' : t.due >= now'
  BY <1>1, TimelyStep DEF Timely
<1>2. At(Run) = "done" => executions' = executions
  BY WhenDone
<1>3. QED
  BY <1>1, <1>2 DEF TimeGoesOn

(* ...and what PassesDrained says of a state.                               *)
LEMMA DrainedState ==
  ASSUME ParametersOK, TimeInv
  PROVE  PassesDrained
<1>1. ASSUME At(Run) = "done", ~Overlap
      PROVE  live = {} /\ Operating = {}
  BY <1>1 DEF TimeInv, Passed, Alone, Settled
<1>2. QED
  BY <1>1 DEF TimeInv, Passed, PassesDrained

(* The inductive invariant holds throughout.                                *)
THEOREM TimeInvariant ==
  ASSUME ParametersOK
  PROVE  Spec => []TimeInv
<1>1. Init => TimeInv
  BY TimeInit
<1>2. TimeInv /\ [Next]_vars => TimeInv'
  BY TimeNext, TimeStutters
<1>3. QED
  BY <1>1, <1>2, PTL DEF Spec

(* virtual-time.ts:384: a test passes with nothing left to run, however     *)
(* timers, intervals, promises and manual operations interleave.            *)
THEOREM AlwaysPassesDrained ==
  ASSUME ParametersOK
  PROVE  Spec => []PassesDrained
<1>1. TimeInv => PassesDrained
  BY DrainedState
<1>2. QED
  BY <1>1, TimeInvariant, PTL

(* virtual-time.ts:411: the time never goes back nor passes what is due, and *)
(* nothing is run once the test has passed.                                 *)
THEOREM AlwaysGoesOn ==
  ASSUME ParametersOK
  PROVE  Spec => [][TimeGoesOn]_vars
<1>1. TimeInv /\ [Next]_vars => [TimeGoesOn]_vars
  BY TimeGoesOnStep
<1>2. QED
  BY <1>1, TimeInvariant, PTL DEF Spec
=============================================================================
