-------------------------- MODULE NotifierOperators --------------------------
(***************************************************************************)
(* The operators that time one source by others: takeUntil, skipUntil,     *)
(* sample and withLatestFrom, whose other inputs are there from the start, *)
(* and debounce, throttle and delayWhen, which ask the user for a duration *)
(* of each value.  A duration given as a number is a timer that is cleared *)
(* by the abort of its controller: an input that emits once, later.        *)
(*                                                                         *)
(* The hazard is a duration, or a notifier, that answers at a wrong time:  *)
(* inside its own subscribe(), after a value that should have replaced it, *)
(* after the end of the source.                                            *)
(***************************************************************************)
EXTENDS Inputs

CONSTANTS
  Ops,   (* the operators of this instance                               *)
  Calm   (* those whose user code does not make the inputs emit          *)

VARIABLES
  op,     (* the operator                                                *)
  cfg,    (* the options of throttle; delayWhen has a subscription delay *)
  st      (* what its handlers close over                                *)

vars == <<op, cfg, st, inputs, aborted, log, active, out, stack>>

Source == 0

Notifier == 1  (* and 2, the second of withLatestFrom *)

Duration(p) == 2 + p  (* of the value at position p of the log *)

Delayer == 2

(* has and p are hasValue and lastValue, as its position in the log; ctl is *)
(* innerController, or 0; fresh numbers controllers; pending are the delays.*)
Start == [has |-> FALSE, p |-> 0, ctl |-> 0, fresh |-> 0, done |-> FALSE,
          taking |-> FALSE, pending |-> {}, ready |-> {}, latest |-> [r \in 1 .. 2 |-> 0]]

Opening ==
  CASE op \in {"takeUntil", "skipUntil"} -> <<Subscribe(Notifier, 1), Subscribe(Source, 0)>>
    [] op = "sample"         -> <<Subscribe(Source, 0), Subscribe(Notifier, 0)>>
    [] op = "withLatestFrom" -> <<Subscribe(1, 0), Subscribe(2, 0), Subscribe(Source, 0)>>
    [] op = "delayWhen"      -> IF cfg.delayed THEN <<Subscribe(Delayer, 1)>>
                                ELSE <<Subscribe(Source, 0)>>
    [] OTHER                 -> <<Subscribe(Source, 0)>>

Options == [leading : BOOLEAN, trailing : BOOLEAN, restart : BOOLEAN, delayed : BOOLEAN]

Init ==
  /\ op \in Ops
  /\ cfg \in Options
  /\ op # "throttle" => cfg.leading /\ cfg.trailing /\ cfg.restart
  /\ op # "delayWhen" => ~cfg.delayed
  /\ st = Start
  /\ InputsInit
  /\ stack = <<[todo |-> Opening, at |-> "run"]>>

-----------------------------------------------------------------------------
Do(s, ends, todo) ==
  /\ st' = s
  /\ aborted' = aborted \cup (ends \ {0})
  /\ Enter(todo)

Ignore == Do(st, {}, <<>>)

TakeUntil(i) ==
  /\ op = "takeUntil"
  /\ Do(st, {}, IF Role(i) = Source THEN <<Value(Here)>> ELSE <<End>>)

SkipUntil(i) ==
  /\ op = "skipUntil"
  /\ IF Role(i) = Source
     THEN Do(st, {}, IF st.taking THEN <<Value(Here)>> ELSE <<>>)
     ELSE Do([st EXCEPT !.taking = TRUE], {1}, <<>>)

Sample(i) ==
  /\ op = "sample"
  /\ IF Role(i) = Source
     THEN Do([st EXCEPT !.has = TRUE, !.p = Here], {}, <<>>)
     ELSE Do([st EXCEPT !.has = FALSE], {}, IF st.has THEN <<Value(st.p)>> ELSE <<>>)

WithLatestFrom(i) ==
  /\ op = "withLatestFrom"
  /\ IF Role(i) = Source
     THEN Do(st, {}, IF st.ready = {1, 2} THEN <<Array(<<Here>> \o st.latest)>> ELSE <<>>)
     ELSE Do([st EXCEPT !.latest[Role(i)] = Here, !.ready = @ \cup {Role(i)}], {}, <<>>)

(* emitPendingValue() *)
Pending(s) == IF s.has THEN <<Value(s.p)>> ELSE <<>>

Debounce(i) ==
  /\ op = "debounce"
  /\ IF Role(i) = Source
     THEN Do([st EXCEPT !.has = TRUE, !.p = Here, !.fresh = @ + 1, !.ctl = st.fresh + 1],
             {st.ctl}, <<Call, Step("time", <<Here>>)>>)
     ELSE Do([st EXCEPT !.has = FALSE, !.ctl = 0],
             IF st.has THEN {st.ctl} ELSE {}, Pending(st))

(* send(): a step of its own restarts the throttle after subscriber.next(). *)
Send(p, restart) ==
  <<Value(p)>> \o (IF restart THEN <<Step("restart", <<p>>)>> ELSE <<>>)

(* endThrottling() *)
EndThrottling(i) ==
  LET s == [st EXCEPT !.ctl = 0]
      trails == cfg.trailing /\ st.has
  IN IF st.ctl # Ctl(i) THEN Ignore
     ELSE Do(IF trails THEN [s EXCEPT !.has = FALSE] ELSE s, {Ctl(i)},
             (IF trails THEN Send(st.p, cfg.restart) ELSE <<>>)
               \o (IF st.done THEN <<End>> ELSE <<>>))

Throttle(i) ==
  /\ op = "throttle"
  /\ IF Role(i) # Source THEN EndThrottling(i)
     ELSE LET s == [st EXCEPT !.has = TRUE, !.p = Here]
          IN IF st.ctl # 0 THEN Do(s, {}, <<>>)
             ELSE IF cfg.leading
             THEN Do([s EXCEPT !.has = FALSE], {},
                     <<Value(Here), Step("restart", <<Here>>)>>)
             ELSE Do(s, {}, <<Step("start", <<Here>>)>>)

(* completeIfDone() comes as a step, after subscriber.next(). *)
SettleDelay(i, emits) ==
  LET p == Role(i) - 2
  IN Do([st EXCEPT !.pending = @ \ {p}], {Ctl(i)},
        (IF emits THEN <<Value(p)>> ELSE <<>>) \o <<Step("finish", <<>>)>>)

StartSource ==
  IF st.taking THEN Ignore
  ELSE Do([st EXCEPT !.taking = TRUE], {1}, <<Subscribe(Source, 0)>>)

DelayWhen(i) ==
  /\ op = "delayWhen"
  /\ CASE Role(i) = Source  -> Do(st, {}, <<Call, Step("delay", <<Here>>)>>)
       [] Role(i) = Delayer -> StartSource
       [] OTHER             -> SettleDelay(i, TRUE)

InputNext(i) ==
  /\ Delivers(i, "next")
  /\ op \in Calm /\ Role(i) = Source => AtRest
  /\ inputs' = inputs
  /\ \/ TakeUntil(i) \/ SkipUntil(i) \/ Sample(i) \/ WithLatestFrom(i)
     \/ Debounce(i) \/ Throttle(i) \/ DelayWhen(i)
  /\ UNCHANGED <<op, cfg, active, out>>

-----------------------------------------------------------------------------
(* complete(): the source's, by operator, and that of the others.           *)
BugTrailingDropped ==
  CASE op = "debounce" -> Do([st EXCEPT !.has = FALSE, !.ctl = 0],
                             IF st.has THEN {st.ctl} ELSE {}, Pending(st) \o <<End>>)
    [] op = "delayWhen" -> Do([st EXCEPT !.done = TRUE], {}, <<Step("finish", <<>>)>>)
    [] OTHER           -> Do(st, {}, <<End>>)

SourceCompletes ==
  CASE op = "debounce" -> Do([st EXCEPT !.has = FALSE, !.ctl = 0],
                             IF st.has THEN {st.ctl} ELSE {}, Pending(st) \o <<End>>)
    [] op = "throttle" -> Do([st EXCEPT !.done = TRUE], {},
                             IF cfg.trailing /\ st.has /\ st.ctl # 0 THEN <<>> ELSE <<End>>)
    [] op = "delayWhen" -> Do([st EXCEPT !.done = TRUE], {}, <<Step("finish", <<>>)>>)
    [] OTHER           -> Do(st, {}, <<End>>)

(* cleanupThrottling() *)
CleanupThrottling(i) ==
  IF st.ctl # Ctl(i) THEN Ignore
  ELSE Do([st EXCEPT !.ctl = 0], {}, IF st.done THEN <<End>> ELSE <<>>)

OtherCompletes(i) ==
  CASE op = "throttle" -> CleanupThrottling(i)
    [] op = "delayWhen" -> IF Role(i) = Delayer THEN StartSource ELSE SettleDelay(i, FALSE)
    [] OTHER           -> Ignore

InputCompletes(i) ==
  /\ Delivers(i, "complete")
  /\ op \in Calm /\ Role(i) = Source => AtRest
  /\ inputs' = Closed(i)
  /\ IF Role(i) = Source THEN SourceCompletes ELSE OtherCompletes(i)
  /\ UNCHANGED <<op, cfg, active, out>>

InputFails(i) ==
  /\ Delivers(i, "error")
  /\ inputs' = Closed(i)
  /\ Do(st, {}, <<Fail>>)
  /\ UNCHANGED <<op, cfg, active, out>>

-----------------------------------------------------------------------------
(* Steps.                                                                   *)
rest == <<op, cfg, inputs, log, active, out>>

(* debounce: the duration joins the controller that is current by now.      *)
TimeValue ==
  /\ Doing("time")
  /\ Proceed(<<Subscribe(Duration(Arg[1]), st.ctl)>>)
  /\ UNCHANGED <<rest, st, aborted>>

(* startThrottle() *)
StartThrottle ==
  /\ Doing("start") \/ Doing("restart")
  /\ IF Doing("restart") /\ (st.done \/ ~active)
     THEN Proceed(<<>>) /\ UNCHANGED st
     ELSE /\ st' = [st EXCEPT !.fresh = @ + 1, !.ctl = st.fresh + 1]
          /\ Proceed(<<Call, Subscribe(Duration(Arg[1]), st.fresh + 1)>>)
  /\ UNCHANGED <<rest, aborted>>

DelayValue ==
  /\ Doing("delay")
  /\ IF active
     THEN /\ st' = [st EXCEPT !.pending = @ \cup {Arg[1]}]
          /\ Proceed(<<Subscribe(Duration(Arg[1]), Duration(Arg[1]))>>)
     ELSE Proceed(<<>>) /\ UNCHANGED st
  /\ UNCHANGED <<rest, aborted>>

CompleteIfDone ==
  /\ Doing("finish")
  /\ Proceed(IF st.done /\ st.pending = {} THEN <<End>> ELSE <<>>)
  /\ UNCHANGED <<rest, st, aborted>>

Next ==
  \/ \E i \in DOMAIN inputs : InputNext(i)
  \/ \E i \in DOMAIN inputs : InputCompletes(i) \/ InputFails(i)
  \/ TimeValue
  \/ StartThrottle
  \/ DelayValue
  \/ CompleteIfDone
  \/ InputsOrdinary /\ UNCHANGED <<op, cfg, st>>

Spec == Init /\ [][Next]_vars

-----------------------------------------------------------------------------
(* The reference: what the notification at position q of the log adds to    *)
(* the result.                                                              *)
Value0(q) == log[q].role = Source /\ log[q].do = "next"

NotifiedIn(p, q) == \E r \in Nexts(Notifier) : p < r /\ r < q

Settled(p, q) == \E r \in 1 .. q : log[r].role = Duration(p) /\ log[r].do # "error"

AllSettled(q) ==
  /\ \E r \in 1 .. q : log[r].role = Source /\ log[r].do = "complete"
  /\ \A p \in Before(q, Source) : Settled(p, q)

(* The value at p is still to be debounced when q comes. *)
Undecided(p, q) ==
  /\ p = Latest(Before(q, Source))
  /\ ~\E r \in p .. q - 1 : r \in Nexts(Duration(p))

Timed(q) ==
  CASE op = "takeUntil" ->
         IF Value0(q) THEN <<Value(q)>> ELSE IF log[q].do = "next" THEN <<End>> ELSE <<>>
    [] op = "skipUntil" ->
         IF Value0(q) /\ Before(q, Notifier) # {} THEN <<Value(q)>> ELSE <<>>
    [] op = "sample" ->
         IF q \in Nexts(Notifier) /\ Before(q, Source) # {}
              /\ ~NotifiedIn(Latest(Before(q, Source)), q)
         THEN <<Value(Latest(Before(q, Source)))>> ELSE <<>>
    [] op = "withLatestFrom" ->
         IF Value0(q) /\ \A r \in 1 .. 2 : Before(q, r) # {}
         THEN <<Array(<<q>> \o [r \in 1 .. 2 |-> Latest(Before(q, r))])>>
         ELSE <<>>
    [] op = "debounce" ->
         IF ~Value0(q) /\ \E p \in Before(q, Source) :
              /\ Undecided(p, q)
              /\ q \in Nexts(Duration(p)) \/ log[q] = [role |-> Source, do |-> "complete"]
         THEN <<Value(Latest(Before(q, Source)))>> ELSE <<>>
    [] op = "delayWhen" ->
         (IF log[q].role > 2 /\ log[q].do = "next" THEN <<Value(log[q].role - 2)>> ELSE <<>>)
           \o (IF AllSettled(q) THEN <<End>> ELSE <<>>)

Ends(q) ==
  CASE log[q].do = "error" -> <<Fail>>
    [] log[q].do = "complete" /\ log[q].role = Source /\ op # "delayWhen" -> <<End>>
    [] OTHER -> <<>>

Expected == FlattenSeq([q \in DOMAIN log |-> Timed(q) \o Ends(q)])

-----------------------------------------------------------------------------
(* Properties.                                                              *)

TypeOK == InputsTypeOK /\ op \in Ops /\ cfg \in Options

(* Whatever the order in which source, notifiers and durations answer, and  *)
(* however deep inside each other, the observer is given what that order    *)
(* says: util/observable-helpers.ts:13 and the handlers of each operator.   *)
GivesWhatItShould ==
  op # "throttle" =>
    /\ IsPrefix(out, Expected)
    /\ Quiet /\ ~Left => out = Expected

(* throttle.ts:56: no more than one duration runs, and its controller is    *)
(* the one that a new value looks at.                                       *)
OneThrottle ==
  op = "throttle" =>
    \A i \in DOMAIN inputs : Role(i) # Source /\ Live(i) => Ctl(i) = st.ctl

(* throttle.ts:81: a value is sent once, and values in their order.         *)
SentInOrder ==
  op = "throttle" =>
    LET given == SelectSeq(out, LAMBDA s : s.do = "next")
    IN \A i, j \in DOMAIN given : i < j => given[i].arg[1] < given[j].arg[1]

(* throttle.ts:105: with trailing, the source's completion does not lose    *)
(* the value that waits for the end of a throttle that is running: the      *)
(* result goes on until that duration is over.                              *)
TrailingSurvives ==
  op = "throttle" /\ cfg.trailing /\ Ended /\ Last(out) = End =>
    ~\E i \in DOMAIN inputs :
        Role(i) # Source /\ inputs[i].on /\ Ctl(i) \notin aborted /\ st.has
=============================================================================
