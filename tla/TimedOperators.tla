--------------------------- MODULE TimedOperators ---------------------------
(***************************************************************************)
(* The operators that wait for a clock: timeout, delay, observeOn,         *)
(* subscribeOn, sampleTime, timer, interval and animationFrames, and those *)
(* that only read one, timeInterval and timestamp.  A timer fires when no  *)
(* code is running.  Its firing is in the log, as a value of the Clock;    *)
(* the length of the log is what the clock shows.                          *)
(***************************************************************************)
EXTENDS Inputs

CONSTANT Ops  (* the operators of this instance *)

VARIABLES
  op,    (* the operator                                                   *)
  cfg,   (* its options                                                    *)
  st     (* what its handlers close over                                   *)

vars == <<op, cfg, st, inputs, aborted, log, active, out, stack>>

Source == 0

Other == 1   (* what timeout goes on with *)

Clock == 8

(* each of timeout; timer's interval compared with its delay; a delay of    *)
(* Infinity.                                                                *)
Options == [each : BOOLEAN, interval : {"none", "same", "other"}, never : BOOLEAN]

(* n counts values; latest is what sampleTime has, or 0; queue is what the  *)
(* timers of delay and observeOn hold; late, there is a timer that was set  *)
(* after the teardowns that clear it.                                       *)
Start == [armed |-> op \in {"timer", "interval"} \/ (op = "subscribeOn" /\ ~cfg.never),
          late |-> FALSE, n |-> 0, latest |-> 0, queue |-> <<>>, over |-> FALSE, last |-> 0]

Arm == Step("arm", <<>>)

Now(p) == Step("now", <<p>>)  (* for the value at p, or 0 *)

Opening ==
  CASE op = "timeout"         -> <<Subscribe(Source, 1), Step("first", <<>>)>>
    [] op = "sampleTime"      -> <<Subscribe(Source, 0), Arm>>
    [] op = "timeInterval"    -> <<Call, Now(0), Subscribe(Source, 0)>>
    [] op = "animationFrames" -> <<Call, Now(0), Arm>>
    [] op \in {"delay", "observeOn", "timestamp"} -> <<Subscribe(Source, 0)>>
    [] OTHER                  -> <<>>

Init ==
  /\ op \in Ops
  /\ cfg \in Options
  /\ op # "timeout" => ~cfg.each
  /\ op # "timer" => cfg.interval = "none"
  /\ op \notin {"observeOn", "subscribeOn"} => ~cfg.never
  /\ st = Start
  /\ InputsInit
  /\ stack = Frames(Opening, "run", <<>>)

-----------------------------------------------------------------------------
(* Handlers.                                                                *)

(* The timer is off before the observer is told, and set again if it stays. *)
TimeoutNext(i) ==
  IF Role(i) = Source
  THEN /\ st' = [st EXCEPT !.armed = FALSE, !.n = @ + 1]
       /\ Enter(<<Value(Here)>> \o IF cfg.each THEN <<Arm>> ELSE <<>>)
  ELSE UNCHANGED st /\ Enter(<<Value(Here)>>)

(* observeOn's schedule(); delay holds values only. *)
Schedule(step) ==
  /\ st' = [st EXCEPT !.queue = IF cfg.never THEN @ ELSE Append(@, step)]
  /\ Enter(<<>>)

InputNext(i) ==
  /\ Delivers(i, "next")
  /\ CASE op = "timeout" -> TimeoutNext(i)
       [] op \in {"delay", "observeOn"} -> Schedule(Value(Here))
       [] op = "sampleTime" -> st' = [st EXCEPT !.latest = Here] /\ Enter(<<>>)
       [] op \in {"timeInterval", "timestamp"} -> UNCHANGED st /\ Enter(<<Call, Now(Here)>>)
       [] OTHER -> UNCHANGED st /\ Enter(<<Value(Here)>>)
  /\ UNCHANGED <<op, cfg, inputs, aborted, active, out>>

Disarmed == IF op = "timeout" THEN [st EXCEPT !.armed = FALSE] ELSE st

InputFails(i) ==
  /\ Delivers(i, "error")
  /\ inputs' = Closed(i)
  /\ IF op = "observeOn" THEN Schedule(Fail) ELSE st' = Disarmed /\ Enter(<<Fail>>)
  /\ UNCHANGED <<op, cfg, aborted, active, out>>

InputCompletes(i) ==
  /\ Delivers(i, "complete")
  /\ inputs' = Closed(i)
  /\ CASE op = "observeOn" -> Schedule(End)
       [] op = "delay" -> /\ st' = [st EXCEPT !.over = TRUE]
                          /\ Enter(<<Step("settle", <<>>)>>)
       [] OTHER -> st' = Disarmed /\ Enter(<<End>>)
  /\ UNCHANGED <<op, cfg, aborted, active, out>>

Armed == (active /\ (st.armed \/ st.queue # <<>>)) \/ st.late

(* timeout leaves the source for good before it asks what to go on with.    *)
GivesUp ==
  /\ st' = [st EXCEPT !.armed = FALSE]
  /\ aborted' = aborted \cup {1}
  /\ Enter(<<Call, Subscribe(Other, 0)>>)

FromQueue ==
  /\ st' = [st EXCEPT !.queue = Tail(@)]
  /\ Enter(<<Head(st.queue)>> \o IF op = "delay" THEN <<Step("settle", <<>>)>> ELSE <<>>)

Sample ==
  /\ st' = [st EXCEPT !.latest = 0]
  /\ Enter(IF st.latest # 0 THEN <<Value(st.latest)>> ELSE <<>>)

Counts ==
  /\ st' = [st EXCEPT !.n = @ + 1]
  /\ Enter(<<Value(st.n)>> \o IF op = "timer" /\ st.n = 0 THEN <<Step("again", <<>>)>>
                              ELSE <<>>)

Fires ==
  /\ Quiet /\ Armed
  /\ active
  /\ Len(log) < MaxLog
  /\ log' = Append(log, [role |-> Clock, do |-> "next"])
  /\ IF op = "timeout" THEN GivesUp
     ELSE /\ CASE op \in {"delay", "observeOn"} -> FromQueue
               [] op = "sampleTime" -> Sample
               [] op = "subscribeOn" -> /\ st' = [st EXCEPT !.armed = FALSE]
                                        /\ Enter(<<Subscribe(Source, 0)>>)
               [] op = "animationFrames" -> /\ st' = [st EXCEPT !.armed = FALSE]
                                            /\ Enter(<<Call, Now(Here), Arm>>)
               [] OTHER -> Counts
          /\ UNCHANGED aborted
  /\ UNCHANGED <<op, cfg, inputs, active, out>>

-----------------------------------------------------------------------------
(* Steps.                                                                   *)
rest == <<op, cfg, inputs, aborted, log, active, out>>

SetTimer == st' = [st EXCEPT !.armed = TRUE, !.late = ~active]

ArmAgain ==
  /\ Doing("arm")
  /\ IF active THEN SetTimer ELSE UNCHANGED st
  /\ Proceed(<<>>)
  /\ UNCHANGED rest

(* timeout's first timer, unless the source has emitted inside subscribe(). *)
ArmFirst ==
  /\ Doing("first")
  /\ IF active /\ st.n = 0 THEN SetTimer ELSE UNCHANGED st
  /\ Proceed(<<>>)
  /\ UNCHANGED rest

(* After the first value timer completes, goes on, or sets another timer;   *)
(* without a look at whether the observer has left.                         *)
TimerAgain ==
  /\ Doing("again")
  /\ IF cfg.interval = "other" THEN SetTimer ELSE UNCHANGED st
  /\ Proceed(IF cfg.interval = "none" THEN <<End>> ELSE <<>>)
  /\ UNCHANGED rest

(* now() has returned. *)
ReadClock ==
  /\ Doing("now")
  /\ LET now == Len(log)
     IN /\ st' = IF op = "timeInterval" \/ Arg[1] = 0 THEN [st EXCEPT !.last = now] ELSE st
        /\ Proceed(IF Arg[1] = 0 THEN <<>> ELSE <<Array(<<Arg[1], now - st.last>>)>>)
  /\ UNCHANGED rest

(* delay's completeIfSettled() *)
CompleteIfSettled ==
  /\ Doing("settle")
  /\ Proceed(IF st.over /\ st.queue = <<>> THEN <<End>> ELSE <<>>)
  /\ UNCHANGED <<rest, st>>

Next ==
  \/ \E i \in DOMAIN inputs : InputNext(i)
  \/ \E i \in DOMAIN inputs : InputFails(i) \/ InputCompletes(i)
  \/ Fires
  \/ ArmAgain
  \/ ArmFirst
  \/ TimerAgain
  \/ ReadClock
  \/ CompleteIfSettled
  \/ InputsOrdinary /\ UNCHANGED <<op, cfg, st>>

Spec == Init /\ [][Next]_vars

-----------------------------------------------------------------------------
(* The reference: what the log says.                                        *)
Ticks == Cardinality(Nexts(Clock))

Happened(roles, kind) == \E p \in DOMAIN log : log[p].role \in roles /\ log[p].do = kind

Came(roles) == SelectSeq([p \in DOMAIN log |-> p],
                         LAMBDA p : log[p].role \in roles /\ log[p].do = "next")

First(k, seq) == SubSeq(seq, 1, IF k < Len(seq) THEN k ELSE Len(seq))

Conclusion ==
  CASE Happened({Source, Other, User}, "error") -> <<Fail>>
    [] Happened({Source, Other}, "complete")
       /\ (op = "delay" => Ticks = Cardinality(Nexts(Source))) -> <<End>>
    [] OTHER -> <<>>

(* The value that the tick at p finds: the latest since the one before.     *)
SampledAt(p) ==
  LET since == {q \in Before(p, Source) : \A r \in Before(p, Clock) : r < q}
  IN IF since = {} THEN <<>> ELSE <<Value(Latest(since))>>

SourceSteps ==
  LET told == SelectSeq([p \in DOMAIN log |-> p], LAMBDA p : log[p].role = Source)
  IN [k \in DOMAIN told |-> CASE log[told[k]].do = "next"  -> Value(told[k])
                              [] log[told[k]].do = "error" -> Fail
                              [] OTHER                     -> End]

ClockValues == [k \in 1 .. Ticks |-> Value(k - 1)]

Expected ==
  CASE op \in {"timeout", "subscribeOn"} -> Values(Came({Source, Other})) \o Conclusion
    [] op = "delay" -> Values(First(Ticks, Came({Source}))) \o Conclusion
    [] op = "observeOn" -> First(Ticks, SourceSteps)
    [] op = "sampleTime" ->
         FlattenSeq([k \in DOMAIN log |-> IF k \in Nexts(Clock) THEN SampledAt(k) ELSE <<>>])
         \o Conclusion
    [] OTHER ->
         ClockValues \o IF op = "timer" /\ cfg.interval = "none" /\ Ticks > 0 THEN <<End>>
                        ELSE <<>>

Stamps == SelectSeq(out, LAMBDA s : s.do = "next")

-----------------------------------------------------------------------------
(* Properties.                                                              *)

TypeOK ==
  /\ InputsTypeOK
  /\ op \in Ops /\ cfg \in Options
  /\ st.armed \in BOOLEAN /\ st.late \in BOOLEAN
  /\ st.queue \in Seq({Value(p) : p \in 1 .. MaxLog} \cup {Fail, End})

ReadsClock == op \in {"timeInterval", "timestamp", "animationFrames"}

(* timeout.ts:50, delay.ts:26, sample-time.ts:27: the observer is given what *)
(* the order of the ticks and of the source's notifications says: delay and  *)
(* observeOn keep the order, delay passes an error at once, and timeout      *)
(* gives nothing of the source once its timer has fired.                     *)
GivesWhatItShould ==
  Quiet /\ ~Left /\ ~ReadsClock => out = Expected

(* timeout.ts:106, timer.ts:22, animation-frames.ts:44: a timer runs when it *)
(* should, and none is left once the result has ended or been left, whatever *)
(* the observer did when it was told (but timer, whose observer leaves       *)
(* inside the first value, sets one that nothing clears).                    *)
TimersMatch ==
  Quiet =>
    /\ op = "timeout" /\ active /\ aborted = {} => (st.armed <=> st.n = 0 \/ cfg.each)
    /\ op = "animationFrames" /\ active => st.armed
    /\ st.late => op = "timer" /\ cfg.interval = "other" /\ Left /\ Len(out) = 1

(* A result that goes on waits for a live input, or for a timer.            *)
NeverStranded ==
  Quiet /\ active /\ ~cfg.never => Armed \/ \E i \in DOMAIN inputs : Live(i)

(* time-interval.ts:36: the intervals add up to the time since the start,   *)
(* also when now() makes the source emit; each value is stamped once, and   *)
(* the stamps do not go back.  animationFrames gives each frame its value.  *)
StampsRight ==
  ReadsClock =>
    LET given == [k \in DOMAIN Stamps |-> Stamps[k].arg[2]]
        role == IF op = "animationFrames" THEN Clock ELSE Source
    IN /\ Quiet /\ active => {Stamps[k].arg[1] : k \in DOMAIN Stamps} = Nexts(role)
       /\ Quiet /\ active /\ op = "timeInterval" => st.last = FoldLeft(+, 0, given)
       /\ op # "timeInterval" => \A k \in DOMAIN given : k > 1 => given[k - 1] <= given[k]
=============================================================================
