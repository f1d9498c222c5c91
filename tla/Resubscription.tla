--------------------------- MODULE Resubscription ---------------------------
(***************************************************************************)
(* The operators that subscribe to their source again: catchError (whose   *)
(* selector may return the result itself), retry, retryWhen, repeat and    *)
(* repeatWhen.  A source may fail or complete inside subscribe(), before   *)
(* the attempt before it has returned; a notifier, inside what it is told. *)
(***************************************************************************)
EXTENDS Inputs

CONSTANTS
  Ops,    (* the operators of this instance                               *)
  Calm,   (* those whose notifier does not answer inside its subscription *)
  Counts  (* the counts of retry and repeat                               *)

VARIABLES
  op,   (* the operator                                                   *)
  cfg,  (* its options                                                    *)
  st    (* what its handlers close over                                   *)

vars == <<op, cfg, st, inputs, aborted, log, active, out, stack>>

Source == 0

Other == 1  (* a notifier, or what catchError goes on with *)

Options ==
  [count : Counts, delay : {"none", "time", "notifier"}, reset : BOOLEAN]

(* left is retriesRemaining; busy, sourceSubscribeInProgress or draining;   *)
(* asked, restartRequested or sourceRequested; hooked, there is a notifier. *)
Start ==
  [left |-> cfg.count, times |-> 0, pending |-> 1, busy |-> FALSE, asked |-> FALSE,
   waiting |-> FALSE, hooked |-> FALSE, over |-> FALSE, timer |-> FALSE]

Attempt == Step("attempt", <<>>)

Tell == Step("tell", <<>>)

Init ==
  /\ op \in Ops
  /\ cfg \in Options
  /\ op \notin {"retry", "repeat"} => cfg.count = 0 /\ cfg.delay = "none"
  /\ op # "retry" => ~cfg.reset
  /\ st = Start
  /\ InputsInit
  /\ stack = <<[todo |-> IF op = "repeat" /\ cfg.count = 0 THEN <<End>> ELSE <<Attempt>>,
                at |-> "run"]>>

-----------------------------------------------------------------------------
(* Handlers.                                                                *)

NewCtl == Len(inputs) + 1  (* new AbortController() *)

Given(i) ==
  /\ Role(i) = Source \/ op = "catchError"
  /\ st' = IF cfg.reset THEN [st EXCEPT !.left = cfg.count] ELSE st
  /\ Enter(<<Value(Here)>>)
  /\ UNCHANGED aborted

(* The notifier of retry and repeat is left before the source is tried.     *)
Again(i) ==
  /\ Role(i) = Other /\ op \in {"retry", "repeat"}
  /\ aborted' = aborted \cup {Ctl(i)}
  /\ Enter(<<Attempt>>)
  /\ UNCHANGED st

(* requestAttempt(): each value of retryWhen's notifier is an attempt.      *)
OneMore(i) ==
  /\ Role(i) = Other /\ op = "retryWhen"
  /\ st' = [st EXCEPT !.pending = @ + 1]
  /\ Enter(<<Attempt>>)
  /\ UNCHANGED aborted

(* repeatWhen's notifier is heeded between a completion and the attempt     *)
(* that it asks for.                                                        *)
Requested(i) ==
  /\ Role(i) = Other /\ op = "repeatWhen"
  /\ Enter(IF st.waiting /\ ~st.asked THEN <<Attempt>> ELSE <<>>)
  /\ UNCHANGED <<st, aborted>>

(* Before retryWhen's notifier is in place, it does not answer. *)
Calmly(i) == op \in Calm /\ Role(i) = Other => st.hooked

InputNext(i) ==
  /\ Delivers(i, "next")
  /\ Calmly(i)
  /\ Given(i) \/ Again(i) \/ OneMore(i) \/ Requested(i)
  /\ UNCHANGED <<op, cfg, inputs, active, out>>

(* What comes between two attempts of retry and repeat.                     *)
Delay == CASE cfg.delay = "none" -> <<Attempt>>
           [] cfg.delay = "notifier" -> <<Call, Subscribe(Other, NewCtl)>>
           [] OTHER -> <<>>

Retry ==
  /\ op = "retry"
  /\ IF st.left > 0
     THEN /\ st' = [st EXCEPT !.left = @ - 1, !.timer = cfg.delay = "time"]
          /\ Enter(Delay)
     ELSE UNCHANGED st /\ Enter(<<Fail>>)

CatchError ==
  /\ op = "catchError"
  /\ Enter(<<Call, Step("reply", <<>>)>>)
  /\ UNCHANGED st

RetryWhen ==
  /\ op = "retryWhen"
  /\ Enter(IF st.hooked THEN <<Tell>>
           ELSE <<Call, Subscribe(Other, 0), Step("hooked", <<>>), Tell>>)
  /\ UNCHANGED st

SourceFails(i) ==
  /\ aborted' = aborted \cup ({Ctl(i)} \ {0})
  /\ \/ Retry \/ CatchError \/ RetryWhen
     \/ op \in {"repeat", "repeatWhen"} /\ Enter(<<Fail>>) /\ UNCHANGED st

InputFails(i) ==
  /\ Delivers(i, "error")
  /\ Calmly(i)
  /\ inputs' = Closed(i)
  /\ IF Role(i) = Source THEN SourceFails(i)
     ELSE Enter(<<Fail>>) /\ UNCHANGED <<st, aborted>>
  /\ UNCHANGED <<op, cfg, active, out>>

Repeat ==
  /\ op = "repeat"
  /\ IF st.times >= cfg.count
     THEN Enter(<<End>>) /\ UNCHANGED st
     ELSE /\ st' = [st EXCEPT !.timer = cfg.delay = "time"]
          /\ Enter(Delay)

RepeatWhen ==
  /\ op = "repeatWhen"
  /\ st' = [st EXCEPT !.waiting = TRUE, !.hooked = ~st.over]
  /\ Enter(CASE st.over -> <<End>>
             [] st.hooked -> <<Tell>>
             [] OTHER -> <<Call, Subscribe(Other, 0), Tell>>)

SourceCompletes ==
  \/ Repeat \/ RepeatWhen
  \/ op \in {"catchError", "retry", "retryWhen"} /\ Enter(<<End>>) /\ UNCHANGED st

OtherCompletes ==
  IF op = "repeatWhen"
  THEN st' = [st EXCEPT !.over = TRUE] /\ Enter(IF st.waiting THEN <<End>> ELSE <<>>)
  ELSE Enter(<<End>>) /\ UNCHANGED st

InputCompletes(i) ==
  /\ Delivers(i, "complete")
  /\ Calmly(i)
  /\ inputs' = Closed(i)
  /\ IF Role(i) = Source THEN SourceCompletes ELSE OtherCompletes
  /\ UNCHANGED <<op, cfg, aborted, active, out>>

TimerFires ==
  /\ Quiet /\ active /\ st.timer
  /\ st' = [st EXCEPT !.timer = FALSE]
  /\ Enter(<<Attempt>>)
  /\ UNCHANGED <<op, cfg, inputs, aborted, log, active, out>>

-----------------------------------------------------------------------------
(* Steps.                                                                   *)
rest == <<op, cfg, inputs, aborted, log, active, out>>

Trampolined == op \in {"catchError", "retryWhen", "repeatWhen"}

(* Asked for while another attempt is in the source's code, an attempt is   *)
(* made by that one's loop.                                                 *)
Try ==
  /\ Doing("attempt")
  /\ CASE ~active -> Proceed(<<>>) /\ UNCHANGED st
       [] active /\ ~Trampolined ->
            /\ st' = [st EXCEPT !.times = @ + 1]
            /\ Proceed(<<Subscribe(Source, IF op = "retry" THEN NewCtl ELSE 0)>>)
       [] active /\ Trampolined /\ st.busy ->
            /\ st' = [st EXCEPT !.asked = TRUE]
            /\ Proceed(<<>>)
       [] OTHER ->
            /\ st' = [st EXCEPT !.busy = TRUE, !.asked = FALSE, !.waiting = FALSE,
                                !.pending = @ - 1]
            /\ Proceed(<<Subscribe(Source, IF op = "repeatWhen" THEN 0 ELSE NewCtl),
                         Step("returned", <<>>)>>)
  /\ UNCHANGED rest

(* subscribe() of the source has returned. *)
Returned ==
  /\ Doing("returned")
  /\ st' = [st EXCEPT !.busy = FALSE]
  /\ Proceed(IF (op = "retryWhen" /\ st.pending > 0) \/ (op # "retryWhen" /\ st.asked)
             THEN <<Attempt>> ELSE <<>>)
  /\ UNCHANGED rest

(* catchError's selector returns the result itself, or another source.      *)
Reply ==
  /\ Doing("reply")
  /\ IF active THEN \E todo \in {<<Attempt>>, <<Subscribe(Other, 0)>>} : Proceed(todo)
     ELSE Proceed(<<>>)
  /\ UNCHANGED <<rest, st>>

Hooked ==
  /\ Doing("hooked")
  /\ st' = [st EXCEPT !.hooked = active]
  /\ Proceed(<<>>)
  /\ UNCHANGED rest

(* errors.next(), completions.next(). *)
TellNotifier ==
  /\ Doing("tell")
  /\ IF active /\ st.hooked /\ ~st.over THEN Await(<<>>) ELSE Proceed(<<>>)
  /\ UNCHANGED <<rest, st>>

Next ==
  \/ \E i \in DOMAIN inputs : InputNext(i)
  \/ \E i \in DOMAIN inputs : InputCompletes(i) \/ InputFails(i)
  \/ TimerFires
  \/ Try
  \/ Returned
  \/ Reply
  \/ Hooked
  \/ TellNotifier
  \/ InputsOrdinary /\ UNCHANGED <<op, cfg, st>>

Spec == Init /\ [][Next]_vars

-----------------------------------------------------------------------------
(* The reference: what the log says.                                        *)
Positions(role, kind) == {p \in DOMAIN log : log[p].role = role /\ log[p].do = kind}

Happened(role, kind) == Positions(role, kind) # {}

Passed ==
  SelectSeq([p \in DOMAIN log |-> p],
            LAMBDA p : log[p].do = "next" /\ (log[p].role = Source \/ op = "catchError"))

(* The errors of the source since its last value, if that counts.           *)
FailuresInRow ==
  {p \in Positions(Source, "error") :
     cfg.reset => \A q \in Positions(Source, "next") : q < p}

Attempts == {i \in DOMAIN inputs : Role(i) = Source}

Exhausted ==
  /\ op = "retry" /\ log # <<>> /\ Last(log) = [role |-> Source, do |-> "error"]
  /\ Cardinality(FailuresInRow) > cfg.count

Over ==
  CASE op = "repeat" ->
         Happened(Other, "complete") \/ Cardinality(Positions(Source, "complete")) >= cfg.count
    [] op = "repeatWhen" ->
         /\ Happened(Other, "complete")
         /\ Cardinality(Positions(Source, "complete")) = Cardinality(Attempts)
    [] OTHER -> Happened(Source, "complete") \/ Happened(Other, "complete")

Conclusion ==
  CASE Happened(User, "error") \/ Happened(Other, "error") \/ Exhausted -> <<Fail>>
    [] op \in {"repeat", "repeatWhen"} /\ Happened(Source, "error") -> <<Fail>>
    [] Over -> <<End>>
    [] OTHER -> <<>>

-----------------------------------------------------------------------------
(* Properties.                                                              *)

TypeOK ==
  /\ InputsTypeOK
  /\ op \in Ops /\ cfg \in Options
  /\ st.left \in Nat /\ st.times \in Nat

(* catch-error.ts:41, retry.ts:49, repeat.ts:41: the observer is given the  *)
(* values of all attempts in their order, and the end that the last of them *)
(* or the notifier came to; retry gives up after `count` failures in a row, *)
(* repeat after `count` completions.                                        *)
GivesWhatItShould ==
  Quiet /\ ~Left => out = Values(Passed) \o Conclusion

(* catch-error.ts:30, retry.ts:31, repeat-when.ts:26: the attempts are made *)
(* one after the other: two are never live at a time, wherever the source   *)
(* ended and the notifier answered.                                         *)
OneAttempt ==
  op # "retryWhen" => Cardinality({i \in Attempts : Live(i)}) <= 1

(* retry-when.ts:76: each value of the notifier is one attempt; it is told  *)
(* of every error through one stream.  repeat-when.ts:55: a value that the  *)
(* notifier sends while the result waits is an attempt, also if it is sent  *)
(* inside the subscription that completed.                                  *)
EveryAttemptMade ==
  Quiet /\ active =>
    CASE op = "retryWhen" ->
           /\ Cardinality(Attempts) = 1 + Cardinality(Positions(Other, "next"))
           /\ Cardinality({i \in DOMAIN inputs : Role(i) = Other}) <= 1
      [] op = "repeatWhen" ->
           st.waiting => \A p \in Positions(Other, "next") :
                           \E q \in Positions(Source, "complete") : q > p
      [] OTHER -> TRUE

(* A result that goes on waits for a live input, or for its timer.          *)
NeverStranded ==
  Quiet /\ active => st.timer \/ \E i \in DOMAIN inputs : Live(i)
=============================================================================
