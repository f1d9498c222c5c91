---------------------------- MODULE Finalization ----------------------------
(***************************************************************************)
(* The operators that promise to call a function of the user's when all is *)
(* over: tap, finalize and fromEventPattern; and generate, which promises  *)
(* to stop calling its own.  A teardown runs when the Subscriber becomes   *)
(* inactive, before the observer is told of an end; each of the functions  *)
(* may throw, leave, or make the source emit.                              *)
(***************************************************************************)
EXTENDS Inputs

CONSTANT Ops  (* the operators of this instance *)

VARIABLES
  op,   (* the operator                    *)
  st    (* what its handlers close over    *)

vars == <<op, st, inputs, aborted, log, active, out, stack>>

Source == 0

Functions ==
  {"onSubscribe", "onNext", "onError", "onComplete", "onUnsubscribe", "onFinalize",
   "add", "remove", "select", "condition", "result", "iterate"}

(* over is sourceTerminated; hooked, the teardown has been added; complete, *)
(* ok, pending and removed are those of the registration.  told and threw   *)
(* are history: the functions called, or "left", and those that threw.      *)
Start ==
  [over |-> FALSE, finalized |-> FALSE, hooked |-> op # "tap", complete |-> FALSE,
   ok |-> FALSE, pending |-> FALSE, removed |-> FALSE, told |-> <<>>, threw |-> {}]

Do(name) == Step(name, <<>>)

Opening ==
  CASE op = "tap"              -> <<Do("onSubscribe"), Do("hook"), Subscribe(Source, 0)>>
    [] op = "finalize"         -> <<Subscribe(Source, 0)>>
    [] op = "fromEventPattern" -> <<Do("add"), Do("registered")>>
    [] op = "generate"         -> <<Do("loop")>>

Init ==
  /\ op \in Ops
  /\ st = Start
  /\ InputsInit
  /\ stack = Frames(Opening, "run", <<>>)

Tapped(name) == IF op = "tap" THEN <<Do(name)>> ELSE <<>>

-----------------------------------------------------------------------------
(* Handlers.                                                                *)

InputNext(i) ==
  /\ Delivers(i, "next")
  /\ Enter(Tapped("onNext") \o <<Value(Here)>>)
  /\ UNCHANGED <<op, st, inputs, aborted, active, out>>

SourceEnds(i, kind, hook, end) ==
  /\ Delivers(i, kind)
  /\ inputs' = Closed(i)
  /\ st' = [st EXCEPT !.over = TRUE]
  /\ Enter(Tapped(hook) \o <<end, Do("onFinalize")>>)
  /\ UNCHANGED <<op, aborted, active, out>>

InputEnds(i) ==
  SourceEnds(i, "error", "onError", Fail) \/ SourceEnds(i, "complete", "onComplete", End)

(* fromEventPattern's handler, once addHandler has been given it.           *)
HandlerCalled ==
  /\ UserTurn
  /\ op = "fromEventPattern" /\ "add" \in Range(st.told) /\ active
  /\ Len(log) < MaxLog
  /\ log' = Append(log, [role |-> Source, do |-> "next"])
  /\ Enter(<<Do("select"), Value(Here)>>)
  /\ UNCHANGED <<op, st, inputs, aborted, active, out>>

(* The observer leaves: the teardown runs at once.                          *)
Leave ==
  /\ UserTurn /\ active
  /\ active' = FALSE
  /\ st' = [st EXCEPT !.told = Append(@, "left")]
  /\ Enter(<<Do("teardown")>>)
  /\ UNCHANGED <<op, inputs, aborted, log, out>>

-----------------------------------------------------------------------------
(* Steps.                                                                   *)
rest == <<op, inputs, aborted, log, out>>

(* error(), complete(): the teardown, and then the observer.                *)
EndResult ==
  /\ Doing("error") \/ Doing("complete")
  /\ active' = FALSE
  /\ Proceed(IF active THEN <<Do("teardown"), Do(IF Doing("error") THEN "fails" ELSE "ends")>>
             ELSE <<>>)
  /\ UNCHANGED <<rest, st>>

TellEnd ==
  /\ Doing("fails") \/ Doing("ends")
  /\ out' = Append(out, IF Doing("fails") THEN Fail ELSE End)
  /\ Await(<<>>)
  /\ UNCHANGED <<op, st, inputs, aborted, log, active>>

GiveValue == Doing("next") /\ Notify /\ UNCHANGED <<op, st, inputs, aborted, log>>

(* After an end of the source it is for its handler to finalize.            *)
Teardown ==
  /\ Doing("teardown")
  /\ Proceed(CASE op = "fromEventPattern" -> <<Do("remove")>>
               [] op = "generate" \/ ~st.hooked \/ st.over -> <<>>
               [] OTHER -> IF op = "tap" THEN <<Do("onUnsubscribe")>> ELSE <<Do("onFinalize")>>)
  /\ UNCHANGED <<rest, active, st>>

(* addTeardown(): at once, if the observer has left by now. *)
Hook ==
  /\ Doing("hook")
  /\ st' = [st EXCEPT !.hooked = TRUE]
  /\ Proceed(IF active THEN <<>> ELSE <<Do("teardown")>>)
  /\ UNCHANGED <<rest, active>>

(* Whether remove() has a handler to remove by now; if not, it may be noted *)
(* for when addHandler returns.                                             *)
Skipped ==
  \/ Doing("onFinalize") /\ st.finalized
  \/ Doing("remove") /\ (st.removed \/ ~st.complete \/ ~st.ok)

Skip ==
  /\ Skipped
  /\ st' = [st EXCEPT !.pending = @ \/ (Doing("remove") /\ ~st.removed /\ ~st.complete)]
  /\ Proceed(<<>>)
  /\ UNCHANGED <<rest, active>>

Calling(s) ==
  /\ \E f \in Functions : Doing(f)
  /\ ~Skipped
  /\ st' = [s EXCEPT !.told = Append(@, Head(Top.todo).do),
                     !.finalized = @ \/ Doing("onFinalize"),
                     !.removed = @ \/ Doing("remove")]

CallFunction ==
  /\ Calling(st)
  /\ Await(IF Doing("onUnsubscribe") THEN <<Do("onFinalize")>> ELSE <<>>)
  /\ UNCHANGED <<rest, active>>

(* tap's unsubscribe and finalize, and removeHandler, throw to whoever runs *)
(* the teardown; the others end the result.                                 *)
FunctionThrows ==
  /\ Len(log) < MaxLog
  /\ log' = Append(log, [role |-> User, do |-> "error"])
  /\ Calling([st EXCEPT !.threw = @ \cup {Head(Top.todo).do},
                        !.complete = @ \/ Doing("add")])
  /\ CASE Doing("onUnsubscribe") \/ Doing("onFinalize") \/ Doing("remove") -> Proceed(<<>>)
       [] Doing("onError") \/ Doing("onComplete") -> Abandon(<<Fail, Do("onFinalize")>>)
       [] OTHER -> Abandon(<<Fail>>)
  /\ UNCHANGED <<op, inputs, aborted, active, out>>

Registered ==
  /\ Doing("registered")
  /\ st' = [st EXCEPT !.complete = TRUE, !.ok = TRUE]
  /\ Proceed(IF st.pending THEN <<Do("remove")>> ELSE <<>>)
  /\ UNCHANGED <<rest, active>>

(* generate's loop: condition, result, the value, iterate.                  *)
Loop ==
  /\ Doing("loop")
  /\ Proceed(IF active THEN <<Do("condition"), Do("decide")>> ELSE <<>>)
  /\ UNCHANGED <<rest, active, st>>

Decide ==
  /\ Doing("decide")
  /\ \/ Proceed(<<End>>) /\ UNCHANGED log
     \/ /\ Len(log) < MaxLog
        /\ log' = Append(log, [role |-> Source, do |-> "next"])
        /\ Proceed(<<Do("result"), Value(Here), Do("further")>>)
  /\ UNCHANGED <<op, inputs, aborted, out, active, st>>

Further ==
  /\ Doing("further")
  /\ Proceed(IF active THEN <<Do("iterate"), Do("loop")>> ELSE <<>>)
  /\ UNCHANGED <<rest, active, st>>

Next ==
  \/ \E i \in DOMAIN inputs : InputNext(i) \/ InputEnds(i)
  \/ HandlerCalled
  \/ Leave
  \/ EndResult
  \/ TellEnd
  \/ GiveValue
  \/ Teardown
  \/ Hook
  \/ Skip
  \/ CallFunction
  \/ FunctionThrows
  \/ Registered
  \/ Loop
  \/ Decide
  \/ Further
  \/ SubscribeInput /\ UNCHANGED <<op, st>>
  \/ CallbackEnds /\ UNCHANGED <<op, st, inputs, aborted, log>>

Spec == Init /\ [][Next]_vars

-----------------------------------------------------------------------------
(* Properties.                                                              *)

TypeOK ==
  /\ InputsTypeOK
  /\ op \in Ops
  /\ st.threw \subseteq Functions
  /\ st.told \in Seq(Functions \cup {"left"})

Calls(f) == {k \in DOMAIN st.told : st.told[k] = f}

SourceEnded == \E p \in DOMAIN log : log[p].role = Source /\ log[p].do # "next"

(* finalize.ts:16, tap.ts:56, from-event-pattern.ts:46: what is to be done   *)
(* once all is over is done once and last, however it ended and wherever the *)
(* observer left: finalize unless tap's own functions before it threw,       *)
(* removeHandler if the handler was added, also when the observer left while *)
(* addHandler was in progress.                                               *)
FinalizedOnce ==
  /\ Cardinality(Calls("onFinalize")) <= 1 /\ Cardinality(Calls("remove")) <= 1
  /\ \A k \in Calls("onFinalize") : k = Len(st.told)
  /\ Quiet /\ ~active =>
       /\ op \in {"tap", "finalize"} =>
            (Calls("onFinalize") # {} <=> st.threw \cap {"onSubscribe", "onUnsubscribe"} = {})
       /\ op = "fromEventPattern" => (Calls("remove") # {} <=> "add" \notin st.threw)

(* tap.ts:63: the result was unsubscribed from, or its source came to an end *)
(* that tap was told of; never both.                                         *)
UnsubscribedOrEnded ==
  op = "tap" /\ Quiet /\ ~active /\ st.hooked =>
    (Calls("onUnsubscribe") # {} <=> ~SourceEnded)

(* generate.ts:221: once the observer has left, neither condition nor        *)
(* iterate is called again; each value was let through by its condition.     *)
StopsWhenLeft ==
  op = "generate" =>
    /\ \A k \in Calls("left"), j \in Calls("condition") \cup Calls("iterate") : j < k
    /\ Cardinality(Calls("iterate")) <= Cardinality(Calls("result"))
    /\ Cardinality(Calls("result")) <= Cardinality(Calls("condition"))
=============================================================================
