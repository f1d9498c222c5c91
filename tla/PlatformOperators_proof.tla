------------------------ MODULE PlatformOperators_proof ------------------------
(***************************************************************************)
(* Proofs about PlatformOperators, for any amounts and bounds: a result    *)
(* that is active is never left with nothing to wait for, and inspectors   *)
(* and the callback of finally are told once.                              *)
(***************************************************************************)
EXTENDS PlatformOperators, SequenceTheorems, TLAPS

(* The functions that flatMap and switchMap ask make no input emit.        *)
ParametersOK ==
  /\ Amounts \subseteq Nat
  /\ Ops \subseteq {"takeUntil", "map", "filter", "take", "drop", "flatMap", "switchMap", "inspect",
                     "catch", "finally"}
  /\ {"flatMap", "switchMap"} \subseteq Calm

-----------------------------------------------------------------------------
(* Operators.  The steps of a frame, and frames, by what the handlers make. *)
OpStep ==
  {s \in [do : {"subscribe", "call", "start", "switch", "next", "error", "complete", "enough",
                "watch"},
          arg : Seq(Nat)] :
     /\ s.do = "subscribe" => Len(s.arg) = 2
     /\ s.do \in {"start", "switch"} => Len(s.arg) = 1}

OpFrame == [todo : Seq(OpStep), at : {"run", "call", "asked", "within"}]

Input == [role : Nat, ctl : Nat, on : BOOLEAN]

OpState == [n : Nat, buffer : Seq(Nat), ctl : Nat, done : BOOLEAN, told : BOOLEAN,
            watching : BOOLEAN]

OpTyped ==
  /\ op \in {"takeUntil", "map", "filter", "take", "drop", "flatMap", "switchMap", "inspect",
             "catch", "finally"}
  /\ k \in Nat
  /\ st \in OpState
  /\ hist \in [threw : SUBSET Nat, told : Nat]
  /\ active \in BOOLEAN
  /\ inputs \in Seq(Input)
  /\ aborted \in SUBSET Nat /\ 0 \notin aborted
  /\ log \in Seq([role : Nat, do : {"next", "error", "complete"}])
  /\ stack \in Seq(OpFrame)

(* An inspector is told of the abort at the moment of it, not before.       *)
Hooked ==
  /\ active => hist.told = 0
  /\ HooksOnce

(* What is left to do and may end or feed the result: an end, or a          *)
(* subscription, of takeUntil that of the source.                           *)
Decisive(s) ==
  \/ s.do \in {"complete", "error"}
  \/ s.do = "subscribe" /\ (op = "takeUntil" => s.arg[1] = 0)

DecisiveIn(todo) == \E m \in DOMAIN todo : Decisive(todo[m])

Owed(frames) == \E j \in DOMAIN frames : DecisiveIn(frames[j].todo)

Simple == op \notin {"flatMap", "switchMap"}

Feeding ==
  \E i \in DOMAIN inputs : inputs[i].on /\ (op = "takeUntil" => inputs[i].role = 0)

OwedOrFed ==
  Simple => aborted = {} /\ (active => Owed(stack) \/ Feeding)

(* flatMap and switchMap: only the innermost frame has anything left to do, *)
(* one step at most but for the mapper, which is asked before its own step. *)
Resting(f) == f.todo = <<>> /\ f.at \in {"call", "within"}

Innermost(f, own) ==
  \/ Resting(f)
  \/ f.at \in {"run", "asked"} /\ Len(f.todo) = 1 /\ f.todo[1].do = own
  \/ f.at = "run" /\ Len(f.todo) = 1
       /\ f.todo[1].do \in {"subscribe", "next", "complete", "error"}
  \/ f.at = "run" /\ Len(f.todo) = 2 /\ f.todo[1].do = "call" /\ f.todo[2].do = own

FlatFrames(frames, own) ==
  /\ \A j \in DOMAIN frames : j # 1 => Resting(frames[j])
  /\ frames # <<>> => Innermost(frames[1], own)

TodoOf(frames) == IF frames = <<>> THEN <<>> ELSE frames[1].todo

Own == IF op = "flatMap" THEN "start" ELSE "switch"

Todo == TodoOf(stack)

Begins(todo) == todo # <<>> /\ todo[1].do \in {"start", "switch", "call"}

Ends(todo) == todo # <<>> /\ todo[1].do \in {"complete", "error"}

Opens(todo) == todo # <<>> /\ todo[1].do = "subscribe"

OpensSource(todo) == Opens(todo) /\ todo[1].arg[1] = 0 /\ todo[1].arg[2] = 0

OpensInner(todo) == Opens(todo) /\ todo[1].arg[1] # 0

FedBySource ==
  \/ OpensSource(Todo)
  \/ \E i \in DOMAIN inputs : inputs[i].role = 0 /\ inputs[i].ctl = 0 /\ inputs[i].on

Inners == {i \in DOMAIN inputs : inputs[i].role # 0 /\ inputs[i].on}

(* flatMap: `active` counts the inner source that is live, or about to be;  *)
(* values wait, and the end does, for the sake of one.                      *)
InnerCounted ==
  /\ st.done \/ FedBySource
  /\ IF OpensInner(Todo) \/ Inners # {} THEN st.n = 1 ELSE st.n = 0
  /\ Begins(Todo) => st.n = 0
  /\ st.buffer # <<>> \/ st.done => st.n = 1 \/ Begins(Todo)
  /\ \A i, j \in Inners : i = j
  /\ OpensInner(Todo) => Inners = {}

FlatMapFed ==
  op = "flatMap" =>
    /\ FlatFrames(stack, Own) /\ aborted = {}
    /\ active /\ ~Ends(Todo) => InnerCounted

(* switchMap: the controller of the newest inner source is that of one that *)
(* is live, or about to be; the end waits for it.                           *)
NewCtl(todo) == todo[Len(todo)].arg[1]

InnerHeld ==
  /\ st.done \/ FedBySource
  /\ \A c \in aborted : c <= Len(log)
  /\ st.ctl \notin aborted /\ st.ctl <= Len(log)
  /\ st.ctl # 0 => \/ OpensInner(Todo) /\ Todo[1].arg[2] = st.ctl
                   \/ \E i \in Inners : inputs[i].ctl = st.ctl
  /\ Begins(Todo) => /\ NewCtl(Todo) # 0 /\ NewCtl(Todo) <= Len(log)
                     /\ NewCtl(Todo) \notin aborted
  /\ st.done => st.ctl # 0 \/ Begins(Todo)

SwitchMapFed ==
  op = "switchMap" =>
    /\ FlatFrames(stack, Own)
    /\ active /\ ~Ends(Todo) => InnerHeld

OperatorInv == OpTyped /\ Hooked /\ OwedOrFed /\ FlatMapFed /\ SwitchMapFed

-----------------------------------------------------------------------------
(* What a handler leaves to do. *)
LEMMA FramesTyped ==
  ASSUME NEW todo \in Seq(OpStep), NEW place \in {"run", "call", "asked", "within"},
         NEW below \in Seq(OpFrame)
  PROVE  Frames(todo, place, below) \in Seq(OpFrame)
<1>1. [todo |-> todo, at |-> place] \in OpFrame
  BY DEF OpFrame
<1>2. <<[todo |-> todo, at |-> place]>> \o below \in Seq(OpFrame)
  BY <1>1
<1>3. QED
  BY <1>2 DEF Frames

LEMMA StepsTyped ==
  /\ \A v \in Nat : Value(v) \in OpStep
  /\ Call \in OpStep /\ End \in OpStep /\ Fail \in OpStep
  /\ \A role, ctl \in Nat : Subscribe(role, ctl) \in OpStep
  /\ \A what \in {"enough", "watch"} : Step(what, <<>>) \in OpStep
  /\ \A what \in {"start", "switch"}, p \in Nat : Step(what, <<p>>) \in OpStep
<1>1. \A v \in Nat : /\ <<v>> \in Seq(Nat) /\ Len(<<v>>) = 1
                     /\ \A w \in Nat : <<v, w>> \in Seq(Nat) /\ Len(<<v, w>>) = 2
  OBVIOUS
<1>2. \A v \in Nat : Value(v) \in OpStep
  BY <1>1 DEF Value, Step, OpStep
<1>3. Call \in OpStep /\ End \in OpStep /\ Fail \in OpStep
  BY DEF Call, End, Fail, Step, OpStep
<1>4. \A role, ctl \in Nat : Subscribe(role, ctl) \in OpStep
  BY <1>1 DEF Subscribe, Step, OpStep
<1>5. \A what \in {"enough", "watch"} : Step(what, <<>>) \in OpStep
  BY DEF Step, OpStep
<1>6. \A what \in {"start", "switch"}, p \in Nat : Step(what, <<p>>) \in OpStep
  BY <1>1 DEF Step, OpStep
<1>7. QED
  BY <1>2, <1>3, <1>4, <1>5, <1>6

(* The step at hand, and what comes after it.                               *)
LEMMA AtHand ==
  ASSUME OpTyped, NEW what, Doing(what)
  PROVE  /\ stack # <<>> /\ Top = stack[1] /\ Top \in OpFrame /\ Top.at = "run"
         /\ Top.todo \in Seq(OpStep) /\ Top.todo # <<>>
         /\ Head(Top.todo) = Top.todo[1] /\ Top.todo[1] \in OpStep
         /\ Top.todo[1].do = what /\ Arg = Top.todo[1].arg
         /\ Tail(Top.todo) \in Seq(OpStep) /\ Tail(stack) \in Seq(OpFrame)
<1>1. stack # <<>> /\ stack \in Seq(OpFrame) /\ Top = stack[1] /\ stack[1] \in OpFrame
      /\ Tail(stack) \in Seq(OpFrame)
  BY DEF OpTyped, Doing, Top
<1>2. Top.at = "run" /\ Top.todo # <<>> /\ Head(Top.todo).do = what
      /\ Arg = Head(Top.todo).arg
  BY DEF Doing, Arg
<1>3. Top.todo \in Seq(OpStep)
  BY <1>1 DEF OpFrame
<1>4. QED
  BY <1>1, <1>2, <1>3

(* A notification of an input that is live: a handler begins.               *)
Heeds(i, todo) ==
  /\ i \in DOMAIN inputs /\ active /\ inputs[i].on /\ inputs[i].ctl \notin aborted
  /\ UserTurn /\ IsCalm
  /\ todo \in Seq(OpStep) /\ stack' = Frames(todo, "run", stack)
  /\ UNCHANGED <<op, k, hist, active>>
  /\ log' \in Seq([role : Nat, do : {"next", "error", "complete"}])
  /\ Len(log') = Len(log) + 1

LEMMA DeliversTyped ==
  ASSUME OpTyped, NEW i, NEW what \in {"next", "error", "complete"}, Delivers(i, what)
  PROVE  /\ i \in DOMAIN inputs /\ active /\ inputs[i].on /\ inputs[i].ctl \notin aborted
         /\ UserTurn
         /\ Role(i) = inputs[i].role /\ inputs[i].role \in Nat
         /\ log' \in Seq([role : Nat, do : {"next", "error", "complete"}])
         /\ Len(log') = Len(log) + 1
         /\ Here \in Nat /\ Here = Len(log) + 1
<1>1. i \in DOMAIN inputs /\ Live(i) /\ UserTurn
      /\ log' = Append(log, [role |-> Role(i), do |-> what])
  BY DEF Delivers
<1>2. active /\ inputs[i].on /\ inputs[i].ctl \notin aborted
  BY <1>1 DEF Live, Ctl
<1>3. Role(i) = inputs[i].role /\ inputs[i].role \in Nat
  <2>1. inputs[i] \in Input
    BY <1>1 DEF OpTyped
  <2>. QED
    BY <2>1 DEF Role, Input
<1>4. [role |-> Role(i), do |-> what] \in [role : Nat, do : {"next", "error", "complete"}]
  BY <1>3
<1>5. Len(log) \in Nat
  BY DEF OpTyped
<1>6. QED
  BY <1>1, <1>2, <1>3, <1>4, <1>5 DEF Here, OpTyped

(* A value.                                                                 *)
LEMMA NextAnswers ==
  ASSUME OpTyped, NEW i, InputNext(i)
  PROVE  /\ \E todo : Heeds(i, todo)
         /\ st' \in OpState /\ st'.watching = st.watching /\ st'.told = st.told
         /\ inputs' = inputs
         /\ op # "switchMap" => aborted' = aborted
         /\ aborted' \in SUBSET Nat /\ 0 \notin aborted'
<1>. USE StepsTyped
<1>1. Delivers(i, "next") /\ IsCalm /\ UNCHANGED <<op, k, hist, inputs, active>>
  BY DEF InputNext
<1>2. /\ i \in DOMAIN inputs /\ active /\ inputs[i].on /\ inputs[i].ctl \notin aborted
      /\ UserTurn
      /\ log' \in Seq([role : Nat, do : {"next", "error", "complete"}])
      /\ Len(log') = Len(log) + 1 /\ Here \in Nat
  BY <1>1, DeliversTyped
<1>3. ASSUME NEW s, NEW todo \in Seq(OpStep), Do(s, todo), s \in OpState,
             s.watching = st.watching, s.told = st.told
      PROVE  /\ Heeds(i, todo) /\ aborted' = aborted
             /\ st' \in OpState /\ st'.watching = st.watching /\ st'.told = st.told
  BY <1>1, <1>2, <1>3 DEF Do, Enter, Heeds
<1>4. aborted \in SUBSET Nat /\ 0 \notin aborted /\ st \in OpState
  BY DEF OpTyped
<1>. DEFINE Goal == /\ \E todo : Heeds(i, todo)
                    /\ st' \in OpState /\ st'.watching = st.watching /\ st'.told = st.told
                    /\ inputs' = inputs
                    /\ op # "switchMap" => aborted' = aborted
                    /\ aborted' \in SUBSET Nat /\ 0 \notin aborted'
<1>5. ASSUME NEW s, NEW todo \in Seq(OpStep), Do(s, todo), s \in OpState,
             s.watching = st.watching, s.told = st.told
      PROVE  Goal
  BY <1>1, <1>3, <1>4, <1>5
<1>6. CASE Mirror
  <2>1. Do(st, <<Value(Here)>>) /\ <<Value(Here)>> \in Seq(OpStep)
    BY <1>2, <1>6 DEF Mirror
  <2>. QED
    BY <1>4, <1>5, <2>1
<1>7. CASE Map
  <2>1. Do(st, <<Call, Value(Here)>>) /\ <<Call, Value(Here)>> \in Seq(OpStep)
    BY <1>2, <1>7 DEF Map
  <2>. QED
    BY <1>4, <1>5, <2>1
<1>8. CASE Filter
  <2>. DEFINE s == [st EXCEPT !.n = @ + 1]
              given == IF st.n % 2 = 0 THEN <<Value(Here)>> ELSE <<>>
              todo == <<Call>> \o given
  <2>1. s \in OpState /\ s.watching = st.watching /\ s.told = st.told
    BY <1>4 DEF OpState
  <2>2. todo \in Seq(OpStep)
    <3>1. given \in Seq(OpStep) /\ <<Call>> \in Seq(OpStep)
      BY <1>2
    <3>. QED
      BY <3>1
  <2>3. Do(s, todo)
    BY <1>8 DEF Filter
  <2>. HIDE DEF s, todo
  <2>. QED
    BY <1>5, <2>1, <2>2, <2>3
<1>9. CASE Take
  <2>1. CASE st.n > 0
    <3>. DEFINE s == [st EXCEPT !.n = @ - 1]
                todo == <<Value(Here), Step("enough", <<>>)>>
    <3>1. s \in OpState /\ s.watching = st.watching /\ s.told = st.told
      BY <1>4, <2>1 DEF OpState
    <3>2. todo \in Seq(OpStep) /\ Do(s, todo)
      BY <1>2, <1>9, <2>1 DEF Take
    <3>. HIDE DEF s, todo
    <3>. QED
      BY <1>5, <3>1, <3>2
  <2>2. CASE ~(st.n > 0)
    <3>1. Do(st, <<End>>) /\ <<End>> \in Seq(OpStep)
      BY <1>9, <2>2 DEF Take
    <3>. QED
      BY <1>4, <1>5, <3>1
  <2>. QED
    BY <2>1, <2>2
<1>10. CASE Drop
  <2>1. CASE st.n = 0
    <3>1. Do(st, <<Value(Here)>>) /\ <<Value(Here)>> \in Seq(OpStep)
      BY <1>2, <1>10, <2>1 DEF Drop
    <3>. QED
      BY <1>4, <1>5, <3>1
  <2>2. CASE st.n # 0
    <3>. DEFINE s == [st EXCEPT !.n = @ - 1]
    <3>1. s \in OpState /\ s.watching = st.watching /\ s.told = st.told
      BY <1>4, <2>2 DEF OpState
    <3>2. Do(s, <<>>) /\ <<>> \in Seq(OpStep)
      BY <1>10, <2>2 DEF Drop
    <3>. HIDE DEF s
    <3>. QED
      BY <1>5, <3>1, <3>2
  <2>. QED
    BY <2>1, <2>2
<1>11. CASE FlatMap
  <2>1. CASE st.n < 1
    <3>1. /\ Do(st, <<Call, Step("start", <<Here>>)>>)
          /\ <<Call, Step("start", <<Here>>)>> \in Seq(OpStep)
      BY <1>2, <1>11, <2>1 DEF FlatMap, InnerSub
    <3>. QED
      BY <1>4, <1>5, <3>1
  <2>2. CASE ~(st.n < 1)
    <3>. DEFINE s == [st EXCEPT !.buffer = Append(@, Here)]
    <3>1. s \in OpState /\ s.watching = st.watching /\ s.told = st.told
      <4>1. st.buffer \in Seq(Nat)
        BY <1>4 DEF OpState
      <4>2. Append(st.buffer, Here) \in Seq(Nat)
        BY <1>2, <4>1
      <4>. QED
        BY <1>4, <4>2 DEF OpState
    <3>2. Do(s, <<>>) /\ <<>> \in Seq(OpStep)
      BY <1>11, <2>2 DEF FlatMap
    <3>. HIDE DEF s
    <3>. QED
      BY <1>5, <3>1, <3>2
  <2>. QED
    BY <2>1, <2>2
<1>12. CASE SwitchMap
  <2>. DEFINE todo == <<Call, Step("switch", <<Here>>)>>
  <2>1. todo \in Seq(OpStep)
    BY <1>2
  <2>2. /\ op = "switchMap" /\ st' = [st EXCEPT !.ctl = 0]
        /\ aborted' = aborted \cup ({st.ctl} \ {0}) /\ stack' = Frames(todo, "run", stack)
    BY <1>12 DEF SwitchMap, Enter
  <2>3. Heeds(i, todo)
    <3>. HIDE DEF todo
    <3>. QED
      BY <1>1, <1>2, <2>1, <2>2 DEF Heeds
  <2>4. st' \in OpState /\ st'.watching = st.watching /\ st'.told = st.told /\ st.ctl \in Nat
    BY <1>4, <2>2 DEF OpState
  <2>. HIDE DEF todo
  <2>. QED
    BY <1>1, <1>4, <2>2, <2>3, <2>4
<1>13. CASE OtherNext
  <2>. DEFINE todo == IF op = "takeUntil" THEN <<End>> ELSE <<Value(Here)>>
  <2>1. Do(st, todo) /\ todo \in Seq(OpStep)
    BY <1>2, <1>13 DEF OtherNext
  <2>. HIDE DEF todo
  <2>. QED
    BY <1>4, <1>5, <2>1
<1>14. \/ Mirror \/ Map \/ Filter \/ Take \/ Drop \/ FlatMap \/ SwitchMap
       \/ OtherNext
  BY DEF InputNext
<1>15. Goal
  BY <1>6, <1>7, <1>8, <1>9, <1>10, <1>11, <1>12, <1>13, <1>14
<1>16. QED
  BY <1>15

(* An end, which leaves an end or a subscription to do, except that of the  *)
(* notifier of takeUntil.                                                   *)
LEMMA EndAnswers ==
  ASSUME OpTyped, FlatMapFed, NEW i, InputCompletes(i) \/ InputFails(i)
  PROVE  /\ \E todo : /\ Heeds(i, todo)
                      /\ Simple /\ (op = "takeUntil" => inputs[i].role = 0) => DecisiveIn(todo)
         /\ st' \in OpState /\ st'.watching = st.watching
         /\ inputs' = [inputs EXCEPT ![i].on = FALSE]
         /\ aborted' = aborted
<1>. USE StepsTyped
<1>. DEFINE Goal == /\ \E todo : /\ Heeds(i, todo)
                                 /\ Simple /\ (op = "takeUntil" => inputs[i].role = 0)
                                      => DecisiveIn(todo)
                    /\ st' \in OpState /\ st'.watching = st.watching
                    /\ inputs' = [inputs EXCEPT ![i].on = FALSE]
                    /\ aborted' = aborted
<1>1. PICK what \in {"error", "complete"} :
        /\ Delivers(i, what) /\ IsCalm /\ UNCHANGED <<op, k, hist, active>>
        /\ inputs' = [inputs EXCEPT ![i].on = FALSE]
  BY DEF InputCompletes, InputFails, Closed
<1>2. /\ i \in DOMAIN inputs /\ active /\ inputs[i].on /\ inputs[i].ctl \notin aborted
      /\ UserTurn /\ Role(i) = inputs[i].role
      /\ log' \in Seq([role : Nat, do : {"next", "error", "complete"}])
      /\ Len(log') = Len(log) + 1 /\ Here \in Nat
  BY <1>1, DeliversTyped
<1>3. ASSUME NEW s, NEW todo \in Seq(OpStep), Do(s, todo), s \in OpState,
             s.watching = st.watching,
             Simple /\ (op = "takeUntil" => inputs[i].role = 0) => DecisiveIn(todo)
      PROVE  Goal
  <2>1. Heeds(i, todo) /\ aborted' = aborted /\ st' = s
    BY <1>1, <1>2, <1>3 DEF Do, Enter, Heeds
  <2>. QED
    BY <1>1, <1>3, <2>1
<1>4. st \in OpState
  BY DEF OpTyped
<1>5. /\ <<End>> \in Seq(OpStep) /\ DecisiveIn(<<End>>)
      /\ <<Fail>> \in Seq(OpStep) /\ DecisiveIn(<<Fail>>)
  <2>1. <<End>>[1] = End /\ DOMAIN <<End>> = {1} /\ <<Fail>>[1] = Fail
        /\ DOMAIN <<Fail>> = {1}
    OBVIOUS
  <2>2. Decisive(End) /\ Decisive(Fail)
    BY DEF Decisive, End, Fail, Step
  <2>. QED
    BY <2>1, <2>2 DEF DecisiveIn
<1>6. ASSUME NEW end \in {End, Fail}
      PROVE  <<Call, end>> \in Seq(OpStep) /\ DecisiveIn(<<Call, end>>)
  <2>1. <<Call, end>>[2] = end /\ 2 \in DOMAIN <<Call, end>>
    OBVIOUS
  <2>2. Decisive(end)
    BY DEF Decisive, End, Fail, Step
  <2>. QED
    BY <2>1, <2>2 DEF DecisiveIn
<1>7. ASSUME Do(st, <<End>>) \/ Do(st, <<Fail>>) PROVE Goal
  BY <1>3, <1>4, <1>5, <1>7
<1>8. ASSUME NEW end \in {End, Fail},
             Do([st EXCEPT !.told = TRUE], <<Call, end>>)
      PROVE  Goal
  <2>. DEFINE s == [st EXCEPT !.told = TRUE]
  <2>1. s \in OpState /\ s.watching = st.watching
    BY <1>4 DEF OpState
  <2>2. Do(s, <<Call, end>>)
    BY <1>8
  <2>. HIDE DEF s
  <2>. QED
    BY <1>3, <1>6, <2>1, <2>2
<1>9. ASSUME NEW s, NEW todo \in {<<>>, <<End>>}, Do(s, todo), s \in OpState,
             s.watching = st.watching, ~Simple
      PROVE  Goal
  <2>1. <<>> \in Seq(OpStep)
    OBVIOUS
  <2>2. todo = <<>> \/ todo = <<End>>
    OBVIOUS
  <2>3. todo \in Seq(OpStep)
    BY <1>5, <2>1, <2>2
  <2>. QED
    BY <1>3, <1>9, <2>3
<1>10. CASE InputFails(i)
  <2>1. \/ op = "catch" /\ Do(st, <<Call, Subscribe(Other, 0)>>)
        \/ Do(st, <<End>>) \/ Do(st, <<Fail>>)
        \/ Do([st EXCEPT !.told = TRUE], <<Call, Fail>>)
    BY <1>10 DEF InputFails
  <2>2. ASSUME op = "catch", Do(st, <<Call, Subscribe(Other, 0)>>)
        PROVE  Goal
    <3>. DEFINE sub == Subscribe(Other, 0)
    <3>1. sub \in OpStep /\ Call \in OpStep
      BY DEF Other
    <3>2. Decisive(sub)
      BY <2>2 DEF Decisive, Subscribe, Step
    <3>. HIDE DEF sub
    <3>3. <<Call, sub>> \in Seq(OpStep) /\ <<Call, sub>>[2] = sub /\ 2 \in DOMAIN <<Call, sub>>
      BY <3>1
    <3>4. DecisiveIn(<<Call, sub>>)
      BY <3>2, <3>3 DEF DecisiveIn
    <3>. QED
      BY <1>3, <1>4, <2>2, <3>3, <3>4 DEF sub
  <2>. QED
    BY <1>7, <1>8, <2>1, <2>2
<1>11. CASE InputCompletes(i)
  <2>1. CASE Role(i) = Source
    <3>1. SourceCompletes
      BY <1>11, <2>1 DEF InputCompletes
    <3>2. CASE op \in {"flatMap", "switchMap"}
      <4>. DEFINE s == [st EXCEPT !.done = TRUE]
      <4>1. s \in OpState /\ s.watching = st.watching
        BY <1>4 DEF OpState
      <4>2. \E end \in {<<>>, <<End>>} : Do(s, end)
        BY <3>1, <3>2 DEF SourceCompletes, EndIf
      <4>. HIDE DEF s
      <4>. QED
        BY <1>9, <3>2, <4>1, <4>2 DEF Simple
    <3>3. CASE op \notin {"flatMap", "switchMap"}
      BY <1>7, <1>8, <3>1, <3>3 DEF SourceCompletes
    <3>. QED
      BY <3>2, <3>3
  <2>2. CASE Role(i) # Source
    <3>0. inputs[i].role # 0
      BY <1>2, <2>2 DEF Source
    <3>1. OtherCompletes
      BY <1>11, <2>2 DEF InputCompletes
    <3>2. CASE op = "flatMap"
      <4>. DEFINE s == [st EXCEPT !.n = @ - 1]
                  r == [s EXCEPT !.buffer = Tail(@)]
                  todo == InnerSub(Head(s.buffer))
      <4>1. s \in OpState /\ s.watching = st.watching /\ s.buffer \in Seq(Nat)
        <5>1. i \in Inners
          BY <1>2, <3>0 DEF Inners
        <5>2. st.n = 1
          <6>1. ~Ends(Todo)
            <7>1. stack # <<>> => stack[1].at # "run" /\ Innermost(stack[1], "start")
              BY <1>2, <3>2 DEF FlatMapFed, FlatFrames, Own, UserTurn, Top
            <7>. QED
              BY <7>1 DEF Ends, Todo, TodoOf, Innermost, Resting
          <6>. QED
            BY <1>2, <3>2, <5>1, <6>1 DEF FlatMapFed, InnerCounted
        <5>3. s.n = 0
          BY <1>4, <5>2 DEF OpState
        <5>. QED
          BY <1>4, <5>3 DEF OpState
      <4>2. CASE s.buffer # <<>>
        <5>1. Tail(s.buffer) \in Seq(Nat) /\ Head(s.buffer) \in Nat
          BY <4>1, <4>2
        <5>2. r \in OpState /\ r.watching = st.watching
          BY <4>1, <5>1 DEF OpState
        <5>3. todo \in Seq(OpStep)
          BY <5>1 DEF InnerSub
        <5>4. Do(r, todo)
          BY <3>1, <3>2, <4>2 DEF OtherCompletes
        <5>. HIDE DEF s, r, todo
        <5>. QED
          BY <1>3, <3>2, <5>2, <5>3, <5>4 DEF Simple
      <4>3. CASE s.buffer = <<>>
        <5>1. \E end \in {<<>>, <<End>>} : Do(s, end)
          BY <3>1, <3>2, <4>3 DEF OtherCompletes, EndIf
        <5>. HIDE DEF s
        <5>. QED
          BY <1>9, <3>2, <4>1, <5>1 DEF Simple
      <4>. QED
        BY <4>2, <4>3
    <3>3. CASE op = "switchMap"
      <4>. DEFINE s == [st EXCEPT !.ctl = 0]
      <4>1. s \in OpState /\ s.watching = st.watching
        BY <1>4 DEF OpState
      <4>2. \E end \in {<<>>, <<End>>} : Do(s, end)
        BY <3>1, <3>3 DEF OtherCompletes, EndIf
      <4>. HIDE DEF s
      <4>. QED
        BY <1>9, <3>3, <4>1, <4>2 DEF Simple
    <3>4. CASE op = "takeUntil"
      <4>1. Do(st, <<>>) /\ <<>> \in Seq(OpStep)
        BY <3>1, <3>4 DEF OtherCompletes
      <4>. QED
        BY <1>3, <1>4, <3>0, <3>4, <4>1
    <3>5. CASE op \notin {"flatMap", "switchMap", "takeUntil"}
      BY <1>7, <3>1, <3>5 DEF OtherCompletes
    <3>. QED
      BY <3>2, <3>3, <3>4, <3>5
  <2>. QED
    BY <2>1, <2>2
<1>12. Goal
  BY <1>10, <1>11
<1>13. QED
  BY <1>12

(* A step of the frame at hand is taken: what it leaves to do, what is next *)
(* in progress, and what it changes besides.                                *)
Takes(what, todo, place) ==
  /\ Doing(what)
  /\ todo \in Seq(OpStep) /\ place \in {"run", "call", "asked", "within"}
  /\ stack' = Frames(todo, place, Tail(stack))
  /\ UNCHANGED <<op, k>>

Remaining == Tail(Top.todo)

LEMMA ProceedTyped ==
  ASSUME OpTyped, NEW what, Doing(what), NEW todo \in Seq(OpStep)
  PROVE  todo \o Remaining \in Seq(OpStep)
<1>1. Remaining \in Seq(OpStep)
  BY AtHand DEF Remaining
<1>2. QED
  BY <1>1

LEMMA ArgTyped ==
  /\ \A what \in {"start", "switch"} : OpTyped /\ Doing(what) => Arg[1] \in Nat
  /\ OpTyped /\ Doing("subscribe") => Arg[1] \in Nat /\ Arg[2] \in Nat
<1>1. ASSUME OpTyped, NEW what, Doing(what)
      PROVE  /\ Arg \in Seq(Nat)
             /\ what \in {"start", "switch"} => Len(Arg) = 1
             /\ what = "subscribe" => Len(Arg) = 2
  BY <1>1, AtHand DEF OpStep
<1>2. QED
  BY <1>1

(* The steps that only one operator has.                                    *)
LEMMA OwnSteps ==
  ASSUME OpTyped, Enough \/ Watch \/ StartInner \/ SwitchInner
  PROVE  /\ UNCHANGED <<op, k, hist, inputs, aborted, log, active, out>>
         /\ \/ \E todo \in {<<>>, <<End>>} :
                 Takes("enough", todo \o Remaining, "run") /\ st' = st
            \/ Takes("watch", Remaining, "run") /\ st' = [st EXCEPT !.watching = active]
            \/ /\ Takes("start", <<Subscribe(2 + Arg[1], 0)>> \o Remaining, "run")
               /\ st' = [st EXCEPT !.n = @ + 1]
            \/ /\ Takes("switch", <<Subscribe(2 + Arg[1], Arg[1])>> \o Remaining, "run")
               /\ st' = [st EXCEPT !.ctl = Arg[1]]
<1>. USE StepsTyped
<1>0. UNCHANGED <<op, k, hist, inputs, aborted, log, active, out>>
  BY DEF Enough, Watch, StartInner, SwitchInner, rest
<1>1. CASE Enough
  <2>1. Doing("enough") /\ st' = st /\ Proceed(EndIf(st.n = 0))
    BY <1>1 DEF Enough
  <2>2. \E todo \in {<<>>, <<End>>} : Proceed(todo)
    BY <2>1 DEF EndIf
  <2>3. <<>> \in Seq(OpStep) /\ <<End>> \in Seq(OpStep)
    OBVIOUS
  <2>4. PICK todo \in {<<>>, <<End>>} : Proceed(todo)
    BY <2>2
  <2>5. todo \in Seq(OpStep)
    BY <2>3, <2>4
  <2>6. todo \o Remaining \in Seq(OpStep)
    BY <2>1, <2>5, ProceedTyped
  <2>7. Takes("enough", todo \o Remaining, "run")
    BY <1>0, <2>1, <2>4, <2>6 DEF Proceed, Remaining, Takes
  <2>. QED
    BY <1>0, <2>1, <2>7
<1>2. CASE Watch
  <2>1. Doing("watch") /\ st' = [st EXCEPT !.watching = active] /\ Proceed(<<>>)
    BY <1>2 DEF Watch
  <2>2. Remaining \in Seq(OpStep) /\ <<>> \o Remaining = Remaining
    BY <2>1, AtHand DEF Remaining
  <2>3. Takes("watch", Remaining, "run")
    BY <1>0, <2>1, <2>2 DEF Proceed, Remaining, Takes
  <2>. QED
    BY <1>0, <2>1, <2>3
<1>3. CASE StartInner
  <2>. DEFINE todo == <<Subscribe(2 + Arg[1], 0)>>
  <2>1. Doing("start") /\ st' = [st EXCEPT !.n = @ + 1] /\ Proceed(todo)
    BY <1>3 DEF StartInner, Inner
  <2>2. Arg[1] \in Nat
    BY <2>1, ArgTyped
  <2>3. todo \in Seq(OpStep)
    BY <2>2
  <2>. HIDE DEF todo
  <2>4. todo \o Remaining \in Seq(OpStep)
    BY <2>1, <2>3, ProceedTyped
  <2>5. Takes("start", todo \o Remaining, "run")
    BY <1>0, <2>1, <2>4 DEF Proceed, Remaining, Takes
  <2>. QED
    BY <1>0, <2>1, <2>5 DEF todo
<1>4. CASE SwitchInner
  <2>. DEFINE todo == <<Subscribe(2 + Arg[1], Arg[1])>>
  <2>1. Doing("switch") /\ st' = [st EXCEPT !.ctl = Arg[1]] /\ Proceed(todo)
    BY <1>4 DEF SwitchInner, Inner
  <2>2. Arg[1] \in Nat
    BY <2>1, ArgTyped
  <2>3. todo \in Seq(OpStep)
    BY <2>2
  <2>. HIDE DEF todo
  <2>4. todo \o Remaining \in Seq(OpStep)
    BY <2>1, <2>3, ProceedTyped
  <2>5. Takes("switch", todo \o Remaining, "run")
    BY <1>0, <2>1, <2>4 DEF Proceed, Remaining, Takes
  <2>. QED
    BY <1>0, <2>1, <2>5 DEF todo
<1>5. QED
  BY <1>1, <1>2, <1>3, <1>4

(* The steps that all operators share.                                      *)
LEMMA SharedSteps ==
  ASSUME OpTyped, Ordinary
  PROVE  /\ UNCHANGED <<op, k, st>> /\ aborted' = aborted
         /\ \/ /\ Takes("subscribe", Remaining, IF active THEN "within" ELSE "run")
               /\ inputs' = Append(inputs, [role |-> Arg[1], ctl |-> Arg[2],
                                            on |-> active /\ Arg[2] \notin aborted])
               /\ active' = active /\ log' = log
            \/ /\ (Doing("subscribe") /\ Arg[1] # 0) \/ Doing("call")
               /\ stack' = Frames(<<Fail>>, "run", Tail(stack))
               /\ log' \in Seq([role : Nat, do : {"next", "error", "complete"}])
               /\ Len(log') = Len(log) + 1
               /\ UNCHANGED <<active, inputs>>
            \/ /\ Takes("call", Remaining, "asked")
               /\ UNCHANGED <<active, inputs, log>>
            \/ \E what \in {"next", "error", "complete"} :
                 /\ Takes(what, Remaining, IF active THEN "call" ELSE "run")
                 /\ active' = (active /\ what = "next")
                 /\ UNCHANGED <<inputs, log>>
            \/ /\ stack # <<>> /\ stack[1].at # "run"
               /\ stack' = Frames(stack[1].todo, "run", Tail(stack))
               /\ UNCHANGED <<active, inputs, log>>
            \/ /\ active /\ active' = FALSE
               /\ UNCHANGED <<stack, inputs, log>>
<1>0. UNCHANGED <<op, k, st>> /\ InputsOrdinary
  BY DEF Ordinary
<1>1. ASSUME NEW what, Doing(what)
      PROVE  Remaining \in Seq(OpStep) /\ <<>> \o Remaining = Remaining
  BY <1>1, AtHand DEF Remaining
<1>2. active \in BOOLEAN
  BY DEF OpTyped
<1>3. CASE SubscribeInput
  <2>1. /\ Doing("subscribe") /\ UNCHANGED <<active, aborted, log>>
        /\ inputs' = Append(inputs, [role |-> Arg[1], ctl |-> Arg[2],
                                     on |-> active /\ Arg[2] \notin aborted])
        /\ IF active THEN AwaitSource ELSE Proceed(<<>>)
    BY <1>3 DEF SubscribeInput
  <2>2. Takes("subscribe", Remaining, IF active THEN "within" ELSE "run")
    BY <1>0, <1>1, <1>2, <2>1 DEF Takes, Remaining, AwaitSource, Proceed
  <2>. QED
    BY <1>0, <2>1, <2>2
<1>4. CASE UserThrows
  <2>1. /\ (Doing("subscribe") /\ Arg[1] # 0) \/ Doing("call")
        /\ log' = Append(log, [role |-> User, do |-> "error"])
        /\ Abandon(<<Fail>>) /\ UNCHANGED <<active, inputs, aborted>>
    BY <1>4 DEF UserThrows
  <2>2. /\ log' \in Seq([role : Nat, do : {"next", "error", "complete"}])
        /\ Len(log') = Len(log) + 1
    BY <2>1 DEF OpTyped, User
  <2>. QED
    BY <1>0, <2>1, <2>2 DEF Abandon
<1>5. CASE CallUser
  <2>1. Doing("call") /\ AwaitAnswer /\ UNCHANGED <<active, inputs, aborted, log>>
    BY <1>5 DEF CallUser
  <2>2. Takes("call", Remaining, "asked")
    BY <1>0, <1>1, <2>1 DEF Takes, Remaining, AwaitAnswer
  <2>. QED
    BY <1>0, <2>1, <2>2
<1>6. CASE Notify /\ UNCHANGED <<inputs, aborted, log>>
  <2>1. PICK what \in {"next", "error", "complete"} : Doing(what)
    BY <1>6 DEF Notify
  <2>2. Doing("next") <=> (what = "next")
    BY <2>1 DEF Doing
  <2>3. active' = (active /\ what = "next")
    <3>1. CASE active
      <4>1. active' = Doing("next")
        BY <1>6, <3>1 DEF Notify
      <4>2. (active' = TRUE \/ active' = FALSE) /\ (active' = TRUE <=> what = "next")
        BY <2>1, <4>1 DEF Doing
      <4>. QED
        BY <3>1, <4>2
    <3>2. CASE ~active
      <4>1. active' = active
        BY <1>6, <3>2 DEF Notify
      <4>2. active = FALSE
        BY <1>2, <3>2
      <4>. QED
        BY <4>1, <4>2
    <3>. QED
      BY <3>1, <3>2
  <2>4. Takes(what, Remaining, IF active THEN "call" ELSE "run")
    BY <1>0, <1>1, <1>2, <1>6, <2>1 DEF Notify, Takes, Remaining, Await, Proceed
  <2>. QED
    BY <1>0, <1>6, <2>3, <2>4
<1>7. CASE CallbackEnds /\ UNCHANGED <<inputs, aborted, log>>
  BY <1>0, <1>7 DEF CallbackEnds, Top
<1>8. CASE Unsubscribe /\ UNCHANGED <<inputs, aborted, log>>
  BY <1>0, <1>8 DEF Unsubscribe
<1>9. QED
  BY <1>0, <1>3, <1>4, <1>5, <1>6, <1>7, <1>8 DEF InputsOrdinary

LEMMA OverForGood ==
  ASSUME OpTyped, Ordinary
  PROVE  (active' => active) /\ active' \in BOOLEAN
<1>0. active \in BOOLEAN
  BY DEF OpTyped
<1>1. \/ active' = active
      \/ \E what : active' = (active /\ what = "next")
      \/ active' = FALSE
  BY SharedSteps
<1>2. ASSUME NEW what, active' = (active /\ what = "next")
      PROVE  (active' => active) /\ active' \in BOOLEAN
  <2>1. CASE active /\ what = "next"
    BY <1>2, <2>1
  <2>2. CASE ~(active /\ what = "next")
    BY <1>2, <2>2
  <2>. QED
    BY <2>1, <2>2
<1>3. CASE \E what : active' = (active /\ what = "next")
  BY <1>2, <1>3
<1>4. CASE active' = active
  BY <1>0, <1>4
<1>5. CASE active' = FALSE
  BY <1>5
<1>6. QED
  BY <1>1, <1>3, <1>4, <1>5

LEMMA ClosedTyped ==
  ASSUME NEW ins \in Seq(Input), NEW i \in DOMAIN ins
  PROVE  /\ [ins EXCEPT ![i].on = FALSE] \in Seq(Input)
         /\ Len([ins EXCEPT ![i].on = FALSE]) = Len(ins)
<1>. DEFINE r == [ins[i] EXCEPT !.on = FALSE]
<1>1. i \in 1 .. Len(ins) /\ ins[i] \in Input
  OBVIOUS
<1>2. r \in Input
  BY <1>1 DEF Input
<1>3. [ins EXCEPT ![i].on = FALSE] = [ins EXCEPT ![i] = r]
  OBVIOUS
<1>. HIDE DEF r
<1>4. [ins EXCEPT ![i] = r] \in Seq(Input) /\ Len([ins EXCEPT ![i] = r]) = Len(ins)
  BY <1>1, <1>2, ExceptSeq
<1>5. QED
  BY <1>3, <1>4

LEMMA OpTypedStep ==
  ASSUME OpTyped, FlatMapFed, Next
  PROVE  OpTyped'
<1>. DEFINE Logs == Seq([role : Nat, do : {"next", "error", "complete"}])
            Ins == Seq(Input)
<1>0. /\ stack \in Seq(OpFrame) /\ st \in OpState /\ active \in BOOLEAN /\ log \in Logs
      /\ inputs \in Ins /\ aborted \in SUBSET Nat /\ 0 \notin aborted
      /\ hist \in [threw : SUBSET Nat, told : Nat]
  BY DEF OpTyped
<1>1. ASSUME NEW i, NEW todo, Heeds(i, todo), st' \in OpState, inputs' \in Ins,
             aborted' \in SUBSET Nat, 0 \notin aborted'
      PROVE  OpTyped'
  <2>1. stack' \in Seq(OpFrame)
    BY <1>0, <1>1, FramesTyped DEF Heeds
  <2>. QED
    BY <1>0, <1>1, <2>1 DEF OpTyped, Heeds
<1>2. ASSUME NEW i \in DOMAIN inputs PROVE [inputs EXCEPT ![i].on = FALSE] \in Ins
  BY <1>0, ClosedTyped
<1>3. ASSUME NEW i, InputNext(i) PROVE OpTyped'
  BY <1>0, <1>1, <1>3, NextAnswers
<1>4. ASSUME NEW i, InputCompletes(i) \/ InputFails(i) PROVE OpTyped'
  <2>1. PICK todo : Heeds(i, todo)
    BY <1>4, EndAnswers
  <2>2. st' \in OpState /\ inputs' = [inputs EXCEPT ![i].on = FALSE] /\ aborted' = aborted
    BY <1>4, EndAnswers
  <2>3. inputs' \in Ins
    BY <1>2, <2>1, <2>2 DEF Heeds
  <2>. QED
    BY <1>0, <1>1, <2>1, <2>2, <2>3
<1>5. ASSUME NEW what, NEW todo, NEW place, Takes(what, todo, place)
      PROVE  stack' \in Seq(OpFrame) /\ UNCHANGED <<op, k>>
  BY <1>5, AtHand, FramesTyped DEF Takes
<1>6. CASE Enough \/ Watch \/ StartInner \/ SwitchInner
  <2>1. UNCHANGED <<hist, inputs, aborted, log, active>>
    BY <1>6, OwnSteps
  <2>2. stack' \in Seq(OpFrame) /\ UNCHANGED <<op, k>>
    BY <1>5, <1>6, OwnSteps
  <2>3. st' \in OpState
    <3>1. Doing("switch") => Arg[1] \in Nat
      BY ArgTyped
    <3>2. \/ st' = st \/ st' = [st EXCEPT !.watching = active] \/ st' = [st EXCEPT !.n = @ + 1]
          \/ st' = [st EXCEPT !.ctl = Arg[1]] /\ Arg[1] \in Nat
      BY <1>6, <3>1, OwnSteps DEF Takes
    <3>0. st \in OpState /\ active \in BOOLEAN
      BY DEF OpTyped
    <3>3. [st EXCEPT !.watching = active] \in OpState
      BY <3>0 DEF OpState
    <3>5. [st EXCEPT !.n = @ + 1] \in OpState
      BY <3>0 DEF OpState
    <3>4. Arg[1] \in Nat => [st EXCEPT !.ctl = Arg[1]] \in OpState
      BY <3>0 DEF OpState
    <3>. QED
      BY <1>0, <3>2, <3>3, <3>4, <3>5
  <2>. QED
    BY <1>0, <2>1, <2>2, <2>3 DEF OpTyped
<1>7. CASE Ordinary
  <2>1. UNCHANGED <<op, k, st>> /\ aborted' = aborted
    BY <1>7, SharedSteps
  <2>2. stack' \in Seq(OpFrame)
    <3>1. ASSUME (Doing("subscribe") /\ Arg[1] # 0) \/ Doing("call"),
                 stack' = Frames(<<Fail>>, "run", Tail(stack))
          PROVE  stack' \in Seq(OpFrame)
      <4>1. <<Fail>> \in Seq(OpStep) /\ Tail(stack) \in Seq(OpFrame)
        BY <3>1, AtHand, StepsTyped
      <4>. QED
        BY <3>1, <4>1, FramesTyped
    <3>2. ASSUME stack # <<>>, stack' = Frames(stack[1].todo, "run", Tail(stack))
          PROVE  stack' \in Seq(OpFrame)
      <4>1. stack[1] \in OpFrame /\ Tail(stack) \in Seq(OpFrame)
        BY <1>0, <3>2
      <4>2. stack[1].todo \in Seq(OpStep)
        BY <4>1 DEF OpFrame
      <4>. QED
        BY <3>2, <4>1, <4>2, FramesTyped
    <3>. QED
      BY <1>0, <1>5, <1>7, <3>1, <3>2, SharedSteps
  <2>3. inputs' \in Ins
    <3>1. ASSUME Doing("subscribe"),
                 inputs' = Append(inputs, [role |-> Arg[1], ctl |-> Arg[2],
                                           on |-> active /\ Arg[2] \notin aborted])
          PROVE  inputs' \in Ins
      <4>1. (active /\ Arg[2] \notin aborted) \in BOOLEAN /\ Arg[1] \in Nat /\ Arg[2] \in Nat
        BY <3>1, ArgTyped
      <4>2. [role |-> Arg[1], ctl |-> Arg[2], on |-> active /\ Arg[2] \notin aborted]
              \in Input
        BY <4>1 DEF Input
      <4>. QED
        BY <1>0, <3>1, <4>2
    <3>. QED
      BY <1>0, <1>7, <3>1, SharedSteps DEF Takes
  <2>4. log' \in Logs /\ active' \in BOOLEAN
    BY <1>0, <1>7, SharedSteps
  <2>5. hist' \in [threw : SUBSET Nat, told : Nat]
    <3>1. Here \in Nat
      BY <1>0 DEF Here
    <3>. DEFINE h == IF log' = log THEN hist ELSE [hist EXCEPT !.threw = @ \cup {Here}]
    <3>2. h \in [threw : SUBSET Nat, told : Nat]
      BY <1>0, <3>1
    <3>3. hist' = IF active /\ ~active' THEN Closing(st, h) ELSE h
      BY <1>7 DEF Ordinary
    <3>. HIDE DEF h
    <3>4. Closing(st, h) \in [threw : SUBSET Nat, told : Nat]
      BY <3>2 DEF Closing
    <3>. QED
      BY <3>2, <3>3, <3>4
  <2>. QED
    BY <1>0, <2>1, <2>2, <2>3, <2>4, <2>5 DEF OpTyped
<1>8. QED
  BY <1>3, <1>4, <1>6, <1>7 DEF Next

(* ToldOnce, of the operators.                                              *)
LEMMA HookedStep ==
  ASSUME OpTyped, FlatMapFed, Hooked, Next
  PROVE  Hooked'
<1>0. /\ st.told \in BOOLEAN /\ st.watching \in BOOLEAN /\ active \in BOOLEAN /\ hist.told \in Nat
      /\ hist \in [threw : SUBSET Nat, told : Nat] /\ st \in OpState
  BY DEF OpTyped, OpState
<1>1. ASSUME active, hist' = hist, active' = active PROVE Hooked'
  BY <1>1 DEF Hooked, HooksOnce
<1>2. ASSUME NEW i, InputNext(i) \/ InputCompletes(i) \/ InputFails(i) PROVE Hooked'
  <2>1. active /\ hist' = hist /\ active' = active
    BY <1>2, NextAnswers, EndAnswers DEF Heeds
  <2>. QED
    BY <1>1, <2>1
<1>3. CASE Enough \/ Watch \/ StartInner \/ SwitchInner
  <2>1. hist' = hist /\ active' = active
    BY <1>3, OwnSteps
  <2>2. st'.told = st.told /\ (st'.watching => st.watching \/ active)
    BY <1>0, <1>3, OwnSteps DEF OpState
  <2>. QED
    BY <1>0, <2>1, <2>2 DEF Hooked, HooksOnce
<1>4. CASE Ordinary
  <2>1. st' = st /\ (active' => active) /\ active' \in BOOLEAN
    BY <1>4, SharedSteps, OverForGood
  <2>. DEFINE h == IF log' = log THEN hist ELSE [hist EXCEPT !.threw = @ \cup {Here}]
  <2>2. h.told = hist.told
    BY <1>0
  <2>3. DOMAIN h = {"threw", "told"} /\ h = [threw |-> h.threw, told |-> h.told]
    BY <1>0
  <2>4. hist' = IF active /\ ~active' THEN Closing(st, h) ELSE h
    BY <1>4 DEF Ordinary
  <2>. HIDE DEF h
  <2>5. CASE active /\ ~active'
    <3>1. hist'.told = h.told + (IF st.watching /\ ~st.told THEN 1 ELSE 0)
      BY <2>3, <2>4, <2>5 DEF Closing
    <3>2. h.told = 0
      BY <2>2, <2>5 DEF Hooked
    <3>. QED
      BY <1>0, <2>1, <2>5, <3>1, <3>2 DEF Hooked, HooksOnce
  <2>6. CASE ~(active /\ ~active')
    <3>1. hist'.told = hist.told
      BY <2>2, <2>4, <2>6
    <3>. QED
      BY <1>0, <2>1, <2>6, <3>1 DEF Hooked, HooksOnce
  <2>. QED
    BY <2>5, <2>6
<1>5. QED
  BY <1>2, <1>3, <1>4 DEF Next

-----------------------------------------------------------------------------
(* What is owed, after each kind of step.                                   *)
LEMMA OwedFrames ==
  ASSUME NEW todo \in Seq(OpStep), NEW place, NEW below \in Seq(OpFrame)
  PROVE  Owed(Frames(todo, place, below)) <=> (DecisiveIn(todo) \/ Owed(below))
<1>1. CASE todo = <<>> /\ place = "run"
  BY <1>1 DEF Frames, DecisiveIn
<1>2. CASE ~(todo = <<>> /\ place = "run")
  <2>. DEFINE f == [todo |-> todo, at |-> place]
              new == <<f>> \o below
  <2>1. /\ new[1] = f /\ DOMAIN new = 1 .. Len(below) + 1 /\ DOMAIN below = 1 .. Len(below)
        /\ \A j \in DOMAIN below : new[j + 1] = below[j]
        /\ Len(below) \in Nat
    OBVIOUS
  <2>2. Frames(todo, place, below) = new /\ f.todo = todo
    BY <1>2 DEF Frames
  <2>. HIDE DEF f, new
  <2>3. ASSUME DecisiveIn(todo) PROVE Owed(new)
    <3>1. 1 \in DOMAIN new /\ DecisiveIn(new[1].todo)
      BY <2>1, <2>2, <2>3
    <3>. QED
      BY <3>1 DEF Owed
  <2>4. ASSUME NEW j \in DOMAIN below, DecisiveIn(below[j].todo) PROVE Owed(new)
    <3>1. j + 1 \in DOMAIN new /\ new[j + 1] = below[j]
      BY <2>1
    <3>. QED
      BY <2>4, <3>1 DEF Owed
  <2>5. ASSUME NEW j \in DOMAIN new, DecisiveIn(new[j].todo)
        PROVE  DecisiveIn(todo) \/ Owed(below)
    <3>1. CASE j = 1
      BY <2>1, <2>2, <2>5, <3>1
    <3>2. CASE j # 1
      <4>1. j - 1 \in DOMAIN below /\ new[j] = below[j - 1]
        BY <2>1, <3>2
      <4>. QED
        BY <2>5, <4>1 DEF Owed
    <3>. QED
      BY <3>1, <3>2
  <2>6. Owed(below) => Owed(new)
    BY <2>4 DEF Owed
  <2>7. Owed(new) => DecisiveIn(todo) \/ Owed(below)
    BY <2>5 DEF Owed
  <2>. QED
    BY <2>2, <2>3, <2>6, <2>7
<1>3. QED
  BY <1>1, <1>2

LEMMA OwedTop ==
  ASSUME NEW frames \in Seq(OpFrame), frames # <<>>
  PROVE  Owed(frames) <=> (DecisiveIn(frames[1].todo) \/ Owed(Tail(frames)))
<1>1. /\ Len(frames) \in Nat /\ DOMAIN frames = 1 .. Len(frames) /\ 1 \in DOMAIN frames
      /\ DOMAIN Tail(frames) = 1 .. Len(frames) - 1
      /\ \A j \in 1 .. Len(frames) - 1 : Tail(frames)[j] = frames[j + 1]
  OBVIOUS
<1>2. DecisiveIn(frames[1].todo) => Owed(frames)
  BY <1>1 DEF Owed
<1>3. Owed(Tail(frames)) => Owed(frames)
  <2>1. ASSUME NEW j \in DOMAIN Tail(frames), DecisiveIn(Tail(frames)[j].todo)
        PROVE  Owed(frames)
    <3>1. j + 1 \in DOMAIN frames /\ Tail(frames)[j] = frames[j + 1]
      BY <1>1
    <3>. QED
      BY <2>1, <3>1 DEF Owed
  <2>. QED
    BY <2>1 DEF Owed
<1>4. ASSUME NEW j \in DOMAIN frames, DecisiveIn(frames[j].todo), ~DecisiveIn(frames[1].todo)
      PROVE  Owed(Tail(frames))
  <2>1. j # 1 /\ j - 1 \in DOMAIN Tail(frames) /\ Tail(frames)[j - 1] = frames[j]
    BY <1>1, <1>4
  <2>. QED
    BY <1>4, <2>1 DEF Owed
<1>5. QED
  BY <1>2, <1>3, <1>4 DEF Owed

LEMMA DecisiveTop ==
  ASSUME NEW todo \in Seq(OpStep), todo # <<>>
  PROVE  DecisiveIn(todo) <=> (Decisive(todo[1]) \/ DecisiveIn(Tail(todo)))
<1>1. /\ Len(todo) \in Nat /\ DOMAIN todo = 1 .. Len(todo) /\ 1 \in DOMAIN todo
      /\ DOMAIN Tail(todo) = 1 .. Len(todo) - 1
      /\ \A j \in 1 .. Len(todo) - 1 : Tail(todo)[j] = todo[j + 1]
  OBVIOUS
<1>2. ASSUME NEW m \in DOMAIN Tail(todo), Decisive(Tail(todo)[m]) PROVE DecisiveIn(todo)
  <2>1. m + 1 \in DOMAIN todo /\ Tail(todo)[m] = todo[m + 1]
    BY <1>1
  <2>. QED
    BY <1>2, <2>1 DEF DecisiveIn
<1>3. ASSUME NEW m \in DOMAIN todo, Decisive(todo[m]), ~Decisive(todo[1])
      PROVE  DecisiveIn(Tail(todo))
  <2>1. m # 1 /\ m - 1 \in DOMAIN Tail(todo) /\ Tail(todo)[m - 1] = todo[m]
    BY <1>1, <1>3
  <2>. QED
    BY <1>3, <2>1 DEF DecisiveIn
<1>4. Decisive(todo[1]) => DecisiveIn(todo)
  BY <1>1 DEF DecisiveIn
<1>5. QED
  BY <1>2, <1>3, <1>4 DEF DecisiveIn

LEMMA DecisiveConcat ==
  ASSUME NEW one \in Seq(OpStep), NEW two \in Seq(OpStep), DecisiveIn(two)
  PROVE  DecisiveIn(one \o two)
<1>1. PICK m \in DOMAIN two : Decisive(two[m])
  BY DEF DecisiveIn
<1>2. Len(one) + m \in DOMAIN (one \o two) /\ (one \o two)[Len(one) + m] = two[m]
  OBVIOUS
<1>3. QED
  BY <1>1, <1>2 DEF DecisiveIn

(* A step that is not decisive leaves owed what was.                        *)
LEMMA OwedAfter ==
  ASSUME OpTyped, NEW what, NEW todo, NEW place, NEW first \in Seq(OpStep),
         Takes(what, todo, place), todo = first \o Remaining \/ todo = Remaining,
         Owed(stack)
  PROVE  Decisive(stack[1].todo[1]) \/ Owed(stack)'
<1>1. /\ stack # <<>> /\ Top = stack[1] /\ stack[1].todo \in Seq(OpStep) /\ stack[1].todo # <<>>
      /\ Remaining \in Seq(OpStep) /\ Tail(stack) \in Seq(OpFrame) /\ stack \in Seq(OpFrame)
      /\ Remaining = Tail(stack[1].todo)
  BY AtHand DEF Takes, Remaining, OpTyped
<1>2. stack' = Frames(todo, place, Tail(stack)) /\ todo \in Seq(OpStep) /\ op' = op
  BY DEF Takes
<1>3. \/ Decisive(stack[1].todo[1]) \/ DecisiveIn(Remaining) \/ Owed(Tail(stack))
  BY <1>1, OwedTop, DecisiveTop
<1>4. DecisiveIn(Remaining) => DecisiveIn(todo)
  BY <1>1, DecisiveConcat
<1>5. DecisiveIn(Remaining) \/ Owed(Tail(stack)) => Owed(stack')
  BY <1>1, <1>2, <1>4, OwedFrames
<1>6. Owed(stack') <=> Owed(stack)'
  BY <1>2 DEF Owed, DecisiveIn, Decisive
<1>7. QED
  BY <1>3, <1>5, <1>6

LEMMA OwedStep ==
  ASSUME OpTyped, FlatMapFed, OwedOrFed, Next
  PROVE  OwedOrFed'
<1>0. /\ stack \in Seq(OpFrame) /\ active \in BOOLEAN /\ inputs \in Seq(Input)
      /\ op' = op /\ (Simple' <=> Simple)
  <2>1. op' = op
    BY NextAnswers, EndAnswers, OwnSteps, SharedSteps DEF Next, Heeds
  <2>. QED
    BY <2>1 DEF OpTyped, Simple
<1>1. SUFFICES ASSUME Simple
               PROVE  aborted' = {} /\ (active' => Owed(stack') \/ Feeding')
  <2>1. Owed(stack') <=> Owed(stack)'
    BY <1>0 DEF Owed, DecisiveIn, Decisive
  <2>. QED
    BY <1>0, <1>1, <2>1 DEF OwedOrFed
<1>2. aborted = {} /\ (active => Owed(stack) \/ Feeding) /\ op # "switchMap"
  BY <1>1 DEF OwedOrFed, Simple
<1>3. aborted' = aborted
  BY <1>2, NextAnswers, EndAnswers, OwnSteps, SharedSteps DEF Next
<1>4. UNCHANGED inputs => (Feeding' <=> Feeding)
  BY <1>0 DEF Feeding
<1>5. ASSUME NEW i, NEW todo, Heeds(i, todo)
      PROVE  active /\ todo \in Seq(OpStep) /\ (Owed(stack') <=> DecisiveIn(todo) \/ Owed(stack))
  BY <1>0, <1>5, OwedFrames DEF Heeds
<1>6. ASSUME NEW i, InputNext(i) PROVE active' => Owed(stack') \/ Feeding'
  BY <1>2, <1>4, <1>5, <1>6, NextAnswers
<1>7. ASSUME NEW i, InputCompletes(i) \/ InputFails(i)
      PROVE  active' => Owed(stack') \/ Feeding'
  <2>1. PICK todo : /\ Heeds(i, todo)
                    /\ (op = "takeUntil" => inputs[i].role = 0) => DecisiveIn(todo)
    BY <1>1, <1>7, EndAnswers
  <2>2. inputs' = [inputs EXCEPT ![i].on = FALSE] /\ i \in DOMAIN inputs
    BY <1>7, <2>1, EndAnswers DEF Heeds
  <2>3. CASE DecisiveIn(todo) \/ Owed(stack)
    BY <1>5, <2>1, <2>3
  <2>4. CASE ~(DecisiveIn(todo) \/ Owed(stack))
    <3>1. op = "takeUntil" /\ inputs[i].role # 0
      BY <2>1, <2>4
    <3>2. PICK j \in DOMAIN inputs : inputs[j].on /\ inputs[j].role = 0
      BY <1>2, <1>5, <2>1, <2>4, <3>1 DEF Feeding
    <3>3. j # i /\ j \in DOMAIN inputs' /\ inputs'[j] = inputs[j]
      BY <1>0, <2>2, <3>1, <3>2
    <3>. QED
      BY <1>0, <3>2, <3>3 DEF Feeding
  <2>. QED
    BY <2>3, <2>4
<1>8. ASSUME NEW what \in {"enough", "watch", "start", "switch", "call", "next"},
             NEW first \in Seq(OpStep), NEW todo, NEW place, Takes(what, todo, place),
             todo = first \o Remaining \/ todo = Remaining, UNCHANGED inputs, active' => active
      PROVE  active' => Owed(stack') \/ Feeding'
  <2>1. ~Decisive(stack[1].todo[1])
    <3>1. stack[1].todo[1].do = what
      BY <1>8, AtHand DEF Takes
    <3>. QED
      BY <1>8, <3>1 DEF Decisive
  <2>2. Owed(stack) => Owed(stack)'
    BY <1>8, <2>1, OwedAfter
  <2>3. Owed(stack)' <=> Owed(stack')
    BY <1>0 DEF Owed, DecisiveIn, Decisive
  <2>. QED
    BY <1>2, <1>4, <1>8, <2>2, <2>3
<1>9. <<>> \in Seq(OpStep) /\ <<End>> \in Seq(OpStep) /\ <<Fail>> \in Seq(OpStep)
  BY StepsTyped
<1>10. CASE Enough \/ Watch \/ StartInner \/ SwitchInner
  <2>0. UNCHANGED inputs /\ active' = active
    BY <1>10, OwnSteps
  <2>1. ASSUME NEW todo \in {<<>>, <<End>>}, Takes("enough", todo \o Remaining, "run")
        PROVE  active' => Owed(stack') \/ Feeding'
    <3>1. todo \in Seq(OpStep)
      BY <1>9
    <3>. QED
      BY <1>8, <2>0, <2>1, <3>1
  <2>2. ASSUME Takes("watch", Remaining, "run")
        PROVE  active' => Owed(stack') \/ Feeding'
    BY <1>8, <1>9, <2>0, <2>2
  <2>3. ASSUME Takes("start", <<Subscribe(2 + Arg[1], 0)>> \o Remaining, "run")
        PROVE  active' => Owed(stack') \/ Feeding'
    <3>1. Arg[1] \in Nat
      BY <2>3, ArgTyped DEF Takes
    <3>2. Subscribe(2 + Arg[1], 0) \in OpStep
      BY <3>1, StepsTyped
    <3>3. <<Subscribe(2 + Arg[1], 0)>> \in Seq(OpStep)
      BY <3>2
    <3>. QED
      BY <1>8, <2>0, <2>3, <3>3
  <2>4. ASSUME Takes("switch", <<Subscribe(2 + Arg[1], Arg[1])>> \o Remaining, "run")
        PROVE  active' => Owed(stack') \/ Feeding'
    <3>1. Arg[1] \in Nat
      BY <2>4, ArgTyped DEF Takes
    <3>2. Subscribe(2 + Arg[1], Arg[1]) \in OpStep
      BY <3>1, StepsTyped
    <3>3. <<Subscribe(2 + Arg[1], Arg[1])>> \in Seq(OpStep)
      BY <3>2
    <3>. QED
      BY <1>8, <2>0, <2>4, <3>3
  <2>5. \/ \E todo \in {<<>>, <<End>>} : Takes("enough", todo \o Remaining, "run")
        \/ Takes("watch", Remaining, "run")
        \/ Takes("start", <<Subscribe(2 + Arg[1], 0)>> \o Remaining, "run")
        \/ Takes("switch", <<Subscribe(2 + Arg[1], Arg[1])>> \o Remaining, "run")
    BY <1>10, OwnSteps
  <2>. QED
    BY <1>2, <1>3, <2>1, <2>2, <2>3, <2>4, <2>5
<1>11. CASE Ordinary
  <2>1. ASSUME Takes("subscribe", Remaining, IF active THEN "within" ELSE "run"),
               inputs' = Append(inputs, [role |-> Arg[1], ctl |-> Arg[2],
                                         on |-> active /\ Arg[2] \notin aborted]),
               active' = active, active
        PROVE  Owed(stack') \/ Feeding'
    <3>. DEFINE new == [role |-> Arg[1], ctl |-> Arg[2],
                        on |-> active /\ Arg[2] \notin aborted]
    <3>1. new.on /\ new.role = Arg[1]
      BY <1>2, <2>1
    <3>2. /\ Len(inputs) + 1 \in DOMAIN inputs' /\ inputs'[Len(inputs) + 1] = new
          /\ \A i \in DOMAIN inputs : i \in DOMAIN inputs' /\ inputs'[i] = inputs[i]
      <4>. HIDE DEF new
      <4>1. inputs' = Append(inputs, new)
        BY <2>1 DEF new
      <4>. QED
        BY <1>0, <4>1
    <3>3. Feeding => Feeding'
      BY <1>0, <3>2 DEF Feeding
    <3>4. CASE Decisive(stack[1].todo[1])
      <4>1. stack[1].todo[1].do = "subscribe" /\ Arg = stack[1].todo[1].arg
        BY <2>1, AtHand DEF Takes
      <4>2. op = "takeUntil" => Arg[1] = 0
        BY <3>4, <4>1 DEF Decisive
      <4>. HIDE DEF new
      <4>. QED
        BY <1>0, <3>1, <3>2, <4>2 DEF Feeding
    <3>5. CASE ~Decisive(stack[1].todo[1])
      <4>1. Owed(stack) => Owed(stack)'
        BY <1>9, <2>1, <3>5, OwedAfter
      <4>2. Owed(stack)' <=> Owed(stack')
        BY <1>0 DEF Owed, DecisiveIn, Decisive
      <4>. QED
        BY <1>2, <2>1, <3>3, <4>1, <4>2
    <3>. QED
      BY <3>4, <3>5
  <2>2. ASSUME (Doing("subscribe") /\ Arg[1] # 0) \/ Doing("call"),
               stack' = Frames(<<Fail>>, "run", Tail(stack))
        PROVE  Owed(stack')
    <3>1. Tail(stack) \in Seq(OpFrame)
      BY <2>2, AtHand
    <3>2. DecisiveIn(<<Fail>>)
      <4>1. <<Fail>>[1] = Fail /\ 1 \in DOMAIN <<Fail>>
        OBVIOUS
      <4>2. Decisive(Fail)
        BY DEF Decisive, Fail, Step
      <4>. QED
        BY <4>1, <4>2 DEF DecisiveIn
    <3>. QED
      BY <1>9, <2>2, <3>1, <3>2, OwedFrames
  <2>3. ASSUME Takes("call", Remaining, "asked"), UNCHANGED <<active, inputs, log>>
        PROVE  active' => Owed(stack') \/ Feeding'
    BY <1>8, <1>9, <2>3
  <2>4. ASSUME NEW what \in {"next", "error", "complete"},
               Takes(what, Remaining, IF active THEN "call" ELSE "run"),
               active' = (active /\ what = "next"), UNCHANGED <<inputs, log>>, active'
        PROVE  Owed(stack') \/ Feeding'
    <3>1. active /\ what = "next"
      BY <2>4
    <3>. QED
      BY <1>8, <1>9, <2>4, <3>1
  <2>5. ASSUME stack # <<>>, stack' = Frames(stack[1].todo, "run", Tail(stack)),
               UNCHANGED <<active, inputs>>
        PROVE  active' => Owed(stack') \/ Feeding'
    <3>1. stack[1] \in OpFrame /\ Tail(stack) \in Seq(OpFrame)
      BY <1>0, <2>5
    <3>2. stack[1].todo \in Seq(OpStep)
      BY <3>1 DEF OpFrame
    <3>3. Owed(stack') <=> Owed(stack)
      BY <1>0, <2>5, <3>1, <3>2, OwedFrames, OwedTop
    <3>. QED
      BY <1>2, <1>4, <2>5, <3>3
  <2>. DEFINE place == IF active THEN "within" ELSE "run"
              on == active /\ Arg[2] \notin aborted
  <2>6. \/ /\ Takes("subscribe", Remaining, place) /\ active' = active
           /\ inputs' = Append(inputs, [role |-> Arg[1], ctl |-> Arg[2], on |-> on])
        \/ /\ (Doing("subscribe") /\ Arg[1] # 0) \/ Doing("call")
           /\ stack' = Frames(<<Fail>>, "run", Tail(stack))
        \/ Takes("call", Remaining, "asked") /\ UNCHANGED <<active, inputs, log>>
        \/ \E what \in {"next", "error", "complete"} :
             /\ Takes(what, Remaining, IF active THEN "call" ELSE "run")
             /\ active' = (active /\ what = "next") /\ UNCHANGED <<inputs, log>>
        \/ /\ stack # <<>> /\ stack' = Frames(stack[1].todo, "run", Tail(stack))
           /\ UNCHANGED <<active, inputs>>
        \/ active' = FALSE
    BY <1>11, SharedSteps
  <2>7. SUFFICES ASSUME active' PROVE Owed(stack') \/ Feeding'
    BY <1>2, <1>3
  <2>8. CASE /\ Takes("subscribe", Remaining, place) /\ active' = active
             /\ inputs' = Append(inputs, [role |-> Arg[1], ctl |-> Arg[2], on |-> on])
    BY <2>1, <2>7, <2>8
  <2>9. CASE /\ (Doing("subscribe") /\ Arg[1] # 0) \/ Doing("call")
             /\ stack' = Frames(<<Fail>>, "run", Tail(stack))
    BY <2>2, <2>9
  <2>10. CASE \E what \in {"next", "error", "complete"} :
                /\ Takes(what, Remaining, IF active THEN "call" ELSE "run")
                /\ active' = (active /\ what = "next") /\ UNCHANGED <<inputs, log>>
    BY <2>4, <2>7, <2>10
  <2>11. CASE Takes("call", Remaining, "asked") /\ UNCHANGED <<active, inputs, log>>
    BY <2>3, <2>7, <2>11
  <2>12. CASE /\ stack # <<>> /\ stack' = Frames(stack[1].todo, "run", Tail(stack))
              /\ UNCHANGED <<active, inputs>>
    BY <2>5, <2>7, <2>12
  <2>. HIDE DEF place, on
  <2>. QED
    BY <2>6, <2>7, <2>8, <2>9, <2>10, <2>11, <2>12
<1>12. QED
  BY <1>2, <1>3, <1>6, <1>7, <1>10, <1>11 DEF Next

-----------------------------------------------------------------------------
(* flatMap and switchMap: how a frame goes on or off the stack.             *)
LEMMA Above ==
  ASSUME NEW below \in Seq(OpFrame), \A j \in DOMAIN below : Resting(below[j]),
         NEW own, NEW todo \in Seq(OpStep), NEW place,
         \/ todo = <<>> /\ place \in {"run", "call", "within"}
         \/ Innermost([todo |-> todo, at |-> place], own)
  PROVE  /\ FlatFrames(Frames(todo, place, below), own)
         /\ TodoOf(Frames(todo, place, below)) = todo
<1>1. CASE todo = <<>> /\ place = "run"
  <2>1. Frames(todo, place, below) = below
    BY <1>1 DEF Frames
  <2>2. below # <<>> => Resting(below[1]) /\ below[1].todo = <<>>
    BY DEF Resting
  <2>. QED
    BY <1>1, <2>1, <2>2 DEF FlatFrames, TodoOf, Innermost
<1>2. CASE ~(todo = <<>> /\ place = "run")
  <2>. DEFINE f == [todo |-> todo, at |-> place]
              new == <<f>> \o below
  <2>1. Frames(todo, place, below) = new
    BY <1>2 DEF Frames
  <2>2. new # <<>> /\ new[1] = f /\ \A j \in DOMAIN new : j # 1 => j - 1 \in DOMAIN below /\ new[j] = below[j - 1]
    OBVIOUS
  <2>3. f.todo = todo /\ f.at = place
    OBVIOUS
  <2>4. Innermost(f, own)
    <3>1. CASE todo = <<>> /\ place \in {"run", "call", "within"}
      <4>1. place \in {"call", "within"}
        BY <1>2, <3>1
      <4>. QED
        BY <2>3, <3>1, <4>1 DEF Innermost, Resting
    <3>. QED
      BY <3>1
  <2>. HIDE DEF f, new
  <2>5. FlatFrames(new, own)
    BY <2>2, <2>4 DEF FlatFrames
  <2>6. TodoOf(new) = todo
    BY <2>2, <2>3 DEF TodoOf
  <2>. QED
    BY <2>1, <2>5, <2>6
<1>3. QED
  BY <1>1, <1>2

(* Nothing is left to do when an input is heard: no function of the user's  *)
(* is in progress.                                                          *)
LEMMA HeardAtRest ==
  ASSUME ParametersOK, OpTyped, FlatFrames(stack, Own), op \in {"flatMap", "switchMap"},
         NEW i, NEW todo, Heeds(i, todo),
         todo = <<>> \/ Innermost([todo |-> todo, at |-> "run"], Own)
  PROVE  /\ Todo = <<>>
         /\ FlatFrames(stack, Own)' /\ Todo' = todo
<1>1. /\ stack \in Seq(OpFrame) /\ stack' = Frames(todo, "run", stack) /\ todo \in Seq(OpStep)
      /\ op' = op
  BY DEF OpTyped, Heeds
<1>2. \A j \in DOMAIN stack : stack[j].at # "asked"
  BY DEF ParametersOK, Heeds, IsCalm, NotAsked
<1>3. stack # <<>> => stack[1].at # "run" /\ 1 \in DOMAIN stack
  BY <1>1 DEF Heeds, UserTurn, Top
<1>4. stack # <<>> => Resting(stack[1])
  BY <1>2, <1>3 DEF FlatFrames, Innermost
<1>5. \A j \in DOMAIN stack : Resting(stack[j])
  <2>1. \A j \in DOMAIN stack : stack # <<>>
    BY <1>1
  <2>. QED
    BY <1>4, <2>1 DEF FlatFrames
<1>6. Todo = <<>>
  BY <1>4 DEF Todo, TodoOf, Resting
<1>7. FlatFrames(stack', Own) /\ TodoOf(stack') = todo
  BY <1>1, <1>5, Above
<1>8. QED
  BY <1>1, <1>6, <1>7 DEF Todo, Own, FlatFrames

LEMMA TailOfTwo ==
  ASSUME NEW Steps, NEW t \in Seq(Steps), Len(t) = 2
  PROVE  Tail(t) = <<t[2]>> /\ t[2] \in Steps
<1>1. t[2] \in Steps /\ t # <<>>
  OBVIOUS
<1>2. Tail(t) \in Seq(Steps) /\ Len(Tail(t)) = Len(t) - 1 /\ \A j \in 1 .. Len(Tail(t)) : Tail(t)[j] = t[j + 1]
  BY <1>1, HeadTailProperties
<1>3. Len(Tail(t)) = 1 /\ Tail(t)[1] = t[2]
  BY <1>2
<1>4. <<t[2]>> \in Seq(Steps) /\ Len(<<t[2]>>) = 1 /\ <<t[2]>>[1] = t[2]
  BY <1>1
<1>5. ASSUME NEW j \in 1 .. Len(Tail(t)) PROVE Tail(t)[j] = <<t[2]>>[j]
  <2>. DEFINE n == Len(Tail(t))
  <2>2. n = 1 /\ j \in 1 .. n
    BY <1>3
  <2>. HIDE DEF n
  <2>1. j = 1
    BY <2>2
  <2>. QED
    BY <1>3, <1>4, <2>1
<1>6. Tail(t) = <<t[2]>>
  BY <1>2, <1>3, <1>4, <1>5, SeqEqual
<1>7. QED
  BY <1>1, <1>6

(* A step of the innermost frame: all but the mapper are the only one.      *)
LEMMA OnlyStep ==
  ASSUME OpTyped, FlatFrames(stack, Own), NEW what, Doing(what)
  PROVE  /\ Todo # <<>> /\ Todo[1].do = what /\ Arg = Todo[1].arg /\ Todo = stack[1].todo
         /\ what \in {"subscribe", "next", "complete", "error", "call", Own}
         /\ what # "call" => Remaining = <<>> /\ Len(Todo) = 1
         /\ what = "call" => /\ Remaining = <<Todo[2]>> /\ Len(Todo) = 2 /\ Todo[2].do = Own
                             /\ Todo[2] \in OpStep
         /\ \A j \in DOMAIN Tail(stack) : Resting(Tail(stack)[j])
         /\ Tail(stack) \in Seq(OpFrame)
<1>1. /\ stack # <<>> /\ Top = stack[1] /\ stack[1].at = "run"
      /\ stack[1].todo \in Seq(OpStep) /\ stack[1].todo # <<>>
      /\ stack[1].todo[1].do = what /\ Arg = stack[1].todo[1].arg
      /\ Tail(stack) \in Seq(OpFrame) /\ Remaining = Tail(stack[1].todo)
      /\ stack \in Seq(OpFrame)
  BY AtHand DEF Remaining, OpTyped
<1>2. Todo = stack[1].todo
  BY <1>1 DEF Todo, TodoOf
<1>3. \A j \in DOMAIN Tail(stack) : j + 1 \in DOMAIN stack /\ j + 1 # 1 /\ Tail(stack)[j] = stack[j + 1]
  BY <1>1
<1>4. \A j \in DOMAIN Tail(stack) : Resting(Tail(stack)[j])
  BY <1>3 DEF FlatFrames
<1>5. Own \in {"start", "switch"}
  BY DEF Own
<1>6. \/ Len(stack[1].todo) = 1 /\ what \in {"subscribe", "next", "complete", "error", Own}
      \/ Len(stack[1].todo) = 2 /\ what = "call" /\ stack[1].todo[2].do = Own
  BY <1>1 DEF FlatFrames, Innermost, Resting
<1>7. CASE Len(stack[1].todo) = 1 /\ what \in {"subscribe", "next", "complete", "error", Own}
  <2>1. Tail(stack[1].todo) = <<>>
    BY <1>1, <1>7
  <2>2. what # "call"
    BY <1>5, <1>7
  <2>. QED
    BY <1>1, <1>2, <1>4, <1>7, <2>1, <2>2
<1>8. CASE Len(stack[1].todo) = 2 /\ what = "call" /\ stack[1].todo[2].do = Own
  <2>1. Tail(stack[1].todo) = <<stack[1].todo[2]>> /\ stack[1].todo[2] \in OpStep
    BY <1>1, <1>8, TailOfTwo
  <2>. QED
    BY <1>1, <1>2, <1>4, <1>8, <2>1
<1>9. QED
  BY <1>6, <1>7, <1>8

LEMMA OnlyStepTaken ==
  ASSUME OpTyped, FlatFrames(stack, Own), NEW what, NEW todo, NEW place,
         Takes(what, todo, place),
         \/ todo = <<>> /\ place \in {"run", "call", "within"}
         \/ Innermost([todo |-> todo, at |-> place], Own)
  PROVE  FlatFrames(stack, Own)' /\ Todo' = todo
<1>1. /\ Doing(what) /\ stack' = Frames(todo, place, Tail(stack)) /\ todo \in Seq(OpStep)
      /\ op' = op
  BY DEF Takes
<1>2. /\ \A j \in DOMAIN Tail(stack) : Resting(Tail(stack)[j])
      /\ Tail(stack) \in Seq(OpFrame)
  BY <1>1, OnlyStep
<1>3. FlatFrames(stack', Own) /\ TodoOf(stack') = todo
  BY <1>1, <1>2, Above
<1>4. QED
  BY <1>1, <1>3 DEF Todo, Own, FlatFrames

(* What the steps that all operators share make of them.                    *)
LEMMA FlatShared ==
  ASSUME OpTyped, FlatFrames(stack, Own), op \in {"flatMap", "switchMap"}, Ordinary
  PROVE  /\ FlatFrames(stack, Own)'
         /\ \/ /\ Opens(Todo) /\ Todo' = <<>>
               /\ inputs' = Append(inputs, [role |-> Todo[1].arg[1], ctl |-> Todo[1].arg[2],
                                            on |-> active /\ Todo[1].arg[2] \notin aborted])
               /\ active' = active /\ log' = log
            \/ Todo' = <<Fail>>
            \/ /\ Begins(Todo) /\ Len(Todo) = 2 /\ Todo' = <<Todo[2]>> /\ Todo[2].do = Own
               /\ Todo[2] \in OpStep /\ UNCHANGED <<active, inputs, log>>
            \/ /\ Todo # <<>> /\ Todo[1].do = "next" /\ Todo' = <<>>
               /\ UNCHANGED <<active, inputs, log>>
            \/ /\ Todo' = Todo /\ UNCHANGED <<active, inputs, log>>
            \/ active' = FALSE
<1>0. op' = op /\ stack \in Seq(OpFrame) /\ active \in BOOLEAN
      /\ (Fail \in OpStep /\ Fail.do = "error")
  BY SharedSteps, StepsTyped DEF OpTyped, Fail, Step
<1>1. ASSUME NEW what, Doing(what), stack' = Frames(<<Fail>>, "run", Tail(stack))
      PROVE  FlatFrames(stack, Own)' /\ Todo' = <<Fail>>
  <2>1. Innermost([todo |-> <<Fail>>, at |-> "run"], Own)
    BY <1>0 DEF Innermost
  <2>2. <<Fail>> \in Seq(OpStep)
    BY <1>0
  <2>3. /\ \A j \in DOMAIN Tail(stack) : Resting(Tail(stack)[j])
        /\ Tail(stack) \in Seq(OpFrame)
    BY <1>1, OnlyStep
  <2>4. FlatFrames(stack', Own) /\ TodoOf(stack') = <<Fail>>
    BY <1>1, <2>1, <2>2, <2>3, Above
  <2>. QED
    BY <1>0, <2>4 DEF Todo, Own, FlatFrames
<1>2. ASSUME NEW what \in {"subscribe", "next", "error", "complete"}, NEW place \in {"run", "call", "within"},
             Takes(what, Remaining, place)
      PROVE  /\ FlatFrames(stack, Own)' /\ Todo' = <<>>
             /\ Todo # <<>> /\ Todo[1].do = what /\ Arg = Todo[1].arg
  <2>1. /\ Todo # <<>> /\ Todo[1].do = what /\ Arg = Todo[1].arg /\ Remaining = <<>>
    BY <1>2, OnlyStep DEF Takes
  <2>. QED
    BY <1>2, <2>1, OnlyStepTaken
<1>3. ASSUME Takes("call", Remaining, "asked")
      PROVE  /\ FlatFrames(stack, Own)'
             /\ Begins(Todo) /\ Len(Todo) = 2 /\ Todo' = <<Todo[2]>> /\ Todo[2].do = Own
             /\ Todo[2] \in OpStep
  <2>1. /\ Todo # <<>> /\ Todo[1].do = "call" /\ Remaining = <<Todo[2]>> /\ Len(Todo) = 2
        /\ Todo[2].do = Own /\ Todo[2] \in OpStep
    BY <1>3, OnlyStep DEF Takes
  <2>2. Innermost([todo |-> <<Todo[2]>>, at |-> "asked"], Own)
    BY <2>1 DEF Innermost
  <2>3. FlatFrames(stack, Own)' /\ Todo' = <<Todo[2]>>
    BY <1>3, <2>1, <2>2, OnlyStepTaken
  <2>. QED
    BY <2>1, <2>3 DEF Begins
<1>4. ASSUME stack # <<>>, stack[1].at # "run", stack' = Frames(stack[1].todo, "run", Tail(stack))
      PROVE  FlatFrames(stack, Own)' /\ Todo' = Todo
  <2>1. stack[1] \in OpFrame /\ Tail(stack) \in Seq(OpFrame)
        /\ \A j \in DOMAIN Tail(stack) : j + 1 \in DOMAIN stack /\ j + 1 # 1 /\ Tail(stack)[j] = stack[j + 1]
    BY <1>0, <1>4
  <2>2. stack[1].todo \in Seq(OpStep) /\ \A j \in DOMAIN Tail(stack) : Resting(Tail(stack)[j])
    BY <2>1 DEF OpFrame, FlatFrames
  <2>3. \/ stack[1].todo = <<>>
        \/ Innermost([todo |-> stack[1].todo, at |-> "run"], Own)
    BY <1>4 DEF FlatFrames, Innermost, Resting
  <2>4. FlatFrames(stack', Own) /\ TodoOf(stack') = stack[1].todo
    BY <1>4, <2>1, <2>2, <2>3, Above
  <2>. QED
    BY <1>0, <1>4, <2>4 DEF Todo, TodoOf, Own, FlatFrames
<1>5. UNCHANGED stack => FlatFrames(stack, Own)' /\ Todo' = Todo
  BY <1>0 DEF Todo, Own, FlatFrames
<1>6. CASE /\ Takes("subscribe", Remaining, IF active THEN "within" ELSE "run")
           /\ inputs' = Append(inputs, [role |-> Arg[1], ctl |-> Arg[2],
                                        on |-> active /\ Arg[2] \notin aborted])
           /\ active' = active /\ log' = log
  <2>1. (IF active THEN "within" ELSE "run") \in {"run", "call", "within"}
    OBVIOUS
  <2>2. /\ FlatFrames(stack, Own)' /\ Todo' = <<>>
        /\ Todo # <<>> /\ Todo[1].do = "subscribe" /\ Arg = Todo[1].arg
    BY <1>2, <1>6, <2>1
  <2>. QED
    BY <1>6, <2>2 DEF Opens
<1>7. CASE \E what \in {"next", "error", "complete"} :
             /\ Takes(what, Remaining, IF active THEN "call" ELSE "run")
             /\ active' = (active /\ what = "next")
             /\ UNCHANGED <<inputs, log>>
  <2>1. PICK what \in {"next", "error", "complete"} :
             /\ Takes(what, Remaining, IF active THEN "call" ELSE "run")
             /\ active' = (active /\ what = "next")
             /\ UNCHANGED <<inputs, log>>
    BY <1>7
  <2>2. (IF active THEN "call" ELSE "run") \in {"run", "call", "within"}
    OBVIOUS
  <2>3. /\ FlatFrames(stack, Own)' /\ Todo' = <<>> /\ Todo # <<>> /\ Todo[1].do = what
    BY <1>2, <2>1, <2>2
  <2>4. CASE active /\ what = "next"
    <3>1. active' = active
      BY <2>1, <2>4
    <3>. QED
      BY <2>1, <2>3, <2>4, <3>1
  <2>5. CASE ~(active /\ what = "next")
    <3>1. active' = FALSE
      BY <2>1, <2>5
    <3>. QED
      BY <2>3, <3>1
  <2>. QED
    BY <2>4, <2>5
<1>8. CASE /\ (Doing("subscribe") /\ Arg[1] # 0) \/ Doing("call")
           /\ stack' = Frames(<<Fail>>, "run", Tail(stack))
  BY <1>1, <1>8
<1>9. CASE Takes("call", Remaining, "asked") /\ UNCHANGED <<active, inputs, log>>
  BY <1>3, <1>9
<1>10. CASE /\ stack # <<>> /\ stack[1].at # "run"
            /\ stack' = Frames(stack[1].todo, "run", Tail(stack))
            /\ UNCHANGED <<active, inputs, log>>
  BY <1>4, <1>10
<1>11. CASE active' = FALSE /\ UNCHANGED stack
  BY <1>5, <1>11
<1>12. \/ /\ Takes("subscribe", Remaining, IF active THEN "within" ELSE "run")
          /\ inputs' = Append(inputs, [role |-> Arg[1], ctl |-> Arg[2],
                                       on |-> active /\ Arg[2] \notin aborted])
          /\ active' = active /\ log' = log
       \/ \E what \in {"next", "error", "complete"} :
            /\ Takes(what, Remaining, IF active THEN "call" ELSE "run")
            /\ active' = (active /\ what = "next")
            /\ UNCHANGED <<inputs, log>>
       \/ /\ (Doing("subscribe") /\ Arg[1] # 0) \/ Doing("call")
          /\ stack' = Frames(<<Fail>>, "run", Tail(stack))
       \/ Takes("call", Remaining, "asked") /\ UNCHANGED <<active, inputs, log>>
       \/ /\ stack # <<>> /\ stack[1].at # "run"
          /\ stack' = Frames(stack[1].todo, "run", Tail(stack))
          /\ UNCHANGED <<active, inputs, log>>
       \/ active' = FALSE /\ UNCHANGED stack
  BY SharedSteps
<1>13. QED
  BY <1>6, <1>7, <1>8, <1>9, <1>10, <1>11, <1>12

-----------------------------------------------------------------------------
(* flatMap.                                                                 *)
LEMMA HeedsThis ==
  ASSUME NEW i, NEW other, Heeds(i, other), NEW todo \in Seq(OpStep), Enter(todo)
  PROVE  Heeds(i, todo)
BY DEF Heeds, Enter

(* What a handler may leave to do, as the innermost frame.                  *)
LEMMA LeftToDo ==
  ASSUME OpTyped
  PROVE  /\ Here \in Nat /\ Here = Len(log) + 1 /\ <<>> \in Seq(OpStep)
         /\ \A s \in {Value(Here), End, Fail} :
              /\ <<s>> \in Seq(OpStep) /\ Innermost([todo |-> <<s>>, at |-> "run"], Own)
              /\ ~Begins(<<s>>) /\ ~Opens(<<s>>)
         /\ Ends(<<End>>) /\ Ends(<<Fail>>) /\ ~Ends(<<Value(Here)>>)
<1>1. Here \in Nat /\ Here = Len(log) + 1
  BY DEF OpTyped, Here
<1>2. /\ Value(Here) \in OpStep /\ End \in OpStep /\ Fail \in OpStep
      /\ Value(Here).do = "next" /\ End.do = "complete" /\ Fail.do = "error"
  BY <1>1, StepsTyped DEF Value, End, Fail, Step
<1>3. ASSUME NEW s \in {Value(Here), End, Fail}
      PROVE  /\ <<s>> \in Seq(OpStep) /\ Innermost([todo |-> <<s>>, at |-> "run"], Own)
             /\ ~Begins(<<s>>) /\ ~Opens(<<s>>)
  <2>1. s \in OpStep /\ s.do \in {"next", "complete", "error"}
    BY <1>2
  <2>. QED
    BY <2>1 DEF Innermost, Begins, Opens
<1>4. Ends(<<End>>) /\ Ends(<<Fail>>) /\ ~Ends(<<Value(Here)>>)
  BY <1>2 DEF Ends
<1>5. QED
  BY <1>1, <1>3, <1>4

LEMMA MapperLeft ==
  ASSUME OpTyped, NEW p \in Nat, NEW what \in {"start", "switch"}
  PROVE  LET todo == <<Call, Step(what, <<p>>)>>
         IN  /\ todo \in Seq(OpStep) /\ Begins(todo) /\ ~Opens(todo) /\ ~Ends(todo)
             /\ what = Own => Innermost([todo |-> todo, at |-> "run"], Own)
             /\ NewCtl(todo) = p
<1>1. /\ Call \in OpStep /\ Step(what, <<p>>) \in OpStep
      /\ Call.do = "call" /\ Step(what, <<p>>).do = what /\ Step(what, <<p>>).arg[1] = p
  BY StepsTyped DEF Call, Step
<1>. DEFINE s == Step(what, <<p>>)
            todo == <<Call, s>>
<1>2. s \in OpStep /\ s.do = what /\ s.arg[1] = p
  BY <1>1
<1>. HIDE DEF s
<1>3. todo \in Seq(OpStep) /\ todo[1] = Call /\ todo[2] = s /\ Len(todo) = 2 /\ todo # <<>>
  BY <1>1, <1>2
<1>. HIDE DEF todo
<1>4. Begins(todo) /\ ~Opens(todo) /\ ~Ends(todo) /\ NewCtl(todo) = p
      /\ (what = Own => Innermost([todo |-> todo, at |-> "run"], Own))
  BY <1>1, <1>2, <1>3 DEF Begins, Opens, Ends, NewCtl, Innermost
<1>5. QED
  BY <1>3, <1>4 DEF todo, s

LEMMA FlatMapNext ==
  ASSUME ParametersOK, OpTyped, FlatMapFed, op = "flatMap", NEW i, InputNext(i)
  PROVE  /\ Todo = <<>> /\ FlatFrames(stack, Own)' /\ UNCHANGED <<inputs, aborted, active>>
         /\ active
         /\ \/ /\ ~Begins(Todo') /\ ~Opens(Todo') /\ ~Ends(Todo')
               /\ \/ st' = st
                  \/ st' = [st EXCEPT !.buffer = Append(@, Here)] /\ ~(st.n < 1)
            \/ /\ Begins(Todo') /\ ~Opens(Todo') /\ ~Ends(Todo')
               /\ st' = st /\ st.n < 1
<1>1. PICK other : Heeds(i, other)
  BY NextAnswers
<1>2. FlatFrames(stack, Own) /\ inputs' = inputs /\ aborted' = aborted /\ active' = active /\ active
      /\ Own = "start"
  BY <1>1, NextAnswers DEF Heeds, FlatMapFed, Own
<1>3. ASSUME NEW todo \in Seq(OpStep), Enter(todo),
             todo = <<>> \/ Innermost([todo |-> todo, at |-> "run"], Own)
      PROVE  Todo = <<>> /\ FlatFrames(stack, Own)' /\ Todo' = todo
  <2>1. Heeds(i, todo)
    BY <1>1, <1>3, HeedsThis
  <2>. QED
    BY <1>2, <1>3, <2>1, HeardAtRest
<1>4. FlatMap \/ OtherNext
  BY DEF InputNext, Mirror, Map, Filter, Take, Drop, SwitchMap
<1>5. CASE OtherNext
  <2>1. st' = st /\ Enter(<<Value(Here)>>)
    BY <1>5 DEF OtherNext, Do
  <2>. QED
    BY <1>2, <1>3, <2>1, LeftToDo
<1>6. CASE FlatMap /\ st.n < 1
  <2>. DEFINE todo == <<Call, Step("start", <<Here>>)>>
  <2>1. st' = st /\ Enter(todo)
    BY <1>6 DEF FlatMap, Do, InnerSub
  <2>2. /\ todo \in Seq(OpStep) /\ Begins(todo) /\ ~Opens(todo) /\ ~Ends(todo)
        /\ Innermost([todo |-> todo, at |-> "run"], Own)
    BY <1>2, LeftToDo, MapperLeft
  <2>. HIDE DEF todo
  <2>. QED
    BY <1>2, <1>3, <1>6, <2>1, <2>2
<1>7. CASE FlatMap /\ ~(st.n < 1)
  <2>1. st' = [st EXCEPT !.buffer = Append(@, Here)] /\ Enter(<<>>)
    BY <1>7 DEF FlatMap, Do
  <2>2. Todo = <<>> /\ FlatFrames(stack, Own)' /\ Todo' = <<>>
    BY <1>3, <2>1, LeftToDo
  <2>. QED
    BY <1>2, <1>7, <2>1, <2>2 DEF Begins, Opens, Ends
<1>8. QED
  BY <1>4, <1>5, <1>6, <1>7

LEMMA FlatMapEnd ==
  ASSUME ParametersOK, OpTyped, FlatMapFed, op = "flatMap", NEW i, InputCompletes(i) \/ InputFails(i)
  PROVE  /\ Todo = <<>> /\ FlatFrames(stack, Own)' /\ UNCHANGED <<aborted, active>>
         /\ active /\ i \in DOMAIN inputs /\ inputs[i].on
         /\ inputs' = [inputs EXCEPT ![i].on = FALSE]
         /\ \/ Ends(Todo')
            \/ /\ inputs[i].role = 0 /\ ~(st.n = 0 /\ st.buffer = <<>>)
               /\ st' = [st EXCEPT !.done = TRUE] /\ Todo' = <<>>
            \/ /\ inputs[i].role # 0 /\ st.buffer # <<>>
               /\ st' = [st EXCEPT !.n = @ - 1, !.buffer = Tail(@)]
               /\ Begins(Todo') /\ ~Opens(Todo') /\ ~Ends(Todo')
            \/ /\ inputs[i].role # 0 /\ st.buffer = <<>> /\ ~(st.done /\ st.n - 1 = 0)
               /\ st' = [st EXCEPT !.n = @ - 1] /\ Todo' = <<>>
<1>1. PICK other : Heeds(i, other)
  BY EndAnswers
<1>2. FlatFrames(stack, Own) /\ aborted' = aborted /\ active' = active /\ active
      /\ i \in DOMAIN inputs /\ inputs[i].on
      /\ inputs' = [inputs EXCEPT ![i].on = FALSE]
      /\ Own = "start" /\ Role(i) = inputs[i].role
  BY <1>1, EndAnswers DEF Heeds, FlatMapFed, Own, Role
<1>3. ASSUME NEW todo \in Seq(OpStep), Enter(todo),
             todo = <<>> \/ Innermost([todo |-> todo, at |-> "run"], Own)
      PROVE  Todo = <<>> /\ FlatFrames(stack, Own)' /\ Todo' = todo
  <2>1. Heeds(i, todo)
    BY <1>1, <1>3, HeedsThis
  <2>. QED
    BY <1>2, <1>3, <2>1, HeardAtRest
<1>4. ASSUME Enter(<<End>>) \/ Enter(<<Fail>>)
      PROVE  Todo = <<>> /\ FlatFrames(stack, Own)' /\ Ends(Todo')
  BY <1>3, <1>4, LeftToDo
<1>5. CASE InputFails(i)
  <2>1. Enter(<<Fail>>)
    BY <1>5 DEF InputFails, Do
  <2>. QED
    BY <1>2, <1>4, <2>1
<1>6. CASE InputCompletes(i) /\ inputs[i].role = 0
  <2>1. Do([st EXCEPT !.done = TRUE], EndIf(st.n = 0 /\ st.buffer = <<>>))
    BY <1>2, <1>6 DEF InputCompletes, SourceCompletes, Source
  <2>2. CASE st.n = 0 /\ st.buffer = <<>>
    BY <1>2, <1>4, <2>1, <2>2 DEF Do, EndIf
  <2>3. CASE ~(st.n = 0 /\ st.buffer = <<>>)
    <3>1. Enter(<<>>) /\ st' = [st EXCEPT !.done = TRUE]
      BY <2>1, <2>3 DEF Do, EndIf
    <3>2. Todo = <<>> /\ FlatFrames(stack, Own)' /\ Todo' = <<>>
      BY <1>3, <3>1, LeftToDo
    <3>. QED
      BY <1>2, <1>6, <2>3, <3>1, <3>2
  <2>. QED
    BY <2>2, <2>3
<1>7. CASE InputCompletes(i) /\ inputs[i].role # 0
  <2>. DEFINE s == [st EXCEPT !.n = @ - 1]
  <2>1. OtherCompletes
    BY <1>2, <1>7 DEF InputCompletes, Source
  <2>2. IF s.buffer # <<>>
        THEN Do([s EXCEPT !.buffer = Tail(@)], InnerSub(Head(s.buffer)))
        ELSE Do(s, EndIf(s.done /\ s.n = 0))
    BY <2>1 DEF OtherCompletes
  <2>3. st \in OpState /\ s.buffer = st.buffer /\ s.done = st.done /\ s.n = st.n - 1
    BY DEF OpTyped, OpState
  <2>4. CASE st.buffer # <<>>
    <3>. DEFINE p == Head(st.buffer)
                todo == <<Call, Step("start", <<p>>)>>
    <3>1. p \in Nat
      BY <2>3, <2>4 DEF OpState
    <3>2. Enter(todo) /\ st' = [s EXCEPT !.buffer = Tail(@)]
      BY <2>2, <2>3, <2>4 DEF Do, InnerSub
    <3>3. st' = [st EXCEPT !.n = @ - 1, !.buffer = Tail(@)]
      BY <3>2
    <3>4. /\ todo \in Seq(OpStep) /\ Begins(todo) /\ ~Opens(todo) /\ ~Ends(todo)
          /\ Innermost([todo |-> todo, at |-> "run"], Own)
      <4>. HIDE DEF p
      <4>. QED
        BY <1>2, <3>1, MapperLeft
    <3>. HIDE DEF p, todo
    <3>5. Todo = <<>> /\ FlatFrames(stack, Own)' /\ Todo' = todo
      BY <1>3, <3>2, <3>4
    <3>. QED
      BY <1>2, <1>7, <2>4, <3>3, <3>4, <3>5
  <2>5. CASE st.buffer = <<>> /\ st.done /\ st.n - 1 = 0
    <3>1. Enter(<<End>>)
      BY <2>2, <2>3, <2>5 DEF Do, EndIf
    <3>. QED
      BY <1>2, <1>4, <3>1
  <2>6. CASE st.buffer = <<>> /\ ~(st.done /\ st.n - 1 = 0)
    <3>1. Enter(<<>>) /\ st' = s
      BY <2>2, <2>3, <2>6 DEF Do, EndIf
    <3>2. Todo = <<>> /\ FlatFrames(stack, Own)' /\ Todo' = <<>>
      BY <1>3, <3>1, LeftToDo
    <3>. QED
      BY <1>2, <1>7, <2>6, <3>1, <3>2
  <2>. QED
    BY <2>4, <2>5, <2>6
<1>8. QED
  BY <1>5, <1>6, <1>7

LEMMA NoStep ==
  ~Begins(<<>>) /\ ~Opens(<<>>) /\ ~Ends(<<>>)
BY DEF Begins, Opens, Ends

LEMMA FlatMapStep ==
  ASSUME ParametersOK, OpTyped, FlatMapFed, op = "flatMap", Next
  PROVE  FlatFrames(stack, Own)' /\ aborted' = {} /\ (active' /\ ~Ends(Todo') => InnerCounted')
<1>. USE NoStep
<1>0. /\ FlatFrames(stack, Own) /\ aborted = {} /\ (active /\ ~Ends(Todo) => InnerCounted)
      /\ st \in OpState /\ st.n \in Nat /\ st.buffer \in Seq(Nat) /\ active \in BOOLEAN
      /\ inputs \in Seq(Input) /\ Own = "start"
  BY DEF FlatMapFed, OpTyped, OpState, Own
<1>1. ASSUME NEW i, InputNext(i)
      PROVE  FlatFrames(stack, Own)' /\ aborted' = {} /\ InnerCounted'
  <2>1. /\ Todo = <<>> /\ FlatFrames(stack, Own)' /\ UNCHANGED <<inputs, aborted, active>>
        /\ active
        /\ \/ /\ ~Begins(Todo') /\ ~Opens(Todo') /\ ~Ends(Todo')
              /\ \/ st' = st
                 \/ st' = [st EXCEPT !.buffer = Append(@, Here)] /\ ~(st.n < 1)
           \/ /\ Begins(Todo') /\ ~Opens(Todo') /\ ~Ends(Todo')
              /\ st' = st /\ st.n < 1
    BY <1>1, FlatMapNext
  <2>2. InnerCounted /\ ~Opens(Todo) /\ ~Begins(Todo) /\ Inners' = Inners
    BY <1>0, <2>1 DEF Inners
  <2>3. st'.n = st.n /\ st'.done = st.done /\ (st'.buffer = st.buffer \/ ~(st.n < 1))
    BY <1>0, <2>1 DEF OpState
  <2>4. FedBySource => FedBySource'
    BY <2>1, <2>2 DEF FedBySource, OpensSource
  <2>5. /\ Begins(Todo') => st'.n = 0
        /\ st'.buffer # <<>> \/ st'.done => st'.n = 1 \/ Begins(Todo')
    <3>1. st.n = 0 \/ st.n = 1
      BY <2>2 DEF InnerCounted
    <3>. QED
      BY <1>0, <2>1, <2>2, <2>3, <3>1 DEF InnerCounted
  <2>6. InnerCounted'
    BY <2>1, <2>2, <2>3, <2>4, <2>5 DEF InnerCounted, OpensInner
  <2>. QED
    BY <1>0, <2>1, <2>6
<1>2. ASSUME NEW i, InputCompletes(i) \/ InputFails(i)
      PROVE  FlatFrames(stack, Own)' /\ aborted' = {} /\ (~Ends(Todo') => InnerCounted')
  <2>1. /\ Todo = <<>> /\ FlatFrames(stack, Own)' /\ UNCHANGED <<aborted, active>>
        /\ active /\ i \in DOMAIN inputs /\ inputs[i].on
        /\ inputs' = [inputs EXCEPT ![i].on = FALSE]
        /\ \/ Ends(Todo')
           \/ /\ inputs[i].role = 0 /\ ~(st.n = 0 /\ st.buffer = <<>>)
              /\ st' = [st EXCEPT !.done = TRUE] /\ Todo' = <<>>
           \/ /\ inputs[i].role # 0 /\ st.buffer # <<>>
              /\ st' = [st EXCEPT !.n = @ - 1, !.buffer = Tail(@)]
              /\ Begins(Todo') /\ ~Opens(Todo') /\ ~Ends(Todo')
           \/ /\ inputs[i].role # 0 /\ st.buffer = <<>> /\ ~(st.done /\ st.n - 1 = 0)
              /\ st' = [st EXCEPT !.n = @ - 1] /\ Todo' = <<>>
    BY <1>2, FlatMapEnd
  <2>2. InnerCounted /\ ~Opens(Todo) /\ ~Begins(Todo) /\ ~Ends(Todo)
    BY <1>0, <2>1
  <2>3. /\ DOMAIN inputs' = DOMAIN inputs /\ ~inputs'[i].on
        /\ \A j \in DOMAIN inputs : j # i => inputs'[j] = inputs[j]
        /\ inputs'[i].role = inputs[i].role
    <3>1. inputs[i] \in Input
      BY <1>0, <2>1
    <3>. QED
      BY <2>1, <3>1 DEF Input
  <2>4. Inners' = Inners \ {i}
    BY <2>1, <2>3 DEF Inners
  <2>5. CASE /\ inputs[i].role = 0 /\ ~(st.n = 0 /\ st.buffer = <<>>)
             /\ st' = [st EXCEPT !.done = TRUE] /\ Todo' = <<>>
    <3>1. Inners' = Inners
      BY <2>4, <2>5 DEF Inners
    <3>2. st'.n = st.n /\ st'.done = TRUE /\ st'.buffer = st.buffer
      BY <1>0, <2>5 DEF OpState
    <3>3. st.n = 1
      BY <2>2, <2>5 DEF InnerCounted
    <3>. QED
      BY <1>0, <2>1, <2>2, <2>5, <3>1, <3>2, <3>3 DEF InnerCounted, OpensInner
  <2>6. ASSUME inputs[i].role # 0
        PROVE  st.n = 1 /\ Inners' = {}
    <3>1. i \in Inners
      BY <2>1, <2>6 DEF Inners
    <3>2. st.n = 1 /\ \A j \in Inners : j = i
      BY <2>2, <3>1 DEF InnerCounted
    <3>. QED
      BY <2>4, <3>1, <3>2
  <2>7. ASSUME inputs[i].role # 0, FedBySource PROVE FedBySource'
    <3>1. PICK j \in DOMAIN inputs : inputs[j].role = 0 /\ inputs[j].ctl = 0 /\ inputs[j].on
      BY <2>2, <2>7 DEF FedBySource, OpensSource
    <3>2. j \in DOMAIN inputs' /\ inputs'[j] = inputs[j]
      BY <2>3, <2>7, <3>1
    <3>. QED
      BY <3>1, <3>2 DEF FedBySource
  <2>8. CASE /\ inputs[i].role # 0 /\ st.buffer # <<>>
             /\ st' = [st EXCEPT !.n = @ - 1, !.buffer = Tail(@)]
             /\ Begins(Todo') /\ ~Opens(Todo') /\ ~Ends(Todo')
    <3>1. st'.n = 0 /\ st'.done = st.done
      BY <1>0, <2>6, <2>8 DEF OpState
    <3>2. st'.done \/ FedBySource'
      BY <2>2, <2>7, <2>8, <3>1 DEF InnerCounted
    <3>. QED
      BY <1>0, <2>1, <2>6, <2>8, <3>1, <3>2 DEF InnerCounted, OpensInner
  <2>9. CASE /\ inputs[i].role # 0 /\ st.buffer = <<>> /\ ~(st.done /\ st.n - 1 = 0)
             /\ st' = [st EXCEPT !.n = @ - 1] /\ Todo' = <<>>
    <3>1. st'.n = 0 /\ st'.done = st.done /\ st'.buffer = <<>> /\ ~st.done
      BY <1>0, <2>6, <2>9 DEF OpState
    <3>2. FedBySource'
      BY <2>2, <2>7, <2>9, <3>1 DEF InnerCounted
    <3>. QED
      BY <1>0, <2>1, <2>6, <2>9, <3>1, <3>2 DEF InnerCounted, OpensInner
  <2>10. FlatFrames(stack, Own)' /\ aborted' = {}
    BY <1>0, <2>1
  <2>. QED
    BY <2>1, <2>5, <2>8, <2>9, <2>10
<1>3. CASE Enough \/ Watch \/ StartInner \/ SwitchInner
  <2>1. UNCHANGED <<inputs, aborted, active>>
    BY <1>3, OwnSteps
  <2>2. /\ Takes("start", <<Subscribe(2 + Arg[1], 0)>> \o Remaining, "run")
        /\ st' = [st EXCEPT !.n = @ + 1]
    <3>1. ASSUME NEW what, NEW todo, NEW place, Takes(what, todo, place)
          PROVE  what \in {"subscribe", "next", "complete", "error", "call", "start"}
      BY <1>0, <3>1, OnlyStep DEF Takes
    <3>. QED
      BY <1>3, <3>1, OwnSteps
  <2>3. Arg[1] \in Nat /\ Remaining = <<>> /\ Begins(Todo) /\ ~Ends(Todo) /\ ~Opens(Todo)
    BY <1>0, <2>2, OnlyStep, ArgTyped DEF Takes, Begins, Ends, Opens
  <2>. DEFINE sub == Subscribe(2 + Arg[1], 0)
  <2>4. /\ sub \in OpStep /\ sub.do = "subscribe" /\ sub.arg[1] # 0
    BY <2>3, StepsTyped DEF Subscribe, Step
  <2>. HIDE DEF sub
  <2>5. /\ <<sub>> \o <<>> = <<sub>> /\ Opens(<<sub>>) /\ OpensInner(<<sub>>) /\ ~Begins(<<sub>>)
        /\ ~Ends(<<sub>>)
        /\ Innermost([todo |-> <<sub>>, at |-> "run"], Own)
    BY <2>4 DEF Opens, OpensInner, Begins, Ends, Innermost
  <2>6. Takes("start", <<sub>>, "run")
    BY <2>2, <2>3, <2>5 DEF sub
  <2>7. FlatFrames(stack, Own)' /\ Todo' = <<sub>>
    BY <1>0, <2>5, <2>6, OnlyStepTaken
  <2>8. ASSUME active PROVE InnerCounted'
    <3>1. InnerCounted /\ st.n = 0 /\ Inners' = Inners
      BY <1>0, <2>1, <2>3, <2>8 DEF InnerCounted, Inners
    <3>2. Inners = {} /\ ~OpensInner(Todo)
      BY <3>1 DEF InnerCounted
    <3>3. st'.n = 1 /\ st'.done = st.done
      BY <1>0, <2>2, <3>1 DEF OpState
    <3>4. FedBySource => FedBySource'
      BY <2>1, <2>3 DEF FedBySource, OpensSource
    <3>. QED
      BY <2>5, <2>7, <3>1, <3>2, <3>3, <3>4 DEF InnerCounted
  <2>. QED
    BY <1>0, <2>1, <2>7, <2>8
<1>4. CASE Ordinary
  <2>0. st' = st /\ aborted' = aborted /\ (active' => active)
    BY <1>4, SharedSteps, OverForGood
  <2>1. FlatFrames(stack, Own)'
    BY <1>0, <1>4, FlatShared
  <2>2. SUFFICES ASSUME active', ~Ends(Todo') PROVE InnerCounted'
    BY <1>0, <2>0, <2>1
  <2>3. CASE /\ Opens(Todo) /\ Todo' = <<>>
             /\ inputs' = Append(inputs, [role |-> Todo[1].arg[1], ctl |-> Todo[1].arg[2],
                                          on |-> active /\ Todo[1].arg[2] \notin aborted])
    <3>. DEFINE new == [role |-> Todo[1].arg[1], ctl |-> Todo[1].arg[2],
                        on |-> active /\ Todo[1].arg[2] \notin aborted]
    <3>1. new.on /\ new.role = Todo[1].arg[1] /\ new.ctl = Todo[1].arg[2]
      BY <1>0, <2>0, <2>2
    <3>2. ~Ends(Todo) /\ ~Begins(Todo)
      BY <2>3 DEF Opens, Ends, Begins
    <3>3. InnerCounted
      BY <1>0, <2>0, <2>2, <3>2
    <3>. HIDE DEF new
    <3>4. /\ DOMAIN inputs' = DOMAIN inputs \cup {Len(inputs) + 1}
          /\ Len(inputs) + 1 \notin DOMAIN inputs
          /\ inputs'[Len(inputs) + 1] = new
          /\ \A j \in DOMAIN inputs : inputs'[j] = inputs[j]
      <4>1. inputs' = Append(inputs, new)
        BY <2>3 DEF new
      <4>. QED
        BY <1>0, <4>1
    <3>5. Inners' = IF new.role # 0 THEN Inners \cup {Len(inputs) + 1} ELSE Inners
      BY <3>1, <3>4 DEF Inners
    <3>6. FedBySource => FedBySource'
      BY <3>1, <3>4 DEF FedBySource, OpensSource
    <3>7. CASE new.role # 0
      <4>1. OpensInner(Todo)
        BY <2>3, <3>1, <3>7 DEF OpensInner
      <4>2. Inners = {} /\ st.n = 1
        BY <3>3, <4>1 DEF InnerCounted
      <4>3. Inners' = {Len(inputs) + 1}
        BY <3>5, <3>7, <4>2
      <4>. QED
        BY <2>0, <2>3, <3>3, <3>6, <4>2, <4>3 DEF InnerCounted, OpensInner
    <3>8. CASE new.role = 0
      <4>1. ~OpensInner(Todo) /\ Inners' = Inners
        BY <3>1, <3>5, <3>8 DEF OpensInner
      <4>. QED
        BY <2>0, <2>3, <3>2, <3>3, <3>6, <4>1 DEF InnerCounted, OpensInner
    <3>. QED
      BY <3>7, <3>8
  <2>4. CASE /\ Begins(Todo) /\ Len(Todo) = 2 /\ Todo' = <<Todo[2]>> /\ Todo[2].do = Own
             /\ UNCHANGED <<active, inputs, log>>
    <3>1. ~Ends(Todo) /\ ~Opens(Todo) /\ Begins(Todo') /\ ~Ends(Todo') /\ ~Opens(Todo')
      BY <1>0, <2>4 DEF Begins, Ends, Opens
    <3>2. InnerCounted /\ Inners' = Inners
      BY <1>0, <2>2, <2>4, <3>1 DEF Inners
    <3>3. FedBySource => FedBySource'
      BY <2>4, <3>1 DEF FedBySource, OpensSource
    <3>. QED
      BY <2>0, <2>4, <3>1, <3>2, <3>3 DEF InnerCounted, OpensInner
  <2>5. CASE /\ Todo # <<>> /\ Todo[1].do = "next" /\ Todo' = <<>>
             /\ UNCHANGED <<active, inputs, log>>
    <3>1. ~Ends(Todo) /\ ~Opens(Todo) /\ ~Begins(Todo)
      BY <2>5 DEF Begins, Ends, Opens
    <3>2. InnerCounted /\ Inners' = Inners
      BY <1>0, <2>2, <2>5, <3>1 DEF Inners
    <3>3. FedBySource => FedBySource'
      BY <2>5, <3>1 DEF FedBySource, OpensSource
    <3>. QED
      BY <2>0, <2>5, <3>1, <3>2, <3>3 DEF InnerCounted, OpensInner
  <2>6. CASE Todo' = Todo /\ UNCHANGED <<active, inputs, log>>
    <3>1. InnerCounted /\ Inners' = Inners /\ (FedBySource => FedBySource')
      BY <1>0, <2>2, <2>6 DEF Inners, FedBySource
    <3>. QED
      BY <2>0, <2>6, <3>1 DEF InnerCounted
  <2>7. CASE Todo' = <<Fail>>
    BY <2>2, <2>7, LeftToDo
  <2>. QED
    BY <1>0, <1>4, <2>2, <2>3, <2>4, <2>5, <2>6, <2>7, FlatShared
<1>5. QED
  BY <1>0, <1>1, <1>2, <1>3, <1>4 DEF Next

-----------------------------------------------------------------------------
(* switchMap.                                                               *)
LEMMA SwitchMapNext ==
  ASSUME ParametersOK, OpTyped, SwitchMapFed, op = "switchMap", NEW i, InputNext(i)
  PROVE  /\ Todo = <<>> /\ FlatFrames(stack, Own)' /\ UNCHANGED <<inputs, active>>
         /\ active /\ Len(log') = Len(log) + 1
         /\ ~Opens(Todo') /\ ~Ends(Todo')
         /\ \/ ~Begins(Todo') /\ st' = st /\ aborted' = aborted
            \/ /\ Begins(Todo') /\ NewCtl(Todo') = Len(log) + 1
               /\ st' = [st EXCEPT !.ctl = 0] /\ aborted' = aborted \cup ({st.ctl} \ {0})
<1>1. PICK other : Heeds(i, other)
  BY NextAnswers
<1>2. FlatFrames(stack, Own) /\ inputs' = inputs /\ active' = active /\ active
      /\ Len(log') = Len(log) + 1 /\ Own = "switch"
  BY <1>1, NextAnswers DEF Heeds, SwitchMapFed, Own
<1>3. ASSUME NEW todo \in Seq(OpStep), Enter(todo),
             todo = <<>> \/ Innermost([todo |-> todo, at |-> "run"], Own)
      PROVE  Todo = <<>> /\ FlatFrames(stack, Own)' /\ Todo' = todo
  <2>1. Heeds(i, todo)
    BY <1>1, <1>3, HeedsThis
  <2>. QED
    BY <1>2, <1>3, <2>1, HeardAtRest
<1>4. SwitchMap \/ OtherNext
  BY DEF InputNext, Mirror, Map, Filter, Take, Drop, FlatMap
<1>5. CASE OtherNext
  <2>1. st' = st /\ aborted' = aborted /\ Enter(<<Value(Here)>>)
    BY <1>5 DEF OtherNext, Do
  <2>. QED
    BY <1>2, <1>3, <2>1, LeftToDo
<1>6. CASE SwitchMap
  <2>. DEFINE todo == <<Call, Step("switch", <<Here>>)>>
  <2>1. /\ st' = [st EXCEPT !.ctl = 0] /\ aborted' = aborted \cup ({st.ctl} \ {0})
        /\ Enter(todo)
    BY <1>6 DEF SwitchMap
  <2>2. /\ todo \in Seq(OpStep) /\ Begins(todo) /\ ~Opens(todo) /\ ~Ends(todo)
        /\ Innermost([todo |-> todo, at |-> "run"], Own) /\ NewCtl(todo) = Len(log) + 1
    BY <1>2, LeftToDo, MapperLeft
  <2>. HIDE DEF todo
  <2>. QED
    BY <1>2, <1>3, <2>1, <2>2
<1>7. QED
  BY <1>4, <1>5, <1>6

LEMMA SwitchMapEnd ==
  ASSUME ParametersOK, OpTyped, FlatMapFed, SwitchMapFed, op = "switchMap",
         NEW i, InputCompletes(i) \/ InputFails(i)
  PROVE  /\ Todo = <<>> /\ FlatFrames(stack, Own)' /\ UNCHANGED <<aborted, active>>
         /\ active /\ i \in DOMAIN inputs /\ inputs[i].on
         /\ Len(log') = Len(log) + 1
         /\ inputs' = [inputs EXCEPT ![i].on = FALSE]
         /\ \/ Ends(Todo')
            \/ /\ inputs[i].role = 0 /\ st.ctl # 0
               /\ st' = [st EXCEPT !.done = TRUE] /\ Todo' = <<>>
            \/ /\ inputs[i].role # 0 /\ ~st.done
               /\ st' = [st EXCEPT !.ctl = 0] /\ Todo' = <<>>
<1>1. PICK other : Heeds(i, other)
  BY EndAnswers
<1>2. FlatFrames(stack, Own) /\ aborted' = aborted /\ active' = active /\ active
      /\ i \in DOMAIN inputs /\ inputs[i].on /\ Len(log') = Len(log) + 1
      /\ inputs' = [inputs EXCEPT ![i].on = FALSE]
      /\ Own = "switch" /\ Role(i) = inputs[i].role
  BY <1>1, EndAnswers DEF Heeds, SwitchMapFed, Own, Role
<1>3. ASSUME NEW todo \in Seq(OpStep), Enter(todo),
             todo = <<>> \/ Innermost([todo |-> todo, at |-> "run"], Own)
      PROVE  Todo = <<>> /\ FlatFrames(stack, Own)' /\ Todo' = todo
  <2>1. Heeds(i, todo)
    BY <1>1, <1>3, HeedsThis
  <2>. QED
    BY <1>2, <1>3, <2>1, HeardAtRest
<1>4. ASSUME Enter(<<End>>) \/ Enter(<<Fail>>)
      PROVE  Todo = <<>> /\ FlatFrames(stack, Own)' /\ Ends(Todo')
  BY <1>3, <1>4, LeftToDo
<1>5. CASE InputFails(i)
  <2>1. Enter(<<Fail>>)
    BY <1>5 DEF InputFails, Do
  <2>. QED
    BY <1>2, <1>4, <2>1
<1>6. CASE InputCompletes(i) /\ inputs[i].role = 0
  <2>1. Do([st EXCEPT !.done = TRUE], EndIf(st.ctl = 0))
    BY <1>2, <1>6 DEF InputCompletes, SourceCompletes, Source
  <2>2. CASE st.ctl = 0
    BY <1>2, <1>4, <2>1, <2>2 DEF Do, EndIf
  <2>3. CASE st.ctl # 0
    <3>1. Enter(<<>>) /\ st' = [st EXCEPT !.done = TRUE]
      BY <2>1, <2>3 DEF Do, EndIf
    <3>2. Todo = <<>> /\ FlatFrames(stack, Own)' /\ Todo' = <<>>
      BY <1>3, <3>1, LeftToDo
    <3>. QED
      BY <1>2, <1>6, <2>3, <3>1, <3>2
  <2>. QED
    BY <2>2, <2>3
<1>7. CASE InputCompletes(i) /\ inputs[i].role # 0
  <2>1. Do([st EXCEPT !.ctl = 0], EndIf(st.done))
    BY <1>2, <1>7 DEF InputCompletes, OtherCompletes, Source
  <2>2. CASE st.done
    BY <1>2, <1>4, <2>1, <2>2 DEF Do, EndIf
  <2>3. CASE ~st.done
    <3>1. Enter(<<>>) /\ st' = [st EXCEPT !.ctl = 0]
      BY <2>1, <2>3 DEF Do, EndIf
    <3>2. Todo = <<>> /\ FlatFrames(stack, Own)' /\ Todo' = <<>>
      BY <1>3, <3>1, LeftToDo
    <3>. QED
      BY <1>2, <1>7, <2>3, <3>1, <3>2
  <2>. QED
    BY <2>2, <2>3
<1>8. QED
  BY <1>5, <1>6, <1>7

LEMMA SwitchMapStep ==
  ASSUME ParametersOK, OpTyped, FlatMapFed, SwitchMapFed, op = "switchMap", Next
  PROVE  FlatFrames(stack, Own)' /\ (active' /\ ~Ends(Todo') => InnerHeld')
<1>. USE NoStep
<1>0. /\ FlatFrames(stack, Own) /\ (active /\ ~Ends(Todo) => InnerHeld)
      /\ st \in OpState /\ st.ctl \in Nat /\ st.done \in BOOLEAN /\ active \in BOOLEAN
      /\ inputs \in Seq(Input) /\ Own = "switch" /\ Len(log) \in Nat
      /\ aborted \in SUBSET Nat /\ 0 \notin aborted
  BY DEF SwitchMapFed, OpTyped, OpState, Own
<1>1. ASSUME NEW i, InputNext(i)
      PROVE  FlatFrames(stack, Own)' /\ InnerHeld'
  <2>1. /\ Todo = <<>> /\ FlatFrames(stack, Own)' /\ UNCHANGED <<inputs, active>>
        /\ active /\ Len(log') = Len(log) + 1
        /\ ~Opens(Todo') /\ ~Ends(Todo')
        /\ \/ ~Begins(Todo') /\ st' = st /\ aborted' = aborted
           \/ /\ Begins(Todo') /\ NewCtl(Todo') = Len(log) + 1
              /\ st' = [st EXCEPT !.ctl = 0] /\ aborted' = aborted \cup ({st.ctl} \ {0})
    BY <1>1, SwitchMapNext
  <2>2. InnerHeld /\ ~Opens(Todo) /\ ~Begins(Todo) /\ Inners' = Inners
    BY <1>0, <2>1 DEF Inners
  <2>9. FlatFrames(stack, Own)'
    BY <2>1
  <2>3. st'.done = st.done /\ (FedBySource => FedBySource')
    <3>1. st'.done = st.done
      BY <1>0, <2>1 DEF OpState
    <3>2. FedBySource => FedBySource'
      BY <2>1, <2>2 DEF FedBySource, OpensSource
    <3>. QED
      BY <3>1, <3>2
  <2>4. CASE ~Begins(Todo') /\ st' = st /\ aborted' = aborted
    <3>1. \A c \in aborted' : c <= Len(log')
      BY <1>0, <2>1, <2>2, <2>4 DEF InnerHeld
    <3>2. st'.ctl \notin aborted' /\ st'.ctl <= Len(log')
      BY <1>0, <2>1, <2>2, <2>4 DEF InnerHeld
    <3>3. st'.ctl # 0 => \E j \in Inners' : inputs'[j].ctl = st'.ctl
      BY <2>1, <2>2, <2>4 DEF InnerHeld, OpensInner
    <3>4. /\ st'.done \/ FedBySource'
          /\ st'.done => st'.ctl # 0 \/ Begins(Todo')
      BY <2>2, <2>3, <2>4 DEF InnerHeld
    <3>. QED
      BY <2>1, <2>4, <3>1, <3>2, <3>3, <3>4 DEF InnerHeld
  <2>5. CASE /\ Begins(Todo') /\ NewCtl(Todo') = Len(log) + 1
             /\ st' = [st EXCEPT !.ctl = 0] /\ aborted' = aborted \cup ({st.ctl} \ {0})
    <3>1. st'.ctl = 0
      BY <1>0, <2>5 DEF OpState
    <3>2. \A c \in aborted' : c <= Len(log) /\ c # 0 /\ c \in Nat
      BY <1>0, <2>2, <2>5 DEF InnerHeld
    <3>3. \A c \in aborted' : c <= Len(log') /\ c # Len(log) + 1
      BY <1>0, <2>1, <3>2
    <3>4. st'.ctl \notin aborted' /\ st'.ctl <= Len(log')
      BY <1>0, <2>1, <3>1, <3>2
    <3>5. NewCtl(Todo') # 0 /\ NewCtl(Todo') <= Len(log') /\ NewCtl(Todo') \notin aborted'
      BY <1>0, <2>1, <2>5, <3>3
    <3>6. st'.done \/ FedBySource'
      BY <2>2, <2>3 DEF InnerHeld
    <3>7. st'.done => Begins(Todo')
      BY <2>5
    <3>8. Begins(Todo') => /\ NewCtl(Todo') # 0 /\ NewCtl(Todo') <= Len(log')
                           /\ NewCtl(Todo') \notin aborted'
      BY <3>5
    <3>9. \A c \in aborted' : c <= Len(log')
      BY <3>3
    <3>10. st'.ctl # 0 => \/ OpensInner(Todo') /\ Todo'[1].arg[2] = st'.ctl
                         \/ \E j \in Inners' : inputs'[j].ctl = st'.ctl
      BY <3>1
    <3>. QED
      BY <2>9, <3>4, <3>6, <3>7, <3>8, <3>9, <3>10 DEF InnerHeld
  <2>. QED
    BY <2>1, <2>4, <2>5
<1>2. ASSUME NEW i, InputCompletes(i) \/ InputFails(i)
      PROVE  FlatFrames(stack, Own)' /\ (~Ends(Todo') => InnerHeld')
  <2>1. /\ Todo = <<>> /\ FlatFrames(stack, Own)' /\ UNCHANGED <<aborted, active>>
        /\ active /\ i \in DOMAIN inputs /\ inputs[i].on
        /\ Len(log') = Len(log) + 1
        /\ inputs' = [inputs EXCEPT ![i].on = FALSE]
        /\ \/ Ends(Todo')
           \/ /\ inputs[i].role = 0 /\ st.ctl # 0
              /\ st' = [st EXCEPT !.done = TRUE] /\ Todo' = <<>>
           \/ /\ inputs[i].role # 0 /\ ~st.done
              /\ st' = [st EXCEPT !.ctl = 0] /\ Todo' = <<>>
    BY <1>2, SwitchMapEnd
  <2>2. InnerHeld /\ ~Opens(Todo) /\ ~Begins(Todo) /\ ~Ends(Todo)
    BY <1>0, <2>1
  <2>9. FlatFrames(stack, Own)'
    BY <2>1
  <2>3. /\ DOMAIN inputs' = DOMAIN inputs
        /\ \A j \in DOMAIN inputs : j # i => inputs'[j] = inputs[j]
    BY <1>0, <2>1
  <2>4. \A c \in aborted' : c <= Len(log')
    BY <1>0, <2>1, <2>2 DEF InnerHeld
  <2>5. CASE /\ inputs[i].role = 0 /\ st.ctl # 0
             /\ st' = [st EXCEPT !.done = TRUE] /\ Todo' = <<>>
    <3>1. st'.done = TRUE /\ st'.ctl = st.ctl
      BY <1>0, <2>5 DEF OpState
    <3>2. st'.ctl \notin aborted' /\ st'.ctl <= Len(log')
      BY <1>0, <2>1, <2>2, <3>1 DEF InnerHeld
    <3>3. PICK j \in Inners : inputs[j].ctl = st.ctl
      BY <2>2, <2>5 DEF InnerHeld, OpensInner
    <3>4. j \in Inners' /\ inputs'[j] = inputs[j]
      BY <2>3, <2>5, <3>3 DEF Inners
    <3>5. ~Begins(Todo')
      BY <2>5
    <3>6. \E l \in Inners' : inputs'[l].ctl = st'.ctl
      BY <3>1, <3>3, <3>4
    <3>7. st'.ctl # 0
      BY <2>5, <3>1
    <3>. QED
      BY <2>9, <2>4, <3>1, <3>2, <3>5, <3>6, <3>7 DEF InnerHeld
  <2>6. CASE /\ inputs[i].role # 0 /\ ~st.done
             /\ st' = [st EXCEPT !.ctl = 0] /\ Todo' = <<>>
    <3>1. st'.done = st.done /\ st'.ctl = 0
      BY <1>0, <2>6 DEF OpState
    <3>2. st'.ctl \notin aborted' /\ st'.ctl <= Len(log')
      BY <1>0, <2>1, <3>1
    <3>3. PICK j \in DOMAIN inputs : inputs[j].role = 0 /\ inputs[j].ctl = 0 /\ inputs[j].on
      BY <2>2, <2>6 DEF InnerHeld, FedBySource, OpensSource
    <3>4. j \in DOMAIN inputs' /\ inputs'[j] = inputs[j]
      BY <2>3, <2>6, <3>3
    <3>5. FedBySource'
      BY <3>3, <3>4 DEF FedBySource
    <3>6. ~Begins(Todo')
      BY <2>6
    <3>7. ~st'.done
      BY <2>6, <3>1
    <3>. QED
      BY <2>9, <2>4, <3>1, <3>2, <3>5, <3>6, <3>7 DEF InnerHeld
  <2>. QED
    BY <2>1, <2>5, <2>6
<1>3. CASE Enough \/ Watch \/ StartInner \/ SwitchInner
  <2>1. UNCHANGED <<inputs, aborted, active, log>>
    BY <1>3, OwnSteps
  <2>2. /\ Takes("switch", <<Subscribe(2 + Arg[1], Arg[1])>> \o Remaining, "run")
        /\ st' = [st EXCEPT !.ctl = Arg[1]]
    <3>1. ASSUME NEW what, NEW todo, NEW place, Takes(what, todo, place)
          PROVE  what \in {"subscribe", "next", "complete", "error", "call", "switch"}
      BY <1>0, <3>1, OnlyStep DEF Takes
    <3>. QED
      BY <1>3, <3>1, OwnSteps
  <2>. DEFINE p == Arg[1]
              sub == Subscribe(2 + p, p)
  <2>3. p \in Nat /\ Remaining = <<>> /\ Begins(Todo) /\ ~Ends(Todo) /\ ~Opens(Todo)
        /\ NewCtl(Todo) = p
    BY <1>0, <2>2, OnlyStep, ArgTyped DEF Takes, Begins, Ends, Opens, NewCtl
  <2>. HIDE DEF p
  <2>4. sub \in OpStep /\ sub.do = "subscribe" /\ sub.arg[1] # 0 /\ sub.arg[2] = p
    BY <2>3, StepsTyped DEF Subscribe, Step
  <2>. HIDE DEF sub
  <2>5. /\ <<sub>> \o <<>> = <<sub>> /\ Opens(<<sub>>) /\ OpensInner(<<sub>>) /\ ~Begins(<<sub>>)
        /\ ~Ends(<<sub>>) /\ <<sub>>[1].arg[2] = p
        /\ Innermost([todo |-> <<sub>>, at |-> "run"], Own)
    BY <2>4 DEF Opens, OpensInner, Begins, Ends, Innermost
  <2>6. Takes("switch", <<sub>>, "run")
    BY <2>2, <2>3, <2>5 DEF sub, p
  <2>7. FlatFrames(stack, Own)' /\ Todo' = <<sub>>
    BY <1>0, <2>5, <2>6, OnlyStepTaken
  <2>8. ASSUME active PROVE InnerHeld'
    <3>1. InnerHeld
      BY <1>0, <2>1, <2>3, <2>8
    <3>2. p # 0 /\ p <= Len(log) /\ p \notin aborted
      BY <2>3, <3>1 DEF InnerHeld
    <3>3. st'.ctl = p /\ st'.done = st.done
      BY <1>0, <2>2 DEF OpState, p
    <3>4. FedBySource => FedBySource'
      BY <2>1, <2>3 DEF FedBySource, OpensSource
    <3>. QED
      BY <2>1, <2>5, <2>7, <3>1, <3>2, <3>3, <3>4 DEF InnerHeld
  <2>. QED
    BY <1>0, <2>1, <2>7, <2>8
<1>4. CASE Ordinary
  <2>0. st' = st /\ aborted' = aborted /\ (active' => active)
    BY <1>4, SharedSteps, OverForGood
  <2>1. FlatFrames(stack, Own)'
    BY <1>0, <1>4, FlatShared
  <2>2. SUFFICES ASSUME active', ~Ends(Todo') PROVE InnerHeld'
    BY <1>0, <2>0, <2>1
  <2>3. CASE /\ Opens(Todo) /\ Todo' = <<>> /\ log' = log
             /\ inputs' = Append(inputs, [role |-> Todo[1].arg[1], ctl |-> Todo[1].arg[2],
                                          on |-> active /\ Todo[1].arg[2] \notin aborted])
    <3>. DEFINE new == [role |-> Todo[1].arg[1], ctl |-> Todo[1].arg[2],
                        on |-> active /\ Todo[1].arg[2] \notin aborted]
    <3>1. new.role = Todo[1].arg[1] /\ new.ctl = Todo[1].arg[2]
          /\ (new.ctl \notin aborted => new.on)
      BY <1>0, <2>0, <2>2
    <3>2. ~Ends(Todo) /\ ~Begins(Todo)
      BY <2>3 DEF Opens, Ends, Begins
    <3>3. InnerHeld
      BY <1>0, <2>0, <2>2, <3>2
    <3>. HIDE DEF new
    <3>4. /\ DOMAIN inputs' = DOMAIN inputs \cup {Len(inputs) + 1}
          /\ inputs'[Len(inputs) + 1] = new
          /\ \A j \in DOMAIN inputs : inputs'[j] = inputs[j]
      <4>1. inputs' = Append(inputs, new)
        BY <2>3 DEF new
      <4>. QED
        BY <1>0, <4>1
    <3>5. FedBySource => FedBySource'
      BY <1>0, <3>1, <3>4 DEF FedBySource, OpensSource
    <3>6. st.ctl # 0 => \E j \in Inners' : inputs'[j].ctl = st.ctl
      <4>1. CASE OpensInner(Todo) /\ Todo[1].arg[2] = st.ctl
        <5>1. new.role # 0 /\ new.ctl = st.ctl /\ new.on
          BY <3>1, <3>3, <4>1 DEF OpensInner, InnerHeld
        <5>. QED
          BY <3>4, <5>1 DEF Inners
      <4>2. ASSUME NEW j \in Inners, inputs[j].ctl = st.ctl
            PROVE  \E l \in Inners' : inputs'[l].ctl = st.ctl
        BY <3>4, <4>2 DEF Inners
      <4>. QED
        BY <3>3, <4>1, <4>2 DEF InnerHeld
    <3>. QED
      BY <2>0, <2>3, <3>2, <3>3, <3>5, <3>6 DEF InnerHeld
  <2>4. CASE /\ Begins(Todo) /\ Len(Todo) = 2 /\ Todo' = <<Todo[2]>> /\ Todo[2].do = Own
             /\ UNCHANGED <<active, inputs, log>>
    <3>1. ~Ends(Todo) /\ ~Opens(Todo) /\ Begins(Todo') /\ ~Ends(Todo') /\ ~Opens(Todo')
          /\ NewCtl(Todo') = NewCtl(Todo)
      BY <1>0, <2>4 DEF Begins, Ends, Opens, NewCtl
    <3>2. InnerHeld /\ Inners' = Inners
      BY <1>0, <2>2, <2>4, <3>1 DEF Inners
    <3>3. FedBySource => FedBySource'
      BY <2>4, <3>1 DEF FedBySource, OpensSource
    <3>. QED
      BY <2>0, <2>4, <3>1, <3>2, <3>3 DEF InnerHeld, OpensInner
  <2>5. CASE /\ Todo # <<>> /\ Todo[1].do = "next" /\ Todo' = <<>>
             /\ UNCHANGED <<active, inputs, log>>
    <3>1. ~Ends(Todo) /\ ~Opens(Todo) /\ ~Begins(Todo)
      BY <2>5 DEF Begins, Ends, Opens
    <3>2. InnerHeld /\ Inners' = Inners
      BY <1>0, <2>2, <2>5, <3>1 DEF Inners
    <3>3. FedBySource => FedBySource'
      BY <2>5, <3>1 DEF FedBySource, OpensSource
    <3>. QED
      BY <2>0, <2>5, <3>1, <3>2, <3>3 DEF InnerHeld, OpensInner
  <2>6. CASE Todo' = Todo /\ UNCHANGED <<active, inputs, log>>
    <3>1. InnerHeld /\ Inners' = Inners /\ (FedBySource => FedBySource')
      BY <1>0, <2>2, <2>6 DEF Inners, FedBySource
    <3>. QED
      BY <2>0, <2>6, <3>1 DEF InnerHeld
  <2>7. CASE Todo' = <<Fail>>
    BY <2>2, <2>7, LeftToDo
  <2>. QED
    BY <1>0, <1>4, <2>2, <2>3, <2>4, <2>5, <2>6, <2>7, FlatShared
<1>5. QED
  BY <1>0, <1>1, <1>2, <1>3, <1>4 DEF Next

LEMMA OperatorNext ==
  ASSUME ParametersOK, OperatorInv, Next
  PROVE  OperatorInv'
<1>1. OpTyped' /\ Hooked' /\ OwedOrFed'
  BY OpTypedStep, HookedStep, OwedStep DEF OperatorInv
<1>2. op' = op
  BY NextAnswers, EndAnswers, OwnSteps, SharedSteps DEF Next, Heeds, OperatorInv
<1>3. FlatMapFed'
  BY <1>2, FlatMapStep DEF OperatorInv, FlatMapFed
<1>4. SwitchMapFed'
  BY <1>2, SwitchMapStep DEF OperatorInv, SwitchMapFed
<1>5. QED
  BY <1>1, <1>3, <1>4 DEF OperatorInv

(* The first steps of an operator open its source, or end the result.       *)
LEMMA OpeningTyped ==
  ASSUME NEW todo, todo = Opening
  PROVE  /\ todo \in Seq(OpStep) /\ DecisiveIn(todo)
         /\ op \in {"flatMap", "switchMap"} => todo = <<Subscribe(0, 0)>>
<1>1. /\ Subscribe(1, 0) \in OpStep /\ Subscribe(0, 0) \in OpStep /\ End \in OpStep
      /\ Call \in OpStep /\ Step("watch", <<>>) \in OpStep
  BY StepsTyped
<1>2. Decisive(Subscribe(0, 0)) /\ Decisive(End)
  BY DEF Decisive, Subscribe, End, Step
<1>3. CASE op = "takeUntil"
  <2>1. todo = <<Subscribe(1, 0), Subscribe(0, 0)>>
    BY <1>3 DEF Opening, Other, Source
  <2>2. 2 \in DOMAIN todo /\ todo[2] = Subscribe(0, 0)
    BY <2>1
  <2>. QED
    BY <1>1, <1>2, <1>3, <2>1, <2>2 DEF DecisiveIn
<1>4. CASE op = "take" /\ k = 0
  <2>1. todo = <<End>>
    BY <1>4 DEF Opening
  <2>2. 1 \in DOMAIN todo /\ todo[1] = End
    BY <2>1
  <2>. QED
    BY <1>1, <1>2, <1>4, <2>1, <2>2 DEF DecisiveIn
<1>5. CASE op = "inspect"
  <2>1. todo = <<Call, Step("watch", <<>>), Subscribe(0, 0)>>
    BY <1>5 DEF Opening, Source
  <2>2. 3 \in DOMAIN todo /\ todo[3] = Subscribe(0, 0)
    BY <2>1
  <2>. QED
    BY <1>1, <1>2, <1>5, <2>1, <2>2 DEF DecisiveIn
<1>6. CASE op \notin {"takeUntil", "inspect"} /\ ~(op = "take" /\ k = 0)
  <2>1. todo = <<Subscribe(0, 0)>>
    BY <1>6 DEF Opening, Source
  <2>2. 1 \in DOMAIN todo /\ todo[1] = Subscribe(0, 0)
    BY <2>1
  <2>. QED
    BY <1>1, <1>2, <2>1, <2>2 DEF DecisiveIn
<1>7. QED
  BY <1>3, <1>4, <1>5, <1>6

LEMMA OperatorInit ==
  ASSUME ParametersOK, Init
  PROVE  OperatorInv
<1>1. /\ op \in {"takeUntil", "map", "filter", "take", "drop", "flatMap", "switchMap",
                 "inspect", "catch", "finally"}
      /\ k \in Nat
      /\ inputs = <<>> /\ aborted = {} /\ log = <<>> /\ active = TRUE
      /\ hist = [threw |-> {}, told |-> 0]
      /\ st = [n |-> IF op \in {"take", "drop"} THEN k ELSE 0, buffer |-> <<>>,
               ctl |-> 0, done |-> FALSE, told |-> FALSE, watching |-> op = "finally"]
  BY DEF ParametersOK, Init, InputsInit
<1>2. PICK todo : todo = Opening /\ stack = <<[todo |-> todo, at |-> "run"]>>
  BY DEF Init
<1>3. /\ todo \in Seq(OpStep) /\ DecisiveIn(todo)
      /\ op \in {"flatMap", "switchMap"} => todo = <<Subscribe(0, 0)>>
  BY <1>2, OpeningTyped
<1>4. /\ stack \in Seq(OpFrame) /\ Len(stack) = 1 /\ stack # <<>> /\ DOMAIN stack = {1}
      /\ stack[1] = [todo |-> todo, at |-> "run"] /\ Todo = todo
  <2>1. [todo |-> todo, at |-> "run"] \in OpFrame
    BY <1>3 DEF OpFrame
  <2>. QED
    BY <1>2, <2>1 DEF Todo, TodoOf
<1>5. st \in OpState
  BY <1>1 DEF OpState
<1>6. OpTyped
  BY <1>1, <1>4, <1>5 DEF OpTyped
<1>7. Hooked
  BY <1>1 DEF Hooked, HooksOnce
<1>8. OwedOrFed
  <2>1. Owed(stack)
    BY <1>3, <1>4 DEF Owed
  <2>. QED
    BY <1>1, <2>1 DEF OwedOrFed
<1>9. ASSUME op \in {"flatMap", "switchMap"}
      PROVE  /\ FlatFrames(stack, Own) /\ FedBySource /\ Inners = {}
             /\ ~OpensInner(Todo) /\ ~Begins(Todo)
  <2>. DEFINE s == Subscribe(0, 0)
  <2>1. s.do = "subscribe" /\ s.arg[1] = 0 /\ s.arg[2] = 0
    BY DEF Subscribe, Step
  <2>. HIDE DEF s
  <2>2. todo = <<s>> /\ Todo = <<s>>
    BY <1>3, <1>4, <1>9 DEF s
  <2>3. FlatFrames(stack, Own)
    BY <1>4, <2>1, <2>2 DEF FlatFrames, Innermost
  <2>4. FedBySource /\ ~OpensInner(Todo) /\ ~Begins(Todo)
    BY <2>1, <2>2 DEF FedBySource, OpensSource, Opens, OpensInner, Begins
  <2>5. Inners = {}
    BY <1>1 DEF Inners
  <2>. QED
    BY <2>3, <2>4, <2>5
<1>10. FlatMapFed
  <2>1. ASSUME op = "flatMap"
        PROVE  InnerCounted
    <3>1. st.n = 0 /\ st.buffer = <<>> /\ ~st.done
      BY <1>1, <2>1
    <3>. QED
      BY <1>9, <2>1, <3>1 DEF InnerCounted
  <2>. QED
    BY <1>1, <1>9, <2>1 DEF FlatMapFed
<1>11. SwitchMapFed
  <2>1. ASSUME op = "switchMap"
        PROVE  InnerHeld
    <3>1. st.ctl = 0 /\ ~st.done /\ Len(log) = 0
      BY <1>1, <2>1
    <3>. QED
      BY <1>1, <1>9, <2>1, <3>1 DEF InnerHeld
  <2>. QED
    BY <1>9, <2>1 DEF SwitchMapFed
<1>12. QED
  BY <1>6, <1>7, <1>8, <1>10, <1>11 DEF OperatorInv

(* Nothing in progress: nothing is owed, so the result is fed.              *)
LEMMA OperatorFed ==
  ASSUME OperatorInv
  PROVE  NeverStranded
<1>. SUFFICES ASSUME stack = <<>>, active
              PROVE  \E i \in DOMAIN inputs : Live(i)
  BY DEF NeverStranded, Quiet
<1>0. /\ inputs \in Seq(Input) /\ 0 \notin aborted /\ Todo = <<>>
      /\ ~Begins(Todo) /\ ~Opens(Todo) /\ ~Ends(Todo)
  BY NoStep DEF OperatorInv, OpTyped, Todo, TodoOf
<1>1. ASSUME NEW i \in DOMAIN inputs, inputs[i].on, inputs[i].ctl \notin aborted
      PROVE  Live(i)
  BY <1>1 DEF Live, Ctl
<1>2. CASE Simple
  <2>1. aborted = {} /\ ~Owed(stack)
    BY <1>2 DEF OperatorInv, OwedOrFed, Owed
  <2>2. Feeding
    BY <1>2, <2>1 DEF OperatorInv, OwedOrFed
  <2>. QED
    BY <1>1, <2>1, <2>2 DEF Feeding
<1>3. CASE op = "flatMap"
  <2>1. InnerCounted /\ aborted = {}
    BY <1>0, <1>3 DEF OperatorInv, FlatMapFed
  <2>2. CASE FedBySource
    BY <1>0, <1>1, <2>1, <2>2 DEF FedBySource, OpensSource
  <2>3. CASE st.done
    <3>1. st.n = 1
      BY <1>0, <2>1, <2>3 DEF InnerCounted
    <3>2. Inners # {}
      BY <1>0, <2>1, <3>1 DEF InnerCounted, OpensInner
    <3>. QED
      BY <1>1, <2>1, <3>2 DEF Inners
  <2>. QED
    BY <2>1, <2>2, <2>3 DEF InnerCounted
<1>4. CASE op = "switchMap"
  <2>1. InnerHeld
    BY <1>0, <1>4 DEF OperatorInv, SwitchMapFed
  <2>2. CASE FedBySource
    BY <1>0, <1>1, <2>1, <2>2 DEF FedBySource, OpensSource
  <2>3. CASE st.done
    <3>1. st.ctl # 0 /\ st.ctl \notin aborted
      BY <1>0, <2>1, <2>3 DEF InnerHeld
    <3>2. PICK i \in Inners : inputs[i].ctl = st.ctl
      BY <1>0, <2>1, <3>1 DEF InnerHeld, OpensInner
    <3>. QED
      BY <1>1, <3>1, <3>2 DEF Inners
  <2>. QED
    BY <2>1, <2>2, <2>3 DEF InnerHeld
<1>5. QED
  BY <1>2, <1>3, <1>4 DEF Simple

LEMMA OperatorStutters ==
  ASSUME OperatorInv, UNCHANGED vars
  PROVE  OperatorInv'
<1>1. /\ op' = op /\ k' = k /\ st' = st /\ hist' = hist /\ inputs' = inputs
      /\ aborted' = aborted /\ log' = log /\ active' = active /\ stack' = stack
  BY DEF vars
<1>2. OpTyped'
  BY <1>1 DEF OperatorInv, OpTyped
<1>3. Hooked'
  BY <1>1 DEF OperatorInv, Hooked, HooksOnce
<1>4. OwedOrFed'
  BY <1>1 DEF OperatorInv, OwedOrFed, Simple, Owed, Feeding, DecisiveIn, Decisive
<1>5. Todo' = Todo /\ Own' = Own /\ Inners' = Inners /\ FedBySource' = FedBySource
  BY <1>1 DEF Todo, Own, Inners, FedBySource
<1>6. FlatMapFed'
  BY <1>1, <1>5 DEF OperatorInv, FlatMapFed, InnerCounted
<1>7. SwitchMapFed'
  BY <1>1, <1>5 DEF OperatorInv, SwitchMapFed, InnerHeld
<1>8. QED
  BY <1>2, <1>3, <1>4, <1>6, <1>7 DEF OperatorInv

-----------------------------------------------------------------------------
(* An operator keeps to its invariant.                                      *)
THEOREM OperatorInvariant ==
  ASSUME ParametersOK
  PROVE  Spec => []OperatorInv
<1>1. Init => OperatorInv
  BY OperatorInit
<1>2. OperatorInv /\ [Next]_vars => OperatorInv'
  BY OperatorNext, OperatorStutters
<1>3. QED
  BY <1>1, <1>2, PTL DEF Spec

(* index.ts:628-959: a result that is active when nothing is in progress has *)
(* an input that is live and may notify it: no operator forgets its source, *)
(* an inner source, or an end that it owes, however the inputs nest.        *)
THEOREM NeverLeftStranded ==
  ASSUME ParametersOK
  PROVE  Spec => []NeverStranded
<1>1. OperatorInv => NeverStranded
  BY OperatorFed
<1>2. QED
  BY <1>1, OperatorInvariant, PTL

(* index.ts:880: an inspector that saw the subscription is told once how it  *)
(* ends, by an end or by the abort; so is the callback of finally.          *)
THEOREM HookedOnce ==
  ASSUME ParametersOK
  PROVE  Spec => []HooksOnce
<1>1. OperatorInv => HooksOnce
  BY DEF OperatorInv, Hooked
<1>2. QED
  BY <1>1, OperatorInvariant, PTL
=============================================================================
