-------------------------- MODULE PlatformOperators --------------------------
(***************************************************************************)
(* The operators of the platform's Observable that return an Observable:   *)
(* takeUntil, map, filter, take, drop, flatMap, switchMap, inspect, catch  *)
(* and finally.                                                            *)
(*                                                                         *)
(* A source, a notifier or an inner source may emit inside its subscribe() *)
(* and inside what the observer does.  The functions of the user           *)
(* (mapper, predicate, handler, inspector) may throw, and may abort the    *)
(* result; those of Calm make no input emit.                               *)
(***************************************************************************)
EXTENDS Inputs

CONSTANTS
  Ops,      (* the operators of this instance                             *)
  Calm,     (* those whose functions do not make any input emit           *)
  Amounts   (* the amounts of take and drop                               *)

VARIABLES
  op,     (* the operator                                                 *)
  k,      (* its amount                                                   *)
  st,     (* what its handlers close over                                 *)
  hist    (* history: throws of the user, by their places in the log, and *)
          (* what an inspector, or the callback of finally, was told      *)

vars == <<op, k, st, hist, inputs, aborted, log, active, out, stack>>

Source == 0

Other == 1  (* the notifier of takeUntil, what the handler of catch gives *)

Inner(p) == 2 + p  (* for the value at position p of the log *)

Opening ==
  CASE op = "takeUntil"        -> <<Subscribe(Other, 0), Subscribe(Source, 0)>>
    [] op = "take" /\ k = 0    -> <<End>>
    [] op = "inspect"          -> <<Call, Step("watch", <<>>), Subscribe(Source, 0)>>
    [] OTHER                   -> <<Subscribe(Source, 0)>>

(* n is remaining, index or active; told says that the inspector was given  *)
(* an end, watching that the operator heeds the abort of the result.        *)
Init ==
  /\ op \in Ops
  /\ k \in Amounts /\ (op \notin {"take", "drop"} => \A a \in Amounts : k <= a)
  /\ st = [n |-> IF op \in {"take", "drop"} THEN k ELSE 0, buffer |-> <<>>,
           ctl |-> 0, done |-> FALSE, told |-> FALSE, watching |-> op = "finally"]
  /\ hist = [threw |-> {}, told |-> 0]
  /\ InputsInit
  /\ stack = <<[todo |-> Opening, at |-> "run"]>>

-----------------------------------------------------------------------------
Do(s, todo) ==
  /\ st' = s
  /\ Enter(todo)
  /\ UNCHANGED aborted

EndIf(cond) == IF cond THEN <<End>> ELSE <<>>

Mirror == op \in {"takeUntil", "catch", "finally"} /\ Do(st, <<Value(Here)>>)

Map == op \in {"map", "inspect"} /\ Do(st, <<Call, Value(Here)>>)

(* The predicate says yes to every other value. *)
Filter ==
  /\ op = "filter"
  /\ Do([st EXCEPT !.n = @ + 1],
        <<Call>> \o IF st.n % 2 = 0 THEN <<Value(Here)>> ELSE <<>>)

BugNoEarlyEnd ==
  /\ op = "take"
  /\ IF st.n > 0 THEN Do([st EXCEPT !.n = @ - 1], <<Value(Here)>>)
     ELSE Do(st, <<End>>)

(* remaining is looked at once more after subscriber.next().                *)
Take ==
  /\ op = "take"
  /\ IF st.n > 0 THEN Do([st EXCEPT !.n = @ - 1], <<Value(Here), Step("enough", <<>>)>>)
     ELSE Do(st, <<End>>)

Drop ==
  /\ op = "drop"
  /\ IF st.n = 0 THEN Do(st, <<Value(Here)>>) ELSE Do([st EXCEPT !.n = @ - 1], <<>>)

(* innerSub(): the mapper is asked before `active` counts. *)
InnerSub(p) == <<Call, Step("start", <<p>>)>>

FlatMap ==
  /\ op = "flatMap"
  /\ IF st.n < 1 THEN Do(st, InnerSub(Here))
     ELSE Do([st EXCEPT !.buffer = Append(@, Here)], <<>>)

SwitchMap ==
  /\ op = "switchMap"
  /\ st' = [st EXCEPT !.ctl = 0]
  /\ aborted' = aborted \cup ({st.ctl} \ {0})
  /\ Enter(<<Call, Step("switch", <<Here>>)>>)

OtherNext ==
  Do(st, IF op = "takeUntil" THEN <<End>> ELSE <<Value(Here)>>)

IsCalm == op \in Calm => NotAsked

InputNext(i) ==
  /\ Delivers(i, "next")
  /\ IsCalm
  /\ IF Role(i) = Source THEN Mirror \/ Map \/ Filter \/ Take \/ Drop \/ FlatMap \/ SwitchMap
     ELSE OtherNext
  /\ UNCHANGED <<op, k, hist, inputs, active, out>>

-----------------------------------------------------------------------------
SourceCompletes ==
  CASE op = "inspect"   -> Do([st EXCEPT !.told = TRUE], <<Call, End>>)
    [] op = "flatMap"   -> Do([st EXCEPT !.done = TRUE], EndIf(st.n = 0 /\ st.buffer = <<>>))
    [] op = "switchMap" -> Do([st EXCEPT !.done = TRUE], EndIf(st.ctl = 0))
    [] OTHER            -> Do(st, <<End>>)

(* complete() of an inner source, of a notifier, of what catch goes on with *)
OtherCompletes ==
  CASE op = "flatMap" ->
         LET s == [st EXCEPT !.n = @ - 1]
         IN IF s.buffer # <<>>
            THEN Do([s EXCEPT !.buffer = Tail(@)], InnerSub(Head(s.buffer)))
            ELSE Do(s, EndIf(s.done /\ s.n = 0))
    [] op = "switchMap" -> Do([st EXCEPT !.ctl = 0], EndIf(st.done))
    [] op = "takeUntil" -> Do(st, <<>>)
    [] OTHER            -> Do(st, <<End>>)

InputCompletes(i) ==
  /\ Delivers(i, "complete")
  /\ IsCalm
  /\ inputs' = Closed(i)
  /\ IF Role(i) = Source THEN SourceCompletes ELSE OtherCompletes
  /\ UNCHANGED <<op, k, hist, active, out>>

(* The handler of catch is asked; an error of the notifier is an answer.    *)
InputFails(i) ==
  /\ Delivers(i, "error")
  /\ IsCalm
  /\ inputs' = Closed(i)
  /\ CASE op = "catch" /\ Role(i) = Source    -> Do(st, <<Call, Subscribe(Other, 0)>>)
       [] op = "takeUntil" /\ Role(i) = Other -> Do(st, <<End>>)
       [] op = "inspect" -> Do([st EXCEPT !.told = TRUE], <<Call, Fail>>)
       [] OTHER -> Do(st, <<Fail>>)
  /\ UNCHANGED <<op, k, hist, active, out>>

-----------------------------------------------------------------------------
(* Steps.                                                                   *)
rest == <<op, k, hist, inputs, aborted, log, active, out>>

Enough ==
  /\ Doing("enough")
  /\ Proceed(EndIf(st.n = 0))
  /\ UNCHANGED <<rest, st>>

Watch ==
  /\ Doing("watch")
  /\ st' = [st EXCEPT !.watching = active]
  /\ Proceed(<<>>)
  /\ UNCHANGED rest

StartInner ==
  /\ Doing("start")
  /\ st' = [st EXCEPT !.n = @ + 1]
  /\ Proceed(<<Subscribe(Inner(Arg[1]), 0)>>)
  /\ UNCHANGED rest

SwitchInner ==
  /\ Doing("switch")
  /\ st' = [st EXCEPT !.ctl = Arg[1]]
  /\ Proceed(<<Subscribe(Inner(Arg[1]), Arg[1])>>)
  /\ UNCHANGED rest

(* The abort of the result tells an inspector that has been given no end;   *)
(* a teardown calls the callback of finally.                                *)
Closing(s, h) == [h EXCEPT !.told = @ + (IF s.watching /\ ~s.told THEN 1 ELSE 0)]

Ordinary ==
  /\ InputsOrdinary
  /\ hist' = LET h == IF log' = log THEN hist ELSE [hist EXCEPT !.threw = @ \cup {Here}]
             IN IF active /\ ~active' THEN Closing(st, h) ELSE h
  /\ UNCHANGED <<op, k, st>>

Next ==
  \/ \E i \in DOMAIN inputs : InputNext(i)
  \/ \E i \in DOMAIN inputs : InputCompletes(i) \/ InputFails(i)
  \/ Enough
  \/ Watch
  \/ StartInner
  \/ SwitchInner
  \/ Ordinary

Spec == Init /\ [][Next]_vars

-----------------------------------------------------------------------------
(* The reference: what the notification at position q of the log adds to    *)
(* the result.                                                              *)
Flat == op \in {"flatMap", "switchMap"}

Index(q) == Cardinality(Before(q, Source))

Threw(q) == q \in hist.threw

(* The last value that take gives ends it, unless an end comes inside.      *)
OfTaken(q) ==
  IF Index(q) >= k THEN <<>>
  ELSE <<Value(q)>> \o EndIf(Index(q) = k - 1
                              /\ (q < Len(log) => log[q + 1].do = "next"))

OfValue(q) ==
  CASE op = "take"   -> OfTaken(q)
    [] op = "drop"   -> IF Index(q) >= k THEN <<Value(q)>> ELSE <<>>
    [] op = "filter" -> IF Index(q) % 2 = 0 /\ ~Threw(q + 1) THEN <<Value(q)>> ELSE <<>>
    [] OTHER         -> IF ~Threw(q + 1) THEN <<Value(q)>> ELSE <<>>

OfOther(q) ==
  IF op = "takeUntil" /\ log[q].role = Other THEN EndIf(log[q].do # "complete")
  ELSE CASE log[q].do = "next" -> <<Value(q)>>
         [] log[q].do = "complete" -> <<End>>
         [] OTHER -> <<Fail>>

OfEnd(q) ==
  CASE Threw(q) -> <<Fail>>
    [] op = "inspect" /\ Threw(q + 1) -> <<>>
    [] op = "catch" /\ log[q].do = "error" -> <<>>
    [] OTHER -> IF log[q].do = "error" THEN <<Fail>> ELSE <<End>>

Expected ==
  EndIf(op = "take" /\ k = 0)
    \o FlattenSeq([q \in DOMAIN log |->
         IF log[q].role # Source THEN OfOther(q)
         ELSE IF log[q].do = "next" THEN OfValue(q) ELSE OfEnd(q)])

Over(role) == \E q \in DOMAIN log : log[q].role = role /\ log[q].do = "complete"

-----------------------------------------------------------------------------
(* Properties.                                                              *)

TypeOK ==
  /\ InputsTypeOK
  /\ op \in Ops /\ k \in Amounts
  /\ st \in [n : Nat, buffer : Seq(Nat), ctl : Nat, done : BOOLEAN, told : BOOLEAN,
             watching : BOOLEAN]

(* index.ts:628-731, 867-959: whatever the order in which source, notifier  *)
(* and handler answer, and however deep inside each other, the observer is  *)
(* given what that order says.                                              *)
GivesWhatItShould ==
  ~Flat =>
    /\ IsPrefix(out, Expected)
    /\ Quiet /\ ~Left => out = Expected

(* index.ts:752, 837: flatMap and switchMap have one inner source at a time.*)
OneInner ==
  Flat => Cardinality({i \in DOMAIN inputs : Role(i) # Source /\ Live(i)}) <= 1

(* index.ts:784, 815, 850: a result that completes has nothing outstanding: *)
(* the source is over, and the source of every value (for switchMap, of the *)
(* newest) is over.                                                         *)
NothingOutstanding ==
  Flat /\ Ended /\ Last(out) = End =>
    /\ Over(Source)
    /\ \A p \in Nexts(Source) :
         op = "flatMap" \/ p = Latest(Nexts(Source)) => Over(Inner(p))

(* A result that has not ended when nothing is in progress waits for an     *)
(* input that is live: never for one that is over already.                  *)
NeverStranded ==
  Quiet /\ active => \E i \in DOMAIN inputs : Live(i)

(* index.ts:880: an inspector that saw the subscription is told once how it *)
(* ends, by an end or by the abort; so is the callback of finally.          *)
HooksOnce ==
  st.watching /\ ~active => hist.told + (IF st.told THEN 1 ELSE 0) = 1
=============================================================================
