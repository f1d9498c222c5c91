------------------------- MODULE FlatteningOperators -------------------------
(***************************************************************************)
(* The operators that subscribe to inner sources on behalf of a source's   *)
(* values - mergeMap, exhaustMap, mergeScan, expand, switchMap, switchScan *)
(* - and those that work through a list of sources: merge, concat (which   *)
(* is merge with concurrency 1) and onErrorResumeNext.                     *)
(*                                                                         *)
(* Each keeps a count or a list of the inner sources that are active, and  *)
(* often a queue of values that wait.  What can go wrong: a source that    *)
(* completes inside its own subscribe(), or a callback that emits, finds   *)
(* the count or the queue behind the facts; the result then ends with      *)
(* values outstanding, or never ends, or runs more than it may at a time.  *)
(***************************************************************************)
EXTENDS Inputs

CONSTANTS
  Ops,         (* the operators of this instance                          *)
  Calm,        (* those whose functions do not make any input emit        *)
  Concurrency, (* the options of concurrency                              *)
  Lists        (* the numbers of sources of merge and onErrorResumeNext   *)

VARIABLES
  op,    (* the operator                                    *)
  conc,  (* its concurrency                                 *)
  list,  (* the number of its sources                       *)
  st     (* what its handlers close over                    *)

vars == <<op, conc, list, st, inputs, aborted, log, active, out, stack>>

Source == 0

Inner(p) == 2 + p  (* for the value at position p of the log *)

Listed == op \in {"merge", "onErrorResumeNext"}

Switching == op \in {"switchMap", "switchScan"}

Queueing == op \in {"expand", "mergeScan"}

Init ==
  /\ op \in Ops
  /\ conc \in Concurrency
  /\ op \in {"switchScan", "onErrorResumeNext"} => conc = 1
  /\ list \in Lists
  /\ ~Listed => list = 1
  /\ st = [n |-> 0, buffer |-> <<>>, done |-> FALSE, draining |-> FALSE,
           acts |-> <<>>, k |-> 0]
  /\ InputsInit
  /\ stack = <<[todo |-> <<IF Listed THEN Step("list", <<>>) ELSE Subscribe(Source, 0)>>,
                at |-> "run"]>>

-----------------------------------------------------------------------------
Do(s, ends, todo) ==
  /\ st' = s
  /\ aborted' = aborted \cup ends
  /\ Enter(todo)

Finished(s) == s.done /\ s.n = 0 /\ s.buffer = <<>>

EndIf(cond) == IF cond THEN <<End>> ELSE <<>>

(* innerSub(), startInner(): the function is asked before `active` counts.  *)
Open(p) == <<Call, Step("start", <<p>>)>>

MergeMap ==
  /\ op \in {"mergeMap", "mergeScan"}
  /\ IF st.n < conc THEN Do(st, {}, Open(Here))
     ELSE Do([st EXCEPT !.buffer = Append(@, Here)], {}, <<>>)

ExhaustMap ==
  op = "exhaustMap" /\ Do(st, {}, IF st.n < conc THEN Open(Here) ELSE <<>>)

BugNewestFirst ==
  /\ op = "expand"
  /\ Do([st EXCEPT !.buffer = <<Len(log) + 1>> \o @], {}, <<Step("drain", <<>>)>>)

Expand ==
  /\ op = "expand"
  /\ Do([st EXCEPT !.buffer = Append(@, Here)], {}, <<Step("drain", <<>>)>>)

SwitchMap ==
  /\ Switching
  /\ LET full == Len(st.acts) >= conc
     IN Do([st EXCEPT !.acts = Append(IF full THEN Tail(@) ELSE @, Here)],
           IF full THEN {Head(st.acts)} ELSE {},
           <<Call, Subscribe(Inner(Here), Here)>>)

InnerNext ==
  IF op = "expand" THEN Expand ELSE Do(st, {}, <<Value(Here)>>)

(* The user's functions, and for expand the observer too, make no input     *)
(* emit.                                                                    *)
IsCalm == op \in Calm => NotAsked /\ (op = "expand" => AtRest)

InputNext(i) ==
  /\ Delivers(i, "next")
  /\ IsCalm
  /\ IF Role(i) = Source THEN MergeMap \/ ExhaustMap \/ Expand \/ SwitchMap
     ELSE InnerNext
  /\ UNCHANGED <<op, conc, list, inputs, active, out>>

-----------------------------------------------------------------------------
(* complete() of the source and of the inner sources, and error().          *)
SourceCompletes ==
  LET s == [st EXCEPT !.done = TRUE]
  IN Do(s, {}, IF op = "expand" THEN <<Step("drain", <<>>), Step("finish", <<>>)>>
               ELSE EndIf(Finished(s) /\ s.acts = <<>>))

MergeMapInner ==
  /\ op \in {"mergeMap", "exhaustMap"}
  /\ LET s == [st EXCEPT !.n = @ - 1]
     IN IF s.buffer # <<>>
        THEN Do([s EXCEPT !.buffer = Tail(@)], {}, Open(Head(s.buffer)))
        ELSE Do(s, {}, EndIf(s.done /\ s.n = 0))

QueueInner ==
  /\ Queueing
  /\ Do([st EXCEPT !.n = @ - 1], {},
        <<Step("drain", <<>>)>> \o IF op = "expand" THEN <<Step("finish", <<>>)>> ELSE <<>>)

SwitchInner(i) ==
  /\ Switching
  /\ LET s == [st EXCEPT !.acts = SelectSeq(@, LAMBDA c : c # Ctl(i))]
     IN Do(s, {}, EndIf(s.done /\ s.acts = <<>>))


MergeInner ==
  /\ op = "merge"
  /\ LET s == [st EXCEPT !.n = @ - 1]
     IN Do(s, {}, IF s.k < list THEN <<Step("list", <<>>)>> ELSE EndIf(s.n = 0))

ResumeNext == op = "onErrorResumeNext" /\ Do(st, {}, <<Step("list", <<>>)>>)

InputCompletes(i) ==
  /\ Delivers(i, "complete")
  /\ IsCalm
  /\ inputs' = Closed(i)
  /\ IF Role(i) = Source /\ ~Listed THEN SourceCompletes
     ELSE MergeMapInner \/ QueueInner \/ SwitchInner(i) \/ MergeInner \/ ResumeNext
  /\ UNCHANGED <<op, conc, list, active, out>>

InputFails(i) ==
  /\ Delivers(i, "error")
  /\ IsCalm
  /\ inputs' = Closed(i)
  /\ ResumeNext \/ (op # "onErrorResumeNext" /\ Do(st, {}, <<Fail>>))
  /\ UNCHANGED <<op, conc, list, active, out>>

-----------------------------------------------------------------------------
(* Steps.                                                                   *)
rest == <<op, conc, list, inputs, aborted, log, active, out>>

StartInner ==
  /\ Doing("start")
  /\ IF op = "mergeScan" /\ ~active THEN Proceed(<<>>) /\ UNCHANGED st
     ELSE /\ st' = [st EXCEPT !.n = @ + 1]
          /\ Proceed(<<Subscribe(Inner(Arg[1]), 0)>>)
  /\ UNCHANGED rest

(* drain(), drainBuffer() *)
Drain ==
  /\ Doing("drain")
  /\ IF st.draining \/ ~active THEN Proceed(<<>>) /\ UNCHANGED st
     ELSE /\ st' = [st EXCEPT !.draining = TRUE]
          /\ Proceed(<<Step("loop", <<>>)>>)
  /\ UNCHANGED rest

DrainLoop ==
  /\ Doing("loop")
  /\ IF active /\ st.n < conc /\ st.buffer # <<>>
     THEN LET p == Head(st.buffer)
          IN /\ st' = [st EXCEPT !.buffer = Tail(@)]
             /\ Proceed((IF op = "expand" THEN <<Value(p)>> ELSE <<>>)
                          \o <<Step("project", <<p>>), Step("loop", <<>>)>>)
     ELSE /\ st' = [st EXCEPT !.draining = FALSE]
          /\ Proceed(<<Step("finish", <<>>)>>)
  /\ UNCHANGED rest

(* The observer of expand may have left. *)
Project ==
  /\ Doing("project")
  /\ Proceed(IF active THEN Open(Arg[1]) ELSE <<>>)
  /\ UNCHANGED <<rest, st>>

CompleteIfDone ==
  /\ Doing("finish")
  /\ Proceed(EndIf(Finished(st)))
  /\ UNCHANGED <<rest, st>>

(* subscribeNext() of merge and of onErrorResumeNext *)
SubscribeNext ==
  /\ Doing("list")
  /\ IF op = "merge"
     THEN IF st.k = list \/ st.n >= conc THEN Proceed(<<>>) /\ UNCHANGED st
          ELSE /\ st' = [st EXCEPT !.k = @ + 1, !.n = @ + 1]
               /\ Proceed(<<Subscribe(st.k + 1, 0), Step("list", <<>>)>>)
     ELSE IF st.k >= list THEN Proceed(<<End>>) /\ UNCHANGED st
          ELSE /\ st' = [st EXCEPT !.k = IF active THEN @ + 1 ELSE @]
               /\ Proceed(IF active THEN <<Subscribe(st.k + 1, 0)>> ELSE <<>>)
  /\ UNCHANGED rest

Next ==
  \/ \E i \in DOMAIN inputs : InputNext(i)
  \/ \E i \in DOMAIN inputs : InputCompletes(i) \/ InputFails(i)
  \/ StartInner
  \/ Drain
  \/ DrainLoop
  \/ Project
  \/ CompleteIfDone
  \/ SubscribeNext
  \/ InputsOrdinary /\ UNCHANGED <<op, conc, list, st>>

Spec == Init /\ [][Next]_vars

-----------------------------------------------------------------------------
(* Properties.                                                              *)

TypeOK ==
  /\ InputsTypeOK
  /\ op \in Ops /\ conc \in Concurrency
  /\ st \in [n : Nat, buffer : Seq(Nat), done : BOOLEAN, draining : BOOLEAN,
             acts : Seq(Nat), k : 0 .. list]

IsInner(i) == Listed \/ Role(i) # Source

(* No more inner sources are live at a time than the concurrency of the     *)
(* operator says, whatever completes synchronously.                         *)
WithinConcurrency ==
  Cardinality({i \in DOMAIN inputs : IsInner(i) /\ Live(i)}) <= conc

Started(p) == \E i \in DOMAIN inputs : Role(i) = Inner(p)

Over(role) == \E q \in DOMAIN log : log[q].role = role /\ log[q].do = "complete"

OverBy(role, s) == \E q \in 1 .. s : log[q].role = role /\ log[q].do = "complete"

(* By q, `conc` newer values had sources that were not over, and took the   *)
(* place of that of p.                                                      *)
GivenUp(p, q) ==
  \E s \in Before(q, Source) :
    Cardinality({r \in Nexts(Source) : p < r /\ r <= s /\ ~OverBy(Inner(r), s)}) >= conc

(* A result that completes has nothing outstanding: the source is over, and *)
(* every value has had its inner source (unless the operator ignores or     *)
(* gives up values), and each of those is over.                             *)
NothingOutstanding ==
  Ended /\ Last(out) = End =>
    IF Listed
    THEN \A k \in 1 .. list : \E q \in DOMAIN log : log[q].role = k /\ log[q].do # "next"
    ELSE /\ Over(Source)
         /\ \A p \in DOMAIN log :
              log[p].do = "next" /\ (op = "expand" \/ log[p].role = Source) =>
                \/ Over(Inner(p))
                \/ op = "exhaustMap" /\ ~Started(p)
                \/ Switching /\ GivenUp(p, Len(log) + 1)

(* A result that has not ended when nothing is in progress waits for an     *)
(* input that is live: it never waits for one that is over already.         *)
NeverStranded ==
  Quiet /\ active => \E i \in DOMAIN inputs : Live(i)

(* The values that the result is to give, by their positions in the log. *)
InnerValues ==
  SelectSeq([p \in DOMAIN log |-> Value(p)],
            LAMBDA s : LET e == log[s.arg[1]]
                       IN e.do = "next" /\ (op = "expand" \/ Listed \/ e.role # Source))

(* The values of the result are those of the inner sources, in the order in *)
(* which they came; expand gives its own values too, and none twice.        *)
ValuesInOrder ==
  LET given == SelectSeq(out, LAMBDA s : s.do = "next")
  IN /\ IsPrefix(given, InnerValues)
     /\ Quiet /\ ~Left /\ op # "expand" => given = InnerValues

(* switch-map.ts:26, switch-scan.ts:36: no value of an inner source gets    *)
(* through once newer ones have taken all places.                           *)
OnlyTheNewest ==
  Switching =>
    \A q \in DOMAIN log : log[q].role # Source => ~GivenUp(log[q].role - 2, q)
=============================================================================
