------------------------------ MODULE Subjects ------------------------------
(***************************************************************************)
(* Subject and AsyncSubject, on platform Observables: those who observe a  *)
(* Subject at a time share one run of it, those who observe an AsyncSubject *)
(* have a run each.  A run is in the fan-out of its Subject from when it   *)
(* starts to when it is closed.                                            *)
(***************************************************************************)
EXTENDS CallStack

CONSTANTS
  Observers,  (* observers, one for each call of subscribe()                 *)
  MaxValues   (* bound: calls of next() that are accepted                    *)

VARIABLES
  kind,     (* "subject" or "async"                                         *)
  state,    (* #completed and #hasError                                     *)
  last,     (* the number of the newest value, which an AsyncSubject keeps  *)
  fan,      (* #internalSubscribers, or #subscribers: runs in their order   *)
  runs,     (* the runs: [obs, live], obs the observers in their order      *)
  fresh,    (* the observers that have not been used yet                    *)
  got,      (* history: the values given to each observer                   *)
  told,     (* history: the ends given to each observer                     *)
  due       (* history: the values that each is to be given                 *)

vars == <<kind, state, last, fan, runs, fresh, got, told, due, stack>>

History == [o \in Observers |-> <<>>]

Init ==
  /\ kind \in {"subject", "async"}
  /\ state = "active" /\ last = 0
  /\ fan = <<>> /\ runs = <<>>
  /\ fresh = Observers
  /\ got = History /\ told = History /\ due = History
  /\ stack = <<>>

-----------------------------------------------------------------------------
(* Calls of user code.                                                      *)

LiveRuns == {r \in DOMAIN runs : runs[r].live}

Joinable == IF kind = "subject" THEN LiveRuns ELSE {}

(* subscribe(): joins the run there is, or starts one; with a signal that is *)
(* aborted already, the run is over before it starts.                       *)
Subscribe(o, aborted) ==
  /\ UserTurn
  /\ o \in fresh
  /\ fresh' = fresh \ {o}
  /\ IF Joinable # {}
     THEN /\ runs' = IF aborted THEN runs
                     ELSE [r \in DOMAIN runs |->
                            IF r \in Joinable THEN [runs[r] EXCEPT !.obs = Append(@, o)]
                            ELSE runs[r]]
          /\ UNCHANGED stack
     ELSE /\ runs' = Append(runs, [obs |-> IF aborted THEN <<>> ELSE <<o>>,
                                   live |-> ~aborted])
          /\ Enter(<<Step("init", <<Len(runs) + 1>>)>>)
  /\ UNCHANGED <<kind, state, last, fan, got, told, due>>

Give(r, v) == Step("give", <<r, v>>)

EndOf(r) == Step("end", <<r>>)

(* What a run is given when its Subject ends, or has ended. *)
Final(r, end) ==
  IF kind = "async" /\ end = "complete" /\ last # 0 THEN <<Give(r, last), EndOf(r)>>
  ELSE <<EndOf(r)>>

CallNext ==
  /\ UserTurn
  /\ state = "active"
  /\ last < MaxValues
  /\ last' = last + 1
  /\ IF kind = "subject"
     THEN /\ Enter([i \in DOMAIN fan |-> Give(fan[i], last + 1)])
          /\ due' = [o \in Observers |->
                       IF \E i \in DOMAIN fan : Contains(runs[fan[i]].obs, o)
                       THEN Append(due[o], last + 1) ELSE due[o]]
     ELSE UNCHANGED <<stack, due>>
  /\ UNCHANGED <<kind, state, fan, runs, fresh, got, told>>

(* error() and complete(). *)
CallEnd(end) ==
  /\ UserTurn
  /\ state = "active"
  /\ state' = end
  /\ fan' = <<>>
  /\ Enter(FlattenSeq([i \in DOMAIN fan |-> Final(fan[i], end)]))
  /\ UNCHANGED <<kind, last, runs, fresh, got, told, due>>

(* A run whose last observer leaves is closed; its teardown takes it out.   *)
Abort(o) ==
  /\ UserTurn
  /\ \E r \in LiveRuns :
       /\ Contains(runs[r].obs, o)
       /\ LET rest == SelectSeq(runs[r].obs, LAMBDA p : p # o)
          IN /\ runs' = [runs EXCEPT ![r] = [obs |-> rest, live |-> rest # <<>>]]
             /\ fan' = IF rest = <<>> THEN SelectSeq(fan, LAMBDA q : q # r) ELSE fan
  /\ UNCHANGED <<kind, state, last, fresh, got, told, due, stack>>

-----------------------------------------------------------------------------
(* Steps.                                                                   *)
(* The start of a run: what is over says so; else the run joins the fan-out, *)
(* and leaves at once if it is over itself.                                 *)
StartRun ==
  /\ Doing("init")
  /\ LET r == Arg[1]
     IN /\ fan' = IF state = "active" /\ runs[r].live THEN Append(fan, r) ELSE fan
        /\ Proceed(IF state = "active" THEN <<>> ELSE Final(r, state))
  /\ UNCHANGED <<kind, state, last, runs, fresh, got, told, due>>

(* next() of a run: to those who observe it now. *)
RunNext ==
  /\ Doing("give")
  /\ LET obs == runs[Arg[1]].obs
     IN Proceed([i \in DOMAIN obs |-> Step("value", <<obs[i], Arg[2]>>)])
  /\ UNCHANGED <<kind, state, last, fan, runs, fresh, got, told, due>>

ObserverNext ==
  /\ Doing("value")
  /\ got' = [got EXCEPT ![Arg[1]] = Append(@, Arg[2])]
  /\ Await(<<>>)
  /\ UNCHANGED <<kind, state, last, fan, runs, fresh, told, due>>

(* error() and complete() of a run: it is closed, and then they are told.   *)
RunEnd ==
  /\ Doing("end")
  /\ LET obs == runs[Arg[1]].obs
     IN /\ Proceed([i \in DOMAIN obs |-> Step("over", <<obs[i]>>)])
        /\ runs' = [runs EXCEPT ![Arg[1]] = [obs |-> <<>>, live |-> FALSE]]
  /\ UNCHANGED <<kind, state, last, fan, fresh, got, told, due>>

ObserverEnd ==
  /\ Doing("over")
  /\ told' = [told EXCEPT ![Arg[1]] = Append(@, state)]
  /\ Await(<<>>)
  /\ UNCHANGED <<kind, state, last, fan, runs, fresh, got, due>>

CallbackEnds ==
  /\ stack # <<>> /\ Top.at = "call"
  /\ stack' = Frames(Top.todo, "run", Tail(stack))
  /\ UNCHANGED <<kind, state, last, fan, runs, fresh, got, told, due>>

Next ==
  \/ \E o \in Observers, aborted \in BOOLEAN : Subscribe(o, aborted)
  \/ CallNext
  \/ \E end \in {"error", "complete"} : CallEnd(end)
  \/ \E o \in Observers : Abort(o)
  \/ StartRun
  \/ RunNext
  \/ ObserverNext
  \/ RunEnd
  \/ ObserverEnd
  \/ CallbackEnds

Spec == Init /\ [][Next]_vars

-----------------------------------------------------------------------------
(* Properties.                                                              *)

TypeOK ==
  /\ kind \in {"subject", "async"} /\ state \in {"active", "error", "complete"}
  /\ last \in 0 .. MaxValues
  /\ runs \in Seq([obs : Seq(Observers), live : BOOLEAN])
  /\ \A i \in DOMAIN fan : fan[i] \in DOMAIN runs
  /\ \A o \in Observers : told[o] \in {<<>>, <<"error">>, <<"complete">>}

(* subject.ts:40: an observer of a Subject is given every value that is sent *)
(* while it observes, once, although it or another one leaves, ends or sends *)
(* values while they are given out.                                         *)
EachValueOnce ==
  kind = "subject" /\ Quiet =>
    \A o \in Observers : Len(got[o]) = Len(due[o]) /\ Range(got[o]) = Range(due[o])

(* async-subject.ts:72: one who is told of the completion was given the last *)
(* value and no other, once, whether it came before or after, or during it; *)
(* one who is told of an error was given nothing.                           *)
LastValueOnly ==
  kind = "async" =>
    \A o \in Observers :
      /\ told[o] = <<"complete">> => got[o] = (IF last = 0 THEN <<>> ELSE <<last>>)
      /\ told[o] = <<"error">> => got[o] = <<>>

(* subject.ts:48 and 60: the end reaches all that observe, and those who    *)
(* come later, however many come and go in the middle of it.                *)
EndReachesAll ==
  Quiet /\ state # "active" => LiveRuns = {}

(* subject.ts:34, async-subject.ts:43: a Subject keeps hold of the runs that *)
(* are live, and of none that is over, even before it started.              *)
KeepsLiveRunsOnly ==
  Quiet /\ state = "active" => Range(fan) = LiveRuns /\ Len(fan) = Cardinality(LiveRuns)
=============================================================================
