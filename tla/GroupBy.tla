------------------------------- MODULE GroupBy -------------------------------
(***************************************************************************)
(* groupBy: a source's values are given to groups by their keys.  The      *)
(* result gives each group, as a read-only view of its Subject, when its   *)
(* first value comes; the source goes on while the result or any view has  *)
(* an observer.  A duration ends its group, and the next value of that key *)
(* opens another.                                                          *)
(*                                                                         *)
(* The functions of the user (key, duration, element), the observers of    *)
(* the result and of the groups, and a duration that is being subscribed   *)
(* to, may make the source emit, leave, or come back.                      *)
(***************************************************************************)
EXTENDS Downstream

CONSTANTS
  Keys,      (* what keySelector returns                                   *)
  Durations, (* whether there is a duration                                *)
  Calm,      (* the source does not emit inside a call of groupBy's        *)
  MaxValues, (* bound: values of the source                                *)
  MaxViews   (* bound: subscriptions to views                              *)

VARIABLES
  keys,     (* history: the key of each value of the source                *)
  over,     (* the source is over                                          *)
  groups,   (* the groups: key, values it was given (by number), end, and  *)
            (* what its duration does                                      *)
  map,      (* the Map from keys to groups, 0 where there is none          *)
  viewed,   (* the groups whose view has a run: activeGroupViews           *)
  views,    (* history: subscriptions to views                             *)
  state     (* dispatchingSourceValue and stopped                          *)

vars == <<keys, over, groups, map, viewed, views, state, active, out, stack>>

Init ==
  /\ DownstreamInit
  /\ keys = <<>> /\ over = FALSE
  /\ groups = <<>>
  /\ map = [k \in Keys |-> 0]
  /\ viewed = {} /\ views = 0
  /\ state = [dispatching |-> FALSE, stopped |-> FALSE]

SourceLive == ~over /\ ~state.stopped

(* The last thing that the handler of a value does, however it returns.     *)
Finally == Step("finally", <<>>)

(* next() of the source. *)
SourceNext(k) ==
  /\ UserTurn /\ (Calm => Quiet)
  /\ SourceLive
  /\ Len(keys) < MaxValues
  /\ keys' = Append(keys, k)
  /\ state' = [state EXCEPT !.dispatching = TRUE]
  /\ EnterCall(<<Step("route", <<Len(keys) + 1>>), Finally>>)
  /\ UNCHANGED <<over, groups, map, viewed, views, active, out>>

rest == <<keys, over, views, active, out>>

(* The group of the key, or a new one, unless nobody observes the result.   *)
Route ==
  /\ Doing("route")
  /\ LET p == Arg[1]
         k == keys[p]
         g == IF map[k] = 0 THEN Len(groups) + 1 ELSE map[k]
     IN IF map[k] # 0
        THEN Proceed(<<Step("element", <<g, p>>)>>) /\ UNCHANGED <<groups, map>>
        ELSE IF ~active THEN Proceed(<<>>) /\ UNCHANGED <<groups, map>>
        ELSE /\ groups' = Append(groups, [key |-> k, vals |-> <<>>, end |-> 0, dur |-> 0])
             /\ map' = [map EXCEPT ![k] = g]
             /\ Proceed(<<Value(g), Step("duration", <<g, p>>)>>)
  /\ UNCHANGED <<rest, viewed, state>>

Current(g) == ~state.stopped /\ map[groups[g].key] = g

(* startDuration() asks, and then subscribes.                               *)
StartDuration ==
  /\ Doing("duration")
  /\ IF ~Current(Arg[1]) THEN Proceed(<<>>)
     ELSE IF Durations THEN Await(<<Step("time", Arg)>>)
     ELSE Proceed(<<Step("element", Arg)>>)
  /\ UNCHANGED <<rest, groups, map, viewed, state>>

SubscribeDuration ==
  /\ Doing("time")
  /\ groups' = [groups EXCEPT ![Arg[1]].dur = IF state.stopped THEN 2 ELSE 1]
  /\ Await(<<Step("timed", Arg)>>)
  /\ UNCHANGED <<rest, map, viewed, state>>

SelectElement ==
  /\ Doing("timed") \/ Doing("element")
  /\ IF Doing("timed") /\ ~Current(Arg[1]) THEN Proceed(<<>>)
     ELSE Await(<<Step("give", Arg)>>)
  /\ UNCHANGED <<rest, groups, map, viewed, state>>

(* entry.subject.next() *)
GiveValue ==
  /\ Doing("give")
  /\ LET g == Arg[1]
     IN IF groups[g].end # 0 THEN Proceed(<<>>) /\ UNCHANGED groups
        ELSE groups' = [groups EXCEPT ![g].vals = Append(@, Arg[2])] /\ Await(<<>>)
  /\ UNCHANGED <<rest, map, viewed, state>>

(* stopIfUnobserved() and stop(): the groups are forgotten, not ended.      *)
StopIfUnobserved ==
  /\ Doing("finally") \/ Doing("stop if unobserved")
  /\ LET s == [state EXCEPT !.dispatching = IF Doing("finally") THEN FALSE ELSE @]
         stops == ~active /\ viewed = {} /\ ~s.dispatching
     IN /\ state' = [s EXCEPT !.stopped = @ \/ stops]
        /\ map' = IF stops THEN [k \in Keys |-> 0] ELSE map
  /\ Proceed(<<>>)
  /\ UNCHANGED <<rest, groups, viewed>>

Recheck == Step("stop if unobserved", <<>>)

Ends(gs, end) == [i \in DOMAIN gs |-> Step("end", <<gs[i], end>>)]

Mapped == SetToSortSeq({map[k] : k \in Keys} \ {0}, <)

(* terminate(): every group, then the result.                               *)
Terminate(end) ==
  [s |-> [state EXCEPT !.stopped = TRUE],
   todo |-> Ends(Mapped, end) \o <<IF end = 1 THEN End ELSE Fail>>]

SourceEnds(end) ==
  /\ UserTurn
  /\ SourceLive
  /\ over' = TRUE
  /\ state' = Terminate(end).s
  /\ map' = [k \in Keys |-> 0]
  /\ Enter(Terminate(end).todo)
  /\ UNCHANGED <<keys, groups, viewed, views, active, out>>

(* A function of the user throws: keySelector, duration or element.         *)
SelectorThrows ==
  /\ stack # <<>> /\ Top.at = "call" /\ Top.todo # <<>>
  /\ Head(Top.todo).do \in {"route", "time", "give"}
  /\ stack' = Frames((IF state.stopped THEN <<>> ELSE Terminate(2).todo) \o <<Finally>>,
                     "run", Tail(stack))
  /\ state' = Terminate(2).s
  /\ map' = [k \in Keys |-> 0]
  /\ UNCHANGED <<rest, groups, viewed>>

(* The Subject of the group ends, and with it the run of its view, whose    *)
(* teardown comes before its observers are told.                            *)
EndGroup ==
  /\ Doing("end")
  /\ LET g == Arg[1]
     IN IF groups[g].end # 0 THEN Proceed(<<>>) /\ UNCHANGED <<groups, viewed>>
        ELSE /\ groups' = [groups EXCEPT ![g].end = Arg[2], ![g].dur = 2]
             /\ viewed' = viewed \ {g}
             /\ Proceed((IF g \in viewed THEN <<Recheck>> ELSE <<>>) \o <<Step("told", <<>>)>>)
  /\ UNCHANGED <<rest, map, state>>

Told ==
  /\ Doing("told")
  /\ Await(<<>>)
  /\ UNCHANGED <<rest, groups, map, viewed, state>>

(* A duration answers, or fails: removeGroup().                             *)
DurationEnds(g, end) ==
  /\ UserTurn
  /\ g \in DOMAIN groups /\ groups[g].dur = 1 /\ ~state.stopped
  /\ groups' = [groups EXCEPT ![g].dur = 2]
  /\ IF Current(g)
     THEN /\ map' = [map EXCEPT ![groups[g].key] = 0]
          /\ Enter(<<Step("end", <<g, end>>), Recheck>>)
     ELSE UNCHANGED <<map, stack>>
  /\ UNCHANGED <<rest, viewed, state>>

(* An observer of a view: its run counts until it is over.                  *)
SubscribeView(g) ==
  /\ UserTurn
  /\ g \in {out[i].arg[1] : i \in {j \in DOMAIN out : out[j].do = "next"}} \ viewed
  /\ views < MaxViews
  /\ views' = views + 1
  /\ IF groups[g].end = 0 THEN viewed' = viewed \cup {g} /\ UNCHANGED stack
     ELSE Enter(<<Recheck, Step("told", <<>>)>>) /\ UNCHANGED viewed
  /\ UNCHANGED <<keys, over, groups, map, state, active, out>>

LeaveView(g) ==
  /\ UserTurn
  /\ g \in viewed
  /\ viewed' = viewed \ {g}
  /\ Enter(<<Recheck>>)
  /\ UNCHANGED <<keys, over, groups, map, views, state, active, out>>

(* The observer of the result leaves: its teardown looks whether to stop.   *)
LeaveResult ==
  /\ UserTurn
  /\ active
  /\ active' = FALSE
  /\ Enter(<<Recheck>>)
  /\ UNCHANGED <<keys, over, groups, map, viewed, views, state, out>>

Next ==
  \/ \E k \in Keys : SourceNext(k)
  \/ Route
  \/ StartDuration
  \/ SubscribeDuration
  \/ SelectElement
  \/ GiveValue
  \/ StopIfUnobserved
  \/ \E end \in 1 .. 2 : SourceEnds(end)
  \/ SelectorThrows
  \/ EndGroup
  \/ Told
  \/ \E g \in DOMAIN groups, end \in 1 .. 2 : DurationEnds(g, end)
  \/ \E g \in DOMAIN groups : SubscribeView(g) \/ LeaveView(g)
  \/ LeaveResult
  \/ (Notify \/ CallbackEnds) /\ UNCHANGED <<keys, over, groups, map, viewed, views, state>>

Spec == Init /\ [][Next]_vars

-----------------------------------------------------------------------------
(* Properties.                                                              *)

TypeOK ==
  /\ DownstreamOK
  /\ groups \in Seq([key : Keys, vals : Seq(DOMAIN keys), end : 0 .. 2, dur : 0 .. 2])
  /\ map \in [Keys -> 0 .. Len(groups)]
  /\ viewed \subseteq DOMAIN groups
  /\ state \in [dispatching : BOOLEAN, stopped : BOOLEAN]

(* group-by.ts:123: nobody observes the result or a group, and the source   *)
(* has been let go, at whatever point of which call the last one left.      *)
SourceReleased ==
  Quiet /\ ~active /\ viewed = {} => state.stopped

(* group-by.ts:155: the result ends after all of its groups.                *)
GroupsEndFirst ==
  Ended => \A g \in DOMAIN groups : groups[g].end # 0

(* group-by.ts:183: a key has one group at a time that has not ended.       *)
OneGroupPerKey ==
  ~state.stopped =>
    \A g \in DOMAIN groups :
      groups[g].end = 0 =>
        \/ map[groups[g].key] = g
        \/ \E f \in DOMAIN stack : \E i \in DOMAIN stack[f].todo :
             stack[f].todo[i].do = "end" /\ stack[f].todo[i].arg[1] = g

(* group-by.ts:299 of the spec: the value that opens a group is given to it, *)
(* although the observers leave while they are handed the group.            *)
RoutedWhole ==
  Quiet => \A g \in DOMAIN groups : groups[g].vals # <<>> \/ groups[g].end # 0
=============================================================================
