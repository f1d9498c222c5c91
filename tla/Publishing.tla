----------------------------- MODULE Publishing -----------------------------
(***************************************************************************)
(* connect(selector), and with it multicast(), publish() and               *)
(* publishReplay() of a selector: the result is what the selector makes of *)
(* a view of the source, and all subscriptions to that view share one      *)
(* connection of the source through a Subject.                             *)
(***************************************************************************)
EXTENDS Inputs

CONSTANT MaxViews  (* bound: subscriptions to the shared view *)

VARIABLES
  st,    (* the Subject: "open", "ended", or "broken" (its methods throw)  *)
  views  (* the subscriptions to the view: [on, early, got], early when it *)
         (* came before the source was connected                           *)

vars == <<st, views, inputs, aborted, log, active, out, stack>>

Source == 0

Selected == 1

(* The connector and the selector are called, and what the selector returns *)
(* is subscribed to before the source is.                                   *)
Init ==
  /\ st \in {"open", "broken"}
  /\ views = <<>>
  /\ InputsInit
  /\ stack = <<[todo |-> <<Call, Call, Subscribe(Selected, 1), Subscribe(Source, 2)>>,
                at |-> "run"]>>

Connected == \E i \in DOMAIN inputs : Role(i) = Source

(* The selector has been given the view, or has returned. *)
HasSubject ==
  inputs # <<>> \/ (stack # <<>> /\ Last(stack).at = "asked" /\ Len(Last(stack).todo) = 2)

(* User code subscribes to the view; the Subject may be one that is over.   *)
SubscribeView ==
  /\ UserTurn /\ HasSubject
  /\ Len(views) < MaxViews
  /\ views' = Append(views, [on |-> st # "ended", early |-> ~Connected, got |-> <<>>])
  /\ UNCHANGED <<st, inputs, aborted, log, active, out, stack>>

LeaveView(k) ==
  /\ UserTurn
  /\ views[k].on
  /\ views' = [views EXCEPT ![k].on = FALSE]
  /\ UNCHANGED <<st, inputs, aborted, log, active, out, stack>>

Observing == SetToSeq({k \in DOMAIN views : views[k].on})

(* failConnector(): the Subject throws. *)
FailConnector(i) ==
  /\ st = "broken"
  /\ aborted' = aborted \cup {Ctl(i)}
  /\ Enter(<<Fail>>)
  /\ UNCHANGED <<st, views>>

SourceNext(i) ==
  \/ FailConnector(i)
  \/ /\ st # "broken"
     /\ Enter(IF st = "ended" THEN <<>>
              ELSE [k \in DOMAIN Observing |-> Step("share", <<Observing[k], Here>>)])
     /\ UNCHANGED <<st, views, aborted>>

(* The end of the Subject is the end of the view for all of its observers.  *)
SourceEnds(i) ==
  \/ FailConnector(i)
  \/ /\ st # "broken"
     /\ st' = "ended"
     /\ views' = [k \in DOMAIN views |-> [views[k] EXCEPT !.on = FALSE]]
     /\ Enter([k \in DOMAIN Observing |-> Step("tell", <<>>)])
     /\ UNCHANGED aborted

InputNext(i) ==
  /\ Delivers(i, "next")
  /\ IF Role(i) = Source THEN SourceNext(i)
     ELSE Enter(<<Value(Here)>>) /\ UNCHANGED <<st, views, aborted>>
  /\ UNCHANGED <<inputs, active, out>>

InputEnds(i, kind) ==
  /\ Delivers(i, kind)
  /\ inputs' = Closed(i)
  /\ IF Role(i) = Source THEN SourceEnds(i)
     ELSE Enter(<<Step(kind, <<>>)>>) /\ UNCHANGED <<st, views, aborted>>
  /\ UNCHANGED <<active, out>>

rest == <<st, inputs, aborted, log, active, out>>

ShareValue ==
  /\ Doing("share")
  /\ views' = [views EXCEPT ![Arg[1]].got = Append(@, Arg[2])]
  /\ Await(<<>>)
  /\ UNCHANGED rest

TellEnd ==
  /\ Doing("tell")
  /\ Await(<<>>)
  /\ UNCHANGED <<rest, views>>

Next ==
  \/ SubscribeView
  \/ \E k \in DOMAIN views : LeaveView(k)
  \/ \E i \in DOMAIN inputs : InputNext(i)
  \/ \E i \in DOMAIN inputs, kind \in {"error", "complete"} : InputEnds(i, kind)
  \/ ShareValue
  \/ TellEnd
  \/ InputsOrdinary /\ UNCHANGED <<st, views>>

Spec == Init /\ [][Next]_vars

-----------------------------------------------------------------------------
(* Properties.                                                              *)

TypeOK ==
  /\ InputsTypeOK
  /\ st \in {"open", "ended", "broken"}
  /\ views \in Seq([on : BOOLEAN, early : BOOLEAN, got : Seq(Nat)])

(* connect.ts:70: what the selector subscribes to the view, while its       *)
(* result is subscribed to, sees the one connection of the source whole:    *)
(* it misses none of the values until it leaves, and has each once.         *)
ViewsMissNothing ==
  Quiet /\ st # "broken" =>
    \A k \in DOMAIN views :
      /\ Cardinality(Range(views[k].got)) = Len(views[k].got)
      /\ views[k].on /\ views[k].early => Range(views[k].got) = Nexts(Source)

(* connect.ts:79: a result that goes on has what the selector returned to   *)
(* wait for; when a Subject throws, the result fails with that and the      *)
(* source is left.                                                          *)
NeverStranded ==
  Quiet /\ active =>
    /\ \E i \in DOMAIN inputs : Live(i) /\ Role(i) = Selected
    /\ st = "broken" => \A p \in DOMAIN log : log[p].role # Source
=============================================================================
