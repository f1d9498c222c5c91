----------------------------- MODULE Downstream -----------------------------
(***************************************************************************)
(* What every operator of the rxjs package shares: the Subscriber it sends *)
(* its result to, with one observer.                                       *)
(*                                                                         *)
(* The modules of the operators extend this one: each of their actions is  *)
(* a handler that user code calls, or one more step of a frame.            *)
(***************************************************************************)
EXTENDS CallStack

VARIABLES
  active,  (* subscriber.active                                *)
  out      (* history: what the observer was given, in order   *)

Value(v) == Step("next", <<v>>)

Array(s) == Step("next", s)

Fail == Step("error", <<>>)

End == Step("complete", <<>>)

Values(seq) == [i \in DOMAIN seq |-> Value(seq[i])]

-----------------------------------------------------------------------------
DownstreamInit ==
  /\ active = TRUE
  /\ out = <<>>
  /\ stack = <<>>

BugStaysActive ==
  /\ \E kind \in {"next", "error", "complete"} : Doing(kind)
  /\ IF active
     THEN /\ out' = Append(out, Head(Top.todo))
          /\ UNCHANGED active
          /\ Await(<<>>)
     ELSE Proceed(<<>>) /\ UNCHANGED <<active, out>>

(* subscriber.next(), error() and complete(): nothing once it is inactive; *)
(* an end makes it inactive, and runs its teardowns, before the observer   *)
(* is told.                                                                *)
Notify ==
  /\ \E kind \in {"next", "error", "complete"} : Doing(kind)
  /\ IF active
     THEN /\ out' = Append(out, Head(Top.todo))
          /\ active' = Doing("next")
          /\ Await(<<>>)
     ELSE Proceed(<<>>) /\ UNCHANGED <<active, out>>

CallbackEnds ==
  /\ stack # <<>> /\ Top.at # "run"
  /\ stack' = Frames(Top.todo, "run", Tail(stack))
  /\ UNCHANGED <<active, out>>

(* The observer's signal is aborted. *)
Unsubscribe ==
  /\ UserTurn
  /\ active
  /\ active' = FALSE
  /\ UNCHANGED <<out, stack>>

-----------------------------------------------------------------------------
Ended == out # <<>> /\ Last(out).do # "next"

(* The observer has left of its own accord. *)
Left == ~active /\ ~Ended

Frame == [todo : Seq([do : STRING, arg : Seq(Nat)]), at : {"run", "call", "asked", "within"}]

(* An observer is given at most one end, and nothing after it, and the      *)
(* Subscriber is inactive from then on.                                     *)
DownstreamOK ==
  /\ active \in BOOLEAN
  /\ \A i \in DOMAIN out : out[i].do \in {"error", "complete"} => i = Len(out)
  /\ Ended => ~active
  /\ stack \in Seq(Frame)
=============================================================================
