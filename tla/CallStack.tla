----------------------------- MODULE CallStack -----------------------------
(***************************************************************************)
(* Reentrancy: library code and user code call each other synchronously.   *)
(*                                                                         *)
(* A frame of the stack is a call of library code in progress: the steps   *)
(* that it has yet to take, in order, and whether it waits for a user      *)
(* callback ("call"), for a function that is to say what to subscribe to   *)
(* ("asked"), for the code of a source that is being subscribed to         *)
(* ("within"), or has control ("run").  User code (an observer, a source,  *)
(* a notifier, a mapper that subscribes or emits) acts when the stack is   *)
(* empty or its top waits.                                                 *)
(*                                                                         *)
(* The argument of a step is a sequence: one value, an array of values, or *)
(* what else the step needs.                                               *)
(***************************************************************************)
EXTENDS Naturals, Sequences, FiniteSets, SequencesExt

CONSTANT MaxDepth  (* bound: user code calls the library below this depth *)

ASSUME DepthOK == MaxDepth \in Nat

VARIABLE stack  (* library calls in progress, innermost first *)

Step(what, arg) == [do |-> what, arg |-> arg]

Top == Head(stack)

(* The frames `below` with one above them that has `todo` left, if anything. *)
Frames(todo, at, below) ==
  IF todo = <<>> /\ at = "run" THEN below
  ELSE <<[todo |-> todo, at |-> at]>> \o below

UserTurn ==
  /\ stack # <<>> => Top.at # "run"
  /\ Len(stack) < MaxDepth

Doing(what) ==
  stack # <<>> /\ Top.at = "run" /\ Top.todo # <<>> /\ Head(Top.todo).do = what

Arg == Head(Top.todo).arg

(* A handler that user code calls does this, then `todo`. *)
Enter(todo) == stack' = Frames(todo, "run", stack)

(* A handler that starts by calling user code back. *)
EnterCall(todo) == stack' = Frames(todo, "call", stack)

(* The step at hand is taken, and `todo` comes before the rest. *)
Proceed(todo) == stack' = Frames(todo \o Tail(Top.todo), "run", Tail(stack))

(* The same, but a user callback comes first. *)
Await(todo) == stack' = Frames(todo \o Tail(Top.todo), "call", Tail(stack))

(* The same, for a source that is subscribed to. *)
AwaitSource == stack' = Frames(Tail(Top.todo), "within", Tail(stack))

AwaitAnswer == stack' = Frames(Tail(Top.todo), "asked", Tail(stack))

(* No function of the user's is in progress, except for that of a source.   *)
NotAsked == \A k \in DOMAIN stack : stack[k].at # "asked"

AtRest == \A k \in DOMAIN stack : stack[k].at = "within"

(* The rest of the frame is given up: a return, or a throw that is caught. *)
Abandon(todo) == stack' = Frames(todo, "run", Tail(stack))

Quiet == stack = <<>>
=============================================================================
