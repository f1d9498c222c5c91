--------------------------- MODULE PlatformPromises ---------------------------
(***************************************************************************)
(* The methods of the platform's Observable that return a Promise - first, *)
(* last, find, some, every, forEach, reduce, toArray - and the             *)
(* AbortableDeferred that each of them settles.                            *)
(*                                                                         *)
(* The source may notify inside the callback for an earlier value; the     *)
(* options' signal may be aborted at any time, inside a callback too, and  *)
(* user code listens to that abort before the deferred does.  A value is   *)
(* named by its place in the log of all that happened.                     *)
(***************************************************************************)
EXTENDS Naturals, Sequences, FiniteSets, SequencesExt

CONSTANTS
  Ops,      (* the methods of this instance                               *)
  Calm,     (* those whose callbacks do not make the source notify        *)
  MaxLog,   (* bound: what happens                                        *)
  MaxDepth  (* bound: calls in progress                                   *)

VARIABLES
  op,       (* the method                                                 *)
  seeded,   (* reduce has an initial value                                *)
  signal,   (* of the options: "none", "live" or "aborted"                *)
  outcome,  (* of the promise: <<>>, or how it was settled, and with what *)
  over,     (* the source has ended                                       *)
  acc,      (* values that last, reduce or toArray keeps; the seed is 0   *)
  log,      (* history                                                    *)
  stack     (* callbacks (with the value and what reduce had kept) and    *)
            (* aborts in progress                                         *)

vars == <<op, seeded, signal, outcome, over, acc, log, stack>>

Callback(p) == [of |-> p, had |-> acc]

Aborting == [of |-> 0, had |-> <<>>]

Resolve(payload) == <<"resolved", payload>>

Reject == <<"rejected", <<>>>>

(* resolve() and reject() of AbortableDeferred. *)
Settle(how) == outcome' = IF outcome = <<>> THEN how ELSE outcome

Init ==
  /\ op \in Ops
  /\ seeded \in BOOLEAN /\ (op # "reduce" => ~seeded)
  /\ signal \in {"none", "live", "aborted"}
  /\ outcome = IF signal = "aborted" THEN Reject ELSE <<>>
  /\ over = FALSE
  /\ acc = IF seeded THEN <<0>> ELSE <<>>
  /\ log = <<>>
  /\ stack = <<>>

(* The subscription lasts until the deferred is settled. *)
Open == ~over /\ outcome = <<>>

Asks == op \in {"find", "some", "every", "forEach"} \/ (op = "reduce" /\ acc # <<>>)

Here == Len(log) + 1

(* Something happens, about the value at place p (0 where it is about none). *)
Happens(what, p) ==
  /\ Len(log) < MaxLog
  /\ log' = Append(log, [do |-> what, of |-> p])

InCallback == \E k \in DOMAIN stack : stack[k].of # 0

Next1 ==
  /\ Open
  /\ op \in Calm => ~InCallback
  /\ Happens("next", Here)
  /\ CASE op = "first" -> Settle(Resolve(<<Here>>)) /\ UNCHANGED <<acc, stack>>
       [] Asks -> /\ Len(stack) < MaxDepth
                  /\ stack' = <<Callback(Here)>> \o stack
                  /\ UNCHANGED <<acc, outcome>>
       [] OTHER -> /\ acc' = IF op = "last" THEN <<Here>> ELSE Append(acc, Here)
                   /\ UNCHANGED <<outcome, stack>>
  /\ UNCHANGED <<op, seeded, signal, over>>

SourceFails ==
  /\ Open
  /\ op \in Calm => ~InCallback
  /\ Happens("error", 0)
  /\ over' = TRUE
  /\ Settle(Reject)
  /\ UNCHANGED <<op, seeded, signal, acc, stack>>

AtEnd ==
  CASE op \in {"last", "reduce"} -> IF acc = <<>> THEN Reject ELSE Resolve(acc)
    [] op = "first"   -> Reject
    [] op = "toArray" -> Resolve(acc)
    [] op = "every"   -> Resolve(<<1>>)
    [] OTHER          -> Resolve(<<>>)

SourceCompletes ==
  /\ Open
  /\ op \in Calm => ~InCallback
  /\ Happens("complete", 0)
  /\ over' = TRUE
  /\ Settle(AtEnd)
  /\ UNCHANGED <<op, seeded, signal, acc, stack>>

Running == stack # <<>> /\ Head(stack).of # 0

(* What an answer of a callback does to the deferred. *)
Decide(yes) ==
  LET p == Head(stack).of
  IN CASE yes /\ op = "find"   -> Settle(Resolve(<<p>>))
       [] yes /\ op = "some"   -> Settle(Resolve(<<1>>))
       [] ~yes /\ op = "every" -> Settle(Resolve(<<>>))
       [] OTHER                -> UNCHANGED outcome

CallbackReturns(yes) ==
  /\ Running
  /\ Happens(IF yes THEN "yes" ELSE "no", Head(stack).of)
  /\ stack' = Tail(stack)
  /\ acc' = IF op = "reduce" THEN Append(Head(stack).had, Head(stack).of) ELSE acc
  /\ Decide(yes)
  /\ UNCHANGED <<op, seeded, signal, over>>

CallbackThrows ==
  /\ Running
  /\ Happens("throw", Head(stack).of)
  /\ stack' = Tail(stack)
  /\ Settle(Reject)
  /\ UNCHANGED <<op, seeded, signal, over, acc>>

(* abort() of the options' signal: the abort algorithms, which toArray uses, *)
(* come before its listeners.                                               *)
Abort ==
  /\ signal = "live"
  /\ Len(stack) < MaxDepth
  /\ Happens("aborting", 0)
  /\ signal' = "aborted"
  /\ stack' = <<Aborting>> \o stack
  /\ IF op = "toArray" THEN Settle(Reject) ELSE UNCHANGED outcome
  /\ UNCHANGED <<op, seeded, over, acc>>

(* The listener of the deferred, after those that user code added before.   *)
Aborted ==
  /\ stack # <<>> /\ Head(stack).of = 0
  /\ Happens("aborted", 0)
  /\ stack' = Tail(stack)
  /\ Settle(Reject)
  /\ UNCHANGED <<op, seeded, signal, over, acc>>

Next ==
  \/ Next1
  \/ SourceFails
  \/ SourceCompletes
  \/ \E yes \in BOOLEAN : CallbackReturns(yes)
  \/ CallbackThrows
  \/ Abort
  \/ Aborted

Spec == Init /\ [][Next]_vars

-----------------------------------------------------------------------------
(* The reference: the first thing in the log that decides.                  *)
Decides(i) ==
  \/ log[i].do \in {"error", "complete", "throw", "aborted"}
  \/ log[i].do = "aborting" /\ op = "toArray"
  \/ log[i].do = "yes" /\ op \in {"find", "some"}
  \/ log[i].do = "no" /\ op = "every"
  \/ log[i].do = "next" /\ op = "first"

AllValues(i) == SelectSeq([p \in 1 .. i |-> p], LAMBDA p : log[p].do = "next")

CompletedWith(i) ==
  LET all == (IF seeded THEN <<0>> ELSE <<>>) \o AllValues(i)
  IN CASE op = "last" -> IF all = <<>> THEN Reject ELSE Resolve(<<Last(all)>>)
       [] op = "reduce" -> IF all = <<>> THEN Reject ELSE Resolve(all)
       [] op = "first" -> Reject
       [] op = "toArray" -> Resolve(all)
       [] op = "every" -> Resolve(<<1>>)
       [] OTHER -> Resolve(<<>>)

Expected ==
  LET deciding == {i \in DOMAIN log : Decides(i)}
      i == CHOOSE d \in deciding : \A e \in deciding : d <= e
  IN IF deciding = {} THEN <<>>
     ELSE CASE log[i].do = "next"     -> Resolve(<<i>>)
            [] log[i].do = "complete" -> CompletedWith(i)
            [] log[i].do = "yes"      -> Resolve(<<IF op = "find" THEN log[i].of ELSE 1>>)
            [] log[i].do = "no"       -> Resolve(<<>>)
            [] OTHER               -> Reject

-----------------------------------------------------------------------------
(* Properties.                                                              *)

TypeOK ==
  /\ op \in Ops
  /\ outcome # <<>> => outcome[1] \in {"resolved", "rejected"} /\ outcome[2] \in Seq(0 .. MaxLog)
  /\ acc \in Seq(0 .. MaxLog)
  /\ over => outcome # <<>>

(* index.ts:961-1245: the promise is settled by what decides first - a      *)
(* value, an answer, an end or the abort - with the right value, however    *)
(* deep inside each other these come.                                       *)
SettledByTheFirst ==
  (signal = "aborted" => \E i \in DOMAIN log : log[i].do = "aborting") => outcome = Expected
=============================================================================
