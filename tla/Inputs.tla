------------------------------- MODULE Inputs -------------------------------
(***************************************************************************)
(* What the operators of several inputs share: the subscriptions that they *)
(* open with subscribeToSource(), each with the controller whose signal it *)
(* joins to that of the subscriber, and the notifications user code sends  *)
(* through them.  An input runs the code of its source inside subscribe(), *)
(* so it may emit before subscribe() returns, and while any other callback *)
(* is in progress.  No operator looks at a value, so that each value is    *)
(* named by its position in the log of all notifications.                  *)
(***************************************************************************)
EXTENDS Downstream

CONSTANTS
  MaxLog,     (* bound: notifications of all inputs                      *)
  MaxInputs   (* bound: subscriptions                                    *)

ASSUME InputsOK == MaxLog \in Nat /\ MaxInputs \in Nat

VARIABLES
  inputs,   (* the subscriptions, in order                                *)
  aborted,  (* the controllers of the operator that have been aborted     *)
  log       (* history: the notifications that were delivered to handlers *)

(* An input has a role (0 is the source, what else the operator says) and a *)
(* controller (0 if it joins no signal to that of the subscriber).          *)
Subscribe(role, ctl) == Step("subscribe", <<role, ctl>>)

Call == Step("call", <<>>)  (* a function of the user's *)

Role(i) == inputs[i].role

Ctl(i) == inputs[i].ctl

Live(i) == active /\ inputs[i].on /\ Ctl(i) \notin aborted

Closed(i) == [inputs EXCEPT ![i].on = FALSE]

SubscribeInput ==
  /\ Doing("subscribe")
  /\ Len(inputs) < MaxInputs
  /\ inputs' = Append(inputs, [role |-> Arg[1], ctl |-> Arg[2],
                               on |-> active /\ Arg[2] \notin aborted])
  /\ IF active THEN AwaitSource ELSE Proceed(<<>>)
  /\ UNCHANGED <<active, out, aborted, log>>

User == 9  (* the role, in the log, of a function that throws *)

(* Observable.from() throws, or a function of the user that is called: the  *)
(* guard of the handler ends the result with that.  The source (role 0) is  *)
(* an Observable already.                                                   *)
UserThrows ==
  /\ (Doing("subscribe") /\ Arg[1] # 0) \/ Doing("call")
  /\ active
  /\ Len(log) < MaxLog
  /\ log' = Append(log, [role |-> User, do |-> "error"])
  /\ Abandon(<<Fail>>)
  /\ UNCHANGED <<active, out, inputs, aborted>>

CallUser ==
  /\ Doing("call")
  /\ AwaitAnswer
  /\ UNCHANGED <<active, out, inputs, aborted, log>>

Here == Len(log) + 1  (* the position of the notification at hand *)

Delivers(i, kind) ==
  /\ UserTurn
  /\ i \in DOMAIN inputs /\ Live(i)
  /\ Len(log) < MaxLog
  /\ log' = Append(log, [role |-> Role(i), do |-> kind])

InputsInit ==
  /\ inputs = <<>>
  /\ aborted = {}
  /\ log = <<>>
  /\ active = TRUE
  /\ out = <<>>

InputsOrdinary ==
  \/ SubscribeInput
  \/ UserThrows
  \/ CallUser
  \/ (Notify \/ CallbackEnds \/ Unsubscribe) /\ UNCHANGED <<inputs, aborted, log>>

-----------------------------------------------------------------------------
InputsTypeOK ==
  /\ DownstreamOK
  /\ inputs \in Seq([role : Nat, ctl : Nat, on : BOOLEAN])
  /\ aborted \subseteq Nat
  /\ log \in Seq([role : Nat, do : {"next", "error", "complete"}])

(* Positions of the log, and what lies between two of them. *)
Nexts(role) == {p \in DOMAIN log : log[p].role = role /\ log[p].do = "next"}

Before(p, role) == {q \in Nexts(role) : q < p}

Latest(set) == CHOOSE p \in set : \A q \in set : q <= p

Failed == \E p \in DOMAIN log : log[p].do = "error"
=============================================================================
