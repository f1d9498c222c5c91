----------------------- MODULE PerSubscriptionSubject -----------------------
(***************************************************************************)
(* behaviorSubject() and replaySubject(): hot Subjects on ColdObservable,  *)
(* whose observers get a current value, or a replay of the buffer, as they *)
(* subscribe.  Each observer has a ColdSubscriber of its own, which drops  *)
(* notifications once it is not active and runs its teardown when it is    *)
(* aborted.                                                                *)
(*                                                                         *)
(* As in PlatformObservable, observer callbacks and abort listeners are    *)
(* user code, which may call the Subject or abort an observer before it    *)
(* returns: the model keeps the call stack.  Values are numbered in the    *)
(* order of the calls of next(); the value a behaviorSubject starts with   *)
(* is number 0.  Sets are iterated in an arbitrary order.                  *)
(***************************************************************************)
EXTENDS Naturals, Sequences, FiniteSets, SequencesExt

CONSTANTS
  Observers,  (* observers, one for each call of subscribe()                 *)
  Size,       (* the `size` of the replaySubject's configuration             *)
  MaxValues,  (* bound: calls of next() that are accepted                    *)
  MaxDepth    (* bound: user code calls the library below this depth         *)

VARIABLES
  kind,      (* which of the two Subjects this is                           *)
  state,     (* #completed and #hasError                                    *)
  fanout,    (* #observers                                                  *)
  buffer,    (* #bufferValues, or #currentValue as a sequence of one        *)
  cold,      (* cold[o]: new, active, cancelled by its signal, or ended     *)
  hooked,    (* the observers whose ColdSubscriber has its teardown         *)
  stack,     (* library calls in progress, innermost first                  *)
  emitted,   (* history: the number of values accepted                      *)
  received,  (* history: received[o], the values given to o                 *)
  due,       (* history: due[o], the values o is to be given                *)
  told       (* history: told[o], terminal notifications given to o         *)

vars == <<kind, state, fanout, buffer, cold, hooked, stack, emitted, received,
          due, told>>

(* A call in progress: subscribe() for `who`, with the values it has yet to *)
(* replay; the fan-out of a value or of the end; an abort of `who`.         *)
Frame == [op : {"setup", "next", "end", "abort"}, who : SUBSET Observers,
          replay : Seq(0 .. MaxValues), at : {"run", "call"}]

Call(op, who, replay, at) ==
  [op |-> op, who |-> who, replay |-> replay, at |-> at]

Top == Head(stack)

Push(f) == stack' = <<f>> \o stack

Replace(f) == stack' = <<f>> \o Tail(stack)

Pop == stack' = Tail(stack)

UserTurn ==
  /\ stack # <<>> => Top.at = "call"
  /\ Len(stack) < MaxDepth

LibTurn(op) == stack # <<>> /\ Top.at = "run" /\ Top.op = op

Init ==
  /\ kind \in {"behavior", "replay"}
  /\ state = "active"
  /\ fanout = {}
  /\ buffer = IF kind = "behavior" THEN <<0>> ELSE <<>>
  /\ cold = [o \in Observers |-> "new"]
  /\ hooked = {}
  /\ stack = <<>>
  /\ emitted = 0
  /\ received = [o \in Observers |-> <<>>]
  /\ due = [o \in Observers |-> {}]
  /\ told = [o \in Observers |-> 0]

-----------------------------------------------------------------------------
(* Calls that user code makes.                                              *)

(* Variants of the definition that follows, as a mistake would have it, are *)
(* named Bug...: the properties are shown to notice them.                   *)
BugReplayFirst == FALSE

(* A replaySubject joins the observer to the fan-out before it replays. *)
JoinsFirst == kind = "replay"

(* subscribe(), with a signal that may be aborted already. *)
Subscribe(o, status) ==
  /\ UserTurn
  /\ cold[o] = "new"
  /\ cold' = [cold EXCEPT ![o] = status]
  /\ IF JoinsFirst /\ state = "active"
     THEN fanout' = fanout \cup {o} /\ hooked' = hooked \cup {o}
     ELSE UNCHANGED <<fanout, hooked>>
  /\ LET replay == IF kind = "behavior" /\ state # "active" THEN <<>> ELSE buffer
     IN /\ Push(Call("setup", {o}, replay, "run"))
        /\ due' = [due EXCEPT ![o] = ToSet(replay)]
  /\ UNCHANGED <<kind, state, buffer, emitted, received, told>>

(* The buffer after value v: pushed, then trimmed from the front. *)
Retained(v) ==
  LET all == Append(buffer, v)
  IN IF kind = "behavior" THEN <<v>>
     ELSE IF Len(all) > Size THEN SubSeq(all, Len(all) - Size + 1, Len(all))
                             ELSE all

(* next(): the value is retained, then given to the observers of the moment. *)
Fanout(v) == Call("next", fanout, <<v>>, "run")

CallNext ==
  /\ UserTurn
  /\ state = "active"
  /\ emitted < MaxValues
  /\ emitted' = emitted + 1
  /\ buffer' = Retained(emitted + 1)
  /\ Push(Fanout(emitted + 1))
  /\ due' = [o \in Observers |->
               IF cold[o] = "active" /\ (kind = "replay" \/ o \in fanout)
               THEN due[o] \cup {emitted + 1} ELSE due[o]]
  /\ UNCHANGED <<kind, state, fanout, cold, hooked, received, told>>

BugEndUnretained(end) ==
  /\ UserTurn
  /\ state = "active"
  /\ state' = end
  /\ fanout' = {}
  /\ Push(Call("end", {}, <<>>, "run"))
  /\ UNCHANGED <<kind, buffer, cold, hooked, emitted, received, due, told>>

(* error() and complete(): the end is retained for those who come later. *)
CallEnd(end) ==
  /\ UserTurn
  /\ state = "active"
  /\ state' = end
  /\ fanout' = {}
  /\ Push(Call("end", fanout, <<>>, "run"))
  /\ UNCHANGED <<kind, buffer, cold, hooked, emitted, received, due, told>>

(* The observer's own AbortController is aborted: its ColdSubscriber is     *)
(* inactive at once, and listeners added before it run first.               *)
CallAbort(o) ==
  /\ UserTurn
  /\ cold[o] = "active"
  /\ cold' = [cold EXCEPT ![o] = "cancelled"]
  /\ Push(Call("abort", {o}, <<>>, "call"))
  /\ UNCHANGED <<kind, state, fanout, buffer, hooked, emitted, received, due,
                 told>>

-----------------------------------------------------------------------------
(* The ColdSubscriber.                                                      *)

BugNextUnchecked(o, v) ==
  /\ received' = [received EXCEPT ![o] = Append(@, v)]
  /\ UNCHANGED <<cold, hooked, told, fanout>>

(* Its next(): nothing for an observer that is not active. *)
Give(o, v) ==
  /\ received' = IF cold[o] = "active"
                 THEN [received EXCEPT ![o] = Append(@, v)] ELSE received
  /\ UNCHANGED <<cold, hooked, told, fanout>>

(* Its teardown, which addSubscriber() added: once, if it has one by then. *)
RunTeardown(o) ==
  /\ hooked' = hooked \ {o}
  /\ fanout' = IF o \in hooked THEN fanout \ {o} ELSE fanout

(* Its error() and complete(): it aborts itself, which runs its teardown,   *)
(* and tells the observer.                                                  *)
End(o) ==
  /\ IF cold[o] = "active"
     THEN /\ cold' = [cold EXCEPT ![o] = "ended"]
          /\ told' = [told EXCEPT ![o] = @ + 1]
          /\ RunTeardown(o)
     ELSE UNCHANGED <<cold, told, hooked, fanout>>
  /\ UNCHANGED received

-----------------------------------------------------------------------------
(* Steps of the library.                                                    *)

FanoutStep(o) ==
  /\ LibTurn("next") \/ LibTurn("end")
  /\ o \in Top.who
  /\ Replace([Top EXCEPT !.who = @ \ {o},
                         !.at = IF cold[o] = "active" THEN "call" ELSE "run"])
  /\ IF Top.op = "next" THEN Give(o, Head(Top.replay)) ELSE End(o)
  /\ UNCHANGED <<kind, state, buffer, emitted, due>>

FanoutDone ==
  /\ LibTurn("next") \/ LibTurn("end")
  /\ Top.who = {}
  /\ Pop
  /\ UNCHANGED <<kind, state, fanout, buffer, cold, hooked, emitted, received,
                 due, told>>

(* _subscribe(): one more retained value.  A replay stops when the observer *)
(* has left.                                                                *)
SetupNext(o) ==
  /\ LibTurn("setup")
  /\ Top.who = {o}
  /\ Top.replay # <<>>
  /\ cold[o] = "active" \/ kind = "behavior"
  /\ Replace([Top EXCEPT !.replay = Tail(@),
                         !.at = IF cold[o] = "active" THEN "call" ELSE "run"])
  /\ Give(o, Head(Top.replay))
  /\ UNCHANGED <<kind, state, buffer, emitted, due>>

SetupLeft(o) ==
  /\ LibTurn("setup")
  /\ Top.who = {o}
  /\ Top.replay # <<>>
  /\ cold[o] # "active" /\ kind = "replay"
  /\ Pop
  /\ UNCHANGED <<kind, state, fanout, buffer, cold, hooked, emitted, received,
                 due, told>>

(* The retained end, or for a behaviorSubject its place in the fan-out:     *)
(* addSubscriber() does not ask whether the observer is still there.        *)
SetupDone(o) ==
  /\ LibTurn("setup")
  /\ Top.who = {o}
  /\ Top.replay = <<>>
  /\ IF state # "active"
     THEN /\ End(o)
          /\ IF cold[o] = "active"
             THEN Replace(Call("end", {}, <<>>, "call"))
             ELSE Pop
     ELSE /\ IF ~JoinsFirst
             THEN /\ fanout' = fanout \cup {o}
                  /\ hooked' = hooked \cup {o}
             ELSE UNCHANGED <<fanout, hooked>>
          /\ Pop
          /\ UNCHANGED <<cold, received, told>>
  /\ UNCHANGED <<kind, state, buffer, emitted, due>>

(* The abort event reaches the ColdSubscriber: the teardown that it has by  *)
(* then runs.                                                               *)
AbortDone(o) ==
  /\ LibTurn("abort")
  /\ Top.who = {o}
  /\ RunTeardown(o)
  /\ Pop
  /\ UNCHANGED <<kind, state, buffer, cold, emitted, received, due, told>>

(* An observer callback or an abort listener returns. *)
CallbackEnds ==
  /\ stack # <<>> /\ Top.at = "call"
  /\ Replace([Top EXCEPT !.at = "run"])
  /\ UNCHANGED <<kind, state, fanout, buffer, cold, hooked, emitted, received,
                 due, told>>

Next ==
  \/ \E o \in Observers : \/ \E status \in {"active", "cancelled"} :
                               Subscribe(o, status)
                          \/ CallAbort(o)
                          \/ FanoutStep(o)
                          \/ SetupNext(o)
                          \/ SetupLeft(o)
                          \/ SetupDone(o)
                          \/ AbortDone(o)
  \/ CallNext
  \/ \E end \in {"completed", "errored"} : CallEnd(end)
  \/ FanoutDone
  \/ CallbackEnds

Spec == Init /\ [][Next]_vars

-----------------------------------------------------------------------------
(* Properties.                                                              *)

(* Types; and whoever is in the fan-out has a teardown to take it out. *)
TypeOK ==
  /\ kind \in {"behavior", "replay"}
  /\ state \in {"active", "completed", "errored"}
  /\ fanout \in SUBSET Observers
  /\ buffer \in Seq(0 .. emitted)
  /\ cold \in [Observers -> {"new", "active", "cancelled", "ended"}]
  /\ hooked \in SUBSET Observers /\ fanout \subseteq hooked
  /\ stack \in Seq(Frame)
  /\ emitted \in 0 .. MaxValues
  /\ received \in [Observers -> Seq(0 .. emitted)]
  /\ due \in [Observers -> SUBSET (0 .. emitted)]
  /\ told \in [Observers -> 0 .. 1]

(* An observer that is still subscribed when no call is in progress has had *)
(* each value due to it exactly once, however the calls were nested: from a *)
(* replaySubject, what was in the buffer when it subscribed and everything  *)
(* emitted since, during its own replay too; from a behaviorSubject, the    *)
(* current value and everything emitted since it joined the fan-out.        *)
EachValueOnce ==
  stack = <<>> =>
    \A o \in Observers : cold[o] = "active" =>
      /\ ToSet(received[o]) = due[o]
      /\ Len(received[o]) = Cardinality(due[o])

(* The buffer is the newest values, and no more of them than configured. *)
BufferIsNewest ==
  kind = "replay" =>
    buffer = [i \in 1 .. Len(buffer) |-> emitted - Len(buffer) + i]
      /\ Len(buffer) = IF emitted < Size THEN emitted ELSE Size

(* The end of the Subject reaches every observer there was and every one    *)
(* that subscribed from a callback on the way: none is left waiting.        *)
EndReachesAll ==
  stack = <<>> /\ state # "active" =>
    /\ \A o \in Observers : cold[o] # "active"
    /\ fanout = {}

(* Once aborted or told of the end, an observer gets no value and no second *)
(* end, even from a fan-out that had already counted it in.                 *)
SilentOnceOver ==
  [][\A o \in Observers : cold[o] \in {"cancelled", "ended"} =>
       received'[o] = received[o] /\ told'[o] = told[o]]_vars

(* addSubscriber() "adds one subscriber to live Subject fanout and removes  *)
(* it when cancelled", as its comment has it.  An observer that leaves      *)
(* while it is given the current value of a behaviorSubject, or subscribes  *)
(* with an aborted signal, is added afterwards and never removed.           *)
CancelledAreRemoved ==
  stack = <<>> => \A o \in fanout : cold[o] = "active"
=============================================================================
