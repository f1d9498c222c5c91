------------------------------- MODULE Share -------------------------------
(***************************************************************************)
(* source[share](config) on a ColdObservable: its subscriptions share one  *)
(* connection to the source, through the Subject of a connector, and the   *)
(* connection is reset when the source ends or the last of them leaves, at *)
(* once, never, or when a notifier says so.                                *)
(*                                                                         *)
(* The callbacks of observers, the producer and teardown of the source and *)
(* abort listeners are user code, which may call the library again: the    *)
(* model keeps the call stack.  A Subject and a connection are named after *)
(* the observer whose subscription made them; the connection that o makes  *)
(* feeds the Subject that o joined.  The values are left out: they change  *)
(* no state here.  The subscribe() of the source does not throw: that of   *)
(* an Observable never does.  A connector makes a Subject or throws; it     *)
(* does not subscribe to the shared Observable from its own code.          *)
(***************************************************************************)
EXTENDS Naturals, Sequences, FiniteSets, SequencesExt

CONSTANTS
  Observers,        (* the calls of subscribe() on the shared Observable     *)
  None,             (* `undefined`                                           *)
  SubscribedAs,     (* "active", and "cancelled" for signals already aborted *)
  NotifierReenters, (* whether the factory, producer or teardown of a        *)
                    (* notifier calls the library                            *)
  ConnectorFails,   (* whether the connector throws, or its Subject does     *)
  MaxDepth          (* bound: user code calls the library below this depth   *)

ASSUME ConstantsOK ==
  /\ None \notin Observers
  /\ SubscribedAs \subseteq {"active", "cancelled"}
  /\ NotifierReenters \in BOOLEAN /\ ConnectorFails \in BOOLEAN
  /\ MaxDepth \in Nat

VARIABLES
  rule,       (* resetOnRefCountZero, resetOnError and resetOnComplete       *)
  subject,    (* the current Subject                                         *)
  connection, (* connectionController                                        *)
  resetting,  (* resetController: whether it awaits a notifier, and of what  *)
  refCount,
  ended,      (* hasErrored, hasCompleted                                    *)
  cold,       (* the state of each observer's ColdSubscriber                 *)
  hooked,     (* the observers whose ColdSubscriber has its teardown         *)
  joined,     (* the Subject each observer was subscribed to                 *)
  link,       (* the source's end of each connection                         *)
  over,       (* the Subjects that have been told of the end                 *)
  stack       (* library calls in progress, innermost first                  *)

vars == <<rule, subject, connection, resetting, refCount, ended, cold, hooked,
          joined, link, over, stack>>

Ends == {"error", "complete"}

Ops == {"joining", "connecting", "connected", "leaving", "left", "telling",
        "ending", "zero", "factory", "notifying", "clear", "cleared"} \cup Ends

(* A call in progress, in terms of what it does next; `at` tells whether    *)
(* user code runs in between.                                               *)
Frame == [op : Ops, who : SUBSET Observers, of : Observers \cup Ends \cup {None, "zero"},
          at : {"run", "call"}]

Call(op, who, of, at) == [op |-> op, who |-> who, of |-> of, at |-> at]

Top == Head(stack)

Below == Tail(stack)

UserTurn ==
  /\ stack # <<>> => Top.at = "call"
  /\ Len(stack) < MaxDepth

LibTurn(op) == stack # <<>> /\ Top.at = "run" /\ Top.op = op

(* Where a call stands while the code of a notifier runs, such as once      *)
(* cancelReset() has aborted one.                                           *)
InNotifier == IF NotifierReenters THEN "call" ELSE "run"

AfterCancel == IF resetting # "none" THEN InNotifier ELSE "run"

Init ==
  /\ rule \in [Ends \cup {"zero"} -> {"true", "false", "notifier"}]
  /\ subject = None
  /\ connection = None
  /\ resetting = "none"
  /\ refCount = 0
  /\ ended = "no"
  /\ cold = [o \in Observers |-> "new"]
  /\ hooked = {}
  /\ joined = [o \in Observers |-> None]
  /\ link = [o \in Observers |-> "none"]
  /\ over = {}
  /\ stack = <<>>

-----------------------------------------------------------------------------
(* Subscribing: the producer of the shared ColdObservable.                  *)

BugResetKept(o, status) ==
  /\ UserTurn
  /\ cold[o] = "new"
  /\ cold' = [cold EXCEPT ![o] = status]
  /\ refCount' = refCount + 1
  /\ hooked' = hooked \cup {o}
  /\ stack' = <<Call("joining", {o}, None, "run")>> \o stack
  /\ UNCHANGED <<rule, subject, connection, resetting, ended, joined, link, over>>

(* The observer is counted, and a pending reset is off, unless it is for    *)
(* the end of the source.                                                   *)
Subscribe(o, status) ==
  /\ UserTurn
  /\ cold[o] = "new"
  /\ cold' = [cold EXCEPT ![o] = status]
  /\ refCount' = refCount + 1
  /\ hooked' = hooked \cup {o}
  /\ resetting' = IF ended = "no" THEN "none" ELSE resetting
  /\ stack' = <<Call("joining", {o}, None,
                     IF ended = "no" THEN AfterCancel ELSE "run")>> \o stack
  /\ UNCHANGED <<rule, subject, connection, ended, joined, link, over>>

(* destination.subscribe(): the Subject may replay, or be over. *)
Join(o) ==
  /\ LibTurn("joining")
  /\ o \in Top.who
  /\ LET s == IF subject = None THEN o ELSE subject
         connecting == Call("connecting", {o}, None, "run")
     IN /\ subject' = s
        /\ joined' = [joined EXCEPT ![o] = s]
        /\ IF s \in over /\ cold[o] = "active"
           THEN /\ cold' = [cold EXCEPT ![o] = "ended"]
                /\ stack' = <<Call("leaving", {o}, None, "run"), connecting>> \o Below
           ELSE /\ stack' = <<[connecting EXCEPT !.at = "call"]>> \o Below
                /\ UNCHANGED cold
  /\ UNCHANGED <<rule, connection, resetting, refCount, ended, hooked, link, over>>

(* connector() throws, or the subscribe() of a Subject does, which is kept   *)
(* if it is a new one.                                                      *)
ConnectorThrows(o) ==
  /\ ConnectorFails
  /\ LibTurn("joining")
  /\ o \in Top.who
  /\ subject' \in {subject, IF subject = None THEN o ELSE subject}
  /\ IF cold[o] = "active"
     THEN /\ cold' = [cold EXCEPT ![o] = "ended"]
          /\ stack' = <<Call("leaving", {o}, None, "run")>> \o Below
     ELSE stack' = Below /\ UNCHANGED cold
  /\ UNCHANGED <<rule, connection, resetting, refCount, ended, hooked,
                 joined, link, over>>

BugConnectAgain(o) == cold[o] = "active" /\ refCount # 0

(* Whether it falls to this subscription to connect. *)
Connects(o) == cold[o] = "active" /\ connection = None /\ refCount # 0

(* source.subscribe(), with the connection published before the source runs. *)
Connect(o) ==
  /\ LibTurn("connecting")
  /\ o \in Top.who
  /\ IF Connects(o)
     THEN /\ connection' = o
          /\ link' = [link EXCEPT ![o] = "live"]
          /\ stack' = <<Call("connected", {o}, None, "call")>> \o Below
     ELSE stack' = Below /\ UNCHANGED <<connection, link>>
  /\ UNCHANGED <<rule, subject, resetting, refCount, ended, cold, hooked, joined,
                 over>>

-----------------------------------------------------------------------------
(* Leaving.                                                                 *)
CallAbort(o) ==
  /\ UserTurn
  /\ cold[o] = "active"
  /\ cold' = [cold EXCEPT ![o] = "cancelled"]
  /\ stack' = <<Call("leaving", {o}, None, "call")>> \o stack
  /\ UNCHANGED <<rule, subject, connection, resetting, refCount, ended, hooked,
                 joined, link, over>>

BugCountKept == IF ended = "no" THEN refCount - 1 ELSE refCount

(* refCount-- in the teardown. *)
Uncounted == refCount - 1

BugEndUnasked == refCount = 1

BugCountedLate == refCount = 0 /\ ended = "no"

(* refCount === 0 && !hasErrored && !hasCompleted, refCount being down. *)
LastLeaves == refCount = 1 /\ ended = "no"

(* The teardown that share() added, if the ColdSubscriber still has it; the *)
(* callback of an observer that is told of the end comes after it.          *)
Leave(o) ==
  /\ LibTurn("leaving")
  /\ o \in Top.who
  /\ LET left == Call("left", {o}, None, "call")
     IN IF o \in hooked
        THEN /\ hooked' = hooked \ {o}
             /\ refCount' = Uncounted
             /\ stack' = IF LastLeaves
                         THEN <<Call("zero", {}, None, "run"), left>> \o Below
                         ELSE <<left>> \o Below
        ELSE /\ stack' = <<left>> \o Below
             /\ UNCHANGED <<hooked, refCount>>
  /\ UNCHANGED <<rule, subject, connection, resetting, ended, cold, joined, link,
                 over>>

-----------------------------------------------------------------------------
(* The end of the source.                                                   *)
SourceEnds(c, kind) ==
  /\ UserTurn
  /\ link[c] = "live"
  /\ link' = [link EXCEPT ![c] = "ended"]
  /\ ended' = kind
  /\ resetting' = "none"
  /\ stack' = <<Call(kind, {}, None, AfterCancel),
                Call("telling", {}, joined[c], "run")>> \o stack
  /\ UNCHANGED <<rule, subject, connection, refCount, cold, hooked, joined, over>>

(* destination.error() or .complete(), once the rule has been applied. *)
Tell ==
  /\ LibTurn("telling")
  /\ over' = over \cup {Top.of}
  /\ stack' = <<Call("ending", {o \in Observers : joined[o] = Top.of}, None, "run")>>
                \o Below
  /\ UNCHANGED <<rule, subject, connection, resetting, refCount, ended, cold,
                 hooked, joined, link>>

TellOne(o) ==
  /\ LibTurn("ending")
  /\ o \in Top.who
  /\ LET rest == [Top EXCEPT !.who = @ \ {o}]
     IN IF cold[o] = "active"
        THEN /\ cold' = [cold EXCEPT ![o] = "ended"]
             /\ stack' = <<Call("leaving", {o}, None, "run"), rest>> \o Below
        ELSE stack' = <<rest>> \o Below /\ UNCHANGED cold
  /\ UNCHANGED <<rule, subject, connection, resetting, refCount, ended, hooked,
                 joined, link, over>>

-----------------------------------------------------------------------------
(* handleReset(), for the last observer that left or an end of the source.  *)

Ruling == \E which \in Ends \cup {"zero"} : LibTurn(which)

(* What resetAndDisconnect() is to abort; reset() aborts nothing. *)
Disconnects(which) == IF which = "zero" THEN connection ELSE None

ResetAtOnce ==
  /\ Ruling
  /\ rule[Top.op] = "true"
  /\ resetting' = "none"
  /\ stack' = <<Call("clear", {}, Disconnects(Top.op), AfterCancel)>> \o Below
  /\ UNCHANGED <<rule, subject, connection, refCount, ended, cold, hooked, joined,
                 link, over>>

ResetNever ==
  /\ Ruling
  /\ rule[Top.op] = "false"
  /\ stack' = Below
  /\ UNCHANGED <<rule, subject, connection, resetting, refCount, ended, cold,
                 hooked, joined, link, over>>

(* The factory of the notifier throws, or returns no Observable: from the   *)
(* end of the source, the Subject is not told.                              *)
FactoryThrows ==
  /\ Ruling
  /\ rule[Top.op] = "notifier"
  /\ stack' = IF Top.op = "zero" THEN Below ELSE Tail(Below)
  /\ UNCHANGED <<rule, subject, connection, resetting, refCount, ended, cold,
                 hooked, joined, link, over>>

FactoryCalled ==
  /\ Ruling
  /\ rule[Top.op] = "notifier"
  /\ stack' = <<Call("factory", {}, Top.op, InNotifier)>> \o Below
  /\ UNCHANGED <<rule, subject, connection, resetting, refCount, ended, cold,
                 hooked, joined, link, over>>

(* notifier.subscribe(): it may emit at once. *)
NotifierSubscribed ==
  /\ LibTurn("factory")
  /\ resetting' = IF Top.of = "zero" THEN "zero" ELSE "end"
  /\ stack' = <<Call("notifying", {}, None, InNotifier)>> \o Below
  /\ UNCHANGED <<rule, subject, connection, refCount, ended, cold, hooked, joined,
                 link, over>>

(* The notifier that resetController stands for emits.  One that completes  *)
(* or errors resets nothing.                                                *)
NotifierEmits ==
  /\ UserTurn \/ LibTurn("notifying")
  /\ resetting # "none"
  /\ resetting' = "none"
  /\ stack' = <<Call("clear", {}, Disconnects(resetting), AfterCancel)>> \o stack
  /\ UNCHANGED <<rule, subject, connection, refCount, ended, cold, hooked, joined,
                 link, over>>

BugConnectionKept ==
  /\ subject' = None
  /\ ended' = "no"
  /\ UNCHANGED connection

Forget ==
  /\ connection' = None
  /\ subject' = None
  /\ ended' = "no"

(* reset() after its cancelReset(), and the abort of the connection. *)
Clear ==
  /\ LibTurn("clear")
  /\ Forget
  /\ IF Top.of # None
     THEN /\ link' = [link EXCEPT ![Top.of] = IF @ = "live" THEN "aborted" ELSE @]
          /\ stack' = <<Call("cleared", {}, None, "call")>> \o Below
     ELSE stack' = Below /\ UNCHANGED link
  /\ UNCHANGED <<rule, resetting, refCount, cold, hooked, joined, over>>

-----------------------------------------------------------------------------
CallbackEnds ==
  /\ stack # <<>> /\ Top.at = "call"
  /\ stack' = <<[Top EXCEPT !.at = "run"]>> \o Below
  /\ UNCHANGED <<rule, subject, connection, resetting, refCount, ended, cold,
                 hooked, joined, link, over>>

Return ==
  /\ \/ \E op \in {"connected", "left", "notifying", "cleared"} : LibTurn(op)
     \/ LibTurn("ending") /\ Top.who = {}
  /\ stack' = Below
  /\ UNCHANGED <<rule, subject, connection, resetting, refCount, ended, cold,
                 hooked, joined, link, over>>

Next ==
  \/ \E o \in Observers : \/ \E status \in SubscribedAs : Subscribe(o, status)
                          \/ Join(o)
                          \/ ConnectorThrows(o)
                          \/ Connect(o)
                          \/ CallAbort(o)
                          \/ Leave(o)
                          \/ TellOne(o)
                          \/ \E kind \in Ends : SourceEnds(o, kind)
  \/ Tell
  \/ ResetAtOnce
  \/ ResetNever
  \/ FactoryThrows
  \/ FactoryCalled
  \/ NotifierSubscribed
  \/ NotifierEmits
  \/ Clear
  \/ CallbackEnds
  \/ Return

Spec == Init /\ [][Next]_vars

-----------------------------------------------------------------------------
(* Properties.                                                              *)

(* Types; the count is that of the teardowns there are. *)
TypeOK ==
  /\ rule \in [Ends \cup {"zero"} -> {"true", "false", "notifier"}]
  /\ {subject, connection} \subseteq Observers \cup {None}
  /\ resetting \in {"none", "zero", "end"}
  /\ refCount \in Nat /\ refCount = Cardinality(hooked)
  /\ ended \in Ends \cup {"no"}
  /\ cold \in [Observers -> {"new", "active", "cancelled", "ended"}]
  /\ hooked \in SUBSET Observers
  /\ joined \in [Observers -> Observers \cup {None}]
  /\ link \in [Observers -> {"none", "live", "ended", "aborted"}]
  /\ over \in SUBSET Observers
  /\ stack \in Seq(Frame)

(* At most one connection to the source is live, and it is the one that     *)
(* share() knows, whatever callbacks subscribe and leave while another is   *)
(* being made, ended or aborted.                                            *)
OneConnection ==
  \A c \in Observers : link[c] = "live" => connection = c

(* An observer that is subscribed when no call is in progress is fed: the   *)
(* source is connected to the Subject that it joined.  The exception is an  *)
(* end that a throwing notifier factory kept from the Subject.              *)
ActiveObserversFed ==
  stack = <<>> =>
    \A o \in Observers : cold[o] = "active" =>
      \E c \in Observers :
        /\ joined[c] = joined[o]
        /\ \/ link[c] = "live" /\ subject = joined[o]
           \/ /\ link[c] = "ended" /\ joined[o] \notin over
              /\ \E kind \in Ends : rule[kind] = "notifier"

(* share() "disconnects only when the final ColdObservable subscriber       *)
(* leaves", by the title of its test: with resetOnRefCountZero, no          *)
(* connection outlives the observers, ...                                   *)
ReleasedWithTheLast ==
  stack = <<>> /\ rule["zero"] = "true"
    /\ (\A o \in Observers : cold[o] # "active") =>
      \A c \in Observers : link[c] # "live"

(* ... and none is aborted that still has one: a pending reset is off once  *)
(* an observer arrives.  (The code of a notifier must not be what brings    *)
(* the observer: see NotifierReenters.)                                     *)
KeptForTheLast ==
  [][\A c \in Observers :
       link[c] = "live" /\ link'[c] = "aborted" =>
         \A o \in Observers : joined[o] = joined[c] => cold[o] # "active"]_vars

(* An end that is retained (resetOnError or resetOnComplete is false) is    *)
(* what every later observer gets: nothing takes the Subject away.          *)
RetainedEndStays ==
  [][ended # "no" /\ rule[ended] = "false" =>
       subject' = subject /\ ended' = ended]_vars

-----------------------------------------------------------------------------
(* For TLC: the observers are interchangeable.                              *)
Symmetry == Permutations(Observers)
=============================================================================
