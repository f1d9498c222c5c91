------------------------- MODULE PlatformObservable -------------------------
(***************************************************************************)
(* The fallback platform Observable of @rxjs/observable-polyfill: one      *)
(* Observable, the Subscribers its subscribe() creates, the observers that *)
(* share them, their teardowns, and the bridge that runs cancellation as   *)
(* abort algorithms of an AbortSignal.                                     *)
(*                                                                         *)
(* JavaScript runs one thread, so the hazards are those of reentrancy:     *)
(* every callback the library makes (initializer, observer, teardown,      *)
(* abort algorithm or listener) is arbitrary user code that may call the   *)
(* library again before it returns.  The model keeps the call stack.  A    *)
(* frame is a library call in progress; "call" means that it is waiting    *)
(* for a user callback, "run" that the library itself has control.  User   *)
(* code acts when the stack is empty (an event-loop job) or when its top   *)
(* frame waits for a callback.                                             *)
(*                                                                         *)
(* Values, errors and reasons are abstracted away.  The Set of observers   *)
(* is iterated in an arbitrary order: no property depends on it.           *)
(***************************************************************************)
EXTENDS Naturals, Sequences

CONSTANTS
  Subs,            (* identities for the Subscribers subscribe() creates     *)
  Observers,       (* observers, one for each call of subscribe()            *)
  Controllers,     (* AbortControllers that user code owns                   *)
  Teardowns,       (* teardown callbacks, one for each call of addTeardown() *)
  IteratorClosers, (* the teardowns marked propagateTeardownError            *)
  NoSub,           (* no Subscriber                                          *)
  NoCtl,           (* no AbortController                                     *)
  MaxDepth         (* bound: user code calls the library below this depth    *)

ASSUME ConstantsOK ==
  /\ IteratorClosers \subseteq Teardowns
  /\ NoSub \notin Subs
  /\ NoCtl \notin Controllers
  /\ MaxDepth \in Nat

VARIABLES
  slot,       (* ObservableImpl.#subscriber, the WeakRef dereferenced      *)
  phase,      (* phase[s]: not created, open (active), closed or collected *)
  list,       (* list[s]: Subscriber.#observerList                         *)
  teardowns,  (* teardowns[s]: Subscriber.#teardowns                       *)
  fired,      (* the Subscribers whose own signal is aborted               *)
  aborted,    (* the user controllers whose signal is aborted              *)
  home,       (* home[o]: the Subscriber that o was added to               *)
  sig,        (* sig[o]: the controller whose signal o subscribed with     *)
  stack,      (* library calls in progress, innermost first                *)
  terminals,  (* history: terminals[o], error/complete calls made to o     *)
  runs,       (* history: runs[t], calls made to teardown t                *)
  registered  (* history: registered[s], what addTeardown pushed for s     *)

vars == <<slot, phase, list, teardowns, fired, aborted, home, sig, stack,
          terminals, runs, registered>>

Members(seq) == {seq[i] : i \in DOMAIN seq}

(* Variants of the definitions that follow them, named Bug...: each is what *)
(* an easily made mistake would turn the next definition into, and is used  *)
(* to see that the properties notice it.                                    *)
BugFirstFirst(seq) == seq

LastFirst(seq) == [i \in 1 .. Len(seq) |-> seq[Len(seq) + 1 - i]]

-----------------------------------------------------------------------------
(* Frames.  "algorithms", "event" and "teardown" are the three stages of    *)
(* closeSubscriber(); "abort" and "dispatch" the two of abort(); "late" is  *)
(* a teardown that addTeardown() runs at once.                              *)

SubOps == {"init", "next", "error", "complete", "algorithms", "event",
           "teardown", "late"}

CallFrame ==
  [op : SubOps, s : Subs, c : {NoCtl}, rest : SUBSET Observers,
   tds : Seq(Teardowns), at : {"run", "call"}, thrown : BOOLEAN]

SignalFrame ==
  [op : {"abort", "dispatch"}, s : {NoSub}, c : Controllers,
   rest : SUBSET Observers, tds : {<<>>}, at : {"run", "call"},
   thrown : {FALSE}]

Frame == CallFrame \cup SignalFrame

SubFrame(op, s, rest, at) ==
  [op |-> op, s |-> s, c |-> NoCtl, rest |-> rest, tds |-> <<>>, at |-> at,
   thrown |-> FALSE]

BugUnboundAbort(c, rest) ==
  [op |-> "abort", s |-> NoSub, c |-> NoCtl, rest |-> rest, tds |-> <<>>,
   at |-> "run", thrown |-> FALSE]

AbortFrame(c, rest) ==
  [op |-> "abort", s |-> NoSub, c |-> c, rest |-> rest, tds |-> <<>>,
   at |-> "run", thrown |-> FALSE]

Top == Head(stack)

Push(f) == stack' = <<f>> \o stack

Replace(f) == stack' = <<f>> \o Tail(stack)

Pop == stack' = Tail(stack)

(* User code has control, with room for one more nested call. *)
UserTurn ==
  /\ stack # <<>> => Top.at = "call"
  /\ Len(stack) < MaxDepth

LibTurn(op) == stack # <<>> /\ Top.at = "run" /\ Top.op = op

Returning(op) == stack # <<>> /\ Top.at = "call" /\ Top.op = op

CalledBy(ops) == Len(stack) > 1 /\ stack[2].op \in ops

Open(s) == s \in Subs /\ phase[s] = "open"

(* The observers that controller c would remove if it were aborted now: the *)
(* abort algorithms registered on its signal that are still armed.          *)
Armed(c) == {o \in Observers : sig[o] = c /\ home[o] \in Subs
                                 /\ o \in list[home[o]]}

(* Each algorithm is also a listener of the abort event, for an observer    *)
(* that subscribed too late to be in the list of algorithms being run.      *)
BugAlgorithmsOnly(c) == {}

ListenersOf(c) == Armed(c)

(* o is the one observer left of s, which is to be closed when it leaves. *)
BugNeverLast(s, o) == FALSE

IsLast(s, o) == Open(s) /\ list[s] = {o}

-----------------------------------------------------------------------------
Init ==
  /\ slot = NoSub
  /\ phase = [s \in Subs |-> "unused"]
  /\ list = [s \in Subs |-> {}]
  /\ teardowns = [s \in Subs |-> <<>>]
  /\ fired = {}
  /\ aborted = {}
  /\ home = [o \in Observers |-> NoSub]
  /\ sig = [o \in Observers |-> NoCtl]
  /\ stack = <<>>
  /\ terminals = [o \in Observers |-> 0]
  /\ runs = [t \in Teardowns |-> 0]
  /\ registered = [s \in Subs |-> <<>>]

-----------------------------------------------------------------------------
(* Calls that user code makes.                                              *)

(* subscribe() when a run is active: the observer joins it. *)
SubscribeJoin(o, c) ==
  /\ UserTurn
  /\ home[o] = NoSub
  /\ c \notin aborted
  /\ Open(slot)
  /\ list' = [list EXCEPT ![slot] = @ \cup {o}]
  /\ home' = [home EXCEPT ![o] = slot]
  /\ sig' = [sig EXCEPT ![o] = c]
  /\ UNCHANGED <<slot, phase, teardowns, fired, aborted, stack, terminals,
                 runs, registered>>

(* subscribe() when none is: a new Subscriber, published before its         *)
(* initializer runs.                                                        *)
SubscribeStart(o, c, s) ==
  /\ UserTurn
  /\ home[o] = NoSub
  /\ c \notin aborted
  /\ ~Open(slot)
  /\ phase[s] = "unused"
  /\ slot' = s
  /\ phase' = [phase EXCEPT ![s] = "open"]
  /\ list' = [list EXCEPT ![s] = {o}]
  /\ home' = [home EXCEPT ![o] = s]
  /\ sig' = [sig EXCEPT ![o] = c]
  /\ Push(SubFrame("init", s, {}, "call"))
  /\ UNCHANGED <<teardowns, fired, aborted, terminals, runs, registered>>

(* subscribe() with a signal already aborted and no active run: the new     *)
(* Subscriber is closed, which runs no callback, and still initialized.     *)
SubscribeAborted(c, s) ==
  /\ UserTurn
  /\ c \in aborted
  /\ ~Open(slot)
  /\ phase[s] = "unused"
  /\ slot' = s
  /\ phase' = [phase EXCEPT ![s] = "closed"]
  /\ fired' = fired \cup {s}
  /\ Push(SubFrame("init", s, {}, "call"))
  /\ UNCHANGED <<list, teardowns, aborted, home, sig, terminals, runs,
                 registered>>

(* Subscriber.next(): the observers to call are those of this moment. *)
CallNext(s) ==
  /\ UserTurn
  /\ Open(s)
  /\ Push(SubFrame("next", s, list[s], "run"))
  /\ UNCHANGED <<slot, phase, list, teardowns, fired, aborted, home, sig,
                 terminals, runs, registered>>

(* What error() and complete() do: take the snapshot of observers to tell,  *)
(* and enter closeSubscriber(), on top of the frames `below`.               *)
BugSnapshotAfterClose(op, s, below) ==
  /\ phase' = [phase EXCEPT ![s] = "closed"]
  /\ stack' = <<SubFrame("algorithms", s, {}, "call"),
                SubFrame(op, s, {}, "run")>> \o below

BugNotifyThenClose(op, s, below) ==
  /\ phase' = [phase EXCEPT ![s] = "closed"]
  /\ stack' = <<SubFrame(op, s, list[s], "run"),
                SubFrame("algorithms", s, {}, "call")>> \o below

BugStillOpen(op, s, below) ==
  /\ stack' = <<SubFrame("algorithms", s, {}, "call"),
                SubFrame(op, s, list[s], "run")>> \o below
  /\ UNCHANGED phase

Terminate(op, s, below) ==
  /\ phase' = [phase EXCEPT ![s] = "closed"]
  /\ stack' = <<SubFrame("algorithms", s, {}, "call"),
                SubFrame(op, s, list[s], "run")>> \o below

CallError(s) ==
  /\ UserTurn
  /\ Open(s)
  /\ Terminate("error", s, stack)
  /\ UNCHANGED <<slot, list, teardowns, fired, aborted, home, sig, terminals,
                 runs, registered>>

CallComplete(s) ==
  /\ UserTurn
  /\ Open(s)
  /\ Terminate("complete", s, stack)
  /\ UNCHANGED <<slot, list, teardowns, fired, aborted, home, sig, terminals,
                 runs, registered>>

Fresh(t) == runs[t] = 0 /\ \A s \in Subs : t \notin Members(registered[s])

BugAddTeardownUnchecked(s, t) ==
  /\ UserTurn
  /\ phase[s] # "unused"
  /\ Fresh(t)
  /\ teardowns' = [teardowns EXCEPT ![s] = Append(@, t)]
  /\ registered' = [registered EXCEPT ![s] = Append(@, t)]
  /\ UNCHANGED <<slot, phase, list, fired, aborted, home, sig, stack,
                 terminals, runs>>

AddTeardown(s, t) ==
  /\ UserTurn
  /\ Open(s)
  /\ Fresh(t)
  /\ teardowns' = [teardowns EXCEPT ![s] = Append(@, t)]
  /\ registered' = [registered EXCEPT ![s] = Append(@, t)]
  /\ UNCHANGED <<slot, phase, list, fired, aborted, home, sig, stack,
                 terminals, runs>>

AddTeardownLate(s, t) ==
  /\ UserTurn
  /\ phase[s] = "closed"
  /\ Fresh(t)
  /\ runs' = [runs EXCEPT ![t] = @ + 1]
  /\ Push(SubFrame("late", s, {}, "call"))
  /\ UNCHANGED <<slot, phase, list, teardowns, fired, aborted, home, sig,
                 terminals, registered>>

(* AbortController.abort(), as the polyfill patches it. *)
CallAbort(c) ==
  /\ UserTurn
  /\ c \notin aborted
  /\ Push(AbortFrame(c, Armed(c)))
  /\ UNCHANGED <<slot, phase, list, teardowns, fired, aborted, home, sig,
                 terminals, runs, registered>>

-----------------------------------------------------------------------------
(* Steps of the library.                                                    *)

(* next(), error() and complete(): call one more observer of the snapshot. *)
Deliver(op, o) ==
  /\ LibTurn(op)
  /\ o \in Top.rest
  /\ Replace([Top EXCEPT !.rest = @ \ {o}, !.at = "call"])
  /\ terminals' = IF op = "next" THEN terminals
                                 ELSE [terminals EXCEPT ![o] = @ + 1]
  /\ UNCHANGED <<slot, phase, list, teardowns, fired, aborted, home, sig,
                 runs, registered>>

Delivered(op) ==
  /\ LibTurn(op)
  /\ Top.rest = {}
  /\ Pop
  /\ UNCHANGED <<slot, phase, list, teardowns, fired, aborted, home, sig,
                 terminals, runs, registered>>

(* The function addObserver() returned: the observer leaves, and the last   *)
(* one to leave closes the Subscriber.  An observer that is gone already    *)
(* has a disarmed algorithm, which does nothing.                            *)
RemoveObserver(op, o) ==
  /\ LibTurn(op)
  /\ o \in Top.rest
  /\ LET s    == home[o]
         self == [Top EXCEPT !.rest = @ \ {o}]
     IN /\ list' = [list EXCEPT ![s] = @ \ {o}]
        /\ IF IsLast(s, o)
           THEN /\ phase' = [phase EXCEPT ![s] = "closed"]
                /\ stack' = <<SubFrame("algorithms", s, {}, "call"), self>>
                              \o Tail(stack)
           ELSE Replace(self) /\ UNCHANGED phase
  /\ UNCHANGED <<slot, teardowns, fired, aborted, home, sig, terminals, runs,
                 registered>>

(* The algorithms have run: the platform aborts the signal and dispatches   *)
(* the event.  Observers that joined during the algorithms are still armed  *)
(* through the event.  An algorithm that aborted the controller itself has  *)
(* left nothing to do.                                                      *)
NativeAbort ==
  /\ LibTurn("abort")
  /\ Top.rest = {}
  /\ aborted' = aborted \cup {Top.c}
  /\ IF Top.c \in aborted
     THEN Pop
     ELSE Replace([Top EXCEPT !.op = "dispatch", !.rest = ListenersOf(Top.c),
                              !.at = "call"])
  /\ UNCHANGED <<slot, phase, list, teardowns, fired, home, sig, terminals,
                 runs, registered>>

(* Listeners that user code added run among those that remove observers. *)
NextListener ==
  /\ LibTurn("dispatch")
  /\ Top.rest # {}
  /\ Replace([Top EXCEPT !.at = "call"])
  /\ UNCHANGED <<slot, phase, list, teardowns, fired, aborted, home, sig,
                 terminals, runs, registered>>

AbortDone ==
  /\ LibTurn("dispatch")
  /\ Top.rest = {}
  /\ Pop
  /\ UNCHANGED <<slot, phase, list, teardowns, fired, aborted, home, sig,
                 terminals, runs, registered>>

(* closeSubscriber(): teardowns run in reverse order of registration. *)
RunTeardown ==
  /\ LibTurn("teardown")
  /\ Top.tds # <<>>
  /\ runs' = [runs EXCEPT ![Head(Top.tds)] = @ + 1]
  /\ Replace([Top EXCEPT !.at = "call"])
  /\ UNCHANGED <<slot, phase, list, teardowns, fired, aborted, home, sig,
                 terminals, registered>>

(* closeSubscriber() is done.  When it throws, error() and complete() never *)
(* reach their observers, and abort() carries on.                           *)
CloseDone ==
  /\ LibTurn("teardown")
  /\ Top.tds = <<>>
  /\ stack' = IF Top.thrown /\ CalledBy({"error", "complete"})
              THEN Tail(Tail(stack))
              ELSE Tail(stack)
  /\ UNCHANGED <<slot, phase, list, teardowns, fired, aborted, home, sig,
                 terminals, runs, registered>>

-----------------------------------------------------------------------------
(* User callbacks return or throw.  A throw is reported to the host and is  *)
(* then no different from a return, except where an action says so.         *)

(* An observer callback, or an abort listener of a user signal: the library *)
(* takes over.                                                              *)
BugThrowEndsLoop ==
  /\ \E op \in {"next", "error", "complete", "dispatch"} : Returning(op)
  /\ Replace([Top EXCEPT !.at = "run"]) \/ Pop
  /\ UNCHANGED <<slot, phase, list, teardowns, fired, aborted, home, sig,
                 terminals, runs, registered>>

ReturnToLoop ==
  /\ \E op \in {"next", "error", "complete", "dispatch"} : Returning(op)
  /\ Replace([Top EXCEPT !.at = "run"])
  /\ UNCHANGED <<slot, phase, list, teardowns, fired, aborted, home, sig,
                 terminals, runs, registered>>

(* The initializer, or a late teardown: the call is over. *)
ReturnFromCall ==
  /\ Returning("init") \/ Returning("late")
  /\ Pop
  /\ UNCHANGED <<slot, phase, list, teardowns, fired, aborted, home, sig,
                 terminals, runs, registered>>

(* The initializer throws: subscribe() sends the error to the Subscriber,   *)
(* which reports it when it is closed.                                      *)
InitThrows ==
  /\ Returning("init")
  /\ Open(Top.s)
  /\ Terminate("error", Top.s, Tail(stack))
  /\ UNCHANGED <<slot, list, teardowns, fired, aborted, home, sig, terminals,
                 runs, registered>>

(* The abort algorithms on the Subscriber's own signal have run: now the    *)
(* signal is aborted and its listeners run.  An algorithm throws when it    *)
(* closed an upstream Subscriber whose iterator threw.                      *)
AlgorithmsDone(throws) ==
  /\ Returning("algorithms")
  /\ throws => IteratorClosers # {}
  /\ fired' = fired \cup {Top.s}
  /\ Replace([Top EXCEPT !.op = "event", !.thrown = throws])
  /\ UNCHANGED <<slot, phase, list, teardowns, aborted, home, sig, terminals,
                 runs, registered>>

(* The listeners have run: drop the observers and take the teardowns. *)
EventDone ==
  /\ Returning("event")
  /\ list' = [list EXCEPT ![Top.s] = {}]
  /\ teardowns' = [teardowns EXCEPT ![Top.s] = <<>>]
  /\ Replace([Top EXCEPT !.op = "teardown", !.at = "run",
                         !.tds = LastFirst(teardowns[Top.s])])
  /\ UNCHANGED <<slot, phase, fired, aborted, home, sig, terminals, runs,
                 registered>>

(* A teardown returned or threw.  What an iterator closer throws is thrown  *)
(* by closeSubscriber() in the end; anything else is reported.              *)
TeardownDone(throws) ==
  /\ Returning("teardown")
  /\ Top.tds # <<>>
  /\ throws => Head(Top.tds) \in IteratorClosers
  /\ Replace([Top EXCEPT !.at = "run", !.tds = Tail(@),
                         !.thrown = @ \/ throws])
  /\ UNCHANGED <<slot, phase, list, teardowns, fired, aborted, home, sig,
                 terminals, runs, registered>>

-----------------------------------------------------------------------------
(* The WeakRef lets the garbage collector take an active Subscriber between *)
(* two jobs: when the producer has dropped it and no signal keeps a removal *)
(* algorithm that refers to it.                                             *)
Collect(s) ==
  /\ stack = <<>>
  /\ Open(s)
  /\ \A o \in list[s] : sig[o] = NoCtl
  /\ phase' = [phase EXCEPT ![s] = "collected"]
  /\ slot' = IF slot = s THEN NoSub ELSE slot
  /\ UNCHANGED <<list, teardowns, fired, aborted, home, sig, stack, terminals,
                 runs, registered>>

-----------------------------------------------------------------------------
UserCall ==
  \/ \E o \in Observers, c \in Controllers \cup {NoCtl} :
       \/ SubscribeJoin(o, c)
       \/ \E s \in Subs : SubscribeStart(o, c, s)
  \/ \E c \in Controllers : CallAbort(c)
  \/ \E s \in Subs :
       \/ \E c \in Controllers : SubscribeAborted(c, s)
       \/ CallNext(s)
       \/ CallError(s)
       \/ CallComplete(s)
       \/ \E t \in Teardowns : AddTeardown(s, t) \/ AddTeardownLate(s, t)

LibraryStep ==
  \/ \E op \in {"next", "error", "complete"} :
       \/ \E o \in Observers : Deliver(op, o)
       \/ Delivered(op)
  \/ \E op \in {"abort", "dispatch"}, o \in Observers : RemoveObserver(op, o)
  \/ NativeAbort
  \/ NextListener
  \/ AbortDone
  \/ RunTeardown
  \/ CloseDone

CallbackEnds ==
  \/ ReturnToLoop
  \/ ReturnFromCall
  \/ InitThrows
  \/ \E throws \in BOOLEAN : AlgorithmsDone(throws) \/ TeardownDone(throws)
  \/ EventDone

Next ==
  \/ UserCall
  \/ LibraryStep
  \/ CallbackEnds
  \/ \E s \in Subs : Collect(s)

Spec == Init /\ [][Next]_vars

-----------------------------------------------------------------------------
(* Properties.                                                              *)

(* Every variable has its type: the frames of the stack, the snapshots of   *)
(* observers they hold and the reversed teardown lists of closeSubscriber().*)
TypeOK ==
  /\ slot \in Subs \cup {NoSub}
  /\ phase \in [Subs -> {"unused", "open", "closed", "collected"}]
  /\ list \in [Subs -> SUBSET Observers]
  /\ teardowns \in [Subs -> Seq(Teardowns)]
  /\ fired \in SUBSET Subs
  /\ aborted \in SUBSET Controllers
  /\ home \in [Observers -> Subs \cup {NoSub}]
  /\ sig \in [Observers -> Controllers \cup {NoCtl}]
  /\ stack \in Seq(Frame)
  /\ terminals \in [Observers -> Nat]
  /\ runs \in [Teardowns -> Nat]
  /\ registered \in [Subs -> Seq(Teardowns)]

(* The refcounted producer: whatever callbacks reenter subscribe(), abort() *)
(* or the Subscriber, at most one run of the Observable is active, it is    *)
(* the one the next subscribe() joins, and it has an observer.              *)
OneSharedRun ==
  \A s \in Subs : Open(s) => slot = s /\ list[s] # {}

(* closeSubscriber() runs each teardown at most once, and one registered    *)
(* later before one registered earlier.                                     *)
TeardownsLastFirst ==
  \A s \in Subs : \A i, j \in DOMAIN registered[s] :
    /\ runs[registered[s][i]] <= 1
    /\ i < j /\ runs[registered[s][i]] = 1 => runs[registered[s][j]] = 1

(* When no library call is in progress, a closed run has aborted its signal *)
(* and released its observers, and every teardown it was ever given has run *)
(* once, wherever a callback added it or threw; an active run has run none. *)
QuiescentRunsReleased ==
  stack = <<>> =>
    \A s \in Subs :
      /\ phase[s] = "closed" => s \in fired /\ list[s] = {}
      /\ \A t \in Members(registered[s]) :
           runs[t] = IF phase[s] = "closed" THEN 1 ELSE 0

(* An observer is told of error or completion only when the run is over for *)
(* good: its signal has aborted and all its teardowns have started.         *)
TerminalComesLast ==
  \A o \in Observers : terminals[o] > 0 =>
    /\ phase[home[o]] = "closed" /\ home[o] \in fired
    /\ \A t \in Members(registered[home[o]]) : runs[t] = 1

(* Once abort() has dispatched, the observer is out of the active run, even *)
(* when it subscribed from one of the algorithms that abort() was running.  *)
AbortedObserversLeave ==
  \A o \in Observers :
    /\ sig[o] \in aborted
    /\ \A i \in DOMAIN stack : ~(stack[i].op = "dispatch" /\ stack[i].c = sig[o])
    => ~(Open(home[o]) /\ o \in list[home[o]])

(* No observer is stranded: when the run it joined is over and no call is   *)
(* in progress, it was told of the end, or its own signal was aborted.  It  *)
(* needs sources that close without throwing (see TerminalsAllOrNone).      *)
NoStrandedObserver ==
  stack = <<>> =>
    \A o \in Observers :
      home[o] \in Subs /\ phase[home[o]] = "closed"
        => terminals[o] = 1 \/ sig[o] \in aborted

(* A source whose iterator throws as it is closed takes the notification    *)
(* away, but from all the observers of the run or from none: what one       *)
(* observer does or throws never keeps another from hearing of the end.     *)
TerminalsAllOrNone ==
  stack = <<>> =>
    \A o, p \in Observers :
      /\ home[o] = home[p] /\ home[o] \in Subs
      /\ terminals[o] > 0
      => terminals[p] = 1 \/ sig[p] \in aborted

(* The call stack and the abort bridge implement the Idle/Active life cycle *)
(* that ARCHITECTURE.md draws, with one terminal notification per observer. *)
ActiveRun ==
  IF \E s \in Subs : Open(s) THEN CHOOSE s \in Subs : Open(s) ELSE NoSub

Owed ==
  UNION {f.rest : f \in {g \in Members(stack) : g.op \in {"error", "complete"}}}

Lifecycle ==
  INSTANCE ObservableLifecycle WITH
    Runs <- Subs,
    NoRun <- NoSub,
    active <- ActiveRun,
    started <- {s \in Subs : phase[s] # "unused"},
    joined <- {o \in Observers : home[o] # NoSub},
    members <- IF ActiveRun = NoSub THEN {} ELSE list[ActiveRun],
    owed <- Owed,
    told <- terminals

ImplementsLifecycle == Lifecycle!Spec
=============================================================================
