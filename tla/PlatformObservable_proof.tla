---------------------- MODULE PlatformObservable_proof ----------------------
(***************************************************************************)
(* Proofs about PlatformObservable, for any sets of Subscribers, observers, *)
(* controllers and teardowns, and any bound on the depth of user calls.    *)
(***************************************************************************)
EXTENDS PlatformObservable, TLAPS

(* What Push, Replace and Pop do to the call stack. *)
LEMMA PushStack ==
  ASSUME NEW S, NEW f \in S, NEW q \in Seq(S)
  PROVE  /\ <<f>> \o q \in Seq(S)
         /\ Len(<<f>> \o q) = Len(q) + 1
         /\ (<<f>> \o q)[1] = f
         /\ \A i \in 1 .. Len(q) : (<<f>> \o q)[i + 1] = q[i]
  OBVIOUS

LEMMA PopStack ==
  ASSUME NEW S, NEW q \in Seq(S), q # <<>>
  PROVE  /\ Tail(q) \in Seq(S)
         /\ Len(Tail(q)) = Len(q) - 1
         /\ \A i \in 1 .. Len(q) - 1 : Tail(q)[i] = q[i + 1]
         /\ Head(q) = q[1]
         /\ Len(q) \in Nat \ {0}
         /\ Head(q) \in S
  OBVIOUS

LEMMA ReplaceStack ==
  ASSUME NEW S, NEW f \in S, NEW q \in Seq(S), q # <<>>
  PROVE  /\ <<f>> \o Tail(q) \in Seq(S)
         /\ Len(<<f>> \o Tail(q)) = Len(q)
         /\ (<<f>> \o Tail(q))[1] = f
         /\ \A i \in 2 .. Len(q) : (<<f>> \o Tail(q))[i] = q[i]
  OBVIOUS

LEMMA LastFirstType ==
  ASSUME NEW S, NEW q \in Seq(S)
  PROVE  LastFirst(q) \in Seq(S)
  BY DEF LastFirst

LEMMA SubFrameType ==
  ASSUME NEW op \in SubOps, NEW s \in Subs, NEW rest \in SUBSET Observers,
         NEW at \in {"run", "call"}
  PROVE  SubFrame(op, s, rest, at) \in Frame
  BY DEF SubFrame, Frame, CallFrame

LEMMA AbortFrameType ==
  ASSUME NEW c \in Controllers, NEW rest \in SUBSET Observers
  PROVE  AbortFrame(c, rest) \in Frame
  BY DEF AbortFrame, Frame, SignalFrame

(* The innermost frame, and what it becomes in the fields actions change. *)
LEMMA TopFrameType ==
  ASSUME TypeOK, stack # <<>>
  PROVE  /\ Top \in Frame
         /\ \A at \in {"run", "call"}, rest \in SUBSET Observers :
              /\ [Top EXCEPT !.at = at] \in Frame
              /\ [Top EXCEPT !.rest = rest, !.at = at] \in Frame
              /\ [Top EXCEPT !.rest = rest] \in Frame
  <1>1. Top \in Frame
    BY PopStack DEF TypeOK, Top
  <1>2. QED
    BY <1>1 DEF Frame, CallFrame, SignalFrame

LEMMA CallFrameType ==
  ASSUME TypeOK, stack # <<>>, Top.op \in SubOps
  PROVE  /\ Top \in CallFrame
         /\ Top.s \in Subs
         /\ Top.tds \in Seq(Teardowns)
         /\ Top.thrown \in BOOLEAN
         /\ \A op \in SubOps, at \in {"run", "call"}, tds \in Seq(Teardowns),
               thrown \in BOOLEAN :
              /\ [Top EXCEPT !.op = op, !.thrown = thrown] \in Frame
              /\ [Top EXCEPT !.op = op, !.at = at, !.tds = tds] \in Frame
              /\ [Top EXCEPT !.at = at, !.tds = tds, !.thrown = thrown] \in Frame
  <1>1. Top \in CallFrame
    BY TopFrameType DEF Frame, SignalFrame, SubOps
  <1>2. QED
    BY <1>1 DEF Frame, CallFrame

LEMMA SignalFrameType ==
  ASSUME TypeOK, stack # <<>>, Top.op \in {"abort", "dispatch"}
  PROVE  /\ Top \in SignalFrame
         /\ Top.c \in Controllers
         /\ \A rest \in SUBSET Observers, at \in {"run", "call"} :
              [Top EXCEPT !.op = "dispatch", !.rest = rest, !.at = at] \in Frame
  <1>1. Top \in SignalFrame
    BY TopFrameType DEF Frame, CallFrame, SubOps
  <1>2. QED
    BY <1>1 DEF Frame, SignalFrame

LEMMA TerminateType ==
  ASSUME TypeOK, NEW s \in Subs, NEW op \in {"error", "complete"},
         NEW below \in Seq(Frame), Terminate(op, s, below)
  PROVE  /\ stack' \in Seq(Frame)
         /\ phase' \in [Subs -> {"unused", "open", "closed", "collected"}]
  <1> DEFINE f == SubFrame("algorithms", s, {}, "call")
             g == SubFrame(op, s, list[s], "run")
  <1>1. f \in Frame /\ g \in Frame
    BY SubFrameType DEF TypeOK, SubOps
  <1> HIDE DEF f, g
  <1>2. <<f, g>> \o below \in Seq(Frame)
    BY <1>1
  <1>3. QED
    BY <1>2 DEF Terminate, TypeOK, f, g

-----------------------------------------------------------------------------
(* Type correctness. *)
THEOREM TypeCorrect == Spec => []TypeOK
  <1>1. Init => TypeOK
    BY DEF Init, TypeOK
  <1>2. TypeOK /\ [Next]_vars => TypeOK'
    <2> SUFFICES ASSUME TypeOK, [Next]_vars PROVE TypeOK'
      OBVIOUS
    <2> USE ConstantsOK
    <2>1. ASSUME NEW o \in Observers, NEW c \in Controllers \cup {NoCtl},
                 SubscribeJoin(o, c)
          PROVE  TypeOK'
      BY <2>1 DEF SubscribeJoin, TypeOK, Open
    <2>2. ASSUME NEW o \in Observers, NEW c \in Controllers \cup {NoCtl},
                 NEW s \in Subs, SubscribeStart(o, c, s)
          PROVE  TypeOK'
      <3>1. stack' \in Seq(Frame)
        BY <2>2, SubFrameType, PushStack DEF SubscribeStart, Push, SubOps, TypeOK
      <3>2. QED
        BY <2>2, <3>1 DEF SubscribeStart, TypeOK
    <2>3. ASSUME NEW c \in Controllers, CallAbort(c) PROVE TypeOK'
      <3>1. stack' \in Seq(Frame)
        BY <2>3, AbortFrameType, PushStack DEF CallAbort, Push, Armed, TypeOK
      <3>2. QED
        BY <2>3, <3>1 DEF CallAbort, TypeOK
    <2>4. ASSUME NEW s \in Subs, NEW c \in Controllers, SubscribeAborted(c, s)
          PROVE  TypeOK'
      <3>1. stack' \in Seq(Frame)
        BY <2>4, SubFrameType, PushStack DEF SubscribeAborted, Push, SubOps, TypeOK
      <3>2. QED
        BY <2>4, <3>1 DEF SubscribeAborted, TypeOK
    <2>5. ASSUME NEW s \in Subs, CallNext(s) PROVE TypeOK'
      <3>1. stack' \in Seq(Frame)
        BY <2>5, SubFrameType, PushStack DEF CallNext, Push, SubOps, TypeOK
      <3>2. QED
        BY <2>5, <3>1 DEF CallNext, TypeOK
    <2>6. ASSUME NEW s \in Subs, CallError(s) PROVE TypeOK'
      BY <2>6, TerminateType DEF CallError, TypeOK
    <2>7. ASSUME NEW s \in Subs, CallComplete(s) PROVE TypeOK'
      BY <2>7, TerminateType DEF CallComplete, TypeOK
    <2>8. ASSUME NEW s \in Subs, NEW t \in Teardowns, AddTeardown(s, t)
          PROVE  TypeOK'
      BY <2>8 DEF AddTeardown, TypeOK
    <2>9. ASSUME NEW s \in Subs, NEW t \in Teardowns, AddTeardownLate(s, t)
          PROVE  TypeOK'
      <3>1. stack' \in Seq(Frame)
        BY <2>9, SubFrameType, PushStack DEF AddTeardownLate, Push, SubOps, TypeOK
      <3>2. QED
        BY <2>9, <3>1 DEF AddTeardownLate, TypeOK
    <2>10. ASSUME NEW op \in {"next", "error", "complete"},
                  NEW o \in Observers, Deliver(op, o)
           PROVE  TypeOK'
      <3>1. Top.rest \ {o} \in SUBSET Observers
        BY <2>10, TopFrameType DEF Deliver, LibTurn, Frame, CallFrame, SignalFrame
      <3>2. stack' \in Seq(Frame)
        BY <2>10, <3>1, TopFrameType, ReplaceStack
        DEF Deliver, LibTurn, Replace, TypeOK
      <3>3. QED
        BY <2>10, <3>2 DEF Deliver, TypeOK
    <2>11. ASSUME NEW op \in {"next", "error", "complete"}, Delivered(op)
           PROVE  TypeOK'
      BY <2>11, PopStack DEF Delivered, LibTurn, Pop, TypeOK
    <2>12. ASSUME NEW op \in {"abort", "dispatch"}, NEW o \in Observers,
                  RemoveObserver(op, o)
           PROVE  TypeOK'
      <3> DEFINE s    == home[o]
                 self == [Top EXCEPT !.rest = @ \ {o}]
      <3>1. self \in Frame
        <4>1. Top.rest \ {o} \in SUBSET Observers
          BY <2>12, TopFrameType DEF RemoveObserver, LibTurn, Frame, CallFrame, SignalFrame
        <4>2. QED
          BY <2>12, <4>1, TopFrameType DEF RemoveObserver, LibTurn
      <3>2. CASE IsLast(s, o)
        <4>1. SubFrame("algorithms", s, {}, "call") \in Frame
          BY <3>2, SubFrameType DEF IsLast, Open, SubOps
        <4> HIDE DEF self
        <4>2. <<SubFrame("algorithms", s, {}, "call"), self>> \o Tail(stack)
                \in Seq(Frame)
          BY <2>12, <3>1, <4>1, PopStack DEF RemoveObserver, LibTurn, TypeOK
        <4>3. QED
          BY <2>12, <3>2, <4>2 DEF RemoveObserver, TypeOK, IsLast, Open, self
      <3>3. CASE ~IsLast(s, o)
        <4> HIDE DEF self
        <4>1. <<self>> \o Tail(stack) \in Seq(Frame)
          BY <2>12, <3>1, ReplaceStack DEF RemoveObserver, LibTurn, TypeOK
        <4>2. QED
          BY <2>12, <3>3, <4>1 DEF RemoveObserver, Replace, TypeOK, self
      <3>4. QED
        BY <3>2, <3>3
    <2>13. CASE NativeAbort
      <3>1. Top.c \in Controllers
        BY <2>13, SignalFrameType DEF NativeAbort, LibTurn
      <3>2. ListenersOf(Top.c) \in SUBSET Observers
        BY DEF ListenersOf, Armed
      <3>3. CASE Top.c \in aborted
        <4>1. stack' = Tail(stack)
          BY <2>13, <3>3 DEF NativeAbort, Pop
        <4>2. stack' \in Seq(Frame)
          BY <2>13, <4>1, PopStack DEF NativeAbort, LibTurn, TypeOK
        <4>3. QED
          BY <2>13, <3>1, <4>2 DEF NativeAbort, TypeOK
      <3>4. CASE Top.c \notin aborted
        <4> DEFINE f == [Top EXCEPT !.op = "dispatch",
                                    !.rest = ListenersOf(Top.c), !.at = "call"]
        <4>1. f \in Frame
          BY <2>13, <3>2, SignalFrameType DEF NativeAbort, LibTurn
        <4>2. stack' = <<f>> \o Tail(stack)
          BY <2>13, <3>4 DEF NativeAbort, Replace
        <4> HIDE DEF f
        <4>3. stack' \in Seq(Frame)
          BY <2>13, <4>1, <4>2, ReplaceStack DEF NativeAbort, LibTurn, TypeOK
        <4>4. QED
          BY <2>13, <3>1, <4>3 DEF NativeAbort, TypeOK
      <3>5. QED
        BY <3>3, <3>4
    <2>14. CASE NextListener
      BY <2>14, TopFrameType, ReplaceStack
      DEF NextListener, LibTurn, Replace, TypeOK
    <2>15. CASE AbortDone
      BY <2>15, PopStack DEF AbortDone, LibTurn, Pop, TypeOK
    <2>16. CASE RunTeardown
      <3>1. Top.tds \in Seq(Teardowns) /\ Top.tds # <<>>
        BY <2>16, CallFrameType DEF RunTeardown, LibTurn, SubOps
      <3>2. stack' \in Seq(Frame)
        BY <2>16, TopFrameType, ReplaceStack
        DEF RunTeardown, LibTurn, Replace, TypeOK
      <3>3. Head(Top.tds) \in Teardowns
        BY <3>1, PopStack
      <3>4. QED
        BY <2>16, <3>2, <3>3 DEF RunTeardown, TypeOK
    <2>17. CASE CloseDone
      <3>1. Tail(stack) \in Seq(Frame)
        BY <2>17, PopStack DEF CloseDone, LibTurn, TypeOK
      <3>2. stack' \in Seq(Frame)
        <4>1. CASE Len(stack) > 1
          <5>1. Tail(stack) # <<>>
            <6>1. stack \in Seq(Frame) /\ stack # <<>>
              BY <2>17 DEF CloseDone, LibTurn, TypeOK
            <6>2. Len(stack) \in Nat /\ Len(Tail(stack)) = Len(stack) - 1
              BY <6>1, PopStack
            <6>3. QED
              BY <4>1, <6>2
          <5>2. Tail(Tail(stack)) \in Seq(Frame)
            BY <3>1, <5>1, PopStack
          <5>3. QED
            BY <2>17, <3>1, <5>2 DEF CloseDone
        <4>2. CASE ~(Len(stack) > 1)
          BY <2>17, <3>1, <4>2 DEF CloseDone, CalledBy
        <4>3. QED
          BY <4>1, <4>2
      <3>3. QED
        BY <2>17, <3>2 DEF CloseDone, TypeOK
    <2>18. CASE ReturnToLoop
      BY <2>18, TopFrameType, ReplaceStack
      DEF ReturnToLoop, Returning, Replace, TypeOK
    <2>19. CASE ReturnFromCall
      BY <2>19, PopStack DEF ReturnFromCall, Returning, Pop, TypeOK
    <2>20. CASE InitThrows
      <3>1. Top.s \in Subs /\ Tail(stack) \in Seq(Frame)
        BY <2>20, PopStack DEF InitThrows, Open, Returning, TypeOK
      <3>2. QED
        BY <2>20, <3>1, TerminateType DEF InitThrows, TypeOK
    <2>21. ASSUME NEW throws \in BOOLEAN, AlgorithmsDone(throws) PROVE TypeOK'
      <3>1. Top.s \in Subs
        BY <2>21, CallFrameType DEF AlgorithmsDone, Returning, SubOps
      <3>2. [Top EXCEPT !.op = "event", !.thrown = throws] \in Frame
        BY <2>21, CallFrameType DEF AlgorithmsDone, Returning, SubOps
      <3>3. stack' \in Seq(Frame)
        BY <2>21, <3>2, ReplaceStack
        DEF AlgorithmsDone, Returning, Replace, TypeOK
      <3>4. QED
        BY <2>21, <3>1, <3>3 DEF AlgorithmsDone, TypeOK
    <2>22. CASE EventDone
      <3>1. Top.s \in Subs
        BY <2>22, CallFrameType DEF EventDone, Returning, SubOps
      <3> DEFINE tds == LastFirst(teardowns[Top.s])
      <3>2. tds \in Seq(Teardowns)
        BY <3>1, LastFirstType DEF TypeOK
      <3> HIDE DEF tds
      <3> DEFINE f == [Top EXCEPT !.op = "teardown", !.at = "run", !.tds = tds]
      <3>3. f \in Frame
        BY <2>22, <3>2, CallFrameType DEF EventDone, Returning, SubOps
      <3>4. stack' = <<f>> \o Tail(stack)
        BY <2>22 DEF EventDone, Replace, tds
      <3> HIDE DEF f
      <3>5. stack' \in Seq(Frame)
        BY <2>22, <3>3, <3>4, ReplaceStack DEF EventDone, Returning, TypeOK
      <3>6. QED
        BY <2>22, <3>1, <3>5 DEF EventDone, TypeOK
    <2>23. ASSUME NEW throws \in BOOLEAN, TeardownDone(throws) PROVE TypeOK'
      <3> DEFINE f == [Top EXCEPT !.at = "run", !.tds = Tail(@),
                                  !.thrown = @ \/ throws]
      <3>1. Top.tds \in Seq(Teardowns) /\ Top.thrown \in BOOLEAN
        BY <2>23, CallFrameType DEF TeardownDone, Returning, SubOps
      <3>2. Top.tds # <<>>
        BY <2>23 DEF TeardownDone
      <3>3. Tail(Top.tds) \in Seq(Teardowns)
        BY <3>1, <3>2, PopStack
      <3>4. f \in Frame
        BY <2>23, <3>1, <3>3, CallFrameType
        DEF TeardownDone, Returning, SubOps
      <3>5. stack' = <<f>> \o Tail(stack)
        BY <2>23 DEF TeardownDone, Replace
      <3> HIDE DEF f
      <3>6. stack' \in Seq(Frame)
        BY <2>23, <3>4, <3>5, ReplaceStack DEF TeardownDone, Returning, TypeOK
      <3>7. QED
        BY <2>23, <3>6 DEF TeardownDone, TypeOK
    <2>24. ASSUME NEW s \in Subs, Collect(s) PROVE TypeOK'
      BY <2>24 DEF Collect, TypeOK
    <2>25. CASE UNCHANGED vars
      BY <2>25 DEF vars, TypeOK
    <2>26. QED
      BY <2>1, <2>2, <2>3, <2>4, <2>5, <2>6, <2>7, <2>8, <2>9, <2>10, <2>11,
         <2>12, <2>13, <2>14, <2>15, <2>16, <2>17, <2>18, <2>19, <2>20, <2>21,
         <2>22, <2>23, <2>24, <2>25
      DEF Next, UserCall, LibraryStep, CallbackEnds
  <1>3. QED
    BY <1>1, <1>2, PTL DEF Spec

-----------------------------------------------------------------------------
(* The producer is shared.  The invariant is not inductive by itself: the   *)
(* observers of a Subscriber are dropped by closeSubscriber(), which is     *)
(* harmless only because a Subscriber that is being closed is not active.   *)

Closing == {"algorithms", "event", "teardown", "error", "complete"}

ClosedFrame(f) == f.op \in Closing => phase[f.s] = "closed"

ClosingFramesClosed == \A f \in Members(stack) : ClosedFrame(f)

SharedInv == OneSharedRun /\ ClosingFramesClosed

LEMMA PushMembers ==
  ASSUME NEW S, NEW f \in S, NEW q \in Seq(S)
  PROVE  Members(<<f>> \o q) = {f} \cup Members(q)
  <1>1. DOMAIN (<<f>> \o q) = 1 .. Len(q) + 1 /\ DOMAIN q = 1 .. Len(q)
    BY PushStack
  <1>2. \A i \in 1 .. Len(q) + 1 : i = 1 \/ (i - 1 \in 1 .. Len(q) /\ i = (i - 1) + 1)
    OBVIOUS
  <1>3. ASSUME NEW x \in Members(<<f>> \o q) PROVE x \in {f} \cup Members(q)
    BY <1>1, <1>2, PushStack DEF Members
  <1>4. ASSUME NEW x \in Members(q) PROVE x \in Members(<<f>> \o q)
    <2>1. PICK i \in 1 .. Len(q) : x = q[i]
      BY <1>1 DEF Members
    <2>2. i + 1 \in 1 .. Len(q) + 1 /\ (<<f>> \o q)[i + 1] = x
      BY <2>1, PushStack
    <2>3. QED
      BY <1>1, <2>2 DEF Members
  <1>5. f \in Members(<<f>> \o q)
    BY <1>1, PushStack DEF Members
  <1>6. QED
    BY <1>3, <1>4, <1>5

LEMMA PopMembers ==
  ASSUME NEW S, NEW q \in Seq(S), q # <<>>
  PROVE  /\ Members(Tail(q)) \subseteq Members(q)
         /\ Head(q) \in Members(q)
  <1>1. DOMAIN Tail(q) = 1 .. Len(q) - 1 /\ DOMAIN q = 1 .. Len(q)
    BY PopStack
  <1>2. \A i \in 1 .. Len(q) - 1 : i + 1 \in 1 .. Len(q) /\ Tail(q)[i] = q[i + 1]
    BY PopStack
  <1>3. 1 \in 1 .. Len(q) /\ Head(q) = q[1]
    BY PopStack
  <1>4. QED
    BY <1>1, <1>2, <1>3 DEF Members

LEMMA ReplaceMembers ==
  ASSUME NEW S, NEW f \in S, NEW q \in Seq(S), q # <<>>
  PROVE  Members(<<f>> \o Tail(q)) \subseteq {f} \cup Members(q)
  <1>1. Tail(q) \in Seq(S)
    BY PopStack
  <1>2. Members(<<f>> \o Tail(q)) = {f} \cup Members(Tail(q))
    BY <1>1, PushMembers
  <1>3. QED
    BY <1>2, PopMembers

LEMMA PushTwoMembers ==
  ASSUME NEW S, NEW f \in S, NEW g \in S, NEW q \in Seq(S)
  PROVE  Members(<<f, g>> \o q) = {f, g} \cup Members(q)
  <1> DEFINE r == <<f, g>> \o q
  <1>1. /\ DOMAIN r = 1 .. Len(q) + 2
        /\ DOMAIN q = 1 .. Len(q)
        /\ r[1] = f
        /\ r[2] = g
        /\ \A i \in 1 .. Len(q) : i + 2 \in 1 .. Len(q) + 2 /\ r[i + 2] = q[i]
        /\ Len(q) \in Nat
    OBVIOUS
  <1> HIDE DEF r
  <1>2. ASSUME NEW x \in Members(r) PROVE x \in {f, g} \cup Members(q)
    <2>1. PICK i \in 1 .. Len(q) + 2 : x = r[i]
      BY <1>1 DEF Members
    <2>2. i = 1 \/ i = 2 \/ (i - 2 \in 1 .. Len(q) /\ i = (i - 2) + 2)
      BY <1>1
    <2>3. QED
      BY <1>1, <2>1, <2>2 DEF Members
  <1>3. f \in Members(r) /\ g \in Members(r)
    BY <1>1 DEF Members
  <1>4. Members(q) \subseteq Members(r)
    BY <1>1 DEF Members
  <1>5. QED
    BY <1>2, <1>3, <1>4 DEF r

(* A closed Subscriber stays closed. *)
LEMMA ClosedForever ==
  ASSUME TypeOK, Next, NEW s \in Subs, phase[s] = "closed"
  PROVE  phase'[s] = "closed"
  BY DEF TypeOK, Next, UserCall, LibraryStep, CallbackEnds, SubscribeJoin,
    SubscribeStart, SubscribeAborted, CallNext, CallError, CallComplete,
    Terminate, AddTeardown, AddTeardownLate, CallAbort, Deliver, Delivered,
    RemoveObserver, IsLast, Open, NativeAbort, NextListener, AbortDone,
    RunTeardown, CloseDone, ReturnToLoop, ReturnFromCall, InitThrows,
    AlgorithmsDone, EventDone, TeardownDone, Collect

(* Frames of the stack keep closing a closed Subscriber. *)
LEMMA OldFramesClosed ==
  ASSUME TypeOK, Next, ClosingFramesClosed
  PROVE  \A f \in Members(stack) : ClosedFrame(f)'
  <1> SUFFICES ASSUME NEW f \in Members(stack), f.op \in Closing
               PROVE  phase'[f.s] = "closed"
    BY DEF ClosedFrame
  <1>1. f \in Frame
    BY DEF TypeOK, Members
  <1>2. f.s \in Subs
    BY <1>1 DEF Frame, CallFrame, SignalFrame, Closing
  <1>3. phase[f.s] = "closed"
    BY DEF ClosingFramesClosed, ClosedFrame
  <1>4. QED
    BY <1>2, <1>3, ClosedForever

LEMMA ClosingFramesStep ==
  ASSUME TypeOK, ClosingFramesClosed, [Next]_vars
  PROVE  ClosingFramesClosed'
  <1> USE ConstantsOK
  <1>1. CASE UNCHANGED vars
    BY <1>1 DEF vars, ClosingFramesClosed, ClosedFrame
  <1>2. CASE Next
    <2>1. \A f \in Members(stack) : ClosedFrame(f)'
      BY <1>2, OldFramesClosed
    <2>2. SUFFICES \A f \in Members(stack') :
                     f \in Members(stack) \/ ClosedFrame(f)'
      BY <2>1 DEF ClosingFramesClosed
    <2>3. stack \in Seq(Frame)
      BY DEF TypeOK
    <2>4. CASE stack' = stack
      BY <2>4
    <2>5. ASSUME NEW o \in Observers, NEW c \in Controllers \cup {NoCtl},
                 NEW s \in Subs, SubscribeStart(o, c, s)
          PROVE  \A f \in Members(stack') : f \in Members(stack) \/ ClosedFrame(f)'
      <3> DEFINE f == SubFrame("init", s, {}, "call")
      <3>1. f \in Frame /\ f.op = "init"
        BY SubFrameType DEF SubOps, SubFrame
      <3>2. stack' = <<f>> \o stack
        BY <2>5 DEF SubscribeStart, Push
      <3> HIDE DEF f
      <3>3. QED
        BY <2>3, <3>1, <3>2, PushMembers DEF ClosedFrame, Closing
    <2>6. ASSUME NEW c \in Controllers, CallAbort(c)
          PROVE  \A f \in Members(stack') : f \in Members(stack) \/ ClosedFrame(f)'
      <3> DEFINE f == AbortFrame(c, Armed(c))
      <3>1. f \in Frame /\ f.op = "abort"
        BY AbortFrameType DEF AbortFrame, Armed
      <3>2. stack' = <<f>> \o stack
        BY <2>6 DEF CallAbort, Push
      <3> HIDE DEF f
      <3>3. QED
        BY <2>3, <3>1, <3>2, PushMembers DEF ClosedFrame, Closing
    <2>7. ASSUME NEW s \in Subs, NEW c \in Controllers, SubscribeAborted(c, s)
          PROVE  \A f \in Members(stack') : f \in Members(stack) \/ ClosedFrame(f)'
      <3> DEFINE f == SubFrame("init", s, {}, "call")
      <3>1. f \in Frame /\ f.op = "init"
        BY SubFrameType DEF SubOps, SubFrame
      <3>2. stack' = <<f>> \o stack
        BY <2>7 DEF SubscribeAborted, Push
      <3> HIDE DEF f
      <3>3. QED
        BY <2>3, <3>1, <3>2, PushMembers DEF ClosedFrame, Closing
    <2>8. ASSUME NEW s \in Subs, CallNext(s)
          PROVE  \A f \in Members(stack') : f \in Members(stack) \/ ClosedFrame(f)'
      <3> DEFINE f == SubFrame("next", s, list[s], "run")
      <3>1. f \in Frame /\ f.op = "next"
        BY SubFrameType DEF SubOps, SubFrame, TypeOK
      <3>2. stack' = <<f>> \o stack
        BY <2>8 DEF CallNext, Push
      <3> HIDE DEF f
      <3>3. QED
        BY <2>3, <3>1, <3>2, PushMembers DEF ClosedFrame, Closing
    <2>9. ASSUME NEW s \in Subs, NEW t \in Teardowns, AddTeardownLate(s, t)
          PROVE  \A f \in Members(stack') : f \in Members(stack) \/ ClosedFrame(f)'
      <3> DEFINE f == SubFrame("late", s, {}, "call")
      <3>1. f \in Frame /\ f.op = "late"
        BY SubFrameType DEF SubOps, SubFrame
      <3>2. stack' = <<f>> \o stack
        BY <2>9 DEF AddTeardownLate, Push
      <3> HIDE DEF f
      <3>3. QED
        BY <2>3, <3>1, <3>2, PushMembers DEF ClosedFrame, Closing
    (* Entering closeSubscriber(): two new frames, of a Subscriber just closed. *)
    <2>10. ASSUME NEW s \in Subs, NEW op \in {"error", "complete"},
                  NEW below \in Seq(Frame), Members(below) \subseteq Members(stack),
                  Terminate(op, s, below)
           PROVE  \A f \in Members(stack') : f \in Members(stack) \/ ClosedFrame(f)'
      <3> DEFINE f == SubFrame("algorithms", s, {}, "call")
                 g == SubFrame(op, s, list[s], "run")
      <3>1. f \in Frame /\ g \in Frame /\ f.s = s /\ g.s = s
        BY SubFrameType DEF SubOps, SubFrame, TypeOK
      <3>2. stack' = <<f, g>> \o below /\ phase'[s] = "closed"
        BY <2>10 DEF Terminate, TypeOK
      <3> HIDE DEF f, g
      <3>3. Members(stack') = {f, g} \cup Members(below)
        BY <3>1, <3>2, PushTwoMembers
      <3>4. QED
        BY <2>10, <3>1, <3>2, <3>3 DEF ClosedFrame
    <2>11. ASSUME NEW s \in Subs, CallError(s) \/ CallComplete(s)
           PROVE  \A f \in Members(stack') : f \in Members(stack) \/ ClosedFrame(f)'
      BY <2>3, <2>10, <2>11 DEF CallError, CallComplete
    <2>12. CASE InitThrows
      <3>1. Top.s \in Subs /\ stack # <<>>
        BY <2>12 DEF InitThrows, Open, Returning
      <3>2. Tail(stack) \in Seq(Frame) /\ Members(Tail(stack)) \subseteq Members(stack)
        BY <2>3, <3>1, PopStack, PopMembers
      <3>3. QED
        BY <2>10, <2>12, <3>1, <3>2 DEF InitThrows
    (* The innermost frame changes its stage, within the same call. *)
    <2>13. ASSUME NEW f \in Frame, stack # <<>>, stack' = <<f>> \o Tail(stack),
                  f.op \in Closing => Top.op \in Closing /\ f.s = Top.s
           PROVE  \A g \in Members(stack') : g \in Members(stack) \/ ClosedFrame(g)'
      <3>1. Top \in Members(stack)
        BY <2>3, <2>13, PopMembers DEF Top
      <3>2. ClosedFrame(f)'
        BY <2>1, <2>13, <3>1 DEF ClosedFrame
      <3>3. QED
        BY <2>3, <2>13, <3>2, ReplaceMembers
    <2>14. ASSUME stack # <<>>, stack' = Tail(stack)
           PROVE  \A g \in Members(stack') : g \in Members(stack) \/ ClosedFrame(g)'
      BY <2>3, <2>14, PopMembers
    <2>15. ASSUME NEW op \in {"next", "error", "complete"}, NEW o \in Observers,
                  Deliver(op, o)
           PROVE  \A f \in Members(stack') : f \in Members(stack) \/ ClosedFrame(f)'
      <3> DEFINE f == [Top EXCEPT !.rest = @ \ {o}, !.at = "call"]
      <3>1. stack # <<>> /\ stack' = <<f>> \o Tail(stack)
        BY <2>15 DEF Deliver, LibTurn, Replace
      <3>2. Top \in Frame
        BY <3>1, TopFrameType
      <3>3. f \in Frame /\ f.op = Top.op /\ f.s = Top.s
        BY <3>2 DEF Frame, CallFrame, SignalFrame
      <3> HIDE DEF f
      <3>4. QED
        BY <2>13, <3>1, <3>3
    <2>16. ASSUME NEW op \in {"abort", "dispatch"}, NEW o \in Observers,
                  RemoveObserver(op, o)
           PROVE  \A f \in Members(stack') : f \in Members(stack) \/ ClosedFrame(f)'
      <3> DEFINE s == home[o]
                 f == [Top EXCEPT !.rest = @ \ {o}]
                 g == SubFrame("algorithms", s, {}, "call")
      <3>1. stack # <<>>
        BY <2>16 DEF RemoveObserver, LibTurn
      <3>2. Top \in Frame
        BY <3>1, TopFrameType
      <3>3. f \in Frame /\ f.op = Top.op /\ f.s = Top.s
        BY <3>2 DEF Frame, CallFrame, SignalFrame
      <3>4. CASE IsLast(s, o)
        <4>1. s \in Subs /\ stack' = <<g, f>> \o Tail(stack) /\ phase'[s] = "closed"
          BY <2>16, <3>4 DEF RemoveObserver, IsLast, Open, TypeOK
        <4>2. g \in Frame /\ g.s = s
          BY <4>1, SubFrameType DEF SubOps, SubFrame
        <4>3. f.op \notin Closing
          BY <2>16, <3>3 DEF RemoveObserver, LibTurn, Closing
        <4> DEFINE below == Tail(stack)
        <4>4. below \in Seq(Frame) /\ Members(below) \subseteq Members(stack)
          BY <2>3, <3>1, PopStack, PopMembers
        <4>5. f \in Frame /\ stack' = <<g, f>> \o below
          BY <3>3, <4>1
        <4> HIDE DEF f, g, below
        <4>6. Members(stack') = {g, f} \cup Members(below)
          BY <4>2, <4>4, <4>5, PushTwoMembers
        <4>7. QED
          BY <4>1, <4>2, <4>3, <4>4, <4>6 DEF ClosedFrame
      <3>5. CASE ~IsLast(s, o)
        <4>1. stack' = <<f>> \o Tail(stack)
          BY <2>16, <3>5 DEF RemoveObserver, Replace
        <4> HIDE DEF f
        <4>2. QED
          BY <2>13, <3>1, <3>3, <4>1
      <3>6. QED
        BY <3>4, <3>5
    <2>17. CASE NativeAbort
      <3> DEFINE f == [Top EXCEPT !.op = "dispatch", !.rest = ListenersOf(Top.c),
                                  !.at = "call"]
      <3>1. stack # <<>> /\ (stack' = Tail(stack) \/ stack' = <<f>> \o Tail(stack))
        BY <2>17 DEF NativeAbort, LibTurn, Replace, Pop
      <3>2. f \in Frame
        BY <2>17, SignalFrameType DEF NativeAbort, LibTurn, ListenersOf, Armed
      <3>3. f.op \notin Closing
        <4>1. Top \in Frame
          BY <3>1, TopFrameType
        <4>2. QED
          BY <4>1 DEF Frame, CallFrame, SignalFrame, Closing
      <3> HIDE DEF f
      <3>4. QED
        BY <2>13, <2>14, <3>1, <3>2, <3>3
    <2>18. CASE NextListener \/ RunTeardown \/ ReturnToLoop
      <3>1. PICK at \in {"run", "call"} :
              stack # <<>> /\ stack' = <<[Top EXCEPT !.at = at]>> \o Tail(stack)
        BY <2>18
        DEF NextListener, RunTeardown, ReturnToLoop, LibTurn, Returning, Replace
      <3> DEFINE f == [Top EXCEPT !.at = at]
      <3>2. f \in Frame /\ f.op = Top.op /\ f.s = Top.s
        BY <3>1, TopFrameType DEF Frame, CallFrame, SignalFrame
      <3>3. stack' = <<f>> \o Tail(stack)
        BY <3>1
      <3> HIDE DEF f
      <3>4. QED
        BY <2>13, <3>1, <3>2, <3>3
    <2>19. CASE AbortDone \/ ReturnFromCall
                \/ \E op \in {"next", "error", "complete"} : Delivered(op)
      BY <2>14, <2>19 DEF AbortDone, ReturnFromCall, Delivered, LibTurn, Returning, Pop
    <2>20. CASE CloseDone
      <3>1. stack # <<>>
        BY <2>20 DEF CloseDone, LibTurn
      <3>2. Tail(stack) \in Seq(Frame) /\ Members(Tail(stack)) \subseteq Members(stack)
        BY <2>3, <3>1, PopStack, PopMembers
      <3>3. CASE stack' = Tail(stack)
        BY <2>14, <3>1, <3>3
      <3>4. CASE CalledBy({"error", "complete"}) /\ stack' = Tail(Tail(stack))
        <4>1. Len(stack) > 1 /\ Len(Tail(stack)) = Len(stack) - 1 /\ Len(stack) \in Nat
          BY <2>3, <3>1, <3>4, PopStack DEF CalledBy
        <4>2. Tail(stack) # <<>>
          BY <4>1
        <4>3. QED
          BY <3>2, <3>4, <4>2, PopMembers
      <3>5. QED
        BY <2>20, <3>3, <3>4 DEF CloseDone
    <2>21. ASSUME NEW throws \in BOOLEAN, AlgorithmsDone(throws)
           PROVE  \A f \in Members(stack') : f \in Members(stack) \/ ClosedFrame(f)'
      <3> DEFINE f == [Top EXCEPT !.op = "event", !.thrown = throws]
      <3>1. stack # <<>> /\ stack' = <<f>> \o Tail(stack) /\ Top.op = "algorithms"
        BY <2>21 DEF AlgorithmsDone, Returning, Replace
      <3>2. Top \in CallFrame
        BY <3>1, CallFrameType DEF SubOps
      <3>3. f \in Frame /\ f.s = Top.s
        BY <3>2 DEF Frame, CallFrame, SubOps
      <3> HIDE DEF f
      <3>4. QED
        BY <2>13, <3>1, <3>3 DEF Closing
    <2>22. CASE EventDone
      <3> DEFINE tds == LastFirst(teardowns[Top.s])
                 f   == [Top EXCEPT !.op = "teardown", !.at = "run", !.tds = tds]
      <3>1. stack # <<>> /\ stack' = <<f>> \o Tail(stack) /\ Top.op = "event"
        BY <2>22 DEF EventDone, Returning, Replace
      <3>2. Top \in CallFrame
        BY <3>1, CallFrameType DEF SubOps
      <3>3. tds \in Seq(Teardowns)
        BY <3>2, LastFirstType DEF CallFrame, TypeOK
      <3> HIDE DEF tds
      <3>4. f \in Frame /\ f.s = Top.s
        BY <3>2, <3>3 DEF Frame, CallFrame, SubOps
      <3> HIDE DEF f
      <3>5. QED
        BY <2>13, <3>1, <3>4 DEF Closing
    <2>23. ASSUME NEW throws \in BOOLEAN, TeardownDone(throws)
           PROVE  \A f \in Members(stack') : f \in Members(stack) \/ ClosedFrame(f)'
      <3> DEFINE f == [Top EXCEPT !.at = "run", !.tds = Tail(@),
                                  !.thrown = @ \/ throws]
      <3>1. stack # <<>> /\ stack' = <<f>> \o Tail(stack) /\ Top.op = "teardown"
              /\ Top.tds # <<>>
        BY <2>23 DEF TeardownDone, Returning, Replace
      <3>2. Top \in CallFrame /\ Tail(Top.tds) \in Seq(Teardowns)
        BY <3>1, CallFrameType, PopStack DEF SubOps
      <3>3. f \in Frame /\ f.s = Top.s
        BY <3>2 DEF Frame, CallFrame, SubOps
      <3> HIDE DEF f
      <3>4. QED
        BY <2>13, <3>1, <3>3 DEF Closing
    <2>24. CASE \/ \E o \in Observers, c \in Controllers \cup {NoCtl} : SubscribeJoin(o, c)
                \/ \E s \in Subs, t \in Teardowns : AddTeardown(s, t)
                \/ \E s \in Subs : Collect(s)
      BY <2>4, <2>24 DEF SubscribeJoin, AddTeardown, Collect
    <2>25. QED
      BY <1>2, <2>5, <2>6, <2>7, <2>8, <2>9, <2>11, <2>12, <2>15, <2>16, <2>17,
         <2>18, <2>19, <2>20, <2>21, <2>22, <2>23, <2>24
      DEF Next, UserCall, LibraryStep, CallbackEnds
  <1>3. QED
    BY <1>1, <1>2

LEMMA OneSharedRunStep ==
  ASSUME TypeOK, SharedInv, [Next]_vars
  PROVE  OneSharedRun'
  <1> USE ConstantsOK DEF OneSharedRun, Open, TypeOK
  <1>1. CASE UNCHANGED vars
    BY <1>1 DEF SharedInv, vars
  <1>2. CASE \/ CallbackEnds /\ ~EventDone
             \/ LibraryStep /\ ~\E op \in {"abort", "dispatch"}, o \in Observers :
                                   RemoveObserver(op, o)
    BY <1>2 DEF SharedInv, CallbackEnds, LibraryStep, Deliver, Delivered,
      NativeAbort, NextListener, AbortDone, RunTeardown, CloseDone, ReturnToLoop,
      ReturnFromCall, InitThrows, Terminate, AlgorithmsDone, TeardownDone
  <1>3. CASE UserCall
    <2>1. ASSUME NEW o \in Observers, NEW c \in Controllers \cup {NoCtl},
                 SubscribeJoin(o, c)
          PROVE  OneSharedRun'
      BY <2>1 DEF SharedInv, SubscribeJoin
    <2>2. ASSUME NEW o \in Observers, NEW c \in Controllers \cup {NoCtl},
                 NEW r \in Subs, SubscribeStart(o, c, r)
          PROVE  OneSharedRun'
      BY <2>2 DEF SharedInv, SubscribeStart
    <2>3. ASSUME NEW r \in Subs, NEW c \in Controllers, SubscribeAborted(c, r)
          PROVE  OneSharedRun'
      BY <2>3 DEF SharedInv, SubscribeAborted
    <2>4. ASSUME NEW r \in Subs, CallError(r) \/ CallComplete(r)
          PROVE  OneSharedRun'
      BY <2>4 DEF SharedInv, CallError, CallComplete, Terminate
    <2>5. CASE \/ \E c \in Controllers : CallAbort(c)
               \/ \E r \in Subs : \/ CallNext(r)
                                  \/ \E t \in Teardowns : \/ AddTeardown(r, t)
                                                          \/ AddTeardownLate(r, t)
      BY <2>5 DEF SharedInv, CallAbort, CallNext, AddTeardown, AddTeardownLate
    <2>6. QED
      BY <1>3, <2>1, <2>2, <2>3, <2>4, <2>5 DEF UserCall
  <1>4. ASSUME NEW r \in Subs, Collect(r) PROVE OneSharedRun'
    BY <1>4 DEF SharedInv, Collect
  <1>5. ASSUME NEW op \in {"abort", "dispatch"}, NEW o \in Observers,
               RemoveObserver(op, o)
        PROVE  OneSharedRun'
    BY <1>5 DEF SharedInv, RemoveObserver, IsLast
  <1>6. CASE EventDone
    <2>1. stack # <<>> /\ stack \in Seq(Frame) /\ Top.op = "event"
      BY <1>6 DEF EventDone, Returning
    <2>2. phase[Top.s] = "closed"
      BY <2>1, PopMembers
      DEF SharedInv, ClosingFramesClosed, ClosedFrame, Closing, Top
    <2>3. QED
      BY <1>6, <2>2 DEF SharedInv, EventDone
  <1>7. QED
    BY <1>1, <1>2, <1>3, <1>4, <1>5, <1>6 DEF Next, LibraryStep, CallbackEnds

(* At every moment the Observable has at most one active run, which the     *)
(* next subscribe() joins and which has an observer.                        *)
THEOREM ProducerShared == Spec => []OneSharedRun
  <1>1. Init => SharedInv
    BY DEF Init, SharedInv, OneSharedRun, Open, ClosingFramesClosed, Members
  <1>2. TypeOK /\ SharedInv /\ [Next]_vars => SharedInv'
    BY ClosingFramesStep, OneSharedRunStep DEF SharedInv
  <1>3. SharedInv => OneSharedRun
    BY DEF SharedInv
  <1>4. QED
    BY <1>1, <1>2, <1>3, TypeCorrect, PTL DEF Spec

-----------------------------------------------------------------------------
(* The platform Observable, with its call stack and its abort bridge,       *)
(* implements ObservableLifecycle, for any values of the constants.         *)
(*                                                                         *)
(* What is owed lies on the stack, in the frames of error() and complete(). *)
(* A run ends once, so that no two of those frames are of one Subscriber,   *)
(* an observer belongs to one Subscriber, and is in one of them at most.    *)

Ends == {"error", "complete"}

(* What the frames of error() and complete() among those of q have to tell. *)
OwedBy(q) == UNION {f.rest : f \in {g \in Members(q) : g.op \in Ends}}

(* No frame of q is the end of the Subscriber s. *)
EndsNot(s, q) == \A g \in Members(q) : g.op \in Ends => g.s # s

(* No two frames are the end of one Subscriber. *)
EndsDiffer(q) ==
  \A i, j \in DOMAIN q :
    i < j /\ q[i].op \in Ends /\ q[j].op \in Ends => q[i].s # q[j].s

(* An observer is in the list of the Subscriber it was added to only. *)
ListsAreHomes == \A s \in Subs : \A o \in list[s] : home[o] = s

(* Who has been told of an end belongs to a closed Subscriber. *)
ToldAreOver ==
  \A o \in Observers : terminals[o] > 0 => home[o] \in Subs /\ phase[home[o]] = "closed"

(* Those that a frame has yet to tell are of its Subscriber, and untold. *)
Untold(f) == f.op \in Ends => \A o \in f.rest : home[o] = f.s /\ terminals[o] = 0

FramesUntold == \A f \in Members(stack) : Untold(f)

EndsInv == ListsAreHomes /\ ToldAreOver /\ FramesUntold /\ EndsDiffer(stack)

-----------------------------------------------------------------------------
(* What the stack operators do to OwedBy and EndsDiffer. *)

LEMMA OwedMember ==
  ASSUME NEW q, NEW o
  PROVE  o \in OwedBy(q) <=> \E f \in Members(q) : f.op \in Ends /\ o \in f.rest
  BY DEF OwedBy

LEMMA OwedPush ==
  ASSUME NEW S, NEW f \in S, NEW q \in Seq(S)
  PROVE  OwedBy(<<f>> \o q) = (IF f.op \in Ends THEN f.rest ELSE {}) \cup OwedBy(q)
  <1>1. \A m : m \in Members(<<f>> \o q) <=> m = f \/ m \in Members(q)
    BY PushMembers
  <1>2. \A o : o \in OwedBy(<<f>> \o q) <=> (f.op \in Ends /\ o \in f.rest) \/ o \in OwedBy(q)
    BY <1>1, OwedMember
  <1>3. QED
    BY <1>2

LEMMA OwedPushOther ==
  ASSUME NEW S, NEW f \in S, NEW q \in Seq(S), f.op \notin Ends
  PROVE  OwedBy(<<f>> \o q) = OwedBy(q)
  <1>1. \A m : m \in Members(<<f>> \o q) <=> m = f \/ m \in Members(q)
    BY PushMembers
  <1>2. \A o : o \in OwedBy(<<f>> \o q) <=> o \in OwedBy(q)
    BY <1>1, OwedMember
  <1>3. QED
    BY <1>2

LEMMA Decompose ==
  ASSUME NEW S, NEW q \in Seq(S), q # <<>>
  PROVE  q = <<Head(q)>> \o Tail(q)
  OBVIOUS

LEMMA OwedPop ==
  ASSUME NEW S, NEW q \in Seq(S), q # <<>>
  PROVE  OwedBy(q) = (IF Head(q).op \in Ends THEN Head(q).rest ELSE {})
                       \cup OwedBy(Tail(q))
  <1>1. Head(q) \in S /\ Tail(q) \in Seq(S) /\ q = <<Head(q)>> \o Tail(q)
    BY PopStack, Decompose
  <1> DEFINE h == Head(q)
             t == Tail(q)
  <1>2. h \in S /\ t \in Seq(S) /\ q = <<h>> \o t
    BY <1>1
  <1> HIDE DEF h, t
  <1>3. OwedBy(q) = (IF h.op \in Ends THEN h.rest ELSE {}) \cup OwedBy(t)
    BY <1>2, OwedPush
  <1>4. QED
    BY <1>3 DEF h, t

LEMMA DifferPush ==
  ASSUME NEW S, NEW f \in S, NEW q \in Seq(S), EndsDiffer(q),
         f.op \in Ends => EndsNot(f.s, q)
  PROVE  EndsDiffer(<<f>> \o q)
  <1> DEFINE r == <<f>> \o q
  <1>1. /\ DOMAIN r = 1 .. Len(q) + 1
        /\ DOMAIN q = 1 .. Len(q)
        /\ Len(q) \in Nat
        /\ r[1] = f
        /\ \A i \in 1 .. Len(q) : r[i + 1] = q[i]
    BY PushStack
  <1> HIDE DEF r
  <1>2. SUFFICES ASSUME NEW i \in 1 .. Len(q) + 1, NEW j \in 1 .. Len(q) + 1, i < j,
                        r[i].op \in Ends, r[j].op \in Ends
                 PROVE  r[i].s # r[j].s
    BY <1>1 DEF EndsDiffer, r
  <1>3. j - 1 \in 1 .. Len(q) /\ r[j] = q[j - 1]
    <2>1. j - 1 \in 1 .. Len(q) /\ (j - 1) + 1 = j
      BY <1>1, <1>2
    <2>2. QED
      BY <1>1, <2>1
  <1>4. CASE i = 1
    BY <1>1, <1>2, <1>3, <1>4 DEF EndsNot, Members
  <1>5. CASE i # 1
    <2>1. i - 1 \in 1 .. Len(q) /\ (i - 1) + 1 = i /\ i - 1 < j - 1
      BY <1>1, <1>2, <1>5
    <2>2. r[i] = q[i - 1]
      BY <1>1, <2>1
    <2>3. QED
      BY <1>1, <1>2, <1>3, <2>1, <2>2 DEF EndsDiffer
  <1>6. QED
    BY <1>4, <1>5

LEMMA DifferPop ==
  ASSUME NEW S, NEW q \in Seq(S), q # <<>>, EndsDiffer(q)
  PROVE  /\ EndsDiffer(Tail(q))
         /\ Head(q).op \in Ends => EndsNot(Head(q).s, Tail(q))
  <1>1. /\ DOMAIN Tail(q) = 1 .. Len(q) - 1
        /\ DOMAIN q = 1 .. Len(q)
        /\ Len(q) \in Nat \ {0}
        /\ Head(q) = q[1]
        /\ \A i \in 1 .. Len(q) - 1 : Tail(q)[i] = q[i + 1]
    BY PopStack
  <1>2. \A i \in 1 .. Len(q) - 1 : i + 1 \in 1 .. Len(q) /\ 1 < i + 1
    BY <1>1
  <1>3. \A i, j \in 1 .. Len(q) - 1 : i < j => i + 1 < j + 1
    BY <1>1
  <1>4. EndsDiffer(Tail(q))
    BY <1>1, <1>2, <1>3 DEF EndsDiffer
  <1>5. 1 \in 1 .. Len(q)
    BY <1>1
  <1>6. ASSUME Head(q).op \in Ends, NEW g \in Members(Tail(q)), g.op \in Ends
        PROVE  g.s # Head(q).s
    <2>1. PICK i \in 1 .. Len(q) - 1 : g = q[i + 1]
      BY <1>1 DEF Members
    <2>2. QED
      BY <1>1, <1>2, <1>5, <1>6, <2>1 DEF EndsDiffer
  <1>7. QED
    BY <1>4, <1>6 DEF EndsNot

-----------------------------------------------------------------------------
(* Most steps leave what is owed alone: their frames are not of error() or  *)
(* complete(), or are one of those that goes on.                            *)

Quiet ==
  /\ OwedBy(stack') = OwedBy(stack)
  /\ EndsDiffer(stack) => EndsDiffer(stack')
  /\ \A f \in Members(stack') : f.op \in Ends =>
       \E g \in Members(stack) : g.op \in Ends /\ g.s = f.s /\ f.rest \subseteq g.rest

LEMMA QuietPush ==
  ASSUME TypeOK, NEW f \in Frame, f.op \notin Ends, stack' = <<f>> \o stack
  PROVE  Quiet
  <1>1. stack \in Seq(Frame)
    BY DEF TypeOK
  <1>2. OwedBy(stack') = OwedBy(stack)
    BY <1>1, OwedPushOther
  <1>3. EndsDiffer(stack) => EndsDiffer(stack')
    BY <1>1, DifferPush
  <1>4. Members(stack') = {f} \cup Members(stack)
    BY <1>1, PushMembers
  <1>5. QED
    BY <1>2, <1>3, <1>4 DEF Quiet

LEMMA QuietPop ==
  ASSUME TypeOK, stack # <<>>, stack' = Tail(stack), Top.op \in Ends => Top.rest = {}
  PROVE  Quiet
  <1>1. stack \in Seq(Frame)
    BY DEF TypeOK
  <1>2. OwedBy(stack) = OwedBy(stack')
    BY <1>1, OwedPop DEF Top
  <1>3. EndsDiffer(stack) => EndsDiffer(stack')
    BY <1>1, DifferPop
  <1>4. Members(stack') \subseteq Members(stack)
    BY <1>1, PopMembers
  <1>5. QED
    BY <1>2, <1>3, <1>4 DEF Quiet

LEMMA QuietReplace ==
  ASSUME TypeOK, stack # <<>>, NEW f \in Frame, stack' = <<f>> \o Tail(stack),
         f.op \in Ends <=> Top.op \in Ends,
         f.op \in Ends => f.s = Top.s /\ f.rest = Top.rest
  PROVE  Quiet
  <1> DEFINE t == Tail(stack)
  <1>1. /\ stack \in Seq(Frame)
        /\ t \in Seq(Frame)
        /\ Top \in Members(stack)
        /\ Members(t) \subseteq Members(stack)
    BY PopStack, PopMembers DEF TypeOK, Top
  <1>2. OwedBy(stack) = (IF Top.op \in Ends THEN Top.rest ELSE {}) \cup OwedBy(t)
    BY <1>1, OwedPop DEF Top
  <1>3. EndsDiffer(stack) =>
          EndsDiffer(t) /\ (Top.op \in Ends => EndsNot(Top.s, t))
    BY <1>1, DifferPop DEF Top
  <1>4. stack' = <<f>> \o t
    OBVIOUS
  <1> HIDE DEF t
  <1>5. OwedBy(stack') = OwedBy(stack)
    <2>1. OwedBy(<<f>> \o t) = (IF f.op \in Ends THEN f.rest ELSE {}) \cup OwedBy(t)
      BY <1>1, OwedPush
    <2>2. QED
      BY <1>2, <1>4, <2>1
  <1>6. EndsDiffer(stack) => EndsDiffer(stack')
    BY <1>1, <1>3, <1>4, DifferPush
  <1>7. Members(stack') = {f} \cup Members(t)
    BY <1>1, <1>4, PushMembers
  <1>8. QED
    BY <1>1, <1>5, <1>6, <1>7 DEF Quiet

LEMMA PushTwo ==
  ASSUME NEW S, NEW f \in S, NEW g \in S, NEW q \in Seq(S)
  PROVE  <<f, g>> \o q = <<f>> \o (<<g>> \o q)
  <1> DEFINE u == <<f, g>> \o q
             v == <<f>> \o (<<g>> \o q)
  <1>1. /\ u \in Seq(S)
        /\ Len(u) = Len(q) + 2
        /\ u[1] = f
        /\ u[2] = g
        /\ \A i \in 1 .. Len(q) : u[i + 2] = q[i]
    OBVIOUS
  <1>2. /\ v \in Seq(S)
        /\ Len(v) = Len(q) + 2
        /\ v[1] = f
        /\ v[2] = g
        /\ \A i \in 1 .. Len(q) : v[i + 2] = q[i]
    OBVIOUS
  <1> HIDE DEF u, v
  <1>3. ASSUME NEW i \in 1 .. Len(u) PROVE u[i] = v[i]
    <2>1. i = 1 \/ i = 2 \/ (i - 2 \in 1 .. Len(q) /\ i = (i - 2) + 2)
      BY <1>1
    <2>2. QED
      BY <1>1, <1>2, <2>1
  <1>4. u = v
    BY <1>1, <1>2, <1>3
  <1>5. QED
    BY <1>4 DEF u, v

LEMMA OwedPushTwo ==
  ASSUME NEW S, NEW f \in S, NEW g \in S, NEW q \in Seq(S), f.op \notin Ends
  PROVE  OwedBy(<<f, g>> \o q) = (IF g.op \in Ends THEN g.rest ELSE {}) \cup OwedBy(q)
  <1>1. \A m : m \in Members(<<f, g>> \o q) <=> m = f \/ m = g \/ m \in Members(q)
    BY PushTwoMembers
  <1>2. \A o : o \in OwedBy(<<f, g>> \o q) <=>
                 (g.op \in Ends /\ o \in g.rest) \/ o \in OwedBy(q)
    BY <1>1, OwedMember
  <1>3. QED
    BY <1>2

LEMMA OwedPushTwoOthers ==
  ASSUME NEW S, NEW f \in S, NEW g \in S, NEW q \in Seq(S), f.op \notin Ends,
         g.op \notin Ends
  PROVE  OwedBy(<<f, g>> \o q) = OwedBy(q)
  <1>1. \A m : m \in Members(<<f, g>> \o q) <=> m = f \/ m = g \/ m \in Members(q)
    BY PushTwoMembers
  <1>2. \A o : o \in OwedBy(<<f, g>> \o q) <=> o \in OwedBy(q)
    BY <1>1, OwedMember
  <1>3. QED
    BY <1>2

LEMMA DifferPushTwo ==
  ASSUME NEW S, NEW f \in S, NEW g \in S, NEW q \in Seq(S), f.op \notin Ends,
         EndsDiffer(q), g.op \in Ends => EndsNot(g.s, q)
  PROVE  EndsDiffer(<<f, g>> \o q)
  <1> DEFINE r == <<g>> \o q
  <1>1. r \in Seq(S)
    BY PushStack
  <1>2. EndsDiffer(r)
    BY DifferPush
  <1>3. <<f, g>> \o q = <<f>> \o r
    BY PushTwo
  <1> HIDE DEF r
  <1>4. EndsDiffer(<<f>> \o r)
    BY <1>1, <1>2, DifferPush
  <1>5. QED
    BY <1>3, <1>4

LEMMA QuietPushTwo ==
  ASSUME TypeOK, stack # <<>>, Top.op \notin Ends,
         NEW f \in Frame, NEW g \in Frame, f.op \notin Ends, g.op \notin Ends,
         stack' = <<f, g>> \o Tail(stack)
  PROVE  Quiet
  <1> DEFINE t == Tail(stack)
             p == <<f, g>> \o t
  <1>1. stack \in Seq(Frame) /\ t \in Seq(Frame) /\ Members(t) \subseteq Members(stack)
    BY PopStack, PopMembers DEF TypeOK
  <1>2. OwedBy(stack) = OwedBy(t)
    BY <1>1, OwedPop DEF Top
  <1>3. EndsDiffer(stack) => EndsDiffer(t)
    BY <1>1, DifferPop
  <1>4. stack' = p
    OBVIOUS
  <1> HIDE DEF t
  <1>5. OwedBy(p) = OwedBy(t)
    BY <1>1, OwedPushTwoOthers
  <1>6. EndsDiffer(t) => EndsDiffer(p)
    BY <1>1, DifferPushTwo
  <1>7. Members(p) = {f, g} \cup Members(t)
    BY <1>1, PushTwoMembers
  <1> HIDE DEF p
  <1>8. QED
    BY <1>1, <1>2, <1>3, <1>4, <1>5, <1>6, <1>7 DEF Quiet

(* The steps that are not quiet: an end, one observer told of it, and the   *)
(* close of a Subscriber, which may take the end away.                      *)
Ending == (\E s \in Subs : CallError(s) \/ CallComplete(s)) \/ InitThrows

Telling == \E op \in Ends, o \in Observers : Deliver(op, o)

LEMMA QuietStep ==
  ASSUME TypeOK, [Next]_vars, ~Ending, ~Telling, ~CloseDone
  PROVE  Quiet
  <1> USE ConstantsOK
  <1>1. ASSUME stack' = stack PROVE Quiet
    BY <1>1 DEF Quiet
  <1>2. CASE UNCHANGED vars
    BY <1>1, <1>2 DEF vars
  <1>3. CASE \/ \E o \in Observers, c \in Controllers \cup {NoCtl} : SubscribeJoin(o, c)
             \/ \E s \in Subs, t \in Teardowns : AddTeardown(s, t)
             \/ \E s \in Subs : Collect(s)
    BY <1>1, <1>3 DEF SubscribeJoin, AddTeardown, Collect
  (* A new frame. *)
  <1>4. ASSUME NEW s \in Subs, NEW op \in {"init", "late"},
               stack' = <<SubFrame(op, s, {}, "call")>> \o stack
        PROVE  Quiet
    <2> DEFINE f == SubFrame(op, s, {}, "call")
    <2>1. f \in Frame /\ f.op \notin Ends
      BY SubFrameType DEF SubOps, SubFrame, Ends
    <2>2. stack' = <<f>> \o stack
      BY <1>4
    <2> HIDE DEF f
    <2>3. QED
      BY <2>1, <2>2, QuietPush
  <1>5. CASE \/ \E o \in Observers, c \in Controllers \cup {NoCtl}, s \in Subs :
                  SubscribeStart(o, c, s)
             \/ \E s \in Subs, c \in Controllers : SubscribeAborted(c, s)
             \/ \E s \in Subs, t \in Teardowns : AddTeardownLate(s, t)
    BY <1>4, <1>5 DEF SubscribeStart, SubscribeAborted, AddTeardownLate, Push
  <1>6. ASSUME NEW s \in Subs, CallNext(s) PROVE Quiet
    <2> DEFINE f == SubFrame("next", s, list[s], "run")
    <2>1. f \in Frame /\ f.op \notin Ends
      BY SubFrameType DEF SubOps, SubFrame, Ends, TypeOK
    <2>2. stack' = <<f>> \o stack
      BY <1>6 DEF CallNext, Push
    <2> HIDE DEF f
    <2>3. QED
      BY <2>1, <2>2, QuietPush
  <1>7. ASSUME NEW c \in Controllers, CallAbort(c) PROVE Quiet
    <2> DEFINE f == AbortFrame(c, Armed(c))
    <2>1. f \in Frame /\ f.op \notin Ends
      BY AbortFrameType DEF AbortFrame, Armed, Ends
    <2>2. stack' = <<f>> \o stack
      BY <1>7 DEF CallAbort, Push
    <2> HIDE DEF f
    <2>3. QED
      BY <2>1, <2>2, QuietPush
  (* The innermost frame goes on. *)
  <1>8. CASE \E o \in Observers : Deliver("next", o)
    <2>1. PICK o \in Observers : Deliver("next", o)
      BY <1>8
    <2> DEFINE f == [Top EXCEPT !.rest = @ \ {o}, !.at = "call"]
    <2>2. stack # <<>> /\ Top.op = "next" /\ stack' = <<f>> \o Tail(stack)
      BY <2>1 DEF Deliver, LibTurn, Replace
    <2>3. Top \in Frame
      BY <2>2, TopFrameType
    <2>4. f \in Frame /\ f.op = Top.op
      BY <2>3 DEF Frame, CallFrame, SignalFrame
    <2> HIDE DEF f
    <2>5. QED
      BY <2>2, <2>4, QuietReplace DEF Ends
  <1>9. ASSUME NEW op \in {"abort", "dispatch"}, NEW o \in Observers,
               RemoveObserver(op, o)
        PROVE  Quiet
    <2> DEFINE s == home[o]
               f == [Top EXCEPT !.rest = @ \ {o}]
               g == SubFrame("algorithms", s, {}, "call")
    <2>1. stack # <<>> /\ Top.op \notin Ends
      BY <1>9 DEF RemoveObserver, LibTurn, Ends
    <2>2. Top \in Frame
      BY <2>1, TopFrameType
    <2>3. f \in Frame /\ f.op = Top.op
      BY <2>2 DEF Frame, CallFrame, SignalFrame
    <2>4. CASE IsLast(s, o)
      <3>1. s \in Subs /\ stack' = <<g, f>> \o Tail(stack)
        BY <1>9, <2>4 DEF RemoveObserver, IsLast, Open
      <3>2. g \in Frame /\ g.op \notin Ends
        BY <3>1, SubFrameType DEF SubOps, SubFrame, Ends
      <3> HIDE DEF f, g
      <3>3. QED
        BY <2>1, <2>3, <3>1, <3>2, QuietPushTwo
    <2>5. CASE ~IsLast(s, o)
      <3>1. stack' = <<f>> \o Tail(stack)
        BY <1>9, <2>5 DEF RemoveObserver, Replace
      <3> HIDE DEF f
      <3>2. QED
        BY <2>1, <2>3, <3>1, QuietReplace
    <2>6. QED
      BY <2>4, <2>5
  <1>10. CASE NativeAbort
    <2> DEFINE f == [Top EXCEPT !.op = "dispatch", !.rest = ListenersOf(Top.c),
                                !.at = "call"]
    <2>1. stack # <<>> /\ (stack' = Tail(stack) \/ stack' = <<f>> \o Tail(stack))
            /\ Top.op \notin Ends
      BY <1>10 DEF NativeAbort, LibTurn, Replace, Pop, Ends
    <2>2. f \in Frame
      BY <1>10, SignalFrameType DEF NativeAbort, LibTurn, ListenersOf, Armed
    <2>3. f.op \notin Ends
      <3>1. Top \in Frame
        BY <2>1, TopFrameType
      <3>2. QED
        BY <3>1 DEF Frame, CallFrame, SignalFrame, Ends
    <2> HIDE DEF f
    <2>4. QED
      BY <2>1, <2>2, <2>3, QuietPop, QuietReplace
  <1>11. CASE NextListener \/ RunTeardown \/ ReturnToLoop
    <2>1. PICK at \in {"run", "call"} :
            stack # <<>> /\ stack' = <<[Top EXCEPT !.at = at]>> \o Tail(stack)
      BY <1>11
      DEF NextListener, RunTeardown, ReturnToLoop, LibTurn, Returning, Replace
    <2> DEFINE f == [Top EXCEPT !.at = at]
    <2>2. f \in Frame /\ f.op = Top.op /\ f.s = Top.s /\ f.rest = Top.rest
      BY <2>1, TopFrameType DEF Frame, CallFrame, SignalFrame
    <2>3. stack' = <<f>> \o Tail(stack)
      BY <2>1
    <2> HIDE DEF f
    <2>4. QED
      BY <2>1, <2>2, <2>3, QuietReplace
  <1>12. CASE AbortDone \/ ReturnFromCall
                \/ \E op \in {"next", "error", "complete"} : Delivered(op)
    BY <1>12, QuietPop
    DEF AbortDone, ReturnFromCall, Delivered, LibTurn, Returning, Pop, Ends
  <1>13. ASSUME NEW throws \in BOOLEAN, AlgorithmsDone(throws) PROVE Quiet
    <2> DEFINE f == [Top EXCEPT !.op = "event", !.thrown = throws]
    <2>1. stack # <<>> /\ stack' = <<f>> \o Tail(stack) /\ Top.op = "algorithms"
      BY <1>13 DEF AlgorithmsDone, Returning, Replace
    <2>2. Top \in CallFrame
      BY <2>1, CallFrameType DEF SubOps
    <2>3. f \in Frame /\ f.op = "event"
      BY <2>2 DEF Frame, CallFrame, SubOps
    <2> HIDE DEF f
    <2>4. QED
      BY <2>1, <2>3, QuietReplace DEF Ends
  <1>14. CASE EventDone
    <2> DEFINE tds == LastFirst(teardowns[Top.s])
               f   == [Top EXCEPT !.op = "teardown", !.at = "run", !.tds = tds]
    <2>1. stack # <<>> /\ stack' = <<f>> \o Tail(stack) /\ Top.op = "event"
      BY <1>14 DEF EventDone, Returning, Replace
    <2>2. Top \in CallFrame
      BY <2>1, CallFrameType DEF SubOps
    <2>3. tds \in Seq(Teardowns)
      BY <2>2, LastFirstType DEF CallFrame, TypeOK
    <2> HIDE DEF tds
    <2>4. f \in Frame /\ f.op = "teardown"
      BY <2>2, <2>3 DEF Frame, CallFrame, SubOps
    <2> HIDE DEF f
    <2>5. QED
      BY <2>1, <2>4, QuietReplace DEF Ends
  <1>15. ASSUME NEW throws \in BOOLEAN, TeardownDone(throws) PROVE Quiet
    <2> DEFINE f == [Top EXCEPT !.at = "run", !.tds = Tail(@),
                                !.thrown = @ \/ throws]
    <2>1. stack # <<>> /\ stack' = <<f>> \o Tail(stack) /\ Top.op = "teardown"
            /\ Top.tds # <<>>
      BY <1>15 DEF TeardownDone, Returning, Replace
    <2>2. Top \in CallFrame /\ Tail(Top.tds) \in Seq(Teardowns)
      BY <2>1, CallFrameType, PopStack DEF SubOps
    <2>3. f \in Frame /\ f.op = "teardown"
      BY <2>1, <2>2 DEF Frame, CallFrame, SubOps
    <2> HIDE DEF f
    <2>4. QED
      BY <2>1, <2>3, QuietReplace DEF Ends
  <1>16. QED
    BY <1>2, <1>3, <1>5, <1>6, <1>7, <1>8, <1>9, <1>10, <1>11, <1>12, <1>13,
       <1>14, <1>15
    DEF Next, UserCall, LibraryStep, CallbackEnds, Ending, Telling, Ends

-----------------------------------------------------------------------------
(* The steps that are not quiet. *)

(* error() and complete() push the close of a Subscriber, and below it the  *)
(* frame that will tell its observers: the first such frame of that one.    *)
LEMMA TerminateFrames ==
  ASSUME TypeOK, ClosingFramesClosed, NEW s \in Subs, Open(s), NEW op \in Ends,
         NEW below \in Seq(Frame), Members(below) \subseteq Members(stack),
         Terminate(op, s, below)
  PROVE  /\ OwedBy(stack') = list[s] \cup OwedBy(below)
         /\ EndsDiffer(below) => EndsDiffer(stack')
         /\ \A f \in Members(stack') : f.op \in Ends =>
              (f.s = s /\ f.rest = list[s]) \/ f \in Members(stack)
  <1> DEFINE f == SubFrame("algorithms", s, {}, "call")
             g == SubFrame(op, s, list[s], "run")
             p == <<f, g>> \o below
  <1>1. /\ f \in Frame /\ f.op \notin Ends
        /\ g \in Frame /\ g.op \in Ends /\ g.s = s /\ g.rest = list[s]
    BY SubFrameType DEF SubOps, SubFrame, Ends, TypeOK
  <1>2. stack' = p
    BY DEF Terminate
  <1>3. EndsNot(s, below)
    <2>1. ASSUME NEW h \in Members(below), h.op \in Ends PROVE h.s # s
      BY <2>1 DEF ClosingFramesClosed, ClosedFrame, Closing, Ends, Open
    <2>2. QED
      BY <2>1 DEF EndsNot
  <1> HIDE DEF f, g
  <1>4. OwedBy(p) = list[s] \cup OwedBy(below)
    BY <1>1, OwedPushTwo
  <1>5. EndsDiffer(below) => EndsDiffer(p)
    BY <1>1, <1>3, DifferPushTwo
  <1>6. Members(p) = {f, g} \cup Members(below)
    BY <1>1, PushTwoMembers
  <1> HIDE DEF p
  <1>7. QED
    BY <1>1, <1>2, <1>4, <1>5, <1>6

LEMMA EndingStep ==
  ASSUME TypeOK, ClosingFramesClosed, EndsDiffer(stack), Ending
  PROVE  \E s \in Subs :
           /\ Open(s)
           /\ phase' = [phase EXCEPT ![s] = "closed"]
           /\ UNCHANGED <<slot, list, home, terminals>>
           /\ OwedBy(stack') = list[s] \cup OwedBy(stack)
           /\ EndsDiffer(stack')
           /\ \A f \in Members(stack') : f.op \in Ends =>
                (f.s = s /\ f.rest = list[s]) \/ f \in Members(stack)
  <1>1. stack \in Seq(Frame)
    BY DEF TypeOK
  <1>2. ASSUME NEW s \in Subs, CallError(s) \/ CallComplete(s)
        PROVE  /\ Open(s)
               /\ phase' = [phase EXCEPT ![s] = "closed"]
               /\ UNCHANGED <<slot, list, home, terminals>>
               /\ OwedBy(stack') = list[s] \cup OwedBy(stack)
               /\ EndsDiffer(stack')
               /\ \A f \in Members(stack') : f.op \in Ends =>
                    (f.s = s /\ f.rest = list[s]) \/ f \in Members(stack)
    <2>1. PICK op \in Ends : Open(s) /\ Terminate(op, s, stack)
      BY <1>2 DEF CallError, CallComplete, Ends
    <2>2. /\ OwedBy(stack') = list[s] \cup OwedBy(stack)
          /\ EndsDiffer(stack')
          /\ \A f \in Members(stack') : f.op \in Ends =>
               (f.s = s /\ f.rest = list[s]) \/ f \in Members(stack)
      BY <1>1, <2>1, TerminateFrames
    <2>3. QED
      BY <1>2, <2>1, <2>2 DEF CallError, CallComplete, Terminate
  <1>3. CASE InitThrows
    <2> DEFINE s == Top.s
               t == Tail(stack)
    <2>1. /\ stack # <<>> /\ Top.op = "init" /\ s \in Subs /\ Open(s)
          /\ Terminate("error", s, t)
      BY <1>3 DEF InitThrows, Returning, Open
    <2>2. /\ t \in Seq(Frame)
          /\ Members(t) \subseteq Members(stack)
          /\ EndsDiffer(t)
      BY <1>1, <2>1, PopStack, PopMembers, DifferPop
    <2>3. OwedBy(stack) = OwedBy(t)
      BY <1>1, <2>1, OwedPop DEF Top, Ends
    <2>4. phase' = [phase EXCEPT ![s] = "closed"] /\ UNCHANGED <<slot, list, home, terminals>>
      BY <1>3 DEF InitThrows, Terminate
    <2> HIDE DEF s, t
    <2>5. /\ OwedBy(stack') = list[s] \cup OwedBy(t)
          /\ EndsDiffer(stack')
          /\ \A f \in Members(stack') : f.op \in Ends =>
               (f.s = s /\ f.rest = list[s]) \/ f \in Members(stack)
      BY <2>1, <2>2, TerminateFrames DEF Ends
    <2>6. QED
      BY <2>1, <2>3, <2>4, <2>5
  <1>4. QED
    BY <1>2, <1>3 DEF Ending

(* An observer that is told of the end is owed it by this frame alone. *)
LEMMA TellingStep ==
  ASSUME TypeOK, ClosingFramesClosed, FramesUntold, EndsDiffer(stack),
         NEW op \in Ends, NEW o \in Observers, Deliver(op, o)
  PROVE  /\ o \in OwedBy(stack)
         /\ OwedBy(stack') = OwedBy(stack) \ {o}
         /\ terminals[o] = 0
         /\ terminals' = [terminals EXCEPT ![o] = 1]
         /\ home[o] \in Subs /\ phase[home[o]] = "closed"
         /\ UNCHANGED <<slot, phase, list, home>>
         /\ EndsDiffer(stack')
         /\ \A f \in Members(stack') : f.op \in Ends =>
              \E g \in Members(stack) :
                g.op \in Ends /\ g.s = f.s /\ f.rest \subseteq g.rest \ {o}
  <1> DEFINE t == Tail(stack)
             f == [Top EXCEPT !.rest = @ \ {o}, !.at = "call"]
  <1>1. stack # <<>> /\ Top.op \in Ends /\ o \in Top.rest /\ stack' = <<f>> \o t
    BY DEF Deliver, LibTurn, Replace
  <1>2. Top \in CallFrame
    BY <1>1, CallFrameType DEF SubOps, Ends
  <1>3. f \in Frame /\ f.op = Top.op /\ f.s = Top.s /\ f.rest = Top.rest \ {o}
    BY <1>2 DEF Frame, CallFrame
  <1>4. stack \in Seq(Frame) /\ t \in Seq(Frame)
          /\ Top \in Members(stack) /\ Members(t) \subseteq Members(stack)
    BY <1>1, PopStack, PopMembers DEF TypeOK, Top
  <1>5. home[o] = Top.s /\ terminals[o] = 0
    BY <1>1, <1>4 DEF FramesUntold, Untold
  <1>6. home[o] \in Subs /\ phase[home[o]] = "closed"
    BY <1>1, <1>2, <1>4, <1>5
    DEF ClosingFramesClosed, ClosedFrame, Closing, Ends, CallFrame
  <1>7. EndsDiffer(t) /\ EndsNot(Top.s, t)
    BY <1>1, <1>4, DifferPop DEF Top
  <1>8. OwedBy(stack) = Top.rest \cup OwedBy(t)
    BY <1>1, <1>4, OwedPop DEF Top
  <1> HIDE DEF f, t
  <1>9. o \notin OwedBy(t)
    <2>1. ASSUME NEW g \in Members(t), g.op \in Ends, o \in g.rest PROVE FALSE
      BY <1>4, <1>5, <1>7, <2>1 DEF FramesUntold, Untold, EndsNot
    <2>2. QED
      BY <2>1, OwedMember
  <1>10. OwedBy(<<f>> \o t) = f.rest \cup OwedBy(t)
    BY <1>1, <1>3, <1>4, OwedPush
  <1>11. EndsDiffer(<<f>> \o t)
    BY <1>3, <1>4, <1>7, DifferPush
  <1>12. Members(<<f>> \o t) = {f} \cup Members(t)
    BY <1>3, <1>4, PushMembers
  <1>13. ASSUME NEW h \in Members(t), h.op \in Ends
         PROVE  h.rest \subseteq h.rest \ {o}
    BY <1>9, <1>13, OwedMember
  <1>14. \A h \in Members(stack') : h.op \in Ends =>
           \E g \in Members(stack) :
             g.op \in Ends /\ g.s = h.s /\ h.rest \subseteq g.rest \ {o}
    BY <1>1, <1>3, <1>4, <1>12, <1>13
  <1>15. terminals' = [terminals EXCEPT ![o] = 1] /\ UNCHANGED <<slot, phase, list, home>>
    BY <1>5 DEF Deliver, Ends
  <1>16. OwedBy(stack') = OwedBy(stack) \ {o}
    BY <1>1, <1>3, <1>8, <1>9, <1>10
  <1>17. QED
    BY <1>1, <1>5, <1>6, <1>8, <1>11, <1>14, <1>15, <1>16

LEMMA TailNotEmpty ==
  ASSUME NEW S, NEW q \in Seq(S), Len(q) > 1
  PROVE  Tail(q) # <<>>
  <1> DEFINE n == Len(q)
             m == Len(Tail(q))
  <1>1. n \in Nat /\ n > 1 /\ m = n - 1
    BY PopStack
  <1> HIDE DEF n, m
  <1>2. m # 0
    BY <1>1
  <1>3. Len(<<>>) = 0
    OBVIOUS
  <1>4. QED
    BY <1>2, <1>3 DEF m

(* The end of closeSubscriber() drops frames, perhaps one that owed an end. *)
LEMMA CloseDoneStep ==
  ASSUME TypeOK, EndsDiffer(stack), CloseDone
  PROVE  /\ OwedBy(stack') \subseteq OwedBy(stack)
         /\ EndsDiffer(stack')
         /\ Members(stack') \subseteq Members(stack)
         /\ UNCHANGED <<slot, phase, list, home, terminals>>
  <1> DEFINE t == Tail(stack)
  <1>1. stack # <<>> /\ stack \in Seq(Frame)
    BY DEF CloseDone, LibTurn, TypeOK
  <1>2. t \in Seq(Frame) /\ Len(t) = Len(stack) - 1 /\ Len(stack) \in Nat
    BY <1>1, PopStack
  <1>3. Members(t) \subseteq Members(stack) /\ EndsDiffer(t)
    BY <1>1, PopMembers, DifferPop
  <1>4. stack' = t \/ (t # <<>> /\ stack' = Tail(t))
    <2>1. ASSUME Len(stack) > 1 PROVE t # <<>>
      BY <1>1, <2>1, TailNotEmpty
    <2> HIDE DEF t
    <2>2. stack' = Tail(stack) \/ (Len(stack) > 1 /\ stack' = Tail(Tail(stack)))
      BY DEF CloseDone, CalledBy
    <2>3. QED
      BY <2>1, <2>2 DEF t
  <1> HIDE DEF t
  <1>5. EndsDiffer(stack') /\ Members(stack') \subseteq Members(stack)
    BY <1>2, <1>3, <1>4, PopMembers, DifferPop
  <1>6. \A o : o \in OwedBy(stack') => o \in OwedBy(stack)
    BY <1>5, OwedMember
  <1>7. QED
    BY <1>5, <1>6 DEF CloseDone

-----------------------------------------------------------------------------
(* EndsInv is an invariant. *)

(* An observer never changes the Subscriber it was added to. *)
LEMMA HomeForever ==
  ASSUME TypeOK, [Next]_vars, NEW o \in Observers, home[o] \in Subs
  PROVE  home'[o] = home[o]
  <1> USE ConstantsOK
  <1>1. CASE UNCHANGED vars
    BY <1>1 DEF vars
  <1>2. CASE \/ \E p \in Observers, c \in Controllers \cup {NoCtl} :
                  \/ SubscribeJoin(p, c)
                  \/ \E s \in Subs : SubscribeStart(p, c, s)
    BY <1>2 DEF TypeOK, SubscribeJoin, SubscribeStart
  <1>3. CASE Next /\ ~\E p \in Observers, c \in Controllers \cup {NoCtl} :
                         \/ SubscribeJoin(p, c)
                         \/ \E s \in Subs : SubscribeStart(p, c, s)
    <2>1. UNCHANGED home
      BY <1>3 DEF Next, UserCall, LibraryStep, CallbackEnds, SubscribeAborted, CallNext,
        CallError, CallComplete, AddTeardown, AddTeardownLate, CallAbort, Deliver, Delivered,
        RemoveObserver, NativeAbort, NextListener, AbortDone, RunTeardown, CloseDone,
        ReturnToLoop, ReturnFromCall, InitThrows, AlgorithmsDone, EventDone, TeardownDone,
        Collect
    <2>2. QED
      BY <2>1
  <1>4. QED
    BY <1>1, <1>2, <1>3

(* Only error() and complete() tell of an end. *)
LEMMA OnlyTellingTells ==
  ASSUME [Next]_vars, ~Telling
  PROVE  UNCHANGED terminals
  <1>1. CASE UNCHANGED vars
    BY <1>1 DEF vars
  <1>2. CASE Next
    <2>1. ASSUME NEW op \in {"next", "error", "complete"}, NEW o \in Observers,
                 Deliver(op, o)
          PROVE  UNCHANGED terminals
      BY <2>1 DEF Deliver, Telling, Ends
    <2>2. QED
      BY <1>2, <2>1 DEF Next, UserCall, LibraryStep, CallbackEnds, SubscribeJoin,
        SubscribeStart, SubscribeAborted, CallNext, CallError, CallComplete,
        AddTeardown, AddTeardownLate, CallAbort, Delivered,
        RemoveObserver, NativeAbort, NextListener, AbortDone,
        RunTeardown, CloseDone, ReturnToLoop, ReturnFromCall, InitThrows,
        AlgorithmsDone, EventDone, TeardownDone, Collect
  <1>3. QED
    BY <1>1, <1>2

LEMMA ListsStep ==
  ASSUME TypeOK, ListsAreHomes, [Next]_vars
  PROVE  ListsAreHomes'
  <1> USE ConstantsOK DEF ListsAreHomes, TypeOK
  <1>1. ASSUME UNCHANGED <<list, home>> PROVE ListsAreHomes'
    BY <1>1
  <1>2. ASSUME NEW o \in Observers, NEW c \in Controllers \cup {NoCtl}, SubscribeJoin(o, c)
        PROVE  ListsAreHomes'
    BY <1>2 DEF SubscribeJoin, Open
  <1>3. ASSUME NEW o \in Observers, NEW c \in Controllers \cup {NoCtl}, NEW s \in Subs,
               SubscribeStart(o, c, s)
        PROVE  ListsAreHomes'
    BY <1>3 DEF SubscribeStart
  <1>4. ASSUME NEW op \in {"abort", "dispatch"}, NEW o \in Observers, RemoveObserver(op, o)
        PROVE  ListsAreHomes'
    BY <1>4 DEF RemoveObserver
  <1>5. CASE EventDone
    BY <1>5 DEF EventDone
  <1>6. CASE UNCHANGED vars
    BY <1>1, <1>6 DEF vars
  <1>7. QED
    <2>1. CASE \/ CallbackEnds /\ ~EventDone
               \/ LibraryStep /\ ~\E op \in {"abort", "dispatch"}, o \in Observers :
                                     RemoveObserver(op, o)
               \/ \E s \in Subs : Collect(s)
      <3>1. UNCHANGED <<list, home>>
        BY <2>1 DEF CallbackEnds, LibraryStep, Deliver, Delivered, NativeAbort, NextListener,
          AbortDone, RunTeardown, CloseDone, ReturnToLoop, ReturnFromCall, InitThrows,
          AlgorithmsDone, TeardownDone, Collect
      <3>2. QED
        BY <1>1, <3>1
    <2>2. CASE UserCall
      BY <1>1, <1>2, <1>3, <2>2 DEF UserCall, SubscribeAborted, CallNext, CallError,
        CallComplete, AddTeardown, AddTeardownLate, CallAbort
    <2>3. QED
      BY <1>4, <1>5, <1>6, <2>1, <2>2 DEF Next, CallbackEnds, LibraryStep

LEMMA ToldStep ==
  ASSUME TypeOK, SharedInv, EndsInv, [Next]_vars
  PROVE  ToldAreOver'
  <1>1. ASSUME NEW o \in Observers, home[o] \in Subs, phase[home[o]] = "closed"
        PROVE  home'[o] \in Subs /\ phase'[home'[o]] = "closed"
    <2>1. home'[o] = home[o]
      BY <1>1, HomeForever
    <2>2. CASE Next
      BY <1>1, <2>1, <2>2, ClosedForever
    <2>3. CASE UNCHANGED vars
      BY <1>1, <2>1, <2>3 DEF vars
    <2>4. QED
      BY <2>2, <2>3
  <1>2. CASE Telling
    <2>1. PICK op \in Ends, o \in Observers : Deliver(op, o)
      BY <1>2 DEF Telling
    <2>2. /\ terminals' = [terminals EXCEPT ![o] = 1]
          /\ home[o] \in Subs /\ phase[home[o]] = "closed"
      BY <2>1, TellingStep DEF SharedInv, EndsInv
    <2>3. \A p \in Observers : p # o => terminals'[p] = terminals[p]
      BY <2>2 DEF TypeOK
    <2>4. QED
      BY <1>1, <2>2, <2>3 DEF ToldAreOver, EndsInv
  <1>3. CASE ~Telling
    <2>1. UNCHANGED terminals
      BY <1>3, OnlyTellingTells
    <2>2. QED
      BY <1>1, <2>1 DEF ToldAreOver, EndsInv
  <1>4. QED
    BY <1>2, <1>3

LEMMA UntoldStep ==
  ASSUME TypeOK, SharedInv, EndsInv, [Next]_vars
  PROVE  FramesUntold' /\ EndsDiffer(stack')
  <1> USE DEF SharedInv, EndsInv
  <1>1. \A f \in Members(stack) : f.op \in Ends => f.s \in Subs /\ f.rest \subseteq Observers
    <2>1. ASSUME NEW f \in Members(stack), f.op \in Ends
          PROVE  f.s \in Subs /\ f.rest \subseteq Observers
      <3>1. f \in Frame
        BY DEF TypeOK, Members
      <3>2. f \in CallFrame
        BY <2>1, <3>1 DEF Frame, SignalFrame, Ends
      <3>3. QED
        BY <3>2 DEF CallFrame
    <2>2. QED
      BY <2>1
  (* The frames that were there, with no more to tell than they had. *)
  <1>2. ASSUME NEW f \in Members(stack), f.op \in Ends, NEW o \in f.rest
        PROVE  home'[o] = f.s /\ (~Telling => terminals'[o] = 0)
    <2>1. o \in Observers /\ home[o] = f.s /\ f.s \in Subs /\ terminals[o] = 0
      BY <1>1, <1>2 DEF FramesUntold, Untold
    <2>2. home'[o] = f.s
      BY <2>1, HomeForever
    <2>3. QED
      BY <2>1, <2>2, OnlyTellingTells
  <1>3. CASE Telling
    <2>1. PICK op \in Ends, o \in Observers : Deliver(op, o)
      BY <1>3 DEF Telling
    <2>2. /\ terminals' = [terminals EXCEPT ![o] = 1]
          /\ EndsDiffer(stack')
          /\ \A f \in Members(stack') : f.op \in Ends =>
               \E g \in Members(stack) :
                 g.op \in Ends /\ g.s = f.s /\ f.rest \subseteq g.rest \ {o}
      BY <2>1, TellingStep
    <2>3. ASSUME NEW f \in Members(stack'), f.op \in Ends, NEW p \in f.rest
          PROVE  home'[p] = f.s /\ terminals'[p] = 0
      <3>1. PICK g \in Members(stack) :
              g.op \in Ends /\ g.s = f.s /\ f.rest \subseteq g.rest \ {o}
        BY <2>2, <2>3
      <3>2. p \in g.rest /\ p # o /\ p \in Observers
        BY <1>1, <2>3, <3>1
      <3>3. home'[p] = f.s
        BY <1>2, <3>1, <3>2
      <3>4. terminals[p] = 0
        BY <3>1, <3>2 DEF FramesUntold, Untold
      <3>5. terminals'[p] = 0
        BY <2>2, <3>2, <3>4 DEF TypeOK
      <3>6. QED
        BY <3>3, <3>5
    <2>4. QED
      BY <2>2, <2>3 DEF FramesUntold, Untold
  <1>4. CASE Ending /\ ~Telling
    <2>1. PICK s \in Subs :
            /\ Open(s)
            /\ UNCHANGED <<home, terminals>>
            /\ EndsDiffer(stack')
            /\ \A f \in Members(stack') : f.op \in Ends =>
                 (f.s = s /\ f.rest = list[s]) \/ f \in Members(stack)
      BY <1>4, EndingStep
    <2>2. ASSUME NEW o \in list[s] PROVE home[o] = s /\ terminals[o] = 0
      <3>1. o \in Observers /\ home[o] = s
        BY DEF TypeOK, ListsAreHomes
      <3>2. ~(terminals[o] > 0) /\ terminals[o] \in Nat
        BY <2>1, <3>1 DEF ToldAreOver, Open, TypeOK
      <3>3. QED
        BY <3>1, <3>2
    <2>3. ASSUME NEW f \in Members(stack'), f.op \in Ends, NEW o \in f.rest
          PROVE  home'[o] = f.s /\ terminals'[o] = 0
      BY <1>2, <1>4, <2>1, <2>2, <2>3
    <2>4. QED
      BY <2>1, <2>3 DEF FramesUntold, Untold
  <1>5. CASE CloseDone /\ ~Telling
    <2>1. EndsDiffer(stack') /\ Members(stack') \subseteq Members(stack)
      BY <1>5, CloseDoneStep
    <2>2. QED
      BY <1>2, <1>5, <2>1 DEF FramesUntold, Untold
  <1>6. CASE ~Ending /\ ~Telling /\ ~CloseDone
    <2>1. Quiet
      BY <1>6, QuietStep
    <2>2. ASSUME NEW f \in Members(stack'), f.op \in Ends, NEW o \in f.rest
          PROVE  home'[o] = f.s /\ terminals'[o] = 0
      <3>1. PICK g \in Members(stack) : g.op \in Ends /\ g.s = f.s /\ f.rest \subseteq g.rest
        BY <2>1, <2>2 DEF Quiet
      <3>2. QED
        BY <1>2, <1>6, <2>2, <3>1
    <2>3. QED
      BY <2>1, <2>2 DEF Quiet, FramesUntold, Untold
  <1>7. QED
    BY <1>3, <1>4, <1>5, <1>6

LEMMA EndsInvariant == Spec => [](TypeOK /\ SharedInv /\ EndsInv)
  <1>1. Init => SharedInv /\ EndsInv
    BY ConstantsOK DEF Init, SharedInv, OneSharedRun, Open, ClosingFramesClosed, Members,
      EndsInv, ListsAreHomes, ToldAreOver, FramesUntold, EndsDiffer
  <1>2. TypeOK /\ SharedInv /\ EndsInv /\ [Next]_vars => SharedInv' /\ EndsInv'
    BY ClosingFramesStep, OneSharedRunStep, ListsStep, ToldStep, UntoldStep
    DEF SharedInv, EndsInv
  <1>3. QED
    BY <1>1, <1>2, TypeCorrect, PTL DEF Spec

-----------------------------------------------------------------------------
(* The refinement. *)

(* The mapped state, said without a choice of the active run. *)
Began == {s \in Subs : phase[s] # "unused"}

Joined == {o \in Observers : home[o] # NoSub}

Current == IF Open(slot) THEN slot ELSE NoSub

Fed == IF Open(slot) THEN list[slot] ELSE {}

LEMMA ActiveIsCurrent ==
  ASSUME TypeOK, OneSharedRun
  PROVE  ActiveRun = Current /\ (IF ActiveRun = NoSub THEN {} ELSE list[ActiveRun]) = Fed
  <1> USE ConstantsOK
  <1>1. CASE Open(slot)
    <2>1. \A s \in Subs : Open(s) <=> s = slot
      BY <1>1 DEF OneSharedRun
    <2>2. slot \in Subs
      BY <1>1 DEF Open
    <2>3. (CHOOSE s \in Subs : Open(s)) = slot
      BY <2>1, <2>2
    <2>4. ActiveRun = slot
      BY <1>1, <2>2, <2>3 DEF ActiveRun
    <2>5. QED
      BY <1>1, <2>2, <2>4 DEF Current, Fed
  <1>2. CASE ~Open(slot)
    <2>1. ~\E s \in Subs : Open(s)
      BY <1>2 DEF OneSharedRun
    <2>2. QED
      BY <1>2, <2>1 DEF ActiveRun, Current, Fed
  <1>3. QED
    BY <1>1, <1>2

LEMMA OwedIs ==
  Owed = OwedBy(stack) /\ Owed' = OwedBy(stack')
  BY DEF Owed, OwedBy, Ends

(* The actions of ObservableLifecycle, as they read once mapped. *)
LStart(s, o) ==
  /\ Current = NoSub /\ s \notin Began /\ o \notin Joined
  /\ Current' = s /\ Began' = Began \cup {s} /\ Joined' = Joined \cup {o} /\ Fed' = {o}
  /\ OwedBy(stack') = OwedBy(stack) /\ terminals' = terminals

LStartEnded(s) ==
  /\ Current = NoSub /\ s \notin Began
  /\ Current' = NoSub /\ Began' = Began \cup {s} /\ Joined' = Joined /\ Fed' = Fed
  /\ OwedBy(stack') = OwedBy(stack) /\ terminals' = terminals

LJoin(o) ==
  /\ Current # NoSub /\ o \notin Joined
  /\ Current' = Current /\ Began' = Began /\ Joined' = Joined \cup {o}
  /\ Fed' = Fed \cup {o}
  /\ OwedBy(stack') = OwedBy(stack) /\ terminals' = terminals

LLeave(o) ==
  /\ o \in Fed
  /\ Current' = (IF Fed = {o} THEN NoSub ELSE Current) /\ Began' = Began
  /\ Joined' = Joined /\ Fed' = Fed \ {o}
  /\ OwedBy(stack') = OwedBy(stack) /\ terminals' = terminals

LTerminate ==
  /\ Current # NoSub
  /\ Current' = NoSub /\ Began' = Began /\ Joined' = Joined /\ Fed' = {}
  /\ OwedBy(stack') = OwedBy(stack) \cup Fed /\ terminals' = terminals

LTell(o) ==
  /\ o \in OwedBy(stack) /\ terminals[o] = 0
  /\ Current' = Current /\ Began' = Began /\ Joined' = Joined /\ Fed' = Fed
  /\ OwedBy(stack') = OwedBy(stack) \ {o} /\ terminals' = [terminals EXCEPT ![o] = 1]

LForfeit ==
  /\ Current' = Current /\ Began' = Began /\ Joined' = Joined /\ Fed' = Fed
  /\ OwedBy(stack') \subseteq OwedBy(stack) /\ terminals' = terminals

LAbandon ==
  /\ Current # NoSub
  /\ Current' = NoSub /\ Began' = Began /\ Joined' = Joined /\ Fed' = {}
  /\ OwedBy(stack') = OwedBy(stack) /\ terminals' = terminals

LNext ==
  \/ \E s \in Subs, o \in Observers : LStart(s, o)
  \/ \E s \in Subs : LStartEnded(s)
  \/ \E o \in Observers : LJoin(o) \/ LLeave(o) \/ LTell(o)
  \/ LTerminate
  \/ LForfeit
  \/ LAbandon

(* A step after which nothing of it has changed is a Forfeit of nothing. *)
LEMMA Unnoticed ==
  ASSUME Quiet, UNCHANGED <<slot, phase, home, list, terminals>>
  PROVE  LForfeit
  BY DEF Quiet, LForfeit, Current, Began, Joined, Fed, Open

LEMMA LifecycleStep ==
  ASSUME TypeOK, SharedInv, EndsInv, [Next]_vars
  PROVE  LNext
  <1> USE ConstantsOK DEF TypeOK
  <1>0. /\ ClosingFramesClosed /\ FramesUntold /\ EndsDiffer(stack)
        /\ \A s \in Subs : Open(s) => slot = s /\ list[s] # {}
        /\ \A s \in Subs : \A o \in list[s] : home[o] = s
    BY DEF SharedInv, OneSharedRun, EndsInv, ListsAreHomes
  <1>1. CASE Telling
    <2>1. PICK op \in Ends, o \in Observers : Deliver(op, o)
      BY <1>1 DEF Telling
    <2>2. /\ o \in OwedBy(stack) /\ terminals[o] = 0
          /\ OwedBy(stack') = OwedBy(stack) \ {o}
          /\ terminals' = [terminals EXCEPT ![o] = 1]
          /\ UNCHANGED <<slot, phase, list, home>>
      BY <1>0, <2>1, TellingStep
    <2>3. LTell(o)
      BY <2>2 DEF LTell, Current, Began, Joined, Fed, Open
    <2>4. QED
      BY <2>3 DEF LNext
  <1>2. CASE Ending
    <2>1. PICK s \in Subs :
            /\ Open(s)
            /\ phase' = [phase EXCEPT ![s] = "closed"]
            /\ UNCHANGED <<slot, list, home, terminals>>
            /\ OwedBy(stack') = list[s] \cup OwedBy(stack)
      BY <1>0, <1>2, EndingStep
    <2>2. slot = s /\ ~Open(slot)' /\ Began' = Began
      BY <1>0, <2>1 DEF Open, Began
    <2>3. LTerminate
      BY <2>1, <2>2 DEF LTerminate, Current, Joined, Fed
    <2>4. QED
      BY <2>3 DEF LNext
  <1>3. CASE CloseDone
    <2>1. /\ OwedBy(stack') \subseteq OwedBy(stack)
          /\ UNCHANGED <<slot, phase, list, home, terminals>>
      BY <1>0, <1>3, CloseDoneStep
    <2>2. LForfeit
      BY <2>1 DEF LForfeit, Current, Began, Joined, Fed, Open
    <2>3. QED
      BY <2>2 DEF LNext
  <1>4. CASE ~Telling /\ ~Ending /\ ~CloseDone
    <2>1. Quiet /\ OwedBy(stack') = OwedBy(stack)
      BY <1>4, QuietStep DEF Quiet
    <2>2. ASSUME NEW o \in Observers, NEW c \in Controllers \cup {NoCtl}, SubscribeJoin(o, c)
          PROVE  LNext
      <3>1. LJoin(o)
        BY <2>1, <2>2 DEF SubscribeJoin, LJoin, Current, Began, Joined, Fed, Open
      <3>2. QED
        BY <3>1 DEF LNext
    <2>3. ASSUME NEW o \in Observers, NEW c \in Controllers \cup {NoCtl}, NEW s \in Subs,
                 SubscribeStart(o, c, s)
          PROVE  LNext
      <3>1. LStart(s, o)
        BY <2>1, <2>3 DEF SubscribeStart, LStart, Current, Began, Joined, Fed, Open
      <3>2. QED
        BY <3>1 DEF LNext
    <2>4. ASSUME NEW c \in Controllers, NEW s \in Subs, SubscribeAborted(c, s)
          PROVE  LNext
      <3>1. LStartEnded(s)
        BY <2>1, <2>4 DEF SubscribeAborted, LStartEnded, Current, Began, Joined, Fed, Open
      <3>2. QED
        BY <3>1 DEF LNext
    <2>5. ASSUME NEW s \in Subs, Collect(s) PROVE LNext
      <3>1. LAbandon
        BY <1>0, <2>1, <2>5 DEF Collect, LAbandon, Current, Began, Joined, Fed, Open
      <3>2. QED
        BY <3>1 DEF LNext
    <2>6. ASSUME NEW op \in {"abort", "dispatch"}, NEW o \in Observers, RemoveObserver(op, o)
          PROVE  LNext
      <3>1. list' = [list EXCEPT ![home[o]] = @ \ {o}] /\ UNCHANGED <<slot, home, terminals>>
        BY <2>6 DEF RemoveObserver
      <3>2. CASE IsLast(home[o], o)
        <4>1. phase' = [phase EXCEPT ![home[o]] = "closed"] /\ slot = home[o]
                /\ Open(slot) /\ list[slot] = {o}
          BY <1>0, <2>6, <3>2 DEF RemoveObserver, IsLast, Open
        <4>2. LLeave(o)
          BY <2>1, <3>1, <4>1 DEF LLeave, Current, Began, Joined, Fed, Open
        <4>3. QED
          BY <4>2 DEF LNext
      <3>3. CASE ~IsLast(home[o], o)
        <4>1. UNCHANGED phase
          BY <2>6, <3>3 DEF RemoveObserver
        <4>2. CASE o \in Fed
          <5>1. Open(slot) /\ home[o] = slot /\ o \in list[slot] /\ list[slot] # {o}
            BY <1>0, <3>3, <4>2 DEF Fed, IsLast, Open
          <5>2. LLeave(o)
            BY <2>1, <3>1, <4>1, <5>1 DEF LLeave, Current, Began, Joined, Fed, Open
          <5>3. QED
            BY <5>2 DEF LNext
        <4>3. CASE o \notin Fed
          <5>1. Open(slot) => list'[slot] = list[slot]
            BY <3>1, <4>3 DEF Fed, Open
          <5>2. LForfeit
            BY <2>1, <3>1, <4>1, <5>1 DEF LForfeit, Current, Began, Joined, Fed, Open
          <5>3. QED
            BY <5>2 DEF LNext
        <4>4. QED
          BY <4>2, <4>3
      <3>4. QED
        BY <3>2, <3>3
    <2>7. CASE EventDone
      <3>1. stack # <<>> /\ Top.op = "event" /\ stack \in Seq(Frame)
        BY <2>7 DEF EventDone, Returning
      <3>2. phase[Top.s] = "closed"
        BY <1>0, <3>1, PopMembers DEF ClosingFramesClosed, ClosedFrame, Closing, Top
      <3>3. list' = [list EXCEPT ![Top.s] = {}] /\ UNCHANGED <<slot, phase, home, terminals>>
        BY <2>7 DEF EventDone
      <3>4. LForfeit
        BY <2>1, <3>2, <3>3 DEF LForfeit, Current, Began, Joined, Fed, Open
      <3>5. QED
        BY <3>4 DEF LNext
    <2>8. ASSUME UNCHANGED <<slot, phase, home, list, terminals>> PROVE LNext
      BY <2>1, <2>8, Unnoticed DEF LNext
    <2>9. CASE UNCHANGED vars
      BY <2>8, <2>9 DEF vars
    <2>10. CASE \/ LibraryStep /\ ~\E op \in {"abort", "dispatch"}, o \in Observers :
                                       RemoveObserver(op, o)
                \/ CallbackEnds /\ ~EventDone
      <3>1. UNCHANGED terminals
        BY <1>4, OnlyTellingTells
      <3>2. UNCHANGED <<slot, phase, home, list>>
        BY <1>4, <2>10 DEF LibraryStep, CallbackEnds, Deliver, Delivered, NativeAbort,
          NextListener, AbortDone, RunTeardown, ReturnToLoop, ReturnFromCall, Ending,
          AlgorithmsDone, TeardownDone
      <3>3. QED
        BY <2>8, <3>1, <3>2
    <2>11. CASE UserCall
      BY <1>4, <2>2, <2>3, <2>4, <2>8, <2>11 DEF UserCall, CallNext, CallAbort, AddTeardown,
        AddTeardownLate, Ending
    <2>12. QED
      BY <2>5, <2>6, <2>7, <2>9, <2>10, <2>11 DEF Next, LibraryStep, CallbackEnds
  <1>5. QED
    BY <1>1, <1>2, <1>3, <1>4

Mapped ==
  /\ ActiveRun = Current
  /\ (IF ActiveRun = NoSub THEN {} ELSE list[ActiveRun]) = Fed

LEMMA MappedStep ==
  ASSUME Mapped, Mapped', LNext
  PROVE  Lifecycle!Next
  <1>1. Owed = OwedBy(stack) /\ Owed' = OwedBy(stack')
    BY OwedIs
  <1> USE <1>1 DEF Mapped, Began, Joined
  <1>2. ASSUME NEW s \in Subs, NEW o \in Observers, LStart(s, o) PROVE Lifecycle!Next
    <2>1. Lifecycle!Start(s, o)
      BY <1>2 DEF LStart, Lifecycle!Start
    <2>2. QED
      BY <2>1 DEF Lifecycle!Next
  <1>3. ASSUME NEW s \in Subs, LStartEnded(s) PROVE Lifecycle!Next
    <2>1. Lifecycle!StartEnded(s)
      BY <1>3 DEF LStartEnded, Lifecycle!StartEnded
    <2>2. QED
      BY <2>1 DEF Lifecycle!Next
  <1>4. ASSUME NEW o \in Observers, LJoin(o) PROVE Lifecycle!Next
    <2>1. Lifecycle!Join(o)
      BY <1>4 DEF LJoin, Lifecycle!Join
    <2>2. QED
      BY <2>1 DEF Lifecycle!Next
  <1>5. ASSUME NEW o \in Observers, LLeave(o) PROVE Lifecycle!Next
    <2>1. Lifecycle!Leave(o)
      BY <1>5 DEF LLeave, Lifecycle!Leave
    <2>2. QED
      BY <2>1 DEF Lifecycle!Next
  <1>6. ASSUME NEW o \in Observers, LTell(o) PROVE Lifecycle!Next
    <2>1. Lifecycle!Tell(o)
      BY <1>6 DEF LTell, Lifecycle!Tell
    <2>2. QED
      BY <2>1 DEF Lifecycle!Next
  <1>7. CASE LTerminate
    <2>1. Lifecycle!Terminate
      BY <1>7 DEF LTerminate, Lifecycle!Terminate
    <2>2. QED
      BY <2>1 DEF Lifecycle!Next
  <1>8. CASE LForfeit
    <2>1. Lifecycle!Forfeit
      BY <1>8 DEF LForfeit, Lifecycle!Forfeit
    <2>2. QED
      BY <2>1 DEF Lifecycle!Next
  <1>9. CASE LAbandon
    <2>1. Lifecycle!Abandon
      BY <1>9 DEF LAbandon, Lifecycle!Abandon
    <2>2. QED
      BY <2>1 DEF Lifecycle!Next
  <1>10. QED
    BY <1>2, <1>3, <1>4, <1>5, <1>6, <1>7, <1>8, <1>9 DEF LNext

(* The platform Observable is Idle or has one active run, whose observers    *)
(* join and leave it, the last to leave ends it, and whose end is told to    *)
(* each of its observers once, whatever callbacks reenter subscribe(),       *)
(* abort() or the Subscriber (index.ts:150-290, 591).                        *)
THEOREM LifecycleImplemented == Spec => ImplementsLifecycle
  <1>1. Init => Lifecycle!Init
    <2>1. ASSUME Init PROVE Lifecycle!Init
      <3>1. ~\E s \in Subs : Open(s)
        BY <2>1 DEF Init, Open
      <3>2. ActiveRun = NoSub
        BY <3>1 DEF ActiveRun
      <3>3. Owed = {}
        BY <2>1 DEF Init, Owed, Members
      <3>4. QED
        BY <2>1, <3>2, <3>3 DEF Init, Lifecycle!Init
    <2>2. QED
      BY <2>1
  <1>2. TypeOK /\ SharedInv => Mapped
    BY ActiveIsCurrent DEF SharedInv, Mapped
  <1>3. TypeOK /\ SharedInv /\ EndsInv /\ [Next]_vars => LNext
    BY LifecycleStep
  <1>4. Mapped /\ Mapped' /\ LNext => Lifecycle!Next
    BY MappedStep
  <1>5. QED
    BY <1>1, <1>2, <1>3, <1>4, EndsInvariant, PTL
    DEF Spec, ImplementsLifecycle, Lifecycle!Spec

-----------------------------------------------------------------------------
(* What closing a Subscriber of the platform Observable releases, and when: *)
(* its teardowns run once each, the last registered first, whoever closes   *)
(* it and whatever they call, and its end is told of after they have run.   *)

(* The stages of closeSubscriber(). *)
CloseOps == {"algorithms", "event", "teardown"}

(* Of two calls in progress, f the inner one: a Subscriber that is being    *)
(* closed is neither closed again nor ended.                                *)
Clash(f, g) == f.op \in Closing /\ g.op \in CloseOps /\ f.s = g.s

Alone(q) == \A i, j \in DOMAIN q : i < j => ~Clash(q[i], q[j])

(* Directly inside error() or complete(), their own Subscriber is closed. *)
Astray(f, g) == f.op \in CloseOps /\ g.op \in Ends /\ f.s # g.s

Adjacent(q) == \A i \in 1 .. Len(q) - 1 : ~Astray(q[i], q[i + 1])

Below == Tail(stack)

-----------------------------------------------------------------------------
(* What pushing a frame does to these relations. *)

LEMMA PushFacts ==
  ASSUME NEW S, NEW f \in S, NEW q \in Seq(S)
  PROVE  /\ <<f>> \o q \in Seq(S)
         /\ <<f>> \o q # <<>>
         /\ Head(<<f>> \o q) = f
         /\ Tail(<<f>> \o q) = q
         /\ Len(<<f>> \o q) = Len(q) + 1
         /\ Len(q) \in Nat
         /\ DOMAIN (<<f>> \o q) = 1 .. Len(q) + 1
         /\ DOMAIN q = 1 .. Len(q)
         /\ (<<f>> \o q)[1] = f
         /\ \A i \in 1 .. Len(q) : (<<f>> \o q)[i + 1] = q[i]
         /\ q # <<>> => Len(q) # 0 /\ Head(q) = q[1]
  OBVIOUS

LEMMA PushAlone ==
  ASSUME NEW S, NEW f \in S, NEW q \in Seq(S)
  PROVE  Alone(<<f>> \o q) <=> Alone(q) /\ \A g \in Members(q) : ~Clash(f, g)
  <1> DEFINE r == <<f>> \o q
  <1>1. /\ DOMAIN r = 1 .. Len(q) + 1 /\ DOMAIN q = 1 .. Len(q) /\ Len(q) \in Nat
        /\ r[1] = f
        /\ \A i \in 1 .. Len(q) : i + 1 \in 1 .. Len(q) + 1 /\ r[i + 1] = q[i]
    BY PushFacts
  <1> HIDE DEF r
  <1>2. ASSUME Alone(r) PROVE Alone(q) /\ \A g \in Members(q) : ~Clash(f, g)
    <2>1. ASSUME NEW g \in Members(q) PROVE ~Clash(f, g)
      <3>1. PICK i \in 1 .. Len(q) : g = q[i]
        BY <1>1 DEF Members
      <3>2. 1 \in DOMAIN r /\ i + 1 \in DOMAIN r /\ 1 < i + 1 /\ r[i + 1] = g
        BY <1>1, <3>1
      <3>3. QED
        BY <1>1, <1>2, <3>2 DEF Alone
    <2>2. ASSUME NEW i \in 1 .. Len(q), NEW j \in 1 .. Len(q), i < j
          PROVE  ~Clash(q[i], q[j])
      <3>1. i + 1 < j + 1 /\ i + 1 \in DOMAIN r /\ j + 1 \in DOMAIN r
        BY <1>1, <2>2
      <3>2. r[i + 1] = q[i] /\ r[j + 1] = q[j]
        BY <1>1
      <3>3. QED
        BY <1>2, <3>1, <3>2 DEF Alone
    <2>3. QED
      BY <1>1, <2>1, <2>2 DEF Alone
  <1>3. ASSUME Alone(q), \A g \in Members(q) : ~Clash(f, g) PROVE Alone(r)
    <2>1. SUFFICES ASSUME NEW i \in 1 .. Len(q) + 1, NEW j \in 1 .. Len(q) + 1, i < j
                   PROVE  ~Clash(r[i], r[j])
      BY <1>1 DEF Alone
    <2>2. j - 1 \in 1 .. Len(q) /\ j = (j - 1) + 1
      BY <1>1, <2>1
    <2>3. r[j] = q[j - 1] /\ q[j - 1] \in Members(q)
      BY <1>1, <2>2 DEF Members
    <2>4. CASE i = 1
      BY <1>1, <1>3, <2>3, <2>4
    <2>5. CASE i # 1
      <3>1. i - 1 \in 1 .. Len(q) /\ i = (i - 1) + 1 /\ i - 1 < j - 1
        BY <1>1, <2>1, <2>5
      <3>2. r[i] = q[i - 1]
        BY <1>1, <3>1
      <3>3. QED
        BY <1>1, <1>3, <2>2, <2>3, <3>1, <3>2 DEF Alone
    <2>6. QED
      BY <2>4, <2>5
  <1>4. QED
    BY <1>2, <1>3 DEF r

LEMMA PushAdjacent ==
  ASSUME NEW S, NEW f \in S, NEW q \in Seq(S)
  PROVE  Adjacent(<<f>> \o q) <=> Adjacent(q) /\ (q # <<>> => ~Astray(f, Head(q)))
  <1> DEFINE r == <<f>> \o q
             n == Len(q)
  <1>1. /\ Len(r) = n + 1 /\ n \in Nat
        /\ r[1] = f
        /\ \A i \in 1 .. n : r[i + 1] = q[i]
        /\ q # <<>> => n # 0 /\ Head(q) = q[1]
        /\ n # 0 => q # <<>>
    BY PushFacts
  <1>2. Adjacent(q) <=> \A i \in 1 .. n - 1 : ~Astray(q[i], q[i + 1])
    BY DEF Adjacent
  <1>3. Adjacent(r) <=> \A i \in 1 .. n : ~Astray(r[i], r[i + 1])
    <2>1. Len(r) - 1 = n
      BY <1>1
    <2> HIDE DEF r, n
    <2>2. QED
      BY <2>1 DEF Adjacent
  <1> HIDE DEF r, n
  <1>4. ASSUME Adjacent(r) PROVE Adjacent(q) /\ (q # <<>> => ~Astray(f, Head(q)))
    <2>1. ASSUME NEW i \in 1 .. n - 1 PROVE ~Astray(q[i], q[i + 1])
      <3>1. i + 1 \in 1 .. n /\ i \in 1 .. n
        BY <1>1
      <3>2. r[i + 1] = q[i] /\ r[(i + 1) + 1] = q[i + 1]
        BY <1>1, <3>1
      <3>3. ~Astray(r[i + 1], r[(i + 1) + 1])
        BY <1>3, <1>4, <3>1
      <3>4. QED
        BY <3>2, <3>3
    <2>2. ASSUME q # <<>> PROVE ~Astray(f, Head(q))
      <3>1. 1 \in 1 .. n
        BY <1>1, <2>2
      <3>2. r[1 + 1] = Head(q)
        BY <1>1, <2>2, <3>1
      <3>3. ~Astray(r[1], r[1 + 1])
        BY <1>3, <1>4, <3>1
      <3>4. QED
        BY <1>1, <3>2, <3>3
    <2>3. QED
      BY <1>2, <2>1, <2>2
  <1>5. ASSUME Adjacent(q), q # <<>> => ~Astray(f, Head(q)) PROVE Adjacent(r)
    <2>1. SUFFICES ASSUME NEW i \in 1 .. n PROVE ~Astray(r[i], r[i + 1])
      BY <1>3
    <2>2. r[i + 1] = q[i]
      BY <1>1
    <2>3. CASE i = 1
      <3>1. q # <<>> /\ Head(q) = q[1]
        BY <1>1
      <3>2. QED
        BY <1>1, <1>5, <2>2, <2>3, <3>1
    <2>4. CASE i # 1
      <3>1. i - 1 \in 1 .. n - 1 /\ i - 1 \in 1 .. n /\ i = (i - 1) + 1
        BY <1>1, <2>4
      <3>2. r[i] = q[i - 1]
        BY <1>1, <3>1
      <3>3. ~Astray(q[i - 1], q[(i - 1) + 1])
        BY <1>2, <1>5, <3>1
      <3>4. QED
        BY <2>2, <3>1, <3>2, <3>3
    <2>5. QED
      BY <2>3, <2>4
  <1>6. QED
    BY <1>4, <1>5 DEF r

(* The stack before a step, ... *)
LEMMA OnTop ==
  ASSUME TypeOK, stack # <<>>
  PROVE  /\ Top \in Frame
         /\ Below \in Seq(Frame)
         /\ Members(stack) = {Top} \cup Members(Below)
         /\ Alone(stack) <=> Alone(Below) /\ \A g \in Members(Below) : ~Clash(Top, g)
         /\ Adjacent(stack) <=>
              Adjacent(Below) /\ (Below # <<>> => ~Astray(Top, Head(Below)))
  <1> DEFINE h == Top
             t == Below
  <1>1. h \in Frame /\ t \in Seq(Frame) /\ stack = <<h>> \o t
    BY PopStack, Decompose DEF TypeOK, Top, Below
  <1> HIDE DEF h, t
  <1>2. /\ Members(stack) = {h} \cup Members(t)
        /\ Alone(stack) <=> Alone(t) /\ \A g \in Members(t) : ~Clash(h, g)
        /\ Adjacent(stack) <=> Adjacent(t) /\ (t # <<>> => ~Astray(h, Head(t)))
    BY <1>1, PushMembers, PushAlone, PushAdjacent
  <1>3. QED
    BY <1>1, <1>2 DEF h, t

(* ... and after it, in the forms that actions give it. *)
LEMMA Pushed ==
  ASSUME NEW f \in Frame, NEW q \in Seq(Frame), stack' = <<f>> \o q
  PROVE  /\ Members(stack') = {f} \cup Members(q)
         /\ Alone(stack') <=> Alone(q) /\ \A g \in Members(q) : ~Clash(f, g)
         /\ Adjacent(stack') <=> Adjacent(q) /\ (q # <<>> => ~Astray(f, Head(q)))
  BY PushMembers, PushAlone, PushAdjacent

LEMMA PushedTwo ==
  ASSUME NEW f \in Frame, NEW g \in Frame, NEW q \in Seq(Frame),
         stack' = <<f, g>> \o q
  PROVE  /\ Members(stack') = {f, g} \cup Members(q)
         /\ Alone(stack') <=> /\ Alone(q) /\ ~Clash(f, g)
                              /\ \A h \in Members(q) : ~Clash(f, h) /\ ~Clash(g, h)
         /\ Adjacent(stack') <=> /\ Adjacent(q) /\ ~Astray(f, g)
                                 /\ q # <<>> => ~Astray(g, Head(q))
  <1> DEFINE r == <<g>> \o q
  <1>1. r \in Seq(Frame) /\ stack' = <<f>> \o r /\ r # <<>> /\ Head(r) = g
    BY PushTwo, PushFacts
  <1>2. /\ Members(r) = {g} \cup Members(q)
        /\ Alone(r) <=> Alone(q) /\ \A h \in Members(q) : ~Clash(g, h)
        /\ Adjacent(r) <=> Adjacent(q) /\ (q # <<>> => ~Astray(g, Head(q)))
    BY PushMembers, PushAlone, PushAdjacent
  <1> HIDE DEF r
  <1>3. /\ Members(stack') = {f} \cup Members(r)
        /\ Alone(stack') <=> Alone(r) /\ \A h \in Members(r) : ~Clash(f, h)
        /\ Adjacent(stack') <=> Adjacent(r) /\ (r # <<>> => ~Astray(f, Head(r)))
    BY <1>1, Pushed
  <1>4. QED
    BY <1>1, <1>2, <1>3

-----------------------------------------------------------------------------
(* Most steps leave the closes in progress as they are.                     *)

Plain ==
  /\ Alone(stack) => Alone(stack')
  /\ Adjacent(stack) => Adjacent(stack')
  /\ \A f \in Frame : f.op \in CloseOps => (f \in Members(stack') <=> f \in Members(stack))

LEMMA PlainPush ==
  ASSUME TypeOK, NEW f \in Frame, f.op \notin Closing, stack' = <<f>> \o stack
  PROVE  Plain
  <1>1. stack \in Seq(Frame)
    BY DEF TypeOK
  <1>2. /\ Members(stack') = {f} \cup Members(stack)
        /\ Alone(stack') <=> Alone(stack) /\ \A g \in Members(stack) : ~Clash(f, g)
        /\ Adjacent(stack') <=> Adjacent(stack) /\ (stack # <<>> => ~Astray(f, Head(stack)))
    BY <1>1, Pushed
  <1>3. QED
    BY <1>2 DEF Plain, Clash, Astray, Closing, CloseOps

LEMMA PlainPop ==
  ASSUME TypeOK, stack # <<>>, stack' = Tail(stack), Top.op \notin CloseOps
  PROVE  Plain
  <1>1. stack' = Below
    BY DEF Below
  <1>2. QED
    BY <1>1, OnTop DEF Plain

LEMMA PlainReplace ==
  ASSUME TypeOK, stack # <<>>, NEW f \in Frame, stack' = <<f>> \o Tail(stack),
         Top.op \notin CloseOps, f.op \notin CloseOps,
         f.op \in Closing => Top.op \in Closing /\ f.s = Top.s
  PROVE  Plain
  <1>1. stack' = <<f>> \o Below
    BY DEF Below
  <1>2. /\ Members(stack') = {f} \cup Members(Below)
        /\ Alone(stack') <=> Alone(Below) /\ \A g \in Members(Below) : ~Clash(f, g)
        /\ Adjacent(stack') <=> Adjacent(Below) /\ (Below # <<>> => ~Astray(f, Head(Below)))
    BY <1>1, OnTop, Pushed
  <1>3. Alone(stack) => Alone(stack')
    BY <1>2, OnTop DEF Clash
  <1>4. QED
    BY <1>2, <1>3, OnTop DEF Plain, Astray

(* The others begin a close, carry one on or end it. *)
LastLeaves ==
  \E op \in {"abort", "dispatch"}, o \in Observers :
    RemoveObserver(op, o) /\ IsLast(home[o], o)

Unwinds ==
  \/ \E throws \in BOOLEAN : AlgorithmsDone(throws) \/ TeardownDone(throws)
  \/ EventDone
  \/ RunTeardown
  \/ CloseDone

LEMMA PlainStep ==
  ASSUME TypeOK, [Next]_vars, ~Ending, ~LastLeaves, ~Unwinds
  PROVE  Plain
  <1> USE ConstantsOK
  <1>1. ASSUME stack' = stack PROVE Plain
    BY <1>1 DEF Plain
  <1>2. CASE UNCHANGED vars
    BY <1>1, <1>2 DEF vars
  <1>3. CASE \/ \E o \in Observers, c \in Controllers \cup {NoCtl} : SubscribeJoin(o, c)
             \/ \E s \in Subs, t \in Teardowns : AddTeardown(s, t)
             \/ \E s \in Subs : Collect(s)
    BY <1>1, <1>3 DEF SubscribeJoin, AddTeardown, Collect
  <1>4. ASSUME NEW s \in Subs, NEW op \in {"init", "late"},
               stack' = <<SubFrame(op, s, {}, "call")>> \o stack
        PROVE  Plain
    <2> DEFINE f == SubFrame(op, s, {}, "call")
    <2>1. f \in Frame /\ f.op \notin Closing
      BY SubFrameType DEF SubOps, SubFrame, Closing
    <2>2. stack' = <<f>> \o stack
      BY <1>4
    <2> HIDE DEF f
    <2>3. QED
      BY <2>1, <2>2, PlainPush
  <1>5. CASE \/ \E o \in Observers, c \in Controllers \cup {NoCtl}, s \in Subs :
                  SubscribeStart(o, c, s)
             \/ \E s \in Subs, c \in Controllers : SubscribeAborted(c, s)
             \/ \E s \in Subs, t \in Teardowns : AddTeardownLate(s, t)
    BY <1>4, <1>5 DEF SubscribeStart, SubscribeAborted, AddTeardownLate, Push
  <1>6. ASSUME NEW s \in Subs, CallNext(s) PROVE Plain
    <2> DEFINE f == SubFrame("next", s, list[s], "run")
    <2>1. f \in Frame /\ f.op \notin Closing
      BY SubFrameType DEF SubOps, SubFrame, Closing, TypeOK
    <2>2. stack' = <<f>> \o stack
      BY <1>6 DEF CallNext, Push
    <2> HIDE DEF f
    <2>3. QED
      BY <2>1, <2>2, PlainPush
  <1>7. ASSUME NEW c \in Controllers, CallAbort(c) PROVE Plain
    <2> DEFINE f == AbortFrame(c, Armed(c))
    <2>1. f \in Frame /\ f.op \notin Closing
      BY AbortFrameType DEF AbortFrame, Armed, Closing
    <2>2. stack' = <<f>> \o stack
      BY <1>7 DEF CallAbort, Push
    <2> HIDE DEF f
    <2>3. QED
      BY <2>1, <2>2, PlainPush
  <1>8. ASSUME NEW op \in {"next", "error", "complete"}, NEW o \in Observers, Deliver(op, o)
        PROVE  Plain
    <2> DEFINE f == [Top EXCEPT !.rest = @ \ {o}, !.at = "call"]
    <2>1. stack # <<>> /\ Top.op \notin CloseOps /\ stack' = <<f>> \o Tail(stack)
      BY <1>8 DEF Deliver, LibTurn, Replace, CloseOps
    <2>2. Top \in Frame
      BY <2>1, TopFrameType
    <2>3. f \in Frame /\ f.op = Top.op /\ f.s = Top.s
      BY <2>2 DEF Frame, CallFrame, SignalFrame
    <2> HIDE DEF f
    <2>4. QED
      BY <2>1, <2>3, PlainReplace
  <1>9. ASSUME NEW op \in {"abort", "dispatch"}, NEW o \in Observers,
               RemoveObserver(op, o), ~IsLast(home[o], o)
        PROVE  Plain
    <2> DEFINE f == [Top EXCEPT !.rest = @ \ {o}]
    <2>1. stack # <<>> /\ Top.op \notin CloseOps /\ stack' = <<f>> \o Tail(stack)
      BY <1>9 DEF RemoveObserver, LibTurn, Replace, CloseOps
    <2>2. Top \in Frame
      BY <2>1, TopFrameType
    <2>3. f \in Frame /\ f.op = Top.op /\ f.s = Top.s
      BY <2>2 DEF Frame, CallFrame, SignalFrame
    <2> HIDE DEF f
    <2>4. QED
      BY <2>1, <2>3, PlainReplace
  <1>10. CASE NativeAbort
    <2> DEFINE f == [Top EXCEPT !.op = "dispatch", !.rest = ListenersOf(Top.c),
                                !.at = "call"]
    <2>1. stack # <<>> /\ (stack' = Tail(stack) \/ stack' = <<f>> \o Tail(stack))
            /\ Top.op \notin CloseOps
      BY <1>10 DEF NativeAbort, LibTurn, Replace, Pop, CloseOps
    <2>2. f \in Frame
      BY <1>10, SignalFrameType DEF NativeAbort, LibTurn, ListenersOf, Armed
    <2>3. f.op = "dispatch"
      <3>1. Top \in Frame
        BY <2>1, TopFrameType
      <3>2. QED
        BY <3>1 DEF Frame, CallFrame, SignalFrame
    <2> HIDE DEF f
    <2>4. QED
      BY <2>1, <2>2, <2>3, PlainPop, PlainReplace DEF CloseOps, Closing
  <1>11. CASE NextListener \/ ReturnToLoop
    <2>1. PICK at \in {"run", "call"} :
            stack # <<>> /\ Top.op \notin CloseOps
              /\ stack' = <<[Top EXCEPT !.at = at]>> \o Tail(stack)
      BY <1>11 DEF NextListener, ReturnToLoop, LibTurn, Returning, Replace, CloseOps
    <2> DEFINE f == [Top EXCEPT !.at = at]
    <2>2. f \in Frame /\ f.op = Top.op /\ f.s = Top.s
      BY <2>1, TopFrameType DEF Frame, CallFrame, SignalFrame
    <2>3. stack' = <<f>> \o Tail(stack)
      BY <2>1
    <2> HIDE DEF f
    <2>4. QED
      BY <2>1, <2>2, <2>3, PlainReplace
  <1>12. CASE AbortDone \/ ReturnFromCall
                \/ \E op \in {"next", "error", "complete"} : Delivered(op)
    BY <1>12, PlainPop
    DEF AbortDone, ReturnFromCall, Delivered, LibTurn, Returning, Pop, CloseOps
  <1>13. QED
    BY <1>2, <1>3, <1>5, <1>6, <1>7, <1>8, <1>9, <1>10, <1>11, <1>12
    DEF Next, UserCall, LibraryStep, CallbackEnds, Ending, LastLeaves, Unwinds

-----------------------------------------------------------------------------
(* The stages of a Subscriber.                                              *)

(* Its teardowns are still to be taken, and none has run. *)
Untouched(s) ==
  /\ teardowns[s] = registered[s]
  /\ \A t \in Members(registered[s]) : runs[t] = 0

Released(s) ==
  /\ list[s] = {} /\ s \in fired
  /\ \A t \in Members(registered[s]) : runs[t] = 1

(* Those that f has yet to run are the ones registered first, last first;   *)
(* the others have run, and the one that f is running.                      *)
Unwinding(f, n, q) ==
  /\ list[f.s] = {} /\ f.s \in fired
  /\ n <= Len(q)
  /\ f.at = "call" => n > 0
  /\ \A i \in 1 .. n : f.tds[i] = q[n + 1 - i]
  /\ \A i \in 1 .. Len(q) : runs[q[i]] = IF i > n \/ (i = n /\ f.at = "call") THEN 1 ELSE 0

Stage(f) ==
  /\ f.op \in {"algorithms", "event"} => Untouched(f.s)
  /\ f.op = "event" => f.s \in fired
  /\ f.op = "teardown" => Unwinding(f, Len(f.tds), registered[f.s])

IsClosing(s) == \E f \in Members(stack) : f.op \in CloseOps /\ f.s = s

StageOf(s) ==
  /\ phase[s] # "closed" => Untouched(s)
  /\ phase[s] = "closed" => IsClosing(s) \/ Released(s)
  /\ phase[s] = "unused" => list[s] = {} /\ registered[s] = <<>>
  /\ \A f \in Members(stack) : f.op \in CloseOps /\ f.s = s => Stage(f)

(* Nothing is left to be done for s but to tell of its end. *)
Over(s) == phase[s] = "closed" /\ Released(s) /\ ~IsClosing(s)

Distinct ==
  \A r, s \in Subs : \A i \in DOMAIN registered[r], j \in DOMAIN registered[s] :
    registered[r][i] = registered[s][j] => r = s /\ i = j

ToldLast ==
  \A o \in Observers : terminals[o] > 0 => home[o] \in Subs /\ Over(home[o])

ReleaseInv ==
  /\ \A s \in Subs : StageOf(s)
  /\ Distinct
  /\ Alone(stack)
  /\ ToldLast

(* What a step leaves as it is for the Subscribers it is not about. *)
KeptData(s) ==
  /\ teardowns'[s] = teardowns[s]
  /\ registered'[s] = registered[s]
  /\ \A t \in Members(registered[s]) : runs'[t] = runs[t]
  /\ phase'[s] \in {"closed", "unused"} => phase'[s] = phase[s] /\ list'[s] \subseteq list[s]
  /\ phase[s] = "closed" => phase'[s] = "closed"
  /\ s \in fired => s \in fired'

Kept(s) ==
  /\ KeptData(s)
  /\ \A f \in Frame : f.op \in CloseOps /\ f.s = s =>
       (f \in Members(stack') <=> f \in Members(stack))

LEMMA KeptStage ==
  ASSUME TypeOK, TypeOK', ClosingFramesClosed, NEW s \in Subs, StageOf(s), Kept(s)
  PROVE  StageOf(s)' /\ (Over(s) => Over(s)')
  <1>1. \A f \in Members(stack) \cup Members(stack') : f \in Frame
    BY DEF TypeOK, Members
  <1>2. Untouched(s) => Untouched(s)'
    BY DEF Untouched, Kept, KeptData
  <1>3. phase[s] = "closed" /\ Released(s) => Released(s)'
    BY DEF Released, Kept, KeptData
  <1>4. IsClosing(s) <=> IsClosing(s)'
    BY <1>1 DEF IsClosing, Kept
  <1>5. ASSUME NEW f \in Members(stack'), f.op \in CloseOps, f.s = s
        PROVE  Stage(f)'
    <2>1. f \in Members(stack) /\ Stage(f) /\ phase[s] = "closed"
      BY <1>1, <1>5
      DEF Kept, StageOf, ClosingFramesClosed, ClosedFrame, Closing, CloseOps
    <2>2. f.op = "teardown" => Unwinding(f, Len(f.tds), registered[s])'
      <3> DEFINE n == Len(f.tds)
      <3>1. PICK q \in Seq(Teardowns) : q = registered[s]
        BY DEF TypeOK
      <3>2. \A i \in 1 .. Len(q) : q[i] \in Members(q)
        BY <3>1 DEF Members
      <3>3. registered'[s] = q /\ \A i \in 1 .. Len(q) : runs'[q[i]] = runs[q[i]]
        BY <3>1, <3>2 DEF Kept, KeptData
      <3>4. list[s] = {} => list'[s] = {}
        BY <2>1 DEF Kept, KeptData
      <3>5. s \in fired => s \in fired'
        BY DEF Kept, KeptData
      <3> HIDE DEF n
      <3>6. ASSUME Unwinding(f, n, q) PROVE Unwinding(f, n, q)'
        BY <1>5, <3>3, <3>4, <3>5, <3>6 DEF Unwinding
      <3>7. QED
        BY <1>5, <2>1, <3>1, <3>3, <3>6 DEF Stage, n
    <2>3. QED
      BY <1>2, <1>5, <2>1, <2>2 DEF Stage, Kept, KeptData
  <1>6. QED
    BY <1>2, <1>3, <1>4, <1>5 DEF StageOf, Over, Kept, KeptData

Holding == TypeOK /\ SharedInv /\ EndsInv /\ ReleaseInv

(* No step undoes what is over, and all but the Subscriber it is about keep *)
(* their stage.                                                             *)
StagesKept == \A s \in Subs : StageOf(s)' /\ (Over(s) => Over(s)')

-----------------------------------------------------------------------------
(* The steps.                                                               *)

AddsTeardown == \E s \in Subs, t \in Teardowns : AddTeardown(s, t)

StartsAborted == \E s \in Subs, c \in Controllers : SubscribeAborted(c, s)

LEMMA DataKept ==
  ASSUME TypeOK, [Next]_vars, ~Ending, ~LastLeaves, ~Unwinds, ~AddsTeardown, ~StartsAborted,
         NEW s \in Subs
  PROVE  KeptData(s)
  <1> USE ConstantsOK DEF TypeOK, KeptData
  <1>1. CASE UNCHANGED vars
    BY <1>1 DEF vars
  <1>2. ASSUME NEW o \in Observers, NEW c \in Controllers \cup {NoCtl}, SubscribeJoin(o, c)
        PROVE  KeptData(s)
    <2>1. s # slot => list'[s] = list[s]
      BY <1>2 DEF SubscribeJoin
    <2>2. phase[slot] = "open" /\ UNCHANGED <<phase, teardowns, fired, runs, registered>>
      BY <1>2 DEF SubscribeJoin, Open
    <2>3. QED
      BY <2>1, <2>2
  <1>8. ASSUME NEW o \in Observers, NEW c \in Controllers \cup {NoCtl}, NEW r \in Subs,
               SubscribeStart(o, c, r)
        PROVE  KeptData(s)
    <2>1. s # r => list'[s] = list[s] /\ phase'[s] = phase[s]
      BY <1>8 DEF SubscribeStart
    <2>2. phase[r] = "unused" /\ phase'[r] = "open" /\ UNCHANGED <<teardowns, fired, runs, registered>>
      BY <1>8 DEF SubscribeStart
    <2>3. QED
      BY <2>1, <2>2
  <1>3. ASSUME NEW r \in Subs, NEW t \in Teardowns, AddTeardownLate(r, t)
        PROVE  KeptData(s)
    BY <1>3 DEF AddTeardownLate, Fresh
  <1>4. ASSUME NEW op \in {"abort", "dispatch"}, NEW o \in Observers,
               RemoveObserver(op, o), ~IsLast(home[o], o)
        PROVE  KeptData(s)
    BY <1>4 DEF RemoveObserver
  <1>5. ASSUME NEW r \in Subs, Collect(r)
        PROVE  KeptData(s)
    BY <1>5 DEF Collect, Open
  <1>6. CASE \/ \E c \in Controllers : CallAbort(c)
             \/ \E r \in Subs : CallNext(r)
             \/ \E op \in {"next", "error", "complete"} :
                  Delivered(op) \/ \E o \in Observers : Deliver(op, o)
             \/ NativeAbort \/ NextListener \/ AbortDone
             \/ ReturnToLoop \/ ReturnFromCall
    <2>1. UNCHANGED <<phase, list, teardowns, fired, runs, registered>>
      BY <1>6 DEF CallAbort, CallNext, Delivered, Deliver, NativeAbort, NextListener,
        AbortDone, ReturnToLoop, ReturnFromCall
    <2>2. QED
      BY <2>1
  <1>7. QED
    BY <1>1, <1>2, <1>3, <1>4, <1>5, <1>6, <1>8
    DEF Next, UserCall, LibraryStep, CallbackEnds, Ending, LastLeaves, Unwinds,
      AddsTeardown, StartsAborted

LEMMA PlainKept ==
  ASSUME Holding, TypeOK', [Next]_vars, ~Ending, ~LastLeaves, ~Unwinds, ~AddsTeardown,
         ~StartsAborted
  PROVE  StagesKept /\ Alone(stack')
  <1> USE DEF Holding, ReleaseInv, SharedInv
  <1>1. Plain
    BY PlainStep
  <1>2. \A s \in Subs : Kept(s)
    BY <1>1, DataKept DEF Plain, Kept
  <1>3. QED
    BY <1>1, <1>2, KeptStage DEF StagesKept, Plain

(* A close begins. *)
LEMMA CloseBegins ==
  ASSUME Holding, TypeOK', NEW s \in Subs, Open(s),
         NEW f \in Frame, f.op = "algorithms", f.s = s,
         NEW g \in Frame, g.op \notin CloseOps, g.op \in Closing => g.s = s,
         NEW q \in Seq(Frame), Alone(q), stack' = <<f, g>> \o q,
         \A h \in Frame : h \in Members(q) => h \in Members(stack),
         \A h \in Frame : h.op \in CloseOps => (h \in Members(q) <=> h \in Members(stack)),
         phase' = [phase EXCEPT ![s] = "closed"],
         \A r \in Subs : list'[r] \subseteq list[r],
         UNCHANGED <<teardowns, fired, runs, registered>>
  PROVE  StagesKept /\ Alone(stack')
  <1> USE DEF Holding, ReleaseInv, SharedInv
  <1>1. /\ Members(stack') = {f, g} \cup Members(q)
        /\ Alone(stack') <=> /\ Alone(q) /\ ~Clash(f, g)
                             /\ \A h \in Members(q) : ~Clash(f, h) /\ ~Clash(g, h)
    BY PushedTwo
  <1>2. \A h \in Members(q) : h \in Frame /\ (h.op \in CloseOps => h.s # s)
    <2>1. \A h \in Members(q) : h \in Frame
      BY DEF Members
    <2>2. QED
      BY <2>1 DEF ClosingFramesClosed, ClosedFrame, Closing, CloseOps, Open
  <1>3. Alone(stack')
    BY <1>1, <1>2 DEF Clash
  <1>4. ASSUME NEW r \in Subs, r # s PROVE StageOf(r)' /\ (Over(r) => Over(r)')
    <2>1. KeptData(r)
      BY <1>4 DEF KeptData, TypeOK
    <2>2. \A h \in Frame : h.op \in CloseOps /\ h.s = r =>
            (h \in Members(stack') <=> h \in Members(stack))
      BY <1>1, <1>4
    <2>3. QED
      BY <1>4, <2>1, <2>2, KeptStage DEF Kept
  <1>5. StageOf(s)' /\ ~Over(s)
    <2>1. Untouched(s) /\ phase[s] # "closed" /\ phase'[s] = "closed"
      BY DEF StageOf, Open, TypeOK
    <2>2. Untouched(s)'
      BY <2>1 DEF Untouched
    <2>3. IsClosing(s)'
      BY <1>1 DEF IsClosing, CloseOps
    <2>4. ASSUME NEW h \in Members(stack'), h.op \in CloseOps, h.s = s PROVE Stage(h)'
      <3>1. h = f
        BY <1>1, <1>2, <2>4
      <3>2. QED
        BY <2>2, <3>1 DEF Stage
    <2>5. QED
      BY <2>1, <2>2, <2>3, <2>4 DEF StageOf, Over
  <1>6. QED
    BY <1>3, <1>4, <1>5 DEF StagesKept

(* The close that the innermost frame carries out goes on. *)
LEMMA CloseGoesOn ==
  ASSUME Holding, TypeOK', stack # <<>>, Top.op \in CloseOps,
         NEW f \in Frame, f.op \in CloseOps, f.s = Top.s, stack' = <<f>> \o Below,
         UNCHANGED <<phase, registered>>, Stage(f)',
         \A r \in Subs : r # Top.s => KeptData(r)
  PROVE  StagesKept /\ Alone(stack')
  <1> USE DEF Holding, ReleaseInv, SharedInv
  <1>0. PICK s \in Subs : s = Top.s
    BY CallFrameType DEF CloseOps, SubOps
  <1>1. /\ Below \in Seq(Frame) /\ Top \in Members(stack) /\ Top \in Frame
        /\ Members(stack) = {Top} \cup Members(Below)
        /\ Alone(Below) /\ \A g \in Members(Below) : ~Clash(Top, g)
    BY OnTop
  <1>2. phase[s] = "closed"
    BY <1>0, <1>1 DEF ClosingFramesClosed, ClosedFrame, Closing, CloseOps
  <1>3. /\ Members(stack') = {f} \cup Members(Below)
        /\ Alone(stack') <=> Alone(Below) /\ \A g \in Members(Below) : ~Clash(f, g)
    BY <1>1, Pushed
  <1>4. \A g \in Members(Below) : ~(g.op \in CloseOps /\ g.s = s)
    BY <1>0, <1>1 DEF Clash, Closing, CloseOps
  <1>5. Alone(stack')
    BY <1>0, <1>1, <1>3, <1>4 DEF Clash
  <1>6. ASSUME NEW r \in Subs, r # s PROVE StageOf(r)' /\ (Over(r) => Over(r)')
    <2>1. \A h \in Frame : h.op \in CloseOps /\ h.s = r =>
            (h \in Members(stack') <=> h \in Members(stack))
      BY <1>0, <1>1, <1>3, <1>6
    <2>2. QED
      BY <1>0, <1>6, <2>1, KeptStage DEF Kept
  <1>7. StageOf(s)' /\ ~Over(s)
    <2>1. IsClosing(s) /\ IsClosing(s)'
      BY <1>0, <1>1, <1>3 DEF IsClosing
    <2>2. ASSUME NEW h \in Members(stack'), h.op \in CloseOps, h.s = s PROVE Stage(h)'
      <3>1. h = f
        BY <1>3, <1>4, <2>2
      <3>2. QED
        BY <3>1
    <2>3. QED
      BY <1>2, <2>1, <2>2 DEF StageOf, Over
  <1>8. QED
    BY <1>5, <1>6, <1>7 DEF StagesKept

LEMMA EndingCloses ==
  ASSUME Holding, TypeOK', Ending
  PROVE  StagesKept /\ Alone(stack')
  <1> USE DEF Holding, ReleaseInv
  <1>1. ASSUME NEW s \in Subs, NEW op \in Ends, NEW q \in Seq(Frame), Open(s),
               Terminate(op, s, q), UNCHANGED <<list, teardowns, fired, runs, registered>>,
               Alone(q),
               \A h \in Frame : h \in Members(q) => h \in Members(stack),
               \A h \in Frame : h.op \in CloseOps => (h \in Members(q) <=> h \in Members(stack))
        PROVE  StagesKept /\ Alone(stack')
    <2> DEFINE f == SubFrame("algorithms", s, {}, "call")
               g == SubFrame(op, s, list[s], "run")
    <2>1. /\ f \in Frame /\ f.op = "algorithms" /\ f.s = s
          /\ g \in Frame /\ g.op \notin CloseOps /\ g.s = s
      BY SubFrameType DEF SubOps, SubFrame, Ends, CloseOps, TypeOK
    <2>2. stack' = <<f, g>> \o q /\ phase' = [phase EXCEPT ![s] = "closed"]
      BY <1>1 DEF Terminate
    <2> HIDE DEF f, g
    <2>3. \A r \in Subs : list'[r] \subseteq list[r]
      BY <1>1
    <2>4. QED
      BY <1>1, <2>1, <2>2, <2>3, CloseBegins
  <1>2. ASSUME NEW s \in Subs, CallError(s) \/ CallComplete(s)
        PROVE  StagesKept /\ Alone(stack')
    <2>1. stack \in Seq(Frame)
      BY DEF TypeOK
    <2>2. QED
      BY <1>1, <1>2, <2>1 DEF CallError, CallComplete, Ends
  <1>3. CASE InitThrows
    <2>1. PICK s \in Subs :
            /\ s = Top.s /\ Open(s) /\ stack # <<>> /\ Top.op = "init"
            /\ Terminate("error", s, Below)
            /\ UNCHANGED <<list, teardowns, fired, runs, registered>>
      BY <1>3 DEF InitThrows, Returning, Open, Below
    <2>2. /\ Below \in Seq(Frame) /\ Alone(Below)
          /\ Members(stack) = {Top} \cup Members(Below)
      BY <2>1, OnTop
    <2>3. /\ \A h \in Frame : h \in Members(Below) => h \in Members(stack)
          /\ \A h \in Frame : h.op \in CloseOps =>
               (h \in Members(Below) <=> h \in Members(stack))
      BY <2>1, <2>2 DEF CloseOps
    <2>4. QED
      BY <1>1, <2>1, <2>2, <2>3 DEF Ends
  <1>4. QED
    BY <1>2, <1>3 DEF Ending

LEMMA LastLeavesCloses ==
  ASSUME Holding, TypeOK', LastLeaves
  PROVE  StagesKept /\ Alone(stack')
  <1> USE DEF Holding, ReleaseInv
  <1>1. PICK op \in {"abort", "dispatch"}, o \in Observers :
          RemoveObserver(op, o) /\ IsLast(home[o], o)
    BY DEF LastLeaves
  <1>2. PICK s \in Subs : s = home[o] /\ Open(s)
    BY <1>1 DEF IsLast, Open
  <1> DEFINE f == SubFrame("algorithms", s, {}, "call")
             g == [Top EXCEPT !.rest = @ \ {o}]
  <1>3. /\ stack # <<>> /\ Top.op \in {"abort", "dispatch"}
        /\ stack' = <<f, g>> \o Below
        /\ phase' = [phase EXCEPT ![s] = "closed"]
        /\ list' = [list EXCEPT ![s] = @ \ {o}]
        /\ UNCHANGED <<teardowns, fired, runs, registered>>
    BY <1>1, <1>2 DEF RemoveObserver, LibTurn, Below
  <1>4. /\ Top \in Frame /\ Below \in Seq(Frame) /\ Alone(Below)
        /\ Members(stack) = {Top} \cup Members(Below)
    BY <1>3, OnTop
  <1>5. f \in Frame /\ f.op = "algorithms" /\ f.s = s
    BY SubFrameType DEF SubOps, SubFrame
  <1>6. g \in Frame /\ g.op = Top.op
    BY <1>4 DEF Frame, CallFrame, SignalFrame
  <1>7. g.op \notin CloseOps /\ g.op \notin Closing
    BY <1>3, <1>6 DEF CloseOps, Closing
  <1>8. \A r \in Subs : list'[r] \subseteq list[r]
    BY <1>3 DEF TypeOK
  <1>9. /\ \A h \in Frame : h \in Members(Below) => h \in Members(stack)
        /\ \A h \in Frame : h.op \in CloseOps => (h \in Members(Below) <=> h \in Members(stack))
    BY <1>3, <1>4 DEF CloseOps
  <1> HIDE DEF f, g
  <1>10. QED
    BY <1>2, <1>3, <1>4, <1>5, <1>6, <1>7, <1>8, <1>9, CloseBegins

(* What the frame of a close in progress knows. *)
LEMMA TopCloses ==
  ASSUME Holding, stack # <<>>, Top.op \in CloseOps
  PROVE  /\ Top \in CallFrame
         /\ Top.s \in Subs
         /\ phase[Top.s] = "closed"
         /\ Stage(Top)
  <1>1. Top \in CallFrame /\ Top.s \in Subs
    BY CallFrameType DEF CloseOps, SubOps, Holding
  <1>2. Top \in Members(stack)
    BY OnTop DEF Holding
  <1>3. phase[Top.s] = "closed"
    BY <1>2 DEF Holding, SharedInv, ClosingFramesClosed, ClosedFrame, Closing, CloseOps
  <1>4. QED
    BY <1>1, <1>2, <1>3 DEF Holding, ReleaseInv, StageOf

LEMMA AlgorithmsDoneKeeps ==
  ASSUME Holding, TypeOK', NEW throws \in BOOLEAN, AlgorithmsDone(throws)
  PROVE  StagesKept /\ Alone(stack')
  <1> DEFINE f == [Top EXCEPT !.op = "event", !.thrown = throws]
  <1>1. /\ stack # <<>> /\ Top.op = "algorithms" /\ stack' = <<f>> \o Below
        /\ fired' = fired \cup {Top.s}
        /\ UNCHANGED <<phase, list, teardowns, runs, registered>>
    BY DEF AlgorithmsDone, Returning, Replace, Below
  <1>2. Top \in CallFrame /\ Top.s \in Subs /\ Untouched(Top.s)
    BY <1>1, TopCloses DEF CloseOps, Stage
  <1>3. PICK s \in Subs : s = Top.s
    BY <1>2
  <1>4. f \in Frame /\ f.op = "event" /\ f.s = s
    BY <1>2, <1>3 DEF Frame, CallFrame, SubOps
  <1> HIDE DEF f
  <1>5. PICK g \in Frame : g = f
    BY <1>4
  <1>6. Stage(g)'
    <2>1. Untouched(s)'
      BY <1>1, <1>2, <1>3 DEF Untouched
    <2>2. s \in fired'
      BY <1>1, <1>3
    <2>3. QED
      BY <1>4, <1>5, <2>1, <2>2 DEF Stage
  <1>7. \A r \in Subs : KeptData(r)
    BY <1>1 DEF KeptData
  <1>8. QED
    BY <1>1, <1>3, <1>4, <1>5, <1>6, <1>7, CloseGoesOn DEF CloseOps

LEMMA EventDoneKeeps ==
  ASSUME Holding, TypeOK', EventDone
  PROVE  StagesKept /\ Alone(stack')
  <1>1. /\ stack # <<>> /\ Top.op = "event"
        /\ stack' = <<[Top EXCEPT !.op = "teardown", !.at = "run",
                                  !.tds = LastFirst(teardowns[Top.s])]>> \o Below
        /\ list' = [list EXCEPT ![Top.s] = {}]
        /\ teardowns' = [teardowns EXCEPT ![Top.s] = <<>>]
        /\ UNCHANGED <<phase, fired, runs, registered>>
    BY DEF EventDone, Returning, Replace, Below
  <1>2. /\ Top \in CallFrame /\ Top.s \in Subs
        /\ Untouched(Top.s) /\ Top.s \in fired /\ phase[Top.s] = "closed"
    BY <1>1, TopCloses DEF CloseOps, Stage
  <1>3. PICK s \in Subs : s = Top.s
    BY <1>2
  <1>4. PICK q \in Seq(Teardowns) : q = registered[s]
    BY DEF Holding, TypeOK
  <1>5. PICK tds \in Seq(Teardowns) : tds = LastFirst(q)
    BY LastFirstType
  <1>6. PICK f \in Frame :
          /\ f = [Top EXCEPT !.op = "teardown", !.at = "run", !.tds = tds]
          /\ f.op = "teardown" /\ f.at = "run" /\ f.tds = tds /\ f.s = s
    <2> DEFINE g == [Top EXCEPT !.op = "teardown", !.at = "run", !.tds = tds]
    <2>1. g \in Frame /\ g.op = "teardown" /\ g.at = "run" /\ g.tds = tds /\ g.s = s
      BY <1>2, <1>3 DEF Frame, CallFrame, SubOps
    <2> HIDE DEF g
    <2>2. QED
      BY <2>1 DEF g
  <1>7. stack' = <<f>> \o Below
    BY <1>1, <1>2, <1>3, <1>4, <1>5, <1>6 DEF Untouched
  <1>8. Stage(f)'
    <2>1. Len(tds) = Len(q) /\ \A i \in 1 .. Len(q) : tds[i] = q[Len(q) + 1 - i]
      BY <1>5 DEF LastFirst
    <2>2. \A i \in 1 .. Len(q) : q[i] \in Members(q)
      BY DEF Members
    <2>3. \A i \in 1 .. Len(q) : runs'[q[i]] = 0
      BY <1>1, <1>2, <1>3, <1>4, <2>2 DEF Untouched
    <2>4. list'[s] = {} /\ s \in fired' /\ registered'[s] = q
      BY <1>1, <1>2, <1>3, <1>4 DEF Holding, TypeOK
    <2>5. Len(q) \in Nat
      OBVIOUS
    <2>6. Unwinding(f, Len(tds), q)'
      BY <1>6, <2>1, <2>3, <2>4, <2>5 DEF Unwinding
    <2>7. QED
      BY <1>6, <2>4, <2>6 DEF Stage
  <1>9. \A r \in Subs : r # s => KeptData(r)
    <2>1. \A r \in Subs : r # s => list'[r] = list[r] /\ teardowns'[r] = teardowns[r]
      BY <1>1, <1>3 DEF Holding, TypeOK
    <2>2. QED
      BY <1>1, <2>1 DEF KeptData
  <1>10. QED
    BY <1>1, <1>3, <1>6, <1>7, <1>8, <1>9, CloseGoesOn DEF CloseOps

LEMMA RunTeardownKeeps ==
  ASSUME Holding, TypeOK', RunTeardown
  PROVE  StagesKept /\ Alone(stack')
  <1> DEFINE g == [Top EXCEPT !.at = "call"]
  <1>1. /\ stack # <<>> /\ Top.op = "teardown" /\ Top.tds # <<>>
        /\ stack' = <<g>> \o Below
        /\ runs' = [runs EXCEPT ![Head(Top.tds)] = @ + 1]
        /\ Top.at = "run"
        /\ UNCHANGED <<phase, list, teardowns, fired, registered>>
    BY DEF RunTeardown, LibTurn, Replace, Below
  <1>2. Top \in CallFrame /\ Top.s \in Subs /\ Unwinding(Top, Len(Top.tds), registered[Top.s])
    BY <1>1, TopCloses DEF CloseOps, Stage
  <1>3. PICK s \in Subs : s = Top.s
    BY <1>2
  <1>4. PICK q \in Seq(Teardowns) : q = registered[s]
    BY DEF Holding, TypeOK
  <1>5. PICK tds \in Seq(Teardowns) : tds = Top.tds
    BY <1>2 DEF CallFrame
  <1>6. g \in Frame /\ g.op = "teardown" /\ g.at = "call" /\ g.tds = tds /\ g.s = s
    BY <1>1, <1>2, <1>3, <1>5 DEF Frame, CallFrame, SubOps
  <1> HIDE DEF g
  <1>7. PICK f \in Frame : f = g
    BY <1>6
  <1>8. PICK n \in Nat \ {0} : n = Len(tds) /\ Head(tds) = tds[1]
    BY <1>1, <1>5, PopStack
  <1>9. /\ list[s] = {} /\ s \in fired /\ n <= Len(q) /\ Len(q) \in Nat
        /\ \A i \in 1 .. n : tds[i] = q[n + 1 - i]
        /\ \A i \in 1 .. Len(q) : runs[q[i]] = IF i > n THEN 1 ELSE 0
    BY <1>1, <1>2, <1>3, <1>4, <1>5, <1>8 DEF Unwinding
  <1>10. n \in 1 .. Len(q) /\ Head(tds) = q[n] /\ q[n] \in Teardowns
    <2>1. 1 \in 1 .. n /\ n + 1 - 1 = n /\ n \in 1 .. Len(q)
      BY <1>8, <1>9
    <2>2. QED
      BY <1>8, <1>9, <2>1
  <1>11. runs' = [runs EXCEPT ![q[n]] = @ + 1]
    BY <1>1, <1>5, <1>10
  <1>12. ASSUME NEW r \in Subs, NEW i \in DOMAIN registered[r], r # s \/ i # n
         PROVE  runs'[registered[r][i]] = runs[registered[r][i]]
    <2>1. registered[r][i] # q[n]
      <3>1. n \in DOMAIN registered[s]
        BY <1>4, <1>10
      <3>2. QED
        BY <1>4, <1>12, <3>1 DEF Holding, ReleaseInv, Distinct
    <2>2. registered[r][i] \in Teardowns
      BY DEF Holding, TypeOK
    <2>3. QED
      BY <1>11, <2>1, <2>2 DEF Holding, TypeOK
  <1>13. Stage(f)'
    <2>1. \A i \in 1 .. Len(q) : i # n => runs'[q[i]] = runs[q[i]]
      BY <1>4, <1>12
    <2>2. runs'[q[n]] = 1
      <3>1. runs[q[n]] = 0
        BY <1>9, <1>10
      <3>2. QED
        BY <1>10, <1>11, <3>1 DEF Holding, TypeOK
    <2>3. \A i \in 1 .. Len(q) : runs'[q[i]] = IF i > n \/ i = n THEN 1 ELSE 0
      BY <1>9, <1>10, <2>1, <2>2
    <2>4. list'[s] = {} /\ s \in fired' /\ registered'[s] = q
      BY <1>1, <1>4, <1>9
    <2>5. Unwinding(f, n, q)'
      BY <1>6, <1>7, <1>9, <1>10, <2>3, <2>4 DEF Unwinding
    <2>6. QED
      BY <1>6, <1>7, <1>8, <2>4, <2>5 DEF Stage
  <1>14. ASSUME NEW r \in Subs, r # s PROVE KeptData(r)
    <2>1. \A t \in Members(registered[r]) : runs'[t] = runs[t]
      BY <1>12, <1>14 DEF Members
    <2>2. QED
      BY <1>1, <2>1 DEF KeptData
  <1>15. QED
    BY <1>1, <1>3, <1>6, <1>7, <1>13, <1>14, CloseGoesOn DEF CloseOps

LEMMA TeardownDoneKeeps ==
  ASSUME Holding, TypeOK', NEW throws \in BOOLEAN, TeardownDone(throws)
  PROVE  StagesKept /\ Alone(stack')
  <1> DEFINE g == [Top EXCEPT !.at = "run", !.tds = Tail(@), !.thrown = @ \/ throws]
  <1>1. /\ stack # <<>> /\ Top.op = "teardown" /\ Top.at = "call" /\ Top.tds # <<>>
        /\ stack' = <<g>> \o Below
        /\ UNCHANGED <<phase, list, teardowns, fired, runs, registered>>
    BY DEF TeardownDone, Returning, Replace, Below
  <1>2. Top \in CallFrame /\ Top.s \in Subs /\ Unwinding(Top, Len(Top.tds), registered[Top.s])
    BY <1>1, TopCloses DEF CloseOps, Stage
  <1>3. PICK s \in Subs : s = Top.s
    BY <1>2
  <1>4. PICK q \in Seq(Teardowns) : q = registered[s]
    BY DEF Holding, TypeOK
  <1>5. PICK tds \in Seq(Teardowns) : tds = Top.tds
    BY <1>2 DEF CallFrame
  <1>6. tds # <<>> /\ Tail(tds) \in Seq(Teardowns)
    BY <1>1, <1>5, PopStack
  <1>7. g \in Frame /\ g.op = "teardown" /\ g.at = "run" /\ g.tds = Tail(tds) /\ g.s = s
    BY <1>1, <1>2, <1>3, <1>5, <1>6 DEF Frame, CallFrame, SubOps
  <1> HIDE DEF g
  <1>8. PICK f \in Frame : f = g
    BY <1>7
  <1>9. PICK n \in Nat : Len(Tail(tds)) = n /\ Len(tds) = n + 1
    <2>1. PICK m \in Nat \ {0} : m = Len(tds) /\ Len(Tail(tds)) = m - 1
      BY <1>6, PopStack
    <2>2. m - 1 \in Nat /\ (m - 1) + 1 = m
      BY <2>1
    <2>3. QED
      BY <2>1, <2>2
  <1>10. \A i \in 1 .. n : Tail(tds)[i] = tds[i + 1]
    BY <1>6, <1>9, PopStack
  <1>11. /\ list[s] = {} /\ s \in fired /\ n + 1 <= Len(q) /\ Len(q) \in Nat
         /\ \A i \in 1 .. n + 1 : tds[i] = q[(n + 1) + 1 - i]
         /\ \A i \in 1 .. Len(q) : runs[q[i]] = IF i > n + 1 \/ i = n + 1 THEN 1 ELSE 0
    <2>1. Unwinding(Top, n + 1, q)
      BY <1>2, <1>3, <1>4, <1>5, <1>9
    <2>2. PICK m \in Nat \ {0} : m = n + 1
      OBVIOUS
    <2>3. /\ list[s] = {} /\ s \in fired /\ m <= Len(q)
          /\ \A i \in 1 .. m : tds[i] = q[m + 1 - i]
      BY <1>3, <1>5, <2>1, <2>2 DEF Unwinding
    <2>4. \A i \in 1 .. Len(q) : runs[q[i]] = IF i > m \/ i = m THEN 1 ELSE 0
      BY <1>1, <2>1, <2>2 DEF Unwinding
    <2>5. QED
      BY <2>2, <2>3, <2>4
  <1>12. Stage(f)'
    <2>1. ASSUME NEW i \in 1 .. n PROVE Tail(tds)[i] = q[n + 1 - i]
      <3>1. i + 1 \in 1 .. n + 1 /\ (n + 1) + 1 - (i + 1) = n + 1 - i
        BY <1>9
      <3>2. QED
        BY <1>10, <1>11, <3>1
    <2>2. \A i \in 1 .. Len(q) : runs'[q[i]] = IF i > n THEN 1 ELSE 0
      BY <1>1, <1>9, <1>11
    <2>3. list'[s] = {} /\ s \in fired' /\ registered'[s] = q /\ n <= Len(q)
      BY <1>1, <1>4, <1>9, <1>11
    <2>4. Unwinding(f, n, q)'
      BY <1>7, <1>8, <2>1, <2>2, <2>3 DEF Unwinding
    <2>5. QED
      BY <1>7, <1>8, <1>9, <2>3, <2>4 DEF Stage
  <1>13. \A r \in Subs : KeptData(r)
    BY <1>1 DEF KeptData
  <1>14. QED
    BY <1>1, <1>3, <1>7, <1>8, <1>12, <1>13, CloseGoesOn DEF CloseOps

LEMMA CloseDoneKeeps ==
  ASSUME Holding, TypeOK', CloseDone
  PROVE  StagesKept /\ Alone(stack')
  <1> USE DEF Holding, ReleaseInv, SharedInv
  <1>1. /\ stack # <<>> /\ Top.op = "teardown" /\ Top.at = "run" /\ Top.tds = <<>>
        /\ \/ stack' = Below
           \/ CalledBy(Ends) /\ stack' = Tail(Below)
        /\ UNCHANGED <<phase, list, teardowns, fired, runs, registered>>
    BY DEF CloseDone, LibTurn, Below, Ends
  <1>2. /\ Top \in CallFrame /\ Top.s \in Subs /\ phase[Top.s] = "closed"
        /\ Unwinding(Top, Len(Top.tds), registered[Top.s])
    BY <1>1, TopCloses DEF CloseOps, Stage
  <1>3. PICK s \in Subs : s = Top.s
    BY <1>2
  <1>4. /\ Below \in Seq(Frame) /\ Top \in Members(stack)
        /\ Members(stack) = {Top} \cup Members(Below)
        /\ Alone(Below) /\ \A g \in Members(Below) : ~Clash(Top, g)
    BY <1>1, OnTop
  <1>5. Released(s)
    <2>1. PICK q \in Seq(Teardowns) : q = registered[s]
      BY DEF TypeOK
    <2>2. /\ list[s] = {} /\ s \in fired
          /\ \A i \in 1 .. Len(q) : runs[q[i]] = IF i > 0 THEN 1 ELSE 0
      BY <1>1, <1>2, <1>3, <2>1 DEF Unwinding
    <2>3. \A t \in Members(q) : \E i \in 1 .. Len(q) : t = q[i]
      BY DEF Members
    <2>4. QED
      BY <2>1, <2>2, <2>3 DEF Released
  <1>6. /\ \A h \in Frame : h.op \in CloseOps =>
             (h \in Members(stack') <=> h \in Members(Below))
        /\ Alone(stack')
    <2>1. CASE stack' = Below
      BY <1>4, <2>1
    <2>2. CASE CalledBy(Ends) /\ stack' = Tail(Below)
      <3>1. PICK q \in Seq(Frame) : q = Below
        BY <1>4
      <3>2. q # <<>> /\ Head(q).op \in Ends
        <4>1. stack \in Seq(Frame) /\ Len(stack) > 1 /\ stack[2].op \in Ends
          BY <2>2 DEF CalledBy, TypeOK
        <4>2. Tail(stack) # <<>>
          BY <4>1, TailNotEmpty
        <4>3. Head(Tail(stack)) = Tail(stack)[1] /\ Tail(stack)[1] = stack[2]
          BY <1>1, <4>1, <4>2, PopStack
        <4>4. QED
          BY <3>1, <4>1, <4>2, <4>3 DEF Below
      <3>3. PICK h \in Frame, t \in Seq(Frame) : h = Head(q) /\ t = Tail(q) /\ q = <<h>> \o t
        BY <3>2, PopStack, Decompose
      <3>4. /\ Members(q) = {h} \cup Members(t)
            /\ Alone(q) <=> Alone(t) /\ \A g \in Members(t) : ~Clash(h, g)
        <4>1. /\ Members(<<h>> \o t) = {h} \cup Members(t)
              /\ Alone(<<h>> \o t) <=> Alone(t) /\ \A g \in Members(t) : ~Clash(h, g)
          BY PushMembers, PushAlone
        <4>2. QED
          BY <3>3, <4>1
      <3>5. stack' = t
        BY <2>2, <3>1, <3>3
      <3>6. h.op \notin CloseOps
        BY <3>2, <3>3 DEF CloseOps, Ends
      <3>7. QED
        BY <1>4, <3>1, <3>4, <3>5, <3>6
    <2>3. QED
      BY <1>1, <2>1, <2>2
  <1>7. ASSUME NEW r \in Subs, r # s PROVE StageOf(r)' /\ (Over(r) => Over(r)')
    <2>1. KeptData(r)
      BY <1>1 DEF KeptData
    <2>2. \A h \in Frame : h.op \in CloseOps /\ h.s = r =>
            (h \in Members(stack') <=> h \in Members(stack))
      BY <1>3, <1>4, <1>6, <1>7
    <2>3. QED
      BY <2>1, <2>2, KeptStage DEF Kept
  <1>8. StageOf(s)' /\ ~Over(s)
    <2>1. IsClosing(s)
      BY <1>1, <1>3, <1>4 DEF IsClosing, CloseOps
    <2>2. Released(s)' /\ phase'[s] = "closed"
      BY <1>1, <1>2, <1>3, <1>5 DEF Released
    <2>3. ASSUME NEW h \in Members(stack'), h.op \in CloseOps, h.s = s PROVE FALSE
      <3>1. h \in Frame
        BY DEF Members, TypeOK
      <3>2. h \in Members(Below)
        BY <1>6, <2>3, <3>1
      <3>3. QED
        BY <1>1, <1>3, <1>4, <2>3, <3>2 DEF Clash, Closing
    <2>4. QED
      BY <2>1, <2>2, <2>3 DEF StageOf, Over
  <1>9. QED
    BY <1>6, <1>7, <1>8 DEF StagesKept

LEMMA StartsAbortedKeeps ==
  ASSUME Holding, TypeOK', StartsAborted
  PROVE  StagesKept /\ Alone(stack')
  <1> USE DEF Holding, ReleaseInv, SharedInv
  <1>1. PICK s \in Subs, c \in Controllers : SubscribeAborted(c, s)
    BY DEF StartsAborted
  <1>2. /\ phase[s] = "unused" /\ phase'[s] = "closed"
        /\ \A r \in Subs : r # s => phase'[r] = phase[r]
        /\ fired' = fired \cup {s}
        /\ UNCHANGED <<list, teardowns, runs, registered>>
    BY <1>1 DEF SubscribeAborted, TypeOK
  <1>3. Plain
    <2>1. ~Ending /\ ~LastLeaves /\ ~Unwinds
      BY <1>1, <1>2 DEF Ending, LastLeaves, Unwinds, CallError, CallComplete, InitThrows,
        Terminate, RemoveObserver, IsLast, Open, AlgorithmsDone, TeardownDone, EventDone,
        RunTeardown, CloseDone, TypeOK
    <2>2. Next
      BY <1>1 DEF Next, UserCall
    <2>3. QED
      BY <2>1, <2>2, PlainStep
  <1>4. ASSUME NEW r \in Subs, r # s PROVE StageOf(r)' /\ (Over(r) => Over(r)')
    <2>1. KeptData(r)
      BY <1>2, <1>4 DEF KeptData
    <2>2. QED
      BY <1>3, <2>1, KeptStage DEF Kept, Plain
  <1>5. StageOf(s)' /\ ~Over(s)
    <2>1. list[s] = {} /\ registered[s] = <<>> /\ Members(<<>>) = {}
      BY <1>2 DEF StageOf, Members
    <2>2. Released(s)'
      BY <1>2, <2>1 DEF Released
    <2>3. ASSUME NEW h \in Members(stack'), h.op \in CloseOps, h.s = s PROVE FALSE
      <3>1. h \in Frame
        BY DEF Members, TypeOK
      <3>2. h \in Members(stack)
        BY <1>3, <2>3, <3>1 DEF Plain
      <3>3. QED
        BY <1>2, <2>3, <3>2 DEF ClosingFramesClosed, ClosedFrame, Closing, CloseOps
    <2>4. QED
      BY <1>2, <2>2, <2>3 DEF StageOf, Over
  <1>6. QED
    BY <1>3, <1>4, <1>5 DEF StagesKept, Plain

LEMMA AppendFacts ==
  ASSUME NEW S, NEW q \in Seq(S), NEW t \in S
  PROVE  /\ Members(Append(q, t)) = Members(q) \cup {t}
         /\ DOMAIN Append(q, t) = 1 .. Len(q) + 1
         /\ DOMAIN q = 1 .. Len(q)
         /\ Len(q) \in Nat
         /\ \A i \in 1 .. Len(q) : Append(q, t)[i] = q[i]
         /\ Append(q, t)[Len(q) + 1] = t
  <1> DEFINE r == Append(q, t)
  <1>1. /\ DOMAIN r = 1 .. Len(q) + 1 /\ DOMAIN q = 1 .. Len(q) /\ Len(q) \in Nat
        /\ \A i \in 1 .. Len(q) : r[i] = q[i]
        /\ r[Len(q) + 1] = t
    OBVIOUS
  <1> HIDE DEF r
  <1>2. \A i \in 1 .. Len(q) + 1 : i = Len(q) + 1 \/ i \in 1 .. Len(q)
    BY <1>1
  <1>3. \A i \in 1 .. Len(q) : i \in 1 .. Len(q) + 1
    BY <1>1
  <1>4. Len(q) + 1 \in 1 .. Len(q) + 1
    BY <1>1
  <1>5. Members(r) = Members(q) \cup {t}
    BY <1>1, <1>2, <1>3, <1>4 DEF Members
  <1>6. QED
    BY <1>1, <1>5 DEF r

LEMMA AddsTeardownKeeps ==
  ASSUME Holding, TypeOK', AddsTeardown
  PROVE  StagesKept /\ Alone(stack') /\ Distinct'
  <1> USE DEF Holding, ReleaseInv, SharedInv
  <1>1. PICK s \in Subs, t \in Teardowns : AddTeardown(s, t)
    BY DEF AddsTeardown
  <1>2. /\ phase[s] = "open" /\ Fresh(t)
        /\ teardowns' = [teardowns EXCEPT ![s] = Append(@, t)]
        /\ registered' = [registered EXCEPT ![s] = Append(@, t)]
        /\ UNCHANGED <<phase, list, fired, stack, terminals, runs>>
    BY <1>1 DEF AddTeardown, Open
  <1>3. ASSUME NEW r \in Subs, r # s PROVE StageOf(r)' /\ (Over(r) => Over(r)')
    <2>1. teardowns'[r] = teardowns[r] /\ registered'[r] = registered[r]
      BY <1>2, <1>3 DEF TypeOK
    <2>2. Kept(r)
      BY <1>2, <2>1 DEF Kept, KeptData
    <2>3. QED
      BY <2>2, KeptStage
  <1>4. PICK q \in Seq(Teardowns) : q = registered[s] /\ registered'[s] = Append(q, t)
    BY <1>2 DEF TypeOK
  <1>5. StageOf(s)' /\ ~Over(s)
    <2>1. Untouched(s)
      BY <1>2 DEF StageOf
    <2>2. teardowns'[s] = Append(q, t)
      BY <1>2, <1>4, <2>1 DEF Untouched, TypeOK
    <2>3. Untouched(s)'
      BY <1>2, <1>4, <2>1, <2>2, AppendFacts DEF Untouched, Fresh
    <2>4. \A h \in Members(stack') : ~(h.op \in CloseOps /\ h.s = s)
      BY <1>2 DEF ClosingFramesClosed, ClosedFrame, Closing, CloseOps
    <2>5. QED
      BY <1>2, <2>3, <2>4 DEF StageOf, Over
  <1>6. Distinct'
    <2>1. \A r \in Subs : r # s => registered'[r] = registered[r]
      BY <1>2 DEF TypeOK
    <2>2. \A r \in Subs : \A i \in DOMAIN registered[r] : registered[r][i] # t
      BY <1>2 DEF Fresh, Members
    <2>3. /\ DOMAIN registered'[s] = 1 .. Len(q) + 1
          /\ DOMAIN registered[s] = 1 .. Len(q)
          /\ Len(q) \in Nat
          /\ \A i \in 1 .. Len(q) : registered'[s][i] = registered[s][i]
          /\ registered'[s][Len(q) + 1] = t
      BY <1>4, AppendFacts
    <2>4. \A i \in 1 .. Len(q) + 1 : i = Len(q) + 1 \/ i \in 1 .. Len(q)
      BY <2>3
    <2>5. ASSUME NEW r \in Subs, NEW i \in DOMAIN registered'[r]
          PROVE  \/ r = s /\ i = Len(q) + 1 /\ registered'[r][i] = t
                 \/ i \in DOMAIN registered[r] /\ registered'[r][i] = registered[r][i]
      BY <2>1, <2>3, <2>4, <2>5
    <2>6. ASSUME NEW r \in Subs, NEW u \in Subs,
                 NEW i \in DOMAIN registered'[r], NEW j \in DOMAIN registered'[u],
                 registered'[r][i] = registered'[u][j]
          PROVE  r = u /\ i = j
      <3>1. /\ \/ r = s /\ i = Len(q) + 1 /\ registered'[r][i] = t
               \/ i \in DOMAIN registered[r] /\ registered'[r][i] = registered[r][i]
            /\ \/ u = s /\ j = Len(q) + 1 /\ registered'[u][j] = t
               \/ j \in DOMAIN registered[u] /\ registered'[u][j] = registered[u][j]
        BY <2>5
      <3>2. QED
        BY <2>2, <2>6, <3>1 DEF Distinct
    <2>7. QED
      BY <2>6 DEF Distinct
  <1>7. QED
    BY <1>2, <1>3, <1>5, <1>6 DEF StagesKept

LEMMA StagesStep ==
  ASSUME Holding, TypeOK', [Next]_vars
  PROVE  StagesKept /\ Alone(stack') /\ Distinct'
  <1>1. ASSUME ~AddsTeardown PROVE Distinct'
    <2>1. UNCHANGED registered
      BY <1>1 DEF AddsTeardown, vars, Next, UserCall, LibraryStep, CallbackEnds, SubscribeJoin,
        SubscribeStart, SubscribeAborted, CallNext, CallError, CallComplete,
        AddTeardownLate, CallAbort, Deliver, Delivered, RemoveObserver, NativeAbort,
        NextListener, AbortDone, RunTeardown, CloseDone, ReturnToLoop, ReturnFromCall,
        InitThrows, AlgorithmsDone, EventDone, TeardownDone, Collect
    <2>2. QED
      BY <2>1 DEF Holding, ReleaseInv, Distinct
  <1>2. CASE AddsTeardown
    BY <1>2, AddsTeardownKeeps
  <1>3. CASE StartsAborted
    BY <1>1, <1>2, <1>3, StartsAbortedKeeps
  <1>4. CASE Ending
    BY <1>1, <1>2, <1>4, EndingCloses
  <1>5. CASE LastLeaves
    BY <1>1, <1>2, <1>5, LastLeavesCloses
  <1>6. CASE Unwinds
    BY <1>1, <1>2, <1>6, AlgorithmsDoneKeeps, TeardownDoneKeeps, EventDoneKeeps,
       RunTeardownKeeps, CloseDoneKeeps
    DEF Unwinds
  <1>7. CASE ~Ending /\ ~LastLeaves /\ ~Unwinds /\ ~AddsTeardown /\ ~StartsAborted
    BY <1>1, <1>7, PlainKept
  <1>8. QED
    BY <1>2, <1>3, <1>4, <1>5, <1>6, <1>7

(* Who is told of an end now is told by a frame that no close is inside of. *)
LEMMA ToldLastStep ==
  ASSUME Holding, [Next]_vars, StagesKept
  PROVE  ToldLast'
  <1> USE DEF Holding, ReleaseInv
  <1>1. SUFFICES ASSUME NEW o \in Observers, terminals'[o] > 0
                 PROVE  \E s \in Subs : home'[o] = s /\ Over(s)'
    BY DEF ToldLast, Over, Released, IsClosing
  <1>2. CASE terminals[o] > 0
    <2>1. PICK s \in Subs : s = home[o] /\ Over(s)
      BY <1>2 DEF ToldLast
    <2>2. home'[o] = s
      BY <2>1, HomeForever
    <2>3. QED
      BY <2>1, <2>2 DEF StagesKept
  <1>3. CASE ~(terminals[o] > 0)
    <2>1. Telling
      BY <1>1, <1>3, OnlyTellingTells
    <2>2. PICK op \in Ends, p \in Observers : Deliver(op, p)
      BY <2>1 DEF Telling
    <2>3. /\ terminals' = [terminals EXCEPT ![p] = 1]
          /\ home[p] \in Subs /\ phase[home[p]] = "closed" /\ UNCHANGED home
      BY <2>2, TellingStep DEF EndsInv, SharedInv
    <2>4. p = o
      BY <1>1, <1>3, <2>3 DEF TypeOK
    <2>5. PICK s \in Subs : s = home[o] /\ phase[s] = "closed" /\ home'[o] = s
      BY <2>3, <2>4
    <2>6. stack # <<>> /\ Top.op \in Ends /\ o \in Top.rest
      BY <2>2, <2>4 DEF Deliver, LibTurn
    <2>7. /\ Top \in Members(stack) /\ Members(stack) = {Top} \cup Members(Below)
          /\ \A g \in Members(Below) : ~Clash(Top, g)
      BY <2>6, OnTop
    <2>8. Top.s = s
      BY <2>5, <2>6, <2>7 DEF EndsInv, FramesUntold, Untold
    <2>9. ~IsClosing(s)
      BY <2>6, <2>7, <2>8 DEF IsClosing, Clash, Closing, CloseOps, Ends
    <2>10. Over(s)
      BY <2>5, <2>9 DEF StageOf, Over
    <2>11. QED
      BY <2>5, <2>10 DEF StagesKept
  <1>4. QED
    BY <1>2, <1>3

LEMMA ReleaseInvariant == Spec => []Holding
  <1>1. Init => ReleaseInv
    <2>1. Members(<<>>) = {}
      BY DEF Members
    <2>2. QED
      BY <2>1 DEF Init, ReleaseInv, StageOf, Untouched, Distinct, Alone, ToldLast
  <1>2. TypeOK /\ SharedInv /\ EndsInv /\ ReleaseInv /\ TypeOK' /\ [Next]_vars => ReleaseInv'
    BY StagesStep, ToldLastStep DEF Holding, ReleaseInv, StagesKept
  <1>3. TypeOK /\ SharedInv /\ EndsInv /\ ReleaseInv => Holding
    BY DEF Holding
  <1>4. QED
    BY <1>1, <1>2, <1>3, EndsInvariant, PTL DEF Spec

-----------------------------------------------------------------------------
(* closeSubscriber() runs each teardown at most once, and one registered    *)
(* later before one registered earlier, whatever the teardowns call.        *)
THEOREM UnwoundInOrder == Spec => []TeardownsLastFirst
  <1>1. Holding => TeardownsLastFirst
    <2> SUFFICES ASSUME Holding, NEW s \in Subs,
                        NEW i \in DOMAIN registered[s], NEW j \in DOMAIN registered[s]
                 PROVE  /\ runs[registered[s][i]] <= 1
                        /\ i < j /\ runs[registered[s][i]] = 1 => runs[registered[s][j]] = 1
      BY DEF TeardownsLastFirst
    <2> USE DEF Holding, ReleaseInv
    <2>1. PICK q \in Seq(Teardowns) : q = registered[s]
      BY DEF TypeOK
    <2>2. q[i] \in Members(q) /\ q[j] \in Members(q) /\ i \in 1 .. Len(q) /\ j \in 1 .. Len(q)
      BY <2>1 DEF Members
    <2>3. CASE Untouched(s)
      BY <2>1, <2>2, <2>3 DEF Untouched
    <2>4. CASE Released(s)
      BY <2>1, <2>2, <2>4 DEF Released
    <2>5. ASSUME NEW f \in Members(stack), f.op = "teardown", f.s = s
          PROVE  /\ runs[q[i]] <= 1
                 /\ i < j /\ runs[q[i]] = 1 => runs[q[j]] = 1
      <3>1. f \in Frame
        BY DEF Members, TypeOK
      <3>2. f.tds \in Seq(Teardowns)
        BY <2>5, <3>1 DEF Frame, CallFrame, SignalFrame
      <3>3. Stage(f)
        BY <2>5 DEF StageOf, CloseOps
      <3>4. Unwinding(f, Len(f.tds), q)
        BY <2>1, <2>5, <3>3 DEF Stage
      <3>5. PICK n \in Nat : n = Len(f.tds)
        BY <3>2
      <3>6. \A k \in 1 .. Len(q) : runs[q[k]] = IF k > n \/ (k = n /\ f.at = "call") THEN 1 ELSE 0
        BY <3>4, <3>5 DEF Unwinding
      <3>7. QED
        BY <2>2, <3>5, <3>6
    <2>6. Untouched(s) \/ Released(s) \/ \E f \in Members(stack) : f.op = "teardown" /\ f.s = s
      <3>1. CASE phase[s] # "closed"
        BY <3>1 DEF StageOf
      <3>2. CASE phase[s] = "closed" /\ ~Released(s)
        <4>1. PICK f \in Members(stack) : f.op \in CloseOps /\ f.s = s /\ Stage(f)
          BY <3>2 DEF StageOf, IsClosing
        <4>2. QED
          BY <4>1 DEF Stage, CloseOps
      <3>3. QED
        BY <3>1, <3>2
    <2>7. QED
      BY <2>1, <2>3, <2>4, <2>5, <2>6
  <1>2. QED
    BY <1>1, ReleaseInvariant, PTL

(* When no call is in progress, a closed Subscriber has aborted its signal  *)
(* and released its observers, and each teardown it was ever given has run; *)
(* an active one has run none.                                              *)
THEOREM RunsReleased == Spec => []QuiescentRunsReleased
  <1>1. Holding => QuiescentRunsReleased
    <2> SUFFICES ASSUME Holding, stack = <<>>, NEW s \in Subs
                 PROVE  /\ phase[s] = "closed" => s \in fired /\ list[s] = {}
                        /\ \A t \in Members(registered[s]) :
                             runs[t] = IF phase[s] = "closed" THEN 1 ELSE 0
      BY DEF QuiescentRunsReleased
    <2>1. StageOf(s)
      BY DEF Holding, ReleaseInv
    <2>2. ~IsClosing(s)
      BY DEF IsClosing, Members
    <2>3. QED
      BY <2>1, <2>2 DEF StageOf, Untouched, Released
  <1>2. QED
    BY <1>1, ReleaseInvariant, PTL

(* An observer is told of an end only when its Subscriber is closed, its    *)
(* signal aborted, and each of its teardowns has run.                       *)
THEOREM EndComesLast == Spec => []TerminalComesLast
  <1>1. Holding => TerminalComesLast
    BY DEF Holding, ReleaseInv, ToldLast, Over, Released, TerminalComesLast
  <1>2. QED
    BY <1>1, ReleaseInvariant, PTL

-----------------------------------------------------------------------------
(* What becomes of each observer of the platform Observable: one whose      *)
(* signal is aborted leaves its Subscriber, and when a Subscriber is over,  *)
(* its observers have all been told of the end, except those that left by   *)
(* their signal; or none has, when a source that threw as it was closed     *)
(* took the end away.                                                       *)

SignalOps == {"abort", "dispatch"}

(* abort() removes observers that subscribed with its own signal, and       *)
(* dispatches when the signal is aborted.  Only iterator closers throw.     *)
Signals(f) ==
  /\ f.op \in SignalOps => \A o \in f.rest : sig[o] = f.c /\ home[o] \in Subs
  /\ f.op = "dispatch" => f.c \in aborted
  /\ f.thrown => IteratorClosers # {}

FramesSignal == \A f \in Members(stack) : Signals(f)

(* The algorithms of controller c are running. *)
Aborting(c) == \E f \in Members(stack) : f.op = "abort" /\ f.c = c

(* The listeners of c are running, that of o is still to be run. *)
Pending(o, c) == \E f \in Members(stack) : f.op = "dispatch" /\ f.c = c /\ o \in f.rest

AbortsPending ==
  \A o \in Observers, c \in aborted, s \in Subs :
    sig[o] = c /\ home[o] = s /\ o \in list[s] => Pending(o, c)

-----------------------------------------------------------------------------
(* What steps do to the frames of abort().                                  *)

Like(g, f) == g.op = f.op /\ g.c = f.c /\ g.rest = f.rest

Spent(f) == f.op = "dispatch" /\ f.rest = {}

GoesOn(g, f) == (g.op \in SignalOps => Like(g, f)) /\ g.thrown = f.thrown

Carried ==
  /\ \A f \in Members(stack) : f.op \in SignalOps =>
       Spent(f) \/ \E g \in Members(stack') : Like(g, f)
  /\ \A g \in Members(stack') :
       \/ \E f \in Members(stack) : GoesOn(g, f)
       \/ Signals(g)'

LEMMA CarriedPush ==
  ASSUME TypeOK, NEW f \in Frame, Signals(f)', stack' = <<f>> \o stack
  PROVE  Carried
  <1>1. stack \in Seq(Frame)
    BY DEF TypeOK
  <1>2. Members(stack') = {f} \cup Members(stack)
    BY <1>1, Pushed
  <1>3. QED
    BY <1>2 DEF Carried, Like, GoesOn

LEMMA CarriedPop ==
  ASSUME TypeOK, stack # <<>>, stack' = Tail(stack), Top.op \in SignalOps => Spent(Top)
  PROVE  Carried
  <1>1. stack' = Below
    BY DEF Below
  <1>2. Members(stack) = {Top} \cup Members(stack')
    BY <1>1, OnTop
  <1>3. QED
    BY <1>2 DEF Carried, Like, GoesOn

LEMMA CarriedReplace ==
  ASSUME TypeOK, stack # <<>>, NEW f \in Frame, stack' = <<f>> \o Tail(stack),
         Top.op \in SignalOps => Like(f, Top),
         GoesOn(f, Top) \/ Signals(f)'
  PROVE  Carried
  <1>1. stack' = <<f>> \o Below
    BY DEF Below
  <1>2. Members(stack) = {Top} \cup Members(Below) /\ Members(stack') = {f} \cup Members(Below)
    BY <1>1, OnTop, Pushed
  <1>3. QED
    BY <1>2 DEF Carried, Like, GoesOn

(* A frame that is not of abort(), and that nothing has thrown to. *)
LEMMA Mute ==
  ASSUME NEW f, f.op \notin SignalOps, f.thrown = FALSE
  PROVE  Signals(f)'
  BY DEF Signals, SignalOps

LEMMA CarriedEnding ==
  ASSUME TypeOK, Ending
  PROVE  Carried
  <1>1. ASSUME NEW s \in Subs, NEW op \in Ends, NEW q \in Seq(Frame), Terminate(op, s, q),
               Members(q) \subseteq Members(stack),
               \A f \in Members(stack) : f.op \in SignalOps => f \in Members(q)
        PROVE  Carried
    <2> DEFINE f == SubFrame("algorithms", s, {}, "call")
               g == SubFrame(op, s, list[s], "run")
    <2>1. /\ f \in Frame /\ f.op \notin SignalOps /\ f.thrown = FALSE
          /\ g \in Frame /\ g.op \notin SignalOps /\ g.thrown = FALSE
      BY SubFrameType DEF SubOps, SubFrame, Ends, TypeOK, SignalOps
    <2>2. stack' = <<f, g>> \o q
      BY <1>1 DEF Terminate
    <2> HIDE DEF f, g
    <2>3. PICK h \in Frame, m \in Frame : h = f /\ m = g
      BY <2>1
    <2>4. Members(stack') = {h, m} \cup Members(q)
      BY <2>2, <2>3, PushedTwo
    <2>5. Signals(h)' /\ Signals(m)'
      BY <2>1, <2>3, Mute
    <2>6. QED
      BY <1>1, <2>4, <2>5 DEF Carried, Like, GoesOn
  <1>2. stack \in Seq(Frame)
    BY DEF TypeOK
  <1>3. ASSUME NEW s \in Subs, CallError(s) \/ CallComplete(s) PROVE Carried
    <2>1. PICK op \in Ends : Terminate(op, s, stack)
      BY <1>3 DEF CallError, CallComplete, Ends
    <2>2. QED
      BY <1>1, <1>2, <2>1
  <1>4. CASE InitThrows
    <2>1. /\ stack # <<>> /\ Top.op = "init" /\ Terminate("error", Top.s, Tail(stack))
          /\ Top.s \in Subs
      BY <1>4 DEF InitThrows, Returning, Open
    <2>2. /\ Below \in Seq(Frame) /\ Members(stack) = {Top} \cup Members(Below)
          /\ Terminate("error", Top.s, Below)
      BY <2>1, OnTop DEF Below
    <2>3. PICK s \in Subs : s = Top.s
      BY <2>1
    <2>4. "error" \in Ends
      BY DEF Ends
    <2>5. QED
      BY <1>1, <2>1, <2>2, <2>3, <2>4 DEF SignalOps
  <1>5. QED
    BY <1>3, <1>4 DEF Ending

Leaving == \E op \in SignalOps, o \in Observers : RemoveObserver(op, o)

LEMMA CarriedStep ==
  ASSUME TypeOK, [Next]_vars, ~Leaving, ~NativeAbort, ~CloseDone
  PROVE  Carried
  <1> USE ConstantsOK
  <1>1. ASSUME stack' = stack PROVE Carried
    BY <1>1 DEF Carried, Like, GoesOn
  <1>2. CASE UNCHANGED vars
    BY <1>1, <1>2 DEF vars
  <1>3. CASE \/ \E o \in Observers, c \in Controllers \cup {NoCtl} : SubscribeJoin(o, c)
             \/ \E s \in Subs, t \in Teardowns : AddTeardown(s, t)
             \/ \E s \in Subs : Collect(s)
    BY <1>1, <1>3 DEF SubscribeJoin, AddTeardown, Collect
  <1>4. ASSUME NEW s \in Subs, NEW op \in {"init", "late"},
               stack' = <<SubFrame(op, s, {}, "call")>> \o stack
        PROVE  Carried
    <2> DEFINE f == SubFrame(op, s, {}, "call")
    <2>1. f \in Frame /\ f.op \notin SignalOps /\ f.thrown = FALSE
      BY SubFrameType DEF SubOps, SubFrame, SignalOps
    <2>2. stack' = <<f>> \o stack
      BY <1>4
    <2> HIDE DEF f
    <2>3. QED
      BY <2>1, <2>2, Mute, CarriedPush
  <1>5. CASE \/ \E o \in Observers, c \in Controllers \cup {NoCtl}, s \in Subs :
                  SubscribeStart(o, c, s)
             \/ \E s \in Subs, c \in Controllers : SubscribeAborted(c, s)
             \/ \E s \in Subs, t \in Teardowns : AddTeardownLate(s, t)
    BY <1>4, <1>5 DEF SubscribeStart, SubscribeAborted, AddTeardownLate, Push
  <1>6. ASSUME NEW s \in Subs, CallNext(s) PROVE Carried
    <2> DEFINE f == SubFrame("next", s, list[s], "run")
    <2>1. f \in Frame /\ f.op \notin SignalOps /\ f.thrown = FALSE
      BY SubFrameType DEF SubOps, SubFrame, SignalOps, TypeOK
    <2>2. stack' = <<f>> \o stack
      BY <1>6 DEF CallNext, Push
    <2> HIDE DEF f
    <2>3. QED
      BY <2>1, <2>2, Mute, CarriedPush
  <1>7. ASSUME NEW c \in Controllers, CallAbort(c) PROVE Carried
    <2> DEFINE f == AbortFrame(c, Armed(c))
    <2>1. f \in Frame /\ f.op = "abort" /\ f.c = c /\ f.rest = Armed(c) /\ f.thrown = FALSE
      BY AbortFrameType DEF AbortFrame, Armed
    <2>2. stack' = <<f>> \o stack /\ UNCHANGED <<sig, home>>
      BY <1>7 DEF CallAbort, Push
    <2> HIDE DEF f
    <2>3. PICK g \in Frame : g = f
      BY <2>1
    <2>4. Signals(g)'
      BY <2>1, <2>2, <2>3 DEF Signals, Armed, SignalOps
    <2>5. QED
      BY <2>2, <2>3, <2>4, CarriedPush
  <1>8. ASSUME NEW op \in {"next", "error", "complete"}, NEW o \in Observers, Deliver(op, o)
        PROVE  Carried
    <2> DEFINE f == [Top EXCEPT !.rest = @ \ {o}, !.at = "call"]
    <2>1. stack # <<>> /\ Top.op = op /\ stack' = <<f>> \o Tail(stack)
      BY <1>8 DEF Deliver, LibTurn, Replace
    <2>2. Top \in CallFrame
      BY <2>1, CallFrameType DEF SubOps
    <2>3. f \in Frame /\ f.op = Top.op /\ f.thrown = Top.thrown /\ Top.op \notin SignalOps
      BY <2>1, <2>2 DEF Frame, CallFrame, SignalOps
    <2> HIDE DEF f
    <2>4. QED
      BY <2>1, <2>3, CarriedReplace DEF GoesOn
  <1>9. CASE NextListener \/ ReturnToLoop \/ RunTeardown
    <2>1. PICK at \in {"run", "call"} :
            stack # <<>> /\ stack' = <<[Top EXCEPT !.at = at]>> \o Tail(stack)
      BY <1>9 DEF NextListener, ReturnToLoop, RunTeardown, LibTurn, Returning, Replace
    <2> DEFINE f == [Top EXCEPT !.at = at]
    <2>2. /\ f \in Frame /\ f.op = Top.op /\ f.c = Top.c /\ f.rest = Top.rest
          /\ f.thrown = Top.thrown
      BY <2>1, TopFrameType DEF Frame, CallFrame, SignalFrame
    <2>3. stack' = <<f>> \o Tail(stack)
      BY <2>1
    <2> HIDE DEF f
    <2>4. QED
      BY <2>1, <2>2, <2>3, CarriedReplace DEF GoesOn, Like
  <1>10. CASE AbortDone \/ ReturnFromCall
                \/ \E op \in {"next", "error", "complete"} : Delivered(op)
    BY <1>10, CarriedPop
    DEF AbortDone, ReturnFromCall, Delivered, LibTurn, Returning, Pop, SignalOps, Spent
  <1>11. ASSUME NEW throws \in BOOLEAN, AlgorithmsDone(throws) PROVE Carried
    <2> DEFINE f == [Top EXCEPT !.op = "event", !.thrown = throws]
    <2>1. /\ stack # <<>> /\ stack' = <<f>> \o Tail(stack) /\ Top.op = "algorithms"
          /\ throws => IteratorClosers # {}
      BY <1>11 DEF AlgorithmsDone, Returning, Replace
    <2>2. Top \in CallFrame
      BY <2>1, CallFrameType DEF SubOps
    <2>3. f \in Frame /\ f.op = "event" /\ f.thrown = throws
      BY <2>2 DEF Frame, CallFrame, SubOps
    <2> HIDE DEF f
    <2>4. PICK g \in Frame : g = f
      BY <2>3
    <2>5. Signals(g)'
      BY <2>1, <2>3, <2>4 DEF Signals, SignalOps
    <2>6. QED
      BY <2>1, <2>4, <2>5, CarriedReplace DEF SignalOps
  <1>12. CASE EventDone
    <2> DEFINE tds == LastFirst(teardowns[Top.s])
               f   == [Top EXCEPT !.op = "teardown", !.at = "run", !.tds = tds]
    <2>1. stack # <<>> /\ stack' = <<f>> \o Tail(stack) /\ Top.op = "event"
      BY <1>12 DEF EventDone, Returning, Replace
    <2>2. Top \in CallFrame
      BY <2>1, CallFrameType DEF SubOps
    <2>3. tds \in Seq(Teardowns)
      BY <2>2, LastFirstType DEF CallFrame, TypeOK
    <2> HIDE DEF tds
    <2>4. f \in Frame /\ f.op = "teardown" /\ f.thrown = Top.thrown
      BY <2>2, <2>3 DEF Frame, CallFrame, SubOps
    <2> HIDE DEF f
    <2>5. QED
      BY <2>1, <2>4, CarriedReplace DEF GoesOn, SignalOps
  <1>13. ASSUME NEW throws \in BOOLEAN, TeardownDone(throws) PROVE Carried
    <2> DEFINE f == [Top EXCEPT !.at = "run", !.tds = Tail(@),
                                !.thrown = @ \/ throws]
    <2>1. /\ stack # <<>> /\ stack' = <<f>> \o Tail(stack) /\ Top.op = "teardown"
          /\ Top.tds # <<>> /\ (throws => Head(Top.tds) \in IteratorClosers)
      BY <1>13 DEF TeardownDone, Returning, Replace
    <2>2. Top \in CallFrame /\ Tail(Top.tds) \in Seq(Teardowns)
      BY <2>1, CallFrameType, PopStack DEF SubOps
    <2>3. /\ f \in Frame /\ f.op = "teardown"
          /\ f.thrown = (Top.thrown \/ throws)
      BY <2>1, <2>2 DEF Frame, CallFrame, SubOps
    <2>4. (throws => IteratorClosers # {}) /\ Top.thrown \in BOOLEAN /\ Top.op \notin SignalOps
      BY <2>1, <2>2 DEF CallFrame, SignalOps
    <2> HIDE DEF f
    <2>5. CASE throws
      <3>1. PICK g \in Frame : g = f
        BY <2>3
      <3>2. Signals(g)'
        BY <2>3, <2>4, <2>5, <3>1 DEF Signals, SignalOps
      <3>3. QED
        BY <2>1, <2>4, <3>1, <3>2, CarriedReplace
    <2>6. CASE ~throws
      <3>1. GoesOn(f, Top)
        BY <2>3, <2>4, <2>6 DEF GoesOn, SignalOps
      <3>2. QED
        BY <2>1, <2>3, <2>4, <3>1, CarriedReplace
    <2>7. QED
      BY <2>5, <2>6
  <1>14. QED
    BY <1>2, <1>3, <1>5, <1>6, <1>7, <1>8, <1>9, <1>10, <1>11, <1>12, <1>13,
       CarriedEnding
    DEF Next, UserCall, LibraryStep, CallbackEnds, Ending, Leaving, SignalOps

-----------------------------------------------------------------------------
(* The steps that do not carry them all.                                    *)

(* One observer is removed; the frame that removes it stays. *)
LEMMA LeavingFrames ==
  ASSUME TypeOK, NEW op \in SignalOps, NEW o \in Observers, RemoveObserver(op, o)
  PROVE  /\ stack # <<>> /\ Top.op = op /\ o \in Top.rest
         /\ Members(Below) \subseteq Members(stack')
         /\ \E f \in Members(stack') :
              /\ f.op = op /\ f.c = Top.c /\ f.rest = Top.rest \ {o} /\ f.thrown = Top.thrown
              /\ \A h \in Members(stack') :
                   h = f \/ h \in Members(Below) \/ (h.op \notin SignalOps /\ h.thrown = FALSE)
         /\ Adjacent(stack) => Adjacent(stack')
  <1> DEFINE s == home[o]
             e == [Top EXCEPT !.rest = @ \ {o}]
             a == SubFrame("algorithms", s, {}, "call")
  <1>1. /\ stack # <<>> /\ Top.op = op /\ o \in Top.rest
        /\ IF IsLast(s, o) THEN stack' = <<a, e>> \o Below ELSE stack' = <<e>> \o Below
    BY DEF RemoveObserver, LibTurn, Replace, Below
  <1>2. Top \in SignalFrame
    BY <1>1, SignalFrameType DEF SignalOps
  <1>3. e \in Frame /\ e.op = op /\ e.c = Top.c /\ e.rest = Top.rest \ {o} /\ e.thrown = Top.thrown
    BY <1>1, <1>2 DEF Frame, SignalFrame
  <1> HIDE DEF e
  <1>4. PICK f \in Frame : f = e
    BY <1>3
  <1>5. /\ Below \in Seq(Frame)
        /\ Adjacent(stack) => Adjacent(Below)
    BY <1>1, OnTop
  <1>6. f.op \notin CloseOps /\ f.op \notin Ends
    BY <1>3, <1>4 DEF SignalOps, CloseOps, Ends
  <1>7. CASE IsLast(s, o)
    <2>1. /\ a \in Frame /\ a.op = "algorithms" /\ a.thrown = FALSE
      <3>1. s \in Subs
        BY <1>7 DEF IsLast, Open
      <3>2. QED
        BY <3>1, SubFrameType DEF SubOps, SubFrame
    <2> HIDE DEF a
    <2>2. PICK g \in Frame : g = a
      BY <2>1
    <2>3. stack' = <<g, f>> \o Below
      BY <1>1, <1>4, <1>7, <2>2
    <2>4. /\ Members(stack') = {g, f} \cup Members(Below)
          /\ Adjacent(stack') <=> /\ Adjacent(Below) /\ ~Astray(g, f)
                                  /\ Below # <<>> => ~Astray(f, Head(Below))
      BY <1>5, <2>3, PushedTwo
    <2>5. Adjacent(stack) => Adjacent(stack')
      BY <1>5, <1>6, <2>4 DEF Astray
    <2>6. QED
      BY <1>1, <1>3, <1>4, <2>1, <2>2, <2>4, <2>5 DEF SignalOps
  <1>8. CASE ~IsLast(s, o)
    <2>1. stack' = <<f>> \o Below
      BY <1>1, <1>4, <1>8
    <2>2. /\ Members(stack') = {f} \cup Members(Below)
          /\ Adjacent(stack') <=> Adjacent(Below) /\ (Below # <<>> => ~Astray(f, Head(Below)))
      BY <1>5, <2>1, Pushed
    <2>3. Adjacent(stack) => Adjacent(stack')
      BY <1>5, <1>6, <2>2 DEF Astray
    <2>4. QED
      BY <1>1, <1>3, <1>4, <2>2, <2>3
  <1>9. QED
    BY <1>7, <1>8

(* The signal aborts: the listeners of those that are armed are to be run. *)
LEMMA NativeAbortFrames ==
  ASSUME TypeOK, NativeAbort
  PROVE  /\ stack # <<>> /\ Top.op = "abort" /\ Top.rest = {}
         /\ aborted' = aborted \cup {Top.c}
         /\ UNCHANGED <<phase, list, home, sig, terminals>>
         /\ Members(Below) \subseteq Members(stack')
         /\ \A h \in Members(stack') : h \in Members(Below) \/ Signals(h)'
         /\ Top.c \notin aborted =>
              \E f \in Members(stack') : f.op = "dispatch" /\ f.c = Top.c /\ f.rest = Armed(Top.c)
  <1> DEFINE e == [Top EXCEPT !.op = "dispatch", !.rest = ListenersOf(Top.c), !.at = "call"]
  <1>1. /\ stack # <<>> /\ Top.op = "abort" /\ Top.rest = {}
        /\ aborted' = aborted \cup {Top.c}
        /\ UNCHANGED <<phase, list, home, sig, terminals>>
        /\ IF Top.c \in aborted THEN stack' = Below ELSE stack' = <<e>> \o Below
    BY DEF NativeAbort, LibTurn, Replace, Pop, Below
  <1>2. Top \in SignalFrame /\ e \in Frame
    BY <1>1, SignalFrameType DEF ListenersOf, Armed
  <1>3. /\ e.op = "dispatch" /\ e.c = Top.c /\ e.rest = Armed(Top.c) /\ e.thrown = FALSE
        /\ Top.c \in Controllers
    BY <1>2 DEF SignalFrame, ListenersOf
  <1> HIDE DEF e
  <1>4. CASE Top.c \in aborted
    BY <1>1, <1>4
  <1>5. CASE Top.c \notin aborted
    <2>1. PICK f \in Frame : f = e
      BY <1>2
    <2>2. PICK c \in Controllers : c = Top.c
      BY <1>3
    <2>3. Below \in Seq(Frame) /\ stack' = <<f>> \o Below
      BY <1>1, <1>5, <2>1, OnTop
    <2>4. Members(stack') = {f} \cup Members(Below)
      BY <2>3, Pushed
    <2>5. f.op = "dispatch" /\ f.c = c /\ f.rest = Armed(c) /\ f.thrown = FALSE
      BY <1>3, <2>1, <2>2
    <2>6. Signals(f)'
      BY <1>1, <2>2, <2>5 DEF Signals, Armed
    <2>7. QED
      BY <1>1, <2>2, <2>4, <2>5, <2>6
  <1>6. QED
    BY <1>4, <1>5

(* A close ends.  When it threw, the error() or complete() that made it     *)
(* ends as well: it was of the same Subscriber.                             *)
LEMMA CloseDoneFrames ==
  ASSUME TypeOK, Adjacent(stack), CloseDone
  PROVE  /\ stack # <<>> /\ Top.op = "teardown"
         /\ Members(stack') \subseteq Members(stack)
         /\ Adjacent(stack')
         /\ \A f \in Members(stack) : f.op \in SignalOps => f \in Members(stack')
         /\ UNCHANGED <<phase, list, aborted, home, sig, terminals>>
         /\ \/ \A f \in Members(stack) : f.op \in Ends => f \in Members(stack')
            \/ /\ Top.thrown
               /\ \A f \in Members(stack) : f.op \in Ends =>
                    f.s = Top.s \/ f \in Members(stack')
               /\ EndsDiffer(stack) => EndsNot(Top.s, stack')
  <1>1. stack # <<>> /\ Top.op = "teardown" /\ UNCHANGED <<phase, list, aborted, home, sig, terminals>>
    BY DEF CloseDone, LibTurn
  <1>2. /\ Below \in Seq(Frame) /\ Members(stack) = {Top} \cup Members(Below)
        /\ Adjacent(Below) /\ (Below # <<>> => ~Astray(Top, Head(Below)))
    BY <1>1, OnTop
  <1>3. Top.op \notin SignalOps /\ Top.op \notin Ends /\ Top.op \in CloseOps
    BY <1>1 DEF SignalOps, Ends, CloseOps
  <1>4. CASE stack' = Below
    BY <1>1, <1>2, <1>3, <1>4
  <1>5. CASE ~(stack' = Below)
    <2>1. Len(stack) > 1 /\ stack[2].op \in Ends /\ Top.thrown /\ stack' = Tail(Below)
      BY <1>5 DEF CloseDone, CalledBy, Below, Ends
    <2>2. PICK q \in Seq(Frame) : q = Below
      BY <1>2
    <2>3. q # <<>> /\ q[1] = stack[2]
      <3>1. stack \in Seq(Frame)
        BY DEF TypeOK
      <3>2. /\ \A i \in 1 .. Len(stack) - 1 : Tail(stack)[i] = stack[i + 1]
            /\ Len(stack) \in Nat
        BY <1>1, <3>1, PopStack
      <3>3. 1 \in 1 .. Len(stack) - 1
        BY <2>1, <3>2
      <3>4. q # <<>>
        BY <2>1, <2>2, <3>1, TailNotEmpty DEF Below
      <3>5. QED
        BY <2>2, <3>2, <3>3, <3>4 DEF Below
    <2>4. PICK g \in Frame, r \in Seq(Frame) : g = Head(q) /\ r = Tail(q) /\ q = <<g>> \o r
      BY <2>3, PopStack, Decompose
    <2>5. g.op \in Ends /\ stack' = r
      <3>1. Head(q) = q[1]
        BY <2>3, PopStack
      <3>2. QED
        BY <2>1, <2>2, <2>3, <2>4, <3>1
    <2>6. Members(q) = {g} \cup Members(r) /\ (Adjacent(q) => Adjacent(r))
      BY <2>4, PushMembers, PushAdjacent
    <2>7. g.s = Top.s
      BY <1>2, <1>3, <2>2, <2>3, <2>4, <2>5 DEF Astray
    <2>8. EndsDiffer(stack) => EndsNot(Top.s, stack')
      <3>1. stack \in Seq(Frame)
        BY DEF TypeOK
      <3>2. EndsDiffer(stack) => EndsDiffer(q)
        BY <1>1, <2>2, <3>1, DifferPop DEF Below
      <3>3. EndsDiffer(q) => EndsNot(g.s, r)
        BY <2>3, <2>4, <2>5, DifferPop
      <3>4. QED
        BY <2>5, <2>7, <3>2, <3>3
    <2>9. g.op \notin SignalOps
      BY <2>5 DEF SignalOps, Ends
    <2>10. QED
      BY <1>1, <1>2, <1>3, <2>1, <2>2, <2>5, <2>6, <2>7, <2>8, <2>9
  <1>6. QED
    BY <1>4, <1>5

LEMMA AdjacentStep ==
  ASSUME TypeOK, Adjacent(stack), [Next]_vars
  PROVE  Adjacent(stack')
  <1>1. stack \in Seq(Frame)
    BY DEF TypeOK
  <1>2. ASSUME NEW s \in Subs, NEW op \in Ends, NEW q \in Seq(Frame), Terminate(op, s, q),
               Adjacent(q)
        PROVE  Adjacent(stack')
    <2> DEFINE f == SubFrame("algorithms", s, {}, "call")
               g == SubFrame(op, s, list[s], "run")
    <2>1. /\ f \in Frame /\ f.s = s
          /\ g \in Frame /\ g.op \notin CloseOps /\ g.s = s
      BY SubFrameType DEF SubOps, SubFrame, Ends, CloseOps, TypeOK
    <2>2. stack' = <<f, g>> \o q
      BY <1>2 DEF Terminate
    <2> HIDE DEF f, g
    <2>3. Adjacent(stack') <=> /\ Adjacent(q) /\ ~Astray(f, g)
                               /\ q # <<>> => ~Astray(g, Head(q))
      BY <2>1, <2>2, PushedTwo
    <2>4. QED
      BY <1>2, <2>1, <2>3 DEF Astray
  <1>3. CASE Ending
    <2>1. ASSUME NEW s \in Subs, CallError(s) \/ CallComplete(s) PROVE Adjacent(stack')
      <3>1. PICK op \in Ends : Terminate(op, s, stack)
        BY <2>1 DEF CallError, CallComplete, Ends
      <3>2. QED
        BY <1>1, <1>2, <3>1
    <2>2. ASSUME InitThrows PROVE Adjacent(stack')
      <3>1. stack # <<>> /\ Terminate("error", Top.s, Below) /\ Top.s \in Subs
        BY <2>2 DEF InitThrows, Returning, Open, Below
      <3>2. Below \in Seq(Frame) /\ Adjacent(Below)
        BY <3>1, OnTop
      <3>3. PICK s \in Subs : s = Top.s
        BY <3>1
      <3>4. QED
        BY <1>2, <3>1, <3>2, <3>3 DEF Ends
    <2>3. QED
      BY <1>3, <2>1, <2>2 DEF Ending
  <1>4. CASE LastLeaves
    BY <1>4, LeavingFrames DEF LastLeaves, SignalOps
  <1>5. CASE CloseDone
    BY <1>5, CloseDoneFrames
  (* The close that the innermost frame carries out goes on. *)
  <1>6. ASSUME stack # <<>>, NEW f \in Frame, stack' = <<f>> \o Below,
               Top.op \in CloseOps, f.s = Top.s
        PROVE  Adjacent(stack')
    <2>1. /\ Below \in Seq(Frame) /\ Adjacent(Below)
          /\ Below # <<>> => ~Astray(Top, Head(Below))
      BY <1>6, OnTop
    <2>2. Adjacent(stack') <=> Adjacent(Below) /\ (Below # <<>> => ~Astray(f, Head(Below)))
      BY <1>6, <2>1, Pushed
    <2>3. QED
      BY <1>6, <2>1, <2>2 DEF Astray
  <1>7. ASSUME stack # <<>>, Top.op \in CloseOps
        PROVE  /\ Top \in CallFrame /\ Top.tds \in Seq(Teardowns)
               /\ Top.tds # <<>> => Tail(Top.tds) \in Seq(Teardowns)
               /\ LastFirst(teardowns[Top.s]) \in Seq(Teardowns)
    <2>1. Top \in CallFrame /\ Top.tds \in Seq(Teardowns) /\ Top.s \in Subs
      BY <1>7, CallFrameType DEF SubOps, CloseOps
    <2>2. PICK q \in Seq(Teardowns) : q = teardowns[Top.s]
      BY <2>1 DEF TypeOK
    <2>3. LastFirst(q) \in Seq(Teardowns)
      BY LastFirstType
    <2>4. QED
      BY <2>1, <2>2, <2>3, PopStack
  <1>8. ASSUME NEW throws \in BOOLEAN, AlgorithmsDone(throws) PROVE Adjacent(stack')
    <2> DEFINE f == [Top EXCEPT !.op = "event", !.thrown = throws]
    <2>1. stack # <<>> /\ Top.op \in CloseOps /\ stack' = <<f>> \o Below
      BY <1>8 DEF AlgorithmsDone, Returning, Replace, Below, CloseOps
    <2>2. f \in Frame /\ f.s = Top.s
      BY <1>7, <2>1 DEF Frame, CallFrame, SubOps
    <2> HIDE DEF f
    <2>3. QED
      BY <1>6, <2>1, <2>2
  <1>9. ASSUME NEW throws \in BOOLEAN, TeardownDone(throws) PROVE Adjacent(stack')
    <2> DEFINE f == [Top EXCEPT !.at = "run", !.tds = Tail(@), !.thrown = @ \/ throws]
    <2>1. /\ stack # <<>> /\ Top.op \in CloseOps /\ Top.tds # <<>>
          /\ stack' = <<f>> \o Below
      BY <1>9 DEF TeardownDone, Returning, Replace, Below, CloseOps
    <2>2. f \in Frame /\ f.s = Top.s
      BY <1>7, <2>1 DEF Frame, CallFrame, SubOps
    <2> HIDE DEF f
    <2>3. QED
      BY <1>6, <2>1, <2>2
  <1>10. CASE EventDone
    <2> DEFINE tds == LastFirst(teardowns[Top.s])
               f   == [Top EXCEPT !.op = "teardown", !.at = "run", !.tds = tds]
    <2>1. stack # <<>> /\ Top.op \in CloseOps /\ stack' = <<f>> \o Below
      BY <1>10 DEF EventDone, Returning, Replace, Below, CloseOps
    <2>2. Top \in CallFrame /\ tds \in Seq(Teardowns)
      BY <1>7, <2>1
    <2> HIDE DEF tds
    <2>3. f \in Frame /\ f.s = Top.s
      BY <2>2 DEF Frame, CallFrame, SubOps
    <2> HIDE DEF f
    <2>4. QED
      BY <1>6, <2>1, <2>3
  <1>11. CASE RunTeardown
    <2> DEFINE f == [Top EXCEPT !.at = "call"]
    <2>1. stack # <<>> /\ Top.op \in CloseOps /\ stack' = <<f>> \o Below
      BY <1>11 DEF RunTeardown, LibTurn, Replace, Below, CloseOps
    <2>2. f \in Frame /\ f.s = Top.s
      BY <1>7, <2>1 DEF Frame, CallFrame, SubOps
    <2> HIDE DEF f
    <2>3. QED
      BY <1>6, <2>1, <2>2
  <1>12. CASE ~Ending /\ ~LastLeaves /\ ~Unwinds
    BY <1>12, PlainStep DEF Plain
  <1>13. QED
    BY <1>3, <1>4, <1>5, <1>8, <1>9, <1>10, <1>11, <1>12 DEF Unwinds

(* An observer keeps the signal it subscribed with. *)
LEMMA SigForever ==
  ASSUME TypeOK, [Next]_vars, NEW o \in Observers, home[o] \in Subs
  PROVE  sig'[o] = sig[o]
  <1> USE ConstantsOK
  <1>1. CASE \/ \E p \in Observers, c \in Controllers \cup {NoCtl} :
                  \/ SubscribeJoin(p, c)
                  \/ \E s \in Subs : SubscribeStart(p, c, s)
    BY <1>1 DEF TypeOK, SubscribeJoin, SubscribeStart
  <1>2. CASE ~\E p \in Observers, c \in Controllers \cup {NoCtl} :
                \/ SubscribeJoin(p, c)
                \/ \E s \in Subs : SubscribeStart(p, c, s)
    <2>1. UNCHANGED sig
      BY <1>2 DEF vars, Next, UserCall, LibraryStep, CallbackEnds, SubscribeAborted, CallNext,
        CallError, CallComplete, AddTeardown, AddTeardownLate, CallAbort, Deliver, Delivered,
        RemoveObserver, NativeAbort, NextListener, AbortDone, RunTeardown, CloseDone,
        ReturnToLoop, ReturnFromCall, InitThrows, AlgorithmsDone, EventDone, TeardownDone,
        Collect
    <2>2. QED
      BY <2>1
  <1>3. QED
    BY <1>1, <1>2

LEMMA AbortedForever ==
  ASSUME [Next]_vars
  PROVE  aborted \subseteq aborted' /\ (~NativeAbort => aborted' = aborted)
  BY DEF vars, Next, UserCall, LibraryStep, CallbackEnds, SubscribeJoin, SubscribeStart,
    SubscribeAborted, CallNext, CallError, CallComplete, AddTeardown, AddTeardownLate,
    CallAbort, Deliver, Delivered, RemoveObserver, NativeAbort, NextListener, AbortDone,
    RunTeardown, CloseDone, ReturnToLoop, ReturnFromCall, InitThrows, AlgorithmsDone,
    EventDone, TeardownDone, Collect

LEMMA SignalsStep ==
  ASSUME TypeOK, Adjacent(stack), FramesSignal, [Next]_vars
  PROVE  FramesSignal'
  <1>1. ASSUME NEW f \in Members(stack), NEW g,
               g.op \in SignalOps => g.op = f.op /\ g.c = f.c /\ g.rest \subseteq f.rest,
               g.thrown => f.thrown
        PROVE  Signals(g)'
    <2>1. f \in Frame
      BY DEF Members, TypeOK
    <2>2. f.rest \subseteq Observers
      BY <2>1 DEF Frame, CallFrame, SignalFrame
    <2>3. Signals(f)
      BY DEF FramesSignal
    <2>4. ASSUME g.op \in SignalOps, NEW o \in g.rest PROVE sig'[o] = g.c /\ home'[o] \in Subs
      <3>1. o \in Observers /\ sig[o] = f.c /\ home[o] \in Subs
        BY <1>1, <2>2, <2>3, <2>4 DEF Signals
      <3>2. QED
        BY <1>1, <2>4, <3>1, SigForever, HomeForever
    <2>5. g.op = "dispatch" => g.c \in aborted'
      BY <1>1, <2>3, AbortedForever DEF Signals, SignalOps
    <2>6. QED
      BY <1>1, <2>3, <2>4, <2>5 DEF Signals
  <1>2. CASE Leaving
    <2>1. PICK op \in SignalOps, o \in Observers : RemoveObserver(op, o)
      BY <1>2 DEF Leaving
    <2>2. stack # <<>> /\ Top.op = op
      BY <2>1, LeavingFrames
    <2>3. PICK f \in Members(stack') :
            /\ f.op = op /\ f.c = Top.c /\ f.rest = Top.rest \ {o} /\ f.thrown = Top.thrown
            /\ \A h \in Members(stack') :
                 h = f \/ h \in Members(Below) \/ (h.op \notin SignalOps /\ h.thrown = FALSE)
      BY <2>1, LeavingFrames
    <2>4. PICK e \in Members(stack) : e = Top
      BY <2>2, OnTop
    <2>5. Signals(f)'
      BY <1>1, <2>2, <2>3, <2>4
    <2>6. ASSUME NEW h \in Members(Below) PROVE Signals(h)'
      <3>1. h \in Members(stack)
        BY <2>2, OnTop
      <3>2. QED
        BY <1>1, <3>1
    <2>7. QED
      BY <2>3, <2>5, <2>6, Mute DEF FramesSignal
  <1>3. CASE NativeAbort
    <2>1. ASSUME NEW h \in Members(Below) PROVE Signals(h)'
      <3>1. h \in Members(stack)
        BY <1>3, NativeAbortFrames, OnTop
      <3>2. QED
        BY <1>1, <3>1
    <2>2. QED
      BY <1>3, <2>1, NativeAbortFrames DEF FramesSignal
  <1>4. CASE CloseDone
    BY <1>1, <1>4, CloseDoneFrames DEF FramesSignal
  <1>5. CASE ~Leaving /\ ~NativeAbort /\ ~CloseDone
    <2>1. Carried
      BY <1>5, CarriedStep
    <2>2. ASSUME NEW g \in Members(stack') PROVE Signals(g)'
      <3>1. CASE Signals(g)'
        BY <3>1
      <3>2. CASE \E f \in Members(stack) : GoesOn(g, f)
        BY <1>1, <3>2 DEF GoesOn, Like
      <3>3. QED
        BY <2>1, <3>1, <3>2 DEF Carried
    <2>3. QED
      BY <2>2 DEF FramesSignal
  <1>6. QED
    BY <1>2, <1>3, <1>4, <1>5

(* Observers join a Subscriber with a signal that is not aborted. *)
LEMMA OldMembers ==
  ASSUME TypeOK, [Next]_vars, NEW o \in Observers, NEW s \in Subs, home'[o] = s, o \in list'[s]
  PROVE  \/ home[o] = s /\ o \in list[s] /\ sig'[o] = sig[o]
         \/ home[o] = NoSub /\ sig'[o] \notin aborted /\ ~NativeAbort
  <1> USE ConstantsOK DEF TypeOK
  <1>1. CASE UNCHANGED vars
    BY <1>1 DEF vars
  <1>2. ASSUME NEW p \in Observers, NEW c \in Controllers \cup {NoCtl}, SubscribeJoin(p, c)
        PROVE  \/ home[o] = s /\ o \in list[s] /\ sig'[o] = sig[o]
               \/ home[o] = NoSub /\ sig'[o] \notin aborted /\ ~NativeAbort
    <2>1. ~NativeAbort
      BY <1>2 DEF SubscribeJoin, UserTurn, NativeAbort, LibTurn
    <2>2. /\ home[p] = NoSub /\ c \notin aborted
          /\ home' = [home EXCEPT ![p] = slot] /\ sig' = [sig EXCEPT ![p] = c]
          /\ list' = [list EXCEPT ![slot] = @ \cup {p}]
      BY <1>2 DEF SubscribeJoin
    <2>3. CASE o = p
      BY <2>1, <2>2, <2>3
    <2>4. CASE o # p
      BY <2>2, <2>4
    <2>5. QED
      BY <2>3, <2>4
  <1>3. ASSUME NEW p \in Observers, NEW c \in Controllers \cup {NoCtl}, NEW r \in Subs,
               SubscribeStart(p, c, r)
        PROVE  \/ home[o] = s /\ o \in list[s] /\ sig'[o] = sig[o]
               \/ home[o] = NoSub /\ sig'[o] \notin aborted /\ ~NativeAbort
    <2>1. ~NativeAbort
      BY <1>3 DEF SubscribeStart, UserTurn, NativeAbort, LibTurn
    <2>2. /\ home[p] = NoSub /\ c \notin aborted
          /\ home' = [home EXCEPT ![p] = r] /\ sig' = [sig EXCEPT ![p] = c]
          /\ list' = [list EXCEPT ![r] = {p}]
      BY <1>3 DEF SubscribeStart
    <2>3. CASE o = p
      BY <2>1, <2>2, <2>3
    <2>4. CASE o # p
      BY <2>2, <2>4
    <2>5. QED
      BY <2>3, <2>4
  <1>4. CASE EventDone
    BY <1>4 DEF EventDone
  <1>5. ASSUME NEW op \in {"abort", "dispatch"}, NEW p \in Observers, RemoveObserver(op, p)
        PROVE  home[o] = s /\ o \in list[s] /\ sig'[o] = sig[o]
    BY <1>5 DEF RemoveObserver
  <1>6. ASSUME UNCHANGED <<list, home, sig>>
        PROVE  home[o] = s /\ o \in list[s] /\ sig'[o] = sig[o]
    BY <1>6
  <1>7. CASE \/ CallbackEnds /\ ~EventDone
             \/ LibraryStep /\ ~\E op \in {"abort", "dispatch"}, p \in Observers :
                                   RemoveObserver(op, p)
             \/ \E r \in Subs : Collect(r)
    <2>1. UNCHANGED <<list, home, sig>>
      BY <1>7 DEF CallbackEnds, LibraryStep, Deliver, Delivered, NativeAbort, NextListener,
        AbortDone, RunTeardown, CloseDone, ReturnToLoop, ReturnFromCall, InitThrows,
        AlgorithmsDone, TeardownDone, Collect
    <2>2. QED
      BY <1>6, <2>1
  <1>8. CASE UserCall
    BY <1>2, <1>3, <1>6, <1>8 DEF UserCall, SubscribeAborted, CallNext, CallError,
      CallComplete, AddTeardown, AddTeardownLate, CallAbort
  <1>9. QED
    BY <1>1, <1>4, <1>5, <1>7, <1>8 DEF Next, CallbackEnds, LibraryStep

LEMMA PendingStep ==
  ASSUME TypeOK, Adjacent(stack), AbortsPending, [Next]_vars
  PROVE  AbortsPending'
  <1> USE ConstantsOK
  <1>1. SUFFICES ASSUME NEW o \in Observers, NEW c \in aborted', NEW s \in Subs,
                        sig'[o] = c, home'[o] = s, o \in list'[s]
                 PROVE  Pending(o, c)'
    BY DEF AbortsPending
  <1>2. /\ home[o] = s /\ o \in list[s] /\ sig[o] = c
    BY <1>1, OldMembers, AbortedForever
  <1>3. CASE c \in aborted
    <2>1. PICK f \in Members(stack) : f.op = "dispatch" /\ f.c = c /\ o \in f.rest
      BY <1>2, <1>3 DEF AbortsPending, Pending
    <2>2. ~Spent(f) /\ f.op \in SignalOps
      BY <2>1 DEF Spent, SignalOps
    <2>3. CASE Leaving
      <3>1. PICK op \in SignalOps, p \in Observers : RemoveObserver(op, p)
        BY <2>3 DEF Leaving
      <3>2. o # p
        BY <1>1, <1>2, <3>1 DEF RemoveObserver, TypeOK
      <3>3. /\ stack # <<>> /\ Top.op = op
            /\ Members(Below) \subseteq Members(stack')
        BY <3>1, LeavingFrames
      <3>4. PICK g \in Members(stack') :
              /\ g.op = op /\ g.c = Top.c /\ g.rest = Top.rest \ {p} /\ g.thrown = Top.thrown
              /\ \A h \in Members(stack') :
                   h = g \/ h \in Members(Below) \/ (h.op \notin SignalOps /\ h.thrown = FALSE)
        BY <3>1, LeavingFrames
      <3>5. f = Top \/ f \in Members(Below)
        BY <3>3, OnTop
      <3>6. QED
        BY <2>1, <3>2, <3>3, <3>4, <3>5 DEF Pending
    <2>4. CASE NativeAbort
      <3>1. /\ stack # <<>> /\ Top.op = "abort" /\ Members(Below) \subseteq Members(stack')
        BY <2>4, NativeAbortFrames
      <3>2. f \in Members(Below)
        BY <2>1, <3>1, OnTop
      <3>3. QED
        BY <2>1, <3>1, <3>2 DEF Pending
    <2>5. CASE CloseDone
      BY <2>1, <2>2, <2>5, CloseDoneFrames DEF Pending
    <2>6. CASE ~Leaving /\ ~NativeAbort /\ ~CloseDone
      BY <2>1, <2>2, <2>6, CarriedStep DEF Carried, Like, Pending
    <2>7. QED
      BY <2>3, <2>4, <2>5, <2>6
  <1>4. CASE c \notin aborted
    <2>1. NativeAbort
      BY <1>4, AbortedForever
    <2>2. Top.c = c /\ Top.c \notin aborted
      BY <1>4, <2>1, NativeAbortFrames
    <2>3. PICK f \in Members(stack') : f.op = "dispatch" /\ f.c = c /\ f.rest = Armed(c)
      BY <2>1, <2>2, NativeAbortFrames
    <2>4. o \in Armed(c)
      BY <1>2 DEF Armed
    <2>5. QED
      BY <2>3, <2>4 DEF Pending
  <1>5. QED
    BY <1>3, <1>4

-----------------------------------------------------------------------------
(* What becomes of an observer: it is a member, it was told of the end, its *)
(* signal is being aborted, it is owed the end, or the end was taken away.  *)

Left(o) == \E c \in Controllers : sig[o] = c /\ (c \in aborted \/ Aborting(c))

(* A source that threw as s was closed took the end of s away, from all.    *)
Lost(s) ==
  /\ IteratorClosers # {}
  /\ phase[s] = "closed"
  /\ EndsNot(s, stack)
  /\ \A o \in Observers : home[o] = s => terminals[o] = 0

Fate(o, s) ==
  \/ phase[s] # "closed" /\ o \in list[s]
  \/ terminals[o] = 1
  \/ Left(o)
  \/ o \in OwedBy(stack)
  \/ Lost(s)

Fates == \A o \in Observers, s \in Subs : home[o] = s => Fate(o, s)

DeliveryInv == Adjacent(stack) /\ FramesSignal /\ AbortsPending /\ Fates

LEMMA LeftForever ==
  ASSUME TypeOK, Adjacent(stack), [Next]_vars, NEW o \in Observers, home[o] \in Subs, Left(o)
  PROVE  Left(o)'
  <1>1. PICK c \in Controllers : sig[o] = c /\ (c \in aborted \/ Aborting(c))
    BY DEF Left
  <1>2. sig'[o] = c
    BY <1>1, SigForever
  <1>3. CASE c \in aborted
    BY <1>2, <1>3, AbortedForever DEF Left
  <1>4. CASE Aborting(c)
    <2>1. PICK f \in Members(stack) : f.op = "abort" /\ f.c = c
      BY <1>4 DEF Aborting
    <2>2. ~Spent(f) /\ f.op \in SignalOps
      BY <2>1 DEF Spent, SignalOps
    <2>3. c \in aborted' \/ Aborting(c)'
      <3>1. CASE Leaving
        <4>1. PICK op \in SignalOps, p \in Observers : RemoveObserver(op, p)
          BY <3>1 DEF Leaving
        <4>2. /\ stack # <<>> /\ Top.op = op
              /\ Members(Below) \subseteq Members(stack')
          BY <4>1, LeavingFrames
        <4>3. PICK g \in Members(stack') :
                /\ g.op = op /\ g.c = Top.c /\ g.rest = Top.rest \ {p} /\ g.thrown = Top.thrown
                /\ \A h \in Members(stack') :
                     h = g \/ h \in Members(Below) \/ (h.op \notin SignalOps /\ h.thrown = FALSE)
          BY <4>1, LeavingFrames
        <4>4. f = Top \/ f \in Members(Below)
          BY <4>2, OnTop
        <4>5. QED
          BY <2>1, <4>2, <4>3, <4>4 DEF Aborting
      <3>2. CASE NativeAbort
        <4>1. /\ stack # <<>> /\ Members(Below) \subseteq Members(stack')
              /\ aborted' = aborted \cup {Top.c}
          BY <3>2, NativeAbortFrames
        <4>2. f = Top \/ f \in Members(Below)
          BY <4>1, OnTop
        <4>3. QED
          BY <2>1, <4>1, <4>2 DEF Aborting
      <3>3. CASE CloseDone
        BY <2>1, <2>2, <3>3, CloseDoneFrames DEF Aborting
      <3>4. CASE ~Leaving /\ ~NativeAbort /\ ~CloseDone
        BY <2>1, <2>2, <3>4, CarriedStep DEF Carried, Like, Aborting
      <3>5. QED
        BY <3>1, <3>2, <3>3, <3>4
    <2>4. QED
      BY <1>2, <2>3 DEF Left
  <1>5. QED
    BY <1>1, <1>3, <1>4

(* A Subscriber that is closed is not ended again. *)
LEMMA NoNewEnd ==
  ASSUME Holding, [Next]_vars, NEW s \in Subs, phase[s] = "closed", EndsNot(s, stack)
  PROVE  EndsNot(s, stack')
  <1> USE DEF Holding, SharedInv, EndsInv
  <1>1. CASE Ending
    <2>1. PICK r \in Subs :
            /\ Open(r)
            /\ \A f \in Members(stack') : f.op \in Ends =>
                 (f.s = r /\ f.rest = list[r]) \/ f \in Members(stack)
      BY <1>1, EndingStep
    <2>2. QED
      BY <2>1 DEF EndsNot, Open
  <1>2. CASE Telling
    <2>1. PICK op \in Ends, o \in Observers : Deliver(op, o)
      BY <1>2 DEF Telling
    <2>2. \A f \in Members(stack') : f.op \in Ends =>
            \E g \in Members(stack) : g.op \in Ends /\ g.s = f.s /\ f.rest \subseteq g.rest \ {o}
      BY <2>1, TellingStep
    <2>3. QED
      BY <2>2 DEF EndsNot
  <1>3. CASE CloseDone
    BY <1>3, CloseDoneStep DEF EndsNot
  <1>4. CASE ~Ending /\ ~Telling /\ ~CloseDone
    BY <1>4, QuietStep DEF Quiet, EndsNot
  <1>5. QED
    BY <1>1, <1>2, <1>3, <1>4

LEMMA StaysClosed ==
  ASSUME TypeOK, [Next]_vars, NEW s \in Subs, phase[s] = "closed"
  PROVE  phase'[s] = "closed"
  BY ClosedForever DEF vars

(* Nobody joins a closed Subscriber. *)
LEMMA NoLateMember ==
  ASSUME Holding, [Next]_vars, NEW s \in Subs, phase[s] = "closed", NEW o \in Observers,
         home'[o] = s
  PROVE  home[o] = s
  <1> USE ConstantsOK DEF Holding, TypeOK
  <1>1. CASE \/ \E p \in Observers, c \in Controllers \cup {NoCtl} :
                  \/ SubscribeJoin(p, c)
                  \/ \E r \in Subs : SubscribeStart(p, c, r)
    BY <1>1 DEF SubscribeJoin, SubscribeStart, Open
  <1>2. CASE ~\E p \in Observers, c \in Controllers \cup {NoCtl} :
                \/ SubscribeJoin(p, c)
                \/ \E r \in Subs : SubscribeStart(p, c, r)
    <2>1. UNCHANGED home
      BY <1>2 DEF vars, Next, UserCall, LibraryStep, CallbackEnds, SubscribeAborted, CallNext,
        CallError, CallComplete, AddTeardown, AddTeardownLate, CallAbort, Deliver, Delivered,
        RemoveObserver, NativeAbort, NextListener, AbortDone, RunTeardown, CloseDone,
        ReturnToLoop, ReturnFromCall, InitThrows, AlgorithmsDone, EventDone, TeardownDone,
        Collect
    <2>2. QED
      BY <2>1
  <1>3. QED
    BY <1>1, <1>2

LEMMA LostForever ==
  ASSUME Holding, [Next]_vars, NEW s \in Subs, Lost(s)
  PROVE  Lost(s)'
  <1> USE DEF Holding, SharedInv, EndsInv
  <1>1. phase'[s] = "closed" /\ EndsNot(s, stack')
    BY StaysClosed, NoNewEnd DEF Lost
  <1>2. ASSUME NEW o \in Observers, home'[o] = s PROVE terminals'[o] = 0
    <2>1. home[o] = s /\ terminals[o] = 0
      BY <1>2, NoLateMember DEF Lost
    <2>2. CASE Telling
      <3>1. PICK op \in Ends, p \in Observers : Deliver(op, p)
        BY <2>2 DEF Telling
      <3>2. /\ p \in OwedBy(stack)
            /\ terminals' = [terminals EXCEPT ![p] = 1]
        BY <3>1, TellingStep
      <3>3. p # o
        <4>1. PICK f \in Members(stack) : f.op \in Ends /\ p \in f.rest
          BY <3>2, OwedMember
        <4>2. home[p] = f.s /\ f.s # s
          BY <4>1 DEF FramesUntold, Untold, Lost, EndsNot
        <4>3. QED
          BY <2>1, <4>2
      <3>4. QED
        BY <2>1, <3>2, <3>3 DEF TypeOK
    <2>3. CASE ~Telling
      BY <2>1, <2>3, OnlyTellingTells
    <2>4. QED
      BY <2>2, <2>3
  <1>3. QED
    BY <1>1, <1>2 DEF Lost

LEMMA MemberStays ==
  ASSUME Holding, DeliveryInv, [Next]_vars, NEW o \in Observers, NEW s \in Subs, home[o] = s,
         phase[s] # "closed", o \in list[s]
  PROVE  Fate(o, s)'
  <1> USE ConstantsOK DEF Holding, SharedInv, EndsInv, DeliveryInv
  <1>1. SUFFICES ASSUME ~(phase'[s] # "closed" /\ o \in list'[s])
                 PROVE  o \in OwedBy(stack') \/ Left(o)'
    BY DEF Fate
  <1>2. CASE Ending
    <2>1. PICK r \in Subs :
            /\ phase' = [phase EXCEPT ![r] = "closed"]
            /\ UNCHANGED list
            /\ OwedBy(stack') = list[r] \cup OwedBy(stack)
      BY <1>2, EndingStep
    <2>2. CASE r = s
      BY <2>1, <2>2
    <2>3. CASE r # s
      BY <1>1, <2>1, <2>3 DEF TypeOK
    <2>4. QED
      BY <2>2, <2>3
  <1>3. CASE Leaving
    <2>1. PICK op \in SignalOps, p \in Observers : RemoveObserver(op, p)
      BY <1>3 DEF Leaving
    <2>2. stack # <<>> /\ Top.op = op /\ p \in Top.rest
      BY <2>1, LeavingFrames
    <2>3. p = o
      <3>1. /\ list' = [list EXCEPT ![home[p]] = @ \ {p}]
            /\ \/ home[p] \in Subs /\ list[home[p]] = {p} /\ phase' = [phase EXCEPT ![home[p]] = "closed"]
               \/ UNCHANGED phase
        BY <2>1 DEF RemoveObserver, IsLast, Open
      <3>2. ASSUME p # o PROVE FALSE
        <4>1. o \in list'[s]
          BY <3>1, <3>2 DEF TypeOK
        <4>2. phase'[s] # "closed"
          BY <3>1, <3>2 DEF TypeOK
        <4>3. QED
          BY <1>1, <4>1, <4>2
      <3>3. QED
        BY <3>2
    <2>4. Signals(Top)
      BY <2>2, OnTop DEF FramesSignal
    <2>5. PICK c \in Controllers : c = Top.c
      BY <2>2, SignalFrameType DEF SignalOps
    <2>6. sig[o] = c /\ sig'[o] = c
      BY <2>2, <2>3, <2>4, <2>5, SigForever DEF Signals
    <2>7. CASE op = "dispatch"
      <3>1. c \in aborted'
        BY <2>2, <2>4, <2>5, <2>7, AbortedForever DEF Signals
      <3>2. QED
        BY <2>6, <3>1 DEF Left
    <2>8. CASE op = "abort"
      <3>1. PICK g \in Members(stack') :
              /\ g.op = op /\ g.c = Top.c /\ g.rest = Top.rest \ {p} /\ g.thrown = Top.thrown
              /\ \A h \in Members(stack') :
                   h = g \/ h \in Members(Below) \/ (h.op \notin SignalOps /\ h.thrown = FALSE)
        BY <2>1, LeavingFrames
      <3>2. Aborting(c)'
        BY <2>5, <2>8, <3>1 DEF Aborting
      <3>3. QED
        BY <2>6, <3>2 DEF Left
    <2>9. QED
      BY <2>7, <2>8 DEF SignalOps
  <1>4. phase[s] # "unused"
    BY DEF ReleaseInv, StageOf
  <1>5. ASSUME NEW p \in Observers, NEW c \in Controllers \cup {NoCtl},
               \/ SubscribeJoin(p, c)
               \/ \E r \in Subs : SubscribeStart(p, c, r)
        PROVE  FALSE
    <2>1. CASE SubscribeJoin(p, c)
      <3>1. UNCHANGED phase /\ list' = [list EXCEPT ![slot] = @ \cup {p}]
        BY <2>1 DEF SubscribeJoin
      <3>2. o \in list'[s]
        BY <3>1 DEF TypeOK
      <3>3. QED
        BY <1>1, <3>1, <3>2
    <2>2. ASSUME NEW r \in Subs, SubscribeStart(p, c, r) PROVE FALSE
      <3>1. /\ phase[r] = "unused"
            /\ phase' = [phase EXCEPT ![r] = "open"] /\ list' = [list EXCEPT ![r] = {p}]
        BY <2>2 DEF SubscribeStart
      <3>2. r # s
        BY <1>4, <3>1
      <3>3. QED
        BY <1>1, <3>1, <3>2 DEF TypeOK
    <2>3. QED
      BY <1>5, <2>1, <2>2
  <1>6. ASSUME NEW r \in Subs,
               Collect(r) \/ \E c \in Controllers : SubscribeAborted(c, r)
        PROVE  FALSE
    BY <1>1, <1>4, <1>6 DEF Collect, SubscribeAborted, TypeOK
  <1>7. ASSUME EventDone PROVE FALSE
    <2>1. /\ stack # <<>> /\ Top.op = "event" /\ UNCHANGED phase
          /\ list' = [list EXCEPT ![Top.s] = {}]
      BY <1>7 DEF EventDone, Returning
    <2>2. phase[Top.s] = "closed"
      BY <2>1, TopCloses DEF CloseOps
    <2>3. QED
      BY <1>1, <2>1, <2>2 DEF TypeOK
  <1>8. ASSUME UNCHANGED <<phase, list>> PROVE FALSE
    BY <1>1, <1>8
  <1>9. CASE UNCHANGED vars
    BY <1>8, <1>9 DEF vars
  <1>10. CASE Next /\ ~Ending /\ ~Leaving
    <2>1. CASE UserCall
      BY <1>5, <1>6, <1>8, <1>10, <2>1 DEF UserCall, CallNext, Ending, AddTeardown,
        AddTeardownLate, CallAbort
    <2>2. CASE LibraryStep
      <3>1. UNCHANGED <<phase, list>>
        BY <1>10, <2>2 DEF LibraryStep, Leaving, SignalOps, Deliver, Delivered, NativeAbort,
          NextListener, AbortDone, RunTeardown, CloseDone
      <3>2. QED
        BY <1>8, <3>1
    <2>3. CASE CallbackEnds /\ ~EventDone
      <3>1. UNCHANGED <<phase, list>>
        BY <1>10, <2>3 DEF CallbackEnds, Ending, ReturnToLoop, ReturnFromCall,
          AlgorithmsDone, TeardownDone
      <3>2. QED
        BY <1>8, <3>1
    <2>4. QED
      BY <1>6, <1>7, <1>10, <2>1, <2>2, <2>3 DEF Next
  <1>11. QED
    BY <1>2, <1>3, <1>9, <1>10

LEMMA OwedStays ==
  ASSUME Holding, DeliveryInv, [Next]_vars, NEW o \in Observers, NEW s \in Subs, home[o] = s,
         o \in OwedBy(stack)
  PROVE  Fate(o, s)'
  <1> USE DEF Holding, SharedInv, EndsInv, DeliveryInv
  <1>1. SUFFICES ASSUME o \notin OwedBy(stack')
                 PROVE  terminals'[o] = 1 \/ Lost(s)'
    BY DEF Fate
  <1>2. CASE Ending
    BY <1>1, <1>2, EndingStep
  <1>3. CASE Telling
    <2>1. PICK op \in Ends, p \in Observers : Deliver(op, p)
      BY <1>3 DEF Telling
    <2>2. /\ OwedBy(stack') = OwedBy(stack) \ {p}
          /\ terminals' = [terminals EXCEPT ![p] = 1]
      BY <2>1, TellingStep
    <2>3. QED
      BY <1>1, <2>2 DEF TypeOK
  <1>4. CASE CloseDone
    <2>1. PICK f \in Members(stack) : f.op \in Ends /\ o \in f.rest
      BY OwedMember
    <2>2. f \notin Members(stack')
      BY <1>1, <2>1, OwedMember
    <2>3. /\ stack # <<>> /\ Top.op = "teardown" /\ Top.thrown /\ f.s = Top.s
          /\ UNCHANGED <<phase, home, terminals>>
          /\ EndsNot(Top.s, stack')
      BY <1>4, <2>1, <2>2, CloseDoneFrames
    <2>4. Top.s = s /\ phase[s] = "closed"
      BY <2>1, <2>3, TopCloses DEF FramesUntold, Untold, CloseOps
    <2>5. IteratorClosers # {}
      BY <2>3, OnTop DEF FramesSignal, Signals
    <2>6. IsClosing(s)
      BY <2>3, <2>4, OnTop DEF IsClosing, CloseOps
    <2>7. ASSUME NEW p \in Observers, home[p] = s PROVE terminals[p] = 0
      <3>1. ~(terminals[p] > 0) /\ terminals[p] \in Nat
        BY <2>6, <2>7 DEF ReleaseInv, ToldLast, Over, TypeOK
      <3>2. QED
        BY <3>1
    <2>8. QED
      BY <2>3, <2>4, <2>5, <2>7 DEF Lost
  <1>5. CASE ~Ending /\ ~Telling /\ ~CloseDone
    BY <1>1, <1>5, QuietStep DEF Quiet
  <1>6. QED
    BY <1>2, <1>3, <1>4, <1>5

LEMMA ToldForever ==
  ASSUME Holding, [Next]_vars, NEW o \in Observers, terminals[o] = 1
  PROVE  terminals'[o] = 1
  <1> USE DEF Holding, SharedInv, EndsInv
  <1>1. CASE Telling
    <2>1. PICK op \in Ends, p \in Observers : Deliver(op, p)
      BY <1>1 DEF Telling
    <2>2. terminals[p] = 0 /\ terminals' = [terminals EXCEPT ![p] = 1]
      BY <2>1, TellingStep
    <2>3. QED
      BY <2>2 DEF TypeOK
  <1>2. QED
    BY <1>1, OnlyTellingTells

LEMMA FatesStep ==
  ASSUME Holding, DeliveryInv, [Next]_vars
  PROVE  Fates'
  <1> USE ConstantsOK DEF DeliveryInv
  <1>1. SUFFICES ASSUME NEW o \in Observers, NEW s \in Subs, home'[o] = s
                 PROVE  Fate(o, s)'
    BY DEF Fates
  <1>2. CASE home[o] = s
    <2>1. Fate(o, s)
      BY <1>2 DEF Fates
    <2>2. CASE phase[s] # "closed" /\ o \in list[s]
      BY <1>2, <2>2, MemberStays
    <2>3. CASE terminals[o] = 1
      BY <2>3, ToldForever DEF Fate
    <2>4. CASE Left(o)
      BY <1>2, <2>4, LeftForever DEF Fate, Holding
    <2>5. CASE o \in OwedBy(stack)
      BY <1>2, <2>5, OwedStays
    <2>6. CASE Lost(s)
      BY <2>6, LostForever DEF Fate
    <2>7. QED
      BY <2>1, <2>2, <2>3, <2>4, <2>5, <2>6 DEF Fate
  <1>3. CASE home[o] # s
    <2>1. PICK c \in Controllers \cup {NoCtl} :
            \/ SubscribeJoin(o, c)
            \/ \E r \in Subs : SubscribeStart(o, c, r)
      <3>1. CASE \E p \in Observers, c \in Controllers \cup {NoCtl} :
                   \/ SubscribeJoin(p, c)
                   \/ \E r \in Subs : SubscribeStart(p, c, r)
        <4>1. PICK p \in Observers, c \in Controllers \cup {NoCtl} :
                \/ SubscribeJoin(p, c)
                \/ \E r \in Subs : SubscribeStart(p, c, r)
          BY <3>1
        <4>2. \E r : home' = [home EXCEPT ![p] = r]
          BY <4>1 DEF SubscribeJoin, SubscribeStart
        <4>3. p = o
          BY <1>1, <1>3, <4>2 DEF Holding, TypeOK
        <4>4. QED
          BY <4>1, <4>3
      <3>2. CASE ~\E p \in Observers, c \in Controllers \cup {NoCtl} :
                   \/ SubscribeJoin(p, c)
                   \/ \E r \in Subs : SubscribeStart(p, c, r)
        <4>1. UNCHANGED home
          BY <3>2 DEF vars, Next, UserCall, LibraryStep, CallbackEnds, SubscribeAborted,
            CallNext, CallError, CallComplete, AddTeardown, AddTeardownLate, CallAbort,
            Deliver, Delivered, RemoveObserver, NativeAbort, NextListener, AbortDone,
            RunTeardown, CloseDone, ReturnToLoop, ReturnFromCall, InitThrows,
            AlgorithmsDone, EventDone, TeardownDone, Collect
        <4>2. QED
          BY <1>1, <1>3, <4>1
      <3>3. QED
        BY <3>1, <3>2
    <2>2. phase'[s] # "closed" /\ o \in list'[s]
      BY <1>1, <2>1 DEF SubscribeJoin, SubscribeStart, Open, Holding, TypeOK
    <2>3. QED
      BY <2>2 DEF Fate
  <1>4. QED
    BY <1>2, <1>3

LEMMA DeliveryInvariant == Spec => [](Holding /\ DeliveryInv)
  <1>1. Init => DeliveryInv
    <2>1. Members(<<>>) = {} /\ Len(<<>>) = 0
      BY DEF Members
    <2>2. QED
      BY <2>1, ConstantsOK DEF Init, DeliveryInv, Adjacent, FramesSignal, AbortsPending, Fates
  <1>2. Holding /\ DeliveryInv /\ [Next]_vars => DeliveryInv'
    BY AdjacentStep, SignalsStep, PendingStep, FatesStep DEF Holding, DeliveryInv
  <1>3. QED
    BY <1>1, <1>2, ReleaseInvariant, PTL DEF Spec

-----------------------------------------------------------------------------
(* When abort() has dispatched, each observer with that signal has left the *)
(* active run, also one that subscribed while the algorithms were running.  *)
THEOREM AbortedLeave == Spec => []AbortedObserversLeave
  <1>1. DeliveryInv => AbortedObserversLeave
    <2> SUFFICES ASSUME DeliveryInv, NEW o \in Observers, sig[o] \in aborted,
                        \A i \in DOMAIN stack :
                          ~(stack[i].op = "dispatch" /\ stack[i].c = sig[o]),
                        Open(home[o]), o \in list[home[o]]
                 PROVE  FALSE
      BY DEF AbortedObserversLeave
    <2>1. PICK c \in aborted, s \in Subs : c = sig[o] /\ s = home[o]
      BY DEF Open
    <2>2. Pending(o, c)
      BY <2>1 DEF DeliveryInv, AbortsPending
    <2>3. QED
      BY <2>1, <2>2 DEF Pending, Members
  <1>2. QED
    BY <1>1, DeliveryInvariant, PTL

LEMMA FateAtRest ==
  ASSUME Holding, DeliveryInv, stack = <<>>, NEW o \in Observers, NEW s \in Subs,
         home[o] = s, phase[s] = "closed"
  PROVE  terminals[o] = 1 \/ sig[o] \in aborted \/ Lost(s)
  <1>1. Members(stack) = {}
    BY DEF Members
  <1>2. o \notin OwedBy(stack)
    BY <1>1, OwedMember
  <1>3. Left(o) => sig[o] \in aborted
    BY <1>1 DEF Left, Aborting
  <1>4. QED
    BY <1>2, <1>3 DEF DeliveryInv, Fates, Fate

(* When no call is in progress, each observer of a Subscriber that is       *)
(* closed was told of the end or its signal is aborted, provided that no    *)
(* teardown propagates what it throws.                                      *)
THEOREM NoneStranded ==
  ASSUME IteratorClosers = {}
  PROVE  Spec => []NoStrandedObserver
  <1>1. Holding /\ DeliveryInv => NoStrandedObserver
    BY FateAtRest DEF NoStrandedObserver, Lost
  <1>2. QED
    BY <1>1, DeliveryInvariant, PTL

(* Whatever throws, the observers of one Subscriber hear of its end all or  *)
(* none, but for those whose signal is aborted.                             *)
THEOREM AllOrNone == Spec => []TerminalsAllOrNone
  <1>1. Holding /\ DeliveryInv => TerminalsAllOrNone
    <2> SUFFICES ASSUME Holding, DeliveryInv, stack = <<>>,
                        NEW o \in Observers, NEW p \in Observers,
                        home[o] = home[p], home[o] \in Subs, terminals[o] > 0
                 PROVE  terminals[p] = 1 \/ sig[p] \in aborted
      BY DEF TerminalsAllOrNone
    <2>1. PICK s \in Subs : home[o] = s /\ home[p] = s
      OBVIOUS
    <2>2. phase[s] = "closed"
      BY <2>1 DEF Holding, EndsInv, ToldAreOver
    <2>3. ~Lost(s)
      BY <2>1 DEF Lost
    <2>4. QED
      BY <2>1, <2>2, <2>3, FateAtRest
  <1>2. QED
    BY <1>1, DeliveryInvariant, PTL
=============================================================================
