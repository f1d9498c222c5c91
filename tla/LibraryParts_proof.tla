------------------------- MODULE LibraryParts_proof -------------------------
(***************************************************************************)
(* Proofs about LibraryParts, for any values of its constants: what the    *)
(* run checks of its parts on small instances.  The invariants of the cold *)
(* Subjects, the operators and virtual time are those of the modules that  *)
(* prove them.                                                             *)
(***************************************************************************)
EXTENDS LibraryParts, SequenceTheorems, TLAPS

Cold == INSTANCE PerSubscriptionSubject_proof WITH
          Observers <- ColdObservers, MaxValues <- ColdValues, MaxDepth <- ColdDepth

Time == INSTANCE VirtualTime_proof WITH
          MaxRuns <- MaxExecutions, Prompt <- TRUE, Overlap <- FALSE

Overlapping == INSTANCE VirtualTime_proof WITH
                 Delays <- OverlapDelays, MaxTasks <- OverlapTasks, MaxOps <- OverlapOps,
                 MaxTime <- OverlapTime, MaxRuns <- OverlapExecutions,
                 Prompt <- TRUE, Overlap <- TRUE

Operators == INSTANCE PlatformOperators_proof WITH
               MaxLog <- OperatorLog,
               Ops <- {"takeUntil", "map", "filter", "take", "drop", "flatMap", "switchMap",
                       "inspect", "catch", "finally"},
               Calm <- {"map", "filter", "flatMap", "switchMap", "inspect", "catch"}

-----------------------------------------------------------------------------
(* The modules of the proofs are instantiated as LibraryParts does with the *)
(* modules they prove, so that their steps are the same.                    *)

LEMMA SameTime ==
  V!Next <=> Time!Next
<1>1. V!SettleLooks <=> Time!SettleLooks
  BY DEF V!SettleLooks, Time!SettleLooks, V!Run, Time!Run, V!Operating,
       Time!Operating, V!At, Time!At, V!Finished, Time!Finished, V!Op, Time!Op,
       V!Settled, Time!Settled, V!Stands, Time!Stands, V!Stop, Time!Stop,
       V!Await, Time!Await, V!Idle, Time!Idle, V!Caller, Time!Caller, V!Wakes,
       Time!Wakes, V!Wait, Time!Wait
<1>2. V!SettleChecked <=> Time!SettleChecked
  BY DEF V!SettleChecked, Time!SettleChecked, V!Run, Time!Run, V!Operating,
       Time!Operating, V!At, Time!At, V!Finished, Time!Finished, V!Settled,
       Time!Settled, V!Stands, Time!Stands, V!Stop, Time!Stop, V!Await,
       Time!Await, V!Idle, Time!Idle, V!Caller, Time!Caller, V!Wakes,
       Time!Wakes, V!Take, Time!Take, V!Earliest, Time!Earliest, V!Precedes,
       Time!Precedes, V!Priority, Time!Priority, V!Exceeds, Time!Exceeds,
       V!Wait, Time!Wait
<1>3. V!Resumes <=> Time!Resumes
  BY DEF V!Resumes, Time!Resumes, V!Run, Time!Run, V!At, Time!At, V!Operating,
       Time!Operating, V!Finished, Time!Finished
<1>4. \A d : V!FlushLooks(d) <=> Time!FlushLooks(d)
  BY DEF V!FlushLooks, Time!FlushLooks, V!Op, Time!Op, V!Run, Time!Run,
       V!Settled, Time!Settled, V!Stands, Time!Stands, V!At, Time!At, V!Stop,
       Time!Stop, V!Await, Time!Await, V!Idle, Time!Idle, V!Finished,
       Time!Finished, V!Caller, Time!Caller, V!Wakes, Time!Wakes, V!Take,
       Time!Take, V!Earliest, Time!Earliest, V!Precedes, Time!Precedes,
       V!Priority, Time!Priority, V!Exceeds, Time!Exceeds, V!Wait, Time!Wait
<1>5. \A d : V!FlushChecked(d) <=> Time!FlushChecked(d)
  BY DEF V!FlushChecked, Time!FlushChecked, V!Stands, Time!Stands, V!At,
       Time!At, V!Stop, Time!Stop, V!Await, Time!Await, V!Idle, Time!Idle,
       V!Finished, Time!Finished, V!Caller, Time!Caller, V!Wakes, Time!Wakes,
       V!Take, Time!Take, V!Earliest, Time!Earliest, V!Precedes, Time!Precedes,
       V!Priority, Time!Priority, V!Exceeds, Time!Exceeds, V!Wait, Time!Wait
<1>6. \A d : V!AdvanceLooks(d) <=> Time!AdvanceLooks(d)
  BY DEF V!AdvanceLooks, Time!AdvanceLooks, V!Op, Time!Op, V!Run, Time!Run,
       V!Settled, Time!Settled, V!Stands, Time!Stands, V!At, Time!At, V!Await,
       Time!Await, V!Idle, Time!Idle, V!Finished, Time!Finished, V!Caller,
       Time!Caller, V!Earliest, Time!Earliest, V!Precedes, Time!Precedes,
       V!Priority, Time!Priority, V!Take, Time!Take, V!Wakes, Time!Wakes,
       V!Exceeds, Time!Exceeds
<1>7. \A d : V!AdvanceChecked(d) <=> Time!AdvanceChecked(d)
  BY DEF V!AdvanceChecked, Time!AdvanceChecked, V!Stands, Time!Stands, V!At,
       Time!At, V!Stop, Time!Stop, V!Await, Time!Await, V!Idle, Time!Idle,
       V!Finished, Time!Finished, V!Caller, Time!Caller, V!Wakes, Time!Wakes
<1>8. \A d : V!Rested(d) <=> Time!Rested(d)
  BY DEF V!Rested, Time!Rested, V!Stands, Time!Stands, V!At, Time!At, V!Stop,
       Time!Stop, V!Await, Time!Await, V!Idle, Time!Idle, V!Finished,
       Time!Finished, V!Caller, Time!Caller, V!Wakes, Time!Wakes
<1>9. \A d, promise : V!Returns(d, promise) <=> Time!Returns(d, promise)
  BY DEF V!Returns, Time!Returns, V!Stands, Time!Stands, V!At, Time!At,
       V!Await, Time!Await, V!Idle, Time!Idle, V!Finished, Time!Finished,
       V!Caller, Time!Caller
<1>10. \A d : V!Throws(d) <=> Time!Throws(d)
  BY DEF V!Throws, Time!Throws, V!Stands, Time!Stands, V!At, Time!At, V!Await,
       Time!Await, V!Idle, Time!Idle, V!Finished, Time!Finished, V!Caller,
       Time!Caller
<1>11. \A rejects : V!PromiseSettles(rejects) <=> Time!PromiseSettles(rejects)
  BY DEF V!PromiseSettles, Time!PromiseSettles, V!At, Time!At, V!Over,
       Time!Over, V!Run, Time!Run, V!Finished, Time!Finished
<1>12. \A timer, delay : V!Schedule(timer, delay) <=> Time!Schedule(timer, delay)
  BY DEF V!Schedule, Time!Schedule, V!InTask, Time!InTask, V!At, Time!At,
       V!InBody, Time!InBody, V!Over, Time!Over, V!Run, Time!Run, V!Finished,
       Time!Finished
<1>13. \A id : V!Clear(id) <=> Time!Clear(id)
  BY DEF V!Clear, Time!Clear, V!InTask, Time!InTask, V!At, Time!At, V!InBody,
       Time!InBody, V!Over, Time!Over, V!Run, Time!Run, V!Finished,
       Time!Finished
<1>14. \A of, delay : V!Operate(of, delay) <=> Time!Operate(of, delay)
  BY DEF V!Operate, Time!Operate, V!At, Time!At, V!InTask, Time!InTask,
       V!InBody, Time!InBody, V!Over, Time!Over, V!Run, Time!Run, V!Finished,
       Time!Finished, V!Cardinality, Time!Cardinality, V!IsFiniteSet,
       Time!IsFiniteSet
<1>15. \A place, of : V!BodyAwaits(place, of) <=> Time!BodyAwaits(place, of)
  BY DEF V!BodyAwaits, Time!BodyAwaits, V!InBody, Time!InBody, V!Over,
       Time!Over, V!Run, Time!Run, V!At, Time!At, V!Finished, Time!Finished
<1>16. QED
  BY <1>1, <1>2, <1>3, <1>4, <1>5, <1>6, <1>7, <1>8, <1>9, <1>10, <1>11, <1>12,
       <1>13, <1>14, <1>15 DEF V!Next, Time!Next, V!At, Time!At, V!Finished,
       Time!Finished, V!Library, Time!Library, V!Operating, Time!Operating,
       V!Body, Time!Body

LEMMA SameOverlap ==
  W!Next <=> Overlapping!Next
<1>1. W!SettleLooks <=> Overlapping!SettleLooks
  BY DEF W!SettleLooks, Overlapping!SettleLooks, W!Run, Overlapping!Run,
       W!Operating, Overlapping!Operating, W!At, Overlapping!At, W!Finished,
       Overlapping!Finished, W!Op, Overlapping!Op, W!Settled,
       Overlapping!Settled, W!Stands, Overlapping!Stands, W!Stop,
       Overlapping!Stop, W!Await, Overlapping!Await, W!Idle, Overlapping!Idle,
       W!Caller, Overlapping!Caller, W!Wakes, Overlapping!Wakes, W!Wait,
       Overlapping!Wait
<1>2. W!SettleChecked <=> Overlapping!SettleChecked
  BY DEF W!SettleChecked, Overlapping!SettleChecked, W!Run, Overlapping!Run,
       W!Operating, Overlapping!Operating, W!At, Overlapping!At, W!Finished,
       Overlapping!Finished, W!Settled, Overlapping!Settled, W!Stands,
       Overlapping!Stands, W!Stop, Overlapping!Stop, W!Await,
       Overlapping!Await, W!Idle, Overlapping!Idle, W!Caller,
       Overlapping!Caller, W!Wakes, Overlapping!Wakes, W!Take,
       Overlapping!Take, W!Earliest, Overlapping!Earliest, W!Precedes,
       Overlapping!Precedes, W!Priority, Overlapping!Priority, W!Exceeds,
       Overlapping!Exceeds, W!Wait, Overlapping!Wait
<1>3. W!Resumes <=> Overlapping!Resumes
  BY DEF W!Resumes, Overlapping!Resumes, W!Run, Overlapping!Run, W!At,
       Overlapping!At, W!Operating, Overlapping!Operating, W!Finished,
       Overlapping!Finished
<1>4. \A d : W!FlushLooks(d) <=> Overlapping!FlushLooks(d)
  BY DEF W!FlushLooks, Overlapping!FlushLooks, W!Op, Overlapping!Op, W!Run,
       Overlapping!Run, W!Settled, Overlapping!Settled, W!Stands,
       Overlapping!Stands, W!At, Overlapping!At, W!Stop, Overlapping!Stop,
       W!Await, Overlapping!Await, W!Idle, Overlapping!Idle, W!Finished,
       Overlapping!Finished, W!Caller, Overlapping!Caller, W!Wakes,
       Overlapping!Wakes, W!Take, Overlapping!Take, W!Earliest,
       Overlapping!Earliest, W!Precedes, Overlapping!Precedes, W!Priority,
       Overlapping!Priority, W!Exceeds, Overlapping!Exceeds, W!Wait,
       Overlapping!Wait
<1>5. \A d : W!FlushChecked(d) <=> Overlapping!FlushChecked(d)
  BY DEF W!FlushChecked, Overlapping!FlushChecked, W!Stands,
       Overlapping!Stands, W!At, Overlapping!At, W!Stop, Overlapping!Stop,
       W!Await, Overlapping!Await, W!Idle, Overlapping!Idle, W!Finished,
       Overlapping!Finished, W!Caller, Overlapping!Caller, W!Wakes,
       Overlapping!Wakes, W!Take, Overlapping!Take, W!Earliest,
       Overlapping!Earliest, W!Precedes, Overlapping!Precedes, W!Priority,
       Overlapping!Priority, W!Exceeds, Overlapping!Exceeds, W!Wait,
       Overlapping!Wait
<1>6. \A d : W!AdvanceLooks(d) <=> Overlapping!AdvanceLooks(d)
  BY DEF W!AdvanceLooks, Overlapping!AdvanceLooks, W!Op, Overlapping!Op, W!Run,
       Overlapping!Run, W!Settled, Overlapping!Settled, W!Stands,
       Overlapping!Stands, W!At, Overlapping!At, W!Await, Overlapping!Await,
       W!Idle, Overlapping!Idle, W!Finished, Overlapping!Finished, W!Caller,
       Overlapping!Caller, W!Earliest, Overlapping!Earliest, W!Precedes,
       Overlapping!Precedes, W!Priority, Overlapping!Priority, W!Take,
       Overlapping!Take, W!Wakes, Overlapping!Wakes, W!Exceeds,
       Overlapping!Exceeds
<1>7. \A d : W!AdvanceChecked(d) <=> Overlapping!AdvanceChecked(d)
  BY DEF W!AdvanceChecked, Overlapping!AdvanceChecked, W!Stands,
       Overlapping!Stands, W!At, Overlapping!At, W!Stop, Overlapping!Stop,
       W!Await, Overlapping!Await, W!Idle, Overlapping!Idle, W!Finished,
       Overlapping!Finished, W!Caller, Overlapping!Caller, W!Wakes,
       Overlapping!Wakes
<1>8. \A d : W!Rested(d) <=> Overlapping!Rested(d)
  BY DEF W!Rested, Overlapping!Rested, W!Stands, Overlapping!Stands, W!At,
       Overlapping!At, W!Stop, Overlapping!Stop, W!Await, Overlapping!Await,
       W!Idle, Overlapping!Idle, W!Finished, Overlapping!Finished, W!Caller,
       Overlapping!Caller, W!Wakes, Overlapping!Wakes
<1>9. \A d, promise : W!Returns(d, promise) <=> Overlapping!Returns(d, promise)
  BY DEF W!Returns, Overlapping!Returns, W!Stands, Overlapping!Stands, W!At,
       Overlapping!At, W!Await, Overlapping!Await, W!Idle, Overlapping!Idle,
       W!Finished, Overlapping!Finished, W!Caller, Overlapping!Caller
<1>10. \A d : W!Throws(d) <=> Overlapping!Throws(d)
  BY DEF W!Throws, Overlapping!Throws, W!Stands, Overlapping!Stands, W!At,
       Overlapping!At, W!Await, Overlapping!Await, W!Idle, Overlapping!Idle,
       W!Finished, Overlapping!Finished, W!Caller, Overlapping!Caller
<1>11. \A rejects : W!PromiseSettles(rejects) <=> Overlapping!PromiseSettles(rejects)
  BY DEF W!PromiseSettles, Overlapping!PromiseSettles, W!At, Overlapping!At,
       W!Over, Overlapping!Over, W!Run, Overlapping!Run, W!Finished,
       Overlapping!Finished
<1>12. \A timer, delay : W!Schedule(timer, delay) <=> Overlapping!Schedule(timer, delay)
  BY DEF W!Schedule, Overlapping!Schedule, W!InTask, Overlapping!InTask, W!At,
       Overlapping!At, W!InBody, Overlapping!InBody, W!Over, Overlapping!Over,
       W!Run, Overlapping!Run, W!Finished, Overlapping!Finished
<1>13. \A id : W!Clear(id) <=> Overlapping!Clear(id)
  BY DEF W!Clear, Overlapping!Clear, W!InTask, Overlapping!InTask, W!At,
       Overlapping!At, W!InBody, Overlapping!InBody, W!Over, Overlapping!Over,
       W!Run, Overlapping!Run, W!Finished, Overlapping!Finished
<1>14. \A of, delay : W!Operate(of, delay) <=> Overlapping!Operate(of, delay)
  BY DEF W!Operate, Overlapping!Operate, W!At, Overlapping!At, W!InTask,
       Overlapping!InTask, W!InBody, Overlapping!InBody, W!Over,
       Overlapping!Over, W!Run, Overlapping!Run, W!Finished,
       Overlapping!Finished, W!Cardinality, Overlapping!Cardinality,
       W!IsFiniteSet, Overlapping!IsFiniteSet
<1>15. \A place, of : W!BodyAwaits(place, of) <=> Overlapping!BodyAwaits(place, of)
  BY DEF W!BodyAwaits, Overlapping!BodyAwaits, W!InBody, Overlapping!InBody,
       W!Over, Overlapping!Over, W!Run, Overlapping!Run, W!At, Overlapping!At,
       W!Finished, Overlapping!Finished
<1>16. QED
  BY <1>1, <1>2, <1>3, <1>4, <1>5, <1>6, <1>7, <1>8, <1>9, <1>10, <1>11, <1>12,
       <1>13, <1>14, <1>15 DEF W!Next, Overlapping!Next, W!At, Overlapping!At,
       W!Finished, Overlapping!Finished, W!Library, Overlapping!Library,
       W!Operating, Overlapping!Operating, W!Body, Overlapping!Body

LEMMA SameCold ==
  C!Next <=> Cold!Next
<1>1. \A o, status : C!Subscribe(o, status) <=> Cold!Subscribe(o, status)
  BY DEF C!Subscribe, Cold!Subscribe, C!Call, Cold!Call, C!Push, Cold!Push,
       C!UserTurn, Cold!UserTurn, C!Top, Cold!Top, C!JoinsFirst,
       Cold!JoinsFirst, C!ToSet, Cold!ToSet
<1>2. \A o : C!CallAbort(o) <=> Cold!CallAbort(o)
  BY DEF C!CallAbort, Cold!CallAbort, C!Call, Cold!Call, C!Push, Cold!Push,
       C!UserTurn, Cold!UserTurn, C!Top, Cold!Top, C!ToSet, Cold!ToSet
<1>3. \A o : C!FanoutStep(o) <=> Cold!FanoutStep(o)
  BY DEF C!FanoutStep, Cold!FanoutStep, C!Top, Cold!Top, C!Replace,
       Cold!Replace, C!LibTurn, Cold!LibTurn, C!Give, Cold!Give, C!End,
       Cold!End, C!RunTeardown, Cold!RunTeardown
<1>4. \A o : C!SetupNext(o) <=> Cold!SetupNext(o)
  BY DEF C!SetupNext, Cold!SetupNext, C!Top, Cold!Top, C!Replace, Cold!Replace,
       C!LibTurn, Cold!LibTurn, C!Give, Cold!Give
<1>5. \A o : C!SetupLeft(o) <=> Cold!SetupLeft(o)
  BY DEF C!SetupLeft, Cold!SetupLeft, C!Top, Cold!Top, C!Pop, Cold!Pop,
       C!LibTurn, Cold!LibTurn
<1>6. \A o : C!SetupDone(o) <=> Cold!SetupDone(o)
  BY DEF C!SetupDone, Cold!SetupDone, C!Call, Cold!Call, C!Top, Cold!Top,
       C!Replace, Cold!Replace, C!Pop, Cold!Pop, C!LibTurn, Cold!LibTurn,
       C!JoinsFirst, Cold!JoinsFirst, C!End, Cold!End, C!RunTeardown,
       Cold!RunTeardown
<1>7. \A o : C!AbortDone(o) <=> Cold!AbortDone(o)
  BY DEF C!AbortDone, Cold!AbortDone, C!Top, Cold!Top, C!Pop, Cold!Pop,
       C!LibTurn, Cold!LibTurn, C!RunTeardown, Cold!RunTeardown
<1>8. C!CallNext <=> Cold!CallNext
  BY DEF C!CallNext, Cold!CallNext, C!Push, Cold!Push, C!UserTurn,
       Cold!UserTurn, C!Top, Cold!Top, C!Retained, Cold!Retained, C!Fanout,
       Cold!Fanout, C!Call, Cold!Call
<1>9. \A end : C!CallEnd(end) <=> Cold!CallEnd(end)
  BY DEF C!CallEnd, Cold!CallEnd, C!Call, Cold!Call, C!Push, Cold!Push,
       C!UserTurn, Cold!UserTurn, C!Top, Cold!Top
<1>10. C!FanoutDone <=> Cold!FanoutDone
  BY DEF C!FanoutDone, Cold!FanoutDone, C!Top, Cold!Top, C!Pop, Cold!Pop,
       C!LibTurn, Cold!LibTurn
<1>11. C!CallbackEnds <=> Cold!CallbackEnds
  BY DEF C!CallbackEnds, Cold!CallbackEnds, C!Top, Cold!Top, C!Replace,
       Cold!Replace
<1>12. QED
  BY <1>1, <1>2, <1>3, <1>4, <1>5, <1>6, <1>7, <1>8, <1>9, <1>10, <1>11 DEF
       C!Next, Cold!Next

LEMMA SameOperator ==
  O!Next <=> Operators!Next
<1>1. /\ O!Here = Operators!Here /\ O!End = Operators!End
      /\ O!Fail = Operators!Fail /\ O!Call = Operators!Call
      /\ O!Top = Operators!Top /\ O!Arg = Operators!Arg
    BY DEF O!Here, Operators!Here, O!End, Operators!End, O!Fail, Operators!Fail, O!Call,
       Operators!Call, O!Step, Operators!Step, O!Top, Operators!Top, O!Arg, Operators!Arg
<1>2. \A what : O!Doing(what) <=> Operators!Doing(what)
    BY DEF O!Doing, Operators!Doing, O!Top, Operators!Top
<1>3. \A todo : O!Enter(todo) <=> Operators!Enter(todo)
    BY DEF O!Enter, Operators!Enter, O!Frames, Operators!Frames
<1>4. \A todo : O!Proceed(todo) <=> Operators!Proceed(todo)
    BY DEF O!Proceed, Operators!Proceed, O!Frames, Operators!Frames, O!Top, Operators!Top
<1>5. \A v : O!Value(v) = Operators!Value(v)
    BY DEF O!Value, Operators!Value, O!Step, Operators!Step
<1>6. \A what, arg : O!Step(what, arg) = Operators!Step(what, arg)
    BY DEF O!Step, Operators!Step
<1>7. \A role, ctl : O!Subscribe(role, ctl) = Operators!Subscribe(role, ctl)
    BY DEF O!Subscribe, Operators!Subscribe, O!Step, Operators!Step
<1>8. \A s, todo : O!Do(s, todo) <=> Operators!Do(s, todo)
    BY <1>3 DEF O!Do, Operators!Do
<1>9. \A i, what : O!Delivers(i, what) <=> Operators!Delivers(i, what)
    BY DEF O!Delivers, Operators!Delivers, O!UserTurn, Operators!UserTurn, O!Top,
       Operators!Top, O!Live, Operators!Live, O!Ctl, Operators!Ctl, O!Role, Operators!Role
<1>10. O!IsCalm <=> Operators!IsCalm
    BY DEF O!IsCalm, Operators!IsCalm, O!NotAsked, Operators!NotAsked
<1>11. \A cond : O!EndIf(cond) = Operators!EndIf(cond)
    BY <1>1 DEF O!EndIf, Operators!EndIf
<1>12. \A p : O!InnerSub(p) = Operators!InnerSub(p)
    BY <1>1, <1>6 DEF O!InnerSub, Operators!InnerSub
<1>13. O!Mirror <=> Operators!Mirror
    BY <1>1, <1>3, <1>5, <1>6, <1>7, <1>8, <1>11, <1>12 DEF O!Mirror, Operators!Mirror
<1>14. O!Map <=> Operators!Map
    BY <1>1, <1>3, <1>5, <1>6, <1>7, <1>8, <1>11, <1>12 DEF O!Map, Operators!Map
<1>15. O!Filter <=> Operators!Filter
    BY <1>1, <1>3, <1>5, <1>6, <1>7, <1>8, <1>11, <1>12 DEF O!Filter, Operators!Filter
<1>16. O!Take <=> Operators!Take
    BY <1>1, <1>3, <1>5, <1>6, <1>7, <1>8, <1>11, <1>12 DEF O!Take, Operators!Take
<1>17. O!Drop <=> Operators!Drop
    BY <1>1, <1>3, <1>5, <1>6, <1>7, <1>8, <1>11, <1>12 DEF O!Drop, Operators!Drop
<1>18. O!FlatMap <=> Operators!FlatMap
    BY <1>1, <1>3, <1>5, <1>6, <1>7, <1>8, <1>11, <1>12 DEF O!FlatMap, Operators!FlatMap
<1>19. O!SwitchMap <=> Operators!SwitchMap
    BY <1>1, <1>3, <1>5, <1>6, <1>7, <1>8, <1>11, <1>12 DEF O!SwitchMap, Operators!SwitchMap
<1>20. O!OtherNext <=> Operators!OtherNext
    BY <1>1, <1>3, <1>5, <1>6, <1>7, <1>8, <1>11, <1>12 DEF O!OtherNext, Operators!OtherNext
<1>21. O!SourceCompletes <=> Operators!SourceCompletes
    BY <1>1, <1>3, <1>5, <1>6, <1>7, <1>8, <1>11, <1>12 DEF O!SourceCompletes,
       Operators!SourceCompletes
<1>22. O!OtherCompletes <=> Operators!OtherCompletes
    BY <1>1, <1>3, <1>5, <1>6, <1>7, <1>8, <1>11, <1>12 DEF O!OtherCompletes,
       Operators!OtherCompletes
<1>23. \A i : O!InputNext(i) <=> Operators!InputNext(i)
    BY <1>9, <1>10, <1>13, <1>14, <1>15, <1>16, <1>17, <1>18, <1>19, <1>20 DEF O!InputNext,
       Operators!InputNext, O!Role, Operators!Role, O!Source, Operators!Source
<1>24. \A i : O!InputCompletes(i) <=> Operators!InputCompletes(i)
    BY <1>9, <1>10, <1>21, <1>22 DEF O!InputCompletes, Operators!InputCompletes, O!Role,
       Operators!Role, O!Source, Operators!Source, O!Closed, Operators!Closed
<1>25. \A i : O!InputFails(i) <=> Operators!InputFails(i)
    BY <1>1, <1>7, <1>8, <1>9, <1>10 DEF O!InputFails, Operators!InputFails, O!Role,
       Operators!Role, O!Source, Operators!Source, O!Other, Operators!Other, O!Closed,
       Operators!Closed
<1>26. O!Enough <=> Operators!Enough
    BY <1>1, <1>2, <1>4, <1>7, <1>11 DEF O!Enough, Operators!Enough, O!rest, Operators!rest
<1>27. O!Watch <=> Operators!Watch
    BY <1>1, <1>2, <1>4, <1>7, <1>11 DEF O!Watch, Operators!Watch, O!rest, Operators!rest
<1>28. O!StartInner <=> Operators!StartInner
    BY <1>1, <1>2, <1>4, <1>7, <1>11 DEF O!StartInner, Operators!StartInner, O!rest,
       Operators!rest, O!Inner, Operators!Inner
<1>29. O!SwitchInner <=> Operators!SwitchInner
    BY <1>1, <1>2, <1>4, <1>7, <1>11 DEF O!SwitchInner, Operators!SwitchInner, O!rest,
       Operators!rest, O!Inner, Operators!Inner
<1>30. O!SubscribeInput <=> Operators!SubscribeInput
    BY <1>1, <1>2, <1>4 DEF O!SubscribeInput, Operators!SubscribeInput, O!AwaitSource,
       Operators!AwaitSource, O!Frames, Operators!Frames, O!Top, Operators!Top
<1>31. O!UserThrows <=> Operators!UserThrows
    BY <1>1, <1>2 DEF O!UserThrows, Operators!UserThrows, O!User, Operators!User, O!Abandon,
       Operators!Abandon, O!Frames, Operators!Frames
<1>32. O!CallUser <=> Operators!CallUser
    BY <1>2 DEF O!CallUser, Operators!CallUser, O!AwaitAnswer, Operators!AwaitAnswer,
       O!Frames, Operators!Frames, O!Top, Operators!Top
<1>33. O!Notify <=> Operators!Notify
    BY <1>2, <1>4 DEF O!Notify, Operators!Notify, O!Await, Operators!Await, O!Frames,
       Operators!Frames, O!Top, Operators!Top
<1>34. O!CallbackEnds <=> Operators!CallbackEnds
    BY DEF O!CallbackEnds, Operators!CallbackEnds, O!Frames, Operators!Frames, O!Top,
       Operators!Top
<1>35. O!Unsubscribe <=> Operators!Unsubscribe
    BY DEF O!Unsubscribe, Operators!Unsubscribe, O!UserTurn, Operators!UserTurn, O!Top,
       Operators!Top
<1>36. O!Ordinary <=> Operators!Ordinary
    BY <1>30, <1>31, <1>32, <1>33, <1>34, <1>35 DEF O!Ordinary, Operators!Ordinary,
       O!InputsOrdinary, Operators!InputsOrdinary, O!Closing, Operators!Closing, O!Here,
       Operators!Here
<1>37. QED
    BY <1>23, <1>24, <1>25, <1>26, <1>27, <1>28, <1>29, <1>36 DEF O!Next, Operators!Next

-----------------------------------------------------------------------------
(* Conversions.                                                             *)

(* An answer of the iterator waits for a microtask only while nothing else  *)
(* is in progress, and an iterator that has said that it is done has closed *)
(* the subscriber.                                                          *)
ConversionInv ==
  /\ TypeOK
  /\ opened \in BOOLEAN /\ finished \in BOOLEAN /\ given \in Nat /\ returned \in Nat
  /\ active => ~finished
  /\ pend = "value" => given < MaxValues
  /\ at # "idle" => pend = "none"
  /\ ReturnedOnce
  /\ NeverStranded

LEMMA ConversionInit ==
  Init => ConversionInv
<1>. SUFFICES ASSUME Init PROVE ConversionInv
  OBVIOUS
<1>1. /\ kind \in {"iterable", "async", "promise"} /\ active = TRUE /\ ended = "none"
      /\ opened = FALSE /\ finished = FALSE /\ pulls = 0 /\ given = 0 /\ returned = 0
  BY DEF Init
<1>2. at \in {"idle", "opening"} /\ pend \in {"awaited", "none"}
  BY DEF Init
<1>3. /\ at # "idle" => pend = "none"
      /\ at = "idle" => pend = "awaited"
  BY DEF Init
<1>4. TypeOK
  BY <1>1, <1>2 DEF TypeOK
<1>5. ReturnedOnce /\ NeverStranded
  BY <1>1, <1>2, <1>3 DEF ReturnedOnce, NeverStranded
<1>6. QED
  BY <1>1, <1>2, <1>3, <1>4, <1>5 DEF ConversionInv

(* closeIterator() calls return() unless the iterator is done, or was not   *)
(* there yet; it does so once.                                              *)
LEMMA CloseKeeps ==
  ASSUME ConversionInv, NEW how \in {"complete", "error", "abort"}, NEW done \in BOOLEAN,
         Close(how, done), UNCHANGED opened,
         active => (how = "complete" <=> done)
  PROVE  /\ active' = FALSE /\ active' = (ended' = "none")
         /\ ended' \in {"none", "complete", "error", "abort"}
         /\ returned' \in Nat
         /\ ReturnedOnce'
<1>1. CASE active
  <2>1. ended = "none" /\ returned = 0
    BY <1>1 DEF ConversionInv, TypeOK, ReturnedOnce
  <2>2. ended' = how /\ returned' = IF opened /\ ~done THEN 1 ELSE 0
    BY <1>1, <2>1 DEF Close
  <2>3. opened' = opened /\ active' = FALSE /\ (how = "complete" <=> done)
    BY <1>1 DEF Close
  <2>4. ReturnedOnce'
    BY <2>2, <2>3 DEF ReturnedOnce
  <2>. QED
    BY <2>2, <2>3, <2>4
<1>2. CASE ~active
  <2>1. UNCHANGED <<ended, returned>> /\ ended # "none"
    BY <1>2 DEF Close, ConversionInv, TypeOK
  <2>. QED
    BY <1>2, <2>1 DEF Close, ConversionInv, TypeOK, ReturnedOnce
<1>3. active \in BOOLEAN
  BY DEF ConversionInv, TypeOK
<1>4. QED
  BY <1>1, <1>2, <1>3

LEMMA ConversionNext ==
  ASSUME ConversionInv, Next
  PROVE  ConversionInv' /\ (~active => pulls' = pulls)
<1>. USE DEF ConversionInv
<1>0. /\ active \in BOOLEAN /\ MaxValues \in Nat
      /\ "error" \in {"complete", "error", "abort"}
      /\ "complete" \in {"complete", "error", "abort"}
  BY ConversionsOK DEF TypeOK
<1>1. CASE Abort
  <2>1. /\ active /\ Close("abort", finished)
        /\ UNCHANGED <<kind, at, opened, finished, pend, pulls, given>>
    BY <1>1 DEF Abort
  <2>2. /\ active' = FALSE /\ active' = (ended' = "none")
        /\ ended' \in {"none", "complete", "error", "abort"} /\ returned' \in Nat /\ ReturnedOnce'
    BY <2>1, CloseKeeps
  <2>. QED
    BY <2>1, <2>2 DEF TypeOK, NeverStranded
<1>2. CASE Open
  BY <1>0, <1>2 DEF Open, Pull, TypeOK, ReturnedOnce, NeverStranded
<1>3. CASE OpenFails
  <2>1. Close("error", finished) /\ UNCHANGED <<kind, opened, finished, pend, pulls, given>>
        /\ at' = "idle"
    BY <1>3 DEF OpenFails
  <2>2. /\ active' = FALSE /\ active' = (ended' = "none")
        /\ ended' \in {"none", "complete", "error", "abort"} /\ returned' \in Nat /\ ReturnedOnce'
    BY <1>0, <2>1, CloseKeeps
  <2>. QED
    BY <2>1, <2>2 DEF TypeOK, NeverStranded
<1>4. ASSUME NEW a \in Answers, PullAnswered(a)
      PROVE  ConversionInv' /\ (~active => pulls' = pulls)
  <2>0. at = "pulling" /\ pend = "none" /\ UNCHANGED <<kind, opened, pend, pulls>>
        /\ (a = "value" => given < MaxValues)
    BY <1>4 DEF PullAnswered
  <2>1. CASE a = "value"
    <3>1. Give /\ Goes /\ UNCHANGED finished
      BY <1>4, <2>1 DEF PullAnswered
    <3>. QED
      BY <1>0, <2>0, <2>1, <3>1 DEF Give, Goes, TypeOK, ReturnedOnce, NeverStranded
  <2>2. CASE a # "value"
    <3>1. /\ at' = "idle" /\ UNCHANGED given
          /\ finished' = (finished \/ a = "done")
          /\ Close(IF a = "done" THEN "complete" ELSE "error", finished')
      BY <1>4, <2>2 DEF PullAnswered
    <3>2. /\ active' = FALSE /\ active' = (ended' = "none")
          /\ ended' \in {"none", "complete", "error", "abort"} /\ returned' \in Nat
          /\ ReturnedOnce'
      <4>. DEFINE how == IF a = "done" THEN "complete" ELSE "error"
                  done == finished \/ a = "done"
      <4>1. how \in {"complete", "error", "abort"} /\ done \in BOOLEAN /\ UNCHANGED opened
            /\ (active => (how = "complete" <=> done)) /\ Close(how, done)
        BY <2>0, <3>1
      <4>. HIDE DEF how, done
      <4>. QED
        BY <4>1, CloseKeeps
    <3>. QED
      BY <2>0, <3>1, <3>2 DEF TypeOK, NeverStranded
  <2>. QED
    BY <2>1, <2>2
<1>5. ASSUME NEW throws \in BOOLEAN, PullReturns(throws)
      PROVE  ConversionInv' /\ (~active => pulls' = pulls)
  BY <1>5 DEF PullReturns, TypeOK, ReturnedOnce, NeverStranded, Answers
<1>6. ASSUME NEW a \in Answers, Answer(a)
      PROVE  ConversionInv' /\ (~active => pulls' = pulls)
  BY <1>6 DEF Answer, TypeOK, ReturnedOnce, NeverStranded, Answers
<1>7. CASE HeedAnswer
  <2>0. /\ at = "idle" /\ pend \in Answers /\ pend' = "none" /\ UNCHANGED <<kind, opened, pulls>>
    BY <1>7 DEF HeedAnswer
  <2>1. CASE pend = "value"
    <3>1. Give /\ Goes /\ UNCHANGED finished
      BY <1>7, <2>1 DEF HeedAnswer
    <3>. QED
      BY <1>0, <2>0, <2>1, <3>1 DEF Give, Goes, TypeOK, ReturnedOnce, NeverStranded
  <2>2. CASE pend # "value"
    <3>1. PICK how \in {"complete", "error"}, done \in BOOLEAN :
            /\ Close(how, done) /\ UNCHANGED <<at, given>>
            /\ finished' \in BOOLEAN /\ (active => (how = "complete" <=> done))
      <4>1. CASE pend = "done"
        <5>1. Close("complete", TRUE) /\ UNCHANGED <<at, given>> /\ finished' = TRUE
          BY <1>7, <4>1 DEF HeedAnswer
        <5>. QED
          BY <5>1
      <4>2. CASE pend # "done"
        <5>1. Close("error", finished) /\ UNCHANGED <<at, given, finished>>
          BY <1>7, <2>2, <4>2 DEF HeedAnswer
        <5>. QED
          BY <5>1
      <4>. QED
        BY <4>1, <4>2
    <3>2. /\ active' = FALSE /\ active' = (ended' = "none")
          /\ ended' \in {"none", "complete", "error", "abort"} /\ returned' \in Nat
          /\ ReturnedOnce'
      BY <2>0, <3>1, CloseKeeps
    <3>. QED
      BY <2>0, <3>1, <3>2 DEF TypeOK, NeverStranded
  <2>. QED
    BY <2>1, <2>2
<1>8. CASE HeedPromise
  <2>0. /\ at = "idle" /\ pend \in Answers /\ pend' = "none"
        /\ UNCHANGED <<kind, opened, finished, pulls>>
    BY <1>8 DEF HeedPromise
  <2>1. CASE pend = "value"
    <3>1. Give /\ Goes
      BY <1>8, <2>1 DEF HeedPromise
    <3>. QED
      BY <1>0, <2>0, <2>1, <3>1 DEF Give, Goes, TypeOK, ReturnedOnce, NeverStranded
  <2>2. CASE pend # "value"
    <3>1. Close("error", finished) /\ UNCHANGED <<at, given>>
      BY <1>8, <2>2 DEF HeedPromise
    <3>2. /\ active' = FALSE /\ active' = (ended' = "none")
          /\ ended' \in {"none", "complete", "error", "abort"} /\ returned' \in Nat
          /\ ReturnedOnce'
      BY <1>0, <2>0, <3>1, CloseKeeps
    <3>. QED
      BY <2>0, <3>1, <3>2 DEF TypeOK, NeverStranded
  <2>. QED
    BY <2>1, <2>2
<1>9. CASE Given
  <2>0. at = "giving" /\ UNCHANGED <<kind, opened, finished, pend, given>> /\ pend = "none"
    BY <1>9 DEF Given
  <2>1. CASE kind = "promise"
    <3>1. at' = "idle" /\ UNCHANGED pulls /\ Close("complete", TRUE)
      BY <1>9, <2>1 DEF Given
    <3>2. /\ active' = FALSE /\ active' = (ended' = "none")
          /\ ended' \in {"none", "complete", "error", "abort"} /\ returned' \in Nat
          /\ ReturnedOnce'
      BY <1>0, <2>0, <3>1, CloseKeeps
    <3>. QED
      BY <2>0, <3>1, <3>2 DEF TypeOK, NeverStranded
  <2>2. CASE kind # "promise"
    <3>1. Pull /\ Goes
      BY <1>9, <2>2 DEF Given
    <3>. QED
      BY <1>0, <2>0, <3>1 DEF Pull, Goes, TypeOK, ReturnedOnce, NeverStranded
  <2>. QED
    BY <2>1, <2>2
<1>10. QED
  BY <1>1, <1>2, <1>3, <1>4, <1>5, <1>6, <1>7, <1>8, <1>9 DEF Next

LEMMA ConversionStutters ==
  ASSUME ConversionInv, UNCHANGED vars
  PROVE  ConversionInv'
<1>1. /\ kind' = kind /\ active' = active /\ ended' = ended /\ at' = at /\ opened' = opened
      /\ finished' = finished /\ pend' = pend /\ pulls' = pulls /\ given' = given
      /\ returned' = returned
  BY DEF vars
<1>2. TypeOK' /\ ReturnedOnce' /\ NeverStranded'
  BY <1>1 DEF ConversionInv, TypeOK, ReturnedOnce, NeverStranded
<1>3. QED
  BY <1>1, <1>2 DEF ConversionInv

-----------------------------------------------------------------------------
(* The parts, side by side.                                                 *)
PartInv ==
  /\ part = "coldSubject" => Cold!SubjectInv
  /\ part = "conversion" => ConversionInv
  /\ part = "operator" => Operators!OperatorInv
  /\ part = "rxTest" => Time!TimeInv
  /\ part = "overlapping" => Overlapping!TimeInv

LEMMA Parameters ==
  /\ Cold!ParametersOK /\ Operators!ParametersOK
  /\ Time!ParametersOK /\ Overlapping!ParametersOK
BY PartsOK DEF Cold!ParametersOK, Operators!ParametersOK, Time!ParametersOK,
     Overlapping!ParametersOK

LEMMA Bounds ==
  OperatorLog \in Nat /\ MaxInputs \in Nat /\ MaxDepth \in Nat
BY PartsOK

(* A behaviour is that of one part.                                         *)
LEMMA OnePart ==
  ASSUME PartNext
  PROVE  /\ part' = part
         /\ part = "coldSubject" => C!Next
         /\ part = "conversion" => Next
         /\ part = "operator" => O!Next
         /\ part = "rxTest" => V!Next
         /\ part = "overlapping" => W!Next
BY DEF PartNext, Connecting, Grouping, Spreading, OfThePlatform

LEMMA OnePartInit ==
  ASSUME PartInit
  PROVE  /\ part = "coldSubject" => C!Init
         /\ part = "conversion" => Init
         /\ part = "operator" => O!Init
         /\ part = "rxTest" => V!Init
         /\ part = "overlapping" => W!Init
BY DEF PartInit, ManyInit, PlatformInit, TestInit

LEMMA NoPartMoves ==
  ASSUME UNCHANGED partVars
  PROVE  /\ part' = part /\ UNCHANGED vars /\ UNCHANGED Operators!vars
         /\ UNCHANGED Cold!vars /\ UNCHANGED Time!vars /\ UNCHANGED Overlapping!vars
BY DEF partVars, ofMany, ofPlatform, ofCold, ofConversion, ofOperator, ofVirtualTime, vars,
       Operators!vars, Cold!vars, Time!vars, Overlapping!vars

LEMMA PartsStart ==
  PartInit => PartInv
<1>. SUFFICES ASSUME PartInit PROVE PartInv
  OBVIOUS
<1>1. CASE part = "coldSubject"
  <2>1. Cold!Init
    BY <1>1, OnePartInit DEF C!Init, Cold!Init
  <2>. QED
    BY <1>1, <2>1, Parameters, Cold!SubjectInit DEF PartInv
<1>2. CASE part = "conversion"
  BY <1>2, OnePartInit, ConversionInit DEF PartInv
<1>3. CASE part = "operator"
  <2>1. Operators!Init
    BY <1>3, OnePartInit DEF O!Init, Operators!Init, O!InputsInit, Operators!InputsInit,
         O!Opening, Operators!Opening, O!Step, Operators!Step, O!Call, Operators!Call,
         O!End, Operators!End, O!Subscribe, Operators!Subscribe, O!Other, Operators!Other,
         O!Source, Operators!Source
  <2>. QED
    BY <1>3, <2>1, Parameters, Bounds, Operators!OperatorInit DEF PartInv
<1>4. CASE part = "rxTest"
  <2>1. Time!Init
    BY <1>4, OnePartInit DEF V!Init, Time!Init, V!Run, Time!Run, V!Idle, Time!Idle
  <2>. QED
    BY <1>4, <2>1, Parameters, Time!TimeInit DEF PartInv
<1>5. CASE part = "overlapping"
  <2>1. Overlapping!Init
    BY <1>5, OnePartInit DEF W!Init, Overlapping!Init, W!Run, Overlapping!Run, W!Idle,
         Overlapping!Idle
  <2>. QED
    BY <1>5, <2>1, Parameters, Overlapping!TimeInit DEF PartInv
<1>6. QED
  BY <1>1, <1>2, <1>3, <1>4, <1>5 DEF PartInv

LEMMA PartsGoOn ==
  PartInv /\ [PartNext]_partVars => PartInv'
<1>. SUFFICES ASSUME PartInv, [PartNext]_partVars PROVE PartInv'
  OBVIOUS
<1>1. part' = part
  BY OnePart, NoPartMoves
<1>2. CASE part = "coldSubject"
  <2>1. [Cold!Next]_(Cold!vars)
    BY <1>2, OnePart, NoPartMoves, SameCold
  <2>. QED
    BY <1>1, <1>2, <2>1, Parameters, Cold!SubjectNext DEF PartInv
<1>3. CASE part = "conversion"
  BY <1>1, <1>3, OnePart, NoPartMoves, ConversionNext, ConversionStutters DEF PartInv
<1>4. CASE part = "operator"
  BY <1>1, <1>4, OnePart, NoPartMoves, SameOperator, Parameters, Bounds,
     Operators!OperatorNext, Operators!OperatorStutters DEF PartInv
<1>5. CASE part = "rxTest"
  BY <1>1, <1>5, OnePart, NoPartMoves, SameTime, Parameters, Time!TimeNext,
     Time!TimeStutters DEF PartInv
<1>6. CASE part = "overlapping"
  BY <1>1, <1>6, OnePart, NoPartMoves, SameOverlap, Parameters, Overlapping!TimeNext,
     Overlapping!TimeStutters DEF PartInv
<1>7. QED
  BY <1>1, <1>2, <1>3, <1>4, <1>5, <1>6 DEF PartInv

(* Every part that is proved here keeps to its invariant.                   *)
THEOREM PartInvariant ==
  PartSpec => []PartInv
<1>1. QED
  BY PartsStart, PartsGoOn, PTL DEF PartSpec

(* index.ts:496, virtual-time.ts:384: a result, or a conversion, that is     *)
(* active has something to wait for when nothing is in progress, and a test *)
(* passes with nothing left to run.                                         *)
THEOREM AlwaysFed ==
  PartSpec => []PartNeverStranded
<1>1. ASSUME PartInv PROVE PartNeverStranded
  <2>1. part = "conversion" => NeverStranded
    BY <1>1 DEF PartInv, ConversionInv
  <2>2. part = "operator" => O!NeverStranded
    <3>1. O!NeverStranded <=> Operators!NeverStranded
      BY DEF O!NeverStranded, Operators!NeverStranded, O!Quiet, Operators!Quiet, O!Live,
           Operators!Live, O!Ctl, Operators!Ctl
    <3>. QED
      BY <1>1, <3>1, Bounds, Operators!OperatorFed DEF PartInv
  <2>3. part = "rxTest" => V!PassesDrained
    <3>1. V!PassesDrained <=> Time!PassesDrained
      BY DEF V!PassesDrained, Time!PassesDrained, V!At, Time!At, V!Run, Time!Run,
           V!Operating, Time!Operating, V!Finished, Time!Finished
    <3>. QED
      BY <1>1, <3>1, Parameters, Time!DrainedState DEF PartInv
  <2>4. part = "overlapping" => W!PassesDrained
    <3>1. W!PassesDrained <=> Overlapping!PassesDrained
      BY DEF W!PassesDrained, Overlapping!PassesDrained, W!At, Overlapping!At, W!Run,
           Overlapping!Run, W!Operating, Overlapping!Operating, W!Finished,
           Overlapping!Finished
    <3>. QED
      BY <1>1, <3>1, Parameters, Overlapping!DrainedState DEF PartInv
  <2>. QED
    BY <2>1, <2>2, <2>3, <2>4 DEF PartNeverStranded
<1>2. QED
  BY <1>1, PartInvariant, PTL

(* index.ts:381, 434, 479, 880: who has to be told that it is over is told   *)
(* so, and once: an iterator left early, an inspector, the callback of      *)
(* finally.                                                                 *)
THEOREM AlwaysToldOnce ==
  PartSpec => []ToldOnce
<1>1. ASSUME PartInv PROVE ToldOnce
  <2>1. part = "conversion" => ReturnedOnce
    BY <1>1 DEF PartInv, ConversionInv
  <2>2. part = "operator" => O!HooksOnce
    BY <1>1 DEF PartInv, Operators!OperatorInv, Operators!Hooked, Operators!HooksOnce,
         O!HooksOnce
  <2>. QED
    BY <2>1, <2>2 DEF ToldOnce
<1>2. QED
  BY <1>1, PartInvariant, PTL

(* cold-observable.ts:45, index.ts:508: an observer that is over, or that    *)
(* has left, is told nothing more, nor is an async iterator asked for more  *)
(* once its observer has gone.                                              *)
THEOREM SilentAfterwards ==
  PartSpec => SilentOnceOver
<1>. DEFINE Silent ==
       /\ part = "coldSubject" =>
            \A o \in DOMAIN cold : cold[o] \in {"cancelled", "ended"} =>
              received'[o] = received[o] /\ told'[o] = told[o]
       /\ part = "conversion" => (~active => pulls' = pulls)
<1>1. ASSUME PartInv, [PartNext]_partVars PROVE [Silent]_partVars
  <2>1. CASE UNCHANGED partVars
    BY <2>1
  <2>2. ASSUME PartNext, part = "coldSubject", NEW o \in DOMAIN cold,
               cold[o] \in {"cancelled", "ended"}
        PROVE  received'[o] = received[o] /\ told'[o] = told[o]
    <3>1. [Cold!Next]_(Cold!vars) /\ Cold!SubjectInv
      BY <1>1, <2>2, OnePart, SameCold DEF PartInv
    <3>2. o \in ColdObservers
      BY <2>2, <3>1 DEF Cold!SubjectInv, Cold!TypeInv, Cold!TypeOK
    <3>. QED
      BY <2>2, <3>1, <3>2, Cold!SilentStep
  <2>3. ASSUME PartNext, part = "conversion", ~active
        PROVE  pulls' = pulls
    BY <1>1, <2>3, OnePart, ConversionNext DEF PartInv
  <2>. QED
    BY <1>1, <2>1, <2>2, <2>3
<1>2. QED
  BY <1>1, PartInvariant, PTL DEF PartSpec, SilentOnceOver

(* virtual-time.ts:291, 411: virtual time goes on, runs each task when it is *)
(* due, and stands still once the test has passed.                          *)
THEOREM TimeAlwaysGoesOn ==
  PartSpec => TimeGoesOn
<1>. DEFINE Onward ==
       /\ part = "rxTest" => V!TimeGoesOn
       /\ part = "overlapping" => W!TimeGoesOn
<1>1. ASSUME PartInv, [PartNext]_partVars PROVE [Onward]_partVars
  <2>1. CASE UNCHANGED partVars
    BY <2>1
  <2>2. ASSUME PartNext, part = "rxTest" PROVE V!TimeGoesOn
    <3>1. Time!TimeGoesOn
      BY <1>1, <2>2, OnePart, SameTime, Parameters, Time!TimeGoesOnStep DEF PartInv
    <3>. QED
      BY <3>1 DEF V!TimeGoesOn, Time!TimeGoesOn, V!At, Time!At, V!Run, Time!Run
  <2>3. ASSUME PartNext, part = "overlapping" PROVE W!TimeGoesOn
    <3>1. Overlapping!TimeGoesOn
      BY <1>1, <2>3, OnePart, SameOverlap, Parameters, Overlapping!TimeGoesOnStep DEF PartInv
    <3>. QED
      BY <3>1 DEF W!TimeGoesOn, Overlapping!TimeGoesOn, W!At, Overlapping!At, W!Run,
           Overlapping!Run
  <2>. QED
    BY <1>1, <2>1, <2>2, <2>3
<1>2. QED
  BY <1>1, PartInvariant, PTL DEF PartSpec, TimeGoesOn
=============================================================================
