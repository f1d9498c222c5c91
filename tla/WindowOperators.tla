--------------------------- MODULE WindowOperators ---------------------------
(***************************************************************************)
(* The operators that give a source's values as Observables: window,       *)
(* windowCount, windowToggle, windowWhen and windowTime.  A window is a    *)
(* Subject, whose observers are user code: giving it a value, or its end,  *)
(* may call back into the operator before the loop over the windows is     *)
(* over.  Windows are numbered in the order in which they are opened, and  *)
(* values named by their positions in the log of notifications.            *)
(***************************************************************************)
EXTENDS Inputs

CONSTANTS
  Ops,       (* the operators of this instance                             *)
  Calm,      (* those whose user code does not make the inputs emit        *)
  Sizes,     (* sizes of a window, for windowCount and windowTime          *)
  Intervals, (* options of startWindowEvery                                *)
  MaxWindows (* bound: windows                                             *)

VARIABLES
  op,   (* the operator                                                    *)
  cfg,  (* its options                                                     *)
  wins, (* history: what each window was given, and its end                *)
  st    (* what its handlers close over                                    *)

vars == <<op, cfg, wins, st, inputs, aborted, log, active, out, stack>>

Source == 0

Opening == 1  (* of windowToggle, and the boundaries of window *)

Own(w) == 2 + w  (* the closing input or timer of window w, and its controller *)

Options == [size : Sizes, every : Intervals, interval : BOOLEAN]

Open == Step("open", <<>>)

Close(w) == Step("end", <<w, 1>>)

Crash(w) == Step("end", <<w, 2>>)

(* What the result subscribes to, in which order; a source comes last even   *)
(* if what came before has ended the result, and is cancelled at once.       *)
StartWindow == <<Open, Subscribe(Source, 0), Subscribe(Opening, 1)>>

StartToggle == <<Subscribe(Opening, 1), Subscribe(Source, 2)>>

StartWhen == <<Step("request", <<>>), Subscribe(Source, 2)>>

(* open is currentWindow, windows or contexts; over is `terminated`.        *)
Init ==
  /\ op \in Ops
  /\ cfg \in Options
  /\ cfg.interval => op = "windowTime"
  /\ op # "windowCount" => cfg.every = CHOOSE e \in Intervals : TRUE
  /\ op \notin {"windowCount", "windowTime"} => cfg.size = CHOOSE s \in Sizes : TRUE
  /\ wins = <<>>
  /\ st = [open |-> <<>>, over |-> FALSE, seen |-> 0, ctl |-> 0, pending |-> FALSE,
           draining |-> FALSE]
  /\ InputsInit
  /\ stack = <<[at |-> "run", todo |->
       CASE op = "window"       -> StartWindow
         [] op = "windowToggle" -> StartToggle
         [] op = "windowWhen"   -> StartWhen
         [] OTHER               -> <<Open, Subscribe(Source, 0)>>]>>

-----------------------------------------------------------------------------
Do(s, ends, todo) ==
  /\ st' = s
  /\ aborted' = aborted \cup (ends \ {0})
  /\ Enter(todo)

Give(ws) == [k \in DOMAIN ws |-> Step("give", <<ws[k], Here>>)]

(* windowCount goes over its list while the list changes, the others over a *)
(* copy of theirs.                                                          *)
SourceNext ==
  Do(st, {}, IF op = "windowCount"
             THEN <<Step("each", <<1, Here>>), Step("counted", <<>>)>>
             ELSE Give(st.open))

(* rotateWindow() of window *)
Rotate ==
  Do([st EXCEPT !.open = <<>>], {},
     [k \in DOMAIN st.open |-> Close(st.open[k])] \o <<Step("reopen", <<>>)>>)

(* closeWindow() of windowToggle *)
CloseWindow(w) ==
  Do([st EXCEPT !.open = SelectSeq(@, LAMBDA v : v # w)], {},
     IF w \in Range(st.open) THEN <<Close(w), Step("abort", <<Own(w)>>)>> ELSE <<>>)

(* closeAndRotate() of windowWhen *)
CloseAndRotate(c) ==
  IF st.over THEN Do(st, {}, <<>>)
  ELSE Do([st EXCEPT !.ctl = IF @ = c THEN 0 ELSE @], {c}, <<Step("request", <<>>)>>)

InputNext(i) ==
  /\ Delivers(i, "next")
  /\ op \in Calm => AtRest
  /\ Role(i) > Opening => op # "windowTime"
  /\ CASE Role(i) = Source     -> SourceNext
       [] op = "window"        -> Rotate
       [] op = "windowWhen"    -> CloseAndRotate(Ctl(i))
       [] Role(i) = Opening    -> Do(st, {}, IF st.over THEN <<>> ELSE <<Open>>)
       [] OTHER                -> CloseWindow(Role(i) - 2)
  /\ UNCHANGED <<op, cfg, wins, inputs, active, out>>

(* closeContext() of windowTime: the next window opens before this one ends. *)
Reopens(w) == (IF cfg.interval THEN <<>> ELSE <<Step("reopen", <<>>)>>) \o <<Close(w)>>

RemoveContext(w) ==
  /\ st' = [st EXCEPT !.open = SelectSeq(@, LAMBDA v : v # w)]
  /\ aborted' = aborted \cup {Own(w)}

Tick(i) ==
  /\ Quiet /\ op = "windowTime"
  /\ Delivers(i, "next")
  /\ Role(i) > Opening
  /\ inputs' = Closed(i)
  /\ RemoveContext(Role(i) - 2)
  /\ Enter(Reopens(Role(i) - 2))
  /\ UNCHANGED <<op, cfg, wins, active, out>>

CreationTick ==
  /\ cfg.interval /\ active /\ ~st.over /\ Quiet
  /\ Enter(<<Open>>)
  /\ UNCHANGED <<op, cfg, wins, st, inputs, aborted, log, active, out>>

(* The end of the source, or an error of any input: the windows first.      *)
Terminate(end) ==
  [s |-> [st EXCEPT !.over = TRUE, !.pending = FALSE, !.open = <<>>],
   todo |-> [k \in DOMAIN st.open |-> Step("end", <<st.open[k], end>>)]
              \o <<IF end = 1 THEN End ELSE Fail>>]

Timers == IF op = "windowTime" THEN {Own(w) : w \in Range(st.open)} ELSE {}

(* window, windowCount and windowTime do not look at `terminated`.           *)
Stopped == st.over /\ op \in {"windowToggle", "windowWhen"}

InputCompletes(i) ==
  /\ Delivers(i, "complete")
  /\ op \in Calm => AtRest
  /\ Role(i) > Opening => op # "windowTime"
  /\ inputs' = Closed(i)
  /\ IF Role(i) = Source /\ ~Stopped THEN Do(Terminate(1).s, Timers, Terminate(1).todo)
     ELSE IF Role(i) > Opening /\ op = "windowWhen" THEN CloseAndRotate(Ctl(i))
     ELSE Do(st, {}, <<>>)
  /\ UNCHANGED <<op, cfg, wins, active, out>>

InputFails(i) ==
  /\ Delivers(i, "error")
  /\ op \in Calm => AtRest
  /\ Role(i) > Opening => op # "windowTime"
  /\ inputs' = Closed(i)
  /\ IF Stopped THEN Do(st, {}, <<>>) ELSE Do(Terminate(2).s, Timers, Terminate(2).todo)
  /\ UNCHANGED <<op, cfg, wins, active, out>>

(* A closing selector, or a conversion, throws: terminateWithError().       *)
SelectorThrows ==
  /\ (Doing("subscribe") /\ Arg[1] # Source) \/ Doing("call")
  /\ active /\ ~Stopped
  /\ Len(log) < MaxLog
  /\ log' = Append(log, [role |-> 0, do |-> "error"])
  /\ st' = Terminate(2).s
  /\ Abandon(Terminate(2).todo)
  /\ UNCHANGED <<op, cfg, wins, active, out, inputs, aborted>>

-----------------------------------------------------------------------------
(* Steps.                                                                   *)
rest == <<op, cfg, log, active, out>>

AfterOpening(w) ==
  CASE op = "windowToggle" -> <<Call, Value(w), Step("listen", <<w>>)>>
    [] op = "windowWhen"   -> <<Value(w), Step("ask", <<w>>)>>
    [] OTHER               -> <<Value(w)>>

(* openWindow(), openContext() *)
OpenWindow ==
  /\ Doing("open")
  /\ Len(wins) < MaxWindows
  /\ LET w == Len(wins) + 1
     IN /\ wins' = Append(wins, [vals |-> <<>>, end |-> 0, from |-> Len(log)])
        /\ st' = [st EXCEPT !.open = Append(@, w)]
        /\ inputs' = IF op # "windowTime" THEN inputs
                     ELSE Append(inputs, [role |-> Own(w), ctl |-> Own(w), on |-> active])
        /\ Proceed(AfterOpening(w))
  /\ UNCHANGED <<rest, aborted>>

(* Unless the result has been closed in between.                            *)
Reopen ==
  /\ Doing("reopen")
  /\ Proceed(IF active THEN <<Open>> ELSE <<>>)
  /\ UNCHANGED <<rest, wins, st, inputs, aborted>>

(* window.next(): the loop ends when an observer has closed the result; a   *)
(* window of windowTime that is full by now is closed.                      *)
GiveValue ==
  /\ Doing("give")
  /\ LET w == Arg[1]
         full == op = "windowTime" /\ Len(wins[w].vals) + 1 >= cfg.size
     IN IF ~active \/ wins[w].end # 0 THEN Proceed(<<>>) /\ UNCHANGED wins
        ELSE /\ wins' = [wins EXCEPT ![w].vals = Append(@, Arg[2])]
             /\ Await(IF full THEN <<Step("full", <<w>>)>> ELSE <<>>)
  /\ UNCHANGED <<rest, st, inputs, aborted>>

CloseFull ==
  /\ Doing("full")
  /\ LET w == Arg[1]
     IN IF active /\ w \in Range(st.open)
        THEN RemoveContext(w) /\ Proceed(Reopens(w))
        ELSE Proceed(<<>>) /\ UNCHANGED <<st, aborted>>
  /\ UNCHANGED <<rest, wins, inputs>>

GiveEach ==
  /\ Doing("each")
  /\ LET k == Arg[1]
     IN Proceed(IF active /\ k <= Len(st.open)
                THEN <<Step("give", <<st.open[k], Arg[2]>>), Step("each", <<k + 1, Arg[2]>>)>>
                ELSE <<>>)
  /\ UNCHANGED <<rest, wins, st, inputs, aborted>>

(* The oldest window of windowCount has its size.                           *)
ShutOldest ==
  /\ Doing("counted")
  /\ LET shut == /\ active /\ st.open # <<>>
                 /\ st.seen + 1 >= cfg.size
                 /\ (st.seen + 1 - cfg.size) % cfg.every = 0
     IN /\ st' = [st EXCEPT !.open = IF shut THEN Tail(@) ELSE @]
        /\ Proceed((IF shut THEN <<Close(Head(st.open))>> ELSE <<>>)
                     \o IF active THEN <<Step("count", <<>>)>> ELSE <<>>)
  /\ UNCHANGED <<rest, wins, inputs, aborted>>

Count ==
  /\ Doing("count")
  /\ st' = [st EXCEPT !.seen = @ + 1]
  /\ Proceed(IF active /\ (st.seen + 1) % cfg.every = 0 THEN <<Open>> ELSE <<>>)
  /\ UNCHANGED <<rest, wins, inputs, aborted>>

EndWindow ==
  /\ Doing("end")
  /\ LET w == Arg[1]
     IN IF wins[w].end = 0 THEN wins' = [wins EXCEPT ![w].end = Arg[2]] /\ Await(<<>>)
        ELSE Proceed(<<>>) /\ UNCHANGED wins
  /\ UNCHANGED <<rest, st, inputs, aborted>>

AbortClosing ==
  /\ Doing("abort")
  /\ aborted' = aborted \cup {Arg[1]}
  /\ Proceed(<<>>)
  /\ UNCHANGED <<rest, wins, st, inputs>>

(* windowToggle listens for the end of a window that is open still.         *)
Listen ==
  /\ Doing("listen") /\ op = "windowToggle"
  /\ LET w == Arg[1]
     IN Proceed(IF active /\ w \in Range(st.open) THEN <<Subscribe(Own(w), Own(w))>> ELSE <<>>)
  /\ UNCHANGED <<rest, wins, st, inputs, aborted>>

-----------------------------------------------------------------------------
(* windowWhen: requestRotation() and its loop.                              *)
RequestRotation ==
  /\ Doing("request")
  /\ IF st.over \/ ~active THEN Proceed(<<>>) /\ UNCHANGED st
     ELSE /\ st' = [st EXCEPT !.pending = TRUE, !.draining = TRUE]
          /\ Proceed(IF st.draining THEN <<>> ELSE <<Step("rotate", <<>>)>>)
  /\ UNCHANGED <<rest, wins, inputs, aborted>>

Gone == st.over \/ ~active

DrainRotation ==
  /\ Doing("rotate")
  /\ IF ~st.pending \/ Gone
     THEN /\ st' = [st EXCEPT !.draining = FALSE]
          /\ Proceed(<<>>) /\ UNCHANGED aborted
     ELSE /\ st' = [st EXCEPT !.pending = FALSE, !.ctl = 0, !.open = <<>>]
          /\ aborted' = aborted \cup ({st.ctl} \ {0})
          /\ Proceed([k \in DOMAIN st.open |-> Close(st.open[k])] \o <<Step("next one", <<>>)>>)
  /\ UNCHANGED <<rest, wins, inputs>>

(* The loop is left when the result has ended in a callback, at each point  *)
(* where the code looks.                                                    *)
RotationGoesOn ==
  /\ Doing("next one") \/ Doing("ask") \/ (Doing("listen") /\ op = "windowWhen")
  /\ st' = [st EXCEPT !.draining = ~Gone,
                      !.ctl = IF Doing("listen") /\ ~Gone THEN Own(Arg[1]) ELSE @]
  /\ Proceed(CASE Gone             -> <<>>
               [] Doing("next one") -> <<Open>>
               [] Doing("ask")     -> <<Call, Step("listen", Arg)>>
               [] OTHER            -> <<Subscribe(Own(Arg[1]), Own(Arg[1])), Step("rotate", <<>>)>>)
  /\ UNCHANGED <<rest, wins, inputs, aborted>>

Next ==
  \/ \E i \in DOMAIN inputs : InputNext(i)
  \/ \E i \in DOMAIN inputs : Tick(i)
  \/ CreationTick
  \/ \E i \in DOMAIN inputs : InputCompletes(i) \/ InputFails(i)
  \/ SelectorThrows
  \/ OpenWindow
  \/ Reopen
  \/ GiveValue
  \/ CloseFull
  \/ GiveEach
  \/ ShutOldest
  \/ Count
  \/ EndWindow
  \/ AbortClosing
  \/ Listen
  \/ RequestRotation
  \/ DrainRotation
  \/ RotationGoesOn
  \/ (SubscribeInput \/ CallUser) /\ UNCHANGED <<op, cfg, wins, st>>
  \/ /\ Notify \/ CallbackEnds \/ Unsubscribe
     /\ UNCHANGED <<op, cfg, wins, st, inputs, aborted, log>>

Spec == Init /\ [][Next]_vars

-----------------------------------------------------------------------------
(* Properties.                                                              *)

TypeOK ==
  /\ InputsTypeOK
  /\ op \in Ops /\ cfg \in Options
  /\ wins \in Seq([vals : Seq(1 .. MaxLog), end : 0 .. 2, from : 0 .. MaxLog])
  /\ st \in [open : Seq(DOMAIN wins), over : BOOLEAN, seen : Nat, ctl : Nat,
             pending : BOOLEAN, draining : BOOLEAN]

Came == SetToSortSeq(Nexts(Source), <)

(* window.ts:33, window-count.ts:32, window-toggle.ts:44 and the like: a    *)
(* result that ends leaves no window that goes on for ever.                 *)
NoWindowLeft ==
  Quiet /\ Ended => \A w \in DOMAIN wins : wins[w].end # 0

Sequential == op \in {"window", "windowWhen"} \/ (op = "windowTime" /\ ~cfg.interval)

Routed == FlattenSeq([w \in DOMAIN wins |-> wins[w].vals])

(* window-time.ts:95: where no two windows overlap, each value goes into one *)
(* window at most, and in its order; windowTime loses none.                  *)
EachValueOnce ==
  Sequential =>
    /\ \A i, j \in DOMAIN Routed : i < j => Routed[i] < Routed[j]
    /\ op = "windowTime" /\ Quiet /\ active => Routed = Came

(* window-count.ts:65: the k-th window (counting from 0) has the values from *)
(* the one at k times startWindowEvery on, as many as its size.              *)
CountedExactly ==
  op = "windowCount" /\ Quiet /\ active =>
    \A w \in DOMAIN wins :
      LET lo == (w - 1) * cfg.every + 1
          hi == (w - 1) * cfg.every + cfg.size
      IN /\ wins[w].vals = SubSeq(Came, lo, IF hi <= Len(Came) THEN hi ELSE Len(Came))
         /\ wins[w].end = 1 <=> hi <= Len(Came)

(* window-toggle.ts:166: a window gets no value twice, and none from before  *)
(* it was opened, however reentrant its opening.                             *)
OwnValuesOnly ==
  op = "windowToggle" =>
    \A w \in DOMAIN wins :
      LET vals == wins[w].vals
      IN Cardinality(Range(vals)) = Len(vals) /\ \A v \in Range(vals) : v > wins[w].from

(* window-when.ts:46: however many closing inputs answer synchronously, a    *)
(* result that goes on has one open window, and a live input that will close *)
(* it.                                                                       *)
AlwaysOneWindow ==
  op = "windowWhen" /\ Quiet /\ active /\ (\E i \in DOMAIN inputs : Role(i) = Source) =>
    /\ Len(st.open) = 1
    /\ \E i \in DOMAIN inputs : Role(i) > Opening /\ Role(i) = st.ctl /\ Live(i)

(* window-time.ts:36: each open window has its timer running, and each timer *)
(* its window, so that a window is closed by its own timer only.             *)
TimersMatch ==
  op = "windowTime" /\ active =>
    {Own(w) : w \in Range(st.open)}
      = {Role(i) : i \in {j \in DOMAIN inputs : Role(j) > Opening /\ Live(j)}}
=============================================================================
