--------------------------- MODULE BufferOperators ---------------------------
(***************************************************************************)
(* The operators that give a source's values in arrays: buffer (by a delay *)
(* or, with startEvery, by counting), bufferToggle and bufferTime.  Values *)
(* are named by their positions in the log of notifications.  A timer is   *)
(* an input that emits once, when no code is running, and that the abort   *)
(* of its controller clears.                                               *)
(*                                                                         *)
(* A buffer and what closes it share an identity: the controller of the    *)
(* closing input, or of the timer.  The teardown of the result drops the   *)
(* buffers; they are left as they are here, since no handler runs then.    *)
(***************************************************************************)
EXTENDS Inputs

CONSTANTS
  Ops,      (* the operators of this instance                              *)
  Calm,     (* those whose user code does not make the inputs emit         *)
  Sizes,    (* options of maxSize                                          *)
  Intervals (* options of startEvery, in values                            *)

VARIABLES
  op,   (* the operator                                                    *)
  cfg,  (* its options                                                     *)
  st    (* what its handlers close over                                    *)

vars == <<op, cfg, st, inputs, aborted, log, active, out, stack>>

Source == 0

Opening == 1

Options == [size : Sizes, every : Intervals, empty : BOOLEAN, remaining : BOOLEAN,
            restart : BOOLEAN, timed : BOOLEAN, interval : BOOLEAN]

Buffer(id) == [id |-> id, vals |-> <<>>]

Open == Step("open", <<>>)

Delay == Step("delay", <<>>)

(* The openings come before the source.                                      *)
StartToggle == <<Subscribe(Opening, 2)>>

(* ctl is notifierController, or 0; fresh numbers buffers and controllers.  *)
Init ==
  /\ op \in Ops
  /\ cfg \in Options
  /\ op # "buffer" => cfg.restart
  /\ op = "bufferTime" <=> cfg.timed /\ op # "buffer"
  /\ cfg.interval => op = "bufferTime"
  /\ op \in {"bufferToggle", "bufferTime"} => cfg.remaining /\ ~cfg.empty
  /\ op # "bufferCount" => cfg.every = CHOOSE e \in Intervals : TRUE
  /\ op = "bufferToggle" => cfg.size = CHOOSE s \in Sizes : TRUE
  /\ st = [bufs |-> IF op = "bufferCount" THEN <<Buffer(0)>> ELSE <<>>,
           ctl |-> 0, fresh |-> 2, seen |-> 0, done |-> FALSE]
  /\ InputsInit
  /\ stack = <<[at |-> "run",
                todo |-> (CASE op = "buffer"       -> <<Delay>>
                            [] op = "bufferToggle" -> StartToggle
                            [] op = "bufferTime"   -> <<Open>>
                            [] OTHER               -> <<>>) \o <<Subscribe(Source, 1)>>]>>

-----------------------------------------------------------------------------
Do(s, ends, todo) ==
  /\ st' = s
  /\ aborted' = aborted \cup (ends \ {0})
  /\ Enter(todo)

Ids == {st.bufs[k].id : k \in DOMAIN st.bufs}

With(id) == CHOOSE b \in Range(st.bufs) : b.id = id

Without(ids) == SelectSeq(st.bufs, LAMBDA b : b.id \notin ids)

Emits(vals) == IF vals # <<>> \/ cfg.empty THEN <<Array(vals)>> ELSE <<>>

EmitsAll(bufs) == FlattenSeq([k \in DOMAIN bufs |-> Emits(bufs[k].vals)])

Held(bufs) == FlattenSeq([k \in DOMAIN bufs |-> bufs[k].vals])

EmitBuffer(vals) ==
  Do([st EXCEPT !.bufs = <<>>, !.ctl = IF cfg.restart THEN 0 ELSE @],
     IF cfg.restart THEN {st.ctl} ELSE {},
     Emits(vals) \o IF cfg.restart THEN <<Delay>> ELSE <<>>)

BufferValue ==
  LET vals == Append(Held(st.bufs), Here)
  IN IF Len(vals) >= cfg.size THEN EmitBuffer(vals)
     ELSE Do([st EXCEPT !.bufs = <<[id |-> 0, vals |-> vals]>>], {}, <<>>)

Pushed == [k \in DOMAIN st.bufs |-> [st.bufs[k] EXCEPT !.vals = Append(@, Here)]]

BugStartsLate ==
  LET full == SelectSeq(Pushed, LAMBDA b : Len(b.vals) >= cfg.size)
      left == SelectSeq(Pushed, LAMBDA b : Len(b.vals) < cfg.size)
      n == st.seen + 1
  IN Do([st EXCEPT !.seen = n,
                   !.bufs = IF n % cfg.every = 1 THEN Append(left, Buffer(0)) ELSE left],
        {}, EmitsAll(full))

CountValue ==
  LET full == SelectSeq(Pushed, LAMBDA b : Len(b.vals) >= cfg.size)
      left == SelectSeq(Pushed, LAMBDA b : Len(b.vals) < cfg.size)
  IN Do([st EXCEPT !.bufs = left], {}, EmitsAll(full) \o <<Step("seen", <<>>)>>)

TimeValue ==
  Do(st, {}, [k \in DOMAIN st.bufs |-> Step("put", <<st.bufs[k].id, Here>>)])

SourceNext ==
  CASE op = "buffer"       -> BufferValue
    [] op = "bufferCount"  -> CountValue
    [] op = "bufferToggle" -> Do([st EXCEPT !.bufs = Pushed], {}, <<>>)
    [] op = "bufferTime"   -> TimeValue

(* bufferToggle's openBuffer(): the buffer is there before it asks the user. *)
OpenBuffer ==
  LET id == st.fresh + 1
  IN Do([st EXCEPT !.bufs = Append(@, Buffer(id)), !.fresh = id], {},
        <<Call, Step("listen", <<id>>)>>)

(* emitAndRemove() *)
EmitAndRemove(id) ==
  IF id \in Ids THEN Do([st EXCEPT !.bufs = Without({id})], {id}, <<Array(With(id).vals)>>)
  ELSE Do(st, {}, <<>>)

InputNext(i) ==
  /\ Delivers(i, "next")
  /\ op \in Calm => AtRest
  /\ Role(i) > Opening => ~cfg.timed
  /\ CASE Role(i) = Source  -> SourceNext
       [] Role(i) = Opening -> OpenBuffer
       [] OTHER             -> IF op = "buffer" THEN EmitBuffer(Held(st.bufs))
                               ELSE EmitAndRemove(Role(i))
  /\ UNCHANGED <<op, cfg, inputs, active, out>>

(* bufferTime's removeContext() *)
RemoveContext(id) ==
  /\ st' = [st EXCEPT !.bufs = Without({id})]
  /\ aborted' = aborted \cup {id}

Reopens(vals) == (IF cfg.interval THEN <<>> ELSE <<Open>>) \o <<Array(vals)>>

(* A timer fires, of buffer's delay or of a context of bufferTime.          *)
Tick(i) ==
  /\ Quiet /\ cfg.timed
  /\ Delivers(i, "next")
  /\ Role(i) > Opening
  /\ inputs' = Closed(i)
  /\ IF op = "buffer" THEN EmitBuffer(Held(st.bufs))
     ELSE RemoveContext(Role(i)) /\ Enter(Reopens(With(Role(i)).vals))
  /\ UNCHANGED <<op, cfg, active, out>>

CreationTick ==
  /\ cfg.interval /\ active /\ ~st.done
  /\ Quiet
  /\ Enter(<<Open>>)
  /\ UNCHANGED <<op, cfg, st, inputs, aborted, log, active, out>>

-----------------------------------------------------------------------------
Flush(b) == <<Step("flush", <<b.id>> \o b.vals)>>

(* emitFinalBuffer(), emitRemainingCountBuffers(), and what complete() of   *)
(* the others does before the result ends.                                  *)
FlushRemaining(end) ==
  LET s == [st EXCEPT !.done = TRUE, !.bufs = <<>>]
  IN CASE op = "buffer" /\ cfg.remaining ->
            Do([s EXCEPT !.ctl = 0], {st.ctl}, Emits(Held(st.bufs)) \o <<end>>)
       [] op = "bufferCount" /\ cfg.remaining -> Do(s, {}, EmitsAll(st.bufs) \o <<end>>)
       [] op \in {"bufferToggle", "bufferTime"} /\ end = End ->
            Do(s, IF cfg.timed THEN Ids ELSE {},
               FlattenSeq([k \in DOMAIN st.bufs |-> Flush(st.bufs[k])]) \o <<end>>)
       [] OTHER -> Do([st EXCEPT !.done = TRUE], {}, <<end>>)

(* The others' completion closes no buffer.                                 *)
InputCompletes(i) ==
  /\ Delivers(i, "complete")
  /\ op \in Calm => AtRest
  /\ Role(i) > Opening => ~cfg.timed
  /\ inputs' = Closed(i)
  /\ IF Role(i) = Source THEN FlushRemaining(End) ELSE Do(st, {}, <<>>)
  /\ UNCHANGED <<op, cfg, active, out>>

InputFails(i) ==
  /\ Delivers(i, "error")
  /\ op \in Calm => AtRest
  /\ Role(i) > Opening => ~cfg.timed
  /\ inputs' = Closed(i)
  /\ IF Role(i) = Source THEN FlushRemaining(Fail) ELSE Do(st, {}, <<Fail>>)
  /\ UNCHANGED <<op, cfg, active, out>>

-----------------------------------------------------------------------------
(* Steps.                                                                   *)
rest == <<op, cfg, log, active, out>>

Timer(id) == Append(inputs, [role |-> id, ctl |-> id, on |-> active])

(* maybeStartDelay() *)
StartDelay ==
  /\ Doing("delay")
  /\ LET id == st.fresh + 1
     IN IF st.done THEN Proceed(<<>>) /\ UNCHANGED <<st, inputs>>
        ELSE /\ Len(inputs) < MaxInputs
             /\ st' = [st EXCEPT !.fresh = id, !.ctl = id]
             /\ inputs' = IF cfg.timed THEN Timer(id) ELSE inputs
             /\ Proceed(IF cfg.timed THEN <<>> ELSE <<Call, Step("listen", <<id>>)>>)
  /\ UNCHANGED <<rest, aborted>>

(* buffer listens with the controller that is current by now.               *)
Listen ==
  /\ Doing("listen")
  /\ IF op = "buffer"
     THEN IF st.ctl = 0 THEN Abandon(<<Fail>>) ELSE Proceed(<<Subscribe(st.ctl, st.ctl)>>)
     ELSE Proceed(IF active /\ Arg[1] \in Ids THEN <<Subscribe(Arg[1], Arg[1])>> ELSE <<>>)
  /\ UNCHANGED <<rest, st, inputs, aborted>>

(* bufferTime's openContext() *)
OpenContext ==
  /\ Doing("open")
  /\ Len(inputs) < MaxInputs
  /\ LET id == st.fresh + 1
     IN /\ st' = [st EXCEPT !.bufs = Append(@, Buffer(id)), !.fresh = id]
        /\ inputs' = Timer(id)
  /\ Proceed(<<>>)
  /\ UNCHANGED <<rest, aborted>>

(* The value goes into the context, and closeContext() if that is full.     *)
Put ==
  /\ Doing("put")
  /\ LET id == Arg[1]
         vals == Append(With(id).vals, Arg[2])
     IN IF ~active \/ id \notin Ids THEN Proceed(<<>>) /\ UNCHANGED <<st, aborted>>
        ELSE IF Len(vals) >= cfg.size
        THEN RemoveContext(id) /\ Proceed(Reopens(vals))
        ELSE /\ st' = [st EXCEPT !.bufs = [k \in DOMAIN @ |->
                         IF @[k].id = id THEN [@[k] EXCEPT !.vals = vals] ELSE @[k]]]
             /\ Proceed(<<>>)
             /\ UNCHANGED aborted
  /\ UNCHANGED <<rest, inputs>>

ValuesSeen ==
  /\ Doing("seen")
  /\ LET n == st.seen + 1
     IN st' = [st EXCEPT !.seen = n,
                         !.bufs = IF n % cfg.every = 0 THEN Append(@, Buffer(0)) ELSE @]
  /\ Proceed(<<>>)
  /\ UNCHANGED <<rest, inputs, aborted>>

FlushContext ==
  /\ Doing("flush")
  /\ aborted' = aborted \cup {Arg[1]}
  /\ Proceed(<<Array(Tail(Arg))>>)
  /\ UNCHANGED <<rest, st, inputs>>

Next ==
  \/ \E i \in DOMAIN inputs : InputNext(i)
  \/ \E i \in DOMAIN inputs : Tick(i)
  \/ CreationTick
  \/ \E i \in DOMAIN inputs : InputCompletes(i) \/ InputFails(i)
  \/ StartDelay
  \/ Listen
  \/ OpenContext
  \/ Put
  \/ ValuesSeen
  \/ FlushContext
  \/ InputsOrdinary /\ UNCHANGED <<op, cfg, st>>

Spec == Init /\ [][Next]_vars

-----------------------------------------------------------------------------
(* Properties.                                                              *)

TypeOK ==
  /\ InputsTypeOK
  /\ op \in Ops /\ cfg \in Options
  /\ st \in [bufs : Seq([id : Nat, vals : Seq(1 .. MaxLog)]), ctl : Nat, fresh : Nat,
             seen : Nat, done : BOOLEAN]

Arrays == SelectSeq(out, LAMBDA s : s.do = "next")

Given == FlattenSeq([k \in DOMAIN Arrays |-> Arrays[k].arg])

Came == SetToSortSeq(Nexts(Source), <)

Completed == Ended /\ Last(out) = End

(* buffer.ts:85, buffer-time.ts:47: where no two buffers overlap, each value *)
(* is given once and in its order, or is held by the buffer that is open.    *)
NothingLost ==
  op = "buffer" \/ (op = "bufferTime" /\ ~cfg.interval) =>
    /\ IsPrefix(Given, Came)
    /\ Quiet /\ active => Given \o Held(st.bufs) = Came
    /\ Completed /\ cfg.remaining => Given = Came

(* buffer.ts:30 of the spec: one notifier at a time says when a buffer ends. *)
OneDelay ==
  op = "buffer" => Cardinality({i \in DOMAIN inputs : Role(i) > Opening /\ Live(i)}) <= 1

(* The values of the k-th buffer, counting from 0.                          *)
Counted(k) ==
  LET lo == k * cfg.every + 1
      hi == k * cfg.every + cfg.size
  IN SubSeq(Came, lo, IF hi <= Len(Came) THEN hi ELSE Len(Came))

(* buffer.ts:134: with startEvery, the k-th buffer holds the maxSize values  *)
(* from the one at k times startEvery on; the end gives what there is.       *)
CountedExactly ==
  op = "bufferCount" /\ Quiet =>
    LET n == Len(Came)
        open == {k \in 0 .. n : k * cfg.every <= n}
        full == {k \in open : k * cfg.every + cfg.size <= n}
        ks == SetToSortSeq(IF Ended /\ cfg.remaining THEN open ELSE full, <)
    IN ~Left => Arrays = FlattenSeq([j \in DOMAIN ks |-> Emits(Counted(ks[j]))])

(* The notification that closes the buffer that the opening at p opened.    *)
ClosingOf(p) == 2 + Cardinality({q \in Nexts(Opening) : q <= p})

Between(p, q) == SelectSeq(Came, LAMBDA v : p < v /\ v < q)

ClosedBefore(p, q) == \E c \in Before(q, ClosingOf(p)) : TRUE

ToggledAt(q) ==
  IF \E p \in Before(q, Opening) : q \in Nexts(ClosingOf(p)) /\ ~ClosedBefore(p, q)
  THEN <<Array(Between(CHOOSE p \in Nexts(Opening) : log[q].role = ClosingOf(p), q))>>
  ELSE IF log[q] = [role |-> Source, do |-> "complete"]
  THEN LET open == SetToSortSeq({p \in Before(q, Opening) : ~ClosedBefore(p, q)}, <)
       IN [k \in DOMAIN open |-> Array(Between(open[k], q))]
  ELSE <<>>

(* buffer-toggle.ts:56: a buffer holds exactly the values between the        *)
(* opening and the first value of its closing input, also of those that come *)
(* while the user is asked for that input; the end gives all that are open.  *)
(* (One that opens while the end is being given is empty.)                   *)
ToggledExactly ==
  op = "bufferToggle" =>
    LET expected == FlattenSeq([q \in DOMAIN log |-> ToggledAt(q)])
    IN IF st.done
       THEN /\ Range(Arrays) \subseteq Range(expected) \cup {Array(<<>>)}
            /\ Quiet /\ Completed => Range(expected) \subseteq Range(Arrays)
       ELSE /\ IsPrefix(Arrays, expected)
            /\ Quiet /\ active => Arrays = expected

(* buffer-time.ts:37: each open buffer has its own timer running, and every  *)
(* timer that runs has its buffer; none is fuller than it may be.            *)
TimersMatch ==
  op = "bufferTime" /\ active =>
    /\ Ids = {Role(i) : i \in {j \in DOMAIN inputs : Role(j) > Opening /\ Live(j)}}
    /\ \A k \in DOMAIN st.bufs : Len(st.bufs[k].vals) < cfg.size
=============================================================================
