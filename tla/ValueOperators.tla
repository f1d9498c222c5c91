--------------------------- MODULE ValueOperators ---------------------------
(***************************************************************************)
(* The operators of the rxjs package that have one source, take one value  *)
(* at a time and keep a little state: one action per handler of each.      *)
(*                                                                         *)
(* What could go wrong in them is the order of things: the observer runs   *)
(* inside subscriber.next() and may make the source emit, so that a value  *)
(* overtakes the handler of the one before; and a count, an index or a     *)
(* buffer may be off by one.  The reference definitions at the end say     *)
(* what each operator gives for a sequence of source notifications,        *)
(* whatever the nesting of the calls that brought them.                    *)
(***************************************************************************)
EXTENDS Downstream

CONSTANTS
  Ops,       (* the operators of this instance                            *)
  Source,    (* the values the source emits, a set of numbers             *)
  Counts,    (* the values of counts, amounts and indices                 *)
  MaxInput,  (* bound: notifications of the source                        *)
  Calm       (* operators whose observer does not make the source emit    *)

VARIABLES
  op,     (* the operator                                                 *)
  n,      (* its count, amount or index                                   *)
  opt,    (* its option: a seed, a predicate, a default, or includeLast   *)
  st,     (* what the handlers close over, and whether they are connected *)
  input,  (* history: the notifications of the source                     *)
  threw   (* history: whether the callback of the operator has thrown     *)

mine == <<op, n, opt>>

vars == <<op, n, opt, st, input, threw, active, out, stack>>

(* The callbacks of user code, one for all operators of a kind. *)
Accepts(v, i) == (v + i) % 2 = 1

Project(v, i) == 10 * v + i

Accumulate(a, v, i) == 10 * a + v + i

Key(v) == (v + 1) \div 2

Seed == 5

Yes == 1

No == 0

Nothing == Step("next", <<>>)  (* `undefined`, or -1 from findIndex *)

Least(i, j) == IF i < j THEN i ELSE j

Seeded == op \in {"scan", "reduce"} /\ opt

(* st.i counts or numbers values; st.kept and st.has are what the operator  *)
(* calls ring, keys, state, previous, total, hasValue, first or skipping.   *)
StartState ==
  [i |-> 0,
   kept |-> CASE Seeded                            -> <<Seed>>
              [] op \in {"takeLast", "skipLast"}   -> [j \in 1 .. n |-> 0]
              [] op = "count"                      -> <<0>>
              [] OTHER                             -> <<>>,
   has |-> Seeded \/ op = "skipWhile",
   open |-> FALSE]

Init ==
  /\ op \in Ops
  /\ n \in Counts
  /\ opt \in BOOLEAN
  /\ st = StartState
  /\ input = <<>>
  /\ threw = FALSE
  /\ active = TRUE
  /\ out = <<>>
  /\ stack = <<[todo |-> <<Step("create", <<>>)>>, at |-> "run"]>>

-----------------------------------------------------------------------------
(* The initializer of the result.                                           *)

NeedsNone == op \in {"take", "takeLast"} /\ n = 0

Connect ==
  /\ Doing("connect")
  /\ st' = [st EXCEPT !.open = active]
  /\ Proceed(<<>>)
  /\ UNCHANGED <<mine, input, threw, active, out>>

Create ==
  /\ Doing("create")
  /\ Proceed(IF NeedsNone THEN <<End>>
             ELSE IF op = "startWith"
             THEN Values(<<8, 9>>) \o <<Step("connect", <<>>)>>
             ELSE <<Step("connect", <<>>)>>)
  /\ UNCHANGED <<mine, st, input, threw, active, out>>

-----------------------------------------------------------------------------
(* next(), one action per operator.                                         *)

Connected ==
  /\ UserTurn
  /\ active /\ st.open
  /\ op \in Calm => stack = <<>>
  /\ Len(input) < MaxInput

Handle(s, todo) == st' = s /\ Enter(todo)

Numbered == [st EXCEPT !.i = @ + 1]

Nonterminal(todo) == Handle(Numbered, todo)

BugAbortedAfter(todo) == Handle(Numbered, todo)

(* sourceController.abort(), the result, and its end. *)
Conclude(todo) == Handle([Numbered EXCEPT !.open = FALSE], todo)

Map(v) == op = "map" /\ Nonterminal(<<Value(Project(v, st.i))>>)

Filter(v) ==
  op = "filter" /\ Nonterminal(IF Accepts(v, st.i) THEN <<Value(v)>> ELSE <<>>)

Folded(v) == IF st.has THEN Accumulate(st.kept[1], v, st.i) ELSE v

Scan(v) ==
  /\ op = "scan"
  /\ Handle([Numbered EXCEPT !.kept = <<Folded(v)>>, !.has = TRUE],
            <<Value(Folded(v))>>)

Reduce(v) ==
  /\ op = "reduce"
  /\ Handle([Numbered EXCEPT !.kept = <<Folded(v)>>, !.has = TRUE], <<>>)

Take(v) ==
  /\ op = "take"
  /\ IF st.i + 1 = n THEN Conclude(<<Value(v), End>>) ELSE Nonterminal(<<Value(v)>>)

Skip(v) ==
  op = "skip" /\ Nonterminal(IF n <= st.i THEN <<Value(v)>> ELSE <<>>)

Slot(i) == (i % n) + 1

TakeLast(v) ==
  op = "takeLast" /\ Handle([Numbered EXCEPT !.kept[Slot(st.i)] = v], <<>>)

(* skipLast(0) is its source. *)
SkipLast(v) ==
  /\ op = "skipLast"
  /\ IF n = 0 THEN Nonterminal(<<Value(v)>>)
     ELSE Handle([Numbered EXCEPT !.kept[Slot(st.i)] = v],
                 IF st.i < n THEN <<>> ELSE <<Value(st.kept[Slot(st.i)])>>)

TakeWhile(v) ==
  /\ op = "takeWhile"
  /\ Nonterminal(IF Accepts(v, st.i) THEN <<Value(v)>>
                 ELSE IF opt THEN <<Value(v), End>> ELSE <<End>>)

SkipWhile(v) ==
  /\ op = "skipWhile"
  /\ LET skipping == st.has /\ Accepts(v, st.i)
     IN Handle([st EXCEPT !.i = IF st.has THEN @ + 1 ELSE @, !.has = skipping],
               IF skipping THEN <<>> ELSE <<Value(v)>>)

Count(v) ==
  /\ op = "count"
  /\ Handle([Numbered EXCEPT !.kept =
              IF opt /\ ~Accepts(v, st.i) THEN @ ELSE <<@[1] + 1>>], <<>>)

ElementAt(v) ==
  /\ op = "elementAt"
  /\ IF st.i = n THEN Handle(st, <<Value(v), End>>) ELSE Nonterminal(<<>>)

Every(v) ==
  /\ op = "every"
  /\ IF Accepts(v, st.i) THEN Nonterminal(<<>>) ELSE Conclude(<<Value(No), End>>)

Find(v) ==
  /\ op = "find"
  /\ IF Accepts(v, st.i) THEN Conclude(<<Value(v), End>>) ELSE Nonterminal(<<>>)

FindIndex(v) ==
  /\ op = "findIndex"
  /\ IF Accepts(v, st.i) THEN Conclude(<<Value(st.i), End>>) ELSE Nonterminal(<<>>)

First(v) ==
  /\ op = "first"
  /\ IF Accepts(v, st.i) THEN Conclude(<<Value(v), End>>) ELSE Nonterminal(<<>>)

LastMatch(v) ==
  /\ op = "last"
  /\ IF Accepts(v, st.i)
     THEN Handle([Numbered EXCEPT !.kept = <<v>>], <<>>) ELSE Nonterminal(<<>>)

IsEmpty(v) == op = "isEmpty" /\ Conclude(<<Value(No), End>>)

Single(v) ==
  /\ op = "single"
  /\ IF ~Accepts(v, st.i) THEN Nonterminal(<<>>)
     ELSE IF st.has THEN Conclude(<<Fail>>)
     ELSE Handle([Numbered EXCEPT !.has = TRUE, !.kept = <<v>>], <<>>)

Distinct(v) ==
  /\ op = "distinct"
  /\ IF Contains(st.kept, Key(v)) THEN Handle(st, <<>>)
     ELSE Handle([st EXCEPT !.kept = Append(@, Key(v))], <<Value(v)>>)

DistinctUntilChanged(v) ==
  /\ op = "distinctUntilChanged"
  /\ Handle([st EXCEPT !.kept = <<Key(v)>>],
            IF st.kept = <<Key(v)>> THEN <<>> ELSE <<Value(v)>>)

Pairwise(v) ==
  /\ op = "pairwise"
  /\ Handle([st EXCEPT !.kept = <<v>>],
            IF st.kept = <<>> THEN <<>> ELSE <<Array(st.kept \o <<v>>)>>)

DefaultIfEmpty(v) ==
  op = "defaultIfEmpty" /\ Handle([st EXCEPT !.has = TRUE], <<Value(v)>>)

ThrowIfEmpty(v) ==
  op = "throwIfEmpty" /\ Handle([st EXCEPT !.has = TRUE], <<Value(v)>>)

StartWith(v) == op = "startWith" /\ Handle(st, <<Value(v)>>)

Materialize(v) == op = "materialize" /\ Handle(st, <<Array(<<1, v>>)>>)

(* observeNotification(): the values stand for notifications. *)
Observed(v) == IF v = 1 THEN Value(v) ELSE IF v = 2 THEN Fail ELSE End

Dematerialize(v) == op = "dematerialize" /\ Handle(st, <<Observed(v)>>)

OnNext(v) ==
  \/ Map(v) \/ Filter(v) \/ Scan(v) \/ Reduce(v) \/ Take(v) \/ Skip(v)
  \/ TakeLast(v) \/ SkipLast(v) \/ TakeWhile(v) \/ SkipWhile(v) \/ Count(v)
  \/ ElementAt(v) \/ Every(v) \/ Find(v) \/ FindIndex(v) \/ First(v)
  \/ LastMatch(v) \/ IsEmpty(v) \/ Single(v) \/ Distinct(v)
  \/ DistinctUntilChanged(v) \/ Pairwise(v) \/ DefaultIfEmpty(v)
  \/ ThrowIfEmpty(v) \/ StartWith(v) \/ Materialize(v) \/ Dematerialize(v)

SourceNext(v) ==
  /\ Connected
  /\ input' = Append(input, Value(v))
  /\ OnNext(v)
  /\ UNCHANGED <<mine, threw, active, out>>

Callers == {"map", "filter", "scan", "reduce", "count", "takeWhile", "skipWhile", "every",
            "find", "findIndex", "first", "last", "single", "distinct",
            "distinctUntilChanged"}

(* A projection, predicate, accumulator or key selector throws: the guard   *)
(* around the handler makes it the error of the result.  The first value    *)
(* without a seed is not accumulated, and count() may have no predicate.    *)
CallbackThrows ==
  /\ Connected
  /\ op \in Callers
  /\ op \in {"skipWhile", "scan", "reduce"} => st.has
  /\ op = "count" => opt
  /\ threw' = TRUE
  /\ Nonterminal(<<Fail>>)
  /\ UNCHANGED <<mine, input, active, out>>

-----------------------------------------------------------------------------
(* complete() and error().                                                  *)
Finish(todo) == Handle([st EXCEPT !.open = FALSE], todo)

ReduceEnd == op = "reduce" /\ Finish((IF st.has THEN Values(st.kept) ELSE <<>>) \o <<End>>)

BugFromTheStart ==
  /\ op = "takeLast"
  /\ Finish(Values([j \in 1 .. Least(n, st.i) |-> st.kept[j]]) \o <<End>>)

TakeLastEnd ==
  /\ op = "takeLast"
  /\ LET start == IF n <= st.i THEN st.i ELSE 0
     IN Finish(Values([j \in 1 .. Least(n, st.i) |-> st.kept[Slot(start + j - 1)]])
                 \o <<End>>)

CountEnd == op = "count" /\ Finish(<<Value(st.kept[1]), End>>)

ElementAtEnd == op = "elementAt" /\ Finish(IF opt THEN <<Value(Seed), End>> ELSE <<Fail>>)

EveryEnd == op = "every" /\ Finish(<<Value(Yes), End>>)

FindEnd == op \in {"find", "findIndex"} /\ Finish(<<Nothing, End>>)

FirstEnd == op = "first" /\ Finish(IF opt THEN <<Value(Seed), End>> ELSE <<Fail>>)

LastEnd ==
  /\ op = "last"
  /\ Finish(IF st.kept # <<>> THEN Values(st.kept) \o <<End>>
            ELSE IF opt THEN <<Value(Seed), End>> ELSE <<Fail>>)

IsEmptyEnd == op = "isEmpty" /\ Finish(<<Value(Yes), End>>)

SingleEnd ==
  op = "single" /\ Finish(IF st.has THEN Values(st.kept) \o <<End>> ELSE <<Fail>>)

DefaultIfEmptyEnd ==
  op = "defaultIfEmpty" /\ Finish(IF st.has THEN <<End>> ELSE <<Value(Seed), End>>)

ThrowIfEmptyEnd ==
  op = "throwIfEmpty" /\ Finish(IF st.has THEN <<End>> ELSE <<Fail>>)

MaterializeEnd == op = "materialize" /\ Finish(<<Array(<<3>>), End>>)

(* What subscribeToSource() does when the operator overrides nothing. *)
ForwardEnd ==
  /\ op \in {"map", "filter", "scan", "take", "skip", "skipLast", "takeWhile",
             "skipWhile", "distinct", "distinctUntilChanged", "pairwise",
             "startWith", "dematerialize"}
  /\ Finish(<<End>>)

OnComplete ==
  \/ ReduceEnd \/ TakeLastEnd \/ CountEnd \/ ElementAtEnd \/ EveryEnd \/ FindEnd
  \/ FirstEnd \/ LastEnd \/ IsEmptyEnd \/ SingleEnd \/ DefaultIfEmptyEnd
  \/ ThrowIfEmptyEnd \/ MaterializeEnd \/ ForwardEnd

SourceCompletes ==
  /\ Connected
  /\ input' = Append(input, End)
  /\ OnComplete
  /\ UNCHANGED <<mine, threw, active, out>>

SourceFails ==
  /\ Connected
  /\ input' = Append(input, Fail)
  /\ Finish(IF op = "materialize" THEN <<Array(<<2>>), End>> ELSE <<Fail>>)
  /\ UNCHANGED <<mine, threw, active, out>>

(* The notifier of distinct(): flushes. *)
Flush ==
  /\ UserTurn
  /\ op = "distinct" /\ opt
  /\ active /\ st.open
  /\ st.kept # <<>>
  /\ st' = [st EXCEPT !.kept = <<>>]
  /\ input' = Append(input, Step("flush", <<>>))
  /\ UNCHANGED <<mine, threw, active, out, stack>>

FlushFails ==
  /\ Connected
  /\ op = "distinct" /\ opt
  /\ input' = Append(input, Fail)
  /\ Handle(st, <<Fail>>)
  /\ UNCHANGED <<mine, threw, active, out>>

-----------------------------------------------------------------------------
Next ==
  \/ Create
  \/ Connect
  \/ \E v \in Source : SourceNext(v)
  \/ CallbackThrows
  \/ SourceCompletes
  \/ SourceFails
  \/ Flush
  \/ FlushFails
  \/ (Notify \/ CallbackEnds \/ Unsubscribe) /\ UNCHANGED <<mine, st, input, threw>>

Spec == Init /\ [][Next]_vars

-----------------------------------------------------------------------------
(* The reference: what the operator gives for the notifications of `input`. *)
IsNext(s) == s.do = "next"

In == LET given == SelectSeq(input, IsNext)
      IN [i \in DOMAIN given |-> given[i].arg[1]]

Ending == IF input # <<>> /\ Last(input).do \in {"error", "complete"}
          THEN <<Last(input)>> ELSE <<>>

Completed == Ending = <<End>>

Where(P(_)) == SelectSeq([i \in 1 .. Len(In) |-> i], P)

At(where) == [j \in DOMAIN where |-> In[where[j]]]

Hits == Where(LAMBDA i : Accepts(In[i], i - 1))

Misses == Where(LAMBDA i : ~Accepts(In[i], i - 1))

From(i) == SubSeq(In, i, Len(In))

UpTo(i) == SubSeq(In, 1, i)

Fold(k) ==
  FoldLeft(LAMBDA a, i : IF i = 1 /\ ~opt THEN In[1] ELSE Accumulate(a, In[i], i - 1),
           Seed, [i \in 1 .. k |-> i])

(* The keys since the last flush before each value. *)
FirstOfKey ==
  LET vals == Where(LAMBDA i : TRUE)
      pos(i) == CHOOSE p \in DOMAIN input :
                  IsNext(input[p]) /\ Cardinality({q \in 1 .. p : IsNext(input[q])}) = i
      flushed(i, j) == \E q \in pos(i) .. pos(j) : input[q].do = "flush"
  IN Where(LAMBDA i : ~\E h \in 1 .. i - 1 : Key(In[h]) = Key(In[i]) /\ ~flushed(h, i))

OnceFound(result, otherwise) ==
  IF result # <<>> THEN result \o <<End>>
  ELSE IF Completed THEN otherwise ELSE Ending

AtTheEnd(result) == IF Completed THEN result ELSE Ending

Expected ==
  CASE op = "map"       -> Values([i \in DOMAIN In |-> Project(In[i], i - 1)]) \o Ending
    [] op = "filter"    -> Values(At(Hits)) \o Ending
    [] op = "scan"      -> Values([i \in DOMAIN In |-> Fold(i)]) \o Ending
    [] op = "reduce"    -> AtTheEnd((IF In = <<>> /\ ~opt THEN <<>>
                                     ELSE <<Value(Fold(Len(In)))>>) \o <<End>>)
    [] op = "take"      -> IF Len(In) >= n THEN Values(UpTo(n)) \o <<End>>
                           ELSE Values(In) \o Ending
    [] op = "skip"      -> Values(From(n + 1)) \o Ending
    [] op = "takeLast"  -> IF n = 0 THEN <<End>>
                           ELSE AtTheEnd(Values(From(Len(In) - Least(n, Len(In)) + 1)) \o <<End>>)
    [] op = "skipLast"  -> Values(UpTo(Len(In) - Least(n, Len(In)))) \o Ending
    [] op = "takeWhile" -> IF Misses = <<>> THEN Values(In) \o Ending
                           ELSE Values(UpTo(Misses[1] - IF opt THEN 0 ELSE 1)) \o <<End>>
    [] op = "skipWhile" -> (IF Misses = <<>> THEN <<>> ELSE Values(From(Misses[1]))) \o Ending
    [] op = "count"     -> AtTheEnd(<<Value(Len(IF opt THEN Hits ELSE In)), End>>)
    [] op = "elementAt" -> OnceFound(Values(SubSeq(In, n + 1, Least(n + 1, Len(In)))),
                                     IF opt THEN <<Value(Seed), End>> ELSE <<Fail>>)
    [] op = "every"     -> OnceFound(IF Misses = <<>> THEN <<>> ELSE <<Value(No)>>,
                                     <<Value(Yes), End>>)
    [] op = "find"      -> OnceFound(Values(SubSeq(At(Hits), 1, Least(1, Len(Hits)))),
                                     <<Nothing, End>>)
    [] op = "findIndex" -> OnceFound(IF Hits = <<>> THEN <<>> ELSE <<Value(Hits[1] - 1)>>,
                                     <<Nothing, End>>)
    [] op = "first"     -> OnceFound(Values(SubSeq(At(Hits), 1, Least(1, Len(Hits)))),
                                     IF opt THEN <<Value(Seed), End>> ELSE <<Fail>>)
    [] op = "last"      -> AtTheEnd(IF Hits # <<>> THEN <<Value(Last(At(Hits))), End>>
                                    ELSE IF opt THEN <<Value(Seed), End>> ELSE <<Fail>>)
    [] op = "isEmpty"   -> OnceFound(IF In = <<>> THEN <<>> ELSE <<Value(No)>>,
                                     <<Value(Yes), End>>)
    [] op = "single"    -> IF Len(Hits) > 1 THEN <<Fail>>
                           ELSE AtTheEnd(IF Hits = <<>> THEN <<Fail>>
                                         ELSE Values(At(Hits)) \o <<End>>)
    [] op = "distinct"  -> Values(At(FirstOfKey)) \o Ending
    [] op = "distinctUntilChanged" ->
         Values(At(Where(LAMBDA i : i = 1 \/ Key(In[i]) # Key(In[i - 1])))) \o Ending
    [] op = "pairwise"  -> [i \in 1 .. Len(In) - 1 |-> Array(<<In[i], In[i + 1]>>)] \o Ending
    [] op = "defaultIfEmpty" ->
         (IF In = <<>> /\ Completed THEN <<Value(Seed)>> ELSE Values(In)) \o Ending
    [] op = "throwIfEmpty" ->
         IF In = <<>> /\ Completed THEN <<Fail>> ELSE Values(In) \o Ending
    [] op = "startWith" -> Values(<<8, 9>> \o In) \o Ending
    [] op = "materialize" ->
         [i \in DOMAIN In |-> Array(<<1, In[i]>>)]
           \o (IF Ending = <<>> THEN <<>>
               ELSE <<Array(IF Completed THEN <<3>> ELSE <<2>>), End>>)
    [] op = "dematerialize" ->
         LET ends == Where(LAMBDA i : In[i] # 1)
         IN IF ends = <<>> THEN Values(In) \o Ending
            ELSE Values(UpTo(ends[1] - 1)) \o <<Observed(In[ends[1]])>>

-----------------------------------------------------------------------------
(* Properties.                                                              *)

TypeOK ==
  /\ DownstreamOK
  /\ op \in Ops /\ n \in Counts /\ opt \in BOOLEAN /\ threw \in BOOLEAN
  /\ st \in [i : 0 .. MaxInput + 1, kept : Seq(Nat), has : BOOLEAN, open : BOOLEAN]
  /\ input \in Seq([do : STRING, arg : Seq(Nat)])

(* Once no call is in progress, the observer has had what the operator      *)
(* stands for, no more, no less and in order, however the notifications of  *)
(* the source were nested in each other; in the middle of calls, or after   *)
(* it has left, the beginning of that.                                      *)
GivesWhatItShould ==
  /\ ~threw => IsPrefix(out, Expected)
  /\ Quiet /\ ~Left /\ ~threw => out = Expected

(* A callback that throws ends the result with that error, after what the   *)
(* values before it had given.                                              *)
ThrowIsTheEnd ==
  Quiet /\ ~Left /\ threw => out = SelectSeq(Expected, IsNext) \o <<Fail>>

(* No operator keeps its source connected once its result is over, and none *)
(* that can tell that it needs no more of the source tells its observer     *)
(* before it has left it.                                                   *)
DisconnectsFirst ==
  op \in {"take", "every", "find", "findIndex", "first", "isEmpty", "single"} =>
    \A i \in DOMAIN stack :
      stack[i].at = "call" /\ Contains(stack[i].todo, End) => ~st.open
=============================================================================
