----------------------------- MODULE Combination -----------------------------
(***************************************************************************)
(* The operators that combine several sources of equal standing: combine   *)
(* (of which combineLatest is a case), forkJoin, zip, race, sequenceEqual  *)
(* and the branches of partition; combineLatestAll and zipAll first        *)
(* collect their sources from an outer one.                                *)
(*                                                                         *)
(* They subscribe to their sources in a loop, and a source may emit, fail  *)
(* or complete inside it, inside the observer, and inside each other.      *)
(***************************************************************************)
EXTENDS Inputs

CONSTANTS
  Ops,         (* the operators of this instance                          *)
  Calm,        (* those whose functions do not make any source notify     *)
  MaxSources,  (* bound: sources                                          *)
  Differ       (* the pair of values that sequenceEqual finds different   *)

VARIABLES
  op,    (* the operator                                                  *)
  cfg,   (* its options                                                   *)
  n,     (* the number of its sources                                     *)
  st     (* what its handlers close over                                  *)

vars == <<op, cfg, n, st, inputs, aborted, log, active, out, stack>>

Outer == 0  (* and the sources are 1 .. n *)

Ids == 1 .. MaxSources

(* causes: combine emits for any source, or for the first only; requires:   *)
(* it waits for all values; fill: of zip; outer: sources are collected;     *)
(* branch: of partition.                                                    *)
Options == [causesAll : BOOLEAN, requires : BOOLEAN, fill : BOOLEAN, outer : BOOLEAN,
            branch : BOOLEAN]

(* k sources are subscribed to; buf are the buffers, of which combine and   *)
(* forkJoin keep the last value only.                                       *)
Start == [k |-> 0, buf |-> [r \in Ids |-> <<>>], done |-> {}, winner |-> 0, pair |-> 0]

Loop == Step("list", <<>>)

Opening ==
  IF cfg.outer THEN <<Subscribe(Outer, 0)>>
  ELSE IF n = 0 THEN <<End>> ELSE <<Loop>>

Init ==
  /\ op \in Ops
  /\ cfg \in Options
  /\ op # "combine" => cfg.causesAll /\ cfg.requires
  /\ op # "zip" => ~cfg.fill
  /\ cfg.outer => op \in {"combine", "zip"} /\ cfg.causesAll /\ cfg.requires /\ ~cfg.fill
  /\ op # "partition" => cfg.branch
  /\ n \in CASE cfg.outer -> {0}
             [] op \in {"forkJoin", "zip"} -> 0 .. MaxSources
             [] op = "sequenceEqual" -> {2}
             [] op = "partition" -> {1}
             [] OTHER -> Ids
  /\ st = Start
  /\ InputsInit
  /\ stack = <<[todo |-> Opening, at |-> "run"]>>

-----------------------------------------------------------------------------
Do(s, todo) ==
  /\ st' = s
  /\ Enter(todo)
  /\ UNCHANGED aborted

EndIf(cond) == IF cond THEN <<End>> ELSE <<>>

Sources == 1 .. n

Newest(s) == [r \in Sources |-> IF s.buf[r] = <<>> THEN 0 ELSE s.buf[r][1]]

Combine(r) ==
  /\ op = "combine"
  /\ LET s == [st EXCEPT !.buf[r] = <<Here>>]
         ready == cfg.requires => \A q \in Sources : s.buf[q] # <<>>
     IN Do(s, IF ready /\ (cfg.causesAll \/ r = 1) THEN <<Array(Newest(s))>> ELSE <<>>)

ForkJoin(r) ==
  /\ op = "forkJoin"
  /\ Do([st EXCEPT !.buf[r] = <<Here>>], <<>>)

Drain == Step("drain", <<>>)

Check == Step("check", <<>>)

Buffer(r) ==
  /\ op \in {"zip", "sequenceEqual"}
  /\ Do([st EXCEPT !.buf[r] = Append(@, Here)], IF op = "zip" THEN <<Drain>> ELSE <<Check>>)

(* selectWinner() *)
Win(r, todo) ==
  /\ op = "race"
  /\ st' = [st EXCEPT !.winner = IF @ = 0 THEN r ELSE @]
  /\ aborted' = IF st.winner = 0 THEN aborted \cup (1 .. st.k \ {r}) ELSE aborted
  /\ Enter(IF st.winner \in {0, r} THEN todo ELSE <<>>)

(* The predicate says yes to every other value. *)
Partition(r) ==
  /\ op = "partition"
  /\ Do([st EXCEPT !.pair = @ + 1],
        <<Call>> \o IF (st.pair % 2 = 0) = cfg.branch THEN <<Value(Here)>> ELSE <<>>)

(* combineLatestAll and zipAll collect. *)
Collect == Do(st, <<>>) /\ n < MaxSources /\ n' = n + 1

(* The functions of the user make no source notify; for sequenceEqual, the  *)
(* observer does not either.                                                *)
IsCalm == op \in Calm => NotAsked /\ (op = "sequenceEqual" => AtRest)

InputNext(i) ==
  /\ Delivers(i, "next")
  /\ IsCalm
  /\ IF Role(i) = Outer THEN Collect
     ELSE /\ Combine(Role(i)) \/ ForkJoin(Role(i)) \/ Buffer(Role(i))
               \/ Win(Role(i), <<Value(Here)>>) \/ Partition(Role(i))
          /\ UNCHANGED n
  /\ UNCHANGED <<op, cfg, inputs, active, out>>

-----------------------------------------------------------------------------
CombineEnd(s) == op = "combine" /\ Do(s, EndIf(s.done = Sources))

(* A source without a value ends forkJoin; the last one gives the result,   *)
(* after the selector is asked.                                             *)
ForkJoinEnd(r, s) ==
  /\ op = "forkJoin"
  /\ Do(s, CASE s.buf[r] = <<>> -> <<End>>
             [] s.done = Sources -> <<Call, Array(Newest(s)), End>>
             [] OTHER -> <<>>)

SourceCompletes(i) ==
  LET r == Role(i)
      s == [st EXCEPT !.done = @ \cup {r}]
  IN \/ CombineEnd(s)
     \/ ForkJoinEnd(r, s)
     \/ op = "zip" /\ Do(s, <<Drain>>)
     \/ op = "sequenceEqual" /\ Do(s, <<Check>>)
     \/ Win(r, <<End>>)
     \/ op = "partition" /\ Do(s, <<End>>)

OuterCompletes == Do(st, IF n = 0 THEN <<End>> ELSE <<Loop>>)

InputCompletes(i) ==
  /\ Delivers(i, "complete")
  /\ IsCalm
  /\ inputs' = Closed(i)
  /\ IF Role(i) = Outer THEN OuterCompletes ELSE SourceCompletes(i)
  /\ UNCHANGED <<op, cfg, n, active, out>>

InputFails(i) ==
  /\ Delivers(i, "error")
  /\ IsCalm
  /\ inputs' = Closed(i)
  /\ IF op = "race" THEN Win(Role(i), <<Fail>>) ELSE Do(st, <<Fail>>)
  /\ UNCHANGED <<op, cfg, n, active, out>>

-----------------------------------------------------------------------------
(* Steps.                                                                   *)
rest == <<op, cfg, n, inputs, aborted, log, active, out>>

(* The loop over the sources. *)
SubscribeNext ==
  /\ Doing("list")
  /\ IF st.k = n \/ ~active \/ st.winner # 0 THEN Proceed(<<>>) /\ UNCHANGED st
     ELSE /\ st' = [st EXCEPT !.k = @ + 1]
          /\ Proceed(<<Subscribe(st.k + 1, IF op = "race" THEN st.k + 1 ELSE 0), Loop>>)
  /\ UNCHANGED rest

Empty(r) == st.buf[r] = <<>>

(* drainBuffers() of zip: a tuple at a time, then whether it is over.       *)
DrainBuffers ==
  /\ Doing("drain")
  /\ LET can == /\ \A r \in Sources : ~Empty(r) \/ (cfg.fill /\ r \in st.done)
                /\ \E r \in Sources : ~Empty(r)
         over == IF cfg.fill THEN \A r \in Sources : r \in st.done /\ Empty(r)
                 ELSE \E r \in Sources : r \in st.done /\ Empty(r)
     IN IF active /\ can
        THEN /\ st' = [st EXCEPT !.buf = [r \in Ids |-> IF @[r] = <<>> THEN <<>> ELSE Tail(@[r])]]
             /\ Proceed(<<Array(Newest(st)), Drain>>)
        ELSE /\ UNCHANGED st
             /\ Proceed(EndIf(over))
  /\ UNCHANGED rest

Conclude(equal) == <<Value(IF equal THEN 1 ELSE 0), End>>

(* checkState() of sequenceEqual. *)
CheckState ==
  /\ Doing("check")
  /\ IF ~Empty(1) /\ ~Empty(2)
     THEN /\ st' = [st EXCEPT !.buf = [r \in Ids |-> IF r > 2 THEN <<>> ELSE Tail(@[r])],
                              !.pair = @ + 1]
          /\ Proceed(<<Call, Step("compared", <<st.pair + 1>>)>>)
     ELSE /\ UNCHANGED st
          /\ Proceed(CASE (1 \in st.done /\ Empty(1) /\ ~Empty(2))
                            \/ (2 \in st.done /\ Empty(2) /\ ~Empty(1)) -> Conclude(FALSE)
                       [] {1, 2} \subseteq st.done -> Conclude(TRUE)
                       [] OTHER -> <<>>)
  /\ UNCHANGED rest

Compared ==
  /\ Doing("compared")
  /\ Proceed(IF Arg[1] = Differ THEN Conclude(FALSE) ELSE <<Check>>)
  /\ UNCHANGED <<rest, st>>

Next ==
  \/ \E i \in DOMAIN inputs : InputNext(i)
  \/ \E i \in DOMAIN inputs : InputCompletes(i) \/ InputFails(i)
  \/ SubscribeNext
  \/ DrainBuffers
  \/ CheckState
  \/ Compared
  \/ InputsOrdinary /\ UNCHANGED <<op, cfg, n, st>>

Spec == Init /\ [][Next]_vars

-----------------------------------------------------------------------------
(* The reference: what the log up to q says.                                *)
ValuesOf(r, q) == SelectSeq([p \in 1 .. q |-> p], LAMBDA p : log[p] = [role |-> r, do |-> "next"])

Count(r, q) == Len(ValuesOf(r, q))

OverBy(r, q) == \E p \in 1 .. q : log[p] = [role |-> r, do |-> "complete"]

AllOver(q) == \A r \in Sources : OverBy(r, q)

Lasts(q) == [r \in Sources |-> IF Count(r, q) = 0 THEN 0 ELSE Last(ValuesOf(r, q))]

(* zip: how many tuples there are by q. *)
Tuples(q) ==
  LET c == [r \in Sources |-> Count(r, q)]
      waits == IF cfg.fill /\ ~AllOver(q) THEN {r \in Sources : ~OverBy(r, q)} ELSE Sources
  IN IF cfg.fill /\ AllOver(q)
     THEN CHOOSE m \in 0 .. q : (\E r \in waits : c[r] = m) /\ \A r \in waits : c[r] <= m
     ELSE CHOOSE m \in 0 .. q : (\E r \in waits : c[r] = m) /\ \A r \in waits : c[r] >= m

Tuple(t, q) == Array([r \in Sources |-> IF Count(r, q) >= t THEN ValuesOf(r, q)[t] ELSE 0])

Pairs(q) == IF Count(1, q) < Count(2, q) THEN Count(1, q) ELSE Count(2, q)

OfValue(q) ==
  LET r == log[q].role
  IN CASE op = "combine" ->
            IF /\ cfg.requires => \A s \in Sources : Count(s, q) > 0
               /\ cfg.causesAll \/ r = 1
            THEN <<Array(Lasts(q))>> ELSE <<>>
       [] op = "race" -> IF r = log[1].role THEN <<Value(q)>> ELSE <<>>
       [] op = "partition" ->
            IF (Count(1, q) % 2 = 1) = cfg.branch /\ ~(q < Len(log) /\ log[q + 1].role = User)
            THEN <<Value(q)>> ELSE <<>>
       [] OTHER -> <<>>

Given(q) ==
  CASE op = "zip" -> [t \in 1 .. Tuples(q) - Tuples(q - 1) |-> Tuple(Tuples(q - 1) + t, q)]
    [] op = "forkJoin" /\ log[q].do = "complete" ->
         IF AllOver(q) /\ ~(q < Len(log)) THEN <<Array(Lasts(q))>> ELSE <<>>
    [] log[q].do = "next" -> OfValue(q)
    [] OTHER -> <<>>

(* Nothing is delivered after an end, so that it is the log as a whole that *)
(* says whether there is one.                                               *)
Concluded ==
  LET q == Len(log)
      differ == Differ \in 1 .. Pairs(q)
      longer == \E r \in 1 .. 2 : OverBy(r, q) /\ Count(r, q) < Count(3 - r, q)
  IN CASE op = "zip" -> IF cfg.fill THEN EndIf(AllOver(q))
                        ELSE EndIf(\E r \in Sources : OverBy(r, q) /\ Count(r, q) = Tuples(q))
       [] op = "forkJoin" ->
            EndIf(AllOver(q) \/ \E r \in Sources : OverBy(r, q) /\ Count(r, q) = 0)
       [] op = "sequenceEqual" ->
            IF differ \/ longer THEN Conclude(FALSE)
            ELSE IF AllOver(q) THEN Conclude(TRUE) ELSE <<>>
       [] op = "race" -> EndIf(\E p \in DOMAIN log : log[p].do = "complete")
       [] OTHER -> EndIf(AllOver(q))

FoundEmpty(q) ==
  /\ op = "forkJoin" /\ \E r \in Sources : OverBy(r, q) /\ Count(r, q) = 0

Due ==
  FlattenSeq([q \in DOMAIN log |->
      IF log[q].role = Outer \/ FoundEmpty(q) THEN <<>> ELSE Given(q)])

Conclusion ==
  CASE log = <<>> -> EndIf(n = 0 /\ ~cfg.outer)
    [] Failed -> <<Fail>>
    [] OTHER -> IF n = 0 THEN EndIf(Last(log).do = "complete") ELSE Concluded

-----------------------------------------------------------------------------
(* Properties.                                                              *)

TypeOK ==
  /\ InputsTypeOK
  /\ op \in Ops /\ cfg \in Options /\ n \in 0 .. MaxSources
  /\ st.k <= n

(* combine.ts:47, fork-join.ts:59, zip.ts:52, sequence-equal.ts:35: whatever *)
(* the order in which sources notify, and however deep inside each other,   *)
(* the observer is given what that order says; an error that comes while    *)
(* zip empties its buffers is not kept waiting by the rest of the tuples.   *)
GivesWhatItShould ==
  Quiet /\ ~Left =>
    \/ out = Due \o Conclusion
    \/ op = "zip" /\ Failed /\ Last(out) = Fail /\ IsPrefix(Front(out), Due)

(* race.ts:32: the source that notifies first is the only one that is left, *)
(* and that has notified.                                                   *)
OneWinner ==
  op = "race" /\ log # <<>> /\ log[1].role # User =>
    /\ \A p \in DOMAIN log : log[p].role \in {log[1].role, User}
    /\ \A i \in DOMAIN inputs : Live(i) => Role(i) = log[1].role

(* sequence-equal.ts:30: the two sequences are compared to one answer.      *)
OneAnswer ==
  op = "sequenceEqual" => Cardinality({k \in DOMAIN out : out[k].do = "next"}) <= 1

(* A result that has not ended when nothing is in progress waits for an     *)
(* input that is live: never for one that is over already.                  *)
NeverStranded ==
  Quiet /\ active => \E i \in DOMAIN inputs : Live(i)
=============================================================================
