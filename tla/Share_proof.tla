----------------------------- MODULE Share_proof -----------------------------
(***************************************************************************)
(* Proofs about Share, for any set of observers, any three reset rules and  *)
(* any bound on the depth of user calls.                                    *)
(***************************************************************************)
EXTENDS Share, FiniteSetTheorems, TLAPS

(* Of two calls in progress, f the inner one: one observer cannot be at the *)
(* start of two subscriptions, nor subscribe inside the fan-out of an end   *)
(* that is to tell it.                                                      *)
Entering == {"joining", "connecting"}

Clash(f, g) ==
  /\ f.op \in Entering
  /\ g.op \in Entering \cup {"ending"}
  /\ f.who \cap g.who # {}

NoClash(q) == \A i, j \in DOMAIN q : i < j => ~Clash(q[i], q[j])

(* No end of the source is about to be told within q; the next thing that q *)
(* does is to tell one.                                                     *)
Silent(q) == \A f \in ToSet(q) : f.op # "telling"

Tells(q) == q # <<>> /\ Head(q).op = "telling" /\ Silent(Tail(q))

-----------------------------------------------------------------------------
(* What the actions do to the call stack.                                   *)

LEMMA PushFacts ==
  ASSUME NEW S, NEW f \in S, NEW q \in Seq(S)
  PROVE  /\ <<f>> \o q \in Seq(S)
         /\ <<f>> \o q # <<>>
         /\ Head(<<f>> \o q) = f
         /\ Tail(<<f>> \o q) = q
         /\ Len(<<f>> \o q) = Len(q) + 1
         /\ Len(q) \in Nat
         /\ DOMAIN (<<f>> \o q) = 1 .. Len(q) + 1
         /\ DOMAIN q = 1 .. Len(q)
         /\ (<<f>> \o q)[1] = f
         /\ \A i \in 1 .. Len(q) : (<<f>> \o q)[i + 1] = q[i]
  OBVIOUS

LEMMA PopFacts ==
  ASSUME NEW S, NEW q \in Seq(S), q # <<>>
  PROVE  /\ Head(q) \in S
         /\ Tail(q) \in Seq(S)
         /\ q = <<Head(q)>> \o Tail(q)
  OBVIOUS

LEMMA PushSet ==
  ASSUME NEW S, NEW f \in S, NEW q \in Seq(S)
  PROVE  ToSet(<<f>> \o q) = {f} \cup ToSet(q)
  <1> DEFINE r == <<f>> \o q
  <1>1. /\ DOMAIN r = 1 .. Len(q) + 1 /\ DOMAIN q = 1 .. Len(q) /\ Len(q) \in Nat
        /\ r[1] = f
        /\ \A i \in 1 .. Len(q) : i + 1 \in 1 .. Len(q) + 1 /\ r[i + 1] = q[i]
    BY PushFacts
  <1>2. \A i \in 1 .. Len(q) + 1 : i = 1 \/ (i - 1 \in 1 .. Len(q) /\ i = (i - 1) + 1)
    BY <1>1
  <1> HIDE DEF r
  <1>3. ASSUME NEW x \in ToSet(r) PROVE x = f \/ x \in ToSet(q)
    <2>1. PICK i \in 1 .. Len(q) + 1 : x = r[i]
      BY <1>1 DEF ToSet
    <2>2. CASE i = 1
      BY <1>1, <2>1, <2>2
    <2>3. CASE i - 1 \in 1 .. Len(q) /\ i = (i - 1) + 1
      <3>1. x = q[i - 1]
        BY <1>1, <2>1, <2>3
      <3>2. QED
        BY <1>1, <2>3, <3>1 DEF ToSet
    <2>4. QED
      BY <1>2, <2>2, <2>3
  <1>4. ASSUME NEW x \in ToSet(q) PROVE x \in ToSet(r)
    <2>1. PICK i \in 1 .. Len(q) : x = q[i]
      BY <1>1 DEF ToSet
    <2>2. i + 1 \in DOMAIN r /\ r[i + 1] = x
      BY <1>1, <2>1
    <2>3. QED
      BY <2>2 DEF ToSet
  <1>5. f \in ToSet(r)
    <2>1. 1 \in DOMAIN r /\ r[1] = f
      BY <1>1
    <2>2. QED
      BY <2>1 DEF ToSet
  <1>6. QED
    BY <1>3, <1>4, <1>5 DEF r

LEMMA PushClash ==
  ASSUME NEW S, NEW f \in S, NEW q \in Seq(S)
  PROVE  NoClash(<<f>> \o q) <=> NoClash(q) /\ \A g \in ToSet(q) : ~Clash(f, g)
  <1> DEFINE r == <<f>> \o q
  <1>1. /\ DOMAIN r = 1 .. Len(q) + 1 /\ DOMAIN q = 1 .. Len(q) /\ Len(q) \in Nat
        /\ r[1] = f
        /\ \A i \in 1 .. Len(q) : i + 1 \in 1 .. Len(q) + 1 /\ r[i + 1] = q[i]
    BY PushFacts
  <1>2. \A i \in 1 .. Len(q) + 1 : i = 1 \/ (i - 1 \in 1 .. Len(q) /\ i = (i - 1) + 1)
    BY <1>1
  <1> HIDE DEF r
  <1>3. ASSUME NoClash(r) PROVE NoClash(q) /\ \A g \in ToSet(q) : ~Clash(f, g)
    <2>1. ASSUME NEW g \in ToSet(q) PROVE ~Clash(f, g)
      <3>1. PICK i \in 1 .. Len(q) : g = q[i]
        BY <1>1 DEF ToSet
      <3>2. 1 \in DOMAIN r /\ i + 1 \in DOMAIN r /\ 1 < i + 1 /\ r[i + 1] = g
        BY <1>1, <3>1
      <3>3. QED
        BY <1>1, <1>3, <3>2 DEF NoClash
    <2>2. ASSUME NEW i \in 1 .. Len(q), NEW j \in 1 .. Len(q), i < j
          PROVE  ~Clash(q[i], q[j])
      <3>1. i + 1 < j + 1 /\ i + 1 \in DOMAIN r /\ j + 1 \in DOMAIN r
        BY <1>1, <2>2
      <3>2. r[i + 1] = q[i] /\ r[j + 1] = q[j]
        BY <1>1
      <3>3. QED
        BY <1>3, <3>1, <3>2 DEF NoClash
    <2>3. QED
      BY <1>1, <2>1, <2>2 DEF NoClash
  <1>4. ASSUME NoClash(q), \A g \in ToSet(q) : ~Clash(f, g) PROVE NoClash(r)
    <2>1. SUFFICES ASSUME NEW i \in 1 .. Len(q) + 1, NEW j \in 1 .. Len(q) + 1, i < j
                   PROVE  ~Clash(r[i], r[j])
      BY <1>1 DEF NoClash
    <2>2. j - 1 \in 1 .. Len(q) /\ j = (j - 1) + 1
      BY <1>1, <2>1
    <2>3. r[j] = q[j - 1] /\ q[j - 1] \in ToSet(q)
      BY <1>1, <2>2 DEF ToSet
    <2>4. CASE i = 1
      BY <1>1, <1>4, <2>3, <2>4
    <2>5. CASE i # 1
      <3>1. i - 1 \in 1 .. Len(q) /\ i = (i - 1) + 1 /\ i - 1 < j - 1
        BY <1>1, <2>1, <2>5
      <3>2. r[i] = q[i - 1]
        BY <1>1, <3>1
      <3>3. QED
        BY <1>1, <1>4, <2>2, <2>3, <3>1, <3>2 DEF NoClash
    <2>6. QED
      BY <2>4, <2>5
  <1>5. QED
    BY <1>3, <1>4 DEF r

LEMMA PushSilent ==
  ASSUME NEW S, NEW f \in S, NEW q \in Seq(S)
  PROVE  /\ Silent(<<f>> \o q) <=> f.op # "telling" /\ Silent(q)
         /\ Tells(<<f>> \o q) <=> f.op = "telling" /\ Silent(q)
  <1> DEFINE r == <<f>> \o q
  <1>1. ToSet(r) = {f} \cup ToSet(q) /\ r # <<>> /\ Head(r) = f /\ Tail(r) = q
    BY PushSet, PushFacts
  <1> HIDE DEF r
  <1>2. QED
    BY <1>1 DEF Silent, Tells, r

(* A frame of q that applies the rule of an end is above another. *)
EndsAbove(q) == \A i \in DOMAIN q : q[i].op \in Ends => i # Len(q)

LEMMA PushEnds ==
  ASSUME NEW S, NEW f \in S, NEW q \in Seq(S), EndsAbove(q),
         f.op \in Ends => q # <<>>
  PROVE  EndsAbove(<<f>> \o q)
  <1> DEFINE r == <<f>> \o q
  <1>1. /\ DOMAIN r = 1 .. Len(q) + 1 /\ DOMAIN q = 1 .. Len(q) /\ Len(q) \in Nat
        /\ Len(r) = Len(q) + 1
        /\ r[1] = f
        /\ \A i \in 1 .. Len(q) : r[i + 1] = q[i]
        /\ q # <<>> => Len(q) # 0
    BY PushFacts
  <1> HIDE DEF r
  <1>2. ASSUME NEW i \in 1 .. Len(q) + 1, r[i].op \in Ends PROVE i # Len(q) + 1
    <2>1. CASE i = 1
      BY <1>1, <1>2, <2>1
    <2>2. CASE i # 1
      <3>1. i - 1 \in 1 .. Len(q) /\ i = (i - 1) + 1
        BY <1>1, <2>2
      <3>2. r[i] = q[i - 1]
        BY <1>1, <3>1
      <3>3. i - 1 # Len(q)
        BY <1>1, <1>2, <3>1, <3>2 DEF EndsAbove
      <3>4. QED
        BY <1>1, <3>3
    <2>3. QED
      BY <2>1, <2>2
  <1>3. QED
    BY <1>1, <1>2 DEF EndsAbove, r

LEMMA PopEnds ==
  ASSUME NEW S, NEW q \in Seq(S), q # <<>>, EndsAbove(q)
  PROVE  EndsAbove(Tail(q)) /\ (Head(q).op \in Ends => Tail(q) # <<>>)
  <1> DEFINE f == Head(q)
             t == Tail(q)
  <1>1. f \in S /\ t \in Seq(S) /\ q = <<f>> \o t
    BY PopFacts
  <1> HIDE DEF f, t
  <1>2. /\ DOMAIN q = 1 .. Len(t) + 1 /\ DOMAIN t = 1 .. Len(t) /\ Len(t) \in Nat
        /\ Len(q) = Len(t) + 1
        /\ q[1] = f
        /\ \A i \in 1 .. Len(t) : q[i + 1] = t[i]
    BY <1>1, PushFacts
  <1>3. ASSUME NEW i \in 1 .. Len(t), t[i].op \in Ends PROVE i # Len(t)
    <2>1. i + 1 \in 1 .. Len(t) + 1 /\ q[i + 1] = t[i]
      BY <1>2
    <2>2. i + 1 # Len(q)
      BY <1>2, <1>3, <2>1 DEF EndsAbove
    <2>3. QED
      BY <1>2, <2>2
  <1>4. ASSUME f.op \in Ends PROVE t # <<>>
    <2>1. 1 \in DOMAIN q /\ q[1] = f
      BY <1>2
    <2>2. 1 # Len(q)
      BY <1>4, <2>1 DEF EndsAbove
    <2>3. Len(t) # 0
      BY <1>2, <2>2
    <2>4. QED
      BY <2>3
  <1>5. QED
    BY <1>2, <1>3, <1>4 DEF EndsAbove, f, t

LEMMA Decomposed ==
  ASSUME NEW S, NEW q \in Seq(S), q # <<>>
  PROVE  /\ Head(q) \in S
         /\ Tail(q) \in Seq(S)
         /\ ToSet(q) = {Head(q)} \cup ToSet(Tail(q))
         /\ NoClash(q) <=> /\ NoClash(Tail(q))
                           /\ \A g \in ToSet(Tail(q)) : ~Clash(Head(q), g)
         /\ Silent(q) <=> Head(q).op # "telling" /\ Silent(Tail(q))
  <1> DEFINE h == Head(q)
             t == Tail(q)
  <1>1. h \in S /\ t \in Seq(S) /\ q = <<h>> \o t
    BY PopFacts
  <1> HIDE DEF h, t
  <1>2. /\ ToSet(q) = {h} \cup ToSet(t)
        /\ NoClash(q) <=> NoClash(t) /\ \A g \in ToSet(t) : ~Clash(h, g)
        /\ Silent(q) <=> h.op # "telling" /\ Silent(t)
    BY <1>1, PushSet, PushClash, PushSilent
  <1>3. QED
    BY <1>1, <1>2 DEF h, t

LEMMA PushTwoFacts ==
  ASSUME NEW S, NEW f \in S, NEW g \in S, NEW q \in Seq(S)
  PROVE  /\ <<g>> \o q \in Seq(S)
         /\ <<f, g>> \o q = <<f>> \o (<<g>> \o q)
  <1> DEFINE u == <<f, g>> \o q
             v == <<f>> \o (<<g>> \o q)
  <1>1. /\ u \in Seq(S)
        /\ Len(u) = Len(q) + 2
        /\ u[1] = f
        /\ u[2] = g
        /\ \A i \in 1 .. Len(q) : u[i + 2] = q[i]
    OBVIOUS
  <1>2. /\ v \in Seq(S)
        /\ Len(v) = Len(q) + 2
        /\ v[1] = f
        /\ v[2] = g
        /\ \A i \in 1 .. Len(q) : v[i + 2] = q[i]
    OBVIOUS
  <1> HIDE DEF u, v
  <1>3. ASSUME NEW i \in 1 .. Len(u) PROVE u[i] = v[i]
    <2>1. i = 1 \/ i = 2 \/ (i - 2 \in 1 .. Len(q) /\ i = (i - 2) + 2)
      BY <1>1
    <2>2. QED
      BY <1>1, <1>2, <2>1
  <1>4. u = v
    BY <1>1, <1>2, <1>3
  <1>5. <<g>> \o q \in Seq(S)
    OBVIOUS
  <1>6. QED
    BY <1>4, <1>5 DEF u, v

(* The stack after a step, of the form that the actions give it. *)
LEMMA Pushed ==
  ASSUME NEW f \in Frame, NEW q \in Seq(Frame), stack' = <<f>> \o q
  PROVE  /\ stack' \in Seq(Frame)
         /\ stack' # <<>>
         /\ Top' = f
         /\ Below' = q
         /\ ToSet(stack') = {f} \cup ToSet(q)
         /\ NoClash(stack') <=> NoClash(q) /\ \A g \in ToSet(q) : ~Clash(f, g)
         /\ Silent(stack') <=> f.op # "telling" /\ Silent(q)
         /\ Tells(stack') <=> f.op = "telling" /\ Silent(q)
  <1>1. /\ stack' \in Seq(Frame) /\ stack' # <<>>
        /\ Head(stack') = f /\ Tail(stack') = q
    BY PushFacts
  <1>2. QED
    BY <1>1, PushSet, PushClash, PushSilent DEF Top, Below

LEMMA PushedTwo ==
  ASSUME NEW f \in Frame, NEW g \in Frame, NEW q \in Seq(Frame),
         stack' = <<f, g>> \o q
  PROVE  /\ stack' \in Seq(Frame)
         /\ stack' # <<>>
         /\ Top' = f
         /\ Below' = <<g>> \o q
         /\ Below' # <<>>
         /\ Head(Below') = g
         /\ Tail(Below') = q
         /\ ToSet(stack') = {f, g} \cup ToSet(q)
         /\ ToSet(Below') = {g} \cup ToSet(q)
         /\ NoClash(stack') <=> /\ NoClash(q)
                                /\ ~Clash(f, g)
                                /\ \A h \in ToSet(q) : ~Clash(f, h) /\ ~Clash(g, h)
         /\ Silent(stack') <=> f.op # "telling" /\ g.op # "telling" /\ Silent(q)
         /\ Tells(Below') <=> g.op = "telling" /\ Silent(q)
  <1> DEFINE r == <<g>> \o q
  <1>1. r \in Seq(Frame) /\ stack' = <<f>> \o r
    BY PushTwoFacts
  <1>2. /\ r # <<>> /\ Head(r) = g /\ Tail(r) = q
        /\ ToSet(r) = {g} \cup ToSet(q)
        /\ NoClash(r) <=> NoClash(q) /\ \A h \in ToSet(q) : ~Clash(g, h)
        /\ Silent(r) <=> g.op # "telling" /\ Silent(q)
        /\ Tells(r) <=> g.op = "telling" /\ Silent(q)
    BY PushFacts, PushSet, PushClash, PushSilent
  <1> HIDE DEF r
  <1>3. /\ stack' \in Seq(Frame)
        /\ stack' # <<>>
        /\ Top' = f
        /\ Below' = r
        /\ ToSet(stack') = {f} \cup ToSet(r)
        /\ NoClash(stack') <=> NoClash(r) /\ \A h \in ToSet(r) : ~Clash(f, h)
        /\ Silent(stack') <=> f.op # "telling" /\ Silent(r)
    BY <1>1, Pushed
  <1>4. QED
    BY <1>2, <1>3 DEF r

LEMMA OnTop ==
  ASSUME stack \in Seq(Frame), stack # <<>>
  PROVE  /\ Top \in Frame
         /\ Below \in Seq(Frame)
         /\ ToSet(stack) = {Top} \cup ToSet(Below)
         /\ NoClash(stack) <=> NoClash(Below) /\ \A g \in ToSet(Below) : ~Clash(Top, g)
         /\ Silent(stack) <=> Top.op # "telling" /\ Silent(Below)
         /\ Tells(stack) <=> Top.op = "telling" /\ Silent(Below)
  BY Decomposed DEF Top, Below, Tells

LEMMA CallType ==
  ASSUME NEW op \in Ops, NEW who \in SUBSET Observers,
         NEW of \in Observers \cup Ends \cup {None, "zero"}, NEW at \in {"run", "call"}
  PROVE  /\ Call(op, who, of, at) \in Frame
         /\ Call(op, who, of, at).op = op
         /\ Call(op, who, of, at).who = who
         /\ Call(op, who, of, at).of = of
         /\ Call(op, who, of, at).at = at
  BY DEF Call, Frame

-----------------------------------------------------------------------------
(* Type correctness.  It needs that whom a call is about has subscribed,    *)
(* that what connects or is told has a Subject, and that the teardowns,     *)
(* which are counted, are finitely many.                                    *)

FrameType(f, status, subjects) ==
  /\ f.op \in Entering \cup {"ending", "leaving"} => \A o \in f.who : status[o] # "new"
  /\ f.op = "connecting" => \A o \in f.who : subjects[o] \in Observers
  /\ f.op = "telling" => f.of \in Observers
  /\ f.op = "factory" => f.of \in Ends \cup {"zero"}

StackTyped == EndsAbove(stack) /\ \A f \in ToSet(stack) : FrameType(f, cold, joined)

Newcomers == \A o \in Observers : cold[o] = "new" => o \notin hooked /\ joined[o] = None

LinkedJoined == \A o \in Observers : link[o] # "none" => joined[o] \in Observers

TypeInv == TypeOK /\ IsFiniteSet(hooked) /\ Newcomers /\ LinkedJoined /\ StackTyped

(* What once is new, or has a Subject, never is so, or loses it, again. *)
LEMMA FrameTypeKept ==
  ASSUME TypeOK, NEW f \in Frame, FrameType(f, cold, joined),
         \A o \in Observers : cold[o] # "new" => cold'[o] # "new",
         \A o \in Observers : joined[o] \in Observers => joined'[o] \in Observers
  PROVE  FrameType(f, cold', joined')
  <1>1. f.who \subseteq Observers
    BY DEF Frame
  <1>2. QED
    BY <1>1 DEF FrameType

LEMMA NothingUndone ==
  ASSUME TypeInv, [Next]_vars
  PROVE  /\ \A o \in Observers : cold[o] # "new" => cold'[o] # "new"
         /\ \A o \in Observers : joined[o] \in Observers => joined'[o] \in Observers
  <1> USE DEF TypeInv, TypeOK
  <1>1. CASE Next
    <2>1. ASSUME NEW p \in Observers,
                 \/ \E status \in SubscribedAs : Subscribe(p, status)
                 \/ CallAbort(p) \/ TellOne(p) \/ Leave(p)
                 \/ \E kind \in Ends : SourceEnds(p, kind)
          PROVE  /\ \A o \in Observers : cold[o] # "new" => cold'[o] # "new"
                 /\ UNCHANGED joined
      BY <2>1, ConstantsOK DEF Subscribe, CallAbort, TellOne, Leave, SourceEnds
    <2>2. ASSUME NEW p \in Observers, Join(p) \/ ConnectorThrows(p) \/ Connect(p)
          PROVE  /\ \A o \in Observers : cold[o] # "new" => cold'[o] # "new"
                 /\ \A o \in Observers : joined[o] \in Observers => joined'[o] \in Observers
      BY <2>2 DEF Join, ConnectorThrows, Connect
    <2>3. CASE \/ Tell \/ ResetAtOnce \/ ResetNever \/ FactoryThrows \/ FactoryCalled
               \/ NotifierSubscribed \/ NotifierEmits \/ Clear \/ CallbackEnds \/ Return
      BY <2>3 DEF Tell, ResetAtOnce, ResetNever, FactoryThrows, FactoryCalled,
           NotifierSubscribed, NotifierEmits, Clear, CallbackEnds, Return
    <2>4. QED
      BY <1>1, <2>1, <2>2, <2>3 DEF Next
  <1>2. CASE UNCHANGED vars
    BY <1>2 DEF vars
  <1>3. QED
    BY <1>1, <1>2

LEMMA StaysTyped ==
  ASSUME TypeInv, [Next]_vars, NEW f \in ToSet(stack)
  PROVE  f \in Frame /\ FrameType(f, cold', joined')
  <1>1. f \in Frame
    BY DEF TypeInv, TypeOK, ToSet
  <1>2. FrameType(f, cold, joined) /\ TypeOK
    BY DEF TypeInv, StackTyped
  <1>3. QED
    BY <1>1, <1>2, NothingUndone, FrameTypeKept

LEMMA PushTyped ==
  ASSUME TypeInv, [Next]_vars, NEW q \in Seq(Frame), ToSet(q) \subseteq ToSet(stack),
         EndsAbove(q), NEW f \in Frame, FrameType(f, cold', joined'), f.op \notin Ends,
         stack' = <<f>> \o q
  PROVE  stack' \in Seq(Frame) /\ StackTyped'
  BY StaysTyped, Pushed, PushEnds DEF StackTyped

LEMMA PushTwoTyped ==
  ASSUME TypeInv, [Next]_vars, NEW q \in Seq(Frame), ToSet(q) \subseteq ToSet(stack),
         EndsAbove(q), NEW f \in Frame, FrameType(f, cold', joined'),
         NEW g \in Frame, FrameType(g, cold', joined'), g.op \notin Ends,
         stack' = <<f, g>> \o q
  PROVE  stack' \in Seq(Frame) /\ StackTyped'
  <1> DEFINE r == <<g>> \o q
  <1>1. r \in Seq(Frame) /\ stack' = <<f>> \o r
    BY PushTwoFacts
  <1>2. r # <<>> /\ EndsAbove(r)
    BY PushFacts, PushEnds
  <1> HIDE DEF r
  <1>3. EndsAbove(stack')
    BY <1>1, <1>2, PushEnds
  <1>4. QED
    BY <1>3, StaysTyped, PushedTwo DEF StackTyped

LEMMA PopTyped ==
  ASSUME TypeInv, [Next]_vars, stack' \in Seq(Frame), ToSet(stack') \subseteq ToSet(stack),
         EndsAbove(stack')
  PROVE  StackTyped'
  BY StaysTyped DEF StackTyped

(* The innermost call, and those that it interrupts. *)
LEMMA BelowTyped ==
  ASSUME TypeInv, stack # <<>>
  PROVE  /\ Top \in Frame /\ FrameType(Top, cold, joined)
         /\ Below \in Seq(Frame) /\ ToSet(Below) \subseteq ToSet(stack)
         /\ EndsAbove(Below)
         /\ Top.op \in Ends => /\ Below # <<>>
                               /\ Tail(Below) \in Seq(Frame)
                               /\ ToSet(Tail(Below)) \subseteq ToSet(stack)
                               /\ EndsAbove(Tail(Below))
  <1>1. /\ Top \in Frame /\ FrameType(Top, cold, joined)
        /\ Below \in Seq(Frame) /\ ToSet(Below) \subseteq ToSet(stack)
    BY OnTop DEF TypeInv, TypeOK, StackTyped
  <1>2. EndsAbove(Below) /\ (Top.op \in Ends => Below # <<>>)
    BY PopEnds DEF TypeInv, TypeOK, StackTyped, Top, Below
  <1>3. QED
    BY <1>1, <1>2, Decomposed, PopEnds

(* The subscription of an observer, up to the connection. *)
LEMMA SubscribeType ==
  ASSUME TypeInv, NEW o \in Observers, NEW status \in SubscribedAs, Subscribe(o, status)
  PROVE  TypeInv'
  <1> DEFINE f == Call("joining", {o}, None, IF ended = "no" THEN AfterCancel ELSE "run")
  <1>1. f \in Frame /\ f.op = "joining" /\ f.who = {o}
    BY CallType DEF AfterCancel, InNotifier, Ops
  <1>2. stack' = <<f>> \o stack /\ stack \in Seq(Frame) /\ EndsAbove(stack)
    BY DEF Subscribe, TypeInv, TypeOK, StackTyped
  <1>3. status \in {"active", "cancelled"}
    BY ConstantsOK
  <1>4. cold'[o] # "new"
    BY <1>3 DEF Subscribe, TypeInv, TypeOK
  <1>5. [Next]_vars
    BY DEF Next
  <1> HIDE DEF f
  <1>6. FrameType(f, cold', joined') /\ f.op \notin Ends
    BY <1>1, <1>4 DEF FrameType, Entering, Ends
  <1>7. stack' \in Seq(Frame) /\ StackTyped'
    BY <1>1, <1>2, <1>5, <1>6, PushTyped
  <1>8. refCount' = Cardinality(hooked') /\ IsFiniteSet(hooked')
    BY FS_AddElement, FS_CardinalityType DEF Subscribe, TypeInv, TypeOK, Newcomers
  <1>9. refCount' \in Nat
    BY DEF Subscribe, TypeInv, TypeOK
  <1>10. QED
    BY <1>3, <1>7, <1>8, <1>9
    DEF Subscribe, TypeInv, TypeOK, Newcomers, LinkedJoined

LEMMA JoinType ==
  ASSUME TypeInv, NEW o \in Observers, Join(o)
  PROVE  TypeInv'
  <1> DEFINE f == Call("leaving", {o}, None, "run")
             g == Call("connecting", {o}, None, "run")
             h == [g EXCEPT !.at = "call"]
  <1>1. /\ f \in Frame /\ f.op = "leaving" /\ f.who = {o}
        /\ g \in Frame /\ g.op = "connecting" /\ g.who = {o}
        /\ h \in Frame /\ h.op = "connecting" /\ h.who = {o}
    BY DEF Call, Frame, Ops
  <1>2. stack # <<>> /\ Top.op = "joining" /\ o \in Top.who
    BY DEF Join, LibTurn
  <1>3. cold[o] # "new"
    BY <1>2, BelowTyped DEF FrameType, Entering
  <1>4. cold'[o] # "new" /\ joined'[o] \in Observers
    BY <1>3 DEF Join, TypeInv, TypeOK
  <1>5. /\ FrameType(f, cold', joined')
        /\ FrameType(g, cold', joined')
        /\ FrameType(h, cold', joined')
    BY <1>1, <1>4 DEF FrameType, Entering
  <1>6. f.op \notin Ends /\ g.op \notin Ends /\ h.op \notin Ends
    BY <1>1 DEF Ends
  <1>7. stack' = <<f, g>> \o Below \/ stack' = <<h>> \o Below
    BY DEF Join
  <1>8. [Next]_vars
    BY DEF Next
  <1> HIDE DEF f, g, h
  <1>9. stack' \in Seq(Frame) /\ StackTyped'
    BY <1>1, <1>2, <1>5, <1>6, <1>7, <1>8, BelowTyped, PushTyped, PushTwoTyped
  <1>10. TypeOK'
    BY <1>9 DEF Join, TypeInv, TypeOK
  <1>11. Newcomers' /\ LinkedJoined'
    BY <1>3, <1>4 DEF Join, TypeInv, TypeOK, Newcomers, LinkedJoined
  <1>12. QED
    BY <1>9, <1>10, <1>11 DEF Join, TypeInv

LEMMA ConnectorThrowsType ==
  ASSUME TypeInv, NEW o \in Observers, ConnectorThrows(o)
  PROVE  TypeInv'
  <1> DEFINE f == Call("leaving", {o}, None, "run")
  <1>1. f \in Frame /\ f.op = "leaving" /\ f.who = {o}
    BY DEF Call, Frame, Ops
  <1>2. stack # <<>> /\ Top.op = "joining" /\ o \in Top.who
    BY DEF ConnectorThrows, LibTurn
  <1>3. cold[o] # "new"
    BY <1>2, BelowTyped DEF FrameType, Entering
  <1>4. cold'[o] # "new"
    BY <1>3 DEF ConnectorThrows, TypeInv, TypeOK
  <1>5. FrameType(f, cold', joined') /\ f.op \notin Ends
    BY <1>1, <1>4 DEF FrameType, Entering, Ends
  <1>6. stack' = <<f>> \o Below \/ stack' = Below
    BY DEF ConnectorThrows
  <1>7. [Next]_vars
    BY DEF Next
  <1> HIDE DEF f
  <1>8. stack' \in Seq(Frame) /\ StackTyped'
    BY <1>1, <1>2, <1>5, <1>6, <1>7, BelowTyped, PushTyped, PopTyped
  <1>9. TypeOK' /\ Newcomers' /\ LinkedJoined'
    BY <1>3, <1>8 DEF ConnectorThrows, TypeInv, TypeOK, Newcomers, LinkedJoined
  <1>10. QED
    BY <1>8, <1>9 DEF ConnectorThrows, TypeInv

LEMMA ConnectType ==
  ASSUME TypeInv, NEW o \in Observers, Connect(o)
  PROVE  TypeInv'
  <1> DEFINE f == Call("connected", {o}, None, "call")
  <1>1. f \in Frame /\ f.op = "connected"
    BY DEF Call, Frame, Ops
  <1>2. stack # <<>> /\ Top.op = "connecting" /\ o \in Top.who
    BY DEF Connect, LibTurn
  <1>3. joined[o] \in Observers
    BY <1>2, BelowTyped DEF FrameType
  <1>4. FrameType(f, cold', joined') /\ f.op \notin Ends
    BY <1>1 DEF FrameType, Entering, Ends
  <1>5. stack' = <<f>> \o Below \/ stack' = Below
    BY DEF Connect
  <1>6. [Next]_vars
    BY DEF Next
  <1> HIDE DEF f
  <1>7. stack' \in Seq(Frame) /\ StackTyped'
    BY <1>1, <1>2, <1>4, <1>5, <1>6, BelowTyped, PushTyped, PopTyped
  <1>8. TypeOK' /\ Newcomers' /\ LinkedJoined'
    BY <1>3, <1>7 DEF Connect, TypeInv, TypeOK, Newcomers, LinkedJoined
  <1>9. QED
    BY <1>7, <1>8 DEF Connect, TypeInv

(* The departure of an observer. *)
LEMMA CallAbortType ==
  ASSUME TypeInv, NEW o \in Observers, CallAbort(o)
  PROVE  TypeInv'
  <1> DEFINE f == Call("leaving", {o}, None, "call")
  <1>1. f \in Frame /\ f.op = "leaving" /\ f.who = {o}
    BY DEF Call, Frame, Ops
  <1>2. stack' = <<f>> \o stack /\ stack \in Seq(Frame) /\ EndsAbove(stack)
    BY DEF CallAbort, TypeInv, TypeOK, StackTyped
  <1>3. cold[o] # "new" /\ cold'[o] # "new"
    BY DEF CallAbort, TypeInv, TypeOK
  <1>4. FrameType(f, cold', joined') /\ f.op \notin Ends
    BY <1>1, <1>3 DEF FrameType, Entering, Ends
  <1>5. [Next]_vars
    BY DEF Next
  <1> HIDE DEF f
  <1>6. stack' \in Seq(Frame) /\ StackTyped'
    BY <1>1, <1>2, <1>4, <1>5, PushTyped
  <1>7. TypeOK' /\ Newcomers' /\ LinkedJoined'
    BY <1>3, <1>6 DEF CallAbort, TypeInv, TypeOK, Newcomers, LinkedJoined
  <1>8. QED
    BY <1>6, <1>7 DEF CallAbort, TypeInv

LEMMA LeaveType ==
  ASSUME TypeInv, NEW o \in Observers, Leave(o)
  PROVE  TypeInv'
  <1> DEFINE f == Call("zero", {}, None, "run")
             g == Call("left", {o}, None, "call")
  <1>1. /\ f \in Frame /\ f.op = "zero"
        /\ g \in Frame /\ g.op = "left"
    BY DEF Call, Frame, Ops
  <1>2. stack # <<>>
    BY DEF Leave, LibTurn
  <1>3. /\ FrameType(f, cold', joined') /\ f.op \notin Ends
        /\ FrameType(g, cold', joined') /\ g.op \notin Ends
    BY <1>1 DEF FrameType, Entering, Ends
  <1>4. stack' = <<f, g>> \o Below \/ stack' = <<g>> \o Below
    BY DEF Leave
  <1>5. [Next]_vars
    BY DEF Next
  <1> HIDE DEF f, g
  <1>6. stack' \in Seq(Frame) /\ StackTyped'
    BY <1>1, <1>2, <1>3, <1>4, <1>5, BelowTyped, PushTyped, PushTwoTyped
  <1>7. /\ IsFiniteSet(hooked) /\ refCount = Cardinality(hooked)
        /\ refCount \in Nat
    BY DEF TypeInv, TypeOK
  <1>8. CASE o \in hooked
    <2>1. hooked' = hooked \ {o} /\ refCount' = refCount - 1
      BY <1>8 DEF Leave, Uncounted
    <2>2. /\ IsFiniteSet(hooked \ {o})
          /\ Cardinality(hooked \ {o}) = Cardinality(hooked) - 1
      BY <1>7, <1>8, FS_RemoveElement
    <2>3. /\ IsFiniteSet(hooked') /\ refCount' = Cardinality(hooked')
          /\ refCount' \in Nat
      BY <1>7, <2>1, <2>2, FS_CardinalityType
    <2>4. TypeOK' /\ Newcomers' /\ LinkedJoined'
      BY <1>6, <2>1, <2>3 DEF Leave, TypeInv, TypeOK, Newcomers, LinkedJoined
    <2>5. QED
      BY <1>6, <2>3, <2>4 DEF TypeInv
  <1>9. CASE o \notin hooked
    <2>1. hooked' = hooked /\ refCount' = refCount
      BY <1>9 DEF Leave
    <2>2. TypeOK' /\ Newcomers' /\ LinkedJoined'
      BY <1>6, <2>1 DEF Leave, TypeInv, TypeOK, Newcomers, LinkedJoined
    <2>3. QED
      BY <1>6, <2>1, <2>2 DEF TypeInv
  <1>10. QED
    BY <1>8, <1>9

(* The end of the source. *)
LEMMA SourceEndsType ==
  ASSUME TypeInv, NEW c \in Observers, NEW kind \in Ends, SourceEnds(c, kind)
  PROVE  TypeInv'
  <1> DEFINE f == Call(kind, {}, None, AfterCancel)
             g == Call("telling", {}, joined[c], "run")
  <1>1. joined[c] \in Observers
    BY DEF SourceEnds, TypeInv, LinkedJoined
  <1>2. /\ f \in Frame /\ f.op = kind /\ f.who = {}
        /\ g \in Frame /\ g.op = "telling" /\ g.of = joined[c]
    <2>1. kind \in Ops /\ "telling" \in Ops /\ AfterCancel \in {"run", "call"}
      BY DEF AfterCancel, InNotifier, Ops
    <2>2. QED
      BY <1>1, <2>1, CallType
  <1>3. /\ FrameType(f, cold', joined')
        /\ FrameType(g, cold', joined') /\ g.op \notin Ends
    BY <1>1, <1>2 DEF FrameType, Entering, Ends
  <1>4. stack' = <<f, g>> \o stack /\ stack \in Seq(Frame) /\ EndsAbove(stack)
    BY DEF SourceEnds, TypeInv, TypeOK, StackTyped
  <1>5. [Next]_vars
    BY DEF Next
  <1> HIDE DEF f, g
  <1>6. stack' \in Seq(Frame) /\ StackTyped'
    BY <1>2, <1>3, <1>4, <1>5, PushTwoTyped
  <1>7. TypeOK' /\ Newcomers' /\ LinkedJoined'
    BY <1>1, <1>6 DEF SourceEnds, TypeInv, TypeOK, Newcomers, LinkedJoined
  <1>8. QED
    BY <1>6, <1>7 DEF SourceEnds, TypeInv

LEMMA TellType ==
  ASSUME TypeInv, Tell
  PROVE  TypeInv'
  <1> DEFINE f == Call("ending", {o \in Observers : joined[o] = Top.of}, None, "run")
  <1>1. f \in Frame /\ f.op = "ending" /\ f.who = {o \in Observers : joined[o] = Top.of}
    BY DEF Call, Frame, Ops
  <1>2. stack # <<>> /\ Top.op = "telling"
    BY DEF Tell, LibTurn
  <1>3. Top.of \in Observers
    BY <1>2, BelowTyped DEF FrameType
  <1>4. \A o \in f.who : cold'[o] # "new"
    BY <1>1, <1>3, ConstantsOK DEF Tell, TypeInv, Newcomers
  <1>5. FrameType(f, cold', joined') /\ f.op \notin Ends
    BY <1>1, <1>4 DEF FrameType, Entering, Ends
  <1>6. stack' = <<f>> \o Below
    BY DEF Tell
  <1>7. [Next]_vars
    BY DEF Next
  <1> HIDE DEF f
  <1>8. stack' \in Seq(Frame) /\ StackTyped'
    BY <1>1, <1>2, <1>5, <1>6, <1>7, BelowTyped, PushTyped
  <1>9. TypeOK' /\ Newcomers' /\ LinkedJoined'
    BY <1>3, <1>8 DEF Tell, TypeInv, TypeOK, Newcomers, LinkedJoined
  <1>10. QED
    BY <1>8, <1>9 DEF Tell, TypeInv

LEMMA TellOneType ==
  ASSUME TypeInv, NEW o \in Observers, TellOne(o)
  PROVE  TypeInv'
  <1> DEFINE f == Call("leaving", {o}, None, "run")
             g == [Top EXCEPT !.who = @ \ {o}]
  <1>1. stack # <<>> /\ Top.op = "ending" /\ o \in Top.who
    BY DEF TellOne, LibTurn
  <1>2. /\ f \in Frame /\ f.op = "leaving" /\ f.who = {o}
        /\ Top \in Frame
        /\ \A p \in Top.who : cold[p] # "new"
    BY <1>1, BelowTyped, CallType DEF FrameType, Entering, Ops
  <1>3. g \in Frame /\ g.op = "ending" /\ g.who \subseteq Top.who
    BY <1>1, <1>2 DEF Frame
  <1>4. [Next]_vars
    BY DEF Next
  <1>5. cold'[o] # "new" /\ \A p \in g.who : cold'[p] # "new"
    BY <1>1, <1>2, <1>3, <1>4, NothingUndone DEF Frame
  <1>6. stack' = <<f, g>> \o Below \/ stack' = <<g>> \o Below
    BY DEF TellOne
  <1> HIDE DEF f, g
  <1>7. /\ FrameType(f, cold', joined')
        /\ FrameType(g, cold', joined') /\ g.op \notin Ends
    BY <1>2, <1>3, <1>5 DEF FrameType, Entering, Ends
  <1>8. stack' \in Seq(Frame) /\ StackTyped'
    BY <1>1, <1>2, <1>3, <1>4, <1>6, <1>7, BelowTyped, PushTyped, PushTwoTyped
  <1>9. TypeOK' /\ Newcomers' /\ LinkedJoined'
    BY <1>1, <1>2, <1>8 DEF TellOne, TypeInv, TypeOK, Newcomers, LinkedJoined
  <1>10. QED
    BY <1>8, <1>9 DEF TellOne, TypeInv

(* The resets. *)
LEMMA ResetType ==
  ASSUME TypeInv, ResetAtOnce \/ ResetNever \/ FactoryThrows \/ FactoryCalled
  PROVE  TypeInv'
  <1> DEFINE f == Call("clear", {}, Disconnects(Top.op), AfterCancel)
             g == Call("factory", {}, Top.op, InNotifier)
  <1>1. stack # <<>> /\ Top.op \in Ends \cup {"zero"}
    BY DEF ResetAtOnce, ResetNever, FactoryThrows, FactoryCalled, Ruling, LibTurn
  <1>2. /\ f \in Frame /\ f.op = "clear"
        /\ g \in Frame /\ g.op = "factory" /\ g.of \in Ends \cup {"zero"}
    BY <1>1, CallType DEF Disconnects, AfterCancel, InNotifier, Ops, TypeInv, TypeOK
  <1>3. \/ stack' = <<f>> \o Below
        \/ stack' = <<g>> \o Below
        \/ stack' = Below
        \/ Top.op \in Ends /\ stack' = Tail(Below)
    BY <1>1 DEF ResetAtOnce, ResetNever, FactoryThrows, FactoryCalled
  <1> HIDE DEF f, g
  <1>4. /\ FrameType(f, cold', joined') /\ f.op \notin Ends
        /\ FrameType(g, cold', joined') /\ g.op \notin Ends
    BY <1>2 DEF FrameType, Entering, Ends
  <1>5. [Next]_vars
    BY DEF Next
  <1>6. stack' \in Seq(Frame) /\ StackTyped'
    BY <1>1, <1>2, <1>3, <1>4, <1>5, BelowTyped, PushTyped, PopTyped
  <1>7. /\ UNCHANGED <<rule, subject, connection, refCount, ended, cold, hooked,
                       joined, link, over>>
        /\ resetting' \in {"none", "zero", "end"}
    BY DEF ResetAtOnce, ResetNever, FactoryThrows, FactoryCalled, TypeInv, TypeOK
  <1>8. QED
    BY <1>6, <1>7 DEF TypeInv, TypeOK, Newcomers, LinkedJoined

LEMMA NotifierType ==
  ASSUME TypeInv, NotifierSubscribed \/ NotifierEmits
  PROVE  TypeInv'
  <1> DEFINE f == Call("clear", {}, Disconnects(resetting), AfterCancel)
             g == Call("notifying", {}, None, InNotifier)
  <1>1. /\ f \in Frame /\ f.op = "clear"
        /\ g \in Frame /\ g.op = "notifying"
    BY CallType DEF Disconnects, AfterCancel, InNotifier, Ops, TypeInv, TypeOK
  <1>2. \/ stack' = <<f>> \o stack /\ stack \in Seq(Frame) /\ EndsAbove(stack)
        \/ stack' = <<g>> \o Below /\ stack # <<>>
    BY DEF NotifierSubscribed, NotifierEmits, LibTurn, TypeInv, TypeOK, StackTyped
  <1> HIDE DEF f, g
  <1>3. /\ FrameType(f, cold', joined') /\ f.op \notin Ends
        /\ FrameType(g, cold', joined') /\ g.op \notin Ends
    BY <1>1 DEF FrameType, Entering, Ends
  <1>4. [Next]_vars
    BY DEF Next
  <1>5. stack' \in Seq(Frame) /\ StackTyped'
    BY <1>1, <1>2, <1>3, <1>4, BelowTyped, PushTyped
  <1>6. /\ UNCHANGED <<rule, subject, connection, refCount, ended, cold, hooked,
                       joined, link, over>>
        /\ resetting' \in {"none", "zero", "end"}
    BY DEF NotifierSubscribed, NotifierEmits, TypeInv, TypeOK
  <1>7. QED
    BY <1>5, <1>6 DEF TypeInv, TypeOK, Newcomers, LinkedJoined

LEMMA ClearType ==
  ASSUME TypeInv, Clear
  PROVE  TypeInv'
  <1> DEFINE f == Call("cleared", {}, None, "call")
  <1>1. f \in Frame /\ f.op = "cleared"
    BY DEF Call, Frame, Ops
  <1>2. stack # <<>> /\ (stack' = <<f>> \o Below \/ stack' = Below)
    BY DEF Clear, LibTurn
  <1> HIDE DEF f
  <1>3. FrameType(f, cold', joined') /\ f.op \notin Ends
    BY <1>1 DEF FrameType, Entering, Ends
  <1>4. [Next]_vars
    BY DEF Next
  <1>5. stack' \in Seq(Frame) /\ StackTyped'
    BY <1>1, <1>2, <1>3, <1>4, BelowTyped, PushTyped, PopTyped
  <1>6. /\ link' \in [Observers -> {"none", "live", "ended", "aborted"}]
        /\ \A o \in Observers : link'[o] # "none" => link[o] # "none"
    BY DEF Clear, TypeInv, TypeOK
  <1>7. TypeOK' /\ Newcomers' /\ LinkedJoined'
    BY <1>5, <1>6 DEF Clear, Forget, TypeInv, TypeOK, Newcomers, LinkedJoined
  <1>8. QED
    BY <1>5, <1>7 DEF Clear, TypeInv

LEMMA ReturnType ==
  ASSUME TypeInv, CallbackEnds \/ Return
  PROVE  TypeInv'
  <1> DEFINE f == [Top EXCEPT !.at = "run"]
  <1>1. /\ stack # <<>>
        /\ stack' = <<f>> \o Below \/ stack' = Below
    BY DEF CallbackEnds, Return, LibTurn
  <1>2. /\ f \in Frame
        /\ f.op = Top.op /\ f.who = Top.who /\ f.of = Top.of
    BY <1>1, BelowTyped DEF Frame
  <1> HIDE DEF f
  <1>3. FrameType(f, cold', joined')
    BY <1>1, <1>2, BelowTyped DEF FrameType, CallbackEnds, Return
  <1>4. [Next]_vars
    BY DEF Next
  <1>5. /\ stack' \in Seq(Frame) /\ EndsAbove(stack')
        /\ \A g \in ToSet(stack') : g = f \/ g \in ToSet(Below)
    <2>1. /\ Below \in Seq(Frame) /\ EndsAbove(Below)
          /\ f.op \in Ends => Below # <<>>
      BY <1>1, <1>2, BelowTyped
    <2>2. CASE stack' = <<f>> \o Below
      BY <1>2, <2>1, <2>2, Pushed, PushEnds
    <2>3. CASE stack' = Below
      BY <2>1, <2>3
    <2>4. QED
      BY <1>1, <2>2, <2>3
  <1>7. StackTyped'
    BY <1>1, <1>3, <1>4, <1>5, BelowTyped, StaysTyped DEF StackTyped
  <1>8. UNCHANGED <<rule, subject, connection, resetting, refCount, ended, cold,
                    hooked, joined, link, over>>
    BY DEF CallbackEnds, Return
  <1>9. QED
    BY <1>5, <1>7, <1>8 DEF TypeInv, TypeOK, Newcomers, LinkedJoined

LEMMA TypeInit == Init => TypeInv
  <1> SUFFICES ASSUME Init PROVE TypeInv
    OBVIOUS
  <1>1. IsFiniteSet(hooked) /\ Cardinality(hooked) = 0
    BY FS_EmptySet DEF Init
  <1>2. stack \in Seq(Frame) /\ ToSet(stack) = {} /\ EndsAbove(stack)
    BY DEF Init, ToSet, EndsAbove
  <1>3. TypeOK
    BY <1>1, <1>2 DEF Init, TypeOK
  <1>4. Newcomers /\ LinkedJoined /\ StackTyped
    BY <1>2 DEF Init, Newcomers, LinkedJoined, StackTyped
  <1>5. QED
    BY <1>1, <1>3, <1>4 DEF TypeInv

LEMMA TypeNext == TypeInv /\ [Next]_vars => TypeInv'
  <1> SUFFICES ASSUME TypeInv, [Next]_vars PROVE TypeInv'
    OBVIOUS
  <1>1. CASE UNCHANGED vars
    BY <1>1 DEF vars, TypeInv, TypeOK, Newcomers, LinkedJoined, StackTyped
  <1>2. CASE Next
    BY <1>2, SubscribeType, JoinType, ConnectorThrowsType, ConnectType,
       CallAbortType, LeaveType, TellOneType, SourceEndsType, TellType, ResetType,
       NotifierType, ClearType, ReturnType DEF Next
  <1>3. QED
    BY <1>1, <1>2

(* The variables keep their types, and refCount is the number of observers  *)
(* whose teardown is to come, whatever the callbacks of observers, of the   *)
(* source and of notifiers call.                                            *)
THEOREM TypeCorrect == Spec => []TypeOK
  <1>1. TypeInv => TypeOK
    BY DEF TypeInv
  <1>2. QED
    BY <1>1, TypeInit, TypeNext, PTL DEF Spec

-----------------------------------------------------------------------------
(* Proofs about the connection that Share keeps to the source, where the    *)
(* code of the reset notifiers does not call the library back: that it is   *)
(* the only one, and that it lasts exactly as long as it is needed.  (Where *)
(* that code does, a second connection is possible: TLC finds it.)          *)

Gone == {"cancelled", "ended"}

(* The calls that are about to rule on a reset or to carry one out.         *)
AtOnce == Ends \cup {"zero", "factory", "clear"}

(* The calls that no user code interrupts before they are over.             *)
Immediate == AtOnce \cup {"telling", "notifying"}

Quiet(q) == \A f \in ToSet(q) : f.op \notin AtOnce

Calm(q) == Quiet(q) /\ Silent(q)

FrameInv(f, status, subjects, links) ==
  /\ f.op \in Immediate => f.at = "run"
  /\ f.op \in Entering \cup {"leaving"} => \A o, p \in f.who : o = p
  /\ f.op = "joining" => \A o \in f.who : subjects[o] = None
  /\ f.op \in Entering => \A o \in f.who : links[o] = "none"
  /\ f.op = "leaving" => \A o \in f.who : status[o] \in Gone

Frames == \A f \in ToSet(stack) : FrameInv(f, cold, joined, link)

ForEnd(f) == f.op \in Ends \/ (f.op = "factory" /\ f.of \in Ends)

ForZero(f) == f.op = "zero" \/ (f.op = "factory" /\ f.of = "zero")

(* What may stand between an end of the source and the Subject that is to   *)
(* be told of it.                                                           *)
Interrupts(f) ==
  \/ ForEnd(f)
  \/ f.op = "notifying" /\ resetting # "zero"
  \/ f.op = "clear" /\ f.of = None

(* The calls that lead to a reset are the innermost ones: a user call never *)
(* comes between the decision and the reset.                                *)
Shape ==
  stack # <<>> =>
    /\ Quiet(Below)
    /\ \/ Silent(stack)
       \/ Tells(stack)
       \/ Tells(Below) /\ Interrupts(Top)
       \/ /\ Top.op = "clear" /\ Top.of = None
          /\ Below # <<>> /\ Head(Below).op = "notifying" /\ Tells(Tail(Below))
    /\ ForEnd(Top) => Tells(Below) /\ Head(Below).of = subject

(* What decided on a reset still holds when it is carried out. *)
Ruled ==
  stack # <<>> =>
    /\ ForZero(Top) => ended = "no" /\ hooked = {}
    /\ Top.op \in Ends => ended = Top.op /\ resetting = "none"
    /\ Top.op = "factory" /\ Top.of \in Ends => ended = Top.of /\ rule[ended] = "notifier"
    /\ Top.op = "clear" =>
         /\ resetting = "none"
         /\ \/ Top.of = connection /\ ended = "no" /\ hooked = {}
            \/ Top.of = None /\ ended # "no" /\ rule[ended] # "false"

(* The connection that share() knows feeds the Subject that it knows, and   *)
(* has ended if the source has; what a pending reset waits for is still so. *)
Connected ==
  /\ \A c \in Observers : link[c] = "live" => connection = c
  /\ connection # None =>
       /\ subject \in Observers
       /\ joined[connection] = subject
       /\ link[connection] = IF ended = "no" THEN "live" ELSE "ended"
  /\ ended # "no" => connection # None
  /\ resetting = "zero" => ended = "no" /\ hooked = {}
  /\ resetting = "end" => ended # "no" /\ rule[ended] = "notifier"

Pending(s) == \E f \in ToSet(stack) : f.op = "telling" /\ f.of = s

(* A factory of a notifier threw. *)
Stuck ==
  /\ rule[ended] = "notifier"
  /\ resetting = "none"
  /\ stack # <<>> => Top.op \notin AtOnce

Untold == ended # "no" /\ subject \notin over => Pending(subject) \/ Stuck

Within(op, o) == \E f \in ToSet(stack) : f.op = op /\ o \in f.who

(* An active observer is counted, and is about to join a Subject, is about  *)
(* to be told of an end, or has joined one that is to tell it or is fed.    *)
Fed(o) ==
  /\ o \in hooked
  /\ \/ Within("joining", o)
     \/ Within("ending", o)
     \/ /\ joined[o] # None
        /\ joined[o] \notin over
        /\ \/ Pending(joined[o])
           \/ joined[o] = subject /\ (Within("connecting", o) \/ connection # None)

AllFed == \A o \in Observers : cold[o] = "active" => Fed(o)

ShareInv ==
  /\ TypeInv
  /\ Frames
  /\ NoClash(stack)
  /\ Shape
  /\ Ruled
  /\ Connected
  /\ Untold
  /\ AllFed

-----------------------------------------------------------------------------
(* What the steps have in common.                                           *)

LEMMA RunsOn ==
  ASSUME NotifierReenters = FALSE
  PROVE  AfterCancel = "run" /\ InNotifier = "run"
  BY DEF AfterCancel, InNotifier

LEMMA AtTop ==
  ASSUME ShareInv, stack # <<>>
  PROVE  /\ Top \in Frame
         /\ Below \in Seq(Frame)
         /\ ToSet(stack) = {Top} \cup ToSet(Below)
         /\ NoClash(Below)
         /\ \A g \in ToSet(Below) : ~Clash(Top, g)
         /\ FrameType(Top, cold, joined)
         /\ FrameInv(Top, cold, joined, link)
  BY OnTop DEF ShareInv, TypeInv, TypeOK, StackTyped, Frames

LEMMA CalmTurn ==
  ASSUME ShareInv, UserTurn \/ (stack # <<>> /\ Top.op \notin Immediate)
  PROVE  /\ stack \in Seq(Frame)
         /\ Calm(stack)
         /\ stack # <<>> => Calm(Below) /\ Top.op \notin Immediate
  <1>1. stack \in Seq(Frame)
    BY DEF ShareInv, TypeInv, TypeOK
  <1>2. CASE stack = <<>>
    <2>1. ToSet(stack) = {}
      BY <1>2 DEF ToSet
    <2>2. QED
      BY <1>1, <1>2, <2>1 DEF Calm, Quiet, Silent
  <1>3. CASE stack # <<>>
    <2>1. Top.op \notin Immediate
      BY <1>3, AtTop DEF UserTurn, FrameInv
    <2>2. Quiet(Below) /\ Silent(stack)
      BY <1>1, <1>3, <2>1, OnTop DEF ShareInv, Shape, Interrupts, ForEnd, Immediate, AtOnce
    <2>3. ToSet(stack) = {Top} \cup ToSet(Below) /\ (Silent(stack) <=> Top.op # "telling" /\ Silent(Below))
      BY <1>1, <1>3, OnTop
    <2>4. QED
      BY <1>1, <1>3, <2>1, <2>2, <2>3 DEF Calm, Quiet, Immediate
  <1>4. QED
    BY <1>2, <1>3

LEMMA CalmKept ==
  ASSUME stack' \in Seq(Frame), Calm(stack')
  PROVE  /\ Shape' /\ Ruled'
         /\ stack' # <<>> => Top'.op \notin AtOnce
  <1>1. CASE stack' = <<>>
    BY <1>1 DEF Shape, Ruled
  <1>2. CASE stack' # <<>>
    <2>1. ToSet(stack') = {Top'} \cup ToSet(Below')
      BY <1>2, Decomposed DEF Top, Below
    <2>2. Top'.op \notin AtOnce /\ Quiet(Below') /\ Silent(stack')
      BY <2>1 DEF Calm, Quiet
    <2>3. QED
      BY <2>2 DEF Shape, Ruled, ForEnd, ForZero, AtOnce
  <1>3. QED
    BY <1>1, <1>2

LEMMA GoneStays ==
  ASSUME TypeInv, [Next]_vars, NEW o \in Observers, cold[o] \in Gone
  PROVE  cold'[o] \in Gone
  <1> USE DEF TypeInv, TypeOK, Gone
  <1>1. CASE Next
    <2>1. ASSUME NEW p \in Observers,
                 \/ \E status \in SubscribedAs : Subscribe(p, status)
                 \/ CallAbort(p) \/ TellOne(p) \/ Leave(p)
                 \/ \E kind \in Ends : SourceEnds(p, kind)
          PROVE  cold'[o] \in Gone
      BY <2>1, ConstantsOK DEF Subscribe, CallAbort, TellOne, Leave, SourceEnds
    <2>2. ASSUME NEW p \in Observers, Join(p) \/ ConnectorThrows(p) \/ Connect(p)
          PROVE  cold'[o] \in Gone
      BY <2>2 DEF Join, ConnectorThrows, Connect
    <2>3. CASE \/ Tell \/ ResetAtOnce \/ ResetNever \/ FactoryThrows \/ FactoryCalled
               \/ NotifierSubscribed \/ NotifierEmits \/ Clear \/ CallbackEnds \/ Return
      BY <2>3 DEF Tell, ResetAtOnce, ResetNever, FactoryThrows, FactoryCalled,
           NotifierSubscribed, NotifierEmits, Clear, CallbackEnds, Return
    <2>4. QED
      BY <1>1, <2>1, <2>2, <2>3 DEF Next
  <1>2. CASE UNCHANGED vars
    BY <1>2 DEF vars
  <1>3. QED
    BY <1>1, <1>2

(* A call keeps what it knows of the observers that a step leaves alone. *)
LEMMA FrameKept ==
  ASSUME ShareInv, [Next]_vars, NEW f \in ToSet(stack),
         f.op \in Entering =>
           \A o \in f.who : joined'[o] = joined[o] /\ (link[o] = "none" => link'[o] = "none")
  PROVE  FrameInv(f, cold', joined', link')
  <1>1. f \in Frame /\ FrameInv(f, cold, joined, link)
    BY DEF ShareInv, TypeInv, TypeOK, ToSet, Frames
  <1>2. f.who \subseteq Observers
    BY <1>1 DEF Frame
  <1>3. \A o \in f.who : cold[o] \in Gone => cold'[o] \in Gone
    BY <1>2, GoneStays DEF ShareInv
  <1>4. QED
    BY <1>1, <1>3 DEF FrameInv, Entering

LEMMA FramesKept ==
  ASSUME ShareInv, [Next]_vars, joined' = joined,
         \A o \in Observers : link[o] = "none" => link'[o] = "none",
         \A f \in ToSet(stack') : f \in ToSet(stack) \/ FrameInv(f, cold', joined', link')
  PROVE  Frames'
  <1>1. ASSUME NEW f \in ToSet(stack) PROVE FrameInv(f, cold', joined', link')
    <2>1. f.who \subseteq Observers
      BY StaysTyped DEF ShareInv, Frame
    <2>2. QED
      BY <2>1, FrameKept
  <1>2. QED
    BY <1>1 DEF Frames

LEMMA UntoldKept ==
  ASSUME ShareInv, rule' = rule, ended' = ended, over \subseteq over',
         ended # "no" => UNCHANGED <<subject, resetting>>,
         \A f \in ToSet(stack) :
           f.op = "telling" => f \in ToSet(stack') \/ f.of \in over',
         stack' # <<>> => Top'.op \notin AtOnce
  PROVE  Untold'
  <1>1. SUFFICES ASSUME ended # "no", subject \notin over'
                 PROVE  Pending(subject)' \/ Stuck'
    BY DEF Untold
  <1>2. subject' = subject /\ resetting' = resetting
    BY <1>1
  <1>3. CASE Pending(subject)
    BY <1>1, <1>2, <1>3 DEF Pending
  <1>4. CASE Stuck
    BY <1>2, <1>4 DEF Stuck
  <1>5. QED
    BY <1>1, <1>3, <1>4 DEF ShareInv, Untold

LEMMA FedKept ==
  ASSUME ShareInv, NEW o \in Observers, cold[o] = "active", o \in hooked',
         joined'[o] = joined[o], over' = over,
         subject # None => subject' = subject,
         connection # None => connection' # None,
         \A f \in ToSet(stack) :
           /\ f.op \in Entering \cup {"ending"} /\ o \in f.who =>
                \E g \in ToSet(stack') : g.op = f.op /\ o \in g.who
           /\ f.op = "telling" => f \in ToSet(stack')
  PROVE  Fed(o)'
  <1>1. Fed(o)
    BY DEF ShareInv, AllFed
  <1>2. CASE Within("joining", o) \/ Within("ending", o)
    BY <1>2 DEF Fed, Within, Entering
  <1>3. CASE /\ joined[o] # None /\ joined[o] \notin over
             /\ Pending(joined[o])
    BY <1>3 DEF Fed, Pending
  <1>4. CASE /\ joined[o] # None /\ joined[o] \notin over /\ joined[o] = subject
             /\ Within("connecting", o) \/ connection # None
    BY <1>4 DEF Fed, Within, Entering
  <1>5. QED
    BY <1>1, <1>2, <1>3, <1>4 DEF Fed

-----------------------------------------------------------------------------
(* Subscribing.                                                             *)

LEMMA SubscribeKeeps ==
  ASSUME NotifierReenters = FALSE, ShareInv,
         NEW o \in Observers, NEW status \in SubscribedAs, Subscribe(o, status)
  PROVE  ShareInv'
  <1> DEFINE f == Call("joining", {o}, None, "run")
  <1>1. f \in Frame /\ f.op = "joining" /\ f.who = {o} /\ f.at = "run"
    BY DEF Call, Frame, Ops
  <1>2. stack' = <<f>> \o stack
    BY RunsOn DEF Subscribe
  <1> HIDE DEF f
  <1>3. stack \in Seq(Frame) /\ Calm(stack)
    BY CalmTurn DEF Subscribe
  <1>4. /\ stack' \in Seq(Frame)
        /\ ToSet(stack') = {f} \cup ToSet(stack)
        /\ NoClash(stack') <=> NoClash(stack) /\ \A g \in ToSet(stack) : ~Clash(f, g)
        /\ Silent(stack') <=> f.op # "telling" /\ Silent(stack)
    BY <1>1, <1>2, <1>3, Pushed
  <1>5. Calm(stack')
    BY <1>1, <1>3, <1>4 DEF Calm, Quiet, AtOnce, Ends
  <1>6. cold[o] = "new" /\ joined[o] = None /\ link[o] = "none"
    BY ConstantsOK DEF Subscribe, ShareInv, TypeInv, TypeOK, Newcomers, LinkedJoined
  <1>7. FrameInv(f, cold', joined', link')
    BY <1>1, <1>6 DEF FrameInv, Immediate, AtOnce, Ends, Entering, Subscribe
  <1>8. [Next]_vars
    BY DEF Next
  <1>9. Frames'
    BY <1>4, <1>7, <1>8, FramesKept DEF Subscribe
  <1>10. NoClash(stack')
    <2>1. ASSUME NEW g \in ToSet(stack) PROVE ~Clash(f, g)
      BY <1>1, <1>6 DEF ShareInv, TypeInv, StackTyped, FrameType, Clash
    <2>2. QED
      BY <1>4, <2>1 DEF ShareInv
  <1>11. Shape' /\ Ruled' /\ (stack' # <<>> => Top'.op \notin AtOnce)
    BY <1>4, <1>5, CalmKept
  <1>12. Connected'
    BY DEF Subscribe, ShareInv, Connected
  <1>13. Untold'
    BY <1>4, <1>11, UntoldKept DEF Subscribe
  <1>14. ASSUME NEW p \in Observers, cold'[p] = "active" PROVE Fed(p)'
    <2>1. CASE p = o
      BY <1>1, <1>4, <2>1 DEF Subscribe, Fed, Within
    <2>2. CASE p # o
      <3>1. cold[p] = "active" /\ p \in hooked
        BY <1>14, <2>2 DEF Subscribe, ShareInv, TypeInv, TypeOK, AllFed, Fed
      <3>2. QED
        BY <1>4, <3>1, FedKept DEF Subscribe
    <2>3. QED
      BY <2>1, <2>2
  <1>15. TypeInv'
    BY SubscribeType DEF ShareInv
  <1>16. QED
    BY <1>9, <1>10, <1>11, <1>12, <1>13, <1>14, <1>15 DEF ShareInv, AllFed

(* With an active observer at the head of a subscription, nothing pends     *)
(* that could end it: it is to be fed by the current Subject.               *)
LEMMA Connecting ==
  ASSUME ShareInv, stack # <<>>, Top.op = "connecting",
         NEW o \in Top.who, cold[o] = "active"
  PROVE  /\ o \in hooked
         /\ joined[o] \in Observers
         /\ joined[o] = subject
         /\ joined[o] \notin over
  <1>1. Calm(stack)
    BY CalmTurn DEF Immediate, AtOnce, Ends
  <1>2. /\ ToSet(stack) = {Top} \cup ToSet(Below) /\ Top \in Frame
        /\ \A g \in ToSet(Below) : ~Clash(Top, g)
        /\ FrameType(Top, cold, joined)
    BY AtTop
  <1>3. ~Within("joining", o) /\ ~Within("ending", o)
    BY <1>2 DEF Within, Clash, Entering
  <1>4. o \in Observers /\ joined[o] \in Observers
    BY <1>2 DEF Frame, FrameType
  <1>5. ~Pending(joined[o])
    BY <1>1 DEF Pending, Calm, Silent
  <1>6. Fed(o)
    BY <1>4 DEF ShareInv, AllFed
  <1>7. QED
    BY <1>3, <1>4, <1>5, <1>6 DEF Fed

LEMMA JoinKeeps ==
  ASSUME ShareInv, NEW o \in Observers, Join(o)
  PROVE  ShareInv'
  <1> DEFINE f == Call("leaving", {o}, None, "run")
             g == Call("connecting", {o}, None, "run")
             h == [g EXCEPT !.at = "call"]
             s == IF subject = None THEN o ELSE subject
  <1>1. /\ f \in Frame /\ f.op = "leaving" /\ f.who = {o}
        /\ g \in Frame /\ g.op = "connecting" /\ g.who = {o}
        /\ h \in Frame /\ h.op = "connecting" /\ h.who = {o}
    BY DEF Call, Frame, Ops
  <1>2. stack # <<>> /\ Top.op = "joining" /\ o \in Top.who
    BY DEF Join, LibTurn
  <1>3. /\ s \in Observers
        /\ subject' = s /\ joined' = [joined EXCEPT ![o] = s]
    BY DEF Join, ShareInv, TypeInv, TypeOK
  <1>4. \/ /\ stack' = <<f, g>> \o Below
           /\ cold' = [cold EXCEPT ![o] = "ended"]
        \/ /\ stack' = <<h>> \o Below /\ cold' = cold
           /\ cold[o] = "active" => s \notin over
    BY DEF Join
  <1> HIDE DEF f, g, h, s
  <1>5. /\ Below \in Seq(Frame) /\ Calm(Below) /\ NoClash(Below)
        /\ ToSet(stack) = {Top} \cup ToSet(Below)
        /\ \A k \in ToSet(Below) : ~Clash(Top, k)
        /\ joined[o] = None /\ link[o] = "none"
        /\ \A p \in Top.who : p = o
    BY <1>2, AtTop, CalmTurn DEF Immediate, AtOnce, Ends, FrameInv, Entering
  <1>6. /\ stack' \in Seq(Frame)
        /\ \A k \in ToSet(stack') :
             k \in ToSet(Below) \/ k = h \/ (k \in {f, g} /\ cold'[o] = "ended")
        /\ ToSet(Below) \subseteq ToSet(stack')
        /\ h \in ToSet(stack') \/ (g \in ToSet(stack') /\ cold'[o] = "ended")
        /\ Silent(stack')
        /\ NoClash(stack')
    <2>1. \A k \in ToSet(Below) : ~Clash(f, k) /\ ~Clash(g, k) /\ ~Clash(h, k)
      BY <1>1, <1>2, <1>5 DEF Clash, Entering
    <2>2. ~Clash(f, g)
      BY <1>1 DEF Clash, Entering
    <2>3. CASE stack' = <<f, g>> \o Below /\ cold' = [cold EXCEPT ![o] = "ended"]
      <3>1. cold'[o] = "ended"
        BY <2>3 DEF ShareInv, TypeInv, TypeOK
      <3>2. QED
        BY <1>1, <1>5, <2>1, <2>2, <2>3, <3>1, PushedTwo DEF Calm
    <2>4. CASE stack' = <<h>> \o Below
      BY <1>1, <1>5, <2>1, <2>4, Pushed DEF Calm
    <2>5. QED
      BY <1>4, <2>3, <2>4
  <1>7. Calm(stack')
    BY <1>1, <1>5, <1>6 DEF Calm, Quiet, AtOnce, Ends
  <1>8. [Next]_vars
    BY DEF Next
  <1>9. Frames'
    <2>1. ASSUME NEW k \in ToSet(Below) PROVE FrameInv(k, cold', joined', link')
      <3>1. k.op \in Entering => o \notin k.who
        BY <1>2, <1>5 DEF Clash, Entering
      <3>2. k \in ToSet(stack) /\ k.who \subseteq Observers
        BY <1>5, <1>8, StaysTyped DEF ShareInv, Frame
      <3>3. \A p \in k.who : k.op \in Entering => joined'[p] = joined[p]
        BY <1>3, <3>1, <3>2 DEF ShareInv, TypeInv, TypeOK
      <3>4. QED
        BY <1>8, <3>2, <3>3, FrameKept DEF Join
    <2>2. /\ FrameInv(h, cold', joined', link')
          /\ FrameInv(g, cold', joined', link')
          /\ cold'[o] = "ended" => FrameInv(f, cold', joined', link')
      BY <1>1, <1>5 DEF FrameInv, Immediate, AtOnce, Ends, Entering, Gone, Join
    <2>3. QED
      BY <1>6, <2>1, <2>2 DEF Frames
  <1>10. Shape' /\ Ruled' /\ (stack' # <<>> => Top'.op \notin AtOnce)
    BY <1>6, <1>7, CalmKept
  <1>11. subject # None => subject' = subject
    BY <1>3 DEF s
  <1>12. Connected'
    <2>1. connection # None => subject # None /\ connection # o /\ connection \in Observers
      BY <1>5, ConstantsOK DEF ShareInv, Connected, TypeInv, TypeOK
    <2>2. connection # None => joined'[connection] = joined[connection]
      BY <1>3, <2>1 DEF ShareInv, TypeInv, TypeOK
    <2>3. QED
      BY <1>11, <2>1, <2>2 DEF ShareInv, Connected, Join
  <1>13. Untold'
    <2>1. ended # "no" => subject' = subject
      BY <1>11, ConstantsOK DEF ShareInv, Connected
    <2>2. QED
      BY <1>2, <1>5, <1>6, <1>10, <2>1, UntoldKept DEF Join
  <1>14. ASSUME NEW p \in Observers, cold'[p] = "active" PROVE Fed(p)'
    <2>1. CASE p = o
      <3>1. cold[o] = "active" /\ h \in ToSet(stack') /\ s \notin over
        BY <1>4, <1>6, <1>14, <2>1 DEF ShareInv, TypeInv, TypeOK
      <3>2. o \in hooked /\ joined'[o] = s
        BY <1>3, <3>1 DEF ShareInv, AllFed, Fed, TypeInv, TypeOK
      <3>3. Within("connecting", o)'
        BY <1>1, <3>1 DEF Within
      <3>4. QED
        BY <1>3, <2>1, <3>1, <3>2, <3>3, ConstantsOK DEF Join, Fed
    <2>2. CASE p # o
      <3>1. cold[p] = "active" /\ p \in hooked /\ joined'[p] = joined[p]
        BY <1>3, <1>4, <1>14, <2>2 DEF ShareInv, TypeInv, TypeOK, AllFed, Fed
      <3>2. \A k \in ToSet(Below) : k \in ToSet(stack')
        BY <1>6
      <3>3. p \notin Top.who
        BY <1>5, <2>2
      <3>4. \A k \in ToSet(stack) : k.op = "telling" \/ p \in k.who => k \in ToSet(stack')
        BY <1>2, <1>5, <3>2, <3>3
      <3>5. cold[p] = "active" /\ p \in hooked' /\ over' = over /\ connection' = connection
        BY <3>1 DEF Join
      <3>6. QED
        BY <1>11, <3>1, <3>4, <3>5, FedKept
    <2>3. QED
      BY <2>1, <2>2
  <1>15. TypeInv'
    BY JoinType DEF ShareInv
  <1>16. QED
    BY <1>6, <1>9, <1>10, <1>12, <1>13, <1>14, <1>15 DEF ShareInv, AllFed

-----------------------------------------------------------------------------
(* The steps that leave a Subject and the connection as they are, of a      *)
(* library that is not in the middle of an end or a reset.                  *)
LEMMA CalmStep ==
  ASSUME ShareInv, TypeInv', [Next]_vars,
         UNCHANGED <<rule, connection, resetting, ended, joined, link, over>>,
         subject # None => subject' = subject,
         hooked' \subseteq hooked,
         Silent(stack), Calm(stack'), NoClash(stack'),
         \A f \in ToSet(stack') : f \in ToSet(stack) \/ FrameInv(f, cold', joined', link'),
         \A o \in Observers : cold'[o] = "active" =>
           /\ cold[o] = "active"
           /\ o \in hooked'
           /\ \A f \in ToSet(stack) :
                f.op \in Entering \cup {"ending"} /\ o \in f.who =>
                  \E g \in ToSet(stack') : g.op = f.op /\ o \in g.who
  PROVE  ShareInv'
  <1>1. Frames'
    BY FramesKept
  <1>2. stack' \in Seq(Frame)
    BY DEF TypeInv, TypeOK
  <1>3. Shape' /\ Ruled' /\ (stack' # <<>> => Top'.op \notin AtOnce)
    BY <1>2, CalmKept
  <1>4. Connected'
    <2>1. connection # None => subject' = subject
      BY ConstantsOK DEF ShareInv, Connected
    <2>2. hooked = {} => hooked' = {}
      OBVIOUS
    <2>3. QED
      BY <2>1, <2>2 DEF ShareInv, Connected
  <1>5. Untold'
    <2>1. ended # "no" => subject' = subject
      BY ConstantsOK DEF ShareInv, Connected
    <2>2. QED
      BY <1>3, <2>1, UntoldKept DEF Silent
  <1>6. AllFed'
    <2>1. ASSUME NEW o \in Observers, cold'[o] = "active" PROVE Fed(o)'
      BY <2>1, FedKept DEF Silent
    <2>2. QED
      BY <2>1 DEF AllFed
  <1>7. QED
    BY <1>1, <1>3, <1>4, <1>5, <1>6 DEF ShareInv

LEMMA ConnectorThrowsKeeps ==
  ASSUME ShareInv, NEW o \in Observers, ConnectorThrows(o)
  PROVE  ShareInv'
  <1> DEFINE f == Call("leaving", {o}, None, "run")
  <1>1. f \in Frame /\ f.op = "leaving" /\ f.who = {o}
    BY DEF Call, Frame, Ops
  <1>2. stack # <<>> /\ Top.op = "joining" /\ o \in Top.who
    BY DEF ConnectorThrows, LibTurn
  <1>3. \/ stack' = <<f>> \o Below /\ cold' = [cold EXCEPT ![o] = "ended"]
        \/ stack' = Below /\ cold' = cold /\ cold[o] # "active"
    BY DEF ConnectorThrows
  <1> HIDE DEF f
  <1>4. /\ Below \in Seq(Frame) /\ Calm(Below) /\ NoClash(Below) /\ Calm(stack)
        /\ ToSet(stack) = {Top} \cup ToSet(Below)
        /\ \A p \in Top.who : p = o
    BY <1>2, AtTop, CalmTurn DEF Immediate, AtOnce, Ends, FrameInv, Entering
  <1>5. ASSUME NEW p \in Observers, cold'[p] = "active"
        PROVE  cold[p] = "active" /\ p # o
    BY <1>3, <1>5 DEF ShareInv, TypeInv, TypeOK
  <1>6. \A g \in ToSet(Below) : ~Clash(f, g)
    BY <1>1 DEF Clash, Entering
  <1>7. /\ ToSet(Below) \subseteq ToSet(stack')
        /\ \A g \in ToSet(stack') : g \in ToSet(Below) \/ (g = f /\ cold'[o] = "ended")
        /\ Silent(stack') /\ NoClash(stack')
    <2>1. CASE stack' = <<f>> \o Below /\ cold' = [cold EXCEPT ![o] = "ended"]
      <3>1. cold'[o] = "ended"
        BY <2>1 DEF ShareInv, TypeInv, TypeOK
      <3>2. QED
        BY <1>1, <1>4, <1>6, <2>1, <3>1, Pushed DEF Calm
    <2>2. CASE stack' = Below
      BY <1>4, <2>2 DEF Calm
    <2>3. QED
      BY <1>3, <2>1, <2>2
  <1>8. Calm(stack')
    BY <1>1, <1>4, <1>7 DEF Calm, Quiet, AtOnce, Ends
  <1>9. cold'[o] = "ended" => FrameInv(f, cold', joined', link')
    BY <1>1 DEF FrameInv, Immediate, AtOnce, Ends, Entering, Gone
  <1>10. [Next]_vars
    BY DEF Next
  <1>11. TypeInv'
    BY ConnectorThrowsType DEF ShareInv
  <1>12. ASSUME NEW p \in Observers, cold'[p] = "active"
         PROVE  /\ cold[p] = "active" /\ p \in hooked'
                /\ \A g \in ToSet(stack) : g.op \in Entering \cup {"ending"} /\ p \in g.who =>
                     \E h \in ToSet(stack') : h.op = g.op /\ p \in h.who
    <2>1. cold[p] = "active" /\ p # o
      BY <1>5, <1>12
    <2>2. p \in hooked'
      BY <2>1 DEF ConnectorThrows, ShareInv, AllFed, Fed
    <2>3. QED
      BY <1>4, <1>7, <2>1, <2>2
  <1>13. /\ UNCHANGED <<rule, connection, resetting, ended, joined, link, over>>
         /\ subject # None => subject' = subject
         /\ hooked' = hooked
    BY DEF ConnectorThrows
  <1>14. \A g \in ToSet(stack') : g \in ToSet(stack) \/ FrameInv(g, cold', joined', link')
    BY <1>4, <1>7, <1>9
  <1>15. Silent(stack) /\ NoClash(stack') /\ hooked' \subseteq hooked
    BY <1>4, <1>7, <1>13 DEF Calm
  <1>16. QED
    BY <1>8, <1>10, <1>11, <1>12, <1>13, <1>14, <1>15, CalmStep

LEMMA ConnectKeeps ==
  ASSUME ShareInv, NEW o \in Observers, Connect(o)
  PROVE  ShareInv'
  <1> DEFINE f == Call("connected", {o}, None, "call")
  <1>1. f \in Frame /\ f.op = "connected"
    BY DEF Call, Frame, Ops
  <1>2. stack # <<>> /\ Top.op = "connecting" /\ o \in Top.who
    BY DEF Connect, LibTurn
  <1>3. \/ stack' = <<f>> \o Below /\ Connects(o)
           /\ connection' = o /\ link' = [link EXCEPT ![o] = "live"]
        \/ stack' = Below /\ ~Connects(o) /\ UNCHANGED <<connection, link>>
    BY DEF Connect
  <1> HIDE DEF f
  <1>4. /\ Below \in Seq(Frame) /\ Calm(Below) /\ NoClash(Below) /\ Calm(stack)
        /\ ToSet(stack) = {Top} \cup ToSet(Below)
        /\ \A g \in ToSet(Below) : ~Clash(Top, g)
        /\ \A p \in Top.who : p = o
        /\ link[o] = "none"
    BY <1>2, AtTop, CalmTurn DEF Immediate, AtOnce, Ends, FrameInv, Entering
  <1>5. cold[o] = "active" => /\ o \in hooked /\ joined[o] \in Observers
                             /\ joined[o] = subject /\ joined[o] \notin over
    BY <1>2, Connecting
  <1>6. \A g \in ToSet(Below) : ~Clash(f, g)
    BY <1>1 DEF Clash, Entering
  <1>7. /\ stack' \in Seq(Frame)
        /\ ToSet(Below) \subseteq ToSet(stack')
        /\ \A g \in ToSet(stack') : g \in ToSet(Below) \/ g = f
        /\ Silent(stack') /\ NoClash(stack')
    <2>1. CASE stack' = <<f>> \o Below
      BY <1>1, <1>4, <1>6, <2>1, Pushed DEF Calm
    <2>2. CASE stack' = Below
      BY <1>4, <2>2 DEF Calm
    <2>3. QED
      BY <1>3, <2>1, <2>2
  <1>8. Calm(stack')
    BY <1>1, <1>4, <1>7 DEF Calm, Quiet, AtOnce, Ends
  <1>9. [Next]_vars
    BY DEF Next
  <1>10. Frames'
    <2>1. ASSUME NEW g \in ToSet(Below) PROVE FrameInv(g, cold', joined', link')
      <3>1. g.op \in Entering => o \notin g.who
        BY <1>2, <1>4 DEF Clash, Entering
      <3>2. g \in ToSet(stack) /\ g.who \subseteq Observers
        BY <1>4, <1>9, StaysTyped DEF ShareInv, Frame
      <3>3. \A p \in g.who : g.op \in Entering => link'[p] = link[p]
        BY <1>3, <3>1, <3>2 DEF ShareInv, TypeInv, TypeOK
      <3>4. QED
        BY <1>9, <3>2, <3>3, FrameKept DEF Connect
    <2>2. FrameInv(f, cold', joined', link')
      BY <1>1 DEF FrameInv, Immediate, AtOnce, Ends, Entering
    <2>3. QED
      BY <1>7, <2>1, <2>2 DEF Frames
  <1>11. Shape' /\ Ruled' /\ (stack' # <<>> => Top'.op \notin AtOnce)
    BY <1>7, <1>8, CalmKept
  <1>12. Connected'
    <2>1. CASE Connects(o)
      <3>1. connection = None /\ connection' = o /\ cold[o] = "active"
        BY <1>3, <2>1 DEF Connects
      <3>2. \A c \in Observers : link'[c] = IF c = o THEN "live" ELSE link[c]
        BY <1>3, <2>1 DEF ShareInv, TypeInv, TypeOK
      <3>3. ended = "no" /\ \A c \in Observers : link[c] # "live"
        BY <3>1, ConstantsOK DEF ShareInv, Connected
      <3>4. subject \in Observers /\ joined[o] = subject
        BY <1>5, <3>1
      <3>5. QED
        BY <3>1, <3>2, <3>3, <3>4, ConstantsOK DEF ShareInv, Connected, Connect
    <2>2. CASE ~Connects(o)
      BY <1>3, <2>2 DEF ShareInv, Connected, Connect
    <2>3. QED
      BY <2>1, <2>2
  <1>13. Untold'
    BY <1>4, <1>11, UntoldKept DEF Connect, Calm, Silent
  <1>14. ASSUME NEW p \in Observers, cold'[p] = "active" PROVE Fed(p)'
    <2>1. cold[p] = "active" /\ p \in hooked
      BY <1>14 DEF Connect, ShareInv, AllFed, Fed
    <2>2. CASE p = o
      <3>1. connection' # None
        <4>1. refCount # 0
          BY <2>1, FS_EmptySet DEF ShareInv, TypeInv, TypeOK
        <4>2. QED
          BY <1>3, <2>1, <2>2, <4>1, ConstantsOK DEF Connects
      <3>2. QED
        BY <1>5, <2>1, <2>2, <3>1, ConstantsOK DEF Connect, Fed
    <2>3. CASE p # o
      <3>1. p \notin Top.who
        BY <1>4, <2>3
      <3>2. \A g \in ToSet(stack) : g.op = "telling" \/ p \in g.who => g \in ToSet(stack')
        BY <1>2, <1>4, <1>7, <3>1
      <3>3. connection # None => connection' # None
        BY <1>3, ConstantsOK
      <3>4. p \in hooked' /\ UNCHANGED <<subject, joined, over>>
        BY <2>1 DEF Connect
      <3>5. QED
        BY <2>1, <3>2, <3>3, <3>4, FedKept
    <2>4. QED
      BY <2>2, <2>3
  <1>15. TypeInv'
    BY ConnectType DEF ShareInv
  <1>16. QED
    BY <1>7, <1>10, <1>11, <1>12, <1>13, <1>14, <1>15 DEF ShareInv, AllFed

-----------------------------------------------------------------------------
(* Leaving.                                                                 *)

LEMMA CallAbortKeeps ==
  ASSUME ShareInv, NEW o \in Observers, CallAbort(o)
  PROVE  ShareInv'
  <1> DEFINE f == Call("leaving", {o}, None, "call")
  <1>1. f \in Frame /\ f.op = "leaving" /\ f.who = {o}
    BY DEF Call, Frame, Ops
  <1>2. stack' = <<f>> \o stack
    BY DEF CallAbort
  <1> HIDE DEF f
  <1>3. stack \in Seq(Frame) /\ Calm(stack)
    BY CalmTurn DEF CallAbort
  <1>4. \A p \in Observers : cold'[p] = IF p = o THEN "cancelled" ELSE cold[p]
    BY DEF CallAbort, ShareInv, TypeInv, TypeOK
  <1>5. \A g \in ToSet(stack) : ~Clash(f, g)
    BY <1>1 DEF Clash, Entering
  <1>6. ToSet(stack') = {f} \cup ToSet(stack) /\ Silent(stack') /\ NoClash(stack')
    BY <1>1, <1>2, <1>3, <1>5, Pushed DEF Calm, ShareInv
  <1>7. Calm(stack')
    BY <1>1, <1>3, <1>6 DEF Calm, Quiet, AtOnce, Ends
  <1>8. FrameInv(f, cold', joined', link')
    BY <1>1, <1>4 DEF FrameInv, Immediate, AtOnce, Ends, Entering, Gone
  <1>9. [Next]_vars
    BY DEF Next
  <1>10. TypeInv'
    BY CallAbortType DEF ShareInv
  <1>11. ASSUME NEW p \in Observers, cold'[p] = "active"
         PROVE  /\ cold[p] = "active" /\ p \in hooked'
                /\ \A g \in ToSet(stack) : g.op \in Entering \cup {"ending"} /\ p \in g.who =>
                     \E h \in ToSet(stack') : h.op = g.op /\ p \in h.who
    <2>1. cold[p] = "active"
      BY <1>4, <1>11
    <2>2. p \in hooked'
      BY <2>1 DEF CallAbort, ShareInv, AllFed, Fed
    <2>3. QED
      BY <1>6, <2>1, <2>2
  <1>12. /\ UNCHANGED <<rule, subject, connection, resetting, ended, joined, link, over>>
         /\ hooked' \subseteq hooked
    BY DEF CallAbort
  <1>13. \A g \in ToSet(stack') : g \in ToSet(stack) \/ FrameInv(g, cold', joined', link')
    BY <1>6, <1>8
  <1>14. Silent(stack)
    BY <1>3 DEF Calm
  <1>15. QED
    BY <1>6, <1>7, <1>9, <1>10, <1>11, <1>12, <1>13, <1>14, CalmStep

LEMMA LeaveKeeps ==
  ASSUME ShareInv, NEW o \in Observers, Leave(o)
  PROVE  ShareInv'
  <1> DEFINE f == Call("zero", {}, None, "run")
             g == Call("left", {o}, None, "call")
  <1>1. /\ f \in Frame /\ f.op = "zero" /\ f.at = "run"
        /\ g \in Frame /\ g.op = "left"
    BY DEF Call, Frame, Ops
  <1>2. stack # <<>> /\ Top.op = "leaving" /\ o \in Top.who
    BY DEF Leave, LibTurn
  <1>3. \/ stack' = <<f, g>> \o Below /\ o \in hooked /\ LastLeaves
        \/ stack' = <<g>> \o Below
    BY DEF Leave
  <1> HIDE DEF f, g
  <1>4. /\ Below \in Seq(Frame) /\ Calm(Below) /\ NoClash(Below) /\ Calm(stack)
        /\ ToSet(stack) = {Top} \cup ToSet(Below)
        /\ \A p \in Top.who : cold[p] # "active"
    BY <1>2, AtTop, CalmTurn DEF Immediate, AtOnce, Ends, FrameInv, Entering, Gone
  <1>5. /\ UNCHANGED <<rule, subject, connection, resetting, ended, joined, link,
                       over, cold>>
        /\ hooked' \subseteq hooked
        /\ \A p \in Observers : p # o /\ p \in hooked => p \in hooked'
    BY DEF Leave
  <1>6. \A h \in ToSet(Below) : ~Clash(f, h) /\ ~Clash(g, h)
    BY <1>1 DEF Clash, Entering
  <1>7. ~Clash(f, g)
    BY <1>1 DEF Clash, Entering
  <1>8. [Next]_vars
    BY DEF Next
  <1>9. TypeInv'
    BY LeaveType DEF ShareInv
  <1>10. ASSUME NEW p \in Observers, cold'[p] = "active"
         PROVE  /\ cold[p] = "active" /\ p \in hooked'
                /\ p \notin Top.who
    <2>1. cold[p] = "active" /\ p \notin Top.who
      BY <1>4, <1>5, <1>10
    <2>2. p \in hooked
      BY <2>1 DEF ShareInv, AllFed, Fed
    <2>3. QED
      BY <1>2, <1>5, <2>1, <2>2
  <1>11. FrameInv(f, cold', joined', link') /\ FrameInv(g, cold', joined', link')
    BY <1>1 DEF FrameInv, Immediate, AtOnce, Ends, Entering
  <1>12. CASE stack' = <<g>> \o Below
    <2>1. ToSet(stack') = {g} \cup ToSet(Below) /\ Silent(stack') /\ NoClash(stack')
      BY <1>1, <1>4, <1>6, <1>12, Pushed DEF Calm
    <2>2. Calm(stack')
      BY <1>1, <1>4, <2>1 DEF Calm, Quiet, AtOnce, Ends
    <2>3. Silent(stack)
      BY <1>4 DEF Calm
    <2>4. \A h \in ToSet(stack') : h \in ToSet(stack) \/ FrameInv(h, cold', joined', link')
      BY <1>4, <1>11, <2>1
    <2>5. ASSUME NEW p \in Observers, cold'[p] = "active"
          PROVE  /\ cold[p] = "active" /\ p \in hooked'
                 /\ \A h \in ToSet(stack) : h.op \in Entering \cup {"ending"} /\ p \in h.who =>
                      \E k \in ToSet(stack') : k.op = h.op /\ p \in k.who
      BY <1>4, <1>10, <2>1, <2>5
    <2>6. QED
      BY <1>5, <1>8, <1>9, <2>1, <2>2, <2>3, <2>4, <2>5, CalmStep
  <1>13. CASE stack' = <<f, g>> \o Below /\ o \in hooked /\ LastLeaves
    <2>1. /\ stack' \in Seq(Frame) /\ stack' # <<>>
          /\ Top' = f /\ ToSet(stack') = {f, g} \cup ToSet(Below)
          /\ ToSet(Below') = {g} \cup ToSet(Below)
          /\ Silent(stack') /\ NoClash(stack')
      BY <1>1, <1>4, <1>6, <1>7, <1>13, PushedTwo DEF Calm
    <2>2. hooked' = {} /\ ended = "no"
      <3>1. hooked' = hooked \ {o} /\ ended = "no" /\ refCount = 1
        BY <1>13 DEF Leave, LastLeaves
      <3>2. IsFiniteSet(hooked) /\ Cardinality(hooked) = 1 /\ o \in hooked
        BY <1>13, <3>1 DEF ShareInv, TypeInv, TypeOK
      <3>3. IsFiniteSet(hooked \ {o}) /\ Cardinality(hooked \ {o}) = 0
        BY <3>2, FS_RemoveElement
      <3>4. hooked \ {o} = {}
        BY <3>3, FS_EmptySet
      <3>5. QED
        BY <3>1, <3>4
    <2>3. Quiet(Below')
      BY <1>1, <1>4, <2>1 DEF Calm, Quiet, AtOnce, Ends
    <2>4. Frames'
      BY <1>4, <1>5, <1>8, <1>11, <2>1, FramesKept
    <2>5. Shape' /\ Ruled'
      BY <1>1, <1>5, <2>1, <2>2, <2>3 DEF Shape, Ruled, ForEnd, ForZero, Ends
    <2>6. Connected'
      BY <1>5, <2>2 DEF ShareInv, Connected
    <2>7. Untold'
      BY <1>5, <2>2 DEF Untold
    <2>8. ASSUME NEW p \in Observers, cold'[p] = "active" PROVE FALSE
      BY <1>10, <2>2, <2>8
    <2>9. QED
      BY <1>9, <2>1, <2>4, <2>5, <2>6, <2>7, <2>8 DEF ShareInv, AllFed
  <1>14. QED
    BY <1>3, <1>12, <1>13

-----------------------------------------------------------------------------
(* The end of the source.                                                   *)

LEMMA SourceEndsKeeps ==
  ASSUME NotifierReenters = FALSE, ShareInv,
         NEW c \in Observers, NEW kind \in Ends, SourceEnds(c, kind)
  PROVE  ShareInv'
  <1> DEFINE f == Call(kind, {}, None, "run")
             g == Call("telling", {}, subject, "run")
  <1>1. /\ connection = c /\ ended = "no" /\ connection # None
        /\ subject \in Observers /\ joined[c] = subject
    BY ConstantsOK DEF SourceEnds, ShareInv, Connected
  <1>2. /\ f \in Frame /\ f.op = kind /\ f.at = "run"
        /\ g \in Frame /\ g.op = "telling" /\ g.of = subject /\ g.at = "run"
    BY <1>1 DEF Call, Frame, Ops
  <1>3. stack' = <<f, g>> \o stack
    BY <1>1, RunsOn DEF SourceEnds
  <1> HIDE DEF f, g
  <1>4. stack \in Seq(Frame) /\ Calm(stack)
    BY CalmTurn DEF SourceEnds
  <1>5. /\ kind # "telling" /\ kind \notin Entering /\ kind # "factory"
        /\ kind # "clear" /\ kind # "zero" /\ kind # "no" /\ kind # "leaving"
        /\ kind # "joining"
    BY DEF Ends, Entering
  <1>6. /\ ~Clash(f, g)
        /\ \A h \in ToSet(stack) : ~Clash(f, h) /\ ~Clash(g, h)
    BY <1>2, <1>5 DEF Clash, Entering
  <1>7. /\ stack' \in Seq(Frame) /\ stack' # <<>>
        /\ Top' = f
        /\ Below' # <<>> /\ Head(Below') = g
        /\ ToSet(stack') = {f, g} \cup ToSet(stack)
        /\ ToSet(Below') = {g} \cup ToSet(stack)
        /\ NoClash(stack')
        /\ Tells(Below')
    BY <1>2, <1>3, <1>4, <1>6, PushedTwo DEF Calm, ShareInv
  <1>8. [Next]_vars
    BY DEF Next
  <1>9. \A p \in Observers : link'[p] = IF p = c THEN "ended" ELSE link[p]
    BY DEF SourceEnds, ShareInv, TypeInv, TypeOK
  <1>10. /\ ended' = kind /\ resetting' = "none"
         /\ UNCHANGED <<rule, subject, connection, refCount, cold, hooked, joined, over>>
    BY DEF SourceEnds
  <1>11. Frames'
    <2>1. FrameInv(f, cold', joined', link') /\ FrameInv(g, cold', joined', link')
      BY <1>2, <1>5 DEF FrameInv, Entering
    <2>2. \A p \in Observers : link[p] = "none" => link'[p] = "none"
      BY <1>9 DEF SourceEnds
    <2>3. QED
      BY <1>7, <1>8, <1>10, <2>1, <2>2, FramesKept
  <1>12. Shape'
    <2>1. Quiet(Below')
      BY <1>2, <1>4, <1>7 DEF Calm, Quiet, AtOnce, Ends
    <2>2. ForEnd(Top')
      BY <1>2, <1>7 DEF ForEnd
    <2>3. QED
      BY <1>2, <1>7, <1>10, <2>1, <2>2 DEF Shape, Interrupts
  <1>13. Ruled'
    BY <1>2, <1>5, <1>7, <1>10 DEF Ruled, ForZero
  <1>14. Connected'
    BY <1>1, <1>5, <1>9, <1>10, ConstantsOK DEF ShareInv, Connected
  <1>15. Untold'
    BY <1>2, <1>7, <1>10 DEF Untold, Pending
  <1>16. ASSUME NEW p \in Observers, cold'[p] = "active" PROVE Fed(p)'
    <2>1. cold[p] = "active" /\ p \in hooked'
      BY <1>10, <1>16 DEF ShareInv, AllFed, Fed
    <2>2. QED
      BY <1>7, <1>10, <2>1, FedKept
  <1>17. TypeInv'
    BY SourceEndsType DEF ShareInv
  <1>18. QED
    BY <1>7, <1>11, <1>12, <1>13, <1>14, <1>15, <1>16, <1>17 DEF ShareInv, AllFed

LEMMA TellKeeps ==
  ASSUME ShareInv, Tell
  PROVE  ShareInv'
  <1> DEFINE f == Call("ending", {p \in Observers : joined[p] = Top.of}, None, "run")
  <1>1. /\ f \in Frame /\ f.op = "ending"
        /\ f.who = {p \in Observers : joined[p] = Top.of}
    BY DEF Call, Frame, Ops
  <1>2. /\ stack # <<>> /\ Top.op = "telling"
        /\ stack' = <<f>> \o Below /\ over' = over \cup {Top.of}
        /\ UNCHANGED <<rule, subject, connection, resetting, ended, cold, hooked,
                       joined, link>>
    BY DEF Tell, LibTurn
  <1> HIDE DEF f
  <1>3. /\ Below \in Seq(Frame) /\ NoClash(Below)
        /\ ToSet(stack) = {Top} \cup ToSet(Below)
    BY <1>2, AtTop
  <1>4. Calm(Below)
    <2>1. stack \in Seq(Frame) /\ ~Silent(stack)
      BY <1>2, <1>3 DEF Silent, ShareInv, TypeInv, TypeOK
    <2>2. Quiet(Below) /\ Tells(stack)
      BY <1>2, <2>1 DEF ShareInv, Shape, Interrupts, ForEnd, Ends
    <2>3. QED
      BY <2>2 DEF Tells, Below, Calm
  <1>5. \A g \in ToSet(Below) : ~Clash(f, g)
    BY <1>1 DEF Clash, Entering
  <1>6. /\ stack' \in Seq(Frame) /\ ToSet(stack') = {f} \cup ToSet(Below)
        /\ Silent(stack') /\ NoClash(stack')
    BY <1>1, <1>2, <1>3, <1>4, <1>5, Pushed DEF Calm
  <1>7. Calm(stack')
    BY <1>1, <1>4, <1>6 DEF Calm, Quiet, AtOnce, Ends
  <1>8. [Next]_vars
    BY DEF Next
  <1>9. Frames'
    <2>1. FrameInv(f, cold', joined', link')
      BY <1>1 DEF FrameInv, Immediate, AtOnce, Ends, Entering
    <2>2. QED
      BY <1>2, <1>3, <1>6, <1>8, <2>1, FramesKept
  <1>10. Shape' /\ Ruled' /\ (stack' # <<>> => Top'.op \notin AtOnce)
    BY <1>6, <1>7, CalmKept
  <1>11. Connected'
    BY <1>2 DEF ShareInv, Connected
  <1>12. Untold'
    BY <1>2, <1>3, <1>6, <1>10, UntoldKept
  <1>13. ASSUME NEW p \in Observers, cold'[p] = "active" PROVE Fed(p)'
    <2>1. Fed(p)
      BY <1>2, <1>13 DEF ShareInv, AllFed
    <2>2. CASE joined[p] = Top.of
      BY <1>1, <1>2, <1>6, <2>1, <2>2 DEF Fed, Within
    <2>3. CASE joined[p] # Top.of
      <3>1. ASSUME NEW op \in {"joining", "ending", "connecting"}, Within(op, p)
            PROVE  Within(op, p)'
        BY <1>2, <1>3, <1>6, <3>1 DEF Within
      <3>2. ~Pending(joined[p])
        BY <1>3, <1>4, <2>3 DEF Pending, Calm, Silent
      <3>3. QED
        BY <1>2, <2>1, <2>3, <3>1, <3>2 DEF Fed
    <2>4. QED
      BY <2>2, <2>3
  <1>14. TypeInv'
    BY TellType DEF ShareInv
  <1>15. QED
    BY <1>6, <1>9, <1>10, <1>11, <1>12, <1>13, <1>14 DEF ShareInv, AllFed

LEMMA TellOneKeeps ==
  ASSUME ShareInv, NEW o \in Observers, TellOne(o)
  PROVE  ShareInv'
  <1> DEFINE f == Call("leaving", {o}, None, "run")
             g == [Top EXCEPT !.who = @ \ {o}]
  <1>1. stack # <<>> /\ Top.op = "ending" /\ o \in Top.who
    BY DEF TellOne, LibTurn
  <1>2. /\ Below \in Seq(Frame) /\ Calm(Below) /\ NoClash(Below) /\ Calm(stack)
        /\ ToSet(stack) = {Top} \cup ToSet(Below)
        /\ Top \in Frame
    BY <1>1, AtTop, CalmTurn DEF Immediate, AtOnce, Ends
  <1>3. /\ f \in Frame /\ f.op = "leaving" /\ f.who = {o}
        /\ g \in Frame /\ g.op = "ending" /\ g.who = Top.who \ {o}
    BY <1>1, <1>2 DEF Call, Frame, Ops
  <1>4. \/ stack' = <<f, g>> \o Below /\ cold' = [cold EXCEPT ![o] = "ended"]
        \/ stack' = <<g>> \o Below /\ cold' = cold /\ cold[o] # "active"
    BY DEF TellOne
  <1> HIDE DEF f, g
  <1>5. \A h \in ToSet(Below) : ~Clash(f, h) /\ ~Clash(g, h)
    BY <1>3 DEF Clash, Entering
  <1>6. ~Clash(f, g)
    BY <1>3 DEF Clash, Entering
  <1>7. /\ ToSet(Below) \subseteq ToSet(stack') /\ g \in ToSet(stack')
        /\ \A h \in ToSet(stack') :
             h \in ToSet(Below) \/ h = g \/ (h = f /\ cold'[o] = "ended")
        /\ Silent(stack') /\ NoClash(stack')
    <2>1. CASE stack' = <<f, g>> \o Below /\ cold' = [cold EXCEPT ![o] = "ended"]
      <3>1. cold'[o] = "ended"
        BY <2>1 DEF ShareInv, TypeInv, TypeOK
      <3>2. QED
        BY <1>2, <1>3, <1>5, <1>6, <2>1, <3>1, PushedTwo DEF Calm
    <2>2. CASE stack' = <<g>> \o Below
      BY <1>2, <1>3, <1>5, <2>2, Pushed DEF Calm
    <2>3. QED
      BY <1>4, <2>1, <2>2
  <1>8. Calm(stack')
    BY <1>2, <1>3, <1>7 DEF Calm, Quiet, AtOnce, Ends
  <1>9. /\ cold'[o] = "ended" => FrameInv(f, cold', joined', link')
        /\ FrameInv(g, cold', joined', link')
    BY <1>3 DEF FrameInv, Immediate, AtOnce, Ends, Entering, Gone
  <1>10. [Next]_vars
    BY DEF Next
  <1>11. TypeInv'
    BY TellOneType DEF ShareInv
  <1>12. ASSUME NEW p \in Observers, cold'[p] = "active"
         PROVE  /\ cold[p] = "active" /\ p \in hooked'
                /\ \A h \in ToSet(stack) : h.op \in Entering \cup {"ending"} /\ p \in h.who =>
                     \E k \in ToSet(stack') : k.op = h.op /\ p \in k.who
    <2>1. cold[p] = "active" /\ p # o
      BY <1>4, <1>12 DEF ShareInv, TypeInv, TypeOK
    <2>2. p \in hooked'
      BY <2>1 DEF TellOne, ShareInv, AllFed, Fed
    <2>3. p \in Top.who => p \in g.who /\ g.op = Top.op
      BY <1>1, <1>3, <2>1
    <2>4. QED
      BY <1>2, <1>7, <2>1, <2>2, <2>3
  <1>13. /\ UNCHANGED <<rule, subject, connection, resetting, ended, joined, link, over>>
         /\ hooked' \subseteq hooked
    BY DEF TellOne
  <1>14. \A h \in ToSet(stack') : h \in ToSet(stack) \/ FrameInv(h, cold', joined', link')
    BY <1>2, <1>7, <1>9
  <1>15. Silent(stack)
    BY <1>2 DEF Calm
  <1>16. QED
    BY <1>7, <1>8, <1>10, <1>11, <1>12, <1>13, <1>14, <1>15, CalmStep

LEMMA CallbackEndsKeeps ==
  ASSUME ShareInv, CallbackEnds
  PROVE  ShareInv'
  <1> DEFINE f == [Top EXCEPT !.at = "run"]
  <1>1. /\ stack # <<>> /\ Top.at = "call" /\ stack' = <<f>> \o Below
        /\ UNCHANGED <<rule, subject, connection, resetting, refCount, ended, cold,
                       hooked, joined, link, over>>
    BY DEF CallbackEnds
  <1>2. /\ Below \in Seq(Frame) /\ NoClash(Below)
        /\ ToSet(stack) = {Top} \cup ToSet(Below)
        /\ \A g \in ToSet(Below) : ~Clash(Top, g)
        /\ Top \in Frame /\ FrameInv(Top, cold, joined, link)
    BY <1>1, AtTop
  <1>3. Top.op \notin Immediate /\ Calm(stack) /\ Calm(Below)
    BY <1>1, <1>2, CalmTurn DEF FrameInv
  <1>4. /\ f \in Frame
        /\ f.op = Top.op /\ f.who = Top.who /\ f.of = Top.of
    BY <1>2 DEF Frame
  <1> HIDE DEF f
  <1>5. \A g \in ToSet(Below) : ~Clash(f, g)
    BY <1>2, <1>4 DEF Clash
  <1>6. ToSet(stack') = {f} \cup ToSet(Below) /\ Silent(stack') /\ NoClash(stack')
    BY <1>1, <1>2, <1>3, <1>4, <1>5, Pushed DEF Calm, Immediate
  <1>7. Calm(stack')
    BY <1>3, <1>4, <1>6 DEF Calm, Quiet, Immediate
  <1>8. FrameInv(f, cold', joined', link')
    BY <1>1, <1>2, <1>3, <1>4 DEF FrameInv
  <1>9. [Next]_vars
    BY DEF Next
  <1>10. TypeInv'
    BY ReturnType DEF ShareInv
  <1>11. ASSUME NEW p \in Observers, cold'[p] = "active"
         PROVE  /\ cold[p] = "active" /\ p \in hooked'
                /\ \A g \in ToSet(stack) : g.op \in Entering \cup {"ending"} /\ p \in g.who =>
                     \E h \in ToSet(stack') : h.op = g.op /\ p \in h.who
    <2>1. cold[p] = "active" /\ p \in hooked'
      BY <1>1, <1>11 DEF ShareInv, AllFed, Fed
    <2>2. QED
      BY <1>2, <1>4, <1>6, <2>1
  <1>12. \A g \in ToSet(stack') : g \in ToSet(stack) \/ FrameInv(g, cold', joined', link')
    BY <1>2, <1>6, <1>8
  <1>13. Silent(stack) /\ hooked' \subseteq hooked
    BY <1>1, <1>3 DEF Calm
  <1>14. QED
    BY <1>1, <1>6, <1>7, <1>9, <1>10, <1>11, <1>12, <1>13, CalmStep

-----------------------------------------------------------------------------
(* The resets.                                                              *)

(* Ruling on an end of the source, or on the last observer that has left.   *)
LEMMA RulingFacts ==
  ASSUME ShareInv, stack # <<>>
  PROVE  /\ ForEnd(Top) => /\ ended # "no"
                           /\ Tells(Below) /\ Head(Below).of = subject
                           /\ Below # <<>> /\ ToSet(Tail(Below)) \subseteq ToSet(Below)
                           /\ Tail(Below) \in Seq(Frame)
                           /\ ToSet(Below) = {Head(Below)} \cup ToSet(Tail(Below))
                           /\ NoClash(Tail(Below))
                           /\ Pending(subject)
         /\ ForZero(Top) => /\ ended = "no" /\ hooked = {}
                            /\ Silent(Below)
         /\ Quiet(Below)
  <1>1. /\ Below \in Seq(Frame) /\ NoClash(Below)
        /\ ToSet(stack) = {Top} \cup ToSet(Below)
        /\ Silent(stack) => Silent(Below)
    BY AtTop, OnTop DEF ShareInv, TypeInv, TypeOK
  <1>2. ASSUME ForEnd(Top)
        PROVE  /\ ended # "no"
               /\ Tells(Below) /\ Head(Below).of = subject
               /\ Below # <<>> /\ Head(Below).op = "telling"
    BY <1>2 DEF ShareInv, Shape, Ruled, ForEnd, Tells, Ends
  <1>3. ASSUME ForEnd(Top)
        PROVE  /\ ToSet(Below) = {Head(Below)} \cup ToSet(Tail(Below))
               /\ Tail(Below) \in Seq(Frame)
               /\ NoClash(Tail(Below))
    BY <1>1, <1>2, <1>3, Decomposed
  <1>4. ForEnd(Top) => Pending(subject)
    BY <1>1, <1>2, <1>3 DEF Pending
  <1>5. ASSUME ForZero(Top)
        PROVE  ended = "no" /\ hooked = {} /\ Silent(Below)
    <2>1. ended = "no" /\ hooked = {}
      BY <1>5 DEF ShareInv, Ruled
    <2>2. ~Tells(stack)
      BY <1>5 DEF Tells, Top, ForZero
    <2>3. Silent(stack)
      BY <1>5, <2>2 DEF ShareInv, Shape, Interrupts, ForZero, ForEnd, Ends
    <2>4. QED
      BY <1>1, <2>1, <2>3
  <1>6. QED
    BY <1>2, <1>3, <1>4, <1>5 DEF ShareInv, Shape

(* The steps that change nothing but the reset that is pending. *)
LEMMA ResetStep ==
  ASSUME ShareInv, TypeInv', [Next]_vars,
         UNCHANGED <<rule, subject, connection, ended, cold, hooked, joined, link, over>>,
         NoClash(stack'), Shape', Ruled', Untold',
         \A f \in ToSet(stack') : f \in ToSet(stack) \/ FrameInv(f, cold', joined', link'),
         \A f \in ToSet(stack) :
           f.op \in Entering \cup {"ending", "telling"} => f \in ToSet(stack'),
         resetting' = "zero" => ended = "no" /\ hooked = {},
         resetting' = "end" => ended # "no" /\ rule[ended] = "notifier"
  PROVE  ShareInv'
  <1>1. Frames'
    BY FramesKept
  <1>2. Connected'
    BY DEF ShareInv, Connected
  <1>3. AllFed'
    <2>1. ASSUME NEW o \in Observers, cold'[o] = "active" PROVE Fed(o)'
      <3>1. cold[o] = "active" /\ o \in hooked'
        BY <2>1 DEF ShareInv, AllFed, Fed
      <3>2. QED
        BY <3>1, FedKept
    <2>2. QED
      BY <2>1 DEF AllFed
  <1>4. QED
    BY <1>1, <1>2, <1>3 DEF ShareInv

LEMMA ResetAtOnceKeeps ==
  ASSUME NotifierReenters = FALSE, ShareInv, ResetAtOnce
  PROVE  ShareInv'
  <1> DEFINE f == Call("clear", {}, Disconnects(Top.op), "run")
  <1>1. /\ stack # <<>> /\ Top.op \in Ends \cup {"zero"} /\ rule[Top.op] = "true"
        /\ stack' = <<f>> \o Below /\ resetting' = "none"
        /\ UNCHANGED <<rule, subject, connection, refCount, ended, cold, hooked,
                       joined, link, over>>
    BY RunsOn DEF ResetAtOnce, Ruling, LibTurn
  <1>2. /\ f \in Frame /\ f.op = "clear" /\ f.at = "run"
        /\ f.of = IF Top.op = "zero" THEN connection ELSE None
    BY DEF Call, Frame, Ops, Disconnects, ShareInv, TypeInv, TypeOK
  <1> HIDE DEF f
  <1>3. /\ Below \in Seq(Frame) /\ NoClash(Below)
        /\ ToSet(stack) = {Top} \cup ToSet(Below)
    BY <1>1, AtTop
  <1>4. \A g \in ToSet(Below) : ~Clash(f, g)
    BY <1>2 DEF Clash, Entering
  <1>5. /\ stack' # <<>> /\ Top' = f /\ Below' = Below
        /\ ToSet(stack') = {f} \cup ToSet(Below)
        /\ NoClash(stack')
        /\ Silent(stack') <=> Silent(Below)
    BY <1>1, <1>2, <1>3, <1>4, Pushed
  <1>6. ASSUME Top.op = "zero"
        PROVE  Shape' /\ Ruled' /\ Untold'
    <2>1. ended = "no" /\ hooked = {} /\ Silent(Below) /\ Quiet(Below)
      BY <1>1, <1>6, RulingFacts DEF ForZero
    <2>2. Shape' /\ Ruled' /\ Untold'
      BY <1>1, <1>2, <1>5, <1>6, <2>1 DEF Shape, Ruled, Untold, ForEnd, ForZero, Ends
    <2>3. QED
      BY <2>2
  <1>7. ASSUME Top.op \in Ends
        PROVE  Shape' /\ Ruled' /\ Untold'
    <2>1. /\ Tells(Below) /\ Quiet(Below) /\ ended # "no"
          /\ Below # <<>> /\ Head(Below).of = subject
          /\ ToSet(Below) = {Head(Below)} \cup ToSet(Tail(Below))
          /\ ended = Top.op /\ Top.op # "zero"
      BY <1>1, <1>7, RulingFacts DEF ForEnd, ShareInv, Ruled, Ends
    <2>2. f.of = None /\ rule[ended] # "false"
      BY <1>1, <1>2, <2>1
    <2>3. Shape'
      BY <1>2, <1>5, <2>1, <2>2 DEF Shape, Interrupts, ForEnd, Ends
    <2>4. Ruled'
      BY <1>1, <1>2, <1>5, <2>1, <2>2 DEF Ruled, ForZero, Ends
    <2>5. Head(Below) \in ToSet(stack') /\ Head(Below).op = "telling"
      BY <1>5, <2>1 DEF Tells
    <2>6. Untold'
      BY <1>1, <2>1, <2>5 DEF Untold, Pending
    <2>7. QED
      BY <2>3, <2>4, <2>6
  <1>8. Shape' /\ Ruled' /\ Untold'
    BY <1>1, <1>6, <1>7
  <1>9. \A g \in ToSet(stack') : g \in ToSet(stack) \/ FrameInv(g, cold', joined', link')
    BY <1>2, <1>3, <1>5 DEF FrameInv, Entering
  <1>10. \A g \in ToSet(stack) :
           g.op \in Entering \cup {"ending", "telling"} => g \in ToSet(stack')
    BY <1>1, <1>3, <1>5 DEF Entering, Ends
  <1>11. [Next]_vars
    BY DEF Next
  <1>12. TypeInv'
    BY ResetType DEF ShareInv
  <1>13. QED
    BY <1>1, <1>5, <1>8, <1>9, <1>10, <1>11, <1>12, ResetStep

LEMMA ResetNeverKeeps ==
  ASSUME ShareInv, ResetNever
  PROVE  ShareInv'
  <1>1. /\ stack # <<>> /\ Top.op \in Ends \cup {"zero"}
        /\ stack' = Below
        /\ UNCHANGED <<rule, subject, connection, resetting, refCount, ended, cold,
                       hooked, joined, link, over>>
    BY DEF ResetNever, Ruling, LibTurn
  <1>2. /\ Below \in Seq(Frame) /\ NoClash(Below)
        /\ ToSet(stack) = {Top} \cup ToSet(Below)
    BY <1>1, AtTop
  <1>3. ASSUME Top.op = "zero"
        PROVE  Shape' /\ Ruled' /\ Untold'
    <2>1. ended = "no" /\ Silent(Below) /\ Quiet(Below)
      BY <1>1, <1>3, RulingFacts DEF ForZero
    <2>2. Calm(stack') /\ stack' \in Seq(Frame)
      BY <1>1, <1>2, <2>1 DEF Calm
    <2>3. Shape' /\ Ruled'
      BY <2>2, CalmKept
    <2>4. QED
      BY <1>1, <2>1, <2>3 DEF Untold
  <1>4. ASSUME Top.op \in Ends
        PROVE  Shape' /\ Ruled' /\ Untold'
    <2>1. /\ Tells(Below) /\ Quiet(Below) /\ ended # "no"
          /\ Below # <<>> /\ Head(Below).of = subject
          /\ ToSet(Below) = {Head(Below)} \cup ToSet(Tail(Below))
      BY <1>1, <1>4, RulingFacts DEF ForEnd
    <2>2. Tells(stack') /\ stack' # <<>> /\ Top'.op = "telling"
      BY <1>1, <2>1 DEF Tells, Top
    <2>3. Quiet(Below')
      BY <1>1, <2>1 DEF Quiet, Below
    <2>4. Shape' /\ Ruled'
      BY <2>2, <2>3 DEF Shape, Ruled, ForEnd, ForZero, Ends
    <2>5. Head(Below) \in ToSet(stack') /\ Head(Below).op = "telling"
      BY <1>1, <2>1 DEF Tells
    <2>6. Untold'
      BY <1>1, <2>1, <2>5 DEF Untold, Pending
    <2>7. QED
      BY <2>4, <2>6
  <1>5. Shape' /\ Ruled' /\ Untold'
    BY <1>1, <1>3, <1>4
  <1>6. \A g \in ToSet(stack) :
          g.op \in Entering \cup {"ending", "telling"} => g \in ToSet(stack')
    BY <1>1, <1>2 DEF Entering, Ends
  <1>7. [Next]_vars
    BY DEF Next
  <1>8. TypeInv'
    BY ResetType DEF ShareInv
  <1>9. /\ resetting' = "zero" => ended = "no" /\ hooked = {}
        /\ resetting' = "end" => ended # "no" /\ rule[ended] = "notifier"
    BY <1>1 DEF ShareInv, Connected
  <1>10. /\ NoClash(stack')
         /\ \A g \in ToSet(stack') : g \in ToSet(stack) \/ FrameInv(g, cold', joined', link')
    BY <1>1, <1>2
  <1>11. QED
    BY <1>1, <1>5, <1>6, <1>7, <1>8, <1>9, <1>10, ResetStep

LEMMA FactoryCalledKeeps ==
  ASSUME NotifierReenters = FALSE, ShareInv, FactoryCalled
  PROVE  ShareInv'
  <1> DEFINE f == Call("factory", {}, Top.op, "run")
  <1>1. /\ stack # <<>> /\ Top.op \in Ends \cup {"zero"} /\ rule[Top.op] = "notifier"
        /\ stack' = <<f>> \o Below
        /\ UNCHANGED <<rule, subject, connection, resetting, refCount, ended, cold,
                       hooked, joined, link, over>>
    BY RunsOn DEF FactoryCalled, Ruling, LibTurn
  <1>2. /\ f \in Frame /\ f.op = "factory" /\ f.at = "run" /\ f.of = Top.op
    BY <1>1 DEF Call, Frame, Ops
  <1> HIDE DEF f
  <1>3. /\ Below \in Seq(Frame) /\ NoClash(Below)
        /\ ToSet(stack) = {Top} \cup ToSet(Below)
    BY <1>1, AtTop
  <1>4. \A g \in ToSet(Below) : ~Clash(f, g)
    BY <1>2 DEF Clash, Entering
  <1>5. /\ stack' # <<>> /\ Top' = f /\ Below' = Below
        /\ ToSet(stack') = {f} \cup ToSet(Below)
        /\ NoClash(stack')
        /\ Silent(stack') <=> Silent(Below)
    BY <1>1, <1>2, <1>3, <1>4, Pushed
  <1>6. ASSUME Top.op = "zero"
        PROVE  Shape' /\ Ruled' /\ Untold'
    <2>1. ended = "no" /\ hooked = {} /\ Silent(Below) /\ Quiet(Below)
      BY <1>1, <1>6, RulingFacts DEF ForZero
    <2>2. Shape' /\ Ruled' /\ Untold'
      BY <1>1, <1>2, <1>5, <1>6, <2>1 DEF Shape, Ruled, Untold, ForEnd, ForZero, Ends
    <2>3. QED
      BY <2>2
  <1>7. ASSUME Top.op \in Ends
        PROVE  Shape' /\ Ruled' /\ Untold'
    <2>1. /\ Tells(Below) /\ Quiet(Below) /\ ended # "no"
          /\ Below # <<>> /\ Head(Below).of = subject
          /\ ToSet(Below) = {Head(Below)} \cup ToSet(Tail(Below))
          /\ ended = Top.op /\ Top.op # "zero"
      BY <1>1, <1>7, RulingFacts DEF ForEnd, ShareInv, Ruled, Ends
    <2>2. Shape'
      BY <1>1, <1>2, <1>5, <1>7, <2>1 DEF Shape, Interrupts, ForEnd
    <2>3. Ruled'
      BY <1>1, <1>2, <1>5, <2>1 DEF Ruled, ForZero, Ends
    <2>4. Head(Below) \in ToSet(stack') /\ Head(Below).op = "telling"
      BY <1>5, <2>1 DEF Tells
    <2>5. Untold'
      BY <1>1, <2>1, <2>4 DEF Untold, Pending
    <2>6. QED
      BY <2>2, <2>3, <2>5
  <1>8. Shape' /\ Ruled' /\ Untold'
    BY <1>1, <1>6, <1>7
  <1>9. \A g \in ToSet(stack') : g \in ToSet(stack) \/ FrameInv(g, cold', joined', link')
    BY <1>2, <1>3, <1>5 DEF FrameInv, Entering
  <1>10. \A g \in ToSet(stack) :
           g.op \in Entering \cup {"ending", "telling"} => g \in ToSet(stack')
    BY <1>1, <1>3, <1>5 DEF Entering, Ends
  <1>11. [Next]_vars
    BY DEF Next
  <1>12. TypeInv'
    BY ResetType DEF ShareInv
  <1>13. /\ resetting' = "zero" => ended = "no" /\ hooked = {}
         /\ resetting' = "end" => ended # "no" /\ rule[ended] = "notifier"
    BY <1>1 DEF ShareInv, Connected
  <1>14. QED
    BY <1>1, <1>5, <1>8, <1>9, <1>10, <1>11, <1>12, <1>13, ResetStep

(* Where the factory throws, the Subject is not told, but keeps its         *)
(* observers and the connection that it had.                                *)
LEMMA FactoryThrowsKeeps ==
  ASSUME ShareInv, FactoryThrows
  PROVE  ShareInv'
  <1>1. /\ stack # <<>> /\ Top.op \in Ends \cup {"zero"} /\ rule[Top.op] = "notifier"
        /\ stack' = IF Top.op = "zero" THEN Below ELSE Tail(Below)
        /\ UNCHANGED <<rule, subject, connection, resetting, refCount, ended, cold,
                       hooked, joined, link, over>>
    BY DEF FactoryThrows, Ruling, LibTurn
  <1>2. /\ Below \in Seq(Frame) /\ NoClash(Below)
        /\ ToSet(stack) = {Top} \cup ToSet(Below)
    BY <1>1, AtTop
  <1>3. [Next]_vars
    BY DEF Next
  <1>4. TypeInv'
    BY ResetType DEF ShareInv
  <1>5. CASE Top.op = "zero"
    <2>1. ended = "no" /\ hooked = {} /\ Silent(Below) /\ Quiet(Below)
      BY <1>1, <1>5, RulingFacts DEF ForZero
    <2>2. stack' = Below
      BY <1>1, <1>5
    <2>3. Calm(stack') /\ stack' \in Seq(Frame)
      BY <1>2, <2>1, <2>2 DEF Calm
    <2>4. Shape' /\ Ruled'
      BY <2>3, CalmKept
    <2>5. Untold'
      BY <1>1, <2>1 DEF Untold
    <2>6. \A g \in ToSet(stack) :
            g.op \in Entering \cup {"ending", "telling"} => g \in ToSet(stack')
      BY <1>2, <1>5, <2>2 DEF Entering
    <2>7. /\ resetting' = "zero" => ended = "no" /\ hooked = {}
          /\ resetting' = "end" => ended # "no" /\ rule[ended] = "notifier"
      BY <1>1 DEF ShareInv, Connected
    <2>8. /\ NoClash(stack')
          /\ \A g \in ToSet(stack') : g \in ToSet(stack) \/ FrameInv(g, cold', joined', link')
      BY <1>2, <2>2
    <2>9. QED
      BY <1>1, <1>3, <1>4, <2>4, <2>5, <2>6, <2>7, <2>8, ResetStep
  <1>6. CASE Top.op \in Ends
    <2>1. /\ Tells(Below) /\ Quiet(Below) /\ ended # "no"
          /\ Head(Below).of = subject
          /\ Tail(Below) \in Seq(Frame) /\ NoClash(Tail(Below))
          /\ ToSet(Below) = {Head(Below)} \cup ToSet(Tail(Below))
          /\ ended = Top.op /\ resetting = "none" /\ Top.op # "zero"
      BY <1>1, <1>6, RulingFacts DEF ForEnd, ShareInv, Ruled, Ends
    <2>2. stack' = Tail(Below)
      BY <1>1, <2>1
    <2>3. stack' \in Seq(Frame) /\ Calm(stack') /\ NoClash(stack')
      BY <2>1, <2>2 DEF Calm, Quiet, Tells
    <2>4. Shape' /\ Ruled' /\ (stack' # <<>> => Top'.op \notin AtOnce)
      BY <2>3, CalmKept
    <2>5. Frames'
      BY <1>1, <1>2, <1>3, <2>1, <2>2, FramesKept
    <2>6. Connected'
      BY <1>1 DEF ShareInv, Connected
    <2>7. Untold'
      BY <1>1, <2>1, <2>4 DEF Untold, Stuck
    <2>8. ASSUME NEW p \in Observers, cold'[p] = "active" PROVE Fed(p)'
      <3>1. Fed(p) /\ connection # None
        BY <1>1, <2>1, <2>8 DEF ShareInv, AllFed, Connected
      <3>2. ASSUME NEW op \in {"joining", "ending", "connecting"}, Within(op, p)
            PROVE  Within(op, p)'
        <4>1. PICK g \in ToSet(stack) : g.op = op /\ p \in g.who
          BY <3>2 DEF Within
        <4>2. g # Top /\ g # Head(Below)
          BY <1>6, <2>1, <4>1 DEF Ends, Tells
        <4>3. QED
          BY <1>2, <2>1, <2>2, <4>1, <4>2 DEF Within
      <3>3. ASSUME Pending(joined[p]) PROVE joined[p] = subject
        <4>1. PICK g \in ToSet(stack) : g.op = "telling" /\ g.of = joined[p]
          BY <3>3 DEF Pending
        <4>2. g # Top /\ g \notin ToSet(Tail(Below))
          BY <1>6, <2>1, <4>1 DEF Ends, Tells, Silent
        <4>3. QED
          BY <1>2, <2>1, <4>1, <4>2
      <3>4. QED
        BY <1>1, <3>1, <3>2, <3>3 DEF Fed
    <2>9. QED
      BY <1>4, <2>3, <2>4, <2>5, <2>6, <2>7, <2>8 DEF ShareInv, AllFed
  <1>7. QED
    BY <1>1, <1>5, <1>6

LEMMA NotifierSubscribedKeeps ==
  ASSUME NotifierReenters = FALSE, ShareInv, NotifierSubscribed
  PROVE  ShareInv'
  <1> DEFINE f == Call("notifying", {}, None, "run")
  <1>1. /\ stack # <<>> /\ Top.op = "factory"
        /\ resetting' = IF Top.of = "zero" THEN "zero" ELSE "end"
        /\ stack' = <<f>> \o Below
        /\ UNCHANGED <<rule, subject, connection, refCount, ended, cold, hooked,
                       joined, link, over>>
    BY RunsOn DEF NotifierSubscribed, LibTurn
  <1>2. f \in Frame /\ f.op = "notifying" /\ f.at = "run"
    BY DEF Call, Frame, Ops
  <1> HIDE DEF f
  <1>3. /\ Below \in Seq(Frame) /\ NoClash(Below)
        /\ ToSet(stack) = {Top} \cup ToSet(Below)
        /\ Top.of \in Ends \cup {"zero"}
    BY <1>1, AtTop DEF FrameType
  <1>4. \A g \in ToSet(Below) : ~Clash(f, g)
    BY <1>2 DEF Clash, Entering
  <1>5. /\ stack' \in Seq(Frame) /\ stack' # <<>> /\ Top' = f /\ Below' = Below
        /\ ToSet(stack') = {f} \cup ToSet(Below)
        /\ NoClash(stack')
        /\ Silent(stack') <=> Silent(Below)
    BY <1>1, <1>2, <1>3, <1>4, Pushed
  <1>6. ASSUME Top.of = "zero"
        PROVE  /\ Shape' /\ Ruled' /\ Untold'
               /\ resetting' = "zero" /\ ended = "no" /\ hooked = {}
    <2>1. ended = "no" /\ hooked = {} /\ Silent(Below) /\ Quiet(Below)
      BY <1>1, <1>6, RulingFacts DEF ForZero
    <2>2. Calm(stack')
      BY <1>2, <1>5, <2>1 DEF Calm, Quiet, AtOnce, Ends
    <2>3. Shape' /\ Ruled'
      BY <1>5, <2>2, CalmKept
    <2>4. QED
      BY <1>1, <1>6, <2>1, <2>3 DEF Untold
  <1>7. ASSUME Top.of \in Ends
        PROVE  /\ Shape' /\ Ruled' /\ Untold'
               /\ resetting' = "end" /\ ended # "no" /\ rule[ended] = "notifier"
    <2>1. /\ Tells(Below) /\ Quiet(Below) /\ ended # "no"
          /\ Below # <<>> /\ Head(Below).of = subject
          /\ ToSet(Below) = {Head(Below)} \cup ToSet(Tail(Below))
          /\ rule[ended] = "notifier"
      BY <1>1, <1>7, RulingFacts DEF ForEnd, ShareInv, Ruled
    <2>2. resetting' = "end"
      BY <1>1, <1>7 DEF Ends
    <2>3. Shape' /\ Ruled'
      BY <1>2, <1>5, <2>1, <2>2 DEF Shape, Ruled, Interrupts, ForEnd, ForZero, Ends
    <2>4. Head(Below) \in ToSet(stack') /\ Head(Below).op = "telling"
      BY <1>5, <2>1 DEF Tells
    <2>5. Untold'
      BY <1>1, <2>1, <2>4 DEF Untold, Pending
    <2>6. QED
      BY <2>1, <2>2, <2>3, <2>5
  <1>8. /\ Shape' /\ Ruled' /\ Untold'
        /\ resetting' = "zero" => ended = "no" /\ hooked = {}
        /\ resetting' = "end" => ended # "no" /\ rule[ended] = "notifier"
    BY <1>3, <1>6, <1>7
  <1>9. \A g \in ToSet(stack') : g \in ToSet(stack) \/ FrameInv(g, cold', joined', link')
    BY <1>2, <1>3, <1>5 DEF FrameInv, Entering
  <1>10. \A g \in ToSet(stack) :
           g.op \in Entering \cup {"ending", "telling"} => g \in ToSet(stack')
    BY <1>1, <1>3, <1>5 DEF Entering
  <1>11. [Next]_vars
    BY DEF Next
  <1>12. TypeInv'
    BY NotifierType DEF ShareInv
  <1>13. QED
    BY <1>1, <1>5, <1>8, <1>9, <1>10, <1>11, <1>12, ResetStep

LEMMA NotifierEmitsKeeps ==
  ASSUME NotifierReenters = FALSE, ShareInv, NotifierEmits
  PROVE  ShareInv'
  <1> DEFINE f == Call("clear", {}, Disconnects(resetting), "run")
  <1>1. /\ UserTurn \/ (stack # <<>> /\ Top.op = "notifying")
        /\ resetting \in {"zero", "end"} /\ resetting' = "none"
        /\ stack' = <<f>> \o stack
        /\ UNCHANGED <<rule, subject, connection, refCount, ended, cold, hooked,
                       joined, link, over>>
    BY RunsOn DEF NotifierEmits, LibTurn, ShareInv, TypeInv, TypeOK
  <1>2. /\ f \in Frame /\ f.op = "clear" /\ f.at = "run"
        /\ f.of = IF resetting = "zero" THEN connection ELSE None
    BY DEF Call, Frame, Ops, Disconnects, ShareInv, TypeInv, TypeOK
  <1> HIDE DEF f
  <1>3. /\ \/ resetting = "zero" /\ f.of = connection /\ ended = "no" /\ hooked = {}
           \/ resetting = "end" /\ f.of = None /\ ended # "no" /\ rule[ended] = "notifier"
        /\ stack \in Seq(Frame) /\ NoClash(stack)
    BY <1>1, <1>2 DEF ShareInv, Connected, TypeInv, TypeOK
  <1>4. \A g \in ToSet(stack) : ~Clash(f, g)
    BY <1>2 DEF Clash, Entering
  <1>5. /\ stack' # <<>> /\ Top' = f /\ Below' = stack
        /\ ToSet(stack') = {f} \cup ToSet(stack)
        /\ NoClash(stack')
        /\ Silent(stack') <=> Silent(stack)
    BY <1>1, <1>2, <1>3, <1>4, Pushed
  <1>6. Ruled'
    BY <1>1, <1>2, <1>3, <1>5 DEF Ruled, ForZero, Ends
  <1>7. Shape'
    <2>1. ~ForEnd(f)
      BY <1>2 DEF ForEnd, Ends
    <2>2. CASE UserTurn
      <3>1. Calm(stack)
        BY <2>2, CalmTurn
      <3>2. QED
        BY <1>5, <2>1, <3>1 DEF Shape, Calm, ForEnd
    <2>3. CASE stack # <<>> /\ Top.op = "notifying"
      <3>1. Quiet(stack)
        <4>1. ToSet(stack) = {Top} \cup ToSet(Below)
          BY <2>3, AtTop
        <4>2. QED
          BY <2>3, <4>1 DEF ShareInv, Shape, Quiet, AtOnce, Ends
      <3>2. ~Tells(stack) /\ ~ForEnd(Top)
        BY <2>3 DEF Tells, Top, ForEnd, Ends
      <3>3. Silent(stack) \/ (Tells(Below) /\ resetting # "zero")
        BY <2>3, <3>2 DEF ShareInv, Shape, Interrupts
      <3>4. stack # <<>> /\ Head(stack).op = "notifying"
        BY <2>3 DEF Top
      <3>5. Tells(Below) => Tells(Tail(stack))
        BY DEF Below
      <3>6. QED
        BY <1>2, <1>3, <1>5, <2>1, <3>1, <3>3, <3>4, <3>5 DEF Shape, ForEnd
    <2>4. QED
      BY <1>1, <2>2, <2>3
  <1>8. Untold'
    <2>1. Untold /\ ~Stuck
      BY <1>1 DEF ShareInv, Stuck
    <2>2. QED
      BY <1>1, <1>5, <2>1 DEF Untold, Pending
  <1>9. \A g \in ToSet(stack') : g \in ToSet(stack) \/ FrameInv(g, cold', joined', link')
    BY <1>2, <1>5 DEF FrameInv, Entering
  <1>10. \A g \in ToSet(stack) :
           g.op \in Entering \cup {"ending", "telling"} => g \in ToSet(stack')
    BY <1>5
  <1>11. [Next]_vars
    BY DEF Next
  <1>12. TypeInv'
    BY NotifierType DEF ShareInv
  <1>13. QED
    BY <1>1, <1>5, <1>6, <1>7, <1>8, <1>9, <1>10, <1>11, <1>12, ResetStep

(* A stack whose innermost call tells an end. *)
LEMMA TellsKept ==
  ASSUME stack' \in Seq(Frame), Quiet(stack'), Tells(stack')
  PROVE  Shape' /\ Ruled'
  <1>1. stack' # <<>> /\ Top'.op = "telling"
    BY DEF Tells, Top
  <1>2. Quiet(Below')
    BY <1>1, Decomposed DEF Quiet, Below
  <1>3. QED
    BY <1>1, <1>2 DEF Shape, Ruled, ForEnd, ForZero, Ends

LEMMA ClearKeeps ==
  ASSUME ShareInv, Clear
  PROVE  ShareInv'
  <1> DEFINE f == Call("cleared", {}, None, "call")
  <1>1. /\ stack # <<>> /\ Top.op = "clear"
        /\ connection' = None /\ subject' = None /\ ended' = "no"
        /\ UNCHANGED <<rule, resetting, refCount, cold, hooked, joined, over>>
    BY DEF Clear, LibTurn, Forget
  <1>2. \/ Top.of # None /\ stack' = <<f>> \o Below
        \/ Top.of = None /\ stack' = Below
    BY DEF Clear
  <1>3. f \in Frame /\ f.op = "cleared"
    BY DEF Call, Frame, Ops
  <1> HIDE DEF f
  <1>4. /\ Below \in Seq(Frame) /\ NoClash(Below) /\ Quiet(Below)
        /\ ToSet(stack) = {Top} \cup ToSet(Below)
    BY <1>1, AtTop DEF ShareInv, Shape
  <1>5. /\ resetting = "none"
        /\ \/ Top.of = connection /\ ended = "no" /\ hooked = {}
           \/ Top.of = None /\ ended # "no" /\ rule[ended] # "false"
    BY <1>1 DEF ShareInv, Ruled
  <1>6. /\ \A c \in Observers : link'[c] # "live"
        /\ \A c \in Observers : link[c] = "none" => link'[c] = "none"
    <2>1. ASSUME NEW c \in Observers PROVE link'[c] # "live"
      <3>1. link[c] = "live" => Top.of = c /\ c # None
        BY <1>5, ConstantsOK DEF ShareInv, Connected
      <3>2. QED
        BY <3>1 DEF Clear, ShareInv, TypeInv, TypeOK
    <2>2. ASSUME NEW c \in Observers, link[c] = "none" PROVE link'[c] = "none"
      BY <2>2 DEF Clear, ShareInv, TypeInv, TypeOK
    <2>3. QED
      BY <2>1, <2>2
  <1>7. [Next]_vars
    BY DEF Next
  <1>8. TypeInv'
    BY ClearType DEF ShareInv
  <1>9. \A g \in ToSet(Below) : ~Clash(f, g)
    BY <1>3 DEF Clash, Entering
  <1>10. /\ stack' \in Seq(Frame) /\ NoClash(stack')
         /\ ToSet(Below) \subseteq ToSet(stack')
         /\ \A g \in ToSet(stack') : g \in ToSet(Below) \/ g = f
         /\ Silent(stack') <=> Silent(Below)
    BY <1>2, <1>3, <1>4, <1>9, Pushed
  <1>11. Quiet(stack')
    BY <1>3, <1>4, <1>10 DEF Quiet, AtOnce, Ends
  <1>12. Shape' /\ Ruled'
    <2>1. ~Tells(stack) /\ ~ForEnd(Top)
      BY <1>1 DEF Tells, Top, ForEnd, Ends
    <2>2. \/ Silent(Below)
          \/ Top.of = None /\ Tells(Below)
          \/ /\ Top.of = None /\ Below # <<>>
             /\ Head(Below).op = "notifying" /\ Tells(Tail(Below))
      <3>1. Silent(stack) => Silent(Below)
        BY <1>4 DEF Silent
      <3>2. QED
        BY <1>1, <2>1, <3>1 DEF ShareInv, Shape, Interrupts
    <2>3. CASE Silent(Below)
      BY <1>10, <1>11, <2>3, CalmKept DEF Calm
    <2>4. CASE Top.of = None /\ Tells(Below)
      BY <1>2, <1>10, <1>11, <2>4, TellsKept
    <2>5. CASE /\ Top.of = None /\ Below # <<>>
               /\ Head(Below).op = "notifying" /\ Tells(Tail(Below))
      <3>1. /\ stack' = Below /\ stack' # <<>>
            /\ Top'.op = "notifying" /\ Tells(Below')
        BY <1>2, <2>5 DEF Top, Below
      <3>2. Quiet(Below')
        BY <1>10, <1>11, <3>1, Decomposed DEF Quiet, Below
      <3>3. resetting' = "none"
        BY <1>1, <1>5
      <3>4. QED
        BY <3>1, <3>2, <3>3 DEF Shape, Ruled, Interrupts, ForEnd, ForZero, Ends
    <2>6. QED
      BY <2>2, <2>3, <2>4, <2>5
  <1>13. Frames'
    <2>1. FrameInv(f, cold', joined', link')
      BY <1>3 DEF FrameInv, Immediate, AtOnce, Ends, Entering
    <2>2. QED
      BY <1>1, <1>4, <1>6, <1>7, <1>10, <2>1, FramesKept
  <1>14. Connected'
    BY <1>1, <1>5, <1>6 DEF Connected
  <1>15. Untold'
    BY <1>1 DEF Untold
  <1>16. ASSUME NEW p \in Observers, cold'[p] = "active" PROVE Fed(p)'
    <2>1. Fed(p) /\ p \in hooked'
      BY <1>1, <1>16 DEF ShareInv, AllFed, Fed
    <2>2. ASSUME NEW op \in {"joining", "ending"}, Within(op, p)
          PROVE  Within(op, p)'
      BY <1>1, <1>4, <1>10, <2>2 DEF Within
    <2>3. ASSUME Pending(joined[p]) PROVE Pending(joined[p])'
      BY <1>1, <1>4, <1>10, <2>3 DEF Pending
    <2>4. ended # "no"
      BY <1>1, <1>5, <2>1
    <2>5. ASSUME joined[p] = subject, subject \notin over PROVE Pending(joined[p])
      <3>1. ~Stuck
        BY <1>1 DEF Stuck, AtOnce
      <3>2. QED
        BY <2>4, <2>5, <3>1 DEF ShareInv, Untold
    <2>6. QED
      BY <1>1, <2>1, <2>2, <2>3, <2>5 DEF Fed
  <1>17. QED
    BY <1>8, <1>10, <1>12, <1>13, <1>14, <1>15, <1>16 DEF ShareInv, AllFed

LEMMA ReturnKeeps ==
  ASSUME ShareInv, Return
  PROVE  ShareInv'
  <1>1. /\ stack # <<>> /\ stack' = Below
        /\ \/ Top.op \in {"connected", "left", "cleared"}
           \/ Top.op = "ending" /\ Top.who = {}
           \/ Top.op = "notifying"
        /\ UNCHANGED <<rule, subject, connection, resetting, refCount, ended, cold,
                       hooked, joined, link, over>>
    BY DEF Return, LibTurn
  <1>2. /\ Below \in Seq(Frame) /\ NoClash(Below) /\ Quiet(Below)
        /\ ToSet(stack) = {Top} \cup ToSet(Below)
    BY <1>1, AtTop DEF ShareInv, Shape
  <1>3. [Next]_vars
    BY DEF Next
  <1>4. TypeInv'
    BY ReturnType DEF ShareInv
  <1>5. \A g \in ToSet(stack') : g \in ToSet(stack) \/ FrameInv(g, cold', joined', link')
    BY <1>1, <1>2
  <1>6. CASE Top.op \in {"connected", "left", "cleared"} \/ (Top.op = "ending" /\ Top.who = {})
    <2>1. Calm(stack) /\ Calm(Below)
      BY <1>1, <1>6, CalmTurn DEF Immediate, AtOnce, Ends
    <2>2. Silent(stack) /\ Calm(stack') /\ NoClash(stack') /\ hooked' \subseteq hooked
      BY <1>1, <1>2, <2>1 DEF Calm
    <2>3. ASSUME NEW p \in Observers, cold'[p] = "active"
          PROVE  /\ cold[p] = "active" /\ p \in hooked'
                 /\ \A g \in ToSet(stack) : g.op \in Entering \cup {"ending"} /\ p \in g.who =>
                      \E h \in ToSet(stack') : h.op = g.op /\ p \in h.who
      <3>1. cold[p] = "active" /\ p \in hooked'
        BY <1>1, <2>3 DEF ShareInv, AllFed, Fed
      <3>2. Top.op \notin Entering \cup {"ending"} \/ p \notin Top.who
        BY <1>6 DEF Entering
      <3>3. QED
        BY <1>1, <1>2, <3>1, <3>2
    <2>4. QED
      BY <1>1, <1>3, <1>4, <1>5, <2>2, <2>3, CalmStep
  <1>7. CASE Top.op = "notifying"
    <2>1. stack' \in Seq(Frame) /\ Quiet(stack') /\ NoClash(stack')
      BY <1>1, <1>2
    <2>2. Shape' /\ Ruled'
      <3>1. ~Tells(stack) /\ ~ForEnd(Top)
        BY <1>7 DEF Tells, Top, ForEnd, Ends
      <3>2. Silent(stack) \/ Tells(Below)
        BY <1>1, <1>7, <3>1 DEF ShareInv, Shape
      <3>3. CASE Silent(stack)
        <4>1. Calm(stack')
          BY <1>1, <1>2, <2>1, <3>3 DEF Calm, Silent
        <4>2. QED
          BY <2>1, <4>1, CalmKept
      <3>4. CASE Tells(Below)
        BY <1>1, <2>1, <3>4, TellsKept
      <3>5. QED
        BY <3>2, <3>3, <3>4
    <2>3. \A g \in ToSet(stack) :
            g.op \in Entering \cup {"ending", "telling"} => g \in ToSet(stack')
      BY <1>1, <1>2, <1>7 DEF Entering
    <2>4. stack' # <<>> => Top'.op \notin AtOnce
      BY <2>1, Decomposed DEF Quiet, Top
    <2>5. Untold'
      BY <1>1, <2>3, <2>4, UntoldKept
    <2>6. /\ resetting' = "zero" => ended = "no" /\ hooked = {}
          /\ resetting' = "end" => ended # "no" /\ rule[ended] = "notifier"
      BY <1>1 DEF ShareInv, Connected
    <2>7. QED
      BY <1>1, <1>3, <1>4, <1>5, <2>1, <2>2, <2>3, <2>5, <2>6, ResetStep
  <1>8. QED
    BY <1>1, <1>6, <1>7

-----------------------------------------------------------------------------
LEMMA ShareInit == Init => ShareInv
  <1> SUFFICES ASSUME Init PROVE ShareInv
    OBVIOUS
  <1>1. stack = <<>> /\ ToSet(stack) = {} /\ NoClash(stack)
    BY DEF Init, ToSet, NoClash
  <1>2. TypeInv
    BY TypeInit
  <1>3. Frames /\ Shape /\ Ruled
    BY <1>1 DEF Frames, Shape, Ruled
  <1>4. Connected /\ Untold /\ AllFed
    BY DEF Init, Connected, Untold, AllFed
  <1>5. QED
    BY <1>1, <1>2, <1>3, <1>4 DEF ShareInv

LEMMA ShareNext ==
  ASSUME NotifierReenters = FALSE
  PROVE  ShareInv /\ [Next]_vars => ShareInv'
  <1> SUFFICES ASSUME ShareInv, [Next]_vars PROVE ShareInv'
    OBVIOUS
  <1>1. CASE UNCHANGED vars
    <2>1. TypeInv' /\ NoClash(stack')
      BY <1>1, TypeNext DEF vars, ShareInv
    <2>2. UNCHANGED <<rule, subject, connection, resetting, ended, cold, hooked, joined,
                      link, over, stack, Top, Below>>
      BY <1>1 DEF vars, Top, Below
    <2>3. Frames' /\ Ruled' /\ Connected'
      BY <2>2 DEF ShareInv, Frames, Ruled, Connected
    <2>4. Shape'
      BY <2>2 DEF ShareInv, Shape, Interrupts
    <2>5. Untold' /\ AllFed'
      BY <2>2 DEF ShareInv, Untold, AllFed, Fed, Pending, Stuck, Within
    <2>6. QED
      BY <2>1, <2>3, <2>4, <2>5 DEF ShareInv
  <1>2. CASE Next
    BY <1>2, SubscribeKeeps, JoinKeeps, ConnectorThrowsKeeps, ConnectKeeps,
       CallAbortKeeps, LeaveKeeps, TellOneKeeps, SourceEndsKeeps, TellKeeps,
       ResetAtOnceKeeps, ResetNeverKeeps, FactoryThrowsKeeps, FactoryCalledKeeps,
       NotifierSubscribedKeeps, NotifierEmitsKeeps, ClearKeeps, CallbackEndsKeeps,
       ReturnKeeps DEF Next
  <1>3. QED
    BY <1>1, <1>2

LEMMA ShareInvariant ==
  ASSUME NotifierReenters = FALSE
  PROVE  Spec => []ShareInv
  BY ShareInit, ShareNext, PTL DEF Spec

(* The source has one live connection at most, and it is the one that a     *)
(* reset or the last observer aborts, whatever callbacks subscribe, leave   *)
(* or end the source while another is being made or taken down.             *)
THEOREM TheOnlyConnection ==
  ASSUME NotifierReenters = FALSE
  PROVE  Spec => []OneConnection
  <1>1. ShareInv => OneConnection
    BY DEF ShareInv, Connected, OneConnection
  <1>2. QED
    BY <1>1, ShareInvariant, PTL

(* When no call is in progress, every subscribed observer is fed, or waits  *)
(* for an end that a notifier factory kept from the Subject by throwing.    *)
THEOREM ObserversFed ==
  ASSUME NotifierReenters = FALSE
  PROVE  Spec => []ActiveObserversFed
  <1>1. ASSUME ShareInv PROVE ActiveObserversFed
    <2>1. SUFFICES ASSUME stack = <<>>, NEW o \in Observers, cold[o] = "active"
                   PROVE  \E c \in Observers :
                            /\ joined[c] = joined[o]
                            /\ \/ link[c] = "live" /\ subject = joined[o]
                               \/ /\ link[c] = "ended" /\ joined[o] \notin over
                                  /\ \E kind \in Ends : rule[kind] = "notifier"
      BY DEF ActiveObserversFed
    <2>2. ToSet(stack) = {}
      BY <2>1 DEF ToSet
    <2>3. joined[o] = subject /\ subject \notin over /\ connection # None
      BY <1>1, <2>1, <2>2 DEF ShareInv, AllFed, Fed, Within, Pending
    <2>4. /\ connection \in Observers /\ joined[connection] = joined[o]
          /\ link[connection] = IF ended = "no" THEN "live" ELSE "ended"
      BY <1>1, <2>3 DEF ShareInv, Connected, TypeInv, TypeOK
    <2>5. ASSUME ended # "no" PROVE ended \in Ends /\ rule[ended] = "notifier"
      BY <1>1, <2>2, <2>3, <2>5 DEF ShareInv, Untold, Pending, Stuck, TypeInv, TypeOK
    <2>6. QED
      BY <2>3, <2>4, <2>5
  <1>2. QED
    BY <1>1, ShareInvariant, PTL

(* No connection is aborted while an observer of its Subject is active: the *)
(* decision to reset does not go stale before the reset.                    *)
THEOREM NotAbortedEarly ==
  ASSUME NotifierReenters = FALSE
  PROVE  Spec => KeptForTheLast
  <1>1. ASSUME ShareInv, [Next]_vars,
               NEW c \in Observers, link[c] = "live", link'[c] = "aborted",
               NEW o \in Observers, cold[o] = "active"
        PROVE  FALSE
    <2>1. Clear
      <3>1. ASSUME NEW p \in Observers,
                   \/ \E status \in SubscribedAs : Subscribe(p, status)
                   \/ Join(p) \/ ConnectorThrows(p)
                   \/ CallAbort(p) \/ Leave(p) \/ TellOne(p)
            PROVE  link' = link
        BY <3>1 DEF Subscribe, Join, ConnectorThrows, CallAbort, Leave, TellOne
      <3>2. ASSUME NEW p \in Observers,
                   Connect(p) \/ \E kind \in Ends : SourceEnds(p, kind)
            PROVE  link'[c] # "aborted"
        BY <1>1, <3>2 DEF Connect, SourceEnds, ShareInv, TypeInv, TypeOK
      <3>3. ASSUME \/ Tell \/ ResetAtOnce \/ ResetNever \/ FactoryThrows \/ FactoryCalled
                   \/ NotifierSubscribed \/ NotifierEmits \/ CallbackEnds \/ Return
            PROVE  link' = link
        BY <3>3 DEF Tell, ResetAtOnce, ResetNever, FactoryThrows, FactoryCalled,
             NotifierSubscribed, NotifierEmits, CallbackEnds, Return
      <3>4. ASSUME UNCHANGED vars PROVE link' = link
        BY <3>4 DEF vars
      <3>5. QED
        BY <1>1, <3>1, <3>2, <3>3, <3>4 DEF Next
    <2>2. stack # <<>> /\ Top.op = "clear" /\ Top.of = c
      BY <1>1, <2>1 DEF Clear, LibTurn, ShareInv, TypeInv, TypeOK
    <2>3. hooked = {}
      BY <1>1, <2>2, ConstantsOK DEF ShareInv, Ruled
    <2>4. QED
      BY <1>1, <2>3 DEF ShareInv, AllFed, Fed
  <1>2. ASSUME ShareInv, [Next]_vars
        PROVE  [\A c \in Observers :
                  link[c] = "live" /\ link'[c] = "aborted" =>
                    \A o \in Observers : joined[o] = joined[c] => cold[o] # "active"]_vars
    BY <1>1, <1>2
  <1>3. QED
    BY <1>2, ShareInvariant, PTL DEF Spec, KeptForTheLast

(* What a later observer gets of an end that is retained: nothing takes the *)
(* Subject that holds it away.                                              *)
THEOREM RetainedEnd ==
  ASSUME NotifierReenters = FALSE
  PROVE  Spec => RetainedEndStays
  <1>1. ASSUME ShareInv, Next, ended # "no", rule[ended] = "false"
        PROVE  subject' = subject /\ ended' = ended
    <2>1. connection # None /\ subject # None
      BY <1>1, ConstantsOK DEF ShareInv, Connected
    <2>2. \A c \in Observers : link[c] # "live"
      BY <1>1 DEF ShareInv, Connected
    <2>3. ~Clear
      BY <1>1 DEF Clear, LibTurn, ShareInv, Ruled
    <2>4. ASSUME NEW p \in Observers,
                 \/ \E status \in SubscribedAs : Subscribe(p, status)
                 \/ Join(p) \/ ConnectorThrows(p) \/ Connect(p)
                 \/ CallAbort(p) \/ Leave(p) \/ TellOne(p)
                 \/ \E kind \in Ends : SourceEnds(p, kind)
          PROVE  subject' = subject /\ ended' = ended
      BY <2>1, <2>2, <2>4 DEF Subscribe, Join, ConnectorThrows, Connect, CallAbort, Leave,
           TellOne, SourceEnds
    <2>5. ASSUME \/ Tell \/ ResetAtOnce \/ ResetNever \/ FactoryThrows \/ FactoryCalled
                 \/ NotifierSubscribed \/ NotifierEmits \/ CallbackEnds \/ Return
          PROVE  subject' = subject /\ ended' = ended
      BY <2>5 DEF Tell, ResetAtOnce, ResetNever, FactoryThrows, FactoryCalled,
           NotifierSubscribed, NotifierEmits, CallbackEnds, Return
    <2>6. QED
      BY <1>1, <2>3, <2>4, <2>5 DEF Next
  <1>2. ASSUME ShareInv, [Next]_vars
        PROVE  [ended # "no" /\ rule[ended] = "false" =>
                  subject' = subject /\ ended' = ended]_vars
    BY <1>1, <1>2
  <1>3. QED
    BY <1>2, ShareInvariant, PTL DEF Spec, RetainedEndStays

-----------------------------------------------------------------------------
(* The connection does not outlive the observers either, where none of them *)
(* subscribes with a signal that is aborted already.                        *)

Live == \E c \in Observers : link[c] = "live"

(* Who is counted but not active is about to be uncounted. *)
Leaving == \A o \in hooked : cold[o] = "active" \/ Within("leaving", o)

(* With resetOnRefCountZero, the last to leave resets at once. *)
LastGone ==
  rule["zero"] = "true" /\ hooked = {} /\ Live =>
    stack # <<>> /\ Top.op \in {"zero", "clear"}

LEMMA PushedOn ==
  ASSUME NEW S, NEW q \in Seq(S), NEW f \in S, stack' = <<f>> \o q
  PROVE  /\ stack' # <<>> /\ Top' = f
         /\ ToSet(stack') = {f} \cup ToSet(q)
  BY PushSet, PushFacts DEF Top

LEMMA PushedAny ==
  ASSUME NEW q \in Seq(Frame), NEW f, stack' = <<f>> \o q
  PROVE  /\ stack' # <<>> /\ Top' = f
         /\ ToSet(stack') = {f} \cup ToSet(q)
  <1> DEFINE S == Frame \cup {f}
  <1>1. q \in Seq(S) /\ f \in S
    OBVIOUS
  <1> HIDE DEF S
  <1>2. QED
    BY <1>1, PushedOn

LEMMA PushedTwoAny ==
  ASSUME NEW q \in Seq(Frame), NEW f, NEW g, stack' = <<f, g>> \o q
  PROVE  /\ stack' # <<>> /\ Top' = f
         /\ ToSet(stack') = {f, g} \cup ToSet(q)
  <1> DEFINE S == Frame \cup {f, g}
             r == <<g>> \o q
  <1>1. q \in Seq(S) /\ f \in S /\ g \in S
    OBVIOUS
  <1> HIDE DEF S
  <1>2. r \in Seq(S) /\ stack' = <<f>> \o r
    BY <1>1, PushTwoFacts
  <1>3. ToSet(r) = {g} \cup ToSet(q)
    BY <1>1, PushSet
  <1> HIDE DEF r
  <1>4. /\ stack' # <<>> /\ Top' = f
        /\ ToSet(stack') = {f} \cup ToSet(r)
    BY <1>1, <1>2, PushedOn
  <1>5. QED
    BY <1>3, <1>4

LEMMA StepsOn ==
  ASSUME NEW q \in Seq(Frame),
         \/ \E f, g : stack' = <<f, g>> \o q
         \/ \E f : stack' = <<f>> \o q
         \/ stack' = q
  PROVE  ToSet(q) \subseteq ToSet(stack')
  <1>1. ASSUME NEW f, NEW g, stack' = <<f, g>> \o q PROVE ToSet(q) \subseteq ToSet(stack')
    BY <1>1, PushedTwoAny
  <1>2. ASSUME NEW f, stack' = <<f>> \o q PROVE ToSet(q) \subseteq ToSet(stack')
    BY <1>2, PushedAny
  <1>3. QED
    BY <1>1, <1>2

LEMMA LeavingStep ==
  ASSUME ShareInv, Leaving, hooked' = hooked, cold' = cold,
         \A f \in ToSet(stack) : f.op = "leaving" => f \in ToSet(stack')
  PROVE  Leaving'
  BY DEF Leaving, Within

LEMMA LeavingKept ==
  ASSUME NotifierReenters = FALSE, SubscribedAs = {"active"}, ShareInv, Leaving, Next
  PROVE  Leaving'
  <1>1. stack \in Seq(Frame) /\ hooked \subseteq Observers
    BY DEF ShareInv, TypeInv, TypeOK
  <1>2. ASSUME stack # <<>>
        PROVE  Below \in Seq(Frame) /\ ToSet(stack) = {Top} \cup ToSet(Below)
    BY <1>2, AtTop
  <1>3. ASSUME NEW o \in Observers, NEW status \in SubscribedAs, Subscribe(o, status)
        PROVE  Leaving'
    <2>1. ToSet(stack) \subseteq ToSet(stack')
      BY <1>1, <1>3, PushedAny DEF Subscribe
    <2>2. \A p \in Observers : cold'[p] = IF p = o THEN "active" ELSE cold[p]
      BY <1>3 DEF Subscribe, ShareInv, TypeInv, TypeOK
    <2>3. hooked' = hooked \cup {o}
      BY <1>3 DEF Subscribe
    <2>4. QED
      BY <1>1, <2>1, <2>2, <2>3 DEF Leaving, Within
  <1>4. ASSUME NEW o \in Observers,
               Join(o) \/ ConnectorThrows(o) \/ TellOne(o) \/ CallAbort(o)
        PROVE  Leaving'
    <2>1. CASE cold' = cold
      <3>1. /\ stack # <<>> /\ Top.op # "leaving"
            /\ hooked' = hooked /\ ToSet(Below) \subseteq ToSet(stack')
        <4>1. CASE CallAbort(o)
          BY <2>1, <4>1 DEF CallAbort, ShareInv, TypeInv, TypeOK
        <4>2. CASE Join(o) \/ ConnectorThrows(o) \/ TellOne(o)
          <5>1. /\ stack # <<>> /\ Top.op # "leaving" /\ hooked' = hooked
                /\ \/ \E f, g : stack' = <<f, g>> \o Below
                   \/ \E f : stack' = <<f>> \o Below
                   \/ stack' = Below
            BY <4>2 DEF Join, ConnectorThrows, TellOne, LibTurn
          <5>2. ToSet(Below) \subseteq ToSet(stack')
            BY <1>2, <5>1, StepsOn
          <5>3. QED
            BY <5>1, <5>2
        <4>3. QED
          BY <1>4, <4>1, <4>2
      <3>2. QED
        BY <1>2, <2>1, <3>1, LeavingStep
    <2>2. CASE cold' # cold
      <3>1. /\ hooked' = hooked
            /\ \A f \in ToSet(stack) : f.op = "leaving" => f \in ToSet(stack')
            /\ \E f \in ToSet(stack') : f.op = "leaving" /\ f.who = {o}
        <4>1. CASE CallAbort(o)
          <5>1. /\ hooked' = hooked
                /\ stack' = <<Call("leaving", {o}, None, "call")>> \o stack
            BY <4>1 DEF CallAbort
          <5>2. ToSet(stack') = {Call("leaving", {o}, None, "call")} \cup ToSet(stack)
            BY <1>1, <5>1, PushedAny
          <5>3. /\ Call("leaving", {o}, None, "call") \in ToSet(stack')
                /\ Call("leaving", {o}, None, "call").op = "leaving"
                /\ Call("leaving", {o}, None, "call").who = {o}
            BY <5>2 DEF Call
          <5>4. QED
            BY <5>1, <5>2, <5>3
        <4>2. CASE Join(o) \/ ConnectorThrows(o) \/ TellOne(o)
          <5>1. /\ stack # <<>> /\ Top.op # "leaving" /\ hooked' = hooked
                /\ \/ \E g : stack' = <<Call("leaving", {o}, None, "run"), g>> \o Below
                   \/ stack' = <<Call("leaving", {o}, None, "run")>> \o Below
            BY <2>2, <4>2 DEF Join, ConnectorThrows, TellOne, LibTurn
          <5>2. /\ ToSet(Below) \subseteq ToSet(stack')
                /\ Call("leaving", {o}, None, "run") \in ToSet(stack')
            <6>1. CASE \E g : stack' = <<Call("leaving", {o}, None, "run"), g>> \o Below
              BY <1>2, <5>1, <6>1, PushedTwoAny
            <6>2. CASE stack' = <<Call("leaving", {o}, None, "run")>> \o Below
              BY <1>2, <5>1, <6>2, PushedAny
            <6>3. QED
              BY <5>1, <6>1, <6>2
          <5>3. QED
            BY <1>2, <5>1, <5>2 DEF Call
        <4>3. QED
          BY <1>4, <4>1, <4>2
      <3>2. \A p \in Observers : p # o => cold'[p] = cold[p]
        BY <1>4 DEF Join, ConnectorThrows, TellOne, CallAbort, ShareInv, TypeInv, TypeOK
      <3>3. QED
        BY <1>1, <3>1, <3>2 DEF Leaving, Within
    <2>3. QED
      BY <2>1, <2>2
  <1>5. ASSUME NEW o \in Observers, Leave(o)
        PROVE  Leaving'
    <2>1. /\ stack # <<>> /\ Top.op = "leaving" /\ o \in Top.who
          /\ cold' = cold /\ hooked' = hooked \ {o}
      BY <1>5 DEF Leave, LibTurn
    <2>2. \A p \in Top.who : p = o
      BY <2>1, AtTop DEF FrameInv
    <2>3. ToSet(Below) \subseteq ToSet(stack')
      <3>1. \/ \E f, g : stack' = <<f, g>> \o Below
            \/ \E f : stack' = <<f>> \o Below
        BY <1>5 DEF Leave
      <3>2. QED
        BY <1>2, <2>1, <3>1, StepsOn
    <2>4. QED
      BY <1>2, <2>1, <2>2, <2>3 DEF Leaving, Within
  <1>6. ASSUME (\E c \in Observers, kind \in Ends : SourceEnds(c, kind)) \/ NotifierEmits
        PROVE  Leaving'
    <2>1. /\ hooked' = hooked /\ cold' = cold
          /\ (\E f, g : stack' = <<f, g>> \o stack) \/ (\E f : stack' = <<f>> \o stack)
      BY <1>6 DEF SourceEnds, NotifierEmits
    <2>2. ToSet(stack) \subseteq ToSet(stack')
      BY <1>1, <2>1, StepsOn
    <2>3. QED
      BY <2>1, <2>2, LeavingStep
  <1>7. ASSUME FactoryThrows
        PROVE  Leaving'
    <2>1. /\ hooked' = hooked /\ cold' = cold /\ stack # <<>>
          /\ \/ Top.op = "zero" /\ stack' = Below
             \/ Top.op \in Ends /\ stack' = Tail(Below)
      BY <1>7 DEF FactoryThrows, Ruling, LibTurn, Ends
    <2>2. Top.op \in Ends => /\ ToSet(Below) = {Head(Below)} \cup ToSet(Tail(Below))
                             /\ Head(Below).op = "telling"
      BY <2>1, RulingFacts DEF ForEnd, Tells
    <2>3. \A f \in ToSet(stack) : f.op = "leaving" => f \in ToSet(stack')
      BY <1>2, <2>1, <2>2 DEF Ends
    <2>4. QED
      BY <2>1, <2>3, LeavingStep
  <1>8. ASSUME \/ \E o \in Observers : Connect(o)
               \/ Tell \/ ResetAtOnce \/ ResetNever \/ FactoryCalled
               \/ NotifierSubscribed \/ Clear \/ Return
        PROVE  Leaving'
    <2>1. /\ hooked' = hooked /\ cold' = cold
          /\ stack # <<>> /\ Top.op # "leaving"
          /\ stack' = Below \/ \E f : stack' = <<f>> \o Below
      BY <1>8 DEF Connect, Tell, ResetAtOnce, ResetNever, FactoryCalled, NotifierSubscribed,
           Clear, Return, Ruling, LibTurn, Ends
    <2>2. ToSet(Below) \subseteq ToSet(stack')
      BY <1>2, <2>1, StepsOn
    <2>3. QED
      BY <1>2, <2>1, <2>2, LeavingStep
  <1>9. ASSUME CallbackEnds
        PROVE  Leaving'
    <2>1. /\ hooked' = hooked /\ cold' = cold /\ stack # <<>>
          /\ stack' = <<[Top EXCEPT !.at = "run"]>> \o Below
      BY <1>9 DEF CallbackEnds
    <2>2. ToSet(stack') = {[Top EXCEPT !.at = "run"]} \cup ToSet(Below)
      BY <1>2, <2>1, PushedAny
    <2>3. /\ [Top EXCEPT !.at = "run"].op = Top.op
          /\ [Top EXCEPT !.at = "run"].who = Top.who
      BY <2>1, AtTop DEF Frame
    <2>4. QED
      BY <1>2, <2>1, <2>2, <2>3 DEF Leaving, Within
  <1>10. QED
    BY <1>3, <1>4, <1>5, <1>6, <1>7, <1>8, <1>9 DEF Next

LEMMA LastKept ==
  ASSUME LastGone, UNCHANGED <<rule, hooked>>, Live' => Live,
         stack # <<>> /\ Top.op \in {"zero", "clear"} => rule["zero"] # "true"
  PROVE  LastGone'
  BY DEF LastGone

LEMMA LastGoneKept ==
  ASSUME NotifierReenters = FALSE, ShareInv, LastGone, Next
  PROVE  LastGone'
  <1>1. stack \in Seq(Frame)
    BY DEF ShareInv, TypeInv, TypeOK
  <1>2. ASSUME stack # <<>>
        PROVE  Below \in Seq(Frame)
    BY <1>2, AtTop
  <1>3. UserTurn /\ stack # <<>> => Top.op \notin {"zero", "clear"}
    BY CalmTurn DEF Immediate, AtOnce
  <1>4. ASSUME NEW o \in Observers, NEW status \in SubscribedAs, Subscribe(o, status)
        PROVE  LastGone'
    BY <1>4 DEF Subscribe, LastGone
  <1>5. ASSUME \/ \E o \in Observers : \/ Join(o) \/ ConnectorThrows(o)
                                        \/ TellOne(o) \/ CallAbort(o)
               \/ Tell \/ NotifierSubscribed \/ Return
        PROVE  LastGone'
    <2>1. /\ UNCHANGED <<rule, hooked, link>>
          /\ UserTurn \/ Top.op \notin {"zero", "clear"}
      BY <1>5 DEF Join, ConnectorThrows, TellOne, CallAbort, Tell, NotifierSubscribed,
           Return, LibTurn
    <2>2. QED
      BY <1>3, <2>1, LastKept DEF Live
  <1>6. ASSUME CallbackEnds
        PROVE  LastGone'
    <2>1. UNCHANGED <<rule, hooked, link>> /\ stack # <<>> /\ Top.at = "call"
      BY <1>6 DEF CallbackEnds
    <2>2. Top.op \notin {"zero", "clear"}
      BY <2>1, AtTop DEF FrameInv, Immediate, AtOnce
    <2>3. QED
      BY <2>1, <2>2, LastKept DEF Live
  <1>7. ASSUME ResetNever \/ FactoryThrows \/ FactoryCalled
        PROVE  LastGone'
    <2>1. /\ UNCHANGED <<rule, hooked, link>>
          /\ Top.op \in Ends \/ (Top.op = "zero" /\ rule["zero"] # "true")
      BY <1>7 DEF ResetNever, FactoryThrows, FactoryCalled, Ruling, LibTurn
    <2>2. QED
      BY <2>1, LastKept DEF Live, Ends
  <1>8. ASSUME NEW o \in Observers, Connect(o)
        PROVE  LastGone'
    <2>1. /\ stack # <<>> /\ Top.op = "connecting" /\ o \in Top.who
          /\ UNCHANGED <<rule, hooked>>
      BY <1>8 DEF Connect, LibTurn
    <2>2. CASE Connects(o)
      BY <2>1, <2>2, Connecting DEF Connects, LastGone
    <2>3. CASE ~Connects(o)
      <3>1. UNCHANGED link
        BY <1>8, <2>3 DEF Connect
      <3>2. QED
        BY <2>1, <3>1, LastKept DEF Live
    <2>4. QED
      BY <2>2, <2>3
  <1>9. ASSUME NEW c \in Observers, NEW kind \in Ends, SourceEnds(c, kind)
        PROVE  LastGone'
    BY <1>3, <1>9, LastKept DEF SourceEnds, Live
  <1>10. ASSUME NEW o \in Observers, Leave(o)
         PROVE  LastGone'
    <2>1. /\ stack # <<>> /\ Top.op = "leaving"
          /\ UNCHANGED <<rule, link>>
      BY <1>10 DEF Leave, LibTurn
    <2>2. CASE o \in hooked /\ LastLeaves
      <3>1. \E g : stack' = <<Call("zero", {}, None, "run"), g>> \o Below
        BY <1>10, <2>2 DEF Leave
      <3>2. stack' # <<>> /\ Top' = Call("zero", {}, None, "run")
        BY <1>2, <2>1, <3>1, PushedTwoAny DEF Top
      <3>3. QED
        BY <3>2 DEF LastGone, Call
    <2>3. CASE o \in hooked /\ ~LastLeaves
      <3>1. hooked' = hooked \ {o}
        BY <1>10, <2>3 DEF Leave
      <3>2. CASE ended # "no"
        BY <2>1, <3>2 DEF ShareInv, Connected, LastGone, Live
      <3>3. CASE ended = "no"
        <4>1. Cardinality(hooked) # 1
          BY <2>3, <3>3 DEF LastLeaves, ShareInv, TypeInv, TypeOK
        <4>2. hooked # {o}
          BY <4>1, FS_Singleton
        <4>3. QED
          BY <2>3, <3>1, <4>2 DEF LastGone
      <3>4. QED
        BY <3>2, <3>3
    <2>4. CASE o \notin hooked
      <3>1. UNCHANGED hooked
        BY <1>10, <2>4 DEF Leave
      <3>2. QED
        BY <2>1, <3>1, LastKept DEF Live
    <2>5. QED
      BY <2>2, <2>3, <2>4
  <1>11. ASSUME ResetAtOnce \/ NotifierEmits
         PROVE  LastGone'
    <2>1. \E of, at : \/ stack # <<>> /\ stack' = <<Call("clear", {}, of, at)>> \o Below
                      \/ stack' = <<Call("clear", {}, of, at)>> \o stack
      BY <1>11 DEF ResetAtOnce, NotifierEmits, Ruling, LibTurn
    <2>2. stack' # <<>> /\ \E of, at : Top' = Call("clear", {}, of, at)
      BY <1>1, <1>2, <2>1, PushedAny DEF Top
    <2>3. QED
      BY <2>2 DEF LastGone, Call
  <1>12. ASSUME Clear
         PROVE  LastGone'
    <2>1. ShareInv' /\ ended' = "no" /\ connection' = None
      BY <1>12, ClearKeeps DEF Clear, Forget
    <2>2. ~Live'
      BY <2>1, ConstantsOK DEF ShareInv, Connected, Live
    <2>3. QED
      BY <2>2 DEF LastGone
  <1>13. QED
    BY <1>4, <1>5, <1>6, <1>7, <1>8, <1>9, <1>10, <1>11, <1>12 DEF Next

(* With resetOnRefCountZero, no connection outlives the observers, whatever *)
(* the order in which they leave and the source ends, and whichever of      *)
(* their callbacks subscribes again.                                        *)
THEOREM ReleasedByTheLast ==
  ASSUME NotifierReenters = FALSE, SubscribedAs = {"active"}
  PROVE  Spec => []ReleasedWithTheLast
  <1> DEFINE Inv == ShareInv /\ Leaving /\ LastGone
  <1>1. Init => Inv
    BY ShareInit DEF Init, Leaving, LastGone, Live
  <1>2. ASSUME Inv, [Next]_vars PROVE Inv'
    <2>1. ShareInv'
      BY <1>2, ShareNext
    <2>2. CASE Next
      BY <1>2, <2>1, <2>2, LeavingKept, LastGoneKept
    <2>3. CASE UNCHANGED vars
      <3>1. UNCHANGED <<rule, cold, hooked, link, stack, Top>>
        BY <2>3 DEF vars, Top
      <3>2. Leaving' /\ LastGone'
        BY <1>2, <3>1 DEF Leaving, LastGone, Live, Within
      <3>3. QED
        BY <2>1, <3>2
    <2>4. QED
      BY <1>2, <2>2, <2>3
  <1>3. ASSUME Inv PROVE ReleasedWithTheLast
    <2>1. SUFFICES ASSUME stack = <<>>, rule["zero"] = "true",
                          \A o \in Observers : cold[o] # "active"
                   PROVE  ~Live
      BY DEF ReleasedWithTheLast, Live
    <2>2. ToSet(stack) = {} /\ hooked \subseteq Observers
      BY <1>3, <2>1 DEF ToSet, ShareInv, TypeInv, TypeOK
    <2>3. hooked = {}
      BY <1>3, <2>1, <2>2 DEF Leaving, Within
    <2>4. QED
      BY <1>3, <2>1, <2>3 DEF LastGone
  <1> HIDE DEF Inv
  <1>4. QED
    BY <1>1, <1>2, <1>3, PTL DEF Spec
=============================================================================
