-------------------- MODULE PerSubscriptionSubject_proof --------------------
(***************************************************************************)
(* behaviorSubject() and replaySubject(), for any observers, size, values   *)
(* and depth: the buffer is the newest values, an observer is given each    *)
(* value it is due exactly once, the end reaches everyone, and whoever has  *)
(* left hears nothing more.                                                 *)
(***************************************************************************)
EXTENDS PerSubscriptionSubject, FiniteSetTheorems, TLAPS

(* What the model's parameters are: sizes and bounds.                       *)
ParametersOK == Size \in Nat /\ MaxValues \in Nat

-----------------------------------------------------------------------------
(* The invariant.                                                           *)

Once(q) == \A i, j \in 1 .. Len(q) : q[i] = q[j] => i = j

(* A call in progress, when e values have been accepted and the observers'  *)
(* subscribers are as in c.                                                 *)
FrameOK(f, e, c) ==
  /\ f \in Frame
  /\ f.replay \in Seq(0 .. e)
  /\ Once(f.replay)
  /\ f.op = "next" => Len(f.replay) = 1
  /\ f.op \in {"setup", "abort"} => \E o \in Observers : f.who = {o}
  /\ \A o \in f.who : c[o] # "new" /\ (f.op = "abort" => c[o] = "cancelled")

FramesOK(s, e, c) == \A i \in 1 .. Len(s) : FrameOK(s[i], e, c)

(* Nothing is known of an observer that has not subscribed yet.             *)
Strangers == \A o \in Observers : cold[o] = "new" => o \notin hooked /\ received[o] = <<>>

ToldAreOver == \A o \in Observers : cold[o] # "ended" => told[o] = 0

TypeInv == TypeOK /\ FramesOK(stack, emitted, cold) /\ Strangers /\ ToldAreOver

(* The buffer of a replaySubject is the newest values; a behaviorSubject    *)
(* has one.                                                                 *)
Retains == BufferIsNewest /\ (kind = "behavior" => Len(buffer) = 1)

(* The values that f has yet to give to o.                                  *)
Pending(f, o) ==
  IF f.op \in {"setup", "next"} /\ o \in f.who THEN ToSet(f.replay) ELSE {}

(* What o is due (d) is what it was given (r), once, and what the calls in   *)
(* progress (s) have yet to give it, each something else.                   *)
Balanced(o, s, r, d) ==
  /\ Once(r)
  /\ \A i \in 1 .. Len(r) : r[i] \in d
  /\ \A i \in 1 .. Len(s) : Pending(s[i], o) \subseteq d
  /\ \A i \in 1 .. Len(s), j \in 1 .. Len(r) : r[j] \notin Pending(s[i], o)
  /\ \A i, j \in 1 .. Len(s) : i # j => Pending(s[i], o) \cap Pending(s[j], o) = {}
  /\ \A v \in d : \/ \E i \in 1 .. Len(r) : r[i] = v
                  \/ \E i \in 1 .. Len(s) : v \in Pending(s[i], o)

Fed == \A o \in Observers : cold[o] = "active" => Balanced(o, stack, received[o], due[o])

(* Who has subscribed to a replaySubject gets what it emits from now on.    *)
Joined ==
  \A o \in Observers :
    cold[o] = "active" /\ kind = "replay" /\ state = "active" => o \in fanout

(* The call f leads o to the fan-out or to the end.                         *)
Leads(f, o) == f.op \in {"setup", "end"} /\ o \in f.who

Led(o, s) == \E i \in 1 .. Len(s) : Leads(s[i], o)

(* An active observer is in the fan-out, or a call in progress is about to  *)
(* put it there or to tell it of the end; after the end there is no fan-out. *)
Awaited ==
  /\ state # "active" => fanout = {}
  /\ \A o \in Observers : cold[o] = "active" => o \in fanout \/ Led(o, stack)

SubjectInv == TypeInv /\ Retains /\ Fed /\ Joined /\ Awaited

-----------------------------------------------------------------------------
(* Sequences.                                                               *)

LEMMA SeqGrows ==
  ASSUME NEW S, NEW T, S \subseteq T, NEW q \in Seq(S)
  PROVE  q \in Seq(T)
  OBVIOUS

LEMMA AppendFacts ==
  ASSUME NEW S, NEW q \in Seq(S), NEW e \in S
  PROVE  /\ Append(q, e) \in Seq(S)
         /\ Len(Append(q, e)) = Len(q) + 1
         /\ Len(q) \in Nat
         /\ \A i \in 1 .. Len(q) : Append(q, e)[i] = q[i]
         /\ Append(q, e)[Len(q) + 1] = e
  OBVIOUS

LEMMA PopFacts ==
  ASSUME NEW S, NEW q \in Seq(S), q # <<>>
  PROVE  /\ Head(q) \in S /\ Head(q) = q[1]
         /\ Tail(q) \in Seq(S)
         /\ Len(q) \in Nat \ {0}
         /\ Len(Tail(q)) = Len(q) - 1
         /\ \A i \in 1 .. Len(q) - 1 : Tail(q)[i] = q[i + 1]
  OBVIOUS

LEMMA OneIsSome ==
  ASSUME NEW q, Len(q) = 1
  PROVE  q # <<>>
  <1>1. Len(<<>>) = 0
    OBVIOUS
  <1>2. QED
    BY <1>1

LEMMA ToSetIs ==
  ASSUME NEW S, NEW q \in Seq(S)
  PROVE  /\ ToSet(q) \subseteq S
         /\ \A i \in 1 .. Len(q) : q[i] \in ToSet(q)
         /\ \A v \in ToSet(q) : \E i \in 1 .. Len(q) : v = q[i]
  BY DEF ToSet

(* What has each of its elements once has as many as their set.             *)
LEMMA OnceCounted ==
  ASSUME NEW S, NEW q \in Seq(S), Once(q)
  PROVE  Len(q) = Cardinality(ToSet(q))
  <1>1. Len(q) \in Nat /\ q \in [1 .. Len(q) -> S] /\ DOMAIN q = 1 .. Len(q)
    OBVIOUS
  <1>2. q \in [1 .. Len(q) -> ToSet(q)]
    BY <1>1 DEF ToSet
  <1>3. q \in Bijection(1 .. Len(q), ToSet(q))
    <2>1. \A a, b \in 1 .. Len(q) : q[a] = q[b] => a = b
      BY DEF Once
    <2>2. \A t \in ToSet(q) : \E s \in 1 .. Len(q) : q[s] = t
      BY <1>1 DEF ToSet
    <2>3. QED
      BY <1>1, <1>2, <2>1, <2>2 DEF Bijection, Injection, Surjection, IsInjective
  <1>4. ExistsBijection(1 .. Len(q), ToSet(q))
    BY <1>3 DEF ExistsBijection
  <1>5. QED
    BY <1>1, <1>4, FS_CountingElements

-----------------------------------------------------------------------------
(* The stack: pushing a call, replacing the innermost one, returning.       *)

Pushed(s, f, t) ==
  /\ t \in Seq(Frame) /\ Len(s) \in Nat /\ Len(t) = Len(s) + 1
  /\ t[1] = f
  /\ \A i \in 1 .. Len(s) : t[i + 1] = s[i]

Replaced(s, g, t) ==
  /\ t \in Seq(Frame) /\ Len(s) \in Nat \ {0} /\ Len(t) = Len(s)
  /\ t[1] = g
  /\ \A i \in 2 .. Len(s) : t[i] = s[i]

Popped(s, t) ==
  /\ t \in Seq(Frame) /\ Len(s) \in Nat \ {0} /\ Len(t) = Len(s) - 1
  /\ \A i \in 1 .. Len(t) : t[i] = s[i + 1]

LEMMA PushStack ==
  ASSUME NEW f \in Frame, stack \in Seq(Frame), Push(f)
  PROVE  Pushed(stack, f, stack')
  BY DEF Push, Pushed

LEMMA ReplaceStack ==
  ASSUME NEW g \in Frame, stack \in Seq(Frame), stack # <<>>, Replace(g)
  PROVE  Replaced(stack, g, stack')
  <1>1. Tail(stack) \in Seq(Frame) /\ Len(stack) \in Nat \ {0}
        /\ Len(Tail(stack)) = Len(stack) - 1
        /\ \A i \in 1 .. Len(stack) - 1 : Tail(stack)[i] = stack[i + 1]
    BY PopFacts
  <1>2. stack' = <<g>> \o Tail(stack)
    BY DEF Replace
  <1>3. /\ stack' \in Seq(Frame) /\ Len(stack') = Len(stack) /\ stack'[1] = g
        /\ \A i \in 2 .. Len(stack) : stack'[i] = Tail(stack)[i - 1]
    BY <1>1, <1>2
  <1>4. \A i \in 2 .. Len(stack) : stack'[i] = stack[i]
    BY <1>1, <1>3
  <1>5. QED
    BY <1>1, <1>3, <1>4 DEF Replaced

LEMMA PopStack ==
  ASSUME stack \in Seq(Frame), stack # <<>>, Pop
  PROVE  Popped(stack, stack')
  BY PopFacts DEF Pop, Popped

-----------------------------------------------------------------------------
(* What the three do to the calls in progress...                            *)

(* Calls in progress stay what they are while values are accepted and       *)
(* subscribers go on: none is new again, none that is cancelled is not.     *)
Onward(e, c, e2, c2) ==
  /\ e \in Nat /\ e2 \in Nat /\ e <= e2
  /\ \A o \in Observers : (c2[o] = "new" => c[o] = "new")
                          /\ (c[o] = "cancelled" => c2[o] = "cancelled")

LEMMA FrameStays ==
  ASSUME NEW f, NEW e, NEW c, NEW e2, NEW c2, FrameOK(f, e, c), Onward(e, c, e2, c2)
  PROVE  FrameOK(f, e2, c2)
  <1>1. f.replay \in Seq(0 .. e2)
    <2>1. 0 .. e \subseteq 0 .. e2
      BY DEF Onward
    <2>2. QED
      BY <2>1, SeqGrows DEF FrameOK
  <1>2. f.who \subseteq Observers
    BY DEF FrameOK, Frame
  <1>3. QED
    BY <1>1, <1>2 DEF FrameOK, Onward

LEMMA FramesPushed ==
  ASSUME NEW s, NEW t, NEW f, NEW e, NEW c, NEW e2, NEW c2,
         FramesOK(s, e, c), Pushed(s, f, t), Onward(e, c, e2, c2), FrameOK(f, e2, c2)
  PROVE  FramesOK(t, e2, c2)
  <1> SUFFICES ASSUME NEW i \in 1 .. Len(t) PROVE FrameOK(t[i], e2, c2)
    BY DEF FramesOK
  <1>1. CASE i = 1
    BY <1>1 DEF Pushed
  <1>2. CASE i # 1
    <2>1. i - 1 \in 1 .. Len(s) /\ t[(i - 1) + 1] = s[i - 1] /\ (i - 1) + 1 = i
      BY <1>2 DEF Pushed
    <2>2. FrameOK(s[i - 1], e, c)
      BY <2>1 DEF FramesOK
    <2>3. QED
      BY <2>1, <2>2, FrameStays
  <1>3. QED
    BY <1>1, <1>2

LEMMA FramesReplaced ==
  ASSUME NEW s, NEW t, NEW g, NEW e, NEW c, NEW e2, NEW c2,
         FramesOK(s, e, c), Replaced(s, g, t), Onward(e, c, e2, c2), FrameOK(g, e2, c2)
  PROVE  FramesOK(t, e2, c2)
  <1> SUFFICES ASSUME NEW i \in 1 .. Len(t) PROVE FrameOK(t[i], e2, c2)
    BY DEF FramesOK
  <1>1. CASE i = 1
    BY <1>1 DEF Replaced
  <1>2. CASE i # 1
    <2>1. i \in 1 .. Len(s) /\ t[i] = s[i]
      BY <1>2 DEF Replaced
    <2>2. FrameOK(s[i], e, c)
      BY <2>1 DEF FramesOK
    <2>3. QED
      BY <2>1, <2>2, FrameStays
  <1>3. QED
    BY <1>1, <1>2

LEMMA FramesPopped ==
  ASSUME NEW s, NEW t, NEW e, NEW c, NEW e2, NEW c2,
         FramesOK(s, e, c), Popped(s, t), Onward(e, c, e2, c2)
  PROVE  FramesOK(t, e2, c2)
  <1> SUFFICES ASSUME NEW i \in 1 .. Len(t) PROVE FrameOK(t[i], e2, c2)
    BY DEF FramesOK
  <1>1. i + 1 \in 1 .. Len(s) /\ t[i] = s[i + 1]
    BY DEF Popped
  <1>2. FrameOK(s[i + 1], e, c)
    BY <1>1 DEF FramesOK
  <1>3. QED
    BY <1>1, <1>2, FrameStays

(* ...to who is led to the fan-out or the end...                            *)
LEMMA LedPushed ==
  ASSUME NEW s, NEW t, NEW f, NEW o, Pushed(s, f, t)
  PROVE  Leads(f, o) \/ Led(o, s) => Led(o, t)
  <1>1. CASE Leads(f, o)
    <2>1. 1 \in 1 .. Len(t) /\ Leads(t[1], o)
      BY <1>1 DEF Pushed
    <2>2. QED
      BY <2>1 DEF Led
  <1>2. ASSUME Led(o, s) PROVE Led(o, t)
    <2>1. PICK i \in 1 .. Len(s) : Leads(s[i], o)
      BY <1>2 DEF Led
    <2>2. i + 1 \in 1 .. Len(t) /\ Leads(t[i + 1], o)
      BY <2>1 DEF Pushed
    <2>3. QED
      BY <2>2 DEF Led
  <1>3. QED
    BY <1>1, <1>2

LEMMA LedReplaced ==
  ASSUME NEW s, NEW t, NEW g, NEW o, Replaced(s, g, t), Led(o, s),
         Leads(s[1], o) => Leads(g, o)
  PROVE  Led(o, t)
  <1>1. PICK i \in 1 .. Len(s) : Leads(s[i], o)
    BY DEF Led
  <1>2. i \in 1 .. Len(t) /\ Leads(t[i], o)
    BY <1>1 DEF Replaced
  <1>3. QED
    BY <1>2 DEF Led

LEMMA LedPopped ==
  ASSUME NEW s, NEW t, NEW o, Popped(s, t), Led(o, s), ~Leads(s[1], o)
  PROVE  Led(o, t)
  <1>1. PICK i \in 1 .. Len(s) : Leads(s[i], o)
    BY DEF Led
  <1>2. i # 1
    BY <1>1
  <1>3. i - 1 \in 1 .. Len(t) /\ t[i - 1] = s[(i - 1) + 1] /\ (i - 1) + 1 = i
    BY <1>2 DEF Popped
  <1>4. QED
    BY <1>1, <1>3 DEF Led

(* ...and to what an observer is due.                                       *)
LEMMA BalancedPushed ==
  ASSUME NEW s, NEW t, NEW f, NEW o, NEW r, NEW d,
         Balanced(o, s, r, d), Pushed(s, f, t), Pending(f, o) \cap d = {}
  PROVE  Balanced(o, t, r, d \cup Pending(f, o))
  <1> DEFINE h == Pending(f, o)
  <1>1. \A i \in 1 .. Len(t) : \/ i = 1 /\ Pending(t[i], o) = h
                               \/ i # 1 /\ i - 1 \in 1 .. Len(s)
                                  /\ Pending(t[i], o) = Pending(s[i - 1], o)
    <2> TAKE i \in 1 .. Len(t)
    <2>1. CASE i = 1
      BY <2>1 DEF Pushed
    <2>2. CASE i # 1
      <3>1. i - 1 \in 1 .. Len(s) /\ t[(i - 1) + 1] = s[i - 1] /\ (i - 1) + 1 = i
        BY <2>2 DEF Pushed
      <3>2. QED
        BY <2>2, <3>1
    <2>3. QED
      BY <2>1, <2>2
  <1>2. \A i \in 1 .. Len(s) : i + 1 \in 1 .. Len(t) /\ Pending(t[i + 1], o) = Pending(s[i], o)
    BY DEF Pushed
  <1>3. 1 \in 1 .. Len(t) /\ Pending(t[1], o) = h
    BY DEF Pushed
  <1> HIDE DEF h
  <1>4. \A i \in 1 .. Len(s) : Pending(s[i], o) \subseteq d
    BY DEF Balanced
  <1>5. \A i \in 1 .. Len(r) : r[i] \in d
    BY DEF Balanced
  <1>6. h \cap d = {}
    BY DEF h
  <1>7. \A i \in 1 .. Len(t) : Pending(t[i], o) \subseteq d \cup h
    BY <1>1, <1>4
  <1>8. \A i \in 1 .. Len(t), j \in 1 .. Len(r) : r[j] \notin Pending(t[i], o)
    BY <1>1, <1>5, <1>6 DEF Balanced
  <1>9. \A i, j \in 1 .. Len(t) : i # j => Pending(t[i], o) \cap Pending(t[j], o) = {}
    <2> SUFFICES ASSUME NEW i \in 1 .. Len(t), NEW j \in 1 .. Len(t), i # j
                 PROVE  Pending(t[i], o) \cap Pending(t[j], o) = {}
      OBVIOUS
    <2>1. CASE i = 1
      <3>1. j # 1 /\ Pending(t[i], o) = h /\ Pending(t[j], o) \subseteq d
        BY <2>1, <1>1, <1>4
      <3>2. QED
        BY <3>1, <1>6
    <2>2. CASE j = 1
      <3>1. i # 1 /\ Pending(t[j], o) = h /\ Pending(t[i], o) \subseteq d
        BY <2>2, <1>1, <1>4
      <3>2. QED
        BY <3>1, <1>6
    <2>3. CASE i # 1 /\ j # 1
      <3>1. /\ i - 1 \in 1 .. Len(s) /\ j - 1 \in 1 .. Len(s) /\ i - 1 # j - 1
            /\ Pending(t[i], o) = Pending(s[i - 1], o)
            /\ Pending(t[j], o) = Pending(s[j - 1], o)
        BY <2>3, <1>1
      <3>2. QED
        BY <3>1 DEF Balanced
    <2>4. QED
      BY <2>1, <2>2, <2>3
  <1>10. \A v \in d \cup h : \/ \E i \in 1 .. Len(r) : r[i] = v
                             \/ \E i \in 1 .. Len(t) : v \in Pending(t[i], o)
    <2> SUFFICES ASSUME NEW v \in d \cup h, ~\E i \in 1 .. Len(r) : r[i] = v
                 PROVE  \E i \in 1 .. Len(t) : v \in Pending(t[i], o)
      OBVIOUS
    <2>1. CASE v \in h
      BY <2>1, <1>3
    <2>2. CASE v \in d
      <3>1. PICK i \in 1 .. Len(s) : v \in Pending(s[i], o)
        BY <2>2 DEF Balanced
      <3>2. QED
        BY <3>1, <1>2
    <2>3. QED
      BY <2>1, <2>2
  <1>11. Balanced(o, t, r, d \cup h)
    BY <1>5, <1>7, <1>8, <1>9, <1>10 DEF Balanced
  <1>12. QED
    BY <1>11 DEF h

(* A call that goes on without giving o anything.                           *)
LEMMA BalancedReplaced ==
  ASSUME NEW s, NEW t, NEW g, NEW o, NEW r, NEW d,
         Balanced(o, s, r, d), Replaced(s, g, t), Pending(g, o) = Pending(s[1], o)
  PROVE  Balanced(o, t, r, d)
  <1>1. Len(t) = Len(s) /\ \A i \in 1 .. Len(s) : Pending(t[i], o) = Pending(s[i], o)
    BY DEF Replaced
  <1>2. QED
    BY <1>1 DEF Balanced

(* A call that gives o what it has still to give it.                        *)
LEMMA BalancedGiven ==
  ASSUME NEW s, NEW t, NEW g, NEW o, NEW S, NEW r \in Seq(S), NEW d, NEW v \in S,
         Balanced(o, s, r, d), Replaced(s, g, t),
         v \notin Pending(g, o), Pending(s[1], o) = Pending(g, o) \cup {v}
  PROVE  Balanced(o, t, Append(r, v), d)
  <1> DEFINE q == Append(r, v)
  <1>1. /\ Len(q) = Len(r) + 1 /\ Len(r) \in Nat /\ q[Len(r) + 1] = v
        /\ \A i \in 1 .. Len(r) : q[i] = r[i]
    BY AppendFacts
  <1> HIDE DEF q
  <1>2. \A j \in 1 .. Len(q) : \/ j = Len(r) + 1 /\ q[j] = v
                               \/ j \in 1 .. Len(r) /\ q[j] = r[j]
    BY <1>1
  <1>3. /\ Len(s) \in Nat \ {0} /\ Len(t) = Len(s) /\ Pending(t[1], o) = Pending(g, o)
        /\ \A i \in 1 .. Len(s) : i # 1 => Pending(t[i], o) = Pending(s[i], o)
    BY DEF Replaced
  <1>4. 1 \in 1 .. Len(s) /\ v \in Pending(s[1], o)
    BY <1>3
  <1>5. v \in d /\ \A j \in 1 .. Len(r) : r[j] # v
    BY <1>4 DEF Balanced
  <1>6. \A i \in 1 .. Len(s) : Pending(t[i], o) \subseteq Pending(s[i], o)
    BY <1>3
  <1>7. \A i \in 1 .. Len(s) : i # 1 => v \notin Pending(s[i], o)
    BY <1>4 DEF Balanced
  <1>8. \A i \in 1 .. Len(t) : v \notin Pending(t[i], o)
    BY <1>3, <1>7
  <1>9. Once(q)
    <2>1. Once(r)
      BY DEF Balanced
    <2>2. QED
      BY <1>1, <1>2, <1>5, <2>1 DEF Once
  <1>10. \A i \in 1 .. Len(q) : q[i] \in d
    BY <1>2, <1>5 DEF Balanced
  <1>11. \A i \in 1 .. Len(t) : Pending(t[i], o) \subseteq d
    BY <1>3, <1>6 DEF Balanced
  <1>12. \A i \in 1 .. Len(t), j \in 1 .. Len(q) : q[j] \notin Pending(t[i], o)
    BY <1>2, <1>3, <1>6, <1>8 DEF Balanced
  <1>13. \A i, j \in 1 .. Len(t) : i # j => Pending(t[i], o) \cap Pending(t[j], o) = {}
    <2> SUFFICES ASSUME NEW i \in 1 .. Len(t), NEW j \in 1 .. Len(t), i # j
                 PROVE  Pending(t[i], o) \cap Pending(t[j], o) = {}
      OBVIOUS
    <2>1. i \in 1 .. Len(s) /\ j \in 1 .. Len(s)
      BY <1>3
    <2>2. Pending(s[i], o) \cap Pending(s[j], o) = {}
      BY <2>1 DEF Balanced
    <2>3. Pending(t[i], o) \subseteq Pending(s[i], o) /\ Pending(t[j], o) \subseteq Pending(s[j], o)
      BY <2>1, <1>6
    <2>4. QED
      BY <2>2, <2>3
  <1>14. \A w \in d : \/ \E i \in 1 .. Len(q) : q[i] = w
                      \/ \E i \in 1 .. Len(t) : w \in Pending(t[i], o)
    <2> SUFFICES ASSUME NEW w \in d
                 PROVE  \/ \E i \in 1 .. Len(q) : q[i] = w
                        \/ \E i \in 1 .. Len(t) : w \in Pending(t[i], o)
      OBVIOUS
    <2>1. CASE w = v
      <3>1. Len(r) + 1 \in 1 .. Len(q) /\ q[Len(r) + 1] = w
        BY <2>1, <1>1
      <3>2. QED
        BY <3>1
    <2>2. CASE \E i \in 1 .. Len(r) : r[i] = w
      <3>1. PICK i \in 1 .. Len(r) : r[i] = w
        BY <2>2
      <3>2. i \in 1 .. Len(q) /\ q[i] = w
        BY <3>1, <1>1
      <3>3. QED
        BY <3>2
    <2>3. CASE w # v /\ ~\E i \in 1 .. Len(r) : r[i] = w
      <3>1. PICK i \in 1 .. Len(s) : w \in Pending(s[i], o)
        BY <2>3 DEF Balanced
      <3>2. i \in 1 .. Len(t) /\ w \in Pending(t[i], o)
        BY <2>3, <3>1, <1>3
      <3>3. QED
        BY <3>2
    <2>4. QED
      BY <2>1, <2>2, <2>3
  <1>15. Balanced(o, t, q, d)
    BY <1>9, <1>10, <1>11, <1>12, <1>13, <1>14 DEF Balanced
  <1>16. QED
    BY <1>15 DEF q

(* A call that returns once it has nothing left for o.                      *)
LEMMA BalancedPopped ==
  ASSUME NEW s, NEW t, NEW o, NEW r, NEW d,
         Balanced(o, s, r, d), Popped(s, t), Pending(s[1], o) = {}
  PROVE  Balanced(o, t, r, d)
  <1>1. \A i \in 1 .. Len(t) : i + 1 \in 1 .. Len(s) /\ Pending(t[i], o) = Pending(s[i + 1], o)
    BY DEF Popped
  <1>2. \A i \in 1 .. Len(s) : i # 1 => i - 1 \in 1 .. Len(t)
                                        /\ Pending(t[i - 1], o) = Pending(s[i], o)
    <2> SUFFICES ASSUME NEW i \in 1 .. Len(s), i # 1
                 PROVE  i - 1 \in 1 .. Len(t) /\ Pending(t[i - 1], o) = Pending(s[i], o)
      OBVIOUS
    <2>1. i - 1 \in 1 .. Len(t) /\ t[i - 1] = s[(i - 1) + 1] /\ (i - 1) + 1 = i
      BY DEF Popped
    <2>2. QED
      BY <2>1
  <1>3. \A i, j \in 1 .. Len(t) : i # j => Pending(t[i], o) \cap Pending(t[j], o) = {}
    <2> SUFFICES ASSUME NEW i \in 1 .. Len(t), NEW j \in 1 .. Len(t), i # j
                 PROVE  Pending(t[i], o) \cap Pending(t[j], o) = {}
      OBVIOUS
    <2>1. i + 1 # j + 1 /\ i + 1 \in 1 .. Len(s) /\ j + 1 \in 1 .. Len(s)
      BY <1>1
    <2>2. Pending(s[i + 1], o) \cap Pending(s[j + 1], o) = {}
      BY <2>1 DEF Balanced
    <2>3. QED
      BY <2>2, <1>1
  <1>4. \A v \in d : \/ \E i \in 1 .. Len(r) : r[i] = v
                     \/ \E i \in 1 .. Len(t) : v \in Pending(t[i], o)
    <2> SUFFICES ASSUME NEW v \in d, ~\E i \in 1 .. Len(r) : r[i] = v
                 PROVE  \E i \in 1 .. Len(t) : v \in Pending(t[i], o)
      OBVIOUS
    <2>1. PICK i \in 1 .. Len(s) : v \in Pending(s[i], o)
      BY DEF Balanced
    <2>2. QED
      BY <2>1, <1>2
  <1>5. /\ \A i \in 1 .. Len(t) : Pending(t[i], o) \subseteq d
        /\ \A i \in 1 .. Len(t), j \in 1 .. Len(r) : r[j] \notin Pending(t[i], o)
    BY <1>1 DEF Balanced
  <1>6. QED
    BY <1>3, <1>4, <1>5 DEF Balanced

(* An observer that subscribes: until then no call was about it.            *)
LEMMA BalancedFirst ==
  ASSUME NEW s, NEW t, NEW f, NEW o, Pushed(s, f, t),
         \A i \in 1 .. Len(s) : Pending(s[i], o) = {}
  PROVE  Balanced(o, t, <<>>, Pending(f, o))
  <1>1. \A i \in 1 .. Len(s) : Pending(s[i], o) \subseteq {}
    OBVIOUS
  <1>2. Balanced(o, s, <<>>, {})
    BY <1>1 DEF Balanced, Once
  <1>3. Balanced(o, t, <<>>, {} \cup Pending(f, o))
    BY <1>2, BalancedPushed
  <1>4. QED
    BY <1>3

-----------------------------------------------------------------------------
(* What each action does, to the call it is about and to the observer.      *)

LEMMA EmittedNat ==
  ASSUME ParametersOK, TypeOK
  PROVE  emitted \in Nat
  BY DEF ParametersOK, TypeOK

LEMMA CallFacts ==
  ASSUME NEW op \in {"setup", "next", "end", "abort"}, NEW who \in SUBSET Observers,
         NEW replay \in Seq(0 .. MaxValues), NEW at \in {"run", "call"}
  PROVE  /\ Call(op, who, replay, at) \in Frame
         /\ Call(op, who, replay, at).op = op /\ Call(op, who, replay, at).who = who
         /\ Call(op, who, replay, at).replay = replay
  BY DEF Call, Frame

LEMMA TopFacts ==
  ASSUME TypeInv, stack # <<>>
  PROVE  /\ Top \in Frame /\ Top = stack[1] /\ FrameOK(Top, emitted, cold)
         /\ stack \in Seq(Frame) /\ 1 \in 1 .. Len(stack)
  <1>1. stack \in Seq(Frame) /\ FramesOK(stack, emitted, cold)
    BY DEF TypeInv, TypeOK
  <1>2. Top \in Frame /\ Top = stack[1] /\ 1 \in 1 .. Len(stack)
    BY <1>1, PopFacts DEF Top
  <1>3. FrameOK(Top, emitted, cold)
    BY <1>1, <1>2 DEF FramesOK
  <1>4. QED
    BY <1>1, <1>2, <1>3

LEMMA NoneFrame ==
  ASSUME NEW e
  PROVE  <<>> \in Seq(0 .. e) /\ Once(<<>>) /\ ToSet(<<>>) = {}
  BY DEF Once, ToSet

LEMMA BufferOnce ==
  ASSUME ParametersOK, TypeOK, Retains
  PROVE  Once(buffer)
  <1>1. Len(buffer) \in Nat /\ emitted \in Nat
    BY EmittedNat DEF TypeOK
  <1>2. CASE kind = "replay"
    <2>1. buffer = [i \in 1 .. Len(buffer) |-> emitted - Len(buffer) + i]
      BY <1>2 DEF Retains, BufferIsNewest
    <2>2. \A i \in 1 .. Len(buffer) : buffer[i] = emitted - Len(buffer) + i
      BY <2>1
    <2>3. QED
      BY <1>1, <2>2 DEF Once
  <1>3. CASE kind = "behavior"
    <2>1. Len(buffer) = 1
      BY <1>3 DEF Retains
    <2>2. QED
      BY <2>1 DEF Once
  <1>4. QED
    BY <1>2, <1>3 DEF TypeOK

(* What subscribe() replays.                                                *)
Replay == IF kind = "behavior" /\ state # "active" THEN <<>> ELSE buffer

LEMMA ReplayFacts ==
  ASSUME ParametersOK, TypeOK, Retains
  PROVE  Replay \in Seq(0 .. emitted) /\ Replay \in Seq(0 .. MaxValues) /\ Once(Replay)
  <1>1. Replay \in Seq(0 .. emitted) /\ Once(Replay)
    BY BufferOnce, NoneFrame DEF Replay, TypeOK
  <1>2. 0 .. emitted \subseteq 0 .. MaxValues
    BY DEF TypeOK, ParametersOK
  <1>3. QED
    BY <1>1, <1>2, SeqGrows

LEMMA SubscribeFacts ==
  ASSUME ParametersOK, TypeInv, Retains, NEW o \in Observers,
         NEW status \in {"active", "cancelled"}, Subscribe(o, status)
  PROVE  /\ Onward(emitted, cold, emitted', cold')
         /\ cold' \in [Observers -> {"new", "active", "cancelled", "ended"}]
         /\ cold'[o] = status
         /\ \A p \in Observers : p # o => cold'[p] = cold[p] /\ due'[p] = due[p]
         /\ due' \in [Observers -> SUBSET (0 .. emitted)]
         /\ \E f \in Frame : /\ f.op = "setup" /\ f.who = {o}
                             /\ due'[o] = ToSet(f.replay)
                             /\ FrameOK(f, emitted, cold')
                             /\ Pushed(stack, f, stack')
  <1> USE DEF TypeInv
  <1>1. Onward(emitted, cold, emitted', cold')
    BY EmittedNat DEF Subscribe, TypeOK, Onward
  <1>2. /\ cold' \in [Observers -> {"new", "active", "cancelled", "ended"}]
        /\ cold'[o] = status
        /\ \A p \in Observers : p # o => cold'[p] = cold[p] /\ due'[p] = due[p]
    BY DEF Subscribe, TypeOK
  <1>3. Push(Call("setup", {o}, Replay, "run")) /\ due' = [due EXCEPT ![o] = ToSet(Replay)]
    BY DEF Subscribe, Replay
  <1> DEFINE f == Call("setup", {o}, Replay, "run")
  <1>4. f \in Frame /\ f.op = "setup" /\ f.who = {o} /\ f.replay = Replay
    BY ReplayFacts, CallFacts
  <1>5. Pushed(stack, f, stack')
    BY <1>3, <1>4, PushStack DEF TypeOK
  <1> HIDE DEF f
  <1>6. FrameOK(f, emitted, cold')
    BY <1>2, <1>4, ReplayFacts DEF FrameOK
  <1>7. ToSet(Replay) \subseteq 0 .. emitted
    BY ReplayFacts, ToSetIs
  <1>8. due' \in [Observers -> SUBSET (0 .. emitted)] /\ due'[o] = ToSet(f.replay)
    BY <1>3, <1>4, <1>7 DEF TypeOK
  <1>9. QED
    BY <1>1, <1>2, <1>4, <1>5, <1>6, <1>8

(* No observer that is new is in the fan-out.                               *)
LEMMA FanoutKnown ==
  ASSUME TypeInv
  PROVE  fanout \in SUBSET Observers /\ \A o \in fanout : cold[o] # "new"
  BY DEF TypeInv, TypeOK, Strangers

LEMMA RetainedFacts ==
  ASSUME ParametersOK, TypeInv, Retains
  PROVE  /\ Retained(emitted + 1) \in Seq(0 .. emitted + 1)
         /\ kind = "behavior" => Len(Retained(emitted + 1)) = 1
         /\ kind = "replay" =>
              /\ Len(Retained(emitted + 1)) = IF emitted + 1 < Size THEN emitted + 1 ELSE Size
              /\ \A i \in 1 .. Len(Retained(emitted + 1)) :
                   Retained(emitted + 1)[i] = (emitted + 1) - Len(Retained(emitted + 1)) + i
  <1> DEFINE v == emitted + 1
             n == Len(buffer)
             all == Append(buffer, v)
  <1>1. emitted \in Nat /\ v \in Nat /\ v \in 0 .. v /\ n \in Nat /\ Size \in Nat
    BY EmittedNat DEF TypeInv, TypeOK, ParametersOK
  <1>2. buffer \in Seq(0 .. v)
    <2>1. 0 .. emitted \subseteq 0 .. v
      BY <1>1
    <2>2. QED
      BY <2>1, SeqGrows DEF TypeInv, TypeOK
  <1>3. /\ all \in Seq(0 .. v) /\ Len(all) = n + 1 /\ all[n + 1] = v
        /\ \A i \in 1 .. n : all[i] = buffer[i]
    BY <1>1, <1>2, AppendFacts
  <1>4. CASE kind = "behavior"
    <2>1. Retained(v) = <<v>>
      BY <1>4 DEF Retained
    <2>2. <<v>> \in Seq(0 .. v) /\ Len(<<v>>) = 1
      BY <1>1
    <2>3. QED
      BY <2>1, <2>2, <1>4
  <1>5. CASE kind = "replay"
    <2>1. /\ n = IF emitted < Size THEN emitted ELSE Size
          /\ \A i \in 1 .. n : buffer[i] = emitted - n + i
      <3>1. buffer = [i \in 1 .. n |-> emitted - n + i]
        BY <1>5 DEF Retains, BufferIsNewest
      <3>2. \A i \in 1 .. n : buffer[i] = emitted - n + i
        BY <3>1
      <3>3. QED
        BY <3>2, <1>5 DEF Retains, BufferIsNewest
    <2>2. Retained(v) = IF n + 1 > Size THEN SubSeq(all, (n + 1) - Size + 1, n + 1) ELSE all
      BY <1>3, <1>5 DEF Retained
    <2> HIDE DEF all, n, v
    <2>3. CASE n + 1 > Size
      <3>1. n = Size /\ emitted >= Size /\ Retained(v) = SubSeq(all, 2, Size + 1)
        BY <2>1, <2>2, <2>3, <1>1
      <3>2. /\ SubSeq(all, 2, Size + 1) \in Seq(0 .. v)
            /\ Len(SubSeq(all, 2, Size + 1)) = Size
            /\ \A i \in 1 .. Size : SubSeq(all, 2, Size + 1)[i] = all[i + 1]
        BY <1>1, <1>3, <3>1
      <3>3. \A i \in 1 .. Size : all[i + 1] = v - Size + i
        <4> TAKE i \in 1 .. Size
        <4>1. CASE i = Size
          BY <4>1, <1>1, <1>3, <3>1
        <4>2. CASE i # Size
          <5>1. i + 1 \in 1 .. n
            BY <4>2, <3>1, <1>1
          <5>2. all[i + 1] = emitted - n + (i + 1)
            BY <5>1, <1>3, <2>1
          <5>3. QED
            BY <5>2, <3>1, <1>1 DEF v
        <4>3. QED
          BY <4>1, <4>2
      <3>4. v >= Size /\ Size = IF v < Size THEN v ELSE Size
        BY <3>1, <1>1 DEF v
      <3>5. QED
        BY <3>1, <3>2, <3>3, <3>4, <1>5 DEF v
    <2>4. CASE ~(n + 1 > Size)
      <3>1. n = emitted /\ n + 1 = v /\ Retained(v) = all /\ v <= Size
        BY <2>1, <2>2, <2>4, <1>1 DEF v
      <3>2. \A i \in 1 .. v : all[i] = i
        BY <3>1, <2>1, <1>1, <1>3
      <3>3. QED
        BY <3>1, <3>2, <1>1, <1>3, <1>5 DEF v
    <2>5. QED
      BY <2>3, <2>4
  <1>6. QED
    BY <1>4, <1>5 DEF TypeInv, TypeOK

LEMMA NextFacts ==
  ASSUME ParametersOK, TypeInv, CallNext
  PROVE  /\ Onward(emitted, cold, emitted', cold')
         /\ emitted' = emitted + 1 /\ emitted' \in 0 .. MaxValues
         /\ \E f \in Frame : /\ f.op = "next" /\ f.who = fanout
                             /\ ToSet(f.replay) = {emitted + 1}
                             /\ FrameOK(f, emitted', cold')
                             /\ Pushed(stack, f, stack')
  <1>1. emitted \in Nat /\ emitted' = emitted + 1 /\ emitted < MaxValues /\ cold' = cold
    BY EmittedNat DEF CallNext, TypeInv
  <1>2. emitted' \in 0 .. MaxValues /\ emitted + 1 \in 0 .. MaxValues
        /\ emitted + 1 \in 0 .. emitted'
    BY <1>1 DEF ParametersOK
  <1> DEFINE v == emitted + 1
             q == <<v>>
             f == Call("next", fanout, q, "run")
  <1>3. Push(f)
    BY DEF CallNext, Fanout
  <1> HIDE DEF v
  <1>4. q \in Seq(0 .. MaxValues) /\ q \in Seq(0 .. emitted') /\ Once(q) /\ Len(q) = 1
        /\ ToSet(q) = {v}
    BY <1>2 DEF Once, ToSet, v
  <1>5. f \in Frame /\ f.op = "next" /\ f.who = fanout /\ f.replay = q
    BY <1>4, FanoutKnown DEF Call, Frame
  <1> HIDE DEF q
  <1>6. Pushed(stack, f, stack')
    BY <1>3, <1>5, PushStack DEF TypeInv, TypeOK
  <1> HIDE DEF f
  <1>7. FrameOK(f, emitted', cold')
    BY <1>1, <1>4, <1>5, FanoutKnown DEF FrameOK
  <1>8. Onward(emitted, cold, emitted', cold')
    BY <1>1 DEF Onward
  <1>9. QED
    BY <1>1, <1>2, <1>4, <1>5, <1>6, <1>7, <1>8 DEF v

LEMMA EndCallFacts ==
  ASSUME ParametersOK, TypeInv, NEW end, CallEnd(end)
  PROVE  /\ Onward(emitted, cold, emitted', cold')
         /\ \E f \in Frame : /\ f.op = "end" /\ f.who = fanout
                             /\ FrameOK(f, emitted', cold')
                             /\ Pushed(stack, f, stack')
  <1> DEFINE f == Call("end", fanout, <<>>, "run")
  <1>1. Push(f) /\ emitted' = emitted /\ cold' = cold
    BY DEF CallEnd
  <1>2. f \in Frame /\ f.op = "end" /\ f.who = fanout /\ f.replay = <<>>
    BY NoneFrame, FanoutKnown DEF Call, Frame
  <1>3. Pushed(stack, f, stack')
    BY <1>1, <1>2, PushStack DEF TypeInv, TypeOK
  <1> HIDE DEF f
  <1>4. FrameOK(f, emitted', cold')
    BY <1>1, <1>2, NoneFrame, FanoutKnown DEF FrameOK
  <1>5. Onward(emitted, cold, emitted', cold')
    BY <1>1, EmittedNat DEF Onward, TypeInv
  <1>6. QED
    BY <1>2, <1>3, <1>4, <1>5

LEMMA AbortCallFacts ==
  ASSUME ParametersOK, TypeInv, NEW o \in Observers, CallAbort(o)
  PROVE  /\ Onward(emitted, cold, emitted', cold')
         /\ cold' \in [Observers -> {"new", "active", "cancelled", "ended"}]
         /\ cold'[o] = "cancelled"
         /\ \A p \in Observers : p # o => cold'[p] = cold[p]
         /\ \E f \in Frame : /\ f.op = "abort" /\ f.who = {o}
                             /\ FrameOK(f, emitted', cold')
                             /\ Pushed(stack, f, stack')
  <1> DEFINE f == Call("abort", {o}, <<>>, "call")
  <1>1. Push(f) /\ emitted' = emitted
    BY DEF CallAbort
  <1>2. f \in Frame /\ f.op = "abort" /\ f.who = {o} /\ f.replay = <<>>
    BY NoneFrame DEF Call, Frame
  <1>3. Pushed(stack, f, stack')
    BY <1>1, <1>2, PushStack DEF TypeInv, TypeOK
  <1> HIDE DEF f
  <1>4. /\ cold' \in [Observers -> {"new", "active", "cancelled", "ended"}]
        /\ cold[o] = "active" /\ cold'[o] = "cancelled"
        /\ \A p \in Observers : p # o => cold'[p] = cold[p]
    BY DEF CallAbort, TypeInv, TypeOK
  <1>5. FrameOK(f, emitted', cold')
    BY <1>1, <1>2, <1>4, NoneFrame DEF FrameOK
  <1>6. Onward(emitted, cold, emitted', cold')
    BY <1>1, <1>4, EmittedNat DEF Onward, TypeInv
  <1>7. QED
    BY <1>2, <1>3, <1>4, <1>5, <1>6

-----------------------------------------------------------------------------
(* The ColdSubscriber.                                                      *)

LEMMA GiveFacts ==
  ASSUME TypeOK, NEW o \in Observers, NEW v \in 0 .. emitted, Give(o, v)
  PROVE  /\ received' \in [Observers -> Seq(0 .. emitted)]
         /\ \A p \in Observers : p # o => received'[p] = received[p]
         /\ cold[o] = "active" => received'[o] = Append(received[o], v)
         /\ cold[o] # "active" => received'[o] = received[o]
         /\ cold' = cold /\ hooked' = hooked /\ told' = told /\ fanout' = fanout
  <1>1. Append(received[o], v) \in Seq(0 .. emitted)
    <2>1. received[o] \in Seq(0 .. emitted)
      BY DEF TypeOK
    <2>2. QED
      BY <2>1, AppendFacts
  <1>2. QED
    BY <1>1 DEF Give, TypeOK

LEMMA TeardownFacts ==
  ASSUME TypeOK, NEW o \in Observers, RunTeardown(o)
  PROVE  /\ hooked' \subseteq hooked /\ fanout' \subseteq fanout
         /\ hooked' \in SUBSET Observers /\ fanout' \in SUBSET Observers /\ fanout' \subseteq hooked'
         /\ \A p \in fanout : p # o => p \in fanout'
  BY DEF RunTeardown, TypeOK

LEMMA EndedFacts ==
  ASSUME ParametersOK, TypeInv, NEW o \in Observers, End(o), emitted' = emitted
  PROVE  /\ Onward(emitted, cold, emitted', cold')
         /\ cold' \in [Observers -> {"new", "active", "cancelled", "ended"}]
         /\ told' \in [Observers -> 0 .. 1]
         /\ cold'[o] # "active"
         /\ cold[o] # "active" => cold'[o] = cold[o] /\ told'[o] = told[o]
         /\ \A p \in Observers : p # o => cold'[p] = cold[p] /\ told'[p] = told[p]
         /\ received' = received
         /\ hooked' \subseteq hooked /\ fanout' \subseteq fanout
         /\ hooked' \in SUBSET Observers /\ fanout' \in SUBSET Observers /\ fanout' \subseteq hooked'
         /\ \A p \in fanout : p # o => p \in fanout'
         /\ \A p \in Observers : cold'[p] # "ended" => told'[p] = 0
  <1> USE DEF TypeInv
  <1>1. CASE cold[o] = "active"
    <2>1. told[o] = 0
      BY <1>1 DEF ToldAreOver
    <2>2. /\ cold' = [cold EXCEPT ![o] = "ended"] /\ told' = [told EXCEPT ![o] = @ + 1]
          /\ RunTeardown(o) /\ received' = received
      BY <1>1 DEF End
    <2>3. /\ cold' \in [Observers -> {"new", "active", "cancelled", "ended"}]
          /\ cold'[o] = "ended"
          /\ \A p \in Observers : p # o => cold'[p] = cold[p]
      BY <2>2 DEF TypeOK
    <2>4. /\ told' \in [Observers -> 0 .. 1]
          /\ \A p \in Observers : p # o => told'[p] = told[p]
      BY <2>1, <2>2 DEF TypeOK
    <2>5. \A p \in Observers : cold'[p] # "ended" => told'[p] = 0
      BY <2>3, <2>4 DEF ToldAreOver
    <2>6. Onward(emitted, cold, emitted', cold')
      BY <1>1, <2>3, EmittedNat DEF Onward
    <2>7. QED
      BY <1>1, <2>2, <2>3, <2>4, <2>5, <2>6, TeardownFacts
  <1>2. CASE cold[o] # "active"
    <2>1. UNCHANGED <<cold, told, hooked, fanout, received>>
      BY <1>2 DEF End
    <2>2. Onward(emitted, cold, emitted', cold')
      BY <2>1, EmittedNat DEF Onward
    <2>3. QED
      BY <1>2, <2>1, <2>2 DEF TypeOK, ToldAreOver
  <1>3. QED
    BY <1>1, <1>2

-----------------------------------------------------------------------------
(* Steps of the library, of the innermost call.                             *)

(* A frame of the same call with fewer observers or values, if any.         *)
Rest(g, f, who, replay) == g \in Frame /\ g.op = f.op /\ g.who = who /\ g.replay = replay

LEMMA RestOK ==
  ASSUME NEW f, NEW g, NEW e, NEW c, NEW who, NEW replay,
         FrameOK(f, e, c), Rest(g, f, who, replay),
         \/ who = f.who /\ f.op # "next" /\ replay \in Seq(0 .. e) /\ Once(replay)
         \/ replay = f.replay /\ who \subseteq f.who /\ f.op \in {"next", "end"}
         \/ replay = f.replay /\ who = f.who
  PROVE  FrameOK(g, e, c)
  BY DEF FrameOK, Rest

LEMMA TopRest ==
  ASSUME TypeInv, stack # <<>>, NEW who \in SUBSET Observers, NEW at \in {"run", "call"}
  PROVE  Rest([Top EXCEPT !.who = who, !.at = at], Top, who, Top.replay)
  BY TopFacts DEF Rest, Frame

LEMMA TopRestReplay ==
  ASSUME TypeInv, stack # <<>>, NEW replay \in Seq(0 .. MaxValues), NEW at \in {"run", "call"}
  PROVE  Rest([Top EXCEPT !.replay = replay, !.at = at], Top, Top.who, replay)
  BY TopFacts DEF Rest, Frame

LEMMA FanoutFacts ==
  ASSUME ParametersOK, TypeInv, NEW o \in Observers, FanoutStep(o)
  PROVE  /\ Top.op \in {"next", "end"} /\ o \in Top.who /\ stack # <<>>
         /\ \E g \in Frame : /\ Rest(g, Top, Top.who \ {o}, Top.replay)
                             /\ FrameOK(g, emitted, cold)
                             /\ Replaced(stack, g, stack')
  <1>1. Top.op \in {"next", "end"} /\ o \in Top.who /\ stack # <<>>
    BY DEF FanoutStep, LibTurn
  <1>2. FrameOK(Top, emitted, cold) /\ Top.who \in SUBSET Observers
    BY <1>1, TopFacts DEF Frame
  <1>3. PICK at \in {"run", "call"} :
          Replace([Top EXCEPT !.who = Top.who \ {o}, !.at = at])
    BY <1>1 DEF FanoutStep
  <1> DEFINE g == [Top EXCEPT !.who = Top.who \ {o}, !.at = at]
  <1>4. Replace(g)
    BY <1>3
  <1>5. Rest(g, Top, Top.who \ {o}, Top.replay)
    BY <1>1, <1>2, TopRest
  <1> HIDE DEF g
  <1>6. FrameOK(g, emitted, cold)
    BY <1>1, <1>2, <1>5, RestOK
  <1>7. g \in Frame
    BY <1>5 DEF Rest
  <1>8. Replaced(stack, g, stack')
    BY <1>1, <1>4, <1>7, ReplaceStack DEF TypeInv, TypeOK
  <1>9. QED
    BY <1>1, <1>5, <1>6, <1>7, <1>8

LEMMA SetupNextFacts ==
  ASSUME ParametersOK, TypeInv, NEW o \in Observers, SetupNext(o)
  PROVE  /\ stack # <<>> /\ Top.op = "setup" /\ Top.who = {o}
         /\ Head(Top.replay) \in 0 .. emitted
         /\ \E g \in Frame : /\ Rest(g, Top, {o}, Tail(Top.replay))
                             /\ Head(Top.replay) \notin ToSet(g.replay)
                             /\ ToSet(Top.replay) = ToSet(g.replay) \cup {Head(Top.replay)}
                             /\ FrameOK(g, emitted, cold)
                             /\ Replaced(stack, g, stack')
  <1>1. stack # <<>> /\ Top.op = "setup" /\ Top.who = {o} /\ Top.replay # <<>>
    BY DEF SetupNext, LibTurn
  <1>2. FrameOK(Top, emitted, cold) /\ Top \in Frame
    BY <1>1, TopFacts
  <1> DEFINE q == Top.replay
             h == Head(q)
             t == Tail(q)
  <1>3. q \in Seq(0 .. emitted) /\ q # <<>> /\ Once(q)
    BY <1>1, <1>2 DEF FrameOK
  <1>4. PICK at \in {"run", "call"} : Replace([Top EXCEPT !.replay = t, !.at = at])
    BY DEF SetupNext
  <1> DEFINE g == [Top EXCEPT !.replay = t, !.at = at]
  <1>5. Replace(g)
    BY <1>4
  <1>6. /\ h \in 0 .. emitted /\ h = q[1] /\ t \in Seq(0 .. emitted)
        /\ Len(q) \in Nat \ {0} /\ Len(t) = Len(q) - 1
        /\ \A i \in 1 .. Len(q) - 1 : t[i] = q[i + 1]
    BY <1>3, PopFacts
  <1>7. t \in Seq(0 .. MaxValues)
    <2>1. 0 .. emitted \subseteq 0 .. MaxValues
      BY DEF TypeInv, TypeOK, ParametersOK
    <2>2. QED
      BY <1>6, <2>1, SeqGrows
  <1>8. Rest(g, Top, {o}, t)
    BY <1>1, <1>7, TopRestReplay
  <1> HIDE DEF g, h, t, q
  <1>9. /\ \A i \in 1 .. Len(t) : i + 1 \in 1 .. Len(q) /\ t[i] = q[i + 1]
        /\ \A i \in 1 .. Len(q) : i # 1 => i - 1 \in 1 .. Len(t) /\ q[i] = t[i - 1]
    <2>1. \A i \in 1 .. Len(t) : i + 1 \in 1 .. Len(q) /\ t[i] = q[i + 1]
      BY <1>6
    <2>2. ASSUME NEW i \in 1 .. Len(q), i # 1
          PROVE  i - 1 \in 1 .. Len(t) /\ q[i] = t[i - 1]
      <3>1. i - 1 \in 1 .. Len(t) /\ t[i - 1] = q[(i - 1) + 1] /\ (i - 1) + 1 = i
        BY <2>2, <1>6
      <3>2. QED
        BY <3>1
    <2>3. QED
      BY <2>1, <2>2
  <1>10. Once(t)
    <2> SUFFICES ASSUME NEW i \in 1 .. Len(t), NEW j \in 1 .. Len(t), t[i] = t[j]
                 PROVE  i = j
      BY DEF Once
    <2>1. i + 1 \in 1 .. Len(q) /\ j + 1 \in 1 .. Len(q) /\ q[i + 1] = q[j + 1]
      BY <1>9
    <2>2. i + 1 = j + 1
      BY <2>1, <1>3 DEF Once
    <2>3. QED
      BY <2>2, <1>6
  <1>11. \A i \in 1 .. Len(t) : t[i] # h
    <2> SUFFICES ASSUME NEW i \in 1 .. Len(t), t[i] = h PROVE FALSE
      OBVIOUS
    <2>1. i + 1 \in 1 .. Len(q) /\ 1 \in 1 .. Len(q) /\ q[i + 1] = q[1]
      BY <1>6, <1>9
    <2>2. i + 1 = 1
      BY <2>1, <1>3 DEF Once
    <2>3. QED
      BY <2>2, <1>6
  <1>12. h \notin ToSet(t)
    BY <1>6, <1>11, ToSetIs
  <1>13. ToSet(q) = ToSet(t) \cup {h}
    <2>1. ASSUME NEW v \in ToSet(q) PROVE v \in ToSet(t) \cup {h}
      <3>1. PICK i \in 1 .. Len(q) : v = q[i]
        BY <1>3, ToSetIs
      <3>2. CASE i = 1
        BY <3>1, <3>2, <1>6
      <3>3. CASE i # 1
        <4>1. i - 1 \in 1 .. Len(t) /\ v = t[i - 1]
          BY <3>1, <3>3, <1>9
        <4>2. QED
          BY <4>1, <1>6, ToSetIs
      <3>4. QED
        BY <3>2, <3>3
    <2>2. ASSUME NEW v \in ToSet(t) PROVE v \in ToSet(q)
      <3>1. PICK i \in 1 .. Len(t) : v = t[i]
        BY <1>6, ToSetIs
      <3>2. i + 1 \in 1 .. Len(q) /\ v = q[i + 1]
        BY <3>1, <1>9
      <3>3. QED
        BY <3>2, <1>3, ToSetIs
    <2>3. h \in ToSet(q)
      <3>1. 1 \in 1 .. Len(q)
        BY <1>6
      <3>2. QED
        BY <3>1, <1>3, <1>6, ToSetIs
    <2>4. QED
      BY <2>1, <2>2, <2>3
  <1>14. FrameOK(g, emitted, cold)
    BY <1>1, <1>2, <1>6, <1>8, <1>10, RestOK
  <1>15. g \in Frame /\ g.replay = t
    BY <1>8 DEF Rest
  <1>16. Replaced(stack, g, stack')
    BY <1>1, <1>5, <1>15, ReplaceStack DEF TypeInv, TypeOK
  <1>17. QED
    BY <1>1, <1>6, <1>8, <1>12, <1>13, <1>14, <1>15, <1>16 DEF q, h, t

LEMMA SetupDoneFacts ==
  ASSUME ParametersOK, TypeInv, NEW o \in Observers, SetupDone(o)
  PROVE  /\ stack # <<>> /\ Top.op = "setup" /\ Top.who = {o} /\ Top.replay = <<>>
         /\ cold[o] # "new"
         /\ \/ Popped(stack, stack')
            \/ \E g \in Frame : /\ g.op = "end" /\ g.who = {}
                                /\ FrameOK(g, emitted, cold)
                                /\ Replaced(stack, g, stack')
  <1>1. stack # <<>> /\ Top.op = "setup" /\ Top.who = {o} /\ Top.replay = <<>>
    BY DEF SetupDone, LibTurn
  <1>2. cold[o] # "new"
    BY <1>1, TopFacts DEF FrameOK
  <1>3. CASE Pop
    BY <1>1, <1>2, <1>3, PopStack DEF TypeInv, TypeOK
  <1>4. CASE Replace(Call("end", {}, <<>>, "call"))
    <2> DEFINE g == Call("end", {}, <<>>, "call")
    <2>1. g \in Frame /\ g.op = "end" /\ g.who = {} /\ g.replay = <<>>
      BY NoneFrame DEF Call, Frame
    <2>2. Replaced(stack, g, stack')
      BY <1>1, <1>4, <2>1, ReplaceStack DEF TypeInv, TypeOK
    <2> HIDE DEF g
    <2>3. FrameOK(g, emitted, cold)
      BY <2>1, NoneFrame DEF FrameOK
    <2>4. QED
      BY <1>1, <1>2, <2>1, <2>2, <2>3
  <1>5. QED
    BY <1>3, <1>4 DEF SetupDone

LEMMA CallbackFacts ==
  ASSUME ParametersOK, TypeInv, CallbackEnds
  PROVE  /\ stack # <<>>
         /\ \E g \in Frame : /\ Rest(g, Top, Top.who, Top.replay)
                             /\ FrameOK(g, emitted, cold)
                             /\ Replaced(stack, g, stack')
  <1>1. stack # <<>>
    BY DEF CallbackEnds
  <1> DEFINE g == [Top EXCEPT !.at = "run"]
  <1>2. Replace(g)
    BY DEF CallbackEnds
  <1>3. Rest(g, Top, Top.who, Top.replay)
    BY <1>1, TopFacts DEF Rest, Frame
  <1> HIDE DEF g
  <1>4. FrameOK(g, emitted, cold)
    BY <1>1, <1>3, TopFacts, RestOK
  <1>5. g \in Frame
    BY <1>3 DEF Rest
  <1>6. Replaced(stack, g, stack')
    BY <1>1, <1>2, <1>5, ReplaceStack DEF TypeInv, TypeOK
  <1>7. QED
    BY <1>1, <1>3, <1>4, <1>5, <1>6

-----------------------------------------------------------------------------
(* Types, buffer and fan-out.                                               *)

LEMMA SameOnward ==
  ASSUME ParametersOK, TypeOK
  PROVE  Onward(emitted, cold, emitted, cold)
  BY EmittedNat DEF Onward

(* A value that is accepted widens the types of what was given and is due.  *)
LEMMA Wider ==
  ASSUME ParametersOK, TypeOK, emitted' = emitted + 1
  PROVE  /\ received \in [Observers -> Seq(0 .. emitted')]
         /\ due \in [Observers -> SUBSET (0 .. emitted')]
         /\ emitted + 1 \in 0 .. emitted'
  <1>1. 0 .. emitted \subseteq 0 .. emitted' /\ emitted + 1 \in 0 .. emitted'
    BY EmittedNat
  <1>2. \A q \in Seq(0 .. emitted) : q \in Seq(0 .. emitted')
    BY <1>1, SeqGrows
  <1>3. QED
    BY <1>1, <1>2 DEF TypeOK

LEMMA TypeStep ==
  ASSUME ParametersOK, TypeInv, Retains, [Next]_vars
  PROVE  TypeInv'
  <1> USE DEF TypeInv
  <1>1. ASSUME NEW o \in Observers, NEW status \in {"active", "cancelled"}, Subscribe(o, status)
        PROVE  TypeInv'
    <2>1. /\ cold' \in [Observers -> {"new", "active", "cancelled", "ended"}]
          /\ cold'[o] = status /\ cold[o] = "new"
          /\ \A p \in Observers : p # o => cold'[p] = cold[p]
          /\ due' \in [Observers -> SUBSET (0 .. emitted)]
          /\ Onward(emitted, cold, emitted', cold')
      BY <1>1, SubscribeFacts DEF Subscribe
    <2>2. FramesOK(stack', emitted', cold') /\ stack' \in Seq(Frame)
      <3>1. PICK f \in Frame : FrameOK(f, emitted, cold') /\ Pushed(stack, f, stack')
        BY <1>1, SubscribeFacts
      <3>2. emitted' = emitted
        BY <1>1 DEF Subscribe
      <3>3. QED
        BY <2>1, <3>1, <3>2, FramesPushed DEF Pushed
    <2>3. UNCHANGED <<kind, state, buffer, emitted, received, told>>
      BY <1>1 DEF Subscribe
    <2>4. /\ fanout' \in SUBSET Observers /\ hooked' \in SUBSET Observers /\ fanout' \subseteq hooked'
          /\ \A p \in hooked' : p = o \/ p \in hooked
      BY <1>1 DEF Subscribe, TypeOK
    <2>5. TypeOK'
      BY <2>1, <2>2, <2>3, <2>4 DEF TypeOK
    <2>6. Strangers'
      BY <2>1, <2>3, <2>4 DEF Strangers
    <2>7. ToldAreOver'
      BY <2>1, <2>3 DEF ToldAreOver
    <2>8. QED
      BY <2>2, <2>5, <2>6, <2>7
  <1>2. ASSUME NEW o \in Observers, CallAbort(o) PROVE TypeInv'
    <2>1. /\ cold' \in [Observers -> {"new", "active", "cancelled", "ended"}]
          /\ cold'[o] = "cancelled" /\ cold[o] = "active"
          /\ \A p \in Observers : p # o => cold'[p] = cold[p]
          /\ Onward(emitted, cold, emitted', cold')
      BY <1>2, AbortCallFacts DEF CallAbort
    <2>2. FramesOK(stack', emitted', cold') /\ stack' \in Seq(Frame)
      <3>1. PICK f \in Frame : FrameOK(f, emitted', cold') /\ Pushed(stack, f, stack')
        BY <1>2, AbortCallFacts
      <3>2. QED
        BY <2>1, <3>1, FramesPushed DEF Pushed
    <2>3. UNCHANGED <<kind, state, fanout, buffer, hooked, emitted, received, due, told>>
      BY <1>2 DEF CallAbort
    <2>4. TypeOK'
      BY <2>1, <2>2, <2>3 DEF TypeOK
    <2>5. Strangers' /\ ToldAreOver'
      BY <2>1, <2>3 DEF Strangers, ToldAreOver
    <2>6. QED
      BY <2>2, <2>4, <2>5
  <1>3. ASSUME NEW o \in Observers, FanoutStep(o) PROVE TypeInv'
    <2>1. PICK g \in Frame : /\ FrameOK(g, emitted, cold) /\ Replaced(stack, g, stack')
                             /\ Rest(g, Top, Top.who \ {o}, Top.replay)
      BY <1>3, FanoutFacts
    <2>2. Top.op \in {"next", "end"} /\ o \in Top.who /\ stack # <<>>
      BY <1>3, FanoutFacts
    <2>3. UNCHANGED <<kind, state, buffer, emitted, due>>
      BY <1>3 DEF FanoutStep
    <2>4. CASE Top.op = "next"
      <3>1. Head(Top.replay) \in 0 .. emitted
        <4>1. Top.replay \in Seq(0 .. emitted) /\ Len(Top.replay) = 1
          BY <2>2, <2>4, TopFacts DEF FrameOK
        <4>2. Top.replay # <<>>
          BY <4>1, OneIsSome
        <4>3. QED
          BY <4>1, <4>2, PopFacts
      <3>2. Give(o, Head(Top.replay))
        BY <1>3, <2>4 DEF FanoutStep
      <3>3. /\ received' \in [Observers -> Seq(0 .. emitted)]
            /\ \A p \in Observers : p # o => received'[p] = received[p]
            /\ cold' = cold /\ hooked' = hooked /\ told' = told /\ fanout' = fanout
        BY <3>1, <3>2, GiveFacts
      <3>4. FramesOK(stack', emitted', cold') /\ stack' \in Seq(Frame)
        BY <2>1, <2>3, <3>3, SameOnward, FramesReplaced DEF Replaced
      <3>5. TypeOK'
        BY <2>3, <3>3, <3>4 DEF TypeOK
      <3>6. cold[o] # "new"
        BY <2>2, TopFacts DEF FrameOK
      <3>7. Strangers' /\ ToldAreOver'
        BY <3>3, <3>6 DEF Strangers, ToldAreOver
      <3>8. QED
        BY <3>4, <3>5, <3>7
    <2>5. CASE Top.op = "end"
      <3>1. End(o)
        BY <1>3, <2>5 DEF FanoutStep
      <3>2. Onward(emitted, cold, emitted', cold')
        BY <2>3, <3>1, EndedFacts
      <3>3. FramesOK(stack', emitted', cold') /\ stack' \in Seq(Frame)
        <4>1. FrameOK(g, emitted', cold')
          BY <2>1, <3>2, FrameStays
        <4>2. QED
          BY <2>1, <3>2, <4>1, FramesReplaced DEF Replaced
      <3>4. TypeOK'
        BY <2>3, <3>1, <3>3, EndedFacts DEF TypeOK
      <3>5. Strangers'
        BY <2>3, <3>1, <3>2, EndedFacts DEF Strangers, Onward
      <3>6. ToldAreOver'
        BY <2>3, <3>1, EndedFacts DEF ToldAreOver
      <3>7. QED
        BY <3>3, <3>4, <3>5, <3>6
    <2>6. QED
      BY <2>2, <2>4, <2>5
  <1>4. ASSUME NEW o \in Observers, SetupNext(o) PROVE TypeInv'
    <2>1. PICK g \in Frame : FrameOK(g, emitted, cold) /\ Replaced(stack, g, stack')
      BY <1>4, SetupNextFacts
    <2>2. stack # <<>> /\ Top.who = {o} /\ Head(Top.replay) \in 0 .. emitted
      BY <1>4, SetupNextFacts
    <2>3. UNCHANGED <<kind, state, buffer, emitted, due>> /\ Give(o, Head(Top.replay))
      BY <1>4 DEF SetupNext
    <2>4. /\ received' \in [Observers -> Seq(0 .. emitted)]
          /\ \A p \in Observers : p # o => received'[p] = received[p]
          /\ cold' = cold /\ hooked' = hooked /\ told' = told /\ fanout' = fanout
      BY <2>2, <2>3, GiveFacts
    <2>5. FramesOK(stack', emitted', cold') /\ stack' \in Seq(Frame)
      BY <2>1, <2>3, <2>4, SameOnward, FramesReplaced DEF Replaced
    <2>6. TypeOK'
      BY <2>3, <2>4, <2>5 DEF TypeOK
    <2>7. cold[o] # "new"
      BY <2>2, TopFacts DEF FrameOK
    <2>8. Strangers' /\ ToldAreOver'
      BY <2>4, <2>7 DEF Strangers, ToldAreOver
    <2>9. QED
      BY <2>5, <2>6, <2>8
  <1>5. ASSUME NEW o \in Observers, SetupDone(o) PROVE TypeInv'
    <2>1. /\ stack # <<>> /\ cold[o] # "new"
          /\ \/ Popped(stack, stack')
             \/ \E g \in Frame : FrameOK(g, emitted, cold) /\ Replaced(stack, g, stack')
      BY <1>5, SetupDoneFacts
    <2>2. UNCHANGED <<kind, state, buffer, emitted, due>>
      BY <1>5 DEF SetupDone
    <2>3. ASSUME Onward(emitted, cold, emitted', cold')
          PROVE  FramesOK(stack', emitted', cold') /\ stack' \in Seq(Frame)
      <3>1. CASE Popped(stack, stack')
        BY <2>3, <3>1, FramesPopped DEF Popped
      <3>2. CASE \E g \in Frame : FrameOK(g, emitted, cold) /\ Replaced(stack, g, stack')
        <4>1. PICK g \in Frame : FrameOK(g, emitted, cold) /\ Replaced(stack, g, stack')
          BY <3>2
        <4>2. FrameOK(g, emitted', cold')
          BY <2>3, <4>1, FrameStays
        <4>3. QED
          BY <2>3, <4>1, <4>2, FramesReplaced DEF Replaced
      <3>3. QED
        BY <2>1, <3>1, <3>2
    <2>4. CASE state # "active"
      <3>1. End(o)
        BY <1>5, <2>4 DEF SetupDone
      <3>2. Onward(emitted, cold, emitted', cold')
        BY <2>2, <3>1, EndedFacts
      <3>3. FramesOK(stack', emitted', cold') /\ stack' \in Seq(Frame)
        BY <2>3, <3>2
      <3>4. TypeOK'
        BY <2>2, <3>1, <3>3, EndedFacts DEF TypeOK
      <3>5. Strangers'
        BY <2>2, <3>1, <3>2, EndedFacts DEF Strangers, Onward
      <3>6. ToldAreOver'
        BY <2>2, <3>1, EndedFacts DEF ToldAreOver
      <3>7. QED
        BY <3>3, <3>4, <3>5, <3>6
    <2>5. CASE state = "active"
      <3>1. UNCHANGED <<cold, received, told>>
        BY <1>5, <2>5 DEF SetupDone
      <3>2. /\ fanout' \in SUBSET Observers /\ hooked' \in SUBSET Observers
            /\ fanout' \subseteq hooked' /\ \A p \in hooked' : p = o \/ p \in hooked
        BY <1>5, <2>5 DEF SetupDone, TypeOK
      <3>3. FramesOK(stack', emitted', cold') /\ stack' \in Seq(Frame)
        BY <2>2, <2>3, <3>1, SameOnward
      <3>4. TypeOK'
        BY <2>2, <3>1, <3>2, <3>3 DEF TypeOK
      <3>5. Strangers' /\ ToldAreOver'
        BY <2>1, <3>1, <3>2 DEF Strangers, ToldAreOver
      <3>6. QED
        BY <3>3, <3>4, <3>5
    <2>6. QED
      BY <2>4, <2>5
  <1>6. ASSUME NEW o \in Observers, AbortDone(o) PROVE TypeInv'
    <2>1. Popped(stack, stack') /\ RunTeardown(o)
      BY <1>6, PopStack DEF AbortDone, LibTurn, TypeOK
    <2>2. UNCHANGED <<kind, state, buffer, cold, emitted, received, due, told>>
      BY <1>6 DEF AbortDone
    <2>3. FramesOK(stack', emitted', cold') /\ stack' \in Seq(Frame)
      BY <2>1, <2>2, SameOnward, FramesPopped DEF Popped
    <2>4. TypeOK'
      BY <2>1, <2>2, <2>3, TeardownFacts DEF TypeOK
    <2>5. Strangers' /\ ToldAreOver'
      BY <2>1, <2>2, TeardownFacts DEF Strangers, ToldAreOver
    <2>6. QED
      BY <2>3, <2>4, <2>5
  <1>7. ASSUME FanoutDone \/ \E o \in Observers : SetupLeft(o) PROVE TypeInv'
    <2>1. Popped(stack, stack')
      BY <1>7, PopStack DEF FanoutDone, SetupLeft, LibTurn, TypeOK
    <2>2. UNCHANGED <<kind, state, fanout, buffer, cold, hooked, emitted, received, due, told>>
      BY <1>7 DEF FanoutDone, SetupLeft
    <2>3. FramesOK(stack', emitted', cold') /\ stack' \in Seq(Frame)
      BY <2>1, <2>2, SameOnward, FramesPopped DEF Popped
    <2>4. TypeOK' /\ Strangers' /\ ToldAreOver'
      BY <2>2, <2>3 DEF TypeOK, Strangers, ToldAreOver
    <2>5. QED
      BY <2>3, <2>4
  <1>8. ASSUME CallNext PROVE TypeInv'
    <2>1. PICK f \in Frame : FrameOK(f, emitted', cold') /\ Pushed(stack, f, stack')
      BY <1>8, NextFacts
    <2>2. /\ Onward(emitted, cold, emitted', cold') /\ emitted' = emitted + 1
          /\ emitted' \in 0 .. MaxValues
      BY <1>8, NextFacts
    <2>3. UNCHANGED <<kind, state, fanout, cold, hooked, received, told>>
      BY <1>8 DEF CallNext
    <2>4. FramesOK(stack', emitted', cold') /\ stack' \in Seq(Frame)
      BY <2>1, <2>2, FramesPushed DEF Pushed
    <2>5. buffer' \in Seq(0 .. emitted')
      BY <1>8, <2>2, RetainedFacts DEF CallNext
    <2>6. due' \in [Observers -> SUBSET (0 .. emitted')]
      BY <1>8, <2>2, Wider DEF CallNext
    <2>7. TypeOK'
      BY <2>2, <2>3, <2>4, <2>5, <2>6, Wider DEF TypeOK
    <2>8. Strangers' /\ ToldAreOver'
      BY <2>3 DEF Strangers, ToldAreOver
    <2>9. QED
      BY <2>4, <2>7, <2>8
  <1>9. ASSUME NEW end \in {"completed", "errored"}, CallEnd(end) PROVE TypeInv'
    <2>1. PICK f \in Frame : FrameOK(f, emitted', cold') /\ Pushed(stack, f, stack')
      BY <1>9, EndCallFacts
    <2>2. Onward(emitted, cold, emitted', cold')
      BY <1>9, EndCallFacts
    <2>3. /\ UNCHANGED <<kind, buffer, cold, hooked, emitted, received, due, told>>
          /\ state' = end /\ fanout' = {}
      BY <1>9 DEF CallEnd
    <2>4. FramesOK(stack', emitted', cold') /\ stack' \in Seq(Frame)
      BY <2>1, <2>2, FramesPushed DEF Pushed
    <2>5. TypeOK' /\ Strangers' /\ ToldAreOver'
      BY <2>3, <2>4 DEF TypeOK, Strangers, ToldAreOver
    <2>6. QED
      BY <2>4, <2>5
  <1>10. ASSUME CallbackEnds PROVE TypeInv'
    <2>1. PICK g \in Frame : FrameOK(g, emitted, cold) /\ Replaced(stack, g, stack')
      BY <1>10, CallbackFacts
    <2>2. UNCHANGED <<kind, state, fanout, buffer, cold, hooked, emitted, received, due, told>>
      BY <1>10 DEF CallbackEnds
    <2>3. FramesOK(stack', emitted', cold') /\ stack' \in Seq(Frame)
      BY <2>1, <2>2, SameOnward, FramesReplaced DEF Replaced
    <2>4. TypeOK' /\ Strangers' /\ ToldAreOver'
      BY <2>2, <2>3 DEF TypeOK, Strangers, ToldAreOver
    <2>5. QED
      BY <2>3, <2>4
  <1>11. CASE UNCHANGED vars
    BY <1>11 DEF vars, TypeOK, Strangers, ToldAreOver
  <1>12. QED
    BY <1>1, <1>2, <1>3, <1>4, <1>5, <1>6, <1>7, <1>8, <1>9, <1>10, <1>11 DEF Next

LEMMA RetainsStep ==
  ASSUME ParametersOK, TypeInv, Retains, [Next]_vars
  PROVE  Retains'
  <1>1. CASE CallNext
    <2>1. kind' = kind /\ emitted' = emitted + 1 /\ buffer' = Retained(emitted + 1)
      BY <1>1 DEF CallNext
    <2> DEFINE b == Retained(emitted + 1)
    <2>2. /\ b \in Seq(0 .. emitted + 1)
          /\ kind = "behavior" => Len(b) = 1
          /\ kind = "replay" =>
               /\ Len(b) = IF emitted + 1 < Size THEN emitted + 1 ELSE Size
               /\ \A i \in 1 .. Len(b) : b[i] = (emitted + 1) - Len(b) + i
      BY RetainedFacts
    <2> HIDE DEF b
    <2>3. kind = "replay" => b = [i \in 1 .. Len(b) |-> (emitted + 1) - Len(b) + i]
      BY <2>2
    <2>4. buffer' = b
      BY <2>1 DEF b
    <2>5. QED
      BY <2>1, <2>2, <2>3, <2>4 DEF Retains, BufferIsNewest
  <1>2. CASE UNCHANGED <<kind, buffer, emitted>>
    BY <1>2 DEF Retains, BufferIsNewest
  <1>3. QED
    BY <1>1, <1>2 DEF Next, Subscribe, CallAbort, FanoutStep, SetupNext, SetupLeft, SetupDone,
       AbortDone, CallEnd, FanoutDone, CallbackEnds, vars

-----------------------------------------------------------------------------
(* Everyone is led to the fan-out or the end.                               *)

LEMMA TopLeads ==
  ASSUME TypeInv, stack # <<>>, NEW p
  PROVE  /\ Leads(stack[1], p) => Top.op \in {"setup", "end"} /\ p \in Top.who
         /\ Pending(stack[1], p) = IF Top.op \in {"setup", "next"} /\ p \in Top.who
                                   THEN ToSet(Top.replay) ELSE {}
  BY TopFacts DEF Leads, Pending

LEMMA AwaitedStep ==
  ASSUME ParametersOK, TypeInv, Retains, Joined, Awaited, [Next]_vars
  PROVE  Joined' /\ Awaited'
  <1> USE DEF TypeInv
  <1>1. ASSUME NEW o \in Observers, NEW status \in {"active", "cancelled"}, Subscribe(o, status)
        PROVE  Joined' /\ Awaited'
    <2>1. PICK f \in Frame : f.op = "setup" /\ f.who = {o} /\ Pushed(stack, f, stack')
      BY <1>1, SubscribeFacts
    <2>2. \A p \in Observers : p # o => cold'[p] = cold[p]
      BY <1>1, SubscribeFacts
    <2>3. /\ kind' = kind /\ state' = state /\ fanout \subseteq fanout'
          /\ state # "active" => fanout' = fanout
          /\ kind = "replay" /\ state = "active" => o \in fanout'
      BY <1>1 DEF Subscribe, JoinsFirst
    <2>4. ASSUME NEW p \in Observers, cold'[p] = "active"
          PROVE  p \in fanout' \/ Led(p, stack')
      <3>1. CASE p = o
        BY <2>1, <3>1, LedPushed DEF Leads
      <3>2. CASE p # o
        BY <2>1, <2>2, <2>3, <2>4, <3>2, LedPushed DEF Awaited
      <3>3. QED
        BY <3>1, <3>2
    <2>5. QED
      BY <2>2, <2>3, <2>4 DEF Joined, Awaited
  <1>2. ASSUME NEW o \in Observers, CallAbort(o) PROVE Joined' /\ Awaited'
    <2>1. PICK f \in Frame : Pushed(stack, f, stack')
      BY <1>2, AbortCallFacts
    <2>2. cold'[o] = "cancelled" /\ \A p \in Observers : p # o => cold'[p] = cold[p]
      BY <1>2, AbortCallFacts
    <2>3. kind' = kind /\ state' = state /\ fanout' = fanout
      BY <1>2 DEF CallAbort
    <2>4. ASSUME NEW p \in Observers, cold'[p] = "active"
          PROVE  p \in fanout' \/ Led(p, stack')
      BY <2>1, <2>2, <2>3, <2>4, LedPushed DEF Awaited
    <2>5. QED
      BY <2>2, <2>3, <2>4 DEF Joined, Awaited
  <1>3. ASSUME NEW o \in Observers, FanoutStep(o) PROVE Joined' /\ Awaited'
    <2>1. PICK g \in Frame : /\ Rest(g, Top, Top.who \ {o}, Top.replay)
                             /\ Replaced(stack, g, stack')
      BY <1>3, FanoutFacts
    <2>2. Top.op \in {"next", "end"} /\ o \in Top.who /\ stack # <<>>
      BY <1>3, FanoutFacts
    <2>3. kind' = kind /\ state' = state /\ emitted' = emitted
      BY <1>3 DEF FanoutStep
    <2>4. CASE Top.op = "next"
      <3>1. cold' = cold /\ fanout' = fanout
        BY <1>3, <2>4 DEF FanoutStep, Give
      <3>2. ASSUME NEW p PROVE ~Leads(stack[1], p)
        BY <2>2, <2>4, TopLeads
      <3>3. ASSUME NEW p \in Observers, Led(p, stack) PROVE Led(p, stack')
        BY <2>1, <3>2, <3>3, LedReplaced
      <3>4. QED
        BY <2>3, <3>1, <3>3 DEF Joined, Awaited
    <2>5. CASE Top.op = "end"
      <3>1. End(o)
        BY <1>3, <2>5 DEF FanoutStep
      <3>2. /\ cold'[o] # "active" /\ \A p \in Observers : p # o => cold'[p] = cold[p]
            /\ fanout' \subseteq fanout /\ \A p \in fanout : p # o => p \in fanout'
        BY <2>3, <3>1, EndedFacts
      <3>3. ASSUME NEW p \in Observers, p # o, Led(p, stack) PROVE Led(p, stack')
        <4>1. Leads(stack[1], p) => Leads(g, p)
          BY <2>1, <2>2, <3>3, TopLeads DEF Leads, Rest
        <4>2. QED
          BY <2>1, <3>3, <4>1, LedReplaced
      <3>4. QED
        BY <2>3, <3>2, <3>3 DEF Joined, Awaited
    <2>6. QED
      BY <2>2, <2>4, <2>5
  <1>4. ASSUME NEW o \in Observers, SetupNext(o) PROVE Joined' /\ Awaited'
    <2>1. PICK g \in Frame : Rest(g, Top, {o}, Tail(Top.replay)) /\ Replaced(stack, g, stack')
      BY <1>4, SetupNextFacts
    <2>2. stack # <<>> /\ Top.op = "setup" /\ Top.who = {o}
      BY <1>4, SetupNextFacts
    <2>3. UNCHANGED <<kind, state, cold, fanout>>
      BY <1>4 DEF SetupNext, Give
    <2>4. ASSUME NEW p \in Observers, Led(p, stack) PROVE Led(p, stack')
      <3>1. Leads(stack[1], p) => Leads(g, p)
        BY <2>1, <2>2, TopLeads DEF Leads, Rest
      <3>2. QED
        BY <2>1, <2>4, <3>1, LedReplaced
    <2>5. QED
      BY <2>3, <2>4 DEF Joined, Awaited
  <1>5. ASSUME NEW o \in Observers, SetupLeft(o) PROVE Joined' /\ Awaited'
    <2>1. stack # <<>> /\ Top.who = {o} /\ cold[o] # "active" /\ Popped(stack, stack')
      BY <1>5, PopStack DEF SetupLeft, LibTurn, TypeOK
    <2>2. UNCHANGED <<kind, state, cold, fanout>>
      BY <1>5 DEF SetupLeft
    <2>3. ASSUME NEW p \in Observers, cold[p] = "active", Led(p, stack) PROVE Led(p, stack')
      <3>1. ~Leads(stack[1], p)
        BY <2>1, <2>3, TopLeads
      <3>2. QED
        BY <2>1, <2>3, <3>1, LedPopped
    <2>4. QED
      BY <2>2, <2>3 DEF Joined, Awaited
  <1>6. ASSUME NEW o \in Observers, SetupDone(o) PROVE Joined' /\ Awaited'
    <2>1. /\ stack # <<>> /\ Top.who = {o}
          /\ \/ Popped(stack, stack')
             \/ \E g \in Frame : Replaced(stack, g, stack')
      BY <1>6, SetupDoneFacts
    <2>2. UNCHANGED <<kind, state, emitted>>
      BY <1>6 DEF SetupDone
    <2>3. ASSUME NEW p \in Observers, p # o, Led(p, stack) PROVE Led(p, stack')
      <3>1. ~Leads(stack[1], p)
        BY <2>1, <2>3, TopLeads
      <3>2. QED
        BY <2>1, <2>3, <3>1, LedPopped, LedReplaced
    <2>4. CASE state # "active"
      <3>1. End(o)
        BY <1>6, <2>4 DEF SetupDone
      <3>2. /\ cold'[o] # "active" /\ \A p \in Observers : p # o => cold'[p] = cold[p]
            /\ fanout' \subseteq fanout /\ \A p \in fanout : p # o => p \in fanout'
        BY <2>2, <3>1, EndedFacts
      <3>3. QED
        BY <2>2, <2>3, <2>4, <3>2 DEF Joined, Awaited
    <2>5. CASE state = "active"
      <3>1. /\ cold' = cold /\ fanout \subseteq fanout'
            /\ kind = "behavior" => o \in fanout'
        BY <1>6, <2>5 DEF SetupDone, JoinsFirst
      <3>2. cold[o] = "active" => o \in fanout'
        BY <2>5, <3>1 DEF Joined, TypeOK
      <3>3. ASSUME NEW p \in Observers, cold'[p] = "active"
            PROVE  p \in fanout' \/ Led(p, stack')
        BY <2>3, <3>1, <3>2, <3>3 DEF Awaited
      <3>4. QED
        BY <2>2, <2>5, <3>1, <3>3 DEF Joined, Awaited
    <2>6. QED
      BY <2>4, <2>5
  <1>7. ASSUME NEW o \in Observers, AbortDone(o) PROVE Joined' /\ Awaited'
    <2>1. /\ stack # <<>> /\ Top.op = "abort" /\ Top.who = {o} /\ RunTeardown(o)
          /\ Popped(stack, stack')
      BY <1>7, PopStack DEF AbortDone, LibTurn, TypeOK
    <2>2. UNCHANGED <<kind, state, cold>>
      BY <1>7 DEF AbortDone
    <2>3. cold[o] = "cancelled"
      BY <2>1, TopFacts DEF FrameOK
    <2>4. fanout' \subseteq fanout /\ \A p \in fanout : p # o => p \in fanout'
      BY <2>1, TeardownFacts
    <2>5. ASSUME NEW p \in Observers, Led(p, stack) PROVE Led(p, stack')
      <3>1. ~Leads(stack[1], p)
        BY <2>1, TopLeads
      <3>2. QED
        BY <2>1, <2>5, <3>1, LedPopped
    <2>6. QED
      BY <2>2, <2>3, <2>4, <2>5 DEF Joined, Awaited
  <1>8. ASSUME FanoutDone PROVE Joined' /\ Awaited'
    <2>1. stack # <<>> /\ Top.who = {} /\ Popped(stack, stack')
      BY <1>8, PopStack DEF FanoutDone, LibTurn, TypeOK
    <2>2. UNCHANGED <<kind, state, cold, fanout>>
      BY <1>8 DEF FanoutDone
    <2>3. ASSUME NEW p \in Observers, Led(p, stack) PROVE Led(p, stack')
      <3>1. ~Leads(stack[1], p)
        BY <2>1, TopLeads
      <3>2. QED
        BY <2>1, <2>3, <3>1, LedPopped
    <2>4. QED
      BY <2>2, <2>3 DEF Joined, Awaited
  <1>9. ASSUME CallNext PROVE Joined' /\ Awaited'
    <2>1. PICK f \in Frame : Pushed(stack, f, stack')
      BY <1>9, NextFacts
    <2>2. UNCHANGED <<kind, state, cold, fanout>>
      BY <1>9 DEF CallNext
    <2>3. ASSUME NEW p \in Observers, Led(p, stack) PROVE Led(p, stack')
      BY <2>1, <2>3, LedPushed
    <2>4. QED
      BY <2>2, <2>3 DEF Joined, Awaited
  <1>10. ASSUME NEW end \in {"completed", "errored"}, CallEnd(end) PROVE Joined' /\ Awaited'
    <2>1. PICK f \in Frame : f.op = "end" /\ f.who = fanout /\ Pushed(stack, f, stack')
      BY <1>10, EndCallFacts
    <2>2. cold' = cold /\ state' # "active" /\ fanout' = {}
      BY <1>10 DEF CallEnd
    <2>3. ASSUME NEW p \in Observers, cold[p] = "active" PROVE Led(p, stack')
      <3>1. p \in fanout => Leads(f, p)
        BY <2>1 DEF Leads
      <3>2. Leads(f, p) \/ Led(p, stack)
        BY <2>3, <3>1 DEF Awaited
      <3>3. QED
        BY <2>1, <3>2, LedPushed
    <2>4. QED
      BY <2>2, <2>3 DEF Joined, Awaited
  <1>11. ASSUME CallbackEnds PROVE Joined' /\ Awaited'
    <2>1. stack # <<>>
      BY <1>11, CallbackFacts
    <2>2. PICK g \in Frame : Rest(g, Top, Top.who, Top.replay) /\ Replaced(stack, g, stack')
      BY <1>11, CallbackFacts
    <2>3. UNCHANGED <<kind, state, cold, fanout>>
      BY <1>11 DEF CallbackEnds
    <2>4. ASSUME NEW p \in Observers, Led(p, stack) PROVE Led(p, stack')
      <3>1. Leads(stack[1], p) => Leads(g, p)
        BY <2>1, <2>2, TopLeads DEF Leads, Rest
      <3>2. QED
        BY <2>2, <2>4, <3>1, LedReplaced
    <2>5. QED
      BY <2>3, <2>4 DEF Joined, Awaited
  <1>12. CASE UNCHANGED vars
    BY <1>12 DEF vars, Joined, Awaited
  <1>13. QED
    BY <1>1, <1>2, <1>3, <1>4, <1>5, <1>6, <1>7, <1>8, <1>9, <1>10, <1>11, <1>12 DEF Next

-----------------------------------------------------------------------------
(* What is due is given.                                                    *)

LEMMA ActiveTyped ==
  ASSUME TypeOK, NEW p \in Observers
  PROVE  received[p] \in Seq(0 .. emitted) /\ due[p] \subseteq 0 .. emitted
  BY DEF TypeOK

LEMMA FedStep ==
  ASSUME ParametersOK, TypeInv, Retains, Joined, Fed, [Next]_vars
  PROVE  Fed'
  <1> USE DEF TypeInv
  <1>1. ASSUME NEW o \in Observers, NEW status \in {"active", "cancelled"}, Subscribe(o, status)
        PROVE  Fed'
    <2>1. PICK f \in Frame : /\ f.op = "setup" /\ f.who = {o}
                             /\ due'[o] = ToSet(f.replay) /\ Pushed(stack, f, stack')
      BY <1>1, SubscribeFacts
    <2>2. \A p \in Observers : p # o => cold'[p] = cold[p] /\ due'[p] = due[p]
      BY <1>1, SubscribeFacts
    <2>3. received' = received /\ cold[o] = "new"
      BY <1>1 DEF Subscribe
    <2>4. Balanced(o, stack', received'[o], due'[o])
      <3>1. received'[o] = <<>>
        BY <2>3 DEF Strangers
      <3>2. \A i \in 1 .. Len(stack) : Pending(stack[i], o) = {}
        BY <2>3 DEF FramesOK, FrameOK, Pending
      <3>3. due'[o] = Pending(f, o)
        BY <2>1 DEF Pending
      <3>4. Balanced(o, stack', <<>>, Pending(f, o))
        BY <2>1, <3>2, BalancedFirst
      <3>5. QED
        BY <3>1, <3>3, <3>4
    <2>5. ASSUME NEW p \in Observers, p # o, cold'[p] = "active"
          PROVE  Balanced(p, stack', received'[p], due'[p])
      <3>1. Balanced(p, stack, received[p], due[p])
        BY <2>2, <2>5 DEF Fed
      <3>2. Pending(f, p) = {}
        BY <2>1, <2>5 DEF Pending
      <3>3. Balanced(p, stack', received[p], due[p] \cup Pending(f, p))
        BY <2>1, <3>1, <3>2, BalancedPushed
      <3>4. due[p] \cup Pending(f, p) = due'[p]
        BY <2>2, <2>5, <3>2
      <3>5. QED
        BY <2>3, <3>3, <3>4
    <2>6. QED
      BY <2>4, <2>5 DEF Fed
  <1>2. ASSUME NEW f \in Frame, f.op \in {"end", "abort"}, Pushed(stack, f, stack'),
               UNCHANGED <<received, due>>,
               \A p \in Observers : cold'[p] = "active" => cold[p] = "active"
        PROVE  Fed'
    <2> SUFFICES ASSUME NEW p \in Observers, cold'[p] = "active"
                 PROVE  Balanced(p, stack', received'[p], due'[p])
      BY DEF Fed
    <2>1. Balanced(p, stack, received[p], due[p]) /\ Pending(f, p) = {}
      BY <1>2 DEF Fed, Pending
    <2>2. Balanced(p, stack', received[p], due[p] \cup Pending(f, p))
      BY <1>2, <2>1, BalancedPushed
    <2>3. due[p] \cup Pending(f, p) = due[p]
      BY <2>1
    <2>4. QED
      BY <1>2, <2>2, <2>3
  <1>3. ASSUME Popped(stack, stack'), UNCHANGED <<received, due>>,
               \A p \in Observers : cold'[p] = "active" => cold[p] = "active"
                                                           /\ Pending(stack[1], p) = {}
        PROVE  Fed'
    <2> SUFFICES ASSUME NEW p \in Observers, cold'[p] = "active"
                 PROVE  Balanced(p, stack', received'[p], due'[p])
      BY DEF Fed
    <2>1. Balanced(p, stack, received[p], due[p]) /\ Pending(stack[1], p) = {}
      BY <1>3 DEF Fed
    <2>2. QED
      BY <1>3, <2>1, BalancedPopped
  <1>4. ASSUME NEW g, Replaced(stack, g, stack'), UNCHANGED <<received, due>>,
               \A p \in Observers : cold'[p] = "active" =>
                 cold[p] = "active" /\ Pending(g, p) = Pending(stack[1], p)
        PROVE  Fed'
    <2> SUFFICES ASSUME NEW p \in Observers, cold'[p] = "active"
                 PROVE  Balanced(p, stack', received'[p], due'[p])
      BY DEF Fed
    <2>1. Balanced(p, stack, received[p], due[p]) /\ Pending(g, p) = Pending(stack[1], p)
      BY <1>4 DEF Fed
    <2>2. QED
      BY <1>4, <2>1, BalancedReplaced
  (* A value is given to o, if it is active, and taken from what the         *)
  (* innermost call has left for it.                                         *)
  <1>5. ASSUME NEW g, NEW o \in Observers, NEW v \in 0 .. emitted,
               Replaced(stack, g, stack'), Give(o, v), due' = due,
               v \notin Pending(g, o), Pending(stack[1], o) = Pending(g, o) \cup {v},
               \A p \in Observers : p # o => Pending(g, p) = Pending(stack[1], p)
        PROVE  Fed'
    <2> SUFFICES ASSUME NEW p \in Observers, cold'[p] = "active"
                 PROVE  Balanced(p, stack', received'[p], due'[p])
      BY DEF Fed
    <2>1. cold[p] = "active"
      BY <1>5 DEF Give
    <2>2. Balanced(p, stack, received[p], due[p]) /\ received[p] \in Seq(0 .. emitted)
      BY <2>1, ActiveTyped DEF Fed
    <2>3. CASE p = o
      <3>1. received'[o] = Append(received[o], v)
        BY <1>5, <2>1, <2>3, GiveFacts
      <3>2. Balanced(o, stack', Append(received[o], v), due[o])
        BY <1>5, <2>2, <2>3, BalancedGiven
      <3>3. QED
        BY <1>5, <2>3, <3>1, <3>2
    <2>4. CASE p # o
      <3>1. received'[p] = received[p] /\ Pending(g, p) = Pending(stack[1], p)
        BY <1>5, <2>4, GiveFacts
      <3>2. QED
        BY <1>5, <2>2, <3>1, BalancedReplaced
    <2>5. QED
      BY <2>3, <2>4
  <1>6. ASSUME NEW o \in Observers, CallAbort(o) PROVE Fed'
    <2>1. PICK f \in Frame : f.op = "abort" /\ Pushed(stack, f, stack')
      BY <1>6, AbortCallFacts
    <2>2. \A p \in Observers : cold'[p] = "active" => cold[p] = "active"
      BY <1>6, AbortCallFacts
    <2>3. UNCHANGED <<received, due>>
      BY <1>6 DEF CallAbort
    <2>4. QED
      BY <2>1, <2>2, <2>3, <1>2
  <1>7. ASSUME NEW end \in {"completed", "errored"}, CallEnd(end) PROVE Fed'
    <2>1. PICK f \in Frame : f.op = "end" /\ Pushed(stack, f, stack')
      BY <1>7, EndCallFacts
    <2>2. UNCHANGED <<received, due, cold>>
      BY <1>7 DEF CallEnd
    <2>3. QED
      BY <2>1, <2>2, <1>2
  <1>8. ASSUME CallNext PROVE Fed'
    <2>1. PICK f \in Frame : /\ f.op = "next" /\ f.who = fanout
                             /\ ToSet(f.replay) = {emitted + 1} /\ Pushed(stack, f, stack')
      BY <1>8, NextFacts
    <2>2. UNCHANGED <<cold, received>> /\ state = "active"
      BY <1>8 DEF CallNext
    <2> SUFFICES ASSUME NEW p \in Observers, cold[p] = "active"
                 PROVE  Balanced(p, stack', received[p], due'[p])
      BY <2>2 DEF Fed
    <2>3. Pending(f, p) = IF p \in fanout THEN {emitted + 1} ELSE {}
      BY <2>1 DEF Pending
    <2>4. Pending(f, p) \cap due[p] = {}
      <3>1. emitted + 1 \notin due[p]
        BY EmittedNat, ActiveTyped
      <3>2. QED
        BY <2>3, <3>1
    <2>5. kind = "replay" => p \in fanout
      BY <2>2 DEF Joined
    <2>6. due'[p] = due[p] \cup Pending(f, p)
      <3>1. due'[p] = IF kind = "replay" \/ p \in fanout THEN due[p] \cup {emitted + 1} ELSE due[p]
        BY <1>8 DEF CallNext
      <3>2. QED
        BY <2>3, <2>5, <3>1
    <2>7. Balanced(p, stack, received[p], due[p])
      BY DEF Fed
    <2>8. QED
      BY <2>1, <2>4, <2>6, <2>7, BalancedPushed
  <1>9. ASSUME NEW o \in Observers, FanoutStep(o) PROVE Fed'
    <2>1. PICK g \in Frame : /\ Rest(g, Top, Top.who \ {o}, Top.replay)
                             /\ Replaced(stack, g, stack')
      BY <1>9, FanoutFacts
    <2>2. Top.op \in {"next", "end"} /\ o \in Top.who /\ stack # <<>>
      BY <1>9, FanoutFacts
    <2>3. due' = due /\ emitted' = emitted
      BY <1>9 DEF FanoutStep
    <2>4. \A p \in Observers : p # o => Pending(g, p) = Pending(stack[1], p)
      BY <2>1, <2>2, TopLeads DEF Pending, Rest
    <2>5. CASE Top.op = "next"
      <3>1. Top.replay \in Seq(0 .. emitted) /\ Len(Top.replay) = 1
        BY <2>2, <2>5, TopFacts DEF FrameOK
      <3>2. Top.replay # <<>>
        BY <3>1, OneIsSome
      <3>3. Head(Top.replay) \in 0 .. emitted /\ Head(Top.replay) = Top.replay[1]
        BY <3>1, <3>2, PopFacts
      <3>4. ToSet(Top.replay) = {Head(Top.replay)}
        BY <3>1, <3>3, ToSetIs
      <3>5. Pending(stack[1], o) = ToSet(Top.replay) /\ Pending(g, o) = {}
        BY <2>1, <2>2, <2>5, TopLeads DEF Pending, Rest
      <3>6. Give(o, Head(Top.replay))
        BY <1>9, <2>5 DEF FanoutStep
      <3>7. QED
        BY <2>1, <2>3, <2>4, <3>3, <3>4, <3>5, <3>6, <1>5
    <2>6. CASE Top.op = "end"
      <3>1. End(o)
        BY <1>9, <2>6 DEF FanoutStep
      <3>2. /\ received' = received /\ cold'[o] # "active"
            /\ \A p \in Observers : p # o => cold'[p] = cold[p]
        BY <2>3, <3>1, EndedFacts
      <3>3. QED
        BY <2>1, <2>3, <2>4, <3>2, <1>4
    <2>7. QED
      BY <2>2, <2>5, <2>6
  <1>10. ASSUME NEW o \in Observers, SetupNext(o) PROVE Fed'
    <2>1. PICK g \in Frame : /\ Rest(g, Top, {o}, Tail(Top.replay))
                             /\ Head(Top.replay) \notin ToSet(g.replay)
                             /\ ToSet(Top.replay) = ToSet(g.replay) \cup {Head(Top.replay)}
                             /\ Replaced(stack, g, stack')
      BY <1>10, SetupNextFacts
    <2>2. /\ stack # <<>> /\ Top.op = "setup" /\ Top.who = {o}
          /\ Head(Top.replay) \in 0 .. emitted
      BY <1>10, SetupNextFacts
    <2>3. due' = due /\ Give(o, Head(Top.replay))
      BY <1>10 DEF SetupNext
    <2>4. Pending(stack[1], o) = ToSet(Top.replay) /\ Pending(g, o) = ToSet(g.replay)
      BY <2>1, <2>2, TopLeads DEF Pending, Rest
    <2>5. \A p \in Observers : p # o => Pending(g, p) = Pending(stack[1], p)
      BY <2>1, <2>2, TopLeads DEF Pending, Rest
    <2>6. QED
      BY <2>1, <2>2, <2>3, <2>4, <2>5, <1>5
  <1>11. ASSUME NEW o \in Observers, SetupLeft(o) PROVE Fed'
    <2>1. stack # <<>> /\ Top.who = {o} /\ cold[o] # "active" /\ Popped(stack, stack')
      BY <1>11, PopStack DEF SetupLeft, LibTurn, TypeOK
    <2>2. UNCHANGED <<cold, received, due>>
      BY <1>11 DEF SetupLeft
    <2>3. ASSUME NEW p \in Observers, cold'[p] = "active"
          PROVE  cold[p] = "active" /\ Pending(stack[1], p) = {}
      BY <2>1, <2>2, <2>3, TopLeads
    <2>4. QED
      BY <2>1, <2>2, <2>3, <1>3
  <1>12. ASSUME NEW o \in Observers, SetupDone(o) PROVE Fed'
    <2>1. /\ stack # <<>> /\ Top.op = "setup" /\ Top.who = {o} /\ Top.replay = <<>>
          /\ \/ Popped(stack, stack')
             \/ \E g \in Frame : g.op = "end" /\ Replaced(stack, g, stack')
      BY <1>12, SetupDoneFacts
    <2>2. UNCHANGED <<emitted, due, received>>
      BY <1>12 DEF SetupDone, End
    <2>3. \A p \in Observers : cold'[p] = "active" => cold[p] = "active"
      <3>1. CASE state # "active"
        <4>1. End(o)
          BY <1>12, <3>1 DEF SetupDone
        <4>2. QED
          BY <2>2, <4>1, EndedFacts
      <3>2. CASE state = "active"
        BY <1>12, <3>2 DEF SetupDone
      <3>3. QED
        BY <3>1, <3>2
    <2>4. ASSUME NEW p \in Observers PROVE Pending(stack[1], p) = {}
      BY <2>1, TopLeads, NoneFrame
    <2>5. CASE Popped(stack, stack')
      BY <2>2, <2>3, <2>4, <2>5, <1>3
    <2>6. CASE \E g \in Frame : g.op = "end" /\ Replaced(stack, g, stack')
      <3>1. PICK g \in Frame : g.op = "end" /\ Replaced(stack, g, stack')
        BY <2>6
      <3>2. \A p \in Observers : Pending(g, p) = {}
        BY <3>1 DEF Pending
      <3>3. QED
        BY <2>2, <2>3, <2>4, <3>1, <3>2, <1>4
    <2>7. QED
      BY <2>1, <2>5, <2>6
  <1>13. ASSUME NEW o \in Observers, AbortDone(o) PROVE Fed'
    <2>1. stack # <<>> /\ Top.op = "abort" /\ Popped(stack, stack')
      BY <1>13, PopStack DEF AbortDone, LibTurn, TypeOK
    <2>2. UNCHANGED <<cold, received, due>>
      BY <1>13 DEF AbortDone
    <2>3. ASSUME NEW p \in Observers PROVE Pending(stack[1], p) = {}
      BY <2>1, TopLeads
    <2>4. QED
      BY <2>1, <2>2, <2>3, <1>3
  <1>14. ASSUME FanoutDone PROVE Fed'
    <2>1. stack # <<>> /\ Top.who = {} /\ Popped(stack, stack')
      BY <1>14, PopStack DEF FanoutDone, LibTurn, TypeOK
    <2>2. UNCHANGED <<cold, received, due>>
      BY <1>14 DEF FanoutDone
    <2>3. ASSUME NEW p \in Observers PROVE Pending(stack[1], p) = {}
      BY <2>1, TopLeads
    <2>4. QED
      BY <2>1, <2>2, <2>3, <1>3
  <1>15. ASSUME CallbackEnds PROVE Fed'
    <2>1. stack # <<>>
      BY <1>15, CallbackFacts
    <2>2. PICK g \in Frame : Rest(g, Top, Top.who, Top.replay) /\ Replaced(stack, g, stack')
      BY <1>15, CallbackFacts
    <2>3. UNCHANGED <<cold, received, due>>
      BY <1>15 DEF CallbackEnds
    <2>4. ASSUME NEW p \in Observers PROVE Pending(g, p) = Pending(stack[1], p)
      BY <2>1, <2>2, TopLeads DEF Pending, Rest
    <2>5. QED
      BY <2>2, <2>3, <2>4, <1>4
  <1>16. CASE UNCHANGED vars
    BY <1>16 DEF vars, Fed
  <1>17. QED
    BY <1>1, <1>6, <1>7, <1>8, <1>9, <1>10, <1>11, <1>12, <1>13, <1>14, <1>15, <1>16 DEF Next

-----------------------------------------------------------------------------
(* The invariant holds.                                                     *)

LEMMA SubjectInit ==
  ASSUME ParametersOK, Init
  PROVE  SubjectInv
  <1>1. 0 \in 0 .. 0 /\ 0 \in 0 .. MaxValues
    BY DEF ParametersOK
  <1>2. stack = <<>> /\ stack \in Seq(Frame) /\ Len(stack) = 0
    BY DEF Init
  <1>3. /\ buffer \in Seq(0 .. 0)
        /\ kind = "behavior" => Len(buffer) = 1
        /\ kind = "replay" => buffer = <<>>
    <2>1. <<0>> \in Seq(0 .. 0) /\ Len(<<0>>) = 1 /\ <<>> \in Seq(0 .. 0)
      BY <1>1
    <2>2. buffer = IF kind = "behavior" THEN <<0>> ELSE <<>>
      BY DEF Init
    <2>3. QED
      BY <2>1, <2>2
  <1>4. TypeOK
    <2>1. <<>> \in Seq(0 .. 0)
      OBVIOUS
    <2>2. QED
      BY <1>1, <1>2, <1>3, <2>1 DEF Init, TypeOK
  <1>5. FramesOK(stack, emitted, cold)
    BY <1>2 DEF FramesOK
  <1>6. Strangers /\ ToldAreOver
    BY DEF Init, Strangers, ToldAreOver
  <1>7. Retains
    <2>1. ASSUME kind = "replay" PROVE BufferIsNewest
      <3>1. buffer = <<>> /\ Len(buffer) = 0 /\ emitted = 0
        BY <1>3, <2>1 DEF Init
      <3>2. buffer = [i \in 1 .. Len(buffer) |-> emitted - Len(buffer) + i]
        BY <3>1
      <3>3. 0 = IF 0 < Size THEN 0 ELSE Size
        BY DEF ParametersOK
      <3>4. QED
        BY <3>1, <3>2, <3>3 DEF BufferIsNewest
    <2>2. QED
      BY <1>3, <2>1 DEF Retains, BufferIsNewest
  <1>8. Fed /\ Joined /\ Awaited
    BY DEF Init, Fed, Joined, Awaited
  <1>9. QED
    BY <1>4, <1>5, <1>6, <1>7, <1>8 DEF SubjectInv, TypeInv

(* The invariant, of a Subject whose size and bounds are numbers.           *)
LEMMA SubjectNext ==
  ASSUME ParametersOK, SubjectInv, [Next]_vars
  PROVE  SubjectInv'
<1>1. TypeInv' /\ Retains'
  BY TypeStep, RetainsStep DEF SubjectInv
<1>2. Joined' /\ Awaited' /\ Fed'
  BY AwaitedStep, FedStep DEF SubjectInv
<1>3. QED
  BY <1>1, <1>2 DEF SubjectInv

LEMMA SubjectInvariant ==
  ASSUME ParametersOK
  PROVE  Spec => []SubjectInv
  <1>1. Init => SubjectInv
    BY SubjectInit
  <1>2. SubjectInv /\ [Next]_vars => SubjectInv'
    BY SubjectNext
  <1>3. QED
    BY <1>1, <1>2, PTL DEF Spec

(* Whatever the callbacks do, the variables keep their types: nobody is     *)
(* told of two ends, and whoever is in the fan-out has a teardown that will *)
(* take it out.                                                             *)
THEOREM SubjectTyped ==
  ASSUME ParametersOK
  PROVE  Spec => []TypeOK
  <1>1. SubjectInv => TypeOK
    BY DEF SubjectInv, TypeInv
  <1>2. QED
    BY <1>1, SubjectInvariant, PTL

(* A replaySubject retains the newest values, in order, and as many as its  *)
(* size allows, for any size (replay-subject.ts:38 and 76).                 *)
THEOREM NewestRetained ==
  ASSUME ParametersOK
  PROVE  Spec => []BufferIsNewest
  <1>1. SubjectInv => BufferIsNewest
    BY DEF SubjectInv, Retains
  <1>2. QED
    BY <1>1, SubjectInvariant, PTL

(* When no call is in progress, each subscribed observer was given exactly   *)
(* what it was due, each value once: what was retained when it came and all  *)
(* that was emitted since, whether by a callback, by the replay of another   *)
(* observer or during its own replay.                                        *)
THEOREM ValuesGivenOnce ==
  ASSUME ParametersOK
  PROVE  Spec => []EachValueOnce
  <1>1. ASSUME SubjectInv, stack = <<>>, NEW o \in Observers, cold[o] = "active"
        PROVE  ToSet(received[o]) = due[o] /\ Len(received[o]) = Cardinality(due[o])
    <2>1. Balanced(o, stack, received[o], due[o]) /\ received[o] \in Seq(0 .. emitted)
      BY <1>1, ActiveTyped DEF SubjectInv, Fed, TypeInv
    <2>2. Once(received[o]) /\ \A i \in 1 .. Len(received[o]) : received[o][i] \in due[o]
      BY <2>1 DEF Balanced
    <2>3. \A v \in due[o] : \E i \in 1 .. Len(received[o]) : received[o][i] = v
      BY <1>1, <2>1 DEF Balanced
    <2>4. ToSet(received[o]) = due[o]
      <3>1. ASSUME NEW v \in ToSet(received[o]) PROVE v \in due[o]
        <4>1. PICK i \in 1 .. Len(received[o]) : v = received[o][i]
          BY <2>1, ToSetIs
        <4>2. QED
          BY <4>1, <2>2
      <3>2. ASSUME NEW v \in due[o] PROVE v \in ToSet(received[o])
        <4>1. PICK i \in 1 .. Len(received[o]) : received[o][i] = v
          BY <2>3
        <4>2. QED
          BY <4>1, <2>1, ToSetIs
      <3>3. QED
        BY <3>1, <3>2
    <2>5. QED
      BY <2>1, <2>2, <2>4, OnceCounted
  <1>2. SubjectInv => EachValueOnce
    BY <1>1 DEF EachValueOnce
  <1>3. QED
    BY <1>2, SubjectInvariant, PTL

(* Once a Subject has ended and no call is in progress, nobody is left       *)
(* waiting for the end, and its fan-out is empty: who subscribed from a       *)
(* callback on the way was told too.                                         *)
THEOREM EndIsForAll ==
  ASSUME ParametersOK
  PROVE  Spec => []EndReachesAll
  <1>1. ASSUME SubjectInv PROVE EndReachesAll
    <2> SUFFICES ASSUME stack = <<>>, state # "active"
                 PROVE  fanout = {} /\ \A o \in Observers : cold[o] # "active"
      BY DEF EndReachesAll
    <2>1. \A o \in Observers : ~Led(o, stack)
      BY DEF Led
    <2>2. QED
      BY <1>1, <2>1 DEF SubjectInv, Awaited
  <1>2. QED
    BY <1>1, SubjectInvariant, PTL

(* A step says nothing to an observer that has left or was told of the end.  *)
LEMMA SilentStep ==
  ASSUME SubjectInv, [Next]_vars, NEW o \in Observers, cold[o] \in {"cancelled", "ended"}
  PROVE  received'[o] = received[o] /\ told'[o] = told[o]
<1>1. TypeInv /\ TypeOK
  BY DEF SubjectInv, TypeInv
<1>2. ASSUME NEW p \in Observers, NEW v, Give(p, v)
      PROVE  received'[o] = received[o] /\ told'[o] = told[o]
  BY <1>1, <1>2 DEF Give, TypeOK
<1>3. ASSUME NEW p \in Observers, End(p)
      PROVE  received'[o] = received[o] /\ told'[o] = told[o]
  BY <1>1, <1>3 DEF End, TypeOK
<1>4. CASE UNCHANGED <<received, told>>
  BY <1>4
<1>5. ASSUME NEW p \in Observers, FanoutStep(p) \/ SetupNext(p) \/ SetupDone(p)
      PROVE  received'[o] = received[o] /\ told'[o] = told[o]
  BY <1>2, <1>3, <1>4, <1>5 DEF FanoutStep, SetupNext, SetupDone
<1>6. ASSUME \/ \E p \in Observers : \/ \E status \in {"active", "cancelled"} :
                                          Subscribe(p, status)
                                     \/ CallAbort(p) \/ SetupLeft(p) \/ AbortDone(p)
             \/ CallNext \/ \E end \in {"completed", "errored"} : CallEnd(end)
             \/ FanoutDone \/ CallbackEnds \/ UNCHANGED vars
      PROVE  UNCHANGED <<received, told>>
  BY <1>6 DEF Subscribe, CallAbort, SetupLeft, AbortDone, CallNext, CallEnd, FanoutDone,
     CallbackEnds, vars
<1>7. QED
  BY <1>1, <1>4, <1>5, <1>6 DEF Next

(* No step gives anything to an observer that has left or was told of the    *)
(* end, though a fan-out that counted it in goes on (cold-observable.ts:45). *)
THEOREM NothingAfterwards ==
  ASSUME ParametersOK
  PROVE  Spec => SilentOnceOver
  <1>1. SubjectInv /\ [Next]_vars =>
          [\A o \in Observers : cold[o] \in {"cancelled", "ended"} =>
             received'[o] = received[o] /\ told'[o] = told[o]]_vars
    BY SilentStep
  <1>2. QED
    BY <1>1, SubjectInvariant, PTL DEF Spec, SilentOnceOver
=============================================================================
