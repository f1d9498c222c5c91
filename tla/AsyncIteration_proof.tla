------------------------- MODULE AsyncIteration_proof -------------------------
(***************************************************************************)
(* The async generators of observable-async-generators.ts, for any number  *)
(* of values, turns and requests: what they give is in order and never      *)
(* repeated, iterateEachValue and iterateBufferedValues lose nothing,       *)
(* iterateLatestValue ends with the newest value, and a burst is one.       *)
(***************************************************************************)
EXTENDS AsyncIteration, SequenceTheorems, TLAPS

-----------------------------------------------------------------------------
(* Sequences.                                                               *)

LEMMA SeqGrows ==
  ASSUME NEW S, NEW T, S \subseteq T, NEW q \in Seq(S)
  PROVE  q \in Seq(T)
  OBVIOUS

LEMMA NoneFacts ==
  ASSUME NEW S
  PROVE  <<>> \in Seq(S) /\ Len(<<>>) = 0
  OBVIOUS

LEMMA AppendFacts ==
  ASSUME NEW S, NEW q \in Seq(S), NEW e \in S
  PROVE  /\ Append(q, e) \in Seq(S)
         /\ Append(q, e) # <<>>
         /\ Len(Append(q, e)) = Len(q) + 1
         /\ Len(q) \in Nat
         /\ \A i \in 1 .. Len(q) : Append(q, e)[i] = q[i]
         /\ Append(q, e)[Len(q) + 1] = e
  OBVIOUS

LEMMA PopFacts ==
  ASSUME NEW S, NEW q \in Seq(S), q # <<>>
  PROVE  /\ Head(q) \in S /\ Head(q) = q[1]
         /\ Tail(q) \in Seq(S)
         /\ Len(q) \in Nat \ {0}
         /\ Len(Tail(q)) = Len(q) - 1
         /\ \A i \in 1 .. Len(q) - 1 : Tail(q)[i] = q[i + 1]
  OBVIOUS

LEMMA TailLeft ==
  ASSUME NEW S, NEW q \in Seq(S), q # <<>>, Len(q) # 1
  PROVE  Tail(q) # <<>>
  <1>1. Len(Tail(q)) = Len(q) - 1 /\ Len(q) \in Nat \ {0}
    BY PopFacts
  <1>2. Len(<<>>) = 0
    OBVIOUS
  <1>3. Len(Tail(q)) # 0
    BY <1>1
  <1>4. QED
    BY <1>2, <1>3

-----------------------------------------------------------------------------
(* The top of the loop, case by case.                                       *)

Pauses(rest) ==
  /\ policy = "latest" /\ buffer # <<>>
  /\ pc' = "pausing" /\ queue' = rest
  /\ UNCHANGED <<buffer, out, pending, aborted>>

GivesOne(rest) ==
  /\ policy = "each" /\ buffer # <<>>
  /\ pc' = "yielding" /\ out' = <<Head(buffer)>> /\ buffer' = Tail(buffer) /\ queue' = rest
  /\ UNCHANGED <<pending, aborted>>

GivesAll(rest) ==
  /\ policy \notin {"latest", "each"} /\ buffer # <<>>
  /\ pc' = "yielding" /\ out' = buffer /\ buffer' = <<>> /\ queue' = rest
  /\ UNCHANGED <<pending, aborted>>

Ends == buffer = <<>> /\ terminal # "none" /\ Finish("done")

Waits(rest) == buffer = <<>> /\ terminal = "none" /\ Wait(rest)

LEMMA LoopCases ==
  ASSUME NEW rest, Loop(rest)
  PROVE  Pauses(rest) \/ GivesOne(rest) \/ GivesAll(rest) \/ Ends \/ Waits(rest)
  BY DEF Loop, Take, Pauses, GivesOne, GivesAll, Ends, Waits

(* The requests that a generator has taken up and not settled. *)
Busy == {"subscribing", "awaiting", "settling", "woken", "pausing", "yielding"}

Requests == {"next", "return"}

(* Where the body stands says what it has, and what it waits for. *)
Stands ==
  /\ pending <=> pc = "awaiting"
  /\ pc \in Busy <=> queue # <<>>
  /\ pc \in {"awaiting", "done"} => buffer = <<>>
  /\ pc = "awaiting" => terminal = "none"
  /\ pc = "woken" /\ out = <<>> => buffer = <<>> /\ terminal # "none"
  /\ pc \in {"settling", "pausing"} => buffer # <<>>
  /\ pc = "yielding" => out # <<>>
  /\ pc = "start" => buffer = <<>> /\ emitted = 0 /\ given = <<>> /\ ~inTurn /\ turnNo = 0
  /\ inTurn => ~Over /\ turnNo # 0
  /\ pc = "subscribing" => inTurn
  /\ pc = "settling" => policy \in {"buffered", "latest"}
  /\ pc = "pausing" => policy = "latest"
  /\ policy = "next" => buffer = <<>>

(* The body goes on from the top of its loop, or is closed at its yield. *)
Resumes(rest) ==
  /\ \/ pc \in {"yielded", "yielding"} /\ ~inTurn
     \/ pc = "subscribing" /\ inTurn
  /\ inTurn' = FALSE
  /\ rest \in Seq(Requests) /\ rest # <<>>
  /\ Loop(rest) \/ (pc # "subscribing" /\ Finish("closed"))
  /\ UNCHANGED <<policy, terminal, emitted, turns, turnNo>>

(* A request that the body does not take up at once. *)
Asks ==
  /\ ~inTurn
  /\ \/ pc = "start" /\ pc' = "subscribing" /\ inTurn' = TRUE /\ turnNo' = turnNo + 1
          /\ queue' # <<>>
     \/ pc = "start" /\ pc' = "closed" /\ UNCHANGED <<inTurn, turnNo, queue>>
     \/ pc \in Busy /\ UNCHANGED <<pc, inTurn, turnNo>> /\ queue' # <<>>
     \/ pc \in {"done", "closed"} /\ UNCHANGED <<pc, inTurn, turnNo, queue>>
  /\ queue' \in Seq(Requests)
  /\ UNCHANGED <<policy, buffer, pending, terminal, out, aborted, emitted, turns, results,
                 given>>

(* The yield gives its value away, and the body rests there. *)
Rests ==
  /\ pc = "yielding" /\ ~inTurn /\ pc' = "yielded" /\ queue' = <<>>
  /\ UNCHANGED <<policy, buffer, pending, terminal, out, aborted, inTurn, emitted, turns,
                 turnNo>>

Gives == results' = Append(results, out) /\ given' = given \o out

Quietly == pc # "yielding" /\ UNCHANGED <<results, given>>

(* A turn that was not that of source.subscribe() ends. *)
LaterTurnEnds ==
  /\ inTurn /\ inTurn' = FALSE /\ pc # "subscribing"
  /\ UNCHANGED <<policy, pc, buffer, pending, terminal, out, queue, aborted, emitted, turns,
                 turnNo, results, given>>

LEMMA RequestCases ==
  ASSUME TypeOK, Stands, NEW r \in Requests, Request(r)
  PROVE  /\ Asks \/ (Quietly /\ Resumes(<<r>>))
         /\ requests' \in 0 .. MaxRequests
  <1>1. <<r>> \in Seq(Requests) /\ <<r>> # <<>>
    OBVIOUS
  <1>2. /\ ~inTurn /\ requests' \in 0 .. MaxRequests
        /\ UNCHANGED <<policy, terminal, emitted, turns, results, given>>
    <2>1. ~inTurn /\ requests' = requests + 1 /\ requests < MaxRequests
      BY DEF Request
    <2>2. requests' \in 0 .. MaxRequests
      BY <2>1, BoundsOK DEF TypeOK
    <2>3. QED
      BY <2>1, <2>2 DEF Request
  <1>3. CASE pc = "start"
    <2>1. CASE r = "next"
      <3>1. /\ pc' = "subscribing" /\ inTurn' = TRUE /\ turnNo' = turnNo + 1 /\ queue' = <<r>>
            /\ UNCHANGED <<buffer, pending, out, aborted>>
        BY <1>3, <2>1 DEF Request, Over
      <3>2. QED
        BY <1>1, <1>2, <1>3, <3>1 DEF Asks
    <2>2. CASE r = "return"
      <3>1. pc' = "closed" /\ UNCHANGED <<buffer, pending, out, queue, aborted, inTurn, turnNo>>
        BY <1>3, <2>2 DEF Request, Over
      <3>2. queue' \in Seq(Requests)
        BY <3>1 DEF TypeOK, Requests
      <3>3. QED
        BY <1>2, <1>3, <3>1, <3>2 DEF Asks
    <2>3. QED
      BY <2>1, <2>2 DEF Requests
  <1>4. CASE pc = "yielded"
    <2>1. Serve(<<r>>) /\ UNCHANGED <<inTurn, turnNo>>
      BY <1>4 DEF Request, Over
    <2>2. Finish("closed") \/ Loop(<<r>>)
      BY <2>1 DEF Serve
    <2>3. inTurn' = FALSE
      BY <1>2, <2>1 DEF TypeOK
    <2>4. QED
      BY <1>1, <1>2, <1>4, <2>1, <2>2, <2>3 DEF Resumes, Quietly
  <1>5. CASE Over
    <2>1. UNCHANGED <<pc, buffer, pending, out, queue, aborted, inTurn, turnNo>>
      BY <1>5 DEF Request, Over
    <2>2. queue' \in Seq(Requests)
      BY <2>1 DEF TypeOK, Requests
    <2>3. QED
      BY <1>2, <1>5, <2>1, <2>2 DEF Asks, Over
  <1>6. CASE pc \notin {"start", "yielded"} /\ ~Over
    <2>1. queue' = Append(queue, r) /\ UNCHANGED <<pc, buffer, pending, out, aborted, inTurn, turnNo>>
      BY <1>6 DEF Request
    <2>2. queue' \in Seq(Requests) /\ queue' # <<>>
      BY <2>1, AppendFacts DEF TypeOK, Requests
    <2>3. pc \in Busy
      BY <1>6 DEF Over, Busy, TypeOK
    <2>4. QED
      BY <1>2, <2>1, <2>2, <2>3 DEF Asks
  <1>7. QED
    BY <1>3, <1>4, <1>5, <1>6

LEMMA YieldCases ==
  ASSUME TypeOK, Stands, Yield
  PROVE  Gives /\ out # <<>> /\ pc = "yielding" /\ (Rests \/ \E rest : Resumes(rest))
  <1>1. /\ pc = "yielding" /\ ~inTurn /\ inTurn' = FALSE /\ out # <<>> /\ Gives
        /\ UNCHANGED <<policy, terminal, inTurn, emitted, turns, turnNo>>
    BY DEF Yield, Gives, Stands, TypeOK
  <1>2. queue # <<>> /\ queue \in Seq(Requests)
    BY <1>1 DEF Stands, Busy, TypeOK, Requests
  <1>3. CASE Len(queue) = 1
    BY <1>1, <1>3 DEF Yield, Rests
  <1>4. CASE Len(queue) # 1
    <2>0. Tail(queue) \in Seq(Requests) /\ Tail(queue) # <<>>
      BY <1>2, <1>4, PopFacts, TailLeft
    <2>1. PICK rest \in Seq(Requests) : rest = Tail(queue) /\ rest # <<>>
      BY <2>0
    <2>2. Finish("closed") \/ Loop(rest)
      BY <1>4, <2>1 DEF Yield, Serve
    <2>3. QED
      BY <1>1, <2>1, <2>2 DEF Resumes
  <1>5. QED
    BY <1>1, <1>3, <1>4

LEMMA TurnEndsCases ==
  ASSUME TypeOK, Stands, TurnEnds
  PROVE  LaterTurnEnds \/ (Quietly /\ \E rest : Resumes(rest))
  <1>1. CASE pc = "subscribing"
    <2>1. PICK rest \in Seq(Requests) : rest = queue /\ rest # <<>>
      BY <1>1 DEF TypeOK, Stands, Busy, Requests
    <2>2. QED
      BY <1>1, <2>1 DEF TurnEnds, Resumes, Quietly
  <1>2. CASE pc # "subscribing"
    BY <1>2 DEF TurnEnds, LaterTurnEnds
  <1>3. QED
    BY <1>1, <1>2

(* Every step is one of these. *)
LEMMA StepCases ==
  ASSUME TypeOK, Stands, [Next]_vars
  PROVE  \/ UNCHANGED vars
         \/ Asks
         \/ Quietly /\ \E rest : Resumes(rest)
         \/ Yield
         \/ TurnBegins
         \/ Emit
         \/ \E kind \in {"complete", "error"} : Terminate(kind)
         \/ LaterTurnEnds
         \/ Settle
         \/ Wake
         \/ Pause
  BY RequestCases, TurnEndsCases DEF Next, Microtask, Requests

-----------------------------------------------------------------------------
(* Types. *)

LEMMA ResumesType ==
  ASSUME TypeOK, NEW rest, Resumes(rest)
  PROVE  /\ pc' \in {"awaiting", "yielding", "pausing", "done", "closed"}
         /\ buffer' \in Seq(1 .. emitted)
         /\ out' \in Seq(1 .. emitted)
         /\ queue' \in Seq(Requests)
         /\ pending' \in BOOLEAN
         /\ aborted' \in BOOLEAN
         /\ inTurn' \in BOOLEAN
         /\ UNCHANGED <<policy, terminal, emitted, turns, turnNo>>
  <1>1. /\ buffer \in Seq(1 .. emitted) /\ out \in Seq(1 .. emitted)
        /\ pending \in BOOLEAN /\ aborted \in BOOLEAN
        /\ rest \in Seq(Requests) /\ <<>> \in Seq(Requests) /\ <<>> \in Seq(1 .. emitted)
        /\ inTurn' \in BOOLEAN
        /\ UNCHANGED <<policy, terminal, emitted, turns, turnNo>>
    BY NoneFacts DEF TypeOK, Resumes
  <1>2. CASE GivesOne(rest)
    <2>1. PICK h \in 1 .. emitted, t \in Seq(1 .. emitted) : h = Head(buffer) /\ t = Tail(buffer)
      BY <1>1, <1>2, PopFacts DEF GivesOne
    <2>2. <<h>> \in Seq(1 .. emitted)
      OBVIOUS
    <2>3. QED
      BY <1>1, <1>2, <2>1, <2>2 DEF GivesOne
  <1>3. CASE GivesAll(rest)
    BY <1>1, <1>3 DEF GivesAll
  <1>4. CASE Pauses(rest)
    BY <1>1, <1>4 DEF Pauses
  <1>5. CASE Waits(rest)
    BY <1>1, <1>5 DEF Waits, Wait
  <1>6. CASE Ends \/ Finish("closed")
    BY <1>1, <1>6 DEF Ends, Finish
  <1>7. QED
    BY <1>2, <1>3, <1>4, <1>5, <1>6, LoopCases DEF Resumes

LEMMA TypeStep ==
  ASSUME TypeOK, Stands, [Next]_vars
  PROVE  TypeOK'
  <1> USE BoundsOK
  <1>1. CASE UNCHANGED vars
    BY <1>1 DEF vars, TypeOK
  <1>2. ASSUME NEW r \in Requests, Request(r) PROVE TypeOK'
    <2>1. requests' \in 0 .. MaxRequests
      BY <1>2, RequestCases
    <2>2. CASE Asks
      <3>1. /\ pc' \in {"start", "subscribing", "awaiting", "settling", "woken", "pausing",
                       "yielding", "yielded", "done", "closed"}
            /\ inTurn' \in BOOLEAN /\ queue' \in Seq({"next", "return"})
            /\ UNCHANGED <<policy, buffer, pending, terminal, out, aborted, emitted, turns,
                           results, given>>
        BY <2>2 DEF TypeOK, Asks, Requests, Busy
      <3>2. turnNo' \in 0 .. MaxTurns + 1 /\ turns \in Seq(1 .. turnNo')
        <4>1. CASE turnNo' = turnNo
          BY <4>1 DEF TypeOK
        <4>2. CASE turnNo' = turnNo + 1 /\ turnNo = 0
          <5>1. turnNo' \in 0 .. MaxTurns + 1 /\ 1 .. turnNo \subseteq 1 .. turnNo'
            BY <4>2, BoundsOK
          <5>2. QED
            BY <5>1, SeqGrows DEF TypeOK
        <4>3. QED
          BY <2>2, <4>1, <4>2 DEF Asks, Stands
      <3>3. QED
        BY <2>1, <3>1, <3>2 DEF TypeOK
    <2>3. CASE Quietly /\ Resumes(<<r>>)
      BY <2>1, <2>3, ResumesType DEF TypeOK, Quietly, Requests
    <2>4. QED
      BY <1>2, <2>2, <2>3, RequestCases
  <1>3. CASE TurnBegins
    <2>1. turnNo' \in 0 .. MaxTurns + 1 /\ 1 .. turnNo \subseteq 1 .. turnNo'
      BY <1>3 DEF TurnBegins, TypeOK
    <2>2. turns \in Seq(1 .. turnNo')
      BY <2>1, SeqGrows DEF TypeOK
    <2>3. QED
      BY <1>3, <2>1, <2>2 DEF TurnBegins, TypeOK
  <1>4. CASE Emit
    <2>1. PICK n \in 0 .. MaxValues : n = emitted' /\ n = emitted + 1
      BY <1>4 DEF Emit, TypeOK
    <2>2. 1 .. emitted \subseteq 1 .. n /\ n \in 1 .. n /\ turnNo \in 1 .. turnNo
      BY <1>4, <2>1 DEF TypeOK, Emit, Stands
    <2>3. Seq(1 .. emitted) \subseteq Seq(1 .. n)
      BY <2>2, SeqGrows
    <2>4. buffer \in Seq(1 .. n) /\ out \in Seq(1 .. n) /\ given \in Seq(1 .. n)
      BY <2>3 DEF TypeOK
    <2>5. results \in Seq(Seq(1 .. n))
      <3>1. results \in Seq(Seq(1 .. emitted))
        BY DEF TypeOK
      <3>2. QED
        BY <2>3, <3>1, SeqGrows
    <2>6. turns' \in Seq(1 .. turnNo) /\ Len(turns') = n
      BY <1>4, <2>1, <2>2, AppendFacts DEF Emit, TypeOK
    <2>7. /\ buffer' \in Seq(1 .. n) /\ out' \in Seq(1 .. n) /\ pending' \in BOOLEAN
          /\ pc' \in {pc, "woken", "settling"}
      <3>1. <<n>> \in Seq(1 .. n) /\ Append(buffer, n) \in Seq(1 .. n) /\ pending \in BOOLEAN
        BY <2>2, <2>4, AppendFacts DEF TypeOK
      <3>2. Accept(n) /\ policy \in Policies
        BY <1>4, <2>1 DEF Emit, TypeOK
      <3>3. QED
        BY <2>4, <3>1, <3>2 DEF Accept, Policies
    <2>8. QED
      BY <1>4, <2>1, <2>4, <2>5, <2>6, <2>7 DEF Emit, TypeOK
  <1>5. ASSUME NEW kind \in {"complete", "error"}, Terminate(kind) PROVE TypeOK'
    BY <1>5, NoneFacts DEF Terminate, TypeOK
  <1>6. CASE TurnEnds
    <2>1. UNCHANGED requests
      BY <1>6 DEF TurnEnds
    <2>2. CASE LaterTurnEnds
      BY <2>1, <2>2 DEF LaterTurnEnds, TypeOK
    <2>3. ASSUME Quietly, NEW rest, Resumes(rest) PROVE TypeOK'
      BY <2>1, <2>3, ResumesType DEF TypeOK, Quietly, Requests
    <2>4. QED
      BY <1>6, <2>2, <2>3, TurnEndsCases
  <1>7. CASE Settle \/ Pause
    BY <1>7, NoneFacts DEF Settle, Pause, TypeOK
  <1>8. CASE Wake
    BY <1>8, NoneFacts DEF Wake, Finish, TypeOK
  <1>9. CASE Yield
    <2>1. UNCHANGED requests
      BY <1>9 DEF Yield
    <2>2. /\ results' \in Seq(Seq(1 .. emitted)) /\ given' \in Seq(1 .. emitted)
      BY <1>9, AppendFacts DEF Yield, TypeOK
    <2>3. CASE Rests
      BY <2>1, <2>2, <2>3 DEF Rests, TypeOK
    <2>4. ASSUME NEW rest, Resumes(rest) PROVE TypeOK'
      BY <2>1, <2>2, <2>4, ResumesType DEF TypeOK, Requests
    <2>5. QED
      BY <1>9, <2>3, <2>4, YieldCases
  <1>10. QED
    BY <1>1, <1>2, <1>3, <1>4, <1>5, <1>6, <1>7, <1>8, <1>9 DEF Next, Microtask, Requests

-----------------------------------------------------------------------------
(* Where the body stands. *)

LEMMA StandsStep ==
  ASSUME TypeOK, Stands, [Next]_vars
  PROVE  Stands'
  <1>1. CASE UNCHANGED vars
    BY <1>1 DEF vars, Stands, Over
  <1>2. CASE Asks
    <2>1. ~inTurn /\ UNCHANGED <<policy, buffer, pending, terminal, out, emitted, given>>
      BY <1>2 DEF Asks
    <2>2. CASE pc = "start" /\ pc' = "subscribing" /\ inTurn' = TRUE /\ turnNo' = turnNo + 1
               /\ queue' # <<>>
      <3>1. turnNo' # 0
        BY <2>2 DEF Stands
      <3>2. QED
        BY <2>1, <2>2, <3>1 DEF Stands, Over, Busy
    <2>3. CASE pc = "start" /\ pc' = "closed" /\ UNCHANGED <<inTurn, turnNo, queue>>
      BY <2>1, <2>3 DEF Stands, Over, Busy
    <2>4. CASE pc \in Busy /\ UNCHANGED <<pc, inTurn, turnNo>> /\ queue' # <<>>
      BY <2>1, <2>4 DEF Stands, Over, Busy
    <2>5. CASE pc \in {"done", "closed"} /\ UNCHANGED <<pc, inTurn, turnNo, queue>>
      BY <2>1, <2>5 DEF Stands, Over, Busy
    <2>6. QED
      BY <1>2, <2>2, <2>3, <2>4, <2>5 DEF Asks
  <1>3. ASSUME NEW rest, Resumes(rest) PROVE Stands'
    <2>1. /\ pc \in {"yielded", "yielding", "subscribing"} /\ inTurn' = FALSE /\ ~pending
          /\ rest # <<>> /\ UNCHANGED <<policy, terminal, emitted, turns, turnNo>>
          /\ policy = "next" => buffer = <<>>
      BY <1>3 DEF Resumes, Stands
    <2>2. CASE Pauses(rest)
      BY <2>1, <2>2 DEF Pauses, Stands, Over, Busy
    <2>3. CASE GivesOne(rest)
      <3>1. <<Head(buffer)>> # <<>>
        OBVIOUS
      <3>2. QED
        BY <2>1, <2>3, <3>1 DEF GivesOne, Stands, Over, Busy
    <2>4. CASE GivesAll(rest)
      BY <2>1, <2>4 DEF GivesAll, Stands, Over, Busy
    <2>5. CASE Waits(rest)
      BY <2>1, <2>5 DEF Waits, Wait, Stands, Over, Busy
    <2>6. CASE Ends
      BY <2>1, <2>6 DEF Ends, Finish, Stands, Over, Busy
    <2>7. CASE Finish("closed")
      BY <2>1, <2>7 DEF Finish, Stands, Over, Busy
    <2>8. QED
      BY <1>3, <2>2, <2>3, <2>4, <2>5, <2>6, <2>7, LoopCases DEF Resumes
  <1>4. CASE Yield
    <2>1. CASE Rests
      BY <2>1 DEF Rests, Stands, Over, Busy
    <2>2. QED
      BY <1>3, <1>4, <2>1, YieldCases
  <1>5. CASE TurnBegins
    <2>1. turnNo' # 0
      BY <1>5 DEF TurnBegins, TypeOK
    <2>2. QED
      BY <1>5, <2>1 DEF TurnBegins, Stands, Over
  <1>6. CASE Emit
    <2>1. PICK n \in Nat : n = emitted + 1
      BY BoundsOK DEF TypeOK
    <2>2. <<n>> # <<>> /\ Append(buffer, n) # <<>>
      <3>1. buffer \in Seq(Nat)
        BY SeqGrows DEF TypeOK
      <3>2. QED
        BY <2>1, <3>1, AppendFacts
    <2>3. /\ Accept(n) /\ inTurn /\ inTurn' /\ terminal = "none" /\ pc # "start"
          /\ pending \in BOOLEAN /\ policy \in Policies
          /\ UNCHANGED <<policy, terminal, queue, inTurn, turnNo>>
      BY <1>6, <2>1 DEF Emit, TypeOK, Stands
    <2>4. pc' # "start" /\ pc' \notin {"done", "closed"}
      BY <2>3 DEF Accept, Policies, Stands, Over
    <2>5. CASE policy \in {"each", "next"} /\ pending
      BY <2>2, <2>3, <2>4, <2>5 DEF Accept, Stands, Over, Busy
    <2>6. CASE policy = "each" /\ ~pending
      BY <2>2, <2>3, <2>4, <2>6 DEF Accept, Stands, Over, Busy
    <2>7. CASE policy = "next" /\ ~pending
      BY <2>2, <2>3, <2>4, <2>7 DEF Accept, Stands, Over, Busy
    <2>8. CASE policy \in {"buffered", "latest"}
      <3>1. /\ buffer' # <<>> /\ pending' = FALSE /\ pc' = IF pending THEN "settling" ELSE pc
            /\ UNCHANGED out
        BY <2>2, <2>3, <2>8 DEF Accept
      <3>2. QED
        BY <2>3, <2>4, <2>8, <3>1 DEF Stands, Over, Busy
    <2>9. QED
      BY <2>3, <2>5, <2>6, <2>7, <2>8 DEF Policies
  <1>7. ASSUME NEW kind \in {"complete", "error"}, Terminate(kind) PROVE Stands'
    BY <1>7 DEF Terminate, Stands, Over, Busy
  <1>8. CASE LaterTurnEnds
    BY <1>8 DEF LaterTurnEnds, Stands, Over, Busy
  <1>9. CASE Settle
    BY <1>9 DEF Settle, Stands, Over, Busy
  <1>10. CASE Wake
    BY <1>10 DEF Wake, Finish, Stands, Over, Busy
  <1>11. CASE Pause
    BY <1>11 DEF Pause, Stands, Over, Busy
  <1>12. QED
    BY <1>1, <1>2, <1>3, <1>4, <1>5, <1>6, <1>7, <1>8, <1>9, <1>10, <1>11, StepCases

LEMMA InitTyped == Init => TypeOK /\ Stands
  <1>1. ASSUME Init PROVE TypeOK
    <2>1. <<>> \in Seq(1 .. 0) /\ <<>> \in Seq(Seq(1 .. 0)) /\ <<>> \in Seq(Requests)
          /\ Len(<<>>) = 0
      BY NoneFacts
    <2>2. 0 \in 0 .. MaxValues /\ 0 \in 0 .. MaxTurns + 1 /\ 0 \in 0 .. MaxRequests
      BY BoundsOK
    <2>3. QED
      BY <1>1, <2>1, <2>2 DEF Init, TypeOK, Requests
  <1>2. ASSUME Init PROVE Stands
    BY <1>2 DEF Init, Stands, Over, Busy
  <1>3. QED
    BY <1>1, <1>2

(* The types hold in every state, and with them where the body stands. *)
THEOREM WellTyped == Spec => []TypeOK
  <1>1. TypeOK /\ Stands /\ [Next]_vars => (TypeOK /\ Stands)'
    BY TypeStep, StandsStep
  <1>2. QED
    BY <1>1, InitTyped, PTL DEF Spec

-----------------------------------------------------------------------------
(* The line: what has been given, what is on its way, what is buffered.     *)

Way == IF pc \in {"woken", "yielding"} THEN out ELSE <<>>

Line == given \o (Way \o buffer)

(* What a step does to the line: nothing; it moves along; a value joins it. *)
Still == UNCHANGED <<given, Way, buffer, emitted>>

Advances ==
  /\ given' = given \o Way
  /\ \/ Way' = <<>> /\ buffer' = buffer
     \/ buffer # <<>> /\ Way' = <<Head(buffer)>> /\ buffer' = Tail(buffer)
          /\ policy \notin {"buffered", "latest"}
     \/ buffer # <<>> /\ Way' = buffer /\ buffer' = <<>> /\ ~inTurn'
  /\ UNCHANGED <<emitted, turns, turnNo>>

Arrives(n) ==
  /\ inTurn /\ inTurn' /\ turns' = Append(turns, turnNo)
  /\ UNCHANGED <<given, turnNo>>
  /\ \/ policy \in {"each", "buffered"} /\ Way' = Way /\ buffer' = Append(buffer, n)
     \/ policy \in {"each", "next"} /\ Way = <<>> /\ buffer = <<>> /\ Way' = <<n>>
          /\ buffer' = <<>>
     \/ policy = "latest" /\ Way' = Way /\ buffer' = <<n>>
     \/ policy = "next" /\ Way' = Way /\ buffer' = buffer

LEMMA LineType ==
  ASSUME TypeOK
  PROVE  /\ emitted \in Nat
         /\ given \in Seq(1 .. emitted) /\ Way \in Seq(1 .. emitted)
         /\ buffer \in Seq(1 .. emitted)
         /\ Line \in Seq(1 .. emitted)
  <1>1. /\ emitted \in Nat /\ given \in Seq(1 .. emitted) /\ out \in Seq(1 .. emitted)
        /\ buffer \in Seq(1 .. emitted)
    BY BoundsOK DEF TypeOK
  <1>2. Way \in Seq(1 .. emitted)
    BY <1>1, NoneFacts DEF Way
  <1>3. PICK w \in Seq(1 .. emitted) : w = Way
    BY <1>2
  <1>4. w \o buffer \in Seq(1 .. emitted)
    BY <1>1, ConcatProperties
  <1>5. given \o (w \o buffer) \in Seq(1 .. emitted)
    BY <1>1, <1>4, ConcatProperties
  <1>6. QED
    BY <1>1, <1>2, <1>3, <1>5 DEF Line

LEMMA StepFlows ==
  ASSUME TypeOK, Stands, [Next]_vars
  PROVE  /\ policy' = policy /\ (pc = "closed" => pc' = "closed")
         /\ \/ Still
            \/ Advances /\ pc # "closed"
            \/ emitted' = emitted + 1 /\ Arrives(emitted + 1) /\ pc # "closed"
  <1>1. CASE UNCHANGED vars
    BY <1>1 DEF vars, Still, Way
  <1>2. CASE Asks
    BY <1>2 DEF Asks, Still, Way, Busy
  <1>3. given \o <<>> = given
    BY ConcatEmptySeq DEF TypeOK
  <1>4. ASSUME NEW rest, Resumes(rest), given' = given \o Way
        PROVE  policy' = policy /\ pc # "closed" /\ Advances
    <2>1. /\ UNCHANGED <<policy, emitted, turns, turnNo>> /\ pc # "closed" /\ inTurn' = FALSE
          /\ policy \in Policies
      BY <1>4 DEF Resumes, TypeOK
    <2>2. CASE Pauses(rest) \/ Waits(rest) \/ Ends \/ Finish("closed")
      <3>1. Way' = <<>> /\ buffer' = buffer
        BY <2>2 DEF Pauses, Waits, Wait, Ends, Finish, Way
      <3>2. QED
        BY <1>4, <2>1, <3>1 DEF Advances
    <2>3. CASE GivesOne(rest)
      BY <1>4, <2>1, <2>3 DEF GivesOne, Way, Advances
    <2>4. CASE GivesAll(rest)
      BY <1>4, <2>1, <2>4 DEF GivesAll, Way, Advances
    <2>5. QED
      BY <1>4, <2>2, <2>3, <2>4, LoopCases DEF Resumes
  <1>5. CASE Quietly /\ \E rest : Resumes(rest)
    <2>1. PICK rest : Resumes(rest)
      BY <1>5
    <2>2. given' = given \o Way
      BY <1>3, <1>5, <2>1 DEF Quietly, Resumes, Way
    <2>3. QED
      BY <1>4, <2>1, <2>2
  <1>6. CASE Yield
    <2>1. /\ given' = given \o Way /\ pc = "yielding" /\ (Rests \/ \E rest : Resumes(rest))
      BY <1>6, YieldCases DEF Gives, Way
    <2>2. CASE Rests
      BY <2>1, <2>2 DEF Rests, Way, Advances
    <2>3. QED
      BY <1>4, <2>1, <2>2
  <1>7. CASE TurnBegins
    BY <1>7 DEF TurnBegins, Still, Way
  <1>8. CASE Emit
    <2>1. PICK n \in Nat : n = emitted + 1
      BY BoundsOK DEF TypeOK
    <2>2. /\ Accept(n) /\ inTurn /\ inTurn' /\ pc # "closed" /\ emitted' = emitted + 1
          /\ policy \in Policies /\ turns' = Append(turns, turnNo)
          /\ UNCHANGED <<policy, given, turnNo>>
      BY <1>8, <2>1 DEF Emit, TypeOK, Stands, Over
    <2>3. Arrives(n)
      <3>1. CASE policy \in {"each", "next"} /\ pending
        BY <2>2, <3>1 DEF Accept, Arrives, Way, Stands
      <3>2. CASE policy = "each" /\ ~pending
        BY <2>2, <3>2 DEF Accept, Arrives, Way
      <3>3. CASE policy = "next" /\ ~pending
        BY <2>2, <3>3 DEF Accept, Arrives, Way
      <3>4. CASE policy \in {"buffered", "latest"}
        BY <2>2, <3>4 DEF Accept, Arrives, Way, Stands
      <3>5. QED
        BY <2>2, <3>1, <3>2, <3>3, <3>4 DEF Policies
    <2>4. QED
      BY <2>1, <2>2, <2>3
  <1>9. ASSUME NEW kind \in {"complete", "error"}, Terminate(kind)
        PROVE  policy' = policy /\ Still /\ pc # "closed"
    BY <1>9 DEF Terminate, Still, Way, Stands, Over
  <1>10. CASE LaterTurnEnds
    BY <1>10 DEF LaterTurnEnds, Still, Way
  <1>11. CASE Settle \/ Pause
    <2>1. /\ Way = <<>> /\ buffer # <<>> /\ Way' = buffer /\ buffer' = <<>> /\ ~inTurn'
          /\ UNCHANGED <<policy, given, emitted, turns, turnNo>> /\ pc # "closed"
      BY <1>11 DEF Settle, Pause, Way, Stands
    <2>2. QED
      BY <1>3, <2>1 DEF Advances
  <1>12. CASE Wake
    BY <1>12 DEF Wake, Finish, Still, Way
  <1>13. QED
    BY <1>1, <1>2, <1>5, <1>6, <1>7, <1>8, <1>9, <1>10, <1>11, <1>12, StepCases

-----------------------------------------------------------------------------
(* Sequences of values, in the order of their numbers.                      *)

Rising(q) == \A i, j \in DOMAIN q : i < j => q[i] < q[j]

Upto(n) == [v \in 1 .. n |-> v]

LEMMA SameLength ==
  ASSUME NEW k \in Nat, NEW m \in Nat, 1 .. k = 1 .. m
  PROVE  k = m
  <1>1. k = 0 \/ k \in 1 .. k
    OBVIOUS
  <1>2. m = 0 \/ m \in 1 .. m
    OBVIOUS
  <1>3. k <= m
    BY <1>1
  <1>4. m <= k
    BY <1>2
  <1>5. QED
    BY <1>3, <1>4

LEMMA RisingJoined ==
  ASSUME NEW m \in Nat, NEW q \in Seq(1 .. m), Rising(q)
  PROVE  /\ Rising(q \o <<m + 1>>)
         /\ q \o <<m + 1>> # <<>> /\ Last(q \o <<m + 1>>) = m + 1
         /\ q = Upto(m) => q \o <<m + 1>> = Upto(m + 1)
  <1> DEFINE n == m + 1
             r == q \o <<n>>
  <1>1. n \in 1 .. n /\ n \in Nat /\ 1 .. m \subseteq 1 .. n
    OBVIOUS
  <1>2. q \in Seq(1 .. n) /\ <<n>> \in Seq(1 .. n) /\ Len(q) \in Nat
    BY <1>1, SeqGrows, LenProperties
  <1>3. r = Append(q, n)
    BY <1>1, <1>2, AppendIsConcat
  <1>4. /\ r \in Seq(1 .. n) /\ r # <<>> /\ Len(r) = Len(q) + 1
        /\ \A i \in 1 .. Len(q) : r[i] = q[i]
        /\ r[Len(q) + 1] = n
    BY <1>1, <1>2, <1>3, AppendProperties
  <1>5. DOMAIN r = 1 .. Len(q) + 1 /\ DOMAIN q = 1 .. Len(q)
    BY <1>2, <1>4, LenProperties
  <1>6. \A i \in 1 .. Len(q) : q[i] \in 1 .. m
    BY ElementOfSeq
  <1>7. Rising(r)
    <2>1. SUFFICES ASSUME NEW i \in 1 .. Len(q) + 1, NEW j \in 1 .. Len(q) + 1, i < j
                   PROVE  r[i] < r[j]
      BY <1>5 DEF Rising
    <2>2. i \in 1 .. Len(q) /\ r[i] = q[i]
      BY <1>2, <1>4, <2>1
    <2>3. CASE j = Len(q) + 1
      <3>1. r[j] = m + 1
        BY <1>4, <2>3
      <3>2. r[i] \in 1 .. m
        BY <1>6, <2>2
      <3>3. QED
        BY <3>1, <3>2
    <2>4. CASE j \in 1 .. Len(q)
      BY <1>4, <1>5, <2>1, <2>2, <2>4 DEF Rising
    <2>5. QED
      BY <1>2, <2>3, <2>4
  <1>8. Last(r) = n
    BY <1>4 DEF Last
  <1>9. ASSUME q = Upto(m) PROVE r = Upto(n)
    <2>1. Len(q) = m /\ \A i \in 1 .. m : q[i] = i
      <3>1. DOMAIN q = 1 .. m /\ \A i \in 1 .. m : q[i] = i
        BY <1>9 DEF Upto
      <3>2. Len(q) = m
        BY <1>2, <1>5, <3>1, SameLength
      <3>3. QED
        BY <3>1, <3>2
    <2>2. r \in [1 .. n -> 1 .. n]
      BY <1>4, <2>1, LenProperties
    <2>3. \A i \in 1 .. n : r[i] = i
      BY <1>4, <2>1
    <2>4. QED
      BY <2>2, <2>3 DEF Upto
  <1>10. QED
    BY <1>4, <1>7, <1>8, <1>9

LEMMA RisingPrefix ==
  ASSUME NEW p \in Seq(Nat), NEW q \in Seq(Nat), Rising(p \o q)
  PROVE  /\ Rising(p)
         /\ \A i \in DOMAIN p, j \in DOMAIN q : p[i] < q[j]
  <1> DEFINE r == p \o q
  <1>1. /\ r \in Seq(Nat) /\ Len(r) = Len(p) + Len(q) /\ Len(p) \in Nat /\ Len(q) \in Nat
        /\ \A i \in 1 .. Len(p) + Len(q) : r[i] = IF i <= Len(p) THEN p[i] ELSE q[i - Len(p)]
    BY ConcatProperties, LenProperties
  <1>2. DOMAIN p = 1 .. Len(p) /\ DOMAIN q = 1 .. Len(q) /\ DOMAIN r = 1 .. Len(p) + Len(q)
    BY <1>1, LenProperties
  <1>3. Rising(r)
    OBVIOUS
  <1>4. \A i \in 1 .. Len(p) : i \in DOMAIN r /\ r[i] = p[i]
    BY <1>1, <1>2
  <1>5. \A j \in 1 .. Len(q) : Len(p) + j \in DOMAIN r /\ r[Len(p) + j] = q[j]
    <2>1. SUFFICES ASSUME NEW j \in 1 .. Len(q)
                   PROVE  Len(p) + j \in DOMAIN r /\ r[Len(p) + j] = q[j]
      OBVIOUS
    <2>2. Len(p) + j \in 1 .. Len(p) + Len(q) /\ ~(Len(p) + j <= Len(p)) /\ (Len(p) + j) - Len(p) = j
      BY <1>1
    <2>3. QED
      BY <1>1, <1>2, <2>2
  <1>6. Rising(p)
    BY <1>2, <1>3, <1>4 DEF Rising
  <1>7. \A i \in 1 .. Len(p), j \in 1 .. Len(q) : p[i] < q[j]
    <2>1. SUFFICES ASSUME NEW i \in 1 .. Len(p), NEW j \in 1 .. Len(q) PROVE p[i] < q[j]
      OBVIOUS
    <2>2. i < Len(p) + j
      BY <1>1
    <2>3. r[i] < r[Len(p) + j]
      BY <1>3, <1>4, <1>5, <2>2 DEF Rising
    <2>4. QED
      BY <1>4, <1>5, <2>3
  <1>8. QED
    BY <1>2, <1>6, <1>7

(* Concatenation under a name that the provers leave alone. *)
Cat(p, q) == p \o q

LEMMA Rejoined ==
  ASSUME NEW S, NEW p \in Seq(S), NEW q \in Seq(S), NEW r \in Seq(S)
  PROVE  Cat(Cat(p, q), r) = Cat(p, Cat(q, r)) /\ Cat(p, q) \in Seq(S)
  BY ConcatAssociative, ConcatProperties DEF Cat

(* A step moves the values along the line without touching their order. *)
LEMMA LineKept ==
  ASSUME TypeOK, TypeOK', Still \/ Advances
  PROVE  Line' = Line /\ emitted' = emitted
  <1>1. /\ given \in Seq(1 .. emitted) /\ Way \in Seq(1 .. emitted)
        /\ buffer \in Seq(1 .. emitted)
    BY LineType
  <1>2. CASE Still
    BY <1>2 DEF Still, Line
  <1>3. ASSUME Advances PROVE Line' = Line /\ emitted' = emitted
    <2>1. PICK g \in Seq(1 .. emitted), w \in Seq(1 .. emitted), b \in Seq(1 .. emitted) :
            g = given /\ w = Way /\ b = buffer
      BY <1>1
    <2>2. PICK v \in Seq(1 .. emitted), c \in Seq(1 .. emitted) : v = Way' /\ c = buffer'
      <3>1. Way' \in Seq(1 .. emitted) /\ buffer' \in Seq(1 .. emitted)
        <4>1. emitted' = emitted
          BY <1>3 DEF Advances
        <4>2. out' \in Seq(1 .. emitted) /\ buffer' \in Seq(1 .. emitted)
          BY <4>1 DEF TypeOK
        <4>3. QED
          BY <4>2, NoneFacts DEF Way
      <3>2. QED
        BY <3>1
    <2>3. v \o c = b
      <3>1. CASE v = <<>> /\ c = b
        BY <3>1, ConcatEmptySeq
      <3>2. CASE b # <<>> /\ v = <<Head(b)>> /\ c = Tail(b)
        <4>1. /\ Head(b) \in 1 .. emitted /\ Len(b) \in Nat \ {0} /\ Len(c) = Len(b) - 1
              /\ Head(b) = b[1] /\ \A i \in 1 .. Len(b) - 1 : c[i] = b[i + 1]
          BY <3>2, PopFacts
        <4>2. Len(v) = 1 /\ v[1] = b[1]
          BY <3>2, <4>1
        <4>3. /\ v \o c \in Seq(1 .. emitted) /\ Len(v \o c) = Len(b)
              /\ \A i \in 1 .. Len(b) : (v \o c)[i] = IF i <= 1 THEN v[i] ELSE c[i - 1]
          <5>1. Len(v) + Len(c) = Len(b)
            BY <4>1, <4>2
          <5>2. /\ v \o c \in Seq(1 .. emitted) /\ Len(v \o c) = Len(v) + Len(c)
                /\ \A i \in 1 .. Len(v) + Len(c) :
                     (v \o c)[i] = IF i <= Len(v) THEN v[i] ELSE c[i - Len(v)]
            BY ConcatProperties
          <5>3. QED
            BY <4>2, <5>1, <5>2
        <4>4. ASSUME NEW i \in 1 .. Len(b) PROVE (v \o c)[i] = b[i]
          <5>1. CASE i = 1
            BY <4>2, <4>3, <5>1
          <5>2. CASE i # 1
            <6>1. i - 1 \in 1 .. Len(b) - 1 /\ (i - 1) + 1 = i /\ ~(i <= 1)
              BY <4>1, <4>4, <5>2
            <6>2. c[i - 1] = b[i]
              BY <4>1, <6>1
            <6>3. QED
              BY <4>3, <4>4, <6>1, <6>2
          <5>3. QED
            BY <5>1, <5>2
        <4>5. QED
          BY <4>3, <4>4, SeqEqual
      <3>3. CASE v = b /\ c = <<>>
        BY <3>3, ConcatEmptySeq
      <3>4. QED
        BY <1>3, <2>1, <2>2, <3>1, <3>2, <3>3 DEF Advances
    <2>4. Cat(Cat(g, w), Cat(v, c)) = Cat(g, Cat(w, b))
      <3>1. Cat(v, c) = b
        BY <2>3 DEF Cat
      <3>2. QED
        BY <3>1, Rejoined
    <2>5. given' = Cat(g, w) /\ emitted' = emitted
      BY <1>3, <2>1 DEF Advances, Cat
    <2>6. Line' = Cat(Cat(g, w), Cat(v, c))
      BY <2>2, <2>5 DEF Line, Cat
    <2>7. Line = Cat(g, Cat(w, b))
      BY <2>1 DEF Line, Cat
    <2>8. QED
      BY <2>4, <2>5, <2>6, <2>7
  <1>4. QED
    BY <1>2, <1>3

-----------------------------------------------------------------------------
(* The order of the line.                                                   *)

Lined ==
  /\ Rising(Line)
  /\ policy \in {"each", "buffered"} /\ pc # "closed" => Line = Upto(emitted)
  /\ policy = "latest" /\ pc # "closed" /\ emitted > 0 => Line # <<>> /\ Last(Line) = emitted

(* How a value joins the line: at its end, in place of what was buffered, *)
(* or not at all.                                                         *)
LEMMA LineArrives ==
  ASSUME TypeOK, Arrives(emitted + 1)
  PROVE  \/ Line' = Line \o <<emitted + 1>>
         \/ policy = "latest" /\ Line' = (given \o Way) \o <<emitted + 1>>
         \/ policy = "next" /\ Line' = Line
  <1>1. PICK m \in Nat : m = emitted
    BY LineType
  <1>2. /\ m + 1 \in 1 .. m + 1 /\ 1 .. m \subseteq 1 .. m + 1
        /\ <<m + 1>> \in Seq(1 .. m + 1)
    OBVIOUS
  <1>3. PICK g \in Seq(1 .. m + 1), w \in Seq(1 .. m + 1), b \in Seq(1 .. m + 1) :
          g = given /\ w = Way /\ b = buffer
    <2>1. given \in Seq(1 .. m) /\ Way \in Seq(1 .. m) /\ buffer \in Seq(1 .. m)
      BY <1>1, LineType
    <2>2. given \in Seq(1 .. m + 1) /\ Way \in Seq(1 .. m + 1) /\ buffer \in Seq(1 .. m + 1)
      BY <1>2, <2>1, SeqGrows
    <2>3. QED
      BY <2>2
  <1>4. PICK e \in Seq(1 .. m + 1) : e = <<m + 1>>
    BY <1>2
  <1>5. /\ Cat(g, Cat(w, e)) = Cat(Cat(g, w), e)
        /\ Cat(g, Cat(w, Cat(b, e))) = Cat(Cat(g, Cat(w, b)), e)
    <2>1. Cat(w, Cat(b, e)) = Cat(Cat(w, b), e) /\ Cat(w, b) \in Seq(1 .. m + 1)
      BY Rejoined
    <2>2. Cat(g, Cat(Cat(w, b), e)) = Cat(Cat(g, Cat(w, b)), e)
      BY <2>1, Rejoined
    <2>3. Cat(g, Cat(w, e)) = Cat(Cat(g, w), e)
      BY Rejoined
    <2>4. QED
      BY <2>1, <2>2, <2>3
  <1>6. Line = Cat(g, Cat(w, b)) /\ given \o Way = Cat(g, w)
    BY <1>3 DEF Line, Cat
  <1>7. given' = g
    BY <1>3 DEF Arrives
  <1>8. CASE Way' = Way /\ buffer' = Append(buffer, m + 1)
    <2>1. Append(b, m + 1) = Cat(b, e)
      BY <1>2, <1>4, AppendIsConcat DEF Cat
    <2>2. Line' = Cat(g, Cat(w, Cat(b, e)))
      BY <1>3, <1>7, <1>8, <2>1 DEF Line, Cat
    <2>3. Line' = Cat(Line, e)
      BY <1>5, <1>6, <2>2
    <2>4. QED
      BY <1>1, <1>4, <2>3 DEF Cat
  <1>9. CASE Way = <<>> /\ buffer = <<>> /\ Way' = <<m + 1>> /\ buffer' = <<>>
    <2>1. Line' = g \o (e \o <<>>)
      BY <1>4, <1>7, <1>9 DEF Line
    <2>2. e \o <<>> = e
      BY ConcatEmptySeq
    <2>3. Line = g \o (<<>> \o <<>>)
      BY <1>3, <1>9 DEF Line
    <2>4. <<>> \o <<>> = <<>> /\ g \o <<>> = g
      BY NoneFacts, ConcatEmptySeq
    <2>5. QED
      BY <1>1, <1>4, <2>1, <2>2, <2>3, <2>4
  <1>10. CASE policy = "latest" /\ Way' = Way /\ buffer' = <<m + 1>>
    <2>1. Line' = Cat(g, Cat(w, e))
      BY <1>3, <1>4, <1>7, <1>10 DEF Line, Cat
    <2>2. Line' = Cat(given \o Way, e)
      BY <1>5, <1>6, <2>1
    <2>3. QED
      BY <1>1, <1>4, <1>10, <2>2 DEF Cat
  <1>11. CASE policy = "next" /\ Way' = Way /\ buffer' = buffer
    BY <1>3, <1>7, <1>11 DEF Line
  <1>12. QED
    BY <1>1, <1>8, <1>9, <1>10, <1>11 DEF Arrives

LEMMA LinedStep ==
  ASSUME TypeOK, Stands, Lined, TypeOK', [Next]_vars
  PROVE  Lined'
  <1>1. policy' = policy /\ (pc = "closed" => pc' = "closed")
    BY StepFlows
  <1>2. CASE Still \/ Advances
    <2>1. Line' = Line /\ emitted' = emitted
      BY <1>2, LineKept
    <2>2. QED
      BY <1>1, <2>1 DEF Lined
  <1>3. ASSUME emitted' = emitted + 1, Arrives(emitted + 1), pc # "closed" PROVE Lined'
    <2>0. PICK m \in Nat : m = emitted
      BY LineType
    <2>1. PICK l \in Seq(1 .. m), p \in Seq(1 .. m) :
            m = emitted /\ l = Line /\ p = given \o Way
      <3>1. given \o Way \in Seq(1 .. emitted)
        BY LineType, ConcatProperties
      <3>2. QED
        BY <2>0, <3>1, LineType
    <2>2. Rising(l)
      BY <2>1 DEF Lined
    <2>3. CASE Line' = l \o <<m + 1>>
      <3>1. /\ Rising(l \o <<m + 1>>)
            /\ l \o <<m + 1>> # <<>> /\ Last(l \o <<m + 1>>) = m + 1
            /\ l = Upto(m) => l \o <<m + 1>> = Upto(m + 1)
        BY <2>2, RisingJoined
      <3>2. policy \in {"each", "buffered"} => l = Upto(m)
        BY <1>3, <2>1 DEF Lined
      <3>3. emitted' = m + 1
        BY <1>3, <2>1
      <3>4. PICK r : r = Line' /\ r = l \o <<m + 1>>
        BY <2>3
      <3>5. /\ Rising(r) /\ r # <<>> /\ Last(r) = m + 1
            /\ policy \in {"each", "buffered"} => r = Upto(m + 1)
        BY <3>1, <3>2, <3>4
      <3>6. QED
        BY <1>1, <3>3, <3>4, <3>5 DEF Lined
    <2>4. CASE policy = "latest" /\ Line' = p \o <<m + 1>>
      <3>1. Rising(p)
        <4>1. PICK b \in Seq(1 .. m) : b = buffer
          BY <2>1, LineType
        <4>2. l = p \o b
          <5>1. PICK g \in Seq(1 .. m), w \in Seq(1 .. m) : g = given /\ w = Way
            BY <2>1, LineType
          <5>2. Cat(Cat(g, w), b) = Cat(g, Cat(w, b))
            BY Rejoined
          <5>3. l = Cat(g, Cat(w, b)) /\ p = Cat(g, w)
            BY <2>1, <4>1, <5>1 DEF Line, Cat
          <5>4. l = Cat(p, b)
            BY <5>2, <5>3
          <5>5. QED
            BY <5>4 DEF Cat
        <4>3. p \in Seq(Nat) /\ b \in Seq(Nat)
          BY SeqGrows
        <4>4. QED
          BY <2>2, <4>2, <4>3, RisingPrefix
      <3>2. /\ Rising(p \o <<m + 1>>)
            /\ p \o <<m + 1>> # <<>> /\ Last(p \o <<m + 1>>) = m + 1
        BY <3>1, RisingJoined
      <3>3. emitted' = m + 1
        BY <1>3, <2>1
      <3>4. PICK r : r = Line' /\ r = p \o <<m + 1>>
        BY <2>4
      <3>5. QED
        BY <1>1, <2>4, <3>2, <3>3, <3>4 DEF Lined
    <2>5. CASE policy = "next" /\ Line' = l
      BY <1>1, <2>1, <2>2, <2>5 DEF Lined
    <2>6. QED
      BY <1>3, <2>1, <2>3, <2>4, <2>5, LineArrives
  <1>4. QED
    BY <1>2, <1>3, StepFlows

(* What has been given is a prefix of the line; the rest is to come. *)
LEMMA LineSays ==
  ASSUME TypeOK, Stands, Lined
  PROVE  Lossless /\ NewestKept
  <1>1. pc # "closed" => given \o ToCome = Line
    <2>1. buffer \in Seq(1 .. emitted)
      BY LineType
    <2>2. pc # "closed" => (IF Over THEN <<>> ELSE buffer) = buffer
      BY DEF Over, Stands
    <2>3. QED
      BY <2>2 DEF ToCome, Line, Way
  <1>2. Lossless
    BY <1>1 DEF Lossless, Lined, Upto
  <1>3. Rising(given)
    <2>1. PICK g \in Seq(1 .. emitted), w \in Seq(1 .. emitted), b \in Seq(1 .. emitted) :
            g = given /\ w = Way /\ b = buffer
      BY LineType
    <2>2. PICK t \in Seq(1 .. emitted) : t = w \o b
      BY ConcatProperties
    <2>3. Rising(g \o t)
      BY <2>1, <2>2 DEF Lined, Line
    <2>4. g \in Seq(Nat) /\ t \in Seq(Nat)
      BY SeqGrows, LineType
    <2>5. QED
      BY <2>1, <2>3, <2>4, RisingPrefix
  <1>4. NewestKept
    BY <1>1, <1>3 DEF NewestKept, Rising, Lined
  <1>5. QED
    BY <1>2, <1>4

LEMMA LinedFirst ==
  ASSUME Init
  PROVE  Lined
  <1>1. Line = <<>> \o (<<>> \o <<>>) /\ emitted = 0
    BY DEF Init, Line, Way
  <1>2. <<>> \o (<<>> \o <<>>) = <<>>
    BY NoneFacts, ConcatEmptySeq
  <1>3. Line = <<>>
    BY <1>1, <1>2
  <1>4. Rising(<<>>)
    BY DEF Rising
  <1>5. Upto(0) = <<>>
    BY DEF Upto
  <1>6. QED
    BY <1>1, <1>3, <1>4, <1>5 DEF Lined

LEMMA LineInvariant == Spec => [](TypeOK /\ Stands /\ Lined)
  <1>1. Init => Lined
    BY LinedFirst
  <1>2. TypeOK /\ Stands /\ Lined /\ [Next]_vars => (TypeOK /\ Stands /\ Lined)'
    BY TypeStep, StandsStep, LinedStep
  <1>3. Init => TypeOK /\ Stands
    BY InitTyped
  <1>4. QED
    BY <1>1, <1>2, <1>3, PTL DEF Spec

(* iterateEachValue and iterateBufferedValues lose, repeat and reorder no  *)
(* value, however turns, microtasks and queued requests interleave.        *)
THEOREM NothingLost == Spec => []Lossless
  BY LineInvariant, LineSays, PTL

(* iterateLatestValue never goes back and keeps the newest value to come,  *)
(* and no generator gives a value twice.                                   *)
THEOREM NewestStays == Spec => []NewestKept
  BY LineInvariant, LineSays, PTL

-----------------------------------------------------------------------------
(* Turns. *)

(* No later value belongs to the turn that value k was emitted in. *)
Cut(k) == IF k < emitted THEN turns[k] < turns[k + 1] ELSE inTurn => turns[k] < turnNo

TurnsRise == \A i, j \in 1 .. emitted : i <= j => turns[i] <= turns[j]

(* How a step may change the clock: not at all, by a new turn, by a value. *)
Quiet == UNCHANGED <<emitted, turns, turnNo>> /\ (inTurn' => inTurn)
NewTurn == UNCHANGED <<emitted, turns>> /\ turnNo' = turnNo + 1
NewValue ==
  /\ emitted' = emitted + 1 /\ turns' = Append(turns, turnNo)
  /\ inTurn /\ turnNo # 0 /\ turnNo' = turnNo

(* The yield gives its batch to a request; every other step gives nothing. *)
GivesBatch ==
  Way # <<>> /\ results' = Append(results, Way) /\ given' = given \o Way

LEMMA ClockCases ==
  ASSUME TypeOK, Stands, [Next]_vars
  PROVE  /\ Quiet \/ NewTurn \/ NewValue
         /\ GivesBatch \/ UNCHANGED <<results, given>>
  <1>1. CASE UNCHANGED vars
    BY <1>1 DEF vars, Quiet
  <1>2. CASE Asks
    BY <1>2 DEF Asks, Quiet, NewTurn
  <1>3. ASSUME NEW rest, Resumes(rest) PROVE Quiet
    BY <1>3 DEF Resumes, Quiet
  <1>4. CASE Quietly /\ \E rest : Resumes(rest)
    BY <1>3, <1>4 DEF Quietly
  <1>5. CASE Yield
    <2>1. GivesBatch
      BY <1>5, YieldCases DEF Gives, GivesBatch, Way
    <2>2. CASE Rests
      BY <2>1, <2>2 DEF Rests, Quiet
    <2>3. QED
      BY <1>3, <1>5, <2>1, <2>2, YieldCases
  <1>6. CASE TurnBegins
    BY <1>6 DEF TurnBegins, NewTurn
  <1>7. CASE Emit
    BY <1>7 DEF Emit, NewValue, Stands
  <1>8. ASSUME NEW kind \in {"complete", "error"}, Terminate(kind)
        PROVE  Quiet /\ UNCHANGED <<results, given>>
    BY <1>8 DEF Terminate, Quiet
  <1>9. CASE LaterTurnEnds
    BY <1>9 DEF LaterTurnEnds, Quiet
  <1>10. CASE Settle \/ Wake \/ Pause
    BY <1>10 DEF Settle, Wake, Pause, Quiet
  <1>11. QED
    BY <1>1, <1>2, <1>4, <1>5, <1>6, <1>7, <1>8, <1>9, <1>10, StepCases

LEMMA TurnsStep ==
  ASSUME TypeOK, Stands, TypeOK', TurnsRise, [Next]_vars
  PROVE  TurnsRise'
  <1>1. CASE Quiet \/ NewTurn
    BY <1>1 DEF Quiet, NewTurn, TurnsRise
  <1>2. ASSUME NewValue PROVE TurnsRise'
    <2>1. PICK m \in Nat : m = emitted
      BY LineType
    <2>2. /\ emitted' = m + 1 /\ turns' = Append(turns, turnNo) /\ Len(turns) = m
          /\ turns \in Seq(1 .. turnNo) /\ turnNo \in Nat /\ turnNo # 0
      BY <1>2, <2>1, BoundsOK DEF NewValue, TypeOK
    <2>3. /\ \A i \in 1 .. m : turns'[i] = turns[i] /\ turns[i] \in 1 .. turnNo
          /\ turns'[m + 1] = turnNo
      BY <2>2, AppendFacts, ElementOfSeq
    <2>4. SUFFICES ASSUME NEW i \in 1 .. m + 1, NEW j \in 1 .. m + 1, i <= j
                   PROVE  turns'[i] <= turns'[j]
      BY <2>2 DEF TurnsRise
    <2>5. CASE j \in 1 .. m
      <3>1. i \in 1 .. m
        BY <2>4, <2>5
      <3>2. turns[i] <= turns[j]
        BY <2>1, <2>4, <2>5, <3>1 DEF TurnsRise
      <3>3. QED
        BY <2>3, <2>5, <3>1, <3>2
    <2>6. CASE j = m + 1 /\ i \in 1 .. m
      <3>1. turns'[i] \in 1 .. turnNo /\ turns'[j] = turnNo
        BY <2>3, <2>6
      <3>2. QED
        BY <2>2, <3>1
    <2>7. CASE j = m + 1 /\ i = m + 1
      BY <2>2, <2>3, <2>7
    <2>8. QED
      BY <2>5, <2>6, <2>7
  <1>3. QED
    BY <1>1, <1>2, ClockCases

(* Once the turn of a value is over, it stays cut off from what follows. *)
LEMMA CutStep ==
  ASSUME TypeOK, Stands, [Next]_vars, NEW k \in 1 .. emitted, Cut(k)
  PROVE  Cut(k)' /\ k \in 1 .. emitted'
  <1>1. PICK m \in Nat : m = emitted
    BY LineType
  <1>2. /\ turns \in Seq(1 .. turnNo) /\ Len(turns) = m /\ turnNo \in Nat /\ k \in 1 .. m
        /\ turns[k] \in 1 .. turnNo
    BY <1>1, BoundsOK, ElementOfSeq DEF TypeOK
  <1>3. CASE Quiet
    BY <1>3 DEF Quiet, Cut
  <1>4. CASE NewTurn
    <2>1. turns[k] < turnNo + 1
      BY <1>2
    <2>2. QED
      BY <1>4, <2>1 DEF NewTurn, Cut
  <1>5. ASSUME NewValue PROVE Cut(k)' /\ k \in 1 .. emitted'
    <2>1. /\ emitted' = m + 1 /\ turns' = Append(turns, turnNo) /\ inTurn /\ turnNo # 0
      BY <1>1, <1>5 DEF NewValue
    <2>2. /\ \A i \in 1 .. m : turns'[i] = turns[i]
          /\ turns'[m + 1] = turnNo
      BY <1>2, <2>1, AppendFacts
    <2>3. k \in 1 .. emitted' /\ k < emitted'
      BY <1>2, <2>1
    <2>4. turns'[k] < turns'[k + 1]
      <3>1. CASE k = m
        <4>1. turns[k] < turnNo
          BY <1>1, <2>1, <3>1 DEF Cut
        <4>2. QED
          BY <1>2, <2>2, <3>1, <4>1
      <3>2. CASE k # m
        <4>1. k < m /\ k + 1 \in 1 .. m
          BY <1>2, <3>2
        <4>2. turns[k] < turns[k + 1]
          BY <1>1, <4>1 DEF Cut
        <4>3. QED
          BY <1>2, <2>2, <4>1, <4>2
      <3>3. QED
        BY <3>1, <3>2
    <2>5. QED
      BY <2>3, <2>4 DEF Cut
  <1>6. CASE Quiet \/ NewTurn \/ NewValue
    BY <1>3, <1>4, <1>5, <1>6
  <1>7. QED
    BY <1>6, ClockCases

(* What is taken from the buffer ends with the newest value. *)
LEMMA LastFacts ==
  ASSUME NEW S, NEW q \in Seq(S), q # <<>>
  PROVE  /\ Len(q) \in Nat \ {0} /\ Len(q) \in DOMAIN q
         /\ Last(q) = q[Len(q)] /\ Last(q) \in S
  <1>1. Len(q) \in Nat \ {0} /\ DOMAIN q = 1 .. Len(q)
    BY EmptySeq, LenProperties
  <1>2. Len(q) \in 1 .. Len(q)
    BY <1>1
  <1>3. q[Len(q)] \in S
    BY <1>2, ElementOfSeq
  <1>4. QED
    BY <1>1, <1>2, <1>3 DEF Last

LEMMA LastJoined ==
  ASSUME NEW S, NEW p \in Seq(S), NEW q \in Seq(S), q # <<>>
  PROVE  p \o q \in Seq(S) /\ p \o q # <<>> /\ Last(p \o q) = Last(q)
  <1>1. Len(p) \in Nat /\ Len(q) \in Nat \ {0} /\ Last(q) = q[Len(q)]
    BY LenProperties, LastFacts
  <1>2. PICK r \in Seq(S) :
          /\ r = p \o q /\ Len(r) = Len(p) + Len(q)
          /\ \A i \in 1 .. Len(p) + Len(q) : r[i] = IF i <= Len(p) THEN p[i] ELSE q[i - Len(p)]
    <2>1. /\ p \o q \in Seq(S) /\ Len(p \o q) = Len(p) + Len(q)
          /\ \A i \in 1 .. Len(p) + Len(q) :
               (p \o q)[i] = IF i <= Len(p) THEN p[i] ELSE q[i - Len(p)]
      BY ConcatProperties
    <2>2. QED
      BY <2>1
  <1>3. /\ Len(p) + Len(q) \in 1 .. Len(p) + Len(q) /\ ~(Len(p) + Len(q) <= Len(p))
        /\ (Len(p) + Len(q)) - Len(p) = Len(q) /\ Len(p) + Len(q) # 0
    BY <1>1
  <1>4. r[Len(p) + Len(q)] = q[Len(q)]
    BY <1>2, <1>3
  <1>5. r # <<>>
    <2>1. Len(r) # 0
      BY <1>2, <1>3
    <2>2. QED
      BY <2>1, NoneFacts
  <1>6. Last(r) = r[Len(p) + Len(q)]
    BY <1>2, <1>5, LastFacts
  <1>7. QED
    BY <1>1, <1>2, <1>4, <1>5, <1>6

LEMMA BufferNewest ==
  ASSUME TypeOK, Lined, pc # "closed", policy \in {"buffered", "latest"}, buffer # <<>>
  PROVE  Last(buffer) = emitted /\ emitted \in 1 .. emitted
  <1>1. PICK m \in Nat : m = emitted
    BY LineType
  <1>2. PICK g \in Seq(1 .. m), w \in Seq(1 .. m), b \in Seq(1 .. m) :
          g = given /\ w = Way /\ b = buffer
    BY <1>1, LineType
  <1>3. PICK t \in Seq(1 .. m) : t = w \o b /\ t # <<>> /\ Last(t) = Last(b)
    BY <1>2, LastJoined
  <1>4. PICK l \in Seq(1 .. m) : l = g \o t /\ l # <<>> /\ Last(l) = Last(t)
    BY <1>3, LastJoined
  <1>5. l = Line
    BY <1>2, <1>3, <1>4 DEF Line
  <1>6. m > 0
    <2>1. Last(b) \in 1 .. m
      BY <1>2, LastFacts
    <2>2. QED
      BY <2>1
  <1>7. Last(l) = m
    <2>1. CASE policy = "latest"
      BY <1>1, <1>5, <1>6, <2>1 DEF Lined
    <2>2. CASE policy = "buffered"
      <3>1. l = Upto(m)
        BY <1>1, <1>5, <2>2 DEF Lined
      <3>2. DOMAIN l = 1 .. m /\ \A i \in 1 .. m : l[i] = i
        BY <3>1 DEF Upto
      <3>3. Len(l) = m
        BY <3>2, LenProperties, SameLength
      <3>4. Last(l) = l[m] /\ m \in 1 .. m
        <4>1. Last(l) = l[Len(l)]
          BY <1>4, LastFacts
        <4>2. QED
          BY <1>6, <3>3, <4>1
      <3>5. QED
        BY <3>2, <3>4
    <2>3. QED
      BY <2>1, <2>2
  <1>8. QED
    BY <1>1, <1>2, <1>3, <1>4, <1>6, <1>7

(* What is on its way, and what has been given, ends with its turn. *)
WayCut == policy \in {"buffered", "latest"} /\ Way # <<>> => Cut(Last(Way))

Single == policy = "latest" => Len(buffer) <= 1 /\ Len(Way) <= 1

GivenCut == policy = "latest" => \A i \in DOMAIN given : Cut(given[i])

ResultsCut ==
  policy = "buffered" =>
    \A i \in DOMAIN results :
      /\ results[i] # <<>> /\ Cut(Last(results[i]))
      /\ \E k \in DOMAIN given : given[k] = Last(results[i])

BatchesRise ==
  policy = "buffered" =>
    \A i, j \in DOMAIN results : i < j => Last(results[i]) < Head(results[j])

LEMMA WayCutStep ==
  ASSUME TypeOK, Stands, Lined, WayCut, [Next]_vars
  PROVE  WayCut'
  <1>1. policy' = policy
    BY StepFlows
  <1>2. SUFFICES ASSUME policy \in {"buffered", "latest"}, Way' # <<>> PROVE Cut(Last(Way))'
    BY <1>1 DEF WayCut
  <1>3. CASE Way' = Way
    <2>1. PICK k \in 1 .. emitted : k = Last(Way)
      BY <1>2, <1>3, LineType, LastFacts
    <2>2. Cut(k)
      BY <1>2, <1>3, <2>1 DEF WayCut
    <2>3. Cut(k)'
      BY <2>2, CutStep
    <2>4. k = Last(Way)'
      BY <1>3, <2>1
    <2>5. QED
      BY <2>3, <2>4
  <1>4. CASE Way' = buffer /\ buffer # <<>> /\ ~inTurn' /\ emitted' = emitted /\ pc # "closed"
    <2>1. PICK k \in 1 .. emitted : k = emitted /\ k = Last(buffer)
      BY <1>2, <1>4, BufferNewest
    <2>2. Cut(k)'
      <3>1. ~(k < emitted')
        BY <1>4, <2>1, LineType
      <3>2. QED
        BY <1>4, <3>1 DEF Cut
    <2>3. k = Last(Way)'
      BY <1>4, <2>1
    <2>4. QED
      BY <2>2, <2>3
  <1>5. CASE Still
    BY <1>3, <1>5 DEF Still
  <1>6. CASE Advances /\ pc # "closed"
    BY <1>2, <1>4, <1>6 DEF Advances
  <1>7. CASE Arrives(emitted + 1)
    BY <1>2, <1>3, <1>7 DEF Arrives
  <1>8. QED
    BY <1>5, <1>6, <1>7, StepFlows

LEMMA SingleStep ==
  ASSUME TypeOK, Stands, Single, [Next]_vars
  PROVE  Single'
  <1>1. policy' = policy
    BY StepFlows
  <1>2. SUFFICES ASSUME policy = "latest" PROVE Len(buffer)' <= 1 /\ Len(Way)' <= 1
    BY <1>1 DEF Single
  <1>3. Len(buffer) <= 1 /\ Len(Way) <= 1
    BY <1>2 DEF Single
  <1>4. Len(<<>>) <= 1 /\ Len(<<emitted + 1>>) <= 1
    OBVIOUS
  <1>5. CASE Still
    BY <1>3, <1>5 DEF Still
  <1>6. CASE Advances
    BY <1>2, <1>3, <1>4, <1>6 DEF Advances
  <1>7. CASE Arrives(emitted + 1)
    BY <1>2, <1>3, <1>4, <1>7 DEF Arrives
  <1>8. QED
    BY <1>5, <1>6, <1>7, StepFlows

LEMMA JoinedParts ==
  ASSUME NEW S, NEW p \in Seq(S), NEW q \in Seq(S)
  PROVE  /\ \A i \in DOMAIN (p \o q) :
              \/ i \in DOMAIN p /\ (p \o q)[i] = p[i]
              \/ \E j \in DOMAIN q : (p \o q)[i] = q[j]
         /\ \A i \in DOMAIN p : i \in DOMAIN (p \o q) /\ (p \o q)[i] = p[i]
         /\ \A j \in DOMAIN q : \E i \in DOMAIN (p \o q) : (p \o q)[i] = q[j]
  <1> DEFINE r == p \o q
  <1>1. /\ r \in Seq(S) /\ Len(r) = Len(p) + Len(q)
        /\ \A i \in 1 .. Len(p) + Len(q) : r[i] = IF i <= Len(p) THEN p[i] ELSE q[i - Len(p)]
    BY ConcatProperties
  <1>2. Len(p) \in Nat /\ Len(q) \in Nat /\ DOMAIN p = 1 .. Len(p) /\ DOMAIN q = 1 .. Len(q)
    BY LenProperties
  <1>3. DOMAIN r = 1 .. Len(p) + Len(q)
    BY <1>1, LenProperties
  <1> HIDE DEF r
  <1>4. ASSUME NEW i \in DOMAIN r
        PROVE  (i \in DOMAIN p /\ r[i] = p[i]) \/ \E j \in DOMAIN q : r[i] = q[j]
    <2>1. CASE i <= Len(p)
      BY <1>1, <1>2, <1>3, <1>4, <2>1
    <2>2. CASE ~(i <= Len(p))
      <3>1. i - Len(p) \in 1 .. Len(q)
        BY <1>2, <1>3, <1>4, <2>2
      <3>2. r[i] = q[i - Len(p)]
        BY <1>1, <1>3, <1>4, <2>2
      <3>3. QED
        BY <1>2, <3>1, <3>2
    <2>3. QED
      BY <2>1, <2>2
  <1>5. ASSUME NEW i \in DOMAIN p PROVE i \in DOMAIN r /\ r[i] = p[i]
    BY <1>1, <1>2, <1>3, <1>5
  <1>6. ASSUME NEW j \in DOMAIN q PROVE \E i \in DOMAIN r : r[i] = q[j]
    <2>1. /\ Len(p) + j \in 1 .. Len(p) + Len(q) /\ ~(Len(p) + j <= Len(p))
          /\ (Len(p) + j) - Len(p) = j
      BY <1>2, <1>6
    <2>2. r[Len(p) + j] = q[j]
      BY <1>1, <2>1
    <2>3. QED
      BY <1>3, <2>1, <2>2
  <1>7. QED
    BY <1>4, <1>5, <1>6 DEF r

LEMMA GivenCutStep ==
  ASSUME TypeOK, Stands, WayCut, Single, GivenCut, [Next]_vars
  PROVE  GivenCut'
  <1>1. policy' = policy
    BY StepFlows
  <1>2. SUFFICES ASSUME policy = "latest", NEW i \in DOMAIN given'
                 PROVE  \E k \in 1 .. emitted : k = given'[i] /\ Cut(k)'
    BY <1>1 DEF GivenCut, Cut
  <1>3. PICK g \in Seq(1 .. emitted), w \in Seq(1 .. emitted) : g = given /\ w = Way
    BY LineType
  <1>4. \E k \in 1 .. emitted : k = given'[i] /\ Cut(k)
    <2>1. ASSUME NEW j \in DOMAIN g, given'[i] = g[j] PROVE \E k \in 1 .. emitted : k = given'[i] /\ Cut(k)
      <3>1. g[j] \in 1 .. emitted
        BY <2>1, LenProperties, ElementOfSeq
      <3>2. Cut(g[j])
        BY <1>2, <1>3, <2>1 DEF GivenCut
      <3>3. QED
        BY <2>1, <3>1, <3>2
    <2>2. ASSUME NEW j \in DOMAIN w, given'[i] = w[j] PROVE \E k \in 1 .. emitted : k = given'[i] /\ Cut(k)
      <3>1. DOMAIN w = 1 .. Len(w) /\ Len(w) \in Nat /\ Len(w) <= 1
        BY <1>2, <1>3, LenProperties DEF Single
      <3>2. j = Len(w) /\ w # <<>>
        BY <2>2, <3>1
      <3>3. w[j] = Last(w) /\ Last(w) \in 1 .. emitted
        BY <3>2, LastFacts
      <3>4. Cut(Last(w))
        BY <1>2, <1>3, <3>2 DEF WayCut
      <3>5. QED
        BY <2>2, <3>3, <3>4
    <2>3. CASE given' = given
      BY <1>2, <1>3, <2>1, <2>3
    <2>4. CASE given' = g \o w
      <3>1. \/ i \in DOMAIN g /\ (g \o w)[i] = g[i]
            \/ \E j \in DOMAIN w : (g \o w)[i] = w[j]
        BY <1>2, <2>4, JoinedParts
      <3>2. QED
        BY <2>1, <2>2, <2>4, <3>1
    <2>5. QED
      BY <1>3, <2>3, <2>4, ClockCases DEF GivesBatch
  <1>5. PICK k \in 1 .. emitted : k = given'[i] /\ Cut(k)
    BY <1>4
  <1>6. Cut(k)'
    BY <1>5, CutStep
  <1>7. QED
    BY <1>5, <1>6

LEMMA ResultsCutStep ==
  ASSUME TypeOK, Stands, WayCut, ResultsCut, [Next]_vars
  PROVE  ResultsCut'
  <1>1. policy' = policy
    BY StepFlows
  <1>2. SUFFICES ASSUME policy = "buffered", NEW i \in DOMAIN results'
                 PROVE  /\ results'[i] # <<>>
                        /\ \E k \in 1 .. emitted : k = Last(results'[i]) /\ Cut(k)'
                        /\ \E n \in DOMAIN given' : given'[n] = Last(results'[i])
    BY <1>1 DEF ResultsCut, Cut
  <1>3. /\ results \in Seq(Seq(1 .. emitted)) /\ DOMAIN results = 1 .. Len(results)
        /\ Len(results) \in Nat /\ Way \in Seq(1 .. emitted) /\ given \in Seq(1 .. emitted)
    <2>1. results \in Seq(Seq(1 .. emitted))
      BY DEF TypeOK
    <2>2. QED
      BY <2>1, LenProperties, LineType
  <1>4. \A j \in DOMAIN given : j \in DOMAIN given' /\ given'[j] = given[j]
    <2>1. CASE given' = given
      BY <2>1
    <2>2. CASE given' = given \o Way
      BY <1>3, <2>2, JoinedParts
    <2>3. QED
      BY <2>1, <2>2, ClockCases DEF GivesBatch
  <1>5. ASSUME i \in DOMAIN results, results'[i] = results[i]
        PROVE  /\ results'[i] # <<>>
               /\ \E k \in 1 .. emitted : k = Last(results'[i]) /\ Cut(k)'
               /\ \E n \in DOMAIN given' : given'[n] = Last(results'[i])
    <2>1. /\ results[i] # <<>> /\ Cut(Last(results[i]))
          /\ \E n \in DOMAIN given : given[n] = Last(results[i])
      BY <1>2, <1>5 DEF ResultsCut
    <2>2. PICK k \in 1 .. emitted : k = Last(results[i])
      <3>1. results[i] \in Seq(1 .. emitted)
        BY <1>3, <1>5, ElementOfSeq
      <3>2. QED
        BY <2>1, <3>1, LastFacts
    <2>3. Cut(k)'
      BY <2>1, <2>2, CutStep
    <2>4. k = Last(results'[i])
      BY <1>5, <2>2
    <2>5. QED
      BY <1>4, <1>5, <2>1, <2>2, <2>3, <2>4
  <1>6. CASE UNCHANGED results
    BY <1>2, <1>5, <1>6
  <1>7. CASE GivesBatch
    <2>1. /\ results' = Append(results, Way) /\ Way # <<>> /\ given' = given \o Way
      BY <1>7 DEF GivesBatch
    <2>2. /\ \A j \in 1 .. Len(results) : results'[j] = results[j]
          /\ results'[Len(results) + 1] = Way /\ DOMAIN results' = 1 .. Len(results) + 1
      <3>1. /\ results' \in Seq(Seq(1 .. emitted)) /\ Len(results') = Len(results) + 1
            /\ \A j \in 1 .. Len(results) : results'[j] = results[j]
            /\ results'[Len(results) + 1] = Way
        BY <1>3, <2>1, AppendFacts
      <3>2. DOMAIN results' = 1 .. Len(results')
        BY <3>1, LenProperties
      <3>3. QED
        BY <3>1, <3>2
    <2>3. CASE i \in 1 .. Len(results)
      BY <1>3, <1>5, <2>2, <2>3
    <2>4. CASE i = Len(results) + 1
      <3>1. results'[i] = Way
        BY <2>2, <2>4
      <3>2. PICK k \in 1 .. emitted : k = Last(Way)
        BY <1>3, <2>1, LastFacts
      <3>3. Cut(k)'
        <4>1. Cut(k)
          BY <1>2, <2>1, <3>2 DEF WayCut
        <4>2. QED
          BY <4>1, CutStep
      <3>4. \E n \in DOMAIN given' : given'[n] = k
        <4>1. Len(Way) \in DOMAIN Way /\ Way[Len(Way)] = k
          BY <1>3, <2>1, <3>2, LastFacts
        <4>2. \A j \in DOMAIN Way : \E n \in DOMAIN (given \o Way) : (given \o Way)[n] = Way[j]
          <5>1. PICK g \in Seq(1 .. emitted), w \in Seq(1 .. emitted) : g = given /\ w = Way
            BY <1>3
          <5>2. \A j \in DOMAIN w : \E n \in DOMAIN (g \o w) : (g \o w)[n] = w[j]
            BY JoinedParts
          <5>3. QED
            BY <5>1, <5>2
        <4>3. QED
          BY <2>1, <4>1, <4>2
      <3>5. QED
        BY <2>1, <3>1, <3>2, <3>3, <3>4
    <2>5. QED
      BY <1>2, <1>3, <2>2, <2>3, <2>4
  <1>8. QED
    BY <1>6, <1>7, ClockCases

LEMMA BatchesRiseStep ==
  ASSUME TypeOK, Stands, Lined, ResultsCut, BatchesRise, [Next]_vars
  PROVE  BatchesRise'
  <1>1. policy' = policy
    BY StepFlows
  <1>2. SUFFICES ASSUME policy = "buffered", NEW i \in DOMAIN results', NEW j \in DOMAIN results',
                        i < j
                 PROVE  Last(results'[i]) < Head(results'[j])
    BY <1>1 DEF BatchesRise
  <1>3. CASE UNCHANGED results
    BY <1>2, <1>3 DEF BatchesRise
  <1>4. CASE GivesBatch
    <2>1. PICK q \in Seq(Seq(1 .. emitted)), g \in Seq(1 .. emitted), w \in Seq(1 .. emitted),
               b \in Seq(1 .. emitted) :
            /\ q = results /\ g = given /\ w = Way /\ b = buffer
            /\ w # <<>> /\ results' = Append(q, w)
      BY <1>4, LineType DEF GivesBatch, TypeOK
    <2>2. /\ Len(q) \in Nat /\ DOMAIN q = 1 .. Len(q) /\ DOMAIN results' = 1 .. Len(q) + 1
          /\ \A k \in 1 .. Len(q) : results'[k] = q[k]
          /\ results'[Len(q) + 1] = w
      <3>1. /\ results' \in Seq(Seq(1 .. emitted)) /\ Len(results') = Len(q) + 1
            /\ \A k \in 1 .. Len(q) : results'[k] = q[k]
            /\ results'[Len(q) + 1] = w
        BY <2>1, AppendFacts
      <3>2. Len(q) \in Nat /\ DOMAIN q = 1 .. Len(q) /\ DOMAIN results' = 1 .. Len(results')
        BY <3>1, LenProperties
      <3>3. QED
        BY <3>1, <3>2
    <2>3. i \in 1 .. Len(q) /\ results'[i] = q[i]
      BY <1>2, <2>2
    <2>4. CASE j \in 1 .. Len(q)
      BY <1>2, <2>1, <2>2, <2>3, <2>4 DEF BatchesRise
    <2>5. CASE j = Len(q) + 1
      <3>1. PICK n \in DOMAIN g : g[n] = Last(q[i])
        BY <1>2, <2>1, <2>2, <2>3 DEF ResultsCut
      <3>2. PICK t \in Seq(1 .. emitted) : t = w \o b
        BY ConcatProperties
      <3>3. 1 \in DOMAIN t /\ t[1] = Head(w)
        <4>1. 1 \in DOMAIN w /\ Head(w) = w[1]
          <5>1. Head(w) = w[1] /\ Len(w) \in Nat \ {0} /\ DOMAIN w = 1 .. Len(w)
            BY <2>1, PopFacts, LenProperties
          <5>2. QED
            BY <5>1
        <4>2. \A k \in DOMAIN w : k \in DOMAIN (w \o b) /\ (w \o b)[k] = w[k]
          BY JoinedParts
        <4>3. QED
          BY <3>2, <4>1, <4>2
      <3>4. Rising(g \o t)
        BY <2>1, <3>2 DEF Lined, Line
      <3>5. g \in Seq(Nat) /\ t \in Seq(Nat)
        BY SeqGrows, LineType
      <3>6. g[n] < t[1]
        BY <3>1, <3>3, <3>4, <3>5, RisingPrefix
      <3>7. QED
        BY <2>2, <2>3, <2>5, <3>1, <3>3, <3>6
    <2>6. QED
      BY <2>2, <2>4, <2>5
  <1>5. QED
    BY <1>3, <1>4, ClockCases

Flow == TypeOK /\ Stands /\ Lined /\ TurnsRise

Bursts == WayCut /\ Single /\ GivenCut /\ ResultsCut /\ BatchesRise

LEMMA BurstsFirst ==
  ASSUME Init
  PROVE  TurnsRise /\ Bursts
  <1>1. Way = <<>> /\ buffer = <<>> /\ given = <<>> /\ results = <<>> /\ emitted = 0
    BY DEF Init, Way
  <1>2. Len(<<>>) <= 1 /\ DOMAIN <<>> = {}
    OBVIOUS
  <1>3. WayCut /\ Single /\ GivenCut /\ ResultsCut
    BY <1>1, <1>2 DEF WayCut, Single, GivenCut, ResultsCut
  <1>4. BatchesRise /\ TurnsRise
    BY <1>1, <1>2 DEF BatchesRise, TurnsRise
  <1>5. QED
    BY <1>3, <1>4 DEF Bursts

LEMMA BurstsSay ==
  ASSUME Flow, Bursts
  PROVE  BurstsCoalesce
  <1>1. PICK m \in Nat : m = emitted /\ turns \in Seq(1 .. turnNo) /\ Len(turns) = m /\ turnNo \in Nat
    BY LineType, BoundsOK DEF Flow, TypeOK
  <1>2. ASSUME policy = "latest", NEW i \in DOMAIN given, given[i] < emitted
        PROVE  turns[given[i]] < turns[given[i] + 1]
    BY <1>2 DEF Bursts, GivenCut, Cut
  <1>3. ASSUME policy = "buffered", NEW i \in DOMAIN results, NEW j \in DOMAIN results, i < j
        PROVE  turns[Last(results[i])] < turns[Head(results[j])]
    <2>1. /\ results[i] \in Seq(1 .. m) /\ results[j] \in Seq(1 .. m)
          /\ results[i] # <<>> /\ results[j] # <<>>
          /\ Cut(Last(results[i])) /\ Last(results[i]) < Head(results[j])
      <3>1. results \in Seq(Seq(1 .. m))
        BY <1>1 DEF Flow, TypeOK
      <3>2. results[i] \in Seq(1 .. m) /\ results[j] \in Seq(1 .. m)
        BY <3>1, LenProperties, ElementOfSeq
      <3>3. QED
        BY <1>3, <3>2 DEF Bursts, ResultsCut, BatchesRise
    <2>2. PICK a \in 1 .. m, b \in 1 .. m :
            a = Last(results[i]) /\ b = Head(results[j]) /\ a < b /\ Cut(a)
      <3>1. Last(results[i]) \in 1 .. m
        BY <2>1, LastFacts
      <3>2. Head(results[j]) \in 1 .. m
        BY <2>1, PopFacts
      <3>3. QED
        BY <2>1, <3>1, <3>2
    <2>3. a < m /\ a + 1 \in 1 .. m /\ a + 1 <= b
      BY <2>2
    <2>4. turns[a] < turns[a + 1]
      BY <1>1, <2>2, <2>3 DEF Cut
    <2>5. turns[a + 1] <= turns[b]
      BY <1>1, <2>2, <2>3 DEF Flow, TurnsRise
    <2>6. turns[a] \in Nat /\ turns[a + 1] \in Nat /\ turns[b] \in Nat
      <3>1. \A k \in 1 .. m : turns[k] \in 1 .. turnNo
        BY <1>1, ElementOfSeq
      <3>2. QED
        BY <1>1, <2>2, <2>3, <3>1
    <2>7. QED
      BY <2>2, <2>4, <2>5, <2>6
  <1>4. QED
    BY <1>2, <1>3 DEF BurstsCoalesce

(* A burst is observed as one: iterateBufferedValues never splits the      *)
(* values of a turn over two batches, and a value that iterateLatestValue  *)
(* gives is the last one of its turn.                                      *)
THEOREM BurstsStayWhole == Spec => []BurstsCoalesce
  <1>1. Init => Flow /\ Bursts
    BY InitTyped, LinedFirst, BurstsFirst DEF Flow
  <1>2. Flow /\ Bursts /\ [Next]_vars => (Flow /\ Bursts)'
    <2>1. SUFFICES ASSUME Flow, Bursts, [Next]_vars PROVE Flow' /\ Bursts'
      OBVIOUS
    <2>2. TypeOK' /\ Stands'
      BY <2>1, TypeStep, StandsStep DEF Flow
    <2>3. Lined' /\ TurnsRise'
      BY <2>1, <2>2, LinedStep, TurnsStep DEF Flow
    <2>4. WayCut' /\ Single' /\ GivenCut'
      BY <2>1, WayCutStep, SingleStep, GivenCutStep DEF Flow, Bursts
    <2>5. ResultsCut' /\ BatchesRise'
      BY <2>1, ResultsCutStep, BatchesRiseStep DEF Flow, Bursts
    <2>6. QED
      BY <2>2, <2>3, <2>4, <2>5 DEF Flow, Bursts
  <1>3. Flow /\ Bursts => BurstsCoalesce
    BY BurstsSay
  <1>4. QED
    BY <1>1, <1>2, <1>3, PTL DEF Spec
=============================================================================
