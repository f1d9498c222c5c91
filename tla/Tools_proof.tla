----------------------------- MODULE Tools_proof -----------------------------
(***************************************************************************)
(* That what can stop half way leaves all or nothing, and that what is     *)
(* shown is not stale, for every value of the constants of Tools.          *)
(***************************************************************************)
EXTENDS Tools, TLAPS, FiniteSetTheorems, WellFoundedInduction

-----------------------------------------------------------------------------
(* Sequences.                                                               *)

LEMMA EmptyIs ==
  ASSUME NEW S
  PROVE  <<>> \in Seq(S) /\ Len(<<>>) = 0 /\ DOMAIN <<>> = {}
OBVIOUS

(* What the concatenation of two sequences holds.                           *)
LEMMA ConcatIs ==
  ASSUME NEW S, NEW q \in Seq(S), NEW r \in Seq(S)
  PROVE  /\ q \o r \in Seq(S) /\ Len(q \o r) = Len(q) + Len(r)
         /\ \A i \in 1 .. Len(q) : (q \o r)[i] = q[i]
         /\ \A i \in 1 .. Len(r) : (q \o r)[Len(q) + i] = r[i]
OBVIOUS

(* A sequence of one element.                                               *)
LEMMA JustOne ==
  ASSUME NEW S, NEW x \in S
  PROVE  <<x>> \in Seq(S) /\ Len(<<x>>) = 1 /\ <<x>>[1] = x
OBVIOUS

(* A sequence has its elements at the positions up to its length.           *)
LEMMA ListIs ==
  ASSUME NEW S, NEW n \in Nat, NEW h \in [1 .. n -> S]
  PROVE  h \in Seq(S) /\ Len(h) = n
OBVIOUS

(* The first element, and those behind it.                                  *)
LEMMA HeadIs ==
  ASSUME NEW S, NEW q \in Seq(S), q # <<>>
  PROVE  /\ Head(q) \in S /\ Tail(q) \in Seq(S) /\ Len(q) \in Nat \ {0} /\ Head(q) = q[1]
         /\ Len(Tail(q)) = Len(q) - 1
         /\ \A i \in 1 .. Len(Tail(q)) : Tail(q)[i] = q[i + 1]
OBVIOUS

-----------------------------------------------------------------------------
(* Publication.                                                             *)

Sending == {"look", "publish", "verify", "tags", "latest", "published"}

(* What is packed is packed from the checkout, and is complete before any of *)
(* it is sent...                                                            *)
Packed ==
  /\ \A i \in DOMAIN candidates : candidates[i] = commit
  /\ pc \in {"idle", "pack", "rehearse", "confirm", "failed", "killed", "packed only"} \cup Sending
  /\ pc = "pack" => Len(candidates) < 4
  /\ pc \in {"rehearse", "confirm"} \cup Sending => Len(candidates) = 4
  /\ pc # "idle" => commit \in Commits

(* ...which is nothing that was not confirmed; the packages before the one  *)
(* that the command is about are those of this checkout.                    *)
Sent ==
  /\ pc \in {"pack", "rehearse", "confirm"} => at = 1
  /\ pc = "confirm" => dryRun = FALSE
  /\ pc \in Sending => confirmed = TRUE /\ dryRun = FALSE
  /\ pc \in {"look", "publish", "verify"} => \A p \in B!Packages : p < at => registry[p] = commit
  /\ pc = "verify" => registry[at] = commit
  /\ pc \in {"tags", "latest", "published"} => \A p \in B!Packages : registry[p] = commit

(* What was asked for was there, and has not been moved since.              *)
Tagged == \A p \in B!Packages : B!AskedFor(p) => next[p] \/ p \in moved

PublicationInv == B!TypeOK /\ Packed /\ Sent /\ Tagged /\ B!AllOrNothing

(* Before the first attempt nothing is packed, seen or published.           *)
LEMMA PublicationInit ==
  ASSUME B!Init
  PROVE  PublicationInv
<1>1. dryRun \in BOOLEAN /\ commit \in Commits \cup {0} /\ confirmed \in BOOLEAN BY DEF B!Init
<1>2. candidates \in Seq(Commits) /\ Len(candidates) = 0 BY EmptyIs DEF B!Init
<1>3. at \in B!Packages BY DEF B!Init, B!Packages
<1>4. registry \in [B!Packages -> Commits \cup {0}] BY DEF B!Init
<1>5. seen \in [B!Packages -> BOOLEAN] /\ next \in [B!Packages -> BOOLEAN] /\ moved = {} BY DEF B!Init
<1>6. \A p \in B!Packages : ~(seen[p] \/ next[p]) /\ registry[p] = 0 BY DEF B!Init
<1>7. B!TypeOK BY <1>1, <1>2, <1>3, <1>4, <1>5, <1>6 DEF B!TypeOK
<1>8. B!AllOrNothing BY <1>6 DEF B!Init, B!AllOrNothing
<1>9. pc = "idle" /\ commit = 0 /\ DOMAIN candidates = {} BY EmptyIs DEF B!Init
<1> QED BY <1>7, <1>8, <1>9 DEF PublicationInv, Packed, Sent, Sending, Tagged, B!AskedFor

(* Each step of beta.mjs keeps the invariant of the publication.            *)
LEMMA PublicationStep ==
  ASSUME 0 \notin Commits, PublicationInv, [B!Next]_(B!vars)
  PROVE  PublicationInv' /\ B!OnlyConfirmed
<1> USE DEF PublicationInv
<1>a. <<>> \in Seq(Commits) /\ Len(<<>>) = 0 /\ DOMAIN <<>> = {}
  BY EmptyIs
<1>b. \A i \in 1 .. 4 : i # 4 => (i % 4) + 1 = i + 1
  OBVIOUS
<1>c. (4 % 4) + 1 = 1
  OBVIOUS
<1>d. \A i, j \in 1 .. 4 : j < i + 1 => j < i \/ j = i
  OBVIOUS
<1>1. CASE B!Start
  <2>0. /\ candidates' \in Seq(Commits) /\ Len(candidates') = 0 /\ DOMAIN candidates' = {}
        /\ pc' = "pack" /\ at' = 1 /\ commit' \in Commits /\ UNCHANGED <<registry, seen, next>> /\ moved' = {}
        /\ dryRun' \in BOOLEAN /\ confirmed' \in BOOLEAN
    BY <1>1, <1>a DEF B!Start, B!registered
  <2>1. B!TypeOK'
    BY <2>0 DEF B!TypeOK, B!Packages
  <2>2. Packed'
    <3>1. \A i \in DOMAIN candidates' : candidates'[i] = commit'
      BY <2>0
    <3>2. Len(candidates') < 4
      BY <2>0
    <3>3. QED
      BY <2>0, <3>1, <3>2, Zenon DEF Packed, Sending
  <2>3. Sent'
    BY <1>1 DEF B!Start, B!registered, B!attempt, B!Stopped, B!TypeOK, B!Packages, Packed, Sent, Sending
  <2>g. Tagged'
    BY <1>1 DEF B!Start, B!registered, B!attempt, B!Stopped, B!TypeOK, B!Packages, Packed, Sent, Sending, B!AllOrNothing, B!OnlyConfirmed, Tagged, B!AskedFor
  <2>4. B!AllOrNothing' /\ B!OnlyConfirmed
    BY <2>g, <1>1 DEF B!Start, B!registered, B!attempt, B!Stopped, B!TypeOK, B!Packages, Packed, Sent, Sending, B!AllOrNothing, B!OnlyConfirmed, Tagged, B!AskedFor
  <2>5. QED
    BY <2>1, <2>2, <2>3, <2>4, <2>g
<1>2. CASE B!Pack
  <2>1. B!TypeOK'
    BY <1>2, <1>a, <1>b, <1>c DEF B!Pack, B!registered, B!attempt, B!TypeOK, B!Packages, Sending, Packed
  <2>2. Packed'
    BY <1>2, <1>a, <1>b, <1>c DEF B!Pack, B!registered, B!attempt, B!TypeOK, Packed, Sending
  <2>3. Sent'
    BY <1>2 DEF B!Pack, B!registered, B!attempt, B!TypeOK, B!Packages, Packed, Sent, Sending
  <2>g. Tagged'
    BY <1>2 DEF B!Pack, B!registered, B!attempt, B!TypeOK, B!Packages, Packed, Sent, Sending, B!AllOrNothing, B!OnlyConfirmed, Tagged, B!AskedFor
  <2>4. B!AllOrNothing' /\ B!OnlyConfirmed
    BY <2>g, <1>2 DEF B!Pack, B!registered, B!attempt, B!TypeOK, B!Packages, Packed, Sent, Sending, B!AllOrNothing, B!OnlyConfirmed, Tagged, B!AskedFor
  <2>5. QED
    BY <2>1, <2>2, <2>3, <2>4, <2>g
<1>3. CASE B!Rehearse
  <2>1. B!TypeOK'
    BY <1>3, <1>a, <1>b, <1>c DEF B!Rehearse, B!registered, B!attempt, B!TypeOK, B!Packages, Sending, Packed
  <2>2. Packed'
    BY <1>3, <1>a, <1>b, <1>c DEF B!Rehearse, B!registered, B!attempt, B!TypeOK, Packed, Sending
  <2>3. Sent'
    BY <1>3 DEF B!Rehearse, B!registered, B!attempt, B!TypeOK, B!Packages, Packed, Sent, Sending
  <2>g. Tagged'
    BY <1>3 DEF B!Rehearse, B!registered, B!attempt, B!TypeOK, B!Packages, Packed, Sent, Sending, B!AllOrNothing, B!OnlyConfirmed, Tagged, B!AskedFor
  <2>4. B!AllOrNothing' /\ B!OnlyConfirmed
    BY <2>g, <1>3 DEF B!Rehearse, B!registered, B!attempt, B!TypeOK, B!Packages, Packed, Sent, Sending, B!AllOrNothing, B!OnlyConfirmed, Tagged, B!AskedFor
  <2>5. QED
    BY <2>1, <2>2, <2>3, <2>4, <2>g
<1>4. CASE B!Confirm
  <2>1. B!TypeOK'
    BY <1>4, <1>a, <1>b, <1>c DEF B!Confirm, B!registered, B!attempt, B!TypeOK, B!Packages, Sending, Packed
  <2>2. Packed'
    BY <1>4, <1>a, <1>b, <1>c DEF B!Confirm, B!registered, B!attempt, B!TypeOK, Packed, Sending
  <2>3. Sent'
    BY <1>4 DEF B!Confirm, B!registered, B!attempt, B!TypeOK, B!Packages, Packed, Sent, Sending
  <2>g. Tagged'
    BY <1>4 DEF B!Confirm, B!registered, B!attempt, B!TypeOK, B!Packages, Packed, Sent, Sending, B!AllOrNothing, B!OnlyConfirmed, Tagged, B!AskedFor
  <2>4. B!AllOrNothing' /\ B!OnlyConfirmed
    BY <2>g, <1>4 DEF B!Confirm, B!registered, B!attempt, B!TypeOK, B!Packages, Packed, Sent, Sending, B!AllOrNothing, B!OnlyConfirmed, Tagged, B!AskedFor
  <2>5. QED
    BY <2>1, <2>2, <2>3, <2>4, <2>g
<1>5. CASE B!Look
  <2>1. B!TypeOK'
    BY <1>5, <1>a, <1>b, <1>c DEF B!Look, B!registered, B!attempt, B!Further, B!TypeOK, B!Packages, Sending, Packed
  <2>2. Packed'
    BY <1>5, <1>a, <1>b, <1>c DEF B!Look, B!registered, B!attempt, B!Further, B!TypeOK, Packed, Sending
  <2>3. Sent'
    <3>0. \A p \in B!Packages : p < at => registry[p] = commit BY <1>5 DEF B!Look, Sent
    <3>1. CASE seen[at] /\ registry[at] = candidates[at] /\ B!Further
      <4>0. registry[at] = commit /\ at \in 1 .. 4
        BY <1>5, <3>1 DEF B!Look, B!TypeOK, B!Packages, Packed, Sending
      <4>1. CASE at = 4
        BY <1>5, <3>0, <3>1, <4>0, <4>1, <1>c
        DEF B!Look, B!registered, B!attempt, B!Further, B!Packages, Sent, Sending
      <4>2. CASE at # 4
        BY <1>5, <3>0, <3>1, <4>0, <4>2, <1>b, <1>d
        DEF B!Look, B!registered, B!attempt, B!Further, B!Packages, Sent, Sending
      <4> QED BY <4>1, <4>2
    <3>2. CASE ~seen[at] /\ pc' = "publish" /\ UNCHANGED at
      BY <1>5, <3>0, <3>2 DEF B!Look, B!registered, B!attempt, B!Packages, Sent, Sending
    <3>3. CASE pc' = "failed" BY <3>3 DEF Sent, Sending
    <3> QED BY <1>5, <3>1, <3>2, <3>3 DEF B!Look
  <2>g. Tagged'
    BY <1>5, <1>b, <1>c, <1>d DEF B!Look, B!registered, B!attempt, B!Further, B!TypeOK, B!Packages, Packed, Sent, Sending, B!AllOrNothing, B!OnlyConfirmed, Tagged, B!AskedFor
  <2>4. B!AllOrNothing' /\ B!OnlyConfirmed
    BY <2>g, <1>5, <1>b, <1>c, <1>d DEF B!Look, B!registered, B!attempt, B!Further, B!TypeOK, B!Packages, Packed, Sent, Sending, B!AllOrNothing, B!OnlyConfirmed, Tagged, B!AskedFor
  <2>5. QED
    BY <2>1, <2>2, <2>3, <2>4, <2>g
<1>6. CASE B!Publish
  <2>0. candidates[at] = commit /\ commit \in Commits
    BY <1>6 DEF B!Publish, B!TypeOK, B!Packages, Packed, Sending
  <2>1. B!TypeOK'
    BY <1>6, <2>0, <1>a, <1>b, <1>c DEF B!Publish, B!registered, B!attempt, B!TypeOK, B!Packages, Sending, Packed
  <2>2. Packed'
    BY <1>6, <2>0, <1>a, <1>b, <1>c DEF B!Publish, B!registered, B!attempt, B!TypeOK, Packed, Sending
  <2>3. Sent'
    BY <1>6 DEF B!Publish, B!registered, B!attempt, B!TypeOK, B!Packages, Packed, Sent, Sending
  <2>g. Tagged'
    BY <1>6 DEF B!Publish, B!registered, B!attempt, B!TypeOK, B!Packages, Packed, Sent, Sending, B!AllOrNothing, B!OnlyConfirmed, Tagged, B!AskedFor
  <2>4. B!AllOrNothing' /\ B!OnlyConfirmed
    BY <2>g, <1>6 DEF B!Publish, B!registered, B!attempt, B!TypeOK, B!Packages, Packed, Sent, Sending, B!AllOrNothing, B!OnlyConfirmed, Tagged, B!AskedFor
  <2>5. QED
    BY <2>1, <2>2, <2>3, <2>4, <2>g
<1>7. CASE B!Verify
  <2>0. candidates[at] = commit /\ commit \in Commits
    BY <1>7 DEF B!Verify, B!TypeOK, B!Packages, Packed, Sending
  <2>1. B!TypeOK'
    BY <1>7, <2>0, <1>a, <1>b, <1>c DEF B!Verify, B!registered, B!attempt, B!Further, B!TypeOK, B!Packages, Sending, Packed
  <2>2. Packed'
    BY <1>7, <2>0, <1>a, <1>b, <1>c DEF B!Verify, B!registered, B!attempt, B!Further, B!TypeOK, Packed, Sending
  <2>3. Sent'
    <3>1. CASE at = 4 /\ pc' = "tags"
      BY <1>7, <3>1, <2>0, <1>c DEF B!Verify, B!registered, B!attempt, B!Further, B!TypeOK, B!Packages, Sent, Sending
    <3>2. CASE at # 4 /\ pc' = "look"
      BY <1>7, <3>2, <2>0, <1>b, <1>d DEF B!Verify, B!registered, B!attempt, B!Further, B!TypeOK, B!Packages, Sent, Sending
    <3>3. CASE pc' = "failed"
      BY <3>3 DEF Sent, Sending
    <3>4. QED
      BY <1>7, <3>1, <3>2, <3>3 DEF B!Verify, B!Further
  <2>g. Tagged'
    <3>1. CASE pc' = "tags"
      <4>1. at' = 1 BY <1>7, <3>1, <1>c DEF B!Verify, B!Further
      <4> QED BY <3>1, <4>1 DEF Tagged, B!AskedFor, B!Packages
    <3>2. CASE pc' \in {"look", "failed"} BY <3>2 DEF Tagged, B!AskedFor
    <3> QED BY <1>7, <3>1, <3>2 DEF B!Verify, B!Further
  <2>4. B!AllOrNothing' /\ B!OnlyConfirmed
    BY <2>g, <1>7, <1>b, <1>c, <1>d DEF B!Verify, B!registered, B!attempt, B!Further, B!TypeOK, B!Packages, Packed, Sent, Sending, B!AllOrNothing, B!OnlyConfirmed, Tagged, B!AskedFor
  <2>5. QED
    BY <2>1, <2>2, <2>3, <2>4, <2>g
<1>8. CASE B!VerifyTag
  <2>1. B!TypeOK'
    BY <1>8, <1>a, <1>b, <1>c DEF B!VerifyTag, B!registered, B!attempt, B!TypeOK, B!Packages, Sending, Packed
  <2>2. Packed'
    BY <1>8, <1>a, <1>b, <1>c DEF B!VerifyTag, B!registered, B!attempt, B!TypeOK, Packed, Sending
  <2>3. Sent'
    BY <1>8 DEF B!VerifyTag, B!registered, B!attempt, B!TypeOK, B!Packages, Packed, Sent, Sending
  <2>g. Tagged'
    BY <1>8 DEF B!VerifyTag, B!registered, B!attempt, B!TypeOK, B!Packages, Packed, Sent, Sending, B!AllOrNothing, B!OnlyConfirmed, Tagged, B!AskedFor
  <2>4. B!AllOrNothing' /\ B!OnlyConfirmed
    BY <2>g, <1>8 DEF B!VerifyTag, B!registered, B!attempt, B!TypeOK, B!Packages, Packed, Sent, Sending, B!AllOrNothing, B!OnlyConfirmed, Tagged, B!AskedFor
  <2>5. QED
    BY <2>1, <2>2, <2>3, <2>4, <2>g
<1>13. CASE B!VerifyLatest
  <2>1. B!TypeOK'
    BY <1>13, <1>a, <1>b, <1>c DEF B!VerifyLatest, B!registered, B!attempt, B!TypeOK, B!Packages, Sending, Packed
  <2>2. Packed'
    BY <1>13, <1>a, <1>b, <1>c DEF B!VerifyLatest, B!registered, B!attempt, B!TypeOK, Packed, Sending
  <2>3. Sent'
    BY <1>13 DEF B!VerifyLatest, B!registered, B!attempt, B!TypeOK, B!Packages, Packed, Sent, Sending
  <2>g. Tagged'
    BY <1>13 DEF B!VerifyLatest, B!registered, B!attempt, B!TypeOK, B!Packages, Packed, Sent, Sending, B!AllOrNothing, B!OnlyConfirmed, Tagged, B!AskedFor
  <2>4. B!AllOrNothing' /\ B!OnlyConfirmed
    BY <2>g, <1>13 DEF B!VerifyLatest, B!registered, B!attempt, B!TypeOK, B!Packages, Packed, Sent, Sending, B!AllOrNothing, B!OnlyConfirmed, Tagged, B!AskedFor
  <2>5. QED
    BY <2>1, <2>2, <2>3, <2>4, <2>g
<1>9. CASE B!Fails
  <2>1. B!TypeOK'
    BY <1>9, <1>a, <1>b, <1>c DEF B!Fails, B!registered, B!attempt, B!Stopped, B!TypeOK, B!Packages, Sending, Packed
  <2>2. Packed'
    BY <1>9, <1>a, <1>b, <1>c DEF B!Fails, B!registered, B!attempt, B!Stopped, B!TypeOK, Packed, Sending
  <2>3. Sent'
    BY <1>9 DEF B!Fails, B!registered, B!attempt, B!Stopped, B!TypeOK, B!Packages, Packed, Sent, Sending
  <2>g. Tagged'
    BY <1>9 DEF B!Fails, B!registered, B!attempt, B!Stopped, B!TypeOK, B!Packages, Packed, Sent, Sending, B!AllOrNothing, B!OnlyConfirmed, Tagged, B!AskedFor
  <2>4. B!AllOrNothing' /\ B!OnlyConfirmed
    BY <2>g, <1>9 DEF B!Fails, B!registered, B!attempt, B!Stopped, B!TypeOK, B!Packages, Packed, Sent, Sending, B!AllOrNothing, B!OnlyConfirmed, Tagged, B!AskedFor
  <2>5. QED
    BY <2>1, <2>2, <2>3, <2>4, <2>g
<1>10. ASSUME NEW p \in B!Packages, B!Propagates(p) PROVE PublicationInv' /\ B!OnlyConfirmed
  <2>1. B!TypeOK'
    BY <1>10, <1>a, <1>b, <1>c DEF B!Propagates, B!registered, B!attempt, B!TypeOK, B!Packages, Sending, Packed
  <2>2. Packed'
    BY <1>10, <1>a, <1>b, <1>c DEF B!Propagates, B!registered, B!attempt, B!TypeOK, Packed, Sending
  <2>3. Sent'
    BY <1>10 DEF B!Propagates, B!registered, B!attempt, B!TypeOK, B!Packages, Packed, Sent, Sending
  <2>g. Tagged'
    BY <1>10 DEF B!Propagates, B!registered, B!attempt, B!TypeOK, B!Packages, Packed, Sent, Sending, B!AllOrNothing, B!OnlyConfirmed, Tagged, B!AskedFor
  <2>4. B!AllOrNothing' /\ B!OnlyConfirmed
    BY <2>g, <1>10 DEF B!Propagates, B!registered, B!attempt, B!TypeOK, B!Packages, Packed, Sent, Sending, B!AllOrNothing, B!OnlyConfirmed, Tagged, B!AskedFor
  <2>5. QED
    BY <2>1, <2>2, <2>3, <2>4, <2>g
<1>11. ASSUME NEW p \in B!Packages, B!Retagged(p) PROVE PublicationInv' /\ B!OnlyConfirmed
  <2>1. B!TypeOK'
    BY <1>11, <1>a, <1>b, <1>c DEF B!Retagged, B!registered, B!attempt, B!TypeOK, B!Packages, Sending, Packed
  <2>2. Packed'
    BY <1>11, <1>a, <1>b, <1>c DEF B!Retagged, B!registered, B!attempt, B!TypeOK, Packed, Sending
  <2>3. Sent'
    BY <1>11 DEF B!Retagged, B!registered, B!attempt, B!TypeOK, B!Packages, Packed, Sent, Sending
  <2>g. Tagged'
    <3>1. /\ UNCHANGED <<pc, at>> /\ next' = [next EXCEPT ![p] = FALSE]
          /\ moved' = IF B!AskedFor(p) THEN moved \cup {p} ELSE moved
      BY <1>11 DEF B!Retagged
    <3>2. \A q \in B!Packages : B!AskedFor(q)' <=> B!AskedFor(q) BY <3>1 DEF B!AskedFor
    <3>3. ASSUME NEW q \in B!Packages, B!AskedFor(q) PROVE next'[q] \/ q \in moved'
      <4>1. CASE q = p BY <3>1, <3>3, <4>1
      <4>2. CASE q # p BY <3>1, <3>3, <4>2 DEF Tagged, B!TypeOK
      <4> QED BY <4>1, <4>2
    <3>4. B!Packages' = B!Packages BY DEF B!Packages
    <3> QED BY <3>2, <3>3, <3>4 DEF Tagged
  <2>4. B!AllOrNothing' /\ B!OnlyConfirmed
    BY <2>g, <1>11 DEF B!Retagged, B!registered, B!attempt, B!TypeOK, B!Packages, Packed, Sent, Sending, B!AllOrNothing, B!OnlyConfirmed, Tagged, B!AskedFor
  <2>5. QED
    BY <2>1, <2>2, <2>3, <2>4, <2>g
<1>12. CASE UNCHANGED B!vars
  <2>1. B!TypeOK'
    BY <1>12, <1>a, <1>b, <1>c DEF B!registered, B!attempt, B!vars, B!TypeOK, B!Packages, Sending, Packed
  <2>2. Packed'
    BY <1>12, <1>a, <1>b, <1>c DEF B!registered, B!attempt, B!vars, B!TypeOK, Packed, Sending
  <2>3. Sent'
    BY <1>12 DEF B!registered, B!attempt, B!vars, B!TypeOK, B!Packages, Packed, Sent, Sending
  <2>g. Tagged'
    BY <1>12 DEF B!registered, B!attempt, B!vars, B!TypeOK, B!Packages, Packed, Sent, Sending, B!AllOrNothing, B!OnlyConfirmed, Tagged, B!AskedFor
  <2>4. B!AllOrNothing' /\ B!OnlyConfirmed
    BY <2>g, <1>12 DEF B!registered, B!attempt, B!vars, B!TypeOK, B!Packages, Packed, Sent, Sending, B!AllOrNothing, B!OnlyConfirmed, Tagged, B!AskedFor
  <2>5. QED
    BY <2>1, <2>2, <2>3, <2>4, <2>g
<1>q. QED BY <1>1, <1>2, <1>3, <1>4, <1>5, <1>6, <1>7, <1>8, <1>9, <1>10, <1>11, <1>12, <1>13 DEF B!Next
-----------------------------------------------------------------------------
(* Installation.                                                            *)

(* What is the polyfill's is what was applied and not undone, and what could *)
(* not be: with an error that is told, or because it could not be deleted.  *)
InstallationInv ==
  /\ before \in [I!Names -> I!Kinds] /\ now \in [I!Names -> {"old", "new"}]
  /\ phase \in {"start", "refused", "apply", "undo", "installed", "failed", "damaged"}
  /\ plan = (IF phase = "start" THEN <<>> ELSE I!Planned)
  /\ applied \in 0 .. Len(I!Planned)
  /\ phase \in {"start", "refused", "failed", "damaged"} => applied = 0
  /\ phase = "installed" => applied = Len(I!Planned)
  /\ kept \subseteq {I!Planned[i] : i \in (applied + 1) .. Len(I!Planned)}
  /\ phase \in {"start", "refused", "apply", "installed"} => kept = {}
  /\ rollbackErrors \subseteq kept
  /\ \A n \in kept \ rollbackErrors : before[n] = "absent"
  /\ phase = "failed" => rollbackErrors = {}
  /\ phase = "damaged" => rollbackErrors # {}
  /\ {n \in I!Names : now[n] = "new"} = kept \cup {I!Planned[i] : i \in 1 .. applied}

(* What is planned is all that is wanted, each once, what the Observable     *)
(* needs before it.                                                         *)
LEMMA PlannedIs ==
  LET P == I!Planned IN
  /\ P \in Seq(I!Names) /\ Len(P) \in Nat
  /\ \A i, j \in 1 .. Len(P) : P[i] = P[j] => i = j
  /\ \A n \in I!Names : I!Wanted(n) <=> \E i \in 1 .. Len(P) : P[i] = n
  /\ \A i \in 1 .. Len(P) : P[i] = "Observable" => i = 3 /\ P[1] = "abort" /\ P[2] = "Subscriber"
<1> DEFINE P == I!Planned
<1>1. CASE I!Wanted("Observable") /\ I!Wanted("when")
  <2> DEFINE q == <<"abort", "Subscriber", "Observable">>
             r == <<"when">>
  <2>0. P = q \o r BY <1>1 DEF I!Planned
  <2>3. /\ q \in Seq(I!Names) /\ Len(q) = 3 /\ q[1] = "abort" /\ q[2] = "Subscriber"
        /\ q[3] = "Observable" /\ r \in Seq(I!Names) /\ Len(r) = 1 /\ r[1] = "when"
    BY DEF I!Names
  <2> HIDE DEF q, r
  <2>1. /\ P \in Seq(I!Names) /\ Len(P) = 4 /\ P[1] = "abort" /\ P[2] = "Subscriber"
        /\ P[3] = "Observable" /\ P[4] = "when"
    <3>1. /\ q \o r \in Seq(I!Names) /\ Len(q \o r) = 3 + 1
          /\ \A i \in 1 .. 3 : (q \o r)[i] = q[i]
          /\ \A i \in 1 .. 1 : (q \o r)[3 + i] = r[i]
      <4>0. q \in Seq(I!Names) /\ r \in Seq(I!Names) BY <2>3
      <4>1. /\ q \o r \in Seq(I!Names) /\ Len(q \o r) = Len(q) + Len(r)
            /\ \A i \in 1 .. Len(q) : (q \o r)[i] = q[i]
            /\ \A i \in 1 .. Len(r) : (q \o r)[Len(q) + i] = r[i]
        BY <4>0, ConcatIs
      <4> QED BY <4>1, <2>3
    <3> QED BY <2>0, <2>3, <3>1
  <2>2. \A n \in I!Names : I!Wanted(n) BY <1>1 DEF I!Names, I!Wanted
  <2> QED BY <2>1, <2>2 DEF I!Names
<1>2. CASE I!Wanted("Observable") /\ ~I!Wanted("when")
  <2>1. P = <<"abort", "Subscriber", "Observable">> BY <1>2 DEF I!Planned
  <2>2. \A n \in I!Names : I!Wanted(n) <=> n # "when" BY <1>2 DEF I!Names, I!Wanted
  <2> QED BY <2>1, <2>2 DEF I!Names
<1>3. CASE ~I!Wanted("Observable") /\ I!Wanted("when")
  <2>1. P = <<"when">> BY <1>3 DEF I!Planned
  <2>2. \A n \in I!Names : I!Wanted(n) <=> n = "when" BY <1>3 DEF I!Names, I!Wanted
  <2> QED BY <2>1, <2>2 DEF I!Names
<1>4. CASE ~I!Wanted("Observable") /\ ~I!Wanted("when")
  <2>1. P = <<>> BY <1>4 DEF I!Planned
  <2>2. \A n \in I!Names : ~I!Wanted(n) BY <1>4 DEF I!Names, I!Wanted
  <2>3. P \in Seq(I!Names) /\ Len(P) = 0 BY <2>1, EmptyIs
  <2> QED BY <2>2, <2>3
<1> QED BY <1>1, <1>2, <1>3, <1>4

(* The invariant says what the runs check of the installation.              *)
LEMMA InstallationWhole ==
  ASSUME InstallationInv
  PROVE  I!AllOrNothing /\ I!ObservableNeedsAbort
<1> USE DEF InstallationInv
<1> DEFINE P == I!Planned
           new == {n \in I!Names : now[n] = "new"}
<1>1. /\ P \in Seq(I!Names) /\ Len(P) \in Nat
      /\ \A n \in I!Names : I!Wanted(n) <=> \E i \in 1 .. Len(P) : P[i] = n
      /\ \A i \in 1 .. Len(P) : P[i] = "Observable" => i = 3 /\ P[1] = "abort" /\ P[2] = "Subscriber"
  BY PlannedIs
<1>2. new = kept \cup {P[i] : i \in 1 .. applied} /\ applied \in 0 .. Len(P) OBVIOUS
<1>3. \A n \in I!Names : now[n] \in {"old", "new"} OBVIOUS
<1> HIDE DEF P
<1>4. phase = "refused" => \A n \in I!Names : now[n] = "old"
  <2>1. phase = "refused" => new = {} BY <1>2
  <2> QED BY <2>1, <1>3
<1>5. phase = "installed" =>
        \A n \in I!Names : now[n] = (IF I!Wanted(n) THEN "new" ELSE "old")
  <2>1. phase = "installed" => new = {P[i] : i \in 1 .. Len(P)} BY <1>2 DEF P
  <2>2. phase = "installed" => \A n \in I!Names : now[n] = "new" <=> I!Wanted(n) BY <2>1, <1>1
  <2> QED BY <2>2, <1>3
<1>6. phase \in {"failed", "damaged"} => new = kept BY <1>2
<1>8. phase = "failed" => \A n \in I!Names : before[n] # "absent" => now[n] = "old"
  <2>1. phase = "failed" => \A n \in kept : before[n] = "absent" OBVIOUS
  <2>2. phase = "failed" => \A n \in I!Names : before[n] # "absent" => n \notin new BY <2>1, <1>6
  <2> QED BY <2>2, <1>3
<1>9. phase = "damaged" => \E n \in rollbackErrors : now[n] = "new"
  <2>1. phase = "damaged" => rollbackErrors # {} /\ rollbackErrors \subseteq new BY <1>6
  <2> QED BY <2>1
<1>7. ASSUME now["Observable"] = "new", kept = {}
      PROVE  now["abort"] = "new" /\ now["Subscriber"] = "new"
  <2>1. "Observable" \in new BY <1>7 DEF I!Names
  <2>2. PICK i \in 1 .. applied : P[i] = "Observable" BY <2>1, <1>2, <1>7
  <2>3. i = 3 /\ P[1] = "abort" /\ P[2] = "Subscriber" BY <2>2, <1>1, <1>2
  <2>4. 1 \in 1 .. applied /\ 2 \in 1 .. applied BY <2>2, <2>3, <1>1, <1>2
  <2>5. "abort" \in new /\ "Subscriber" \in new BY <2>3, <2>4, <1>2
  <2> QED BY <2>5
<1> QED BY <1>4, <1>5, <1>6, <1>7, <1>8, <1>9 DEF I!AllOrNothing, I!ObservableNeedsAbort

(* Before the initializer runs every property is the one of the realm.      *)
LEMMA InstallationInit ==
  ASSUME I!Init
  PROVE  InstallationInv
<1>1. Len(I!Planned) \in Nat BY PlannedIs
<1> QED BY <1>1 DEF I!Init, InstallationInv

(* Each definition, undoing and refusal keeps the invariant.                *)
LEMMA InstallationStep ==
  ASSUME InstallationInv, [I!Next]_(I!vars)
  PROVE  InstallationInv'
<1> DEFINE P == I!Planned
<1>1. /\ P \in Seq(I!Names) /\ Len(P) \in Nat
      /\ \A i, j \in 1 .. Len(P) : P[i] = P[j] => i = j
      /\ \A i \in 1 .. Len(P) : P[i] \in I!Names
  BY PlannedIs
<1>2. UNCHANGED before
  BY DEF I!Next, I!vars, I!Prepare, I!Apply, I!ApplyFails, I!Undo, I!UndoFails, I!UndoRefused, I!Finish
<1>3. (I!Planned)' = P BY <1>2 DEF I!Planned, I!Wanted
<1>4. /\ before \in [I!Names -> I!Kinds] /\ now \in [I!Names -> {"old", "new"}]
      /\ applied \in 0 .. Len(P)
      /\ phase \in {"start", "refused", "apply", "undo", "installed", "failed", "damaged"}
      /\ plan = (IF phase = "start" THEN <<>> ELSE P)
      /\ phase \in {"start", "refused", "failed", "damaged"} => applied = 0
      /\ phase = "installed" => applied = Len(P)
      /\ kept \subseteq {P[i] : i \in (applied + 1) .. Len(P)}
      /\ phase \in {"start", "refused", "apply", "installed"} => kept = {}
      /\ rollbackErrors \subseteq kept
      /\ \A n \in kept \ rollbackErrors : before[n] = "absent"
      /\ phase = "failed" => rollbackErrors = {}
      /\ phase = "damaged" => rollbackErrors # {}
      /\ {n \in I!Names : now[n] = "new"} = kept \cup {P[i] : i \in 1 .. applied}
  BY DEF InstallationInv
<1> HIDE DEF P
<1> DEFINE Whole ==
      /\ now' \in [I!Names -> {"old", "new"}]
      /\ applied' \in 0 .. Len(P)
      /\ phase' \in {"start", "refused", "apply", "undo", "installed", "failed", "damaged"}
      /\ plan' = (IF phase' = "start" THEN <<>> ELSE P)
      /\ phase' \in {"start", "refused", "failed", "damaged"} => applied' = 0
      /\ phase' = "installed" => applied' = Len(P)
      /\ kept' \subseteq {P[i] : i \in (applied' + 1) .. Len(P)}
      /\ phase' \in {"start", "refused", "apply", "installed"} => kept' = {}
      /\ rollbackErrors' \subseteq kept'
      /\ \A n \in kept' \ rollbackErrors' : before[n] = "absent"
      /\ phase' = "failed" => rollbackErrors' = {}
      /\ phase' = "damaged" => rollbackErrors' # {}
      /\ \A n \in I!Names : now'[n] = "new" <=> n \in kept' \/ \E i \in 1 .. applied' : P[i] = n
<1>5. ASSUME Whole PROVE InstallationInv'
  <2>0. kept' \cup {P[i] : i \in 1 .. applied'} \subseteq I!Names
    <3>0. applied' \in 0 .. Len(P) /\ Len(P) \in Nat BY <1>1, <1>5
    <3>1. \A i \in 1 .. applied' : i \in 1 .. Len(P) BY <3>0
    <3>2. \A i \in (applied' + 1) .. Len(P) : i \in 1 .. Len(P)
      <4> DEFINE k == applied'
                 l == Len(P)
      <4>1. k \in Nat /\ l \in Nat BY <3>0
      <4> HIDE DEF k, l
      <4>2. \A i \in (k + 1) .. l : i \in 1 .. l BY <4>1
      <4> QED BY <4>2 DEF k, l
    <3>3. kept' \subseteq {P[i] : i \in (applied' + 1) .. Len(P)} BY <1>5
    <3>4. \A i \in 1 .. Len(P) : P[i] \in I!Names BY <1>1
    <3> QED BY <3>1, <3>2, <3>3, <3>4
  <2>1. \A n : n \in I!Names /\ now'[n] = "new" <=> n \in kept' \cup {P[i] : i \in 1 .. applied'}
    BY <2>0, <1>5
  <2>2. {n \in I!Names : now'[n] = "new"} = kept' \cup {P[i] : i \in 1 .. applied'} BY <2>1, <1>5
  <2>3. before' \in [I!Names -> I!Kinds] BY <1>2, <1>4
  <2> HIDE DEF Whole
  <2>4. Whole BY <1>5
  <2>5. I!Names' = I!Names /\ I!Kinds' = I!Kinds BY DEF I!Names, I!Kinds
  <2> DEFINE Q == (I!Planned)'
  <2>6. Q = P BY <1>3
  <2>7. plan' = (IF phase' = "start" THEN <<>> ELSE Q) /\ applied' \in 0 .. Len(Q)
    BY <2>4, <2>6 DEF Whole
  <2>8. phase' = "installed" => applied' = Len(Q) BY <2>4, <2>6 DEF Whole
  <2>9. kept' \subseteq {Q[i] : i \in (applied' + 1) .. Len(Q)}
    <3>1. kept' \subseteq {P[i] : i \in (applied' + 1) .. Len(P)} BY <2>4 DEF Whole
    <3> HIDE DEF Q
    <3> QED BY <3>1, <2>6
  <2>10. {n \in I!Names : now'[n] = "new"} = kept' \cup {Q[i] : i \in 1 .. applied'} BY <2>2, <2>6
  <2>11. /\ now' \in [I!Names -> {"old", "new"}]
         /\ phase' \in {"start", "refused", "apply", "undo", "installed", "failed", "damaged"}
         /\ phase' \in {"start", "refused", "failed", "damaged"} => applied' = 0
         /\ phase' \in {"start", "refused", "apply", "installed"} => kept' = {}
         /\ rollbackErrors' \subseteq kept'
         /\ \A n \in kept' \ rollbackErrors' : before'[n] = "absent"
         /\ phase' = "failed" => rollbackErrors' = {}
         /\ phase' = "damaged" => rollbackErrors' # {}
    BY <2>4, <1>2 DEF Whole
  <2> QED BY <2>3, <2>5, <2>7, <2>8, <2>9, <2>10, <2>11 DEF InstallationInv
<1> HIDE DEF Whole
<1>6. \A n \in I!Names : now[n] = "new" <=> n \in kept \/ \E i \in 1 .. applied : P[i] = n
  BY <1>4
<1>7. ASSUME I!Prepare PROVE Whole
  <2>1. /\ phase = "start" /\ plan' = P /\ phase' \in {"apply", "refused"}
        /\ UNCHANGED <<before, now, applied, kept, rollbackErrors>>
    BY <1>7 DEF I!Prepare, I!left, P
  <2> QED BY <2>1, <1>4, <1>6 DEF Whole
<1>8. ASSUME I!Apply PROVE Whole
  <2>1. /\ phase = "apply" /\ applied < Len(P) /\ kept = {}
        /\ now' = [now EXCEPT ![P[applied + 1]] = "new"] /\ applied' = applied + 1
        /\ UNCHANGED <<before, plan, kept, rollbackErrors, phase>>
    BY <1>8, <1>4 DEF I!Apply, I!left
  <2>2. P[applied + 1] \in I!Names BY <2>1, <1>1, <1>4
  <2>3. now' \in [I!Names -> {"old", "new"}] BY <2>1, <2>2, <1>4
  <2>4. \A n \in I!Names : now'[n] = "new" <=> \E i \in 1 .. applied' : P[i] = n
    <3>1. \A i : i \in 1 .. applied' <=> i \in 1 .. applied \/ i = applied + 1 BY <2>1, <1>4, <1>1
    <3>2. \A n \in I!Names : now'[n] = IF n = P[applied + 1] THEN "new" ELSE now[n]
      BY <2>1, <2>2, <1>4
    <3> QED BY <2>1, <3>1, <3>2, <1>6
  <2> QED BY <2>1, <2>3, <2>4, <1>1, <1>4 DEF Whole
<1>9. ASSUME I!ApplyFails PROVE Whole
  <2>1. /\ phase = "apply" /\ phase' = "undo" /\ UNCHANGED <<before, now, plan, applied, kept>>
        /\ UNCHANGED rollbackErrors
    BY <1>9 DEF I!ApplyFails, I!left
  <2> QED BY <2>1, <1>4, <1>6 DEF Whole
<1>10. ASSUME I!Undo PROVE Whole
  <2>1. /\ phase = "undo" /\ applied > 0
        /\ now' = [now EXCEPT ![P[applied]] = "old"] /\ applied' = applied - 1
        /\ UNCHANGED <<before, plan, kept, rollbackErrors, phase>>
    BY <1>10, <1>4 DEF I!Undo, I!left
  <2>2. P[applied] \in I!Names BY <2>1, <1>1, <1>4
  <2>3. now' \in [I!Names -> {"old", "new"}] BY <2>1, <2>2, <1>4
  <2>4. P[applied] \notin kept /\ \A i \in 1 .. applied' : P[i] # P[applied]
    BY <2>1, <1>1, <1>4
  <2>5. \A n \in I!Names : now'[n] = "new" <=> n \in kept' \/ \E i \in 1 .. applied' : P[i] = n
    <3>1. \A i : i \in 1 .. applied <=> i \in 1 .. applied' \/ i = applied BY <2>1, <1>4, <1>1
    <3>2. \A n \in I!Names : now'[n] = IF n = P[applied] THEN "old" ELSE now[n]
      BY <2>1, <2>2, <1>4
    <3> QED BY <2>1, <2>4, <3>1, <3>2, <1>6
  <2>6. kept' \subseteq {P[i] : i \in (applied' + 1) .. Len(P)}
    <3>1. \A i \in (applied + 1) .. Len(P) : i \in (applied' + 1) .. Len(P) BY <2>1, <1>1, <1>4
    <3> QED BY <2>1, <3>1, <1>4
  <2>7. applied' \in 0 .. Len(P) BY <2>1, <1>1, <1>4
  <2> QED BY <2>1, <2>3, <2>5, <2>6, <2>7, <1>4 DEF Whole
<1>11. ASSUME I!UndoFails \/ I!UndoRefused PROVE Whole
  <2>1. /\ phase = "undo" /\ applied > 0 /\ kept' = kept \cup {P[applied]}
        /\ applied' = applied - 1 /\ UNCHANGED <<before, now, plan, phase>>
        /\ \/ rollbackErrors' = rollbackErrors \cup {P[applied]}
           \/ before[P[applied]] = "absent" /\ UNCHANGED rollbackErrors
    BY <1>11, <1>4 DEF I!UndoFails, I!UndoRefused
  <2>2. applied' \in 0 .. Len(P) BY <2>1, <1>1, <1>4
  <2>3. \A i : i \in 1 .. applied <=> i \in 1 .. applied' \/ i = applied BY <2>1, <1>4, <1>1
  <2>4. \A n \in I!Names : now'[n] = "new" <=> n \in kept' \/ \E i \in 1 .. applied' : P[i] = n
    BY <2>1, <2>3, <1>6
  <2>5. kept' \subseteq {P[i] : i \in (applied' + 1) .. Len(P)}
    <3>1. \A i \in (applied + 1) .. Len(P) : i \in (applied' + 1) .. Len(P) BY <2>1, <1>1, <1>4
    <3>2. applied \in (applied' + 1) .. Len(P) BY <2>1, <1>1, <1>4
    <3> QED BY <2>1, <3>1, <3>2, <1>4
  <2>6. rollbackErrors' \subseteq kept' /\ \A n \in kept' \ rollbackErrors' : before[n] = "absent"
    BY <2>1, <1>4
  <2> QED BY <2>1, <2>2, <2>4, <2>5, <2>6, <1>4 DEF Whole
<1>12. ASSUME I!Finish PROVE Whole
  <2>1. /\ UNCHANGED <<before, now, plan, applied, kept, rollbackErrors>>
        /\ \/ phase = "apply" /\ applied = Len(P) /\ phase' = "installed"
           \/ /\ phase = "undo" /\ applied = 0
              /\ phase' = IF rollbackErrors = {} THEN "failed" ELSE "damaged"
    BY <1>12, <1>4 DEF I!Finish, I!left
  <2> QED BY <2>1, <1>4, <1>6 DEF Whole
<1>13. ASSUME UNCHANGED I!vars PROVE Whole
  <2>1. UNCHANGED <<before, now, plan, applied, kept, rollbackErrors, phase>> BY <1>13 DEF I!vars
  <2> QED BY <2>1, <1>4, <1>6 DEF Whole
<1> QED BY <1>5, <1>7, <1>8, <1>9, <1>10, <1>11, <1>12, <1>13 DEF I!Next

-----------------------------------------------------------------------------
(* MigrationFiles.                                                          *)

Reading == {"read", "transform", "planned", "preflight"}

(* The outputs of the first n files are paths of their own and no sources.  *)
Named(n) ==
  \A i \in 1 .. n :
    /\ outputs[i] \in Paths
    /\ \A j \in 1 .. Batch : inputs[j] # outputs[i]
    /\ \A j \in 1 .. n : i # j => outputs[i] # outputs[j]

(* What others may still have put in the place of file i.                   *)
InTheWay(i) ==
  \/ disk[outputs[i]] = F!Absent
  \/ disk[outputs[i]] = F!File /\ (overwrite = TRUE \/ outputs[i] \in late)

Begun(i) == disk[outputs[i]] \in {F!Code(i), F!CutOff(i)}

FilesTyped ==
  /\ inputs \in [1 .. Batch -> Paths \cup {0}] /\ outputs \in [1 .. Batch -> Paths \cup {0}]
  /\ results \in Seq({"changed", "unchanged", "refused"})
  /\ disk \in [Paths -> {F!Absent, F!File, F!Other} \cup {F!Code(i) : i \in 1 .. Batch}
                          \cup {F!CutOff(i) : i \in 1 .. Batch}]
  /\ overwrite \in BOOLEAN /\ late \subseteq Paths
  /\ at \in 1 .. Batch
  /\ pc \in Reading \cup {"write", "done", "error"}

(* How far the plan is, and that it is found fit before any of it is written. *)
Planning ==
  /\ pc = "read" => results = <<>>
  /\ pc = "transform" => Len(results) = at - 1 /\ Named(at - 1)
  /\ pc = "planned" => at = 1
  /\ pc \in {"planned", "preflight", "write", "done"} => Len(results) = Batch /\ Named(Batch)
  /\ pc = "preflight" => \A i \in 1 .. (at - 1) : results[i] # "refused" /\ InTheWay(i)
  /\ pc \in {"write", "done"} => \A i \in 1 .. Batch : results[i] # "refused"
  /\ pc = "write" => \A i \in at .. Batch : InTheWay(i)

(* What has been written is of a plan that was fit, in its order.           *)
Writing ==
  /\ pc \in Reading => \A i \in 1 .. Batch : ~F!WrittenBy(i)
  /\ pc = "write" => \A i \in 1 .. (at - 1) : disk[outputs[i]] = F!Code(i)
  /\ pc = "write" => \A i \in at .. Batch : ~F!WrittenBy(i)
  /\ pc = "done" => \A i \in 1 .. Batch : disk[outputs[i]] = F!Code(i)
  /\ \A i \in 1 .. Batch : F!WrittenBy(i) =>
       /\ Len(results) = Batch /\ Named(Batch)
       /\ \A j \in 1 .. Batch : results[j] # "refused"
       /\ \A j \in 1 .. (i - 1) : disk[outputs[j]] = F!Code(j)
       /\ Begun(i)

FilesInv == FilesTyped /\ Planning /\ Writing

(* What can be at a path of the disk is told apart.                         *)
LEMMA DiskAre ==
  /\ F!Absent # F!File /\ F!Absent # F!Other /\ F!File # F!Other
  /\ \A i : F!Code(i) \notin {F!Absent, F!File, F!Other} /\ F!CutOff(i) \notin {F!Absent, F!File, F!Other}
  /\ \A i, j : F!Code(i) # F!CutOff(j)
  /\ \A i, j : (F!Code(i) = F!Code(j) \/ F!CutOff(i) = F!CutOff(j)) => i = j
BY DEF F!Absent, F!File, F!Other, F!Code, F!CutOff

(* The module counts as the library of theorems does.                       *)
LEMMA FilesCardinality == \A S : F!Cardinality(S) = Cardinality(S)
BY DEF F!Cardinality, Cardinality

(* The invariant says what the runs check of a batch.                       *)
LEMMA FilesWhole ==
  ASSUME Batch \in Nat \ {0}, FilesInv
  PROVE  F!AllOrNothing
<1> USE DEF FilesInv
<1>1. ASSUME Named(Batch) PROVE F!Cardinality({outputs[j] : j \in 1 .. Batch}) = Batch
  <2> DEFINE S == {outputs[j] : j \in 1 .. Batch}
             f == [j \in 1 .. Batch |-> outputs[j]]
  <2>1. f \in [1 .. Batch -> S] OBVIOUS
  <2>2. \A i, j \in 1 .. Batch : f[i] = f[j] => i = j BY <1>1 DEF Named
  <2>3. \A x \in S : \E j \in 1 .. Batch : f[j] = x OBVIOUS
  <2> HIDE DEF S, f
  <2>4. f \in Bijection(1 .. Batch, S)
    BY <2>1, <2>2, <2>3 DEF Bijection, Injection, Surjection, IsInjective
  <2>5. Cardinality(S) = Batch BY <2>4, FS_CountingElements DEF ExistsBijection
  <2> QED BY <2>5, FilesCardinality DEF S
<1>2. ASSUME NEW i \in 1 .. Batch, F!WrittenBy(i)
      PROVE  /\ \A j \in 1 .. Batch : j \in DOMAIN results /\ results[j] # "refused"
             /\ F!Cardinality({outputs[j] : j \in 1 .. Batch}) = Batch
             /\ \A j \in 1 .. (i - 1) : disk[outputs[j]] = F!Code(j)
             /\ disk[outputs[i]] \in {F!Code(i), F!CutOff(i)}
  <2>1. /\ Len(results) = Batch /\ Named(Batch)
        /\ \A j \in 1 .. Batch : results[j] # "refused"
        /\ \A j \in 1 .. (i - 1) : disk[outputs[j]] = F!Code(j)
        /\ Begun(i)
    BY <1>2 DEF Writing
  <2>2. DOMAIN results = 1 .. Batch BY <2>1 DEF FilesTyped
  <2> QED BY <2>1, <2>2, <1>1 DEF Begun
<1>3. pc = "done" => \A i \in 1 .. Batch : disk[outputs[i]] = F!Code(i) BY DEF Writing
<1> QED BY <1>2, <1>3 DEF F!AllOrNothing

(* Before the batch is read nothing is planned or written.                  *)
LEMMA FilesInit ==
  ASSUME Batch \in Nat \ {0}, F!Init
  PROVE  FilesInv
<1>1. /\ inputs \in [1 .. Batch -> Paths \cup {0}] /\ outputs \in [1 .. Batch -> Paths \cup {0}]
      /\ disk \in [Paths -> {F!Absent, F!File, F!Other}] /\ overwrite \in BOOLEAN
      /\ results = <<>> /\ at = 1 /\ pc = "read" /\ late = {}
  BY DEF F!Init, F!Outside
<1>2. \A i \in 1 .. Batch : ~F!WrittenBy(i)
  BY <1>1, DiskAre DEF F!WrittenBy
<1>3. FilesTyped BY <1>1, EmptyIs DEF FilesTyped, Reading
<1>4. Planning BY <1>1 DEF Planning
<1>5. Writing BY <1>1, <1>2 DEF Writing, Reading
<1> QED BY <1>3, <1>4, <1>5 DEF FilesInv

(* To read, name and look once more changes nothing on the disk.            *)
LEMMA FilesUntouched ==
  ASSUME Batch \in Nat \ {0}, FilesInv, pc \in Reading, UNCHANGED <<inputs, outputs, overwrite, disk, late>>,
         results' \in Seq({"changed", "unchanged", "refused"}), at' \in 1 .. Batch,
         pc' \in Reading \cup {"write", "error"}, pc' = "write" => at' = 1, Planning'
  PROVE  FilesInv'
<1> USE DEF FilesInv
<1>1. \A i \in 1 .. Batch : ~F!WrittenBy(i) /\ ~F!WrittenBy(i)'
  BY DEF Writing, F!WrittenBy, F!Code, F!CutOff
<1>2. FilesTyped'
  <2>1. (\A i : F!Code(i)' = F!Code(i) /\ F!CutOff(i)' = F!CutOff(i)) BY DEF F!Code, F!CutOff
  <2> QED BY <2>1 DEF FilesTyped, Reading, F!Absent, F!File, F!Other, F!Code, F!CutOff
<1>3. Writing'
  <2>1. pc' # "done" BY DEF Reading
  <2>2. pc' = "write" => \A i \in 1 .. (at' - 1) : FALSE OBVIOUS
  <2> QED BY <1>1, <2>1, <2>2 DEF Writing
<1> QED BY <1>2, <1>3

(* Each step of node.ts keeps the invariant of the batch.                   *)
LEMMA FilesStep ==
  ASSUME Batch \in Nat \ {0}, 0 \notin Paths, FilesInv, [F!Next]_(F!vars)
  PROVE  FilesInv' /\ F!OthersKept
<1> USE DEF FilesInv
<1>t. /\ inputs \in [1 .. Batch -> Paths \cup {0}] /\ outputs \in [1 .. Batch -> Paths \cup {0}]
      /\ results \in Seq({"changed", "unchanged", "refused"}) /\ at \in 1 .. Batch
  BY DEF FilesTyped
<1>f. ASSUME NEW then, F!NextFile(then)
      PROVE  /\ at' \in 1 .. Batch
             /\ \/ at < Batch /\ at' = at + 1 /\ pc' = pc
                \/ at = Batch /\ at' = 1 /\ pc' = then
  BY <1>f, <1>t DEF F!NextFile
<1>k. disk' = disk => F!OthersKept BY DEF F!OthersKept
<1>e. ASSUME pc' = "error" PROVE Planning' BY <1>e DEF Planning
<1>1. CASE F!Read
  <2>1. /\ pc = "read" /\ UNCHANGED <<inputs, outputs, overwrite, results, disk, late>>
        /\ F!NextFile("transform") \/ F!Throw
    BY <1>1 DEF F!Read, F!request
  <2>2. CASE F!NextFile("transform")
    <3>1. /\ at' \in 1 .. Batch
          /\ \/ pc' = "read"
             \/ at' = 1 /\ pc' = "transform"
      BY <1>f, <2>1, <2>2
    <3>2. results = <<>> /\ Len(results) = 0 BY <2>1 DEF Planning
    <3>3. at' = 1 => Len(results') = at' - 1 BY <2>1, <3>2
    <3>4. at' = 1 => Named(at - 1)'
      <4>1. at' = 1 => \A i \in 1 .. (at' - 1) : FALSE OBVIOUS
      <4> QED BY <4>1 DEF Named
    <3>5. Planning' BY <2>1, <3>1, <3>2, <3>3, <3>4 DEF Planning
    <3> QED BY <2>1, <3>1, <3>5, <1>t, <1>k, FilesUntouched DEF Reading
  <2>3. CASE F!Throw
    <3>1. pc' = "error" /\ at' = at BY <2>3 DEF F!Throw
    <3> QED BY <2>1, <3>1, <1>e, <1>t, <1>k, FilesUntouched DEF Reading
  <2> QED BY <2>1, <2>2, <2>3
<1>2. CASE F!Transform
  <2>1. pc = "transform" /\ UNCHANGED <<inputs, outputs, overwrite, disk, late>>
    BY <1>2 DEF F!Transform, F!request
  <2>2. CASE /\ outputs[at] \notin {0} \cup {inputs[i] : i \in 1 .. Batch}
             /\ \A i \in 1 .. (at - 1) : outputs[i] # outputs[at]
    <3>1. /\ \E result \in {"changed", "unchanged", "refused"} : results' = Append(results, result)
          /\ F!NextFile("planned")
      BY <1>2, <2>2 DEF F!Transform, F!Outside
    <3>2. /\ at' \in 1 .. Batch
          /\ \/ at < Batch /\ at' = at + 1 /\ pc' = "transform"
             \/ at = Batch /\ at' = 1 /\ pc' = "planned"
      BY <1>f, <2>1, <3>1
    <3>3. /\ results' \in Seq({"changed", "unchanged", "refused"}) /\ Len(results') = Len(results) + 1
          /\ Len(results) = at - 1 /\ Named(at - 1)
      BY <3>1, <2>1, <1>t DEF Planning
    <3>4. Named(at)
      <4>1. outputs[at] \in Paths BY <2>2, <1>t
      <4>2. \A i \in 1 .. at : i = at \/ i \in 1 .. (at - 1) BY <1>t
      <4> QED BY <4>1, <4>2, <3>3, <2>2 DEF Named
    <3>6. Planning'
      <4>1. CASE at < Batch /\ at' = at + 1 /\ pc' = "transform"
        <5>1. Len(results') = at' - 1 /\ at' - 1 = at BY <3>3, <4>1, <1>t
        <5>2. Named(at - 1)'
          <6>1. \A i \in 1 .. (at' - 1) : i \in 1 .. at BY <5>1, <1>t
          <6> QED BY <6>1, <3>4, <2>1 DEF Named
        <5> QED BY <5>1, <5>2, <4>1 DEF Planning
      <4>2. CASE at = Batch /\ at' = 1 /\ pc' = "planned"
        <5>1. Len(results') = Batch BY <3>3, <4>2, <1>t
        <5>2. Named(Batch)' BY <3>4, <2>1, <4>2 DEF Named
        <5> QED BY <5>1, <5>2, <4>2 DEF Planning
      <4> QED BY <3>2, <4>1, <4>2
    <3>7. pc' \in Reading \cup {"write", "error"} /\ (pc' = "write" => at' = 1) /\ pc \in Reading
      BY <3>2, <2>1 DEF Reading
    <3> QED BY <2>1, <3>2, <3>3, <3>6, <3>7, <1>k, FilesUntouched
  <2>3. CASE ~(/\ outputs[at] \notin {0} \cup {inputs[i] : i \in 1 .. Batch}
               /\ \A i \in 1 .. (at - 1) : outputs[i] # outputs[at])
    <3>1. pc' = "error" /\ at' = at /\ results' = results
      BY <1>2, <2>3 DEF F!Transform, F!Throw, F!Outside
    <3> QED BY <2>1, <3>1, <1>e, <1>t, <1>k, FilesUntouched DEF Reading
  <2> QED BY <2>2, <2>3
<1>3. CASE F!Apply
  <2>1. /\ pc = "planned" /\ pc' = "preflight"
        /\ UNCHANGED <<inputs, outputs, overwrite, results, disk, at, late>>
    BY <1>3 DEF F!Apply, F!request
  <2>2. at = 1 /\ Len(results) = Batch /\ Named(Batch) BY <2>1 DEF Planning
  <2>3. Planning' BY <2>1, <2>2 DEF Planning, Named
  <2> QED BY <2>1, <2>3, <1>t, <1>k, FilesUntouched DEF Reading
<1>4. CASE F!Preflight
  <2>1. pc = "preflight" /\ UNCHANGED <<inputs, outputs, overwrite, results, disk, late>>
    BY <1>4 DEF F!Preflight, F!request
  <2>2. \/ results[at] # "refused" /\ F!Writable(disk[outputs[at]]) /\ F!NextFile("write")
        \/ F!Throw
    BY <1>4 DEF F!Preflight
  <2>3. CASE results[at] # "refused" /\ F!Writable(disk[outputs[at]]) /\ F!NextFile("write")
    <3>1. /\ at' \in 1 .. Batch
          /\ \/ at < Batch /\ at' = at + 1 /\ pc' = "preflight"
             \/ at = Batch /\ at' = 1 /\ pc' = "write"
      BY <1>f, <2>1, <2>3
    <3>2. InTheWay(at) BY <2>3 DEF InTheWay, F!Writable, FilesTyped
    <3>3. \A i \in 1 .. at : results[i] # "refused" /\ InTheWay(i)
      <4>1. \A i \in 1 .. at : i = at \/ i \in 1 .. (at - 1) BY <1>t
      <4> QED BY <4>1, <3>2, <2>1, <2>3 DEF Planning
    <3>4. \A i \in 1 .. at : results'[i] # "refused" /\ InTheWay(i)'
      BY <3>3, <2>1 DEF InTheWay, F!Absent, F!File
    <3>5. Len(results') = Batch /\ Named(Batch)' BY <2>1 DEF Planning, Named
    <3>6. Planning'
      <4>1. CASE at < Batch /\ at' = at + 1 /\ pc' = "preflight"
        <5>1. at' - 1 = at BY <4>1, <1>t
        <5> QED BY <5>1, <3>4, <3>5, <4>1 DEF Planning
      <4>2. CASE at = Batch /\ at' = 1 /\ pc' = "write" BY <3>4, <3>5, <4>2 DEF Planning
      <4> QED BY <3>1, <4>1, <4>2
    <3>7. pc' \in Reading \cup {"write", "error"} /\ (pc' = "write" => at' = 1) /\ pc \in Reading
      BY <3>1, <2>1 DEF Reading
    <3> QED BY <2>1, <3>1, <3>6, <3>7, <1>t, <1>k, FilesUntouched
  <2>4. CASE F!Throw
    <3>1. pc' = "error" /\ at' = at BY <2>4 DEF F!Throw
    <3> QED BY <2>1, <3>1, <1>e, <1>t, <1>k, FilesUntouched DEF Reading
  <2> QED BY <2>2, <2>3, <2>4
<1>w. ASSUME pc = "write"
      PROVE  /\ Len(results) = Batch /\ Named(Batch) /\ outputs[at] \in Paths /\ InTheWay(at)
             /\ \A i \in 1 .. Batch : results[i] # "refused"
             /\ \A i \in 1 .. Batch : i # at => outputs[i] # outputs[at]
             /\ \A i \in 1 .. Batch : inputs[i] # outputs[at]
             /\ \A i \in at .. Batch : InTheWay(i) /\ ~F!WrittenBy(i)
             /\ \A i \in 1 .. (at - 1) : disk[outputs[i]] = F!Code(i)
  <2>1. Len(results) = Batch /\ Named(Batch) BY <1>w DEF Planning
  <2>2. at \in at .. Batch BY <1>t
  <2> QED BY <1>w, <2>1, <2>2, <1>t DEF Planning, Writing, Named
<1>o. ASSUME pc = "write", NEW c, c \in {F!Code(at), F!CutOff(at)},
             disk' = [disk EXCEPT ![outputs[at]] = c],
             UNCHANGED <<inputs, outputs, overwrite, results, late>>,
             at' \in 1 .. Batch, pc' \in {"write", "done", "error"}
      PROVE  /\ FilesTyped' /\ F!OthersKept
             /\ disk'[outputs[at]] = c
             /\ \A i \in 1 .. Batch : i # at => disk'[outputs[i]] = disk[outputs[i]]
             /\ \A i \in 1 .. Batch : F!WrittenBy(i)' => F!WrittenBy(i) \/ i = at
             /\ \A i \in 1 .. Batch : F!WrittenBy(i)' =>
                  /\ Len(results') = Batch /\ Named(Batch)'
                  /\ \A j \in 1 .. Batch : results'[j] # "refused"
                  /\ \A j \in 1 .. (i - 1) : disk'[outputs'[j]] = F!Code(j)
                  /\ Begun(i)'
  <2>1. outputs[at] \in Paths /\ DOMAIN disk = Paths BY <1>o, <1>w DEF FilesTyped
  <2>2. disk'[outputs[at]] = c /\ \A p \in Paths : p # outputs[at] => disk'[p] = disk[p]
    BY <1>o, <2>1
  <2>3. \A i \in 1 .. Batch : i # at => disk'[outputs[i]] = disk[outputs[i]]
    <3>1. \A i \in 1 .. Batch : outputs[i] \in Paths BY <1>o, <1>w DEF Named
    <3> QED BY <3>1, <2>2, <1>o, <1>w
  <2>4. \A i : F!Code(i)' = F!Code(i) /\ F!CutOff(i)' = F!CutOff(i) BY DEF F!Code, F!CutOff
  <2>5. \A i \in 1 .. Batch : F!WrittenBy(i)' => F!WrittenBy(i) \/ i = at
    <3> SUFFICES ASSUME NEW i \in 1 .. Batch, F!WrittenBy(i)', i # at PROVE F!WrittenBy(i)
      OBVIOUS
    <3>1. PICK p \in Paths : disk'[p] \in {F!Code(i), F!CutOff(i)} BY <2>4 DEF F!WrittenBy
    <3>2. c \notin {F!Code(i), F!CutOff(i)} BY <1>o, DiskAre
    <3>3. disk[p] \in {F!Code(i), F!CutOff(i)} BY <3>1, <3>2, <2>2
    <3> QED BY <3>3 DEF F!WrittenBy
  <2>6. F!OthersKept
    <3>1. disk[outputs[at]] # F!Absent =>
            disk[outputs[at]] = F!File /\ (overwrite \/ outputs[at] \in late)
      BY <1>o, <1>w DEF InTheWay
    <3> QED BY <3>1, <2>2, <1>o, <1>w DEF F!OthersKept
  <2>7. FilesTyped'
    <3>1. disk' \in [Paths -> {F!Absent, F!File, F!Other} \cup {F!Code(i) : i \in 1 .. Batch}
                              \cup {F!CutOff(i) : i \in 1 .. Batch}]
      BY <1>o, <2>1, <1>t DEF FilesTyped
    <3> QED BY <3>1, <1>o DEF FilesTyped, F!Absent, F!File, F!Other, F!Code, F!CutOff
  <2>8. ASSUME NEW i \in 1 .. Batch, F!WrittenBy(i)'
        PROVE  /\ Len(results') = Batch /\ Named(Batch)'
               /\ \A j \in 1 .. Batch : results'[j] # "refused"
               /\ \A j \in 1 .. (i - 1) : disk'[outputs'[j]] = F!Code(j)
               /\ Begun(i)'
    <3>1. Len(results') = Batch /\ Named(Batch)' /\ \A j \in 1 .. Batch : results'[j] # "refused"
      BY <1>o, <1>w DEF Named
    <3>2. i \notin at .. Batch \/ i = at BY <2>5, <2>8, <1>o, <1>w
    <3>3. i \in 1 .. (at - 1) \/ i = at BY <3>2, <1>t
    <3>4. \A j \in 1 .. (i - 1) : j \in 1 .. (at - 1) /\ j # at /\ j \in 1 .. Batch BY <3>3, <1>t
    <3>5. \A j \in 1 .. (i - 1) : disk'[outputs'[j]] = F!Code(j) BY <3>4, <2>3, <1>o, <1>w
    <3>6. Begun(i)'
      <4>1. CASE i = at BY <4>1, <2>2, <2>4, <1>o DEF Begun
      <4>2. CASE i \in 1 .. (at - 1) /\ i # at BY <4>2, <2>3, <2>4, <1>o, <1>w DEF Begun
      <4> QED BY <4>1, <4>2, <3>3
    <3> QED BY <3>1, <3>5, <3>6
  <2> QED BY <2>2, <2>3, <2>5, <2>6, <2>7, <2>8
<1>n. pc = "write" => disk[outputs[at]] # F!Other BY <1>w, DiskAre DEF InTheWay
<1>5. CASE F!Write
  <2>1. /\ pc = "write" /\ UNCHANGED <<inputs, outputs, overwrite, results, late>>
        /\ disk' = [disk EXCEPT ![outputs[at]] = F!Code(at)] /\ F!NextFile("done")
    BY <1>5, <1>n DEF F!Write, F!request
  <2>2. /\ at' \in 1 .. Batch
        /\ \/ at < Batch /\ at' = at + 1 /\ pc' = "write"
           \/ at = Batch /\ at' = 1 /\ pc' = "done"
    BY <1>f, <2>1
  <2>3. /\ FilesTyped' /\ F!OthersKept
        /\ disk'[outputs[at]] = F!Code(at)
        /\ \A i \in 1 .. Batch : i # at => disk'[outputs[i]] = disk[outputs[i]]
        /\ \A i \in 1 .. Batch : F!WrittenBy(i)' => F!WrittenBy(i) \/ i = at
        /\ \A i \in 1 .. Batch : F!WrittenBy(i)' =>
             /\ Len(results') = Batch /\ Named(Batch)'
             /\ \A j \in 1 .. Batch : results'[j] # "refused"
             /\ \A j \in 1 .. (i - 1) : disk'[outputs'[j]] = F!Code(j)
             /\ Begun(i)'
    BY <1>o, <2>1, <2>2
  <2>4. Len(results') = Batch /\ Named(Batch)' /\ \A j \in 1 .. Batch : results'[j] # "refused"
    BY <1>w, <2>1 DEF Named
  <2>5. \A i \in 1 .. at : disk'[outputs'[i]] = F!Code(i)
    <3>1. \A i \in 1 .. at : i = at \/ (i \in 1 .. (at - 1) /\ i # at /\ i \in 1 .. Batch) BY <1>t
    <3> QED BY <3>1, <2>1, <2>3, <1>w
  <2>6. \A i : F!Code(i)' = F!Code(i) /\ F!CutOff(i)' = F!CutOff(i) BY DEF F!Code, F!CutOff
  <2>7. \A i \in at .. Batch : i # at => InTheWay(i)' /\ ~F!WrittenBy(i)'
    <3>1. \A i \in at .. Batch : i \in 1 .. Batch BY <1>t
    <3>2. \A i \in at .. Batch : i # at => ~F!WrittenBy(i)' BY <3>1, <2>1, <2>3, <1>w
    <3>3. \A i \in at .. Batch : i # at => InTheWay(i)'
      BY <3>1, <2>1, <2>3, <1>w DEF InTheWay, F!Absent, F!File
    <3> QED BY <3>2, <3>3
  <2>8. CASE at < Batch /\ at' = at + 1 /\ pc' = "write"
    <3>1. at' - 1 = at /\ \A i \in at' .. Batch : i \in at .. Batch /\ i # at BY <2>8, <1>t
    <3>2. Planning' BY <2>4, <2>7, <2>8, <3>1 DEF Planning
    <3>3. Writing' BY <2>3, <2>5, <2>6, <2>7, <2>8, <3>1 DEF Writing, Reading
    <3> QED BY <2>3, <3>2, <3>3
  <2>9. CASE at = Batch /\ at' = 1 /\ pc' = "done"
    <3>1. Planning' BY <2>4, <2>9 DEF Planning
    <3>2. Writing' BY <2>3, <2>5, <2>6, <2>9 DEF Writing, Reading
    <3> QED BY <2>3, <3>1, <3>2
  <2> QED BY <2>2, <2>8, <2>9
<1>6. CASE F!WriteFails
  <2>1. /\ pc = "write" /\ UNCHANGED <<inputs, outputs, overwrite, results, late>>
        /\ disk' = [disk EXCEPT ![outputs[at]] = F!CutOff(at)] /\ pc' = "error" /\ at' = at
    BY <1>6, <1>n DEF F!WriteFails, F!Throw, F!request
  <2>2. /\ FilesTyped' /\ F!OthersKept
        /\ \A i \in 1 .. Batch : F!WrittenBy(i)' =>
             /\ Len(results') = Batch /\ Named(Batch)'
             /\ \A j \in 1 .. Batch : results'[j] # "refused"
             /\ \A j \in 1 .. (i - 1) : disk'[outputs'[j]] = F!Code(j)
             /\ Begun(i)'
    BY <1>o, <2>1, <1>t
  <2>3. \A i : F!Code(i)' = F!Code(i) BY DEF F!Code
  <2>4. Writing' BY <2>1, <2>2, <2>3 DEF Writing, Reading
  <2> QED BY <2>1, <2>2, <2>4, <1>e
<1>7. ASSUME NEW p \in Paths, F!OthersCreate(p) PROVE FilesInv' /\ F!OthersKept
  <2>1. /\ disk[p] = F!Absent /\ pc \notin {"error", "done"}
        /\ disk' = [disk EXCEPT ![p] = F!File] /\ late' = late \cup {p}
        /\ UNCHANGED <<inputs, outputs, overwrite, results, at, pc>>
    BY <1>7 DEF F!OthersCreate, F!request
  <2>2. DOMAIN disk = Paths BY DEF FilesTyped
  <2>3. disk'[p] = F!File /\ \A q \in Paths : q # p => disk'[q] = disk[q] BY <2>1, <2>2
  <2>4. F!OthersKept BY <2>1, <2>3 DEF F!OthersKept
  <2>5. FilesTyped'
    <3>1. /\ disk' \in [Paths -> {F!Absent, F!File, F!Other} \cup {F!Code(i) : i \in 1 .. Batch}
                                \cup {F!CutOff(i) : i \in 1 .. Batch}]
          /\ late' \subseteq Paths
      BY <2>1, <2>2 DEF FilesTyped
    <3> QED BY <3>1, <2>1 DEF FilesTyped, F!Absent, F!File, F!Other, F!Code, F!CutOff
  <2>6. \A i : F!Code(i)' = F!Code(i) /\ F!CutOff(i)' = F!CutOff(i) BY DEF F!Code, F!CutOff
  <2>7. \A q \in Paths : disk[q] # F!Absent => disk'[q] = disk[q] BY <2>1, <2>3
  <2>8. \A i \in 1 .. Batch : F!WrittenBy(i)' => F!WrittenBy(i)
    <3> SUFFICES ASSUME NEW i \in 1 .. Batch, F!WrittenBy(i)' PROVE F!WrittenBy(i) OBVIOUS
    <3>1. PICK q \in Paths : disk'[q] \in {F!Code(i), F!CutOff(i)} BY <2>6 DEF F!WrittenBy
    <3>2. disk[q] \in {F!Code(i), F!CutOff(i)} BY <3>1, <2>3, DiskAre
    <3> QED BY <3>2 DEF F!WrittenBy
  <2>9. \A i \in 1 .. Batch : outputs[i] \in Paths /\ InTheWay(i) => InTheWay(i)'
    BY <2>1, <2>3 DEF InTheWay, F!Absent, F!File
  <2>10. \A i \in 1 .. Batch : outputs[i] \in Paths /\ disk[outputs[i]] = F!Code(i) =>
           disk'[outputs[i]] = F!Code(i)
    BY <2>7, DiskAre
  <2>11. \A n : Named(n)' <=> Named(n) BY <2>1 DEF Named
  <2>12. Named(Batch) => \A i \in 1 .. Batch : outputs[i] \in Paths BY DEF Named
  <2>13. Planning'
    <3>1. pc = "preflight" => \A i \in 1 .. (at - 1) : InTheWay(i)'
      <4>1. \A i \in 1 .. (at - 1) : i \in 1 .. Batch BY <1>t
      <4> QED BY <4>1, <2>9, <2>12 DEF Planning
    <3>2. pc = "write" => \A i \in at .. Batch : InTheWay(i)'
      <4>1. \A i \in at .. Batch : i \in 1 .. Batch BY <1>t
      <4> QED BY <4>1, <2>9, <2>12 DEF Planning
    <3> QED BY <3>1, <3>2, <2>1, <2>11 DEF Planning
  <2>14. Writing'
    <3>1. pc = "write" => \A i \in 1 .. (at - 1) : disk'[outputs[i]] = F!Code(i)
      <4>1. \A i \in 1 .. (at - 1) : i \in 1 .. Batch BY <1>t
      <4> QED BY <4>1, <2>10, <2>12, <1>w
    <3>2. pc = "write" => \A i \in at .. Batch : ~F!WrittenBy(i)'
      <4>1. \A i \in at .. Batch : i \in 1 .. Batch BY <1>t
      <4> QED BY <4>1, <2>8, <1>w
    <3>3. pc \in Reading => \A i \in 1 .. Batch : ~F!WrittenBy(i)' BY <2>8 DEF Writing
    <3>4. ASSUME NEW i \in 1 .. Batch, F!WrittenBy(i)'
          PROVE  /\ Len(results') = Batch /\ Named(Batch)'
                 /\ \A j \in 1 .. Batch : results'[j] # "refused"
                 /\ \A j \in 1 .. (i - 1) : disk'[outputs'[j]] = F!Code(j)
                 /\ Begun(i)'
      <4>1. /\ Len(results) = Batch /\ Named(Batch)
            /\ \A j \in 1 .. Batch : results[j] # "refused"
            /\ \A j \in 1 .. (i - 1) : disk[outputs[j]] = F!Code(j)
            /\ Begun(i)
        BY <2>8, <3>4 DEF Writing
      <4>2. \A j \in 1 .. (i - 1) : j \in 1 .. Batch OBVIOUS
      <4>3. \A j \in 1 .. (i - 1) : disk'[outputs'[j]] = F!Code(j) BY <4>1, <4>2, <2>1, <2>10, <2>12
      <4>4. outputs[i] \in Paths /\ disk'[outputs[i]] = disk[outputs[i]]
        BY <4>1, <2>7, <2>12, DiskAre DEF Begun
      <4>5. Begun(i)' BY <4>1, <4>4, <2>1, <2>6 DEF Begun
      <4> QED BY <4>1, <4>3, <4>5, <2>1, <2>11
    <3> QED BY <3>1, <3>2, <3>3, <3>4, <2>1, <2>6 DEF Writing
  <2> QED BY <2>4, <2>5, <2>13, <2>14
<1>8. CASE UNCHANGED F!vars
  <2>1. UNCHANGED <<inputs, outputs, results, disk, overwrite, at, pc, late>> BY <1>8 DEF F!vars
  <2>2. FilesTyped' BY <2>1 DEF FilesTyped, F!Absent, F!File, F!Other, F!Code, F!CutOff
  <2>3. Planning' BY <2>1 DEF Planning, Named, InTheWay, F!Absent, F!File
  <2>4. Writing' BY <2>1 DEF Writing, Named, Begun, F!WrittenBy, F!Code, F!CutOff
  <2> QED BY <2>1, <2>2, <2>3, <2>4, <1>k
<1> QED BY <1>1, <1>2, <1>3, <1>4, <1>5, <1>6, <1>7, <1>8 DEF F!Next

-----------------------------------------------------------------------------
(* SkillInstall.                                                            *)

Usable(copy) == copy.form \in {"whole", "edited"}

Places ==
  {"start", "digest", "decide", "remove", "removing", "copy", "move", "place", "discard",
   "discarding", "restore", "clean", "giveUp"} \cup K!Ended

Unchanged == {"start", "digest", "decide", "remove", "removing", "copy", "move"}

SkillTyped ==
  /\ K!TypeOK
  /\ job \in [Installers -> [command : {"check", "install", "update", "remove"},
                             force : BOOLEAN, rev : 1 .. 2]]
  /\ record \in [Installers -> 0 .. 2]
  /\ pc \in [Installers -> Places]
  /\ past \in [copy : BOOLEAN, edited : BOOLEAN]
  /\ faults \in Nat
  /\ \A p \in Installers :
       /\ pc[p] \in Unchanged \cup {"clean"} => backup[p] = K!None
       /\ pc[p] \in {"move", "place"} => stage[p] = K!Whole(job[p].rev)
       /\ pc[p] \in {"remove", "removing"} => job[p].command = "remove"

(* A copy that can be used is where no process is about to discard it.      *)
Discarding(p) == pc[p] \in {"discard", "discarding"}

Safe ==
  past.copy = TRUE /\ (\A p \in Installers : job[p].command # "remove") =>
    \/ Usable(target)
    \/ \E p \in Installers : ~Discarding(p) /\ Usable(backup[p])

(* Where nobody uses force, nobody is about to act on a copy that was edited *)
(* in time.                                                                 *)
Respected ==
  past.edited = TRUE /\ (\A p \in Installers : job[p].force = FALSE) =>
    /\ target.form = "edited"
    /\ \A p \in Installers :
         /\ pc[p] \notin {"copy", "move", "remove", "removing"}
         /\ pc[p] = "decide" => state[p] = "modified"

(* What a process that is alone has done so far.                            *)
Progress(p) ==
  /\ pc[p] = "start" => state[p] = "unknown"
  /\ pc[p] \in {"start", "digest", "decide", "copy"} => stage[p] = K!None
  /\ pc[p] = "digest" => state[p] = "unknown" /\ Usable(target) /\ target.rev = record[p]
  /\ pc[p] = "decide" => state[p] # "unknown"
  /\ pc[p] = "decide" /\ state[p] = "current" => K!Own(p)
  /\ pc[p] \in {"decide", "copy", "move"} => K!FoundBy(p, target)
  /\ pc[p] = "place" => target = K!None /\ K!FoundBy(p, backup[p])
  /\ pc[p] \in {"discard", "discarding"} => K!Own(p) /\ stage[p] = K!None
  /\ pc[p] = "clean" => K!Own(p)
  /\ pc[p] = "restore" => (target = K!None /\ K!FoundBy(p, backup[p])) \/ K!Own(p)
  /\ pc[p] \in {"giveUp", "failed"} =>
       \/ K!FoundBy(p, target)
       \/ target = K!None /\ K!FoundBy(p, backup[p])
       \/ K!Own(p)
  /\ pc[p] = "done" => K!Own(p) /\ backup[p] = K!None /\ stage[p] = K!None

Progresses ==
  \A p \in Installers : K!Alone(p) /\ job[p].command \in {"install", "update"} => Progress(p)

SkillInv == SkillTyped /\ Safe /\ Respected /\ Progresses

(* What a copy is, whole, edited, or what is left of it.                    *)
LEMMA CopiesAre ==
  /\ K!None \notin K!Copy /\ ~Usable(K!None) /\ K!None.form = "none"
  /\ \A rev \in 1 .. 2 : /\ K!Whole(rev) \in K!Copy /\ Usable(K!Whole(rev))
                         /\ K!Whole(rev).rev = rev /\ K!Whole(rev).form = "whole"
  /\ \A copy \in K!Copy \cup {K!None} :
       /\ K!Partial(copy) \in K!Copy \cup {K!None} /\ ~Usable(K!Partial(copy))
       /\ K!Partial(copy) = K!None <=> copy = K!None
  /\ \A copy \in K!Copy : copy.form \in {"whole", "edited", "partial"} /\ copy.rev \in 1 .. 2
<1>1. K!None \notin K!Copy /\ ~Usable(K!None) /\ K!None.form = "none"
  BY DEF K!None, K!Copy, Usable
<1>2. \A rev \in 1 .. 2 : /\ K!Whole(rev) \in K!Copy /\ Usable(K!Whole(rev))
                          /\ K!Whole(rev).rev = rev /\ K!Whole(rev).form = "whole"
  BY DEF K!Whole, K!Copy, Usable
<1>3. ASSUME NEW copy \in K!Copy
      PROVE  K!Partial(copy) \in K!Copy /\ K!Partial(copy).form = "partial"
  <2>1. K!Partial(copy) = [copy EXCEPT !.form = "partial"] BY <1>1 DEF K!Partial
  <2> QED BY <2>1 DEF K!Copy
<1>4. K!Partial(K!None) = K!None BY DEF K!Partial
<1>5. \A copy \in K!Copy : copy.form \in {"whole", "edited", "partial"} /\ copy.rev \in 1 .. 2
  BY DEF K!Copy
<1> QED BY <1>1, <1>2, <1>3, <1>4, <1>5 DEF Usable

(* What SkillInv says is what the run checks.                               *)
LEMMA SkillWhole ==
  ASSUME SkillInv
  PROVE  K!TypeOK /\ K!CopyKept /\ K!EditsKept /\ K!AllOrNothing
<1> USE DEF SkillInv
<1>1. K!TypeOK BY DEF SkillTyped
<1>2. K!CopyKept
  <2> SUFFICES ASSUME past.copy, \A p \in Installers : job[p].command # "remove"
               PROVE  \E copy \in K!Kept : copy.form \in {"whole", "edited"}
    BY DEF K!CopyKept
  <2>1. Usable(target) \/ \E p \in Installers : Usable(backup[p]) BY DEF Safe
  <2> QED BY <2>1 DEF K!Kept, Usable
<1>3. K!EditsKept
  <2> SUFFICES ASSUME past.edited, \A p \in Installers : ~job[p].force
               PROVE  target.form = "edited"
    BY DEF K!EditsKept
  <2> QED BY DEF Respected
<1>4. K!AllOrNothing BY DEF K!AllOrNothing, Progresses, Progress
<1> QED BY <1>1, <1>2, <1>3, <1>4

(* Before any process has begun.                                            *)
LEMMA SkillInit ==
  ASSUME K!Init
  PROVE  SkillInv
<1>1. /\ job \in [Installers -> [command : {"check", "install", "update", "remove"},
                                 force : BOOLEAN, rev : 1 .. 2]]
      /\ target \in {K!None, K!Whole(1), [rev |-> 1, form |-> "edited"], K!Partial(K!Whole(1))}
      /\ backup = [p \in Installers |-> K!None] /\ stage = [p \in Installers |-> K!None]
      /\ record = [p \in Installers |-> 0] /\ state = [p \in Installers |-> "unknown"]
      /\ pc = [p \in Installers |-> "start"] /\ faults = 0
      /\ past = [copy |-> target.form \in {"whole", "edited"}, edited |-> target.form = "edited"]
  BY DEF K!Init
<1>2. target \in K!Copy \cup {K!None}
  <2>1. [rev |-> 1, form |-> "edited"] \in K!Copy BY DEF K!Copy
  <2>2. 1 \in 1 .. 2 OBVIOUS
  <2> QED BY <1>1, <2>1, <2>2, CopiesAre
<1>3. K!TypeOK BY <1>1, <1>2 DEF K!TypeOK
<1>4. SkillTyped BY <1>1, <1>3 DEF SkillTyped, Places, Unchanged
<1>5. Safe BY <1>1 DEF Safe, Usable
<1>6. Respected BY <1>1 DEF Respected
<1>7. Progresses BY <1>1 DEF Progresses, Progress
<1> QED BY <1>4, <1>5, <1>6, <1>7 DEF SkillInv

(* When one process takes a step, no other one is alone after it.           *)
LEMMA AloneIs ==
  ASSUME SkillTyped, NEW p \in Installers, NEW place, place # "start",
         pc' = [pc EXCEPT ![p] = place], UNCHANGED job,
         Progresses, K!Alone(p) /\ job[p].command \in {"install", "update"} /\ Progress(p)
                       => Progress(p)'
  PROVE  Progresses'
<1> SUFFICES ASSUME NEW q \in Installers, K!Alone(q)', job'[q].command \in {"install", "update"}
             PROVE  Progress(q)'
  BY DEF Progresses
<1>1. pc \in [Installers -> Places] BY DEF SkillTyped
<1>2. q = p
  <2>1. pc'[p] = place BY <1>1
  <2> QED BY <2>1 DEF K!Alone
<1>3. K!Alone(p) BY <1>1, <1>2 DEF K!Alone
<1> QED BY <1>2, <1>3 DEF Progresses

(* Every step of a command, every fault and every edit keeps what SkillInv says. *)
LEMMA SkillStep ==
  ASSUME SkillInv, [K!Next]_(K!vars)
  PROVE  SkillInv'
<1> USE DEF SkillInv
<1>c. /\ target \in K!Copy \cup {K!None} /\ backup \in [Installers -> K!Copy \cup {K!None}]
      /\ stage \in [Installers -> K!Copy \cup {K!None}]
      /\ state \in [Installers -> {"unknown", "absent", "modified", "stale", "current"}]
      /\ job \in [Installers -> [command : {"check", "install", "update", "remove"},
                                 force : BOOLEAN, rev : 1 .. 2]]
      /\ record \in [Installers -> 0 .. 2] /\ pc \in [Installers -> Places]
      /\ past \in [copy : BOOLEAN, edited : BOOLEAN] /\ faults \in Nat
  BY DEF SkillTyped, K!TypeOK
<1>j. \A p \in Installers : /\ job[p].rev \in 1 .. 2 /\ job[p].force \in BOOLEAN
                            /\ job[p].command \in {"check", "install", "update", "remove"}
  BY <1>c
<1>1. ASSUME NEW p \in Installers, K!ReadProvenance(p) PROVE SkillInv'
  <2>1. /\ pc[p] = "start" /\ UNCHANGED <<job, target, backup, stage, faults, past>>
        /\ \/ /\ target = K!None /\ state' = [state EXCEPT ![p] = "absent"]
              /\ pc' = [pc EXCEPT ![p] = "decide"] /\ record' = record
           \/ /\ target # K!None /\ target.form = "partial" /\ record' = record
              /\ state' = [state EXCEPT ![p] = "modified"] /\ pc' = [pc EXCEPT ![p] = "decide"]
           \/ /\ target # K!None /\ target.form # "partial" /\ state' = state
              /\ record' = [record EXCEPT ![p] = target.rev] /\ pc' = [pc EXCEPT ![p] = "digest"]
    <3>1. CASE target = K!None BY <1>1, <3>1, CopiesAre DEF K!ReadProvenance, K!Found, K!Goto
    <3>2. CASE target # K!None /\ target.form = "partial"
      BY <1>1, <3>2 DEF K!ReadProvenance, K!Found, K!Goto
    <3>3. CASE target # K!None /\ target.form # "partial"
      BY <1>1, <3>3 DEF K!ReadProvenance, K!Found, K!Goto
    <3> QED BY <3>1, <3>2, <3>3
  <2>2. target # K!None => target.rev \in 1 .. 2 /\ target.form \in {"whole", "edited", "partial"}
    BY <1>c, CopiesAre
  <2>3. target # K!None => target.rev \in 0 .. 2 BY <2>2
  <2>4. \/ record' = record
        \/ target.rev \in 0 .. 2 /\ record' = [record EXCEPT ![p] = target.rev]
    BY <2>1, <2>3
  <2>5. record' \in [Installers -> 0 .. 2] BY <2>4, <1>c
  <2>6. /\ pc'[p] = "decide" => \/ target = K!None /\ state'[p] = "absent"
                                \/ target # K!None /\ state'[p] = "modified"
        /\ pc'[p] = "digest" => Usable(target) /\ target.rev = record'[p] /\ state'[p] = state[p]
        /\ pc'[p] \in {"decide", "digest"}
    BY <2>1, <2>2, <1>c DEF Usable
  <2>t. SkillTyped'
    <3>1. K!TypeOK'
      <4>1. UNCHANGED <<target, backup, stage>> BY <2>1
      <4>2. state' \in [Installers -> {"unknown", "absent", "modified", "stale", "current"}]
        BY <1>c, <2>1 DEF SkillTyped, K!TypeOK
      <4>3. \A q \in Installers : pc'[q] = "discard" => backup'[q] # K!None
        BY <1>c, <2>1, <2>6 DEF SkillTyped, K!TypeOK
      <4> QED BY <1>c, <4>1, <4>2, <4>3 DEF SkillTyped, K!TypeOK
    <3>2. /\ job' \in [Installers -> [command : {"check", "install", "update", "remove"},
                                    force : BOOLEAN, rev : 1 .. 2]]
          /\ record' \in [Installers -> 0 .. 2] /\ pc' \in [Installers -> Places]
          /\ past' \in [copy : BOOLEAN, edited : BOOLEAN] /\ faults' \in Nat
      BY <1>c, <2>1, <2>5 DEF Places
    <3>3. \A q \in Installers :
            /\ pc'[q] \in Unchanged \cup {"clean"} => backup'[q] = K!None
            /\ pc'[q] \in {"move", "place"} => stage'[q] = K!Whole(job[q].rev)
            /\ pc'[q] \in {"remove", "removing"} => job[q].command = "remove"
      BY <1>c, <1>j, <2>1, <2>5 DEF SkillTyped, Unchanged, K!Ended
    <3>4. UNCHANGED job BY <2>1
    <3> QED BY <3>1, <3>2, <3>3, <3>4 DEF SkillTyped
  <2>s. Safe'
    BY <1>c, <1>j, <2>1 DEF Safe, Discarding
  <2>r. Respected'
    BY <1>c, <1>j, <2>1, <2>2, CopiesAre DEF Respected, K!Ended
  <2>p. K!Alone(p) /\ job[p].command \in {"install", "update"} /\ Progress(p) => Progress(p)'
    BY <1>c, <1>j, <2>1, <2>6 DEF Progress, K!FoundBy, K!Own
  <2>q. Progresses' BY <2>1, <2>p, AloneIs
  <2> QED BY <2>t, <2>s, <2>r, <2>q
<1>2. ASSUME NEW p \in Installers, K!ReadFiles(p) PROVE SkillInv'
  <2>1. /\ pc[p] = "digest" /\ UNCHANGED <<job, target, backup, stage, record, faults, past>>
        /\ pc' = [pc EXCEPT ![p] = "decide"]
        /\ state' = [state EXCEPT ![p] =
             IF target # K!Whole(record[p]) THEN "modified"
             ELSE IF record[p] = job[p].rev THEN "current" ELSE "stale"]
    BY <1>2 DEF K!ReadFiles, K!Found, K!Goto
  <2>2. target = K!Whole(record[p]) => target.rev = record[p] /\ target.form = "whole"
    BY DEF K!Whole
  <2>t. SkillTyped'
    <3>1. K!TypeOK'
      BY <1>c, <1>j, <2>1 DEF SkillTyped, K!TypeOK
    <3>2. /\ job' \in [Installers -> [command : {"check", "install", "update", "remove"},
                                    force : BOOLEAN, rev : 1 .. 2]]
          /\ record' \in [Installers -> 0 .. 2] /\ pc' \in [Installers -> Places]
          /\ past' \in [copy : BOOLEAN, edited : BOOLEAN] /\ faults' \in Nat
      BY <1>c, <2>1 DEF Places, K!Ended
    <3>3. \A q \in Installers :
            /\ pc'[q] \in Unchanged \cup {"clean"} => backup'[q] = K!None
            /\ pc'[q] \in {"move", "place"} => stage'[q] = K!Whole(job[q].rev)
            /\ pc'[q] \in {"remove", "removing"} => job[q].command = "remove"
      BY <1>c, <1>j, <2>1 DEF SkillTyped, Unchanged, K!Ended
    <3>4. UNCHANGED job BY <2>1
    <3> QED BY <3>1, <3>2, <3>3, <3>4 DEF SkillTyped
  <2>s. Safe'
    BY <1>c, <1>j, <2>1 DEF Safe, Discarding
  <2>r. Respected'
    BY <1>c, <1>j, <2>1, <2>2 DEF Respected, K!Ended
  <2>p. K!Alone(p) /\ job[p].command \in {"install", "update"} /\ Progress(p) => Progress(p)'
    BY <1>c, <1>j, <2>1, <2>2, CopiesAre DEF Progress, K!FoundBy, K!Own
  <2>q. Progresses' BY <2>1, <2>p, AloneIs
  <2> QED BY <2>t, <2>s, <2>r, <2>q
<1>3. ASSUME NEW p \in Installers, K!Decide(p) PROVE SkillInv'
  <2>1. /\ pc[p] = "decide"
        /\ UNCHANGED <<job, target, backup, stage, record, state, faults, past>>
        /\ pc' = [pc EXCEPT ![p] = IF K!Unneeded(p) THEN "done"
             ELSE IF K!Refuses(p) THEN "refused"
             ELSE IF job[p].command = "remove" THEN "remove" ELSE "copy"]
    BY <1>3 DEF K!Decide, K!Goto
  <2>2. K!Unneeded(p) <=>
          \/ job[p].command = "check"
          \/ job[p].command = "remove" /\ state[p] = "absent"
          \/ job[p].command \in {"install", "update"} /\ state[p] = "current"
    BY DEF K!Unneeded
  <2>3. K!Refuses(p) <=>
          /\ job[p].force = FALSE
          /\ state[p] = "modified" \/ (job[p].command = "install" /\ state[p] = "stale")
    BY <1>j DEF K!Refuses
  <2>4. \/ pc' = [pc EXCEPT ![p] = "done"] /\ K!Unneeded(p)
        \/ pc' = [pc EXCEPT ![p] = "refused"] /\ K!Refuses(p)
        \/ pc' = [pc EXCEPT ![p] = "remove"] /\ ~K!Refuses(p) /\ job[p].command = "remove"
        \/ pc' = [pc EXCEPT ![p] = "copy"] /\ ~K!Refuses(p) /\ job[p].command # "remove"
    <3>1. CASE K!Unneeded(p) BY <2>1, <3>1
    <3>2. CASE ~K!Unneeded(p) /\ K!Refuses(p) BY <2>1, <3>2
    <3>3. CASE ~K!Unneeded(p) /\ ~K!Refuses(p) /\ job[p].command = "remove" BY <2>1, <3>3
    <3>4. CASE ~K!Unneeded(p) /\ ~K!Refuses(p) /\ job[p].command # "remove" BY <2>1, <3>4
    <3> QED BY <3>1, <3>2, <3>3, <3>4
  <2>5. backup[p] = K!None BY <2>1 DEF SkillTyped, Unchanged
  <2>6. /\ pc'[p] = "done" /\ job[p].command \in {"install", "update"} => state[p] = "current"
        /\ pc'[p] \in {"done", "copy", "refused", "remove"}
        /\ pc'[p] = "remove" => job[p].command = "remove"
    BY <2>2, <2>4, <1>c, <1>j, CopiesAre DEF K!Own
  <2>t. SkillTyped'
    <3>1. K!TypeOK'
      BY <1>c, <1>j, <2>1, <2>4 DEF SkillTyped, K!TypeOK
    <3>2. /\ job' \in [Installers -> [command : {"check", "install", "update", "remove"},
                                    force : BOOLEAN, rev : 1 .. 2]]
          /\ record' \in [Installers -> 0 .. 2] /\ pc' \in [Installers -> Places]
          /\ past' \in [copy : BOOLEAN, edited : BOOLEAN] /\ faults' \in Nat
      BY <1>c, <2>1, <2>4 DEF Places, K!Ended
    <3>3. \A q \in Installers :
            /\ pc'[q] \in Unchanged \cup {"clean"} => backup'[q] = K!None
            /\ pc'[q] \in {"move", "place"} => stage'[q] = K!Whole(job[q].rev)
            /\ pc'[q] \in {"remove", "removing"} => job[q].command = "remove"
      BY <1>c, <1>j, <2>1, <2>4 DEF SkillTyped, Unchanged, K!Ended
    <3>4. UNCHANGED job BY <2>1
    <3> QED BY <3>1, <3>2, <3>3, <3>4 DEF SkillTyped
  <2>s. Safe'
    BY <1>c, <1>j, <2>1, <2>4 DEF Safe, Discarding
  <2>r. Respected'
    BY <1>c, <1>j, <2>1, <2>2, <2>3, <2>4 DEF Respected, K!Ended
  <2>p. K!Alone(p) /\ job[p].command \in {"install", "update"} /\ Progress(p) => Progress(p)'
    BY <1>c, <1>j, <2>1, <2>5, <2>6 DEF Progress, K!FoundBy, K!Own
  <2>q. Progresses' BY <2>1, <2>p, AloneIs
  <2> QED BY <2>t, <2>s, <2>r, <2>q
<1>4. ASSUME NEW p \in Installers, K!Remove(p) PROVE SkillInv'
  <2>1. /\ pc[p] \in {"remove", "removing"}
        /\ UNCHANGED <<job, backup, stage, record, state, faults, past>>
        /\ \/ pc' = [pc EXCEPT ![p] = "removing"] /\ target' = K!Partial(target)
           \/ pc' = [pc EXCEPT ![p] = "done"] /\ target' = K!None
           \/ pc' = [pc EXCEPT ![p] = "failed"] /\ target' = target
    BY <1>4 DEF K!Remove, K!Goto
  <2>2. job[p].command = "remove" BY <2>1 DEF SkillTyped
  <2>t. SkillTyped'
    <3>1. K!TypeOK'
      BY <1>c, <1>j, <2>1, <2>2, CopiesAre DEF SkillTyped, K!TypeOK
    <3>2. /\ job' \in [Installers -> [command : {"check", "install", "update", "remove"},
                                    force : BOOLEAN, rev : 1 .. 2]]
          /\ record' \in [Installers -> 0 .. 2] /\ pc' \in [Installers -> Places]
          /\ past' \in [copy : BOOLEAN, edited : BOOLEAN] /\ faults' \in Nat
      BY <1>c, <2>1, <2>2, CopiesAre DEF Places, K!Ended
    <3>3. \A q \in Installers :
            /\ pc'[q] \in Unchanged \cup {"clean"} => backup'[q] = K!None
            /\ pc'[q] \in {"move", "place"} => stage'[q] = K!Whole(job[q].rev)
            /\ pc'[q] \in {"remove", "removing"} => job[q].command = "remove"
      BY <1>c, <1>j, <2>1, <2>2, CopiesAre DEF SkillTyped, Unchanged, K!Ended
    <3>4. UNCHANGED job BY <2>1
    <3> QED BY <3>1, <3>2, <3>3, <3>4 DEF SkillTyped
  <2>s. Safe'
    BY <1>c, <1>j, <2>1, <2>2 DEF Safe, Discarding
  <2>r. Respected'
    BY <1>c, <1>j, <2>1 DEF Respected, K!Ended
  <2>p. K!Alone(p) /\ job[p].command \in {"install", "update"} /\ Progress(p) => Progress(p)'
    BY <1>c, <1>j, <2>1, <2>2 DEF Progress, K!FoundBy, K!Own
  <2>q. Progresses' BY <2>1, <2>p, AloneIs
  <2> QED BY <2>t, <2>s, <2>r, <2>q
<1>5. ASSUME NEW p \in Installers, K!CopyToStage(p) PROVE SkillInv'
  <2>1. /\ pc[p] = "copy" /\ UNCHANGED <<job, target, backup, record, state, faults, past>>
        /\ stage' = [stage EXCEPT ![p] = K!Whole(job[p].rev)] /\ pc' = [pc EXCEPT ![p] = "move"]
    BY <1>5 DEF K!CopyToStage, K!Goto
  <2>t. SkillTyped'
    <3>1. K!TypeOK'
      BY <1>c, <1>j, <2>1, CopiesAre DEF SkillTyped, K!TypeOK
    <3>2. /\ job' \in [Installers -> [command : {"check", "install", "update", "remove"},
                                    force : BOOLEAN, rev : 1 .. 2]]
          /\ record' \in [Installers -> 0 .. 2] /\ pc' \in [Installers -> Places]
          /\ past' \in [copy : BOOLEAN, edited : BOOLEAN] /\ faults' \in Nat
      BY <1>c, <2>1, CopiesAre DEF Places, K!Ended
    <3>3. \A q \in Installers :
            /\ pc'[q] \in Unchanged \cup {"clean"} => backup'[q] = K!None
            /\ pc'[q] \in {"move", "place"} => stage'[q] = K!Whole(job[q].rev)
            /\ pc'[q] \in {"remove", "removing"} => job[q].command = "remove"
      BY <1>c, <1>j, <2>1, CopiesAre DEF SkillTyped, Unchanged, K!Ended
    <3>4. UNCHANGED job BY <2>1
    <3> QED BY <3>1, <3>2, <3>3, <3>4 DEF SkillTyped
  <2>s. Safe'
    BY <1>c, <1>j, <2>1 DEF Safe, Discarding
  <2>r. Respected'
    BY <1>c, <1>j, <2>1 DEF Respected, K!Ended
  <2>p. K!Alone(p) /\ job[p].command \in {"install", "update"} /\ Progress(p) => Progress(p)'
    BY <1>c, <1>j, <2>1 DEF Progress, K!FoundBy, K!Own
  <2>q. Progresses' BY <2>1, <2>p, AloneIs
  <2> QED BY <2>t, <2>s, <2>r, <2>q
<1>6. ASSUME NEW p \in Installers, K!MoveAway(p) PROVE SkillInv'
  <2>1. /\ pc[p] = "move" /\ UNCHANGED <<job, stage, record, state, faults, past>>
        /\ backup' = [backup EXCEPT ![p] = target] /\ target' = K!None
        /\ pc' = [pc EXCEPT ![p] = "place"]
    BY <1>6 DEF K!MoveAway, K!Goto
  <2>2. backup[p] = K!None BY <2>1 DEF SkillTyped, Unchanged
  <2>t. SkillTyped'
    <3>1. K!TypeOK'
      BY <1>c, <1>j, <2>1 DEF SkillTyped, K!TypeOK
    <3>2. /\ job' \in [Installers -> [command : {"check", "install", "update", "remove"},
                                    force : BOOLEAN, rev : 1 .. 2]]
          /\ record' \in [Installers -> 0 .. 2] /\ pc' \in [Installers -> Places]
          /\ past' \in [copy : BOOLEAN, edited : BOOLEAN] /\ faults' \in Nat
      BY <1>c, <2>1 DEF Places, K!Ended
    <3>3. \A q \in Installers :
            /\ pc'[q] \in Unchanged \cup {"clean"} => backup'[q] = K!None
            /\ pc'[q] \in {"move", "place"} => stage'[q] = K!Whole(job[q].rev)
            /\ pc'[q] \in {"remove", "removing"} => job[q].command = "remove"
      BY <1>c, <1>j, <2>1 DEF SkillTyped, Unchanged, K!Ended
    <3>4. UNCHANGED job BY <2>1
    <3> QED BY <3>1, <3>2, <3>3, <3>4 DEF SkillTyped
  <2>s. Safe'
    BY <1>c, <1>j, <2>1, <2>2, CopiesAre DEF Safe, Discarding
  <2>r. Respected'
    BY <1>c, <1>j, <2>1 DEF Respected, K!Ended
  <2>p. K!Alone(p) /\ job[p].command \in {"install", "update"} /\ Progress(p) => Progress(p)'
    BY <1>c, <1>j, <2>1 DEF Progress, K!FoundBy, K!Own
  <2>q. Progresses' BY <2>1, <2>p, AloneIs
  <2> QED BY <2>t, <2>s, <2>r, <2>q
<1>7. ASSUME NEW p \in Installers, K!Place(p) PROVE SkillInv'
  <2>1. /\ pc[p] = "place" /\ UNCHANGED <<job, backup, record, state, faults>>
        /\ \/ /\ target = K!None /\ target' = stage[p] /\ stage' = [stage EXCEPT ![p] = K!None]
              /\ past' = [past EXCEPT !.copy = TRUE]
              /\ pc' = [pc EXCEPT ![p] = IF backup[p] = K!None THEN "clean" ELSE "discard"]
           \/ /\ target # K!None /\ UNCHANGED <<target, stage, past>>
              /\ pc' = [pc EXCEPT ![p] = "restore"]
    BY <1>7 DEF K!Place, K!Goto
  <2>2. /\ stage[p] = K!Whole(job[p].rev) /\ stage[p] \in K!Copy /\ Usable(stage[p])
        /\ stage[p].rev = job[p].rev /\ stage[p].form \in {"whole", "edited"}
    BY <2>1, <1>j, CopiesAre DEF SkillTyped
  <2>3. past' \in [copy : BOOLEAN, edited : BOOLEAN] /\ past'.edited = past.edited
    BY <2>1, <1>c
  <2>t. SkillTyped'
    <3>1. K!TypeOK'
      BY <1>c, <1>j, <2>1, <2>2, <2>3 DEF SkillTyped, K!TypeOK
    <3>2. /\ job' \in [Installers -> [command : {"check", "install", "update", "remove"},
                                    force : BOOLEAN, rev : 1 .. 2]]
          /\ record' \in [Installers -> 0 .. 2] /\ pc' \in [Installers -> Places]
          /\ past' \in [copy : BOOLEAN, edited : BOOLEAN] /\ faults' \in Nat
      BY <1>c, <2>1, <2>2, <2>3 DEF Places, K!Ended
    <3>3. \A q \in Installers :
            /\ pc'[q] \in Unchanged \cup {"clean"} => backup'[q] = K!None
            /\ pc'[q] \in {"move", "place"} => stage'[q] = K!Whole(job[q].rev)
            /\ pc'[q] \in {"remove", "removing"} => job[q].command = "remove"
      BY <1>c, <1>j, <2>1, <2>2, <2>3 DEF SkillTyped, Unchanged, K!Ended
    <3>4. UNCHANGED job BY <2>1
    <3> QED BY <3>1, <3>2, <3>3, <3>4 DEF SkillTyped
  <2>s. Safe'
    BY <1>c, <1>j, <2>1, <2>2 DEF Safe, Discarding
  <2>r. Respected'
    <3>1. target.form = "edited" => target # K!None BY CopiesAre
    <3>2. pc'[p] \in {"clean", "discard", "restore"} /\ \A q \in Installers : q # p => pc'[q] = pc[q]
      BY <2>1, <1>c
    <3>3. CASE target.form = "edited"
      <4>1. UNCHANGED target BY <2>1, <3>1, <3>3
      <4> QED BY <4>1, <3>2, <2>1, <2>3 DEF Respected
    <3>4. CASE target.form # "edited" BY <3>4, <2>1, <2>3 DEF Respected
    <3> QED BY <3>3, <3>4
  <2>p. K!Alone(p) /\ job[p].command \in {"install", "update"} /\ Progress(p) => Progress(p)'
    BY <1>c, <1>j, <2>1, <2>2, CopiesAre DEF Progress, K!FoundBy, K!Own
  <2>q. Progresses' BY <2>1, <2>p, AloneIs
  <2> QED BY <2>t, <2>s, <2>r, <2>q
<1>8. ASSUME NEW p \in Installers, K!Discard(p) PROVE SkillInv'
  <2>1. /\ UNCHANGED <<job, target, stage, record, state, faults, past>>
        /\ \/ /\ pc[p] = "discard" /\ backup' = [backup EXCEPT ![p] = K!Partial(backup[p])]
              /\ pc' = [pc EXCEPT ![p] = "discarding"]
           \/ /\ pc[p] = "discarding" /\ backup' = [backup EXCEPT ![p] = K!None]
              /\ pc' = [pc EXCEPT ![p] = "clean"]
    BY <1>8 DEF K!Discard, K!Goto
  <2>t. SkillTyped'
    <3>1. K!TypeOK'
      <4>1. backup[p] \in K!Copy \cup {K!None} /\ (pc[p] = "discard" => backup[p] # K!None)
        BY <1>c DEF SkillTyped, K!TypeOK
      <4>2. /\ K!Partial(backup[p]) \in K!Copy \cup {K!None}
            /\ K!Partial(backup[p]) = K!None <=> backup[p] = K!None
        BY <4>1, CopiesAre
      <4>3. backup' \in [Installers -> K!Copy \cup {K!None}]
        BY <1>c, <2>1, <4>2 DEF SkillTyped, K!TypeOK
      <4>4. \A q \in Installers : pc'[q] = "discard" => backup'[q] # K!None
        BY <1>c, <2>1 DEF SkillTyped, K!TypeOK
      <4> QED
        BY <1>c, <2>1, <4>3, <4>4 DEF SkillTyped, K!TypeOK
    <3>2. /\ job' \in [Installers -> [command : {"check", "install", "update", "remove"},
                                    force : BOOLEAN, rev : 1 .. 2]]
          /\ record' \in [Installers -> 0 .. 2] /\ pc' \in [Installers -> Places]
          /\ past' \in [copy : BOOLEAN, edited : BOOLEAN] /\ faults' \in Nat
      BY <1>c, <2>1, CopiesAre DEF Places, K!Ended
    <3>3. \A q \in Installers :
            /\ pc'[q] \in Unchanged \cup {"clean"} => backup'[q] = K!None
            /\ pc'[q] \in {"move", "place"} => stage'[q] = K!Whole(job[q].rev)
            /\ pc'[q] \in {"remove", "removing"} => job[q].command = "remove"
      BY <1>c, <1>j, <2>1, CopiesAre DEF SkillTyped, Unchanged, K!Ended
    <3>4. UNCHANGED job BY <2>1
    <3> QED BY <3>1, <3>2, <3>3, <3>4 DEF SkillTyped
  <2>s. Safe'
    BY <1>c, <1>j, <2>1 DEF Safe, Discarding
  <2>r. Respected'
    BY <1>c, <1>j, <2>1 DEF Respected, K!Ended
  <2>p. K!Alone(p) /\ job[p].command \in {"install", "update"} /\ Progress(p) => Progress(p)'
    BY <1>c, <1>j, <2>1 DEF Progress, K!FoundBy, K!Own
  <2>q. Progresses' BY <2>1, <2>p, AloneIs
  <2> QED BY <2>t, <2>s, <2>r, <2>q
<1>9. ASSUME NEW p \in Installers, K!Restore(p) PROVE SkillInv'
  <2>1. /\ pc[p] = "restore" /\ UNCHANGED <<job, stage, record, state, faults, past>>
        /\ pc' = [pc EXCEPT ![p] = "giveUp"]
        /\ \/ /\ backup[p] # K!None /\ target = K!None /\ target' = backup[p]
              /\ backup' = [backup EXCEPT ![p] = K!None]
           \/ UNCHANGED <<target, backup>>
    BY <1>9 DEF K!Restore, K!Goto
  <2>t. SkillTyped'
    <3>1. K!TypeOK'
      BY <1>c, <1>j, <2>1 DEF SkillTyped, K!TypeOK
    <3>2. /\ job' \in [Installers -> [command : {"check", "install", "update", "remove"},
                                    force : BOOLEAN, rev : 1 .. 2]]
          /\ record' \in [Installers -> 0 .. 2] /\ pc' \in [Installers -> Places]
          /\ past' \in [copy : BOOLEAN, edited : BOOLEAN] /\ faults' \in Nat
      BY <1>c, <2>1 DEF Places, K!Ended
    <3>3. \A q \in Installers :
            /\ pc'[q] \in Unchanged \cup {"clean"} => backup'[q] = K!None
            /\ pc'[q] \in {"move", "place"} => stage'[q] = K!Whole(job[q].rev)
            /\ pc'[q] \in {"remove", "removing"} => job[q].command = "remove"
      BY <1>c, <1>j, <2>1 DEF SkillTyped, Unchanged, K!Ended
    <3>4. UNCHANGED job BY <2>1
    <3> QED BY <3>1, <3>2, <3>3, <3>4 DEF SkillTyped
  <2>s. Safe'
    BY <1>c, <1>j, <2>1, CopiesAre DEF Safe, Discarding
  <2>r. Respected'
    BY <1>c, <1>j, <2>1, CopiesAre DEF Respected, K!Ended
  <2>p. K!Alone(p) /\ job[p].command \in {"install", "update"} /\ Progress(p) => Progress(p)'
    BY <1>c, <1>j, <2>1, CopiesAre DEF Progress, K!FoundBy, K!Own
  <2>q. Progresses' BY <2>1, <2>p, AloneIs
  <2> QED BY <2>t, <2>s, <2>r, <2>q
<1>10. ASSUME NEW p \in Installers, K!CleanUp(p) PROVE SkillInv'
  <2>1. /\ UNCHANGED <<job, target, backup, record, state, faults, past>>
        /\ stage' = [stage EXCEPT ![p] = K!None]
        /\ \/ pc[p] = "clean" /\ pc' = [pc EXCEPT ![p] = "done"]
           \/ pc[p] = "giveUp" /\ pc' = [pc EXCEPT ![p] = "failed"]
    BY <1>10 DEF K!CleanUp, K!Goto
  <2>2. pc[p] = "clean" => backup[p] = K!None BY DEF SkillTyped
  <2>t. SkillTyped'
    <3>1. K!TypeOK'
      BY <1>c, <1>j, <2>1 DEF SkillTyped, K!TypeOK
    <3>2. /\ job' \in [Installers -> [command : {"check", "install", "update", "remove"},
                                    force : BOOLEAN, rev : 1 .. 2]]
          /\ record' \in [Installers -> 0 .. 2] /\ pc' \in [Installers -> Places]
          /\ past' \in [copy : BOOLEAN, edited : BOOLEAN] /\ faults' \in Nat
      BY <1>c, <2>1 DEF Places, K!Ended
    <3>3. \A q \in Installers :
            /\ pc'[q] \in Unchanged \cup {"clean"} => backup'[q] = K!None
            /\ pc'[q] \in {"move", "place"} => stage'[q] = K!Whole(job[q].rev)
            /\ pc'[q] \in {"remove", "removing"} => job[q].command = "remove"
      BY <1>c, <1>j, <2>1 DEF SkillTyped, Unchanged, K!Ended
    <3>4. UNCHANGED job BY <2>1
    <3> QED BY <3>1, <3>2, <3>3, <3>4 DEF SkillTyped
  <2>s. Safe'
    BY <1>c, <1>j, <2>1 DEF Safe, Discarding
  <2>r. Respected'
    BY <1>c, <1>j, <2>1 DEF Respected, K!Ended
  <2>p. K!Alone(p) /\ job[p].command \in {"install", "update"} /\ Progress(p) => Progress(p)'
    BY <1>c, <1>j, <2>1, <2>2 DEF Progress, K!FoundBy, K!Own
  <2>q. Progresses' BY <2>1, <2>p, AloneIs
  <2> QED BY <2>t, <2>s, <2>r, <2>q
<1>11. ASSUME NEW p \in Installers, K!StepFails(p) PROVE SkillInv'
  <2>1. /\ pc[p] \notin K!Ended \cup {"digest", "decide"} /\ faults' = faults + 1
        /\ UNCHANGED <<job, target, backup, record, state, past>>
        /\ \/ pc[p] = "copy" /\ stage' = [stage EXCEPT ![p] = K!Partial(K!Whole(job[p].rev))]
           \/ pc[p] # "copy" /\ stage' = [stage EXCEPT ![p] = stage[p]]
        /\ \/ pc[p] \in {"copy", "move", "restore"} /\ pc' = [pc EXCEPT ![p] = "giveUp"]
           \/ /\ pc[p] \in {"place", "discard", "discarding"}
              /\ pc' = [pc EXCEPT ![p] = "restore"]
           \/ /\ pc[p] \notin {"copy", "move", "restore", "place", "discard", "discarding"}
              /\ pc' = [pc EXCEPT ![p] = "failed"]
    BY <1>11 DEF K!StepFails, K!Goto, K!AfterFault
  <2>2. K!Partial(K!Whole(job[p].rev)) \in K!Copy \cup {K!None}
    BY <1>j, CopiesAre
  <2>3. faults' \in Nat BY <2>1, <1>c
  <2>t. SkillTyped'
    <3>1. K!TypeOK'
      BY <1>c, <1>j, <2>1, <2>2, <2>3 DEF SkillTyped, K!TypeOK
    <3>2. /\ job' \in [Installers -> [command : {"check", "install", "update", "remove"},
                                    force : BOOLEAN, rev : 1 .. 2]]
          /\ record' \in [Installers -> 0 .. 2] /\ pc' \in [Installers -> Places]
          /\ past' \in [copy : BOOLEAN, edited : BOOLEAN] /\ faults' \in Nat
      BY <1>c, <2>1, <2>2, <2>3 DEF Places, K!Ended
    <3>3. \A q \in Installers :
            /\ pc'[q] \in Unchanged \cup {"clean"} => backup'[q] = K!None
            /\ pc'[q] \in {"move", "place"} => stage'[q] = K!Whole(job[q].rev)
            /\ pc'[q] \in {"remove", "removing"} => job[q].command = "remove"
      BY <1>c, <1>j, <2>1, <2>2, <2>3 DEF SkillTyped, Unchanged, K!Ended
    <3>4. UNCHANGED job BY <2>1
    <3> QED BY <3>1, <3>2, <3>3, <3>4 DEF SkillTyped
  <2>s. Safe'
    BY <1>c, <1>j, <2>1 DEF Safe, Discarding
  <2>r. Respected'
    BY <1>c, <1>j, <2>1 DEF Respected, K!Ended
  <2>p. K!Alone(p) /\ job[p].command \in {"install", "update"} /\ Progress(p) => Progress(p)'
    <3>1. pc[p] \in {"remove", "removing"} => job[p].command = "remove" BY DEF SkillTyped
    <3>2. /\ pc[p] \in {"start", "remove", "removing", "copy", "move", "place", "discard",
                       "discarding", "restore", "clean", "giveUp"}
          /\ pc'[p] \in {"giveUp", "failed", "restore"}
          /\ pc[p] \in {"place", "discard", "discarding"} <=> pc'[p] = "restore"
      BY <1>c, <2>1 DEF Places, K!Ended
    <3>3. K!FoundBy(p, target)' <=> K!FoundBy(p, target) BY <2>1 DEF K!FoundBy
    <3>4. K!FoundBy(p, backup[p])' <=> K!FoundBy(p, backup[p]) BY <2>1 DEF K!FoundBy
    <3>5. K!Own(p)' <=> K!Own(p) BY <2>1 DEF K!Own
    <3>6. pc[p] = "start" /\ Progress(p) => K!FoundBy(p, target) BY DEF Progress, K!FoundBy
    <3> QED BY <2>1, <3>1, <3>2, <3>3, <3>4, <3>5, <3>6 DEF Progress
  <2>q. Progresses' BY <2>1, <2>p, AloneIs
  <2> QED BY <2>t, <2>s, <2>r, <2>q
<1>12. ASSUME NEW p \in Installers, K!DigestFails(p) PROVE SkillInv'
  <2>1. /\ pc[p] = "digest" /\ faults' = faults + 1
        /\ UNCHANGED <<job, target, backup, stage, record, past>>
        /\ state' = [state EXCEPT ![p] = "modified"] /\ pc' = [pc EXCEPT ![p] = "decide"]
    BY <1>12 DEF K!DigestFails, K!Found, K!Goto
  <2>2. faults' \in Nat BY <2>1, <1>c
  <2>3. state'[p] = "modified" /\ pc'[p] = "decide" BY <2>1, <1>c
  <2>4. Usable(target) => target # K!None BY CopiesAre
  <2>t. SkillTyped'
    <3>1. K!TypeOK'
      BY <1>c, <1>j, <2>1, <2>2 DEF SkillTyped, K!TypeOK
    <3>2. /\ job' \in [Installers -> [command : {"check", "install", "update", "remove"},
                                    force : BOOLEAN, rev : 1 .. 2]]
          /\ record' \in [Installers -> 0 .. 2] /\ pc' \in [Installers -> Places]
          /\ past' \in [copy : BOOLEAN, edited : BOOLEAN] /\ faults' \in Nat
      BY <1>c, <2>1, <2>2 DEF Places, K!Ended
    <3>3. \A q \in Installers :
            /\ pc'[q] \in Unchanged \cup {"clean"} => backup'[q] = K!None
            /\ pc'[q] \in {"move", "place"} => stage'[q] = K!Whole(job[q].rev)
            /\ pc'[q] \in {"remove", "removing"} => job[q].command = "remove"
      BY <1>c, <1>j, <2>1, <2>2 DEF SkillTyped, Unchanged, K!Ended
    <3>4. UNCHANGED job BY <2>1
    <3> QED BY <3>1, <3>2, <3>3, <3>4 DEF SkillTyped
  <2>s. Safe'
    BY <1>c, <1>j, <2>1 DEF Safe, Discarding
  <2>r. Respected'
    BY <1>c, <1>j, <2>1 DEF Respected, K!Ended
  <2>p. K!Alone(p) /\ job[p].command \in {"install", "update"} /\ Progress(p) => Progress(p)'
    BY <1>c, <1>j, <2>1, <2>3, <2>4 DEF Progress, K!FoundBy, K!Own
  <2>q. Progresses' BY <2>1, <2>p, AloneIs
  <2> QED BY <2>t, <2>s, <2>r, <2>q
<1>13. ASSUME NEW p \in Installers, K!Killed(p) PROVE SkillInv'
  <2>1. /\ pc[p] \notin K!Ended /\ faults' = faults + 1 /\ pc' = [pc EXCEPT ![p] = "killed"]
        /\ UNCHANGED <<job, target, backup, stage, record, state, past>>
    BY <1>13 DEF K!Killed, K!Goto
  <2>2. faults' \in Nat BY <2>1, <1>c
  <2>t. SkillTyped'
    <3>1. K!TypeOK'
      BY <1>c, <1>j, <2>1, <2>2 DEF SkillTyped, K!TypeOK
    <3>2. /\ job' \in [Installers -> [command : {"check", "install", "update", "remove"},
                                    force : BOOLEAN, rev : 1 .. 2]]
          /\ record' \in [Installers -> 0 .. 2] /\ pc' \in [Installers -> Places]
          /\ past' \in [copy : BOOLEAN, edited : BOOLEAN] /\ faults' \in Nat
      BY <1>c, <2>1, <2>2 DEF Places, K!Ended
    <3>3. \A q \in Installers :
            /\ pc'[q] \in Unchanged \cup {"clean"} => backup'[q] = K!None
            /\ pc'[q] \in {"move", "place"} => stage'[q] = K!Whole(job[q].rev)
            /\ pc'[q] \in {"remove", "removing"} => job[q].command = "remove"
      BY <1>c, <1>j, <2>1, <2>2 DEF SkillTyped, Unchanged, K!Ended
    <3>4. UNCHANGED job BY <2>1
    <3> QED BY <3>1, <3>2, <3>3, <3>4 DEF SkillTyped
  <2>s. Safe'
    BY <1>c, <1>j, <2>1 DEF Safe, Discarding
  <2>r. Respected'
    BY <1>c, <1>j, <2>1 DEF Respected, K!Ended
  <2>p. K!Alone(p) /\ job[p].command \in {"install", "update"} /\ Progress(p) => Progress(p)'
    BY <1>c, <1>j, <2>1 DEF Progress, K!FoundBy, K!Own
  <2>q. Progresses' BY <2>1, <2>p, AloneIs
  <2> QED BY <2>t, <2>s, <2>r, <2>q
<1>14. ASSUME K!Edit PROVE SkillInv'
  <2>1. /\ target.form = "whole" /\ target' = [target EXCEPT !.form = "edited"]
        /\ past' = [past EXCEPT !.edited = \A p \in Installers : ~K!BetweenLookAndAct(p)]
        /\ UNCHANGED <<job, backup, stage, record, state, pc, faults>>
    BY <1>14 DEF K!Edit
  <2>2. target \in K!Copy BY <2>1, <1>c, CopiesAre
  <2>3. target' \in K!Copy /\ target'.form = "edited" /\ target'.rev = target.rev
    BY <2>1, <2>2 DEF K!Copy
  <2>4. past' \in [copy : BOOLEAN, edited : BOOLEAN] /\ past'.copy = past.copy BY <2>1, <1>c
  <2>5. target # K!None /\ target' # K!None BY <2>2, <2>3, CopiesAre
  <2>t. SkillTyped' BY <2>1, <2>3, <2>4, <1>c DEF SkillTyped, K!TypeOK
  <2>s. Safe' BY <2>3 DEF Safe, Usable
  <2>6. past'.edited = (\A p \in Installers : ~K!BetweenLookAndAct(p)) BY <2>1, <1>c
  <2>r. Respected' BY <2>1, <2>3, <2>6 DEF Respected, K!BetweenLookAndAct
  <2>p. ASSUME NEW p \in Installers, K!Alone(p)', job'[p].command \in {"install", "update"}
        PROVE  Progress(p)'
    <3>1. Progress(p) BY <2>1, <2>p DEF Progresses, K!Alone
    <3>2. pc[p] # "place" BY <3>1, <2>5 DEF Progress
    <3>3. K!Own(p)' <=> K!Own(p) BY <2>1, <2>3 DEF K!Own
    <3>4. K!FoundBy(p, target)' <=> K!FoundBy(p, target)
      BY <2>1, <2>3, <2>5 DEF K!FoundBy
    <3>5. Usable(target)' /\ target'.rev = target.rev BY <2>3 DEF Usable
    <3>6. K!FoundBy(p, backup[p])' <=> K!FoundBy(p, backup[p]) BY <2>1 DEF K!FoundBy
    <3> QED BY <3>1, <3>2, <3>3, <3>4, <3>5, <3>6, <2>1, <2>5 DEF Progress
  <2>q. Progresses' BY <2>p DEF Progresses
  <2> QED BY <2>t, <2>s, <2>r, <2>q
<1>15. ASSUME UNCHANGED K!vars PROVE SkillInv'
  <2>1. UNCHANGED <<job, target, backup, stage, record, state, pc, faults, past>>
    BY <1>15 DEF K!vars
  <2>2. SkillTyped' BY <2>1 DEF SkillTyped, K!TypeOK
  <2>3. Safe' BY <2>1 DEF Safe, Discarding
  <2>4. Respected' BY <2>1 DEF Respected
  <2>5. Progresses' BY <2>1 DEF Progresses, Progress, K!Alone, K!FoundBy, K!Own
  <2> QED BY <2>2, <2>3, <2>4, <2>5
<1> QED
  BY <1>1, <1>2, <1>3, <1>4, <1>5, <1>6, <1>7, <1>8, <1>9, <1>10, <1>11, <1>12, <1>13, <1>14, <1>15
  DEF K!Next, K!Command

-----------------------------------------------------------------------------
(* SemanticMigration.                                                       *)

In(i) == M!Above[i]

OnPath == {path[k] : k \in 1 .. Len(path)}

(* What is in something that the walk passed by.                            *)
Missed(i) == \E a \in In(i) : a \in refused \/ (a \in rewritten /\ M!Kind(a) = "cold")

(* A run is the innermost one of the walk.                                  *)
Innermost(r) ==
  r \in OnPath /\ M!Kind(r) = "run" /\ \A o \in OnPath : M!Kind(o) = "run" => o <= r

(* A run in run r has been left.                                            *)
RunWithin(r) == \E o \in 1 .. (at - 1) \ OnPath : M!Kind(o) = "run" /\ r \in In(o)

FileTyped ==
  /\ file.what \in Seq(M!Contents) /\ file.used \subseteq Locals
  /\ \A i \in M!Nodes :
       /\ file.parents[i] \in 0 .. (i - 1)
       /\ \A j \in (file.parents[i] + 1) .. (i - 1) : file.parents[j] >= file.parents[i]
       /\ file.parents[i] # 0 => M!Kind(file.parents[i]) \notin {"flush", "scheduler", "mixed", "import"}

WalkTyped ==
  /\ at \in 1 .. (Len(file.what) + 1) /\ path \in Seq(Nat) /\ inside \in BOOLEAN
  /\ status \in {"screening", "file refused", "walking", "refused", "changed", "unchanged"}
  /\ rewritten \cup refused \subseteq 1 .. (at - 1)
  /\ status \in {"screening", "file refused"} =>
       rewritten = {} /\ imports = {} /\ converted = {} /\ removed = {}
  /\ status \in {"refused", "changed", "unchanged"} => path = <<>> /\ at \notin M!Nodes

(* The path is what the last node of it is in, and nothing that the walk    *)
(* has left holds the next node.                                            *)
PathInOrder ==
  /\ \A k \in 1 .. Len(path) : path[k] < at /\ path[k] \in M!Nodes
  /\ \A k \in 1 .. Len(path) : In(path[k]) = {path[m] : m \in 1 .. (k - 1)}
  /\ at \in M!Nodes => In(at) \subseteq OnPath

(* A pipeline that is refused is passed by, and so is what it has.          *)
Passed ==
  /\ \A i \in refused : /\ i \notin rewritten /\ i \notin OnPath
                        /\ \A j \in rewritten : i \notin In(j)
                        /\ {o.name : o \in M!Entries(i)} \subseteq preserved
  /\ \A i \in OnPath : i \in rewritten => M!Kind(i) # "cold"

(* What the walk has met is rewritten or refused, unless it was passed by.  *)
MetAt(i) ==
  /\ M!Kind(i) = "pipe" => i \in rewritten \cup refused
  /\ M!Kind(i) \in {"run", "scheduler"} => i \in rewritten
  /\ M!Kind(i) \in {"flush"} \cup (IF file.mode = "platform" THEN {"cold"} ELSE {}) =>
       (M!InRun(i) /\ ~M!AfterARun(i) => i \in rewritten)

Met == \A i \in 1 .. (at - 1) : ~Missed(i) => MetAt(i)

(* A pipeline that is rewritten is safe, and has what it needs.             *)
Rewritings ==
  /\ \A i \in rewritten : M!Kind(i) = "pipe" => {Symbol[l] : l \in M!Named(i)} \subseteq imports
  /\ converted \subseteq Locals \ M!Unsafe
  /\ status \in {"refused", "changed", "unchanged"} => M!Needed \subseteq imports
  /\ status \in {"changed", "unchanged"} => refused = {}

(* What goes was converted, of a pipeline that is rewritten: in the end     *)
(* only what no pipeline keeps, but for the imports that stand after one.   *)
Removals ==
  /\ \A l \in converted : \E j \in rewritten : M!Kind(j) = "pipe" /\ l \in M!Named(j)
  /\ status = "walking" => removed \subseteq converted \cap M!ImportedLate
  /\ status \in {"refused", "changed", "unchanged"} =>
       /\ M!Unneeded \subseteq removed
       /\ removed \subseteq M!Unneeded \cup (converted \cap M!ImportedLate)

(* What awaits is async, or will be when the walk leaves it.                *)
AsyncOrOpen ==
  \A i \in rewritten : M!Kind(i) \in {"run", "flush"} =>
    M!FunctionOf(i) \subseteq async \cup OnPath

(* The walk knows that it is in a run, until it leaves one within it.       *)
InsideKnown == \A r \in OnPath : Innermost(r) => inside = TRUE \/ RunWithin(r)

SemanticInv ==
  /\ FileTyped /\ WalkTyped /\ PathInOrder /\ Passed /\ Met /\ Rewritings /\ Removals
  /\ AsyncOrOpen /\ InsideKnown

(* What is in what, from the parents.                                       *)
LEMMA AboveIs ==
  ASSUME FileTyped
  PROVE  /\ Len(file.what) \in Nat /\ M!Nodes = 1 .. Len(file.what)
         /\ \A i \in M!Nodes : In(i) = {a \in 1 .. (i - 1) : \A j \in (a + 1) .. i : file.parents[j] >= a}
         /\ \A i \in M!Nodes : file.parents[i] \in 0 .. (i - 1)
<1>1. file.what \in Seq(M!Contents) BY DEF FileTyped
<1>2. Len(file.what) \in Nat /\ M!Nodes = 1 .. Len(file.what) BY <1>1 DEF M!Nodes
<1> QED BY <1>2 DEF In, M!Above, FileTyped

(* A node is in its parent and in what that is in.                          *)
LEMMA AboveStep ==
  ASSUME FileTyped, NEW i \in M!Nodes
  PROVE  /\ file.parents[i] = 0 => In(i) = {}
         /\ file.parents[i] # 0 => /\ file.parents[i] \in M!Nodes
                                   /\ In(i) = {file.parents[i]} \cup In(file.parents[i])
<1> DEFINE p == file.parents[i]
           N == Len(file.what)
<1>1. N \in Nat /\ i \in 1 .. N /\ p \in 0 .. (i - 1) BY AboveIs
<1>2. In(i) = {a \in 1 .. (i - 1) : \A j \in (a + 1) .. i : file.parents[j] >= a} BY AboveIs
<1>3. \A a \in In(i) : p >= a
  <2>1. \A a \in 1 .. (i - 1) : i \in (a + 1) .. i BY <1>1
  <2> QED BY <1>2, <2>1
<1>4. \A j \in (p + 1) .. (i - 1) : file.parents[j] >= p BY DEF FileTyped
<1>5. ASSUME p # 0
      PROVE  p \in M!Nodes /\ In(i) = {p} \cup In(p)
  <2>1. p \in 1 .. (i - 1) /\ p \in M!Nodes BY <1>1, <1>5, AboveIs
  <2>2. In(p) = {a \in 1 .. (p - 1) : \A j \in (a + 1) .. p : file.parents[j] >= a} BY <2>1, AboveIs
  <2>3. p \in In(i)
    <3>1. \A j \in (p + 1) .. i : j \in (p + 1) .. (i - 1) \/ j = i BY <1>1
    <3>2. \A j \in (p + 1) .. i : file.parents[j] >= p BY <3>1, <1>4, <1>1
    <3> QED BY <1>2, <2>1, <3>2
  <2>4. ASSUME NEW a \in In(i), a # p PROVE a \in In(p)
    <3>1. a \in 1 .. (p - 1) BY <1>2, <1>3, <2>4, <1>1
    <3>2. \A j \in (a + 1) .. p : j \in (a + 1) .. i BY <1>1, <3>1
    <3> QED BY <3>1, <3>2, <1>2, <2>2
  <2>5. ASSUME NEW a \in In(p) PROVE a \in In(i)
    <3>1. a \in 1 .. (p - 1) /\ a \in 1 .. (i - 1) BY <2>2, <1>1
    <3>2. ASSUME NEW j \in (a + 1) .. i PROVE file.parents[j] >= a
      <4>1. CASE j \in (a + 1) .. p BY <2>2, <4>1
      <4>2. CASE j \in (p + 1) .. (i - 1)
        <5>1. j \in M!Nodes BY <4>2, <1>1, AboveIs
        <5>2. file.parents[j] \in Nat BY <5>1, AboveIs
        <5> QED BY <4>2, <1>4, <3>1, <5>2, <1>1
      <4>3. CASE j = i BY <4>3, <3>1, <1>1
      <4> QED BY <4>1, <4>2, <4>3, <3>1, <1>1
    <3> QED BY <3>1, <3>2, <1>2
  <2> QED BY <2>1, <2>3, <2>4, <2>5
<1>6. p = 0 => In(i) = {} BY <1>1, <1>2, <1>3
<1> QED BY <1>5, <1>6

(* What a node is in is one around the other, and holds all that is between. *)
LEMMA AboveNests ==
  ASSUME FileTyped, NEW a, NEW c \in M!Nodes, a \in In(c)
  PROVE  /\ a \in M!Nodes /\ a < c /\ In(a) \subseteq In(c)
         /\ \A b \in M!Nodes : a < b /\ b < c => a \in In(b)
<1> DEFINE N == Len(file.what)
<1>1. N \in Nat /\ c \in 1 .. N /\ M!Nodes = 1 .. N BY AboveIs
<1>2. a \in 1 .. (c - 1) /\ \A j \in (a + 1) .. c : file.parents[j] >= a BY AboveIs
<1>3. a \in M!Nodes /\ a < c BY <1>1, <1>2
<1>4. ASSUME NEW b \in M!Nodes, a < b, b < c PROVE a \in In(b)
  <2>1. a \in 1 .. (b - 1) /\ \A j \in (a + 1) .. b : j \in (a + 1) .. c BY <1>1, <1>2, <1>4
  <2>2. In(b) = {x \in 1 .. (b - 1) : \A j \in (x + 1) .. b : file.parents[j] >= x} BY AboveIs
  <2> QED BY <2>1, <2>2, <1>2
<1>5. ASSUME NEW x \in In(a) PROVE x \in In(c)
  <2>1. x \in 1 .. (a - 1) /\ \A j \in (x + 1) .. a : file.parents[j] >= x BY <1>3, AboveIs
  <2>2. ASSUME NEW j \in (x + 1) .. c PROVE file.parents[j] >= x
    <3>1. CASE j \in (x + 1) .. a BY <2>1, <3>1
    <3>2. CASE j \in (a + 1) .. c
      <4>1. file.parents[j] \in Nat
        <5>1. j \in M!Nodes BY <3>2, <1>1, <1>2
        <5> QED BY <5>1, AboveIs
      <4> QED BY <4>1, <3>2, <1>2, <2>1, <1>1
    <3> QED BY <3>1, <3>2, <2>1, <1>2, <1>1
  <2>3. x \in 1 .. (c - 1) BY <2>1, <1>2, <1>1
  <2> QED BY <2>2, <2>3, AboveIs
<1> QED BY <1>3, <1>4, <1>5

(* Nothing is in a call of flush() or the set up of a scheduler.            *)
LEMMA NothingInLeaves ==
  ASSUME FileTyped, NEW a, NEW c \in M!Nodes, a \in In(c)
  PROVE  M!Kind(a) \notin {"flush", "scheduler", "mixed", "import"}
<1> DEFINE b == a + 1
<1>1. Len(file.what) \in Nat /\ M!Nodes = 1 .. Len(file.what) BY AboveIs
<1>2. a \in M!Nodes /\ a < c BY AboveNests
<1>3. b \in M!Nodes /\ (b < c \/ b = c) /\ a < b /\ a # 0 /\ b - 1 = a BY <1>1, <1>2
<1>4. a \in In(b) BY <1>3, AboveNests
<1>5. file.parents[b] \in 0 .. a /\ file.parents[b] >= a
  <2>1. b \in (a + 1) .. b /\ 0 .. (b - 1) = 0 .. a BY <1>3, <1>2, <1>1
  <2> QED BY <1>3, <1>4, <2>1, AboveIs
<1>6. file.parents[b] = a BY <1>5, <1>2, <1>1
<1> QED BY <1>6, <1>3 DEF FileTyped

(* What is said of the file alone stays as it is with the file.             *)
LEMMA FileKept ==
  ASSUME file' = file
  PROVE  /\ M!Nodes' = M!Nodes /\ M!Above' = M!Above /\ M!Unsafe' = M!Unsafe
         /\ M!HasScheduler' <=> M!HasScheduler
         /\ \A i : /\ M!Kind(i)' = M!Kind(i) /\ M!Ops(i)' = M!Ops(i) /\ M!Named(i)' = M!Named(i)
                   /\ M!Entries(i)' = M!Entries(i) /\ In(i)' = In(i)
                   /\ M!FunctionOf(i)' = M!FunctionOf(i)
                   /\ M!IsFunction(i)' <=> M!IsFunction(i)
                   /\ M!InRun(i)' <=> M!InRun(i)
                   /\ M!AfterARun(i)' <=> M!AfterARun(i)
<1>1. M!Nodes' = M!Nodes BY DEF M!Nodes
<1>2. \A i : M!Kind(i)' = M!Kind(i) BY DEF M!Kind
<1>3. \A i : M!Ops(i)' = M!Ops(i) BY DEF M!Ops
<1>4. \A i : M!Named(i)' = M!Named(i) BY <1>3 DEF M!Named
<1>5. M!Above' = M!Above BY <1>1 DEF M!Above
<1>6. M!Unsafe' = M!Unsafe BY <1>1, <1>2, <1>3, <1>4 DEF M!Unsafe
<1>7. \A i : M!Entries(i)' = M!Entries(i) BY <1>3, <1>6 DEF M!Entries
<1>8. \A i : M!IsFunction(i)' <=> M!IsFunction(i) BY <1>2 DEF M!IsFunction
<1>9. \A i : M!FunctionOf(i)' = M!FunctionOf(i) BY <1>5, <1>8 DEF M!FunctionOf
<1>10. \A i : M!InRun(i)' <=> M!InRun(i) BY <1>2, <1>5 DEF M!InRun
<1>11. \A i : M!AfterARun(i)' <=> M!AfterARun(i)
  BY <1>2, <1>5 DEF M!AfterARun, M!RunOf
<1>12. M!HasScheduler' <=> M!HasScheduler BY <1>1, <1>2 DEF M!HasScheduler
<1>13. \A i : In(i)' = In(i) BY <1>5 DEF In
<1> QED BY <1>1, <1>2, <1>3, <1>4, <1>5, <1>6, <1>7, <1>8, <1>9, <1>10, <1>11, <1>12, <1>13

(* The path to a node with one more on it.                                  *)
LEMMA PushIs ==
  ASSUME NEW S, NEW q \in Seq(S), NEW x \in S
  PROVE  /\ Append(q, x) \in Seq(S) /\ Len(Append(q, x)) = Len(q) + 1
         /\ \A k \in 1 .. Len(q) : Append(q, x)[k] = q[k]
         /\ Append(q, x)[Len(q) + 1] = x
<1>1. Append(q, x) \in Seq(S) /\ Len(Append(q, x)) = Len(q) + 1 OBVIOUS
<1>2. \A k \in 1 .. Len(q) : Append(q, x)[k] = q[k] OBVIOUS
<1>3. Append(q, x)[Len(q) + 1] = x OBVIOUS
<1> QED BY <1>1, <1>2, <1>3

(* The path to a node with the last one off it.                             *)
LEMMA PopIs ==
  ASSUME NEW S, NEW q \in Seq(S), q # <<>>
  PROVE  /\ Len(q) \in Nat \ {0}
         /\ SubSeq(q, 1, Len(q) - 1) \in Seq(S) /\ Len(SubSeq(q, 1, Len(q) - 1)) = Len(q) - 1
         /\ \A k \in 1 .. (Len(q) - 1) : SubSeq(q, 1, Len(q) - 1)[k] = q[k]
<1> DEFINE n == Len(q) - 1
<1>1. Len(q) \in Nat \ {0} OBVIOUS
<1>2. n \in Nat /\ n <= Len(q) BY <1>1
<1> HIDE DEF n
<1>3. SubSeq(q, 1, n) \in Seq(S) BY <1>2, <1>1
<1>4. Len(SubSeq(q, 1, n)) = n BY <1>2, <1>1
<1>5. \A k \in 1 .. n : SubSeq(q, 1, n)[k] = q[k] BY <1>2, <1>1
<1> QED BY <1>1, <1>3, <1>4, <1>5 DEF n

(* The last node of the path is in all the others.                          *)
LEMMA PathIs ==
  ASSUME FileTyped, WalkTyped, PathInOrder
  PROVE  /\ Len(path) \in Nat /\ OnPath \subseteq M!Nodes
         /\ path = <<>> => OnPath = {}
         /\ path # <<>> => /\ M!Within = path[Len(path)] /\ M!Within \in OnPath
                           /\ In(M!Within) = OnPath \ {M!Within}
                           /\ \A a \in OnPath : a <= M!Within
<1>0. path \in Seq(Nat) BY DEF WalkTyped
<1>1. Len(path) \in Nat /\ path \in Seq(Nat) BY <1>0
<1>2. OnPath \subseteq M!Nodes BY DEF OnPath, PathInOrder
<1>3. path = <<>> => OnPath = {} BY <1>1 DEF OnPath
<1>4. ASSUME path # <<>>
      PROVE  /\ M!Within = path[Len(path)] /\ M!Within \in OnPath
             /\ In(M!Within) = OnPath \ {M!Within} /\ \A a \in OnPath : a <= M!Within
  <2> DEFINE n == Len(path)
             w == path[n]
  <2>1. n \in Nat \ {0} /\ n \in 1 .. n BY <1>1, <1>4
  <2>2. M!Within = w BY <1>4 DEF M!Within
  <2>3. w \in OnPath BY <2>1 DEF OnPath
  <2>4. In(w) = {path[m] : m \in 1 .. (n - 1)} BY <2>1 DEF PathInOrder
  <2>5. w \in M!Nodes BY <2>3, <1>2
  <2>6. \A a \in In(w) : a < w BY <2>5, AboveNests
  <2>7. w \notin In(w)
    <3>1. w \in Nat BY <2>5, AboveIs
    <3> QED BY <2>6, <3>1
  <2>8. \A m \in 1 .. n : m = n \/ m \in 1 .. (n - 1) BY <2>1
  <2>9. In(w) = OnPath \ {w}
    <3>1. In(w) \subseteq OnPath
      <4>1. \A m \in 1 .. (n - 1) : m \in 1 .. n BY <2>1
      <4> QED BY <4>1, <2>4 DEF OnPath
    <3>2. \A a \in OnPath : a # w => a \in In(w) BY <2>4, <2>8 DEF OnPath
    <3> QED BY <3>1, <3>2, <2>7
  <2>10. \A a \in OnPath : a <= w
    <3>1. w \in Nat BY <2>5, AboveIs
    <3>2. \A a \in OnPath : a \in Nat BY <1>2, AboveIs
    <3> QED BY <3>1, <3>2, <2>6, <2>9
  <2> QED BY <2>2, <2>3, <2>9, <2>10
<1> QED BY <1>1, <1>2, <1>3, <1>4

(* The node that the walk comes to is in those of the path, and nothing is  *)
(* known of it.                                                             *)
LEMMA Arrives ==
  ASSUME SemanticInv, NEW kind, M!Comes(kind)
  PROVE  /\ at \in M!Nodes /\ M!Kind(at) = kind /\ status = "walking"
         /\ at \notin OnPath \cup rewritten \cup refused
         /\ In(at) = OnPath /\ ~Missed(at)
<1> USE DEF SemanticInv
<1>1. at \in M!Nodes /\ M!Kind(at) = kind /\ status = "walking" /\ file.parents[at] = M!Within
  BY DEF M!Comes
<1>2. at \in Nat /\ M!Nodes = 1 .. Len(file.what) /\ Len(file.what) \in Nat BY <1>1, AboveIs
<1>3. at \notin rewritten \cup refused
  <2>1. rewritten \cup refused \subseteq 1 .. (at - 1) BY DEF WalkTyped
  <2>2. at \notin 1 .. (at - 1) BY <1>2
  <2> QED BY <2>1, <2>2
<1>4. at \notin OnPath
  <2>1. \A k \in 1 .. Len(path) : path[k] < at BY DEF PathInOrder
  <2> QED BY <2>1, <1>2 DEF OnPath
<1>5. In(at) = OnPath
  <2>1. CASE path = <<>>
    <3>1. M!Within = 0 BY <2>1 DEF M!Within
    <3> QED BY <3>1, <2>1, <1>1, AboveStep, PathIs
  <2>2. CASE path # <<>>
    <3>1. M!Within \in OnPath /\ In(M!Within) = OnPath \ {M!Within} BY <2>2, PathIs
    <3>2. M!Within # 0 BY <3>1, <1>2, PathIs
    <3>3. file.parents[at] # 0 BY <3>2, <1>1
    <3>4. In(at) = {file.parents[at]} \cup In(file.parents[at]) BY <3>3, <1>1, AboveStep
    <3>5. In(at) = {M!Within} \cup In(M!Within) BY <3>4, <1>1
    <3> QED BY <3>1, <3>5
  <2> QED BY <2>1, <2>2
<1>6. ~Missed(at) BY <1>5 DEF Missed, Passed
<1> QED BY <1>1, <1>3, <1>4, <1>5, <1>6 DEF WalkTyped

(* Into a node.                                                             *)
LEMMA Descends ==
  ASSUME SemanticInv, NEW kind, M!Comes(kind), M!Descend, file' = file
  PROVE  /\ OnPath' = OnPath \cup {at} /\ at' = at + 1
         /\ at' \in 1 .. (Len(file.what) + 1) /\ path' \in Seq(Nat) /\ PathInOrder'
<1> USE DEF SemanticInv
<1>1. /\ at \in M!Nodes /\ In(at) = OnPath /\ path' = Append(path, at) /\ at' = at + 1
      /\ path \in Seq(Nat)
  BY Arrives DEF M!Descend, WalkTyped
<1>2. at \in Nat /\ M!Nodes = 1 .. Len(file.what) /\ Len(file.what) \in Nat BY <1>1, AboveIs
<1>3. /\ path' \in Seq(Nat) /\ Len(path') = Len(path) + 1
      /\ \A k \in 1 .. Len(path) : path'[k] = path[k]
      /\ path'[Len(path) + 1] = at
  BY <1>1, <1>2, PushIs
<1>n. Len(path) \in Nat BY <1>1
<1>4. \A k \in 1 .. Len(path') : k \in 1 .. Len(path) \/ k = Len(path) + 1 BY <1>3, <1>n
<1>5. 1 .. Len(path) \subseteq 1 .. Len(path') /\ Len(path) + 1 \in 1 .. Len(path') BY <1>3, <1>n
<1>6. OnPath' = OnPath \cup {at} BY <1>3, <1>4, <1>5 DEF OnPath
<1>7. \A k \in 1 .. Len(path') : path'[k] < at' /\ path'[k] \in M!Nodes
  <2>1. \A k \in 1 .. Len(path) : path'[k] < at' /\ path'[k] \in M!Nodes
    BY <1>1, <1>2, <1>3 DEF PathInOrder
  <2>2. path'[Len(path) + 1] < at' /\ path'[Len(path) + 1] \in M!Nodes BY <1>1, <1>2, <1>3
  <2> QED BY <1>4, <2>1, <2>2
<1>8. \A k \in 1 .. Len(path') : In(path'[k]) = {path'[m] : m \in 1 .. (k - 1)}
  <2>1. ASSUME NEW k \in 1 .. Len(path) PROVE In(path'[k]) = {path'[m] : m \in 1 .. (k - 1)}
    <3>1. \A m \in 1 .. (k - 1) : path'[m] = path[m] BY <1>3, <1>n
    <3>2. In(path[k]) = {path[m] : m \in 1 .. (k - 1)} BY DEF PathInOrder
    <3>3. path'[k] = path[k] BY <1>3
    <3> QED BY <3>1, <3>2, <3>3
  <2>2. In(at) = {path'[m] : m \in 1 .. Len(path)} BY <1>1, <1>3 DEF OnPath
  <2>3. (Len(path) + 1) - 1 = Len(path) BY <1>n
  <2> QED BY <1>3, <1>4, <2>1, <2>2, <2>3
<1>9. ASSUME at' \in M!Nodes PROVE In(at') \subseteq OnPath'
  <2> SUFFICES ASSUME NEW a \in In(at') PROVE a \in OnPath \cup {at} BY <1>6
  <2>1. a \in M!Nodes /\ a < at' BY <1>9, AboveNests
  <2>2. a = at \/ a < at BY <2>1, <1>1, <1>2
  <2>3. a < at => a \in In(at) BY <1>9, <1>1, <1>2, AboveNests
  <2> QED BY <2>2, <2>3, <1>1
<1>10. at' \in 1 .. (Len(file.what) + 1) BY <1>1, <1>2
<1> QED BY <1>1, <1>3, <1>6, <1>7, <1>8, <1>9, <1>10, FileKept DEF PathInOrder

(* Past a node and what it has.                                             *)
LEMMA Skips ==
  ASSUME SemanticInv, NEW kind, M!Comes(kind), M!Skip, file' = file
  PROVE  /\ OnPath' = OnPath /\ at' > at /\ at' \in 1 .. (Len(file.what) + 1) /\ path' = path
         /\ PathInOrder' /\ \A j \in (at + 1) .. (at' - 1) : j \in M!Nodes /\ at \in In(j)
<1> USE DEF SemanticInv
<1>1. /\ at \in M!Nodes /\ In(at) = OnPath /\ path' = path /\ path \in Seq(Nat)
      /\ at' \in M!PastNode(at) /\ \A j \in M!PastNode(at) : at' <= j
  BY Arrives DEF M!Skip, WalkTyped
<1>2. at \in Nat /\ M!Nodes = 1 .. Len(file.what) /\ Len(file.what) \in Nat BY <1>1, AboveIs
<1>3. M!PastNode(at) = {j \in (at + 1) .. (Len(file.what) + 1) : j \notin M!Nodes \/ at \notin In(j)}
  BY DEF M!PastNode, In
<1>4. at' \in (at + 1) .. (Len(file.what) + 1) /\ (at' \in M!Nodes => at \notin In(at'))
  BY <1>1, <1>3
<1>5. at' > at /\ at' \in 1 .. (Len(file.what) + 1) BY <1>4, <1>2
<1>6. ASSUME NEW j \in (at + 1) .. (at' - 1) PROVE j \in M!Nodes /\ at \in In(j)
  <2>1. j \in (at + 1) .. (Len(file.what) + 1) /\ j < at'
    <3> DEFINE t == at'
    <3> HIDE DEF t
    <3>1. t \in (at + 1) .. (Len(file.what) + 1) /\ j \in (at + 1) .. (t - 1) BY <1>4, <1>6 DEF t
    <3>2. j \in (at + 1) .. (Len(file.what) + 1) /\ j < t BY <3>1, <1>2
    <3> QED BY <3>2 DEF t
  <2>2. j \notin M!PastNode(at) BY <2>1, <1>1, <1>2, <1>4
  <2> QED BY <2>1, <2>2, <1>3
<1>7. OnPath' = OnPath BY <1>1 DEF OnPath
<1>8. ASSUME at' \in M!Nodes, NEW a \in In(at') PROVE a \in OnPath
  <2>1. a \in M!Nodes /\ a < at' BY <1>8, AboveNests
  <2>2. CASE a < at BY <2>2, <1>8, <1>1, <1>5, AboveNests
  <2>3. CASE a = at BY <2>3, <1>8, <1>4
  <2>4. CASE a > at
    <3>1. a \in (at + 1) .. (at' - 1)
      <4> DEFINE t == at'
      <4> HIDE DEF t
      <4>1. t \in (at + 1) .. (Len(file.what) + 1) /\ a < t BY <1>4, <2>1 DEF t
      <4>2. a \in Nat BY <2>1, <1>2
      <4>3. a \in (at + 1) .. (t - 1) BY <4>1, <4>2, <2>4, <1>2
      <4> QED BY <4>3 DEF t
    <3>2. at \in In(a) BY <3>1, <1>6
    <3>3. at \in In(at') BY <3>2, <1>8, AboveNests
    <3> QED BY <3>3, <1>4, <1>8
  <2> QED BY <2>1, <2>2, <2>3, <2>4, <1>2
<1>9. \A k \in 1 .. Len(path) : path[k] < at'
  <2>1. \A k \in 1 .. Len(path) : path[k] < at /\ path[k] \in Nat
    BY <1>2 DEF PathInOrder
  <2> QED BY <2>1, <1>2, <1>4
<1>10. /\ M!Nodes' = M!Nodes /\ path' = path /\ OnPath' = OnPath
       /\ \A i : In(i)' = In(i)
  BY <1>1, <1>7, FileKept
<1>11. \A k \in 1 .. Len(path) : path[k] < at' /\ path[k] \in M!Nodes
  BY <1>9 DEF PathInOrder
<1>12. \A k \in 1 .. Len(path) : In(path[k]) = {path[m] : m \in 1 .. (k - 1)}
  BY DEF PathInOrder
<1>13. at' \in M!Nodes => In(at') \subseteq OnPath
  BY <1>8
<1>14. PathInOrder'
  BY <1>10, <1>11, <1>12, <1>13 DEF PathInOrder
<1> QED BY <1>1, <1>5, <1>6, <1>7, <1>14

(* Out of a node: nothing that follows is in it.                            *)
LEMMA Leaves ==
  ASSUME SemanticInv, M!Leave
  PROVE  /\ M!Within \in OnPath /\ OnPath' = OnPath \ {M!Within} /\ path' \in Seq(Nat)
         /\ PathInOrder' /\ In(M!Within) = OnPath' /\ \A a \in OnPath : a <= M!Within
<1> USE DEF SemanticInv
<1> DEFINE n == Len(path)
           w == M!Within
<1>1. /\ path # <<>> /\ path' = SubSeq(path, 1, Len(path) - 1) /\ UNCHANGED <<file, at>>
      /\ at \in M!Nodes => file.parents[at] # w
      /\ path \in Seq(Nat)
  BY DEF M!Leave, WalkTyped
<1>2. /\ n \in Nat \ {0} /\ path' \in Seq(Nat) /\ Len(path') = n - 1
      /\ \A k \in 1 .. (n - 1) : path'[k] = path[k]
  BY <1>1, PopIs
<1>3. /\ w = path[n] /\ w \in OnPath /\ In(w) = OnPath \ {w} /\ \A a \in OnPath : a <= w
      /\ OnPath \subseteq M!Nodes
  BY <1>1, PathIs
<1>4. In(w) = {path[m] : m \in 1 .. (n - 1)}
  <2>1. n \in 1 .. n BY <1>2
  <2>2. In(path[n]) = {path[m] : m \in 1 .. (n - 1)} BY <2>1 DEF PathInOrder
  <2> QED BY <2>2, <1>3
<1>5. OnPath' = In(w) BY <1>2, <1>4 DEF OnPath
<1>6. OnPath' = OnPath \ {w} BY <1>3, <1>5
<1>7. \A k \in 1 .. (n - 1) : k \in 1 .. n /\ \A m \in 1 .. (k - 1) : m \in 1 .. (n - 1)
  BY <1>2
<1>8. \A k \in 1 .. Len(path') : path'[k] < at' /\ path'[k] \in M!Nodes
  BY <1>1, <1>2, <1>7 DEF PathInOrder
<1>9. ASSUME NEW k \in 1 .. Len(path') PROVE In(path'[k]) = {path'[m] : m \in 1 .. (k - 1)}
  <2>1. k \in 1 .. (n - 1) BY <1>2
  <2>2. In(path[k]) = {path[m] : m \in 1 .. (k - 1)} BY <2>1, <1>7 DEF PathInOrder
  <2> QED BY <2>1, <2>2, <1>2, <1>7
<1>10. ASSUME at \in M!Nodes PROVE w \notin In(at)
  <2> SUFFICES ASSUME w \in In(at) PROVE FALSE OBVIOUS
  <2> DEFINE p == file.parents[at]
  <2>1. p # 0 BY <1>10, AboveStep
  <2>2. p \in M!Nodes /\ In(at) = {p} \cup In(p) BY <1>10, <2>1, AboveStep
  <2>3. p \in OnPath BY <1>10, <2>2 DEF PathInOrder
  <2>4. p <= w BY <2>3, <1>3
  <2>5. w \in In(p) BY <1>1, <1>10, <2>2
  <2>6. w < p /\ w \in M!Nodes BY <2>5, <2>2, AboveNests
  <2> QED BY <2>2, <2>4, <2>6, AboveIs
<1>11. at' \in M!Nodes => In(at') \subseteq OnPath' BY <1>1, <1>6, <1>10 DEF PathInOrder
<1> QED BY <1>1, <1>2, <1>3, <1>5, <1>6, <1>8, <1>9, <1>11, FileKept DEF PathInOrder

(* What is bounded has a greatest element.                                  *)
LEMMA Greatest ==
  ASSUME NEW n \in Nat, NEW T, T \subseteq 1 .. n, T # {}
  PROVE  \E x \in T : \A y \in T : y <= x
<1> DEFINE R == OpToRel(<, Nat)
           L == {n - t : t \in T}
<1>1. L \subseteq Nat /\ L # {}
  <2>1. \A t \in T : t \in 1 .. n OBVIOUS
  <2>2. \A t \in 1 .. n : n - t \in Nat OBVIOUS
  <2> QED BY <2>1, <2>2
<1>2. IsWellFoundedOn(R, Nat) BY NatLessThanWellFounded
<1>3. \A x, y \in Nat : y < x => <<y, x>> \in R BY DEF OpToRel
<1> HIDE DEF R, L
<1>4. PICK l \in L : \A k \in L : <<k, l>> \notin R BY <1>1, <1>2, WFMin
<1>5. PICK x \in T : l = n - x BY <1>4 DEF L
<1>6. ASSUME NEW y \in T PROVE y <= x
  <2>1. n - y \in L /\ n - y \in Nat /\ l \in Nat BY <1>1, <1>4 DEF L
  <2>2. ~(n - y < l) BY <2>1, <1>3, <1>4
  <2>3. x \in Nat /\ y \in Nat OBVIOUS
  <2> QED BY <2>2, <2>3, <1>5
<1> QED BY <1>6

(* The walk knows that it is in a run, unless it has left one within it.    *)
LEMMA KnowsInside ==
  ASSUME SemanticInv, NEW kind, M!Comes(kind), M!InRun(at), ~M!AfterARun(at)
  PROVE  inside = TRUE
<1> USE DEF SemanticInv
<1>1. /\ at \in M!Nodes /\ In(at) = OnPath /\ M!Nodes = 1 .. Len(file.what)
      /\ Len(file.what) \in Nat /\ OnPath \subseteq 1 .. Len(file.what)
  BY Arrives, AboveIs, PathIs
<1> DEFINE T == {r \in OnPath : M!Kind(r) = "run"}
<1>2. T # {} /\ T \subseteq 1 .. Len(file.what) BY <1>1 DEF M!InRun, In
<1> HIDE DEF T
<1>3. PICK r \in T : \A o \in T : o <= r BY <1>1, <1>2, Greatest
<1>4. Innermost(r) BY <1>3 DEF T, Innermost
<1>5. M!RunOf(at) = r
  <2>1. \A o \in T : (\A q \in T : q <= o) => o = r
    <3>1. \A o \in T : o \in Nat BY <1>2
    <3> QED BY <3>1, <1>3
  <2> DEFINE P(x) == x \in M!Above[at] /\ M!Kind(x) = "run"
                       /\ \A o \in M!Above[at] : M!Kind(o) = "run" => o <= x
  <2>2. P(r) BY <1>1, <1>3 DEF T, In
  <2>3. \A x : P(x) => x = r BY <1>1, <2>1 DEF T, In
  <2>4. M!RunOf(at) = CHOOSE x : P(x)
    BY DEF M!RunOf
  <2> HIDE DEF P
  <2> QED BY <2>2, <2>3, <2>4
<1>6. ~RunWithin(r)
  <2> SUFFICES ASSUME RunWithin(r) PROVE FALSE OBVIOUS
  <2>1. PICK o \in 1 .. (at - 1) \ OnPath : M!Kind(o) = "run" /\ r \in In(o) BY DEF RunWithin
  <2> QED BY <2>1, <1>1, <1>5 DEF M!AfterARun, In
<1> QED BY <1>3, <1>4, <1>6 DEF InsideKnown, T

(* What the walk has passed by stays so.                                    *)
LEMMA MissedStays ==
  ASSUME file' = file, refused \subseteq refused', rewritten \subseteq rewritten'
  PROVE  \A i : Missed(i) => Missed(i)'
BY FileKept DEF Missed

(* What a step leaves alone of the walk is still met.                       *)
LEMMA MetStays ==
  ASSUME FileTyped, Met, file' = file, refused \subseteq refused', rewritten \subseteq rewritten',
         \A i \in 1 .. (at' - 1) : i \in 1 .. (at - 1) \/ Missed(i)' \/ MetAt(i)'
  PROVE  Met'
<1>1. ASSUME NEW i, Met, MetAt(i) PROVE MetAt(i)' BY <1>1, FileKept DEF MetAt
<1> SUFFICES ASSUME NEW i \in 1 .. (at' - 1), ~Missed(i)' PROVE MetAt(i)' BY DEF Met
<1>2. CASE i \in 1 .. (at - 1)
  <2>1. ~Missed(i) BY MissedStays
  <2> QED BY <1>1, <1>2, <2>1 DEF Met
<1> QED BY <1>2

(* More rewritten pipelines, more imports that stand after one.             *)
LEMMA LateStays ==
  ASSUME file' = file, rewritten \subseteq rewritten'
  PROVE  M!ImportedLate \subseteq M!ImportedLate'
BY FileKept DEF M!ImportedLate

(* A step of the walk converts the node it is at, and takes from an import  *)
(* what has been converted before it.                                       *)
LEMMA RemovalsStay ==
  ASSUME SemanticInv, status = "walking", at \in M!Nodes, UNCHANGED <<file, status>>,
         rewritten \subseteq rewritten', converted \subseteq converted',
         \A l \in converted' \ converted :
           at \in rewritten' /\ M!Kind(at) = "pipe" /\ l \in M!Named(at),
         \A l \in removed' \ removed :
           M!Kind(at) = "import" /\ l \in M!Named(at) \cap converted
  PROVE  Removals'
<1> USE DEF SemanticInv
<1>1. ASSUME NEW l \in converted'
      PROVE  \E j \in rewritten' : M!Kind(j) = "pipe" /\ l \in M!Named(j)
  BY DEF Removals
<1>2. M!ImportedLate \subseteq M!ImportedLate' BY LateStays
<1>3. ASSUME NEW l \in removed' \ removed PROVE l \in M!ImportedLate
  <2>1. M!Kind(at) = "import" /\ l \in M!Named(at) /\ l \in converted BY <1>3
  <2>2. PICK j \in rewritten : M!Kind(j) = "pipe" /\ l \in M!Named(j) BY <2>1 DEF Removals
  <2>3. j < at
    <3>1. j \in 1 .. (at - 1) BY DEF WalkTyped
    <3> QED BY <3>1, AboveIs
  <2>4. l \in Locals BY <2>1 DEF M!Named
  <2> QED BY <2>1, <2>2, <2>3, <2>4 DEF M!ImportedLate
<1>4. removed' \subseteq converted' \cap M!ImportedLate'
  <2>1. removed \subseteq converted \cap M!ImportedLate BY DEF Removals
  <2> QED BY <2>1, <1>2, <1>3
<1>5. status' = "walking" /\ file' = file OBVIOUS
<1>6. \A i : M!Kind(i)' = M!Kind(i) /\ M!Named(i)' = M!Named(i) BY <1>5, FileKept
<1> QED BY <1>1, <1>4, <1>5, <1>6 DEF Removals

(* The other nodes of the walk do not change whether it is in a run...      *)
LEMMA InsideDescends ==
  ASSUME SemanticInv, NEW kind, M!Comes(kind), M!Descend, file' = file,
         (kind = "run" /\ inside' = TRUE) \/ (kind # "run" /\ inside' = inside)
  PROVE  InsideKnown'
<1> USE DEF SemanticInv
<1> SUFFICES ASSUME NEW r \in OnPath', Innermost(r)', inside' # TRUE PROVE RunWithin(r)'
  BY DEF InsideKnown
<1>1. OnPath' = OnPath \cup {at} /\ at' = at + 1 BY Descends
<1>2. M!Kind(at) # "run" /\ inside # TRUE /\ at \in Nat
  <2>1. at \in M!Nodes /\ M!Kind(at) = kind BY Arrives
  <2>2. at \in Nat BY <2>1, AboveIs
  <2>3. kind # "run" OBVIOUS
  <2>4. inside' = inside BY <2>3
  <2> QED BY <2>1, <2>2, <2>3, <2>4
<1>3. r \in OnPath /\ M!Kind(r) = "run" /\ \A o \in OnPath : M!Kind(o) = "run" => o <= r
  BY <1>1, <1>2, FileKept DEF Innermost
<1>4. RunWithin(r) BY <1>2, <1>3 DEF InsideKnown, Innermost
<1>5. PICK o \in 1 .. (at - 1) \ OnPath : M!Kind(o) = "run" /\ r \in In(o) BY <1>4 DEF RunWithin
<1>6. o \in 1 .. (at' - 1) \ OnPath' BY <1>1, <1>2, <1>5
<1> QED BY <1>5, <1>6, FileKept DEF RunWithin

(* ...nor do those that it passes by...                                     *)
LEMMA InsideSkips ==
  ASSUME SemanticInv, NEW kind, M!Comes(kind), M!Skip, file' = file, inside' = inside
  PROVE  InsideKnown'
<1> USE DEF SemanticInv
<1> SUFFICES ASSUME NEW r \in OnPath', Innermost(r)', inside' # TRUE PROVE RunWithin(r)'
  BY DEF InsideKnown
<1>1. OnPath' = OnPath /\ at' > at /\ at' \in 1 .. (Len(file.what) + 1) BY Skips
<1>2. at \in Nat /\ Len(file.what) \in Nat BY Arrives, AboveIs
<1>3. r \in OnPath /\ M!Kind(r) = "run" /\ \A o \in OnPath : M!Kind(o) = "run" => o <= r
  BY <1>1, <1>2, FileKept DEF Innermost
<1>4. RunWithin(r) BY <1>2, <1>3 DEF InsideKnown, Innermost
<1>5. PICK o \in 1 .. (at - 1) \ OnPath : M!Kind(o) = "run" /\ r \in In(o) BY <1>4 DEF RunWithin
<1>6. o \in 1 .. (at' - 1)
  <2> DEFINE t == at'
  <2> HIDE DEF t
  <2>1. t > at /\ t \in Nat BY <1>1, <1>2 DEF t
  <2>2. o \in 1 .. (t - 1) BY <2>1, <1>2, <1>5
  <2> QED BY <2>2 DEF t
<1> QED BY <1>1, <1>5, <1>6, FileKept DEF RunWithin

(* ...and the run that it leaves is within the one that is innermost then.  *)
LEMMA InsideLeaves ==
  ASSUME SemanticInv, M!Leave
  PROVE  InsideKnown'
<1> USE DEF SemanticInv
<1> DEFINE w == M!Within
<1> SUFFICES ASSUME NEW r \in OnPath', Innermost(r)', inside' # TRUE PROVE RunWithin(r)'
  BY DEF InsideKnown
<1>1. /\ UNCHANGED <<file, at>> /\ inside' = (inside /\ M!Kind(w) # "run") BY DEF M!Leave
<1>2. /\ w \in OnPath /\ OnPath' = OnPath \ {w} /\ In(w) = OnPath' BY Leaves
<1>3. w \in 1 .. (at - 1)
  <2>1. w \in M!Nodes BY <1>2, PathIs
  <2>2. \A a \in OnPath : a < at BY DEF OnPath, PathInOrder
  <2>3. at \in 1 .. (Len(file.what) + 1) BY DEF WalkTyped
  <2> QED BY <2>1, <2>2, <2>3, <1>2, AboveIs
<1>4. CASE M!Kind(w) = "run"
  <2>1. w \in 1 .. (at' - 1) \ OnPath' /\ r \in In(w) BY <1>1, <1>2, <1>3
  <2> QED BY <1>4, <2>1, <1>1, FileKept DEF RunWithin
<1>5. CASE M!Kind(w) # "run"
  <2>1. inside # TRUE BY <1>1, <1>5 DEF WalkTyped
  <2>2. Innermost(r) BY <1>1, <1>2, <1>5, FileKept DEF Innermost
  <2>3. RunWithin(r) BY <2>1, <2>2, <1>2 DEF InsideKnown
  <2>4. PICK o \in 1 .. (at - 1) \ OnPath : M!Kind(o) = "run" /\ r \in In(o)
    BY <2>3 DEF RunWithin
  <2>5. o \in 1 .. (at' - 1) \ OnPath' BY <1>1, <1>2, <2>4
  <2> QED BY <2>4, <2>5, <1>1, FileKept DEF RunWithin
<1> QED BY <1>4, <1>5

(* All that a step into a node has to keep.                                 *)
LEMMA SemanticDescends ==
  ASSUME SemanticInv, NEW kind, M!Comes(kind), M!Descend, UNCHANGED <<file, refused, async, preserved,
         removed, status>>,
         (kind = "run" /\ inside' = TRUE) \/ (kind # "run" /\ inside' = inside),
         \/ rewritten' = rewritten /\ (\A i : i = at => MetAt(i)') /\ UNCHANGED <<converted, imports>>
         \/ /\ rewritten' = rewritten \cup {at} /\ kind \in {"run", "pipe"}
            /\ imports \subseteq imports' /\ converted' \subseteq Locals \ M!Unsafe
            /\ converted \subseteq converted'
            /\ \A l \in converted' \ converted : kind = "pipe" /\ l \in M!Named(at)
            /\ kind = "pipe" => {Symbol[l] : l \in M!Named(at)} \subseteq imports'
  PROVE  SemanticInv'
<1> USE DEF SemanticInv
<1>1. /\ at \in M!Nodes /\ M!Kind(at) = kind /\ status = "walking"
      /\ at \notin OnPath \cup rewritten \cup refused
      /\ In(at) = OnPath /\ ~Missed(at)
  BY Arrives
<1>2. /\ OnPath' = OnPath \cup {at} /\ at' = at + 1
      /\ at' \in 1 .. (Len(file.what) + 1) /\ path' \in Seq(Nat) /\ PathInOrder'
  BY Descends
<1>3. at \in Nat /\ M!Nodes = 1 .. Len(file.what) BY <1>1, AboveIs
<1>4. rewritten \subseteq rewritten' /\ rewritten' \subseteq rewritten \cup {at} /\ refused' = refused
  OBVIOUS
<1>f. FileTyped' BY FileKept DEF FileTyped
<1>w. WalkTyped'
  <2>1. rewritten' \cup refused' \subseteq 1 .. (at' - 1)
    <3>1. rewritten \cup refused \subseteq 1 .. (at - 1) BY DEF WalkTyped
    <3>2. 1 .. (at - 1) \subseteq 1 .. (at' - 1) /\ at \in 1 .. (at' - 1) BY <1>2, <1>3, <1>1, AboveIs
    <3> QED BY <3>1, <3>2, <1>4
  <2>2. inside' \in BOOLEAN BY DEF WalkTyped
  <2> QED BY <1>1, <1>2, <2>1, <2>2 DEF WalkTyped
<1>p. Passed'
  <2>1. ASSUME NEW i \in refused'
        PROVE  /\ i \notin rewritten' /\ i \notin OnPath'
               /\ \A j \in rewritten' : i \notin In(j)
               /\ {o.name : o \in M!Entries(i)} \subseteq preserved'
    BY <1>1, <1>2, <1>4 DEF Passed
  <2>2. \A i \in OnPath' : i \in rewritten' => M!Kind(i) # "cold"
    BY <1>1, <1>2, <1>4 DEF Passed
  <2> QED BY <2>1, <2>2, FileKept DEF Passed
<1>m. Met'
  <2>1. ASSUME NEW i, i = at PROVE MetAt(i)'
    <3>1. CASE rewritten' = rewritten /\ (\A j : j = at => MetAt(j)') BY <2>1, <3>1
    <3>2. CASE rewritten' = rewritten \cup {at} /\ kind \in {"run", "pipe"}
      BY <2>1, <3>2, <1>1, FileKept DEF MetAt
    <3> QED BY <3>1, <3>2
  <2>2. \A i \in 1 .. (at' - 1) : i \in 1 .. (at - 1) \/ i = at BY <1>2, <1>3
  <2> QED BY <2>1, <2>2, <1>4, MetStays
<1>r. Rewritings'
  <2>1. ASSUME NEW i \in rewritten', M!Kind(i) = "pipe"
        PROVE  {Symbol[l] : l \in M!Named(i)} \subseteq imports'
    BY <1>1, <2>1 DEF Rewritings
  <2>2. converted' \subseteq Locals \ M!Unsafe BY DEF Rewritings
  <2> QED BY <1>1, <2>1, <2>2, FileKept DEF Rewritings
<1>v. Removals'
  <2>1. converted \subseteq converted' /\ removed' = removed OBVIOUS
  <2>2. \A l \in converted' \ converted :
          at \in rewritten' /\ M!Kind(at) = "pipe" /\ l \in M!Named(at)
    BY <1>1
  <2> QED BY <1>1, <1>4, <2>1, <2>2, RemovalsStay
<1>a. AsyncOrOpen'
  <2>1. ASSUME NEW i \in rewritten', M!Kind(i) \in {"run", "flush"}
        PROVE  M!FunctionOf(i) \subseteq async \cup OnPath'
    <3>1. CASE i \in rewritten BY <2>1, <3>1, <1>2 DEF AsyncOrOpen
    <3>2. CASE i = at
      <4>1. M!FunctionOf(at) \subseteq OnPath BY <1>1 DEF M!FunctionOf, In
      <4> QED BY <3>2, <4>1, <1>2
    <3> QED BY <2>1, <3>1, <3>2, <1>4
  <2>2. file' = file OBVIOUS
  <2>3. \A i : M!FunctionOf(i)' = M!FunctionOf(i) BY <2>2, FileKept
  <2>4. \A i : M!Kind(i)' = M!Kind(i) BY <2>2, FileKept
  <2> QED BY <2>1, <2>3, <2>4 DEF AsyncOrOpen
<1>i. InsideKnown' BY InsideDescends
<1> QED BY <1>f, <1>w, <1>2, <1>p, <1>m, <1>r, <1>v, <1>a, <1>i

(* All that a step past a node has to keep.                                 *)
LEMMA SemanticSkips ==
  ASSUME SemanticInv, NEW kind, M!Comes(kind), M!Skip,
         UNCHANGED <<file, inside, async, converted, imports, status>>,
         \A l \in removed' \ removed : kind = "import" /\ l \in M!Named(at) \cap converted,
         \A i : i = at => MetAt(i)',
         \/ /\ rewritten' = rewritten \cup {at} /\ refused' = refused /\ preserved' = preserved
            /\ kind \in {"cold", "flush", "scheduler"}
         \/ /\ rewritten' = rewritten /\ refused' = refused \cup {at} /\ kind = "pipe"
            /\ preserved' = preserved \cup {o.name : o \in M!Entries(at)}
         \/ kind = "import" /\ UNCHANGED <<rewritten, refused, preserved>>
  PROVE  SemanticInv'
<1> USE DEF SemanticInv
<1>1. /\ at \in M!Nodes /\ M!Kind(at) = kind /\ status = "walking"
      /\ at \notin OnPath \cup rewritten \cup refused
      /\ In(at) = OnPath /\ ~Missed(at)
  BY Arrives
<1>2. /\ OnPath' = OnPath /\ at' > at /\ at' \in 1 .. (Len(file.what) + 1) /\ path' = path
      /\ PathInOrder' /\ \A j \in (at + 1) .. (at' - 1) : j \in M!Nodes /\ at \in In(j)
  BY Skips
<1>3. at \in Nat /\ at # 0 /\ M!Nodes = 1 .. Len(file.what) /\ Len(file.what) \in Nat
  BY <1>1, AboveIs
<1>4. /\ rewritten \subseteq rewritten' /\ rewritten' \subseteq rewritten \cup {at}
      /\ refused \subseteq refused' /\ refused' \subseteq refused \cup {at}
  OBVIOUS
<1>5. rewritten \cup refused \subseteq 1 .. (at - 1) BY DEF WalkTyped
<1>6. 1 .. (at - 1) \subseteq 1 .. (at' - 1) /\ at \in 1 .. (at' - 1)
  <2> DEFINE t == at'
  <2> HIDE DEF t
  <2>1. t > at /\ t \in Nat BY <1>2, <1>3 DEF t
  <2>2. 1 .. (at - 1) \subseteq 1 .. (t - 1) /\ at \in 1 .. (t - 1) BY <2>1, <1>3
  <2> QED BY <2>2 DEF t
<1>f. FileTyped' BY FileKept DEF FileTyped
<1>w. WalkTyped'
  <2>1. rewritten' \cup refused' \subseteq 1 .. (at' - 1) BY <1>4, <1>5, <1>6
  <2> QED BY <1>1, <1>2, <2>1 DEF WalkTyped
<1>p. Passed'
  <2>1. ASSUME NEW i \in refused'
        PROVE  /\ i \notin rewritten' /\ i \notin OnPath
               /\ \A j \in rewritten' : i \notin In(j)
               /\ {o.name : o \in M!Entries(i)} \subseteq preserved'
    <3>1. CASE i \in refused BY <1>1, <1>4, <3>1 DEF Passed
    <3>2. CASE i \notin refused
      <4>1. i = at /\ rewritten' = rewritten /\ preserved' = preserved \cup {o.name : o \in M!Entries(at)}
        BY <2>1, <3>2
      <4>2. ASSUME NEW j \in rewritten PROVE at \notin In(j)
        <5>1. j \in M!Nodes /\ j < at
          <6>1. j \in 1 .. (at - 1) BY <1>5
          <6> QED BY <6>1, <1>1, <1>3
        <5> QED BY <5>1, <1>3, AboveNests
      <4> QED BY <4>1, <4>2, <1>1
    <3> QED BY <3>1, <3>2
  <2>2. \A i \in OnPath : i \in rewritten' => M!Kind(i) # "cold"
    BY <1>1, <1>4 DEF Passed
  <2> QED BY <2>1, <2>2, <1>2, FileKept DEF Passed
<1>m. Met'
  <2>1. ASSUME NEW i \in 1 .. (at' - 1) PROVE i \in 1 .. (at - 1) \/ Missed(i)' \/ MetAt(i)'
    <3>1. i \in 1 .. (at - 1) \/ i = at \/ i \in (at + 1) .. (at' - 1)
      <4> DEFINE t == at'
      <4> HIDE DEF t
      <4>1. t \in 1 .. (Len(file.what) + 1) /\ i \in 1 .. (t - 1) BY <1>2, <2>1 DEF t
      <4>2. i \in 1 .. (at - 1) \/ i = at \/ i \in (at + 1) .. (t - 1) BY <4>1, <1>3
      <4> QED BY <4>2 DEF t
    <3>2. CASE i = at BY <3>2
    <3>3. CASE i \in (at + 1) .. (at' - 1)
      <4>1. i \in M!Nodes /\ at \in In(i) BY <1>2, <3>3
      <4>2. kind \notin {"flush", "scheduler", "import"} BY <4>1, <1>1, NothingInLeaves
      <4>3. at \in refused' \/ (at \in rewritten' /\ M!Kind(at) = "cold") BY <4>2, <1>1
      <4>4. Missed(i)' BY <4>1, <4>3, FileKept DEF Missed
      <4> QED BY <4>4
    <3> QED BY <3>1, <3>2, <3>3
  <2> QED BY <2>1, <1>4, MetStays
<1>r. Rewritings'
  <2>1. ASSUME NEW i \in rewritten', M!Kind(i) = "pipe"
        PROVE  {Symbol[l] : l \in M!Named(i)} \subseteq imports'
    BY <1>1, <2>1 DEF Rewritings
  <2>2. converted' \subseteq Locals \ M!Unsafe BY DEF Rewritings
  <2> QED BY <1>1, <2>1, <2>2, FileKept DEF Rewritings
<1>v. Removals' BY <1>1, <1>4, RemovalsStay
<1>a. AsyncOrOpen'
  <2>1. ASSUME NEW i \in rewritten', M!Kind(i) \in {"run", "flush"}
        PROVE  M!FunctionOf(i) \subseteq async \cup OnPath
    <3>1. CASE i \in rewritten BY <2>1, <3>1 DEF AsyncOrOpen
    <3>2. CASE i = at
      <4>1. M!FunctionOf(at) \subseteq OnPath BY <1>1 DEF M!FunctionOf, In
      <4> QED BY <3>2, <4>1
    <3> QED BY <2>1, <3>1, <3>2, <1>4
  <2>2. file' = file OBVIOUS
  <2>3. \A i : M!FunctionOf(i)' = M!FunctionOf(i) BY <2>2, FileKept
  <2>4. \A i : M!Kind(i)' = M!Kind(i) BY <2>2, FileKept
  <2> QED BY <2>1, <2>3, <2>4, <1>2 DEF AsyncOrOpen
<1>i. InsideKnown' BY InsideSkips
<1> QED BY <1>f, <1>w, <1>2, <1>p, <1>m, <1>r, <1>v, <1>a, <1>i

(* What SemanticInv says is what the run checks.                            *)
LEMMA SemanticWhole ==
  ASSUME SemanticInv, "TestScheduler" \notin Locals
  PROVE  M!AllOrNothing
<1> USE DEF SemanticInv
<1>1. M!Nodes = 1 .. Len(file.what) /\ Len(file.what) \in Nat /\ at \in 1 .. (Len(file.what) + 1)
  BY AboveIs DEF WalkTyped
<1>2. ASSUME status \in {"refused", "changed", "unchanged"}
      PROVE  /\ OnPath = {} /\ \A i \in M!Nodes : i \in 1 .. (at - 1)
             /\ M!Needed \subseteq imports
  <2>1. path = <<>> /\ at \notin M!Nodes BY <1>2 DEF WalkTyped
  <2>2. OnPath = {} BY <2>1, PathIs
  <2>3. \A i \in M!Nodes : i \in 1 .. (at - 1) BY <2>1, <1>1
  <2> QED BY <2>2, <2>3, <1>2 DEF Rewritings
<1>3. M!Complete
  <2> SUFFICES ASSUME status \in {"changed", "unchanged"}, NEW i \in M!Nodes, ~M!Unvisited(i)
               PROVE  /\ M!Kind(i) \in {"pipe", "run", "scheduler"} => i \in rewritten
                      /\ M!Kind(i) = "pipe" => {Symbol[l] : l \in M!Named(i)} \subseteq imports
                      /\ M!Kind(i) = "run" => "rxTest" \in imports
                      /\ M!Kind(i) \in {"flush"} \cup (IF file.mode = "platform" THEN {"cold"} ELSE {}) =>
                           (M!InRun(i) /\ ~M!AfterARun(i) => i \in rewritten)
                      /\ i \in rewritten /\ M!Kind(i) \in {"run", "flush"} =>
                           M!FunctionOf(i) \subseteq async
    BY DEF M!Complete, M!Accepted
  <2>1. refused = {} BY DEF Rewritings
  <2>2. ~Missed(i) BY <2>1 DEF Missed, M!Unvisited, In
  <2>3. MetAt(i) BY <1>2, <2>2 DEF Met
  <2>4. M!Kind(i) \in {"pipe", "run", "scheduler"} => i \in rewritten BY <2>1, <2>3 DEF MetAt
  <2>5. M!Kind(i) = "pipe" => {Symbol[l] : l \in M!Named(i)} \subseteq imports
    BY <2>4 DEF Rewritings
  <2>6. M!Kind(i) = "run" => "rxTest" \in imports BY <1>2, <2>4 DEF M!Needed
  <2>7. i \in rewritten /\ M!Kind(i) \in {"run", "flush"} => M!FunctionOf(i) \subseteq async
    BY <1>2 DEF AsyncOrOpen
  <2> QED BY <2>3, <2>4, <2>5, <2>6, <2>7 DEF MetAt
<1>4. M!ImportsKept
  <2>1. removed \subseteq converted \cup {"TestScheduler"} /\ converted \subseteq Locals \ M!Unsafe
    BY DEF WalkTyped, Removals, Rewritings, M!Unneeded
  <2>2. file.used \subseteq Locals /\ file.used \subseteq M!Unsafe BY DEF FileTyped, M!Unsafe
  <2>3. removed \cap file.used = {} BY <2>1, <2>2
  <2>4. ASSUME NEW i \in M!Nodes \ rewritten, M!Kind(i) = "pipe", NEW n \in M!Named(i) \cap removed,
               n \notin M!ImportedLate
        PROVE  n \in IF i \in refused THEN {o.name : o \in {p \in M!Ops(i) : p.fit # "fine"}}
                     ELSE IF \E j \in M!Above[i] : j \in refused \/ M!Unvisited(i) THEN Locals ELSE {}
    <3>1. n \in Locals /\ n \in converted /\ n \notin M!Unsafe BY <2>1 DEF M!Named
    <3>2. status \in {"refused", "changed", "unchanged"} BY <2>4 DEF WalkTyped, Removals
    <3>3. n \in M!Unneeded BY <2>4, <3>2 DEF Removals
    <3>4. n \notin preserved BY <3>1, <3>3 DEF M!Unneeded
    <3>5. CASE i \in refused
      <4>1. PICK o \in M!Ops(i) : n = o.name BY DEF M!Named
      <4>2. o.fit # "fine"
        <5> SUFFICES ASSUME o.fit = "fine" PROVE FALSE OBVIOUS
        <5>1. o \in M!Entries(i) BY <3>1, <4>1 DEF M!Entries
        <5>2. n \in preserved BY <5>1, <4>1, <3>5 DEF Passed
        <5> QED BY <5>2, <3>4
      <4> QED BY <3>5, <4>1, <4>2
    <3>6. CASE i \notin refused
      <4>1. Missed(i)
        <5>1. Missed(i) \/ MetAt(i) BY <1>2, <3>2 DEF Met
        <5> QED BY <5>1, <2>4, <3>6 DEF MetAt
      <4>2. \E j \in M!Above[i] : j \in refused \/ M!Unvisited(i)
        BY <4>1 DEF Missed, M!Unvisited, In
      <4> QED BY <3>1, <3>6, <4>2
    <3> QED BY <3>5, <3>6
  <2> QED BY <2>3, <2>4 DEF M!ImportsKept
<1>5. M!PipelinesWhole
  <2>1. \A i \in refused : i \notin rewritten /\ \A j \in rewritten : i \notin M!Above[j]
    BY DEF Passed, In
  <2>2. status = "file refused" => rewritten = {} /\ removed = {} /\ imports = {}
    BY DEF WalkTyped
  <2> QED BY <2>1, <2>2 DEF M!PipelinesWhole
<1> QED BY <1>3, <1>4, <1>5 DEF M!AllOrNothing

(* The files that there are, those with all in a run included.              *)
LEMMA FilesAre ==
  ASSUME Size \in Nat, NEW f \in M!Files(Size) \cup M!InARun, file.what = f.what,
         file.parents = f.parents, file.used \subseteq Locals
  PROVE  FileTyped
<1> DEFINE Fit(g, n) ==
             /\ g.what \in Seq(M!Contents) /\ Len(g.what) = n /\ DOMAIN g.what = 1 .. n
             /\ \A i \in 1 .. n :
                  /\ g.parents[i] \in 0 .. (i - 1)
                  /\ \A j \in (g.parents[i] + 1) .. (i - 1) : g.parents[j] >= g.parents[i]
                  /\ g.parents[i] # 0 =>
                       g.what[g.parents[i]].kind \notin {"flush", "scheduler", "mixed", "import"}
<1>1. ASSUME NEW g \in M!Files(Size) PROVE Fit(g, Size)
  <2>1. /\ g.what \in [1 .. Size -> M!Contents]
        /\ g.parents \in {ps \in [1 .. Size -> 0 .. (Size - 1)] : M!InOrder(ps)}
        /\ \A i \in 1 .. Size : g.parents[i] # 0 =>
             g.what[g.parents[i]].kind \notin {"flush", "scheduler", "mixed", "import"}
    BY DEF M!Files
  <2>2. g.what \in Seq(M!Contents) /\ Len(g.what) = Size BY <2>1, ListIs
  <2>3. DOMAIN g.what = 1 .. Size /\ DOMAIN g.parents = 1 .. Size BY <2>1
  <2>4. \A i \in 1 .. Size :
          /\ g.parents[i] < i
          /\ \A j \in (g.parents[i] + 1) .. (i - 1) : g.parents[j] >= g.parents[i]
    BY <2>1, <2>3 DEF M!InOrder
  <2>5. \A i \in 1 .. Size : g.parents[i] \in 0 .. (i - 1)
    <3>1. \A i \in 1 .. Size : g.parents[i] \in 0 .. (Size - 1) BY <2>1
    <3> QED BY <3>1, <2>4
  <2> QED BY <2>1, <2>2, <2>3, <2>4, <2>5
<1>2. ASSUME f \in M!InARun PROVE Fit(f, Size + 1)
  <2> DEFINE run == [kind |-> "run", ops |-> <<>>]
  <2>1. PICK g \in M!Files(Size) :
          f = [what |-> <<run>> \o g.what,
               parents |-> <<0>> \o [i \in 1 .. Size |-> g.parents[i] + 1]]
    BY <1>2 DEF M!InARun
  <2> DEFINE up == [i \in 1 .. Size |-> g.parents[i] + 1]
  <2>2. Fit(g, Size) BY <1>1
  <2>3. run \in M!Contents BY DEF M!Contents, M!Others
  <2> HIDE DEF run
  <2>4. <<run>> \in Seq(M!Contents) /\ Len(<<run>>) = 1 /\ <<run>>[1] = run BY <2>3, JustOne
  <2>5. /\ f.what \in Seq(M!Contents) /\ Len(f.what) = Size + 1 /\ f.what[1] = run
        /\ \A i \in 1 .. Size : f.what[i + 1] = g.what[i]
    <3> DEFINE q == <<run>>
               r == g.what
    <3>1. q \in Seq(M!Contents) /\ r \in Seq(M!Contents) /\ Len(q) = 1 /\ Len(r) = Size /\ q[1] = run
      BY <2>2, <2>4
    <3>2. f.what = q \o r BY <2>1
    <3> HIDE DEF q, r
    <3>0. q \in Seq(M!Contents) /\ r \in Seq(M!Contents) BY <3>1
    <3>3. /\ q \o r \in Seq(M!Contents) /\ Len(q \o r) = Len(q) + Len(r)
          /\ \A i \in 1 .. Len(q) : (q \o r)[i] = q[i]
          /\ \A i \in 1 .. Len(r) : (q \o r)[Len(q) + i] = r[i]
      BY <3>0, ConcatIs
    <3>4. f.what[1] = run BY <3>1, <3>2, <3>3
    <3>5. Len(f.what) = Size + 1 BY <3>1, <3>2, <3>3
    <3>6. \A i \in 1 .. Size : f.what[i + 1] = r[i]
      <4>1. \A i \in 1 .. Size : 1 + i = i + 1 OBVIOUS
      <4> QED BY <4>1, <3>1, <3>2, <3>3
    <3> QED BY <3>2, <3>3, <3>4, <3>5, <3>6 DEF r
  <2>6. up \in Seq(Nat) /\ Len(up) = Size /\ \A i \in 1 .. Size : up[i] = g.parents[i] + 1
    <3>1. up \in [1 .. Size -> Nat] BY <2>2
    <3> QED BY <3>1
  <2>7. /\ f.parents[1] = 0
        /\ \A i \in 1 .. Size : f.parents[i + 1] = g.parents[i] + 1
    <3> DEFINE q == <<0>>
    <3>1. q \in Seq(Nat) /\ Len(q) = 1 /\ q[1] = 0 BY JustOne
    <3>2. f.parents = q \o up BY <2>1
    <3> HIDE DEF q, up
    <3>0. q \in Seq(Nat) /\ up \in Seq(Nat) BY <3>1, <2>6
    <3>3. /\ \A i \in 1 .. Len(q) : (q \o up)[i] = q[i]
          /\ \A i \in 1 .. Len(up) : (q \o up)[Len(q) + i] = up[i]
      BY <3>0, ConcatIs
    <3>4. f.parents[1] = 0
      <4>1. 1 \in 1 .. Len(q) BY <3>1
      <4> QED BY <4>1, <3>1, <3>2, <3>3
    <3>5. \A i \in 1 .. Size : 1 + i = i + 1 OBVIOUS
    <3>6. \A i \in 1 .. Size : f.parents[i + 1] = up[i]
      <4>1. Len(up) = Size /\ Len(q) = 1 BY <3>1, <2>6
      <4> QED BY <4>1, <3>2, <3>3, <3>5
    <3> QED BY <3>4, <3>6, <2>6
  <2> HIDE DEF up
  <2>8. ASSUME NEW k \in 1 .. (Size + 1)
        PROVE  /\ f.parents[k] \in 0 .. (k - 1)
               /\ \A j \in (f.parents[k] + 1) .. (k - 1) : f.parents[j] >= f.parents[k]
               /\ f.parents[k] # 0 =>
                    f.what[f.parents[k]].kind \notin {"flush", "scheduler", "mixed", "import"}
    <3>1. CASE k = 1
      <4>1. f.parents[k] = 0 BY <3>1, <2>7
      <4>2. (f.parents[k] + 1) .. (k - 1) = {} BY <4>1, <3>1
      <4> QED BY <4>1, <4>2, <3>1
    <3>2. CASE k # 1
      <4> DEFINE i == k - 1
      <4>1. i \in 1 .. Size /\ k = i + 1 BY <3>2
      <4>2. f.parents[k] = g.parents[i] + 1 BY <4>1, <2>7
      <4>3. g.parents[i] \in 0 .. (i - 1) BY <4>1, <2>2
      <4>4. f.parents[k] \in 0 .. (k - 1) BY <4>1, <4>2, <4>3
      <4>5. ASSUME NEW j \in (f.parents[k] + 1) .. (k - 1) PROVE f.parents[j] >= f.parents[k]
        <5> DEFINE m == j - 1
        <5>1. m \in (g.parents[i] + 1) .. (i - 1) /\ m \in 1 .. Size /\ j = m + 1
          BY <4>1, <4>2, <4>3
        <5>2. f.parents[j] = g.parents[m] + 1 BY <5>1, <2>7
        <5>3. g.parents[m] >= g.parents[i] BY <5>1, <4>1, <2>2
        <5>4. g.parents[m] \in 0 .. (m - 1) BY <5>1, <2>2
        <5> QED BY <5>2, <5>3, <5>4, <4>2, <4>3
      <4>6. f.what[f.parents[k]].kind \notin {"flush", "scheduler", "mixed", "import"}
        <5>1. CASE g.parents[i] = 0
          <6>1. f.parents[k] = 1 BY <5>1, <4>2
          <6>2. run.kind = "run" BY DEF run
          <6> QED BY <6>1, <6>2, <2>5
        <5>2. CASE g.parents[i] # 0
          <6>1. g.parents[i] \in 1 .. Size BY <5>2, <4>1, <4>3
          <6>2. f.what[f.parents[k]] = g.what[g.parents[i]] BY <6>1, <4>2, <2>5
          <6> QED BY <6>2, <5>2, <4>1, <2>2
        <5> QED BY <5>1, <5>2
      <4> QED BY <4>4, <4>5, <4>6
    <3> QED BY <3>1, <3>2
  <2>9. DOMAIN f.what = 1 .. (Size + 1) BY <2>5
  <2> HIDE DEF Fit
  <2> QED BY <2>5, <2>8, <2>9 DEF Fit
<1>3. PICK n \in Nat : Fit(f, n)
  <2>1. Size + 1 \in Nat OBVIOUS
  <2> HIDE DEF Fit
  <2> QED BY <1>1, <1>2, <2>1
<1> QED BY <1>3 DEF FileTyped, M!Nodes, M!Kind

(* Before the walk.                                                         *)
LEMMA SemanticInit ==
  ASSUME Size \in Nat, M!Init
  PROVE  SemanticInv
<1>1. PICK f \in M!Files(Size) \cup M!InARun, used \in SUBSET Locals,
           mode \in {"none", "cold", "platform"} :
        file = [what |-> f.what, parents |-> f.parents, used |-> used, mode |-> mode]
  BY DEF M!Init
<1>2. /\ at = 1 /\ path = <<>> /\ inside = FALSE /\ rewritten = {} /\ refused = {} /\ async = {}
      /\ converted = {} /\ preserved = {} /\ imports = {} /\ removed = {} /\ status = "screening"
  BY DEF M!Init
<1>3. FileTyped
  <2>1. file.what = f.what /\ file.parents = f.parents /\ file.used \subseteq Locals BY <1>1
  <2> QED BY <2>1, FilesAre
<1>4. Len(file.what) \in Nat /\ M!Nodes = 1 .. Len(file.what) BY <1>3, AboveIs
<1>5. path \in Seq(Nat) /\ Len(path) = 0 /\ OnPath = {}
  <2>1. path \in Seq(Nat) /\ Len(path) = 0 BY <1>2, EmptyIs
  <2> QED BY <2>1 DEF OnPath
<1>6. WalkTyped
  <2>1. at \in 1 .. (Len(file.what) + 1) /\ rewritten \cup refused \subseteq 1 .. (at - 1)
    BY <1>2, <1>4
  <2> QED BY <1>2, <1>5, <2>1 DEF WalkTyped
<1>7. at \in M!Nodes => In(at) = {}
  <2>1. at \in M!Nodes => \A a \in In(at) : a < at /\ a \in M!Nodes BY <1>3, AboveNests
  <2> QED BY <2>1, <1>2, <1>4
<1>8. PathInOrder BY <1>5, <1>7 DEF PathInOrder
<1>9. 1 .. (at - 1) = {} BY <1>2
<1> QED BY <1>2, <1>3, <1>5, <1>6, <1>8, <1>9
  DEF SemanticInv, Passed, Met, Rewritings, Removals, AsyncOrOpen, InsideKnown

(* Every step of the migration keeps what SemanticInv says.                 *)
LEMMA SemanticStep ==
  ASSUME SemanticInv, [M!Next]_(M!vars)
  PROVE  SemanticInv'
<1> USE DEF SemanticInv
<1>1. CASE M!Screen
  <2>1. /\ status = "screening" /\ status' \in {"file refused", "walking"}
        /\ UNCHANGED <<file, at, path, inside, rewritten, refused, async, converted, preserved,
                       imports, removed>>
    BY <1>1 DEF M!Screen, M!walk
  <2>2. file' = file /\ OnPath' = OnPath BY <2>1 DEF OnPath
  <2>3. FileTyped' /\ PathInOrder' /\ Passed'
    <3>1. FileTyped' BY <2>2, FileKept DEF FileTyped
    <3>2. PathInOrder' BY <2>1, <2>2, FileKept DEF PathInOrder
    <3>3. Passed' BY <2>1, <2>2, FileKept DEF Passed
    <3> QED BY <3>1, <3>2, <3>3
  <2>4. WalkTyped' BY <2>1, <2>2, FileKept DEF WalkTyped
  <2>5. Met' BY <2>1, MetStays
  <2>6. Rewritings' /\ AsyncOrOpen' BY <2>1, <2>2, FileKept DEF Rewritings, AsyncOrOpen
  <2>7. InsideKnown' BY <2>1, <2>2, FileKept DEF InsideKnown, Innermost, RunWithin
  <2>8. Removals' BY <2>1 DEF Removals, WalkTyped
  <2> QED BY <2>3, <2>4, <2>5, <2>6, <2>7, <2>8
<1>2. CASE M!Run
  <2>1. M!Comes("run") /\ M!Descend /\ rewritten' = rewritten \cup {at} /\ inside' = TRUE
        /\ UNCHANGED <<file, refused, async, converted, preserved, imports, removed, status>>
    BY <1>2 DEF M!Run
  <2>2. converted' \subseteq Locals \ M!Unsafe BY <2>1 DEF Rewritings
  <2> QED BY <2>1, <2>2, SemanticDescends
<1>3. CASE M!Drop
  <2>1. M!Comes("scheduler") /\ M!Skip /\ rewritten' = rewritten \cup {at}
        /\ UNCHANGED <<file, inside, refused, async, converted, preserved, imports, removed, status>>
    BY <1>3 DEF M!Drop
  <2>2. M!Kind(at) = "scheduler" BY <2>1 DEF M!Comes
  <2>3. \A i : i = at => MetAt(i)' BY <2>1, <2>2, FileKept DEF MetAt
  <2> QED BY <2>1, <2>3, SemanticSkips
<1>4. CASE M!Call
  <2>1. PICK kind \in {"cold", "flush"} : M!Comes(kind) BY <1>4 DEF M!Call
  <2>2. UNCHANGED <<file, inside, refused, async, converted, preserved, imports, removed, status>>
    BY <1>4 DEF M!Call
  <2>3. M!Kind(at) = kind BY <2>1 DEF M!Comes
  <2>4. CASE M!Rewritable
    <3>1. rewritten' = rewritten \cup {at} /\ M!Skip BY <1>4, <2>4 DEF M!Call
    <3>2. \A i : i = at => MetAt(i)' BY <2>2, <2>3, <3>1, FileKept DEF MetAt
    <3> QED BY <2>1, <2>2, <3>1, <3>2, SemanticSkips
  <2>5. CASE ~M!Rewritable
    <3>1. M!Descend /\ rewritten' = rewritten BY <1>4, <2>5 DEF M!Call
    <3>2. ASSUME M!Kind(at) \in {"flush"} \cup (IF file.mode = "platform" THEN {"cold"} ELSE {}),
                 M!InRun(at), ~M!AfterARun(at)
          PROVE  FALSE
      <4>1. inside = TRUE BY <2>1, <3>2, KnowsInside
      <4> QED BY <4>1, <3>2, <2>5 DEF M!Rewritable
    <3>3. \A i : i = at => MetAt(i)' BY <2>2, <2>3, <3>2, FileKept DEF MetAt
    <3> QED BY <2>1, <2>2, <3>1, <3>3, SemanticDescends
  <2> QED BY <2>4, <2>5
<1>5. CASE M!Function
  <2>1. M!Comes("function") /\ M!Descend
        /\ UNCHANGED <<file, inside, rewritten, refused, async, converted, preserved, imports,
                       removed, status>>
    BY <1>5 DEF M!Function
  <2>2. M!Kind(at) = "function" BY <2>1 DEF M!Comes
  <2>3. \A i : i = at => MetAt(i)' BY <2>1, <2>2, FileKept DEF MetAt
  <2> QED BY <2>1, <2>3, SemanticDescends
<1>6. CASE M!Pipe
  <2>1. M!Comes("pipe") /\ UNCHANGED <<file, inside, async, removed, status>>
    BY <1>6 DEF M!Pipe
  <2>2. M!Kind(at) = "pipe" BY <2>1 DEF M!Comes
  <2>3. CASE M!Ops(at) = M!Entries(at)
    <3>1. /\ rewritten' = rewritten \cup {at} /\ converted' = converted \cup M!Named(at)
          /\ imports' = imports \cup {Symbol[l] : l \in M!Named(at)} /\ M!Descend
          /\ UNCHANGED <<refused, preserved>>
      BY <1>6, <2>3 DEF M!Pipe
    <3>2. M!Named(at) \subseteq Locals \ M!Unsafe BY <2>3 DEF M!Named, M!Entries
    <3>3. converted' \subseteq Locals \ M!Unsafe BY <3>1, <3>2 DEF Rewritings
    <3>4. \A l \in converted' \ converted : l \in M!Named(at) BY <3>1
    <3> QED BY <2>1, <3>1, <3>3, <3>4, SemanticDescends
  <2>4. CASE M!Ops(at) # M!Entries(at)
    <3>1. /\ refused' = refused \cup {at} /\ M!Skip
          /\ preserved' = preserved \cup {o.name : o \in M!Entries(at)}
          /\ UNCHANGED <<rewritten, converted, imports>>
      BY <1>6, <2>4 DEF M!Pipe
    <3>2. \A i : i = at => MetAt(i)' BY <2>1, <2>2, <3>1, FileKept DEF MetAt
    <3> QED BY <2>1, <3>1, <3>2, SemanticSkips
  <2> QED BY <2>3, <2>4
<1>7. CASE M!Leave
  <2> DEFINE w == M!Within
  <2>1. /\ status = "walking"
        /\ async' = IF M!IsFunction(w) /\ M!Awaits(w) THEN async \cup {w} ELSE async
        /\ inside' = (inside /\ M!Kind(w) # "run")
        /\ UNCHANGED <<file, at, rewritten, refused, converted, preserved, imports, removed, status>>
    BY <1>7 DEF M!Leave
  <2>2. /\ w \in OnPath /\ OnPath' = OnPath \ {w} /\ path' \in Seq(Nat) /\ PathInOrder'
    BY <1>7, Leaves
  <2>3. FileTyped' BY <2>1, FileKept DEF FileTyped
  <2>4. WalkTyped' BY <2>1, <2>2 DEF WalkTyped
  <2>5. Passed' BY <2>1, <2>2, FileKept DEF Passed
  <2>6. Met' BY <2>1, MetStays
  <2>7. Rewritings' BY <2>1, FileKept DEF Rewritings
  <2>8. AsyncOrOpen'
    <3>1. ASSUME NEW i \in rewritten, M!Kind(i) \in {"run", "flush"}
          PROVE  M!FunctionOf(i) \subseteq async' \cup OnPath'
      <4>1. M!FunctionOf(i) \subseteq async \cup OnPath BY <3>1 DEF AsyncOrOpen
      <4>2. w \in M!FunctionOf(i) => M!IsFunction(w) /\ M!Awaits(w)
        BY <3>1 DEF M!FunctionOf, M!Awaits
      <4> QED BY <4>1, <4>2, <2>1, <2>2
    <3>2. \A i : M!FunctionOf(i)' = M!FunctionOf(i) BY <2>1, FileKept
    <3>3. \A i : M!Kind(i)' = M!Kind(i) BY <2>1, FileKept
    <3> QED BY <3>1, <3>2, <3>3, <2>1 DEF AsyncOrOpen
  <2>9. InsideKnown' BY <1>7, InsideLeaves
  <2>10. Removals'
    <3>1. M!ImportedLate \subseteq M!ImportedLate' BY <2>1, LateStays
    <3>2. \A i : M!Kind(i)' = M!Kind(i) /\ M!Named(i)' = M!Named(i) BY <2>1, FileKept
    <3>3. \A l \in converted' : \E j \in rewritten' : M!Kind(j)' = "pipe" /\ l \in M!Named(j)'
      BY <2>1, <3>2 DEF Removals
    <3>4. removed' \subseteq converted' \cap M!ImportedLate' BY <2>1, <3>1 DEF Removals
    <3> QED BY <2>1, <3>3, <3>4 DEF Removals
  <2> QED BY <2>2, <2>3, <2>4, <2>5, <2>6, <2>7, <2>8, <2>9, <2>10
<1>8. CASE M!Finish
  <2>1. /\ status = "walking" /\ path = <<>> /\ at \notin M!Nodes
        /\ removed' = removed \cup M!Unneeded /\ imports' = imports \cup M!Needed
        /\ status' \in {"refused", "changed", "unchanged"}
        /\ status' \in {"changed", "unchanged"} => refused = {}
        /\ UNCHANGED <<file, at, path, inside, rewritten, refused, async, converted, preserved>>
    BY <1>8 DEF M!Finish
  <2>2. file' = file /\ OnPath' = OnPath BY <2>1 DEF OnPath
  <2>3. FileTyped' /\ PathInOrder' /\ Passed'
    <3>1. FileTyped' BY <2>2, FileKept DEF FileTyped
    <3>2. PathInOrder' BY <2>1, <2>2, FileKept DEF PathInOrder
    <3>3. Passed' BY <2>1, <2>2, FileKept DEF Passed
    <3> QED BY <3>1, <3>2, <3>3
  <2>4. WalkTyped' BY <2>1, <2>2, FileKept DEF WalkTyped
  <2>5. Met' BY <2>1, MetStays
  <2>6. M!Needed' = M!Needed /\ M!Unneeded' = M!Unneeded
    BY <2>1, <2>2, FileKept DEF M!Needed, M!Unneeded
  <2>7. Rewritings' BY <2>1, <2>2, <2>6, FileKept DEF Rewritings
  <2>8. AsyncOrOpen' BY <2>1, <2>2, FileKept DEF AsyncOrOpen
  <2>9. InsideKnown' BY <2>1, <2>2, FileKept DEF InsideKnown, Innermost, RunWithin
  <2>10. Removals'
    <3>1. M!ImportedLate \subseteq M!ImportedLate' BY <2>1, LateStays
    <3>2. \A i : M!Kind(i)' = M!Kind(i) /\ M!Named(i)' = M!Named(i) BY <2>2, FileKept
    <3>3. \A l \in converted' : \E j \in rewritten' : M!Kind(j)' = "pipe" /\ l \in M!Named(j)'
      BY <2>1, <3>2 DEF Removals
    <3>4. removed \subseteq converted \cap M!ImportedLate BY <2>1 DEF Removals
    <3>5. /\ M!Unneeded' \subseteq removed'
          /\ removed' \subseteq M!Unneeded' \cup (converted' \cap M!ImportedLate')
      BY <2>1, <2>6, <3>1, <3>4
    <3>6. status' # "walking" BY <2>1
    <3> QED BY <3>3, <3>5, <3>6 DEF Removals
  <2> QED BY <2>3, <2>4, <2>5, <2>7, <2>8, <2>9, <2>10
<1>9. CASE M!Import
  <2>1. /\ M!Comes("import") /\ M!Skip /\ removed' = removed \cup (M!Named(at) \cap converted)
        /\ UNCHANGED <<file, inside, rewritten, refused, async, converted, preserved, imports, status>>
    BY <1>9 DEF M!Import
  <2>2. M!Kind(at) = "import" BY <2>1 DEF M!Comes
  <2>3. \A i : i = at => MetAt(i)' BY <2>1, <2>2, FileKept DEF MetAt
  <2>4. \A l \in removed' \ removed : l \in M!Named(at) \cap converted BY <2>1
  <2> QED BY <2>1, <2>3, <2>4, SemanticSkips
<1>10. CASE UNCHANGED M!vars
  <2>1. UNCHANGED <<file, at, path, inside, rewritten, refused, async, converted, preserved, imports,
                    removed, status>>
    BY <1>10 DEF M!vars
  <2>2. file' = file /\ OnPath' = OnPath BY <2>1 DEF OnPath
  <2>3. FileTyped' /\ PathInOrder' /\ Passed'
    <3>1. FileTyped' BY <2>2, FileKept DEF FileTyped
    <3>2. PathInOrder' BY <2>1, <2>2, FileKept DEF PathInOrder
    <3>3. Passed' BY <2>1, <2>2, FileKept DEF Passed
    <3> QED BY <3>1, <3>2, <3>3
  <2>4. WalkTyped' BY <2>1, <2>2, FileKept DEF WalkTyped
  <2>5. Met' BY <2>1, MetStays
  <2>6. M!Needed' = M!Needed /\ M!Unneeded' = M!Unneeded
    BY <2>1, <2>2, FileKept DEF M!Needed, M!Unneeded
  <2>7. Rewritings' BY <2>1, <2>2, <2>6, FileKept DEF Rewritings
  <2>8. AsyncOrOpen' BY <2>1, <2>2, FileKept DEF AsyncOrOpen
  <2>9. InsideKnown' BY <2>1, <2>2, FileKept DEF InsideKnown, Innermost, RunWithin
  <2>10. Removals'
    <3>1. M!ImportedLate \subseteq M!ImportedLate' BY <2>1, LateStays
    <3>2. \A i : M!Kind(i)' = M!Kind(i) /\ M!Named(i)' = M!Named(i) BY <2>2, FileKept
    <3>3. \A l \in converted' : \E j \in rewritten' : M!Kind(j)' = "pipe" /\ l \in M!Named(j)'
      BY <2>1, <3>2 DEF Removals
    <3>4. /\ removed' = removed /\ converted' = converted /\ status' = status
          /\ M!Unneeded' = M!Unneeded
      BY <2>1, <2>6
    <3> QED BY <3>1, <3>3, <3>4 DEF Removals
  <2> QED BY <2>3, <2>4, <2>5, <2>7, <2>8, <2>9, <2>10
<1> QED BY <1>1, <1>2, <1>3, <1>4, <1>5, <1>6, <1>7, <1>8, <1>9, <1>10 DEF M!Next

-----------------------------------------------------------------------------
(* SearchClient.                                                            *)

LoadCall(id) == [id |-> id, type |-> "load", query |-> 0]

Query == [id : Nat \ {0}, type : {"query"}, query : 1 .. MaxSearches]

NothingSent == calls = <<>> /\ answers = <<>>

(* Until the index is ready there is one message, wherever it is; from then *)
(* on there are queries only.                                               *)
Stages ==
  /\ ready \in {"waiting", "loading", "ready", "failed"}
  /\ workers = (IF ready = "waiting" THEN 0 ELSE 1)
  /\ nextId \in Nat \ {0}
  /\ ready = "waiting" => NothingSent /\ fetching = 0
  /\ ready = "loading" =>
       \/ calls = <<LoadCall(loadId)>> /\ answers = <<>> /\ fetching = 0
       \/ calls = <<>> /\ answers = <<>> /\ fetching \in {0, loadId}
       \/ /\ calls = <<>> /\ fetching = 0
          /\ answers \in {<<LoadCall(loadId)>>, <<[id |-> 0, type |-> "error", query |-> 0]>>}
  /\ ready = "ready" => fetching = 0 /\ calls \in Seq(Query) /\ answers \in Seq(Query)
  /\ ready = "failed" => NothingSent /\ fetching = 0

(* A message that a client waits for asks what that client does.            *)
Means(q) ==
  \A i \in DOMAIN q :
    /\ q[i].id < nextId
    /\ \A c \in Clients : waits[c] = q[i].id /\ waits[c] # 0 => q[i].query = asked[c]

Asked ==
  /\ searches \in 0 .. MaxSearches
  /\ asked \in [Clients -> 0 .. MaxSearches] /\ waits \in [Clients -> Nat]
  /\ shows \in [Clients -> 0 .. (MaxSearches + 1)]
  /\ \A c \in Clients :
       /\ ready # "ready" => waits[c] = 0
       /\ waits[c] # 0 => waits[c] < nextId /\ asked[c] # 0
  /\ ready = "ready" => Means(calls) /\ Means(answers)

SearchInv == Stages /\ Asked /\ C!NothingStale /\ C!WaitsForSomething

(* Queries sent in one go have the ids that follow one another.             *)
LEMMA QueriesAre ==
  ASSUME NEW qs \in Seq(1 .. MaxSearches), nextId \in Nat \ {0}
  PROVE  /\ C!Queries(qs) \in Seq(Query) /\ Len(C!Queries(qs)) = Len(qs)
         /\ \A i \in 1 .. Len(qs) :
              C!Queries(qs)[i] = [id |-> nextId + i - 1, type |-> "query", query |-> qs[i]]
<1>1. /\ DOMAIN qs = 1 .. Len(qs) /\ Len(qs) \in Nat
      /\ \A i \in 1 .. Len(qs) : qs[i] \in 1 .. MaxSearches
  <2> DEFINE S == 1 .. MaxSearches
  <2>1. qs \in Seq(S) OBVIOUS
  <2> HIDE DEF S
  <2>2. DOMAIN qs = 1 .. Len(qs) /\ Len(qs) \in Nat /\ \A i \in 1 .. Len(qs) : qs[i] \in S BY <2>1
  <2> QED BY <2>2 DEF S
<1>2. \A i \in 1 .. Len(qs) :
        [id |-> nextId + i - 1, type |-> "query", query |-> qs[i]] \in Query
  <2> TAKE i \in 1 .. Len(qs)
  <2>1. nextId + i - 1 \in Nat \ {0} BY <1>1
  <2>2. qs[i] \in 1 .. MaxSearches BY <1>1
  <2> QED BY <2>1, <2>2 DEF Query
<1>3. C!Queries(qs) \in [1 .. Len(qs) -> Query] BY <1>1, <1>2 DEF C!Queries
<1> QED BY <1>1, <1>3 DEF C!Queries

(* The module counts as the library of theorems does.                       *)
LEMMA SearchCardinality == \A S : C!Cardinality(S) = Cardinality(S)
BY DEF C!Cardinality, Cardinality

(* Before the worker is started nothing was asked.                          *)
LEMMA SearchInit ==
  ASSUME MaxSearches \in Nat, C!Init
  PROVE  SearchInv
<1>1. calls = <<>> /\ answers = <<>> /\ DOMAIN calls = {} /\ DOMAIN answers = {}
  BY EmptyIs DEF C!Init
<1>2. Stages BY <1>1 DEF C!Init, Stages, NothingSent
<1>3. Asked BY DEF C!Init, Asked
<1>4. C!NothingStale BY DEF C!Init, C!NothingStale
<1>5. C!WaitsForSomething BY DEF C!Init, C!WaitsForSomething
<1> QED BY <1>2, <1>3, <1>4, <1>5 DEF SearchInv

(* Each message, timer and query keeps the invariant of the search.         *)
LEMMA SearchStep ==
  ASSUME MaxSearches \in Nat, SearchInv, [C!Next]_(C!vars)
  PROVE  SearchInv'
<1> USE DEF SearchInv
<1>e. /\ <<>> \in Seq(Query) /\ Len(<<>>) = 0 /\ DOMAIN <<>> = {}
      /\ \A x : <<x>> # <<>> /\ Head(<<x>>) = x /\ Tail(<<x>>) = <<>> /\ Append(<<>>, x) = <<x>>
  BY EmptyIs
<1>w. /\ nextId \in Nat \ {0} /\ searches \in 0 .. MaxSearches
      /\ asked \in [Clients -> 0 .. MaxSearches] /\ waits \in [Clients -> Nat]
      /\ shows \in [Clients -> 0 .. (MaxSearches + 1)]
  BY DEF Stages, Asked
<1>l. ASSUME C!Load, ready = "waiting"
      PROVE  Stages'
  <2>1. calls' = <<LoadCall(loadId')>> /\ answers' = <<>> /\ fetching' = 0 /\ nextId' \in Nat \ {0}
    BY <1>l, <1>e, <1>w DEF C!Load, Stages, NothingSent, LoadCall
  <2> QED BY <1>l, <2>1 DEF C!Load, Stages, NothingSent
<1>1. CASE C!DelayOver
  <2>1. Stages' BY <1>1, <1>l DEF C!DelayOver
  <2>2. ready = "waiting" /\ ready' = "loading" /\ UNCHANGED <<searches, asked, waits, shows>>
    BY <1>1 DEF C!DelayOver, C!Load
  <2>3. Asked' BY <2>2 DEF Asked
  <2>4. C!NothingStale' BY <2>1, <2>2 DEF C!NothingStale, Stages
  <2>5. C!WaitsForSomething' BY <2>2 DEF Asked, C!WaitsForSomething
  <2> QED BY <2>1, <2>3, <2>4, <2>5
<1>2. ASSUME NEW c \in Clients, C!Search(c) PROVE SearchInv'
  <2>1. /\ searches' \in 1 .. MaxSearches
        /\ asked' = [asked EXCEPT ![c] = searches']
        /\ shows' = [shows EXCEPT ![c] = IF ready = "failed" THEN C!Failure ELSE 0]
        /\ waits' = [waits EXCEPT ![c] = IF ready = "ready" THEN nextId ELSE 0]
        /\ asked' \in [Clients -> 0 .. MaxSearches] /\ waits' \in [Clients -> Nat]
        /\ shows' \in [Clients -> 0 .. (MaxSearches + 1)]
    BY <1>2, <1>w DEF C!Search, C!Failure
  <2>2. CASE ready = "waiting"
    <3>1. C!Load /\ ready' = "loading" BY <1>2, <2>2 DEF C!Search, C!Load
    <3>2. Stages' BY <3>1, <2>2, <1>l
    <3>3. Asked' BY <2>1, <2>2, <3>1 DEF Asked
    <3>4. C!NothingStale' BY <2>1, <2>2, <3>1, <3>2, <1>w DEF C!NothingStale, Stages
    <3>5. C!WaitsForSomething' BY <2>1, <2>2, <3>3, <3>1 DEF Asked, C!WaitsForSomething
    <3> QED BY <3>2, <3>3, <3>4, <3>5
  <2>3. CASE ready = "ready"
    <3>0. UNCHANGED <<ready, workers, loadId, fetching, answers>> /\ nextId' = nextId + 1
          /\ calls' = calls \o C!Queries(<<searches'>>)
      BY <1>2, <2>3 DEF C!Search
    <3>1. /\ C!Queries(<<searches'>>) \in Seq(Query) /\ Len(C!Queries(<<searches'>>)) = 1
          /\ C!Queries(<<searches'>>)[1] = [id |-> nextId, type |-> "query", query |-> searches']
      <4>1. <<searches'>> \in Seq(1 .. MaxSearches) /\ Len(<<searches'>>) = 1
            /\ <<searches'>>[1] = searches'
        BY <2>1, JustOne
      <4>2. nextId + 1 - 1 = nextId /\ 1 \in 1 .. 1 BY <1>w
      <4>3. /\ C!Queries(<<searches'>>) \in Seq(Query) /\ Len(C!Queries(<<searches'>>)) = 1
            /\ \A i \in 1 .. 1 : C!Queries(<<searches'>>)[i] =
                 [id |-> nextId + i - 1, type |-> "query", query |-> <<searches'>>[i]]
        BY <4>1, <1>w, QueriesAre
      <4> QED BY <4>1, <4>2, <4>3
    <3> DEFINE last == [id |-> nextId, type |-> "query", query |-> searches']
    <3>2. /\ calls \in Seq(Query) /\ calls' \in Seq(Query) /\ Len(calls') = Len(calls) + 1
          /\ \A i \in 1 .. Len(calls) : calls'[i] = calls[i]
          /\ calls'[Len(calls) + 1] = last
      <4>1. calls \in Seq(Query) /\ Len(calls) \in Nat BY <2>3 DEF Stages
      <4> HIDE DEF last
      <4>2. /\ calls' \in Seq(Query) /\ Len(calls') = Len(calls) + 1
            /\ \A i \in 1 .. Len(calls) : calls'[i] = calls[i]
            /\ calls'[Len(calls) + 1] = C!Queries(<<searches'>>)[1]
        <5>1. 1 \in 1 .. 1 OBVIOUS
        <5> QED BY <5>1, <4>1, <3>0, <3>1, ConcatIs
      <4> QED BY <4>1, <4>2, <3>1 DEF last
    <3>3. Stages' BY <2>3, <3>0, <3>2, <1>w DEF Stages
    <3>4. last.id = nextId /\ last.query = searches' OBVIOUS
    <3> HIDE DEF last
    <3>5. Means(calls)' /\ Means(answers)'
      <4>1. Means(calls) /\ Means(answers) BY <2>3 DEF Asked
      <4>2. ASSUME NEW i \in DOMAIN answers
            PROVE  /\ answers[i].id < nextId'
                   /\ \A d \in Clients : waits'[d] = answers[i].id /\ waits'[d] # 0 =>
                        answers[i].query = asked'[d]
        <5>1. answers[i].id < nextId /\ answers[i].id \in Nat
          <6>1. answers[i] \in Query BY <2>3 DEF Stages
          <6> QED BY <6>1, <4>1 DEF Means, Query
        <5> QED BY <5>1, <4>1, <2>1, <2>3, <3>0, <1>w DEF Means
      <4>3. ASSUME NEW i \in DOMAIN calls'
            PROVE  /\ calls'[i].id < nextId'
                   /\ \A d \in Clients : waits'[d] = calls'[i].id /\ waits'[d] # 0 =>
                        calls'[i].query = asked'[d]
        <5>1. CASE i \in 1 .. Len(calls)
          <6>1. calls[i].id < nextId /\ calls[i].id \in Nat /\ i \in DOMAIN calls
            <7>1. i \in DOMAIN calls /\ calls[i] \in Query BY <2>3, <5>1 DEF Stages
            <7> QED BY <7>1, <4>1 DEF Means, Query
          <6>2. calls'[i] = calls[i] /\ calls[i].id < nextId + 1
            BY <6>1, <5>1, <3>2, <1>w
          <6>3. \A d \in Clients : waits'[d] = calls[i].id /\ waits'[d] # 0 =>
                  calls[i].query = asked'[d]
            BY <6>1, <4>1, <2>1, <2>3, <3>0, <1>w DEF Means
          <6> QED BY <6>2, <6>3, <3>0
        <5>2. CASE i = Len(calls) + 1
          <6>1. calls'[i].id = nextId /\ calls'[i].query = searches' BY <5>2, <3>2, <3>4
          <6>2. \A d \in Clients : d # c /\ waits[d] # 0 => waits[d] < nextId
            BY DEF Asked
          <6> QED BY <6>1, <6>2, <2>1, <2>3, <3>0, <1>w
        <5> QED BY <5>1, <5>2, <3>2
      <4> QED BY <4>2, <4>3, <3>0 DEF Means
    <3>6. Asked'
      <4>1. \A d \in Clients : waits'[d] # 0 => waits'[d] < nextId' /\ asked'[d] # 0
        BY <2>1, <2>3, <3>0, <1>w DEF Asked
      <4> QED BY <4>1, <2>1, <2>3, <3>0, <3>5 DEF Asked
    <3>7. C!NothingStale' BY <2>1, <2>3, <3>0, <1>w DEF C!NothingStale
    <3>8. C!WaitsForSomething'
      <4>1. waits'[c] = nextId /\ asked'[c] = searches' BY <2>1, <2>3, <1>w
      <4>2. Len(calls) + 1 \in DOMAIN calls' BY <3>2
      <4>3. \A i \in DOMAIN calls : i \in DOMAIN calls' /\ calls'[i] = calls[i] BY <3>2
      <4>4. calls'[Len(calls) + 1].id = nextId /\ calls'[Len(calls) + 1].query = searches'
        BY <3>2, <3>4
      <4>5. ASSUME NEW d \in Clients, waits'[d] # 0, d # c
            PROVE  \/ \E i \in DOMAIN calls' : calls'[i].id = waits'[d] /\ calls'[i].query = asked'[d]
                   \/ \E i \in DOMAIN answers' :
                        answers'[i].id = waits'[d] /\ answers'[i].query = asked'[d]
        <5>1. waits'[d] = waits[d] /\ asked'[d] = asked[d] BY <4>5, <2>1, <1>w
        <5> QED BY <4>3, <4>5, <5>1, <3>0 DEF C!WaitsForSomething
      <4> QED BY <4>1, <4>2, <4>4, <4>5 DEF C!WaitsForSomething
    <3> QED BY <3>3, <3>6, <3>7, <3>8
  <2>4. CASE ready \in {"loading", "failed"}
    <3>1. UNCHANGED <<ready, workers, nextId, loadId, calls, fetching, answers>>
      BY <1>2, <2>4 DEF C!Search, C!worker
    <3>2. Stages' BY <3>1 DEF Stages, NothingSent
    <3>3. Asked' BY <2>1, <2>4, <3>1 DEF Asked
    <3>4. C!NothingStale' BY <2>1, <2>4, <3>1, <1>w DEF C!NothingStale, C!Failure
    <3>5. C!WaitsForSomething' BY <2>4, <3>1, <3>3 DEF Asked, C!WaitsForSomething
    <3> QED BY <3>2, <3>3, <3>4, <3>5
  <2> QED BY <2>2, <2>3, <2>4 DEF Stages
<1>3. ASSUME NEW c \in Clients, C!Hide(c) PROVE SearchInv'
  <2>1. /\ asked' = [asked EXCEPT ![c] = 0] /\ waits' = [waits EXCEPT ![c] = 0]
        /\ shows' = [shows EXCEPT ![c] = 0]
        /\ UNCHANGED <<ready, workers, nextId, loadId, calls, fetching, answers, searches>>
        /\ asked' \in [Clients -> 0 .. MaxSearches] /\ waits' \in [Clients -> Nat]
        /\ shows' \in [Clients -> 0 .. (MaxSearches + 1)]
    BY <1>3, <1>w DEF C!Hide, C!worker
  <2>2. Stages' BY <2>1 DEF Stages, NothingSent
  <2>3. Asked'
    <3>1. ready = "ready" => Means(calls)' /\ Means(answers)' BY <2>1, <1>w DEF Asked, Means
    <3> QED BY <2>1, <3>1, <1>w DEF Asked
  <2>4. C!NothingStale' BY <2>1, <1>w DEF C!NothingStale, C!Failure
  <2>5. C!WaitsForSomething' BY <2>1, <1>w DEF C!WaitsForSomething
  <2> QED BY <2>2, <2>3, <2>4, <2>5
<1>4. CASE C!Handle
  <2>1. CASE ready = "loading"
    <3>1. calls = <<LoadCall(loadId)>> /\ answers = <<>> /\ fetching = 0
      BY <1>4, <2>1 DEF C!Handle, Stages
    <3>2. /\ calls' = <<>> /\ answers' = <<>> /\ fetching' = loadId
          /\ UNCHANGED <<ready, workers, nextId, loadId, searches, asked, waits, shows>>
      BY <1>4, <3>1, <1>e DEF C!Handle, LoadCall
    <3>3. Stages' BY <2>1, <3>2 DEF Stages
    <3>4. Asked' BY <2>1, <3>2 DEF Asked
    <3>5. C!NothingStale' BY <3>2 DEF C!NothingStale
    <3>6. C!WaitsForSomething' BY <2>1, <3>2 DEF Asked, C!WaitsForSomething
    <3> QED BY <3>3, <3>4, <3>5, <3>6
  <2>2. CASE ready = "ready"
    <3>1. /\ calls \in Seq(Query) /\ calls # <<>> /\ answers \in Seq(Query)
          /\ calls' = Tail(calls) /\ Head(calls) \in Query /\ Head(calls) = calls[1]
          /\ Len(calls) \in Nat \ {0} /\ Len(calls') = Len(calls) - 1 /\ calls' \in Seq(Query)
          /\ \A i \in 1 .. Len(calls') : calls'[i] = calls[i + 1]
      BY <1>4, <2>2, HeadIs DEF C!Handle, Stages
    <3>2. /\ answers' = Append(answers, calls[1]) /\ answers' \in Seq(Query)
          /\ UNCHANGED <<ready, workers, nextId, loadId, searches, asked, waits, shows, fetching>>
      <4>1. Head(calls).type # "load" BY <3>1 DEF Query
      <4>2. /\ answers' = Append(answers, calls[1])
            /\ UNCHANGED <<ready, workers, nextId, loadId, searches, asked, waits, shows, fetching>>
        BY <1>4, <3>1, <4>1 DEF C!Handle
      <4> QED BY <3>1, <4>2
    <3>3. Stages' BY <2>2, <3>1, <3>2 DEF Stages
    <3>4. Means(calls)' /\ Means(answers)'
      <4>1. Means(calls) /\ Means(answers) BY <2>2 DEF Asked
      <4>2. \A i \in DOMAIN calls' : i + 1 \in DOMAIN calls /\ calls'[i] = calls[i + 1] BY <3>1
      <4>3. \A i \in DOMAIN answers' :
              (i \in DOMAIN answers /\ answers'[i] = answers[i]) \/ answers'[i] = calls[1]
        BY <3>1, <3>2
      <4>4. 1 \in DOMAIN calls BY <3>1
      <4> QED BY <4>1, <4>2, <4>3, <4>4, <3>2 DEF Means
    <3>5. Asked' BY <2>2, <3>2, <3>4 DEF Asked
    <3>6. C!NothingStale' BY <3>2 DEF C!NothingStale
    <3>7. C!WaitsForSomething'
      <4>1. \A i \in DOMAIN calls :
              \/ \E j \in DOMAIN calls' : calls'[j] = calls[i]
              \/ \E j \in DOMAIN answers' : answers'[j] = calls[i]
        <5> TAKE i \in DOMAIN calls
        <5>1. CASE i = 1
          <6>1. Len(answers) + 1 \in DOMAIN answers' /\ answers'[Len(answers) + 1] = calls[1]
            BY <3>1, <3>2
          <6> QED BY <6>1, <5>1
        <5>2. CASE i # 1
          <6>1. i - 1 \in DOMAIN calls' /\ calls'[i - 1] = calls[i] BY <5>2, <3>1
          <6> QED BY <6>1
        <5> QED BY <5>1, <5>2
      <4>2. \A i \in DOMAIN answers : i \in DOMAIN answers' /\ answers'[i] = answers[i]
        BY <3>1, <3>2
      <4> QED BY <4>1, <4>2, <3>2 DEF C!WaitsForSomething
    <3> QED BY <3>3, <3>5, <3>6, <3>7
  <2> QED BY <1>4, <2>1, <2>2 DEF C!Handle, Stages, NothingSent
<1>5. CASE C!IndexFetched \/ C!IndexBroken
  <2>1. /\ ready = "loading" /\ calls = <<>> /\ answers = <<>> /\ fetching = loadId
    BY <1>5 DEF C!IndexFetched, C!IndexBroken, Stages
  <2>2. /\ fetching' = 0
        /\ UNCHANGED <<ready, workers, nextId, loadId, calls, searches, asked, waits, shows>>
        /\ \/ answers' = <<LoadCall(loadId)>>
           \/ answers' = <<[id |-> 0, type |-> "error", query |-> 0]>>
           \/ answers' = <<>>
    BY <1>5, <2>1, <1>e DEF C!IndexFetched, C!IndexBroken, LoadCall
  <2>3. Stages' BY <2>1, <2>2 DEF Stages
  <2>4. Asked' BY <2>1, <2>2 DEF Asked
  <2>5. C!NothingStale' BY <2>2 DEF C!NothingStale
  <2>6. C!WaitsForSomething' BY <2>1, <2>2 DEF Asked, C!WaitsForSomething
  <2> QED BY <2>3, <2>4, <2>5, <2>6
<1>6. CASE C!IndexReady
  <2>1. /\ ready = "loading" /\ calls = <<>> /\ fetching = 0 /\ answers' = <<>>
        /\ ready' = "ready" /\ UNCHANGED <<workers, loadId, fetching, searches, asked, shows>>
    <3>1. answers # <<>> /\ Head(answers).type = "load" /\ answers' = Tail(answers) /\ ready' = "ready"
          /\ UNCHANGED <<workers, loadId, fetching, searches, asked, shows>>
      BY <1>6 DEF C!IndexReady
    <3>2. ready = "loading"
      <4>1. ready # "ready"
        <5>1. ASSUME answers \in Seq(Query) PROVE FALSE
          <6>1. Head(answers) \in Query BY <3>1, <5>1, HeadIs
          <6> QED BY <6>1, <3>1 DEF Query
        <5> QED BY <5>1 DEF Stages
      <4> QED BY <4>1, <3>1 DEF Stages, NothingSent
    <3>3. /\ calls = <<>> /\ fetching = 0
          /\ answers \in {<<LoadCall(loadId)>>, <<[id |-> 0, type |-> "error", query |-> 0]>>}
      BY <3>1, <3>2 DEF Stages
    <3> QED BY <3>1, <3>2, <3>3, <1>e
  <2>2. PICK order \in [1 .. Cardinality(C!Asking) -> C!Asking] :
          /\ C!InOrder(order)
          /\ calls' = calls \o C!Queries(order) /\ nextId' = nextId + Cardinality(C!Asking)
          /\ waits' = [c \in Clients |->
                         IF asked[c] = 0 THEN 0
                         ELSE nextId + (CHOOSE i \in DOMAIN order : order[i] = asked[c]) - 1]
    BY <1>6, SearchCardinality DEF C!IndexReady
  <2> DEFINE n == Cardinality(C!Asking)
  <2>3. C!Asking \subseteq 1 .. MaxSearches /\ n \in Nat
    <3>1. C!Asking \subseteq 1 .. MaxSearches BY <1>w DEF C!Asking
    <3>2. IsFiniteSet(1 .. MaxSearches) BY FS_Interval
    <3>3. IsFiniteSet(C!Asking) BY <3>1, <3>2, FS_Subset
    <3>4. Cardinality(C!Asking) \in Nat BY <3>3, FS_CardinalityType
    <3> QED BY <3>1, <3>4
  <2>4. order \in Seq(1 .. MaxSearches) /\ Len(order) = n /\ DOMAIN order = 1 .. n
    <3> HIDE DEF n
    <3>1. order \in [1 .. n -> 1 .. MaxSearches] BY <2>2, <2>3 DEF n
    <3> QED BY <3>1, <2>3
  <2>5. /\ calls' \in Seq(Query) /\ Len(calls') = n
        /\ \A i \in 1 .. n : calls'[i] = [id |-> nextId + i - 1, type |-> "query", query |-> order[i]]
    <3> HIDE DEF n
    <3>1. /\ C!Queries(order) \in Seq(Query) /\ Len(C!Queries(order)) = n
          /\ \A i \in 1 .. n : C!Queries(order)[i] = [id |-> nextId + i - 1, type |-> "query", query |-> order[i]]
      BY <2>4, <1>w, QueriesAre
    <3>2. calls' = C!Queries(order) BY <3>1, <2>1, <2>2
    <3> QED BY <3>1, <3>2
  <2>6. \A c \in Clients : asked[c] # 0 =>
          \E k \in 1 .. n : order[k] = asked[c] /\ waits'[c] = nextId + k - 1
    <3> SUFFICES ASSUME NEW c \in Clients, asked[c] # 0
                 PROVE  \E k \in 1 .. n : order[k] = asked[c] /\ waits'[c] = nextId + k - 1
      OBVIOUS
    <3>1. asked[c] \in C!Asking BY DEF C!Asking
    <3>2. \E k \in DOMAIN order : order[k] = asked[c] BY <3>1, <2>2 DEF C!InOrder
    <3> DEFINE k == CHOOSE i \in DOMAIN order : order[i] = asked[c]
    <3>3. k \in DOMAIN order /\ order[k] = asked[c] BY <3>2
    <3>4. waits'[c] = nextId + k - 1 BY <2>2
    <3> QED BY <3>3, <3>4, <2>4
  <2>7. \A c \in Clients : asked[c] = 0 => waits'[c] = 0 BY <2>2
  <2> HIDE DEF n
  <2>8. nextId' = nextId + n BY <2>2 DEF n
  <2>9. waits' \in [Clients -> Nat]
    <3>1. waits' = [c \in Clients |-> waits'[c]] BY <2>2
    <3>2. \A c \in Clients : waits'[c] \in Nat BY <2>3, <2>6, <2>7, <1>w
    <3> QED BY <3>1, <3>2
  <2>10. Stages' BY <2>1, <2>3, <2>5, <2>8, <1>e, <1>w DEF Stages
  <2>11. Means(calls)' /\ Means(answers)'
    <3>1. ASSUME NEW i \in 1 .. n
          PROVE  /\ calls'[i].id < nextId'
                 /\ \A c \in Clients : waits'[c] = calls'[i].id /\ waits'[c] # 0 =>
                      calls'[i].query = asked'[c]
      <4>1. calls'[i].id = nextId + i - 1 /\ calls'[i].query = order[i] BY <2>5
      <4>2. ASSUME NEW c \in Clients, waits'[c] = calls'[i].id, waits'[c] # 0
            PROVE  calls'[i].query = asked'[c]
        <5>1. asked[c] # 0 BY <4>2, <2>7
        <5>2. PICK k \in 1 .. n : order[k] = asked[c] /\ waits'[c] = nextId + k - 1
          BY <5>1, <2>6
        <5>3. k = i BY <5>2, <4>1, <4>2, <1>w, <2>3
        <5> QED BY <5>2, <5>3, <4>1, <2>1
      <4> QED BY <4>1, <4>2, <2>3, <2>8, <1>w
    <3>2. DOMAIN calls' = 1 .. n /\ DOMAIN answers' = {} BY <2>1, <2>3, <2>5, <1>e
    <3> QED BY <3>1, <3>2 DEF Means
  <2>12. Asked'
    <3>1. \A c \in Clients : waits'[c] # 0 => waits'[c] < nextId' /\ asked'[c] # 0
      BY <2>1, <2>3, <2>6, <2>7, <2>8, <1>w
    <3> QED BY <3>1, <2>1, <2>9, <2>11 DEF Asked
  <2>13. C!NothingStale'
    <3>1. \A c \in Clients : asked'[c] # 0 => waits'[c] # 0 BY <2>1, <2>3, <2>6, <1>w
    <3> QED BY <3>1, <2>1 DEF C!NothingStale
  <2>14. C!WaitsForSomething'
    <3>1. ASSUME NEW c \in Clients, waits'[c] # 0
          PROVE  \E i \in DOMAIN calls' : calls'[i].id = waits'[c] /\ calls'[i].query = asked'[c]
      <4>1. PICK k \in 1 .. n : order[k] = asked[c] /\ waits'[c] = nextId + k - 1
        BY <3>1, <2>6, <2>7
      <4>2. k \in DOMAIN calls' /\ calls'[k].id = waits'[c] /\ calls'[k].query = asked'[c]
        BY <4>1, <2>1, <2>5, <2>3
      <4> QED BY <4>2
    <3> QED BY <3>1 DEF C!WaitsForSomething
  <2> QED BY <2>10, <2>12, <2>13, <2>14
<1>7. CASE C!Answer
  <2>1. ready = "ready"
    <3>1. answers # <<>> /\ Head(answers).type = "query" BY <1>7 DEF C!Answer
    <3>2. ready # "loading"
      BY <3>1, <1>e DEF Stages, LoadCall
    <3> QED BY <3>1, <3>2 DEF Stages, NothingSent
  <2>2. /\ answers \in Seq(Query) /\ answers # <<>> /\ calls \in Seq(Query)
        /\ answers' = Tail(answers) /\ Head(answers) \in Query /\ Head(answers) = answers[1]
        /\ Len(answers) \in Nat \ {0} /\ Len(answers') = Len(answers) - 1 /\ answers' \in Seq(Query)
        /\ \A i \in 1 .. Len(answers') : answers'[i] = answers[i + 1]
    BY <1>7, <2>1, HeadIs DEF C!Answer, Stages
  <2> DEFINE hd == answers[1]
  <2>3. /\ hd.id \in Nat \ {0} /\ hd.query \in 1 .. MaxSearches
        /\ \A c \in Clients : waits[c] = hd.id => hd.query = asked[c]
    <3>1. hd.id \in Nat \ {0} /\ hd.query \in 1 .. MaxSearches BY <2>2 DEF Query
    <3>2. 1 \in DOMAIN answers BY <2>2
    <3> QED BY <3>1, <3>2, <2>1 DEF Asked, Means
  <2>4. /\ shows' = [c \in Clients |-> IF waits[c] = hd.id THEN hd.query ELSE shows[c]]
        /\ waits' = [c \in Clients |-> IF waits[c] = hd.id THEN 0 ELSE waits[c]]
        /\ UNCHANGED <<ready, workers, nextId, loadId, calls, fetching, searches, asked>>
    BY <1>7, <2>2 DEF C!Answer
  <2> HIDE DEF hd
  <2>5. Stages' BY <2>1, <2>2, <2>4 DEF Stages
  <2>6. Means(calls)' /\ Means(answers)'
    <3>1. Means(calls) /\ Means(answers) BY <2>1 DEF Asked
    <3>2. \A i \in DOMAIN answers' : i + 1 \in DOMAIN answers /\ answers'[i] = answers[i + 1]
      BY <2>2
    <3>3. \A c \in Clients : waits'[c] # 0 => waits'[c] = waits[c] BY <2>4
    <3> QED BY <3>1, <3>2, <3>3, <2>4 DEF Means
  <2>7. Asked'
    <3>1. shows' \in [Clients -> 0 .. (MaxSearches + 1)] /\ waits' \in [Clients -> Nat]
      BY <2>3, <2>4, <1>w
    <3> QED BY <3>1, <2>1, <2>4, <2>6 DEF Asked
  <2>8. C!NothingStale'
    <3>1. ASSUME NEW c \in Clients
          PROVE  /\ shows'[c] \in {0, asked'[c], C!Failure}
                 /\ ready = "ready" /\ asked'[c] # 0 /\ waits'[c] = 0 => shows'[c] = asked'[c]
      <4>1. CASE waits[c] = hd.id BY <4>1, <2>3, <2>4
      <4>2. CASE waits[c] # hd.id BY <4>2, <2>4 DEF C!NothingStale
      <4> QED BY <4>1, <4>2
    <3> QED BY <3>1, <2>1, <2>4 DEF C!NothingStale
  <2>9. C!WaitsForSomething'
    <3>1. ASSUME NEW i \in DOMAIN answers, answers[i].id # hd.id
          PROVE  \E j \in DOMAIN answers' : answers'[j] = answers[i]
      <4>1. i # 1 BY <3>1 DEF hd
      <4>2. i - 1 \in DOMAIN answers' /\ answers'[i - 1] = answers[i] BY <4>1, <2>2
      <4> QED BY <4>2
    <3> QED BY <3>1, <2>4 DEF C!WaitsForSomething
  <2> QED BY <2>5, <2>7, <2>8, <2>9
<1>8. CASE C!WorkerError
  <2>1. ready = "loading" /\ calls = <<>> /\ fetching = 0 /\ answers' = <<>>
    <3>1. answers # <<>> /\ Head(answers).type = "error" /\ answers' = Tail(answers)
      BY <1>8 DEF C!WorkerError
    <3>2. ready # "ready"
      <4>1. ASSUME answers \in Seq(Query) PROVE FALSE
        <5>1. Head(answers) \in Query BY <3>1, <4>1, HeadIs
        <5> QED BY <5>1, <3>1 DEF Query
      <4> QED BY <4>1 DEF Stages
    <3>3. /\ ready = "loading" /\ calls = <<>> /\ fetching = 0
          /\ answers \in {<<LoadCall(loadId)>>, <<[id |-> 0, type |-> "error", query |-> 0]>>}
      BY <3>1, <3>2 DEF Stages, NothingSent
    <3> QED BY <3>1, <3>3, <1>e
  <2>2. /\ ready' = "failed"
        /\ shows' = [c \in Clients |-> IF asked[c] # 0 THEN C!Failure ELSE shows[c]]
        /\ UNCHANGED <<workers, nextId, loadId, calls, fetching, searches, asked, waits>>
    BY <1>8 DEF C!WorkerError
  <2>3. Stages' BY <2>1, <2>2 DEF Stages, NothingSent
  <2>4. Asked' BY <2>1, <2>2, <1>w DEF Asked, C!Failure
  <2>5. C!NothingStale' BY <2>1, <2>2, <1>w DEF C!NothingStale, C!Failure
  <2>6. C!WaitsForSomething' BY <2>1, <2>2 DEF Asked, C!WaitsForSomething
  <2> QED BY <2>3, <2>4, <2>5, <2>6
<1>9. CASE UNCHANGED C!vars
  <2>1. Stages' BY <1>9 DEF C!vars, Stages, NothingSent
  <2>2. Asked' BY <1>9 DEF C!vars, Asked, Means
  <2>3. C!NothingStale' BY <1>9 DEF C!vars, C!NothingStale
  <2>4. C!WaitsForSomething' BY <1>9 DEF C!vars, C!WaitsForSomething
  <2> QED BY <2>1, <2>2, <2>3, <2>4
<1> QED BY <1>1, <1>2, <1>3, <1>4, <1>5, <1>6, <1>7, <1>8, <1>9 DEF C!Next

-----------------------------------------------------------------------------
(* ScrollSpy.                                                               *)

Scrolls == {0} \cup 0 .. Y!Max({Heights[l] : l \in Layouts})

(* What was measured is a layout, in the window as it is unless a resize is *)
(* yet to be looked at.                                                     *)
Measured ==
  groups # {} =>
    \E l \in Layouts, v \in Viewports :
      /\ measured = [height |-> Heights[l], max |-> Heights[l] - v]
      /\ groups = {[id |-> spied, tops |-> Tops[l]]}
      /\ "resize" \in due \/ v = page.viewport

(* What was active when it was last looked stays what it was.               *)
LookedRight ==
  spied # 0 /\ looked # Y!Unsure =>
    active = Y!Active(Tops[looked.layout], looked.scroll, Y!MaxScroll(looked))

SpyInv ==
  /\ page \in [layout : Layouts, viewport : Viewports, scroll : Scrolls]
  /\ tocs \in Nat
  /\ Measured /\ LookedRight /\ Y!ListensOnce

(* The invariant says what the runs check of the scroll spy.                *)
LEMMA SpyStale ==
  ASSUME 0 \notin Layouts, SpyInv
  PROVE  Y!ListensOnce /\ Y!NothingStale
<1>1. page # Y!Unsure BY DEF SpyInv, Y!Unsure
<1>2. Y!ActiveIsRight BY <1>1 DEF SpyInv, LookedRight, Y!ActiveIsRight
<1> QED BY <1>2 DEF SpyInv, Y!NothingStale

(* At first nothing is spied on, and nothing listened for.                  *)
LEMMA SpyInit ==
  ASSUME Y!Init
  PROVE  SpyInv
<1>1. page \in [layout : Layouts, viewport : Viewports, scroll : Scrolls] BY DEF Y!Init, Scrolls
<1>2. Measured /\ LookedRight BY DEF Y!Init, Measured, LookedRight
<1>3. Y!ListensOnce BY DEF Y!Init, Y!ListensOnce
<1> QED BY <1>1, <1>2, <1>3 DEF SpyInv, Y!Init

(* Each measurement, scrolling and table of contents keeps the invariant.   *)
LEMMA SpyStep ==
  ASSUME \A l, m \in Layouts : Heights[l] = Heights[m] => l = m,
         SpyInv, [Y!Next]_(Y!vars)
  PROVE  SpyInv'
<1> DEFINE Pages_ == [layout : Layouts, viewport : Viewports, scroll : Scrolls]
<1>p. page \in Pages_ /\ page.layout \in Layouts /\ page.viewport \in Viewports BY DEF SpyInv
<1>t. tocs \in Nat BY DEF SpyInv
<1>u. Y!Unspied = {} BY DEF SpyInv, Y!Unspied, Y!ListensOnce
<1>1. CASE Y!GenToc
  <2>1. /\ tocs' = tocs + 1 /\ spied' = tocs + 1 /\ spied' # 0
        /\ groups' = {[id |-> spied', tops |-> Tops[page.layout]]}
        /\ listening' = 1 /\ measured' = Y!Measure /\ due' = {} /\ page' = page
        /\ looked' = page
        /\ active' = Y!Active(Tops[page.layout], page.scroll, Y!MaxScroll(page))
    BY <1>1, <1>t, <1>u DEF Y!GenToc, Y!Measure, SpyInv, Y!ListensOnce
  <2>2. Measured' BY <2>1, <1>p DEF Measured, Y!Measure, Y!MaxScroll
  <2>3. LookedRight' BY <2>1 DEF LookedRight
  <2>4. Y!ListensOnce' BY <2>1 DEF Y!ListensOnce
  <2> QED BY <2>1, <2>2, <2>3, <2>4, <1>p, <1>t DEF SpyInv
<1>2. CASE Y!Reset
  <2>1. /\ groups' = {} /\ listening' = 0 /\ due' = {} /\ spied' = 0
        /\ UNCHANGED <<page, measured, tocs, looked>>
    BY <1>2, <1>u DEF Y!Reset
  <2>2. Measured' /\ LookedRight' BY <2>1 DEF Measured, LookedRight
  <2>3. Y!ListensOnce' BY <2>1 DEF Y!ListensOnce
  <2> QED BY <2>1, <2>2, <2>3, <1>p, <1>t DEF SpyInv
<1>3. CASE Y!Browse
  <2>1. UNCHANGED <<measured, groups, listening, tocs, spied, active, looked>> BY <1>3 DEF Y!Browse
  <2>2. /\ page' \in Pages_ /\ due \subseteq due' /\ (listening = 0 => due' = due)
        /\ page'.viewport = page.viewport \/ (listening > 0 => "resize" \in due')
    <3>1. ASSUME NEW l \in Layouts, Y!Relayout(l) PROVE <2>2
      BY <3>1, <1>p DEF Y!Relayout
    <3>2. ASSUME NEW v \in Viewports, Y!Resize(v) PROVE <2>2
      BY <3>2, <1>p DEF Y!Resize, Y!Heard
    <3>3. ASSUME NEW s \in 0 .. Y!Max({Heights[l] : l \in Layouts}), Y!Scroll(s) PROVE <2>2
      BY <3>3, <1>p DEF Y!Scroll, Y!Heard, Scrolls
    <3> QED BY <1>3, <3>1, <3>2, <3>3 DEF Y!Browse
  <2>3. Measured' BY <2>1, <2>2 DEF Measured, SpyInv, Y!ListensOnce
  <2>4. LookedRight' BY <2>1 DEF LookedRight, SpyInv
  <2>5. Y!ListensOnce' BY <2>1, <2>2 DEF SpyInv, Y!ListensOnce
  <2> QED BY <2>1, <2>2, <2>3, <2>4, <2>5, <1>t DEF SpyInv
<1>4. CASE Y!OnResize
  <2>1. /\ groups # {} /\ measured' = Y!Measure /\ due' = due \ {"resize"}
        /\ groups' = {Y!Calibrated(g) : g \in groups}
        /\ UNCHANGED <<page, listening, tocs, spied, active, looked>>
    BY <1>4 DEF Y!OnResize, SpyInv, Y!ListensOnce
  <2>2. groups' = {[id |-> spied, tops |-> Tops[page.layout]]}
    BY <2>1 DEF Y!Calibrated, SpyInv, Measured
  <2>3. Measured' BY <2>1, <2>2, <1>p DEF Measured, Y!Measure, Y!MaxScroll
  <2>4. LookedRight' BY <2>1 DEF LookedRight, SpyInv
  <2>5. Y!ListensOnce' BY <2>1, <2>2 DEF SpyInv, Y!ListensOnce
  <2> QED BY <2>1, <2>3, <2>4, <2>5, <1>p, <1>t DEF SpyInv
<1>5. CASE Y!OnScroll
  <2>1. /\ groups # {} /\ due' = due \ {"scroll"} /\ spied # 0
        /\ UNCHANGED <<page, listening, tocs, spied>>
        /\ looked' = IF "resize" \in due THEN Y!Unsure ELSE page
        /\ active' = Y!Active((CHOOSE g \in groups' : g.id = spied).tops, page.scroll, measured'.max)
    BY <1>5 DEF Y!OnScroll, SpyInv, Y!ListensOnce
  <2>2. /\ groups' = {[id |-> spied, tops |-> Tops[page.layout]]}
        /\ \E v \in Viewports :
             /\ measured' = [height |-> Heights[page.layout], max |-> Heights[page.layout] - v]
             /\ "resize" \in due \/ v = page.viewport
    <3>1. PICK l \in Layouts, v \in Viewports :
            /\ measured = [height |-> Heights[l], max |-> Heights[l] - v]
            /\ groups = {[id |-> spied, tops |-> Tops[l]]}
            /\ "resize" \in due \/ v = page.viewport
      BY <2>1 DEF SpyInv, Measured
    <3>2. CASE measured.height # Heights[page.layout]
      BY <3>1, <3>2, <1>5, <1>p DEF Y!OnScroll, Y!Measure, Y!MaxScroll, Y!Calibrated
    <3>3. CASE measured.height = Heights[page.layout]
      <4>1. l = page.layout BY <3>1, <3>3, <1>p
      <4> QED BY <3>1, <3>3, <4>1, <1>5, <1>p DEF Y!OnScroll
    <3> QED BY <3>2, <3>3
  <2>3. Measured' BY <2>1, <2>2, <1>p DEF Measured
  <2>4. (CHOOSE g \in groups' : g.id = spied).tops = Tops[page.layout]
    <3> DEFINE own == [id |-> spied, tops |-> Tops[page.layout]]
    <3>1. own.id = spied /\ own.tops = Tops[page.layout] OBVIOUS
    <3> HIDE DEF own
    <3>2. own \in groups' /\ \A g \in groups' : g = own BY <2>2 DEF own
    <3> QED BY <3>1, <3>2
  <2>5. LookedRight' BY <2>1, <2>2, <2>4 DEF LookedRight, Y!MaxScroll
  <2>6. Y!ListensOnce' BY <2>1, <2>2 DEF SpyInv, Y!ListensOnce
  <2> QED BY <2>1, <2>3, <2>5, <2>6, <1>p, <1>t DEF SpyInv
<1>6. CASE UNCHANGED Y!vars
  BY <1>6 DEF Y!vars, SpyInv, Measured, LookedRight, Y!ListensOnce
<1> QED BY <1>1, <1>2, <1>3, <1>4, <1>5, <1>6 DEF Y!Next

-----------------------------------------------------------------------------
(* DocsApp.                                                                 *)

Errors == {<<"error", id, v>> : id \in Pages \cup {0}, v \in Nat}

Documents == {D!Page(id) : id \in Pages \cup {0}} \cup Errors

View == {D!Blank} \cup Documents

Fields ==
  {"curr", "attached", "contents", "doc", "stage", "failed", "noindex", "toc", "shell", "first",
   "shells", "armed", "fetching", "hides", "ready", "transitioning", "starting", "starts"}

HasFields(u) == u = [f \in Fields |-> u[f]]

UI(u) ==
  /\ HasFields(u)
  /\ u.curr \in {1, 2} /\ u.attached \in {{}, {1}, {2}} /\ u.contents \in [{1, 2} -> View]
  /\ u.doc \in View /\ u.shells \in Nat /\ u.hides \in Nat
  /\ u.stage \in {"idle", "loading", "leaving", "entering"} /\ u.starting \in BOOLEAN
  /\ u.failed \in BOOLEAN /\ u.first \in BOOLEAN

(* What is in the cache for a path is of that path.                         *)
Cached ==
  /\ path \in Pages /\ visits \in Nat
  /\ cache \in [Pages \cup {0} -> View \cup {D!Pending, D!Asks}]
  /\ cache[0] \in {D!Blank, D!Pending, D!Page(0)}
  /\ \A id \in Pages : cache[id] \in Documents =>
       \/ cache[id] \in {D!Page(id), D!Page(0)}
       \/ cache[id][1] = "error" /\ cache[id][2] = 0
  /\ D!OfThePath

(* The viewer is at the last document that it was given, or has it to come. *)
Given ==
  /\ document \in View /\ input \in View /\ queue \in Seq(View)
  /\ queue # <<>> => queue[Len(queue)] = input
  /\ queue = <<>> => ui.doc = input
  /\ ui.first = FALSE => document # D!Blank

(* What each stage of a rendering has done with the two views.              *)
Preparing(u) ==
  /\ u.failed = FALSE /\ u.contents[D!Other(u)] = u.doc
  /\ u.noindex = (u.doc[1] # "page")

Shown(u) ==
  /\ u.attached = {u.curr} /\ u.contents[u.curr] = u.doc /\ u.contents[D!Other(u)] = D!Blank
  /\ u.toc = u.doc /\ u.transitioning = FALSE /\ u.noindex = (u.doc[1] # "page")

Rendering(u) ==
  /\ UI(u)
  /\ u.stage # "idle" => Preparing(u)
  /\ u.stage = "leaving" => u.attached = {u.curr}
  /\ u.stage = "entering" => u.attached = {D!Other(u)} /\ u.toc = u.doc
  /\ u.stage = "idle" /\ u.failed = FALSE /\ u.doc # D!Blank => Shown(u)
  /\ u.stage = "idle" /\ u.failed = TRUE => u.contents[D!Other(u)] = D!Blank

(* The progress bar is hidden, or will be, once something is ready.          *)
Hiding(u) == u.ready = TRUE => u.armed = FALSE /\ (u.fetching = TRUE => u.hides > 0)

(* The shell follows what was inserted.                                     *)
Following ==
  /\ document = input /\ queue = <<>> /\ ui.stage \in {"idle", "entering"} /\ ui.failed = FALSE
  /\ ui.first = FALSE
  => ui.shells > 0 \/ ui.shell = document

DocsInv == Cached /\ Given /\ Rendering(ui) /\ Hiding(ui) /\ Following

(* What the documents are, and are not.                                     *)
LEMMA DocumentsAre ==
  ASSUME 0 \notin Pages
  PROVE  /\ \A d \in Documents : D!IsDocument(d) /\ d \notin {D!Blank, D!Pending, D!Asks}
         /\ \A e \in {D!Blank, D!Pending, D!Asks} : ~D!IsDocument(e)
         /\ D!Blank # D!Pending /\ D!Blank # D!Asks /\ D!Pending # D!Asks
         /\ \A id \in Pages \cup {0} : D!Page(id) \in Documents /\ D!Page(id)[1] # "error"
         /\ visits \in Nat => \A id \in Pages \cup {0} :
              D!Error(id) \in Documents /\ D!Error(id)[1] = "error" /\ D!Error(id)[2] = id
<1>1. \A id \in Pages \cup {0} : D!Page(id)[1] \in {"page", "missing"}
  BY DEF D!Page, D!NotFound
<1>2. \A d \in Errors : d[1] = "error" BY DEF Errors
<1>3. \A d \in Documents : d[1] \in {"page", "missing", "error"} BY <1>1, <1>2 DEF Documents
<1>4. D!Blank[1] = "none" /\ D!Pending[1] = "pending" /\ D!Asks[1] = "asks"
  BY DEF D!Blank, D!Pending, D!Asks
<1>5. visits \in Nat => \A id \in Pages \cup {0} :
        D!Error(id) \in Errors /\ D!Error(id)[1] = "error" /\ D!Error(id)[2] = id
  BY DEF D!Error, Errors
<1>6. \A id \in Pages \cup {0} : D!Page(id) \in Documents BY DEF Documents
<1>7. Errors \subseteq Documents BY DEF Documents
<1>8. \A d \in Documents : D!IsDocument(d) /\ d \notin {D!Blank, D!Pending, D!Asks}
  BY <1>3, <1>4 DEF D!IsDocument
<1>9. \A e \in {D!Blank, D!Pending, D!Asks} : ~D!IsDocument(e) BY <1>4 DEF D!IsDocument
<1>10. D!Blank # D!Pending /\ D!Blank # D!Asks /\ D!Pending # D!Asks BY <1>4
<1> QED BY <1>1, <1>5, <1>6, <1>7, <1>8, <1>9, <1>10

(* The new view is put into the page, whatever was there.                   *)
LEMMA InsertedIs ==
  ASSUME NEW u, UI(u)
  PROVE  /\ UI(D!Inserted(u))
         /\ D!Inserted(u).attached = {D!Other(u)} /\ D!Inserted(u).toc = u.doc
         /\ D!Inserted(u).shells = u.shells + 1 /\ D!Inserted(u).stage = "entering"
         /\ D!Inserted(u).curr = u.curr /\ D!Inserted(u).contents = u.contents
         /\ D!Inserted(u).doc = u.doc /\ D!Inserted(u).failed = u.failed
         /\ D!Inserted(u).noindex = u.noindex /\ D!Inserted(u).first = u.first
         /\ D!Inserted(u).armed = u.armed /\ D!Inserted(u).fetching = u.fetching
         /\ D!Inserted(u).hides = u.hides /\ D!Inserted(u).ready = u.ready
<1>1. (u.attached \ {u.curr}) \cup {D!Other(u)} = {D!Other(u)}
  BY DEF UI, D!Other
<1>2. D!Other(u) \in {1, 2} BY DEF UI, D!Other
<1>3. HasFields(D!Inserted(u)) BY DEF UI, HasFields, Fields, D!Inserted
<1>4. /\ D!Inserted(u).attached = {D!Other(u)} /\ D!Inserted(u).toc = u.doc
      /\ D!Inserted(u).shells = u.shells + 1 /\ D!Inserted(u).stage = "entering"
  BY <1>1, <1>2 DEF UI, HasFields, Fields, D!Inserted
<1>5. /\ D!Inserted(u).curr = u.curr /\ D!Inserted(u).contents = u.contents
      /\ D!Inserted(u).doc = u.doc /\ D!Inserted(u).failed = u.failed
      /\ D!Inserted(u).noindex = u.noindex /\ D!Inserted(u).first = u.first
      /\ D!Inserted(u).armed = u.armed /\ D!Inserted(u).fetching = u.fetching
      /\ D!Inserted(u).hides = u.hides /\ D!Inserted(u).ready = u.ready
      /\ D!Inserted(u).starting = u.starting
  BY DEF UI, HasFields, Fields, D!Inserted
<1>6. UI(D!Inserted(u)) BY <1>2, <1>3, <1>4, <1>5 DEF UI
<1> QED BY <1>4, <1>5, <1>6

(* The views are swapped, and the one that was shown is emptied.            *)
LEMMA RenderedIs ==
  ASSUME NEW u, UI(u)
  PROVE  /\ UI(D!Rendered(u))
         /\ D!Rendered(u).curr = D!Other(u) /\ D!Other(D!Rendered(u)) = u.curr
         /\ D!Rendered(u).contents[u.curr] = D!Blank
         /\ D!Rendered(u).contents[D!Other(u)] = u.contents[D!Other(u)]
         /\ D!Rendered(u).stage = "idle" /\ D!Rendered(u).failed = FALSE
         /\ D!Rendered(u).transitioning = FALSE
         /\ D!Rendered(u).attached = u.attached /\ D!Rendered(u).toc = u.toc
         /\ D!Rendered(u).shells = u.shells /\ D!Rendered(u).shell = u.shell
         /\ D!Rendered(u).doc = u.doc /\ D!Rendered(u).noindex = u.noindex
         /\ D!Rendered(u).first = u.first
         /\ D!Rendered(u).armed = u.armed /\ D!Rendered(u).fetching = u.fetching
         /\ D!Rendered(u).hides = u.hides /\ D!Rendered(u).ready = u.ready
<1>1. D!Other(u) \in {1, 2} /\ u.curr \in {1, 2} /\ D!Other(u) # u.curr /\ 3 - D!Other(u) = u.curr
  BY DEF UI, D!Other
<1>2. D!Blank \in View BY DEF View
<1>3. HasFields(D!Rendered(u)) BY DEF UI, HasFields, Fields, D!Rendered
<1> QED BY <1>1, <1>2, <1>3 DEF UI, HasFields, Fields, D!Rendered, D!Other

(* What the view that enters makes of the page.                             *)
LEMMA EnterIs ==
  ASSUME NEW u, UI(u), Preparing(u), Hiding(u)
  PROVE  /\ Rendering(D!Enter(u)) /\ Hiding(D!Enter(u))
         /\ D!Enter(u).doc = u.doc /\ D!Enter(u).first = u.first /\ D!Enter(u).shells > 0
<1> DEFINE v == D!Inserted(u)
<1>1. /\ UI(v) /\ v.attached = {D!Other(u)} /\ v.toc = u.doc
      /\ v.shells = u.shells + 1 /\ v.stage = "entering"
      /\ v.curr = u.curr /\ v.contents = u.contents
      /\ v.doc = u.doc /\ v.failed = u.failed
      /\ v.noindex = u.noindex /\ v.first = u.first
      /\ v.armed = u.armed /\ v.fetching = u.fetching
      /\ v.hides = u.hides /\ v.ready = u.ready
  BY InsertedIs
<1>2. D!Other(v) = D!Other(u) BY <1>1 DEF D!Other
<1>3. u.shells + 1 > 0 BY DEF UI
<1>4. CASE u.starting = FALSE
  <2>1. D!Enter(u) = v BY <1>4 DEF D!Enter
  <2>2. Rendering(v) BY <1>1, <1>2 DEF Rendering, Preparing
  <2> QED BY <2>1, <2>2, <1>1, <1>3 DEF Hiding
<1>5. CASE u.starting = TRUE
  <2> DEFINE w == D!Rendered(v)
  <2>1. D!Enter(u) = w BY <1>5 DEF D!Enter
  <2> HIDE DEF v
  <2>2. /\ UI(w) /\ w.curr = D!Other(v) /\ D!Other(w) = v.curr
        /\ w.contents[v.curr] = D!Blank
        /\ w.contents[D!Other(v)] = v.contents[D!Other(v)]
        /\ w.stage = "idle" /\ w.failed = FALSE /\ w.transitioning = FALSE
        /\ w.attached = v.attached /\ w.toc = v.toc
        /\ w.shells = v.shells /\ w.doc = v.doc /\ w.noindex = v.noindex /\ w.first = v.first
        /\ w.armed = v.armed /\ w.fetching = v.fetching
        /\ w.hides = v.hides /\ w.ready = v.ready
    BY <1>1, RenderedIs
  <2> HIDE DEF w
  <2>3. Shown(w) BY <1>1, <1>2, <2>2 DEF Shown, Preparing
  <2>4. Rendering(w) BY <2>2, <2>3 DEF Rendering
  <2> QED BY <2>1, <2>2, <2>4, <1>1, <1>3 DEF Hiding
<1> QED BY <1>4, <1>5 DEF UI

(* What a document that is ready makes of the shell.                        *)
LEMMA ReadyIs ==
  ASSUME NEW u, UI(u), Preparing(u)
  PROVE  /\ Rendering(D!Ready(u)) /\ Hiding(D!Ready(u))
         /\ D!Ready(u).doc = u.doc /\ D!Ready(u).first = u.first
         /\ D!Ready(u).stage \in {"idle", "entering"} => D!Ready(u).shells > 0
<1> DEFINE t == [u EXCEPT !.transitioning = TRUE, !.armed = FALSE, !.ready = TRUE, !.hides = @ + 1]
           v == [t EXCEPT !.stage = "leaving"]
<1>1. /\ UI(t) /\ t.armed = FALSE /\ t.hides > 0 /\ t.curr = u.curr /\ t.contents = u.contents
      /\ t.doc = u.doc /\ t.failed = u.failed /\ t.noindex = u.noindex /\ t.first = u.first
      /\ t.attached = u.attached
  <2>1. HasFields(t) BY DEF UI, HasFields, Fields
  <2> QED BY <2>1 DEF UI, HasFields, Fields
<1>2. /\ UI(v) /\ v.armed = FALSE /\ v.hides > 0 /\ v.curr = u.curr /\ v.contents = u.contents
      /\ v.doc = u.doc /\ v.failed = u.failed /\ v.noindex = u.noindex /\ v.first = u.first
      /\ v.attached = u.attached /\ v.stage = "leaving"
  <2>1. HasFields(t) /\ HasFields(v) BY DEF UI, HasFields, Fields
  <2>2. v.stage = "leaving" /\ \A f \in Fields \ {"stage"} : v[f] = t[f]
    <3> HIDE DEF t
    <3> QED BY <2>1 DEF HasFields, Fields
  <2> HIDE DEF t, v
  <2> QED BY <1>1, <2>1, <2>2 DEF UI, Fields
<1>3. D!Ready(u) = IF u.curr \notin u.attached \/ u.starting THEN D!Enter(t) ELSE v
  BY DEF D!Ready
<1> HIDE DEF t, v
<1>4. Preparing(t) /\ Hiding(t) BY <1>1 DEF Preparing, Hiding, D!Other
<1>5. CASE u.curr \notin u.attached \/ u.starting
  BY <1>1, <1>3, <1>4, <1>5, EnterIs
<1>6. CASE ~(u.curr \notin u.attached \/ u.starting)
  <2>1. u.attached = {u.curr} BY <1>6 DEF UI
  <2>2. Preparing(v) /\ Hiding(v) BY <1>2 DEF Preparing, Hiding, D!Other
  <2>3. Rendering(v) BY <1>2, <2>1, <2>2 DEF Rendering
  <2> QED BY <1>2, <1>3, <1>6, <2>2, <2>3
<1> QED BY <1>5, <1>6

(* The module counts as the library of theorems does.                       *)
LEMMA DocsCardinality == \A S : D!Cardinality(S) = Cardinality(S)
BY DEF D!Cardinality, Cardinality

(* The invariant says what the runs check of the documentation site.        *)
LEMMA DocsStale ==
  ASSUME 0 \notin Pages, DocsInv
  PROVE  D!NothingStale
<1> USE DEF DocsInv
<1>1. D!OfThePath BY DEF Cached
<1>2. D!Cardinality(ui.attached) <= 1
  <2>1. ui.attached \in {{}, {1}, {2}} BY DEF Rendering, UI
  <2>2. Cardinality({}) = 0 /\ Cardinality({1}) = 1 /\ Cardinality({2}) = 1
    BY FS_EmptySet, FS_Singleton
  <2> QED BY <2>1, <2>2, DocsCardinality
<1>3. ASSUME D!Quiet
      PROVE  /\ ui.stage = "idle" /\ document = input /\ queue = <<>> /\ ui.doc = document
             /\ document # D!Blank /\ ui.shells = 0 /\ ui.hides = 0 /\ ui.armed # TRUE
             /\ ui.first = FALSE
  <2>1. /\ ui.stage = "idle" /\ document = input /\ queue = <<>> /\ ui.shells = 0 /\ ui.hides = 0
        /\ ~ui.armed /\ ~ui.first
    BY <1>3 DEF D!Quiet
  <2>2. ui.first \in BOOLEAN BY DEF Rendering, UI
  <2>3. ui.first = FALSE BY <2>1, <2>2
  <2>4. ui.armed # TRUE BY <2>1
  <2> QED BY <2>1, <2>3, <2>4 DEF Given
<1>4. D!Quiet /\ ~ui.failed =>
        /\ ui.attached = {ui.curr} /\ ui.contents[ui.curr] = document
        /\ ui.contents[D!Other(ui)] = D!Blank
        /\ ui.toc = document /\ ui.shell = document /\ ~ui.transitioning
        /\ ui.noindex = (document[1] # "page")
  <2> SUFFICES ASSUME D!Quiet, ~ui.failed
               PROVE  Shown(ui) /\ ui.doc = document /\ ui.shell = document
    BY DEF Shown
  <2>1. ui.failed = FALSE BY DEF Rendering, UI
  <2>2. Shown(ui) BY <1>3, <2>1 DEF Rendering
  <2>3. ui.shell = document
    <3>1. Following OBVIOUS
    <3>2. ~(ui.shells > 0) BY <1>3
    <3>3. ui.stage \in {"idle", "entering"} BY <1>3
    <3> QED BY <1>3, <2>1, <3>1, <3>2, <3>3 DEF Following
  <2> QED BY <1>3, <2>2, <2>3
<1>5. D!Quiet /\ ui.failed /\ D!Other(ui) \in ui.attached => ui.contents[D!Other(ui)] = D!Blank
  <2>1. ui.failed => ui.failed = TRUE BY DEF Rendering, UI
  <2> QED BY <1>3, <2>1 DEF Rendering
<1>6. D!Quiet /\ ui.fetching => ~ui.ready
  <2> SUFFICES ASSUME D!Quiet, ui.fetching, ui.ready PROVE FALSE OBVIOUS
  <2>1. ui.fetching = TRUE /\ ui.ready = TRUE BY DEF Rendering, UI
  <2> QED BY <1>3, <2>1 DEF Hiding
<1> QED BY <1>1, <1>2, <1>4, <1>5, <1>6 DEF D!NothingStale, D!ShowsTheDocument, D!BarGoes

(* The page starts blank, with its shell waiting for a first document.      *)
LEMMA DocsInit ==
  ASSUME 0 \notin Pages, D!Init
  PROVE  DocsInv
<1>1. D!Blank \in View /\ D!Pending \in View \cup {D!Pending, D!Asks} BY DEF View
<1>2. Cached
  <2>1. path \in Pages /\ visits = 1 /\ document = D!Blank
        /\ cache = [id \in Pages \cup {0} |-> IF id = path THEN D!Pending ELSE D!Blank]
    BY DEF D!Init, D!NotFound
  <2>2. \A id \in Pages : cache[id] \notin Documents BY <2>1, DocumentsAre
  <2>3. cache[path] = D!Pending /\ cache[0] = D!Blank BY <2>1
  <2>4. cache \in [Pages \cup {0} -> View \cup {D!Pending, D!Asks}] BY <1>1, <2>1
  <2> QED BY <2>1, <2>2, <2>3, <2>4 DEF Cached, D!OfThePath
<1>3. PICK attached \in {{}, {1}} :
       ui = [curr |-> 1, attached |-> attached, contents |-> <<D!Blank, D!Blank>>, doc |-> D!Blank,
             stage |-> "idle", failed |-> FALSE, noindex |-> FALSE, toc |-> D!Blank,
             shell |-> D!Blank, first |-> TRUE, shells |-> 0, armed |-> TRUE, fetching |-> FALSE,
             hides |-> 0, ready |-> FALSE, transitioning |-> TRUE, starting |-> TRUE, starts |-> 0]
  BY DEF D!Init
<1>4. HasFields(ui) BY <1>3 DEF HasFields, Fields
<1>5. ui.contents \in [{1, 2} -> View] BY <1>1, <1>3
<1>6. UI(ui) BY <1>1, <1>3, <1>4, <1>5 DEF UI
<1>7. Rendering(ui) BY <1>3, <1>6 DEF Rendering
<1>8. Hiding(ui) BY <1>3 DEF Hiding
<1>9. Given BY <1>1, <1>3, EmptyIs DEF D!Init, Given
<1>10. Following BY <1>3 DEF Following
<1> QED BY <1>2, <1>7, <1>8, <1>9, <1>10 DEF DocsInv

(* Whatever a request comes to, the document is of the path.                *)
LEMMA Resolved ==
  ASSUME 0 \notin Pages, Cached, Given, document = input, NEW id \in Pages \cup {0}, NEW doc,
         cache[id] = D!Pending, D!Resolve(id, doc),
         doc \in {D!Page(id), D!Error(id)} \/ (id # 0 /\ doc = D!Page(0))
  PROVE  Cached' /\ document' \in View /\ (document' # document => document' \in Documents)
<1> DEFINE resolved == {id} \cup {i \in Pages : id = 0 /\ cache[i] = D!Asks}
<1>1. /\ UNCHANGED <<path, visits, input, queue, elements, ui>>
      /\ cache' = [i \in DOMAIN cache |->
                     IF i = id /\ doc[1] = "error" THEN D!Blank
                     ELSE IF i \in resolved THEN doc ELSE cache[i]]
      /\ document' = IF path \in resolved THEN doc ELSE document
  BY DEF D!Resolve, D!NotFound
<1>2. /\ path \in Pages /\ visits \in Nat /\ DOMAIN cache = Pages \cup {0}
      /\ \A i \in Pages \cup {0} : cache[i] \in View \cup {D!Pending, D!Asks}
      /\ cache[0] \in {D!Blank, D!Pending, D!Page(0)}
  BY DEF Cached
<1>3. /\ doc \in Documents /\ doc \notin {D!Blank, D!Pending, D!Asks}
      /\ doc[1] = "error" <=> doc = D!Error(id)
      /\ doc = D!Error(id) => doc[2] = id
  BY <1>2, DocumentsAre
<1>4. D!Blank \in View /\ Documents \subseteq View BY DEF View
<1> HIDE DEF resolved
<1>5. cache' \in [Pages \cup {0} -> View \cup {D!Pending, D!Asks}]
  BY <1>1, <1>2, <1>3, <1>4
<1>6. cache'[0] \in {D!Blank, D!Pending, D!Page(0)}
  BY <1>1, <1>2, <1>3 DEF resolved
<1>7. ASSUME NEW i \in Pages, cache'[i] \in Documents
      PROVE  \/ cache'[i] \in {D!Page(i), D!Page(0)}
             \/ cache'[i][1] = "error" /\ cache'[i][2] = 0
  <2>1. D!Blank \notin Documents BY DocumentsAre
  <2>2. cache'[i] = IF i = id /\ doc[1] = "error" THEN D!Blank
                    ELSE IF i \in resolved THEN doc ELSE cache[i]
    BY <1>1, <1>2
  <2>3. CASE i \notin resolved BY <2>2, <2>3, <1>7 DEF Cached, resolved
  <2>4. CASE i = id BY <2>1, <2>2, <2>4, <1>3, <1>7 DEF resolved
  <2>5. CASE i \in resolved /\ i # id BY <2>2, <2>5, <1>3, <1>7 DEF resolved
  <2> QED BY <2>3, <2>4, <2>5
<1>8. D!OfThePath'
  <2>1. cache'[path] = IF path = id /\ doc[1] = "error" THEN D!Blank
                       ELSE IF path \in resolved THEN doc ELSE cache[path]
    BY <1>1, <1>2
  <2>2. CASE path \notin resolved
    <3>1. document' = document /\ cache'[path] = cache[path] /\ path' = path BY <1>1, <2>1, <2>2 DEF resolved
    <3>2. D!OfThePath BY DEF Cached
    <3> QED BY <3>1, <3>2 DEF D!OfThePath, D!Page, D!NotFound
  <2>3. CASE path \in resolved
    <3>1. document' = doc /\ path' = path BY <1>1, <2>3
    <3>2. \/ doc = D!Page(path) \/ doc = D!Page(0) \/ (doc[1] = "error" /\ doc[2] \in {path, 0})
      BY <2>3, <1>2, <1>3 DEF resolved
    <3> QED BY <3>1, <3>2 DEF D!OfThePath, D!Page, D!NotFound
  <2> QED BY <2>2, <2>3
<1>9. Cached'
  <2>1. D!Blank' = D!Blank /\ D!Pending' = D!Pending /\ D!Asks' = D!Asks OBVIOUS
  <2> QED BY <1>1, <1>2, <1>5, <1>6, <1>7, <1>8 DEF Cached
<1>10. document' \in View /\ (document' # document => document' \in Documents)
  BY <1>1, <1>3, <1>4 DEF Given
<1> QED BY <1>9, <1>10

(* The timers of the shell leave the views alone.                           *)
LEMMA SameViews ==
  ASSUME NEW u, NEW v, Rendering(u), UI(v),
         v.curr = u.curr, v.attached = u.attached, v.contents = u.contents, v.doc = u.doc,
         v.stage = u.stage, v.failed = u.failed, v.noindex = u.noindex, v.toc = u.toc,
         v.transitioning = u.transitioning
  PROVE  Rendering(v)
<1>1. D!Other(v) = D!Other(u) BY DEF D!Other
<1> QED BY <1>1 DEF Rendering, Preparing, Shown

(* Each answer, rendering, animation and timer keeps the invariant of the site.*)
LEMMA DocsStep ==
  ASSUME 0 \notin Pages, DocsInv, [D!Next]_(D!vars)
  PROVE  DocsInv'
<1> USE DEF DocsInv
<1>b. /\ D!Blank' = D!Blank /\ D!Pending' = D!Pending /\ D!Asks' = D!Asks
      /\ D!Blank \in View /\ Documents \subseteq View
  BY DEF View
<1>u. UI(ui) BY DEF Rendering
<1>r. ASSUME UNCHANGED D!requests PROVE Cached'
  <2>1. UNCHANGED <<path, visits, cache, document>> BY <1>r DEF D!requests
  <2>2. D!OfThePath' BY <2>1 DEF Cached, D!OfThePath, D!Page, D!NotFound
  <2> QED BY <2>1, <2>2, <1>b DEF Cached
<1>1. ASSUME NEW p \in Pages, D!Navigate(p), document = input PROVE DocsInv'
  <2>1. /\ visits' = visits + 1 /\ path' = p
        /\ cache' = IF cache[p] = D!Blank THEN [cache EXCEPT ![p] = D!Pending] ELSE cache
        /\ document' = IF D!IsDocument(cache[p]) THEN cache[p] ELSE document
        /\ ui' = IF p = path THEN ui ELSE [ui EXCEPT !.armed = TRUE, !.ready = FALSE]
        /\ UNCHANGED <<input, queue, elements>>
    BY <1>1 DEF D!Navigate
  <2>2. /\ cache[p] \in View \cup {D!Pending, D!Asks} /\ DOMAIN cache = Pages \cup {0}
        /\ p \in DOMAIN cache /\ p # 0
    BY DEF Cached
  <2>3. /\ D!IsDocument(cache[p]) <=> cache[p] \in Documents
        /\ cache[p] \notin Documents => cache[p] \in {D!Blank, D!Pending, D!Asks}
        /\ D!Blank \notin Documents /\ D!Pending \notin Documents
    BY <2>2, DocumentsAre DEF View
  <2>4. document' \in View /\ (document' = D!Blank => document = D!Blank)
    BY <2>1, <2>3, <1>b DEF Given
  <2>5. Cached'
    <3>1. cache' \in [Pages \cup {0} -> View \cup {D!Pending, D!Asks}]
      BY <2>1, <2>2 DEF Cached
    <3>2. cache'[0] \in {D!Blank, D!Pending, D!Page(0)} BY <2>1, <2>2 DEF Cached
    <3>3. ASSUME NEW i \in Pages, cache'[i] \in Documents
          PROVE  \/ cache'[i] \in {D!Page(i), D!Page(0)}
                 \/ cache'[i][1] = "error" /\ cache'[i][2] = 0
      <4>1. cache'[i] = cache[i] BY <2>1, <2>2, <2>3, <3>3
      <4> QED BY <4>1, <3>3 DEF Cached
    <3>4. D!OfThePath'
      <4>1. CASE cache[p] \in Documents
        <5>1. document' = cache[p] BY <2>1, <2>3, <4>1
        <5>2. \/ cache[p] \in {D!Page(p), D!Page(0)}
              \/ cache[p][1] = "error" /\ cache[p][2] = 0
          BY <4>1 DEF Cached
        <5> QED BY <5>1, <5>2, <2>1 DEF D!OfThePath, D!Page, D!NotFound
      <4>2. CASE cache[p] \notin Documents
        <5>1. cache'[path'] \in {D!Pending, D!Asks} BY <2>1, <2>2, <2>3, <4>2
        <5> QED BY <5>1, <1>b DEF D!OfThePath
      <4> QED BY <4>1, <4>2
    <3> QED BY <3>1, <3>2, <3>3, <3>4, <2>1, <1>b DEF Cached
  <2>6. /\ UI(ui') /\ \A f \in Fields \ {"armed", "ready"} : ui'[f] = ui[f]
        /\ ui' = ui \/ ui'.ready = FALSE
    <3>1. CASE p = path BY <2>1, <3>1, <1>u
    <3>2. CASE p # path
      <4>1. ui' = [ui EXCEPT !.armed = TRUE, !.ready = FALSE] BY <2>1, <3>2
      <4>2. HasFields(ui') BY <4>1, <1>u DEF UI, HasFields, Fields
      <4>3. ui'.ready = FALSE /\ \A f \in Fields \ {"armed", "ready"} : ui'[f] = ui[f]
        BY <4>1, <1>u DEF UI, HasFields, Fields
      <4>4. UI(ui') BY <4>2, <4>3, <1>u DEF UI, Fields
      <4> QED BY <4>3, <4>4
    <3> QED BY <3>1, <3>2
  <2>7. /\ ui'.curr = ui.curr /\ ui'.attached = ui.attached /\ ui'.contents = ui.contents
        /\ ui'.doc = ui.doc /\ ui'.stage = ui.stage /\ ui'.failed = ui.failed
        /\ ui'.noindex = ui.noindex /\ ui'.toc = ui.toc /\ ui'.transitioning = ui.transitioning
        /\ ui'.first = ui.first /\ ui'.shells = ui.shells /\ ui'.shell = ui.shell
    BY <2>6 DEF Fields
  <2>8. Rendering(ui)' BY <2>6, <2>7, SameViews
  <2>9. Hiding(ui)' BY <2>6 DEF Hiding
  <2>10. Given' BY <2>1, <2>4, <2>7 DEF Given
  <2>11. Following' BY <1>1, <2>1, <2>7 DEF Following
  <2> QED BY <2>5, <2>8, <2>9, <2>10, <2>11
<1>2. ASSUME NEW id \in Pages \cup {0}, NEW doc, cache[id] = D!Pending, D!Resolve(id, doc),
             doc \in {D!Page(id), D!Error(id)} \/ (id # 0 /\ doc = D!Page(0)), document = input
      PROVE  DocsInv'
  <2>1. Cached' /\ document' \in View /\ (document' # document => document' \in Documents)
    BY <1>2, Resolved
  <2>2. UNCHANGED <<path, visits, input, queue, elements, ui>> BY <1>2 DEF D!Resolve
  <2>3. D!Blank \notin Documents BY DocumentsAre
  <2>4. Given' BY <2>1, <2>2, <2>3, <1>b DEF Given
  <2>5. Following' BY <1>2, <2>2 DEF Following
  <2> QED BY <2>1, <2>2, <2>4, <2>5 DEF Rendering, Hiding
<1>3. ASSUME NEW id \in DOMAIN cache, document = input,
             D!Answered(id) \/ D!AnsweredWithError(id) \/ D!AnsweredNotFound(id)
      PROVE  DocsInv'
  <2>1. id \in Pages \cup {0} /\ cache[id] = D!Pending
    BY <1>3 DEF Cached, D!Answered, D!AnsweredWithError, D!AnsweredNotFound
  <2>2. CASE D!Answered(id) BY <2>1, <2>2, <1>2, <1>3 DEF D!Answered
  <2>3. CASE D!AnsweredWithError(id) BY <2>1, <2>3, <1>2, <1>3 DEF D!AnsweredWithError
  <2>4. CASE D!AnsweredNotFound(id) /\ D!IsDocument(cache[0])
    <3>1. id # 0 /\ D!Resolve(id, cache[0]) BY <2>4 DEF D!AnsweredNotFound, D!NotFound
    <3>2. cache[0] = D!Page(0) BY <2>4, DocumentsAre DEF Cached
    <3> QED BY <2>1, <3>1, <3>2, <1>2, <1>3
  <2>5. CASE D!AnsweredNotFound(id) /\ ~D!IsDocument(cache[0])
    <3>1. /\ id # 0
          /\ cache' = [cache EXCEPT ![id] = D!Asks, ![0] = IF @ = D!Blank THEN D!Pending ELSE @]
          /\ UNCHANGED <<path, visits, document, input, queue, elements, ui>>
      BY <2>5 DEF D!AnsweredNotFound, D!NotFound
    <3>2. /\ path \in Pages /\ visits \in Nat /\ DOMAIN cache = Pages \cup {0}
          /\ \A i \in Pages \cup {0} : cache[i] \in View \cup {D!Pending, D!Asks}
          /\ cache[0] \in {D!Blank, D!Pending, D!Page(0)}
      BY DEF Cached
    <3>3. /\ \A i \in Pages : cache'[i] = IF i = id THEN D!Asks ELSE cache[i]
          /\ cache'[0] = IF cache[0] = D!Blank THEN D!Pending ELSE cache[0]
          /\ DOMAIN cache' = Pages \cup {0}
      BY <3>1, <3>2, <2>1
    <3>4. cache' \in [Pages \cup {0} -> View \cup {D!Pending, D!Asks}]
      BY <3>1, <3>2, <3>3
    <3>5. D!Asks \notin Documents BY DocumentsAre
    <3>6. D!OfThePath'
      <4>1. cache'[path] \notin {D!Pending, D!Asks} => cache[path] \notin {D!Pending, D!Asks}
        BY <3>2, <3>3
      <4> QED BY <4>1, <3>1, <1>b DEF Cached, D!OfThePath, D!Page, D!NotFound
    <3>7. Cached' BY <3>1, <3>2, <3>3, <3>4, <3>5, <3>6, <1>b DEF Cached
    <3>8. Given' BY <3>1 DEF Given
    <3>9. Following' BY <3>1 DEF Following
    <3> QED BY <3>1, <3>7, <3>8, <3>9 DEF Rendering, Hiding
  <2> QED BY <1>3, <2>2, <2>3, <2>4, <2>5
<1>4. CASE D!Render /\ document = input
  <2> DEFINE doc == Head(queue)
             filled == [ui EXCEPT !.contents[D!Other(ui)] = doc, !.doc = doc, !.stage = "loading",
                                  !.failed = FALSE, !.noindex = doc[1] # "page"]
  <2>1. /\ queue # <<>> /\ queue' = Tail(queue) /\ UNCHANGED D!requests /\ UNCHANGED input
        /\ ui' = filled \/ ui' = D!Ready(filled)
    BY <1>4 DEF D!Render
  <2>2. UNCHANGED document BY <2>1 DEF D!requests
  <2>3. /\ queue \in Seq(View) /\ doc \in View /\ queue' \in Seq(View) /\ doc = queue[1]
        /\ Len(queue) \in Nat \ {0} /\ Len(queue') = Len(queue) - 1
        /\ \A i \in 1 .. Len(queue') : queue'[i] = queue[i + 1]
    BY <2>1, HeadIs DEF Given
  <2> HIDE DEF doc
  <2>4. /\ UI(filled) /\ Preparing(filled) /\ filled.stage = "loading" /\ filled.doc = doc
        /\ filled.first = ui.first /\ filled.ready = ui.ready /\ filled.armed = ui.armed
        /\ filled.fetching = ui.fetching /\ filled.hides = ui.hides
    <3>1. D!Other(ui) \in {1, 2} BY <1>u DEF UI, D!Other
    <3>2. HasFields(filled) BY <1>u DEF UI, HasFields, Fields
    <3>3. /\ filled.contents = [ui.contents EXCEPT ![D!Other(ui)] = doc]
          /\ filled.doc = doc /\ filled.stage = "loading" /\ filled.failed = FALSE
          /\ filled.noindex = (doc[1] # "page")
      BY <1>u DEF UI, HasFields, Fields
    <3>4. \A f \in Fields \ {"contents", "doc", "stage", "failed", "noindex"} : filled[f] = ui[f]
      BY <1>u DEF UI, HasFields, Fields
    <3> HIDE DEF filled
    <3>5. /\ filled.curr = ui.curr /\ filled.attached = ui.attached /\ filled.shells = ui.shells
          /\ filled.hides = ui.hides /\ filled.starting = ui.starting /\ filled.first = ui.first
          /\ filled.ready = ui.ready /\ filled.armed = ui.armed /\ filled.fetching = ui.fetching
      BY <3>4 DEF Fields
    <3>6. filled.contents \in [{1, 2} -> View] /\ filled.contents[D!Other(ui)] = doc
      BY <3>1, <3>3, <2>3, <1>u DEF UI
    <3>7. UI(filled) BY <3>2, <3>3, <3>5, <3>6, <2>3, <1>u DEF UI
    <3>8. Preparing(filled) BY <3>3, <3>5, <3>6 DEF Preparing, D!Other
    <3> QED BY <3>3, <3>5, <3>7, <3>8
  <2> HIDE DEF filled
  <2>5. /\ Rendering(ui') /\ Hiding(ui') /\ ui'.doc = doc /\ ui'.first = ui.first
        /\ ui'.stage \in {"idle", "entering"} => ui'.shells > 0
    <3>1. CASE ui' = filled BY <3>1, <2>4 DEF Rendering, Hiding
    <3>2. CASE ui' = D!Ready(filled) BY <3>2, <2>4, ReadyIs
    <3> QED BY <3>1, <3>2, <2>1
  <2>6. Given'
    <3>1. queue' = <<>> => doc = input
      <4>1. queue' = <<>> => Len(queue) = 1 BY <2>3
      <4> QED BY <4>1, <2>1, <2>3 DEF Given
    <3>2. queue' # <<>> => queue'[Len(queue')] = input
      <4>1. queue' # <<>> => Len(queue') \in 1 .. Len(queue') BY <2>3
      <4> QED BY <4>1, <2>1, <2>3 DEF Given
    <3> QED BY <3>1, <3>2, <2>1, <2>2, <2>3, <2>5, <1>b DEF Given
  <2>7. Following' BY <2>5 DEF Following
  <2> QED BY <2>1, <2>5, <2>6, <2>7, <1>r
<1>5. CASE D!ElementsRegistered
  <2>1. /\ ui' = IF ui.stage = "loading" THEN D!Ready(ui) ELSE ui
        /\ UNCHANGED D!requests /\ UNCHANGED <<input, queue>>
    BY <1>5 DEF D!ElementsRegistered
  <2>2. UNCHANGED document BY <2>1 DEF D!requests
  <2>3. ui.stage = "loading" => Preparing(ui) BY DEF Rendering
  <2>4. /\ Rendering(ui') /\ Hiding(ui') /\ ui'.doc = ui.doc /\ ui'.first = ui.first
        /\ ui' = ui \/ (ui'.stage \in {"idle", "entering"} => ui'.shells > 0)
    BY <2>1, <2>3, <1>u, ReadyIs
  <2>5. Given' BY <2>1, <2>2, <2>4 DEF Given
  <2>6. Following' BY <2>1, <2>2, <2>4 DEF Following
  <2> QED BY <2>1, <2>4, <2>5, <2>6, <1>r
<1>6. CASE D!ElementsFail
  <2>1. /\ ui' = IF ui.stage = "loading" THEN D!Failed(ui) ELSE ui
        /\ UNCHANGED D!requests /\ UNCHANGED <<input, queue>>
    BY <1>6 DEF D!ElementsFail
  <2>2. UNCHANGED document BY <2>1 DEF D!requests
  <2> DEFINE v == D!Failed(ui)
  <2>3. /\ UI(v) /\ v.stage = "idle" /\ v.failed = TRUE /\ v.contents[D!Other(v)] = D!Blank
        /\ v.doc = ui.doc /\ v.first = ui.first /\ v.ready = ui.ready /\ v.armed = ui.armed
        /\ v.fetching = ui.fetching /\ v.hides = ui.hides
    <3>1. D!Other(ui) \in {1, 2} BY <1>u DEF UI, D!Other
    <3>2. HasFields(v) BY <1>u DEF UI, HasFields, Fields, D!Failed
    <3>3. /\ v.contents = [ui.contents EXCEPT ![D!Other(ui)] = D!Blank]
          /\ v.stage = "idle" /\ v.failed = TRUE
      BY <1>u DEF UI, HasFields, Fields, D!Failed
    <3>4. \A f \in Fields \ {"contents", "stage", "failed", "noindex"} : v[f] = ui[f]
      BY <1>u DEF UI, HasFields, Fields, D!Failed
    <3> HIDE DEF v
    <3>5. /\ v.curr = ui.curr /\ v.attached = ui.attached /\ v.shells = ui.shells
          /\ v.hides = ui.hides /\ v.starting = ui.starting /\ v.first = ui.first
          /\ v.ready = ui.ready /\ v.armed = ui.armed /\ v.fetching = ui.fetching
          /\ v.doc = ui.doc
      BY <3>4 DEF Fields
    <3>6. v.contents \in [{1, 2} -> View] /\ v.contents[D!Other(v)] = D!Blank
      BY <3>1, <3>3, <3>5, <1>b, <1>u DEF UI, D!Other
    <3> QED BY <3>2, <3>3, <3>5, <3>6, <1>u DEF UI
  <2> HIDE DEF v
  <2>4. /\ Rendering(ui') /\ Hiding(ui') /\ ui'.doc = ui.doc /\ ui'.first = ui.first
        /\ ui' = ui \/ ui'.failed = TRUE
    <3>1. CASE ui.stage = "loading"
      <4>1. ui' = v BY <2>1, <3>1 DEF v
      <4> QED BY <4>1, <2>3 DEF Rendering, Hiding
    <3>2. CASE ui.stage # "loading" BY <2>1, <3>2
    <3> QED BY <3>1, <3>2
  <2>5. Given' BY <2>1, <2>2, <2>4 DEF Given
  <2>6. Following' BY <2>1, <2>2, <2>4 DEF Following
  <2> QED BY <2>1, <2>4, <2>5, <2>6, <1>r
<1>7. CASE D!AnimationEnds
  <2>1. /\ UNCHANGED D!requests /\ UNCHANGED <<input, queue>>
        /\ \/ ui.stage = "leaving" /\ ui' = D!Enter([ui EXCEPT !.attached = @ \ {ui.curr}])
           \/ ui.stage = "entering" /\ ui' = D!Rendered(ui)
    BY <1>7 DEF D!AnimationEnds
  <2>2. UNCHANGED document BY <2>1 DEF D!requests
  <2>3. ASSUME ui.stage = "leaving", ui' = D!Enter([ui EXCEPT !.attached = @ \ {ui.curr}])
        PROVE  /\ Rendering(ui') /\ Hiding(ui') /\ ui'.doc = ui.doc /\ ui'.first = ui.first
               /\ ui'.shells > 0
    <3> DEFINE v == [ui EXCEPT !.attached = @ \ {ui.curr}]
    <3>1. ui.attached = {ui.curr} /\ Preparing(ui) BY <2>3 DEF Rendering
    <3>2. HasFields(v) BY <1>u DEF UI, HasFields, Fields
    <3>3. v.attached = {} /\ \A f \in Fields \ {"attached"} : v[f] = ui[f]
      BY <1>u, <3>1 DEF UI, HasFields, Fields
    <3> HIDE DEF v
    <3>4. UI(v) /\ v.doc = ui.doc /\ v.first = ui.first BY <3>2, <3>3, <1>u DEF UI, Fields
    <3>5. Preparing(v) BY <3>1, <3>3 DEF Preparing, D!Other, Fields
    <3>6. Hiding(v) BY <3>3 DEF Hiding, Fields
    <3>7. ui' = D!Enter(v) BY <2>3 DEF v
    <3> QED BY <3>4, <3>5, <3>6, <3>7, EnterIs
  <2>4. ASSUME ui.stage = "entering", ui' = D!Rendered(ui)
        PROVE  /\ Rendering(ui') /\ Hiding(ui') /\ ui'.doc = ui.doc /\ ui'.first = ui.first
               /\ ui.failed = FALSE /\ ui'.shells = ui.shells /\ ui'.shell = ui.shell
    <3> DEFINE w == D!Rendered(ui)
    <3>1. Preparing(ui) /\ ui.attached = {D!Other(ui)} /\ ui.toc = ui.doc BY <2>4 DEF Rendering
    <3>2. /\ UI(w) /\ w.curr = D!Other(ui) /\ D!Other(w) = ui.curr
          /\ w.contents[ui.curr] = D!Blank
          /\ w.contents[D!Other(ui)] = ui.contents[D!Other(ui)]
          /\ w.stage = "idle" /\ w.failed = FALSE /\ w.transitioning = FALSE
          /\ w.attached = ui.attached /\ w.toc = ui.toc
          /\ w.shells = ui.shells /\ w.shell = ui.shell /\ w.doc = ui.doc /\ w.noindex = ui.noindex
          /\ w.first = ui.first /\ w.armed = ui.armed /\ w.fetching = ui.fetching
          /\ w.hides = ui.hides /\ w.ready = ui.ready
      BY <1>u, RenderedIs
    <3> HIDE DEF w
    <3>3. Shown(w) BY <3>1, <3>2 DEF Shown, Preparing
    <3>4. Rendering(w) BY <3>2, <3>3 DEF Rendering
    <3>5. Hiding(w) BY <3>2 DEF Hiding
    <3> QED BY <3>1, <3>2, <3>4, <3>5, <2>4 DEF w, Preparing
  <2>5. Rendering(ui') /\ Hiding(ui') /\ ui'.doc = ui.doc /\ ui'.first = ui.first
    BY <2>1, <2>3, <2>4
  <2>6. Given' BY <2>1, <2>2, <2>5 DEF Given
  <2>7. Following'
    <3>1. CASE ui.stage = "leaving" BY <2>1, <2>3, <3>1 DEF Following
    <3>2. CASE ui.stage = "entering" BY <2>1, <2>2, <2>4, <3>2 DEF Following
    <3> QED BY <3>1, <3>2, <2>1
  <2> QED BY <2>1, <2>5, <2>6, <2>7, <1>r
<1>8. CASE D!Timers /\ document = input
  <2>1. /\ UNCHANGED D!requests /\ UNCHANGED <<input, queue>>
        /\ \/ D!FetchingTimer \/ D!HideTimer \/ D!ShellTimer \/ D!StartTimer \/ D!FirstShell
    BY <1>8 DEF D!Timers
  <2>2. UNCHANGED document BY <2>1 DEF D!requests
  <2> DEFINE shellFields == {"shells", "shell", "first", "armed", "fetching", "hides", "starting", "starts"}
             Frame == HasFields(ui') /\ \A f \in Fields \ shellFields : ui'[f] = ui[f]
  <2>3. /\ Frame /\ UI(ui') /\ Hiding(ui')
        /\ \/ ui'.first = ui.first /\ ui'.shells = ui.shells /\ ui'.shell = ui.shell
           \/ ui'.first = ui.first /\ ui'.shell = document
           \/ ui'.shell = document /\ document # D!Blank
    <3>1. CASE D!FetchingTimer
      <4>1. ui.armed # FALSE /\ ui' = [ui EXCEPT !.armed = FALSE, !.fetching = TRUE]
        BY <3>1 DEF D!FetchingTimer
      <4>2. HasFields(ui') BY <4>1, <1>u DEF UI, HasFields, Fields
      <4>3. /\ ui'.armed = FALSE /\ \A f \in Fields \ {"armed", "fetching"} : ui'[f] = ui[f]
        BY <4>1, <1>u DEF UI, HasFields, Fields
      <4>4. UI(ui') BY <4>2, <4>3, <1>u DEF UI, Fields
      <4>5. Hiding(ui') BY <4>1, <4>3 DEF Hiding, Fields
      <4> QED BY <4>2, <4>3, <4>4, <4>5 DEF Fields
    <3>2. CASE D!HideTimer
      <4>1. ui.hides > 0 /\ ui' = [ui EXCEPT !.hides = @ - 1, !.fetching = FALSE]
        BY <3>2 DEF D!HideTimer
      <4>2. HasFields(ui') BY <4>1, <1>u DEF UI, HasFields, Fields
      <4>3. /\ ui'.hides = ui.hides - 1 /\ ui'.fetching = FALSE
            /\ \A f \in Fields \ {"hides", "fetching"} : ui'[f] = ui[f]
        BY <4>1, <1>u DEF UI, HasFields, Fields
      <4>4. UI(ui') BY <4>1, <4>2, <4>3, <1>u DEF UI, Fields
      <4>5. Hiding(ui') BY <4>1, <4>3 DEF Hiding, Fields
      <4> QED BY <4>2, <4>3, <4>4, <4>5 DEF Fields
    <3>3. CASE D!ShellTimer
      <4>1. ui.shells > 0 /\ ui' = [ui EXCEPT !.shells = @ - 1, !.shell = document]
        BY <3>3 DEF D!ShellTimer
      <4>2. HasFields(ui') BY <4>1, <1>u DEF UI, HasFields, Fields
      <4>3. /\ ui'.shells = ui.shells - 1 /\ ui'.shell = document
            /\ \A f \in Fields \ {"shells", "shell"} : ui'[f] = ui[f]
        BY <4>1, <1>u DEF UI, HasFields, Fields
      <4>4. UI(ui') BY <4>1, <4>2, <4>3, <1>u DEF UI, Fields
      <4>5. Hiding(ui') BY <4>1, <4>3 DEF Hiding, Fields
      <4> QED BY <4>2, <4>3, <4>4, <4>5 DEF Fields
    <3>4. CASE D!StartTimer
      <4>1. ui' = [ui EXCEPT !.starts = @ - 1, !.starting = FALSE]
        BY <3>4 DEF D!StartTimer
      <4>2. HasFields(ui') BY <4>1, <1>u DEF UI, HasFields, Fields
      <4>3. ui'.starting = FALSE /\ \A f \in Fields \ {"starts", "starting"} : ui'[f] = ui[f]
        BY <4>1, <1>u DEF UI, HasFields, Fields
      <4>4. UI(ui') BY <4>2, <4>3, <1>u DEF UI, Fields
      <4>5. Hiding(ui') BY <4>3 DEF Hiding, Fields
      <4> QED BY <4>2, <4>3, <4>4, <4>5 DEF Fields
    <3>5. CASE D!FirstShell
      <4>1. document # D!Blank /\ ui' = [ui EXCEPT !.first = FALSE, !.shell = document]
        BY <3>5 DEF D!FirstShell
      <4>2. HasFields(ui') BY <4>1, <1>u DEF UI, HasFields, Fields
      <4>3. /\ ui'.shell = document /\ ui'.first = FALSE
            /\ \A f \in Fields \ {"first", "shell"} : ui'[f] = ui[f]
        BY <4>1, <1>u DEF UI, HasFields, Fields
      <4>4. UI(ui') BY <4>2, <4>3, <1>u DEF UI, Fields
      <4>5. Hiding(ui') BY <4>3 DEF Hiding, Fields
      <4> QED BY <4>1, <4>2, <4>3, <4>4, <4>5 DEF Fields
    <3> QED BY <2>1, <3>1, <3>2, <3>3, <3>4, <3>5
  <2>4. /\ ui'.curr = ui.curr /\ ui'.attached = ui.attached /\ ui'.contents = ui.contents
        /\ ui'.doc = ui.doc /\ ui'.stage = ui.stage /\ ui'.failed = ui.failed
        /\ ui'.noindex = ui.noindex /\ ui'.toc = ui.toc /\ ui'.transitioning = ui.transitioning
    BY <2>3 DEF Fields
  <2>5. Rendering(ui)' BY <2>3, <2>4, SameViews
  <2>6. Given' BY <2>1, <2>2, <2>3, <2>4 DEF Given
  <2>7. Following' BY <2>1, <2>2, <2>3, <2>4 DEF Following
  <2> QED BY <2>1, <2>3, <2>5, <2>6, <2>7, <1>r
<1>9. CASE D!ChangeDetected
  <2>1. /\ input' = document /\ queue' = Append(queue, document) /\ UNCHANGED D!requests
        /\ UNCHANGED ui
    BY <1>9 DEF D!ChangeDetected
  <2>2. UNCHANGED document BY <2>1 DEF D!requests
  <2>3. queue \in Seq(View) /\ document \in View BY DEF Given
  <2>4. queue' \in Seq(View) /\ queue' # <<>> /\ queue'[Len(queue')] = input' BY <2>1, <2>3
  <2>5. Given' BY <2>1, <2>2, <2>3, <2>4 DEF Given
  <2>6. Following' BY <2>4 DEF Following
  <2> QED BY <2>1, <2>5, <2>6, <1>r DEF Rendering, Hiding
<1>10. CASE UNCHANGED D!vars
  <2>1. UNCHANGED D!requests /\ UNCHANGED <<document, input, queue, ui>>
    BY <1>10 DEF D!vars, D!requests
  <2>2. Given' BY <2>1 DEF Given
  <2>3. Following' BY <2>1 DEF Following
  <2> QED BY <2>1, <2>2, <2>3, <1>r DEF Rendering, Hiding
<1> QED
  BY <1>1, <1>3, <1>4, <1>5, <1>6, <1>7, <1>8, <1>9, <1>10 DEF D!Next, D!Task

-----------------------------------------------------------------------------
(* Together.                                                                *)

(* What holds of the part that a behaviour is of.                           *)
ToolsInv ==
  /\ part = "installation" => InstallationInv
  /\ part = "skill" => SkillInv
  /\ part = "publication" => PublicationInv
  /\ part = "semantics" => SemanticInv
  /\ part = "files" => FilesInv
  /\ part = "docs" => DocsInv
  /\ part = "spy" => SpyInv
  /\ part = "search" => SearchInv

(* Each part starts as its module says.                                     *)
LEMMA ToolsInit ==
  ASSUME Init
  PROVE  ToolsInv
<1> USE ConstantsOK DEF ConstantsOK
<1>1. ASSUME part = "installation" PROVE InstallationInv
  <2>1. I!Init BY <1>1 DEF Init
  <2> QED BY <2>1, InstallationInit
<1>2. ASSUME part = "skill" PROVE SkillInv
  <2>1. K!Init BY <1>2 DEF Init
  <2> QED BY <2>1, SkillInit
<1>3. ASSUME part = "publication" PROVE PublicationInv
  <2>1. B!Init BY <1>3 DEF Init
  <2> QED BY <2>1, PublicationInit
<1>4. ASSUME part = "semantics" PROVE SemanticInv
  <2>1. M!Init BY <1>4 DEF Init
  <2> QED BY <2>1, SemanticInit
<1>5. ASSUME part = "files" PROVE FilesInv
  <2>1. F!Init BY <1>5 DEF Init
  <2> QED BY <2>1, FilesInit
<1>6. ASSUME part = "docs" PROVE DocsInv
  <2>1. D!Init BY <1>6 DEF Init
  <2> QED BY <2>1, DocsInit
<1>7. ASSUME part = "spy" PROVE SpyInv
  <2>1. Y!Init BY <1>7 DEF Init
  <2> QED BY <2>1, SpyInit
<1>8. ASSUME part = "search" PROVE SearchInv
  <2>1. C!Init BY <1>8 DEF Init
  <2> QED BY <2>1, SearchInit
<1> QED BY <1>1, <1>2, <1>3, <1>4, <1>5, <1>6, <1>7, <1>8 DEF ToolsInv

(* A step of Tools is one of its part, or leaves all of it alone.           *)
LEMMA PartSteps ==
  ASSUME [Next]_vars
  PROVE  /\ part' = part
         /\ part = "installation" => [I!Next]_(I!vars)
         /\ part = "skill" => [K!Next]_(K!vars)
         /\ part = "publication" => [B!Next]_(B!vars)
         /\ part = "semantics" => [M!Next]_(M!vars)
         /\ part = "files" => [F!Next]_(F!vars)
         /\ part = "docs" => [D!Next]_(D!vars)
         /\ part = "spy" => [Y!Next]_(Y!vars)
         /\ part = "search" => [C!Next]_(C!vars)
<1>1. CASE Next
  <2>1. part' = part BY <1>1 DEF Next
  <2>2. part = "installation" => I!Next BY <1>1 DEF Next, Tool, Site
  <2>3. part = "skill" => K!Next BY <1>1 DEF Next, Tool, Site
  <2>4. part = "publication" => B!Next BY <1>1 DEF Next, Tool, Site
  <2>5. part = "semantics" => M!Next BY <1>1 DEF Next, Tool, Site
  <2>6. part = "files" => F!Next BY <1>1 DEF Next, Tool, Site
  <2>7. part = "docs" => D!Next BY <1>1 DEF Next, Tool, Site
  <2>8. part = "spy" => Y!Next BY <1>1 DEF Next, Tool, Site
  <2>9. part = "search" => C!Next BY <1>1 DEF Next, Tool, Site
  <2> QED BY <2>1, <2>2, <2>3, <2>4, <2>5, <2>6, <2>7, <2>8, <2>9
<1>2. CASE UNCHANGED vars
  <2>1. part' = part BY <1>2 DEF vars
  <2>2. UNCHANGED I!vars BY <1>2 DEF vars, I!vars, ofInstallation
  <2>3. UNCHANGED K!vars BY <1>2 DEF vars, K!vars, ofSkill
  <2>4. UNCHANGED B!vars BY <1>2 DEF vars, B!vars, ofPublication
  <2>5. UNCHANGED M!vars BY <1>2 DEF vars, M!vars, ofSemantics
  <2>6. UNCHANGED F!vars BY <1>2 DEF vars, F!vars, ofFiles
  <2>7. UNCHANGED D!vars BY <1>2 DEF vars, D!vars, ofDocs
  <2>8. UNCHANGED Y!vars BY <1>2 DEF vars, Y!vars, ofSpy
  <2>9. UNCHANGED C!vars BY <1>2 DEF vars, C!vars, ofSearch
  <2> QED BY <2>1, <2>2, <2>3, <2>4, <2>5, <2>6, <2>7, <2>8, <2>9
<1> QED BY <1>1, <1>2

(* ToolsInv is inductive.                                                   *)
LEMMA ToolsStep ==
  ASSUME ToolsInv, [Next]_vars
  PROVE  ToolsInv'
<1> USE ConstantsOK DEF ConstantsOK
<1>0. part' = part BY PartSteps
<1>1. ASSUME part = "installation" PROVE InstallationInv'
  <2>1. InstallationInv /\ [I!Next]_(I!vars) BY <1>1, PartSteps DEF ToolsInv
  <2> QED BY <2>1, InstallationStep
<1>2. ASSUME part = "skill" PROVE SkillInv'
  <2>1. SkillInv /\ [K!Next]_(K!vars) BY <1>2, PartSteps DEF ToolsInv
  <2> QED BY <2>1, SkillStep
<1>3. ASSUME part = "publication" PROVE PublicationInv'
  <2>1. PublicationInv /\ [B!Next]_(B!vars) BY <1>3, PartSteps DEF ToolsInv
  <2> QED BY <2>1, PublicationStep
<1>4. ASSUME part = "semantics" PROVE SemanticInv'
  <2>1. SemanticInv /\ [M!Next]_(M!vars) BY <1>4, PartSteps DEF ToolsInv
  <2> QED BY <2>1, SemanticStep
<1>5. ASSUME part = "files" PROVE FilesInv'
  <2>1. FilesInv /\ [F!Next]_(F!vars) BY <1>5, PartSteps DEF ToolsInv
  <2> QED BY <2>1, FilesStep
<1>6. ASSUME part = "docs" PROVE DocsInv'
  <2>1. DocsInv /\ [D!Next]_(D!vars) BY <1>6, PartSteps DEF ToolsInv
  <2> QED BY <2>1, DocsStep
<1>7. ASSUME part = "spy" PROVE SpyInv'
  <2>1. SpyInv /\ [Y!Next]_(Y!vars) BY <1>7, PartSteps DEF ToolsInv
  <2> QED BY <2>1, SpyStep
<1>8. ASSUME part = "search" PROVE SearchInv'
  <2>1. SearchInv /\ [C!Next]_(C!vars) BY <1>8, PartSteps DEF ToolsInv
  <2> QED BY <2>1, SearchStep
<1> QED BY <1>0, <1>1, <1>2, <1>3, <1>4, <1>5, <1>6, <1>7, <1>8 DEF ToolsInv

(* In every part, the invariant of the part holds.                          *)
THEOREM ToolsInvariant == Spec => []ToolsInv
<1>1. Init => ToolsInv BY ToolsInit
<1>2. ToolsInv /\ [Next]_vars => ToolsInv' BY ToolsStep
<1> QED BY <1>1, <1>2, PTL DEF Spec

(* The documentation site shows nothing stale: the page, its table of       *)
(* contents and its shell are those of the location that was asked for last *)
(* (document.service.ts:43, doc-viewer.component.ts:136), the active        *)
(* heading is that of where the page is scrolled (scroll-spy.service.ts:60), *)
(* and the results are those of the last search (web-worker.ts:26).         *)
THEOREM ShowsNothingStale == Spec => []NothingStale
<1>1. ASSUME ToolsInv PROVE NothingStale
  <2> USE ConstantsOK DEF ConstantsOK
  <2>1. part = "docs" => D!NothingStale BY <1>1, DocsStale DEF ToolsInv
  <2>2. part = "spy" => Y!ListensOnce /\ Y!NothingStale BY <1>1, SpyStale DEF ToolsInv
  <2>3. part = "search" => C!NothingStale /\ C!WaitsForSomething
    BY <1>1 DEF ToolsInv, SearchInv
  <2> QED BY <2>1, <2>2, <2>3 DEF NothingStale
<1> QED BY <1>1, ToolsInvariant, PTL

(* What stops half way, and is perhaps run again, leaves all or nothing,    *)
(* after every step: of an installation of globals (polyfill index.ts:1346), *)
(* of a copy that the user edits while commands are at it                   *)
(* (skill-install.ts:236), of a publication (beta.mjs:83), of the migration *)
(* of a test file (semantics.ts:215), and of a batch of files (node.ts:130). *)
THEOREM LeavesAllOrNothing == Spec => AllOrNothing
<1> DEFINE Left ==
             /\ part = "installation" => I!AllOrNothing /\ I!ObservableNeedsAbort
             /\ part = "skill" => K!TypeOK /\ K!CopyKept /\ K!EditsKept /\ K!AllOrNothing
             /\ part = "publication" => B!TypeOK /\ B!AllOrNothing
             /\ part = "semantics" => M!AllOrNothing
             /\ part = "files" => F!AllOrNothing
           Kept ==
             /\ part' = part
             /\ part = "publication" => B!OnlyConfirmed
             /\ part = "files" => F!OthersKept
           Whole ==
             /\ part = "installation" => I!AllOrNothing' /\ I!ObservableNeedsAbort'
             /\ part = "skill" => K!TypeOK' /\ K!CopyKept' /\ K!EditsKept' /\ K!AllOrNothing'
             /\ part = "publication" => B!TypeOK' /\ B!AllOrNothing' /\ B!OnlyConfirmed
             /\ part = "semantics" => M!AllOrNothing'
             /\ part = "files" => F!AllOrNothing' /\ F!OthersKept
<1>1. ToolsInv => Left
  <2> SUFFICES ASSUME ToolsInv PROVE Left OBVIOUS
  <2> USE ConstantsOK DEF ConstantsOK
  <2>1. part = "installation" => I!AllOrNothing /\ I!ObservableNeedsAbort
    BY InstallationWhole DEF ToolsInv
  <2>2. part = "skill" => K!TypeOK /\ K!CopyKept /\ K!EditsKept /\ K!AllOrNothing
    BY SkillWhole DEF ToolsInv
  <2>3. part = "publication" => B!TypeOK /\ B!AllOrNothing BY DEF ToolsInv, PublicationInv
  <2>4. part = "semantics" => M!AllOrNothing BY SemanticWhole DEF ToolsInv
  <2>5. part = "files" => F!AllOrNothing BY FilesWhole DEF ToolsInv
  <2> QED BY <2>1, <2>2, <2>3, <2>4, <2>5
<1>2. ToolsInv /\ [Next]_vars => Kept
  <2> SUFFICES ASSUME ToolsInv, [Next]_vars PROVE Kept OBVIOUS
  <2> USE ConstantsOK DEF ConstantsOK
  <2>1. part' = part BY PartSteps
  <2>2. ASSUME part = "publication" PROVE B!OnlyConfirmed
    <3>1. PublicationInv /\ [B!Next]_(B!vars) BY <2>2, PartSteps DEF ToolsInv
    <3> QED BY <3>1, PublicationStep
  <2>3. ASSUME part = "files" PROVE F!OthersKept
    <3>1. FilesInv /\ [F!Next]_(F!vars) BY <2>3, PartSteps DEF ToolsInv
    <3> QED BY <3>1, FilesStep
  <2> QED BY <2>1, <2>2, <2>3
<1>3. Left' /\ Kept => Whole OBVIOUS
<1>4. AllOrNothing <=> [][Whole]_vars BY DEF AllOrNothing
<1> HIDE DEF Left, Kept, Whole
<1> QED BY <1>1, <1>2, <1>3, <1>4, ToolsInvariant, PTL DEF Spec
=============================================================================
