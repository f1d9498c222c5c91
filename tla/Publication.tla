------------------------------ MODULE Publication ------------------------------
(***************************************************************************)
(* The publication of a beta: four packages packed from one checkout, each *)
(* sent to a registry that takes a version once and forever, rxjs last.    *)
(* The command fails or is killed anywhere and is run again, perhaps from  *)
(* another commit; the registry answers late, and an answer may be lost.   *)
(***************************************************************************)
EXTENDS Naturals, Sequences

CONSTANTS
  Commits,     (* what the packages may be built from                      *)
  MaxAttempts  (* how often the command is started                         *)

VARIABLES
  dryRun,     (* whether this attempt is one                               *)
  commit,     (* what the checkout is at                                   *)
  confirmed,  (* whether the version has been typed                        *)
  candidates, (* what each package was packed from, in order               *)
  at,         (* the package that the step is about                        *)
  pc,         (* the step of the command                                   *)
  registry,   (* what each package was published from; 0: it is not there  *)
  seen,       (* whether those who ask are already told of it              *)
  next,       (* whether the next tag of each is this version              *)
  moved,      (* the packages whose tag was set to another version after   *)
              (* this attempt had asked for it                             *)
  attempts

vars == <<dryRun, commit, confirmed, candidates, at, pc, registry, seen, next, moved, attempts>>

attempt == <<dryRun, commit>>

registered == <<registry, seen, next, moved>>

(* polyfill, test, migrate and rxjs, which depends on the first.            *)
Packages == 1..4

Stopped == {"idle", "failed", "killed", "packed only", "published"}

Init ==
  /\ dryRun = FALSE /\ commit = 0 /\ confirmed = FALSE /\ candidates = <<>> /\ at = 1
  /\ pc = "idle"
  /\ registry = [p \in Packages |-> 0] /\ seen = [p \in Packages |-> FALSE]
  /\ next = [p \in Packages |-> FALSE] /\ moved = {}
  /\ attempts = 0

(* The checks of the version, the checkout and the terminal, and the local  *)
(* verification: they change nothing and may all fail.                      *)
Start ==
  /\ pc \in Stopped /\ attempts < MaxAttempts
  /\ attempts' = attempts + 1
  /\ dryRun' \in BOOLEAN /\ commit' \in Commits
  /\ confirmed' = FALSE /\ candidates' = <<>> /\ at' = 1
  /\ pc' = "pack" /\ moved' = {}
  /\ UNCHANGED <<registry, seen, next>>

Pack ==
  /\ pc = "pack"
  /\ candidates' = Append(candidates, commit)
  /\ pc' = IF Len(candidates') = 4 THEN "rehearse" ELSE "pack"
  /\ UNCHANGED <<attempt, confirmed, at, registered, attempts>>

(* npm publish --dry-run of each, after which a dry run is over; the others *)
(* ask for the version.                                                     *)
Rehearse ==
  /\ pc = "rehearse"
  /\ pc' = IF dryRun THEN "packed only" ELSE "confirm"
  /\ UNCHANGED <<attempt, confirmed, candidates, at, registered, attempts>>

Confirm ==
  /\ pc = "confirm"
  /\ \/ confirmed' = TRUE /\ pc' = "look"
     \/ confirmed' = FALSE /\ pc' = "failed"
  /\ UNCHANGED <<attempt, candidates, at, registered, attempts>>

(* The step after the package has been verified.                            *)
Further ==
  /\ at' = (at % 4) + 1
  /\ pc' = IF at = 4 THEN "tags" ELSE "look"

(* registryIntegrity(), before the package is published...                  *)
Look ==
  /\ pc = "look"
  /\ \/ ~seen[at] /\ pc' = "publish" /\ UNCHANGED at
     \/ seen[at] /\ registry[at] = candidates[at] /\ Further
     \/ seen[at] /\ registry[at] # candidates[at] /\ pc' = "failed" /\ UNCHANGED at
  /\ UNCHANGED <<attempt, confirmed, candidates, registered, attempts>>

(* ...npm publish, which the registry refuses for a version that it has,    *)
(* and which sets the tag with it...                                        *)
Publish ==
  /\ pc = "publish"
  /\ IF registry[at] = 0
     THEN /\ registry' = [registry EXCEPT ![at] = candidates[at]]
          /\ next' = [next EXCEPT ![at] = TRUE]
          /\ pc' \in {"verify", "failed"}
     ELSE pc' = "failed" /\ UNCHANGED <<registry, next>>
  /\ UNCHANGED <<attempt, confirmed, candidates, at, seen, moved, attempts>>

(* ...and registryIntegrity() again, which has to be that of the tarball.   *)
Verify ==
  /\ pc = "verify"
  /\ IF seen[at] /\ registry[at] = candidates[at] THEN Further
     ELSE pc' = "failed" /\ UNCHANGED at
  /\ UNCHANGED <<attempt, confirmed, candidates, registered, attempts>>

(* npm view of each tag, one after the other...                             *)
VerifyTag ==
  /\ pc = "tags"
  /\ \/ next[at] /\ at < 4 /\ at' = at + 1 /\ UNCHANGED pc
     \/ next[at] /\ at = 4 /\ pc' = "latest" /\ UNCHANGED at
     \/ ~next[at] /\ pc' = "failed" /\ UNCHANGED at
  /\ UNCHANGED <<attempt, confirmed, candidates, registered, attempts>>

(* ...and of rxjs@latest, which others have set.                            *)
VerifyLatest ==
  /\ pc = "latest"
  /\ pc' \in {"published", "failed"}
  /\ UNCHANGED <<attempt, confirmed, candidates, at, registered, attempts>>

(* A command that fails throws; one that is killed stops where it is.       *)
Fails ==
  /\ pc \notin Stopped
  /\ pc' \in {"failed", "killed"}
  /\ UNCHANGED <<attempt, confirmed, candidates, at, registered, attempts>>

(* The registry tells of what it was given...                               *)
Propagates(p) ==
  /\ registry[p] # 0 /\ ~seen[p]
  /\ seen' = [seen EXCEPT ![p] = TRUE]
  /\ UNCHANGED <<attempt, confirmed, candidates, at, pc, registry, next, moved, attempts>>

(* ...and somebody may set the tag of a package to another version, also    *)
(* between two requests of the command.                                     *)
AskedFor(p) == (pc = "tags" /\ p < at) \/ pc \in {"latest", "published"}

Retagged(p) ==
  /\ next[p]
  /\ next' = [next EXCEPT ![p] = FALSE]
  /\ moved' = IF AskedFor(p) THEN moved \cup {p} ELSE moved
  /\ UNCHANGED <<attempt, confirmed, candidates, at, pc, registry, seen, attempts>>

Next ==
  \/ Start \/ Pack \/ Rehearse \/ Confirm \/ Look \/ Publish \/ Verify \/ VerifyTag \/ VerifyLatest
  \/ Fails
  \/ \E p \in Packages : Propagates(p) \/ Retagged(p)

Spec == Init /\ [][Next]_vars

-----------------------------------------------------------------------------
(* Properties.                                                              *)

TypeOK ==
  /\ dryRun \in BOOLEAN /\ commit \in Commits \cup {0} /\ confirmed \in BOOLEAN
  /\ candidates \in Seq(Commits) /\ Len(candidates) <= 4
  /\ at \in Packages
  /\ registry \in [Packages -> Commits \cup {0}]
  /\ seen \in [Packages -> BOOLEAN] /\ next \in [Packages -> BOOLEAN] /\ moved \subseteq Packages
  /\ \A p \in Packages : seen[p] \/ next[p] => registry[p] # 0

(* beta.mjs:83: whatever fails and however often it is run, what is there   *)
(* was all packed from one commit, a package is there only with those       *)
(* before it, and rxjs with all that it depends on; a command that says that *)
(* all is published has seen the next tag of each, and it is still there    *)
(* unless somebody has moved it since it was asked for.                     *)
AllOrNothing ==
  /\ \A p, q \in Packages : p < q /\ registry[q] # 0 => registry[p] = registry[q]
  /\ pc = "published" =>
       \A p \in Packages : registry[p] = candidates[p] /\ (next[p] \/ p \in moved)

(* beta.mjs:75 and 81: nothing is sent by a dry run, or before the version   *)
(* has been typed.  Of each step.                                           *)
OnlyConfirmed ==
  registry' # registry => confirmed /\ ~dryRun
=============================================================================
