--------------------------------- MODULE Tools ---------------------------------
(***************************************************************************)
(* What surrounds the operators, side by side: what installs, migrates and  *)
(* publishes, each of which can stop half way, and the documentation site,  *)
(* whose parts answer late.  A behaviour is that of one of them.            *)
(***************************************************************************)
EXTENDS Naturals, Sequences

CONSTANTS
  Installers, MaxFaults,              (* of SkillInstall                   *)
  Commits, MaxAttempts,               (* of Publication                    *)
  Locals, Symbol, Pipelines, Size,    (* of SemanticMigration              *)
  Paths, Batch,                       (* of MigrationFiles                 *)
  Pages, MaxVisits,                   (* of DocsApp                        *)
  Layouts, Heights, Tops, Viewports, MaxTocs,  (* of ScrollSpy             *)
  Clients, MaxSearches                (* of SearchClient                   *)

(* 0 stands for none: no commit, page, path or layout yet.  A layout is told *)
(* from another one by its height, which is all that the page measures.     *)
ASSUME ConstantsOK ==
  /\ 0 \notin Commits /\ 0 \notin Pages /\ 0 \notin Paths /\ 0 \notin Layouts
  /\ \A l, m \in Layouts : Heights[l] = Heights[m] => l = m
  /\ MaxSearches \in Nat /\ Batch \in Nat \ {0} /\ Size \in Nat
  /\ "TestScheduler" \notin Locals

VARIABLES
  part,      (* which of them it is                                        *)
  (* of PlatformInstallation                                              *)
  before, now, plan, applied, kept, rollbackErrors, phase,
  (* of SkillInstall                                                      *)
  job, target, backup, stage, record, state, faults, past,
  (* of Publication                                                       *)
  dryRun, commit, confirmed, candidates, registry, seen, next, moved, attempts,
  (* of SemanticMigration                                                 *)
  file, inside, rewritten, refused, async, converted, preserved, imports, removed, status,
  (* of MigrationFiles                                                    *)
  inputs, outputs, results, disk, overwrite, late,
  (* of two or three of them                                              *)
  pc, at, path,
  (* of DocsApp                                                           *)
  visits, cache, document, input, queue, elements, ui,
  (* of ScrollSpy                                                         *)
  page, measured, groups, listening, due, tocs, spied, active, looked,
  (* of SearchClient                                                      *)
  ready, workers, nextId, loadId, calls, fetching, answers, searches, asked, waits, shows

ofInstallation == <<before, now, plan, applied, kept, rollbackErrors, phase>>

ofSkill == <<job, target, backup, stage, record, state, faults, past>>

ofPublication == <<dryRun, commit, confirmed, candidates, registry, seen, next, moved, attempts>>

ofSemantics ==
  <<file, inside, rewritten, refused, async, converted, preserved, imports, removed, status>>

ofFiles == <<inputs, outputs, results, disk, overwrite, late>>

ofDocs == <<visits, cache, document, input, queue, elements, ui>>

ofSpy == <<page, measured, groups, listening, due, tocs, spied, active, looked>>

ofSearch ==
  <<ready, workers, nextId, loadId, calls, fetching, answers, searches, asked, waits, shows>>

vars ==
  <<part, ofInstallation, ofSkill, ofPublication, ofSemantics, ofFiles, pc, at, path, ofDocs,
    ofSpy, ofSearch>>

I == INSTANCE PlatformInstallation

K == INSTANCE SkillInstall

B == INSTANCE Publication

M == INSTANCE SemanticMigration

F == INSTANCE MigrationFiles

D == INSTANCE DocsApp

Y == INSTANCE ScrollSpy

C == INSTANCE SearchClient

NoInstallation ==
  /\ before = 0 /\ now = 0 /\ plan = 0 /\ applied = 0 /\ kept = 0 /\ rollbackErrors = 0
  /\ phase = 0

NoSkill ==
  /\ job = 0 /\ target = 0 /\ backup = 0 /\ stage = 0 /\ record = 0 /\ state = 0 /\ faults = 0
  /\ past = 0

NoPublication ==
  /\ dryRun = 0 /\ commit = 0 /\ confirmed = 0 /\ candidates = 0 /\ registry = 0 /\ seen = 0
  /\ next = 0 /\ moved = 0 /\ attempts = 0

NoSemantics ==
  /\ file = 0 /\ inside = 0 /\ rewritten = 0 /\ refused = 0 /\ async = 0 /\ converted = 0
  /\ preserved = 0 /\ imports = 0 /\ removed = 0 /\ status = 0

NoFiles ==
  inputs = 0 /\ outputs = 0 /\ results = 0 /\ disk = 0 /\ overwrite = 0 /\ late = 0

NoDocs ==
  visits = 0 /\ cache = 0 /\ document = 0 /\ input = 0 /\ queue = 0 /\ elements = 0 /\ ui = 0

NoSpy ==
  /\ page = 0 /\ measured = 0 /\ groups = 0 /\ listening = 0 /\ due = 0 /\ tocs = 0 /\ spied = 0
  /\ active = 0 /\ looked = 0

NoSearch ==
  /\ ready = 0 /\ workers = 0 /\ nextId = 0 /\ loadId = 0 /\ calls = 0 /\ fetching = 0
  /\ answers = 0 /\ searches = 0 /\ asked = 0 /\ waits = 0 /\ shows = 0

NoTool == NoInstallation /\ NoSkill /\ NoPublication /\ NoSemantics /\ NoFiles

NoSite == NoDocs /\ NoSpy /\ NoSearch

Init ==
  \/ /\ NoSite
     /\ \/ /\ part = "installation" /\ I!Init
           /\ NoSkill /\ NoPublication /\ NoSemantics /\ NoFiles /\ pc = 0 /\ at = 0 /\ path = 0
        \/ /\ part = "skill" /\ K!Init
           /\ NoInstallation /\ NoPublication /\ NoSemantics /\ NoFiles /\ at = 0 /\ path = 0
        \/ /\ part = "publication" /\ B!Init
           /\ NoInstallation /\ NoSkill /\ NoSemantics /\ NoFiles /\ path = 0
        \/ /\ part = "semantics" /\ M!Init
           /\ NoInstallation /\ NoSkill /\ NoPublication /\ NoFiles /\ pc = 0
        \/ /\ part = "files" /\ F!Init
           /\ NoInstallation /\ NoSkill /\ NoPublication /\ NoSemantics /\ path = 0
  \/ /\ NoTool /\ pc = 0 /\ at = 0
     /\ \/ part = "docs" /\ D!Init /\ NoSpy /\ NoSearch
        \/ part = "spy" /\ Y!Init /\ NoDocs /\ NoSearch /\ path = 0
        \/ part = "search" /\ C!Init /\ NoDocs /\ NoSpy /\ path = 0

Tool ==
  /\ \/ /\ part = "installation" /\ I!Next
        /\ UNCHANGED <<ofSkill, ofPublication, ofSemantics, ofFiles, pc, at, path>>
     \/ /\ part = "skill" /\ K!Next
        /\ UNCHANGED <<ofInstallation, ofPublication, ofSemantics, ofFiles, at, path>>
     \/ /\ part = "publication" /\ B!Next
        /\ UNCHANGED <<ofInstallation, ofSkill, ofSemantics, ofFiles, path>>
     \/ /\ part = "semantics" /\ M!Next
        /\ UNCHANGED <<ofInstallation, ofSkill, ofPublication, ofFiles, pc>>
     \/ /\ part = "files" /\ F!Next
        /\ UNCHANGED <<ofInstallation, ofSkill, ofPublication, ofSemantics, path>>
  /\ UNCHANGED <<ofDocs, ofSpy, ofSearch>>

Site ==
  /\ \/ part = "docs" /\ D!Next /\ UNCHANGED <<ofSpy, ofSearch>>
     \/ part = "spy" /\ Y!Next /\ UNCHANGED <<ofDocs, ofSearch, path>>
     \/ part = "search" /\ C!Next /\ UNCHANGED <<ofDocs, ofSpy, path>>
  /\ UNCHANGED <<ofInstallation, ofSkill, ofPublication, ofSemantics, ofFiles, pc, at>>

Next == UNCHANGED part /\ (Tool \/ Site)

Spec == Init /\ [][Next]_vars

-----------------------------------------------------------------------------
(* What stops half way, and is perhaps run again, leaves behind what it     *)
(* found, or all that it was to make, or what its last words tell: the      *)
(* globals of a realm (polyfill index.ts:1346); the copy of a user, who may *)
(* have edited it, while two commands are at it (skill-install.ts:236);     *)
(* packages in a registry, all from one commit, in order and confirmed      *)
(* (beta.mjs:83); a test file in which everything legacy is converted, with *)
(* the imports that it needs (semantics.ts:215); and the files of a batch   *)
(* (node.ts:130), of which none is written unless all of them can be.       *)
AllOrNothing ==
  [][/\ part = "installation" => I!AllOrNothing' /\ I!ObservableNeedsAbort'
     /\ part = "skill" => K!TypeOK' /\ K!CopyKept' /\ K!EditsKept' /\ K!AllOrNothing'
     /\ part = "publication" => B!TypeOK' /\ B!AllOrNothing' /\ B!OnlyConfirmed
     /\ part = "semantics" => M!AllOrNothing'
     /\ part = "files" => F!AllOrNothing' /\ F!OthersKept]_vars

(* What is shown belongs to what was asked for last, whatever answers late: *)
(* the page, with its table of contents, shell and progress bar, to the     *)
(* location (document.service.ts:43, doc-viewer.component.ts:136); the      *)
(* active heading to where the page is scrolled (scroll-spy.service.ts:60); *)
(* the results to the last search (web-worker.ts:26).                       *)
NothingStale ==
  /\ part = "docs" => D!NothingStale
  /\ part = "spy" => Y!ListensOnce /\ Y!NothingStale
  /\ part = "search" => C!NothingStale /\ C!WaitsForSomething
=============================================================================
