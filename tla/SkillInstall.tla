----------------------------- MODULE SkillInstall -----------------------------
(***************************************************************************)
(* The installation of the migration Skill into a project: a command looks *)
(* at the copy that is there, decides, and replaces or removes it in steps *)
(* of the file system.  Any step may fail, any process may be killed, two  *)
(* processes may be at it at once, and the user edits the copy at any time, *)
(* also between the look of a command and its act.                         *)
(***************************************************************************)
EXTENDS Naturals, FiniteSets

CONSTANTS
  Installers,  (* the processes                                            *)
  MaxFaults    (* how many steps fail and processes are killed, together   *)

VARIABLES
  job,      (* the command of each process, force, and the revision it has *)
  target,   (* the copy that is installed                                  *)
  backup,   (* the copy each process has moved away                        *)
  stage,    (* the copy each process has prepared                          *)
  record,   (* the revision each process has read in the provenance        *)
  state,    (* what each process has found the copy to be                  *)
  pc,       (* where each process is                                       *)
  faults,   (* the number of faults so far                                 *)
  past      (* what there has been: a copy of use; and whether the copy was *)
            (* edited last while no command was between look and act       *)

vars == <<job, target, backup, stage, record, state, pc, faults, past>>

(* A copy is that of a revision, edited or not, or what is left of one.     *)
Copy == [rev : 1..2, form : {"whole", "edited", "partial"}]

None == [rev |-> 0, form |-> "none"]

Whole(rev) == [rev |-> rev, form |-> "whole"]

Partial(copy) == IF copy = None THEN None ELSE [copy EXCEPT !.form = "partial"]

Ended == {"done", "refused", "failed", "killed"}

Init ==
  /\ job \in [Installers -> [command : {"check", "install", "update", "remove"},
                             force : BOOLEAN, rev : 1..2]]
  /\ target \in {None, Whole(1), [rev |-> 1, form |-> "edited"], Partial(Whole(1))}
  /\ backup = [p \in Installers |-> None] /\ stage = [p \in Installers |-> None]
  /\ record = [p \in Installers |-> 0] /\ state = [p \in Installers |-> "unknown"]
  /\ pc = [p \in Installers |-> "start"]
  /\ faults = 0
  /\ past = [copy |-> target.form \in {"whole", "edited"}, edited |-> target.form = "edited"]

Goto(p, place) == pc' = [pc EXCEPT ![p] = place]

Found(p, what) == state' = [state EXCEPT ![p] = what] /\ Goto(p, "decide")

(* installationState(): what is no directory, or has no provenance that can *)
(* be read, counts as modified...                                           *)
ReadProvenance(p) ==
  /\ pc[p] = "start"
  /\ CASE target = None -> Found(p, "absent") /\ UNCHANGED record
       [] target.form = "partial" -> Found(p, "modified") /\ UNCHANGED record
       [] OTHER -> /\ record' = [record EXCEPT ![p] = target.rev]
                   /\ Goto(p, "digest") /\ UNCHANGED state
  /\ UNCHANGED <<job, target, backup, stage, faults, past>>

(* ...and so does one whose files are not those of that provenance; another *)
(* process may have moved the copy since.                                   *)
ReadFiles(p) ==
  /\ pc[p] = "digest"
  /\ Found(p, IF target # Whole(record[p]) THEN "modified"
              ELSE IF record[p] = job[p].rev THEN "current" ELSE "stale")
  /\ UNCHANGED <<job, target, backup, stage, record, faults, past>>

Unneeded(p) ==
  \/ job[p].command = "check"
  \/ job[p].command = "remove" /\ state[p] = "absent"
  \/ job[p].command \in {"install", "update"} /\ state[p] = "current"

(* A mutant: an update takes what was edited for something stale.           *)
BugUpdatesEdited(p) ==
  ~job[p].force /\ job[p].command = "install" /\ state[p] \in {"modified", "stale"}

Refuses(p) ==
  /\ ~job[p].force
  /\ state[p] = "modified" \/ (job[p].command = "install" /\ state[p] = "stale")

Decide(p) ==
  /\ pc[p] = "decide"
  /\ Goto(p, IF Unneeded(p) THEN "done"
             ELSE IF Refuses(p) THEN "refused"
             ELSE IF job[p].command = "remove" THEN "remove" ELSE "copy")
  /\ UNCHANGED <<job, target, backup, stage, record, state, faults, past>>

(* rm() takes one file after the other.                                     *)
Remove(p) ==
  /\ \/ pc[p] = "remove" /\ target # None /\ target' = Partial(target) /\ Goto(p, "removing")
     \/ pc[p] = "removing" /\ target # None /\ target' = None /\ Goto(p, "done")
     \/ pc[p] \in {"remove", "removing"} /\ target = None /\ UNCHANGED target /\ Goto(p, "failed")
  /\ UNCHANGED <<job, backup, stage, record, state, faults, past>>

(* replaceInstallation(): the new copy is complete before the old one moves. *)
CopyToStage(p) ==
  /\ pc[p] = "copy"
  /\ stage' = [stage EXCEPT ![p] = Whole(job[p].rev)]
  /\ Goto(p, "move")
  /\ UNCHANGED <<job, target, backup, record, state, faults, past>>

MoveAway(p) ==
  /\ pc[p] = "move"
  /\ backup' = [backup EXCEPT ![p] = target]
  /\ target' = None
  /\ Goto(p, "place")
  /\ UNCHANGED <<job, stage, record, state, faults, past>>

(* A directory that another process has put there is not replaced.          *)
Place(p) ==
  /\ pc[p] = "place"
  /\ IF target = None
     THEN /\ target' = stage[p] /\ stage' = [stage EXCEPT ![p] = None]
          /\ past' = [past EXCEPT !.copy = TRUE]
          /\ Goto(p, IF backup[p] = None THEN "clean" ELSE "discard")
     ELSE Goto(p, "restore") /\ UNCHANGED <<target, stage, past>>
  /\ UNCHANGED <<job, backup, record, state, faults>>

Discard(p) ==
  /\ pc[p] \in {"discard", "discarding"}
  /\ backup' = [backup EXCEPT ![p] = IF pc[p] = "discard" THEN Partial(@) ELSE None]
  /\ Goto(p, IF pc[p] = "discard" THEN "discarding" ELSE "clean")
  /\ UNCHANGED <<job, target, stage, record, state, faults, past>>

(* The catch: the backup returns if it can, and stays where it is if not.   *)
Restore(p) ==
  /\ pc[p] = "restore"
  /\ IF backup[p] # None /\ target = None
     THEN target' = backup[p] /\ backup' = [backup EXCEPT ![p] = None]
     ELSE UNCHANGED <<target, backup>>
  /\ Goto(p, "giveUp")
  /\ UNCHANGED <<job, stage, record, state, faults, past>>

CleanUp(p) ==
  /\ pc[p] \in {"clean", "giveUp"}
  /\ stage' = [stage EXCEPT ![p] = None]
  /\ Goto(p, IF pc[p] = "clean" THEN "done" ELSE "failed")
  /\ UNCHANGED <<job, target, backup, record, state, faults, past>>

(* Where the process goes from a step that fails.                           *)
AfterFault(p) ==
  CASE pc[p] \in {"copy", "move", "restore"} -> "giveUp"
    [] pc[p] \in {"place", "discard", "discarding"} -> "restore"
    [] OTHER -> "failed"

StepFails(p) ==
  /\ pc[p] \notin Ended \cup {"digest", "decide"} /\ faults < MaxFaults
  /\ faults' = faults + 1
  /\ stage' = [stage EXCEPT ![p] = IF pc[p] = "copy" THEN Partial(Whole(job[p].rev)) ELSE @]
  /\ Goto(p, AfterFault(p))
  /\ UNCHANGED <<job, target, backup, record, state, past>>

(* An error met while the digest is taken reads as a modified copy.         *)
DigestFails(p) ==
  /\ pc[p] = "digest" /\ faults < MaxFaults
  /\ faults' = faults + 1
  /\ Found(p, "modified")
  /\ UNCHANGED <<job, target, backup, stage, record, past>>

Killed(p) ==
  /\ pc[p] \notin Ended /\ faults < MaxFaults
  /\ faults' = faults + 1
  /\ Goto(p, "killed")
  /\ UNCHANGED <<job, target, backup, stage, record, state, past>>

(* A command that has taken the copy for something other than an edited     *)
(* one, and has yet to act on it.                                           *)
BetweenLookAndAct(p) ==
  \/ pc[p] = "decide" /\ state[p] # "modified"
  \/ pc[p] \in {"copy", "move", "remove", "removing"}

(* The user edits the copy, whatever the commands are at.                   *)
Edit ==
  /\ target.form = "whole"
  /\ target' = [target EXCEPT !.form = "edited"]
  /\ past' = [past EXCEPT !.edited = \A p \in Installers : ~BetweenLookAndAct(p)]
  /\ UNCHANGED <<job, backup, stage, record, state, pc, faults>>

Command(p) ==
  \/ ReadProvenance(p) \/ ReadFiles(p) \/ Decide(p) \/ Remove(p) \/ CopyToStage(p)
  \/ MoveAway(p) \/ Place(p) \/ Discard(p) \/ Restore(p) \/ CleanUp(p)

Next ==
  \/ \E p \in Installers : Command(p) \/ StepFails(p) \/ DigestFails(p) \/ Killed(p)
  \/ Edit

Spec == Init /\ [][Next]_vars

-----------------------------------------------------------------------------
(* Properties.                                                              *)

TypeOK ==
  /\ target \in Copy \cup {None}
  /\ backup \in [Installers -> Copy \cup {None}]
  /\ stage \in [Installers -> Copy \cup {None}]
  /\ state \in [Installers -> {"unknown", "absent", "modified", "stale", "current"}]
  /\ \A p \in Installers : pc[p] = "discard" => backup[p] # None

Kept == {target} \cup {backup[p] : p \in Installers}

(* skill-install.ts:253: unless a command is to remove it, a copy that can  *)
(* be used, the old one or a new one, is always in its place or in a backup, *)
(* whatever fails and whoever else is installing.                           *)
CopyKept ==
  past.copy /\ (\A p \in Installers : job[p].command # "remove") =>
    \E copy \in Kept : copy.form \in {"whole", "edited"}

(* skill-install.ts:121, 132 and 143: no command destroys what the user has *)
(* edited, unless it is forced to, or the edit came after a command had     *)
(* looked at the copy and before it acts: that one is lost, since nothing   *)
(* is looked at again.                                                      *)
EditsKept ==
  past.edited /\ (\A p \in Installers : ~job[p].force) => target.form = "edited"

(* skill-install.ts:248: a process that is alone leaves its own copy and     *)
(* nothing else when it succeeds; when it fails, the copy that it found, in *)
(* its place or in the backup, or its own if only cleaning up has failed.   *)
Alone(p) == \A q \in Installers \ {p} : pc[q] = "start"

FoundBy(p, copy) ==
  /\ state[p] = "absent" => copy = None
  /\ state[p] = "stale" => copy.form \in {"whole", "edited"} /\ copy.rev # job[p].rev
  /\ state[p] \in {"modified", "current"} => copy # None

Own(p) == target.form \in {"whole", "edited"} /\ target.rev = job[p].rev

AllOrNothing ==
  \A p \in Installers : Alone(p) /\ job[p].command \in {"install", "update"} =>
    /\ pc[p] = "done" => Own(p) /\ backup[p] = None /\ stage[p] = None
    /\ pc[p] = "failed" =>
         \/ FoundBy(p, target)
         \/ target = None /\ FoundBy(p, backup[p])
         \/ Own(p)
=============================================================================
