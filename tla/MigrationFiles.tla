----------------------------- MODULE MigrationFiles -----------------------------
(***************************************************************************)
(* The migration of a batch of files: all are read, named and transformed  *)
(* before any is written, the whole plan is looked at once more, and then  *)
(* the files are written one by one.  Others create files meanwhile, and a *)
(* write may fail.                                                         *)
(***************************************************************************)
EXTENDS Naturals, Sequences, FiniteSets

CONSTANTS
  Paths,  (* below the output root, canonical; 0 is a path outside of it   *)
  Batch   (* how many files are migrated                                   *)

VARIABLES
  inputs,    (* the path of each source                                    *)
  outputs,   (* the path that the policy names for each                    *)
  results,   (* what became of those transformed so far                    *)
  disk,      (* what is at each path: nothing, a file, something else, or  *)
             (* the code of one of the batch, perhaps cut off              *)
  overwrite, (* whether files that exist may be replaced                   *)
  at,        (* the file that the step is about                            *)
  pc,        (* what is done to it                                         *)
  late       (* the paths at which others have made a file meanwhile       *)

vars == <<inputs, outputs, results, disk, overwrite, at, pc, late>>

request == <<inputs, outputs, overwrite>>

Outside == 0

Absent == <<"absent", 0>>
File == <<"file", 0>>
Other == <<"other", 0>>
Code(i) == <<"code", i>>
CutOff(i) == <<"cut off", i>>

Init ==
  /\ inputs \in [1..Batch -> Paths \cup {Outside}]
  /\ outputs \in [1..Batch -> Paths \cup {Outside}]
  /\ disk \in [Paths -> {Absent, File, Other}]
  /\ overwrite \in BOOLEAN
  /\ results = <<>> /\ at = 1 /\ pc = "read" /\ late = {}

(* The next file, or the next thing that is done to all of them.            *)
NextFile(then) ==
  IF at < Batch THEN at' = at + 1 /\ UNCHANGED pc ELSE at' = 1 /\ pc' = then

Throw == pc' = "error" /\ UNCHANGED at

(* A source is a file below its root, and is given once.                    *)
Read ==
  /\ pc = "read"
  /\ IF inputs[at] # Outside /\ disk[inputs[at]] = File /\ (\A i \in 1..(at - 1) : inputs[i] # inputs[at])
     THEN NextFile("transform")
     ELSE Throw
  /\ UNCHANGED <<request, results, disk, late>>

(* An output is below its root, is no source, and is named once.            *)
Transform ==
  /\ pc = "transform"
  /\ IF /\ outputs[at] \notin {Outside} \cup {inputs[i] : i \in 1..Batch}
        /\ \A i \in 1..(at - 1) : outputs[i] # outputs[at]
     THEN /\ \E result \in {"changed", "unchanged", "refused"} : results' = Append(results, result)
          /\ NextFile("planned")
     ELSE Throw /\ UNCHANGED results
  /\ UNCHANGED <<request, disk, late>>

(* A plan that is not to be written is returned as it is, and may be        *)
(* applied later.                                                           *)
Apply ==
  /\ pc = "planned"
  /\ pc' = "preflight"
  /\ UNCHANGED <<request, results, disk, at, late>>

Writable(found) == found = Absent \/ (found = File /\ overwrite)

Preflight ==
  /\ pc = "preflight"
  /\ IF /\ results[at] # "refused"
        /\ \A i \in 1..(at - 1) : outputs[i] # outputs[at]
        /\ Writable(disk[outputs[at]])
     THEN NextFile("write")
     ELSE Throw
  /\ UNCHANGED <<request, results, disk, late>>

(* What others have put there since is replaced, if it is a file.           *)
Write ==
  /\ pc = "write"
  /\ IF disk[outputs[at]] = Other
     THEN Throw /\ UNCHANGED disk
     ELSE disk' = [disk EXCEPT ![outputs[at]] = Code(at)] /\ NextFile("done")
  /\ UNCHANGED <<request, results, late>>

WriteFails ==
  /\ pc = "write"
  /\ disk' = [disk EXCEPT ![outputs[at]] = IF @ = Other THEN @ ELSE CutOff(at)]
  /\ Throw
  /\ UNCHANGED <<request, results, late>>

OthersCreate(p) ==
  /\ disk[p] = Absent /\ pc \notin {"error", "done"}
  /\ disk' = [disk EXCEPT ![p] = File]
  /\ late' = late \cup {p}
  /\ UNCHANGED <<request, results, at, pc>>

Next ==
  \/ Read \/ Transform \/ Apply \/ Preflight \/ Write \/ WriteFails
  \/ \E p \in Paths : OthersCreate(p)

Spec == Init /\ [][Next]_vars

-----------------------------------------------------------------------------
(* Properties.                                                              *)

WrittenBy(i) == \E p \in Paths : disk[p] \in {Code(i), CutOff(i)}

(* node.ts:130: nothing is written unless every file of the batch can be:    *)
(* one that is refused, named twice, named as a source, or in the way keeps *)
(* all of them from being written.  A batch that is done is there in full,  *)
(* each file where it was planned; one that breaks off has its first files, *)
(* and cuts off one at most.                                                *)
AllOrNothing ==
  /\ \A i \in 1..Batch : WrittenBy(i) =>
       /\ \A j \in 1..Batch : j \in DOMAIN results /\ results[j] # "refused"
       /\ Cardinality({outputs[j] : j \in 1..Batch}) = Batch
       /\ \A j \in 1..(i - 1) : disk[outputs[j]] = Code(j)
       /\ disk[outputs[i]] \in {Code(i), CutOff(i)}
  /\ pc = "done" => \A i \in 1..Batch : disk[outputs[i]] = Code(i)

(* node.ts:100 and 160: a source is never written over, nor what is no file, *)
(* nor a file, unless that is allowed or it has only come meanwhile.  Of    *)
(* each step.                                                               *)
OthersKept ==
  \A p \in Paths : disk'[p] # disk[p] /\ disk[p] # Absent =>
    /\ disk[p] = File /\ (overwrite \/ p \in late)
    /\ \A i \in 1..Batch : inputs[i] # p
=============================================================================
