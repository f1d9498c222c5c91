--------------------------- MODULE SemanticMigration ---------------------------
(***************************************************************************)
(* The migration of one test file: pipelines of legacy operators become    *)
(* calls of Symbol methods, runs of a TestScheduler become awaited rxTest   *)
(* calls, and imports follow.  The file is walked once, while sets of what *)
(* was converted and what was left grow; a pipeline is refused as a whole, *)
(* and an import is looked at where it stands, and once more at the end.   *)
(***************************************************************************)
EXTENDS Naturals, Sequences, FiniteSets

CONSTANTS
  Locals,     (* the imported operators that are mapped                    *)
  Symbol,     (* what each is mapped to                                    *)
  Pipelines,  (* the sequences of operators that pipelines have            *)
  Size        (* how many nodes a file has; one more if all is in a run    *)

VARIABLES
  file,       (* its nodes, in the order of the text, what else it uses of *)
              (* Locals, and the lifecycle that was chosen                 *)
  at, path,   (* the next node, and those the walk is in                   *)
  inside,     (* insideRxTestCallback                                      *)
  rewritten,  (* the nodes that have been replaced                         *)
  refused,    (* the pipelines with a diagnostic                           *)
  async,      (* the functions that have been made async                   *)
  converted, preserved,  (* the locals of pipelines that were, and were not*)
  imports,    (* the symbols that the new code needs                       *)
  removed,    (* what is not imported any more                             *)
  status

vars == <<file, at, path, inside, rewritten, refused, async, converted, preserved, imports,
          removed, status>>

(* An operator of a pipeline is a direct call of a name, or it is not, and  *)
(* its arguments are those that are supported, or not.                      *)
Operator == [name : Locals \cup {"other"}, fit : {"fine", "arity", "scheduler"}]

(* scheduler is a declaration of a TestScheduler, or a hook that makes one, *)
(* and mixed is one that has more to it.                                    *)
Others == {"run", "cold", "flush", "function", "scheduler", "mixed"}

(* An import names one of Locals: one of several is the same as several in   *)
(* a row.  Locals that no node imports are imported at the head of the file. *)
Imports == {<<[name |-> l, fit |-> "fine"]>> : l \in Locals}

Contents ==
  [kind : Others, ops : {<<>>}] \cup [kind : {"pipe"}, ops : Pipelines]
    \cup [kind : {"import"}, ops : Imports]

(* parents[i] is the node that i is in; 0 for the file.                     *)
InOrder(parents) ==
  \A i \in DOMAIN parents :
    /\ parents[i] < i
    /\ \A j \in (parents[i] + 1)..(i - 1) : parents[j] >= parents[i]

Files(n) ==
  {f \in [what : [1..n -> Contents], parents : {ps \in [1..n -> 0..(n - 1)] : InOrder(ps)}] :
     \A i \in 1..n :
       /\ f.parents[i] # 0 =>
            f.what[f.parents[i]].kind \notin {"flush", "scheduler", "mixed", "import"}
       /\ f.what[i].kind = "import" =>
            f.parents[i] = 0 /\ \A j \in 1..(i - 1) : f.what[j] # f.what[i]}

InARun ==
  {[what |-> <<[kind |-> "run", ops |-> <<>>]>> \o f.what,
    parents |-> <<0>> \o [i \in 1..Size |-> f.parents[i] + 1]] :
     f \in {g \in Files(Size) : \A i \in 1..Size : g.what[i].kind # "import"}}

Init ==
  /\ \E f \in Files(Size) \cup InARun, used \in SUBSET Locals,
        mode \in {"none", "cold", "platform"} :
       file = [what |-> f.what, parents |-> f.parents, used |-> used, mode |-> mode]
  /\ at = 1 /\ path = <<>> /\ inside = FALSE
  /\ rewritten = {} /\ refused = {} /\ async = {}
  /\ converted = {} /\ preserved = {} /\ imports = {} /\ removed = {}
  /\ status = "screening"

Nodes == DOMAIN file.what

Kind(i) == file.what[i].kind

Ops(i) == {file.what[i].ops[j] : j \in DOMAIN file.what[i].ops}

Named(i) == {o.name : o \in Ops(i)} \cap Locals

(* What a node is in: each before it, if all that follows up to it is in that. *)
Above ==
  [i \in Nodes |-> {a \in 1..(i - 1) : \A j \in (a + 1)..i : file.parents[j] >= a}]

(* collectUnsafeOperatorLocals(): what is declared again, referred to       *)
(* outside of a pipeline, or beside what is not mapped.                     *)
Unsafe ==
  LET Mapped(i) == \A o \in Ops(i) : o.name \in Locals
  IN file.used \cup UNION {Named(i) : i \in {j \in Nodes : Kind(j) = "pipe" /\ ~Mapped(j)}}

-----------------------------------------------------------------------------
walk == <<at, path, inside, rewritten, refused, async, converted, preserved, imports>>

HasScheduler == \E i \in Nodes : Kind(i) \in {"run", "scheduler", "mixed"}

HasMixed == \E i \in Nodes : Kind(i) = "mixed"

(* A scheduler that is declared or set up with other things refuses the     *)
(* whole file, and so does one without a lifecycle; so do, of what is not   *)
(* in the model, syntax errors, a registry of another engine, and several   *)
(* observations.                                                            *)
Screen ==
  /\ status = "screening"
  /\ status' \in {"file refused"} \cup
        IF HasMixed \/ (HasScheduler /\ file.mode = "none") THEN {} ELSE {"walking"}
  /\ UNCHANGED <<file, walk, removed>>

Within == IF path = <<>> THEN 0 ELSE path[Len(path)]

(* The walk comes to the next node, if that is in the one it is in.         *)
Comes(kind) ==
  /\ status = "walking"
  /\ at \in Nodes /\ Kind(at) = kind /\ file.parents[at] = Within

(* Into the node, or past it with all that it has.                          *)
Descend == path' = Append(path, at) /\ at' = at + 1

PastNode(i) == {j \in (i + 1)..(Len(file.what) + 1) : j \notin Nodes \/ i \notin Above[j]}

Skip ==
  /\ at' \in PastNode(at) /\ \A j \in PastNode(at) : at' <= j
  /\ UNCHANGED path

(* An import declaration loses what has been converted before it, although  *)
(* a pipeline that keeps it may follow.                                     *)
Import ==
  /\ Comes("import")
  /\ removed' = removed \cup (Named(at) \cap converted)
  /\ Skip
  /\ UNCHANGED <<file, inside, rewritten, refused, async, converted, preserved, imports, status>>

(* scheduler.run() becomes await rxTest(), whose callback is visited.       *)
Run ==
  /\ Comes("run")
  /\ rewritten' = rewritten \cup {at} /\ inside' = TRUE
  /\ Descend
  /\ UNCHANGED <<file, refused, async, converted, preserved, imports, removed, status>>

(* What declares and sets up the scheduler goes.                            *)
Drop ==
  /\ Comes("scheduler")
  /\ rewritten' = rewritten \cup {at}
  /\ Skip
  /\ UNCHANGED <<file, inside, refused, async, converted, preserved, imports, removed, status>>

(* flush() is awaited, and the cold() of a platform test becomes            *)
(* observable(): in the callback, and with the arguments as they are.       *)
Rewritable == inside /\ (Kind(at) = "cold" => file.mode = "platform")

Call ==
  /\ Comes("cold") \/ Comes("flush")
  /\ IF Rewritable
     THEN rewritten' = rewritten \cup {at} /\ Skip
     ELSE Descend /\ UNCHANGED rewritten
  /\ UNCHANGED <<file, inside, refused, async, converted, preserved, imports, removed, status>>

Function ==
  /\ Comes("function")
  /\ Descend
  /\ UNCHANGED <<file, inside, rewritten, refused, async, converted, preserved, imports, removed,
                 status>>

(* What convertPipeline() pushes to its entries.                            *)
Entries(i) == {o \in Ops(i) : o.name \in Locals \ Unsafe /\ o.fit = "fine"}

Pipe ==
  /\ Comes("pipe")
  /\ IF Ops(at) = Entries(at)
     THEN /\ rewritten' = rewritten \cup {at}
          /\ converted' = converted \cup Named(at)
          /\ imports' = imports \cup {Symbol[l] : l \in Named(at)}
          /\ Descend
          /\ UNCHANGED <<refused, preserved>>
     ELSE /\ refused' = refused \cup {at}
          /\ preserved' = preserved \cup {o.name : o \in Entries(at)}
          /\ Skip
          /\ UNCHANGED <<rewritten, converted, imports>>
  /\ UNCHANGED <<file, inside, async, removed, status>>

(* hasAwait(): an await that is in this function, and in none within it.    *)
IsFunction(i) == Kind(i) \in {"function", "run"}

FunctionOf(i) == {f \in Above[i] : IsFunction(f) /\ \A g \in Above[i] : IsFunction(g) => g <= f}

Awaits(f) == \E i \in rewritten : Kind(i) \in {"run", "flush"} /\ f \in FunctionOf(i)

(* The walk leaves a node; the callback of a run is a function, too.        *)
Leave ==
  /\ status = "walking" /\ path # <<>>
  /\ at \in Nodes => file.parents[at] # Within
  /\ path' = SubSeq(path, 1, Len(path) - 1)
  /\ inside' = (inside /\ Kind(Within) # "run")
  /\ async' = IF IsFunction(Within) /\ Awaits(Within) THEN async \cup {Within} ELSE async
  /\ UNCHANGED <<file, at, rewritten, refused, converted, preserved, imports, removed, status>>

(* The locals that no pipeline keeps, and the class of the scheduler.       *)
Unneeded == (converted \ preserved) \cup IF HasScheduler THEN {"TestScheduler"} ELSE {}

Needed == IF \E i \in rewritten : Kind(i) = "run" THEN {"rxTest"} ELSE {}

(* Imports that are not used any more go, those that are needed come.       *)
Finish ==
  /\ status = "walking" /\ path = <<>> /\ at \notin Nodes
  /\ removed' = removed \cup Unneeded
  /\ imports' = imports \cup Needed
  /\ status' = IF refused # {} THEN "refused" ELSE IF rewritten # {} THEN "changed" ELSE "unchanged"
  /\ UNCHANGED <<file, at, path, inside, rewritten, refused, async, converted, preserved>>

Next == Screen \/ Import \/ Run \/ Drop \/ Call \/ Function \/ Pipe \/ Leave \/ Finish

Spec == Init /\ [][Next]_vars

-----------------------------------------------------------------------------
(* Properties.                                                              *)

Accepted == status \in {"changed", "unchanged"}

(* The two exceptions: the arguments of a cold() that was renamed are not   *)
(* visited, and a run within a run ends the outer one for the walk.         *)
Unvisited(i) == \E c \in Above[i] \cap rewritten : Kind(c) = "cold"

InRun(i) == \E r \in Above[i] : Kind(r) = "run"

RunOf(i) == CHOOSE r \in Above[i] : Kind(r) = "run" /\ \A o \in Above[i] : Kind(o) = "run" => o <= r

AfterARun(i) ==
  \E r \in 1..(i - 1) \ Above[i] : Kind(r) = "run" /\ RunOf(i) \in Above[r]

(* semantics.ts:612: a file that is not refused has no legacy pipeline and   *)
(* no run of a scheduler left, every function that awaits is async, and     *)
(* all that the new code calls is imported.                                 *)
Complete ==
  Accepted => \A i \in Nodes : ~Unvisited(i) =>
    /\ Kind(i) \in {"pipe", "run", "scheduler"} => i \in rewritten
    /\ Kind(i) = "pipe" => {Symbol[l] : l \in Named(i)} \subseteq imports
    /\ Kind(i) = "run" => "rxTest" \in imports
    /\ Kind(i) \in {"flush"} \cup (IF file.mode = "platform" THEN {"cold"} ELSE {}) =>
         (InRun(i) /\ ~AfterARun(i) => i \in rewritten)
    /\ i \in rewritten /\ Kind(i) \in {"run", "flush"} => FunctionOf(i) \subseteq async

(* The locals whose import stands after a converted pipeline that uses them. *)
ImportedLate ==
  {l \in Locals : \E i \in Nodes, j \in rewritten :
     /\ j < i /\ Kind(j) = "pipe" /\ Kind(i) = "import"
     /\ l \in Named(i) \cap Named(j)}

(* semantics.ts:128 and 217: no import goes that the code still needs: for a *)
(* use outside of pipelines, or for a pipeline that was left as it is,      *)
(* unless it is one that was not visited, or the operator itself did not    *)
(* fit, or its import stands after a pipeline that was converted: there the *)
(* walk has not looked at what follows.                                     *)
ImportsKept ==
  /\ removed \cap file.used = {}
  /\ \A i \in Nodes \ rewritten : Kind(i) = "pipe" =>
       Named(i) \cap removed \subseteq
         ImportedLate \cup
           IF i \in refused THEN {o.name : o \in {p \in Ops(i) : p.fit # "fine"}}
           ELSE IF \E j \in Above[i] : j \in refused \/ Unvisited(i) THEN Locals ELSE {}

(* semantics.ts:112: a pipeline is converted as a whole, and nothing of it   *)
(* or in it is if one of its operators is refused; a file that is refused   *)
(* as a whole is left as it was.                                            *)
PipelinesWhole ==
  /\ \A i \in refused : i \notin rewritten /\ \A j \in rewritten : i \notin Above[j]
  /\ status = "file refused" => rewritten = {} /\ removed = {} /\ imports = {}

AllOrNothing == Complete /\ ImportsKept /\ PipelinesWhole
=============================================================================
