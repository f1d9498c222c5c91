------------------------- MODULE PlatformInstallation -------------------------
(***************************************************************************)
(* The installation of the polyfill in its realm: which properties it will *)
(* define, whether each of them can be defined, and the definition of all  *)
(* of them, undone last to first when one fails.  The realm may be a       *)
(* hostile one, whose objects refuse a definition that was possible, or    *)
(* the restoration of what was there, with an exception or silently.       *)
(***************************************************************************)
EXTENDS Naturals, Sequences, FiniteSets

VARIABLES
  before,   (* what each property was: absent (of an object that takes     *)
            (* more or of one that does not), configurable, writable, fixed*)
  now,      (* what each of them is: what it was, or the polyfill's        *)
  plan,     (* the installations, in order; <<>> before they are prepared  *)
  applied,  (* the number of those that are made and not undone            *)
  kept,     (* the installations that could not be undone                  *)
  rollbackErrors, (* those of them whose undoing threw                     *)
  phase     (* what the initializer is at, or how it ended                 *)

vars == <<before, now, plan, applied, kept, rollbackErrors, phase>>

left == <<kept, rollbackErrors>>

Names == {"abort", "Subscriber", "Observable", "when"}

Kinds == {"absent", "sealed", "configurable", "writable", "fixed"}

(* The realm has an Observable, or an EventTarget with when(), already, or  *)
(* neither; AbortController has its abort().                                *)
Init ==
  /\ before \in [Names -> Kinds]
  /\ before["abort"] \notin {"absent", "sealed"}
  /\ {before["Subscriber"], before["Observable"]} # {"absent", "sealed"}
  /\ now = [n \in Names |-> "old"]
  /\ plan = <<>> /\ applied = 0 /\ kept = {} /\ rollbackErrors = {}
  /\ phase = "start"

(* An Observable that was there is not replaced, and neither is a when().   *)
Wanted(n) ==
  IF n = "when" THEN before["when"] \in {"absent", "sealed"}
  ELSE before["Observable"] \in {"absent", "sealed"}

(* abort() is redefined as it was, but for its value: canDefineProperty() of *)
(* a writable property that is not configurable asks for the same flags.    *)
CanDefine(n) ==
  CASE before[n] = "absent"       -> TRUE
    [] before[n] = "configurable" -> TRUE
    [] before[n] = "writable"     -> n = "abort"
    [] OTHER                      -> FALSE

(* abort() comes first, since the others need it.                           *)
Planned ==
  (IF Wanted("Observable") THEN <<"abort", "Subscriber", "Observable">> ELSE <<>>)
    \o (IF Wanted("when") THEN <<"when">> ELSE <<>>)

(* preparePropertyInstallation() of each; one that cannot be defined throws *)
(* before any is.                                                           *)
Prepare ==
  /\ phase = "start"
  /\ plan' = Planned
  /\ phase' = IF \A n \in Names : Wanted(n) => CanDefine(n) THEN "apply" ELSE "refused"
  /\ UNCHANGED <<before, now, applied, left>>

Apply ==
  /\ phase = "apply" /\ applied < Len(plan)
  /\ before[plan[applied + 1]] \notin {"sealed", "fixed"}
  /\ now' = [now EXCEPT ![plan[applied + 1]] = "new"]
  /\ applied' = applied + 1
  /\ UNCHANGED <<before, plan, left, phase>>

ApplyFails ==
  /\ phase = "apply" /\ applied < Len(plan)
  /\ phase' = "undo"
  /\ UNCHANGED <<before, now, plan, applied, left>>

Undo ==
  /\ phase = "undo" /\ applied > 0
  /\ now' = [now EXCEPT ![plan[applied]] = "old"]
  /\ applied' = applied - 1
  /\ UNCHANGED <<before, plan, left, phase>>

(* An undoing that throws is remembered...                                  *)
UndoFails ==
  /\ phase = "undo" /\ applied > 0
  /\ kept' = kept \cup {plan[applied]}
  /\ rollbackErrors' = rollbackErrors \cup {plan[applied]}
  /\ applied' = applied - 1
  /\ UNCHANGED <<before, now, plan, phase>>

(* ...but what was absent is deleted with Reflect.deleteProperty(), whose   *)
(* answer, that it was refused, nobody looks at.                            *)
UndoRefused ==
  /\ phase = "undo" /\ applied > 0
  /\ before[plan[applied]] = "absent"
  /\ kept' = kept \cup {plan[applied]}
  /\ applied' = applied - 1
  /\ UNCHANGED <<before, now, plan, rollbackErrors, phase>>

(* The end: the error says so if an undoing has thrown.                     *)
Finish ==
  /\ \/ phase = "apply" /\ applied = Len(plan) /\ phase' = "installed"
     \/ /\ phase = "undo" /\ applied = 0
        /\ phase' = IF rollbackErrors = {} THEN "failed" ELSE "damaged"
  /\ UNCHANGED <<before, now, plan, applied, left>>

Next == Prepare \/ Apply \/ ApplyFails \/ Undo \/ UndoFails \/ UndoRefused \/ Finish

Spec == Init /\ [][Next]_vars

-----------------------------------------------------------------------------
(* Properties.                                                              *)

(* index.ts:1346: the realm is as it was, or has all that it needed, or      *)
(* differs only in what could not be undone.  An error that does not say so *)
(* leaves nothing of the polyfill but what was not there before, and whose  *)
(* deletion was refused: all that the realm had is back.                    *)
AllOrNothing ==
  /\ phase = "refused" => \A n \in Names : now[n] = "old"
  /\ phase = "installed" => \A n \in Names : now[n] = (IF Wanted(n) THEN "new" ELSE "old")
  /\ phase \in {"failed", "damaged"} => {n \in Names : now[n] = "new"} = kept
  /\ phase = "failed" => \A n \in Names : before[n] # "absent" => now[n] = "old"
  /\ phase = "damaged" => \E n \in rollbackErrors : now[n] = "new"

(* index.ts:1390: whenever the polyfill's Observable is there, so is the    *)
(* abort() that its cancellation needs, until a restoration is refused.     *)
ObservableNeedsAbort ==
  now["Observable"] = "new" /\ kept = {} => now["abort"] = "new" /\ now["Subscriber"] = "new"
=============================================================================
