------------------------ MODULE ObservableLifecycle ------------------------
(***************************************************************************)
(* What the platform Observable promises, with no call stack: an           *)
(* Observable is Idle or has one active run, observers join and leave the  *)
(* run, the last one to leave ends it, and a run that terminates owes each *)
(* of its observers one terminal notification.                             *)
(***************************************************************************)
EXTENDS Naturals

CONSTANTS Runs, Observers, NoRun

VARIABLES
  active,   (* the active run, or NoRun when the Observable is Idle   *)
  started,  (* the runs that have been active                         *)
  joined,   (* the observers that have subscribed                     *)
  members,  (* the observers of the active run                        *)
  owed,     (* observers that a terminated run has yet to notify      *)
  told      (* told[o]: terminal notifications o received             *)

lvars == <<active, started, joined, members, owed, told>>

Init ==
  /\ active = NoRun
  /\ started = {}
  /\ joined = {}
  /\ members = {}
  /\ owed = {}
  /\ told = [o \in Observers |-> 0]

(* Idle to Active: a producer run never used before, for a first observer. *)
Start(r, o) ==
  /\ active = NoRun
  /\ r \notin started
  /\ o \notin joined
  /\ active' = r
  /\ started' = started \cup {r}
  /\ joined' = joined \cup {o}
  /\ members' = {o}
  /\ UNCHANGED <<owed, told>>

(* A run subscribed to with an aborted signal ends as it starts. *)
StartEnded(r) ==
  /\ active = NoRun
  /\ r \notin started
  /\ started' = started \cup {r}
  /\ UNCHANGED <<active, joined, members, owed, told>>

Join(o) ==
  /\ active # NoRun
  /\ o \notin joined
  /\ joined' = joined \cup {o}
  /\ members' = members \cup {o}
  /\ UNCHANGED <<active, started, owed, told>>

Leave(o) ==
  /\ o \in members
  /\ members' = members \ {o}
  /\ active' = IF members = {o} THEN NoRun ELSE active
  /\ UNCHANGED <<started, joined, owed, told>>

Terminate ==
  /\ active # NoRun
  /\ active' = NoRun
  /\ members' = {}
  /\ owed' = owed \cup members
  /\ UNCHANGED <<started, joined, told>>

Tell(o) ==
  /\ o \in owed
  /\ told[o] = 0
  /\ owed' = owed \ {o}
  /\ told' = [told EXCEPT ![o] = 1]
  /\ UNCHANGED <<active, started, joined, members>>

(* A source that failed to close takes the notifications it owed with it. *)
Forfeit ==
  /\ owed' \in SUBSET owed
  /\ UNCHANGED <<active, started, joined, members, told>>

(* A run nobody can reach any more is garbage. *)
Abandon ==
  /\ active # NoRun
  /\ active' = NoRun
  /\ members' = {}
  /\ UNCHANGED <<started, joined, owed, told>>

Next ==
  \/ \E o \in Observers : \/ \E r \in Runs : Start(r, o)
                          \/ Join(o)
                          \/ Leave(o)
                          \/ Tell(o)
  \/ \E r \in Runs : StartEnded(r)
  \/ Terminate
  \/ Forfeit
  \/ Abandon

Spec == Init /\ [][Next]_lvars
=============================================================================
