------------------------------- MODULE ScrollSpy -------------------------------
(***************************************************************************)
(* The table of contents of the documentation site and the service that    *)
(* spies on the headings of the page, to tell which of them is active: it  *)
(* keeps what it has measured, listens to scrolling and resizing while it  *)
(* has anything to spy on, and looks a moment after the event.             *)
(***************************************************************************)
EXTENDS Naturals, FiniteSets, FiniteSetsExt

CONSTANTS
  Layouts,    (* what the page can be laid out as                           *)
  Heights,    (* its height in each, no two of them the same                *)
  Tops,       (* where each heading is in each, less the offset             *)
  Viewports,  (* the heights of the window                                  *)
  MaxTocs     (* how often a table of contents is made                      *)

VARIABLES
  page,       (* the layout, the window and how far it is scrolled          *)
  measured,   (* lastContentHeight and lastMaxScrollTop                     *)
  groups,     (* the groups that are spied on, and where their headings were*)
  listening,  (* how many subscriptions to the events there are             *)
  due,        (* the events that the service is about to look at            *)
  tocs,       (* how many tables of contents there were                     *)
  spied,      (* the group of the present one; 0: none                      *)
  active,     (* the activeItemIndex it was last told; 0: null              *)
  looked      (* the page as it was when the active heading was last found, *)
              (* unless a resize was yet to be looked at                    *)

vars == <<page, measured, groups, listening, due, tocs, spied, active, looked>>

Unknown == [height |-> 0, max |-> 0]

Unsure == [layout |-> 0, viewport |-> 0, scroll |-> 0]

MaxScroll(p) == Heights[p.layout] - p.viewport

Init ==
  /\ page \in [layout : Layouts, viewport : Viewports, scroll : {0}]
  /\ measured = Unknown
  /\ groups = {} /\ listening = 0 /\ due = {}
  /\ tocs = 0 /\ spied = 0 /\ active = 0
  /\ looked = page

(* Headings are sought from the last to the first; the last one is active   *)
(* at the bottom of the page, whatever is above it.                         *)
Active(tops, scroll, max) ==
  LET passed == {h \in DOMAIN tops : tops[h] <= scroll} IN
  IF scroll + 1 >= max THEN Cardinality(DOMAIN tops)
  ELSE IF passed = {} THEN 0 ELSE Max(passed)

Measure == [height |-> Heights[page.layout], max |-> MaxScroll(page)]

(* onResize() measures the page and all groups.                             *)
Calibrated(g) == [g EXCEPT !.tops = Tops[page.layout]]

(* unspy(): what is left of the groups.                                     *)
Unspied == {g \in groups : g.id # spied}

(* genToc() resets what is spied on, and spies on the headings: the first   *)
(* group starts the subscriptions, and has the page measured.               *)
GenToc ==
  /\ tocs < MaxTocs
  /\ tocs' = tocs + 1 /\ spied' = tocs'
  /\ groups' = Unspied \cup {[id |-> tocs', tops |-> Tops[page.layout]]}
  /\ IF Unspied = {}
     THEN /\ listening' = (IF groups = {} THEN listening ELSE 0) + 1
          /\ measured' = Measure /\ due' = {}
     ELSE UNCHANGED <<listening, measured, due>>
  /\ active' = Active(Tops[page.layout], page.scroll, measured'.max)
  /\ looked' = page
  /\ UNCHANGED page

(* reset(), for a document without headings.                                *)
Reset ==
  /\ spied # 0
  /\ groups' = Unspied
  /\ IF Unspied = {} THEN listening' = 0 /\ due' = {} ELSE UNCHANGED <<listening, due>>
  /\ spied' = 0 /\ active' = 0
  /\ UNCHANGED <<page, measured, tocs, looked>>

(* What the user and the browser do.  Another layout has no event; an event *)
(* is looked at in 10 ms, or 300 ms, if anyone listens.                     *)
Heard(event) == due' = IF listening > 0 THEN due \cup {event} ELSE due

Relayout(l) ==
  /\ page' = [page EXCEPT !.layout = l]
  /\ page.scroll <= MaxScroll(page')
  /\ UNCHANGED due

Resize(v) ==
  /\ v # page.viewport
  /\ page' = [page EXCEPT !.viewport = v]
  /\ page.scroll <= MaxScroll(page')
  /\ Heard("resize")

Scroll(s) ==
  /\ s # page.scroll /\ s <= MaxScroll(page)
  /\ page' = [page EXCEPT !.scroll = s]
  /\ Heard("scroll")

Browse ==
  /\ \/ \E l \in Layouts : Relayout(l)
     \/ \E v \in Viewports : Resize(v)
     \/ \E s \in 0..Max({Heights[l] : l \in Layouts}) : Scroll(s)
  /\ UNCHANGED <<measured, groups, listening, tocs, spied, active, looked>>

OnResize ==
  /\ "resize" \in due
  /\ due' = due \ {"resize"}
  /\ measured' = Measure
  /\ groups' = {Calibrated(g) : g \in groups}
  /\ UNCHANGED <<page, listening, tocs, spied, active, looked>>

(* A page whose height has changed is measured first.                       *)
OnScroll ==
  /\ "scroll" \in due
  /\ due' = due \ {"scroll"}
  /\ IF measured.height # Heights[page.layout]
     THEN measured' = Measure /\ groups' = {Calibrated(g) : g \in groups}
     ELSE UNCHANGED <<measured, groups>>
  /\ LET own == CHOOSE g \in groups' : g.id = spied IN
     active' = Active(own.tops, page.scroll, measured'.max)
  /\ looked' = IF "resize" \in due THEN Unsure ELSE page
  /\ UNCHANGED <<page, listening, tocs, spied>>

Next == GenToc \/ Reset \/ Browse \/ OnResize \/ OnScroll

Spec == Init /\ [][Next]_vars

-----------------------------------------------------------------------------
(* Properties.                                                              *)

(* scroll-spy.service.ts:142 and 225: the events are listened to, once, as   *)
(* long as there is a group, which is the one of the table of contents.     *)
ListensOnce ==
  /\ listening = (IF groups = {} THEN 0 ELSE 1)
  /\ due # {} => listening = 1
  /\ {g.id : g \in groups} = (IF spied = 0 THEN {} ELSE {spied})

(* scroll-spy.service.ts:203: the heading that was last found active is the  *)
(* one as long as the page is as it was found, whatever layouts it has had   *)
(* without any event since it was measured, unless the window had just been *)
(* resized, which is looked at 300 ms later.                                *)
ActiveIsRight ==
  spied # 0 /\ page = looked =>
    active = Active(Tops[page.layout], page.scroll, MaxScroll(page))

NothingStale == ListensOnce /\ ActiveIsRight
=============================================================================
