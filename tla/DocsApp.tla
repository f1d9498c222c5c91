-------------------------------- MODULE DocsApp --------------------------------
(***************************************************************************)
(* The documentation site, from the path of the location to the page that  *)
(* is shown: the cache of documents, the viewer that loads the elements of *)
(* a document and swaps it in with animations, each of which the next one  *)
(* interrupts, and the shell with its progress bar, on timers of its own.  *)
(***************************************************************************)
EXTENDS Naturals, Sequences, FiniteSets

CONSTANTS
  Pages,     (* the paths                                                  *)
  MaxVisits  (* how often the location changes                             *)

VARIABLES
  path, visits,  (* where the location is, and how many there were         *)
  cache,         (* what is known of each document                         *)
  document,      (* the component's currentDocument                        *)
  input,         (* the last document that the viewer was given            *)
  queue,         (* those it has yet to render, on the asap scheduler      *)
  elements,      (* whether the custom elements of pages are registered    *)
  ui             (* what the viewer and the shell show                     *)

vars == <<path, visits, cache, document, input, queue, elements, ui>>

requests == <<path, visits, cache, document>>

(* A document is what was fetched for a path, the one that tells that there *)
(* is none, or one that tells of an error; each error makes another object. *)
NotFound == 0

Page(id) == IF id = NotFound THEN <<"missing", id, 0>> ELSE <<"page", id, 0>>

Error(id) == <<"error", id, visits>>

Blank == <<"none", 0, 0>>

Pending == <<"pending", 0, 0>>

(* Not found: the one waits for the document that says so.                  *)
Asks == <<"asks", 0, 0>>

IsDocument(entry) == entry[1] \in {"page", "missing", "error"}

(* The first location is there at once; the page may be prerendered.        *)
Init ==
  /\ path \in Pages /\ visits = 1
  /\ cache = [id \in Pages \cup {NotFound} |-> IF id = path THEN Pending ELSE Blank]
  /\ document = Blank /\ input = Blank /\ queue = <<>>
  /\ elements = "unloaded"
  /\ \E attached \in {{}, {1}} :
       ui = [curr |-> 1, attached |-> attached, contents |-> <<Blank, Blank>>, doc |-> Blank,
             stage |-> "idle", failed |-> FALSE, noindex |-> FALSE, toc |-> Blank,
             shell |-> Blank, first |-> TRUE, shells |-> 0, armed |-> TRUE, fetching |-> FALSE,
             hides |-> 0, ready |-> FALSE, transitioning |-> TRUE, starting |-> TRUE, starts |-> 0]

(* The document of a location that is in the cache is given at once; the    *)
(* progress bar is to come if that of a new one is not ready in 200 ms.     *)
Navigate(p) ==
  /\ visits < MaxVisits
  /\ visits' = visits + 1 /\ path' = p
  /\ cache' = IF cache[p] = Blank THEN [cache EXCEPT ![p] = Pending] ELSE cache
  /\ document' = IF IsDocument(cache[p]) THEN cache[p] ELSE document
  /\ ui' = IF p = path THEN ui ELSE [ui EXCEPT !.armed = TRUE, !.ready = FALSE]
  /\ UNCHANGED <<input, queue, elements>>

(* A mutant: a document is shown when it comes, wherever the location is.    *)
BugLastAnswer(id, doc) ==
  /\ cache' = [cache EXCEPT ![id] = IF doc[1] = "error" THEN Blank ELSE doc]
  /\ document' = doc
  /\ UNCHANGED <<path, visits, input, queue, elements, ui>>

(* The AsyncSubject of a request, and of those that wait for it, has got    *)
(* its document; that of an error does not stay in the cache.               *)
Resolve(id, doc) ==
  LET resolved == {id} \cup {i \in Pages : id = NotFound /\ cache[i] = Asks} IN
  /\ cache' = [i \in DOMAIN cache |->
                 IF i = id /\ doc[1] = "error" THEN Blank ELSE IF i \in resolved THEN doc ELSE cache[i]]
  /\ document' = IF path \in resolved THEN doc ELSE document
  /\ UNCHANGED <<path, visits, input, queue, elements, ui>>

Answered(id) == cache[id] = Pending /\ Resolve(id, Page(id))

AnsweredWithError(id) == cache[id] = Pending /\ Resolve(id, Error(id))

(* A document that is not there: the 404 document, from the cache if it is. *)
AnsweredNotFound(id) ==
  /\ cache[id] = Pending /\ id # NotFound
  /\ IF IsDocument(cache[NotFound])
     THEN Resolve(id, cache[NotFound])
     ELSE /\ cache' = [cache EXCEPT ![id] = Asks,
                         ![NotFound] = IF @ = Blank THEN Pending ELSE @]
          /\ UNCHANGED <<path, visits, document, input, queue, elements, ui>>

(* Angular, after each task and before the next one, binds another document *)
(* to the viewer, which emits it.                                           *)
ChangeDetected ==
  /\ document # input
  /\ input' = document
  /\ queue' = Append(queue, document)
  /\ UNCHANGED <<requests, elements, ui>>

-----------------------------------------------------------------------------
(* Of the viewer, on the two views of u.                                    *)

Other(u) == 3 - u.curr

(* The title and the table of contents follow the new view into the page,   *)
(* the shell a task later.                                                  *)
Inserted(u) ==
  [u EXCEPT !.attached = (@ \ {u.curr}) \cup {Other(u)}, !.toc = u.doc,
            !.shells = @ + 1, !.stage = "entering"]

(* docRendered: the views have been swapped, and what was shown is emptied. *)
Rendered(u) ==
  [u EXCEPT !.curr = Other(u), !.contents[u.curr] = Blank, !.stage = "idle", !.failed = FALSE,
            !.transitioning = FALSE, !.starts = IF u.starting THEN @ + 1 ELSE @]

(* Nothing is animated while the site is starting.                          *)
Enter(u) == IF u.starting THEN Rendered(Inserted(u)) ELSE Inserted(u)

(* docReady stops the timer of the progress bar, or hides it in 500 ms; the  *)
(* view that is shown leaves, unless it has left already.                   *)
Ready(u) ==
  LET told == [u EXCEPT !.transitioning = TRUE, !.armed = FALSE, !.ready = TRUE, !.hides = @ + 1] IN
  IF u.curr \notin u.attached \/ u.starting THEN Enter(told) ELSE [told EXCEPT !.stage = "leaving"]

(* What is caught empties the view that was being prepared.                 *)
Failed(u) ==
  [u EXCEPT !.contents[Other(u)] = Blank, !.noindex = TRUE, !.stage = "idle", !.failed = TRUE]

(* switchMap() leaves the rendering that was under way where it is.         *)
Render ==
  /\ queue # <<>>
  /\ LET doc == Head(queue)
         filled == [ui EXCEPT !.contents[Other(ui)] = doc, !.doc = doc, !.stage = "loading",
                              !.failed = FALSE, !.noindex = doc[1] # "page"]
         waits == doc[1] = "page" /\ elements # "registered"
     IN /\ queue' = Tail(queue)
        /\ elements' = IF waits THEN "loading" ELSE elements
        /\ ui' = IF waits THEN filled ELSE Ready(filled)
  /\ UNCHANGED <<requests, input>>

(* One promise for all who wait; after a failure the next one tries again.  *)
ElementsRegistered ==
  /\ elements = "loading"
  /\ elements' = "registered"
  /\ ui' = IF ui.stage = "loading" THEN Ready(ui) ELSE ui
  /\ UNCHANGED <<requests, input, queue>>

ElementsFail ==
  /\ elements = "loading"
  /\ elements' = "unloaded"
  /\ ui' = IF ui.stage = "loading" THEN Failed(ui) ELSE ui
  /\ UNCHANGED <<requests, input, queue>>

AnimationEnds ==
  /\ \/ ui.stage = "leaving" /\ ui' = Enter([ui EXCEPT !.attached = @ \ {ui.curr}])
     \/ ui.stage = "entering" /\ ui' = Rendered(ui)
  /\ UNCHANGED <<requests, input, queue, elements>>

-----------------------------------------------------------------------------
(* Of the shell.                                                            *)

FetchingTimer == ui.armed /\ ui' = [ui EXCEPT !.armed = FALSE, !.fetching = TRUE]

HideTimer == ui.hides > 0 /\ ui' = [ui EXCEPT !.hides = @ - 1, !.fetching = FALSE]

ShellTimer == ui.shells > 0 /\ ui' = [ui EXCEPT !.shells = @ - 1, !.shell = document]

StartTimer == ui.starts > 0 /\ ui' = [ui EXCEPT !.starts = @ - 1, !.starting = FALSE]

(* The first document and the first nodes update the shell at once.         *)
FirstShell ==
  ui.first /\ document # Blank /\ ui' = [ui EXCEPT !.first = FALSE, !.shell = document]

Timers ==
  /\ FetchingTimer \/ HideTimer \/ ShellTimer \/ StartTimer \/ FirstShell
  /\ UNCHANGED <<requests, input, queue, elements>>

Task ==
  \/ \E p \in Pages : Navigate(p)
  \/ \E id \in DOMAIN cache : Answered(id) \/ AnsweredWithError(id) \/ AnsweredNotFound(id)
  \/ Render \/ ElementsRegistered \/ ElementsFail \/ AnimationEnds
  \/ Timers

Next ==
  \/ document = input /\ Task
  \/ ChangeDetected

Spec == Init /\ [][Next]_vars

-----------------------------------------------------------------------------
(* Properties.                                                              *)

(* Nothing is under way: no request of the path, no rendering, no timer.    *)
Quiet ==
  /\ document = input /\ queue = <<>>
  /\ cache[path] \notin {Pending, Asks}
  /\ ui.stage = "idle" /\ ui.shells = 0 /\ ui.hides = 0 /\ ~ui.armed /\ ~ui.first

(* document.service.ts:43: what was last given is a document of the path    *)
(* that the location is at, however late and in what order others came.     *)
OfThePath ==
  cache[path] \notin {Pending, Asks} =>
    \/ document = Page(path) \/ document = Page(NotFound)
    \/ document[1] = "error" /\ document[2] \in {path, NotFound}

(* doc-viewer.component.ts:242: one view at most is in the page, and when    *)
(* nothing is under way it is that of the current document, together with   *)
(* the table of contents, the shell and what crawlers are told; a rendering *)
(* that fails leaves the page before it, or an empty one.                   *)
ShowsTheDocument ==
  /\ Cardinality(ui.attached) <= 1
  /\ Quiet /\ ~ui.failed =>
       /\ ui.attached = {ui.curr} /\ ui.contents[ui.curr] = document
       /\ ui.contents[Other(ui)] = Blank
       /\ ui.toc = document /\ ui.shell = document /\ ~ui.transitioning
       /\ ui.noindex = (document[1] # "page")
  /\ Quiet /\ ui.failed /\ Other(ui) \in ui.attached => ui.contents[Other(ui)] = Blank

(* app.component.ts:280: the progress bar goes, unless the new location has  *)
(* got nothing ready: its rendering failed, or it is back at the document   *)
(* that is shown.                                                           *)
BarGoes ==
  Quiet /\ ui.fetching => ~ui.ready

NothingStale == OfThePath /\ ShowsTheDocument /\ BarGoes
=============================================================================
