------------------------------ MODULE SearchClient ------------------------------
(***************************************************************************)
(* Searching the documentation: the search box and the page that tells     *)
(* that there is none ask a worker, which is made for the first search, or *)
(* after a delay, and loads its index first; whoever asks again, or is     *)
(* hidden, leaves the answer that is still to come.                        *)
(***************************************************************************)
EXTENDS Naturals, Sequences, FiniteSets

CONSTANTS
  Clients,     (* the components that show results                         *)
  MaxSearches  (* how often they search, together                          *)

VARIABLES
  ready,     (* what the race for the index has come to                    *)
  workers,   (* how many workers have been made                            *)
  nextId,    (* of the next message                                        *)
  loadId,    (* of the message whose answer `ready` waits for              *)
  calls,     (* the messages that the worker has yet to handle, in order   *)
  fetching,  (* the message for which the worker fetches the index         *)
  answers,   (* its answers that have yet to arrive, in order              *)
  searches,  (* how many searches there were                               *)
  asked,     (* the search whose results each client shows; 0: none        *)
  waits,     (* the message each client waits for; 0: none                 *)
  shows      (* what each client shows: a search, 0 or an error            *)

vars == <<ready, workers, nextId, loadId, calls, fetching, answers, searches, asked, waits, shows>>

worker == <<workers, nextId, loadId, calls, fetching, answers>>

Failure == MaxSearches + 1

Init ==
  /\ ready = "waiting" /\ workers = 0
  /\ nextId = 1 /\ loadId = 0 /\ calls = <<>> /\ fetching = 0 /\ answers = <<>>
  /\ searches = 0
  /\ asked = [c \in Clients |-> 0] /\ waits = [c \in Clients |-> 0]
  /\ shows = [c \in Clients |-> 0]

(* The timer, or the first search, whichever is first: the worker is made,  *)
(* and told to load the index.                                              *)
Load ==
  /\ ready' = "loading" /\ workers' = workers + 1
  /\ calls' = Append(calls, [id |-> nextId, type |-> "load", query |-> 0])
  /\ loadId' = nextId /\ nextId' = nextId + 1
  /\ UNCHANGED <<fetching, answers>>

DelayOver ==
  /\ ready = "waiting"
  /\ Load
  /\ UNCHANGED <<searches, asked, waits, shows>>

(* sendMessage() of queries, the next messages in this order.               *)
Queries(qs) == [i \in DOMAIN qs |-> [id |-> nextId + i - 1, type |-> "query", query |-> qs[i]]]

(* search(): the results of the one before are left; those of this one are  *)
(* asked for when the index is ready, and never if it has failed.           *)
Search(c) ==
  /\ searches < MaxSearches
  /\ searches' = searches + 1
  /\ asked' = [asked EXCEPT ![c] = searches']
  /\ shows' = [shows EXCEPT ![c] = IF ready = "failed" THEN Failure ELSE 0]
  /\ waits' = [waits EXCEPT ![c] = IF ready = "ready" THEN nextId ELSE 0]
  /\ CASE ready = "waiting" -> Load
       [] ready = "ready"   -> /\ calls' = calls \o Queries(<<searches'>>)
                               /\ nextId' = nextId + 1
                               /\ UNCHANGED <<ready, workers, loadId, fetching, answers>>
       [] OTHER             -> UNCHANGED <<ready, worker>>

(* hideSearchResults(), or an empty query: nobody listens any more.         *)
Hide(c) ==
  /\ asked[c] # 0
  /\ asked' = [asked EXCEPT ![c] = 0] /\ waits' = [waits EXCEPT ![c] = 0]
  /\ shows' = [shows EXCEPT ![c] = 0]
  /\ UNCHANGED <<ready, worker, searches>>

(* handleMessage(): the index is fetched, a query is answered at once.      *)
Handle ==
  /\ calls # <<>>
  /\ calls' = Tail(calls)
  /\ IF Head(calls).type = "load"
     THEN fetching' = Head(calls).id /\ UNCHANGED answers
     ELSE answers' = Append(answers, Head(calls)) /\ UNCHANGED fetching
  /\ UNCHANGED <<ready, workers, nextId, loadId, searches, asked, waits, shows>>

IndexFetched ==
  /\ fetching # 0 /\ fetching' = 0
  /\ answers' = Append(answers, [id |-> fetching, type |-> "load", query |-> 0])
  /\ UNCHANGED <<ready, workers, nextId, loadId, calls, searches, asked, waits, shows>>

(* What cannot be parsed throws in the worker: an error for all who listen, *)
(* with the id of none.  Without the network there is no answer at all.     *)
IndexBroken ==
  /\ fetching # 0 /\ fetching' = 0
  /\ \/ answers' = Append(answers, [id |-> 0, type |-> "error", query |-> 0])
     \/ UNCHANGED answers
  /\ UNCHANGED <<ready, workers, nextId, loadId, calls, searches, asked, waits, shows>>

(* The index is ready: those that wait for it send their queries, in the    *)
(* order in which they came to wait.                                        *)
Asking == {asked[c] : c \in Clients} \ {0}

InOrder(order) ==
  /\ {order[i] : i \in DOMAIN order} = Asking
  /\ \A i, j \in DOMAIN order : i < j => order[i] < order[j]

IndexReady ==
  /\ answers # <<>> /\ Head(answers).type = "load" /\ Head(answers).id = loadId
  /\ answers' = Tail(answers)
  /\ ready' = "ready"
  /\ \E order \in [1..Cardinality(Asking) -> Asking] :
       /\ InOrder(order)
       /\ calls' = calls \o Queries(order) /\ nextId' = nextId + Cardinality(Asking)
       /\ waits' = [c \in Clients |->
                      IF asked[c] = 0 THEN 0
                      ELSE nextId + (CHOOSE i \in DOMAIN order : order[i] = asked[c]) - 1]
  /\ UNCHANGED <<workers, loadId, fetching, searches, asked, shows>>

(* An answer is for whoever waits for its id; nobody may.                   *)
Answer ==
  /\ answers # <<>> /\ Head(answers).type = "query"
  /\ answers' = Tail(answers)
  /\ shows' = [c \in Clients |-> IF waits[c] = Head(answers).id THEN Head(answers).query ELSE shows[c]]
  /\ waits' = [c \in Clients |-> IF waits[c] = Head(answers).id THEN 0 ELSE waits[c]]
  /\ UNCHANGED <<ready, workers, nextId, loadId, calls, fetching, searches, asked>>

(* An error ends all who listen: while the index loads, that is `ready`,     *)
(* which replays it to everyone who searches later.                         *)
WorkerError ==
  /\ answers # <<>> /\ Head(answers).type = "error"
  /\ answers' = Tail(answers)
  /\ ready' = "failed"
  /\ shows' = [c \in Clients |-> IF asked[c] # 0 THEN Failure ELSE shows[c]]
  /\ UNCHANGED <<workers, nextId, loadId, calls, fetching, searches, asked, waits>>

Next ==
  \/ DelayOver \/ Handle \/ IndexFetched \/ IndexBroken \/ IndexReady \/ Answer \/ WorkerError
  \/ \E c \in Clients : Search(c) \/ Hide(c)

Spec == Init /\ [][Next]_vars

-----------------------------------------------------------------------------
(* Properties.                                                              *)

(* web-worker.ts:26: nobody is shown the results of a search but its last    *)
(* one, however many are under way; a search that waits for nothing more    *)
(* has its results, unless the index could not be loaded.                   *)
NothingStale ==
  /\ workers <= 1 /\ (workers = 0 <=> ready = "waiting")
  /\ \A c \in Clients :
       /\ shows[c] \in {0, asked[c], Failure}
       /\ ready = "ready" /\ asked[c] # 0 /\ waits[c] = 0 => shows[c] = asked[c]
       /\ ready = "failed" /\ asked[c] # 0 => shows[c] = Failure

(* Whoever waits for a message will have it: it is on its way, one way or    *)
(* the other, and the index that is loading, too, unless the network fails. *)
WaitsForSomething ==
  \A c \in Clients : waits[c] # 0 =>
    \/ \E i \in DOMAIN calls : calls[i].id = waits[c] /\ calls[i].query = asked[c]
    \/ \E i \in DOMAIN answers : answers[i].id = waits[c] /\ answers[i].query = asked[c]
=============================================================================
