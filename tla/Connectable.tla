----------------------------- MODULE Connectable -----------------------------
(***************************************************************************)
(* ConnectableObservable, which multicast() and the publish operators      *)
(* make, and refCount(), which connects it for its observers.              *)
(*                                                                         *)
(* Both are platform Observables: the concurrent observers of a view that  *)
(* refCount() returns share one run of it, and the runs of all views share *)
(* one run of the connectable, which is subscribed to one Subject (the     *)
(* bridge).  A connection has its own Subject, the connectable's current   *)
(* one when it was made, and a disconnection may replace the current one.  *)
(*                                                                         *)
(* User code runs in the source's subscribe(), in its teardown, and in the *)
(* callbacks of the observers, and may subscribe, leave, emit, connect or  *)
(* disconnect there.                                                       *)
(***************************************************************************)
EXTENDS CallStack

CONSTANTS
  Views,      (* results of refCount() on the connectable                  *)
  Manual,     (* whether user code calls connect() and unsubscribe() too   *)
  Acts,       (* whether the source's teardown calls the library           *)
  Breaks,     (* whether a connector may throw when it is called again     *)
  Fails,      (* whether next() of a Subject may throw                     *)
  MaxRuns,    (* bound: runs of views                                      *)
  MaxConns    (* bound: connections                                        *)

VARIABLES
  reset,    (* resetOnDisconnect                                           *)
  subjects, (* the Subjects made: whether each is still active             *)
  broken,   (* state.connectorFailure is set                               *)
  bridge,   (* the Subject the connectable's run is subscribed to, or 0    *)
  conns,    (* the connections: [dest, closed, over]                       *)
  current,  (* state.connection, or 0                                      *)
  runs,     (* the runs of views: [view, book, live, on]                   *)
  book,     (* the RefCountStates: [runs, connecting, conn]                *)
  entry     (* the one that the WeakMap holds, or 0                        *)

hub == <<subjects, broken, current>>

vars == <<reset, subjects, broken, bridge, conns, current, runs, book, entry, stack>>

Init ==
  /\ reset \in BOOLEAN
  /\ subjects = <<TRUE>>
  /\ broken = FALSE
  /\ bridge = 0
  /\ conns = <<>>
  /\ current = 0
  /\ runs = <<>>
  /\ book = <<>>
  /\ entry = 0
  /\ stack = <<>>

-----------------------------------------------------------------------------
(* refCount: a run of a view.                                               *)

OnRuns(rs) == {r \in DOMAIN rs : rs[r].on}

LiveRun(v) == \E r \in DOMAIN runs : runs[r].view = v /\ runs[r].live

(* An observer of a view that has no run starts one; others join it.        *)
SubscribeView(v) ==
  /\ UserTurn
  /\ ~LiveRun(v)
  /\ Len(runs) < MaxRuns
  /\ LET k == IF entry = 0 THEN Len(book) + 1 ELSE entry
         b == IF entry = 0 THEN Append(book, [runs |-> 0, connecting |-> FALSE, conn |-> 0])
              ELSE book
         r == Len(runs) + 1
     IN /\ entry' = k
        /\ book' = [b EXCEPT ![k].runs = @ + 1]
        /\ runs' = Append(runs, [view |-> v, book |-> k, live |-> TRUE, on |-> FALSE])
        /\ Enter(<<Step("join", <<r>>), Step("connect", <<r>>)>>)
  /\ UNCHANGED <<reset, hub, bridge, conns>>

(* Its subscription to the connectable joins the run of that, or starts it: *)
(* the Subject of the day may be over, and then so is the run.              *)
Join ==
  /\ Doing("join")
  /\ LET r == Arg[1]
         s == Len(subjects)
     IN IF bridge # 0 \/ (~broken /\ subjects[s])
        THEN /\ bridge' = IF bridge = 0 THEN s ELSE bridge
             /\ runs' = [runs EXCEPT ![r].on = TRUE]
             /\ Proceed(<<>>)
        ELSE Proceed(<<Step("end", <<r>>)>>) /\ UNCHANGED <<bridge, runs>>
  /\ UNCHANGED <<reset, hub, conns, book, entry>>

Open(c) == c # 0 /\ ~conns[c].closed

Connect ==
  /\ Doing("connect")
  /\ LET r == Arg[1]
         k == runs[r].book
     IN IF ~runs[r].live \/ book[k].runs = 0 \/ book[k].connecting \/ Open(book[k].conn)
        THEN Proceed(<<>>) /\ UNCHANGED book
        ELSE /\ book' = [book EXCEPT ![k].conn = 0, ![k].connecting = TRUE]
             /\ Proceed(<<Step("open", <<r>>)>>)
  /\ UNCHANGED <<reset, hub, bridge, conns, runs, entry>>

NewConnection(then) ==
  /\ Len(conns) < MaxConns
  /\ conns' = Append(conns, [dest |-> Len(subjects), closed |-> FALSE, over |-> FALSE])
  /\ current' = Len(conns) + 1
  /\ Await(then)

(* connectable.connect(), by a run of refCount. *)
OpenForRun ==
  /\ Doing("open")
  /\ LET r == Arg[1]
         opened(c) == <<Step("opened", <<r, c>>)>>
     IN IF Open(current)
        THEN Proceed(opened(current)) /\ UNCHANGED <<book, conns, current>>
        ELSE IF broken
        THEN /\ book' = [book EXCEPT ![runs[r].book].connecting = FALSE]
             /\ Proceed(<<Step("end", <<r>>)>>)
             /\ UNCHANGED <<conns, current>>
        ELSE NewConnection(opened(Len(conns) + 1)) /\ UNCHANGED book
  /\ UNCHANGED <<reset, subjects, broken, bridge, runs, entry>>

Opened ==
  /\ Doing("opened")
  /\ LET k == runs[Arg[1]].book
         left == book[k].runs = 0
     IN /\ book' = [book EXCEPT ![k].connecting = FALSE,
                                ![k].conn = IF left THEN @ ELSE Arg[2]]
        /\ Proceed(IF left THEN <<Step("disconnect", <<Arg[2]>>)>> ELSE <<>>)
  /\ UNCHANGED <<reset, hub, bridge, conns, runs, entry>>

(* The run r is over: its subscription goes first, then its teardown runs.  *)
CloseRun(r) ==
  LET rs == [runs EXCEPT ![r].live = FALSE, ![r].on = FALSE]
  IN runs' = rs /\ bridge' = IF OnRuns(rs) = {} THEN 0 ELSE bridge

BugLeavesConnected ==
  /\ Doing("left")
  /\ LET k == runs[Arg[1]].book
         c == book[k].conn
         last == book[k].runs = 1
     IN /\ book' = [book EXCEPT ![k].runs = @ - 1, ![k].conn = IF last THEN 0 ELSE @]
        /\ entry' = IF last THEN 0 ELSE entry
        /\ Proceed(IF last /\ book[k].connecting THEN <<Step("retrieve", <<>>)>> ELSE <<>>)
        /\ UNCHANGED <<reset, hub, bridge, conns, runs>>

(* The teardown of a run. *)
Left ==
  /\ Doing("left")
  /\ LET k == runs[Arg[1]].book
         c == book[k].conn
         last == book[k].runs = 1
     IN /\ book' = [book EXCEPT ![k].runs = @ - 1, ![k].conn = IF last THEN 0 ELSE @]
        /\ entry' = IF last THEN 0 ELSE entry
        /\ Proceed(IF last /\ Open(c) THEN <<Step("disconnect", <<c>>)>>
                   ELSE IF last /\ book[k].connecting THEN <<Step("retrieve", <<>>)>>
                   ELSE <<>>)
        /\ UNCHANGED <<reset, hub, bridge, conns, runs>>

(* connect() again, for the connection that is in flight, and unsubscribe(). *)
Retrieve ==
  /\ Doing("retrieve")
  /\ IF Open(current)
     THEN Proceed(<<Step("disconnect", <<current>>)>>) /\ UNCHANGED <<conns, current>>
     ELSE IF broken
     THEN Proceed(<<>>) /\ UNCHANGED <<conns, current>>
     ELSE NewConnection(<<Step("disconnect", <<Len(conns) + 1>>)>>)
  /\ UNCHANGED <<reset, subjects, broken, bridge, runs, book, entry>>

BugEndsTwice ==
  /\ Doing("end")
  /\ LET r == Arg[1]
     IN CloseRun(r) /\ Proceed(<<Step("left", <<r>>), Step("tell", <<>>)>>)
  /\ UNCHANGED <<reset, hub, conns, book, entry>>

(* complete() or error() of a run: teardown, then the observers. *)
End ==
  /\ Doing("end")
  /\ LET r == Arg[1]
     IN IF runs[r].live
        THEN CloseRun(r) /\ Proceed(<<Step("left", <<r>>), Step("tell", <<>>)>>)
        ELSE Proceed(<<>>) /\ UNCHANGED <<runs, bridge>>
  /\ UNCHANGED <<reset, hub, conns, book, entry>>

Tell ==
  /\ Doing("tell")
  /\ Await(<<>>)
  /\ UNCHANGED <<reset, hub, bridge, conns, runs, book, entry>>

(* The last observer of a view leaves. *)
LeaveView(v) ==
  /\ UserTurn
  /\ \E r \in DOMAIN runs :
       /\ runs[r].view = v /\ runs[r].live
       /\ CloseRun(r)
       /\ Enter(<<Step("left", <<r>>)>>)
  /\ UNCHANGED <<reset, hub, conns, book, entry>>

-----------------------------------------------------------------------------
(* The connection, its source and its end.                                  *)

Fed(c) == Open(c) /\ ~conns[c].over

(* next(): through the Subject and the bridge to the views. *)
SourceNext(c) ==
  /\ UserTurn
  /\ c \in DOMAIN conns /\ Fed(c)
  /\ bridge = conns[c].dest /\ subjects[bridge]
  /\ Enter([i \in 1 .. Cardinality(OnRuns(runs)) |-> Step("tell", <<>>)])
  /\ UNCHANGED <<reset, hub, bridge, conns, runs, book, entry>>

(* complete() or error(): the Subject ends its subscribers, which ends the  *)
(* connectable's run and those of the views; then the disconnection.        *)
SourceEnds(c) ==
  /\ UserTurn
  /\ c \in DOMAIN conns /\ Fed(c)
  /\ conns' = [conns EXCEPT ![c].over = TRUE]
  /\ LET s == conns[c].dest
         told == IF bridge = s /\ subjects[s] THEN SetToSeq(OnRuns(runs)) ELSE <<>>
     IN /\ subjects' = [subjects EXCEPT ![s] = FALSE]
        /\ bridge' = IF told = <<>> THEN bridge ELSE 0
        /\ runs' = [r \in DOMAIN runs |-> [runs[r] EXCEPT !.on = @ /\ told = <<>>]]
        /\ Enter([i \in DOMAIN told |-> Step("end", <<told[i]>>)]
                   \o <<Step("disconnect", <<c>>)>>)
  /\ UNCHANGED <<reset, broken, current, book, entry>>

(* next() of a Subject of the user's throws: that ends what is subscribed to *)
(* the connectable, wherever it is, while the source still runs.            *)
FailConnection(c) ==
  /\ Fails /\ UserTurn
  /\ c \in DOMAIN conns /\ Fed(c)
  /\ LET told == SetToSeq(OnRuns(runs))
     IN /\ subjects' = [subjects EXCEPT ![conns[c].dest] = FALSE]
        /\ bridge' = 0
        /\ runs' = [r \in DOMAIN runs |-> [runs[r] EXCEPT !.on = FALSE]]
        /\ Enter([i \in DOMAIN told |-> Step("end", <<told[i]>>)]
                   \o <<Step("disconnect", <<c>>)>>)
  /\ UNCHANGED <<reset, broken, conns, current, book, entry>>

BugNeverClosed ==
  /\ Doing("disconnect")
  /\ LET c == Arg[1]
     IN /\ current' = IF current = c THEN 0 ELSE current
        /\ Proceed(<<Step("reset", <<>>)>>)
  /\ UNCHANGED <<reset, subjects, broken, bridge, conns, runs, book, entry>>

(* #disconnect(): the source's teardown runs before the connector is reset. *)
Disconnect ==
  /\ Doing("disconnect")
  /\ LET c == Arg[1]
     IN IF conns[c].closed THEN Proceed(<<>>) /\ UNCHANGED <<conns, current>>
        ELSE /\ conns' = [conns EXCEPT ![c].closed = TRUE]
             /\ current' = IF current = c THEN 0 ELSE current
             /\ IF conns[c].over \/ ~Acts THEN Proceed(<<Step("reset", <<>>)>>)
                ELSE Await(<<Step("reset", <<>>)>>)
  /\ UNCHANGED <<reset, subjects, broken, bridge, runs, book, entry>>

ResetConnector ==
  /\ Doing("reset")
  /\ Proceed(<<>>)
  /\ IF ~reset THEN UNCHANGED <<subjects, broken>>
     ELSE \/ subjects' = Append(subjects, TRUE) /\ broken' = FALSE
          \/ Breaks /\ broken' = TRUE /\ UNCHANGED subjects
  /\ UNCHANGED <<reset, bridge, conns, current, runs, book, entry>>

ManualConnect ==
  /\ Manual /\ UserTurn
  /\ ~Open(current) /\ ~broken
  /\ Len(conns) < MaxConns
  /\ conns' = Append(conns, [dest |-> Len(subjects), closed |-> FALSE, over |-> FALSE])
  /\ current' = Len(conns) + 1
  /\ stack' = Frames(<<>>, "call", stack)
  /\ UNCHANGED <<reset, subjects, broken, bridge, runs, book, entry>>

ManualDisconnect(c) ==
  /\ Manual /\ UserTurn
  /\ c \in DOMAIN conns /\ Open(c)
  /\ Enter(<<Step("disconnect", <<c>>)>>)
  /\ UNCHANGED <<reset, hub, bridge, conns, runs, book, entry>>

CallbackEnds ==
  /\ stack # <<>> /\ Top.at = "call"
  /\ stack' = Frames(Top.todo, "run", Tail(stack))
  /\ UNCHANGED <<reset, hub, bridge, conns, runs, book, entry>>

Next ==
  \/ \E v \in Views : SubscribeView(v) \/ LeaveView(v)
  \/ Join
  \/ Connect
  \/ OpenForRun
  \/ Opened
  \/ Left
  \/ Retrieve
  \/ End
  \/ Tell
  \/ \E c \in DOMAIN conns : SourceNext(c) \/ SourceEnds(c) \/ FailConnection(c)
  \/ \E c \in DOMAIN conns : ManualDisconnect(c)
  \/ Disconnect
  \/ ResetConnector
  \/ ManualConnect
  \/ CallbackEnds

Spec == Init /\ [][Next]_vars

-----------------------------------------------------------------------------
(* Properties.                                                              *)

TypeOK ==
  /\ subjects \in Seq(BOOLEAN) /\ broken \in BOOLEAN
  /\ bridge \in 0 .. Len(subjects) /\ current \in 0 .. Len(conns)
  /\ conns \in Seq([dest : 1 .. Len(subjects), closed : BOOLEAN, over : BOOLEAN])
  /\ runs \in Seq([view : Views, book : 1 .. Len(book), live : BOOLEAN, on : BOOLEAN])
  /\ book \in Seq([runs : 0 .. MaxRuns, connecting : BOOLEAN, conn : 0 .. Len(conns)])
  /\ entry \in 0 .. Len(book)

(* connectable.ts:87: the source is never connected twice at a time, however *)
(* connect() is called inside the code of the source and of the observers.   *)
OneConnection ==
  Cardinality({c \in DOMAIN conns : Fed(c)}) <= 1

(* ref-count.ts:39: activeRuns counts the runs of the views exactly.         *)
RunsCounted ==
  stack = <<>> =>
    \A k \in DOMAIN book :
      book[k].runs = Cardinality({r \in DOMAIN runs : runs[r].live /\ runs[r].book = k})

(* ref-count.ts:48-57 and 87-92: when the last run of all views is over, so  *)
(* is the connection, also when that happens while connect() is in progress. *)
ReleasedWithTheLast ==
  ~Manual /\ stack = <<>> /\ (\A v \in Views : ~LiveRun(v)) =>
    \A c \in DOMAIN conns : ~Fed(c)

(* connectable.ts:177: with resetOnDisconnect each connection has a Subject *)
(* of its own, so that what one of them ends is over for no other.          *)
FreshConnector ==
  reset => \A c, d \in DOMAIN conns : c # d => conns[c].dest # conns[d].dest

(* A run of a view is subscribed to a Subject that a connection feeds.       *)
ActiveRunsFed ==
  ~Manual /\ stack = <<>> =>
    \A r \in DOMAIN runs :
      runs[r].live => runs[r].on /\ \E c \in DOMAIN conns : Fed(c) /\ conns[c].dest = bridge
=============================================================================
