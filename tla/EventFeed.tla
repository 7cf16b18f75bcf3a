----------------------------- MODULE EventFeed -----------------------------
(***************************************************************************)
(* How verdicts reach the dashboard: the audit rows and the subscribers of *)
(* an EventLog object (api/eventlog.py), GET /stream and GET /events       *)
(* (api/main.py), and the first effect of web/app/page.tsx.                *)
(*                                                                         *)
(* The rows are one table, but the subscribers belong to one object: the   *)
(* server's log, through which POST /demo appends.  Every run appends      *)
(* through an EventLog of its own, made over the same file, which nobody   *)
(* can subscribe to.  Appending, subscribing and unsubscribing happen on   *)
(* the event loop; GET /events is answered by a thread, at any time.  A    *)
(* queue stands for the asyncio queue and for what the connection carries: *)
(* both are first in, first out, and both are lost with the connection.    *)
(***************************************************************************)
EXTENDS Naturals, Sequences

CONSTANTS
  Dashboards,        \* mounted pages
  Connections,       \* bound: queues the server holds at once
  None,              \* a page without a connection
  MaxEvents,         \* bound: audit rows
  MaxServerRestarts  \* bound: restarts of the server

ASSUME NoneAssumption == None \notin Connections
ASSUME BoundAssumption == MaxEvents \in Nat /\ MaxServerRestarts \in Nat

VARIABLES
  events,       \* the audit rows in id order: which log appended each
  pushing,      \* the row emit has committed and not yet pushed, or 0
  subscribers,  \* _subscribers of the server's log
  queue,        \* subscriber |-> the ids it has not handed to its page
  stream,       \* page |-> the connection of its EventSource
  history,      \* page |-> where its request for /events is
  answer,       \* page |-> the rows it was answered with: 1..answer
  shown,        \* page |-> the ids of its event list
  serverRestarts,
  joined,       \* history: page |-> rows when its connection was opened
  overwritten   \* history: page |-> ids that its history has removed since

page == <<stream, history, answer, shown, joined, overwritten>>
feedVars == <<events, pushing, subscribers, queue, page, serverRestarts>>

Ids == 1..Len(events)
Shows(d) == { shown[d][i] : i \in DOMAIN shown[d] }
Queued(c) == { queue[c][i] : i \in DOMAIN queue[c] }

FeedTypeOK ==
  /\ events \in Seq({"server", "run"})
  /\ pushing \in {0} \union Ids
  /\ subscribers \subseteq Connections
  /\ queue \in [Connections -> Seq(Ids)]
  /\ stream \in [Dashboards -> Connections \union {None}]
  /\ history \in [Dashboards -> {"asked", "answered", "settled"}]
  /\ answer \in [Dashboards -> 0..Len(events)]
  /\ shown \in [Dashboards -> Seq(Ids)]
  /\ serverRestarts \in 0..MaxServerRestarts
  /\ joined \in [Dashboards -> 0..Len(events)]
  /\ overwritten \in [Dashboards -> SUBSET Ids]

FeedInit ==
  /\ events = <<>> /\ pushing = 0
  /\ subscribers = {}
  /\ queue = [c \in Connections |-> <<>>]
  /\ stream = [d \in Dashboards |-> None]
  /\ history = [d \in Dashboards |-> "asked"]
  /\ answer = [d \in Dashboards |-> 0]
  /\ shown = [d \in Dashboards |-> <<>>]
  /\ serverRestarts = 0
  /\ joined = [d \in Dashboards |-> 0]
  /\ overwritten = [d \in Dashboards |-> {}]

\* No handler is between its commit and its push: the loop is free.
LoopFree == pushing = 0

-----------------------------------------------------------------------------
(* The server.                                                              *)

\* emit, up to the commit of the row, by POST /demo.
ServerEmit ==
  /\ LoopFree /\ Len(events) < MaxEvents
  /\ events' = Append(events, "server")
  /\ pushing' = Len(events) + 1
  /\ UNCHANGED <<subscribers, queue, page, serverRestarts>>

\* Mutant: one queue is shared, so that each event reaches one connection.
MutPush ==
  /\ pushing # 0
  /\ \E c \in subscribers : queue' = [queue EXCEPT ![c] = Append(@, pushing)]
  /\ pushing' = 0
  /\ UNCHANGED <<events, subscribers, page, serverRestarts>>

\* The rest of emit: put_nowait on every queue, of dead connections too.
Push ==
  /\ pushing # 0
  /\ queue' = [c \in Connections |->
                 IF c \in subscribers THEN Append(queue[c], pushing) ELSE queue[c]]
  /\ pushing' = 0
  /\ UNCHANGED <<events, subscribers, page, serverRestarts>>

\* emit by a tool call of a run: its own log has no subscribers.
RunEmit ==
  /\ LoopFree /\ Len(events) < MaxEvents
  /\ events' = Append(events, "run")
  /\ UNCHANGED <<pushing, subscribers, queue, page, serverRestarts>>

\* GET /stream, for an EventSource that opens or tries again.
Subscribe(d, c) ==
  /\ LoopFree
  /\ stream[d] = None /\ c \notin subscribers
  /\ subscribers' = subscribers \union {c}
  /\ stream' = [stream EXCEPT ![d] = c]
  /\ joined' = [joined EXCEPT ![d] = Len(events)]
  /\ overwritten' = [overwritten EXCEPT ![d] = {}]
  /\ UNCHANGED <<events, pushing, queue, history, answer, shown, serverRestarts>>

\* Mutant: the list of subscribers is cleared.
MutUnsubscribe(c) ==
  /\ LoopFree
  /\ c \in subscribers /\ \A d \in Dashboards : stream[d] # c
  /\ subscribers' = {}
  /\ queue' = [queue EXCEPT ![c] = <<>>]
  /\ UNCHANGED <<events, pushing, page, serverRestarts>>

\* The generator of a connection that is gone ends: its finally clause.
Unsubscribe(c) ==
  /\ LoopFree
  /\ c \in subscribers /\ \A d \in Dashboards : stream[d] # c
  /\ subscribers' = subscribers \ {c}
  /\ queue' = [queue EXCEPT ![c] = <<>>]
  /\ UNCHANGED <<events, pushing, page, serverRestarts>>

\* GET /events: since(0), whatever the loop is doing.
AnswerHistory(d) ==
  /\ history[d] = "asked"
  /\ history' = [history EXCEPT ![d] = "answered"]
  /\ answer' = [answer EXCEPT ![d] = Len(events)]
  /\ UNCHANGED <<events, pushing, subscribers, queue, stream, shown,
                 serverRestarts, joined, overwritten>>

-----------------------------------------------------------------------------
(* The page.                                                                *)

\* Mutant: appendEvent adds whatever comes.
MutDeliver(d) ==
  LET c == stream[d]
  IN  /\ c # None /\ queue[c] # <<>>
      /\ queue' = [queue EXCEPT ![c] = Tail(@)]
      /\ shown' = [shown EXCEPT ![d] = Append(@, Head(queue[c]))]
      /\ UNCHANGED <<events, pushing, subscribers, stream, history, answer,
                     serverRestarts, joined, overwritten>>

\* onmessage: appendEvent adds an id that is not there yet.
Deliver(d) ==
  LET c == stream[d]
  IN  /\ c # None /\ queue[c] # <<>>
      /\ queue' = [queue EXCEPT ![c] = Tail(@)]
      /\ shown' = IF Head(queue[c]) \in Shows(d) THEN shown
                  ELSE [shown EXCEPT ![d] = Append(@, Head(queue[c]))]
      /\ UNCHANGED <<events, pushing, subscribers, stream, history, answer,
                     serverRestarts, joined, overwritten>>

\* setEvents(history) replaces the list, whatever the stream has added.
ShowHistory(d) ==
  /\ history[d] = "answered"
  /\ shown' = [shown EXCEPT ![d] = [i \in 1..answer[d] |-> i]]
  /\ overwritten' = [overwritten EXCEPT ![d] = @ \union (Shows(d) \ 1..answer[d])]
  /\ history' = [history EXCEPT ![d] = "settled"]
  /\ answer' = [answer EXCEPT ![d] = 0]
  /\ UNCHANGED <<events, pushing, subscribers, queue, stream, serverRestarts,
                 joined>>

\* catch(() => undefined): the page goes on with the stream alone.
LoseHistory(d) ==
  /\ history[d] # "settled"
  /\ history' = [history EXCEPT ![d] = "settled"]
  /\ answer' = [answer EXCEPT ![d] = 0]
  /\ UNCHANGED <<events, pushing, subscribers, queue, stream, shown,
                 serverRestarts, joined, overwritten>>

\* The connection breaks; the EventSource will open another.
Break(d) ==
  /\ stream[d] # None
  /\ stream' = [stream EXCEPT ![d] = None]
  /\ UNCHANGED <<events, pushing, subscribers, queue, history, answer, shown,
                 serverRestarts, joined, overwritten>>

\* The page is left (source.close()) and mounted anew.
Reload(d) ==
  /\ stream' = [stream EXCEPT ![d] = None]
  /\ history' = [history EXCEPT ![d] = "asked"]
  /\ answer' = [answer EXCEPT ![d] = 0]
  /\ shown' = [shown EXCEPT ![d] = <<>>]
  /\ UNCHANGED <<events, pushing, subscribers, queue, serverRestarts, joined,
                 overwritten>>

\* The server stops, perhaps between commit and push, and starts again: the
\* rows are durable, everything else it held is gone.  A request for
\* /events it has not answered fails.
ServerRestart ==
  /\ serverRestarts < MaxServerRestarts
  /\ serverRestarts' = serverRestarts + 1
  /\ pushing' = 0 /\ subscribers' = {}
  /\ queue' = [c \in Connections |-> <<>>]
  /\ stream' = [d \in Dashboards |-> None]
  /\ history' = [d \in Dashboards |->
                   IF history[d] = "asked" THEN "settled" ELSE history[d]]
  /\ UNCHANGED <<events, answer, shown, joined, overwritten>>

FeedNext ==
  \/ ServerEmit \/ Push \/ RunEmit
  \/ \E d \in Dashboards, c \in Connections : Subscribe(d, c)
  \/ \E c \in Connections : Unsubscribe(c)
  \/ \E d \in Dashboards :
       \/ AnswerHistory(d) \/ Deliver(d) \/ ShowHistory(d) \/ LoseHistory(d)
       \/ Break(d) \/ Reload(d)
  \/ ServerRestart

FeedSpec == FeedInit /\ [][FeedNext]_feedVars

\* emit goes on from its commit to its push without waiting for anything, and
\* a connection that stays up delivers what is queued for it.
FeedFairSpec ==
  FeedSpec /\ WF_feedVars(Push) /\ \A d \in Dashboards : WF_feedVars(Deliver(d))

-----------------------------------------------------------------------------
(* The event list is in the order of the audit log and has no event twice,  *)
(* although history and stream overlap and are combined in any order.       *)
ShownInOrder ==
  \A d \in Dashboards : \A i, j \in DOMAIN shown[d] :
    i < j => shown[d][i] < shown[d][j]

\* What the page shows, or will when its queue and the push are through.
Coming(d) == Shows(d) \union Queued(stream[d]) \union {pushing}

(* Of what the server's own log appends while a page is connected, nothing  *)
(* is lost between commit, queue and list, whatever state the page is in.   *)
(* The one way out of the list is a history that was read before the event  *)
(* and set after it (page.tsx:84).                                          *)
StreamIsLossless ==
  \A d \in Dashboards : stream[d] # None =>
    \A e \in (joined[d] + 1)..Len(events) :
      events[e] = "server" => e \in Coming(d) \union overwritten[d]

(* A verdict of the server's log that is committed while a page is          *)
(* connected is shown by it, unless that connection breaks before.          *)
VerdictShown ==
  \A d \in Dashboards, c \in Connections, e \in 1..MaxEvents :
    pushing = e /\ stream[d] = c ~> e \in Shows(d) \/ stream[d] # c

(* docs/superpowers/plans/2026-07-16-interlock.md:282, GET /stream yields   *)
(* "one event per new verdict": whoever appends a verdict, a page that is   *)
(* connected shows it or is about to.                                       *)
VerdictsStreamed ==
  \A d \in Dashboards : stream[d] # None =>
    \A e \in (joined[d] + 1)..Len(events) : e \in Coming(d)
=============================================================================
