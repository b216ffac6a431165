------------------------------- MODULE Stream -------------------------------
(***************************************************************************)
(* The event stream: the indexer's thread publishes a commit to the queues *)
(* of the open streams, each stream also compares the committed revision,  *)
(* and a page that listens asks again for what it shows                    *)
(* (backend/app/services/events.py, analytics_events of                    *)
(* app/api/routes/analytics.py, frontend/src/hooks/useSSE.ts).             *)
(*                                                                         *)
(* Handlers, generators and the calls scheduled with call_soon_threadsafe  *)
(* run in one event loop, one step between two awaits; the publisher runs  *)
(* in the indexer's thread, between any of them.  Another process commits  *)
(* to the same database without publishing here.                           *)
(***************************************************************************)
EXTENDS Naturals, Sequences, FiniteSets

CONSTANTS
    Streams,                        \* connections, old ones included
    MaxQueue, MaxWire, None,
    MaxCommits, MaxBreaks           \* bounds: breaks, hidden pages, other messages

ASSUME StreamAssumption ==
    /\ IsFiniteSet(Streams)
    /\ {MaxQueue, MaxWire} \subseteq Nat \ {0}
    /\ {MaxCommits, MaxBreaks} \subseteq Nat

VARIABLES
    revision,    \* commits in the database
    unpublished, \* the indexer's thread has not published its commit yet
    subscribed,  \* streams with a queue in the broadcaster
    queue,
    calls,       \* _put calls scheduled, not run
    active,      \* operations.streams["active"]
    stream,      \* the generator of each connection
    wire,        \* events sent, not received
    link,        \* state of the connection: up, silent, or closed by the page
    page,        \* the page: its connection, visibility, pending query
    shown,       \* revision the page shows
    lost,        \* history: streams whose queue dropped a message
    breaks

broadcaster == <<subscribed, queue, calls, active, lost>>
network == <<wire, link>>
browser == <<page, shown>>
vars == <<revision, unpublished, broadcaster, stream, network, browser, breaks>>

Revisions == 0..MaxCommits
Messages == {"chain_updated", "resync"}
Events == Messages \cup {"heartbeat", "unavailable"}

\* "abandoned": the response was dropped before its body was started.
Points == {"free", "opened", "get", "compare", "send", "abandoned"}
Generator == [pc : Points, revision : Revisions, out : Events, next : {"get", "compare", "free"}]
Idle == [pc |-> "free", revision |-> 0, out |-> "heartbeat", next |-> "get"]

BroadcasterTypeOK ==
    /\ revision \in Revisions /\ unpublished \in BOOLEAN
    /\ subscribed \subseteq Streams /\ active \in 0..Cardinality(Streams) /\ lost \subseteq Streams
    /\ queue \in [Streams -> Seq(Messages)] /\ \A s \in Streams : Len(queue[s]) <= MaxQueue
    /\ calls \in [Streams -> 0..MaxCommits + MaxBreaks]

NetworkTypeOK ==
    /\ wire \in [Streams -> Seq(Events)] /\ \A s \in Streams : Len(wire[s]) <= MaxWire
    /\ link \in [Streams -> {"up", "silent", "closed"}]

PageTypeOK ==
    /\ page \in [stream : Streams \cup {None}, visible : BOOLEAN,
                 query : {"none", "asked", "answered"}, answer : Revisions]
    /\ shown \in Revisions
    /\ breaks \in 0..MaxBreaks

StreamTypeOK ==
    /\ BroadcasterTypeOK
    /\ stream \in [Streams -> Generator]
    /\ NetworkTypeOK
    /\ PageTypeOK

Init ==
    /\ revision = 0 /\ unpublished = FALSE
    /\ subscribed = {} /\ active = 0 /\ lost = {}
    /\ queue = [s \in Streams |-> <<>>] /\ calls = [s \in Streams |-> 0]
    /\ stream = [s \in Streams |-> Idle]
    /\ wire = [s \in Streams |-> <<>>] /\ link = [s \in Streams |-> "closed"]
    /\ page = [stream |-> None, visible |-> TRUE, query |-> "none", answer |-> 0] /\ shown = 0
    /\ breaks = 0

----------------------------------------------------------------------------
(* The broadcaster.                                                        *)

\* A batch is committed by this process's indexer, or by another process.
Commit ==
    /\ revision < MaxCommits /\ revision' = revision + 1
    /\ \/ ~unpublished /\ unpublished' = TRUE
       \/ UNCHANGED unpublished
    /\ UNCHANGED <<broadcaster, stream, network, browser, breaks>>

\* publish_from_thread schedules a call for every queue that was subscribed
\* when it copied them; the calls run later, among the steps of the streams.
Scheduled == [s \in Streams |-> IF s \in subscribed THEN calls[s] + 1 ELSE calls[s]]

Publish ==
    /\ unpublished /\ unpublished' = FALSE /\ calls' = Scheduled
    /\ UNCHANGED <<revision, subscribed, queue, active, lost, stream, network, browser, breaks>>

\* create_product and create_shipment publish what no revision shows.
Announce ==
    /\ breaks < MaxBreaks /\ breaks' = breaks + 1 /\ calls' = Scheduled
    /\ UNCHANGED <<revision, unpublished, subscribed, queue, active, lost, stream, network, browser>>

Full(s) == Len(queue[s]) >= MaxQueue

\* Mutation: a queue that tells of a loss already need not do so again.
OverflowedOnce(q) ==
    Append(Tail(q), IF \E i \in DOMAIN q : q[i] = "resync" THEN "chain_updated" ELSE "resync")
Overflowed(q) == Append(Tail(q), "resync")

\* _put, in the event loop.
Put(s) ==
    /\ calls[s] > 0 /\ calls' = [calls EXCEPT ![s] = @ - 1]
    /\ queue' = [queue EXCEPT ![s] = IF Full(s) THEN Overflowed(@)
                                     ELSE Append(@, "chain_updated")]
    /\ lost' = IF Full(s) THEN lost \cup {s} ELSE lost
    /\ UNCHANGED <<revision, unpublished, subscribed, active, stream, network, browser, breaks>>

----------------------------------------------------------------------------
(* analytics_events: one generator for each connection.                    *)

\* Mutation: only a stream that ends by itself is unsubscribed.
KeptOnCancel(s) == IF stream[s].pc # "send" THEN subscribed ELSE subscribed \ {s}
Remaining(s) == subscribed \ {s}

\* Its finally: what is still scheduled for the queue goes with it.
End(s) ==
    /\ subscribed' = Remaining(s)
    /\ active' = IF s \in subscribed' THEN active ELSE active - 1
    /\ stream' = [stream EXCEPT ![s] = Idle]
    /\ queue' = [queue EXCEPT ![s] = <<>>] /\ calls' = [calls EXCEPT ![s] = 0]
    /\ lost' = lost \ {s}

\* The next event, and where the generator goes on once it is sent.
Yield(s, event, next, known) ==
    stream' = [stream EXCEPT ![s] = [pc |-> "send", revision |-> known, out |-> event, next |-> next]]

ByGenerator == UNCHANGED <<revision, unpublished, subscribed, calls, active, network, browser, breaks>>

\* Subscribed already, it reads the revision in a thread, then says resync.
Begin(s) ==
    /\ stream[s].pc = "opened"
    /\ Yield(s, "resync", "get", revision)
    /\ UNCHANGED <<queue, lost>> /\ ByGenerator

GetMessage(s) ==
    /\ stream[s].pc = "get" /\ queue[s] # <<>>
    /\ Yield(s, Head(queue[s]), "compare", stream[s].revision)
    /\ queue' = [queue EXCEPT ![s] = Tail(@)]
    /\ lost' = IF Head(queue[s]) = "resync" THEN lost \ {s} ELSE lost
    /\ ByGenerator

\* Nothing for five seconds.
Heartbeat(s) ==
    /\ stream[s].pc = "get" /\ queue[s] = <<>>
    /\ Yield(s, "heartbeat", "compare", stream[s].revision)
    /\ UNCHANGED <<queue, lost>> /\ ByGenerator

\* Mutation: a message of the queue is taken to have told of the revision.
AnnouncedUnlessTold(s) == stream[s].revision # revision /\ stream[s].out = "heartbeat"
Announced(s) == stream[s].revision # revision

Compare(s) ==
    /\ stream[s].pc = "compare"
    /\ IF Announced(s) THEN Yield(s, "chain_updated", "get", revision)
       ELSE stream' = [stream EXCEPT ![s].pc = "get", ![s].revision = revision, ![s].out = "heartbeat"]
    /\ UNCHANGED <<queue, lost>> /\ ByGenerator

\* The revision cannot be read.
Unavailable(s) ==
    /\ stream[s].pc \in {"opened", "compare"} /\ breaks < MaxBreaks /\ breaks' = breaks + 1
    /\ Yield(s, "unavailable", "free", 0)
    /\ UNCHANGED <<revision, unpublished, broadcaster, network, browser>>

\* An event is taken by the connection, which may make it wait.
Send(s) ==
    /\ stream[s].pc = "send" /\ link[s] # "closed" /\ Len(wire[s]) < MaxWire
    /\ wire' = [wire EXCEPT ![s] = Append(@, stream[s].out)]
    /\ IF stream[s].next = "free" THEN End(s)
       ELSE /\ stream' = [stream EXCEPT ![s].pc = stream[s].next, ![s].next = "get"]
            /\ UNCHANGED broadcaster
    /\ UNCHANGED <<revision, unpublished, link, browser, breaks>>

\* The server notices that the page has left: the generator is cancelled.
Cancel(s) ==
    /\ link[s] = "closed" /\ stream[s].pc \notin {"free", "opened", "abandoned"}
    /\ End(s)
    /\ UNCHANGED <<revision, unpublished, network, browser, breaks>>

\* It may notice before the first step of the generator, which then never
\* runs: nobody unsubscribes it.  (With a stream to spare for the page.)
Abandon(s) ==
    /\ link[s] = "closed" /\ stream[s].pc = "opened"
    /\ \A t \in Streams : stream[t].pc # "abandoned"
    /\ stream' = [stream EXCEPT ![s].pc = "abandoned"]
    /\ UNCHANGED <<revision, unpublished, broadcaster, network, browser, breaks>>

----------------------------------------------------------------------------
(* The page.                                                               *)

\* connect, at first, after the back-off, and when the page is shown again.
Connect ==
    /\ page.stream = None /\ page.visible
    /\ \E s \in Streams :
          /\ stream[s].pc = "free"
          /\ page' = [page EXCEPT !.stream = s]
          /\ link' = [link EXCEPT ![s] = "up"] /\ wire' = [wire EXCEPT ![s] = <<>>]
          /\ stream' = [stream EXCEPT ![s].pc = "opened"]
          /\ subscribed' = subscribed \cup {s} /\ active' = active + 1
    /\ UNCHANGED <<revision, unpublished, queue, calls, lost, shown, breaks>>

\* clear: the connection is closed, and what it holds is not read any more.
Leave(p) ==
    /\ page.stream # None
    /\ page' = [p EXCEPT !.stream = None]
    /\ link' = [link EXCEPT ![page.stream] = "closed"]
    /\ wire' = [wire EXCEPT ![page.stream] = <<>>]
    /\ UNCHANGED <<revision, unpublished, broadcaster, stream, shown>>

\* A message makes every query ask again, an answer on its way included.
Receive(s) ==
    /\ page.stream = s /\ link[s] = "up" /\ wire[s] # <<>>
    /\ IF Head(wire[s]) = "unavailable" THEN Leave(page) /\ UNCHANGED breaks
       ELSE /\ wire' = [wire EXCEPT ![s] = Tail(@)]
            /\ page' = IF Head(wire[s]) \in Messages THEN [page EXCEPT !.query = "asked", !.answer = 0] ELSE page
            /\ UNCHANGED <<revision, unpublished, broadcaster, stream, link, shown, breaks>>

\* The API answers the query, and the answer arrives.
Answer ==
    /\ page.query = "asked" /\ page' = [page EXCEPT !.query = "answered", !.answer = revision]
    /\ UNCHANGED <<revision, unpublished, broadcaster, stream, network, shown, breaks>>

Show ==
    /\ page.query = "answered" /\ shown' = page.answer
    /\ page' = [page EXCEPT !.query = "none", !.answer = 0]
    /\ UNCHANGED <<revision, unpublished, broadcaster, stream, network, breaks>>

\* onerror: the connection breaks, or the server has ended it.
Error ==
    /\ page.stream # None
    /\ \/ breaks < MaxBreaks /\ breaks' = breaks + 1
       \/ stream[page.stream].pc = "free" /\ wire[page.stream] = <<>> /\ UNCHANGED breaks
    /\ Leave(page)

\* Nothing arrives any more, and nobody is told.
GoSilent ==
    /\ page.stream # None /\ link[page.stream] = "up" /\ breaks < MaxBreaks
    /\ link' = [link EXCEPT ![page.stream] = "silent"] /\ breaks' = breaks + 1
    /\ UNCHANGED <<revision, unpublished, broadcaster, stream, wire, browser>>

\* Mutation: the page trusts its connection.
SilentNever(s) == FALSE
Silent(s) == link[s] = "silent"

\* Nothing for 35 seconds.
Watchdog ==
    /\ page.stream # None /\ Silent(page.stream)
    /\ Leave(page) /\ UNCHANGED breaks

Hide ==
    /\ page.visible /\ breaks < MaxBreaks /\ breaks' = breaks + 1
    /\ IF page.stream # None THEN Leave([page EXCEPT !.visible = FALSE])
       ELSE /\ page' = [page EXCEPT !.visible = FALSE]
            /\ UNCHANGED <<revision, unpublished, broadcaster, stream, network, shown>>

Unhide ==
    /\ ~page.visible /\ page' = [page EXCEPT !.visible = TRUE]
    /\ UNCHANGED <<revision, unpublished, broadcaster, stream, network, shown, breaks>>

----------------------------------------------------------------------------
Server(s) == Begin(s) \/ GetMessage(s) \/ Heartbeat(s) \/ Compare(s) \/ Send(s) \/ Cancel(s)
Browse == Connect \/ Answer \/ Show \/ Watchdog \/ \E s \in Streams : Receive(s)

Next ==
    \/ Commit \/ Publish \/ Announce \/ Browse \/ Error \/ GoSilent \/ Hide \/ Unhide
    \/ \E s \in Streams : Put(s) \/ Server(s) \/ Unavailable(s) \/ Abandon(s)

Spec == Init /\ [][Next]_vars

----------------------------------------------------------------------------
\* What is still on its way to the page over the connection s.
Coming(s) ==
    \/ stream[s].pc \in {"opened", "free", "abandoned"}
    \/ stream[s].pc = "send" /\ stream[s].out # "heartbeat"
    \/ stream[s].revision # revision
    \/ \E i \in DOMAIN wire[s] : wire[s][i] # "heartbeat"

\* A page that shows an older revision than the committed one over a
\* connection that works is going to hear of it: from its first resync, a
\* message, the next comparison or the end of the stream, whichever process
\* committed and whatever the queue dropped.
NothingForgotten ==
    page.stream # None /\ link[page.stream] = "up" =>
        \/ shown = revision
        \/ page.query = "asked"
        \/ page.query = "answered" /\ page.answer = revision
        \/ Coming(page.stream)

\* A queue that dropped a message holds a resync that stands for it until it
\* is sent, also when the next overflow drops a resync.
LossIsTold == \A s \in lost : \E i \in DOMAIN queue[s] : queue[s][i] = "resync"

Running(s) == stream[s].pc \notin {"free", "abandoned"}
Abandoned(s) == stream[s].pc = "abandoned"

\* A subscription, and its part of the counter in /health/operations, is
\* released when its generator ends, wherever it was cancelled; one whose
\* generator never started is not released at all.
HeldUntilEnd ==
    /\ subscribed = {s \in Streams : Running(s) \/ Abandoned(s)}
    /\ active = Cardinality(subscribed)

\* What the broadcaster, its counter and its queues keep of the streams.
StreamInv == StreamTypeOK /\ HeldUntilEnd

----------------------------------------------------------------------------
(* Liveness.  The event loop and the publisher go on; the page's timers    *)
(* fire, and its connection delivers unless it is silent.                  *)

FairSpec ==
    /\ Spec
    /\ WF_vars(Publish) /\ WF_vars(Connect) /\ WF_vars(Answer) /\ WF_vars(Show) /\ WF_vars(Watchdog)
    /\ WF_vars(Error /\ UNCHANGED breaks)
    /\ \A s \in Streams :
          WF_vars(Put(s)) /\ WF_vars(Server(s)) /\ WF_vars(Receive(s)) /\ WF_vars(Abandon(s))

\* A page that stays visible ends up showing what was committed last, after
\* any breaks of its connection.
EndsUpToDate == <>[](page.visible) => <>[](shown = revision)
=============================================================================
