----------------------------- MODULE EngineSocket -----------------------------
(***************************************************************************)
(* One window and the engine, over a socket that drops and is opened anew. *)
(*   app/src/api/socket.ts                 EngineSocket, in the window     *)
(*   app/src/composables/useResource.ts    a table and its subscription    *)
(*   engine/internal/api/server.go         connection, in the engine       *)
(*   engine/internal/watch/resources.go    the goroutine of a subscription *)
(*                                                                         *)
(* The window may notice that the link is gone, and open another, while    *)
(* the engine still works through what it received on the old one, so each *)
(* connection has its own queues and its own end.  A stream is one call of *)
(* watch.Resources; it holds its factory (SessionFactories) until its      *)
(* goroutine has noticed that it was stopped.  What the rows are is the    *)
(* business of ResourceStream; here a row is only of one target.           *)
(***************************************************************************)
EXTENDS SessionFactories, Sequences, SequencesExt

CONSTANTS
    Ids,         \* subscription ids, one for each table of the window
    Targets,     \* what a table may show: a kind in a namespace
    NoSession,   \* targets in a context that cannot be connected to
    NoKind,      \* targets whose kind is not known
    Requests,    \* requests, each with its id
    Connections, \* 1 .. n, the sockets the window opens one after another
    MaxOrders,   \* bound: subscriptions made by the user
    MaxDeltas    \* bound: deltas sent by streams

Streams == Holders

ASSUME TargetsAssumption ==
    /\ Targets \subseteq [kind : Kinds, ns : Namespaces]
    /\ NoSession \cup NoKind \subseteq Targets
    /\ None \notin Targets
ASSUME IdsAssumption == IsFiniteSet(Ids)
ASSUME BoundsAssumption == MaxOrders \in Nat /\ MaxDeltas \in Nat
ASSUME ConnectionsAssumption ==
    IsFiniteSet(Connections) /\ Connections = 1 .. Cardinality(Connections)

VARIABLES
    status,         \* EngineSocket.status
    conn,           \* the connection opened last, 0 before the first
    subscriptions,  \* EngineSocket.subscriptions: the target, or None
    queue,          \* EngineSocket.queue
    answer,         \* answer[r]: what became of the promise of request r
    strays,         \* answers received for requests no longer pending
    shown,          \* shown[i]: targets whose rows table i shows
    toEngine,       \* toEngine[n]: messages on their way to the engine
    toWindow,       \* toWindow[n]: messages on their way to the window
    serving,        \* serving[n]: the engine's read loop of n runs
    subs,           \* subs[n][i]: connection.subs, the stream, or None
    stream,         \* stream[s]: a subscription's goroutine
    tasks,          \* goroutines serving a request: <<connection, request>>
    carriedOut,     \* history: how often request r was carried out
    orders, deltas  \* bound counters

link == <<status, conn>>
promises == <<answer, strays>>
client == <<status, conn, subscriptions, queue, answer, strays, shown>>
wire == <<toEngine, toWindow>>
engine == <<serving, subs, stream, tasks, carriedOut>>
bounds == <<orders, deltas>>
vars == <<status, conn, subscriptions, queue, answer, strays, shown, toEngine,
          toWindow, serving, subs, stream, tasks, carriedOut, orders, deltas,
          factories, refs, closings, registered, running, hold, leaked>>

Msg(type, id, what) == [type |-> type, id |-> id, what |-> what]

NoStream ==
    [at |-> "none", stopped |-> FALSE, conn |-> 0, id |-> None, target |-> None]

Init ==
    /\ FactoriesInit
    /\ status = "connecting"
    /\ conn = 0
    /\ subscriptions = [i \in Ids |-> None]
    /\ queue = <<>>
    /\ answer = [r \in Requests |-> "unasked"]
    /\ strays = {}
    /\ shown = [i \in Ids |-> {}]
    /\ toEngine = [n \in Connections |-> <<>>]
    /\ toWindow = [n \in Connections |-> <<>>]
    /\ serving = [n \in Connections |-> FALSE]
    /\ subs = [n \in Connections |-> [i \in Ids |-> None]]
    /\ stream = [s \in Streams |-> NoStream]
    /\ tasks = {}
    /\ carriedOut = [r \in Requests |-> 0]
    /\ orders = 0
    /\ deltas = 0

-----------------------------------------------------------------------------
(* The window.                                                             *)

\* send: over the socket when it is open, else into the queue.
Send(m) ==
    IF status = "open"
    THEN /\ toEngine' = [toEngine EXCEPT ![conn] = Append(@, m)]
         /\ UNCHANGED queue
    ELSE /\ queue' = Append(queue, m)
         /\ UNCHANGED toEngine

Request(r) ==
    /\ answer[r] = "unasked"
    /\ answer' = [answer EXCEPT ![r] = "pending"]
    /\ Send(Msg("request", r, None))
    /\ UNCHANGED <<link, subscriptions, strays, shown, toWindow, engine, bounds,
                   factoryVars>>

\* A table is opened, or shows something else: its rows are dropped.
Subscribe(i, t) ==
    /\ orders < MaxOrders
    /\ orders' = orders + 1
    /\ subscriptions[i] # t
    /\ subscriptions' = [subscriptions EXCEPT ![i] = t]
    /\ shown' = [shown EXCEPT ![i] = {}]
    /\ Send(Msg("subscribe", i, t))
    /\ UNCHANGED <<link, promises, toWindow, engine, deltas, factoryVars>>

Unsubscribe(i) ==
    /\ subscriptions[i] # None
    /\ subscriptions' = [subscriptions EXCEPT ![i] = None]
    /\ shown' = [shown EXCEPT ![i] = {}]
    /\ Send(Msg("unsubscribe", i, None))
    /\ UNCHANGED <<link, promises, toWindow, engine, bounds, factoryVars>>

Resent == SetToSeq({Msg("subscribe", i, subscriptions[i]) :
                      i \in {j \in Ids : subscriptions[j] # None}})

\* Mutant: the queue is sent and kept.
OpenedKeepsQueue ==
    /\ status = "connecting"
    /\ conn + 1 \in Connections
    /\ status' = "open"
    /\ conn' = conn + 1
    /\ toEngine' = [toEngine EXCEPT ![conn + 1] = Resent \o queue]
    /\ serving' = [serving EXCEPT ![conn + 1] = TRUE]
    /\ UNCHANGED <<subscriptions, queue, promises, shown, toWindow, subs,
                   stream, tasks, carriedOut, bounds, factoryVars>>

\* Mutant: only the queue is sent.
OpenedSendsQueueOnly ==
    /\ status = "connecting"
    /\ conn + 1 \in Connections
    /\ status' = "open"
    /\ conn' = conn + 1
    /\ toEngine' = [toEngine EXCEPT ![conn + 1] = queue]
    /\ queue' = <<>>
    /\ serving' = [serving EXCEPT ![conn + 1] = TRUE]
    /\ UNCHANGED <<subscriptions, promises, shown, toWindow, subs, stream,
                   tasks, carriedOut, bounds, factoryVars>>

\* onopen: every subscription, then whatever was queued.
Opened ==
    /\ status = "connecting"
    /\ conn + 1 \in Connections
    /\ status' = "open"
    /\ conn' = conn + 1
    /\ toEngine' = [toEngine EXCEPT ![conn + 1] = Resent \o queue]
    /\ queue' = <<>>
    /\ serving' = [serving EXCEPT ![conn + 1] = TRUE]
    /\ UNCHANGED <<subscriptions, promises, shown, toWindow, subs, stream,
                   tasks, carriedOut, bounds, factoryVars>>

Rejected ==
    [r \in Requests |-> IF answer[r] = "pending" THEN "rejected" ELSE answer[r]]

\* Mutant: promises are left pending when the socket closes.
ClosedLeavesPending ==
    /\ status \in {"open", "connecting"}
    /\ conn + 1 \in Connections
    /\ status' = "closed"
    /\ IF status = "open"
       THEN /\ \E k \in 0 .. Len(toEngine[conn]) :
                 toEngine' = [toEngine EXCEPT ![conn] = SubSeq(@, 1, k)]
            /\ toWindow' = [toWindow EXCEPT ![conn] = <<>>]
       ELSE UNCHANGED wire
    /\ UNCHANGED <<conn, subscriptions, queue, promises, shown, engine, bounds,
                   factoryVars>>

\* onclose, of an open socket (what the engine had received of it, it will
\* still read) or of one that could not be opened.  Bounded by Connections.
Closed ==
    /\ status \in {"open", "connecting"}
    /\ conn + 1 \in Connections
    /\ status' = "closed"
    /\ answer' = Rejected
    /\ IF status = "open"
       THEN /\ \E k \in 0 .. Len(toEngine[conn]) :
                 toEngine' = [toEngine EXCEPT ![conn] = SubSeq(@, 1, k)]
            /\ toWindow' = [toWindow EXCEPT ![conn] = <<>>]
       ELSE UNCHANGED wire
    /\ UNCHANGED <<conn, subscriptions, queue, strays, shown, engine, bounds,
                   factoryVars>>

\* The timer that onclose set.
Connect ==
    /\ status = "closed"
    /\ status' = "connecting"
    /\ UNCHANGED <<conn, subscriptions, queue, promises, shown, wire, engine,
                   bounds, factoryVars>>

\* onmessage: an answer settles its promise; anything else goes to whoever
\* listens, and a table takes what carries its id.
Receive ==
    /\ status = "open"
    /\ toWindow[conn] # <<>>
    /\ LET m == Head(toWindow[conn])
       IN  \/ /\ m.type = "answer"
              /\ IF answer[m.id] = "pending"
                 THEN /\ answer' = [answer EXCEPT ![m.id] = "answered"]
                      /\ UNCHANGED strays
                 ELSE /\ strays' = strays \cup {m.id}
                      /\ UNCHANGED answer
              /\ UNCHANGED shown
           \/ /\ m.type = "snapshot"
              /\ shown' = [shown EXCEPT ![m.id] = {m.what}]
              /\ UNCHANGED promises
           \/ /\ m.type = "delta"
              /\ shown' = [shown EXCEPT ![m.id] = @ \cup {m.what}]
              /\ UNCHANGED promises
    /\ toWindow' = [toWindow EXCEPT ![conn] = Tail(@)]
    /\ UNCHANGED <<link, subscriptions, queue, toEngine, engine, bounds,
                   factoryVars>>

-----------------------------------------------------------------------------
(* The engine's read loop.  It takes one message at a time, and waits for  *)
(* watch.Resources to have started the stream of a subscription.           *)

Takes(n, type) ==
    /\ serving[n]
    /\ toEngine[n] # <<>>
    /\ Head(toEngine[n]).type = type
    /\ \A s \in Streams : stream[s].conn = n => stream[s].at # "starting"
    /\ toEngine' = [toEngine EXCEPT ![n] = Tail(@)]

\* What stops when the entry of id i in c.subs is replaced or deleted.
Stopped(n, i) ==
    [s \in Streams |->
        IF s = subs[n][i] THEN [stream[s] EXCEPT !.stopped = TRUE]
        ELSE stream[s]]

\* Mutant: track overwrites the entry without stopping what it held.
TrackForgets(n, i, s, new) ==
    /\ subs' = [subs EXCEPT ![n][i] = s]
    /\ stream' = IF s = None THEN stream ELSE [stream EXCEPT ![s] = new]

Track(n, i, s, new) ==
    /\ subs' = [subs EXCEPT ![n][i] = s]
    /\ stream' = IF s = None THEN Stopped(n, i)
                 ELSE [Stopped(n, i) EXCEPT ![s] = new]

\* A context that cannot be connected to is an error, and that is all.
HandleNoSession(n) ==
    /\ Takes(n, "subscribe")
    /\ Head(toEngine[n]).what \in NoSession
    /\ UNCHANGED <<client, toWindow, engine, bounds, factoryVars>>

\* An unknown kind is an error too, but the id was tracked before.
HandleNoKind(n) ==
    /\ Takes(n, "subscribe")
    /\ Head(toEngine[n]).what \in NoKind \ NoSession
    /\ Track(n, Head(toEngine[n]).id, None, NoStream)
    /\ UNCHANGED <<client, toWindow, serving, tasks, carriedOut, bounds,
                   factoryVars>>

\* Bounded by Streams.
HandleSubscribe(n) ==
    /\ Takes(n, "subscribe")
    /\ Head(toEngine[n]).what \notin NoSession \cup NoKind
    /\ \E x \in Streams : stream[x] = NoStream
    /\ LET s == CHOOSE x \in Streams : stream[x] = NoStream
           i == Head(toEngine[n]).id
           t == Head(toEngine[n]).what
       IN  /\ Track(n, i, s, [at |-> "starting", stopped |-> FALSE, conn |-> n,
                              id |-> i, target |-> t])
           /\ Factory(s, t.ns, t.kind)
    /\ UNCHANGED <<client, toWindow, serving, tasks, carriedOut, bounds>>

HandleUnsubscribe(n) ==
    /\ Takes(n, "unsubscribe")
    /\ Track(n, Head(toEngine[n]).id, None, NoStream)
    /\ UNCHANGED <<client, toWindow, serving, tasks, carriedOut, bounds,
                   factoryVars>>

\* A goroutine of its own for each request.
HandleRequest(n) ==
    /\ Takes(n, "request")
    /\ tasks' = tasks \cup {<<n, Head(toEngine[n]).id>>}
    /\ UNCHANGED <<client, toWindow, serving, subs, stream, carriedOut, bounds,
                   factoryVars>>

Lost(n) == n < conn \/ status # "open"

\* The read loop ends, after what it had received; every stream of the
\* connection is stopped, by its entry in c.subs or with the context of run.
Disconnected(n) ==
    /\ serving[n]
    /\ Lost(n)
    /\ toEngine[n] = <<>>
    /\ \A s \in Streams : stream[s].conn = n => stream[s].at # "starting"
    /\ serving' = [serving EXCEPT ![n] = FALSE]
    /\ stream' = [s \in Streams |->
                    IF stream[s].conn = n
                    THEN [stream[s] EXCEPT !.stopped = TRUE] ELSE stream[s]]
    /\ UNCHANGED <<client, wire, subs, tasks, carriedOut, bounds, factoryVars>>

-----------------------------------------------------------------------------
(* The engine's goroutines.                                                *)

\* connection.send, to a window that is still there.
Reply(n, m) ==
    toWindow' = IF Lost(n) THEN toWindow
                ELSE [toWindow EXCEPT ![n] = Append(@, m)]

\* A request is carried out and answered; once its connection is gone its
\* context is cancelled, and it may give up instead.
Serve(n, r) ==
    /\ <<n, r>> \in tasks
    /\ tasks' = tasks \ {<<n, r>>}
    /\ \/ /\ carriedOut' = [carriedOut EXCEPT ![r] = @ + 1]
          /\ Reply(n, Msg("answer", r, None))
       \/ /\ ~serving[n]
          /\ UNCHANGED <<carriedOut, toWindow>>
    /\ UNCHANGED <<client, toEngine, serving, subs, stream, bounds,
                   factoryVars>>

StartStream(s) ==
    /\ stream[s].at = "starting"
    /\ stream' = [stream EXCEPT ![s].at = "syncing"]
    /\ Start(s)
    /\ UNCHANGED <<client, wire, serving, subs, tasks, carriedOut, bounds>>

\* The informer has synced; a stream that was stopped just before may not
\* have noticed.
Synced(s) ==
    /\ stream[s].at = "syncing"
    /\ stream' = [stream EXCEPT ![s].at = "live"]
    /\ Reply(stream[s].conn, Msg("snapshot", stream[s].id, stream[s].target))
    /\ UNCHANGED <<client, toEngine, serving, subs, tasks, carriedOut, bounds,
                   factoryVars>>

\* The select of a stream that was stopped may take the ticker once more.
SendDelta(s) ==
    /\ stream[s].at = "live"
    /\ deltas < MaxDeltas
    /\ deltas' = deltas + 1
    /\ Reply(stream[s].conn, Msg("delta", stream[s].id, stream[s].target))
    /\ UNCHANGED <<client, toEngine, engine, orders, factoryVars>>

\* Mutant: the goroutine ends without its release.
EndStreamHolding(s) ==
    /\ stream[s].at \in {"syncing", "live"}
    /\ stream[s].stopped
    /\ stream' = [stream EXCEPT ![s].at = "over"]
    /\ UNCHANGED <<client, wire, serving, subs, tasks, carriedOut, bounds,
                   factoryVars>>

EndStream(s) ==
    /\ stream[s].at \in {"syncing", "live"}
    /\ stream[s].stopped
    /\ stream' = [stream EXCEPT ![s].at = "over"]
    /\ Release(s)
    /\ UNCHANGED <<client, wire, serving, subs, tasks, carriedOut, bounds>>

Reading(n) ==
    \/ HandleNoSession(n)
    \/ HandleNoKind(n)
    \/ HandleSubscribe(n)
    \/ HandleUnsubscribe(n)
    \/ HandleRequest(n)
    \/ Disconnected(n)

Next ==
    \/ \E r \in Requests : Request(r)
    \/ \E i \in Ids : Unsubscribe(i) \/ \E t \in Targets : Subscribe(i, t)
    \/ Opened \/ Closed \/ Connect \/ Receive
    \/ \E n \in Connections : Reading(n) \/ \E r \in Requests : Serve(n, r)
    \/ \E s \in Streams :
         StartStream(s) \/ Synced(s) \/ SendDelta(s) \/ EndStream(s)

Spec == Init /\ [][Next]_vars

Window == Opened \/ Connect \/ Receive
Goroutine(s) == StartStream(s) \/ Synced(s) \/ EndStream(s)

\* The window's timers and handlers run, the engine's goroutines run and calls
\* to a cluster end by their deadlines.  The user need do nothing, and a
\* stream need not send deltas.
Fairness ==
    /\ WF_vars(Window)
    /\ \A n \in Connections :
         WF_vars(Reading(n)) /\ \A r \in Requests : WF_vars(Serve(n, r))
    /\ \A s \in Streams : WF_vars(Goroutine(s))

FairSpec == Spec /\ Fairness
-----------------------------------------------------------------------------
(* Properties.                                                             *)

Answers == {"unasked", "pending", "answered", "rejected"}
Wanted == Targets \cup {None}
ToEngine == [type : {"request"}, id : Requests, what : {None}] \cup
            [type : {"subscribe"}, id : Ids, what : Targets] \cup
            [type : {"unsubscribe"}, id : Ids, what : {None}]
ToWindow == [type : {"answer"}, id : Requests, what : {None}] \cup
            [type : {"snapshot", "delta"}, id : Ids, what : Targets]
Stream == [at : {"starting", "syncing", "live", "over"}, stopped : BOOLEAN,
           conn : Connections, id : Ids, target : Targets]

\* Types.
TypeOK ==
    /\ FactoriesTypeOK
    /\ status \in {"connecting", "open", "closed"}
    /\ conn \in {0} \cup Connections
    /\ subscriptions \in [Ids -> Wanted]
    /\ queue \in Seq(ToEngine)
    /\ answer \in [Requests -> Answers]
    /\ strays \subseteq Requests
    /\ shown \in [Ids -> SUBSET Targets]
    /\ toEngine \in [Connections -> Seq(ToEngine)]
    /\ toWindow \in [Connections -> Seq(ToWindow)]
    /\ serving \in [Connections -> BOOLEAN]
    /\ subs \in [Connections -> [Ids -> Streams \cup {None}]]
    /\ stream \in [Streams -> Stream \cup {NoStream}]
    /\ tasks \subseteq Connections \X Requests
    /\ carriedOut \in [Requests -> Nat]
    /\ orders \in 0 .. MaxOrders
    /\ deltas \in 0 .. MaxDeltas

Running(s) == stream[s].at # "none" /\ ~stream[s].stopped

\* The engine has worked through what the window sent.
Quiet ==
    /\ status = "open"
    /\ serving[conn]
    /\ toEngine[conn] = <<>>
    /\ \A s \in Streams : stream[s].conn = conn => stream[s].at # "starting"

\* What the engine streams to a window is what the window is subscribed to,
\* once the engine has caught up with it: one stream for each table, of its
\* target, and none for a table that is gone, whatever was subscribed, ended
\* or changed while the link was down.  (Not for a context that cannot be
\* connected to: its subscribe fails before the id's old stream is stopped.)
SubscriptionsAgree ==
    Quiet => \A i \in Ids : subscriptions[i] \notin NoSession =>
      LET mine == {s \in Streams : /\ Running(s)
                                      /\ stream[s].conn = conn
                                      /\ stream[s].id = i}
      IN  IF subscriptions[i] \in NoKind \cup {None} THEN mine = {}
          ELSE /\ Cardinality(mine) = 1
               /\ \A s \in mine : stream[s].target = subscriptions[i]

\* A stream that runs can be stopped: it is the one its connection knows by
\* its id, and the connection is being read.  No stream outlives its window.
NoOrphanStream ==
    \A s \in Streams : Running(s) =>
      /\ serving[stream[s].conn]
      /\ subs[stream[s].conn][stream[s].id] = s

\* However often the link drops, a request is carried out at most once, and
\* its promise resolves only if it was.
CarriedOutOnce ==
    \A r \in Requests :
      /\ carriedOut[r] <= 1
      /\ answer[r] = "answered" => carriedOut[r] = 1

\* No promise waits forever, even for an engine that never comes back.
EveryRequestSettles ==
    \A r \in Requests :
      answer[r] = "pending" ~> answer[r] \in {"answered", "rejected"}

\* A stream that was stopped lets go of its factory.
StoppedReleases ==
    \A s \in Streams : stream[s].stopped ~> hold[s].phase = "released"

\* "One request, one answer (or an error)": a request whose promise was
\* rejected is not answered after that.
OneAnswerOrError == strays = {}

\* "Holds the rows of one subscription": when everything sent has arrived and
\* the streams are through their snapshots, a table shows no rows of what it
\* was subscribed to before.
RowsOfOneSubscription ==
    Quiet /\ toWindow[conn] = <<>> =>
      \A i \in Ids :
        /\ subscriptions[i] \in Targets \ (NoKind \cup NoSession)
        /\ \A s \in Streams : stream[s].id = i => stream[s].at # "syncing"
        => shown[i] \subseteq {subscriptions[i]}
=============================================================================
