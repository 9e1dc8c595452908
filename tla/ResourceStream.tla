---------------------------- MODULE ResourceStream ----------------------------
(***************************************************************************)
(* One live table: the path of its rows from an informer to the window.    *)
(*   engine/internal/watch/resources.go   batcher and stream               *)
(*   engine/internal/cluster/metrics.go   the poll that wakes the stream   *)
(*   engine/internal/store/snapshot.go    rows kept for the next launch    *)
(*   engine/internal/api/server.go        connection.send, sink            *)
(*   app/src/composables/useResource.ts   the rows the window shows        *)
(*                                                                         *)
(* Three goroutines work on a table: the informer, which updates its store *)
(* and queues a notification; the handler, which takes notifications one   *)
(* by one and fills the batcher; and the stream, which sends a snapshot    *)
(* and then drains the batcher every 100 ms.  For pods and nodes the       *)
(* stream also puts rows into the batcher itself, when the metrics cache   *)
(* was refreshed.                                                          *)
(*                                                                         *)
(* An object is its key and a version, 0 when there is no such object; a   *)
(* row is the version it was projected from and the usage cell, 0 when no  *)
(* metrics are known for the object.                                       *)
(***************************************************************************)
EXTENDS Integers, Sequences, FiniteSets, SequencesExt

CONSTANTS
    Keys,        \* namespace/name of the objects of this kind
    MaxOut,      \* messages the connection holds for a slow window
    MaxChanges,  \* bound: changes to objects
    MaxPolls,    \* bound: refreshes of the metrics cache
    MaxDrops     \* bound: times the link is lost or the window too slow

ASSUME KeysAssumption == IsFiniteSet(Keys)
ASSUME StreamBoundsAssumption ==
    /\ MaxOut \in Nat \ {0}
    /\ MaxChanges \in Nat /\ MaxPolls \in Nat /\ MaxDrops \in Nat

VARIABLES
    wantMetrics,  \* the kind is pods or nodes
    store,        \* the informer's store: the version of each object
    usage,        \* MetricsCache: the usage of each object
    events,       \* notifications the handler has not taken yet
    putting,      \* the row the handler projected and not yet put
    upserts,      \* batcher.upserts
    deletes,      \* batcher.deletes
    stream,       \* where the stream goroutine is
    listed,       \* rows it listed and did not yet send, or put
    lastMetrics,  \* the usage last sent for each row, NotSent before
    tick,         \* metricsTick holds a tick
    out,          \* messages on their way to the window
    rows,         \* the rows the window shows
    cached,       \* the window shows rows of an earlier launch
    saved,        \* the cache file of this subscription, NoRows without one
    changes, polls, drops

informer == <<wantMetrics, store, usage, changes, polls>>
handler == <<events, putting>>
batch == <<upserts, deletes>>
goroutine == <<stream, listed, lastMetrics, tick>>
window == <<rows, cached>>
streamVars == <<wantMetrics, store, usage, events, putting, upserts, deletes,
                stream, listed, lastMetrics, tick, out, rows, cached, saved,
                changes, polls, drops>>

NoRow == [ver |-> 0, use |-> 0]
NoRows == [k \in Keys |-> NoRow]
NotSent == -1
NoObject == [key |-> "none", row |-> NoRow]

Project(k) == [ver |-> store[k], use |-> IF wantMetrics THEN usage[k] ELSE 0]

\* The lister, projected.
Listing == [k \in Keys |-> IF store[k] = 0 THEN NoRow ELSE Project(k)]

Snapshot(r, isCached) ==
    [type |-> "snapshot", rows |-> r, deletes |-> {}, cached |-> isCached]
Delta(up, del) ==
    [type |-> "delta", rows |-> up, deletes |-> del, cached |-> FALSE]

StreamInit ==
    /\ wantMetrics \in BOOLEAN
    /\ store \in {[k \in Keys |-> 0], [k \in Keys |-> 1]}
    /\ usage = [k \in Keys |-> 0]
    /\ events = <<>>
    /\ putting = NoObject
    /\ upserts = NoRows
    /\ deletes = {}
    /\ stream = "off"
    /\ listed = NoRows
    /\ lastMetrics = [k \in Keys |-> NotSent]
    /\ tick = FALSE
    /\ out = <<>>
    /\ rows = NoRows
    /\ cached = FALSE
    /\ saved = NoRows
    /\ changes = 0
    /\ polls = 0
    /\ drops = 0

-----------------------------------------------------------------------------
(* The informer and the metrics poll.                                      *)

\* An object is created, changed or deleted; whoever has registered a handler
\* is notified, after the store was updated.
Change(k) ==
    /\ changes < MaxChanges
    /\ changes' = changes + 1
    /\ \E v \in {0, changes + 2} :
         /\ v # store[k]
         /\ store' = [store EXCEPT ![k] = v]
         /\ events' = IF stream = "off" THEN events
                      ELSE Append(events, [key |-> k, ver |-> v])
    /\ UNCHANGED <<wantMetrics, usage, polls, putting, batch, goroutine, out,
                   window, saved, drops>>

\* The usage of an object moves, and the stream is woken.  A tick is dropped
\* when the channel, which holds one, is full.
Refresh ==
    /\ wantMetrics
    /\ polls < MaxPolls
    /\ polls' = polls + 1
    /\ \E k \in Keys : usage' = [usage EXCEPT ![k] = 1]
    /\ tick' = (stream # "off")
    /\ UNCHANGED <<wantMetrics, store, changes, handler, batch, stream, listed,
                   lastMetrics, out, window, saved, drops>>

-----------------------------------------------------------------------------
(* The batcher.                                                            *)

\* Mutant: a pending delete of the same key is kept.
UpsertBeside(row, k) ==
    /\ upserts' = [upserts EXCEPT ![k] = row]
    /\ UNCHANGED deletes

\* upsert(r) and del(key) supersede what was pending for the key.
Upsert(row, k) ==
    /\ upserts' = [upserts EXCEPT ![k] = row]
    /\ deletes' = deletes \ {k}

Del(k) ==
    /\ upserts' = [upserts EXCEPT ![k] = NoRow]
    /\ deletes' = deletes \cup {k}

Drained == upserts = NoRows /\ deletes = {}

-----------------------------------------------------------------------------
(* The handler.                                                            *)

\* An add or an update is projected, with the metrics known now ...
Handle ==
    /\ events # <<>>
    /\ putting = NoObject
    /\ Head(events).ver # 0
    /\ putting' = [key |-> Head(events).key,
                   row |-> [Project(Head(events).key)
                              EXCEPT !.ver = Head(events).ver]]
    /\ events' = Tail(events)
    /\ UNCHANGED <<informer, batch, goroutine, out, window, saved, drops>>

\* ... and put.
HandlerUpsert ==
    /\ putting # NoObject
    /\ Upsert(putting.row, putting.key)
    /\ putting' = NoObject
    /\ UNCHANGED <<informer, events, goroutine, out, window, saved, drops>>

HandlerDelete ==
    /\ events # <<>>
    /\ putting = NoObject
    /\ Head(events).ver = 0
    /\ Del(Head(events).key)
    /\ events' = Tail(events)
    /\ UNCHANGED <<informer, putting, goroutine, out, window, saved, drops>>

-----------------------------------------------------------------------------
(* The stream.                                                             *)

\* The link closes: the read loop ends and stops the subscription; nothing
\* that was still on its way arrives.
Close ==
    /\ stream' = "off"
    /\ out' = <<>>
    /\ events' = <<>>
    /\ putting' = NoObject
    /\ upserts' = NoRows
    /\ deletes' = {}
    /\ listed' = NoRows
    /\ lastMetrics' = [k \in Keys |-> NotSent]
    /\ tick' = FALSE

Lose ==
    /\ drops < MaxDrops
    /\ stream # "off"
    /\ drops' = drops + 1
    /\ Close
    /\ UNCHANGED <<informer, window, saved>>

\* A window that does not keep up is disconnected.
TooSlow ==
    /\ drops < MaxDrops
    /\ Len(out) = MaxOut
    /\ stream = "listed" \/ (stream = "running" /\ ~Drained)
    /\ drops' = drops + 1
    /\ Close
    /\ UNCHANGED <<informer, window, saved>>

\* The window (re)connects and sends its subscription again.  Registering a
\* handler notifies it of every object there is.  The rows saved last time,
\* unless they are too old, are painted first.
Subscribe ==
    /\ stream = "off"
    /\ stream' = "syncing"
    /\ events' = SetToSeq({[key |-> k, ver |-> store[k]] :
                             k \in {j \in Keys : store[j] # 0}})
    /\ \/ /\ out' = IF saved = NoRows THEN <<>> ELSE <<Snapshot(saved, TRUE)>>
          /\ UNCHANGED saved
       \/ /\ saved # NoRows
          /\ saved' = NoRows
          /\ out' = <<>>
    /\ UNCHANGED <<informer, putting, batch, listed, lastMetrics, tick, window,
                   drops>>

List ==
    /\ stream = "syncing"
    /\ stream' = "listed"
    /\ listed' = Listing
    /\ UNCHANGED <<informer, handler, batch, lastMetrics, tick, out, window,
                   saved, drops>>

\* sink.Snapshot: an empty table is not saved, nor one with too many rows, nor
\* any when the disk refuses; what was saved before stays then.
SendSnapshot ==
    /\ stream = "listed"
    /\ Len(out) < MaxOut
    /\ out' = Append(out, Snapshot(listed, FALSE))
    /\ saved' \in IF listed = NoRows THEN {saved} ELSE {saved, listed}
    /\ stream' = "running"
    /\ listed' = NoRows
    /\ UNCHANGED <<informer, handler, batch, lastMetrics, tick, window, drops>>

\* Mutant: the queue of messages grows with what the window did not read.
FlushUnbounded ==
    /\ stream = "running"
    /\ ~Drained
    /\ out' = Append(out, Delta(upserts, deletes))
    /\ upserts' = NoRows
    /\ deletes' = {}
    /\ UNCHANGED <<informer, handler, goroutine, window, saved, drops>>

\* Mutant: the deletes are cleared and not sent.
FlushUpserts ==
    /\ stream = "running"
    /\ ~Drained
    /\ Len(out) < MaxOut
    /\ out' = Append(out, Delta(upserts, {}))
    /\ upserts' = NoRows
    /\ deletes' = {}
    /\ UNCHANGED <<informer, handler, goroutine, window, saved, drops>>

Flush ==
    /\ stream = "running"
    /\ ~Drained
    /\ Len(out) < MaxOut
    /\ out' = Append(out, Delta(upserts, deletes))
    /\ upserts' = NoRows
    /\ deletes' = {}
    /\ UNCHANGED <<informer, handler, goroutine, window, saved, drops>>

\* A metrics tick: the stream lists again ...
Tick ==
    /\ stream = "running"
    /\ tick
    /\ tick' = FALSE
    /\ stream' = "ticking"
    /\ listed' = Listing
    /\ UNCHANGED <<informer, handler, batch, lastMetrics, out, window, saved,
                   drops>>

\* ... and puts the rows whose usage moved, one by one.
TickRow(k) ==
    /\ stream = "ticking"
    /\ listed[k] # NoRow
    /\ IF lastMetrics[k] = listed[k].use
       THEN UNCHANGED <<batch, lastMetrics>>
       ELSE /\ Upsert(listed[k], k)
            /\ lastMetrics' = [lastMetrics EXCEPT ![k] = listed[k].use]
    /\ listed' = [listed EXCEPT ![k] = NoRow]
    /\ UNCHANGED <<informer, handler, stream, tick, out, window, saved, drops>>

TickDone ==
    /\ stream = "ticking"
    /\ listed = NoRows
    /\ stream' = "running"
    /\ UNCHANGED <<informer, handler, batch, listed, lastMetrics, tick, out,
                   window, saved, drops>>

-----------------------------------------------------------------------------
(* The window.                                                             *)

\* Mutant: a snapshot is merged into the rows there are.
ReceiveMerging ==
    /\ out # <<>>
    /\ LET m == Head(out)
       IN  /\ rows' = [k \in Keys |->
                         IF k \in m.deletes THEN NoRow
                         ELSE IF m.rows[k] # NoRow THEN m.rows[k] ELSE rows[k]]
           /\ cached' = IF m.type = "snapshot" THEN m.cached ELSE cached
    /\ out' = Tail(out)
    /\ UNCHANGED <<informer, handler, batch, goroutine, saved, drops>>

\* A snapshot replaces the rows; a delta merges, upserts before deletes.
Receive ==
    /\ out # <<>>
    /\ LET m == Head(out)
       IN  /\ rows' = IF m.type = "snapshot" THEN m.rows
                      ELSE [k \in Keys |->
                              IF k \in m.deletes THEN NoRow
                              ELSE IF m.rows[k] # NoRow THEN m.rows[k]
                              ELSE rows[k]]
           /\ cached' = IF m.type = "snapshot" THEN m.cached ELSE cached
    /\ out' = Tail(out)
    /\ UNCHANGED <<informer, handler, batch, goroutine, saved, drops>>

StreamNext ==
    \/ \E k \in Keys : Change(k) \/ TickRow(k)
    \/ Refresh
    \/ Handle \/ HandlerUpsert \/ HandlerDelete
    \/ Lose \/ TooSlow \/ Subscribe
    \/ List \/ SendSnapshot \/ Flush \/ Tick \/ TickDone
    \/ Receive

StreamSpec == StreamInit /\ [][StreamNext]_streamVars

\* Goroutines are scheduled, the ticker fires, the window reads its socket and
\* reconnects.  Nothing has to change and the link need not fail.
StreamFairness ==
    /\ WF_streamVars(Handle \/ HandlerUpsert \/ HandlerDelete)
    /\ WF_streamVars(Subscribe)
    /\ WF_streamVars(List \/ SendSnapshot \/ TooSlow \/ Flush \/ TickDone)
    /\ WF_streamVars(\E k \in Keys : TickRow(k))
    /\ WF_streamVars(Tick)
    /\ WF_streamVars(Receive)

StreamFairSpec == StreamSpec /\ StreamFairness
-----------------------------------------------------------------------------
(* Properties.                                                             *)

Row == [ver : Nat, use : Nat]
Table == [Keys -> Row]
Event == [key : Keys, ver : Nat]
Message == [type : {"snapshot", "delta"}, rows : Table, deletes : SUBSET Keys,
            cached : BOOLEAN]

\* Types.
StreamTypeOK ==
    /\ wantMetrics \in BOOLEAN
    /\ store \in [Keys -> Nat]
    /\ usage \in [Keys -> Nat]
    /\ events \in Seq(Event)
    /\ putting \in [key : Keys \cup {"none"}, row : Row]
    /\ upserts \in Table
    /\ deletes \subseteq Keys
    /\ stream \in {"off", "syncing", "listed", "running", "ticking"}
    /\ listed \in Table
    /\ lastMetrics \in [Keys -> Nat \cup {NotSent}]
    /\ tick \in BOOLEAN
    /\ out \in Seq(Message)
    /\ Len(out) <= MaxOut
    /\ rows \in Table
    /\ cached \in BOOLEAN
    /\ saved \in Table
    /\ changes \in 0 .. MaxChanges
    /\ polls \in 0 .. MaxPolls
    /\ drops \in 0 .. MaxDrops

\* Everything there was to say about the table has been said.
Settled ==
    /\ stream = "running"
    /\ ~tick
    /\ events = <<>>
    /\ putting = NoObject
    /\ Drained
    /\ out = <<>>

Matches(k) == rows[k].ver = store[k]

\* Once a table has settled it shows each object there is, at its present
\* version, and no other, and says that the cluster confirmed it: however the
\* snapshot, the notifications and the deltas overtook each other, however
\* often the link was lost or the window was too slow, and whatever an earlier
\* launch had saved.  For the kinds without metrics.
TableMatchesCluster ==
    Settled /\ ~wantMetrics => ~cached /\ \A k \in Keys : Matches(k)

\* With metrics too, no object is missing from a settled table.
NothingMissing ==
    Settled => \A k \in Keys : store[k] # 0 => rows[k] # NoRow

\* A table catches up: when the cluster has come to rest the window shows what
\* is there, and goes on showing it.
CatchesUp ==
    <>[](\A k \in Keys : IF wantMetrics THEN store[k] # 0 => rows[k] # NoRow
                         ELSE Matches(k))

\* "Upserts and deletes are idempotent by key, so the UI can apply them in any
\* order relative to the snapshot": a settled table matches the cluster, for
\* pods and nodes as for any kind.
RowsFollowObjects == Settled => \A k \in Keys : Matches(k)
=============================================================================
