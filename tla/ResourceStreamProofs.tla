------------------------- MODULE ResourceStreamProofs -------------------------
(***************************************************************************)
(* Proofs about ResourceStream, for any number of objects, changes and     *)
(* polls, and any length of the connection's queue.                        *)
(*                                                                         *)
(* The argument: of every object, what was said last of it is on its way   *)
(* to the window or shown there, and fits the cluster (LastWord).  It is   *)
(* in the handler's queue, or the handler holds it, or it waits in the     *)
(* batcher, or it is in the last message that speaks of the object, or the *)
(* row shows it; what is later on the way was said earlier, and is         *)
(* overtaken.  Once everything has settled only the rows are left.         *)
(***************************************************************************)
EXTENDS ResourceStream, SequenceTheorems, FiniteSetTheorems, TLAPS

\* A row of version v is right for the object: the version there is or, when
\* a metrics tick may list an object that has changed meanwhile, any.
Fits(k, v) ==
    /\ store[k] # 0 => v # 0
    /\ ~ wantMetrics => v = store[k]

\* The queue of the handler says nothing of k; its last word on k fits.
Silent(k) == \A i \in 1 .. Len(events) : events[i].key # k
Told(k) ==
    \E i \in 1 .. Len(events) :
        /\ events[i].key = k /\ Fits(k, events[i].ver)
        /\ \A j \in 1 .. Len(events) : j > i => events[j].key # k

PutDue(k) == putting # NoObject /\ putting.key = k
Batched(k) == k \in deletes \/ upserts[k] # NoRow

\* What a message says of k, and what the window will show of it.
Says(m, k) == m.type = "snapshot" \/ k \in m.deletes \/ m.rows[k] # NoRow
Word(m, k) == IF m.type = "delta" /\ k \in m.deletes THEN 0 ELSE m.rows[k].ver
Delivered(k) ==
    \/ \E i \in 1 .. Len(out) :
         /\ Says(out[i], k) /\ Fits(k, Word(out[i], k))
         /\ \A j \in 1 .. Len(out) : j > i => ~ Says(out[j], k)
    \/ (\A j \in 1 .. Len(out) : ~ Says(out[j], k)) /\ Fits(k, rows[k].ver)

\* What the stream has seen or sent of k itself.
Base(k) ==
    /\ stream = "listed" => Fits(k, listed[k].ver)
    /\ stream \in {"running", "ticking"} => Delivered(k)

LastWord(k) ==
    \/ Told(k)
    \/ Silent(k) /\ PutDue(k) /\ Fits(k, putting.row.ver)
    \/ Silent(k) /\ ~ PutDue(k) /\ Batched(k) /\ Fits(k, IF k \in deletes THEN 0 ELSE upserts[k].ver)
    \/ Silent(k) /\ ~ PutDue(k) /\ ~ Batched(k) /\ Base(k)

WordInv == stream # "off" => \A k \in Keys : LastWord(k)

OffInv ==
    stream = "off" => events = <<>> /\ putting = NoObject /\ upserts = NoRows /\ deletes = {}

\* A row on its way is a row of an object there was.
RowsInv ==
    /\ putting # NoObject => putting.key \in Keys /\ putting.row.ver # 0
    /\ \A k \in Keys : upserts[k] # NoRow => upserts[k].ver # 0
    /\ \A k \in Keys : listed[k] # NoRow => listed[k].ver # 0

TickInv == ~ wantMetrics => ~ tick /\ stream # "ticking"

\* The last snapshot sent is of the cluster.
CachedInv ==
    stream \in {"running", "ticking"} =>
      \/ \E i \in 1 .. Len(out) :
           /\ out[i].type = "snapshot" /\ ~ out[i].cached
           /\ \A j \in 1 .. Len(out) : j > i => out[j].type # "snapshot"
      \/ (\A j \in 1 .. Len(out) : out[j].type # "snapshot") /\ ~ cached

IInv == StreamTypeOK /\ OffInv /\ RowsInv /\ TickInv /\ CachedInv /\ WordInv

-----------------------------------------------------------------------------
(* What the operators return.                                              *)

\* A finite set as a sequence: its members, each once.
LEMMA SeqOfSet ==
    ASSUME NEW S, IsFiniteSet(S)
    PROVE  /\ SetToSeq(S) \in Seq(S) /\ Len(SetToSeq(S)) = Cardinality(S) /\ Cardinality(S) \in Nat
           /\ \A x \in S : \E i \in 1 .. Cardinality(S) : SetToSeq(S)[i] = x
           /\ \A i, j \in 1 .. Cardinality(S) : SetToSeq(S)[i] = SetToSeq(S)[j] => i = j
<1>1. Cardinality(S) \in Nat /\ ExistsBijection(1 .. Cardinality(S), S)
  BY FS_CardinalityType
<1>2. PICK f \in Bijection(1 .. Cardinality(S), S) : TRUE
  BY <1>1 DEF ExistsBijection
<1>3. f \in [1 .. Cardinality(S) -> S] /\ IsInjective(f)
  BY <1>2 DEF Bijection, Injection, IsInjective
<1>4. SetToSeq(S) \in [1 .. Cardinality(S) -> S] /\ IsInjective(SetToSeq(S))
  BY <1>3 DEF SetToSeq
<1>5. SetToSeq(S) \in Injection(1 .. Cardinality(S), S)
  BY <1>4 DEF Injection, IsInjective
<1>6. IsFiniteSet(1 .. Cardinality(S)) /\ Cardinality(1 .. Cardinality(S)) = Cardinality(S)
  BY <1>1, FS_Interval
<1>7. SetToSeq(S) \in Surjection(1 .. Cardinality(S), S)
  BY <1>5, <1>6, FS_Injection
<1>8. SetToSeq(S) \in Seq(S) /\ Len(SetToSeq(S)) = Cardinality(S)
  BY <1>1, <1>4, SeqDef
<1> QED
  BY <1>1, <1>4, <1>7, <1>8 DEF Surjection, IsInjective

LEMMA RowFacts ==
    /\ NoRow \in Row /\ NoRow.ver = 0 /\ NoRows \in Table /\ \A k \in Keys : NoRows[k] = NoRow
    /\ \A r \in Row : r.ver \in Nat /\ (r.ver # 0 => r # NoRow)
  BY DEF NoRow, Row, NoRows, Table

LEMMA ListingFacts ==
    ASSUME StreamTypeOK
    PROVE  /\ Listing \in Table
           /\ \A k \in Keys : Listing[k].ver = store[k] /\ (Listing[k] # NoRow => Listing[k].ver # 0)
<1>1. ASSUME NEW k \in Keys PROVE Project(k) \in Row /\ Project(k).ver = store[k]
  BY DEF StreamTypeOK, Project, Row
<1>2. ASSUME NEW k \in Keys
      PROVE  /\ Listing[k] = IF store[k] = 0 THEN NoRow ELSE Project(k)
             /\ Listing[k] \in Row
  BY <1>1, RowFacts DEF Listing
<1> QED
  BY <1>1, <1>2, RowFacts DEF Listing, Table

LEMMA MessageFacts ==
    ASSUME NEW r \in Table
    PROVE  /\ \A c \in BOOLEAN : /\ Snapshot(r, c) \in Message /\ Snapshot(r, c).type = "snapshot"
                                 /\ Snapshot(r, c).rows = r /\ Snapshot(r, c).cached = c
           /\ \A d \in SUBSET Keys : /\ Delta(r, d) \in Message /\ Delta(r, d).type = "delta"
                                     /\ Delta(r, d).rows = r /\ Delta(r, d).deletes = d
  BY DEF Snapshot, Delta, Message

LEMMA HeadEvent ==
    ASSUME StreamTypeOK, events # <<>>
    PROVE  /\ events[1] = Head(events) /\ Head(events) \in Event /\ Len(events) \in Nat \ {0}
           /\ Tail(events) \in Seq(Event) /\ Len(Tail(events)) = Len(events) - 1
           /\ \A i \in 1 .. Len(Tail(events)) : Tail(events)[i] = events[i + 1]
<1>1. events \in Seq(Event)
  BY DEF StreamTypeOK
<1> QED
  BY <1>1, HeadTailProperties, EmptySeq

LEMMA HeadMessage ==
    ASSUME StreamTypeOK, out # <<>>
    PROVE  /\ out[1] = Head(out) /\ Head(out) \in Message /\ Len(out) \in Nat \ {0}
           /\ Tail(out) \in Seq(Message) /\ Len(Tail(out)) = Len(out) - 1
           /\ \A i \in 1 .. Len(Tail(out)) : Tail(out)[i] = out[i + 1]
<1>1. out \in Seq(Message)
  BY DEF StreamTypeOK
<1> QED
  BY <1>1, HeadTailProperties, EmptySeq

LEMMA NoMessages == <<>> \in Seq(Event) /\ <<>> \in Seq(Message) /\ Len(<<>>) = 0 /\ Len(<<>>) <= MaxOut
  BY EmptySeq, StreamBoundsAssumption

LEMMA OneMessage ==
    ASSUME NEW m \in Message
    PROVE  <<m>> \in Seq(Message) /\ Len(<<m>>) = 1 /\ <<m>>[1] = m /\ Len(<<m>>) <= MaxOut
<1>1. <<m>> \in Seq(Message) /\ Len(<<m>>) = 1 /\ <<m>>[1] = m
  OBVIOUS
<1> QED
  BY <1>1, StreamBoundsAssumption

LEMMA SentMessage ==
    ASSUME StreamTypeOK, NEW m \in Message
    PROVE  /\ Append(out, m) \in Seq(Message) /\ Len(Append(out, m)) = Len(out) + 1 /\ Len(out) \in Nat
           /\ \A i \in 1 .. Len(out) : Append(out, m)[i] = out[i]
           /\ Append(out, m)[Len(out) + 1] = m
<1>1. out \in Seq(Message)
  BY DEF StreamTypeOK
<1> QED
  BY <1>1, AppendProperties, LenProperties

\* What a subscription is told of: every object there is, once.
Present == {[key |-> k, ver |-> store[k]] : k \in {j \in Keys : store[j] # 0}}

LEMMA PresentEvents ==
    ASSUME StreamTypeOK
    PROVE  /\ SetToSeq(Present) \in Seq(Event) /\ Len(SetToSeq(Present)) \in Nat
           /\ \A i \in 1 .. Len(SetToSeq(Present)) :
                LET e == SetToSeq(Present)[i]
                IN  e.key \in Keys /\ e.ver = store[e.key] /\ e.ver # 0
           /\ \A k \in Keys : store[k] # 0 =>
                \E i \in 1 .. Len(SetToSeq(Present)) :
                    /\ SetToSeq(Present)[i] = [key |-> k, ver |-> store[k]]
                    /\ \A j \in 1 .. Len(SetToSeq(Present)) : j # i => SetToSeq(Present)[j].key # k
<1> DEFINE K == {j \in Keys : store[j] # 0}
           f == [k \in K |-> [key |-> k, ver |-> store[k]]]
           q == SetToSeq(Present)
<1>1. IsFiniteSet(Present)
  <2>1. IsFiniteSet(K)
    BY KeysAssumption, FS_Subset
  <2>2. f \in Surjection(K, Present)
    BY DEF Surjection, Present
  <2> QED
    BY <2>1, <2>2, FS_Surjection
<1>2. \A e \in Present : e \in Event /\ e.ver = store[e.key] /\ e.ver # 0 /\ e = [key |-> e.key, ver |-> store[e.key]]
  BY DEF Present, StreamTypeOK, Event
<1>3. /\ q \in Seq(Present) /\ Len(q) = Cardinality(Present) /\ Cardinality(Present) \in Nat
      /\ \A x \in Present : \E i \in 1 .. Cardinality(Present) : q[i] = x
      /\ \A i, j \in 1 .. Cardinality(Present) : q[i] = q[j] => i = j
  BY <1>1, SeqOfSet
<1>4. \A i \in 1 .. Len(q) : q[i] \in Present
  BY <1>3, ElementOfSeq
<1>5. q \in Seq(Event)
  BY <1>2, <1>3, SeqMonotonic
<1> HIDE DEF q
<1>6. ASSUME NEW k \in Keys, store[k] # 0
      PROVE  \E i \in 1 .. Len(q) : /\ q[i] = [key |-> k, ver |-> store[k]]
                                    /\ \A j \in 1 .. Len(q) : j # i => q[j].key # k
  <2>1. [key |-> k, ver |-> store[k]] \in Present
    BY <1>6 DEF Present
  <2>2. PICK i \in 1 .. Len(q) : q[i] = [key |-> k, ver |-> store[k]]
    BY <1>3, <2>1
  <2>3. ASSUME NEW j \in 1 .. Len(q), j # i, q[j].key = k PROVE FALSE
    BY <1>2, <1>3, <1>4, <2>2, <2>3
  <2> QED
    BY <2>2, <2>3
<1>7. \A i \in 1 .. Len(q) : LET e == q[i] IN e.key \in Keys /\ e.ver = store[e.key] /\ e.ver # 0
  BY <1>2, <1>4 DEF Event
<1>8. Len(q) \in Nat
  BY <1>3
<1> QED
  BY <1>5, <1>6, <1>7, <1>8 DEF q

-----------------------------------------------------------------------------

LEMMA InitHolds == StreamInit => IInv
<1> SUFFICES ASSUME StreamInit PROVE IInv
  OBVIOUS
<1>1. StreamTypeOK
  <2>1. <<>> \in Seq(Event) /\ <<>> \in Seq(Message) /\ Len(<<>>) = 0
    BY EmptySeq
  <2>2. store \in [Keys -> Nat] /\ lastMetrics \in [Keys -> Nat \cup {NotSent}] /\ NoObject \in [key : Keys \cup {"none"}, row : Row]
    BY RowFacts DEF StreamInit, NotSent, NoObject
  <2>3. wantMetrics \in BOOLEAN /\ tick \in BOOLEAN /\ cached \in BOOLEAN
    BY DEF StreamInit
  <2>4. usage \in [Keys -> Nat]
    BY DEF StreamInit
  <2>5. events \in Seq(Event) /\ out \in Seq(Message)
    BY <2>1 DEF StreamInit
  <2>6. putting \in [key : Keys \cup {"none"}, row : Row] 
    BY <2>2 DEF StreamInit
  <2>7.  upserts \in Table /\ deletes \subseteq Keys /\ rows \in Table /\ saved \in Table /\ listed \in Table
    BY RowFacts DEF StreamInit
  <2>8. Len(out) <= MaxOut
    BY <2>1, StreamBoundsAssumption DEF StreamInit
  <2>9. changes \in 0 .. MaxChanges /\ polls \in 0 .. MaxPolls /\ drops \in 0 .. MaxDrops
    BY StreamBoundsAssumption DEF StreamInit
  <2> QED
    BY <2>2, <2>3, <2>4, <2>5, <2>6, <2>7, <2>8, <2>9 DEF StreamInit, StreamTypeOK
<1> QED
  BY <1>1, RowFacts DEF IInv, StreamInit, OffInv, RowsInv, TickInv, CachedInv, WordInv

LEMMA TypeStep ==
    ASSUME StreamTypeOK, [StreamNext]_streamVars
    PROVE  StreamTypeOK'
<1> USE StreamBoundsAssumption DEF informer, handler, batch, goroutine, window
<1>1. ASSUME NEW k \in Keys, Change(k) PROVE StreamTypeOK'
  <2>1. PICK v \in {0, changes + 2} :
          /\ store' = [store EXCEPT ![k] = v]
          /\ events' = IF stream = "off" THEN events ELSE Append(events, [key |-> k, ver |-> v])
    BY <1>1 DEF Change
  <2>2. v \in Nat /\ [key |-> k, ver |-> v] \in Event
    BY DEF StreamTypeOK, Event
  <2>3. Append(events, [key |-> k, ver |-> v]) \in Seq(Event)
    BY <2>2, AppendProperties DEF StreamTypeOK, Event
  <2>4. events' \in Seq(Event)
    BY <2>1, <2>3 DEF StreamTypeOK
  <2>5. store' \in [Keys -> Nat] /\ changes' \in 0 .. MaxChanges
    BY <1>1, <2>1, <2>2 DEF StreamTypeOK, Change
  <2>6. UNCHANGED <<wantMetrics, usage, polls, putting, batch, goroutine, out, window, saved, drops>>
    BY <1>1 DEF Change
  <2> QED
    BY <2>4, <2>5, <2>6 DEF StreamTypeOK
<1>2. CASE Refresh
  <2>1. usage' \in [Keys -> Nat] /\ polls' \in 0 .. MaxPolls /\ tick' \in BOOLEAN
    BY <1>2 DEF StreamTypeOK, Refresh
  <2>2. UNCHANGED <<wantMetrics, store, changes, handler, batch, stream, listed, lastMetrics, out, window, saved, drops>>
    BY <1>2 DEF Refresh
  <2> QED
    BY <2>1, <2>2 DEF StreamTypeOK
<1>3. CASE Handle
  <2>1. putting' \in [key : Keys \cup {"none"}, row : Row]
    BY <1>3, HeadEvent DEF StreamTypeOK, Handle, Event, Row, Project
  <2>2. events' \in Seq(Event) /\ UNCHANGED <<informer, batch, goroutine, out, window, saved, drops>>
    BY <1>3, HeadEvent DEF Handle
  <2> QED
    BY <2>1, <2>2 DEF StreamTypeOK
<1>4. CASE HandlerUpsert
  BY <1>4, RowFacts DEF StreamTypeOK, HandlerUpsert, Upsert, NoObject, Table
<1>5. CASE HandlerDelete
  <2>1. Head(events).key \in Keys /\ events' \in Seq(Event)
    BY <1>5, HeadEvent DEF HandlerDelete, Event
  <2>2. upserts' \in Table /\ deletes' \subseteq Keys
    BY <1>5, <2>1, RowFacts DEF StreamTypeOK, HandlerDelete, Del, Table
  <2>3. UNCHANGED <<informer, putting, goroutine, out, window, saved, drops>>
    BY <1>5 DEF HandlerDelete
  <2> QED
    BY <2>1, <2>2, <2>3 DEF StreamTypeOK
<1>6. CASE Lose \/ TooSlow
  <2>1. events' \in Seq(Event) /\ out' \in Seq(Message) /\ Len(out') <= MaxOut
    <3>1. events' = <<>> /\ out' = <<>>
      BY <1>6 DEF Lose, TooSlow, Close
    <3> QED
      BY <3>1, NoMessages
  <2>2. putting' \in [key : Keys \cup {"none"}, row : Row] /\ upserts' \in Table /\ listed' \in Table
        /\ lastMetrics' \in [Keys -> Nat \cup {NotSent}]
    BY <1>6, RowFacts DEF Lose, TooSlow, Close, NoObject
  <2>3. stream' = "off" /\ deletes' = {} /\ tick' = FALSE /\ drops' \in 0 .. MaxDrops /\ UNCHANGED <<informer, window, saved>>
    BY <1>6, StreamBoundsAssumption DEF StreamTypeOK, Lose, TooSlow, Close
  <2> QED
    BY <2>1, <2>2, <2>3 DEF StreamTypeOK
<1>7. CASE Subscribe
  <2>1. events' \in Seq(Event)
    BY <1>7, PresentEvents DEF Subscribe, Present
  <2>2. out' \in Seq(Message) /\ Len(out') <= MaxOut
    <3>1. Snapshot(saved, TRUE) \in Message
      BY MessageFacts DEF StreamTypeOK
    <3>2. out' = <<>> \/ out' = <<Snapshot(saved, TRUE)>>
      BY <1>7 DEF Subscribe
    <3> QED
      BY <3>1, <3>2, NoMessages, OneMessage
  <2>3. saved' \in Table /\ stream' = "syncing"
    BY <1>7, RowFacts DEF Subscribe, StreamTypeOK
  <2> QED
    BY <1>7, <2>1, <2>2, <2>3 DEF StreamTypeOK, Subscribe
<1>8. CASE List
  BY <1>8, ListingFacts DEF StreamTypeOK, List
<1>9. CASE SendSnapshot
  <2>1. out' \in Seq(Message) /\ Len(out') <= MaxOut
    <3>1. Snapshot(listed, FALSE) \in Message
      BY MessageFacts DEF StreamTypeOK
    <3>2. /\ Append(out, Snapshot(listed, FALSE)) \in Seq(Message)
          /\ Len(Append(out, Snapshot(listed, FALSE))) = Len(out) + 1 /\ Len(out) \in Nat
      BY <3>1, SentMessage
    <3>3. out' = Append(out, Snapshot(listed, FALSE)) /\ Len(out) < MaxOut
      BY <1>9 DEF SendSnapshot
    <3>4. Len(out') <= MaxOut
      BY <3>2, <3>3, StreamBoundsAssumption
    <3> QED
      BY <3>2, <3>3, <3>4
  <2> QED
    BY <1>9, <2>1, RowFacts DEF StreamTypeOK, SendSnapshot
<1>10. CASE Flush
  <2>1. out' \in Seq(Message) /\ Len(out') <= MaxOut
    <3>1. Delta(upserts, deletes) \in Message
      BY MessageFacts DEF StreamTypeOK
    <3>2. /\ Append(out, Delta(upserts, deletes)) \in Seq(Message)
          /\ Len(Append(out, Delta(upserts, deletes))) = Len(out) + 1 /\ Len(out) \in Nat
      BY <3>1, SentMessage
    <3>3. out' = Append(out, Delta(upserts, deletes)) /\ Len(out) < MaxOut
      BY <1>10 DEF Flush
    <3>4. Len(out') <= MaxOut
      BY <3>2, <3>3, StreamBoundsAssumption
    <3> QED
      BY <3>2, <3>3, <3>4
  <2> QED
    BY <1>10, <2>1, RowFacts DEF StreamTypeOK, Flush
<1>11. CASE Tick
  BY <1>11, ListingFacts DEF StreamTypeOK, Tick
<1>12. ASSUME NEW k \in Keys, TickRow(k) PROVE StreamTypeOK'
  <2>1. listed[k] \in Row /\ listed[k].use \in Nat
    BY DEF StreamTypeOK, Table, Row
  <2> QED
    BY <1>12, <2>1, RowFacts DEF StreamTypeOK, TickRow, Upsert, Table
<1>13. CASE TickDone
  BY <1>13 DEF StreamTypeOK, TickDone
<1>14. CASE Receive
  <2>1. rows' \in Table /\ cached' \in BOOLEAN
    BY <1>14, HeadMessage, RowFacts DEF StreamTypeOK, Receive, Message, Table
  <2> QED
    BY <1>14, <2>1, HeadMessage DEF StreamTypeOK, Receive
<1>15. CASE UNCHANGED streamVars
  BY <1>15 DEF StreamTypeOK, streamVars
<1> QED
  BY <1>1, <1>2, <1>3, <1>4, <1>5, <1>6, <1>7, <1>8, <1>9, <1>10, <1>11, <1>12, <1>13, <1>14, <1>15 DEF StreamNext

LEMMA OffStep ==
    ASSUME IInv, [StreamNext]_streamVars
    PROVE  OffInv'
<1> USE DEF IInv, OffInv, informer, handler, batch, goroutine, window
<1>1. ASSUME NEW k \in Keys, Change(k) PROVE OffInv'
  BY <1>1 DEF Change
<1>2. ASSUME NEW k \in Keys, TickRow(k) PROVE OffInv'
  BY <1>2 DEF TickRow
<1>3. CASE Refresh \/ Handle \/ HandlerDelete \/ HandlerUpsert
  BY <1>3 DEF Refresh, Handle, HandlerDelete, HandlerUpsert
<1>4. CASE Lose \/ TooSlow
  BY <1>4 DEF Lose, TooSlow, Close
<1>5. CASE Subscribe \/ List \/ SendSnapshot
  BY <1>5 DEF Subscribe, List, SendSnapshot
<1>6. CASE Flush \/ Tick \/ TickDone \/ Receive
  BY <1>6 DEF Flush, Tick, TickDone, Receive
<1>7. CASE UNCHANGED streamVars
  BY <1>7 DEF streamVars
<1> QED
  BY <1>1, <1>2, <1>3, <1>4, <1>5, <1>6, <1>7 DEF StreamNext

LEMMA RowsStep ==
    ASSUME IInv, [StreamNext]_streamVars
    PROVE  RowsInv'
<1> USE RowFacts DEF IInv, RowsInv, informer, handler, batch, goroutine, window
<1>1. ASSUME NEW k \in Keys, Change(k) PROVE RowsInv'
  BY <1>1 DEF Change
<1>2. ASSUME NEW k \in Keys, TickRow(k) PROVE RowsInv'
  BY <1>2 DEF TickRow, Upsert, StreamTypeOK, Table
<1>3. CASE Handle
  <2>1. /\ putting' = [key |-> Head(events).key, row |-> [Project(Head(events).key) EXCEPT !.ver = Head(events).ver]]
        /\ Head(events).ver # 0 /\ UNCHANGED <<upserts, listed>> /\ Head(events) \in Event
    BY <1>3, HeadEvent DEF Handle
  <2>2. putting'.key \in Keys /\ putting'.row.ver # 0
    BY <2>1 DEF Project, Event
  <2> QED
    BY <2>1, <2>2
<1>4. CASE HandlerUpsert
  BY <1>4 DEF HandlerUpsert, Upsert, StreamTypeOK, Table
<1>5. CASE HandlerDelete
  BY <1>5 DEF HandlerDelete, Del, StreamTypeOK, Table
<1>6. CASE Lose \/ TooSlow
  BY <1>6 DEF Lose, TooSlow, Close
<1>7. CASE List \/ Tick
  BY <1>7, ListingFacts DEF List, Tick
<1>8. CASE Refresh \/ Subscribe \/ SendSnapshot \/ Flush
  BY <1>8 DEF Refresh, Subscribe, SendSnapshot, Flush
<1>9. CASE TickDone \/ Receive \/ UNCHANGED streamVars
  BY <1>9 DEF TickDone, Receive, streamVars
<1> QED
  BY <1>1, <1>2, <1>3, <1>4, <1>5, <1>6, <1>7, <1>8, <1>9 DEF StreamNext

LEMMA TickStep ==
    ASSUME IInv, [StreamNext]_streamVars
    PROVE  TickInv'
<1> USE DEF IInv, TickInv, informer, goroutine
<1>1. ASSUME NEW k \in Keys, Change(k) \/ TickRow(k) PROVE TickInv'
  BY <1>1 DEF Change, TickRow
<1>2. CASE Refresh \/ Handle \/ HandlerUpsert \/ HandlerDelete
  BY <1>2 DEF Refresh, Handle, HandlerUpsert, HandlerDelete
<1>3. CASE Lose \/ TooSlow
  BY <1>3 DEF Lose, TooSlow, Close
<1>4. CASE Subscribe \/ List \/ SendSnapshot \/ Flush \/ Tick \/ TickDone
  BY <1>4 DEF Subscribe, List, SendSnapshot, Flush, Tick, TickDone
<1>5. CASE Receive \/ UNCHANGED streamVars
  BY <1>5 DEF Receive, streamVars
<1> QED
  BY <1>1, <1>2, <1>3, <1>4, <1>5 DEF StreamNext

\* A message appended is the last one.
LEMMA AppendedLast ==
    ASSUME StreamTypeOK, NEW m \in Message, out' = Append(out, m)
    PROVE  /\ Len(out') \in 1 .. Len(out') /\ out'[Len(out')] = m
           /\ \A j \in 1 .. Len(out') : ~ (j > Len(out'))
           /\ \A j \in 1 .. Len(out') : j # Len(out') => j \in 1 .. Len(out) /\ out'[j] = out[j]
           /\ \A j \in 1 .. Len(out) : j \in 1 .. Len(out') /\ out'[j] = out[j]
  BY SentMessage

LEMMA CachedStep ==
    ASSUME IInv, [StreamNext]_streamVars
    PROVE  CachedInv'
<1> USE DEF IInv, informer, handler, batch, goroutine, window
<1>1. ASSUME UNCHANGED <<out, cached>>, stream' \in {"running", "ticking"} => stream \in {"running", "ticking"}
      PROVE  CachedInv'
  BY <1>1 DEF CachedInv
<1>2. ASSUME NEW k \in Keys, Change(k) \/ TickRow(k) PROVE CachedInv'
  BY <1>1, <1>2 DEF Change, TickRow
<1>3. CASE Refresh \/ Handle \/ HandlerUpsert \/ HandlerDelete \/ List \/ Tick \/ TickDone
  BY <1>1, <1>3 DEF Refresh, Handle, HandlerUpsert, HandlerDelete, List, Tick, TickDone
<1>4. CASE Lose \/ TooSlow \/ Subscribe
  BY <1>4 DEF Lose, TooSlow, Close, Subscribe, CachedInv
<1>5. CASE SendSnapshot
  <2>1. /\ out' = Append(out, Snapshot(listed, FALSE)) /\ Snapshot(listed, FALSE) \in Message
        /\ Snapshot(listed, FALSE).type = "snapshot" /\ Snapshot(listed, FALSE).cached = FALSE
    BY <1>5, MessageFacts DEF SendSnapshot, StreamTypeOK
  <2> QED
    BY <2>1, AppendedLast DEF CachedInv
<1>6. CASE Flush
  <2>1. /\ out' = Append(out, Delta(upserts, deletes)) /\ Delta(upserts, deletes) \in Message
        /\ Delta(upserts, deletes).type = "delta" /\ stream = "running" /\ cached' = cached
    BY <1>6, MessageFacts DEF Flush, StreamTypeOK
  <2> DEFINE m == Delta(upserts, deletes)
  <2>2. CASE \E i \in 1 .. Len(out) : /\ out[i].type = "snapshot" /\ ~ out[i].cached
                                      /\ \A j \in 1 .. Len(out) : j > i => out[j].type # "snapshot"
    <3>1. PICK i \in 1 .. Len(out) : /\ out[i].type = "snapshot" /\ ~ out[i].cached
                                     /\ \A j \in 1 .. Len(out) : j > i => out[j].type # "snapshot"
      BY <2>2
    <3> HIDE DEF m
    <3>2. i \in 1 .. Len(out') /\ out'[i] = out[i]
      BY <2>1, AppendedLast DEF m
    <3>3. \A j \in 1 .. Len(out') : j > i => out'[j].type # "snapshot"
      BY <2>1, <3>1, AppendedLast DEF m
    <3> QED
      BY <3>1, <3>2, <3>3 DEF CachedInv
  <2>3. CASE (\A j \in 1 .. Len(out) : out[j].type # "snapshot") /\ ~ cached
    <3>1. \A j \in 1 .. Len(out') : out'[j].type # "snapshot"
      BY <2>1, <2>3, AppendedLast
    <3> QED
      BY <2>1, <2>3, <3>1 DEF CachedInv
  <2> QED
    BY <2>1, <2>2, <2>3 DEF CachedInv
<1>7. CASE Receive
  <2>1. /\ stream' = stream /\ out' = Tail(out) /\ out # <<>>
        /\ cached' = IF out[1].type = "snapshot" THEN out[1].cached ELSE cached
    BY <1>7, HeadMessage DEF Receive
  <2>2. /\ Len(out) \in Nat \ {0} /\ Len(out') = Len(out) - 1 /\ out[1] \in Message
        /\ \A i \in 1 .. Len(out') : i + 1 \in 1 .. Len(out) /\ out'[i] = out[i + 1]
    BY <2>1, HeadMessage
  <2>3. CASE \E i \in 1 .. Len(out) : /\ out[i].type = "snapshot" /\ ~ out[i].cached
                                      /\ \A j \in 1 .. Len(out) : j > i => out[j].type # "snapshot"
    <3>1. PICK i \in 1 .. Len(out) : /\ out[i].type = "snapshot" /\ ~ out[i].cached
                                     /\ \A j \in 1 .. Len(out) : j > i => out[j].type # "snapshot"
      BY <2>3
    <3>2. CASE i = 1
      <4>1. cached' = FALSE
        BY <2>1, <2>2, <3>1, <3>2 DEF Message
      <4>2. \A j \in 1 .. Len(out') : out'[j].type # "snapshot"
        BY <2>2, <3>1, <3>2
      <4> QED
        BY <4>1, <4>2 DEF CachedInv
    <3>3. CASE i # 1
      <4>1. i - 1 \in 1 .. Len(out') /\ out'[i - 1] = out[i]
        BY <2>2, <3>3
      <4>2. \A j \in 1 .. Len(out') : j > i - 1 => out'[j].type # "snapshot"
        BY <2>2, <3>1
      <4> QED
        BY <3>1, <4>1, <4>2 DEF CachedInv
    <3> QED
      BY <3>2, <3>3
  <2>4. CASE (\A j \in 1 .. Len(out) : out[j].type # "snapshot") /\ ~ cached
    <3>1. \A j \in 1 .. Len(out') : out'[j].type # "snapshot"
      BY <2>2, <2>4
    <3>2. cached' = cached
      BY <2>1, <2>2, <2>4
    <3> QED
      BY <2>4, <3>1, <3>2 DEF CachedInv
  <2> QED
    BY <2>1, <2>3, <2>4 DEF CachedInv
<1>8. CASE UNCHANGED streamVars
  BY <1>1, <1>8 DEF streamVars
<1> QED
  BY <1>2, <1>3, <1>4, <1>5, <1>6, <1>7, <1>8 DEF StreamNext

-----------------------------------------------------------------------------
(* The last word on an object, step by step.                               *)

LEMMA SameFits ==
    ASSUME NEW k, store'[k] = store[k], wantMetrics' = wantMetrics
    PROVE  \A v : Fits(k, v)' <=> Fits(k, v)
  BY DEF Fits

\* A step that leaves everything about k leaves the last word on it.
LEMMA SameWord ==
    ASSUME NEW k \in Keys, store'[k] = store[k], LastWord(k),
           UNCHANGED <<wantMetrics, events, putting, out, rows, stream>>,
           upserts'[k] = upserts[k], k \in deletes' <=> k \in deletes, listed'[k] = listed[k]
    PROVE  LastWord(k)'
<1> USE SameFits
<1>1. Silent(k)' <=> Silent(k)
  BY DEF Silent
<1>2. Told(k) => Told(k)'
  BY DEF Told
<1>3. PutDue(k)' <=> PutDue(k)
  BY DEF PutDue
<1>4. Batched(k)' <=> Batched(k)
  BY DEF Batched
<1>5. Base(k) => Base(k)'
  BY DEF Base, Delivered
<1> QED
  BY <1>1, <1>2, <1>3, <1>4, <1>5 DEF LastWord

LEMMA ChangeWord ==
    ASSUME IInv, NEW c \in Keys, Change(c), NEW k \in Keys, stream # "off"
    PROVE  LastWord(k)'
<1> USE DEF informer, handler, batch, goroutine, window
<1>1. PICK v \in {0, changes + 2} :
        /\ store' = [store EXCEPT ![c] = v]
        /\ events' = Append(events, [key |-> c, ver |-> v])
  BY DEF Change
<1>2. [key |-> c, ver |-> v] \in Event /\ events \in Seq(Event) /\ store \in [Keys -> Nat]
  BY DEF IInv, StreamTypeOK, Event
<1>3. /\ Len(events') = Len(events) + 1 /\ Len(events) \in Nat
      /\ \A i \in 1 .. Len(events) : i \in 1 .. Len(events') /\ events'[i] = events[i]
      /\ events'[Len(events')] = [key |-> c, ver |-> v]
  BY <1>1, <1>2, AppendProperties, LenProperties
<1>4. UNCHANGED <<wantMetrics, putting, upserts, deletes, stream, listed, out, rows>>
  BY DEF Change
<1>5. CASE k = c
  <2>1. Fits(k, v)'
    BY <1>1, <1>2, <1>5 DEF Fits
  <2>2. /\ Len(events') \in 1 .. Len(events')
        /\ \A j \in 1 .. Len(events') : ~ (j > Len(events'))
    BY <1>3
  <2>3. Told(k)'
    BY <1>3, <1>5, <2>1, <2>2 DEF Told
  <2> QED
    BY <2>3 DEF LastWord
<1>6. CASE k # c
  <2>1. store'[k] = store[k]
    BY <1>1, <1>2, <1>6
  <2>2. \A i \in 1 .. Len(events') : events'[i].key = k => i \in 1 .. Len(events)
    BY <1>3, <1>6
  <2>3. Silent(k) => Silent(k)'
    BY <1>3, <2>2 DEF Silent
  <2>4. Told(k) => Told(k)'
    <3>1. ASSUME NEW i \in 1 .. Len(events), events[i].key = k, Fits(k, events[i].ver),
                 \A j \in 1 .. Len(events) : j > i => events[j].key # k
          PROVE  Told(k)'
      <4>1. \A j \in 1 .. Len(events') : j > i => events'[j].key # k
        BY <1>3, <2>2, <3>1
      <4>2. Fits(k, events[i].ver)'
        BY <1>3, <1>4, <2>1, <3>1, SameFits
      <4> QED
        BY <1>3, <3>1, <4>1, <4>2 DEF Told
    <3> QED
      BY <3>1 DEF Told
  <2>5. (PutDue(k)' <=> PutDue(k)) /\ (Batched(k)' <=> Batched(k))
    BY <1>4 DEF PutDue, Batched
  <2>6. Base(k) => Base(k)'
    BY <1>4, <2>1, SameFits DEF Base, Delivered
  <2>7. LastWord(k)
    BY DEF IInv, WordInv
  <2> QED
    BY <1>4, <2>1, <2>3, <2>4, <2>5, <2>6, <2>7, SameFits DEF LastWord
<1> QED
  BY <1>5, <1>6

\* What is left of the handler's queue once its head is taken.
LEMMA TakenWord ==
    ASSUME IInv, events # <<>>, events' = Tail(events), NEW k \in Keys,
           store'[k] = store[k], wantMetrics' = wantMetrics
    PROVE  /\ Head(events).key # k => (Silent(k)' <=> Silent(k)) /\ (Told(k) => Told(k)')
           /\ Head(events).key = k => ~ Silent(k)
           /\ Head(events).key = k /\ Told(k) => Told(k)' \/ (Silent(k)' /\ Fits(k, Head(events).ver))
<1>1. /\ Len(events) \in Nat \ {0} /\ Len(events') = Len(events) - 1 /\ events[1] = Head(events)
      /\ \A i \in 1 .. Len(events') : i + 1 \in 1 .. Len(events) /\ events'[i] = events[i + 1]
      /\ \A i \in 1 .. Len(events) : i # 1 => i - 1 \in 1 .. Len(events') /\ events'[i - 1] = events[i]
  BY HeadEvent DEF IInv
<1>2. Head(events).key # k => (Silent(k)' <=> Silent(k))
  BY <1>1 DEF Silent
<1>3. Head(events).key = k => ~ Silent(k)
  BY <1>1 DEF Silent
<1>4. ASSUME NEW i \in 1 .. Len(events), events[i].key = k, Fits(k, events[i].ver),
             \A j \in 1 .. Len(events) : j > i => events[j].key # k
      PROVE  Told(k)' \/ (i = 1 /\ Silent(k)' /\ Fits(k, Head(events).ver))
  <2>1. CASE i = 1
    <3>1. Silent(k)'
      BY <1>1, <1>4, <2>1 DEF Silent
    <3> QED
      BY <1>1, <1>4, <2>1, <3>1, SameFits
  <2>2. CASE i # 1
    <3>1. PICK h \in 1 .. Len(events') : h = i - 1 /\ events'[h] = events[i]
      BY <1>1, <2>2
    <3>2. \A j \in 1 .. Len(events') : j > h => events'[j].key # k
      BY <1>1, <1>4, <3>1
    <3>3. Fits(k, events[h].ver)'
      BY <1>4, <3>1, SameFits
    <3> QED
      BY <1>4, <3>1, <3>2, <3>3 DEF Told
  <2> QED
    BY <2>1, <2>2
<1>5. Head(events).key # k /\ Told(k) => Told(k)'
  BY <1>1, <1>4 DEF Told
<1>6. Head(events).key = k /\ Told(k) => Told(k)' \/ (Silent(k)' /\ Fits(k, Head(events).ver))
  BY <1>4 DEF Told
<1> QED
  BY <1>2, <1>3, <1>5, <1>6

LEMMA HandleWord ==
    ASSUME IInv, Handle, NEW k \in Keys, stream # "off"
    PROVE  LastWord(k)'
<1> DEFINE e == Head(events)
<1>1. /\ events # <<>> /\ events' = Tail(events) /\ putting = NoObject /\ e.ver # 0
      /\ putting' = [key |-> e.key, row |-> [Project(e.key) EXCEPT !.ver = e.ver]]
      /\ UNCHANGED <<wantMetrics, store, upserts, deletes, stream, listed, out, rows>>
  BY DEF Handle, informer, batch, goroutine, window
<1>2. putting'.key = e.key /\ putting'.row.ver = e.ver
  BY <1>1 DEF Project
<1>3. putting' # NoObject
  BY <1>1, <1>2, RowFacts DEF NoObject
<1>4. LastWord(k) /\ ~ PutDue(k)
  BY <1>1 DEF IInv, WordInv, PutDue
<1>5. CASE e.key = k
  <2>1. Told(k)' \/ (Silent(k)' /\ Fits(k, e.ver))
    BY <1>1, <1>4, <1>5, TakenWord DEF LastWord
  <2> QED
    BY <1>1, <1>2, <1>3, <1>5, <2>1, SameFits DEF LastWord, PutDue
<1>6. CASE e.key # k
  <2>1. (Silent(k)' <=> Silent(k)) /\ (Told(k) => Told(k)')
    BY <1>1, <1>6, TakenWord
  <2>2. ~ PutDue(k)' /\ (Batched(k)' <=> Batched(k))
    BY <1>1, <1>2, <1>6 DEF PutDue, Batched
  <2>3. Base(k) => Base(k)'
    BY <1>1, SameFits DEF Base, Delivered
  <2> QED
    BY <1>1, <1>4, <2>1, <2>2, <2>3, SameFits DEF LastWord
<1> QED
  BY <1>5, <1>6

LEMMA HandlerDeleteWord ==
    ASSUME IInv, HandlerDelete, NEW k \in Keys, stream # "off"
    PROVE  LastWord(k)'
<1> DEFINE e == Head(events)
<1>1. /\ events # <<>> /\ events' = Tail(events) /\ putting = NoObject /\ e.ver = 0
      /\ deletes' = deletes \cup {e.key} /\ upserts' = [upserts EXCEPT ![e.key] = NoRow]
      /\ UNCHANGED <<wantMetrics, store, putting, stream, listed, out, rows>>
  BY DEF HandlerDelete, Del, informer, goroutine, window
<1>2. LastWord(k) /\ ~ PutDue(k) /\ ~ PutDue(k)'
  BY <1>1 DEF IInv, WordInv, PutDue
<1>3. CASE e.key = k
  <2>1. Told(k)' \/ (Silent(k)' /\ Fits(k, e.ver))
    BY <1>1, <1>2, <1>3, TakenWord DEF LastWord
  <2>2. k \in deletes' /\ Batched(k)'
    BY <1>1, <1>3 DEF Batched
  <2> QED
    BY <1>1, <1>2, <2>1, <2>2, SameFits DEF LastWord
<1>4. CASE e.key # k
  <2>1. (Silent(k)' <=> Silent(k)) /\ (Told(k) => Told(k)')
    BY <1>1, <1>4, TakenWord
  <2>2. upserts'[k] = upserts[k] /\ (k \in deletes' <=> k \in deletes)
    BY <1>1, <1>4 DEF IInv, StreamTypeOK, Table
  <2>3. Batched(k)' <=> Batched(k)
    BY <2>2 DEF Batched
  <2>4. Base(k) => Base(k)'
    BY <1>1, SameFits DEF Base, Delivered
  <2> QED
    BY <1>1, <1>2, <2>1, <2>2, <2>3, <2>4, SameFits DEF LastWord
<1> QED
  BY <1>3, <1>4

LEMMA HandlerUpsertWord ==
    ASSUME IInv, HandlerUpsert, NEW k \in Keys, stream # "off"
    PROVE  LastWord(k)'
<1>1. /\ putting # NoObject /\ putting' = NoObject
      /\ upserts' = [upserts EXCEPT ![putting.key] = putting.row] /\ deletes' = deletes \ {putting.key}
      /\ UNCHANGED <<wantMetrics, store, events, stream, listed, out, rows>>
  BY DEF HandlerUpsert, Upsert, informer, goroutine, window
<1>2. LastWord(k) /\ upserts \in Table /\ putting.row.ver # 0
  BY <1>1 DEF IInv, WordInv, RowsInv, StreamTypeOK
<1>3. ~ PutDue(k)' /\ (Silent(k)' <=> Silent(k)) /\ (Told(k) => Told(k)')
  BY <1>1, SameFits DEF PutDue, Silent, Told
<1>4. CASE putting.key = k
  <2>1. PutDue(k) /\ upserts'[k] = putting.row /\ k \notin deletes'
    BY <1>1, <1>2, <1>4 DEF PutDue, Table
  <2>2. Batched(k)'
    BY <1>2, <2>1, RowFacts DEF Batched
  <2> QED
    BY <1>1, <1>2, <1>3, <2>1, <2>2, SameFits DEF LastWord
<1>5. CASE putting.key # k
  <2>1. ~ PutDue(k) /\ upserts'[k] = upserts[k] /\ (k \in deletes' <=> k \in deletes)
    BY <1>1, <1>2, <1>5 DEF PutDue, Table
  <2>2. Batched(k)' <=> Batched(k)
    BY <2>1 DEF Batched
  <2>3. Base(k) => Base(k)'
    BY <1>1, SameFits DEF Base, Delivered
  <2> QED
    BY <1>1, <1>2, <1>3, <2>1, <2>2, <2>3, SameFits DEF LastWord
<1> QED
  BY <1>4, <1>5

LEMMA SubscribeWord ==
    ASSUME IInv, Subscribe, NEW k \in Keys
    PROVE  LastWord(k)'
<1>1. /\ stream = "off" /\ stream' = "syncing" /\ events' = SetToSeq(Present)
      /\ UNCHANGED <<wantMetrics, store, putting, upserts, deletes>>
  BY DEF Subscribe, Present, informer, batch
<1>2. putting = NoObject /\ upserts = NoRows /\ deletes = {}
  BY <1>1 DEF IInv, OffInv
<1>3. ~ PutDue(k)' /\ ~ Batched(k)' /\ Base(k)'
  BY <1>1, <1>2, RowFacts DEF PutDue, Batched, Base
<1>4. /\ \A i \in 1 .. Len(events') : LET e == events'[i] IN e.key \in Keys /\ e.ver = store[e.key] /\ e.ver # 0
      /\ store[k] # 0 =>
           \E i \in 1 .. Len(events') : /\ events'[i] = [key |-> k, ver |-> store[k]]
                                        /\ \A j \in 1 .. Len(events') : j # i => events'[j].key # k
      /\ Len(events') \in Nat
  BY <1>1, PresentEvents DEF IInv
<1>5. CASE store[k] = 0
  <2>1. Silent(k)'
    BY <1>4, <1>5 DEF Silent
  <2> QED
    BY <1>3, <2>1 DEF LastWord
<1>6. CASE store[k] # 0
  <2>1. PICK i \in 1 .. Len(events') : /\ events'[i] = [key |-> k, ver |-> store[k]]
                                       /\ \A j \in 1 .. Len(events') : j # i => events'[j].key # k
    BY <1>4, <1>6
  <2>2. Fits(k, store[k])
    BY <1>6 DEF Fits
  <2>3. events'[i].key = k /\ Fits(k, events[i].ver)'
    BY <1>1, <2>1, <2>2, SameFits
  <2>4. \A j \in 1 .. Len(events') : j > i => events'[j].key # k
    BY <2>1
  <2>5. Told(k)'
    BY <2>3, <2>4 DEF Told
  <2> QED
    BY <2>5 DEF LastWord
<1> QED
  BY <1>5, <1>6

LEMMA ListWord ==
    ASSUME IInv, List, NEW k \in Keys
    PROVE  LastWord(k)'
<1>1. /\ stream = "syncing" /\ stream' = "listed" /\ listed' = Listing
      /\ UNCHANGED <<wantMetrics, store, events, putting, upserts, deletes>>
  BY DEF List, informer, handler, batch
<1>2. Fits(k, listed[k].ver)'
  BY <1>1, ListingFacts DEF Fits, IInv
<1>3. Base(k)'
  BY <1>1, <1>2 DEF Base
<1>4. /\ (Silent(k)' <=> Silent(k)) /\ (Told(k) => Told(k)')
      /\ (PutDue(k)' <=> PutDue(k)) /\ (Batched(k)' <=> Batched(k))
  BY <1>1, SameFits DEF Silent, Told, PutDue, Batched
<1>5. LastWord(k)
  BY <1>1 DEF IInv, WordInv
<1> QED
  BY <1>1, <1>3, <1>4, <1>5, SameFits DEF LastWord

LEMMA SendSnapshotWord ==
    ASSUME IInv, SendSnapshot, NEW k \in Keys
    PROVE  LastWord(k)'
<1> DEFINE m == Snapshot(listed, FALSE)
<1>1. /\ stream = "listed" /\ stream' = "running" /\ out' = Append(out, m)
      /\ UNCHANGED <<wantMetrics, store, events, putting, upserts, deletes>>
  BY DEF SendSnapshot, informer, handler, batch
<1>2. m \in Message /\ Says(m, k) /\ Word(m, k) = listed[k].ver
  BY MessageFacts DEF IInv, StreamTypeOK, Says, Word
<1> HIDE DEF m
<1>3. Base(k) => Base(k)'
  <2>1. ASSUME Fits(k, listed[k].ver) PROVE Delivered(k)'
    <3>1. PICK i \in 1 .. Len(out') : i = Len(out') /\ out'[i] = m
      BY <1>1, <1>2, AppendedLast DEF IInv
    <3>2. \A j \in 1 .. Len(out') : ~ (j > i)
      BY <1>1, <1>2, <3>1, AppendedLast DEF IInv
    <3>3. Says(out'[i], k) /\ Fits(k, Word(out[i], k))'
      BY <1>1, <1>2, <2>1, <3>1, SameFits DEF Word, Says
    <3> QED
      BY <3>2, <3>3 DEF Delivered
  <2> QED
    BY <1>1, <2>1 DEF Base
<1>4. /\ (Silent(k)' <=> Silent(k)) /\ (Told(k) => Told(k)')
      /\ (PutDue(k)' <=> PutDue(k)) /\ (Batched(k)' <=> Batched(k))
  BY <1>1, SameFits DEF Silent, Told, PutDue, Batched
<1>5. LastWord(k)
  BY <1>1 DEF IInv, WordInv
<1> QED
  BY <1>1, <1>3, <1>4, <1>5, SameFits DEF LastWord

\* A message that says nothing of k changes nothing of what is delivered of it.
LEMMA FlushWord ==
    ASSUME IInv, Flush, NEW k \in Keys
    PROVE  LastWord(k)'
<1> DEFINE m == Delta(upserts, deletes)
<1>1. /\ stream = "running" /\ stream' = "running" /\ out' = Append(out, m)
      /\ upserts' = NoRows /\ deletes' = {}
      /\ UNCHANGED <<wantMetrics, store, events, putting, rows>>
  BY DEF Flush, informer, handler, goroutine, window
<1>2. /\ m \in Message /\ (Says(m, k) <=> Batched(k))
      /\ Word(m, k) = IF k \in deletes THEN 0 ELSE upserts[k].ver
  BY MessageFacts DEF IInv, StreamTypeOK, Says, Word, Batched
<1> HIDE DEF m
<1>3. /\ Len(out') \in 1 .. Len(out') /\ out'[Len(out')] = m
      /\ \A j \in 1 .. Len(out') : ~ (j > Len(out'))
      /\ \A j \in 1 .. Len(out') : j # Len(out') => j \in 1 .. Len(out) /\ out'[j] = out[j]
      /\ \A j \in 1 .. Len(out) : j \in 1 .. Len(out') /\ out'[j] = out[j]
  BY <1>1, <1>2, AppendedLast DEF IInv
<1>4. ~ Batched(k)' /\ (Silent(k)' <=> Silent(k)) /\ (Told(k) => Told(k)') /\ (PutDue(k)' <=> PutDue(k))
  BY <1>1, SameFits, RowFacts DEF Silent, Told, PutDue, Batched
<1>5. ASSUME Batched(k), Fits(k, Word(m, k)) PROVE Delivered(k)'
  <2>1. PICK i \in 1 .. Len(out') : i = Len(out') /\ out'[i] = m
    BY <1>3
  <2>2. Says(out'[i], k) /\ Fits(k, Word(out[i], k))'
    BY <1>1, <1>2, <1>5, <2>1, SameFits DEF Says, Word
  <2> QED
    BY <1>3, <2>1, <2>2 DEF Delivered
<1>6. ASSUME ~ Batched(k), Delivered(k) PROVE Delivered(k)'
  <2>1. \A j \in 1 .. Len(out') : Says(out'[j], k) => j \in 1 .. Len(out) /\ out'[j] = out[j]
    BY <1>2, <1>3, <1>6
  <2>2. CASE (\A j \in 1 .. Len(out) : ~ Says(out[j], k)) /\ Fits(k, rows[k].ver)
    <3>1. \A j \in 1 .. Len(out') : ~ Says(out'[j], k)
      BY <2>1, <2>2
    <3>2. Fits(k, rows[k].ver)'
      BY <1>1, <2>2, SameFits
    <3> QED
      BY <3>1, <3>2 DEF Delivered, Says
  <2>3. ASSUME NEW i \in 1 .. Len(out), Says(out[i], k), Fits(k, Word(out[i], k)),
               \A j \in 1 .. Len(out) : j > i => ~ Says(out[j], k)
        PROVE  Delivered(k)'
    <3>1. i \in 1 .. Len(out') /\ out'[i] = out[i]
      BY <1>3
    <3>2. \A j \in 1 .. Len(out') : j > i => ~ Says(out'[j], k)
      BY <2>1, <2>3
    <3>3. Says(out'[i], k) /\ Fits(k, Word(out[i], k))'
      BY <1>1, <2>3, <3>1, SameFits DEF Word
    <3> QED
      BY <3>1, <3>2, <3>3 DEF Delivered, Says
  <2> QED
    BY <1>6, <2>2, <2>3 DEF Delivered
<1>7. LastWord(k) /\ (Base(k) => Delivered(k)) /\ (Delivered(k)' => Base(k)')
  BY <1>1 DEF IInv, WordInv, Base
<1> QED
  BY <1>1, <1>2, <1>4, <1>5, <1>6, <1>7, SameFits DEF LastWord

LEMMA TickRowWord ==
    ASSUME IInv, NEW c \in Keys, TickRow(c), NEW k \in Keys
    PROVE  LastWord(k)'
<1>1. /\ stream = "ticking" /\ listed[c] # NoRow /\ listed' = [listed EXCEPT ![c] = NoRow]
      /\ UNCHANGED <<wantMetrics, store, events, putting, stream, out, rows>>
      /\ \/ UNCHANGED <<upserts, deletes>>
         \/ upserts' = [upserts EXCEPT ![c] = listed[c]] /\ deletes' = deletes \ {c}
  BY DEF TickRow, Upsert, informer, handler, batch, window
<1>2. LastWord(k) /\ upserts \in Table /\ listed \in Table /\ wantMetrics /\ listed[c].ver # 0
  BY <1>1 DEF IInv, WordInv, StreamTypeOK, TickInv, RowsInv
<1>3. /\ (Silent(k)' <=> Silent(k)) /\ (Told(k) => Told(k)') /\ (PutDue(k)' <=> PutDue(k))
      /\ (Base(k) => Base(k)')
  BY <1>1, SameFits DEF Silent, Told, PutDue, Base, Delivered
<1>4. CASE upserts'[k] = upserts[k] /\ (k \in deletes' <=> k \in deletes)
  <2>1. Batched(k)' <=> Batched(k)
    BY <1>4 DEF Batched
  <2> QED
    BY <1>1, <1>2, <1>3, <1>4, <2>1, SameFits DEF LastWord
<1>5. CASE upserts'[k] = listed[k] /\ k \notin deletes' /\ k = c
  <2>1. Batched(k)' /\ Fits(k, listed[k].ver)
    BY <1>1, <1>2, <1>5, RowFacts DEF Batched, Fits
  <2> QED
    BY <1>1, <1>2, <1>3, <1>5, <2>1, SameFits DEF LastWord
<1> QED
  BY <1>1, <1>2, <1>4, <1>5 DEF Table

LEMMA ReceiveWord ==
    ASSUME IInv, Receive, NEW k \in Keys, stream # "off"
    PROVE  LastWord(k)'
<1> DEFINE m == out[1]
<1>1. /\ out # <<>> /\ out' = Tail(out)
      /\ rows' = IF m.type = "snapshot" THEN m.rows
                 ELSE [j \in Keys |-> IF j \in m.deletes THEN NoRow
                                      ELSE IF m.rows[j] # NoRow THEN m.rows[j] ELSE rows[j]]
      /\ UNCHANGED <<wantMetrics, store, events, putting, upserts, deletes, stream, listed>>
  BY HeadMessage DEF Receive, IInv, informer, handler, batch, goroutine
<1>2. /\ m \in Message /\ Len(out) \in Nat \ {0} /\ Len(out') = Len(out) - 1
      /\ \A i \in 1 .. Len(out') : i + 1 \in 1 .. Len(out) /\ out'[i] = out[i + 1]
      /\ \A i \in 1 .. Len(out) : i # 1 => i - 1 \in 1 .. Len(out') /\ out'[i - 1] = out[i]
  BY <1>1, HeadMessage DEF IInv
<1>3. /\ Says(m, k) => rows'[k].ver = Word(m, k)
      /\ ~ Says(m, k) => rows'[k] = rows[k]
  BY <1>1, <1>2, RowFacts DEF Says, Word, Message
<1>4. ASSUME Delivered(k) PROVE Delivered(k)'
  <2>1. ASSUME \A j \in 1 .. Len(out) : j > 1 => ~ Says(out[j], k), Fits(k, rows'[k].ver)
        PROVE  Delivered(k)'
    <3>1. \A j \in 1 .. Len(out') : ~ Says(out'[j], k)
      BY <1>2, <2>1
    <3>2. Fits(k, rows[k].ver)'
      BY <1>1, <2>1, SameFits
    <3> QED
      BY <3>1, <3>2 DEF Delivered, Says
  <2>2. CASE (\A j \in 1 .. Len(out) : ~ Says(out[j], k)) /\ Fits(k, rows[k].ver)
    <3>1. 1 \in 1 .. Len(out)
      BY <1>2
    <3>2. rows'[k] = rows[k]
      BY <1>3, <2>2, <3>1
    <3> QED
      BY <2>1, <2>2, <3>2
  <2>3. ASSUME NEW i \in 1 .. Len(out), Says(out[i], k), Fits(k, Word(out[i], k)),
               \A j \in 1 .. Len(out) : j > i => ~ Says(out[j], k)
        PROVE  Delivered(k)'
    <3>1. CASE i = 1
      BY <1>3, <2>1, <2>3, <3>1
    <3>2. CASE i # 1
      <4>1. PICK h \in 1 .. Len(out') : h = i - 1 /\ out'[h] = out[i]
        BY <1>2, <3>2
      <4>2. \A j \in 1 .. Len(out') : j > h => ~ Says(out'[j], k)
        BY <1>2, <2>3, <4>1
      <4>3. Says(out'[h], k) /\ Fits(k, Word(out[h], k))'
        BY <1>1, <2>3, <4>1, SameFits DEF Word
      <4> QED
        BY <4>1, <4>2, <4>3 DEF Delivered, Says
    <3> QED
      BY <3>1, <3>2
  <2> QED
    BY <1>4, <2>2, <2>3 DEF Delivered
<1>5. Base(k) => Base(k)'
  BY <1>1, <1>4, SameFits DEF Base
<1>6. /\ (Silent(k)' <=> Silent(k)) /\ (Told(k) => Told(k)')
      /\ (PutDue(k)' <=> PutDue(k)) /\ (Batched(k)' <=> Batched(k))
  BY <1>1, SameFits DEF Silent, Told, PutDue, Batched
<1>7. LastWord(k)
  BY DEF IInv, WordInv
<1> QED
  BY <1>1, <1>5, <1>6, <1>7, SameFits DEF LastWord

LEMMA WordStep ==
    ASSUME IInv, [StreamNext]_streamVars
    PROVE  WordInv'
<1> SUFFICES ASSUME stream' # "off", NEW k \in Keys PROVE LastWord(k)'
  BY DEF WordInv
<1> USE DEF informer, handler, batch, goroutine, window
<1>1. ASSUME NEW c \in Keys, Change(c) PROVE LastWord(k)'
  BY <1>1, ChangeWord DEF Change
<1>2. ASSUME NEW c \in Keys, TickRow(c) PROVE LastWord(k)'
  BY <1>2, TickRowWord
<1>3. CASE Refresh
  <2>1. UNCHANGED <<wantMetrics, store, events, putting, upserts, deletes, out, rows, stream, listed>>
    BY <1>3 DEF Refresh
  <2> QED
    BY <2>1, SameWord DEF IInv, WordInv
<1>4. CASE Handle
  BY <1>4, HandleWord DEF Handle
<1>5. CASE HandlerUpsert
  BY <1>5, HandlerUpsertWord DEF HandlerUpsert
<1>6. CASE HandlerDelete
  BY <1>6, HandlerDeleteWord DEF HandlerDelete
<1>7. CASE Lose \/ TooSlow
  BY <1>7 DEF Lose, TooSlow, Close
<1>8. CASE Subscribe
  BY <1>8, SubscribeWord
<1>9. CASE List
  BY <1>9, ListWord
<1>10. CASE SendSnapshot
  BY <1>10, SendSnapshotWord
<1>11. CASE Flush
  BY <1>11, FlushWord
<1>12. CASE Tick \/ TickDone
  <2>1. /\ UNCHANGED <<wantMetrics, store, events, putting, upserts, deletes, out, rows>>
        /\ stream \in {"running", "ticking"} /\ stream' \in {"running", "ticking"}
    BY <1>12 DEF Tick, TickDone
  <2>2. /\ (Silent(k)' <=> Silent(k)) /\ (Told(k) => Told(k)')
        /\ (PutDue(k)' <=> PutDue(k)) /\ (Batched(k)' <=> Batched(k)) /\ (Base(k) => Base(k)')
    BY <2>1, SameFits DEF Silent, Told, PutDue, Batched, Base, Delivered
  <2>3. LastWord(k)
    BY <2>1 DEF IInv, WordInv
  <2> QED
    BY <2>1, <2>2, <2>3, SameFits DEF LastWord
<1>13. CASE Receive
  BY <1>13, ReceiveWord DEF Receive
<1>14. CASE UNCHANGED streamVars
  <2>1. UNCHANGED <<wantMetrics, store, events, putting, upserts, deletes, out, rows, stream, listed>>
    BY <1>14 DEF streamVars
  <2> QED
    BY <2>1, SameWord DEF IInv, WordInv
<1> QED
  BY <1>1, <1>2, <1>3, <1>4, <1>5, <1>6, <1>7, <1>8, <1>9, <1>10, <1>11, <1>12, <1>13, <1>14 DEF StreamNext

LEMMA Inductive == IInv /\ [StreamNext]_streamVars => IInv'
  BY TypeStep, OffStep, RowsStep, TickStep, CachedStep, WordStep DEF IInv

\* Of a settled table nothing is on its way: what is shown is what was said.
LEMMA SettledFits ==
    ASSUME IInv, Settled
    PROVE  ~ cached /\ \A k \in Keys : Fits(k, rows[k].ver)
<1>1. stream = "running" /\ events = <<>> /\ putting = NoObject /\ upserts = NoRows /\ deletes = {} /\ out = <<>>
  BY DEF Settled, Drained
<1>2. Len(events) = 0 /\ Len(out) = 0
  BY <1>1, NoMessages
<1>3. ~ cached
  BY <1>1, <1>2 DEF IInv, CachedInv
<1>4. ASSUME NEW k \in Keys PROVE Fits(k, rows[k].ver)
  <2>1. LastWord(k)
    BY <1>1 DEF IInv, WordInv
  <2>2. ~ Told(k) /\ ~ PutDue(k) /\ ~ Batched(k)
    BY <1>1, <1>2, RowFacts DEF Told, PutDue, Batched
  <2>3. Delivered(k)
    BY <1>1, <2>1, <2>2 DEF LastWord, Base
  <2> QED
    BY <1>2, <2>3 DEF Delivered
<1> QED
  BY <1>3, <1>4

-----------------------------------------------------------------------------

(***************************************************************************)
(* Every variable of a table's path has its type, and the connection holds *)
(* no more messages than it may, for any number of objects and changes.    *)
(***************************************************************************)
THEOREM StreamTyping == StreamSpec => []StreamTypeOK
<1>1. IInv => StreamTypeOK
  BY DEF IInv
<1> QED
  BY <1>1, InitHolds, Inductive, PTL DEF StreamSpec

(***************************************************************************)
(* A table without metrics that has settled shows exactly the objects of   *)
(* the cluster at their versions, and does not say it is cached: for any   *)
(* number of objects, changes, lost links and slow windows.                *)
(***************************************************************************)
THEOREM TableCorrect == StreamSpec => []TableMatchesCluster
<1>1. IInv => TableMatchesCluster
  BY SettledFits DEF TableMatchesCluster, Matches, Fits
<1> QED
  BY <1>1, InitHolds, Inductive, PTL DEF StreamSpec

(***************************************************************************)
(* No object is missing from a settled table, of pods and nodes either,    *)
(* whatever the metrics ticks put between the changes.                     *)
(***************************************************************************)
THEOREM TableComplete == StreamSpec => []NothingMissing
<1>1. IInv => NothingMissing
  BY SettledFits, RowFacts DEF NothingMissing, Fits
<1> QED
  BY <1>1, InitHolds, Inductive, PTL DEF StreamSpec
=============================================================================
