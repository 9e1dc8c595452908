--------------------------- MODULE MCEngineProofs ---------------------------
(***************************************************************************)
(* Proofs about DriftScan and DriftRender, for any repositories, objects   *)
(* and kinds, and any number of writes to the cluster; and about the       *)
(* engine as MCEngine puts it together: every behaviour of that is one of  *)
(* each of its modules, which carries what is proved of them over to it,   *)
(* for any values of their constants.                                      *)
(***************************************************************************)
EXTENDS MCEngine, EngineSocketProofs, AuditLogProofs, WellFoundedInduction

(***************************************************************************)
(* The comparison.                                                         *)
(***************************************************************************)
Declared == {"missing", "modified", "in-sync"}

\* What an object is now it was since the scan began; so was what has been read.
WasInv  == phase # "render" => \A k \in Keys : live[k].body \in was[k]
ReadInv ==
    phase = "update" =>
        /\ at \in DOMAIN docs /\ read # Absent /\ Path(docs[at]) \in Keys
        /\ read.body \in was[Path(docs[at])]

\* An item is of a document, or of an object that no document declares.
ItemInv ==
    \A i \in items :
        /\ i.doc = 0 => i.state = "unmanaged" /\ i.key \in Keys /\ i.key \notin known
        /\ i.doc # 0 => i.doc \in DOMAIN docs /\ i.state \in Declared /\ i.key = KeyOf(docs[i.doc])

\* Each document that the loop has passed has its item, and no other has one.
HasOne(d) == \E i \in items : i.doc = d /\ \A j \in items : j.doc = d => j = i
ItemsInv ==
    /\ phase = "render" => items = {} /\ docs = <<>>
    /\ phase \in {"get", "update"} =>
           /\ at >= 1 /\ \A d \in DOMAIN docs : d < at => HasOne(d)
           /\ \A i \in items : i.doc \in 1 .. at - 1
    /\ phase \in {"list", "done"} => \A d \in DOMAIN docs : HasOne(d)

\* The numbers count what they say: none is zero when there is such an item, or the other way round.
Counted(s) == \E i \in items : i.state = s /\ i.error # "get"
SumInv == \A s \in States : summary[s] = 0 <=> ~ Counted(s)

\* The kinds listed so far have been listed whole.
Missed(k) == "absent" \notin was[k] /\ k \notin Ignored /\ Scoped(k) /\ k.kind \notin unlisted
             /\ ~ \E i \in items : i.key = k
ListInv ==
    phase \in {"list", "done"} =>
        /\ at >= 1
        /\ request.unmanaged => \A n \in DOMAIN UnmanagedKinds : n < at =>
                                    \A k \in Keys : k.kind = UnmanagedKinds[n] => ~ Missed(k)
        /\ phase = "done" => at > Len(UnmanagedKinds)

ScanInv == DriftTypeOK /\ ReportTrue /\ WasInv /\ ReadInv /\ ItemInv /\ ItemsInv /\ SumInv /\ ListInv /\ ExitTells

LEMMA RepositoryFacts ==
    ASSUME NEW r \in Repositories \cup {<<>>}
    PROVE  /\ Len(r) \in Nat /\ DOMAIN r = 1 .. Len(r)
           /\ \A d \in DOMAIN r : r[d].body \in Bodies /\ r[d].body # "absent"
<1>1. CASE r = <<>>
  <2>1. Len(<<>>) = 0 /\ DOMAIN <<>> = {}
    OBVIOUS
  <2> QED
    BY <1>1, <2>1
<1>2. CASE r \in Repositories
  <2>1. r \in Seq(Documents)
    BY <1>2, DriftAssumption
  <2>2. \A d \in Documents : d.body \in Bodies /\ d.body # "absent"
    BY DriftAssumption
  <2> QED
    BY <2>1, <2>2
<1> QED
  BY <1>1, <1>2

LEMMA DocFacts ==
    ASSUME DriftTypeOK
    PROVE  /\ Len(docs) \in Nat /\ DOMAIN docs = 1 .. Len(docs)
           /\ \A d \in DOMAIN docs : docs[d].body \in Bodies /\ docs[d].body # "absent"
BY RepositoryFacts DEF DriftTypeOK

LEMMA CellFacts == /\ Absent \in Cells /\ \A c \in Cells : c.body = "absent" <=> c = Absent
                   /\ \A c \in Cells : c # Absent => c.body \in Bodies
BY DriftAssumption DEF Cells, Absent

\* A document's item: what the loop concludes of it keeps the report true and whole.
LEMMA ConcludeStep ==
    ASSUME ScanInv, NEW state \in Declared, NEW error \in {"none", "get", "update"}, Conclude(state, error),
           phase \in {"get", "update"}, at \in DOMAIN docs,
           error = "none" => Fits(state, WasAt(Path(docs[at])), docs[at].body)
    PROVE  ScanInv'
<1> DEFINE new == [doc |-> at, key |-> KeyOf(docs[at]), state |-> state, error |-> error]
<1>0. new.doc = at /\ new.key = KeyOf(docs[at]) /\ new.state = state /\ new.error = error
  OBVIOUS
<1>1. /\ items' = items \cup {new} /\ at' = at + 1 /\ phase' = "get" /\ read' = Absent
      /\ summary' = IF error = "get" THEN summary ELSE [summary EXCEPT ![state] = @ + 1]
      /\ live' = live /\ writes' = writes /\ request' = request /\ docs' = docs /\ exit' = exit
      /\ was' = was /\ unlisted' = unlisted
  BY DEF Conclude
<1> HIDE DEF new
<1>2. /\ at \in Nat /\ at >= 1 /\ Len(docs) \in Nat /\ DOMAIN docs = 1 .. Len(docs) /\ Declared \subseteq States
      /\ \A d \in 1 .. Len(docs) : docs[d].body \in Bodies /\ docs[d].body # "absent"
  BY DocFacts DEF ScanInv, DriftTypeOK, Declared, States
<1>3. DriftTypeOK'
  <2>1. summary' \in [States -> Nat]
    BY <1>1, <1>2 DEF ScanInv, DriftTypeOK
  <2>2. \A i \in items' : i.state \in States /\ i.error \in {"none", "get", "update"}
    BY <1>0, <1>1, <1>2 DEF ScanInv, DriftTypeOK
  <2>3. read' \in Cells
    BY <1>1, CellFacts
  <2> QED
    BY <1>1, <1>2, <2>1, <2>2, <2>3 DEF ScanInv, DriftTypeOK, Phases
<1>4. /\ \A d : KeyOf(d)' = KeyOf(d) /\ Path(d)' = Path(d)
      /\ \A k : WasAt(k)' = WasAt(k)
      /\ known' = known
  BY <1>1 DEF KeyOf, Path, NsOf, WasAt, known
<1>5. ReportTrue'
  <2>1. ASSUME NEW i \in items', i.error = "none", i.doc = 0 PROVE WasAt(i.key)' \ {"absent"} # {}
    BY <1>1, <1>2, <1>4, <1>0, <2>1 DEF ScanInv, ReportTrue
  <2>2. ASSUME NEW i \in items', i.error = "none", i.doc # 0
        PROVE  Fits(i.state, WasAt(Path(docs[i.doc])), docs[i.doc].body)'
    <3>1. CASE i \in items
      <4>1. Fits(i.state, WasAt(Path(docs[i.doc])), docs[i.doc].body)
        BY <2>2, <3>1 DEF ScanInv, ReportTrue
      <4> QED
        BY <4>1, <1>1, <1>4 DEF Fits
    <3>2. CASE i = new
      BY <3>2, <2>2, <1>0, <1>1, <1>4 DEF Fits
    <3> QED
      BY <1>1, <3>1, <3>2
  <2> QED
    BY <2>1, <2>2 DEF ReportTrue
<1>6. WasInv' /\ ReadInv'
  BY <1>1 DEF ScanInv, WasInv, ReadInv
<1>7. ItemInv'
  BY <1>0, <1>1, <1>2, <1>4 DEF ScanInv, ItemInv
<1>8. ItemsInv'
  <2>1. \A i \in items : i.doc \in 1 .. at - 1
    BY DEF ScanInv, ItemsInv
  <2>2. ASSUME NEW d \in DOMAIN docs, d < at + 1 PROVE HasOne(d)'
    <3>1. CASE d < at
      <4>1. PICK i \in items : i.doc = d /\ \A j \in items : j.doc = d => j = i
        BY <3>1 DEF ScanInv, ItemsInv, HasOne
      <4>2. new.doc # d
        BY <3>1, <1>0, <1>2
      <4> QED
        BY <1>1, <4>1, <4>2 DEF HasOne
    <3>2. CASE d = at
      <4>1. \A j \in items : j.doc # d
        BY <2>1, <3>2, <1>2
      <4> QED
        BY <1>0, <1>1, <3>2, <4>1 DEF HasOne
    <3> QED
      BY <1>2, <2>2, <3>1, <3>2
  <2>3. \A i \in items' : i.doc \in 1 .. at' - 1
    BY <1>0, <1>1, <1>2, <2>1
  <2> QED
    BY <1>1, <1>2, <2>2, <2>3 DEF ItemsInv
<1>9. SumInv'
  <2> SUFFICES ASSUME NEW s \in States PROVE summary'[s] = 0 <=> ~ Counted(s)'
    BY DEF SumInv
  <2>1. summary[s] \in Nat /\ (summary[s] = 0 <=> ~ Counted(s))
    BY DEF ScanInv, DriftTypeOK, SumInv
  <2>2. Counted(s)' <=> Counted(s) \/ (s = state /\ error # "get")
    BY <1>0, <1>1 DEF Counted
  <2>3. summary'[s] = IF s = state /\ error # "get" THEN summary[s] + 1 ELSE summary[s]
    BY <1>1 DEF ScanInv, DriftTypeOK
  <2> QED
    BY <2>1, <2>2, <2>3
<1>10. ListInv' /\ ExitTells'
  BY <1>1 DEF ListInv, ExitTells
<1> QED
  BY <1>3, <1>5, <1>6, <1>7, <1>8, <1>9, <1>10 DEF ScanInv
LEMMA ScanStart == DriftInit => ScanInv
<1> SUFFICES ASSUME DriftInit PROVE ScanInv
  OBVIOUS
<1>1. DriftTypeOK
  <2>1. live \in [Keys -> Cells]
    BY DEF DriftInit, Cells
  <2>2. writes \in 0 .. MaxWrites
    BY DriftAssumption DEF DriftInit
  <2> QED
    BY <2>1, <2>2, CellFacts DEF DriftInit, DriftTypeOK, Phases
<1>2. ReportTrue /\ WasInv /\ ReadInv /\ ItemInv /\ ItemsInv
  BY DEF DriftInit, ReportTrue, WasInv, ReadInv, ItemInv, ItemsInv
<1>3. SumInv /\ ListInv /\ ExitTells
  BY DEF DriftInit, SumInv, Counted, ListInv, ExitTells
<1> QED
  BY <1>1, <1>2, <1>3 DEF ScanInv

\* Steps that say nothing of any document.
LEMMA RenderStep == ScanInv /\ Render => ScanInv'
<1> SUFFICES ASSUME ScanInv, Render PROVE ScanInv'
  OBVIOUS
<1>1. /\ phase = "render" /\ items = {} /\ items' = {} /\ phase' \in {"get", "failed"}
      /\ was' = [k \in Keys |-> {live[k].body}] /\ live' = live /\ writes' = writes /\ request' = request
      /\ read' = read /\ summary' = summary /\ unlisted' = unlisted
      /\ docs' \in Repositories \cup {<<>>} /\ at' \in Nat /\ exit' \in -1 .. 2
      /\ phase' = "get" => at' = 1
  BY DEF ScanInv, Render, ItemsInv, DriftTypeOK
<1>2. DriftTypeOK'
  <2>1. \A k \in Keys : live[k].body \in Bodies \cup {"absent"}
    BY CellFacts DEF ScanInv, DriftTypeOK
  <2>2. was' \in [Keys -> SUBSET (Bodies \cup {"absent"})]
    BY <1>1, <2>1
  <2> QED
    BY <1>1, <2>2 DEF ScanInv, DriftTypeOK, Phases
<1>3. ReportTrue' /\ WasInv' /\ ReadInv' /\ ItemInv'
  BY <1>1 DEF ReportTrue, WasInv, ReadInv, ItemInv
<1>4. ItemsInv'
  <2>1. DOMAIN docs' = 1 .. Len(docs')
    BY <1>1, RepositoryFacts
  <2> QED
    BY <1>1, <2>1 DEF ItemsInv
<1>5. SumInv' /\ ListInv' /\ ExitTells'
  BY <1>1 DEF ScanInv, SumInv, Counted, ListInv, ExitTells
<1> QED
  BY <1>2, <1>3, <1>4, <1>5 DEF ScanInv

LEMMA FoundStep == ScanInv /\ Found => ScanInv'
<1> SUFFICES ASSUME ScanInv, Found PROVE ScanInv'
  OBVIOUS
<1>1. /\ phase = "get" /\ phase' = "update" /\ at <= Len(docs) /\ LiveAt(Path(docs[at])) # Absent
      /\ read' = LiveAt(Path(docs[at])) /\ live' = live /\ writes' = writes /\ request' = request
      /\ docs' = docs /\ at' = at /\ items' = items /\ summary' = summary /\ exit' = exit
      /\ was' = was /\ unlisted' = unlisted
  BY DEF Found, Here
<1>2. at \in DOMAIN docs
  <2>1. at \in Nat /\ at >= 1
    BY <1>1 DEF ScanInv, DriftTypeOK, ItemsInv
  <2>2. Len(docs) \in Nat /\ DOMAIN docs = 1 .. Len(docs)
    BY DocFacts DEF ScanInv
  <2> QED
    BY <1>1, <2>1, <2>2
<1>3. Path(docs[at]) \in Keys /\ read' = live[Path(docs[at])]
  BY <1>1 DEF LiveAt
<1>4. \A d : KeyOf(d)' = KeyOf(d) /\ Path(d)' = Path(d)
  BY <1>1 DEF KeyOf, Path, NsOf
<1>5. \A k : WasAt(k)' = WasAt(k)
  BY <1>1 DEF WasAt
<1>6. DriftTypeOK'
  <2>1. read' \in Cells
    BY <1>3 DEF ScanInv, DriftTypeOK
  <2> QED
    BY <1>1, <2>1 DEF ScanInv, DriftTypeOK, Phases
<1>7. ReadInv'
  <2>1. read'.body \in was[Path(docs[at])]
    BY <1>1, <1>3 DEF ScanInv, WasInv
  <2> QED
    BY <1>1, <1>2, <1>3, <1>4, <2>1 DEF ReadInv
<1>8. ReportTrue'
  BY <1>1, <1>4, <1>5 DEF ScanInv, ReportTrue, Fits
<1>9. WasInv' /\ ItemInv'
  BY <1>1, <1>4 DEF ScanInv, WasInv, ItemInv, known
<1>10. ItemsInv'
  BY <1>1 DEF ScanInv, ItemsInv, HasOne
<1>11. SumInv' /\ ListInv' /\ ExitTells'
  BY <1>1 DEF ScanInv, SumInv, Counted, ListInv, ExitTells
<1> QED
  BY <1>6, <1>7, <1>8, <1>9, <1>10, <1>11 DEF ScanInv

\* The steps of the loop, by what they conclude.
LEMMA HereFacts ==
    ASSUME ScanInv, (phase = "get" /\ at <= Len(docs)) \/ phase = "update"
    PROVE  at \in DOMAIN docs
<1>1. at \in Nat /\ Len(docs) \in Nat /\ DOMAIN docs = 1 .. Len(docs)
  BY DocFacts DEF ScanInv, DriftTypeOK
<1>2. phase = "get" => at >= 1
  BY DEF ScanInv, ItemsInv
<1> QED
  BY <1>1, <1>2 DEF ScanInv, ReadInv

LEMMA LookupStep == ScanInv /\ (NotFound \/ GetFails \/ Accepted \/ Refused) => ScanInv'
<1> SUFFICES ASSUME ScanInv, NotFound \/ GetFails \/ Accepted \/ Refused PROVE ScanInv'
  OBVIOUS
<1>1. CASE NotFound
  <2>1. Conclude("missing", "none") /\ phase = "get" /\ at <= Len(docs) /\ LiveAt(Path(docs[at])) = Absent
    BY <1>1 DEF NotFound, Here
  <2>2. at \in DOMAIN docs
    BY <2>1, HereFacts
  <2>3. "absent" \in WasAt(Path(docs[at]))
    <3>1. CASE Path(docs[at]) \in Keys
      <4>1. live[Path(docs[at])].body \in was[Path(docs[at])]
        BY <2>1, <3>1 DEF ScanInv, WasInv
      <4>2. live[Path(docs[at])].body = "absent"
        BY <2>1, <3>1 DEF LiveAt, Absent
      <4> QED
        BY <3>1, <4>1, <4>2 DEF WasAt
    <3>2. CASE Path(docs[at]) \notin Keys
      BY <3>2 DEF WasAt
    <3> QED
      BY <3>1, <3>2
  <2>4. Fits("missing", WasAt(Path(docs[at])), docs[at].body) /\ "missing" \in Declared
    BY <2>3 DEF Fits, Declared
  <2> QED
    BY <2>1, <2>2, <2>4, ConcludeStep
<1>2. CASE GetFails
  <2>1. Conclude("modified", "get") /\ phase = "get" /\ at <= Len(docs) /\ "modified" \in Declared
    BY <1>2 DEF GetFails, Here, Declared
  <2> QED
    BY <2>1, HereFacts, ConcludeStep
<1>3. CASE Accepted
  <2> DEFINE verdict == IF read.body = docs[at].body THEN "in-sync" ELSE "modified"
  <2>1. Conclude(verdict, "none") /\ phase = "update" /\ verdict \in Declared
    BY <1>3 DEF Accepted, Declared
  <2>2. at \in DOMAIN docs
    BY <2>1, HereFacts
  <2>3. WasAt(Path(docs[at])) = was[Path(docs[at])] /\ read.body \in was[Path(docs[at])] /\ read # Absent
    BY <2>1 DEF ScanInv, ReadInv, WasAt
  <2>4. read.body # "absent"
    BY <2>3, CellFacts DEF ScanInv, DriftTypeOK
  <2>5. Fits(verdict, WasAt(Path(docs[at])), docs[at].body)
    BY <2>3, <2>4 DEF Fits
  <2> HIDE DEF verdict
  <2> QED
    BY <2>1, <2>2, <2>5, ConcludeStep
<1>4. CASE Refused
  <2>1. Conclude("modified", "update") /\ phase = "update" /\ "modified" \in Declared
    BY <1>4 DEF Refused, Declared
  <2> QED
    BY <2>1, HereFacts, ConcludeStep
<1> QED
  BY <1>1, <1>2, <1>3, <1>4

LEMMA DoneStep == ScanInv /\ DocsDone => ScanInv'
<1> SUFFICES ASSUME ScanInv, DocsDone PROVE ScanInv'
  OBVIOUS
<1>0. Len(UnmanagedKinds) \in Nat /\ DOMAIN UnmanagedKinds = 1 .. Len(UnmanagedKinds)
  BY DriftAssumption
<1>1. /\ phase = "get" /\ at > Len(docs) /\ phase' = "list"
      /\ at' = IF request.unmanaged THEN 1 ELSE Len(UnmanagedKinds) + 1
      /\ live' = live /\ writes' = writes /\ request' = request /\ docs' = docs /\ read' = read
      /\ items' = items /\ summary' = summary /\ exit' = exit /\ was' = was /\ unlisted' = unlisted
  BY DEF DocsDone
<1>2. \A d : KeyOf(d)' = KeyOf(d) /\ Path(d)' = Path(d)
  BY <1>1 DEF KeyOf, Path, NsOf
<1>3. \A k : WasAt(k)' = WasAt(k)
  BY <1>1 DEF WasAt
<1>4. DriftTypeOK'
  BY <1>0, <1>1 DEF ScanInv, DriftTypeOK, Phases
<1>5. ReportTrue'
  BY <1>1, <1>2, <1>3 DEF ScanInv, ReportTrue, Fits
<1>6. WasInv' /\ ReadInv' /\ ItemInv'
  BY <1>1, <1>2 DEF ScanInv, WasInv, ReadInv, ItemInv, known
<1>7. ItemsInv'
  <2>1. \A d \in DOMAIN docs : d < at
    BY <1>1, DocFacts DEF ScanInv, DriftTypeOK
  <2> QED
    BY <1>1, <2>1 DEF ScanInv, ItemsInv, HasOne
<1>8. SumInv' /\ ExitTells'
  BY <1>1 DEF ScanInv, SumInv, Counted, ExitTells
<1>10. ListInv'
  BY <1>0, <1>1 DEF ListInv
<1> QED
  BY <1>4, <1>5, <1>6, <1>7, <1>8, <1>10 DEF ScanInv

\* Listing a kind: what it adds, and that it misses nothing of that kind.
LEMMA ListedStep == ScanInv /\ Listed => ScanInv'
<1> SUFFICES ASSUME ScanInv, Listed PROVE ScanInv'
  OBVIOUS
<1> DEFINE extra == Undeclared(UnmanagedKinds[at])
           new   == {[doc |-> 0, key |-> k, state |-> "unmanaged", error |-> "none"] : k \in extra}
<1>0. Len(UnmanagedKinds) \in Nat /\ DOMAIN UnmanagedKinds = 1 .. Len(UnmanagedKinds) /\ at \in Nat
  BY DriftAssumption DEF ScanInv, DriftTypeOK
<1>1. /\ phase = "list" /\ phase' = "list" /\ at <= Len(UnmanagedKinds) /\ at' = at + 1
      /\ items' = items \cup new
      /\ summary' = [summary EXCEPT !["unmanaged"] = @ + Cardinality(extra)]
      /\ live' = live /\ writes' = writes /\ request' = request /\ docs' = docs /\ read' = read
      /\ exit' = exit /\ was' = was /\ unlisted' = unlisted
  BY DEF Listed
<1>2. \A k : k \in extra <=> /\ k \in Keys /\ k.kind = UnmanagedKinds[at] /\ live[k] # Absent
                            /\ k \notin Ignored /\ Scoped(k) /\ k \notin known
  BY DEF Undeclared
<1>3. Cardinality(extra) \in Nat /\ (Cardinality(extra) = 0 <=> extra = {})
  <2>1. IsFiniteSet(extra)
    BY <1>2, DriftAssumption, FS_Subset
  <2> QED
    BY <2>1, FS_CardinalityType, FS_EmptySet
<1>4. \A i \in new : /\ i.doc = 0 /\ i.state = "unmanaged" /\ i.error = "none" /\ i.key \in extra
  OBVIOUS
<1>5. \A k \in extra : \E i \in new : i.key = k
  <2> SUFFICES ASSUME NEW k \in extra PROVE \E i \in new : i.key = k
    OBVIOUS
  <2> DEFINE it == [doc |-> 0, key |-> k, state |-> "unmanaged", error |-> "none"]
  <2>1. it \in new /\ it.key = k
    OBVIOUS
  <2> QED
    BY <2>1
<1> HIDE DEF extra, new
<1>6. /\ \A d : KeyOf(d)' = KeyOf(d) /\ Path(d)' = Path(d)
      /\ \A k : Scoped(k)' <=> Scoped(k)
      /\ \A k : WasAt(k)' = WasAt(k)
      /\ known' = known
  BY <1>1 DEF KeyOf, Path, NsOf, WasAt, Scoped, repoNS, known
<1>7. DriftTypeOK'
  <2>1. summary' \in [States -> Nat]
    BY <1>1, <1>3 DEF ScanInv, DriftTypeOK, States
  <2>2. \A i \in items' : i.state \in States /\ i.error \in {"none", "get", "update"}
    BY <1>1, <1>4 DEF ScanInv, DriftTypeOK, States
  <2> QED
    BY <1>0, <1>1, <2>1, <2>2 DEF ScanInv, DriftTypeOK
<1>8. ReportTrue'
  <2>1. ASSUME NEW i \in new PROVE WasAt(i.key) \ {"absent"} # {}
    <3>1. i.key \in Keys /\ live[i.key] # Absent
      BY <1>2, <1>4
    <3>2. live[i.key].body \in was[i.key] /\ live[i.key].body # "absent"
      BY <1>1, <3>1, CellFacts DEF ScanInv, WasInv, DriftTypeOK
    <3> QED
      BY <3>1, <3>2 DEF WasAt
  <2> QED
    BY <1>1, <1>4, <1>6, <2>1 DEF ScanInv, ReportTrue, Fits
<1>9. WasInv' /\ ReadInv'
  BY <1>1 DEF ScanInv, WasInv, ReadInv
<1>10. ItemInv'
  BY <1>1, <1>2, <1>4, <1>6 DEF ScanInv, ItemInv
<1>11. ItemsInv'
  <2>1. ASSUME NEW d \in DOMAIN docs, HasOne(d) PROVE HasOne(d)'
    <3>1. d # 0
      BY DocFacts DEF ScanInv
    <3> QED
      BY <1>1, <1>4, <2>1, <3>1 DEF HasOne
  <2> QED
    BY <1>1, <2>1 DEF ScanInv, ItemsInv
<1>12. SumInv'
  <2> SUFFICES ASSUME NEW s \in States PROVE summary'[s] = 0 <=> ~ Counted(s)'
    BY DEF SumInv
  <2>1. summary[s] \in Nat /\ (summary[s] = 0 <=> ~ Counted(s))
    BY DEF ScanInv, DriftTypeOK, SumInv
  <2>2. Counted(s)' <=> Counted(s) \/ (s = "unmanaged" /\ extra # {})
    BY <1>1, <1>4, <1>5 DEF Counted
  <2>3. summary'[s] = IF s = "unmanaged" THEN summary[s] + Cardinality(extra) ELSE summary[s]
    BY <1>1 DEF ScanInv, DriftTypeOK
  <2> QED
    BY <1>3, <2>1, <2>2, <2>3
<1>13. ListInv'
  <2>1. at >= 1
    BY <1>1 DEF ScanInv, ListInv
  <2> SUFFICES ASSUME request.unmanaged
               PROVE  \A n \in DOMAIN UnmanagedKinds : n < at' =>
                          \A k \in Keys : k.kind = UnmanagedKinds[n] => ~ Missed(k)'
    BY <1>0, <1>1, <2>1 DEF ListInv
  <2>2. ASSUME NEW n \in DOMAIN UnmanagedKinds, n < at + 1, NEW k \in Keys, k.kind = UnmanagedKinds[n]
        PROVE  ~ Missed(k)'
    <3>1. CASE n < at
      <4>1. ~ Missed(k)
        BY <1>1, <2>2, <3>1 DEF ScanInv, ListInv
      <4> QED
        BY <1>1, <1>6, <4>1 DEF Missed
    <3>2. CASE n = at
      <4> SUFFICES ASSUME "absent" \notin was[k], k \notin Ignored, Scoped(k) PROVE \E i \in items' : i.key = k
        BY <1>1, <1>6 DEF Missed
      <4>1. live[k] # Absent
        BY <1>1, CellFacts DEF ScanInv, WasInv, DriftTypeOK, Absent
      <4>2. CASE k \in known
        <5>1. PICK d \in DOMAIN docs : k = KeyOf(docs[d])
          BY <4>2 DEF known
        <5>2. PICK i \in items : i.doc = d
          BY <1>1 DEF ScanInv, ItemsInv, HasOne
        <5>3. i.doc # 0
          BY <5>2, DocFacts DEF ScanInv
        <5> QED
          BY <1>1, <5>1, <5>2, <5>3 DEF ScanInv, ItemInv
      <4>3. CASE k \notin known
        BY <1>1, <1>2, <1>5, <2>2, <3>2, <4>1, <4>3
      <4> QED
        BY <4>2, <4>3
    <3> QED
      BY <1>0, <2>2, <3>1, <3>2
  <2> QED
    BY <1>0, <1>1, <2>1, <2>2
<1>14. ExitTells'
  BY <1>1 DEF ExitTells
<1> QED
  BY <1>7, <1>8, <1>9, <1>10, <1>11, <1>12, <1>13, <1>14 DEF ScanInv

LEMMA ListFailsStep == ScanInv /\ ListFails => ScanInv'
<1> SUFFICES ASSUME ScanInv, ListFails PROVE ScanInv'
  OBVIOUS
<1>0. Len(UnmanagedKinds) \in Nat /\ DOMAIN UnmanagedKinds = 1 .. Len(UnmanagedKinds) /\ at \in Nat
  BY DriftAssumption DEF ScanInv, DriftTypeOK
<1>1. /\ phase = "list" /\ phase' = "list" /\ at <= Len(UnmanagedKinds) /\ at' = at + 1
      /\ unlisted' = unlisted \cup {UnmanagedKinds[at]}
      /\ live' = live /\ writes' = writes /\ request' = request /\ docs' = docs /\ read' = read
      /\ items' = items /\ summary' = summary /\ exit' = exit /\ was' = was
  BY DEF ListFails
<1>2. /\ \A d : KeyOf(d)' = KeyOf(d) /\ Path(d)' = Path(d)
      /\ \A k : Scoped(k)' <=> Scoped(k)
      /\ \A k : WasAt(k)' = WasAt(k)
      /\ known' = known
  BY <1>1 DEF KeyOf, Path, NsOf, WasAt, Scoped, repoNS, known
<1>3. /\ ReportTrue' /\ WasInv' /\ ReadInv' /\ ItemInv'
  BY <1>1, <1>2 DEF ScanInv, ReportTrue, Fits, WasInv, ReadInv, ItemInv
<1>4. ItemsInv' /\ SumInv' /\ ExitTells'
  BY <1>1 DEF ScanInv, ItemsInv, HasOne, SumInv, Counted, ExitTells
<1>5. DriftTypeOK'
  <2>1. UnmanagedKinds[at] \in Namespaced
    <3>1. at >= 1
      BY <1>1 DEF ScanInv, ListInv
    <3> QED
      BY <1>0, <1>1, <3>1, DriftAssumption
  <2> QED
    BY <1>0, <1>1, <2>1 DEF ScanInv, DriftTypeOK
<1>6. ListInv'
  <2> SUFFICES ASSUME request.unmanaged, NEW n \in DOMAIN UnmanagedKinds, n < at + 1,
                      NEW k \in Keys, k.kind = UnmanagedKinds[n], Missed(k)'
               PROVE  FALSE
    BY <1>0, <1>1 DEF ListInv, ScanInv
  <2>1. CASE n < at
    BY <1>1, <1>2, <2>1 DEF ScanInv, ListInv, Missed
  <2>2. CASE n = at
    BY <1>1, <2>2 DEF Missed
  <2> QED
    BY <1>0, <2>1, <2>2
<1> QED
  BY <1>3, <1>4, <1>5, <1>6 DEF ScanInv

LEMMA FinishStep == ScanInv /\ Finish => ScanInv'
<1> SUFFICES ASSUME ScanInv, Finish PROVE ScanInv'
  OBVIOUS
<1>0. at \in Nat /\ Len(UnmanagedKinds) \in Nat
  BY DriftAssumption DEF ScanInv, DriftTypeOK
<1>1. /\ phase = "list" /\ phase' = "done" /\ at > Len(UnmanagedKinds)
      /\ exit' = IF summary["missing"] + summary["modified"] + summary["unmanaged"] > 0 THEN 1 ELSE 0
      /\ live' = live /\ writes' = writes /\ request' = request /\ docs' = docs /\ at' = at
      /\ read' = read /\ items' = items /\ summary' = summary /\ was' = was /\ unlisted' = unlisted
  BY DEF Finish
<1>2. /\ \A d : KeyOf(d)' = KeyOf(d) /\ Path(d)' = Path(d)
      /\ \A k : Scoped(k)' <=> Scoped(k)
      /\ \A k : WasAt(k)' = WasAt(k)
      /\ known' = known
  BY <1>1 DEF KeyOf, Path, NsOf, WasAt, Scoped, repoNS, known
<1>3. ReportTrue' /\ WasInv' /\ ReadInv' /\ ItemInv'
  BY <1>1, <1>2 DEF ScanInv, ReportTrue, Fits, WasInv, ReadInv, ItemInv
<1>4. ItemsInv' /\ SumInv'
  BY <1>1 DEF ScanInv, ItemsInv, HasOne, SumInv, Counted
<1>5. DriftTypeOK'
  BY <1>1 DEF ScanInv, DriftTypeOK, Phases
<1>6. ListInv'
  BY <1>0, <1>1, <1>2 DEF ScanInv, ListInv, Missed
<1>7. ExitTells'
  <2> DEFINE bad == {"missing", "modified", "unmanaged"}
  <2>1. \A s \in bad : summary[s] \in Nat /\ (summary[s] = 0 <=> ~ Counted(s))
    BY DEF ScanInv, DriftTypeOK, SumInv, States
  <2>2. exit' = IF \A s \in bad : ~ Counted(s) THEN 0 ELSE 1
    <3>1. summary["missing"] + summary["modified"] + summary["unmanaged"] > 0
            <=> ~ (summary["missing"] = 0 /\ summary["modified"] = 0 /\ summary["unmanaged"] = 0)
      BY <2>1
    <3> QED
      BY <1>1, <2>1, <3>1
  <2>3. (\A s \in bad : ~ Counted(s)) <=> \A i \in items : i.state = "in-sync" \/ i.error = "get"
    BY DEF ScanInv, DriftTypeOK, States, Counted
  <2> HIDE DEF bad
  <2> QED
    BY <1>1, <2>2, <2>3 DEF ExitTells
<1> QED
  BY <1>3, <1>4, <1>5, <1>6, <1>7 DEF ScanInv

\* Others write: what an object was, it was still.
LEMMA WriteStep ==
    ASSUME ScanInv, NEW k \in Keys, NEW body \in Bodies \cup {"absent"}, Write(k, body)
    PROVE  ScanInv'
<1> DEFINE cell == IF body = "absent" THEN Absent ELSE [version |-> writes + 1, body |-> body]
<1>1. /\ writes < MaxWrites /\ phase # "done" /\ writes' = writes + 1
      /\ live' = [live EXCEPT ![k] = cell] /\ was' = [was EXCEPT ![k] = @ \cup {body}]
      /\ request' = request /\ docs' = docs /\ phase' = phase /\ at' = at /\ read' = read
      /\ items' = items /\ summary' = summary /\ exit' = exit /\ unlisted' = unlisted
  BY DEF Write
<1>2. writes \in Nat /\ cell \in Cells /\ cell.body = body
  BY DriftAssumption DEF ScanInv, DriftTypeOK, Cells, Absent
<1> HIDE DEF cell
<1>3. /\ \A d : KeyOf(d)' = KeyOf(d) /\ Path(d)' = Path(d)
      /\ \A x : Scoped(x)' <=> Scoped(x)
      /\ known' = known
  BY <1>1 DEF KeyOf, Path, NsOf, Scoped, repoNS, known
<1>4. \A x \in Keys : was[x] \subseteq was'[x] /\ (x # k => live'[x] = live[x])
  BY <1>1 DEF ScanInv, DriftTypeOK
<1>5. DriftTypeOK'
  <2>1. live' \in [Keys -> Cells] /\ was' \in [Keys -> SUBSET (Bodies \cup {"absent"})]
    BY <1>1, <1>2 DEF ScanInv, DriftTypeOK
  <2>2. writes' \in 0 .. MaxWrites
    BY <1>1, <1>2, DriftAssumption
  <2> QED
    BY <1>1, <2>1, <2>2 DEF ScanInv, DriftTypeOK
<1>6. \A x : WasAt(x) \subseteq WasAt(x)'
  BY <1>1, <1>4 DEF WasAt
<1>7. ReportTrue'
  <2>1. \A state, had, more, mine : had \subseteq more /\ Fits(state, had, mine) => Fits(state, more, mine)
    BY DEF Fits
  <2>2. ASSUME NEW i \in items, i.error = "none"
        PROVE  IF i.doc = 0 THEN WasAt(i.key)' \ {"absent"} # {}
                            ELSE Fits(i.state, WasAt(Path(docs[i.doc]))', docs[i.doc].body)
    <3>1. WasAt(i.key) \subseteq WasAt(i.key)' /\ WasAt(Path(docs[i.doc])) \subseteq WasAt(Path(docs[i.doc]))'
      BY <1>1, <1>3, <1>6
    <3> QED
      BY <2>1, <2>2, <3>1 DEF ScanInv, ReportTrue
  <2> QED
    BY <1>1, <1>3, <2>2 DEF ReportTrue, Fits
<1>8. WasInv'
  <2>1. live'[k].body \in was'[k]
    BY <1>1, <1>2 DEF ScanInv, DriftTypeOK
  <2> QED
    BY <1>1, <1>4, <2>1 DEF ScanInv, WasInv
<1>9. ReadInv' /\ ItemInv'
  BY <1>1, <1>3, <1>4 DEF ScanInv, ReadInv, ItemInv
<1>10. ItemsInv' /\ SumInv' /\ ExitTells'
  BY <1>1 DEF ScanInv, ItemsInv, HasOne, SumInv, Counted, ExitTells
<1>11. ListInv'
  <2>1. \A x \in Keys : Missed(x)' => Missed(x)
    BY <1>1, <1>3, <1>4 DEF Missed
  <2> QED
    BY <1>1, <2>1 DEF ScanInv, ListInv
<1> QED
  BY <1>5, <1>7, <1>8, <1>9, <1>10, <1>11 DEF ScanInv

LEMMA ScanNext == ScanInv /\ [DriftNext]_drift => ScanInv'
<1>1. ScanInv /\ UNCHANGED drift => ScanInv'
  <2> SUFFICES ASSUME ScanInv, UNCHANGED drift PROVE ScanInv'
    OBVIOUS
  <2>1. /\ \A d : KeyOf(d)' = KeyOf(d) /\ Path(d)' = Path(d)
        /\ \A k : (Scoped(k)' <=> Scoped(k)) /\ WasAt(k)' = WasAt(k)
        /\ known' = known
    BY DEF drift, KeyOf, Path, NsOf, Scoped, repoNS, known, WasAt
  <2>2. DriftTypeOK' /\ ReportTrue' /\ WasInv' /\ ReadInv' /\ ItemInv'
    BY <2>1 DEF ScanInv, drift, DriftTypeOK, ReportTrue, Fits, WasInv, ReadInv, ItemInv
  <2>3. ItemsInv' /\ SumInv' /\ ListInv' /\ ExitTells'
    BY <2>1 DEF ScanInv, drift, ItemsInv, HasOne, SumInv, Counted, ListInv, Missed, ExitTells
  <2> QED
    BY <2>2, <2>3 DEF ScanInv
<1> QED
  BY <1>1, RenderStep, FoundStep, LookupStep, DoneStep, ListedStep, ListFailsStep, FinishStep, WriteStep
     DEF DriftNext, Scanning

LEMMA ScanInvariance == DriftSpec => []ScanInv
BY ScanStart, ScanNext, PTL DEF DriftSpec

\* The variables of the comparison keep their types.
LEMMA DriftTyping == DriftSpec => []DriftTypeOK
<1>1. ScanInv => DriftTypeOK
  BY DEF ScanInv
<1> QED
  BY <1>1, ScanInvariance, PTL

\* Whoever writes to the cluster meanwhile: what a report says of an object was so during the scan.
THEOREM ReportsTrue == DriftSpec => []ReportTrue
<1>1. ScanInv => ReportTrue
  BY DEF ScanInv
<1> QED
  BY <1>1, ScanInvariance, PTL

\* A finished report has every document once, and every object there all along that none declares.
LEMMA ReportsWhole == DriftSpec => []ReportWhole
<1>1. ScanInv => ReportWhole
  <2> SUFFICES ASSUME ScanInv, phase = "done" PROVE ReportWhole
    BY DEF ReportWhole
  <2>1. \A d \in DOMAIN docs : \E i \in items : i.doc = d /\ \A j \in items : j.doc = d => j = i
    BY DEF ScanInv, ItemsInv, HasOne
  <2>2. \A i \in items : i.state = "unmanaged" => i.key \notin known
    BY DEF ScanInv, ItemInv, Declared
  <2>3. ASSUME request.unmanaged, NEW k \in Keys, NEW n \in DOMAIN UnmanagedKinds, UnmanagedKinds[n] = k.kind
        PROVE  ~ Missed(k)
    <3>1. n < at
      <4>1. Len(UnmanagedKinds) \in Nat /\ DOMAIN UnmanagedKinds = 1 .. Len(UnmanagedKinds)
        BY DriftAssumption
      <4>2. at \in Nat /\ at > Len(UnmanagedKinds)
        BY DEF ScanInv, DriftTypeOK, ListInv
      <4> QED
        BY <4>1, <4>2
    <3> QED
      BY <2>3, <3>1 DEF ScanInv, ListInv
  <2> QED
    BY <2>1, <2>2, <2>3 DEF ReportWhole, Missed, known
<1> QED
  BY <1>1, ScanInvariance, PTL

\* The command ends with 0 exactly when everything that could be read agrees.
LEMMA ExitsTell == DriftSpec => []ExitTells
<1>1. ScanInv => ExitTells
  BY DEF ScanInv
<1> QED
  BY <1>1, ScanInvariance, PTL

\* So the report is whole and the command ends on what it says.
THEOREM ReportsTell == DriftSpec => []ReportTells
<1>1. ReportWhole /\ ExitTells => ReportTells
  BY DEF ReportTells
<1> QED
  BY <1>1, ReportsWhole, ExitsTell, PTL

(***************************************************************************)
(* What is compared.                                                       *)
(***************************************************************************)
\* A set of numbers that is not empty has a least one.
LEMMA LeastNumber ==
    ASSUME NEW T, T \subseteq Nat, T # {}
    PROVE  \E x \in T : \A y \in T : x <= y
<1> DEFINE R == {ss \in Nat \X Nat : ss[1] < ss[2]}
<1>0. IsWellFoundedOn(R, Nat)
  BY NatLessThanWellFounded DEF OpToRel
<1>1. \A x, y \in Nat : <<y, x>> \in R <=> y < x
  OBVIOUS
<1> HIDE DEF R
<1>2. PICK x \in T : \A y \in T : ~ (<<y, x>> \in R)
  BY <1>0, WFMin, Zenon
<1> QED
  <2>1. ASSUME NEW y \in T PROVE x <= y
    <3>1. x \in Nat /\ y \in Nat /\ ~ (y < x)
      BY <1>1, <1>2
    <3> QED
      BY <3>1
  <2> QED
    BY <2>1

LEMMA InsideFacts ==
    ASSUME NEW d \in Seq(STRING), NEW e \in Seq(STRING)
    PROVE  /\ Inside(d, d)
           /\ Inside(d, e) => /\ Len(e) <= Len(d)
                              /\ \A i \in DOMAIN e : i \in DOMAIN d /\ e[i] = d[i]
           /\ Len(e) <= Len(d) /\ (\A i \in DOMAIN e : e[i] = d[i]) => Inside(d, e)
<1>1. Inside(d, d)
  BY DEF Inside
<1>2. ASSUME Inside(d, e) PROVE Len(e) <= Len(d) /\ \A i \in DOMAIN e : i \in DOMAIN d /\ e[i] = d[i]
  <2>1. Len(e) <= Len(d) /\ e = SubSeq(d, 1, Len(e))
    BY <1>2 DEF Inside
  <2>2. \A i \in 1 .. Len(e) : i \in 1 .. Len(d) /\ SubSeq(d, 1, Len(e))[i] = d[i]
    BY <2>1
  <2> QED
    BY <2>1, <2>2
<1>3. ASSUME Len(e) <= Len(d), \A i \in DOMAIN e : e[i] = d[i] PROVE Inside(d, e)
  <2> DEFINE p == SubSeq(d, 1, Len(e))
  <2>1. p \in Seq(STRING) /\ Len(p) = Len(e) /\ \A i \in 1 .. Len(e) : p[i] = d[i]
    BY <1>3
  <2> HIDE DEF p
  <2>2. p = e
    BY <1>3, <2>1
  <2> QED
    BY <1>3, <2>2 DEF Inside, p
<1> QED
  BY <1>1, <1>2, <1>3

\* Whatever a walk can see is inside a directory that the walk stops at.
LEMMA TopmostAbove ==
    ASSUME NEW D \in SUBSET Dirs, NEW d \in D, Visible(d)
    PROVE  underAny(d, Topmost(D))
<1> DEFINE Above == {e \in D : Inside(d, e)}
           L     == {Len(e) : e \in Above}
<1>0. D \subseteq Seq(STRING)
  BY RenderAssumption
<1>1. d \in Above
  BY <1>0, InsideFacts
<1>2. L \subseteq Nat /\ Len(d) \in L
  BY <1>0, <1>1
<1>3. PICK e \in Above : \A f \in Above : Len(e) <= Len(f)
  <2>1. PICK n \in L : \A m \in L : n <= m
    <3> HIDE DEF L
    <3> QED
      BY <1>2, LeastNumber
  <2> QED
    BY <2>1
<1>4. /\ d \in Seq(STRING) /\ e \in Seq(STRING) /\ e \in D /\ Inside(d, e) /\ Len(e) <= Len(d)
      /\ \A i \in DOMAIN e : i \in DOMAIN d /\ e[i] = d[i]
  BY <1>0, InsideFacts
<1>5. Visible(e)
  BY <1>4 DEF Visible
<1>6. ASSUME NEW f \in D, Inside(e, f) PROVE f = e
  <2>1. f \in Seq(STRING) /\ Len(f) <= Len(e) /\ \A i \in DOMAIN f : i \in DOMAIN e /\ f[i] = e[i]
    BY <1>0, <1>4, <1>6, InsideFacts
  <2>2. Len(f) <= Len(d) /\ \A i \in DOMAIN f : f[i] = d[i]
    BY <1>4, <2>1
  <2>3. Inside(d, f)
    BY <1>4, <2>1, <2>2, InsideFacts
  <2>4. Len(e) <= Len(f)
    BY <1>3, <2>3
  <2> QED
    BY <1>4, <2>1, <2>4
<1> QED
  BY <1>4, <1>5, <1>6 DEF Topmost, underAny

\* What is read as it is lies outside every root; what a kustomization delivers has one.
HowInv ==
    \A o \in out : /\ o.how = "kustomize" => o.dir \in tree.kust
                   /\ o.how = "raw" => Visible(o.dir) /\ ~ underAny(o.dir, found)

\* What has been built has arrived; at the end, all of it has, and the rest.
Templates(c) == {d \in Dirs : InTemplates(d, c)}
BuiltInv ==
    ended # "failed" =>
        \A r \in built : /\ r \in dropBases => With(Inputs(r)) \subseteq Arrived
                         /\ r \in charts => With(Templates(r)) \subseteq Arrived
EndInv == ended = "done" => dropBases \cup charts \subseteq built /\ With(left) \subseteq Arrived

RenderInv == RenderTypeOK /\ HowInv /\ BuiltInv /\ EndInv

\* No root is a chart as well: one that is both belongs to the root's build.
LEMMA Apart ==
    ASSUME RenderTypeOK, NEW r \in dropBases
    PROVE  r \notin charts
<1>1. r \in found /\ r \in Seq(STRING)
  BY RenderAssumption DEF RenderTypeOK, Layouts, dropBases, found, Topmost
<1>2. underAny(r, found)
  BY <1>1, InsideFacts DEF underAny
<1> QED
  BY <1>2 DEF charts

\* What the tree alone decides stays as it is.
LEMMA TreeSame ==
    ASSUME tree' = tree
    PROVE  /\ found' = found /\ dropBases' = dropBases /\ charts' = charts /\ left' = left
           /\ \A r : Inputs(r)' = Inputs(r) /\ Templates(r)' = Templates(r)
           /\ \A dirs : With(dirs)' = With(dirs)
BY DEF found, Topmost, dropBases, charts, left, Raw, Inputs, ClosedUnder, Templates, With

LEMMA TakenFacts ==
    ASSUME NEW dirs, NEW how, NEW by
    PROVE  /\ \A o \in Taken(dirs, how, by) : o.dir \in With(dirs) /\ o.how = how /\ o.by = by
           /\ \A d \in With(dirs) : \E o \in Taken(dirs, how, by) : o.dir = d
<1>1. \A o \in Taken(dirs, how, by) : o.dir \in With(dirs) /\ o.how = how /\ o.by = by
  BY DEF Taken
<1>2. ASSUME NEW d \in With(dirs) PROVE \E o \in Taken(dirs, how, by) : o.dir = d
  <2> DEFINE it == [dir |-> d, how |-> how, by |-> by]
  <2>1. it \in Taken(dirs, how, by) /\ it.dir = d
    BY DEF Taken
  <2> QED
    BY <2>1
<1> QED
  BY <1>1, <1>2

\* A build adds what it takes: manifests of directories, and nothing that is read as it is.
LEMMA BuildStep ==
    ASSUME RenderInv, ended = "no", NEW b \in dropBases \cup charts, NEW dirs \in SUBSET Dirs, NEW how,
           how = "helm" \/ (how = "kustomize" /\ dirs \subseteq tree.kust),
           b \in dropBases => dirs = Inputs(b),
           b \in charts => dirs = Templates(b),
           out' = out \cup Taken(dirs, how, b), built' = built \cup {b}, tree' = tree, ended' = ended
    PROVE  RenderInv'
<1> DEFINE new == Taken(dirs, how, b)
<1>1. /\ \A o \in new : o.dir \in With(dirs) /\ o.how = how /\ o.by = b
      /\ \A d \in With(dirs) : \E o \in new : o.dir = d
  BY TakenFacts
<1>2. out' = out \cup new
  OBVIOUS
<1> HIDE DEF new
<1>3. \A d \in With(dirs) : d \in dirs /\ tree.manifest[d] # "none"
  BY DEF With
<1>4. Arrived \subseteq Arrived' /\ With(dirs) \subseteq Arrived'
  BY <1>1, <1>2 DEF Arrived
<1>5. RenderTypeOK'
  BY <1>1, <1>2, <1>3, TreeSame DEF RenderInv, RenderTypeOK
<1>6. HowInv'
  BY <1>1, <1>2, <1>3, TreeSame DEF RenderInv, HowInv
<1>7. BuiltInv'
  BY <1>4, TreeSame DEF RenderInv, BuiltInv
<1>8. EndInv'
  BY DEF EndInv
<1> QED
  BY <1>5, <1>6, <1>7, <1>8 DEF RenderInv

LEMMA KustomizeStep ==
    ASSUME RenderInv, NEW d \in Dirs, BuildKustomize(d)
    PROVE  RenderInv'
<1>1. d \in dropBases /\ Inputs(d) \subseteq tree.kust /\ Inputs(d) \in SUBSET Dirs /\ d \notin charts
  BY Apart DEF RenderInv, BuildKustomize, Buildable, Inputs
<1> QED
  BY <1>1, BuildStep DEF BuildKustomize

LEMMA ChartStep ==
    ASSUME RenderInv, NEW d \in Dirs, BuildChart(d)
    PROVE  RenderInv'
<1>1. d \in charts /\ d \notin dropBases /\ Templates(d) \in SUBSET Dirs
  BY Apart DEF RenderInv, BuildChart, Templates
<1> QED
  BY <1>1, BuildStep DEF BuildChart, Templates

LEMMA BuildFailsStep == RenderInv /\ BuildFails => RenderInv'
<1> SUFFICES ASSUME RenderInv, BuildFails PROVE RenderInv'
  OBVIOUS
<1>1. ended' = "failed" /\ out' = {} /\ tree' = tree /\ built' = built
  BY DEF BuildFails
<1> QED
  BY <1>1, TreeSame DEF RenderInv, RenderTypeOK, HowInv, BuiltInv, EndInv

LEMMA WalkStep == RenderInv /\ Walk => RenderInv'
<1> SUFFICES ASSUME RenderInv, Walk PROVE RenderInv'
  OBVIOUS
<1> DEFINE new == {[dir |-> d, how |-> "raw", by |-> d] : d \in left}
<1>1. /\ ended = "no" /\ dropBases \cup charts \subseteq built /\ ended' = "done" /\ tree' = tree /\ built' = built
      /\ out' = out \cup new
  BY DEF Walk
<1>2. \A o \in new : o.dir \in left /\ o.how = "raw"
  OBVIOUS
<1>3. ASSUME NEW d \in left PROVE \E o \in new : o.dir = d
  <2> DEFINE it == [dir |-> d, how |-> "raw", by |-> d]
  <2>1. it \in new /\ it.dir = d
    OBVIOUS
  <2> QED
    BY <2>1
<1> HIDE DEF new
<1>4. \A d \in left : d \in Dirs /\ Visible(d) /\ ~ underAny(d, found) /\ tree.manifest[d] = "plain"
  BY DEF left, Raw
<1>5. Arrived \subseteq Arrived' /\ left \subseteq Arrived'
  BY <1>1, <1>3 DEF Arrived
<1>6. RenderTypeOK'
  BY <1>1, <1>2, <1>4, TreeSame DEF RenderInv, RenderTypeOK
<1>7. HowInv'
  BY <1>1, <1>2, <1>4, TreeSame DEF RenderInv, HowInv
<1>8. BuiltInv'
  BY <1>1, <1>5, TreeSame DEF RenderInv, BuiltInv
<1>9. EndInv'
  BY <1>1, <1>5, TreeSame DEF EndInv, With
<1> QED
  BY <1>6, <1>7, <1>8, <1>9 DEF RenderInv

LEMMA RenderInvariance == RenderSpec => []RenderInv
<1>1. RenderInit => RenderInv
  BY RenderAssumption DEF RenderInit, RenderInv, RenderTypeOK, HowInv, BuiltInv, EndInv
<1>2. RenderInv /\ [RenderNext]_render => RenderInv'
  <2>1. RenderInv /\ UNCHANGED render => RenderInv'
    <3> SUFFICES ASSUME RenderInv, UNCHANGED render PROVE RenderInv'
      OBVIOUS
    <3>1. tree' = tree /\ built' = built /\ out' = out /\ ended' = ended
      BY DEF render
    <3>2. Arrived' = Arrived
      BY <3>1 DEF Arrived
    <3> QED
      BY <3>1, <3>2, TreeSame DEF RenderInv, RenderTypeOK, HowInv, BuiltInv, EndInv
  <2> QED
    BY <2>1, KustomizeStep, ChartStep, BuildFailsStep, WalkStep DEF RenderNext
<1> QED
  BY <1>1, <1>2, PTL DEF RenderSpec

\* The variables of the rendering keep their types.
LEMMA RenderTyping == RenderSpec => []RenderTypeOK
<1>1. RenderInv => RenderTypeOK
  BY DEF RenderInv
<1> QED
  BY <1>1, RenderInvariance, PTL

\* No file that a kustomization delivers, patched, is read as it is too.
LEMMA NoRawCopies == RenderSpec => []NoRawCopy
<1>1. RenderInv => NoRawCopy
  <2> SUFFICES ASSUME RenderInv, NEW o \in out, NEW p \in out, o.how = "raw", p.how = "kustomize", o.dir = p.dir
               PROVE  FALSE
    BY DEF NoRawCopy
  <2>1. o.dir \in tree.kust /\ Visible(o.dir) /\ ~ underAny(o.dir, found)
    BY DEF RenderInv, HowInv
  <2>2. tree.kust \in SUBSET Dirs
    BY DEF RenderInv, RenderTypeOK, Layouts
  <2> QED
    BY <2>1, <2>2, TopmostAbove DEF found
<1> QED
  BY <1>1, RenderInvariance, PTL

\* An input of an input is an input.
LEMMA InputsOfInputs ==
    ASSUME RenderTypeOK, NEW r \in found, NEW x \in tree.refs[r]
    PROVE  Inputs(x) \subseteq Inputs(r)
<1> SUFFICES ASSUME NEW d \in Inputs(x), NEW all \in SUBSET Dirs, r \in all, ClosedUnder(all) PROVE d \in all
  BY DEF Inputs
<1>1. x \in all
  BY DEF ClosedUnder
<1> QED
  BY <1>1 DEF Inputs

\* Unless roots list each other in a circle, whatever a root takes in arrives: take the roots whose
\* inputs have not; one of them is listed by none of them, so it was built, or another brought it.
LEMMA NothingIsLost == RenderSpec => []NothingLost
<1>1. RenderInv => NothingLost
  <2> SUFFICES ASSUME RenderInv, ended = "done", Acyclic(found)
               PROVE  With(Owed) \subseteq Arrived
    BY DEF NothingLost
  <2>1. /\ dropBases \cup charts \subseteq built /\ With(left) \subseteq Arrived
        /\ \A r \in dropBases : With(Inputs(r)) \subseteq Arrived
        /\ \A c \in charts : With(Templates(c)) \subseteq Arrived
    BY DEF RenderInv, EndInv, BuiltInv
  <2> DEFINE Astray == {r \in found : ~ (With(Inputs(r)) \subseteq Arrived)}
  <2>2. Astray = {}
    <3> SUFFICES ASSUME Astray # {} PROVE FALSE
      OBVIOUS
    <3>1. PICK x \in Astray : \A r \in Astray : x \notin tree.refs[r]
      BY DEF Acyclic
    <3>2. x \notin dropBases
      BY <2>1
    <3>3. PICK r \in found : x \in tree.refs[r]
      BY <3>2 DEF dropBases
    <3>4. With(Inputs(r)) \subseteq Arrived
      BY <3>1, <3>3
    <3>5. Inputs(x) \subseteq Inputs(r)
      BY <3>3, InputsOfInputs DEF RenderInv
    <3> QED
      BY <3>4, <3>5 DEF With
  <2>3. \A r \in found : With(Inputs(r)) \subseteq Arrived
    BY <2>2
  <2>4. ASSUME NEW d, tree.manifest[d] # "none",
               \/ \E r \in found : d \in Inputs(r)
               \/ d \in Dirs /\ \E c \in charts : InTemplates(d, c)
               \/ d \in left
        PROVE  d \in Arrived
    <3>1. CASE \E r \in found : d \in Inputs(r)
      BY <2>3, <2>4, <3>1 DEF With
    <3>2. CASE d \in Dirs /\ \E c \in charts : InTemplates(d, c)
      BY <2>1, <2>4, <3>2 DEF With, Templates
    <3>3. CASE d \in left
      BY <2>1, <2>4, <3>3 DEF With
    <3> QED
      BY <2>4, <3>1, <3>2, <3>3
  <2> QED
    BY <2>4 DEF With, Owed
<1> QED
  BY <1>1, RenderInvariance, PTL

\* Every manifest owed arrives, and none that a kustomization patches arrives as it is too.
THEOREM RendersFit == RenderSpec => []RenderFits
<1>1. NothingLost /\ NoRawCopy => RenderFits
  BY DEF RenderFits
<1> QED
  BY <1>1, NothingIsLost, NoRawCopies, PTL

(***************************************************************************)
(* The engine's parts together: what a scene's module does is a step of    *)
(* it, and every other module stutters.                                    *)
(***************************************************************************)
LEMMA SocketOfEngine == EngineSpec => Spec
<1>1. EngineInit => Init
  BY DEF EngineInit
<1>2. [EngineNext]_<<scene, vars, audit, drift, render>> => [Next]_vars
  BY DEF EngineNext, OthersStay
<1> QED
  BY <1>1, <1>2, PTL DEF EngineSpec, Spec

LEMMA LogOfEngine == EngineSpec => AuditSpec
<1>1. EngineInit => AuditInit
  BY DEF EngineInit
<1>2. [EngineNext]_<<scene, vars, audit, drift, render>> => [AuditNext]_audit
  BY DEF EngineNext, OthersStay
<1> QED
  BY <1>1, <1>2, PTL DEF EngineSpec, AuditSpec

LEMMA ScanOfEngine == EngineSpec => DriftSpec
<1>1. EngineInit => DriftInit
  BY DEF EngineInit
<1>2. [EngineNext]_<<scene, vars, audit, drift, render>> => [DriftNext]_drift
  BY DEF EngineNext, OthersStay
<1> QED
  BY <1>1, <1>2, PTL DEF EngineSpec, DriftSpec

LEMMA RenderOfEngine == EngineSpec => RenderSpec
<1>1. EngineInit => RenderInit
  BY DEF EngineInit
<1>2. [EngineNext]_<<scene, vars, audit, drift, render>> => [RenderNext]_render
  BY DEF EngineNext, OthersStay
<1> QED
  BY <1>1, <1>2, PTL DEF EngineSpec, RenderSpec

\* Every variable of every module has its type.
THEOREM EngineTyping == EngineSpec => []EngineTypeOK
<1>1. TypeOK /\ AuditTypeOK /\ DriftTypeOK /\ RenderTypeOK => EngineTypeOK
  BY DEF EngineTypeOK
<1> QED
  BY <1>1, SocketOfEngine, LogOfEngine, ScanOfEngine, RenderOfEngine,
     SocketTyping, LogTyping, DriftTyping, RenderTyping, PTL

\* Of the engine as a whole: it streams what the window subscribed to and no more, informers run
\* exactly while a stream holds them, and a comparison tells what was so, whole, of everything the
\* repository declares.
THEOREM EngineCorrect ==
    EngineSpec => [](/\ SubscriptionsAgree /\ NoOrphanStream /\ HeldKeepsRunning /\ NothingLeftRunning
                     /\ ReportTrue /\ ReportTells /\ RenderFits)
  BY SocketOfEngine, ScanOfEngine, RenderOfEngine, EngineAgrees, StreamsOwned, StreamsKeepRunning,
     StreamsLeaveNothing, ReportsTrue, ReportsTell, RendersFit, PTL

\* And while one engine writes the log, it verifies when nothing went wrong, an entry that was
\* acknowledged is there or its loss is detected, and its numbers grow.
THEOREM EngineRecords ==
    ASSUME \A p, q \in Engines : p = q
    PROVE  EngineSpec => [](ChainVerifies /\ AckedOrDetected /\ SequenceGrows)
<1>1. AuditSpec => []ChainVerifies
  BY NoFalseAlarm
<1>2. AuditSpec => []AckedOrDetected
  BY AcknowledgedOrDetected
<1>3. AuditSpec => []SequenceGrows
  BY NumbersGrow
<1> QED
  BY <1>1, <1>2, <1>3, LogOfEngine, PTL
=============================================================================
