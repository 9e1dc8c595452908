--------------------------- MODULE AuditLogProofs ---------------------------
(***************************************************************************)
(* Proofs about AuditLog, for any bound on the appends and any faults.     *)
(*                                                                         *)
(* The argument: as long as nothing tore or touched the file, its lines    *)
(* are linked, an open Log remembers the last of them, and the head names  *)
(* one of them (ChainInv).  The next line an append writes then links.     *)
(* With two engines an open Log may remember a line that is not the last,  *)
(* so what is said of the chain is said for one engine.                    *)
(*                                                                         *)
(* With faults: an open Log remembers the greatest number in the file, but *)
(* for a line the next write spoils (GrowInv), so a new entry has a new    *)
(* number.  An entry whose number is its place then ends a whole chain,    *)
(* and a chain that is whole up to the head holds all that was acked       *)
(* (AckedInv).  Once the tail is lost the head stands still, and what is   *)
(* written at its place carries an instant its hash cannot list.           *)
(***************************************************************************)
EXTENDS AuditLog, SequenceTheorems, WellFoundedInduction, TLAPS

-----------------------------------------------------------------------------
(* The greatest index.                                                     *)

\* A set of naturals that is not empty has a least element.
LEMMA LeastNat ==
    ASSUME NEW S, S \subseteq Nat, S # {}
    PROVE  \E x \in S : \A y \in S : x <= y
  <1> DEFINE R == OpToRel(<, Nat)
  <1>1. IsWellFoundedOn(R, Nat)
    BY NatLessThanWellFounded
  <1>2. \A x, y \in Nat : x < y => <<x, y>> \in R
    BY DEF OpToRel
  <1> HIDE DEF R
  <1>3. PICK x \in S : \A y \in S : ~(<<y, x>> \in R)
    BY <1>1, WFMin
  <1>4. ASSUME NEW y \in S PROVE x <= y
    <2>1. x \in Nat /\ y \in Nat
      OBVIOUS
    <2>2. ~(y < x)
      BY <1>2, <1>3, <2>1
    <2>3. QED
      BY <2>1, <2>2
  <1>5. QED
    BY <1>4

\* A set of indices that is not empty has a greatest element, which is Max.
LEMMA GreatestIndex ==
    ASSUME NEW n \in Nat, NEW S, S \subseteq 1 .. n, S # {}
    PROVE  Max(S) \in S /\ \A y \in S : Max(S) >= y
  <1> DEFINE D == {n - x : x \in S}
  <1>1. D \subseteq Nat
    <2>1. ASSUME NEW x \in S PROVE n - x \in Nat
      <3>1. x \in 1 .. n
        OBVIOUS
      <3>2. QED
        BY <3>1
    <2>2. QED
      BY <2>1
  <1>2. D # {}
    OBVIOUS
  <1>3. PICK d \in D : \A e \in D : d <= e
    BY <1>1, <1>2, LeastNat
  <1>4. PICK x \in S : d = n - x
    OBVIOUS
  <1>5. ASSUME NEW y \in S PROVE x >= y
    <2>1. n - x <= n - y
      BY <1>3, <1>4
    <2>2. x \in 1 .. n /\ y \in 1 .. n
      OBVIOUS
    <2>3. QED
      BY <2>1, <2>2
  <1>6. QED
    BY <1>5 DEF Max

-----------------------------------------------------------------------------
(* Types.                                                                  *)

Lines == Seq(Entry \cup {Garbled})

\* A line that parses is an entry.
LEMMA ParsingLine ==
    ASSUME NEW line \in Entry \cup {Garbled}, line.parses
    PROVE  line \in Entry
  BY DEF Garbled

\* The fields of an entry.
LEMMA EntryFields ==
    ASSUME NEW e \in Entry
    PROVE  /\ e.parses
           /\ e.seq \in Nat
           /\ e.at \in Instants
           /\ e.prev \in Hashes
           /\ e.hash \in Hashes
  BY DEF Entry

\* What Open starts from when there is no line to go by.
LEMMA ZeroIsEntry == ZeroEntry \in Entry
  BY MaxAppendsAssumption DEF ZeroEntry, Entry, Instants, Hashes, NoHash

\* What Open takes from a file is an entry.
LEMMA TailIsEntry ==
    ASSUME NEW f \in Lines
    PROVE  TailOf(f) \in Entry
  <1>1. CASE Parseable(f) = {}
    BY <1>1, ZeroIsEntry DEF TailOf
  <1>2. CASE Parseable(f) # {}
    <2>1. Parseable(f) \subseteq 1 .. Len(f) /\ Len(f) \in Nat
      BY DEF Parseable, Lines
    <2>2. Max(Parseable(f)) \in Parseable(f)
      BY <1>2, <2>1, GreatestIndex
    <2>3. /\ f[Max(Parseable(f))] \in Entry \cup {Garbled}
          /\ f[Max(Parseable(f))].parses
      BY <2>1, <2>2 DEF Parseable, Lines
    <2>4. QED
      BY <1>2, <2>3, ParsingLine DEF TailOf
  <1>3. QED
    BY <1>1, <1>2

\* What Append builds is an entry.
LEMMA NextIsEntry ==
    ASSUME AuditTypeOK, NEW p \in Engines, CanAppend(p)
    PROVE  /\ NextEntry(p) \in Entry
           /\ clock + 1 \in Instants
  <1>1. clock + 1 \in Instants
    BY MaxAppendsAssumption DEF AuditTypeOK, CanAppend, Instants
  <1>2. last[p] \in Entry
    BY DEF AuditTypeOK
  <1>3. last[p].hash \in Hashes /\ last[p].seq + 1 \in Nat
    BY <1>2, EntryFields
  <1>4. clock + 1 \in Nat
    BY <1>1, MaxAppendsAssumption DEF Instants
  <1>5. Append(last[p].hash, <<last[p].seq + 1, clock + 1>>) \in Hashes
    BY <1>3, <1>4 DEF Hashes
  <1>6. QED
    BY <1>1, <1>3, <1>5 DEF NextEntry, Entry, hashOf

\* A write leaves a file of lines.
LEMMA EmitLines ==
    ASSUME file \in Lines, NEW line \in Entry \cup {Garbled},
           NEW newline \in BOOLEAN, Emit(line, newline)
    PROVE  file' \in Lines /\ unterminated' \in BOOLEAN
  <1>1. unterminated' \in BOOLEAN
    BY DEF Emit
  <1>2. CASE unterminated
    <2>1. file' = [file EXCEPT ![Len(file)] = Garbled]
      BY <1>2 DEF Emit
    <2>2. CASE file = <<>>
      <3>1. DOMAIN file = {} /\ Len(file) = 0
        BY <2>2
      <3>2. file' = file
        BY <2>1, <2>2, <3>1
      <3>3. QED
        BY <1>1, <3>2
    <2>3. CASE file # <<>>
      <3>1. Len(file) \in 1 .. Len(file)
        BY <2>3, EmptySeq, LenProperties DEF Lines
      <3>2. file' \in Lines
        BY <2>1, <3>1, ExceptSeq DEF Lines
      <3>3. QED
        BY <1>1, <3>2
    <2>4. QED
      BY <2>2, <2>3
  <1>3. CASE ~unterminated
    <2>1. file' = Append(file, line)
      BY <1>3 DEF Emit
    <2>2. QED
      BY <1>1, <2>1 DEF Lines
  <1>4. QED
    BY <1>2, <1>3

\* An edited line is a line, and a file without a line is one of lines.
LEMMA TamperedLines ==
    ASSUME file \in Lines, NEW i \in 1 .. Len(file) - 1, file[i].parses
    PROVE  [file EXCEPT ![i].at = 0] \in Lines /\ RemoveAt(file, i) \in Lines
  <1>1. i \in 1 .. Len(file) /\ Len(file) \in Nat
    BY DEF Lines
  <1>2. [file[i] EXCEPT !.at = 0] \in Entry
    <2>1. file[i] \in Entry
      BY <1>1, ParsingLine DEF Lines
    <2>2. 0 \in Instants
      BY MaxAppendsAssumption DEF Instants
    <2>3. QED
      BY <2>1, <2>2 DEF Entry
  <1>3. [file EXCEPT ![i].at = 0] \in Lines
    BY <1>1, <1>2 DEF Lines
  <1>4. /\ SubSeq(file, 1, i - 1) \in Lines
        /\ SubSeq(file, i + 1, Len(file)) \in Lines
    BY <1>1, SubSeqProperties DEF Lines
  <1>5. RemoveAt(file, i) \in Lines
    BY <1>4, ConcatProperties DEF RemoveAt, Lines
  <1>6. QED
    BY <1>3, <1>5

\* The types hold at the start and are kept by every step.
LEMMA InitTypes == AuditInit => AuditTypeOK
  <1> SUFFICES ASSUME AuditInit PROVE AuditTypeOK
    OBVIOUS
  <1>1. last \in [Engines -> Entry]
    BY ZeroIsEntry DEF AuditInit
  <1>2. head \in [seq : Nat, hash : Hashes]
    BY DEF AuditInit, NoHash, Hashes
  <1>3. clock \in Instants
    BY MaxAppendsAssumption DEF AuditInit, Instants
  <1>4. file \in Seq(Entry \cup {Garbled})
    BY EmptySeq DEF AuditInit
  <1>5. /\ up \in [Engines -> BOOLEAN]
        /\ anchoring \in [Engines -> BOOLEAN]
    BY DEF AuditInit
  <1>6. QED
    BY <1>1, <1>2, <1>3, <1>4, <1>5 DEF AuditInit, AuditTypeOK

LEMMA NextTypes == AuditTypeOK /\ [AuditNext]_audit => AuditTypeOK'
  <1> SUFFICES ASSUME AuditTypeOK, [AuditNext]_audit PROVE AuditTypeOK'
    OBVIOUS
  <1>1. file \in Lines
    BY DEF AuditTypeOK, Lines
  <1>2. Garbled \in Entry \cup {Garbled}
    OBVIOUS
  <1>3. ASSUME NEW p \in Engines, Open(p)
        PROVE  AuditTypeOK'
    <2>1. TailOf(file) \in Entry
      BY <1>1, TailIsEntry
    <2>2. QED
      BY <1>3, <2>1 DEF Open, AuditTypeOK, disk, history
  <1>4. ASSUME NEW p \in Engines, AppendRefused(p)
        PROVE  AuditTypeOK'
    BY <1>4, NextIsEntry DEF AppendRefused, AuditTypeOK, disk, memory
  <1>5. ASSUME NEW p \in Engines, AppendShort(p)
        PROVE  AuditTypeOK'
    <2>1. NextEntry(p) \in Entry /\ clock + 1 \in Instants
      BY <1>5, NextIsEntry DEF AppendShort
    <2>2. file' \in Lines /\ unterminated' \in BOOLEAN
      <3>1. CASE Emit(Garbled, FALSE)
        BY <1>1, <1>2, <3>1, EmitLines
      <3>2. CASE Emit(NextEntry(p), FALSE)
        BY <1>1, <2>1, <3>2, EmitLines
      <3>3. QED
        BY <1>5, <3>1, <3>2 DEF AppendShort
    <2>3. QED
      BY <1>5, <2>1, <2>2 DEF AppendShort, AuditTypeOK, memory, Lines
  <1>6. ASSUME NEW p \in Engines, AppendWritten(p)
        PROVE  AuditTypeOK'
    <2>1. NextEntry(p) \in Entry /\ clock + 1 \in Instants
      BY <1>6, NextIsEntry DEF AppendWritten
    <2>2. file' \in Lines /\ unterminated' \in BOOLEAN
      BY <1>1, <1>6, <2>1, EmitLines DEF AppendWritten
    <2>3. last' \in [Engines -> Entry] /\ anchoring' \in [Engines -> BOOLEAN]
      BY <1>6, <2>1 DEF AppendWritten, AuditTypeOK
    <2>4. lost' \in {"no", "yes", "reused"}
      BY <1>6 DEF AppendWritten, AuditTypeOK
    <2>5. QED
      BY <1>6, <2>1, <2>2, <2>3, <2>4 DEF AppendWritten, AuditTypeOK, Lines
  <1>7. ASSUME NEW p \in Engines, HeadWritten(p)
        PROVE  AuditTypeOK'
    <2>1. last[p] \in Entry
      BY DEF AuditTypeOK
    <2>2. /\ last[p].seq \in Nat
          /\ last[p].hash \in Hashes
          /\ last[p].at \in Instants
      BY <2>1, EntryFields
    <2>3. anchoring' \in [Engines -> BOOLEAN]
      BY <1>7 DEF HeadWritten, AuditTypeOK
    <2>4. QED
      BY <1>7, <2>2, <2>3 DEF HeadWritten, AuditTypeOK
  <1>8. ASSUME NEW p \in Engines, HeadFailed(p)
        PROVE  AuditTypeOK'
    <2>1. last[p].at \in Instants
      BY EntryFields DEF AuditTypeOK
    <2>2. QED
      BY <1>8, <2>1 DEF HeadFailed, AuditTypeOK, disk
  <1>9. ASSUME NEW p \in Engines, Crash(p)
        PROVE  AuditTypeOK'
    BY <1>9, ZeroIsEntry DEF Crash, Stop, AuditTypeOK, disk, history
  <1>10. ASSUME NEW p \in Engines, CrashInWrite(p)
         PROVE  AuditTypeOK'
    <2>1. clock + 1 \in Instants
      BY <1>10, NextIsEntry DEF CrashInWrite
    <2>2. file' \in Lines /\ unterminated' \in BOOLEAN
      BY <1>1, <1>2, <1>10, EmitLines DEF CrashInWrite
    <2>3. /\ up' \in [Engines -> BOOLEAN]
          /\ anchoring' \in [Engines -> BOOLEAN]
          /\ last' \in [Engines -> Entry]
      BY <1>10, ZeroIsEntry DEF CrashInWrite, Stop, AuditTypeOK
    <2>4. QED
      BY <1>10, <2>1, <2>2, <2>3 DEF CrashInWrite, AuditTypeOK, Lines
  <1>11. CASE LoseTail
    <2>1. PICK k \in 0 .. Len(file) - 1 : file' = SubSeq(file, 1, k)
      BY <1>11 DEF LoseTail
    <2>2. file' \in Lines
      <3>1. Len(file) \in Nat
        BY <1>1 DEF Lines
      <3>2. QED
        BY <1>1, <2>1, <3>1, SubSeqProperties DEF Lines
    <2>3. QED
      BY <1>11, <2>2 DEF LoseTail, AuditTypeOK, memory, Lines
  <1>12. CASE Tamper
    <2>1. file' \in Lines
      BY <1>1, <1>12, TamperedLines DEF Tamper
    <2>2. QED
      BY <1>12, <2>1 DEF Tamper, AuditTypeOK, memory, Lines
  <1>13. CASE UNCHANGED audit
    BY <1>13 DEF audit, AuditTypeOK
  <1>14. QED
    BY <1>3, <1>4, <1>5, <1>6, <1>7, <1>8, <1>9, <1>10, <1>11, <1>12, <1>13
       DEF AuditNext

\* Every variable keeps its type: in particular what a process remembers of
\* the log is always an entry, whatever garbage the file holds.
THEOREM LogTyping == AuditSpec => []AuditTypeOK
  BY InitTypes, NextTypes, PTL DEF AuditSpec

-----------------------------------------------------------------------------
(* The chain, with one engine.                                             *)

\* The entry at the end of a file whose every line parses.
EndOf(f) == IF f = <<>> THEN ZeroEntry ELSE f[Len(f)]

\* As long as nothing tore or touched the file.
ChainInv ==
    /\ \A p \in Engines : anchoring[p] => up[p]
    /\ intact =>
         /\ ~unterminated
         /\ \A i \in DOMAIN file : Linked(file, i)
         /\ \A p \in Engines : up[p] => last[p] = EndOf(file)
         /\ \A p \in Engines : anchoring[p] => file # <<>>
         /\ head.seq <= Len(file)
         /\ head.seq \in DOMAIN file => file[head.seq].hash = head.hash

\* A linked chain with its head in it verifies.
LEMMA LinkedVerifies ==
    ASSUME NEW f, NEW h,
           \A i \in DOMAIN f : Linked(f, i),
           ~(Len(f) < h.seq),
           h.seq \in DOMAIN f => f[h.seq].hash = h.hash
    PROVE  Verify(f, h).ok
  <1>1. {i \in DOMAIN f : ~Linked(f, i)} = {}
    OBVIOUS
  <1>2. Verify(f, h) = [ok |-> TRUE, seq |-> 0]
    BY <1>1 DEF Verify
  <1>3. QED
    BY <1>2

\* Open finds the end of a file whose every line is linked.
LEMMA TailIsEnd ==
    ASSUME NEW f \in Lines, \A i \in DOMAIN f : Linked(f, i)
    PROVE  TailOf(f) = EndOf(f)
  <1>1. Parseable(f) = 1 .. Len(f) /\ Len(f) \in Nat
    BY DEF Parseable, Linked, Lines
  <1>2. CASE f = <<>>
    BY <1>1, <1>2 DEF TailOf, EndOf
  <1>3. CASE f # <<>>
    <2>1. Len(f) > 0
      BY <1>3, EmptySeq, LenProperties DEF Lines
    <2>2. Max(1 .. Len(f)) = Len(f)
      <3> DEFINE S == 1 .. Len(f)
      <3>1. S \subseteq 1 .. Len(f) /\ Len(f) \in S
        BY <1>1, <2>1
      <3> HIDE DEF S
      <3>2. Max(S) \in S /\ \A y \in S : Max(S) >= y
        BY <1>1, <3>1, GreatestIndex
      <3>3. Max(S) \in 1 .. Len(f) /\ Max(S) >= Len(f)
        BY <3>1, <3>2
      <3>4. QED
        BY <1>1, <3>3 DEF S
    <2>3. QED
      BY <1>1, <1>3, <2>1, <2>2 DEF TailOf, EndOf
  <1>4. QED
    BY <1>2, <1>3

\* The line an append writes links to the end of the file.
LEMMA NextLinks ==
    ASSUME NEW f \in Lines, NEW p \in Engines,
           \A i \in DOMAIN f : Linked(f, i),
           last[p] = EndOf(f)
    PROVE  /\ \A i \in DOMAIN Append(f, NextEntry(p)) :
                Linked(Append(f, NextEntry(p)), i)
           /\ EndOf(Append(f, NextEntry(p))) = NextEntry(p)
           /\ \A i \in DOMAIN f : Append(f, NextEntry(p))[i] = f[i]
           /\ Len(Append(f, NextEntry(p))) = Len(f) + 1
  <1> DEFINE g == Append(f, NextEntry(p))
             n == Len(f) + 1
  <1>1. /\ Len(f) \in Nat
        /\ DOMAIN f = 1 .. Len(f)
        /\ DOMAIN g = 1 .. n
        /\ Len(g) = n
        /\ \A i \in 1 .. Len(f) : g[i] = f[i]
        /\ g[n] = NextEntry(p)
    <2>1. f \in Seq(Entry \cup {Garbled} \cup {NextEntry(p)})
      BY DEF Lines
    <2>2. QED
      BY <2>1, AppendProperties, LenProperties
  <1> HIDE DEF g
  <1>2. /\ last[p].seq = Len(f)
        /\ last[p].hash = HashBefore(g, n)
    <2>1. CASE f = <<>>
      BY <1>1, <2>1 DEF EndOf, ZeroEntry, HashBefore
    <2>2. CASE f # <<>>
      <3>1. Len(f) > 0
        BY <2>2, EmptySeq, LenProperties DEF Lines
      <3>2. Linked(f, Len(f)) /\ last[p] = f[Len(f)]
        BY <1>1, <2>2, <3>1 DEF EndOf
      <3>3. g[n - 1] = f[Len(f)] /\ n # 1
        BY <1>1, <3>1
      <3>4. QED
        BY <3>2, <3>3 DEF HashBefore, Linked
    <2>3. QED
      BY <2>1, <2>2
  <1>3. Linked(g, n)
    BY <1>1, <1>2 DEF Linked, NextEntry, hashOf
  <1>4. ASSUME NEW i \in 1 .. Len(f) PROVE Linked(g, i)
    <2>1. Linked(f, i) /\ g[i] = f[i]
      BY <1>1
    <2>2. HashBefore(g, i) = HashBefore(f, i)
      BY <1>1 DEF HashBefore
    <2>3. QED
      BY <2>1, <2>2 DEF Linked
  <1>5. EndOf(g) = NextEntry(p)
    <2>1. g # <<>>
      BY <1>1
    <2>2. QED
      BY <1>1, <2>1 DEF EndOf
  <1>6. QED
    BY <1>1, <1>3, <1>4, <1>5 DEF g

\* The chain invariant is kept by every step of one engine.
LEMMA NextChain ==
    ASSUME \A p, q \in Engines : p = q,
           AuditTypeOK, ChainInv, [AuditNext]_audit
    PROVE  ChainInv'
  <1>1. file \in Lines
    BY DEF AuditTypeOK, Lines
  <1>2. ASSUME NEW p \in Engines, Open(p)
        PROVE  ChainInv'
    <2>1. intact => TailOf(file) = EndOf(file)
      BY <1>1, TailIsEnd DEF ChainInv
    <2>2. QED
      BY <1>2, <2>1 DEF Open, ChainInv, AuditTypeOK, disk, history
  <1>3. ASSUME NEW p \in Engines, AppendRefused(p)
        PROVE  ChainInv'
    BY <1>3 DEF AppendRefused, ChainInv, disk, memory
  <1>4. ASSUME NEW p \in Engines, AppendShort(p)
        PROVE  ChainInv'
    BY <1>4 DEF AppendShort, ChainInv, memory
  <1>5. ASSUME NEW p \in Engines, AppendWritten(p)
        PROVE  ChainInv'
    <2>1. \A q \in Engines : q = p
      OBVIOUS
    <2>2. up[p] /\ up' = up /\ intact' = intact /\ head' = head
      BY <1>5 DEF AppendWritten, CanAppend
    <2>3. last'[p] = NextEntry(p) /\ anchoring'[p]
      BY <1>5 DEF AppendWritten, AuditTypeOK
    <2>4. CASE ~intact
      BY <2>1, <2>2, <2>4 DEF ChainInv
    <2>5. CASE intact
      <3>1. file' = Append(file, NextEntry(p)) /\ ~unterminated'
        BY <1>5, <2>5 DEF AppendWritten, Emit, ChainInv
      <3>2. /\ \A i \in DOMAIN file : Linked(file, i)
            /\ last[p] = EndOf(file)
        BY <2>2, <2>5 DEF ChainInv
      <3>3. /\ \A i \in DOMAIN file' : Linked(file', i)
            /\ EndOf(file') = NextEntry(p)
            /\ \A i \in DOMAIN file : file'[i] = file[i]
            /\ Len(file') = Len(file) + 1
        BY <1>1, <3>1, <3>2, NextLinks
      <3>4. Len(file) \in Nat /\ DOMAIN file = 1 .. Len(file) /\ head.seq \in Nat
        BY <1>1, LenProperties DEF Lines, AuditTypeOK
      <3>5. head.seq <= Len(file) /\
            (head.seq \in DOMAIN file => file[head.seq].hash = head.hash)
        BY <2>5 DEF ChainInv
      <3>6. file' # <<>>
        BY <3>3, <3>4
      <3>7. head'.seq <= Len(file')
        BY <2>2, <3>3, <3>4, <3>5
      <3>8. head'.seq \in DOMAIN file' => file'[head'.seq].hash = head'.hash
        <4>1. DOMAIN file' = 1 .. Len(file) + 1
          BY <1>1, <3>1 DEF Lines
        <4>2. head.seq \in DOMAIN file' => head.seq \in DOMAIN file
          BY <3>4, <3>5, <4>1
        <4>3. QED
          BY <2>2, <3>3, <3>5, <4>2
      <3>9. QED
        BY <2>1, <2>2, <2>3, <3>1, <3>3, <3>6, <3>7, <3>8 DEF ChainInv
    <2>6. QED
      BY <2>4, <2>5
  <1>6. ASSUME NEW p \in Engines, HeadWritten(p)
        PROVE  ChainInv'
    <2>1. /\ UNCHANGED <<file, unterminated, up, last, intact>>
          /\ head' = [seq |-> last[p].seq, hash |-> last[p].hash]
          /\ anchoring' = [anchoring EXCEPT ![p] = FALSE]
      BY <1>6 DEF HeadWritten
    <2>2. CASE ~intact
      BY <2>1, <2>2 DEF ChainInv, AuditTypeOK
    <2>3. CASE intact
      <3>1. anchoring[p] /\ up[p] /\ file # <<>> /\ last[p] = EndOf(file)
        BY <1>6, <2>3 DEF HeadWritten, ChainInv
      <3>2. Len(file) \in DOMAIN file /\ Len(file) \in Nat
        BY <1>1, <3>1, EmptySeq, LenProperties DEF Lines
      <3>3. last[p] = file[Len(file)] /\ last[p].seq = Len(file)
        BY <2>3, <3>1, <3>2 DEF EndOf, ChainInv, Linked
      <3>4. /\ head'.seq <= Len(file')
            /\ head'.seq \in DOMAIN file' => file'[head'.seq].hash = head'.hash
        BY <2>1, <3>2, <3>3
      <3>5. \A q \in Engines : anchoring'[q] => anchoring[q]
        BY <2>1 DEF AuditTypeOK
      <3>6. QED
        BY <2>1, <2>3, <3>4, <3>5 DEF ChainInv
    <2>4. QED
      BY <2>2, <2>3
  <1>7. ASSUME NEW p \in Engines, HeadFailed(p)
        PROVE  ChainInv'
    BY <1>7 DEF HeadFailed, ChainInv, AuditTypeOK, disk
  <1>8. ASSUME NEW p \in Engines, Crash(p)
        PROVE  ChainInv'
    BY <1>8 DEF Crash, Stop, ChainInv, AuditTypeOK, disk, history
  <1>9. ASSUME NEW p \in Engines, CrashInWrite(p)
        PROVE  ChainInv'
    BY <1>9 DEF CrashInWrite, Stop, ChainInv, AuditTypeOK
  <1>10. CASE LoseTail
    BY <1>10 DEF LoseTail, ChainInv, memory
  <1>11. CASE Tamper
    BY <1>11 DEF Tamper, ChainInv, memory
  <1>12. CASE UNCHANGED audit
    BY <1>12 DEF audit, ChainInv
  <1>13. QED
    BY <1>2, <1>3, <1>4, <1>5, <1>6, <1>7, <1>8, <1>9, <1>10, <1>11, <1>12
       DEF AuditNext

\* With one engine on the data directory there is never a false alarm: the
\* chain verifies until a write is torn or the file is lost or edited,
\* whatever appends were refused, however often the head could not be written
\* and wherever the engine stopped.
THEOREM NoFalseAlarm ==
    ASSUME \A p, q \in Engines : p = q
    PROVE  AuditSpec => []ChainVerifies
  <1>1. AuditInit => ChainInv
    BY DEF AuditInit, ChainInv
  <1>2. AuditTypeOK /\ ChainInv /\ [AuditNext]_audit => ChainInv'
    BY NextChain
  <1>3. AuditTypeOK /\ ChainInv => ChainVerifies
    <2>1. SUFFICES ASSUME AuditTypeOK, ChainInv, intact
                   PROVE  Verify(file, head).ok
      BY DEF ChainVerifies
    <2>2. ~(Len(file) < head.seq)
      BY <2>1, LenProperties DEF ChainInv, AuditTypeOK
    <2>3. QED
      BY <2>1, <2>2, LinkedVerifies DEF ChainInv
  <1>4. QED
    BY <1>1, <1>2, <1>3, LogTyping, PTL DEF AuditSpec

-----------------------------------------------------------------------------
(* The sequence numbers, with one engine.                                  *)

\* An open Log remembers a number no smaller than any in the file, but for a
\* whole line whose newline is missing: the next write spoils that line.
GrowInv ==
    /\ SequenceGrows
    /\ \A p \in Engines : up[p] =>
         \A i \in Parseable(file) :
            file[i].seq <= last[p].seq \/ (unterminated /\ i = Len(file))

\* Open finds the greatest number.
LEMMA TailIsGreatest ==
    ASSUME file \in Lines, SequenceGrows
    PROVE  \A i \in Parseable(file) : file[i].seq <= TailOf(file).seq
  <1> SUFFICES ASSUME NEW i \in Parseable(file)
               PROVE  file[i].seq <= TailOf(file).seq
    OBVIOUS
  <1>1. Parseable(file) \subseteq 1 .. Len(file) /\ Len(file) \in Nat
    BY DEF Parseable, Lines
  <1> DEFINE m == Max(Parseable(file))
  <1>2. m \in Parseable(file) /\ m >= i
    BY <1>1, GreatestIndex
  <1>3. TailOf(file) = file[m]
    BY DEF TailOf
  <1> HIDE DEF m
  <1>4. file[i].seq \in Nat /\ i \in Nat /\ m \in Nat
    <2>1. file[i] \in Entry
      BY <1>1, ParsingLine DEF Parseable, Lines
    <2>2. QED
      BY <1>1, <1>2, <2>1, EntryFields
  <1>5. CASE i = m
    BY <1>3, <1>4, <1>5
  <1>6. CASE i < m
    <2>1. file[i].seq < file[m].seq
      BY <1>2, <1>6 DEF SequenceGrows
    <2>2. file[m].seq \in Nat
      BY <1>1, <1>2, ParsingLine, EntryFields DEF Parseable, Lines
    <2>3. QED
      BY <1>3, <1>4, <2>1, <2>2
  <1>7. QED
    BY <1>2, <1>4, <1>5, <1>6

\* A write of a line whose number is greater keeps the numbers in order.
LEMMA EmitGrows ==
    ASSUME file \in Lines, SequenceGrows, NEW m \in Nat,
           \A i \in Parseable(file) :
              file[i].seq <= m \/ (unterminated /\ i = Len(file)),
           NEW line \in Entry \cup {Garbled}, line.parses => line.seq > m,
           NEW newline \in BOOLEAN, Emit(line, newline)
    PROVE  /\ SequenceGrows'
           /\ \A i \in Parseable(file)' :
                 \/ file'[i].seq <= m
                 \/ i = Len(file') /\ file'[i] = line
  <1>1. Len(file) \in Nat /\ DOMAIN file = 1 .. Len(file)
    BY DEF Lines
  <1>2. ASSUME NEW i \in Parseable(file) PROVE file[i].seq \in Nat
    BY <1>1, ParsingLine, EntryFields DEF Parseable, Lines
  <1>3. CASE unterminated
    <2>1. file' = [file EXCEPT ![Len(file)] = Garbled]
      BY <1>3 DEF Emit
    <2>2. /\ DOMAIN file' = DOMAIN file
          /\ \A i \in DOMAIN file : i # Len(file) => file'[i] = file[i]
          /\ Len(file) \in DOMAIN file => file'[Len(file)] = Garbled
      BY <1>1, <2>1
    <2>3. ~ Garbled.parses
      BY DEF Garbled
    <2>4. \A i \in Parseable(file)' : i \in Parseable(file) /\ i # Len(file) /\ file'[i] = file[i]
      BY <1>1, <2>2, <2>3 DEF Parseable
    <2>5. SequenceGrows'
      BY <2>4 DEF SequenceGrows
    <2>6. QED
      BY <2>4, <2>5
  <1>4. CASE ~unterminated
    <2>1. file' = Append(file, line)
      BY <1>4 DEF Emit
    <2>2. /\ DOMAIN file' = 1 .. Len(file) + 1
          /\ Len(file') = Len(file) + 1
          /\ \A i \in 1 .. Len(file) : file'[i] = file[i]
          /\ file'[Len(file) + 1] = line
      BY <1>1, <2>1, AppendProperties DEF Lines
    <2>3. \A i \in Parseable(file)' :
            \/ i \in Parseable(file) /\ file'[i] = file[i] /\ i <= Len(file)
            \/ i = Len(file) + 1 /\ line.parses /\ file'[i] = line
      BY <1>1, <2>2 DEF Parseable
    <2>4. \A i \in Parseable(file) : file[i].seq <= m
      BY <1>4
    <2>5. ASSUME NEW i \in Parseable(file)', NEW j \in Parseable(file)', i < j
          PROVE  file'[i].seq < file'[j].seq
      <3>1. i \in Parseable(file) /\ file'[i] = file[i]
        <4>1. i \in 1 .. Len(file) + 1 /\ j \in 1 .. Len(file) + 1
          BY <2>2 DEF Parseable
        <4>2. QED
          BY <1>1, <2>3, <2>5, <4>1
      <3>2. CASE j \in Parseable(file) /\ file'[j] = file[j]
        BY <2>5, <3>1, <3>2 DEF SequenceGrows
      <3>3. CASE line.parses /\ file'[j] = line
        <4>1. line \in Entry
          BY <3>3, ParsingLine
        <4>2. line.seq \in Nat /\ line.seq > m /\ file[i].seq \in Nat /\ file[i].seq <= m
          BY <1>2, <2>4, <3>1, <3>3, <4>1, EntryFields
        <4>3. QED
          BY <3>1, <3>3, <4>2
      <3>4. QED
        BY <2>3, <3>2, <3>3
    <2>6. SequenceGrows'
      BY <2>5 DEF SequenceGrows
    <2>7. QED
      BY <2>2, <2>3, <2>4, <2>6
  <1>5. QED
    BY <1>3, <1>4

\* What is left of a file when a line before the last is removed.
LEMMA RemovedLine ==
    ASSUME NEW f \in Lines, NEW i \in 1 .. Len(f) - 1
    PROVE  /\ Len(RemoveAt(f, i)) = Len(f) - 1
           /\ DOMAIN RemoveAt(f, i) = 1 .. Len(f) - 1
           /\ \A j \in 1 .. Len(f) - 1 :
                 RemoveAt(f, i)[j] = IF j < i THEN f[j] ELSE f[j + 1]
  <1> DEFINE g == RemoveAt(f, i)
             n == Len(f)
             a == SubSeq(f, 1, i - 1)
             b == SubSeq(f, i + 1, Len(f))
  <1>1. n \in Nat /\ DOMAIN f = 1 .. n
    BY DEF Lines
  <1>2. /\ a \in Seq(Entry \cup {Garbled}) /\ Len(a) = i - 1
        /\ \A j \in 1 .. i - 1 : a[j] = f[j]
    BY <1>1, SubSeqProperties DEF Lines
  <1>3. /\ b \in Seq(Entry \cup {Garbled}) /\ Len(b) = n - i
        /\ \A j \in 1 .. n - i : b[j] = f[i + j]
    BY <1>1, SubSeqProperties DEF Lines
  <1>4. g = a \o b
    BY DEF RemoveAt
  <1>5. i \in 1 .. n - 1
    OBVIOUS
  <1> HIDE DEF a, b, g, n
  <1>6. Len(g) = n - 1 /\ DOMAIN g = 1 .. n - 1
    <2>1. g \in Lines /\ Len(g) = Len(a) + Len(b)
      BY <1>2, <1>3, <1>4, ConcatProperties DEF Lines
    <2>2. Len(a) + Len(b) = n - 1
      BY <1>1, <1>2, <1>3, <1>5
    <2>3. DOMAIN g = 1 .. Len(g)
      BY <2>1, LenProperties DEF Lines
    <2>4. QED
      BY <2>1, <2>2, <2>3
  <1>7. ASSUME NEW j \in 1 .. n - 1
        PROVE  g[j] = IF j < i THEN f[j] ELSE f[j + 1]
    <2>1. CASE j < i
      BY <1>1, <1>2, <1>3, <1>4, <1>5, <2>1, ConcatProperties
    <2>2. CASE ~ (j < i)
      <3>1. j - (i - 1) \in 1 .. n - i /\ i + (j - (i - 1)) = j + 1
        BY <1>1, <1>5, <2>2
      <3>2. g[j] = b[j - (i - 1)]
        BY <1>1, <1>2, <1>3, <1>4, <1>5, <2>2, ConcatProperties
      <3>3. QED
        BY <1>3, <2>2, <3>1, <3>2
    <2>3. QED
      BY <2>1, <2>2
  <1>8. QED
    BY <1>6, <1>7 DEF g, n

\* The line that ends up last when another is removed was the last.
LEMMA OldIndex ==
    ASSUME NEW n \in Nat, NEW i \in 1 .. n - 1, NEW j \in 1 .. n - 1,
           (IF j < i THEN j ELSE j + 1) = n
    PROVE  j = n - 1
  OBVIOUS

\* Editing a line's content, or removing one before the last, keeps them too.
LEMMA TamperGrows ==
    ASSUME AuditTypeOK, GrowInv, Tamper
    PROVE  GrowInv'
  <1>1. file \in Lines /\ Len(file) \in Nat /\ DOMAIN file = 1 .. Len(file)
    BY DEF AuditTypeOK, Lines
  <1>2. PICK i \in 1 .. Len(file) - 1 :
            file[i].parses /\ file' \in {[file EXCEPT ![i].at = 0], RemoveAt(file, i)}
    BY DEF Tamper
  <1>3. UNCHANGED <<unterminated, up, last>>
    BY DEF Tamper, memory
  <1>4. CASE file' = [file EXCEPT ![i].at = 0]
    <2>1. DOMAIN file' = DOMAIN file /\ Len(file') = Len(file)
      BY <1>1, <1>4
    <2>2. \A j \in DOMAIN file : j # i => file'[j] = file[j]
      BY <1>1, <1>4
    <2>3. file'[i] = [file[i] EXCEPT !.at = 0]
      BY <1>1, <1>2, <1>4
    <2>4. file[i] \in Entry
      BY <1>1, <1>2, ParsingLine DEF Lines
    <2>5. file'[i].seq = file[i].seq /\ file'[i].parses = file[i].parses
      BY <2>3, <2>4 DEF Entry
    <2>6. \A j \in DOMAIN file : file'[j].seq = file[j].seq /\ file'[j].parses = file[j].parses
      BY <2>2, <2>5
    <2>7. Parseable(file)' = Parseable(file)
      BY <2>1, <2>6 DEF Parseable
    <2>8. \A j \in Parseable(file) : file'[j].seq = file[j].seq
      BY <2>6 DEF Parseable
    <2>9. SequenceGrows'
      BY <2>7, <2>8 DEF GrowInv, SequenceGrows
    <2>10. QED
      BY <1>3, <2>1, <2>7, <2>8, <2>9 DEF GrowInv
  <1>5. CASE file' = RemoveAt(file, i)
    <2>1. /\ Len(file') = Len(file) - 1
          /\ DOMAIN file' = 1 .. Len(file) - 1
          /\ \A j \in 1 .. Len(file) - 1 :
                file'[j] = IF j < i THEN file[j] ELSE file[j + 1]
      BY <1>1, <1>2, <1>5, RemovedLine
    <2> DEFINE old(j) == IF j < i THEN j ELSE j + 1
    <2>2. \A j \in Parseable(file)' :
            /\ j \in 1 .. Len(file) - 1 /\ old(j) \in Parseable(file)
            /\ file'[j] = file[old(j)]
      BY <1>1, <2>1 DEF Parseable
    <2>3. \A j, k \in 1 .. Len(file) - 1 : j < k => old(j) < old(k)
      BY <1>1
    <2>4. ASSUME NEW j \in 1 .. Len(file) - 1, old(j) = Len(file)
          PROVE  j = Len(file')
      <3>1. Len(file) \in Nat /\ Len(file') = Len(file) - 1
        BY <1>1, <2>1
      <3>2. j = Len(file) - 1
        BY <2>4, <3>1, OldIndex
      <3>3. QED
        BY <3>1, <3>2
    <2> HIDE DEF old
    <2>5. SequenceGrows'
      BY <2>2, <2>3 DEF GrowInv, SequenceGrows
    <2>6. QED
      BY <1>3, <2>2, <2>4, <2>5 DEF GrowInv
  <1>6. QED
    BY <1>2, <1>4, <1>5

LEMMA NextGrows ==
    ASSUME \A p, q \in Engines : p = q,
           AuditTypeOK, GrowInv, [AuditNext]_audit
    PROVE  GrowInv'
  <1>1. file \in Lines
    BY DEF AuditTypeOK, Lines
  <1>2. ASSUME NEW p \in Engines, Open(p)
        PROVE  GrowInv'
    <2>1. \A i \in Parseable(file) : file[i].seq <= TailOf(file).seq
      BY <1>1, TailIsGreatest DEF GrowInv
    <2>2. /\ file' = file /\ unterminated' = unterminated
          /\ \A q \in Engines : last'[q] = TailOf(file)
      BY <1>2 DEF Open, AuditTypeOK, disk
    <2>3. QED
      BY <2>1, <2>2 DEF GrowInv, SequenceGrows
  <1>3. ASSUME NEW p \in Engines, CanAppend(p), NEW line \in Entry \cup {Garbled},
               line = NextEntry(p) \/ line = Garbled,
               NEW newline \in BOOLEAN, Emit(line, newline)
        PROVE  /\ SequenceGrows'
               /\ \A i \in Parseable(file)' :
                     \/ file'[i].seq <= last[p].seq
                     \/ i = Len(file') /\ file'[i] = line
    <2>1. last[p].seq \in Nat /\ up[p]
      BY <1>3, EntryFields DEF AuditTypeOK, CanAppend
    <2>2. line.parses => line.seq > last[p].seq
      <3>1. NextEntry(p).seq = last[p].seq + 1
        BY DEF NextEntry
      <3>2. ~ Garbled.parses
        BY DEF Garbled
      <3>3. QED
        BY <1>3, <2>1, <3>1, <3>2
    <2>3. /\ SequenceGrows
          /\ \A i \in Parseable(file) :
                file[i].seq <= last[p].seq \/ (unterminated /\ i = Len(file))
      BY <2>1 DEF GrowInv
    <2>4. QED
      BY <1>1, <1>3, <2>1, <2>2, <2>3, EmitGrows
  <1>4. Garbled \in Entry \cup {Garbled} /\ ~ Garbled.parses
    BY DEF Garbled
  <1>5. ASSUME NEW p \in Engines, AppendRefused(p)
        PROVE  GrowInv'
    BY <1>5 DEF AppendRefused, GrowInv, SequenceGrows, disk, memory
  <1>6. ASSUME NEW p \in Engines, AppendShort(p)
        PROVE  GrowInv'
    <2>1. CanAppend(p) /\ UNCHANGED <<up, last>>
      BY <1>6 DEF AppendShort, memory
    <2>2. NextEntry(p) \in Entry
      BY <2>1, NextIsEntry
    <2>3. PICK line \in {NextEntry(p), Garbled} : Emit(line, FALSE)
      BY <1>6 DEF AppendShort
    <2>4. line \in Entry \cup {Garbled} /\ FALSE \in BOOLEAN
      BY <2>2
    <2>5. /\ SequenceGrows'
          /\ \A i \in Parseable(file)' :
                \/ file'[i].seq <= last[p].seq
                \/ i = Len(file') /\ file'[i] = line
      BY <1>3, <2>1, <2>3, <2>4
    <2>6. unterminated'
      BY <2>3 DEF Emit
    <2>7. \A q \in Engines : last'[q] = last[p]
      BY <2>1
    <2>8. QED
      BY <2>5, <2>6, <2>7 DEF GrowInv
  <1>7. ASSUME NEW p \in Engines, AppendWritten(p)
        PROVE  GrowInv'
    <2>1. CanAppend(p) /\ Emit(NextEntry(p), TRUE)
      BY <1>7 DEF AppendWritten
    <2>2. NextEntry(p) \in Entry
      BY <2>1, NextIsEntry
    <2>3. /\ SequenceGrows'
          /\ \A i \in Parseable(file)' :
                \/ file'[i].seq <= last[p].seq
                \/ i = Len(file') /\ file'[i] = NextEntry(p)
      BY <1>3, <2>1, <2>2
    <2>4. \A q \in Engines : last'[q] = NextEntry(p)
      BY <1>7 DEF AppendWritten, AuditTypeOK
    <2>5. /\ NextEntry(p).seq = last[p].seq + 1
          /\ last[p].seq \in Nat
      BY EntryFields DEF NextEntry, AuditTypeOK
    <2>6. file' \in Lines
      BY <1>1, <2>1, <2>2, EmitLines
    <2>7. \A i \in Parseable(file)' : file'[i].seq \in Nat
      BY <2>6, ParsingLine, EntryFields DEF Parseable, Lines
    <2>8. \A i \in Parseable(file)' : file'[i].seq <= NextEntry(p).seq
      BY <2>3, <2>5, <2>7
    <2>9. QED
      BY <2>3, <2>4, <2>8 DEF GrowInv
  <1>8. ASSUME NEW p \in Engines, HeadWritten(p) \/ HeadFailed(p)
        PROVE  GrowInv'
    BY <1>8 DEF HeadWritten, HeadFailed, GrowInv, SequenceGrows, disk
  <1>9. ASSUME NEW p \in Engines, Crash(p)
        PROVE  GrowInv'
    <2>1. file' = file /\ unterminated' = unterminated /\ \A q \in Engines : ~ up'[q]
      BY <1>9 DEF Crash, Stop, AuditTypeOK, disk
    <2>2. QED
      BY <2>1 DEF GrowInv, SequenceGrows
  <1>10. ASSUME NEW p \in Engines, CrashInWrite(p)
         PROVE  GrowInv'
    <2>1. SequenceGrows'
      BY <1>3, <1>4, <1>10 DEF CrashInWrite
    <2>2. \A q \in Engines : ~ up'[q]
      BY <1>10 DEF CrashInWrite, Stop, AuditTypeOK
    <2>3. QED
      BY <2>1, <2>2 DEF GrowInv
  <1>11. CASE LoseTail
    <2>1. PICK k \in 0 .. Len(file) - 1 : file' = SubSeq(file, 1, k)
      BY <1>11 DEF LoseTail
    <2>2. Len(file) \in Nat /\ DOMAIN file = 1 .. Len(file)
      BY <1>1 DEF Lines
    <2>3. DOMAIN file' = 1 .. k /\ \A i \in 1 .. k : file'[i] = file[i]
      BY <1>1, <2>1, <2>2, SubSeqProperties DEF Lines
    <2>4. \A i \in Parseable(file)' : i \in Parseable(file) /\ file'[i] = file[i]
      BY <2>2, <2>3 DEF Parseable
    <2>5. SequenceGrows'
      BY <2>4 DEF GrowInv, SequenceGrows
    <2>6. \A q \in Engines : ~ up'[q]
      BY <1>11 DEF LoseTail, memory
    <2>7. QED
      BY <2>5, <2>6 DEF GrowInv
  <1>12. CASE Tamper
    BY <1>12, TamperGrows
  <1>13. CASE UNCHANGED audit
    BY <1>13 DEF audit, GrowInv, SequenceGrows
  <1>14. QED
    BY <1>2, <1>5, <1>6, <1>7, <1>8, <1>9, <1>10, <1>11, <1>12, <1>13
       DEF AuditNext

\* With one engine a number is never used twice in a log: numbers grow down
\* the file over any torn, lost, edited and removed lines, crashes and reopens.
THEOREM NumbersGrow ==
    ASSUME \A p, q \in Engines : p = q
    PROVE  AuditSpec => []SequenceGrows
  <1>1. AuditInit => GrowInv
    BY DEF AuditInit, GrowInv, SequenceGrows, Parseable
  <1>2. AuditTypeOK /\ GrowInv /\ [AuditNext]_audit => GrowInv'
    BY NextGrows
  <1>3. GrowInv => SequenceGrows
    BY DEF GrowInv
  <1>4. QED
    BY <1>1, <1>2, <1>3, LogTyping, PTL DEF AuditSpec

-----------------------------------------------------------------------------
(* What was acknowledged, with one engine.                                 *)

AllLinked(f) == \A i \in DOMAIN f : Linked(f, i)
PrefixLinked(f, n) == n <= Len(f) /\ \A i \in 1 .. n : Linked(f, i)
PrefixAts(f, n) == {f[i].at : i \in 1 .. n}

\* The last instant a hash lists is not after t.
NamesUpTo(h, t) == h = NoHash \/ h[Len(h)][2] <= t

\* Until the tail is lost, a chain that is whole up to the head holds every
\* acknowledged entry up to the head.  After that the head does not move: a
\* line written where it points bears an instant its hash does not list.
HistoryInv ==
    /\ lost # "no" => ~intact
    /\ lost = "yes" => \A p \in Engines : ~anchoring[p]
    /\ unterminated => file # <<>>
    /\ intact => \A i \in DOMAIN file : file[i].at # 0
    /\ NamesUpTo(head.hash, clock)
    /\ \A p \in Engines : anchoring[p] => NamesUpTo(last[p].hash, clock)

\* A whole chain reaches n, and holds the instants S up to there.
Covers(f, n, S) ==
    /\ AllLinked(f) => n <= Len(f)
    /\ PrefixLinked(f, n) => S \subseteq PrefixAts(f, n)

KeptInv ==
    lost = "no" =>
        /\ Covers(file, head.seq, acked)
        /\ \A p \in Engines : anchoring[p] => Covers(file, last[p].seq, acked \cup {last[p].at})

LostInv ==
    /\ lost = "yes"
    /\ PrefixLinked(file, head.seq)
    /\ head.seq \in DOMAIN file => file[head.seq].hash = head.hash
    => acked \subseteq PrefixAts(file, head.seq)

AckedInv == HistoryInv /\ KeptInv /\ LostInv

\* Whether a line is linked depends on it and the line before.
LEMMA SamePrefix ==
    ASSUME NEW f, NEW g, NEW n \in Nat, n <= Len(f), n <= Len(g),
           \A i \in 1 .. n : g[i] = f[i]
    PROVE  /\ PrefixLinked(g, n) <=> PrefixLinked(f, n)
           /\ PrefixAts(g, n) = PrefixAts(f, n)
  <1>1. ASSUME NEW i \in 1 .. n PROVE Linked(g, i) <=> Linked(f, i)
    <2>1. g[i] = f[i]
      OBVIOUS
    <2>2. i # 1 => g[i - 1] = f[i - 1]
      OBVIOUS
    <2>3. HashBefore(g, i) = HashBefore(f, i)
      BY <2>2 DEF HashBefore
    <2>4. QED
      BY <2>1, <2>3 DEF Linked
  <1>2. QED
    BY <1>1 DEF PrefixLinked, PrefixAts

LEMMA GarbledUnlinked ==
    ASSUME NEW f, NEW i, f[i] = Garbled
    PROVE  ~Linked(f, i)
  BY DEF Linked, Garbled

\* What a write does to the file: it spoils the line at its end, or adds one.
LEMMA EmitShape ==
    ASSUME file \in Lines, unterminated => file # <<>>,
           NEW line \in Entry \cup {Garbled}, NEW newline \in BOOLEAN, Emit(line, newline)
    PROVE  /\ \A i \in 1 .. Len(file) - 1 : file'[i] = file[i]
           /\ Len(file) \in Nat /\ DOMAIN file = 1 .. Len(file)
           /\ Len(file') \in Nat /\ DOMAIN file' = 1 .. Len(file')
           /\ file' # <<>>
           /\ \/ /\ unterminated /\ Len(file) >= 1 /\ Len(file') = Len(file)
                 /\ file'[Len(file)] = Garbled
              \/ /\ ~unterminated /\ Len(file') = Len(file) + 1
                 /\ file'[Len(file) + 1] = line
                 /\ \A i \in 1 .. Len(file) : file'[i] = file[i]
  <1>1. PICK m \in Nat : m = Len(file) /\ DOMAIN file = 1 .. m
    BY DEF Lines
  <1>2. PICK k \in Nat : k = Len(file') /\ DOMAIN file' = 1 .. k
    BY EmitLines DEF Lines
  <1>3. CASE unterminated
    <2>1. file' = [file EXCEPT ![m] = Garbled]
      BY <1>1, <1>3 DEF Emit
    <2>2. m >= 1
      BY <1>1, <1>3, EmptySeq, LenProperties DEF Lines
    <2>3. /\ DOMAIN file' = 1 .. m /\ file'[m] = Garbled
          /\ \A i \in 1 .. m : i # m => file'[i] = file[i]
      BY <1>1, <2>1, <2>2
    <2>4. k = m
      BY <1>2, <2>2, <2>3
    <2>5. \A i \in 1 .. m - 1 : file'[i] = file[i]
      BY <2>3
    <2>6. file' # <<>>
      BY <2>2, <2>3
    <2>7. QED
      BY <1>1, <1>2, <1>3, <2>2, <2>3, <2>4, <2>5, <2>6, Zenon
  <1>4. CASE ~unterminated
    <2>1. file' = Append(file, line)
      BY <1>4 DEF Emit
    <2>2. /\ k = m + 1 /\ file'[m + 1] = line
          /\ \A i \in 1 .. m : file'[i] = file[i]
      BY <1>1, <1>2, <2>1, AppendProperties DEF Lines
    <2>3. file' # <<>>
      BY <1>2, <2>2
    <2>4. \A i \in 1 .. m - 1 : file'[i] = file[i]
      BY <2>2
    <2>5. QED
      BY <1>1, <1>2, <1>4, <2>2, <2>3, <2>4, Zenon
  <1>5. QED
    BY <1>3, <1>4

\* A write made g of f: it spoiled the last of m lines, or put one more after them.
Wrote(f, g, line, m, k) ==
    /\ Len(f) = m /\ DOMAIN f = 1 .. m /\ Len(g) = k /\ DOMAIN g = 1 .. k
    /\ \A i \in 1 .. m - 1 : g[i] = f[i]
    /\ \/ m >= 1 /\ k = m /\ g[m] = Garbled
       \/ k = m + 1 /\ g[m + 1] = line /\ \A i \in 1 .. m : g[i] = f[i]

\* The chain up to n is what it was.
KeptTo(f, g, n) ==
    /\ PrefixLinked(f, n) /\ PrefixAts(g, n) = PrefixAts(f, n)
    /\ n \in DOMAIN g => n \in DOMAIN f /\ g[n] = f[n]

\* The chain was whole and goes on with a line at n.
GrownTo(f, g, line, n) ==
    /\ n = Len(f) + 1 /\ n = Len(g) /\ AllLinked(f) /\ PrefixLinked(f, Len(f))
    /\ \A i \in 1 .. Len(f) : g[i] = f[i]
    /\ g[n] = line /\ Linked(g, n)

\* A chain that is whole up to n after a write was so before, or ends with it.
LEMMA WrotePrefix ==
    ASSUME NEW f, NEW g, NEW line, NEW m \in Nat, NEW k \in Nat, NEW n \in Nat,
           Wrote(f, g, line, m, k), PrefixLinked(g, n)
    PROVE  KeptTo(f, g, n) \/ GrownTo(f, g, line, n)
  <1>0. /\ Len(f) = m /\ DOMAIN f = 1 .. m /\ Len(g) = k /\ DOMAIN g = 1 .. k
        /\ \A i \in 1 .. m - 1 : g[i] = f[i]
        /\ \/ m >= 1 /\ k = m /\ g[m] = Garbled
           \/ k = m + 1 /\ g[m + 1] = line /\ \A i \in 1 .. m : g[i] = f[i]
    BY DEF Wrote
  <1>1. n <= k /\ \A i \in 1 .. n : Linked(g, i)
    BY <1>0 DEF PrefixLinked
  <1>2. ASSUME n <= m, n <= k, \A i \in 1 .. n : g[i] = f[i]
        PROVE  KeptTo(f, g, n)
    <2>1. PrefixLinked(f, n) /\ PrefixAts(g, n) = PrefixAts(f, n)
      BY <1>0, <1>2, SamePrefix
    <2>2. n \in 1 .. k => n \in 1 .. m /\ g[n] = f[n]
      BY <1>2
    <2>3. QED
      BY <1>0, <2>1, <2>2 DEF KeptTo
  <1>3. CASE m >= 1 /\ k = m /\ g[m] = Garbled
    <2>1. ~Linked(g, m)
      BY <1>3, GarbledUnlinked
    <2>2. ~(m \in 1 .. n)
      BY <1>1, <2>1
    <2>3. n <= m /\ n <= k /\ \A i \in 1 .. n : g[i] = f[i]
      BY <1>0, <1>1, <1>3, <2>2
    <2>4. QED
      BY <1>2, <2>3
  <1>4. CASE k = m + 1 /\ g[m + 1] = line /\ \A i \in 1 .. m : g[i] = f[i]
    <2>1. CASE n <= m
      <3>1. n <= k /\ \A i \in 1 .. n : g[i] = f[i]
        BY <1>4, <2>1
      <3>2. QED
        BY <1>2, <2>1, <3>1
    <2>2. CASE ~(n <= m)
      <3>1. n = m + 1
        BY <1>1, <1>4, <2>2
      <3>2. Linked(g, n) /\ g[n] = line
        BY <1>1, <1>4, <3>1
      <3>3. m <= Len(f) /\ m <= Len(g)
        BY <1>0, <1>4
      <3>4. PrefixLinked(g, m)
        BY <1>1, <3>1, <3>3 DEF PrefixLinked
      <3>5. PrefixLinked(f, m)
        BY <1>4, <3>3, <3>4, SamePrefix
      <3>6. AllLinked(f)
        BY <1>0, <3>5 DEF PrefixLinked, AllLinked
      <3>7. QED
        BY <1>0, <1>4, <3>1, <3>2, <3>5, <3>6 DEF GrownTo
    <2>3. QED
      BY <2>1, <2>2
  <1>5. QED
    BY <1>0, <1>3, <1>4

LEMMA EmitPrefix ==
    ASSUME file \in Lines, unterminated => file # <<>>,
           NEW line \in Entry \cup {Garbled}, NEW newline \in BOOLEAN, Emit(line, newline),
           NEW n \in Nat, PrefixLinked(file', n)
    PROVE  KeptTo(file, file', n) \/ GrownTo(file, file', line, n)
  <1>1. Len(file) \in Nat /\ Len(file') \in Nat
    BY EmitShape
  <1>2. Wrote(file, file', line, Len(file), Len(file'))
    BY EmitShape, Zenon DEF Wrote
  <1>3. QED
    BY <1>1, <1>2, WrotePrefix, Zenon

\* An edited or removed line breaks a link before the end of the file.
LEMMA TamperBreaks ==
    ASSUME AuditTypeOK, ChainInv, AckedInv, Tamper
    PROVE  \E i \in 1 .. Len(file) - 1 :
              /\ i \in DOMAIN file' /\ ~Linked(file', i)
              /\ \A j \in 1 .. i - 1 : file'[j] = file[j]
  <1>1. file \in Lines /\ Len(file) \in Nat /\ DOMAIN file = 1 .. Len(file)
    BY DEF AuditTypeOK, Lines
  <1>2. intact
    BY DEF Tamper
  <1>3. PICK i \in 1 .. Len(file) - 1 :
            file[i].parses /\ file' \in {[file EXCEPT ![i].at = 0], RemoveAt(file, i)}
    BY DEF Tamper
  <1>4. /\ i \in DOMAIN file /\ i + 1 \in DOMAIN file
        /\ Linked(file, i) /\ Linked(file, i + 1) /\ file[i].at # 0
    BY <1>1, <1>2 DEF ChainInv, AckedInv, HistoryInv
  <1>5. CASE file' = [file EXCEPT ![i].at = 0]
    <2>1. file[i] \in Entry
      BY <1>1, <1>3, <1>4, ParsingLine DEF Lines
    <2>2. file'[i] = [file[i] EXCEPT !.at = 0]
      BY <1>4, <1>5
    <2>3. /\ file'[i].seq = file[i].seq /\ file'[i].prev = file[i].prev
          /\ file'[i].hash = file[i].hash /\ file'[i].at = 0
      BY <2>1, <2>2 DEF Entry
    <2>4. hashOf(file'[i]) # file'[i].hash
      <3>1. /\ file[i].hash = Append(file[i].prev, <<file[i].seq, file[i].at>>)
            /\ hashOf(file'[i]) = Append(file[i].prev, <<file[i].seq, 0>>)
        BY <1>4, <2>3 DEF Linked, hashOf
      <3>2. file[i].prev \in Hashes /\ file[i].seq \in Nat /\ file[i].at \in Nat
        BY <2>1, EntryFields, MaxAppendsAssumption DEF Instants
      <3>3. /\ file[i].hash[Len(file[i].prev) + 1] = <<file[i].seq, file[i].at>>
            /\ hashOf(file'[i])[Len(file[i].prev) + 1] = <<file[i].seq, 0>>
        BY <3>1, <3>2, AppendProperties DEF Hashes
      <3>4. QED
        BY <1>4, <2>3, <3>3
    <2>5. ~Linked(file', i)
      BY <2>4 DEF Linked
    <2>6. \A j \in 1 .. i - 1 : file'[j] = file[j]
      BY <1>1, <1>5
    <2>7. i \in DOMAIN file'
      BY <1>4, <1>5
    <2>8. QED
      BY <2>5, <2>6, <2>7
  <1>6. CASE file' = RemoveAt(file, i)
    <2>1. /\ DOMAIN file' = 1 .. Len(file) - 1
          /\ \A j \in 1 .. Len(file) - 1 :
                file'[j] = IF j < i THEN file[j] ELSE file[j + 1]
      BY <1>1, <1>6, RemovedLine
    <2>2. file'[i] = file[i + 1] /\ file[i + 1].seq = i + 1
      BY <1>1, <1>4, <2>1 DEF Linked
    <2>3. ~Linked(file', i)
      BY <1>1, <2>2 DEF Linked
    <2>4. \A j \in 1 .. i - 1 : file'[j] = file[j]
      BY <1>1, <2>1
    <2>5. QED
      BY <2>1, <2>3, <2>4
  <1>7. QED
    BY <1>3, <1>5, <1>6

LEMMA AllIsPrefix ==
    ASSUME NEW f, Len(f) \in Nat, DOMAIN f = 1 .. Len(f)
    PROVE  AllLinked(f) <=> PrefixLinked(f, Len(f))
  BY DEF AllLinked, PrefixLinked

LEMMA PrefixGrows ==
    ASSUME NEW f, NEW g, NEW m \in Nat, NEW n \in Nat, m <= n,
           \A i \in 1 .. m : g[i] = f[i]
    PROVE  PrefixAts(f, m) \subseteq PrefixAts(g, n)
  <1>1. ASSUME NEW i \in 1 .. m PROVE f[i].at \in {g[j].at : j \in 1 .. n}
    <2>1. i \in 1 .. n /\ g[i] = f[i]
      OBVIOUS
    <2>2. QED
      BY <2>1
  <1>2. QED
    BY <1>1 DEF PrefixAts

LEMMA EmitLengths ==
    ASSUME file \in Lines, unterminated => file # <<>>,
           NEW line \in Entry \cup {Garbled}, NEW newline \in BOOLEAN, Emit(line, newline)
    PROVE  /\ Len(file) \in Nat /\ DOMAIN file = 1 .. Len(file)
           /\ Len(file') \in Nat /\ DOMAIN file' = 1 .. Len(file')
           /\ Len(file) <= Len(file')
  <1>1. PICK m \in Nat, k \in Nat : m = Len(file) /\ k = Len(file')
    BY EmitShape
  <1>2. k = m \/ k = m + 1
    BY <1>1, EmitShape, Zenon
  <1>3. m <= k
    BY <1>2
  <1>4. Len(file) <= Len(file')
    BY <1>1, <1>3, Zenon
  <1>5. QED
    BY <1>4, EmitShape, Zenon

\* What the chain holds up to n it holds after a write.
LEMMA EmitHolds ==
    ASSUME file \in Lines, unterminated => file # <<>>,
           NEW line \in Entry \cup {Garbled}, NEW newline \in BOOLEAN, Emit(line, newline),
           NEW n \in Nat, NEW S, Covers(file, n, S)
    PROVE  Covers(file', n, S)
  <1>1. /\ Len(file) \in Nat /\ DOMAIN file = 1 .. Len(file)
        /\ Len(file') \in Nat /\ DOMAIN file' = 1 .. Len(file')
        /\ Len(file) <= Len(file')
    BY EmitLengths
  <1>2. AllLinked(file') => AllLinked(file)
    <2> SUFFICES ASSUME AllLinked(file') PROVE AllLinked(file)
      OBVIOUS
    <2>1. PrefixLinked(file', Len(file'))
      BY <1>1, AllIsPrefix
    <2>2. KeptTo(file, file', Len(file')) \/ GrownTo(file, file', line, Len(file'))
      BY <1>1, <2>1, EmitPrefix
    <2>3. CASE KeptTo(file, file', Len(file'))
      BY <1>1, <2>3 DEF KeptTo, PrefixLinked, AllLinked
    <2>4. CASE GrownTo(file, file', line, Len(file'))
      BY <2>4 DEF GrownTo
    <2>5. QED
      BY <2>2, <2>3, <2>4
  <1>3. AllLinked(file') => n <= Len(file')
    BY <1>1, <1>2 DEF Covers
  <1>4. ASSUME PrefixLinked(file', n) PROVE S \subseteq PrefixAts(file', n)
    <2>1. KeptTo(file, file', n) \/ GrownTo(file, file', line, n)
      BY <1>4, EmitPrefix
    <2>2. CASE KeptTo(file, file', n)
      BY <2>2 DEF KeptTo, Covers
    <2>3. CASE GrownTo(file, file', line, n)
      BY <1>1, <2>3 DEF GrownTo, Covers
    <2>4. QED
      BY <2>1, <2>2, <2>3
  <1>5. QED
    BY <1>3, <1>4 DEF Covers

\* The hash of the next entry lists the next instant last.
LEMMA NextHash ==
    ASSUME AuditTypeOK, NEW p \in Engines, CanAppend(p)
    PROVE  LET h == NextEntry(p).hash
           IN  h # NoHash /\ h[Len(h)][2] = clock + 1
  <1> DEFINE q == last[p].hash
             e == <<last[p].seq + 1, clock + 1>>
  <1>1. q \in Hashes /\ e \in Nat \X Nat
    <2>1. last[p] \in Entry
      BY DEF AuditTypeOK
    <2>2. q \in Hashes /\ last[p].seq + 1 \in Nat
      BY <2>1, EntryFields
    <2>3. clock + 1 \in Nat
      BY NextIsEntry, MaxAppendsAssumption DEF Instants
    <2>4. QED
      BY <2>2, <2>3
  <1>2. NextEntry(p).hash = Append(q, e)
    BY DEF NextEntry, hashOf
  <1>3. e[2] = clock + 1
    OBVIOUS
  <1> HIDE DEF q, e
  <1>4. Append(q, e) # <<>> /\ Append(q, e)[Len(Append(q, e))] = e
    <2>1. Len(q) \in Nat /\ Len(Append(q, e)) = Len(q) + 1 /\ Append(q, e)[Len(q) + 1] = e
      BY <1>1, AppendProperties, LenProperties DEF Hashes
    <2>2. QED
      BY <2>1
  <1>5. QED
    BY <1>2, <1>3, <1>4 DEF NoHash

\* An entry that was written whole is where its number says, or a link is broken.
LEMMA WrittenHolds ==
    ASSUME AuditTypeOK, GrowInv, AckedInv, lost = "no",
           NEW p \in Engines, CanAppend(p), Emit(NextEntry(p), TRUE)
    PROVE  Covers(file', last[p].seq + 1, acked \cup {clock + 1})
  <1> DEFINE s == last[p].seq + 1
  <1>1. /\ file \in Lines /\ (unterminated => file # <<>>) /\ NextEntry(p) \in Entry
        /\ s \in Nat /\ last[p].seq \in Nat /\ s >= 1 /\ s = last[p].seq + 1 /\ head.seq \in Nat
    <2>1. last[p] \in Entry
      BY DEF AuditTypeOK
    <2>2. last[p].seq \in Nat
      BY <2>1, EntryFields
    <2>3. QED
      BY <2>2, NextIsEntry DEF AuditTypeOK, Lines, AckedInv, HistoryInv
  <1>2. NextEntry(p).seq = s /\ NextEntry(p).at = clock + 1
    BY DEF NextEntry
  <1>3. PICK m \in Nat, k \in Nat : m = Len(file) /\ k = Len(file')
    BY <1>1, EmitShape
  <1>4. /\ DOMAIN file = 1 .. m /\ DOMAIN file' = 1 .. k
        /\ \/ unterminated /\ m >= 1 /\ k = m /\ file'[m] = Garbled
           \/ ~unterminated /\ k = m + 1
    BY <1>1, <1>3, EmitShape, Zenon
  <1>5. Covers(file, head.seq, acked)
    BY DEF AckedInv, KeptInv
  <1> HIDE DEF s
  <1>6. ASSUME AllLinked(file') PROVE s <= Len(file')
    <2>1. PrefixLinked(file', k)
      BY <1>3, <1>4, <1>6 DEF PrefixLinked, AllLinked
    <2>2. KeptTo(file, file', k) \/ GrownTo(file, file', NextEntry(p), k)
      BY <1>1, <2>1, EmitPrefix
    <2>3. k >= 1
      BY <1>4
    <2>4. ~ KeptTo(file, file', k)
      <3> SUFFICES ASSUME KeptTo(file, file', k) PROVE FALSE
        OBVIOUS
      <3>1. k \in 1 .. k
        BY <2>3
      <3>2. k \in 1 .. m
        BY <1>4, <3>1 DEF KeptTo
      <3>3. k = m /\ file'[k] = Garbled
        BY <1>4, <3>2
      <3>4. ~Linked(file', k)
        BY <3>3, GarbledUnlinked
      <3>5. QED
        BY <1>4, <1>6, <3>1, <3>4 DEF AllLinked
    <2>5. NextEntry(p).seq = k
      BY <2>2, <2>4 DEF GrownTo, Linked
    <2>6. QED
      BY <1>2, <1>3, <2>5
  <1>7. ASSUME PrefixLinked(file', s) PROVE acked \cup {clock + 1} \subseteq PrefixAts(file', s)
    <2>1. KeptTo(file, file', s) \/ GrownTo(file, file', NextEntry(p), s)
      BY <1>1, <1>7, EmitPrefix
    <2>2. ~ KeptTo(file, file', s)
      <3> SUFFICES ASSUME KeptTo(file, file', s) PROVE FALSE
        OBVIOUS
      <3>1. s <= m /\ Linked(file, s) /\ Linked(file', s)
        BY <1>1, <1>3, <1>7 DEF KeptTo, PrefixLinked
      <3>2. s \in 1 .. m
        BY <1>1, <3>1
      <3>3. s \in Parseable(file) /\ file[s].seq = s
        BY <1>4, <3>1, <3>2 DEF Parseable, Linked
      <3>4. ~ (file[s].seq <= last[p].seq)
        BY <1>1, <3>3
      <3>5. unterminated /\ s = m
        BY <1>3, <3>3, <3>4 DEF GrowInv, CanAppend
      <3>6. file'[s] = Garbled
        BY <1>4, <3>5
      <3>7. QED
        BY <3>1, <3>6, GarbledUnlinked
    <2>3. GrownTo(file, file', NextEntry(p), s)
      BY <2>1, <2>2
    <2>4. /\ s = m + 1 /\ AllLinked(file) /\ PrefixLinked(file, m)
          /\ \A i \in 1 .. m : file'[i] = file[i]
          /\ file'[s] = NextEntry(p)
      BY <1>3, <2>3 DEF GrownTo
    <2>5. head.seq <= m
      BY <1>3, <1>5, <2>4 DEF Covers
    <2>6. PrefixLinked(file, head.seq)
      BY <1>1, <1>3, <2>4, <2>5 DEF PrefixLinked
    <2>7. acked \subseteq PrefixAts(file, head.seq)
      BY <1>5, <2>6 DEF Covers
    <2>8. head.seq <= s /\ \A i \in 1 .. head.seq : file'[i] = file[i]
      BY <1>1, <2>4, <2>5
    <2>9. PrefixAts(file, head.seq) \subseteq PrefixAts(file', s)
      BY <1>1, <2>8, PrefixGrows
    <2>10. clock + 1 \in PrefixAts(file', s)
      <3>1. s \in 1 .. s /\ file'[s].at = clock + 1
        BY <1>1, <1>2, <2>4
      <3>2. QED
        BY <3>1 DEF PrefixAts
    <2>11. QED
      BY <2>7, <2>9, <2>10
  <1>8. QED
    BY <1>6, <1>7 DEF Covers, s

\* A line written after the tail was lost does not pass for the one the head names.
LEMMA EmitLost ==
    ASSUME AuditTypeOK, AckedInv, lost = "yes", NEW p \in Engines, CanAppend(p),
           NEW line \in Entry \cup {Garbled}, line = NextEntry(p) \/ line = Garbled,
           NEW newline \in BOOLEAN, Emit(line, newline),
           PrefixLinked(file', head.seq),
           head.seq \in DOMAIN file' => file'[head.seq].hash = head.hash
    PROVE  acked \subseteq PrefixAts(file', head.seq)
  <1>1. file \in Lines /\ (unterminated => file # <<>>) /\ head.seq \in Nat /\ clock \in Nat
    BY MaxAppendsAssumption DEF AuditTypeOK, Lines, AckedInv, HistoryInv, Instants
  <1>2. /\ Len(file) \in Nat /\ DOMAIN file = 1 .. Len(file)
        /\ Len(file') \in Nat /\ DOMAIN file' = 1 .. Len(file') /\ Len(file) <= Len(file')
    BY <1>1, EmitLengths
  <1>3. KeptTo(file, file', head.seq) \/ GrownTo(file, file', line, head.seq)
    BY <1>1, EmitPrefix
  <1>4. CASE KeptTo(file, file', head.seq)
    <2>1. head.seq \in DOMAIN file => head.seq \in DOMAIN file'
      BY <1>1, <1>2
    <2>2. head.seq \in DOMAIN file => file[head.seq].hash = head.hash
      BY <1>4, <2>1 DEF KeptTo
    <2>3. QED
      BY <1>4, <2>2 DEF KeptTo, AckedInv, LostInv
  <1>5. CASE GrownTo(file, file', line, head.seq)
    <2>1. file'[head.seq] = line /\ Linked(file', head.seq) /\ head.seq = Len(file')
          /\ head.seq = Len(file) + 1
      BY <1>5 DEF GrownTo
    <2>2. line = NextEntry(p)
      BY <2>1, GarbledUnlinked
    <2>3. head.seq \in DOMAIN file'
      BY <1>1, <1>2, <2>1
    <2>4. NextEntry(p).hash = head.hash
      BY <2>1, <2>2, <2>3
    <2>5. NamesUpTo(head.hash, clock)
      BY DEF AckedInv, HistoryInv
    <2>6. head.hash # NoHash /\ head.hash[Len(head.hash)][2] = clock + 1
      BY <2>4, NextHash
    <2>7. FALSE
      BY <1>1, <2>5, <2>6 DEF NamesUpTo
    <2>8. QED
      BY <2>7
  <1>6. QED
    BY <1>3, <1>4, <1>5

LEMMA TamperHolds ==
    ASSUME AuditTypeOK, ChainInv, AckedInv, Tamper, NEW n \in Nat, NEW S, Covers(file, n, S)
    PROVE  Covers(file', n, S)
  <1>1. PICK i \in 1 .. Len(file) - 1 :
              /\ i \in DOMAIN file' /\ ~Linked(file', i)
              /\ \A j \in 1 .. i - 1 : file'[j] = file[j]
    BY TamperBreaks
  <1>2. PICK m \in Nat : m = Len(file)
    BY LenProperties DEF AuditTypeOK
  <1>3. i \in 1 .. m - 1
    BY <1>2
  <1>4. ~AllLinked(file')
    BY <1>1 DEF AllLinked
  <1>5. ASSUME PrefixLinked(file', n) PROVE S \subseteq PrefixAts(file', n)
    <2>1. ~(i \in 1 .. n)
      BY <1>1, <1>5 DEF PrefixLinked
    <2>2. n < i /\ n <= m
      BY <1>3, <2>1
    <2>3. n <= Len(file) /\ n <= Len(file')
      BY <1>2, <1>5, <2>2 DEF PrefixLinked
    <2>4. \A j \in 1 .. n : file'[j] = file[j]
      BY <1>1, <1>3, <2>2
    <2>5. /\ PrefixLinked(file', n) <=> PrefixLinked(file, n)
          /\ PrefixAts(file', n) = PrefixAts(file, n)
      BY <2>3, <2>4, SamePrefix
    <2>6. QED
      BY <1>5, <2>5 DEF Covers
  <1>6. QED
    BY <1>4, <1>5 DEF Covers

LEMMA NamesLater ==
    ASSUME NEW h \in Hashes, NEW c \in Nat, NamesUpTo(h, c)
    PROVE  NamesUpTo(h, c + 1)
  <1>1. CASE h = NoHash
    BY <1>1 DEF NamesUpTo
  <1>2. CASE h # NoHash
    <2>1. Len(h) \in DOMAIN h
      BY <1>2, EmptySeq, LenProperties DEF Hashes, NoHash
    <2>2. h[Len(h)] \in Nat \X Nat
      BY <2>1 DEF Hashes
    <2>3. h[Len(h)][2] \in Nat
      BY <2>2
    <2>4. h[Len(h)][2] <= c
      BY <1>2 DEF NamesUpTo
    <2>5. QED
      BY <2>3, <2>4 DEF NamesUpTo
  <1>3. QED
    BY <1>1, <1>2

\* What AckedInv needs of a write, whoever makes it.
LEMMA EmitAcked ==
    ASSUME AuditTypeOK, AckedInv, NEW p \in Engines, CanAppend(p),
           NEW line \in Entry \cup {Garbled}, line = NextEntry(p) \/ line = Garbled,
           NEW newline \in BOOLEAN, Emit(line, newline),
           head' = head, acked' = acked
    PROVE  /\ file' # <<>>
           /\ lost = "no" => Covers(file', head.seq, acked)
           /\ (lost' = "yes" => lost = "yes") => LostInv'
  <1>1. file \in Lines /\ (unterminated => file # <<>>) /\ head.seq \in Nat
    BY DEF AuditTypeOK, Lines, AckedInv, HistoryInv
  <1>2. file' # <<>>
    BY <1>1, EmitShape
  <1>3. lost = "no" => Covers(file', head.seq, acked)
    BY <1>1, EmitHolds DEF AckedInv, KeptInv
  <1>4. ASSUME lost = "yes", PrefixLinked(file', head.seq),
               head.seq \in DOMAIN file' => file'[head.seq].hash = head.hash
        PROVE  acked \subseteq PrefixAts(file', head.seq)
    BY <1>4, EmitLost
  <1>5. (lost' = "yes" => lost = "yes") => LostInv'
    BY <1>4 DEF LostInv
  <1>6. QED
    BY <1>2, <1>3, <1>5

LEMMA WriteAcked ==
    ASSUME \A p, q \in Engines : p = q,
           AuditTypeOK, ChainInv, GrowInv, AckedInv, NEW p \in Engines,
           AppendShort(p) \/ AppendWritten(p) \/ CrashInWrite(p)
    PROVE  AckedInv'
  <1>0. /\ clock \in Nat /\ clock' = clock + 1 /\ head' = head /\ acked' = acked
        /\ CanAppend(p) /\ up[p] /\ ~anchoring[p]
        /\ Garbled \in Entry \cup {Garbled} /\ NextEntry(p) \in Entry \cup {Garbled}
    <2>1. CanAppend(p) /\ clock' = clock + 1 /\ head' = head /\ acked' = acked
      BY DEF AppendShort, AppendWritten, CrashInWrite
    <2>2. NextEntry(p) \in Entry
      BY <2>1, NextIsEntry
    <2>3. QED
      BY <2>1, <2>2, MaxAppendsAssumption DEF AuditTypeOK, Instants, CanAppend
  <1>1. \A q \in Engines : q = p
    OBVIOUS
  <1>2. NamesUpTo(head'.hash, clock')
    <2>1. NamesUpTo(head.hash, clock) /\ head.hash \in Hashes
      BY DEF AckedInv, HistoryInv, AuditTypeOK
    <2>2. QED
      BY <1>0, <2>1, NamesLater
  <1>3. CASE AppendShort(p) \/ CrashInWrite(p)
    <2>1. PICK line \in {Garbled, NextEntry(p)} : Emit(line, FALSE)
      BY <1>3 DEF AppendShort, CrashInWrite
    <2>2. lost' = lost /\ ~intact' /\ \A q \in Engines : ~anchoring'[q]
      <3>1. CASE AppendShort(p)
        BY <1>0, <1>1, <3>1 DEF AppendShort, memory
      <3>2. CASE CrashInWrite(p)
        BY <1>1, <3>2 DEF CrashInWrite, Stop, AuditTypeOK
      <3>3. QED
        BY <1>3, <3>1, <3>2
    <2>3. file' # <<>> /\ (lost = "no" => Covers(file', head.seq, acked)) /\ LostInv'
      <3>1. line \in Entry \cup {Garbled} /\ (line = NextEntry(p) \/ line = Garbled) /\ FALSE \in BOOLEAN
        BY <1>0, <2>1
      <3>2. QED
        BY <1>0, <2>1, <2>2, <3>1, EmitAcked
    <2>4. HistoryInv'
      BY <1>2, <2>2, <2>3 DEF HistoryInv
    <2>5. KeptInv'
      BY <1>0, <2>2, <2>3 DEF KeptInv
    <2>6. QED
      BY <2>3, <2>4, <2>5 DEF AckedInv
  <1>4. CASE AppendWritten(p)
    <2>1. /\ Emit(NextEntry(p), TRUE) /\ last' = [last EXCEPT ![p] = NextEntry(p)]
          /\ intact' = intact
          /\ lost' = IF lost = "yes" THEN "reused" ELSE lost
      BY <1>4 DEF AppendWritten
    <2>2. /\ lost' # "yes" /\ (lost' = "no" => lost = "no") /\ (lost' # "no" => lost # "no")
      BY <2>1 DEF AuditTypeOK
    <2>3. last'[p] = NextEntry(p)
      BY <2>1 DEF AuditTypeOK
    <2>4. file' # <<>> /\ (lost = "no" => Covers(file', head.seq, acked)) /\ LostInv'
      <3>1. NextEntry(p) = NextEntry(p) /\ TRUE \in BOOLEAN
        OBVIOUS
      <3>2. QED
        BY <1>0, <2>1, <2>2, <3>1, EmitAcked
    <2>5. NamesUpTo(last'[p].hash, clock')
      <3>1. LET h == NextEntry(p).hash IN h # NoHash /\ h[Len(h)][2] = clock + 1
        BY <1>0, NextHash
      <3>2. QED
        BY <1>0, <2>3, <3>1 DEF NamesUpTo
    <2>6. intact' => \A i \in DOMAIN file' : file'[i].at # 0
      <3> SUFFICES ASSUME intact' PROVE \A i \in DOMAIN file' : file'[i].at # 0
        OBVIOUS
      <3>1. intact /\ ~unterminated /\ \A i \in DOMAIN file : file[i].at # 0
        BY <2>1 DEF ChainInv, AckedInv, HistoryInv
      <3>2. file' = Append(file, NextEntry(p)) /\ file \in Lines
        BY <2>1, <3>1 DEF Emit, AuditTypeOK, Lines
      <3>3. NextEntry(p).at # 0
        BY <1>0 DEF NextEntry
      <3>4. PICK m \in Nat : m = Len(file) /\ DOMAIN file = 1 .. m
        BY <3>2 DEF Lines
      <3>5. /\ DOMAIN file' = 1 .. m + 1 /\ file'[m + 1] = NextEntry(p)
            /\ \A i \in 1 .. m : file'[i] = file[i]
        BY <3>2, <3>4, AppendProperties DEF Lines
      <3>6. QED
        BY <3>1, <3>3, <3>4, <3>5
    <2>7. HistoryInv'
      BY <1>1, <1>2, <2>1, <2>2, <2>4, <2>5, <2>6 DEF HistoryInv, AckedInv
    <2>8. KeptInv'
      <3> SUFFICES ASSUME lost' = "no" PROVE KeptInv'
        BY DEF KeptInv
      <3>1. lost = "no"
        BY <2>2
      <3>2. Covers(file', last[p].seq + 1, acked \cup {clock + 1})
        BY <1>0, <2>1, <3>1, WrittenHolds
      <3>3. last'[p].seq = last[p].seq + 1 /\ last'[p].at = clock + 1
        BY <2>3 DEF NextEntry
      <3>4. QED
        BY <1>0, <1>1, <2>4, <3>1, <3>2, <3>3 DEF KeptInv
    <2>9. QED
      BY <2>4, <2>7, <2>8 DEF AckedInv
  <1>5. QED
    BY <1>3, <1>4

LEMMA NextAcked ==
    ASSUME \A p, q \in Engines : p = q,
           AuditTypeOK, ChainInv, GrowInv, AckedInv, [AuditNext]_audit
    PROVE  AckedInv'
  <1>1. file \in Lines /\ head.seq \in Nat /\ clock \in Nat
        /\ \A p \in Engines : last[p].seq \in Nat
    <2>1. \A p \in Engines : last[p] \in Entry
      BY DEF AuditTypeOK
    <2>2. QED
      BY <2>1, EntryFields, MaxAppendsAssumption DEF AuditTypeOK, Lines, Instants
  <1>2. ASSUME NEW p \in Engines, Open(p) PROVE AckedInv'
    <2>1. UNCHANGED <<file, unterminated, head, anchoring, clock, acked, intact, lost>> /\ ~up[p]
      BY <1>2 DEF Open, disk, history
    <2>2. \A q \in Engines : ~anchoring[q]
      BY <2>1 DEF ChainInv
    <2>3. HistoryInv'
      BY <2>1, <2>2 DEF AckedInv, HistoryInv
    <2>4. KeptInv' /\ LostInv'
      BY <2>1, <2>2 DEF AckedInv, KeptInv, LostInv
    <2>5. QED
      BY <2>3, <2>4 DEF AckedInv
  <1>3. ASSUME NEW p \in Engines, AppendRefused(p) PROVE AckedInv'
    <2>1. /\ UNCHANGED <<file, unterminated, head, last, anchoring, acked, intact, lost>>
          /\ clock' = clock + 1 /\ ~anchoring[p]
      BY <1>3 DEF AppendRefused, CanAppend, disk, memory
    <2>2. NamesUpTo(head'.hash, clock')
      <3>1. NamesUpTo(head.hash, clock) /\ head.hash \in Hashes
        BY DEF AckedInv, HistoryInv, AuditTypeOK
      <3>2. QED
        BY <1>1, <2>1, <3>1, NamesLater
    <2>3. HistoryInv'
      BY <2>1, <2>2 DEF AckedInv, HistoryInv
    <2>4. KeptInv' /\ LostInv'
      BY <2>1 DEF AckedInv, KeptInv, LostInv
    <2>5. QED
      BY <2>3, <2>4 DEF AckedInv
  <1>4. ASSUME NEW p \in Engines, AppendShort(p) \/ AppendWritten(p) \/ CrashInWrite(p)
        PROVE  AckedInv'
    BY <1>4, WriteAcked
  <1>5. ASSUME NEW p \in Engines, HeadWritten(p) PROVE AckedInv'
    <2>1. /\ UNCHANGED <<file, unterminated, last, clock, intact, lost>>
          /\ head'.seq = last[p].seq /\ head'.hash = last[p].hash
          /\ acked' = acked \cup {last[p].at} /\ anchoring[p]
      BY <1>5 DEF HeadWritten
    <2>2. \A q \in Engines : ~anchoring'[q]
      BY <1>5 DEF HeadWritten, AuditTypeOK
    <2>3. lost # "yes"
      BY <2>1 DEF AckedInv, HistoryInv
    <2>4. HistoryInv'
      BY <2>1, <2>2 DEF AckedInv, HistoryInv
    <2>5. KeptInv'
      BY <2>1, <2>2 DEF AckedInv, KeptInv
    <2>6. LostInv'
      BY <2>1, <2>3 DEF LostInv
    <2>7. QED
      BY <2>4, <2>5, <2>6 DEF AckedInv
  <1>6. ASSUME NEW p \in Engines, HeadFailed(p) \/ Crash(p) PROVE AckedInv'
    <2>1. UNCHANGED <<file, unterminated, head, clock, acked, intact, lost>>
      BY <1>6 DEF HeadFailed, Crash, disk, history
    <2>2. \A q \in Engines : ~anchoring'[q]
      BY <1>6 DEF HeadFailed, Crash, Stop, AuditTypeOK
    <2>3. HistoryInv'
      BY <2>1, <2>2 DEF AckedInv, HistoryInv
    <2>4. KeptInv' /\ LostInv'
      BY <2>1, <2>2 DEF AckedInv, KeptInv, LostInv
    <2>5. QED
      BY <2>3, <2>4 DEF AckedInv
  <1>7. CASE LoseTail
    <2>1. /\ UNCHANGED <<head, last, anchoring, clock, acked>> /\ lost = "no" /\ lost' = "yes"
          /\ ~intact' /\ ~unterminated'
          /\ \A q \in Engines : ~up[q]
      BY <1>7 DEF LoseTail, memory
    <2>2. PICK k \in 0 .. Len(file) - 1 : file' = SubSeq(file, 1, k)
      BY <1>7 DEF LoseTail
    <2>3. PICK m \in Nat : m = Len(file)
      BY <1>1, LenProperties DEF Lines
    <2>4. k \in 0 .. m - 1
      BY <2>2, <2>3
    <2>5. Len(file') = k /\ \A i \in 1 .. k : file'[i] = file[i]
      BY <1>1, <2>2, <2>3, <2>4, SubSeqProperties DEF Lines
    <2>6. \A q \in Engines : ~anchoring[q]
      BY <2>1 DEF ChainInv
    <2>7. HistoryInv'
      BY <2>1, <2>6 DEF AckedInv, HistoryInv
    <2>8. ASSUME PrefixLinked(file', head.seq) PROVE acked \subseteq PrefixAts(file', head.seq)
      <3>1. head.seq <= k
        BY <2>5, <2>8 DEF PrefixLinked
      <3>2. head.seq <= m /\ \A i \in 1 .. head.seq : file'[i] = file[i]
        BY <1>1, <2>4, <2>5, <3>1
      <3>3. head.seq <= Len(file) /\ head.seq <= Len(file')
        BY <2>3, <2>5, <3>1, <3>2
      <3>4. /\ PrefixLinked(file', head.seq) <=> PrefixLinked(file, head.seq)
            /\ PrefixAts(file', head.seq) = PrefixAts(file, head.seq)
        BY <1>1, <3>2, <3>3, SamePrefix
      <3>5. QED
        BY <2>1, <2>8, <3>4 DEF AckedInv, KeptInv, Covers
    <2>9. KeptInv' /\ LostInv'
      BY <2>1, <2>8 DEF KeptInv, LostInv
    <2>10. QED
      BY <2>7, <2>9 DEF AckedInv
  <1>8. CASE Tamper
    <2>1. UNCHANGED <<unterminated, head, last, anchoring, clock, acked, lost>> /\ intact /\ ~intact'
      BY <1>8 DEF Tamper, memory
    <2>2. lost = "no"
      BY <2>1 DEF AckedInv, HistoryInv
    <2>3. file' # <<>>
      BY <1>8, TamperBreaks
    <2>4. HistoryInv'
      BY <2>1, <2>2, <2>3 DEF AckedInv, HistoryInv
    <2>5. Covers(file', head.seq, acked)
      BY <1>1, <1>8, <2>2, TamperHolds DEF AckedInv, KeptInv
    <2>6. ASSUME NEW q \in Engines, anchoring[q]
          PROVE  Covers(file', last[q].seq, acked \cup {last[q].at})
      BY <1>1, <1>8, <2>2, <2>6, TamperHolds DEF AckedInv, KeptInv
    <2>7. KeptInv' /\ LostInv'
      BY <2>1, <2>2, <2>5, <2>6 DEF KeptInv, LostInv
    <2>8. QED
      BY <2>4, <2>7 DEF AckedInv
  <1>9. CASE UNCHANGED audit
    BY <1>9 DEF audit, AckedInv, HistoryInv, KeptInv, LostInv
  <1>10. QED
    BY <1>2, <1>3, <1>4, <1>5, <1>6, <1>7, <1>8, <1>9 DEF AuditNext

\* What Verify says yes to is linked, reaches the head, and agrees with it.
LEMMA VerifiedIsLinked ==
    ASSUME NEW f, NEW h, Verify(f, h).ok
    PROVE  /\ AllLinked(f) /\ ~(Len(f) < h.seq)
           /\ h.seq \in DOMAIN f => f[h.seq].hash = h.hash
  <1> DEFINE broken == {i \in DOMAIN f : ~Linked(f, i)}
             no(n) == [ok |-> FALSE, seq |-> n]
  <1>1. /\ broken # {} => ~Verify(f, h).ok
        /\ broken = {} /\ Len(f) < h.seq => ~Verify(f, h).ok
        /\ broken = {} /\ ~(Len(f) < h.seq) /\ h.seq \in DOMAIN f /\ f[h.seq].hash # h.hash => ~Verify(f, h).ok
    BY DEF Verify
  <1>2. broken = {}
    BY <1>1
  <1>3. QED
    BY <1>1, <1>2 DEF AllLinked

\* With one engine what Append acknowledged can be read back or Verify fails, over torn writes,
\* crashes, an edited or removed line and a lost tail, until something is written over the loss.
THEOREM AcknowledgedOrDetected ==
    ASSUME \A p, q \in Engines : p = q
    PROVE  AuditSpec => []AckedOrDetected
  <1>1. AuditInit => ChainInv /\ GrowInv /\ AckedInv
    <2> SUFFICES ASSUME AuditInit PROVE ChainInv /\ GrowInv /\ AckedInv
      OBVIOUS
    <2>1. ChainInv /\ GrowInv
      BY DEF AuditInit, ChainInv, GrowInv, SequenceGrows, Parseable
    <2>2. HistoryInv /\ LostInv
      BY DEF AuditInit, HistoryInv, LostInv, NamesUpTo
    <2>3. KeptInv
      BY DEF AuditInit, KeptInv, Covers
    <2>4. QED
      BY <2>1, <2>2, <2>3 DEF AckedInv
  <1>2. AuditTypeOK /\ ChainInv /\ GrowInv /\ AckedInv /\ [AuditNext]_audit
          => ChainInv' /\ GrowInv' /\ AckedInv'
    BY NextChain, NextGrows, NextAcked
  <1>3. AuditTypeOK /\ AckedInv => AckedOrDetected
    <2> SUFFICES ASSUME AuditTypeOK, AckedInv, lost # "reused", Verify(file, head).ok
                 PROVE  acked \subseteq Readable(file)
      BY DEF AckedOrDetected
    <2>1. PICK m \in Nat : m = Len(file) /\ DOMAIN file = 1 .. m /\ head.seq \in Nat
      BY LenProperties DEF AuditTypeOK
    <2>2. /\ AllLinked(file) /\ ~(m < head.seq)
          /\ head.seq \in DOMAIN file => file[head.seq].hash = head.hash
      BY <2>1, VerifiedIsLinked
    <2>3. PrefixLinked(file, head.seq)
      BY <2>1, <2>2 DEF PrefixLinked, AllLinked
    <2>4. acked \subseteq PrefixAts(file, head.seq)
      <3>1. CASE lost = "no"
        BY <2>3, <3>1 DEF AckedInv, KeptInv, Covers
      <3>2. CASE lost = "yes"
        BY <2>2, <2>3, <3>2 DEF AckedInv, LostInv
      <3>3. QED
        BY <3>1, <3>2 DEF AuditTypeOK
    <2>5. PrefixAts(file, head.seq) \subseteq Readable(file)
      <3>1. ASSUME NEW i \in 1 .. head.seq PROVE i \in Parseable(file)
        BY <2>1, <2>2 DEF Parseable, AllLinked, Linked
      <3>2. QED
        BY <3>1 DEF PrefixAts, Readable
    <2>6. QED
      BY <2>4, <2>5
  <1>4. QED
    BY <1>1, <1>2, <1>3, LogTyping, PTL DEF AuditSpec
=============================================================================
