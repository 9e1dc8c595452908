------------------------------ MODULE AuditLog ------------------------------
(***************************************************************************)
(* The hash-chained audit log: engine/internal/audit/audit.go.             *)
(*                                                                         *)
(* On disk there is audit.jsonl (file, one line per entry) and             *)
(* audit.jsonl.head (head, where the chain last ended).  In each engine    *)
(* process there is a Log: the last entry it knows of.  Log.n is always    *)
(* last.Seq, so it has no variable of its own.  l.mu is held for the whole *)
(* of Append and of Verify, so one process has at most one append under    *)
(* way; nothing in the code keeps two processes apart.                     *)
(*                                                                         *)
(* A line is an entry, or bytes that do not parse.  An entry carries `at`, *)
(* the instant of its append, which stands for everything in it that is    *)
(* not the chain: no two appends share it.  A hash lists the <<seq, at>> of *)
(* its entry and of every entry before it, which is what a hash chained    *)
(* through prev depends on; equal hashes mean equal content.               *)
(***************************************************************************)
EXTENDS Integers, Sequences, FiniteSets, SequencesExt

CONSTANTS
    Engines,     \* engine processes sharing one data directory
    Faults,      \* what may go wrong, a subset of AllFaults
    MaxAppends   \* bound: calls of Append in a behaviour

AllFaults ==
    { "refuse",        \* the entry does not encode, or the file does not open
      "short",         \* write(2) stores a strict prefix of the line
      "unterminated",  \* write(2) stores the whole line without its newline
      "head",          \* the head file cannot be written or renamed
      "crash",         \* the process ends between two system calls
      "tornCrash",     \* the process ends with part of the line written
      "loseTail",      \* the machine loses lines that were never fsynced
      "tamper" }       \* someone edits or removes a line before the last

ASSUME EnginesAssumption == Engines # {}
ASSUME FaultsAssumption == Faults \subseteq AllFaults
ASSUME MaxAppendsAssumption == MaxAppends \in Nat

VARIABLES
    file,           \* the lines of audit.jsonl
    unterminated,   \* the last line of file has no newline yet
    head,           \* audit.jsonl.head; seq 0 when there is no such file
    up,             \* up[p]: process p has the log open
    last,           \* last[p]: Log.last (and Log.n) of process p
    anchoring,      \* anchoring[p]: p wrote the line and not yet the head
    clock,          \* appends so far; the next one's instant is clock + 1
    acked,          \* history: instants of appends that returned nil
    failed,         \* history: instants of appends that returned an error
    intact,         \* history: every write was whole, and no line was
                    \*   lost, edited or removed since
    lost            \* history: "no", "yes" once the tail was lost,
                    \*   "reused" once a line was written after that

disk == <<file, unterminated, head>>
memory == <<up, last, anchoring>>
history == <<clock, acked, failed, intact, lost>>
audit == <<file, unterminated, head, up, last, anchoring,
          clock, acked, failed, intact, lost>>

NoHash == <<>>

hashOf(e) == Append(e.prev, <<e.seq, e.at>>)

ZeroEntry ==
    [parses |-> TRUE, seq |-> 0, at |-> 0, prev |-> NoHash, hash |-> NoHash]

Garbled == [parses |-> FALSE]

\* The entry Append builds from what the process remembers.
NextEntry(p) ==
    LET e == [seq |-> last[p].seq + 1, at |-> clock + 1, prev |-> last[p].hash]
    IN  [parses |-> TRUE, seq |-> e.seq, at |-> e.at, prev |-> e.prev,
         hash |-> hashOf(e)]

Parseable(f) == {i \in DOMAIN f : f[i].parses}

\* Mutant: Open takes the last line whether or not it parses.
TailUnparsed(f) == IF f = <<>> THEN ZeroEntry ELSE f[Len(f)]

\* Mutant: Open stops at the first line that parses.
TailFirst(f) ==
    IF Parseable(f) = {} THEN ZeroEntry ELSE f[Min(Parseable(f))]

\* What Open finds at the end of a file: the last line that parses.
TailOf(f) == IF Parseable(f) = {} THEN ZeroEntry ELSE f[Max(Parseable(f))]

-----------------------------------------------------------------------------

AuditInit ==
    /\ file = <<>>
    /\ unterminated = FALSE
    /\ head = [seq |-> 0, hash |-> NoHash]
    /\ up = [p \in Engines |-> FALSE]
    /\ last = [p \in Engines |-> ZeroEntry]
    /\ anchoring = [p \in Engines |-> FALSE]
    /\ clock = 0
    /\ acked = {}
    /\ failed = {}
    /\ intact = TRUE
    /\ lost = "no"

Open(p) ==
    /\ ~up[p]
    /\ up' = [up EXCEPT ![p] = TRUE]
    /\ last' = [last EXCEPT ![p] = TailOf(file)]
    /\ UNCHANGED <<disk, anchoring, history>>

-----------------------------------------------------------------------------
(* Append.  CanAppend is the point where a caller holds l.mu.              *)

CanAppend(p) == up[p] /\ ~anchoring[p] /\ clock < MaxAppends

\* f.Write of one line.  O_APPEND puts it after whatever is there: behind a
\* line without a newline it extends that line, which no longer parses.
Emit(line, newline) ==
    /\ file' = IF unterminated
               THEN [file EXCEPT ![Len(file)] = Garbled]
               ELSE Append(file, line)
    /\ unterminated' = ~newline

AppendRefused(p) ==
    /\ "refuse" \in Faults
    /\ CanAppend(p)
    /\ clock' = clock + 1
    /\ failed' = failed \cup {clock + 1}
    /\ UNCHANGED <<disk, memory, acked, intact, lost>>

\* A write that fails part way: Append returns the error and leaves the bytes.
AppendShort(p) ==
    /\ CanAppend(p)
    /\ \/ "short" \in Faults /\ Emit(Garbled, FALSE)
       \/ "unterminated" \in Faults /\ Emit(NextEntry(p), FALSE)
    /\ clock' = clock + 1
    /\ failed' = failed \cup {clock + 1}
    /\ intact' = FALSE
    /\ UNCHANGED <<head, memory, acked, lost>>

AppendWritten(p) ==
    /\ CanAppend(p)
    /\ Emit(NextEntry(p), TRUE)
    /\ last' = [last EXCEPT ![p] = NextEntry(p)]
    /\ anchoring' = [anchoring EXCEPT ![p] = TRUE]
    /\ clock' = clock + 1
    /\ lost' = IF lost = "yes" THEN "reused" ELSE lost
    /\ UNCHANGED <<head, up, acked, failed, intact>>

\* writeHead: a temporary file renamed over the old head.
HeadWritten(p) ==
    /\ anchoring[p]
    /\ head' = [seq |-> last[p].seq, hash |-> last[p].hash]
    /\ anchoring' = [anchoring EXCEPT ![p] = FALSE]
    /\ acked' = acked \cup {last[p].at}
    /\ UNCHANGED <<file, unterminated, up, last, clock, failed, intact, lost>>

\* Mutant: Append takes the entry back, in memory, when writeHead fails.
HeadFailedRollsBack(p) ==
    /\ "head" \in Faults
    /\ anchoring[p]
    /\ anchoring' = [anchoring EXCEPT ![p] = FALSE]
    /\ failed' = failed \cup {last[p].at}
    /\ last' = [last EXCEPT ![p] = TailOf(Front(file))]
    /\ UNCHANGED <<disk, up, clock, acked, intact, lost>>

\* Append returns writeHead's error; the entry is in the chain all the same.
HeadFailed(p) ==
    /\ "head" \in Faults
    /\ anchoring[p]
    /\ anchoring' = [anchoring EXCEPT ![p] = FALSE]
    /\ failed' = failed \cup {last[p].at}
    /\ UNCHANGED <<disk, up, last, clock, acked, intact, lost>>

-----------------------------------------------------------------------------
(* Faults of the process and of the machine.                               *)

Stop(p) ==
    /\ up' = [up EXCEPT ![p] = FALSE]
    /\ anchoring' = [anchoring EXCEPT ![p] = FALSE]
    /\ last' = [last EXCEPT ![p] = ZeroEntry]

Crash(p) ==
    /\ "crash" \in Faults
    /\ up[p]
    /\ Stop(p)
    /\ UNCHANGED <<disk, history>>

CrashInWrite(p) ==
    /\ "tornCrash" \in Faults
    /\ CanAppend(p)
    /\ Emit(Garbled, FALSE)
    /\ Stop(p)
    /\ clock' = clock + 1
    /\ intact' = FALSE
    /\ UNCHANGED <<head, acked, failed, lost>>

\* Append never calls Sync, so a machine that stops may come back without the
\* last lines while the renamed head survived.
LoseTail ==
    /\ "loseTail" \in Faults
    /\ lost = "no"
    /\ \A p \in Engines : ~up[p]
    /\ \E k \in 0 .. Len(file) - 1 : file' = SubSeq(file, 1, k)
    /\ unterminated' = FALSE
    /\ lost' = "yes"
    /\ intact' = FALSE
    /\ UNCHANGED <<head, memory, clock, acked, failed>>

Tamper ==
    /\ "tamper" \in Faults
    /\ intact
    /\ \E i \in 1 .. Len(file) - 1 :
         /\ file[i].parses
         /\ file' \in {[file EXCEPT ![i].at = 0], RemoveAt(file, i)}
    /\ intact' = FALSE
    /\ UNCHANGED <<unterminated, head, memory, clock, acked, failed, lost>>

AuditNext ==
    \/ \E p \in Engines :
         \/ Open(p)
         \/ AppendRefused(p)
         \/ AppendShort(p)
         \/ AppendWritten(p)
         \/ HeadWritten(p)
         \/ HeadFailed(p)
         \/ Crash(p)
         \/ CrashInWrite(p)
    \/ LoseTail
    \/ Tamper

AuditSpec == AuditInit /\ [][AuditNext]_audit

-----------------------------------------------------------------------------
(* Verify.                                                                 *)

\* The hash the line before i ends with, as far as the walk can tell.
HashBefore(f, i) ==
    IF i = 1 \/ ~f[i - 1].parses THEN NoHash ELSE f[i - 1].hash

\* Line i of f continues the chain, given that the lines before it do.
Linked(f, i) ==
    /\ f[i].parses
    /\ f[i].seq = i
    /\ f[i].prev = HashBefore(f, i)
    /\ f[i].hash = hashOf(f[i])

\* Mutant: Verify walks what Entries returns, which skips a line that does not
\* parse, and does not count lines.
VerifyThroughEntries(f, h) ==
    LET broken == {i \in Parseable(f) : f[i].hash # hashOf(f[i])}
    IN  [ok |-> broken = {} /\ h.seq <= Len(f), seq |-> 0]

\* Verify returns ok and, when not ok, the sequence number to look at.
Verify(f, h) ==
    LET broken == {i \in DOMAIN f : ~Linked(f, i)}
        first == Min(broken)
    IN  CASE broken # {} ->
               [ok |-> FALSE,
                seq |-> IF f[first].parses THEN f[first].seq ELSE first]
          [] broken = {} /\ Len(f) < h.seq ->
               [ok |-> FALSE, seq |-> Len(f) + 1]
          [] broken = {} /\ h.seq \in DOMAIN f /\ f[h.seq].hash # h.hash ->
               [ok |-> FALSE, seq |-> h.seq]
          [] OTHER -> [ok |-> TRUE, seq |-> 0]

\* The instants of the entries that Entries would return.
Readable(f) == {f[i].at : i \in Parseable(f)}

-----------------------------------------------------------------------------
(* Properties.                                                             *)

Instants == 0 .. MaxAppends
Hashes == Seq(Nat \X Nat)
Entry == [parses : {TRUE}, seq : Nat, at : Instants, prev : Hashes,
          hash : Hashes]

\* Types.  Each line is an entry or garbled; a process remembers an entry.
AuditTypeOK ==
    /\ file \in Seq(Entry \cup {Garbled})
    /\ unterminated \in BOOLEAN
    /\ head \in [seq : Nat, hash : Hashes]
    /\ up \in [Engines -> BOOLEAN]
    /\ last \in [Engines -> Entry]
    /\ anchoring \in [Engines -> BOOLEAN]
    /\ clock \in Instants
    /\ acked \subseteq Instants
    /\ failed \subseteq Instants
    /\ intact \in BOOLEAN
    /\ lost \in {"no", "yes", "reused"}

\* No false alarm: while every write was whole and nobody touched the files,
\* the chain verifies, whatever appends were refused, however often the head
\* could not be written and wherever the engine stopped and was reopened.
ChainVerifies == intact => Verify(file, head).ok

\* Append's nil is a promise: an entry it acknowledged can be read back, or
\* Verify says the log is broken.  Torn writes, crashes, an edited line and a
\* removed one included; a lost tail is noticed, by the head, for as long as
\* nothing was appended over it.
AckedOrDetected ==
    lost # "reused" =>
      acked \subseteq Readable(file) \/ ~Verify(file, head).ok

\* What a reader of the log sees is in order: sequence numbers grow down the
\* file, over whatever lines do not parse.  A reused number would give two
\* decisions one identity.
SequenceGrows ==
    \A i, j \in Parseable(file) : i < j => file[i].seq < file[j].seq

\* "Every failure leaves the chain untouched" (the comment on Append): an
\* append that returned an error, or none at all, has not broken a link.
FailureKeepsLinks == Verify(file, head).ok
=============================================================================
