----------------------------- MODULE LogFollow -----------------------------
(***************************************************************************)
(* The log pane: useLogs over one subscription id, and the engine's        *)
(* streams behind it.  The window clears what it shows when another pod,   *)
(* container or run is chosen; the engine hears of it later, replaces the  *)
(* stream, and the stream it cancelled may send what it had gathered even  *)
(* then.  A line is the choice it belongs to, counted from one, and its    *)
(* number in that stream.  A link that comes back subscribes again, and    *)
(* the stream starts from the tail once more.                              *)
(***************************************************************************)
EXTENDS Naturals, Sequences, FiniteSets

CONSTANTS MaxLines,    \* MAX_LINES: what the pane keeps
          MaxChoices,  \* bound: choices in one behaviour
          MaxWritten,  \* bound: lines of one container
          MaxFrames    \* bound: frames on the way

ASSUME LogAssumption == {MaxLines, MaxChoices, MaxWritten, MaxFrames} \subseteq Nat \ {0}

VARIABLES chosen,     \* the number of choices so far
          followed,   \* a pane is open on the last of them
          streams,    \* the engine's streams: choice, lines sent, live, cancelled or ended
          frames,     \* log messages to the window, in order
          lines, buffer, paused, eof,
          landed,     \* every line that came since the pane was cleared
          again       \* the link came back since

logs == <<chosen, followed, streams, frames, lines, buffer, paused, eof, landed, again>>

Line    == [of : 1 .. MaxChoices, n : 1 .. MaxWritten]
Stream  == [of : 1 .. MaxChoices, at : 0 .. MaxWritten, phase : {"live", "cancelled", "ended"}]
Frame   == [lines : Seq(Line), eof : BOOLEAN]
LastOf(s) == IF Len(s) > MaxLines THEN SubSeq(s, Len(s) - MaxLines + 1, Len(s)) ELSE s

LogTypeOK ==
    /\ chosen \in 0 .. MaxChoices /\ followed \in BOOLEAN /\ streams \subseteq Stream
    /\ frames \in Seq(Frame)
    /\ lines \in Seq(Line) /\ buffer \in Seq(Line) /\ landed \in Seq(Line)
    /\ {paused, eof, again} \subseteq BOOLEAN

\* Mutant: the watcher forgets what a paused pane has put aside.
ClearedButBuffer == lines' = <<>> /\ UNCHANGED buffer /\ eof' = FALSE /\ landed' = <<>> /\ again' = FALSE

\* The watcher over cluster, namespace, pod, container and run: everything shown goes, and the
\* subscription changes.  A pane opened anew starts unpaused, with an id of its own.
Cleared == lines' = <<>> /\ buffer' = <<>> /\ eof' = FALSE /\ landed' = <<>> /\ again' = FALSE
Choose ==
    /\ chosen < MaxChoices
    /\ chosen' = chosen + 1 /\ followed' = TRUE
    /\ Cleared
    /\ UNCHANGED <<streams, frames, paused>>
CloseLogs ==   \* the listener goes: what is on the way is nobody's
    /\ followed
    /\ followed' = FALSE /\ paused' = FALSE /\ frames' = <<>>
    /\ Cleared
    /\ UNCHANGED <<chosen, streams>>

\* The engine hears of the last choice, or that there is none: it cancels and starts.
Cancelled == {[s EXCEPT !.phase = IF @ = "live" THEN "cancelled" ELSE @] : s \in streams}
Track ==
    /\ followed /\ \A s \in streams : s.of # chosen
    /\ streams' = Cancelled \cup {[of |-> chosen, at |-> 0, phase |-> "live"]}
    /\ UNCHANGED <<chosen, followed, frames, lines, buffer, paused, eof, landed, again>>
Untrack ==
    /\ ~ followed /\ streams # {}
    /\ streams' = {}
    /\ UNCHANGED <<chosen, followed, frames, lines, buffer, paused, eof, landed, again>>

\* A flush: the lines gathered since the last, on a tick or when the batch is full; the
\* cancelled one picks between its end and another flush.
Flush(s) ==
    /\ s.phase # "ended" /\ Len(frames) < MaxFrames /\ followed
    /\ \E k \in 1 .. MaxWritten - s.at :
          /\ streams' = (streams \ {s}) \cup {[s EXCEPT !.at = @ + k]}
          /\ frames' = Append(frames, [lines |-> [i \in 1 .. k |-> [of |-> s.of, n |-> s.at + i]], eof |-> FALSE])
    /\ UNCHANGED <<chosen, followed, lines, buffer, paused, eof, landed, again>>
Exit(s) ==
    /\ s.phase = "cancelled" /\ streams' = streams \ {s}
    /\ UNCHANGED <<chosen, followed, frames, lines, buffer, paused, eof, landed, again>>
\* The reader closed its channel: what was gathered goes out as the last batch, and the stream
\* stays tracked.  A cancelled one closes it too, and may take that before its own end.
Ended(s) ==
    /\ s.phase # "ended" /\ Len(frames) < MaxFrames /\ followed
    /\ \E k \in 0 .. MaxWritten - s.at :
          /\ streams' = (streams \ {s}) \cup
                           (IF s.phase = "live" THEN {[of |-> s.of, at |-> s.at + k, phase |-> "ended"]} ELSE {})
          /\ frames' = Append(frames, [lines |-> [i \in 1 .. k |-> [of |-> s.of, n |-> s.at + i]], eof |-> TRUE])
    /\ UNCHANGED <<chosen, followed, lines, buffer, paused, eof, landed, again>>

\* The link drops and comes back: what was on the way is lost, the subscription is sent again.
Relink ==
    /\ followed /\ ~ again
    /\ frames' = <<>> /\ streams' = {} /\ again' = TRUE
    /\ UNCHANGED <<chosen, followed, lines, buffer, paused, eof, landed>>

\* onmessage: a paused pane keeps what comes in a buffer, capped as the lines are.
Landed ==
    /\ frames # <<>>
    /\ LET m == Head(frames)
       IN /\ IF paused THEN buffer' = LastOf(buffer \o m.lines) /\ UNCHANGED lines
                       ELSE lines' = LastOf(lines \o m.lines) /\ UNCHANGED buffer
          /\ eof' = (eof \/ m.eof)
          /\ landed' = landed \o m.lines
    /\ frames' = Tail(frames)
    /\ UNCHANGED <<chosen, followed, streams, paused, again>>
Pause == /\ followed /\ ~ paused /\ paused' = TRUE
         /\ UNCHANGED <<chosen, followed, streams, frames, lines, buffer, eof, landed, again>>
Resume == /\ paused /\ paused' = FALSE
          /\ lines' = IF buffer = <<>> THEN lines ELSE LastOf(lines \o buffer)
          /\ buffer' = <<>>
          /\ UNCHANGED <<chosen, followed, streams, frames, eof, landed, again>>

LogInit ==
    /\ chosen = 0 /\ followed = FALSE /\ streams = {} /\ frames = <<>>
    /\ lines = <<>> /\ buffer = <<>> /\ landed = <<>>
    /\ paused = FALSE /\ eof = FALSE /\ again = FALSE

LogNext ==
    \/ Choose \/ CloseLogs \/ Track \/ Untrack \/ Relink \/ Landed \/ Pause \/ Resume
    \/ \E s \in streams : Flush(s) \/ Exit(s) \/ Ended(s)

LogSpec == LogInit /\ [][LogNext]_logs

(***************************************************************************)
(* The pane shows the last lines of all that came since it was cleared,    *)
(* and a paused pane will when it resumes, however much came meanwhile.    *)
(* Of the stream chosen no line is missing, repeated or out of order,      *)
(* whatever an older stream still sends, unless the link came back.        *)
(***************************************************************************)
OwnUpTo(i) == Cardinality({j \in 1 .. i : landed[j].of = chosen})
LogFollows ==
    /\ LastOf(lines \o buffer) = LastOf(landed)
    /\ ~ paused => lines = LastOf(landed) /\ buffer = <<>>
    /\ Len(lines) <= MaxLines /\ Len(buffer) <= MaxLines
    /\ ~ again => \A i \in DOMAIN landed : landed[i].of = chosen => landed[i].n = OwnUpTo(i)
=============================================================================
