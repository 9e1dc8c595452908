-------------------------- MODULE TerminalSession --------------------------
(***************************************************************************)
(* The terminal pane and the shells the engine runs for it.  A pane opens  *)
(* a session when it is mounted, when another container is chosen and when *)
(* the person reconnects, stopping the one it had; each has an id of its   *)
(* own.  The engine's read loop starts and stops shells in the order the   *)
(* messages come; output returns on the same socket, in order but late.    *)
(* What is sent while the link is down waits in the socket's queue.        *)
(***************************************************************************)
EXTENDS Naturals, Sequences, FiniteSets

CONSTANTS MaxSessions,  \* bound: sessions opened in one behaviour
          MaxTyped,     \* bound: messages on the way to the engine
          MaxOutput     \* bound: messages on the way back

ASSUME TerminalAssumption == {MaxSessions, MaxTyped, MaxOutput} \subseteq Nat \ {0}

VARIABLES opened,    \* the number of sessions opened so far: nextId
          session,   \* id: the session of the pane, 0 when none is mounted
          status,
          uplink,    \* messages to the engine, sent or queued
          shells,    \* the engine's shells
          downlink,  \* term and error messages to the window
          printed,   \* the sessions whose output the terminal shows
          linked,    \* the link is up
          severed    \* it went down since the session was opened

terminal == <<opened, session, status, uplink, shells, downlink, printed, linked, severed>>

Ids == 1 .. MaxSessions
ToEngineMsg == [what : {"start", "stop", "input"}, id : Ids]
ToWindowMsg == [what : {"output", "eof", "error"}, id : Ids]
ShellTypeOK ==
    /\ opened \in 0 .. MaxSessions /\ session \in 0 .. MaxSessions
    /\ status \in {"connecting", "open", "closed"}
    /\ uplink \in Seq(ToEngineMsg) /\ downlink \in Seq(ToWindowMsg)
    /\ shells \subseteq Ids /\ printed \subseteq Ids
    /\ linked \in BOOLEAN /\ severed \in BOOLEAN

Msg(w, i) == [what |-> w, id |-> i]
\* Mutant: a pane that opens another session leaves the one it had.
StoppingNone == <<>>

Stopping == IF session = 0 THEN <<>> ELSE <<Msg("stop", session)>>

\* open: on mount, on another container and on Reconnect.
OpenSession ==
    /\ opened < MaxSessions
    /\ opened' = opened + 1 /\ session' = opened'
    /\ uplink' = uplink \o Stopping \o <<Msg("start", session')>>
    /\ status' = "connecting" /\ printed' = {} /\ severed' = FALSE
    /\ UNCHANGED <<shells, downlink, linked>>
Unmount ==
    /\ session # 0
    /\ uplink' = uplink \o Stopping
    /\ session' = 0 /\ printed' = {} /\ severed' = FALSE
    /\ UNCHANGED <<opened, status, shells, downlink, linked>>
Keystroke ==
    /\ session # 0 /\ Len(uplink) < MaxTyped
    /\ uplink' = Append(uplink, Msg("input", session))
    /\ UNCHANGED <<opened, session, status, shells, downlink, printed, linked, severed>>

\* The read loop, one message at a time; a shell that cannot start answers an error.
EngineReads ==
    /\ linked /\ uplink # <<>> /\ Len(downlink) < MaxOutput
    /\ LET m == Head(uplink)
       IN CASE m.what = "start" -> \/ shells' = shells \cup {m.id} /\ UNCHANGED downlink
                                   \/ downlink' = Append(downlink, Msg("error", m.id)) /\ UNCHANGED shells
            [] m.what = "stop"  -> /\ shells' = shells \ {m.id}
                                   /\ downlink' = IF m.id \in shells THEN Append(downlink, Msg("eof", m.id)) ELSE downlink
            [] m.what = "input" -> UNCHANGED <<shells, downlink>>   \* the shell's, when it has one
    /\ uplink' = Tail(uplink)
    /\ UNCHANGED <<opened, session, status, printed, linked, severed>>
Output(i) ==
    /\ Len(downlink) < MaxOutput
    /\ \/ downlink' = Append(downlink, Msg("output", i)) /\ UNCHANGED shells
       \/ downlink' = Append(downlink, Msg("eof", i)) /\ shells' = shells \ {i}     \* the shell exits
    /\ UNCHANGED <<opened, session, status, uplink, printed, linked, severed>>

\* The pane takes what bears its own id.
Shows(m) == m.id = session
WindowReads ==
    /\ downlink # <<>>
    /\ LET m == Head(downlink)
       IN IF ~ Shows(m) THEN UNCHANGED <<status, printed>>
          ELSE /\ status' = IF m.what = "output" THEN "open" ELSE "closed"
               /\ printed' = printed \cup (IF m.what = "output" THEN {m.id} ELSE {})
    /\ downlink' = Tail(downlink)
    /\ UNCHANGED <<opened, session, uplink, shells, linked, severed>>

\* The link drops: the engine closes the connection's shells; the pane is not told.
Sever ==
    /\ linked /\ linked' = FALSE /\ severed' = (session # 0)
    /\ uplink' = <<>> /\ downlink' = <<>> /\ shells' = {}
    /\ UNCHANGED <<opened, session, status, printed>>
Relinked == /\ ~ linked /\ linked' = TRUE
            /\ UNCHANGED <<opened, session, status, uplink, shells, downlink, printed, severed>>

ShellInit ==
    /\ opened = 0 /\ session = 0 /\ status = "connecting" /\ uplink = <<>> /\ downlink = <<>>
    /\ shells = {} /\ printed = {} /\ linked = TRUE /\ severed = FALSE
ShellNext ==
    \/ OpenSession \/ Unmount \/ Keystroke \/ EngineReads \/ WindowReads \/ Sever \/ Relinked
    \/ \E i \in shells : Output(i)
ShellSpec == ShellInit /\ [][ShellNext]_terminal

(***************************************************************************)
(* The terminal shows output of its own session and no other, however late *)
(* it comes.  Once the engine has read what was sent, no shell runs but    *)
(* that of the pane: every other was stopped.  A terminal that is          *)
(* connecting or open then has its shell, or word of its end on the way,   *)
(* unless the link went down under it.                                     *)
(***************************************************************************)
ShellsAreOwned ==
    /\ printed \subseteq {session}
    /\ uplink = <<>> => shells \subseteq {session}
    /\ (uplink = <<>> /\ session # 0 /\ status # "closed" /\ ~ severed) =>
          \/ session \in shells
          \/ \E i \in DOMAIN downlink : downlink[i].id = session /\ downlink[i].what # "output"
=============================================================================
