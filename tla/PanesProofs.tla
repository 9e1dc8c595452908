---------------------------- MODULE PanesProofs -----------------------------
(***************************************************************************)
(* Proofs about the panes that hold on to something in the engine, and     *)
(* about the capture that holds on to a repository: TerminalSession,       *)
(* ExplainPane, LogFollow, PortForwards and DriftCapture, which share no   *)
(* state, for any number of sessions, objects, lines, forwards, windows    *)
(* and lost links.                                                         *)
(***************************************************************************)
EXTENDS TerminalSession, ExplainPane, LogFollow, PortForwards, DriftCapture, SequenceTheorems,
        FiniteSetTheorems, TLAPS

-----------------------------------------------------------------------------
(***************************************************************************)
(* Terminals. Every shell the engine runs that is not the one on the       *)
(* screen has its stop on the way behind it (ShellInv), since a session is *)
(* left with a stop in the same queue; a session on the screen that is not *)
(* closed waits for its start, runs, or has word of its end on the way.    *)
(* That a start is carried out once, and nothing comes after word of an    *)
(* end, is OrderInv.                                                       *)
(***************************************************************************)

StopWaits(i)  == \E q \in DOMAIN uplink : uplink[q] = Msg("stop", i)
StartWaits(i) == \E q \in DOMAIN uplink : uplink[q] = Msg("start", i)
EndKnown(i)   == \E q \in DOMAIN downlink : downlink[q].id = i /\ downlink[q].what # "output"

ShellInv ==
    /\ ShellTypeOK
    /\ session <= opened /\ printed \subseteq {session}
    /\ \A i \in shells : i <= opened /\ (i # session => StopWaits(i))
    /\ \A p \in DOMAIN uplink : /\ uplink[p].id <= opened
                                /\ uplink[p].what = "stop" => uplink[p].id # session
    /\ \A p \in DOMAIN uplink : (uplink[p].what = "start" /\ uplink[p].id # session) =>
           \E q \in DOMAIN uplink : p < q /\ uplink[q] = Msg("stop", uplink[p].id)
    /\ (session # 0 /\ status # "closed" /\ ~ severed) =>
           StartWaits(session) \/ session \in shells \/ EndKnown(session)

\* A session is started once and ends once, and nothing of it comes after word of its end.
OrderInv ==
    /\ \A q \in DOMAIN downlink : downlink[q].id <= opened
    /\ \A p \in DOMAIN uplink : uplink[p].what = "start" =>
           /\ uplink[p].id \notin shells
           /\ \A q \in DOMAIN downlink : downlink[q].id # uplink[p].id
           /\ \A q \in DOMAIN uplink : uplink[q] = uplink[p] => q = p
    /\ \A q \in DOMAIN downlink : downlink[q].what # "output" =>
           /\ downlink[q].id \notin shells
           /\ \A r \in DOMAIN downlink : q < r => downlink[r].id # downlink[q].id
    /\ (session # 0 /\ status = "closed" /\ ~ severed) =>
           /\ session \notin shells /\ ~ StartWaits(session)
           /\ \A q \in DOMAIN downlink : downlink[q].id # session

LEMMA ShellTypes == ASSUME ShellTypeOK
                    PROVE  /\ uplink \in Seq(ToEngineMsg) /\ downlink \in Seq(ToWindowMsg)
                           /\ opened \in Nat /\ MaxSessions \in Nat
  BY TerminalAssumption DEF ShellTypeOK

LEMMA QueuedIds == ASSUME ShellTypeOK
                   PROVE  /\ \A p \in DOMAIN uplink : uplink[p] \in ToEngineMsg /\ uplink[p].id \in Ids /\ uplink[p].id # 0
                          /\ \A p \in DOMAIN downlink : downlink[p] \in ToWindowMsg /\ downlink[p].id \in Ids
                          /\ \A i \in shells : i \in Ids /\ i # 0
<1>1. \A p \in DOMAIN uplink : uplink[p] \in ToEngineMsg
  BY ShellTypes
<1>2. \A p \in DOMAIN downlink : downlink[p] \in ToWindowMsg
  BY ShellTypes
<1>3. \A i \in Ids : i # 0
  BY ShellTypes DEF Ids
<1>4. shells \subseteq Ids
  BY DEF ShellTypeOK
<1> QED
  BY <1>1, <1>2, <1>3, <1>4 DEF ToEngineMsg, ToWindowMsg

LEMMA MsgTypes == /\ \A i \in Ids : Msg("start", i) \in ToEngineMsg /\ Msg("stop", i) \in ToEngineMsg /\ Msg("input", i) \in ToEngineMsg
                  /\ \A i \in Ids : Msg("output", i) \in ToWindowMsg /\ Msg("eof", i) \in ToWindowMsg /\ Msg("error", i) \in ToWindowMsg
                  /\ \A w, i : Msg(w, i).what = w /\ Msg(w, i).id = i
  BY DEF Msg, ToEngineMsg, ToWindowMsg

LEMMA StartShell == ShellInit => ShellInv
<1> SUFFICES ASSUME ShellInit PROVE ShellInv
  OBVIOUS
<1>1. uplink = <<>> /\ downlink = <<>> /\ DOMAIN uplink = {} /\ shells = {} /\ printed = {} /\ session = 0 /\ opened = 0
  BY DEF ShellInit
<1>2. uplink \in Seq(ToEngineMsg) /\ downlink \in Seq(ToWindowMsg)
  BY <1>1
<1>3. opened \in 0 .. MaxSessions /\ session \in 0 .. MaxSessions /\ shells \subseteq Ids /\ printed \subseteq Ids
  BY <1>1, TerminalAssumption
<1>4. status \in {"connecting", "open", "closed"} /\ linked \in BOOLEAN /\ severed \in BOOLEAN
  BY DEF ShellInit
<1>5. ShellTypeOK
  BY <1>2, <1>3, <1>4 DEF ShellTypeOK
<1> QED
  BY <1>1, <1>5 DEF ShellInv

LEMMA ShellInvGives == ShellInv => ShellTypeOK /\ ShellsAreOwned
<1> SUFFICES ASSUME ShellInv PROVE ShellsAreOwned
  BY DEF ShellInv
<1>1. uplink = <<>> => DOMAIN uplink = {}
  OBVIOUS
<1> QED
  BY <1>1 DEF ShellInv, ShellsAreOwned, StopWaits, StartWaits, EndKnown

\* What OpenSession and Unmount send: the queue grows at its end by what `new` says.
Grows(new) ==
    /\ uplink' \in Seq(ToEngineMsg)
    /\ \A i \in DOMAIN uplink : i \in DOMAIN uplink' /\ uplink'[i] = uplink[i]
    /\ \A m \in new : \E q \in DOMAIN uplink' : uplink'[q] = m /\ \A i \in DOMAIN uplink : i < q
    /\ \A i \in DOMAIN uplink' : i \in DOMAIN uplink \/ uplink'[i] \in new
    /\ \A i, j \in DOMAIN uplink' \ DOMAIN uplink : uplink'[i] = uplink'[j] => i = j

LEMMA GrowsByNone == ASSUME uplink \in Seq(ToEngineMsg), uplink' = uplink PROVE Grows({})
  BY DEF Grows

LEMMA GrowsByOne ==
    ASSUME uplink \in Seq(ToEngineMsg), NEW m \in ToEngineMsg, uplink' = Append(uplink, m) PROVE Grows({m})
<1>1. /\ uplink' \in Seq(ToEngineMsg) /\ DOMAIN uplink' = 1 .. Len(uplink) + 1 /\ DOMAIN uplink = 1 .. Len(uplink)
      /\ Len(uplink) \in Nat /\ uplink'[Len(uplink) + 1] = m /\ \A i \in DOMAIN uplink : uplink'[i] = uplink[i]
  OBVIOUS
<1> QED
  BY <1>1 DEF Grows

LEMMA GrowsByTwo ==
    ASSUME uplink \in Seq(ToEngineMsg), NEW m \in ToEngineMsg, NEW n \in ToEngineMsg, m # n,
           uplink' = Append(Append(uplink, m), n)
    PROVE  Grows({m, n})
<1> DEFINE k == Len(uplink)
<1>1. /\ uplink' \in Seq(ToEngineMsg) /\ DOMAIN uplink' = 1 .. k + 2 /\ DOMAIN uplink = 1 .. k
      /\ k \in Nat
  OBVIOUS
<1>2. uplink'[k + 1] = m /\ uplink'[k + 2] = n /\ \A i \in DOMAIN uplink : uplink'[i] = uplink[i]
  OBVIOUS
<1> HIDE DEF k
<1> QED
  BY <1>1, <1>2 DEF Grows

LEMMA OpenSessionGrows ==
    ASSUME ShellTypeOK, OpenSession, session \in 0 .. opened
    PROVE  Grows(IF session = 0 THEN {Msg("start", opened + 1)} ELSE {Msg("stop", session), Msg("start", opened + 1)})
<1>1. opened' = opened + 1 /\ session' = opened + 1 /\ opened < MaxSessions /\ uplink' = uplink \o Stopping \o <<Msg("start", session')>>
  BY DEF OpenSession
<1>2. opened + 1 \in Ids /\ (session # 0 => session \in Ids)
  BY <1>1, ShellTypes DEF Ids
<1>3. uplink \in Seq(ToEngineMsg)
  BY ShellTypes
<1> DEFINE m == Msg("start", opened + 1)  n == Msg("stop", session)
<1>4. m \in ToEngineMsg /\ (session # 0 => n \in ToEngineMsg)
  BY <1>2, MsgTypes
<1>5. Msg("start", session') = m /\ m # n
  BY <1>1, MsgTypes
<1>6. Stopping = IF session = 0 THEN <<>> ELSE <<n>>
  BY DEF Stopping
<1> HIDE DEF m, n
<1>7. CASE session = 0
  <2>1. uplink' = Append(uplink, m)
    BY <1>1, <1>3, <1>4, <1>5, <1>6, <1>7
  <2> QED
    BY <2>1, <1>3, <1>4, <1>7, GrowsByOne DEF m
<1>8. CASE session # 0
  <2>1. uplink' = uplink \o <<n>> \o <<m>>
    BY <1>1, <1>5, <1>6, <1>8
  <2>2. uplink \o <<n>> = Append(uplink, n) /\ Append(uplink, n) \in Seq(ToEngineMsg)
    BY <1>3, <1>4, <1>8
  <2>3. Append(uplink, n) \o <<m>> = Append(Append(uplink, n), m)
    BY <2>2, <1>4
  <2>4. uplink' = Append(Append(uplink, n), m)
    BY <2>1, <2>2, <2>3
  <2> QED
    <3>1. Grows({n, m})
      BY <2>4, <1>3, <1>4, <1>5, <1>8, GrowsByTwo
    <3> QED
      BY <3>1, <1>8 DEF m, n
<1> QED
  BY <1>7, <1>8

LEMMA OpenSessionInv == ASSUME ShellInv, OpenSession PROVE ShellInv'
<1>1. /\ opened' = opened + 1 /\ session' = opened + 1 /\ status' = "connecting" /\ printed' = {}
      /\ severed' = FALSE /\ shells' = shells /\ downlink' = downlink /\ linked' = linked /\ opened < MaxSessions
  BY DEF OpenSession
<1>2. opened \in Nat /\ session \in 0 .. opened
  BY ShellTypes DEF ShellInv, ShellTypeOK
<1> DEFINE new == IF session = 0 THEN {Msg("start", opened + 1)} ELSE {Msg("stop", session), Msg("start", opened + 1)}
<1>3. Grows(new)
  BY <1>2, OpenSessionGrows DEF ShellInv
<1>4. /\ \A m \in new : m.id <= opened + 1 /\ (m.what = "stop" => m.id = session /\ session # 0) 
      /\ \A m \in new : m.what = "start" => m.id = opened + 1
      /\ Msg("start", opened + 1) \in new /\ (session # 0 => Msg("stop", session) \in new)
  BY <1>2, MsgTypes
<1> HIDE DEF new
<1>5. ShellTypeOK'
  <2>1. opened' \in 0 .. MaxSessions /\ session' \in 0 .. MaxSessions
    BY <1>1, <1>2, ShellTypes DEF ShellInv
  <2>2. uplink' \in Seq(ToEngineMsg) /\ downlink' \in Seq(ToWindowMsg) /\ shells' \subseteq Ids /\ printed' \subseteq Ids
    BY <1>1, <1>3 DEF Grows, ShellInv, ShellTypeOK
  <2>3. status' \in {"connecting", "open", "closed"} /\ linked' \in BOOLEAN /\ severed' \in BOOLEAN
    BY <1>1 DEF ShellInv, ShellTypeOK
  <2> QED
    BY <2>1, <2>2, <2>3 DEF ShellTypeOK
<1>6. ASSUME NEW i \in shells' PROVE i <= opened' /\ (i # session' => StopWaits(i)')
  <2>1. i \in shells /\ i <= opened /\ (i # session => StopWaits(i))
    BY <1>1, <1>6 DEF ShellInv
  <2>2. CASE i = session
    <3>1. session # 0
      BY <2>1, <2>2, QueuedIds DEF ShellInv
    <3> QED
      BY <1>1, <1>2, <1>3, <1>4, <2>1, <2>2, <3>1 DEF Grows, StopWaits
  <2>3. CASE i # session
    <3>1. PICK q \in DOMAIN uplink : uplink[q] = Msg("stop", i)
      BY <2>1, <2>3 DEF StopWaits
    <3>2. i <= opened'
      BY <1>1, <1>2, <2>1, QueuedIds DEF Ids, ShellInv
    <3> QED
      BY <1>3, <3>1, <3>2 DEF Grows, StopWaits
  <2> QED
    BY <2>2, <2>3
<1>7. ASSUME NEW p \in DOMAIN uplink' PROVE uplink'[p].id <= opened' /\ (uplink'[p].what = "stop" => uplink'[p].id # session')
  <2>1. CASE p \in DOMAIN uplink
    <3>1. uplink'[p] = uplink[p] /\ uplink[p].id <= opened /\ uplink[p].id \in Ids
      BY <1>3, <2>1, QueuedIds DEF Grows, ShellInv
    <3> QED
      BY <3>1, <1>1, <1>2 DEF Ids
  <2>2. CASE uplink'[p] \in new
    BY <1>1, <1>2, <1>4, <2>2
  <2> QED
    BY <1>3, <2>1, <2>2 DEF Grows
<1>8. ASSUME NEW p \in DOMAIN uplink', uplink'[p].what = "start", uplink'[p].id # session'
      PROVE  \E q \in DOMAIN uplink' : p < q /\ uplink'[q] = Msg("stop", uplink'[p].id)
  <2>1. p \in DOMAIN uplink /\ uplink'[p] = uplink[p]
    BY <1>1, <1>3, <1>4, <1>8 DEF Grows
  <2>2. CASE uplink[p].id = session
    <3>1. session # 0
      BY <2>1, <2>2, QueuedIds DEF ShellInv
    <3>2. PICK q \in DOMAIN uplink' : uplink'[q] = Msg("stop", session) /\ \A i \in DOMAIN uplink : i < q
      BY <1>3, <1>4, <3>1 DEF Grows
    <3> QED
      BY <2>1, <2>2, <3>2
  <2>3. CASE uplink[p].id # session
    <3>1. PICK q \in DOMAIN uplink : p < q /\ uplink[q] = Msg("stop", uplink[p].id)
      BY <1>8, <2>1, <2>3 DEF ShellInv
    <3> QED
      BY <1>3, <2>1, <3>1 DEF Grows
  <2> QED
    BY <2>2, <2>3
<1>9. StartWaits(session)'
  BY <1>1, <1>3, <1>4 DEF Grows, StartWaits
<1> QED
  BY <1>1, <1>2, <1>5, <1>6, <1>7, <1>8, <1>9 DEF ShellInv

LEMMA UnmountInv == ASSUME ShellInv, Unmount PROVE ShellInv'
<1>1. /\ opened' = opened /\ session # 0 /\ session' = 0 /\ status' = status /\ printed' = {}
      /\ severed' = FALSE /\ shells' = shells /\ downlink' = downlink /\ linked' = linked
      /\ uplink' = uplink \o <<Msg("stop", session)>>
  BY DEF Unmount, Stopping
<1>2. opened \in Nat /\ session \in Ids /\ uplink \in Seq(ToEngineMsg) /\ session <= opened
  BY <1>1, ShellTypes DEF ShellInv, ShellTypeOK, Ids
<1> DEFINE m == Msg("stop", session)
<1>3. m \in ToEngineMsg /\ m.what = "stop" /\ m.id = session
  BY <1>2, MsgTypes
<1>4. Grows({m})
  <2> HIDE DEF m
  <2>1. uplink \o <<m>> = Append(uplink, m)
    BY <1>2, <1>3
  <2> QED
    BY <2>1, <1>1, <1>2, <1>3, GrowsByOne DEF m
<1> HIDE DEF m
<1>5. ShellTypeOK'
  <2>1. opened' \in 0 .. MaxSessions /\ session' \in 0 .. MaxSessions
    BY <1>1, <1>2, ShellTypes DEF ShellInv, ShellTypeOK
  <2>2. uplink' \in Seq(ToEngineMsg) /\ downlink' \in Seq(ToWindowMsg) /\ shells' \subseteq Ids /\ printed' \subseteq Ids
    BY <1>1, <1>4 DEF Grows, ShellInv, ShellTypeOK
  <2>3. status' \in {"connecting", "open", "closed"} /\ linked' \in BOOLEAN /\ severed' \in BOOLEAN
    BY <1>1 DEF ShellInv, ShellTypeOK
  <2> QED
    BY <2>1, <2>2, <2>3 DEF ShellTypeOK
<1>6. ASSUME NEW i \in shells' PROVE i <= opened' /\ (i # session' => StopWaits(i)')
  <2>1. i \in shells /\ i <= opened /\ (i # session => StopWaits(i))
    BY <1>1, <1>6 DEF ShellInv
  <2>2. CASE i = session
    BY <1>1, <1>4, <2>1, <2>2 DEF Grows, StopWaits, m
  <2>3. CASE i # session
    <3>1. PICK q \in DOMAIN uplink : uplink[q] = Msg("stop", i)
      BY <2>1, <2>3 DEF StopWaits
    <3> QED
      BY <1>1, <1>4, <2>1, <3>1 DEF Grows, StopWaits
  <2> QED
    BY <2>2, <2>3
<1>7. ASSUME NEW p \in DOMAIN uplink' PROVE uplink'[p].id <= opened' /\ (uplink'[p].what = "stop" => uplink'[p].id # session')
  <2>1. CASE p \in DOMAIN uplink
    <3>1. uplink'[p] = uplink[p] /\ uplink[p].id <= opened /\ uplink[p].id # 0
      BY <1>4, <2>1, QueuedIds DEF Grows, ShellInv
    <3> QED
      BY <3>1, <1>1
  <2>2. CASE uplink'[p] = m
    BY <1>1, <1>2, <1>3, <2>2
  <2> QED
    BY <1>4, <2>1, <2>2 DEF Grows
<1>8. ASSUME NEW p \in DOMAIN uplink', uplink'[p].what = "start", uplink'[p].id # session'
      PROVE  \E q \in DOMAIN uplink' : p < q /\ uplink'[q] = Msg("stop", uplink'[p].id)
  <2>1. p \in DOMAIN uplink /\ uplink'[p] = uplink[p]
    BY <1>1, <1>3, <1>4, <1>8 DEF Grows
  <2>2. CASE uplink[p].id = session
    <3>1. PICK q \in DOMAIN uplink' : uplink'[q] = m /\ \A i \in DOMAIN uplink : i < q
      BY <1>4 DEF Grows
    <3> QED
      BY <2>1, <2>2, <3>1 DEF m
  <2>3. CASE uplink[p].id # session
    <3>1. PICK q \in DOMAIN uplink : p < q /\ uplink[q] = Msg("stop", uplink[p].id)
      BY <1>8, <2>1, <2>3 DEF ShellInv
    <3> QED
      BY <1>4, <2>1, <3>1 DEF Grows
  <2> QED
    BY <2>2, <2>3
<1> QED
  BY <1>1, <1>2, <1>5, <1>6, <1>7, <1>8 DEF ShellInv

LEMMA KeystrokeInv == ASSUME ShellInv, Keystroke PROVE ShellInv'
<1> DEFINE m == Msg("input", session)
<1>1. /\ UNCHANGED <<opened, session, status, shells, downlink, printed, linked, severed>>
      /\ session # 0 /\ uplink' = Append(uplink, m)
  BY DEF Keystroke
<1>2. opened \in Nat /\ session \in Ids /\ uplink \in Seq(ToEngineMsg) /\ session <= opened
  BY <1>1, ShellTypes DEF ShellInv, ShellTypeOK, Ids
<1>3. m \in ToEngineMsg /\ m.what = "input" /\ m.id = session
  BY <1>2, MsgTypes
<1> HIDE DEF m
<1>4. Grows({m})
  BY <1>1, <1>2, <1>3, GrowsByOne
<1>5. ShellTypeOK'
  <2>1. uplink' \in Seq(ToEngineMsg)
    BY <1>4 DEF Grows
  <2> QED
    BY <2>1, <1>1 DEF ShellTypeOK, ShellInv
<1>6. ASSUME NEW i \in shells' PROVE i <= opened' /\ (i # session' => StopWaits(i)')
  BY <1>1, <1>4, <1>6 DEF Grows, StopWaits, ShellInv
<1>7. ASSUME NEW p \in DOMAIN uplink' PROVE uplink'[p].id <= opened' /\ (uplink'[p].what = "stop" => uplink'[p].id # session')
  BY <1>1, <1>2, <1>3, <1>4, <1>7 DEF Grows, ShellInv
<1>8. ASSUME NEW p \in DOMAIN uplink', uplink'[p].what = "start", uplink'[p].id # session'
      PROVE  \E q \in DOMAIN uplink' : p < q /\ uplink'[q] = Msg("stop", uplink'[p].id)
  <2>1. p \in DOMAIN uplink /\ uplink'[p] = uplink[p]
    BY <1>3, <1>4, <1>8 DEF Grows
  <2>2. PICK q \in DOMAIN uplink : p < q /\ uplink[q] = Msg("stop", uplink[p].id)
    BY <1>1, <1>8, <2>1 DEF ShellInv
  <2> QED
    BY <1>4, <2>1, <2>2 DEF Grows
<1>9. StartWaits(session) => StartWaits(session)'
  BY <1>1, <1>4 DEF Grows, StartWaits
<1>10. EndKnown(session) => EndKnown(session)'
  BY <1>1 DEF EndKnown
<1> QED
  BY <1>1, <1>5, <1>6, <1>7, <1>8, <1>9, <1>10 DEF ShellInv

\* The queue loses its first message, the others move up.
LEMMA TailOf ==
    ASSUME NEW T, NEW s \in Seq(T), s # <<>>
    PROVE  /\ Tail(s) \in Seq(T) /\ Head(s) = s[1] /\ 1 \in DOMAIN s
           /\ \A i \in DOMAIN Tail(s) : i + 1 \in DOMAIN s /\ Tail(s)[i] = s[i + 1] /\ i \in Nat /\ i >= 1
           /\ \A i \in DOMAIN s : i \in Nat /\ (i # 1 => i - 1 \in DOMAIN Tail(s) /\ Tail(s)[i - 1] = s[i])
  OBVIOUS

\* A message to the window does not hide one that is there.
LEMMA Added ==
    ASSUME NEW T, NEW s \in Seq(T), NEW x \in T
    PROVE  /\ Append(s, x) \in Seq(T)
           /\ \A i \in DOMAIN s : i \in DOMAIN Append(s, x) /\ Append(s, x)[i] = s[i]
           /\ \E i \in DOMAIN Append(s, x) : Append(s, x)[i] = x
           /\ \A i \in DOMAIN Append(s, x) : i \in DOMAIN s \/ (Append(s, x)[i] = x /\ \A j \in DOMAIN Append(s, x) : j <= i)
<1>1. /\ Append(s, x) \in Seq(T) /\ Len(s) + 1 \in DOMAIN Append(s, x) /\ Append(s, x)[Len(s) + 1] = x
      /\ \A i \in DOMAIN s : i \in DOMAIN Append(s, x) /\ Append(s, x)[i] = s[i]
  OBVIOUS
<1>2. \A i \in DOMAIN Append(s, x) : i \in DOMAIN s \/ (Append(s, x)[i] = x /\ \A j \in DOMAIN Append(s, x) : j <= i)
  OBVIOUS
<1> QED
  BY <1>1, <1>2

LEMMA EngineReadsInv == ASSUME ShellInv, EngineReads PROVE ShellInv'
<1> DEFINE m == Head(uplink)
<1>1. uplink \in Seq(ToEngineMsg) /\ uplink # <<>> /\ uplink' = Tail(uplink) /\ downlink \in Seq(ToWindowMsg)
      /\ UNCHANGED <<opened, session, status, printed, linked, severed>>
  BY ShellTypes DEF EngineReads, ShellInv
<1>2. /\ uplink' \in Seq(ToEngineMsg) /\ m = uplink[1] /\ 1 \in DOMAIN uplink
      /\ \A i \in DOMAIN uplink' : i + 1 \in DOMAIN uplink /\ uplink'[i] = uplink[i + 1] /\ i \in Nat /\ i >= 1
      /\ \A i \in DOMAIN uplink : i \in Nat /\ (i # 1 => i - 1 \in DOMAIN uplink' /\ uplink'[i - 1] = uplink[i])
  BY <1>1, TailOf
<1>3. m \in ToEngineMsg /\ m.id \in Ids /\ m.id <= opened /\ m.what \in {"start", "stop", "input"} /\ m = Msg(m.what, m.id)
  <2>1. m \in ToEngineMsg /\ m.id <= opened
    BY <1>2, QueuedIds DEF ShellInv
  <2> HIDE DEF m
  <2> QED
    BY <2>1 DEF ToEngineMsg, Msg
<1>4. \/ m.what = "start" /\ shells' = shells \cup {m.id} /\ downlink' = downlink
      \/ m.what = "start" /\ shells' = shells /\ downlink' = Append(downlink, Msg("error", m.id))
      \/ m.what = "stop" /\ shells' = shells \ {m.id} /\ downlink' \in {downlink, Append(downlink, Msg("eof", m.id))}
      \/ m.what = "input" /\ shells' = shells /\ downlink' = downlink
  <2> HIDE DEF m
  <2> QED
    BY <1>3 DEF EngineReads, m
<1> HIDE DEF m
<1>5. /\ downlink' \in Seq(ToWindowMsg)
      /\ \A i \in DOMAIN downlink : i \in DOMAIN downlink' /\ downlink'[i] = downlink[i]
  <2>1. Msg("error", m.id) \in ToWindowMsg /\ Msg("eof", m.id) \in ToWindowMsg
    BY <1>3, MsgTypes
  <2>2. downlink' = downlink \/ \E x \in ToWindowMsg : downlink' = Append(downlink, x)
    BY <1>4, <2>1
  <2>3. CASE downlink' = downlink
    BY <1>1, <2>3
  <2>4. CASE downlink' # downlink
    <3>1. PICK x \in ToWindowMsg : downlink' = Append(downlink, x)
      BY <2>2, <2>4
    <3> QED
      BY <1>1, <3>1, Added
  <2> QED
    BY <2>3, <2>4
<1>6. ShellTypeOK'
  <2>1. shells' \subseteq Ids
    BY <1>3, <1>4 DEF ShellInv, ShellTypeOK
  <2> QED
    BY <1>1, <1>2, <1>5, <2>1 DEF ShellInv, ShellTypeOK
<1>7. ASSUME NEW i \in shells' PROVE i <= opened' /\ (i # session' => StopWaits(i)')
  <2>1. CASE i \in shells /\ ~ (m.what = "stop" /\ m.id = i)
    <3>1. i <= opened /\ (i # session => StopWaits(i))
      BY <2>1 DEF ShellInv
    <3>2. ASSUME i # session PROVE StopWaits(i)'
      <4>1. PICK q \in DOMAIN uplink : uplink[q] = Msg("stop", i)
        BY <3>1, <3>2 DEF StopWaits
      <4>2. q # 1
        BY <1>2, <2>1, <4>1, MsgTypes
      <4> QED
        BY <1>2, <4>1, <4>2 DEF StopWaits
    <3> QED
      BY <1>1, <3>1, <3>2
  <2>2. CASE m.what = "start" /\ i = m.id
    <3>1. ASSUME i # session PROVE StopWaits(i)'
      <4>1. PICK q \in DOMAIN uplink : 1 < q /\ uplink[q] = Msg("stop", i)
        BY <1>2, <2>2, <3>1 DEF ShellInv
      <4> QED
        BY <1>2, <4>1 DEF StopWaits
    <3> QED
      BY <1>1, <1>3, <2>2, <3>1
  <2> QED
    BY <1>4, <1>7, <2>1, <2>2
<1>8. ASSUME NEW p \in DOMAIN uplink' PROVE uplink'[p].id <= opened' /\ (uplink'[p].what = "stop" => uplink'[p].id # session')
  BY <1>1, <1>2, <1>8 DEF ShellInv
<1>9. ASSUME NEW p \in DOMAIN uplink', uplink'[p].what = "start", uplink'[p].id # session'
      PROVE  \E q \in DOMAIN uplink' : p < q /\ uplink'[q] = Msg("stop", uplink'[p].id)
  <2>1. p + 1 \in DOMAIN uplink /\ uplink'[p] = uplink[p + 1] /\ p \in Nat /\ p >= 1
    BY <1>2, <1>9
  <2>2. PICK q \in DOMAIN uplink : p + 1 < q /\ uplink[q] = Msg("stop", uplink[p + 1].id)
    BY <1>1, <1>9, <2>1 DEF ShellInv
  <2>3. q \in Nat /\ q # 1 /\ q - 1 \in DOMAIN uplink' /\ uplink'[q - 1] = uplink[q] /\ p < q - 1
    BY <1>2, <2>1, <2>2
  <2> QED
    BY <2>1, <2>2, <2>3
<1>10. ASSUME session' # 0, status' # "closed", ~ severed' PROVE StartWaits(session)' \/ session' \in shells' \/ EndKnown(session)'
  <2>1. StartWaits(session) \/ session \in shells \/ EndKnown(session)
    BY <1>1, <1>10 DEF ShellInv
  <2>2. CASE EndKnown(session)
    BY <1>1, <1>5, <2>2 DEF EndKnown
  <2>3. CASE session \in shells
    <3>1. ~ (m.what = "stop" /\ m.id = session)
      BY <1>2 DEF ShellInv
    <3> QED
      BY <1>1, <1>4, <2>3, <3>1
  <2>4. CASE StartWaits(session)
    <3>1. PICK q \in DOMAIN uplink : uplink[q] = Msg("start", session)
      BY <2>4 DEF StartWaits
    <3>2. CASE q # 1
      BY <1>1, <1>2, <3>1, <3>2 DEF StartWaits
    <3>3. CASE q = 1
      <4>1. m.what = "start" /\ m.id = session
        BY <1>2, <3>1, <3>3, MsgTypes
      <4>2. CASE session \in shells'
        BY <1>1, <4>2
      <4>3. CASE downlink' = Append(downlink, Msg("error", session))
        <5>1. Msg("error", session) \in ToWindowMsg /\ Msg("error", session).id = session /\ Msg("error", session).what = "error"
          BY <1>3, <4>1, MsgTypes
        <5>2. \E i \in DOMAIN downlink' : downlink'[i] = Msg("error", session)
          <6> DEFINE x == Msg("error", session)
          <6>1. x \in ToWindowMsg
            BY <5>1
          <6> HIDE DEF x
          <6>2. \E i \in DOMAIN Append(downlink, x) : Append(downlink, x)[i] = x
            BY <1>1, <6>1, Added
          <6> QED
            BY <4>3, <6>2 DEF x
        <5> QED
          BY <1>1, <5>1, <5>2 DEF EndKnown
      <4> QED
        BY <1>4, <4>1, <4>2, <4>3
    <3> QED
      BY <3>2, <3>3
  <2> QED
    BY <2>1, <2>2, <2>3, <2>4
<1> QED
  BY <1>1, <1>6, <1>7, <1>8, <1>9, <1>10 DEF ShellInv

LEMMA OutputInv == ASSUME ShellInv, NEW i \in shells, Output(i) PROVE ShellInv'
<1>1. /\ UNCHANGED <<opened, session, status, uplink, printed, linked, severed>>
      /\ uplink \in Seq(ToEngineMsg) /\ downlink \in Seq(ToWindowMsg) /\ i \in Ids
  BY ShellTypes, QueuedIds DEF Output, ShellInv
<1>2. PICK x \in ToWindowMsg : /\ downlink' = Append(downlink, x) /\ x.id = i
                               /\ shells' = shells \/ (shells' = shells \ {i} /\ x.what # "output")
  <2>1. Msg("output", i) \in ToWindowMsg /\ Msg("eof", i) \in ToWindowMsg
    BY <1>1, MsgTypes
  <2> QED
    BY <2>1, MsgTypes DEF Output
<1>3. /\ downlink' \in Seq(ToWindowMsg)
      /\ \A j \in DOMAIN downlink : j \in DOMAIN downlink' /\ downlink'[j] = downlink[j]
      /\ \E j \in DOMAIN downlink' : downlink'[j] = x
  BY <1>1, <1>2, Added
<1>4. ShellTypeOK'
  BY <1>1, <1>2, <1>3 DEF ShellInv, ShellTypeOK
<1>5. \A j \in shells' : j <= opened' /\ (j # session' => StopWaits(j)')
  BY <1>1, <1>2 DEF ShellInv, StopWaits
<1>6. \A p \in DOMAIN uplink' : uplink'[p].id <= opened' /\ (uplink'[p].what = "stop" => uplink'[p].id # session')
  BY <1>1 DEF ShellInv
<1>7. \A p \in DOMAIN uplink' : (uplink'[p].what = "start" /\ uplink'[p].id # session') =>
           \E q \in DOMAIN uplink' : p < q /\ uplink'[q] = Msg("stop", uplink'[p].id)
  BY <1>1 DEF ShellInv
<1>8. ASSUME session' # 0, status' # "closed", ~ severed' PROVE StartWaits(session)' \/ session' \in shells' \/ EndKnown(session)'
  <2>1. StartWaits(session) \/ session \in shells \/ EndKnown(session)
    BY <1>1, <1>8 DEF ShellInv
  <2>2. EndKnown(session) => EndKnown(session)'
    BY <1>1, <1>3 DEF EndKnown
  <2>3. StartWaits(session) => StartWaits(session)'
    BY <1>1 DEF StartWaits
  <2>4. ASSUME session \in shells, session \notin shells' PROVE EndKnown(session)'
    BY <1>1, <1>2, <1>3, <2>4 DEF EndKnown
  <2> QED
    BY <1>1, <2>1, <2>2, <2>3, <2>4
<1> QED
  BY <1>1, <1>4, <1>5, <1>6, <1>7, <1>8 DEF ShellInv

LEMMA WindowReadsInv == ASSUME ShellInv, OrderInv, WindowReads PROVE ShellInv'
<1> DEFINE m == Head(downlink)
<1>1. /\ UNCHANGED <<opened, session, uplink, shells, linked, severed>> /\ downlink' = Tail(downlink)
      /\ downlink \in Seq(ToWindowMsg) /\ downlink # <<>> /\ uplink \in Seq(ToEngineMsg)
  BY ShellTypes DEF WindowReads, ShellInv
<1>2. /\ downlink' \in Seq(ToWindowMsg) /\ m = downlink[1] /\ 1 \in DOMAIN downlink
      /\ \A i \in DOMAIN downlink : i \in Nat /\ (i # 1 => i - 1 \in DOMAIN downlink' /\ downlink'[i - 1] = downlink[i])
  BY <1>1, TailOf
<1>3. m.id \in Ids /\ m.what \in {"output", "eof", "error"}
  BY <1>2, QueuedIds DEF ShellInv, ToWindowMsg
<1>4. \/ m.id # session /\ status' = status /\ printed' = printed
      \/ m.id = session /\ m.what = "output" /\ status' = "open" /\ printed' = printed \cup {m.id}
      \/ m.id = session /\ m.what # "output" /\ status' = "closed" /\ printed' = printed
  BY DEF WindowReads, Shows
<1> HIDE DEF m
<1>5. ShellTypeOK'
  <2>1. printed' \subseteq Ids /\ status' \in {"connecting", "open", "closed"}
    BY <1>3, <1>4 DEF ShellInv, ShellTypeOK
  <2> QED
    BY <1>1, <1>2, <2>1 DEF ShellInv, ShellTypeOK
<1>6. printed' \subseteq {session'} /\ session' <= opened'
  BY <1>1, <1>4 DEF ShellInv
<1>7. \A j \in shells' : j <= opened' /\ (j # session' => StopWaits(j)')
  BY <1>1 DEF ShellInv, StopWaits
<1>8. \A p \in DOMAIN uplink' : uplink'[p].id <= opened' /\ (uplink'[p].what = "stop" => uplink'[p].id # session')
  BY <1>1 DEF ShellInv
<1>9. \A p \in DOMAIN uplink' : (uplink'[p].what = "start" /\ uplink'[p].id # session') =>
           \E q \in DOMAIN uplink' : p < q /\ uplink'[q] = Msg("stop", uplink'[p].id)
  BY <1>1 DEF ShellInv
<1>10. ASSUME session' # 0, status' # "closed", ~ severed' PROVE StartWaits(session)' \/ session' \in shells' \/ EndKnown(session)'
  <2>1. CASE StartWaits(session) \/ session \in shells
    BY <1>1, <2>1 DEF StartWaits
  <2>2. CASE EndKnown(session)
    <3>1. PICK q \in DOMAIN downlink : downlink[q].id = session /\ downlink[q].what # "output"
      BY <2>2 DEF EndKnown
    <3>2. q # 1
      BY <1>2, <1>4, <1>10, <3>1
    <3> QED
      BY <1>1, <1>2, <3>1, <3>2 DEF EndKnown
  <2>3. CASE m.id = session /\ m.what = "output"
    <3>1. status' = "open"
      BY <1>4, <2>3
    <3>2. CASE status # "closed"
      BY <1>1, <1>10, <2>1, <2>2, <3>2 DEF ShellInv
    <3>3. CASE status = "closed"
      BY <1>1, <1>2, <1>10, <2>3, <3>3 DEF OrderInv
    <3> QED
      BY <3>2, <3>3
  <2>4. CASE ~ (m.id = session /\ m.what = "output")
    BY <1>1, <1>4, <1>10, <2>1, <2>2, <2>4 DEF ShellInv
  <2> QED
    BY <2>3, <2>4
<1> QED
  BY <1>1, <1>5, <1>6, <1>7, <1>8, <1>9, <1>10 DEF ShellInv

LEMMA SeverInv == ASSUME ShellInv, Sever PROVE ShellInv'
<1>1. /\ linked' = FALSE /\ severed' = (session # 0) /\ uplink' = <<>> /\ downlink' = <<>> /\ shells' = {}
      /\ UNCHANGED <<opened, session, status, printed>>
  BY DEF Sever
<1>2. DOMAIN uplink' = {} /\ uplink' \in Seq(ToEngineMsg) /\ downlink' \in Seq(ToWindowMsg)
  BY <1>1
<1>3. linked' \in BOOLEAN /\ severed' \in BOOLEAN /\ (session # 0 => severed')
  BY <1>1
<1>4. ShellTypeOK'
  BY <1>1, <1>2, <1>3 DEF ShellInv, ShellTypeOK
<1> QED
  BY <1>1, <1>2, <1>3, <1>4 DEF ShellInv

\* A new session's start is the only one of its id, and nothing is known of that id yet.
LEMMA OpenSessionOrder == ASSUME ShellInv, OrderInv, OpenSession PROVE OrderInv'
<1>1. /\ opened' = opened + 1 /\ session' = opened + 1 /\ status' = "connecting"
      /\ severed' = FALSE /\ shells' = shells /\ downlink' = downlink
  BY DEF OpenSession
<1>2. opened \in Nat /\ session \in 0 .. opened
  BY ShellTypes DEF ShellInv, ShellTypeOK
<1> DEFINE m == Msg("start", opened + 1)
           new == IF session = 0 THEN {m} ELSE {Msg("stop", session), m}
<1>3. Grows(new)
  BY <1>2, OpenSessionGrows DEF ShellInv
<1>4. m.id = opened + 1 /\ m.what = "start" /\ \A x \in new : x.what = "start" => x = m
  BY MsgTypes
<1>5. ASSUME NEW q \in DOMAIN downlink PROVE downlink[q].id <= opened' /\ downlink[q].id # opened + 1
  BY <1>1, <1>2, QueuedIds DEF ShellInv, OrderInv, Ids
<1>6. ASSUME NEW p \in DOMAIN uplink PROVE uplink[p].id # opened + 1
  BY <1>2, QueuedIds DEF ShellInv, Ids
<1>7. opened + 1 \notin shells
  BY <1>2, QueuedIds DEF ShellInv, Ids
<1> HIDE DEF m, new
<1>8. ASSUME NEW p \in DOMAIN uplink', uplink'[p].what = "start"
      PROVE  /\ uplink'[p].id \notin shells'
             /\ \A q \in DOMAIN downlink' : downlink'[q].id # uplink'[p].id
             /\ \A q \in DOMAIN uplink' : uplink'[q] = uplink'[p] => q = p
  <2>1. CASE p \in DOMAIN uplink
    <3>1. uplink'[p] = uplink[p] /\ uplink[p].what = "start"
      BY <1>3, <1>8, <2>1 DEF Grows
    <3>2. ASSUME NEW q \in DOMAIN uplink', uplink'[q] = uplink'[p] PROVE q = p
      <4>1. uplink'[q] \notin new
        BY <1>4, <1>6, <2>1, <3>1, <3>2
      <4>2. q \in DOMAIN uplink /\ uplink'[q] = uplink[q]
        BY <1>3, <4>1 DEF Grows
      <4> QED
        BY <2>1, <3>1, <3>2, <4>2 DEF OrderInv
    <3> QED
      BY <1>1, <2>1, <3>1, <3>2 DEF OrderInv
  <2>2. CASE p \notin DOMAIN uplink
    <3>1. uplink'[p] = m
      BY <1>3, <1>4, <1>8, <2>2 DEF Grows
    <3>2. \A q \in DOMAIN uplink : uplink'[q] # m
      BY <1>3, <1>4, <1>6 DEF Grows
    <3>3. \A q \in DOMAIN uplink' : uplink'[q] = uplink'[p] => q = p
      BY <1>3, <2>2, <3>1, <3>2 DEF Grows
    <3> QED
      BY <1>1, <1>4, <1>5, <1>7, <3>1, <3>3
  <2> QED
    BY <2>1, <2>2
<1>9. \A q \in DOMAIN downlink' : downlink'[q].what # "output" =>
           /\ downlink'[q].id \notin shells'
           /\ \A r \in DOMAIN downlink' : q < r => downlink'[r].id # downlink'[q].id
  BY <1>1 DEF OrderInv
<1> QED
  BY <1>1, <1>5, <1>8, <1>9 DEF OrderInv

\* Stops and keystrokes are no starts.
LEMMA SentOrder ==
    ASSUME ShellInv, OrderInv, NEW m, m.what # "start", Grows({m}), UNCHANGED <<opened, shells, downlink, status>>,
           session' # 0 => session' = session /\ severed' = severed
    PROVE  OrderInv'
<1>1. ASSUME NEW p \in DOMAIN uplink', uplink'[p].what = "start" PROVE p \in DOMAIN uplink /\ uplink'[p] = uplink[p]
  BY <1>1 DEF Grows
<1>2. ASSUME NEW p \in DOMAIN uplink', uplink'[p].what = "start"
      PROVE  /\ uplink'[p].id \notin shells'
             /\ \A q \in DOMAIN downlink' : downlink'[q].id # uplink'[p].id
             /\ \A q \in DOMAIN uplink' : uplink'[q] = uplink'[p] => q = p
  <2>1. p \in DOMAIN uplink /\ uplink'[p] = uplink[p]
    BY <1>1, <1>2
  <2>2. ASSUME NEW q \in DOMAIN uplink', uplink'[q] = uplink'[p] PROVE q = p
    <3>1. q \in DOMAIN uplink /\ uplink'[q] = uplink[q]
      BY <1>1, <1>2, <2>2
    <3> QED
      BY <1>2, <2>1, <2>2, <3>1 DEF OrderInv
  <2> QED
    BY <1>2, <2>1, <2>2 DEF OrderInv
<1>3. (session' # 0 /\ status' = "closed" /\ ~ severed') =>
           /\ session' \notin shells' /\ ~ StartWaits(session)'
           /\ \A q \in DOMAIN downlink' : downlink'[q].id # session'
  <2> SUFFICES ASSUME session' # 0, status' = "closed", ~ severed' PROVE ~ StartWaits(session)'
    BY DEF OrderInv
  <2>1. ~ StartWaits(session) /\ session' = session
    BY DEF OrderInv
  <2> QED
    BY <1>1, <2>1, MsgTypes DEF StartWaits
<1> QED
  BY <1>2, <1>3 DEF OrderInv

LEMMA UnmountOrder == ASSUME ShellInv, OrderInv, Unmount PROVE OrderInv'
<1> DEFINE m == Msg("stop", session)
<1>1. /\ UNCHANGED <<opened, shells, downlink, status>> /\ session # 0 /\ session' = 0
      /\ uplink' = uplink \o <<m>>
  BY DEF Unmount, Stopping
<1>2. m \in ToEngineMsg /\ m.what # "start" /\ uplink \in Seq(ToEngineMsg)
  BY <1>1, ShellTypes, MsgTypes DEF ShellInv, ShellTypeOK, Ids
<1> HIDE DEF m
<1>3. uplink' = Append(uplink, m)
  BY <1>1, <1>2
<1>4. Grows({m})
  BY <1>2, <1>3, GrowsByOne
<1> QED
  BY <1>1, <1>2, <1>4, SentOrder

LEMMA KeystrokeOrder == ASSUME ShellInv, OrderInv, Keystroke PROVE OrderInv'
<1> DEFINE m == Msg("input", session)
<1>1. /\ UNCHANGED <<opened, session, status, shells, downlink, printed, linked, severed>>
      /\ session # 0 /\ uplink' = Append(uplink, m)
  BY DEF Keystroke
<1>2. m \in ToEngineMsg /\ m.what # "start" /\ uplink \in Seq(ToEngineMsg)
  BY <1>1, ShellTypes, MsgTypes DEF ShellInv, ShellTypeOK, Ids
<1> HIDE DEF m
<1>3. Grows({m})
  BY <1>1, <1>2, GrowsByOne
<1> QED
  BY <1>1, <1>2, <1>3, SentOrder

LEMMA EngineReadsOrder == ASSUME ShellInv, OrderInv, EngineReads PROVE OrderInv'
<1> DEFINE m == Head(uplink)
<1>1. uplink \in Seq(ToEngineMsg) /\ uplink # <<>> /\ uplink' = Tail(uplink) /\ downlink \in Seq(ToWindowMsg)
      /\ UNCHANGED <<opened, session, status, severed>>
  BY ShellTypes DEF EngineReads, ShellInv
<1>2. /\ m = uplink[1] /\ 1 \in DOMAIN uplink
      /\ \A i \in DOMAIN uplink' : i + 1 \in DOMAIN uplink /\ uplink'[i] = uplink[i + 1] /\ i \in Nat /\ i >= 1
  BY <1>1, TailOf
<1>3. m.id \in Ids /\ m.id <= opened /\ m = Msg(m.what, m.id)
  <2>1. m \in ToEngineMsg /\ m.id <= opened
    BY <1>2, QueuedIds DEF ShellInv
  <2> HIDE DEF m
  <2> QED
    BY <2>1 DEF ToEngineMsg, Msg
<1>4. \/ m.what = "start" /\ shells' = shells \cup {m.id} /\ downlink' = downlink
      \/ m.what = "start" /\ shells' = shells /\ downlink' = Append(downlink, Msg("error", m.id))
      \/ m.what = "stop" /\ shells' = shells \ {m.id} /\ downlink' = downlink
      \/ m.what = "stop" /\ m.id \in shells /\ shells' = shells \ {m.id} /\ downlink' = Append(downlink, Msg("eof", m.id))
      \/ m.what = "input" /\ shells' = shells /\ downlink' = downlink
  <2>1. m.what \in {"start", "stop", "input"}
    BY <1>2, QueuedIds DEF ShellInv, ToEngineMsg
  <2> HIDE DEF m
  <2> QED
    BY <2>1 DEF EngineReads, m
<1> HIDE DEF m
<1>5. \A p \in DOMAIN uplink' : uplink'[p].what = "start" =>
        /\ uplink'[p].id \notin shells /\ \A q \in DOMAIN downlink : downlink[q].id # uplink'[p].id
        /\ \A q \in DOMAIN uplink' : uplink'[q] = uplink'[p] => q = p
        /\ m.what = "start" => m.id # uplink'[p].id
  <2> SUFFICES ASSUME NEW p \in DOMAIN uplink', uplink'[p].what = "start"
               PROVE  /\ uplink'[p].id \notin shells /\ \A q \in DOMAIN downlink : downlink[q].id # uplink'[p].id
                      /\ \A q \in DOMAIN uplink' : uplink'[q] = uplink'[p] => q = p
                      /\ m.what = "start" => m.id # uplink'[p].id
    OBVIOUS
  <2>1. p + 1 \in DOMAIN uplink /\ uplink'[p] = uplink[p + 1] /\ p \in Nat /\ p >= 1
    BY <1>2
  <2>2. \A q \in DOMAIN uplink' : uplink'[q] = uplink'[p] => q = p
    BY <1>2, <2>1 DEF OrderInv
  <2>3. ASSUME m.what = "start", m.id = uplink[p + 1].id PROVE FALSE
    <3>1. uplink[p + 1] = Msg("start", m.id)
      BY <2>1, <2>3, QueuedIds DEF ShellInv, ToEngineMsg, Msg
    <3>2. uplink[1] = uplink[p + 1]
      BY <1>2, <1>3, <2>3, <3>1
    <3> QED
      BY <1>2, <2>1, <3>2 DEF OrderInv
  <2> QED
    BY <2>1, <2>2, <2>3 DEF OrderInv
<1>6. (session' # 0 /\ status' = "closed" /\ ~ severed') => m.id # session \/ (m.what # "start" /\ m.what # "stop")
  BY <1>1, <1>2, <1>3 DEF OrderInv, ShellInv, StartWaits
<1>7. ~ StartWaits(session) => ~ StartWaits(session)'
  BY <1>1, <1>2 DEF StartWaits
<1>8. m.what = "start" => m.id \notin shells /\ \A q \in DOMAIN downlink : downlink[q].id # m.id
  BY <1>2 DEF OrderInv
<1>9. CASE downlink' = downlink
  BY <1>1, <1>4, <1>5, <1>6, <1>7, <1>8, <1>9 DEF OrderInv
<1>10. ASSUME NEW x \in ToWindowMsg, downlink' = Append(downlink, x), x.id = m.id, x.what # "output", m.id \notin shells',
              shells' \subseteq shells, m.id \in shells \/ m.what = "start", m.what # "input"
       PROVE  OrderInv'
  <2>1. /\ \A i \in DOMAIN downlink : i \in DOMAIN downlink' /\ downlink'[i] = downlink[i]
        /\ \A i \in DOMAIN downlink' : i \in DOMAIN downlink \/ (downlink'[i] = x /\ \A j \in DOMAIN downlink' : j <= i)
        /\ \A i \in DOMAIN downlink' : i \in Nat
    BY <1>1, <1>10, Added
  <2>2. \A q \in DOMAIN downlink' : downlink'[q].id <= opened'
    BY <1>1, <1>3, <1>10, <2>1 DEF OrderInv
  <2>3. \A p \in DOMAIN uplink' : uplink'[p].what = "start" =>
           /\ uplink'[p].id \notin shells'
           /\ \A q \in DOMAIN downlink' : downlink'[q].id # uplink'[p].id
           /\ \A q \in DOMAIN uplink' : uplink'[q] = uplink'[p] => q = p
    BY <1>5, <1>10, <2>1
  <2>4. ASSUME NEW q \in DOMAIN downlink', downlink'[q].what # "output", NEW r \in DOMAIN downlink', q < r
        PROVE  downlink'[r].id # downlink'[q].id
    <3>1. q \in DOMAIN downlink /\ downlink'[q] = downlink[q]
      BY <2>1, <2>4
    <3>2. CASE r \in DOMAIN downlink
      BY <2>1, <2>4, <3>1, <3>2 DEF OrderInv
    <3>3. CASE downlink'[r] = x
      BY <1>8, <1>10, <2>4, <3>1, <3>3 DEF OrderInv
    <3> QED
      BY <2>1, <3>2, <3>3
  <2>5. \A q \in DOMAIN downlink' : downlink'[q].what # "output" => downlink'[q].id \notin shells'
    BY <1>10, <2>1 DEF OrderInv
  <2>6. (session' # 0 /\ status' = "closed" /\ ~ severed') =>
           /\ session' \notin shells' /\ ~ StartWaits(session)'
           /\ \A q \in DOMAIN downlink' : downlink'[q].id # session'
    <3> SUFFICES ASSUME session' # 0, status' = "closed", ~ severed'
                 PROVE  /\ session' \notin shells' /\ ~ StartWaits(session)'
                        /\ \A q \in DOMAIN downlink' : downlink'[q].id # session'
      OBVIOUS
    <3>1. session \notin shells /\ ~ StartWaits(session) /\ \A q \in DOMAIN downlink : downlink[q].id # session
      BY <1>1 DEF OrderInv
    <3>2. m.id # session
      BY <1>4, <1>6, <1>10
    <3>3. \A q \in DOMAIN downlink' : downlink'[q].id # session
      BY <1>10, <2>1, <3>1, <3>2
    <3> QED
      BY <1>1, <1>7, <1>10, <3>1, <3>3
  <2> QED
    BY <2>2, <2>3, <2>4, <2>5, <2>6 DEF OrderInv
<1>11. CASE m.what = "start" /\ shells' = shells /\ downlink' = Append(downlink, Msg("error", m.id))
  BY <1>3, <1>8, <1>10, <1>11, MsgTypes
<1>12. CASE m.what = "stop" /\ m.id \in shells /\ shells' = shells \ {m.id} /\ downlink' = Append(downlink, Msg("eof", m.id))
  BY <1>3, <1>10, <1>12, MsgTypes
<1> QED
  BY <1>4, <1>9, <1>11, <1>12

LEMMA OutputOrder == ASSUME ShellInv, OrderInv, NEW i \in shells, Output(i) PROVE OrderInv'
<1>1. /\ UNCHANGED <<opened, session, status, uplink, severed>>
      /\ downlink \in Seq(ToWindowMsg) /\ i \in Ids /\ i <= opened
  BY ShellTypes, QueuedIds DEF Output, ShellInv
<1>2. PICK x \in ToWindowMsg : /\ downlink' = Append(downlink, x) /\ x.id = i
                               /\ shells' \subseteq shells /\ (x.what # "output" => i \notin shells')
  <2>1. Msg("output", i) \in ToWindowMsg /\ Msg("eof", i) \in ToWindowMsg
    BY <1>1, MsgTypes
  <2> QED
    BY <2>1, MsgTypes DEF Output
<1>3. /\ \A j \in DOMAIN downlink : j \in DOMAIN downlink' /\ downlink'[j] = downlink[j]
      /\ \A j \in DOMAIN downlink' : j \in DOMAIN downlink \/ (downlink'[j] = x /\ \A k \in DOMAIN downlink' : k <= j)
      /\ \A j \in DOMAIN downlink' : j \in Nat
  BY <1>1, <1>2, Added
<1>4. \A q \in DOMAIN downlink' : downlink'[q].id <= opened'
  BY <1>1, <1>2, <1>3 DEF OrderInv
<1>5. \A p \in DOMAIN uplink' : uplink'[p].what = "start" =>
           /\ uplink'[p].id \notin shells'
           /\ \A q \in DOMAIN downlink' : downlink'[q].id # uplink'[p].id
           /\ \A q \in DOMAIN uplink' : uplink'[q] = uplink'[p] => q = p
  BY <1>1, <1>2, <1>3 DEF OrderInv
<1>6. ASSUME NEW q \in DOMAIN downlink', downlink'[q].what # "output", NEW r \in DOMAIN downlink', q < r
      PROVE  downlink'[r].id # downlink'[q].id
  <2>1. q \in DOMAIN downlink /\ downlink'[q] = downlink[q]
    BY <1>3, <1>6
  <2>2. CASE r \in DOMAIN downlink
    BY <1>3, <1>6, <2>1, <2>2 DEF OrderInv
  <2>3. CASE downlink'[r] = x
    BY <1>2, <1>6, <2>1, <2>3 DEF OrderInv
  <2> QED
    BY <1>3, <2>2, <2>3
<1>7. \A q \in DOMAIN downlink' : downlink'[q].what # "output" => downlink'[q].id \notin shells'
  BY <1>2, <1>3 DEF OrderInv
<1>8. (session' # 0 /\ status' = "closed" /\ ~ severed') =>
           /\ session' \notin shells' /\ ~ StartWaits(session)'
           /\ \A q \in DOMAIN downlink' : downlink'[q].id # session'
  BY <1>1, <1>2, <1>3 DEF OrderInv, StartWaits
<1> QED
  BY <1>4, <1>5, <1>6, <1>7, <1>8 DEF OrderInv

LEMMA WindowReadsOrder == ASSUME ShellInv, OrderInv, WindowReads PROVE OrderInv'
<1> DEFINE m == Head(downlink)
<1>1. /\ UNCHANGED <<opened, session, uplink, shells, severed>> /\ downlink' = Tail(downlink)
      /\ downlink \in Seq(ToWindowMsg) /\ downlink # <<>>
  BY ShellTypes DEF WindowReads, ShellInv
<1>2. /\ m = downlink[1] /\ 1 \in DOMAIN downlink
      /\ \A i \in DOMAIN downlink' : i + 1 \in DOMAIN downlink /\ downlink'[i] = downlink[i + 1] /\ i \in Nat /\ i >= 1
  BY <1>1, TailOf
<1>3. \/ status' = status
      \/ m.id = session /\ m.what = "output" /\ status' = "open"
      \/ m.id = session /\ m.what # "output" /\ status' = "closed"
  BY DEF WindowReads, Shows
<1> HIDE DEF m
<1>4. \A q \in DOMAIN downlink' : downlink'[q].id <= opened'
  BY <1>1, <1>2 DEF OrderInv
<1>5. \A p \in DOMAIN uplink' : uplink'[p].what = "start" =>
           /\ uplink'[p].id \notin shells'
           /\ \A q \in DOMAIN downlink' : downlink'[q].id # uplink'[p].id
           /\ \A q \in DOMAIN uplink' : uplink'[q] = uplink'[p] => q = p
  BY <1>1, <1>2 DEF OrderInv
<1>6. \A q \in DOMAIN downlink' : downlink'[q].what # "output" =>
           /\ downlink'[q].id \notin shells'
           /\ \A r \in DOMAIN downlink' : q < r => downlink'[r].id # downlink'[q].id
  BY <1>1, <1>2 DEF OrderInv
<1>7. ASSUME session' # 0, status' = "closed", ~ severed'
      PROVE  /\ session' \notin shells' /\ ~ StartWaits(session)'
             /\ \A q \in DOMAIN downlink' : downlink'[q].id # session'
  <2>1. CASE status = "closed"
    BY <1>1, <1>2, <1>7, <2>1 DEF OrderInv, StartWaits
  <2>2. CASE m.id = session /\ m.what # "output"
    <3>1. session \notin shells /\ \A r \in DOMAIN downlink : 1 < r => downlink[r].id # session
      BY <1>2, <2>2 DEF OrderInv
    <3>2. ~ StartWaits(session)
      BY <1>2, <2>2, MsgTypes DEF OrderInv, StartWaits
    <3> QED
      BY <1>1, <1>2, <3>1, <3>2 DEF StartWaits
  <2> QED
    BY <1>3, <1>7, <2>1, <2>2
<1> QED
  BY <1>4, <1>5, <1>6, <1>7 DEF OrderInv

LEMMA SeverOrder == ASSUME ShellInv, OrderInv, Sever PROVE OrderInv'
<1>1. /\ severed' = (session # 0) /\ uplink' = <<>> /\ downlink' = <<>> /\ shells' = {} /\ UNCHANGED session
  BY DEF Sever
<1>2. DOMAIN uplink' = {} /\ DOMAIN downlink' = {}
  BY <1>1
<1>3. session # 0 => severed'
  BY <1>1
<1> QED
  BY <1>1, <1>2, <1>3 DEF OrderInv

LEMMA ShellStep == ShellInv /\ OrderInv /\ [ShellNext]_terminal => ShellInv' /\ OrderInv'
<1> SUFFICES ASSUME ShellInv, OrderInv, [ShellNext]_terminal PROVE ShellInv' /\ OrderInv'
  OBVIOUS
<1>1. CASE OpenSession
  BY <1>1, OpenSessionInv, OpenSessionOrder
<1>2. CASE Unmount
  BY <1>2, UnmountInv, UnmountOrder
<1>3. CASE Keystroke
  BY <1>3, KeystrokeInv, KeystrokeOrder
<1>4. CASE EngineReads
  BY <1>4, EngineReadsInv, EngineReadsOrder
<1>5. CASE WindowReads
  BY <1>5, WindowReadsInv, WindowReadsOrder
<1>6. CASE Sever
  BY <1>6, SeverInv, SeverOrder
<1>7. CASE Relinked
  <2>1. UNCHANGED <<opened, session, status, uplink, shells, downlink, printed, severed>> /\ linked' \in BOOLEAN
    BY <1>7 DEF Relinked
  <2> QED
    BY <2>1 DEF ShellInv, ShellTypeOK, OrderInv, StopWaits, StartWaits, EndKnown
<1>8. CASE \E i \in shells : Output(i)
  BY <1>8, OutputInv, OutputOrder
<1>9. CASE UNCHANGED terminal
  BY <1>9 DEF terminal, ShellInv, ShellTypeOK, OrderInv, StopWaits, StartWaits, EndKnown
<1> QED
  BY <1>1, <1>2, <1>3, <1>4, <1>5, <1>6, <1>7, <1>8, <1>9 DEF ShellNext

\* However sessions are opened, left, typed into, ended and cut off: the terminals' state has its
\* type, the terminal prints its own session only, and once the engine has read what was sent no
\* shell runs but its own.  A session the link went down under may have no shell and no word of it.
THEOREM ShellsCorrect == ShellSpec => []ShellTypeOK /\ []ShellsAreOwned
<1>1. ShellInit => ShellInv /\ OrderInv
  BY StartShell DEF ShellInit, OrderInv
<1>2. ShellInv => ShellTypeOK /\ ShellsAreOwned
  BY ShellInvGives
<1> QED
  BY <1>1, <1>2, ShellStep, PTL DEF ShellSpec

-----------------------------------------------------------------------------
(***************************************************************************)
(* Explain. While the pane works nothing is shown as sent, and what is out *)
(* was asked about the evidence that stands there or that is gone.         *)
(***************************************************************************)

ExplainInv ==
    /\ ExplainTypeOK /\ ExplainIsOfItsEvidence
    /\ working => sent = NoSubject
    /\ \A r \in Going("explain") : evidence \in {r.of, NoSubject}
    /\ subject = NoSubject => hasKey = "unknown" /\ requests = {} /\ evidence = NoSubject

LEMMA ExplainTypes == ASSUME ExplainInv, [ExplainNext]_explain PROVE ExplainTypeOK'
<1> USE DEF ExplainInv, ExplainTypeOK, ClearPane, Request, Going
<1>1. ASSUME NEW o \in Subjects, ShowExplain(o) PROVE ExplainTypeOK'
  <2>1. subject' = o /\ hasKey' = hasKey /\ working' = working
        /\ evidence' \in {evidence, NoSubject} /\ sent' \in {sent, NoSubject}
    BY <1>1 DEF ShowExplain
  <2>2. requests' \subseteq requests \cup {[what |-> "status", of |-> o]}
    BY <1>1 DEF ShowExplain
  <2>3. crossed' \in BOOLEAN
    BY <1>1, Zenon DEF ShowExplain
  <2> QED
    BY <2>1, <2>2, <2>3
<1>2. ASSUME NEW r \in requests, KeyTold(r) PROVE ExplainTypeOK'
  BY <1>2 DEF KeyTold
<1>3. ASSUME NEW r \in requests, Prepared(r) PROVE ExplainTypeOK'
  <2>1. crossed' \in BOOLEAN
    BY <1>3, Zenon DEF Prepared
  <2>2. /\ UNCHANGED <<subject, hasKey, sent>> /\ requests' = requests \ {r} /\ working' = FALSE
        /\ evidence' \in {r.of, evidence}
    BY <1>3 DEF Prepared
  <2> QED
    BY <2>1, <2>2
<1>4. ASSUME NEW r \in requests, Explained(r) PROVE ExplainTypeOK'
  <2>1. crossed' \in BOOLEAN
    BY <1>4, Zenon DEF Explained
  <2>2. /\ UNCHANGED <<subject, hasKey, evidence>> /\ requests' = requests \ {r} /\ working' = FALSE
        /\ sent' \in {r.of, sent}
    BY <1>4 DEF Explained
  <2> QED
    BY <2>1, <2>2
<1>5. CASE LeaveTab
  BY <1>5 DEF LeaveTab
<1>6. CASE SaveKey
  BY <1>6 DEF SaveKey
<1>7. CASE Prepare
  BY <1>7 DEF Prepare
<1>8. CASE SendIt
  BY <1>8 DEF SendIt
<1>9. CASE StartOver
  BY <1>9 DEF StartOver
<1>10. CASE UNCHANGED explain
  BY <1>10 DEF explain
<1> QED
  BY <1>1, <1>2, <1>3, <1>4, <1>5, <1>6, <1>7, <1>8, <1>9, <1>10 DEF ExplainNext

LEMMA ExplainStep == ASSUME ExplainInv, [ExplainNext]_explain PROVE ExplainInv'
<1>1. ExplainTypeOK'
  BY ExplainTypes
<1> USE DEF ExplainInv, ExplainIsOfItsEvidence, AnswerIsOfItsEvidence, OneQuestionOut, OfTheSelected, Questions, Going, ClearPane
<1>2. ASSUME NEW o \in Subjects, ShowExplain(o) PROVE ExplainInv'
  <2>1. o # NoSubject /\ o # subject /\ subject' = o /\ hasKey' = hasKey /\ working' = working
    BY <1>2, ExplainAssumption DEF ShowExplain
  <2>2. CASE /\ crossed' = (evidence # NoSubject \/ sent # NoSubject)
             /\ evidence' = evidence /\ sent' = sent /\ requests' = requests
    <3>1. ~ crossed' => evidence = NoSubject /\ sent = NoSubject
      BY <2>2, Zenon
    <3>2. Questions' = Questions /\ Going("explain")' = Going("explain")
      BY <2>2
    <3>3. OfTheSelected'
      BY <2>2, <3>1
    <3> QED
      BY <1>1, <2>1, <2>2, <3>2, <3>3
  <2>3. CASE /\ evidence' = NoSubject /\ sent' = NoSubject /\ crossed' = FALSE
             /\ requests' = requests \cup {[what |-> "status", of |-> o]}
    <3>1. Questions' = Questions /\ Going("explain")' = Going("explain")
      BY <2>3
    <3> QED
      BY <1>1, <2>1, <2>3, <3>1
  <2> QED
    BY <1>2, <2>2, <2>3 DEF ShowExplain
<1>3. ASSUME NEW r \in requests, KeyTold(r) PROVE ExplainInv'
  <2>1. Questions' = Questions /\ Going("explain")' = Going("explain")
    BY <1>3 DEF KeyTold
  <2> QED
    BY <1>1, <1>3, <2>1 DEF KeyTold
<1>4. ASSUME NEW r \in requests, Prepared(r) PROVE ExplainInv'
  <2>1. /\ r \in Questions /\ r.what = "preview" /\ requests' = requests \ {r} /\ working' = FALSE
        /\ UNCHANGED <<subject, hasKey, sent>>
        /\ (evidence' = r.of /\ crossed' = (r.of # subject)) \/ (evidence' = evidence /\ crossed' = crossed)
    BY <1>4 DEF Prepared
  <2>2. Questions' = {}
    BY <2>1
  <2>3. sent = NoSubject
    BY <2>1
  <2>4. OfTheSelected'
    <3>1. CASE evidence' = r.of /\ crossed' = (r.of # subject)
      <4>1. ~ crossed' => r.of = subject
        BY <3>1, Zenon
      <4> QED
        BY <2>1, <2>3, <3>1, <4>1
    <3>2. CASE evidence' = evidence /\ crossed' = crossed
      BY <2>1, <3>2
    <3> QED
      BY <2>1, <3>1, <3>2
  <2>5. OneQuestionOut'
    BY <2>1, <2>2
  <2>6. AnswerIsOfItsEvidence'
    BY <2>1, <2>3
  <2>7. Going("explain")' = {}
    BY <2>2
  <2>8. subject # NoSubject
    OBVIOUS
  <2> QED
    BY <1>1, <2>1, <2>4, <2>5, <2>6, <2>7, <2>8
<1>5. ASSUME NEW r \in requests, Explained(r) PROVE ExplainInv'
  <2>1. /\ r \in Questions /\ r \in Going("explain") /\ requests' = requests \ {r} /\ working' = FALSE
        /\ UNCHANGED <<subject, hasKey, evidence>>
        /\ (sent' = r.of /\ crossed' = (crossed \/ r.of # subject)) \/ (sent' = sent /\ crossed' = crossed)
    BY <1>5 DEF Explained
  <2>2. Questions' = {}
    BY <2>1
  <2>3. evidence \in {r.of, NoSubject}
    BY <2>1
  <2>4. OfTheSelected'
    <3>1. CASE sent' = r.of /\ crossed' = (crossed \/ r.of # subject)
      <4>1. ~ crossed' => ~ crossed /\ r.of = subject
        BY <3>1, Zenon
      <4> QED
        BY <2>1, <3>1, <4>1
    <3>2. CASE sent' = sent /\ crossed' = crossed
      BY <2>1, <3>2
    <3> QED
      BY <2>1, <3>1, <3>2
  <2>5. OneQuestionOut'
    BY <2>1, <2>2
  <2>6. AnswerIsOfItsEvidence'
    BY <2>1, <2>3
  <2>7. Going("explain")' = {}
    BY <2>2
  <2>8. subject # NoSubject
    OBVIOUS
  <2> QED
    BY <1>1, <2>1, <2>4, <2>5, <2>6, <2>7, <2>8
<1>6. CASE LeaveTab
  BY <1>1, <1>6 DEF LeaveTab
<1>7. CASE SaveKey
  <2>1. Questions' = Questions /\ Going("explain")' = Going("explain")
    BY <1>7 DEF SaveKey
  <2> QED
    BY <1>1, <1>7, <2>1 DEF SaveKey
<1>8. CASE Prepare
  <2> DEFINE n == [what |-> "preview", of |-> subject]
  <2>1. /\ subject # NoSubject /\ ~ working /\ working' = TRUE /\ sent' = NoSubject /\ requests' = requests \cup {n}
        /\ UNCHANGED <<subject, hasKey, evidence, crossed>>
    BY <1>8 DEF Prepare
  <2>2. n.what = "preview" /\ n.of = subject
    OBVIOUS
  <2> HIDE DEF n
  <2>3. Questions' = {n} /\ Going("explain")' = {}
    BY <2>1, <2>2
  <2> QED
    BY <1>1, <2>1, <2>2, <2>3
<1>9. CASE SendIt
  <2> DEFINE n == [what |-> "explain", of |-> evidence]
  <2>1. /\ evidence # NoSubject /\ sent = NoSubject /\ ~ working /\ working' = TRUE /\ requests' = requests \cup {n}
        /\ UNCHANGED <<subject, hasKey, evidence, sent, crossed>> /\ hasKey # "no"
    BY <1>9 DEF SendIt
  <2>2. n.what = "explain" /\ n.of = evidence
    OBVIOUS
  <2> HIDE DEF n
  <2>3. Questions' = {n} /\ Going("explain")' = {n}
    BY <2>1, <2>2
  <2> QED
    BY <1>1, <2>1, <2>2, <2>3
<1>10. CASE StartOver
  <2>1. Questions' = Questions /\ Going("explain")' = Going("explain")
    BY <1>10 DEF StartOver
  <2> QED
    BY <1>1, <1>10, <2>1 DEF StartOver
<1>11. CASE UNCHANGED explain
  BY <1>1, <1>11 DEF explain
<1> QED
  BY <1>2, <1>3, <1>4, <1>5, <1>6, <1>7, <1>8, <1>9, <1>10, <1>11 DEF ExplainNext

\* However objects are chosen, answers come late and the pane is left: its state has its type, an
\* answer beside evidence was given that evidence, and one question is out at most.  That what is
\* shown is of the object selected holds but for what came after the selection had moved on and
\* what a namesake left.
THEOREM ExplainCorrect == ExplainSpec => []ExplainTypeOK /\ []ExplainIsOfItsEvidence
<1>1. ExplainInit => ExplainInv
  BY ExplainAssumption DEF ExplainInit, ExplainInv, ExplainTypeOK, ExplainIsOfItsEvidence, AnswerIsOfItsEvidence,
     OneQuestionOut, OfTheSelected, Questions, Going, Request
<1>2. ExplainInv => ExplainTypeOK /\ ExplainIsOfItsEvidence
  BY DEF ExplainInv
<1>3. ExplainInv /\ [ExplainNext]_explain => ExplainInv'
  BY ExplainStep
<1> QED
  BY <1>1, <1>2, <1>3, PTL DEF ExplainSpec

-----------------------------------------------------------------------------
(***************************************************************************)
(* The log pane. What it shows is cut from all that landed, which the cuts *)
(* do not change (LastOfLeft, LastOfRight, TailInv). The stream chosen is  *)
(* one and not cancelled, so what it sends is numbered on: its messages on *)
(* the way follow what landed and each other, up to where the stream is    *)
(* (CurrentInv). A cancelled stream sends what is of an older choice       *)
(* (FrameInv, PastInv), and does not count. A link that came back ends     *)
(* that promise, and the next choice renews it.                            *)
(***************************************************************************)

LEMMA LogBounds == MaxLines \in Nat /\ MaxLines > 0 /\ MaxChoices \in Nat /\ MaxWritten \in Nat /\ MaxFrames \in Nat
  BY LogAssumption

LEMMA LastOfIs ==
    ASSUME NEW T, NEW s \in Seq(T)
    PROVE  /\ LastOf(s) \in Seq(T)
           /\ Len(LastOf(s)) = IF Len(s) > MaxLines THEN MaxLines ELSE Len(s)
           /\ \A i \in 1 .. Len(LastOf(s)) : LastOf(s)[i] = s[Len(s) - Len(LastOf(s)) + i]
<1>1. CASE Len(s) > MaxLines
  <2>1. LastOf(s) = SubSeq(s, Len(s) - MaxLines + 1, Len(s))
    BY <1>1 DEF LastOf
  <2>2. Len(s) \in Nat /\ Len(s) - MaxLines + 1 \in 1 .. Len(s) + 1
    BY <1>1, LogBounds
  <2>3. SubSeq(s, Len(s) - MaxLines + 1, Len(s)) \in Seq(T)
    BY <2>2, SubSeqProperties
  <2>4. Len(SubSeq(s, Len(s) - MaxLines + 1, Len(s))) = MaxLines
    BY <1>1, <2>2, SubSeqProperties, LogBounds
  <2>5. \A i \in 1 .. MaxLines : SubSeq(s, Len(s) - MaxLines + 1, Len(s))[i] = s[Len(s) - MaxLines + i]
    BY <1>1, <2>2, SubSeqProperties, LogBounds
  <2> QED
    BY <1>1, <2>1, <2>3, <2>4, <2>5
<1>2. CASE ~ (Len(s) > MaxLines)
  <2>1. LastOf(s) = s
    BY <1>2 DEF LastOf
  <2> QED
    BY <1>2, <2>1
<1> QED
  BY <1>1, <1>2

LEMMA LastOfShort ==
    ASSUME NEW T, NEW s \in Seq(T)
    PROVE  LastOf(s) \in Seq(T) /\ Len(LastOf(s)) <= MaxLines
<1>1. Len(s) \in Nat
  OBVIOUS
<1> QED
  BY <1>1, LastOfIs, LogBounds

LEMMA JoinIs ==
    ASSUME NEW T, NEW a \in Seq(T), NEW b \in Seq(T)
    PROVE  /\ a \o b \in Seq(T) /\ Len(a \o b) = Len(a) + Len(b) /\ Len(a) \in Nat /\ Len(b) \in Nat
           /\ \A i \in 1 .. Len(a) : (a \o b)[i] = a[i]
           /\ \A i \in 1 .. Len(b) : (a \o b)[Len(a) + i] = b[i]
  OBVIOUS

LEMMA LastOfLeft ==
    ASSUME NEW T, NEW a \in Seq(T), NEW b \in Seq(T)
    PROVE  LastOf(LastOf(a) \o b) = LastOf(a \o b)
<1> DEFINE c == LastOf(a)  d == LastOf(c \o b)  e == LastOf(a \o b)
<1>1. /\ c \in Seq(T) /\ Len(c) = (IF Len(a) > MaxLines THEN MaxLines ELSE Len(a))
      /\ \A i \in 1 .. Len(c) : c[i] = a[Len(a) - Len(c) + i]
  BY LastOfIs
<1>2. /\ c \o b \in Seq(T) /\ Len(c \o b) = Len(c) + Len(b)
      /\ \A i \in 1 .. Len(c) : (c \o b)[i] = c[i]
      /\ \A i \in 1 .. Len(b) : (c \o b)[Len(c) + i] = b[i]
  <2>1. c \in Seq(T)
    BY <1>1
  <2> HIDE DEF c
  <2> QED
    BY <2>1, JoinIs
<1>3. /\ a \o b \in Seq(T) /\ Len(a \o b) = Len(a) + Len(b)
      /\ \A i \in 1 .. Len(a) : (a \o b)[i] = a[i]
      /\ \A i \in 1 .. Len(b) : (a \o b)[Len(a) + i] = b[i]
  OBVIOUS
<1>4. /\ d \in Seq(T) /\ Len(d) = (IF Len(c \o b) > MaxLines THEN MaxLines ELSE Len(c \o b))
      /\ \A i \in 1 .. Len(d) : d[i] = (c \o b)[Len(c \o b) - Len(d) + i]
  BY <1>2, LastOfIs
<1>5. /\ e \in Seq(T) /\ Len(e) = (IF Len(a \o b) > MaxLines THEN MaxLines ELSE Len(a \o b))
      /\ \A i \in 1 .. Len(e) : e[i] = (a \o b)[Len(a \o b) - Len(e) + i]
  BY <1>3, LastOfIs
<1>6. Len(a) \in Nat /\ Len(b) \in Nat /\ Len(c) \in Nat
  BY <1>1
<1> HIDE DEF c, d, e
<1>7. Len(d) = Len(e) /\ Len(d) \in Nat
  BY <1>1, <1>2, <1>3, <1>4, <1>5, <1>6, LogBounds
<1>8. ASSUME NEW i \in 1 .. Len(d) PROVE d[i] = e[i]
  <2> DEFINE p == Len(c \o b) - Len(d) + i  q == Len(a \o b) - Len(e) + i
  <2>1. d[i] = (c \o b)[p] /\ e[i] = (a \o b)[q]
    BY <1>4, <1>5, <1>7
  <2>2. p \in 1 .. Len(c) + Len(b) /\ q = p + Len(a) - Len(c) /\ Len(c) <= Len(a)
    <3>1. Len(c \o b) = Len(c) + Len(b) /\ Len(a \o b) = Len(a) + Len(b) /\ Len(d) = Len(e) /\ Len(d) <= Len(c) + Len(b)
      BY <1>2, <1>3, <1>4, <1>6, <1>7, LogBounds
    <3>2. Len(c) <= Len(a)
      BY <1>1, <1>6, LogBounds
    <3> QED
      BY <1>6, <1>7, <3>1, <3>2
  <2> HIDE DEF p, q
  <2>3. CASE p <= Len(c)
    <3>1. (c \o b)[p] = c[p] /\ c[p] = a[Len(a) - Len(c) + p]
      BY <1>1, <1>2, <1>6, <2>2, <2>3
    <3>2. q \in 1 .. Len(a) /\ q = Len(a) - Len(c) + p
      BY <1>6, <2>2, <2>3
    <3> QED
      BY <1>3, <2>1, <3>1, <3>2
  <2>4. CASE p > Len(c)
    <3>1. p - Len(c) \in 1 .. Len(b) /\ p = Len(c) + (p - Len(c)) /\ q = Len(a) + (p - Len(c))
      BY <1>6, <2>2, <2>4
    <3>2. (c \o b)[p] = b[p - Len(c)] /\ (a \o b)[q] = b[p - Len(c)]
      BY <1>2, <1>3, <3>1
    <3> QED
      BY <2>1, <3>2
  <2> QED
    BY <1>6, <2>2, <2>3, <2>4
<1> QED
  <2>1. d = e
    BY <1>4, <1>5, <1>7, <1>8, SeqEqual
  <2> QED
    BY <2>1 DEF c, d, e

LEMMA LastOfRight ==
    ASSUME NEW T, NEW a \in Seq(T), NEW b \in Seq(T)
    PROVE  LastOf(a \o LastOf(b)) = LastOf(a \o b)
<1> DEFINE c == LastOf(b)  d == LastOf(a \o c)  e == LastOf(a \o b)
<1>1. /\ c \in Seq(T) /\ Len(c) = (IF Len(b) > MaxLines THEN MaxLines ELSE Len(b))
      /\ \A i \in 1 .. Len(c) : c[i] = b[Len(b) - Len(c) + i]
  BY LastOfIs
<1>2. CASE Len(b) <= MaxLines
  <2>1. c = b
    BY <1>2, LogBounds DEF LastOf
  <2> QED
    BY <2>1
<1>3. CASE Len(b) > MaxLines
  <2>0. Len(c) = MaxLines /\ Len(a) \in Nat /\ Len(b) \in Nat
    BY <1>1, <1>3
  <2>1. /\ a \o c \in Seq(T) /\ Len(a \o c) = Len(a) + Len(c)
        /\ \A i \in 1 .. Len(c) : (a \o c)[Len(a) + i] = c[i]
    <3>1. c \in Seq(T)
      BY <1>1
    <3> HIDE DEF c
    <3> QED
      BY <3>1, JoinIs
  <2>2. /\ a \o b \in Seq(T) /\ Len(a \o b) = Len(a) + Len(b)
        /\ \A i \in 1 .. Len(b) : (a \o b)[Len(a) + i] = b[i]
    OBVIOUS
  <2>3. /\ d \in Seq(T) /\ Len(d) = (IF Len(a \o c) > MaxLines THEN MaxLines ELSE Len(a \o c))
        /\ \A i \in 1 .. Len(d) : d[i] = (a \o c)[Len(a \o c) - Len(d) + i]
    BY <2>1, LastOfIs
  <2>4. /\ e \in Seq(T) /\ Len(e) = (IF Len(a \o b) > MaxLines THEN MaxLines ELSE Len(a \o b))
        /\ \A i \in 1 .. Len(e) : e[i] = (a \o b)[Len(a \o b) - Len(e) + i]
    BY <2>2, LastOfIs
  <2> HIDE DEF c, d, e
  <2>5. Len(d) = MaxLines /\ Len(e) = MaxLines
    BY <1>3, <2>0, <2>1, <2>2, <2>3, <2>4, LogBounds
  <2>6. ASSUME NEW i \in 1 .. Len(d) PROVE d[i] = e[i]
    <3>1. d[i] = (a \o c)[Len(a) + i] /\ i \in 1 .. Len(c)
      <4>1. Len(a \o c) - Len(d) + i = Len(a) + i /\ i \in 1 .. Len(c)
        BY <2>0, <2>1, <2>5, LogBounds
      <4> QED
        BY <2>3, <4>1
    <3>2. e[i] = (a \o b)[Len(a) + (Len(b) - MaxLines + i)] /\ Len(b) - MaxLines + i \in 1 .. Len(b)
      <4>1. Len(a \o b) - Len(e) + i = Len(a) + (Len(b) - MaxLines + i) /\ i \in 1 .. Len(e)
            /\ Len(b) - MaxLines + i \in 1 .. Len(b)
        BY <1>3, <2>0, <2>2, <2>5, LogBounds
      <4> QED
        BY <2>4, <4>1
    <3>3. c[i] = b[Len(b) - MaxLines + i]
      BY <1>1, <2>0, <3>1
    <3> QED
      BY <2>1, <2>2, <3>1, <3>2, <3>3
  <2>7. d = e
    BY <2>3, <2>4, <2>5, <2>6, SeqEqual
  <2> QED
    BY <2>7 DEF c, d, e
<1> QED
  BY <1>2, <1>3, LogBounds
OwnFrame(i) == frames[i].lines # <<>> /\ frames[i].lines[1].of = chosen
FirstIn(i)  == frames[i].lines[1].n
LastIn(i)   == FirstIn(i) + Len(frames[i].lines) - 1
OwnCount    == OwnUpTo(Len(landed))

\* What one message carries is of one stream, and in its order.
FrameInv == \A i \in DOMAIN frames : \A x \in DOMAIN frames[i].lines :
    /\ frames[i].lines[x].of = frames[i].lines[1].of
    /\ frames[i].lines[x].n = FirstIn(i) + x - 1

\* Nothing is of a choice still to come.
PastInv ==
    /\ \A s \in streams : s.of <= chosen
    /\ \A i \in DOMAIN frames : \A x \in DOMAIN frames[i].lines : frames[i].lines[x].of <= chosen
    /\ \A i \in DOMAIN landed : landed[i].of <= chosen
    /\ IF followed THEN chosen > 0 ELSE frames = <<>> /\ landed = <<>>

\* The stream chosen is one and not cancelled; its messages on the way follow one another, the
\* first of them what has landed, and the last leads to where the stream is.
OneStream ==
    /\ \A s, t \in streams : s.of = chosen /\ t.of = chosen => s = t
    /\ \A s \in streams : s.of = chosen => s.phase # "cancelled"
NoneYet == (\A s \in streams : s.of # chosen) => OwnCount = 0 /\ \A i \in DOMAIN frames : ~ OwnFrame(i)
Follows(i) == \/ FirstIn(i) = OwnCount + 1
              \/ \E j \in DOMAIN frames : j < i /\ OwnFrame(j) /\ FirstIn(i) = LastIn(j) + 1
Chained == /\ \A i \in DOMAIN frames : OwnFrame(i) => Follows(i)
           /\ \A i, j \in DOMAIN frames : i < j /\ OwnFrame(i) /\ OwnFrame(j) => LastIn(i) < FirstIn(j)
Reached(n) == /\ \A i \in DOMAIN frames : OwnFrame(i) => LastIn(i) <= n
              /\ n = OwnCount \/ \E i \in DOMAIN frames : OwnFrame(i) /\ LastIn(i) = n
Numbered == \A i \in DOMAIN landed : landed[i].of = chosen => landed[i].n = OwnUpTo(i)
CurrentInv == (followed /\ ~ again) =>
    OneStream /\ NoneYet /\ Chained /\ Numbered /\ \A s \in streams : s.of = chosen => Reached(s.at)

TailInv ==
    /\ LastOf(lines \o buffer) = LastOf(landed)
    /\ ~ paused => lines = LastOf(landed) /\ buffer = <<>>
    /\ Len(lines) <= MaxLines /\ Len(buffer) <= MaxLines

LogInv == LogTypeOK /\ TailInv /\ FrameInv /\ PastInv /\ CurrentInv

Batch(s, k) == [i \in 1 .. k |-> [of |-> s.of, n |-> s.at + i]]

LEMMA BatchIs ==
    ASSUME NEW s \in Stream, NEW k \in Nat, s.at + k <= MaxWritten
    PROVE  /\ Batch(s, k) \in Seq(Line) /\ Len(Batch(s, k)) = k /\ DOMAIN Batch(s, k) = 1 .. k
           /\ \A i \in 1 .. k : Batch(s, k)[i].of = s.of /\ Batch(s, k)[i].n = s.at + i
<1>1. s.of \in 1 .. MaxChoices /\ s.at \in 0 .. MaxWritten
  BY DEF Stream
<1>2. ASSUME NEW i \in 1 .. k PROVE [of |-> s.of, n |-> s.at + i] \in Line
  <2>1. s.at + i \in 1 .. MaxWritten
    BY <1>1, LogBounds
  <2> QED
    BY <1>1, <2>1 DEF Line
<1>3. Batch(s, k) \in [1 .. k -> Line]
  BY <1>2 DEF Batch
<1>4. Batch(s, k) \in Seq(Line)
  BY <1>3, IsASeq
<1> QED
  BY <1>3, <1>4 DEF Batch

\* A message goes out: what Flush and Ended do but for the stream.
Sends(s, k, t, end) ==
    /\ s \in streams /\ k \in 0 .. MaxWritten - s.at /\ s.phase # "ended" /\ followed
    /\ t \in IF s.phase = "live" THEN {"live", "ended"} ELSE {"cancelled", "gone"}
    /\ streams' = (streams \ {s}) \cup (IF t = "gone" THEN {} ELSE {[of |-> s.of, at |-> s.at + k, phase |-> t]})
    /\ frames' = Append(frames, [lines |-> Batch(s, k), eof |-> end])
    /\ UNCHANGED <<chosen, followed, lines, buffer, paused, eof, landed, again>>

LEMMA FlushSends == ASSUME LogTypeOK, NEW s \in streams, Flush(s)
                    PROVE  \E k \in 1 .. MaxWritten - s.at : Sends(s, k, s.phase, FALSE)
<1>1. s = [of |-> s.of, at |-> s.at, phase |-> s.phase] /\ s \in Stream /\ s.at \in Nat /\ s.phase \in {"live", "cancelled", "ended"}
  BY LogBounds DEF LogTypeOK, Stream
<1>2. PICK k \in 1 .. MaxWritten - s.at :
          /\ streams' = (streams \ {s}) \cup {[s EXCEPT !.at = @ + k]}
          /\ frames' = Append(frames, [lines |-> Batch(s, k), eof |-> FALSE])
  BY DEF Flush, Batch
<1>3. [s EXCEPT !.at = @ + k] = [of |-> s.of, at |-> s.at + k, phase |-> s.phase]
  BY <1>1
<1>4. k \in 0 .. MaxWritten - s.at
  BY <1>1, LogBounds
<1> QED
  BY <1>1, <1>2, <1>3, <1>4 DEF Flush, Sends

LEMMA EndedSends == ASSUME LogTypeOK, NEW s \in streams, Ended(s)
                    PROVE  \E k \in 0 .. MaxWritten - s.at : Sends(s, k, IF s.phase = "live" THEN "ended" ELSE "gone", TRUE)
<1>2. PICK k \in 0 .. MaxWritten - s.at :
          /\ streams' = (streams \ {s}) \cup
                           (IF s.phase = "live" THEN {[of |-> s.of, at |-> s.at + k, phase |-> "ended"]} ELSE {})
          /\ frames' = Append(frames, [lines |-> Batch(s, k), eof |-> TRUE])
  BY DEF Ended, Batch
<1> QED
  BY <1>2 DEF Ended, Sends

LEMMA SendsTypes ==
    ASSUME LogTypeOK, NEW s \in streams, NEW k \in 0 .. MaxWritten - s.at, NEW t, NEW end \in BOOLEAN, Sends(s, k, t, end)
    PROVE  /\ LogTypeOK' /\ s \in Stream /\ k \in Nat /\ s.at + k <= MaxWritten
<1>1. s \in Stream /\ s.at \in 0 .. MaxWritten /\ s.of \in 1 .. MaxChoices
  BY DEF LogTypeOK, Stream
<1>2. k \in Nat /\ s.at + k <= MaxWritten /\ s.at + k \in 0 .. MaxWritten
  BY <1>1, LogBounds
<1>3. Batch(s, k) \in Seq(Line)
  BY <1>1, <1>2, BatchIs
<1>4. [lines |-> Batch(s, k), eof |-> end] \in Frame
  BY <1>3 DEF Frame
<1>5. frames' \in Seq(Frame)
  BY <1>4 DEF Sends, LogTypeOK
<1>6. streams' \subseteq Stream
  BY <1>1, <1>2 DEF Sends, LogTypeOK, Stream
<1> QED
  BY <1>1, <1>2, <1>5, <1>6 DEF Sends, LogTypeOK

LEMMA LandedIs ==
    ASSUME LogTypeOK, Landed
    PROVE  /\ 1 \in DOMAIN frames /\ frames[1] \in Frame /\ frames[1].lines \in Seq(Line) /\ frames' = Tail(frames)
           /\ frames' \in Seq(Frame) /\ frames \in Seq(Frame)
           /\ \A i \in DOMAIN frames' : i + 1 \in DOMAIN frames /\ frames'[i] = frames[i + 1] /\ i \in Nat /\ i >= 1
           /\ \A i \in DOMAIN frames : i \in Nat /\ (i # 1 => i - 1 \in DOMAIN frames' /\ frames'[i - 1] = frames[i])
           /\ landed' = landed \o frames[1].lines
           /\ IF paused THEN buffer' = LastOf(buffer \o frames[1].lines) /\ lines' = lines
                        ELSE lines' = LastOf(lines \o frames[1].lines) /\ buffer' = buffer
           /\ eof' = (eof \/ frames[1].eof)
           /\ UNCHANGED <<chosen, followed, streams, paused, again>>
<1>1. frames \in Seq(Frame) /\ frames # <<>> /\ frames' = Tail(frames)
  BY DEF Landed, LogTypeOK
<1>2. Head(frames) = frames[1] /\ 1 \in DOMAIN frames /\ frames[1] \in Frame
  BY <1>1
<1>3. frames[1].lines \in Seq(Line)
  BY <1>2 DEF Frame
<1>4. /\ frames' \in Seq(Frame)
      /\ \A i \in DOMAIN frames' : i + 1 \in DOMAIN frames /\ frames'[i] = frames[i + 1] /\ i \in Nat /\ i >= 1
      /\ \A i \in DOMAIN frames : i \in Nat /\ (i # 1 => i - 1 \in DOMAIN frames' /\ frames'[i - 1] = frames[i])
  BY <1>1
<1> QED
  BY <1>1, <1>2, <1>3, <1>4 DEF Landed

LEMMA LandedTypes == ASSUME LogTypeOK, Landed PROVE LogTypeOK'
<1>1. frames[1].lines \in Seq(Line) /\ lines \in Seq(Line) /\ buffer \in Seq(Line) /\ landed \in Seq(Line)
  BY LandedIs DEF LogTypeOK
<1>2. landed' \in Seq(Line)
  <2> DEFINE f == frames[1].lines
  <2>1. f \in Seq(Line) /\ landed' = landed \o f
    BY <1>1, LandedIs
  <2> HIDE DEF f
  <2> QED
    BY <1>1, <2>1, JoinIs
<1>3. LastOf(lines \o frames[1].lines) \in Seq(Line) /\ LastOf(buffer \o frames[1].lines) \in Seq(Line)
  BY <1>1, JoinIs, LastOfIs
<1>4. lines' \in Seq(Line) /\ buffer' \in Seq(Line)
  BY <1>1, <1>3, LandedIs
<1>5. frames' \in Seq(Frame) /\ UNCHANGED <<chosen, followed, streams, paused, again>>
  BY LandedIs
<1>6. eof' \in BOOLEAN
  BY LandedIs
<1> QED
  BY <1>2, <1>4, <1>5, <1>6 DEF LogTypeOK

LEMMA LogTypes == ASSUME LogTypeOK, followed => chosen > 0, [LogNext]_logs PROVE LogTypeOK'
<1> USE DEF Cleared
<1>0. <<>> \in Seq(Line) /\ <<>> \in Seq(Frame)
  OBVIOUS
<1>1. CASE Choose
  <2>1. chosen' \in 0 .. MaxChoices
    BY <1>1, LogBounds DEF Choose, LogTypeOK
  <2>2. {paused, eof, again}' \subseteq BOOLEAN /\ followed' \in BOOLEAN
    BY <1>1 DEF Choose, LogTypeOK
  <2>3. UNCHANGED <<streams, frames>> /\ lines' = <<>> /\ buffer' = <<>> /\ landed' = <<>>
    BY <1>1 DEF Choose
  <2> QED
    BY <1>0, <2>1, <2>2, <2>3 DEF LogTypeOK
<1>2. CASE CloseLogs
  <2>1. {paused, eof, again}' \subseteq BOOLEAN /\ followed' \in BOOLEAN
    BY <1>2 DEF CloseLogs, LogTypeOK
  <2>2. UNCHANGED <<chosen, streams>> /\ frames' = <<>> /\ lines' = <<>> /\ buffer' = <<>> /\ landed' = <<>>
    BY <1>2 DEF CloseLogs
  <2> QED
    BY <1>0, <2>1, <2>2 DEF LogTypeOK
<1>3. CASE Track
  <2>1. Cancelled \subseteq Stream
    <3> SUFFICES ASSUME NEW s \in streams PROVE [s EXCEPT !.phase = IF @ = "live" THEN "cancelled" ELSE @] \in Stream
      BY DEF Cancelled
    <3>1. s \in Stream
      BY DEF LogTypeOK
    <3> QED
      BY <3>1 DEF Stream
  <2>2. chosen \in 1 .. MaxChoices /\ 0 \in 0 .. MaxWritten
    BY <1>3, LogBounds DEF LogTypeOK, Track
  <2>3. streams' \subseteq Stream
    BY <1>3, <2>1, <2>2 DEF Track, Stream
  <2> QED
    BY <1>3, <2>3 DEF LogTypeOK, Track
<1>4. CASE Untrack
  BY <1>4 DEF Untrack, LogTypeOK
<1>5. CASE Relink
  BY <1>5 DEF Relink, LogTypeOK
<1>6. CASE Landed
  BY <1>6, LandedTypes
<1>7. CASE Pause
  BY <1>7 DEF Pause, LogTypeOK
<1>8. CASE Resume
  <2>1. lines \o buffer \in Seq(Line)
    BY JoinIs DEF LogTypeOK
  <2>2. lines' \in Seq(Line)
    BY <1>8, <2>1, LastOfIs DEF LogTypeOK, Resume
  <2>3. {paused, eof, again}' \subseteq BOOLEAN
    BY <1>8 DEF Resume, LogTypeOK
  <2>4. buffer' = <<>> /\ UNCHANGED <<chosen, followed, streams, frames, landed>>
    BY <1>8 DEF Resume
  <2> QED
    BY <1>0, <2>2, <2>3, <2>4 DEF LogTypeOK
<1>9. ASSUME NEW s \in streams, Flush(s) PROVE LogTypeOK'
  <2>1. PICK k \in 1 .. MaxWritten - s.at : Sends(s, k, s.phase, FALSE)
    BY <1>9, FlushSends
  <2>2. k \in 0 .. MaxWritten - s.at
    BY <2>1 DEF Sends
  <2> QED
    BY <2>1, <2>2, SendsTypes
<1>10. ASSUME NEW s \in streams, Exit(s) PROVE LogTypeOK'
  BY <1>10 DEF Exit, LogTypeOK
<1>11. ASSUME NEW s \in streams, Ended(s) PROVE LogTypeOK'
  <2>1. PICK k \in 0 .. MaxWritten - s.at : Sends(s, k, IF s.phase = "live" THEN "ended" ELSE "gone", TRUE)
    BY <1>11, EndedSends
  <2> QED
    BY <2>1, SendsTypes
<1>12. CASE UNCHANGED logs
  BY <1>12 DEF logs, LogTypeOK
<1> QED
  BY <1>1, <1>2, <1>3, <1>4, <1>5, <1>6, <1>7, <1>8, <1>9, <1>10, <1>11, <1>12 DEF LogNext

\* What is shown and what waits in the buffer is what landed, however it is cut.
LEMMA LandedTail == ASSUME LogTypeOK, TailInv, Landed PROVE TailInv'
<1> DEFINE f == frames[1].lines
<1>1. f \in Seq(Line) /\ lines \in Seq(Line) /\ buffer \in Seq(Line) /\ landed \in Seq(Line)
  BY LandedIs DEF LogTypeOK
<1>2. /\ landed' = landed \o f /\ paused' = paused
      /\ IF paused THEN buffer' = LastOf(buffer \o f) /\ lines' = lines
                   ELSE lines' = LastOf(lines \o f) /\ buffer' = buffer
  BY LandedIs
<1> HIDE DEF f
<1>3. lines \o buffer \in Seq(Line) /\ buffer \o f \in Seq(Line) /\ lines \o f \in Seq(Line)
  BY <1>1, JoinIs
<1>4. LastOf(LastOf(lines \o buffer) \o f) = LastOf((lines \o buffer) \o f)
  BY <1>1, <1>3, LastOfLeft
<1>5. LastOf(LastOf(landed) \o f) = LastOf(landed \o f)
  BY <1>1, LastOfLeft
<1>6. LastOf(lines \o LastOf(buffer \o f)) = LastOf(lines \o (buffer \o f))
  BY <1>1, <1>3, LastOfRight
<1>7. (lines \o buffer) \o f = lines \o (buffer \o f)
  BY <1>1, ConcatAssociative
<1>8. CASE paused
  <2>1. LastOf(lines' \o buffer') = LastOf(landed')
    BY <1>2, <1>4, <1>5, <1>6, <1>7, <1>8 DEF TailInv
  <2>2. Len(buffer') <= MaxLines
    <3>1. buffer' = LastOf(buffer \o f)
      BY <1>2, <1>8
    <3> QED
      BY <1>3, <3>1, LastOfShort
  <2> QED
    BY <1>2, <1>8, <2>1, <2>2 DEF TailInv
<1>9. CASE ~ paused
  <2>1. lines = LastOf(landed) /\ buffer = <<>> /\ buffer' = <<>>
    BY <1>2, <1>9 DEF TailInv
  <2>2. lines' = LastOf(landed')
    BY <1>2, <1>5, <1>9, <2>1
  <2>3. lines' \in Seq(Line) /\ Len(lines') <= MaxLines
    <3>1. lines' = LastOf(lines \o f)
      BY <1>2, <1>9
    <3> QED
      BY <1>3, <3>1, LastOfShort
  <2>4. lines' \o buffer' = lines'
    BY <2>1, <2>3
  <2>5. LastOf(lines') = lines'
    BY <2>3, LogBounds DEF LastOf
  <2>6. Len(buffer') <= MaxLines
    BY <2>1, LogBounds
  <2> QED
    BY <2>1, <2>2, <2>3, <2>4, <2>5, <2>6 DEF TailInv
<1> QED
  BY <1>8, <1>9

LEMMA ResumeTail == ASSUME LogTypeOK, TailInv, Resume PROVE TailInv'
<1>1. /\ lines \in Seq(Line) /\ buffer \in Seq(Line) /\ landed' = landed /\ buffer' = <<>>
      /\ lines' = IF buffer = <<>> THEN lines ELSE LastOf(lines \o buffer)
  BY DEF LogTypeOK, Resume
<1>2. lines \o buffer \in Seq(Line)
  BY <1>1, JoinIs
<1>3. lines' = LastOf(lines \o buffer)
  <2>1. CASE buffer = <<>>
    <3>1. lines \o buffer = lines
      BY <1>1, <2>1
    <3>2. LastOf(lines) = lines
      BY <1>1, LogBounds DEF LastOf, TailInv
    <3> QED
      BY <1>1, <2>1, <3>1, <3>2
  <2>2. CASE buffer # <<>>
    BY <1>1, <2>2
  <2> QED
    BY <2>1, <2>2
<1>4. lines' = LastOf(landed')
  BY <1>1, <1>3 DEF TailInv
<1>5. lines' \in Seq(Line) /\ Len(lines') <= MaxLines
  BY <1>2, <1>3, LastOfShort
<1>6. lines' \o buffer' = lines' /\ LastOf(lines') = lines'
  BY <1>1, <1>5, LogBounds DEF LastOf
<1>7. Len(buffer') <= MaxLines
  BY <1>1, LogBounds
<1> QED
  BY <1>1, <1>4, <1>5, <1>6, <1>7 DEF TailInv

LEMMA ClearedTail == ASSUME Cleared PROVE TailInv'
<1>1. lines' = <<>> /\ buffer' = <<>> /\ landed' = <<>>
  BY DEF Cleared
<1>2. LastOf(<<>>) = <<>>
  BY LogBounds DEF LastOf
<1>3. <<>> \o <<>> = <<>> /\ Len(<<>>) = 0
  OBVIOUS
<1> QED
  BY <1>1, <1>2, <1>3, LogBounds DEF TailInv

LEMMA TailStep == ASSUME LogTypeOK, TailInv, [LogNext]_logs PROVE TailInv'
<1>1. CASE Choose
  BY <1>1, ClearedTail DEF Choose
<1>2. CASE CloseLogs
  BY <1>2, ClearedTail DEF CloseLogs
<1>3. CASE Landed
  BY <1>3, LandedTail
<1>4. CASE Resume
  BY <1>4, ResumeTail
<1>5. CASE Pause
  BY <1>5 DEF Pause, TailInv
<1>6. ASSUME UNCHANGED <<lines, buffer, paused, landed>> PROVE TailInv'
  BY <1>6 DEF TailInv
<1>7. CASE Track \/ Untrack \/ Relink
  BY <1>6, <1>7 DEF Track, Untrack, Relink
<1>8. CASE \E s \in streams : Flush(s) \/ Exit(s) \/ Ended(s)
  BY <1>6, <1>8 DEF Flush, Exit, Ended
<1>9. CASE UNCHANGED logs
  BY <1>6, <1>9 DEF logs
<1> QED
  BY <1>1, <1>2, <1>3, <1>4, <1>5, <1>7, <1>8, <1>9 DEF LogNext

-----------------------------------------------------------------------------

\* The messages on the way: what is added is one stream's, and no later than the choice.
LEMMA SendsFrames ==
    ASSUME LogTypeOK, FrameInv, PastInv, NEW s \in streams, NEW k \in 0 .. MaxWritten - s.at, NEW t,
           NEW end \in BOOLEAN, Sends(s, k, t, end)
    PROVE  FrameInv' /\ PastInv'
<1> DEFINE b == Batch(s, k)  f == [lines |-> b, eof |-> end]
<1>1. s \in Stream /\ k \in Nat /\ s.at + k <= MaxWritten /\ s.of <= chosen /\ s.at \in Nat
  BY SendsTypes, LogBounds DEF PastInv, Stream
<1>2. b \in Seq(Line) /\ DOMAIN b = 1 .. k /\ \A i \in 1 .. k : b[i].of = s.of /\ b[i].n = s.at + i
  BY <1>1, BatchIs
<1>3. f \in Frame /\ f.lines = b
  BY <1>2 DEF Frame
<1>4. frames \in Seq(Frame) /\ frames' = Append(frames, f)
  BY DEF LogTypeOK, Sends
<1> HIDE DEF b, f
<1>5. \A i \in DOMAIN frames' : (i \in DOMAIN frames /\ frames'[i] = frames[i]) \/ frames'[i] = f
  BY <1>3, <1>4
<1>6. ASSUME NEW i \in DOMAIN frames', NEW x \in DOMAIN frames'[i].lines
      PROVE  /\ frames'[i].lines[x].of = frames'[i].lines[1].of
             /\ frames'[i].lines[x].n = frames'[i].lines[1].n + x - 1
             /\ frames'[i].lines[x].of <= chosen
  <2>1. CASE i \in DOMAIN frames /\ frames'[i] = frames[i]
    BY <1>6, <2>1 DEF FrameInv, PastInv, FirstIn
  <2>2. CASE frames'[i] = f
    <3>1. x \in 1 .. k /\ 1 \in 1 .. k
      BY <1>1, <1>2, <1>3, <1>6, <2>2
    <3>2. frames'[i].lines[x] = b[x] /\ frames'[i].lines[1] = b[1]
      BY <1>3, <2>2
    <3>3. b[x].of = s.of /\ b[1].of = s.of /\ b[x].n = s.at + x /\ b[1].n = s.at + 1
      BY <1>2, <3>1
    <3>4. s.at + x = (s.at + 1) + x - 1
      BY <1>1, <3>1
    <3> QED
      BY <1>1, <3>2, <3>3, <3>4
  <2> QED
    BY <1>5, <2>1, <2>2
<1>7. FrameInv'
  BY <1>6 DEF FrameInv, FirstIn
<1>8. ASSUME NEW r \in streams' PROVE r.of <= chosen
  BY <1>1 DEF Sends, PastInv
<1>9. UNCHANGED <<chosen, followed, landed>> /\ followed
  BY DEF Sends
<1> QED
  BY <1>6, <1>7, <1>8, <1>9 DEF PastInv

LEMMA LandedFrames == ASSUME LogTypeOK, FrameInv, PastInv, Landed PROVE FrameInv' /\ PastInv'
<1>1. FrameInv'
  BY LandedIs DEF FrameInv, FirstIn
<1> DEFINE f == frames[1].lines
<1>2. /\ f \in Seq(Line) /\ landed \in Seq(Line) /\ landed' = landed \o f /\ \A x \in DOMAIN f : f[x].of <= chosen
      /\ UNCHANGED <<chosen, followed, streams>> /\ frames # <<>>
  BY LandedIs DEF LogTypeOK, PastInv, Landed
<1>3. \A i \in DOMAIN frames' : \A x \in DOMAIN frames'[i].lines : frames'[i].lines[x].of <= chosen
  BY LandedIs DEF PastInv
<1> HIDE DEF f
<1>4. \A i \in DOMAIN landed' : landed'[i].of <= chosen
  <2> SUFFICES ASSUME NEW i \in DOMAIN (landed \o f) PROVE (landed \o f)[i].of <= chosen
    BY <1>2
  <2>1. \/ i \in DOMAIN landed /\ (landed \o f)[i] = landed[i]
        \/ i - Len(landed) \in DOMAIN f /\ (landed \o f)[i] = f[i - Len(landed)]
    BY <1>2
  <2> QED
    BY <1>2, <2>1 DEF PastInv
<1> QED
  BY <1>1, <1>2, <1>3, <1>4 DEF PastInv

LEMMA FramesStep == ASSUME LogTypeOK, FrameInv, PastInv, [LogNext]_logs PROVE FrameInv' /\ PastInv'
<1>0. DOMAIN <<>> = {}
  OBVIOUS
<1>a. ASSUME UNCHANGED <<chosen, followed, frames, landed>>, \A r \in streams' : r.of <= chosen PROVE FrameInv' /\ PastInv'
  BY <1>a DEF FrameInv, PastInv, FirstIn
<1>1. CASE Choose
  <2>1. chosen' = chosen + 1 /\ followed' = TRUE /\ landed' = <<>> /\ UNCHANGED <<streams, frames>> /\ chosen \in Nat
    BY <1>1, LogBounds DEF Choose, Cleared, LogTypeOK
  <2>2. \A s \in streams : s.of \in Nat
    BY LogBounds DEF LogTypeOK, Stream
  <2>3. \A i \in DOMAIN frames : \A x \in DOMAIN frames[i].lines : frames[i].lines[x].of \in Nat
    <3> SUFFICES ASSUME NEW i \in DOMAIN frames, NEW x \in DOMAIN frames[i].lines PROVE frames[i].lines[x].of \in Nat
      OBVIOUS
    <3>0. frames[i] \in Frame
      BY DEF LogTypeOK
    <3>1. frames[i].lines \in Seq(Line)
      BY <3>0 DEF Frame
    <3>2. frames[i].lines[x] \in Line
      BY <3>1
    <3> QED
      BY <3>2, LogBounds DEF Line
  <2> QED
    BY <1>0, <2>1, <2>2, <2>3 DEF FrameInv, PastInv, FirstIn
<1>2. CASE CloseLogs
  <2>1. UNCHANGED <<chosen, streams>> /\ frames' = <<>> /\ landed' = <<>> /\ followed' = FALSE
    BY <1>2 DEF CloseLogs, Cleared
  <2> QED
    BY <1>0, <2>1 DEF FrameInv, PastInv
<1>3. CASE Track
  <2>1. \A r \in Cancelled : r.of <= chosen
    BY DEF Cancelled, PastInv, LogTypeOK, Stream
  <2>2. chosen <= chosen
    BY LogBounds DEF LogTypeOK
  <2> QED
    BY <1>a, <1>3, <2>1, <2>2 DEF Track
<1>4. CASE Untrack \/ Pause \/ Resume
  BY <1>a, <1>4 DEF Untrack, Pause, Resume, PastInv
<1>5. CASE Relink
  <2>1. UNCHANGED <<chosen, followed, landed>> /\ followed /\ frames' = <<>> /\ streams' = {}
    BY <1>5 DEF Relink
  <2> QED
    BY <1>0, <2>1 DEF FrameInv, PastInv
<1>6. CASE Landed
  BY <1>6, LandedFrames
<1>7. ASSUME NEW s \in streams, Flush(s) PROVE FrameInv' /\ PastInv'
  <2>1. PICK k \in 1 .. MaxWritten - s.at : Sends(s, k, s.phase, FALSE)
    BY <1>7, FlushSends
  <2>2. k \in 0 .. MaxWritten - s.at
    BY <2>1 DEF Sends
  <2> QED
    BY <2>1, <2>2, SendsFrames
<1>8. ASSUME NEW s \in streams, Ended(s) PROVE FrameInv' /\ PastInv'
  <2>1. PICK k \in 0 .. MaxWritten - s.at : Sends(s, k, IF s.phase = "live" THEN "ended" ELSE "gone", TRUE)
    BY <1>8, EndedSends
  <2> QED
    BY <2>1, SendsFrames
<1>9. ASSUME NEW s \in streams, Exit(s) PROVE FrameInv' /\ PastInv'
  BY <1>a, <1>9 DEF Exit, PastInv
<1>10. CASE UNCHANGED logs
  BY <1>a, <1>10 DEF logs, PastInv
<1> QED
  BY <1>1, <1>2, <1>3, <1>4, <1>5, <1>6, <1>7, <1>8, <1>9, <1>10 DEF LogNext

-----------------------------------------------------------------------------

\* The lines of a choice among the first i, and what a batch adds to them.
OfAmong(s, c, i) == {j \in 1 .. i : s[j].of = c}

LEMMA CountsJoin ==
    ASSUME NEW a \in Seq(Line), NEW b \in Seq(Line), NEW c
    PROVE  /\ \A i \in 0 .. Len(a) : OfAmong(a \o b, c, i) = OfAmong(a, c, i)
           /\ Cardinality(OfAmong(a, c, Len(a))) \in Nat
           /\ (\A x \in DOMAIN b : b[x].of = c) =>
                 \A x \in 0 .. Len(b) : Cardinality(OfAmong(a \o b, c, Len(a) + x)) = Cardinality(OfAmong(a, c, Len(a))) + x
           /\ (\A x \in DOMAIN b : b[x].of # c) =>
                 \A x \in 0 .. Len(b) : OfAmong(a \o b, c, Len(a) + x) = OfAmong(a, c, Len(a))
<1> DEFINE n == Len(a)  ab == a \o b
<1>1. /\ n \in Nat /\ Len(b) \in Nat /\ DOMAIN b = 1 .. Len(b)
      /\ \A i \in 1 .. n : ab[i] = a[i]
      /\ \A x \in 1 .. Len(b) : ab[n + x] = b[x]
  BY JoinIs
<1> HIDE DEF n, ab
<1>2. \A i \in 0 .. n : OfAmong(ab, c, i) = OfAmong(a, c, i)
  BY <1>1 DEF OfAmong
<1>3. IsFiniteSet(OfAmong(a, c, n)) /\ Cardinality(OfAmong(a, c, n)) \in Nat
  <2>1. IsFiniteSet(1 .. n)
    BY <1>1, FS_Interval
  <2>2. OfAmong(a, c, n) \subseteq 1 .. n
    BY DEF OfAmong
  <2>3. IsFiniteSet(OfAmong(a, c, n))
    BY <2>1, <2>2, FS_Subset
  <2> QED
    BY <2>3, FS_CardinalityType
<1>4. ASSUME \A x \in DOMAIN b : b[x].of = c, NEW x \in 0 .. Len(b)
      PROVE  Cardinality(OfAmong(ab, c, n + x)) = Cardinality(OfAmong(a, c, n)) + x
  <2> DEFINE A == OfAmong(a, c, n)  B == (n + 1) .. (n + x)
  <2>1. OfAmong(ab, c, n + x) = A \cup B
    <3>1. ASSUME NEW j \in 1 .. n + x PROVE ab[j].of = c <=> (j \in B \/ (j \in 1 .. n /\ a[j].of = c))
      <4>1. CASE j <= n
        BY <1>1, <3>1, <4>1
      <4>2. CASE j > n
        <5>1. j - n \in 1 .. Len(b) /\ j = n + (j - n) /\ j \in B
          BY <1>1, <1>4, <3>1, <4>2
        <5>2. ab[j] = b[j - n]
          BY <1>1, <5>1
        <5> QED
          BY <1>1, <1>4, <5>1, <5>2
      <4> QED
        BY <1>1, <3>1, <4>1, <4>2
    <3>2. B \subseteq 1 .. n + x /\ 1 .. n \subseteq 1 .. n + x
      BY <1>1
    <3> QED
      BY <3>1, <3>2 DEF OfAmong
  <2>2. IsFiniteSet(B) /\ Cardinality(B) = x
    <3> DEFINE p == n + 1  q == n + x
    <3>1. p \in Int /\ q \in Int /\ x \in Nat /\ (IF p > q THEN 0 ELSE q - p + 1) = x
      BY <1>1
    <3> HIDE DEF p, q
    <3>2. IsFiniteSet(p .. q) /\ Cardinality(p .. q) = IF p > q THEN 0 ELSE q - p + 1
      BY <3>1, FS_Interval
    <3> QED
      BY <3>1, <3>2 DEF p, q
  <2>3. A \cap B = {}
    BY <1>1 DEF OfAmong
  <2>0. IsFiniteSet(A) /\ Cardinality(A) \in Nat
    BY <1>3
  <2> HIDE DEF A, B
  <2>4. Cardinality(A \cup B) = Cardinality(A) + Cardinality(B) - Cardinality({})
    BY <2>0, <2>2, <2>3, FS_Union
  <2>5. Cardinality({}) = 0 /\ x \in Nat
    BY FS_EmptySet
  <2>6. Cardinality(A \cup B) = Cardinality(A) + x
    BY <2>0, <2>2, <2>4, <2>5
  <2> QED
    BY <2>1, <2>6 DEF A
<1>5. ASSUME \A x \in DOMAIN b : b[x].of # c, NEW x \in 0 .. Len(b) PROVE OfAmong(ab, c, n + x) = OfAmong(a, c, n)
  <2>1. ASSUME NEW j \in 1 .. n + x PROVE ab[j].of = c <=> (j \in 1 .. n /\ a[j].of = c)
    <3>1. CASE j <= n
      BY <1>1, <2>1, <3>1
    <3>2. CASE j > n
      <4>1. j - n \in 1 .. Len(b) /\ j = n + (j - n)
        BY <1>1, <1>5, <2>1, <3>2
      <4>2. ab[j] = b[j - n]
        BY <1>1, <4>1
      <4> QED
        BY <1>1, <1>5, <3>2, <4>1, <4>2
    <3> QED
      BY <1>1, <2>1, <3>1, <3>2
  <2>2. 1 .. n \subseteq 1 .. n + x
    BY <1>1
  <2> QED
    BY <2>1, <2>2 DEF OfAmong
<1> QED
  BY <1>2, <1>3, <1>4, <1>5 DEF n, ab

-----------------------------------------------------------------------------

LEMMA OwnCounts == /\ \A i : OwnUpTo(i) = Cardinality(OfAmong(landed, chosen, i))
                   /\ OwnCount = Cardinality(OfAmong(landed, chosen, Len(landed)))
  BY DEF OwnUpTo, OwnCount, OfAmong

LEMMA FrameTypes ==
    ASSUME LogTypeOK, NEW i \in DOMAIN frames
    PROVE  /\ frames[i] \in Frame /\ frames[i].lines \in Seq(Line) /\ i \in Nat /\ Len(frames[i].lines) \in Nat
           /\ OwnFrame(i) => FirstIn(i) \in Nat /\ LastIn(i) \in Nat /\ FirstIn(i) <= LastIn(i) /\ Len(frames[i].lines) >= 1
<1>1. frames[i] \in Frame /\ i \in Nat
  BY DEF LogTypeOK
<1>2. frames[i].lines \in Seq(Line)
  BY <1>1 DEF Frame
<1>3. ASSUME OwnFrame(i) PROVE FirstIn(i) \in Nat /\ Len(frames[i].lines) >= 1
  <2>1. frames[i].lines # <<>>
    BY <1>3 DEF OwnFrame
  <2>2. 1 \in DOMAIN frames[i].lines /\ Len(frames[i].lines) >= 1
    BY <1>2, <2>1
  <2>3. frames[i].lines[1] \in Line
    BY <1>2, <2>2
  <2> QED
    BY <2>2, <2>3, LogBounds DEF FirstIn, Line
<1>4. Len(frames[i].lines) \in Nat
  BY <1>2
<1> QED
  BY <1>1, <1>2, <1>3, <1>4 DEF LastIn

LEMMA LandedCurrent == ASSUME LogInv, Landed PROVE CurrentInv'
<1> SUFFICES ASSUME followed', ~ again' PROVE CurrentInv'
  BY DEF CurrentInv
<1> DEFINE f == frames[1].lines  n == Len(landed)
<1>1. /\ 1 \in DOMAIN frames /\ f \in Seq(Line) /\ landed \in Seq(Line) /\ landed' = landed \o f
      /\ UNCHANGED <<chosen, followed, streams, again>> /\ LogTypeOK
  BY LandedIs DEF LogInv, LogTypeOK
<1>2. /\ \A i \in DOMAIN frames' : i + 1 \in DOMAIN frames /\ frames'[i] = frames[i + 1] /\ i \in Nat /\ i >= 1
      /\ \A i \in DOMAIN frames : i \in Nat /\ (i # 1 => i - 1 \in DOMAIN frames' /\ frames'[i - 1] = frames[i])
  BY LandedIs DEF LogInv
<1>3. OneStream /\ NoneYet /\ Chained /\ Numbered /\ \A s \in streams : s.of = chosen => Reached(s.at)
  BY <1>1 DEF LogInv, CurrentInv
<1>4. \A i \in DOMAIN frames' : (OwnFrame(i)' <=> OwnFrame(i + 1)) /\ FirstIn(i)' = FirstIn(i + 1) /\ LastIn(i)' = LastIn(i + 1)
  BY <1>1, <1>2 DEF OwnFrame, FirstIn, LastIn
<1>5. /\ \A i : OwnUpTo(i)' = Cardinality(OfAmong(landed \o f, chosen, i))
      /\ OwnCount' = Cardinality(OfAmong(landed \o f, chosen, Len(landed \o f)))
  BY <1>1, OwnCounts DEF OfAmong, OwnUpTo, OwnCount
<1>6. n \in Nat /\ Len(f) \in Nat /\ Len(landed \o f) = n + Len(f) /\ DOMAIN (landed \o f) = 1 .. n + Len(f)
      /\ (\A i \in 1 .. n : (landed \o f)[i] = landed[i]) /\ \A x \in 1 .. Len(f) : (landed \o f)[n + x] = f[x]
  BY <1>1, JoinIs
<1>7. OwnCount \in Nat /\ \A i \in 0 .. n : OwnUpTo(i)' = OwnUpTo(i)
  <2>1. /\ \A i \in 0 .. n : OfAmong(landed \o f, chosen, i) = OfAmong(landed, chosen, i)
        /\ Cardinality(OfAmong(landed, chosen, n)) \in Nat
    BY <1>1, CountsJoin
  <2> QED
    BY <1>5, <2>1, OwnCounts
<1>8. OneStream'
  BY <1>1, <1>3 DEF OneStream
<1>9. \A i \in DOMAIN frames : OwnFrame(i) => FirstIn(i) \in Nat /\ LastIn(i) \in Nat /\ FirstIn(i) <= LastIn(i)
  BY <1>1, FrameTypes
<1>10. CASE OwnFrame(1)
  <2>1. \A x \in DOMAIN f : f[x].of = chosen /\ f[x].n = FirstIn(1) + x - 1
    BY <1>1, <1>10 DEF OwnFrame, FrameInv, LogInv, FirstIn
  <2>2. FirstIn(1) = OwnCount + 1
    <3>1. Follows(1)
      BY <1>1, <1>3, <1>10 DEF Chained
    <3> QED
      BY <1>2, <3>1 DEF Follows
  <2>3. \A x \in 0 .. Len(f) : Cardinality(OfAmong(landed \o f, chosen, n + x)) = OwnCount + x
    <3>1. \A x \in 0 .. Len(f) : Cardinality(OfAmong(landed \o f, chosen, n + x)) = Cardinality(OfAmong(landed, chosen, n)) + x
      BY <1>1, <2>1, CountsJoin
    <3> QED
      BY <3>1, OwnCounts
  <2>4. OwnCount' = LastIn(1)
    <3>1. OwnCount' = OwnCount + Len(f)
      <4>1. Len(f) \in 0 .. Len(f)
        BY <1>6
      <4> QED
        BY <1>5, <1>6, <2>3, <4>1
    <3> QED
      BY <1>6, <1>7, <2>2, <3>1 DEF LastIn
  <2>5. Numbered'
    <3> SUFFICES ASSUME NEW i \in DOMAIN (landed \o f), (landed \o f)[i].of = chosen PROVE (landed \o f)[i].n = OwnUpTo(i)'
      BY <1>1 DEF Numbered
    <3>1. CASE i \in 1 .. n
      <4>1. landed[i].of = chosen /\ i \in DOMAIN landed /\ i \in 0 .. n
        BY <1>1, <1>6, <3>1
      <4> QED
        BY <1>3, <1>6, <1>7, <3>1, <4>1 DEF Numbered
    <3>2. CASE i \notin 1 .. n
      <4>1. i - n \in 1 .. Len(f) /\ i = n + (i - n) /\ i - n \in DOMAIN f /\ i - n \in 0 .. Len(f)
        BY <1>1, <1>6, <3>2
      <4>2. (landed \o f)[i] = f[i - n]
        BY <1>6, <4>1
      <4>3. OwnUpTo(i)' = OwnCount + (i - n)
        BY <1>5, <2>3, <4>1
      <4>4. f[i - n].n = FirstIn(1) + (i - n) - 1
        BY <2>1, <4>1
      <4>5. FirstIn(1) + (i - n) - 1 = OwnCount + (i - n)
        BY <1>6, <1>7, <2>2, <4>1
      <4> QED
        BY <4>2, <4>3, <4>4, <4>5
    <3> QED
      BY <3>1, <3>2
  <2>6. ASSUME NEW i \in DOMAIN frames', OwnFrame(i)' PROVE Follows(i)'
    <3>1. Follows(i + 1) /\ i + 1 \in DOMAIN frames /\ OwnFrame(i + 1) /\ 1 < i + 1
      BY <1>2, <1>3, <1>4, <2>6 DEF Chained
    <3>2. LastIn(1) < FirstIn(i + 1)
      BY <1>1, <1>3, <1>10, <3>1 DEF Chained
    <3>3. FirstIn(i + 1) # OwnCount + 1
      BY <1>1, <1>9, <1>10, <2>2, <3>1, <3>2
    <3>4. PICK j \in DOMAIN frames : j < i + 1 /\ OwnFrame(j) /\ FirstIn(i + 1) = LastIn(j) + 1
      BY <3>1, <3>3 DEF Follows
    <3>5. CASE j = 1
      BY <1>4, <2>4, <2>6, <3>4, <3>5 DEF Follows
    <3>6. CASE j # 1
      <4>1. j - 1 \in DOMAIN frames' /\ j - 1 < i /\ j = (j - 1) + 1
        BY <1>2, <2>6, <3>4, <3>6
      <4>2. OwnFrame(j - 1)' /\ LastIn(j - 1)' = LastIn(j)
        BY <1>4, <3>4, <4>1
      <4>3. \E l \in DOMAIN frames' : l < i /\ OwnFrame(l)' /\ FirstIn(i)' = LastIn(l)' + 1
        BY <1>4, <2>6, <3>4, <4>1, <4>2
      <4> QED
        BY <4>3 DEF Follows
    <3> QED
      BY <3>5, <3>6
  <2>7. ASSUME NEW i \in DOMAIN frames', NEW j \in DOMAIN frames', i < j, OwnFrame(i)', OwnFrame(j)'
        PROVE  LastIn(i)' < FirstIn(j)'
    BY <1>2, <1>3, <1>4, <2>7 DEF Chained
  <2>8. Chained'
    BY <2>6, <2>7 DEF Chained
  <2>9. ASSUME NEW s \in streams, s.of = chosen PROVE Reached(s.at)'
    <3>1. Reached(s.at)
      BY <1>3, <2>9
    <3>2. \A i \in DOMAIN frames' : OwnFrame(i)' => LastIn(i)' <= s.at
      BY <1>2, <1>4, <3>1 DEF Reached
    <3>3. s.at # OwnCount
      <4>1. LastIn(1) <= s.at /\ s.at \in Nat
        BY <1>1, <1>10, <3>1, LogBounds DEF Reached, LogTypeOK, Stream
      <4> QED
        BY <1>1, <1>7, <1>9, <1>10, <2>2, <4>1
    <3>4. PICK i \in DOMAIN frames : OwnFrame(i) /\ LastIn(i) = s.at
      BY <3>1, <3>3 DEF Reached
    <3>5. s.at = OwnCount' \/ \E l \in DOMAIN frames' : OwnFrame(l)' /\ LastIn(l)' = s.at
      <4>1. CASE i = 1
        BY <2>4, <3>4, <4>1
      <4>2. CASE i # 1
        <5>1. i - 1 \in DOMAIN frames' /\ i = (i - 1) + 1
          BY <1>2, <3>4, <4>2
        <5> QED
          BY <1>4, <3>4, <5>1
      <4> QED
        BY <4>1, <4>2
    <3> QED
      BY <3>2, <3>5 DEF Reached
  <2>10. NoneYet'
    <3>1. \E s \in streams : s.of = chosen
      BY <1>1, <1>3, <1>10 DEF NoneYet
    <3> QED
      BY <1>1, <3>1 DEF NoneYet
  <2> QED
    BY <1>1, <1>8, <2>5, <2>8, <2>9, <2>10 DEF CurrentInv
<1>11. CASE ~ OwnFrame(1)
  <2>1. \A x \in DOMAIN f : f[x].of # chosen
    <3>1. ASSUME NEW x \in DOMAIN f PROVE f # <<>> /\ f[x].of = f[1].of
      BY <1>1, <3>1 DEF FrameInv, LogInv
    <3> QED
      BY <1>11, <3>1 DEF OwnFrame
  <2>2. \A x \in 0 .. Len(f) : OfAmong(landed \o f, chosen, n + x) = OfAmong(landed, chosen, n)
    BY <1>1, <2>1, CountsJoin
  <2>3. OwnCount' = OwnCount
    <3>1. Len(f) \in 0 .. Len(f)
      BY <1>6
    <3> QED
      BY <1>5, <1>6, <2>2, <3>1, OwnCounts
  <2>4. Numbered'
    <3> SUFFICES ASSUME NEW i \in DOMAIN (landed \o f), (landed \o f)[i].of = chosen PROVE (landed \o f)[i].n = OwnUpTo(i)'
      BY <1>1 DEF Numbered
    <3>1. i \in 1 .. n
      <4> SUFFICES ASSUME i \notin 1 .. n PROVE FALSE
        OBVIOUS
      <4>1. i - n \in 1 .. Len(f) /\ i = n + (i - n) /\ i - n \in DOMAIN f
        BY <1>1, <1>6
      <4>2. (landed \o f)[i] = f[i - n]
        BY <1>6, <4>1
      <4> QED
        BY <2>1, <4>1, <4>2
    <3>2. landed[i].of = chosen /\ i \in DOMAIN landed /\ i \in 0 .. n
      BY <1>1, <1>6, <3>1
    <3> QED
      BY <1>3, <1>6, <1>7, <3>1, <3>2 DEF Numbered
  <2>5. ASSUME NEW i \in DOMAIN frames', OwnFrame(i)' PROVE Follows(i)'
    <3>1. Follows(i + 1) /\ i + 1 \in DOMAIN frames /\ OwnFrame(i + 1)
      BY <1>2, <1>3, <1>4, <2>5 DEF Chained
    <3>2. CASE FirstIn(i + 1) = OwnCount + 1
      BY <1>4, <2>3, <2>5, <3>2 DEF Follows
    <3>3. ASSUME NEW j \in DOMAIN frames, j < i + 1, OwnFrame(j), FirstIn(i + 1) = LastIn(j) + 1 PROVE Follows(i)'
      <4>0. j # 1
        BY <1>11, <3>3
      <4>1. j - 1 \in DOMAIN frames' /\ j - 1 < i /\ j = (j - 1) + 1
        BY <1>2, <2>5, <3>3, <4>0
      <4>2. OwnFrame(j - 1)' /\ LastIn(j - 1)' = LastIn(j)
        BY <1>4, <3>3, <4>1
      <4>3. \E l \in DOMAIN frames' : l < i /\ OwnFrame(l)' /\ FirstIn(i)' = LastIn(l)' + 1
        BY <1>4, <2>5, <3>3, <4>1, <4>2
      <4> QED
        BY <4>3 DEF Follows
    <3> QED
      BY <3>1, <3>2, <3>3 DEF Follows
  <2>6. ASSUME NEW i \in DOMAIN frames', NEW j \in DOMAIN frames', i < j, OwnFrame(i)', OwnFrame(j)'
        PROVE  LastIn(i)' < FirstIn(j)'
    BY <1>2, <1>3, <1>4, <2>6 DEF Chained
  <2>7. Chained'
    BY <2>5, <2>6 DEF Chained
  <2>8. ASSUME NEW s \in streams, s.of = chosen PROVE Reached(s.at)'
    <3>1. Reached(s.at)
      BY <1>3, <2>8
    <3>2. \A i \in DOMAIN frames' : OwnFrame(i)' => LastIn(i)' <= s.at
      BY <1>2, <1>4, <3>1 DEF Reached
    <3>3. s.at = OwnCount' \/ \E l \in DOMAIN frames' : OwnFrame(l)' /\ LastIn(l)' = s.at
      <4>1. CASE s.at = OwnCount
        BY <2>3, <4>1
      <4>2. ASSUME NEW i \in DOMAIN frames, OwnFrame(i), LastIn(i) = s.at PROVE \E l \in DOMAIN frames' : OwnFrame(l)' /\ LastIn(l)' = s.at
        <5>0. i # 1
          BY <1>11, <4>2
        <5>1. i - 1 \in DOMAIN frames' /\ i = (i - 1) + 1
          BY <1>2, <4>2, <5>0
        <5> QED
          BY <1>4, <4>2, <5>1
      <4> QED
        BY <3>1, <4>1, <4>2 DEF Reached
    <3> QED
      BY <3>2, <3>3 DEF Reached
  <2>9. NoneYet'
    BY <1>1, <1>2, <1>3, <1>4, <2>3 DEF NoneYet
  <2> QED
    BY <1>1, <1>8, <2>4, <2>7, <2>8, <2>9 DEF CurrentInv
<1> QED
  BY <1>10, <1>11

LEMMA SendsCurrent ==
    ASSUME LogInv, NEW s \in streams, NEW k \in 0 .. MaxWritten - s.at, NEW t, NEW end \in BOOLEAN, Sends(s, k, t, end)
    PROVE  CurrentInv'
<1> SUFFICES ASSUME followed', ~ again' PROVE CurrentInv'
  BY DEF CurrentInv
<1> DEFINE b == Batch(s, k)  f == [lines |-> b, eof |-> end] r == [of |-> s.of, at |-> s.at + k, phase |-> t]
<1>m. PICK m : m = Len(frames) + 1
  OBVIOUS
<1>1. /\ LogTypeOK /\ s \in Stream /\ k \in Nat /\ s.at + k <= MaxWritten /\ s.at \in Nat
      /\ UNCHANGED <<chosen, followed, landed, again>>
  <2>1. LogTypeOK
    BY DEF LogInv
  <2>2. s \in Stream /\ k \in Nat /\ s.at + k <= MaxWritten
    BY <2>1, SendsTypes
  <2>3. s.at \in Nat
    BY <2>2, LogBounds DEF Stream
  <2>4. UNCHANGED <<chosen, followed, landed, again>>
    BY DEF Sends
  <2> QED
    BY <2>1, <2>2, <2>3, <2>4
<1>2. b \in Seq(Line) /\ Len(b) = k /\ DOMAIN b = 1 .. k /\ \A i \in 1 .. k : b[i].of = s.of /\ b[i].n = s.at + i
  BY <1>1, BatchIs
<1>3. f \in Frame /\ f.lines = b
  BY <1>2 DEF Frame
<1>4. frames \in Seq(Frame) /\ frames' = Append(frames, f)
  BY <1>1 DEF LogTypeOK, Sends
<1>5. r.of = s.of /\ r.at = s.at + k /\ streams' = (streams \ {s}) \cup (IF t = "gone" THEN {} ELSE {r})
  BY DEF Sends
<1> HIDE DEF b, f, r
<1>6. /\ m \in DOMAIN frames' /\ frames'[m] = f /\ m \in Nat
      /\ \A i \in DOMAIN frames : i \in DOMAIN frames' /\ i < m /\ i \in Nat /\ frames'[i] = frames[i]
      /\ \A i \in DOMAIN frames' : i = m \/ i \in DOMAIN frames
  BY <1>m, <1>3, <1>4
<1>7. OneStream /\ NoneYet /\ Chained /\ Numbered /\ \A z \in streams : z.of = chosen => Reached(z.at)
  BY <1>1 DEF LogInv, CurrentInv
<1>8. \A i \in DOMAIN frames : (OwnFrame(i)' <=> OwnFrame(i)) /\ FirstIn(i)' = FirstIn(i) /\ LastIn(i)' = LastIn(i)
  BY <1>1, <1>6 DEF OwnFrame, FirstIn, LastIn
<1>9. OwnCount' = OwnCount /\ Numbered'
  BY <1>1, <1>7 DEF OwnCount, OwnUpTo, Numbered
<1>10. \A i \in DOMAIN frames : OwnFrame(i) => FirstIn(i) \in Nat /\ LastIn(i) \in Nat /\ FirstIn(i) <= LastIn(i)
  BY <1>1, FrameTypes
<1>11. \A i \in DOMAIN frames : OwnFrame(i) => Follows(i)'
  <2> SUFFICES ASSUME NEW i \in DOMAIN frames, OwnFrame(i) PROVE Follows(i)'
    OBVIOUS
  <2>1. Follows(i)
    BY <1>7 DEF Chained
  <2>2. CASE FirstIn(i) = OwnCount + 1
    BY <1>8, <1>9, <2>2 DEF Follows
  <2>3. ASSUME NEW j \in DOMAIN frames, j < i, OwnFrame(j), FirstIn(i) = LastIn(j) + 1 PROVE Follows(i)'
    <3>1. \E l \in DOMAIN frames' : l < i /\ OwnFrame(l)' /\ FirstIn(i)' = LastIn(l)' + 1
      BY <1>6, <1>8, <2>3
    <3> QED
      BY <3>1 DEF Follows
  <2> QED
    BY <2>1, <2>2, <2>3 DEF Follows
<1>12. CASE s.of # chosen
  <2>1. ~ OwnFrame(m)'
    <3> SUFFICES ASSUME OwnFrame(m)' PROVE FALSE
      OBVIOUS
    <3>1. b # <<>> /\ b[1].of = chosen
      BY <1>1, <1>3, <1>6 DEF OwnFrame
    <3>2. 1 \in 1 .. k
      BY <1>1, <1>2, <3>1
    <3> QED
      BY <1>2, <1>12, <3>1, <3>2
  <2>2. \A z \in streams' : z.of = chosen => z \in streams
    BY <1>5, <1>12
  <2>3. \A z \in streams : z.of = chosen => z \in streams'
    BY <1>5, <1>12
  <2>4. OneStream'
    BY <1>1, <1>7, <2>2 DEF OneStream
  <2>5. NoneYet'
    <3> SUFFICES ASSUME \A z \in streams' : z.of # chosen PROVE OwnCount' = 0 /\ \A i \in DOMAIN frames' : ~ OwnFrame(i)'
      BY <1>1 DEF NoneYet
    <3>1. OwnCount = 0 /\ \A i \in DOMAIN frames : ~ OwnFrame(i)
      BY <1>7, <2>3 DEF NoneYet
    <3> QED
      BY <1>6, <1>8, <1>9, <2>1, <3>1
  <2>6. Chained'
    <3>1. \A i \in DOMAIN frames' : OwnFrame(i)' => Follows(i)'
      BY <1>6, <1>8, <1>11, <2>1
    <3>2. \A i, j \in DOMAIN frames' : i < j /\ OwnFrame(i)' /\ OwnFrame(j)' => LastIn(i)' < FirstIn(j)'
      BY <1>6, <1>7, <1>8, <2>1 DEF Chained
    <3> QED
      BY <3>1, <3>2 DEF Chained
  <2>7. ASSUME NEW z \in streams', z.of = chosen PROVE Reached(z.at)'
    <3>1. Reached(z.at)
      BY <1>7, <2>2, <2>7
    <3>2. \A i \in DOMAIN frames' : OwnFrame(i)' => LastIn(i)' <= z.at
      BY <1>6, <1>8, <2>1, <3>1 DEF Reached
    <3>3. z.at = OwnCount' \/ \E i \in DOMAIN frames' : OwnFrame(i)' /\ LastIn(i)' = z.at
      BY <1>6, <1>8, <1>9, <3>1 DEF Reached
    <3> QED
      BY <3>2, <3>3 DEF Reached
  <2> QED
    BY <1>1, <1>9, <2>4, <2>5, <2>6, <2>7 DEF CurrentInv
<1>13. CASE s.of = chosen
  <2>0. s.phase = "live"
    <3>1. s.phase # "cancelled" /\ s.phase # "ended"
      BY <1>7, <1>13 DEF OneStream, Sends
    <3>2. s.phase \in {"live", "cancelled", "ended"}
      BY <1>1 DEF Stream
    <3> QED
      BY <3>1, <3>2
  <2>1. t # "gone" /\ t # "cancelled" /\ r.phase = t
    <3>1. t \in {"live", "ended"}
      BY <2>0 DEF Sends
    <3> QED
      BY <3>1 DEF r
  <2>2. /\ streams' = (streams \ {s}) \cup {r} /\ r.of = chosen
        /\ \A z \in streams' : z.of = chosen => z = r
    BY <1>5, <1>7, <1>13, <2>1 DEF OneStream
  <2>3. OneStream' /\ NoneYet'
    BY <1>1, <2>1, <2>2 DEF OneStream, NoneYet
  <2>4. Reached(s.at)
    BY <1>7, <1>13
  <2>5. CASE k = 0
    <3>1. ~ OwnFrame(m)'
      BY <1>2, <1>3, <1>6, <2>5 DEF OwnFrame
    <3>2. Chained'
      <4>1. \A i \in DOMAIN frames' : OwnFrame(i)' => Follows(i)'
        BY <1>6, <1>8, <1>11, <3>1
      <4>2. \A i, j \in DOMAIN frames' : i < j /\ OwnFrame(i)' /\ OwnFrame(j)' => LastIn(i)' < FirstIn(j)'
        BY <1>6, <1>7, <1>8, <3>1 DEF Chained
      <4> QED
        BY <4>1, <4>2 DEF Chained
    <3>3. r.at = s.at
      BY <1>1, <1>5, <2>5
    <3>4. ASSUME NEW z \in streams', z.of = chosen PROVE Reached(z.at)'
      <4>0. z.at = s.at
        BY <2>2, <3>3, <3>4
      <4>1. \A i \in DOMAIN frames' : OwnFrame(i)' => LastIn(i)' <= z.at
        BY <1>6, <1>8, <2>4, <3>1, <4>0 DEF Reached
      <4>2. z.at = OwnCount' \/ \E i \in DOMAIN frames' : OwnFrame(i)' /\ LastIn(i)' = z.at
        BY <1>6, <1>8, <1>9, <2>4, <4>0 DEF Reached
      <4> QED
        BY <4>1, <4>2 DEF Reached
    <3> QED
      BY <1>1, <1>9, <2>3, <3>2, <3>4 DEF CurrentInv
  <2>6. CASE k # 0
    <3>1. k >= 1 /\ 1 \in 1 .. k
      BY <1>1, <2>6
    <3>2. OwnFrame(m)' /\ FirstIn(m)' = s.at + 1 /\ LastIn(m)' = s.at + k
      <4>1. b # <<>> /\ b[1].of = chosen /\ b[1].n = s.at + 1
        BY <1>2, <1>13, <3>1
      <4>2. OwnFrame(m)' /\ FirstIn(m)' = s.at + 1
        BY <1>1, <1>3, <1>6, <4>1 DEF OwnFrame, FirstIn
      <4>3. LastIn(m)' = FirstIn(m)' + Len(b) - 1
        BY <1>3, <1>6 DEF LastIn, FirstIn
      <4>4. s.at + 1 + k - 1 = s.at + k
        BY <1>1
      <4>5. LastIn(m)' = s.at + 1 + k - 1
        BY <1>2, <4>2, <4>3
      <4> QED
        BY <4>2, <4>4, <4>5
    <3>3. Follows(m)'
      <4>1. CASE s.at = OwnCount
        BY <1>9, <3>2, <4>1 DEF Follows
      <4>2. ASSUME NEW j \in DOMAIN frames, OwnFrame(j), LastIn(j) = s.at PROVE Follows(m)'
        <5>1. j \in DOMAIN frames' /\ j < m /\ OwnFrame(j)' /\ FirstIn(m)' = LastIn(j)' + 1
          BY <1>6, <1>8, <3>2, <4>2
        <5>2. \E l \in DOMAIN frames' : l < m /\ OwnFrame(l)' /\ FirstIn(m)' = LastIn(l)' + 1
          BY <5>1
        <5> QED
          BY <5>2 DEF Follows
      <4> QED
        BY <2>4, <4>1, <4>2 DEF Reached
    <3>4. Chained'
      <4>1. \A i \in DOMAIN frames' : OwnFrame(i)' => Follows(i)'
        BY <1>6, <1>8, <1>11, <3>3
      <4>2. ASSUME NEW i \in DOMAIN frames', NEW j \in DOMAIN frames', i < j, OwnFrame(i)', OwnFrame(j)'
            PROVE  LastIn(i)' < FirstIn(j)'
        <5>1. CASE j = m
          <6>1. i \in DOMAIN frames
            BY <1>6, <4>2, <5>1
          <6>2. LastIn(i) <= s.at /\ LastIn(i) \in Nat /\ LastIn(i)' = LastIn(i)
            BY <1>8, <1>10, <2>4, <4>2, <6>1 DEF Reached
          <6> QED
            BY <1>1, <3>2, <5>1, <6>2
        <5>2. CASE j # m
          <6>1. j \in DOMAIN frames /\ i \in DOMAIN frames
            BY <1>6, <4>2, <5>2
          <6> QED
            BY <1>7, <1>8, <4>2, <6>1 DEF Chained
        <5> QED
          BY <5>1, <5>2
      <4> QED
        BY <4>1, <4>2 DEF Chained
    <3>5. ASSUME NEW z \in streams', z.of = chosen PROVE Reached(z.at)'
      <4>0. z.at = s.at + k
        BY <1>5, <2>2, <3>5
      <4>1. ASSUME NEW i \in DOMAIN frames', OwnFrame(i)' PROVE LastIn(i)' <= s.at + k
        <5>1. CASE i = m
          BY <1>1, <3>2, <5>1
        <5>2. CASE i # m
          <6>1. LastIn(i) <= s.at /\ LastIn(i) \in Nat /\ LastIn(i)' = LastIn(i)
            BY <1>6, <1>8, <1>10, <2>4, <4>1, <5>2 DEF Reached
          <6> QED
            BY <1>1, <6>1
        <5> QED
          BY <5>1, <5>2
      <4>2. \E i \in DOMAIN frames' : OwnFrame(i)' /\ LastIn(i)' = s.at + k
        BY <1>6, <3>2
      <4> QED
        BY <4>0, <4>1, <4>2 DEF Reached
    <3> QED
      BY <1>1, <1>9, <2>3, <3>4, <3>5 DEF CurrentInv
  <2> QED
    BY <2>5, <2>6
<1> QED
  BY <1>12, <1>13

LEMMA CurrentStep == ASSUME LogInv, [LogNext]_logs PROVE CurrentInv'
<1>0. /\ LogTypeOK
      /\ (followed /\ ~ again) => OneStream /\ NoneYet /\ Chained /\ Numbered /\ \A s \in streams : s.of = chosen => Reached(s.at)
  BY DEF LogInv, CurrentInv
<1>a. ASSUME UNCHANGED <<chosen, followed, streams, frames, landed, again>> PROVE CurrentInv'
  <2> SUFFICES ASSUME followed, ~ again PROVE CurrentInv'
    BY <1>a DEF CurrentInv
  <2>1. OneStream' /\ NoneYet'
    BY <1>0, <1>a DEF OneStream, NoneYet, OwnFrame, OwnCount, OwnUpTo
  <2>2. Chained' /\ Numbered'
    BY <1>0, <1>a DEF Chained, Numbered, Follows, OwnFrame, FirstIn, LastIn, OwnCount, OwnUpTo
  <2>3. \A z \in streams' : z.of = chosen => Reached(z.at)'
    BY <1>0, <1>a DEF Reached, OwnFrame, FirstIn, LastIn, OwnCount, OwnUpTo
  <2> QED
    BY <1>a, <2>1, <2>2, <2>3 DEF CurrentInv
<1>1. CASE Choose
  <2>1. /\ chosen \in Nat /\ chosen' = chosen + 1 /\ landed' = <<>> /\ UNCHANGED <<streams, frames>>
        /\ \A s \in streams : s.of # chosen + 1
    <3>1. \A s \in streams : s.of <= chosen /\ s.of \in Nat
      BY LogBounds DEF LogInv, PastInv, LogTypeOK, Stream
    <3>2. chosen \in Nat
      BY <1>0, LogBounds DEF LogTypeOK
    <3> QED
      BY <1>1, <3>1, <3>2 DEF Choose, Cleared
  <2>2. ASSUME NEW i \in DOMAIN frames, OwnFrame(i)' PROVE FALSE
    <3>1. frames[i].lines \in Seq(Line) /\ frames[i].lines # <<>> /\ frames[i].lines[1].of = chosen + 1
      BY <1>0, <2>1, <2>2, FrameTypes DEF OwnFrame
    <3>2. 1 \in DOMAIN frames[i].lines
      BY <3>1
    <3>3. frames[i].lines[1].of <= chosen
      BY <3>2 DEF LogInv, PastInv
    <3> QED
      BY <2>1, <3>1, <3>3
  <2>3. OwnCount' = 0
    <3>1. {j \in 1 .. 0 : landed'[j].of = chosen'} = {}
      OBVIOUS
    <3>2. Len(landed') = 0
      BY <2>1
    <3>3. OwnCount' = Cardinality({j \in 1 .. Len(landed') : landed'[j].of = chosen'})
      BY DEF OwnCount, OwnUpTo
    <3> QED
      BY <3>1, <3>2, <3>3, FS_EmptySet
  <2>4. Numbered'
    <3>1. DOMAIN landed' = {}
      BY <2>1
    <3> QED
      BY <3>1 DEF Numbered
  <2>5. OneStream' /\ NoneYet' /\ Chained'
    BY <2>1, <2>2, <2>3 DEF OneStream, NoneYet, Chained
  <2> QED
    BY <2>1, <2>4, <2>5 DEF CurrentInv
<1>2. CASE CloseLogs
  BY <1>2 DEF CloseLogs, CurrentInv
<1>3. CASE Track
  <2> SUFFICES ASSUME followed, ~ again PROVE CurrentInv'
    BY <1>3 DEF Track, CurrentInv
  <2> DEFINE r == [of |-> chosen, at |-> 0, phase |-> "live"]
  <2>1. /\ UNCHANGED <<chosen, followed, frames, landed, again>> /\ streams' = Cancelled \cup {r}
        /\ \A s \in streams : s.of # chosen
    BY <1>3 DEF Track
  <2>2. \A z \in Cancelled : z.of # chosen
    <3> SUFFICES ASSUME NEW s \in streams PROVE [s EXCEPT !.phase = IF @ = "live" THEN "cancelled" ELSE @].of # chosen
      BY DEF Cancelled
    <3>1. s \in Stream
      BY <1>0 DEF LogTypeOK
    <3> QED
      BY <2>1, <3>1 DEF Stream
  <2>3. r.of = chosen /\ r.at = 0 /\ r.phase # "cancelled"
    OBVIOUS
  <2> HIDE DEF r
  <2>4. \A z \in streams' : z.of = chosen => z = r
    BY <2>1, <2>2
  <2>5. OneStream' /\ NoneYet'
    BY <2>1, <2>3, <2>4 DEF OneStream, NoneYet
  <2>6. Chained' /\ Numbered'
    BY <1>0, <2>1 DEF Chained, Numbered, Follows, OwnFrame, FirstIn, LastIn, OwnCount, OwnUpTo
  <2>7. OwnCount' = 0 /\ \A i \in DOMAIN frames' : ~ OwnFrame(i)'
    BY <1>0, <2>1 DEF NoneYet, OwnFrame, OwnCount, OwnUpTo
  <2>8. ASSUME NEW z \in streams', z.of = chosen PROVE Reached(z.at)'
    <3>1. z.at = OwnCount' /\ z \in streams'
      BY <2>3, <2>4, <2>7, <2>8
    <3>2. \A i \in DOMAIN frames' : OwnFrame(i)' => LastIn(i)' <= z.at
      BY <2>7
    <3> QED
      BY <3>1, <3>2 DEF Reached
  <2> QED
    BY <2>1, <2>5, <2>6, <2>8 DEF CurrentInv
<1>4. CASE Untrack
  BY <1>4 DEF Untrack, CurrentInv
<1>5. CASE Relink
  BY <1>5 DEF Relink, CurrentInv
<1>6. CASE Landed
  BY <1>6, LandedCurrent
<1>7. CASE Pause \/ Resume
  BY <1>a, <1>7 DEF Pause, Resume
<1>8. ASSUME NEW s \in streams, Flush(s) PROVE CurrentInv'
  <2>1. PICK k \in 1 .. MaxWritten - s.at : Sends(s, k, s.phase, FALSE)
    BY <1>0, <1>8, FlushSends
  <2>2. k \in 0 .. MaxWritten - s.at
    BY <2>1 DEF Sends
  <2> QED
    BY <2>1, <2>2, SendsCurrent
<1>9. ASSUME NEW s \in streams, Ended(s) PROVE CurrentInv'
  <2>1. PICK k \in 0 .. MaxWritten - s.at : Sends(s, k, IF s.phase = "live" THEN "ended" ELSE "gone", TRUE)
    BY <1>0, <1>9, EndedSends
  <2> QED
    BY <2>1, SendsCurrent
<1>10. ASSUME NEW s \in streams, Exit(s) PROVE CurrentInv'
  <2> SUFFICES ASSUME followed, ~ again PROVE CurrentInv'
    BY <1>10 DEF Exit, CurrentInv
  <2>1. UNCHANGED <<chosen, followed, frames, landed, again>> /\ streams' = streams \ {s} /\ s.phase = "cancelled"
    BY <1>10 DEF Exit
  <2>2. s.of # chosen
    BY <1>0, <2>1 DEF OneStream
  <2>3. OneStream' /\ Chained' /\ Numbered'
    <3>1. OneStream'
      BY <1>0, <2>1 DEF OneStream
    <3>2. Chained' /\ Numbered'
      BY <1>0, <2>1 DEF Chained, Numbered, Follows, OwnFrame, FirstIn, LastIn, OwnCount, OwnUpTo
    <3> QED
      BY <3>1, <3>2
  <2>4. NoneYet'
    <3>1. (\A z \in streams' : z.of # chosen) => \A z \in streams : z.of # chosen
      BY <2>1, <2>2
    <3> QED
      BY <1>0, <2>1, <3>1 DEF NoneYet, OwnFrame, OwnCount, OwnUpTo
  <2>5. \A z \in streams' : z.of = chosen => Reached(z.at)'
    BY <1>0, <2>1 DEF Reached, OwnFrame, FirstIn, LastIn, OwnCount, OwnUpTo
  <2> QED
    BY <2>1, <2>3, <2>4, <2>5 DEF CurrentInv
<1>11. CASE UNCHANGED logs
  BY <1>a, <1>11 DEF logs
<1> QED
  BY <1>1, <1>2, <1>3, <1>4, <1>5, <1>6, <1>7, <1>8, <1>9, <1>10, <1>11 DEF LogNext

LEMMA LogStep == LogInv /\ [LogNext]_logs => LogInv'
<1> SUFFICES ASSUME LogInv, [LogNext]_logs PROVE LogInv'
  OBVIOUS
<1>1. LogTypeOK /\ TailInv /\ FrameInv /\ PastInv /\ (followed => chosen > 0)
  BY DEF LogInv, PastInv
<1>2. LogTypeOK'
  BY <1>1, LogTypes
<1>3. TailInv'
  BY <1>1, TailStep
<1>4. FrameInv' /\ PastInv'
  BY <1>1, FramesStep
<1>5. CurrentInv'
  BY CurrentStep
<1> QED
  BY <1>2, <1>3, <1>4, <1>5 DEF LogInv

LEMMA LogStarts == LogInit => LogInv
<1> SUFFICES ASSUME LogInit PROVE LogInv
  OBVIOUS
<1>1. LogTypeOK
  <2>1. <<>> \in Seq(Line) /\ <<>> \in Seq(Frame) /\ 0 \in 0 .. MaxChoices
    BY LogBounds
  <2> QED
    BY <2>1 DEF LogInit, LogTypeOK
<1>2. TailInv
  <2>1. LastOf(<<>>) = <<>> /\ <<>> \o <<>> = <<>> /\ Len(<<>>) = 0
    BY LogBounds DEF LastOf
  <2> QED
    BY <2>1, LogBounds DEF LogInit, TailInv
<1>3. FrameInv /\ PastInv
  <2>1. DOMAIN frames = {} /\ DOMAIN landed = {}
    BY DEF LogInit
  <2> QED
    BY <2>1 DEF LogInit, FrameInv, PastInv
<1>4. CurrentInv
  BY DEF LogInit, CurrentInv
<1> QED
  BY <1>1, <1>2, <1>3, <1>4 DEF LogInv

LEMMA LogFits == LogInv => LogTypeOK /\ LogFollows
<1> SUFFICES ASSUME LogInv PROVE LogTypeOK /\ LogFollows
  OBVIOUS
<1>1. ASSUME ~ again PROVE \A i \in DOMAIN landed : landed[i].of = chosen => landed[i].n = OwnUpTo(i)
  <2>1. CASE followed
    BY <1>1, <2>1 DEF LogInv, CurrentInv, Numbered
  <2>2. CASE ~ followed
    <3>1. DOMAIN landed = {}
      BY <2>2 DEF LogInv, PastInv
    <3> QED
      BY <3>1
  <2> QED
    BY <2>1, <2>2
<1> QED
  BY <1>1 DEF LogInv, TailInv, LogFollows

\* Whatever is chosen, cancelled, flushed late or lost: the log pane's state has its type, and it
\* shows the last lines of all that came; until the link comes back under it, the stream chosen is
\* whole and in order among them.
THEOREM LogCorrect == LogSpec => []LogTypeOK /\ []LogFollows
<1>1. LogSpec => []LogInv
  BY LogStarts, LogStep, PTL DEF LogSpec
<1> QED
  BY <1>1, LogFits, PTL

-----------------------------------------------------------------------------
(***************************************************************************)
(* Port forwards. A forward is started once, for its request is in one     *)
(* place at a time (RequestedInv, RepliedInv), so its stop channel is      *)
(* closed by whoever takes it off the list, or by a Start that was cut and *)
(* never lists it (TunnelInv). The list shown: either nobody was told of   *)
(* the last change, or an answer is to be made, or the last on its way is  *)
(* the list as it is and still waited for, or the window has it (WordInv). *)
(***************************************************************************)

FwdReply == [to : Ticket, list : SUBSET Fwds]
FwdAsked == [id : Ticket, of : {0} \cup Fwds]
FwdSpent == [start : Nat, stop : Nat, list : Nat, drops : Nat]
Whats == {"start", "stop", "list"}
FwdTypes ==
    /\ held \subseteq Fwds /\ forwards \subseteq Fwds
    /\ starting \in [Fwds -> {"not", "dialing", "cut", "listing", "returned"}]
    /\ tunnel \in [Fwds -> {"none", "open", "ended"}] /\ stopped \in [Fwds -> Nat]
    /\ answers \subseteq FwdReply \X BOOLEAN
    /\ outbox \in Seq(FwdAsked) /\ inbox \in Seq(FwdReply)
    /\ promises \subseteq Ticket /\ wired \in BOOLEAN /\ untold \in BOOLEAN
    /\ spent \in FwdSpent
    /\ spent.start <= MaxForwards /\ spent.stop <= MaxStops /\ spent.drops <= MaxDrops

GreetingsDue == IF ~ wired \/ (inbox # <<>> /\ inbox[1] = Greeting) THEN 1 ELSE 0
GreetInv == spent.list + GreetingsDue <= spent.drops + 1

TunnelFits(f) ==
    /\ f > spent.start => starting[f] = "not"
    /\ starting[f] = "not" => tunnel[f] = "none"
    /\ starting[f] \in {"not", "dialing", "cut"} => stopped[f] = 0 /\ f \notin held
    /\ stopped[f] <= 1
    /\ (tunnel[f] = "open" /\ stopped[f] = 0) => f \in held \/ starting[f] \in {"dialing", "cut"}
    /\ f \in held => tunnel[f] \in {"open", "ended"} /\ stopped[f] = 0
TunnelInv == \A f \in Fwds : TunnelFits(f)

Known(by, t) == t[1] \in {"start", "stop", "list"} /\ t[2] <= by[t[1]]
RequestedInv == \A i \in DOMAIN outbox :
    /\ Known(spent, outbox[i].id)
    /\ outbox[i].id[1] = "start" => outbox[i].of = outbox[i].id[2] /\ outbox[i].of \in Fwds /\ starting[outbox[i].of] = "not"
    /\ outbox[i].id[1] = "stop" => outbox[i].of \in Fwds
    /\ \A j \in DOMAIN outbox : i # j => outbox[i].id # outbox[j].id
    /\ \A a \in answers : a[1].to # outbox[i].id
    /\ \A j \in DOMAIN inbox : inbox[j].to # outbox[i].id
RepliedInv ==
    /\ \A a \in answers : Known(spent, a[1].to) /\ (\A b \in answers : a # b => a[1].to # b[1].to)
    /\ \A i \in DOMAIN inbox :
          /\ IF inbox[i] = Greeting THEN i = 1 ELSE Known(spent, inbox[i].to)
          /\ \A j \in DOMAIN inbox : i # j => inbox[i].to # inbox[j].to
          /\ \A a \in answers : a[1].to # inbox[i].to
    /\ \A f \in Fwds : starting[f] \in {"dialing", "listing"} =>
          /\ \A a \in answers : a[1].to # <<"start", f>>
          /\ \A i \in DOMAIN inbox : inbox[i].to # <<"start", f>>
WordToCome == ~ wired \/ answers # {} \/ (\E f \in Fwds : starting[f] = "listing")
              \/ \E i \in DOMAIN outbox : outbox[i].id[1] # "start"
LastWord == IF inbox = <<>> THEN forwards = held
            ELSE LET m == inbox[Len(inbox)] IN m = Greeting \/ (m.list = held /\ m.to \in promises)
WordInv == untold \/ WordToCome \/ LastWord

ForwardsInv == FwdTypes /\ GreetInv /\ TunnelInv /\ RequestedInv /\ RepliedInv /\ WordInv

LEMMA FwdBounds == MaxForwards \in Nat /\ MaxStops \in Nat /\ MaxDrops \in Nat
  BY ForwardsAssumption

LEMMA FwdTail ==
    ASSUME NEW T, NEW q \in Seq(T), q # <<>>
    PROVE  /\ Tail(q) \in Seq(T) /\ Head(q) = q[1] /\ 1 \in DOMAIN q /\ q[1] \in T
           /\ \A i \in DOMAIN Tail(q) : i + 1 \in DOMAIN q /\ Tail(q)[i] = q[i + 1] /\ i \in Nat /\ i >= 1
           /\ Tail(q) # <<>> => Tail(q)[Len(Tail(q))] = q[Len(q)] /\ Len(q) \in DOMAIN q /\ Len(q) # 1
           /\ Tail(q) = <<>> => q[Len(q)] = q[1] /\ DOMAIN q = {1}
<1>1. /\ Tail(q) \in Seq(T) /\ Head(q) = q[1] /\ 1 \in DOMAIN q /\ q[1] \in T /\ Len(q) \in Nat
      /\ Len(Tail(q)) = Len(q) - 1 /\ DOMAIN q = 1 .. Len(q) /\ DOMAIN Tail(q) = 1 .. Len(Tail(q))
  OBVIOUS
<1>2. \A i \in DOMAIN Tail(q) : i + 1 \in DOMAIN q /\ Tail(q)[i] = q[i + 1] /\ i \in Nat /\ i >= 1
  OBVIOUS
<1>3. CASE Tail(q) = <<>>
  <2>0. Len(<<>>) = 0
    OBVIOUS
  <2>a. Len(Tail(q)) = Len(<<>>)
    BY <1>3
  <2>1. Len(q) = 1
    <3> DEFINE k == Len(q)  l == Len(Tail(q))  z == Len(<<>>)
    <3>1. k \in Nat /\ l = k - 1 /\ z = 0 /\ l = z
      BY <1>1, <2>0, <2>a
    <3> HIDE DEF k, l, z
    <3>2. k = 1
      BY <3>1
    <3> QED
      BY <3>2 DEF k
  <2> QED
    BY <1>1, <1>2, <1>3, <2>1
<1>4. CASE Tail(q) # <<>>
  <2>1. Len(Tail(q)) >= 1 /\ Len(q) # 1 /\ Len(q) \in DOMAIN q
    BY <1>1, <1>4
  <2>2. Len(Tail(q)) \in DOMAIN Tail(q) /\ Len(Tail(q)) + 1 = Len(q)
    BY <1>1, <2>1
  <2>3. Tail(q)[Len(Tail(q))] = q[Len(q)]
    BY <1>2, <2>2
  <2> QED
    BY <1>1, <1>2, <1>4, <2>1, <2>3
<1> QED
  BY <1>3, <1>4

LEMMA FwdAdd ==
    ASSUME NEW T, NEW q \in Seq(T), NEW e \in T
    PROVE  /\ Append(q, e) \in Seq(T) /\ Append(q, e) # <<>> /\ Append(q, e)[Len(Append(q, e))] = e
           /\ \E l \in DOMAIN Append(q, e) : Append(q, e)[l] = e /\ l \notin DOMAIN q
           /\ \A i \in DOMAIN q : i \in DOMAIN Append(q, e) /\ Append(q, e)[i] = q[i]
           /\ \A i, j \in DOMAIN Append(q, e) : i # j => i \in DOMAIN q \/ j \in DOMAIN q
           /\ \A i \in DOMAIN Append(q, e) : i \in DOMAIN q \/ Append(q, e)[i] = e
  OBVIOUS

LEMMA BumpIs ==
    ASSUME spent \in FwdSpent, NEW what \in {"start", "stop", "list", "drops"}, spent' = [spent EXCEPT ![what] = @ + 1]
    PROVE  /\ spent' \in FwdSpent /\ spent'[what] = spent[what] + 1
           /\ \A w \in {"start", "stop", "list", "drops"} : w # what => spent'[w] = spent[w]
<1> DEFINE n == spent[what] + 1
<1>1. n \in Nat /\ spent' = [spent EXCEPT ![what] = n]
  BY DEF FwdSpent
<1> HIDE DEF n
<1>2. spent' \in FwdSpent /\ spent'[what] = n
  <2>1. CASE what = "start"
    BY <1>1, <2>1 DEF FwdSpent
  <2>2. CASE what = "stop"
    BY <1>1, <2>2 DEF FwdSpent
  <2>3. CASE what = "list"
    BY <1>1, <2>3 DEF FwdSpent
  <2>4. CASE what = "drops"
    BY <1>1, <2>4 DEF FwdSpent
  <2> QED
    BY <2>1, <2>2, <2>3, <2>4
<1>3. \A w \in {"start", "stop", "list", "drops"} : w # what => spent'[w] = spent[w]
  BY <1>1 DEF FwdSpent
<1> QED
  BY <1>2, <1>3 DEF n

LEMMA AskIs ==
    ASSUME FwdTypes, NEW what \in Whats, NEW of \in {0} \cup Fwds, AskEngine(what, of)
    PROVE  \E t \in Ticket : \E m \in FwdAsked :
              /\ t[1] = what /\ t[2] = spent[what] + 1 /\ t = <<what, spent[what] + 1>> /\ m = [id |-> t, of |-> of]
              /\ outbox' = Append(outbox, m) /\ outbox' \in Seq(FwdAsked)
              /\ promises' = promises \cup {t}
              /\ spent' \in FwdSpent /\ spent'[what] = spent[what] + 1
              /\ \A w \in {"start", "stop", "list", "drops"} : w # what => spent'[w] = spent[w]
<1>1. spent \in FwdSpent /\ outbox \in Seq(FwdAsked)
  BY DEF FwdTypes
<1>2. spent[what] \in Nat
  BY <1>1 DEF FwdSpent, Whats
<1> DEFINE n == spent[what] + 1  t == <<what, n>>  m == [id |-> t, of |-> of]
<1>3. n \in Nat /\ t \in Ticket /\ t[1] = what /\ t[2] = n
  BY <1>2 DEF Ticket, Whats
<1>4. m \in FwdAsked
  BY <1>3 DEF FwdAsked
<1>5. outbox' = Append(outbox, m) /\ promises' = promises \cup {t} /\ spent' = [spent EXCEPT ![what] = @ + 1]
  BY DEF AskEngine
<1>6. /\ spent' \in FwdSpent /\ spent'[what] = spent[what] + 1
      /\ \A w \in {"start", "stop", "list", "drops"} : w # what => spent'[w] = spent[w]
  BY <1>1, <1>5, BumpIs DEF Whats
<1> HIDE DEF n, t, m
<1>8. Append(outbox, m) \in Seq(FwdAsked)
  BY <1>1, <1>4
<1> QED
  BY <1>3, <1>4, <1>5, <1>6, <1>8 DEF n, t, m

\* A greeting is no answer, and an answer made is a reply.
LEMMA SaysIs ==
    ASSUME FwdTypes, NEW to \in Ticket, NEW list \in SUBSET Fwds, NEW loop \in BOOLEAN, Says(to, list, loop)
    PROVE  /\ answers' = answers \cup {<<ForwardsMsg(to, list), loop>>}
           /\ ForwardsMsg(to, list) \in FwdReply /\ ForwardsMsg(to, list).to = to /\ ForwardsMsg(to, list).list = list
           /\ answers' \subseteq FwdReply \X BOOLEAN
<1>1. ForwardsMsg(to, list) \in FwdReply
  BY DEF ForwardsMsg, FwdReply
<1>2. ForwardsMsg(to, list).to = to /\ ForwardsMsg(to, list).list = list
  BY DEF ForwardsMsg
<1>3. answers' = answers \cup {<<ForwardsMsg(to, list), loop>>}
  BY DEF Says
<1> QED
  BY <1>1, <1>2, <1>3 DEF FwdTypes

LEMMA AnswerIs ==
    ASSUME FwdTypes, NEW a \in answers
    PROVE  a[1] \in FwdReply /\ a[1].to \in Ticket /\ a[1].list \subseteq Fwds /\ a[2] \in BOOLEAN /\ a = <<a[1], a[2]>>
<1>1. a \in FwdReply \X BOOLEAN
  BY DEF FwdTypes
<1>2. a[1] \in FwdReply /\ a[2] \in BOOLEAN /\ a = <<a[1], a[2]>>
  BY <1>1
<1> QED
  BY <1>2 DEF FwdReply

LEMMA GreetingIs == Greeting \in FwdReply /\ Greeting.to[1] = "hello" /\ Greeting.to = <<"hello", 0>>
  BY DEF Greeting, ForwardsMsg, FwdReply, Ticket

LEMMA StopListedIs ==
    ASSUME FwdTypes, NEW f \in Fwds, StopListed(f)
    PROVE  /\ held' = held \ {f} /\ held' \subseteq Fwds /\ stopped' \in [Fwds -> Nat]
           /\ \A g \in Fwds : stopped'[g] = IF g = f /\ f \in held THEN stopped[g] + 1 ELSE stopped[g]
<1>1. stopped \in [Fwds -> Nat] /\ held \subseteq Fwds
  BY DEF FwdTypes
<1> QED
  BY <1>1 DEF StopListed, CloseStop

LEMMA ReadLoopIs ==
    ASSUME FwdTypes, RequestedInv, ReadLoop
    PROVE  \E m \in FwdAsked :
              /\ m = outbox[1] /\ 1 \in DOMAIN outbox /\ outbox # <<>> /\ outbox' = Tail(outbox) /\ wired
              /\ m.id \in Ticket /\ Known(spent, m.id)
              /\ UNCHANGED <<tunnel, inbox, promises, forwards, wired, spent, untold>>
              /\ \/ /\ m.id[1] = "start" /\ m.of \in Fwds /\ starting[m.of] = "not" /\ m.of = m.id[2]
                    /\ starting' = [starting EXCEPT ![m.of] = "dialing"] /\ UNCHANGED <<answers, held, stopped>>
                 \/ /\ m.id[1] = "stop" /\ m.of \in Fwds /\ StopListed(m.of)
                    /\ Says(m.id, held', TRUE) /\ UNCHANGED starting
                 \/ m.id[1] = "list" /\ Says(m.id, held, TRUE) /\ UNCHANGED <<held, stopped, starting>>
<1> DEFINE m == outbox[1]
<1>1. outbox \in Seq(FwdAsked) /\ outbox # <<>>
  BY DEF FwdTypes, ReadLoop
<1>2. Head(outbox) = m /\ m \in FwdAsked /\ 1 \in DOMAIN outbox
  BY <1>1, FwdTail
<1>3. Known(spent, m.id) /\ m.id \in Ticket /\ m.id[1] \in {"start", "stop", "list"}
  BY <1>2 DEF RequestedInv, FwdAsked, Known
<1>4. /\ m.id[1] = "start" => m.of \in Fwds /\ starting[m.of] = "not" /\ m.of = m.id[2]
      /\ m.id[1] = "stop" => m.of \in Fwds
  BY <1>2 DEF RequestedInv
<1>5. /\ wired /\ outbox' = Tail(outbox)
      /\ UNCHANGED <<tunnel, inbox, promises, forwards, wired, spent, untold>>
  BY DEF ReadLoop
<1>6. CASE m.id[1] = "start"
  BY <1>1, <1>2, <1>3, <1>4, <1>5, <1>6 DEF ReadLoop
<1>7. CASE m.id[1] = "stop"
  BY <1>1, <1>2, <1>3, <1>4, <1>5, <1>7 DEF ReadLoop
<1>8. CASE m.id[1] = "list"
  BY <1>1, <1>2, <1>3, <1>4, <1>5, <1>8 DEF ReadLoop
<1> QED
  BY <1>3, <1>6, <1>7, <1>8

LEMMA TakeReplyIs ==
    ASSUME FwdTypes, TakeReply
    PROVE  /\ wired /\ inbox # <<>> /\ 1 \in DOMAIN inbox /\ inbox[1] \in FwdReply /\ inbox' = Tail(inbox)
           /\ UNCHANGED <<held, starting, tunnel, stopped, answers, wired, untold>>
           /\ IF inbox[1] = Greeting THEN AskEngine("list", 0) /\ forwards' = forwards
              ELSE /\ promises' = promises \ {inbox[1].to}
                   /\ forwards' = IF inbox[1].to \in promises THEN inbox[1].list ELSE forwards
                   /\ UNCHANGED <<outbox, spent>>
<1>1. inbox \in Seq(FwdReply) /\ inbox # <<>>
  BY DEF FwdTypes, TakeReply
<1>2. Head(inbox) = inbox[1] /\ inbox[1] \in FwdReply /\ 1 \in DOMAIN inbox
  BY <1>1, FwdTail
<1> QED
  BY <1>1, <1>2 DEF TakeReply, Greeted, manager

LEMMA SendAnswerIs ==
    ASSUME FwdTypes, NEW a \in answers, SendAnswer(a)
    PROVE  /\ a[1] \in FwdReply /\ answers' = answers \ {a} /\ inbox' = Append(inbox, a[1]) /\ inbox' \in Seq(FwdReply)
           /\ untold' = (a[1].list # held \/ a[1].to \notin promises)
           /\ UNCHANGED <<held, starting, tunnel, stopped, outbox, promises, forwards, wired, spent>>
<1>1. a[1] \in FwdReply /\ inbox \in Seq(FwdReply)
  BY AnswerIs DEF FwdTypes
<1>2. Append(inbox, a[1]) \in Seq(FwdReply)
  BY <1>1
<1> QED
  BY <1>1, <1>2 DEF SendAnswer, manager

LEMMA FwdTypesStep == ASSUME FwdTypes, RequestedInv, [ForwardsNext]_forwarding PROVE FwdTypes'
<1> DEFINE TunnelTypes == /\ held \subseteq Fwds /\ stopped \in [Fwds -> Nat]
                          /\ starting \in [Fwds -> {"not", "dialing", "cut", "listing", "returned"}]
                          /\ tunnel \in [Fwds -> {"none", "open", "ended"}]
           QueueTypes  == /\ answers \subseteq FwdReply \X BOOLEAN /\ outbox \in Seq(FwdAsked) /\ inbox \in Seq(FwdReply)
                          /\ promises \subseteq Ticket /\ forwards \subseteq Fwds
           FlagTypes   == wired \in BOOLEAN /\ untold \in BOOLEAN
           SpentTypes  == /\ spent \in FwdSpent
                          /\ spent.start <= MaxForwards /\ spent.stop <= MaxStops /\ spent.drops <= MaxDrops
<1>0. TunnelTypes /\ QueueTypes /\ FlagTypes /\ SpentTypes
  BY DEF FwdTypes
<1>a. TunnelTypes' /\ QueueTypes' /\ FlagTypes' /\ SpentTypes' => FwdTypes'
  BY DEF FwdTypes
<1>s. spent.start \in Nat /\ spent.stop \in Nat /\ spent.drops \in Nat /\ spent.list \in Nat
  BY <1>0 DEF FwdSpent
<1>1. CASE startForward
  <2>1. spent.start + 1 \in Fwds /\ spent.start + 1 <= MaxForwards
    BY <1>1, <1>s, FwdBounds DEF startForward, Fwds
  <2>2. PICK t \in Ticket, m \in FwdAsked :
           /\ outbox' = Append(outbox, m) /\ outbox' \in Seq(FwdAsked) /\ promises' = promises \cup {t}
           /\ spent' \in FwdSpent /\ spent'["start"] = spent["start"] + 1
           /\ \A w \in {"start", "stop", "list", "drops"} : w # "start" => spent'[w] = spent[w]
    <3>1. AskEngine("start", spent.start + 1)
      BY <1>1 DEF startForward
    <3> QED
      BY <2>1, <3>1, AskIs DEF Whats
  <2>3. UNCHANGED <<held, starting, tunnel, stopped, answers, inbox, forwards, wired, untold>>
    BY <1>1 DEF startForward, manager
  <2>4. TunnelTypes' /\ FlagTypes'
    BY <1>0, <2>3
  <2>5. QueueTypes'
    BY <1>0, <2>2, <2>3
  <2>6. SpentTypes'
    BY <1>0, <2>1, <2>2
  <2> HIDE DEF TunnelTypes, QueueTypes, FlagTypes, SpentTypes
  <2> QED
    BY <1>a, <2>4, <2>5, <2>6
<1>2. CASE stopForward
  <2>1. PICK f \in Fwds : AskEngine("stop", f)
    BY <1>0, <1>2 DEF stopForward
  <2>2. PICK t \in Ticket, m \in FwdAsked :
           /\ outbox' = Append(outbox, m) /\ outbox' \in Seq(FwdAsked) /\ promises' = promises \cup {t}
           /\ spent' \in FwdSpent /\ spent'["stop"] = spent["stop"] + 1
           /\ \A w \in {"start", "stop", "list", "drops"} : w # "stop" => spent'[w] = spent[w]
    BY <2>1, AskIs DEF Whats
  <2>3. UNCHANGED <<held, starting, tunnel, stopped, answers, inbox, forwards, wired, untold>> /\ spent.stop < MaxStops
    BY <1>2 DEF stopForward, manager
  <2>4. TunnelTypes' /\ FlagTypes'
    BY <1>0, <2>3
  <2>5. QueueTypes'
    BY <1>0, <2>2, <2>3
  <2>6. SpentTypes'
    BY <1>0, <1>s, <2>2, <2>3, FwdBounds
  <2> HIDE DEF TunnelTypes, QueueTypes, FlagTypes, SpentTypes
  <2> QED
    BY <1>a, <2>4, <2>5, <2>6
<1>3. CASE ReadLoop
  <2>1. PICK m \in FwdAsked :
              /\ outbox # <<>> /\ outbox' = Tail(outbox) /\ m.id \in Ticket
              /\ UNCHANGED <<tunnel, inbox, promises, forwards, wired, spent, untold>>
              /\ \/ /\ m.of \in Fwds
                    /\ starting' = [starting EXCEPT ![m.of] = "dialing"] /\ UNCHANGED <<answers, held, stopped>>
                 \/ m.of \in Fwds /\ StopListed(m.of) /\ Says(m.id, held', TRUE) /\ UNCHANGED starting
                 \/ Says(m.id, held, TRUE) /\ UNCHANGED <<held, stopped, starting>>
    BY <1>3, ReadLoopIs
  <2>2. outbox' \in Seq(FwdAsked)
    BY <1>0, <2>1, FwdTail
  <2>3. TunnelTypes' /\ answers' \subseteq FwdReply \X BOOLEAN
    <3>1. CASE m.of \in Fwds /\ starting' = [starting EXCEPT ![m.of] = "dialing"] /\ UNCHANGED <<answers, held, stopped>>
      BY <1>0, <2>1, <3>1
    <3>2. CASE m.of \in Fwds /\ StopListed(m.of) /\ Says(m.id, held', TRUE) /\ UNCHANGED starting
      <4>1. held' \subseteq Fwds /\ stopped' \in [Fwds -> Nat]
        BY <3>2, StopListedIs
      <4>2. answers' \subseteq FwdReply \X BOOLEAN
        BY <2>1, <3>2, <4>1, SaysIs
      <4> QED
        BY <1>0, <2>1, <3>2, <4>1, <4>2
    <3>3. CASE Says(m.id, held, TRUE) /\ UNCHANGED <<held, stopped, starting>>
      <4>1. answers' \subseteq FwdReply \X BOOLEAN
        BY <1>0, <2>1, <3>3, SaysIs
      <4> QED
        BY <1>0, <2>1, <3>3, <4>1
    <3> QED
      BY <2>1, <3>1, <3>2, <3>3
  <2>4. QueueTypes' /\ FlagTypes' /\ SpentTypes'
    BY <1>0, <2>1, <2>2, <2>3
  <2> HIDE DEF TunnelTypes, QueueTypes, FlagTypes, SpentTypes
  <2> QED
    BY <1>a, <2>3, <2>4
<1>4. CASE TakeReply
  <2>1. TunnelTypes' /\ FlagTypes' /\ answers' \subseteq FwdReply \X BOOLEAN
    BY <1>0, <1>4, TakeReplyIs
  <2>2. inbox' \in Seq(FwdReply)
    <3>1. inbox \in Seq(FwdReply) /\ inbox # <<>> /\ inbox' = Tail(inbox)
      BY <1>0, <1>4, TakeReplyIs
    <3> QED
      BY <3>1, FwdTail
  <2>3. outbox' \in Seq(FwdAsked) /\ promises' \subseteq Ticket /\ forwards' \subseteq Fwds /\ SpentTypes'
    <3>1. CASE inbox[1] = Greeting
      <4>1. AskEngine("list", 0) /\ forwards' = forwards
        BY <1>4, <3>1, TakeReplyIs
      <4>2. PICK t \in Ticket, m \in FwdAsked :
               /\ outbox' \in Seq(FwdAsked) /\ promises' = promises \cup {t} /\ spent' \in FwdSpent
               /\ \A w \in {"start", "stop", "list", "drops"} : w # "list" => spent'[w] = spent[w]
        BY <4>1, AskIs DEF Whats
      <4> QED
        BY <1>0, <4>1, <4>2
    <3>2. CASE inbox[1] # Greeting
      <4>1. inbox[1].list \subseteq Fwds
        BY <1>4, TakeReplyIs DEF FwdReply
      <4>2. /\ promises' = promises \ {inbox[1].to} /\ UNCHANGED <<outbox, spent>>
            /\ forwards' = inbox[1].list \/ forwards' = forwards
        BY <1>4, <3>2, TakeReplyIs
      <4> QED
        BY <1>0, <4>1, <4>2
    <3> QED
      BY <3>1, <3>2
  <2>4. QueueTypes'
    BY <2>1, <2>2, <2>3
  <2> HIDE DEF TunnelTypes, QueueTypes, FlagTypes, SpentTypes
  <2> QED
    BY <1>a, <2>1, <2>3, <2>4
<1>5. CASE LinkLost
  <2>1. TunnelTypes'
    BY <1>0, <1>5 DEF LinkLost
  <2>2. QueueTypes' /\ FlagTypes'
    <3>1. outbox' = <<>> /\ inbox' = <<>> /\ promises' = {} /\ answers' = {} /\ wired' = FALSE /\ UNCHANGED <<forwards, untold>>
      BY <1>5 DEF LinkLost
    <3>2. <<>> \in Seq(FwdAsked) /\ <<>> \in Seq(FwdReply)
      OBVIOUS
    <3>3. FlagTypes'
      BY <1>0, <3>1
    <3>4. QueueTypes'
      BY <1>0, <3>1, <3>2
    <3> QED
      BY <3>3, <3>4
  <2>3. SpentTypes'
    <3>1. spent' = [spent EXCEPT !["drops"] = @ + 1] /\ spent.drops < MaxDrops
      BY <1>5 DEF LinkLost
    <3>2. spent' \in FwdSpent /\ spent'["drops"] = spent["drops"] + 1 /\ spent'["start"] = spent["start"] /\ spent'["stop"] = spent["stop"]
      BY <1>0, <3>1, BumpIs
    <3> QED
      BY <1>0, <1>s, <3>1, <3>2, FwdBounds
  <2> HIDE DEF TunnelTypes, QueueTypes, FlagTypes, SpentTypes
  <2> QED
    BY <1>a, <2>1, <2>2, <2>3
<1>6. CASE LinkRefused
  BY <1>0, <1>6 DEF LinkRefused, manager, FwdTypes
<1>7. CASE LinkBack
  <2>1. <<Greeting>> \in Seq(FwdReply)
    BY GreetingIs
  <2> QED
    BY <1>0, <1>7, <2>1 DEF LinkBack, manager, FwdTypes
<1>8. ASSUME NEW f \in Fwds, ForwardPorts(f) \/ StartFails(f) \/ StartReady(f) \/ StartCut(f) PROVE FwdTypes'
  <2>1. TunnelTypes'
    <3>1. CASE ForwardPorts(f)
      BY <1>0, <3>1 DEF ForwardPorts
    <3>2. CASE StartFails(f)
      BY <1>0, <3>2 DEF StartFails
    <3>3. CASE StartReady(f)
      BY <1>0, <3>3 DEF StartReady
    <3>4. CASE StartCut(f)
      BY <1>0, <3>4 DEF StartCut, CloseStop
    <3> QED
      BY <1>8, <3>1, <3>2, <3>3, <3>4
  <2>2. UNCHANGED <<answers, outbox, inbox, promises, forwards, wired, spent>>
    BY <1>8 DEF ForwardPorts, StartFails, StartReady, StartCut, windowSide
  <2>3. untold' \in BOOLEAN
    BY <1>0, <1>8 DEF ForwardPorts, StartFails, StartReady, StartCut, windowSide
  <2>4. QueueTypes' /\ SpentTypes'
    BY <1>0, <2>2
  <2>5. FlagTypes'
    BY <1>0, <2>2, <2>3
  <2> HIDE DEF TunnelTypes, QueueTypes, FlagTypes, SpentTypes
  <2> QED
    BY <1>a, <2>1, <2>4, <2>5
<1>9. ASSUME NEW f \in Fwds, StartLists(f) PROVE FwdTypes'
  <2>1. TunnelTypes'
    BY <1>0, <1>9 DEF StartLists
  <2>2. answers' \subseteq FwdReply \X BOOLEAN
    <3>1. <<"start", f>> \in Ticket
      BY FwdBounds DEF Ticket, Fwds
    <3> QED
      BY <1>0, <1>9, <3>1, SaysIs DEF StartLists
  <2>3. UNCHANGED <<outbox, inbox, promises, forwards, wired, spent, untold>>
    BY <1>9 DEF StartLists, windowSide
  <2>4. QueueTypes' /\ FlagTypes' /\ SpentTypes'
    BY <1>0, <2>2, <2>3
  <2> HIDE DEF TunnelTypes, QueueTypes, FlagTypes, SpentTypes
  <2> QED
    BY <1>a, <2>1, <2>4
<1>10. ASSUME NEW f \in Fwds, OtherStops(f) PROVE FwdTypes'
  <2>1. held' \subseteq Fwds /\ stopped' \in [Fwds -> Nat]
    BY <1>10, StopListedIs DEF OtherStops
  <2>2. /\ UNCHANGED <<starting, tunnel, answers, outbox, inbox, promises, forwards, wired>> /\ untold' = TRUE
        /\ spent.stop < MaxStops /\ spent' = [spent EXCEPT !.stop = @ + 1]
    BY <1>10 DEF OtherStops
  <2>3. SpentTypes'
    <3>1. spent' = [spent EXCEPT !["stop"] = @ + 1]
      BY <2>2
    <3>2. spent' \in FwdSpent /\ spent'["stop"] = spent["stop"] + 1 /\ spent'["start"] = spent["start"] /\ spent'["drops"] = spent["drops"]
      BY <1>0, <3>1, BumpIs
    <3> QED
      BY <1>0, <1>s, <2>2, <3>2, FwdBounds
  <2>4. TunnelTypes' /\ QueueTypes' /\ FlagTypes'
    BY <1>0, <2>1, <2>2
  <2> HIDE DEF TunnelTypes, QueueTypes, FlagTypes, SpentTypes
  <2> QED
    BY <1>a, <2>3, <2>4
<1>11. ASSUME NEW a \in answers, SendAnswer(a) PROVE FwdTypes'
  <2>1. TunnelTypes' /\ QueueTypes' /\ SpentTypes'
    BY <1>0, <1>11, SendAnswerIs
  <2>2. untold' \in BOOLEAN /\ wired' = wired
    BY <1>11, SendAnswerIs
  <2>3. FlagTypes'
    BY <1>0, <2>2
  <2> HIDE DEF TunnelTypes, QueueTypes, FlagTypes, SpentTypes
  <2> QED
    BY <1>a, <2>1, <2>3
<1>12. CASE UNCHANGED forwarding
  BY <1>12 DEF forwarding, manager, windowSide, FwdTypes
<1> QED
  BY <1>1, <1>2, <1>3, <1>4, <1>5, <1>6, <1>7, <1>8, <1>9, <1>10, <1>11, <1>12 DEF ForwardsNext

LEMMA TunnelStep == ASSUME FwdTypes, RequestedInv, TunnelInv, [ForwardsNext]_forwarding PROVE TunnelInv'
<1>0. /\ held \subseteq Fwds /\ stopped \in [Fwds -> Nat]
      /\ starting \in [Fwds -> {"not", "dialing", "cut", "listing", "returned"}]
      /\ tunnel \in [Fwds -> {"none", "open", "ended"}] /\ spent \in FwdSpent
  BY DEF FwdTypes
<1>s. spent["start"] \in Nat /\ spent.start = spent["start"] /\ \A f \in Fwds : f \in Nat
  BY <1>0, FwdBounds DEF FwdSpent, Fwds
<1>a. ASSUME UNCHANGED <<held, starting, tunnel, stopped>>, spent'["start"] \in Nat, spent'["start"] >= spent["start"] PROVE TunnelInv'
  BY <1>s, <1>a DEF TunnelInv, TunnelFits
<1>1. CASE startForward
  <2>1. spent.start + 1 \in Fwds
    BY <1>1, <1>s, FwdBounds DEF startForward, Fwds
  <2>2. spent'["start"] = spent["start"] + 1
    BY <1>1, <2>1, AskIs DEF Whats, startForward
  <2> QED
    BY <1>1, <1>s, <1>a, <2>2 DEF startForward, manager
<1>2. CASE stopForward
  <2>1. PICK f \in Fwds : AskEngine("stop", f)
    BY <1>2 DEF stopForward, FwdTypes
  <2>2. spent'["start"] = spent["start"]
    BY <2>1, AskIs DEF Whats
  <2> QED
    BY <1>2, <1>s, <1>a, <2>2 DEF stopForward, manager
<1>3. CASE ReadLoop
  <2>1. PICK m \in FwdAsked :
              /\ Known(spent, m.id) /\ m.id[1] \in Whats
              /\ UNCHANGED <<tunnel, spent>>
              /\ \/ /\ m.id[1] = "start" /\ m.of \in Fwds /\ starting[m.of] = "not" /\ m.of = m.id[2]
                    /\ starting' = [starting EXCEPT ![m.of] = "dialing"] /\ UNCHANGED <<answers, held, stopped>>
                 \/ /\ m.of \in Fwds /\ StopListed(m.of) /\ UNCHANGED starting
                 \/ UNCHANGED <<held, stopped, starting>>
    BY <1>3, ReadLoopIs DEF Known, Whats
  <2>2. CASE /\ m.id[1] = "start" /\ m.of \in Fwds /\ starting[m.of] = "not" /\ m.of = m.id[2]
             /\ starting' = [starting EXCEPT ![m.of] = "dialing"] /\ UNCHANGED <<answers, held, stopped>>
    <3>1. m.of <= spent["start"]
      BY <2>1, <2>2 DEF Known
    <3> SUFFICES ASSUME NEW f \in Fwds PROVE TunnelFits(f)'
      BY DEF TunnelInv
    <3>2. TunnelFits(f) /\ TunnelFits(m.of)
      BY <2>2 DEF TunnelInv
    <3>3. CASE f = m.of
      BY <1>0, <1>s, <2>1, <2>2, <3>1, <3>2, <3>3 DEF TunnelFits
    <3>4. CASE f # m.of
      BY <1>0, <1>s, <2>1, <2>2, <3>2, <3>4 DEF TunnelFits
    <3> QED
      BY <3>3, <3>4
  <2>3. CASE m.of \in Fwds /\ StopListed(m.of) /\ UNCHANGED starting
    <3>1. /\ held' = held \ {m.of}
          /\ \A g \in Fwds : stopped'[g] = IF g = m.of /\ m.of \in held THEN stopped[g] + 1 ELSE stopped[g]
      BY <2>3, StopListedIs
    <3> QED
      BY <1>0, <1>s, <2>1, <2>3, <3>1 DEF TunnelInv, TunnelFits
  <2>4. CASE UNCHANGED <<held, stopped, starting>>
    BY <1>a, <1>s, <2>1, <2>4
  <2> QED
    BY <2>1, <2>2, <2>3, <2>4
<1>4. CASE TakeReply
  <2>1. UNCHANGED <<held, starting, tunnel, stopped>>
    BY <1>4, TakeReplyIs
  <2>2. spent'["start"] = spent["start"]
    <3>1. CASE inbox[1] = Greeting
      <4>1. AskEngine("list", 0)
        BY <1>4, <3>1, TakeReplyIs
      <4> QED
        BY <4>1, AskIs DEF Whats
    <3>2. CASE inbox[1] # Greeting
      BY <1>4, <3>2, TakeReplyIs
    <3> QED
      BY <3>1, <3>2
  <2> QED
    BY <1>a, <1>s, <2>1, <2>2
<1>5. CASE LinkLost
  <2>1. spent' = [spent EXCEPT !["drops"] = @ + 1]
    BY <1>5 DEF LinkLost
  <2>2. spent'["start"] = spent["start"] /\ spent'.start = spent'["start"]
    BY <1>0, <2>1, BumpIs
  <2>3. /\ UNCHANGED <<held, tunnel, stopped>>
        /\ \A f \in Fwds : starting'[f] = CASE starting[f] = "dialing" -> "cut"
                                            [] starting[f] = "listing" -> "returned"
                                            [] OTHER                   -> starting[f]
    BY <1>5 DEF LinkLost
  <2> SUFFICES ASSUME NEW f \in Fwds PROVE TunnelFits(f)'
    BY DEF TunnelInv
  <2>4. TunnelFits(f)
    BY DEF TunnelInv
  <2>5. CASE starting[f] = "dialing"
    BY <1>s, <2>2, <2>3, <2>4, <2>5 DEF TunnelFits
  <2>6. CASE starting[f] = "listing"
    BY <1>s, <2>2, <2>3, <2>4, <2>6 DEF TunnelFits
  <2>7. CASE starting[f] # "dialing" /\ starting[f] # "listing"
    <3>1. starting'[f] = starting[f]
      BY <2>3, <2>7
    <3> QED
      BY <1>s, <2>2, <2>3, <2>4, <3>1 DEF TunnelFits
  <2> QED
    BY <2>5, <2>6, <2>7
<1>6. CASE LinkRefused \/ LinkBack
  BY <1>6, <1>s, <1>a DEF LinkRefused, LinkBack, manager
<1>7. ASSUME NEW f \in Fwds, ForwardPorts(f) PROVE TunnelInv'
  <2> SUFFICES ASSUME NEW g \in Fwds PROVE TunnelFits(g)'
    BY DEF TunnelInv
  <2>1. TunnelFits(g)
    BY DEF TunnelInv
  <2> QED
    BY <1>0, <1>7, <2>1 DEF ForwardPorts, TunnelFits, windowSide
<1>8. ASSUME NEW f \in Fwds, StartFails(f) PROVE TunnelInv'
  <2> SUFFICES ASSUME NEW g \in Fwds PROVE TunnelFits(g)'
    BY DEF TunnelInv
  <2>1. TunnelFits(g)
    BY DEF TunnelInv
  <2> QED
    BY <1>0, <1>8, <2>1 DEF StartFails, TunnelFits, windowSide
<1>9. ASSUME NEW f \in Fwds, StartReady(f) PROVE TunnelInv'
  <2> SUFFICES ASSUME NEW g \in Fwds PROVE TunnelFits(g)'
    BY DEF TunnelInv
  <2>1. TunnelFits(g)
    BY DEF TunnelInv
  <2> QED
    BY <1>0, <1>9, <2>1 DEF StartReady, TunnelFits, windowSide
<1>10. ASSUME NEW f \in Fwds, StartCut(f) PROVE TunnelInv'
  <2> SUFFICES ASSUME NEW g \in Fwds PROVE TunnelFits(g)'
    BY DEF TunnelInv
  <2>1. TunnelFits(g)
    BY DEF TunnelInv
  <2> QED
    BY <1>0, <1>10, <2>1 DEF StartCut, CloseStop, TunnelFits, windowSide
<1>11. ASSUME NEW f \in Fwds, StartLists(f) PROVE TunnelInv'
  <2> SUFFICES ASSUME NEW g \in Fwds PROVE TunnelFits(g)'
    BY DEF TunnelInv
  <2>1. TunnelFits(g)
    BY DEF TunnelInv
  <2> QED
    BY <1>0, <1>11, <2>1 DEF StartLists, TunnelFits, windowSide
<1>12. ASSUME NEW f \in Fwds, OtherStops(f) PROVE TunnelInv'
  <2>1. /\ held' = held \ {f}
        /\ \A g \in Fwds : stopped'[g] = IF g = f /\ f \in held THEN stopped[g] + 1 ELSE stopped[g]
    BY <1>12, StopListedIs DEF OtherStops
  <2>2. UNCHANGED <<starting, tunnel>> /\ spent' = [spent EXCEPT !["stop"] = @ + 1]
    BY <1>12 DEF OtherStops
  <2>3. spent'["start"] = spent["start"] /\ spent'.start = spent'["start"]
    BY <1>0, <2>2, BumpIs
  <2> QED
    BY <1>0, <1>s, <2>1, <2>2, <2>3 DEF TunnelInv, TunnelFits
<1>13. ASSUME NEW a \in answers, SendAnswer(a) PROVE TunnelInv'
  BY <1>13, <1>s, <1>a, SendAnswerIs
<1>14. CASE UNCHANGED forwarding
  BY <1>14, <1>s, <1>a DEF forwarding, manager, windowSide
<1> QED
  BY <1>1, <1>2, <1>3, <1>4, <1>5, <1>6, <1>7, <1>8, <1>9, <1>10, <1>11, <1>12, <1>13, <1>14 DEF ForwardsNext

\* At most one list is asked for, or to be asked for, with every link.
LEMMA GreetStep == ASSUME FwdTypes, RequestedInv, RepliedInv, GreetInv, [ForwardsNext]_forwarding PROVE GreetInv'
<1>0. spent \in FwdSpent /\ spent["list"] \in Nat /\ spent["drops"] \in Nat /\ inbox \in Seq(FwdReply) /\ wired \in BOOLEAN
  BY DEF FwdTypes, FwdSpent
<1>a. GreetingsDue \in {0, 1} /\ GreetingsDue' \in {0, 1}
  BY DEF GreetingsDue
<1>b. ASSUME spent'["list"] = spent["list"], spent'["drops"] = spent["drops"], GreetingsDue' = GreetingsDue PROVE GreetInv'
  BY <1>b DEF GreetInv
<1>c. ASSUME UNCHANGED <<inbox, wired>> PROVE GreetingsDue' = GreetingsDue
  BY <1>c DEF GreetingsDue
<1>1. CASE startForward
  <2>1. spent.start + 1 \in Fwds
    BY <1>1, FwdBounds DEF startForward, Fwds, FwdTypes, FwdSpent
  <2>2. spent'["list"] = spent["list"] /\ spent'["drops"] = spent["drops"]
    BY <1>1, <2>1, AskIs DEF Whats, startForward
  <2> QED
    BY <1>1, <1>b, <1>c, <2>2 DEF startForward
<1>2. CASE stopForward
  <2>1. PICK f \in Fwds : AskEngine("stop", f)
    BY <1>2 DEF stopForward, FwdTypes
  <2>2. spent'["list"] = spent["list"] /\ spent'["drops"] = spent["drops"]
    BY <2>1, AskIs DEF Whats
  <2> QED
    BY <1>2, <1>b, <1>c, <2>2 DEF stopForward
<1>3. CASE ReadLoop
  BY <1>3, <1>b, <1>c DEF ReadLoop
<1>4. CASE TakeReply
  <2>1. wired /\ wired' = wired /\ inbox # <<>> /\ inbox' = Tail(inbox)
    BY <1>4, TakeReplyIs
  <2>2. \A i \in DOMAIN inbox' : inbox'[i] # Greeting
    <3>1. \A i \in DOMAIN inbox' : i + 1 \in DOMAIN inbox /\ inbox'[i] = inbox[i + 1] /\ i \in Nat /\ i >= 1
      BY <1>0, <2>1, FwdTail
    <3> QED
      BY <3>1 DEF RepliedInv
  <2>3. inbox' # <<>> => 1 \in DOMAIN inbox'
    <3>1. inbox' \in Seq(FwdReply)
      BY <1>0, <2>1, FwdTail
    <3> QED
      BY <3>1
  <2>4. GreetingsDue' = 0
    BY <2>1, <2>2, <2>3 DEF GreetingsDue
  <2>5. CASE inbox[1] = Greeting
    <3>1. AskEngine("list", 0) /\ GreetingsDue = 1
      BY <1>4, <2>1, <2>5, TakeReplyIs DEF GreetingsDue
    <3>2. spent'["list"] = spent["list"] + 1 /\ spent'["drops"] = spent["drops"]
      BY <3>1, AskIs DEF Whats
    <3> QED
      BY <1>0, <2>4, <3>1, <3>2 DEF GreetInv
  <2>6. CASE inbox[1] # Greeting
    <3>1. UNCHANGED spent
      BY <1>4, <2>6, TakeReplyIs
    <3> QED
      BY <1>0, <1>a, <2>4, <3>1 DEF GreetInv
  <2> QED
    BY <2>5, <2>6
<1>5. CASE LinkLost
  <2>1. spent' = [spent EXCEPT !["drops"] = @ + 1]
    BY <1>5 DEF LinkLost
  <2>2. spent'["list"] = spent["list"] /\ spent'["drops"] = spent["drops"] + 1
    BY <1>0, <2>1, BumpIs
  <2> QED
    BY <1>0, <1>a, <2>2 DEF GreetInv
<1>6. CASE LinkRefused
  BY <1>6, <1>b, <1>c DEF LinkRefused
<1>7. CASE LinkBack
  <2>1. GreetingsDue = 1 /\ UNCHANGED spent
    BY <1>7 DEF LinkBack, GreetingsDue
  <2> QED
    BY <1>0, <1>a, <2>1 DEF GreetInv
<1>8. ASSUME NEW f \in Fwds, ForwardPorts(f) \/ StartFails(f) \/ StartReady(f) \/ StartCut(f) \/ StartLists(f) PROVE GreetInv'
  BY <1>8, <1>b, <1>c DEF ForwardPorts, StartFails, StartReady, StartCut, StartLists, windowSide
<1>9. ASSUME NEW f \in Fwds, OtherStops(f) PROVE GreetInv'
  <2>1. spent' = [spent EXCEPT !["stop"] = @ + 1] /\ UNCHANGED <<inbox, wired>>
    BY <1>9 DEF OtherStops
  <2>2. spent'["list"] = spent["list"] /\ spent'["drops"] = spent["drops"]
    BY <1>0, <2>1, BumpIs
  <2> QED
    BY <1>b, <1>c, <2>1, <2>2
<1>10. ASSUME NEW a \in answers, SendAnswer(a) PROVE GreetInv'
  <2>1. a[1] \in FwdReply /\ inbox' = Append(inbox, a[1]) /\ UNCHANGED <<wired, spent>>
    BY <1>10, SendAnswerIs
  <2>2. a[1] # Greeting
    BY GreetingIs DEF RepliedInv, Known
  <2>3. inbox' # <<>> /\ inbox'[1] = IF inbox = <<>> THEN a[1] ELSE inbox[1]
    BY <1>0, <2>1
  <2>4. GreetingsDue' = GreetingsDue
    BY <2>1, <2>2, <2>3 DEF GreetingsDue
  <2> QED
    BY <1>b, <2>1, <2>4
<1>11. CASE UNCHANGED forwarding
  BY <1>11, <1>b, <1>c DEF forwarding, windowSide
<1> QED
  BY <1>1, <1>2, <1>3, <1>4, <1>5, <1>6, <1>7, <1>8, <1>9, <1>10, <1>11 DEF ForwardsNext

\* A request is in one place at a time: on its way, answered, or a forward's that starts.
KeepsKnown == \A t \in Ticket : Known(spent, t) => Known(spent', t)

LEMMA KnownStays == ASSUME FwdTypes, spent' \in FwdSpent, \A w \in Whats : spent'[w] >= spent[w] PROVE KeepsKnown
<1> SUFFICES ASSUME NEW t \in Ticket, Known(spent, t) PROVE Known(spent', t)
  BY DEF KeepsKnown
<1>1. t[2] \in Nat /\ t[1] \in Whats /\ t[2] <= spent[t[1]]
  BY DEF Known, Ticket, Whats
<1>2. \A w \in Whats : spent[w] \in Nat /\ spent'[w] \in Nat
  BY DEF FwdTypes, FwdSpent, Whats
<1>3. t[2] <= spent'[t[1]]
  BY <1>1, <1>2
<1> QED
  BY <1>1, <1>3 DEF Known, Whats

LEMMA KnownSame == ASSUME UNCHANGED spent PROVE KeepsKnown
  BY DEF KeepsKnown, Known

LEMMA QueueTickets ==
    ASSUME FwdTypes
    PROVE  /\ \A i \in DOMAIN outbox : outbox[i] \in FwdAsked /\ outbox[i].id \in Ticket
           /\ \A i \in DOMAIN inbox : inbox[i] \in FwdReply /\ inbox[i].to \in Ticket
           /\ \A a \in answers : a[1].to \in Ticket
           /\ \A t \in Ticket : t = <<t[1], t[2]>> /\ t[2] \in Nat
<1>a. (\A i \in DOMAIN outbox : outbox[i] \in FwdAsked) /\ (\A i \in DOMAIN inbox : inbox[i] \in FwdReply)
  BY DEF FwdTypes
<1>b. (\A m \in FwdAsked : m.id \in Ticket) /\ (\A m \in FwdReply : m.to \in Ticket)
  BY DEF FwdAsked, FwdReply
<1>1. \A i \in DOMAIN outbox : outbox[i] \in FwdAsked /\ outbox[i].id \in Ticket
  BY <1>a, <1>b
<1>2. \A i \in DOMAIN inbox : inbox[i] \in FwdReply /\ inbox[i].to \in Ticket
  BY <1>a, <1>b
<1>3. \A t \in Ticket : t = <<t[1], t[2]>> /\ t[2] \in Nat
  BY DEF Ticket
<1> QED
  BY <1>1, <1>2, <1>3, AnswerIs

LEMMA TicketsShrink ==
    ASSUME FwdTypes, RequestedInv, RepliedInv, KeepsKnown, NEW d \in {0, 1}, NEW e \in {0, 1}, answers' \subseteq answers,
           \A i \in DOMAIN inbox' : i \in Nat /\ i >= 1 /\ i + d \in DOMAIN inbox /\ inbox'[i] = inbox[i + d],
           \A i \in DOMAIN outbox' : i \in Nat /\ i >= 1 /\ i + e \in DOMAIN outbox /\ outbox'[i] = outbox[i + e],
           \A f \in Fwds : /\ starting'[f] \in {"dialing", "listing"} => starting[f] \in {"dialing", "listing"}
                           /\ starting[f] = "not" => starting'[f] = "not"
    PROVE  RequestedInv' /\ RepliedInv'
<1>1. ASSUME NEW i \in DOMAIN outbox'
      PROVE  /\ Known(spent', outbox'[i].id)
             /\ outbox'[i].id[1] = "start" => outbox'[i].of = outbox'[i].id[2] /\ outbox'[i].of \in Fwds /\ starting'[outbox'[i].of] = "not"
             /\ outbox'[i].id[1] = "stop" => outbox'[i].of \in Fwds
             /\ \A j \in DOMAIN outbox' : i # j => outbox'[i].id # outbox'[j].id
             /\ \A a \in answers' : a[1].to # outbox'[i].id
             /\ \A j \in DOMAIN inbox' : inbox'[j].to # outbox'[i].id
  <2>1. i + e \in DOMAIN outbox /\ outbox'[i] = outbox[i + e]
    BY <1>1
  <2>2. /\ Known(spent, outbox[i + e].id) /\ outbox[i + e].id \in Ticket
        /\ outbox[i + e].id[1] = "start" => outbox[i + e].of = outbox[i + e].id[2] /\ outbox[i + e].of \in Fwds /\ starting[outbox[i + e].of] = "not"
        /\ outbox[i + e].id[1] = "stop" => outbox[i + e].of \in Fwds
        /\ \A j \in DOMAIN outbox : i + e # j => outbox[i + e].id # outbox[j].id
        /\ \A a \in answers : a[1].to # outbox[i + e].id
        /\ \A j \in DOMAIN inbox : inbox[j].to # outbox[i + e].id
    BY <2>1, QueueTickets DEF RequestedInv
  <2>3. Known(spent', outbox'[i].id)
    BY <2>1, <2>2 DEF KeepsKnown, Known
  <2>4. \A j \in DOMAIN outbox' : i # j => i + e # j + e
    BY <1>1
  <2> QED
    BY <2>1, <2>2, <2>3, <2>4
<1>2. RequestedInv'
  BY <1>1 DEF RequestedInv, Known
<1>3. \A a \in answers' : Known(spent', a[1].to) /\ \A b \in answers' : a # b => a[1].to # b[1].to
  BY QueueTickets DEF RepliedInv, KeepsKnown
<1>4. ASSUME NEW i \in DOMAIN inbox'
      PROVE  /\ inbox'[i] = Greeting => i = 1
             /\ inbox'[i] # Greeting => Known(spent', inbox'[i].to)
             /\ \A j \in DOMAIN inbox' : i # j => inbox'[i].to # inbox'[j].to
             /\ \A a \in answers' : a[1].to # inbox'[i].to
  <2>1. i \in Nat /\ i >= 1 /\ i + d \in DOMAIN inbox /\ inbox'[i] = inbox[i + d]
    BY <1>4
  <2>2. /\ inbox[i + d] = Greeting => i + d = 1
        /\ inbox[i + d] # Greeting => Known(spent, inbox[i + d].to) /\ inbox[i + d].to \in Ticket
        /\ \A j \in DOMAIN inbox : i + d # j => inbox[i + d].to # inbox[j].to
        /\ \A a \in answers : a[1].to # inbox[i + d].to
    BY <2>1, QueueTickets DEF RepliedInv
  <2>3. inbox'[i] # Greeting => Known(spent', inbox'[i].to)
    BY <2>1, <2>2 DEF KeepsKnown, Known
  <2>4. \A j \in DOMAIN inbox' : i # j => i + d # j + d
    BY <1>4
  <2>5. i + d = 1 => i = 1
    BY <2>1
  <2> QED
    BY <2>1, <2>2, <2>3, <2>4, <2>5
<1>5. \A f \in Fwds : starting'[f] \in {"dialing", "listing"} =>
         /\ \A a \in answers' : a[1].to # <<"start", f>>
         /\ \A i \in DOMAIN inbox' : inbox'[i].to # <<"start", f>>
  BY DEF RepliedInv
<1> QED
  BY <1>2, <1>3, <1>4, <1>5 DEF RepliedInv, Known

\* A new request is of a number nobody has used.
LEMMA AskTickets ==
    ASSUME FwdTypes, RequestedInv, RepliedInv, NEW what \in Whats, NEW of \in {0} \cup Fwds, AskEngine(what, of),
           what = "start" => of = spent["start"] + 1 /\ of \in Fwds /\ starting[of] = "not",
           what = "stop" => of \in Fwds,
           NEW d \in {0, 1},
           \A i \in DOMAIN inbox' : i \in Nat /\ i >= 1 /\ i + d \in DOMAIN inbox /\ inbox'[i] = inbox[i + d],
           UNCHANGED <<answers, starting>>
    PROVE  RequestedInv' /\ RepliedInv'
<1>1. PICK t \in Ticket, m \in FwdAsked :
              /\ t[1] = what /\ t[2] = spent[what] + 1 /\ m = [id |-> t, of |-> of]
              /\ outbox' = Append(outbox, m)
              /\ spent' \in FwdSpent /\ spent'[what] = spent[what] + 1
              /\ \A w \in {"start", "stop", "list", "drops"} : w # what => spent'[w] = spent[w]
  BY AskIs
<1>2. m.id = t /\ m.of = of
  BY <1>1
<1>3. \A w \in Whats : spent[w] \in Nat
  BY DEF FwdTypes, FwdSpent, Whats
<1>4. KeepsKnown
  <2>1. \A w \in Whats : spent'[w] >= spent[w]
    BY <1>1, <1>3 DEF Whats
  <2> QED
    BY <1>1, <2>1, KnownStays
<1>5. ~ Known(spent, t)
  BY <1>1, <1>3 DEF Known
<1>6. Known(spent', t)
  BY <1>1, <1>3 DEF Known, Whats
<1>7. /\ \A i \in DOMAIN outbox : outbox[i].id # t
      /\ \A a \in answers : a[1].to # t
      /\ \A i \in DOMAIN inbox : inbox[i].to # t
  <2>1. \A i \in DOMAIN inbox : inbox[i] = Greeting => inbox[i].to # t
    BY <1>1, GreetingIs DEF Whats
  <2> QED
    BY <1>5, <2>1 DEF RequestedInv, RepliedInv
<1>8. outbox \in Seq(FwdAsked)
  BY DEF FwdTypes
<1>9. /\ \A i \in DOMAIN outbox : i \in DOMAIN outbox' /\ outbox'[i] = outbox[i]
      /\ \A i, j \in DOMAIN outbox' : i # j => i \in DOMAIN outbox \/ j \in DOMAIN outbox
      /\ \A i \in DOMAIN outbox' : i \in DOMAIN outbox \/ outbox'[i] = m
  BY <1>1, <1>8, FwdAdd
<1>10. \A j \in DOMAIN inbox' : inbox'[j].to # t
  BY <1>7
<1>11. \A i \in DOMAIN outbox : outbox[i].id \in Ticket
  BY QueueTickets
<1> HIDE DEF Whats
<1>12. ASSUME NEW i \in DOMAIN outbox'
      PROVE  /\ Known(spent', outbox'[i].id)
             /\ outbox'[i].id[1] = "start" => outbox'[i].of = outbox'[i].id[2] /\ outbox'[i].of \in Fwds /\ starting'[outbox'[i].of] = "not"
             /\ outbox'[i].id[1] = "stop" => outbox'[i].of \in Fwds
             /\ \A j \in DOMAIN outbox' : i # j => outbox'[i].id # outbox'[j].id
             /\ \A a \in answers' : a[1].to # outbox'[i].id
             /\ \A j \in DOMAIN inbox' : inbox'[j].to # outbox'[i].id
  <2>1. CASE i \in DOMAIN outbox
    <3>1. /\ Known(spent, outbox[i].id) /\ outbox[i].id \in Ticket /\ outbox'[i] = outbox[i]
          /\ outbox[i].id[1] = "start" => outbox[i].of = outbox[i].id[2] /\ outbox[i].of \in Fwds /\ starting[outbox[i].of] = "not"
          /\ outbox[i].id[1] = "stop" => outbox[i].of \in Fwds
          /\ \A j \in DOMAIN outbox : i # j => outbox[i].id # outbox[j].id
          /\ \A a \in answers : a[1].to # outbox[i].id
          /\ \A j \in DOMAIN inbox : inbox[j].to # outbox[i].id
      BY <1>9, <1>11, <2>1 DEF RequestedInv
    <3>2. Known(spent', outbox'[i].id)
      BY <1>4, <3>1 DEF KeepsKnown, Known
    <3>3. \A j \in DOMAIN outbox' : i # j => outbox'[i].id # outbox'[j].id
      BY <1>2, <1>7, <1>9, <2>1, <3>1
    <3>4. \A j \in DOMAIN inbox' : inbox'[j].to # outbox'[i].id
      BY <3>1
    <3> QED
      BY <3>1, <3>2, <3>3, <3>4
  <2>2. CASE i \notin DOMAIN outbox
    <3>1. outbox'[i] = m
      BY <1>9, <2>2
    <3>2. \A j \in DOMAIN outbox' : i # j => outbox'[i].id # outbox'[j].id
      BY <1>2, <1>7, <1>9, <2>2, <3>1
    <3>3. Known(spent', outbox'[i].id)
      BY <1>2, <1>6, <3>1 DEF Known
    <3>4. /\ outbox'[i].id[1] = "start" => outbox'[i].of = outbox'[i].id[2] /\ outbox'[i].of \in Fwds /\ starting'[outbox'[i].of] = "not"
          /\ outbox'[i].id[1] = "stop" => outbox'[i].of \in Fwds
      BY <1>1, <1>2, <3>1
    <3> QED
      BY <1>2, <1>7, <1>10, <3>1, <3>2, <3>3, <3>4
  <2> QED
    BY <2>1, <2>2
<1>13. RequestedInv'
  BY <1>12 DEF RequestedInv, Known
<1>14. \A a \in answers' : Known(spent', a[1].to) /\ \A b \in answers' : a # b => a[1].to # b[1].to
  BY <1>4, QueueTickets DEF RepliedInv, KeepsKnown
<1>15. ASSUME NEW i \in DOMAIN inbox'
      PROVE  /\ inbox'[i] = Greeting => i = 1
             /\ inbox'[i] # Greeting => Known(spent', inbox'[i].to)
             /\ \A j \in DOMAIN inbox' : i # j => inbox'[i].to # inbox'[j].to
             /\ \A a \in answers' : a[1].to # inbox'[i].to
  <2>1. i \in Nat /\ i >= 1 /\ i + d \in DOMAIN inbox /\ inbox'[i] = inbox[i + d]
    BY <1>15
  <2>2. /\ inbox[i + d] = Greeting => i + d = 1
        /\ inbox[i + d] # Greeting => Known(spent, inbox[i + d].to) /\ inbox[i + d].to \in Ticket
        /\ \A j \in DOMAIN inbox : i + d # j => inbox[i + d].to # inbox[j].to
        /\ \A a \in answers : a[1].to # inbox[i + d].to
    BY <2>1, QueueTickets DEF RepliedInv
  <2>3. inbox'[i] # Greeting => Known(spent', inbox'[i].to)
    BY <1>4, <2>1, <2>2 DEF KeepsKnown, Known
  <2>4. \A j \in DOMAIN inbox' : i # j => i + d # j + d
    BY <1>15
  <2>5. i + d = 1 => i = 1
    BY <2>1
  <2> QED
    BY <2>1, <2>2, <2>3, <2>4, <2>5
<1>16. \A f \in Fwds : starting'[f] \in {"dialing", "listing"} =>
         /\ \A a \in answers' : a[1].to # <<"start", f>>
         /\ \A i \in DOMAIN inbox' : inbox'[i].to # <<"start", f>>
  BY DEF RepliedInv
<1> QED
  BY <1>13, <1>14, <1>15, <1>16 DEF RepliedInv, Known

\* An answer made for a request that is nowhere else.
LEMMA SaysTickets ==
    ASSUME FwdTypes, RepliedInv, NEW t \in Ticket, NEW x, x[1].to = t, Known(spent, t), UNCHANGED <<spent, inbox>>,
           answers' = answers \cup {x},
           \A a \in answers : a[1].to # t,
           \A i \in DOMAIN inbox : inbox[i].to # t,
           \A f \in Fwds : /\ starting'[f] \in {"dialing", "listing"} => starting[f] \in {"dialing", "listing"}
                           /\ starting'[f] \in {"dialing", "listing"} => t # <<"start", f>>
    PROVE  RepliedInv'
<1>1. \A a \in answers' : Known(spent', a[1].to) /\ \A b \in answers' : a # b => a[1].to # b[1].to
  BY DEF RepliedInv
<1>2. ASSUME NEW i \in DOMAIN inbox'
      PROVE  /\ inbox'[i] = Greeting => i = 1
             /\ inbox'[i] # Greeting => Known(spent', inbox'[i].to)
             /\ \A j \in DOMAIN inbox' : i # j => inbox'[i].to # inbox'[j].to
             /\ \A a \in answers' : a[1].to # inbox'[i].to
  BY <1>2 DEF RepliedInv
<1>3. \A f \in Fwds : starting'[f] \in {"dialing", "listing"} =>
         /\ \A a \in answers' : a[1].to # <<"start", f>>
         /\ \A i \in DOMAIN inbox' : inbox'[i].to # <<"start", f>>
  BY DEF RepliedInv
<1> QED
  BY <1>1, <1>2, <1>3 DEF RepliedInv

LEMMA LoopTickets == ASSUME FwdTypes, RequestedInv, RepliedInv, ReadLoop PROVE RequestedInv' /\ RepliedInv'
<1>1. PICK m \in FwdAsked :
         /\ m = outbox[1] /\ 1 \in DOMAIN outbox /\ outbox # <<>> /\ outbox' = Tail(outbox)
         /\ m.id \in Ticket /\ Known(spent, m.id) /\ UNCHANGED <<inbox, spent>>
         /\ \/ /\ m.id[1] = "start" /\ m.of \in Fwds /\ starting[m.of] = "not" /\ m.of = m.id[2]
               /\ starting' = [starting EXCEPT ![m.of] = "dialing"] /\ UNCHANGED <<answers, held, stopped>>
            \/ /\ m.id[1] = "stop" /\ m.of \in Fwds /\ StopListed(m.of)
               /\ Says(m.id, held', TRUE) /\ UNCHANGED starting
            \/ m.id[1] = "list" /\ Says(m.id, held, TRUE) /\ UNCHANGED <<held, stopped, starting>>
  BY ReadLoopIs
<1>2. /\ \A j \in DOMAIN outbox : 1 # j => m.id # outbox[j].id
      /\ \A a \in answers : a[1].to # m.id
      /\ \A j \in DOMAIN inbox : inbox[j].to # m.id
  BY <1>1 DEF RequestedInv
<1>3. \A i \in DOMAIN outbox' : i + 1 \in DOMAIN outbox /\ outbox'[i] = outbox[i + 1] /\ i \in Nat /\ i >= 1
  <2>1. outbox \in Seq(FwdAsked)
    BY DEF FwdTypes
  <2> QED
    BY <1>1, <2>1, FwdTail
<1>4. \A t \in Ticket : t = <<t[1], t[2]>> /\ t[2] \in Nat
  BY QueueTickets
<1>5. \A i \in DOMAIN outbox : outbox[i].id \in Ticket
  BY QueueTickets
<1>6. ASSUME answers' = answers \/ \E x : x[1].to = m.id /\ answers' = answers \cup {x},
             \A i \in DOMAIN outbox' : outbox'[i].id[1] = "start" => starting'[outbox'[i].of] = "not"
      PROVE  RequestedInv'
  <2> SUFFICES ASSUME NEW i \in DOMAIN outbox'
      PROVE  /\ Known(spent', outbox'[i].id)
             /\ outbox'[i].id[1] = "start" => outbox'[i].of = outbox'[i].id[2] /\ outbox'[i].of \in Fwds /\ starting'[outbox'[i].of] = "not"
             /\ outbox'[i].id[1] = "stop" => outbox'[i].of \in Fwds
             /\ \A j \in DOMAIN outbox' : i # j => outbox'[i].id # outbox'[j].id
             /\ \A a \in answers' : a[1].to # outbox'[i].id
             /\ \A j \in DOMAIN inbox' : inbox'[j].to # outbox'[i].id
    BY DEF RequestedInv
  <2>1. i + 1 \in DOMAIN outbox /\ outbox'[i] = outbox[i + 1] /\ 1 # i + 1
    BY <1>3
  <2>2. /\ Known(spent, outbox[i + 1].id)
        /\ outbox[i + 1].id[1] = "start" => outbox[i + 1].of = outbox[i + 1].id[2] /\ outbox[i + 1].of \in Fwds
        /\ outbox[i + 1].id[1] = "stop" => outbox[i + 1].of \in Fwds
        /\ \A j \in DOMAIN outbox : i + 1 # j => outbox[i + 1].id # outbox[j].id
        /\ \A a \in answers : a[1].to # outbox[i + 1].id
        /\ \A j \in DOMAIN inbox : inbox[j].to # outbox[i + 1].id
    BY <2>1 DEF RequestedInv
  <2>3. \A j \in DOMAIN outbox' : i # j => i + 1 # j + 1
    BY <1>3
  <2>4. \A j \in DOMAIN outbox' : i # j => outbox'[i].id # outbox'[j].id
    BY <1>3, <2>1, <2>2, <2>3
  <2>5. \A a \in answers' : a[1].to # outbox'[i].id
    BY <1>2, <1>6, <2>1, <2>2
  <2>6. \A j \in DOMAIN inbox' : inbox'[j].to # outbox'[i].id
    BY <1>1, <2>1, <2>2
  <2> QED
    BY <1>1, <1>6, <2>1, <2>2, <2>4, <2>5, <2>6
<1>7. CASE /\ m.id[1] = "start" /\ m.of \in Fwds /\ starting[m.of] = "not" /\ m.of = m.id[2]
           /\ starting' = [starting EXCEPT ![m.of] = "dialing"] /\ UNCHANGED <<answers, held, stopped>>
  <2>1. starting \in [Fwds -> {"not", "dialing", "cut", "listing", "returned"}]
    BY DEF FwdTypes
  <2>2. m.id = <<"start", m.of>>
    BY <1>1, <1>4, <1>7
  <2>3. ASSUME NEW i \in DOMAIN outbox', outbox'[i].id[1] = "start" PROVE starting'[outbox'[i].of] = "not"
    <3>1. i + 1 \in DOMAIN outbox /\ outbox'[i] = outbox[i + 1] /\ 1 # i + 1
      BY <1>3, <2>3
    <3>2. /\ outbox[i + 1].of = outbox[i + 1].id[2] /\ outbox[i + 1].of \in Fwds /\ starting[outbox[i + 1].of] = "not"
          /\ outbox[i + 1].id = <<"start", outbox[i + 1].of>>
      BY <1>4, <1>5, <2>3, <3>1 DEF RequestedInv
    <3>3. outbox[i + 1].of # m.of
      BY <1>2, <2>2, <3>1, <3>2
    <3> QED
      BY <1>7, <2>1, <3>1, <3>2, <3>3
  <2>4. RequestedInv'
    BY <1>6, <1>7, <2>3
  <2>5. RepliedInv'
    <3>1. \A f \in Fwds : starting'[f] \in {"dialing", "listing"} =>
             /\ \A a \in answers' : a[1].to # <<"start", f>>
             /\ \A i \in DOMAIN inbox' : inbox'[i].to # <<"start", f>>
      <4> SUFFICES ASSUME NEW f \in Fwds, starting'[f] \in {"dialing", "listing"}
                   PROVE  /\ \A a \in answers : a[1].to # <<"start", f>>
                          /\ \A i \in DOMAIN inbox : inbox[i].to # <<"start", f>>
        BY <1>1, <1>7
      <4>1. CASE f = m.of
        BY <1>2, <2>2, <4>1
      <4>2. CASE f # m.of
        <5>1. starting[f] \in {"dialing", "listing"}
          BY <1>7, <2>1, <4>2
        <5> QED
          BY <5>1 DEF RepliedInv
      <4> QED
        BY <4>1, <4>2
    <3> QED
      BY <1>1, <1>7, <3>1 DEF RepliedInv
  <2> QED
    BY <2>4, <2>5
<1>8. ASSUME m.id[1] \in {"stop", "list"}, NEW list \in SUBSET Fwds, Says(m.id, list, TRUE), UNCHANGED starting PROVE RequestedInv' /\ RepliedInv'
  <2> DEFINE x == <<ForwardsMsg(m.id, list), TRUE>>
  <2>1. x[1].to = m.id /\ answers' = answers \cup {x}
    BY <1>1, <1>8, SaysIs
  <2> HIDE DEF x
  <2>2. \A i \in DOMAIN outbox' : outbox'[i].id[1] = "start" => starting'[outbox'[i].of] = "not"
    BY <1>3, <1>8 DEF RequestedInv
  <2>3. RequestedInv'
    BY <1>6, <2>1, <2>2
  <2>4. \A f \in Fwds : m.id # <<"start", f>>
    BY <1>8
  <2>5. UNCHANGED <<spent, inbox, starting>>
    BY <1>1, <1>8
  <2> DEFINE t == m.id
  <2>6. t \in Ticket /\ Known(spent, t) /\ x[1].to = t /\ (\A a \in answers : a[1].to # t) /\ (\A i \in DOMAIN inbox : inbox[i].to # t)
        /\ \A f \in Fwds : t # <<"start", f>>
    BY <1>1, <1>2, <2>1, <2>4
  <2> HIDE DEF t
  <2>7. RepliedInv'
    BY <2>1, <2>5, <2>6, SaysTickets
  <2> QED
    BY <2>3, <2>7
<1>9. CASE /\ m.id[1] = "stop" /\ m.of \in Fwds /\ StopListed(m.of)
           /\ Says(m.id, held', TRUE) /\ UNCHANGED starting
  <2>1. held' \in SUBSET Fwds
    BY <1>9, StopListedIs
  <2> QED
    BY <1>8, <1>9, <2>1
<1>10. CASE m.id[1] = "list" /\ Says(m.id, held, TRUE) /\ UNCHANGED <<held, stopped, starting>>
  <2>1. held \in SUBSET Fwds
    BY DEF FwdTypes
  <2> QED
    BY <1>8, <1>10, <2>1
<1> QED
  BY <1>1, <1>7, <1>9, <1>10

LEMMA ListsTickets ==
    ASSUME FwdTypes, RequestedInv, RepliedInv, TunnelInv, NEW f \in Fwds, StartLists(f)
    PROVE  RequestedInv' /\ RepliedInv'
<1> DEFINE t == <<"start", f>>  x == <<ForwardsMsg(t, held), FALSE>>
<1>1. /\ t \in Ticket /\ f \in Nat
  BY FwdBounds DEF Ticket, Fwds
<1>2. /\ starting[f] = "listing" /\ starting' = [starting EXCEPT ![f] = "returned"] /\ Says(t, held, FALSE)
      /\ UNCHANGED <<outbox, inbox, spent>>
  BY DEF StartLists, windowSide
<1>3. x[1].to = t /\ answers' = answers \cup {x}
  <2>1. held \in SUBSET Fwds
    BY DEF FwdTypes
  <2> QED
    BY <1>1, <1>2, <2>1, SaysIs
<1>4. starting \in [Fwds -> {"not", "dialing", "cut", "listing", "returned"}]
  BY DEF FwdTypes
<1>5. \A g \in Fwds : /\ starting'[g] \in {"dialing", "listing"} => starting[g] \in {"dialing", "listing"} /\ g # f
                      /\ starting[g] = "not" => starting'[g] = "not"
  BY <1>2, <1>4
<1>6. Known(spent, t)
  <2>1. spent["start"] \in Nat
    BY DEF FwdTypes, FwdSpent
  <2>2. f <= spent["start"]
    BY <1>1, <1>2, <2>1 DEF TunnelInv, TunnelFits
  <2> QED
    BY <2>2 DEF Known
<1>7. /\ \A a \in answers : a[1].to # t
      /\ \A i \in DOMAIN inbox : inbox[i].to # t
  BY <1>2 DEF RepliedInv
<1>8. ASSUME NEW i \in DOMAIN outbox PROVE outbox[i].id # t
  BY <1>2, <1>8 DEF RequestedInv
<1>9. \A g \in Fwds : g # f => t # <<"start", g>>
  OBVIOUS
<1> HIDE DEF t, x
<1>10. RepliedInv'
  BY <1>1, <1>2, <1>3, <1>5, <1>6, <1>7, <1>9, SaysTickets
<1>11. RequestedInv'
  BY <1>2, <1>3, <1>5, <1>8 DEF RequestedInv
<1> QED
  BY <1>10, <1>11

LEMMA SendTickets ==
    ASSUME FwdTypes, RequestedInv, RepliedInv, NEW a \in answers, SendAnswer(a)
    PROVE  RequestedInv' /\ RepliedInv'
<1>1. /\ a[1] \in FwdReply /\ answers' = answers \ {a} /\ inbox' = Append(inbox, a[1])
      /\ UNCHANGED <<starting, outbox, spent>>
  BY SendAnswerIs
<1> DEFINE r == a[1]
<1>2. r.to \in Ticket /\ Known(spent, r.to) /\ r # Greeting
  BY GreetingIs, QueueTickets DEF RepliedInv, Known
<1>3. /\ \A i \in DOMAIN outbox : outbox[i].id # r.to
      /\ \A b \in answers' : b[1].to # r.to
      /\ \A i \in DOMAIN inbox : inbox[i].to # r.to
  BY <1>1 DEF RequestedInv, RepliedInv
<1>4. \A f \in Fwds : starting[f] \in {"dialing", "listing"} => r.to # <<"start", f>>
  BY DEF RepliedInv
<1>5. inbox \in Seq(FwdReply) /\ r \in FwdReply /\ inbox' = Append(inbox, r)
  BY <1>1 DEF FwdTypes
<1> HIDE DEF r
<1>6. /\ \A i \in DOMAIN inbox : i \in DOMAIN inbox' /\ inbox'[i] = inbox[i]
      /\ \A i, j \in DOMAIN inbox' : i # j => i \in DOMAIN inbox \/ j \in DOMAIN inbox
      /\ \A i \in DOMAIN inbox' : i \in DOMAIN inbox \/ inbox'[i] = r
  BY <1>5, FwdAdd
<1>7. RequestedInv'
  BY <1>1, <1>3, <1>6 DEF RequestedInv
<1>8. ASSUME NEW i \in DOMAIN inbox'
      PROVE  /\ inbox'[i] = Greeting => i = 1
             /\ inbox'[i] # Greeting => Known(spent', inbox'[i].to)
             /\ \A j \in DOMAIN inbox' : i # j => inbox'[i].to # inbox'[j].to
             /\ \A b \in answers' : b[1].to # inbox'[i].to
  <2>1. CASE i \in DOMAIN inbox
    <3>1. inbox'[i] = inbox[i]
      BY <1>6, <2>1
    <3>2. /\ inbox[i] = Greeting => i = 1
          /\ inbox[i] # Greeting => Known(spent, inbox[i].to)
          /\ \A j \in DOMAIN inbox : i # j => inbox[i].to # inbox[j].to
          /\ \A b \in answers : b[1].to # inbox[i].to
      BY <2>1 DEF RepliedInv
    <3>3. \A j \in DOMAIN inbox' : i # j => inbox'[i].to # inbox'[j].to
      BY <1>3, <1>6, <2>1, <3>1, <3>2
    <3> QED
      BY <1>1, <3>1, <3>2, <3>3
  <2>2. CASE i \notin DOMAIN inbox
    <3>1. inbox'[i] = r
      BY <1>6, <1>8, <2>2
    <3>2. \A j \in DOMAIN inbox' : i # j => inbox'[i].to # inbox'[j].to
      BY <1>3, <1>6, <1>8, <2>2, <3>1
    <3> QED
      BY <1>1, <1>2, <1>3, <3>1, <3>2
  <2> QED
    BY <2>1, <2>2
<1>9. \A f \in Fwds : starting'[f] \in {"dialing", "listing"} =>
         /\ \A b \in answers' : b[1].to # <<"start", f>>
         /\ \A i \in DOMAIN inbox' : inbox'[i].to # <<"start", f>>
  BY <1>1, <1>4, <1>6 DEF RepliedInv
<1>10. \A b \in answers' : Known(spent', b[1].to) /\ \A c \in answers' : b # c => b[1].to # c[1].to
  BY <1>1 DEF RepliedInv
<1> QED
  BY <1>7, <1>8, <1>9, <1>10 DEF RepliedInv

LEMMA LinkBackTickets == ASSUME FwdTypes, RequestedInv, RepliedInv, LinkBack PROVE RequestedInv' /\ RepliedInv'
<1>1. inbox' = <<Greeting>> /\ UNCHANGED <<answers, outbox, spent, starting>>
  BY DEF LinkBack, manager
<1>2. DOMAIN inbox' = {1} /\ inbox'[1] = Greeting
  BY <1>1
<1>3. \A t \in Ticket : Known(spent, t) => Greeting.to # t
  BY GreetingIs DEF Known
<1>4. RequestedInv'
  BY <1>1, <1>2, <1>3, QueueTickets DEF RequestedInv
<1>5. RepliedInv'
  <2>1. \A a \in answers : a[1].to # Greeting.to
    BY <1>3, QueueTickets DEF RepliedInv
  <2>2. \A f \in Fwds : Greeting.to # <<"start", f>>
    BY GreetingIs
  <2> QED
    BY <1>1, <1>2, <2>1, <2>2 DEF RepliedInv
<1> QED
  BY <1>4, <1>5

LEMMA QueueStays ==
    ASSUME FwdTypes
    PROVE  /\ outbox' = outbox => \A i \in DOMAIN outbox' : i \in Nat /\ i >= 1 /\ i + 0 \in DOMAIN outbox /\ outbox'[i] = outbox[i + 0]
           /\ inbox' = inbox => \A i \in DOMAIN inbox' : i \in Nat /\ i >= 1 /\ i + 0 \in DOMAIN inbox /\ inbox'[i] = inbox[i + 0]
           /\ outbox' = <<>> => \A i \in DOMAIN outbox' : i \in Nat /\ i >= 1 /\ i + 0 \in DOMAIN outbox /\ outbox'[i] = outbox[i + 0]
           /\ inbox' = <<>> => \A i \in DOMAIN inbox' : i \in Nat /\ i >= 1 /\ i + 0 \in DOMAIN inbox /\ inbox'[i] = inbox[i + 0]
           /\ (inbox # <<>> /\ inbox' = Tail(inbox)) =>
                 \A i \in DOMAIN inbox' : i \in Nat /\ i >= 1 /\ i + 1 \in DOMAIN inbox /\ inbox'[i] = inbox[i + 1]
<1>1. outbox \in Seq(FwdAsked) /\ inbox \in Seq(FwdReply)
  BY DEF FwdTypes
<1>2. \A i \in DOMAIN outbox : i \in Nat /\ i >= 1 /\ i + 0 = i
  BY <1>1
<1>3. \A i \in DOMAIN inbox : i \in Nat /\ i >= 1 /\ i + 0 = i
  BY <1>1
<1>4. DOMAIN <<>> = {}
  OBVIOUS
<1> QED
  BY <1>1, <1>2, <1>3, <1>4, FwdTail

LEMMA TicketsStep ==
    ASSUME FwdTypes, FwdTypes', TunnelInv, RequestedInv, RepliedInv, [ForwardsNext]_forwarding
    PROVE  RequestedInv' /\ RepliedInv'
<1>0. 0 \in {0, 1} /\ 1 \in {0, 1}
  OBVIOUS
<1>a. ASSUME UNCHANGED <<answers, outbox, inbox>>, KeepsKnown,
             \A f \in Fwds : /\ starting'[f] \in {"dialing", "listing"} => starting[f] \in {"dialing", "listing"}
                             /\ starting[f] = "not" => starting'[f] = "not"
      PROVE  RequestedInv' /\ RepliedInv'
  BY <1>0, <1>a, QueueStays, TicketsShrink
<1>b. starting \in [Fwds -> {"not", "dialing", "cut", "listing", "returned"}]
  BY DEF FwdTypes
<1>1. CASE startForward
  <2>1. spent.start + 1 \in Fwds /\ spent.start = spent["start"] /\ spent["start"] + 1 > spent["start"]
    <3>1. spent.start = spent["start"] /\ spent["start"] \in Nat /\ spent.start < MaxForwards
      BY <1>1 DEF startForward, FwdTypes, FwdSpent
    <3>2. spent["start"] + 1 \in Fwds
      BY <3>1, FwdBounds DEF Fwds
    <3> QED
      BY <3>1, <3>2
  <2>2. starting[spent.start + 1] = "not"
    BY <2>1 DEF TunnelInv, TunnelFits
  <2>3. AskEngine("start", spent.start + 1) /\ UNCHANGED <<answers, inbox, starting>>
    BY <1>1 DEF startForward, manager
  <2> DEFINE of == spent.start + 1
  <2>4. of \in Fwds /\ of = spent["start"] + 1 /\ starting[of] = "not" /\ AskEngine("start", of)
    BY <2>1, <2>2, <2>3
  <2> HIDE DEF of
  <2>5. of \in {0} \cup Fwds /\ "start" \in Whats
    BY <2>4 DEF Whats
  <2>6. \A i \in DOMAIN inbox' : i \in Nat /\ i >= 1 /\ i + 0 \in DOMAIN inbox /\ inbox'[i] = inbox[i + 0]
    BY <2>3, QueueStays
  <2> QED
    BY <1>0, <2>3, <2>4, <2>5, <2>6, AskTickets
<1>2. CASE stopForward
  <2>1. PICK f \in Fwds : AskEngine("stop", f)
    BY <1>2 DEF stopForward, FwdTypes
  <2>2. UNCHANGED <<answers, inbox, starting>>
    BY <1>2 DEF stopForward, manager
  <2>3. f \in {0} \cup Fwds /\ "stop" \in Whats
    BY DEF Whats
  <2>4. \A i \in DOMAIN inbox' : i \in Nat /\ i >= 1 /\ i + 0 \in DOMAIN inbox /\ inbox'[i] = inbox[i + 0]
    BY <2>2, QueueStays
  <2> QED
    BY <1>0, <2>1, <2>2, <2>3, <2>4, AskTickets
<1>3. CASE ReadLoop
  BY <1>3, LoopTickets
<1>4. CASE TakeReply
  <2>1. inbox # <<>> /\ inbox' = Tail(inbox) /\ UNCHANGED <<answers, starting>>
    BY <1>4, TakeReplyIs
  <2>2. \A i \in DOMAIN inbox' : i \in Nat /\ i >= 1 /\ i + 1 \in DOMAIN inbox /\ inbox'[i] = inbox[i + 1]
    BY <2>1, QueueStays
  <2>3. CASE inbox[1] = Greeting
    <3>1. AskEngine("list", 0) /\ 0 \in {0} \cup Fwds /\ "list" \in Whats
      BY <1>4, <2>3, TakeReplyIs DEF Whats
    <3> QED
      BY <1>0, <2>1, <2>2, <3>1, AskTickets
  <2>4. CASE inbox[1] # Greeting
    <3>1. UNCHANGED <<outbox, spent>>
      BY <1>4, <2>4, TakeReplyIs
    <3>2. \A i \in DOMAIN outbox' : i \in Nat /\ i >= 1 /\ i + 0 \in DOMAIN outbox /\ outbox'[i] = outbox[i + 0]
      BY <3>1, QueueStays
    <3>3. KeepsKnown
      BY <3>1, KnownSame
    <3> QED
      BY <1>0, <2>1, <2>2, <3>2, <3>3, TicketsShrink
  <2> QED
    BY <2>3, <2>4
<1>5. CASE LinkLost
  <2>1. outbox' = <<>> /\ inbox' = <<>> /\ answers' = {} /\ spent' = [spent EXCEPT !["drops"] = @ + 1]
    BY <1>5 DEF LinkLost
  <2>2. \A f \in Fwds : /\ starting'[f] \in {"dialing", "listing"} => starting[f] \in {"dialing", "listing"}
                        /\ starting[f] = "not" => starting'[f] = "not"
    BY <1>5 DEF LinkLost
  <2>3. KeepsKnown
    <3>1. spent \in FwdSpent
      BY DEF FwdTypes
    <3>2. spent' \in FwdSpent /\ \A w \in Whats : spent'[w] = spent[w] /\ spent[w] \in Nat
      BY <2>1, <3>1, BumpIs DEF Whats, FwdSpent
    <3> QED
      BY <3>2, KnownStays
  <2>4. \A i \in DOMAIN outbox' : i \in Nat /\ i >= 1 /\ i + 0 \in DOMAIN outbox /\ outbox'[i] = outbox[i + 0]
    BY <2>1, QueueStays
  <2>5. \A i \in DOMAIN inbox' : i \in Nat /\ i >= 1 /\ i + 0 \in DOMAIN inbox /\ inbox'[i] = inbox[i + 0]
    BY <2>1, QueueStays
  <2> QED
    BY <1>0, <2>1, <2>2, <2>3, <2>4, <2>5, TicketsShrink
<1>6. CASE LinkRefused
  BY <1>6, <1>a, KnownSame DEF LinkRefused, manager
<1>7. CASE LinkBack
  BY <1>7, LinkBackTickets
<1>8. ASSUME NEW f \in Fwds, ForwardPorts(f) \/ StartFails(f) \/ StartReady(f) \/ StartCut(f) PROVE RequestedInv' /\ RepliedInv'
  <2>1. UNCHANGED <<answers, outbox, inbox, spent>>
    BY <1>8 DEF ForwardPorts, StartFails, StartReady, StartCut, windowSide
  <2>2. \A g \in Fwds : /\ starting'[g] \in {"dialing", "listing"} => starting[g] \in {"dialing", "listing"}
                        /\ starting[g] = "not" => starting'[g] = "not"
    <3>1. CASE ForwardPorts(f)
      BY <3>1 DEF ForwardPorts
    <3>2. CASE StartFails(f)
      BY <1>b, <3>2 DEF StartFails
    <3>3. CASE StartReady(f)
      BY <1>b, <3>3 DEF StartReady, Answerable
    <3>4. CASE StartCut(f)
      BY <1>b, <3>4 DEF StartCut
    <3> QED
      BY <1>8, <3>1, <3>2, <3>3, <3>4
  <2> QED
    BY <1>a, <2>1, <2>2, KnownSame
<1>9. ASSUME NEW f \in Fwds, StartLists(f) PROVE RequestedInv' /\ RepliedInv'
  BY <1>9, ListsTickets
<1>10. ASSUME NEW f \in Fwds, OtherStops(f) PROVE RequestedInv' /\ RepliedInv'
  <2>1. UNCHANGED <<answers, outbox, inbox, starting>> /\ spent' = [spent EXCEPT !["stop"] = @ + 1]
    BY <1>10 DEF OtherStops
  <2>2. KeepsKnown
    <3>1. spent \in FwdSpent
      BY DEF FwdTypes
    <3>2. spent' \in FwdSpent /\ \A w \in Whats : spent'[w] >= spent[w]
      <4>1. \A w \in Whats : spent[w] \in Nat /\ (spent'[w] = spent[w] \/ spent'[w] = spent[w] + 1)
        BY <2>1, <3>1, BumpIs DEF Whats, FwdSpent
      <4>2. spent' \in FwdSpent
        BY <2>1, <3>1, BumpIs
      <4> QED
        BY <4>1, <4>2
    <3> QED
      BY <3>2, KnownStays
  <2> QED
    BY <1>a, <2>1, <2>2
<1>11. ASSUME NEW a \in answers, SendAnswer(a) PROVE RequestedInv' /\ RepliedInv'
  BY <1>11, SendTickets
<1>12. CASE UNCHANGED forwarding
  BY <1>12, <1>a, KnownSame DEF forwarding, manager, windowSide
<1> QED
  BY <1>1, <1>2, <1>3, <1>4, <1>5, <1>6, <1>7, <1>8, <1>9, <1>10, <1>11, <1>12 DEF ForwardsNext

\* The last word: either nobody was told of a change, or an answer is still to come that will be
\* of the list as it is, or the last one on its way is, or the window shows the list already.
LEMMA WordStep ==
    ASSUME FwdTypes, TunnelInv, RequestedInv, RepliedInv, WordInv, [ForwardsNext]_forwarding
    PROVE  WordInv'
<1>0. inbox \in Seq(FwdReply) /\ outbox \in Seq(FwdAsked) /\ starting \in [Fwds -> {"not", "dialing", "cut", "listing", "returned"}]
  BY DEF FwdTypes
<1>a. ASSUME untold => untold', WordToCome => WordToCome', LastWord => LastWord' PROVE WordInv'
  BY <1>a DEF WordInv
<1>b. ASSUME WordToCome' PROVE WordInv'
  BY <1>b DEF WordInv
<1>c. ASSUME UNCHANGED <<untold, wired, answers, starting, outbox, forwards, held, inbox>>, promises \subseteq promises' PROVE WordInv'
  BY <1>a, <1>c DEF WordToCome, LastWord
<1>d. ASSUME NEW what \in Whats, NEW of \in {0} \cup Fwds, AskEngine(what, of)
      PROVE  /\ promises \subseteq promises'
             /\ \A i \in DOMAIN outbox : i \in DOMAIN outbox' /\ outbox'[i] = outbox[i]
             /\ \E l \in DOMAIN outbox' : outbox'[l].id[1] = what
  <2>1. PICK t \in Ticket, m \in FwdAsked : /\ t[1] = what /\ m = [id |-> t, of |-> of]
                                            /\ outbox' = Append(outbox, m) /\ promises' = promises \cup {t}
    BY <1>d, AskIs
  <2>2. m.id = t
    BY <2>1
  <2>3. /\ \A i \in DOMAIN outbox : i \in DOMAIN outbox' /\ outbox'[i] = outbox[i]
        /\ \E l \in DOMAIN outbox' : outbox'[l] = m
    BY <1>0, <2>1, FwdAdd
  <2> QED
    BY <2>1, <2>2, <2>3
<1>1. CASE startForward
  <2>1. spent.start + 1 \in Fwds
    BY <1>1, FwdBounds DEF startForward, Fwds, FwdTypes, FwdSpent
  <2>2. AskEngine("start", spent.start + 1) /\ UNCHANGED <<untold, wired, answers, starting, forwards, held, inbox>>
    BY <1>1 DEF startForward, manager
  <2>3. promises \subseteq promises' /\ \A i \in DOMAIN outbox : i \in DOMAIN outbox' /\ outbox'[i] = outbox[i]
    BY <1>d, <2>1, <2>2 DEF Whats
  <2>4. WordToCome => WordToCome'
    BY <2>2, <2>3 DEF WordToCome
  <2>5. LastWord => LastWord'
    BY <2>2, <2>3 DEF LastWord
  <2> QED
    BY <1>a, <2>2, <2>4, <2>5
<1>2. CASE stopForward
  <2>1. PICK f \in Fwds : AskEngine("stop", f)
    BY <1>2 DEF stopForward, FwdTypes
  <2>2. \E l \in DOMAIN outbox' : outbox'[l].id[1] # "start"
    BY <1>d, <2>1 DEF Whats
  <2> QED
    BY <1>b, <2>2 DEF WordToCome
<1>3. CASE ReadLoop
  <2>1. PICK m \in FwdAsked :
           /\ m = outbox[1] /\ outbox # <<>> /\ outbox' = Tail(outbox) /\ m.id \in Ticket
           /\ UNCHANGED <<inbox, promises, forwards, wired, untold>>
           /\ \/ /\ m.id[1] = "start" /\ m.of \in Fwds /\ starting[m.of] = "not"
                 /\ starting' = [starting EXCEPT ![m.of] = "dialing"] /\ UNCHANGED <<answers, held, stopped>>
              \/ m.of \in Fwds /\ StopListed(m.of) /\ Says(m.id, held', TRUE)
              \/ Says(m.id, held, TRUE)
    BY <1>3, ReadLoopIs
  <2>2. CASE /\ m.id[1] = "start" /\ m.of \in Fwds /\ starting[m.of] = "not"
             /\ starting' = [starting EXCEPT ![m.of] = "dialing"] /\ UNCHANGED <<answers, held, stopped>>
    <3>1. LastWord => LastWord'
      BY <2>1, <2>2 DEF LastWord
    <3>2. \A f \in Fwds : starting[f] = "listing" => starting'[f] = "listing"
      BY <1>0, <2>2
    <3>3. ASSUME NEW i \in DOMAIN outbox, outbox[i].id[1] # "start" PROVE \E j \in DOMAIN outbox' : outbox'[j].id[1] # "start"
      <4>1. i # 1
        BY <2>1, <2>2, <3>3
      <4>2. i - 1 \in DOMAIN outbox' /\ outbox'[i - 1] = outbox[i]
        BY <1>0, <2>1, <3>3, <4>1
      <4> QED
        BY <3>3, <4>2
    <3>4. WordToCome => WordToCome'
      BY <2>1, <2>2, <3>2, <3>3 DEF WordToCome
    <3> QED
      BY <1>a, <2>1, <3>1, <3>4
  <2>3. CASE (m.of \in Fwds /\ StopListed(m.of) /\ Says(m.id, held', TRUE)) \/ Says(m.id, held, TRUE)
    <3>1. answers' # {}
      BY <2>3 DEF Says
    <3> QED
      BY <1>b, <3>1 DEF WordToCome
  <2> QED
    BY <2>1, <2>2, <2>3
<1>4. CASE TakeReply
  <2>1. /\ inbox # <<>> /\ 1 \in DOMAIN inbox /\ inbox' = Tail(inbox)
        /\ UNCHANGED <<held, starting, answers, wired, untold>>
    BY <1>4, TakeReplyIs
  <2>2. CASE inbox[1] = Greeting
    <3>1. AskEngine("list", 0)
      BY <1>4, <2>2, TakeReplyIs
    <3>2. \E l \in DOMAIN outbox' : outbox'[l].id[1] # "start"
      BY <1>d, <3>1 DEF Whats
    <3> QED
      BY <1>b, <3>2 DEF WordToCome
  <2>3. CASE inbox[1] # Greeting
    <3>1. /\ promises' = promises \ {inbox[1].to} /\ UNCHANGED outbox
          /\ forwards' = IF inbox[1].to \in promises THEN inbox[1].list ELSE forwards
      BY <1>4, <2>3, TakeReplyIs
    <3>2. WordToCome => WordToCome'
      BY <2>1, <3>1 DEF WordToCome
    <3>3. ASSUME LastWord PROVE LastWord'
      <4>1. CASE inbox' = <<>>
        <5>1. inbox[Len(inbox)] = inbox[1]
          BY <1>0, <2>1, <4>1, FwdTail
        <5>2. inbox[1].list = held /\ inbox[1].to \in promises
          BY <2>1, <2>3, <3>3, <5>1 DEF LastWord
        <5> QED
          BY <2>1, <3>1, <4>1, <5>2 DEF LastWord
      <4>2. CASE inbox' # <<>>
        <5>1. inbox'[Len(inbox')] = inbox[Len(inbox)] /\ Len(inbox) \in DOMAIN inbox /\ Len(inbox) # 1
          BY <1>0, <2>1, <4>2, FwdTail
        <5>2. inbox[Len(inbox)].to # inbox[1].to
          BY <2>1, <5>1 DEF RepliedInv
        <5> QED
          BY <2>1, <3>1, <3>3, <4>2, <5>1, <5>2 DEF LastWord
      <4> QED
        BY <4>1, <4>2
    <3> QED
      BY <1>a, <2>1, <3>2, <3>3
  <2> QED
    BY <2>2, <2>3
<1>5. CASE LinkLost
  BY <1>5, <1>b DEF LinkLost, WordToCome
<1>6. CASE LinkRefused
  BY <1>6, <1>b DEF LinkRefused, WordToCome
<1>7. CASE LinkBack
  <2>1. inbox' = <<Greeting>>
    BY <1>7 DEF LinkBack
  <2>2. inbox' # <<>> /\ inbox'[Len(inbox')] = Greeting
    BY <2>1
  <2> QED
    BY <2>2 DEF WordInv, LastWord
<1>8. ASSUME NEW f \in Fwds, ForwardPorts(f) PROVE WordInv'
  BY <1>8, <1>c DEF ForwardPorts, windowSide
<1>9. ASSUME NEW f \in Fwds, StartFails(f) \/ StartCut(f) PROVE WordInv'
  <2>1. UNCHANGED <<untold, wired, answers, outbox, forwards, held, inbox, promises>>
    BY <1>9 DEF StartFails, StartCut, windowSide
  <2>2. \A g \in Fwds : starting[g] = "listing" => starting'[g] = "listing"
    BY <1>0, <1>9 DEF StartFails, StartCut
  <2>3. WordToCome => WordToCome'
    BY <2>1, <2>2 DEF WordToCome
  <2>4. LastWord => LastWord'
    BY <2>1 DEF LastWord
  <2> QED
    BY <1>a, <2>1, <2>3, <2>4
<1>10. ASSUME NEW f \in Fwds, StartReady(f) PROVE WordInv'
  <2>1. CASE Answerable(f)
    <3>1. starting'[f] = "listing"
      BY <1>0, <1>10, <2>1 DEF StartReady
    <3> QED
      BY <1>b, <3>1 DEF WordToCome
  <2>2. CASE ~ Answerable(f)
    BY <1>10, <2>2 DEF StartReady, WordInv
  <2> QED
    BY <2>1, <2>2
<1>11. ASSUME NEW f \in Fwds, StartLists(f) PROVE WordInv'
  <2>1. answers' # {}
    BY <1>11 DEF StartLists, Says
  <2> QED
    BY <1>b, <2>1 DEF WordToCome
<1>12. ASSUME NEW f \in Fwds, OtherStops(f) PROVE WordInv'
  BY <1>12 DEF OtherStops, WordInv
<1>13. ASSUME NEW a \in answers, SendAnswer(a) PROVE WordInv'
  <2>1. /\ a[1] \in FwdReply /\ inbox' = Append(inbox, a[1])
        /\ untold' = (a[1].list # held \/ a[1].to \notin promises)
        /\ UNCHANGED <<held, promises>>
    BY <1>13, SendAnswerIs
  <2>2. inbox' # <<>> /\ inbox'[Len(inbox')] = a[1]
    BY <1>0, <2>1, FwdAdd
  <2>3. CASE a[1].list # held \/ a[1].to \notin promises
    BY <2>1, <2>3 DEF WordInv
  <2>4. CASE a[1].list = held /\ a[1].to \in promises
    BY <2>1, <2>2, <2>4 DEF WordInv, LastWord
  <2> QED
    BY <2>3, <2>4
<1>14. CASE UNCHANGED forwarding
  BY <1>14, <1>c DEF forwarding, manager, windowSide
<1> QED
  BY <1>1, <1>2, <1>3, <1>4, <1>5, <1>6, <1>7, <1>8, <1>9, <1>10, <1>11, <1>12, <1>13, <1>14 DEF ForwardsNext

LEMMA ForwardsStep == ForwardsInv /\ [ForwardsNext]_forwarding => ForwardsInv'
<1> SUFFICES ASSUME ForwardsInv, [ForwardsNext]_forwarding PROVE ForwardsInv'
  OBVIOUS
<1>1. FwdTypes /\ GreetInv /\ TunnelInv /\ RequestedInv /\ RepliedInv /\ WordInv
  BY DEF ForwardsInv
<1>2. FwdTypes'
  BY <1>1, FwdTypesStep
<1>3. TunnelInv'
  BY <1>1, TunnelStep
<1>4. GreetInv'
  BY <1>1, GreetStep
<1>5. RequestedInv' /\ RepliedInv'
  BY <1>1, <1>2, TicketsStep
<1>6. WordInv'
  BY <1>1, WordStep
<1> QED
  BY <1>2, <1>3, <1>4, <1>5, <1>6 DEF ForwardsInv

LEMMA ForwardsStart == ForwardsInit => ForwardsInv
<1> SUFFICES ASSUME ForwardsInit PROVE ForwardsInv
  OBVIOUS
<1>1. outbox \in Seq(FwdAsked) /\ DOMAIN outbox = {} /\ outbox = <<>>
  BY DEF ForwardsInit
<1>2. inbox = <<Greeting>> /\ inbox # <<>> /\ inbox[1] = Greeting /\ inbox[Len(inbox)] = Greeting /\ DOMAIN inbox = {1}
  BY DEF ForwardsInit
<1>3. inbox \in Seq(FwdReply)
  <2>1. <<Greeting>> \in Seq(FwdReply)
    BY GreetingIs
  <2> QED
    BY <1>2, <2>1
<1>4. spent \in FwdSpent /\ spent.start = 0 /\ spent.stop = 0 /\ spent.list = 0 /\ spent.drops = 0
  BY DEF ForwardsInit, FwdSpent
<1>5. FwdTypes
  <2>1. held = {} /\ answers = {} /\ promises = {} /\ forwards = {} /\ wired = TRUE /\ untold = FALSE
    BY DEF ForwardsInit
  <2>2. /\ starting \in [Fwds -> {"not", "dialing", "cut", "listing", "returned"}]
        /\ tunnel \in [Fwds -> {"none", "open", "ended"}] /\ stopped \in [Fwds -> Nat]
    BY DEF ForwardsInit
  <2>3. spent.start <= MaxForwards /\ spent.stop <= MaxStops /\ spent.drops <= MaxDrops
    BY <1>4, FwdBounds
  <2> QED
    BY <1>1, <1>3, <1>4, <2>1, <2>2, <2>3 DEF FwdTypes
<1>6. GreetInv
  <2>1. GreetingsDue \in {0, 1}
    BY DEF GreetingsDue
  <2> QED
    BY <1>4, <2>1 DEF GreetInv
<1>7. TunnelInv
  <2> SUFFICES ASSUME NEW f \in Fwds PROVE TunnelFits(f)
    BY DEF TunnelInv
  <2>1. starting[f] = "not" /\ tunnel[f] = "none" /\ stopped[f] = 0 /\ held = {}
    BY DEF ForwardsInit
  <2> QED
    BY <2>1 DEF TunnelFits
<1>8. RequestedInv
  BY <1>1 DEF RequestedInv
<1>9. RepliedInv
  <2>1. answers = {} /\ \A f \in Fwds : starting[f] = "not"
    BY DEF ForwardsInit
  <2> QED
    BY <1>2, <2>1 DEF RepliedInv
<1>10. WordInv
  BY <1>2 DEF WordInv, LastWord
<1> QED
  BY <1>5, <1>6, <1>7, <1>8, <1>9, <1>10 DEF ForwardsInv

LEMMA ForwardsFit == ForwardsInv => ForwardsTypeOK /\ ForwardsHeld
<1> SUFFICES ASSUME ForwardsInv PROVE ForwardsTypeOK /\ ForwardsHeld
  OBVIOUS
<1>1. FwdTypes /\ GreetInv /\ TunnelInv /\ WordInv
  BY DEF ForwardsInv
<1>2. ForwardsTypeOK
  <2>1. /\ {held, forwards} \subseteq SUBSET Fwds
        /\ starting \in [Fwds -> {"not", "dialing", "cut", "listing", "returned"}]
        /\ tunnel \in [Fwds -> {"none", "open", "ended"}] /\ stopped \in [Fwds -> Nat]
        /\ promises \subseteq Ticket
    BY <1>1 DEF FwdTypes
  <2>2. {wired, untold} \subseteq BOOLEAN
    BY <1>1 DEF FwdTypes
  <2>3. \A a \in answers : a[1].to \in Ticket /\ a[1].list \subseteq Fwds /\ a[2] \in BOOLEAN
    BY <1>1, AnswerIs
  <2>4. \A i \in DOMAIN outbox : outbox[i].id \in Ticket /\ outbox[i].of \in {0} \cup Fwds
    <3>1. \A i \in DOMAIN outbox : outbox[i] \in FwdAsked
      BY <1>1, QueueTickets
    <3> QED
      BY <3>1 DEF FwdAsked
  <2>5. \A i \in DOMAIN inbox : inbox[i].to \in Ticket /\ inbox[i].list \subseteq Fwds
    <3>1. \A i \in DOMAIN inbox : inbox[i] \in FwdReply
      BY <1>1, QueueTickets
    <3> QED
      BY <3>1 DEF FwdReply
  <2>6. spent \in [start : 0 .. MaxForwards, stop : 0 .. MaxStops, list : 0 .. MaxDrops + 1, drops : 0 .. MaxDrops]
    <3>1. /\ spent \in FwdSpent /\ spent.start <= MaxForwards /\ spent.stop <= MaxStops /\ spent.drops <= MaxDrops
          /\ spent.list + GreetingsDue <= spent.drops + 1 /\ GreetingsDue \in {0, 1}
      BY <1>1 DEF FwdTypes, GreetInv, GreetingsDue
    <3>2. spent.start \in Nat /\ spent.stop \in Nat /\ spent.list \in Nat /\ spent.drops \in Nat
      BY <3>1 DEF FwdSpent
    <3>3. spent.list <= MaxDrops + 1
      BY <3>1, <3>2, FwdBounds
    <3>4. spent.start \in 0 .. MaxForwards /\ spent.stop \in 0 .. MaxStops /\ spent.list \in 0 .. MaxDrops + 1 /\ spent.drops \in 0 .. MaxDrops
      BY <3>1, <3>2, <3>3, FwdBounds
    <3> QED
      BY <3>1, <3>4 DEF FwdSpent
  <2> QED
    BY <2>1, <2>2, <2>3, <2>4, <2>5, <2>6 DEF ForwardsTypeOK
<1>3. \A f \in Fwds : /\ stopped[f] <= 1
                      /\ (tunnel[f] = "open" /\ stopped[f] = 0) => f \in held \/ starting[f] \in {"dialing", "cut"}
                      /\ f \in held => tunnel[f] \in {"open", "ended"} /\ stopped[f] = 0
  BY <1>1 DEF TunnelInv, TunnelFits
<1>4. ASSUME ForwardsQuiet, ~ untold PROVE forwards = held
  <2>1. ~ WordToCome
    <3>1. outbox = <<>> /\ DOMAIN outbox = {}
      BY <1>4 DEF ForwardsQuiet
    <3> QED
      BY <1>4, <3>1 DEF ForwardsQuiet, WordToCome
  <2> QED
    BY <1>1, <1>4, <2>1 DEF WordInv, LastWord, ForwardsQuiet
<1> QED
  BY <1>2, <1>3, <1>4 DEF ForwardsHeld

\* Whatever order starts, stops, answers and lost links come in: the state of the forwards has its
\* type, no stop channel is closed twice and no listener is left where nobody can stop it.  When
\* nothing is on the way the window shows the list, unless the last word on a change went to
\* nobody, or an older list was sent after a newer.
THEOREM ForwardsCorrect == ForwardsSpec => []ForwardsTypeOK /\ []ForwardsHeld
<1>1. ForwardsSpec => []ForwardsInv
  BY ForwardsStart, ForwardsStep, PTL DEF ForwardsSpec
<1> QED
  BY <1>1, ForwardsFit, PTL

-----------------------------------------------------------------------------
(***************************************************************************)
(* Proofs about DriftCapture, for any objects, files, branches, windows    *)
(* and acts of the person.                                                 *)
(*                                                                         *)
(* A path has one file in every tree and in the working tree over the one  *)
(* checked out (ApartInv): a capture writes only paths that are free, and  *)
(* what may be staged is what a checkout does not write over.  Of a        *)
(* capture nobody came between, CallInv says where it stands: every other  *)
(* window is idle, the index is empty until the capture has added to it    *)
(* and then holds its own files, and the branch it is on holds what it was *)
(* made from until it commits.                                             *)
(***************************************************************************)
Call == [at : Points, branch : Refs, start : Refs, batch : Batches \cup {<<>>}, written : Nat,
         base : SUBSET Files, made : BOOLEAN, alone : BOOLEAN]

CallsTyped == call \in [Windows -> Call] /\ \A w \in Windows : call[w].written <= Len(call[w].batch)

RepoTyped == /\ head \in Refs /\ tree \in [Refs -> {NoTree} \cup SUBSET Files] /\ tree[head] # NoTree
             /\ work \subseteq Files /\ staged \subseteq work

Apart(fs) == \A f, g \in fs : f.path = g.path => f = g
ApartInv  == Apart(tree[head] \cup work) /\ \A r \in Refs : tree[r] # NoTree => Apart(tree[r])

OwnOf(c)    == {FileOf(c.batch[i]) : i \in DOMAIN c.batch}
OnBranch(c) == c.at \in {"writing", "committing", "restoring", "done"}

\* A capture c of window w that nobody came between.
AloneInv(w, c) ==
    /\ \A u \in Windows \ {w} : call[u] = Idle0
    /\ c.at \in {"clean", "started", "writing"} => staged = {}
    /\ c.at \in {"clean", "started"} => ~ c.made /\ c.written = 0
    /\ c.at # "clean" => tree[c.start] = c.base
    /\ c.at = "started" => head = c.start
    /\ OnBranch(c) => c.made /\ head = c.branch /\ c.branch # c.start
    /\ c.made => tree[c.branch] = c.base \/ tree[c.branch] = c.base \cup OwnOf(c)
    /\ c.at \in {"writing", "committing"} => tree[c.branch] = c.base /\ FilesOf(c) \subseteq work
    /\ c.at = "committing" => staged = OwnOf(c)
    /\ c.at = "done" => tree[c.branch] = c.base \cup OwnOf(c)
    /\ c.at = "failed" => head = c.start \/ (c.start = Detached /\ head = c.branch)

CallInv(w) == /\ call[w].at = "idle" => call[w] = Idle0
              /\ call[w].alone /\ call[w].at # "idle" => AloneInv(w, call[w])

CaptureInv == RepoTyped /\ acts \in 0 .. MaxActs /\ CallsTyped /\ ApartInv /\ \A w \in Windows : CallInv(w)

-----------------------------------------------------------------------------

LEMMA IdleCall == Idle0 \in Call /\ Idle0.written <= Len(Idle0.batch) /\ Idle0.at = "idle"
  BY DEF Idle0, Call, Points, Refs, Files

LEMMA CallFacts ==
    ASSUME NEW c \in Call
    PROVE  /\ c.batch \in Seq(LiveObjects) /\ DOMAIN c.batch = 1 .. Len(c.batch) /\ Len(c.batch) \in Nat
           /\ c.written \in Nat /\ c.branch \in Refs /\ c.start \in Refs /\ c.at \in Points
           /\ c.base \subseteq Files /\ c.made \in BOOLEAN /\ c.alone \in BOOLEAN
           /\ \A i \in DOMAIN c.batch : c.batch[i] \in LiveObjects
           /\ OwnOf(c) \subseteq Files
           /\ c.written <= Len(c.batch) => FilesOf(c) \subseteq OwnOf(c)
           /\ c.written = Len(c.batch) => FilesOf(c) = OwnOf(c)
<1>1. c.batch \in Seq(LiveObjects)
  <2>1. c.batch \in Batches \cup {<<>>}
    BY DEF Call
  <2>2. \A b \in Batches : b \in Seq(LiveObjects)
    BY CaptureAssumption
  <2>3. <<>> \in Seq(LiveObjects)
    OBVIOUS
  <2> QED
    BY <2>1, <2>2, <2>3, Zenon
<1>2. DOMAIN c.batch = 1 .. Len(c.batch) /\ Len(c.batch) \in Nat /\ \A i \in DOMAIN c.batch : c.batch[i] \in LiveObjects
  BY <1>1
<1>3. /\ c.written \in Nat /\ c.branch \in Refs /\ c.start \in Refs /\ c.at \in Points
      /\ c.base \subseteq Files /\ c.made \in BOOLEAN /\ c.alone \in BOOLEAN
  BY DEF Call
<1>4. \A o \in LiveObjects : FileOf(o) \in Files
  BY CaptureAssumption DEF FileOf, Files
<1>5. OwnOf(c) \subseteq Files
  BY <1>2, <1>4 DEF OwnOf
<1>6. c.written <= Len(c.batch) => 1 .. c.written \subseteq DOMAIN c.batch
  BY <1>2, <1>3
<1>7. c.written <= Len(c.batch) => FilesOf(c) \subseteq OwnOf(c)
  BY <1>6 DEF FilesOf, OwnOf
<1>8. c.written = Len(c.batch) => FilesOf(c) = OwnOf(c)
  BY <1>2 DEF FilesOf, OwnOf
<1> QED
  BY <1>1, <1>2, <1>3, <1>5, <1>7, <1>8

\* A window whose call is idle, or crossed, has nothing to keep.
LEMMA IdleFits == ASSUME NEW w, call'[w] = Idle0 PROVE CallInv(w)'
  BY IdleCall DEF CallInv

LEMMA CrossedFits == ASSUME NEW w, ~ call'[w].alone, call'[w].at # "idle" PROVE CallInv(w)'
  BY DEF CallInv

\* A step of one window: what the others keep, and the three ways a step can leave its own call.
StepOf(w) == CallsTyped' /\ \A u \in Windows \ {w} : call'[u] = call[u]
Same(c, d) == /\ c.branch = d.branch /\ c.start = d.start /\ c.batch = d.batch /\ c.written = d.written
              /\ c.base = d.base /\ c.made = d.made /\ c.alone = d.alone

LEMMA GoesTo ==
    ASSUME CallsTyped, NEW w \in Windows, NEW at \in Points, Goes(w, at)
    PROVE  StepOf(w) /\ call'[w].at = at /\ Same(call'[w], call[w])
<1> DEFINE r == [call[w] EXCEPT !.at = at]
<1>1. call' = [call EXCEPT ![w] = r]
  BY DEF Goes
<1>2. r \in Call /\ r.at = at /\ Same(r, call[w])
  BY DEF CallsTyped, Call, Same
<1>3. r.written <= Len(r.batch)
  BY <1>2 DEF CallsTyped, Same
<1> HIDE DEF r
<1> QED
  BY <1>1, <1>2, <1>3 DEF CallsTyped, StepOf

LEMMA Forgotten ==
    ASSUME CallsTyped, NEW w \in Windows, Forget(w)
    PROVE  StepOf(w) /\ call'[w] = Idle0
  BY IdleCall DEF CallsTyped, StepOf, Forget

LEMMA CaptureEnded ==
    ASSUME CallsTyped, NEW w \in Windows, NEW at \in Points, End(w, at)
    PROVE  /\ StepOf(w)
           /\ \/ call[w].alone /\ call'[w].at = at /\ Same(call'[w], call[w])
              \/ ~ call[w].alone /\ call'[w] = Idle0
<1>1. CASE call[w].alone
  <2>1. Goes(w, at)
    BY <1>1 DEF End, Goes, CallsTyped
  <2> QED
    BY <1>1, <2>1, GoesTo
<1>2. CASE ~ call[w].alone
  <2>1. Forget(w)
    BY <1>2 DEF End, Forget, CallsTyped
  <2> QED
    BY <1>2, <2>1, Forgotten
<1> QED
  BY <1>1, <1>2

\* Only one capture at a time is alone: the steps of one under way disturb no other.
LEMMA OthersFit ==
    ASSUME CaptureInv, NEW w \in Windows, UnderWay(w), StepOf(w), NEW u \in Windows \ {w}
    PROVE  CallInv(u)'
<1>1. call[w] # Idle0
  BY IdleCall DEF UnderWay
<1>2. CallInv(u) /\ call'[u] = call[u]
  BY DEF CaptureInv, StepOf
<1>3. ~ (call[u].alone /\ call[u].at # "idle")
  BY <1>1, <1>2 DEF CallInv, AloneInv
<1> QED
  BY <1>2, <1>3 DEF CallInv

\* So a step of a window is right when it keeps the repository and its own capture, if alone.
LEMMA StepSuffices ==
    ASSUME CaptureInv, NEW w \in Windows, UnderWay(w), StepOf(w), UNCHANGED acts, RepoTyped', ApartInv',
           call'[w] = Idle0 \/ call'[w].at # "idle",
           call'[w].alone /\ call'[w].at # "idle" /\ (\A u \in Windows \ {w} : call[u] = Idle0)
               => AloneInv(w, call[w])',
           call'[w].at # "idle" => (call'[w].alone <=> call[w].alone)
    PROVE  CaptureInv'
<1>1. CallsTyped' /\ (acts \in 0 .. MaxActs)'
  BY DEF CaptureInv, StepOf
<1>2. \A u \in Windows \ {w} : CallInv(u)'
  BY OthersFit
<1>3. CallInv(w)'
  <2>1. CASE call'[w] = Idle0
    BY <2>1, IdleFits
  <2>2. CASE call'[w].at # "idle" /\ ~ call'[w].alone
    BY <2>2, CrossedFits
  <2>3. CASE call'[w].at # "idle" /\ call'[w].alone
    <3>1. call[w].alone /\ call[w].at # "idle"
      BY <2>3 DEF UnderWay
    <3>2. \A u \in Windows \ {w} : call[u] = Idle0
      BY <3>1 DEF CaptureInv, CallInv, AloneInv
    <3> QED
      BY <2>3, <3>2 DEF CallInv
  <2> QED
    BY <2>1, <2>2, <2>3
<1> QED
  BY <1>1, <1>2, <1>3 DEF CaptureInv

-----------------------------------------------------------------------------

LEMMA RepoStays ==
    ASSUME RepoTyped, ApartInv, UNCHANGED <<head, tree, work>>, staged' \subseteq work
    PROVE  RepoTyped' /\ ApartInv'
  BY DEF RepoTyped, ApartInv

LEMMA BeginKeeps == ASSUME CaptureInv, NEW w \in Windows, Begin(w) PROVE CaptureInv'
<1>1. PICK b \in CaptureBranches, os \in Batches :
          call' = [v \in Windows |->
              IF v = w THEN [Idle0 EXCEPT !.at = "clean", !.branch = b, !.batch = os,
                                          !.alone = \A u \in Windows \ {w} : ~ UnderWay(u)]
              ELSE IF UnderWay(v) THEN Crossed(call[v]) ELSE Idle0]
  BY DEF Begin
<1> DEFINE lone == \A u \in Windows \ {w} : ~ UnderWay(u)
           r == [Idle0 EXCEPT !.at = "clean", !.branch = b, !.batch = os, !.alone = lone]
<1>2. lone \in BOOLEAN
  OBVIOUS
<1>3. /\ r \in Call /\ r.written = 0 /\ r.at = "clean" /\ r.made = FALSE /\ r.batch = os
      /\ r.alone = lone
  <2> HIDE DEF lone
  <2> QED
    BY <1>2 DEF Idle0, Call, Points, Refs, Files
<1>4. call' = [v \in Windows |-> IF v = w THEN r ELSE IF UnderWay(v) THEN Crossed(call[v]) ELSE Idle0]
  BY <1>1
<1>5. r.alone => lone
  <2> HIDE DEF lone, r
  <2> QED
    BY <1>3, Zenon
<1> HIDE DEF r
<1>6. \A v \in Windows : /\ Crossed(call[v]) \in Call /\ Crossed(call[v]).alone = FALSE
                         /\ Crossed(call[v]).at = call[v].at /\ Crossed(call[v]).batch = call[v].batch
                         /\ Crossed(call[v]).written = call[v].written
  <2> SUFFICES ASSUME NEW v \in Windows
               PROVE  /\ Crossed(call[v]) \in Call /\ Crossed(call[v]).alone = FALSE
                      /\ Crossed(call[v]).at = call[v].at /\ Crossed(call[v]).batch = call[v].batch
                      /\ Crossed(call[v]).written = call[v].written
    OBVIOUS
  <2>1. call[v] \in Call
    BY DEF CaptureInv, CallsTyped
  <2> QED
    BY <2>1 DEF Crossed, Call
<1>7. Len(os) \in Nat
  BY CaptureAssumption
<1>8. CallsTyped'
  BY <1>3, <1>4, <1>6, <1>7, IdleCall DEF CaptureInv, CallsTyped
<1>9. ~ Dirty /\ UNCHANGED <<head, tree, work, staged, acts>>
  BY DEF Begin
<1>10. staged = {}
  BY <1>9 DEF Dirty, Seen, CaptureInv, RepoTyped
<1>11. CallInv(w)'
  <2>1. call'[w] = r
    BY <1>4
  <2>2. lone => \A u \in Windows \ {w} : call'[u] = Idle0
    BY <1>4
  <2> HIDE DEF lone
  <2>3. \A i \in 1 .. 0 : FALSE
    OBVIOUS
  <2> QED
    BY <1>3, <1>5, <1>9, <1>10, <2>1, <2>2 DEF CallInv, AloneInv, OnBranch
<1>12. \A v \in Windows \ {w} : CallInv(v)'
  <2> SUFFICES ASSUME NEW v \in Windows \ {w} PROVE CallInv(v)'
    OBVIOUS
  <2>1. CASE UnderWay(v)
    BY <1>4, <1>6, <2>1, CrossedFits DEF UnderWay
  <2>2. CASE ~ UnderWay(v)
    BY <1>4, <2>2, IdleFits
  <2> QED
    BY <2>1, <2>2
<1> QED
  BY <1>8, <1>9, <1>11, <1>12, RepoStays DEF CaptureInv, RepoTyped, ApartInv

LEMMA ReadBranchKeeps == ASSUME CaptureInv, NEW w \in Windows, ReadBranch(w) PROVE CaptureInv'
<1>1. call[w].at = "clean" /\ UNCHANGED <<head, tree, work, staged, acts>> /\ UnderWay(w)
  BY DEF ReadBranch, UnderWay
<1>2. RepoTyped' /\ ApartInv'
  BY <1>1, RepoStays DEF CaptureInv, RepoTyped
<1>3. CASE Forget(w)
  <2>1. StepOf(w) /\ call'[w] = Idle0
    BY <1>3, Forgotten DEF CaptureInv
  <2> QED
    BY <1>1, <1>2, <2>1, IdleCall, StepSuffices
<1>4. CASE call' = [call EXCEPT ![w].at = "started", ![w].start = head,
                                ![w].base = IF call[w].alone THEN tree[head] ELSE {}]
  <2> DEFINE base == IF call[w].alone THEN tree[head] ELSE {}
             r == [call[w] EXCEPT !.at = "started", !.start = head, !.base = base]
  <2>1. call' = [call EXCEPT ![w] = r]
    BY <1>4 DEF CaptureInv, CallsTyped
  <2>2. base \subseteq Files
    BY DEF CaptureInv, RepoTyped
  <2>3. call[w].alone => base = tree[head]
    OBVIOUS
  <2> HIDE DEF base
  <2>4. /\ r \in Call /\ r.at = "started" /\ r.start = head /\ r.base = base /\ r.made = call[w].made
        /\ r.alone = call[w].alone /\ r.written = call[w].written /\ r.batch = call[w].batch
        /\ r.branch = call[w].branch
    BY <2>2 DEF CaptureInv, CallsTyped, RepoTyped, Call, Points
  <2> HIDE DEF r
  <2>5. StepOf(w) /\ call'[w] = r
    BY <2>1, <2>4 DEF CaptureInv, CallsTyped, StepOf
  <2>6. ASSUME call[w].alone, \A u \in Windows \ {w} : call[u] = Idle0
        PROVE  AloneInv(w, call[w])'
    <3>1. AloneInv(w, call[w])
      BY <1>1, <2>6 DEF CaptureInv, CallInv
    <3>2. \A u \in Windows \ {w} : call'[u] = Idle0
      BY <2>5, <2>6 DEF StepOf
    <3> QED
      BY <1>1, <2>3, <2>4, <2>5, <2>6, <3>1, <3>2 DEF AloneInv, OnBranch
  <2> QED
    BY <1>1, <1>2, <2>4, <2>5, <2>6, StepSuffices
<1> QED
  BY <1>3, <1>4 DEF ReadBranch

\* checkout -b: the new ref holds what was checked out, and is checked out.
LEMMA BranchedFacts ==
    ASSUME RepoTyped, ApartInv, NEW w, call[w].branch \in Refs, tree[call[w].branch] = NoTree,
           Branched(w), UNCHANGED <<work, staged>>
    PROVE  /\ RepoTyped' /\ ApartInv' /\ head' = call[w].branch /\ tree'[call[w].branch] = tree[head]
           /\ \A r \in Refs : tree[r] # NoTree => r # call[w].branch /\ tree'[r] = tree[r]
<1>1. /\ head' = call[w].branch /\ tree' \in [Refs -> {NoTree} \cup SUBSET Files]
      /\ tree'[call[w].branch] = tree[head]
      /\ \A r \in Refs : r # call[w].branch => tree'[r] = tree[r]
  BY DEF Branched, RepoTyped
<1> QED
  BY <1>1 DEF RepoTyped, ApartInv

LEMMA NewBranchKeeps == ASSUME CaptureInv, NEW w \in Windows, NewBranch(w) PROVE CaptureInv'
<1>1. call[w].at = "started" /\ UNCHANGED <<work, staged, acts>> /\ UnderWay(w) /\ call[w].branch \in Refs /\ call[w] \in Call
  BY CallFacts DEF NewBranch, UnderWay, CaptureInv, CallsTyped
<1>2. CASE Forget(w) /\ tree[call[w].branch] = NoTree /\ Branched(w)
  <2>1. StepOf(w) /\ call'[w] = Idle0
    BY <1>2, Forgotten DEF CaptureInv
  <2>2. RepoTyped' /\ ApartInv'
    BY <1>1, <1>2, BranchedFacts DEF CaptureInv
  <2> QED
    BY <1>1, <2>1, <2>2, IdleCall, StepSuffices
<1>3. CASE /\ tree[call[w].branch] = NoTree /\ Branched(w)
           /\ call' = [call EXCEPT ![w].at = "writing", ![w].made = call[w].alone]
  <2> DEFINE r == [call[w] EXCEPT !.at = "writing", !.made = call[w].alone]
  <2>1. call' = [call EXCEPT ![w] = r]
    BY <1>3 DEF CaptureInv, CallsTyped
  <2>2. call[w].alone \in BOOLEAN
    BY <1>1, CallFacts
  <2>3. /\ r \in Call /\ r.at = "writing" /\ r.start = call[w].start /\ r.base = call[w].base
        /\ r.made = call[w].alone /\ r.alone = call[w].alone
        /\ r.written = call[w].written /\ r.batch = call[w].batch /\ r.branch = call[w].branch
    BY <1>1, <2>2 DEF Call, Points
  <2> HIDE DEF r
  <2>4. StepOf(w) /\ call'[w] = r
    BY <2>1, <2>3 DEF CaptureInv, CallsTyped, StepOf
  <2>5. /\ RepoTyped' /\ ApartInv' /\ head' = call[w].branch /\ tree'[call[w].branch] = tree[head]
        /\ \A r1 \in Refs : tree[r1] # NoTree => r1 # call[w].branch /\ tree'[r1] = tree[r1]
    BY <1>1, <1>3, BranchedFacts DEF CaptureInv
  <2>6. ASSUME call[w].alone, \A u \in Windows \ {w} : call[u] = Idle0
        PROVE  AloneInv(w, call[w])'
    <3>1. AloneInv(w, call[w])
      BY <1>1, <2>6 DEF CaptureInv, CallInv
    <3>2. \A u \in Windows \ {w} : call'[u] = Idle0
      BY <2>4, <2>6 DEF StepOf
    <3>3. head = call[w].start /\ tree[head] = call[w].base /\ head \in Refs /\ tree[head] # NoTree
      BY <1>1, <3>1 DEF AloneInv, CaptureInv, RepoTyped
    <3>4. FilesOf(r) = {}
      BY <1>1, <2>3, <3>1 DEF AloneInv, FilesOf
    <3>5. staged' = {}
      BY <1>1, <3>1 DEF AloneInv
    <3> QED
      BY <2>3, <2>4, <2>5, <2>6, <3>2, <3>3, <3>4, <3>5 DEF AloneInv, OnBranch
  <2> QED
    BY <1>1, <2>3, <2>4, <2>5, <2>6, StepSuffices
<1>4. CASE End(w, "failed") /\ UNCHANGED <<head, tree>>
  <2>0. "failed" \in Points
    BY DEF Points
  <2>1. /\ StepOf(w)
        /\ \/ call[w].alone /\ call'[w].at = "failed" /\ Same(call'[w], call[w])
           \/ ~ call[w].alone /\ call'[w] = Idle0
    BY <1>4, <2>0, CaptureEnded DEF CaptureInv
  <2>2. RepoTyped' /\ ApartInv'
    BY <1>1, <1>4, RepoStays DEF CaptureInv, RepoTyped
  <2>3. ASSUME call[w].alone, call'[w].at = "failed", Same(call'[w], call[w]), \A u \in Windows \ {w} : call[u] = Idle0
        PROVE  AloneInv(w, call[w])'
    <3>1. AloneInv(w, call[w])
      BY <1>1, <2>3 DEF CaptureInv, CallInv
    <3>2. \A u \in Windows \ {w} : call'[u] = Idle0
      BY <2>1, <2>3 DEF StepOf
    <3> QED
      BY <1>1, <1>4, <2>3, <3>1, <3>2 DEF AloneInv, OnBranch, Same
  <2> QED
    BY <1>1, <2>1, <2>2, <2>3, IdleCall, StepSuffices DEF Same
<1> QED
  BY <1>2, <1>3, <1>4 DEF NewBranch

-----------------------------------------------------------------------------

LEMMA FileFacts == (\A o \in LiveObjects : FileOf(o) \in Files /\ FileOf(o).path = FileNameFor[o]) /\ NoTree \notin SUBSET Files
  BY CaptureAssumption DEF FileOf, Files

LEMMA PutKeeps ==
    ASSUME RepoTyped, ApartInv, NEW o \in LiveObjects, Put(o), UNCHANGED <<head, tree, staged>>
    PROVE  RepoTyped' /\ ApartInv' /\ work' = work \cup {FileOf(o)}
<1>1. FileOf(o) \in Files /\ work' = work \cup {FileOf(o)} /\ \A f \in tree[head] \cup work : f.path # FileOf(o).path
  BY FileFacts DEF Put, PathsOf, Present
<1> QED
  BY <1>1 DEF RepoTyped, ApartInv, Apart

LEMMA WriteFileKeeps == ASSUME CaptureInv, NEW w \in Windows, WriteFile(w) PROVE CaptureInv'
<1> DEFINE o == call[w].batch[call[w].written + 1]
<1>1. /\ call[w].at = "writing" /\ call[w].written < Len(call[w].batch) /\ UNCHANGED <<head, tree, staged, acts>>
      /\ UnderWay(w) /\ call[w] \in Call
  BY DEF WriteFile, UnderWay, CaptureInv, CallsTyped
<1>2. /\ call[w].written \in Nat /\ call[w].written + 1 \in DOMAIN call[w].batch /\ o \in LiveObjects
      /\ call[w].written + 1 <= Len(call[w].batch)
  <2>1. call[w].written \in Nat /\ Len(call[w].batch) \in Nat /\ DOMAIN call[w].batch = 1 .. Len(call[w].batch)
    BY <1>1, CallFacts
  <2>2. call[w].written + 1 \in DOMAIN call[w].batch
    BY <1>1, <2>1
  <2> QED
    BY <1>1, <2>1, <2>2, CallFacts
<1>3. ASSUME NEW at \in {"writing", "restoring"}, Put(o),
             call' = [call EXCEPT ![w] = [call[w] EXCEPT !.written = @ + 1, !.at = at]]
      PROVE  CaptureInv'
  <2> DEFINE r == [call[w] EXCEPT !.written = @ + 1, !.at = at]
  <2>1. /\ r \in Call /\ r.at = at /\ r.start = call[w].start /\ r.base = call[w].base
        /\ r.made = call[w].made /\ r.alone = call[w].alone
        /\ r.written = call[w].written + 1 /\ r.batch = call[w].batch /\ r.branch = call[w].branch
    <3> DEFINE n == call[w].written + 1
    <3>1. n \in Nat /\ at \in Points /\ r = [call[w] EXCEPT !.written = n, !.at = at]
      BY <1>1, <1>2 DEF Call, Points
    <3> HIDE DEF n, r
    <3>2. [call[w] EXCEPT !.written = n, !.at = at] \in Call
      BY <1>1, <3>1 DEF Call
    <3>3. r \in Call /\ r.written = n /\ r.at = at
      BY <1>1, <3>1, <3>2 DEF Call
    <3>4. /\ r.start = call[w].start /\ r.base = call[w].base /\ r.made = call[w].made
          /\ r.alone = call[w].alone /\ r.batch = call[w].batch /\ r.branch = call[w].branch
      BY <1>1, <3>1 DEF Call
    <3> QED
      BY <3>3, <3>4 DEF n
  <2>2. call' = [call EXCEPT ![w] = r]
    BY <1>3
  <2> HIDE DEF r
  <2>3. StepOf(w) /\ call'[w] = r
    BY <1>2, <2>1, <2>2 DEF CaptureInv, CallsTyped, StepOf
  <2>4. RepoTyped' /\ ApartInv' /\ work' = work \cup {FileOf(o)}
    BY <1>1, <1>2, <1>3, PutKeeps DEF CaptureInv
  <2>5. ASSUME call[w].alone, \A u \in Windows \ {w} : call[u] = Idle0
        PROVE  AloneInv(w, call[w])'
    <3>1. AloneInv(w, call[w])
      BY <1>1, <2>5 DEF CaptureInv, CallInv
    <3>2. \A u \in Windows \ {w} : call'[u] = Idle0
      BY <2>3, <2>5 DEF StepOf
    <3>3. FilesOf(r) \subseteq FilesOf(call[w]) \cup {FileOf(o)}
      <4>1. \A i \in 1 .. call[w].written + 1 : i \in 1 .. call[w].written \/ i = call[w].written + 1
        BY <1>2
      <4> QED
        BY <2>1, <4>1 DEF FilesOf
    <3>4. FilesOf(r) \subseteq work'
      BY <1>1, <2>4, <3>1, <3>3 DEF AloneInv
    <3>5. OwnOf(r) = OwnOf(call[w])
      BY <2>1 DEF OwnOf
    <3>6. at \in {"writing", "restoring"}
      BY <1>3
    <3> QED
      BY <1>1, <2>1, <2>3, <2>5, <3>1, <3>2, <3>4, <3>5, <3>6 DEF AloneInv, OnBranch
  <2> QED
    BY <1>1, <2>1, <2>3, <2>4, <2>5, StepSuffices
<1>4. CASE Put(o) /\ call' = [call EXCEPT ![w].written = @ + 1]
  <2>1. [call[w] EXCEPT !.written = @ + 1] = [call[w] EXCEPT !.written = @ + 1, !.at = "writing"]
    BY <1>1 DEF Call
  <2>2. call' = [call EXCEPT ![w] = [call[w] EXCEPT !.written = @ + 1]]
    BY <1>4 DEF CaptureInv, CallsTyped
  <2> QED
    BY <1>3, <1>4, <2>1, <2>2
<1>5. CASE Put(o) /\ call' = [call EXCEPT ![w].written = @ + 1, ![w].at = "restoring"]
  <2>1. call' = [call EXCEPT ![w] = [call[w] EXCEPT !.written = @ + 1, !.at = "restoring"]]
    BY <1>5 DEF CaptureInv, CallsTyped
  <2> QED
    BY <1>3, <1>5, <2>1
<1>6. CASE Goes(w, "restoring") /\ UNCHANGED work
  <2>0. "restoring" \in Points
    BY DEF Points
  <2>1. StepOf(w) /\ call'[w].at = "restoring" /\ Same(call'[w], call[w])
    BY <1>6, <2>0, GoesTo DEF CaptureInv
  <2>2. RepoTyped' /\ ApartInv'
    BY <1>1, <1>6, RepoStays DEF CaptureInv, RepoTyped
  <2>3. ASSUME call[w].alone, \A u \in Windows \ {w} : call[u] = Idle0
        PROVE  AloneInv(w, call[w])'
    <3>1. AloneInv(w, call[w])
      BY <1>1, <2>3 DEF CaptureInv, CallInv
    <3>2. \A u \in Windows \ {w} : call'[u] = Idle0
      BY <2>1, <2>3 DEF StepOf
    <3> QED
      BY <1>1, <1>6, <2>1, <3>1, <3>2 DEF AloneInv, OnBranch, Same, OwnOf
  <2> QED
    BY <1>1, <2>1, <2>2, <2>3, StepSuffices DEF Same
<1> QED
  BY <1>4, <1>5, <1>6 DEF WriteFile

\* A step that leaves what is committed alone and goes on, or back, keeps a capture's place.
LEMMA AddKeeps == ASSUME CaptureInv, NEW w \in Windows, Add(w) PROVE CaptureInv'
<1> DEFINE paths == PathsOf(FilesOf(call[w]))
           adds  == {f \in work : f.path \in paths \ Ignored}
<1>1. /\ call[w].at = "writing" /\ call[w].written = Len(call[w].batch) /\ UNCHANGED <<head, tree, work, acts>>
      /\ UnderWay(w) /\ call[w] \in Call /\ FilesOf(call[w]) = OwnOf(call[w])
  BY CallFacts DEF Add, UnderWay, CaptureInv, CallsTyped
<1>2. PICK at \in {"committing", "restoring"} :
          /\ Goes(w, at) /\ staged' \subseteq staged \cup adds
          /\ at = "committing" => staged' = staged \cup adds /\ paths \cap Ignored = {}
  BY DEF Add
<1>3. StepOf(w) /\ call'[w].at = at /\ Same(call'[w], call[w])
  BY <1>2, GoesTo DEF CaptureInv, Points
<1>4. RepoTyped' /\ ApartInv'
  BY <1>1, <1>2, RepoStays DEF CaptureInv, RepoTyped
<1>5. ASSUME call[w].alone, \A u \in Windows \ {w} : call[u] = Idle0
      PROVE  AloneInv(w, call[w])'
  <2>1. AloneInv(w, call[w])
    BY <1>1, <1>5 DEF CaptureInv, CallInv
  <2>2. \A u \in Windows \ {w} : call'[u] = Idle0
    BY <1>3, <1>5 DEF StepOf
  <2>3. FilesOf(call[w]) \subseteq work /\ staged = {}
    BY <1>1, <2>1 DEF AloneInv
  <2>4. at = "committing" => adds = FilesOf(call[w])
    <3> SUFFICES ASSUME at = "committing" PROVE adds = FilesOf(call[w])
      OBVIOUS
    <3>1. \A f \in FilesOf(call[w]) : f \in adds
      BY <1>2, <2>3 DEF PathsOf
    <3>2. \A f \in adds : f \in FilesOf(call[w])
      BY <2>3 DEF PathsOf, CaptureInv, ApartInv, Apart
    <3> QED
      BY <3>1, <3>2
  <2>5. at = "committing" => staged' = OwnOf(call[w])
    BY <1>1, <1>2, <2>3, <2>4
  <2>6. OwnOf(call'[w]) = OwnOf(call[w]) /\ FilesOf(call'[w]) = FilesOf(call[w])
    BY <1>3 DEF Same, OwnOf, FilesOf
  <2> HIDE DEF adds, paths
  <2> QED
    BY <1>1, <1>3, <2>1, <2>2, <2>3, <2>5, <2>6 DEF AloneInv, OnBranch, Same
<1> HIDE DEF adds, paths
<1> QED
  BY <1>1, <1>3, <1>4, <1>5, StepSuffices DEF Same

\* git commit: the same files, one after another, in the tree checked out.
LEMMA CommittedFacts ==
    ASSUME RepoTyped, ApartInv, Committed, UNCHANGED head
    PROVE  /\ RepoTyped' /\ ApartInv' /\ tree'[head] = tree[head] \cup staged
           /\ \A r \in Refs \ {head} : tree'[r] = tree[r]
<1>1. /\ head \in Refs /\ tree' = [tree EXCEPT ![head] = @ \cup staged] /\ work' = work \ staged /\ staged' = {}
      /\ tree[head] \subseteq Files /\ staged \subseteq Files
  BY DEF Committed, RepoTyped
<1>2. tree[head] \cup staged \in SUBSET Files /\ tree[head] \cup staged # NoTree
  BY <1>1, FileFacts
<1>3. /\ tree'[head] = tree[head] \cup staged /\ \A r \in Refs \ {head} : tree'[r] = tree[r]
      /\ tree' \in [Refs -> {NoTree} \cup SUBSET Files]
  BY <1>1, <1>2 DEF RepoTyped
<1>4. RepoTyped'
  BY <1>1, <1>2, <1>3 DEF RepoTyped
<1>5. tree'[head] \cup work' = tree[head] \cup work
  BY <1>1, <1>3 DEF RepoTyped
<1>6. ApartInv'
  <2>1. Apart(tree'[head'] \cup work') /\ Apart(tree'[head])
    BY <1>5 DEF ApartInv, Apart
  <2>2. \A r \in Refs : tree'[r] # NoTree => Apart(tree'[r])
    BY <1>3, <2>1 DEF ApartInv
  <2> QED
    BY <2>1, <2>2 DEF ApartInv
<1> QED
  BY <1>3, <1>4, <1>6

LEMMA CommitKeeps == ASSUME CaptureInv, NEW w \in Windows, Commit(w) PROVE CaptureInv'
<1>1. /\ call[w].at = "committing" /\ UNCHANGED <<head, acts>>
      /\ UnderWay(w) /\ call[w] \in Call
      /\ call[w].start \in Refs /\ call[w].branch \in Refs
  BY CallFacts DEF Commit, UnderWay, CaptureInv, CallsTyped
<1>2. PICK at \in {"done", "restoring"} :
          /\ \/ StepOf(w) /\ call'[w].at = at /\ Same(call'[w], call[w])
             \/ ~ call[w].alone /\ StepOf(w) /\ call'[w] = Idle0
          /\ Committed \/ (at = "restoring" /\ UNCHANGED <<tree, work, staged>>)
  BY GoesTo, CaptureEnded DEF Commit, CaptureInv, Points
<1>3. RepoTyped' /\ ApartInv'
  <2>1. CASE Committed
    BY <1>1, <2>1, CommittedFacts DEF CaptureInv
  <2>2. CASE UNCHANGED <<tree, work, staged>>
    BY <1>1, <2>2, RepoStays DEF CaptureInv, RepoTyped
  <2> QED
    BY <1>2, <2>1, <2>2
<1>4. ASSUME call[w].alone, \A u \in Windows \ {w} : call[u] = Idle0
      PROVE  AloneInv(w, call[w])'
  <2>1. AloneInv(w, call[w])
    BY <1>1, <1>4 DEF CaptureInv, CallInv
  <2>2. StepOf(w) /\ call'[w].at = at /\ Same(call'[w], call[w]) /\ \A u \in Windows \ {w} : call'[u] = Idle0
    BY <1>2, <1>4 DEF StepOf
  <2>3. /\ call[w].made /\ head = call[w].branch /\ call[w].branch # call[w].start
        /\ tree[call[w].branch] = call[w].base /\ tree[call[w].start] = call[w].base /\ staged = OwnOf(call[w])
    BY <1>1, <2>1 DEF AloneInv, OnBranch
  <2>4. /\ tree'[call[w].start] = call[w].base
        /\ \/ tree'[call[w].branch] = call[w].base \cup OwnOf(call[w])
           \/ at = "restoring" /\ tree'[call[w].branch] = call[w].base
    BY <1>1, <1>2, <2>3, CommittedFacts DEF CaptureInv
  <2>5. OwnOf(call'[w]) = OwnOf(call[w])
    BY <2>2 DEF Same, OwnOf
  <2>6. at \in {"done", "restoring"}
    BY <1>2
  <2> QED
    BY <1>1, <2>2, <2>3, <2>4, <2>5, <2>6 DEF AloneInv, OnBranch, Same
<1>5. at # "idle"
  BY <1>2
<1> QED
  BY <1>1, <1>2, <1>3, <1>4, <1>5, IdleCall, StepSuffices DEF Same

\* git checkout, which keeps what is staged and has nothing of the other tree's paths left beside it.
LEMMA SwitchFacts ==
    ASSUME RepoTyped, ApartInv, NEW r \in Refs, Switchable(r), Switch(r), UNCHANGED <<tree, staged>>
    PROVE  RepoTyped' /\ ApartInv' /\ head' = r
<1>1. head' = r /\ work' = {f \in work : f.path \notin PathsOf(tree[r])} /\ tree[r] # NoTree
  BY DEF Switch, Switchable
<1>2. staged \subseteq work'
  BY <1>1 DEF Switchable, Seen, RepoTyped
<1>3. \A f \in tree[r], g \in work' : f.path # g.path
  BY <1>1 DEF PathsOf
<1>4. Apart(tree[r]) /\ Apart(work')
  BY <1>1 DEF ApartInv, Apart
<1>5. Apart(tree[r] \cup work')
  BY <1>3, <1>4 DEF Apart
<1> QED
  BY <1>1, <1>2, <1>5 DEF RepoTyped, ApartInv

LEMMA RestoreKeeps == ASSUME CaptureInv, NEW w \in Windows, Restore(w) PROVE CaptureInv'
<1>1. /\ call[w].at = "restoring" /\ UNCHANGED <<tree, staged, acts>>
      /\ UnderWay(w) /\ call[w] \in Call /\ call[w].start \in Refs
  BY CallFacts DEF Restore, UnderWay, CaptureInv, CallsTyped
<1>2. CASE Forget(w) /\ UNCHANGED <<head, work>>
  <2>1. StepOf(w) /\ call'[w] = Idle0
    BY <1>2, Forgotten DEF CaptureInv
  <2>2. RepoTyped' /\ ApartInv'
    BY <1>1, <1>2, RepoStays DEF CaptureInv, RepoTyped
  <2> QED
    BY <1>1, <2>1, <2>2, IdleCall, StepSuffices
<1>3. CASE /\ Switchable(call[w].start) /\ End(w, "failed")
           /\ IF call[w].start = Detached THEN UNCHANGED <<head, work>> ELSE Switch(call[w].start)
  <2>0. "failed" \in Points
    BY DEF Points
  <2>1. /\ StepOf(w)
        /\ \/ call[w].alone /\ call'[w].at = "failed" /\ Same(call'[w], call[w])
           \/ ~ call[w].alone /\ call'[w] = Idle0
    BY <1>3, <2>0, CaptureEnded DEF CaptureInv
  <2>2. RepoTyped' /\ ApartInv' /\ (head' = call[w].start \/ (call[w].start = Detached /\ head' = head))
    <3>1. CASE call[w].start = Detached
      BY <1>1, <1>3, <3>1, RepoStays DEF CaptureInv, RepoTyped
    <3>2. CASE call[w].start # Detached
      BY <1>1, <1>3, <3>2, SwitchFacts DEF CaptureInv
    <3> QED
      BY <3>1, <3>2
  <2>3. ASSUME call[w].alone, call'[w].at = "failed", Same(call'[w], call[w]), \A u \in Windows \ {w} : call[u] = Idle0
        PROVE  AloneInv(w, call[w])'
    <3>1. AloneInv(w, call[w])
      BY <1>1, <2>3 DEF CaptureInv, CallInv
    <3>2. \A u \in Windows \ {w} : call'[u] = Idle0
      BY <2>1, <2>3 DEF StepOf
    <3>3. OwnOf(call'[w]) = OwnOf(call[w])
      BY <2>3 DEF Same, OwnOf
    <3> QED
      BY <1>1, <2>2, <2>3, <3>1, <3>2, <3>3 DEF AloneInv, OnBranch, Same
  <2> QED
    BY <1>1, <2>1, <2>2, <2>3, IdleCall, StepSuffices DEF Same
<1> QED
  BY <1>2, <1>3 DEF Restore

LEMMA EngineStopsKeeps == ASSUME CaptureInv, EngineStops PROVE CaptureInv'
<1>1. call' = [w \in Windows |-> Idle0] /\ UNCHANGED <<head, tree, work, staged, acts>>
  BY DEF EngineStops
<1>2. CallsTyped' /\ \A w \in Windows : CallInv(w)'
  BY <1>1, IdleCall, IdleFits DEF CallsTyped
<1> QED
  BY <1>1, <1>2, RepoStays DEF CaptureInv, RepoTyped

\* The person keeps the repository one, and every capture under way is crossed.
LEMMA PersonActsKeeps == ASSUME CaptureInv, PersonActs PROVE CaptureInv'
<1>1. /\ call' = [w \in Windows |-> IF UnderWay(w) THEN Crossed(call[w]) ELSE Idle0]
      /\ acts < MaxActs /\ acts' = acts + 1
  BY DEF PersonActs
<1>2. acts' \in 0 .. MaxActs
  BY <1>1, CaptureAssumption DEF CaptureInv
<1>3. \A v \in Windows : UnderWay(v) =>
          /\ Crossed(call[v]) \in Call /\ ~ Crossed(call[v]).alone /\ Crossed(call[v]).at # "idle"
          /\ Crossed(call[v]).written <= Len(Crossed(call[v]).batch)
  <2> SUFFICES ASSUME NEW v \in Windows, UnderWay(v)
               PROVE  /\ Crossed(call[v]) \in Call /\ ~ Crossed(call[v]).alone /\ Crossed(call[v]).at # "idle"
                      /\ Crossed(call[v]).written <= Len(Crossed(call[v]).batch)
    OBVIOUS
  <2>1. call[v] \in Call /\ call[v].written <= Len(call[v].batch)
    BY DEF CaptureInv, CallsTyped
  <2> QED
    BY <2>1 DEF Crossed, Call, UnderWay
<1>4. CallsTyped' /\ \A v \in Windows : CallInv(v)'
  <2>1. CallsTyped'
    BY <1>1, <1>3, IdleCall DEF CallsTyped
  <2>2. ASSUME NEW v \in Windows PROVE CallInv(v)'
    <3>1. CASE UnderWay(v)
      BY <1>1, <1>3, <3>1, CrossedFits
    <3>2. CASE ~ UnderWay(v)
      BY <1>1, <3>2, IdleFits
    <3> QED
      BY <3>1, <3>2
  <2> QED
    BY <2>1, <2>2
<1>5. RepoTyped' /\ ApartInv'
  <2>1. CASE PersonCommits
    BY <2>1, CommittedFacts DEF CaptureInv, PersonCommits
  <2>2. CASE PersonCleans
    BY <2>2 DEF CaptureInv, PersonCleans, RepoTyped, ApartInv, Apart
  <2>3. ASSUME NEW p \in Paths, PersonWrites(p) PROVE RepoTyped' /\ ApartInv'
    <3> DEFINE f == [path |-> p, by |-> Person]
    <3>1. f \in Files /\ f.path = p /\ \A g \in tree[head] \cup work : g.path # p
      BY <2>3 DEF Files, PersonWrites, PathsOf, Present
    <3>2. work' = work \cup {f} /\ staged' \in {staged, staged \cup {f}} /\ UNCHANGED <<head, tree>>
      BY <2>3 DEF PersonWrites
    <3> HIDE DEF f
    <3> QED
      BY <3>1, <3>2 DEF CaptureInv, RepoTyped, ApartInv, Apart
  <2>4. ASSUME NEW r \in Refs, PersonSwitches(r) PROVE RepoTyped' /\ ApartInv'
    BY <2>4, SwitchFacts DEF CaptureInv, PersonSwitches
  <2> QED
    BY <2>1, <2>2, <2>3, <2>4 DEF PersonActs
<1> QED
  BY <1>2, <1>4, <1>5 DEF CaptureInv

LEMMA CaptureStarts == CaptureInit => CaptureInv
<1> SUFFICES ASSUME CaptureInit PROVE CaptureInv
  OBVIOUS
<1>1. PICK fs \in {{}} \cup {{[path |-> p, by |-> Person]} : p \in Paths} :
          tree = [r \in Refs |-> IF r \in {Main, Detached} THEN fs ELSE NoTree]
  BY DEF CaptureInit
<1>2. fs \in SUBSET Files /\ Apart(fs)
  BY DEF Files, Apart
<1>3. head \in {Main, Detached} /\ work = {} /\ staged = {} /\ call = [w \in Windows |-> Idle0] /\ acts = 0
  BY DEF CaptureInit
<1>4. RepoTyped /\ ApartInv
  BY <1>1, <1>2, <1>3, FileFacts DEF RepoTyped, ApartInv, Refs
<1>5. CallsTyped /\ \A w \in Windows : CallInv(w)
  BY <1>3, IdleCall DEF CallsTyped, CallInv
<1>6. acts \in 0 .. MaxActs
  BY <1>3, CaptureAssumption
<1> QED
  BY <1>4, <1>5, <1>6 DEF CaptureInv

LEMMA CaptureSteps == CaptureInv /\ [CaptureNext]_capture => CaptureInv'
<1> SUFFICES ASSUME CaptureInv, [CaptureNext]_capture PROVE CaptureInv'
  OBVIOUS
<1>1. CASE UNCHANGED capture
  BY <1>1 DEF capture, CaptureInv, RepoTyped, CallsTyped, ApartInv, CallInv, AloneInv, FilesOf
<1> QED
  BY <1>1, BeginKeeps, ReadBranchKeeps, NewBranchKeeps, WriteFileKeeps, AddKeeps, CommitKeeps, RestoreKeeps,
     EngineStopsKeeps, PersonActsKeeps DEF CaptureNext

\* stripSecretData, for every two shapes.
LEMMA Stripped == SecretsStripped
<1> SUFFICES ASSUME NEW d \in Shapes, NEW s \in Shapes
             PROVE  /\ {stripSecretData(d, s).data, stripSecretData(d, s).stringData} \cap {"odd", "values"} = {}
                    /\ stripSecretData(d, s).told
                         <=> <<stripSecretData(d, s).data, stripSecretData(d, s).stringData>> # <<d, s>>
  BY DEF SecretsStripped
<1>1. CASE d = "values"
  BY <1>1 DEF stripSecretData, Shapes
<1>2. CASE d # "values" /\ s = "odd"
  BY <1>2 DEF stripSecretData, Shapes
<1>3. CASE d # "values" /\ s = "values"
  BY <1>3 DEF stripSecretData, Shapes
<1>4. CASE d # "values" /\ s \notin {"odd", "values"}
  BY <1>4 DEF stripSecretData, Shapes
<1> QED
  BY <1>1, <1>2, <1>3, <1>4

\* However captures, the person and the end of the engine cross: the repository and the calls keep
\* their types, no capture writes a path where a file is, and no value of a Secret is written.  Of a
\* capture that no other capture and no act of the person came between: no branch but its own
\* changes, and that one holds what it was made from, or with it all of the capture's objects.
THEOREM CaptureCorrect == CaptureSpec => []CaptureTypeOK /\ []CaptureHoldsItsOwn
<1>1. CaptureSpec => []CaptureInv
  BY CaptureStarts, CaptureSteps, PTL DEF CaptureSpec
<1>2. CaptureInv => CaptureTypeOK
  <2> SUFFICES ASSUME CaptureInv PROVE CaptureTypeOK
    OBVIOUS
  <2>1. ASSUME NEW w \in Windows
        PROVE  /\ call[w].at \in Points /\ call[w].branch \in Refs /\ call[w].start \in Refs
               /\ call[w].batch \in Batches \cup {<<>>} /\ call[w].written \in 0 .. Len(call[w].batch)
               /\ call[w].base \subseteq Files /\ {call[w].made, call[w].alone} \subseteq BOOLEAN
    <3>1. call[w] \in Call /\ call[w].written <= Len(call[w].batch)
      BY DEF CaptureInv, CallsTyped
    <3>2. call[w].written \in 0 .. Len(call[w].batch)
      BY <3>1, CallFacts
    <3>3. call[w].batch \in Batches \cup {<<>>}
      BY <3>1 DEF Call
    <3> QED
      BY <3>1, <3>2, <3>3, CallFacts
  <2> QED
    BY <2>1 DEF CaptureInv, RepoTyped, CaptureTypeOK
<1>3. CaptureInv => CaptureHoldsItsOwn
  <2> SUFFICES ASSUME CaptureInv PROVE Alone /\ NothingWrittenOver
    BY Stripped DEF CaptureHoldsItsOwn
  <2>1. NothingWrittenOver
    BY DEF CaptureInv, ApartInv, Apart, NothingWrittenOver, Present
  <2>2. ASSUME NEW w \in Windows, call[w].alone
        PROVE  /\ call[w].at \notin {"idle", "clean"} => tree[call[w].start] = call[w].base /\ head \in {call[w].start, call[w].branch}
               /\ call[w].made => tree[call[w].branch] \in {call[w].base, call[w].base \cup OwnOf(call[w])}
               /\ call[w].at = "done" => head = call[w].branch /\ tree[head] = call[w].base \cup OwnOf(call[w])
               /\ call[w].at = "failed" => head = call[w].start \/ call[w].start = Detached
    <3>1. CASE call[w].at = "idle"
      BY <3>1 DEF CaptureInv, CallInv, Idle0
    <3>2. CASE call[w].at # "idle"
      <4>1. AloneInv(w, call[w]) /\ call[w].at \in Points
        BY <2>2, <3>2 DEF CaptureInv, CallInv, CallsTyped, Call
      <4> QED
        BY <3>2, <4>1 DEF AloneInv, OnBranch, Points
    <3> QED
      BY <3>1, <3>2
  <2> QED
    BY <2>1, <2>2 DEF Alone, OwnOf
<1> QED
  BY <1>1, <1>2, <1>3, PTL
=============================================================================
