---------------------------- MODULE PortForwards ----------------------------
(***************************************************************************)
(* Port forwards: the engine's, not the window's.  The read loop starts a  *)
(* goroutine for each forward asked for, which answers when there is a     *)
(* listener; a stop and a list it answers itself.  An answer is a list     *)
(* read first and sent later, so answers may overtake each other, and the  *)
(* window shows the one it took last.  When the link is lost so are the    *)
(* answers, what was sent and not read, and the promises; what is asked    *)
(* for after that waits in the socket's queue.                             *)
(*                                                                         *)
(* A forward is told by the number of the request that asked for it.       *)
(***************************************************************************)
EXTENDS Naturals, Sequences, FiniteSets

CONSTANTS MaxForwards, MaxStops, MaxDrops    \* bounds: forwards and stops asked for, links lost

ASSUME ForwardsAssumption == {MaxForwards, MaxStops, MaxDrops} \subseteq Nat

VARIABLES held,      \* Manager.list
          starting,  \* where Start of each forward is
          tunnel,    \* its ForwardPorts: no listener, an open one, or an ended one
          stopped,   \* how often each one's stop channel was closed
          answers,   \* what was made and not sent; with TRUE, by the read loop
          outbox,    \* to the engine, sent or queued
          inbox,     \* to the window
          promises,  \* the requests somebody waits for
          forwards,  \* what the window shows
          wired,     \* the link is up
          spent,     \* forwards and stops asked for, links lost, so far
          untold     \* the list has changed and no answer is to say so

manager    == <<held, starting, tunnel, stopped>>
windowSide == <<outbox, inbox, promises, forwards, wired, spent>>
forwarding == <<manager, answers, windowSide, untold>>

Fwds     == 1 .. MaxForwards
Ticket   == {"hello", "start", "stop", "list"} \X Nat
ForwardsMsg(to, list) == [to |-> to, list |-> list]
Greeting == ForwardsMsg(<<"hello", 0>>, {})
ForwardsTypeOK ==
    /\ {held, forwards} \subseteq SUBSET Fwds
    /\ starting \in [Fwds -> {"not", "dialing", "cut", "listing", "returned"}]
    /\ tunnel \in [Fwds -> {"none", "open", "ended"}] /\ stopped \in [Fwds -> Nat]
    /\ \A a \in answers : a[1].to \in Ticket /\ a[1].list \subseteq Fwds /\ a[2] \in BOOLEAN
    /\ \A i \in DOMAIN outbox : outbox[i].id \in Ticket /\ outbox[i].of \in {0} \cup Fwds
    /\ \A i \in DOMAIN inbox : inbox[i].to \in Ticket /\ inbox[i].list \subseteq Fwds
    /\ promises \subseteq Ticket /\ {wired, untold} \subseteq BOOLEAN
    /\ spent \in [start : 0 .. MaxForwards, stop : 0 .. MaxStops, list : 0 .. MaxDrops + 1, drops : 0 .. MaxDrops]

\* request: queued when the link is down.
AskEngine(what, of) ==
    LET id == <<what, spent[what] + 1>>
    IN /\ outbox' = Append(outbox, [id |-> id, of |-> of])
       /\ promises' = promises \cup {id}
       /\ spent' = [spent EXCEPT ![what] = @ + 1]
startForward ==
    /\ spent.start < MaxForwards /\ AskEngine("start", spent.start + 1)
    /\ UNCHANGED <<manager, answers, inbox, forwards, wired, untold>>
stopForward ==
    /\ spent.stop < MaxStops /\ \E f \in forwards : AskEngine("stop", f)
    /\ UNCHANGED <<manager, answers, inbox, forwards, wired, untold>>

\* The read loop, which first sends the answer it has made.
CloseStop(f) == stopped' = [stopped EXCEPT ![f] = @ + 1]
StopListed(f)  == IF f \in held THEN CloseStop(f) /\ held' = held \ {f} ELSE UNCHANGED <<stopped, held>>
Says(to, list, loop) == answers' = answers \cup {<<ForwardsMsg(to, list), loop>>}
ReadLoop ==
    /\ wired /\ outbox # <<>> /\ ~ \E a \in answers : a[2]
    /\ LET m == Head(outbox)
       IN CASE m.id[1] = "start" -> /\ starting' = [starting EXCEPT ![m.of] = "dialing"]
                                    /\ UNCHANGED <<answers, held, stopped>>
            [] m.id[1] = "stop"  -> /\ StopListed(m.of) /\ Says(m.id, held', TRUE)
                                    /\ UNCHANGED starting
            [] m.id[1] = "list"  -> /\ Says(m.id, held, TRUE)
                                    /\ UNCHANGED <<held, stopped, starting>>
    /\ outbox' = Tail(outbox)
    /\ UNCHANGED <<tunnel, inbox, promises, forwards, wired, spent, untold>>

\* ForwardPorts: a listener, until its stop channel is closed or the pod is lost; the latter ends
\* up in Error and leaves the forward in the list.  One that opens after its stop channel was
\* closed closes at once, and is left out.
ForwardPorts(f) ==
    /\ \/ /\ tunnel[f] = "none" /\ starting[f] \in {"dialing", "cut"}
          /\ tunnel' = [tunnel EXCEPT ![f] = "open"]
       \/ tunnel[f] = "open" /\ tunnel' = [tunnel EXCEPT ![f] = "ended"]
    /\ UNCHANGED <<held, starting, stopped, answers, windowSide, untold>>

\* Start's select takes any of its branches that is ready.  No session, no pod and no free port
\* are all an error with no listener, of which the window makes a toast.  A goroutine whose link
\* is gone ("cut") answers nobody.
Answerable(f) == starting[f] = "dialing"
StartFails(f) ==
    /\ starting[f] \in {"dialing", "cut"} /\ tunnel[f] \in {"none", "ended"}
    /\ starting' = [starting EXCEPT ![f] = "returned"]
    /\ UNCHANGED <<held, tunnel, stopped, answers, windowSide, untold>>
StartReady(f) ==
    /\ starting[f] \in {"dialing", "cut"} /\ tunnel[f] \in {"open", "ended"}
    /\ held' = held \cup {f}
    /\ starting' = [starting EXCEPT ![f] = IF Answerable(f) THEN "listing" ELSE "returned"]
    /\ untold' = (untold \/ ~ Answerable(f))
    /\ UNCHANGED <<tunnel, stopped, answers, windowSide>>
StartCut(f) ==
    /\ starting[f] = "cut" /\ starting' = [starting EXCEPT ![f] = "returned"] /\ CloseStop(f)
    /\ UNCHANGED <<held, tunnel, answers, windowSide, untold>>
StartLists(f) ==
    /\ starting[f] = "listing" /\ starting' = [starting EXCEPT ![f] = "returned"]
    /\ Says(<<"start", f>>, held, FALSE)
    /\ UNCHANGED <<held, tunnel, stopped, windowSide, untold>>

\* The engine's queue to the window, of which `untold` keeps what the last entry was worth.
SendAnswer(a) ==
    /\ a \in answers /\ answers' = answers \ {a} /\ inbox' = Append(inbox, a[1])
    /\ untold' = (a[1].list # held \/ a[1].to \notin promises)
    /\ UNCHANGED <<manager, outbox, promises, forwards, wired, spent>>

\* Another window stops one: nobody tells this one.
OtherStops(f) ==
    /\ f \in held /\ spent.stop < MaxStops /\ spent' = [spent EXCEPT !.stop = @ + 1]
    /\ StopListed(f) /\ untold' = TRUE
    /\ UNCHANGED <<starting, tunnel, answers, outbox, inbox, promises, forwards, wired>>

\* Mutant: the window does not ask for the list when it is greeted.
GreetedSilently == UNCHANGED <<outbox, promises, spent>>

\* The window takes a reply; greeted, it asks for the list.
Greeted == AskEngine("list", 0)
TakeReply ==
    /\ wired /\ inbox # <<>> /\ inbox' = Tail(inbox)
    /\ LET m == Head(inbox)
       IN IF m = Greeting THEN Greeted /\ UNCHANGED forwards
          ELSE /\ promises' = promises \ {m.to}
               /\ forwards' = IF m.to \in promises THEN m.list ELSE forwards
               /\ UNCHANGED <<outbox, spent>>
    /\ UNCHANGED <<manager, answers, wired, untold>>

\* The link is lost, and with it the context of every Start under way.
LinkLost ==
    /\ wired /\ spent.drops < MaxDrops /\ spent' = [spent EXCEPT !.drops = @ + 1]
    /\ wired' = FALSE /\ outbox' = <<>> /\ inbox' = <<>> /\ promises' = {} /\ answers' = {}
    /\ starting' = [f \in Fwds |-> CASE starting[f] = "dialing" -> "cut"
                                     [] starting[f] = "listing" -> "returned"
                                     [] OTHER                   -> starting[f]]
    /\ UNCHANGED <<held, tunnel, stopped, forwards, untold>>
LinkRefused ==     \* onclose again: the promises go, the queue stays
    /\ ~ wired /\ promises # {} /\ promises' = {}
    /\ UNCHANGED <<manager, answers, outbox, inbox, forwards, wired, spent, untold>>
LinkBack ==
    /\ ~ wired /\ wired' = TRUE /\ inbox' = <<Greeting>>
    /\ UNCHANGED <<manager, answers, outbox, promises, forwards, spent, untold>>

ForwardsInit ==
    /\ held = {} /\ answers = {} /\ promises = {} /\ forwards = {}
    /\ starting = [f \in Fwds |-> "not"] /\ tunnel = [f \in Fwds |-> "none"] /\ stopped = [f \in Fwds |-> 0]
    /\ outbox = <<>> /\ inbox = <<Greeting>> /\ wired = TRUE /\ untold = FALSE
    /\ spent = [start |-> 0, stop |-> 0, list |-> 0, drops |-> 0]
ForwardsNext ==
    \/ startForward \/ stopForward \/ ReadLoop \/ TakeReply \/ LinkLost \/ LinkRefused \/ LinkBack
    \/ \E f \in Fwds : \/ ForwardPorts(f) \/ StartFails(f) \/ StartReady(f) \/ StartCut(f)
                       \/ StartLists(f) \/ OtherStops(f)
    \/ \E a \in answers : SendAnswer(a)
ForwardsSpec == ForwardsInit /\ [][ForwardsNext]_forwarding

ForwardsQuiet == /\ wired /\ outbox = <<>> /\ inbox = <<>> /\ answers = {}
                 /\ \A f \in Fwds : starting[f] \in {"not", "returned"}

(***************************************************************************)
(* Whatever order starts, stops and lost links come in: no stop channel is *)
(* closed twice; a listener that nobody has told to stop is in the list,   *)
(* where it can be stopped, or its Start is still to put it there; what    *)
(* is in the list has had a listener and was not told to stop; and when    *)
(* nothing is on the way the window shows the list, unless the last word   *)
(* on it went to nobody or was older than the list.                        *)
(***************************************************************************)
ForwardsHeld ==
    /\ \A f \in Fwds :
          /\ stopped[f] <= 1
          /\ (tunnel[f] = "open" /\ stopped[f] = 0) => f \in held \/ starting[f] \in {"dialing", "cut"}
          /\ f \in held => tunnel[f] \in {"open", "ended"} /\ stopped[f] = 0
    /\ ForwardsQuiet /\ ~ untold => forwards = held
=============================================================================
