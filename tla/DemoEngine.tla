----------------------------- MODULE DemoEngine -----------------------------
(***************************************************************************)
(* The demo: the interface over a socket that answers from the published   *)
(* tape of DemoRecording.  Every answer is a timer of the same forty       *)
(* milliseconds, so answers land in the order asked, but after the visitor *)
(* may have moved on.  A visitor looks at a table, opens one of its rows,  *)
(* and proposes a change; `panel` is the pane of the drawer it is opened   *)
(* on.  What the demo shows is told by the things it was recorded of.      *)
(***************************************************************************)
EXTENDS DemoRecording

CONSTANTS Proposals,  \* the first operations a visitor proposes: <<op, kind, namespace, name>>
          MaxTimers   \* bound: answers under way

ASSUME DemoAssumption ==
    /\ MaxTimers \in Nat /\ <<"none">> \notin Things \cup Proposals
    /\ \A t \in Things : t[2] # "undefined"     \* what a key says of a thing without a namespace

VARIABLES table,     \* the kind and namespace subscribed to, "" for all of them
          listing,   \* the things whose rows the table shows
          visited,   \* the thing selected
          panel, shownOf, \* its pane, and what that shows is of
          timers,    \* setTimeout
          dialogOf,  \* the operation of the change in the dialog
          proposed   \* the operation proposed, until it is refused or its dialog closed

demo == <<table, listing, visited, panel, shownOf, timers, dialogOf, proposed>>

Panels  == {"get", "events", "consumers", "logs", "helm.get", "helm.rollback.plan"}
NoThing == <<"none">>
NamespaceChoices == {"", HomeSpace}
TableKinds == {t[1] : t \in Things} \ {"releases"}

DemoTypeOK ==
    /\ table \in (TableKinds \cup {"releases", "none"}) \X NamespaceChoices /\ listing \subseteq Things
    /\ visited \in Things \cup {NoThing} /\ panel \in Panels /\ shownOf \subseteq Things
    /\ Len(timers) <= MaxTimers /\ {dialogOf, proposed} \subseteq Proposals \cup {NoThing}

(***************************************************************************)
(* answer.  An object is looked up by kind, namespace and name, and one    *)
(* with no namespace is not found under the key it was recorded by.  The   *)
(* drawer asks for events by a kind's singular name, which no key starts   *)
(* with, so they are the first whose key includes the name (findEvents).   *)
(* Releases are all of them, whatever namespace is chosen, and a release   *)
(* is the one recorded, whichever is asked for.                            *)
(***************************************************************************)
Key(t) == IF t[2] = "" THEN <<t[1], "undefined", t[3]>> ELSE t
At(entries, key) == {e.of : e \in {x \in entries : x.key = key}}
Within(name, key) == name = key[Len(key)] \/ (Len(key) = 3 /\ name = key[2])
findEvents(t) == LET found == {e \in tape.events : Within(t[3], e.key)}
                 IN IF found = {} THEN {} ELSE (CHOOSE e \in found : TRUE).of
\* Mutant: another object of the same name stands in for one not recorded.
findObjectNamed(t) == {e.of : e \in {x \in tape.objects : x.of[3] = t[3]}}

findObject(t) == {}      \* a comment that says the object was not recorded
Reply(m) ==
    CASE m.type = "subscribe" -> {t \in Listed(m.of[1]) : m.of[1] = "releases" \/ m.of[2] = "" \/ t[2] \in {"", m.of[2]}}
      [] m.type = "get"       -> IF At(tape.objects, Key(m.of)) # {} THEN At(tape.objects, Key(m.of)) ELSE findObject(m.of)
      [] m.type = "events"    -> findEvents(m.of)
      [] m.type = "consumers" -> At(tape.consumers, m.of)
      [] m.type = "logs"      -> At(tape.logs, m.of)
      [] m.type = "helm.get"  -> tape.release
      [] m.type = "helm.rollback.plan" -> {p.of : p \in {q \in tape.plan : q.of = m.of /\ q.to + 1 = tape.listedAt}}
      [] m.type = "change.propose" -> {c \in tape.pending : c = m.of}     \* the plan's first operation, not its values
      [] OTHER                -> {}                                      \* refused, or nothing to say

\* request and send: the answer is settled when asked, and told forty milliseconds later.
Send(m) == /\ Len(timers) < MaxTimers
           /\ timers' = Append(timers, [type |-> m.type, of |-> m.of, body |-> Reply(m)])

Settled == timers = <<>>
Published == stage = "published" /\ UNCHANGED recorder
Subscribe(k, s) ==
    /\ Published /\ <<k, s>> # table /\ visited = NoThing /\ proposed = NoThing
    /\ table' = <<k, s>> /\ listing' = {}
    /\ Send([type |-> "subscribe", of |-> <<k, s>>])
    /\ UNCHANGED <<visited, panel, shownOf, dialogOf, proposed>>
Asked(t, p) == CASE p = "consumers" -> t[1] = "secrets"
                 [] p = "logs" -> t[1] = "pods"
                 [] p \in {"helm.get", "helm.rollback.plan"} -> t[1] = "releases"
                 [] OTHER -> t[1] # "releases"
Visit(t, p) ==
    /\ Published /\ t \in listing /\ Asked(t, p) /\ <<t, p>> # <<visited, panel>> /\ proposed = NoThing
    /\ visited' = t /\ panel' = p /\ shownOf' = {}
    /\ Send([type |-> p, of |-> t])
    /\ UNCHANGED <<table, listing, dialogOf, proposed>>
Leave == /\ Published /\ visited # NoThing /\ proposed = NoThing /\ visited' = NoThing /\ shownOf' = {} /\ panel' = "get"
         /\ UNCHANGED <<table, listing, timers, dialogOf, proposed>>
ProposeHere(op) ==
    /\ Published /\ visited # NoThing /\ proposed = NoThing /\ panel = "get" /\ Settled
    /\ proposed' = op
    /\ Send([type |-> "change.propose", of |-> op])
    /\ UNCHANGED <<table, listing, visited, panel, shownOf, dialogOf>>
\* Approve, reject, capture, forward, open a shell: every write has the same answer.
Write(type) ==
    /\ Published /\ dialogOf # NoThing
    /\ Send([type |-> type, of |-> dialogOf])
    /\ UNCHANGED <<table, listing, visited, panel, shownOf, dialogOf, proposed>>
CancelDialog == /\ Published /\ dialogOf # NoThing /\ dialogOf' = NoThing /\ proposed' = NoThing
                /\ UNCHANGED <<table, listing, visited, panel, shownOf, timers>>

\* A timer fires: a snapshot to the table by its id, the answer of a request to who asked.
Fire ==
    /\ Published /\ timers # <<>> /\ timers' = Tail(timers)
    /\ LET m == Head(timers)
       IN CASE m.type = "subscribe" -> listing' = m.body /\ UNCHANGED <<shownOf, dialogOf, proposed>>
            [] m.type = "change.propose" ->
                   /\ IF m.body # {} THEN dialogOf' \in m.body /\ UNCHANGED proposed
                                     ELSE proposed' = NoThing /\ UNCHANGED dialogOf       \* a toast
                   /\ UNCHANGED <<listing, shownOf>>
            [] m.type \in Panels -> /\ shownOf' = IF visited = NoThing THEN shownOf ELSE m.body
                                    /\ UNCHANGED <<listing, dialogOf, proposed>>
            [] OTHER -> UNCHANGED <<listing, shownOf, dialogOf, proposed>>                \* the refusal
    /\ UNCHANGED <<table, visited, panel>>

DemoInit == /\ RecordingInit /\ panel = "get" /\ table = <<"none", "">> /\ listing = {} /\ visited = NoThing /\ shownOf = {}
            /\ timers = <<>> /\ dialogOf = NoThing /\ proposed = NoThing
DemoNext ==
    \/ RecordingNext /\ UNCHANGED demo
    \/ \E k \in {t[1] : t \in Things}, s \in NamespaceChoices : Subscribe(k, s)
    \/ \E t \in Things, p \in Panels : Visit(t, p)
    \/ \E op \in Proposals : ProposeHere(op)
    \/ Leave \/ Write("change.decide") \/ CancelDialog \/ Fire
DemoSpec == DemoInit /\ [][DemoNext]_<<recorder, demo>>

(***************************************************************************)
(* Once the timers are done the table shows the rows recorded of its kind  *)
(* and namespace, but every release whatever the namespace; the drawer     *)
(* shows no object, consumers or logs but those recorded of the very thing *)
(* selected, and shows what was, but for a kind without a namespace, which *)
(* is never found.  Its events are those of one recorded key that includes *)
(* the name, so of the thing's namespace and name where no other key does. *)
(* A release's detail is the one recorded, also for another release; its   *)
(* rollback is its own.  The dialog opens only on the operation proposed,  *)
(* and a decision is refused and leaves the dialog as it is.               *)
(***************************************************************************)
Namesakes(t) == {e \in tape.events : Within(t[3], e.key) /\ ~ e.of \subseteq NamedAs(t)}
OnTape == CASE panel = "get" -> tape.objects [] panel = "consumers" -> tape.consumers [] OTHER -> tape.logs
DemoAnswers ==
    /\ (Settled /\ table[1] # "none") =>
          listing = {t \in tape.rows : t[1] = table[1] /\ (table[1] = "releases" \/ table[2] = "" \/ t[2] \in {"", table[2]})}
    /\ (Settled /\ visited # NoThing) =>
          /\ panel \in {"get", "consumers", "logs"} =>
                /\ shownOf \subseteq {visited}
                /\ visited[2] # "" => (shownOf # {} <=> \E e \in OnTape : e.of = visited)
          /\ panel = "events" =>
                /\ shownOf = {} \/ \E e \in tape.events : Within(visited[3], e.key) /\ shownOf = e.of
                /\ Namesakes(visited) = {} => shownOf \subseteq NamedAs(visited)
          /\ panel = "helm.get" => shownOf = tape.release
          /\ panel = "helm.rollback.plan" => shownOf \subseteq {visited}
    /\ dialogOf \in {proposed, NoThing} /\ (Settled => dialogOf = proposed)
=============================================================================
