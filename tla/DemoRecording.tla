---------------------------- MODULE DemoRecording ----------------------------
(***************************************************************************)
(* How the demo's fixtures are made: record-demo.mjs asks a live engine    *)
(* for one thing after another, each answer known by its id and given up   *)
(* on after a while, and files it under the key the demo will look it up   *)
(* by; then scrub-demo.mjs cleans the whole and it is printed.  Anything   *)
(* listed may be gone by the time it is asked for, and a release may be    *)
(* upgraded between two asks.  A thing is <<kind, namespace, name>>, the   *)
(* namespace "" for the kinds that have none; Helm releases are a kind.    *)
(***************************************************************************)
EXTENDS Naturals, Sequences, FiniteSets
Seqs == INSTANCE SequencesExt

CONSTANTS Things,       \* what the cluster holds when it is listed
          HomeSpace,    \* NAMESPACE: the namespace being recorded
          MaxRevision,  \* bound: revisions of the release
          MaxMissed     \* bound: asks refused or given up on

ASSUME RecordingAssumption ==
    /\ MaxRevision \in Nat /\ MaxRevision >= 2 /\ MaxMissed \in Nat
    /\ IsFiniteSet(Things) /\ Things \subseteq STRING \X STRING \X STRING /\ HomeSpace \in STRING \ {""}

VARIABLES stage,     \* how far the script is
          todo,      \* what the loop it is in has left to ask
          asking,    \* waiting: the ask awaited
          answering, \* asks the engine has yet to answer, those given up on among them
          missed,    \* asks that came to nothing
          revision,  \* what the releases are at, 0 when there is none or nobody looks
          tape       \* out

recorder == <<stage, todo, asking, answering, missed, revision, tape>>

Stages == <<"rows", "release", "objects", "space", "logs", "consumers", "rollback", "scale", "roll", "drift", "published">>
After  == [i \in 1 .. Len(Stages) - 1 |-> Stages[i + 1]]
Idle   == <<"idle">>
Listed(k) == {t \in tape.rows : t[1] = k}
InHome(k) == {t \in Listed(k) : t[2] = HomeSpace}
FirstOf(k) == CHOOSE t \in Listed(k) : TRUE              \* rows come sorted
RowKey(t)  == IF t[2] = "" THEN <<t[1], t[3]>> ELSE t    \* `${kind}/${row.key}`
KeysOf(entries) == {e.key : e \in entries}
AskOf(w, t) == <<w, t[1], t[2], t[3]>>                   \* what is asked for, and of what
OfAsk(a)   == <<a[2], a[3], a[4]>>
Scaled == <<"scale", "deployments", HomeSpace, "checkout">>
Rolled(rel) == <<"apply", "services", rel[2], rel[3]>>   \* the first object of its manifest

(***************************************************************************)
(* What a stage asks, from what is on tape by then: the rows of each kind, *)
(* the detail of the first release, the object and the events of the first *)
(* row of a kind, the object of every row of the namespace, what refers to *)
(* its Secrets, and one plan of a rollback.  Nodes have no namespace, so   *)
(* only the first of them has its object recorded.  Events are asked for   *)
(* with no kind: the row's is in the ask here to tell one from another,    *)
(* and the answer is of everything with its namespace and name.            *)
(***************************************************************************)
Opened == {"pods", "secrets", "nodes"}
Agenda(s) ==
    CASE s = "rows"      -> {<<"rows", k>> : k \in {t[1] : t \in Things}}
      [] s = "release"   -> {AskOf("release", FirstOf(k)) : k \in {j \in {"releases"} : Listed(j) # {}}}
      [] s = "objects"   -> {AskOf(w, FirstOf(k)) : w \in {"object", "events"}, k \in {j \in Opened : Listed(j) # {}}}
      [] s = "space"     -> {AskOf("object", t) : t \in {u \in UNION {InHome(k) : k \in Opened} : RowKey(u) \notin KeysOf(tape.objects)}}
      [] s = "consumers" -> {AskOf("consumers", t) : t \in InHome("secrets")}
      [] s = "rollback"  -> IF tape.listedAt > 1 THEN {AskOf("plan", FirstOf("releases"))} ELSE {}
      [] s = "scale"     -> {Scaled}
      [] s = "roll"      -> {Rolled(p.of) : p \in tape.plan}
      [] s = "drift"     -> {<<"drift">>}
      [] OTHER           -> {}

Blank == [rows |-> {}, listedAt |-> 0, release |-> {}, objects |-> {}, events |-> {}, logs |-> {},
          consumers |-> {}, plan |-> {}, pending |-> {}, drift |-> FALSE]

RecordingTypeOK ==
    /\ stage \in {Stages[i] : i \in DOMAIN Stages} \cup {"dead"}
    /\ Cardinality(missed) <= MaxMissed /\ revision \in 0 .. MaxRevision
    /\ DOMAIN tape = DOMAIN Blank /\ tape.rows \cup tape.release \subseteq Things /\ tape.listedAt \in 0 .. MaxRevision
    /\ \A e \in UNION {tape.objects, tape.logs, tape.consumers, tape.plan} : e.of \in Things
    /\ \A e \in tape.events : e.of \subseteq Things

\* ask: the loops have one order, and await each answer.
SendFirst(asks) ==
    IF asks = {} THEN asking' = Idle /\ todo' = {} /\ UNCHANGED answering
    ELSE LET a == CHOOSE x \in asks : TRUE
         IN asking' = a /\ todo' = asks \ {a} /\ answering' = answering \cup {a}
AskNext ==
    /\ asking = Idle /\ todo # {}
    /\ SendFirst(todo)
    /\ UNCHANGED <<stage, missed, revision, tape>>

\* Where the answer to an ask goes; what an answer is of is the engine's, the key is the ask's.
NamedAs(t) == {u \in Things : u[2] = t[2] /\ u[3] = t[3]}
EventsUnder(a, things) == tape.events \cup {[key |-> RowKey(OfAsk(a)), of |-> things]}
File(a, answer) ==
    LET e == [key |-> RowKey(OfAsk(a)), of |-> OfAsk(answer)]
    IN CASE a[1] = "rows"      -> tape' = [tape EXCEPT !.rows = @ \cup {t \in Things : t[1] = a[2] /\ (a[2] = "releases" => revision > 0)},
                                                         !.listedAt = IF a[2] = "releases" THEN revision ELSE @]
         [] a[1] = "release"   -> tape' = [tape EXCEPT !.release = {e.of}]
         [] a[1] = "object"    -> tape' = [tape EXCEPT !.objects = @ \cup {e}]
         [] a[1] = "events"    -> tape' = [tape EXCEPT !.events = EventsUnder(a, NamedAs(e.of))]
         [] a[1] = "consumers" -> tape' = [tape EXCEPT !.consumers = @ \cup {e}]
         [] a[1] = "plan"      -> tape' = [tape EXCEPT !.plan = {[of |-> e.of, to |-> tape.listedAt - 1, from |-> revision]}]
         [] a[1] = "drift"     -> tape' = [tape EXCEPT !.drift = TRUE]
         [] OTHER              -> tape' = [tape EXCEPT !.pending = @ \cup {a}]

\* Mutant: an answer is taken by its type.
HeardByType(a) == asking # Idle /\ a[1] = asking[1]

\* onmessage: an answer is taken by its id, so one given up on finds nobody waiting.
Heard(a) == a = asking
Answered(a) ==
    /\ answering' = answering \ {a}
    /\ IF Heard(a) THEN asking' = Idle /\ File(asking, a) ELSE UNCHANGED <<asking, tape>>
    /\ UNCHANGED <<stage, todo, missed, revision>>

\* An error, or twelve seconds without an answer.  Rows that do not come are none, and events that
\* do not come are filed as none.
Miss(kept) ==
    /\ asking # Idle /\ Cardinality(missed) < MaxMissed
    /\ missed' = missed \cup {asking} /\ asking' = Idle /\ answering' = kept
    /\ tape' = IF asking[1] = "events" THEN [tape EXCEPT !.events = EventsUnder(asking, {})] ELSE tape
    /\ UNCHANGED <<stage, todo, revision>>
Refused == asking \in answering /\ Miss(answering \ {asking})
GiveUp  == Miss(answering)

\* The logs of the namespace's pods, all followed at once for six seconds.
LogsHeard(pods) ==
    /\ pods \subseteq InHome("pods")
    /\ tape' = [tape EXCEPT !.logs = {[key |-> t, of |-> t] : t \in pods}]

\* A loop is over; after the last the tape is scrubbed and printed, and the process exits.
NextStage ==
    /\ asking = Idle /\ todo = {} /\ stage \in {Stages[i] : i \in DOMAIN After}
    /\ \E i \in DOMAIN After : Stages[i] = stage /\ stage' = After[i]
    /\ IF stage = "logs" THEN \E pods \in SUBSET InHome("pods") : LogsHeard(pods) ELSE UNCHANGED tape
    /\ IF stage' = "published" THEN todo' = {} /\ answering' = {} /\ revision' = 0 /\ UNCHANGED asking
                               ELSE SendFirst(Agenda(stage')) /\ UNCHANGED revision
    /\ UNCHANGED missed

\* Two minutes are up: nothing is printed.
TimeUp ==
    /\ stage \notin {"published", "dead"}
    /\ stage' = "dead" /\ todo' = {} /\ asking' = Idle /\ answering' = {} /\ missed' = {} /\ tape' = Blank /\ revision' = 0

Upgrade == /\ stage \notin {"published", "dead"} /\ revision \in 1 .. MaxRevision - 1
           /\ revision' = revision + 1
           /\ UNCHANGED <<stage, todo, asking, answering, missed, tape>>

RecordingInit ==
    /\ stage = "rows" /\ tape = Blank /\ todo = Agenda("rows") /\ asking = Idle
    /\ answering = {} /\ missed = {} /\ revision \in {0, 2}
RecordingNext ==
    \/ AskNext \/ Refused \/ GiveUp \/ NextStage \/ TimeUp \/ Upgrade
    \/ \E a \in answering : Answered(a)
RecordingSpec == RecordingInit /\ [][RecordingNext]_recorder

(***************************************************************************)
(* redactSecretYaml, over the lines of a recorded object: what a line is   *)
(* to it.  An entry is `key: value` two in, a child one further in, and a  *)
(* key is letters, digits and _ . - for both.  Quoted is an entry whose    *)
(* key is in quotes, scalar a line four in that is no `key: value`, as a   *)
(* block scalar's are, and deep one six or more in that is none either.    *)
(***************************************************************************)
Lines == {"secret", "top", "data", "entry", "child", "quoted", "scalar", "annotations", "applied", "deep"}
Unindented == {"secret", "top", "data"}
RedactLine(acc, l) ==
    IF l = "applied" THEN [acc EXCEPT !.skipping = TRUE]
    ELSE IF acc.skipping /\ l = "deep" THEN acc
    ELSE LET was == [acc EXCEPT !.skipping = FALSE]
         IN IF l = "data" THEN [was EXCEPT !.inData = TRUE, !.out = Append(@, l)]
            ELSE IF was.inData /\ l \in {"entry", "child"} THEN [was EXCEPT !.out = Append(@, "redacted")]
            ELSE [was EXCEPT !.inData = @ /\ l \notin Unindented, !.out = Append(@, l)]
Pruned(out) ==     \* an annotations: left with nothing deeper under it
    Seqs!FoldLeft(LAMBDA acc, i : IF out[i] = "annotations" /\ (i = Len(out) \/ out[i + 1] \in Unindented \cup {"entry", "quoted", "annotations"})
                             THEN acc ELSE Append(acc, out[i]),
             <<>>, [i \in 1 .. Len(out) |-> i])
redactSecretYaml(text) ==
    IF \A i \in DOMAIN text : text[i] # "secret" THEN text
    ELSE Pruned(Seqs!FoldLeft(RedactLine, [skipping |-> FALSE, inData |-> FALSE, out |-> <<>>], text).out)

\* Every line under data or stringData that reads `key: value` is blanked, what kubectl last
\* applied is gone with the lines it runs over, and nothing else is touched: a quoted key and the
\* lines of a block scalar stay as they are, also where they carry a value.
Under(text, i) == \E j \in 1 .. i - 1 : text[j] = "data" /\ \A k \in j .. i - 1 : text[k] \notin Unindented \ {"data"}
Dropped(text, i) == \E j \in 1 .. i : text[j] = "applied" /\ \A k \in j + 1 .. i : text[k] = "deep"
Cleaned(text) ==
    LET out == redactSecretYaml(text)
        Left(l) == Cardinality({i \in DOMAIN out : out[i] = l})
    IN /\ Left("applied") = 0
       /\ \A l \in {"top", "data", "quoted", "scalar"} : Left(l) = Cardinality({i \in DOMAIN text : text[i] = l})
       /\ Left("redacted") = Cardinality({i \in DOMAIN text : text[i] \in {"entry", "child"} /\ Under(text, i)})
       /\ Left("entry") + Left("child") = Cardinality({i \in DOMAIN text : text[i] \in {"entry", "child"} /\ ~ Under(text, i)})
       /\ Left("deep") = Cardinality({i \in DOMAIN text : text[i] = "deep" /\ ~ Dropped(text, i)})

(***************************************************************************)
(* What is on tape under a key is of that key, though answers come late:   *)
(* an ask given up on leaves nothing for the next, but for events, which   *)
(* are then none.  Events under a key are of whatever has its namespace    *)
(* and name, of any kind.  The published tape has the object of every row  *)
(* of the namespace it recorded, and what refers to its Secrets, unless an *)
(* ask came to nothing; a rollback change only with the plan it carries    *)
(* out, by one from the revision listed.                                   *)
(***************************************************************************)
TapeFits ==
    /\ \A e \in UNION {tape.objects, tape.logs, tape.consumers} : e.key = RowKey(e.of) /\ e.of \in tape.rows
    /\ \A e \in tape.events : \E t \in tape.rows :
          e.key = RowKey(t) /\ (e.of = NamedAs(t) \/ (e.of = {} /\ AskOf("events", t) \in missed))
    /\ \A p \in tape.plan : p.of \in tape.rows /\ p.to + 1 = tape.listedAt /\ p.from >= tape.listedAt
    /\ (\E c \in tape.pending : c # Scaled) => tape.plan # {}
    /\ (stage = "published" /\ missed = {}) =>
          /\ \A k \in Opened : \A t \in InHome(k) : RowKey(t) \in KeysOf(tape.objects)
          /\ \A t \in InHome("secrets") : t \in KeysOf(tape.consumers)
=============================================================================
