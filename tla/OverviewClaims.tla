--------------------------- MODULE OverviewClaims ---------------------------
(***************************************************************************)
(* What the overview says of a cluster: a sentence, a pill, a colour, the  *)
(* strip of signals and the list of what needs attention.  Each is worked  *)
(* out on its own from four subscriptions that fill in any order and go on *)
(* changing, and from a clock that ticks apart from them.  A row is its    *)
(* health; a warning is its age on that clock, negative when it is newer.  *)
(***************************************************************************)
EXTENDS Integers, FiniteSets, FiniteSetsExt

CONSTANTS PodNames, DeploymentNames, NodeNames,
          Buckets   \* buckets of the warnings histogram, each one unit of age wide

ASSUME OverviewAssumption == /\ Buckets \in Nat \ {0}
                             /\ IsFiniteSet(PodNames) /\ IsFiniteSet(DeploymentNames) /\ IsFiniteSet(NodeNames)

Feeds   == {"pods", "deployments", "nodes"}
NamesOf == [pods |-> PodNames, deployments |-> DeploymentNames, nodes |-> NodeNames]
Healths == [pods |-> {"ok", "warn", "bad"}, deployments |-> {"ok", "warn"}, nodes |-> {"ok", "warn"}]
Ages    == -1 .. Buckets

VARIABLES health,    \* the rows of each subscription: a health, or "gone"
          synced,    \* the subscriptions whose snapshot came
          ages       \* the warnings of the events subscription

overview == <<health, synced, ages>>

OverviewTypeOK ==
    /\ DOMAIN health = Feeds
    /\ \A f \in Feeds : health[f] \in [NamesOf[f] -> Healths[f] \cup {"gone"}]
    /\ synced \subseteq Feeds /\ ages \subseteq Ages

InHealth(f, hs) == {n \in NamesOf[f] : health[f][n] \in hs}
CountOf(f, hs) == Cardinality(InHealth(f, hs))
podsBad  == CountOf("pods", {"bad"})
podsWarn == CountOf("pods", {"warn"})
depsBad  == CountOf("deployments", {"warn", "bad"})
nodesBad == CountOf("nodes", {"warn", "bad"})
podsTotal   == CountOf("pods", {"ok", "warn", "bad"})
podsRunning == CountOf("pods", {"ok"})
nodesReady  == CountOf("nodes", {"ok"})

\* problems and the pill; the colour of the sentence; the list that needs attention.
problems == {p \in {<<"nodes", nodesBad, "bad">>, <<"pods", podsBad, "bad">>,
                    <<"deployments", depsBad, "bad">>, <<"pending", podsWarn, "warn">>} : p[2] > 0}
healthy == \A p \in problems : p[3] # "bad"
tone == IF podsBad > 0 \/ depsBad > 0 \/ nodesBad > 0 THEN "bad" ELSE IF podsWarn > 0 THEN "warn" ELSE "ok"
\* Mutant: only what is bad needs attention, whatever it is.
attentionBad == {a \in Feeds \X UNION {NamesOf[f] : f \in Feeds} : a[2] \in InHealth(a[1], {"bad"})}

attention == {a \in Feeds \X UNION {NamesOf[f] : f \in Feeds} :
                  a[2] \in InHealth(a[1], IF a[1] = "pods" THEN {"bad"} ELSE {"warn", "bad"})}

\* sentence: its lead, and the number it gives for each thing it names.
Clauses(lead, fs) == [lead |-> lead, says |-> {c \in fs : c[2] > 0}]
sentence ==
    CASE podsBad > 0 -> Clauses("failing", {<<"pods", podsBad>>, <<"deployments", depsBad>>, <<"nodes", nodesBad>>})
      [] podsBad = 0 /\ (depsBad > 0 \/ nodesBad > 0) ->
             Clauses("degraded", {<<"deployments", depsBad>>, <<"nodes", nodesBad>>})
      [] podsBad + depsBad + nodesBad + podsTotal = 0 -> Clauses("empty", {})
      [] podsBad + depsBad + nodesBad = 0 /\ podsTotal > 0 /\ podsWarn > 0 ->
             Clauses("partly", {<<"ready", podsRunning>>, <<"total", podsTotal>>, <<"pending", podsWarn>>})
      [] OTHER -> Clauses("all", {<<"total", podsTotal>>})

\* The warnings of the last hour, and the bars of their histogram.
warnings == {a \in ages : a < Buckets}
\* Mutant: the bucket of an age is rounded up.
warnHistUp == [i \in 0 .. Buckets - 1 |-> Cardinality({a \in warnings : Buckets - a + 1 = i})]

warnHist == [i \in 0 .. Buckets - 1 |-> Cardinality({a \in warnings : Buckets - a = i})]

\* The subscriptions: a snapshot, a delta of one row, a scope that moves, and the clock.
Snapshot(f) ==
    /\ f \notin synced
    /\ synced' = synced \cup {f}
    /\ \E h \in [NamesOf[f] -> Healths[f] \cup {"gone"}] : health' = [health EXCEPT ![f] = h]
    /\ UNCHANGED ages
Delta(f, n) ==
    /\ f \in synced
    /\ \E h \in Healths[f] \cup {"gone"} : health' = [health EXCEPT ![f][n] = h]
    /\ UNCHANGED <<synced, ages>>
Nothing(f) == [n \in NamesOf[f] |-> "gone"]
Rescope(fs) ==    \* a namespace leaves the nodes as they are
    /\ fs \in {Feeds, Feeds \ {"nodes"}}
    /\ synced' = synced \ fs
    /\ health' = [f \in Feeds |-> IF f \in fs THEN Nothing(f) ELSE health[f]]
    /\ ages' = {}
Warned == /\ \E a \in {-1, 0} : ages' = ages \cup {a}
          /\ UNCHANGED <<health, synced>>
Tick == /\ ages' = {a + 1 : a \in {b \in ages : b < Buckets}}
        /\ UNCHANGED <<health, synced>>

OverviewInit == health = [f \in Feeds |-> Nothing(f)] /\ synced = {} /\ ages = {}
OverviewNext ==
    \/ \E f \in Feeds : Snapshot(f) \/ (\E n \in NamesOf[f] : Delta(f, n)) \/ Rescope(Feeds) \/ Rescope(Feeds \ {f})
    \/ Warned \/ Tick
OverviewSpec == OverviewInit /\ [][OverviewNext]_overview

(***************************************************************************)
(* Once synced, the pill, the colour and the attention list agree on       *)
(* whether something is wrong; the sentence names as many failing pods,    *)
(* deployments and nodes as the list has lines, or says all pods are ready *)
(* and is right; its numbers of ready, pending and all pods add up.        *)
(***************************************************************************)
ClaimsAgree ==
    synced = Feeds =>
        /\ healthy <=> attention = {}
        /\ healthy <=> tone # "bad"
        /\ \A f \in Feeds : LET n == Cardinality({a \in attention : a[1] = f})
                            IN n > 0 => <<f, n>> \in sentence.says
        /\ sentence.lead = "all" => podsRunning = podsTotal /\ nodesBad = 0
        /\ sentence.lead = "partly" => podsRunning + podsWarn = podsTotal

\* The histogram has every warning counted beside it but those newer than the clock.
HistogramCounts == MapThenSumSet(LAMBDA i : warnHist[i], DOMAIN warnHist) = Cardinality({a \in warnings : a > 0})
=============================================================================
