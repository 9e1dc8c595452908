------------------------------ MODULE DriftScan ------------------------------
(***************************************************************************)
(* drift.Scan, and the command that ends on its report.  A repository's    *)
(* documents are looked up in the cluster one by one, each by a read and a *)
(* dry-run update; then the kinds worth a look are listed; others write to *)
(* the cluster meanwhile.  An object is [kind, ns, name], of namespace     *)
(* "none" when it has none, and what is in it is a body.                   *)
(***************************************************************************)
EXTENDS Integers, Sequences, FiniteSets

CONSTANTS Keys,            \* the objects there can be in the cluster
          Namespaced,      \* the kinds that live in a namespace
          UnmanagedKinds,  \* the kinds listed, in order
          Ignored,         \* objects of a system namespace, owned, generated, or the cluster's by name
          Bodies,
          Documents,       \* [kind, ns, name, body]
          Repositories,    \* what render can return: sequences of documents
          ScanRequests,        \* [ns, unmanaged, mayUpdate]: the flags, and what the credential allows
          MaxWrites        \* bound: writes to the cluster

Absent == [version |-> 0, body |-> "absent"]

ASSUME DriftAssumption ==
    /\ MaxWrites \in Nat /\ "absent" \notin Bodies /\ UnmanagedKinds \in Seq(Namespaced)
    /\ IsFiniteSet(Keys) /\ \A k \in Keys : k.kind \in Namespaced => k.ns # "none"
    /\ Repositories \subseteq Seq(Documents) /\ \A d \in Documents : d.body \in Bodies
    /\ \A r \in ScanRequests : {r.unmanaged, r.mayUpdate} \subseteq BOOLEAN

VARIABLES live,      \* the cluster
          writes,    \* how many there were; an object's version is its last
          request, docs,
          phase, at, \* which loop, and how far
          read,      \* live, as read for the document at hand
          items, summary,
          exit,      \* the command's exit code, -1 while it runs
          was,       \* the bodies each object had since the scan began
          unlisted   \* the kinds whose list failed

drift == <<live, writes, request, docs, phase, at, read, items, summary, exit, was, unlisted>>

Phases == {"render", "get", "update", "list", "done", "failed"}
States == {"missing", "modified", "in-sync", "unmanaged"}
Cells  == {Absent} \cup [version : Nat, body : Bodies]

\* The namespace a document is taken to be in, and what is looked up for it.
NsOf(d)  == IF d.ns = "none" /\ d.kind \in Namespaced THEN request.ns ELSE d.ns
Key(kind, ns, name) == [kind |-> kind, ns |-> ns, name |-> name]
KeyOf(d) == Key(d.kind, NsOf(d), d.name)
Path(d)  == IF d.kind \in Namespaced THEN KeyOf(d) ELSE Key(d.kind, "none", d.name)
LiveAt(k) == IF k \in Keys THEN live[k] ELSE Absent
WasAt(k)  == IF k \in Keys THEN was[k] ELSE {"absent"}

\* Mutant: the namespace is filled in after the document is noted.
knownRaw == {Key(docs[i].kind, docs[i].ns, docs[i].name) : i \in DOMAIN docs}

known  == {KeyOf(docs[i]) : i \in DOMAIN docs}
repoNS == {NsOf(docs[i]) : i \in DOMAIN docs} \ {"none"}
Scoped(k) == IF request.ns # "none" THEN k.ns = request.ns ELSE k.ns \in repoNS

DriftTypeOK ==
    /\ live \in [Keys -> Cells] /\ writes \in 0 .. MaxWrites /\ request \in ScanRequests
    /\ docs \in Repositories \cup {<<>>} /\ phase \in Phases /\ at \in Nat /\ read \in Cells
    /\ \A i \in items : i.state \in States /\ i.error \in {"none", "get", "update"}
    /\ summary \in [States -> Nat] /\ exit \in -1 .. 2
    /\ was \in [Keys -> SUBSET (Bodies \cup {"absent"})] /\ unlisted \subseteq Namespaced

Render ==
    /\ phase = "render"
    /\ was' = [k \in Keys |-> {live[k].body}]
    /\ \/ \E repo \in Repositories : docs' = repo /\ phase' = "get" /\ at' = 1 /\ UNCHANGED exit
       \/ phase' = "failed" /\ exit' = 2 /\ UNCHANGED <<docs, at>>
    /\ UNCHANGED <<live, writes, request, read, items, summary, unlisted>>

\* One document's result; a failed read alone is not counted.
Conclude(state, error) ==
    /\ items' = items \cup {[doc |-> at, key |-> KeyOf(docs[at]), state |-> state, error |-> error]}
    /\ summary' = IF error = "get" THEN summary ELSE [summary EXCEPT ![state] = @ + 1]
    /\ at' = at + 1 /\ phase' = "get" /\ read' = Absent
    /\ UNCHANGED <<live, writes, request, docs, exit, was, unlisted>>

Here == phase = "get" /\ at <= Len(docs)
Found == /\ Here /\ LiveAt(Path(docs[at])) # Absent
         /\ read' = LiveAt(Path(docs[at])) /\ phase' = "update"
         /\ UNCHANGED <<live, writes, request, docs, at, items, summary, exit, was, unlisted>>
NotFound == Here /\ LiveAt(Path(docs[at])) = Absent /\ Conclude("missing", "none")
\* Mutant: any error is taken for a 404.
GetFailsAsMissing == Here /\ Conclude("missing", "none")
\* Mutant: a failed read gets a state of its own, which no report has a heading for.
GetFailsUnread == Here /\ Conclude("unread", "get")

GetFails == Here /\ Conclude("modified", "get")

\* The dry run: taken if the object is as it was read and the credential may update, else refused;
\* an admission webhook or an immutable field refuses it too.
Accepted == /\ phase = "update" /\ request.mayUpdate /\ LiveAt(Path(docs[at])) = read
            /\ Conclude(IF read.body = docs[at].body THEN "in-sync" ELSE "modified", "none")
\* Mutant: a refusal is not counted, as a failed read is not.
RefusedUncounted ==
    /\ phase = "update"
    /\ items' = items \cup {[doc |-> at, key |-> KeyOf(docs[at]), state |-> "modified", error |-> "update"]}
    /\ at' = at + 1 /\ phase' = "get" /\ read' = Absent
    /\ UNCHANGED <<live, writes, request, docs, summary, exit, was, unlisted>>

Refused  == phase = "update" /\ Conclude("modified", "update")

DocsDone == /\ phase = "get" /\ at > Len(docs)
            /\ phase' = "list" /\ at' = IF request.unmanaged THEN 1 ELSE Len(UnmanagedKinds) + 1
            /\ UNCHANGED <<live, writes, request, docs, read, items, summary, exit, was, unlisted>>

Undeclared(kind) ==
    {k \in Keys : k.kind = kind /\ live[k] # Absent /\ k \notin Ignored /\ Scoped(k) /\ k \notin known}
Listed ==
    /\ phase = "list" /\ at <= Len(UnmanagedKinds)
    /\ LET extra == Undeclared(UnmanagedKinds[at])
       IN /\ items' = items \cup {[doc |-> 0, key |-> k, state |-> "unmanaged", error |-> "none"] : k \in extra}
          /\ summary' = [summary EXCEPT !["unmanaged"] = @ + Cardinality(extra)]
    /\ at' = at + 1
    /\ UNCHANGED <<live, writes, request, docs, phase, read, exit, was, unlisted>>
ListFails ==
    /\ phase = "list" /\ at <= Len(UnmanagedKinds)
    /\ unlisted' = unlisted \cup {UnmanagedKinds[at]} /\ at' = at + 1
    /\ UNCHANGED <<live, writes, request, docs, phase, read, items, summary, exit, was>>

\* The report is complete, and the command ends on its numbers.
Finish ==
    /\ phase = "list" /\ at > Len(UnmanagedKinds)
    /\ phase' = "done"
    /\ exit' = IF summary["missing"] + summary["modified"] + summary["unmanaged"] > 0 THEN 1 ELSE 0
    /\ UNCHANGED <<live, writes, request, docs, at, read, items, summary, was, unlisted>>

\* Somebody else creates, edits or deletes an object.
Write(k, body) ==
    /\ writes < MaxWrites /\ phase \notin {"done", "failed"} /\ live[k].body # body
    /\ writes' = writes + 1
    /\ live' = [live EXCEPT ![k] = IF body = "absent" THEN Absent ELSE [version |-> writes + 1, body |-> body]]
    /\ was' = [was EXCEPT ![k] = @ \cup {body}]
    /\ UNCHANGED <<request, docs, phase, at, read, items, summary, exit, unlisted>>

DriftInit ==
    /\ live \in [Keys -> {Absent} \cup [version : {0}, body : Bodies]] /\ writes = 0 /\ request \in ScanRequests
    /\ docs = <<>> /\ phase = "render" /\ at = 1 /\ read = Absent /\ items = {}
    /\ summary = [s \in States |-> 0] /\ exit = -1 /\ was = [k \in Keys |-> {}] /\ unlisted = {}
Scanning == Render \/ Found \/ NotFound \/ GetFails \/ Accepted \/ Refused \/ DocsDone \/ Listed \/ ListFails \/ Finish
DriftNext == Scanning \/ \E k \in Keys, body \in Bodies \cup {"absent"} : Write(k, body)
DriftSpec == DriftInit /\ [][DriftNext]_drift

(***************************************************************************)
(* Whatever is written meanwhile: what the report says of an object was so *)
(* at some time during the scan, unless the lookup failed.                 *)
(***************************************************************************)
Fits(state, had, mine) ==
    /\ state = "missing"  => "absent" \in had
    /\ state = "in-sync"  => mine \in had
    /\ state = "modified" => had \ {"absent", mine} # {}
ReportTrue ==
    \A i \in items : i.error = "none" =>
        IF i.doc = 0 THEN WasAt(i.key) \ {"absent"} # {}
                     ELSE Fits(i.state, WasAt(Path(docs[i.doc])), docs[i.doc].body)

\* A finished report has each document once and nothing both declared and unmanaged, and misses
\* no object that was there all along in a namespace and of a kind it listed.
ReportWhole ==
    phase = "done" =>
        /\ \A d \in DOMAIN docs : \E i \in items : i.doc = d /\ \A j \in items : j.doc = d => j = i
        /\ \A i \in items : i.state = "unmanaged" => i.key \notin {KeyOf(docs[d]) : d \in DOMAIN docs}
        /\ request.unmanaged =>
               \A k \in Keys : ("absent" \notin was[k] /\ k \notin Ignored /\ Scoped(k) /\ k.kind \notin unlisted
                                /\ \E n \in DOMAIN UnmanagedKinds : UnmanagedKinds[n] = k.kind)
                               => \E i \in items : i.key = k

\* The exit code is 0 when every document that could be read is in sync and nothing is unmanaged,
\* and 1 when not.
ExitTells ==
    phase = "done" => (exit = IF \A i \in items : i.state = "in-sync" \/ i.error = "get" THEN 0 ELSE 1)

\* What a finished report leaves out or repeats, and what the command makes of it.
ReportTells == ReportWhole /\ ExitTells

(***************************************************************************)
(* What the documentation says beyond that.                                *)
(***************************************************************************)
\* docs/cli.md: "0 | The cluster matches the repository."
ZeroMeansMatch == exit = 0 => \A d \in DOMAIN docs : \E i \in items : i.doc = d /\ i.state = "in-sync"

\* docs/cli.md: "Restrict the comparison to one namespace."
OneNamespace == request.ns # "none" => \A i \in items : i.key.ns \in {request.ns, "none"}

\* docs/cli.md: "a read-only credential is enough": with one, what is reported as modified is.
ReadOnlyIsEnough ==
    ~ request.mayUpdate =>
        \A i \in items : i.error # "get" /\ i.state = "modified" => WasAt(Path(docs[i.doc])) # {docs[i.doc].body}
=============================================================================
