---------------------------- MODULE DriftCapture ----------------------------
(***************************************************************************)
(* CaptureToBranch: objects that run with no file behind them are written  *)
(* into a repository the person chose and committed on a new branch.  Each *)
(* git command is a process of its own, so the person, another window's    *)
(* capture, and the end of the engine come between any two; a command may  *)
(* fail, and one that was killed may have done its work.  They all run in  *)
(* the context of the window's link, so a lost link is a failure of every  *)
(* command from then on, the one that goes back among them.                *)
(*                                                                         *)
(* A tree is a set of files, a file its path and what wrote it.  Of the    *)
(* working tree only what the branch checked out does not have is kept.    *)
(***************************************************************************)
EXTENDS Naturals, Sequences, FiniteSets

CONSTANTS Windows,        \* those who may ask for a capture at the same time
          LiveObjects,    \* what runs with no file behind it
          FileNameFor,    \* the file each is written to: two may share one
          Batches,        \* the objects of a request, in order
          Paths, Ignored, \* files, and those .gitignore hides
          Main, Detached, \* the branch there is, and a head on no branch
          CaptureBranches, \* names requests give; a generated one is as fine as the minute
          Person, NoTree,
          MaxActs         \* bound: what the person does in one behaviour

ASSUME CaptureAssumption ==
    /\ FileNameFor \in [LiveObjects -> Paths] /\ Ignored \subseteq Paths
    /\ \A b \in Batches : b # <<>> /\ b \in Seq(LiveObjects)
    /\ Person \notin LiveObjects /\ {Main, Detached} \cap CaptureBranches = {} /\ Main # Detached
    /\ MaxActs \in Nat /\ \A fs \in SUBSET [path : Paths, by : LiveObjects \cup {Person}] : fs # NoTree

VARIABLES head,      \* what is checked out
          tree,      \* what each ref has committed
          work,      \* files of the working tree that it has not
          staged,    \* those of them in the index
          call,      \* of each window: where its capture is
          acts       \* what the person has done so far

capture == <<head, tree, work, staged, call, acts>>

Refs  == {Main, Detached} \cup CaptureBranches
Files == [path : Paths, by : LiveObjects \cup {Person}]
Points == {"idle", "clean", "started", "writing", "committing", "restoring", "done", "failed"}
Idle0 == [at |-> "idle", branch |-> Main, start |-> Main, batch |-> <<>>, written |-> 0,
          base |-> {}, made |-> FALSE, alone |-> TRUE]

CaptureTypeOK ==
    /\ head \in Refs /\ tree \in [Refs -> {NoTree} \cup SUBSET Files] /\ tree[head] # NoTree
    /\ work \subseteq Files /\ staged \subseteq work /\ acts \in 0 .. MaxActs
    /\ \A w \in Windows :
          /\ call[w].at \in Points /\ call[w].branch \in Refs /\ call[w].start \in Refs
          /\ call[w].batch \in Batches \cup {<<>>} /\ call[w].written \in 0 .. Len(call[w].batch)
          /\ call[w].base \subseteq Files /\ {call[w].made, call[w].alone} \subseteq BOOLEAN

FileOf(o)  == [path |-> FileNameFor[o], by |-> o]
FilesOf(c) == {FileOf(c.batch[i]) : i \in 1 .. c.written}
PathsOf(fs) == {f.path : f \in fs}
Present    == tree[head] \cup work
UnderWay(w) == call[w].at \notin {"idle", "done", "failed"}
Goes(w, at)  == call' = [call EXCEPT ![w].at = at]
Crossed(c) == [c EXCEPT !.alone = FALSE, !.base = {}, !.made = FALSE]
Forget(w)  == call' = [call EXCEPT ![w] = Idle0]      \* an end nothing is claimed of
End(w, at) == call' = [call EXCEPT ![w] = IF @.alone THEN [@ EXCEPT !.at = at] ELSE Idle0]

\* Mutant: the working tree is not looked at.
NeverDirty == FALSE

\* isGitRepo, hasUncommittedChanges: what .gitignore hides is not seen.  A refusal changes nothing.
Seen(f) == f.path \notin Ignored \/ f \in staged
Dirty == \E f \in work : Seen(f)
Begin(w) ==
    /\ ~ UnderWay(w) /\ ~ Dirty
    /\ \E b \in CaptureBranches, os \in Batches :
          call' = [v \in Windows |->
              IF v = w THEN [Idle0 EXCEPT !.at = "clean", !.branch = b, !.batch = os,
                                          !.alone = \A u \in Windows \ {w} : ~ UnderWay(u)]
              ELSE IF UnderWay(v) THEN Crossed(call[v]) ELSE Idle0]
    /\ UNCHANGED <<head, tree, work, staged, acts>>

\* currentBranch, then checkout -b.  A head on no branch reads as "HEAD".  An error of either
\* returns, also when the command was killed with its work done.
ReadBranch(w) ==
    /\ call[w].at = "clean"
    /\ \/ call' = [call EXCEPT ![w].at = "started", ![w].start = head, ![w].base = IF call[w].alone THEN tree[head] ELSE {}]
       \/ Forget(w)
    /\ UNCHANGED <<head, tree, work, staged, acts>>
Branched(w) == head' = call[w].branch /\ tree' = [tree EXCEPT ![call[w].branch] = tree[head]]
NewBranch(w) ==
    /\ call[w].at = "started"
    /\ LET free == tree[call[w].branch] = NoTree
       IN \/ free /\ Branched(w) /\ call' = [call EXCEPT ![w].at = "writing", ![w].made = call[w].alone]
          \/ free /\ Branched(w) /\ Forget(w)
          \/ End(w, "failed") /\ UNCHANGED <<head, tree>>
    /\ UNCHANGED <<work, staged, acts>>

\* O_EXCL: a path that is there is refused, and a write that fails leaves the file.
Put(o) == FileNameFor[o] \notin PathsOf(Present) /\ work' = work \cup {FileOf(o)}
WriteFile(w) ==
    /\ call[w].at = "writing" /\ call[w].written < Len(call[w].batch)
    /\ LET o == call[w].batch[call[w].written + 1]
       IN \/ Put(o) /\ call' = [call EXCEPT ![w].written = @ + 1]
          \/ Put(o) /\ call' = [call EXCEPT ![w].written = @ + 1, ![w].at = "restoring"]
          \/ Goes(w, "restoring") /\ UNCHANGED work
    /\ UNCHANGED <<head, tree, staged, acts>>

\* git add of the files written: one that is gone fails it whole, a hidden one is left out and
\* fails it after the rest.
Add(w) ==
    /\ call[w].at = "writing" /\ call[w].written = Len(call[w].batch)
    /\ LET paths  == PathsOf(FilesOf(call[w]))
           adds   == {f \in work : f.path \in paths \ Ignored}
           fails  == paths \cap Ignored # {} \/ ~ paths \subseteq PathsOf(Present)
       IN \/ ~ fails /\ staged' = staged \cup adds /\ Goes(w, "committing")
          \/ Goes(w, "restoring") /\ staged' = staged \cup (IF paths \subseteq PathsOf(Present) THEN adds ELSE {})
          \/ Goes(w, "restoring") /\ UNCHANGED staged
    /\ UNCHANGED <<head, tree, work, acts>>

\* git commit takes the whole index, to whatever is checked out; an empty one is an error.  The
\* push that may follow touches nothing here, and what it meets is told with the success.
Committed == /\ staged # {} /\ tree' = [tree EXCEPT ![head] = @ \cup staged]
             /\ work' = work \ staged /\ staged' = {}
Commit(w) ==
    /\ call[w].at = "committing"
    /\ \/ Committed /\ End(w, "done")
       \/ Committed /\ Goes(w, "restoring")
       \/ Goes(w, "restoring") /\ UNCHANGED <<tree, work, staged>>
    /\ UNCHANGED <<head, acts>>

\* git checkout keeps what is not committed, and refuses when the other branch has its path,
\* but for a hidden file, which it writes over.
Switchable(r) == tree[r] # NoTree /\ \A f \in work : Seen(f) => f.path \notin PathsOf(tree[r])
Switch(r)     == head' = r /\ work' = {f \in work : f.path \notin PathsOf(tree[r])}

\* restore, in the same context: its error is ignored, and "HEAD" is where the head is.
Restore(w) ==
    /\ call[w].at = "restoring"
    /\ \/ /\ Switchable(call[w].start) /\ End(w, "failed")
          /\ IF call[w].start = Detached THEN UNCHANGED <<head, work>> ELSE Switch(call[w].start)
       \/ Forget(w) /\ UNCHANGED <<head, work>>
    /\ UNCHANGED <<tree, staged, acts>>

\* The engine stops, with every capture wherever it is.
EngineStops == /\ \E w \in Windows : UnderWay(w)
               /\ call' = [w \in Windows |-> Idle0]
               /\ UNCHANGED <<head, tree, work, staged, acts>>

\* The person, who may do this at any time: a file written, with or without git add, a commit of
\* the index, a tree cleaned of what is not committed, another branch.
PersonWrites(p) ==
    /\ p \notin PathsOf(Present) /\ work' = work \cup {[path |-> p, by |-> Person]}
    /\ staged' \in {staged, staged \cup {[path |-> p, by |-> Person]}}
    /\ UNCHANGED <<head, tree>>
PersonCommits == Committed /\ UNCHANGED head
PersonCleans  == work # {} /\ work' = {} /\ staged' = {} /\ UNCHANGED <<head, tree>>
PersonSwitches(r) == r # head /\ Switchable(r) /\ Switch(r) /\ UNCHANGED <<tree, staged>>
PersonActs ==
    /\ acts < MaxActs /\ acts' = acts + 1
    /\ PersonCommits \/ PersonCleans \/ (\E p \in Paths : PersonWrites(p)) \/ (\E r \in Refs : PersonSwitches(r))
    /\ call' = [w \in Windows |-> IF UnderWay(w) THEN Crossed(call[w]) ELSE Idle0]

(***************************************************************************)
(* stripSecretData over the shapes of data and stringData: absent, no map, *)
(* an empty map, or a map with values.  What it leaves of each, and        *)
(* whether it reports having taken something.                              *)
(***************************************************************************)
Shapes == {"absent", "odd", "empty", "values"}
stripSecretData(data, stringData) ==
    IF data = "values" THEN [data |-> "absent", stringData |-> "placeholders", told |-> TRUE]
    ELSE [data |-> IF data = "odd" THEN "absent" ELSE data,
          stringData |-> CASE stringData = "odd"    -> "absent"
                           [] stringData = "values" -> "placeholders"
                           [] OTHER                 -> stringData,
          told |-> "odd" \in {data, stringData} \/ stringData = "values"]

CaptureInit ==
    /\ head \in {Main, Detached} /\ work = {} /\ staged = {}
    /\ \E fs \in {{}} \cup {{[path |-> p, by |-> Person]} : p \in Paths} :
          tree = [r \in Refs |-> IF r \in {Main, Detached} THEN fs ELSE NoTree]
    /\ call = [w \in Windows |-> Idle0] /\ acts = 0

CaptureNext ==
    \/ \E w \in Windows : \/ Begin(w) \/ ReadBranch(w) \/ NewBranch(w) \/ WriteFile(w)
                          \/ Add(w) \/ Commit(w) \/ Restore(w)
    \/ EngineStops \/ PersonActs

CaptureSpec == CaptureInit /\ [][CaptureNext]_capture

\* No value is left, a Secret without values is left as it is, and what was taken is told.
SecretsStripped ==
    \A d, s \in Shapes : LET out == stripSecretData(d, s)
                         IN /\ {out.data, out.stringData} \cap {"odd", "values"} = {}
                            /\ out.told <=> <<out.data, out.stringData>> # <<d, s>>

\* Whoever runs at the same time, a capture writes no path where a file is: none has two.  What
\* git itself replaces when it switches branches, a file .gitignore hides, is not claimed here.
NothingWrittenOver == \A f, g \in Present : f.path = g.path => f = g

(***************************************************************************)
(* A capture that nobody came between.  Under way, and on its way back: no *)
(* branch but its own has changed, and that one holds all of its objects   *)
(* or none.  Done: it is checked out and holds what it was made from and   *)
(* every object asked for, and nothing that a capture before it left       *)
(* behind.  Failed, and its checkout back went through: the person is back *)
(* where they started, unless that was on no branch.  Where that checkout  *)
(* was refused nothing is claimed of where they are (Restore forgets it).  *)
(***************************************************************************)
Alone ==
    \A w \in Windows :
        LET c == call[w]
            own == {FileOf(c.batch[i]) : i \in DOMAIN c.batch}
        IN c.alone =>
            /\ c.at \notin {"idle", "clean"} => tree[c.start] = c.base /\ head \in {c.start, c.branch}
            /\ c.made => tree[c.branch] \in {c.base, c.base \cup own}
            /\ c.at = "done"   => head = c.branch /\ tree[head] = c.base \cup own
            /\ c.at = "failed" => head = c.start \/ c.start = Detached

(***************************************************************************)
(* A capture nobody came between changes no branch but its own, and that   *)
(* by its own objects (Alone).  No capture writes where a file is, also    *)
(* when two of them and the person work at once (NothingWrittenOver), and  *)
(* no value of a Secret reaches a file (SecretsStripped).                  *)
(***************************************************************************)
CaptureHoldsItsOwn == Alone /\ NothingWrittenOver /\ SecretsStripped
=============================================================================
