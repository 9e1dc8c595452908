----------------------------- MODULE DriftRender -----------------------------
(***************************************************************************)
(* drift.render: how a directory of YAML becomes the objects it declares.  *)
(* Kustomize roots and Helm charts are found first, each is built as a     *)
(* whole, and what is left is read file by file.  A directory is its path, *)
(* the sequence of names below the one given, and stands for the manifest  *)
(* in it: one that can be read as it is, a template, or none.  Where there *)
(* is a kustomization the manifest is one that it lists.                   *)
(***************************************************************************)
EXTENDS Integers, Sequences

CONSTANTS Dirs,     \* paths
          Skipped,  \* names of directories no walk enters: .git, node_modules, vendor
          Trees     \* what a repository can be

Layouts == [kust : SUBSET Dirs,               \* directories with a kustomization
            refs : [Dirs -> SUBSET Dirs],     \* the directories it lists
            chart : SUBSET Dirs,              \* directories with a Chart.yaml
            manifest : [Dirs -> {"none", "plain", "template"}]]

ASSUME RenderAssumption ==
    /\ Dirs \subseteq Seq(STRING) /\ Trees \subseteq Layouts
    /\ \A t \in Trees : \A d \in Dirs \ t.kust : t.refs[d] = {}

VARIABLES tree,
          built,  \* the roots and charts built so far
          out,    \* [dir, how, by]: whose manifest was taken, how, and in which build
          ended   \* "no", "done", "failed"

render == <<tree, built, out, ended>>

Inside(path, dir) == Len(dir) <= Len(path) /\ SubSeq(path, 1, Len(dir)) = dir
underAny(path, dirs) == \E d \in dirs : Inside(path, d)
Visible(dir) == \A i \in DOMAIN dir : dir[i] \notin Skipped

\* The walks that find roots do not descend into one.
Topmost(dirs) == {d \in dirs : Visible(d) /\ \A e \in dirs : Inside(d, e) => e = d}
found == Topmost(tree.kust)

\* Mutant: a root goes when it lists another.
dropListing == {d \in found : \A r \in found : r \notin tree.refs[d]}

\* A root that another root lists is an input to it.
dropBases == {d \in found : \A r \in found : d \notin tree.refs[r]}

charts == {c \in Topmost(tree.chart) : ~ underAny(c, found)}

\* Kustomize: what a build takes in, and whether it can end.
ClosedUnder(dirs) == \A d \in dirs : tree.refs[d] \subseteq dirs
Inputs(root) == LET enough == {all \in SUBSET Dirs : root \in all /\ ClosedUnder(all)}
                IN {d \in Dirs : \A all \in enough : d \in all}
Acyclic(dirs) == \A some \in SUBSET dirs : some # {} => \E d \in some : \A r \in some : d \notin tree.refs[r]
Buildable(root) == Inputs(root) \subseteq tree.kust /\ Acyclic(Inputs(root))

\* Helm: the templates, whether or not they use the template language.
InTemplates(dir, chart) == Inside(dir, Append(chart, "templates"))

With(dirs) == {d \in dirs : tree.manifest[d] # "none"}
\* Mutant: an empty rendering counts as an object.
TakenAll(dirs, how, by) == {[dir |-> d, how |-> how, by |-> by] : d \in dirs}
Taken(dirs, how, by) == {[dir |-> d, how |-> how, by |-> by] : d \in With(dirs)}

BuildKustomize(root) ==
    /\ ended = "no" /\ root \in {r \in dropBases \ built : Buildable(r)}
    /\ out' = out \cup Taken(Inputs(root), "kustomize", root) /\ built' = built \cup {root}
    /\ UNCHANGED <<tree, ended>>

BuildChart(chart) ==
    /\ ended = "no" /\ dropBases \subseteq built /\ chart \in charts \ built
    /\ out' = out \cup Taken({d \in Dirs : InTemplates(d, chart)}, "helm", chart) /\ built' = built \cup {chart}
    /\ UNCHANGED <<tree, ended>>

\* A build that fails for any reason fails the comparison: a remote reference, a link out of the
\* repository, a patch of nothing, a dependency that is not there.
BuildFails ==
    /\ ended = "no" /\ (dropBases \cup charts) \ built # {}
    /\ ended' = "failed" /\ out' = {} /\ UNCHANGED <<tree, built>>

\* The files that are read as they are: templates do not parse.
Raw(e, owned) == Visible(e) /\ ~ underAny(e, owned) /\ tree.manifest[e] = "plain"

\* Mutant: the walk skips the roots that were built, not all that were found.
leftByRoots == {e \in Dirs : Raw(e, dropBases)}
left        == {e \in Dirs : Raw(e, found)}

Walk ==
    /\ ended = "no" /\ (dropBases \cup charts) \subseteq built
    /\ out' = out \cup {[dir |-> d, how |-> "raw", by |-> d] : d \in left}
    /\ ended' = "done" /\ UNCHANGED <<tree, built>>

RenderInit == tree \in Trees /\ built = {} /\ out = {} /\ ended = "no"
RenderNext == (\E d \in Dirs : BuildKustomize(d) \/ BuildChart(d)) \/ BuildFails \/ Walk
RenderSpec == RenderInit /\ [][RenderNext]_render

RenderTypeOK ==
    /\ tree \in Layouts /\ built \subseteq dropBases \cup charts /\ ended \in {"no", "done", "failed"}
    /\ \A o \in out : o.dir \in Dirs /\ tree.manifest[o.dir] # "none" /\ (o.how = "raw" \/ o.by \in built)

Arrived == {o.dir : o \in out}

\* Unless roots list each other in a circle, nothing is lost on the way: a manifest is in some build
\* when any root takes it in, or a chart does, and in a file that was read when nothing claims it.
Owed == {d \in Dirs : \/ \E r \in found : d \in Inputs(r)
                      \/ \E c \in charts : InTemplates(d, c)
                      \/ d \in left}
NothingLost == ended = "done" /\ Acyclic(found) => With(Owed) \subseteq Arrived

\* What a kustomization delivers is patched: the same file is never read as it is too.
NoRawCopy == \A o, p \in out : o.how = "raw" /\ p.how = "kustomize" => o.dir # p.dir

\* No manifest is lost on the way to the comparison, and none that is patched gets there raw as
\* well.  Two kustomizations may both deliver one file.
RenderFits == NothingLost /\ NoRawCopy

(***************************************************************************)
(* What comments and tests say beyond that.                                *)
(***************************************************************************)
\* drift_test.go: "a kustomization that cannot build must fail loudly, not silently render nothing"
LoudOrWhole == ended = "done" => \A r \in found : With(Inputs(r)) \subseteq Arrived

\* drift_test.go: "a chart's files must only arrive through the helm build"
OnlyThroughHelm == \A o \in out : o.how = "raw" => \A c \in charts : ~ InTemplates(o.dir, c)

\* render.go: "Rendering both a base and the overlay that patches it reports the same object twice"
BaseOnce == \A r, s \in built \cap found : r # s => r \notin Inputs(s)
=============================================================================
