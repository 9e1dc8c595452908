----------------------------- MODULE MCDriftScan -----------------------------
(***************************************************************************)
(* An instance of DriftScan: one kind in a namespace, listed, and one that *)
(* is of the whole cluster; two namespaces; a document that names its      *)
(* namespace, one that does not, a second copy of it, and one of the       *)
(* cluster's kind that names a namespace all the same.                     *)
(***************************************************************************)
EXTENDS DriftScan

Shop  == Key("configmaps", "shop", "a")
Other == Key("configmaps", "other", "a")
Node  == Key("nodes", "none", "n")

MCKeys    == {Shop, Other, Node}
MCIgnored == {Other}  \* another object owns it

Doc(kind, ns, name, body) == [kind |-> kind, ns |-> ns, name |-> name, body |-> body]
Plain == Doc("configmaps", "none", "a", "x")
Named == Doc("configmaps", "other", "a", "y")
Whole == Doc("nodes", "shop", "n", "x")

MCDocuments    == {Plain, Named, Whole, [Plain EXCEPT !.body = "y"]}
MCRepositories == {<<>>, <<Plain>>, <<Plain, Named>>, <<Whole>>, <<Plain, [Plain EXCEPT !.body = "y"]>>}
\* A refusal may come to any credential; one that may only read gets nothing else.
MCScanRequests == [ns : {"none", "shop"}, unmanaged : BOOLEAN, mayUpdate : {TRUE}]
                  \cup {[ns |-> "shop", unmanaged |-> FALSE, mayUpdate |-> FALSE]}
MCKinds        == <<"configmaps">>
=============================================================================
