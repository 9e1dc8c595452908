---------------------------- MODULE MCDriftRender ----------------------------
(***************************************************************************)
(* An instance of DriftRender: a directory that may be an overlay with     *)
(* another one below it, a base beside it that may list it back, a base    *)
(* where no walk goes, and a chart that may also be an overlay.            *)
(***************************************************************************)
EXTENDS DriftRender

top    == <<"a">>
inner  == <<"a", "n">>
base   == <<"b">>
chart1 == <<"c">>
within == <<"c", "templates">>
hidden == <<"vendor">>

MCDirs    == {<<>>, top, inner, base, chart1, within, hidden}
MCSkipped == {".git", "node_modules", "vendor"}

Listings == {<<top, inner>>, <<top, base>>, <<inner, base>>, <<base, top>>, <<chart1, base>>, <<base, hidden>>}

MCTrees ==
    {[kust |-> {}, refs |-> [d \in MCDirs |-> {}], chart |-> {}, manifest |-> [d \in MCDirs |-> "none"]]} \cup
    {[kust |-> k, chart |-> c,
      refs |-> [d \in MCDirs |-> IF d \in k THEN {e \in MCDirs : <<d, e>> \in listed} ELSE {}],
      manifest |-> [d \in MCDirs |-> IF d = within THEN m ELSE IF d \in {<<>>, chart1} THEN "none" ELSE "plain"]] :
        k \in SUBSET {<<>>, top, inner, base, chart1, hidden}, c \in SUBSET {chart1},
        listed \in SUBSET Listings, m \in {"plain", "template"}}
    \cup {[kust |-> {<<>>, base}, chart |-> {chart1}, refs |-> [d \in MCDirs |-> IF d = <<>> THEN {base} ELSE {}],
           manifest |-> [d \in MCDirs |-> "plain"]]}
=============================================================================
