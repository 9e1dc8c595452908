--------------------------- MODULE SessionFactories ---------------------------
(***************************************************************************)
(* The informer factories of one session, shared by reference count:       *)
(* engine/internal/cluster/registry.go, Session.Factory and Session.Start, *)
(* as watch.Resources uses them.                                           *)
(*                                                                         *)
(* A holder is one call of Factory, with the release func it returned.  A  *)
(* factoryEntry is named after the holder whose call made it.  Factory,    *)
(* Start and the release each take s.mu on their own, so between them      *)
(* other holders come and go.                                              *)
(***************************************************************************)
EXTENDS Integers, FiniteSets

CONSTANTS
    Holders,      \* calls of Session.Factory
    Namespaces,
    Kinds,
    None

ASSUME HoldersAssumption == IsFiniteSet(Holders) /\ None \notin Holders

VARIABLES
    factories,    \* s.factories: the entry of each namespace, or None
    refs,         \* refs[e]: factoryEntry.refs
    closings,     \* closings[e]: how often e.stop was closed
    registered,   \* registered[e]: kinds with an informer in e.f
    running,      \* running[e]: kinds whose informer runs until e.stop closes
    hold,         \* hold[h]: what h holds and how far it got
    leaked        \* an informer was started on the session's own stop channel

factoryVars ==
    <<factories, refs, closings, registered, running, hold, leaked>>

Unheld == [phase |-> "none", entry |-> None, ns |-> None, kind |-> None]

FactoriesInit ==
    /\ factories = [ns \in Namespaces |-> None]
    /\ refs = [e \in Holders |-> 0]
    /\ closings = [e \in Holders |-> 0]
    /\ registered = [e \in Holders |-> {}]
    /\ running = [e \in Holders |-> {}]
    /\ hold = [h \in Holders |-> Unheld]
    /\ leaked = FALSE

\* Mutant: a holder is counted only when it makes the entry.
FactoryCountsFirst(h, ns, kind) ==
    /\ hold[h] = Unheld
    /\ LET e == IF factories[ns] = None THEN h ELSE factories[ns]
       IN  /\ factories' = [factories EXCEPT ![ns] = e]
           /\ refs' = [refs EXCEPT ![e] = 1]
           /\ registered' = [registered EXCEPT ![e] = @ \cup {kind}]
           /\ hold' = [hold EXCEPT ![h] = [phase |-> "acquired", entry |-> e,
                                           ns |-> ns, kind |-> kind]]
    /\ UNCHANGED <<closings, running, leaked>>

\* Factory(ns), and ForResource on what it returned.
Factory(h, ns, kind) ==
    /\ hold[h] = Unheld
    /\ LET e == IF factories[ns] = None THEN h ELSE factories[ns]
       IN  /\ factories' = [factories EXCEPT ![ns] = e]
           /\ refs' = [refs EXCEPT ![e] = @ + 1]
           /\ registered' = [registered EXCEPT ![e] = @ \cup {kind}]
           /\ hold' = [hold EXCEPT ![h] = [phase |-> "acquired", entry |-> e,
                                           ns |-> ns, kind |-> kind]]
    /\ UNCHANGED <<closings, running, leaked>>

\* Start(f) looks f up among the entries; for one that is not there the stop
\* channel is the session's, which nothing closes before the process ends.
Start(h) ==
    /\ hold[h].phase = "acquired"
    /\ LET e == hold[h].entry
       IN  /\ running' = [running EXCEPT ![e] = @ \cup registered[e]]
           /\ leaked' = (leaked \/ \A ns \in Namespaces : factories[ns] # e)
    /\ hold' = [hold EXCEPT ![h].phase = "started"]
    /\ UNCHANGED <<factories, refs, closings, registered>>

\* Mutant: the entry stays in the map when its last holder goes.
ReleaseKeepsEntry(h) ==
    /\ hold[h].phase \in {"acquired", "started"}
    /\ LET e == hold[h].entry
       IN  /\ refs' = [refs EXCEPT ![e] = @ - 1]
           /\ IF refs[e] > 1 THEN UNCHANGED <<closings, running>>
              ELSE /\ closings' = [closings EXCEPT ![e] = @ + 1]
                   /\ running' = [running EXCEPT ![e] = {}]
    /\ hold' = [hold EXCEPT ![h].phase = "released"]
    /\ UNCHANGED <<factories, registered, leaked>>

\* Mutant: the last but one holder stops the informers.
ReleaseEarly(h) ==
    /\ hold[h].phase \in {"acquired", "started"}
    /\ LET e == hold[h].entry
       IN  /\ refs' = [refs EXCEPT ![e] = @ - 1]
           /\ IF refs[e] > 2
              THEN UNCHANGED <<factories, closings, running>>
              ELSE /\ closings' = [closings EXCEPT ![e] = @ + 1]
                   /\ running' = [running EXCEPT ![e] = {}]
                   /\ factories' = [factories EXCEPT ![hold[h].ns] =
                                      IF @ = e THEN None ELSE @]
    /\ hold' = [hold EXCEPT ![h].phase = "released"]
    /\ UNCHANGED <<registered, leaked>>

\* The release func: the last holder of an entry closes its stop channel,
\* which ends its informers, and takes it out of the map.
Release(h) ==
    /\ hold[h].phase \in {"acquired", "started"}
    /\ LET e == hold[h].entry
       IN  /\ refs' = [refs EXCEPT ![e] = @ - 1]
           /\ IF refs[e] > 1
              THEN UNCHANGED <<factories, closings, running>>
              ELSE /\ closings' = [closings EXCEPT ![e] = @ + 1]
                   /\ running' = [running EXCEPT ![e] = {}]
                   /\ factories' = [factories EXCEPT ![hold[h].ns] =
                                      IF @ = e THEN None ELSE @]
    /\ hold' = [hold EXCEPT ![h].phase = "released"]
    /\ UNCHANGED <<registered, leaked>>

FactoriesNext ==
    \E h \in Holders :
      \/ \E ns \in Namespaces, kind \in Kinds : Factory(h, ns, kind)
      \/ Start(h)
      \/ Release(h)

FactoriesSpec == FactoriesInit /\ [][FactoriesNext]_factoryVars

-----------------------------------------------------------------------------
(* Properties.                                                             *)

Holds(h, e) ==
    hold[h].phase \in {"acquired", "started"} /\ hold[h].entry = e

\* Types.
FactoriesTypeOK ==
    /\ factories \in [Namespaces -> Holders \cup {None}]
    /\ refs \in [Holders -> Nat]
    /\ closings \in [Holders -> Nat]
    /\ registered \in [Holders -> SUBSET Kinds]
    /\ running \in [Holders -> SUBSET Kinds]
    /\ hold \in [Holders ->
                   {Unheld} \cup
                   [phase : {"acquired", "started", "released"},
                    entry : Holders, ns : Namespaces, kind : Kinds]]
    /\ leaked \in BOOLEAN

\* The informer a subscription listens to runs for as long as it holds its
\* factory, whoever else lets go of the same factory meanwhile, and a new
\* subscription to the namespace shares it: there is one open factory for each
\* namespace that somebody holds.
HeldKeepsRunning ==
    \A h \in Holders : hold[h].phase \in {"acquired", "started"} =>
      /\ closings[hold[h].entry] = 0
      /\ factories[hold[h].ns] = hold[h].entry
      /\ hold[h].phase = "started" => hold[h].kind \in running[hold[h].entry]

\* "An informer nobody is watching is not idle": when the last holder of a
\* factory has let go nothing of it runs, its stop channel was closed once (a
\* second close would panic) and no later subscription can get it.
NothingLeftRunning ==
    /\ ~leaked
    /\ \A e \in Holders :
         /\ closings[e] <= 1
         /\ (\A h \in Holders : ~Holds(h, e)) =>
              /\ running[e] = {}
              /\ \A ns \in Namespaces : factories[ns] # e
=============================================================================
