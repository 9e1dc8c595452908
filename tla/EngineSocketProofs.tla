-------------------------- MODULE EngineSocketProofs --------------------------
(***************************************************************************)
(* Proofs about EngineSocket, for any number of tables, requests,          *)
(* connections, streams and orders.                                        *)
(*                                                                         *)
(* The argument has three parts.  The streams hold factories as holders    *)
(* do, so what is proved of SessionFactories holds of the engine's.  A     *)
(* request is in one place at a time: the window's queue, one message of   *)
(* one connection, one goroutine, or carried out (OnceInv).  And the last  *)
(* thing the window said of a table is on its way to the engine, or the    *)
(* engine acts on it (WordInv), whichever connection it was said on.       *)
(***************************************************************************)
EXTENDS EngineSocket, FiniteSetTheorems, SequenceTheorems, TLAPS

(***************************************************************************)
(* The informer factories of a session, for any number of holders: while   *)
(* somebody holds a factory it runs, and when nobody does it does not.     *)
(***************************************************************************)
Owners(e) == {h \in Holders : Holds(h, e)}

\* The reference count of an entry is the number of its holders.
CountInv == \A e \in Holders : refs[e] = Cardinality(Owners(e))

\* A holder that has not called Factory yet has made no entry.
FreshInv ==
    \A h \in Holders : hold[h] = Unheld => Owners(h) = {} /\ closings[h] = 0

\* What is held is open, in the map, and has the informer it is held for.
HeldInv ==
    \A h \in Holders : hold[h].phase \in {"acquired", "started"} =>
      /\ closings[hold[h].entry] = 0
      /\ factories[hold[h].ns] = hold[h].entry
      /\ hold[h].kind \in registered[hold[h].entry]
      /\ hold[h].phase = "started" => hold[h].kind \in running[hold[h].entry]

\* What is in the map is held, for the namespace it is in the map under.
EntryInv ==
    \A ns \in Namespaces : factories[ns] # None =>
      \E h \in Holders : Holds(h, factories[ns]) /\ hold[h].ns = ns

\* The holders of an entry hold it for one namespace.
NsInv ==
    \A g, h \in Holders :
      /\ hold[g].phase \in {"acquired", "started"}
      /\ hold[h].phase \in {"acquired", "started"}
      /\ hold[g].entry = hold[h].entry
      => hold[g].ns = hold[h].ns

IInv ==
    /\ FactoriesTypeOK
    /\ CountInv
    /\ FreshInv
    /\ NsInv
    /\ HeldInv
    /\ EntryInv
    /\ NothingLeftRunning

-----------------------------------------------------------------------------

\* A holder is untouched, or it has an entry, a namespace and a kind.
LEMMA HoldFacts ==
    ASSUME FactoriesTypeOK, NEW h \in Holders
    PROVE  /\ hold[h] = Unheld \/
                /\ hold[h].phase \in {"acquired", "started", "released"}
                /\ hold[h].entry \in Holders
                /\ hold[h].ns \in Namespaces
                /\ hold[h].kind \in Kinds
                /\ hold[h] # Unheld
           /\ hold[h] = Unheld <=> hold[h].phase = "none"
<1>1. hold[h] \in {Unheld} \cup
                  [phase : {"acquired", "started", "released"},
                   entry : Holders, ns : Namespaces, kind : Kinds]
  BY DEF FactoriesTypeOK
<1> QED BY <1>1 DEF Unheld

\* There are finitely many holders of an entry.
LEMMA OwnersFinite ==
    ASSUME NEW e
    PROVE  IsFiniteSet(Owners(e)) /\ Cardinality(Owners(e)) \in Nat
<1>1. IsFiniteSet(Holders) BY HoldersAssumption
<1>2. Owners(e) \subseteq Holders BY DEF Owners
<1> QED BY <1>1, <1>2, FS_Subset, FS_CardinalityType

\* At first there is no holder and no entry.
LEMMA InitInv == FactoriesInit => IInv
<1> SUFFICES ASSUME FactoriesInit PROVE IInv
  OBVIOUS
<1>1. \A h \in Holders : hold[h] = Unheld /\ hold[h].phase = "none"
  BY DEF FactoriesInit, Unheld
<1>2. \A e \in Holders : Owners(e) = {}
  BY <1>1 DEF Owners, Holds
<1>3. FactoriesTypeOK
  BY DEF FactoriesInit, FactoriesTypeOK
<1>4. CountInv
  BY <1>2, FS_EmptySet DEF CountInv, FactoriesInit
<1>5. FreshInv
  BY <1>2 DEF FreshInv, FactoriesInit
<1>6. HeldInv
  BY <1>1 DEF HeldInv
<1>7. EntryInv
  BY DEF EntryInv, FactoriesInit
<1>8. NothingLeftRunning
  BY HoldersAssumption DEF NothingLeftRunning, FactoriesInit
<1>9. NsInv
  BY <1>1 DEF NsInv
<1> QED BY <1>3, <1>4, <1>5, <1>6, <1>7, <1>8, <1>9 DEF IInv

-----------------------------------------------------------------------------
(* Factory: one holder more.                                               *)

LEMMA FactoryStep ==
    ASSUME IInv, NEW h \in Holders, NEW ns \in Namespaces, NEW kind \in Kinds,
           Factory(h, ns, kind)
    PROVE  IInv'
<1> USE DEF IInv
<1>0. PICK e \in Holders : e = IF factories[ns] = None THEN h ELSE factories[ns]
  BY DEF FactoriesTypeOK
<1>1. /\ e \in Holders
      /\ hold[h] = Unheld
      /\ factories' = [factories EXCEPT ![ns] = e]
      /\ refs' = [refs EXCEPT ![e] = @ + 1]
      /\ registered' = [registered EXCEPT ![e] = @ \cup {kind}]
      /\ hold' = [hold EXCEPT ![h] = [phase |-> "acquired", entry |-> e,
                                      ns |-> ns, kind |-> kind]]
      /\ UNCHANGED <<closings, running, leaked>>
  BY <1>0 DEF Factory
<1>2. /\ hold'[h].phase = "acquired" /\ hold'[h].entry = e
      /\ hold'[h].ns = ns /\ hold'[h].kind = kind
      /\ hold'[h] # Unheld
      /\ \A g \in Holders \ {h} : hold'[g] = hold[g]
  BY <1>1 DEF FactoriesTypeOK, Unheld
<1>3. hold[h].phase = "none"
  BY <1>1 DEF Unheld
<1>4. /\ Owners(e)' = Owners(e) \cup {h}
      /\ h \notin Owners(e)
      /\ \A x \in Holders \ {e} : Owners(x)' = Owners(x)
  BY <1>2, <1>3 DEF Owners, Holds
<1>5. closings[e] = 0
  <2>1. CASE factories[ns] = None
    BY <1>0, <1>1, <2>1 DEF FreshInv
  <2>2. CASE factories[ns] # None
    <3>1. PICK g \in Holders : Holds(g, factories[ns])
      BY <2>2 DEF EntryInv
    <3> QED BY <1>0, <2>2, <3>1 DEF HeldInv, Holds
  <2> QED BY <2>1, <2>2
<1>6. factories[ns] # None => factories[ns] = e
  BY <1>0
<1>7. FactoriesTypeOK'
  BY <1>1 DEF FactoriesTypeOK
<1>8. CountInv'
  <2>1. /\ IsFiniteSet(Owners(e))
        /\ Cardinality(Owners(e)') = Cardinality(Owners(e)) + 1
    BY <1>4, OwnersFinite, FS_AddElement
  <2>2. refs'[e] = refs[e] + 1 /\ \A x \in Holders \ {e} : refs'[x] = refs[x]
    BY <1>1 DEF FactoriesTypeOK
  <2>3. \A x \in Holders : refs'[x] = Cardinality(Owners(x)')
    BY <1>1, <1>4, <2>1, <2>2 DEF CountInv
  <2> QED BY <2>3 DEF CountInv
<1>9. FreshInv'
  <2> SUFFICES ASSUME NEW g \in Holders, hold'[g] = Unheld
               PROVE  Owners(g)' = {} /\ closings'[g] = 0
    BY DEF FreshInv
  <2>1. g # h /\ hold[g] = Unheld
    BY <1>2
  <2>2. Owners(g) = {} /\ closings[g] = 0
    BY <2>1 DEF FreshInv
  <2>3. g # e
    <3>1. CASE factories[ns] = None
      BY <1>0, <2>1, <3>1
    <3>2. CASE factories[ns] # None
      <4>1. PICK x \in Holders : Holds(x, e)
        BY <1>6, <3>2 DEF EntryInv
      <4> QED BY <4>1, <2>2 DEF Owners
    <3> QED BY <3>1, <3>2
  <2> QED BY <1>1, <1>4, <2>2, <2>3
<1>10. HeldInv'
  <2> SUFFICES ASSUME NEW g \in Holders,
                      hold'[g].phase \in {"acquired", "started"}
               PROVE  /\ closings'[hold'[g].entry] = 0
                      /\ factories'[hold'[g].ns] = hold'[g].entry
                      /\ hold'[g].kind \in registered'[hold'[g].entry]
                      /\ hold'[g].phase = "started" =>
                           hold'[g].kind \in running'[hold'[g].entry]
    BY DEF HeldInv
  <2>1. CASE g = h
    BY <1>1, <1>2, <1>5, <2>1 DEF FactoriesTypeOK
  <2>2. CASE g # h
    <3>1. hold'[g] = hold[g]
      BY <1>2, <2>2
    <3>2. /\ closings[hold[g].entry] = 0
          /\ factories[hold[g].ns] = hold[g].entry
          /\ hold[g].kind \in registered[hold[g].entry]
          /\ hold[g].phase = "started" =>
               hold[g].kind \in running[hold[g].entry]
      BY <3>1 DEF HeldInv
    <3>3. hold[g].entry \in Holders /\ hold[g].ns \in Namespaces
      BY <3>1, HoldFacts DEF Unheld
    <3>4. factories'[hold[g].ns] = hold[g].entry
      BY <1>1, <1>6, <3>2, <3>3, HoldersAssumption DEF FactoriesTypeOK
    <3>5. hold[g].kind \in registered'[hold[g].entry]
      BY <1>1, <3>2, <3>3 DEF FactoriesTypeOK
    <3> QED BY <1>1, <3>1, <3>2, <3>4, <3>5
  <2> QED BY <2>1, <2>2
<1>11. EntryInv'
  <2> SUFFICES ASSUME NEW x \in Namespaces, factories'[x] # None
               PROVE  \E g \in Holders : /\ Holds(g, factories[x])'
                                         /\ hold'[g].ns = x
    BY DEF EntryInv
  <2>1. CASE x = ns
    <3>1. factories'[x] = e
      BY <1>1, <2>1 DEF FactoriesTypeOK
    <3>2. Holds(h, factories[x])' /\ hold'[h].ns = x
      BY <1>2, <2>1, <3>1 DEF Holds
    <3> QED BY <3>2
  <2>2. CASE x # ns
    <3>1. factories'[x] = factories[x]
      BY <1>1, <2>2 DEF FactoriesTypeOK
    <3>2. PICK g \in Holders : Holds(g, factories[x]) /\ hold[g].ns = x
      BY <3>1 DEF EntryInv
    <3>3. hold'[g] = hold[g]
      BY <1>2, <1>3, <3>2 DEF Holds
    <3>4. Holds(g, factories[x])' /\ hold'[g].ns = x
      BY <3>1, <3>2, <3>3 DEF Holds
    <3> QED BY <3>4
  <2> QED BY <2>1, <2>2
<1>12. NothingLeftRunning'
  <2> SUFFICES ASSUME NEW x \in Holders
               PROVE  /\ closings'[x] <= 1
                      /\ (\A g \in Holders : ~Holds(g, x)') =>
                           /\ running'[x] = {}
                           /\ \A y \in Namespaces : factories'[y] # x
    BY <1>1 DEF NothingLeftRunning
  <2>1. closings'[x] <= 1
    BY <1>1 DEF NothingLeftRunning
  <2>2. Holds(h, e)'
    BY <1>2 DEF Holds
  <2>3. ASSUME \A g \in Holders : ~Holds(g, x)'
        PROVE  running'[x] = {} /\ \A y \in Namespaces : factories'[y] # x
    <3>1. x # e
      BY <2>2, <2>3
    <3>2. \A g \in Holders : ~Holds(g, x)
      BY <1>2, <1>3, <2>3 DEF Holds
    <3>3. running[x] = {} /\ \A y \in Namespaces : factories[y] # x
      BY <3>2 DEF NothingLeftRunning
    <3> QED BY <1>1, <3>1, <3>3 DEF FactoriesTypeOK
  <2> QED BY <2>1, <2>3
<1>13. NsInv'
  <2>1. ASSUME NEW g \in Holders, g # h,
               hold[g].phase \in {"acquired", "started"}, hold[g].entry = e
        PROVE  hold[g].ns = ns
    <3>1. g \in Owners(e)
      BY <2>1 DEF Owners, Holds
    <3>2. factories[ns] # None
      BY <1>0, <1>1, <3>1 DEF FreshInv
    <3>3. PICK x \in Holders : Holds(x, e) /\ hold[x].ns = ns
      BY <1>6, <3>2 DEF EntryInv
    <3> QED BY <2>1, <3>3 DEF NsInv, Holds
  <2>2. ASSUME NEW g \in Holders, NEW x \in Holders, g # h, x # h,
               hold[g].phase \in {"acquired", "started"},
               hold[x].phase \in {"acquired", "started"},
               hold[g].entry = hold[x].entry
        PROVE  hold[g].ns = hold[x].ns
    BY <2>2 DEF NsInv
  <2>3. ASSUME NEW g \in Holders, NEW x \in Holders,
               hold'[g].phase \in {"acquired", "started"},
               hold'[x].phase \in {"acquired", "started"},
               hold'[g].entry = hold'[x].entry
        PROVE  hold'[g].ns = hold'[x].ns
    <3>1. CASE g = h /\ x = h
      BY <3>1
    <3>2. CASE g = h /\ x # h
      BY <1>2, <2>1, <2>3, <3>2
    <3>3. CASE g # h /\ x = h
      BY <1>2, <2>1, <2>3, <3>3
    <3>4. CASE g # h /\ x # h
      BY <1>2, <2>2, <2>3, <3>4
    <3> QED BY <3>1, <3>2, <3>3, <3>4
  <2> QED BY <2>3 DEF NsInv
<1> QED BY <1>7, <1>8, <1>9, <1>10, <1>11, <1>12, <1>13

-----------------------------------------------------------------------------
(* Start: what is registered runs.                                         *)

LEMMA StartStep ==
    ASSUME IInv, NEW h \in Holders, Start(h)
    PROVE  IInv'
<1> USE DEF IInv
<1>0. PICK e \in Holders : e = hold[h].entry
  BY HoldFacts DEF Start, Unheld
<1>1. /\ hold[h].phase = "acquired"
      /\ running' = [running EXCEPT ![e] = @ \cup registered[e]]
      /\ leaked' = (leaked \/ \A ns \in Namespaces : factories[ns] # e)
      /\ hold' = [hold EXCEPT ![h].phase = "started"]
      /\ UNCHANGED <<factories, refs, closings, registered>>
  BY <1>0 DEF Start
<1>2. e \in Holders /\ hold[h].ns \in Namespaces /\ hold[h].kind \in Kinds
  BY <1>1, HoldFacts DEF Unheld
<1>3. factories[hold[h].ns] = e /\ hold[h].kind \in registered[e]
  BY <1>0, <1>1 DEF HeldInv
<1>4. /\ hold'[h].phase = "started" /\ hold'[h].entry = e
      /\ hold'[h].ns = hold[h].ns /\ hold'[h].kind = hold[h].kind
      /\ hold'[h] # Unheld
      /\ \A g \in Holders \ {h} : hold'[g] = hold[g]
  <2>1. hold[h] \in [phase : {"acquired", "started", "released"},
                     entry : Holders, ns : Namespaces, kind : Kinds]
    BY <1>1 DEF FactoriesTypeOK, Unheld
  <2> QED BY <1>0, <1>1, <2>1 DEF FactoriesTypeOK, Unheld
<1>5. \A g, x \in Holders : Holds(g, x)' <=> Holds(g, x)
  BY <1>0, <1>1, <1>4 DEF Holds
<1>6. \A x \in Holders : Owners(x)' = Owners(x)
  BY <1>5 DEF Owners
<1>7. FactoriesTypeOK'
  <2>1. hold' \in [Holders ->
                     {Unheld} \cup
                     [phase : {"acquired", "started", "released"},
                      entry : Holders, ns : Namespaces, kind : Kinds]]
    <3>1. hold[h] \in [phase : {"acquired", "started", "released"},
                       entry : Holders, ns : Namespaces, kind : Kinds]
      BY <1>1 DEF FactoriesTypeOK, Unheld
    <3>2. [hold[h] EXCEPT !.phase = "started"] \in
            [phase : {"acquired", "started", "released"},
             entry : Holders, ns : Namespaces, kind : Kinds]
      BY <3>1
    <3> QED BY <1>1, <3>2 DEF FactoriesTypeOK
  <2>2. running' \in [Holders -> SUBSET Kinds]
    BY <1>1, <1>2 DEF FactoriesTypeOK
  <2> QED BY <1>1, <2>1, <2>2 DEF FactoriesTypeOK
<1>8. CountInv'
  BY <1>1, <1>6 DEF CountInv
<1>9. FreshInv'
  BY <1>1, <1>4, <1>6 DEF FreshInv
<1>10. HeldInv'
  <2> SUFFICES ASSUME NEW g \in Holders,
                      hold'[g].phase \in {"acquired", "started"}
               PROVE  /\ closings[hold'[g].entry] = 0
                      /\ factories[hold'[g].ns] = hold'[g].entry
                      /\ hold'[g].kind \in registered[hold'[g].entry]
                      /\ hold'[g].phase = "started" =>
                           hold'[g].kind \in running'[hold'[g].entry]
    BY <1>1 DEF HeldInv
  <2>1. CASE g = h
    BY <1>0, <1>1, <1>2, <1>3, <1>4, <2>1 DEF HeldInv, FactoriesTypeOK
  <2>2. CASE g # h
    <3>1. hold'[g] = hold[g]
      BY <1>4, <2>2
    <3>2. hold[g].entry \in Holders
      BY <3>1, HoldFacts DEF Unheld
    <3>3. running[hold[g].entry] \subseteq running'[hold[g].entry]
      BY <1>1, <1>2, <3>2 DEF FactoriesTypeOK
    <3> QED BY <3>1, <3>3 DEF HeldInv
  <2> QED BY <2>1, <2>2
<1>11. EntryInv'
  <2> SUFFICES ASSUME NEW x \in Namespaces, factories[x] # None
               PROVE  \E g \in Holders : /\ Holds(g, factories[x])'
                                         /\ hold'[g].ns = x
    BY <1>1 DEF EntryInv
  <2>1. PICK g \in Holders : Holds(g, factories[x]) /\ hold[g].ns = x
    BY DEF EntryInv
  <2>2. hold'[g].ns = x
    BY <1>4, <2>1
  <2>3. factories[x] \in Holders
    BY DEF FactoriesTypeOK
  <2>4. Holds(g, factories[x])'
    BY <1>1, <1>5, <2>1, <2>3 DEF Holds
  <2> QED BY <2>2, <2>4
<1>12. NothingLeftRunning'
  <2>1. ~leaked'
    BY <1>1, <1>2, <1>3 DEF NothingLeftRunning
  <2>2. Holds(h, e)
    BY <1>0, <1>1 DEF Holds
  <2> SUFFICES ASSUME NEW x \in Holders
               PROVE  /\ closings'[x] <= 1
                      /\ (\A g \in Holders : ~Holds(g, x)') =>
                           /\ running'[x] = {}
                           /\ \A y \in Namespaces : factories'[y] # x
    BY <2>1 DEF NothingLeftRunning
  <2>3. closings'[x] <= 1
    BY <1>1 DEF NothingLeftRunning
  <2>4. ASSUME \A g \in Holders : ~Holds(g, x)'
        PROVE  running'[x] = {} /\ \A y \in Namespaces : factories'[y] # x
    <3>1. \A g \in Holders : ~Holds(g, x)
      BY <1>5, <2>4
    <3>2. x # e
      BY <2>2, <3>1
    <3>3. running[x] = {} /\ \A y \in Namespaces : factories[y] # x
      BY <3>1 DEF NothingLeftRunning
    <3> QED BY <1>1, <3>2, <3>3 DEF FactoriesTypeOK
  <2> QED BY <2>3, <2>4
<1>13. NsInv'
  <2>1. \A g \in Holders :
          /\ hold'[g].ns = hold[g].ns /\ hold'[g].entry = hold[g].entry
          /\ hold'[g].phase \in {"acquired", "started"} =>
               hold[g].phase \in {"acquired", "started"}
    BY <1>0, <1>1, <1>4
  <2> QED BY <2>1 DEF NsInv
<1> QED BY <1>7, <1>8, <1>9, <1>10, <1>11, <1>12, <1>13

-----------------------------------------------------------------------------
(* Release: one holder less, and perhaps no entry.                         *)

LEMMA ReleaseStep ==
    ASSUME IInv, NEW h \in Holders, Release(h)
    PROVE  IInv'
<1> USE DEF IInv
<1>0. PICK e \in Holders : e = hold[h].entry
  BY HoldFacts DEF Release, Unheld
<1>1. /\ hold[h].phase \in {"acquired", "started"}
      /\ refs' = [refs EXCEPT ![e] = @ - 1]
      /\ hold' = [hold EXCEPT ![h].phase = "released"]
      /\ UNCHANGED <<registered, leaked>>
  BY <1>0 DEF Release
<1>2. \/ refs[e] > 1 /\ UNCHANGED <<factories, closings, running>>
      \/ /\ ~(refs[e] > 1)
         /\ closings' = [closings EXCEPT ![e] = @ + 1]
         /\ running' = [running EXCEPT ![e] = {}]
         /\ factories' = [factories EXCEPT ![hold[h].ns] =
                            IF @ = e THEN None ELSE @]
  BY <1>0 DEF Release
<1>3. /\ e \in Holders /\ hold[h].ns \in Namespaces /\ hold[h].kind \in Kinds
      /\ hold[h] \in [phase : {"acquired", "started", "released"},
                      entry : Holders, ns : Namespaces, kind : Kinds]
  <2>1. hold[h] # Unheld
    BY <1>1 DEF Unheld
  <2> QED BY <2>1, HoldFacts DEF FactoriesTypeOK
<1>4. /\ closings[e] = 0 /\ factories[hold[h].ns] = e
      /\ Holds(h, e)
  BY <1>0, <1>1 DEF HeldInv, Holds
<1>5. /\ hold'[h].phase = "released" /\ hold'[h].entry = e
      /\ hold'[h] # Unheld
      /\ \A g \in Holders \ {h} : hold'[g] = hold[g]
  BY <1>0, <1>1, <1>3 DEF FactoriesTypeOK, Unheld
<1>6. /\ Owners(e)' = Owners(e) \ {h}
      /\ h \in Owners(e)
      /\ \A x \in Holders \ {e} : Owners(x)' = Owners(x)
  BY <1>0, <1>4, <1>5 DEF Owners, Holds
<1>7. /\ refs[e] \in Nat \ {0}
      /\ Cardinality(Owners(e)') = refs[e] - 1
      /\ IsFiniteSet(Owners(e)')
  <2>1. IsFiniteSet(Owners(e)) /\ Cardinality(Owners(e)) \in Nat
    BY OwnersFinite
  <2>2. Cardinality(Owners(e)) # 0
    BY <1>6, <2>1, FS_EmptySet
  <2>3. /\ IsFiniteSet(Owners(e) \ {h})
        /\ Cardinality(Owners(e) \ {h}) = Cardinality(Owners(e)) - 1
    BY <1>6, <2>1, FS_RemoveElement
  <2> QED BY <1>3, <1>6, <2>1, <2>2, <2>3 DEF CountInv
<1>8. refs[e] > 1 => Owners(e)' # {}
  BY <1>7, FS_EmptySet
<1>9. ~(refs[e] > 1) => Owners(e)' = {}
  BY <1>7, FS_EmptySet
<1>10. FactoriesTypeOK'
  <2>1. [hold[h] EXCEPT !.phase = "released"] \in
          [phase : {"acquired", "started", "released"},
           entry : Holders, ns : Namespaces, kind : Kinds]
    BY <1>3
  <2>2. hold' \in [Holders ->
                     {Unheld} \cup
                     [phase : {"acquired", "started", "released"},
                      entry : Holders, ns : Namespaces, kind : Kinds]]
    BY <1>1, <2>1 DEF FactoriesTypeOK
  <2>3. refs' \in [Holders -> Nat]
    <3>1. refs[e] - 1 \in Nat
      BY <1>7
    <3>2. refs' = [refs EXCEPT ![e] = refs[e] - 1]
      BY <1>1
    <3> QED BY <3>1, <3>2 DEF FactoriesTypeOK
  <2>4. /\ closings' \in [Holders -> Nat]
        /\ running' \in [Holders -> SUBSET Kinds]
        /\ factories' \in [Namespaces -> Holders \cup {None}]
    BY <1>2, <1>3 DEF FactoriesTypeOK
  <2> QED BY <1>1, <2>2, <2>3, <2>4 DEF FactoriesTypeOK
<1>11. CountInv'
  <2>1. refs'[e] = refs[e] - 1 /\ \A x \in Holders \ {e} : refs'[x] = refs[x]
    BY <1>1, <1>3 DEF FactoriesTypeOK
  <2>2. \A x \in Holders : refs'[x] = Cardinality(Owners(x)')
    BY <1>3, <1>6, <1>7, <2>1 DEF CountInv
  <2> QED BY <2>2 DEF CountInv
\* Who still holds something holds another entry, or the entry stays.
<1>12. ASSUME NEW g \in Holders, hold'[g].phase \in {"acquired", "started"}
       PROVE  /\ g # h /\ hold'[g] = hold[g]
              /\ hold[g].entry \in Holders /\ hold[g].ns \in Namespaces
              /\ hold[g].entry # e \/ refs[e] > 1
  <2>1. g # h /\ hold'[g] = hold[g]
    BY <1>5, <1>12
  <2>2. hold[g].entry \in Holders /\ hold[g].ns \in Namespaces
    BY <1>12, <2>1, HoldFacts DEF Unheld
  <2>3. hold[g].entry = e => g \in Owners(e)'
    BY <1>12, <2>1, <1>6 DEF Owners, Holds
  <2> QED BY <2>1, <2>2, <2>3, <1>9
<1>13. FreshInv'
  <2> SUFFICES ASSUME NEW g \in Holders, hold'[g] = Unheld
               PROVE  Owners(g)' = {} /\ closings'[g] = 0
    BY DEF FreshInv
  <2>1. g # h /\ hold[g] = Unheld
    BY <1>5
  <2>2. Owners(g) = {} /\ closings[g] = 0
    BY <2>1 DEF FreshInv
  <2>3. g # e
    BY <1>6, <2>2
  <2> QED BY <1>2, <1>6, <2>2, <2>3 DEF FactoriesTypeOK
<1>14. HeldInv'
  <2> SUFFICES ASSUME NEW g \in Holders,
                      hold'[g].phase \in {"acquired", "started"}
               PROVE  /\ closings'[hold'[g].entry] = 0
                      /\ factories'[hold'[g].ns] = hold'[g].entry
                      /\ hold'[g].kind \in registered'[hold'[g].entry]
                      /\ hold'[g].phase = "started" =>
                           hold'[g].kind \in running'[hold'[g].entry]
    BY DEF HeldInv
  <2>1. /\ hold'[g] = hold[g]
        /\ hold[g].entry \in Holders /\ hold[g].ns \in Namespaces
        /\ hold[g].entry # e \/ refs[e] > 1
    BY <1>12
  <2>2. /\ closings[hold[g].entry] = 0
        /\ factories[hold[g].ns] = hold[g].entry
        /\ hold[g].kind \in registered[hold[g].entry]
        /\ hold[g].phase = "started" => hold[g].kind \in running[hold[g].entry]
    BY <2>1 DEF HeldInv
  <2>3. CASE refs[e] > 1
    BY <1>1, <1>2, <2>1, <2>2, <2>3
  <2>4. CASE ~(refs[e] > 1)
    <3>1. /\ hold[g].entry # e
          /\ closings' = [closings EXCEPT ![e] = @ + 1]
          /\ running' = [running EXCEPT ![e] = {}]
          /\ factories' = [factories EXCEPT ![hold[h].ns] =
                             IF @ = e THEN None ELSE @]
      BY <1>2, <2>1, <2>4
    <3>2. /\ closings'[hold[g].entry] = 0
          /\ running'[hold[g].entry] = running[hold[g].entry]
      BY <2>1, <2>2, <3>1 DEF FactoriesTypeOK
    <3>3. factories'[hold[g].ns] = hold[g].entry
      BY <2>1, <2>2, <3>1 DEF FactoriesTypeOK
    <3> QED BY <1>1, <2>1, <2>2, <3>2, <3>3
  <2> QED BY <2>3, <2>4
<1>15. EntryInv'
  <2> SUFFICES ASSUME NEW x \in Namespaces, factories'[x] # None
               PROVE  \E g \in Holders : /\ Holds(g, factories[x])'
                                         /\ hold'[g].ns = x
    BY DEF EntryInv
  <2>1. factories'[x] = factories[x] /\ factories[x] \in Holders
    BY <1>2, <1>3 DEF FactoriesTypeOK
  <2>2. PICK g \in Holders : Holds(g, factories[x]) /\ hold[g].ns = x
    BY <2>1 DEF EntryInv
  <2>3. CASE g # h
    <3>1. hold'[g] = hold[g]
      BY <1>5, <2>3
    <3>2. Holds(g, factories[x])' /\ hold'[g].ns = x
      BY <2>1, <2>2, <3>1 DEF Holds
    <3> QED BY <3>2
  \* The holder that goes leaves another, of the same entry.
  <2>4. CASE g = h
    <3>1. factories[x] = e /\ x = hold[h].ns
      BY <1>0, <2>2, <2>4 DEF Holds
    <3>2. refs[e] > 1
      BY <1>2, <1>3, <2>1, <3>1, HoldersAssumption DEF FactoriesTypeOK
    <3>3. PICK y \in Holders : y \in Owners(e)'
      BY <1>8, <3>2 DEF Owners
    <3>4. Holds(y, e)'
      BY <3>3, <1>5, <1>6 DEF Owners, Holds
    <3>5. y # h /\ hold'[y] = hold[y]
      BY <1>5, <3>4 DEF Holds
    <3>6. hold[y].ns = hold[h].ns
      BY <1>0, <1>1, <3>4, <3>5 DEF NsInv, Holds
    <3>7. Holds(y, factories[x])' /\ hold'[y].ns = x
      BY <2>1, <3>1, <3>4, <3>5, <3>6 DEF Holds
    <3> QED BY <3>7
  <2> QED BY <2>3, <2>4
<1>16. NothingLeftRunning'
  <2> SUFFICES ASSUME NEW x \in Holders
               PROVE  /\ closings'[x] <= 1
                      /\ (\A g \in Holders : ~Holds(g, x)') =>
                           /\ running'[x] = {}
                           /\ \A y \in Namespaces : factories'[y] # x
    BY <1>1 DEF NothingLeftRunning
  <2>1. closings'[x] <= 1
    <3>1. closings[x] <= 1
      BY DEF NothingLeftRunning
    <3> QED BY <1>2, <1>3, <1>4, <3>1 DEF FactoriesTypeOK
  <2>2. ASSUME \A g \in Holders : ~Holds(g, x)'
        PROVE  running'[x] = {} /\ \A y \in Namespaces : factories'[y] # x
    <3>1. CASE x # e
      <4>1. \A g \in Holders : ~Holds(g, x)
        BY <1>0, <1>5, <2>2, <3>1 DEF Holds
      <4>2. running[x] = {} /\ \A y \in Namespaces : factories[y] # x
        BY <4>1 DEF NothingLeftRunning
      <4> QED BY <1>2, <1>3, <3>1, <4>2, HoldersAssumption DEF FactoriesTypeOK
    <3>2. CASE x = e
      <4>1. Owners(e)' = {}
        BY <2>2, <3>2 DEF Owners
      <4>2. /\ running' = [running EXCEPT ![e] = {}]
            /\ factories' = [factories EXCEPT ![hold[h].ns] =
                               IF @ = e THEN None ELSE @]
        BY <1>2, <1>8, <4>1
      <4>3. running'[e] = {}
        BY <1>3, <4>2 DEF FactoriesTypeOK
      <4>4. ASSUME NEW y \in Namespaces, factories'[y] = e
            PROVE  FALSE
        <5>1. factories[y] = e /\ e # None
          BY <1>3, <4>2, <4>4, HoldersAssumption DEF FactoriesTypeOK
        <5>2. PICK g \in Holders : Holds(g, e) /\ hold[g].ns = y
          BY <5>1 DEF EntryInv
        <5>3. y = hold[h].ns
          BY <1>0, <1>1, <5>2 DEF NsInv, Holds
        <5> QED BY <1>3, <4>2, <4>4, <5>1, <5>3 DEF FactoriesTypeOK
      <4> QED BY <3>2, <4>3, <4>4
    <3> QED BY <3>1, <3>2
  <2> QED BY <2>1, <2>2
<1>17. NsInv'
  <2>1. ASSUME NEW g \in Holders, NEW x \in Holders,
               hold'[g].phase \in {"acquired", "started"},
               hold'[x].phase \in {"acquired", "started"},
               hold'[g].entry = hold'[x].entry
        PROVE  hold'[g].ns = hold'[x].ns
    <3>1. hold'[g] = hold[g] /\ hold'[x] = hold[x]
      BY <1>12, <2>1
    <3> QED BY <2>1, <3>1 DEF NsInv
  <2> QED BY <2>1 DEF NsInv
<1> QED BY <1>10, <1>11, <1>13, <1>14, <1>15, <1>16, <1>17

-----------------------------------------------------------------------------

LEMMA NextInv == IInv /\ [FactoriesNext]_factoryVars => IInv'
<1> SUFFICES ASSUME IInv, [FactoriesNext]_factoryVars PROVE IInv'
  OBVIOUS
<1>1. CASE UNCHANGED factoryVars
  BY <1>1 DEF IInv, factoryVars, FactoriesTypeOK, CountInv, FreshInv, NsInv,
     HeldInv, EntryInv, NothingLeftRunning, Holds, Owners
<1>2. CASE FactoriesNext
  BY <1>2, FactoryStep, StartStep, ReleaseStep DEF FactoriesNext
<1> QED BY <1>1, <1>2

\* The inductive invariant of the factories of a session.
THEOREM Invariance == FactoriesSpec => []IInv
<1> QED BY InitInv, NextInv, PTL DEF FactoriesSpec

\* The factories keep their types; the reference count never goes below zero.
THEOREM FactoriesTyping == FactoriesSpec => []FactoriesTypeOK
<1>1. IInv => FactoriesTypeOK
  BY DEF IInv
<1> QED BY <1>1, Invariance, PTL

\* Session.Factory and its release: nobody's informer is stopped by another
\* subscription letting go, and those to one namespace share a factory.
THEOREM HeldRuns == FactoriesSpec => []HeldKeepsRunning
<1>1. IInv => HeldKeepsRunning
  BY DEF IInv, HeldInv, HeldKeepsRunning
<1> QED BY <1>1, Invariance, PTL

\* Session.Factory and its release: what nobody holds was stopped, once, and
\* is handed to nobody again.
THEOREM NothingLeft == FactoriesSpec => []NothingLeftRunning
<1>1. IInv => NothingLeftRunning
  BY DEF IInv
<1> QED BY <1>1, Invariance, PTL

(***************************************************************************)
(* The socket.                                                             *)
(***************************************************************************)

\* The window's word on table i: a message, none in a sequence, the last one.
About(m, i) == m.type \in {"subscribe", "unsubscribe"} /\ m.id = i
NoWord(q, i) == \A j \in 1 .. Len(q) : ~ About(q[j], i)
LastIs(q, i, t) ==
    \E j \in 1 .. Len(q) :
        /\ About(q[j], i) /\ q[j].what = t
        /\ \A h \in 1 .. Len(q) : h > j => ~ About(q[h], i)

\* A request in a sequence of messages.
Asks(m, r) == m.type = "request" /\ m.id = r
Has(q, r) == \E j \in 1 .. Len(q) : Asks(q[j], r)
Once(q, r) == \A j, h \in 1 .. Len(q) : Asks(q[j], r) /\ Asks(q[h], r) => j = h

\* The open connection is being read and nothing waits in the window; one that
\* was not opened yet knows nothing.
LinkInv ==
    /\ status = "open" => conn \in Connections /\ serving[conn] /\ queue = <<>>
    /\ \A n \in Connections : n > conn => ~ serving[n] /\ \A i \in Ids : subs[n][i] = None
    /\ \A s \in Streams : stream[s].conn <= conn

\* A stream holds its factory from its start to its end, and an entry of
\* c.subs is a stream of that connection and id.
StreamsInv ==
    /\ \A s \in Streams : stream[s].at = "starting" <=> hold[s].phase = "acquired"
    /\ \A s \in Streams : stream[s].at \in {"syncing", "live"} <=> hold[s].phase = "started"
    /\ \A s \in Streams : stream[s].at = "none" <=> hold[s].phase = "none"
    /\ \A n \in Connections, i \in Ids : subs[n][i] # None =>
         /\ stream[subs[n][i]].conn = n /\ stream[subs[n][i]].id = i
         /\ stream[subs[n][i]] # NoStream

\* The engine acts on what table i is subscribed to.
Engaged(i) ==
    LET t == subscriptions[i]
        s == subs[conn][i]
    IN  \/ t \in NoSession
        \/ t \in NoKind \cup {None} /\ (s # None => stream[s].stopped)
        \/ t \in Targets \ NoKind /\ s # None /\ ~ stream[s].stopped /\ stream[s].target = t

WordOf(i) ==
    /\ status # "open" => NoWord(queue, i) \/ LastIs(queue, i, subscriptions[i])
    /\ status = "open" => \/ LastIs(toEngine[conn], i, subscriptions[i])
                          \/ NoWord(toEngine[conn], i) /\ Engaged(i)

WordInv == \A i \in Ids : WordOf(i)

\* A request is in one place at a time.
OnceOf(r) ==
    /\ Once(queue, r)
    /\ \A n \in Connections : Once(toEngine[n], r)
    /\ \A n, m \in Connections : Has(toEngine[n], r) /\ Has(toEngine[m], r) => n = m
    /\ \A n, m \in Connections : <<n, r>> \in tasks /\ <<m, r>> \in tasks => n = m
    /\ Has(queue, r) =>
         /\ answer[r] # "unasked" /\ carriedOut[r] = 0
         /\ \A n \in Connections : ~ Has(toEngine[n], r) /\ <<n, r>> \notin tasks
    /\ \A n \in Connections : Has(toEngine[n], r) =>
         /\ answer[r] # "unasked" /\ carriedOut[r] = 0
         /\ \A m \in Connections : <<m, r>> \notin tasks
    /\ \A n \in Connections : <<n, r>> \in tasks => answer[r] # "unasked" /\ carriedOut[r] = 0
    /\ carriedOut[r] \in {0, 1}
    /\ carriedOut[r] = 1 => answer[r] # "unasked"

OnceInv == \A r \in Requests : OnceOf(r)

\* Only what was carried out is answered.
AnswerInv ==
    /\ \A r \in Requests : answer[r] = "answered" => carriedOut[r] = 1
    /\ \A n \in Connections : \A j \in 1 .. Len(toWindow[n]) :
         toWindow[n][j].type = "answer" => carriedOut[toWindow[n][j].id] = 1

-----------------------------------------------------------------------------
(* What the operators return.                                              *)

LEMMA MsgFacts ==
    /\ \A r \in Requests : /\ Msg("request", r, None) \in ToEngine /\ Msg("answer", r, None) \in ToWindow
                           /\ Asks(Msg("request", r, None), r)
                           /\ \A i : ~ About(Msg("request", r, None), i)
                           /\ \A q : Asks(Msg("request", r, None), q) => q = r
    /\ \A i \in Ids, t \in Targets :
         /\ Msg("subscribe", i, t) \in ToEngine /\ Msg("snapshot", i, t) \in ToWindow /\ Msg("delta", i, t) \in ToWindow
         /\ About(Msg("subscribe", i, t), i) /\ Msg("subscribe", i, t).what = t
         /\ \A j : About(Msg("subscribe", i, t), j) => j = i
         /\ \A r : ~ Asks(Msg("subscribe", i, t), r)
    /\ \A i \in Ids :
         /\ Msg("unsubscribe", i, None) \in ToEngine
         /\ About(Msg("unsubscribe", i, None), i) /\ Msg("unsubscribe", i, None).what = None
         /\ \A j : About(Msg("unsubscribe", i, None), j) => j = i
         /\ \A r : ~ Asks(Msg("unsubscribe", i, None), r)
    /\ \A ty, i, t : Msg(ty, i, t).type = ty /\ Msg(ty, i, t).id = i
  BY DEF Msg, ToEngine, ToWindow, Asks, About

LEMMA ToEngineFacts ==
    ASSUME NEW m \in ToEngine
    PROVE  /\ m.type \in {"request", "subscribe", "unsubscribe"}
           /\ m.type = "request" => m.id \in Requests /\ \A i : ~ About(m, i)
           /\ m.type = "subscribe" => m.id \in Ids /\ m.what \in Targets /\ \A r : ~ Asks(m, r)
           /\ m.type = "unsubscribe" => m.id \in Ids /\ m.what = None /\ \A r : ~ Asks(m, r)
  BY DEF ToEngine, Asks, About

LEMMA AppendFacts ==
    ASSUME NEW S, NEW q \in Seq(S), NEW m \in S
    PROVE  /\ Append(q, m) \in Seq(S) /\ Len(Append(q, m)) = Len(q) + 1 /\ Len(q) \in Nat
           /\ \A j \in 1 .. Len(q) : j \in 1 .. Len(Append(q, m)) /\ Append(q, m)[j] = q[j]
           /\ Append(q, m)[Len(q) + 1] = m
           /\ \A j \in 1 .. Len(Append(q, m)) : j \in 1 .. Len(q) \/ j = Len(q) + 1
  BY AppendProperties, LenProperties

LEMMA AppendWord ==
    ASSUME NEW q \in Seq(ToEngine), NEW m \in ToEngine, NEW i
    PROVE  /\ About(m, i) => LastIs(Append(q, m), i, m.what)
           /\ ~ About(m, i) =>
                /\ NoWord(q, i) => NoWord(Append(q, m), i)
                /\ \A t : LastIs(q, i, t) => LastIs(Append(q, m), i, t)
<1> DEFINE p == Append(q, m)
<1>1. /\ Len(p) = Len(q) + 1 /\ Len(q) \in Nat /\ p[Len(q) + 1] = m
      /\ \A j \in 1 .. Len(q) : j \in 1 .. Len(p) /\ p[j] = q[j]
      /\ \A j \in 1 .. Len(p) : j \in 1 .. Len(q) \/ j = Len(q) + 1
  BY AppendFacts
<1> HIDE DEF p
<1>2. ASSUME About(m, i) PROVE LastIs(p, i, m.what)
  <2>1. PICK j \in 1 .. Len(p) : j = Len(q) + 1
    BY <1>1
  <2>2. \A h \in 1 .. Len(p) : ~ (h > j)
    BY <1>1, <2>1
  <2> QED
    BY <1>1, <1>2, <2>1, <2>2 DEF LastIs
<1>3. ASSUME ~ About(m, i), NoWord(q, i) PROVE NoWord(p, i)
  BY <1>1, <1>3 DEF NoWord
<1>4. ASSUME ~ About(m, i), NEW t, LastIs(q, i, t) PROVE LastIs(p, i, t)
  <2>1. PICK j \in 1 .. Len(q) : /\ About(q[j], i) /\ q[j].what = t
                                 /\ \A h \in 1 .. Len(q) : h > j => ~ About(q[h], i)
    BY <1>4 DEF LastIs
  <2>2. \A h \in 1 .. Len(p) : h > j => ~ About(p[h], i)
    BY <1>1, <1>4, <2>1
  <2> QED
    BY <1>1, <2>1, <2>2 DEF LastIs
<1> QED
  BY <1>2, <1>3, <1>4 DEF p

LEMMA TailFacts ==
    ASSUME NEW S, NEW q \in Seq(S), q # <<>>
    PROVE  /\ Head(q) = q[1] /\ q[1] \in S /\ Len(q) \in Nat \ {0} /\ 1 \in 1 .. Len(q)
           /\ Tail(q) \in Seq(S) /\ Len(Tail(q)) = Len(q) - 1
           /\ \A j \in 1 .. Len(Tail(q)) : j + 1 \in 1 .. Len(q) /\ Tail(q)[j] = q[j + 1]
           /\ \A j \in 1 .. Len(q) : j # 1 => j - 1 \in 1 .. Len(Tail(q)) /\ Tail(q)[j - 1] = q[j]
  BY HeadTailProperties, EmptySeq, LenProperties

LEMMA TailWord ==
    ASSUME NEW q \in Seq(ToEngine), q # <<>>, NEW i
    PROVE  /\ NoWord(q, i) => NoWord(Tail(q), i) /\ ~ About(Head(q), i)
           /\ \A t : LastIs(q, i, t) =>
                \/ LastIs(Tail(q), i, t)
                \/ NoWord(Tail(q), i) /\ About(Head(q), i) /\ Head(q).what = t
<1> DEFINE p == Tail(q)
<1>1. /\ Head(q) = q[1] /\ Len(q) \in Nat \ {0} /\ Len(p) = Len(q) - 1 /\ 1 \in 1 .. Len(q)
      /\ \A j \in 1 .. Len(p) : j + 1 \in 1 .. Len(q) /\ p[j] = q[j + 1]
      /\ \A j \in 1 .. Len(q) : j # 1 => j - 1 \in 1 .. Len(p) /\ p[j - 1] = q[j]
  BY TailFacts
<1> HIDE DEF p
<1>2. NoWord(q, i) => NoWord(p, i) /\ ~ About(Head(q), i)
  BY <1>1 DEF NoWord
<1>3. ASSUME NEW t, NEW j \in 1 .. Len(q), About(q[j], i), q[j].what = t,
             \A h \in 1 .. Len(q) : h > j => ~ About(q[h], i)
      PROVE  \/ LastIs(p, i, t)
             \/ NoWord(p, i) /\ About(Head(q), i) /\ Head(q).what = t
  <2>1. CASE j = 1
    <3>1. NoWord(p, i)
      BY <1>1, <1>3, <2>1 DEF NoWord
    <3> QED
      BY <1>1, <1>3, <2>1, <3>1
  <2>2. CASE j # 1
    <3>1. PICK g \in 1 .. Len(p) : g = j - 1 /\ p[g] = q[j]
      BY <1>1, <2>2
    <3>2. \A h \in 1 .. Len(p) : h > g => ~ About(p[h], i)
      BY <1>1, <1>3, <3>1
    <3> QED
      BY <1>3, <3>1, <3>2 DEF LastIs
  <2> QED
    BY <2>1, <2>2
<1> QED
  BY <1>2, <1>3 DEF p, LastIs

LEMMA ConcatFacts ==
    ASSUME NEW S, NEW p \in Seq(S), NEW q \in Seq(S)
    PROVE  /\ p \o q \in Seq(S) /\ Len(p \o q) = Len(p) + Len(q) /\ Len(p) \in Nat /\ Len(q) \in Nat
           /\ \A j \in 1 .. Len(p) : j \in 1 .. Len(p \o q) /\ (p \o q)[j] = p[j]
           /\ \A j \in 1 .. Len(q) : Len(p) + j \in 1 .. Len(p \o q) /\ (p \o q)[Len(p) + j] = q[j]
           /\ \A j \in 1 .. Len(p \o q) : j \in 1 .. Len(p) \/ (j - Len(p) \in 1 .. Len(q) /\ (p \o q)[j] = q[j - Len(p)])
  BY ConcatProperties, LenProperties

LEMMA ConcatWord ==
    ASSUME NEW p \in Seq(ToEngine), NEW q \in Seq(ToEngine), NEW i
    PROVE  /\ NoWord(p, i) /\ NoWord(q, i) => NoWord(p \o q, i)
           /\ \A t : LastIs(q, i, t) => LastIs(p \o q, i, t)
           /\ \A t : LastIs(p, i, t) /\ NoWord(q, i) => LastIs(p \o q, i, t)
<1> DEFINE c == p \o q
<1>1. /\ Len(c) = Len(p) + Len(q) /\ Len(p) \in Nat /\ Len(q) \in Nat
      /\ \A j \in 1 .. Len(p) : j \in 1 .. Len(c) /\ c[j] = p[j]
      /\ \A j \in 1 .. Len(q) : Len(p) + j \in 1 .. Len(c) /\ c[Len(p) + j] = q[j]
      /\ \A j \in 1 .. Len(c) : j \in 1 .. Len(p) \/ (j - Len(p) \in 1 .. Len(q) /\ c[j] = q[j - Len(p)])
  BY ConcatFacts
<1> HIDE DEF c
<1>2. NoWord(p, i) /\ NoWord(q, i) => NoWord(c, i)
  BY <1>1 DEF NoWord
<1>3. ASSUME NEW t, LastIs(q, i, t) PROVE LastIs(c, i, t)
  <2>1. PICK j \in 1 .. Len(q) : /\ About(q[j], i) /\ q[j].what = t
                                 /\ \A h \in 1 .. Len(q) : h > j => ~ About(q[h], i)
    BY <1>3 DEF LastIs
  <2>2. PICK g \in 1 .. Len(c) : g = Len(p) + j /\ c[g] = q[j]
    BY <1>1
  <2>3. ASSUME NEW h \in 1 .. Len(c), h > g PROVE ~ About(c[h], i)
    <3>1. h \notin 1 .. Len(p)
      BY <1>1, <2>2, <2>3
    <3>2. PICK f \in 1 .. Len(q) : f = h - Len(p) /\ c[h] = q[f]
      BY <1>1, <3>1
    <3>3. f > j
      BY <1>1, <2>2, <2>3, <3>2
    <3> QED
      BY <2>1, <3>2, <3>3
  <2> QED
    BY <2>1, <2>2, <2>3 DEF LastIs
<1>4. ASSUME NEW t, LastIs(p, i, t), NoWord(q, i) PROVE LastIs(c, i, t)
  <2>1. PICK j \in 1 .. Len(p) : /\ About(p[j], i) /\ p[j].what = t
                                 /\ \A h \in 1 .. Len(p) : h > j => ~ About(p[h], i)
    BY <1>4 DEF LastIs
  <2>2. \A h \in 1 .. Len(c) : h > j => ~ About(c[h], i)
    BY <1>1, <1>4, <2>1 DEF NoWord
  <2> QED
    BY <1>1, <2>1, <2>2 DEF LastIs
<1> QED
  BY <1>2, <1>3, <1>4 DEF c

LEMMA SeqOfSet ==
    ASSUME NEW S, IsFiniteSet(S)
    PROVE  /\ SetToSeq(S) \in Seq(S) /\ Len(SetToSeq(S)) = Cardinality(S) /\ Cardinality(S) \in Nat
           /\ \A x \in S : \E i \in 1 .. Cardinality(S) : SetToSeq(S)[i] = x
           /\ \A i, j \in 1 .. Cardinality(S) : SetToSeq(S)[i] = SetToSeq(S)[j] => i = j
<1>1. Cardinality(S) \in Nat /\ ExistsBijection(1 .. Cardinality(S), S)
  BY FS_CardinalityType
<1>2. PICK f \in Bijection(1 .. Cardinality(S), S) : TRUE
  BY <1>1 DEF ExistsBijection
<1>3. f \in [1 .. Cardinality(S) -> S] /\ IsInjective(f)
  BY <1>2 DEF Bijection, Injection, IsInjective
<1>4. SetToSeq(S) \in [1 .. Cardinality(S) -> S] /\ IsInjective(SetToSeq(S))
  BY <1>3 DEF SetToSeq
<1>5. SetToSeq(S) \in Injection(1 .. Cardinality(S), S)
  BY <1>4 DEF Injection, IsInjective
<1>6. IsFiniteSet(1 .. Cardinality(S)) /\ Cardinality(1 .. Cardinality(S)) = Cardinality(S)
  BY <1>1, FS_Interval
<1>7. SetToSeq(S) \in Surjection(1 .. Cardinality(S), S)
  BY <1>5, <1>6, FS_Injection
<1>8. SetToSeq(S) \in Seq(S) /\ Len(SetToSeq(S)) = Cardinality(S)
  BY <1>1, <1>4, SeqDef
<1> QED
  BY <1>1, <1>4, <1>7, <1>8 DEF Surjection, IsInjective

\* What the window sends first: one subscribe for every table it has.
LEMMA ResentWord ==
    ASSUME subscriptions \in [Ids -> Wanted]
    PROVE  /\ Resent \in Seq(ToEngine)
           /\ \A i \in Ids : subscriptions[i] = None => NoWord(Resent, i)
           /\ \A i \in Ids : subscriptions[i] # None => LastIs(Resent, i, subscriptions[i])
           /\ \A r : ~ Has(Resent, r)
<1> DEFINE held == {j \in Ids : subscriptions[j] # None}
           msg(j) == Msg("subscribe", j, subscriptions[j])
           S == {msg(j) : j \in held}
           q == SetToSeq(S)
           n == Cardinality(S)
<1>1. \A j \in held : subscriptions[j] \in Targets
  BY DEF Wanted
<1>2. \A j \in held : /\ msg(j) \in ToEngine /\ About(msg(j), j) /\ msg(j).what = subscriptions[j]
                      /\ \A k : About(msg(j), k) => k = j
                      /\ \A r : ~ Asks(msg(j), r)
  BY <1>1, MsgFacts
<1>3. IsFiniteSet(S)
  <2>1. IsFiniteSet(held)
    BY IdsAssumption, FS_Subset
  <2>2. [j \in held |-> msg(j)] \in Surjection(held, S)
    BY DEF Surjection
  <2> QED
    BY <2>1, <2>2, FS_Surjection
<1>4. /\ q \in Seq(S) /\ Len(q) = n /\ n \in Nat
      /\ \A x \in S : \E j \in 1 .. n : q[j] = x
      /\ \A j, k \in 1 .. n : q[j] = q[k] => j = k
      /\ \A j \in 1 .. n : q[j] \in S
  <2> HIDE DEF S
  <2> QED
    BY <1>3, SeqOfSet, ElementOfSeq
<1>5. Resent = q
  BY DEF Resent
<1>6. S \subseteq ToEngine
  BY <1>2
<1>7. Resent \in Seq(ToEngine)
  <2> HIDE DEF S
  <2> QED
    BY <1>4, <1>5, <1>6
<1>8. \A j \in 1 .. Len(q) : \E k \in held : q[j] = msg(k)
  <2>1. \A x \in S : \E k \in held : x = msg(k)
    OBVIOUS
  <2>2. \A j \in 1 .. Len(q) : q[j] \in S
    <3> HIDE DEF S
    <3> QED
      BY <1>4
  <2> HIDE DEF S, q
  <2> QED
    BY <2>1, <2>2
<1> HIDE DEF q, n
<1>9. \A r : ~ Has(Resent, r)
  BY <1>2, <1>5, <1>8 DEF Has
<1>10. \A i \in Ids : subscriptions[i] = None => NoWord(Resent, i)
  BY <1>2, <1>5, <1>8 DEF NoWord
<1>11. ASSUME NEW i \in Ids, subscriptions[i] # None PROVE LastIs(Resent, i, subscriptions[i])
  <2>1. i \in held /\ msg(i) \in S
    BY <1>11
  <2>2. PICK j \in 1 .. Len(q) : q[j] = msg(i)
    BY <1>4, <2>1
  <2>3. ASSUME NEW h \in 1 .. Len(q), About(q[h], i) PROVE h = j
    <3>1. PICK k \in held : q[h] = msg(k)
      BY <1>8
    <3>2. k = i
      BY <1>2, <2>3, <3>1
    <3> QED
      BY <1>4, <2>2, <3>1, <3>2
  <2>4. \A h \in 1 .. Len(q) : h > j => ~ About(q[h], i)
    BY <1>4, <2>3
  <2> QED
    BY <1>2, <1>5, <2>1, <2>2, <2>4 DEF LastIs
<1> QED
  BY <1>7, <1>9, <1>10, <1>11

\* Requests in a sequence that grows, shrinks or is sent after others.
LEMMA AppendOnce ==
    ASSUME NEW q \in Seq(ToEngine), NEW m \in ToEngine, NEW r
    PROVE  /\ Has(Append(q, m), r) <=> Has(q, r) \/ Asks(m, r)
           /\ Once(q, r) /\ (Asks(m, r) => ~ Has(q, r)) => Once(Append(q, m), r)
<1> DEFINE p == Append(q, m)
<1>1. /\ Len(p) = Len(q) + 1 /\ Len(q) \in Nat /\ p[Len(q) + 1] = m
      /\ \A j \in 1 .. Len(q) : j \in 1 .. Len(p) /\ p[j] = q[j]
      /\ \A j \in 1 .. Len(p) : j \in 1 .. Len(q) \/ j = Len(q) + 1
  BY AppendFacts
<1>2. Len(q) + 1 \in 1 .. Len(p)
  BY <1>1
<1> HIDE DEF p
<1>3. Has(p, r) <=> Has(q, r) \/ Asks(m, r)
  <2>1. Has(p, r) => Has(q, r) \/ Asks(m, r)
    BY <1>1 DEF Has
  <2>2. Has(q, r) \/ Asks(m, r) => Has(p, r)
    BY <1>1, <1>2 DEF Has
  <2> QED
    BY <2>1, <2>2
<1>4. ASSUME Once(q, r), Asks(m, r) => ~ Has(q, r) PROVE Once(p, r)
  <2> SUFFICES ASSUME NEW j \in 1 .. Len(p), NEW h \in 1 .. Len(p), Asks(p[j], r), Asks(p[h], r)
               PROVE  j = h
    BY DEF Once
  <2> QED
    BY <1>1, <1>4 DEF Has, Once
<1> QED
  BY <1>3, <1>4 DEF p

LEMMA TailOnce ==
    ASSUME NEW q \in Seq(ToEngine), q # <<>>, NEW r
    PROVE  /\ Has(Tail(q), r) => Has(q, r)
           /\ Once(q, r) => Once(Tail(q), r)
           /\ Asks(Head(q), r) => Has(q, r)
           /\ Once(q, r) /\ Asks(Head(q), r) => ~ Has(Tail(q), r)
<1> DEFINE p == Tail(q)
<1>1. /\ Head(q) = q[1] /\ Len(q) \in Nat \ {0} /\ Len(p) = Len(q) - 1 /\ 1 \in 1 .. Len(q)
      /\ \A j \in 1 .. Len(p) : j + 1 \in 1 .. Len(q) /\ p[j] = q[j + 1]
      /\ \A j \in 1 .. Len(q) : j # 1 => j - 1 \in 1 .. Len(p) /\ p[j - 1] = q[j]
  BY TailFacts
<1> HIDE DEF p
<1>2. Has(p, r) => Has(q, r)
  BY <1>1 DEF Has
<1>3. ASSUME Once(q, r) PROVE Once(p, r)
  <2> SUFFICES ASSUME NEW j \in 1 .. Len(p), NEW h \in 1 .. Len(p), Asks(p[j], r), Asks(p[h], r)
               PROVE  j = h
    BY DEF Once
  <2>1. j + 1 = h + 1
    BY <1>1, <1>3 DEF Once
  <2> QED
    BY <1>1, <2>1
<1>4. Asks(Head(q), r) => Has(q, r)
  BY <1>1 DEF Has
<1>5. ASSUME Once(q, r), Asks(Head(q), r), NEW j \in 1 .. Len(p), Asks(p[j], r) PROVE FALSE
  <2>1. j + 1 = 1
    BY <1>1, <1>5 DEF Once
  <2> QED
    BY <1>1, <2>1
<1> QED
  BY <1>2, <1>3, <1>4, <1>5 DEF p, Has

LEMMA SubSeqOnce ==
    ASSUME NEW q \in Seq(ToEngine), NEW k \in 0 .. Len(q)
    PROVE  /\ SubSeq(q, 1, k) \in Seq(ToEngine)
           /\ \A r : Has(SubSeq(q, 1, k), r) => Has(q, r)
           /\ \A r : Once(q, r) => Once(SubSeq(q, 1, k), r)
<1> DEFINE p == SubSeq(q, 1, k)
<1>1. Len(q) \in Nat /\ k \in Int /\ 1 \in Int /\ \A j \in 1 .. k : q[j] \in ToEngine
  BY ElementOfSeq, LenProperties
<1>2. p \in Seq(ToEngine) /\ Len(p) = k /\ \A j \in 1 .. k : p[j] = q[j]
  BY <1>1, SubSeqProperties
<1>3. \A j \in 1 .. Len(p) : j \in 1 .. Len(q) /\ p[j] = q[j]
  BY <1>1, <1>2
<1> HIDE DEF p
<1> QED
  BY <1>2, <1>3 DEF p, Has, Once

LEMMA ConcatOnce ==
    ASSUME NEW p \in Seq(ToEngine), NEW q \in Seq(ToEngine), NEW r, ~ Has(p, r)
    PROVE  /\ Has(p \o q, r) => Has(q, r)
           /\ Once(q, r) => Once(p \o q, r)
<1> DEFINE c == p \o q
<1>1. /\ Len(c) = Len(p) + Len(q) /\ Len(p) \in Nat /\ Len(q) \in Nat
      /\ \A j \in 1 .. Len(p) : j \in 1 .. Len(c) /\ c[j] = p[j]
      /\ \A j \in 1 .. Len(c) : j \in 1 .. Len(p) \/ (j - Len(p) \in 1 .. Len(q) /\ c[j] = q[j - Len(p)])
  BY ConcatFacts
<1> HIDE DEF c
<1>2. \A j \in 1 .. Len(c) : Asks(c[j], r) => j - Len(p) \in 1 .. Len(q) /\ c[j] = q[j - Len(p)]
  BY <1>1 DEF Has
<1>3. Has(c, r) => Has(q, r)
  BY <1>2 DEF Has
<1>4. ASSUME Once(q, r) PROVE Once(c, r)
  <2> SUFFICES ASSUME NEW j \in 1 .. Len(c), NEW h \in 1 .. Len(c), Asks(c[j], r), Asks(c[h], r)
               PROVE  j = h
    BY DEF Once
  <2>1. j - Len(p) = h - Len(p)
    BY <1>2, <1>4 DEF Once
  <2> QED
    BY <1>1, <2>1
<1> QED
  BY <1>3, <1>4 DEF c

-----------------------------------------------------------------------------
(* What the steps do.                                                      *)

SocketInv ==
    /\ TypeOK
    /\ IInv
    /\ LinkInv
    /\ StreamsInv
    /\ NoOrphanStream
    /\ WordInv
    /\ OnceInv
    /\ AnswerInv

\* A stream that was started is of a connection, a table and a target.
LEMMA StreamFacts ==
    ASSUME TypeOK, NEW s \in Streams
    PROVE  /\ s # None
           /\ \/ stream[s] = NoStream /\ stream[s].at = "none" /\ stream[s].conn = 0 /\ stream[s].conn \notin Connections
              \/ /\ stream[s] \in Stream /\ stream[s] # NoStream /\ stream[s].at \in {"starting", "syncing", "live", "over"}
                 /\ stream[s].conn \in Connections /\ stream[s].id \in Ids /\ stream[s].target \in Targets
                 /\ stream[s].stopped \in BOOLEAN
<1>1. stream[s] \in Stream \cup {NoStream}
  BY DEF TypeOK
<1>2. s # None
  BY HoldersAssumption DEF Streams
<1>3. 0 \notin Connections
  <2>1. Cardinality(Connections) \in Nat
    BY ConnectionsAssumption, FS_CardinalityType
  <2> QED
    BY <2>1, ConnectionsAssumption
<1>4. CASE stream[s] = NoStream
  BY <1>2, <1>3, <1>4 DEF NoStream
<1>5. CASE stream[s] \in Stream
  <2>1. /\ stream[s].at \in {"starting", "syncing", "live", "over"} /\ stream[s].stopped \in BOOLEAN
        /\ stream[s].conn \in Connections /\ stream[s].id \in Ids /\ stream[s].target \in Targets
    BY <1>5 DEF Stream
  <2>2. NoStream.at = "none"
    BY DEF NoStream
  <2> QED
    BY <1>2, <1>5, <2>1, <2>2
<1> QED
  BY <1>1, <1>4, <1>5

LEMMA ConnFacts ==
    /\ Connections \subseteq Nat \ {0}
    /\ \A n \in Connections, m \in Nat : m < n /\ m # 0 => m \in Connections
<1>1. Cardinality(Connections) \in Nat
  BY ConnectionsAssumption, FS_CardinalityType
<1> QED
  BY <1>1, ConnectionsAssumption

LEMMA SendFacts ==
    ASSUME TypeOK, LinkInv, NEW m \in ToEngine, Send(m)
    PROVE  /\ queue' \in Seq(ToEngine) /\ toEngine' \in [Connections -> Seq(ToEngine)]
           /\ status = "open" =>
                /\ queue' = queue /\ toEngine[conn] \in Seq(ToEngine)
                /\ toEngine'[conn] = Append(toEngine[conn], m)
                /\ \A n \in Connections : n # conn => toEngine'[n] = toEngine[n]
           /\ status # "open" => queue' = Append(queue, m) /\ toEngine' = toEngine
<1>1. CASE status = "open"
  <2>1. conn \in Connections /\ toEngine[conn] \in Seq(ToEngine)
    BY <1>1 DEF LinkInv, TypeOK
  <2>2. Append(toEngine[conn], m) \in Seq(ToEngine)
    BY <2>1, AppendFacts
  <2>3. queue' = queue /\ toEngine' = [toEngine EXCEPT ![conn] = Append(@, m)]
    BY <1>1 DEF Send
  <2> QED
    BY <1>1, <2>1, <2>2, <2>3 DEF TypeOK
<1>2. CASE status # "open"
  <2>1. Append(queue, m) \in Seq(ToEngine)
    BY AppendFacts DEF TypeOK
  <2> QED
    BY <1>2, <2>1 DEF Send, TypeOK
<1> QED
  BY <1>1, <1>2

LEMMA TakesFacts ==
    ASSUME TypeOK, NEW n \in Connections, NEW ty, Takes(n, ty)
    PROVE  /\ serving[n] /\ toEngine[n] \in Seq(ToEngine) /\ toEngine[n] # <<>>
           /\ Head(toEngine[n]) \in ToEngine /\ Head(toEngine[n]).type = ty
           /\ toEngine' \in [Connections -> Seq(ToEngine)]
           /\ toEngine'[n] = Tail(toEngine[n])
           /\ \A m \in Connections : m # n => toEngine'[m] = toEngine[m]
<1>1. /\ toEngine[n] \in Seq(ToEngine) /\ toEngine[n] # <<>> /\ serving[n] /\ Head(toEngine[n]).type = ty
      /\ toEngine' = [toEngine EXCEPT ![n] = Tail(@)]
  BY DEF Takes, TypeOK
<1>2. Head(toEngine[n]) \in ToEngine /\ Tail(toEngine[n]) \in Seq(ToEngine)
  BY <1>1, TailFacts
<1> QED
  BY <1>1, <1>2 DEF TypeOK

LEMMA ReplyFacts ==
    ASSUME TypeOK, NEW n \in Connections, NEW m \in ToWindow, Reply(n, m)
    PROVE  /\ toWindow' \in [Connections -> Seq(ToWindow)]
           /\ \A k \in Connections :
                \/ toWindow'[k] = toWindow[k]
                \/ toWindow[k] \in Seq(ToWindow) /\ toWindow'[k] = Append(toWindow[k], m)
<1>1. \A k \in Connections : toWindow[k] \in Seq(ToWindow) /\ Append(toWindow[k], m) \in Seq(ToWindow)
  BY AppendFacts DEF TypeOK
<1> QED
  BY <1>1 DEF Reply, TypeOK

\* track: the entry is s, what it held is stopped, and s, if any, is new.
LEMMA TrackFacts ==
    ASSUME TypeOK, StreamsInv, NEW n \in Connections, NEW i \in Ids, NEW s \in Streams \cup {None}, NEW new,
           s # None => new \in Stream /\ stream[s] = NoStream,
           Track(n, i, s, new)
    PROVE  /\ subs' \in [Connections -> [Ids -> Streams \cup {None}]]
           /\ stream' \in [Streams -> Stream \cup {NoStream}]
           /\ subs'[n][i] = s
           /\ \A m \in Connections, j \in Ids : m # n \/ j # i => subs'[m][j] = subs[m][j]
           /\ s # None => stream'[s] = new /\ s # subs[n][i]
           /\ \A x \in Streams : x # s =>
                /\ x = subs[n][i] => /\ stream'[x].stopped /\ stream[x] # NoStream /\ stream'[x] # NoStream
                                     /\ stream'[x].at = stream[x].at /\ stream'[x].conn = stream[x].conn
                                     /\ stream'[x].id = stream[x].id /\ stream'[x].target = stream[x].target
                /\ x # subs[n][i] => stream'[x] = stream[x]
<1> DEFINE old == subs[n][i]
<1>1. old \in Streams \cup {None} /\ (old # None => stream[old] # NoStream)
  BY DEF TypeOK, StreamsInv
<1>2. old # None => /\ [stream[old] EXCEPT !.stopped = TRUE] \in Stream
                    /\ [stream[old] EXCEPT !.stopped = TRUE] # NoStream
                    /\ stream[old] \in Stream
  BY <1>1, StreamFacts DEF Stream, NoStream
<1>3. /\ subs' = [subs EXCEPT ![n][i] = s]
      /\ stream' = IF s = None THEN Stopped(n, i) ELSE [Stopped(n, i) EXCEPT ![s] = new]
  BY DEF Track
<1>4. \A x \in Streams : Stopped(n, i)[x] = IF x = old THEN [stream[x] EXCEPT !.stopped = TRUE] ELSE stream[x]
  BY DEF Stopped
<1>5. DOMAIN Stopped(n, i) = Streams /\ Stopped(n, i) \in [Streams -> Stream \cup {NoStream}]
  <2>1. \A x \in Streams : stream[x] \in Stream \cup {NoStream} /\ x # None
    BY StreamFacts DEF TypeOK
  <2> QED
    BY <1>2, <2>1 DEF Stopped
<1>6. s # None => s \in Streams /\ s # old
  BY <1>1
<1>7. stream' \in [Streams -> Stream \cup {NoStream}] /\ \A x \in Streams : x # s => stream'[x] = Stopped(n, i)[x]
  <2> HIDE DEF old
  <2> QED
    BY <1>3, <1>5, <1>6
<1>8. s # None => stream'[s] = new
  BY <1>3, <1>5, <1>6
<1>9. ASSUME NEW x \in Streams, x # s, x = old
      PROVE  /\ stream'[x].stopped /\ stream[x] # NoStream /\ stream'[x] # NoStream
             /\ stream'[x].at = stream[x].at /\ stream'[x].conn = stream[x].conn
             /\ stream'[x].id = stream[x].id /\ stream'[x].target = stream[x].target
  <2>1. x # None /\ stream'[x] = [stream[x] EXCEPT !.stopped = TRUE]
    BY <1>4, <1>7, <1>9, StreamFacts
  <2>2. stream[x] \in Stream /\ stream[x] # NoStream /\ stream'[x] # NoStream
    BY <1>1, <1>2, <1>9, <2>1
  <2> QED
    BY <2>1, <2>2 DEF Stream
<1>10. /\ subs' \in [Connections -> [Ids -> Streams \cup {None}]] /\ subs'[n][i] = s
       /\ \A m \in Connections, j \in Ids : m # n \/ j # i => subs'[m][j] = subs[m][j]
  BY <1>3 DEF TypeOK
<1>11. s # None => stream'[s] = new /\ s # subs[n][i]
  BY <1>6, <1>7, <1>8
<1>12. \A x \in Streams : x # s /\ x # subs[n][i] => stream'[x] = stream[x]
  BY <1>4, <1>7
<1>13. \A x \in Streams : x # s /\ x = subs[n][i] =>
          /\ stream'[x].stopped /\ stream[x] # NoStream /\ stream'[x] # NoStream
          /\ stream'[x].at = stream[x].at /\ stream'[x].conn = stream[x].conn
          /\ stream'[x].id = stream[x].id /\ stream'[x].target = stream[x].target
  BY <1>9
<1> HIDE DEF old
<1> QED
  BY <1>7, <1>10, <1>11, <1>12, <1>13

\* A subscribe that gets a stream: which one, and what it becomes.
LEMMA HandleSubscribeFacts ==
    ASSUME TypeOK, StreamsInv, NEW n \in Connections, HandleSubscribe(n)
    PROVE  \E s \in Streams, i \in Ids, t \in Targets \ (NoSession \cup NoKind), new \in Stream :
             /\ new.at = "starting" /\ ~ new.stopped /\ new.conn = n /\ new.id = i /\ new.target = t
             /\ Takes(n, "subscribe") /\ Head(toEngine[n]).id = i /\ Head(toEngine[n]).what = t
             /\ Track(n, i, s, new) /\ stream[s] = NoStream
             /\ t.ns \in Namespaces /\ t.kind \in Kinds
             /\ Factory(s, t.ns, t.kind)
             /\ UNCHANGED <<client, toWindow, serving, tasks, carriedOut, bounds>>
<1>1. Takes(n, "subscribe")
  BY DEF HandleSubscribe
<1>2. Head(toEngine[n]) \in ToEngine /\ Head(toEngine[n]).type = "subscribe"
  BY <1>1, TakesFacts
<1>3. PICK s : s = CHOOSE x \in Streams : stream[x] = NoStream
  OBVIOUS
<1>4. s \in Streams /\ stream[s] = NoStream
  BY <1>3 DEF HandleSubscribe
<1>5. PICK i \in Ids, t \in Targets : Head(toEngine[n]).id = i /\ Head(toEngine[n]).what = t
  BY <1>2, ToEngineFacts
<1>6. t \notin NoSession \cup NoKind
  BY <1>5 DEF HandleSubscribe
<1>7. t.ns \in Namespaces /\ t.kind \in Kinds
  BY TargetsAssumption
<1>8. PICK new \in Stream : new = [at |-> "starting", stopped |-> FALSE, conn |-> n, id |-> i, target |-> t]
  BY DEF Stream
<1>9. /\ Track(n, i, s, new) /\ Factory(s, t.ns, t.kind)
      /\ UNCHANGED <<client, toWindow, serving, tasks, carriedOut, bounds>>
  BY <1>3, <1>5, <1>8 DEF HandleSubscribe
<1>10. new.at = "starting" /\ ~ new.stopped /\ new.conn = n /\ new.id = i /\ new.target = t
  BY <1>8
<1> QED
  BY <1>1, <1>4, <1>5, <1>6, <1>7, <1>9, <1>10

\* The engine's streams hold factories as holders do.
LEMMA FactoriesStep ==
    ASSUME TypeOK, StreamsInv, [Next]_vars
    PROVE  [FactoriesNext]_factoryVars
<1>1. CASE UNCHANGED vars
  BY <1>1 DEF vars, factoryVars
<1>2. ASSUME NEW n \in Connections, HandleSubscribe(n) PROVE FactoriesNext
  BY <1>2, HandleSubscribeFacts DEF FactoriesNext, Streams
<1>3. ASSUME NEW s \in Streams, StartStream(s) PROVE FactoriesNext
  BY <1>3 DEF StartStream, FactoriesNext, Streams
<1>4. ASSUME NEW s \in Streams, EndStream(s) PROVE FactoriesNext
  BY <1>4 DEF EndStream, FactoriesNext, Streams
<1>5. CASE \/ \E r \in Requests : Request(r)
           \/ \E i \in Ids : Unsubscribe(i) \/ \E t \in Targets : Subscribe(i, t)
           \/ Opened \/ Closed \/ Connect \/ Receive
  BY <1>5 DEF Request, Unsubscribe, Subscribe, Opened, Closed, Connect, Receive
<1>6. ASSUME NEW n \in Connections,
             \/ HandleNoSession(n) \/ HandleNoKind(n) \/ HandleUnsubscribe(n) \/ HandleRequest(n)
             \/ Disconnected(n) \/ \E r \in Requests : Serve(n, r)
      PROVE  UNCHANGED factoryVars
  BY <1>6 DEF HandleNoSession, HandleNoKind, HandleUnsubscribe, HandleRequest, Disconnected, Serve
<1>7. CASE \E s \in Streams : Synced(s) \/ SendDelta(s)
  BY <1>7 DEF Synced, SendDelta
<1> QED
  BY <1>1, <1>2, <1>3, <1>4, <1>5, <1>6, <1>7 DEF Next, Reading

-----------------------------------------------------------------------------
(* Types.                                                                  *)

\* The messages that the window sends and the steps of the socket.
LEMMA WindowTypes ==
    ASSUME TypeOK, LinkInv, FactoriesTypeOK',
           \/ \E r \in Requests : Request(r)
           \/ \E i \in Ids : Unsubscribe(i) \/ \E t \in Targets : Subscribe(i, t)
           \/ Opened \/ Closed \/ Connect \/ Receive
    PROVE  TypeOK'
<1>1. ASSUME NEW r \in Requests, Request(r) PROVE TypeOK'
  <2>1. queue' \in Seq(ToEngine) /\ toEngine' \in [Connections -> Seq(ToEngine)]
    BY <1>1, MsgFacts, SendFacts DEF Request
  <2>2. answer' \in [Requests -> Answers]
    BY <1>1 DEF Request, TypeOK, Answers
  <2>3. UNCHANGED <<link, subscriptions, strays, shown, toWindow, engine, bounds>>
    BY <1>1 DEF Request
  <2> QED
    BY <2>1, <2>2, <2>3 DEF TypeOK, link, engine, bounds
<1>2. ASSUME NEW i \in Ids, Unsubscribe(i) PROVE TypeOK'
  <2>1. queue' \in Seq(ToEngine) /\ toEngine' \in [Connections -> Seq(ToEngine)]
    BY <1>2, MsgFacts, SendFacts DEF Unsubscribe
  <2>2. subscriptions' \in [Ids -> Wanted] /\ shown' \in [Ids -> SUBSET Targets]
    BY <1>2 DEF Unsubscribe, TypeOK, Wanted
  <2>3. UNCHANGED <<link, promises, toWindow, engine, bounds, factoryVars>>
    BY <1>2 DEF Unsubscribe
  <2> QED
    BY <2>1, <2>2, <2>3 DEF TypeOK, link, engine, promises, bounds
<1>3. ASSUME NEW i \in Ids, NEW t \in Targets, Subscribe(i, t) PROVE TypeOK'
  <2>1. queue' \in Seq(ToEngine) /\ toEngine' \in [Connections -> Seq(ToEngine)]
    BY <1>3, MsgFacts, SendFacts DEF Subscribe
  <2>2. subscriptions' \in [Ids -> Wanted] /\ shown' \in [Ids -> SUBSET Targets]
    BY <1>3 DEF Subscribe, TypeOK, Wanted
  <2>3. orders' \in 0 .. MaxOrders
    BY <1>3, BoundsAssumption DEF Subscribe, TypeOK
  <2>4. UNCHANGED <<link, promises, toWindow, engine, deltas>>
    BY <1>3 DEF Subscribe
  <2> QED
    BY <2>1, <2>2, <2>3, <2>4 DEF TypeOK, link, engine, promises
<1>4. CASE Opened
  <2>1. Resent \in Seq(ToEngine) /\ Resent \o queue \in Seq(ToEngine)
    BY ResentWord, ConcatFacts DEF TypeOK
  <2>2. toEngine' \in [Connections -> Seq(ToEngine)] /\ queue' \in Seq(ToEngine)
    BY <1>4, <2>1, EmptySeq DEF Opened, TypeOK
  <2>3. status' = "open" /\ conn' \in Connections /\ serving' \in [Connections -> BOOLEAN]
    BY <1>4 DEF Opened, TypeOK
  <2>4. UNCHANGED <<subscriptions, promises, shown, toWindow, subs, stream, tasks, carriedOut, bounds>>
    BY <1>4 DEF Opened
  <2> QED
    BY <2>2, <2>3, <2>4 DEF TypeOK, promises, bounds
<1>5. CASE Closed
  <2>1. toEngine' \in [Connections -> Seq(ToEngine)] /\ toWindow' \in [Connections -> Seq(ToWindow)]
    <3>1. CASE status = "open"
      <4>1. PICK k \in 0 .. Len(toEngine[conn]) : toEngine' = [toEngine EXCEPT ![conn] = SubSeq(@, 1, k)]
        BY <1>5, <3>1 DEF Closed
      <4>2. conn \in Connections /\ toEngine[conn] \in Seq(ToEngine)
        BY <3>1 DEF LinkInv, TypeOK
      <4>3. SubSeq(toEngine[conn], 1, k) \in Seq(ToEngine)
        BY <4>1, <4>2, SubSeqOnce
      <4>4. toWindow' = [toWindow EXCEPT ![conn] = <<>>]
        BY <1>5, <3>1 DEF Closed
      <4>5. <<>> \in Seq(ToWindow)
        BY EmptySeq
      <4> QED
        BY <4>1, <4>2, <4>3, <4>4, <4>5 DEF TypeOK
    <3>2. CASE status # "open"
      BY <1>5, <3>2 DEF Closed, wire, TypeOK
    <3> QED
      BY <3>1, <3>2
  <2>2. answer' \in [Requests -> Answers] /\ status' = "closed"
    BY <1>5 DEF Closed, Rejected, TypeOK, Answers
  <2>3. UNCHANGED <<conn, subscriptions, queue, strays, shown, engine, bounds>>
    BY <1>5 DEF Closed
  <2> QED
    BY <2>1, <2>2, <2>3 DEF TypeOK, engine, bounds
<1>6. CASE Connect
  BY <1>6 DEF Connect, TypeOK, wire, engine, bounds, promises
<1>7. CASE Receive
  <2>1. conn \in Connections /\ toWindow[conn] \in Seq(ToWindow) /\ toWindow[conn] # <<>>
    BY <1>7 DEF Receive, LinkInv, TypeOK
  <2>2. Head(toWindow[conn]) \in ToWindow /\ Tail(toWindow[conn]) \in Seq(ToWindow)
    BY <2>1, TailFacts
  <2>3. toWindow' \in [Connections -> Seq(ToWindow)]
    BY <1>7, <2>1, <2>2 DEF Receive, TypeOK
  <2>4. PICK m \in ToWindow : m = Head(toWindow[conn])
    BY <2>2
  <2>5. /\ m.type = "answer" => m.id \in Requests
        /\ m.type \in {"snapshot", "delta"} => m.id \in Ids /\ m.what \in Targets
    BY DEF ToWindow
  <2>6. answer' \in [Requests -> Answers] /\ strays' \subseteq Requests /\ shown' \in [Ids -> SUBSET Targets]
    <3>1. CASE m.type = "answer" /\ answer[m.id] = "pending"
      BY <1>7, <2>4, <2>5, <3>1 DEF Receive, TypeOK, Answers
    <3>2. CASE m.type = "answer" /\ answer[m.id] # "pending"
      BY <1>7, <2>4, <2>5, <3>2 DEF Receive, TypeOK, Answers
    <3>3. CASE m.type = "snapshot"
      <4>1. shown' = [shown EXCEPT ![m.id] = {m.what}] /\ answer' = answer /\ strays' = strays
        BY <1>7, <2>4, <3>3 DEF Receive, promises
      <4>2. m.id \in Ids /\ m.what \in Targets
        BY <2>5, <3>3
      <4>3. shown' \in [Ids -> SUBSET Targets]
        BY <4>1, <4>2 DEF TypeOK
      <4> QED
        BY <4>1, <4>3 DEF TypeOK
    <3>4. CASE m.type = "delta"
      <4>1. shown' = [shown EXCEPT ![m.id] = @ \cup {m.what}] /\ answer' = answer /\ strays' = strays
        BY <1>7, <2>4, <3>4 DEF Receive, promises
      <4>2. m.id \in Ids /\ m.what \in Targets
        BY <2>5, <3>4
      <4>3. shown' \in [Ids -> SUBSET Targets]
        BY <4>1, <4>2 DEF TypeOK
      <4> QED
        BY <4>1, <4>3 DEF TypeOK
    <3> QED
      BY <1>7, <2>4, <3>1, <3>2, <3>3, <3>4 DEF Receive
  <2>7. UNCHANGED <<link, subscriptions, queue, toEngine, engine, bounds>>
    BY <1>7 DEF Receive
  <2> QED
    BY <2>3, <2>6, <2>7 DEF TypeOK, link, engine, bounds
<1> QED
  BY <1>1, <1>2, <1>3, <1>4, <1>5, <1>6, <1>7

\* The engine's steps.
LEMMA EngineTypes ==
    ASSUME TypeOK, StreamsInv, FactoriesTypeOK', NEW n \in Connections,
           Reading(n) \/ \E r \in Requests : Serve(n, r)
    PROVE  TypeOK'
<1>1. CASE HandleNoSession(n)
  <2>1. toEngine' \in [Connections -> Seq(ToEngine)]
    BY <1>1, TakesFacts DEF HandleNoSession
  <2>2. UNCHANGED <<client, toWindow, engine, bounds>>
    BY <1>1 DEF HandleNoSession
  <2> QED
    BY <2>1, <2>2 DEF TypeOK, client, engine, bounds
<1>2. CASE HandleNoKind(n) \/ HandleUnsubscribe(n)
  <2>1. PICK i \in Ids : /\ Track(n, i, None, NoStream)
                         /\ toEngine' \in [Connections -> Seq(ToEngine)]
    BY <1>2, TakesFacts, ToEngineFacts DEF HandleNoKind, HandleUnsubscribe
  <2>2. /\ subs' \in [Connections -> [Ids -> Streams \cup {None}]]
        /\ stream' \in [Streams -> Stream \cup {NoStream}]
    BY <2>1, TrackFacts
  <2>3. UNCHANGED <<client, toWindow, serving, tasks, carriedOut, bounds>>
    BY <1>2 DEF HandleNoKind, HandleUnsubscribe
  <2> QED
    BY <2>1, <2>2, <2>3 DEF TypeOK, client, bounds
<1>3. CASE HandleSubscribe(n)
  <2>1. PICK s \in Streams, i \in Ids, new \in Stream :
          /\ Takes(n, "subscribe") /\ Track(n, i, s, new) /\ stream[s] = NoStream
          /\ UNCHANGED <<client, toWindow, serving, tasks, carriedOut, bounds>>
    BY <1>3, HandleSubscribeFacts
  <2>2. toEngine' \in [Connections -> Seq(ToEngine)]
    BY <2>1, TakesFacts
  <2>3. /\ subs' \in [Connections -> [Ids -> Streams \cup {None}]]
        /\ stream' \in [Streams -> Stream \cup {NoStream}]
    BY <2>1, TrackFacts
  <2> QED
    BY <2>1, <2>2, <2>3 DEF TypeOK, client, bounds
<1>4. CASE HandleRequest(n)
  <2>1. /\ Head(toEngine[n]).id \in Requests
        /\ toEngine' \in [Connections -> Seq(ToEngine)]
    BY <1>4, TakesFacts, ToEngineFacts DEF HandleRequest
  <2>2. tasks' \subseteq Connections \X Requests
    BY <1>4, <2>1 DEF HandleRequest, TypeOK
  <2>3. UNCHANGED <<client, toWindow, serving, subs, stream, carriedOut, bounds>>
    BY <1>4 DEF HandleRequest
  <2> QED
    BY <2>1, <2>2, <2>3 DEF TypeOK, client, bounds
<1>5. CASE Disconnected(n)
  <2>1. \A s \in Streams : stream[s].conn = n => [stream[s] EXCEPT !.stopped = TRUE] \in Stream
    BY StreamFacts DEF Stream
  <2>2. stream' \in [Streams -> Stream \cup {NoStream}]
    BY <1>5, <2>1 DEF Disconnected, TypeOK
  <2>3. serving' \in [Connections -> BOOLEAN]
    BY <1>5 DEF Disconnected, TypeOK
  <2>4. UNCHANGED <<client, wire, subs, tasks, carriedOut, bounds>>
    BY <1>5 DEF Disconnected
  <2> QED
    BY <2>2, <2>3, <2>4 DEF TypeOK, client, wire, bounds
<1>6. ASSUME NEW r \in Requests, Serve(n, r) PROVE TypeOK'
  <2>1. toWindow' \in [Connections -> Seq(ToWindow)]
    <3>1. CASE Reply(n, Msg("answer", r, None))
      BY <3>1, MsgFacts, ReplyFacts
    <3>2. CASE UNCHANGED toWindow
      BY <3>2 DEF TypeOK
    <3> QED
      BY <1>6, <3>1, <3>2 DEF Serve
  <2>2. carriedOut' \in [Requests -> Nat] /\ tasks' \subseteq Connections \X Requests
    BY <1>6 DEF Serve, TypeOK
  <2>3. UNCHANGED <<client, toEngine, serving, subs, stream, bounds>>
    BY <1>6 DEF Serve
  <2> QED
    BY <2>1, <2>2, <2>3 DEF TypeOK, client, bounds
<1> QED
  BY <1>1, <1>2, <1>3, <1>4, <1>5, <1>6 DEF Reading

\* The steps of a stream.
LEMMA StreamTypes ==
    ASSUME TypeOK, FactoriesTypeOK', NEW s \in Streams,
           StartStream(s) \/ Synced(s) \/ SendDelta(s) \/ EndStream(s)
    PROVE  TypeOK'
<1>1. stream[s] \in Stream /\ stream[s].conn \in Connections /\ stream[s].id \in Ids /\ stream[s].target \in Targets
  BY StreamFacts DEF StartStream, Synced, SendDelta, EndStream
<1>2. \A at \in {"syncing", "live", "over"} : [stream[s] EXCEPT !.at = at] \in Stream
  BY <1>1 DEF Stream
<1>3. CASE StartStream(s)
  <2>1. stream' \in [Streams -> Stream \cup {NoStream}]
    BY <1>2, <1>3 DEF StartStream, TypeOK
  <2>2. UNCHANGED <<client, wire, serving, subs, tasks, carriedOut, bounds>>
    BY <1>3 DEF StartStream
  <2> QED
    BY <2>1, <2>2 DEF TypeOK, client, wire, bounds
<1>4. CASE Synced(s)
  <2>1. stream' \in [Streams -> Stream \cup {NoStream}]
    BY <1>2, <1>4 DEF Synced, TypeOK
  <2>2. toWindow' \in [Connections -> Seq(ToWindow)]
    BY <1>1, <1>4, MsgFacts, ReplyFacts DEF Synced
  <2>3. UNCHANGED <<client, toEngine, serving, subs, tasks, carriedOut, bounds>>
    BY <1>4 DEF Synced
  <2> QED
    BY <2>1, <2>2, <2>3 DEF TypeOK, client, bounds
<1>5. CASE SendDelta(s)
  <2>1. toWindow' \in [Connections -> Seq(ToWindow)]
    BY <1>1, <1>5, MsgFacts, ReplyFacts DEF SendDelta
  <2>2. deltas' \in 0 .. MaxDeltas
    BY <1>5, BoundsAssumption DEF SendDelta, TypeOK
  <2>3. UNCHANGED <<client, toEngine, engine, orders>>
    BY <1>5 DEF SendDelta
  <2> QED
    BY <2>1, <2>2, <2>3 DEF TypeOK, client, engine
<1>6. CASE EndStream(s)
  <2>1. stream' \in [Streams -> Stream \cup {NoStream}]
    BY <1>2, <1>6 DEF EndStream, TypeOK
  <2>2. UNCHANGED <<client, wire, serving, subs, tasks, carriedOut, bounds>>
    BY <1>6 DEF EndStream
  <2> QED
    BY <2>1, <2>2 DEF TypeOK, client, wire, bounds
<1> QED
  BY <1>3, <1>4, <1>5, <1>6

LEMMA TypeStep ==
    ASSUME TypeOK, LinkInv, StreamsInv, FactoriesTypeOK', [Next]_vars
    PROVE  TypeOK'
<1>1. CASE UNCHANGED vars
  BY <1>1 DEF vars, TypeOK
<1> QED
  BY <1>1, WindowTypes, EngineTypes, StreamTypes DEF Next

-----------------------------------------------------------------------------
(* The link.                                                               *)

LEMMA LinkStep ==
    ASSUME TypeOK, StreamsInv, LinkInv, [Next]_vars
    PROVE  LinkInv'
<1>1. CASE UNCHANGED vars
  BY <1>1 DEF vars, LinkInv
<1>2. ASSUME status = "open" => queue' = queue,
             UNCHANGED <<status, conn, serving, subs, stream>>
      PROVE  LinkInv'
  BY <1>2 DEF LinkInv
<1>3. CASE \E r \in Requests : Request(r)
  BY <1>2, <1>3 DEF Request, Send, link, engine
<1>4. CASE \E i \in Ids : Unsubscribe(i) \/ \E t \in Targets : Subscribe(i, t)
  BY <1>2, <1>4 DEF Unsubscribe, Subscribe, Send, link, engine
<1>5. CASE Opened
  <2>1. /\ status' = "open" /\ conn' = conn + 1 /\ conn + 1 \in Connections /\ queue' = <<>>
        /\ serving' = [serving EXCEPT ![conn + 1] = TRUE] /\ subs' = subs /\ stream' = stream
    BY <1>5 DEF Opened
  <2>2. \A n \in Connections : n > conn + 1 => n > conn /\ n # conn + 1
    BY ConnFacts DEF TypeOK
  <2>3. \A s \in Streams : stream[s].conn <= conn + 1
    <3>1. conn \in Nat
      BY ConnFacts DEF TypeOK
    <3>2. ASSUME NEW s \in Streams PROVE stream[s].conn \in Nat
      <4>1. stream[s].conn \in Connections \/ stream[s].conn = 0
        BY StreamFacts
      <4>2. Connections \subseteq Nat /\ 0 \in Nat
        BY ConnFacts
      <4> QED
        BY <4>1, <4>2
    <3> QED
      BY <3>1, <3>2 DEF LinkInv
  <2> QED
    BY <2>1, <2>2, <2>3 DEF LinkInv, TypeOK
<1>6. CASE Closed \/ Connect
  BY <1>6 DEF Closed, Connect, engine, LinkInv
<1>7. CASE Receive
  BY <1>2, <1>7 DEF Receive, link, engine
<1>8. ASSUME NEW n \in Connections, HandleNoSession(n) \/ HandleRequest(n) \/ \E r \in Requests : Serve(n, r)
      PROVE  LinkInv'
  BY <1>2, <1>8 DEF HandleNoSession, HandleRequest, Serve, client, engine
<1>9. ASSUME NEW n \in Connections, HandleNoKind(n) \/ HandleSubscribe(n) \/ HandleUnsubscribe(n)
      PROVE  LinkInv'
  <2>1. PICK i \in Ids, s \in Streams \cup {None}, new \in Stream \cup {NoStream} :
          /\ Track(n, i, s, new)
          /\ s # None => new \in Stream /\ stream[s] = NoStream /\ new.conn = n
    <3>1. CASE HandleSubscribe(n)
      BY <3>1, HandleSubscribeFacts
    <3>2. CASE HandleNoKind(n) \/ HandleUnsubscribe(n)
      BY <3>2, TakesFacts, ToEngineFacts DEF HandleNoKind, HandleUnsubscribe
    <3> QED
      BY <1>9, <3>1, <3>2
  <2>2. serving[n] /\ n <= conn
    <3>1. serving[n]
      BY <1>9 DEF HandleNoKind, HandleSubscribe, HandleUnsubscribe, Takes
    <3> QED
      BY <3>1, ConnFacts DEF LinkInv, TypeOK
  <2>3. \A m \in Connections : m > conn => m # n /\ \A j \in Ids : subs'[m][j] = subs[m][j]
    <3>1. \A m \in Connections, j \in Ids : m # n \/ j # i => subs'[m][j] = subs[m][j]
      BY <2>1, TrackFacts
    <3>2. conn \in Nat /\ \A m \in Connections : m > conn => m # n
      BY <2>2, ConnFacts DEF TypeOK
    <3> QED
      BY <3>1, <3>2
  <2>4. \A x \in Streams : stream'[x].conn \in {stream[x].conn, n}
    <3>1. /\ s # None => stream'[s] = new
          /\ \A x \in Streams : x # s => stream'[x].conn = stream[x].conn
      BY <2>1, TrackFacts
    <3> QED
      BY <2>1, <3>1, StreamFacts
  <2>5. status' = status /\ conn' = conn /\ queue' = queue /\ serving' = serving
    BY <1>9 DEF HandleNoKind, HandleSubscribe, HandleUnsubscribe, client
  <2> QED
    BY <2>2, <2>3, <2>4, <2>5 DEF LinkInv
<1>10. ASSUME NEW n \in Connections, Disconnected(n) PROVE LinkInv'
  <2>1. /\ status' = status /\ conn' = conn /\ queue' = queue /\ subs' = subs
        /\ serving' = [serving EXCEPT ![n] = FALSE]
        /\ \A s \in Streams : stream'[s].conn = stream[s].conn
    BY <1>10 DEF Disconnected, client
  <2>2. status = "open" => n # conn
    BY <1>10, ConnFacts DEF Disconnected, Lost
  <2> QED
    BY <2>1, <2>2 DEF LinkInv, TypeOK
<1>11. ASSUME NEW s \in Streams, StartStream(s) \/ Synced(s) \/ EndStream(s) PROVE LinkInv'
  <2>1. status' = status /\ conn' = conn /\ queue' = queue /\ subs' = subs /\ serving' = serving
    BY <1>11 DEF StartStream, Synced, EndStream, client
  <2>2. \A x \in Streams : stream'[x].conn = stream[x].conn
    <3>1. stream[s] \in Stream /\ \E at : stream' = [stream EXCEPT ![s].at = at]
      BY <1>11, StreamFacts DEF StartStream, Synced, EndStream
    <3> QED
      BY <3>1 DEF TypeOK, Stream
  <2> QED
    BY <2>1, <2>2 DEF LinkInv
<1>12. CASE \E s \in Streams : SendDelta(s)
  BY <1>2, <1>12 DEF SendDelta, client, engine
<1> QED
  BY <1>1, <1>3, <1>4, <1>5, <1>6, <1>7, <1>8, <1>9, <1>10, <1>11, <1>12 DEF Next, Reading

-----------------------------------------------------------------------------
(* The streams.                                                            *)

\* What the steps of the factories make of a holder.
LEMMA HoldSteps ==
    ASSUME FactoriesTypeOK, NEW s \in Streams
    PROVE  /\ \A ns \in Namespaces, kind \in Kinds : Factory(s, ns, kind) =>
                /\ hold[s].phase = "none" /\ hold'[s].phase = "acquired"
                /\ \A x \in Streams : x # s => hold'[x] = hold[x]
           /\ Start(s) =>
                /\ hold[s].phase = "acquired" /\ hold'[s].phase = "started"
                /\ \A x \in Streams : x # s => hold'[x] = hold[x]
           /\ Release(s) =>
                /\ hold[s].phase \in {"acquired", "started"} /\ hold'[s].phase = "released"
                /\ \A x \in Streams : x # s => hold'[x] = hold[x]
<1>1. hold = [h \in Streams |-> hold[h]] /\ (hold[s] = Unheld <=> hold[s].phase = "none")
  BY HoldFacts DEF Streams, FactoriesTypeOK
<1>2. ASSUME hold[s].phase \in {"acquired", "started"}
      PROVE  \A p : [hold[s] EXCEPT !.phase = p].phase = p
  <2>1. hold[s] \in [phase : {"acquired", "started", "released"}, entry : Holders, ns : Namespaces, kind : Kinds]
    BY <1>2, HoldFacts DEF Streams, FactoriesTypeOK, Unheld
  <2> QED
    BY <2>1
<1>3. ASSUME NEW ns \in Namespaces, NEW kind \in Kinds, Factory(s, ns, kind)
      PROVE  /\ hold[s].phase = "none" /\ hold'[s].phase = "acquired"
             /\ \A x \in Streams : x # s => hold'[x] = hold[x]
  BY <1>1, <1>3 DEF Factory
<1>4. ASSUME Start(s)
      PROVE  /\ hold[s].phase = "acquired" /\ hold'[s].phase = "started"
             /\ \A x \in Streams : x # s => hold'[x] = hold[x]
  BY <1>1, <1>2, <1>4 DEF Start
<1>5. ASSUME Release(s)
      PROVE  /\ hold[s].phase \in {"acquired", "started"} /\ hold'[s].phase = "released"
             /\ \A x \in Streams : x # s => hold'[x] = hold[x]
  BY <1>1, <1>2, <1>5 DEF Release
<1> QED
  BY <1>3, <1>4, <1>5

LEMMA StreamsStep ==
    ASSUME TypeOK, StreamsInv, [Next]_vars
    PROVE  StreamsInv'
<1> USE DEF Streams
<1>1. ASSUME UNCHANGED <<stream, subs, hold>> PROVE StreamsInv'
  BY <1>1 DEF StreamsInv
<1>2. CASE UNCHANGED vars
  BY <1>1, <1>2 DEF vars
<1>3. CASE \/ \E r \in Requests : Request(r)
           \/ \E i \in Ids : Unsubscribe(i) \/ \E t \in Targets : Subscribe(i, t)
           \/ Opened \/ Closed \/ Connect \/ Receive
  BY <1>1, <1>3 DEF Request, Unsubscribe, Subscribe, Opened, Closed, Connect, Receive, engine, factoryVars
<1>4. ASSUME NEW n \in Connections, HandleNoSession(n) \/ HandleRequest(n) \/ \E r \in Requests : Serve(n, r)
      PROVE  StreamsInv'
  BY <1>1, <1>4 DEF HandleNoSession, HandleRequest, Serve, engine, factoryVars
<1>5. ASSUME NEW n \in Connections, HandleNoKind(n) \/ HandleUnsubscribe(n)
      PROVE  StreamsInv'
  <2>1. PICK i \in Ids : Track(n, i, None, NoStream)
    BY <1>5, TakesFacts, ToEngineFacts DEF HandleNoKind, HandleUnsubscribe
  <2>2. hold' = hold
    BY <1>5 DEF HandleNoKind, HandleUnsubscribe, factoryVars
  <2>3. \A x \in Streams : /\ stream'[x].at = stream[x].at /\ stream'[x].conn = stream[x].conn
                           /\ stream'[x].id = stream[x].id
                           /\ stream[x] # NoStream => stream'[x] # NoStream
    <3> SUFFICES ASSUME NEW x \in Streams
                 PROVE  /\ stream'[x].at = stream[x].at /\ stream'[x].conn = stream[x].conn
                        /\ stream'[x].id = stream[x].id
                        /\ stream[x] # NoStream => stream'[x] # NoStream
      OBVIOUS
    <3>1. x # None
      BY StreamFacts
    <3> QED
      BY <2>1, <3>1, TrackFacts
  <2>4. /\ subs'[n][i] = None
        /\ \A m \in Connections, j \in Ids : m # n \/ j # i => subs'[m][j] = subs[m][j]
    BY <2>1, TrackFacts
  <2>5. \A m \in Connections, j \in Ids : subs'[m][j] # None => subs'[m][j] = subs[m][j] /\ subs[m][j] \in Streams
    BY <2>4 DEF TypeOK
  <2> QED
    BY <2>2, <2>3, <2>5 DEF StreamsInv
<1>6. ASSUME NEW n \in Connections, HandleSubscribe(n) PROVE StreamsInv'
  <2>1. PICK s \in Streams, i \in Ids, t \in Targets, new \in Stream :
          /\ new.at = "starting" /\ new.conn = n /\ new.id = i
          /\ Track(n, i, s, new) /\ stream[s] = NoStream
          /\ t.ns \in Namespaces /\ t.kind \in Kinds /\ Factory(s, t.ns, t.kind)
    BY <1>6, HandleSubscribeFacts
  <2>2. /\ hold'[s].phase = "acquired" /\ \A x \in Streams : x # s => hold'[x] = hold[x]
    BY <2>1, HoldSteps DEF TypeOK
  <2>3. s # None /\ new # NoStream
    BY <2>1, StreamFacts DEF Stream, NoStream
  <2>4. /\ stream'[s] = new
        /\ \A x \in Streams : x # s =>
             /\ stream'[x].at = stream[x].at /\ stream'[x].conn = stream[x].conn /\ stream'[x].id = stream[x].id
             /\ stream[x] # NoStream => stream'[x] # NoStream
    BY <2>1, <2>3, TrackFacts
  <2>5. /\ subs'[n][i] = s
        /\ \A m \in Connections, j \in Ids : m # n \/ j # i => subs'[m][j] = subs[m][j]
    BY <2>1, TrackFacts
  <2>6. ASSUME NEW m \in Connections, NEW j \in Ids, subs'[m][j] # None
        PROVE  /\ stream'[subs'[m][j]].conn = m /\ stream'[subs'[m][j]].id = j
               /\ stream'[subs'[m][j]] # NoStream
    <3>1. CASE m = n /\ j = i
      BY <2>1, <2>3, <2>4, <2>5, <3>1
    <3>2. CASE m # n \/ j # i
      <4>1. subs'[m][j] = subs[m][j] /\ subs[m][j] \in Streams
        BY <2>5, <2>6, <3>2 DEF TypeOK
      <4>2. /\ stream[subs[m][j]].conn = m /\ stream[subs[m][j]].id = j /\ stream[subs[m][j]] # NoStream
        BY <2>6, <4>1 DEF StreamsInv
      <4> QED
        BY <2>1, <2>4, <4>1, <4>2
    <3> QED
      BY <3>1, <3>2
  <2>7. \A x \in Streams :
          /\ stream'[x].at = "starting" <=> hold'[x].phase = "acquired"
          /\ stream'[x].at \in {"syncing", "live"} <=> hold'[x].phase = "started"
          /\ stream'[x].at = "none" <=> hold'[x].phase = "none"
    BY <2>1, <2>2, <2>4 DEF StreamsInv
  <2> QED
    BY <2>6, <2>7 DEF StreamsInv
<1>7. ASSUME NEW n \in Connections, Disconnected(n) PROVE StreamsInv'
  <2>1. subs' = subs /\ hold' = hold
    BY <1>7 DEF Disconnected, factoryVars
  <2>2. ASSUME NEW x \in Streams
        PROVE  /\ stream'[x].at = stream[x].at /\ stream'[x].conn = stream[x].conn
               /\ stream'[x].id = stream[x].id
               /\ stream[x] # NoStream => stream'[x] # NoStream
    <3>1. CASE stream[x].conn = n
      <4>1. stream[x] \in Stream /\ stream'[x] = [stream[x] EXCEPT !.stopped = TRUE]
        BY <1>7, <3>1, StreamFacts DEF Disconnected
      <4> QED
        BY <4>1 DEF Stream, NoStream
    <3>2. CASE stream[x].conn # n
      BY <1>7, <3>2 DEF Disconnected
    <3> QED
      BY <3>1, <3>2
  <2>3. \A m \in Connections, j \in Ids : subs[m][j] # None => subs[m][j] \in Streams
    BY DEF TypeOK
  <2> QED
    BY <2>1, <2>2, <2>3 DEF StreamsInv
<1>8. ASSUME NEW s \in Streams, StartStream(s) \/ Synced(s) \/ EndStream(s) PROVE StreamsInv'
  <2>1. subs' = subs
    BY <1>8 DEF StartStream, Synced, EndStream
  <2>2. PICK at \in {"syncing", "live", "over"} :
          /\ stream' = [stream EXCEPT ![s].at = at]
          /\ \/ at = "syncing" /\ Start(s)
             \/ at = "live" /\ stream[s].at = "syncing" /\ hold' = hold
             \/ at = "over" /\ Release(s)
    BY <1>8 DEF StartStream, Synced, EndStream, factoryVars
  <2>3. stream[s] \in Stream
    BY <1>8, StreamFacts DEF StartStream, Synced, EndStream
  <2>4. /\ stream'[s].at = at /\ stream'[s].conn = stream[s].conn /\ stream'[s].id = stream[s].id
        /\ stream'[s] # NoStream /\ \A x \in Streams : x # s => stream'[x] = stream[x]
    BY <2>2, <2>3 DEF Stream, TypeOK, NoStream
  <2>5. /\ \A x \in Streams : x # s => hold'[x] = hold[x]
        /\ hold'[s].phase = IF at = "over" THEN "released" ELSE "started"
    <3>1. FactoriesTypeOK /\ (stream[s].at = "syncing" => hold[s].phase = "started")
      BY DEF TypeOK, StreamsInv
    <3> QED
      BY <2>2, <3>1, HoldSteps
  <2>6. \A x \in Streams :
          /\ stream'[x].at = "starting" <=> hold'[x].phase = "acquired"
          /\ stream'[x].at \in {"syncing", "live"} <=> hold'[x].phase = "started"
          /\ stream'[x].at = "none" <=> hold'[x].phase = "none"
    BY <2>4, <2>5 DEF StreamsInv
  <2>7. \A m \in Connections, j \in Ids : subs[m][j] # None => subs[m][j] \in Streams
    BY DEF TypeOK
  <2> QED
    BY <2>1, <2>4, <2>6, <2>7 DEF StreamsInv
<1>9. CASE \E s \in Streams : SendDelta(s)
  BY <1>1, <1>9 DEF SendDelta, engine, factoryVars
<1> QED
  BY <1>2, <1>3, <1>4, <1>5, <1>6, <1>7, <1>8, <1>9 DEF Next, Reading

\* A stream that runs can be stopped.
LEMMA OrphanStep ==
    ASSUME TypeOK, StreamsInv, NoOrphanStream, [Next]_vars
    PROVE  NoOrphanStream'
<1>1. ASSUME UNCHANGED <<stream, subs>>, \A n \in Connections : serving[n] => serving'[n] PROVE NoOrphanStream'
  <2>1. \A s \in Streams : Running(s) => stream[s].conn \in Connections
    BY StreamFacts DEF Running
  <2> QED
    BY <1>1, <2>1 DEF NoOrphanStream, Running
<1>2. CASE UNCHANGED vars
  BY <1>1, <1>2 DEF vars
<1>3. CASE \/ \E r \in Requests : Request(r)
           \/ \E i \in Ids : Unsubscribe(i) \/ \E t \in Targets : Subscribe(i, t)
           \/ Closed \/ Connect \/ Receive
  BY <1>1, <1>3 DEF Request, Unsubscribe, Subscribe, Closed, Connect, Receive, engine
<1>4. CASE Opened
  BY <1>1, <1>4 DEF Opened, TypeOK
<1>5. ASSUME NEW n \in Connections, HandleNoSession(n) \/ HandleRequest(n) \/ \E r \in Requests : Serve(n, r)
      PROVE  NoOrphanStream'
  BY <1>1, <1>5 DEF HandleNoSession, HandleRequest, Serve, engine
<1>6. ASSUME NEW n \in Connections, HandleNoKind(n) \/ HandleSubscribe(n) \/ HandleUnsubscribe(n)
      PROVE  NoOrphanStream'
  <2>1. PICK i \in Ids, s \in Streams \cup {None}, new \in Stream \cup {NoStream} :
          /\ Track(n, i, s, new)
          /\ s # None => new \in Stream /\ stream[s] = NoStream /\ new.conn = n /\ new.id = i
    <3>1. CASE HandleSubscribe(n)
      BY <3>1, HandleSubscribeFacts
    <3>2. CASE HandleNoKind(n) \/ HandleUnsubscribe(n)
      BY <3>2, TakesFacts, ToEngineFacts DEF HandleNoKind, HandleUnsubscribe
    <3> QED
      BY <1>6, <3>1, <3>2
  <2>2. serving' = serving /\ serving[n]
    BY <1>6 DEF HandleNoKind, HandleSubscribe, HandleUnsubscribe, Takes
  <2>3. /\ subs'[n][i] = s
        /\ \A m \in Connections, j \in Ids : m # n \/ j # i => subs'[m][j] = subs[m][j]
        /\ s # None => stream'[s] = new
        /\ \A x \in Streams : x # s =>
             /\ x = subs[n][i] => stream'[x].stopped
             /\ x # subs[n][i] => stream'[x] = stream[x]
    BY <2>1, TrackFacts
  <2>4. ASSUME NEW x \in Streams, Running(x)'
        PROVE  serving'[stream'[x].conn] /\ subs'[stream'[x].conn][stream'[x].id] = x
    <3>1. x # None
      BY StreamFacts
    <3>2. CASE x = s
      BY <2>1, <2>2, <2>3, <3>1, <3>2
    <3>3. CASE x # s
      <4>1. x # subs[n][i] /\ stream'[x] = stream[x]
        BY <2>3, <2>4, <3>3 DEF Running
      <4>2. /\ stream[x].conn \in Connections /\ stream[x].id \in Ids
            /\ serving[stream[x].conn] /\ subs[stream[x].conn][stream[x].id] = x
        BY <2>4, <4>1, StreamFacts DEF Running, NoOrphanStream
      <4>3. stream[x].conn # n \/ stream[x].id # i
        BY <4>1, <4>2
      <4> QED
        BY <2>2, <2>3, <4>1, <4>2, <4>3
    <3> QED
      BY <3>2, <3>3
  <2> QED
    BY <2>4 DEF NoOrphanStream
<1>7. ASSUME NEW n \in Connections, Disconnected(n) PROVE NoOrphanStream'
  <2>1. /\ subs' = subs /\ serving' = [serving EXCEPT ![n] = FALSE]
        /\ stream' = [s \in Streams |->
                        IF stream[s].conn = n THEN [stream[s] EXCEPT !.stopped = TRUE] ELSE stream[s]]
    BY <1>7 DEF Disconnected
  <2>2. ASSUME NEW x \in Streams, Running(x)'
        PROVE  serving'[stream'[x].conn] /\ subs'[stream'[x].conn][stream'[x].id] = x
    <3>1. stream[x].conn # n
      <4> SUFFICES ASSUME stream[x].conn = n PROVE FALSE
        OBVIOUS
      <4>1. stream[x] \in Stream /\ stream'[x] = [stream[x] EXCEPT !.stopped = TRUE]
        BY <2>1, StreamFacts
      <4> QED
        BY <2>2, <4>1 DEF Running, Stream
    <3>2. stream'[x] = stream[x]
      BY <2>1, <3>1
    <3>3. /\ stream[x].conn \in Connections
          /\ serving[stream[x].conn] /\ subs[stream[x].conn][stream[x].id] = x
      BY <2>2, <3>2, StreamFacts DEF Running, NoOrphanStream
    <3> QED
      BY <2>1, <3>1, <3>2, <3>3 DEF TypeOK
  <2> QED
    BY <2>2 DEF NoOrphanStream
<1>8. ASSUME NEW s \in Streams, StartStream(s) \/ Synced(s) \/ EndStream(s) PROVE NoOrphanStream'
  <2>1. serving' = serving /\ subs' = subs /\ \E at : stream' = [stream EXCEPT ![s].at = at]
    BY <1>8 DEF StartStream, Synced, EndStream
  <2>2. stream[s] \in Stream /\ stream[s].at # "none"
    BY <1>8, StreamFacts DEF StartStream, Synced, EndStream
  <2>3. \A x \in Streams : /\ stream'[x].conn = stream[x].conn /\ stream'[x].id = stream[x].id
                           /\ Running(x)' => Running(x)
    BY <2>1, <2>2 DEF Stream, Running, TypeOK
  <2> QED
    BY <2>1, <2>3 DEF NoOrphanStream
<1>9. CASE \E s \in Streams : SendDelta(s)
  BY <1>1, <1>9 DEF SendDelta, engine
<1> QED
  BY <1>2, <1>3, <1>4, <1>5, <1>6, <1>7, <1>8, <1>9 DEF Next, Reading

-----------------------------------------------------------------------------
(* The window's last word on a table.                                      *)

LEMMA EngagedSame ==
    ASSUME TypeOK, NEW i \in Ids, conn \in Connections,
           conn' = conn, subscriptions'[i] = subscriptions[i], subs'[conn][i] = subs[conn][i],
           subs[conn][i] # None =>
             /\ stream'[subs[conn][i]].stopped = stream[subs[conn][i]].stopped
             /\ stream'[subs[conn][i]].target = stream[subs[conn][i]].target,
           Engaged(i)
    PROVE  Engaged(i)'
BY DEF Engaged

\* What the window sends about nothing but table i, if that.
LEMMA SendWord ==
    ASSUME TypeOK, LinkInv, NEW m \in ToEngine, Send(m), NEW i \in Ids,
           About(m, i) => m.what = subscriptions'[i],
           ~ About(m, i) => subscriptions'[i] = subscriptions[i],
           UNCHANGED <<status, conn, subs, stream>>, WordOf(i)
    PROVE  WordOf(i)'
<1>1. CASE status = "open"
  <2>1. /\ conn \in Connections /\ toEngine[conn] \in Seq(ToEngine)
        /\ toEngine'[conn] = Append(toEngine[conn], m)
    BY <1>1, SendFacts DEF LinkInv
  <2>2. CASE About(m, i)
    BY <1>1, <2>1, <2>2, AppendWord DEF WordOf
  <2>3. CASE ~ About(m, i)
    <3>1. CASE LastIs(toEngine[conn], i, subscriptions[i])
      BY <1>1, <2>1, <2>3, <3>1, AppendWord DEF WordOf
    <3>2. CASE NoWord(toEngine[conn], i) /\ Engaged(i)
      <4>1. Engaged(i)'
        BY <2>1, <2>3, <3>2, EngagedSame
      <4> QED
        BY <1>1, <2>1, <2>3, <3>2, <4>1, AppendWord DEF WordOf
    <3> QED
      BY <1>1, <3>1, <3>2 DEF WordOf
  <2> QED
    BY <2>2, <2>3
<1>2. CASE status # "open"
  <2>1. queue \in Seq(ToEngine) /\ queue' = Append(queue, m)
    BY <1>2, SendFacts DEF TypeOK
  <2> QED
    BY <1>2, <2>1, AppendWord DEF WordOf
<1> QED
  BY <1>1, <1>2

\* What the engine takes from a connection: it engages for the table that the
\* message is about, and for no other it lets go.
LEMMA TakeWord ==
    ASSUME TypeOK, LinkInv, NEW n \in Connections, NEW ty, Takes(n, ty), NEW i \in Ids,
           UNCHANGED <<status, conn, subscriptions, queue>>,
           n = conn /\ About(Head(toEngine[n]), i) /\ Head(toEngine[n]).what = subscriptions[i]
             => Engaged(i)',
           conn \in Connections /\ (n # conn \/ ~ About(Head(toEngine[n]), i)) /\ Engaged(i) => Engaged(i)',
           WordOf(i)
    PROVE  WordOf(i)'
<1>1. CASE status # "open"
  BY <1>1 DEF WordOf
<1>2. CASE status = "open" /\ n # conn
  <2>1. conn \in Connections /\ toEngine'[conn] = toEngine[conn]
    BY <1>2, TakesFacts DEF LinkInv
  <2> QED
    BY <1>2, <2>1 DEF WordOf
<1>3. CASE status = "open" /\ n = conn
  <2>1. /\ conn \in Connections /\ toEngine[conn] \in Seq(ToEngine) /\ toEngine[conn] # <<>>
        /\ toEngine'[conn] = Tail(toEngine[conn])
    BY <1>3, TakesFacts
  <2>2. CASE LastIs(toEngine[conn], i, subscriptions[i])
    BY <1>3, <2>1, <2>2, TailWord DEF WordOf
  <2>3. CASE NoWord(toEngine[conn], i) /\ Engaged(i)
    BY <1>3, <2>1, <2>3, TailWord DEF WordOf
  <2> QED
    BY <1>3, <2>2, <2>3 DEF WordOf
<1> QED
  BY <1>1, <1>2, <1>3

\* The engine's read loop takes a message.
LEMMA ReadWord ==
    ASSUME TypeOK, LinkInv, StreamsInv, NEW i \in Ids, WordOf(i), NEW n \in Connections,
           \/ HandleNoSession(n) \/ HandleNoKind(n) \/ HandleSubscribe(n)
           \/ HandleUnsubscribe(n) \/ HandleRequest(n)
    PROVE  WordOf(i)'
<1> DEFINE m == Head(toEngine[n])
<1>1. CASE HandleNoSession(n)
  <2>1. Takes(n, "subscribe") /\ m.what \in NoSession
        /\ UNCHANGED <<status, conn, subscriptions, queue, subs, stream>>
    BY <1>1 DEF HandleNoSession, client, engine
  <2>2. m.what = subscriptions[i] => Engaged(i)'
    BY <2>1 DEF Engaged
  <2>3. conn \in Connections /\ Engaged(i) => Engaged(i)'
    BY <2>1, EngagedSame
  <2> QED
    BY <2>1, <2>2, <2>3, TakeWord
<1>2. CASE HandleRequest(n)
  <2>1. Takes(n, "request") /\ UNCHANGED <<status, conn, subscriptions, queue, subs, stream>>
    BY <1>2 DEF HandleRequest, client
  <2>2. ~ About(m, i)
    BY <2>1, TakesFacts DEF About
  <2>3. conn \in Connections /\ Engaged(i) => Engaged(i)'
    BY <2>1, EngagedSame
  <2> QED
    BY <2>1, <2>2, <2>3, TakeWord
<1>3. CASE HandleNoKind(n) \/ HandleUnsubscribe(n)
  <2>1. PICK ty : /\ Takes(n, ty) /\ ty \in {"subscribe", "unsubscribe"}
                  /\ m.what \in NoKind \cup {None}
    <3>1. CASE HandleNoKind(n)
      BY <3>1 DEF HandleNoKind
    <3>2. CASE HandleUnsubscribe(n)
      BY <3>2, TakesFacts, ToEngineFacts DEF HandleUnsubscribe
    <3> QED
      BY <1>3, <3>1, <3>2
  <2>2. PICK j \in Ids : m.id = j
    BY <2>1, TakesFacts, ToEngineFacts
  <2>3. Track(n, j, None, NoStream) /\ UNCHANGED <<status, conn, subscriptions, queue>>
    BY <1>3, <2>2 DEF HandleNoKind, HandleUnsubscribe, client
  <2>4. /\ subs'[n][j] = None
        /\ \A k \in Connections, h \in Ids : k # n \/ h # j => subs'[k][h] = subs[k][h]
        /\ \A x \in Streams : x # None /\ x # subs[n][j] => stream'[x] = stream[x]
    BY <2>3, TrackFacts
  <2>5. ASSUME n = conn, About(m, i), m.what = subscriptions[i] PROVE Engaged(i)'
    <3>1. i = j
      BY <2>2, <2>5 DEF About
    <3> QED
      BY <2>1, <2>3, <2>4, <2>5, <3>1 DEF Engaged
  <2>6. ASSUME conn \in Connections, n # conn \/ ~ About(m, i), Engaged(i) PROVE Engaged(i)'
    <3>1. n # conn \/ i # j
      BY <2>1, <2>2, <2>6, TakesFacts DEF About
    <3>2. subs'[conn][i] = subs[conn][i]
      BY <2>4, <2>6, <3>1
    <3>3. subs[conn][i] # None => stream'[subs[conn][i]] = stream[subs[conn][i]]
      <4> SUFFICES ASSUME subs[conn][i] # None PROVE stream'[subs[conn][i]] = stream[subs[conn][i]]
        OBVIOUS
      <4>1. /\ subs[conn][i] \in Streams
            /\ stream[subs[conn][i]].conn = conn /\ stream[subs[conn][i]].id = i
        BY <2>6 DEF TypeOK, StreamsInv
      <4>2. subs[conn][i] # subs[n][j]
        BY <3>1, <4>1 DEF StreamsInv
      <4> QED
        BY <2>4, <4>1, <4>2
    <3> QED
      BY <2>3, <2>6, <3>2, <3>3, EngagedSame
  <2> QED
    BY <2>1, <2>3, <2>5, <2>6, TakeWord
<1>4. CASE HandleSubscribe(n)
  <2>1. PICK s \in Streams, j \in Ids, t \in Targets \ NoKind, new \in Stream :
          /\ ~ new.stopped /\ new.target = t
          /\ Takes(n, "subscribe") /\ m.id = j /\ m.what = t
          /\ Track(n, j, s, new) /\ stream[s] = NoStream
          /\ UNCHANGED <<client, toWindow, serving, tasks, carriedOut, bounds>>
    BY <1>4, HandleSubscribeFacts
  <2>2. UNCHANGED <<status, conn, subscriptions, queue>> /\ s # None
    BY <2>1, StreamFacts DEF client
  <2>3. /\ subs'[n][j] = s /\ stream'[s] = new
        /\ \A k \in Connections, h \in Ids : k # n \/ h # j => subs'[k][h] = subs[k][h]
        /\ \A x \in Streams : x # s /\ x # subs[n][j] => stream'[x] = stream[x]
    BY <2>1, <2>2, TrackFacts
  <2>4. ASSUME n = conn, About(m, i), m.what = subscriptions[i] PROVE Engaged(i)'
    <3>1. i = j
      BY <2>1, <2>4 DEF About
    <3> QED
      BY <2>1, <2>2, <2>3, <2>4, <3>1 DEF Engaged
  <2>5. ASSUME conn \in Connections, n # conn \/ ~ About(m, i), Engaged(i) PROVE Engaged(i)'
    <3>1. n # conn \/ i # j
      BY <2>1, <2>5, TakesFacts DEF About
    <3>2. subs'[conn][i] = subs[conn][i]
      BY <2>3, <2>5, <3>1
    <3>3. subs[conn][i] # None => stream'[subs[conn][i]] = stream[subs[conn][i]]
      <4> SUFFICES ASSUME subs[conn][i] # None PROVE stream'[subs[conn][i]] = stream[subs[conn][i]]
        OBVIOUS
      <4>1. /\ subs[conn][i] \in Streams /\ stream[subs[conn][i]] # NoStream
            /\ stream[subs[conn][i]].conn = conn /\ stream[subs[conn][i]].id = i
        BY <2>5 DEF TypeOK, StreamsInv
      <4>2. subs[conn][i] # subs[n][j] /\ subs[conn][i] # s
        BY <2>1, <3>1, <4>1 DEF StreamsInv
      <4> QED
        BY <2>3, <4>1, <4>2
    <3> QED
      BY <2>2, <2>5, <3>2, <3>3, EngagedSame
  <2> QED
    BY <2>1, <2>2, <2>4, <2>5, TakeWord
<1> QED
  BY <1>1, <1>2, <1>3, <1>4

\* A new connection starts from what the window has; a closed one leaves
\* nothing to say.
LEMMA SocketWord ==
    ASSUME TypeOK, LinkInv, NEW i \in Ids, WordOf(i), Opened \/ Closed \/ Connect
    PROVE  WordOf(i)'
<1>1. CASE Opened
  <2> DEFINE t == subscriptions[i]
  <2>1. /\ status # "open" /\ status' = "open" /\ conn' = conn + 1 /\ conn + 1 \in Connections
        /\ toEngine' = [toEngine EXCEPT ![conn + 1] = Resent \o queue]
        /\ UNCHANGED <<subscriptions, subs, stream>>
    BY <1>1 DEF Opened
  <2>2. toEngine'[conn'] = Resent \o queue
    BY <2>1 DEF TypeOK
  <2>3. /\ queue \in Seq(ToEngine) /\ Resent \in Seq(ToEngine)
        /\ t = None => NoWord(Resent, i)
        /\ t # None => LastIs(Resent, i, t)
    BY ResentWord DEF TypeOK
  <2>4. CASE LastIs(queue, i, t)
    <3>1. LastIs(Resent \o queue, i, t)
      BY <2>3, <2>4, ConcatWord
    <3> QED
      BY <2>1, <2>2, <3>1 DEF WordOf
  <2>5. CASE NoWord(queue, i) /\ t # None
    <3>1. LastIs(Resent \o queue, i, t)
      BY <2>3, <2>5, ConcatWord
    <3> QED
      BY <2>1, <2>2, <3>1 DEF WordOf
  <2>6. CASE NoWord(queue, i) /\ t = None
    <3>1. NoWord(Resent \o queue, i)
      BY <2>3, <2>6, ConcatWord
    <3>2. subs[conn + 1][i] = None
      BY <2>1, ConnFacts DEF LinkInv, TypeOK
    <3>3. Engaged(i)'
      BY <2>1, <2>6, <3>2 DEF Engaged
    <3> QED
      BY <2>1, <2>2, <3>1, <3>3 DEF WordOf
  <2> QED
    BY <2>1, <2>4, <2>5, <2>6 DEF WordOf
<1>2. CASE Closed
  <2>1. CASE status = "open"
    <3>1. queue = <<>> /\ queue' = queue /\ status' = "closed"
      BY <1>2, <2>1 DEF Closed, LinkInv
    <3>2. NoWord(queue', i)
      BY <3>1, EmptySeq DEF NoWord
    <3> QED
      BY <3>1, <3>2 DEF WordOf
  <2>2. CASE status # "open"
    BY <1>2, <2>2 DEF Closed, WordOf
  <2> QED
    BY <2>1, <2>2
<1>3. CASE Connect
  BY <1>3 DEF Connect, WordOf
<1> QED
  BY <1>1, <1>2, <1>3

LEMMA WordStep ==
    ASSUME TypeOK, LinkInv, StreamsInv, WordInv, [Next]_vars
    PROVE  WordInv'
<1> SUFFICES ASSUME NEW i \in Ids, WordOf(i) PROVE WordOf(i)'
  BY DEF WordInv
<1>1. ASSUME UNCHANGED <<status, conn, subscriptions, queue, toEngine, subs>>,
             \A x \in Streams : stream'[x].stopped = stream[x].stopped /\ stream'[x].target = stream[x].target
      PROVE  WordOf(i)'
  <2>1. status = "open" => conn \in Connections /\ (subs[conn][i] # None => subs[conn][i] \in Streams)
    BY DEF LinkInv, TypeOK
  <2>2. status = "open" /\ Engaged(i) => Engaged(i)'
    BY <1>1, <2>1, EngagedSame
  <2> QED
    BY <1>1, <2>2 DEF WordOf
<1>2. CASE UNCHANGED vars
  BY <1>1, <1>2 DEF vars
<1>3. ASSUME NEW r \in Requests, Request(r) PROVE WordOf(i)'
  BY <1>3, MsgFacts, SendWord DEF Request, link, engine
<1>4. ASSUME NEW j \in Ids, NEW t \in Targets, Subscribe(j, t) PROVE WordOf(i)'
  <2>1. /\ Msg("subscribe", j, t) \in ToEngine /\ Msg("subscribe", j, t).what = t
        /\ About(Msg("subscribe", j, t), i) <=> j = i
    BY MsgFacts
  <2>2. subscriptions'[i] = IF j = i THEN t ELSE subscriptions[i]
    BY <1>4 DEF Subscribe, TypeOK
  <2>3. Send(Msg("subscribe", j, t)) /\ UNCHANGED <<status, conn, subs, stream>>
    BY <1>4 DEF Subscribe, link, engine
  <2> QED
    BY <2>1, <2>2, <2>3, SendWord
<1>5. ASSUME NEW j \in Ids, Unsubscribe(j) PROVE WordOf(i)'
  <2>1. /\ Msg("unsubscribe", j, None) \in ToEngine /\ Msg("unsubscribe", j, None).what = None
        /\ About(Msg("unsubscribe", j, None), i) <=> j = i
    BY MsgFacts
  <2>2. subscriptions'[i] = IF j = i THEN None ELSE subscriptions[i]
    BY <1>5 DEF Unsubscribe, TypeOK
  <2>3. Send(Msg("unsubscribe", j, None)) /\ UNCHANGED <<status, conn, subs, stream>>
    BY <1>5 DEF Unsubscribe, link, engine
  <2> QED
    BY <2>1, <2>2, <2>3, SendWord
<1>6. CASE Receive
  BY <1>1, <1>6 DEF Receive, link, engine
<1>7. ASSUME NEW n \in Connections, \E r \in Requests : Serve(n, r) PROVE WordOf(i)'
  BY <1>1, <1>7 DEF Serve, client
<1>8. ASSUME NEW n \in Connections, Disconnected(n) PROVE WordOf(i)'
  <2>1. /\ UNCHANGED <<status, conn, subscriptions, queue, toEngine, subs>>
        /\ stream' = [s \in Streams |->
                        IF stream[s].conn = n THEN [stream[s] EXCEPT !.stopped = TRUE] ELSE stream[s]]
    BY <1>8 DEF Disconnected, client, wire
  <2>2. status = "open" => conn \in Connections /\ conn # n
    BY <1>8, ConnFacts DEF LinkInv, Disconnected, Lost
  <2>3. status = "open" /\ subs[conn][i] # None => stream'[subs[conn][i]] = stream[subs[conn][i]]
    BY <2>1, <2>2 DEF StreamsInv, TypeOK
  <2>4. status = "open" /\ Engaged(i) => Engaged(i)'
    BY <2>1, <2>2, <2>3, EngagedSame
  <2> QED
    BY <2>1, <2>4 DEF WordOf
<1>9. ASSUME NEW s \in Streams, StartStream(s) \/ Synced(s) \/ EndStream(s) PROVE WordOf(i)'
  <2>1. UNCHANGED <<status, conn, subscriptions, queue, toEngine, subs>>
        /\ \E at : stream' = [stream EXCEPT ![s].at = at]
    BY <1>9 DEF StartStream, Synced, EndStream, client, wire
  <2>2. stream[s] \in Stream
    BY <1>9, StreamFacts DEF StartStream, Synced, EndStream
  <2>3. \A x \in Streams : stream'[x].stopped = stream[x].stopped /\ stream'[x].target = stream[x].target
    BY <2>1, <2>2 DEF Stream, TypeOK
  <2> QED
    BY <1>1, <2>1, <2>3
<1>10. CASE \E s \in Streams : SendDelta(s)
  BY <1>1, <1>10 DEF SendDelta, client, engine
<1> QED
  BY <1>2, <1>3, <1>4, <1>5, <1>6, <1>7, <1>8, <1>9, <1>10, ReadWord, SocketWord DEF Next, Reading

-----------------------------------------------------------------------------
(* Requests.                                                               *)

\* A step that puts request r nowhere new.
LEMMA OnceKept ==
    ASSUME NEW r \in Requests, OnceOf(r),
           Once(queue, r) => Once(queue', r), Has(queue', r) => Has(queue, r),
           \A n \in Connections :
             /\ Once(toEngine[n], r) => Once(toEngine'[n], r)
             /\ Has(toEngine'[n], r) => Has(toEngine[n], r)
             /\ <<n, r>> \in tasks' => <<n, r>> \in tasks,
           carriedOut'[r] = carriedOut[r],
           answer[r] # "unasked" => answer'[r] # "unasked"
    PROVE  OnceOf(r)'
BY DEF OnceOf

\* The window sends something that is not request r.
LEMMA SendOnce ==
    ASSUME TypeOK, LinkInv, NEW m \in ToEngine, Send(m), NEW r \in Requests, ~ Asks(m, r), OnceOf(r),
           UNCHANGED <<tasks, carriedOut>>, answer'[r] = answer[r]
    PROVE  OnceOf(r)'
<1>1. queue \in Seq(ToEngine) /\ \A n \in Connections : toEngine[n] \in Seq(ToEngine)
  BY DEF TypeOK
<1>2. CASE status = "open"
  <2>1. \A n \in Connections : toEngine'[n] = toEngine[n] \/ toEngine'[n] = Append(toEngine[n], m)
    BY <1>2, SendFacts
  <2>2. queue' = queue
    BY <1>2, SendFacts
  <2>3. \A n \in Connections : /\ Once(toEngine[n], r) => Once(toEngine'[n], r)
                               /\ Has(toEngine'[n], r) => Has(toEngine[n], r)
    <3> SUFFICES ASSUME NEW n \in Connections
                 PROVE  /\ Once(toEngine[n], r) => Once(toEngine'[n], r)
                        /\ Has(toEngine'[n], r) => Has(toEngine[n], r)
      OBVIOUS
    <3>1. toEngine[n] \in Seq(ToEngine)
      BY <1>1
    <3>2. /\ Once(toEngine[n], r) => Once(Append(toEngine[n], m), r)
          /\ Has(Append(toEngine[n], m), r) => Has(toEngine[n], r)
      BY <3>1, AppendOnce
    <3> QED
      BY <2>1, <3>2
  <2> QED
    BY <2>2, <2>3, OnceKept
<1>3. CASE status # "open"
  <2>1. queue' = Append(queue, m) /\ toEngine' = toEngine
    BY <1>3, SendFacts
  <2>2. (Once(queue, r) => Once(queue', r)) /\ (Has(queue', r) => Has(queue, r))
    BY <1>1, <2>1, AppendOnce
  <2> QED
    BY <2>1, <2>2, OnceKept
<1> QED
  BY <1>2, <1>3

LEMMA RequestOnce ==
    ASSUME TypeOK, LinkInv, NEW q \in Requests, Request(q), NEW r \in Requests, OnceOf(r)
    PROVE  OnceOf(r)'
<1> DEFINE m == Msg("request", q, None)
<1>1. /\ m \in ToEngine /\ (Asks(m, r) <=> q = r)
  BY MsgFacts
<1>2. /\ Send(m) /\ UNCHANGED <<tasks, carriedOut>> /\ answer[q] = "unasked"
      /\ answer' = [answer EXCEPT ![q] = "pending"]
  BY DEF Request, engine
<1> HIDE DEF m
<1>3. CASE q # r
  <2>1. answer'[r] = answer[r]
    BY <1>2, <1>3 DEF TypeOK
  <2> QED
    BY <1>1, <1>2, <1>3, <2>1, SendOnce
<1>4. CASE q = r
  <2>1. /\ ~ Has(queue, r) /\ carriedOut[r] = 0
        /\ \A n \in Connections : ~ Has(toEngine[n], r) /\ <<n, r>> \notin tasks
    BY <1>2, <1>4 DEF OnceOf
  <2>2. answer'[r] # "unasked"
    BY <1>2, <1>4 DEF TypeOK
  <2>3. queue \in Seq(ToEngine) /\ \A n \in Connections : toEngine[n] \in Seq(ToEngine)
    BY DEF TypeOK
  <2>4. CASE status = "open"
    <3>1. /\ queue' = queue /\ conn \in Connections /\ toEngine'[conn] = Append(toEngine[conn], m)
          /\ \A n \in Connections : n # conn => toEngine'[n] = toEngine[n]
      BY <1>1, <1>2, <2>4, SendFacts DEF LinkInv
    <3>2. Once(toEngine'[conn], r)
      BY <1>1, <2>1, <2>3, <3>1, AppendOnce DEF OnceOf
    <3> QED
      BY <1>2, <2>1, <2>2, <3>1, <3>2 DEF OnceOf
  <2>5. CASE status # "open"
    <3>1. queue' = Append(queue, m) /\ toEngine' = toEngine
      BY <1>1, <1>2, <2>5, SendFacts
    <3>2. Once(queue', r)
      BY <1>1, <2>1, <2>3, <3>1, AppendOnce DEF OnceOf
    <3> QED
      BY <1>2, <2>1, <2>2, <3>1, <3>2 DEF OnceOf
  <2> QED
    BY <2>4, <2>5
<1> QED
  BY <1>3, <1>4

\* What was queued goes to the new connection; what a closed one loses is
\* nowhere any more.
LEMMA SocketOnce ==
    ASSUME TypeOK, LinkInv, NEW r \in Requests, OnceOf(r), Opened \/ Closed \/ Connect \/ Receive
    PROVE  OnceOf(r)'
<1>1. CASE Opened
  <2>1. /\ conn + 1 \in Connections /\ queue' = <<>>
        /\ toEngine' = [toEngine EXCEPT ![conn + 1] = Resent \o queue]
        /\ UNCHANGED <<answer, tasks, carriedOut>>
    BY <1>1 DEF Opened, promises
  <2>2. /\ toEngine'[conn + 1] = Resent \o queue
        /\ \A n \in Connections : n # conn + 1 => toEngine'[n] = toEngine[n]
    BY <2>1 DEF TypeOK
  <2>3. queue \in Seq(ToEngine) /\ Resent \in Seq(ToEngine) /\ ~ Has(Resent, r)
    BY ResentWord DEF TypeOK
  <2>4. /\ Has(toEngine'[conn + 1], r) => Has(queue, r)
        /\ Once(toEngine'[conn + 1], r)
    BY <2>2, <2>3, ConcatOnce DEF OnceOf
  <2>5. ~ Has(queue', r) /\ Once(queue', r)
    BY <2>1, EmptySeq DEF Has, Once
  <2>6. CASE Has(queue, r)
    <3>1. /\ answer[r] # "unasked" /\ carriedOut[r] = 0
          /\ \A n \in Connections : ~ Has(toEngine[n], r) /\ <<n, r>> \notin tasks
      BY <2>6 DEF OnceOf
    <3>2. \A n \in Connections : Has(toEngine'[n], r) => n = conn + 1
      BY <2>2, <3>1
    <3>3. \A n \in Connections : Once(toEngine'[n], r)
      BY <2>2, <2>4 DEF OnceOf
    <3> QED
      BY <2>1, <2>5, <3>1, <3>2, <3>3 DEF OnceOf
  <2>7. CASE ~ Has(queue, r)
    <3>1. \A n \in Connections : /\ Once(toEngine'[n], r)
                                 /\ Has(toEngine'[n], r) => Has(toEngine[n], r)
      BY <2>2, <2>4, <2>7 DEF OnceOf
    <3> QED
      BY <2>1, <2>5, <3>1, OnceKept
  <2> QED
    BY <2>6, <2>7
<1>2. CASE Closed
  <2>1. queue' = queue /\ tasks' = tasks /\ carriedOut' = carriedOut
    BY <1>2 DEF Closed, engine
  <2>2. answer[r] # "unasked" => answer'[r] # "unasked"
    BY <1>2 DEF Closed, Rejected
  <2>3. \A n \in Connections : /\ Once(toEngine[n], r) => Once(toEngine'[n], r)
                               /\ Has(toEngine'[n], r) => Has(toEngine[n], r)
    <3>1. CASE status = "open"
      <4>1. PICK k \in 0 .. Len(toEngine[conn]) : toEngine' = [toEngine EXCEPT ![conn] = SubSeq(@, 1, k)]
        BY <1>2, <3>1 DEF Closed
      <4>2. /\ toEngine[conn] \in Seq(ToEngine) /\ toEngine'[conn] = SubSeq(toEngine[conn], 1, k)
            /\ \A n \in Connections : n # conn => toEngine'[n] = toEngine[n]
        BY <3>1, <4>1 DEF LinkInv, TypeOK
      <4> QED
        BY <4>1, <4>2, SubSeqOnce
    <3>2. CASE status # "open"
      BY <1>2, <3>2 DEF Closed, wire
    <3> QED
      BY <3>1, <3>2
  <2> QED
    BY <2>1, <2>2, <2>3, OnceKept
<1>3. CASE Connect
  BY <1>3, OnceKept DEF Connect, engine, wire, promises
<1>4. CASE Receive
  <2>1. queue' = queue /\ tasks' = tasks /\ carriedOut' = carriedOut /\ toEngine' = toEngine
    BY <1>4 DEF Receive, engine
  <2>2. answer[r] # "unasked" => answer'[r] # "unasked"
    BY <1>4 DEF Receive, TypeOK, promises
  <2> QED
    BY <2>1, <2>2, OnceKept
<1> QED
  BY <1>1, <1>2, <1>3, <1>4

LEMMA ReadOnce ==
    ASSUME TypeOK, LinkInv, NEW r \in Requests, OnceOf(r), NEW n \in Connections,
           \/ HandleNoSession(n) \/ HandleNoKind(n) \/ HandleSubscribe(n)
           \/ HandleUnsubscribe(n) \/ HandleRequest(n)
    PROVE  OnceOf(r)'
<1> DEFINE q == toEngine[n]
<1>1. PICK ty : Takes(n, ty) /\ (ty = "request" <=> HandleRequest(n))
  <2>1. CASE HandleRequest(n)
    BY <2>1 DEF HandleRequest
  <2>2. CASE ~ HandleRequest(n)
    BY <2>2 DEF HandleNoSession, HandleNoKind, HandleSubscribe, HandleUnsubscribe
  <2> QED
    BY <2>1, <2>2
<1>2. /\ q \in Seq(ToEngine) /\ q # <<>> /\ Head(q).type = ty /\ Head(q) \in ToEngine /\ toEngine'[n] = Tail(q)
      /\ \A m \in Connections : m # n => toEngine'[m] = toEngine[m]
  BY <1>1, TakesFacts
<1>3. \A m \in Connections : /\ Once(toEngine[m], r) => Once(toEngine'[m], r)
                             /\ Has(toEngine'[m], r) => Has(toEngine[m], r)
  BY <1>2, TailOnce
<1>4. queue' = queue /\ answer' = answer /\ carriedOut' = carriedOut
  BY DEF HandleNoSession, HandleNoKind, HandleSubscribe, HandleUnsubscribe, HandleRequest, client, engine
<1>5. CASE ~ HandleRequest(n)
  <2>1. tasks' = tasks
    BY <1>5 DEF HandleNoSession, HandleNoKind, HandleSubscribe, HandleUnsubscribe, engine
  <2> QED
    BY <1>3, <1>4, <2>1, OnceKept
<1>6. CASE HandleRequest(n) /\ Head(q).id # r
  <2>1. \A m \in Connections : <<m, r>> \in tasks' => <<m, r>> \in tasks
    BY <1>6 DEF HandleRequest
  <2> QED
    BY <1>3, <1>4, <2>1, OnceKept
<1>7. CASE HandleRequest(n) /\ Head(q).id = r
  <2>1. Asks(Head(q), r)
    BY <1>1, <1>2, <1>7 DEF Asks
  <2>2. Has(q, r) /\ Once(q, r) /\ ~ Has(toEngine'[n], r)
    BY <1>2, <2>1, TailOnce DEF OnceOf
  <2>3. /\ ~ Has(queue, r) /\ carriedOut[r] = 0 /\ answer[r] # "unasked"
        /\ \A m \in Connections : <<m, r>> \notin tasks /\ ~ Has(toEngine'[m], r)
    BY <1>3, <2>2 DEF OnceOf
  <2>4. tasks' = tasks \cup {<<n, r>>}
    BY <1>7 DEF HandleRequest
  <2>5. \A m \in Connections : <<m, r>> \in tasks' => m = n
    BY <2>3, <2>4
  <2> QED
    BY <1>3, <1>4, <2>3, <2>5 DEF OnceOf
<1> QED
  BY <1>5, <1>6, <1>7

LEMMA ServeOnce ==
    ASSUME TypeOK, NEW r \in Requests, OnceOf(r), NEW n \in Connections, NEW q \in Requests, Serve(n, q)
    PROVE  OnceOf(r)'
<1>1. /\ UNCHANGED <<queue, answer, toEngine>> /\ <<n, q>> \in tasks /\ tasks' = tasks \ {<<n, q>>}
      /\ carriedOut' \in {carriedOut, [carriedOut EXCEPT ![q] = @ + 1]}
  BY DEF Serve, client
<1>2. CASE carriedOut'[r] = carriedOut[r]
  BY <1>1, <1>2, OnceKept
<1>3. CASE carriedOut'[r] # carriedOut[r]
  <2>1. q = r /\ carriedOut'[r] = carriedOut[r] + 1
    BY <1>1, <1>3 DEF TypeOK
  <2>2. /\ carriedOut[r] = 0 /\ answer[r] # "unasked" /\ ~ Has(queue, r)
        /\ \A m \in Connections : ~ Has(toEngine[m], r) /\ (<<m, r>> \in tasks => m = n)
    BY <1>1, <2>1 DEF OnceOf
  <2>3. \A m \in Connections : <<m, r>> \notin tasks'
    BY <1>1, <2>1, <2>2
  <2> QED
    BY <1>1, <2>1, <2>2, <2>3 DEF OnceOf
<1> QED
  BY <1>2, <1>3

LEMMA OnceStep ==
    ASSUME TypeOK, LinkInv, OnceInv, [Next]_vars
    PROVE  OnceInv'
<1> SUFFICES ASSUME NEW r \in Requests, OnceOf(r) PROVE OnceOf(r)'
  BY DEF OnceInv
<1>1. ASSUME UNCHANGED <<queue, answer, toEngine, tasks, carriedOut>> PROVE OnceOf(r)'
  BY <1>1, OnceKept
<1>2. CASE UNCHANGED vars
  BY <1>1, <1>2 DEF vars
<1>3. ASSUME NEW i \in Ids, NEW t \in Targets, Subscribe(i, t) PROVE OnceOf(r)'
  BY <1>3, MsgFacts, SendOnce DEF Subscribe, engine, promises
<1>4. ASSUME NEW i \in Ids, Unsubscribe(i) PROVE OnceOf(r)'
  BY <1>4, MsgFacts, SendOnce DEF Unsubscribe, engine, promises
<1>5. CASE \E n \in Connections : Disconnected(n)
  BY <1>1, <1>5 DEF Disconnected, client, wire
<1>6. CASE \E s \in Streams : StartStream(s) \/ Synced(s) \/ SendDelta(s) \/ EndStream(s)
  BY <1>1, <1>6 DEF StartStream, Synced, SendDelta, EndStream, client, wire, engine
<1> QED
  BY <1>2, <1>3, <1>4, <1>5, <1>6, RequestOnce, SocketOnce, ReadOnce, ServeOnce DEF Next, Reading

\* Answers arrive, are lost, or are sent for what was carried out.
LEMMA AnswersKept ==
    ASSUME TypeOK, AnswerInv,
           \A r \in Requests : carriedOut[r] = 1 => carriedOut'[r] = 1,
           \A r \in Requests : answer'[r] = "answered" => carriedOut'[r] = 1,
           \A n \in Connections :
             \/ toWindow'[n] = toWindow[n]
             \/ toWindow'[n] = <<>>
             \/ toWindow[n] # <<>> /\ toWindow'[n] = Tail(toWindow[n])
             \/ \E m \in ToWindow : /\ toWindow'[n] = Append(toWindow[n], m)
                                    /\ m.type = "answer" => carriedOut'[m.id] = 1
    PROVE  AnswerInv'
<1> SUFFICES ASSUME NEW n \in Connections, NEW j \in 1 .. Len(toWindow'[n]), toWindow'[n][j].type = "answer"
             PROVE  carriedOut'[toWindow'[n][j].id] = 1
  BY DEF AnswerInv
<1> DEFINE q == toWindow[n]
<1>1. q \in Seq(ToWindow)
  BY DEF TypeOK
<1>2. ASSUME NEW h \in 1 .. Len(q), q[h].type = "answer" PROVE carriedOut'[q[h].id] = 1
  <2>1. q[h] \in ToWindow /\ carriedOut[q[h].id] = 1
    BY <1>1, <1>2, ElementOfSeq DEF AnswerInv
  <2>2. q[h].id \in Requests
    BY <1>2, <2>1 DEF ToWindow
  <2> QED
    BY <2>1, <2>2
<1>3. CASE toWindow'[n] = q
  BY <1>2, <1>3
<1>4. CASE toWindow'[n] = <<>>
  BY <1>4, EmptySeq
<1>5. CASE q # <<>> /\ toWindow'[n] = Tail(q)
  <2>1. PICK h \in 1 .. Len(q) : toWindow'[n][j] = q[h]
    BY <1>1, <1>5, TailFacts
  <2> QED
    BY <1>2, <2>1
<1>6. ASSUME NEW m \in ToWindow, toWindow'[n] = Append(q, m), m.type = "answer" => carriedOut'[m.id] = 1
      PROVE  carriedOut'[toWindow'[n][j].id] = 1
  <2>1. (j \in 1 .. Len(q) /\ toWindow'[n][j] = q[j]) \/ toWindow'[n][j] = m
    BY <1>1, <1>6, AppendFacts
  <2> QED
    BY <1>2, <1>6, <2>1
<1> QED
  BY <1>3, <1>4, <1>5, <1>6

LEMMA AnswerStep ==
    ASSUME TypeOK, LinkInv, OnceInv, AnswerInv, [Next]_vars
    PROVE  AnswerInv'
<1>1. ASSUME UNCHANGED <<answer, toWindow, carriedOut>> PROVE AnswerInv'
  BY <1>1 DEF AnswerInv
<1>2. CASE UNCHANGED vars
  BY <1>1, <1>2 DEF vars
<1>3. CASE \E r \in Requests : Request(r)
  <2>1. UNCHANGED <<toWindow, carriedOut>> /\ \A r \in Requests : answer'[r] = "answered" => answer[r] = "answered"
    BY <1>3 DEF Request, TypeOK, engine
  <2> QED
    BY <2>1 DEF AnswerInv
<1>4. CASE \/ \E i \in Ids : Unsubscribe(i) \/ \E t \in Targets : Subscribe(i, t)
           \/ Opened \/ Connect
  BY <1>1, <1>4 DEF Unsubscribe, Subscribe, Opened, Connect, engine, promises, wire
<1>5. CASE Closed
  <2>1. carriedOut' = carriedOut /\ \A r \in Requests : answer'[r] = "answered" => answer[r] = "answered"
    BY <1>5 DEF Closed, Rejected, TypeOK, engine
  <2>2. \A n \in Connections : toWindow'[n] \in {toWindow[n], <<>>}
    BY <1>5 DEF Closed, wire, TypeOK
  <2>3. \A r \in Requests : answer'[r] = "answered" => carriedOut'[r] = 1
    BY <2>1 DEF AnswerInv
  <2> QED
    BY <2>1, <2>2, <2>3, AnswersKept
<1>6. CASE Receive
  <2> DEFINE m == Head(toWindow[conn])
  <2>1. conn \in Connections /\ toWindow[conn] \in Seq(ToWindow) /\ toWindow[conn] # <<>>
    BY <1>6 DEF Receive, LinkInv, TypeOK
  <2>2. m.type = "answer" => carriedOut[m.id] = 1
    BY <2>1, TailFacts DEF AnswerInv
  <2>3. carriedOut' = carriedOut /\ toWindow' = [toWindow EXCEPT ![conn] = Tail(@)]
    BY <1>6 DEF Receive, engine
  <2>4. \A r \in Requests : answer'[r] = "answered" => answer[r] = "answered" \/ (m.type = "answer" /\ r = m.id)
    BY <1>6 DEF Receive, TypeOK, promises
  <2>5. \A r \in Requests : answer'[r] = "answered" => carriedOut'[r] = 1
    BY <2>2, <2>3, <2>4 DEF AnswerInv
  <2>6. \A n \in Connections : \/ toWindow'[n] = toWindow[n]
                               \/ toWindow[n] # <<>> /\ toWindow'[n] = Tail(toWindow[n])
    BY <2>1, <2>3 DEF TypeOK
  <2> QED
    BY <2>3, <2>5, <2>6, AnswersKept
<1>7. CASE \E n \in Connections : Reading(n)
  BY <1>1, <1>7 DEF Reading, HandleNoSession, HandleNoKind, HandleSubscribe, HandleUnsubscribe, HandleRequest,
     Disconnected, client, engine, wire
<1>8. ASSUME NEW n \in Connections, NEW r \in Requests, Serve(n, r) PROVE AnswerInv'
  <2>1. CASE UNCHANGED <<carriedOut, toWindow>>
    BY <1>1, <1>8, <2>1 DEF Serve, client
  <2>2. CASE carriedOut' = [carriedOut EXCEPT ![r] = @ + 1] /\ Reply(n, Msg("answer", r, None))
    <3>1. carriedOut[r] = 0 /\ answer' = answer
      BY <1>8 DEF OnceInv, OnceOf, Serve, client
    <3>2. \A q \in Requests : carriedOut[q] = 1 => carriedOut'[q] = 1
      BY <2>2, <3>1 DEF TypeOK
    <3>3. carriedOut'[r] = 1
      BY <2>2, <3>1 DEF TypeOK
    <3>4. \A q \in Requests : answer'[q] = "answered" => carriedOut'[q] = 1
      BY <3>1, <3>2 DEF AnswerInv
    <3>5. PICK m \in ToWindow : m = Msg("answer", r, None) /\ m.id = r
      BY MsgFacts
    <3>6. \A k \in Connections : toWindow'[k] = toWindow[k] \/ toWindow'[k] = Append(toWindow[k], m)
      BY <2>2, <3>5, ReplyFacts
    <3> QED
      BY <3>2, <3>3, <3>4, <3>5, <3>6, AnswersKept
  <2> QED
    BY <1>8, <2>1, <2>2 DEF Serve
<1>9. ASSUME NEW s \in Streams, StartStream(s) \/ EndStream(s) PROVE AnswerInv'
  BY <1>1, <1>9 DEF StartStream, EndStream, client, wire
<1>10. ASSUME NEW s \in Streams, Synced(s) \/ SendDelta(s) PROVE AnswerInv'
  <2>1. stream[s].conn \in Connections /\ stream[s].id \in Ids /\ stream[s].target \in Targets
    BY <1>10, StreamFacts DEF Synced, SendDelta
  <2>2. PICK m \in ToWindow : m.type # "answer" /\ Reply(stream[s].conn, m)
    BY <1>10, <2>1, MsgFacts DEF Synced, SendDelta
  <2>3. \A k \in Connections : toWindow'[k] = toWindow[k] \/ toWindow'[k] = Append(toWindow[k], m)
    BY <2>1, <2>2, ReplyFacts
  <2>4. answer' = answer /\ carriedOut' = carriedOut
    BY <1>10 DEF Synced, SendDelta, client, engine
  <2>5. \A r \in Requests : answer'[r] = "answered" => carriedOut'[r] = 1
    BY <2>4 DEF AnswerInv
  <2> QED
    BY <2>2, <2>3, <2>4, <2>5, AnswersKept
<1> QED
  BY <1>2, <1>3, <1>4, <1>5, <1>6, <1>7, <1>8, <1>9, <1>10 DEF Next

-----------------------------------------------------------------------------
(* The invariant and what follows from it.                                 *)

LEMMA SocketInit == Init => SocketInv
<1> SUFFICES ASSUME Init PROVE SocketInv
  OBVIOUS
<1>1. IInv
  BY InitInv DEF Init
<1>2. <<>> \in Seq(ToEngine) /\ <<>> \in Seq(ToWindow) /\ Len(<<>>) = 0
  BY EmptySeq
<1>3. \A s \in Streams : stream[s] = NoStream /\ stream[s].at = "none" /\ stream[s].conn = 0
  BY DEF Init, NoStream
<1>4. TypeOK
  <2>1. FactoriesTypeOK
    BY <1>1 DEF IInv
  <2> QED
    BY <1>2, <2>1, BoundsAssumption DEF Init, TypeOK, Wanted, Answers
<1>5. LinkInv
  BY <1>3 DEF Init, LinkInv
<1>6. StreamsInv
  <2>1. \A s \in Streams : hold[s].phase = "none"
    BY DEF Init, FactoriesInit, Unheld, Streams
  <2> QED
    BY <1>3, <2>1 DEF Init, StreamsInv
<1>7. NoOrphanStream
  BY <1>3 DEF NoOrphanStream, Running
<1>8. WordInv
  BY <1>2 DEF Init, WordInv, WordOf, NoWord
<1>9. OnceInv
  BY <1>2 DEF Init, OnceInv, OnceOf, Once, Has
<1>10. AnswerInv
  BY <1>2 DEF Init, AnswerInv
<1> QED
  BY <1>1, <1>4, <1>5, <1>6, <1>7, <1>8, <1>9, <1>10 DEF SocketInv

LEMMA SocketNext == SocketInv /\ [Next]_vars => SocketInv'
<1> SUFFICES ASSUME SocketInv, [Next]_vars PROVE SocketInv'
  OBVIOUS
<1> USE DEF SocketInv
<1>1. IInv'
  BY FactoriesStep, NextInv
<1>2. FactoriesTypeOK'
  BY <1>1 DEF IInv
<1> QED
  BY <1>1, <1>2, TypeStep, LinkStep, StreamsStep, OrphanStep, WordStep, OnceStep, AnswerStep

LEMMA SocketInvariance == Spec => []SocketInv
<1> QED BY SocketInit, SocketNext, PTL DEF Spec

\* EngineSocket and connection: types.
THEOREM SocketTyping == Spec => []TypeOK
<1>1. SocketInv => TypeOK
  BY DEF SocketInv
<1> QED BY <1>1, SocketInvariance, PTL

\* resubscribe and handle: once the engine has read what the window sent it
\* streams what the window is subscribed to, and nothing else, however often
\* and whenever the link dropped.
THEOREM EngineAgrees == Spec => []SubscriptionsAgree
<1>1. SocketInv => SubscriptionsAgree
  <2> SUFFICES ASSUME SocketInv, Quiet, NEW i \in Ids, subscriptions[i] \notin NoSession,
                      NEW mine, mine = {s \in Streams : /\ Running(s)
                                                       /\ stream[s].conn = conn
                                                       /\ stream[s].id = i}
               PROVE  IF subscriptions[i] \in NoKind \cup {None} THEN mine = {}
                      ELSE /\ Cardinality(mine) = 1
                           /\ \A s \in mine : stream[s].target = subscriptions[i]
    BY DEF SubscriptionsAgree
  <2> DEFINE s == subs[conn][i]
  <2>1. status = "open" /\ conn \in Connections /\ toEngine[conn] = <<>>
    BY DEF Quiet, SocketInv, LinkInv
  <2>2. Engaged(i)
    <3>1. ~ LastIs(toEngine[conn], i, subscriptions[i])
      BY <2>1, EmptySeq DEF LastIs
    <3> QED
      BY <2>1, <3>1 DEF SocketInv, WordInv, WordOf
  <2>3. \A x \in mine : x = s /\ x # None /\ ~ stream[x].stopped
    BY StreamFacts DEF SocketInv, NoOrphanStream, Running
  <2>4. CASE subscriptions[i] \in NoKind \cup {None}
    <3>1. s # None => stream[s].stopped
      BY <2>2, <2>4, TargetsAssumption DEF Engaged
    <3> QED
      BY <2>3, <2>4, <3>1
  <2>5. CASE subscriptions[i] \notin NoKind \cup {None}
    <3>1. s # None /\ ~ stream[s].stopped /\ stream[s].target = subscriptions[i]
      BY <2>2, <2>5 DEF Engaged
    <3>2. s \in Streams /\ stream[s].conn = conn /\ stream[s].id = i /\ stream[s] # NoStream
      BY <2>1, <3>1 DEF SocketInv, StreamsInv, TypeOK
    <3>3. Running(s)
      BY <3>1, <3>2, StreamFacts DEF SocketInv, Running
    <3>4. mine = {s}
      BY <2>3, <3>2, <3>3
    <3> QED
      BY <2>5, <3>1, <3>4, FS_Singleton
  <2> QED
    BY <2>4, <2>5
<1> QED BY <1>1, SocketInvariance, PTL

\* connection.track and run: no stream outlives the connection it is of, and
\* each can be stopped by its id for as long as it runs.
THEOREM StreamsOwned == Spec => []NoOrphanStream
<1>1. SocketInv => NoOrphanStream
  BY DEF SocketInv
<1> QED BY <1>1, SocketInvariance, PTL

\* EngineSocket.request: never carried out twice, not even when it waited for
\* a link, and its promise resolves only with the answer of having been.
THEOREM RequestsOnce == Spec => []CarriedOutOnce
<1>1. SocketInv => CarriedOutOnce
  BY DEF SocketInv, CarriedOutOnce, OnceInv, OnceOf, AnswerInv
<1> QED BY <1>1, SocketInvariance, PTL

\* The streams of every connection share the factories of a session as
\* SessionFactories says that holders do.
THEOREM SocketImplementsFactories == Spec => FactoriesSpec
<1>1. Init => FactoriesInit
  BY DEF Init
<1>2. SocketInv /\ [Next]_vars => [FactoriesNext]_factoryVars
  BY FactoriesStep DEF SocketInv
<1> QED BY <1>1, <1>2, SocketInvariance, PTL DEF Spec, FactoriesSpec

\* So a stream's informer runs for as long as the stream does, whatever other
\* streams of its connection or another let go of.
THEOREM StreamsKeepRunning == Spec => []HeldKeepsRunning
<1> QED BY SocketImplementsFactories, HeldRuns, PTL

\* And when the last stream of a namespace has ended nothing of it runs.
THEOREM StreamsLeaveNothing == Spec => []NothingLeftRunning
<1> QED BY SocketImplementsFactories, NothingLeft, PTL
=============================================================================
