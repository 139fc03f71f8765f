------------------------------ MODULE Priorities ------------------------------
(* Layering of the pairwise Task Preferences of one planning request: a      *)
(* preference is [a, b, strict], "a is preferred to b" or "a is as good as   *)
(* b".  Tasks that only indifference, or a cycle, relates share a layer; the *)
(* layers run from the most preferred, 0, down.                              *)
EXTENDS PlanWindows

Named(preferences, eligible) ==
  {p \in preferences : p.a \in eligible /\ p.b \in eligible}
Ranked(pairs) == UNION {{p.a, p.b} : p \in pairs}

(* <<a, b>>: a is at least as good as b, through any number of Tasks, so     *)
(* that b is in every set that a is in and no comparison leads out of.       *)
Reaches(pairs) ==
  LET edges == {<<p.a, p.b>> : p \in pairs}
                 \cup {<<p.b, p.a>> : p \in {q \in pairs : ~q.strict}}
      Closed == {c \in SUBSET Ranked(pairs) : \A e \in edges : e[1] \in c => e[2] \in c}
  IN {e \in Ranked(pairs) \X Ranked(pairs) : \A c \in Closed : e[1] \in c => e[2] \in c}

(* The components of mutual reach that hold a strict preference.             *)
Cycles(pairs) ==
  LET reaches == Reaches(pairs)
  IN {{i \in Ranked(pairs) : {<<p.a, i>>, <<i, p.a>>} \subseteq reaches} :
        p \in {q \in pairs : q.strict /\ <<q.b, q.a>> \in reaches}}

(* A layer is the longest chain of strict preferences between components     *)
(* that ends in it.                                                          *)
WrongLayers(pairs) ==
  [i \in Ranked(pairs) |-> Cardinality({p \in pairs : p.strict /\ p.b = i})]
Layers(pairs) ==
  LET reaches == Reaches(pairs)
      Above(i) == {p \in pairs : /\ p.strict /\ <<p.b, p.a>> \notin reaches
                                 /\ {<<p.b, i>>, <<i, p.b>>} \subseteq reaches}
      chain[n \in 0..Cardinality(Ranked(pairs))] ==
        LET shorter == chain[n - 1]
        IN [i \in Ranked(pairs) |->
              IF n = 0 THEN 0 ELSE Latest({shorter[p.a] + 1 : p \in Above(i)}, 0)]
  IN chain[Cardinality(Ranked(pairs))]

LayerCount(layers) == Latest({layers[i] + 1 : i \in DOMAIN layers}, 0)

(* The value of a Task, in tenths of 1 / (LayerCount - 1): 1.0 for the first *)
(* layer, 0.1 for the last and for a Task no preference names, linear        *)
(* between them.                                                             *)
PreferenceValue(layers, i) ==
  LET scale == Later(LayerCount(layers), 2) - 1
  IN IF i \in DOMAIN layers THEN 10 * scale - 9 * layers[i] ELSE scale

(* Where the topological order takes a Task that is ready.                   *)
OrderKey(layers, i) ==
  LET count == LayerCount(layers)
  IN IF i \in DOMAIN layers THEN layers[i]
     ELSE IF count >= 2 THEN count - 1 ELSE count

=============================================================================
