------------------------------ MODULE MCBuiltins ------------------------------
(* A collection, an array, a BigInt or generators: one of them at a time.  *)
EXTENDS Arrays, Collections, MCBigInts, Generators

CONSTANTS e1, e2, k1, k2, k3, x1, it1, it2, g1, g2, g3

ThreeElements == {e1, e2, Undefined}
TwoRanks == {[v \in {e1, e2} |-> IF v = e1 THEN n ELSE 1] : n \in {0, 1}}

ThreeKeys == {k1, k2, k3}
OneVal == {x1}
TwoIterators == {it1, it2}
SomeItems == {<<>>, <<<<k1, x1>>, <<k2, x1>>, <<k1, x1>>>>}

ThreeGens == {g1, g2, g3}

VARIABLE part

Init ==
  /\ part \in {"collection", "array", "bigint", "generators"}
  /\ CollectionsInit /\ (part # "collection" => kind = "map" /\ items = <<>>)
  /\ ArraysInit /\ (part # "array" => elems = <<>> /\ rank[e1] = 0)
  /\ GeneratorsInit
  /\ BigIntsInit /\ (part # "bigint" => value = TextOf(0))

(* Arrays stop when a method has returned: what may follow it may follow   *)
(* without it, since Fill makes the same elements of the same length.      *)
Next ==
  /\ UNCHANGED part
  /\ \/ /\ part = "array" /\ finished = NoCall /\ ArraysNext
        /\ UNCHANGED <<collectionVars, bigIntVars, generatorVars>>
     \/ /\ part = "collection" /\ CollectionsNext
        /\ UNCHANGED <<arrayVars, bigIntVars, generatorVars>>
     \/ /\ part = "bigint" /\ BigIntsNext
        /\ UNCHANGED <<arrayVars, collectionVars, generatorVars>>
     \/ /\ part = "generators" /\ GeneratorsNext
        /\ UNCHANGED <<arrayVars, collectionVars, bigIntVars>>

Spec == Init /\ [][Next]_<<part, arrayVars, collectionVars, bigIntVars, generatorVars>>
===============================================================================
