------------------------------- MODULE MCHeap -------------------------------
(* Small instances of Heap for TLC. *)
EXTENDS Heap, TLC
CONSTANTS c1, c2
TwoCells == {c1, c2}
Symmetric == Permutations(TwoCells)

(* To the collector, objects and arrays are native functions, registered   *)
(* or not, a named property or an accessor is one more reference it does   *)
(* not follow, like a suspended scope, and a reason is a value.            *)
CycleKinds == {"function", "native", "env", "weakmap", "promise"}
CycleSlots == {"field", "closure", "value", "reaction", "suspended"}
ObjectKinds == {"object"}
ObjectSlots == {"field"}
=============================================================================
