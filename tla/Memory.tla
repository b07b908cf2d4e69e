------------------------------- MODULE Memory -------------------------------
(***************************************************************************)
(* The graph that a program's values form, shared by HeapSpec and Heap:    *)
(* cells, the strong references between them, weak map entries, and what   *)
(* Rust's reference counts and the program itself make of it.              *)
(***************************************************************************)

CONSTANT Cell    \* addresses of reference-counted cells

(* Where a cell keeps a reference:                                         *)
(*   field    - a property, element, entry, binding, outer scope           *)
(*   closure  - the scope of a function                                    *)
(*   value, reason - what a promise was fulfilled or rejected with         *)
(*   reaction - a handler or a dependent of a pending promise              *)
(*   suspended - the scope in the continuation of an awaiting function     *)
(*   named    - a named property of an array                               *)
(*   accessor - a getter or setter on a function or a promise              *)
Slot == {"field", "closure", "value", "reason", "reaction", "suspended",
         "named", "accessor"}
Edge == [from : Cell, slot : Slot, to : Cell]
Entry == [map : Cell, key : Cell, value : Cell]
Graph == [edges : SUBSET Edge, entries : SUBSET Entry]

Edges(m, slots) == {e \in m.edges : e.slot \in slots}

(* What the reference counts keep: the largest set in which every cell is  *)
(* held from outside or referred to from the set.                          *)
Alive(m, held) ==
    UNION {S \in SUBSET Cell : \A c \in S :
             \/ c \in held
             \/ \E e \in m.edges : e.from \in S /\ e.to = c
             \/ \E n \in m.entries : n.map \in S /\ n.value = c}

(* Cells whose count reaches zero are dropped with what they refer to.     *)
Keep(m, cells) == [edges |-> {e \in m.edges : e.from \in cells},
                   entries |-> {n \in m.entries : n.map \in cells}]
Dropped(m, held) == Keep(m, Alive(m, held))

(* What a program can get at from what it holds: it follows every          *)
(* reference, and a weak map entry when it has the key as well.            *)
Usable(m, held) ==
    LET closed == {S \in SUBSET Cell :
                     /\ held \subseteq S
                     /\ \A e \in m.edges : e.from \in S => e.to \in S
                     /\ \A n \in m.entries : {n.map, n.key} \subseteq S => n.value \in S}
    IN  {c \in Cell : \A S \in closed : c \in S}

(* The collector does not look at every place a cell keeps references in.  *)
(* What can be got at without the ones it misses:                          *)
Missed == {"named", "accessor", "suspended"}
Traced(m, from) == Usable([m EXCEPT !.edges = {e \in @ : e.slot \notin Missed}], from)

(* The graph m2 still has what the given cells refer to in m. *)
Spares(m, m2, cells) ==
    /\ \A e \in m.edges : e.from \in cells => e \in m2.edges
    /\ \A n \in m.entries : {n.map, n.key} \subseteq cells => n \in m2.entries

(* The part of the graph a program can get at. *)
Seen(m, held) ==
    LET usable == Usable(m, held)
    IN  [edges |-> {e \in m.edges : e.from \in usable},
         entries |-> {n \in m.entries : {n.map, n.key} \subseteq usable}]
=============================================================================
