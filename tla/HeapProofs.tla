----------------------------- MODULE HeapProofs -----------------------------
(***************************************************************************)
(* Theorems about Heap, for any number of cells, any threshold and any     *)
(* references user code makes.  The nursery counter is exact, nothing      *)
(* dangles, Heap implements HeapSpec, and nothing leaks but what hangs on  *)
(* a cell no collection severs.                                            *)
(***************************************************************************)
EXTENDS Heap, FiniteSetTheorems, TLAPS

-----------------------------------------------------------------------------
(* The nursery counter.                                                    *)

NurseryInv ==
    /\ generation \in [Cell -> {"none", "young", "tenured"}]
    /\ nursery_len = Cardinality(Young)

LEMMA YoungFinite == IsFiniteSet(Young)
  BY HeapAssumption, FS_Subset DEF HeapAssumption, Young

(* A collection leaves no young cell and takes their number off. *)
LEMMA CollectCounts ==
  ASSUME NEW which, NEW roots, NEW held, NurseryInv, Collect(which, roots, held)
  PROVE  NurseryInv'
  <1>1. PICK doomed, alive : Promote(doomed, alive)
    BY DEF Collect
  <1>2. nursery_len' = nursery_len - Cardinality(Young)
    BY DEF Collect, Count
  <1>3. generation' \in [Cell -> {"none", "tenured"}]
    BY <1>1 DEF Promote
  <1>4. Young' = {}
    BY <1>3 DEF Young
  <1>5. Cardinality(Young) \in Nat
    BY YoungFinite, FS_CardinalityType
  <1>6. nursery_len' = 0
    BY <1>2, <1>5 DEF NurseryInv
  <1> QED BY <1>3, <1>4, <1>6, FS_EmptySet DEF NurseryInv

(* A new cell was not registered, so it is one more young cell, or none if *)
(* it is not registered now.                                               *)
LEMMA NewCellCounts ==
  ASSUME NEW c \in FreeCells, NEW k, NEW scope, NurseryInv, NewCell(c, k, scope)
  PROVE  NurseryInv'
  <1>1. c \in Cell /\ c \notin Young
    BY DEF FreeCells, Young
  <1>2. PICK birth \in {"none", "young"} : Register(c, birth)
    BY DEF NewCell, Births
  <1>3. generation' = [generation EXCEPT ![c] = birth]
    BY <1>2 DEF Register
  <1>4. generation' \in [Cell -> {"none", "young", "tenured"}]
    BY <1>2, <1>3 DEF NurseryInv
  <1>5. CASE birth = "young"
    <2>1. Young' = Young \cup {c}
      BY <1>1, <1>3, <1>5 DEF NurseryInv, Young
    <2>2. Cardinality(Young') = Cardinality(Young) + 1
      BY <1>1, <2>1, YoungFinite, FS_AddElement
    <2> QED BY <1>2, <1>4, <1>5, <2>2 DEF Register, NurseryInv
  <1>6. CASE birth = "none"
    <2>1. Young' = Young
      BY <1>1, <1>3, <1>6 DEF NurseryInv, Young
    <2> QED BY <1>2, <1>4, <1>6, <2>1 DEF Register, NurseryInv
  <1> QED BY <1>5, <1>6

LEMMA UncollectedKeepsCount ==
  ASSUME NurseryInv, UNCHANGED <<generation, nursery_len>>
  PROVE  NurseryInv'
  BY DEF NurseryInv, Young

LEMMA NurseryStep ==
  ASSUME NurseryInv, [Next]_vars
  PROVE  NurseryInv'
  <1>1. CASE New
    BY <1>1, NewCellCounts DEF New
  <1>2. CASE \/ Store \/ Erase \/ Settle \/ WeakMapSet \/ WeakMapDelete
             \/ Globally \/ Locally \/ StartEval
    <2>1. Uncollected
      BY <1>2 DEF Store, Erase, Settle, SettleWith, WeakMapSet, WeakMapDelete, Globally,
                  Locally, Change, StartEval
    <2> QED BY <2>1, UncollectedKeepsCount DEF Uncollected, counters
  <1>3. ASSUME NEW roots, NEW held, MaybeCollect(roots, held)  PROVE NurseryInv'
    BY <1>3, CollectCounts, UncollectedKeepsCount DEF MaybeCollect, Uncollected, counters
  <1>4. CASE FinishEval \/ FinishEvalInJob
    BY <1>3, <1>4 DEF FinishEval, FinishEvalInJob
  <1>5. CASE HostCollect
    BY <1>5, CollectCounts DEF HostCollect
  <1>6. CASE UNCHANGED vars
    BY <1>6, UncollectedKeepsCount DEF vars
  <1> QED BY <1>1, <1>2, <1>4, <1>5, <1>6 DEF Next, UserCode, Engine

(* The counter of young cells, which decides when memory is collected, is  *)
(* exact in every state.                                                   *)
THEOREM NurseryExactAlways == Spec => []NurseryExact
  <1>1. Init => NurseryInv
    BY FS_EmptySet DEF Init, NurseryInv, Young
  <1>2. NurseryInv /\ [Next]_vars => NurseryInv'
    BY NurseryStep
  <1>3. NurseryInv => NurseryExact
    BY DEF NurseryInv, NurseryExact
  <1> QED BY <1>1, <1>2, <1>3, PTL DEF Spec


-----------------------------------------------------------------------------
(* What a collection spares: what can be traced from its roots.            *)

(* What is alive is closed under the references that are left. *)
LEMMA AliveClosed ==
  ASSUME NEW m, NEW held \in SUBSET Cell
  PROVE  /\ held \subseteq Alive(m, held)
         /\ \A e \in m.edges : e.from \in Alive(m, held) /\ e.to \in Cell
                => e.to \in Alive(m, held)
         /\ \A n \in m.entries : n.map \in Alive(m, held) /\ n.value \in Cell
                => n.value \in Alive(m, held)
  <1> DEFINE Supported(S) == \A c \in S :
               \/ c \in held
               \/ \E e \in m.edges : e.from \in S /\ e.to = c
               \/ \E n \in m.entries : n.map \in S /\ n.value = c
  <1>1. \A S \in SUBSET Cell : Supported(S) => S \subseteq Alive(m, held)
    BY DEF Alive
  <1>2. \A c \in Alive(m, held) : \E S \in SUBSET Cell : Supported(S) /\ c \in S
    BY DEF Alive
  <1>3. held \subseteq Alive(m, held)
    BY <1>1
  <1>4. ASSUME NEW e \in m.edges, e.from \in Alive(m, held), e.to \in Cell
        PROVE  e.to \in Alive(m, held)
    <2>1. PICK S \in SUBSET Cell : Supported(S) /\ e.from \in S
      BY <1>2, <1>4
    <2>2. Supported(S \cup {e.to})
      BY <2>1, <1>4
    <2> QED BY <2>2, <1>1, <1>4
  <1>5. ASSUME NEW n \in m.entries, n.map \in Alive(m, held), n.value \in Cell
        PROVE  n.value \in Alive(m, held)
    <2>1. PICK S \in SUBSET Cell : Supported(S) /\ n.map \in S
      BY <1>2, <1>5
    <2>2. Supported(S \cup {n.value})
      BY <2>1, <1>5
    <2> QED BY <2>2, <1>1, <1>5
  <1> QED BY <1>3, <1>4, <1>5

(* A set that holds what is held and is closed under the references holds  *)
(* all a program can get at.                                               *)
LEMMA UsableLeast ==
  ASSUME NEW m, NEW held, NEW S \in SUBSET Cell, held \subseteq S,
         \A e \in m.edges : e.from \in S => e.to \in S,
         \A n \in m.entries : {n.map, n.key} \subseteq S => n.value \in S
  PROVE  Usable(m, held) \subseteq S
  BY DEF Usable

LEMMA UsableClosed ==
  ASSUME NEW m \in Graph, NEW held \in SUBSET Cell
  PROVE  /\ held \subseteq Usable(m, held)
         /\ Usable(m, held) \subseteq Cell
         /\ \A e \in m.edges : e.from \in Usable(m, held) => e.to \in Usable(m, held)
         /\ \A n \in m.entries : {n.map, n.key} \subseteq Usable(m, held)
                => n.value \in Usable(m, held)
  BY DEF Usable, Graph, Edge, Entry


(* What can be traced is what could be got at if the references that the   *)
(* collector misses were not there.                                        *)
Followable(m) == [m EXCEPT !.edges = {e \in @ : e.slot \notin Missed}]

LEMMA TracedIsUsable ==
  ASSUME NEW m \in Graph, NEW from
  PROVE  /\ Followable(m) \in Graph
         /\ Followable(m).edges = {e \in m.edges : e.slot \notin Missed}
         /\ Followable(m).entries = m.entries
         /\ Traced(m, from) = Usable(Followable(m), from)
  BY DEF Traced, Followable, Graph

(* All that can be traced is marked.  More is marked than that: values of  *)
(* weak maps without their keys.                                           *)
LEMMA TracedMarked ==
  ASSUME mem \in Graph, NEW roots \in SUBSET Cell
  PROVE  Traced(mem, roots) \subseteq Marked(roots)
  <1> DEFINE g == Followable(mem)
  <1>1. /\ g \in Graph /\ g.edges = {e \in mem.edges : e.slot \notin Missed}
        /\ g.entries = mem.entries /\ Traced(mem, roots) = Usable(g, roots)
    BY TracedIsUsable
  <1> HIDE DEF g
  <1>2. g.edges \subseteq Edges(mem, Followed)
    <2>1. \A e \in mem.edges : e.slot \in Slot
      BY DEF Graph, Edge
    <2> QED BY <1>1, <2>1 DEF Edges, Followed, Missed, Slot
  <1>3. ASSUME NEW S \in SUBSET Cell, roots \subseteq S,
               \A e \in Edges(mem, Followed) : e.from \in S => e.to \in S,
               \A n \in mem.entries : n.map \in S => n.value \in S
        PROVE  Usable(g, roots) \subseteq S
    <2>1. \A e \in g.edges : e.from \in S => e.to \in S
      BY <1>2, <1>3
    <2>2. \A n \in g.entries : {n.map, n.key} \subseteq S => n.value \in S
      BY <1>1, <1>3
    <2> QED BY <1>3, <2>1, <2>2, UsableLeast
  <1>4. Usable(g, roots) \subseteq Cell
    BY DEF Usable
  <1> QED BY <1>1, <1>3, <1>4 DEF Marked, Reach

(* m is what is left of mem in the course of a collection, and some cells  *)
(* still refer to what they referred to.                                   *)
Intact(m, cells) ==
    /\ m \in Graph /\ m.edges \subseteq mem.edges /\ m.entries \subseteq mem.entries
    /\ \A e \in mem.edges : e.from \in cells => e \in m.edges
    /\ \A n \in mem.entries : {n.map, n.key} \subseteq cells => n \in m.entries

(* Then the reference counts keep what can be got at from the roots.  The  *)
(* hypotheses are weaker than Intact: only what is alive in m needs its    *)
(* references.                                                             *)
LEMMA UsableAlive ==
  ASSUME NEW g \in Graph, NEW m, NEW held \in SUBSET Cell, NEW roots \in SUBSET held,
         \A e \in g.edges :
            e.from \in Usable(g, roots) \cap Alive(m, held) => e \in m.edges,
         \A n \in g.entries :
            {n.map, n.key} \subseteq Usable(g, roots) \cap Alive(m, held) => n \in m.entries
  PROVE  Usable(g, roots) \subseteq Alive(m, held)
  <1> DEFINE S == Usable(g, roots) \cap Alive(m, held)
  <1>0. roots \in SUBSET Cell
    OBVIOUS
  <1>1. S \in SUBSET Cell /\ roots \subseteq S
    BY <1>0, UsableClosed, AliveClosed
  <1>2. ASSUME NEW e \in g.edges, e.from \in S  PROVE e.to \in S
    <2>1. e.to \in Cell /\ e \in m.edges
      BY <1>2 DEF Graph, Edge
    <2> QED BY <1>0, <2>1, <1>2, UsableClosed, AliveClosed
  <1>3. ASSUME NEW n \in g.entries, {n.map, n.key} \subseteq S  PROVE n.value \in S
    <2>1. n.value \in Cell /\ n \in m.entries
      BY <1>3 DEF Graph, Entry
    <2> QED BY <1>0, <2>1, <1>3, UsableClosed, AliveClosed
  <1> HIDE DEF S
  <1>4. Usable(g, roots) \subseteq S
    BY <1>1, <1>2, <1>3, UsableLeast
  <1> QED BY <1>4 DEF S

LEMMA TracedAlive ==
  ASSUME mem \in Graph, NEW held \in SUBSET Cell, NEW roots \in SUBSET held, NEW m,
         \A e \in mem.edges :
            e.from \in Traced(mem, roots) \cap Alive(m, held) => e \in m.edges,
         \A n \in mem.entries :
            {n.map, n.key} \subseteq Traced(mem, roots) \cap Alive(m, held) => n \in m.entries
  PROVE  Traced(mem, roots) \subseteq Alive(m, held)
  <1> DEFINE g == Followable(mem)
  <1>1. /\ g \in Graph /\ g.edges \subseteq mem.edges
        /\ g.entries = mem.entries /\ Traced(mem, roots) = Usable(g, roots)
    BY TracedIsUsable
  <1> HIDE DEF g
  <1> QED BY <1>1, UsableAlive

(* No step of a collection harms what can be traced: the drops of the      *)
(* reference counts, the severing of cells, the pruning of weak maps.      *)
LEMMA DroppedIntact ==
  ASSUME mem \in Graph, NEW held \in SUBSET Cell, NEW roots \in SUBSET held,
         NEW m, Intact(m, Traced(mem, roots))
  PROVE  Intact(Dropped(m, held), Traced(mem, roots))
  <1> DEFINE T == Traced(mem, roots)
             d == Dropped(m, held)
  <1>1. T \subseteq Alive(m, held)
    BY TracedAlive DEF Intact
  <1>2. /\ d.edges = {e \in m.edges : e.from \in Alive(m, held)}
        /\ d.entries = {n \in m.entries : n.map \in Alive(m, held)}
    BY DEF Dropped, Keep
  <1>3. d \in Graph
    <2>1. m.edges \in SUBSET Edge /\ m.entries \in SUBSET Entry
      BY DEF Intact, Graph
    <2>2. d = [edges |-> d.edges, entries |-> d.entries]
      BY DEF Dropped, Keep
    <2> HIDE DEF d
    <2> QED BY <2>1, <2>2, <1>2 DEF Graph
  <1> HIDE DEF d, T
  <1>4. Intact(m, T)
    BY DEF T
  <1>5. d.edges \subseteq mem.edges /\ d.entries \subseteq mem.entries
    BY <1>2, <1>4 DEF Intact
  <1>6. \A e \in mem.edges : e.from \in T => e \in d.edges
    BY <1>1, <1>2, <1>4 DEF Intact
  <1>7. \A n \in mem.entries : {n.map, n.key} \subseteq T => n \in d.entries
    BY <1>1, <1>2, <1>4 DEF Intact
  <1>8. Intact(d, T)
    BY <1>3, <1>5, <1>6, <1>7 DEF Intact
  <1> QED BY <1>8 DEF d, T

LEMMA WithoutIntact ==
  ASSUME NEW cells, NEW m, NEW doomed, Intact(m, cells), doomed \cap cells = {}
  PROVE  Intact(Without(m, doomed), cells)
  BY DEF Intact, Without, Graph

LEMMA PrunedIntact ==
  ASSUME mem \in Graph, NEW held \in SUBSET Cell, NEW roots \in SUBSET held,
         NEW m, Intact(m, Traced(mem, roots)),
         NEW doomed, doomed \cap Traced(mem, roots) = {},
         NEW gone, Prunes(m, gone, doomed, held)
  PROVE  Intact([m EXCEPT !.entries = @ \ gone], Traced(mem, roots))
  <1> DEFINE T == Traced(mem, roots)
             m2 == [m EXCEPT !.entries = @ \ gone]
  <1>1. m2 \in Graph /\ m2.edges = m.edges /\ m2.entries = m.entries \ gone
    BY DEF Intact, Graph
  <1>2. \A n \in gone : n.map \in doomed \/ n.key \notin Alive(m2, held)
    BY DEF Prunes
  <1> HIDE DEF m2
  <1>3. ASSUME NEW n \in mem.entries, {n.map, n.key} \subseteq T, n.key \in Alive(m2, held)
        PROVE  n \in m2.entries
    BY <1>1, <1>2, <1>3 DEF Intact
  <1>4. T \subseteq Alive(m2, held)
    <2>1. \A e \in mem.edges : e.from \in T \cap Alive(m2, held) => e \in m2.edges
      BY <1>1 DEF Intact
    <2>2. \A n \in mem.entries :
             {n.map, n.key} \subseteq T \cap Alive(m2, held) => n \in m2.entries
      BY <1>3
    <2> QED BY <2>1, <2>2, TracedAlive
  <1>5. Intact(m2, T)
    BY <1>1, <1>3, <1>4 DEF Intact
  <1> QED BY <1>5 DEF m2

LEMMA CollectSpares ==
  ASSUME mem \in Graph, NEW which, NEW held \in SUBSET Cell, NEW roots \in SUBSET held,
         Collect(which, roots, held)
  PROVE  Intact(mem', Traced(mem, roots))
  <1> DEFINE T == Traced(mem, roots)
             doomed == Doomed(which, Marked(roots))
             late == {c \in doomed : kind[c] \in {"promise", "settled", "env"}}
             m1 == Dropped(Without(mem, doomed \ late), held)
  <1>1. doomed \cap T = {}
    <2>1. roots \in SUBSET Cell
      OBVIOUS
    <2> QED BY <2>1, TracedMarked DEF Doomed
  <1>2. PICK gone : /\ Prunes(m1, gone, doomed, held)
                    /\ LET m2 == Dropped([m1 EXCEPT !.entries = @ \ gone], held)
                       IN  Leave(Without(m2, late), held)
    BY DEF Collect
  <1> DEFINE m2 == Dropped([m1 EXCEPT !.entries = @ \ gone], held)
  <1>3. mem' = Dropped(Without(m2, late), held)
    BY <1>2 DEF Leave, Dropped
  <1>4. Intact(mem, T)
    BY DEF Intact
  <1>5. (doomed \ late) \cap T = {} /\ late \cap T = {}
    BY <1>1
  <1> HIDE DEF doomed, late
  <1>6. Intact(m1, T)
    <2>1. Intact(Without(mem, doomed \ late), T)
      BY <1>4, <1>5, WithoutIntact
    <2> QED BY <2>1, DroppedIntact
  <1> HIDE DEF m1
  <1>7. Intact(m2, T)
    <2>1. Intact([m1 EXCEPT !.entries = @ \ gone], T)
      BY <1>1, <1>2, <1>6, PrunedIntact
    <2> QED BY <2>1, DroppedIntact
  <1> HIDE DEF m2
  <1>8. Intact(Without(m2, late), T)
    BY <1>5, <1>7, WithoutIntact
  <1> QED BY <1>8, <1>3, DroppedIntact

-----------------------------------------------------------------------------
(* Types.                                                                  *)

HeapInv == TypeOK /\ mem \in Graph /\ NurseryInv

(* A graph that fits the kinds of the cells: only cells that exist refer   *)
(* to others, from the places they have, and to cells that exist.          *)
Fits(m) ==
    /\ m \in Graph
    /\ \A e \in m.edges : e.slot \in SlotsOf(kind[e.from]) /\ e.to \in Allocated
    /\ \A n \in m.entries : kind[n.map] = "weakmap" /\ n.value \in Allocated

LEMMA FreeHasNoSlots == SlotsOf("free") = {}
  BY DEF SlotsOf

LEMMA ReachableAllocated ==
  ASSUME HeapInv
  PROVE  Reachable \subseteq Allocated /\ Held \subseteq Reachable
  <1>1. Allocated \in SUBSET Cell /\ Held \subseteq Allocated
    BY DEF HeapInv, TypeOK, Allocated
  <1>2. Usable(mem, Held) \subseteq Allocated
    BY <1>1, UsableLeast DEF HeapInv, TypeOK
  <1> QED BY <1>1, <1>2, UsableClosed DEF Reachable, HeapInv

(* What a step leaves: cells, references and counters of the right types.  *)
MemoryTypes ==
    /\ mem \in Graph
    /\ kind \in [Cell -> Kind \cup {"free"}]
    /\ mem.edges \subseteq Edge /\ mem.entries \subseteq Entry
    /\ \A e \in mem.edges : e.slot \in SlotsOf(kind[e.from]) /\ e.to \in Allocated
    /\ \A n \in mem.entries : kind[n.map] = "weakmap" /\ n.value \in Allocated

(* Dropping what nothing refers to keeps them, if the cells that change    *)
(* their kind have the places for what they keep.                          *)
LEMMA DropTypes ==
  ASSUME NEW m \in Graph, NEW kinds \in [Cell -> Kind \cup {"free"}],
         \A e \in m.edges : e.slot \in SlotsOf(kinds[e.from]) /\ kinds[e.to] # "free",
         \A n \in m.entries : kinds[n.map] = "weakmap" /\ kinds[n.value] # "free",
         NEW held \in SUBSET Cell, \A c \in held : kinds[c] # "free",
         mem' = Keep(m, Alive(m, held)),
         kind' = [c \in Cell |-> IF c \in Alive(m, held) THEN kinds[c] ELSE "free"]
  PROVE  MemoryTypes' /\ held \subseteq Allocated'
  <1> DEFINE A == Alive(m, held)
  <1>1. /\ held \subseteq A
        /\ \A e \in m.edges : e.from \in A /\ e.to \in Cell => e.to \in A
        /\ \A n \in m.entries : n.map \in A /\ n.value \in Cell => n.value \in A
    BY AliveClosed
  <1>2. m.edges \subseteq Edge /\ m.entries \subseteq Entry
    BY DEF Graph
  <1> HIDE DEF A
  <1>3. /\ mem' = [edges |-> {e \in m.edges : e.from \in A},
                   entries |-> {n \in m.entries : n.map \in A}]
        /\ kind' = [c \in Cell |-> IF c \in A THEN kinds[c] ELSE "free"]
    BY DEF Keep, A
  <1>4. mem' \in Graph /\ mem'.edges \subseteq Edge /\ mem'.entries \subseteq Entry
    BY <1>2, <1>3 DEF Graph
  <1>5. kind' \in [Cell -> Kind \cup {"free"}]
    BY <1>3
  <1>6. ASSUME NEW c \in A, c \in Cell, kinds[c] # "free"
        PROVE  c \in Allocated' /\ kind'[c] = kinds[c]
    BY <1>3, <1>6 DEF Allocated
  <1>7. ASSUME NEW e \in mem'.edges
        PROVE  e.slot \in SlotsOf(kind'[e.from]) /\ e.to \in Allocated'
    <2>1. e \in m.edges /\ e.from \in A /\ e.from \in Cell /\ e.to \in Cell
      BY <1>2, <1>3 DEF Edge
    <2>2. e.to \in A /\ kinds[e.to] # "free"
      BY <1>1, <2>1
    <2>3. kind'[e.from] = kinds[e.from]
      BY <1>3, <2>1
    <2> QED BY <1>6, <2>1, <2>2, <2>3
  <1>8. ASSUME NEW n \in mem'.entries
        PROVE  kind'[n.map] = "weakmap" /\ n.value \in Allocated'
    <2>1. n \in m.entries /\ n.map \in A /\ n.map \in Cell /\ n.value \in Cell
      BY <1>2, <1>3 DEF Entry
    <2>2. n.value \in A /\ kinds[n.value] # "free"
      BY <1>1, <2>1
    <2>3. kind'[n.map] = kinds[n.map]
      BY <1>3, <2>1
    <2> QED BY <1>6, <2>1, <2>2, <2>3
  <1>9. held \subseteq Allocated'
    BY <1>1, <1>6
  <1> QED BY <1>4, <1>5, <1>7, <1>8, <1>9 DEF MemoryTypes

LEMMA LeaveTypes ==
  ASSUME HeapInv, NEW m, Fits(m), NEW held \in SUBSET Allocated, Leave(m, held)
  PROVE  MemoryTypes' /\ held \subseteq Allocated'
  <1>1. kind \in [Cell -> Kind \cup {"free"}] /\ held \in SUBSET Cell
    BY DEF HeapInv, TypeOK, Allocated
  <1>2. \A c \in Allocated : kind[c] # "free"
    BY DEF Allocated
  <1>3. /\ \A e \in m.edges : e.slot \in SlotsOf(kind[e.from]) /\ kind[e.to] # "free"
        /\ \A n \in m.entries : kind[n.map] = "weakmap" /\ kind[n.value] # "free"
        /\ m \in Graph
    BY <1>2 DEF Fits
  <1>4. /\ mem' = Keep(m, Alive(m, held))
        /\ kind' = [c \in Cell |-> IF c \in Alive(m, held) THEN kind[c] ELSE "free"]
    BY DEF Leave
  <1> QED BY <1>1, <1>2, <1>3, <1>4, DropTypes

LEMMA FitsPart ==
  ASSUME HeapInv, NEW m \in Graph, m.edges \subseteq mem.edges, m.entries \subseteq mem.entries
  PROVE  Fits(m)
  BY DEF HeapInv, TypeOK, Fits


LEMMA DroppedPart ==
  ASSUME NEW m \in Graph, NEW held
  PROVE  /\ Dropped(m, held) \in Graph
         /\ Dropped(m, held).edges \subseteq m.edges
         /\ Dropped(m, held).entries \subseteq m.entries
  BY DEF Dropped, Keep, Graph

LEMMA WithoutPart ==
  ASSUME NEW m \in Graph, NEW cells
  PROVE  /\ Without(m, cells) \in Graph
         /\ Without(m, cells).edges \subseteq m.edges
         /\ Without(m, cells).entries = m.entries
  BY DEF Without, Graph

LEMMA CollectTypes ==
  ASSUME HeapInv, NEW which \in {"minor", "major"}, NEW roots,
         NEW held \in SUBSET Allocated, Collect(which, roots, held)
  PROVE  /\ MemoryTypes' /\ held \subseteq Allocated' /\ NurseryInv'
         /\ gc_pressure' \in Nat /\ minor_collections' \in Nat
         /\ collected' \in {"nothing", "minor", "major"}
  <1> DEFINE doomed == Doomed(which, Marked(roots))
             late == {c \in doomed : kind[c] \in {"promise", "settled", "env"}}
             m1 == Dropped(Without(mem, doomed \ late), held)
  <1>1. PICK gone : LET m2 == Dropped([m1 EXCEPT !.entries = @ \ gone], held)
                    IN  Leave(Without(m2, late), held)
    BY DEF Collect
  <1> DEFINE m2 == Dropped([m1 EXCEPT !.entries = @ \ gone], held)
             m3 == Without(m2, late)
  <1>2. Leave(m3, held)
    BY <1>1
  <1> HIDE DEF doomed, late
  <1>3. mem \in Graph
    BY DEF HeapInv
  <1>4. m1 \in Graph /\ m1.edges \subseteq mem.edges /\ m1.entries \subseteq mem.entries
    BY <1>3, WithoutPart, DroppedPart
  <1> HIDE DEF m1
  <1>5. /\ [m1 EXCEPT !.entries = @ \ gone] \in Graph
        /\ [m1 EXCEPT !.entries = @ \ gone].edges = m1.edges
        /\ [m1 EXCEPT !.entries = @ \ gone].entries \subseteq m1.entries
    BY <1>4 DEF Graph
  <1>6. m2 \in Graph /\ m2.edges \subseteq mem.edges /\ m2.entries \subseteq mem.entries
    BY <1>4, <1>5, DroppedPart
  <1> HIDE DEF m2
  <1>7. m3 \in Graph /\ m3.edges \subseteq mem.edges /\ m3.entries \subseteq mem.entries
    BY <1>6, WithoutPart
  <1> HIDE DEF m3
  <1>8. MemoryTypes' /\ held \subseteq Allocated'
    BY <1>2, <1>7, FitsPart, LeaveTypes
  <1>9. NurseryInv'
    BY CollectCounts DEF HeapInv
  <1>10. Count(which)
    BY DEF Collect
  <1>11. /\ gc_pressure' \in Nat /\ minor_collections' \in Nat
         /\ collected' \in {"nothing", "minor", "major"}
    BY <1>10, HeapAssumption DEF Count, HeapInv, TypeOK, HeapAssumption
  <1> QED BY <1>8, <1>9, <1>11

(* The parts together. *)
LEMMA TypesAfter ==
  ASSUME MemoryTypes', NurseryInv', phase' \in {"host", "running"}, Held' \subseteq Allocated',
         gc_pressure' \in Nat, minor_collections' \in Nat,
         collected' \in {"nothing", "minor", "major"}
  PROVE  HeapInv'
  <1>1. IsFiniteSet(Young')
    BY HeapAssumption, FS_Subset DEF HeapAssumption, Young
  <1>2. nursery_len' \in Nat
    BY <1>1, FS_CardinalityType DEF NurseryInv
  <1> QED BY <1>2 DEF HeapInv, TypeOK, MemoryTypes, NurseryInv

(* User code other than New leaves the counters alone. *)
LEMMA UncollectedTypes ==
  ASSUME HeapInv, MemoryTypes', Uncollected, phase' \in {"host", "running"},
         Held' \subseteq Allocated'
  PROVE  HeapInv'
  <1>1. UNCHANGED <<generation, nursery_len, minor_collections, gc_pressure>>
        /\ collected' = "nothing"
    BY DEF Uncollected, counters
  <1>2. NurseryInv'
    BY <1>1, UncollectedKeepsCount DEF HeapInv
  <1>3. gc_pressure' \in Nat /\ minor_collections' \in Nat
    BY <1>1 DEF HeapInv, TypeOK
  <1> QED BY <1>1, <1>2, <1>3, TypesAfter

LEMMA ChangeTypes ==
  ASSUME HeapInv, NEW m, Fits(m), Change(m)
  PROVE  HeapInv'
  <1>1. Held \in SUBSET Allocated /\ phase \in {"host", "running"}
    BY DEF HeapInv, TypeOK
  <1>2. MemoryTypes' /\ Held \subseteq Allocated'
    BY <1>1, LeaveTypes DEF Change
  <1>3. Held' = Held
    BY DEF Change, Held
  <1> QED BY <1>1, <1>2, <1>3, UncollectedTypes DEF Change

LEMMA ReachableOnes ==
  ASSUME HeapInv, NEW c \in Reachable
  PROVE  c \in Cell /\ kind[c] # "free"
  BY ReachableAllocated DEF Allocated

LEMMA NewTypes ==
  ASSUME HeapInv, New
  PROVE  HeapInv'
  <1>1. PICK c \in FreeCells, k \in Kinds, scope \in SUBSET Reachable :
           /\ NewCell(c, k, scope)
           /\ scope # {} => k = "function"
    <2>1. PICK c \in FreeCells, k \in Kinds :
             \/ NewCell(c, k, {})
             \/ k = "function" /\ \E e \in Reachable : NewCell(c, k, {e})
      BY DEF New
    <2> QED BY <2>1
  <1>2. c \in Cell /\ kind[c] = "free" /\ k \in Kind
    BY HeapAssumption DEF FreeCells, HeapAssumption
  <1>3. /\ kind' = [kind EXCEPT ![c] = k]
        /\ mem' = [mem EXCEPT !.edges =
                     @ \cup {[from |-> c, slot |-> "closure", to |-> e] : e \in scope}]
        /\ Held' = Held \cup {c}
    BY <1>1 DEF NewCell, Held
  <1>4. kind \in [Cell -> Kind \cup {"free"}] /\ k # "free"
    BY <1>2 DEF HeapInv, TypeOK, Kind
  <1>5. /\ c \in Allocated' /\ kind'[c] = k
        /\ \A d \in Allocated : d \in Allocated' /\ kind'[d] = kind[d]
    BY <1>2, <1>3, <1>4 DEF Allocated
  <1>6. /\ mem' \in Graph
        /\ mem'.edges = mem.edges
             \cup {[from |-> c, slot |-> "closure", to |-> e] : e \in scope}
        /\ mem'.entries = mem.entries
    <2>1. scope \subseteq Cell
      BY ReachableOnes
    <2>2. {[from |-> c, slot |-> "closure", to |-> e] : e \in scope} \subseteq Edge
      BY <1>2, <2>1 DEF Edge, Slot
    <2> QED BY <1>3, <2>2 DEF HeapInv, Graph
  <1>7. ASSUME NEW e \in mem'.edges
        PROVE  e.slot \in SlotsOf(kind'[e.from]) /\ e.to \in Allocated'
    <2>1. CASE e \in mem.edges
      <3>1. e.slot \in SlotsOf(kind[e.from]) /\ e.to \in Allocated /\ e.from \in Cell
        BY <2>1 DEF HeapInv, TypeOK, Edge
      <3>2. e.from \in Allocated
        BY <3>1, FreeHasNoSlots DEF Allocated
      <3> QED BY <1>5, <3>1, <3>2
    <2>2. CASE e \notin mem.edges
      <3>1. PICK d \in scope : e = [from |-> c, slot |-> "closure", to |-> d]
        BY <1>6, <2>2
      <3>2. d \in Allocated /\ k = "function"
        BY <1>1, ReachableAllocated
      <3>3. "closure" \in SlotsOf("function")
        BY DEF SlotsOf
      <3> QED BY <1>5, <3>1, <3>2, <3>3
    <2> QED BY <2>1, <2>2
  <1>8. ASSUME NEW n \in mem'.entries
        PROVE  kind'[n.map] = "weakmap" /\ n.value \in Allocated'
    <2>1. kind[n.map] = "weakmap" /\ n.value \in Allocated /\ n.map \in Cell
      BY <1>6 DEF HeapInv, TypeOK, Entry
    <2>2. n.map \in Allocated
      BY <2>1 DEF Allocated
    <2> QED BY <1>5, <2>1, <2>2
  <1>9. MemoryTypes'
    <2>1. kind' \in [Cell -> Kind \cup {"free"}]
      BY <1>2, <1>3, <1>4
    <2>2. mem'.edges \subseteq Edge /\ mem'.entries \subseteq Entry
      BY <1>6 DEF Graph
    <2> QED BY <1>6, <1>7, <1>8, <2>1, <2>2 DEF MemoryTypes
  <1>10. Held' \subseteq Allocated'
    BY <1>3, <1>5 DEF HeapInv, TypeOK
  <1>11. NurseryInv'
    BY <1>1, NewCellCounts DEF HeapInv
  <1>12. /\ gc_pressure' \in Nat /\ minor_collections' \in Nat
         /\ phase' \in {"host", "running"} /\ collected' = "nothing"
    BY <1>1 DEF NewCell, Register, HeapInv, TypeOK
  <1> QED BY <1>9, <1>10, <1>11, <1>12, TypesAfter

LEMMA StoreTypes ==
  ASSUME HeapInv, Store
  PROVE  HeapInv'
  <1>1. PICK a \in Reachable, b \in Reachable, s \in Slots \ {"closure", "value", "reason"} :
           /\ s \in SlotsOf(kind[a])
           /\ mem' = [mem EXCEPT !.edges = @ \cup {[from |-> a, slot |-> s, to |-> b]}]
    BY DEF Store
  <1>2. a \in Cell /\ b \in Allocated /\ b \in Cell /\ s \in Slot
    BY ReachableOnes, ReachableAllocated, HeapAssumption DEF HeapAssumption
  <1>3. [from |-> a, slot |-> s, to |-> b] \in Edge
    BY <1>2 DEF Edge
  <1>4. /\ mem' \in Graph /\ mem'.entries = mem.entries
        /\ mem'.edges = mem.edges \cup {[from |-> a, slot |-> s, to |-> b]}
    BY <1>1, <1>3 DEF HeapInv, Graph
  <1>5. kind' = kind /\ Allocated' = Allocated /\ Held' = Held
    BY DEF Store, Allocated, Held
  <1>6. MemoryTypes'
    <2>1. \A e \in mem'.edges : e.slot \in SlotsOf(kind[e.from]) /\ e.to \in Allocated
      BY <1>1, <1>2, <1>4 DEF HeapInv, TypeOK
    <2>2. mem'.edges \subseteq Edge /\ mem'.entries \subseteq Entry
      BY <1>4 DEF Graph
    <2> QED BY <1>4, <1>5, <2>1, <2>2 DEF MemoryTypes, HeapInv, TypeOK
  <1>7. phase' \in {"host", "running"} /\ Held' \subseteq Allocated'
    BY <1>5 DEF Store, HeapInv, TypeOK
  <1> QED BY <1>6, <1>7, UncollectedTypes DEF Store

LEMMA EraseTypes ==
  ASSUME HeapInv, Erase
  PROVE  HeapInv'
  <1>1. PICK e \in mem.edges : Change([mem EXCEPT !.edges = @ \ {e}])
    BY DEF Erase
  <1> DEFINE m == [mem EXCEPT !.edges = @ \ {e}]
  <1>2. m \in Graph /\ m.edges \subseteq mem.edges /\ m.entries \subseteq mem.entries
    BY DEF HeapInv, Graph
  <1>3. Fits(m)
    BY <1>2, FitsPart
  <1> QED BY <1>1, <1>3, ChangeTypes

LEMMA WeakMapDeleteTypes ==
  ASSUME HeapInv, WeakMapDelete
  PROVE  HeapInv'
  <1>1. PICK n \in mem.entries : Change([mem EXCEPT !.entries = @ \ {n}])
    BY DEF WeakMapDelete
  <1> DEFINE m == [mem EXCEPT !.entries = @ \ {n}]
  <1>2. m \in Graph /\ m.edges \subseteq mem.edges /\ m.entries \subseteq mem.entries
    BY DEF HeapInv, Graph
  <1>3. Fits(m)
    BY <1>2, FitsPart
  <1> QED BY <1>1, <1>3, ChangeTypes

LEMMA WeakMapSetTypes ==
  ASSUME HeapInv, WeakMapSet
  PROVE  HeapInv'
  <1>1. PICK w \in Reachable, k \in Reachable, v \in Reachable :
           /\ kind[w] = "weakmap"
           /\ Change([mem EXCEPT !.entries =
                {n \in @ : ~(n.map = w /\ n.key = k)}
                  \cup {[map |-> w, key |-> k, value |-> v]}])
    BY DEF WeakMapSet
  <1> DEFINE m == [mem EXCEPT !.entries =
                    {n \in @ : ~(n.map = w /\ n.key = k)}
                      \cup {[map |-> w, key |-> k, value |-> v]}]
  <1>2. w \in Cell /\ k \in Cell /\ v \in Cell /\ v \in Allocated
    BY ReachableOnes, ReachableAllocated
  <1>3. [map |-> w, key |-> k, value |-> v] \in Entry
    BY <1>2 DEF Entry
  <1>4. /\ m \in Graph /\ m.edges = mem.edges
        /\ m.entries = {n \in mem.entries : ~(n.map = w /\ n.key = k)}
                         \cup {[map |-> w, key |-> k, value |-> v]}
    BY <1>3 DEF HeapInv, Graph
  <1> HIDE DEF m
  <1>5. \A n \in m.entries : kind[n.map] = "weakmap" /\ n.value \in Allocated
    BY <1>1, <1>2, <1>4 DEF HeapInv, TypeOK
  <1>6. Fits(m)
    BY <1>4, <1>5 DEF Fits, HeapInv, TypeOK
  <1>7. Change(m)
    BY <1>1 DEF m
  <1> QED BY <1>6, <1>7, ChangeTypes

LEMMA SettleTypes ==
  ASSUME HeapInv, Settle
  PROVE  HeapInv'
  <1>1. PICK p \in Reachable, v \in Reachable, s \in Slots \cap {"value", "reason"} :
           SettleWith(p, s, v, Waiting(p))
    BY DEF Settle
  <1> DEFINE m == [mem EXCEPT !.edges =
                     (@ \ Waiting(p)) \cup {[from |-> p, slot |-> s, to |-> v]}]
             kinds == [kind EXCEPT ![p] = "settled"]
  <1>2. /\ kind[p] = "promise"
        /\ \E g \in {m} : \E alive \in {Alive(g, Held)} :
             /\ mem' = Keep(g, alive)
             /\ kind' = [c \in Cell |-> IF c \in alive THEN kinds[c] ELSE "free"]
        /\ Uncollected
        /\ UNCHANGED <<phase, globals, locals, result>>
    BY <1>1, Zenon DEF SettleWith
  <1>3. p \in Cell /\ v \in Cell /\ v \in Allocated /\ s \in Slot
    BY ReachableOnes, ReachableAllocated, HeapAssumption DEF HeapAssumption
  <1>4. [from |-> p, slot |-> s, to |-> v] \in Edge
    BY <1>3 DEF Edge
  <1>5. /\ m \in Graph /\ m.entries = mem.entries
        /\ m.edges = (mem.edges \ Waiting(p)) \cup {[from |-> p, slot |-> s, to |-> v]}
    BY <1>4 DEF HeapInv, Graph
  <1>6. kind \in [Cell -> Kind \cup {"free"}]
    BY DEF HeapInv, TypeOK
  <1>7. /\ kinds \in [Cell -> Kind \cup {"free"}]
        /\ kinds[p] = "settled"
        /\ \A c \in Cell : c # p => kinds[c] = kind[c]
        /\ \A c \in Allocated : kinds[c] # "free"
    BY <1>3, <1>6 DEF Kind, Allocated
  <1> HIDE DEF m
  <1>8. /\ mem' = Keep(m, Alive(m, Held))
        /\ kind' = [c \in Cell |-> IF c \in Alive(m, Held) THEN kinds[c] ELSE "free"]
    BY <1>2, Zenon
  <1> HIDE DEF kinds
  <1>9. ASSUME NEW e \in m.edges
        PROVE  e.slot \in SlotsOf(kinds[e.from]) /\ kinds[e.to] # "free"
    <2>1. CASE e = [from |-> p, slot |-> s, to |-> v]
      <3>1. s \in SlotsOf("settled")
        BY DEF SlotsOf
      <3> QED BY <1>3, <1>7, <2>1, <3>1
    <2>2. CASE e # [from |-> p, slot |-> s, to |-> v]
      <3>1. e \in mem.edges /\ e \notin Waiting(p)
        BY <1>5, <2>2
      <3>2. /\ e.slot \in SlotsOf(kind[e.from]) /\ e.to \in Allocated
            /\ e.from \in Cell
        BY <3>1 DEF HeapInv, TypeOK, Edge
      <3>3. CASE e.from = p
        <4>1. e.slot \in {"field", "accessor"}
          BY <1>2, <3>1, <3>2, <3>3 DEF Waiting, SlotsOf
        <4>2. {"field", "accessor"} \subseteq SlotsOf("settled")
          BY DEF SlotsOf
        <4> QED BY <1>7, <3>2, <3>3, <4>1, <4>2
      <3>4. CASE e.from # p
        BY <1>7, <3>2, <3>4
      <3> QED BY <3>3, <3>4
    <2> QED BY <2>1, <2>2
  <1>10. ASSUME NEW n \in m.entries
         PROVE  kinds[n.map] = "weakmap" /\ kinds[n.value] # "free"
    <2>1. kind[n.map] = "weakmap" /\ n.value \in Allocated /\ n.map \in Cell
      BY <1>5 DEF HeapInv, TypeOK, Entry
    <2>2. n.map # p
      BY <1>2, <2>1
    <2> QED BY <1>7, <2>1, <2>2
  <1>11. Held \in SUBSET Cell /\ \A c \in Held : kinds[c] # "free"
    BY <1>7 DEF HeapInv, TypeOK, Allocated
  <1>12. MemoryTypes' /\ Held \subseteq Allocated'
    BY <1>2, <1>5, <1>7, <1>8, <1>9, <1>10, <1>11, DropTypes
  <1>13. Held' = Held /\ phase' \in {"host", "running"}
    BY <1>2 DEF Held, HeapInv, TypeOK
  <1> QED BY <1>2, <1>12, <1>13, UncollectedTypes

(* The host holds no cells on the Rust stack. *)
HostIdle == phase = "host" => locals = {}

(* Steps that change only which cells are held, all of them cells that     *)
(* could be got at before, and drop what is left over.                     *)
Regrasps ==
    /\ Held' \subseteq Reachable /\ phase' \in {"host", "running"}
    /\ Leave(mem, Held') /\ Uncollected

LEMMA RegraspTypes ==
  ASSUME HeapInv, Regrasps
  PROVE  HeapInv'
  <1>1. Held' \subseteq Allocated
    BY ReachableAllocated DEF Regrasps
  <1>2. Fits(mem)
    BY FitsPart DEF HeapInv
  <1>3. MemoryTypes' /\ Held' \subseteq Allocated'
    BY <1>1, <1>2, LeaveTypes DEF Regrasps
  <1> QED BY <1>3, UncollectedTypes DEF Regrasps

LEMMA HoldingRegrasps ==
  ASSUME HeapInv, Globally \/ Locally
  PROVE  Regrasps
  <1>1. Held \subseteq Reachable /\ phase \in {"host", "running"}
    BY ReachableAllocated DEF HeapInv, TypeOK
  <1>2. CASE Globally
    <2>1. globals' \subseteq globals \cup Reachable
      BY <1>2 DEF Globally
    <2> QED BY <1>1, <1>2, <2>1 DEF Globally, Held, Regrasps
  <1>3. CASE Locally
    <2>1. locals' \subseteq locals \cup Reachable
      BY <1>3 DEF Locally
    <2> QED BY <1>1, <1>3, <2>1 DEF Locally, Held, Regrasps
  <1> QED BY <1>2, <1>3

(* The collections: nothing is held after one that could not be got at     *)
(* before, and its roots are at least those HeapSpec asks for.             *)
Collects(which, roots) ==
    /\ Held' \subseteq Reachable /\ phase' \in {"host", "running"}
    /\ Collect(which, roots, Held')
    /\ roots \subseteq Held' /\ Promised!Safe \subseteq roots
    /\ globals' = globals

LEMMA EngineShape ==
  ASSUME HeapInv, HostIdle, Engine
  PROVE  \/ Regrasps
         \/ \E which \in {"minor", "major"} : \E roots : Collects(which, roots)
  <1>1. /\ Held \subseteq Reachable /\ globals \subseteq Held
        /\ phase \in {"host", "running"}
    BY ReachableAllocated DEF HeapInv, TypeOK, Held
  <1>2. CASE StartEval
    <2>1. Held' = globals
      BY <1>2 DEF StartEval, Held, HostIdle
    <2> QED BY <1>1, <1>2, <2>1 DEF StartEval, Regrasps
  <1>3. ASSUME NEW roots, MaybeCollect(roots, Held'),
               Held' \subseteq Reachable, phase' \in {"host", "running"},
               roots \subseteq Held', Promised!Safe \subseteq roots, globals' = globals
        PROVE  \/ Regrasps
               \/ \E which \in {"minor", "major"} : \E r : Collects(which, r)
    <2>1. CASE \E which \in {"minor", "major"} : Collect(which, roots, Held')
      BY <1>3, <2>1 DEF Collects
    <2>2. CASE Leave(mem, Held') /\ Uncollected
      BY <1>3, <2>2 DEF Regrasps
    <2> QED BY <1>3, <2>1, <2>2 DEF MaybeCollect
  <1>4. CASE FinishEval
    <2>1. PICK r : /\ r \in {{}} \cup {{c} : c \in Reachable}
                   /\ result' = r /\ MaybeCollect(globals \cup r, globals \cup r)
      BY <1>4 DEF FinishEval
    <2>2. /\ r \subseteq Reachable /\ locals' = {} /\ globals' = globals
          /\ phase = "running" /\ phase' = "host"
      BY <1>4, <2>1 DEF FinishEval, Running
    <2>3. Held' = globals \cup r
      BY <2>1, <2>2 DEF Held
    <2>4. Promised!Safe = Held'
      BY <2>2 DEF Promised!Safe
    <2> QED BY <1>1, <1>3, <2>1, <2>2, <2>3, <2>4
  <1>5. CASE FinishEvalInJob
    <2>1. PICK r : /\ r \in {{}} \cup {{c} : c \in Reachable}
                   /\ locals' = locals \cup r /\ MaybeCollect(globals \cup r, Held \cup r)
      BY <1>5 DEF FinishEvalInJob
    <2>2. r \subseteq Reachable /\ UNCHANGED <<phase, globals, result>>
      BY <1>5, <2>1 DEF FinishEvalInJob
    <2>3. Held' = Held \cup r
      BY <2>1, <2>2 DEF Held
    <2>4. Promised!Safe = globals \cup (Held' \ Held)
      BY <2>2 DEF Promised!Safe
    <2>5. /\ globals \cup r \subseteq Held' /\ Promised!Safe \subseteq globals \cup r
          /\ Held' \subseteq Reachable
      BY <1>1, <2>2, <2>3, <2>4
    <2> QED BY <1>1, <1>3, <2>1, <2>2, <2>3, <2>5
  <1>6. CASE HostCollect
    <2>1. PICK r : /\ r \in {{}, result} /\ result' = r
                   /\ \E which \in {"minor", "major"} :
                         Collect(which, globals, globals \cup r)
      BY <1>6 DEF HostCollect
    <2>2. /\ phase = "host" /\ phase' = phase /\ globals' = globals
          /\ locals' = locals /\ locals = {}
      BY <1>6 DEF HostCollect, HostIdle
    <2>3. Held' = globals \cup r /\ Held' \subseteq Held
      BY <2>1, <2>2 DEF Held
    <2>4. Promised!Safe = globals \cup (Held' \ Held)
      BY <2>2 DEF Promised!Safe
    <2>5. Promised!Safe \subseteq globals
      BY <2>3, <2>4
    <2> QED BY <1>1, <2>1, <2>2, <2>3, <2>5 DEF Collects
  <1> QED BY <1>2, <1>4, <1>5, <1>6 DEF Engine

LEMMA EngineTypes ==
  ASSUME HeapInv, HostIdle, Engine
  PROVE  HeapInv'
  <1>1. CASE Regrasps
    BY <1>1, RegraspTypes
  <1>2. ASSUME NEW which \in {"minor", "major"}, NEW roots, Collects(which, roots)
        PROVE  HeapInv'
    <2>1. Held' \subseteq Allocated
      BY <1>2, ReachableAllocated DEF Collects
    <2>2. /\ MemoryTypes' /\ Held' \subseteq Allocated' /\ NurseryInv'
          /\ gc_pressure' \in Nat /\ minor_collections' \in Nat
          /\ collected' \in {"nothing", "minor", "major"}
      BY <1>2, <2>1, CollectTypes DEF Collects
    <2> QED BY <1>2, <2>2, TypesAfter DEF Collects
  <1> QED BY <1>1, <1>2, EngineShape

LEMMA HeapTypeStep ==
  ASSUME HeapInv, HostIdle, [Next]_vars
  PROVE  HeapInv' /\ HostIdle'
  <1>1. CASE UserCode
    <2>1. HeapInv'
      BY <1>1, NewTypes, StoreTypes, EraseTypes, SettleTypes, WeakMapSetTypes,
         WeakMapDeleteTypes, HoldingRegrasps, RegraspTypes DEF UserCode
    <2>2. phase' = "running"
      BY <1>1 DEF UserCode, New, NewCell, Store, Erase, Settle, SettleWith, WeakMapSet,
                  WeakMapDelete, Globally, Locally, Change, Running
    <2> QED BY <2>1, <2>2 DEF HostIdle
  <1>2. CASE Engine
    <2>1. HostIdle'
      BY <1>2 DEF Engine, StartEval, FinishEval, FinishEvalInJob, HostCollect, HostIdle,
                  Running
    <2> QED BY <1>2, <2>1, EngineTypes
  <1>3. CASE UNCHANGED vars
    BY <1>3 DEF vars, HeapInv, TypeOK, NurseryInv, Allocated, Young, Held, HostIdle
  <1> QED BY <1>1, <1>2, <1>3 DEF Next

LEMMA HeapInitially ==
  ASSUME Init
  PROVE  HeapInv
  <1>1. NurseryInv
    BY FS_EmptySet DEF Init, NurseryInv, Young
  <1>2. TypeOK
    BY HeapAssumption DEF Init, TypeOK, HeapAssumption, Held, Kind
  <1> QED BY <1>1, <1>2 DEF Init, HeapInv, Graph

(* The types of the heap's state, which say that no reference and no root  *)
(* dangles: what they name has not been dropped, whatever the collector    *)
(* severed and whoever held what while it did.                             *)
THEOREM HeapTypeCorrect == Spec => []TypeOK
  <1>1. Init => HeapInv /\ HostIdle
    BY HeapInitially DEF Init, HostIdle
  <1>2. HeapInv /\ HostIdle /\ [Next]_vars => HeapInv' /\ HostIdle'
    BY HeapTypeStep
  <1>3. HeapInv => TypeOK
    BY DEF HeapInv
  <1> QED BY <1>1, <1>2, <1>3, PTL DEF Spec

-----------------------------------------------------------------------------
(* What the engine does to memory is invisible: Heap implements HeapSpec.  *)

(* m2 is what is left of m, and it is whole over some cells. *)
PartOf(m2, m, cells) ==
    /\ m2 \in Graph /\ m2.edges \subseteq m.edges /\ m2.entries \subseteq m.entries
    /\ \A e \in m.edges : e.from \in cells => e \in m2.edges
    /\ \A n \in m.entries : {n.map, n.key} \subseteq cells => n \in m2.entries

(* A graph that is whole over what can be reached from some cells looks    *)
(* the same from them.                                                     *)
LEMMA PartLooksTheSame ==
  ASSUME NEW m \in Graph, NEW m2, NEW cells, NEW h \in SUBSET Cell,
         PartOf(m2, m, cells), Usable(m, h) \subseteq cells
  PROVE  Usable(m2, h) = Usable(m, h) /\ Seen(m2, h) = Seen(m, h)
  <1> DEFINE U == Usable(m, h)
             V == Usable(m2, h)
  <1>1. m2 \in Graph /\ m2.edges \subseteq m.edges /\ m2.entries \subseteq m.entries
    BY DEF PartOf
  <1>2. /\ h \subseteq U /\ U \in SUBSET Cell
        /\ \A e \in m.edges : e.from \in U => e.to \in U
        /\ \A n \in m.entries : {n.map, n.key} \subseteq U => n.value \in U
    BY UsableClosed
  <1>3. /\ h \subseteq V /\ V \in SUBSET Cell
        /\ \A e \in m2.edges : e.from \in V => e.to \in V
        /\ \A n \in m2.entries : {n.map, n.key} \subseteq V => n.value \in V
    BY <1>1, UsableClosed
  <1>4. V \subseteq U
    BY <1>1, <1>2, UsableLeast
  <1>5. /\ \A e \in m.edges : e.from \in U => e \in m2.edges
        /\ \A n \in m.entries : {n.map, n.key} \subseteq U => n \in m2.entries
    BY DEF PartOf
  <1> HIDE DEF U, V
  <1>6. /\ \A e \in m.edges : e.from \in V => e.to \in V
        /\ \A n \in m.entries : {n.map, n.key} \subseteq V => n.value \in V
    BY <1>3, <1>4, <1>5
  <1>7. U \subseteq V
    BY <1>3, <1>6, UsableLeast DEF U
  <1>8. U = V
    BY <1>4, <1>7
  <1>9. /\ {e \in m2.edges : e.from \in U} = {e \in m.edges : e.from \in U}
        /\ {n \in m2.entries : {n.map, n.key} \subseteq U}
             = {n \in m.entries : {n.map, n.key} \subseteq U}
    BY <1>1, <1>5
  <1>10. /\ Seen(m, h) = [edges |-> {e \in m.edges : e.from \in U},
                          entries |-> {n \in m.entries : {n.map, n.key} \subseteq U}]
         /\ Seen(m2, h) = [edges |-> {e \in m2.edges : e.from \in V},
                           entries |-> {n \in m2.entries : {n.map, n.key} \subseteq V}]
    BY DEF Seen, U, V
  <1> QED BY <1>8, <1>9, <1>10 DEF U, V

(* What is seen from some cells is whole over all that is reached from     *)
(* them, and so it looks the same from any of those.                       *)
LEMMA SeenIsPart ==
  ASSUME NEW m \in Graph, NEW h \in SUBSET Cell
  PROVE  PartOf(Seen(m, h), m, Usable(m, h))
  BY DEF PartOf, Seen, Graph

LEMMA SeenFromWithin ==
  ASSUME NEW m \in Graph, NEW h \in SUBSET Cell, NEW h2 \in SUBSET Usable(m, h)
  PROVE  /\ h2 \in SUBSET Cell /\ Usable(m, h2) \subseteq Usable(m, h)
         /\ Usable(Seen(m, h), h2) = Usable(m, h2)
         /\ Seen(Seen(m, h), h2) = Seen(m, h2)
  <1>1. h2 \in SUBSET Cell
    BY UsableClosed
  <1>2. Usable(m, h2) \subseteq Usable(m, h)
    BY UsableClosed, UsableLeast
  <1> QED BY <1>1, <1>2, SeenIsPart, PartLooksTheSame

(* What the reference counts drop is out of sight. *)
LEMMA DroppedIsPart ==
  ASSUME NEW m \in Graph, NEW h \in SUBSET Cell
  PROVE  PartOf(Dropped(m, h), m, Usable(m, h))
  <1>1. Usable(m, h) \subseteq Alive(m, h)
    BY UsableAlive
  <1> QED BY <1>1 DEF PartOf, Dropped, Keep, Graph

LEMMA DroppedLooksTheSame ==
  ASSUME NEW m \in Graph, NEW h \in SUBSET Cell
  PROVE  Seen(Dropped(m, h), h) = Seen(m, h) /\ Dropped(m, h) \in Graph
  BY DroppedIsPart, PartLooksTheSame DEF PartOf

(* The abstract specification has the same notion of what can be reached,  *)
(* traced and spared.                                                      *)
LEMMA SameNotions ==
  ASSUME NEW m, NEW m2, NEW h
  PROVE  /\ Promised!Usable(m, h) = Usable(m, h) /\ Promised!Seen(m, h) = Seen(m, h)
         /\ Promised!Traced(m, h) = Traced(m, h)
         /\ Promised!Spares(m, m2, h) = Spares(m, m2, h)
  <1>1. \A g : Promised!Usable(g, h) = Usable(g, h)
    BY DEF Promised!Usable, Usable
  <1>2. Promised!Seen(m, h) = Seen(m, h)
    BY DEF Promised!Usable, Promised!Seen, Usable, Seen
  <1>3. Promised!Traced(m, h) = Traced(m, h)
    BY <1>1 DEF Promised!Traced, Promised!Missed, Traced, Missed
  <1>4. Promised!Spares(m, m2, h) = Spares(m, m2, h)
    BY DEF Promised!Spares, Spares
  <1> QED BY <1>1, <1>2, <1>3, <1>4

LEMMA ReachableCells ==
  ASSUME HeapInv
  PROVE  Reachable \in SUBSET Cell /\ mem \in Graph /\ Held \in SUBSET Cell
  BY DEF Reachable, Usable, HeapInv, TypeOK, Allocated

(* A step that changes nothing in sight of the cells it still holds. *)
LEMMA LetGoStep ==
  ASSUME mem \in Graph, Held \in SUBSET Cell, Held' \in SUBSET Reachable,
         Seen(mem, Held)' = Seen(mem, Held'), collected' = "nothing"
  PROVE  Promised!Next
  <1> DEFINE old == Seen(mem, Held)
             new == Seen(mem, Held)'
  <1>1. Held' \subseteq Usable(old, Held)
    BY SeenFromWithin, UsableClosed DEF Reachable
  <1>2. new = Seen(old, Held')
    BY SeenFromWithin DEF Reachable
  <1>3. Promised!LetGo(old, new)
    BY <1>1, <1>2, SameNotions DEF Promised!LetGo
  <1> QED BY <1>3 DEF Promised!Next

(* A program changes what the cell c refers to, from mem to m, or creates  *)
(* c; what is dropped after that is out of sight.                          *)
LEMMA ProgramMove ==
  ASSUME mem \in Graph, Held \in SUBSET Cell, Held' \in SUBSET Cell, mem' \in Graph,
         Running, phase' = phase, collected' = "nothing",
         NEW m \in Graph, NEW c \in Cell, Held' \subseteq Reachable \cup {c},
         \A e \in (mem.edges \ m.edges) \cup (m.edges \ mem.edges) : e.from = c,
         \A n \in (mem.entries \ m.entries) \cup (m.entries \ mem.entries) : n.map = c,
         \A e \in m.edges : e.from = c => e.to \in Reachable \cup {c},
         \A n \in m.entries : n.map = c /\ n.key \in Reachable \cup {c}
                                => n.value \in Reachable \cup {c},
         c \in Reachable \/ \A n \in mem.entries : n.key # c,
         Seen(mem, Held)' = Seen(m, Held')
  PROVE  Promised!Next
  <1> DEFINE U == Usable(mem, Held)
             W == Usable(m, Held')
             old == Seen(mem, Held)
             new == Seen(mem, Held)'
  <1>1. /\ U \in SUBSET Cell
        /\ \A e \in mem.edges : e.from \in U => e.to \in U
        /\ \A n \in mem.entries : {n.map, n.key} \subseteq U => n.value \in U
    BY UsableClosed
  <1>2. /\ old.edges = {e \in mem.edges : e.from \in U}
        /\ old.entries = {n \in mem.entries : {n.map, n.key} \subseteq U}
        /\ new.edges = {e \in m.edges : e.from \in W}
        /\ new.entries = {n \in m.entries : {n.map, n.key} \subseteq W}
    BY DEF Seen
  <1>3. Usable(old, Held) = U /\ Usable(new, Held') = W
    <2>1. Held \in SUBSET U /\ Held' \in SUBSET W
      BY UsableClosed
    <2> QED BY <2>1, SeenFromWithin
  <1>4. W \subseteq U \cup {c}
    <2>1. ASSUME NEW e \in m.edges, e.from \in U \cup {c}  PROVE e.to \in U \cup {c}
      BY <1>1, <2>1 DEF Reachable
    <2>2. ASSUME NEW n \in m.entries, {n.map, n.key} \subseteq U \cup {c}
          PROVE  n.value \in U \cup {c}
      BY <1>1, <2>2 DEF Reachable
    <2>3. U \cup {c} \in SUBSET Cell /\ Held' \subseteq U \cup {c}
      BY <1>1 DEF Reachable
    <2> HIDE DEF U
    <2> QED BY <2>1, <2>2, <2>3, UsableLeast
  <1>5. ASSUME NEW e \in Promised!Differ(old.edges, new.edges)
        PROVE  e.from = c \/ e.from \notin W
    BY <1>2, <1>4, <1>5 DEF Promised!Differ
  <1>6. ASSUME NEW n \in Promised!Differ(old.entries, new.entries)
        PROVE  n.map = c \/ ~({n.map, n.key} \subseteq W)
    BY <1>2, <1>4, <1>6 DEF Promised!Differ, Reachable
  <1>7. Promised!ProgramStep(old, new)
    <2>1. Promised!Usable(new, Held') = W /\ Promised!Usable(old, Held) = U
      BY <1>3, SameNotions
    <2>2. Held' \subseteq Promised!Usable(old, Held) \cup {c}
      BY <2>1 DEF Reachable
    <2> HIDE DEF old, new, W, U
    <2> QED BY <1>5, <1>6, <2>1, <2>2 DEF Promised!ProgramStep, Running
  <1> QED BY <1>7 DEF Promised!Next

(* The same of a change that is followed by a drop. *)
LEMMA ChangeMove ==
  ASSUME mem \in Graph, Held \in SUBSET Cell, Held' = Held,
         Running, phase' = phase, collected' = "nothing",
         NEW m \in Graph, NEW c \in Reachable, mem' = Keep(m, Alive(m, Held)),
         \A e \in (mem.edges \ m.edges) \cup (m.edges \ mem.edges) : e.from = c,
         \A n \in (mem.entries \ m.entries) \cup (m.entries \ mem.entries) : n.map = c,
         \A e \in m.edges \ mem.edges : e.to \in Reachable,
         \A n \in m.entries \ mem.entries : n.value \in Reachable
  PROVE  Promised!Next
  <1>1. /\ Reachable \in SUBSET Cell /\ Held \subseteq Reachable
        /\ \A e \in mem.edges : e.from \in Reachable => e.to \in Reachable
        /\ \A n \in mem.entries :
              {n.map, n.key} \subseteq Reachable => n.value \in Reachable
    BY UsableClosed DEF Reachable
  <1>2. mem' = Dropped(m, Held)
    BY DEF Dropped
  <1>3. mem' \in Graph /\ Seen(mem, Held)' = Seen(m, Held')
    BY <1>2, DroppedLooksTheSame
  <1>4. /\ \A e \in m.edges : e.from = c => e.to \in Reachable
        /\ \A n \in m.entries : n.map = c /\ n.key \in Reachable => n.value \in Reachable
    BY <1>1
  <1>5. Reachable \cup {c} = Reachable /\ c \in Cell
    BY <1>1
  <1> QED BY <1>1, <1>3, <1>4, <1>5, ProgramMove

LEMMA NewMove ==
  ASSUME HeapInv, New
  PROVE  Promised!Next
  <1>1. PICK c \in FreeCells, k \in Kinds, scope \in SUBSET Reachable : NewCell(c, k, scope)
    <2>1. PICK c \in FreeCells, k \in Kinds :
             NewCell(c, k, {}) \/ \E e \in Reachable : NewCell(c, k, {e})
      BY DEF New
    <2> QED BY <2>1
  <1> DEFINE made == {[from |-> c, slot |-> "closure", to |-> e] : e \in scope}
  <1>2. /\ c \in Cell /\ kind[c] = "free"
        /\ \A n \in mem.entries : n.key # c
    BY DEF FreeCells
  <1>3. mem' = [mem EXCEPT !.edges = @ \cup made] /\ Held' = Held \cup {c}
        /\ phase' = phase /\ Running /\ collected' = "nothing"
    BY <1>1 DEF NewCell, New, Held
  <1>4. Held \in SUBSET Cell /\ Held \subseteq Reachable /\ scope \subseteq Cell
    BY ReachableAllocated, ReachableCells
  <1>5. /\ made \subseteq Edge
        /\ \A e \in made : e.from = c /\ e.to \in Reachable
    BY <1>2, <1>4 DEF Edge, Slot
  <1> HIDE DEF made
  <1>6. /\ mem \in Graph /\ mem' \in Graph /\ mem'.entries = mem.entries
        /\ mem'.edges = mem.edges \cup made
    BY <1>3, <1>5 DEF HeapInv, Graph
  <1>7. /\ \A e \in mem.edges : e.from # c
        /\ \A n \in mem.entries : n.map # c
    BY <1>2, FreeHasNoSlots DEF HeapInv, TypeOK
  <1>8. Seen(mem, Held)' = Seen(mem', Held') /\ Held' \in SUBSET Cell
    BY <1>2, <1>3, <1>4
  <1>9. /\ \A e \in mem'.edges : e.from = c => e.to \in Reachable \cup {c}
        /\ \A n \in mem'.entries : n.map = c /\ n.key \in Reachable \cup {c}
                                       => n.value \in Reachable \cup {c}
    BY <1>5, <1>6, <1>7
  <1>10. /\ \A e \in (mem.edges \ mem'.edges) \cup (mem'.edges \ mem.edges) : e.from = c
         /\ \A n \in (mem.entries \ mem'.entries) \cup (mem'.entries \ mem.entries) :
               n.map = c
         /\ Held' \subseteq Reachable \cup {c}
    BY <1>3, <1>4, <1>5, <1>6
  <1> QED BY <1>2, <1>3, <1>4, <1>6, <1>8, <1>9, <1>10, ProgramMove

LEMMA StoreMove ==
  ASSUME HeapInv, Store
  PROVE  Promised!Next
  <1>1. PICK a \in Reachable, b \in Reachable, s \in Slots \ {"closure", "value", "reason"} :
           mem' = [mem EXCEPT !.edges = @ \cup {[from |-> a, slot |-> s, to |-> b]}]
    BY DEF Store
  <1> DEFINE made == [from |-> a, slot |-> s, to |-> b]
  <1>2. /\ Held' = Held /\ phase' = phase /\ Running /\ collected' = "nothing"
    BY DEF Store, Held, Uncollected
  <1>3. Held \in SUBSET Cell /\ Held \subseteq Reachable /\ a \in Cell /\ b \in Cell
    BY ReachableAllocated, ReachableCells
  <1>4. made \in Edge /\ made.from = a /\ made.to \in Reachable
    BY <1>3, HeapAssumption DEF Edge, HeapAssumption
  <1> HIDE DEF made
  <1>5. /\ mem \in Graph /\ mem' \in Graph /\ mem'.entries = mem.entries
        /\ mem'.edges = mem.edges \cup {made}
    BY <1>1, <1>4 DEF HeapInv, Graph, made
  <1>6. /\ \A e \in mem.edges : e.from \in Reachable => e.to \in Reachable
        /\ \A n \in mem.entries :
              {n.map, n.key} \subseteq Reachable => n.value \in Reachable
    BY <1>3, <1>5, UsableClosed DEF Reachable
  <1>7. Seen(mem, Held)' = Seen(mem', Held') /\ Reachable \cup {a} = Reachable
    OBVIOUS
  <1>8. /\ \A e \in mem'.edges : e.from = a => e.to \in Reachable
        /\ \A n \in mem'.entries : n.map = a /\ n.key \in Reachable => n.value \in Reachable
    BY <1>4, <1>5, <1>6
  <1> QED BY <1>2, <1>3, <1>4, <1>5, <1>7, <1>8, ProgramMove

LEMMA EraseMove ==
  ASSUME HeapInv, Erase
  PROVE  Promised!Next
  <1>1. PICK e \in mem.edges : /\ e.from \in Reachable
                               /\ Change([mem EXCEPT !.edges = @ \ {e}])
    BY DEF Erase
  <1> DEFINE m == [mem EXCEPT !.edges = @ \ {e}]
  <1>2. m \in Graph /\ m.edges = mem.edges \ {e} /\ m.entries = mem.entries
    BY DEF HeapInv, Graph
  <1> HIDE DEF m
  <1>3. Held' = Held /\ mem' = Keep(m, Alive(m, Held)) /\ Running
        /\ phase' = phase /\ collected' = "nothing"
    BY <1>1 DEF Change, Leave, Held, m, Uncollected, Erase
  <1> QED BY <1>1, <1>2, <1>3, ReachableCells, ChangeMove

LEMMA WeakMapDeleteMove ==
  ASSUME HeapInv, WeakMapDelete
  PROVE  Promised!Next
  <1>1. PICK n \in mem.entries : /\ n.map \in Reachable
                                 /\ Change([mem EXCEPT !.entries = @ \ {n}])
    BY DEF WeakMapDelete
  <1> DEFINE m == [mem EXCEPT !.entries = @ \ {n}]
  <1>2. m \in Graph /\ m.edges = mem.edges /\ m.entries = mem.entries \ {n}
    BY DEF HeapInv, Graph
  <1> HIDE DEF m
  <1>3. Held' = Held /\ mem' = Keep(m, Alive(m, Held)) /\ Running
        /\ phase' = phase /\ collected' = "nothing"
    BY <1>1 DEF Change, Leave, Held, m, Uncollected, WeakMapDelete
  <1> QED BY <1>1, <1>2, <1>3, ReachableCells, ChangeMove

LEMMA WeakMapSetMove ==
  ASSUME HeapInv, WeakMapSet
  PROVE  Promised!Next
  <1>1. PICK w \in Reachable, k \in Reachable, v \in Reachable :
           Change([mem EXCEPT !.entries =
             {n \in @ : ~(n.map = w /\ n.key = k)}
               \cup {[map |-> w, key |-> k, value |-> v]}])
    BY DEF WeakMapSet
  <1> DEFINE m == [mem EXCEPT !.entries =
                    {n \in @ : ~(n.map = w /\ n.key = k)}
                      \cup {[map |-> w, key |-> k, value |-> v]}]
  <1>2. w \in Cell /\ k \in Cell /\ v \in Cell
    BY ReachableCells
  <1>3. /\ m \in Graph /\ m.edges = mem.edges
        /\ m.entries = {n \in mem.entries : ~(n.map = w /\ n.key = k)}
                         \cup {[map |-> w, key |-> k, value |-> v]}
    BY <1>2 DEF HeapInv, Graph, Entry
  <1> HIDE DEF m
  <1>4. Held' = Held /\ mem' = Keep(m, Alive(m, Held)) /\ Running
        /\ phase' = phase /\ collected' = "nothing"
    BY <1>1 DEF Change, Leave, Held, m, Uncollected, WeakMapSet
  <1> QED BY <1>3, <1>4, ReachableCells, ChangeMove

LEMMA SettleMove ==
  ASSUME HeapInv, Settle
  PROVE  Promised!Next
  <1>1. PICK p \in Reachable, v \in Reachable, s \in Slots \cap {"value", "reason"} :
           SettleWith(p, s, v, Waiting(p))
    BY DEF Settle
  <1> DEFINE made == [from |-> p, slot |-> s, to |-> v]
             m == [mem EXCEPT !.edges = (@ \ Waiting(p)) \cup {made}]
  <1>2. \E g \in {m} : \E alive \in {Alive(g, Held)} : mem' = Keep(g, alive)
    BY <1>1, Zenon DEF SettleWith
  <1>3. p \in Cell /\ v \in Cell /\ s \in Slot
    BY ReachableCells, HeapAssumption DEF HeapAssumption
  <1>4. made \in Edge /\ made.from = p /\ made.to = v
    BY <1>3 DEF Edge
  <1> HIDE DEF made
  <1>5. /\ m \in Graph /\ m.entries = mem.entries
        /\ m.edges = (mem.edges \ Waiting(p)) \cup {made}
    BY <1>4 DEF HeapInv, Graph
  <1> HIDE DEF m
  <1>6. Held' = Held /\ mem' = Keep(m, Alive(m, Held)) /\ Running
        /\ phase' = phase /\ collected' = "nothing"
    BY <1>1, <1>2 DEF SettleWith, Held, Settle, Uncollected
  <1>7. \A e \in Waiting(p) : e.from = p
    BY DEF Waiting
  <1> QED BY <1>4, <1>5, <1>6, <1>7, ReachableCells, ChangeMove

(* A step that lets go of some cells and drops what is left over. *)
LEMMA LeaveMove ==
  ASSUME HeapInv, Regrasps
  PROVE  Promised!Next
  <1>1. Held' \in SUBSET Cell /\ mem' = Dropped(mem, Held') /\ collected' = "nothing"
    BY ReachableCells DEF Regrasps, Leave, Dropped, Uncollected
  <1>2. Seen(mem, Held)' = Seen(mem, Held')
    BY <1>1, DroppedLooksTheSame, ReachableCells
  <1> QED BY <1>1, <1>2, ReachableCells, LetGoStep DEF Regrasps

(* Less can be traced from fewer cells in a smaller graph. *)
LEMMA TracedShrinks ==
  ASSUME NEW m \in Graph, NEW m2 \in Graph, m2.edges \subseteq m.edges,
         m2.entries \subseteq m.entries, NEW h \in SUBSET Cell, NEW h2 \in SUBSET h
  PROVE  Traced(m2, h2) \subseteq Traced(m, h)
  <1> DEFINE g == Followable(m)
             g2 == Followable(m2)
             U == Usable(g, h)
  <1>1. /\ g \in Graph /\ g.edges = {e \in m.edges : e.slot \notin Missed}
        /\ g.entries = m.entries /\ Traced(m, h) = Usable(g, h)
    BY TracedIsUsable
  <1>2. /\ g2.edges = {e \in m2.edges : e.slot \notin Missed}
        /\ g2.entries = m2.entries /\ Traced(m2, h2) = Usable(g2, h2)
    BY TracedIsUsable
  <1> HIDE DEF g, g2
  <1>3. /\ h \subseteq U /\ U \in SUBSET Cell
        /\ \A e \in g.edges : e.from \in U => e.to \in U
        /\ \A n \in g.entries : {n.map, n.key} \subseteq U => n.value \in U
    BY <1>1, UsableClosed
  <1>4. g2.edges \subseteq g.edges /\ g2.entries \subseteq g.entries
    BY <1>1, <1>2
  <1> HIDE DEF U
  <1>5. Usable(g2, h2) \subseteq U
    BY <1>3, <1>4, UsableLeast
  <1> QED BY <1>1, <1>2, <1>5 DEF U

(* What can be traced from the roots of a collection can be got at after   *)
(* it.                                                                     *)
LEMMA TracedStays ==
  ASSUME mem \in Graph, NEW m \in Graph, NEW held \in SUBSET Cell, NEW roots \in SUBSET held,
         Intact(m, Traced(mem, roots))
  PROVE  Traced(mem, roots) \subseteq Usable(m, held)
  <1> DEFINE g == Followable(mem)
             T == Usable(g, roots)
             U == Usable(m, held)
             S == T \cap U
  <1>1. /\ g \in Graph /\ g.edges \subseteq mem.edges
        /\ g.entries = mem.entries /\ Traced(mem, roots) = T
    BY TracedIsUsable
  <1> HIDE DEF g
  <1>2. /\ roots \subseteq T /\ T \in SUBSET Cell
        /\ \A e \in g.edges : e.from \in T => e.to \in T
        /\ \A n \in g.entries : {n.map, n.key} \subseteq T => n.value \in T
    BY <1>1, UsableClosed
  <1>3. /\ held \subseteq U /\ U \in SUBSET Cell
        /\ \A e \in m.edges : e.from \in U => e.to \in U
        /\ \A n \in m.entries : {n.map, n.key} \subseteq U => n.value \in U
    BY UsableClosed
  <1>4. /\ \A e \in mem.edges : e.from \in T => e \in m.edges
        /\ \A n \in mem.entries : {n.map, n.key} \subseteq T => n \in m.entries
    BY <1>1 DEF Intact
  <1> HIDE DEF T, U
  <1>5. /\ \A e \in g.edges : e.from \in S => e.to \in S
        /\ \A n \in g.entries : {n.map, n.key} \subseteq S => n.value \in S
        /\ roots \subseteq S /\ S \in SUBSET Cell
    BY <1>1, <1>2, <1>3, <1>4
  <1> HIDE DEF S
  <1>6. T \subseteq S
    BY <1>5, UsableLeast DEF T
  <1> QED BY <1>1, <1>6 DEF S, U

(* A collection takes references away, but none from what can be traced.   *)
LEMMA CollectMove ==
  ASSUME HeapInv, NEW which \in {"minor", "major"}, NEW roots, Collects(which, roots)
  PROVE  Promised!Next
  <1> DEFINE old == Seen(mem, Held)
             new == Seen(mem, Held)'
             U == Usable(mem, Held)
             U2 == Usable(mem', Held')
             T == Traced(mem, roots)
  <1>1. /\ mem \in Graph /\ Held \in SUBSET Cell /\ Held' \in SUBSET Cell
        /\ roots \in SUBSET Held' /\ Held' \subseteq U
    BY ReachableCells DEF Collects, Reachable
  <1>2. Intact(mem', T)
    BY <1>1, CollectSpares DEF Collects
  <1>3. /\ mem' \in Graph /\ mem'.edges \subseteq mem.edges /\ mem'.entries \subseteq mem.entries
        /\ \A e \in mem.edges : e.from \in T => e \in mem'.edges
        /\ \A n \in mem.entries : {n.map, n.key} \subseteq T => n \in mem'.entries
    BY <1>2 DEF Intact
  <1>4. /\ old \in Graph /\ old.edges = {e \in mem.edges : e.from \in U}
        /\ old.entries = {n \in mem.entries : {n.map, n.key} \subseteq U}
    BY <1>1 DEF Seen, Graph
  <1>5. /\ new.edges = {e \in mem'.edges : e.from \in U2}
        /\ new.entries = {n \in mem'.entries : {n.map, n.key} \subseteq U2}
    BY DEF Seen
  <1>6. Usable(old, Held) = U
    <2>1. Held \in SUBSET U
      BY <1>1, UsableClosed
    <2> QED BY <1>1, <2>1, SeenFromWithin
  <1>7. U2 \subseteq U
    <2>1. /\ U \in SUBSET Cell
          /\ \A e \in mem.edges : e.from \in U => e.to \in U
          /\ \A n \in mem.entries : {n.map, n.key} \subseteq U => n.value \in U
      BY <1>1, UsableClosed
    <2> HIDE DEF U
    <2> QED BY <1>1, <1>3, <2>1, UsableLeast
  <1>8. T \subseteq U2
    BY <1>1, <1>2, <1>3, TracedStays
  <1>9. Traced(old, Promised!Safe) \subseteq T
    <2>1. Promised!Safe \in SUBSET roots /\ roots \in SUBSET Cell
      BY <1>1 DEF Collects
    <2>2. old.edges \subseteq mem.edges /\ old.entries \subseteq mem.entries
      BY <1>4
    <2> HIDE DEF old
    <2> QED BY <1>1, <1>4, <2>1, <2>2, TracedShrinks
  <1>10. collected' # "nothing" /\ globals' = globals
    BY DEF Collects, Collect, Count
  <1> HIDE DEF old, new, U, U2, T
  <1>11. new.edges \subseteq old.edges /\ new.entries \subseteq old.entries
    BY <1>3, <1>4, <1>5, <1>7
  <1>12. Spares(old, new, Traced(old, Promised!Safe))
    BY <1>3, <1>4, <1>5, <1>8, <1>9 DEF Spares
  <1>13. Held' \subseteq Promised!Usable(old, Held)
    BY <1>1, <1>6, SameNotions
  <1>14. Promised!Spares(old, new, Promised!Traced(old, Promised!Safe))
    BY <1>12, SameNotions
  <1>15. Promised!Collect(old, new)
    BY <1>10, <1>11, <1>13, <1>14 DEF Promised!Collect
  <1> QED BY <1>15 DEF Promised!Next, old, new

LEMMA EveryMove ==
  ASSUME HeapInv, HostIdle, Next
  PROVE  Promised!Next
  <1>1. CASE Engine
    BY <1>1, EngineShape, LeaveMove, CollectMove
  <1>2. CASE Globally \/ Locally
    BY <1>2, HoldingRegrasps, LeaveMove
  <1> QED BY <1>1, <1>2, NewMove, StoreMove, EraseMove, SettleMove,
             WeakMapSetMove, WeakMapDeleteMove DEF Next, UserCode

(* Heap implements HeapSpec: a program sees only what it does to memory    *)
(* itself, whatever is severed, pruned and dropped in the meantime, but    *)
(* for what a collection could not trace from its roots.                   *)
THEOREM ImplementsHeapSpec == Spec => KeepsReachable
  <1> DEFINE Inv == HeapInv /\ HostIdle
  <1>1. Init => Inv /\ Promised!Init
    <2> SUFFICES ASSUME Init  PROVE Inv /\ Promised!Init
      OBVIOUS
    <2>1. Inv
      BY HeapInitially DEF Init, HostIdle
    <2>2. Seen(mem, Held) = [edges |-> {}, entries |-> {}]
      BY DEF Init, Seen
    <2> QED BY <2>1, <2>2 DEF Init, Held, Promised!Init
  <1>2. Inv /\ [Next]_vars
          => Inv' /\ [Promised!Next]_<<phase, globals, Held, Seen(mem, Held), collected>>
    <2> SUFFICES ASSUME Inv, [Next]_vars
                 PROVE  /\ Inv'
                        /\ [Promised!Next]_<<phase, globals, Held, Seen(mem, Held), collected>>
      OBVIOUS
    <2>1. Inv'
      BY HeapTypeStep
    <2>2. CASE Next
      BY <2>1, <2>2, EveryMove
    <2>3. CASE UNCHANGED vars
      BY <2>1, <2>3 DEF vars, Held
    <2> QED BY <2>2, <2>3
  <1> QED BY <1>1, <1>2, PTL DEF Spec, KeepsReachable, Promised!Spec

-----------------------------------------------------------------------------
(* Nothing leaks: what severing leaves of an unreachable cell, the scope of *)
(* a function and the value of a fulfilled promise, makes no cycle.        *)

(* Whether a reference goes where the kinds of cells let it go *)
Aimed(e, kinds) ==
    /\ e.slot = "closure" => kinds[e.to] = "env"
    /\ e.slot = "value" => kinds[e.to] \notin {"promise", "settled"}

LeakInv == \A e \in mem.edges : Aimed(e, kind)

(* How cells change in a step that creates none *)
KindsMove ==
    \A c \in Cell : \/ kind'[c] = kind[c] \/ kind'[c] = "free"
                    \/ kind[c] = "promise" /\ kind'[c] = "settled"

(* A step that creates nothing leaves references aimed as they are. *)
LEMMA LeakKept ==
  ASSUME HeapInv, HeapInv', LeakInv, KindsMove,
         \A e \in mem'.edges : e \in mem.edges \/ Aimed(e, kind)
  PROVE  LeakInv'
  <1> SUFFICES ASSUME NEW e \in mem'.edges PROVE Aimed(e, kind')
    BY DEF LeakInv
  <1>1. Aimed(e, kind)
    BY DEF LeakInv
  <1>2. e.to \in Cell /\ kind'[e.to] # "free"
    BY DEF HeapInv, TypeOK, Allocated, Edge
  <1>3. kind'[e.to] = kind[e.to] \/ (kind[e.to] = "promise" /\ kind'[e.to] = "settled")
    BY <1>2 DEF KindsMove
  <1> QED BY <1>1, <1>3 DEF Aimed

(* Dropping cells moves no kind. *)
LEMMA DropMoves ==
  ASSUME NEW m \in Graph, NEW kinds, NEW alive,
         \A c \in Cell : \/ kinds[c] = kind[c]
                         \/ kind[c] = "promise" /\ kinds[c] = "settled",
         mem' = Keep(m, alive),
         kind' = [c \in Cell |-> IF c \in alive THEN kinds[c] ELSE "free"]
  PROVE  /\ KindsMove
         /\ mem'.edges \subseteq m.edges /\ mem'.entries \subseteq m.entries
  BY DEF KindsMove, Keep

LEMMA LeaveMoves ==
  ASSUME NEW m \in Graph, NEW held, Leave(m, held)
  PROVE  /\ KindsMove
         /\ mem'.edges \subseteq m.edges /\ mem'.entries \subseteq m.entries
  <1>1. PICK alive : /\ mem' = Keep(m, alive)
                     /\ kind' = [c \in Cell |-> IF c \in alive THEN kind[c] ELSE "free"]
    BY DEF Leave
  <1> QED BY <1>1, DropMoves

LEMMA RegraspLeak ==
  ASSUME HeapInv, HeapInv', LeakInv, Regrasps
  PROVE  LeakInv' /\ collected' = "nothing"
  <1>1. mem \in Graph /\ Leave(mem, Held') /\ collected' = "nothing"
    BY DEF HeapInv, Regrasps, Uncollected
  <1>2. KindsMove /\ mem'.edges \subseteq mem.edges
    BY <1>1, LeaveMoves
  <1> QED BY <1>1, <1>2, LeakKept

(* A new cell refers to a scope at most, and nothing refers to it. *)
LEMMA NewLeak ==
  ASSUME HeapInv, LeakInv, New
  PROVE  LeakInv'
  <1>1. PICK c \in FreeCells, k \in Kinds, scope \in SUBSET Reachable :
           /\ NewCell(c, k, scope)
           /\ \A e \in scope : kind[e] = "env"
    <2>1. \E c \in FreeCells, k \in Kinds :
             \/ NewCell(c, k, {})
             \/ \E e \in Reachable : kind[e] = "env" /\ NewCell(c, k, {e})
      BY DEF New
    <2>2. PICK c \in FreeCells, k \in Kinds :
             \/ NewCell(c, k, {})
             \/ \E e \in Reachable : kind[e] = "env" /\ NewCell(c, k, {e})
      BY <2>1
    <2>3. CASE NewCell(c, k, {})
      BY <2>3
    <2>4. CASE \E e \in Reachable : kind[e] = "env" /\ NewCell(c, k, {e})
      <3>1. PICK e \in Reachable : kind[e] = "env" /\ NewCell(c, k, {e})
        BY <2>4
      <3>2. {e} \in SUBSET Reachable /\ \A x \in {e} : kind[x] = "env"
        BY <3>1
      <3> QED BY <3>1, <3>2
    <2> QED BY <2>2, <2>3, <2>4
  <1> DEFINE fresh == {[from |-> c, slot |-> "closure", to |-> e] : e \in scope}
  <1>2. /\ kind' = [kind EXCEPT ![c] = k]
        /\ mem' = [mem EXCEPT !.edges = @ \cup fresh]
    BY <1>1 DEF NewCell
  <1>3. /\ c \in Cell /\ kind[c] = "free"
        /\ kind \in [Cell -> Kind \cup {"free"}]
        /\ mem \in Graph
    BY DEF FreeCells, HeapInv, TypeOK
  <1>4. mem'.edges = mem.edges \cup fresh
    BY <1>2, <1>3 DEF Graph
  <1>5. \A e \in fresh : e.from = c /\ e.slot = "closure" /\ e.to \in scope
    OBVIOUS
  <1>6. Reachable \subseteq Allocated /\ c \notin Allocated
    BY <1>3, ReachableAllocated DEF Allocated
  <1> HIDE DEF fresh
  <1>7. \A d \in Cell : d # c => kind'[d] = kind[d]
    BY <1>2, <1>3
  <1>8. \A e \in mem'.edges : Aimed(e, kind')
    <2>1. ASSUME NEW e \in mem.edges PROVE Aimed(e, kind')
      <3>1. e.to \in Allocated /\ e.to \in Cell /\ Aimed(e, kind)
        BY DEF HeapInv, TypeOK, Allocated, LeakInv
      <3>2. kind'[e.to] = kind[e.to]
        BY <1>6, <1>7, <3>1
      <3> QED BY <3>1, <3>2 DEF Aimed
    <2>2. ASSUME NEW e \in fresh PROVE Aimed(e, kind')
      <3>1. e.to \in Allocated /\ e.to \in Cell /\ kind[e.to] = "env" /\ e.slot = "closure"
        BY <1>1, <1>5, <1>6 DEF Allocated
      <3>2. kind'[e.to] = "env"
        BY <1>6, <1>7, <3>1
      <3> QED BY <3>1, <3>2 DEF Aimed
    <2> QED BY <1>4, <2>1, <2>2
  <1> QED BY <1>8 DEF LeakInv

(* User code makes references where the kinds of cells allow them. *)
LEMMA UserLeak ==
  ASSUME HeapInv, HeapInv', LeakInv, UserCode
  PROVE  LeakInv'
  <1>0. mem \in Graph
    BY DEF HeapInv
  <1>1. CASE New
    BY <1>1, NewLeak
  <1>2. CASE Store
    <2>1. PICK a \in Reachable, b \in Reachable, s \in Slots \ {"closure", "value", "reason"} :
             /\ mem' = [mem EXCEPT !.edges = @ \cup {[from |-> a, slot |-> s, to |-> b]}]
             /\ UNCHANGED <<phase, kind, globals, locals, result>>
      BY <1>2 DEF Store
    <2>2. mem'.edges = mem.edges \cup {[from |-> a, slot |-> s, to |-> b]}
      BY <1>0, <2>1 DEF Graph
    <2>3. Aimed([from |-> a, slot |-> s, to |-> b], kind)
      BY <2>1 DEF Aimed
    <2>4. KindsMove
      BY <2>1 DEF KindsMove
    <2> QED BY <2>2, <2>3, <2>4, LeakKept
  <1>3. ASSUME NEW m \in Graph, Change(m), m.edges \subseteq mem.edges
        PROVE  LeakInv'
    <2>1. KindsMove /\ mem'.edges \subseteq m.edges
      BY <1>3, LeaveMoves DEF Change
    <2> QED BY <1>3, <2>1, LeakKept
  <1>4. CASE Erase
    <2>1. PICK e \in mem.edges : Change([mem EXCEPT !.edges = @ \ {e}])
      BY <1>4 DEF Erase
    <2> DEFINE m == [mem EXCEPT !.edges = @ \ {e}]
    <2>2. m \in Graph /\ m.edges \subseteq mem.edges /\ Change(m)
      BY <1>0, <2>1 DEF Graph
    <2> HIDE DEF m
    <2> QED BY <2>2, <1>3
  <1>5. CASE WeakMapDelete
    <2>1. PICK n \in mem.entries : Change([mem EXCEPT !.entries = @ \ {n}])
      BY <1>5 DEF WeakMapDelete
    <2> DEFINE m == [mem EXCEPT !.entries = @ \ {n}]
    <2>2. m \in Graph /\ m.edges = mem.edges /\ Change(m)
      BY <1>0, <2>1 DEF Graph
    <2> HIDE DEF m
    <2> QED BY <2>2, <1>3
  <1>6. CASE WeakMapSet
    <2>1. PICK w \in Reachable, k \in Reachable, v \in Reachable :
             Change([mem EXCEPT !.entries =
               {n \in @ : ~(n.map = w /\ n.key = k)}
                 \cup {[map |-> w, key |-> k, value |-> v]}])
      BY <1>6 DEF WeakMapSet
    <2> DEFINE m == [mem EXCEPT !.entries =
                      {n \in @ : ~(n.map = w /\ n.key = k)}
                        \cup {[map |-> w, key |-> k, value |-> v]}]
    <2>2. w \in Cell /\ k \in Cell /\ v \in Cell
      BY ReachableOnes
    <2>3. m \in Graph /\ m.edges = mem.edges /\ Change(m)
      BY <1>0, <2>1, <2>2 DEF Graph, Entry
    <2> HIDE DEF m
    <2> QED BY <2>3, <1>3
  <1>7. CASE Settle
    <2>1. PICK p \in Reachable, v \in Reachable, s \in Slots \cap {"value", "reason"} :
             SettleWith(p, s, v, Waiting(p))
      BY <1>7 DEF Settle
    <2> DEFINE new == [from |-> p, slot |-> s, to |-> v]
               m == [mem EXCEPT !.edges = (@ \ Waiting(p)) \cup {new}]
               kinds == [kind EXCEPT ![p] = "settled"]
    <2>2. /\ kind[p] = "promise"
          /\ s = "value" => kind[v] \notin {"promise", "settled"}
          /\ \E g \in {m} : \E alive \in {Alive(g, Held)} :
               /\ mem' = Keep(g, alive)
               /\ kind' = [c \in Cell |-> IF c \in alive THEN kinds[c] ELSE "free"]
      BY <2>1, Zenon DEF SettleWith
    <2>3. p \in Cell /\ v \in Cell /\ s \in {"value", "reason"}
      BY <2>1, ReachableOnes
    <2>4. /\ m \in Graph /\ m.edges \subseteq mem.edges \cup {new}
      <3>1. new \in Edge
        BY <2>3 DEF Edge, Slot
      <3> HIDE DEF new
      <3> QED BY <1>0, <3>1 DEF Graph
    <2>5. Aimed(new, kind)
      BY <2>2, <2>3 DEF Aimed
    <2>6. \A c \in Cell : \/ kinds[c] = kind[c]
                          \/ kind[c] = "promise" /\ kinds[c] = "settled"
      <3>1. kind \in [Cell -> Kind \cup {"free"}]
        BY DEF HeapInv, TypeOK
      <3> QED BY <2>2, <2>3, <3>1
    <2> HIDE DEF new, m, kinds
    <2>7. /\ mem' = Keep(m, Alive(m, Held))
          /\ kind' = [c \in Cell |-> IF c \in Alive(m, Held) THEN kinds[c] ELSE "free"]
      BY <2>2, Zenon
    <2>8. KindsMove /\ mem'.edges \subseteq m.edges
      BY <2>4, <2>6, <2>7, DropMoves
    <2> QED BY <2>4, <2>5, <2>8, LeakKept
  <1>8. CASE Globally \/ Locally
    BY <1>8, HoldingRegrasps, RegraspLeak
  <1> QED BY <1>1, <1>2, <1>4, <1>5, <1>6, <1>7, <1>8 DEF UserCode

(* What is alive is held, or referred to by what is alive. *)
LEMMA AliveSupported ==
  ASSUME NEW m, NEW held, NEW c \in Alive(m, held)
  PROVE  /\ c \in Cell
         /\ \/ c \in held
            \/ \E e \in m.edges : e.from \in Alive(m, held) /\ e.to = c
            \/ \E n \in m.entries : n.map \in Alive(m, held) /\ n.value = c
  <1> DEFINE Supported(S) == \A d \in S :
               \/ d \in held
               \/ \E e \in m.edges : e.from \in S /\ e.to = d
               \/ \E n \in m.entries : n.map \in S /\ n.value = d
  <1>1. PICK S \in SUBSET Cell : Supported(S) /\ c \in S
    BY DEF Alive
  <1>2. S \subseteq Alive(m, held)
    BY <1>1 DEF Alive
  <1> QED BY <1>1, <1>2

(* What can be reached by some references is closed under them, and the    *)
(* fewer the references, the less.                                         *)
LEMMA ReachClosed ==
  ASSUME NEW m \in Graph, NEW from \in SUBSET Cell
  PROVE  /\ from \subseteq Reach(m, Slot, from)
         /\ \A e \in m.edges : e.from \in Reach(m, Slot, from) => e.to \in Reach(m, Slot, from)
         /\ \A n \in m.entries :
               n.map \in Reach(m, Slot, from) => n.value \in Reach(m, Slot, from)
  <1>1. Edges(m, Slot) = m.edges
    BY DEF Edges, Graph, Edge
  <1> QED BY <1>1 DEF Reach, Graph, Edge, Entry

LEMMA MarkedReached ==
  ASSUME NEW held, NEW roots \in SUBSET held
  PROVE  Marked(roots) \subseteq Reach(mem, Slot, held)
  <1>1. Edges(mem, Followed) \subseteq Edges(mem, Slot)
    BY DEF Edges, Followed, Slot
  <1> QED BY <1>1 DEF Marked, Reach

(* What a collection leaves: nothing severed of what it found unreachable, *)
(* and no weak map entry in it.                                            *)
Severs(m, doomed) ==
    /\ m \in Graph /\ m.edges \subseteq mem.edges /\ m.entries \subseteq mem.entries
    /\ \A e \in m.edges : e.from \in doomed => e.slot \notin Severed
    /\ \A n \in m.entries : n.map \notin doomed

LEMMA CollectSevers ==
  ASSUME mem \in Graph, NEW which, NEW roots, NEW held, Collect(which, roots, held)
  PROVE  \E m \in Graph :
            /\ Severs(m, Doomed(which, Marked(roots)))
            /\ Leave(m, held)
            /\ Promote(Doomed(which, Marked(roots)), Alive(m, held))
            /\ collected' = which
  <1> DEFINE doomed == Doomed(which, Marked(roots))
             late == {c \in doomed : kind[c] \in {"promise", "settled", "env"}}
             early == Without(mem, doomed \ late)
             m1 == Dropped(early, held)
  <1>1. PICK gone : /\ Prunes(m1, gone, doomed, held)
                    /\ LET m2 == Dropped([m1 EXCEPT !.entries = @ \ gone], held)
                       IN  /\ Leave(Without(m2, late), held)
                           /\ Promote(doomed, Alive(Without(m2, late), held))
    BY DEF Collect
  <1>2. collected' = which
    BY DEF Collect, Count
  <1> DEFINE m2 == Dropped([m1 EXCEPT !.entries = @ \ gone], held)
             m3 == Without(m2, late)
  <1>3. Leave(m3, held) /\ Promote(doomed, Alive(m3, held))
    BY <1>1
  <1>4. {n \in m1.entries : n.map \in doomed} \subseteq gone
    BY <1>1 DEF Prunes
  <1>5. early.edges = {e \in mem.edges : e.from \in doomed \ late => e.slot \notin Severed}
    BY DEF Without, Graph
  <1>6. early \in Graph /\ early.edges \subseteq mem.edges /\ early.entries = mem.entries
    BY WithoutPart
  <1> HIDE DEF early
  <1>7. m1 \in Graph /\ m1.edges \subseteq early.edges /\ m1.entries \subseteq early.entries
    BY <1>6, DroppedPart
  <1> HIDE DEF m1
  <1>8. /\ [m1 EXCEPT !.entries = @ \ gone] \in Graph
        /\ [m1 EXCEPT !.entries = @ \ gone].edges = m1.edges
        /\ [m1 EXCEPT !.entries = @ \ gone].entries = m1.entries \ gone
    BY <1>7 DEF Graph
  <1>9. m2 \in Graph /\ m2.edges \subseteq m1.edges /\ m2.entries \subseteq m1.entries \ gone
    BY <1>8, DroppedPart
  <1> HIDE DEF m2
  <1>10. m3.edges = {e \in m2.edges : e.from \in late => e.slot \notin Severed}
    BY <1>9 DEF Without, Graph
  <1>11. m3 \in Graph /\ m3.edges \subseteq m2.edges /\ m3.entries = m2.entries
    BY <1>9, WithoutPart
  <1> HIDE DEF m3
  <1>12. \A e \in m3.edges : e.from \in doomed => e.slot \notin Severed
    <2> SUFFICES ASSUME NEW e \in m3.edges, e.from \in doomed PROVE e.slot \notin Severed
      OBVIOUS
    <2>1. CASE e.from \in late
      BY <2>1, <1>10
    <2>2. CASE e.from \in doomed \ late
      <3>1. e \in early.edges
        BY <1>7, <1>9, <1>11
      <3> HIDE DEF late
      <3> QED BY <2>2, <3>1, <1>5
    <2> QED BY <2>1, <2>2
  <1>13. \A n \in m3.entries : n.map \notin doomed
    BY <1>4, <1>9, <1>11
  <1>14. Severs(m3, doomed)
    BY <1>6, <1>7, <1>9, <1>11, <1>12, <1>13 DEF Severs
  <1> QED BY <1>2, <1>3, <1>11, <1>14

(* A cell that a major collection leaves although it could not be reached  *)
(* before, and hangs on no cell that is never severed                      *)
Lost(m, held, c) ==
    /\ c \in Alive(m, held) /\ c \notin Reach(mem, Slot, held)
    /\ c \notin Reach(Dropped(m, held), Slot, Stuck)

(* A lost cell is referred to by another one, from a place that is not     *)
(* severed: as the scope of a function or the value of a promise.          *)
LEMMA LostBefore ==
  ASSUME HeapInv, LeakInv, NEW held \in SUBSET Cell, NEW roots \in SUBSET held,
         NEW m \in Graph, Severs(m, Doomed("major", Marked(roots))), NEW c, Lost(m, held, c)
  PROVE  \E e \in mem.edges :
            /\ e.to = c /\ Lost(m, held, e.from)
            /\ \/ kind[e.from] = "function" /\ kind[c] = "env"
               \/ kind[e.from] = "settled" /\ kind[c] \notin {"promise", "settled"}
  <1> DEFINE R == Reach(mem, Slot, held)
             left == Dropped(m, held)
             T == Reach(left, Slot, Stuck)
             doomed == Doomed("major", Marked(roots))
  <1>1. mem \in Graph /\ mem.edges \subseteq Edge /\ mem.entries \subseteq Entry
    BY DEF HeapInv, TypeOK
  <1>2. /\ m.edges \subseteq mem.edges /\ m.entries \subseteq mem.entries
        /\ \A e \in m.edges : e.from \in doomed => e.slot \notin Severed
        /\ \A n \in m.entries : n.map \notin doomed
    BY DEF Severs
  <1>3. /\ held \subseteq R
        /\ \A e \in mem.edges : e.from \in R => e.to \in R
        /\ \A n \in mem.entries : n.map \in R => n.value \in R
    BY <1>1, ReachClosed
  <1>4. /\ left \in Graph
        /\ left.edges = {e \in m.edges : e.from \in Alive(m, held)}
        /\ left.entries = {n \in m.entries : n.map \in Alive(m, held)}
    BY DroppedPart DEF Dropped, Keep
  <1>5. /\ Stuck \subseteq T
        /\ \A e \in left.edges : e.from \in T => e.to \in T
        /\ \A n \in left.entries : n.map \in T => n.value \in T
    <2>1. Stuck \in SUBSET Cell
      BY <1>1 DEF Stuck, Edge, Entry
    <2> HIDE DEF left
    <2> QED BY <1>4, <2>1, ReachClosed
  <1>6. Marked(roots) \subseteq R
    BY MarkedReached
  <1> HIDE DEF R, left, T
  <1>7. c \in Alive(m, held) /\ c \notin R /\ c \notin T
    BY DEF Lost, R, T, left
  <1>8. ASSUME NEW d \in Alive(m, held), d \notin R, d \notin T  PROVE Lost(m, held, d)
    BY <1>8 DEF Lost, R, T, left
  <1>9. \/ \E e \in m.edges : e.from \in Alive(m, held) /\ e.to = c
        \/ \E n \in m.entries : n.map \in Alive(m, held) /\ n.value = c
    BY <1>3, <1>7, AliveSupported
  <1>10. ASSUME NEW d \in Cell, kind[d] # "free", d \notin R
         PROVE  d \in doomed \/ generation[d] = "none"
    BY <1>6, <1>10 DEF Doomed, Allocated, Registered
  <1> HIDE DEF doomed
  <1>11. CASE \E n \in m.entries : n.map \in Alive(m, held) /\ n.value = c
    <2>1. PICK n \in m.entries : n.map \in Alive(m, held) /\ n.value = c
      BY <1>11
    <2>2. n \in mem.entries /\ n.map \in Cell /\ n.map \notin doomed
      BY <1>1, <1>2 DEF Entry
    <2>3. kind[n.map] # "free"
      BY <2>2 DEF HeapInv, TypeOK
    <2>4. n.map \notin R /\ n.map \notin T
      BY <1>3, <1>4, <1>5, <1>7, <2>1, <2>2
    <2>5. generation[n.map] = "none"
      BY <1>10, <2>2, <2>3, <2>4
    <2>6. n.map \in Stuck
      BY <2>2, <2>5 DEF Stuck
    <2> QED BY <1>5, <2>4, <2>6
  <1>12. CASE \E e \in m.edges : e.from \in Alive(m, held) /\ e.to = c
    <2>1. PICK e \in m.edges : e.from \in Alive(m, held) /\ e.to = c
      BY <1>12
    <2>2. e \in mem.edges /\ e.from \in Cell /\ e.slot \in Slot
      BY <1>1, <1>2 DEF Edge
    <2>3. e.slot \in SlotsOf(kind[e.from]) /\ Aimed(e, kind)
      BY <2>2 DEF HeapInv, TypeOK, LeakInv
    <2>4. kind[e.from] # "free"
      BY <2>3, FreeHasNoSlots
    <2>5. e.from \notin R /\ e.from \notin T
      BY <1>3, <1>4, <1>5, <1>7, <2>1, <2>2
    <2>6. e.from \notin Stuck
      BY <1>5, <2>5
    <2>7. e.slot \notin {"named", "reason"}
      BY <2>2, <2>6 DEF Stuck
    <2>8. e.slot \in {"closure", "value"}
      <3>1. CASE e.from \in doomed
        BY <1>2, <2>1, <2>2, <2>7, <3>1 DEF Severed, Slot
      <3>2. CASE generation[e.from] = "none"
        BY <2>2, <2>6, <3>2 DEF Stuck
      <3> QED BY <1>10, <2>2, <2>4, <2>5, <3>1, <3>2
    <2>9. \/ kind[e.from] = "function" /\ kind[c] = "env"
          \/ kind[e.from] = "settled" /\ kind[c] \notin {"promise", "settled"}
      BY <2>1, <2>3, <2>8 DEF Aimed, SlotsOf
    <2> QED BY <1>8, <2>1, <2>2, <2>5, <2>9
  <1> QED BY <1>9, <1>11, <1>12

(* So none is lost: nothing lost can refer to a promise, no promise is     *)
(* lost then, hence no function, hence nothing.                            *)
LEMMA NoneLost ==
  ASSUME HeapInv, LeakInv, NEW held \in SUBSET Cell, NEW roots \in SUBSET held,
         NEW m \in Graph, Severs(m, Doomed("major", Marked(roots))), NEW c
  PROVE  ~Lost(m, held, c)
  <1>1. \A d : Lost(m, held, d) =>
           \E b : /\ Lost(m, held, b)
                  /\ \/ kind[b] = "function" /\ kind[d] = "env"
                     \/ kind[b] = "settled" /\ kind[d] \notin {"promise", "settled"}
    BY LostBefore
  <1>2. \A d : Lost(m, held, d) => kind[d] # "settled"
    BY <1>1
  <1>3. \A d : Lost(m, held, d) => kind[d] # "function"
    BY <1>1, <1>2
  <1> QED BY <1>1, <1>2, <1>3

(* What a major collection leaves *)
Reclaims ==
    collected' = "major" =>
        Allocated' \subseteq Reach(mem, Slot, Held') \cup Reach(mem', Slot, Stuck)

LEMMA CollectLeak ==
  ASSUME HeapInv, HeapInv', LeakInv, NEW which, NEW roots, Collects(which, roots)
  PROVE  LeakInv' /\ Reclaims
  <1> PICK held \in SUBSET Cell : held = Held'
    <2>1. Held' \in SUBSET Cell
      BY DEF HeapInv, TypeOK, Allocated
    <2> QED BY <2>1
  <1>1. mem \in Graph /\ roots \in SUBSET held /\ Collect(which, roots, held)
    BY DEF HeapInv, Collects
  <1> PICK doomed : doomed = Doomed(which, Marked(roots))
    OBVIOUS
  <1>2. PICK m \in Graph : Severs(m, doomed) /\ Leave(m, held) /\ collected' = which
    BY <1>1, CollectSevers
  <1>3. KindsMove /\ mem'.edges \subseteq m.edges
    BY <1>2, LeaveMoves
  <1>4. LeakInv'
    BY <1>2, <1>3, LeakKept DEF Severs
  <1>5. /\ mem' = Dropped(m, held)
        /\ kind' = [c \in Cell |-> IF c \in Alive(m, held) THEN kind[c] ELSE "free"]
    BY <1>2 DEF Leave, Dropped
  <1>6. ASSUME collected' = "major", NEW c \in Allocated'
        PROVE  c \in Reach(mem, Slot, held) \cup Reach(mem', Slot, Stuck)
    <2>1. c \in Alive(m, held)
      BY <1>5 DEF Allocated
    <2>2. ~Lost(m, held, c)
      BY <1>1, <1>2, <1>6, NoneLost
    <2> QED BY <1>5, <2>1, <2>2 DEF Lost
  <1> QED BY <1>4, <1>6 DEF Reclaims

(* A major collection reclaims every cell that could not be reached before *)
(* it, cycles and cells that earlier minor collections severed or skipped  *)
(* included, unless it hangs on a cell that no collection severs: whatever *)
(* the program does with however many cells, whatever the host and the     *)
(* jobs hold, and whenever the collection runs.                            *)
THEOREM MajorCollectionsReclaim == Spec => NothingLeaks
  <1> DEFINE Inv == HeapInv /\ HostIdle /\ LeakInv
  <1>1. Init => Inv
    BY HeapInitially DEF Init, HostIdle, LeakInv
  <1>2. Inv /\ [Next]_vars => Inv' /\ [Reclaims]_vars
    <2> SUFFICES ASSUME Inv, [Next]_vars  PROVE Inv' /\ [Reclaims]_vars
      OBVIOUS
    <2>1. HeapInv' /\ HostIdle'
      BY HeapTypeStep
    <2>2. CASE UserCode
      <3>1. collected' = "nothing"
        BY <2>2 DEF UserCode, New, NewCell, Store, Erase, Settle, SettleWith, WeakMapSet,
                    WeakMapDelete, Globally, Locally, Change, Uncollected
      <3> QED BY <2>1, <2>2, <3>1, UserLeak DEF Reclaims
    <2>3. CASE Engine
      BY <2>1, <2>3, EngineShape, RegraspLeak, CollectLeak DEF Reclaims
    <2>4. CASE UNCHANGED vars
      BY <2>1, <2>4 DEF vars, LeakInv
    <2> QED BY <2>2, <2>3, <2>4, <2>1 DEF Next
  <1> QED BY <1>1, <1>2, PTL DEF Spec, NothingLeaks, Reclaims

===============================================================================
