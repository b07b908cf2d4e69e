-------------------------------- MODULE Heap --------------------------------
(***************************************************************************)
(* The garbage collector (interpreter/gc.rs) and the moments it runs       *)
(* (interpreter.rs).  Cells are reference counted; the collector marks     *)
(* what the engine's roots reach, severs the references of the other cells *)
(* so that cycles fall apart, and keeps two generations.                   *)
(*                                                                         *)
(* User code does anything to the cells it can get at.  What it is about   *)
(* is not modelled: a cell is its kind and what it refers to.              *)
(***************************************************************************)
EXTENDS Memory, Naturals, FiniteSets

CONSTANTS
    Kinds,              \* the kinds of cells user code creates
    Slots,              \* the references user code makes
    MaxEdges,           \* references and weak map entries at a time
    MaxGlobals,         \* cells the global scope refers to at a time
    MaxLocals,          \* cells the Rust stack holds at a time
    MaxMinor,           \* minor collections the host asks for between major ones
    NURSERY_THRESHOLD,  \* young cells that ask for a minor collection
    GC_THRESHOLD,       \* allocations that ask for a major collection
    MAJOR_AFTER_MINOR   \* minor collections between major ones

(* An object stands for maps and sets too: the collector follows and       *)
(* clears all they refer to.  A promise is "settled" once it is.  Native   *)
(* functions are those made at run time, such as resolvers of promises,    *)
(* which keep their promise in a property.                                 *)
Kind == {"object", "array", "function", "native", "env", "weakmap", "promise", "settled"}

ASSUME HeapAssumption ==
    /\ IsFiniteSet(Cell)
    /\ Kinds \subseteq Kind \ {"settled"}
    /\ Slots \subseteq Slot
    /\ MaxEdges \in Nat /\ MaxGlobals \in Nat /\ MaxLocals \in Nat /\ MaxMinor \in Nat
    /\ NURSERY_THRESHOLD \in Nat \ {0}
    /\ GC_THRESHOLD \in Nat \ {0}
    /\ MAJOR_AFTER_MINOR \in Nat \ {0}

SlotsOf(k) ==
    CASE k = "object" -> {"field"}
      [] k = "array" -> {"field", "named"}
      [] k = "function" -> {"field", "closure", "accessor"}
      [] k = "native" -> {"field", "accessor"}
      [] k = "env" -> {"field"}
      [] k = "weakmap" -> {}
      [] k = "promise" -> {"field", "accessor", "reaction", "suspended"}
      [] k = "settled" -> {"field", "accessor", "value", "reason"}
      [] OTHER -> {}

(* What the collector follows (mark_value, mark_env), and what it clears   *)
(* of a cell it found unreachable (sweep).                                 *)
FollowedNotScopes == {"field", "value", "reason", "reaction"}   \* mutant
Followed == {"field", "closure", "value", "reason", "reaction"}
SeveredNotReactions == {"field", "suspended", "accessor"}   \* mutant
Severed == {"field", "reaction", "suspended", "accessor"}

VARIABLES
    phase,       \* "running" while a program or its jobs run, else "host"
    kind,        \* of each cell; "free" when its count is zero
    mem,         \* the references
    globals,     \* cells the global scope, jobs, timers and lists refer to
    locals,      \* cells the Rust stack holds for running user code
    result,      \* the value of the program, as a set of at most one cell
    generation,  \* of each registered cell
    nursery_len,
    minor_collections,
    gc_pressure,
    collected    \* ghost: the collection the last step ended with

counters == <<nursery_len, minor_collections, gc_pressure>>
vars == <<phase, kind, mem, globals, locals, result, generation,
          nursery_len, minor_collections, gc_pressure, collected>>

Held == globals \cup locals \cup result
Allocated == {c \in Cell : kind[c] # "free"}
Young == {c \in Cell : generation[c] = "young"}
Registered == {c \in Cell : generation[c] # "none"}
Reachable == Usable(mem, Held)

TypeOK ==
    /\ phase \in {"host", "running"}
    /\ kind \in [Cell -> Kind \cup {"free"}]
    /\ mem.edges \subseteq Edge /\ mem.entries \subseteq Entry
    /\ \A e \in mem.edges : e.slot \in SlotsOf(kind[e.from]) /\ e.to \in Allocated
    /\ \A n \in mem.entries : kind[n.map] = "weakmap" /\ n.value \in Allocated
    /\ Held \subseteq Allocated
    /\ generation \in [Cell -> {"none", "young", "tenured"}]
    /\ nursery_len \in Nat /\ gc_pressure \in Nat /\ minor_collections \in Nat
    /\ collected \in {"nothing", "minor", "major"}

Init ==
    /\ phase = "host"
    /\ kind = [c \in Cell |-> "free"]
    /\ mem = [edges |-> {}, entries |-> {}]
    /\ globals = {} /\ locals = {} /\ result = {}
    /\ generation = [c \in Cell |-> "none"]
    /\ nursery_len = 0 /\ minor_collections = 0 /\ gc_pressure = 0
    /\ collected = "nothing"

-----------------------------------------------------------------------------
(* Every step leaves a graph and the cells held, and Rust then drops what  *)
(* nothing refers to.  (`\E x \in {e}` gives e a name, as LET does, but has *)
(* TLC evaluate it once.)                                                  *)
Leave(m, held) ==
    \E alive \in {Alive(m, held)} :
        /\ mem' = Keep(m, alive)
        /\ kind' = [c \in Cell |-> IF c \in alive THEN kind[c] ELSE "free"]

InUse == Cardinality(mem.edges) + Cardinality(mem.entries)
Uncollected == collected' = "nothing" /\ UNCHANGED <<generation, counters>>

-----------------------------------------------------------------------------
(* User code.  Moving a reference is making it in the new place and then   *)
(* erasing it in the old one.                                              *)

(* The allocator hands out an address when no weak reference is left to    *)
(* the cell that was there: neither in a registry nor as a weak key.       *)
FreeCells ==
    {c \in Cell : /\ kind[c] = "free" /\ generation[c] = "none"
                  /\ \A n \in mem.entries : n.key # c}

(* Creating a cell registers it, but for the native functions made at run  *)
(* time and some arrays and objects that built-ins make (Object.keys).     *)
Births(k) ==
    CASE k = "native" -> {"none"}
      [] k \in {"object", "array"} -> {"none", "young"}
      [] OTHER -> {"young"}

Register(c, birth) ==
    /\ generation' = [generation EXCEPT ![c] = birth]
    /\ IF birth = "young"
       THEN nursery_len' = nursery_len + 1 /\ gc_pressure' = gc_pressure + 1
       ELSE UNCHANGED <<nursery_len, gc_pressure>>

(* A function keeps the scope it is created in (or the global one, which   *)
(* is no cell here).                                                       *)
NewCell(c, k, scope) ==
    /\ kind' = [kind EXCEPT ![c] = k]
    /\ mem' = [mem EXCEPT !.edges =
                 @ \cup {[from |-> c, slot |-> "closure", to |-> e] : e \in scope}]
    /\ locals' = locals \cup {c}
    /\ \E birth \in Births(k) : Register(c, birth)
    /\ collected' = "nothing"
    /\ UNCHANGED <<phase, globals, result, minor_collections>>

Running == phase = "running"

New == Running /\ Cardinality(locals) < MaxLocals /\
    \E c \in FreeCells, k \in Kinds :
      \/ NewCell(c, k, {})
      \/ /\ k = "function" /\ "closure" \in Slots /\ InUse < MaxEdges
         /\ \E e \in Reachable : kind[e] = "env" /\ NewCell(c, k, {e})

Change(m) ==
    /\ Leave(m, Held)
    /\ Uncollected
    /\ UNCHANGED <<phase, globals, locals, result>>

(* A property, element, binding, handler, accessor or continuation. *)
Store == Running /\
    \E a, b \in Reachable, s \in Slots \ {"closure", "value", "reason"} :
      /\ s \in SlotsOf(kind[a])
      /\ s = "suspended" => kind[b] = "env"
      /\ InUse < MaxEdges
      /\ mem' = [mem EXCEPT !.edges = @ \cup {[from |-> a, slot |-> s, to |-> b]}]
      /\ Uncollected
      /\ UNCHANGED <<phase, kind, globals, locals, result>>

Erase == Running /\
    \E e \in mem.edges :
      /\ e.slot \in {"field", "named", "accessor"} /\ e.from \in Reachable
      /\ Change([mem EXCEPT !.edges = @ \ {e}])

(* A promise settles: its reactions go to the job queue and run.  It is    *)
(* never fulfilled with a promise, but it may be rejected with one.        *)
Waiting(p) == {e \in mem.edges : e.from = p /\ e.slot \in {"reaction", "suspended"}}

SettleWith(p, s, v, taken) ==
    /\ kind[p] = "promise"
    /\ s = "value" => kind[v] \notin {"promise", "settled"}
    /\ InUse < MaxEdges + Cardinality(taken)
    /\ \E m \in {[mem EXCEPT !.edges =
                   (@ \ taken) \cup {[from |-> p, slot |-> s, to |-> v]}]} :
       \E alive \in {Alive(m, Held)} :
         /\ mem' = Keep(m, alive)
         /\ kind' = [c \in Cell |-> IF c \in alive
                                    THEN [kind EXCEPT ![p] = "settled"][c] ELSE "free"]
    /\ Uncollected
    /\ UNCHANGED <<phase, globals, locals, result>>

SettleKeepsReactions == Running /\   \* mutant
    \E p, v \in Reachable, s \in Slots \cap {"value", "reason"} : SettleWith(p, s, v, {})

Settle == Running /\
    \E p, v \in Reachable, s \in Slots \cap {"value", "reason"} :
        SettleWith(p, s, v, Waiting(p))

WeakMapSet == Running /\
    \E w, k, v \in Reachable :
      /\ kind[w] = "weakmap"
      /\ InUse < MaxEdges
      /\ Change([mem EXCEPT !.entries =
           {n \in @ : ~(n.map = w /\ n.key = k)} \cup {[map |-> w, key |-> k, value |-> v]}])

WeakMapDelete == Running /\
    \E n \in mem.entries :
      /\ {n.map, n.key} \subseteq Reachable
      /\ Change([mem EXCEPT !.entries = @ \ {n}])

(* Assigning a global variable, queueing or finishing a job or timer. *)
Globally ==
    /\ Running
    /\ \/ /\ Cardinality(globals) < MaxGlobals
          /\ \E c \in Reachable \ globals : globals' = globals \cup {c}
       \/ \E c \in globals : globals' = globals \ {c}
    /\ Leave(mem, globals' \cup locals \cup result)
    /\ Uncollected
    /\ UNCHANGED <<phase, locals, result>>

(* Reading a value onto the Rust stack, and dropping it. *)
Locally ==
    /\ Running
    /\ \/ /\ Cardinality(locals) < MaxLocals
          /\ \E c \in Reachable \ locals : locals' = locals \cup {c}
       \/ \E c \in locals : locals' = locals \ {c}
    /\ Leave(mem, globals \cup locals' \cup result)
    /\ Uncollected
    /\ UNCHANGED <<phase, globals, result>>

-----------------------------------------------------------------------------
(* The collector.                                                          *)

(* What can be reached from some cells by the references in some slots and *)
(* through weak maps, whose values are followed without their keys.        *)
Reach(m, slots, from) ==
    LET closed == {S \in SUBSET Cell :
                     /\ from \subseteq S
                     /\ \A e \in Edges(m, slots) : e.from \in S => e.to \in S
                     /\ \A n \in m.entries : n.map \in S => n.value \in S}
    IN  {c \in Cell : \A S \in closed : c \in S}

Marked(roots) == Reach(mem, Followed, roots)

Without(m, cells) ==
    [m EXCEPT !.edges = {e \in @ : e.from \in cells => e.slot \notin Severed}]

(* Weak maps that are registered lose the entries whose key is gone, and   *)
(* all of them if unreachable.  Dropping the value of an entry may be what *)
(* kills another key; whether that entry goes too depends on the order     *)
(* they are visited in.                                                    *)
Prunes(m, gone, doomed, held) ==
    /\ gone \subseteq {n \in m.entries : n.map \in Registered}
    /\ \A n \in m.entries :
         n.map \in doomed \/ (n.map \in Registered /\ n.key \notin Alive(m, held))
            => n \in gone
    /\ \A n \in gone :
         \/ n.map \in doomed
         \/ n.key \notin Alive([m EXCEPT !.entries = @ \ gone], held)

(* What a collection finds unreachable: any unmarked cell, or only the     *)
(* young ones.  Registered cells whose count is zero are not looked at.    *)
Doomed(which, marked) ==
    {c \in (Allocated \cap Registered) \ marked : which = "minor" => c \in Young}

(* Survivors are tenured.  A tenured cell that dies in a minor collection  *)
(* after its turn stays registered until the next one.                     *)
Promote(doomed, alive) ==
    \E stale \in SUBSET ((Allocated \cap Registered) \ (doomed \cup alive)) :
        generation' = [c \in Cell |->
            IF c \in ((Registered \ doomed) \cap alive) \cup stale
            THEN "tenured" ELSE "none"]

(* Mutant: cells that are already dead are forgotten but not counted. *)
CountAlive(which) ==
    /\ collected' = which
    /\ nursery_len' = nursery_len - Cardinality(Young \cap Allocated)
    /\ IF which = "major"
       THEN minor_collections' = 0 /\ gc_pressure' = 0
       ELSE minor_collections' = minor_collections + 1 /\ UNCHANGED gc_pressure

Count(which) ==
    /\ collected' = which
    /\ nursery_len' = nursery_len - Cardinality(Young)
    /\ IF which = "major"
       THEN minor_collections' = 0 /\ gc_pressure' = 0
       ELSE minor_collections' = minor_collections + 1 /\ UNCHANGED gc_pressure

(* collect_kind and sweep, with `held` what is held outside the heap.      *)
(* Objects, arrays and functions are severed first, then weak maps are     *)
(* pruned, then promises and scopes are severed.                           *)
Collect(which, roots, held) ==
    \E doomed \in {Doomed(which, Marked(roots))} :
    \E late \in {{c \in doomed : kind[c] \in {"promise", "settled", "env"}}} :
    \E m1 \in {Dropped(Without(mem, doomed \ late), held)} :
    \E gone \in SUBSET m1.entries :
        /\ Prunes(m1, gone, doomed, held)
        /\ \E m2 \in {Dropped([m1 EXCEPT !.entries = @ \ gone], held)} :
           \E m3 \in {Without(m2, late)} :
               /\ Leave(m3, held)
               /\ Promote(doomed, Alive(m3, held))
        /\ Count(which)

(* The end of eval_program at depth 0. *)
WantsMajor ==
    \/ gc_pressure >= GC_THRESHOLD
    \/ minor_collections >= MAJOR_AFTER_MINOR /\ nursery_len >= NURSERY_THRESHOLD \div 2
WantsMinor == ~WantsMajor /\ nursery_len >= NURSERY_THRESHOLD

MaybeCollect(roots, held) ==
    \/ WantsMajor /\ Collect("major", roots, held)
    \/ WantsMinor /\ Collect("minor", roots, held)
    \/ ~WantsMajor /\ ~WantsMinor /\ Leave(mem, held) /\ Uncollected

-----------------------------------------------------------------------------
(* Evaluations.  The host keeps no value but the result of the last one,   *)
(* and that at most until it starts another.                               *)

StartEval ==
    /\ phase = "host"
    /\ phase' = "running" /\ result' = {}
    /\ Leave(mem, globals)
    /\ Uncollected
    /\ UNCHANGED <<globals, locals>>

(* The program and the jobs and timers after it are done.  Its value is a  *)
(* root of the collection that may follow.                                 *)
FinishEval ==
    /\ Running
    /\ phase' = "host" /\ locals' = {}
    /\ \E r \in {{}} \cup {{c} : c \in Reachable} : \E held \in {globals \cup r} :
         result' = r /\ MaybeCollect(held, held)
    /\ UNCHANGED globals

(* eval called by a job or a timer: eval_depth is 0 there, so it collects  *)
(* when it returns, with its own value as the only one that is safe.  What *)
(* the Rust stack holds then, the value of the outer program included, is  *)
(* in `locals`.                                                            *)
FinishEvalInJob ==
    /\ Running
    /\ \E r \in {{}} \cup {{c} : c \in Reachable} : \E held \in {Held \cup r} :
         /\ locals' = locals \cup r
         /\ Cardinality(locals') <= MaxLocals
         /\ MaybeCollect(globals \cup r, held)
    /\ UNCHANGED <<phase, globals, result>>

(* collect_garbage and collect_minor, called by the host, which may still  *)
(* hold the last result.  They are called with no extra root.              *)
HostCollect ==
    /\ phase = "host"
    /\ \E r \in {{}, result} : \E held \in {globals \cup r} :
         /\ result' = r
         /\ \/ Collect("major", globals, held)
            \/ minor_collections < MaxMinor /\ Collect("minor", globals, held)
    /\ UNCHANGED <<phase, globals, locals>>

UserCode == New \/ Store \/ Erase \/ Settle \/ WeakMapSet \/ WeakMapDelete
              \/ Globally \/ Locally
Engine == StartEval \/ FinishEval \/ FinishEvalInJob \/ HostCollect
Next == UserCode \/ Engine
Spec == Init /\ [][Next]_vars

-----------------------------------------------------------------------------
(* Properties.                                                             *)

(* Nothing a program can get at changes under it but by what it does, and  *)
(* a collection takes nothing from what can be traced from its roots: from *)
(* all that is held when the outermost program returns, else from what the *)
(* engine holds and the value returned.  (gc.rs: "Surviving objects are    *)
(* exactly those reachable from the engine's roots".)  Excepted are, by    *)
(* Missed and Safe of HeapSpec, what hangs on a named property of an       *)
(* array, an accessor or a suspended function alone, and what only a job's *)
(* stack or the host holds when a collection runs.                         *)
Promised == INSTANCE HeapSpec WITH roots <- globals, held <- Held, seen <- Seen(mem, Held)
KeepsReachable == Promised!Spec

(* What the comments of gc.rs say: a collection runs at a safe point, so   *)
(* it severs no cell, and drops no weak map entry, that can be got at.     *)
OnlyGarbageSevered ==
    [][collected' # "nothing" => Spares(mem, mem', Usable(mem, Held'))]_vars

(* A major collection reclaims what cannot be reached, "including complete *)
(* reference cycles" (gc.rs), whatever earlier minor collections severed   *)
(* or skipped.  What it leaves could be reached before it, or hangs on a   *)
(* cell no collection severs: one with a named property or rejected with   *)
(* another cell, or one that is not registered, or not any more, and       *)
(* refers to another as more than its scope or value.                      *)
Stuck ==
    {e.from : e \in {x \in mem.edges :
        \/ x.slot \in {"named", "reason"}
        \/ generation[x.from] = "none" /\ x.slot \notin {"closure", "value"}}}
      \cup {n.map : n \in {x \in mem.entries : generation[x.map] = "none"}}
NothingLeaks ==
    [][collected' = "major" =>
         Allocated' \subseteq Reach(mem, Slot, Held') \cup Reach(mem', Slot, Stuck)]_vars

(* The counter of young cells, which decides when to collect, is exact     *)
(* whatever cells died before, during or between collections.              *)
NurseryExact == nursery_len = Cardinality(Young)
=============================================================================
