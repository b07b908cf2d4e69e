------------------------------ MODULE HeapSpec ------------------------------
(***************************************************************************)
(* What the memory of the engine promises a program: nobody but the        *)
(* program changes what it can get at, and a collection spares what it can *)
(* trace from the engine's roots (gc.rs: "Surviving objects are exactly    *)
(* those reachable from the engine's roots").  There are no marks, counts  *)
(* and generations here.                                                   *)
(***************************************************************************)
EXTENDS Memory

VARIABLES
    phase,      \* "host" while no program runs
    roots,      \* the cells the engine itself holds
    held,       \* those, and what programs and the host hold
    seen,       \* the part of the graph that can be reached from them
    collected   \* the collection the last step ended with, or "nothing"

Init ==
    /\ phase = "host"
    /\ roots = {} /\ held = {}
    /\ seen = [edges |-> {}, entries |-> {}]
    /\ collected = "nothing"

(* One operation of a program changes what one cell refers to, or creates  *)
(* that cell.  What can no longer be reached because of it is gone.        *)
Differ(old, new) == (old \ new) \cup (new \ old)

ProgramStep(old, new) ==
    /\ phase # "host" /\ phase' = phase
    /\ collected' = "nothing"
    /\ \E usable \in {Usable(new, held')}, c \in Cell :
         /\ \A e \in Differ(old.edges, new.edges) :
               e.from = c \/ e.from \notin usable
         /\ \A n \in Differ(old.entries, new.entries) :
               n.map = c \/ ~({n.map, n.key} \subseteq usable)
         /\ held' \subseteq Usable(old, held) \cup {c}

(* Whatever else happens without a collection - a program starts, returns  *)
(* its result, goes on to the next job - only lets go of some cells.       *)
LetGo(old, new) ==
    /\ collected' = "nothing"
    /\ held' \subseteq Usable(old, held)
    /\ new = Seen(old, held')

(* A collection takes references away, and none from what it can trace     *)
(* from the roots and from the value that is just being returned.  When    *)
(* the outermost program returns, that is all there is.                    *)
Safe == IF phase' # phase THEN held' ELSE roots \cup (held' \ held)

Collect(old, new) ==
    /\ collected' # "nothing" /\ roots' = roots
    /\ held' \subseteq Usable(old, held)
    /\ new.edges \subseteq old.edges /\ new.entries \subseteq old.entries
    /\ Spares(old, new, Traced(old, Safe))

Next == \E old \in {seen}, new \in {seen'} :
            ProgramStep(old, new) \/ LetGo(old, new) \/ Collect(old, new)
Spec == Init /\ [][Next]_<<phase, roots, held, seen, collected>>
=============================================================================
