------------------------------ MODULE Generators ------------------------------
(***************************************************************************)
(* Generator objects (builtins/generator.rs, and run_generator_body and    *)
(* yield in interpreter/exec.rs).  The first next runs the whole body; a   *)
(* yield in it only puts the value into the engine's one yield_sink.  Then *)
(* each next hands out one of the values.  A body is user code: it may     *)
(* drive any generator, its own included.                                  *)
(***************************************************************************)
EXTENDS Integers, Sequences, SequencesExt

CONSTANTS
    Gens,          \* generator objects
    MaxYields,     \* how many values a sink holds
    MaxBodies      \* how many bodies run at a time

ASSUME GeneratorAssumption == MaxYields \in Nat /\ MaxBodies \in Nat

VARIABLES
    gens,          \* __gen_started__, __gen_values__ and __gen_index__ of each
    bodies,        \* the bodies that run, the innermost last
    sink,          \* yield_sink: which of them gets what is yielded; 0 is None
    \* ghosts:
    given,         \* what each generator handed out
    owed,          \* what its body yielded, or what was given when it was closed
    disturbed      \* those driven or closed in their own body

generatorVars == <<gens, bodies, sink, given, owed, disturbed>>

Fresh == [started |-> FALSE, values |-> <<>>, index |-> 0]

GeneratorsInit ==
    /\ gens = [g \in Gens |-> Fresh]
    /\ bodies = <<>> /\ sink = 0
    /\ given = [g \in Gens |-> <<>>] /\ owed = [g \in Gens |-> <<>>]
    /\ disturbed = {}

-----------------------------------------------------------------------------
(* A body has its own sink, and puts back the one before it.               *)
Body(g) == [gen |-> g, out |-> <<>>, prev |-> sink]
Within(g) == \E i \in DOMAIN bodies : bodies[i].gen = g
Innermost == bodies[Len(bodies)]

(* Of those disturbed nothing more is recorded. *)
Disturb(set) ==
    /\ disturbed' = disturbed \cup set
    /\ given' = [h \in Gens |-> IF h \in set THEN <<>> ELSE given[h]]
    /\ owed' = [h \in Gens |-> IF h \in set THEN <<>> ELSE owed[h]]

(* gen_next_value, on the generator's record r. *)
Advanced(r) == [started |-> r.started, values |-> r.values, index |-> r.index + 1]
HandOut(g, r) ==
    IF r.index < Len(r.values)
    THEN /\ gens' = [gens EXCEPT ![g] = Advanced(r)]
         /\ given' = IF g \in disturbed THEN given
                     ELSE [given EXCEPT ![g] = Append(@, r.values[r.index + 1])]
    ELSE gens' = [gens EXCEPT ![g] = r] /\ UNCHANGED given

(* gen_next. *)
NextFirst(g) ==
    /\ ~gens[g].started /\ Len(bodies) < MaxBodies
    /\ bodies' = Append(bodies, Body(g))
    /\ sink' = Len(bodies) + 1
    /\ Disturb({h \in {g} : Within(h)})
    /\ UNCHANGED gens

NextAgain(g) ==
    /\ gens[g].started
    /\ HandOut(g, gens[g])
    /\ UNCHANGED <<bodies, sink, owed, disturbed>>

Ran(r, out) == [started |-> TRUE, values |-> out, index |-> r.index]

(* How a body ends makes no difference: what it throws is dropped. *)
RestoredNone(body) == 0     \* mutant
Restored(body) == body.prev
BodyEnds ==
    /\ bodies # <<>>
    /\ HandOut(Innermost.gen, Ran(gens[Innermost.gen], Innermost.out))
    /\ sink' = Restored(Innermost)
    /\ bodies' = Front(bodies)
    /\ UNCHANGED <<owed, disturbed>>

(* The value says whose it is and which: the number of those before it.    *)
(* Without a sink the value is not kept.                                   *)
Kept(b, item) == [gen |-> b.gen, out |-> Append(b.out, item), prev |-> b.prev]
Yielded == <<Innermost.gen, Len(owed[Innermost.gen])>>
Yield ==
    /\ bodies # <<>> /\ (sink # 0 => Len(bodies[sink].out) < MaxYields)
    /\ bodies' = [i \in DOMAIN bodies |->
          IF i = sink THEN Kept(bodies[i], Yielded) ELSE bodies[i]]
    /\ owed' = IF Innermost.gen \in disturbed THEN owed
               ELSE [owed EXCEPT ![Innermost.gen] = Append(@, Yielded)]
    /\ UNCHANGED <<gens, sink, given, disturbed>>

(* gen_return and gen_throw. *)
Close(g) ==
    /\ gens' = [gens EXCEPT ![g] = [started |-> TRUE, values |-> <<>>, index |-> 0]]
    /\ IF Within(g) THEN Disturb({g})
       ELSE owed' = [owed EXCEPT ![g] = given[g]] /\ UNCHANGED <<given, disturbed>>
    /\ UNCHANGED <<bodies, sink>>

GeneratorsNext ==
    \/ \E g \in Gens : NextFirst(g) \/ NextAgain(g) \/ Close(g)
    \/ Yield \/ BodyEnds

GeneratorsSpec == GeneratorsInit /\ [][GeneratorsNext]_generatorVars

-----------------------------------------------------------------------------
Item == Gens \X Nat
GenRec == [started : BOOLEAN, values : Seq(Item), index : Nat]
BodyRec == [gen : Gens, out : Seq(Item), prev : Nat]
GeneratorsTypeOK ==
    /\ gens \in [Gens -> GenRec] /\ bodies \in Seq(BodyRec)
    /\ sink \in Nat
    /\ given \in [Gens -> Seq(Item)] /\ owed \in [Gens -> Seq(Item)]
    /\ disturbed \subseteq Gens

(* What a generator has not handed out yet. *)
Rest(r) == SubSeq(r.values, r.index + 1, Len(r.values))

(***************************************************************************)
(* Whatever bodies drive one another, what a generator handed out and what *)
(* it still has are together what its own body yielded, in that order, and *)
(* once it was closed it has nothing more.                                 *)
(***************************************************************************)
OwnYields ==
    \A g \in Gens : g \notin disturbed /\ gens[g].started =>
        given[g] \o Rest(gens[g]) = owed[g]
===============================================================================
