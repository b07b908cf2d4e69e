----------------------------- MODULE MCObjects -----------------------------
(* Three holders with one key: the objects h2 and h3, and h1, an object,   *)
(* an array or a promise, whose prototype is h2 and which, as an array or  *)
(* a promise, may fall back to h2.                                         *)
EXTENDS Objects

CONSTANTS h1, h2, h3, v1, f1

ThreeHolders == {h1, h2, h3}
ObjectFirst ==
  {[h \in ThreeHolders |-> IF h = h1 THEN k ELSE "object"] :
     k \in {"object", "array", "promise"}}
UnderSecond == {[h \in ThreeHolders |-> IF h = h1 THEN h2 ELSE None]}
BuiltIn == [k \in Kinds |-> IF k \in {"array", "promise"} THEN h2 ELSE None]
OneKey == <<"k">>
TwoVals == {Undef, v1}
OneFn == {f1}

Desc(val, w, e, c, g, s) ==
  [hasValue |-> val # NoFn, value |-> IF val = NoFn THEN Undef ELSE val,
   writable |-> w, enumerable |-> e, configurable |-> c, get |-> g, set |-> s]

(* A fixed value, a hidden one, accessors of the two kinds and an empty descriptor. *)
SomeDescriptors ==
  {Desc(v1, FALSE, TRUE, FALSE, NoFn, NoFn),
   Desc(v1, TRUE, FALSE, TRUE, NoFn, NoFn),
   Desc(NoFn, FALSE, TRUE, TRUE, f1, NoFn),
   Desc(NoFn, FALSE, TRUE, FALSE, NoFn, f1),
   Desc(NoFn, FALSE, FALSE, FALSE, NoFn, NoFn)}
=============================================================================
