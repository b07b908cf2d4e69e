---------------------------- MODULE MCCombinators ----------------------------
(* Instances of Combinators for TLC: the sets of combinators called. *)
EXTENDS Combinators

Every == AllKinds

(* The first call has up to one element, the second up to two. *)
OneThenTwo == <<1, 2>>
===============================================================================
