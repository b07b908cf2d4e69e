------------------------------- MODULE Scopes -------------------------------
(***************************************************************************)
(* The environments of src/src/environment.rs, and how declarations get    *)
(* into them.  A scope is a record of its variables, the scope around it,  *)
(* whether `var` stops at it, and the names it holds as constants.  All    *)
(* scopes of a program stand in one sequence, envs, and a scope is known   *)
(* by its index there (an Rc in the code): a scope is never taken out      *)
(* while a closure or a suspended function may still use it.               *)
(***************************************************************************)
EXTENDS Naturals, Sequences, FiniteSets

NoScope == 0

Undef == <<"undef">>

Scope(outer, isFunction) ==
  [vars |-> <<>>, outer |-> outer, function |-> isFunction, constants |-> {}]

NewGlobal == Scope(NoScope, TRUE)

(***************************************************************************)
(* Adding a scope returns the longer sequence: its index is the new length *)
(***************************************************************************)
NewChild(envs, outer) == Append(envs, Scope(outer, TRUE))
NewBlock(envs, outer) == Append(envs, Scope(outer, FALSE))

Holds(envs, e, name) == name \in DOMAIN envs[e].vars

(***************************************************************************)
(* Bind name in scope e itself, whatever the scopes around it hold.        *)
(***************************************************************************)
Bind(envs, e, name, v) ==
  [envs EXCEPT ![e].vars =
     [n \in DOMAIN @ \cup {name} |-> IF n = name THEN v ELSE @[n]]]

RECURSIVE FunctionScope(_, _)
FunctionScope(envs, e) ==
  IF envs[e].function \/ envs[e].outer = NoScope
    THEN e
    ELSE FunctionScope(envs, envs[e].outer)

(***************************************************************************)
(* The innermost scope from e outwards that holds name, NoScope if none.   *)
(***************************************************************************)
RECURSIVE Owner(_, _, _)
Owner(envs, e, name) ==
  IF e = NoScope \/ Holds(envs, e, name)
    THEN e
    ELSE Owner(envs, envs[e].outer, name)

IsBound(envs, e, name) == Owner(envs, e, name) # NoScope

Get(envs, e, name) == envs[Owner(envs, e, name)].vars[name]

BindingIsConst(envs, e, name) ==
  /\ IsBound(envs, e, name)
  /\ name \in envs[Owner(envs, e, name)].constants

RECURSIVE Outermost(_, _)
Outermost(envs, e) ==
  IF envs[e].outer = NoScope THEN e ELSE Outermost(envs, envs[e].outer)

(***************************************************************************)
(* Assignment: the scope that holds the name, else the outermost one.      *)
(***************************************************************************)
Set(envs, e, name, v) ==
  Bind(envs,
       IF IsBound(envs, e, name) THEN Owner(envs, e, name)
                                 ELSE Outermost(envs, e),
       name, v)

-----------------------------------------------------------------------------
(***************************************************************************)
(* The names of patterns and of declarations.                              *)
(***************************************************************************)
RECURSIVE PatternIdents(_)
PatternIdents(p) ==
  CASE p.t = "pid"  -> {p.name}
    [] p.t = "parr" -> UNION {PatternIdents(q) : q \in
                         {p.elems[i] : i \in DOMAIN p.elems}
                           \cup {p.rest[i] : i \in DOMAIN p.rest}}
    [] p.t = "pobj" -> UNION {PatternIdents(q) : q \in
                         {p.props[i].p : i \in DOMAIN p.props}
                           \cup {p.rest[i] : i \in DOMAIN p.rest}}
    [] p.t = "pdef" -> PatternIdents(p.p)
    [] p.t \in {"pmem", "phole"} -> {}

MarkConstIdents(envs, e, p) ==
  [envs EXCEPT ![e].constants = @ \cup PatternIdents(p)]

(***************************************************************************)
(* The names that `var` declares anywhere in ss, but for nested functions. *)
(* The heads of for-in and for-of do not count: the loop binds them.       *)
(***************************************************************************)
RECURSIVE CollectVarNames(_)
CollectVarNames(ss) ==
  UNION {LET s == ss[i] IN
    CASE s.t = "var" /\ s.kind = "var" ->
           UNION {PatternIdents(s.list[j].p) : j \in DOMAIN s.list}
      [] s.t = "block" -> CollectVarNames(s.body)
      [] s.t = "if" -> CollectVarNames(s.then) \cup CollectVarNames(s.else)
      [] s.t = "for" -> CollectVarNames(s.init) \cup CollectVarNames(s.body)
      [] s.t \in {"forin", "forof", "while", "dowhile"} ->
           CollectVarNames(s.body)
      [] s.t = "try" ->
           CollectVarNames(s.body)
             \cup UNION {CollectVarNames(s.catch[j].body) : j \in DOMAIN s.catch}
             \cup UNION {CollectVarNames(s.finally[j]) : j \in DOMAIN s.finally}
      [] s.t = "switch" ->
           UNION {CollectVarNames(s.cases[j].body) : j \in DOMAIN s.cases}
      [] s.t = "labeled" -> CollectVarNames(<<s.stmt>>)
      [] OTHER -> {}
    : i \in DOMAIN ss}

(***************************************************************************)
(* Names that `var` declares start as undefined in the function's scope,   *)
(* unless that scope already holds them.                                   *)
(***************************************************************************)
HoistVars(envs, e, ss) ==
  LET f == FunctionScope(envs, e)
      new == CollectVarNames(ss) \ DOMAIN envs[f].vars
  IN  [envs EXCEPT ![f].vars =
         [n \in DOMAIN @ \cup new |-> IF n \in new THEN Undef ELSE @[n]]]
=============================================================================
