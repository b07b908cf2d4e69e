----------------------------- MODULE Evaluator -----------------------------
(***************************************************************************)
(* The tree-walking evaluator of src/src/interpreter/exec.rs: statements,  *)
(* expressions, patterns and calls, inside one async function that awaits. *)
(*                                                                         *)
(* Rust code cannot stop in the middle of a call, so an `await` unwinds    *)
(* the whole recursion with Error::Suspend, and every level on the way out *)
(* adds a closure that will do the rest of its work.  Here such a closure  *)
(* is a frame, a record that names the rest and holds what it captured; a  *)
(* suspended function is the sequence of its frames, innermost first.      *)
(*                                                                         *)
(* An evaluation returns [o |-> outcome, st |-> store].  An outcome is     *)
(*   k  "ok", "break", "continue", "return", "throw", "tail" (a proper     *)
(*      tail call), "fatal" (Error::Unimplemented) or "suspend"            *)
(*   v  its value (Empty for Rust's None; what is awaited, if suspended)   *)
(*   l  the label of a break or continue, "" for none                      *)
(*   c  the frames of a suspension                                         *)
(* The store has the scopes, functions, arrays and objects made so far,    *)
(* the log of what the program has done, and async, func_async_stack.  Two *)
(* fields are not in the code.  future: settlements that an await takes at *)
(* once, without suspending; it is empty in every run of the program and   *)
(* serves to say what the program should do (Direct, below).  declared:    *)
(* what each name was declared with by const, by its scope and the name.   *)
(***************************************************************************)
EXTENDS Scopes, SequencesExt

CONSTANTS
  Programs,   \* the async functions that may be called: [params, args, body]
  Values,     \* what a promise that is awaited may be fulfilled with
  Reasons,    \* what it may be rejected with
  KeyOrder,   \* property keys, in the order of a BTreeSet
  MaxAwaits,  \* bound on the number of awaits of one call
  Lossy,      \* programs Transparent does not speak of (see there)
  Unguarded   \* programs ConstantsKept does not speak of (see there)

ASSUME ExceptionsAreRun == Lossy \cup Unguarded \subseteq Programs

VARIABLES
  program,    \* the function
  status,     \* "idle", "waiting" for a promise, or "done"
  frames,     \* the suspended rest of it, <<>> unless waiting
  store,      \* see above
  outcome,    \* how its promise was settled, NoOutcome before that
  settled     \* the settlements it was resumed with so far

vars == <<program, status, frames, store, outcome, settled>>

NoOutcome == <<"none">>
Empty == <<"empty">>
TypeErr == <<"str", "TypeError">>
RefErr == <<"str", "ReferenceError">>

Num(n) == <<"num", n>>
Str(s) == <<"str", s>>
Bool(b) == <<"bool", b>>
NaN == <<"nan">>
Nullish(v) == v \in {Undef, <<"null">>}
Truthy(v) == ~Nullish(v) /\ v \notin {Num(0), NaN, Bool(FALSE), Str("")}
OrUndef(v) == IF v = Empty THEN Undef ELSE v

R(k, v, st) == [o |-> [k |-> k, v |-> v, l |-> "", c |-> <<>>], st |-> st]
Ok(v, st) == R("ok", v, st)
Throw(v, st) == R("throw", v, st)
IsOk(r) == r.o.k = "ok"
Suspended(r) == r.o.k = "suspend"
Jump(k, label, st) == [R(k, Empty, st) EXCEPT !.o.l = label]

(***************************************************************************)
(* One more frame for a suspension on its way out.                         *)
(***************************************************************************)
Push(r, f) == [r EXCEPT !.o.c = Append(@, f)]

(***************************************************************************)
(* Apply, at the end, does the rest that a frame stands for.  All mutual   *)
(* recursion goes through it: to evaluate a part of the program is to      *)
(* apply the frame that has the whole of the part still to do.             *)
(***************************************************************************)
RECURSIVE Apply(_, _)

Eval(x, env, st) == Apply([f |-> "expr", x |-> x, env |-> env], Ok(Undef, st))
Exec(s, env, st) == Apply([f |-> "stmt", s |-> s, env |-> env], Ok(Undef, st))
Run(ss, env, st) == Apply([f |-> "list", ss |-> ss, env |-> env], Ok(Undef, st))
Match(how, p, v, env, st) ==
  Apply([f |-> "default", how |-> how, p |-> p, env |-> env], Ok(v, st))
BindAndRun(params, args, env, body, st) ==
  Apply([f |-> "params", params |-> params, args |-> args, i |-> 1, env |-> env,
         body |-> body], Ok(Undef, st))
Invoke(func, this, args, st) ==
  Apply([f |-> "call", func |-> func, this |-> this], Ok(args, st))

RECURSIVE ExecStmtsFrom(_, _, _, _), EvalListFrom(_, _, _, _, _),
          BindParamsThenBody(_, _, _, _, _, _), BindElems(_, _, _, _, _, _),
          VarListRest(_, _, _, _, _), EvalVarList(_, _, _, _, _),
          SwitchStart(_, _, _, _, _, _), MaySuspend(_), Resume1(_, _)

(***************************************************************************)
(* chain_value and chain_stmts: f goes on with a normal outcome only.      *)
(* chain_outcome: f sees every outcome.  A suspension takes f along.       *)
(***************************************************************************)
Then(r, f) ==
  CASE IsOk(r)      -> Apply(f, r)
    [] Suspended(r) -> Push(r, f)
    [] OTHER        -> r

Always(r, f) == IF Suspended(r) THEN Push(r, f) ELSE Apply(f, r)

(***************************************************************************)
(* Frames that stand for a chain_value remainder turn an empty value into  *)
(* undefined, those of chain_stmts leave it; chain_outcome ones are All.   *)
(***************************************************************************)
AllFrames ==
  {"try", "finally", "label", "case", "whileBody", "doBody", "forBody",
   "arrayBody", "itemBody"}
StmtsFrames ==
  {"stmts", "return", "throw", "if", "ifPost", "keep", "varRest", "switch",
   "test", "forInit", "forCond", "forUpdate", "whileCond", "doCond",
   "forIn", "forOf"}

(***************************************************************************)
(* Resume the frames cs with the outcome r: what calling the composed      *)
(* closure does.  If one suspends again the frames after it are attached   *)
(* to the new suspension, in the same order.                               *)
(***************************************************************************)
Resume1(r, cs) ==
  CASE cs = <<>> -> r
    [] cs # <<>> /\ Suspended(r) -> [r EXCEPT !.o.c = @ \o cs]
    [] OTHER ->
         LET f == Head(cs)
             q == IF f.f \in AllFrames \cup StmtsFrames THEN r
                  ELSE [r EXCEPT !.o.v = OrUndef(@)]
         IN  Resume1(IF IsOk(r) \/ f.f \in AllFrames THEN Apply(f, q) ELSE r,
                     Tail(cs))

-----------------------------------------------------------------------------
(* Statement lists *)

(***************************************************************************)
(* Function declarations are bound in the list's own scope before anything *)
(* runs, then the names of `var` in the function's.                        *)
(***************************************************************************)
RECURSIVE HoistFunctions(_, _, _)
MakeFunction(params, body, env, st) ==
  [v |-> <<"fn", Len(st.funcs) + 1>>,
   st |-> [st EXCEPT !.funcs =
             Append(@, [params |-> params, body |-> body, closure |-> env])]]

HoistFunctions(ss, env, st) ==
  IF ss = <<>> THEN st
  ELSE IF Head(ss).t # "fndecl" THEN HoistFunctions(Tail(ss), env, st)
  ELSE LET f == MakeFunction(Head(ss).params, Head(ss).body, env, st)
       IN  HoistFunctions(Tail(ss), env,
             [f.st EXCEPT !.envs = Bind(@, env, Head(ss).name, f.v)])

Hoist(ss, env, st) ==
  LET h == HoistFunctions(ss, env, st)
  IN  [h EXCEPT !.envs = HoistVars(@, env, ss)]

ExecStmts(ss, env, st) == ExecStmtsFrom(ss, Empty, env, Hoist(ss, env, st))

ExecStmtsFrom(ss, last, env, st) ==
  IF ss = <<>> THEN Ok(last, st)
  ELSE LET r == Exec(Head(ss), env, st) IN
    CASE IsOk(r) ->
           ExecStmtsFrom(Tail(ss), IF r.o.v = Empty THEN last ELSE r.o.v,
                         env, r.st)
      [] r.o.k \in {"break", "continue"} /\ r.o.v = Empty ->
           [r EXCEPT !.o.v = last]
      [] Suspended(r) ->
           Push(r, [f |-> "stmts", rest |-> Tail(ss), last |-> last, env |-> env])
      [] OTHER -> r

(***************************************************************************)
(* A fresh block scope around env, with name bound in it if there is one.  *)
(***************************************************************************)
WithBlock(env, st) == [st EXCEPT !.envs = NewBlock(@, env)]
NewestScope(st) == Len(st.envs)

-----------------------------------------------------------------------------
(* if, try, labels, switch *)

IfPostprocess(r) ==
  CASE IsOk(r) -> [r EXCEPT !.o.v = OrUndef(@)]
    [] Suspended(r) -> Push(r, [f |-> "ifPost"])
    [] r.o.k \in {"break", "continue"} -> [r EXCEPT !.o.v = OrUndef(@)]
    [] OTHER -> r

(***************************************************************************)
(* Faulty: a finally that suspends forgets the outcome it came after.      *)
(***************************************************************************)
RunFinallyForgets(r, finally, env) ==
  IF finally = <<>> THEN r
  ELSE LET q == Run(finally[1], env, r.st) IN
    IF IsOk(q) THEN [r EXCEPT !.st = q.st] ELSE q

(***************************************************************************)
(* finally runs after every outcome; its own abrupt one replaces that.     *)
(***************************************************************************)
RunFinally(r, finally, env) ==
  IF finally = <<>> THEN r
  ELSE LET q == Run(finally[1], env, r.st) IN
    CASE IsOk(q) -> [r EXCEPT !.st = q.st]
      [] Suspended(q) -> Push(q, [f |-> "keep", outcome |-> r.o])
      [] OTHER -> q

(***************************************************************************)
(* Faulty: after a catch that suspended, finally runs on success only.     *)
(***************************************************************************)
TryPostprocessThen(r, catch, finally, env) ==
  CASE Suspended(r) ->
         Push(r, [f |-> "try", catch |-> catch, finally |-> finally, env |-> env])
    [] r.o.k = "throw" /\ catch # <<>> ->
         LET b == WithBlock(env, r.st)
             bound == [b EXCEPT !.envs =
                         Bind(@, NewestScope(b), catch[1].name, r.o.v)]
         IN  Then(Run(catch[1].body, NewestScope(b), bound),
                  [f |-> "finally", finally |-> finally, env |-> env])
    [] OTHER -> RunFinally(r, finally, env)

TryPostprocess(r, catch, finally, env) ==
  CASE Suspended(r) ->
         Push(r, [f |-> "try", catch |-> catch, finally |-> finally, env |-> env])
    [] r.o.k = "throw" /\ catch # <<>> ->
         LET b == WithBlock(env, r.st)
             bound == [b EXCEPT !.envs =
                         Bind(@, NewestScope(b), catch[1].name, r.o.v)]
         IN  Always(Run(catch[1].body, NewestScope(b), bound),
                    [f |-> "finally", finally |-> finally, env |-> env])
    [] OTHER -> RunFinally(r, finally, env)

LabeledPostprocess(r, label) ==
  CASE Suspended(r) -> Push(r, [f |-> "label", label |-> label])
    [] r.o.k \in {"break", "continue"} /\ r.o.l = label -> Ok(r.o.v, r.st)
    [] OTHER -> r

ExecSwitchCases(cases, env, i, v, st) ==
  IF i = 0 \/ i > Len(cases) THEN Ok(v, st)
  ELSE Always(Run(cases[i].body, env, st),
              [f |-> "case", cases |-> cases, env |-> env, i |-> i, v |-> v])

(***************************************************************************)
(* The selectors are compared in order until one matches; default is taken *)
(* only if none does.  sw has the cases and their scope, dflt the index of *)
(* default among the cases passed, 0 if none.                              *)
(***************************************************************************)
SwitchStart(d, cases, env, i, dflt, st) ==
  CASE i > Len(cases) -> ExecSwitchCases(cases, env, dflt, Undef, st)
    [] i <= Len(cases) /\ cases[i].test = <<>> ->
         SwitchStart(d, cases, env, i + 1, IF dflt = 0 THEN i ELSE dflt, st)
    [] OTHER ->
         Then(Eval(cases[i].test[1], env, st),
              [f |-> "test", d |-> d, cases |-> cases, env |-> env, i |-> i,
               dflt |-> dflt])

CaseDone(f, r) ==
  LET merged == IF r.o.v = Empty THEN f.v ELSE r.o.v IN
  CASE IsOk(r) -> ExecSwitchCases(f.cases, f.env, f.i + 1, merged, r.st)
    [] r.o.k = "break" /\ r.o.l = "" -> Ok(OrUndef(merged), r.st)
    [] r.o.k \in {"break", "continue"} -> [r EXCEPT !.o.v = merged]
    [] OTHER -> r

-----------------------------------------------------------------------------
(***************************************************************************)
(* Loops.  lp is the loop's statement with its own label added; v is the   *)
(* completion value so far.  LoopBodyStep folds one outcome of the body    *)
(* in: go on with value v, or finish with r.                               *)
(***************************************************************************)
LoopBodyStep(r, v, label) ==
  LET merged == IF r.o.v = Empty THEN v ELSE r.o.v
      mine == r.o.l = "" \/ r.o.l = label IN
  CASE IsOk(r) \/ (r.o.k = "continue" /\ mine) ->
         [next |-> TRUE, v |-> merged, r |-> r]
    [] r.o.k = "break" /\ mine ->
         [next |-> FALSE, v |-> v, r |-> Ok(OrUndef(merged), r.st)]
    [] r.o.k \in {"break", "continue"} /\ ~mine ->
         [next |-> FALSE, v |-> v, r |-> [r EXCEPT !.o.v = merged]]
    [] OTHER -> [next |-> FALSE, v |-> v, r |-> r]

WhileLoop(lp, env, v, st) ==
  Then(Eval(lp.cond[1], env, st),
       [f |-> "whileCond", lp |-> lp, env |-> env, v |-> v])

WhileCond(f, r) ==
  IF Truthy(OrUndef(r.o.v))
    THEN Always(Run(f.lp.body, f.env, r.st), [f EXCEPT !.f = "whileBody"])
    ELSE Ok(f.v, r.st)

WhileBody(f, r) ==
  LET s == LoopBodyStep(r, f.v, f.lp.label)
  IN  IF s.next THEN WhileLoop(f.lp, f.env, s.v, r.st) ELSE s.r

DoWhileLoop(lp, env, v, st) ==
  Always(Run(lp.body, env, st),
         [f |-> "doBody", lp |-> lp, env |-> env, v |-> v])

DoBody(f, r) ==
  LET s == LoopBodyStep(r, f.v, f.lp.label)
  IN  IF s.next THEN Then(Eval(f.lp.cond[1], f.env, r.st),
                          [f EXCEPT !.f = "doCond", !.v = s.v])
                ELSE s.r

DoCond(f, r) ==
  IF Truthy(OrUndef(r.o.v)) THEN DoWhileLoop(f.lp, f.env, f.v, r.st)
                            ELSE Ok(f.v, r.st)

(***************************************************************************)
(* for: `let` and `const` heads live in a scope of the loop's, and every   *)
(* round of the body gets a scope of its own with a copy of their values.  *)
(* The condition and the update work on the loop's scope.                  *)
(* ForSnapshot is a scope inside env that holds each of names with its     *)
(* present value.                                                          *)
(***************************************************************************)
ForSnapshot(env, names, st) ==
  IF names = {} THEN st
  ELSE LET b == WithBlock(env, st)
       IN  [b EXCEPT !.envs[NewestScope(b)].vars =
              [n \in names |-> IF IsBound(st.envs, env, n)
                                 THEN Get(st.envs, env, n) ELSE Undef]]

ForLoop(lp, env, names, v, st) ==
  LET f == [f |-> "forCond", lp |-> lp, env |-> env, names |-> names, v |-> v]
  IN  IF lp.cond = <<>> THEN Apply(f, Ok(Bool(TRUE), st))
                        ELSE Then(Eval(lp.cond[1], env, st), f)

ExecFor(lp, env, st) ==
  LET lexical == lp.init # <<>> /\ lp.init[1].t = "var"
                   /\ lp.init[1].kind # "var"
      outer == IF lexical THEN WithBlock(env, st) ELSE st
      le == IF lexical THEN NewestScope(outer) ELSE env
      names == IF lexical THEN UNION {PatternIdents(lp.init[1].list[i].p) :
                                        i \in DOMAIN lp.init[1].list}
                          ELSE {}
      f == [f |-> "forInit", lp |-> lp, env |-> le, names |-> names, v |-> Undef]
  IN  IF lp.init = <<>> THEN ForLoop(lp, le, names, Undef, st)
      ELSE Then(Exec(lp.init[1], le, outer), f)

ForCond(f, r) ==
  LET snap == ForSnapshot(f.env, f.names, r.st)
      be == IF f.names = {} THEN f.env ELSE NewestScope(snap)
  IN  IF Truthy(OrUndef(r.o.v))
        THEN Always(Run(f.lp.body, be, snap), [f EXCEPT !.f = "forBody"])
        ELSE Ok(f.v, r.st)

ForBodyStep(f, r) ==
  LET s == LoopBodyStep(r, f.v, f.lp.label)
  IN  CASE ~s.next -> s.r
        [] s.next /\ f.lp.update = <<>> ->
             ForLoop(f.lp, f.env, f.names, s.v, r.st)
        [] OTHER -> Then(Eval(f.lp.update[1], f.env, r.st),
                         [f EXCEPT !.f = "forUpdate", !.v = s.v])

(***************************************************************************)
(* What const has bound of the pattern p so far, noted in declared.        *)
(***************************************************************************)
Declare(r, scope, p) ==
  LET held == r.st.envs[scope].vars
      names == PatternIdents(p) \cap DOMAIN held
  IN  [r EXCEPT !.st.declared =
         [sn \in {scope} \X names |-> held[sn[2]]] @@ @]

(***************************************************************************)
(* for-in and for-of.  The head binds the item in a scope of the round's   *)
(* own, or, for `var`, in the function's.  An await in the head's pattern  *)
(* is an error of its own.                                                 *)
(***************************************************************************)
BindHead(lp, item, env, st) ==
  LET b == IF lp.kind = "var" THEN st ELSE WithBlock(env, st)
      at == IF lp.kind = "var" THEN FunctionScope(st.envs, env)
                               ELSE NewestScope(b)
      r == Match("bind", lp.p, item, at, b)
  IN  CASE Suspended(r) -> R("fatal", Undef, r.st)
        [] IsOk(r) /\ lp.kind = "const" ->
             [Declare(r, at, lp.p) EXCEPT !.st.envs = MarkConstIdents(@, at, lp.p)]
        [] OTHER -> r

BodyScope(lp, item, env, st) ==
  IF lp.kind = "var" THEN env ELSE Len(st.envs) + 1

RunRound(lp, item, env, st, f) ==
  LET bound == BindHead(lp, item, env, st)
  IN  IF ~IsOk(bound) THEN bound
      ELSE Always(Run(lp.body, BodyScope(lp, item, env, st), bound.st), f)

(***************************************************************************)
(* An array is read while the loop runs: its length is looked up anew      *)
(* before every round.  Anything else is listed before the first.          *)
(***************************************************************************)
ForOfArray(lp, a, k, env, v, st) ==
  IF k > Len(st.arrays[a]) THEN Ok(v, st)
  ELSE RunRound(lp, st.arrays[a][k], env, st,
         [f |-> "arrayBody", lp |-> lp, a |-> a, k |-> k, env |-> env, v |-> v])

ArrayBody(f, r) ==
  LET s == LoopBodyStep(r, f.v, f.lp.label)
  IN  IF s.next THEN ForOfArray(f.lp, f.a, f.k + 1, f.env, s.v, r.st) ELSE s.r

ForItems(lp, items, k, env, v, st) ==
  IF k > Len(items) THEN Ok(v, st)
  ELSE RunRound(lp, items[k], env, st,
         [f |-> "itemBody", lp |-> lp, items |-> items, k |-> k, env |-> env,
          v |-> v])

ItemBody(f, r) ==
  LET s == LoopBodyStep(r, f.v, f.lp.label)
  IN  IF s.next THEN ForItems(f.lp, f.items, f.k + 1, f.env, s.v, r.st) ELSE s.r

ForOf(f, r) ==
  LET v == OrUndef(r.o.v) IN
  CASE v[1] = "arr" -> ForOfArray(f.lp, v[2], 1, f.env, Undef, r.st)
    [] v[1] = "set" -> ForItems(f.lp, v[2], 1, f.env, Undef, r.st)
    [] OTHER -> Throw(TypeErr, r.st)

(***************************************************************************)
(* The keys of for-in come sorted from a BTreeSet; what is not an object   *)
(* has none.                                                               *)
(***************************************************************************)
EnumerableKeys(v, st) ==
  IF v[1] # "obj" THEN <<>>
  ELSE SelectSeq(KeyOrder, LAMBDA k : \E i \in DOMAIN st.objects[v[2]] :
                                        st.objects[v[2]][i][1] = k)

ForIn(f, r) ==
  LET keys == EnumerableKeys(OrUndef(r.o.v), r.st)
  IN  ForItems(f.lp, [i \in DOMAIN keys |-> Str(keys[i])], 1, f.env, Undef, r.st)

ExecLoop(s, label, env, st) ==
  LET lp == [label |-> label] @@ s IN
  CASE s.t = "while" -> WhileLoop(lp, env, Undef, st)
    [] s.t = "dowhile" -> DoWhileLoop(lp, env, Undef, st)
    [] s.t = "for" -> ExecFor(lp, env, st)
    [] s.t = "forof" -> Then(Eval(s.e, env, st),
                             [f |-> "forOf", lp |-> lp, env |-> env])
    [] s.t = "forin" -> Then(Eval(s.e, env, st),
                             [f |-> "forIn", lp |-> lp, env |-> env])

ExecLabeled(s, env, st) ==
  LabeledPostprocess(
    IF s.stmt.t \in {"while", "dowhile", "for", "forof", "forin"}
      THEN ExecLoop(s.stmt, s.label, env, st)
      ELSE Exec(s.stmt, env, st),
    s.label)

-----------------------------------------------------------------------------
(* Values, properties and calls *)

(***************************************************************************)
(* The values an array literal, an argument list or an array pattern takes *)
(* from v, and whether there are any.                                      *)
(***************************************************************************)
Iterable(v) == v[1] \in {"arr", "set"}
IterableValues(v, st) == IF v[1] = "arr" THEN st.arrays[v[2]] ELSE v[2]

NewArray(items, st) ==
  Ok(<<"arr", Len(st.arrays) + 1>>, [st EXCEPT !.arrays = Append(@, items)])

NewObject(props, st) ==
  Ok(<<"obj", Len(st.objects) + 1>>, [st EXCEPT !.objects = Append(@, props)])

Keyed(o, key) == {i \in DOMAIN o : o[i][1] = key}

OwnValue(o, key) ==
  IF Keyed(o, key) = {} THEN Undef ELSE o[CHOOSE i \in Keyed(o, key) : TRUE][2]

SetOwn(o, key, v) ==
  IF Keyed(o, key) = {} THEN Append(o, <<key, v>>)
  ELSE [i \in DOMAIN o |-> IF o[i][1] = key THEN <<key, v>> ELSE o[i]]

ToPropertyKey(v) ==
  CASE v[1] = "str" -> v[2]
    [] v[1] = "num" -> ToString(v[2])
    [] OTHER -> v[1]

(***************************************************************************)
(* The properties of v as an object.  Those of an array are its elements   *)
(* and its length, which thereby counts as one to copy, and an object made *)
(* to hold them: a pattern takes an array apart as it is now, an object as *)
(* it is when the property is read.                                        *)
(***************************************************************************)
HasProps(v) == v[1] \in {"obj", "arr"}
OwnProps(v, st) ==
  IF v[1] = "obj" THEN st.objects[v[2]]
  ELSE LET a == st.arrays[v[2]]
       IN  Append([i \in DOMAIN a |-> <<ToString(i - 1), a[i]>>],
                  <<"length", Num(Len(a))>>)

ToObject(v, st) ==
  IF v[1] = "obj" THEN Ok(v, st) ELSE NewObject(OwnProps(v, st), st)

GetProperty(base, key, st) ==
  CASE base[1] = "obj" -> OwnValue(st.objects[base[2]], key)
    [] base[1] = "arr" /\ key = "push" -> <<"native", "push">>
    [] base[1] = "arr" /\ key # "push" -> OwnValue(OwnProps(base, st), key)
    [] OTHER -> Undef

GetMember(base, key, st) ==
  IF Nullish(base) THEN Throw(TypeErr, st) ELSE Ok(GetProperty(base, key, st), st)

(***************************************************************************)
(* Bind the parameters from the i-th on, then run the body.                *)
(***************************************************************************)
BindParamsThenBody(params, args, i, env, body, st) ==
  IF i > Len(params) THEN Run(body, env, st)
  ELSE LET r == Match("bind", params[i],
                            IF i <= Len(args) THEN args[i] ELSE Undef, env, st)
       IN  Then(r, [f |-> "params", params |-> params, args |-> args, i |-> i + 1,
                    env |-> env, body |-> body])

(***************************************************************************)
(* A user function runs in a new scope inside its closure, with `await`    *)
(* off.  Its value is what it returns, or else its completion value.  A    *)
(* proper tail call replaces it by the function called.                    *)
(***************************************************************************)
RunBody(func, args, st) ==
  LET fn == st.funcs[func[2]]
  IN  BindAndRun(fn.params, args, Len(st.envs) + 1, fn.body,
        [st EXCEPT !.envs = NewChild(@, fn.closure), !.async = Append(@, FALSE)])

Finish(r) ==
  CASE r.o.k = "ok"     -> Ok(OrUndef(r.o.v), r.st)
    [] r.o.k = "return" -> Ok(r.o.v, r.st)
    [] r.o.k = "tail"   -> Invoke(r.o.v[1], Undef, r.o.v[2], r.st)
    [] OTHER -> r

(***************************************************************************)
(* Faulty: a throw leaves before func_async_stack is popped.               *)
(***************************************************************************)
CallNormalNoPop(func, args, st) ==
  LET ran == RunBody(func, args, st)
  IN  IF ran.o.k = "throw" THEN ran
                           ELSE Finish([ran EXCEPT !.st.async = Front(@)])

CallNormal(func, args, st) ==
  Finish([RunBody(func, args, st) EXCEPT !.st.async = Front(@)])

(***************************************************************************)
(* The natives are those the programs observe with: log(v) and a.push(v).  *)
(***************************************************************************)
CallFunction(func, this, args, st) ==
  LET arg == IF args = <<>> THEN Undef ELSE args[1] IN
  CASE func = <<"native", "log">> ->
         Ok(arg, [st EXCEPT !.log = Append(@, arg)])
    [] func = <<"native", "push">> ->
         Ok(Num(Len(st.arrays[this[2]]) + 1),
            [st EXCEPT !.arrays[this[2]] = Append(@, arg)])
    [] func[1] = "fn" -> CallNormal(func, args, st)
    [] OTHER -> Throw(TypeErr, st)

-----------------------------------------------------------------------------
(* Expressions *)

Items(args) == {args[i].e : i \in {j \in DOMAIN args : args[j].t # "hole"}}

MaySuspend(x) ==
  CASE x.t = "await" -> TRUE
    [] x.t = "member" -> MaySuspend(x.obj) \/ \E i \in DOMAIN x.idx : MaySuspend(x.idx[i])
    [] x.t = "call" -> MaySuspend(x.callee) \/ \E a \in Items(x.args) : MaySuspend(a)
    [] x.t \in {"seq", "array"} -> \E a \in Items(x.items) : MaySuspend(a)
    [] x.t \in {"bin", "logic"} -> MaySuspend(x.left) \/ MaySuspend(x.right)
    [] x.t = "cond" -> MaySuspend(x.c) \/ MaySuspend(x.a) \/ MaySuspend(x.b)
    [] x.t = "assign" -> (x.target.t = "expr" /\ MaySuspend(x.target.e))
                           \/ MaySuspend(x.e)
    [] x.t = "object" -> \E i \in DOMAIN x.props :
                           \/ MaySuspend(x.props[i].e)
                           \/ \E j \in DOMAIN x.props[i].key : MaySuspend(x.props[i].key[j])
    [] x.t \in {"lit", "id", "fn"} -> FALSE

(***************************************************************************)
(* Evaluate items from the first on, acc being the values so far; then     *)
(* next goes on with all of them.  Arguments, sequences and array elements *)
(* are evaluated alike.                                                    *)
(***************************************************************************)
EvalListFrom(items, acc, env, next, st) ==
  IF items = <<>> THEN Apply(next, Ok(acc, st))
  ELSE IF Head(items).t = "hole"
    THEN EvalListFrom(Tail(items), Append(acc, Undef), env, next, st)
    ELSE Then(Eval(Head(items).e, env, st),
              [f |-> "item", spread |-> Head(items).t = "spread",
               rest |-> Tail(items), acc |-> acc, env |-> env, next |-> next])

ListItem(f, r) ==
  CASE ~f.spread ->
         EvalListFrom(f.rest, Append(f.acc, r.o.v), f.env, f.next, r.st)
    [] f.spread /\ Iterable(r.o.v) ->
         EvalListFrom(f.rest, f.acc \o IterableValues(r.o.v, r.st), f.env,
                      f.next, r.st)
    [] OTHER -> Throw(TypeErr, r.st)

(***************************************************************************)
(* A call evaluates its callee, looks the function up, evaluates the       *)
(* arguments and calls; how is "call", or "tail" for `return f()`, which   *)
(* leaves a call of a user function to whoever called this one.            *)
(* A call that cannot suspend stops at a nullish base if the call or the   *)
(* member is optional; one that can checks only the call's own mark, and   *)
(* evaluates the base for that check and then again.                       *)
(***************************************************************************)
EvalCallee(x, how, short, env, st) ==
  LET f == [f |-> "callee", x |-> x, how |-> how, env |-> env,
            short |-> short /\ (x.opt \/ (x.callee.t = "member" /\ x.callee.opt))]
  IN  IF x.callee.t = "member"
        THEN Then(Eval(x.callee.obj, env, st), [f EXCEPT !.f = "base"])
        ELSE Then(Eval(x.callee, env, st), f)

EvalCall(x, env, st) ==
  LET base == CASE x.callee.t = "member" -> <<x.callee.obj>>
                [] x.callee.t = "call" /\ x.callee.callee.t = "member" ->
                     <<x.callee.callee.obj>>
                [] OTHER -> <<>>
  IN
  IF MaySuspend(x) /\ x.opt /\ base # <<>>
    THEN Then(Eval(base[1], env, st),
              [f |-> "optional", x |-> x, env |-> env])
    ELSE EvalCallee(x, "call", ~MaySuspend(x), env, st)

Optional(f, r) ==
  IF Nullish(r.o.v) THEN Ok(Undef, r.st)
                    ELSE EvalCallee(f.x, "call", FALSE, f.env, r.st)

CallWith(f, func, this, st) ==
  EvalListFrom(f.x.args, <<>>, f.env,
               [f |-> f.how, func |-> func, this |-> this], st)

CallBase(f, r) ==
  LET m == f.x.callee IN
  CASE f.short /\ Nullish(r.o.v) -> Ok(Undef, r.st)
    [] ~(f.short /\ Nullish(r.o.v)) /\ m.idx # <<>> ->
         Then(Eval(m.idx[1], f.env, r.st),
              [f |-> "method", x |-> f.x, how |-> f.how, env |-> f.env,
               base |-> r.o.v])
    [] OTHER ->
         LET g == GetMember(r.o.v, m.prop, r.st)
         IN  IF IsOk(g) THEN CallWith(f, g.o.v, r.o.v, g.st) ELSE g

CallMethod(f, r) ==
  LET g == GetMember(f.base, ToPropertyKey(r.o.v), r.st)
  IN  IF IsOk(g) THEN CallWith(f, g.o.v, f.base, g.st) ELSE g

Callee(f, r) ==
  IF f.short /\ Nullish(r.o.v) THEN Ok(Undef, r.st)
                               ELSE CallWith(f, r.o.v, Undef, r.st)

TailCall(f, r) ==
  IF f.func[1] = "fn" THEN R("tail", <<f.func, r.o.v>>, r.st)
                      ELSE Invoke(f.func, f.this, r.o.v, r.st)

EvalReturnExpr(x, env, st) ==
  IF x.t = "call" /\ ~x.opt THEN EvalCallee(x, "tail", FALSE, env, st)
                            ELSE Eval(x, env, st)

(***************************************************************************)
(* An object literal: the value of a property comes before its computed    *)
(* key.  What evaluates a property that suspended does not hand the object *)
(* on, neither there nor where the literal itself is evaluated: a frame    *)
(* that resumes gives undefined instead of the object.                     *)
(***************************************************************************)
EvalObjectProps(props, o, env, st) ==
  IF props = <<>> THEN Ok(Undef, st)
  ELSE LET v == Eval(Head(props).e, env, st)
           f == [f |-> "propValue", props |-> props, o |-> o, env |-> env,
                 resumed |-> Suspended(v)]
       IN  Then(v, f)

PropStore(f, key, v, st) ==
  EvalObjectProps(Tail(f.props), f.o, f.env,
    [st EXCEPT !.objects[f.o] = SetOwn(@, key, v)])

PropValue(f, r) ==
  LET p == Head(f.props)
      k == Eval(p.key[1], f.env, r.st)
      g == [f |-> "propKey", props |-> f.props, o |-> f.o, env |-> f.env,
            v |-> r.o.v] IN
  CASE p.t = "spread" /\ ~HasProps(r.o.v) -> Throw(TypeErr, r.st)
    [] p.t = "spread" /\ HasProps(r.o.v) ->
         EvalObjectProps(Tail(f.props), f.o, f.env,
           [r.st EXCEPT !.objects[f.o] =
              FoldLeft(LAMBDA o, kv : SetOwn(o, kv[1], kv[2]), @,
                       OwnProps(r.o.v, r.st))])
    [] p.t = "init" /\ p.key # <<>> ->
         IF f.resumed /\ ~IsOk(k) THEN k ELSE Then(k, g)
    [] OTHER -> PropStore(f, p.name, r.o.v, r.st)

PropKey(f, r) == PropStore(f, ToPropertyKey(r.o.v), f.v, r.st)

EvalObject(x, env, st) ==
  LET o == NewObject(<<>>, st)
      r == EvalObjectProps(x.props, o.o.v[2], env, o.st)
  IN  IF IsOk(r) THEN Ok(o.o.v, r.st) ELSE r

-----------------------------------------------------------------------------
(* Assignments, patterns and declarations *)

AssignTo(target, v, env, st) ==
  IF target.t = "id"
    THEN IF BindingIsConst(st.envs, env, target.name)
           THEN Throw(TypeErr, st)
           ELSE Ok(v, [st EXCEPT !.envs = Set(@, env, target.name, v)])
    ELSE Then(Eval(target.obj, env, st),
              [f |-> "setBase", target |-> target, v |-> v, env |-> env])

(***************************************************************************)
(* The programs assign to properties of objects; arrays grow by push.      *)
(***************************************************************************)
SetMember(base, key, v, st) ==
  CASE Nullish(base)   -> Throw(TypeErr, st)
    [] base[1] = "obj" -> Ok(v, [st EXCEPT !.objects[base[2]] = SetOwn(@, key, v)])
    [] OTHER           -> Ok(v, st)

SetBase(f, r) ==
  IF f.target.idx = <<>>
    THEN SetMember(r.o.v, f.target.prop, f.v, r.st)
    ELSE Then(Eval(f.target.idx[1], f.env, r.st),
              [f |-> "setKey", base |-> r.o.v, v |-> f.v])

(***************************************************************************)
(* An await in a pattern's default leaves the pattern behind: the value of *)
(* the assignment and the elements that follow are not gone back to.       *)
(***************************************************************************)
AssignToTarget(target, v, env, st) ==
  IF target.t = "expr" THEN AssignTo(target.e, v, env, st)
  ELSE LET r == Match("assign", target.p, v, env, st)
       IN  IF IsOk(r) THEN Ok(v, r.st) ELSE r

BindElems(how, p, i, items, env, st) ==
  IF i <= Len(p.elems)
    THEN LET r == Match(how, p.elems[i],
                    IF i <= Len(items) THEN items[i] ELSE Undef, env, st)
         IN  IF IsOk(r) THEN BindElems(how, p, i + 1, items, env, r.st) ELSE r
    ELSE IF p.rest = <<>> THEN Ok(Undef, st)
    ELSE LET a == NewArray(SubSeq(items, i, Len(items)), st)
         IN  Match(how, p.rest[1], a.o.v, env, a.st)

(***************************************************************************)
(* src is the object taken apart, taken the keys named without computing:  *)
(* the rest pattern gets the others.                                       *)
(***************************************************************************)
BindObjectProps(how, props, src, rest, env, taken, st) ==
  LET f == [f |-> "patKey", how |-> how, props |-> props, src |-> src,
            rest |-> rest, env |-> env, taken |-> taken]
  IN  CASE props # <<>> /\ Head(props).key # <<>> ->
             Then(Eval(Head(props).key[1], env, st), f)
        [] props # <<>> /\ Head(props).key = <<>> ->
             Apply([f EXCEPT !.taken = @ \cup {Head(props).name}],
                   Ok(Str(Head(props).name), st))
        [] props = <<>> /\ rest # <<>> ->
             LET o == NewObject(SelectSeq(st.objects[src[2]],
                                          LAMBDA kv : kv[1] \notin taken), st)
             IN  Match(how, rest[1], o.o.v, env, o.st)
        [] OTHER -> Ok(Undef, st)

PatKey(f, r) ==
  Then(Match(f.how, Head(f.props).p,
                   GetProperty(f.src, ToPropertyKey(r.o.v), r.st), f.env, r.st),
       [f EXCEPT !.f = "patRest"])

PatRest(f, r) ==
  BindObjectProps(f.how, Tail(f.props), f.src, f.rest, f.env, f.taken, r.st)

(***************************************************************************)
(* how is "bind" for a declaration, a parameter or the head of a loop, and *)
(* "assign" for the left side of an assignment.  Assigning to a name in a  *)
(* pattern does not ask whether the name is a constant.                    *)
(***************************************************************************)
BindPattern(how, p, v, env, st) ==
  CASE p.t = "phole" -> Ok(Undef, st)
    [] p.t = "pid" ->
         Ok(Undef, [st EXCEPT !.envs = IF how = "bind" THEN Bind(@, env, p.name, v)
                                                       ELSE Set(@, env, p.name, v)])
    [] p.t = "pmem" -> AssignTo(p.e, v, env, st)
    [] p.t = "pdef" ->
         IF v = Undef THEN Then(Eval(p.e, env, st),
                                [f |-> "default", how |-> how, p |-> p.p, env |-> env])
                      ELSE Match(how, p.p, v, env, st)
    [] p.t = "parr" ->
         IF ~Iterable(v) THEN Throw(TypeErr, st)
         ELSE BindElems(how, p, 1, IterableValues(v, st), env, st)
    [] p.t = "pobj" ->
         IF ~HasProps(v) THEN Throw(TypeErr, st)
         ELSE LET o == ToObject(v, st)
              IN  BindObjectProps(how, p.props, o.o.v, p.rest, env, {}, o.st)

(***************************************************************************)
(* A const pattern that suspends is bound to its end by its frames, which  *)
(* do not come back to mark its names.                                     *)
(***************************************************************************)
BindDecl(p, v, scope, isConst, st) ==
  LET r == Match("bind", p, v, scope, st)
      d == IF isConst THEN Declare(r, scope, p) ELSE r
  IN  IF IsOk(r) /\ isConst
        THEN [d EXCEPT !.st.envs = MarkConstIdents(@, scope, p)]
        ELSE d

(***************************************************************************)
(* Declarations, one after the other.  Once an initialiser has suspended   *)
(* the rest of the list is bound by VarListRest, which does not expect to  *)
(* suspend once more: what remains of the list is lost then, as it is when *)
(* the default of a pattern suspends.                                      *)
(***************************************************************************)
EvalVarList(list, isConst, scope, env, st) ==
  IF list = <<>> THEN Ok(Empty, st)
  ELSE LET d == Head(list)
           v == IF d.init = <<>> THEN Ok(Undef, st)
                                 ELSE Eval(d.init[1], env, st)
           b == BindDecl(d.p, v.o.v, scope, isConst, v.st)
       IN  CASE Suspended(v) ->
                  Push(v, [f |-> "varRest", list |-> list, isConst |-> isConst,
                           scope |-> scope, env |-> env])
             [] IsOk(v) /\ IsOk(b) ->
                  EvalVarList(Tail(list), isConst, scope, env, b.st)
             [] IsOk(v) /\ ~IsOk(b) -> b
             [] OTHER -> v

(***************************************************************************)
(* Faulty: what is bound after an await is not marked as constant.         *)
(***************************************************************************)
VarListRestUnmarked(list, isConst, scope, env, r) ==
  LET bound == BindDecl(Head(list).p, OrUndef(r.o.v), scope, FALSE, r.st)
      b == IF isConst THEN Declare(bound, scope, Head(list).p) ELSE bound
      next == IF Tail(list)[1].init = <<>> THEN Ok(Undef, b.st)
              ELSE Eval(Tail(list)[1].init[1], env, b.st)
  IN  CASE ~IsOk(b) -> b
        [] IsOk(b) /\ Len(list) = 1 -> Ok(Empty, b.st)
        [] OTHER -> IF IsOk(next)
                      THEN VarListRest(Tail(list), isConst, scope, env, next)
                      ELSE next

VarListRest(list, isConst, scope, env, r) ==
  LET b == BindDecl(Head(list).p, OrUndef(r.o.v), scope, isConst, r.st)
      next == IF Tail(list)[1].init = <<>> THEN Ok(Undef, b.st)
              ELSE Eval(Tail(list)[1].init[1], env, b.st)
  IN  CASE ~IsOk(b) -> b
        [] IsOk(b) /\ Len(list) = 1 -> Ok(Empty, b.st)
        [] OTHER -> IF IsOk(next)
                      THEN VarListRest(Tail(list), isConst, scope, env, next)
                      ELSE next

-----------------------------------------------------------------------------
(* Expressions and statements, by form *)

(***************************************************************************)
(* `await` outside an async function's own body is not implemented.        *)
(***************************************************************************)
InAsync(st) == st.async # <<>> /\ Last(st.async)

Settled(s, st) == IF s.k = "fulfilled" THEN Ok(s.v, st) ELSE Throw(s.v, st)

Await(f, r) ==
  IF r.st.future = <<>> THEN R("suspend", r.o.v, r.st)
  ELSE Settled(Head(r.st.future), [r.st EXCEPT !.future = Tail(@)])

Identifier(name, env, st) ==
  CASE IsBound(st.envs, env, name) -> Ok(Get(st.envs, env, name), st)
    [] name = "log" -> Ok(<<"native", "log">>, st)
    [] OTHER -> Throw(RefErr, st)

(***************************************************************************)
(* The programs add and compare numbers and undefined, which is NaN then.  *)
(***************************************************************************)
Binary(op, a, b) ==
  LET numbers == a[1] = "num" /\ b[1] = "num" IN
  CASE op = "add" -> IF numbers THEN Num(a[2] + b[2]) ELSE NaN
    [] op = "lt"  -> Bool(numbers /\ a[2] < b[2])

TakesRight(op, v) ==
  CASE op = "and" -> Truthy(v)
    [] op = "or"  -> ~Truthy(v)
    [] op = "nullish" -> Nullish(v)

(***************************************************************************)
(* A function expression with a name sees that name in a scope of its own. *)
(***************************************************************************)
FunctionValue(x, env, st) ==
  IF x.name = "" THEN LET f == MakeFunction(x.params, x.body, env, st)
                      IN  Ok(f.v, f.st)
  ELSE LET b == WithBlock(env, st)
           f == MakeFunction(x.params, x.body, NewestScope(b), b)
       IN  Ok(f.v, [f.st EXCEPT !.envs = Bind(@, NewestScope(b), x.name, f.v)])

EvalExpr(x, env, st) ==
  CASE x.t = "lit"    -> Ok(x.v, st)
    [] x.t = "id"     -> Identifier(x.name, env, st)
    [] x.t = "fn"     -> FunctionValue(x, env, st)
    [] x.t = "member" -> Then(Eval(x.obj, env, st),
                              [f |-> "member", x |-> x, env |-> env])
    [] x.t = "call"   -> EvalCall(x, env, st)
    [] x.t \in {"bin", "logic"} ->
         Then(Eval(x.left, env, st), [f |-> x.t, x |-> x, env |-> env])
    [] x.t = "cond"   -> Then(Eval(x.c, env, st),
                              [f |-> "cond", x |-> x, env |-> env])
    [] x.t = "assign" -> Then(Eval(x.e, env, st),
                              [f |-> "assign", x |-> x, env |-> env])
    [] x.t \in {"seq", "array"} ->
         EvalListFrom(x.items, <<>>, env, [f |-> x.t], st)
    [] x.t = "object" -> EvalObject(x, env, st)
    [] x.t = "await"  ->
         IF InAsync(st) THEN Then(Eval(x.e, env, st), [f |-> "await"])
                        ELSE R("fatal", Undef, st)

EvalStmt(s, env, st) ==
  CASE s.t = "var" ->
         EvalVarList(s.list, s.kind = "const",
           IF s.kind = "var" THEN FunctionScope(st.envs, env) ELSE env, env, st)
    [] s.t = "expr" -> Eval(s.e, env, st)
    [] s.t \in {"fndecl", "empty"} -> Ok(Empty, st)
    [] s.t = "return" ->
         IF s.e = <<>> THEN R("return", Undef, st)
         ELSE Then(EvalReturnExpr(s.e[1], env, st), [f |-> "return"])
    [] s.t = "throw" -> Then(Eval(s.e, env, st), [f |-> "throw"])
    [] s.t = "block" -> Run(s.body, NewestScope(WithBlock(env, st)),
                                  WithBlock(env, st))
    [] s.t \in {"break", "continue"} -> Jump(s.t, s.label, st)
    [] s.t = "if" -> Then(Eval(s.cond, env, st),
                          [f |-> "if", s |-> s, env |-> env])
    [] s.t = "try" -> TryPostprocess(Run(s.body, env, st),
                                     s.catch, s.finally, env)
    [] s.t = "switch" -> Then(Eval(s.e, env, st),
                              [f |-> "switch", s |-> s, env |-> env])
    [] s.t = "labeled" -> ExecLabeled(s, env, st)
    [] s.t \in {"while", "dowhile", "for", "forin", "forof"} ->
         ExecLoop(s, "", env, st)

If(f, r) ==
  IfPostprocess(Run(
    IF Truthy(OrUndef(r.o.v)) THEN f.s.then ELSE f.s.else, f.env, r.st))

Switch(f, r) ==
  LET b == WithBlock(f.env, r.st)
  IN  SwitchStart(OrUndef(r.o.v), f.s.cases, NewestScope(b), 1, 0, b)

Test(f, r) ==
  IF r.o.v = f.d THEN ExecSwitchCases(f.cases, f.env, f.i, Undef, r.st)
  ELSE SwitchStart(f.d, f.cases, f.env, f.i + 1, f.dflt, r.st)

Member(f, r) ==
  CASE f.x.opt /\ Nullish(r.o.v) -> Ok(Undef, r.st)
    [] ~(f.x.opt /\ Nullish(r.o.v)) /\ f.x.idx # <<>> ->
         Then(Eval(f.x.idx[1], f.env, r.st), [f |-> "memberKey", base |-> r.o.v])
    [] OTHER -> GetMember(r.o.v, f.x.prop, r.st)

(***************************************************************************)
(* The rest that a frame stands for, given the outcome it waits for.       *)
(***************************************************************************)
Apply(f, r) ==
  CASE f.f = "expr"  -> EvalExpr(f.x, f.env, r.st)
    [] f.f = "stmt"  -> EvalStmt(f.s, f.env, r.st)
    [] f.f = "list"  -> ExecStmts(f.ss, f.env, r.st)
    [] f.f = "stmts" ->
         ExecStmtsFrom(f.rest, IF r.o.v = Empty THEN f.last ELSE r.o.v, f.env, r.st)
    [] f.f = "return"  -> R("return", OrUndef(r.o.v), r.st)
    [] f.f = "throw"   -> Throw(OrUndef(r.o.v), r.st)
    [] f.f = "if"      -> If(f, r)
    [] f.f = "ifPost"  -> Ok(OrUndef(r.o.v), r.st)
    [] f.f = "keep"    -> [o |-> f.outcome, st |-> r.st]
    [] f.f = "try"     -> TryPostprocess(r, f.catch, f.finally, f.env)
    [] f.f = "finally" -> RunFinally(r, f.finally, f.env)
    [] f.f = "label"   -> LabeledPostprocess(r, f.label)
    [] f.f = "switch"  -> Switch(f, r)
    [] f.f = "test"    -> Test(f, r)
    [] f.f = "case"    -> CaseDone(f, r)
    [] f.f = "varRest" ->
         VarListRest(f.list, f.isConst, f.scope, f.env, r)
    [] f.f = "whileCond" -> WhileCond(f, r)
    [] f.f = "whileBody" -> WhileBody(f, r)
    [] f.f = "doBody"    -> DoBody(f, r)
    [] f.f = "doCond"    -> DoCond(f, r)
    [] f.f \in {"forInit", "forUpdate"} ->
         ForLoop(f.lp, f.env, f.names, f.v, r.st)
    [] f.f = "forCond"   -> ForCond(f, r)
    [] f.f = "forBody"   -> ForBodyStep(f, r)
    [] f.f = "forOf"     -> ForOf(f, r)
    [] f.f = "forIn"     -> ForIn(f, r)
    [] f.f = "arrayBody" -> ArrayBody(f, r)
    [] f.f = "itemBody"  -> ItemBody(f, r)
    [] f.f = "params"    ->
         BindParamsThenBody(f.params, f.args, f.i, f.env, f.body, r.st)
    [] f.f = "item"      -> ListItem(f, r)
    [] f.f = "seq"       -> Ok(Last(r.o.v), r.st)
    [] f.f = "array"     -> NewArray(r.o.v, r.st)
    [] f.f = "call"      -> CallFunction(f.func, f.this, r.o.v, r.st)
    [] f.f = "tail"      -> TailCall(f, r)
    [] f.f = "optional"  -> Optional(f, r)
    [] f.f = "base"      -> CallBase(f, r)
    [] f.f = "method"    -> CallMethod(f, r)
    [] f.f = "callee"    -> Callee(f, r)
    [] f.f = "member"    -> Member(f, r)
    [] f.f = "memberKey" -> GetMember(f.base, ToPropertyKey(r.o.v), r.st)
    [] f.f \in {"bin", "logic"} ->
         IF f.f = "logic" /\ ~TakesRight(f.x.op, r.o.v) THEN r
         ELSE IF f.f = "logic" THEN Eval(f.x.right, f.env, r.st)
         ELSE Then(Eval(f.x.right, f.env, r.st),
                   [f |-> "right", op |-> f.x.op, left |-> r.o.v])
    [] f.f = "right"     -> Ok(Binary(f.op, f.left, r.o.v), r.st)
    [] f.f = "cond"      ->
         Eval(IF Truthy(r.o.v) THEN f.x.a ELSE f.x.b, f.env, r.st)
    [] f.f = "assign"    -> AssignToTarget(f.x.target, r.o.v, f.env, r.st)
    [] f.f = "setBase"   -> SetBase(f, r)
    [] f.f = "setKey"    -> SetMember(f.base, ToPropertyKey(r.o.v), f.v, r.st)
    [] f.f = "default"   -> BindPattern(f.how, f.p, r.o.v, f.env, r.st)
    [] f.f = "patKey"    -> PatKey(f, r)
    [] f.f = "patRest"   -> PatRest(f, r)
    [] f.f = "propValue" -> PropValue(f, r)
    [] f.f = "propKey"   -> PropKey(f, r)
    [] f.f = "await"     -> Await(f, r)

-----------------------------------------------------------------------------
(* The async function *)

NewStore(future) ==
  [envs |-> <<NewGlobal>>, funcs |-> <<>>, arrays |-> <<>>, objects |-> <<>>,
   log |-> <<>>, async |-> <<>>, future |-> future, declared |-> <<>>]

(***************************************************************************)
(* func_async_stack holds true while the body runs and no longer.  A tail  *)
(* call out of the body is made after that.                                *)
(***************************************************************************)
Leave(r) ==
  LET left == [r EXCEPT !.st.async = Front(@)] IN
  IF left.o.k # "tail" THEN left
  ELSE Invoke(left.o.v[1], Undef, left.o.v[2], left.st)

Enter(st) == [st EXCEPT !.async = Append(@, TRUE)]

CallAsyncFunction(p, st) ==
  LET entered == Enter([st EXCEPT !.envs = NewChild(@, 1)])
  IN  Leave(BindAndRun(p.params, p.args, NewestScope(entered), p.body, entered))

AsyncResume(cont, s, st) == Leave(Resume1(Settled(s, Enter(st)), cont))

(***************************************************************************)
(* How the promise of the function is settled by an outcome.               *)
(***************************************************************************)
SettleContOutcome(r) ==
  CASE r.o.k \in {"ok", "return"} -> <<"fulfilled", OrUndef(r.o.v)>>
    [] r.o.k = "throw" -> <<"rejected", r.o.v>>
    [] OTHER -> <<"rejected", TypeErr>>

Take(r) ==
  /\ store' = r.st
  /\ IF Suspended(r)
       THEN /\ status' = "waiting"
            /\ frames' = r.o.c
            /\ UNCHANGED outcome
       ELSE /\ status' = "done"
            /\ frames' = <<>>
            /\ outcome' = SettleContOutcome(r)

Init ==
  /\ program \in Programs
  /\ status = "idle"
  /\ frames = <<>>
  /\ store = NewStore(<<>>)
  /\ outcome = NoOutcome
  /\ settled = <<>>

Call ==
  /\ status = "idle"
  /\ Take(CallAsyncFunction(program, store))
  /\ UNCHANGED <<program, settled>>

Settlements ==
  [k : {"fulfilled"}, v : Values] \cup [k : {"rejected"}, v : Reasons]

Resume(s) ==
  /\ status = "waiting"
  /\ Len(settled) < MaxAwaits
  /\ Take(AsyncResume(frames, s, store))
  /\ settled' = Append(settled, s)
  /\ UNCHANGED program

Next == Call \/ \E s \in Settlements : Resume(s)

Spec == Init /\ [][Next]_vars

-----------------------------------------------------------------------------
(* Properties *)

(***************************************************************************)
(* What the program does if every promise it awaits is settled already, in *)
(* the way it turned out: no await suspends, so no frame is ever built.    *)
(***************************************************************************)
Direct == CallAsyncFunction(program, NewStore(settled))

AgreesWith(d) ==
  /\ d.st = store
  /\ Suspended(d) = (status = "waiting")
  /\ status = "done" => SettleContOutcome(d) = outcome

(***************************************************************************)
(* To suspend makes no difference: whatever way the awaits of a function   *)
(* turn out, it has done the same things in the same order, holds the same *)
(* variables and ends in the same way as if it had never stopped.  This is *)
(* not so where the code drops the rest of a suspension on its way out,    *)
(* and Lossy has the programs with such forms: an await                    *)
(*   in a property of an object literal (the literal becomes undefined),   *)
(*   in an element of an array pattern with elements after it,             *)
(*   in the pattern of an assignment whose value is used,                  *)
(*   in a const pattern (its names are not marked), and                    *)
(*   in a list of declarations, with another that awaits after it, or with *)
(*   any other after it if it stands in a pattern.                         *)
(***************************************************************************)
Transparent == status # "idle" /\ program \notin Lossy => AgreesWith(Direct)

(***************************************************************************)
(* Whatever left the evaluator, a throw out of several calls as well as a  *)
(* suspension, func_async_stack is as it was when it was entered: the next *)
(* await is taken for what it is.                                          *)
(***************************************************************************)
ContextRestored == store.async = <<>>

(***************************************************************************)
(* A name declared with const is a constant, and keeps the value it was    *)
(* declared with until it is declared again, across every await, in        *)
(* whatever scope the declaration was resumed and whichever closure        *)
(* assigns to it.  Unguarded has the programs with the two forms for which *)
(* the code fails to see to that: a const pattern that awaits, whose names *)
(* are not marked, and a pattern that assigns to a name, which does not    *)
(* look for the mark.                                                      *)
(***************************************************************************)
ConstantsKept ==
  program \notin Unguarded =>
    \A sn \in DOMAIN store.declared :
      LET scope == store.envs[sn[1]]
      IN  sn[2] \in scope.constants /\ scope.vars[sn[2]] = store.declared[sn]
=============================================================================
