---------------------------- MODULE MCEvaluator ----------------------------
(***************************************************************************)
(* Programs for Evaluator: async functions built from fragments that       *)
(* await, put into every form of statement that can hold them.             *)
(***************************************************************************)
EXTENDS Evaluator

(* Abbreviations for syntax trees *)
Lit(n) == [t |-> "lit", v |-> Num(n)]
Text(s) == [t |-> "lit", v |-> Str(s)]
NoValue == [t |-> "lit", v |-> Undef]
Id(x) == [t |-> "id", name |-> x]
W(e) == [t |-> "await", e |-> e]
Item(e) == [t |-> "expr", e |-> e]
Spread(e) == [t |-> "spread", e |-> e]
Apply2(f, as) == [t |-> "call", callee |-> f, opt |-> FALSE, args |-> as]
Log(e) == Apply2(Id("log"), <<Item(e)>>)
Dot(e, k) == [t |-> "member", obj |-> e, prop |-> k, idx |-> <<>>, opt |-> FALSE]
At(e, k) == [t |-> "member", obj |-> e, prop |-> "", idx |-> <<k>>, opt |-> FALSE]
Bin(op, a, b) == [t |-> "bin", op |-> op, left |-> a, right |-> b]
Logic(op, a, b) == [t |-> "logic", op |-> op, left |-> a, right |-> b]
Cond(c, a, b) == [t |-> "cond", c |-> c, a |-> a, b |-> b]
List(as) == [t |-> "array", items |-> as]
Comma(as) == [t |-> "seq", items |-> as]
Obj(ps) == [t |-> "object", props |-> ps]
Prop(k, e) == [t |-> "init", key |-> <<>>, name |-> k, e |-> e]
Name(x) == [t |-> "pid", name |-> x]
Let(x) == [t |-> "expr", e |-> x]
Assign(x, e) == [t |-> "assign", target |-> Let(Id(x)), e |-> e]
Fn(ps, body) == [t |-> "fn", name |-> "", params |-> ps, body |-> body]

E(e) == [t |-> "expr", e |-> e]
Say(n) == E(Log(Lit(n)))
Decl(kind, p, e) == [t |-> "var", kind |-> kind, list |-> <<[p |-> p, init |-> <<e>>]>>]
Break(l) == [t |-> "break", label |-> l]
Continue(l) == [t |-> "continue", label |-> l]
Return(e) == [t |-> "return", e |-> <<e>>]
Raise(e) == [t |-> "throw", e |-> e]
Block(b) == [t |-> "block", body |-> b]
If2(c, a, b) == [t |-> "if", cond |-> c, then |-> a, else |-> b]
Try(b, c, f) == [t |-> "try", body |-> b, catch |-> c, finally |-> f]
Catch(b) == <<[name |-> "e", body |-> b]>>
While(c, b) == [t |-> "while", cond |-> <<c>>, body |-> b]
DoWhile(b, c) == [t |-> "dowhile", cond |-> <<c>>, body |-> b]
For(i, c, u, b) == [t |-> "for", init |-> i, cond |-> c, update |-> u, body |-> b]
ForOfS(kind, p, e, b) == [t |-> "forof", kind |-> kind, p |-> p, e |-> e, body |-> b]
ForInS(kind, p, e, b) == [t |-> "forin", kind |-> kind, p |-> p, e |-> e, body |-> b]
SwitchS(e, cs) == [t |-> "switch", e |-> e, cases |-> cs]
Case(e, b) == [test |-> <<e>>, body |-> b]
Default(b) == [test |-> <<>>, body |-> b]
Label(l, s) == [t |-> "labeled", label |-> l, stmt |-> s]

Inc(x) == Assign(x, Bin("add", Id(x), Lit(1)))
Less(x, n) == Bin("lt", Id(x), Lit(n))
Wait == W(Lit(7))

(***************************************************************************)
(* Statements with one or two awaits; the log tells what was done.         *)
(***************************************************************************)
Fragments == {
  <<E(Log(Wait))>>,
  <<Decl("let", Name("x"), Wait), E(Log(Id("x")))>>,
  <<Decl("var", Name("x"), Bin("add", Log(Lit(4)), Wait)), E(Log(Id("x")))>>,
  <<E(Assign("i", Wait))>>,
  <<Return(Wait)>>,
  <<Raise(Wait)>>,
  <<Raise(Lit(3))>>,
  <<Break("")>>, 
  <<E(Wait), Break("")>>, <<E(Wait), Continue("")>>,
  <<E(Wait), Break("l")>>, 
  <<If2(Wait, <<Break("")>>, <<>>)>>,
  <<If2(Logic("and", Wait, Wait), <<Say(5)>>, <<Continue("")>>)>>,
  <<E(Apply2(Id("log"), <<Item(Comma(<<Item(Log(Lit(4))), Item(Wait)>>))>>))>>
}

(***************************************************************************)
(* Every try statement logs Entered first and Finished in its finally.     *)
(***************************************************************************)
Entered == 10
Finished == 11
TryF(b, c, f) == Try(<<Say(Entered)>> \o b, c, << <<Say(Finished)>> \o f >>)

Wraps(b) == {
  Block(b),
  TryF(b, Catch(<<E(Log(Id("e")))>>), <<>>),
  TryF(<<Raise(Lit(9))>>, Catch(b), <<>>),
  TryF(<<Say(12)>>, <<>>, b),
  TryF(<<Return(Log(Lit(13)))>>, <<>>, b),
  While(Bin("lt", Log(Inc("i")), Lit(2)), b),
  DoWhile(b, Log(Less("i", 1))),
  For(<<Decl("let", Name("j"), Lit(0))>>, <<Less("j", 2)>>, <<Inc("j")>>,
      <<E(Log(Id("j")))>> \o b),
  ForOfS("const", Name("k"), List(<<Item(Lit(5)), Item(Lit(6))>>), <<E(Log(Id("k")))>> \o b),
  Label("l", Block(b)),
  SwitchS(Id("i"), <<Case(Lit(1), <<Say(14)>>), Default(b), Case(Lit(2), <<Say(15)>>)>>)
}

Program(body) ==
  [params |-> <<>>, args |-> <<>>,
   body |-> <<Decl("let", Name("i"), Lit(0))>> \o body]

Wrapped1 == UNION {Wraps(b) : b \in Fragments}
Wrapped2 == UNION {Wraps(<<s>>) : s \in Wrapped1}
InLoop(s) == Label("l", For(<<>>, <<Bin("lt", Inc("i"), Lit(3))>>, <<>>, <<s, Say(20)>>))

(***************************************************************************)
(* Expressions with awaits in every position.                              *)
(***************************************************************************)
Waits == {Wait, Log(Wait)}
Operands == Waits \cup {Lit(0), Log(Lit(3))}
Pairs == {<<a, b>> \in Operands \X Operands : a \in Waits \/ b \in Waits}

O == Obj(<<Prop("a", Lit(1)), Prop("b", Lit(2))>>)

Expressions ==
  UNION {LET a == p[1] b == p[2] IN
    { Bin("add", a, b), Comma(<<Item(a), Item(b)>>), List(<<Item(a), [t |-> "hole"], Item(b)>>),
      Logic("and", a, b), Logic("or", a, b), Logic("nullish", NoValue, Bin("lt", a, b)),
      Cond(a, b, Log(Lit(6))), Cond(a, Lit(1), b),
      Apply2(Id("log"), <<Item(a), Item(b)>>),
      Apply2(Fn(<<Name("p"), Name("q")>>, <<Return(Log(Bin("add", Id("p"), Id("q"))))>>), <<Item(a), Item(b)>>),
      Apply2(Cond(a, Id("log"), Id("f")), <<Item(b)>>),
      List(<<Spread(List(<<Item(a)>>)), Item(b)>>),
      List(<<Spread(a), Item(b)>>),
      At(Comma(<<Item(a), Item(O)>>), Comma(<<Item(b), Item(Text("b"))>>)),
      Dot(Cond(a, O, NoValue), "a"),
      Apply2(At(List(<<Item(a)>>), Text("push")), <<Item(b)>>),
      Apply2(Dot(List(<<Item(a)>>), "push"), <<Item(b)>>),
      [t |-> "assign", target |-> Let(At(Id("o"), Comma(<<Item(a), Item(Text("c"))>>))), e |-> b],
      [t |-> "assign", target |-> Let(Dot(Comma(<<Item(a), Item(Id("o"))>>), "c")), e |-> b],
      Assign("i", Bin("add", Id("i"), Bin("add", a, b))),
      W(Bin("add", a, b))
    } : p \in Pairs}

Uses(e) == {
  <<E(Log(e)), Say(1)>>,
  <<Return(e)>>,
  <<Decl("let", Name("x"), e), E(Log(Id("x")))>>,
  <<Try(<<E(Log(e))>>, Catch(<<E(Log(Id("e")))>>), <<>>)>> }

ExpressionPrograms ==
  {Program(<<Decl("const", Name("o"), O)>> \o u \o <<E(Log(Dot(Id("o"), "c")))>>) : u \in UNION {Uses(e) : e \in Expressions}}

(***************************************************************************)
(* Patterns: with defaults, computed keys and a rest, in declarations, as  *)
(* targets, as parameters and in the heads of loops.                       *)
(***************************************************************************)
PDef(p, e) == [t |-> "pdef", p |-> p, e |-> e]
PArr(ps, r) == [t |-> "parr", elems |-> ps, rest |-> r]
PObj(ps, r) == [t |-> "pobj", props |-> ps, rest |-> r]
PProp(k, p) == [key |-> <<>>, name |-> k, p |-> p]
PKey(e, p) == [key |-> <<e>>, name |-> "", p |-> p]
PMem(e) == [t |-> "pmem", e |-> e]
Hole == [t |-> "phole"]
Key(e, k) == Comma(<<Item(e), Item(Text(k))>>)
ShowAll == <<E(Log(Id("x"))), E(Log(Id("y"))), E(Log(Dot(Id("z"), "b")))>>

Patterns == {
  PObj(<<PKey(Key(Wait, "a"), Name("x")), PProp("b", Name("y"))>>, <<Name("z")>>),
  PObj(<<PProp("a", Name("x")), PKey(Key(Wait, "b"), Name("y"))>>, <<Name("z")>>),
  PObj(<<PProp("a", Name("x")), PKey(Key(Wait, "c"), PDef(Name("y"), Wait)),
         PProp("b", Name("q"))>>, <<Name("z")>>),
  PObj(<<PProp("q", PDef(Name("x"), Log(Lit(4)))),
         PProp("c", PDef(PObj(<<PProp("a", Name("y"))>>, <<>>), Id("o")))>>, <<Name("z")>>) }

ArrayPatterns == {
  PArr(<<Name("x"), Hole, Name("y")>>, <<PArr(<<Name("z")>>, <<>>)>>),
  PArr(<<PDef(Name("x"), Lit(1)), PObj(<<PKey(Text("a"), Name("y"))>>, <<>>)>>,
       <<PObj(<<PProp("length", Name("z"))>>, <<>>)>>) }

Source == List(<<Item(NoValue), Item(Id("o")), Item(Lit(4)), Item(Lit(5))>>)

PatternBodies ==
  UNION {{ <<Decl(kind, p, Id("o"))>> \o ShowAll,
           <<Try(<<Decl(kind, p, W(Id("o")))>> \o ShowAll, Catch(<<E(Log(Id("e")))>>), <<>>)>>
         } : p \in Patterns, kind \in {"var", "let"}}
  \cup UNION {{ <<Decl("let", p, Source), E(Wait)>> \o ShowAll,
                <<ForOfS(kind, p, List(<<Item(Source), Item(Source)>>), <<E(Log(Wait))>> \o ShowAll)>>
              } : p \in ArrayPatterns, kind \in {"var", "const"}}
  \cup { <<Decl("let", Name("x"), Lit(0)), Decl("let", Name("y"), Lit(0)), Decl("let", Name("z"), Lit(0)),
           Decl("let", Name("q"), Lit(0)),
           E([t |-> "assign", target |-> [t |-> "pat", p |-> p], e |-> Id("o")])>> \o ShowAll
         : p \in Patterns }
  \cup { <<E([t |-> "assign", e |-> List(<<Item(Wait), Item(Lit(8))>>),
             target |-> [t |-> "pat",
               p |-> PArr(<<PMem(Dot(Id("o"), "c")), PMem(At(Id("o"), Text("a")))>>, <<>>)]]),
           E(Log(Dot(Id("o"), "a")))>> }

WithO(b) == Program(<<Decl("const", Name("o"), O)>> \o b)

PatternPrograms ==
  {WithO(b) : b \in PatternBodies}
  \cup {[params |-> ps, args |-> as, body |-> b] :
          ps \in {<<PDef(Name("p"), Wait), Name("q")>>,
                  <<Name("p"), PDef(Name("q"), Bin("add", Id("p"), Wait))>>,
                  <<PDef(Name("p"), Wait), PDef(Name("q"), Wait)>>},
          as \in {<<>>, <<Num(3)>>, <<Undef, Num(3)>>},
          b \in {<<E(Log(Id("p"))), E(Log(Id("q")))>>, <<E(Log(Id("q"))), Return(W(Id("p")))>>}}

(***************************************************************************)
(* Calls: closures over the scopes of rounds, hoisting, throws and tail    *)
(* calls across an await, and constants that somebody assigns to.          *)
(***************************************************************************)
FnDecl(x, ps, b) == [t |-> "fndecl", name |-> x, params |-> ps, body |-> b]
Call0(f) == Apply2(f, <<>>)
Each(e) == ForOfS("const", Name("f"), e, <<E(Log(Call0(Id("f"))))>>)
PushFn(e) == E(Apply2(Dot(Id("fs"), "push"), <<Item(Fn(<<>>, <<Return(e)>>))>>))

Rounds == {
  For(<<Decl("let", Name("j"), Lit(0))>>, <<Less("j", 2)>>, <<Inc("j")>>, <<E(Wait), PushFn(Id("j"))>>),
  For(<<Decl("let", Name("j"), Wait)>>, <<Less("j", 2)>>, <<Assign("j", Bin("add", Id("j"), Lit(1)))>>,
      <<PushFn(Id("j")), E(Inc("j")), E(Log(Id("j")))>>),
  For(<<Decl("var", Name("j"), Lit(0))>>, <<Logic("and", Less("j", 2), Log(Comma(<<Item(Wait), Item(Lit(1))>>)))>>,
      <<Assign("j", Comma(<<Item(Wait), Item(Bin("add", Id("j"), Lit(1)))>>))>>, <<PushFn(Id("j"))>>),
  For(<<E(Wait)>>, <<Bin("lt", Inc("i"), Lit(3))>>, <<>>, <<PushFn(Id("i")), Continue("")>>),
  ForInS("let", Name("k"), O, <<E(Wait), PushFn(Id("k"))>>),
  ForInS("var", Name("k"), Comma(<<Item(Wait), Item(O)>>), <<PushFn(Id("k")), E(Log(Wait))>>),
  ForOfS("let", Name("k"), Id("fs"), <<If2(Bin("lt", Inc("i"), Lit(3)), <<E(Wait), PushFn(Id("i"))>>, <<Break("")>>)>>),
  ForOfS("const", PObj(<<PProp("a", Name("k"))>>, <<>>), List(<<Item(O), Item(Lit(3))>>), <<PushFn(Id("k")), E(Wait)>>),
  While(Comma(<<Item(Wait), Item(Bin("lt", Inc("i"), Lit(2)))>>), <<Decl("let", Name("m"), Id("i")), PushFn(Id("m"))>>),
  DoWhile(<<Decl("let", Name("m"), Id("i")), PushFn(Id("m"))>>,
          Comma(<<Item(Wait), Item(Bin("lt", Inc("i"), Lit(2)))>>)),
  SwitchS(Lit(1), <<Case(Wait, <<Say(4)>>), Case(Comma(<<Item(Wait), Item(Lit(1))>>), <<PushFn(Lit(5)), Break("")>>),
                    Default(<<Say(6)>>)>>),
  SwitchS(Wait, <<Default(<<Say(4)>>), Case(Lit(0), <<E(Wait), Break("")>>), Case(Lit(1), <<Say(5)>>)>>)
}

Callees == {
  Fn(<<Name("p")>>, <<Return(Apply2(Id("g"), <<Item(Id("p"))>>))>>),
  Fn(<<PDef(Name("p"), Lit(3))>>, <<E(Log(Id("p"))), Raise(Id("p"))>>),
  Fn(<<Name("p")>>, <<TryF(<<Return(Apply2(Id("g"), <<Item(Id("p"))>>))>>, Catch(<<>>), <<>>)>>),
  Fn(<<Name("p")>>, <<If2(Less("p", 1), <<Decl("var", Name("v"), Id("p"))>>, <<>>), E(Log(Id("v")))>>),
  [t |-> "fn", name |-> "r", params |-> <<Name("p")>>,
   body |-> <<If2(Less("p", 2), <<Return(Apply2(Id("r"), <<Item(Bin("add", Id("p"), Lit(1)))>>))>>, <<>>),
              Return(Log(Id("p")))>>],
  Fn(<<Name("p")>>, <<E(Assign("c", Id("p")))>>)
}

CallBodies ==
  {<<Decl("const", Name("fs"), List(<<Item(Fn(<<>>, <<Return(Lit(9))>>))>>)), s, Each(Id("fs"))>> : s \in Rounds}
  \cup UNION {{ <<Decl("const", Name("c"), Lit(2)), TryF(<<E(Log(Apply2(f, <<Item(a)>>)))>>, Catch(<<E(Log(Id("e")))>>), <<E(Wait)>>),
                   E(Log(Id("c"))), FnDecl("g", <<Name("n")>>, <<Say(8), Return(Bin("add", Id("n"), Id("c")))>>)>>,
                 <<Decl("const", Name("c"), Wait), FnDecl("g", <<Name("n")>>, <<Raise(Id("c"))>>),
                   TryF(<<Return(Apply2(f, <<Item(a)>>))>>, <<>>, <<E(Wait)>>)>>
               } : f \in Callees, a \in {Wait, Lit(1), Lit(5)}}
  \cup {<<Decl("const", Name("c"), Wait), TryF(<<E(Wait), E(Assign("c", Lit(4)))>>, Catch(<<E(Log(Id("e")))>>), <<>>),
          Block(<<Decl("let", Name("c"), Lit(1)), E(Inc("c")), E(Log(Id("c"))), E(Assign("u", Lit(1)))>>),
          E(Log(Id("c"))), E(Log(Id("u")))>>}

CallPrograms == {Program(b) : b \in CallBodies}

(***************************************************************************)
(* Object literals, assignments used for their value and lists that the    *)
(* suspension of an operand leaves behind, and their neighbours that it    *)
(* does not: an await in the last element of an array pattern, in the      *)
(* first declaration of a list, in an optional call, after a literal and   *)
(* in the head of a loop, where it is an error.                            *)
(***************************************************************************)
Decls(kind, ds) == [t |-> "var", kind |-> kind, list |-> ds]
D(x, e) == [p |-> Name(x), init |-> <<e>>]
OptCall(f, as) == [t |-> "call", callee |-> f, opt |-> TRUE, args |-> as]
OptDot(e, k) == [Dot(e, k) EXCEPT !.opt = TRUE]
Fill(p, e) == [t |-> "assign", target |-> [t |-> "pat", p |-> p], e |-> e]
Missing == List(<<Item(NoValue), Item(Lit(4))>>)
ShowX == <<E(Log(Id("x"))), E(Log(Id("y")))>>
XY == Decls("let", <<D("x", Lit(0)), D("y", Lit(0))>>)

KeptBodies ==
  {<<Decls("let", <<D("y", Lit(2)), D("x", Wait), D("z", Log(Id("x")))>>)>> \o ShowX,
   <<Decls("const", <<D("x", Wait), D("y", Log(Lit(3)))>>),
     TryF(<<E(Assign("y", Lit(8)))>>, Catch(<<E(Wait)>>), <<>>)>> \o ShowX,
   <<Decl("let", PArr(<<Name("y"), PDef(Name("x"), Wait)>>, <<>>), List(<<Item(Lit(4))>>))>> \o ShowX,
   <<Decl("const", PObj(<<PProp("a", Name("x")), PProp("c", PDef(Name("y"), Log(Lit(3))))>>, <<>>), Id("o")),
     E(Wait), TryF(<<E(Inc("x"))>>, Catch(<<E(Log(Wait))>>), <<>>)>> \o ShowX,
   <<XY, E(Fill(PArr(<<Name("x"), PDef(Name("y"), Wait)>>, <<>>), List(<<Item(Wait)>>)))>> \o ShowX,
   <<E(Log(Dot(Obj(<<Prop("a", Lit(1)), [Prop("", Lit(2)) EXCEPT !.key = <<Text("b")>>]>>), "b"))), E(Wait)>>,
   <<E(Wait), ForOfS("let", PObj(<<PProp("c", PDef(Name("x"), Wait))>>, <<>>), List(<<Item(O)>>), ShowX)>>}
  \cup {<<Decl("let", Name("n"), n), E(Log(c))>> :
           n \in {NoValue, Id("o"), Id("log")},
           c \in {OptCall(Id("n"), <<Item(Wait)>>), OptDot(Comma(<<Item(Wait), Item(Id("n"))>>), "a"),
                  Apply2(OptDot(Comma(<<Item(Wait), Item(Id("n"))>>), "a"), <<>>),
                  OptCall(Dot(Comma(<<Item(Log(Wait)), Item(Id("n"))>>), "a"), <<>>),
                  OptCall(Dot(Id("n"), "a"), <<Item(Log(Wait))>>)}}

UnmarkedBodies ==
  {<<Decl("const", p, Id("o")), E(Assign("x", Lit(8))), E(Wait)>> \o ShowX :
     p \in {PObj(<<PProp("a", Name("x")), PKey(Key(Wait, "b"), Name("y"))>>, <<>>),
            PObj(<<PProp("a", Name("x")), PProp("c", PDef(Name("y"), Wait))>>, <<>>)}}

OverwrittenBodies ==
  {<<Decls("const", <<D("x", Lit(5)), D("y", Wait)>>), E(Fill(p, O))>> \o ShowX :
     p \in {PObj(<<PProp("a", Name("x"))>>, <<>>), PObj(<<PKey(Key(Wait, "b"), Name("y"))>>, <<>>)}}

LossyBodies ==
  {<<E(Log(Dot(Obj(ps), "a")))>> :
     ps \in {<<Prop("a", Wait)>>, <<Prop("a", Lit(1)), Prop("b", Log(Wait))>>,
             <<[Prop("", Log(Lit(1))) EXCEPT !.key = <<Key(Wait, "a")>>]>>,
             <<[t |-> "spread", key |-> <<>>, name |-> "", e |-> Comma(<<Item(Wait), Item(Id("o"))>>)]>>}}
  \cup {<<Decl("let", PArr(<<PDef(Name("x"), Wait), Name("y")>>, <<>>), Missing)>> \o ShowX,
        <<XY, E(Fill(PArr(<<PDef(Name("x"), Wait), Name("y")>>, <<>>), Missing))>> \o ShowX,
        <<XY, E(Log(Fill(PObj(<<PProp("c", PDef(Name("x"), Wait))>>, <<>>), Id("o"))))>> \o ShowX,
        <<Decls("let", <<D("x", Wait), D("y", Log(Wait))>>)>> \o ShowX,
        <<Decls("let", <<[p |-> PArr(<<PDef(Name("x"), Wait)>>, <<>>), init |-> <<Missing>>],
                         D("y", Log(Lit(3)))>>)>> \o ShowX}

MCUnguarded == {WithO(b) : b \in UnmarkedBodies \cup OverwrittenBodies}
MCLossy == {WithO(b) : b \in UnmarkedBodies \cup LossyBodies}

MCPrograms ==
  {Program(<<InLoop(s), Say(21)>>) : s \in Wrapped2}
    \cup ExpressionPrograms \cup PatternPrograms \cup CallPrograms
    \cup {WithO(b) : b \in KeptBodies} \cup MCUnguarded \cup MCLossy

(***************************************************************************)
(* Every try statement that is entered runs its finally exactly once,      *)
(* however its block or its catch ended and whatever awaits stood in them: *)
(* the two marks nest like brackets, and none is open in the end.          *)
(***************************************************************************)
Marks(mark, i) == Cardinality({j \in 1..i : store.log[j] = Num(mark)})

FinallyOnce ==
  LET n == Len(store.log) IN
  /\ \A i \in 1..n : Marks(Finished, i) <= Marks(Entered, i)
  /\ status = "done" => Marks(Finished, n) = Marks(Entered, n)

(***************************************************************************)
(* let x = await .., y = await ..; log(x); log(y)                          *)
(***************************************************************************)
TwoDeclarations ==
  {Program(<<[t |-> "var", kind |-> "let",
              list |-> <<[p |-> Name("x"), init |-> <<Wait>>],
                         [p |-> Name("y"), init |-> <<Wait>>]>>],
             E(Log(Id("x"))), E(Log(Id("y")))>>)}

MCValues == {Num(0), Num(1)}
MCReasons == {Str("r")}
MCKeyOrder == <<"a", "b", "c">>
=============================================================================
