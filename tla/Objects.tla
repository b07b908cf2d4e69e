------------------------------ MODULE Objects ------------------------------
(***************************************************************************)
(* Properties and prototypes: Engine::get_property, set_property,          *)
(* define_property and delete_property (interpreter/object.rs,             *)
(* interpreter/exec.rs), and Object.assign, defineProperty,                *)
(* defineProperties and setPrototypeOf (builtins/object.rs).               *)
(*                                                                         *)
(* A holder is any value that has properties.  Getters and setters are     *)
(* user code, which may call any operation on any holder while the engine  *)
(* function that called it is still on the Rust stack, in some cases with  *)
(* a holder borrowed: a write to a borrowed RefCell panics.                *)
(***************************************************************************)
EXTENDS Naturals, Sequences, FiniteSets

CONSTANTS
  Holders,      \* the values that have properties
  FirstKinds,   \* the kinds the holders may have
  Default,      \* the built-in prototype of each kind, None if not among them
  FirstProtos,  \* the prototypes the holders may start with
  KeyOrder,     \* the property keys, in the order of a BTreeMap
  Vals,         \* values, Undef among them
  Fns,          \* functions that may be getters and setters
  Descriptors,  \* the descriptors user code passes to defineProperty
  MaxDepth,     \* bound on the depth of the Rust stack
  Undef, NoFn, None, Absent

Kinds == {"object", "array", "function", "native", "promise"}
Keys == {KeyOrder[i] : i \in DOMAIN KeyOrder}

(***************************************************************************)
(* Option<Value> of a getter or setter: NoFn, something that cannot be     *)
(* called (undefined), or a function.                                      *)
(***************************************************************************)
Accessors == Fns \cup {Undef, NoFn}

Property ==
  [accessor : BOOLEAN, value : Vals, writable : BOOLEAN, enumerable : BOOLEAN,
   configurable : BOOLEAN, get : Accessors, set : Accessors]

Descriptor ==
  [hasValue : BOOLEAN, value : Vals, writable : BOOLEAN, enumerable : BOOLEAN,
   configurable : BOOLEAN, get : Accessors, set : Accessors]

ASSUME ObjectsAssumption ==
  /\ FirstKinds \subseteq [Holders -> Kinds]
  /\ Default \in [Kinds -> Holders \cup {None}]
  /\ FirstProtos \subseteq [Holders -> Holders \cup {None}]
  \* a prototype is an object
  /\ \A kinds \in FirstKinds, f \in FirstProtos \cup {Default} :
       \A x \in DOMAIN f : f[x] # None => kinds[f[x]] = "object"
  /\ KeyOrder \in Seq(Keys)
  /\ Undef \in Vals
  /\ NoFn \notin Fns \cup {Undef}
  /\ None \notin Holders
  /\ Absent \notin Property
  /\ Descriptors \subseteq Descriptor
  /\ MaxDepth \in Nat

VARIABLES
  kind,     \* the kind of each holder
  props,    \* the own properties of each holder
  proto,    \* its prototype
  strict,   \* whether the program is in strict mode
  stack,    \* accessors and loops that run, innermost last
  status,   \* "running", "panicked", or "hung" in an endless loop
  declared  \* ghost: the attributes each property was made or defined with

vars == <<kind, props, proto, strict, stack, status, declared>>

Attributes(p) ==
  [accessor |-> p.accessor, writable |-> p.writable,
   enumerable |-> p.enumerable, configurable |-> p.configurable]

Declared ==
  [accessor : BOOLEAN, writable : BOOLEAN, enumerable : BOOLEAN,
   configurable : BOOLEAN]

(***************************************************************************)
(* A call that has not returned: "getter" and "setter" are user code,      *)
(* "assign" and "define" the loops of Object.assign and defineProperties.  *)
(*   held    the holders it keeps borrowed                                 *)
(*   seen    ghost: their properties when it was called                    *)
(*   target  what a loop writes to                                         *)
(*   todo    the keys it has not come to yet                               *)
(***************************************************************************)
Frame(k, held, target, todo) ==
  [k |-> k, held |-> held,
   seen |-> [h \in Holders |-> IF h \in held THEN props[h] ELSE Absent],
   target |-> target, todo |-> todo]

Top == stack[Len(stack)]
Below == SubSeq(stack, 1, Len(stack) - 1)
In(k) == stack # <<>> /\ Top.k = k
UserTurn ==
  /\ status = "running"
  /\ stack # <<>> => Top.k \in {"getter", "setter"}

Held == UNION {stack[i].held : i \in DOMAIN stack}

(***************************************************************************)
(* An operation goes on with the stack s.  An error it throws unwinds the  *)
(* engine's loops; user code may catch it.                                 *)
(***************************************************************************)
Goes(s) == stack' = s
Unwound(s) ==
  IF s # <<>> /\ s[Len(s)].k \in {"assign", "define"}
    THEN SubSeq(s, 1, Len(s) - 1) ELSE s
Raises(s) == stack' = Unwound(s)

-----------------------------------------------------------------------------
(* Properties of one holder *)

New(v) ==
  [accessor |-> FALSE, value |-> v, writable |-> TRUE, enumerable |-> TRUE,
   configurable |-> TRUE, get |-> NoFn, set |-> NoFn]

(***************************************************************************)
(* Faulty: writes although the holder is borrowed.                         *)
(***************************************************************************)
WriteUnborrowed(o, k, p, attributes, s) ==
  /\ props' = [props EXCEPT ![o][k] = p]
  /\ declared' = [declared EXCEPT ![o][k] = attributes]
  /\ Goes(s)
  /\ UNCHANGED status

(***************************************************************************)
(* borrow_mut().props.insert and remove: p becomes the property k of o.    *)
(***************************************************************************)
Write(o, k, p, attributes, s) ==
  IF o \in Held
    THEN /\ status' = "panicked"
         /\ UNCHANGED <<props, stack, declared>>
    ELSE /\ props' = [props EXCEPT ![o][k] = p]
         /\ declared' = [declared EXCEPT ![o][k] = attributes]
         /\ Goes(s)
         /\ UNCHANGED status

Leave(s) == Goes(s) /\ UNCHANGED <<props, declared, status>>
Fail(s) == Raises(s) /\ UNCHANGED <<props, declared, status>>

(***************************************************************************)
(* Faulty: a write stores a fresh property.                                *)
(***************************************************************************)
WithValueFresh(p, v) == New(v)

(***************************************************************************)
(* What a write stores over the property p: its attributes stay.           *)
(***************************************************************************)
WithValue(p, v) == [p EXCEPT !.value = v]

(***************************************************************************)
(* set_property: what happens depends on the own property alone, and of a  *)
(* promise not even on that.                                               *)
(***************************************************************************)
SetProperty(o, k, v, s) ==
  LET p == props[o][k]
      plain == kind[o] = "promise" \/ p = Absent IN
  \/ /\ plain
     /\ Write(o, k, New(v), Attributes(New(v)), s)
  \/ /\ ~plain /\ ~p.accessor /\ p.writable
     /\ Write(o, k, WithValue(p, v), declared[o][k], s)
  \/ /\ ~plain /\ ~p.accessor /\ ~p.writable
     /\ IF strict THEN Fail(s) ELSE Leave(s)
  \/ /\ ~plain /\ p.accessor /\ p.set \in Fns
     /\ Len(s) < MaxDepth
     /\ Leave(Append(s, Frame("setter", {}, None, {})))
  \/ /\ ~plain /\ p.accessor /\ p.set \notin Fns
     /\ IF p.set = Undef \/ strict THEN Fail(s) ELSE Leave(s)

IsAccessor(d) == d.get # NoFn \/ d.set # NoFn
OrUndefined(f) == IF f = NoFn THEN Undef ELSE f

(***************************************************************************)
(* Faulty: lets a property become configurable again.                      *)
(***************************************************************************)
RefusedLax(p, d) ==
  /\ p # Absent /\ ~p.configurable
  /\ \/ p.accessor # IsAccessor(d)
     \/ p.accessor /\ d.get # NoFn /\ d.get # OrUndefined(p.get)
     \/ p.accessor /\ d.set # NoFn /\ d.set # OrUndefined(p.set)
     \/ ~p.accessor /\ ~p.writable /\ d.hasValue /\ d.value # p.value

(***************************************************************************)
(* What define_property refuses to do to a property that is there.  It     *)
(* lets a read-only value be reset, by a descriptor without a value, and   *)
(* made writable.                                                          *)
(***************************************************************************)
Refused(p, d) ==
  /\ p # Absent /\ ~p.configurable
  /\ \/ d.configurable
     \/ p.accessor # IsAccessor(d)
     \/ p.accessor /\ d.get # NoFn /\ d.get # OrUndefined(p.get)
     \/ p.accessor /\ d.set # NoFn /\ d.set # OrUndefined(p.set)
     \/ ~p.accessor /\ ~p.writable /\ d.hasValue /\ d.value # p.value

FromDescriptor(d) ==
  [accessor |-> IsAccessor(d),
   value |-> IF d.hasValue /\ ~IsAccessor(d) THEN d.value ELSE Undef,
   writable |-> d.writable /\ ~IsAccessor(d),
   enumerable |-> d.enumerable, configurable |-> d.configurable,
   get |-> d.get, set |-> d.set]

DefineProperty(o, k, d, s) ==
  IF Refused(props[o][k], d)
    THEN Fail(s)
    ELSE Write(o, k, FromDescriptor(d), Attributes(FromDescriptor(d)), s)

-----------------------------------------------------------------------------
(* Lookup along the prototypes *)

(***************************************************************************)
(* Where the search goes on when o itself does not have the property.      *)
(***************************************************************************)
Start(o) ==
  CASE kind[o] = "array" -> Default["array"]
    [] kind[o] \in {"native", "promise"} /\ proto[o] = None -> Default[kind[o]]
    [] OTHER -> proto[o]

Last == Cardinality(Holders)

Chain(o) ==
  LET c[n \in 0..Last] ==
        IF n = 0 THEN o
        ELSE IF c[n - 1] = None THEN None ELSE proto[c[n - 1]]
  IN  c

Found(o, k) ==
  {n \in 0..Last : Chain(o)[n] # None /\ props[Chain(o)[n]][k] # Absent}

(***************************************************************************)
(* h is the holder of the property k that a lookup from o finds.           *)
(***************************************************************************)
Finds(o, k, h) ==
  \/ h = o /\ props[o][k] # Absent
  \/ /\ props[o][k] = Absent
     /\ \E n \in Found(Start(o), k) :
          h = Chain(Start(o))[n] /\ \A m \in Found(Start(o), k) : n <= m

(***************************************************************************)
(* The chain runs in a circle and none of its objects has the property.    *)
(***************************************************************************)
Endless(o, k) ==
  /\ props[o][k] = Absent
  /\ Found(Start(o), k) = {}
  /\ Chain(Start(o))[Last] # None

(***************************************************************************)
(* Whether get_property calls a getter it finds: own ones of a promise and *)
(* inherited ones of an array or a native function count as undefined.     *)
(***************************************************************************)
Calls(o, h) ==
  IF h = o THEN kind[o] # "promise" ELSE kind[o] \notin {"array", "native"}

-----------------------------------------------------------------------------
(* What user code may do *)

(***************************************************************************)
(* The holder stays borrowed while its getter runs.  A lookup that finds   *)
(* data changes nothing.                                                   *)
(***************************************************************************)
Get(o, k) ==
  /\ UserTurn
  /\ UNCHANGED <<kind, props, proto, strict, declared>>
  /\ \/ /\ Endless(o, k)
        /\ status' = "hung"
        /\ UNCHANGED stack
     \/ /\ Len(stack) < MaxDepth
        /\ \E h \in Holders :
             /\ Finds(o, k, h) /\ Calls(o, h)
             /\ props[h][k].accessor /\ props[h][k].get \in Fns
             /\ Goes(Append(stack, Frame("getter", {h}, None, {})))
        /\ UNCHANGED status

Set(o, k, v) ==
  /\ UserTurn
  /\ SetProperty(o, k, v, stack)
  /\ UNCHANGED <<kind, proto, strict>>

Define(o, k, d) ==
  /\ UserTurn
  /\ DefineProperty(o, k, d, stack)
  /\ UNCHANGED <<kind, proto, strict>>

(***************************************************************************)
(* delete takes the borrow before it looks.                                *)
(***************************************************************************)
Delete(o, k) ==
  /\ UserTurn
  /\ kind[o] # "promise"
  /\ \/ /\ o \in Held \/ (props[o][k] # Absent /\ props[o][k].configurable)
        /\ Write(o, k, Absent, Attributes(New(Undef)), stack)
     \/ /\ o \notin Held /\ props[o][k] # Absent /\ ~props[o][k].configurable
        /\ IF strict THEN Fail(stack) ELSE Leave(stack)
  /\ UNCHANGED <<kind, proto, strict>>

(***************************************************************************)
(* setPrototypeOf(o, p) gives o not p itself but p's own prototype.        *)
(***************************************************************************)
SetPrototypeOf(o, p) ==
  /\ UserTurn
  /\ IF o \in Held
       THEN status' = "panicked" /\ UNCHANGED proto
       ELSE /\ proto' = [proto EXCEPT ![o] = IF p = None THEN None ELSE proto[p]]
            /\ UNCHANGED status
  /\ UNCHANGED <<kind, props, strict, stack, declared>>

(***************************************************************************)
(* Object.assign(o, source) and Object.defineProperties(o, source) go      *)
(* through the properties of source, an object, and keep it borrowed.      *)
(***************************************************************************)
OwnKeys(o) == {k \in Keys : props[o][k] # Absent}

CallLoop(k, o, source) ==
  /\ UserTurn
  /\ kind[source] = "object"
  /\ Len(stack) < MaxDepth
  /\ Goes(Append(stack, Frame(k, {source}, o, OwnKeys(source))))
  /\ UNCHANGED <<kind, props, proto, strict, status, declared>>

Assign(o, source) == CallLoop("assign", o, source)
DefineProperties(o, source) == CallLoop("define", o, source)

(***************************************************************************)
(* An accessor returns, or throws.  What a getter throws is dropped.       *)
(***************************************************************************)
Return ==
  /\ UserTurn /\ stack # <<>>
  /\ Leave(Below)
  /\ UNCHANGED <<kind, proto, strict>>

Throw ==
  /\ UserTurn /\ In("setter")
  /\ Fail(Below)
  /\ UNCHANGED <<kind, proto, strict>>

-----------------------------------------------------------------------------
(* What the engine's loops do *)

FirstOf(keys) ==
  KeyOrder[CHOOSE i \in DOMAIN KeyOrder :
             KeyOrder[i] \in keys /\ \A j \in 1..(i - 1) : KeyOrder[j] \notin keys]

(***************************************************************************)
(* The stack when the innermost loop has come past its next key.           *)
(***************************************************************************)
PastKey == Append(Below, [Top EXCEPT !.todo = @ \ {FirstOf(@)}])

LoopDone ==
  /\ status = "running" /\ (In("assign") \/ In("define")) /\ Top.todo = {}
  /\ Leave(Below)
  /\ UNCHANGED <<kind, proto, strict>>

Source == CHOOSE h \in Holders : Top.held = {h}

AssignNext ==
  /\ status = "running" /\ In("assign") /\ Top.todo # {}
  /\ LET k == FirstOf(Top.todo)
         p == props[Source][k]
     IN  IF p.enumerable THEN SetProperty(Top.target, k, p.value, PastKey)
                         ELSE Leave(PastKey)
  /\ UNCHANGED <<kind, proto, strict>>

(***************************************************************************)
(* The values of the source are the descriptors; which they are is left    *)
(* open.                                                                   *)
(***************************************************************************)
DefineNext(d) ==
  /\ status = "running" /\ In("define") /\ Top.todo # {}
  /\ DefineProperty(Top.target, FirstOf(Top.todo), d, PastKey)
  /\ UNCHANGED <<kind, proto, strict>>

-----------------------------------------------------------------------------
Init ==
  /\ kind \in FirstKinds
  /\ props = [o \in Holders |-> [k \in Keys |-> Absent]]
  /\ proto \in FirstProtos
  /\ strict \in BOOLEAN
  /\ stack = <<>>
  /\ status = "running"
  /\ declared = [o \in Holders |-> [k \in Keys |-> Attributes(New(Undef))]]

UserStep ==
  \/ \E o \in Holders, k \in Keys :
       \/ Get(o, k)
       \/ \E v \in Vals : Set(o, k, v)
       \/ \E d \in Descriptors : Define(o, k, d)
       \/ Delete(o, k)
  \/ \E o \in Holders :
       \/ \E p \in Holders \cup {None} : SetPrototypeOf(o, p)
       \/ \E source \in Holders : Assign(o, source) \/ DefineProperties(o, source)
  \/ Return
  \/ Throw

EngineStep == LoopDone \/ AssignNext \/ \E d \in Descriptors : DefineNext(d)

Next == UserStep \/ EngineStep

Spec == Init /\ [][Next]_vars

-----------------------------------------------------------------------------
(* Properties *)

Properties == [Keys -> Property \cup {Absent}]

Frames ==
  [k : {"getter", "setter", "assign", "define"}, held : SUBSET Holders,
   seen : [Holders -> Properties \cup {Absent}],
   target : Holders \cup {None}, todo : SUBSET Keys]

(***************************************************************************)
(* Every variable has its type.                                            *)
(***************************************************************************)
TypeOK ==
  /\ kind \in [Holders -> Kinds]
  /\ props \in [Holders -> Properties]
  /\ proto \in [Holders -> Holders \cup {None}]
  /\ strict \in BOOLEAN
  /\ stack \in Seq(Frames)
  /\ status \in {"running", "panicked", "hung"}
  /\ declared \in [Holders -> [Keys -> Declared]]

(***************************************************************************)
(* A property that is not configurable is there for good: it never becomes *)
(* configurable, nor an accessor if it was none, nor a value if it was     *)
(* one, whatever assignments, definitions, deletions and copies do and     *)
(* whichever accessors they run into.  Promises do not keep to this.       *)
(***************************************************************************)
LockedStays ==
  [][\A o \in Holders, k \in Keys :
       kind[o] # "promise" /\ props[o][k] # Absent /\ ~props[o][k].configurable
         => /\ props'[o][k] # Absent
            /\ ~props'[o][k].configurable
            /\ props'[o][k].accessor = props[o][k].accessor]_vars

(***************************************************************************)
(* While a getter runs its holder does not change, and while Object.assign *)
(* or defineProperties runs neither does its source, whatever the setters  *)
(* do that it calls: what is copied is the source as it was at the call.   *)
(***************************************************************************)
HeldSteady ==
  \A i \in DOMAIN stack : \A h \in stack[i].held : props[h] = stack[i].seen[h]

(***************************************************************************)
(* A property has the attributes it was made or last defined with: no      *)
(* assignment, no copy and no setter changes them.  (An assignment to a    *)
(* promise makes its property anew.)                                       *)
(***************************************************************************)
AttributesKept ==
  \A o \in Holders, k \in Keys :
    props[o][k] # Absent => Attributes(props[o][k]) = declared[o][k]
=============================================================================
