---------------------------- MODULE ObjectsProofs ----------------------------
(* Machine-checked proofs about Objects, for every value of its constants. *)
EXTENDS Objects, SequenceTheorems, WellFoundedInduction, TLAPS

-----------------------------------------------------------------------------
(* The part of the invariant that is about the stack, for any stack s and  *)
(* any properties pr: a frame has seen what its holders still are, and a   *)
(* loop has one source, whose properties it has yet to come to are there.  *)

Good(f, pr) ==
  /\ f \in Frames
  /\ \A h \in f.held : pr[h] = f.seen[h]
  /\ f.k \in {"assign", "define"} =>
       /\ f.target \in Holders
       /\ \E h \in Holders : f.held = {h} /\ \A k \in f.todo : pr[h][k] # Absent

StackGood(s, pr) == s \in Seq(Frames) /\ \A i \in 1..Len(s) : Good(s[i], pr)

IInv == TypeOK /\ StackGood(stack, props) /\ AttributesKept

(* What an operation may leave on the stack: frames that were there, with  *)
(* the same holders.                                                       *)
Stays(s) == StackGood(s, props) /\ \A i \in 1..Len(s) : s[i].held \subseteq Held

(* The part of a step that LockedStays is about *)
LockedStep ==
  \A o \in Holders, k \in Keys :
    kind[o] # "promise" /\ props[o][k] # Absent /\ ~props[o][k].configurable
      => /\ props'[o][k] # Absent
         /\ ~props'[o][k].configurable
         /\ props'[o][k].accessor = props[o][k].accessor

-----------------------------------------------------------------------------
(* Sequences *)

LEMMA Front ==
  ASSUME NEW S, NEW s \in Seq(S), s # <<>>
  PROVE  /\ SubSeq(s, 1, Len(s) - 1) \in Seq(S)
         /\ Len(SubSeq(s, 1, Len(s) - 1)) = Len(s) - 1
         /\ \A i \in 1..(Len(s) - 1) : SubSeq(s, 1, Len(s) - 1)[i] = s[i]
         /\ s[Len(s)] \in S /\ Len(s) \in 1..Len(s)
<1>1. Len(s) \in Nat /\ Len(s) >= 1
  BY EmptySeq
<1>2. SubSeq(s, 1, Len(s) - 1) \in Seq(S)
  BY <1>1
<1>3. Len(SubSeq(s, 1, Len(s) - 1)) = Len(s) - 1
  <2>1. 1 \in Int /\ Len(s) - 1 \in Int /\ \A i \in 1..(Len(s) - 1) : s[i] \in S
    BY <1>1
  <2>2. Len(SubSeq(s, 1, Len(s) - 1))
          = IF 1 <= Len(s) - 1 THEN Len(s) - 1 - 1 + 1 ELSE 0
    BY <2>1, SubSeqProperties
  <2>3. ASSUME NEW a \in Nat, a >= 1
        PROVE  (IF 1 <= a - 1 THEN a - 1 - 1 + 1 ELSE 0) = a - 1
    BY <2>3
  <2> QED BY <1>1, <2>2, <2>3
<1>4. \A i \in 1..(Len(s) - 1) : SubSeq(s, 1, Len(s) - 1)[i] = s[i]
  BY <1>1, <1>3
<1> QED BY <1>1, <1>2, <1>3, <1>4

(* A key that is to come exists while there is one. *)
LEMMA FirstOfIsOne ==
  ASSUME NEW keys \in SUBSET Keys, keys # {}
  PROVE  FirstOf(keys) \in keys
<1> DEFINE T == {i \in DOMAIN KeyOrder : KeyOrder[i] \in keys}
           R == OpToRel(<, Nat)
<1>1. KeyOrder \in Seq(Keys) /\ DOMAIN KeyOrder = 1..Len(KeyOrder) /\ Len(KeyOrder) \in Nat
  BY ObjectsAssumption
<1>2. T \subseteq Nat /\ T # {}
  BY <1>1 DEF Keys
<1>3. \E i \in T : \A j \in T : ~(<<j, i>> \in R)
  BY <1>2, NatLessThanWellFounded, WFMin
<1>4. PICK i \in T : \A j \in T : ~(j < i)
  BY <1>2, <1>3 DEF OpToRel
<1>5. i \in DOMAIN KeyOrder /\ KeyOrder[i] \in keys
      /\ \A j \in 1..(i - 1) : KeyOrder[j] \notin keys
  BY <1>1, <1>4
<1> QED BY <1>5 DEF FirstOf

-----------------------------------------------------------------------------
(* The stack *)

LEMMA BelowStays ==
  ASSUME IInv, stack # <<>>
  PROVE  Stays(Below) /\ Good(Top, props) /\ Top.held \subseteq Held
<1>1. stack \in Seq(Frames) /\ \A i \in 1..Len(stack) : Good(stack[i], props)
  BY DEF IInv, StackGood
<1>2. /\ Below \in Seq(Frames) /\ Len(Below) = Len(stack) - 1
      /\ \A i \in 1..(Len(stack) - 1) : Below[i] = stack[i]
      /\ Top \in Frames /\ Len(stack) \in 1..Len(stack)
  BY <1>1, Front DEF Below, Top
<1>3. \A i \in 1..Len(stack) : stack[i].held \subseteq Held
  BY <1>1 DEF Held
<1> QED BY <1>1, <1>2, <1>3 DEF Stays, StackGood, Top

LEMMA StackStays ==
  ASSUME IInv PROVE Stays(stack)
BY DEF IInv, StackGood, Stays, Held

LEMMA UnwoundStays ==
  ASSUME NEW s, Stays(s) PROVE Stays(Unwound(s))
<1>1. CASE s # <<>> /\ s[Len(s)].k \in {"assign", "define"}
  <2>1. s \in Seq(Frames)
    BY DEF Stays, StackGood
  <2> DEFINE u == SubSeq(s, 1, Len(s) - 1)
  <2>2. u \in Seq(Frames) /\ Len(u) = Len(s) - 1 /\ (\A i \in 1..(Len(s) - 1) : u[i] = s[i])
        /\ Len(s) \in 1..Len(s)
    BY <2>1, <1>1, Front
  <2>3. Unwound(s) = u
    BY <1>1 DEF Unwound
  <2> HIDE DEF u
  <2>4. 1..Len(u) \subseteq 1..Len(s)
    BY <2>1, <2>2
  <2> QED BY <2>2, <2>3, <2>4 DEF Stays, StackGood
<1>2. CASE ~(s # <<>> /\ s[Len(s)].k \in {"assign", "define"})
  BY <1>2 DEF Unwound
<1> QED BY <1>1, <1>2

(* A call puts a good frame on the stack. *)
LEMMA Push ==
  ASSUME NEW s, NEW pr, StackGood(s, pr), NEW f, Good(f, pr)
  PROVE  StackGood(Append(s, f), pr)
<1>1. s \in Seq(Frames) /\ f \in Frames /\ Len(s) \in Nat
  BY DEF StackGood, Good
<1>2. /\ Append(s, f) \in Seq(Frames) /\ Len(Append(s, f)) = Len(s) + 1
      /\ \A i \in 1..Len(s) : Append(s, f)[i] = s[i]
      /\ Append(s, f)[Len(s) + 1] = f
  BY <1>1
<1>3. \A i \in 1..(Len(s) + 1) : i \in 1..Len(s) \/ i = Len(s) + 1
  BY <1>1
<1> QED BY <1>2, <1>3 DEF StackGood

LEMMA NewFrame ==
  ASSUME IInv, NEW k \in {"getter", "setter"}, NEW held \in SUBSET Holders
  PROVE  Good(Frame(k, held, None, {}), props)
<1>1. props \in [Holders -> Properties]
  BY DEF IInv, TypeOK
<1> QED BY <1>1 DEF Good, Frame, Frames

LEMMA NewLoop ==
  ASSUME IInv, NEW k \in {"assign", "define"}, NEW o \in Holders, NEW source \in Holders
  PROVE  Good(Frame(k, {source}, o, OwnKeys(source)), props)
<1>1. props \in [Holders -> Properties]
  BY DEF IInv, TypeOK
<1> QED BY <1>1 DEF Good, Frame, Frames, OwnKeys

LEMMA PastKeyStays ==
  ASSUME IInv, stack # <<>>, Top.k \in {"assign", "define"}
  PROVE  Stays(PastKey)
<1>1. Stays(Below) /\ Good(Top, props) /\ Top.held \subseteq Held
  BY BelowStays
<1> DEFINE g == [Top EXCEPT !.todo = @ \ {FirstOf(@)}]
<1>2. g \in Frames /\ g.held = Top.held /\ g.seen = Top.seen /\ g.k = Top.k
      /\ g.target = Top.target /\ g.todo \subseteq Top.todo
  BY <1>1 DEF Good, Frames
<1> HIDE DEF g
<1>3. Good(g, props)
  BY <1>1, <1>2 DEF Good
<1>4. StackGood(Append(Below, g), props)
  BY <1>1, <1>3, Push DEF Stays
<1>5. /\ Len(Append(Below, g)) = Len(Below) + 1 /\ Len(Below) \in Nat
      /\ \A i \in 1..Len(Below) : Append(Below, g)[i] = Below[i]
      /\ Append(Below, g)[Len(Below) + 1] = g
  BY <1>1, <1>2 DEF Stays, StackGood
<1>6. \A i \in 1..(Len(Below) + 1) : i \in 1..Len(Below) \/ i = Len(Below) + 1
  BY <1>5
<1>7. \A i \in 1..Len(Append(Below, g)) : Append(Below, g)[i].held \subseteq Held
  BY <1>1, <1>2, <1>5, <1>6 DEF Stays
<1>8. PastKey = Append(Below, g)
  BY DEF PastKey, g
<1> QED BY <1>4, <1>7, <1>8 DEF Stays

-----------------------------------------------------------------------------
(* Operations on properties *)

(* What an operation other than a change of prototypes keeps: the invariant *)
(* and the properties that are locked.                                      *)
Keeps == IInv' /\ LockedStep

LEMMA LeaveKeeps ==
  ASSUME IInv, NEW s, Stays(s), UNCHANGED <<kind, props, strict, declared>>,
         proto' \in [Holders -> Holders \cup {None}],
         status' \in {"running", "panicked", "hung"}, stack' = s
  PROVE  Keeps
<1>1. TypeOK'
  BY DEF IInv, TypeOK, Stays, StackGood
<1>2. StackGood(stack', props')
  BY DEF Stays
<1>3. AttributesKept'
  BY DEF IInv, AttributesKept
<1>4. LockedStep
  BY DEF LockedStep
<1> QED BY <1>1, <1>2, <1>3, <1>4 DEF Keeps, IInv

(* What a write may make of a property that is locked *)
Locks(o, p, q) ==
  kind[o] # "promise" /\ p # Absent /\ ~p.configurable
    => q # Absent /\ ~q.configurable /\ q.accessor = p.accessor

LEMMA WriteKeeps ==
  ASSUME IInv, NEW s, Stays(s), NEW o \in Holders, NEW k \in Keys,
         NEW p \in Property \cup {Absent}, NEW attributes \in Declared,
         p # Absent => Attributes(p) = attributes,
         o \notin Held => Locks(o, props[o][k], p),
         Write(o, k, p, attributes, s),
         UNCHANGED <<kind, proto, strict>>
  PROVE  Keeps
<1> USE DEF IInv
<1>1. TypeOK /\ StackGood(stack, props) /\ AttributesKept
  OBVIOUS
<1>2. CASE o \in Held
  <2>1. UNCHANGED <<props, stack, declared>> /\ status' = "panicked"
    BY <1>2 DEF Write
  <2> QED BY <2>1, StackStays, LeaveKeeps DEF TypeOK
<1>3. CASE o \notin Held
  <2>1. /\ props' = [props EXCEPT ![o][k] = p]
        /\ declared' = [declared EXCEPT ![o][k] = attributes]
        /\ stack' = s /\ UNCHANGED status
    BY <1>3 DEF Write, Goes
  <2>2. props \in [Holders -> Properties] /\ declared \in [Holders -> [Keys -> Declared]]
    BY <1>1 DEF TypeOK
  <2>3. /\ props' \in [Holders -> Properties]
        /\ declared' \in [Holders -> [Keys -> Declared]]
    BY <2>1, <2>2 DEF Properties
  <2>4. /\ \A h \in Holders : h # o => props'[h] = props[h]
        /\ \A j \in Keys : props'[o][j] = IF j = k THEN p ELSE props[o][j]
        /\ \A h \in Holders, j \in Keys :
             declared'[h][j] = IF h = o /\ j = k THEN attributes ELSE declared[h][j]
    BY <2>1, <2>2 DEF Properties
  <2>5. TypeOK'
    BY <1>1, <2>1, <2>3 DEF TypeOK, Stays, StackGood
  <2>6. StackGood(stack', props')
    <3> SUFFICES ASSUME NEW i \in 1..Len(s) PROVE Good(s[i], props')
      BY <2>1 DEF Stays, StackGood
    <3>1. Good(s[i], props) /\ s[i].held \subseteq Held /\ s[i].held \subseteq Holders
      BY DEF Stays, StackGood, Good, Frames
    <3>2. \A h \in s[i].held : props'[h] = props[h]
      BY <3>1, <2>4, <1>3
    <3> QED BY <3>1, <3>2 DEF Good
  <2>7. AttributesKept'
    BY <1>1, <2>4 DEF AttributesKept
  <2>8. LockedStep
    BY <1>3, <2>4 DEF LockedStep, Locks
  <2> QED BY <2>5, <2>6, <2>7, <2>8 DEF Keeps
<1> QED BY <1>2, <1>3

LEMMA FailKeeps ==
  ASSUME IInv, NEW s, Stays(s), Fail(s), UNCHANGED <<kind, proto, strict>>
  PROVE  Keeps
<1>1. Stays(Unwound(s))
  BY UnwoundStays
<1>2. proto' \in [Holders -> Holders \cup {None}]
      /\ status' \in {"running", "panicked", "hung"}
      /\ stack' = Unwound(s) /\ UNCHANGED <<kind, props, strict, declared>>
  BY DEF Fail, Raises, IInv, TypeOK
<1> QED BY <1>1, <1>2, LeaveKeeps

LEMMA LeavesKeeps ==
  ASSUME IInv, NEW s, Stays(s), Leave(s), UNCHANGED <<kind, proto, strict>>
  PROVE  Keeps
<1>1. proto' \in [Holders -> Holders \cup {None}]
      /\ status' \in {"running", "panicked", "hung"}
      /\ stack' = s /\ UNCHANGED <<kind, props, strict, declared>>
  BY DEF Leave, Goes, IInv, TypeOK
<1> QED BY <1>1, LeaveKeeps

LEMMA NewIsProperty ==
  ASSUME NEW v \in Vals
  PROVE  New(v) \in Property /\ Attributes(New(v)) \in Declared
BY DEF New, Property, Accessors, Attributes, Declared

LEMMA SetKeeps ==
  ASSUME IInv, NEW s, Stays(s), NEW o \in Holders, NEW k \in Keys, NEW v \in Vals,
         SetProperty(o, k, v, s), UNCHANGED <<kind, proto, strict>>
  PROVE  Keeps
<1> DEFINE p == props[o][k]
           plain == kind[o] = "promise" \/ p = Absent
<1>0. p \in Property \cup {Absent} /\ declared[o][k] \in Declared
      /\ (p # Absent => Attributes(p) = declared[o][k])
  BY DEF IInv, TypeOK, AttributesKept, Properties
<1>1. CASE plain /\ Write(o, k, New(v), Attributes(New(v)), s)
  <2>1. Locks(o, p, New(v))
    BY <1>1 DEF Locks
  <2> QED BY <1>1, <2>1, NewIsProperty, WriteKeeps
<1>2. CASE ~plain /\ ~p.accessor /\ Write(o, k, WithValue(p, v), declared[o][k], s)
  <2>1. WithValue(p, v) \in Property /\ Attributes(WithValue(p, v)) = Attributes(p)
        /\ Locks(o, p, WithValue(p, v))
    BY <1>0, <1>2, ObjectsAssumption DEF WithValue, Property, Attributes, Locks
  <2> QED BY <1>0, <1>2, <2>1, WriteKeeps
<1>3. CASE Fail(s)
  BY <1>3, FailKeeps
<1>4. CASE Leave(s)
  BY <1>4, LeavesKeeps
<1>5. CASE Leave(Append(s, Frame("setter", {}, None, {})))
  <2> DEFINE g == Frame("setter", {}, None, {})
  <2>1. Good(g, props) /\ g.held = {}
    <3>1. Good(g, props)
      BY NewFrame
    <3>2. g.held = {}
      BY DEF Frame
    <3> QED BY <3>1, <3>2
  <2> HIDE DEF g
  <2>2. StackGood(Append(s, g), props)
    BY <2>1, Push DEF Stays
  <2>3. /\ Len(Append(s, g)) = Len(s) + 1 /\ Len(s) \in Nat
        /\ \A i \in 1..Len(s) : Append(s, g)[i] = s[i]
        /\ Append(s, g)[Len(s) + 1] = g
    BY <2>1 DEF Stays, StackGood, Good
  <2>4. \A i \in 1..(Len(s) + 1) : i \in 1..Len(s) \/ i = Len(s) + 1
    BY <2>3
  <2>5. Stays(Append(s, g))
    BY <2>1, <2>2, <2>3, <2>4 DEF Stays
  <2> QED BY <1>5, <2>5, LeavesKeeps DEF g
<1> QED BY <1>1, <1>2, <1>3, <1>4, <1>5 DEF SetProperty

LEMMA DefineKeeps ==
  ASSUME IInv, NEW s, Stays(s), NEW o \in Holders, NEW k \in Keys, NEW d \in Descriptors,
         DefineProperty(o, k, d, s), UNCHANGED <<kind, proto, strict>>
  PROVE  Keeps
<1> DEFINE p == props[o][k]
           q == FromDescriptor(d)
<1>1. CASE Refused(p, d)
  BY <1>1, FailKeeps DEF DefineProperty
<1>2. CASE ~Refused(p, d)
  <2>1. d \in Descriptor
    BY ObjectsAssumption
  <2>2. q \in Property /\ Attributes(q) \in Declared /\ q # Absent
        /\ q.configurable = d.configurable /\ q.accessor = IsAccessor(d)
    <3>1. q \in Property /\ q.configurable = d.configurable /\ q.accessor = IsAccessor(d)
      BY <2>1, ObjectsAssumption DEF FromDescriptor, Descriptor, Property, IsAccessor
    <3>2. Attributes(q) \in Declared /\ q # Absent
      BY <3>1, ObjectsAssumption DEF Property, Attributes, Declared
    <3> QED BY <3>1, <3>2
  <2> HIDE DEF q
  <2>3. Locks(o, p, q)
    <3>1. CASE p # Absent /\ ~p.configurable
      <4>1. ~d.configurable /\ p.accessor = IsAccessor(d)
        BY <1>2, <3>1 DEF Refused
      <4> QED BY <4>1, <2>2 DEF Locks
    <3>2. CASE ~(p # Absent /\ ~p.configurable)
      BY <3>2 DEF Locks
    <3> QED BY <3>1, <3>2
  <2>4. Write(o, k, q, Attributes(q), s)
    BY <1>2 DEF DefineProperty, q
  <2> QED BY <2>2, <2>3, <2>4, WriteKeeps
<1> QED BY <1>1, <1>2

-----------------------------------------------------------------------------
(* The invariant *)

LEMMA InitGood == Init => IInv
<1> SUFFICES ASSUME Init PROVE IInv
  OBVIOUS
<1>1. New(Undef) \in Property /\ Attributes(New(Undef)) \in Declared
  BY ObjectsAssumption, NewIsProperty
<1>2. TypeOK
  BY <1>1, ObjectsAssumption DEF Init, TypeOK, Properties
<1>3. StackGood(stack, props)
  BY DEF Init, StackGood
<1>4. AttributesKept
  BY DEF Init, AttributesKept
<1> QED BY <1>2, <1>3, <1>4 DEF IInv

(* A call that changes no property *)
LEMMA CallKeeps ==
  ASSUME IInv, UNCHANGED <<kind, props, strict, declared>>,
         proto' \in [Holders -> Holders \cup {None}],
         status' \in {"running", "panicked", "hung"}, StackGood(stack', props)
  PROVE  Keeps
<1>1. TypeOK'
  BY DEF IInv, TypeOK, StackGood
<1>2. StackGood(stack', props')
  OBVIOUS
<1>3. AttributesKept' /\ LockedStep
  BY DEF IInv, AttributesKept, LockedStep
<1> QED BY <1>1, <1>2, <1>3 DEF Keeps, IInv

LEMMA GetKeeps ==
  ASSUME IInv, NEW o \in Holders, NEW k \in Keys, Get(o, k)
  PROVE  Keeps
<1>1. UNCHANGED <<kind, props, strict, declared>> /\ proto' \in [Holders -> Holders \cup {None}]
  BY DEF Get, IInv, TypeOK
<1>2. CASE status' = "hung" /\ UNCHANGED stack
  BY <1>1, <1>2, StackStays, LeaveKeeps
<1>3. CASE \E h \in Holders : stack' = Append(stack, Frame("getter", {h}, None, {}))
  <2>1. PICK h \in Holders : stack' = Append(stack, Frame("getter", {h}, None, {}))
    BY <1>3
  <2>2. StackGood(stack', props)
    BY <2>1, NewFrame, Push DEF IInv
  <2>3. status' \in {"running", "panicked", "hung"}
    BY DEF Get, IInv, TypeOK
  <2> QED BY <1>1, <2>2, <2>3, CallKeeps
<1> QED BY <1>2, <1>3 DEF Get, Goes

LEMMA DeleteKeeps ==
  ASSUME IInv, NEW o \in Holders, NEW k \in Keys, Delete(o, k)
  PROVE  Keeps
<1>1. Stays(stack)
  BY StackStays
<1>2. CASE /\ o \in Held \/ (props[o][k] # Absent /\ props[o][k].configurable)
           /\ Write(o, k, Absent, Attributes(New(Undef)), stack)
  <2>1. o \notin Held => Locks(o, props[o][k], Absent)
    BY <1>2 DEF Locks
  <2>2. Attributes(New(Undef)) \in Declared
    BY ObjectsAssumption, NewIsProperty
  <2> QED BY <1>1, <1>2, <2>1, <2>2, WriteKeeps DEF Delete
<1>3. CASE Fail(stack)
  BY <1>1, <1>3, FailKeeps DEF Delete
<1>4. CASE Leave(stack)
  BY <1>1, <1>4, LeavesKeeps DEF Delete
<1> QED BY <1>2, <1>3, <1>4 DEF Delete

LEMMA SetPrototypeOfKeeps ==
  ASSUME IInv, NEW o \in Holders, NEW p \in Holders \cup {None}, SetPrototypeOf(o, p)
  PROVE  Keeps
<1>1. proto' \in [Holders -> Holders \cup {None}]
  BY DEF SetPrototypeOf, IInv, TypeOK
<1>2. status' \in {"running", "panicked", "hung"} /\ stack' = stack
      /\ UNCHANGED <<kind, props, strict, declared>>
  BY DEF SetPrototypeOf, IInv, TypeOK
<1> QED BY <1>1, <1>2, StackStays, LeaveKeeps

LEMMA CallLoopKeeps ==
  ASSUME IInv, NEW k \in {"assign", "define"}, NEW o \in Holders, NEW source \in Holders,
         CallLoop(k, o, source)
  PROVE  Keeps
<1>1. StackGood(Append(stack, Frame(k, {source}, o, OwnKeys(source))), props)
  BY NewLoop, Push DEF IInv
<1> QED BY <1>1, CallKeeps DEF CallLoop, Goes, IInv, TypeOK

LEMMA AccessorReturnKeeps ==
  ASSUME IInv, Return \/ Throw
  PROVE  Keeps
<1>1. stack # <<>>
  BY DEF Return, Throw, In
<1>2. Stays(Below)
  BY <1>1, BelowStays
<1> QED BY <1>2, LeavesKeeps, FailKeeps DEF Return, Throw

LEMMA LoopDoneKeeps ==
  ASSUME IInv, LoopDone
  PROVE  Keeps
<1>1. stack # <<>>
  BY DEF LoopDone, In
<1> QED BY <1>1, BelowStays, LeavesKeeps DEF LoopDone

LEMMA AssignNextKeeps ==
  ASSUME IInv, AssignNext
  PROVE  Keeps
<1> DEFINE k == FirstOf(Top.todo)
           p == props[Source][k]
<1>1. stack # <<>> /\ Top.k = "assign" /\ Top.todo # {}
  BY DEF AssignNext, In
<1>2. Good(Top, props) /\ Stays(PastKey)
  BY <1>1, BelowStays, PastKeyStays
<1>3. Source \in Holders /\ Top.held = {Source} /\ Top.target \in Holders
      /\ \A j \in Top.todo : props[Source][j] # Absent
  <2>1. PICK h \in Holders : Top.held = {h} /\ \A j \in Top.todo : props[h][j] # Absent
    BY <1>1, <1>2 DEF Good
  <2>2. Top.held = {Source} /\ Source \in Holders
    BY <2>1 DEF Source
  <2> QED BY <1>1, <1>2, <2>1, <2>2 DEF Good
<1>4. k \in Top.todo /\ k \in Keys
  <2>1. Top.todo \in SUBSET Keys
    BY <1>2 DEF Good, Frames
  <2> QED BY <1>1, <2>1, FirstOfIsOne
<1>5. p.value \in Vals
  <2>1. p \in Property
    BY <1>3, <1>4 DEF IInv, TypeOK, Properties
  <2> QED BY <2>1 DEF Property
<1>6. CASE SetProperty(Top.target, k, p.value, PastKey)
  BY <1>2, <1>3, <1>4, <1>5, <1>6, SetKeeps DEF AssignNext
<1>7. CASE Leave(PastKey)
  BY <1>2, <1>7, LeavesKeeps DEF AssignNext
<1> QED BY <1>6, <1>7 DEF AssignNext

LEMMA DefineNextKeeps ==
  ASSUME IInv, NEW d \in Descriptors, DefineNext(d)
  PROVE  Keeps
<1>1. stack # <<>> /\ Top.k = "define" /\ Top.todo # {}
  BY DEF DefineNext, In
<1>2. Good(Top, props) /\ Stays(PastKey)
  BY <1>1, BelowStays, PastKeyStays
<1>3. Top.target \in Holders
  BY <1>1, <1>2 DEF Good
<1>4. FirstOf(Top.todo) \in Keys
  <2>1. Top.todo \in SUBSET Keys
    BY <1>2 DEF Good, Frames
  <2> QED BY <1>1, <2>1, FirstOfIsOne
<1> QED BY <1>2, <1>3, <1>4, DefineKeeps DEF DefineNext

LEMMA StepKeeps == IInv /\ [Next]_vars => IInv' /\ [LockedStep]_vars
<1> SUFFICES ASSUME IInv, [Next]_vars PROVE Keeps \/ (IInv' /\ UNCHANGED vars)
  BY DEF Keeps
<1>1. CASE UNCHANGED vars
  BY <1>1 DEF vars, IInv, TypeOK, AttributesKept
<1>2. ASSUME NEW o \in Holders, NEW k \in Keys, Get(o, k) PROVE Keeps
  BY <1>2, GetKeeps
<1>3. ASSUME NEW o \in Holders, NEW k \in Keys, NEW v \in Vals, Set(o, k, v) PROVE Keeps
  BY <1>3, StackStays, SetKeeps DEF Set
<1>4. ASSUME NEW o \in Holders, NEW k \in Keys, NEW d \in Descriptors, Define(o, k, d)
      PROVE  Keeps
  BY <1>4, StackStays, DefineKeeps DEF Define
<1>5. ASSUME NEW o \in Holders, NEW k \in Keys, Delete(o, k) PROVE Keeps
  BY <1>5, DeleteKeeps
<1>6. ASSUME NEW o \in Holders, NEW p \in Holders \cup {None}, SetPrototypeOf(o, p)
      PROVE  Keeps
  BY <1>6, SetPrototypeOfKeeps
<1>7. ASSUME NEW o \in Holders, NEW source \in Holders,
             Assign(o, source) \/ DefineProperties(o, source)
      PROVE  Keeps
  BY <1>7, CallLoopKeeps DEF Assign, DefineProperties
<1>8. CASE Return \/ Throw
  BY <1>8, AccessorReturnKeeps
<1>9. CASE LoopDone
  BY <1>9, LoopDoneKeeps
<1>10. CASE AssignNext
  BY <1>10, AssignNextKeeps
<1>11. ASSUME NEW d \in Descriptors, DefineNext(d) PROVE Keeps
  BY <1>11, DefineNextKeeps
<1> QED BY <1>1, <1>2, <1>3, <1>4, <1>5, <1>6, <1>7, <1>8, <1>9, <1>10, <1>11
        DEF Next, UserStep, EngineStep

(* The invariant holds of every reachable state, whatever holders, keys,   *)
(* prototypes and descriptors there are and however deep accessors nest.   *)
THEOREM ObjectsInvariance == Spec => []IInv
<1>1. IInv /\ [Next]_vars => IInv'
  BY StepKeeps
<1> QED BY <1>1, InitGood, PTL DEF Spec

(* Every variable of the property model keeps its type. *)
THEOREM ObjectsTypeCorrect == Spec => []TypeOK
<1>1. IInv => TypeOK
  BY DEF IInv
<1> QED BY <1>1, ObjectsInvariance, PTL

(* What a getter or a loop of the engine holds borrowed does not change    *)
(* under it: the copies of Object.assign are of the source as it was.      *)
THEOREM HeldSteadyAlways == Spec => []HeldSteady
<1>1. IInv => HeldSteady
  <2> SUFFICES ASSUME IInv, NEW i \in DOMAIN stack, NEW h \in stack[i].held
               PROVE  props[h] = stack[i].seen[h]
    BY DEF HeldSteady
  <2>1. i \in 1..Len(stack)
    BY DEF IInv, TypeOK
  <2> QED BY <2>1 DEF IInv, StackGood, Good
<1> QED BY <1>1, ObjectsInvariance, PTL

(* No assignment, copy or setter changes the attributes a property was     *)
(* made or last defined with.                                              *)
THEOREM AttributesKeptAlways == Spec => []AttributesKept
<1>1. IInv => AttributesKept
  BY DEF IInv
<1> QED BY <1>1, ObjectsInvariance, PTL

(* A property that is not configurable stays, and stays what it is.        *)
THEOREM LockedStaysAlways == Spec => LockedStays
<1>1. IInv /\ [Next]_vars => [LockedStep]_vars
  BY StepKeeps
<1>2. Spec => []IInv
  BY ObjectsInvariance
<1> QED BY <1>1, <1>2, PTL DEF Spec, LockedStays, LockedStep
=============================================================================
