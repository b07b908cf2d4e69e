--------------------------- MODULE CombinatorsProofs ---------------------------
(* Machine-checked proofs about Combinators, for every value of its constants. *)
EXTENDS Combinators, SequenceTheorems, FiniteSetTheorems, TLAPS

-----------------------------------------------------------------------------
(* Facts about sequences *)

(* A member of a sequence over a set is in the set. *)
LEMMA Member == ASSUME NEW S, NEW s \in Seq(S), NEW i \in DOMAIN s PROVE s[i] \in S
OBVIOUS

(* A non-empty set of naturals has a least member. *)
LEMMA LeastNat ==
    ASSUME NEW T, T \subseteq Nat, T # {}
    PROVE  \E n \in T : \A m \in T : n <= m
<1> DEFINE R == OpToRel(<, Nat)
<1>1. PICK n \in T : \A m \in T : ~(<<m, n>> \in R)
    BY NatLessThanWellFounded, WFMin
<1>2. \A m \in T : ~(m < n)
    BY <1>1 DEF OpToRel
<1> QED BY <1>2

(* The sequences s[1], s[1] \o s[2], ... *)
IsFlatten(f, s, n) ==
    f = [i \in 1 .. n |-> IF i = 1 THEN s[i] ELSE f[i - 1] \o s[i]]

Flattens(s, n) == \E f : IsFlatten(f, s, n)

(* There is such a function ... *)
LEMMA FlattenExists ==
    ASSUME NEW s \in Seq(Seq(Int)), NEW n \in 1 .. Len(s)
    PROVE  Flattens(s, n)
<1> DEFINE Bad == {k \in 1 .. Len(s) : ~Flattens(s, k)}
<1> SUFFICES ASSUME n \in Bad PROVE FALSE
    OBVIOUS
<1>1. Len(s) \in Nat /\ Bad \subseteq Nat
    OBVIOUS
<1>2. PICK m \in Bad : \A k \in Bad : m <= k
    BY <1>1, LeastNat
<1>3. m \in Nat /\ m \in 1 .. Len(s) /\ ~Flattens(s, m)
    BY <1>1
<1>4. \A k \in 1 .. Len(s) : k < m => Flattens(s, k)
    BY <1>1, <1>2
<1> HIDE DEF Bad
<1>5. CASE m = 1
    <2>1. IsFlatten([i \in 1 .. 1 |-> s[1]], s, 1)
        BY DEF IsFlatten
    <2> QED BY <1>3, <1>5, <2>1 DEF Flattens
<1>6. CASE m # 1
    <2>1. m - 1 \in 1 .. Len(s) /\ m - 1 < m
        BY <1>1, <1>3, <1>6
    <2>2. PICK f : IsFlatten(f, s, m - 1)
        BY <1>4, <2>1 DEF Flattens
    <2> DEFINE g == [i \in 1 .. m |-> IF i = m THEN f[m - 1] \o s[m] ELSE f[i]]
    <2>3. \A i \in 1 .. m - 1 : g[i] = f[i]
        BY <1>3
    <2>4. g[m] = g[m - 1] \o s[m]
        <3>1. m \in 1 .. m /\ m - 1 \in 1 .. m - 1
            BY <1>3, <2>1
        <3>2. g[m] = f[m - 1] \o s[m]
            BY <3>1
        <3> HIDE DEF g
        <3> QED BY <2>3, <3>1, <3>2
    <2>5. \A i \in 1 .. m - 1 : f[i] = IF i = 1 THEN s[i] ELSE f[i - 1] \o s[i]
        BY <2>2 DEF IsFlatten
    <2>6. DOMAIN g = 1 .. m /\ g = [i \in 1 .. m |-> g[i]]
        OBVIOUS
    <2> HIDE DEF g
    <2>7. \A i \in 1 .. m : g[i] = IF i = 1 THEN s[i] ELSE g[i - 1] \o s[i]
        <3> SUFFICES ASSUME NEW i \in 1 .. m
                     PROVE  g[i] = IF i = 1 THEN s[i] ELSE g[i - 1] \o s[i]
            OBVIOUS
        <3>1. CASE i = m
            BY <3>1, <1>6, <2>4
        <3>2. CASE i # m
            <4>1. i \in 1 .. m - 1 /\ (i # 1 => i - 1 \in 1 .. m - 1)
                BY <3>2, <1>3
            <4> QED BY <2>3, <2>5, <4>1
        <3> QED BY <3>1, <3>2
    <2>8. IsFlatten(g, s, m)
        BY <2>6, <2>7 DEF IsFlatten
    <2> QED BY <2>8, <1>3 DEF Flattens
<1> QED BY <1>5, <1>6

(* ... and its last value is a sequence of integers. *)
LEMMA FlattenType ==
    ASSUME NEW s \in Seq(Seq(Int))
    PROVE  FlattenSeq(s) \in Seq(Int)
<1>1. CASE Len(s) = 0
    BY <1>1 DEF FlattenSeq
<1>2. CASE Len(s) # 0
    <2> DEFINE F == CHOOSE f : IsFlatten(f, s, Len(s))
    <2>1. Len(s) \in 1 .. Len(s)
        BY <1>2
    <2>2. IsFlatten(F, s, Len(s))
        BY <2>1, FlattenExists DEF Flattens
    <2>3. FlattenSeq(s) = F[Len(s)]
        BY <1>2 DEF FlattenSeq, IsFlatten
    <2> HIDE DEF F
    <2> DEFINE Bad == {i \in 1 .. Len(s) : F[i] \notin Seq(Int)}
    <2>4. ASSUME Bad # {} PROVE FALSE
        <3>0. Bad \subseteq Nat
            OBVIOUS
        <3>1. PICK m \in Bad : \A k \in Bad : m <= k
            <4> HIDE DEF Bad
            <4> QED BY <2>4, <3>0, LeastNat
        <3>2. F[m] = IF m = 1 THEN s[m] ELSE F[m - 1] \o s[m]
            BY <2>2, <3>1 DEF IsFlatten
        <3>3. m # 1 => F[m - 1] \in Seq(Int)
            BY <3>1
        <3>4. s[m] \in Seq(Int)
            BY <3>1
        <3>5. F[m] \in Seq(Int)
            BY <3>2, <3>3, <3>4
        <3> QED BY <3>1, <3>5
    <2> QED BY <2>1, <2>3, <2>4
<1> QED BY <1>1, <1>2

(* An array of values is a value. *)
LEMMA ArrayType ==
    ASSUME NEW p \in Int, NEW s \in Seq(Seq(Int))
    PROVE  ArrayFor(p, s) \in Seq(Int)
BY FlattenType DEF ArrayFor

(* What is in a sequence, and what reactions are in a sequence of jobs *)
In(x, s) == \E i \in DOMAIN s : s[i] = x
InJobs(r, jobs) == \E i \in DOMAIN jobs : jobs[i].r = r

(* The jobs a settlement triggers *)
Fired(rs, s) == [i \in DOMAIN rs |-> JobOf(rs[i], s)]

LEMMA InEmpty == \A x : ~In(x, <<>>) /\ ~InJobs(x, <<>>)
BY DEF In, InJobs

LEMMA InOne == ASSUME NEW y PROVE \A x : In(x, <<y>>) <=> x = y
BY DEF In

LEMMA InJobsOne == ASSUME NEW y PROVE \A x : InJobs(x, <<y>>) <=> x = y.r
BY DEF InJobs

(* A member of a concatenation is a member of one of the two. *)
LEMMA InConcat ==
    ASSUME NEW T, NEW s \in Seq(T), NEW t \in Seq(T)
    PROVE  /\ \A x : In(x, s \o t) <=> In(x, s) \/ In(x, t)
           /\ \A x : InJobs(x, s \o t) <=> InJobs(x, s) \/ InJobs(x, t)
<1> DEFINE u == s \o t
<1>1. \A i \in DOMAIN s : i \in DOMAIN u /\ u[i] = s[i]
    BY ConcatProperties
<1>2. \A i \in DOMAIN t : i + Len(s) \in DOMAIN u /\ u[i + Len(s)] = t[i]
    BY ConcatProperties
<1>3. \A k \in DOMAIN u : \/ k \in DOMAIN s /\ u[k] = s[k]
                          \/ k - Len(s) \in DOMAIN t /\ u[k] = t[k - Len(s)]
    BY ConcatProperties
<1> HIDE DEF u
<1>4. \A x : In(x, u) <=> In(x, s) \/ In(x, t)
    BY <1>1, <1>2, <1>3 DEF In
<1>5. \A x : InJobs(x, u) <=> InJobs(x, s) \/ InJobs(x, t)
    BY <1>1, <1>2, <1>3 DEF InJobs
<1> QED BY <1>4, <1>5 DEF u

LEMMA InAppend ==
    ASSUME NEW T, NEW s \in Seq(T), NEW y \in T
    PROVE  /\ \A x : In(x, Append(s, y)) <=> In(x, s) \/ x = y
           /\ \A x : InJobs(x, Append(s, y)) <=> InJobs(x, s) \/ x = y.r
<1> DEFINE one == <<y>>
<1>1. Append(s, y) = s \o one /\ one \in Seq(T)
    OBVIOUS
<1>2. (\A x : In(x, one) <=> x = y) /\ (\A x : InJobs(x, one) <=> x = y.r)
    BY InOne, InJobsOne
<1> HIDE DEF one
<1> QED BY <1>1, <1>2, InConcat

LEMMA InHeadTail ==
    ASSUME NEW T, NEW s \in Seq(T), s # <<>>
    PROVE  /\ Head(s) \in T /\ Tail(s) \in Seq(T) /\ In(Head(s), s)
           /\ \A x : In(x, s) <=> x = Head(s) \/ In(x, Tail(s))
           /\ \A x : InJobs(x, s) <=> x = Head(s).r \/ InJobs(x, Tail(s))
<1> DEFINE one == <<Head(s)>>
           rest == Tail(s)
<1>1. Head(s) \in T /\ rest \in Seq(T) /\ s = one \o rest /\ one \in Seq(T)
    OBVIOUS
<1>2. (\A x : In(x, one) <=> x = Head(s)) /\ (\A x : InJobs(x, one) <=> x = Head(s).r)
    BY InOne, InJobsOne
<1> HIDE DEF one, rest
<1>3. /\ \A x : In(x, s) <=> x = Head(s) \/ In(x, rest)
      /\ \A x : InJobs(x, s) <=> x = Head(s).r \/ InJobs(x, rest)
    BY <1>1, <1>2, InConcat
<1> QED BY <1>1, <1>3 DEF rest

LEMMA InFired ==
    ASSUME NEW rs, NEW s
    PROVE  /\ \A j : In(j, Fired(rs, s)) <=> \E r : In(r, rs) /\ j = JobOf(r, s)
           /\ \A r : InJobs(r, Fired(rs, s)) <=> In(r, rs)
<1>1. \A j : In(j, Fired(rs, s)) <=> \E r : In(r, rs) /\ j = JobOf(r, s)
    BY DEF In, Fired
<1>2. \A r : InJobs(r, Fired(rs, s)) <=> In(r, rs)
    BY DEF In, InJobs, Fired, JobOf
<1> QED BY <1>1, <1>2

-----------------------------------------------------------------------------
(* The sets the state is made of *)

Item == 0 .. Sources + MaxCalls
Settlement == {s \in State : s.st # "pending"}
ReactionSet == [kind : AllKinds \cup {"custom", "user"}, of : Nat, index : Nat]
JobSet == [r : ReactionSet, s : Settlement]
CallSet == [kind : AllKinds, items : Seq(Item), cap : Nat, left : Int,
            results : Seq(Seq(Int)), settled : BOOLEAN, next : Nat, at : Nat,
            threw : BOOLEAN]
CapSet == [of : Nat, on : SUBSET {"fulfilled", "rejected"}, calls : Seq(Settlement)]

(* A pending promise has reactions exactly when it was ever listened to,   *)
(* and a settled one has none.                                             *)
Ledger ==
    /\ state \in [Promise -> State]
    /\ reactions \in [Promise -> Seq(ReactionSet)]
    /\ unhandled \in SUBSET Promise
    /\ listened \in SUBSET Promise
    /\ \A p \in Promise :
          IsPending(p) => state[p] = Pending /\ (p \in listened <=> reactions[p] # <<>>)
    /\ \A p \in Promise : ~IsPending(p) => reactions[p] = <<>>
    /\ UnhandledExact

(* The result of a call that was not made yet is nobody's. *)
Unmade == \A p \in Promise : p > Sources + Len(aggs) => IsPending(p) /\ p \notin listened

(* The ghost list of settlements has every settled promise once. *)
Listed ==
    /\ order \in Seq(Promise)
    /\ IsInjective(order)
    /\ \A p \in Promise : In(p, order) <=> ~IsPending(p)

(* Only a pending promise changes its state, and then it settles. *)
Keeps == \A q \in Promise : state'[q] # state[q] => IsPending(q) /\ ~IsPending(q)'

LEMMA SettlementTypes ==
    /\ \A v \in Seq(Int) : Fulfilled(v) \in Settlement /\ Rejected(v) \in Settlement
    /\ \A v : Fulfilled(v).st = "fulfilled" /\ Rejected(v).st = "rejected"
    /\ \A s \in Settlement : s \in State /\ s.st # "pending" /\ s.st \in {"fulfilled", "rejected"}
    /\ Pending \in State /\ Pending.st = "pending"
BY DEF Fulfilled, Rejected, Settlement, State, Pending

LEMMA PlainTypes == Fulfilled(<<Plain>>) \in Settlement /\ Rejected(<<Plain>>) \in Settlement
<1>1. <<Plain>> \in Seq(Int)
    BY DEF Plain
<1> QED BY <1>1, SettlementTypes

(* The reactions of a promise, each with its settlement, are jobs. *)
LEMMA FiredType ==
    ASSUME NEW rs \in Seq(ReactionSet), NEW s \in Settlement
    PROVE  Fired(rs, s) \in Seq(JobSet)
<1>1. \A i \in 1 .. Len(rs) : JobOf(rs[i], s) \in JobSet
    BY DEF JobOf, JobSet
<1>2. Fired(rs, s) = [i \in 1 .. Len(rs) |-> JobOf(rs[i], s)]
    BY DEF Fired
<1> QED BY <1>1, <1>2, SeqDef

(* fulfill_promise and reject_promise keep the ledger well formed. *)
LEMMA SettleLedger ==
    ASSUME Ledger, NEW p \in Promise,
           NEW s \in Settlement, NEW rest \in Seq(JobSet), Settle(p, s, rest),
           UNCHANGED listened
    PROVE  Ledger' /\ Keeps /\ firing' \in Seq(JobSet)
<1> USE DEF IsPending
<1>1. CASE ~IsPending(p)
    <2>1. firing' = rest /\ UNCHANGED promises
        BY <1>1 DEF Settle
    <2>2. UNCHANGED <<state, reactions, unhandled, listened>>
        BY <2>1 DEF promises
    <2> QED BY <2>1, <2>2 DEF Ledger, UnhandledExact, Keeps
<1>2. CASE IsPending(p)
    <2>1. /\ state' = [state EXCEPT ![p] = s]
          /\ reactions' = [reactions EXCEPT ![p] = <<>>]
          /\ firing' = Fired(reactions[p], s) \o rest
          /\ unhandled' = IF s.st = "rejected" /\ reactions[p] = <<>>
                          THEN unhandled \cup {p} ELSE unhandled
        BY <1>2 DEF Settle, Fired
    <2>2. state \in [Promise -> State] /\ reactions \in [Promise -> Seq(ReactionSet)]
        BY DEF Ledger
    <2>3. s \in State /\ s.st # "pending"
        BY DEF Settlement
    <2>4. state' \in [Promise -> State] /\ reactions' \in [Promise -> Seq(ReactionSet)]
        BY <2>1, <2>2, <2>3
    <2>5. /\ state'[p] = s /\ reactions'[p] = <<>>
          /\ \A q \in Promise : q # p => state'[q] = state[q] /\ reactions'[q] = reactions[q]
        BY <2>1, <2>2
    <2>6. Keeps
        BY <1>2, <2>3, <2>5 DEF Keeps
    <2>7. firing' \in Seq(JobSet)
        BY <2>1, <2>2, FiredType, ConcatProperties
    <2>8. p \in listened <=> reactions[p] # <<>>
        BY <1>2 DEF Ledger
    <2>9. UnhandledExact'
        <3> SUFFICES ASSUME NEW q \in Promise
                     PROVE  q \in unhandled' <=> state'[q].st = "rejected" /\ q \notin listened'
            BY DEF UnhandledExact
        <3>1. q \in unhandled <=> state[q].st = "rejected" /\ q \notin listened
            BY DEF Ledger, UnhandledExact
        <3> QED BY <1>2, <2>1, <2>5, <2>8, <3>1
    <2>11. \A q \in Promise : IsPending(q)' =>
                state'[q] = Pending /\ (q \in listened' <=> reactions'[q] # <<>>)
        BY <2>3, <2>5 DEF Ledger
    <2>12. \A q \in Promise : ~IsPending(q)' => reactions'[q] = <<>>
        BY <2>5 DEF Ledger
    <2>13. unhandled' \in SUBSET Promise /\ listened' \in SUBSET Promise
        BY <2>1 DEF Ledger
    <2> QED BY <2>4, <2>6, <2>7, <2>9, <2>11, <2>12, <2>13 DEF Ledger
<1> QED BY <1>1, <1>2

(* A settlement is listed last, when it is one. *)
LEMMA SettleListed ==
    ASSUME Ledger, Listed, NEW p \in Promise, NEW s \in Settlement, NEW rest, Settle(p, s, rest)
    PROVE  Listed'
<1> USE DEF IsPending
<1>1. CASE ~IsPending(p)
    <2>1. order' = order /\ state' = state
        BY <1>1 DEF Settle, promises
    <2>2. \A q : In(q, order') <=> In(q, order)
        BY <2>1
    <2> QED BY <2>1 DEF Listed, In
<1>2. CASE IsPending(p)
    <2>1. state' = [state EXCEPT ![p] = s] /\ order' = Append(order, p)
        BY <1>2 DEF Settle
    <2>2. /\ state'[p].st # "pending"
          /\ \A q \in Promise : q # p => state'[q] = state[q]
        BY <2>1 DEF Ledger, Settlement
    <2>3. order \in Seq(Promise) /\ order' \in Seq(Promise)
        BY <2>1 DEF Listed
    <2>4. \A q \in Promise : In(q, order') <=> ~IsPending(q)'
        BY <1>2, <2>1, <2>2, <2>3, InAppend DEF Listed
    <2>5. PICK n \in Nat : n = Len(order) /\ DOMAIN order = 1 .. n
        BY <2>3
    <2>6. /\ DOMAIN order' = 1 .. n + 1 /\ order'[n + 1] = p
          /\ \A i \in 1 .. n : order'[i] = order[i]
        BY <2>1, <2>3, <2>5
    <2>7. \A i \in 1 .. n : order[i] # p
        BY <1>2, <2>5 DEF Listed, In
    <2>8. IsInjective(order')
        <3> SUFFICES ASSUME NEW i \in 1 .. n + 1, NEW j \in 1 .. n + 1, order'[i] = order'[j]
                     PROVE  i = j
            BY <2>6 DEF IsInjective
        <3>1. (i \in 1 .. n \/ i = n + 1) /\ (j \in 1 .. n \/ j = n + 1)
            BY <2>5
        <3> QED BY <3>1, <2>5, <2>6, <2>7 DEF Listed, IsInjective
    <2> QED BY <2>3, <2>4, <2>8 DEF Listed, In
<1> QED BY <1>1, <1>2

(* attach_reaction keeps the ledger well formed. *)
LEMMA AttachLedger ==
    ASSUME Ledger, NEW p \in Promise,
           NEW r \in ReactionSet, Attach(p, r), firing \in Seq(JobSet)
    PROVE  Ledger' /\ Keeps /\ firing' \in Seq(JobSet)
<1> USE DEF IsPending
<1>1. /\ unhandled' = unhandled \ {p} /\ listened' = listened \cup {p} /\ state' = state
    BY DEF Attach
<1>2. state \in [Promise -> State] /\ reactions \in [Promise -> Seq(ReactionSet)]
    BY DEF Ledger
<1>3. UnhandledExact'
    BY <1>1 DEF Ledger, UnhandledExact
<1>5. unhandled' \in SUBSET Promise /\ listened' \in SUBSET Promise
    BY <1>1 DEF Ledger
<1>6. CASE ~IsPending(p)
    <2>1. firing' = <<JobOf(r, state[p])>> /\ reactions' = reactions
        BY <1>6 DEF Attach
    <2>2. JobOf(r, state[p]) \in JobSet
        BY <1>2, <1>6 DEF JobOf, JobSet, Settlement
    <2>3. firing' \in Seq(JobSet)
        BY <2>1, <2>2
    <2> QED BY <1>1, <1>2, <1>3, <1>5, <1>6, <2>1, <2>3 DEF Ledger, Keeps
<1>7. CASE IsPending(p)
    <2>1. firing' = firing /\ reactions' = [reactions EXCEPT ![p] = Append(@, r)]
        BY <1>7 DEF Attach
    <2>2. /\ reactions'[p] = Append(reactions[p], r) /\ reactions[p] \in Seq(ReactionSet)
          /\ \A q \in Promise : q # p => reactions'[q] = reactions[q]
        BY <1>2, <2>1
    <2>3. reactions'[p] # <<>> /\ reactions'[p] \in Seq(ReactionSet)
        BY <2>2
    <2>4. reactions' \in [Promise -> Seq(ReactionSet)]
        BY <1>2, <2>1, <2>2
    <2>5. \A q \in Promise : IsPending(q)' =>
                state'[q] = Pending /\ (q \in listened' <=> reactions'[q] # <<>>)
        BY <1>1, <2>2, <2>3 DEF Ledger
    <2>6. \A q \in Promise : ~IsPending(q)' => reactions'[q] = <<>>
        BY <1>1, <1>7, <2>2 DEF Ledger
    <2> QED BY <1>1, <1>2, <1>3, <1>5, <2>1, <2>4, <2>5, <2>6 DEF Ledger, Keeps
<1> QED BY <1>6, <1>7

-----------------------------------------------------------------------------
(* Calls, capabilities and what hangs on a promise *)

CallOK(a) ==
    /\ \A i \in DOMAIN aggs[a].items : aggs[a].items[i] < Raw(a)
    /\ aggs[a].next \in 1 .. Len(aggs[a].items) + 1
    /\ Len(aggs[a].results) = Len(aggs[a].items)
    /\ aggs[a].cap \in 0 .. Len(caps)
    /\ aggs[a].cap # 0 /\ ~aggs[a].threw => caps[aggs[a].cap].of = Raw(a)
    /\ aggs[a].threw => aggs[a].items = <<>>
    /\ a < Len(aggs) \/ call = "none" => aggs[a].next = Len(aggs[a].items) + 1

(* A call has elements older than its result, and a capability, if any,    *)
(* that follows its result.  Only the last call may be attaching elements. *)
Shape ==
    /\ aggs \in Seq(CallSet)
    /\ caps \in Seq(CapSet)
    /\ Len(aggs) + Len(caps) <= MaxCalls
    /\ \A a \in DOMAIN aggs : CallOK(a)
    /\ call \in {"none", "attach"}
    /\ call = "attach" => aggs # <<>> /\ ~aggs[Len(aggs)].threw
    /\ \A c \in DOMAIN caps : caps[c].of \in 0 .. Sources + Len(aggs)
    /\ running \in 0 .. Len(caps)

(* A reaction hangs on the promise, or the plain value, that is the        *)
(* element it was made for, or that the capability follows.                *)
HangsOn(r, q) ==
    \/ /\ r.kind \in AllKinds /\ r.of \in DOMAIN aggs
       /\ aggs[r.of].kind = r.kind
       /\ r.index \in DOMAIN aggs[r.of].items /\ r.index < aggs[r.of].next
       /\ aggs[r.of].items[r.index] = q
    \/ /\ r.kind = "custom" /\ r.of \in DOMAIN caps /\ r.index = 0
       /\ caps[r.of].of = q /\ q \in Promise
    \/ r.kind = "user" /\ q \in Promise

StateOf(q) == IF q = Plain THEN Fulfilled(<<Plain>>) ELSE state[q]

(* A job carries the settlement of what its reaction hangs on. *)
Triggers(j) ==
    \E q \in Item : HangsOn(j.r, q) /\ j.s = StateOf(q) /\ StateOf(q).st # "pending"

Hang ==
    /\ \A q \in Promise : \A r : In(r, reactions[q]) => HangsOn(r, q)
    /\ \A j : In(j, firing) => Triggers(j)
    /\ \A j : In(j, queue) => Triggers(j) /\ j.r.kind \in {"race", "custom"}

Base ==
    /\ Ledger /\ Listed /\ Unmade /\ Shape /\ Hang
    /\ firing \in Seq(JobSet) /\ queue \in Seq(JobSet)

(* Calls and capabilities are added, and keep what they were made with. *)
Grow ==
    /\ Len(aggs) <= Len(aggs') /\ Len(caps) <= Len(caps')
    /\ \A a \in DOMAIN aggs :
          /\ a \in DOMAIN aggs'
          /\ aggs'[a].kind = aggs[a].kind /\ aggs'[a].items = aggs[a].items
          /\ aggs'[a].cap = aggs[a].cap /\ aggs'[a].threw = aggs[a].threw
          /\ aggs'[a].at = aggs[a].at /\ aggs[a].next <= aggs'[a].next
    /\ \A c \in DOMAIN caps :
          c \in DOMAIN caps' /\ caps'[c].of = caps[c].of /\ caps'[c].on = caps[c].on

(* What hangs on a promise goes on to hang on it. *)
LEMMA HangsMono ==
    ASSUME Shape, Shape', Grow, NEW r, NEW q, HangsOn(r, q)
    PROVE  HangsOn(r, q)'
<1>1. CASE r.kind \in AllKinds
    <2> DEFINE a == r.of
    <2>1. a \in DOMAIN aggs /\ aggs[a].kind = r.kind /\ r.index \in DOMAIN aggs[a].items
          /\ r.index < aggs[a].next /\ aggs[a].items[r.index] = q
        BY <1>1 DEF HangsOn, AllKinds
    <2>2. aggs[a].next \in Nat /\ aggs'[a].next \in Nat /\ DOMAIN aggs[a].items \subseteq Nat
        <3> HIDE DEF a
        <3>1. a \in DOMAIN aggs' /\ aggs \in Seq(CallSet) /\ aggs' \in Seq(CallSet)
            BY <2>1 DEF Shape, Grow
        <3>2. aggs[a] \in CallSet /\ aggs'[a] \in CallSet
            BY <2>1, <3>1, Member
        <3> QED BY <3>2 DEF CallSet
    <2> HIDE DEF a
    <2>3. r.index < aggs'[a].next
        BY <2>1, <2>2 DEF Grow
    <2> QED BY <1>1, <2>1, <2>3 DEF HangsOn, Grow, a
<1>2. CASE r.kind = "custom"
    BY <1>2 DEF HangsOn, Grow, AllKinds
<1>3. CASE r.kind = "user"
    BY <1>3 DEF HangsOn, Grow, AllKinds
<1> QED BY <1>1, <1>2, <1>3 DEF HangsOn

LEMMA StateOfKeeps ==
    ASSUME Keeps, NEW q \in Item, StateOf(q).st # "pending"
    PROVE  StateOf(q)' = StateOf(q)
<1>1. q = Plain \/ q \in Promise
    BY CombinatorAssumption DEF Item, Promise, Plain
<1> QED BY <1>1 DEF Keeps, StateOf, IsPending, Plain

LEMMA TriggersMono ==
    ASSUME Shape, Shape', Grow, Keeps, NEW j, Triggers(j)
    PROVE  Triggers(j)'
<1>1. PICK q \in Item : HangsOn(j.r, q) /\ j.s = StateOf(q) /\ StateOf(q).st # "pending"
    BY DEF Triggers
<1>2. HangsOn(j.r, q)' /\ StateOf(q)' = StateOf(q)
    BY <1>1, HangsMono, StateOfKeeps
<1> QED BY <1>1, <1>2 DEF Triggers

(* What hung before goes on hanging; what is new must hang as well. *)
LEMMA HangStep ==
    ASSUME Base, Shape', Grow, Keeps,
           \A q \in Promise : \A r :
              In(r, reactions'[q]) => In(r, reactions[q]) \/ HangsOn(r, q)',
           \A j : In(j, firing') => In(j, firing) \/ Triggers(j)',
           \A j : In(j, queue') => \/ In(j, queue)
                                   \/ In(j, firing) /\ j.r.kind \in {"race", "custom"}
    PROVE  Hang'
<1>1. \A q \in Promise : \A r : In(r, reactions'[q]) => HangsOn(r, q)'
    BY HangsMono DEF Base, Hang
<1>2. \A j : Triggers(j) => Triggers(j)'
    BY TriggersMono DEF Base
<1>3. \A j : In(j, firing') => Triggers(j)'
    BY <1>2 DEF Base, Hang
<1>4. \A j : In(j, queue') => Triggers(j)' /\ j.r.kind \in {"race", "custom"}
    BY <1>2 DEF Base, Hang
<1>5. \A j : In(j, firing)' <=> In(j, firing')
    BY DEF In
<1>6. \A j : In(j, queue)' <=> In(j, queue')
    BY DEF In
<1>7. \A q \in Promise : \A r : In(r, reactions[q])' <=> In(r, reactions'[q])
    BY DEF In
<1> QED BY <1>1, <1>3, <1>4, <1>5, <1>6, <1>7 DEF Hang

LEMMA Lengths ==
    ASSUME Shape, Shape', Grow
    PROVE  /\ Sources \in Nat /\ Len(aggs) \in Nat /\ Len(aggs') \in Nat
           /\ Len(aggs) <= Len(aggs') /\ Promise \subseteq Nat
<1>1. aggs \in Seq(CallSet) /\ aggs' \in Seq(CallSet)
    BY DEF Shape
<1>2. Len(aggs) \in Nat /\ Len(aggs') \in Nat
    BY <1>1
<1>3. Len(aggs) <= Len(aggs')
    BY DEF Grow
<1>4. Sources \in Nat /\ Promise \subseteq Nat
    BY CombinatorAssumption DEF Promise
<1> QED BY <1>2, <1>3, <1>4

LEMMA BaseTypes ==
    ASSUME Shape
    PROVE  /\ Len(aggs) \in Nat /\ Len(caps) \in Nat /\ MaxCalls \in Nat /\ Sources \in Nat
           /\ DOMAIN aggs = 1 .. Len(aggs) /\ DOMAIN caps = 1 .. Len(caps)
           /\ \A a \in DOMAIN aggs :
                 /\ aggs[a] \in CallSet /\ Raw(a) \in Promise
                 /\ Raw(a) \in Nat /\ Raw(a) > Sources /\ Raw(a) <= Sources + Len(aggs)
                 /\ DOMAIN aggs[a].items = 1 .. Len(aggs[a].items)
                 /\ Len(aggs[a].items) \in Nat /\ aggs[a].next \in Nat
                 /\ aggs[a].items \in Seq(Item) /\ aggs[a].results \in Seq(Seq(Int))
           /\ \A c \in DOMAIN caps : caps[c] \in CapSet /\ caps[c].calls \in Seq(Settlement)
<1>1. Len(aggs) \in Nat /\ Len(caps) \in Nat /\ MaxCalls \in Nat /\ Sources \in Nat
    BY CombinatorAssumption DEF Shape
<1>2. DOMAIN aggs = 1 .. Len(aggs) /\ DOMAIN caps = 1 .. Len(caps)
    BY DEF Shape
<1>3. ASSUME NEW a \in DOMAIN aggs
      PROVE  /\ aggs[a] \in CallSet /\ Raw(a) \in Promise
             /\ Raw(a) \in Nat /\ Raw(a) > Sources /\ Raw(a) <= Sources + Len(aggs)
             /\ DOMAIN aggs[a].items = 1 .. Len(aggs[a].items)
             /\ Len(aggs[a].items) \in Nat /\ aggs[a].next \in Nat
             /\ aggs[a].items \in Seq(Item) /\ aggs[a].results \in Seq(Seq(Int))
    <2>1. aggs[a] \in CallSet
        BY Member DEF Shape
    <2>2. aggs[a].items \in Seq(Item) /\ aggs[a].results \in Seq(Seq(Int)) /\ aggs[a].next \in Nat
        BY <2>1 DEF CallSet
    <2>3. a \in 1 .. Len(aggs) /\ Len(aggs) <= MaxCalls
        BY <1>1, <1>2 DEF Shape
    <2>4. Raw(a) \in Promise /\ Raw(a) \in Nat /\ Raw(a) > Sources /\ Raw(a) <= Sources + Len(aggs)
        BY <1>1, <2>3 DEF Raw, Promise
    <2> QED BY <2>1, <2>2, <2>4
<1>4. ASSUME NEW c \in DOMAIN caps
      PROVE  caps[c] \in CapSet /\ caps[c].calls \in Seq(Settlement)
    <2>1. caps[c] \in CapSet
        BY Member DEF Shape
    <2> QED BY <2>1 DEF CapSet
<1> QED BY <1>1, <1>2, <1>3, <1>4

-----------------------------------------------------------------------------
(* Steps of the promise core *)

(* Settling a promise, with a cascade that goes on with jobs it had. *)
LEMMA SettleBase ==
    ASSUME Base, Shape', Grow, NEW p \in Promise, p <= Sources + Len(aggs'),
           NEW s \in Settlement, NEW rest \in Seq(JobSet), Settle(p, s, rest),
           \A j : In(j, rest) => In(j, firing),
           queue' \in Seq(JobSet), \A j : In(j, queue') => In(j, queue),
           UNCHANGED listened
    PROVE  Base' /\ Keeps
<1>1. /\ Sources \in Nat /\ Len(aggs) \in Nat /\ Len(aggs') \in Nat
      /\ Len(aggs) <= Len(aggs') /\ Promise \subseteq Nat
    BY Lengths DEF Base
<1>2. Ledger' /\ Listed' /\ Keeps /\ firing' \in Seq(JobSet)
    BY SettleLedger, SettleListed DEF Base
<1>3. \A q \in Promise : q > Sources + Len(aggs') => q # p /\ q > Sources + Len(aggs)
    BY <1>1
<1>4. state \in [Promise -> State] /\ reactions \in [Promise -> Seq(ReactionSet)]
    BY DEF Base, Ledger
<1>5. CASE ~IsPending(p)
    <2>1. firing' = rest /\ state' = state /\ reactions' = reactions
        BY <1>5 DEF Settle, promises
    <2>2. Unmade'
        BY <1>3, <2>1 DEF Base, Unmade, IsPending
    <2>3. Hang'
        BY <1>2, <2>1, HangStep
    <2> QED BY <1>2, <2>2, <2>3 DEF Base
<1>6. CASE IsPending(p)
    <2>1. /\ state' = [state EXCEPT ![p] = s]
          /\ reactions' = [reactions EXCEPT ![p] = <<>>]
          /\ firing' = Fired(reactions[p], s) \o rest
        BY <1>6 DEF Settle, Fired
    <2>2. /\ state'[p] = s /\ reactions'[p] = <<>>
          /\ \A q \in Promise : q # p => state'[q] = state[q] /\ reactions'[q] = reactions[q]
        BY <1>4, <2>1
    <2>3. Unmade'
        BY <1>3, <2>2 DEF Base, Unmade, IsPending
    <2>4. \A q \in Promise : \A r : In(r, reactions'[q]) => In(r, reactions[q])
        BY <2>2, InEmpty
    <2>5. \A j : In(j, firing') => In(j, Fired(reactions[p], s)) \/ In(j, rest)
        BY <1>4, <2>1, FiredType, InConcat
    <2>6. ASSUME NEW j, In(j, Fired(reactions[p], s)) PROVE Triggers(j)'
        <3>1. PICK r : In(r, reactions[p]) /\ j = JobOf(r, s)
            BY <2>6, InFired
        <3>2. j.r = r /\ j.s = s
            BY <3>1 DEF JobOf
        <3>3. HangsOn(r, p)'
            BY <3>1, HangsMono DEF Base, Hang
        <3>4. p \in Item /\ p # Plain /\ s.st # "pending"
            BY <1>1 DEF Item, Plain, Promise, Settlement
        <3>5. StateOf(p)' = s
            BY <2>2, <3>4 DEF StateOf
        <3> QED BY <3>2, <3>3, <3>4, <3>5 DEF Triggers
    <2>7. Hang'
        BY <1>2, <2>4, <2>5, <2>6, HangStep
    <2> QED BY <1>2, <2>3, <2>7 DEF Base
<1> QED BY <1>5, <1>6

(* Attaching a reaction, when no cascade is under way. *)
LEMMA AttachBase ==
    ASSUME Base, Shape', Grow, NEW p \in Promise, p <= Sources + Len(aggs),
           NEW r \in ReactionSet, Attach(p, r), HangsOn(r, p)',
           firing = <<>>, UNCHANGED queue
    PROVE  Base' /\ Keeps
<1>1. /\ Sources \in Nat /\ Len(aggs) \in Nat /\ Len(aggs') \in Nat
      /\ Len(aggs) <= Len(aggs') /\ Promise \subseteq Nat
    BY Lengths DEF Base
<1>2. Ledger' /\ Listed' /\ Keeps /\ firing' \in Seq(JobSet)
    BY AttachLedger DEF Base, Attach, Listed, In, IsPending
<1>3. \A q \in Promise : q > Sources + Len(aggs') => q # p /\ q > Sources + Len(aggs)
    BY <1>1
<1>4. reactions \in [Promise -> Seq(ReactionSet)]
    BY DEF Base, Ledger
<1>5. listened' = listened \cup {p} /\ state' = state
    BY DEF Attach
<1>6. Unmade'
    BY <1>3, <1>5 DEF Base, Unmade, IsPending
<1>7. CASE ~IsPending(p)
    <2>1. firing' = <<JobOf(r, state[p])>> /\ reactions' = reactions
        BY <1>7 DEF Attach
    <2>2. \A j : In(j, firing') => j = JobOf(r, state[p])
        BY <2>1, InOne
    <2>3. p \in Item /\ p # Plain
        BY <1>1 DEF Item, Plain, Promise
    <2>4. ASSUME NEW j, j = JobOf(r, state[p]) PROVE Triggers(j)'
        BY <1>5, <1>7, <2>3, <2>4 DEF Triggers, StateOf, JobOf, IsPending
    <2>5. Hang'
        BY <1>2, <2>1, <2>2, <2>4, HangStep
    <2> QED BY <1>2, <1>6, <2>5 DEF Base
<1>8. CASE IsPending(p)
    <2>1. firing' = firing /\ reactions' = [reactions EXCEPT ![p] = Append(@, r)]
        BY <1>8 DEF Attach
    <2>2. /\ reactions'[p] = Append(reactions[p], r)
          /\ \A q \in Promise : q # p => reactions'[q] = reactions[q]
        BY <1>4, <2>1
    <2>3. \A x : In(x, reactions'[p]) => In(x, reactions[p]) \/ x = r
        BY <1>4, <2>2, InAppend
    <2>4. Hang'
        BY <1>2, <2>1, <2>2, <2>3, HangStep
    <2> QED BY <1>2, <1>6, <2>4 DEF Base
<1> QED BY <1>7, <1>8

(* The promises stay as they are; jobs move on to the queue. *)
LEMMA QuietBase ==
    ASSUME Base, Shape', Grow, UNCHANGED <<promises, listened>>,
           firing' \in Seq(JobSet), queue' \in Seq(JobSet),
           \A j : In(j, firing') => In(j, firing) \/ Triggers(j)',
           \A j : In(j, queue') => \/ In(j, queue)
                                   \/ In(j, firing) /\ j.r.kind \in {"race", "custom"}
    PROVE  Base' /\ Keeps
<1>1. UNCHANGED <<state, reactions, unhandled, listened, order>>
    BY DEF promises
<1>2. Ledger' /\ Listed' /\ Keeps
    BY <1>1 DEF Base, Ledger, Listed, In, UnhandledExact, IsPending, Keeps
<1>3. /\ Sources \in Nat /\ Len(aggs) \in Nat /\ Len(aggs') \in Nat
      /\ Len(aggs) <= Len(aggs') /\ Promise \subseteq Nat
    BY Lengths DEF Base
<1>4. \A q \in Promise : q > Sources + Len(aggs') => q > Sources + Len(aggs)
    BY <1>3
<1>5. Unmade'
    BY <1>1, <1>4 DEF Base, Unmade, IsPending
<1>6. Hang'
    BY <1>1, <1>2, HangStep
<1> QED BY <1>2, <1>5, <1>6 DEF Base

-----------------------------------------------------------------------------
(* Every step keeps the base *)

LEMMA ShapeSame ==
    ASSUME Shape, UNCHANGED <<aggs, call, caps>>, running' \in 0 .. Len(caps)
    PROVE  Shape' /\ Grow
<1>1. Grow
    BY BaseTypes DEF Grow
<1>2. \A a \in DOMAIN aggs : CallOK(a)'
    BY DEF Shape, CallOK
<1>3. Shape'
    BY <1>2 DEF Shape
<1> QED BY <1>1, <1>3

(* Call a counts an element: its results, its countdown and its flag. *)
Counted(a, results, left, settled) ==
    /\ aggs' \in Seq(CallSet) /\ Len(aggs') = Len(aggs) /\ DOMAIN aggs' = DOMAIN aggs
    /\ \A b \in DOMAIN aggs : b # a => aggs'[b] = aggs[b]
    /\ aggs'[a].kind = aggs[a].kind /\ aggs'[a].items = aggs[a].items
    /\ aggs'[a].cap = aggs[a].cap /\ aggs'[a].threw = aggs[a].threw
    /\ aggs'[a].at = aggs[a].at /\ aggs'[a].next = aggs[a].next
    /\ aggs'[a].results = results /\ aggs'[a].left = left /\ aggs'[a].settled = settled

Tallied(a, results, left, settled) ==
    aggs' = [aggs EXCEPT ![a] = [aggs[a] EXCEPT !.results = results, !.left = left,
                                                !.settled = settled]]

LEMMA CountedType ==
    ASSUME Shape, NEW a \in DOMAIN aggs, NEW results \in Seq(Seq(Int)),
           NEW left \in Int, NEW settled \in BOOLEAN,
           Tallied(a, results, left, settled)
    PROVE  Counted(a, results, left, settled)
<1> DEFINE new == [aggs[a] EXCEPT !.results = results, !.left = left, !.settled = settled]
<1>1. aggs[a] \in CallSet /\ aggs \in Seq(CallSet)
    BY BaseTypes DEF Shape
<1>2. new \in CallSet
    BY <1>1 DEF CallSet
<1>3. /\ new.kind = aggs[a].kind /\ new.items = aggs[a].items
      /\ new.cap = aggs[a].cap /\ new.threw = aggs[a].threw
      /\ new.at = aggs[a].at /\ new.next = aggs[a].next
      /\ new.results = results /\ new.left = left /\ new.settled = settled
    BY <1>1 DEF CallSet
<1> HIDE DEF new
<1>4. aggs' = [aggs EXCEPT ![a] = new]
    BY DEF new, Tallied
<1>5. /\ aggs' \in Seq(CallSet) /\ Len(aggs') = Len(aggs) /\ DOMAIN aggs' = DOMAIN aggs
      /\ aggs'[a] = new /\ \A b \in DOMAIN aggs : b # a => aggs'[b] = aggs[b]
    BY <1>1, <1>2, <1>4
<1> QED BY <1>3, <1>5 DEF Counted

(* Only the flag changes ... *)
LEMMA FlaggedType ==
    ASSUME Shape, NEW a \in DOMAIN aggs, aggs' = [aggs EXCEPT ![a].settled = TRUE]
    PROVE  Counted(a, aggs[a].results, aggs[a].left, TRUE)
<1>1. aggs[a] \in CallSet
    BY BaseTypes
<1>2. [aggs[a] EXCEPT !.settled = TRUE] =
      [aggs[a] EXCEPT !.results = aggs[a].results, !.left = aggs[a].left, !.settled = TRUE]
    BY <1>1 DEF CallSet
<1>3. aggs[a].results \in Seq(Seq(Int)) /\ aggs[a].left \in Int
    BY <1>1 DEF CallSet
<1>4. Tallied(a, aggs[a].results, aggs[a].left, TRUE)
    BY <1>2 DEF Tallied
<1> QED BY <1>3, <1>4, CountedType

Uncounted(a, results, left) ==
    aggs' = [aggs EXCEPT ![a].results = results, ![a].left = left]

(* ... or all but the flag does. *)
LEMMA UnflaggedType ==
    ASSUME Shape, NEW a \in DOMAIN aggs, NEW results, NEW left, Uncounted(a, results, left)
    PROVE  \E settled \in BOOLEAN :
              settled = aggs[a].settled /\ Tallied(a, results, left, settled)
<1>1. aggs[a] \in CallSet
    BY BaseTypes
<1>2. [aggs[a] EXCEPT !.results = results, !.left = left] =
      [aggs[a] EXCEPT !.results = results, !.left = left, !.settled = aggs[a].settled]
    BY <1>1 DEF CallSet
<1>3. aggs[a].settled \in BOOLEAN
    BY <1>1 DEF CallSet
<1> QED BY <1>2, <1>3 DEF Uncounted, Tallied

LEMMA CountedShape ==
    ASSUME Shape, NEW a \in DOMAIN aggs, NEW results, NEW left, NEW settled,
           Counted(a, results, left, settled), Len(results) = Len(aggs[a].items),
           UNCHANGED <<call, caps, running>>
    PROVE  Shape' /\ Grow
<1>1. /\ aggs' \in Seq(CallSet) /\ Len(aggs') = Len(aggs) /\ DOMAIN aggs' = DOMAIN aggs
      /\ \A b \in DOMAIN aggs :
            /\ aggs'[b].kind = aggs[b].kind /\ aggs'[b].items = aggs[b].items
            /\ aggs'[b].cap = aggs[b].cap /\ aggs'[b].threw = aggs[b].threw
            /\ aggs'[b].at = aggs[b].at /\ aggs'[b].next = aggs[b].next
    BY DEF Counted
<1>2. Grow
    BY <1>1, BaseTypes DEF Grow
<1>3. \A b \in DOMAIN aggs : Len(aggs'[b].results) = Len(aggs'[b].items)
    BY <1>1 DEF Counted, Shape, CallOK
<1>4. ASSUME NEW b \in DOMAIN aggs PROVE CallOK(b)'
    BY <1>1, <1>3 DEF Shape, CallOK
<1>5. aggs # <<>> => Len(aggs) \in DOMAIN aggs /\ aggs' # <<>>
    BY <1>1, BaseTypes
<1>6. Shape'
    BY <1>1, <1>4, <1>5 DEF Shape
<1> QED BY <1>2, <1>6

(* A call is added when none attaches its elements. *)
LEMMA AddShape ==
    ASSUME Shape, call = "none", NEW agg \in CallSet, aggs' = Append(aggs, agg),
           \A i \in DOMAIN agg.items : agg.items[i] <= Sources + Len(aggs),
           agg.next = 1, Len(agg.results) = Len(agg.items),
           caps' \in Seq(CapSet), Len(caps') \in {Len(caps), Len(caps) + 1},
           \A c \in DOMAIN caps : caps'[c] = caps[c],
           \A c \in DOMAIN caps' : c \notin DOMAIN caps => caps'[c].of \in 0 .. Raw(Len(aggs) + 1),
           agg.cap \in 0 .. Len(caps'),
           agg.cap # 0 /\ ~agg.threw => caps'[agg.cap].of = Raw(Len(aggs) + 1),
           agg.threw => agg.items = <<>>,
           Len(aggs') + Len(caps') <= MaxCalls,
           \/ call' = "attach" /\ ~agg.threw
           \/ call' = "none" /\ agg.items = <<>>,
           UNCHANGED running
    PROVE  Shape' /\ Grow
<1>1. /\ aggs \in Seq(CallSet) /\ caps \in Seq(CapSet)
      /\ \A a \in DOMAIN aggs : aggs[a].next \in Nat
    BY BaseTypes DEF Shape
<1>2. PICK n \in Nat : n = Len(aggs) + 1 /\ Len(aggs) = n - 1 /\ n # 0 /\ DOMAIN aggs = 1 .. n - 1
    BY <1>1
<1>3. PICK k \in Nat : k = Len(caps) /\ DOMAIN caps = 1 .. k
    BY <1>1
<1>4. PICK m \in Nat : m = Len(caps') /\ DOMAIN caps' = 1 .. m /\ k <= m
    BY <1>3
<1>5. /\ aggs' \in Seq(CallSet) /\ Len(aggs') = n /\ DOMAIN aggs' = 1 .. n
      /\ aggs'[n] = agg /\ \A a \in DOMAIN aggs : aggs'[a] = aggs[a]
    BY <1>1, <1>2
<1>6. Sources \in Nat /\ Raw(Len(aggs) + 1) = Sources + n
    BY <1>2, CombinatorAssumption DEF Raw
<1>7. (\A c \in DOMAIN caps : c \in DOMAIN caps') /\ (\A a \in DOMAIN aggs : a \in DOMAIN aggs' /\ a # n)
    <2>1. 1 .. k \subseteq 1 .. m
        BY <1>4
    <2>2. 1 .. n - 1 \subseteq 1 .. n /\ n \notin 1 .. n - 1
        BY <1>2
    <2> QED BY <1>2, <1>3, <1>4, <1>5, <2>1, <2>2
<1>8. Grow
    <2>1. \A a \in DOMAIN aggs : aggs[a].next <= aggs'[a].next
        BY <1>1, <1>5
    <2>2. Len(aggs) <= Len(aggs') /\ Len(caps) <= Len(caps')
        BY <1>2, <1>3, <1>4, <1>5
    <2> QED BY <1>5, <1>7, <2>1, <2>2 DEF Grow
<1>9. ASSUME NEW a \in DOMAIN aggs PROVE CallOK(a)'
    <2>1. aggs'[a] = aggs[a] /\ aggs[a].next = Len(aggs[a].items) + 1 /\ CallOK(a)
        BY <1>5 DEF Shape, CallOK
    <2>2. PICK c : c = aggs[a].cap
        OBVIOUS
    <2>3. c \in 0 .. k
        BY <1>3, <2>1, <2>2 DEF CallOK
    <2>4. c \in 0 .. m /\ (c # 0 => c \in 1 .. k)
        BY <2>3, <1>4
    <2>5. c # 0 => caps'[c] = caps[c]
        BY <1>3, <2>4
    <2> QED BY <1>4, <2>1, <2>2, <2>4, <2>5 DEF CallOK
<1>10. CallOK(n)'
    <2>1. \A i \in DOMAIN agg.items : agg.items[i] < Raw(n)
        <3> SUFFICES ASSUME NEW i \in DOMAIN agg.items PROVE agg.items[i] < Raw(n)
            OBVIOUS
        <3>1. agg.items \in Seq(Item)
            BY DEF CallSet
        <3>b1. agg.items[i] \in Item
            BY <3>1, Member
        <3>b2. Item \subseteq Nat
            BY CombinatorAssumption DEF Item
        <3>a. agg.items[i] \in Item /\ Item \subseteq Nat
            BY <3>b1, <3>b2
        <3>b. agg.items[i] <= Sources + (n - 1)
            BY <1>2
        <3>2. agg.items[i] \in Nat /\ agg.items[i] <= Sources + (n - 1)
            BY <3>a, <3>b
        <3>3. Raw(n) = Sources + n
            BY DEF Raw
        <3> HIDE DEF Raw
        <3> QED BY <1>6, <3>2, <3>3
    <2>2. agg.next \in 1 .. Len(agg.items) + 1
        BY DEF CallSet
    <2>3. ~(n < Len(aggs'))
        BY <1>5
    <2>4. call' = "none" => agg.next = Len(agg.items) + 1
        OBVIOUS
    <2>5. agg.cap # 0 /\ ~agg.threw => caps'[agg.cap].of = Raw(n)
        BY <1>2
    <2> QED BY <1>5, <2>1, <2>2, <2>3, <2>4, <2>5 DEF CallOK
<1>11. \A a \in DOMAIN aggs' : CallOK(a)'
    <2>1. \A a \in 1 .. n : a = n \/ a \in 1 .. n - 1
        BY <1>2
    <2> QED BY <1>2, <1>5, <1>9, <1>10, <2>1
<1>12. \A c \in DOMAIN caps' : caps'[c].of \in 0 .. Sources + Len(aggs')
    <2>1. 0 .. Sources + (n - 1) \subseteq 0 .. Sources + n
        BY <1>6
    <2>2. \A c \in DOMAIN caps : caps[c].of \in 0 .. Sources + (n - 1)
        BY <1>2 DEF Shape
    <2> QED BY <1>5, <1>6, <2>1, <2>2
<1>13. running' \in 0 .. Len(caps')
    <2>1. running \in 0 .. k
        BY <1>3 DEF Shape
    <2>2. running \in 0 .. m
        BY <2>1, <1>4
    <2> QED BY <1>4, <2>2
<1>14. call' = "attach" => aggs' # <<>> /\ ~aggs'[Len(aggs')].threw
    BY <1>2, <1>5
<1>15. Shape'
    BY <1>5, <1>11, <1>12, <1>13, <1>14 DEF Shape
<1> QED BY <1>8, <1>15

LEMMA InitBase == Init => Base
<1> SUFFICES ASSUME Init PROVE Base
    OBVIOUS
<1> USE CombinatorAssumption
<1>1. Ledger
    BY SettlementTypes DEF Init, Ledger, UnhandledExact, IsPending, Pending
<1>2. Unmade
    BY DEF Init, Unmade, IsPending, Pending
<1>3. Shape
    BY DEF Init, Shape
<1>4. Hang
    BY InEmpty DEF Init, Hang
<1>5. Listed
    BY InEmpty DEF Init, Listed, IsInjective, IsPending, Pending
<1> QED BY <1>1, <1>2, <1>3, <1>4, <1>5 DEF Init, Base

(* The inputs of a call are promises made before it and plain values. *)
LEMMA ItemsType ==
    ASSUME Shape, MayCall, NEW items \in Items
    PROVE  items \in Seq(Item) /\ \A i \in DOMAIN items : items[i] <= Sources + Len(aggs)
<1>1. PICK n \in Nat, k \in Nat : n = Len(aggs) /\ k = Len(caps)
    BY BaseTypes
<1>2. n + k + 1 \in 1 .. MaxCalls /\ MaxItems[n + k + 1] \in Nat
    BY <1>1, CombinatorAssumption DEF MayCall
<1>3. PICK l \in 0 .. MaxItems[n + k + 1] : items \in [1 .. l -> 0 .. Sources + n]
    BY <1>1 DEF Items
<1>4. 0 .. Sources + n \subseteq Item
    BY <1>2, CombinatorAssumption DEF Item
<1>5. items \in Seq(0 .. Sources + n) /\ DOMAIN items = 1 .. l
    <2>1. l \in Nat
        BY <1>2, <1>3
    <2> QED BY <1>3, <2>1, SeqDef
<1>6. items \in Seq(Item)
    BY <1>4, <1>5, SeqMonotonic
<1>7. ASSUME NEW i \in DOMAIN items PROVE items[i] <= Sources + Len(aggs)
    <2>1. items[i] \in 0 .. Sources + n
        BY <1>3, <1>5
    <2> QED BY <2>1, <1>1
<1> QED BY <1>6, <1>7

LEMMA NewAggType ==
    ASSUME NEW kind \in Kinds, NEW items \in Seq(Item), NEW cap \in Nat, Listed
    PROVE  /\ NewAgg(kind, items, cap) \in CallSet
           /\ [NewAgg(kind, items, cap) EXCEPT !.threw = TRUE] \in CallSet
           /\ Len(NewAgg(kind, items, cap).results) = Len(items)
<1> DEFINE results == [i \in 1 .. Len(items) |-> <<>>]
<1>1. results \in Seq(Seq(Int)) /\ Len(results) = Len(items)
    OBVIOUS
<1>2. kind \in AllKinds /\ Len(order) \in Nat /\ Len(items) \in Nat
    BY CombinatorAssumption DEF Listed
<1> HIDE DEF results
<1>3. NewAgg(kind, items, cap) = [kind |-> kind, items |-> items, cap |-> cap, left |-> Len(items),
     results |-> results, settled |-> FALSE,
     next |-> 1, at |-> Len(order), threw |-> FALSE]
    BY DEF NewAgg, results
<1>4. NewAgg(kind, items, cap) \in CallSet
    BY <1>1, <1>2, <1>3 DEF CallSet
<1>5. Len(NewAgg(kind, items, cap).results) = Len(items)
    BY <1>1, <1>3
<1>6. \A agg \in CallSet : [agg EXCEPT !.threw = TRUE] \in CallSet
    BY DEF CallSet
<1> QED BY <1>4, <1>5, <1>6

LEMMA NewCapType ==
    ASSUME NEW of \in Nat, NEW on \in SUBSET {"fulfilled", "rejected"},
           NEW calls \in Seq(Settlement)
    PROVE  [NewCapOf(of, on) EXCEPT !.calls = calls] \in CapSet
BY DEF NewCapOf, CapSet

(* A further capability goes last. *)
LEMMA AddCap ==
    ASSUME Shape, NEW cap \in CapSet, caps' = Append(caps, cap)
    PROVE  /\ caps' \in Seq(CapSet) /\ Len(caps') = Len(caps) + 1
           /\ \A c \in DOMAIN caps : caps'[c] = caps[c] /\ c \in DOMAIN caps' /\ c # Len(caps) + 1
           /\ caps'[Len(caps) + 1] = cap /\ Len(caps) + 1 \in DOMAIN caps'
           /\ \A c \in DOMAIN caps' : c \notin DOMAIN caps => c = Len(caps) + 1
<1>1. caps \in Seq(CapSet)
    BY DEF Shape
<1> QED BY <1>1

LEMMA CallCombinatorBase ==
    ASSUME Base, NEW kind \in Kinds, NEW custom \in BOOLEAN, NEW items \in Items,
           CallCombinator(kind, items, custom)
    PROVE  Base' /\ Grow /\ Keeps
<1> DEFINE cap == IF custom THEN Len(caps) + 1 ELSE 0
           agg == NewAgg(kind, items, cap)
           raw == Raw(Len(aggs) + 1)
<1>1. Shape /\ Listed /\ UserTurn /\ MayCall
    BY DEF Base, CallCombinator
<1>2. Len(aggs) \in Nat /\ Len(caps) \in Nat /\ Sources \in Nat /\ MaxCalls \in Nat
    BY <1>1, BaseTypes
<1>3. cap \in Nat
    BY <1>2
<1>4. items \in Seq(Item) /\ \A i \in DOMAIN items : items[i] <= Sources + Len(aggs)
    BY <1>1, ItemsType
<1>5. agg \in CallSet /\ Len(agg.results) = Len(items)
    BY <1>1, <1>3, <1>4, NewAggType
<1>6. /\ agg.items = items /\ agg.cap = cap /\ agg.next = 1 /\ agg.threw = FALSE
    BY DEF NewAgg
<1>7. /\ aggs' = Append(aggs, agg) /\ call' = "attach"
      /\ UNCHANGED <<queue, running, listened>>
    BY DEF CallCombinator
<1>8. raw \in Nat /\ raw \in Promise /\ raw <= Sources + Len(aggs')
    <2>1. Len(aggs') = Len(aggs) + 1
        BY <1>1, <1>5, <1>7 DEF Shape
    <2>2. Len(aggs) + 1 <= MaxCalls
        BY <1>1, <1>2 DEF MayCall
    <2> QED BY <1>2, <2>1, <2>2 DEF Raw, Promise
<1>9. Shape' /\ Grow
    <2>1. call = "none" /\ Len(aggs') = Len(aggs) + 1
        BY <1>1, <1>5, <1>7 DEF UserTurn, Shape
    <2>2. CASE custom
        <3> DEFINE new == NewCapOf(raw, {})
        <3>1. caps' = Append(caps, new) /\ Len(aggs) + Len(caps) + 1 < MaxCalls
            BY <2>2 DEF CallCombinator, NewCap
        <3>2. new \in CapSet /\ new.of = raw
            BY <1>8 DEF NewCapOf, CapSet
        <3>3. cap = Len(caps) + 1
            BY <2>2
        <3> HIDE DEF new, agg, raw
        <3>4. /\ caps' \in Seq(CapSet) /\ Len(caps') = Len(caps) + 1
              /\ \A c \in DOMAIN caps : caps'[c] = caps[c]
              /\ caps'[Len(caps) + 1] = new
              /\ \A c \in DOMAIN caps' : c \notin DOMAIN caps => c = Len(caps) + 1
            BY <1>1, <3>1, <3>2, AddCap
        <3>5. \A c \in DOMAIN caps' : c \notin DOMAIN caps => caps'[c].of \in 0 .. raw
            BY <1>8, <3>2, <3>4
        <3>6. Len(aggs') + Len(caps') <= MaxCalls
            BY <1>2, <2>1, <3>1, <3>4
        <3>7. cap \in 0 .. Len(caps') /\ (cap # 0 => caps'[cap].of = raw)
            BY <1>2, <3>2, <3>3, <3>4
        <3> QED BY <1>1, <1>4, <1>5, <1>6, <1>7, <2>1, <3>4, <3>5, <3>6, <3>7, AddShape DEF raw
    <2>3. CASE ~custom
        <3>1. caps' = caps /\ cap = 0
            BY <2>3 DEF CallCombinator, NewCap
        <3>2. Len(aggs') + Len(caps') <= MaxCalls
            BY <1>1, <1>2, <2>1, <3>1 DEF MayCall
        <3>3. caps \in Seq(CapSet) /\ cap \in 0 .. Len(caps')
            BY <1>1, <1>2, <3>1 DEF Shape
        <3> HIDE DEF agg, raw, cap
        <3> QED BY <1>1, <1>4, <1>5, <1>6, <1>7, <2>1, <3>1, <3>2, <3>3, AddShape
    <2> QED BY <2>2, <2>3
<1>10. firing = <<>> /\ \A j : ~In(j, <<>>)
    BY <1>1, InEmpty DEF UserTurn
<1>11. <<>> \in Seq(JobSet) /\ queue' \in Seq(JobSet) /\ \A j : In(j, queue') => In(j, queue)
    BY <1>7 DEF Base
<1>12. ArrayFor(raw, <<>>) \in Seq(Int)
    <2>1. <<>> \in Seq(Seq(Int)) /\ raw \in Int
        BY <1>8
    <2> HIDE DEF raw
    <2> QED BY <2>1, ArrayType
<1>13. CASE \E s \in Settlement : Settle(raw, s, <<>>)
    <2> HIDE DEF raw, agg
    <2> QED BY <1>7, <1>8, <1>9, <1>10, <1>11, <1>13, SettleBase
<1>14. CASE UNCHANGED core
    <2>1. UNCHANGED <<promises, listened>> /\ firing' = firing /\ queue' = queue
        BY <1>7, <1>14 DEF core
    <2> HIDE DEF raw, agg
    <2> QED BY <1>9, <1>10, <2>1, QuietBase DEF Base
<1>15. (\E s \in Settlement : Settle(raw, s, <<>>)) \/ UNCHANGED core
    BY <1>12, SettlementTypes DEF CallCombinator
<1> QED BY <1>9, <1>13, <1>14, <1>15

LEMMA CallFailsBase ==
    ASSUME Base, NEW kind \in Kinds, NEW custom \in BOOLEAN, CallFails(kind, custom)
    PROVE  Base' /\ Grow /\ Keeps
<1> DEFINE cap == IF custom THEN Len(caps) + 1 ELSE 0
           agg == [NewAgg(kind, <<>>, cap) EXCEPT !.threw = TRUE]
           raw == Raw(Len(aggs) + 1)
<1>1. Shape /\ Listed /\ UserTurn /\ MayCall
    BY DEF Base, CallFails
<1>2. Len(aggs) \in Nat /\ Len(caps) \in Nat /\ Sources \in Nat /\ MaxCalls \in Nat
    BY <1>1, BaseTypes
<1>3. cap \in Nat /\ <<>> \in Seq(Item)
    BY <1>2
<1>5. agg \in CallSet
    BY <1>1, <1>3, NewAggType
<1>6. /\ agg.items = <<>> /\ agg.cap = cap /\ agg.next = 1 /\ agg.threw = TRUE
      /\ Len(agg.results) = Len(agg.items)
    BY DEF NewAgg
<1>7. aggs' = Append(aggs, agg) /\ UNCHANGED <<queue, call, running, listened>>
    BY DEF CallFails
<1>8. raw \in Nat /\ raw \in Promise /\ raw <= Sources + Len(aggs')
    <2>1. Len(aggs') = Len(aggs) + 1
        BY <1>1, <1>5, <1>7 DEF Shape
    <2>2. Len(aggs) + 1 <= MaxCalls
        BY <1>1, <1>2 DEF MayCall
    <2> QED BY <1>2, <2>1, <2>2 DEF Raw, Promise
<1>9. Shape' /\ Grow
    <2>1. call = "none" /\ call' = "none" /\ Len(aggs') = Len(aggs) + 1
        BY <1>1, <1>5, <1>7 DEF UserTurn, Shape
    <2>2. CASE custom
        <3> DEFINE new == [NewCapOf(0, {}) EXCEPT !.calls = <<Rejected(<<Plain>>)>>]
        <3>1. caps' = Append(caps, new) /\ Len(aggs) + Len(caps) + 1 < MaxCalls
            BY <2>2 DEF CallFails
        <3>2. new \in CapSet /\ new.of = 0
            <4>1. Rejected(<<Plain>>) \in Settlement
                BY PlainTypes
            <4>2. <<Rejected(<<Plain>>)>> \in Seq(Settlement)
                BY <4>1
            <4> QED BY <4>2, NewCapType DEF NewCapOf
        <3>3. cap = Len(caps) + 1
            BY <2>2
        <3> HIDE DEF new, agg, raw
        <3>4. /\ caps' \in Seq(CapSet) /\ Len(caps') = Len(caps) + 1
              /\ \A c \in DOMAIN caps : caps'[c] = caps[c]
              /\ caps'[Len(caps) + 1] = new
              /\ \A c \in DOMAIN caps' : c \notin DOMAIN caps => c = Len(caps) + 1
            BY <1>1, <3>1, <3>2, AddCap
        <3>5. \A c \in DOMAIN caps' : c \notin DOMAIN caps => caps'[c].of \in 0 .. raw
            BY <1>8, <3>2, <3>4
        <3>6. Len(aggs') + Len(caps') <= MaxCalls
            BY <1>2, <2>1, <3>1, <3>4
        <3>7. cap \in 0 .. Len(caps')
            BY <1>2, <3>2, <3>3, <3>4
        <3>8. UNCHANGED running
            BY <1>7
        <3> QED BY <1>1, <1>5, <1>6, <1>7, <2>1, <3>4, <3>5, <3>6, <3>7, <3>8, AddShape DEF raw
    <2>3. CASE ~custom
        <3>1. caps' = caps /\ cap = 0
            BY <2>3 DEF CallFails
        <3>2. Len(aggs') + Len(caps') <= MaxCalls
            BY <1>1, <1>2, <2>1, <3>1 DEF MayCall
        <3>3. caps \in Seq(CapSet) /\ cap \in 0 .. Len(caps')
            BY <1>1, <1>2, <3>1 DEF Shape
        <3> HIDE DEF agg, raw, cap
        <3> QED BY <1>1, <1>5, <1>6, <1>7, <2>1, <3>1, <3>2, <3>3, AddShape
    <2> QED BY <2>2, <2>3
<1>10. firing = <<>> /\ \A j : ~In(j, <<>>)
    BY <1>1, InEmpty DEF UserTurn
<1>11. <<>> \in Seq(JobSet) /\ queue' \in Seq(JobSet) /\ \A j : In(j, queue') => In(j, queue)
    BY <1>7 DEF Base
<1>13. CASE \E s \in Settlement : Settle(raw, s, <<>>)
    <2> HIDE DEF raw, agg
    <2> QED BY <1>7, <1>8, <1>9, <1>10, <1>11, <1>13, SettleBase
<1>14. CASE UNCHANGED core
    <2>1. UNCHANGED <<promises, listened>> /\ firing' = firing /\ queue' = queue
        BY <1>7, <1>14 DEF core
    <2> HIDE DEF raw, agg
    <2> QED BY <1>9, <1>10, <2>1, QuietBase DEF Base
<1>15. (\E s \in Settlement : Settle(raw, s, <<>>)) \/ UNCHANGED core
    BY PlainTypes DEF CallFails
<1> QED BY <1>9, <1>13, <1>14, <1>15

(* The call that attaches its elements has gone past one of them. *)
Passed(a) ==
    /\ aggs' \in Seq(CallSet) /\ Len(aggs') = Len(aggs) /\ DOMAIN aggs' = DOMAIN aggs
    /\ \A b \in DOMAIN aggs : b # a => aggs'[b] = aggs[b]
    /\ aggs'[a] = [aggs[a] EXCEPT !.next = aggs[a].next + 1]
    /\ aggs'[a].next = aggs[a].next + 1
    /\ aggs'[a].kind = aggs[a].kind /\ aggs'[a].items = aggs[a].items
    /\ aggs'[a].cap = aggs[a].cap /\ aggs'[a].threw = aggs[a].threw
    /\ aggs'[a].at = aggs[a].at /\ aggs'[a].left = aggs[a].left
    /\ aggs'[a].results = aggs[a].results /\ aggs'[a].settled = aggs[a].settled

LEMMA PassedShape ==
    ASSUME Shape, call = "attach", NEW a \in DOMAIN aggs, a = Len(aggs),
           aggs' = [aggs EXCEPT ![a].next = @ + 1], aggs[a].next <= Len(aggs[a].items),
           UNCHANGED <<call, caps, running>>
    PROVE  Shape' /\ Grow /\ Passed(a)
<1> DEFINE new == [aggs[a] EXCEPT !.next = aggs[a].next + 1]
<1>1. aggs[a] \in CallSet /\ aggs \in Seq(CallSet)
    BY BaseTypes DEF Shape
<1>2. new \in CallSet
    <2>1. aggs[a].next + 1 \in Nat
        BY <1>1 DEF CallSet
    <2> QED BY <1>1, <2>1 DEF CallSet
<1>3. /\ new.kind = aggs[a].kind /\ new.items = aggs[a].items
      /\ new.cap = aggs[a].cap /\ new.threw = aggs[a].threw
      /\ new.at = aggs[a].at /\ new.next = aggs[a].next + 1 /\ new.left = aggs[a].left
      /\ new.results = aggs[a].results /\ new.settled = aggs[a].settled
    BY <1>1 DEF CallSet
<1>4. aggs' = [aggs EXCEPT ![a] = new]
    OBVIOUS
<1> HIDE DEF new
<1>5. /\ aggs' \in Seq(CallSet) /\ Len(aggs') = Len(aggs) /\ DOMAIN aggs' = DOMAIN aggs
      /\ aggs'[a] = new /\ \A b \in DOMAIN aggs : b # a => aggs'[b] = aggs[b]
    BY <1>1, <1>2, <1>4
<1>6. Passed(a)
    BY <1>3, <1>5 DEF Passed, new
<1>7. \A b \in DOMAIN aggs : aggs[b].next \in Nat /\ Len(aggs[b].items) \in Nat
    BY BaseTypes
<1>8. Grow
    <2>1. Len(aggs) <= Len(aggs') /\ Len(caps) <= Len(caps')
        BY <1>5, BaseTypes
    <2>2. \A b \in DOMAIN aggs : aggs[b].next <= aggs'[b].next
        BY <1>3, <1>5, <1>7
    <2>3. \A b \in DOMAIN aggs :
              /\ aggs'[b].kind = aggs[b].kind /\ aggs'[b].items = aggs[b].items
              /\ aggs'[b].cap = aggs[b].cap /\ aggs'[b].threw = aggs[b].threw
              /\ aggs'[b].at = aggs[b].at
        BY <1>3, <1>5
    <2> QED BY <1>5, <2>1, <2>2, <2>3 DEF Grow
<1>9. ASSUME NEW b \in DOMAIN aggs, b # a PROVE CallOK(b)'
    BY <1>5, <1>9 DEF Shape, CallOK
<1>10. CallOK(a)'
    <2>1. aggs'[a].next \in 1 .. Len(aggs[a].items) + 1
        BY <1>3, <1>5, <1>7 DEF Shape, CallOK
    <2>2. ~(a < Len(aggs')) /\ call' # "none"
        <3>1. Len(aggs) \in Nat
            BY <1>1
        <3> HIDE DEF new
        <3> QED BY <1>5, <3>1
    <2>3. CallOK(a)
        BY DEF Shape
    <2> QED BY <1>3, <1>5, <2>1, <2>2, <2>3 DEF CallOK
<1>11. aggs' # <<>> /\ ~aggs'[Len(aggs')].threw
    <2>1. aggs' # <<>>
        BY <1>5
    <2>2. ~aggs[a].threw
        BY DEF Shape
    <2> QED BY <1>3, <1>5, <2>1, <2>2
<1>12. Shape'
    BY <1>5, <1>9, <1>10, <1>11 DEF Shape
<1> QED BY <1>6, <1>8, <1>12

LEMMA AttachingFacts ==
    ASSUME Base, Attaching
    PROVE  /\ Len(aggs) \in DOMAIN aggs /\ call = "attach" /\ firing = <<>>
           /\ Raw(Len(aggs)) \in Promise
<1>1. call = "attach" /\ firing = <<>> /\ Shape
    BY DEF Attaching, Base
<1>2. Len(aggs) \in DOMAIN aggs
    BY <1>1 DEF Shape
<1> QED BY <1>1, <1>2, BaseTypes

(* The next element of the call that attaches *)
LEMMA NextItem ==
    ASSUME Shape, NEW a \in DOMAIN aggs, aggs[a].next <= Len(aggs[a].items)
    PROVE  /\ aggs[a].next \in DOMAIN aggs[a].items /\ aggs[a].next \in Nat
           /\ aggs[a].items[aggs[a].next] \in Item
           /\ aggs[a].items[aggs[a].next] < Raw(a)
           /\ Reaction(aggs[a].kind, a, aggs[a].next) \in ReactionSet
<1>1. /\ aggs[a].next \in 1 .. Len(aggs[a].items) + 1
      /\ \A i \in DOMAIN aggs[a].items : aggs[a].items[i] < Raw(a)
    BY DEF Shape, CallOK
<1>2. /\ DOMAIN aggs[a].items = 1 .. Len(aggs[a].items) /\ aggs[a].items \in Seq(Item)
      /\ aggs[a].next \in Nat /\ Len(aggs[a].items) \in Nat /\ aggs[a].kind \in AllKinds
      /\ DOMAIN aggs = 1 .. Len(aggs) /\ Len(aggs) \in Nat
    BY BaseTypes DEF CallSet
<1>3. PICK n \in Nat : n = aggs[a].next
    BY <1>2
<1>4. n \in DOMAIN aggs[a].items
    BY <1>1, <1>2, <1>3
<1>5. aggs[a].items[n] \in Item
    BY <1>2, <1>4, Member
<1>6. a \in Nat
    BY <1>2
<1>7. Reaction(aggs[a].kind, a, n) \in ReactionSet
    BY <1>2, <1>6 DEF Reaction, ReactionSet
<1> QED BY <1>1, <1>3, <1>4, <1>5, <1>7

LEMMA AttachNextBase ==
    ASSUME Base, AttachNext
    PROVE  Base' /\ Grow /\ Keeps /\ Passed(Len(aggs))
<1>1. Attaching
    BY DEF AttachNext
<1>2. PICK a \in DOMAIN aggs : a = Len(aggs)
    BY <1>1, AttachingFacts
<1>3. /\ call = "attach" /\ firing = <<>> /\ Shape
    BY <1>1, AttachingFacts DEF Base
<1> PICK item : item = aggs[a].items[aggs[a].next]
    OBVIOUS
<1> PICK r : r = Reaction(aggs[a].kind, a, aggs[a].next)
    OBVIOUS
<1>4. /\ aggs[a].next <= Len(aggs[a].items)
      /\ aggs' = [aggs EXCEPT ![a].next = @ + 1]
      /\ \/ item # Plain /\ Attach(item, r)
         \/ /\ item = Plain /\ firing' = <<JobOf(r, Fulfilled(<<Plain>>))>>
            /\ UNCHANGED <<promises, listened>>
      /\ UNCHANGED <<queue, call, caps, running>>
    BY <1>2 DEF AttachNext
<1>5. Shape' /\ Grow /\ Passed(a)
    BY <1>2, <1>3, <1>4, PassedShape
<1>6. /\ aggs[a].next \in DOMAIN aggs[a].items /\ aggs[a].next \in Nat
      /\ item \in Item /\ item < Raw(a) /\ r \in ReactionSet
    BY <1>3, <1>4, NextItem
<1>7. HangsOn(r, item)'
    <2>1. /\ a \in DOMAIN aggs' /\ aggs'[a].kind = aggs[a].kind /\ aggs[a].kind \in AllKinds
          /\ aggs'[a].items = aggs[a].items /\ aggs[a].next < aggs'[a].next
        BY <1>3, <1>5, <1>6, BaseTypes DEF Passed, CallSet
    <2> QED BY <1>6, <2>1 DEF HangsOn, Reaction
<1>8. CASE item # Plain /\ Attach(item, r)
    <2>1. item \in Promise /\ item <= Sources + Len(aggs)
        <3>1. /\ Sources \in Nat /\ MaxCalls \in Nat /\ Len(aggs) \in Nat
              /\ Raw(a) \in Nat /\ Raw(a) <= Sources + Len(aggs)
            BY <1>3, BaseTypes
        <3>2. item \in 0 .. Sources + MaxCalls /\ item # 0 /\ item < Raw(a)
            BY <1>6, <1>8 DEF Item, Plain
        <3> QED BY <3>1, <3>2 DEF Promise
    <2> QED BY <1>2, <1>3, <1>4, <1>5, <1>6, <1>7, <1>8, <2>1, AttachBase
<1>9. CASE item = Plain /\ firing' = <<JobOf(r, Fulfilled(<<Plain>>))>>
           /\ UNCHANGED <<promises, listened>>
    <2> DEFINE job == JobOf(r, Fulfilled(<<Plain>>))
    <2>1. job \in JobSet /\ job.r = r /\ job.s = Fulfilled(<<Plain>>)
        BY <1>6, PlainTypes DEF JobOf, JobSet
    <2>2. Triggers(job)'
        <3>1. StateOf(item)' = Fulfilled(<<Plain>>) /\ StateOf(item)'.st # "pending"
            BY <1>9, SettlementTypes DEF StateOf
        <3> HIDE DEF job
        <3> QED BY <1>6, <1>7, <2>1, <3>1 DEF Triggers
    <2> HIDE DEF job
    <2>3. firing' \in Seq(JobSet) /\ \A j : In(j, firing') => j = job
        BY <1>9, <2>1, InOne DEF job
    <2>4. queue' \in Seq(JobSet) /\ queue' = queue
        BY <1>4 DEF Base
    <2> QED BY <1>2, <1>5, <1>9, <2>2, <2>3, <2>4, QuietBase
<1> QED BY <1>4, <1>8, <1>9

LEMMA FinishCallBase ==
    ASSUME Base, FinishCall
    PROVE  Base' /\ Grow /\ Keeps
<1>1. Attaching
    BY DEF FinishCall
<1>2. PICK a \in DOMAIN aggs : a = Len(aggs)
    BY <1>1, AttachingFacts
<1>3. call = "attach" /\ firing = <<>> /\ Shape /\ Raw(a) \in Promise
    BY <1>1, <1>2, AttachingFacts DEF Base
<1>4. /\ aggs[a].next > Len(aggs[a].items)
      /\ \/ aggs[a].cap # 0 /\ Attach(Raw(a), Reaction("custom", aggs[a].cap, 0))
         \/ aggs[a].cap = 0 /\ UNCHANGED <<core, listened>>
      /\ call' = "none"
      /\ UNCHANGED <<queue, aggs, caps, running>>
    BY <1>2 DEF FinishCall
<1>5. Shape' /\ Grow
    <2>1. aggs[a].next = Len(aggs[a].items) + 1
        <3>1. aggs[a].next \in 1 .. Len(aggs[a].items) + 1
            BY <1>3 DEF Shape, CallOK
        <3>2. Len(aggs[a].items) \in Nat
            BY <1>3, BaseTypes
        <3> QED BY <1>4, <3>1, <3>2
    <2>2. \A b \in DOMAIN aggs : b < Len(aggs) \/ b = a
        BY <1>2, <1>3, BaseTypes
    <2>3. \A b \in DOMAIN aggs : aggs[b].next = Len(aggs[b].items) + 1
        BY <1>3, <2>1, <2>2 DEF Shape, CallOK
    <2>4. \A b \in DOMAIN aggs : CallOK(b)'
        BY <1>3, <1>4, <2>3 DEF Shape, CallOK
    <2>5. Grow
        BY <1>3, <1>4, BaseTypes DEF Grow
    <2> QED BY <1>3, <1>4, <2>4, <2>5 DEF Shape
<1>6. CASE aggs[a].cap # 0 /\ Attach(Raw(a), Reaction("custom", aggs[a].cap, 0))
    <2>1. PICK c \in DOMAIN caps : c = aggs[a].cap
        BY <1>3, <1>6, BaseTypes DEF Shape, CallOK
    <2>2. c \in Nat
        BY <1>3, BaseTypes
    <2>3. Reaction("custom", c, 0) \in ReactionSet
        BY <2>2 DEF Reaction, ReactionSet
    <2>4. caps[c].of = Raw(a)
        BY <1>2, <1>3, <1>6, <2>1 DEF Shape, CallOK
    <2>5. HangsOn(Reaction("custom", c, 0), Raw(a))'
        BY <1>3, <1>4, <2>4 DEF HangsOn, Reaction
    <2>6. Raw(a) <= Sources + Len(aggs)
        BY <1>3, BaseTypes
    <2> QED BY <1>3, <1>4, <1>5, <1>6, <2>1, <2>3, <2>5, <2>6, AttachBase
<1>7. CASE UNCHANGED <<core, listened>>
    <2>1. UNCHANGED <<promises, listened>> /\ firing' = firing /\ queue' = queue
        BY <1>4, <1>7 DEF core
    <2> QED BY <1>5, <2>1, QuietBase DEF Base
<1> QED BY <1>4, <1>5, <1>6, <1>7

(* The head of the cascade is an element of its call, with the outcome *)
(* that this element has.                                             *)
LEMMA FireFacts ==
    ASSUME Base, firing # <<>>
    PROVE  /\ Head(firing) \in JobSet /\ Tail(firing) \in Seq(JobSet)
           /\ \A j : In(j, Tail(firing)) => In(j, firing)
           /\ Outcome \in Settlement
           /\ Element.kind \in AllKinds =>
                 /\ Element.of \in DOMAIN aggs /\ aggs[Element.of].kind = Element.kind
                 /\ Element.index \in DOMAIN aggs[Element.of].items
                 /\ Element.index < aggs[Element.of].next
                 /\ Outcome = ItemState(Element.of, Element.index)
                 /\ Target \in Promise /\ Target <= Sources + Len(aggs)
<1>1. firing \in Seq(JobSet) /\ Shape
    BY DEF Base
<1>2. /\ Head(firing) \in JobSet /\ Tail(firing) \in Seq(JobSet) /\ In(Head(firing), firing)
      /\ \A j : In(j, Tail(firing)) => In(j, firing)
    BY <1>1, InHeadTail
<1>3. Outcome \in Settlement
    BY <1>2 DEF Outcome, JobSet
<1>4. PICK q \in Item : HangsOn(Element, q) /\ Outcome = StateOf(q)
    BY <1>2 DEF Base, Hang, Triggers, Element, Outcome
<1>5. ASSUME Element.kind \in AllKinds
      PROVE  /\ Element.of \in DOMAIN aggs /\ aggs[Element.of].kind = Element.kind
             /\ Element.index \in DOMAIN aggs[Element.of].items
             /\ Element.index < aggs[Element.of].next
             /\ aggs[Element.of].items[Element.index] = q
    BY <1>4, <1>5 DEF HangsOn, AllKinds
<1>6. ASSUME Element.kind \in AllKinds
      PROVE  Target \in Promise /\ Target <= Sources + Len(aggs)
    BY <1>1, <1>5, <1>6, BaseTypes DEF Target
<1>7. ASSUME Element.kind \in AllKinds PROVE Outcome = ItemState(Element.of, Element.index)
    BY <1>4, <1>5, <1>7 DEF ItemState, StateOf
<1> QED BY <1>2, <1>3, <1>5, <1>6, <1>7

(* An element is counted, or not, and may settle the result. *)
LEMMA CountBase ==
    ASSUME Base, firing # <<>>, Element.kind \in AllKinds,
           Shape', Grow, UNCHANGED <<queue, listened>>,
           \/ Skip
           \/ \E s \in Settlement : Settle(Target, s, Tail(firing))
    PROVE  Base' /\ Keeps
<1>1. PICK p \in Promise : p = Target /\ p <= Sources + Len(aggs)
    BY FireFacts
<1>2. Tail(firing) \in Seq(JobSet) /\ \A j : In(j, Tail(firing)) => In(j, firing)
    BY FireFacts
<1>3. queue' = queue /\ queue' \in Seq(JobSet)
    BY DEF Base
<1>4. p <= Sources + Len(aggs')
    BY <1>1, Lengths DEF Base
<1>5. CASE Skip
    BY <1>2, <1>3, <1>5, QuietBase DEF Skip
<1>6. ASSUME NEW s \in Settlement, Settle(p, s, Tail(firing)) PROVE Base' /\ Keeps
    BY <1>2, <1>3, <1>4, <1>6, SettleBase
<1> QED BY <1>1, <1>5, <1>6

LEMMA ResultsType ==
    ASSUME Shape, NEW a \in DOMAIN aggs, NEW i \in DOMAIN aggs[a].items, NEW s \in Settlement
    PROVE  /\ [aggs[a].results EXCEPT ![i] = s.val] \in Seq(Seq(Int))
           /\ Len([aggs[a].results EXCEPT ![i] = s.val]) = Len(aggs[a].items)
           /\ aggs[a].left \in Int /\ aggs[a].settled \in BOOLEAN
           /\ \A j \in DOMAIN aggs[a].items :
                 [aggs[a].results EXCEPT ![i] = s.val][j] = IF j = i THEN s.val ELSE aggs[a].results[j]
<1>1. s.val \in Seq(Int)
    BY DEF Settlement, State
<1>2. /\ aggs[a].results \in Seq(Seq(Int)) /\ Len(aggs[a].results) = Len(aggs[a].items)
      /\ DOMAIN aggs[a].items = 1 .. Len(aggs[a].items)
    BY BaseTypes DEF Shape, CallOK
<1>3. PICK rs \in Seq(Seq(Int)) : rs = aggs[a].results
    BY <1>2
<1>4. DOMAIN rs = DOMAIN aggs[a].items
    BY <1>2, <1>3
<1>5. [rs EXCEPT ![i] = s.val] \in Seq(Seq(Int)) /\ Len([rs EXCEPT ![i] = s.val]) = Len(rs)
    BY <1>1, <1>4
<1>6. \A j \in DOMAIN aggs[a].items : [rs EXCEPT ![i] = s.val][j] = IF j = i THEN s.val ELSE rs[j]
    BY <1>4
<1>7. aggs[a].left \in Int /\ aggs[a].settled \in BOOLEAN
    BY BaseTypes DEF CallSet
<1> QED BY <1>2, <1>3, <1>5, <1>6, <1>7

(* An element of all, any or allSettled changes no call and settles no       *)
(* promise but its own.                                                      *)
Counts ==
    /\ Len(aggs') = Len(aggs)
    /\ \A a \in DOMAIN aggs : aggs'[a].next = aggs[a].next
    /\ \A a \in DOMAIN aggs : a # Element.of => aggs'[a] = aggs[a]
    /\ Skip \/ \E s \in Settlement : Settle(Target, s, Tail(firing))

(* An element's value is stored, and the countdown goes on. *)
LEMMA TallyBase ==
    ASSUME Base, firing # <<>>, Element.kind \in AllKinds,
           NEW a \in DOMAIN aggs, a = Element.of,
           NEW i \in DOMAIN aggs[a].items, i = Element.index,
           NEW results, results = [aggs[a].results EXCEPT ![i] = Outcome.val],
           NEW left, left = aggs[a].left - 1, NEW settled \in BOOLEAN,
           Tallied(a, results, left, settled),
           UNCHANGED <<queue, call, caps, running, listened>>,
           NEW st \in {"fulfilled", "rejected"},
           IF left = 0
           THEN Settle(Target, [st |-> st, val |-> ArrayFor(Target, results)], Tail(firing))
           ELSE Skip
    PROVE  Base' /\ Grow /\ Keeps /\ Counts /\ Counted(a, results, left, settled)
<1>1. Shape
    BY DEF Base
<1>2. Outcome \in Settlement /\ Target \in Promise
    BY FireFacts
<1>3. results \in Seq(Seq(Int)) /\ Len(results) = Len(aggs[a].items) /\ left \in Int
    BY <1>1, <1>2, ResultsType
<1>4. Counted(a, results, left, settled)
    BY <1>1, <1>3, CountedType
<1>5. Shape' /\ Grow
    BY <1>1, <1>3, <1>4, CountedShape
<1>6. [st |-> st, val |-> ArrayFor(Target, results)] \in Settlement
    <2>1. Target \in Int
        BY <1>2, CombinatorAssumption DEF Promise
    <2>2. ArrayFor(Target, results) \in Seq(Int)
        BY <1>3, <2>1, ArrayType
    <2> QED BY <2>2 DEF Settlement, State
<1>7. Counts
    BY <1>4, <1>6 DEF Counts, Counted
<1> QED BY <1>4, <1>5, <1>6, <1>7, CountBase

LEMMA AllBase ==
    ASSUME Base, AllElement, UNCHANGED <<queue, call, caps, running, listened>>
    PROVE  Base' /\ Grow /\ Keeps /\ Counts
<1>1. firing # <<>> /\ Element.kind \in AllKinds /\ Shape
    BY DEF AllElement, Fires, Base, AllKinds
<1>2. PICK a \in DOMAIN aggs : a = Element.of
    BY <1>1, FireFacts
<1>3. PICK i \in DOMAIN aggs[a].items : i = Element.index
    BY <1>1, <1>2, FireFacts
<1>4. Outcome \in Settlement /\ Target \in Promise
    BY <1>1, FireFacts
<1>5. running' \in 0 .. Len(caps)
    BY DEF Base, Shape
<1>6. CASE Agg.settled
    BY <1>1, <1>5, <1>6, ShapeSame, CountBase DEF AllElement, Counts
<1>7. CASE ~Agg.settled /\ Outcome.st = "rejected"
    <2>1. aggs' = [aggs EXCEPT ![a].settled = TRUE] /\ Settle(Target, Outcome, Tail(firing))
        BY <1>2, <1>7, <1>4 DEF AllElement, Settlement
    <2>2. Counted(a, aggs[a].results, aggs[a].left, TRUE)
        BY <1>1, <2>1, FlaggedType
    <2>3. Shape' /\ Grow
        BY <1>1, <2>2, CountedShape DEF Shape, CallOK
    <2>4. Counts
        BY <1>2, <1>4, <2>1, <2>2 DEF Counts, Counted
    <2> QED BY <1>1, <1>4, <2>1, <2>3, <2>4, CountBase
<1>8. CASE ~Agg.settled /\ Outcome.st = "fulfilled"
    <2> PICK results : results = [aggs[a].results EXCEPT ![i] = Outcome.val]
        OBVIOUS
    <2> PICK left : left = aggs[a].left - 1
        OBVIOUS
    <2>1. /\ Tallied(a, results, left, left = 0)
          /\ IF left = 0
             THEN Settle(Target, Fulfilled(ArrayFor(Target, results)), Tail(firing))
             ELSE Skip
        BY <1>2, <1>3, <1>8 DEF AllElement, Agg, Store, Tallied
    <2> QED BY <1>1, <1>2, <1>3, <2>1, TallyBase DEF Fulfilled
<1> QED BY <1>4, <1>6, <1>7, <1>8 DEF AllElement

LEMMA AnyBase ==
    ASSUME Base, AnyElement, UNCHANGED <<queue, call, caps, running, listened>>
    PROVE  Base' /\ Grow /\ Keeps /\ Counts
<1>1. firing # <<>> /\ Element.kind \in AllKinds /\ Shape
    BY DEF AnyElement, Fires, Base, AllKinds
<1>2. PICK a \in DOMAIN aggs : a = Element.of
    BY <1>1, FireFacts
<1>3. PICK i \in DOMAIN aggs[a].items : i = Element.index
    BY <1>1, <1>2, FireFacts
<1>4. Outcome \in Settlement /\ Target \in Promise
    BY <1>1, FireFacts
<1>5. running' \in 0 .. Len(caps)
    BY DEF Base, Shape
<1>6. CASE UNCHANGED aggs /\ (Skip \/ Settle(Target, Outcome, Tail(firing)))
    BY <1>1, <1>4, <1>5, <1>6, ShapeSame, CountBase DEF AnyElement, Counts
<1>7. CASE ~(UNCHANGED aggs /\ (Skip \/ Settle(Target, Outcome, Tail(firing))))
    <2> PICK results : results = [aggs[a].results EXCEPT ![i] = Outcome.val]
        OBVIOUS
    <2> PICK left : left = aggs[a].left - 1
        OBVIOUS
    <2>1. /\ Uncounted(a, results, left)
          /\ IF left = 0
             THEN Settle(Target, Rejected(ArrayFor(Target, results)), Tail(firing))
             ELSE Skip
        BY <1>2, <1>3, <1>7 DEF AnyElement, Agg, Store, Uncounted
    <2>2. PICK settled \in BOOLEAN : Tallied(a, results, left, settled)
        BY <1>1, <2>1, UnflaggedType
    <2> QED BY <1>1, <1>2, <1>3, <2>1, <2>2, TallyBase DEF Rejected
<1> QED BY <1>6, <1>7

LEMMA AllSettledBase ==
    ASSUME Base, AllSettledElement, UNCHANGED <<queue, call, caps, running, listened>>
    PROVE  Base' /\ Grow /\ Keeps /\ Counts
<1>1. firing # <<>> /\ Element.kind \in AllKinds /\ Shape
    BY DEF AllSettledElement, Fires, Base, AllKinds
<1>2. PICK a \in DOMAIN aggs : a = Element.of
    BY <1>1, FireFacts
<1>3. PICK i \in DOMAIN aggs[a].items : i = Element.index
    BY <1>1, <1>2, FireFacts
<1> PICK results : results = [aggs[a].results EXCEPT ![i] = Outcome.val]
    OBVIOUS
<1> PICK left : left = aggs[a].left - 1
    OBVIOUS
<1>4. /\ Uncounted(a, results, left)
      /\ IF left = 0
         THEN Settle(Target, Fulfilled(ArrayFor(Target, results)), Tail(firing))
         ELSE Skip
    BY <1>2, <1>3 DEF AllSettledElement, Agg, Store, Uncounted
<1>5. PICK settled \in BOOLEAN : Tallied(a, results, left, settled)
    BY <1>1, <1>4, UnflaggedType
<1> QED BY <1>1, <1>2, <1>3, <1>4, <1>5, TallyBase DEF Fulfilled

(* A job leaves the cascade for the queue, or is a handler of user code. *)
LEMMA EnqueueBase ==
    ASSUME Base, EnqueueJob, UNCHANGED <<call, caps, running, listened>>
    PROVE  Base' /\ Grow /\ Keeps
<1> PICK job : job = Head(firing)
    OBVIOUS
<1>1. firing # <<>> /\ job.r.kind \in {"race", "custom", "user"}
    BY DEF EnqueueJob, Fires, Element
<1>2. firing' = Tail(firing) /\ UNCHANGED <<promises, aggs>>
    BY DEF EnqueueJob, Skip
<1>3. queue' = IF job.r.kind = "user" THEN queue ELSE Append(queue, job)
    BY DEF EnqueueJob, Element
<1>4. /\ job \in JobSet /\ Tail(firing) \in Seq(JobSet) /\ In(job, firing)
      /\ \A j : In(j, Tail(firing)) => In(j, firing)
    BY <1>1, InHeadTail DEF Base
<1>5. queue \in Seq(JobSet) /\ Append(queue, job) \in Seq(JobSet)
      /\ \A j : In(j, Append(queue, job)) <=> In(j, queue) \/ j = job
    BY <1>4, InAppend DEF Base
<1>6. queue' \in Seq(JobSet)
    BY <1>3, <1>5
<1>7. \A j : In(j, queue') => In(j, queue) \/ (In(j, firing) /\ j.r.kind \in {"race", "custom"})
    BY <1>1, <1>3, <1>4, <1>5
<1>8. Shape' /\ Grow
    BY <1>2, ShapeSame DEF Base, Shape
<1> QED BY <1>2, <1>4, <1>6, <1>7, <1>8, QuietBase

LEMMA NextJobFacts ==
    ASSUME Base, NEW kind, NextJob(kind)
    PROVE  /\ firing = <<>> /\ call = "none" /\ running = 0
           /\ In(Head(queue), queue) /\ Head(queue) \in JobSet /\ Triggers(Head(queue))
           /\ queue' \in Seq(JobSet) /\ \A j : In(j, queue') => In(j, queue)
<1>1. queue \in Seq(JobSet) /\ queue # <<>> /\ queue' = Tail(queue)
    BY DEF NextJob, Base
<1>2. /\ Head(queue) \in JobSet /\ Tail(queue) \in Seq(JobSet) /\ In(Head(queue), queue)
      /\ \A j : In(j, Tail(queue)) => In(j, queue)
    BY <1>1, InHeadTail
<1> QED BY <1>1, <1>2 DEF NextJob, UserTurn, Base, Hang

LEMMA RaceFacts ==
    ASSUME Base, NextJob("race")
    PROVE  \E a \in DOMAIN aggs : \E i \in DOMAIN aggs[a].items :
              /\ a = Head(queue).r.of /\ i = Head(queue).r.index
              /\ aggs[a].kind = "race" /\ i < aggs[a].next
              /\ Head(queue).s \in Settlement /\ Head(queue).s = ItemState(a, i)
              /\ Raw(a) \in Promise /\ Raw(a) <= Sources + Len(aggs)
<1>1. Head(queue) \in JobSet /\ Triggers(Head(queue)) /\ Head(queue).r.kind = "race" /\ Shape
    BY NextJobFacts DEF NextJob, Base
<1> PICK r : r = Head(queue).r
    OBVIOUS
<1>2. PICK q \in Item : HangsOn(r, q) /\ Head(queue).s = StateOf(q)
    BY <1>1 DEF Triggers
<1>3. /\ r.of \in DOMAIN aggs /\ aggs[r.of].kind = "race" /\ r.index \in DOMAIN aggs[r.of].items
      /\ r.index < aggs[r.of].next /\ aggs[r.of].items[r.index] = q
    BY <1>1, <1>2 DEF HangsOn, AllKinds
<1>4. Head(queue).s \in Settlement
    BY <1>1 DEF JobSet
<1>5. Head(queue).s = ItemState(r.of, r.index)
    BY <1>2, <1>3 DEF ItemState, StateOf
<1>6. Raw(r.of) \in Promise /\ Raw(r.of) <= Sources + Len(aggs)
    BY <1>1, <1>3, BaseTypes
<1> QED BY <1>3, <1>4, <1>5, <1>6

LEMMA RunRaceBase ==
    ASSUME Base, RunRace
    PROVE  Base' /\ Grow /\ Keeps
<1>1. NextJob("race") /\ UNCHANGED <<aggs, call, caps, running, listened>>
    BY DEF RunRace
<1>2. PICK a \in DOMAIN aggs :
          /\ a = Head(queue).r.of /\ Head(queue).s \in Settlement
          /\ Raw(a) \in Promise /\ Raw(a) <= Sources + Len(aggs)
    BY <1>1, RaceFacts
<1>3. Shape' /\ Grow
    BY <1>1, ShapeSame DEF Base, Shape
<1>4. /\ queue' \in Seq(JobSet) /\ \A j : In(j, queue') => In(j, queue)
    BY <1>1, NextJobFacts
<1>5. Settle(Raw(a), Head(queue).s, <<>>)
    BY <1>2 DEF RunRace
<1>6. <<>> \in Seq(JobSet) /\ (\A j : In(j, <<>>) => In(j, firing)) /\ Raw(a) <= Sources + Len(aggs')
    BY <1>1, <1>2, InEmpty
<1> QED BY <1>1, <1>2, <1>3, <1>4, <1>5, <1>6, SettleBase

(* Capability c is called. *)
Called(c, s) ==
    /\ caps' \in Seq(CapSet) /\ Len(caps') = Len(caps) /\ DOMAIN caps' = DOMAIN caps
    /\ \A d \in DOMAIN caps : d # c => caps'[d] = caps[d]
    /\ caps'[c].of = caps[c].of /\ caps'[c].on = caps[c].on
    /\ caps'[c].calls = Append(caps[c].calls, s)

LEMMA CallCapShape ==
    ASSUME Shape, NEW c \in DOMAIN caps, NEW s \in Settlement, CallCap(c, s),
           UNCHANGED <<aggs, call>>, running' \in 0 .. Len(caps)
    PROVE  Called(c, s) /\ Shape' /\ Grow
<1> DEFINE new == [caps[c] EXCEPT !.calls = Append(caps[c].calls, s)]
<1>1. caps[c] \in CapSet /\ caps \in Seq(CapSet) /\ caps[c].calls \in Seq(Settlement)
    BY BaseTypes DEF Shape
<1>2. Append(caps[c].calls, s) \in Seq(Settlement)
    BY <1>1
<1>3. /\ new \in CapSet /\ new.of = caps[c].of /\ new.on = caps[c].on
      /\ new.calls = Append(caps[c].calls, s)
    BY <1>1, <1>2 DEF CapSet
<1>4. caps' = [caps EXCEPT ![c] = new]
    BY DEF CallCap
<1> HIDE DEF new
<1>5. /\ caps' \in Seq(CapSet) /\ Len(caps') = Len(caps) /\ DOMAIN caps' = DOMAIN caps
      /\ caps'[c] = new /\ \A d \in DOMAIN caps : d # c => caps'[d] = caps[d]
    BY <1>1, <1>3, <1>4
<1>6. Called(c, s)
    BY <1>3, <1>5 DEF Called
<1>7. \A d \in DOMAIN caps : caps'[d].of = caps[d].of /\ caps'[d].on = caps[d].on
    BY <1>3, <1>5
<1>8. Grow
    BY <1>5, <1>7, BaseTypes DEF Grow
<1>9. ASSUME NEW a \in DOMAIN aggs PROVE CallOK(a)'
    <2>1. CallOK(a)
        BY DEF Shape
    <2>2. PICK d : d = aggs[a].cap
        OBVIOUS
    <2>3. d # 0 => d \in DOMAIN caps
        BY <2>1, <2>2, BaseTypes DEF CallOK
    <2> QED BY <1>5, <1>7, <2>1, <2>2, <2>3 DEF CallOK
<1>10. Shape'
    BY <1>5, <1>7, <1>9 DEF Shape
<1> QED BY <1>6, <1>8, <1>10

LEMMA CustomFacts ==
    ASSUME Base, NextJob("custom")
    PROVE  \E c \in DOMAIN caps :
              /\ c = Head(queue).r.of /\ Head(queue).r = Reaction("custom", c, 0)
              /\ Head(queue).s \in Settlement
              /\ caps[c].of \in Promise /\ Head(queue).s = state[caps[c].of]
<1>1. Head(queue) \in JobSet /\ Triggers(Head(queue)) /\ Head(queue).r.kind = "custom"
    BY NextJobFacts DEF NextJob
<1> PICK r : r = Head(queue).r
    OBVIOUS
<1>2. PICK q \in Item : HangsOn(r, q) /\ Head(queue).s = StateOf(q)
    BY <1>1 DEF Triggers
<1>3. r.of \in DOMAIN caps /\ r.index = 0 /\ caps[r.of].of = q /\ q \in Promise
    BY <1>1, <1>2 DEF HangsOn, AllKinds
<1>4. Head(queue).s \in Settlement /\ r \in ReactionSet
    BY <1>1 DEF JobSet
<1>5. q # Plain
    BY <1>3, CombinatorAssumption DEF Promise, Plain
<1>6. Head(queue).s = state[caps[r.of].of]
    BY <1>2, <1>3, <1>5 DEF StateOf
<1>7. r = Reaction("custom", r.of, 0)
    BY <1>1, <1>3, <1>4 DEF Reaction, ReactionSet
<1> QED BY <1>3, <1>4, <1>6, <1>7

LEMMA RunCustomBase ==
    ASSUME Base, RunCustom
    PROVE  Base' /\ Grow /\ Keeps
<1>1. NextJob("custom") /\ UNCHANGED <<core, aggs, call, listened>>
    BY DEF RunCustom
<1>2. PICK c \in DOMAIN caps : c = Head(queue).r.of /\ Head(queue).s \in Settlement
    BY <1>1, CustomFacts
<1>3. /\ queue' \in Seq(JobSet) /\ \A j : In(j, queue') => In(j, queue)
    BY <1>1, NextJobFacts
<1>4. Shape' /\ Grow
    <2>1. CASE running' = c /\ UNCHANGED caps
        <3>1. running' \in 0 .. Len(caps)
            BY <2>1, BaseTypes DEF Base
        <3> QED BY <1>1, <2>1, <3>1, ShapeSame DEF Base
    <2>2. CASE CallCap(c, Head(queue).s) /\ UNCHANGED running
        BY <1>1, <1>2, <2>2, CallCapShape DEF Base, Shape
    <2> QED BY <1>2, <2>1, <2>2 DEF RunCustom
<1>5. UNCHANGED <<promises, listened>> /\ firing' = firing /\ firing' \in Seq(JobSet)
    BY <1>1 DEF core, Base
<1> QED BY <1>3, <1>4, <1>5, QuietBase

LEMMA HandlerBase ==
    ASSUME Base, NEW s \in Settlement, HandlerDone(s)
    PROVE  Base' /\ Grow /\ Keeps
<1>1. PICK c \in DOMAIN caps : c = running
    BY BaseTypes DEF HandlerDone, Base, Shape
<1>2. CallCap(c, s) /\ running' = 0 /\ UNCHANGED <<core, queue, aggs, call, listened>>
    BY <1>1 DEF HandlerDone
<1>3. Shape' /\ Grow
    BY <1>2, CallCapShape, BaseTypes DEF Base
<1>4. UNCHANGED <<promises, listened>> /\ firing' = firing /\ queue' = queue
    BY <1>2 DEF core
<1> QED BY <1>3, <1>4, QuietBase DEF Base

LEMMA SourceBase ==
    ASSUME Base, NEW p \in Source, NEW s \in Settlement, SettleSource(p, s)
    PROVE  Base' /\ Grow /\ Keeps
<1>1. Settle(p, s, <<>>) /\ UNCHANGED <<queue, aggs, call, caps, running, listened>>
    BY DEF SettleSource
<1>2. Shape' /\ Grow
    BY <1>1, ShapeSame DEF Base, Shape
<1>3. p \in Promise /\ p <= Sources + Len(aggs')
    BY <1>1, <1>2, Lengths, CombinatorAssumption DEF Source, Promise, Base
<1>4. <<>> \in Seq(JobSet) /\ (\A j : In(j, <<>>) => In(j, firing))
    BY InEmpty
<1>5. queue' \in Seq(JobSet) /\ \A j : In(j, queue') => In(j, queue)
    BY <1>1 DEF Base
<1> QED BY <1>1, <1>2, <1>3, <1>4, <1>5, SettleBase

(* A promise user code can name exists. *)
LEMMA NamedExists ==
    ASSUME Base, NEW p, Named(p)
    PROVE  p \in Promise /\ p <= Sources + Len(aggs)
<1>1. CASE p \in Source
    BY <1>1, BaseTypes DEF Source, Promise, Base
<1>2. CASE p \notin Source
    BY <1>2, BaseTypes DEF Named, Base
<1> QED BY <1>1, <1>2

LEMMA ListenBase ==
    ASSUME Base, NEW p, Listen(p)
    PROVE  Base' /\ Grow /\ Keeps
<1> DEFINE r == Reaction("user", 0, 0)
<1>1. /\ firing = <<>> /\ Named(p) /\ Attach(p, r)
      /\ UNCHANGED <<queue, aggs, call, caps, running>>
    BY DEF Listen, UserTurn
<1>2. Shape' /\ Grow
    BY <1>1, ShapeSame DEF Base, Shape
<1>3. p \in Promise /\ p <= Sources + Len(aggs)
    BY <1>1, NamedExists
<1>4. r \in ReactionSet /\ HangsOn(r, p)'
    BY <1>3 DEF Reaction, ReactionSet, HangsOn
<1> QED BY <1>1, <1>2, <1>3, <1>4, AttachBase

LEMMA ThenCustomBase ==
    ASSUME Base, NEW p, NEW on \in SUBSET {"fulfilled", "rejected"}, ThenCustom(p, on)
    PROVE  Base' /\ Grow /\ Keeps
<1>1. PICK k \in Nat : k = Len(caps) + 1
    BY BaseTypes DEF Base
<1> DEFINE r == Reaction("custom", k, 0)
           new == NewCapOf(p, on)
<1>2. /\ firing = <<>> /\ Named(p) /\ MayCall /\ Attach(p, r) /\ caps' = Append(caps, new)
      /\ UNCHANGED <<queue, aggs, call, running>>
    BY <1>1 DEF ThenCustom, UserTurn
<1>3. p \in Promise /\ p <= Sources + Len(aggs)
    BY <1>2, NamedExists
<1>4. p \in Nat /\ new \in CapSet /\ new.of = p
    BY <1>3, CombinatorAssumption DEF Promise, NewCapOf, CapSet
<1> HIDE DEF new
<1>5. /\ caps' \in Seq(CapSet) /\ Len(caps') = Len(caps) + 1
      /\ \A c \in DOMAIN caps : caps'[c] = caps[c] /\ c \in DOMAIN caps'
      /\ caps'[k] = new /\ k \in DOMAIN caps'
      /\ \A c \in DOMAIN caps' : c \notin DOMAIN caps => c = k
    BY <1>1, <1>2, <1>4, AddCap DEF Base
<1>6. Shape /\ Len(aggs) \in Nat /\ Len(caps) \in Nat /\ Sources \in Nat /\ MaxCalls \in Nat
    BY BaseTypes DEF Base
<1>7. Grow
    BY <1>2, <1>5, <1>6, BaseTypes DEF Grow
<1>8. ASSUME NEW a \in DOMAIN aggs PROVE CallOK(a)'
    <2>1. CallOK(a)
        BY <1>6 DEF Shape
    <2>2. PICK d : d = aggs[a].cap
        OBVIOUS
    <2>3. d \in 0 .. Len(caps) /\ DOMAIN caps = 1 .. Len(caps)
        BY <1>6, <2>1, <2>2, BaseTypes DEF CallOK
    <2>4. d \in 0 .. Len(caps') /\ (d # 0 => caps'[d] = caps[d])
        BY <1>5, <1>6, <2>3
    <2> QED BY <1>2, <2>1, <2>2, <2>4 DEF CallOK
<1>9. Shape'
    <2>1. Len(aggs') + Len(caps') <= MaxCalls
        BY <1>2, <1>5, <1>6 DEF MayCall
    <2>2. running' \in 0 .. Len(caps')
        BY <1>2, <1>5, <1>6 DEF Shape
    <2>3. ASSUME NEW c \in DOMAIN caps' PROVE caps'[c].of \in 0 .. Sources + Len(aggs')
        <3>1. CASE c \in DOMAIN caps
            BY <1>2, <1>5, <1>6, <3>1 DEF Shape
        <3>2. CASE c \notin DOMAIN caps
            BY <1>2, <1>3, <1>4, <1>5, <1>6, <3>2
        <3> QED BY <3>1, <3>2
    <2> QED BY <1>2, <1>5, <1>6, <1>8, <2>1, <2>2, <2>3 DEF Shape
<1>10. r \in ReactionSet /\ HangsOn(r, p)'
    BY <1>3, <1>4, <1>5 DEF Reaction, ReactionSet, HangsOn
<1> QED BY <1>2, <1>3, <1>7, <1>9, <1>10, AttachBase

LEMMA NextBase == Base /\ [Next]_vars => Base' /\ Grow /\ Keeps
<1> SUFFICES ASSUME Base, [Next]_vars PROVE Base' /\ Grow /\ Keeps
    OBVIOUS
<1>1. CASE UNCHANGED vars
    <2>1. /\ UNCHANGED <<promises, listened>> /\ firing' = firing /\ queue' = queue
          /\ UNCHANGED <<aggs, call, caps, running>>
        BY <1>1 DEF vars, promises
    <2>2. Shape' /\ Grow
        BY <2>1, ShapeSame DEF Base, Shape
    <2> QED BY <2>1, <2>2, QuietBase DEF Base
<1>2. ASSUME NEW kind \in Kinds, NEW custom \in BOOLEAN, NEW items \in Items,
             CallCombinator(kind, items, custom)
      PROVE  Base' /\ Grow /\ Keeps
    BY <1>2, CallCombinatorBase
<1>3. ASSUME NEW kind \in Kinds, NEW custom \in BOOLEAN, CallFails(kind, custom)
      PROVE  Base' /\ Grow /\ Keeps
    BY <1>3, CallFailsBase
<1>4. CASE AttachNext
    BY <1>4, AttachNextBase
<1>5. CASE FinishCall
    BY <1>5, FinishCallBase
<1>6. CASE FireReaction
    BY <1>6, AllBase, AnyBase, AllSettledBase, EnqueueBase DEF FireReaction
<1>7. CASE RunRace
    BY <1>7, RunRaceBase
<1>8. CASE RunCustom
    BY <1>8, RunCustomBase
<1>9. CASE HandlerDone(Fulfilled(<<Plain>>)) \/ HandlerDone(Rejected(<<Plain>>))
    BY <1>9, PlainTypes, HandlerBase
<1>10. ASSUME NEW p \in Source, NEW s \in {Fulfilled(<<p>>), Rejected(<<-p>>)}, SettleSource(p, s)
       PROVE  Base' /\ Grow /\ Keeps
    <2>1. p \in Int
        BY CombinatorAssumption DEF Source
    <2>2. <<p>> \in Seq(Int) /\ <<-p>> \in Seq(Int)
        BY <2>1
    <2> QED BY <1>10, <2>2, SettlementTypes, SourceBase
<1>11. ASSUME NEW p \in Promise, Listen(p) PROVE Base' /\ Grow /\ Keeps
    BY <1>11, ListenBase
<1>12. ASSUME NEW p \in Promise, NEW on \in SUBSET {"fulfilled", "rejected"}, ThenCustom(p, on)
       PROVE  Base' /\ Grow /\ Keeps
    BY <1>12, ThenCustomBase
<1> QED BY <1>1, <1>2, <1>3, <1>4, <1>5, <1>6, <1>7, <1>8, <1>9, <1>10, <1>11, <1>12 DEF Next

LEMMA BaseAlways == Spec => []Base
<1>1. Init => Base
    BY InitBase
<1>2. Base /\ [Next]_vars => Base'
    BY NextBase
<1> QED BY <1>1, <1>2, PTL DEF Spec

(* A rejected promise is in the unhandled list exactly when nothing was    *)
(* ever attached to it, whatever settles it and in whatever order: the     *)
(* bookkeeping of attach_reaction and reject_promise is exact.             *)
THEOREM UnhandledExactAlways == Spec => []UnhandledExact
<1>1. Base => UnhandledExact
    BY DEF Base, Ledger
<1> QED BY <1>1, BaseAlways, PTL

-----------------------------------------------------------------------------
(* Every reaction is in one place, once *)

Single(rs) == \A i, j \in DOMAIN rs : rs[i] = rs[j] /\ rs[i].kind # "user" => i = j
SingleJobs(jobs) ==
    \A i, j \in DOMAIN jobs : jobs[i].r = jobs[j].r /\ jobs[i].r.kind # "user" => i = j

Once ==
    /\ \A q \in Promise : Single(reactions[q])
    /\ SingleJobs(firing) /\ SingleJobs(queue)
    /\ \A r : InJobs(r, firing) /\ InJobs(r, queue) => r.kind = "user"

(* A reaction waits for its promise or has just been triggered, or it is in *)
(* the job queue.                                                           *)
Held(r) == (\E q \in Promise : In(r, reactions[q])) \/ InJobs(r, firing)
Queued(r) == InJobs(r, queue)

Stays(r) == (Held(r)' <=> Held(r)) /\ (Queued(r)' <=> Queued(r))
AllStay == \A r : r.kind # "user" => Stays(r)
OthersStay(x) == \A r : r.kind # "user" /\ r # x => Stays(r)

LEMMA SingleEmpty == Single(<<>>) /\ SingleJobs(<<>>)
BY DEF Single, SingleJobs

LEMMA SingleOne == ASSUME NEW job PROVE SingleJobs(<<job>>)
BY DEF SingleJobs

LEMMA SingleFired ==
    ASSUME NEW rs, NEW s, Single(rs)
    PROVE  SingleJobs(Fired(rs, s))
BY DEF Single, SingleJobs, Fired, JobOf

LEMMA SingleConcat ==
    ASSUME NEW s \in Seq(JobSet), NEW t \in Seq(JobSet), SingleJobs(s), SingleJobs(t),
           \A r : InJobs(r, s) /\ InJobs(r, t) => r.kind = "user"
    PROVE  SingleJobs(s \o t)
<1> DEFINE u == s \o t
<1>1. PICK n \in Nat : n = Len(s) /\ DOMAIN s = 1 .. n
    OBVIOUS
<1>2. PICK m \in Nat : m = Len(t) /\ DOMAIN t = 1 .. m
    OBVIOUS
<1>3. DOMAIN u = 1 .. n + m /\ \A k \in DOMAIN u :
          \/ k \in 1 .. n /\ u[k] = s[k]
          \/ k - n \in 1 .. m /\ u[k] = t[k - n]
    BY <1>1, <1>2, ConcatProperties
<1> HIDE DEF u
<1> SUFFICES ASSUME NEW i \in DOMAIN u, NEW j \in DOMAIN u, u[i].r = u[j].r, u[i].r.kind # "user"
             PROVE  i = j
    BY DEF u, SingleJobs
<1>4. i \in Int /\ j \in Int
    BY <1>3
<1>5. CASE i \in 1 .. n /\ u[i] = s[i]
    <2>1. CASE j \in 1 .. n /\ u[j] = s[j]
        BY <1>1, <1>5, <2>1 DEF SingleJobs
    <2>2. CASE j - n \in 1 .. m /\ u[j] = t[j - n]
        BY <1>1, <1>2, <1>5, <2>2 DEF InJobs
    <2> QED BY <1>3, <2>1, <2>2
<1>6. CASE i - n \in 1 .. m /\ u[i] = t[i - n]
    <2>1. CASE j \in 1 .. n /\ u[j] = s[j]
        BY <1>1, <1>2, <1>6, <2>1 DEF InJobs
    <2>2. CASE j - n \in 1 .. m /\ u[j] = t[j - n]
        <3>1. i - n = j - n
            BY <1>2, <1>6, <2>2 DEF SingleJobs
        <3> QED BY <1>1, <1>4, <3>1
    <2> QED BY <1>3, <2>1, <2>2
<1> QED BY <1>3, <1>5, <1>6

LEMMA SingleAppendJob ==
    ASSUME NEW s \in Seq(JobSet), SingleJobs(s), NEW job \in JobSet,
           InJobs(job.r, s) => job.r.kind = "user"
    PROVE  SingleJobs(Append(s, job))
<1> DEFINE one == <<job>>
<1>1. Append(s, job) = s \o one /\ one \in Seq(JobSet)
    OBVIOUS
<1>2. SingleJobs(one) /\ \A r : InJobs(r, one) <=> r = job.r
    BY SingleOne, InJobsOne
<1> HIDE DEF one
<1> QED BY <1>1, <1>2, SingleConcat

LEMMA SingleAppend ==
    ASSUME NEW s \in Seq(ReactionSet), Single(s), NEW r \in ReactionSet,
           In(r, s) => r.kind = "user"
    PROVE  Single(Append(s, r))
<1>1. PICK n \in Nat : n = Len(s) /\ DOMAIN s = 1 .. n
    OBVIOUS
<1> DEFINE u == Append(s, r)
<1>2. DOMAIN u = 1 .. n + 1 /\ u[n + 1] = r /\ \A i \in 1 .. n : u[i] = s[i]
    BY <1>1
<1> HIDE DEF u
<1> SUFFICES ASSUME NEW i \in 1 .. n + 1, NEW j \in 1 .. n + 1, u[i] = u[j], u[i].kind # "user"
             PROVE  i = j
    BY <1>2 DEF u, Single
<1>3. (i \in 1 .. n \/ i = n + 1) /\ (j \in 1 .. n \/ j = n + 1)
    BY <1>1
<1> QED BY <1>1, <1>2, <1>3 DEF Single, In

LEMMA SingleTail ==
    ASSUME NEW s \in Seq(JobSet), s # <<>>, SingleJobs(s)
    PROVE  /\ SingleJobs(Tail(s))
           /\ Head(s).r.kind # "user" => ~InJobs(Head(s).r, Tail(s))
<1>1. PICK n \in Nat : n = Len(s) /\ n # 0 /\ DOMAIN s = 1 .. n
    OBVIOUS
<1> DEFINE t == Tail(s)
<1>2. DOMAIN t = 1 .. n - 1 /\ (\A i \in 1 .. n - 1 : t[i] = s[i + 1]) /\ Head(s) = s[1]
    BY <1>1
<1>3. \A i \in 1 .. n - 1 : i + 1 \in 1 .. n /\ i + 1 # 1
    BY <1>1
<1> HIDE DEF t
<1>4. SingleJobs(t)
    <2> SUFFICES ASSUME NEW i \in 1 .. n - 1, NEW j \in 1 .. n - 1, t[i].r = t[j].r,
                        t[i].r.kind # "user"
                 PROVE  i = j
        BY <1>2 DEF SingleJobs
    <2>1. i + 1 = j + 1
        BY <1>1, <1>2, <1>3 DEF SingleJobs
    <2> QED BY <2>1
<1>5. Head(s).r.kind # "user" => ~InJobs(Head(s).r, t)
    <2> SUFFICES ASSUME Head(s).r.kind # "user", NEW i \in 1 .. n - 1, t[i].r = Head(s).r
                 PROVE  FALSE
        BY <1>2 DEF InJobs
    <2>1. i + 1 \in 1 .. n /\ i + 1 # 1 /\ 1 \in 1 .. n /\ s[i + 1].r = s[1].r
        BY <1>1, <1>2, <1>3
    <2> QED BY <1>1, <1>2, <2>1 DEF SingleJobs
<1> QED BY <1>4, <1>5 DEF t

(* A reaction but a handler of user code hangs on one promise. *)
LEMMA HangsUnique ==
    ASSUME NEW r, r.kind # "user", NEW p, NEW q, HangsOn(r, p), HangsOn(r, q)
    PROVE  p = q
BY DEF HangsOn, AllKinds

LEMMA InJobsHang ==
    ASSUME Base, NEW r, InJobs(r, firing) \/ InJobs(r, queue)
    PROVE  \E q \in Item : HangsOn(r, q) /\ StateOf(q).st # "pending"
<1>1. PICK j : (In(j, firing) \/ In(j, queue)) /\ j.r = r
    BY DEF In, InJobs
<1> QED BY <1>1 DEF Base, Hang, Triggers

(* A reaction on a promise is on no other one, and triggered nowhere. *)
LEMMA Elsewhere ==
    ASSUME Base, NEW q \in Promise, NEW r, In(r, reactions[q]), r.kind # "user"
    PROVE  /\ ~InJobs(r, firing) /\ ~InJobs(r, queue)
           /\ \A p \in Promise : p # q => ~In(r, reactions[p])
<1>1. HangsOn(r, q) /\ \A p \in Promise : In(r, reactions[p]) => HangsOn(r, p)
    BY DEF Base, Hang
<1>2. reactions[q] # <<>>
    BY InEmpty
<1>3. IsPending(q)
    BY <1>2 DEF Base, Ledger
<1>4. ASSUME InJobs(r, firing) \/ InJobs(r, queue) PROVE FALSE
    <2>1. PICK p \in Item : HangsOn(r, p) /\ StateOf(p).st # "pending"
        BY <1>4, InJobsHang
    <2>2. p = q
        BY <1>1, <2>1, HangsUnique
    <2>3. q # Plain
        BY CombinatorAssumption DEF Promise, Plain
    <2> QED BY <1>3, <2>1, <2>2, <2>3 DEF StateOf, IsPending
<1> QED BY <1>1, <1>4, HangsUnique

(* A settlement triggers the reactions of the promise; all stay held. *)
LEMMA SettleOnce ==
    ASSUME Base, Once, NEW p \in Promise, NEW s \in Settlement, NEW rest \in Seq(JobSet),
           Settle(p, s, rest), SingleJobs(rest), \A r : InJobs(r, rest) => InJobs(r, firing),
           SingleJobs(queue'), \A r : InJobs(r, queue') => InJobs(r, queue)
    PROVE  /\ Once'
           /\ \A r : Held(r)' <=> (\E q \in Promise : In(r, reactions[q])) \/ InJobs(r, rest)
<1>1. CASE ~IsPending(p)
    <2>1. firing' = rest /\ reactions' = reactions
        BY <1>1 DEF Settle, promises
    <2>2. Once'
        <3>1. \A r : InJobs(r, rest) /\ InJobs(r, queue') => r.kind = "user"
            BY DEF Once
        <3> QED BY <2>1, <3>1 DEF Once, InJobs
    <2> QED BY <2>1, <2>2 DEF Held, In, InJobs
<1>2. CASE IsPending(p)
    <2> PICK rs \in Seq(ReactionSet) : rs = reactions[p]
        BY DEF Base, Ledger
    <2>1. /\ reactions' = [reactions EXCEPT ![p] = <<>>]
          /\ firing' = Fired(rs, s) \o rest
        BY <1>2 DEF Settle, Fired
    <2>2. reactions'[p] = <<>> /\ \A q \in Promise : q # p => reactions'[q] = reactions[q]
        BY <2>1 DEF Base, Ledger
    <2>3. Fired(rs, s) \in Seq(JobSet) /\ \A r : InJobs(r, Fired(rs, s)) <=> In(r, rs)
        BY FiredType, InFired
    <2>4. \A r : InJobs(r, firing') <=> In(r, rs) \/ InJobs(r, rest)
        BY <2>1, <2>3, InConcat
    <2>5. \A r : In(r, rs) /\ r.kind # "user" => ~InJobs(r, firing) /\ ~InJobs(r, queue)
        BY Elsewhere
    <2>6. SingleJobs(firing')
        <3>1. SingleJobs(Fired(rs, s))
            BY SingleFired DEF Once
        <3> QED BY <2>1, <2>3, <2>5, <3>1, SingleConcat
    <2>7. \A q \in Promise : Single(reactions'[q])
        BY <2>2, SingleEmpty DEF Once
    <2>8. \A r : InJobs(r, firing') /\ InJobs(r, queue') => r.kind = "user"
        BY <2>4, <2>5 DEF Once
    <2>9. Once'
        BY <2>6, <2>7, <2>8 DEF Once, InJobs, Single, SingleJobs
    <2>10. \A r : Held(r)' <=> (\E q \in Promise : In(r, reactions'[q])) \/ InJobs(r, firing')
        BY DEF Held, In, InJobs
    <2>11. \A r : (\E q \in Promise : In(r, reactions[q])) <=>
                  (\E q \in Promise : In(r, reactions'[q])) \/ In(r, rs)
        BY <2>2, InEmpty
    <2> QED BY <2>4, <2>9, <2>10, <2>11
<1> QED BY <1>1, <1>2

LEMMA HeldQueued ==
    /\ \A r : Held(r)' <=> (\E q \in Promise : In(r, reactions'[q])) \/ InJobs(r, firing')
    /\ \A r : Queued(r)' <=> InJobs(r, queue')
BY DEF Held, Queued, In, InJobs

(* A new reaction is attached; the others stay where they are. *)
LEMMA AttachOnce ==
    ASSUME Base, Once, NEW p \in Promise, NEW r \in ReactionSet, Attach(p, r),
           firing = <<>>, UNCHANGED queue, r.kind = "user" \/ (~Held(r) /\ ~Queued(r))
    PROVE  Once' /\ OthersStay(r) /\ Held(r)' /\ (r.kind # "user" => ~Queued(r)')
<1>1. \A x : ~InJobs(x, firing)
    BY InEmpty
<1>2. r.kind # "user" => ~InJobs(r, queue)
    BY DEF Queued
<1>3. CASE ~IsPending(p)
    <2> PICK job \in JobSet : job = JobOf(r, state[p])
        BY <1>3 DEF Base, Ledger, JobOf, JobSet, IsPending, Settlement
    <2>1. firing' = <<job>> /\ reactions' = reactions /\ job.r = r
        BY <1>3 DEF Attach, JobOf
    <2>2. SingleJobs(firing') /\ \A x : InJobs(x, firing') <=> x = r
        BY <2>1, SingleOne, InJobsOne
    <2>3. Once'
        BY <1>2, <2>1, <2>2 DEF Once, InJobs
    <2> QED BY <1>1, <1>2, <2>1, <2>2, <2>3, HeldQueued DEF OthersStay, Stays, Held, Queued
<1>4. CASE IsPending(p)
    <2> PICK rs \in Seq(ReactionSet) : rs = reactions[p]
        BY DEF Base, Ledger
    <2>1. firing' = firing /\ reactions' = [reactions EXCEPT ![p] = Append(rs, r)]
        BY <1>4 DEF Attach
    <2>2. /\ reactions'[p] = Append(rs, r)
          /\ \A q \in Promise : q # p => reactions'[q] = reactions[q]
        BY <2>1 DEF Base, Ledger
    <2>3. \A x : In(x, reactions'[p]) <=> In(x, rs) \/ x = r
        BY <2>2, InAppend
    <2>4. Single(reactions'[p])
        <3>1. In(r, rs) => r.kind = "user"
            BY DEF Held
        <3> QED BY <2>2, <3>1, SingleAppend DEF Once
    <2>5. \A q \in Promise : Single(reactions'[q])
        BY <2>2, <2>4 DEF Once
    <2>6. Once'
        BY <2>1, <2>5 DEF Once, InJobs, Single
    <2>7. \A x : (\E q \in Promise : In(x, reactions'[q])) <=>
                 (\E q \in Promise : In(x, reactions[q])) \/ x = r
        BY <2>2, <2>3
    <2> QED BY <1>1, <1>2, <2>1, <2>6, <2>7, HeldQueued DEF OthersStay, Stays, Held, Queued
<1> QED BY <1>3, <1>4

-----------------------------------------------------------------------------
(* Where reactions go in a step *)

LEMMA QuietMoves ==
    ASSUME Once, UNCHANGED <<reactions, firing, queue>>
    PROVE  Once' /\ AllStay
<1>1. Once'
    BY DEF Once, InJobs
<1> QED BY <1>1, HeldQueued DEF AllStay, Stays, Held, Queued

(* A promise settles when no cascade is under way. *)
LEMMA SettleMoves ==
    ASSUME Base, Once, firing = <<>>, NEW p \in Promise, NEW s \in Settlement,
           Settle(p, s, <<>>), UNCHANGED queue
    PROVE  Once' /\ AllStay
<1>1. <<>> \in Seq(JobSet) /\ SingleJobs(<<>>) /\ \A r : ~InJobs(r, <<>>)
    BY SingleEmpty, InEmpty
<1>2. Once' /\ \A r : Held(r)' <=> (\E q \in Promise : In(r, reactions[q])) \/ InJobs(r, <<>>)
    BY <1>1, SettleOnce DEF Once
<1> QED BY <1>1, <1>2, HeldQueued DEF AllStay, Stays, Held, Queued

(* The head of the cascade leaves it. *)
LEMMA HeadFacts ==
    ASSUME Base, Once, firing # <<>>
    PROVE  /\ Tail(firing) \in Seq(JobSet) /\ SingleJobs(Tail(firing))
           /\ \A r : InJobs(r, firing) <=> r = Element \/ InJobs(r, Tail(firing))
           /\ Element.kind # "user" =>
                 /\ ~InJobs(Element, Tail(firing)) /\ ~InJobs(Element, queue) /\ Held(Element)
                 /\ \A q \in Promise : ~In(Element, reactions[q])
<1>1. /\ Tail(firing) \in Seq(JobSet)
      /\ \A r : InJobs(r, firing) <=> r = Element \/ InJobs(r, Tail(firing))
    BY InHeadTail DEF Base, Element
<1>2. SingleJobs(Tail(firing)) /\ (Element.kind # "user" => ~InJobs(Element, Tail(firing)))
    BY SingleTail DEF Base, Once, Element
<1>3. InJobs(Element, firing)
    BY <1>1
<1>4. Element.kind # "user" => ~InJobs(Element, queue)
    BY <1>3 DEF Once
<1>5. Element.kind # "user" => \A q \in Promise : ~In(Element, reactions[q])
    BY <1>3, Elsewhere
<1> QED BY <1>1, <1>2, <1>3, <1>4, <1>5 DEF Held

(* An element of all, any or allSettled is used up. *)
LEMMA ElementMoves ==
    ASSUME Base, Once, firing # <<>>, NEW r, r = Element, r.kind # "user", UNCHANGED queue,
           \/ Skip
           \/ \E p \in Promise, s \in Settlement : Settle(p, s, Tail(firing))
    PROVE  Once' /\ OthersStay(r) /\ ~Held(r)' /\ ~Queued(r)'
<1> PICK rest \in Seq(JobSet) : rest = Tail(firing)
    BY HeadFacts
<1>1. /\ SingleJobs(rest) /\ \A x : InJobs(x, firing) <=> x = r \/ InJobs(x, rest)
      /\ ~InJobs(r, rest) /\ ~InJobs(r, queue) /\ \A q \in Promise : ~In(r, reactions[q])
    BY HeadFacts
<1>2. Once' /\ \A x : Held(x)' <=> (\E q \in Promise : In(x, reactions[q])) \/ InJobs(x, rest)
    <2>1. CASE Skip
        <3>1. firing' = rest /\ reactions' = reactions /\ queue' = queue
            BY <2>1 DEF Skip, promises
        <3>2. Once'
            BY <1>1, <3>1 DEF Once, InJobs
        <3> QED BY <3>1, <3>2, HeldQueued
    <2>2. ASSUME NEW p \in Promise, NEW s \in Settlement, Settle(p, s, rest)
          PROVE  Once' /\ \A x : Held(x)' <=> (\E q \in Promise : In(x, reactions[q])) \/ InJobs(x, rest)
        BY <1>1, <2>2, SettleOnce DEF Once
    <2> QED BY <2>1, <2>2
<1> QED BY <1>1, <1>2, HeldQueued DEF OthersStay, Stays, Held, Queued

LEMMA EnqueueMoves ==
    ASSUME Base, Once, EnqueueJob, NEW r, r = Element
    PROVE  /\ Once' /\ OthersStay(r)
           /\ r.kind = "user" => AllStay
           /\ r.kind # "user" => Held(r) /\ ~Held(r)' /\ Queued(r)'
<1> PICK job : job = Head(firing)
    OBVIOUS
<1>1. firing # <<>> /\ firing' = Tail(firing) /\ reactions' = reactions /\ r = job.r
    BY DEF EnqueueJob, Fires, Skip, promises, Element
<1>2. queue' = IF r.kind = "user" THEN queue ELSE Append(queue, job)
    BY DEF EnqueueJob, Element
<1> PICK rest \in Seq(JobSet) : rest = Tail(firing)
    BY <1>1, HeadFacts
<1>3. /\ SingleJobs(rest) /\ \A x : InJobs(x, firing) <=> x = r \/ InJobs(x, rest)
      /\ r.kind # "user" =>
            /\ ~InJobs(r, rest) /\ ~InJobs(r, queue) /\ Held(r)
            /\ \A q \in Promise : ~In(r, reactions[q])
    BY <1>1, HeadFacts
<1>4. CASE r.kind = "user"
    <2>1. Once'
        BY <1>1, <1>2, <1>3, <1>4 DEF Once, InJobs
    <2> QED BY <1>1, <1>2, <1>3, <1>4, <2>1, HeldQueued DEF AllStay, OthersStay, Stays, Held, Queued
<1>5. CASE r.kind # "user"
    <2>1. job \in JobSet /\ queue \in Seq(JobSet)
        BY <1>1, FireFacts DEF Base
    <2>2. queue' = Append(queue, job) /\ \A x : InJobs(x, queue') <=> InJobs(x, queue) \/ x = r
        BY <1>1, <1>2, <1>5, <2>1, InAppend
    <2>3. SingleJobs(queue')
        BY <1>1, <1>3, <1>5, <2>1, <2>2, SingleAppendJob DEF Once
    <2>4. \A x : InJobs(x, rest) /\ InJobs(x, queue') => x.kind = "user"
        BY <1>3, <1>5, <2>2 DEF Once
    <2>5. Once'
        BY <1>1, <1>3, <2>3, <2>4 DEF Once, InJobs, SingleJobs, Single
    <2> QED BY <1>1, <1>3, <1>5, <2>2, <2>5, HeldQueued DEF OthersStay, Stays, Held, Queued
<1> QED BY <1>4, <1>5

(* The first job leaves the queue. *)
LEMMA JobMoves ==
    ASSUME Base, Once, NEW kind, kind # "user", NextJob(kind), NEW r, r = Head(queue).r,
           \/ UNCHANGED core
           \/ \E p \in Promise, s \in Settlement : Settle(p, s, <<>>)
    PROVE  Once' /\ OthersStay(r) /\ ~Held(r) /\ ~Held(r)' /\ Queued(r) /\ ~Queued(r)'
<1>1. queue # <<>> /\ queue' = Tail(queue) /\ firing = <<>> /\ r.kind # "user"
    BY DEF NextJob, UserTurn
<1> PICK rest \in Seq(JobSet) : rest = Tail(queue)
    BY <1>1, InHeadTail DEF Base
<1>2. \A x : InJobs(x, queue) <=> x = r \/ InJobs(x, rest)
    BY <1>1, InHeadTail DEF Base
<1>3. SingleJobs(rest) /\ ~InJobs(r, rest)
    BY <1>1, SingleTail DEF Base, Once
<1>4. InJobs(r, queue) /\ \A x : ~InJobs(x, firing)
    BY <1>1, <1>2, InEmpty
<1>5. \A q \in Promise : ~In(r, reactions[q])
    BY <1>1, <1>4, Elsewhere
<1>6. Once' /\ \A x : Held(x)' <=> (\E q \in Promise : In(x, reactions[q]))
    <2>1. CASE UNCHANGED core
        <3>1. firing' = firing /\ reactions' = reactions /\ queue' = rest
            BY <1>1, <2>1 DEF core, promises
        <3>2. Once'
            BY <1>2, <1>3, <3>1 DEF Once, InJobs
        <3> QED BY <1>4, <3>1, <3>2, HeldQueued
    <2>2. ASSUME NEW p \in Promise, NEW s \in Settlement, Settle(p, s, <<>>)
          PROVE  Once' /\ \A x : Held(x)' <=> (\E q \in Promise : In(x, reactions[q]))
        <3>1. <<>> \in Seq(JobSet) /\ SingleJobs(<<>>) /\ \A x : ~InJobs(x, <<>>)
            BY SingleEmpty, InEmpty
        <3>2. SingleJobs(queue') /\ \A x : InJobs(x, queue') => InJobs(x, queue)
            BY <1>1, <1>2, <1>3
        <3>3. Once' /\ \A x : Held(x)' <=> (\E q \in Promise : In(x, reactions[q])) \/ InJobs(x, <<>>)
            BY <2>2, <3>1, <3>2, SettleOnce
        <3> QED BY <3>1, <3>3
    <2> QED BY <2>1, <2>2
<1> QED BY <1>1, <1>2, <1>3, <1>4, <1>5, <1>6, HeldQueued DEF OthersStay, Stays, Held, Queued

(* The next element of the attaching call *)
NextElement == Reaction(aggs[Len(aggs)].kind, Len(aggs), aggs[Len(aggs)].next)

LEMMA AttachMoves ==
    ASSUME Base, Once, AttachNext, NEW r, r = NextElement
    PROVE  /\ Once' /\ OthersStay(r) /\ r.kind \in AllKinds
           /\ ~Held(r) /\ ~Queued(r) /\ Held(r)' /\ ~Queued(r)'
<1>1. Attaching
    BY DEF AttachNext
<1>2. PICK a \in DOMAIN aggs : a = Len(aggs)
    BY <1>1, AttachingFacts
<1>3. /\ call = "attach" /\ firing = <<>> /\ Shape
    BY <1>1, AttachingFacts DEF Base
<1> PICK item : item = aggs[a].items[aggs[a].next]
    OBVIOUS
<1>4. /\ r = Reaction(aggs[a].kind, a, aggs[a].next)
      /\ aggs[a].next <= Len(aggs[a].items)
      /\ \/ item # Plain /\ Attach(item, r)
         \/ /\ item = Plain /\ firing' = <<JobOf(r, Fulfilled(<<Plain>>))>>
            /\ UNCHANGED <<promises, listened>>
      /\ queue' = queue
    BY <1>2 DEF AttachNext, NextElement
<1>5. /\ aggs[a].next \in Nat /\ item \in Item /\ r \in ReactionSet
      /\ r.kind \in AllKinds
    BY <1>3, <1>4, NextItem, BaseTypes DEF CallSet, Reaction
<1>6. ~ \E q : HangsOn(r, q)
    BY <1>4, <1>5 DEF HangsOn, Reaction, AllKinds
<1>7. ~Held(r) /\ ~Queued(r)
    BY <1>6, InJobsHang DEF Held, Queued, Base, Hang
<1>8. r.kind # "user"
    BY <1>5 DEF AllKinds
<1>9. CASE item # Plain /\ Attach(item, r)
    <2>1. item \in Promise
        BY <1>5, <1>9, CombinatorAssumption DEF Item, Promise, Plain
    <2> QED BY <1>3, <1>4, <1>5, <1>7, <1>8, <1>9, <2>1, AttachOnce
<1>10. CASE /\ item = Plain /\ firing' = <<JobOf(r, Fulfilled(<<Plain>>))>>
            /\ UNCHANGED <<promises, listened>>
    <2> PICK job : job = JobOf(r, Fulfilled(<<Plain>>))
        OBVIOUS
    <2>1. firing' = <<job>> /\ reactions' = reactions /\ job.r = r
        BY <1>10 DEF JobOf, promises
    <2>2. SingleJobs(firing') /\ \A x : InJobs(x, firing') <=> x = r
        BY <2>1, SingleOne, InJobsOne
    <2>3. \A x : ~InJobs(x, firing)
        BY <1>3, InEmpty
    <2>4. Once'
        BY <1>4, <1>7, <2>1, <2>2 DEF Once, InJobs, Queued
    <2> QED BY <1>4, <1>5, <1>7, <1>8, <2>1, <2>2, <2>3, <2>4, HeldQueued
            DEF OthersStay, Stays, Held, Queued
<1> QED BY <1>4, <1>9, <1>10

-----------------------------------------------------------------------------
(* What a custom capability waits for *)

Custom(c) == Reaction("custom", c, 0)
Due(c) == call = "attach" /\ aggs[Len(aggs)].cap = c
Waits(c) == Due(c) \/ Held(Custom(c)) \/ Queued(Custom(c)) \/ running = c

(* A capability was not called as long as it waits: for its call to attach *)
(* its elements, for its promise, for its job or for its handler, for one  *)
(* of them only.                                                           *)
CapOK(c) ==
    /\ caps[c].calls = <<>> <=> Waits(c)
    /\ Len(caps[c].calls) <= 1
    /\ Due(c) => ~Held(Custom(c)) /\ ~Queued(Custom(c)) /\ running # c
    /\ running = c => ~Held(Custom(c)) /\ ~Queued(Custom(c))
    /\ running = c =>
          /\ caps[c].of \in Promise /\ ~IsPending(caps[c].of)
          /\ state[caps[c].of].st \in caps[c].on
    /\ caps[c].of = 0 => caps[c].on = {} /\ caps[c].calls = <<Rejected(<<Plain>>)>>
    /\ caps[c].of # 0 /\ caps[c].calls # <<>> =>
          /\ ~IsPending(caps[c].of)
          /\ state[caps[c].of].st \notin caps[c].on => caps[c].calls[1] = state[caps[c].of]

CapInv == \A c \in DOMAIN caps : CapOK(c)

LEMMA CustomNames ==
    \A c, d : /\ Custom(c).kind = "custom" /\ Custom(c).kind # "user" /\ Custom(c).kind \notin AllKinds
              /\ Custom(c).of = c /\ (Custom(c) = Custom(d) => c = d)
BY DEF Custom, Reaction, AllKinds

(* The promise a capability follows *)
LEMMA CapOf ==
    ASSUME Base, NEW c \in DOMAIN caps
    PROVE  /\ caps[c].of = 0 \/ caps[c].of \in Promise
           /\ 0 \notin Promise
           /\ caps[c].calls \in Seq(Settlement)
<1>1. caps[c].of \in 0 .. Sources + Len(aggs) /\ Len(aggs) <= MaxCalls /\ Len(aggs) \in Nat
    BY BaseTypes DEF Base, Shape
<1>2. caps[c].calls \in Seq(Settlement)
    BY BaseTypes DEF Base
<1> QED BY <1>1, <1>2, CombinatorAssumption DEF Promise

(* A capability that does not exist waits for nothing. *)
LEMMA NoCap ==
    ASSUME Base, NEW c, c \notin DOMAIN caps
    PROVE  ~Held(Custom(c)) /\ ~Queued(Custom(c))
<1>1. ~ \E q : HangsOn(Custom(c), q)
    BY CustomNames DEF HangsOn
<1> QED BY <1>1, InJobsHang DEF Held, Queued, Base, Hang

(* A capability goes on waiting, or was called before. *)
LEMMA CapMove ==
    ASSUME Base, Keeps, NEW c \in DOMAIN caps, CapOK(c), caps'[c] = caps[c],
           Waits(c)' <=> Waits(c),
           Due(c)' => ~Held(Custom(c))' /\ ~Queued(Custom(c))' /\ running' # c,
           running' = c => /\ ~Held(Custom(c))' /\ ~Queued(Custom(c))'
                           /\ caps[c].of \in Promise /\ ~IsPending(caps[c].of)
                           /\ state[caps[c].of].st \in caps[c].on
    PROVE  CapOK(c)'
<1>1. caps[c].of \in Promise /\ ~IsPending(caps[c].of) => state'[caps[c].of] = state[caps[c].of]
    BY DEF Keeps
<1>2. caps[c].of = 0 \/ caps[c].of \in Promise
    BY CapOf
<1> PICK p : p = caps[c].of
    OBVIOUS
<1>3. IsPending(p)' <=> state'[p].st = "pending"
    BY DEF IsPending
<1> QED BY <1>1, <1>2, <1>3 DEF CapOK, IsPending

(* A capability that waited is called. *)
LEMMA CapCalled ==
    ASSUME Base, Keeps, NEW c \in DOMAIN caps, CapOK(c), NEW s, Called(c, s),
           Waits(c), ~Waits(c)',
           caps[c].of \in Promise, ~IsPending(caps[c].of),
           state[caps[c].of].st \in caps[c].on \/ s = state[caps[c].of]
    PROVE  CapOK(c)'
<1>1. state'[caps[c].of] = state[caps[c].of]
    BY DEF Keeps
<1>2. caps'[c].calls = <<s>> /\ caps'[c].of = caps[c].of /\ caps'[c].on = caps[c].on
    <2>1. caps[c].calls = <<>>
        BY DEF CapOK
    <2>2. caps'[c].calls = Append(<<>>, s)
        BY <2>1 DEF Called
    <2> QED BY <2>2 DEF Called
<1>3. caps[c].of # 0
    BY CapOf
<1>4. Len(<<s>>) = 1 /\ <<s>> # <<>> /\ <<s>>[1] = s
    OBVIOUS
<1>5. ~Due(c)' /\ running' # c
    BY DEF Waits
<1> PICK p : p = caps[c].of
    OBVIOUS
<1>6. IsPending(p)' <=> state'[p].st = "pending"
    BY DEF IsPending
<1> QED BY <1>1, <1>2, <1>3, <1>4, <1>5, <1>6 DEF CapOK, IsPending

LEMMA CapStays ==
    ASSUME Base, Keeps, NEW c \in DOMAIN caps, CapOK(c), caps'[c] = caps[c],
           Stays(Custom(c)), Due(c)' <=> Due(c), running' = c <=> running = c
    PROVE  CapOK(c)'
<1>1. Waits(c)' <=> Waits(c)
    BY DEF Waits, Stays
<1> QED BY <1>1, CapMove DEF CapOK, Stays

LEMMA CapQuiet ==
    ASSUME Base, Keeps, CapInv, UNCHANGED <<caps, running>>,
           \A c \in DOMAIN caps : Due(c)' <=> Due(c),
           \A c \in DOMAIN caps : Stays(Custom(c))
    PROVE  CapInv'
<1>1. ASSUME NEW c \in DOMAIN caps PROVE CapOK(c)'
    BY <1>1, CapStays DEF CapInv
<1> QED BY <1>1 DEF CapInv

(* A capability is added, and nothing else changes for the others. *)
LEMMA CapAdded ==
    ASSUME Base, Keeps, CapInv, NEW k \in DOMAIN caps',
           \A c \in DOMAIN caps : caps'[c] = caps[c],
           \A c \in DOMAIN caps' : c \notin DOMAIN caps => c = k,
           \A c \in DOMAIN caps : (Due(c)' <=> Due(c)) /\ Stays(Custom(c)),
           UNCHANGED running, CapOK(k)'
    PROVE  CapInv'
<1>1. ASSUME NEW c \in DOMAIN caps PROVE CapOK(c)'
    BY <1>1, CapStays DEF CapInv
<1> QED BY <1>1 DEF CapInv

-----------------------------------------------------------------------------
(* Every step keeps the places of reactions and the capabilities in order *)

Tokens == Base /\ Once /\ CapInv

LEMMA InitTokens == Init => Tokens
<1> SUFFICES ASSUME Init PROVE Tokens
    OBVIOUS
<1>1. Once
    BY SingleEmpty, InEmpty DEF Init, Once
<1>2. CapInv
    BY DEF Init, CapInv
<1> QED BY <1>1, <1>2, InitBase DEF Tokens

(* The cascade of a call without elements, or none *)
LEMMA CoreMoves ==
    ASSUME Base, Once, firing = <<>>, UNCHANGED queue,
           \/ UNCHANGED core
           \/ \E p \in Promise, s \in Settlement : Settle(p, s, <<>>)
    PROVE  Once' /\ AllStay
BY QuietMoves, SettleMoves DEF core, promises

LEMMA CustomStays ==
    ASSUME AllStay \/ \E x : OthersStay(x) /\ x.kind # "custom"
    PROVE  \A c : Stays(Custom(c))
BY CustomNames DEF AllStay, OthersStay

LEMMA CallCombinatorCore ==
    ASSUME Base, NEW kind \in Kinds, NEW custom \in BOOLEAN, NEW items \in Items,
           CallCombinator(kind, items, custom)
    PROVE  /\ firing = <<>> /\ UNCHANGED queue
           /\ \/ UNCHANGED core
              \/ \E p \in Promise, s \in Settlement : Settle(p, s, <<>>)
<1> PICK raw : raw = Raw(Len(aggs) + 1)
    OBVIOUS
<1>1. Len(aggs) + 1 <= MaxCalls /\ Len(aggs) \in Nat /\ Sources \in Nat /\ MaxCalls \in Nat
    BY BaseTypes DEF CallCombinator, MayCall, Base
<1>2. raw \in Promise /\ raw \in Int
    BY <1>1 DEF Raw, Promise
<1>3. <<>> \in Seq(Seq(Int))
    OBVIOUS
<1>4. ArrayFor(raw, <<>>) \in Seq(Int)
    BY <1>2, <1>3, ArrayType
<1> QED BY <1>2, <1>4, SettlementTypes DEF CallCombinator, UserTurn

LEMMA CallCombinatorTokens ==
    ASSUME Tokens, NEW kind \in Kinds, NEW custom \in BOOLEAN, NEW items \in Items,
           CallCombinator(kind, items, custom)
    PROVE  Tokens' /\ AllStay
<1>1. Base' /\ Grow /\ Keeps /\ Base /\ Once /\ CapInv
    BY CallCombinatorBase DEF Tokens
<1>2. Once' /\ AllStay
    BY <1>1, CallCombinatorCore, CoreMoves
<1>3. \A c : Stays(Custom(c))
    BY <1>2, CustomStays
<1> PICK k \in Nat : k = Len(caps) + 1
    BY <1>1, BaseTypes DEF Base
<1> PICK cap : cap = IF custom THEN k ELSE 0
    OBVIOUS
<1>4. DOMAIN caps = 1 .. Len(caps) /\ Len(caps) \in Nat /\ k \notin DOMAIN caps /\ running \in 0 .. Len(caps)
    BY <1>1, BaseTypes DEF Base, Shape
<1>5. call = "none" /\ call' = "attach" /\ running' = running
    BY DEF CallCombinator, UserTurn
<1>6. aggs'[Len(aggs')].cap = cap
    <2> PICK agg : agg = NewAgg(kind, items, cap)
        OBVIOUS
    <2>1. aggs' = Append(aggs, agg) /\ agg.cap = cap
        BY DEF CallCombinator, NewAgg
    <2>2. aggs \in Seq(CallSet)
        BY <1>1 DEF Base, Shape
    <2>3. aggs'[Len(aggs')] = agg
        BY <2>1, <2>2
    <2> QED BY <2>1, <2>3
<1>7. \A c \in DOMAIN caps : ~Due(c) /\ ~Due(c)'
    BY <1>4, <1>5, <1>6 DEF Due
<1>8. CASE ~custom
    <2>1. caps' = caps
        BY <1>8 DEF CallCombinator, NewCap
    <2>2. CapInv'
        BY <1>1, <1>3, <1>5, <1>7, <2>1, CapQuiet
    <2> QED BY <1>1, <1>2, <2>2 DEF Tokens
<1>9. CASE custom
    <2> PICK new : new = NewCapOf(Raw(Len(aggs) + 1), {})
        OBVIOUS
    <2>1. caps' = Append(caps, new) /\ new.calls = <<>> /\ new.on = {} /\ new.of = Raw(Len(aggs) + 1)
        BY <1>9 DEF CallCombinator, NewCap, NewCapOf
    <2>2. caps \in Seq(CapSet)
        BY <1>1 DEF Base, Shape
    <2>3. /\ DOMAIN caps' = 1 .. k /\ caps'[k] = new
          /\ \A c \in DOMAIN caps : caps'[c] = caps[c]
        BY <1>4, <2>1, <2>2
    <2>4. k \in DOMAIN caps' /\ \A c \in DOMAIN caps' : c \notin DOMAIN caps => c = k
        BY <1>4, <2>3
    <2>5. caps'[k].of # 0
        BY <1>1, <2>1, <2>3, BaseTypes DEF Raw, Base
    <2>6. ~Held(Custom(k))' /\ ~Queued(Custom(k))'
        BY <1>1, <1>3, <1>4, NoCap DEF Stays
    <2>7. Due(k)' /\ running' # k
        BY <1>4, <1>5, <1>6, <1>9 DEF Due
    <2>8. CapOK(k)'
        BY <2>1, <2>3, <2>5, <2>6, <2>7 DEF CapOK, Waits
    <2>9. CapInv'
        BY <1>1, <1>3, <1>5, <1>7, <2>3, <2>4, <2>8, CapAdded
    <2> QED BY <1>1, <1>2, <2>9 DEF Tokens
<1> QED BY <1>8, <1>9

LEMMA CallFailsTokens ==
    ASSUME Tokens, NEW kind \in Kinds, NEW custom \in BOOLEAN, CallFails(kind, custom)
    PROVE  Tokens' /\ AllStay
<1>1. Base' /\ Grow /\ Keeps /\ Base /\ Once /\ CapInv
    BY CallFailsBase DEF Tokens
<1>2. Once' /\ AllStay
    <2>1. Len(aggs) + 1 <= MaxCalls /\ Len(aggs) \in Nat /\ Sources \in Nat /\ MaxCalls \in Nat
        BY <1>1, BaseTypes DEF CallFails, MayCall, Base
    <2>2. Raw(Len(aggs) + 1) \in Promise
        BY <2>1 DEF Raw, Promise
    <2>3. UNCHANGED core \/ \E p \in Promise, s \in Settlement : Settle(p, s, <<>>)
        BY <2>2, PlainTypes DEF CallFails
    <2> QED BY <1>1, <2>3, CoreMoves DEF CallFails, UserTurn
<1>3. \A c : Stays(Custom(c))
    BY <1>2, CustomStays
<1>4. call = "none" /\ call' = "none" /\ running' = running
    BY DEF CallFails, UserTurn
<1>5. \A c : ~Due(c) /\ ~Due(c)'
    BY <1>4 DEF Due
<1>6. CASE ~custom
    <2>1. caps' = caps
        BY <1>6 DEF CallFails
    <2>2. CapInv'
        BY <1>1, <1>3, <1>4, <1>5, <2>1, CapQuiet
    <2> QED BY <1>1, <1>2, <2>2 DEF Tokens
<1>7. CASE custom
    <2> PICK k \in Nat : k = Len(caps) + 1
        BY <1>1, BaseTypes DEF Base
    <2> PICK new : new = [NewCapOf(0, {}) EXCEPT !.calls = <<Rejected(<<Plain>>)>>]
        OBVIOUS
    <2>1. DOMAIN caps = 1 .. Len(caps) /\ Len(caps) \in Nat /\ k \notin DOMAIN caps /\ running \in 0 .. Len(caps)
        BY <1>1, BaseTypes DEF Base, Shape
    <2>2. caps' = Append(caps, new) /\ caps \in Seq(CapSet)
        BY <1>1, <1>7 DEF CallFails, Base, Shape
    <2>3. new.calls = <<Rejected(<<Plain>>)>> /\ new.on = {} /\ new.of = 0
        BY DEF NewCapOf
    <2>4. /\ DOMAIN caps' = 1 .. k /\ caps'[k] = new
          /\ \A c \in DOMAIN caps : caps'[c] = caps[c]
        BY <2>1, <2>2
    <2>5. k \in DOMAIN caps' /\ \A c \in DOMAIN caps' : c \notin DOMAIN caps => c = k
        BY <2>1, <2>4
    <2>6. ~Held(Custom(k))' /\ ~Queued(Custom(k))' /\ running' # k
        BY <1>1, <1>3, <1>4, <2>1, NoCap DEF Stays
    <2>7. CapOK(k)'
        <3>1. Len(new.calls) = 1 /\ new.calls # <<>>
            BY <2>3
        <3> QED BY <1>5, <2>3, <2>4, <2>6, <3>1 DEF CapOK, Waits
    <2>8. CapInv'
        BY <1>1, <1>3, <1>4, <1>5, <2>4, <2>5, <2>7, CapAdded
    <2> QED BY <1>1, <1>2, <2>8 DEF Tokens
<1> QED BY <1>6, <1>7

(* No capability is due while no call attaches its elements, and the one   *)
(* that is due stays so as long as the call does.                          *)
LEMMA NotDue == call = "none" => \A c : ~Due(c)
BY DEF Due

LEMMA DueStays ==
    ASSUME Shape, Grow, Len(aggs') = Len(aggs), UNCHANGED call
    PROVE  \A c : Due(c)' <=> Due(c)
<1>1. CASE call = "attach"
    <2>1. Len(aggs) \in DOMAIN aggs
        BY <1>1 DEF Shape
    <2> QED BY <2>1 DEF Due, Grow
<1>2. CASE call # "attach"
    BY <1>2 DEF Due
<1> QED BY <1>1, <1>2

LEMMA AttachNextTokens ==
    ASSUME Tokens, AttachNext
    PROVE  Tokens'
<1>1. Base /\ Once /\ CapInv /\ Base' /\ Grow /\ Keeps /\ Passed(Len(aggs))
    BY AttachNextBase DEF Tokens
<1> PICK r : r = NextElement
    OBVIOUS
<1>2. Once' /\ OthersStay(r) /\ r.kind \in AllKinds
    BY <1>1, AttachMoves
<1>3. \A c : Stays(Custom(c))
    BY <1>2, CustomStays DEF AllKinds
<1>4. UNCHANGED <<caps, running, call>>
    BY DEF AttachNext
<1>5. \A c : Due(c)' <=> Due(c)
    BY <1>1, <1>4, DueStays DEF Base, Passed
<1>6. CapInv'
    BY <1>1, <1>3, <1>4, <1>5, CapQuiet
<1> QED BY <1>1, <1>2, <1>6 DEF Tokens

LEMMA FinishCallTokens ==
    ASSUME Tokens, FinishCall
    PROVE  Tokens' /\ \A r : r.kind \notin {"custom", "user"} => Stays(r)
<1>1. Base /\ Once /\ CapInv /\ Base' /\ Grow /\ Keeps /\ Attaching
    BY FinishCallBase DEF Tokens, FinishCall
<1>2. PICK a \in DOMAIN aggs : a = Len(aggs)
    BY <1>1, AttachingFacts
<1>3. /\ call = "attach" /\ firing = <<>> /\ Shape /\ Raw(a) \in Promise
      /\ DOMAIN caps = 1 .. Len(caps) /\ Len(caps) \in Nat
    BY <1>1, <1>2, AttachingFacts, BaseTypes DEF Base
<1> PICK k : k = aggs[a].cap
    OBVIOUS
<1>4. /\ \/ k # 0 /\ Attach(Raw(a), Custom(k))
         \/ k = 0 /\ UNCHANGED <<core, listened>>
      /\ call' = "none"
      /\ UNCHANGED <<queue, aggs, caps, running>>
    BY <1>2 DEF FinishCall, Custom
<1>5. \A c : (Due(c) <=> c = k) /\ ~Due(c)'
    BY <1>2, <1>3, <1>4 DEF Due
<1>6. CASE k = 0 /\ UNCHANGED <<core, listened>>
    <2>1. Once' /\ AllStay
        BY <1>1, <1>3, <1>4, <1>6, CoreMoves
    <2>2. \A c \in DOMAIN caps : Due(c)' <=> Due(c)
        BY <1>3, <1>5, <1>6
    <2>3. CapInv'
        BY <1>1, <1>4, <2>1, <2>2, CustomStays, CapQuiet
    <2> QED BY <1>1, <2>1, <2>3 DEF Tokens, AllStay
<1>7. CASE k # 0 /\ Attach(Raw(a), Custom(k))
    <2>1. k \in DOMAIN caps
        BY <1>3, <1>7 DEF Shape, CallOK
    <2>2. CapOK(k) /\ Due(k) /\ k \in Nat
        BY <1>1, <1>3, <1>5, <2>1 DEF CapInv
    <2>3. ~Held(Custom(k)) /\ ~Queued(Custom(k)) /\ running # k
        BY <2>2 DEF CapOK
    <2>4. Custom(k) \in ReactionSet
        BY <2>2 DEF Custom, Reaction, ReactionSet
    <2> PICK r : r = Custom(k)
        OBVIOUS
    <2>5. Once' /\ OthersStay(r) /\ Held(r)' /\ (r.kind # "user" => ~Queued(r)')
        BY <1>1, <1>3, <1>4, <1>7, <2>3, <2>4, AttachOnce
    <2>6. ASSUME NEW c \in DOMAIN caps, c # k PROVE CapOK(c)'
        <3>1. Stays(Custom(c))
            BY <2>5, <2>6, CustomNames DEF OthersStay
        <3> QED BY <1>1, <1>4, <1>5, <2>6, <3>1, CapStays DEF CapInv
    <2>7. CapOK(k)'
        <3>1. Held(Custom(k))'
            BY <2>5 DEF Custom
        <3>2. Waits(k) /\ Waits(k)'
            BY <2>2, <3>1 DEF Waits
        <3> QED BY <1>1, <1>4, <1>5, <2>1, <2>2, <2>3, <3>2, CapMove
    <2>8. \A x : x.kind \notin {"custom", "user"} => Stays(x)
        BY <2>5, CustomNames DEF OthersStay
    <2> QED BY <1>1, <1>4, <2>5, <2>6, <2>7, <2>8 DEF Tokens, CapInv
<1> QED BY <1>4, <1>6, <1>7

LEMMA ElementTokens ==
    ASSUME Tokens, AllElement \/ AnyElement \/ AllSettledElement,
           UNCHANGED <<queue, call, caps, running, listened>>
    PROVE  Tokens' /\ Keeps /\ Grow /\ \E r : r = Element /\ OthersStay(r) /\ ~Held(r)'
<1>1. Base /\ Once /\ CapInv /\ Base' /\ Grow /\ Keeps /\ Counts
    BY AllBase, AnyBase, AllSettledBase DEF Tokens
<1>2. firing # <<>> /\ Element.kind \in AllKinds
    BY DEF AllElement, AnyElement, AllSettledElement, Fires, AllKinds
<1> PICK r : r = Element
    OBVIOUS
<1>3. Target \in Promise
    BY <1>1, <1>2, FireFacts
<1>4. r.kind # "user" /\ r.kind # "custom"
    BY <1>2 DEF AllKinds
<1>5. Skip \/ \E p \in Promise, s \in Settlement : Settle(p, s, Tail(firing))
    BY <1>1, <1>3 DEF Counts
<1>6. Once' /\ OthersStay(r) /\ ~Held(r)'
    BY <1>1, <1>2, <1>4, <1>5, ElementMoves
<1>7. \A c : Due(c)' <=> Due(c)
    BY <1>1, DueStays DEF Base, Counts
<1>8. CapInv'
    BY <1>1, <1>4, <1>6, <1>7, CustomStays, CapQuiet
<1> QED BY <1>1, <1>6, <1>8 DEF Tokens

(* A reaction of kind custom is the one its capability waits for. *)
LEMMA CustomReaction ==
    ASSUME Base, NEW j \in JobSet, Triggers(j), j.r.kind = "custom"
    PROVE  \E c \in DOMAIN caps : j.r = Custom(c)
<1> PICK r \in ReactionSet : r = j.r
    BY DEF JobSet
<1>1. PICK q \in Item : HangsOn(r, q)
    BY DEF Triggers
<1>2. r.kind = "custom" /\ r.of \in DOMAIN caps /\ r.index = 0
    BY <1>1 DEF HangsOn, AllKinds
<1>3. r = Custom(r.of)
    BY <1>2 DEF Custom, Reaction, ReactionSet
<1> QED BY <1>2, <1>3

LEMMA EnqueueTokens ==
    ASSUME Tokens, EnqueueJob, UNCHANGED <<call, caps, running, listened>>
    PROVE  Tokens' /\ \E r : /\ r = Element /\ OthersStay(r)
                             /\ r.kind = "user" => AllStay
                             /\ r.kind # "user" => ~Held(r)' /\ Queued(r)'
<1>1. Base /\ Once /\ CapInv /\ Base' /\ Grow /\ Keeps
    BY EnqueueBase DEF Tokens
<1>2. firing # <<>> /\ UNCHANGED aggs
    BY DEF EnqueueJob, Fires
<1> PICK r : r = Element
    OBVIOUS
<1>3. /\ Once' /\ OthersStay(r)
      /\ r.kind = "user" => AllStay
      /\ r.kind # "user" => Held(r) /\ ~Held(r)' /\ Queued(r)'
    BY <1>1, EnqueueMoves
<1>4. \A c : Due(c)' <=> Due(c)
    BY <1>2 DEF Due
<1>5. CASE r.kind # "custom"
    <2>1. CapInv'
        BY <1>1, <1>3, <1>4, <1>5, CustomStays, CapQuiet
    <2> QED BY <1>1, <1>3, <2>1 DEF Tokens
<1>6. CASE r.kind = "custom"
    <2>1. Head(firing) \in JobSet /\ Triggers(Head(firing)) /\ Head(firing).r = r
        BY <1>1, <1>2, InHeadTail DEF Base, Hang, Element
    <2>2. PICK c \in DOMAIN caps : r = Custom(c)
        BY <1>1, <1>6, <2>1, CustomReaction
    <2>3. Held(Custom(c)) /\ ~Held(Custom(c))' /\ Queued(Custom(c))'
        BY <1>3, <1>6, <2>2 DEF Custom
    <2>4. CapOK(c)
        BY <1>1 DEF CapInv
    <2>5. ~Due(c) /\ ~Due(c)' /\ running' # c
        BY <1>4, <2>3, <2>4 DEF CapOK
    <2>6. Waits(c) /\ Waits(c)'
        BY <2>3 DEF Waits
    <2>7. CapOK(c)'
        BY <1>1, <2>4, <2>5, <2>6, CapMove
    <2>8. ASSUME NEW d \in DOMAIN caps, d # c PROVE CapOK(d)'
        <3>1. Stays(Custom(d))
            BY <1>3, <2>2, <2>8, CustomNames DEF OthersStay
        <3> QED BY <1>1, <1>4, <3>1, CapStays DEF CapInv
    <2> QED BY <1>1, <1>3, <2>7, <2>8 DEF Tokens, CapInv
<1> QED BY <1>5, <1>6

LEMMA RunRaceTokens ==
    ASSUME Tokens, RunRace
    PROVE  Tokens' /\ \E r : r = Head(queue).r /\ OthersStay(r) /\ ~Held(r) /\ ~Held(r)' /\ ~Queued(r)'
<1>1. Base /\ Once /\ CapInv /\ Base' /\ Grow /\ Keeps
    BY RunRaceBase DEF Tokens
<1>2. NextJob("race") /\ UNCHANGED <<aggs, call, caps, running>>
    BY DEF RunRace
<1>3. \E p \in Promise, s \in Settlement : Settle(p, s, <<>>)
    <2>1. Raw(Head(queue).r.of) \in Promise /\ Head(queue).s \in Settlement
        BY <1>1, <1>2, RaceFacts
    <2> QED BY <2>1 DEF RunRace
<1> PICK r : r = Head(queue).r
    OBVIOUS
<1>4. r.kind = "race"
    BY <1>2 DEF NextJob
<1>5. Once' /\ OthersStay(r) /\ ~Held(r) /\ ~Held(r)' /\ ~Queued(r)'
    BY <1>1, <1>2, <1>3, JobMoves
<1>6. \A c : Due(c)' <=> Due(c)
    BY <1>2 DEF Due
<1>7. CapInv'
    BY <1>1, <1>2, <1>4, <1>5, <1>6, CustomStays, CapQuiet
<1> QED BY <1>1, <1>5, <1>7 DEF Tokens

LEMMA RunCustomTokens ==
    ASSUME Tokens, RunCustom
    PROVE  Tokens' /\ \A r : r.kind \notin {"custom", "user"} => Stays(r)
<1>1. Base /\ Once /\ CapInv /\ Base' /\ Grow /\ Keeps
    BY RunCustomBase DEF Tokens
<1>2. NextJob("custom") /\ UNCHANGED <<core, aggs, call, listened>>
    BY DEF RunCustom
<1>3. call = "none" /\ call' = "none" /\ running = 0
    BY <1>1, <1>2, NextJobFacts
<1> PICK s : s = Head(queue).s
    OBVIOUS
<1>4. PICK c \in DOMAIN caps :
          /\ c = Head(queue).r.of /\ Head(queue).r = Custom(c)
          /\ s \in Settlement /\ caps[c].of \in Promise /\ s = state[caps[c].of]
    BY <1>1, <1>2, CustomFacts DEF Custom
<1> PICK r : r = Custom(c)
    OBVIOUS
<1>5. Once' /\ OthersStay(r) /\ ~Held(r)' /\ Queued(r) /\ ~Queued(r)'
    <2>1. r = Head(queue).r
        BY <1>4
    <2> QED BY <1>1, <1>2, <2>1, JobMoves
<1>6. ~Held(Custom(c))' /\ Queued(Custom(c)) /\ ~Queued(Custom(c))'
    BY <1>5 DEF Custom
<1>7. CapOK(c) /\ Waits(c) /\ \A d : ~Due(d) /\ ~Due(d)'
    BY <1>1, <1>3, <1>6, NotDue DEF CapInv, Waits, Due
<1>8. ~IsPending(caps[c].of)
    BY <1>4, SettlementTypes DEF IsPending, Settlement
<1>9. DOMAIN caps = 1 .. Len(caps) /\ Len(caps) \in Nat
    BY <1>1, BaseTypes DEF Base
<1>10. c # 0
    BY <1>9
<1>11. CASE s.st \in caps[c].on /\ running' = c /\ UNCHANGED caps
    <2>1. Waits(c)'
        BY <1>11 DEF Waits
    <2>2. CapOK(c)'
        BY <1>1, <1>4, <1>6, <1>7, <1>8, <1>11, <2>1, CapMove
    <2>3. ASSUME NEW d \in DOMAIN caps, d # c PROVE CapOK(d)'
        <3>1. Stays(Custom(d)) /\ d # 0
            BY <1>5, <1>9, <2>3, CustomNames DEF OthersStay
        <3> QED BY <1>1, <1>3, <1>7, <1>11, <2>3, <3>1, CapStays DEF CapInv
    <2> QED BY <1>1, <1>5, <1>11, <2>2, <2>3, CustomNames DEF Tokens, CapInv, OthersStay
<1>12. CASE s.st \notin caps[c].on /\ CallCap(c, s) /\ UNCHANGED running
    <2>1. Called(c, s)
        BY <1>1, <1>2, <1>4, <1>12, CallCapShape DEF Base, Shape
    <2>2. ~Waits(c)'
        BY <1>3, <1>6, <1>7, <1>10, <1>12 DEF Waits
    <2>3. CapOK(c)'
        BY <1>1, <1>4, <1>7, <1>8, <2>1, <2>2, CapCalled
    <2>4. ASSUME NEW d \in DOMAIN caps, d # c PROVE CapOK(d)'
        <3>1. Stays(Custom(d)) /\ caps'[d] = caps[d]
            BY <1>5, <2>1, <2>4, CustomNames DEF OthersStay, Called
        <3> QED BY <1>1, <1>7, <1>12, <3>1, CapStays DEF CapInv
    <2> QED BY <1>1, <1>5, <2>1, <2>3, <2>4, CustomNames DEF Tokens, CapInv, OthersStay, Called
<1> QED BY <1>4, <1>11, <1>12 DEF RunCustom

LEMMA HandlerTokens ==
    ASSUME Tokens, NEW s \in Settlement, HandlerDone(s)
    PROVE  Tokens' /\ AllStay
<1>1. Base /\ Once /\ CapInv /\ Base' /\ Grow /\ Keeps
    BY HandlerBase DEF Tokens
<1>2. PICK c \in DOMAIN caps : c = running
    BY <1>1, BaseTypes DEF HandlerDone, Base, Shape
<1>3. /\ CallCap(c, s) /\ running' = 0 /\ running # 0
      /\ UNCHANGED <<core, queue, aggs, call, listened>> /\ call = "none" /\ firing = <<>>
    BY <1>2 DEF HandlerDone, UserTurn
<1>4. Once' /\ AllStay
    BY <1>1, <1>3, CoreMoves
<1>5. \A x : Stays(Custom(x))
    BY <1>4, CustomStays
<1>6. Called(c, s)
    <2>1. running' \in 0 .. Len(caps)
        BY <1>1, <1>3, BaseTypes DEF Base
    <2> QED BY <1>1, <1>3, <2>1, CallCapShape DEF Base
<1>7. \A d : ~Due(d) /\ ~Due(d)'
    BY <1>3 DEF Due
<1>8. CapOK(c) /\ Waits(c)
    BY <1>1, <1>2 DEF CapInv, Waits
<1>9. ~Held(Custom(c)) /\ ~Queued(Custom(c))
    BY <1>2, <1>8 DEF CapOK
<1>10. ~Waits(c)'
    BY <1>2, <1>3, <1>5, <1>7, <1>9 DEF Waits, Stays
<1>11. CapOK(c)'
    BY <1>1, <1>2, <1>6, <1>8, <1>10, CapCalled DEF CapOK
<1>12. ASSUME NEW d \in DOMAIN caps, d # c PROVE CapOK(d)'
    <2>1. caps'[d] = caps[d] /\ d # 0
        BY <1>1, <1>6, <1>12, BaseTypes DEF Called, Base
    <2> QED BY <1>1, <1>2, <1>3, <1>5, <1>7, <1>12, <2>1, CapStays DEF CapInv
<1> QED BY <1>1, <1>4, <1>6, <1>11, <1>12 DEF Tokens, CapInv, Called

LEMMA SourceTokens ==
    ASSUME Tokens, NEW p \in Source, NEW s \in Settlement, SettleSource(p, s)
    PROVE  Tokens' /\ AllStay
<1>1. Base /\ Once /\ CapInv /\ Base' /\ Grow /\ Keeps
    BY SourceBase DEF Tokens
<1>2. /\ firing = <<>> /\ Settle(p, s, <<>>)
      /\ UNCHANGED <<queue, aggs, call, caps, running, listened>>
    BY DEF SettleSource, UserTurn
<1>3. p \in Promise
    BY CombinatorAssumption DEF Source, Promise
<1>4. Once' /\ AllStay
    BY <1>1, <1>2, <1>3, CoreMoves
<1>5. \A c : Due(c)' <=> Due(c)
    BY <1>2 DEF Due
<1>6. CapInv'
    BY <1>1, <1>2, <1>4, <1>5, CustomStays, CapQuiet
<1> QED BY <1>1, <1>4, <1>6 DEF Tokens

LEMMA ListenTokens ==
    ASSUME Tokens, NEW p, Listen(p)
    PROVE  Tokens' /\ AllStay
<1>1. Base /\ Once /\ CapInv /\ Base' /\ Grow /\ Keeps
    BY ListenBase DEF Tokens
<1> PICK r : r = Reaction("user", 0, 0)
    OBVIOUS
<1>2. /\ firing = <<>> /\ Attach(p, r) /\ Named(p)
      /\ UNCHANGED <<queue, aggs, call, caps, running>>
    BY DEF Listen, UserTurn
<1>3. p \in Promise /\ r \in ReactionSet /\ r.kind = "user"
    BY <1>1, <1>2, NamedExists DEF Reaction, ReactionSet
<1>4. Once' /\ OthersStay(r)
    BY <1>1, <1>2, <1>3, AttachOnce
<1>5. AllStay
    BY <1>3, <1>4 DEF AllStay, OthersStay
<1>6. \A c : Due(c)' <=> Due(c)
    BY <1>2 DEF Due
<1>7. CapInv'
    BY <1>1, <1>2, <1>5, <1>6, CustomStays, CapQuiet
<1> QED BY <1>1, <1>4, <1>5, <1>7 DEF Tokens

LEMMA ThenCustomTokens ==
    ASSUME Tokens, NEW p, NEW on \in SUBSET {"fulfilled", "rejected"}, ThenCustom(p, on)
    PROVE  Tokens' /\ \A r : r.kind \notin {"custom", "user"} => Stays(r)
<1>1. Base /\ Once /\ CapInv /\ Base' /\ Grow /\ Keeps
    BY ThenCustomBase DEF Tokens
<1> PICK k \in Nat : k = Len(caps) + 1
    BY <1>1, BaseTypes DEF Base
<1> PICK r : r = Custom(k)
    OBVIOUS
<1> PICK new : new = NewCapOf(p, on)
    OBVIOUS
<1>2. /\ firing = <<>> /\ Named(p) /\ Attach(p, r) /\ caps' = Append(caps, new)
      /\ call = "none" /\ UNCHANGED <<queue, aggs, call, running>>
    BY DEF ThenCustom, UserTurn, Custom
<1>3. p \in Promise /\ p # 0
    BY <1>1, <1>2, NamedExists, CombinatorAssumption DEF Promise
<1>4. /\ DOMAIN caps = 1 .. Len(caps) /\ Len(caps) \in Nat /\ k \notin DOMAIN caps
      /\ running \in 0 .. Len(caps) /\ caps \in Seq(CapSet)
    BY <1>1, BaseTypes DEF Base, Shape
<1>5. ~Held(r) /\ ~Queued(r)
    BY <1>1, <1>4, NoCap
<1>6. r \in ReactionSet /\ r.kind = "custom"
    BY DEF Custom, Reaction, ReactionSet
<1>7. Once' /\ OthersStay(r) /\ Held(r)' /\ ~Queued(r)'
    BY <1>1, <1>2, <1>3, <1>5, <1>6, AttachOnce
<1>8. /\ DOMAIN caps' = 1 .. k /\ caps'[k] = new
      /\ \A c \in DOMAIN caps : caps'[c] = caps[c]
    BY <1>2, <1>4
<1>9. k \in DOMAIN caps' /\ \A c \in DOMAIN caps' : c \notin DOMAIN caps => c = k
    BY <1>4, <1>8
<1>10. \A c : ~Due(c) /\ ~Due(c)'
    BY <1>2 DEF Due
<1>11. running # k /\ running' # k
    BY <1>2, <1>4
<1>12. CapOK(k)'
    <2>1. new.of = p /\ new.calls = <<>>
        BY DEF NewCapOf
    <2>2. Held(Custom(k))'
        BY <1>7 DEF Custom
    <2>3. Waits(k)' /\ Len(<<>>) <= 1
        BY <2>2 DEF Waits
    <2> QED BY <1>3, <1>8, <1>10, <1>11, <2>1, <2>3 DEF CapOK
<1>13. \A c \in DOMAIN caps : Stays(Custom(c))
    BY <1>4, <1>7, CustomNames DEF OthersStay
<1>14. CapInv'
    BY <1>1, <1>2, <1>8, <1>9, <1>10, <1>12, <1>13, CapAdded
<1> QED BY <1>1, <1>6, <1>7, <1>14 DEF Tokens, OthersStay

LEMMA StutterTokens ==
    ASSUME Tokens, UNCHANGED vars
    PROVE  Tokens' /\ AllStay
<1>1. Base /\ Once /\ CapInv /\ Base' /\ Grow /\ Keeps
    BY NextBase DEF Tokens
<1>2. Once' /\ AllStay
    BY <1>1, QuietMoves DEF vars
<1>3. \A c : Due(c)' <=> Due(c)
    BY DEF vars, Due
<1>4. CapInv'
    BY <1>1, <1>2, <1>3, CustomStays, CapQuiet DEF vars
<1> QED BY <1>1, <1>2, <1>4 DEF Tokens

(* What user code settles sources and handlers with *)
LEMMA SourceTypes ==
    ASSUME NEW p \in Source
    PROVE  Fulfilled(<<p>>) \in Settlement /\ Rejected(<<-p>>) \in Settlement
<1>1. p \in Int
    BY CombinatorAssumption DEF Source
<1>2. <<p>> \in Seq(Int) /\ <<-p>> \in Seq(Int)
    BY <1>1
<1> QED BY <1>2, SettlementTypes

LEMMA NextTokens == Tokens /\ [Next]_vars => Tokens'
<1> SUFFICES ASSUME Tokens, [Next]_vars PROVE Tokens'
    OBVIOUS
<1>1. CASE UNCHANGED vars
    BY <1>1, StutterTokens
<1>2. ASSUME NEW kind \in Kinds, NEW custom \in BOOLEAN, NEW items \in Items,
             CallCombinator(kind, items, custom)
      PROVE  Tokens'
    BY <1>2, CallCombinatorTokens
<1>3. ASSUME NEW kind \in Kinds, NEW custom \in BOOLEAN, CallFails(kind, custom)
      PROVE  Tokens'
    BY <1>3, CallFailsTokens
<1>4. CASE AttachNext
    BY <1>4, AttachNextTokens
<1>5. CASE FinishCall
    BY <1>5, FinishCallTokens
<1>6. CASE FireReaction
    BY <1>6, ElementTokens, EnqueueTokens DEF FireReaction
<1>7. CASE RunRace
    BY <1>7, RunRaceTokens
<1>8. CASE RunCustom
    BY <1>8, RunCustomTokens
<1>9. CASE HandlerDone(Fulfilled(<<Plain>>)) \/ HandlerDone(Rejected(<<Plain>>))
    BY <1>9, PlainTypes, HandlerTokens
<1>10. ASSUME NEW p \in Source, NEW s \in {Fulfilled(<<p>>), Rejected(<<-p>>)}, SettleSource(p, s)
       PROVE  Tokens'
    BY <1>10, SourceTypes, SourceTokens
<1>11. ASSUME NEW p \in Promise, Listen(p) PROVE Tokens'
    BY <1>11, ListenTokens
<1>12. ASSUME NEW p \in Promise, NEW on \in SUBSET {"fulfilled", "rejected"}, ThenCustom(p, on)
       PROVE  Tokens'
    BY <1>12, ThenCustomTokens
<1> QED BY <1>1, <1>2, <1>3, <1>4, <1>5, <1>6, <1>7, <1>8, <1>9, <1>10, <1>11, <1>12 DEF Next

LEMMA TokensAlways == Spec => []Tokens
<1>1. Init => Tokens
    BY InitTokens
<1>2. Tokens /\ [Next]_vars => Tokens'
    BY NextTokens
<1> QED BY <1>1, <1>2, PTL DEF Spec

(* A promise that settled, with no cascade and no job left, keeps nothing  *)
(* waiting.                                                                *)
LEMMA NothingWaits ==
    ASSUME Base, NEW c \in DOMAIN caps, caps[c].of \in Promise, ~IsPending(caps[c].of),
           firing = <<>>, queue = <<>>
    PROVE  ~Held(Custom(c)) /\ ~Queued(Custom(c))
<1>1. ~InJobs(Custom(c), firing) /\ ~InJobs(Custom(c), queue)
    BY InEmpty
<1>2. ASSUME NEW q \in Promise, In(Custom(c), reactions[q]) PROVE FALSE
    <2>1. HangsOn(Custom(c), q)
        BY <1>2 DEF Base, Hang
    <2>2. q = caps[c].of
        BY <2>1, CustomNames DEF HangsOn
    <2>3. reactions[q] = <<>>
        BY <2>2 DEF Base, Ledger
    <2> QED BY <1>2, <2>3, InEmpty
<1> QED BY <1>1, <1>2 DEF Held, Queued

(* A custom capability hears once, through one of its two functions, from  *)
(* the promise it follows or from the handler in between, and hears it     *)
(* when the jobs have run: static_finish, attach_reaction, run_job and the *)
(* handler jobs of a species constructor neither lose nor repeat it.       *)
THEOREM CustomOnceAlways == Spec => []CustomOnce
<1>1. ASSUME Tokens PROVE CustomOnce
    <2> SUFFICES ASSUME NEW c \in DOMAIN caps,
                        NEW s, s = IF caps[c].of = 0 THEN Rejected(<<Plain>>) ELSE state[caps[c].of],
                        NEW calls, calls = caps[c].calls
                 PROVE  /\ Len(calls) <= 1
                        /\ calls # <<>> => s # Pending /\ (s.st \notin caps[c].on => calls[1] = s)
                        /\ s # Pending /\ firing = <<>> /\ queue = <<>> /\ running = 0 /\ call = "none"
                              => calls # <<>>
        BY DEF CustomOnce
    <2>1. CapOK(c) /\ Base /\ c \in Nat \ {0}
        BY <1>1, BaseTypes DEF Tokens, CapInv, Base
    <2>2. caps[c].of = 0 \/ caps[c].of \in Promise
        BY <2>1, CapOf
    <2>3. ASSUME caps[c].of = 0 PROVE s # Pending /\ calls # <<>> /\ calls[1] = s
        <3>1. calls = <<s>>
            BY <2>1, <2>3 DEF CapOK
        <3>2. s # Pending
            BY <2>3 DEF Rejected, Pending
        <3> QED BY <3>1, <3>2
    <2>4. ASSUME caps[c].of \in Promise, calls # <<>>
          PROVE  s # Pending /\ (s.st \notin caps[c].on => calls[1] = s)
        <3>1. caps[c].of # 0
            BY <2>1, <2>4, CapOf
        <3> QED BY <2>1, <2>4, <3>1 DEF CapOK, IsPending, Pending
    <2>5. ASSUME caps[c].of \in Promise, s # Pending,
                 firing = <<>>, queue = <<>>, running = 0, call = "none"
          PROVE  calls # <<>>
        <3>1. caps[c].of # 0
            BY <2>1, <2>5, CapOf
        <3>2. ~IsPending(caps[c].of)
            BY <2>1, <2>5, <3>1 DEF Base, Ledger
        <3>3. ~Waits(c)
            BY <2>1, <2>5, <3>2, NothingWaits, NotDue DEF Waits
        <3> QED BY <2>1, <3>3 DEF CapOK
    <2>6. Len(calls) <= 1
        BY <2>1 DEF CapOK
    <2> QED BY <2>2, <2>3, <2>4, <2>5, <2>6
<1> QED BY <1>1, TokensAlways, PTL

-----------------------------------------------------------------------------
(* The countdowns *)

(* An element is open as long as its call has not come to it, or its       *)
(* reaction waits or was triggered and not taken.                          *)
IsOpen(a, i) == i >= aggs[a].next \/ Held(Reaction(aggs[a].kind, a, i))
Open(a) == {i \in DOMAIN aggs[a].items : IsOpen(a, i)}

Either == {"fulfilled", "rejected"}

(* The elements that are no longer open settled in one of the ways ok, and *)
(* their values are at their indices.                                      *)
Kept(a, ok) ==
    \A i \in DOMAIN aggs[a].items :
        ~IsOpen(a, i) => ItemState(a, i).st \in ok /\ aggs[a].results[i] = ItemState(a, i).val

(* The countdown is the number of open elements, and decides nothing yet; *)
(* none is open, and it decided; or one element did.                       *)
Counting(a, ok) ==
    /\ aggs[a].left # 0 /\ aggs[a].left = Cardinality(Open(a))
    /\ Kept(a, ok)
    /\ state[Raw(a)] = Pending

Full(a, ok, st) ==
    /\ Open(a) = {}
    /\ Kept(a, ok)
    /\ state[Raw(a)] = [st |-> st, val |-> ArrayFor(Raw(a), aggs[a].results)]

By(a, st) ==
    \E i \in DOMAIN aggs[a].items : ItemState(a, i).st = st /\ state[Raw(a)] = ItemState(a, i)

AllSound(a) ==
    \/ ~aggs[a].settled /\ Counting(a, {"fulfilled"})
    \/ aggs[a].settled /\ By(a, "rejected")
    \/ Full(a, {"fulfilled"}, "fulfilled")

AnySound(a) == Counting(a, {"rejected"}) \/ By(a, "fulfilled") \/ Full(a, {"rejected"}, "rejected")

AllSettledSound(a) == Counting(a, Either) \/ Full(a, Either, "fulfilled")

(* As long as the result of race is pending, every element that is not open *)
(* has its job in the queue.                                                *)
RaceSound(a) ==
    \/ /\ state[Raw(a)] = Pending
       /\ \A i \in DOMAIN aggs[a].items : ~IsOpen(a, i) => Queued(Reaction("race", a, i))
    \/ By(a, "fulfilled")
    \/ By(a, "rejected")

Sound(a) ==
    /\ aggs[a].left \in 0 .. Len(aggs[a].items)
    /\ ~aggs[a].threw =>
          /\ aggs[a].kind = "all" => AllSound(a)
          /\ aggs[a].kind = "any" => AnySound(a)
          /\ aggs[a].kind = "allSettled" => AllSettledSound(a)
          /\ aggs[a].kind = "race" => RaceSound(a)

SoundInv == \A a \in DOMAIN aggs : Sound(a)

Whole == Tokens /\ SoundInv

LEMMA OpenFacts ==
    ASSUME Base, NEW a \in DOMAIN aggs
    PROVE  /\ Open(a) \in SUBSET DOMAIN aggs[a].items /\ IsFiniteSet(Open(a))
           /\ Cardinality(Open(a)) \in 0 .. Len(aggs[a].items)
           /\ Cardinality(Open(a)) = 0 <=> Open(a) = {}
<1>1. PICK n \in Nat : n = Len(aggs[a].items) /\ DOMAIN aggs[a].items = 1 .. n
    BY BaseTypes DEF Base
<1>2. Open(a) \in SUBSET (1 .. n)
    BY <1>1 DEF Open
<1>3. IsFiniteSet(1 .. n) /\ Cardinality(1 .. n) = n
    BY <1>1, FS_Interval
<1>4. IsFiniteSet(Open(a)) /\ Cardinality(Open(a)) <= n
    BY <1>2, <1>3, FS_Subset
<1>5. Cardinality(Open(a)) \in Nat
    BY <1>4, FS_CardinalityType
<1>6. Cardinality(Open(a)) = 0 <=> Open(a) = {}
    BY <1>4, FS_EmptySet
<1> QED BY <1>1, <1>2, <1>4, <1>5, <1>6

LEMMA ItemFacts ==
    ASSUME Base, NEW a \in DOMAIN aggs, NEW i \in DOMAIN aggs[a].items
    PROVE  ItemState(a, i) \in State /\ ItemState(a, i) = StateOf(aggs[a].items[i])
<1> PICK item \in Item : item = aggs[a].items[i]
    BY BaseTypes, Member DEF Base
<1>1. item = Plain \/ item \in Promise
    BY CombinatorAssumption DEF Item, Promise, Plain
<1>2. Fulfilled(<<Plain>>) \in State
    BY PlainTypes, SettlementTypes
<1>3. StateOf(item) \in State
    BY <1>1, <1>2 DEF StateOf, Base, Ledger
<1> QED BY <1>3 DEF ItemState, StateOf

(* A settled element stays as it is. *)
LEMMA ItemKeeps ==
    ASSUME Base, Keeps, NEW a \in DOMAIN aggs, aggs'[a].items = aggs[a].items,
           NEW i \in DOMAIN aggs[a].items, ItemState(a, i).st # "pending"
    PROVE  ItemState(a, i)' = ItemState(a, i)
<1> PICK item \in Item : item = aggs[a].items[i]
    BY BaseTypes, Member DEF Base
<1>1. StateOf(item)' = StateOf(item)
    BY StateOfKeeps DEF ItemState, StateOf
<1> QED BY <1>1 DEF ItemState, StateOf

(* A step leaves a call alone, but for elements it may settle. *)
Same(a) ==
    /\ aggs'[a].kind = aggs[a].kind /\ aggs'[a].items = aggs[a].items
    /\ aggs'[a].threw = aggs[a].threw /\ aggs'[a].left = aggs[a].left
    /\ aggs'[a].results = aggs[a].results /\ aggs'[a].settled = aggs[a].settled
    /\ state'[Raw(a)] = state[Raw(a)]
    /\ \A i \in DOMAIN aggs[a].items : IsOpen(a, i)' <=> IsOpen(a, i)
    /\ \A i \in DOMAIN aggs[a].items :
          Queued(Reaction("race", a, i)) => Queued(Reaction("race", a, i))'

LEMMA ByStays ==
    ASSUME Base, Keeps, NEW a \in DOMAIN aggs, aggs'[a].items = aggs[a].items,
           state'[Raw(a)] = state[Raw(a)], NEW st \in Either, By(a, st)
    PROVE  By(a, st)'
<1>1. PICK i \in DOMAIN aggs[a].items : ItemState(a, i).st = st /\ state[Raw(a)] = ItemState(a, i)
    BY DEF By
<1>2. ItemState(a, i)' = ItemState(a, i)
    BY <1>1, ItemKeeps DEF Either
<1> QED BY <1>1, <1>2 DEF By

LEMMA SameSound ==
    ASSUME Base, Keeps, NEW a \in DOMAIN aggs, Same(a), Sound(a)
    PROVE  Sound(a)'
<1>1. Open(a)' = Open(a)
    BY DEF Open, Same
<1>2. ASSUME NEW ok \in SUBSET Either, Kept(a, ok) PROVE Kept(a, ok)'
    <2>1. ASSUME NEW i \in DOMAIN aggs[a].items, ~IsOpen(a, i)
          PROVE  ItemState(a, i)'.st \in ok /\ aggs'[a].results[i] = ItemState(a, i)'.val
        <3>1. ItemState(a, i).st \in ok /\ aggs[a].results[i] = ItemState(a, i).val
            BY <1>2, <2>1 DEF Kept
        <3>2. ItemState(a, i).st # "pending"
            BY <3>1 DEF Either
        <3> QED BY <3>1, <3>2, ItemKeeps DEF Same
    <2> QED BY <2>1 DEF Kept, Same
<1>3. ASSUME NEW ok \in SUBSET Either, Counting(a, ok) PROVE Counting(a, ok)'
    BY <1>1, <1>2, <1>3 DEF Counting, Same
<1>4. ASSUME NEW ok \in SUBSET Either, NEW st, Full(a, ok, st) PROVE Full(a, ok, st)'
    BY <1>1, <1>2, <1>4 DEF Full, Same
<1>5. ASSUME NEW st \in Either, By(a, st) PROVE By(a, st)'
    BY <1>5, ByStays DEF Same
<1>6. {"fulfilled"} \in SUBSET Either /\ {"rejected"} \in SUBSET Either /\ Either \in SUBSET Either
      /\ "fulfilled" \in Either /\ "rejected" \in Either
    BY DEF Either
<1>7. AllSound(a) => AllSound(a)'
    BY <1>3, <1>4, <1>5, <1>6 DEF AllSound, Same
<1>8. AnySound(a) => AnySound(a)'
    BY <1>3, <1>4, <1>5, <1>6 DEF AnySound
<1>9. AllSettledSound(a) => AllSettledSound(a)'
    BY <1>3, <1>4, <1>6 DEF AllSettledSound
<1>10. RaceSound(a) => RaceSound(a)'
    BY <1>5, <1>6 DEF RaceSound, Same
<1> QED BY <1>7, <1>8, <1>9, <1>10 DEF Sound, Same

(* What settling a promise does to the states *)
LEMMA SettleState ==
    ASSUME Base, NEW p \in Promise, NEW s, NEW rest, Settle(p, s, rest)
    PROVE  /\ \A q \in Promise : q # p => state'[q] = state[q]
           /\ state'[p] = IF IsPending(p) THEN s ELSE state[p]
BY DEF Base, Ledger, Settle, promises

LEMMA RawUnique ==
    ASSUME Base, NEW a \in DOMAIN aggs, NEW b \in DOMAIN aggs, Raw(a) = Raw(b)
    PROVE  a = b
<1>1. a \in Nat /\ b \in Nat /\ Sources \in Nat
    BY BaseTypes DEF Base
<1> QED BY <1>1 DEF Raw

(* A call whose reactions stay where they are, and whose result does *)
LEMMA SameCall ==
    ASSUME NEW a \in DOMAIN aggs, aggs'[a] = aggs[a], state'[Raw(a)] = state[Raw(a)],
           aggs[a].kind \in AllKinds,
           \A r : r.kind \in AllKinds /\ r.of = a => Stays(r)
    PROVE  Same(a)
<1>1. ASSUME NEW k \in AllKinds, NEW i PROVE Stays(Reaction(k, a, i))
    BY <1>1 DEF Reaction
<1>2. \A i : Stays(Reaction(aggs[a].kind, a, i)) /\ Stays(Reaction("race", a, i))
    BY <1>1 DEF AllKinds
<1>3. \A i : IsOpen(a, i)' <=> IsOpen(a, i)
    BY <1>2 DEF IsOpen, Stays
<1> QED BY <1>2, <1>3 DEF Same, Stays

-----------------------------------------------------------------------------
(* An element of all, any or allSettled is counted *)

(* An open element is taken, and no other one is opened or closed. *)
Takes(b, i) ==
    /\ IsOpen(b, i)
    /\ \A j \in DOMAIN aggs[b].items : IsOpen(b, j)' <=> IsOpen(b, j) /\ j # i

(* The element at the head of the cascade was open, and is so no longer. *)
LEMMA ElementOpens ==
    ASSUME Tokens, AllElement \/ AnyElement \/ AllSettledElement,
           UNCHANGED <<queue, call, caps, running, listened>>
    PROVE  \E b \in DOMAIN aggs : \E i \in DOMAIN aggs[b].items :
              /\ b = Element.of /\ i = Element.index /\ aggs[b].kind = Element.kind
              /\ Outcome \in Settlement /\ Outcome = ItemState(b, i)
              /\ Takes(b, i)
              /\ aggs'[b].kind = aggs[b].kind /\ aggs'[b].items = aggs[b].items
              /\ aggs'[b].threw = aggs[b].threw
              /\ \A a \in DOMAIN aggs : a # b => Same(a)
<1>1. Base /\ Once /\ Grow /\ Keeps /\ Counts /\ Base'
    BY AllBase, AnyBase, AllSettledBase DEF Tokens
<1>2. firing # <<>> /\ Element.kind \in AllKinds
    BY DEF AllElement, AnyElement, AllSettledElement, Fires, AllKinds
<1>3. PICK b \in DOMAIN aggs : b = Element.of /\ aggs[b].kind = Element.kind
    BY <1>1, <1>2, FireFacts
<1>4. PICK i \in DOMAIN aggs[b].items :
          /\ i = Element.index /\ i < aggs[b].next
          /\ Outcome \in Settlement /\ Outcome = ItemState(b, i)
    BY <1>1, <1>2, <1>3, FireFacts
<1>5. PICK r : r = Element /\ OthersStay(r) /\ ~Held(r)'
    BY ElementTokens
<1>6. r \in ReactionSet /\ Held(r)
    <2>1. Head(firing) \in JobSet
        BY <1>1, <1>2, FireFacts
    <2>2. Element.kind # "user"
        BY <1>2 DEF AllKinds
    <2> QED BY <1>1, <1>2, <1>5, <2>1, <2>2, HeadFacts DEF JobSet, Element
<1> PICK k \in AllKinds : k = aggs[b].kind
    BY <1>2, <1>3
<1>7. r = Reaction(k, b, i)
    BY <1>3, <1>4, <1>5, <1>6 DEF Reaction, ReactionSet
<1>8. IsOpen(b, i)
    BY <1>6, <1>7 DEF IsOpen
<1>9. /\ aggs'[b].kind = k /\ aggs'[b].items = aggs[b].items
      /\ aggs'[b].threw = aggs[b].threw /\ aggs'[b].next = aggs[b].next
    BY <1>1 DEF Grow, Counts
<1>10. ASSUME NEW j \in DOMAIN aggs[b].items
       PROVE  IsOpen(b, j)' <=> IsOpen(b, j) /\ j # i
    <2>1. IsOpen(b, j)' <=> j >= aggs[b].next \/ Held(Reaction(k, b, j))'
        BY <1>9 DEF IsOpen
    <2>2. CASE j = i
        <3>1. ~Held(Reaction(k, b, j))'
            BY <1>5, <1>7, <2>2 DEF Reaction
        <3>2. ~(j >= aggs[b].next)
            <4>1. j \in Int /\ aggs[b].next \in Int
                BY <1>1, BaseTypes DEF Base
            <4> QED BY <1>4, <2>2, <4>1
        <3> QED BY <2>1, <2>2, <3>1, <3>2
    <2>3. CASE j # i
        <3> PICK x : x = Reaction(k, b, j)
            OBVIOUS
        <3>1. x # r /\ x.kind # "user"
            BY <1>7, <2>3 DEF Reaction, AllKinds
        <3>2. Held(x)' <=> Held(x)
            BY <1>5, <3>1 DEF OthersStay, Stays
        <3>3. Held(Reaction(k, b, j))' <=> Held(Reaction(k, b, j))
            BY <3>2 DEF Reaction
        <3> QED BY <2>1, <2>3, <3>3 DEF IsOpen
    <2> QED BY <2>2, <2>3
<1>11. ASSUME NEW a \in DOMAIN aggs, a # b PROVE Same(a)
    <2>1. aggs'[a] = aggs[a] /\ aggs[a].kind \in AllKinds
        BY <1>1, <1>3, <1>11, BaseTypes DEF Counts, CallSet, Base
    <2>2. state'[Raw(a)] = state[Raw(a)]
        <3>1. Raw(a) # Target /\ Raw(a) \in Promise /\ Target \in Promise
            BY <1>1, <1>3, <1>11, RawUnique, BaseTypes DEF Target, Base
        <3>2. state' = state \/ \E s : Settle(Target, s, Tail(firing))
            BY <1>1 DEF Counts, Skip, promises
        <3> QED BY <1>1, <3>1, <3>2, SettleState
    <2>3. \A x : x.kind \in AllKinds /\ x.of = a => Stays(x)
        BY <1>5, <1>7, <1>11 DEF OthersStay, Reaction, AllKinds
    <2> QED BY <2>1, <2>2, <2>3, SameCall
<1> QED BY <1>3, <1>4, <1>8, <1>9, <1>10, <1>11 DEF Takes

Stores(b, i, o, left, results) ==
    /\ results = [aggs[b].results EXCEPT ![i] = o.val] /\ left = aggs[b].left - 1
    /\ aggs'[b].kind = aggs[b].kind /\ aggs'[b].items = aggs[b].items
    /\ aggs'[b].results = results /\ aggs'[b].left = left

Decides(b, left, results, st) ==
    state'[Raw(b)] = IF left = 0 THEN [st |-> st, val |-> ArrayFor(Raw(b), results)]
                                 ELSE state[Raw(b)]

(* An open element that settled is counted: the countdown goes on or ends. *)
LEMMA TallySound ==
    ASSUME Base, Keeps, NEW b \in DOMAIN aggs, NEW i \in DOMAIN aggs[b].items,
           NEW ok \in SUBSET Either, Counting(b, ok),
           NEW o \in Settlement, o = ItemState(b, i), o.st \in ok, Takes(b, i),
           NEW results, NEW left \in Int, Stores(b, i, o, left, results),
           NEW st, Decides(b, left, results, st)
    PROVE  /\ left \in 0 .. Len(aggs[b].items)
           /\ left # 0 => Counting(b, ok)'
           /\ left = 0 => Full(b, ok, st)'
<1>1. Shape /\ Len(aggs[b].items) \in Nat
    BY BaseTypes DEF Base
<1>2. /\ aggs'[b].kind = aggs[b].kind /\ aggs'[b].items = aggs[b].items
      /\ aggs'[b].results = results /\ aggs'[b].left = left
      /\ results = [aggs[b].results EXCEPT ![i] = o.val] /\ left = aggs[b].left - 1
    BY DEF Stores
<1>3. Open(b)' = Open(b) \ {i} /\ i \in Open(b)
    BY <1>2 DEF Open, Takes
<1>4. IsFiniteSet(Open(b)) /\ Cardinality(Open(b)) \in 0 .. Len(aggs[b].items)
    BY OpenFacts
<1> PICK n \in 0 .. Len(aggs[b].items) : n = Cardinality(Open(b))
    BY <1>4
<1> PICK rest : rest = Open(b) \ {i}
    OBVIOUS
<1>5. IsFiniteSet(rest) /\ Cardinality(rest) = n - 1
    BY <1>3, <1>4, FS_RemoveElement
<1>6. left = n - 1 /\ n # 0
    BY <1>2 DEF Counting
<1>7. left \in 0 .. Len(aggs[b].items) /\ left = Cardinality(rest)
    BY <1>1, <1>5, <1>6
<1>8. Kept(b, ok)'
    <2>1. ASSUME NEW j \in DOMAIN aggs[b].items, ~IsOpen(b, j)'
          PROVE  ItemState(b, j)'.st \in ok /\ results[j] = ItemState(b, j)'.val
        <3>1. results[j] = IF j = i THEN o.val ELSE aggs[b].results[j]
            BY <1>1, <1>2, ResultsType
        <3>2. CASE j = i
            <4>1. ItemState(b, i)' = o
                BY <1>2, ItemKeeps DEF Either
            <4> QED BY <3>1, <3>2, <4>1
        <3>3. CASE j # i
            <4>1. ~IsOpen(b, j)
                BY <2>1, <3>3 DEF Takes
            <4>2. ItemState(b, j).st \in ok /\ aggs[b].results[j] = ItemState(b, j).val
                BY <4>1 DEF Counting, Kept
            <4>3. ItemState(b, j)' = ItemState(b, j)
                BY <1>2, <4>2, ItemKeeps DEF Either
            <4> QED BY <3>1, <3>3, <4>2, <4>3
        <3> QED BY <3>2, <3>3
    <2> QED BY <1>2, <2>1 DEF Kept
<1>9. left # 0 => Counting(b, ok)'
    BY <1>2, <1>3, <1>7, <1>8 DEF Counting, Decides
<1>10. left = 0 => Full(b, ok, st)'
    BY <1>2, <1>3, <1>5, <1>7, <1>8, FS_EmptySet DEF Full, Decides
<1> QED BY <1>7, <1>9, <1>10

(* A call with an open element did not throw, and its countdown is on. *)
LEMMA OpenCall ==
    ASSUME Base, NEW b \in DOMAIN aggs, NEW i \in DOMAIN aggs[b].items, IsOpen(b, i)
    PROVE  ~aggs[b].threw /\ \A ok, st : ~Full(b, ok, st)
<1>1. ~aggs[b].threw
    BY DEF Base, Shape, CallOK
<1>2. i \in Open(b)
    BY DEF Open
<1> QED BY <1>1, <1>2 DEF Full

LEMMA AllElementSound ==
    ASSUME Whole, AllElement, UNCHANGED <<queue, call, caps, running, listened>>
    PROVE  SoundInv'
<1>1. Base /\ Keeps /\ SoundInv /\ Counts /\ firing # <<>> /\ Shape /\ Element.kind = "all" /\ Tokens
    BY AllBase DEF Whole, Tokens, AllElement, Fires, Base
<1>2. PICK b \in DOMAIN aggs : \E i \in DOMAIN aggs[b].items :
              /\ b = Element.of /\ i = Element.index /\ aggs[b].kind = Element.kind
              /\ Outcome \in Settlement /\ Outcome = ItemState(b, i)
              /\ Takes(b, i)
              /\ aggs'[b].kind = aggs[b].kind /\ aggs'[b].items = aggs[b].items
              /\ aggs'[b].threw = aggs[b].threw
              /\ \A a \in DOMAIN aggs : a # b => Same(a)
    BY <1>1, ElementOpens
<1>3. PICK i \in DOMAIN aggs[b].items :
              /\ i = Element.index /\ aggs[b].kind = "all"
              /\ Outcome \in Settlement /\ Outcome = ItemState(b, i)
              /\ Takes(b, i)
    BY <1>1, <1>2
<1> PICK o : o = Outcome
    OBVIOUS
<1>4. AllSound(b) /\ ~aggs[b].threw /\ \A ok, st : ~Full(b, ok, st)
    BY <1>1, <1>3, OpenCall DEF Takes, SoundInv, Sound
<1>5. aggs[b].left \in 0 .. Len(aggs[b].items)
    BY <1>1 DEF SoundInv, Sound
<1>6. Raw(b) \in Promise /\ Target = Raw(b)
    BY <1>1, <1>2, BaseTypes DEF Target
<1>7. CASE aggs[b].settled
    <2>1. aggs' = aggs /\ state' = state
        BY <1>2, <1>7 DEF AllElement, Agg, Skip, promises
    <2>2. By(b, "rejected")
        BY <1>4, <1>7 DEF AllSound
    <2>3. By(b, "rejected")'
        BY <1>1, <2>1, <2>2, ByStays DEF Either
    <2>4. aggs'[b].left \in 0 .. Len(aggs'[b].items)
        BY <1>5, <2>1
    <2>5. Sound(b)'
        BY <1>3, <1>7, <2>1, <2>3, <2>4 DEF Sound, AllSound
    <2> QED BY <1>1, <1>2, <2>1, <2>5, SameSound DEF SoundInv
<1>8. CASE ~aggs[b].settled /\ o.st = "rejected"
    <2>1. aggs' = [aggs EXCEPT ![b].settled = TRUE] /\ Settle(Raw(b), o, Tail(firing))
        BY <1>2, <1>6, <1>8 DEF AllElement, Agg
    <2>2. Counted(b, aggs[b].results, aggs[b].left, TRUE)
        BY <1>1, <2>1, FlaggedType
    <2>3. Counting(b, {"fulfilled"})
        BY <1>4, <1>8 DEF AllSound
    <2>4. state'[Raw(b)] = o
        BY <1>1, <1>6, <2>1, <2>3, SettleState, SettlementTypes DEF Counting, IsPending
    <2>5. ItemState(b, i)' = ItemState(b, i)
        BY <1>1, <1>2, <1>3, <1>8, ItemKeeps
    <2>6. By(b, "rejected")'
        BY <1>2, <1>3, <1>8, <2>4, <2>5 DEF By
    <2>7. aggs'[b].left \in 0 .. Len(aggs'[b].items) /\ aggs'[b].settled
        BY <1>2, <1>5, <2>2 DEF Counted
    <2>8. Sound(b)'
        BY <1>2, <1>3, <2>6, <2>7 DEF Sound, AllSound
    <2> QED BY <1>1, <1>2, <2>2, <2>8, SameSound DEF SoundInv, Counted
<1>9. CASE ~aggs[b].settled /\ o.st = "fulfilled"
    <2> PICK results : results = [aggs[b].results EXCEPT ![i] = o.val]
        OBVIOUS
    <2> PICK left : left = aggs[b].left - 1
        OBVIOUS
    <2>1. /\ Tallied(b, results, left, left = 0)
          /\ IF left = 0
             THEN Settle(Raw(b), Fulfilled(ArrayFor(Raw(b), results)), Tail(firing))
             ELSE Skip
        BY <1>2, <1>3, <1>6, <1>9 DEF AllElement, Agg, Store, Tallied
    <2>2. results \in Seq(Seq(Int)) /\ left \in Int
        BY <1>1, <1>3, ResultsType
    <2>3. PICK settled : /\ Counted(b, results, left, settled)
                         /\ Stores(b, i, o, left, results)
                         /\ left # 0 => ~settled
        <3> PICK settled \in BOOLEAN : settled = (left = 0)
            OBVIOUS
        <3>1. Counted(b, results, left, settled)
            BY <1>1, <2>1, <2>2, CountedType
        <3> QED BY <3>1 DEF Counted, Stores
    <2>4. Counting(b, {"fulfilled"})
        BY <1>4, <1>9 DEF AllSound
    <2>5. Decides(b, left, results, "fulfilled")
        BY <1>1, <1>6, <2>1, <2>4, SettleState, SettlementTypes
           DEF Counting, IsPending, Fulfilled, Skip, promises, Decides
    <2>6. {"fulfilled"} \in SUBSET Either /\ o \in Settlement /\ o = ItemState(b, i) /\ o.st \in {"fulfilled"}
        BY <1>3, <1>9 DEF Either
    <2>7. /\ left \in 0 .. Len(aggs[b].items)
          /\ left # 0 => Counting(b, {"fulfilled"})'
          /\ left = 0 => Full(b, {"fulfilled"}, "fulfilled")'
        BY <1>1, <1>3, <1>9, <2>2, <2>3, <2>4, <2>5, <2>6, TallySound
    <2>8. Sound(b)'
        BY <1>2, <1>3, <2>3, <2>7 DEF Sound, AllSound, Counted
    <2> QED BY <1>1, <1>2, <2>3, <2>8, SameSound DEF SoundInv, Counted
<1>10. o.st \in {"fulfilled", "rejected"}
    BY <1>2, SettlementTypes
<1> QED BY <1>7, <1>8, <1>9, <1>10

LEMMA AnyElementSound ==
    ASSUME Whole, AnyElement, UNCHANGED <<queue, call, caps, running, listened>>
    PROVE  SoundInv'
<1>1. Base /\ Keeps /\ SoundInv /\ Counts /\ firing # <<>> /\ Shape /\ Element.kind = "any" /\ Tokens
    BY AnyBase DEF Whole, Tokens, AnyElement, Fires, Base
<1>2. PICK b \in DOMAIN aggs : \E i \in DOMAIN aggs[b].items :
              /\ b = Element.of /\ i = Element.index /\ aggs[b].kind = Element.kind
              /\ Outcome \in Settlement /\ Outcome = ItemState(b, i)
              /\ Takes(b, i)
              /\ aggs'[b].kind = aggs[b].kind /\ aggs'[b].items = aggs[b].items
              /\ aggs'[b].threw = aggs[b].threw
              /\ \A a \in DOMAIN aggs : a # b => Same(a)
    BY <1>1, ElementOpens
<1>3. PICK i \in DOMAIN aggs[b].items :
              /\ i = Element.index /\ aggs[b].kind = "any"
              /\ Outcome \in Settlement /\ Outcome = ItemState(b, i)
              /\ Takes(b, i)
    BY <1>1, <1>2
<1> PICK o : o = Outcome
    OBVIOUS
<1>4. Counting(b, {"rejected"}) \/ By(b, "fulfilled")
    BY <1>1, <1>3, OpenCall DEF Takes, SoundInv, Sound, AnySound
<1>5. aggs[b].left \in 0 .. Len(aggs[b].items)
    BY <1>1 DEF SoundInv, Sound
<1>6. Raw(b) \in Promise /\ Target = Raw(b)
    BY <1>1, <1>2, BaseTypes DEF Target
<1>7. CASE UNCHANGED aggs
    <2>1. By(b, "fulfilled")'
        <3>1. CASE By(b, "fulfilled")
            <4>1. \A j \in DOMAIN aggs[b].items : ItemState(b, j).st = "fulfilled" =>
                      ItemState(b, j).st # "pending"
                OBVIOUS
            <4>2. ~IsPending(Raw(b))
                BY <3>1 DEF By, IsPending
            <4>3. state'[Raw(b)] = state[Raw(b)]
                BY <1>1, <1>6, <4>2 DEF Keeps
            <4> QED BY <1>1, <1>2, <3>1, <4>3, ByStays DEF Either
        <3>2. CASE Counting(b, {"rejected"})
            <4>1. IsPending(Raw(b)) /\ aggs[b].left # 0
                BY <3>2, SettlementTypes DEF Counting, IsPending
            <4>2. o.st = "fulfilled" /\ Settle(Raw(b), o, Tail(firing))
                <5>1. CASE Outcome.st = "fulfilled"
                    BY <1>6, <5>1 DEF AnyElement
                <5>2. CASE Outcome.st = "rejected"
                    <6> PICK results : results = [aggs[b].results EXCEPT ![i] = o.val]
                        OBVIOUS
                    <6> PICK left : left = aggs[b].left - 1
                        OBVIOUS
                    <6>1. Uncounted(b, results, left)
                        BY <1>2, <1>3, <1>6, <4>1, <5>2 DEF AnyElement, Agg, Store, Uncounted
                    <6>2. PICK settled \in BOOLEAN : Tallied(b, results, left, settled)
                        BY <1>1, <6>1, UnflaggedType
                    <6>3. results \in Seq(Seq(Int)) /\ left \in Int
                        BY <1>1, <1>3, ResultsType
                    <6>4. aggs'[b].left = left
                        <7>1. Counted(b, results, left, settled)
                            BY <1>1, <6>2, <6>3, CountedType
                        <7> QED BY <7>1 DEF Counted
                    <6>5. aggs[b].left \in Int
                        BY <1>5
                    <6> QED BY <1>7, <6>4, <6>5
                <5> QED BY <1>2, <5>1, <5>2, SettlementTypes
            <4>3. state'[Raw(b)] = o
                BY <1>1, <1>6, <4>1, <4>2, SettleState
            <4>4. ItemState(b, i)' = ItemState(b, i)
                BY <1>1, <1>2, <1>3, <4>2, ItemKeeps
            <4> QED BY <1>2, <1>3, <4>2, <4>3, <4>4 DEF By
        <3> QED BY <1>4, <3>1, <3>2
    <2>2. aggs'[b].left \in 0 .. Len(aggs'[b].items)
        BY <1>5, <1>7
    <2>3. Sound(b)'
        BY <1>3, <1>7, <2>1, <2>2 DEF Sound, AnySound
    <2> QED BY <1>1, <1>2, <1>7, <2>3, SameSound DEF SoundInv
<1>8. CASE ~UNCHANGED aggs
    <2> PICK results : results = [aggs[b].results EXCEPT ![i] = o.val]
        OBVIOUS
    <2> PICK left : left = aggs[b].left - 1
        OBVIOUS
    <2>1. /\ IsPending(Raw(b)) /\ o.st = "rejected"
          /\ Uncounted(b, results, left)
          /\ IF left = 0
             THEN Settle(Raw(b), Rejected(ArrayFor(Raw(b), results)), Tail(firing))
             ELSE Skip
        BY <1>2, <1>3, <1>6, <1>8 DEF AnyElement, Agg, Store, Uncounted
    <2>2. PICK settled \in BOOLEAN : Tallied(b, results, left, settled)
        BY <1>1, <2>1, UnflaggedType
    <2>3. results \in Seq(Seq(Int)) /\ left \in Int
        BY <1>1, <1>3, ResultsType
    <2>4. Counted(b, results, left, settled) /\ Stores(b, i, o, left, results)
        <3>1. Counted(b, results, left, settled)
            BY <1>1, <2>2, <2>3, CountedType
        <3> QED BY <3>1 DEF Counted, Stores
    <2>5. Counting(b, {"rejected"})
        BY <1>4, <2>1 DEF By, IsPending
    <2>6. Decides(b, left, results, "rejected")
        BY <1>1, <1>6, <2>1, SettleState DEF Rejected, Skip, promises, Decides
    <2>7. {"rejected"} \in SUBSET Either /\ o \in Settlement /\ o = ItemState(b, i) /\ o.st \in {"rejected"}
        BY <1>3, <2>1 DEF Either
    <2>8. /\ left \in 0 .. Len(aggs[b].items)
          /\ left # 0 => Counting(b, {"rejected"})'
          /\ left = 0 => Full(b, {"rejected"}, "rejected")'
        BY <1>1, <1>3, <2>3, <2>4, <2>5, <2>6, <2>7, TallySound
    <2>9. Sound(b)'
        BY <1>2, <1>3, <2>4, <2>8 DEF Sound, AnySound, Counted
    <2> QED BY <1>1, <1>2, <2>4, <2>9, SameSound DEF SoundInv, Counted
<1> QED BY <1>7, <1>8

LEMMA AllSettledElementSound ==
    ASSUME Whole, AllSettledElement, UNCHANGED <<queue, call, caps, running, listened>>
    PROVE  SoundInv'
<1>1. Base /\ Keeps /\ SoundInv /\ Counts /\ firing # <<>> /\ Shape /\ Tokens
      /\ Element.kind = "allSettled"
    BY AllSettledBase DEF Whole, Tokens, AllSettledElement, Fires, Base
<1>2. PICK b \in DOMAIN aggs : \E i \in DOMAIN aggs[b].items :
              /\ b = Element.of /\ i = Element.index /\ aggs[b].kind = Element.kind
              /\ Outcome \in Settlement /\ Outcome = ItemState(b, i)
              /\ Takes(b, i)
              /\ aggs'[b].kind = aggs[b].kind /\ aggs'[b].items = aggs[b].items
              /\ aggs'[b].threw = aggs[b].threw
              /\ \A a \in DOMAIN aggs : a # b => Same(a)
    BY <1>1, ElementOpens
<1>3. PICK i \in DOMAIN aggs[b].items :
              /\ i = Element.index /\ aggs[b].kind = "allSettled"
              /\ Outcome \in Settlement /\ Outcome = ItemState(b, i)
              /\ Takes(b, i)
    BY <1>1, <1>2
<1> PICK o : o = Outcome
    OBVIOUS
<1>4. Counting(b, Either)
    BY <1>1, <1>3, OpenCall DEF Takes, SoundInv, Sound, AllSettledSound
<1>5. Raw(b) \in Promise /\ Target = Raw(b)
    BY <1>1, <1>2, BaseTypes DEF Target
<1> PICK results : results = [aggs[b].results EXCEPT ![i] = o.val]
    OBVIOUS
<1> PICK left : left = aggs[b].left - 1
    OBVIOUS
<1>6. /\ Uncounted(b, results, left)
      /\ IF left = 0
         THEN Settle(Raw(b), Fulfilled(ArrayFor(Raw(b), results)), Tail(firing))
         ELSE Skip
    BY <1>2, <1>3, <1>5 DEF AllSettledElement, Agg, Store, Uncounted
<1>7. PICK settled \in BOOLEAN : Tallied(b, results, left, settled)
    BY <1>1, <1>6, UnflaggedType
<1>8. results \in Seq(Seq(Int)) /\ left \in Int
    BY <1>1, <1>3, ResultsType
<1>9. Counted(b, results, left, settled) /\ Stores(b, i, o, left, results)
    <2>1. Counted(b, results, left, settled)
        BY <1>1, <1>7, <1>8, CountedType
    <2> QED BY <2>1 DEF Counted, Stores
<1>10. IsPending(Raw(b))
    BY <1>4, SettlementTypes DEF Counting, IsPending
<1>11. Decides(b, left, results, "fulfilled")
    BY <1>1, <1>5, <1>6, <1>10, SettleState DEF Fulfilled, Skip, promises, Decides
<1>12. Either \in SUBSET Either /\ o \in Settlement /\ o = ItemState(b, i) /\ o.st \in Either
    BY <1>3, SettlementTypes DEF Either
<1>13. /\ left \in 0 .. Len(aggs[b].items)
       /\ left # 0 => Counting(b, Either)'
       /\ left = 0 => Full(b, Either, "fulfilled")'
    <2> PICK ok \in SUBSET Either : ok = Either
        OBVIOUS
    <2>1. Counting(b, ok) /\ o.st \in ok
        BY <1>4, <1>12
    <2>2. /\ left \in 0 .. Len(aggs[b].items)
          /\ left # 0 => Counting(b, ok)'
          /\ left = 0 => Full(b, ok, "fulfilled")'
        BY <1>1, <1>3, <1>8, <1>9, <1>11, <1>12, <2>1, TallySound
    <2> QED BY <2>2
<1>14. Sound(b)'
    BY <1>2, <1>3, <1>9, <1>13 DEF Sound, AllSettledSound, Counted
<1> QED BY <1>1, <1>2, <1>9, <1>14, SameSound DEF SoundInv, Counted

-----------------------------------------------------------------------------
(* The other steps *)

(* Nothing happens to any call but b, and to any result but its own. *)
LEMMA QuietSound ==
    ASSUME Whole, Keeps, DOMAIN aggs' = DOMAIN aggs,
           NEW b, \A a \in DOMAIN aggs : a # b => aggs'[a] = aggs[a],
           \A a \in DOMAIN aggs : a # b => state'[Raw(a)] = state[Raw(a)],
           \A r : r.kind \in AllKinds /\ r.of # b => Stays(r),
           b \in DOMAIN aggs => Sound(b)'
    PROVE  SoundInv'
<1>1. Base /\ SoundInv
    BY DEF Whole, Tokens
<1>2. ASSUME NEW a \in DOMAIN aggs, a # b PROVE Sound(a)'
    <2>1. aggs[a].kind \in AllKinds
        BY <1>1, BaseTypes DEF Base, CallSet
    <2>2. Same(a)
        BY <1>2, <2>1, SameCall
    <2> QED BY <1>1, <2>2, SameSound DEF SoundInv
<1> QED BY <1>2 DEF SoundInv

LEMMA CoreSound ==
    ASSUME Whole, Keeps, UNCHANGED aggs,
           UNCHANGED state \/ \E p \in Source : \E s, rest : Settle(p, s, rest),
           \A r : r.kind \in AllKinds => Stays(r)
    PROVE  SoundInv'
<1>1. Base
    BY DEF Whole, Tokens
<1>2. ASSUME NEW a \in DOMAIN aggs PROVE state'[Raw(a)] = state[Raw(a)]
    <2>1. CASE UNCHANGED state
        BY <2>1
    <2>2. ASSUME NEW p \in Source, NEW s, NEW rest, Settle(p, s, rest)
          PROVE  state'[Raw(a)] = state[Raw(a)]
        <3>1. p \in Promise /\ Raw(a) \in Promise /\ Raw(a) # p
            BY <1>1, BaseTypes, CombinatorAssumption DEF Base, Source, Promise
        <3> QED BY <1>1, <2>2, <3>1, SettleState
    <2> QED BY <2>1, <2>2
<1>3. 0 \notin DOMAIN aggs
    BY <1>1, BaseTypes DEF Base
<1> PICK b : b = 0
    OBVIOUS
<1> QED BY <1>2, <1>3, QuietSound

LEMMA EnqueueSound ==
    ASSUME Whole, EnqueueJob, UNCHANGED <<call, caps, running, listened>>
    PROVE  SoundInv'
<1>1. Base /\ Once /\ Keeps /\ Tokens /\ SoundInv
    BY EnqueueBase DEF Whole, Tokens
<1>2. firing # <<>> /\ UNCHANGED <<aggs, state>>
    BY DEF EnqueueJob, Fires, Skip, promises
<1>3. PICK r : /\ r = Element /\ OthersStay(r)
               /\ r.kind = "user" => AllStay
               /\ r.kind # "user" => ~Held(r)' /\ Queued(r)'
    BY <1>1, EnqueueTokens
<1>4. CASE r.kind \notin AllKinds
    <2>1. \A x : x.kind \in AllKinds => Stays(x)
        BY <1>3, <1>4 DEF OthersStay, AllKinds
    <2> QED BY <1>1, <1>2, <2>1, CoreSound
<1>5. CASE r.kind \in AllKinds
    <2>1. r.kind = "race"
        BY <1>3, <1>5 DEF EnqueueJob, Fires, AllKinds
    <2>2. PICK b \in DOMAIN aggs : b = r.of /\ aggs[b].kind = "race"
        BY <1>1, <1>2, <1>3, <2>1, FireFacts DEF AllKinds
    <2>3. PICK i \in DOMAIN aggs[b].items :
              i = r.index /\ i < aggs[b].next /\ ItemState(b, i) \in Settlement
        BY <1>1, <1>2, <1>3, <1>5, <2>2, FireFacts
    <2>4. r \in ReactionSet
        BY <1>1, <1>2, <1>3, FireFacts DEF JobSet, Element
    <2>5. r = Reaction("race", b, i)
        BY <2>1, <2>2, <2>3, <2>4 DEF Reaction, ReactionSet
    <2>6. Queued(Reaction("race", b, i))'
        BY <1>3, <2>1, <2>5 DEF Reaction
    <2>7. ASSUME NEW j \in DOMAIN aggs[b].items, j # i
          PROVE  Stays(Reaction("race", b, j))
        BY <1>3, <2>5, <2>7 DEF OthersStay, Reaction
    <2>8. Sound(b)'
        <3>1. RaceSound(b) \/ aggs[b].threw
            BY <1>1, <2>2 DEF SoundInv, Sound
        <3>2. RaceSound(b)' \/ aggs[b].threw
            <4>1. ASSUME NEW st \in Either, By(b, st) PROVE By(b, st)'
                BY <1>1, <1>2, <4>1, ByStays
            <4>2. ASSUME state[Raw(b)] = Pending,
                         \A j \in DOMAIN aggs[b].items : ~IsOpen(b, j) => Queued(Reaction("race", b, j))
                  PROVE  RaceSound(b)'
                <5>1. ASSUME NEW j \in DOMAIN aggs[b].items, ~IsOpen(b, j)'
                      PROVE  Queued(Reaction("race", b, j))'
                    <6>1. CASE j = i
                        BY <2>6, <6>1
                    <6>2. CASE j # i
                        <7>1. ~IsOpen(b, j)
                            BY <1>2, <2>2, <2>7, <5>1, <6>2 DEF IsOpen, Stays
                        <7> QED BY <2>7, <4>2, <6>2, <7>1 DEF Stays
                    <6> QED BY <6>1, <6>2
                <5> QED BY <1>2, <4>2, <5>1 DEF RaceSound
            <4> QED BY <3>1, <4>1, <4>2 DEF RaceSound, Either
        <3>3. aggs'[b].left \in 0 .. Len(aggs'[b].items)
            BY <1>1, <1>2 DEF SoundInv, Sound
        <3> QED BY <1>2, <2>2, <3>2, <3>3 DEF Sound
    <2>9. \A x : x.kind \in AllKinds /\ x.of # b => Stays(x)
        BY <1>3, <2>2 DEF OthersStay, AllKinds
    <2> QED BY <1>1, <1>2, <2>8, <2>9, QuietSound
<1> QED BY <1>4, <1>5

LEMMA RunRaceSound ==
    ASSUME Whole, RunRace
    PROVE  SoundInv'
<1>1. Base /\ Once /\ Keeps /\ Tokens /\ SoundInv
    BY RunRaceBase DEF Whole, Tokens
<1>2. NextJob("race") /\ UNCHANGED aggs
    BY DEF RunRace
<1>3. PICK r : r = Head(queue).r /\ OthersStay(r) /\ ~Held(r) /\ ~Held(r)'
    BY <1>1, RunRaceTokens
<1> PICK s : s = Head(queue).s
    OBVIOUS
<1>4. PICK b \in DOMAIN aggs : \E i \in DOMAIN aggs[b].items :
              /\ b = Head(queue).r.of /\ i = Head(queue).r.index
              /\ aggs[b].kind = "race" /\ i < aggs[b].next
              /\ s \in Settlement /\ s = ItemState(b, i)
              /\ Raw(b) \in Promise /\ Raw(b) <= Sources + Len(aggs)
    BY <1>1, <1>2, RaceFacts
<1>5. PICK i \in DOMAIN aggs[b].items : s = ItemState(b, i)
    BY <1>4
<1>6. Settle(Raw(b), s, <<>>)
    BY <1>4 DEF RunRace
<1>7. /\ \A q \in Promise : q # Raw(b) => state'[q] = state[q]
      /\ state'[Raw(b)] = IF IsPending(Raw(b)) THEN s ELSE state[Raw(b)]
    BY <1>1, <1>4, <1>6, SettleState
<1>8. ASSUME NEW a \in DOMAIN aggs, a # b PROVE state'[Raw(a)] = state[Raw(a)]
    <2>1. Raw(a) # Raw(b) /\ Raw(a) \in Promise
        BY <1>1, <1>8, RawUnique, BaseTypes DEF Base
    <2> QED BY <1>7, <2>1
<1>9. \A x : x.kind \in AllKinds /\ x.of # b => Stays(x)
    BY <1>3, <1>4 DEF OthersStay, AllKinds
<1>10. RaceSound(b)' \/ aggs[b].threw
    <2>1. CASE IsPending(Raw(b))
        <3>1. s.st \in Either /\ s.st # "pending"
            BY <1>4, SettlementTypes DEF Either
        <3>2. ItemState(b, i)' = s
            BY <1>1, <1>2, <1>5, <3>1, ItemKeeps
        <3>3. By(b, s.st)'
            BY <1>2, <1>5, <1>7, <2>1, <3>2 DEF By
        <3> QED BY <3>1, <3>3 DEF RaceSound, Either
    <2>2. CASE ~IsPending(Raw(b))
        <3>1. state[Raw(b)] # Pending
            BY <2>2, SettlementTypes DEF IsPending
        <3>2. (\E st \in Either : By(b, st)) \/ aggs[b].threw
            BY <1>1, <1>4, <3>1 DEF SoundInv, Sound, RaceSound, Either
        <3>3. ASSUME NEW st \in Either, By(b, st) PROVE By(b, st)'
            BY <1>1, <1>2, <1>7, <2>2, <3>3, ByStays
        <3> QED BY <3>2, <3>3 DEF RaceSound, Either
    <2> QED BY <2>1, <2>2
<1>11. Sound(b)'
    <2>1. aggs'[b].left \in 0 .. Len(aggs'[b].items)
        BY <1>1, <1>2 DEF SoundInv, Sound
    <2> QED BY <1>2, <1>4, <1>10, <2>1 DEF Sound
<1> QED BY <1>1, <1>2, <1>8, <1>9, <1>11, QuietSound

(* The next element of the attaching call was open, and is so again: its   *)
(* reaction is attached or triggered.                                      *)
LEMMA AttachNextSound ==
    ASSUME Whole, AttachNext
    PROVE  SoundInv'
<1>1. Base /\ Once /\ Keeps /\ SoundInv /\ Passed(Len(aggs)) /\ Attaching
    BY AttachNextBase DEF Whole, Tokens, AttachNext
<1>2. PICK b \in DOMAIN aggs : b = Len(aggs)
    BY <1>1, AttachingFacts
<1> PICK n \in Nat : n = aggs[b].next
    BY <1>1, BaseTypes DEF Base
<1> PICK r : r = NextElement
    OBVIOUS
<1>3. /\ OthersStay(r) /\ r.kind \in AllKinds
      /\ ~Held(r) /\ ~Queued(r) /\ Held(r)' /\ ~Queued(r)'
    BY <1>1, AttachMoves
<1>4. r = Reaction(aggs[b].kind, b, n)
    BY <1>2 DEF NextElement
<1>5. state' = state
    BY DEF AttachNext, Attach, promises
<1>6. /\ aggs'[b].kind = aggs[b].kind /\ aggs'[b].next = n + 1
      /\ DOMAIN aggs' = DOMAIN aggs /\ \A a \in DOMAIN aggs : a # b => aggs'[a] = aggs[a]
    BY <1>1, <1>2 DEF Passed
<1>7. ASSUME NEW k \in AllKinds, NEW i, i # n \/ k # aggs[b].kind PROVE Stays(Reaction(k, b, i))
    BY <1>3, <1>4, <1>7 DEF OthersStay, Reaction, AllKinds
<1> PICK k \in AllKinds : k = aggs[b].kind
    BY <1>3, <1>4 DEF Reaction
<1>8. ASSUME NEW i \in DOMAIN aggs[b].items PROVE IsOpen(b, i)' <=> IsOpen(b, i)
    <2>1. i \in Nat
        BY <1>1, BaseTypes DEF Base
    <2>2. CASE i = n
        <3>1. Held(Reaction(k, b, i))'
            BY <1>3, <1>4, <2>2 DEF Reaction
        <3> QED BY <1>6, <2>1, <2>2, <3>1 DEF IsOpen
    <2>3. CASE i # n
        <3>1. Held(Reaction(k, b, i))' <=> Held(Reaction(k, b, i))
            BY <1>7, <2>3 DEF Stays
        <3>2. i >= n + 1 <=> i >= n
            BY <2>1, <2>3
        <3>3. IsOpen(b, i)' <=> i >= n + 1 \/ Held(Reaction(k, b, i))'
            BY <1>6 DEF IsOpen
        <3>4. IsOpen(b, i) <=> i >= n \/ Held(Reaction(k, b, i))
            BY DEF IsOpen
        <3> QED BY <3>1, <3>2, <3>3, <3>4
    <2> QED BY <2>2, <2>3
<1>9. ASSUME NEW i, Queued(Reaction("race", b, i)) PROVE Queued(Reaction("race", b, i))'
    <2>1. Reaction("race", b, i) # r
        BY <1>3, <1>9 DEF Reaction
    <2>2. Stays(Reaction("race", b, i))
        BY <1>3, <2>1 DEF OthersStay, Reaction
    <2> QED BY <1>9, <2>2 DEF Stays
<1>10. Same(b)
    BY <1>1, <1>2, <1>5, <1>8, <1>9 DEF Same, Passed
<1>11. Sound(b)'
    BY <1>1, <1>10, SameSound DEF SoundInv
<1>12. \A x : x.kind \in AllKinds /\ x.of # b => Stays(x)
    BY <1>3, <1>4 DEF OthersStay, AllKinds, Reaction
<1> QED BY <1>1, <1>5, <1>6, <1>11, <1>12, QuietSound

(* A new call: the others go on as they are. *)
LEMMA NewCallSound ==
    ASSUME Whole, Keeps, AllStay, NEW agg \in CallSet, aggs' = Append(aggs, agg),
           NEW n, n = Len(aggs) + 1, Sound(n)',
           \A q \in Promise : q # Raw(n) => state'[q] = state[q]
    PROVE  SoundInv'
<1>1. Base /\ SoundInv /\ aggs \in Seq(CallSet)
    BY DEF Whole, Tokens, Base, Shape
<1>2. DOMAIN aggs = 1 .. Len(aggs) /\ Len(aggs) \in Nat /\ Sources \in Nat
    BY <1>1, BaseTypes DEF Base
<1>3. DOMAIN aggs' = 1 .. n /\ \A a \in DOMAIN aggs : aggs'[a] = aggs[a] /\ a # n
    BY <1>1, <1>2
<1>4. ASSUME NEW a \in DOMAIN aggs PROVE Sound(a)'
    <2>1. Raw(a) \in Promise /\ aggs[a].kind \in AllKinds /\ Raw(a) # Raw(n)
        <3>1. Shape /\ Listed /\ Ledger /\ Unmade
            BY <1>1 DEF Base
        <3>2. Raw(a) \in Promise /\ aggs[a].kind \in AllKinds
            BY <3>1, BaseTypes DEF CallSet
        <3>3. a \in Nat /\ a # n
            BY <1>2, <1>3
        <3> QED BY <1>2, <3>2, <3>3 DEF Raw
    <2>2. \A r : r.kind \in AllKinds /\ r.of = a => Stays(r)
        BY DEF AllStay, AllKinds
    <2>3. Same(a)
        BY <1>3, <2>1, <2>2, SameCall
    <2> QED BY <1>1, <2>3, SameSound DEF SoundInv
<1>5. \A a \in DOMAIN aggs' : a \in DOMAIN aggs \/ a = n
    BY <1>2, <1>3
<1> QED BY <1>4, <1>5 DEF SoundInv

LEMMA CallCombinatorSound ==
    ASSUME Whole, NEW kind \in Kinds, NEW custom \in BOOLEAN, NEW items \in Items,
           CallCombinator(kind, items, custom)
    PROVE  SoundInv'
<1>1. Base /\ Tokens /\ Keeps /\ AllStay
    BY CallCombinatorBase, CallCombinatorTokens DEF Whole, Tokens
<1>2. Shape /\ Listed /\ Ledger /\ Unmade /\ MayCall
    BY <1>1 DEF Base, CallCombinator
<1>3. Len(aggs) \in Nat /\ Len(caps) \in Nat /\ Sources \in Nat /\ MaxCalls \in Nat
    BY <1>2, BaseTypes
<1>4. items \in Seq(Item)
    BY <1>2, ItemsType
<1> PICK cap \in Nat : cap = IF custom THEN Len(caps) + 1 ELSE 0
    BY <1>3
<1> PICK n \in Nat : n = Len(aggs) + 1
    BY <1>3
<1> PICK agg : agg = NewAgg(kind, items, cap)
    OBVIOUS
<1> PICK raw : raw = Raw(n)
    OBVIOUS
<1>5. agg \in CallSet
    BY <1>2, <1>4, NewAggType
<1>6. /\ agg.kind = kind /\ agg.items = items /\ agg.left = Len(items) /\ agg.next = 1
      /\ agg.settled = FALSE /\ agg.threw = FALSE
      /\ agg.results = [i \in 1 .. Len(items) |-> <<>>]
    BY DEF NewAgg
<1>7. aggs' = Append(aggs, agg) /\ aggs'[n] = agg
    <2>1. aggs' = Append(aggs, agg)
        BY DEF CallCombinator
    <2>2. aggs \in Seq(CallSet)
        BY <1>2 DEF Shape
    <2> QED BY <1>5, <2>1, <2>2
<1>8. raw \in Promise /\ raw > Sources + Len(aggs)
    BY <1>2, <1>3 DEF MayCall, Raw, Promise
<1>9. IsPending(raw) /\ state[raw] = Pending
    BY <1>2, <1>8 DEF Unmade, Ledger
<1>10. /\ \A q \in Promise : q # raw => state'[q] = state[q]
       /\ items # <<>> \/ kind = "race" => state'[raw] = Pending
       /\ items = <<>> /\ kind \in {"all", "allSettled"} => state'[raw] = Fulfilled(ArrayFor(raw, <<>>))
       /\ items = <<>> /\ kind = "any" => state'[raw] = Rejected(ArrayFor(raw, <<>>))
    <2>1. CASE items = <<>> /\ kind \in {"all", "allSettled"}
               /\ Settle(raw, Fulfilled(ArrayFor(raw, <<>>)), <<>>)
        BY <1>1, <1>8, <1>9, <2>1, SettleState
    <2>2. CASE items = <<>> /\ kind = "any" /\ Settle(raw, Rejected(ArrayFor(raw, <<>>)), <<>>)
        BY <1>1, <1>8, <1>9, <2>2, SettleState
    <2>3. CASE (items # <<>> \/ kind = "race") /\ UNCHANGED core
        <3>1. state' = state
            BY <2>3 DEF core, promises
        <3> QED BY <1>9, <2>3, <3>1
    <2> QED BY <2>1, <2>2, <2>3 DEF CallCombinator
<1>11. PICK l \in Nat : l = Len(items) /\ DOMAIN items = 1 .. l /\ (l = 0 <=> items = <<>>)
    BY <1>4
<1>12. ASSUME NEW i \in 1 .. l PROVE IsOpen(n, i)'
    BY <1>6, <1>7 DEF IsOpen
<1>13. Open(n)' = 1 .. l
    BY <1>6, <1>7, <1>11, <1>12 DEF Open
<1>14. Cardinality(1 .. l) = l
    BY FS_Interval
<1>15. \A ok : Kept(n, ok)'
    BY <1>6, <1>7, <1>11, <1>12 DEF Kept
<1>16. aggs'[n].left \in 0 .. Len(aggs'[n].items)
    BY <1>6, <1>7, <1>11
<1>17. CASE l # 0
    <2>1. state'[raw] = Pending
        BY <1>10, <1>11, <1>17
    <2>2. \A ok : Counting(n, ok)'
        BY <1>6, <1>7, <1>11, <1>13, <1>14, <1>15, <1>17, <2>1 DEF Counting
    <2>3. RaceSound(n)'
        BY <1>6, <1>7, <1>11, <1>12, <2>1 DEF RaceSound
    <2> QED BY <1>1, <1>5, <1>6, <1>7, <1>10, <1>16, <2>2, <2>3, NewCallSound
            DEF Sound, AllSound, AnySound, AllSettledSound
<1>18. CASE l = 0
    <2>1. aggs'[n].results = <<>>
        BY <1>6, <1>7, <1>11, <1>18
    <2>2. Open(n)' = {}
        BY <1>13, <1>18
    <2>3. kind \in {"all", "allSettled"} => \A ok : Full(n, ok, "fulfilled")'
        BY <1>10, <1>11, <1>15, <1>18, <2>1, <2>2 DEF Full, Fulfilled
    <2>4. kind = "any" => \A ok : Full(n, ok, "rejected")'
        BY <1>10, <1>11, <1>15, <1>18, <2>1, <2>2 DEF Full, Rejected
    <2>5. kind = "race" => RaceSound(n)'
        BY <1>6, <1>7, <1>10, <1>11, <1>12 DEF RaceSound
    <2> QED BY <1>1, <1>5, <1>6, <1>7, <1>10, <1>16, <2>3, <2>4, <2>5, NewCallSound
            DEF Sound, AllSound, AnySound, AllSettledSound
<1> QED BY <1>17, <1>18

LEMMA CallFailsSound ==
    ASSUME Whole, NEW kind \in Kinds, NEW custom \in BOOLEAN, CallFails(kind, custom)
    PROVE  SoundInv'
<1>1. Base /\ Tokens /\ Keeps /\ AllStay
    BY CallFailsBase, CallFailsTokens DEF Whole, Tokens
<1>2. Shape /\ Listed /\ MayCall
    BY <1>1 DEF Base, CallFails
<1>3. Len(aggs) \in Nat /\ Len(caps) \in Nat /\ Sources \in Nat /\ MaxCalls \in Nat
    BY <1>2, BaseTypes
<1> PICK cap \in Nat : cap = IF custom THEN Len(caps) + 1 ELSE 0
    BY <1>3
<1> PICK n \in Nat : n = Len(aggs) + 1
    BY <1>3
<1> PICK new : new = NewAgg(kind, <<>>, cap)
    OBVIOUS
<1> PICK agg : agg = [new EXCEPT !.threw = TRUE]
    OBVIOUS
<1>4. agg \in CallSet
    <2>1. <<>> \in Seq(Item)
        OBVIOUS
    <2> QED BY <1>2, <2>1, NewAggType
<1>5. agg.items = <<>> /\ agg.left = 0 /\ agg.threw = TRUE
    BY DEF NewAgg
<1>6. aggs' = Append(aggs, agg) /\ aggs'[n] = agg
    <2>1. aggs' = Append(aggs, agg)
        BY DEF CallFails
    <2>2. aggs \in Seq(CallSet)
        BY <1>2 DEF Shape
    <2> QED BY <1>4, <2>1, <2>2
<1>7. Raw(n) \in Promise
    BY <1>2, <1>3 DEF MayCall, Raw, Promise
<1>8. \A q \in Promise : q # Raw(n) => state'[q] = state[q]
    <2>1. CASE UNCHANGED core
        BY <2>1 DEF core, promises
    <2>2. CASE Settle(Raw(n), Rejected(<<Plain>>), <<>>)
        BY <1>1, <1>7, <2>2, SettleState
    <2> QED BY <2>1, <2>2 DEF CallFails
<1>9. Sound(n)'
    <2>1. 0 \in 0 .. Len(<<>>)
        OBVIOUS
    <2> QED BY <1>5, <1>6, <2>1 DEF Sound
<1> QED BY <1>1, <1>4, <1>6, <1>8, <1>9, NewCallSound

LEMMA InitWhole == Init => Whole
<1> SUFFICES ASSUME Init PROVE Whole
    OBVIOUS
<1>1. SoundInv
    BY DEF Init, SoundInv
<1> QED BY <1>1, InitTokens DEF Whole

(* The steps that touch no call *)
LEMMA RestSound ==
    ASSUME Whole, Keeps, UNCHANGED aggs,
           AllStay \/ \A r : r.kind \notin {"custom", "user"} => Stays(r),
           UNCHANGED state \/ \E p \in Source : \E s, rest : Settle(p, s, rest)
    PROVE  SoundInv'
<1>1. \A r : r.kind \in AllKinds => Stays(r)
    BY DEF AllStay, AllKinds
<1> QED BY <1>1, CoreSound

LEMMA NextWhole == Whole /\ [Next]_vars => Whole'
<1> SUFFICES ASSUME Whole, [Next]_vars PROVE Whole'
    OBVIOUS
<1>1. Tokens /\ Tokens' /\ Base /\ Keeps
    BY NextTokens, NextBase DEF Whole, Tokens
<1> SUFFICES SoundInv'
    BY <1>1 DEF Whole
<1>2. CASE UNCHANGED vars
    BY <1>1, <1>2, StutterTokens, RestSound DEF vars
<1>3. ASSUME NEW kind \in Kinds, NEW custom \in BOOLEAN, NEW items \in Items,
             CallCombinator(kind, items, custom)
      PROVE  SoundInv'
    BY <1>3, CallCombinatorSound
<1>4. ASSUME NEW kind \in Kinds, NEW custom \in BOOLEAN, CallFails(kind, custom)
      PROVE  SoundInv'
    BY <1>4, CallFailsSound
<1>5. CASE AttachNext
    BY <1>5, AttachNextSound
<1>6. CASE FinishCall
    <2>1. UNCHANGED <<aggs, state>>
        BY <1>6 DEF FinishCall, Attach, core, promises
    <2> QED BY <1>1, <1>6, <2>1, FinishCallTokens, RestSound
<1>7. CASE FireReaction
    BY <1>7, AllElementSound, AnyElementSound, AllSettledElementSound, EnqueueSound DEF FireReaction
<1>8. CASE RunRace
    BY <1>8, RunRaceSound
<1>9. CASE RunCustom
    <2>1. UNCHANGED <<aggs, state>>
        BY <1>9 DEF RunCustom, core, promises
    <2> QED BY <1>1, <1>9, <2>1, RunCustomTokens, RestSound
<1>10. ASSUME NEW s \in Settlement, HandlerDone(s) PROVE SoundInv'
    <2>1. UNCHANGED <<aggs, state>>
        BY <1>10 DEF HandlerDone, core, promises
    <2> QED BY <1>1, <1>10, <2>1, HandlerTokens, RestSound
<1>11. ASSUME NEW p \in Source, NEW s \in Settlement, SettleSource(p, s) PROVE SoundInv'
    <2>1. UNCHANGED aggs /\ Settle(p, s, <<>>)
        BY <1>11 DEF SettleSource
    <2> QED BY <1>1, <1>11, <2>1, SourceTokens, RestSound
<1>12. ASSUME NEW p \in Promise, Listen(p) PROVE SoundInv'
    <2>1. UNCHANGED <<aggs, state>>
        BY <1>12 DEF Listen, Attach
    <2> QED BY <1>1, <1>12, <2>1, ListenTokens, RestSound
<1>13. ASSUME NEW p \in Promise, NEW on \in SUBSET {"fulfilled", "rejected"}, ThenCustom(p, on)
       PROVE  SoundInv'
    <2>1. UNCHANGED <<aggs, state>>
        BY <1>13 DEF ThenCustom, Attach
    <2> QED BY <1>1, <1>13, <2>1, ThenCustomTokens, RestSound
<1> QED BY <1>2, <1>3, <1>4, <1>5, <1>6, <1>7, <1>8, <1>9, <1>10, <1>11, <1>12, <1>13,
           PlainTypes, SourceTypes DEF Next

LEMMA WholeAlways == Spec => []Whole
<1>1. Init => Whole
    BY InitWhole
<1>2. Whole /\ [Next]_vars => Whole'
    BY NextWhole
<1> QED BY <1>1, <1>2, PTL DEF Spec

(* The countdowns of all, allSettled and any stay between zero and the     *)
(* length of their input, the cursor of an attaching call stays in its     *)
(* input, and fulfill_promise and reject_promise settle a promise once.    *)
THEOREM TypeOKAlways == Spec => []TypeOK
<1>1. ASSUME Whole PROVE TypeOK
    <2>1. Ledger /\ Listed /\ Shape /\ SoundInv
        BY <1>1 DEF Whole, Tokens, Base
    <2>2. \A a \in DOMAIN aggs : /\ aggs[a].left \in 0 .. Len(aggs[a].items)
                                 /\ aggs[a].next \in 1 .. Len(aggs[a].items) + 1
        BY <2>1 DEF SoundInv, Sound, Shape, CallOK
    <2> QED BY <2>1, <2>2 DEF TypeOK, Ledger, Listed, Shape
<1> QED BY <1>1, WholeAlways, PTL

-----------------------------------------------------------------------------
(* What the invariant says of a call that attached all its elements *)

(* Outside the cascade and after the loop, an open element is pending: its *)
(* reaction waits in the list of a promise, which is the element.          *)
LEMMA OpenPending ==
    ASSUME Base, NEW a \in DOMAIN aggs, Complete(a),
           NEW i \in DOMAIN aggs[a].items, IsOpen(a, i)
    PROVE  ItemState(a, i) = Pending
<1> PICK r : r = Reaction(aggs[a].kind, a, i)
    OBVIOUS
<1>1. firing = <<>> /\ (call = "none" \/ a < Len(aggs)) /\ Shape /\ Hang /\ Ledger
    BY DEF Complete, Base
<1>2. PICK n \in Nat : n = Len(aggs[a].items) /\ DOMAIN aggs[a].items = 1 .. n
    BY <1>1, BaseTypes
<1>3. aggs[a].next = n + 1
    BY <1>1, <1>2 DEF Shape, CallOK
<1>4. Held(r)
    BY <1>2, <1>3 DEF IsOpen
<1>5. PICK q \in Promise : In(r, reactions[q])
    BY <1>1, <1>4, InEmpty DEF Held
<1>6. HangsOn(r, q)
    BY <1>1, <1>5 DEF Hang
<1>7. aggs[a].kind \in AllKinds
    BY <1>1, BaseTypes DEF CallSet
<1>8. aggs[a].items[i] = q
    BY <1>6, <1>7 DEF HangsOn, Reaction, AllKinds
<1>9. reactions[q] # <<>>
    BY <1>5, InEmpty
<1>10. state[q] = Pending
    BY <1>1, <1>9 DEF Ledger
<1>11. q # Plain
    BY CombinatorAssumption DEF Promise, Plain
<1> QED BY <1>8, <1>10, <1>11 DEF ItemState

(* When no element is open, the stored results are in input order. *)
LEMMA InOrder ==
    ASSUME Base, NEW a \in DOMAIN aggs, NEW ok, Kept(a, ok), Open(a) = {}
    PROVE  ArrayFor(Raw(a), aggs[a].results) = InInputOrder(a)
<1>1. PICK n \in Nat : n = Len(aggs[a].items) /\ DOMAIN aggs[a].items = 1 .. n
    BY BaseTypes DEF Base
<1>2. PICK results \in Seq(Seq(Int)) : results = aggs[a].results
    BY BaseTypes DEF Base
<1>3. Len(results) = n
    BY <1>1, <1>2 DEF Base, Shape, CallOK
<1>4. results = [i \in 1 .. n |-> results[i]]
    BY <1>3
<1>5. \A i \in 1 .. n : results[i] = ItemState(a, i).val
    BY <1>1, <1>2 DEF Open, Kept
<1>6. results = [i \in 1 .. n |-> ItemState(a, i).val]
    BY <1>4, <1>5
<1> QED BY <1>1, <1>2, <1>6 DEF InInputOrder

(* A promise is among the outcomes when an element settled that way. *)
LEMMA InOutcomes ==
    ASSUME NEW a, NEW st, By(a, st)
    PROVE  state[Raw(a)] \in Outcomes(a, st)
BY DEF By, Outcomes

LEMMA NoOutcome ==
    ASSUME NEW a, NEW st, \A i \in DOMAIN aggs[a].items : ItemState(a, i).st # st
    PROVE  Outcomes(a, st) = {}
BY DEF Outcomes

(* The three ways the countdown of a complete call can stand *)
LEMMA CountingOutcomes ==
    ASSUME Base, NEW a \in DOMAIN aggs, Complete(a), NEW ok, Counting(a, ok)
    PROVE  /\ Outcomes(a, "pending") # {} /\ state[Raw(a)] = Pending
           /\ \A st : st \notin ok /\ st # "pending" => Outcomes(a, st) = {}
<1>1. Open(a) # {} /\ state[Raw(a)] = Pending
    BY OpenFacts DEF Counting
<1>2. PICK i \in DOMAIN aggs[a].items : IsOpen(a, i)
    BY <1>1 DEF Open
<1>3. ItemState(a, i).st = "pending"
    BY <1>2, OpenPending DEF Pending
<1>4. Outcomes(a, "pending") # {}
    BY <1>3 DEF Outcomes
<1>5. ASSUME NEW st, st \notin ok, st # "pending" PROVE Outcomes(a, st) = {}
    <2>1. ASSUME NEW j \in DOMAIN aggs[a].items PROVE ItemState(a, j).st # st
        <3>1. CASE IsOpen(a, j)
            BY <1>5, <3>1, OpenPending DEF Pending
        <3>2. CASE ~IsOpen(a, j)
            BY <1>5, <3>2 DEF Counting, Kept
        <3> QED BY <3>1, <3>2
    <2> QED BY <2>1, NoOutcome
<1> QED BY <1>1, <1>4, <1>5

LEMMA FullOutcomes ==
    ASSUME Base, NEW a \in DOMAIN aggs, NEW ok, NEW st, Full(a, ok, st)
    PROVE  /\ state[Raw(a)] = [st |-> st, val |-> InInputOrder(a)]
           /\ \A other : other \notin ok => Outcomes(a, other) = {}
<1>1. state[Raw(a)] = [st |-> st, val |-> InInputOrder(a)]
    BY InOrder DEF Full
<1>2. \A j \in DOMAIN aggs[a].items : ItemState(a, j).st \in ok
    BY DEF Full, Open, Kept
<1>3. ASSUME NEW other, other \notin ok PROVE Outcomes(a, other) = {}
    BY <1>2, <1>3, NoOutcome
<1> QED BY <1>1, <1>3

(* The result of a combinator is at every moment what its elements say:    *)
(* the reactions of all, any and allSettled in enqueue_reaction_job count  *)
(* every element once, keep its value at the element's index and settle    *)
(* the result as soon as the elements decide it and no sooner, and race    *)
(* has the job of a settled element in the queue until it has its result.  *)
THEOREM AggregateSoundAlways == Spec => []AggregateSound
<1>1. ASSUME Whole PROVE AggregateSound
    <2>1. Base /\ SoundInv
        BY <1>1 DEF Whole, Tokens
    <2> SUFFICES ASSUME NEW a \in DOMAIN aggs, Complete(a)
                 PROVE  state[Raw(a)] \in Allowed(a)
        BY DEF AggregateSound
    <2>2. ~aggs[a].threw /\ aggs[a].kind \in AllKinds
        BY <2>1, BaseTypes DEF Complete, Base, CallSet
    <2>3. CASE aggs[a].kind = "all"
        <3>1. Allowed(a) = IF Outcomes(a, "rejected") # {} THEN Outcomes(a, "rejected")
                           ELSE {IF Outcomes(a, "pending") # {} THEN Pending
                                 ELSE Fulfilled(InInputOrder(a))}
            BY <2>3 DEF Allowed
        <3>2. AllSound(a)
            BY <2>1, <2>2, <2>3 DEF SoundInv, Sound
        <3>3. CASE Counting(a, {"fulfilled"})
            BY <2>1, <3>1, <3>3, CountingOutcomes
        <3>4. CASE By(a, "rejected")
            BY <3>1, <3>4, InOutcomes
        <3>5. CASE Full(a, {"fulfilled"}, "fulfilled")
            <4>1. /\ Outcomes(a, "rejected") = {} /\ Outcomes(a, "pending") = {}
                  /\ state[Raw(a)] = Fulfilled(InInputOrder(a))
                BY <2>1, <3>5, FullOutcomes DEF Fulfilled
            <4> QED BY <3>1, <4>1
        <3> QED BY <3>2, <3>3, <3>4, <3>5 DEF AllSound
    <2>4. CASE aggs[a].kind = "any"
        <3>1. Allowed(a) = IF Outcomes(a, "fulfilled") # {} THEN Outcomes(a, "fulfilled")
                           ELSE {IF Outcomes(a, "pending") # {} THEN Pending
                                 ELSE Rejected(InInputOrder(a))}
            BY <2>4 DEF Allowed
        <3>2. AnySound(a)
            BY <2>1, <2>2, <2>4 DEF SoundInv, Sound
        <3>3. CASE Counting(a, {"rejected"})
            BY <2>1, <3>1, <3>3, CountingOutcomes
        <3>4. CASE By(a, "fulfilled")
            BY <3>1, <3>4, InOutcomes
        <3>5. CASE Full(a, {"rejected"}, "rejected")
            <4>1. /\ Outcomes(a, "fulfilled") = {} /\ Outcomes(a, "pending") = {}
                  /\ state[Raw(a)] = Rejected(InInputOrder(a))
                BY <2>1, <3>5, FullOutcomes DEF Rejected
            <4> QED BY <3>1, <4>1
        <3> QED BY <3>2, <3>3, <3>4, <3>5 DEF AnySound
    <2>5. CASE aggs[a].kind = "allSettled"
        <3>1. Allowed(a) = {IF Outcomes(a, "pending") # {} THEN Pending
                            ELSE Fulfilled(InInputOrder(a))}
            BY <2>5 DEF Allowed
        <3>2. AllSettledSound(a)
            BY <2>1, <2>2, <2>5 DEF SoundInv, Sound
        <3>3. CASE Counting(a, Either)
            BY <2>1, <3>1, <3>3, CountingOutcomes
        <3>4. CASE Full(a, Either, "fulfilled")
            <4>1. "pending" \notin Either
                BY DEF Either
            <4> QED BY <2>1, <3>1, <3>4, <4>1, FullOutcomes DEF Fulfilled
        <3> QED BY <3>2, <3>3, <3>4 DEF AllSettledSound
    <2>6. CASE aggs[a].kind = "race"
        <3> PICK settled : settled = Outcomes(a, "fulfilled") \cup Outcomes(a, "rejected")
            OBVIOUS
        <3>1. Allowed(a) = IF settled = {} THEN {Pending}
                           ELSE settled \cup (IF Waiting(a) THEN {Pending} ELSE {})
            BY <2>6 DEF Allowed
        <3>2. RaceSound(a)
            BY <2>1, <2>2, <2>6 DEF SoundInv, Sound
        <3>3. ASSUME state[Raw(a)] = Pending, settled # {},
                     \A i \in DOMAIN aggs[a].items :
                        ~IsOpen(a, i) => Queued(Reaction("race", a, i))
              PROVE  Waiting(a)
            <4>1. PICK i \in DOMAIN aggs[a].items : ItemState(a, i).st \in Either
                BY <3>3 DEF Outcomes, Either
            <4>2. ~IsOpen(a, i)
                BY <2>1, <4>1, OpenPending DEF Pending, Either
            <4>3. Queued(Reaction("race", a, i))
                BY <3>3, <4>2
            <4> QED BY <4>3 DEF Queued, InJobs, Waiting, Reaction
        <3>4. CASE By(a, "fulfilled") \/ By(a, "rejected")
            <4>1. state[Raw(a)] \in settled
                BY <3>4, InOutcomes
            <4> QED BY <3>1, <4>1
        <3>5. CASE ~(By(a, "fulfilled") \/ By(a, "rejected"))
            BY <3>1, <3>2, <3>3, <3>5 DEF RaceSound
        <3> QED BY <3>4, <3>5
    <2> QED BY <2>2, <2>3, <2>4, <2>5, <2>6 DEF AllKinds
<1> QED BY <1>1, WholeAlways, PTL

-----------------------------------------------------------------------------
(* The order elements settled in *)

(* When a promise settled: its place in the ghost list, and 0 for a value  *)
(* that is no promise.                                                     *)
Place(q) == IF q = Plain THEN 0 ELSE CHOOSE n \in DOMAIN order : order[n] = q

FromSources(a) == \A i \in DOMAIN aggs[a].items : aggs[a].items[i] \in Source \cup {Plain}

(* The ghost list grows by the promise that settles, if any. *)
Grown ==
    \/ order' = order /\ state' = state
    \/ \E p \in Promise : /\ IsPending(p) /\ ~IsPending(p)' /\ order' = Append(order, p)
                          /\ \A q \in Promise : q # p => state'[q] = state[q]

LEMMA SettleGrown ==
    ASSUME Base, NEW p \in Promise, NEW s \in Settlement, NEW rest, Settle(p, s, rest)
    PROVE  Grown
<1>1. CASE IsPending(p)
    <2>1. state'[p] = s /\ \A q \in Promise : q # p => state'[q] = state[q]
        BY <1>1, SettleState
    <2>2. ~IsPending(p)'
        BY <2>1 DEF IsPending, Settlement
    <2> QED BY <1>1, <2>1, <2>2 DEF Grown, Settle
<1>2. CASE ~IsPending(p)
    BY <1>2 DEF Grown, Settle, promises
<1> QED BY <1>1, <1>2

(* The place of a member of a sequence *)
LEMMA PlaceIn ==
    ASSUME NEW S, NEW s \in Seq(S), NEW q, In(q, s), NEW n, n = CHOOSE k \in DOMAIN s : s[k] = q
    PROVE  n \in 1 .. Len(s) /\ n \in DOMAIN s /\ s[n] = q
<1>1. \E k \in DOMAIN s : s[k] = q
    BY DEF In
<1>2. n \in DOMAIN s /\ s[n] = q
    BY <1>1
<1> QED BY <1>2

LEMMA SourceFacts ==
    /\ Source \subseteq Promise /\ Plain \notin Promise /\ Promise \subseteq Nat
    /\ Base => \A a \in DOMAIN aggs : Raw(a) \in Promise /\ Raw(a) \notin Source
<1>1. Sources \in Nat /\ MaxCalls \in Nat
    BY CombinatorAssumption
<1>2. Source \subseteq Promise /\ Plain \notin Promise /\ Promise \subseteq Nat
    BY <1>1 DEF Source, Promise, Plain
<1>3. ASSUME Base, NEW a \in DOMAIN aggs PROVE Raw(a) \in Promise /\ Raw(a) \notin Source
    <2>1. Raw(a) \in Promise /\ Raw(a) \in Nat /\ Raw(a) > Sources
        BY <1>3, BaseTypes DEF Base
    <2> QED BY <1>1, <2>1 DEF Source
<1> QED BY <1>2, <1>3

LEMMA PlaceFacts ==
    ASSUME Base, NEW q \in Promise, ~IsPending(q)
    PROVE  Place(q) \in 1 .. Len(order) /\ Place(q) \in DOMAIN order /\ order[Place(q)] = q
<1>1. order \in Seq(Promise) /\ In(q, order) /\ q # Plain
    BY SourceFacts DEF Base, Listed
<1> PICK n : n = CHOOSE k \in DOMAIN order : order[k] = q
    OBVIOUS
<1>2. n \in 1 .. Len(order) /\ n \in DOMAIN order /\ order[n] = q
    BY <1>1, PlaceIn
<1> QED BY <1>1, <1>2 DEF Place

(* A settled promise keeps its place, and one that settles gets the last. *)
LEMMA PlaceStep ==
    ASSUME Base, Base', Grown, NEW q \in Promise, ~IsPending(q)'
    PROVE  /\ ~IsPending(q) => Place(q)' = Place(q)
           /\ IsPending(q) => Place(q)' = Len(order) + 1
<1>1. PICK n \in Nat : n = Len(order) /\ DOMAIN order = 1 .. n
    BY DEF Base, Listed
<1>2. order' \in Seq(Promise) /\ In(q, order') /\ q # Plain /\ IsInjective(order')
    BY SourceFacts DEF Base, Listed, In
<1> PICK m : m = CHOOSE k \in DOMAIN order' : order'[k] = q
    OBVIOUS
<1>3. m \in DOMAIN order' /\ order'[m] = q
    BY <1>2, PlaceIn
<1>4. Place(q)' = m
    BY <1>2 DEF Place
<1>5. \A k \in DOMAIN order' : order'[k] = q => k = m
    BY <1>2, <1>3 DEF IsInjective
<1>6. order \in Seq(Promise)
    BY DEF Base, Listed
<1>7. CASE order' = order /\ state' = state
    BY <1>2, <1>4, <1>7 DEF IsPending, Place
<1>8. ASSUME NEW p \in Promise, IsPending(p), ~IsPending(p)', order' = Append(order, p),
             \A x \in Promise : x # p => state'[x] = state[x]
      PROVE  /\ ~IsPending(q) => Place(q)' = Place(q)
             /\ IsPending(q) => Place(q)' = Len(order) + 1
    <2>1. /\ DOMAIN order' = 1 .. n + 1 /\ order'[n + 1] = p
          /\ \A k \in 1 .. n : order'[k] = order[k]
        BY <1>1, <1>6, <1>8
    <2>2. CASE IsPending(q)
        <3>1. q = p
            BY <1>8, <2>2 DEF IsPending
        <3>2. n + 1 = m
            BY <1>1, <1>5, <2>1, <3>1
        <3> QED BY <1>1, <1>4, <2>2, <3>2
    <2>3. CASE ~IsPending(q)
        <3>1. Place(q) \in 1 .. n /\ order[Place(q)] = q
            BY <1>1, <2>3, PlaceFacts
        <3>2. Place(q) = m
            BY <1>5, <2>1, <3>1
        <3> QED BY <1>4, <2>3, <3>2
    <2> QED BY <2>2, <2>3
<1> QED BY <1>7, <1>8 DEF Grown

(* An element comes at its index, or by when it settled after the call. *)
LEMMA RankIs ==
    ASSUME NEW a, NEW i
    PROVE  SettledAt(a, i) = IF Place(aggs[a].items[i]) <= aggs[a].at THEN i
                             ELSE Len(aggs[a].items) + Place(aggs[a].items[i])
BY DEF SettledAt, Place

(* A call was made when there were no more settlements than now. *)
Before == \A a \in DOMAIN aggs : aggs[a].at <= Len(order)

LEMMA RankFacts ==
    ASSUME Base, Before, NEW a \in DOMAIN aggs, FromSources(a),
           NEW i \in DOMAIN aggs[a].items, ItemState(a, i).st # "pending"
    PROVE  /\ Place(aggs[a].items[i]) \in 0 .. Len(order)
           /\ SettledAt(a, i) \in Nat /\ SettledAt(a, i) <= Len(aggs[a].items) + Len(order)
<1> PICK item \in Source \cup {Plain} : item = aggs[a].items[i]
    BY DEF FromSources
<1> PICK n \in Nat : n = Len(order)
    BY DEF Base, Listed
<1> PICK l \in Nat : l = Len(aggs[a].items) /\ DOMAIN aggs[a].items = 1 .. l
    BY BaseTypes DEF Base
<1> PICK at \in Nat : at = aggs[a].at
    BY BaseTypes DEF Base, CallSet
<1> PICK place : place = Place(item)
    OBVIOUS
<1>1. place \in 0 .. n
    <2>1. CASE item = Plain
        BY <2>1 DEF Place
    <2>2. CASE item # Plain
        <3>1. item \in Promise /\ ~IsPending(item)
            BY <2>2, SourceFacts DEF ItemState, IsPending
        <3> QED BY <3>1, PlaceFacts
    <2> QED BY <2>1, <2>2
<1>2. SettledAt(a, i) = IF place <= at THEN i ELSE l + place
    BY RankIs
<1> QED BY <1>1, <1>2

(* What an element that settled counts for stays, and one that settles now *)
(* comes after all others.                                                 *)
LEMMA RankStep ==
    ASSUME Base, Base', Before, Grown, Grow, NEW a \in DOMAIN aggs, FromSources(a),
           NEW i \in DOMAIN aggs[a].items, ItemState(a, i)'.st # "pending"
    PROVE  /\ ItemState(a, i).st # "pending" => SettledAt(a, i)' = SettledAt(a, i)
           /\ ItemState(a, i).st = "pending" =>
                 SettledAt(a, i)' = Len(aggs[a].items) + Len(order) + 1
<1> PICK item \in Source \cup {Plain} : item = aggs[a].items[i]
    BY DEF FromSources
<1> PICK n \in Nat : n = Len(order)
    BY DEF Base, Listed
<1> PICK l \in Nat : l = Len(aggs[a].items) /\ DOMAIN aggs[a].items = 1 .. l
    BY BaseTypes DEF Base
<1> PICK at \in Nat : at = aggs[a].at /\ at <= n
    BY BaseTypes DEF Base, CallSet, Before
<1>1. aggs'[a].items = aggs[a].items /\ aggs'[a].at = at
    BY DEF Grow
<1>2. SettledAt(a, i) = IF Place(item) <= at THEN i ELSE l + Place(item)
    BY RankIs
<1>3. SettledAt(a, i)' = IF Place(item)' <= at THEN i ELSE l + Place(item)'
    BY <1>1 DEF SettledAt, Place
<1>4. CASE item = Plain
    <2>1. Place(item) = 0 /\ Place(item)' = 0 /\ ItemState(a, i).st # "pending"
        BY <1>4 DEF Place, ItemState, Fulfilled
    <2> QED BY <1>2, <1>3, <2>1
<1>5. CASE item # Plain
    <2>1. item \in Promise /\ ItemState(a, i) = state[item] /\ ItemState(a, i)' = state'[item]
        BY <1>1, <1>5, SourceFacts DEF ItemState
    <2>2. ~IsPending(item)' /\ (IsPending(item) <=> ItemState(a, i).st = "pending")
        BY <2>1 DEF IsPending
    <2>3. CASE IsPending(item)
        <3>1. Place(item)' = n + 1
            BY <2>1, <2>2, <2>3, PlaceStep
        <3>2. ~(n + 1 <= at) /\ l + (n + 1) = l + n + 1
            <4>1. at <= n
                OBVIOUS
            <4>2. ASSUME NEW x \in Nat, NEW y \in Nat, NEW z \in Nat, z <= y
                  PROVE  ~(y + 1 <= z) /\ x + (y + 1) = x + y + 1
                BY <4>2
            <4> QED BY <4>1, <4>2
        <3>3. SettledAt(a, i)' = l + n + 1
            BY <1>3, <3>1, <3>2
        <3> QED BY <2>2, <2>3, <3>3
    <2>4. CASE ~IsPending(item)
        <3>1. Place(item)' = Place(item)
            BY <2>1, <2>2, <2>4, PlaceStep
        <3> QED BY <1>2, <1>3, <2>2, <2>4, <3>1
    <2> QED BY <2>3, <2>4
<1> QED BY <1>4, <1>5

-----------------------------------------------------------------------------
(* The elements under way *)

ItemOf(r) == aggs[r.of].items[r.index]
Direct(r) == r.kind \in AllKinds /\ ItemOf(r) \in Source \cup {Plain}

(* While a call attaches its elements, no source settles. *)
Attached ==
    call = "attach" =>
        \A p \in Source : ~IsPending(p) => Place(p) <= aggs[Len(aggs)].at

(* Of the elements in a cascade that are sources or plain values, there is *)
(* only the one that was attached last, or they are all the same source,   *)
(* which settled after their calls were made.                              *)
Cascade ==
    \A x : In(x, firing) /\ Direct(x.r) =>
        /\ call = "attach" => x.r.of = Len(aggs) /\ x.r.index = aggs[Len(aggs)].next - 1
        /\ call = "none" =>
              /\ ItemOf(x.r) \in Source /\ aggs[x.r.of].at < Place(ItemOf(x.r))
              /\ \A y : In(y, firing) /\ Direct(y.r) => ItemOf(y.r) = ItemOf(x.r)

Timely == Before /\ Attached /\ Cascade

LEMMA BeforeStep ==
    ASSUME Base, Base', Grown, Grow, Before,
           \A a \in DOMAIN aggs' : a \in DOMAIN aggs \/ aggs'[a].at = Len(order)
    PROVE  Before'
<1>1. order \in Seq(Promise)
    BY DEF Base, Listed
<1>2. Len(order) \in Nat /\ Len(order') \in Nat /\ Len(order) <= Len(order')
    BY <1>1 DEF Grown
<1> SUFFICES ASSUME NEW a \in DOMAIN aggs' PROVE aggs'[a].at <= Len(order')
    BY DEF Before
<1>3. CASE a \in DOMAIN aggs
    <2>1. aggs'[a].at = aggs[a].at /\ aggs[a].at \in Nat /\ aggs[a].at <= Len(order)
        BY <1>3, BaseTypes DEF Grow, Before, Base, CallSet
    <2> QED BY <1>2, <2>1
<1>4. CASE aggs'[a].at = Len(order)
    BY <1>2, <1>4
<1> QED BY <1>3, <1>4

LEMMA AttachedStep ==
    ASSUME Base, Base', Grown, Grow, Attached,
           call' = "attach" =>
               /\ \A p \in Source : state'[p] = state[p]
               /\ \/ call = "attach" /\ Len(aggs') = Len(aggs)
                  \/ aggs'[Len(aggs')].at = Len(order)
    PROVE  Attached'
<1> SUFFICES ASSUME call' = "attach", NEW p \in Source, ~IsPending(p)'
             PROVE  Place(p)' <= aggs'[Len(aggs')].at
    BY DEF Attached
<1>1. p \in Promise /\ ~IsPending(p)
    BY SourceFacts DEF IsPending
<1>2. Place(p)' = Place(p) /\ Place(p) \in 1 .. Len(order)
    BY <1>1, PlaceStep, PlaceFacts
<1>3. CASE call = "attach" /\ Len(aggs') = Len(aggs)
    <2>1. Len(aggs) \in DOMAIN aggs
        BY <1>3 DEF Base, Shape
    <2>2. aggs'[Len(aggs')].at = aggs[Len(aggs)].at
        BY <1>3, <2>1 DEF Grow
    <2> QED BY <1>1, <1>2, <1>3, <2>2 DEF Attached
<1>4. CASE aggs'[Len(aggs')].at = Len(order)
    BY <1>2, <1>4
<1> QED BY <1>3, <1>4

(* What an element's reaction hangs on is the element. *)
LEMMA HangsItem ==
    ASSUME Grow, NEW r, r.kind \in AllKinds, NEW q, HangsOn(r, q)
    PROVE  ItemOf(r) = q /\ ItemOf(r)' = q /\ r.of \in DOMAIN aggs /\ r.of \in DOMAIN aggs'
BY DEF HangsOn, ItemOf, Grow, AllKinds

(* Settling the result of a call sets off no element that is a source. *)
LEMMA RawFires ==
    ASSUME Base, Grow, NEW p \in Promise, p \notin Source, NEW s \in Settlement,
           NEW rest \in Seq(JobSet), Settle(p, s, rest)
    PROVE  \A x : In(x, firing') /\ Direct(x.r)' => In(x, rest)
<1>1. reactions[p] \in Seq(ReactionSet) /\ p # Plain
    BY SourceFacts DEF Base, Ledger
<1>2. CASE IsPending(p)
    <2>1. firing' = Fired(reactions[p], s) \o rest
        BY <1>2 DEF Settle, Fired
    <2>2. Fired(reactions[p], s) \in Seq(JobSet)
        BY <1>1, FiredType
    <2> SUFFICES ASSUME NEW x, In(x, Fired(reactions[p], s)) PROVE ~Direct(x.r)'
        BY <2>1, <2>2, InConcat
    <2>3. PICK r : In(r, reactions[p]) /\ x = JobOf(r, s)
        BY InFired
    <2>4. x.r = r /\ HangsOn(r, p)
        BY <2>3 DEF JobOf, Base, Hang
    <2>5. CASE r.kind \in AllKinds
        <3>1. ItemOf(r)' = p
            BY <2>4, <2>5, HangsItem
        <3>2. p \notin Source \cup {Plain}
            BY <1>1
        <3> QED BY <2>4, <3>1, <3>2 DEF Direct
    <2>6. CASE r.kind \notin AllKinds
        BY <2>4, <2>6 DEF Direct
    <2> QED BY <2>5, <2>6
<1>3. CASE ~IsPending(p)
    BY <1>3 DEF Settle
<1> QED BY <1>2, <1>3

LEMMA AttachFires ==
    ASSUME NEW p, NEW r, Attach(p, r), firing = <<>>
    PROVE  \A x : In(x, firing') => x.r = r
<1>1. firing' = <<>> \/ firing' = <<JobOf(r, state[p])>>
    BY DEF Attach
<1> QED BY <1>1, InEmpty, InOne DEF JobOf

(* The cascade goes on. *)
LEMMA CascadeRest ==
    ASSUME Base, Base', Grown, Grow, Keeps, Cascade, UNCHANGED call, Len(aggs') = Len(aggs),
           \A a \in DOMAIN aggs : aggs'[a].next = aggs[a].next,
           \A x : In(x, firing') /\ Direct(x.r)' => In(x, firing)
    PROVE  Cascade'
<1>1. ASSUME NEW x, In(x, firing'), Direct(x.r)'
      PROVE  /\ In(x, firing) /\ Direct(x.r) /\ x.r.of \in DOMAIN aggs
             /\ aggs'[x.r.of].at = aggs[x.r.of].at /\ ItemOf(x.r)' = ItemOf(x.r)
             /\ ItemOf(x.r) # Plain => ItemOf(x.r) \in Promise /\ ~IsPending(ItemOf(x.r))
    <2>1. In(x, firing) /\ x.r.kind \in AllKinds
        BY <1>1 DEF Direct
    <2>2. PICK q \in Item : HangsOn(x.r, q) /\ StateOf(q).st # "pending"
        BY <2>1 DEF Base, Hang, Triggers
    <2>3. ItemOf(x.r) = q /\ ItemOf(x.r)' = q /\ x.r.of \in DOMAIN aggs
        BY <2>1, <2>2, HangsItem
    <2>4. Direct(x.r)
        BY <1>1, <2>3 DEF Direct
    <2>5. q # Plain => q \in Promise /\ ~IsPending(q)
        BY <2>2, CombinatorAssumption DEF StateOf, IsPending, Item, Promise, Plain
    <2> QED BY <2>1, <2>3, <2>4, <2>5 DEF Grow
<1> SUFFICES ASSUME NEW x, In(x, firing'), Direct(x.r)'
             PROVE  /\ call' = "attach" => /\ x.r.of = Len(aggs')
                                           /\ x.r.index = aggs'[Len(aggs')].next - 1
                    /\ call' = "none" =>
                        /\ ItemOf(x.r)' \in Source /\ aggs'[x.r.of].at < Place(ItemOf(x.r))'
                        /\ \A y : In(y, firing') /\ Direct(y.r)' => ItemOf(y.r)' = ItemOf(x.r)'
    BY DEF Cascade
<1>2. /\ In(x, firing) /\ Direct(x.r) /\ x.r.of \in DOMAIN aggs
      /\ aggs'[x.r.of].at = aggs[x.r.of].at /\ ItemOf(x.r)' = ItemOf(x.r)
      /\ ItemOf(x.r) # Plain => ItemOf(x.r) \in Promise /\ ~IsPending(ItemOf(x.r))
    BY <1>1
<1>3. CASE call' = "attach"
    <2>1. x.r.of = Len(aggs) /\ x.r.index = aggs[Len(aggs)].next - 1
        BY <1>2, <1>3 DEF Cascade
    <2> QED BY <1>2, <1>3, <2>1
<1>4. CASE call' = "none"
    <2> PICK q \in Source : q = ItemOf(x.r)
        BY <1>2, <1>4 DEF Cascade
    <2>1. q # Plain /\ q \in Promise
        BY SourceFacts
    <2>2. ~IsPending(q) /\ ~IsPending(q)'
        BY <1>2, <2>1 DEF Keeps, IsPending
    <2>3. Place(q)' = Place(q)
        BY <2>1, <2>2, PlaceStep
    <2>4. aggs[x.r.of].at < Place(q)
        BY <1>2, <1>4 DEF Cascade
    <2>5. Place(ItemOf(x.r))' = Place(q)'
        BY <1>2 DEF Place
    <2>6. \A y : In(y, firing') /\ Direct(y.r)' => ItemOf(y.r)' = ItemOf(x.r)'
        BY <1>1, <1>2, <1>4 DEF Cascade
    <2> QED BY <1>2, <1>4, <2>3, <2>4, <2>5, <2>6
<1> QED BY <1>3, <1>4

LEMMA CascadeNone ==
    ASSUME \A x : In(x, firing') => ~Direct(x.r)'
    PROVE  Cascade'
BY DEF Cascade

(* The steps that make no new call, or the one that makes it *)
LEMMA TimelyStep ==
    ASSUME Base, Base', Grown, Grow, Timely, Cascade',
           \/ /\ Len(aggs') = Len(aggs) /\ DOMAIN aggs' = DOMAIN aggs
              /\ call' = "attach" => call = "attach"
           \/ /\ aggs'[Len(aggs')].at = Len(order)
              /\ \A a \in DOMAIN aggs' : a \in DOMAIN aggs \/ a = Len(aggs'),
           call' = "attach" => \A p \in Source : state'[p] = state[p]
    PROVE  Timely'
<1>1. Before'
    BY BeforeStep DEF Timely
<1>2. Attached'
    BY AttachedStep DEF Timely
<1> QED BY <1>1, <1>2 DEF Timely

(* No step but that of user code settles a source. *)
LEMMA SourcesKept ==
    ASSUME Base, \/ UNCHANGED state
                 \/ \E p \in Promise : p \notin Source /\ \E s, rest : Settle(p, s, rest)
    PROVE  \A q \in Source : state'[q] = state[q]
BY SourceFacts, SettleState

(* The result of the call that is made now *)
LEMMA NewRaw ==
    ASSUME Base, MayCall
    PROVE  \E p \in Promise : p = Raw(Len(aggs) + 1) /\ p \notin Source
<1>1. Len(aggs) + 1 <= MaxCalls /\ Len(aggs) \in Nat /\ Sources \in Nat /\ MaxCalls \in Nat
    BY BaseTypes DEF MayCall, Base
<1> QED BY <1>1 DEF Raw, Promise, Source

(* A new call settles nothing but its own result. *)
LEMMA NewCallTimely ==
    ASSUME Base, Base', Grow, Keeps, Timely, firing = <<>>, NEW agg \in CallSet,
           aggs' = Append(aggs, agg), agg.at = Len(order),
           NEW p \in Promise, p \notin Source,
           UNCHANGED core \/ \E s \in Settlement : Settle(p, s, <<>>)
    PROVE  Grown /\ Timely'
<1>1. Grown
    BY SettleGrown DEF core, promises, Grown
<1>2. PICK n \in Nat : n = Len(aggs) /\ DOMAIN aggs = 1 .. n /\ aggs \in Seq(CallSet)
    BY BaseTypes DEF Base, Shape
<1>3. Len(aggs') = n + 1 /\ DOMAIN aggs' = 1 .. n + 1 /\ aggs'[n + 1] = agg
    BY <1>2
<1>4. <<>> \in Seq(JobSet)
    OBVIOUS
<1>5. \A x : In(x, firing') => ~Direct(x.r)'
    <2>1. CASE UNCHANGED core
        BY <2>1, InEmpty DEF core
    <2>2. ASSUME NEW s \in Settlement, Settle(p, s, <<>>)
          PROVE  \A x : In(x, firing') => ~Direct(x.r)'
        BY <1>4, <2>2, RawFires, InEmpty
    <2> QED BY <2>1, <2>2
<1>6. \A q \in Source : state'[q] = state[q]
    BY SourcesKept DEF core, promises
<1>7. Cascade'
    BY <1>5, CascadeNone
<1>8. \A a \in DOMAIN aggs' : a \in DOMAIN aggs \/ a = Len(aggs')
    BY <1>2, <1>3
<1> QED BY <1>1, <1>3, <1>6, <1>7, <1>8, TimelyStep

LEMMA CallCombinatorTimely ==
    ASSUME Base, Timely, NEW kind \in Kinds, NEW custom \in BOOLEAN, NEW items \in Items,
           CallCombinator(kind, items, custom)
    PROVE  Grown /\ Timely'
<1>1. Base' /\ Grow /\ Keeps
    BY CallCombinatorBase
<1>2. Shape /\ Listed /\ MayCall /\ firing = <<>>
    BY DEF Base, CallCombinator, UserTurn
<1>3. items \in Seq(Item) /\ Len(caps) \in Nat
    BY <1>2, ItemsType, BaseTypes
<1> PICK cap \in Nat : cap = IF custom THEN Len(caps) + 1 ELSE 0
    BY <1>3
<1> PICK agg : agg = NewAgg(kind, items, cap)
    OBVIOUS
<1>4. agg \in CallSet /\ agg.at = Len(order)
    BY <1>2, <1>3, NewAggType DEF NewAgg
<1>5. aggs' = Append(aggs, agg)
    BY DEF CallCombinator
<1> PICK p \in Promise : p = Raw(Len(aggs) + 1) /\ p \notin Source
    BY <1>2, NewRaw
<1>6. ArrayFor(p, <<>>) \in Seq(Int)
    <2>1. <<>> \in Seq(Seq(Int)) /\ p \in Int
        BY SourceFacts
    <2> QED BY <2>1, ArrayType
<1>7. UNCHANGED core \/ \E s \in Settlement : Settle(p, s, <<>>)
    BY <1>6, SettlementTypes DEF CallCombinator
<1> QED BY <1>1, <1>2, <1>4, <1>5, <1>7, NewCallTimely

LEMMA CallFailsTimely ==
    ASSUME Base, Timely, NEW kind \in Kinds, NEW custom \in BOOLEAN, CallFails(kind, custom)
    PROVE  Grown /\ Timely'
<1>1. Base' /\ Grow /\ Keeps
    BY CallFailsBase
<1>2. Shape /\ Listed /\ MayCall /\ firing = <<>>
    BY DEF Base, CallFails, UserTurn
<1>3. <<>> \in Seq(Item) /\ Len(caps) \in Nat
    BY <1>2, BaseTypes
<1> PICK cap \in Nat : cap = IF custom THEN Len(caps) + 1 ELSE 0
    BY <1>3
<1> PICK new : new = NewAgg(kind, <<>>, cap)
    OBVIOUS
<1> PICK agg : agg = [new EXCEPT !.threw = TRUE]
    OBVIOUS
<1>4. agg \in CallSet /\ agg.at = Len(order)
    BY <1>2, <1>3, NewAggType DEF NewAgg
<1>5. aggs' = Append(aggs, agg)
    BY DEF CallFails
<1> PICK p \in Promise : p = Raw(Len(aggs) + 1) /\ p \notin Source
    BY <1>2, NewRaw
<1>6. UNCHANGED core \/ \E s \in Settlement : Settle(p, s, <<>>)
    BY PlainTypes DEF CallFails
<1> QED BY <1>1, <1>2, <1>4, <1>5, <1>6, NewCallTimely

LEMMA AttachNextTimely ==
    ASSUME Base, Timely, AttachNext
    PROVE  Grown /\ Timely'
<1>1. Base' /\ Grow /\ Keeps /\ Passed(Len(aggs)) /\ Attaching
    BY AttachNextBase DEF AttachNext
<1>2. PICK a \in DOMAIN aggs : a = Len(aggs)
    BY <1>1, AttachingFacts
<1>3. call = "attach" /\ firing = <<>> /\ call' = call
    BY <1>1, AttachingFacts DEF AttachNext
<1> PICK n \in Nat : n = aggs[a].next
    BY <1>1, BaseTypes DEF Base
<1> PICK r : r = Reaction(aggs[a].kind, a, n)
    OBVIOUS
<1>4. Grown
    BY DEF AttachNext, Attach, promises, Grown
<1>5. \A x : In(x, firing') => x.r = r
    <2>1. ASSUME NEW p, Attach(p, r) PROVE \A x : In(x, firing') => x.r = r
        BY <1>3, <2>1, AttachFires
    <2>2. ASSUME NEW s, firing' = <<JobOf(r, s)>> PROVE \A x : In(x, firing') => x.r = r
        BY <2>2, InOne DEF JobOf
    <2> QED BY <1>2, <2>1, <2>2 DEF AttachNext
<1>6. r.of = a /\ r.index = n
    BY DEF Reaction
<1>7. Len(aggs') = a /\ DOMAIN aggs' = DOMAIN aggs /\ aggs'[a].next = n + 1
    BY <1>1, <1>2 DEF Passed
<1>8. Cascade'
    <2>1. n = n + 1 - 1
        OBVIOUS
    <2> QED BY <1>3, <1>5, <1>6, <1>7, <2>1 DEF Cascade
<1>9. \A q \in Source : state'[q] = state[q]
    BY DEF AttachNext, Attach, promises
<1> QED BY <1>1, <1>2, <1>3, <1>4, <1>7, <1>8, <1>9, TimelyStep

(* A reaction that is no element is attached. *)
LEMMA AttachTimely ==
    ASSUME Base, Base', Grow, Keeps, Timely, NEW p, NEW r, r.kind \notin AllKinds,
           firing = <<>>, UNCHANGED aggs, call' = "none",
           Attach(p, r) \/ UNCHANGED core
    PROVE  Grown /\ Timely'
<1>1. Grown
    BY DEF Attach, core, promises, Grown
<1>2. \A x : In(x, firing') => ~Direct(x.r)'
    BY AttachFires, InEmpty DEF core, Direct
<1> QED BY <1>1, <1>2, CascadeNone, TimelyStep

LEMMA ElementTimely ==
    ASSUME Base, Timely, AllElement \/ AnyElement \/ AllSettledElement,
           UNCHANGED <<queue, call, caps, running, listened>>
    PROVE  Grown /\ Timely'
<1>1. Base' /\ Grow /\ Keeps /\ Counts
    BY AllBase, AnyBase, AllSettledBase
<1>2. firing # <<>> /\ Element.kind \in AllKinds
    BY DEF AllElement, AnyElement, AllSettledElement, Fires, AllKinds
<1>3. /\ Tail(firing) \in Seq(JobSet) /\ Target \in Promise
      /\ \A x : In(x, Tail(firing)) => In(x, firing)
    BY <1>2, FireFacts
<1>4. Target \notin Source
    BY <1>2, FireFacts, SourceFacts DEF Target
<1> PICK p \in Promise : p = Target /\ p \notin Source
    BY <1>3, <1>4
<1> PICK rest \in Seq(JobSet) : rest = Tail(firing) /\ \A x : In(x, rest) => In(x, firing)
    BY <1>3
<1>5. (firing' = rest /\ UNCHANGED promises) \/ \E s \in Settlement : Settle(p, s, rest)
    BY <1>1 DEF Counts, Skip
<1>6. Grown
    BY <1>5, SettleGrown DEF promises, Grown
<1>7. \A x : In(x, firing') /\ Direct(x.r)' => In(x, firing)
    BY <1>1, <1>5, RawFires
<1>8. Cascade'
    BY <1>1, <1>6, <1>7, CascadeRest DEF Counts, Timely
<1>9. \A q \in Source : state'[q] = state[q]
    BY <1>5, SourcesKept DEF promises
<1>10. Len(aggs') = Len(aggs) /\ DOMAIN aggs' = DOMAIN aggs
    <2>1. aggs \in Seq(CallSet) /\ aggs' \in Seq(CallSet)
        BY <1>1 DEF Base, Shape
    <2> QED BY <1>1, <2>1 DEF Counts
<1> QED BY <1>1, <1>6, <1>8, <1>9, <1>10, TimelyStep

LEMMA EnqueueTimely ==
    ASSUME Base, Timely, EnqueueJob, UNCHANGED <<call, caps, running, listened>>
    PROVE  Grown /\ Timely'
<1>1. Base' /\ Grow /\ Keeps
    BY EnqueueBase
<1>2. firing # <<>> /\ firing' = Tail(firing) /\ UNCHANGED aggs /\ UNCHANGED promises
    BY DEF EnqueueJob, Fires, Skip
<1>3. Grown
    BY <1>2 DEF promises, Grown
<1>4. \A x : In(x, firing') => In(x, firing)
    BY <1>2, FireFacts
<1>5. Cascade'
    BY <1>1, <1>2, <1>3, <1>4, CascadeRest DEF Timely
<1> QED BY <1>1, <1>2, <1>3, <1>5, TimelyStep DEF promises

LEMMA RunRaceTimely ==
    ASSUME Base, Timely, RunRace
    PROVE  Grown /\ Timely'
<1>1. Base' /\ Grow /\ Keeps
    BY RunRaceBase
<1>2. NextJob("race") /\ UNCHANGED <<aggs, call>>
    BY DEF RunRace
<1>3. firing = <<>> /\ call = "none"
    BY <1>2, NextJobFacts
<1> PICK s : s = Head(queue).s
    OBVIOUS
<1>4. PICK b \in DOMAIN aggs : b = Head(queue).r.of /\ s \in Settlement
    BY <1>2, RaceFacts
<1> PICK p \in Promise : p = Raw(b) /\ p \notin Source
    BY SourceFacts
<1>5. Settle(p, s, <<>>)
    BY <1>4 DEF RunRace
<1>6. Grown
    BY <1>4, <1>5, SettleGrown
<1>7. <<>> \in Seq(JobSet)
    OBVIOUS
<1>8. \A x : In(x, firing') => ~Direct(x.r)'
    BY <1>1, <1>4, <1>5, <1>7, RawFires, InEmpty
<1> QED BY <1>1, <1>2, <1>3, <1>6, <1>8, CascadeNone, TimelyStep

(* A source settles, later than all others, and its reactions are set off. *)
LEMMA SourceTimely ==
    ASSUME Base, Timely, NEW p \in Source, NEW s \in Settlement, SettleSource(p, s)
    PROVE  Grown /\ Timely'
<1>1. Base' /\ Grow /\ Keeps
    BY SourceBase
<1>2. /\ firing = <<>> /\ call = "none" /\ call' = "none" /\ IsPending(p)
      /\ Settle(p, s, <<>>) /\ UNCHANGED aggs
    BY DEF SettleSource, UserTurn
<1>3. p \in Promise /\ p # Plain
    BY SourceFacts
<1>4. Grown
    BY <1>2, <1>3, SettleGrown
<1>5. ~IsPending(p)'
    <2>1. state'[p] = s
        BY <1>2, <1>3, SettleState
    <2> QED BY <2>1 DEF IsPending, Settlement
<1>6. Place(p)' = Len(order) + 1
    BY <1>1, <1>2, <1>3, <1>4, <1>5, PlaceStep
<1>7. ASSUME NEW x, In(x, firing'), Direct(x.r)'
      PROVE  ItemOf(x.r)' = p /\ x.r.of \in DOMAIN aggs
    <2>1. firing' = Fired(reactions[p], s)
        <3>1. reactions[p] \in Seq(ReactionSet)
            BY <1>3 DEF Base, Ledger
        <3>2. Fired(reactions[p], s) \in Seq(JobSet)
            BY <3>1, FiredType
        <3>3. firing' = Fired(reactions[p], s) \o <<>>
            BY <1>2 DEF Settle, Fired
        <3> QED BY <3>2, <3>3
    <2>2. PICK r : In(r, reactions[p]) /\ x = JobOf(r, s)
        BY <1>7, <2>1, InFired
    <2>3. x.r = r /\ HangsOn(r, p) /\ r.kind \in AllKinds
        BY <1>3, <1>7, <2>2 DEF JobOf, Base, Hang, Direct
    <2> QED BY <1>1, <2>3, HangsItem
<1>8. Cascade'
    <2>1. ASSUME NEW x, In(x, firing'), Direct(x.r)'
          PROVE  /\ ItemOf(x.r)' = p /\ aggs'[x.r.of].at < Place(ItemOf(x.r))'
        <3>1. ItemOf(x.r)' = p /\ x.r.of \in DOMAIN aggs
            BY <1>7, <2>1
        <3>2. Place(ItemOf(x.r))' = Place(p)'
            BY <3>1 DEF Place
        <3> PICK a \in DOMAIN aggs : a = x.r.of
            BY <3>1
        <3> PICK at \in Nat : at = aggs[a].at
            BY BaseTypes DEF Base, CallSet
        <3> PICK n \in Nat : n = Len(order)
            BY DEF Base, Listed
        <3>3. at <= n
            BY DEF Timely, Before
        <3>4. at < n + 1
            BY <3>3
        <3> QED BY <1>2, <1>6, <3>1, <3>2, <3>4
    <2> QED BY <1>2, <2>1 DEF Cascade
<1> QED BY <1>1, <1>2, <1>4, <1>8, TimelyStep

(* The steps that touch neither promises nor calls *)
LEMMA QuietTimely ==
    ASSUME Base, Base', Grow, Keeps, Timely, UNCHANGED <<core, aggs, call>>
    PROVE  Grown /\ Timely'
<1>1. Grown
    BY DEF core, promises, Grown
<1>2. Cascade'
    BY <1>1, CascadeRest DEF core, Timely
<1> QED BY <1>1, <1>2, TimelyStep DEF core, promises

LEMMA NextTimely == Base /\ Timely /\ [Next]_vars => Grown /\ Timely'
<1> SUFFICES ASSUME Base, Timely, [Next]_vars PROVE Grown /\ Timely'
    OBVIOUS
<1>1. Base' /\ Grow /\ Keeps
    BY NextBase
<1>2. CASE UNCHANGED vars
    BY <1>1, <1>2, QuietTimely DEF vars, core, promises
<1>3. ASSUME NEW kind \in Kinds, NEW custom \in BOOLEAN, NEW items \in Items,
             CallCombinator(kind, items, custom)
      PROVE  Grown /\ Timely'
    BY <1>3, CallCombinatorTimely
<1>4. ASSUME NEW kind \in Kinds, NEW custom \in BOOLEAN, CallFails(kind, custom)
      PROVE  Grown /\ Timely'
    BY <1>4, CallFailsTimely
<1>5. CASE AttachNext
    BY <1>5, AttachNextTimely
<1>6. CASE FinishCall
    <2>1. /\ firing = <<>> /\ UNCHANGED aggs /\ call' = "none"
          /\ UNCHANGED core \/ \E p, c : Attach(p, Reaction("custom", c, 0))
        BY <1>6 DEF FinishCall, Attaching
    <2>2. \A c : Reaction("custom", c, 0).kind \notin AllKinds
        BY DEF Reaction, AllKinds
    <2> QED BY <1>1, <2>1, <2>2, AttachTimely
<1>7. CASE FireReaction
    BY <1>7, ElementTimely, EnqueueTimely DEF FireReaction
<1>8. CASE RunRace
    BY <1>8, RunRaceTimely
<1>9. CASE RunCustom
    BY <1>1, <1>9, QuietTimely DEF RunCustom
<1>10. ASSUME NEW s, HandlerDone(s) PROVE Grown /\ Timely'
    BY <1>1, <1>10, QuietTimely DEF HandlerDone
<1>11. ASSUME NEW p \in Source, NEW s \in Settlement, SettleSource(p, s)
       PROVE  Grown /\ Timely'
    BY <1>11, SourceTimely
<1>12. ASSUME NEW p \in Promise, Listen(p) PROVE Grown /\ Timely'
    <2>1. /\ firing = <<>> /\ UNCHANGED aggs /\ call' = "none"
          /\ Attach(p, Reaction("user", 0, 0))
        BY <1>12 DEF Listen, UserTurn
    <2>2. Reaction("user", 0, 0).kind \notin AllKinds
        BY DEF Reaction, AllKinds
    <2> QED BY <1>1, <2>1, <2>2, AttachTimely
<1>13. ASSUME NEW p \in Promise, NEW on, ThenCustom(p, on) PROVE Grown /\ Timely'
    <2>1. /\ firing = <<>> /\ UNCHANGED aggs /\ call' = "none"
          /\ Attach(p, Reaction("custom", Len(caps) + 1, 0))
        BY <1>13 DEF ThenCustom, UserTurn
    <2>2. Reaction("custom", Len(caps) + 1, 0).kind \notin AllKinds
        BY DEF Reaction, AllKinds
    <2> QED BY <1>1, <2>1, <2>2, AttachTimely
<1> QED BY <1>2, <1>3, <1>4, <1>5, <1>6, <1>7, <1>8, <1>9, <1>10, <1>11, <1>12, <1>13,
           SourceTypes DEF Next

-----------------------------------------------------------------------------
(* The first element that decides *)

(* The outcomes that decide a call of this kind *)
Ways(kind) == CASE kind = "all" -> {"rejected"}
                [] kind = "any" -> {"fulfilled"}
                [] kind = "race" -> {"fulfilled", "rejected"}
                [] OTHER -> {}

(* When the result is settled and an element decides, the result is what   *)
(* an element says that came no later than any other that decides.         *)
Earliest(a) ==
    state[Raw(a)] # Pending =>
        \A k \in Deciding(a) : \E i \in Deciding(a) :
            /\ state[Raw(a)] = ItemState(a, i)
            /\ \A j \in Deciding(a) : SettledAt(a, i) <= SettledAt(a, j)

(* The jobs of a race are in the order its elements came in, and those of  *)
(* the elements still under way come later.                                *)
Line(a) ==
    \A m, n \in DOMAIN queue : \A i, j :
        m < n /\ queue[m].r = Reaction("race", a, i) /\ queue[n].r = Reaction("race", a, j)
            => SettledAt(a, i) <= SettledAt(a, j)

Behind(a) ==
    \A i, j \in DOMAIN aggs[a].items :
        Queued(Reaction("race", a, i)) /\ IsOpen(a, j) /\ ItemState(a, j).st # "pending"
            => SettledAt(a, i) <= SettledAt(a, j)

Ranked(a) == FromSources(a) => Earliest(a) /\ Line(a) /\ Behind(a)

LEMMA DecidingIs ==
    ASSUME NEW a
    PROVE  /\ Deciding(a) = {i \in DOMAIN aggs[a].items : ItemState(a, i).st \in Ways(aggs[a].kind)}
           /\ "pending" \notin Ways(aggs[a].kind)
<1>1. "pending" \notin Ways(aggs[a].kind)
    BY DEF Ways
<1>2. Deciding(a) = {i \in DOMAIN aggs[a].items : ItemState(a, i).st \in Ways(aggs[a].kind)}
    BY DEF Deciding, Ways
<1> QED BY <1>1, <1>2

(* When the result is settled and no element decided it, every element has *)
(* settled.                                                                *)
LEMMA Undecided ==
    ASSUME Base, NEW a \in DOMAIN aggs, Sound(a), state[Raw(a)] # Pending,
           NEW i \in DOMAIN aggs[a].items, ItemState(a, i).st = "pending",
           aggs[a].kind # "allSettled"
    PROVE  Deciding(a) # {}
<1>1. ~aggs[a].threw
    BY DEF Base, Shape, CallOK
<1>2. ASSUME NEW ok, NEW st, Full(a, ok, st) PROVE "pending" \in ok
    <2>1. "pending" \notin ok => Outcomes(a, "pending") = {}
        BY <1>2, FullOutcomes
    <2>2. Outcomes(a, "pending") # {}
        BY DEF Outcomes
    <2> QED BY <2>1, <2>2
<1>3. ASSUME NEW st, By(a, st), st \in Ways(aggs[a].kind) PROVE Deciding(a) # {}
    BY <1>3, DecidingIs DEF By
<1>4. aggs[a].kind \in AllKinds
    BY BaseTypes DEF Base, CallSet
<1>5. CASE aggs[a].kind = "all"
    BY <1>1, <1>2, <1>3, <1>5 DEF Sound, AllSound, Counting, Ways
<1>6. CASE aggs[a].kind = "any"
    BY <1>1, <1>2, <1>3, <1>6 DEF Sound, AnySound, Counting, Ways
<1>7. CASE aggs[a].kind = "race"
    BY <1>1, <1>3, <1>7 DEF Sound, RaceSound, Ways
<1> QED BY <1>4, <1>5, <1>6, <1>7 DEF AllKinds

(* The elements that decided go on to, and others join them later. *)
LEMMA DecidingStep ==
    ASSUME Base, Base', Keeps, Grown, Grow, Before, NEW a \in DOMAIN aggs, FromSources(a)
    PROVE  /\ \A i \in Deciding(a) : /\ i \in Deciding(a)' /\ ItemState(a, i)' = ItemState(a, i)
                                     /\ SettledAt(a, i)' = SettledAt(a, i)
           /\ \A i \in Deciding(a), j \in Deciding(a)' :
                 j \in Deciding(a) \/ SettledAt(a, i)' <= SettledAt(a, j)'
           /\ \A j \in Deciding(a)' : /\ j \in DOMAIN aggs[a].items /\ ItemState(a, j)'.st # "pending"
                                      /\ j \in Deciding(a) \/ ItemState(a, j).st = "pending"
<1> PICK ways : ways = Ways(aggs[a].kind)
    OBVIOUS
<1> PICK items : items = aggs[a].items
    OBVIOUS
<1>1. aggs'[a].items = items /\ aggs'[a].kind = aggs[a].kind
    BY DEF Grow
<1>2. /\ \A i : i \in Deciding(a) <=> i \in DOMAIN items /\ ItemState(a, i).st \in ways
      /\ "pending" \notin ways
    BY DecidingIs
<1>3. \A i : i \in Deciding(a)' <=> i \in DOMAIN items /\ ItemState(a, i)'.st \in ways
    BY <1>1 DEF Deciding, Ways
<1>4. ASSUME NEW i \in DOMAIN items, ItemState(a, i).st # "pending"
      PROVE  ItemState(a, i)' = ItemState(a, i) /\ SettledAt(a, i)' = SettledAt(a, i)
    <2>1. ItemState(a, i)' = ItemState(a, i)
        BY <1>1, <1>4, ItemKeeps
    <2> QED BY <1>4, <2>1, RankStep
<1>5. ASSUME NEW i \in Deciding(a)
      PROVE  /\ i \in Deciding(a)' /\ ItemState(a, i)' = ItemState(a, i)
             /\ SettledAt(a, i)' = SettledAt(a, i)
    BY <1>2, <1>3, <1>4, <1>5
<1>6. ASSUME NEW j \in Deciding(a)'
      PROVE  /\ j \in DOMAIN items /\ ItemState(a, j)'.st # "pending"
             /\ j \in Deciding(a) \/ ItemState(a, j).st = "pending"
    BY <1>2, <1>3, <1>4, <1>6
<1>7. ASSUME NEW i \in Deciding(a), NEW j \in Deciding(a)', j \notin Deciding(a)
      PROVE  SettledAt(a, i)' <= SettledAt(a, j)'
    <2> PICK n \in Nat : n = Len(order)
        BY DEF Base, Listed
    <2> PICK l \in Nat : l = Len(items)
        BY BaseTypes DEF Base
    <2>1. SettledAt(a, j)' = l + n + 1
        BY <1>6, <1>7, RankStep
    <2>2. SettledAt(a, i) \in Nat /\ SettledAt(a, i) <= l + n
        BY <1>2, <1>7, RankFacts
    <2> QED BY <1>5, <2>1, <2>2
<1> QED BY <1>5, <1>6, <1>7

LEMMA EarliestStays ==
    ASSUME Base, Base', Keeps, Grown, Grow, Before, NEW a \in DOMAIN aggs, FromSources(a),
           Sound(a), Earliest(a), state'[Raw(a)] = state[Raw(a)]
    PROVE  Earliest(a)'
<1> SUFFICES ASSUME state[Raw(a)] # Pending, NEW k \in Deciding(a)'
             PROVE  \E i \in Deciding(a)' :
                        /\ state[Raw(a)] = ItemState(a, i)'
                        /\ \A j \in Deciding(a)' : SettledAt(a, i)' <= SettledAt(a, j)'
    BY DEF Earliest
<1>1. Deciding(a) # {}
    <2>1. CASE k \in Deciding(a)
        BY <2>1
    <2>2. CASE k \notin Deciding(a)
        <3>1. k \in DOMAIN aggs[a].items /\ ItemState(a, k).st = "pending"
            BY <2>2, DecidingStep
        <3>2. aggs[a].kind # "allSettled"
            BY DEF Deciding, Grow
        <3> QED BY <3>1, <3>2, Undecided
    <2> QED BY <2>1, <2>2
<1>2. PICK i \in Deciding(a) : /\ state[Raw(a)] = ItemState(a, i)
                               /\ \A j \in Deciding(a) : SettledAt(a, i) <= SettledAt(a, j)
    BY <1>1 DEF Earliest
<1>3. i \in Deciding(a)' /\ ItemState(a, i)' = ItemState(a, i)
    BY DecidingStep
<1>4. ASSUME NEW j \in Deciding(a)' PROVE SettledAt(a, i)' <= SettledAt(a, j)'
    <2>1. CASE j \in Deciding(a)
        BY <1>2, <2>1, DecidingStep
    <2>2. CASE j \notin Deciding(a)
        BY <2>2, DecidingStep
    <2> QED BY <2>1, <2>2
<1> QED BY <1>2, <1>3, <1>4

(* A call is decided by one of the elements that came first. *)
LEMMA EarliestNow ==
    ASSUME Base, Base', Keeps, Grown, Grow, Before, NEW a \in DOMAIN aggs, FromSources(a),
           NEW i \in Deciding(a), \A j \in Deciding(a) : SettledAt(a, i) <= SettledAt(a, j),
           state'[Raw(a)] = ItemState(a, i)
    PROVE  Earliest(a)'
<1>1. i \in Deciding(a)' /\ ItemState(a, i)' = ItemState(a, i)
    BY DecidingStep
<1>2. ASSUME NEW j \in Deciding(a)' PROVE SettledAt(a, i)' <= SettledAt(a, j)'
    <2>1. CASE j \in Deciding(a)
        BY <2>1, DecidingStep
    <2>2. CASE j \notin Deciding(a)
        BY <2>2, DecidingStep
    <2> QED BY <2>1, <2>2
<1> QED BY <1>1, <1>2 DEF Earliest

(* The element comes no later than those that settled and are still open.  *)
Leads(a, i) ==
    /\ i \in DOMAIN aggs[a].items /\ ItemState(a, i).st # "pending"
    /\ \A j \in DOMAIN aggs[a].items :
          IsOpen(a, j) /\ ItemState(a, j).st # "pending" => SettledAt(a, i) <= SettledAt(a, j)

(* A reaction held by an element that settled is in the cascade. *)
LEMMA HeldFires ==
    ASSUME Base, NEW a \in DOMAIN aggs, NEW j \in DOMAIN aggs[a].items,
           ItemState(a, j).st # "pending", Held(Reaction(aggs[a].kind, a, j))
    PROVE  \E x : In(x, firing) /\ x.r = Reaction(aggs[a].kind, a, j)
<1> PICK r : r = Reaction(aggs[a].kind, a, j)
    OBVIOUS
<1>1. r.kind \in AllKinds /\ r.of = a /\ r.index = j
    BY BaseTypes DEF Reaction, Base, CallSet
<1>2. ASSUME NEW q \in Promise, In(r, reactions[q]) PROVE FALSE
    <2>1. HangsOn(r, q) /\ reactions[q] # <<>>
        BY <1>2, InEmpty DEF Base, Hang
    <2>2. aggs[a].items[j] = q
        BY <1>1, <2>1 DEF HangsOn, AllKinds
    <2>3. state[q] = Pending /\ q # Plain
        BY <2>1, SourceFacts DEF Base, Ledger
    <2> QED BY <2>2, <2>3 DEF ItemState, Pending
<1>3. InJobs(r, firing)
    BY <1>2 DEF Held
<1> QED BY <1>3 DEF InJobs, In

(* The element at the head of a cascade comes no later than the others. *)
LEMMA HeadLeads ==
    ASSUME Base, Timely, firing # <<>>, NEW b \in DOMAIN aggs, NEW i \in DOMAIN aggs[b].items,
           Element.kind \in AllKinds, b = Element.of, i = Element.index, FromSources(b)
    PROVE  Leads(b, i)
<1> PICK h : h = Head(firing)
    OBVIOUS
<1> PICK items : items = aggs[b].items
    OBVIOUS
<1>1. /\ h.r.kind \in AllKinds /\ h.r.of = b /\ h.r.index = i
      /\ ItemState(b, i).st # "pending" /\ In(h, firing)
    <2>1. ItemState(b, i) \in Settlement
        BY FireFacts
    <2>2. In(h, firing)
        BY InHeadTail DEF Base
    <2> QED BY <2>1, <2>2 DEF Element, Settlement
<1>2. Direct(h.r) /\ ItemOf(h.r) = items[i]
    BY <1>1 DEF Direct, ItemOf, FromSources
<1> PICK l \in Nat : l = Len(items) /\ DOMAIN items = 1 .. l
    BY BaseTypes DEF Base
<1> PICK at \in Nat : at = aggs[b].at
    BY BaseTypes DEF Base, CallSet
<1> PICK n \in Nat : n = aggs[b].next
    BY BaseTypes DEF Base
<1>3. i \in Nat /\ Before /\ Cascade /\ Attached /\ Shape
    BY DEF Timely, Base
<1> SUFFICES ASSUME NEW j \in DOMAIN items, IsOpen(b, j), ItemState(b, j).st # "pending"
             PROVE  SettledAt(b, i) <= SettledAt(b, j)
    BY <1>1 DEF Leads
<1>4. j \in Nat
    OBVIOUS
<1>5. Place(items[i]) \in Nat
    BY <1>1, <1>3, RankFacts
<1>6. /\ SettledAt(b, i) = IF Place(items[i]) <= at THEN i ELSE l + Place(items[i])
      /\ SettledAt(b, j) = IF Place(items[j]) <= at THEN j ELSE l + Place(items[j])
    BY RankIs
<1>7. j >= n \/ \E x : /\ In(x, firing) /\ x.r.of = b /\ x.r.index = j
                       /\ Direct(x.r) /\ ItemOf(x.r) = items[j]
    <2>1. CASE j >= n
        BY <2>1
    <2>2. CASE Held(Reaction(aggs[b].kind, b, j))
        <3>1. PICK x : In(x, firing) /\ x.r = Reaction(aggs[b].kind, b, j)
            BY <2>2, HeldFires
        <3>2. aggs[b].kind \in AllKinds
            BY BaseTypes DEF Base, CallSet
        <3>3. x.r.kind \in AllKinds /\ x.r.of = b /\ x.r.index = j
            BY <3>1, <3>2 DEF Reaction
        <3>4. Direct(x.r) /\ ItemOf(x.r) = items[j]
            BY <3>3 DEF Direct, ItemOf, FromSources
        <3> QED BY <3>1, <3>3, <3>4
    <2> QED BY <2>1, <2>2 DEF IsOpen
<1>8. CASE call = "attach"
    <2>1. b = Len(aggs) /\ i = n - 1
        BY <1>1, <1>2, <1>3, <1>8 DEF Cascade
    <2>2. \A k \in DOMAIN items : ItemState(b, k).st # "pending" => Place(items[k]) <= at
        <3> SUFFICES ASSUME NEW k \in DOMAIN items, ItemState(b, k).st # "pending"
                     PROVE  Place(items[k]) <= at
            OBVIOUS
        <3>1. CASE items[k] = Plain
            BY <3>1 DEF Place
        <3>2. CASE items[k] # Plain
            <4>1. items[k] \in Source /\ ~IsPending(items[k])
                BY <3>2 DEF FromSources, ItemState, IsPending
            <4> QED BY <1>3, <1>8, <2>1, <4>1 DEF Attached
        <3> QED BY <3>1, <3>2
    <2>3. SettledAt(b, i) = i /\ SettledAt(b, j) = j
        BY <1>1, <1>6, <2>2
    <2>4. i <= j
        <3>1. CASE j >= n
            BY <1>3, <1>4, <2>1, <3>1
        <3>2. ASSUME NEW x, In(x, firing), x.r.index = j, Direct(x.r) PROVE j = i
            BY <1>3, <1>8, <2>1, <3>2 DEF Cascade
        <3> QED BY <1>3, <1>7, <3>1, <3>2
    <2> QED BY <2>3, <2>4
<1>9. CASE call = "none"
    <2>1. n = l + 1
        BY <1>3, <1>9 DEF Shape, CallOK
    <2>2. ~(j >= n)
        BY <1>4, <2>1
    <2>3. items[j] = items[i] /\ at < Place(items[i])
        BY <1>1, <1>2, <1>3, <1>7, <1>9, <2>2 DEF Cascade
    <2>4. SettledAt(b, i) = l + Place(items[i]) /\ SettledAt(b, j) = l + Place(items[i])
        <3>1. ~(Place(items[i]) <= at)
            BY <1>5, <2>3
        <3> QED BY <1>6, <2>3, <3>1
    <2> QED BY <1>5, <2>4
<1> QED BY <1>3, <1>8, <1>9 DEF Shape

(* A job of a race in the queue belongs to an element that settled. *)
LEMMA QueueElement ==
    ASSUME Base, NEW a \in DOMAIN aggs, NEW i, Queued(Reaction("race", a, i))
    PROVE  i \in DOMAIN aggs[a].items /\ ItemState(a, i).st # "pending"
<1> PICK r : r = Reaction("race", a, i)
    OBVIOUS
<1>1. r.kind = "race" /\ r.of = a /\ r.index = i
    BY DEF Reaction
<1>2. PICK q \in Item : HangsOn(r, q) /\ StateOf(q).st # "pending"
    BY InJobsHang DEF Queued
<1>3. i \in DOMAIN aggs[a].items /\ aggs[a].items[i] = q
    BY <1>1, <1>2 DEF HangsOn, AllKinds
<1> QED BY <1>2, <1>3 DEF StateOf, ItemState

LEMMA QueuedLeads ==
    ASSUME Base, NEW a \in DOMAIN aggs, NEW i, Behind(a), Queued(Reaction("race", a, i))
    PROVE  Leads(a, i)
BY QueueElement DEF Leads, Behind

LEMMA BehindStep ==
    ASSUME Base, Base', Keeps, Grown, Grow, Before, NEW a \in DOMAIN aggs, FromSources(a),
           \A j \in DOMAIN aggs[a].items : IsOpen(a, j)' => IsOpen(a, j),
           \A i : Queued(Reaction("race", a, i))' => Leads(a, i)
    PROVE  Behind(a)'
<1> PICK items : items = aggs[a].items
    OBVIOUS
<1>1. aggs'[a].items = items
    BY DEF Grow
<1> SUFFICES ASSUME NEW i \in DOMAIN items, NEW j \in DOMAIN items,
                    Queued(Reaction("race", a, i))', IsOpen(a, j)', ItemState(a, j)'.st # "pending"
             PROVE  SettledAt(a, i)' <= SettledAt(a, j)'
    BY <1>1 DEF Behind
<1>2. Leads(a, i) /\ IsOpen(a, j)
    OBVIOUS
<1>3. ItemState(a, i).st # "pending"
    BY <1>2 DEF Leads
<1>4. SettledAt(a, i)' = SettledAt(a, i)
    <2>1. ItemState(a, i)' = ItemState(a, i)
        BY <1>1, <1>3, ItemKeeps
    <2> QED BY <1>3, <2>1, RankStep
<1>5. CASE ItemState(a, j).st # "pending"
    <2>1. SettledAt(a, j)' = SettledAt(a, j)
        BY <1>5, RankStep
    <2> QED BY <1>2, <1>4, <1>5, <2>1 DEF Leads
<1>6. CASE ItemState(a, j).st = "pending"
    <2> PICK n \in Nat : n = Len(order)
        BY DEF Base, Listed
    <2> PICK l \in Nat : l = Len(items)
        BY BaseTypes DEF Base
    <2>1. SettledAt(a, j)' = l + n + 1
        BY <1>6, RankStep
    <2>2. SettledAt(a, i) \in Nat /\ SettledAt(a, i) <= l + n
        BY <1>3, RankFacts
    <2> QED BY <1>4, <2>1, <2>2
<1> QED BY <1>5, <1>6

(* The ranks of what is in the queue stay. *)
LEMMA QueueRank ==
    ASSUME Base, Base', Keeps, Grown, Grow, Before, NEW a \in DOMAIN aggs, FromSources(a),
           NEW i, Queued(Reaction("race", a, i))
    PROVE  SettledAt(a, i)' = SettledAt(a, i)
<1>1. i \in DOMAIN aggs[a].items /\ ItemState(a, i).st # "pending"
    BY QueueElement
<1>2. ItemState(a, i)' = ItemState(a, i)
    BY <1>1, ItemKeeps DEF Grow
<1> QED BY <1>1, <1>2, RankStep

LEMMA LineStays ==
    ASSUME Base, Base', Keeps, Grown, Grow, Before, NEW a \in DOMAIN aggs, FromSources(a),
           Line(a), queue' = queue \/ (queue # <<>> /\ queue' = Tail(queue))
    PROVE  Line(a)'
<1>1. PICK k \in Nat : k = Len(queue) /\ DOMAIN queue = 1 .. k
    BY DEF Base
<1>2. PICK d \in {0, 1} : \A m \in DOMAIN queue' : m \in Nat /\ m + d \in DOMAIN queue
                                                   /\ queue'[m] = queue[m + d]
    <2>1. CASE queue' = queue
        BY <1>1, <2>1
    <2>2. CASE queue # <<>> /\ queue' = Tail(queue)
        <3>1. queue \in Seq(JobSet)
            BY DEF Base
        <3>2. DOMAIN queue' = 1 .. k - 1 /\ \A m \in 1 .. k - 1 : queue'[m] = queue[m + 1]
            BY <1>1, <2>2, <3>1
        <3> QED BY <1>1, <3>2
    <2> QED BY <2>1, <2>2
<1> SUFFICES ASSUME NEW m \in DOMAIN queue', NEW n \in DOMAIN queue', NEW i, NEW j, m < n,
                    queue'[m].r = Reaction("race", a, i), queue'[n].r = Reaction("race", a, j)
             PROVE  SettledAt(a, i)' <= SettledAt(a, j)'
    BY DEF Line, Reaction
<1> PICK m1 \in DOMAIN queue : m1 = m + d /\ queue[m1] = queue'[m]
    BY <1>2
<1> PICK n1 \in DOMAIN queue : n1 = n + d /\ queue[n1] = queue'[n]
    BY <1>2
<1>3. m1 < n1
    BY <1>2
<1>4. queue[m1].r = Reaction("race", a, i) /\ queue[n1].r = Reaction("race", a, j)
    OBVIOUS
<1>5. SettledAt(a, i) <= SettledAt(a, j)
    BY <1>3, <1>4 DEF Line
<1>6. Queued(Reaction("race", a, i)) /\ Queued(Reaction("race", a, j))
    BY <1>4 DEF Queued, InJobs
<1> QED BY <1>5, <1>6, QueueRank

LEMMA LineAppend ==
    ASSUME Base, Base', Keeps, Grown, Grow, Before, NEW a \in DOMAIN aggs, FromSources(a),
           Line(a), Behind(a), NEW job \in JobSet, queue' = Append(queue, job),
           \A i : job.r = Reaction("race", a, i) => IsOpen(a, i) /\ Leads(a, i)
    PROVE  Line(a)'
<1>1. PICK k \in Nat : k = Len(queue) /\ DOMAIN queue = 1 .. k
    BY DEF Base
<1>2. queue \in Seq(JobSet)
    BY DEF Base
<1>3. /\ DOMAIN queue' = 1 .. k + 1 /\ queue'[k + 1] = job
      /\ \A m \in 1 .. k : queue'[m] = queue[m]
    BY <1>1, <1>2
<1> SUFFICES ASSUME NEW m \in DOMAIN queue', NEW n \in DOMAIN queue', NEW i, NEW j, m < n,
                    queue'[m].r = Reaction("race", a, i), queue'[n].r = Reaction("race", a, j)
             PROVE  SettledAt(a, i)' <= SettledAt(a, j)'
    BY DEF Line, Reaction
<1>4. m \in DOMAIN queue /\ queue[m].r = Reaction("race", a, i)
    BY <1>1, <1>3
<1>5. Queued(Reaction("race", a, i))
    BY <1>4 DEF Queued, InJobs
<1>6. SettledAt(a, i)' = SettledAt(a, i)
    BY <1>5, QueueRank
<1>7. CASE n \in 1 .. k
    <2>1. n \in DOMAIN queue /\ queue[n].r = Reaction("race", a, j)
        BY <1>1, <1>3, <1>7
    <2>2. Queued(Reaction("race", a, j))
        BY <2>1 DEF Queued, InJobs
    <2>3. SettledAt(a, i) <= SettledAt(a, j)
        BY <1>4, <2>1 DEF Line
    <2> QED BY <1>6, <2>2, <2>3, QueueRank
<1>8. CASE n = k + 1
    <2>1. IsOpen(a, j) /\ Leads(a, j)
        BY <1>3, <1>8
    <2>2. i \in DOMAIN aggs[a].items
        BY <1>5, QueueElement
    <2>3. j \in DOMAIN aggs[a].items /\ ItemState(a, j).st # "pending"
        BY <2>1 DEF Leads
    <2>4. SettledAt(a, i) <= SettledAt(a, j)
        BY <1>5, <2>1, <2>2, <2>3 DEF Behind
    <2>5. SettledAt(a, j)' = SettledAt(a, j)
        <3>1. ItemState(a, j)' = ItemState(a, j)
            BY <2>3, ItemKeeps DEF Grow
        <3> QED BY <2>3, <3>1, RankStep
    <2> QED BY <1>6, <2>4, <2>5
<1> QED BY <1>3, <1>7, <1>8

RankedInv == \A a \in DOMAIN aggs : Ranked(a)

Lasting == Whole /\ Timely /\ RankedInv

(* What every step keeps, or proves beside *)
Kind == Base /\ Base' /\ Keeps /\ Grown /\ Grow /\ Before

LEMMA NextKind ==
    ASSUME Lasting, [Next]_vars
    PROVE  Kind /\ Timely' /\ Whole'
<1>1. Base /\ Timely /\ Whole /\ Before
    BY DEF Lasting, Whole, Tokens, Timely
<1> QED BY <1>1, NextBase, NextTimely, NextWhole DEF Kind

(* No step opens an element, when it triggers none but of the call that    *)
(* comes to it.                                                            *)
Shrinks ==
    \A r : r.kind \in AllKinds /\ Held(r)' =>
              Held(r) \/ (r.of \in DOMAIN aggs /\ r.index >= aggs[r.of].next)

LEMMA OpensShrink ==
    ASSUME Kind, Shrinks, NEW a \in DOMAIN aggs, NEW j \in DOMAIN aggs[a].items, IsOpen(a, j)'
    PROVE  IsOpen(a, j)
<1> PICK k \in AllKinds : k = aggs[a].kind /\ aggs'[a].kind = k
    BY BaseTypes DEF Kind, Base, CallSet, Grow
<1> PICK r : r = Reaction(k, a, j)
    OBVIOUS
<1>1. j \in Nat /\ aggs[a].next \in Nat /\ aggs'[a].next \in Nat /\ aggs[a].next <= aggs'[a].next
    <2>1. aggs \in Seq(CallSet) /\ aggs' \in Seq(CallSet) /\ a \in DOMAIN aggs'
        BY DEF Kind, Base, Shape, Grow
    <2>2. aggs[a] \in CallSet /\ aggs'[a] \in CallSet
        BY <2>1, Member
    <2>3. aggs[a].next \in Nat /\ aggs'[a].next \in Nat
        BY <2>2 DEF CallSet
    <2>4. j \in Nat
        BY BaseTypes DEF Kind, Base
    <2> QED BY <2>3, <2>4 DEF Kind, Grow
<1>2. r.kind \in AllKinds /\ r.of = a /\ r.index = j
    BY DEF Reaction
<1>3. CASE j >= aggs'[a].next
    BY <1>1, <1>3 DEF IsOpen
<1>4. CASE Held(r)'
    BY <1>2, <1>4 DEF Shrinks, IsOpen
<1>5. IsOpen(a, j)' <=> j >= aggs'[a].next \/ Held(r)'
    BY DEF IsOpen, Reaction
<1> QED BY <1>3, <1>4, <1>5

(* A step that queues no element, and settles the result of a call in order *)
LEMMA RankedRest ==
    ASSUME Lasting, Kind, Shrinks,
           \A a \in DOMAIN aggs : \/ state'[Raw(a)] = state[Raw(a)]
                                  \/ FromSources(a) => Earliest(a)',
           \A r : r.kind \in AllKinds => (Queued(r)' => Queued(r)),
           queue' = queue \/ (queue # <<>> /\ queue' = Tail(queue)),
           \A a \in DOMAIN aggs' : a \in DOMAIN aggs \/ Ranked(a)'
    PROVE  RankedInv'
<1> SUFFICES ASSUME NEW a \in DOMAIN aggs PROVE Ranked(a)'
    BY DEF RankedInv
<1>1. Base /\ Base' /\ Keeps /\ Grown /\ Grow /\ Before
    BY DEF Kind
<1> SUFFICES ASSUME FromSources(a) PROVE Earliest(a)' /\ Line(a)' /\ Behind(a)'
    BY <1>1 DEF Ranked, FromSources, Grow
<1>2. Earliest(a) /\ Line(a) /\ Behind(a) /\ Sound(a)
    BY DEF Lasting, Whole, SoundInv, RankedInv, Ranked
<1>3. Earliest(a)'
    BY <1>1, <1>2, EarliestStays
<1>4. Line(a)'
    BY <1>1, <1>2, LineStays
<1>5. Behind(a)'
    <2>1. \A i : Reaction("race", a, i).kind \in AllKinds
        BY DEF Reaction, AllKinds
    <2>2. \A i : Queued(Reaction("race", a, i))' => Queued(Reaction("race", a, i))
        <3> SUFFICES ASSUME NEW i, Queued(Reaction("race", a, i))'
                     PROVE  Queued(Reaction("race", a, i))
            OBVIOUS
        <3> PICK r : r = Reaction("race", a, i)
            OBVIOUS
        <3>1. Queued(r)' /\ r.kind \in AllKinds
            BY <2>1 DEF Reaction
        <3> QED BY <3>1
    <2>3. \A i : Queued(Reaction("race", a, i))' => Leads(a, i)
        BY <1>1, <1>2, <2>2, QueuedLeads
    <2> QED BY <1>1, <2>3, OpensShrink, BehindStep
<1> QED BY <1>3, <1>4, <1>5

(* A new call: it has no job yet, and its result is pending or it has no   *)
(* elements.                                                               *)
LEMMA NewRanked ==
    ASSUME Lasting, Kind, AllStay, UNCHANGED queue, NEW agg \in CallSet,
           aggs' = Append(aggs, agg), NEW n, n = Len(aggs) + 1,
           \A q \in Promise : q # Raw(n) => state'[q] = state[q],
           state'[Raw(n)] = Pending \/ agg.items = <<>>
    PROVE  RankedInv'
<1>1. PICK l \in Nat : l = Len(aggs) /\ DOMAIN aggs = 1 .. l /\ aggs \in Seq(CallSet)
    BY BaseTypes DEF Kind, Base, Shape
<1>2. /\ DOMAIN aggs' = 1 .. n /\ aggs'[n] = agg
      /\ \A a \in DOMAIN aggs' : a \in DOMAIN aggs \/ a = n
    BY <1>1
<1>3. n \notin DOMAIN aggs
    BY <1>1
<1>4. \A a \in DOMAIN aggs : Raw(a) # Raw(n) /\ Raw(a) \in Promise
    <2>1. Sources \in Nat
        BY CombinatorAssumption
    <2>2. \A a \in DOMAIN aggs : Raw(a) \in Promise
        BY SourceFacts DEF Kind
    <2> QED BY <1>1, <2>1, <2>2 DEF Raw
<1>5. \A a \in DOMAIN aggs : state'[Raw(a)] = state[Raw(a)]
    BY <1>4
<1>6. \A i : ~Queued(Reaction("race", n, i))
    <2> SUFFICES ASSUME NEW i, Queued(Reaction("race", n, i)) PROVE FALSE
        OBVIOUS
    <2> PICK r : r = Reaction("race", n, i)
        OBVIOUS
    <2>1. r.kind = "race" /\ r.of = n
        BY DEF Reaction
    <2>2. \E q \in Item : HangsOn(r, q)
        BY InJobsHang DEF Queued, Kind
    <2> QED BY <1>3, <2>1, <2>2 DEF HangsOn
<1>7. \A i, m : m \in DOMAIN queue => queue[m].r # Reaction("race", n, i)
    BY <1>6 DEF Queued, InJobs
<1>8. Line(n)'
    BY <1>7 DEF Line, Reaction
<1>9. Behind(n)'
    <2>1. \A i : ~Queued(Reaction("race", n, i))'
        BY <1>7 DEF Queued, InJobs, Reaction
    <2> QED BY <2>1 DEF Behind
<1>10. Earliest(n)'
    BY <1>2 DEF Earliest, Deciding
<1>11. Shrinks
    BY DEF AllStay, Stays, Shrinks, AllKinds
<1>12. \A r : r.kind \in AllKinds => (Queued(r)' => Queued(r))
    BY DEF AllStay, Stays, AllKinds
<1>13. \A a \in DOMAIN aggs' : a \in DOMAIN aggs \/ Ranked(a)'
    BY <1>2, <1>8, <1>9, <1>10 DEF Ranked
<1> QED BY <1>5, <1>11, <1>12, <1>13, RankedRest

(* As long as a call counts, none of the elements that count decides it,   *)
(* and the one at the head of the cascade that does is the first.          *)
LEMMA DecideEarliest ==
    ASSUME Kind, NEW b \in DOMAIN aggs, FromSources(b), NEW ok, Counting(b, ok),
           NEW i, Leads(b, i), ItemState(b, i).st \in Ways(aggs[b].kind),
           \A st \in Ways(aggs[b].kind) : st \notin ok,
           state'[Raw(b)] = ItemState(b, i)
    PROVE  Earliest(b)'
<1> PICK ways : ways = Ways(aggs[b].kind)
    OBVIOUS
<1>1. /\ Deciding(b) = {j \in DOMAIN aggs[b].items : ItemState(b, j).st \in ways}
      /\ "pending" \notin ways
    BY DecidingIs
<1>2. i \in Deciding(b)
    BY <1>1 DEF Leads
<1>3. ASSUME NEW j \in Deciding(b) PROVE SettledAt(b, i) <= SettledAt(b, j)
    <2>1. j \in DOMAIN aggs[b].items /\ ItemState(b, j).st \in ways
        BY <1>1
    <2>2. IsOpen(b, j)
        BY <2>1 DEF Counting, Kept
    <2> QED BY <1>1, <2>1, <2>2 DEF Leads
<1> QED BY <1>2, <1>3, EarliestNow DEF Kind

(* A full count settles a call that no element decided. *)
LEMMA FullEarliest ==
    ASSUME NEW b, NEW kind, aggs'[b].kind = kind, NEW ok, NEW st, Full(b, ok, st)',
           \A way \in Ways(kind) : way \notin ok
    PROVE  Earliest(b)'
<1>1. \A j \in DOMAIN aggs'[b].items : ItemState(b, j)'.st \in ok
    BY DEF Full, Open, Kept
<1>2. Deciding(b)' = {j \in DOMAIN aggs'[b].items : ItemState(b, j)'.st \in Ways(kind)}
    BY DEF Deciding, Ways
<1>3. Deciding(b)' = {}
    BY <1>1, <1>2
<1> QED BY <1>3 DEF Earliest

LEMMA AllEarliest ==
    ASSUME Lasting, Kind, Whole', AllElement, UNCHANGED <<queue, call, caps, running, listened>>,
           NEW b \in DOMAIN aggs, NEW i \in DOMAIN aggs[b].items,
           b = Element.of, i = Element.index, aggs[b].kind = "all", aggs'[b].kind = "all",
           NEW o \in Settlement, o = Outcome, o = ItemState(b, i), Leads(b, i), Takes(b, i),
           FromSources(b), state'[Raw(b)] # state[Raw(b)]
    PROVE  Earliest(b)'
<1>1. Base /\ Sound(b) /\ Raw(b) \in Promise /\ Target = Raw(b)
    BY BaseTypes DEF Kind, Lasting, Whole, SoundInv, Base, Target
<1>2. AllSound(b) /\ ~aggs[b].threw /\ \A ok, st : ~Full(b, ok, st)
    BY <1>1, OpenCall DEF Takes, Sound
<1>3. ~aggs[b].settled
    BY DEF AllElement, Agg, Skip, promises
<1>4. Counting(b, {"fulfilled"})
    BY <1>2, <1>3 DEF AllSound
<1>5. Ways("all") = {"rejected"}
    BY DEF Ways
<1>6. CASE o.st = "rejected"
    <2>1. Settle(Raw(b), o, Tail(firing))
        BY <1>1, <1>3, <1>6 DEF AllElement, Agg
    <2>2. state'[Raw(b)] = o
        BY <1>1, <2>1, SettleState
    <2> QED BY <1>4, <1>5, <1>6, <2>2, DecideEarliest
<1>7. CASE o.st = "fulfilled"
    <2>1. state' = state \/ \E v : Settle(Raw(b), Fulfilled(v), Tail(firing))
        BY <1>1, <1>3, <1>7 DEF AllElement, Skip, promises
    <2>2. state'[Raw(b)].st = "fulfilled" /\ state'[Raw(b)] # Pending
        <3>1. PICK v : Settle(Raw(b), Fulfilled(v), Tail(firing))
            BY <2>1
        <3>2. state'[Raw(b)] = Fulfilled(v)
            BY <1>1, <3>1, SettleState
        <3> QED BY <3>2 DEF Fulfilled, Pending
    <2>3. b \in DOMAIN aggs' /\ ~aggs'[b].threw
        BY <1>2 DEF Kind, Grow
    <2>4. AllSound(b)'
        BY <2>3 DEF Whole, SoundInv, Sound
    <2>5. ~By(b, "rejected")'
        BY <2>2 DEF By
    <2>6. Full(b, {"fulfilled"}, "fulfilled")'
        BY <2>2, <2>4, <2>5 DEF AllSound, Counting
    <2> QED BY <1>5, <2>6, FullEarliest
<1> QED BY <1>6, <1>7, SettlementTypes

LEMMA AnyEarliest ==
    ASSUME Lasting, Kind, Whole', AnyElement, UNCHANGED <<queue, call, caps, running, listened>>,
           NEW b \in DOMAIN aggs, NEW i \in DOMAIN aggs[b].items,
           b = Element.of, i = Element.index, aggs[b].kind = "any", aggs'[b].kind = "any",
           NEW o \in Settlement, o = Outcome, o = ItemState(b, i), Leads(b, i), Takes(b, i),
           FromSources(b), state'[Raw(b)] # state[Raw(b)]
    PROVE  Earliest(b)'
<1>1. Base /\ Sound(b) /\ Raw(b) \in Promise /\ Target = Raw(b)
    BY BaseTypes DEF Kind, Lasting, Whole, SoundInv, Base, Target
<1>2. AnySound(b) /\ ~aggs[b].threw /\ \A ok, st : ~Full(b, ok, st)
    BY <1>1, OpenCall DEF Takes, Sound
<1>3. IsPending(Raw(b))
    <2>1. state' = state \/ \E s : Settle(Raw(b), s, Tail(firing))
        BY <1>1 DEF AnyElement, Skip, promises
    <2> QED BY <1>1, <2>1, SettleState
<1>4. Counting(b, {"rejected"})
    BY <1>2, <1>3 DEF AnySound, By, IsPending
<1>5. Ways("any") = {"fulfilled"}
    BY DEF Ways
<1>6. CASE o.st = "fulfilled"
    <2>1. Settle(Raw(b), o, Tail(firing))
        BY <1>1, <1>6 DEF AnyElement
    <2>2. state'[Raw(b)] = o
        BY <1>1, <1>3, <2>1, SettleState
    <2> QED BY <1>4, <1>5, <1>6, <2>2, DecideEarliest
<1>7. CASE o.st = "rejected"
    <2>1. state' = state \/ \E v : Settle(Raw(b), Rejected(v), Tail(firing))
        BY <1>1, <1>3, <1>7 DEF AnyElement, Skip, promises
    <2>2. state'[Raw(b)].st = "rejected" /\ state'[Raw(b)] # Pending
        <3>1. PICK v : Settle(Raw(b), Rejected(v), Tail(firing))
            BY <2>1
        <3>2. state'[Raw(b)] = Rejected(v)
            BY <1>1, <1>3, <3>1, SettleState
        <3> QED BY <3>2 DEF Rejected, Pending
    <2>3. b \in DOMAIN aggs' /\ ~aggs'[b].threw
        BY <1>2 DEF Kind, Grow
    <2>4. AnySound(b)'
        BY <2>3 DEF Whole, SoundInv, Sound
    <2>5. ~By(b, "fulfilled")'
        BY <2>2 DEF By
    <2>6. Full(b, {"rejected"}, "rejected")'
        BY <2>2, <2>4, <2>5 DEF AnySound, Counting
    <2> QED BY <1>5, <2>6, FullEarliest
<1> QED BY <1>6, <1>7, SettlementTypes

LEMMA ElementRanked ==
    ASSUME Lasting, Kind, Whole', AllElement \/ AnyElement \/ AllSettledElement,
           UNCHANGED <<queue, call, caps, running, listened>>
    PROVE  RankedInv'
<1>1. Tokens /\ Base /\ Timely
    BY DEF Lasting, Whole, Kind
<1>2. firing # <<>> /\ Element.kind \in AllKinds /\ Element.kind # "race"
    BY DEF AllElement, AnyElement, AllSettledElement, Fires, AllKinds
<1>3. PICK b \in DOMAIN aggs : \E i \in DOMAIN aggs[b].items :
              /\ b = Element.of /\ i = Element.index /\ aggs[b].kind = Element.kind
              /\ Outcome \in Settlement /\ Outcome = ItemState(b, i)
              /\ Takes(b, i)
              /\ aggs'[b].kind = aggs[b].kind /\ aggs'[b].items = aggs[b].items
              /\ aggs'[b].threw = aggs[b].threw
              /\ \A a \in DOMAIN aggs : a # b => Same(a)
    BY <1>1, ElementOpens
<1>4. PICK i \in DOMAIN aggs[b].items :
              /\ i = Element.index /\ Outcome \in Settlement /\ Outcome = ItemState(b, i)
              /\ Takes(b, i)
    BY <1>3
<1>5. PICK r : r = Element /\ OthersStay(r) /\ ~Held(r)'
    BY <1>1, ElementTokens
<1>6. Shrinks
    <2> SUFFICES ASSUME NEW x, x.kind \in AllKinds, Held(x)' PROVE Held(x)
        BY DEF Shrinks
    <2>1. x # r /\ x.kind # "user"
        BY <1>5 DEF AllKinds
    <2> QED BY <1>5, <2>1 DEF OthersStay, Stays
<1>7. \A x : x.kind \in AllKinds => (Queued(x)' => Queued(x))
    BY DEF Queued, InJobs
<1>8. ASSUME FromSources(b), state'[Raw(b)] # state[Raw(b)] PROVE Earliest(b)'
    <2>1. Leads(b, i)
        BY <1>1, <1>2, <1>3, <1>4, <1>8, HeadLeads
    <2> PICK o \in Settlement : o = Outcome /\ o = ItemState(b, i)
        BY <1>4
    <2>2. CASE AllElement
        <3>1. aggs[b].kind = "all" /\ aggs'[b].kind = "all"
            BY <1>3, <2>2 DEF AllElement, Fires
        <3> QED BY <1>3, <1>4, <1>8, <2>1, <2>2, <3>1, AllEarliest
    <2>3. CASE AnyElement
        <3>1. aggs[b].kind = "any" /\ aggs'[b].kind = "any"
            BY <1>3, <2>3 DEF AnyElement, Fires
        <3> QED BY <1>3, <1>4, <1>8, <2>1, <2>3, <3>1, AnyEarliest
    <2>4. CASE AllSettledElement
        <3>1. aggs'[b].kind = "allSettled"
            BY <1>3, <2>4 DEF AllSettledElement, Fires
        <3> QED BY <3>1 DEF Earliest, Deciding
    <2> QED BY <2>2, <2>3, <2>4
<1>9. \A a \in DOMAIN aggs : \/ state'[Raw(a)] = state[Raw(a)]
                             \/ FromSources(a) => Earliest(a)'
    BY <1>3, <1>8 DEF Same
<1>10. DOMAIN aggs' = DOMAIN aggs
    <2>1. Counts
        BY <1>1, AllBase, AnyBase, AllSettledBase
    <2>2. aggs \in Seq(CallSet) /\ aggs' \in Seq(CallSet)
        BY DEF Kind, Base, Shape
    <2> QED BY <2>1, <2>2 DEF Counts
<1> QED BY <1>6, <1>7, <1>9, <1>10, RankedRest

(* The job at the head of the queue is that of the first element of its    *)
(* race: no cascade is under way, so every element that settled has a job. *)
LEMMA RunRaceRanked ==
    ASSUME Lasting, Kind, RunRace
    PROVE  RankedInv'
<1>1. Tokens /\ Base /\ SoundInv /\ RankedInv
    BY DEF Lasting, Whole, Kind
<1>2. NextJob("race") /\ UNCHANGED aggs
    BY DEF RunRace
<1>3. PICK r : r = Head(queue).r /\ OthersStay(r) /\ ~Held(r) /\ ~Held(r)' /\ ~Queued(r)'
    BY <1>1, RunRaceTokens
<1> PICK s : s = Head(queue).s
    OBVIOUS
<1>4. PICK b \in DOMAIN aggs : \E i \in DOMAIN aggs[b].items :
              /\ b = Head(queue).r.of /\ i = Head(queue).r.index
              /\ aggs[b].kind = "race" /\ i < aggs[b].next
              /\ s \in Settlement /\ s = ItemState(b, i)
              /\ Raw(b) \in Promise /\ Raw(b) <= Sources + Len(aggs)
    BY <1>1, <1>2, RaceFacts
<1>5. PICK i \in DOMAIN aggs[b].items : i = Head(queue).r.index /\ s = ItemState(b, i)
    BY <1>4
<1>6. Settle(Raw(b), s, <<>>)
    BY <1>4 DEF RunRace
<1>7. /\ \A q \in Promise : q # Raw(b) => state'[q] = state[q]
      /\ state'[Raw(b)] = IF IsPending(Raw(b)) THEN s ELSE state[Raw(b)]
    BY <1>1, <1>4, <1>6, SettleState
<1>8. ASSUME NEW a \in DOMAIN aggs, a # b PROVE state'[Raw(a)] = state[Raw(a)]
    <2>1. Raw(a) # Raw(b) /\ Raw(a) \in Promise
        BY <1>1, <1>8, RawUnique, BaseTypes DEF Base
    <2> QED BY <1>7, <2>1
<1>9. queue \in Seq(JobSet) /\ queue # <<>> /\ queue' = Tail(queue)
    BY <1>1, <1>2 DEF NextJob, Base
<1>10. r = Reaction("race", b, i)
    <2>1. Head(queue) \in JobSet /\ Head(queue).r.kind = "race"
        BY <1>1, <1>2, NextJobFacts DEF NextJob
    <2>2. r \in ReactionSet
        BY <1>3, <2>1 DEF JobSet
    <2> QED BY <1>3, <1>4, <1>5, <2>1, <2>2 DEF Reaction, ReactionSet
<1>11. Shrinks
    <2> SUFFICES ASSUME NEW x, x.kind \in AllKinds, Held(x)' PROVE Held(x)
        BY DEF Shrinks
    <2>1. x # r /\ x.kind # "user"
        BY <1>3 DEF AllKinds
    <2> QED BY <1>3, <2>1 DEF OthersStay, Stays
<1>12. ASSUME NEW x, x.kind \in AllKinds, Queued(x)' PROVE Queued(x)
    <2>1. x # r /\ x.kind # "user"
        BY <1>3, <1>12 DEF AllKinds
    <2> QED BY <1>3, <1>12, <2>1 DEF OthersStay, Stays
<1>13. ASSUME FromSources(b), state'[Raw(b)] # state[Raw(b)] PROVE Earliest(b)'
    <2>1. IsPending(Raw(b)) /\ state'[Raw(b)] = ItemState(b, i)
        BY <1>5, <1>7, <1>13
    <2>2. ~aggs[b].threw
        BY <1>1 DEF Base, Shape, CallOK
    <2>3. Complete(b)
        BY <1>1, <1>2, <2>2, NextJobFacts DEF Complete
    <2>4. \A j \in DOMAIN aggs[b].items : ~IsOpen(b, j) => Queued(Reaction("race", b, j))
        <3>1. RaceSound(b)
            BY <1>1, <1>4, <2>2 DEF SoundInv, Sound
        <3>2. ~By(b, "fulfilled") /\ ~By(b, "rejected")
            BY <2>1 DEF By, IsPending
        <3> QED BY <3>1, <3>2 DEF RaceSound
    <2> PICK ways : ways = Ways(aggs[b].kind)
        OBVIOUS
    <2>5. /\ Deciding(b) = {j \in DOMAIN aggs[b].items : ItemState(b, j).st \in ways}
          /\ ways = {"fulfilled", "rejected"}
        BY <1>4, DecidingIs DEF Ways
    <2>6. i \in Deciding(b)
        BY <1>4, <1>5, <2>5, SettlementTypes
    <2>7. ASSUME NEW j \in Deciding(b) PROVE SettledAt(b, i) <= SettledAt(b, j)
        <3>1. j \in DOMAIN aggs[b].items /\ ItemState(b, j).st # "pending"
            BY <2>5
        <3>2. ~IsOpen(b, j)
            BY <1>1, <2>3, <3>1, OpenPending DEF Pending
        <3>3. PICK m \in DOMAIN queue : queue[m].r = Reaction("race", b, j)
            BY <2>4, <3>1, <3>2 DEF Queued, InJobs
        <3>4. Line(b)
            BY <1>1, <1>13 DEF RankedInv, Ranked
        <3>5. 1 \in DOMAIN queue /\ queue[1].r = Reaction("race", b, i) /\ m \in Nat /\ m >= 1
            BY <1>3, <1>9, <1>10
        <3>6. CASE m = 1
            <4>1. i = j
                BY <3>3, <3>5, <3>6 DEF Reaction
            <4>2. SettledAt(b, i) \in Nat
                BY <1>1, <1>13, <3>1, <4>1, RankFacts DEF Kind
            <4> QED BY <4>1, <4>2
        <3>7. CASE m # 1
            <4>1. 1 < m
                BY <3>5, <3>7
            <4> QED BY <3>3, <3>4, <3>5, <4>1 DEF Line
        <3> QED BY <3>6, <3>7
    <2> QED BY <1>13, <2>1, <2>6, <2>7, EarliestNow DEF Kind
<1>14. \A a \in DOMAIN aggs : \/ state'[Raw(a)] = state[Raw(a)]
                              \/ FromSources(a) => Earliest(a)'
    BY <1>8, <1>13
<1> QED BY <1>2, <1>9, <1>11, <1>12, <1>14, RankedRest

(* The steps that touch no call *)
LEMMA QuietRanked ==
    ASSUME Lasting, Kind, UNCHANGED aggs, \A r : r.kind \in AllKinds => Stays(r),
           UNCHANGED state \/ \E p \in Source : \E s, rest : Settle(p, s, rest),
           queue' = queue \/ (queue # <<>> /\ queue' = Tail(queue))
    PROVE  RankedInv'
<1>1. Shrinks
    BY DEF Stays, Shrinks
<1>2. \A r : r.kind \in AllKinds => (Queued(r)' => Queued(r))
    BY DEF Stays
<1>3. ASSUME NEW a \in DOMAIN aggs PROVE state'[Raw(a)] = state[Raw(a)]
    <2>1. Base /\ Raw(a) \in Promise /\ Raw(a) \notin Source
        BY SourceFacts DEF Kind
    <2> QED BY <2>1, SourceFacts, SettleState
<1>4. \A a \in DOMAIN aggs' : a \in DOMAIN aggs \/ Ranked(a)'
    OBVIOUS
<1> QED BY <1>1, <1>2, <1>3, <1>4, RankedRest

LEMMA AttachNextRanked ==
    ASSUME Lasting, Kind, AttachNext
    PROVE  RankedInv'
<1>1. Base /\ Once /\ Keeps /\ Passed(Len(aggs)) /\ Attaching
    BY AttachNextBase DEF Lasting, Whole, Tokens, AttachNext
<1>2. PICK b \in DOMAIN aggs : b = Len(aggs)
    BY <1>1, AttachingFacts
<1> PICK n \in Nat : n = aggs[b].next
    BY <1>1, BaseTypes DEF Base
<1> PICK r : r = NextElement
    OBVIOUS
<1>3. OthersStay(r)
    BY <1>1, AttachMoves
<1>4. r.of = b /\ r.index = n
    BY <1>2 DEF NextElement, Reaction
<1>5. state' = state /\ queue' = queue
    BY DEF AttachNext, Attach, promises
<1>6. Shrinks
    <2> SUFFICES ASSUME NEW x, x.kind \in AllKinds, Held(x)'
                 PROVE  Held(x) \/ (x.of \in DOMAIN aggs /\ x.index >= aggs[x.of].next)
        BY DEF Shrinks
    <2>1. CASE x = r
        <3>1. n >= n
            OBVIOUS
        <3> QED BY <1>4, <2>1, <3>1
    <2>2. CASE x # r
        <3>1. x.kind # "user"
            BY DEF AllKinds
        <3> QED BY <1>3, <2>2, <3>1 DEF OthersStay, Stays
    <2> QED BY <2>1, <2>2
<1>7. \A x : x.kind \in AllKinds => (Queued(x)' => Queued(x))
    BY <1>5 DEF Queued, InJobs
<1>8. DOMAIN aggs' = DOMAIN aggs
    BY <1>1, <1>2 DEF Passed
<1> QED BY <1>5, <1>6, <1>7, <1>8, RankedRest

LEMMA CallCombinatorRanked ==
    ASSUME Lasting, Kind, NEW kind \in Kinds, NEW custom \in BOOLEAN, NEW items \in Items,
           CallCombinator(kind, items, custom)
    PROVE  RankedInv'
<1>1. Base /\ Tokens /\ AllStay
    BY CallCombinatorTokens DEF Lasting, Whole, Tokens
<1>2. Shape /\ Listed /\ Ledger /\ Unmade /\ MayCall
    BY <1>1 DEF Base, CallCombinator
<1>3. Len(aggs) \in Nat /\ Len(caps) \in Nat /\ Sources \in Nat /\ MaxCalls \in Nat
    BY <1>2, BaseTypes
<1>4. items \in Seq(Item)
    BY <1>2, ItemsType
<1> PICK cap \in Nat : cap = IF custom THEN Len(caps) + 1 ELSE 0
    BY <1>3
<1> PICK n \in Nat : n = Len(aggs) + 1
    BY <1>3
<1> PICK agg : agg = NewAgg(kind, items, cap)
    OBVIOUS
<1> PICK raw : raw = Raw(n)
    OBVIOUS
<1>5. agg \in CallSet /\ agg.items = items
    BY <1>2, <1>4, NewAggType DEF NewAgg
<1>6. aggs' = Append(aggs, agg) /\ queue' = queue
    BY DEF CallCombinator
<1>7. raw \in Promise /\ raw > Sources + Len(aggs)
    BY <1>2, <1>3 DEF MayCall, Raw, Promise
<1>8. state[raw] = Pending
    BY <1>2, <1>7 DEF Unmade, Ledger
<1>9. /\ \A q \in Promise : q # raw => state'[q] = state[q]
      /\ state'[raw] = Pending \/ items = <<>>
    <2>1. CASE items = <<>> /\ \E s : Settle(raw, s, <<>>)
        BY <1>1, <1>7, <2>1, SettleState
    <2>2. CASE UNCHANGED core
        BY <1>8, <2>2 DEF core, promises
    <2> QED BY <2>1, <2>2 DEF CallCombinator
<1> QED BY <1>1, <1>5, <1>6, <1>9, NewRanked

LEMMA CallFailsRanked ==
    ASSUME Lasting, Kind, NEW kind \in Kinds, NEW custom \in BOOLEAN, CallFails(kind, custom)
    PROVE  RankedInv'
<1>1. Base /\ Tokens /\ AllStay
    BY CallFailsTokens DEF Lasting, Whole, Tokens
<1>2. Shape /\ Listed /\ MayCall
    BY <1>1 DEF Base, CallFails
<1>3. Len(aggs) \in Nat /\ Len(caps) \in Nat /\ Sources \in Nat /\ MaxCalls \in Nat
    BY <1>2, BaseTypes
<1> PICK cap \in Nat : cap = IF custom THEN Len(caps) + 1 ELSE 0
    BY <1>3
<1> PICK n \in Nat : n = Len(aggs) + 1
    BY <1>3
<1> PICK new : new = NewAgg(kind, <<>>, cap)
    OBVIOUS
<1> PICK agg : agg = [new EXCEPT !.threw = TRUE]
    OBVIOUS
<1>4. agg \in CallSet
    <2>1. <<>> \in Seq(Item)
        OBVIOUS
    <2> QED BY <1>2, <2>1, NewAggType
<1>5. agg.items = <<>>
    BY DEF NewAgg
<1>6. aggs' = Append(aggs, agg) /\ queue' = queue
    BY DEF CallFails
<1>7. Raw(n) \in Promise
    BY <1>2, <1>3 DEF MayCall, Raw, Promise
<1>8. \A q \in Promise : q # Raw(n) => state'[q] = state[q]
    <2>1. CASE UNCHANGED core
        BY <2>1 DEF core, promises
    <2>2. CASE Settle(Raw(n), Rejected(<<Plain>>), <<>>)
        BY <1>1, <1>7, <2>2, SettleState
    <2> QED BY <2>1, <2>2 DEF CallFails
<1> QED BY <1>1, <1>4, <1>5, <1>6, <1>8, NewRanked

(* A race element that is queued comes last in the line, as it should: all *)
(* in the queue came no later, and those still open come no earlier.       *)
LEMMA EnqueueRanked ==
    ASSUME Lasting, Kind, EnqueueJob, UNCHANGED <<call, caps, running, listened>>
    PROVE  RankedInv'
<1>1. Tokens /\ Base /\ Timely /\ SoundInv /\ RankedInv
    BY DEF Lasting, Whole, Kind
<1>2. firing # <<>> /\ UNCHANGED <<aggs, state>>
    BY DEF EnqueueJob, Fires, Skip, promises
<1>3. PICK r : /\ r = Element /\ OthersStay(r)
               /\ r.kind = "user" => AllStay
               /\ r.kind # "user" => ~Held(r)' /\ Queued(r)'
    BY <1>1, EnqueueTokens
<1>4. CASE r.kind = "user"
    <2>1. queue' = queue
        BY <1>3, <1>4 DEF EnqueueJob
    <2>2. \A x : x.kind \in AllKinds => Stays(x)
        BY <1>3, <1>4 DEF AllStay, AllKinds
    <2> QED BY <1>2, <2>1, <2>2, QuietRanked
<1>5. CASE r.kind # "user"
    <2> PICK job \in JobSet : job = Head(firing) /\ job.r = r
        BY <1>1, <1>2, <1>3, FireFacts DEF Element
    <2>1. queue' = Append(queue, job)
        BY <1>3, <1>5 DEF EnqueueJob
    <2>2. Held(r)
        BY <1>1, <1>2, <1>3, <1>5, HeadFacts DEF Tokens
    <2>3. Shrinks
        <3> SUFFICES ASSUME NEW x, x.kind \in AllKinds, Held(x)' PROVE Held(x)
            BY DEF Shrinks
        <3>1. x # r /\ x.kind # "user"
            BY <1>3, <1>5 DEF AllKinds
        <3> QED BY <1>3, <3>1 DEF OthersStay, Stays
    <2> SUFFICES ASSUME NEW a \in DOMAIN aggs PROVE Ranked(a)'
        BY <1>2 DEF RankedInv
    <2>4. Base /\ Base' /\ Keeps /\ Grown /\ Grow /\ Before
        BY DEF Kind
    <2> SUFFICES ASSUME FromSources(a) PROVE Earliest(a)' /\ Line(a)' /\ Behind(a)'
        BY <1>2 DEF Ranked, FromSources
    <2>5. Earliest(a) /\ Line(a) /\ Behind(a) /\ Sound(a)
        BY <1>1 DEF SoundInv, RankedInv, Ranked
    <2>6. ASSUME NEW i, r = Reaction("race", a, i) PROVE IsOpen(a, i) /\ Leads(a, i)
        <3>1. r.kind = "race" /\ r.of = a /\ r.index = i /\ r.kind \in AllKinds
            BY <2>6 DEF Reaction, AllKinds
        <3>2. aggs[a].kind = "race" /\ i \in DOMAIN aggs[a].items
            BY <1>1, <1>2, <1>3, <3>1, FireFacts
        <3>3. Leads(a, i)
            BY <1>1, <1>2, <1>3, <3>1, <3>2, HeadLeads
        <3> QED BY <2>2, <2>6, <3>2, <3>3 DEF IsOpen
    <2>7. Earliest(a)'
        BY <1>2, <2>4, <2>5, EarliestStays
    <2>8. Line(a)'
        BY <2>1, <2>4, <2>5, <2>6, LineAppend
    <2>9. ASSUME NEW i, Queued(Reaction("race", a, i))' PROVE Leads(a, i)
        <3> PICK x : x = Reaction("race", a, i)
            OBVIOUS
        <3>1. x.kind # "user" /\ Queued(x)'
            BY <2>9 DEF Reaction
        <3>2. CASE x = r
            BY <2>6, <3>2
        <3>3. CASE x # r
            <4>1. Queued(x)
                BY <1>3, <3>1, <3>3 DEF OthersStay, Stays
            <4> QED BY <2>4, <2>5, <4>1, QueuedLeads
        <3> QED BY <3>2, <3>3
    <2>10. Behind(a)'
        BY <2>3, <2>4, <2>9, OpensShrink, BehindStep
    <2> QED BY <2>7, <2>8, <2>10
<1> QED BY <1>4, <1>5

LEMMA InitLasting == Init => Lasting
<1> SUFFICES ASSUME Init PROVE Lasting
    OBVIOUS
<1>1. Whole
    BY InitWhole
<1>2. RankedInv
    BY DEF Init, RankedInv
<1>3. Timely
    BY InEmpty DEF Init, Timely, Before, Attached, Cascade
<1> QED BY <1>1, <1>2, <1>3 DEF Lasting

LEMMA NextRanked == Lasting /\ [Next]_vars => RankedInv'
<1> SUFFICES ASSUME Lasting, [Next]_vars PROVE RankedInv'
    OBVIOUS
<1>1. Tokens /\ Kind /\ Whole'
    BY NextKind DEF Lasting, Whole
<1>2. ASSUME AllStay \/ \A r : r.kind \notin {"custom", "user"} => Stays(r)
      PROVE  \A r : r.kind \in AllKinds => Stays(r)
    BY <1>2 DEF AllStay, AllKinds
<1>3. CASE UNCHANGED vars
    BY <1>1, <1>2, <1>3, StutterTokens, QuietRanked DEF vars
<1>4. ASSUME NEW kind \in Kinds, NEW custom \in BOOLEAN, NEW items \in Items,
             CallCombinator(kind, items, custom)
      PROVE  RankedInv'
    BY <1>1, <1>4, CallCombinatorRanked
<1>5. ASSUME NEW kind \in Kinds, NEW custom \in BOOLEAN, CallFails(kind, custom)
      PROVE  RankedInv'
    BY <1>1, <1>5, CallFailsRanked
<1>6. CASE AttachNext
    BY <1>1, <1>6, AttachNextRanked
<1>7. CASE FinishCall
    <2>1. UNCHANGED <<aggs, state, queue>>
        BY <1>7 DEF FinishCall, Attach, core, promises
    <2> QED BY <1>1, <1>2, <1>7, <2>1, FinishCallTokens, QuietRanked
<1>8. CASE FireReaction
    BY <1>1, <1>8, ElementRanked, EnqueueRanked DEF FireReaction
<1>9. CASE RunRace
    BY <1>1, <1>9, RunRaceRanked
<1>10. CASE RunCustom
    <2>1. UNCHANGED <<aggs, state>> /\ queue # <<>> /\ queue' = Tail(queue)
        BY <1>10 DEF RunCustom, NextJob, core, promises
    <2> QED BY <1>1, <1>2, <1>10, <2>1, RunCustomTokens, QuietRanked
<1>11. ASSUME NEW s \in Settlement, HandlerDone(s) PROVE RankedInv'
    <2>1. UNCHANGED <<aggs, state, queue>>
        BY <1>11 DEF HandlerDone, core, promises
    <2> QED BY <1>1, <1>2, <1>11, <2>1, HandlerTokens, QuietRanked
<1>12. ASSUME NEW p \in Source, NEW s \in Settlement, SettleSource(p, s) PROVE RankedInv'
    <2>1. UNCHANGED <<aggs, queue>> /\ Settle(p, s, <<>>)
        BY <1>12 DEF SettleSource
    <2> QED BY <1>1, <1>2, <1>12, <2>1, SourceTokens, QuietRanked
<1>13. ASSUME NEW p \in Promise, Listen(p) PROVE RankedInv'
    <2>1. UNCHANGED <<aggs, state, queue>>
        BY <1>13 DEF Listen, Attach
    <2> QED BY <1>1, <1>2, <1>13, <2>1, ListenTokens, QuietRanked
<1>14. ASSUME NEW p \in Promise, NEW on \in SUBSET {"fulfilled", "rejected"}, ThenCustom(p, on)
       PROVE  RankedInv'
    <2>1. UNCHANGED <<aggs, state, queue>>
        BY <1>14 DEF ThenCustom, Attach
    <2> QED BY <1>1, <1>2, <1>14, <2>1, ThenCustomTokens, QuietRanked
<1> QED BY <1>3, <1>4, <1>5, <1>6, <1>7, <1>8, <1>9, <1>10, <1>11, <1>12, <1>13, <1>14,
           PlainTypes, SourceTypes DEF Next

LEMMA LastingAlways == Spec => []Lasting
<1>1. Init => Lasting
    BY InitLasting
<1>2. Lasting /\ [Next]_vars => Lasting'
    BY NextRanked, NextKind DEF Lasting
<1> QED BY <1>1, <1>2, PTL DEF Spec

(* Elements that came at the same time are the same promise, and say the   *)
(* same.                                                                   *)
LEMMA SameTime ==
    ASSUME Base, Before, NEW a \in DOMAIN aggs, FromSources(a),
           NEW i \in DOMAIN aggs[a].items, NEW j \in DOMAIN aggs[a].items,
           ItemState(a, i).st # "pending", ItemState(a, j).st # "pending",
           SettledAt(a, i) = SettledAt(a, j)
    PROVE  ItemState(a, i) = ItemState(a, j)
<1> PICK items : items = aggs[a].items
    OBVIOUS
<1> PICK l \in Nat : l = Len(items) /\ DOMAIN items = 1 .. l
    BY BaseTypes DEF Base
<1> PICK at \in Nat : at = aggs[a].at
    BY BaseTypes DEF Base, CallSet
<1> PICK pi \in Nat : pi = Place(items[i])
    BY RankFacts
<1> PICK pj \in Nat : pj = Place(items[j])
    BY RankFacts
<1>1. /\ SettledAt(a, i) = IF pi <= at THEN i ELSE l + pi
      /\ SettledAt(a, j) = IF pj <= at THEN j ELSE l + pj
    BY RankIs
<1>2. i \in 1 .. l /\ j \in 1 .. l
    OBVIOUS
<1>3. i = j \/ (pi = pj /\ pi > at)
    <2>1. ASSUME NEW x \in 1 .. l, NEW y \in 1 .. l,
                 (IF pi <= at THEN x ELSE l + pi) = (IF pj <= at THEN y ELSE l + pj)
          PROVE  x = y \/ (pi = pj /\ pi > at)
        <3>1. CASE pi <= at /\ pj <= at
            BY <2>1, <3>1
        <3>2. CASE pi <= at /\ ~(pj <= at)
            <4>1. x = l + pj /\ x <= l /\ pj > 0
                BY <2>1, <3>2
            <4> QED BY <4>1
        <3>3. CASE ~(pi <= at) /\ pj <= at
            <4>1. y = l + pi /\ y <= l /\ pi > 0
                BY <2>1, <3>3
            <4> QED BY <4>1
        <3>4. CASE ~(pi <= at) /\ ~(pj <= at)
            <4>1. l + pi = l + pj /\ pi > at
                BY <2>1, <3>4
            <4> QED BY <4>1
        <3> QED BY <3>1, <3>2, <3>3, <3>4
    <2>2. (IF pi <= at THEN i ELSE l + pi) = (IF pj <= at THEN j ELSE l + pj)
        BY <1>1
    <2> QED BY <1>2, <2>1, <2>2
<1>4. ASSUME pi = pj, pi > at PROVE items[i] = items[j]
    <2>1. pi # 0 /\ pj # 0
        BY <1>4
    <2>2. items[i] # Plain /\ items[j] # Plain
        BY <2>1 DEF Place
    <2>3. /\ items[i] \in Promise /\ ~IsPending(items[i])
          /\ items[j] \in Promise /\ ~IsPending(items[j])
        BY <2>2, SourceFacts DEF FromSources, ItemState, IsPending
    <2> QED BY <1>4, <2>3, PlaceFacts
<1> QED BY <1>3, <1>4 DEF ItemState

(* Whichever of the earliest elements FirstDecides chooses, it is the one  *)
(* the result repeats.                                                     *)
LEMMA LastingFirst ==
    ASSUME Lasting, NEW a \in DOMAIN aggs, FromSources(a)
    PROVE  FirstDecides(a)
<1>1. Base /\ Before /\ Earliest(a)
    BY DEF Lasting, Whole, Tokens, Timely, RankedInv, Ranked
<1> SUFFICES ASSUME state[Raw(a)] # Pending, Deciding(a) # {},
                    NEW first, first = CHOOSE i \in Deciding(a) :
                        \A j \in Deciding(a) : SettledAt(a, i) <= SettledAt(a, j)
             PROVE  state[Raw(a)] = ItemState(a, first)
    BY DEF FirstDecides
<1>2. PICK i \in Deciding(a) : /\ state[Raw(a)] = ItemState(a, i)
                               /\ \A j \in Deciding(a) : SettledAt(a, i) <= SettledAt(a, j)
    BY <1>1 DEF Earliest
<1>3. /\ first \in Deciding(a)
      /\ \A j \in Deciding(a) : SettledAt(a, first) <= SettledAt(a, j)
    BY <1>2
<1>4. \A j \in Deciding(a) : j \in DOMAIN aggs[a].items /\ ItemState(a, j).st # "pending"
    BY DecidingIs
<1>5. SettledAt(a, i) = SettledAt(a, first)
    <2>1. SettledAt(a, i) \in Nat /\ SettledAt(a, first) \in Nat
        BY <1>1, <1>2, <1>3, <1>4, RankFacts
    <2>2. SettledAt(a, i) <= SettledAt(a, first) /\ SettledAt(a, first) <= SettledAt(a, i)
        BY <1>2, <1>3
    <2> QED BY <2>1, <2>2
<1> QED BY <1>1, <1>2, <1>3, <1>4, <1>5, SameTime

(* Of several elements that could decide Promise.all, any or race, the one *)
(* that settled first does (AllState, any's holder and the Race job in     *)
(* enqueue_reaction_job), when the elements are settled by user code.      *)
THEOREM FirstSourceWinsAlways == Spec => []FirstSourceWins
<1>1. Lasting => FirstSourceWins
    BY LastingFirst DEF FirstSourceWins, FromSources
<1> QED BY <1>1, LastingAlways, PTL

===============================================================================
