---------------------------- MODULE PromisesProofs ----------------------------
(* Machine-checked proofs about Promises, for every value of its constants. *)
EXTENDS Promises, Integers, FiniteSets, FiniteSetTheorems, SequenceTheorems, TLAPS

-----------------------------------------------------------------------------
(* How many members of a sequence, and of all the sequences of a function, *)
(* belong to a set.                                                        *)

(* 1 for what is so, 0 for what is not *)
One(b) == IF b THEN 1 ELSE 0

Where(s, S) == {i \in DOMAIN s : s[i] \in S}
CountIn(s, S) == Cardinality(Where(s, S))

(* The places <<q, i>> of members of S in the sequences f[q] *)
Places(f, S) == {qi \in (DOMAIN f) \X Nat :
                    qi[2] \in DOMAIN f[qi[1]] /\ f[qi[1]][qi[2]] \in S}
TotalIn(f, S) == Cardinality(Places(f, S))

-----------------------------------------------------------------------------
(* The places of members in a sequence are finitely many. *)
LEMMA CountType ==
    ASSUME NEW T, NEW s \in Seq(T), NEW S
    PROVE  IsFiniteSet(Where(s, S)) /\ CountIn(s, S) \in Nat
<1>1. IsFiniteSet(1 .. Len(s)) /\ Where(s, S) \in SUBSET (1 .. Len(s))
    BY FS_Interval DEF Where
<1>2. IsFiniteSet(Where(s, S))
    BY <1>1, FS_Subset
<1> QED BY <1>2, FS_CardinalityType DEF CountIn

(* A member of the set counts. *)
LEMMA CountPositive ==
    ASSUME NEW T, NEW s \in Seq(T), NEW S, NEW i \in DOMAIN s, s[i] \in S
    PROVE  CountIn(s, S) >= 1
<1>1. i \in Where(s, S)
    BY DEF Where
<1>2. CountIn(s, S) # 0
    BY <1>1, CountType, FS_EmptySet DEF CountIn
<1> QED BY <1>2, CountType

(* No member in the set, no count. *)
LEMMA CountNone ==
    ASSUME NEW s, NEW S, \A i \in DOMAIN s : s[i] \notin S
    PROVE  CountIn(s, S) = 0
<1>1. Where(s, S) = {}
    BY DEF Where
<1> QED BY <1>1, FS_EmptySet DEF CountIn

(* The empty sequence has no members. *)
LEMMA CountEmpty == ASSUME NEW S PROVE CountIn(<<>>, S) = 0
BY CountNone

(* Sequences that agree on where members are agree on how many. *)
LEMMA CountSame ==
    ASSUME NEW s, NEW t, NEW S, NEW U, DOMAIN s = DOMAIN t,
           \A i \in DOMAIN s : s[i] \in S <=> t[i] \in U
    PROVE  CountIn(s, S) = CountIn(t, U)
<1>1. Where(s, S) = Where(t, U)
    BY DEF Where
<1> QED BY <1>1 DEF CountIn

(* Adding a last member. *)
LEMMA CountAppend ==
    ASSUME NEW T, NEW s \in Seq(T), NEW S, NEW x \in T
    PROVE  CountIn(Append(s, x), S) = CountIn(s, S) + One(x \in S)
<1> DEFINE n == Len(s) + 1
<1>1. /\ n \in Nat /\ n \notin Where(s, S)
      /\ Where(Append(s, x), S) = IF x \in S THEN Where(s, S) \cup {n} ELSE Where(s, S)
    BY DEF Where
<1>2. IsFiniteSet(Where(s, S)) /\ CountIn(s, S) \in Nat
    BY CountType
<1>3. Cardinality(Where(s, S) \cup {n}) = Cardinality(Where(s, S)) + 1
    BY <1>1, <1>2, FS_AddElement
<1> QED BY <1>1, <1>2, <1>3 DEF CountIn, One

(* Taking the last member off. *)
LEMMA CountPop ==
    ASSUME NEW T, NEW s \in Seq(T), NEW S, s # <<>>
    PROVE  CountIn(s, S) = CountIn(SubSeq(s, 1, Len(s) - 1), S) + One(s[Len(s)] \in S)
<1> DEFINE t == SubSeq(s, 1, Len(s) - 1)
           x == s[Len(s)]
<1>1. Len(s) \in Nat /\ Len(s) >= 1 /\ x \in T
    BY EmptySeq
<1>2. t \in Seq(T)
    BY <1>1
<1>3. s = Append(t, x)
    BY <1>1, <1>2
<1> HIDE DEF t, x
<1>4. CountIn(s, S) = CountIn(t, S) + One(x \in S)
    BY <1>1, <1>2, <1>3, CountAppend
<1> QED BY <1>4 DEF t, x

(* Members of a concatenation. *)
LEMMA CountConcat ==
    ASSUME NEW T, NEW s \in Seq(T), NEW t \in Seq(T), NEW S
    PROVE  CountIn(s \o t, S) = CountIn(s, S) + CountIn(t, S)
<1> DEFINE m == Len(s)
           A == Where(s, S)
           B == Where(t, S)
           C == {i + m : i \in B}
           f == [i \in B |-> i + m]
<1>1. /\ m \in Nat /\ Len(t) \in Nat /\ DOMAIN s = 1 .. m /\ DOMAIN t = 1 .. Len(t)
      /\ s \o t \in Seq(T) /\ Len(s \o t) = m + Len(t)
      /\ \A i \in 1 .. m + Len(t) : (s \o t)[i] = IF i <= m THEN s[i] ELSE t[i - m]
    BY ConcatProperties
<1>2. A \subseteq 1 .. m /\ B \subseteq 1 .. Len(t)
    BY <1>1 DEF Where
<1>3. Where(s \o t, S) = A \cup C
    <2>1. ASSUME NEW i \in Where(s \o t, S) PROVE i \in A \cup C
        <3>1. i \in 1 .. m + Len(t) /\ (s \o t)[i] \in S
            BY <1>1 DEF Where
        <3>2. CASE i <= m
            BY <3>1, <3>2, <1>1 DEF Where
        <3>3. CASE ~(i <= m)
            <4>1. i - m \in B
                BY <3>1, <3>3, <1>1 DEF Where
            <4>2. i = (i - m) + m
                BY <3>1, <1>1
            <4> QED BY <4>1, <4>2
        <3> QED BY <3>2, <3>3
    <2>2. ASSUME NEW i \in A PROVE i \in Where(s \o t, S)
        BY <1>1 DEF Where
    <2>3. ASSUME NEW j \in B PROVE j + m \in Where(s \o t, S)
        <3>1. j \in 1 .. Len(t) /\ t[j] \in S
            BY <1>1 DEF Where
        <3>2. j + m \in 1 .. m + Len(t) /\ ~(j + m <= m) /\ (j + m) - m = j
            BY <3>1, <1>1
        <3> QED BY <3>1, <3>2, <1>1 DEF Where
    <2> QED BY <2>1, <2>2, <2>3
<1>4. f \in Bijection(B, C)
    <2>1. \A i, j \in B : i + m = j + m => i = j
        BY <1>1, <1>2
    <2> HIDE DEF m, B
    <2>2. f \in [B -> C] /\ \A c \in C : \E i \in B : f[i] = c
        OBVIOUS
    <2> QED BY <2>1, <2>2 DEF Bijection, Injection, Surjection, IsInjective
<1>5. IsFiniteSet(C) /\ Cardinality(C) = Cardinality(B)
    <2>1. ExistsBijection(B, C)
        BY <1>4 DEF ExistsBijection
    <2> QED BY <2>1, CountType, FS_Bijection
<1>6. A \cap C = {}
    BY <1>1, <1>2
<1>7. Cardinality(A \cup C) = Cardinality(A) + Cardinality(C) - 0
    <2>1. IsFiniteSet(A)
        BY CountType
    <2> HIDE DEF A, C
    <2> QED BY <2>1, <1>5, <1>6, FS_Union, FS_EmptySet
<1>8. Cardinality(A) \in Nat /\ Cardinality(B) \in Nat
    BY CountType DEF CountIn
<1> QED BY <1>3, <1>5, <1>7, <1>8 DEF CountIn

(* Taking the first member off. *)
LEMMA CountTail ==
    ASSUME NEW T, NEW s \in Seq(T), NEW S, s # <<>>
    PROVE  CountIn(s, S) = CountIn(Tail(s), S) + One(Head(s) \in S)
<1> DEFINE x == Head(s)
           t == Tail(s)
<1>1. x \in T /\ t \in Seq(T)
    BY HeadTailProperties
<1>2. s = <<x>> \o t
    OBVIOUS
<1>3. CountIn(<<x>>, S) = One(x \in S)
    <2>1. <<x>> = Append(<<>>, x) /\ <<>> \in Seq(T)
        OBVIOUS
    <2>2. CountIn(<<x>>, S) = CountIn(<<>>, S) + One(x \in S)
        BY <2>1, <1>1, CountAppend
    <2> QED BY <2>2, CountEmpty DEF One
<1>4. <<x>> \in Seq(T)
    BY <1>1
<1>5. CountIn(t, S) \in Nat /\ One(x \in S) \in Nat
    BY <1>1, CountType DEF One
<1> HIDE DEF x, t
<1>6. CountIn(s, S) = CountIn(<<x>>, S) + CountIn(t, S)
    BY <1>1, <1>2, <1>4, CountConcat
<1> QED BY <1>3, <1>5, <1>6 DEF x, t

(* Replacing a member. *)
LEMMA CountReplace ==
    ASSUME NEW T, NEW s \in Seq(T), NEW S, NEW i \in DOMAIN s, NEW x \in T
    PROVE  CountIn([s EXCEPT ![i] = x], S) + One(s[i] \in S)
              = CountIn(s, S) + One(x \in S)
<1> DEFINE t == [s EXCEPT ![i] = x]
           R == Where(s, S) \ {i}
<1>1. t \in Seq(T) /\ DOMAIN t = DOMAIN s /\ t[i] = x /\ \A j \in DOMAIN s \ {i} : t[j] = s[j]
    BY ExceptSeq
<1>2. IsFiniteSet(R) /\ i \notin R
    BY CountType, FS_RemoveElement
<1>3. Cardinality(R) \in Nat /\ Cardinality(R \cup {i}) = Cardinality(R) + 1
    BY <1>2, FS_CardinalityType, FS_AddElement
<1>4. Where(s, S) = IF s[i] \in S THEN R \cup {i} ELSE R
    BY DEF Where
<1>5. Where(t, S) = IF x \in S THEN R \cup {i} ELSE R
    BY <1>1 DEF Where
<1> HIDE DEF R
<1> QED BY <1>3, <1>4, <1>5 DEF CountIn, One

-----------------------------------------------------------------------------
(* The places in one of the sequences, as places in all of them *)
PlacesAt(f, q, S) == {q} \X Where(f[q], S)

(* The places in the others *)
Elsewhere(f, q, S) == {qi \in Places(f, S) : qi[1] # q}

(* They are as many as the sequence has members. *)
LEMMA PlacesAtCount ==
    ASSUME NEW T, NEW D, NEW f \in [D -> Seq(T)], NEW S, NEW q \in D
    PROVE  IsFiniteSet(PlacesAt(f, q, S)) /\ Cardinality(PlacesAt(f, q, S)) = CountIn(f[q], S)
<1>1. f[q] \in Seq(T)
    OBVIOUS
<1>2. IsFiniteSet(Where(f[q], S)) /\ CountIn(f[q], S) \in Nat
    BY <1>1, CountType
<1>3. IsFiniteSet({q}) /\ Cardinality({q}) = 1
    BY FS_Singleton
<1>4. /\ IsFiniteSet({q} \X Where(f[q], S))
      /\ Cardinality({q} \X Where(f[q], S)) = Cardinality({q}) * Cardinality(Where(f[q], S))
    BY <1>2, <1>3, FS_Product
<1> QED BY <1>2, <1>3, <1>4 DEF PlacesAt, CountIn

(* Finitely many sequences have finitely many places. *)
LEMMA TotalType ==
    ASSUME NEW T, NEW D, IsFiniteSet(D), NEW f \in [D -> Seq(T)], NEW S
    PROVE  IsFiniteSet(Places(f, S)) /\ TotalIn(f, S) \in Nat
<1> DEFINE g == [q \in D |-> PlacesAt(f, q, S)]
           All == {PlacesAt(f, q, S) : q \in D}
<1>1. g \in Surjection(D, All)
    BY DEF Surjection
<1>2. IsFiniteSet(All)
    BY <1>1, FS_Surjection
<1>3. \A A \in All : IsFiniteSet(A)
    BY PlacesAtCount
<1>4. IsFiniteSet(UNION All)
    BY <1>2, <1>3, FS_UNION
<1>5. Places(f, S) = UNION All
    <2>1. \A q \in D : DOMAIN f[q] = 1 .. Len(f[q]) /\ DOMAIN f[q] \subseteq Nat
        OBVIOUS
    <2> QED BY <2>1 DEF Places, PlacesAt, Where
<1> QED BY <1>4, <1>5, FS_CardinalityType DEF TotalIn

(* The members of all sequences are those of one and those of the others. *)
LEMMA TotalSplit ==
    ASSUME NEW T, NEW D, IsFiniteSet(D), NEW f \in [D -> Seq(T)], NEW S, NEW q \in D
    PROVE  /\ Cardinality(Elsewhere(f, q, S)) \in Nat
           /\ TotalIn(f, S) = CountIn(f[q], S) + Cardinality(Elsewhere(f, q, S))
<1> DEFINE rest == Elsewhere(f, q, S)
           here == PlacesAt(f, q, S)
<1>1. IsFiniteSet(Places(f, S)) /\ IsFiniteSet(here) /\ Cardinality(here) = CountIn(f[q], S)
    BY TotalType, PlacesAtCount
<1>2. IsFiniteSet(rest) /\ Cardinality(rest) \in Nat
    <2>1. rest \in SUBSET Places(f, S)
        BY DEF Elsewhere
    <2> HIDE DEF rest
    <2> QED BY <2>1, <1>1, FS_Subset, FS_CardinalityType
<1>3. Places(f, S) = here \cup rest
    <2>1. DOMAIN f = D /\ DOMAIN f[q] \subseteq Nat
        OBVIOUS
    <2> QED BY <2>1 DEF Places, PlacesAt, Where, Elsewhere
<1>4. here \cap rest = {}
    BY DEF PlacesAt, Elsewhere
<1>5. CountIn(f[q], S) \in Nat
    BY CountType
<1> HIDE DEF here, rest
<1>6. Cardinality(here \cup rest) = Cardinality(here) + Cardinality(rest) - Cardinality({})
    BY <1>1, <1>2, <1>4, FS_Union
<1>7. TotalIn(f, S) = CountIn(f[q], S) + Cardinality(rest)
    BY <1>1, <1>2, <1>3, <1>5, <1>6, FS_EmptySet DEF TotalIn
<1> QED BY <1>2, <1>7 DEF rest

(* What g has more than f it has at q. *)
ChangedAt(f, g, q, S) ==
    TotalIn(g, S) + CountIn(f[q], S) = TotalIn(f, S) + CountIn(g[q], S)

(* Changing one of the sequences. *)
LEMMA TotalReplace ==
    ASSUME NEW T, NEW D, IsFiniteSet(D), NEW f \in [D -> Seq(T)], NEW S,
           NEW q \in D, NEW g \in [D -> Seq(T)], \A p \in D \ {q} : g[p] = f[p]
    PROVE  ChangedAt(f, g, q, S)
<1>1. Elsewhere(g, q, S) = Elsewhere(f, q, S)
    BY DEF Places, Elsewhere
<1>2. /\ Cardinality(Elsewhere(f, q, S)) \in Nat
      /\ TotalIn(f, S) = CountIn(f[q], S) + Cardinality(Elsewhere(f, q, S))
    BY TotalSplit
<1>3. /\ Cardinality(Elsewhere(g, q, S)) \in Nat
      /\ TotalIn(g, S) = CountIn(g[q], S) + Cardinality(Elsewhere(g, q, S))
    BY TotalSplit
<1>4. CountIn(f[q], S) \in Nat /\ CountIn(g[q], S) \in Nat
    BY CountType
<1> QED BY <1>1, <1>2, <1>3, <1>4 DEF ChangedAt

(* No member anywhere. *)
LEMMA TotalNone ==
    ASSUME NEW f, NEW S, \A q \in DOMAIN f : \A i \in DOMAIN f[q] : f[q][i] \notin S
    PROVE  TotalIn(f, S) = 0
<1>1. Places(f, S) = {}
    BY DEF Places
<1> QED BY <1>1, FS_EmptySet DEF TotalIn

(* Some member somewhere. *)
LEMMA TotalPositive ==
    ASSUME NEW T, NEW D, IsFiniteSet(D), NEW f \in [D -> Seq(T)], NEW S,
           NEW q \in D, NEW i \in DOMAIN f[q], f[q][i] \in S
    PROVE  TotalIn(f, S) >= 1
<1>1. CountIn(f[q], S) >= 1 /\ CountIn(f[q], S) \in Nat
    BY CountPositive, CountType
<1>2. /\ Cardinality(Elsewhere(f, q, S)) \in Nat
      /\ TotalIn(f, S) = CountIn(f[q], S) + Cardinality(Elsewhere(f, q, S))
    BY TotalSplit
<1> QED BY <1>1, <1>2

-----------------------------------------------------------------------------
(* Facts about sequences *)

(* A sequence over a set is a sequence over every larger set. *)
LEMMA SeqMono ==
    ASSUME NEW S, NEW T, S \subseteq T
    PROVE  Seq(S) \subseteq Seq(T)
<1> SUFFICES ASSUME NEW s \in Seq(S) PROVE s \in Seq(T)
    OBVIOUS
<1>1. \A i \in 1 .. Len(s) : s[i] \in T
    OBVIOUS
<1> QED BY <1>1, SeqDef

(* A member of a sequence over a set is in the set. *)
LEMMA Member == ASSUME NEW S, NEW s \in Seq(S), NEW i \in DOMAIN s PROVE s[i] \in S
OBVIOUS

(* Popping the call stack: the top is an element, the rest a sequence. *)
LEMMA PopSeq ==
    ASSUME NEW S, NEW s \in Seq(S), s # <<>>
    PROVE  s[Len(s)] \in S /\ SubSeq(s, 1, Len(s) - 1) \in Seq(S)
<1>1. Len(s) \in Nat /\ Len(s) >= 1
    OBVIOUS
<1>2. s[Len(s)] \in S
    BY <1>1
<1>3. SubSeq(s, 1, Len(s) - 1) \in Seq(S)
    BY <1>1
<1> QED BY <1>2, <1>3

(* Taking a job off the queue. *)
LEMMA HeadTail ==
    ASSUME NEW S, NEW s \in Seq(S), s # <<>>
    PROVE  Head(s) \in S /\ Tail(s) \in Seq(S)
OBVIOUS

(* The live sets only grow when promises are allocated. *)
LEMMA LiveMono ==
    ASSUME NEW m \in 0 .. MaxPromises, NEW n \in 0 .. MaxPromises, m <= n
    PROVE  /\ Seq(LiveReaction(m)) \subseteq Seq(LiveReaction(n))
           /\ Seq(LiveJob(m)) \subseteq Seq(LiveJob(n))
           /\ Seq(LivePair(m)) \subseteq Seq(LivePair(n))
           /\ Seq(LiveFrame(m)) \subseteq Seq(LiveFrame(n))
<1> USE BoundsAssumption
<1>1. LiveReaction(m) \subseteq LiveReaction(n)
    BY DEF LiveReaction, Reaction
<1>2. LiveJob(m) \subseteq LiveJob(n)
    BY <1>1 DEF LiveJob
<1>3. LivePair(m) \subseteq LivePair(n)
    BY DEF LivePair, Promise
<1>4. LiveFrame(m) \subseteq LiveFrame(n)
    BY DEF LiveFrame, Frame
<1> QED BY <1>1, <1>2, <1>3, <1>4, SeqMono

(* The store of 1..m is a store of 1..n for a larger n: what is allocated *)
(* was pending and had no reactions.                                      *)
LEMMA StoreMono ==
    ASSUME NEW m \in 0 .. MaxPromises, NEW n \in 0 .. MaxPromises, m <= n,
           Store(m)
    PROVE  Store(n)
<1>1. \A p \in Promise : reactions[p] \in Seq(LiveReaction(n))
    BY LiveMono DEF Store
<1>2. queue \in Seq(LiveJob(n)) /\ firing \in Seq(LiveJob(n))
    BY LiveMono DEF Store
<1>3. \A p \in Promise : p > n => IsPending(p) /\ reactions[p] = <<>>
    BY BoundsAssumption DEF Store, Promise
<1>4. reactions \in [Promise -> Seq(LiveReaction(n))]
    BY <1>1 DEF Store
<1> QED BY <1>2, <1>3, <1>4 DEF Store

(* The jobs a settlement triggers. *)
Triggered(rs, s) == [i \in DOMAIN rs |-> JobOf(rs[i], s)]

(* The reactions of a promise, each with its settlement, are jobs. *)
LEMMA TriggeredSeq ==
    ASSUME NEW n, NEW rs \in Seq(LiveReaction(n)), NEW s \in CleanState
    PROVE  Triggered(rs, s) \in Seq(LiveJob(n))
<1>1. \A i \in 1 .. Len(rs) : JobOf(rs[i], s) \in LiveJob(n)
    BY DEF JobOf, LiveJob
<1>2. Triggered(rs, s) = [i \in 1 .. Len(rs) |-> JobOf(rs[i], s)]
    BY DEF Triggered
<1> QED BY <1>1, <1>2, SeqDef

-----------------------------------------------------------------------------
(* The steps that settle a promise *)

(* Only a pending promise changes its state, and then it settles. *)
Keeps == \A q \in Promise : state'[q] # state[q] => IsPending(q) /\ ~IsPending(q)'

(* Listeners may only become late ones while a promise settles. *)
OnlyLate ==
    /\ listener' \in [Promise -> {"none", "late", "attached"}]
    /\ \A q \in Promise : listener'[q] # listener[q] =>
          listener[q] = "none" /\ listener'[q] = "late"

Final(s) == s \in CleanState /\ s.st # "pending"

(* fulfill_promise and reject_promise keep the store of promises well formed, the
   listeners accounted for, and every earlier settlement. *)
LEMMA SettleStep ==
    ASSUME NEW n \in 0 .. MaxPromises, Store(n), Heard,
           NEW p \in Promise, p <= n, NEW s, Final(s),
           NEW rest \in Seq(LiveJob(n)), Settle(p, s, rest),
           queue' \in Seq(LiveJob(n)), OnlyLate, UNCHANGED reported
    PROVE  Store(n)' /\ Heard' /\ Keeps
<1> USE DEF IsPending
<1>1. CASE ~IsPending(p)
    <2>1. firing' = rest /\ UNCHANGED <<state, reactions, unhandled>>
        BY <1>1 DEF Settle
    <2>2. SettledClean'
        BY <2>1 DEF Store, SettledClean
    <2>3. Store(n)'
        BY <2>1, <2>2 DEF Store, OnlyLate
    <2>4. Heard'
        BY <2>1 DEF Heard, HandledNotReported, UnhandledComplete, OnlyLate
    <2> QED BY <2>1, <2>3, <2>4 DEF Keeps
<1>2. CASE IsPending(p)
    <2> DEFINE un == IF s.st = "rejected" /\ reactions[p] = <<>>
                     THEN unhandled \cup {p} ELSE unhandled
    <2>1. /\ state' = [state EXCEPT ![p] = s]
          /\ reactions' = [reactions EXCEPT ![p] = <<>>]
          /\ firing' = Triggered(reactions[p], s) \o rest
          /\ unhandled' = un
        BY <1>2 DEF Settle, Triggered
    <2>2. reactions[p] \in Seq(LiveReaction(n)) /\ s \in CleanState
        BY DEF Store, Final
    <2>3. firing' \in Seq(LiveJob(n))
        BY <2>1, <2>2, TriggeredSeq, ConcatProperties
    <2>4. /\ state' \in [Promise -> CleanState]
          /\ \A q \in Promise : state'[q] = IF q = p THEN s ELSE state[q]
        BY <2>1, <2>2 DEF Store
    <2>5. /\ reactions' \in [Promise -> Seq(LiveReaction(n))]
          /\ \A q \in Promise : reactions'[q] = IF q = p THEN <<>> ELSE reactions[q]
        BY <2>1 DEF Store
    <2>6. unhandled' \subseteq Promise \cup {Thrown}
        BY <2>1 DEF Store
    <2>7. \A q \in Promise : q > n => IsPending(q)' /\ reactions'[q] = <<>>
        <3>1. ASSUME NEW q \in Promise, q > n
              PROVE  q # p /\ IsPending(q) /\ reactions[q] = <<>>
            BY <3>1, BoundsAssumption DEF Store, Promise
        <3> QED BY <3>1, <2>4, <2>5
    <2>8. SettledClean'
        BY <2>4, <2>5 DEF Store, SettledClean, Final, CleanState
    <2>9. Store(n)'
        BY <2>3, <2>4, <2>5, <2>6, <2>7, <2>8 DEF Store, OnlyLate
    <2>10. Heard'
        <3>1. ASSUME NEW q \in Promise, IsPending(q)'
              PROVE  q \notin unhandled' /\ (listener'[q] = "attached" <=> reactions'[q] # <<>>)
            <4>1. q # p /\ IsPending(q)
                BY <2>4, <3>1 DEF Final
            <4> QED BY <4>1, <2>1, <2>5 DEF Heard, OnlyLate
        <3>2. HandledNotReported'
            BY <2>1, <1>2 DEF Heard, HandledNotReported, OnlyLate
        <3>3. UnhandledComplete'
            BY <2>1, <2>4, <1>2 DEF Heard, UnhandledComplete, OnlyLate
        <3> QED BY <3>1, <3>2, <3>3 DEF Heard
    <2>11. Keeps
        BY <1>2, <2>4 DEF Keeps, Final
    <2> QED BY <2>9, <2>10, <2>11
<1> QED BY <1>1, <1>2

(* What user code and jobs hand to resolve_value: if it is a promise, it is *)
(* an allocated one.                                                        *)
LiveValue(n) == {x \in Value : x \in Promise => x <= n}

(* A reaction without handlers that names allocated promises is well formed. *)
LEMMA BareLive ==
    ASSUME NEW n \in 0 .. MaxPromises, NEW k \in ReactionKind \ {"microtask"},
           NEW p \in 1 .. n, NEW q \in 0 .. MaxPromises
    PROVE  Bare(k, p, q) \in LiveReaction(n)
<1>1. Pending \in CleanState
    BY DEF Pending, CleanState, State, Value
<1>2. p \in 0 .. MaxPromises
    BY BoundsAssumption
<1> QED BY <1>1, <1>2 DEF Bare, LiveReaction, Reaction, CleanState

(* mark_handled and pushing a reaction on a pending promise x. *)
LEMMA PushStep ==
    ASSUME NEW n \in 0 .. MaxPromises, Store(n), Heard,
           NEW x \in Promise, x <= n, IsPending(x),
           NEW r \in LiveReaction(n), Listen(x),
           reactions' = [reactions EXCEPT ![x] = Append(@, r)],
           firing' \in Seq(LiveJob(n)), queue' \in Seq(LiveJob(n)),
           UNCHANGED <<state, reported>>
    PROVE  Store(n)' /\ Heard' /\ Keeps
<1> USE DEF IsPending
<1>1. /\ reactions[x] \in Seq(LiveReaction(n))
      /\ Append(reactions[x], r) \in Seq(LiveReaction(n))
      /\ Append(reactions[x], r) # <<>>
    <2>1. reactions[x] \in Seq(LiveReaction(n))
        BY DEF Store
    <2> QED BY <2>1, AppendProperties, EmptySeq
<1>2. /\ reactions' \in [Promise -> Seq(LiveReaction(n))]
      /\ reactions'[x] # <<>>
      /\ \A q \in Promise \ {x} : reactions'[q] = reactions[q]
    BY <1>1 DEF Store
<1>3. /\ listener' \in [Promise -> {"none", "late", "attached"}]
      /\ listener'[x] = "attached"
      /\ \A q \in Promise \ {x} : listener'[q] = listener[q]
      /\ unhandled' = unhandled \ {x}
    BY DEF Listen, Store
<1>4. \A q \in Promise : q > n => IsPending(q)' /\ reactions'[q] = <<>>
    <2>1. ASSUME NEW q \in Promise, q > n
          PROVE  q # x /\ IsPending(q) /\ reactions[q] = <<>>
        BY <2>1, BoundsAssumption DEF Store, Promise
    <2> QED BY <2>1, <1>2
<1>5. SettledClean'
    BY <1>2 DEF Store, SettledClean
<1>6. Store(n)'
    BY <1>2, <1>3, <1>4, <1>5 DEF Store
<1>7. Heard'
    <2>1. \A q \in Promise : IsPending(q)' =>
              q \notin unhandled' /\ (listener'[q] = "attached" <=> reactions'[q] # <<>>)
        BY <1>2, <1>3 DEF Heard
    <2>2. HandledNotReported'
        BY <1>3 DEF Heard, HandledNotReported
    <2>3. UnhandledComplete'
        BY <1>3 DEF Heard, UnhandledComplete
    <2> QED BY <2>1, <2>2, <2>3 DEF Heard
<1> QED BY <1>6, <1>7 DEF Keeps

(* resolve_value keeps the store well formed, whatever it is given. *)
LEMMA ResolveStep ==
    ASSUME NEW n \in 0 .. MaxPromises, Store(n), Heard,
           NEW p \in Promise, p <= n, NEW x \in LiveValue(n),
           NEW rest \in Seq(LiveJob(n)), NEW q \in Seq(LiveJob(n)),
           ResolveValue(p, x, rest, q), UNCHANGED reported
    PROVE  Store(n)' /\ Heard' /\ Keeps
<1>p. p \in 1 .. n
    BY BoundsAssumption DEF Promise
<1>n. listener \in [Promise -> {"none", "late", "attached"}]
    BY DEF Store
<1>l. UNCHANGED listener => OnlyLate
    BY <1>n DEF OnlyLate
<1>1. CASE Settle(p, Rejected(TypeErr), rest) /\ queue' = q /\ UNCHANGED listener
    <2>1. Final(Rejected(TypeErr))
        BY DEF Final, Rejected, CleanState, State, Value
    <2> QED BY <1>1, <1>l, <2>1, SettleStep
<1>2. CASE /\ x \in Promise \ {p} /\ IsPending(x) /\ Listen(x)
           /\ reactions' = [reactions EXCEPT ![x] = Append(@, Bare("forward", p, x))]
           /\ firing' = rest /\ queue' = q /\ UNCHANGED state
    <2>1. x <= n
        BY <1>2 DEF LiveValue
    <2>2. Bare("forward", p, x) \in LiveReaction(n)
        BY <1>p, <1>2, BareLive DEF ReactionKind, Promise
    <2> QED BY <1>2, <2>1, <2>2, PushStep
<1>3. CASE /\ x \in Promise \ {p} /\ ~IsPending(x)
           /\ Settle(p, state[x], rest) /\ listener' = ListenLate(x) /\ queue' = q
    <2>1. Final(state[x])
        BY <1>3 DEF Store, Final, IsPending, CleanState, State
    <2>2. OnlyLate
        BY <1>3, <1>n DEF OnlyLate, ListenLate
    <2> QED BY <1>3, <2>1, <2>2, SettleStep
<1>4. CASE /\ x = Thenable /\ queue' = Append(q, ThenableJob(p)) /\ firing' = rest
           /\ UNCHANGED <<state, reactions, unhandled, listener>>
    <2>1. ThenableJob(p) \in LiveJob(n)
        <3>1. Bare("thenable", p, 0) \in LiveReaction(n)
            BY <1>p, BareLive, BoundsAssumption DEF ReactionKind
        <3>2. Pending \in CleanState
            BY DEF Pending, CleanState, State, Value
        <3> QED BY <3>1, <3>2 DEF ThenableJob, JobOf, LiveJob
    <2>2. queue' \in Seq(LiveJob(n))
        BY <1>4, <2>1
    <2>3. Store(n)'
        BY <1>4, <2>2 DEF Store, SettledClean, IsPending
    <2>4. Heard'
        BY <1>4 DEF Heard, HandledNotReported, UnhandledComplete, IsPending
    <2> QED BY <1>4, <2>3, <2>4 DEF Keeps
<1>5. CASE Settle(p, Rejected(Plain), rest) /\ queue' = q /\ UNCHANGED listener
    <2>1. Final(Rejected(Plain))
        BY DEF Final, Rejected, CleanState, State, Value
    <2> QED BY <1>5, <1>l, <2>1, SettleStep
<1>6. CASE /\ x \in {Plain, TypeErr} /\ Settle(p, Fulfilled(x), rest)
           /\ queue' = q /\ UNCHANGED listener
    <2>1. Final(Fulfilled(x))
        BY <1>6 DEF Final, Fulfilled, CleanState, State, Value
    <2> QED BY <1>6, <1>l, <2>1, SettleStep
<1> QED BY <1>1, <1>2, <1>3, <1>4, <1>5, <1>6 DEF ResolveValue

(* reject_promise of a live promise. *)
LEMMA RejectStep ==
    ASSUME NEW n \in 0 .. MaxPromises, Store(n), Heard,
           NEW p \in Promise, p <= n, NEW e \in Value,
           NEW q \in Seq(LiveJob(n)), Reject(p, e, q), UNCHANGED reported
    PROVE  Store(n)' /\ Heard' /\ Keeps
<1>1. Final(Rejected(e))
    BY DEF Final, Rejected, CleanState, State
<1>2. OnlyLate
    BY DEF OnlyLate, Reject, Store
<1>3. <<>> \in Seq(LiveJob(n))
    OBVIOUS
<1> QED BY <1>1, <1>2, <1>3, SettleStep DEF Reject

(* Moving jobs between the cascade and the queue leaves the promises alone. *)
LEMMA QueueStep ==
    ASSUME NEW n \in 0 .. MaxPromises, Store(n), Heard,
           queue' \in Seq(LiveJob(n)), firing' \in Seq(LiveJob(n)),
           UNCHANGED <<state, reactions, unhandled, listener, reported>>
    PROVE  Store(n)' /\ Heard' /\ Keeps
<1>1. Store(n)'
    BY DEF Store, SettledClean, IsPending
<1>2. Heard'
    BY DEF Heard, HandledNotReported, UnhandledComplete, IsPending
<1> QED BY <1>1, <1>2 DEF Keeps

-----------------------------------------------------------------------------
(* The invariant is preserved, one lemma per group of actions *)

(* The invariant apart from the store. *)
Shell(n) ==
    /\ n \in 0 .. MaxPromises
    /\ pairs \in Seq(LivePair(n))
    /\ frames \in Seq(LiveFrame(n))
    /\ internal \subseteq Promise
    /\ reported \subseteq Promise \cup {Thrown}

(* What is well formed stays so when more promises are allocated. *)
LEMMA ShellMono ==
    ASSUME NEW m \in 0 .. MaxPromises, NEW n \in 0 .. MaxPromises, m <= n, Shell(m)
    PROVE  Shell(n)
BY LiveMono DEF Shell

(* The invariant is the conjunction of its three parts. *)
LEMMA IInvSplit == IInv <=> Store(alloc) /\ Heard /\ Shell(alloc)
BY DEF IInv, Shell

(* The pending state is a clean one. *)
LEMMA PendingClean == Pending \in CleanState
BY DEF Pending, CleanState, State, Value

(* The frame a job opens, and the frames below the running one. *)
LEMMA EnterLive ==
    ASSUME NEW n \in 0 .. MaxPromises, frames \in Seq(LiveFrame(n)),
           NEW k \in FrameKind, NEW p \in 0 .. n, NEW s \in CleanState,
           k \notin {"eval", "drain", "microtask"} => p >= 1,
           Enter(FrameOf(k, p, s))
    PROVE  frames' \in Seq(LiveFrame(n))
<1>1. FrameOf(k, p, s) \in LiveFrame(n)
    BY BoundsAssumption DEF FrameOf, LiveFrame, Frame, CleanState
<1> QED BY <1>1 DEF Enter

(* Leaving a frame keeps the stack well formed. *)
LEMMA LeaveLive ==
    ASSUME NEW n \in 0 .. MaxPromises, frames \in Seq(LiveFrame(n)), frames # <<>>
    PROVE  /\ Top \in LiveFrame(n)
           /\ Below \in Seq(LiveFrame(n))
BY PopSeq DEF Top, Below

(* Init establishes the invariant. *)
LEMMA InitInv == Init => IInv
<1> SUFFICES ASSUME Init PROVE IInv
    OBVIOUS
<1> USE DEF Init
<1>1. Store(alloc)
    BY PendingClean DEF Store, SettledClean, IsPending, Pending
<1>2. Heard
    BY DEF Heard, HandledNotReported, UnhandledComplete, IsPending, Pending
<1>3. Shell(alloc)
    BY BoundsAssumption DEF Shell
<1> QED BY <1>1, <1>2, <1>3, IInvSplit

(* What an action has to show: a promise bound n that alloc' has reached, *)
(* and the three parts at n.                                              *)
LEMMA StartFinishEval ==
    IInv /\ (StartEval \/ FinishEval \/ EndDrain) => IInv' /\ Keeps
<1> SUFFICES ASSUME IInv, StartEval \/ FinishEval \/ EndDrain PROVE IInv' /\ Keeps
    OBVIOUS
<1>1. Store(alloc) /\ Heard /\ Shell(alloc)
    BY IInvSplit
<1>2. UNCHANGED <<core, pairs, alloc, internal, reported>>
    BY DEF StartEval, FinishEval, EndDrain
<1>3. Store(alloc)' /\ Heard' /\ Keeps
    BY <1>1, <1>2, QueueStep DEF core, Store, Shell
<1>4. \A k \in {"eval", "drain"} : FrameOf(k, 0, Pending) \in LiveFrame(alloc)
    BY <1>1, PendingClean, BoundsAssumption
    DEF FrameOf, LiveFrame, Frame, FrameKind, CleanState, Shell
<1>5. frames' \in Seq(LiveFrame(alloc))
    <2>1. CASE StartEval
        BY <2>1, <1>1, <1>4 DEF StartEval, Enter, Shell
    <2>2. CASE FinishEval
        <3>1. Below \in Seq(LiveFrame(alloc))
            BY <2>2, <1>1, LeaveLive DEF FinishEval, Quiet, Shell
        <3> QED BY <3>1, <2>2, <1>4 DEF FinishEval, Leave
    <2>3. CASE EndDrain
        BY <2>3, <1>1, LeaveLive DEF EndDrain, Draining, StopDraining, Quiet, Leave, Shell
    <2> QED BY <2>1, <2>2, <2>3
<1>6. Shell(alloc)'
    BY <1>1, <1>2, <1>5 DEF Shell
<1> QED BY <1>3, <1>6 DEF IInv, Shell

(* A drain that gives up drops a job and a frame. *)
LEMMA HitLimitInv == IInv /\ HitJobLimit => IInv' /\ Keeps
<1> SUFFICES ASSUME IInv, HitJobLimit PROVE IInv' /\ Keeps
    OBVIOUS
<1>1. Store(alloc) /\ Heard /\ Shell(alloc)
    BY IInvSplit
<1>2. /\ UNCHANGED <<state, reactions, firing, unhandled, listener, pairs, alloc, internal, reported>>
      /\ queue # <<>> /\ queue' = Tail(queue) /\ frames # <<>> /\ frames' = Below
    BY DEF HitJobLimit, Draining, StopDraining, Quiet, Leave
<1>3. queue' \in Seq(LiveJob(alloc))
    BY <1>1, <1>2, HeadTail DEF Store
<1>4. Store(alloc)' /\ Heard' /\ Keeps
    BY <1>1, <1>2, <1>3, QueueStep DEF Store, Shell
<1>5. Shell(alloc)'
    BY <1>1, <1>2, LeaveLive DEF Shell
<1> QED BY <1>2, <1>4, <1>5 DEF IInv, Shell

(* The host's collection of the unhandled list preserves the invariant. *)
LEMMA TakeUnhandledInv == IInv /\ TakeUnhandled => IInv' /\ Keeps
<1> SUFFICES ASSUME IInv, TakeUnhandled PROVE IInv' /\ Keeps
    OBVIOUS
<1>1. Store(alloc) /\ Heard /\ Shell(alloc)
    BY IInvSplit
<1> USE DEF TakeUnhandled
<1>2. Store(alloc)'
    BY <1>1 DEF Store, SettledClean, IsPending
<1>3. Heard'
    BY <1>1 DEF Heard, HandledNotReported, UnhandledComplete, IsPending
<1>4. Shell(alloc)'
    BY <1>1 DEF Shell, Store
<1> QED BY <1>2, <1>3, <1>4 DEF IInv, Shell, Keeps

(* One step of a settlement's cascade preserves the invariant. *)
LEMMA FireInv == IInv /\ FireReaction => IInv' /\ Keeps
<1> SUFFICES ASSUME IInv, FireReaction PROVE IInv' /\ Keeps
    OBVIOUS
<1>1. Store(alloc) /\ Heard /\ Shell(alloc)
    BY IInvSplit
<1> DEFINE job == Head(firing)
<1>2. UNCHANGED <<pairs, frames, alloc, internal, reported>>
    BY DEF FireReaction
<1>3. /\ job \in LiveJob(alloc) /\ Tail(firing) \in Seq(LiveJob(alloc))
      /\ queue \in Seq(LiveJob(alloc)) /\ alloc \in 0 .. MaxPromises
    BY <1>1, HeadTail DEF Store, FireReaction, Shell
<1>4. job.r.kind = "forward" => job.r.promise \in Promise /\ job.r.promise <= alloc
    BY <1>3, BoundsAssumption DEF LiveJob, LiveReaction, Reaction, Promise
<1>5. job.s \in CleanState
    BY <1>3 DEF LiveJob
<1>6. Store(alloc)' /\ Heard' /\ Keeps
    <2>1. CASE /\ job.r.kind = "forward" /\ job.s.st = "fulfilled"
               /\ ResolveValue(job.r.promise, job.s.val, Tail(firing), queue)
        <3>1. job.s.val \in LiveValue(alloc)
            BY <2>1, <1>5, ValuesAssumption DEF CleanState, LiveValue, Value
        <3>2. Store(alloc)' /\ Heard' /\ Keeps
            BY <2>1, <3>1, <1>1, <1>2, <1>3, <1>4, ResolveStep DEF Store
        <3> QED BY <3>2
    <2>2. CASE /\ job.r.kind = "forward" /\ job.s.st = "rejected"
               /\ Settle(job.r.promise, job.s, Tail(firing)) /\ UNCHANGED <<queue, listener>>
        <3>1. Final(job.s) /\ OnlyLate
            BY <2>2, <1>1, <1>5 DEF Final, OnlyLate, Store
        <3> QED BY <2>2, <3>1, <1>1, <1>2, <1>3, <1>4, SettleStep DEF Store
    <2>3. CASE /\ queue' = Append(queue, job) /\ firing' = Tail(firing)
               /\ UNCHANGED <<state, reactions, unhandled, listener>>
        <3>1. queue' \in Seq(LiveJob(alloc))
            BY <2>3, <1>3
        <3> QED BY <2>3, <3>1, <1>1, <1>2, <1>3, QueueStep DEF Store
    <2> QED BY <2>1, <2>2, <2>3 DEF FireReaction
<1>7. Shell(alloc)'
    BY <1>1, <1>2 DEF Shell
<1> QED BY <1>6, <1>7 DEF IInv, Shell

(* A job that calls user code opens a frame and leaves the promises alone. *)
LEMMA CallUserInv ==
    ASSUME Store(alloc), Heard, Shell(alloc), queue # <<>>,
           NEW kind \in FrameKind, NEW orig \in CleanState,
           CallUser(kind, orig),
           kind \notin {"eval", "drain", "microtask"} => Head(queue).r.kind # "microtask",
           UNCHANGED <<alloc, reported>>
    PROVE  /\ Store(alloc)' /\ Heard' /\ Keeps
           /\ frames' \in Seq(LiveFrame(alloc))
<1>1. /\ Head(queue) \in LiveJob(alloc)
      /\ Tail(queue) \in Seq(LiveJob(alloc))
      /\ firing \in Seq(LiveJob(alloc))
      /\ alloc \in 0 .. MaxPromises
    BY HeadTail DEF Store, Shell
<1>2. Store(alloc)' /\ Heard' /\ Keeps
    BY <1>1, QueueStep DEF CallUser
<1>3. JobPromise \in 0 .. alloc
    BY <1>1, BoundsAssumption DEF JobPromise, LiveJob, LiveReaction, Reaction
<1>4. kind \notin {"eval", "drain", "microtask"} => JobPromise >= 1
    BY <1>1 DEF JobPromise, LiveJob, LiveReaction
<1>5. frames' \in Seq(LiveFrame(alloc))
    BY <1>1, <1>3, <1>4, EnterLive DEF CallUser, Shell
<1> QED BY <1>2, <1>5

(* Starting a job, or running one that calls no user code, preserves the invariant. *)
LEMMA RunJobInv == IInv /\ RunJob => IInv' /\ Keeps
<1> SUFFICES ASSUME IInv, RunJob PROVE IInv' /\ Keeps
    OBVIOUS
<1>1. Store(alloc) /\ Heard /\ Shell(alloc) /\ alloc \in 0 .. MaxPromises
    BY IInvSplit DEF Shell
<1>2. UNCHANGED <<alloc, internal, reported>> /\ queue # <<>>
    BY DEF RunJob, RunHandler, RunPassThrough, RunFinally, RunFinallyPropagate,
           RunAsyncResume, RunThenable, RunMicrotask, NextJob
<1>3. /\ Head(queue) \in LiveJob(alloc)
      /\ Tail(queue) \in Seq(LiveJob(alloc))
    BY <1>1, <1>2, HeadTail DEF Store
<1>4. JobSettlement \in CleanState /\ Head(queue).r.orig \in CleanState
    BY <1>3 DEF JobSettlement, LiveJob, LiveReaction
<1>5. Head(queue).r.kind # "microtask" => JobPromise \in Promise /\ JobPromise <= alloc
    BY <1>1, <1>3, BoundsAssumption DEF JobPromise, LiveJob, LiveReaction, Reaction, Promise
<1>6. <<>> \in Seq(LiveJob(alloc))
    OBVIOUS
<1>7. \A s \in CleanState : s.st = "fulfilled" => s.val \in LiveValue(alloc)
    BY ValuesAssumption DEF CleanState, LiveValue, Value
<1>8. \A s \in CleanState : s.val \in Value
    BY DEF CleanState, State
(* Jobs that settle a promise at once *)
<1>9. ASSUME NEW s \in CleanState, s.st = "fulfilled", Head(queue).r.kind # "microtask",
             ResolveValue(JobPromise, s.val, <<>>, Tail(queue))
      PROVE  Store(alloc)' /\ Heard' /\ Keeps
    BY <1>1, <1>2, <1>3, <1>5, <1>6, <1>7, <1>9, ResolveStep
<1>10. ASSUME NEW s \in CleanState, Head(queue).r.kind # "microtask",
              Reject(JobPromise, s.val, Tail(queue))
       PROVE  Store(alloc)' /\ Heard' /\ Keeps
    BY <1>1, <1>2, <1>3, <1>5, <1>8, <1>10, RejectStep
<1>11. ASSUME Store(alloc)' /\ Heard' /\ Keeps, UNCHANGED <<pairs, frames>>
       PROVE  IInv' /\ Keeps
    BY <1>1, <1>2, <1>11 DEF IInv, Shell
<1>12. ASSUME Store(alloc)' /\ Heard' /\ Keeps, frames' \in Seq(LiveFrame(alloc)),
              UNCHANGED pairs
       PROVE  IInv' /\ Keeps
    BY <1>1, <1>2, <1>12 DEF IInv, Shell
<1>13. CASE RunHandler
    BY <1>13, <1>1, <1>2, <1>12, PendingClean, CallUserInv DEF RunHandler, NextJob, FrameKind
<1>14. CASE RunPassThrough
    BY <1>14, <1>4, <1>9, <1>10, <1>11 DEF RunPassThrough, NextJob
<1>15. CASE RunFinally
    BY <1>15, <1>1, <1>2, <1>4, <1>12, CallUserInv DEF RunFinally, NextJob, FrameKind
<1>16. CASE RunFinallyPropagate
    BY <1>16, <1>4, <1>9, <1>10, <1>11 DEF RunFinallyPropagate, NextJob
<1>17. CASE RunAsyncResume
    BY <1>17, <1>1, <1>2, <1>12, PendingClean, CallUserInv DEF RunAsyncResume, NextJob, FrameKind
<1>18. CASE RunThenable
    <2>1. Store(alloc)' /\ Heard' /\ Keeps /\ frames' \in Seq(LiveFrame(alloc))
        BY <1>18, <1>1, <1>2, PendingClean, CallUserInv DEF RunThenable, NextJob, FrameKind
    <2>2. [cap |-> JobPromise, used |-> FALSE] \in LivePair(alloc)
        BY <1>18, <1>5 DEF RunThenable, NextJob, LivePair
    <2>3. pairs' \in Seq(LivePair(alloc))
        BY <1>18, <1>1, <2>2 DEF RunThenable, Shell
    <2> QED BY <2>1, <2>3, <1>1, <1>2 DEF IInv, Shell
<1>19. CASE RunMicrotask
    BY <1>19, <1>1, <1>2, <1>12, PendingClean, CallUserInv DEF RunMicrotask, NextJob, FrameKind
<1> QED BY <1>13, <1>14, <1>15, <1>16, <1>17, <1>18, <1>19 DEF RunJob

(* Facts about an allocating step: the store and the shell as seen from *)
(* the new bound n = alloc'.                                            *)
LEMMA AllocateFacts ==
    ASSUME IInv, Allocate
    PROVE  /\ Fresh \in 0 .. MaxPromises /\ Fresh \in Promise /\ Fresh >= 1
           /\ Store(Fresh) /\ Heard /\ Shell(Fresh)
           /\ IsPending(Fresh) /\ reactions[Fresh] = <<>>
           /\ \A v \in Value : UserValue(v) => v \in LiveValue(Fresh) /\ v # Fresh
           /\ \A p \in Promise : Exposed(p) => p < Fresh
<1>1. Store(alloc) /\ Heard /\ Shell(alloc) /\ alloc \in 0 .. MaxPromises
    BY IInvSplit DEF Shell
<1>2. Fresh \in 0 .. MaxPromises /\ Fresh \in Promise /\ alloc <= Fresh /\ Fresh > alloc /\ Fresh >= 1
    BY <1>1, BoundsAssumption DEF Allocate, Fresh, Promise
<1>3. Store(Fresh) /\ Shell(Fresh)
    BY <1>1, <1>2, StoreMono, ShellMono
<1>4. IsPending(Fresh) /\ reactions[Fresh] = <<>>
    BY <1>1, <1>2 DEF Store
<1>5. \A p \in Promise : Exposed(p) => p < Fresh
    BY <1>1, <1>2, BoundsAssumption DEF Exposed, Promise, Fresh
<1>6. \A v \in Value : UserValue(v) => v \in LiveValue(Fresh) /\ v # Fresh
    <2>1. ASSUME NEW v \in Value, UserValue(v) PROVE v \in LiveValue(Fresh) /\ v # Fresh
        <3>1. CASE UserInput(v)
            BY <3>1, <1>2, ValuesAssumption DEF UserInput, LiveValue
        <3>2. CASE v \in Promise /\ Exposed(v)
            BY <3>2, <1>2, <1>5, BoundsAssumption DEF LiveValue, Promise
        <3> QED BY <2>1, <3>1, <3>2 DEF UserValue
    <2> QED BY <2>1
<1> QED BY <1>1, <1>2, <1>3, <1>4, <1>5, <1>6

(* Allocating a promise for an executor, withResolvers or an async call preserves
   the invariant. *)
LEMMA NewPairInv ==
    IInv /\ (NewPromise \/ WithResolvers \/ CallAsync) => IInv' /\ Keeps
<1> SUFFICES ASSUME IInv, NewPromise \/ WithResolvers \/ CallAsync PROVE IInv' /\ Keeps
    OBVIOUS
<1>1. Allocate /\ alloc' = Fresh /\ UNCHANGED <<core, internal, reported>>
    BY DEF NewPromise, WithResolvers, CallAsync, Allocate
<1>2. PICK n \in 0 .. MaxPromises : n = Fresh
    BY <1>1, AllocateFacts
<1>3. Store(n) /\ Heard /\ Shell(n) /\ n \in Promise /\ n >= 1
    BY <1>1, <1>2, AllocateFacts
<1>4. Store(n)' /\ Heard' /\ Keeps
    BY <1>1, <1>3, QueueStep DEF core, Store
<1>5. frames' \in Seq(LiveFrame(n))
    <2>1. \A k \in {"executor", "async"} : FrameOf(k, n, Pending) \in LiveFrame(n)
        BY <1>3, PendingClean, BoundsAssumption DEF FrameOf, LiveFrame, Frame, FrameKind, CleanState
    <2>2. \/ frames' = frames
          \/ \E k \in {"executor", "async"} : frames' = Append(frames, FrameOf(k, n, Pending))
        BY <1>2 DEF NewPromise, WithResolvers, CallAsync, Enter
    <2>3. frames \in Seq(LiveFrame(n))
        BY <1>3 DEF Shell
    <2> QED BY <2>1, <2>2, <2>3, AppendProperties
<1>6. pairs' \in Seq(LivePair(n))
    <2>1. [cap |-> n, used |-> FALSE] \in LivePair(n)
        BY <1>3 DEF LivePair
    <2>2. pairs' = pairs \/ pairs' = Append(pairs, [cap |-> n, used |-> FALSE])
        BY <1>2, <1>3 DEF NewPromise, WithResolvers, CallAsync
    <2>3. pairs \in Seq(LivePair(n))
        BY <1>3 DEF Shell
    <2> QED BY <2>1, <2>2, <2>3, AppendProperties
<1> QED BY <1>1, <1>2, <1>3, <1>4, <1>5, <1>6 DEF IInv, Shell

(* A call through a resolver pair. *)
LEMMA CallResolverInv ==
    ASSUME IInv, NEW i \in DOMAIN pairs,
           \/ \E v \in Value : UserValue(v) /\ CallResolve(i, v)
           \/ \E e \in Reasons : CallReject(i, e)
    PROVE  IInv' /\ Keeps
<1>1. Store(alloc) /\ Heard /\ Shell(alloc) /\ alloc \in 0 .. MaxPromises
    BY IInvSplit DEF Shell
<1>2. /\ UNCHANGED <<frames, alloc, internal, reported>>
      /\ pairs' = [pairs EXCEPT ![i].used = TRUE]
    BY DEF CallResolve, CallReject
<1>3. pairs[i] \in LivePair(alloc)
    BY <1>1 DEF Shell
<1>4. pairs[i].cap \in Promise /\ pairs[i].cap <= alloc
    BY <1>3 DEF LivePair
<1>5. pairs' \in Seq(LivePair(alloc))
    <2>1. [pairs[i] EXCEPT !.used = TRUE] \in LivePair(alloc)
        BY <1>3 DEF LivePair
    <2> QED BY <2>1, <1>1, <1>2 DEF Shell
<1>6. <<>> \in Seq(LiveJob(alloc)) /\ queue \in Seq(LiveJob(alloc))
    BY <1>1 DEF Store
<1>7. Store(alloc)' /\ Heard' /\ Keeps
    <2>1. ASSUME NEW v \in Value, UserValue(v), CallResolve(i, v)
          PROVE  Store(alloc)' /\ Heard' /\ Keeps
        <3>1. v \in LiveValue(alloc)
            BY <2>1, ValuesAssumption DEF UserValue, UserInput, Exposed, LiveValue
        <3>2. ResolveValue(pairs[i].cap, v, <<>>, queue)
            BY <2>1 DEF CallResolve
        <3> QED BY <3>1, <3>2, <1>1, <1>2, <1>4, <1>6, ResolveStep
    <2>2. ASSUME NEW e \in Reasons, CallReject(i, e)
          PROVE  Store(alloc)' /\ Heard' /\ Keeps
        <3>1. e \in Value
            BY ValuesAssumption DEF Value
        <3>2. Reject(pairs[i].cap, e, queue)
            BY <2>2 DEF CallReject
        <3> QED BY <3>1, <3>2, <1>1, <1>2, <1>4, <1>6, RejectStep
    <2> QED BY <2>1, <2>2
<1> QED BY <1>1, <1>2, <1>5, <1>7 DEF IInv, Shell

(* attach_reaction, for a reaction of a live promise. *)
LEMMA AttachStep ==
    ASSUME NEW n \in 0 .. MaxPromises, Store(n), Heard,
           NEW p \in Promise, p <= n, NEW r \in LiveReaction(n),
           AttachReaction(p, r), UNCHANGED reported
    PROVE  Store(n)' /\ Heard' /\ Keeps
<1>1. Listen(p) /\ UNCHANGED <<state, firing>>
    BY DEF AttachReaction
<1>2. queue \in Seq(LiveJob(n)) /\ firing \in Seq(LiveJob(n))
    BY DEF Store
<1>3. CASE /\ IsPending(p) /\ UNCHANGED queue
           /\ reactions' = [reactions EXCEPT ![p] = Append(@, r)]
    BY <1>1, <1>2, <1>3, PushStep
<1>4. CASE /\ ~IsPending(p) /\ UNCHANGED reactions
           /\ queue' = Append(queue, JobOf(r, state[p]))
    <2>1. JobOf(r, state[p]) \in LiveJob(n)
        BY DEF JobOf, LiveJob, Store
    <2>2. queue' \in Seq(LiveJob(n))
        BY <2>1, <1>2, <1>4
    <2>3. /\ listener' \in [Promise -> {"none", "late", "attached"}]
          /\ listener'[p] = "attached"
          /\ \A q \in Promise \ {p} : listener'[q] = listener[q]
          /\ unhandled' = unhandled \ {p}
        BY <1>1 DEF Listen, Store
    <2>4. Store(n)'
        BY <1>1, <1>4, <2>2, <2>3 DEF Store, SettledClean, IsPending
    <2>5. Heard'
        BY <1>1, <1>4, <2>3 DEF Heard, HandledNotReported, UnhandledComplete, IsPending
    <2> QED BY <1>1, <2>4, <2>5 DEF Keeps
<1> QED BY <1>3, <1>4 DEF AttachReaction

(* then and finally. *)
LEMMA ThenInv ==
    ASSUME IInv, NEW p \in Promise,
           \/ \E f, r \in BOOLEAN : Then(p, f, r)
           \/ Finally(p)
    PROVE  IInv' /\ Keeps
<1>1. Allocate /\ alloc' = Fresh /\ Exposed(p) /\ UNCHANGED <<pairs, frames, internal, reported>>
    BY DEF Then, Finally, Allocate
<1>2. PICK n \in 0 .. MaxPromises : n = Fresh
    BY <1>1, AllocateFacts
<1>3. Store(n) /\ Heard /\ Shell(n) /\ n \in Promise /\ n >= 1 /\ p <= n
    BY <1>1, <1>2, AllocateFacts, BoundsAssumption DEF Promise
<1>4. PICK r : AttachReaction(p, r) /\ r \in LiveReaction(n)
    <2>1. \A k \in ReactionKind \ {"microtask"} : Bare(k, n, p) \in LiveReaction(n)
        BY <1>3, BareLive, BoundsAssumption DEF Promise
    <2>2. ASSUME NEW f \in BOOLEAN, NEW g \in BOOLEAN, Then(p, f, g)
          PROVE  \E r : AttachReaction(p, r) /\ r \in LiveReaction(n)
        <3>1. [Bare("then", n, p) EXCEPT !.onF = f, !.onR = g] \in LiveReaction(n)
            <4>1. Bare("then", n, p) \in LiveReaction(n)
                BY <2>1 DEF ReactionKind
            <4> QED BY <4>1 DEF LiveReaction, Reaction, Bare
        <3> QED BY <2>2, <3>1, <1>2 DEF Then
    <2>3. CASE Finally(p)
        BY <2>1, <2>3, <1>2 DEF Finally, ReactionKind
    <2> QED BY <2>2, <2>3
<1>5. Store(n)' /\ Heard' /\ Keeps
    BY <1>1, <1>3, <1>4, AttachStep
<1> QED BY <1>1, <1>2, <1>3, <1>5 DEF IInv, Shell

(* Promise.resolve and Promise.reject. *)
LEMMA StaticInv ==
    ASSUME IInv,
           \/ \E v \in Inputs : UserInput(v) /\ StaticResolve(v)
           \/ \E e \in Reasons : StaticReject(e)
    PROVE  IInv' /\ Keeps
<1>1. Allocate /\ alloc' = Fresh /\ UNCHANGED <<pairs, frames, internal, reported>>
    BY DEF StaticResolve, StaticReject, Allocate
<1>2. PICK n \in 0 .. MaxPromises : n = Fresh
    BY <1>1, AllocateFacts
<1>3. Store(n) /\ Heard /\ Shell(n) /\ n \in Promise /\ n <= n
    BY <1>1, <1>2, AllocateFacts
<1>4. <<>> \in Seq(LiveJob(n)) /\ queue \in Seq(LiveJob(n))
    BY <1>3 DEF Store
<1>5. \A v \in Inputs \cup Reasons : v \in LiveValue(n) /\ v \in Value
    BY ValuesAssumption DEF LiveValue, Value
<1>6. Store(n)' /\ Heard' /\ Keeps
    <2>1. ASSUME NEW v \in Inputs, StaticResolve(v)
          PROVE  Store(n)' /\ Heard' /\ Keeps
        <3>1. ResolveValue(n, v, <<>>, queue)
            BY <2>1, <1>2 DEF StaticResolve
        <3> QED BY <3>1, <1>1, <1>3, <1>4, <1>5, ResolveStep
    <2>2. ASSUME NEW e \in Reasons, StaticReject(e)
          PROVE  Store(n)' /\ Heard' /\ Keeps
        <3>1. Reject(n, e, queue)
            BY <2>2, <1>2 DEF StaticReject
        <3> QED BY <3>1, <1>1, <1>3, <1>4, <1>5, RejectStep
    <2> QED BY <2>1, <2>2
<1> QED BY <1>1, <1>2, <1>3, <1>6 DEF IInv, Shell

(* queueMicrotask preserves the invariant. *)
LEMMA MicrotaskInv == IInv /\ QueueMicrotask => IInv' /\ Keeps
<1> SUFFICES ASSUME IInv, QueueMicrotask PROVE IInv' /\ Keeps
    OBVIOUS
<1>1. Store(alloc) /\ Heard /\ Shell(alloc) /\ alloc \in 0 .. MaxPromises
    BY IInvSplit DEF Shell
<1>2. MicrotaskJob \in LiveJob(alloc)
    BY <1>1, PendingClean, BoundsAssumption
    DEF MicrotaskJob, JobOf, Bare, LiveJob, LiveReaction, Reaction, ReactionKind, CleanState
<1>3. queue' \in Seq(LiveJob(alloc)) /\ firing' \in Seq(LiveJob(alloc))
    BY <1>1, <1>2 DEF QueueMicrotask, Store
<1>4. Store(alloc)' /\ Heard' /\ Keeps
    BY <1>1, <1>3, QueueStep DEF QueueMicrotask
<1> QED BY <1>1, <1>4 DEF IInv, Shell, QueueMicrotask

(* The running frame and the promise its completion settles. *)
LEMMA TopFacts ==
    ASSUME IInv, UserTurn
    PROVE  /\ Store(alloc) /\ Heard /\ Shell(alloc) /\ alloc \in 0 .. MaxPromises
           /\ firing = <<>> /\ Top \in LiveFrame(alloc)
           /\ Below \in Seq(LiveFrame(alloc))
           /\ Top.k \notin {"eval", "drain", "microtask"} =>
                 Top.cap \in Promise /\ Top.cap <= alloc /\ Top.cap >= 1
           /\ Top.orig \in CleanState
<1>1. Store(alloc) /\ Heard /\ Shell(alloc) /\ alloc \in 0 .. MaxPromises
    BY IInvSplit DEF Shell
<1>2. Top \in LiveFrame(alloc) /\ Below \in Seq(LiveFrame(alloc)) /\ firing = <<>>
    BY <1>1, LeaveLive DEF UserTurn, Quiet, Shell
<1>3. Top.k \notin {"eval", "drain", "microtask"} =>
          Top.cap \in Promise /\ Top.cap <= alloc /\ Top.cap >= 1
    BY <1>1, <1>2, BoundsAssumption DEF LiveFrame, Frame, Promise
<1>4. Top.orig \in CleanState
    BY <1>2 DEF LiveFrame
<1> QED BY <1>1, <1>2, <1>3, <1>4

(* A return or a throw of user code, but for a finally callback's return, preserves
   the invariant. *)
LEMMA ReturnInv ==
    ASSUME IInv,
           \/ \E v \in Value : UserValue(v) /\ ReturnValue(v)
           \/ \E e \in Reasons : ThrowRejects(e)
           \/ ReturnIgnored
           \/ ThrowMicrotask
    PROVE  IInv' /\ Keeps
<1>1. UserTurn /\ frames' = Below /\ UNCHANGED <<pairs, alloc, internal, reported>>
    BY DEF ReturnValue, ThrowRejects, ReturnIgnored, ThrowMicrotask, Leave
<1>2. /\ Store(alloc) /\ Heard /\ Shell(alloc) /\ alloc \in 0 .. MaxPromises
      /\ Below \in Seq(LiveFrame(alloc))
      /\ Top.k \notin {"eval", "drain", "microtask"} => Top.cap \in Promise /\ Top.cap <= alloc
    BY <1>1, TopFacts
<1>3. <<>> \in Seq(LiveJob(alloc)) /\ queue \in Seq(LiveJob(alloc)) /\ firing \in Seq(LiveJob(alloc))
    BY <1>2 DEF Store
<1>4. Store(alloc)' /\ Heard' /\ Keeps
    <2>1. ASSUME NEW v \in Value, UserValue(v), ReturnValue(v)
          PROVE  Store(alloc)' /\ Heard' /\ Keeps
        <3>1. v \in LiveValue(alloc)
            BY <2>1, ValuesAssumption DEF UserValue, UserInput, Exposed, LiveValue
        <3>2. ResolveValue(Top.cap, v, <<>>, queue) /\ Top.k \notin {"eval", "drain", "microtask"}
            BY <2>1 DEF ReturnValue
        <3> QED BY <3>1, <3>2, <1>1, <1>2, <1>3, ResolveStep
    <2>2. ASSUME NEW e \in Reasons, ThrowRejects(e)
          PROVE  Store(alloc)' /\ Heard' /\ Keeps
        <3>1. Reject(Top.cap, e, queue) /\ Top.k \notin {"eval", "drain", "microtask"} /\ e \in Value
            BY <2>2, ValuesAssumption DEF ThrowRejects, Value
        <3> QED BY <3>1, <1>1, <1>2, <1>3, RejectStep
    <2>3. CASE ReturnIgnored
        BY <2>3, <1>1, <1>2, <1>3, QueueStep DEF ReturnIgnored, core
    <2>4. CASE ThrowMicrotask
        <3>0. Thrown \notin Promise
            BY ValuesAssumption
        <3>1. Store(alloc)'
            BY <2>4, <1>2 DEF ThrowMicrotask, Store, SettledClean, IsPending
        <3>2. Heard'
            BY <2>4, <1>2, <3>0 DEF ThrowMicrotask, Heard, HandledNotReported, UnhandledComplete, IsPending
        <3> QED BY <2>4, <3>1, <3>2 DEF ThrowMicrotask, Keeps
    <2> QED BY <2>1, <2>2, <2>3, <2>4
<1> QED BY <1>1, <1>2, <1>4 DEF IInv, Shell

(* A fresh promise the engine settles itself, with a late listener. *)
LEMMA SettledWrapper ==
    ASSUME NEW n \in 0 .. MaxPromises, Store(n), Heard,
           NEW m \in Promise, m <= n, IsPending(m), reactions[m] = <<>>,
           NEW s, Final(s), firing = <<>>,
           state' = [state EXCEPT ![m] = s],
           unhandled' = IF s.st = "rejected" THEN unhandled \cup {m} ELSE unhandled,
           OnlyLate, queue' \in Seq(LiveJob(n)),
           UNCHANGED <<reactions, firing, reported>>
    PROVE  Store(n)' /\ Heard' /\ Keeps
<1>1. firing' = Triggered(reactions[m], s) \o <<>>
    BY DEF Triggered
<1>2. reactions' = [reactions EXCEPT ![m] = <<>>]
    BY DEF Store
<1>3. Settle(m, s, <<>>)
    BY <1>1, <1>2 DEF Settle, Triggered
<1>4. <<>> \in Seq(LiveJob(n))
    OBVIOUS
<1> QED BY <1>3, <1>4, SettleStep

(* A fresh promise that waits, with its one reaction. *)
LEMMA PendingWrapper ==
    ASSUME NEW n \in 0 .. MaxPromises, Store(n), Heard,
           NEW m \in Promise, m <= n, IsPending(m), reactions[m] = <<>>,
           NEW r \in LiveReaction(n), reactions' = [reactions EXCEPT ![m] = <<r>>],
           listener' = [listener EXCEPT ![m] = "attached"],
           queue' \in Seq(LiveJob(n)),
           UNCHANGED <<state, unhandled, firing, reported>>
    PROVE  Store(n)' /\ Heard' /\ Keeps
<1>1. unhandled' = unhandled \ {m}
    BY DEF Heard
<1>2. reactions' = [reactions EXCEPT ![m] = Append(@, r)]
    BY DEF Store
<1>3. Listen(m)
    BY <1>1 DEF Listen
<1>4. firing' \in Seq(LiveJob(n))
    BY DEF Store
<1> QED BY <1>2, <1>3, <1>4, PushStep

(* await on a promise preserves the invariant. *)
LEMMA AwaitPromiseInv ==
    ASSUME IInv, NEW p \in Promise, AwaitPromise(p)
    PROVE  IInv' /\ Keeps
<1>1. /\ UserTurn /\ Exposed(p) /\ frames' = Below
      /\ UNCHANGED <<state, firing, pairs, alloc, internal, reported>>
      /\ Top.k \notin {"eval", "drain", "microtask"}
    BY DEF AwaitPromise, InAsync, Leave
<1>2. /\ Store(alloc) /\ Heard /\ Shell(alloc) /\ alloc \in 0 .. MaxPromises
      /\ Below \in Seq(LiveFrame(alloc))
      /\ Top.cap \in Promise /\ Top.cap <= alloc /\ p <= alloc
    BY <1>1, TopFacts DEF Exposed
<1>3. queue \in Seq(LiveJob(alloc)) /\ firing \in Seq(LiveJob(alloc))
    BY <1>2 DEF Store
<1> DEFINE r == Bare("async", Top.cap, p)
<1>4. r \in LiveReaction(alloc)
    <2>1. Top.cap \in 1 .. alloc /\ p \in 0 .. MaxPromises
        BY <1>2, BoundsAssumption DEF Promise
    <2> QED BY <2>1, <1>2, BareLive DEF ReactionKind
<1> HIDE DEF r
<1>5. Store(alloc)' /\ Heard' /\ Keeps
    <2>1. CASE /\ IsPending(p) /\ Listen(p) /\ UNCHANGED queue
               /\ reactions' = [reactions EXCEPT ![p] = Append(@, r)]
        BY <2>1, <1>1, <1>2, <1>3, <1>4, PushStep
    <2>2. CASE /\ ~IsPending(p) /\ queue' = Append(queue, JobOf(r, state[p]))
               /\ listener' = ListenLate(p) /\ UNCHANGED <<reactions, unhandled>>
        <3>1. JobOf(r, state[p]) \in LiveJob(alloc)
            BY <1>2, <1>4 DEF JobOf, LiveJob, Store
        <3>2. queue' \in Seq(LiveJob(alloc))
            BY <2>2, <3>1, <1>3
        <3>3. OnlyLate
            BY <2>2, <1>2 DEF OnlyLate, ListenLate, Store
        <3>4. Settle(p, state[p], firing) /\ Final(state[p])
            BY <2>2, <1>1, <1>2 DEF Settle, Final, Store, IsPending
        <3> QED BY <3>2, <3>3, <3>4, <1>1, <1>2, <1>3, SettleStep
    <2> QED BY <2>1, <2>2 DEF AwaitPromise, r
<1> QED BY <1>1, <1>2, <1>5 DEF IInv, Shell

(* await on any other value, through its wrapper promise, preserves the invariant. *)
LEMMA AwaitOtherInv ==
    ASSUME IInv, NEW v \in Inputs, AwaitOther(v)
    PROVE  IInv' /\ Keeps
<1>1. /\ UserTurn /\ Allocate /\ alloc' = Fresh /\ frames' = Below
      /\ UNCHANGED <<firing, pairs, reported>> /\ internal' = internal \cup {Fresh}
      /\ Top.k \notin {"eval", "drain", "microtask"}
    BY DEF AwaitOther, InAsync, Leave, Allocate
<1>2. PICK n \in 0 .. MaxPromises : n = Fresh
    BY <1>1, AllocateFacts
<1>3. /\ Store(n) /\ Heard /\ Shell(n) /\ n \in Promise /\ n <= n
      /\ IsPending(n) /\ reactions[n] = <<>>
    BY <1>1, <1>2, AllocateFacts
<1>4. /\ firing = <<>> /\ Below \in Seq(LiveFrame(n)) /\ Top.cap \in 1 .. n
    <2>1. alloc \in 0 .. MaxPromises /\ alloc <= n
        BY <1>1, <1>2, TopFacts DEF Fresh
    <2> QED BY <2>1, <1>1, TopFacts, LiveMono, BoundsAssumption DEF Promise
<1> DEFINE r == Bare("async", Top.cap, n)
<1>5. r \in LiveReaction(n) /\ ThenableJob(n) \in LiveJob(n)
    <2>1. \A k \in ReactionKind \ {"microtask"} : Bare(k, Top.cap, n) \in LiveReaction(n)
        BY <1>3, <1>4, BareLive
    <2>2. \A k \in ReactionKind \ {"microtask"} : Bare(k, n, 0) \in LiveReaction(n)
        BY <1>3, BareLive, BoundsAssumption DEF Promise
    <2> QED BY <2>1, <2>2, PendingClean DEF ReactionKind, ThenableJob, JobOf, LiveJob
<1> HIDE DEF r
<1>6. queue \in Seq(LiveJob(n))
    BY <1>3 DEF Store
<1>7. Store(n)' /\ Heard' /\ Keeps
    <2>1. CASE /\ queue' = Append(queue, ThenableJob(n))
               /\ reactions' = [reactions EXCEPT ![n] = <<r>>]
               /\ listener' = [listener EXCEPT ![n] = "attached"]
               /\ UNCHANGED <<state, unhandled>>
        <3>1. queue' \in Seq(LiveJob(n))
            BY <2>1, <1>5, <1>6
        <3> QED BY <2>1, <3>1, <1>1, <1>3, <1>5, PendingWrapper
    <2>2. ASSUME NEW s \in {Rejected(Plain), Fulfilled(Plain)},
                 state' = [state EXCEPT ![n] = s],
                 unhandled' = IF s.st = "rejected" THEN unhandled \cup {n} ELSE unhandled,
                 queue' = Append(queue, JobOf(r, s)),
                 listener' = [listener EXCEPT ![n] = "late"], UNCHANGED reactions
          PROVE  Store(n)' /\ Heard' /\ Keeps
        <3>1. Final(s)
            BY DEF Final, Rejected, Fulfilled, CleanState, State, Value
        <3>2. queue' \in Seq(LiveJob(n))
            <4>1. JobOf(r, s) \in LiveJob(n)
                BY <3>1, <1>5 DEF JobOf, LiveJob, Final
            <4> QED BY <2>2, <4>1, <1>6
        <3>3. OnlyLate
            BY <2>2, <1>3 DEF OnlyLate, Heard, Store
        <3> QED BY <2>2, <3>1, <3>2, <3>3, <1>1, <1>3, <1>4, SettledWrapper
    <2>3. \A s : s = (IF v = BadThen THEN Rejected(Plain) ELSE Fulfilled(v)) /\ v \in {Plain, BadThen}
               => s \in {Rejected(Plain), Fulfilled(Plain)}
        OBVIOUS
    <2> QED BY <2>1, <2>2, <2>3, <1>2 DEF AwaitOther, r
<1>8. internal' \subseteq Promise
    BY <1>1, <1>2, <1>3 DEF Shell
<1> QED BY <1>1, <1>2, <1>3, <1>4, <1>7, <1>8 DEF IInv, Shell

(* An adopted promise x gets a Forward, and the fresh promise that adopts it *)
(* its own reaction, in one step.                                            *)
LEMMA PushTwo ==
    ASSUME NEW n \in 0 .. MaxPromises, Store(n), Heard,
           NEW x \in Promise, x <= n, IsPending(x),
           NEW m \in Promise, m <= n, m # x, IsPending(m), reactions[m] = <<>>,
           NEW r \in LiveReaction(n), NEW f \in LiveReaction(n),
           reactions' = [reactions EXCEPT ![x] = Append(@, r), ![m] = <<f>>],
           listener' = [listener EXCEPT ![x] = "attached", ![m] = "attached"],
           unhandled' = unhandled \ {x},
           UNCHANGED <<state, queue, firing, reported>>
    PROVE  Store(n)' /\ Heard' /\ Keeps
<1> USE DEF IsPending
<1>1. /\ Append(reactions[x], r) \in Seq(LiveReaction(n))
      /\ Append(reactions[x], r) # <<>>
      /\ <<f>> \in Seq(LiveReaction(n)) /\ <<f>> # <<>>
    <2>1. reactions[x] \in Seq(LiveReaction(n))
        BY DEF Store
    <2> QED BY <2>1, AppendProperties, EmptySeq
<1>2. /\ reactions' \in [Promise -> Seq(LiveReaction(n))]
      /\ reactions'[x] # <<>> /\ reactions'[m] # <<>>
      /\ \A q \in Promise \ {x, m} : reactions'[q] = reactions[q]
    BY <1>1 DEF Store
<1>3. /\ listener' \in [Promise -> {"none", "late", "attached"}]
      /\ listener'[x] = "attached" /\ listener'[m] = "attached"
      /\ \A q \in Promise \ {x, m} : listener'[q] = listener[q]
    BY DEF Store
<1>4. \A q \in Promise : q > n => IsPending(q)' /\ reactions'[q] = <<>>
    <2>1. ASSUME NEW q \in Promise, q > n
          PROVE  q \in Promise \ {x, m} /\ IsPending(q) /\ reactions[q] = <<>>
        <3>1. q # x /\ q # m
            BY <2>1, BoundsAssumption DEF Promise
        <3> QED BY <2>1, <3>1 DEF Store
    <2> QED BY <2>1, <1>2
<1>5. Store(n)'
    <2>1. SettledClean'
        BY <1>2 DEF Store, SettledClean
    <2> QED BY <2>1, <1>2, <1>3, <1>4 DEF Store
<1>6. Heard'
    <2>1. \A q \in Promise : IsPending(q)' =>
              q \notin unhandled' /\ (listener'[q] = "attached" <=> reactions'[q] # <<>>)
        BY <1>2, <1>3 DEF Heard
    <2>2. HandledNotReported'
        BY <1>3 DEF Heard, HandledNotReported
    <2>3. UnhandledComplete'
        BY <1>3 DEF Heard, UnhandledComplete
    <2> QED BY <2>1, <2>2, <2>3 DEF Heard
<1> QED BY <1>5, <1>6 DEF Keeps

(* The return of a finally callback preserves the invariant. *)
LEMMA ReturnFinallyInv ==
    ASSUME IInv, NEW v \in Value, UserValue(v), ReturnFinally(v)
    PROVE  IInv' /\ Keeps
<1>1. /\ UserTurn /\ Allocate /\ alloc' = Fresh /\ frames' = Below
      /\ UNCHANGED <<firing, pairs, reported>> /\ internal' = internal \cup {Fresh}
      /\ Top.k \notin {"eval", "drain", "microtask"}
    BY DEF ReturnFinally, Leave, Allocate
<1>2. PICK n \in 0 .. MaxPromises : n = Fresh
    BY <1>1, AllocateFacts
<1>3. /\ Store(n) /\ Heard /\ Shell(n) /\ n \in Promise /\ n <= n
      /\ IsPending(n) /\ reactions[n] = <<>>
      /\ v \in LiveValue(n) /\ v # n
    BY <1>1, <1>2, AllocateFacts
<1>4. /\ firing = <<>> /\ Below \in Seq(LiveFrame(n)) /\ Top.cap \in 1 .. n
      /\ Top.orig \in CleanState
    <2>1. alloc \in 0 .. MaxPromises /\ alloc <= n
        BY <1>1, <1>2, TopFacts DEF Fresh
    <2> QED BY <2>1, <1>1, TopFacts, LiveMono, BoundsAssumption DEF Promise
<1> DEFINE follow == [Bare("finallyPropagate", Top.cap, n) EXCEPT !.orig = Top.orig]
<1>5. \A k \in ReactionKind \ {"microtask"} : Bare(k, Top.cap, n) \in LiveReaction(n)
    BY <1>3, <1>4, BareLive
<1>6. follow \in LiveReaction(n)
    <2>1. Bare("finallyPropagate", Top.cap, n) \in LiveReaction(n)
        BY <1>5 DEF ReactionKind
    <2> QED BY <2>1, <1>4 DEF LiveReaction, Reaction, Bare, CleanState
<1> HIDE DEF follow
<1>7. ThenableJob(n) \in LiveJob(n) /\ \A q \in Promise : Bare("forward", n, q) \in LiveReaction(n)
    <2>1. \A k \in ReactionKind \ {"microtask"}, q \in 0 .. MaxPromises : Bare(k, n, q) \in LiveReaction(n)
        BY <1>3, BareLive, BoundsAssumption DEF Promise
    <2>2. Promise \subseteq 0 .. MaxPromises /\ 0 \in 0 .. MaxPromises
        BY BoundsAssumption DEF Promise
    <2> QED BY <2>1, <2>2, PendingClean DEF ReactionKind, ThenableJob, JobOf, LiveJob
<1>8. queue \in Seq(LiveJob(n))
    BY <1>3 DEF Store
<1> DEFINE mid(s) == /\ state' = [state EXCEPT ![n] = s]
                     /\ unhandled' = IF s.st = "rejected"
                                     THEN unhandled \cup {n} ELSE unhandled
                     /\ queue' = Append(queue, JobOf(follow, s))
                     /\ UNCHANGED reactions
<1>9. ASSUME NEW s, Final(s), mid(s), OnlyLate
      PROVE  Store(n)' /\ Heard' /\ Keeps
    <2>1. JobOf(follow, s) \in LiveJob(n)
        BY <1>6, <1>9 DEF JobOf, LiveJob, Final
    <2>2. queue' \in Seq(LiveJob(n))
        BY <2>1, <1>8, <1>9
    <2> QED BY <2>2, <1>1, <1>3, <1>4, <1>9, SettledWrapper
<1>10. listener[n] # "attached"
    BY <1>3 DEF Heard
<1>11. ASSUME /\ v \in Promise /\ IsPending(v)
              /\ reactions' = [reactions EXCEPT ![v] = Append(@, Bare("forward", n, v)),
                                                ![n] = <<follow>>]
              /\ listener' = [listener EXCEPT ![v] = "attached", ![n] = "attached"]
              /\ unhandled' = unhandled \ {v} /\ UNCHANGED <<state, queue>>
       PROVE  Store(n)' /\ Heard' /\ Keeps
    <2>1. v <= n /\ v # n
        BY <1>11, <1>3 DEF LiveValue
    <2>2. Bare("forward", n, v) \in LiveReaction(n)
        BY <1>7, <1>11
    <2>3. /\ Store(n) /\ Heard /\ n \in Promise /\ n <= n
          /\ IsPending(n) /\ reactions[n] = <<>> /\ v \in Promise /\ IsPending(v)
        BY <1>3, <1>11
    <2>4. UNCHANGED <<state, queue, firing, reported>>
        BY <1>1, <1>11
    <2> QED BY <2>1, <2>2, <2>3, <2>4, <1>6, <1>11, PushTwo
<1>12. ASSUME /\ v \in Promise /\ ~IsPending(v) /\ mid(state[v])
              /\ listener' = [ListenLate(v) EXCEPT ![n] = "late"]
       PROVE  Store(n)' /\ Heard' /\ Keeps
    <2>1. Final(state[v])
        BY <1>3, <1>12 DEF Final, Store, IsPending
    <2>2. OnlyLate
        BY <1>3, <1>10, <1>12 DEF OnlyLate, ListenLate, Store
    <2>3. mid(state[v])
        BY <1>12
    <2> HIDE DEF mid
    <2> QED BY <2>1, <2>2, <2>3, <1>9
<1>13. ASSUME /\ queue' = Append(queue, ThenableJob(n))
              /\ reactions' = [reactions EXCEPT ![n] = <<follow>>]
              /\ listener' = [listener EXCEPT ![n] = "attached"]
              /\ UNCHANGED <<state, unhandled>>
       PROVE  Store(n)' /\ Heard' /\ Keeps
    <2>1. queue' \in Seq(LiveJob(n))
        BY <1>13, <1>7, <1>8
    <2>2. /\ Store(n) /\ Heard /\ n \in Promise /\ n <= n
          /\ IsPending(n) /\ reactions[n] = <<>>
        BY <1>3
    <2>3. UNCHANGED <<state, unhandled, firing, reported>>
        BY <1>1, <1>13
    <2> QED BY <2>1, <2>2, <2>3, <1>6, <1>13, PendingWrapper
<1>14. ASSUME NEW s \in {Rejected(Plain), Fulfilled(Plain)}, mid(s),
              listener' = [listener EXCEPT ![n] = "late"]
       PROVE  Store(n)' /\ Heard' /\ Keeps
    <2>1. Final(s)
        BY DEF Final, Rejected, Fulfilled, CleanState, State, Value
    <2>2. OnlyLate
        BY <1>3, <1>10, <1>14 DEF OnlyLate, Store
    <2> QED BY <2>1, <2>2, <1>9, <1>14
<1>15. ASSUME v \in {Plain, BadThen},
              mid(IF v = BadThen THEN Rejected(Plain) ELSE Fulfilled(v)),
              listener' = [listener EXCEPT ![n] = "late"]
       PROVE  Store(n)' /\ Heard' /\ Keeps
    <2> DEFINE s == IF v = BadThen THEN Rejected(Plain) ELSE Fulfilled(v)
    <2>1. s \in {Rejected(Plain), Fulfilled(Plain)}
        BY <1>15
    <2>2. mid(s)
        BY <1>15
    <2> HIDE DEF s, mid
    <2> QED BY <2>1, <2>2, <1>14, <1>15
<1>16. Store(n)' /\ Heard' /\ Keeps
    BY <1>11, <1>12, <1>13, <1>15, <1>2 DEF ReturnFinally, follow
<1>17. internal' \subseteq Promise
    BY <1>1, <1>2, <1>3 DEF Shell
<1> QED BY <1>1, <1>2, <1>3, <1>4, <1>16, <1>17 DEF IInv, Shell

(* Every step keeps the invariant, and every settled promise as it is. *)
LEMMA NextInv == IInv /\ [Next]_vars => IInv' /\ Keeps
<1> SUFFICES ASSUME IInv, [Next]_vars PROVE IInv' /\ Keeps
    OBVIOUS
<1>1. CASE StartEval \/ FinishEval \/ EndDrain
    BY <1>1, StartFinishEval
<1>8. CASE HitJobLimit
    BY <1>8, HitLimitInv
<1>2. CASE TakeUnhandled
    BY <1>2, TakeUnhandledInv
<1>3. CASE FireReaction
    BY <1>3, FireInv
<1>4. CASE RunJob
    BY <1>4, RunJobInv
<1>5. CASE UserCall
    BY <1>5, NewPairInv, MicrotaskInv, CallResolverInv, ThenInv, AwaitPromiseInv,
       AwaitOtherInv, StaticInv DEF UserCall
<1>6. CASE Complete
    BY <1>6, ReturnInv, ReturnFinallyInv DEF Complete
<1>7. CASE UNCHANGED vars
    <2>1. Store(alloc) /\ Heard /\ Shell(alloc) /\ alloc \in 0 .. MaxPromises
        BY IInvSplit DEF Shell
    <2>2. Store(alloc)' /\ Heard' /\ Keeps
        BY <2>1, <1>7, QueueStep DEF vars, Store
    <2> QED BY <2>1, <2>2, <1>7 DEF vars, IInv, Shell
<1> QED BY <1>1, <1>2, <1>3, <1>4, <1>5, <1>6, <1>7, <1>8 DEF Next

-----------------------------------------------------------------------------
(* Who will settle a promise, counted                                       *)

ReactionsOf(p) == {r \in Reaction : r.promise = p}
JobsOf(p) == {j \in Job : j.r.promise = p}
PairsOf(p) == {c \in [cap : Promise, used : BOOLEAN] : c.cap = p /\ ~c.used}
Resolving == {"handler", "finally", "async", "resume"}
FramesOf(p) == {f \in Frame : f.cap = p /\ f.k \in Resolving}

Waits(p) == TotalIn(reactions, ReactionsOf(p))
Fired(p) == CountIn(firing, JobsOf(p))
Queued(p) == CountIn(queue, JobsOf(p))
Paired(p) == CountIn(pairs, PairsOf(p))
Running(p) == CountIn(frames, FramesOf(p))

Carried(p) == Waits(p) + Fired(p) + Queued(p)
Owned(p) == Carried(p) + Paired(p) + Running(p)

(* The jobs dropped by a drain that would have settled p *)
Missed(p) == CountIn(lost, JobsOf(p))

(* Each of the five counts is a number. *)
Counted(p) ==
    /\ Waits(p) \in Nat /\ Fired(p) \in Nat /\ Queued(p) \in Nat
    /\ Paired(p) \in Nat /\ Running(p) \in Nat

(* What is live is well typed. *)
LEMMA LiveTypes ==
    ASSUME NEW n
    PROVE  /\ LiveReaction(n) \subseteq Reaction /\ Seq(LiveReaction(n)) \subseteq Seq(Reaction)
           /\ LiveJob(n) \subseteq Job /\ Seq(LiveJob(n)) \subseteq Seq(Job)
           /\ LivePair(n) \subseteq [cap : Promise, used : BOOLEAN]
           /\ Seq(LivePair(n)) \subseteq Seq([cap : Promise, used : BOOLEAN])
           /\ LiveFrame(n) \subseteq Frame /\ Seq(LiveFrame(n)) \subseteq Seq(Frame)
<1>1. CleanState \subseteq State
    BY DEF CleanState
<1>2. LiveReaction(n) \subseteq Reaction
    BY DEF LiveReaction
<1>3. LiveJob(n) \subseteq Job
    BY <1>1, <1>2 DEF LiveJob, Job
<1>4. LivePair(n) \subseteq [cap : Promise, used : BOOLEAN]
    BY DEF LivePair
<1>5. LiveFrame(n) \subseteq Frame
    BY DEF LiveFrame
<1> QED BY <1>2, <1>3, <1>4, <1>5, SeqMono

(* There are finitely many promises to count over. *)
LEMMA PromiseFinite == IsFiniteSet(Promise)
BY FS_Interval, BoundsAssumption DEF Promise

(* The reactions a well-formed store keeps, as counting them needs them. *)
LEMMA StoreTypes ==
    ASSUME NEW n, Store(n)
    PROVE  /\ reactions \in [Promise -> Seq(Reaction)]
           /\ queue \in Seq(Job) /\ firing \in Seq(Job)
<1>1. /\ \A q \in Promise : reactions[q] \in Seq(Reaction)
      /\ queue \in Seq(Job) /\ firing \in Seq(Job)
    BY LiveTypes DEF Store
<1> QED BY <1>1 DEF Store

(* The jobs a settlement triggers belong to those its reactions belong to. *)
LEMMA TriggeredCount ==
    ASSUME NEW rs \in Seq(Reaction), NEW s \in State, NEW x
    PROVE  CountIn(Triggered(rs, s), JobsOf(x)) = CountIn(rs, ReactionsOf(x))
<1> DEFINE js == Triggered(rs, s)
<1>1. DOMAIN js = DOMAIN rs /\ \A i \in DOMAIN rs : js[i] = JobOf(rs[i], s)
    BY DEF Triggered
<1>2. \A i \in DOMAIN rs : JobOf(rs[i], s) \in Job /\ JobOf(rs[i], s).r = rs[i] /\ rs[i] \in Reaction
    BY DEF JobOf, Job
<1>3. \A i \in DOMAIN js : js[i] \in JobsOf(x) <=> rs[i] \in ReactionsOf(x)
    BY <1>1, <1>2 DEF JobsOf, ReactionsOf
<1> HIDE DEF js
<1>4. CountIn(js, JobsOf(x)) = CountIn(rs, ReactionsOf(x))
    BY <1>1, <1>3, CountSame
<1> QED BY <1>4 DEF js

(* Changing the reactions of one promise. *)
LEMMA WaitsChange ==
    ASSUME NEW f \in [Promise -> Seq(Reaction)], NEW g \in [Promise -> Seq(Reaction)],
           NEW q \in Promise, \A p \in Promise \ {q} : g[p] = f[p], NEW S
    PROVE  /\ ChangedAt(f, g, q, S)
           /\ TotalIn(g, S) \in Nat /\ TotalIn(f, S) \in Nat
<1>1. IsFiniteSet(Promise)
    BY PromiseFinite
<1>2. ChangedAt(f, g, q, S)
    BY <1>1, TotalReplace
<1>3. TotalIn(g, S) \in Nat /\ TotalIn(f, S) \in Nat
    BY <1>1, TotalType
<1> QED BY <1>2, <1>3

(* g has the reactions of f and r. *)
OneMore(f, g, r, x) ==
    /\ TotalIn(g, ReactionsOf(x)) = TotalIn(f, ReactionsOf(x)) + One(r.promise = x)
    /\ TotalIn(f, ReactionsOf(x)) \in Nat

(* Pushing a reaction on a promise. *)
LEMMA PushTotal ==
    ASSUME NEW f \in [Promise -> Seq(Reaction)], NEW g \in [Promise -> Seq(Reaction)],
           NEW y \in Promise, NEW r \in Reaction, g[y] = Append(f[y], r),
           \A q \in Promise \ {y} : g[q] = f[q], NEW x
    PROVE  OneMore(f, g, r, x)
<1> DEFINE S == ReactionsOf(x)
<1>1. f[y] \in Seq(Reaction)
    OBVIOUS
<1>2. r \in S <=> r.promise = x
    BY DEF ReactionsOf
<1> HIDE DEF S
<1>3. ChangedAt(f, g, y, S) /\ TotalIn(g, S) \in Nat /\ TotalIn(f, S) \in Nat
    BY WaitsChange
<1>4. CountIn(g[y], S) = CountIn(f[y], S) + One(r \in S)
    BY <1>1, CountAppend
<1>5. CountIn(f[y], S) \in Nat
    BY <1>1, CountType
<1>6. TotalIn(g, S) = TotalIn(f, S) + One(r \in S)
    BY <1>3, <1>4, <1>5 DEF One, ChangedAt
<1> QED BY <1>2, <1>3, <1>6 DEF S, One, OneMore

(* The same of the reactions as a step changes them. *)
LEMMA PushCount ==
    ASSUME reactions \in [Promise -> Seq(Reaction)], NEW y \in Promise, NEW r \in Reaction,
           reactions' = [reactions EXCEPT ![y] = Append(@, r)], NEW x
    PROVE  Waits(x)' = Waits(x) + One(r.promise = x) /\ Waits(x) \in Nat
<1>1. reactions[y] \in Seq(Reaction) /\ Append(reactions[y], r) \in Seq(Reaction)
    OBVIOUS
<1>2. /\ reactions' \in [Promise -> Seq(Reaction)] /\ reactions'[y] = Append(reactions[y], r)
      /\ \A q \in Promise \ {y} : reactions'[q] = reactions[q]
    BY <1>1
<1>3. PICK f \in [Promise -> Seq(Reaction)], g \in [Promise -> Seq(Reaction)] :
          f = reactions /\ g = reactions'
    BY <1>2
<1>4. g[y] = Append(f[y], r) /\ \A q \in Promise \ {y} : g[q] = f[q]
    BY <1>2, <1>3
<1>5. OneMore(f, g, r, x)
    BY <1>4, PushTotal
<1> QED BY <1>3, <1>5 DEF Waits, OneMore

(* A settlement moves the reactions of the promise to the cascade, and the *)
(* promise is settled afterwards.                                          *)
LEMMA SettleCount ==
    ASSUME NEW n, Store(n), NEW p \in Promise, NEW s, Final(s),
           NEW rest \in Seq(Job), Settle(p, s, rest), NEW x \in Promise
    PROVE  /\ Waits(x)' + Fired(x)' = Waits(x) + CountIn(rest, JobsOf(x))
           /\ ~IsPending(p)'
           /\ x # p => (IsPending(x)' <=> IsPending(x))
<1> USE DEF IsPending
<1>0. reactions \in [Promise -> Seq(Reaction)]
    BY StoreTypes
<1>1. CASE ~IsPending(p)
    <2>1. firing' = rest /\ UNCHANGED <<state, reactions>>
        BY <1>1 DEF Settle
    <2>2. Waits(x)' = Waits(x) /\ Fired(x)' = CountIn(rest, JobsOf(x))
        BY <2>1 DEF Waits, Fired
    <2> QED BY <1>1, <2>1, <2>2
<1>2. CASE IsPending(p)
    <2>1. /\ state' = [state EXCEPT ![p] = s]
          /\ reactions' = [reactions EXCEPT ![p] = <<>>]
          /\ firing' = Triggered(reactions[p], s) \o rest
        BY <1>2 DEF Settle, Triggered
    <2>2. ~IsPending(p)' /\ (x # p => (IsPending(x)' <=> IsPending(x)))
        BY <2>1 DEF Store, Final
    <2> DEFINE S == ReactionsOf(x)
               js == Triggered(reactions[p], s)
    <2>3. /\ reactions' \in [Promise -> Seq(Reaction)] /\ reactions'[p] = <<>>
          /\ \A q \in Promise \ {p} : reactions'[q] = reactions[q]
        BY <1>0, <2>1
    <2>4. ChangedAt(reactions, reactions', p, S)
        BY <1>0, <2>3, WaitsChange
    <2>5. CountIn(reactions'[p], S) = 0
        BY <2>3, CountEmpty
    <2>6. reactions[p] \in Seq(Reaction) /\ s \in State
        BY <1>0 DEF Final, CleanState
    <2>7. js \in Seq(Job)
        <3>1. \A i \in 1 .. Len(reactions[p]) : JobOf(reactions[p][i], s) \in Job
            BY <2>6 DEF JobOf, Job
        <3>2. js = [i \in 1 .. Len(reactions[p]) |-> JobOf(reactions[p][i], s)]
            BY <2>6 DEF Triggered
        <3> QED BY <2>6, <3>1, <3>2, SeqDef
    <2>8. CountIn(js, JobsOf(x)) = CountIn(reactions[p], S)
        BY <2>6, TriggeredCount
    <2> HIDE DEF js, S
    <2>9. CountIn(js \o rest, JobsOf(x)) = CountIn(js, JobsOf(x)) + CountIn(rest, JobsOf(x))
        BY <2>7, CountConcat
    <2>10. firing' = js \o rest
        BY <2>1 DEF js
    <2>11. /\ TotalIn(reactions', S) \in Nat /\ TotalIn(reactions, S) \in Nat
           /\ CountIn(reactions[p], S) \in Nat /\ CountIn(rest, JobsOf(x)) \in Nat
        BY <1>0, <2>3, <2>6, PromiseFinite, TotalType, CountType
    <2>12. TotalIn(reactions', S) + CountIn(js \o rest, JobsOf(x))
               = TotalIn(reactions, S) + CountIn(rest, JobsOf(x))
        BY <2>4, <2>5, <2>8, <2>9, <2>11 DEF ChangedAt
    <2> QED BY <2>2, <2>10, <2>12 DEF Waits, Fired, S
<1> QED BY <1>1, <1>2

(* What resolve_value on p makes of the counts, the cascade having `rest`  *)
(* left and the queue being q: p gets one owner more, or is settled.       *)
Base(x, rest, q) == Waits(x) + CountIn(rest, JobsOf(x)) + CountIn(q, JobsOf(x))
Hands(p, x, base) ==
    /\ x # p => Carried(x)' = base /\ (IsPending(x)' <=> IsPending(x))
    /\ x = p => /\ base <= Carried(x)' /\ Carried(x)' <= base + 1
                /\ IsPending(x)' => Carried(x)' = base + 1

(* resolve_value makes one owner of p, or settles it. *)
LEMMA ResolveCount ==
    ASSUME NEW n \in 0 .. MaxPromises, Store(n),
           NEW p \in Promise, p <= n, NEW v \in Value,
           NEW rest \in Seq(Job), NEW q \in Seq(Job),
           ResolveValue(p, v, rest, q), NEW x \in Promise
    PROVE  Hands(p, x, Base(x, rest, q))
<1>0. /\ reactions \in [Promise -> Seq(Reaction)] /\ p \in 1 .. n
      /\ Waits(x) \in Nat /\ CountIn(rest, JobsOf(x)) \in Nat /\ CountIn(q, JobsOf(x)) \in Nat
    <2>1. reactions \in [Promise -> Seq(Reaction)] /\ p \in 1 .. n
        BY StoreTypes, BoundsAssumption DEF Promise
    <2> QED BY <2>1, PromiseFinite, TotalType, CountType DEF Waits
<1>1. ASSUME NEW s, Final(s), Settle(p, s, rest), queue' = q
      PROVE  Hands(p, x, Base(x, rest, q))
    <2>1. /\ Waits(x)' + Fired(x)' = Waits(x) + CountIn(rest, JobsOf(x)) /\ ~IsPending(p)'
          /\ x # p => (IsPending(x)' <=> IsPending(x))
        BY <1>1, SettleCount
    <2>2. Queued(x)' = CountIn(q, JobsOf(x))
        BY <1>1 DEF Queued
    <2>3. Carried(x)' = Base(x, rest, q) /\ Base(x, rest, q) \in Nat
        BY <1>0, <2>1, <2>2 DEF Carried, Base
    <2> HIDE DEF Carried, Base
    <2> QED BY <2>1, <2>3 DEF Hands
<1>2. CASE /\ v \in Promise \ {p} /\ IsPending(v)
           /\ reactions' = [reactions EXCEPT ![v] = Append(@, Bare("forward", p, v))]
           /\ firing' = rest /\ queue' = q /\ UNCHANGED state
    <2>1. Bare("forward", p, v) \in Reaction /\ Bare("forward", p, v).promise = p
        <3>1. Bare("forward", p, v) \in LiveReaction(n)
            BY <1>0, <1>2, BareLive, BoundsAssumption DEF ReactionKind, Promise
        <3> QED BY <3>1, LiveTypes DEF Bare
    <2>2. Waits(x)' = Waits(x) + One(p = x)
        <3>1. Waits(x)' = Waits(x) + One(Bare("forward", p, v).promise = x)
            BY <1>0, <1>2, <2>1, PushCount
        <3> QED BY <2>1, <3>1
    <2>3. Fired(x)' = CountIn(rest, JobsOf(x)) /\ Queued(x)' = CountIn(q, JobsOf(x))
        BY <1>2 DEF Fired, Queued
    <2>4. IsPending(x)' <=> IsPending(x)
        BY <1>2 DEF IsPending
    <2> QED BY <1>0, <2>2, <2>3, <2>4 DEF Hands, Base, Carried, One
<1>3. CASE /\ queue' = Append(q, ThenableJob(p)) /\ firing' = rest
           /\ UNCHANGED <<state, reactions>>
    <2>1. ThenableJob(p) \in Job /\ ThenableJob(p).r.promise = p
        <3>1. Bare("thenable", p, 0) \in LiveReaction(n)
            BY <1>0, BareLive, BoundsAssumption DEF ReactionKind
        <3>2. Bare("thenable", p, 0) \in Reaction /\ Pending \in State
            BY <3>1, LiveTypes, PendingClean DEF CleanState
        <3> QED BY <3>2 DEF ThenableJob, JobOf, Job, Bare
    <2>2. Queued(x)' = CountIn(q, JobsOf(x)) + One(ThenableJob(p) \in JobsOf(x))
        BY <1>3, <2>1, CountAppend DEF Queued
    <2>3. ThenableJob(p) \in JobsOf(x) <=> x = p
        BY <2>1 DEF JobsOf
    <2>4. Waits(x)' = Waits(x) /\ Fired(x)' = CountIn(rest, JobsOf(x)) /\ (IsPending(x)' <=> IsPending(x))
        BY <1>3 DEF Waits, Fired, IsPending
    <2> QED BY <1>0, <2>2, <2>3, <2>4 DEF Hands, Base, Carried, One
<1>4. /\ Final(Rejected(TypeErr)) /\ Final(Rejected(Plain))
      /\ \A y \in {Plain, TypeErr} : Final(Fulfilled(y))
      /\ \A y \in Promise : ~IsPending(y) => Final(state[y])
    BY DEF Final, Rejected, Fulfilled, CleanState, State, Value, Store, IsPending
<1> QED BY <1>1, <1>2, <1>3, <1>4 DEF ResolveValue

(* reject_promise on p settles it. *)
LEMMA RejectCount ==
    ASSUME NEW n, Store(n), NEW p \in Promise, NEW e \in Value,
           NEW q \in Seq(Job), Reject(p, e, q), NEW x \in Promise
    PROVE  Hands(p, x, Base(x, <<>>, q)) /\ Carried(x)' = Base(x, <<>>, q) /\ ~IsPending(p)'
<1>1. Final(Rejected(e))
    BY DEF Final, Rejected, CleanState, State
<1>2. <<>> \in Seq(Job)
    OBVIOUS
<1>3. /\ Waits(x)' + Fired(x)' = Waits(x) + CountIn(<<>>, JobsOf(x)) /\ ~IsPending(p)'
      /\ x # p => (IsPending(x)' <=> IsPending(x))
    BY <1>1, <1>2, SettleCount DEF Reject
<1>4. Queued(x)' = CountIn(q, JobsOf(x))
    BY DEF Reject, Queued
<1>5. Waits(x) \in Nat /\ CountIn(q, JobsOf(x)) \in Nat /\ CountIn(<<>>, JobsOf(x)) = 0
    BY StoreTypes, PromiseFinite, TotalType, CountType, CountEmpty DEF Waits
<1>6. Carried(x)' = Base(x, <<>>, q) /\ Base(x, <<>>, q) \in Nat
    BY <1>3, <1>4, <1>5 DEF Carried, Base
<1> HIDE DEF Carried, Base
<1> QED BY <1>3, <1>6 DEF Hands

-----------------------------------------------------------------------------
(* What a step makes of the owners of a promise x                           *)

(* The owner of an allocated promise is handed on until it is settled, and a *)
(* fresh one has one owner or is settled.                                    *)
Handover(x) ==
    /\ x <= alloc => /\ Owned(x)' <= Owned(x)
                     /\ IsPending(x)' => Owned(x)' = Owned(x)
    /\ x > alloc /\ x <= alloc' => /\ Owned(x)' <= 1
                                   /\ IsPending(x)' => Owned(x)' = 1

(* Settling an allocated promise takes an owner that does not wait in a *)
(* reaction, but for the throws that settle past the flag.              *)
Consumes(x) ==
    x <= alloc /\ IsPending(x) /\ ~IsPending(x)' => Owned(x) > Waits(x) \/ ThrowOverrides

Passes(x) == Handover(x) /\ Consumes(x)

(* The counts are numbers, and those of an unallocated promise are 0. *)
LEMMA OwnedTypes ==
    ASSUME IInv, NEW x
    PROVE  /\ alloc \in 0 .. MaxPromises /\ Store(alloc)
           /\ reactions \in [Promise -> Seq(Reaction)]
           /\ queue \in Seq(Job) /\ firing \in Seq(Job)
           /\ pairs \in Seq([cap : Promise, used : BOOLEAN])
           /\ frames \in Seq(Frame)
           /\ Counted(x)
<1>1. /\ alloc \in 0 .. MaxPromises /\ Store(alloc)
      /\ pairs \in Seq(LivePair(alloc)) /\ frames \in Seq(LiveFrame(alloc))
    BY DEF IInv
<1>2. /\ reactions \in [Promise -> Seq(Reaction)]
      /\ queue \in Seq(Job) /\ firing \in Seq(Job)
    BY <1>1, StoreTypes
<1>3. pairs \in Seq([cap : Promise, used : BOOLEAN]) /\ frames \in Seq(Frame)
    BY <1>1, LiveTypes
<1>4. Waits(x) \in Nat
    BY <1>2, PromiseFinite, TotalType DEF Waits
<1>5. Fired(x) \in Nat /\ Queued(x) \in Nat /\ Paired(x) \in Nat /\ Running(x) \in Nat
    BY <1>2, <1>3, CountType DEF Fired, Queued, Paired, Running
<1> QED BY <1>1, <1>2, <1>3, <1>4, <1>5 DEF Counted

(* Only allocated promises have owners. *)
LEMMA Unowned ==
    ASSUME IInv, NEW x \in Promise, x > alloc
    PROVE  /\ Waits(x) = 0 /\ Fired(x) = 0 /\ Queued(x) = 0
           /\ Paired(x) = 0 /\ Running(x) = 0
<1>1. /\ alloc \in 0 .. MaxPromises /\ x \in Nat
      /\ reactions \in [Promise -> Seq(LiveReaction(alloc))]
      /\ queue \in Seq(LiveJob(alloc)) /\ firing \in Seq(LiveJob(alloc))
      /\ pairs \in Seq(LivePair(alloc)) /\ frames \in Seq(LiveFrame(alloc))
    BY BoundsAssumption DEF IInv, Store, Promise
<1>2. /\ \A r \in LiveReaction(alloc) : r \notin ReactionsOf(x)
      /\ \A j \in LiveJob(alloc) : j \notin JobsOf(x)
      /\ \A c \in LivePair(alloc) : c \notin PairsOf(x)
      /\ \A f \in LiveFrame(alloc) : f \notin FramesOf(x)
    BY <1>1, BoundsAssumption DEF LiveReaction, LiveJob, LivePair, LiveFrame, Reaction, Frame, Promise,
       ReactionsOf, JobsOf, PairsOf, FramesOf
<1>3. Waits(x) = 0
    <2>1. \A q \in DOMAIN reactions : \A i \in DOMAIN reactions[q] :
              reactions[q][i] \notin ReactionsOf(x)
        BY <1>1, <1>2
    <2> QED BY <2>1, TotalNone DEF Waits
<1>4. /\ \A i \in DOMAIN queue : queue[i] \notin JobsOf(x)
      /\ \A i \in DOMAIN firing : firing[i] \notin JobsOf(x)
      /\ \A i \in DOMAIN pairs : pairs[i] \notin PairsOf(x)
      /\ \A i \in DOMAIN frames : frames[i] \notin FramesOf(x)
    BY <1>1, <1>2
<1> QED BY <1>3, <1>4, CountNone DEF Fired, Queued, Paired, Running

(* A step that allocates nothing and settles p for an owner it takes. *)
LEMMA HandsPass ==
    ASSUME NEW x \in Promise, NEW p, NEW base \in Nat, alloc \in Nat, UNCHANGED alloc, Hands(p, x, base),
           Counted(x), Counted(x)', Waits(x) <= base,
           Owned(x) = base + One(x = p) + Paired(x)' + Running(x)'
    PROVE  Passes(x)
<1>1. /\ Carried(x)' \in Nat /\ Paired(x)' \in Nat /\ Running(x)' \in Nat /\ Waits(x) \in Nat
      /\ x \in Nat
    BY BoundsAssumption DEF Counted, Carried, Promise
<1>2. Owned(x)' = Carried(x)' + Paired(x)' + Running(x)'
    BY DEF Owned
<1> HIDE DEF Owned, Carried, Waits, Paired, Running
<1>3. Handover(x)
    BY <1>1, <1>2 DEF Handover, Hands, One
<1>4. Consumes(x)
    BY <1>1 DEF Consumes, Hands, One
<1> QED BY <1>3, <1>4 DEF Passes

(* A step that leaves every promise its number of owners. *)
LEMMA SamePass ==
    ASSUME NEW x \in Promise, alloc \in Nat, UNCHANGED <<alloc, state>>, Counted(x), Owned(x)' = Owned(x)
    PROVE  Passes(x)
<1>1. Owned(x) \in Nat /\ x \in Nat
    BY BoundsAssumption DEF Counted, Owned, Carried, Promise
<1> HIDE DEF Owned
<1> QED BY <1>1 DEF Passes, Handover, Consumes, IsPending

(* A step that allocates the next promise. *)
LEMMA AllocPass ==
    ASSUME IInv, NEW x \in Promise, Allocate,
           x # Fresh => Owned(x)' = Owned(x) /\ (IsPending(x)' <=> IsPending(x)),
           x = Fresh => Owned(x)' <= 1 /\ (IsPending(x)' => Owned(x)' = 1)
    PROVE  Passes(x)
<1>1. Counted(x) /\ alloc \in 0 .. MaxPromises /\ alloc' = Fresh /\ x \in Nat
    BY OwnedTypes, BoundsAssumption DEF Allocate, Promise
<1>2. Owned(x) \in Nat
    BY <1>1 DEF Counted, Owned, Carried
<1>3. (x <= alloc => x # Fresh) /\ (x > alloc /\ x <= alloc' => x = Fresh)
    BY <1>1, BoundsAssumption DEF Fresh
<1> HIDE DEF Owned
<1> QED BY <1>2, <1>3 DEF Passes, Handover, Consumes

(* Opening a frame. *)
LEMMA EnterCount ==
    ASSUME frames \in Seq(Frame), NEW f \in Frame, Enter(f), NEW x
    PROVE  Running(x)' = Running(x) + One(f.cap = x /\ f.k \in Resolving)
<1>1. f \in FramesOf(x) <=> f.cap = x /\ f.k \in Resolving
    BY DEF FramesOf
<1>2. CountIn(Append(frames, f), FramesOf(x)) = CountIn(frames, FramesOf(x)) + One(f \in FramesOf(x))
    BY CountAppend
<1> QED BY <1>1, <1>2 DEF Running, Enter, One

(* Leaving one. *)
LEMMA LeaveCount ==
    ASSUME frames \in Seq(Frame), frames # <<>>, NEW x
    PROVE  /\ Running(x) = CountIn(Below, FramesOf(x)) + One(Top.cap = x /\ Top.k \in Resolving)
           /\ Below \in Seq(Frame) /\ Top \in Frame /\ CountIn(Below, FramesOf(x)) \in Nat
<1>1. Below \in Seq(Frame) /\ Top \in Frame
    BY PopSeq DEF Below, Top
<1>2. CountIn(frames, FramesOf(x)) = CountIn(Below, FramesOf(x)) + One(Top \in FramesOf(x))
    BY CountPop DEF Below, Top
<1>3. Top \in FramesOf(x) <=> Top.cap = x /\ Top.k \in Resolving
    BY <1>1 DEF FramesOf
<1>4. CountIn(Below, FramesOf(x)) \in Nat
    BY <1>1, CountType
<1> QED BY <1>1, <1>2, <1>3, <1>4 DEF Running, One
-----------------------------------------------------------------------------
(* Every action hands the owners on                                         *)

(* Programs and the drain loop settle no promise themselves. *)
LEMMA EvalPass ==
    ASSUME IInv, NEW x \in Promise, StartEval \/ FinishEval \/ EndDrain
    PROVE  Passes(x)
<1>1. /\ frames \in Seq(Frame) /\ alloc \in Nat /\ Counted(x)
      /\ UNCHANGED <<core, pairs, alloc>>
    BY OwnedTypes, BoundsAssumption DEF StartEval, FinishEval, EndDrain
<1>2. ASSUME NEW k \in {"eval", "drain"}
      PROVE  FrameOf(k, 0, Pending) \in Frame /\ FrameOf(k, 0, Pending) \notin FramesOf(x)
    BY PendingClean, BoundsAssumption
    DEF FrameOf, Frame, FrameKind, CleanState, FramesOf, Resolving, Promise
<1>3. Running(x)' = Running(x)
    <2>1. CASE StartEval
        <3>1. CountIn(Append(frames, FrameOf("eval", 0, Pending)), FramesOf(x))
                 = CountIn(frames, FramesOf(x)) + One(FrameOf("eval", 0, Pending) \in FramesOf(x))
            BY <1>1, <1>2, CountAppend
        <3>2. frames' = Append(frames, FrameOf("eval", 0, Pending))
            BY <2>1 DEF StartEval, Enter
        <3> QED BY <3>1, <3>2, <1>1, <1>2 DEF One, Running, Counted
    <2>2. CASE FinishEval \/ EndDrain
        <3>1. frames # <<>> /\ Top.k \in {"eval", "drain"}
            BY <2>2 DEF FinishEval, EndDrain, Draining, Quiet
        <3>2. Running(x) = CountIn(Below, FramesOf(x)) /\ Below \in Seq(Frame)
            <4>1. /\ Running(x) = CountIn(Below, FramesOf(x)) + One(Top.cap = x /\ Top.k \in Resolving)
                  /\ Below \in Seq(Frame) /\ CountIn(Below, FramesOf(x)) \in Nat
                BY <1>1, <3>1, LeaveCount
            <4> QED BY <3>1, <4>1 DEF One, Resolving
        <3>3. CountIn(Append(Below, FrameOf("drain", 0, Pending)), FramesOf(x))
                 = CountIn(Below, FramesOf(x)) + One(FrameOf("drain", 0, Pending) \in FramesOf(x))
            BY <3>2, <1>2, CountAppend
        <3>4. frames' = Below \/ frames' = Append(Below, FrameOf("drain", 0, Pending))
            BY <2>2 DEF FinishEval, EndDrain, StopDraining, Leave
        <3>5. FrameOf("drain", 0, Pending) \notin FramesOf(x) /\ CountIn(Below, FramesOf(x)) \in Nat
            BY <1>1, <1>2, <3>2 DEF Counted
        <3>6. CountIn(Append(Below, FrameOf("drain", 0, Pending)), FramesOf(x))
                 = CountIn(Below, FramesOf(x))
            BY <3>3, <3>5 DEF One
        <3>7. CountIn(frames', FramesOf(x)) = CountIn(Below, FramesOf(x))
            BY <3>4, <3>6, Zenon
        <3> QED BY <3>2, <3>7 DEF Running
    <2> QED BY <2>1, <2>2
<1>4. Owned(x)' = Owned(x)
    BY <1>1, <1>3 DEF core, Owned, Carried, Waits, Fired, Queued, Paired
<1> QED BY <1>1, <1>4, SamePass DEF core

(* The host's collection of the unhandled list changes no owner. *)
LEMMA TakePass ==
    ASSUME IInv, NEW x \in Promise, TakeUnhandled \/ UNCHANGED vars
    PROVE  Passes(x)
<1>1. UNCHANGED <<state, reactions, queue, firing, pairs, frames, alloc>>
    BY DEF TakeUnhandled, vars
<1>2. Owned(x)' = Owned(x)
    BY <1>1 DEF Owned, Carried, Waits, Fired, Queued, Paired, Running
<1>3. alloc \in Nat /\ Counted(x)
    BY OwnedTypes, BoundsAssumption
<1> QED BY <1>1, <1>2, <1>3, SamePass

(* A step of the cascade settles the target of a Forward or queues a job. *)
LEMMA FirePass ==
    ASSUME IInv, NEW x \in Promise, Counted(x)', FireReaction
    PROVE  Passes(x)
<1>1. /\ alloc \in 0 .. MaxPromises /\ Store(alloc) /\ Counted(x)
      /\ queue \in Seq(Job) /\ firing \in Seq(Job) /\ alloc \in Nat
    BY OwnedTypes, BoundsAssumption
<1>2. /\ firing # <<>> /\ UNCHANGED <<pairs, frames, alloc>>
    BY DEF FireReaction
<1>3. PICK n \in 0 .. MaxPromises, job \in Job, rest \in Seq(Job) :
          n = alloc /\ job = Head(firing) /\ rest = Tail(firing)
    BY <1>1, <1>2, HeadTail
<1>4. PICK q \in Seq(Job) : q = queue
    BY <1>1
<1>5. job \in LiveJob(n) /\ Store(n)
    BY <1>1, <1>2, <1>3, HeadTail DEF Store
<1>6. /\ job.r.kind = "forward" => job.r.promise \in Promise /\ job.r.promise <= n
      /\ job.s \in CleanState /\ job.s.val \in Value
    BY <1>5, BoundsAssumption DEF LiveJob, LiveReaction, Reaction, Promise, CleanState, State
<1>7. Fired(x) = CountIn(rest, JobsOf(x)) + One(job \in JobsOf(x))
    BY <1>1, <1>2, <1>3, CountTail DEF Fired
<1>8. job \in JobsOf(x) <=> x = job.r.promise
    BY DEF JobsOf
<1>9. CountIn(rest, JobsOf(x)) \in Nat
    BY CountType
<1>10. /\ Paired(x)' = Paired(x) /\ Running(x)' = Running(x)
       /\ Queued(x) = CountIn(q, JobsOf(x))
    BY <1>2, <1>4 DEF Paired, Running, Queued
<1>13. /\ Waits(x) \in Nat /\ Fired(x) \in Nat /\ Queued(x) \in Nat
       /\ Paired(x) \in Nat /\ Running(x) \in Nat
    BY <1>1 DEF Counted
<1>14. Waits(x)' \in Nat /\ Fired(x)' \in Nat /\ Queued(x)' \in Nat
    BY DEF Counted
<1>11. CASE job.r.kind = "forward"
    <2>1. PICK p \in Promise : p = job.r.promise /\ p <= n
        BY <1>6, <1>11
    <2>2. PICK base : base = Base(x, rest, q)
        OBVIOUS
    <2>3. Hands(p, x, base)
        <3>1. CASE ResolveValue(p, job.s.val, rest, q)
            BY <3>1, <2>1, <2>2, <1>5, <1>6, ResolveCount
        <3>2. CASE job.s.st = "rejected" /\ Settle(p, job.s, rest) /\ UNCHANGED queue
            <4>1. Final(job.s) /\ Queued(x)' = Queued(x)
                BY <1>6, <3>2 DEF Final, Queued
            <4>2. /\ Waits(x)' + Fired(x)' = Waits(x) + CountIn(rest, JobsOf(x))
                  /\ ~IsPending(p)'
                  /\ x # p => (IsPending(x)' <=> IsPending(x))
                BY <4>1, <3>2, <1>5, SettleCount
            <4>3. Carried(x)' = base /\ base \in Nat
                BY <4>1, <4>2, <2>2, <1>9, <1>10, <1>13, <1>14 DEF Carried, Base
            <4> HIDE DEF Carried
            <4> QED BY <4>2, <4>3 DEF Hands
        <3> QED BY <3>1, <3>2, <2>1, <1>3, <1>4, <1>11 DEF FireReaction
    <2>4. /\ base \in Nat /\ Waits(x) <= base
          /\ Owned(x) = base + One(x = p) + Paired(x)' + Running(x)'
        <3>1. One(job \in JobsOf(x)) = One(x = p)
            BY <2>1, <1>8 DEF One
        <3>2. One(x = p) \in Nat
            BY DEF One
        <3>3. base \in Nat /\ Waits(x) <= base
            BY <2>2, <1>9, <1>10, <1>13 DEF Base
        <3>4. Waits(x) + Fired(x) + Queued(x) = base + One(x = p)
            BY <3>1, <3>2, <2>2, <1>7, <1>9, <1>10, <1>13 DEF Base
        <3> QED BY <3>3, <3>4, <1>10 DEF Owned, Carried
    <2> QED BY <2>3, <2>4, <1>1, <1>2, HandsPass
<1>12. CASE job.r.kind # "forward"
    <2>1. queue' = Append(q, job) /\ firing' = rest /\ UNCHANGED <<state, reactions>>
        BY <1>3, <1>4, <1>12 DEF FireReaction
    <2>2. CountIn(Append(q, job), JobsOf(x)) = CountIn(q, JobsOf(x)) + One(job \in JobsOf(x))
        BY CountAppend
    <2>3. /\ Waits(x)' = Waits(x) /\ Fired(x)' = CountIn(rest, JobsOf(x))
          /\ Queued(x)' = CountIn(Append(q, job), JobsOf(x))
        BY <2>1 DEF Waits, Fired, Queued
    <2>4. One(job \in JobsOf(x)) \in Nat
        BY DEF One
    <2>5. Owned(x)' = Owned(x)
        BY <2>2, <2>3, <2>4, <1>7, <1>9, <1>10, <1>13 DEF Owned, Carried
    <2> QED BY <2>1, <2>5, <1>1, <1>2, SamePass
<1> QED BY <1>11, <1>12

(* Taking the next job off the queue takes what it counts for. *)
LEMMA NextJobCount ==
    ASSUME IInv, queue # <<>>, NEW x \in Promise
    PROVE  /\ Head(queue) \in LiveJob(alloc) /\ Head(queue) \in Job /\ Tail(queue) \in Seq(Job)
           /\ CountIn(Tail(queue), JobsOf(x)) \in Nat
           /\ Queued(x) = CountIn(Tail(queue), JobsOf(x)) + One(x = JobPromise)
<1>1. queue \in Seq(Job) /\ queue \in Seq(LiveJob(alloc))
    BY OwnedTypes DEF Store
<1>2. Head(queue) \in LiveJob(alloc) /\ Head(queue) \in Job /\ Tail(queue) \in Seq(Job)
    BY <1>1, HeadTail
<1>3. CountIn(queue, JobsOf(x)) = CountIn(Tail(queue), JobsOf(x)) + One(Head(queue) \in JobsOf(x))
    BY <1>1, CountTail
<1>4. Head(queue) \in JobsOf(x) <=> x = JobPromise
    BY <1>2 DEF JobsOf, JobPromise
<1>5. One(Head(queue) \in JobsOf(x)) = One(x = JobPromise)
    BY <1>4 DEF One
<1>6. CountIn(Tail(queue), JobsOf(x)) \in Nat
    BY <1>2, CountType
<1> QED BY <1>2, <1>3, <1>5, <1>6 DEF Queued

(* Making a resolver pair. *)
LEMMA PairCount ==
    ASSUME pairs \in Seq([cap : Promise, used : BOOLEAN]), NEW p \in Promise,
           pairs' = Append(pairs, [cap |-> p, used |-> FALSE]), NEW x
    PROVE  Paired(x)' = Paired(x) + One(x = p)
<1>1. PICK c \in [cap : Promise, used : BOOLEAN] : c = [cap |-> p, used |-> FALSE]
    OBVIOUS
<1>2. CountIn(Append(pairs, c), PairsOf(x)) = CountIn(pairs, PairsOf(x)) + One(c \in PairsOf(x))
    BY CountAppend
<1>3. c \in PairsOf(x) <=> x = p
    BY <1>1 DEF PairsOf
<1>4. One(c \in PairsOf(x)) = One(x = p)
    BY <1>3 DEF One
<1> QED BY <1>1, <1>2, <1>4 DEF Paired

(* A job that calls user code takes its promise from the queue, and gives it to *)
(* the frame when that settles it.                                              *)
LEMMA CallUserCount ==
    ASSUME IInv, NEW x \in Promise, queue # <<>>,
           NEW kind \in FrameKind, NEW orig \in CleanState, CallUser(kind, orig)
    PROVE  /\ Waits(x)' = Waits(x) /\ Fired(x)' = Fired(x)
           /\ Queued(x) = Queued(x)' + One(x = JobPromise) /\ Queued(x)' \in Nat
           /\ Running(x)' = Running(x) + One(JobPromise = x /\ kind \in Resolving)
<1>1. frames \in Seq(Frame)
    BY OwnedTypes
<1>2. PICK p \in 0 .. MaxPromises, rest \in Seq(Job) : p = JobPromise /\ rest = Tail(queue)
    BY NextJobCount DEF JobPromise, Job, Reaction
<1>3. Queued(x) = CountIn(rest, JobsOf(x)) + One(x = p) /\ CountIn(rest, JobsOf(x)) \in Nat
    BY <1>2, NextJobCount
<1>4. /\ Waits(x)' = Waits(x) /\ Fired(x)' = Fired(x)
      /\ Queued(x)' = CountIn(rest, JobsOf(x))
    BY <1>2 DEF CallUser, Waits, Fired, Queued
<1>5. Running(x)' = Running(x) + One(p = x /\ kind \in Resolving)
    <2>1. PICK f \in Frame : f = FrameOf(kind, p, orig)
        BY <1>2 DEF FrameOf, Frame, CleanState
    <2>2. Enter(f)
        BY <1>2, <2>1 DEF CallUser
    <2>3. Running(x)' = Running(x) + One(f.cap = x /\ f.k \in Resolving)
        BY <1>1, <2>2, EnterCount
    <2> QED BY <2>1, <2>3 DEF FrameOf
<1> QED BY <1>2, <1>3, <1>4, <1>5

(* What leaves one place for another still counts. *)
LEMMA SameSum ==
    ASSUME NEW x, Counted(x), Counted(x)', Waits(x)' = Waits(x), Fired(x)' = Fired(x),
           Queued(x)' + Paired(x)' + Running(x)' = Queued(x) + Paired(x) + Running(x)
    PROVE  Owned(x)' = Owned(x)
<1>1. /\ Waits(x) \in Nat /\ Fired(x) \in Nat /\ Queued(x) \in Nat
      /\ Paired(x) \in Nat /\ Running(x) \in Nat
      /\ Queued(x)' \in Nat /\ Paired(x)' \in Nat /\ Running(x)' \in Nat
    BY DEF Counted
<1>2. PICK w \in Nat : w = Waits(x) + Fired(x)
    BY <1>1
<1>3. w + Queued(x)' + Paired(x)' + Running(x)' = w + Queued(x) + Paired(x) + Running(x)
    BY <1>1
<1>4. Owned(x) = w + Queued(x) + Paired(x) + Running(x)
    BY <1>2 DEF Owned, Carried
<1>5. Owned(x)' = w + Queued(x)' + Paired(x)' + Running(x)'
    <2>1. Waits(x)' + Fired(x)' = w
        BY <1>2
    <2> QED BY <2>1 DEF Owned, Carried
<1> QED BY <1>3, <1>4, <1>5

(* A job that calls user code passes its promise to the frame or to a pair. *)
LEMMA CallUserPass ==
    ASSUME IInv, NEW x \in Promise, queue # <<>>, UNCHANGED alloc,
           NEW kind \in FrameKind, NEW orig \in CleanState, CallUser(kind, orig),
           Paired(x)' = Paired(x) + One(x = JobPromise /\ kind \notin Resolving)
    PROVE  Passes(x)
<1>1. /\ alloc \in Nat /\ Counted(x)
    BY OwnedTypes, BoundsAssumption
<1>2. /\ Waits(x) \in Nat /\ Fired(x) \in Nat /\ Queued(x) \in Nat
      /\ Paired(x) \in Nat /\ Running(x) \in Nat
    BY <1>1 DEF Counted
<1>3. /\ Waits(x)' = Waits(x) /\ Fired(x)' = Fired(x)
      /\ Queued(x) = Queued(x)' + One(x = JobPromise) /\ Queued(x)' \in Nat
      /\ Running(x)' = Running(x) + One(JobPromise = x /\ kind \in Resolving)
    BY CallUserCount
<1>4. Queued(x)' + Paired(x)' + Running(x)' = Queued(x) + Paired(x) + Running(x)
    BY <1>2, <1>3 DEF One
<1>5. Paired(x)' \in Nat /\ Running(x)' \in Nat
    BY <1>2, <1>3 DEF One
<1>6. Counted(x)'
    BY <1>2, <1>3, <1>5 DEF Counted
<1>7. Owned(x)' = Owned(x)
    BY <1>1, <1>3, <1>4, <1>6, SameSum
<1> QED BY <1>1, <1>7, SamePass DEF CallUser

(* A job that settles a promise at once takes that promise's owner. *)
LEMMA SettlingJobPass ==
    ASSUME IInv, NEW x \in Promise, Counted(x)', queue # <<>>, firing = <<>>,
           UNCHANGED <<pairs, frames, alloc>>, Head(queue).r.kind # "microtask",
           NEW v \in Value, \/ ResolveValue(JobPromise, v, <<>>, Tail(queue))
                            \/ Reject(JobPromise, v, Tail(queue))
    PROVE  Passes(x)
<1>1. /\ alloc \in 0 .. MaxPromises /\ alloc \in Nat /\ Counted(x) /\ Store(alloc)
    BY OwnedTypes, BoundsAssumption
<1>2. JobPromise \in Promise /\ JobPromise <= alloc
    BY <1>1, NextJobCount, BoundsAssumption DEF JobPromise, LiveJob, LiveReaction, Reaction, Promise
<1>3. PICK p \in Promise, rest \in Seq(Job), n \in 0 .. MaxPromises :
          p = JobPromise /\ rest = Tail(queue) /\ n = alloc
    BY <1>1, <1>2, NextJobCount
<1>4. Queued(x) = CountIn(rest, JobsOf(x)) + One(x = p) /\ CountIn(rest, JobsOf(x)) \in Nat
    BY <1>3, NextJobCount
<1>5. PICK base : base = Base(x, <<>>, rest)
    OBVIOUS
<1>6. Hands(p, x, base)
    <2>1. Store(n) /\ p <= n /\ <<>> \in Seq(Job)
        BY <1>1, <1>2, <1>3
    <2>2. CASE ResolveValue(p, v, <<>>, rest)
        BY <2>1, <2>2, <1>5, ResolveCount
    <2>3. CASE Reject(p, v, rest)
        BY <2>1, <2>3, <1>5, RejectCount
    <2> QED BY <2>2, <2>3, <1>3
<1>7. /\ Waits(x) \in Nat /\ Paired(x) \in Nat /\ Running(x) \in Nat
      /\ Paired(x)' = Paired(x) /\ Running(x)' = Running(x)
    BY <1>1 DEF Counted, Paired, Running
<1>8. Fired(x) = 0 /\ CountIn(<<>>, JobsOf(x)) = 0
    BY CountEmpty DEF Fired
<1>9. base = Waits(x) + CountIn(rest, JobsOf(x)) /\ base \in Nat /\ Waits(x) <= base
    BY <1>4, <1>5, <1>7, <1>8 DEF Base
<1>10. One(x = p) \in Nat
    BY DEF One
<1>11. Waits(x) + Fired(x) + Queued(x) = base + One(x = p)
    BY <1>4, <1>7, <1>8, <1>9, <1>10
<1>12. Owned(x) = base + One(x = p) + Paired(x)' + Running(x)'
    BY <1>7, <1>11 DEF Owned, Carried
<1> QED BY <1>1, <1>6, <1>9, <1>12, HandsPass

(* Running a job hands its promise to what the job starts. *)
LEMMA RunJobPass ==
    ASSUME IInv, NEW x \in Promise, Counted(x)', RunJob
    PROVE  Passes(x)
<1>1. queue # <<>> /\ firing = <<>> /\ UNCHANGED alloc /\ Head(queue) \in LiveJob(alloc)
    BY NextJobCount DEF RunJob, RunHandler, RunPassThrough, RunFinally, RunFinallyPropagate,
       RunAsyncResume, RunThenable, RunMicrotask, NextJob, Draining, Quiet
<1>2. /\ JobSettlement \in CleanState /\ Pending \in CleanState
      /\ \A s \in CleanState : s.val \in Value
      /\ Head(queue).r.orig \in CleanState
      /\ Head(queue).r.kind = "microtask" <=> JobPromise = 0
    BY <1>1, PendingClean, BoundsAssumption, OwnedTypes DEF JobSettlement, JobPromise, LiveJob, LiveReaction, Reaction, CleanState, State
<1>10. Paired(x) \in Nat
    BY OwnedTypes DEF Counted
<1>11. ASSUME NEW kind \in Resolving, UNCHANGED pairs
       PROVE  Paired(x)' = Paired(x) + One(x = JobPromise /\ kind \notin Resolving)
    BY <1>10, <1>11 DEF One, Paired
<1>3. CASE RunHandler
    BY <1>1, <1>2, <1>3, <1>11, CallUserPass DEF RunHandler, FrameKind, Resolving
<1>4. CASE RunPassThrough
    BY <1>1, <1>2, <1>4, SettlingJobPass DEF RunPassThrough, NextJob
<1>5. CASE RunFinally
    BY <1>1, <1>2, <1>5, <1>11, CallUserPass DEF RunFinally, FrameKind, Resolving
<1>6. CASE RunFinallyPropagate
    BY <1>1, <1>2, <1>6, SettlingJobPass DEF RunFinallyPropagate, NextJob
<1>7. CASE RunAsyncResume
    BY <1>1, <1>2, <1>7, <1>11, CallUserPass DEF RunAsyncResume, FrameKind, Resolving
<1>8. CASE RunThenable
    <2>1. PICK p \in Promise : p = JobPromise
        BY <1>1, <1>2, <1>8, BoundsAssumption DEF RunThenable, NextJob, JobPromise, LiveJob,
           LiveReaction, Reaction, Promise
    <2>2. Paired(x)' = Paired(x) + One(x = p)
        BY <1>8, <2>1, OwnedTypes, PairCount DEF RunThenable
    <2>3. Paired(x)' = Paired(x) + One(x = JobPromise /\ "thenable" \notin Resolving)
        BY <2>1, <2>2 DEF Resolving
    <2> QED BY <1>1, <1>2, <1>8, <2>3, CallUserPass DEF RunThenable, FrameKind
<1>9. CASE RunMicrotask
    <2>1. x # JobPromise /\ UNCHANGED pairs
        BY <1>2, <1>9, BoundsAssumption DEF RunMicrotask, NextJob, Promise
    <2>2. Paired(x)' = Paired(x) + One(x = JobPromise /\ "microtask" \notin Resolving)
        BY <1>10, <2>1 DEF One, Paired
    <2> QED BY <1>1, <1>2, <1>9, <2>2, CallUserPass DEF RunMicrotask, FrameKind
<1> QED BY <1>3, <1>4, <1>5, <1>6, <1>7, <1>8, <1>9 DEF RunJob

(* A step that allocates the next promise and gives it one owner. *)
LEMMA FreshPass ==
    ASSUME IInv, NEW x \in Promise, Allocate, UNCHANGED state,
           Owned(x)' = Owned(x) + One(x = Fresh)
    PROVE  Passes(x)
<1>1. Counted(x) /\ alloc \in 0 .. MaxPromises
    BY OwnedTypes
<1>2. Owned(x) \in Nat
    BY <1>1 DEF Counted, Owned, Carried
<1>3. ASSUME x = Fresh PROVE Owned(x) = 0
    <2>1. x > alloc
        BY <1>1, <1>3, BoundsAssumption DEF Fresh
    <2> QED BY <2>1, Unowned DEF Owned, Carried
<1> HIDE DEF Owned
<1>4. x # Fresh => Owned(x)' = Owned(x) /\ (IsPending(x)' <=> IsPending(x))
    BY <1>2 DEF One, IsPending
<1>5. x = Fresh => Owned(x)' <= 1 /\ (IsPending(x)' => Owned(x)' = 1)
    BY <1>3 DEF One
<1> QED BY <1>4, <1>5, AllocPass

(* Only the pairs and the frames get the owner. *)
LEMMA FreshSum ==
    ASSUME NEW x, Counted(x), Waits(x)' = Waits(x), Fired(x)' = Fired(x), Queued(x)' = Queued(x),
           NEW d \in Nat, Paired(x)' + Running(x)' = Paired(x) + Running(x) + d, Counted(x)'
    PROVE  Owned(x)' = Owned(x) + d
<1>1. /\ Waits(x) \in Nat /\ Fired(x) \in Nat /\ Queued(x) \in Nat
      /\ Paired(x) \in Nat /\ Running(x) \in Nat
      /\ Paired(x)' \in Nat /\ Running(x)' \in Nat
    BY DEF Counted
<1>2. PICK w \in Nat : w = Waits(x) + Fired(x) + Queued(x)
    BY <1>1
<1>3. w + Paired(x)' + Running(x)' = w + Paired(x) + Running(x) + d
    BY <1>1
<1>4. Owned(x) = w + Paired(x) + Running(x)
    BY <1>2 DEF Owned, Carried
<1>5. Owned(x)' = w + Paired(x)' + Running(x)'
    <2>1. Waits(x)' + Fired(x)' + Queued(x)' = w
        BY <1>2
    <2> QED BY <2>1 DEF Owned, Carried
<1> QED BY <1>3, <1>4, <1>5

(* new Promise, withResolvers and an async call give the promise its owner. *)
LEMMA NewPairPass ==
    ASSUME IInv, NEW x \in Promise, Counted(x)', NewPromise \/ WithResolvers \/ CallAsync
    PROVE  Passes(x)
<1>1. /\ Allocate /\ UNCHANGED <<state, reactions, queue, firing>>
    BY DEF NewPromise, WithResolvers, CallAsync, core
<1>2. /\ Counted(x) /\ pairs \in Seq([cap : Promise, used : BOOLEAN]) /\ frames \in Seq(Frame)
      /\ Fresh \in Promise /\ Fresh \in 0 .. MaxPromises /\ Pending \in State
    BY <1>1, OwnedTypes, AllocateFacts, PendingClean DEF CleanState
<1>3. PICK n \in Promise : n = Fresh
    BY <1>2
<1>4. /\ Paired(x) \in Nat /\ Running(x) \in Nat /\ One(x = n) \in Nat
    BY <1>2 DEF Counted, One
<1>5. ASSUME NEW k \in {"executor", "async"}, Enter(FrameOf(k, Fresh, Pending))
      PROVE  Running(x)' = Running(x) + One(n = x /\ k = "async")
    <2>1. PICK f \in Frame : f = FrameOf(k, n, Pending)
        BY <1>2, <1>3 DEF FrameOf, Frame, FrameKind
    <2>2. Enter(f)
        BY <1>3, <1>5, <2>1
    <2>3. Running(x)' = Running(x) + One(f.cap = x /\ f.k \in Resolving)
        BY <1>2, <2>2, EnterCount
    <2> QED BY <2>1, <2>3 DEF FrameOf, Resolving
<1>6. ASSUME pairs' = Append(pairs, [cap |-> Fresh, used |-> FALSE])
      PROVE  Paired(x)' = Paired(x) + One(x = n)
    BY <1>2, <1>3, <1>6, PairCount
<1>7. Paired(x)' + Running(x)' = Paired(x) + Running(x) + One(x = n)
    <2>1. CASE NewPromise
        <3>1. Running(x)' = Running(x) + One(n = x /\ "executor" = "async")
            BY <2>1, <1>5 DEF NewPromise
        <3>2. Running(x)' = Running(x)
            BY <3>1, <1>4 DEF One
        <3> QED BY <3>2, <2>1, <1>4, <1>6 DEF NewPromise
    <2>2. CASE WithResolvers
        <3>1. Running(x)' = Running(x)
            BY <2>2 DEF WithResolvers, Running
        <3> QED BY <3>1, <2>2, <1>4, <1>6 DEF WithResolvers
    <2>3. CASE CallAsync
        <3>1. Running(x)' = Running(x) + One(n = x /\ "async" = "async")
            BY <2>3, <1>5 DEF CallAsync
        <3>2. Running(x)' = Running(x) + One(x = n)
            BY <3>1 DEF One
        <3>3. Paired(x)' = Paired(x)
            BY <2>3 DEF CallAsync, Paired
        <3> QED BY <3>2, <3>3, <1>4
    <2> QED BY <2>1, <2>2, <2>3, NewPromise \/ WithResolvers \/ CallAsync
<1>8. Waits(x)' = Waits(x) /\ Fired(x)' = Fired(x) /\ Queued(x)' = Queued(x)
    BY <1>1 DEF Waits, Fired, Queued
<1>9. Owned(x)' = Owned(x) + One(x = n)
    BY <1>2, <1>4, <1>7, <1>8, FreshSum
<1> QED BY <1>1, <1>3, <1>9, FreshPass

(* A reaction pushed on a promise, or enqueued as a job, is an owner of its promise. *)
LEMMA PlaceCount ==
    ASSUME NEW n, Store(n), NEW p \in Promise, NEW r \in Reaction, NEW s \in State,
           \/ reactions' = [reactions EXCEPT ![p] = Append(@, r)] /\ UNCHANGED queue
           \/ queue' = Append(queue, JobOf(r, s)) /\ UNCHANGED reactions,
           UNCHANGED firing, NEW x
    PROVE  Carried(x)' = Carried(x) + One(x = r.promise) /\ Carried(x) \in Nat
<1>1. reactions \in [Promise -> Seq(Reaction)] /\ queue \in Seq(Job) /\ firing \in Seq(Job)
    BY StoreTypes
<1>2. Waits(x) \in Nat /\ Queued(x) \in Nat /\ Fired(x) \in Nat /\ One(x = r.promise) \in Nat
    BY <1>1, PromiseFinite, TotalType, CountType DEF Waits, Queued, Fired, One
<1>3. Fired(x)' = Fired(x)
    BY DEF Fired
<1>4. CASE reactions' = [reactions EXCEPT ![p] = Append(@, r)] /\ UNCHANGED queue
    <2>1. Waits(x)' = Waits(x) + One(r.promise = x)
        BY <1>1, <1>4, PushCount
    <2>2. Queued(x)' = Queued(x) /\ One(r.promise = x) = One(x = r.promise)
        BY <1>4 DEF Queued, One
    <2> QED BY <2>1, <2>2, <1>2, <1>3 DEF Carried
<1>5. CASE queue' = Append(queue, JobOf(r, s)) /\ UNCHANGED reactions
    <2>1. PICK j \in Job : j = JobOf(r, s)
        BY DEF JobOf, Job
    <2>2. CountIn(Append(queue, j), JobsOf(x)) = CountIn(queue, JobsOf(x)) + One(j \in JobsOf(x))
        BY <1>1, CountAppend
    <2>3. j \in JobsOf(x) <=> x = r.promise
        BY <2>1 DEF JobsOf, JobOf
    <2>4. One(j \in JobsOf(x)) = One(x = r.promise)
        BY <2>3 DEF One
    <2>5. Queued(x)' = Queued(x) + One(x = r.promise) /\ Waits(x)' = Waits(x)
        BY <2>1, <2>2, <2>4, <1>5 DEF Queued, Waits
    <2> QED BY <2>5, <1>2, <1>3 DEF Carried
<1> QED BY <1>4, <1>5

(* attach_reaction gives the promise of the reaction an owner. *)
LEMMA AttachCount ==
    ASSUME NEW n, Store(n), NEW p \in Promise, NEW r \in Reaction, AttachReaction(p, r), NEW x
    PROVE  Carried(x)' = Carried(x) + One(x = r.promise)
<1>1. PICK s \in State : s = state[p]
    BY DEF Store, CleanState
<1>2. UNCHANGED firing
    BY DEF AttachReaction
<1>3. \/ reactions' = [reactions EXCEPT ![p] = Append(@, r)] /\ UNCHANGED queue
      \/ queue' = Append(queue, JobOf(r, s)) /\ UNCHANGED reactions
    BY <1>1 DEF AttachReaction
<1> QED BY <1>2, <1>3, PlaceCount

(* then and finally. *)
LEMMA ThenPass ==
    ASSUME IInv, NEW x \in Promise, Counted(x)', NEW p \in Promise,
           \/ \E f, r \in BOOLEAN : Then(p, f, r)
           \/ Finally(p)
    PROVE  Passes(x)
<1>1. Allocate /\ UNCHANGED <<state, pairs, frames>>
    BY DEF Then, Finally, AttachReaction
<1>2. /\ Counted(x) /\ Store(alloc) /\ Fresh \in Promise /\ Fresh \in 0 .. MaxPromises
    BY <1>1, OwnedTypes, AllocateFacts
<1>3. PICK n \in Promise : n = Fresh
    BY <1>2
<1>4. \E r \in Reaction : AttachReaction(p, r) /\ r.promise = n
    <2>1. \A k \in ReactionKind : Bare(k, n, p) \in Reaction
        BY <1>2, <1>3, PendingClean, BoundsAssumption DEF Bare, Reaction, CleanState, Promise
    <2>2. ASSUME NEW f \in BOOLEAN, NEW g \in BOOLEAN, Then(p, f, g)
          PROVE  \E r \in Reaction : AttachReaction(p, r) /\ r.promise = n
        <3>1. /\ [Bare("then", n, p) EXCEPT !.onF = f, !.onR = g] \in Reaction
              /\ [Bare("then", n, p) EXCEPT !.onF = f, !.onR = g].promise = n
            <4>1. Bare("then", n, p) \in Reaction
                BY <2>1 DEF ReactionKind
            <4> QED BY <4>1 DEF Reaction, Bare
        <3> QED BY <2>2, <3>1, <1>3 DEF Then
    <2>3. CASE Finally(p)
        <3>1. Bare("finallyCall", n, p) \in Reaction /\ Bare("finallyCall", n, p).promise = n
            BY <2>1 DEF ReactionKind, Bare
        <3> QED BY <2>3, <3>1, <1>3 DEF Finally
    <2> QED BY <2>2, <2>3
<1>5. PICK r \in Reaction : AttachReaction(p, r) /\ r.promise = n
    BY <1>4
<1>6. Carried(x)' = Carried(x) + One(x = n)
    BY <1>2, <1>5, AttachCount
<1>7. Carried(x) \in Nat /\ Paired(x) \in Nat /\ Running(x) \in Nat /\ One(x = n) \in Nat
    BY <1>2 DEF Counted, Carried, One
<1>8. Paired(x)' = Paired(x) /\ Running(x)' = Running(x)
    BY <1>1 DEF Paired, Running
<1>9. Owned(x)' = Owned(x) + One(x = n)
    BY <1>6, <1>7, <1>8 DEF Owned
<1> QED BY <1>1, <1>3, <1>9, FreshPass

(* queueMicrotask: a job that settles no promise. *)
LEMMA MicrotaskPass ==
    ASSUME IInv, NEW x \in Promise, QueueMicrotask
    PROVE  Passes(x)
<1>1. alloc \in Nat /\ Counted(x) /\ queue \in Seq(Job)
    BY OwnedTypes, BoundsAssumption
<1>2. PICK j \in Job : j = MicrotaskJob
    <2>1. Bare("microtask", 0, 0) \in Reaction /\ Pending \in State
        BY PendingClean, BoundsAssumption DEF Bare, Reaction, ReactionKind, CleanState
    <2>2. MicrotaskJob \in Job
        BY <2>1 DEF MicrotaskJob, JobOf, Job
    <2> QED BY <2>2
<1>3. j \notin JobsOf(x)
    BY <1>2, BoundsAssumption DEF JobsOf, MicrotaskJob, JobOf, Bare, Promise
<1>4. CountIn(Append(queue, j), JobsOf(x)) = CountIn(queue, JobsOf(x)) + One(j \in JobsOf(x))
    BY <1>1, CountAppend
<1>5. CountIn(queue, JobsOf(x)) \in Nat
    BY <1>1, CountType
<1>6. CountIn(Append(queue, j), JobsOf(x)) = CountIn(queue, JobsOf(x))
    BY <1>3, <1>4, <1>5 DEF One
<1>7. /\ Queued(x)' = Queued(x) /\ Waits(x)' = Waits(x) /\ Fired(x)' = Fired(x)
      /\ Paired(x)' = Paired(x) /\ Running(x)' = Running(x)
    BY <1>2, <1>6 DEF QueueMicrotask, Queued, Waits, Fired, Paired, Running
<1>8. Owned(x)' = Owned(x)
    BY <1>7 DEF Owned, Carried
<1> QED BY <1>1, <1>8, SamePass DEF QueueMicrotask

(* What resolve_value or reject_promise makes of the counts when it is called *)
(* with nothing left of a cascade and the queue as it is.                     *)
LEMMA CallCount ==
    ASSUME NEW n \in 0 .. MaxPromises, Store(n), firing = <<>>, NEW p \in Promise, p <= n,
           NEW v \in Value, ResolveValue(p, v, <<>>, queue) \/ Reject(p, v, queue),
           NEW x \in Promise
    PROVE  Hands(p, x, Carried(x)) /\ Carried(x) \in Nat /\ Waits(x) <= Carried(x)
<1>1. reactions \in [Promise -> Seq(Reaction)] /\ queue \in Seq(Job)
    BY StoreTypes
<1>2. (\E q \in Seq(Job) : q = queue) /\ (\E rest \in Seq(Job) : rest = <<>>)
    BY <1>1, EmptySeq
<1>q. PICK q \in Seq(Job) : q = queue
    BY <1>2
<1>r. PICK rest \in Seq(Job) : rest = <<>>
    BY <1>2
<1>3. Hands(p, x, Base(x, rest, q))
    <2>1. CASE ResolveValue(p, v, rest, q)
        BY <2>1, ResolveCount
    <2>2. CASE Reject(p, v, q)
        <3>1. Hands(p, x, Base(x, <<>>, q))
            BY <2>2, RejectCount
        <3> QED BY <3>1, <1>r
    <2> QED BY <2>1, <2>2, <1>q, <1>r
<1>4. Fired(x) = 0 /\ CountIn(rest, JobsOf(x)) = 0 /\ Queued(x) = CountIn(q, JobsOf(x))
    BY <1>q, <1>r, CountEmpty DEF Fired, Queued
<1>5. Waits(x) \in Nat /\ CountIn(q, JobsOf(x)) \in Nat
    BY <1>1, PromiseFinite, TotalType, CountType DEF Waits
<1>6. Carried(x) = Base(x, rest, q) /\ Carried(x) \in Nat /\ Waits(x) <= Carried(x)
    BY <1>4, <1>5 DEF Carried, Base
<1> QED BY <1>3, <1>6

(* Promise.resolve and Promise.reject of a fresh promise. *)
LEMMA StaticPass ==
    ASSUME IInv, NEW x \in Promise, Counted(x)',
           \/ \E v \in Inputs : UserInput(v) /\ StaticResolve(v)
           \/ \E e \in Reasons : StaticReject(e)
    PROVE  Passes(x)
<1>1. Allocate /\ UNCHANGED <<pairs, frames>> /\ firing = <<>>
    BY DEF StaticResolve, StaticReject, Calls, UserTurn, Quiet
<1>2. PICK n \in 0 .. MaxPromises : n = Fresh /\ n \in Promise /\ Store(n)
    BY <1>1, AllocateFacts
<1>3. \E v \in Value : ResolveValue(n, v, <<>>, queue) \/ Reject(n, v, queue)
    BY <1>2, ValuesAssumption DEF StaticResolve, StaticReject, Value
<1>4. PICK base : base = Carried(x)
    OBVIOUS
<1>5. Hands(n, x, base) /\ base \in Nat
    <2>1. PICK v \in Value : ResolveValue(n, v, <<>>, queue) \/ Reject(n, v, queue)
        BY <1>3
    <2>2. n <= n
        BY BoundsAssumption
    <2>3. Hands(n, x, Carried(x)) /\ Carried(x) \in Nat
        BY <1>1, <1>2, <2>1, <2>2, CallCount
    <2> QED BY <2>3, <1>4
<1>6. Paired(x)' = Paired(x) /\ Running(x)' = Running(x)
    BY <1>1 DEF Paired, Running
<1>7. x # Fresh => Owned(x)' = Owned(x) /\ (IsPending(x)' <=> IsPending(x))
    BY <1>2, <1>4, <1>5, <1>6 DEF Owned, Hands
<1>8. x = Fresh => Owned(x)' <= 1 /\ (IsPending(x)' => Owned(x)' = 1)
    <2>1. ASSUME x = Fresh
          PROVE  base = 0 /\ Paired(x) = 0 /\ Running(x) = 0
        <3>1. x > alloc
            BY <2>1, OwnedTypes, BoundsAssumption DEF Fresh
        <3>2. /\ Waits(x) = 0 /\ Fired(x) = 0 /\ Queued(x) = 0
              /\ Paired(x) = 0 /\ Running(x) = 0
            BY <3>1, Unowned
        <3> QED BY <3>2, <1>4 DEF Carried
    <2>2. ASSUME x = Fresh
          PROVE  /\ 0 <= Carried(x)' /\ Carried(x)' <= 1
                 /\ IsPending(x)' => Carried(x)' = 1
        BY <2>1, <2>2, <1>2, <1>5 DEF Hands
    <2>3. ASSUME x = Fresh
          PROVE  Owned(x)' = Carried(x)' + 0 + 0
        BY <2>1, <2>3, <1>6 DEF Owned
    <2>4. ASSUME x = Fresh PROVE Carried(x)' \in Nat
        <3>1. /\ Waits(x)' \in Nat /\ Fired(x)' \in Nat /\ Queued(x)' \in Nat
            BY DEF Counted
        <3> QED BY <3>1 DEF Carried
    <2> HIDE DEF Owned, Carried
    <2> QED BY <2>2, <2>3, <2>4
<1> QED BY <1>1, <1>7, <1>8, AllocPass

(* Using up a resolver pair. *)
LEMMA UseCount ==
    ASSUME NEW s \in Seq([cap : Promise, used : BOOLEAN]), NEW i \in DOMAIN s,
           ~s[i].used, NEW x
    PROVE  CountIn(s, PairsOf(x))
              = CountIn([s EXCEPT ![i].used = TRUE], PairsOf(x)) + One(x = s[i].cap)
<1>1. s[i] \in [cap : Promise, used : BOOLEAN]
    <2>1. DOMAIN s = 1 .. Len(s)
        OBVIOUS
    <2> QED BY <2>1, ElementOfSeq
<1>2. PICK c \in [cap : Promise, used : BOOLEAN], d \in [cap : Promise, used : BOOLEAN] :
          c = s[i] /\ d = [s[i] EXCEPT !.used = TRUE]
    <2>1. [s[i] EXCEPT !.used = TRUE] \in [cap : Promise, used : BOOLEAN]
        BY <1>1
    <2> QED BY <1>1, <2>1
<1>3. [s EXCEPT ![i].used = TRUE] = [s EXCEPT ![i] = d]
    BY <1>2
<1>4. CountIn([s EXCEPT ![i] = d], PairsOf(x)) + One(s[i] \in PairsOf(x))
         = CountIn(s, PairsOf(x)) + One(d \in PairsOf(x))
    BY CountReplace
<1>5. d \notin PairsOf(x) /\ (s[i] \in PairsOf(x) <=> x = s[i].cap)
    BY <1>1, <1>2 DEF PairsOf
<1>6. One(d \in PairsOf(x)) = 0 /\ One(s[i] \in PairsOf(x)) = One(x = s[i].cap)
    BY <1>5 DEF One
<1>7. CountIn(s, PairsOf(x)) \in Nat /\ CountIn([s EXCEPT ![i] = d], PairsOf(x)) \in Nat
    <2>1. [s EXCEPT ![i] = d] \in Seq([cap : Promise, used : BOOLEAN])
        BY ExceptSeq
    <2> QED BY <2>1, CountType
<1>8. One(x = s[i].cap) \in Nat
    BY DEF One
<1> QED BY <1>3, <1>4, <1>6, <1>7, <1>8

(* The first call through a pair takes the pair as an owner. *)
LEMMA ResolverPass ==
    ASSUME IInv, NEW x \in Promise, Counted(x)', NEW i \in DOMAIN pairs,
           \/ \E v \in Value : UserValue(v) /\ CallResolve(i, v)
           \/ \E e \in Reasons : CallReject(i, e)
    PROVE  Passes(x)
<1>1. /\ UNCHANGED <<frames, alloc>> /\ firing = <<>> /\ ~pairs[i].used
      /\ pairs' = [pairs EXCEPT ![i].used = TRUE]
    BY DEF CallResolve, CallReject, Calls, UserTurn, Quiet
<1>2. /\ Counted(x) /\ pairs \in Seq([cap : Promise, used : BOOLEAN]) /\ Store(alloc)
      /\ alloc \in 0 .. MaxPromises
    BY OwnedTypes
<1>12. alloc \in Nat
    BY <1>2, BoundsAssumption
<1>3. pairs[i] \in LivePair(alloc)
    BY DEF IInv
<1>4. PICK p \in Promise, n \in 0 .. MaxPromises : p = pairs[i].cap /\ n = alloc
    BY <1>2, <1>3 DEF LivePair
<1>5. p <= n
    BY <1>3, <1>4 DEF LivePair
<1>6. Paired(x) = Paired(x)' + One(x = p)
    BY <1>1, <1>2, <1>4, UseCount DEF Paired
<1>7. PICK v \in Value : ResolveValue(p, v, <<>>, queue) \/ Reject(p, v, queue)
    BY <1>4, ValuesAssumption DEF CallResolve, CallReject, Value
<1>8. PICK base \in Nat : Hands(p, x, base) /\ Waits(x) <= base /\ base = Carried(x)
    BY <1>1, <1>2, <1>4, <1>5, <1>7, CallCount
<1>9. Running(x)' = Running(x)
    BY <1>1 DEF Running
<1>10. Paired(x)' \in Nat /\ Running(x) \in Nat /\ One(x = p) \in Nat
    BY <1>2 DEF Counted, One
<1>11. Owned(x) = base + One(x = p) + Paired(x)' + Running(x)'
    BY <1>6, <1>8, <1>9, <1>10 DEF Owned
<1> QED BY <1>1, <1>2, <1>8, <1>11, <1>12, HandsPass

(* Leaving a frame that settles its promise takes that owner. *)
LEMMA TopOwner ==
    ASSUME IInv, frames # <<>>, frames' = Below, NEW x
    PROVE  /\ Top.k \in Resolving => Running(x) = Running(x)' + One(x = Top.cap)
           /\ Top.k \notin Resolving => Running(x) = Running(x)'
           /\ Running(x)' \in Nat
<1>1. frames \in Seq(Frame)
    BY OwnedTypes
<1>2. /\ Running(x) = CountIn(Below, FramesOf(x)) + One(Top.cap = x /\ Top.k \in Resolving)
      /\ CountIn(Below, FramesOf(x)) \in Nat
    BY <1>1, LeaveCount
<1>3. Running(x)' = CountIn(Below, FramesOf(x))
    BY DEF Running
<1> QED BY <1>2, <1>3 DEF One

(* A result or a throw settles the promise of its frame. *)
LEMMA SettlingReturnPass ==
    ASSUME IInv, NEW x \in Promise, Counted(x)',
           \/ \E v \in Value : UserValue(v) /\ ReturnValue(v)
           \/ \E e \in Reasons : ThrowRejects(e)
    PROVE  Passes(x)
<1>1. /\ UserTurn /\ frames # <<>> /\ frames' = Below /\ UNCHANGED <<pairs, alloc>>
      /\ Top.k \notin {"eval", "drain", "microtask"}
    BY DEF ReturnValue, ThrowRejects, Leave, UserTurn, Quiet
<1>2. /\ firing = <<>> /\ Top.cap \in Promise /\ Top.cap <= alloc
    BY <1>1, TopFacts
<1>3. Counted(x) /\ Store(alloc) /\ alloc \in 0 .. MaxPromises
    BY OwnedTypes
<1>4. PICK p \in Promise, n \in 0 .. MaxPromises : p = Top.cap /\ n = alloc
    BY <1>2, <1>3
<1>5. alloc \in Nat
    BY <1>3, BoundsAssumption
<1>6. /\ Top.k \in Resolving => Running(x) = Running(x)' + One(x = p)
      /\ Top.k \notin Resolving => Running(x) = Running(x)'
      /\ Running(x)' \in Nat
    BY <1>1, <1>4, TopOwner
<1>7. PICK v \in Value : \/ ResolveValue(p, v, <<>>, queue) /\ Top.k \in Resolving
                         \/ Reject(p, v, queue)
    BY <1>4, ValuesAssumption DEF ReturnValue, ThrowRejects, Value, Resolving
<1>8. PICK base \in Nat : Hands(p, x, base) /\ Waits(x) <= base /\ base = Carried(x)
    BY <1>2, <1>3, <1>4, <1>7, CallCount
<1>9. Paired(x)' = Paired(x) /\ Paired(x) \in Nat /\ One(x = p) \in Nat
    BY <1>1, <1>3 DEF Paired, Counted, One
<1>10. CASE Top.k \in Resolving
    <2>1. Owned(x) = base + One(x = p) + Paired(x)' + Running(x)'
        BY <1>6, <1>8, <1>9, <1>10 DEF Owned
    <2> QED BY <2>1, <1>1, <1>3, <1>5, <1>8, HandsPass
<1>11. CASE Top.k \notin Resolving
    <2>1. Reject(p, v, queue)
        BY <1>7, <1>11
    <2>2. ThrowOverrides
        BY <1>1, <1>11 DEF ThrowOverrides, ReturnValue, ThrowRejects, Resolving
    <2>3. Carried(x)' = base
        <3>1. PICK q \in Seq(Job) : q = queue
            BY OwnedTypes
        <3>2. Carried(x)' = Base(x, <<>>, q)
            BY <2>1, <3>1, <1>3, RejectCount
        <3>3. Fired(x) = 0 /\ CountIn(<<>>, JobsOf(x)) = 0 /\ Queued(x) = CountIn(q, JobsOf(x))
            BY <3>1, <1>2, CountEmpty DEF Fired, Queued
        <3> QED BY <3>2, <3>3, <1>8 DEF Base, Carried
    <2>4. Owned(x)' = Owned(x) /\ Owned(x) \in Nat
        BY <2>3, <1>6, <1>8, <1>9, <1>11 DEF Owned
    <2>5. x \in Nat
        BY BoundsAssumption DEF Promise
    <2> HIDE DEF Owned, Carried
    <2> QED BY <2>2, <2>4, <2>5, <1>1, <1>5 DEF Passes, Handover, Consumes
<1> QED BY <1>10, <1>11

(* Other completions settle nothing. *)
LEMMA IgnoredPass ==
    ASSUME IInv, NEW x \in Promise, ReturnIgnored \/ ThrowMicrotask
    PROVE  Passes(x)
<1>1. /\ frames # <<>> /\ frames' = Below /\ Top.k \notin Resolving
      /\ UNCHANGED <<state, reactions, queue, firing, pairs, alloc>>
    BY DEF ReturnIgnored, ThrowMicrotask, Leave, UserTurn, Quiet, core, Resolving
<1>2. Counted(x) /\ alloc \in Nat
    BY OwnedTypes, BoundsAssumption
<1>3. Running(x)' = Running(x)
    BY <1>1, TopOwner
<1>4. Owned(x)' = Owned(x)
    BY <1>1, <1>3 DEF Owned, Carried, Waits, Fired, Queued, Paired
<1> QED BY <1>1, <1>2, <1>4, SamePass

(* A suspended async function hands its promise to the awaited promise. *)
LEMMA AwaitPass ==
    ASSUME IInv, NEW x \in Promise, Counted(x)', NEW p \in Promise, AwaitPromise(p)
    PROVE  Passes(x)
<1>1. /\ UserTurn /\ frames # <<>> /\ frames' = Below /\ UNCHANGED <<state, firing, pairs, alloc>>
      /\ Top.k \in Resolving
    BY DEF AwaitPromise, InAsync, Leave, UserTurn, Quiet, Resolving
<1>2. Counted(x) /\ Store(alloc) /\ alloc \in 0 .. MaxPromises
    BY OwnedTypes
<1>3. PICK c \in Promise, n \in 0 .. MaxPromises : c = Top.cap /\ n = alloc
    BY <1>1, <1>2, TopFacts DEF Resolving
<1>4. PICK r \in Reaction : r = Bare("async", c, p) /\ r.promise = c
    <2>1. Bare("async", c, p) \in Reaction /\ Bare("async", c, p).promise = c
        BY PendingClean, BoundsAssumption DEF Bare, Reaction, ReactionKind, CleanState, Promise
    <2> QED BY <2>1
<1>5. PICK s \in State : s = state[p]
    BY <1>2 DEF Store, CleanState
<1>6. \/ reactions' = [reactions EXCEPT ![p] = Append(@, r)] /\ UNCHANGED queue
      \/ queue' = Append(queue, JobOf(r, s)) /\ UNCHANGED reactions
    BY <1>3, <1>4, <1>5 DEF AwaitPromise
<1>7. Carried(x)' = Carried(x) + One(x = c) /\ Carried(x) \in Nat
    BY <1>1, <1>2, <1>3, <1>4, <1>6, PlaceCount
<1>8. Running(x) = Running(x)' + One(x = c) /\ Running(x)' \in Nat
    BY <1>1, <1>3, TopOwner
<1>9. Paired(x)' = Paired(x) /\ Paired(x) \in Nat /\ One(x = c) \in Nat
    BY <1>1, <1>2 DEF Paired, Counted, One
<1>10. Owned(x)' = Owned(x)
    BY <1>7, <1>8, <1>9 DEF Owned
<1>11. alloc \in Nat
    BY <1>2, BoundsAssumption
<1> QED BY <1>1, <1>2, <1>10, <1>11, SamePass

(* A fresh wrapper promise that waits: a job settles it, and the reaction it *)
(* holds has the promise the frame settled.                                  *)
LEMMA WaitingWrapperPass ==
    ASSUME IInv, NEW x \in Promise, Counted(x)', Allocate, frames # <<>>, frames' = Below,
           Top.k \in Resolving, NEW r \in Reaction, r.promise = Top.cap,
           reactions' = [reactions EXCEPT ![Fresh] = <<r>>],
           queue' = Append(queue, ThenableJob(Fresh)),
           UNCHANGED <<state, firing, pairs>>
    PROVE  Passes(x)
<1>1. /\ Counted(x) /\ Store(alloc) /\ alloc \in 0 .. MaxPromises
      /\ reactions \in [Promise -> Seq(Reaction)] /\ queue \in Seq(Job)
    BY OwnedTypes
<1>2. PICK n \in Promise : n = Fresh /\ reactions[n] = <<>>
    BY AllocateFacts
<1>3. PICK c : c = Top.cap
    OBVIOUS
<1>4. Waits(x)' = Waits(x) + One(x = c)
    <2>1. reactions' = [reactions EXCEPT ![n] = Append(@, r)]
        BY <1>1, <1>2
    <2>2. Waits(x)' = Waits(x) + One(r.promise = x)
        BY <2>1, <1>1, PushCount
    <2> QED BY <2>2, <1>3 DEF One
<1>5. Queued(x)' = Queued(x) + One(x = n)
    <2>1. PICK j \in Job : j = ThenableJob(n)
        <3>1. Bare("thenable", n, 0) \in Reaction /\ Pending \in State
            BY PendingClean, BoundsAssumption DEF Bare, Reaction, ReactionKind, CleanState, Promise
        <3>2. ThenableJob(n) \in Job
            BY <3>1 DEF ThenableJob, JobOf, Job
        <3> QED BY <3>2
    <2>2. CountIn(Append(queue, j), JobsOf(x)) = CountIn(queue, JobsOf(x)) + One(j \in JobsOf(x))
        BY <1>1, CountAppend
    <2>3. j \in JobsOf(x) <=> x = n
        BY <2>1 DEF JobsOf, ThenableJob, JobOf, Bare
    <2>4. One(j \in JobsOf(x)) = One(x = n)
        BY <2>3 DEF One
    <2> QED BY <2>1, <2>2, <2>4, <1>2 DEF Queued
<1>6. Running(x) = Running(x)' + One(x = c) /\ Running(x)' \in Nat
    BY <1>3, TopOwner
<1>7. Fired(x)' = Fired(x) /\ Paired(x)' = Paired(x)
    BY DEF Fired, Paired
<1>8. /\ Waits(x) \in Nat /\ Fired(x) \in Nat /\ Queued(x) \in Nat /\ Paired(x) \in Nat
      /\ One(x = c) \in Nat /\ One(x = n) \in Nat
    BY <1>1 DEF Counted, One
<1>9. Owned(x)' = Owned(x) + One(x = n)
    <2>1. Carried(x)' = Carried(x) + One(x = c) + One(x = n) /\ Carried(x) \in Nat
        BY <1>4, <1>5, <1>7, <1>8 DEF Carried
    <2> HIDE DEF Carried
    <2> QED BY <2>1, <1>6, <1>7, <1>8 DEF Owned
<1> QED BY <1>2, <1>9, FreshPass

(* A fresh wrapper promise that is settled at once has no owner, and the *)
(* promise the frame settled is handed to a job.                         *)
LEMMA SettledWrapperPass ==
    ASSUME IInv, NEW x \in Promise, Counted(x)', Allocate, frames # <<>>, frames' = Below,
           Top.k \in Resolving, NEW r \in Reaction, r.promise = Top.cap,
           NEW s, Final(s), state' = [state EXCEPT ![Fresh] = s],
           queue' = Append(queue, JobOf(r, s)),
           UNCHANGED <<reactions, firing, pairs>>
    PROVE  Passes(x)
<1>1. Counted(x) /\ Store(alloc) /\ alloc \in 0 .. MaxPromises
    BY OwnedTypes
<1>2. PICK n \in Promise : n = Fresh
    BY AllocateFacts
<1>3. PICK c : c = Top.cap
    OBVIOUS
<1>4. Carried(x)' = Carried(x) + One(x = c) /\ Carried(x) \in Nat
    <2>1. PICK t \in State : t = s
        BY DEF Final, CleanState
    <2>2. queue' = Append(queue, JobOf(r, t)) /\ UNCHANGED reactions /\ UNCHANGED firing
        BY <2>1
    <2>3. Carried(x)' = Carried(x) + One(x = r.promise) /\ Carried(x) \in Nat
        BY <2>2, <1>1, <1>2, PlaceCount
    <2> QED BY <2>3, <1>3
<1>5. Running(x) = Running(x)' + One(x = c) /\ Running(x)' \in Nat
    BY <1>3, TopOwner
<1>6. Paired(x)' = Paired(x) /\ Paired(x) \in Nat /\ One(x = c) \in Nat
    BY <1>1 DEF Paired, Counted, One
<1>7. Owned(x)' = Owned(x)
    BY <1>4, <1>5, <1>6 DEF Owned
<1>8. ASSUME x = Fresh PROVE Owned(x) = 0
    <2>1. x > alloc
        BY <1>1, <1>8, BoundsAssumption DEF Fresh
    <2> QED BY <2>1, Unowned DEF Owned, Carried
<1>9. /\ x # Fresh => (IsPending(x)' <=> IsPending(x))
      /\ x = Fresh => ~IsPending(x)'
    BY <1>1, <1>2 DEF IsPending, Store, Final
<1> HIDE DEF Owned
<1>10. x = Fresh => Owned(x)' <= 1
    BY <1>7, <1>8
<1> QED BY <1>7, <1>9, <1>10, AllocPass

(* The promise a finally callback returned is adopted by the fresh one. *)
LEMMA AdoptingWrapperPass ==
    ASSUME IInv, NEW x \in Promise, Counted(x)', Allocate, frames # <<>>, frames' = Below,
           Top.k \in Resolving, NEW r \in Reaction, r.promise = Top.cap,
           NEW v \in Promise, v # Fresh, NEW f \in Reaction, f.promise = Fresh,
           reactions' = [reactions EXCEPT ![v] = Append(@, f), ![Fresh] = <<r>>],
           UNCHANGED <<state, queue, firing, pairs>>
    PROVE  Passes(x)
<1>1. /\ Counted(x) /\ Store(alloc) /\ alloc \in 0 .. MaxPromises
      /\ reactions \in [Promise -> Seq(Reaction)]
    BY OwnedTypes
<1>2. PICK n \in Promise : n = Fresh /\ reactions[n] = <<>> /\ n # v
    BY AllocateFacts
<1>3. PICK c : c = Top.cap
    OBVIOUS
<1>4. Waits(x)' = Waits(x) + One(x = n) + One(x = c)
    <2>1. PICK a \in [Promise -> Seq(Reaction)] : a = reactions
        BY <1>1
    <2>2. Append(a[v], f) \in Seq(Reaction) /\ <<r>> \in Seq(Reaction)
        OBVIOUS
    <2>3. PICK b \in [Promise -> Seq(Reaction)] : b = [a EXCEPT ![v] = Append(a[v], f)]
        BY <2>2
    <2>4. PICK d \in [Promise -> Seq(Reaction)] : d = [b EXCEPT ![n] = <<r>>]
        BY <2>2
    <2>5. b[v] = Append(a[v], f) /\ \A q \in Promise \ {v} : b[q] = a[q]
        BY <2>3
    <2>6. d[n] = Append(b[n], r) /\ \A q \in Promise \ {n} : d[q] = b[q]
        <3>1. b[n] = <<>>
            BY <2>1, <2>5, <1>2
        <3> QED BY <3>1, <2>4
    <2>7. OneMore(a, b, f, x)
        BY <2>5, PushTotal
    <2>8. OneMore(b, d, r, x)
        BY <2>6, PushTotal
    <2>9. reactions' = d
        BY <2>1, <2>3, <2>4, <1>2
    <2>10. One(f.promise = x) = One(x = n) /\ One(r.promise = x) = One(x = c)
        BY <1>2, <1>3 DEF One
    <2>11. TotalIn(d, ReactionsOf(x)) = TotalIn(a, ReactionsOf(x)) + One(x = n) + One(x = c)
        BY <2>7, <2>8, <2>10 DEF OneMore
    <2> QED BY <2>1, <2>9, <2>11 DEF Waits
<1>5. Running(x) = Running(x)' + One(x = c) /\ Running(x)' \in Nat
    BY <1>3, TopOwner
<1>6. Fired(x)' = Fired(x) /\ Paired(x)' = Paired(x) /\ Queued(x)' = Queued(x)
    BY DEF Fired, Paired, Queued
<1>7. /\ Waits(x) \in Nat /\ Fired(x) \in Nat /\ Queued(x) \in Nat /\ Paired(x) \in Nat
      /\ One(x = c) \in Nat /\ One(x = n) \in Nat
    BY <1>1 DEF Counted, One
<1>8. Owned(x)' = Owned(x) + One(x = n)
    <2>1. Carried(x)' = Carried(x) + One(x = c) + One(x = n) /\ Carried(x) \in Nat
        BY <1>4, <1>6, <1>7 DEF Carried
    <2> HIDE DEF Carried
    <2> QED BY <2>1, <1>5, <1>6, <1>7 DEF Owned
<1> QED BY <1>2, <1>8, FreshPass

(* await on any other value hands the promise to the wrapper. *)
LEMMA AwaitOtherPass ==
    ASSUME IInv, NEW x \in Promise, Counted(x)', NEW v \in Inputs, AwaitOther(v)
    PROVE  Passes(x)
<1>1. /\ UserTurn /\ Allocate /\ frames # <<>> /\ frames' = Below /\ Top.k \in Resolving
      /\ UNCHANGED <<firing, pairs>>
    BY DEF AwaitOther, InAsync, Leave, UserTurn, Quiet, Resolving
<1>2. Top.cap \in Promise /\ Fresh \in Promise
    BY <1>1, TopFacts, AllocateFacts DEF Resolving
<1>3. PICK r \in Reaction : r = Bare("async", Top.cap, Fresh) /\ r.promise = Top.cap
    <2>1. /\ Bare("async", Top.cap, Fresh) \in Reaction
          /\ Bare("async", Top.cap, Fresh).promise = Top.cap
        BY <1>2, PendingClean, BoundsAssumption DEF Bare, Reaction, ReactionKind, CleanState, Promise
    <2> QED BY <2>1
<1>4. CASE /\ queue' = Append(queue, ThenableJob(Fresh))
           /\ reactions' = [reactions EXCEPT ![Fresh] = <<r>>] /\ UNCHANGED state
    BY <1>1, <1>3, <1>4, WaitingWrapperPass
<1>5. ASSUME NEW s \in {Rejected(Plain), Fulfilled(Plain)},
             state' = [state EXCEPT ![Fresh] = s], queue' = Append(queue, JobOf(r, s)),
             UNCHANGED reactions
      PROVE  Passes(x)
    <2>1. Final(s)
        BY DEF Final, Rejected, Fulfilled, CleanState, State, Value
    <2> QED BY <1>1, <1>3, <1>5, <2>1, SettledWrapperPass
<1>6. \A s : s = (IF v = BadThen THEN Rejected(Plain) ELSE Fulfilled(v)) /\ v \in {Plain, BadThen}
           => s \in {Rejected(Plain), Fulfilled(Plain)}
    OBVIOUS
<1> QED BY <1>3, <1>4, <1>5, <1>6 DEF AwaitOther

(* The return of a finally callback hands the promise to FinallyPropagate. *)
LEMMA ReturnFinallyPass ==
    ASSUME IInv, NEW x \in Promise, Counted(x)', NEW v \in Value, UserValue(v), ReturnFinally(v)
    PROVE  Passes(x)
<1>1. /\ UserTurn /\ Allocate /\ frames # <<>> /\ frames' = Below /\ Top.k \in Resolving
      /\ Top.k = "finally" /\ UNCHANGED <<firing, pairs>>
    BY DEF ReturnFinally, Leave, UserTurn, Quiet, Resolving
<1>2. /\ Top.cap \in Promise /\ Top.orig \in CleanState /\ Fresh \in Promise /\ v # Fresh
      /\ Store(alloc)
    BY <1>1, TopFacts, AllocateFacts
<1> DEFINE follow == [Bare("finallyPropagate", Top.cap, Fresh) EXCEPT !.orig = Top.orig]
<1>3. PICK r \in Reaction : r = follow /\ r.promise = Top.cap
    <2>1. follow \in Reaction /\ follow.promise = Top.cap
        <3>1. Bare("finallyPropagate", Top.cap, Fresh) \in Reaction
            BY <1>2, PendingClean, BoundsAssumption DEF Bare, Reaction, ReactionKind, CleanState, Promise
        <3> QED BY <3>1, <1>2 DEF Reaction, Bare, CleanState
    <2> QED BY <2>1
<1>4. ASSUME NEW s, Final(s), state' = [state EXCEPT ![Fresh] = s],
             queue' = Append(queue, JobOf(r, s)), UNCHANGED reactions
      PROVE  Passes(x)
    BY <1>1, <1>3, <1>4, SettledWrapperPass
<1>5. CASE /\ v \in Promise
           /\ reactions' = [reactions EXCEPT ![v] = Append(@, Bare("forward", Fresh, v)),
                                             ![Fresh] = <<follow>>]
           /\ UNCHANGED <<state, queue>>
    <2>1. PICK f \in Reaction : f = Bare("forward", Fresh, v) /\ f.promise = Fresh
        <3>1. Bare("forward", Fresh, v) \in Reaction /\ Bare("forward", Fresh, v).promise = Fresh
            BY <1>2, <1>5, PendingClean, BoundsAssumption DEF Bare, Reaction, ReactionKind, CleanState, Promise
        <3> QED BY <3>1
    <2>2. reactions' = [reactions EXCEPT ![v] = Append(@, f), ![Fresh] = <<r>>]
        BY <1>3, <1>5, <2>1
    <2>3. v \in Promise /\ UNCHANGED <<state, queue>> /\ r.promise = Top.cap
        BY <1>3, <1>5
    <2> HIDE DEF follow
    <2> QED BY <2>1, <2>2, <2>3, <1>1, <1>2, AdoptingWrapperPass
<1>6. CASE /\ queue' = Append(queue, ThenableJob(Fresh))
           /\ reactions' = [reactions EXCEPT ![Fresh] = <<follow>>] /\ UNCHANGED state
    <2>1. reactions' = [reactions EXCEPT ![Fresh] = <<r>>]
        BY <1>3, <1>6
    <2> QED BY <2>1, <1>1, <1>3, <1>6, WaitingWrapperPass
<1>7. ASSUME v \in Promise, ~IsPending(v) PROVE Final(state[v])
    BY <1>2, <1>7 DEF Final, Store, IsPending
<1>8. v \in {Plain, BadThen} => Final(IF v = BadThen THEN Rejected(Plain) ELSE Fulfilled(v))
    BY DEF Final, Rejected, Fulfilled, CleanState, State, Value
<1>9. \/ \E s : /\ state' = [state EXCEPT ![Fresh] = s] /\ queue' = Append(queue, JobOf(follow, s))
                /\ UNCHANGED reactions /\ Final(s)
      \/ /\ v \in Promise
         /\ reactions' = [reactions EXCEPT ![v] = Append(@, Bare("forward", Fresh, v)),
                                           ![Fresh] = <<follow>>]
         /\ UNCHANGED <<state, queue>>
      \/ /\ queue' = Append(queue, ThenableJob(Fresh))
         /\ reactions' = [reactions EXCEPT ![Fresh] = <<follow>>] /\ UNCHANGED state
    BY <1>7, <1>8, Zenon DEF ReturnFinally
<1> HIDE DEF follow
<1> QED BY <1>3, <1>4, <1>5, <1>6, <1>9

(* The counts are numbers after a step, too. *)
LEMMA CountedNext ==
    ASSUME IInv, [Next]_vars, NEW x
    PROVE  Counted(x)'
<1>1. IInv'
    BY NextInv
<1>2. /\ reactions' \in [Promise -> Seq(Reaction)]
      /\ queue' \in Seq(Job) /\ firing' \in Seq(Job)
      /\ pairs' \in Seq([cap : Promise, used : BOOLEAN]) /\ frames' \in Seq(Frame)
    <2>1. PICK n : n = alloc'
        OBVIOUS
    <2>2. /\ reactions' \in [Promise -> Seq(LiveReaction(n))]
          /\ queue' \in Seq(LiveJob(n)) /\ firing' \in Seq(LiveJob(n))
          /\ pairs' \in Seq(LivePair(n)) /\ frames' \in Seq(LiveFrame(n))
        BY <1>1, <2>1 DEF IInv, Store
    <2>3. \A q \in Promise : reactions'[q] \in Seq(Reaction)
        BY <2>2, LiveTypes
    <2>4. reactions' \in [Promise -> Seq(Reaction)]
        BY <2>2, <2>3
    <2>5. /\ queue' \in Seq(Job) /\ firing' \in Seq(Job)
          /\ pairs' \in Seq([cap : Promise, used : BOOLEAN]) /\ frames' \in Seq(Frame)
        <3>1. /\ Seq(LiveJob(n)) \subseteq Seq(Job) /\ Seq(LiveFrame(n)) \subseteq Seq(Frame)
              /\ Seq(LivePair(n)) \subseteq Seq([cap : Promise, used : BOOLEAN])
            BY LiveTypes
        <3> QED BY <2>2, <3>1
    <2> QED BY <2>4, <2>5
<1> QED BY <1>2, PromiseFinite, TotalType, CountType
    DEF Counted, Waits, Fired, Queued, Paired, Running

(* Every step hands the owners on, but for a drain that drops a job. *)
LEMMA NextPass ==
    ASSUME IInv, [Next]_vars, ~HitJobLimit, NEW x \in Promise
    PROVE  Passes(x)
<1>0. Counted(x)'
    BY CountedNext
<1>1. CASE StartEval \/ FinishEval \/ EndDrain
    BY <1>1, EvalPass
<1>2. CASE TakeUnhandled \/ UNCHANGED vars
    BY <1>2, TakePass
<1>3. CASE FireReaction
    BY <1>0, <1>3, FirePass
<1>4. CASE RunJob
    BY <1>0, <1>4, RunJobPass
<1>5. CASE UserCall
    BY <1>0, <1>5, NewPairPass, MicrotaskPass, ResolverPass, ThenPass, AwaitPass,
       AwaitOtherPass, StaticPass DEF UserCall
<1>6. CASE Complete
    BY <1>0, <1>6, SettlingReturnPass, IgnoredPass, ReturnFinallyPass DEF Complete
<1> QED BY <1>1, <1>2, <1>3, <1>4, <1>5, <1>6 DEF Next

-----------------------------------------------------------------------------
(* Owners and their number                                                  *)

(* A name in front of the members of a set changes not how many they are. *)
LEMMA TaggedCount ==
    ASSUME NEW S, IsFiniteSet(S), NEW tag
    PROVE  /\ IsFiniteSet({<<tag, 0, i>> : i \in S})
           /\ Cardinality({<<tag, 0, i>> : i \in S}) = Cardinality(S)
<1> DEFINE T == {<<tag, 0, i>> : i \in S}
           f == [i \in S |-> <<tag, 0, i>>]
<1>1. f \in Bijection(S, T)
    <2>1. f \in [S -> T] /\ \A t \in T : \E i \in S : f[i] = t
        OBVIOUS
    <2>2. \A i, j \in S : f[i] = f[j] => i = j
        OBVIOUS
    <2> HIDE DEF f, T
    <2> QED BY <2>1, <2>2 DEF Bijection, Injection, Surjection, IsInjective
<1>2. ExistsBijection(S, T)
    BY <1>1 DEF ExistsBijection
<1> HIDE DEF f, T
<1>3. IsFiniteSet(T) /\ Cardinality(T) = Cardinality(S)
    BY <1>2, FS_Bijection
<1> QED BY <1>3 DEF T

(* The same for the places of reactions. *)
TaggedPlaces(p) ==
    UNION {{<<"reaction", q, i>> : i \in {j \in DOMAIN reactions[q] :
             reactions[q][j].promise = p}} : q \in Promise}

(* There are as many tagged places as waiting reactions. *)
LEMMA TaggedPlacesCount ==
    ASSUME IInv, NEW p
    PROVE  IsFiniteSet(TaggedPlaces(p)) /\ Cardinality(TaggedPlaces(p)) = Waits(p)
<1> DEFINE P == Places(reactions, ReactionsOf(p))
           T == TaggedPlaces(p)
           f == [qi \in P |-> <<"reaction", qi[1], qi[2]>>]
<1>1. /\ reactions \in [Promise -> Seq(Reaction)]
      /\ \A q \in Promise : DOMAIN reactions[q] \subseteq Nat
    BY OwnedTypes
<1>2. \A q \in Promise : \A i \in DOMAIN reactions[q] : reactions[q][i] \in Reaction
    BY <1>1
<1>3. P = {qi \in Promise \X Nat : qi[2] \in DOMAIN reactions[qi[1]]
                                   /\ reactions[qi[1]][qi[2]].promise = p}
    BY <1>1, <1>2 DEF Places, ReactionsOf
<1>4. \A t : t \in T <=> \E q \in Promise : \E i \in DOMAIN reactions[q] :
                             reactions[q][i].promise = p /\ t = <<"reaction", q, i>>
    BY DEF TaggedPlaces
<1>5. f \in [P -> T]
    BY <1>3, <1>4
<1>6. \A t \in T : \E qi \in P : f[qi] = t
    <2>1. ASSUME NEW q \in Promise, NEW i \in DOMAIN reactions[q], reactions[q][i].promise = p
          PROVE  <<q, i>> \in P /\ f[<<q, i>>] = <<"reaction", q, i>>
        BY <1>1, <1>3, <2>1
    <2>2. ASSUME NEW t \in T
          PROVE  \E qi \in P : f[qi] = t
        <3>1. PICK q \in Promise : \E i \in DOMAIN reactions[q] :
                  reactions[q][i].promise = p /\ t = <<"reaction", q, i>>
            BY <1>4
        <3> HIDE DEF f, P, T
        <3> QED BY <2>1, <3>1
    <2> QED BY <2>2
<1>7. \A a, b \in P : f[a] = f[b] => a = b
    BY <1>3
<1>8. f \in Bijection(P, T)
    <2> HIDE DEF f, P, T
    <2> QED BY <1>5, <1>6, <1>7 DEF Bijection, Injection, Surjection, IsInjective
<1>9. ExistsBijection(P, T)
    BY <1>8 DEF ExistsBijection
<1>10. IsFiniteSet(P)
    BY <1>1, PromiseFinite, TotalType
<1> HIDE DEF f, P, T
<1>11. IsFiniteSet(T) /\ Cardinality(T) = Cardinality(P)
    BY <1>9, <1>10, FS_Bijection
<1> QED BY <1>11 DEF P, T, Waits, TotalIn

(* Two disjoint finite sets. *)
LEMMA DisjointCount ==
    ASSUME NEW S, NEW T, IsFiniteSet(S), IsFiniteSet(T), S \cap T = {}
    PROVE  /\ IsFiniteSet(S \cup T)
           /\ Cardinality(S \cup T) = Cardinality(S) + Cardinality(T)
<1>1. Cardinality(S) \in Nat /\ Cardinality(T) \in Nat /\ Cardinality(S \cap T) = 0
    BY FS_CardinalityType, FS_EmptySet
<1>2. Cardinality(S \cup T) = Cardinality(S) + Cardinality(T) - Cardinality(S \cap T)
    BY FS_Union
<1> QED BY <1>1, <1>2, FS_Union

(* What the drains dropped is live, and a pending allocated promise has one *)
(* owner, a dropped one counted, a settled one at most one.                 *)
OwnInv ==
    /\ lost \in Seq(LiveJob(alloc))
    /\ \A p \in Promise : p <= alloc =>
          Owned(p) + Missed(p) <= 1 /\ (IsPending(p) => Owned(p) + Missed(p) = 1)

(* What was dropped stays live, and counts. *)
LEMMA LostTypes ==
    ASSUME IInv, OwnInv
    PROVE  lost \in Seq(Job) /\ \A p : Missed(p) \in Nat
<1>1. lost \in Seq(Job)
    BY LiveTypes DEF OwnInv
<1> QED BY <1>1, CountType DEF Missed

(* As many owners as are counted. *)
LEMMA OwnersCounted ==
    ASSUME IInv, OwnInv, NEW p \in Promise
    PROVE  IsFiniteSet(Owners(p)) /\ Cardinality(Owners(p)) = Owned(p) + Missed(p)
<1> DEFINE wp == Where(pairs, PairsOf(p))
           wj == Where(queue, JobsOf(p))
           wi == Where(firing, JobsOf(p))
           wf == Where(frames, FramesOf(p))
           wl == Where(lost, JobsOf(p))
           A == {<<"pair", 0, i>> : i \in wp}
           B == {<<"job", 0, i>> : i \in wj}
           C == {<<"firing", 0, i>> : i \in wi}
           D == {<<"frame", 0, i>> : i \in wf}
           E == TaggedPlaces(p)
           F == {<<"lost", 0, i>> : i \in wl}
<1>1. /\ queue \in Seq(Job) /\ firing \in Seq(Job)
      /\ pairs \in Seq([cap : Promise, used : BOOLEAN])
      /\ frames \in Seq(Frame) /\ lost \in Seq(Job)
    BY OwnedTypes, LostTypes
<1>2. /\ wp = {j \in DOMAIN pairs : pairs[j].cap = p /\ ~pairs[j].used}
      /\ wj = {j \in DOMAIN queue : queue[j].r.promise = p}
      /\ wi = {j \in DOMAIN firing : firing[j].r.promise = p}
      /\ wf = {j \in DOMAIN frames : frames[j].cap = p /\ frames[j].k \in Resolving}
      /\ wl = {j \in DOMAIN lost : lost[j].r.promise = p}
    <2>1. /\ \A j \in DOMAIN pairs : pairs[j] \in [cap : Promise, used : BOOLEAN]
          /\ \A j \in DOMAIN queue : queue[j] \in Job
          /\ \A j \in DOMAIN firing : firing[j] \in Job
          /\ \A j \in DOMAIN frames : frames[j] \in Frame
          /\ \A j \in DOMAIN lost : lost[j] \in Job
        <3>1. ASSUME NEW S, NEW s \in Seq(S), NEW j \in DOMAIN s PROVE s[j] \in S
            OBVIOUS
        <3>2. \A j \in DOMAIN pairs : pairs[j] \in [cap : Promise, used : BOOLEAN]
            BY <1>1, <3>1
        <3>3. \A j \in DOMAIN queue : queue[j] \in Job
            BY <1>1, <3>1
        <3>4. \A j \in DOMAIN firing : firing[j] \in Job
            BY <1>1, <3>1
        <3>5. \A j \in DOMAIN frames : frames[j] \in Frame
            BY <1>1, <3>1
        <3>6. \A j \in DOMAIN lost : lost[j] \in Job
            BY <1>1, <3>1
        <3> QED BY <3>2, <3>3, <3>4, <3>5, <3>6
    <2> QED BY <2>1 DEF Where, PairsOf, JobsOf, FramesOf
<1>3. Owners(p) = ((((A \cup B) \cup C) \cup D) \cup E) \cup F
    <2> HIDE DEF wp, wj, wi, wf, wl
    <2> QED BY <1>2 DEF Owners, TaggedPlaces, Resolving
<1>4. /\ IsFiniteSet(wp) /\ IsFiniteSet(wj) /\ IsFiniteSet(wi) /\ IsFiniteSet(wf)
      /\ Cardinality(wp) = Paired(p) /\ Cardinality(wj) = Queued(p)
      /\ Cardinality(wi) = Fired(p) /\ Cardinality(wf) = Running(p)
      /\ IsFiniteSet(wl) /\ Cardinality(wl) = Missed(p) /\ Missed(p) \in Nat
    BY <1>1, CountType DEF Paired, Queued, Fired, Running, Missed, CountIn
<1> HIDE DEF wp, wj, wi, wf, wl
<1>5. /\ IsFiniteSet(A) /\ Cardinality(A) = Paired(p)
      /\ IsFiniteSet(B) /\ Cardinality(B) = Queued(p)
      /\ IsFiniteSet(C) /\ Cardinality(C) = Fired(p)
      /\ IsFiniteSet(D) /\ Cardinality(D) = Running(p)
    BY <1>4, TaggedCount
<1>15. IsFiniteSet(F) /\ Cardinality(F) = Missed(p)
    BY <1>4, TaggedCount
<1>6. IsFiniteSet(E) /\ Cardinality(E) = Waits(p)
    BY TaggedPlacesCount
<1>7. /\ A \cap B = {} /\ (A \cup B) \cap C = {} /\ ((A \cup B) \cup C) \cap D = {}
      /\ (((A \cup B) \cup C) \cup D) \cap E = {}
    <2>1. /\ \A t \in A : t[1] = "pair"
          /\ \A t \in B : t[1] = "job"
          /\ \A t \in C : t[1] = "firing"
          /\ \A t \in D : t[1] = "frame"
          /\ \A t \in E : t[1] = "reaction"
        BY DEF TaggedPlaces
    <2> HIDE DEF A, B, C, D, E
    <2> QED BY <2>1
<1>14. ((((A \cup B) \cup C) \cup D) \cup E) \cap F = {}
    <2>1. /\ \A t \in A : t[1] = "pair"
          /\ \A t \in B : t[1] = "job"
          /\ \A t \in C : t[1] = "firing"
          /\ \A t \in D : t[1] = "frame"
          /\ \A t \in E : t[1] = "reaction"
          /\ \A t \in F : t[1] = "lost"
        BY DEF TaggedPlaces
    <2> HIDE DEF A, B, C, D, E, F
    <2> QED BY <2>1
<1> HIDE DEF A, B, C, D, E, F
<1>8. IsFiniteSet(A \cup B) /\ Cardinality(A \cup B) = Paired(p) + Queued(p)
    BY <1>5, <1>7, DisjointCount
<1>9. /\ IsFiniteSet((A \cup B) \cup C)
      /\ Cardinality((A \cup B) \cup C) = Paired(p) + Queued(p) + Fired(p)
    BY <1>5, <1>7, <1>8, DisjointCount
<1>10. /\ IsFiniteSet(((A \cup B) \cup C) \cup D)
       /\ Cardinality(((A \cup B) \cup C) \cup D) = Paired(p) + Queued(p) + Fired(p) + Running(p)
    BY <1>5, <1>7, <1>9, DisjointCount
<1>11. /\ IsFiniteSet((((A \cup B) \cup C) \cup D) \cup E)
       /\ Cardinality((((A \cup B) \cup C) \cup D) \cup E)
              = Paired(p) + Queued(p) + Fired(p) + Running(p) + Waits(p)
    BY <1>6, <1>7, <1>10, DisjointCount
<1>12. /\ IsFiniteSet(Owners(p))
       /\ Cardinality(Owners(p))
              = Paired(p) + Queued(p) + Fired(p) + Running(p) + Waits(p) + Missed(p)
    BY <1>3, <1>15, <1>14, <1>11, DisjointCount
<1>13. Counted(p) /\ Missed(p) \in Nat
    BY <1>4, OwnedTypes
<1> QED BY <1>12, <1>13 DEF Counted, Owned, Carried

(* Initially nothing is allocated. *)
LEMMA OwnInit == Init => OwnInv
BY BoundsAssumption DEF Init, OwnInv, Promise

(* Only a drain that reaches its limit drops a job, and a step allocates   *)
(* one promise at most.                                                    *)
LEMMA LostKept ==
    ASSUME [Next]_vars, ~HitJobLimit
    PROVE  lost' = lost /\ alloc' \in {alloc, Fresh}
<1>1. CASE StartEval \/ FinishEval \/ EndDrain \/ TakeUnhandled \/ FireReaction \/ UNCHANGED vars
    BY <1>1 DEF StartEval, FinishEval, EndDrain, TakeUnhandled, FireReaction, vars, loop, core
<1>2. CASE RunJob
    BY <1>2 DEF RunJob, RunHandler, RunPassThrough, RunFinally, RunFinallyPropagate,
                RunAsyncResume, RunThenable, RunMicrotask, NextJob
<1>3. CASE UserCall
    BY <1>3 DEF UserCall, NewPromise, WithResolvers, QueueMicrotask, CallAsync, CallResolve,
                CallReject, Then, Finally, AwaitPromise, StaticResolve, AwaitOther,
                StaticReject, loop, Allocate
<1>4. CASE Complete
    BY <1>4 DEF Complete, ReturnValue, ReturnFinally, ReturnIgnored, ThrowRejects,
                ThrowMicrotask, loop, Allocate
<1> QED BY <1>1, <1>2, <1>3, <1>4 DEF Next

(* A drain that reaches its limit turns an owner into a dropped one. *)
LEMMA HitLimitPass ==
    ASSUME IInv, OwnInv, HitJobLimit, NEW x \in Promise
    PROVE  /\ Owned(x)' + Missed(x)' = Owned(x) + Missed(x)
           /\ lost' \in Seq(LiveJob(alloc))
           /\ UNCHANGED <<state, alloc>>
<1>1. /\ UNCHANGED <<state, reactions, firing, pairs, alloc>>
      /\ queue # <<>> /\ queue' = Tail(queue) /\ frames # <<>> /\ frames' = Below /\ Top.k = "drain"
      /\ lost' = IF JobPromise = 0 THEN lost ELSE Append(lost, Head(queue))
    BY DEF HitJobLimit, Draining, StopDraining, Quiet, Leave
<1>2. /\ queue \in Seq(Job) /\ Counted(x) /\ lost \in Seq(Job) /\ Missed(x) \in Nat
      /\ queue \in Seq(LiveJob(alloc)) /\ x \in Nat /\ x # 0
    <2>1. queue \in Seq(Job) /\ Counted(x) /\ Store(alloc)
        BY OwnedTypes
    <2>2. lost \in Seq(Job) /\ Missed(x) \in Nat
        BY LostTypes
    <2>3. x \in Nat /\ x # 0
        BY BoundsAssumption DEF Promise
    <2> QED BY <2>1, <2>2, <2>3 DEF Store
<1>3. Head(queue) \in Job /\ Tail(queue) \in Seq(Job) /\ Head(queue) \in LiveJob(alloc)
    BY <1>1, <1>2, HeadTail
<1>4. /\ Queued(x) = CountIn(Tail(queue), JobsOf(x)) + One(x = JobPromise)
      /\ CountIn(Tail(queue), JobsOf(x)) \in Nat
    BY <1>1, NextJobCount
<1>5. Missed(x)' = Missed(x) + One(x = JobPromise)
    <2>1. CASE JobPromise = 0
        BY <1>1, <1>2, <2>1 DEF Missed, One
    <2>2. CASE JobPromise # 0
        <3>1. CountIn(Append(lost, Head(queue)), JobsOf(x))
                 = CountIn(lost, JobsOf(x)) + One(Head(queue) \in JobsOf(x))
            BY <1>2, <1>3, CountAppend
        <3>2. Head(queue) \in JobsOf(x) <=> x = JobPromise
            BY <1>3 DEF JobsOf, JobPromise
        <3>3. CountIn(lost', JobsOf(x)) = CountIn(lost, JobsOf(x)) + One(Head(queue) \in JobsOf(x))
            BY <1>1, <2>2, <3>1
        <3> QED BY <3>2, <3>3 DEF Missed, One
    <2> QED BY <2>1, <2>2
<1>6. Running(x)' = Running(x)
    BY <1>1, TopOwner DEF Resolving
<1>7. /\ Waits(x)' = Waits(x) /\ Fired(x)' = Fired(x) /\ Paired(x)' = Paired(x)
      /\ Queued(x)' = CountIn(Tail(queue), JobsOf(x))
    BY <1>1 DEF Waits, Fired, Paired, Queued
<1>8. One(x = JobPromise) \in Nat
    BY DEF One
<1>9. Owned(x)' + Missed(x)' = Owned(x) + Missed(x)
    <2>1. Owned(x) = Waits(x) + Fired(x) + Queued(x) + Paired(x) + Running(x)
        BY DEF Owned, Carried
    <2>2. Owned(x)' = Waits(x)' + Fired(x)' + Queued(x)' + Paired(x)' + Running(x)'
        BY DEF Owned, Carried
    <2>3. /\ Waits(x) \in Nat /\ Fired(x) \in Nat /\ Queued(x) \in Nat
          /\ Paired(x) \in Nat /\ Running(x) \in Nat /\ Missed(x) \in Nat
        BY <1>2 DEF Counted
    <2> QED BY <1>4, <1>5, <1>6, <1>7, <1>8, <2>1, <2>2, <2>3
<1>10. lost' \in Seq(LiveJob(alloc))
    BY <1>1, <1>3 DEF OwnInv
<1> QED BY <1>1, <1>9, <1>10

(* Nothing that was dropped would have settled a promise not yet made. *)
LEMMA MissedLive ==
    ASSUME IInv, OwnInv, NEW x \in Promise, x > alloc
    PROVE  Missed(x) = 0
<1>1. \A i \in DOMAIN lost : lost[i] \in LiveJob(alloc)
    BY DEF OwnInv
<1>2. \A j \in LiveJob(alloc) : j \notin JobsOf(x)
    BY BoundsAssumption DEF IInv, LiveJob, LiveReaction, Reaction, Promise, JobsOf
<1>3. \A i \in DOMAIN lost : lost[i] \notin JobsOf(x)
    BY <1>1, <1>2
<1> QED BY <1>3, CountNone DEF Missed

(* Each step keeps the number of owners right. *)
LEMMA OwnNext == IInv /\ OwnInv /\ [Next]_vars => OwnInv'
<1> SUFFICES ASSUME IInv, OwnInv, [Next]_vars PROVE OwnInv'
    OBVIOUS
<1>1. CASE HitJobLimit
    <2>1. UNCHANGED <<state, alloc>> /\ lost' \in Seq(LiveJob(alloc))
        <3>1. 1 \in Promise
            BY BoundsAssumption DEF Promise
        <3> QED BY <3>1, <1>1, HitLimitPass
    <2>2. ASSUME NEW p \in Promise, p <= alloc'
          PROVE  Owned(p)' + Missed(p)' <= 1 /\ (IsPending(p)' => Owned(p)' + Missed(p)' = 1)
        <3>1. Owned(p)' + Missed(p)' = Owned(p) + Missed(p)
            BY <1>1, HitLimitPass
        <3>2. Owned(p) + Missed(p) <= 1 /\ (IsPending(p) => Owned(p) + Missed(p) = 1)
            BY <2>1, <2>2 DEF OwnInv
        <3> QED BY <2>1, <3>1, <3>2 DEF IsPending
    <2> QED BY <2>1, <2>2 DEF OwnInv
<1>2. CASE ~HitJobLimit
    <2>1. lost' = lost /\ lost' \in Seq(LiveJob(alloc'))
        <3>1. lost' = lost
            BY <1>2, LostKept
        <3>2. alloc \in 0 .. MaxPromises /\ alloc' \in 0 .. MaxPromises
            BY NextInv DEF IInv
        <3>3. alloc <= alloc'
            BY <1>2, <3>2, LostKept, BoundsAssumption DEF Fresh
        <3>4. Seq(LiveJob(alloc)) \subseteq Seq(LiveJob(alloc'))
            BY <3>2, <3>3, LiveMono
        <3> QED BY <3>1, <3>4 DEF OwnInv
    <2>2. ASSUME NEW p \in Promise, p <= alloc'
          PROVE  Owned(p)' + Missed(p)' <= 1 /\ (IsPending(p)' => Owned(p)' + Missed(p)' = 1)
        <3>1. Handover(p) /\ Keeps
            BY <1>2, NextPass, NextInv DEF Passes
        <3>2. alloc \in Nat /\ p \in Nat
            BY BoundsAssumption DEF IInv, Promise
        <3>3. Owned(p) \in Nat /\ Owned(p)' \in Nat
            <4>1. Counted(p)
                BY OwnedTypes
            <4>2. Counted(p)'
                BY CountedNext
            <4>3. Owned(p) \in Nat
                BY <4>1 DEF Counted, Owned, Carried
            <4>4. Owned(p)' \in Nat
                BY <4>2 DEF Counted, Owned, Carried
            <4> QED BY <4>3, <4>4
        <3>4. Missed(p)' = Missed(p) /\ Missed(p) \in Nat
            BY <2>1, LostTypes DEF Missed
        <3>5. CASE p > alloc
            BY <2>2, <3>1, <3>3, <3>4, <3>5, MissedLive DEF Handover
        <3>6. CASE p <= alloc
            <4>1. Owned(p)' <= Owned(p) /\ (IsPending(p)' => Owned(p)' = Owned(p))
                BY <3>1, <3>6 DEF Handover
            <4>2. Owned(p) + Missed(p) <= 1 /\ (IsPending(p) => Owned(p) + Missed(p) = 1)
                BY <3>6 DEF OwnInv
            <4>3. IsPending(p)' => IsPending(p)
                BY <3>1 DEF Keeps, IsPending
            <4> QED BY <3>3, <3>4, <4>1, <4>2, <4>3
        <3> QED BY <3>2, <3>5, <3>6
    <2> QED BY <2>1, <2>2 DEF OwnInv
<1> QED BY <1>1, <1>2

(* A promise that is locked in is owned by a reaction that waits. *)
LEMMA LockedOwner ==
    ASSUME IInv, NEW p \in Promise, NEW q \in Promise, LockedOn(p, q)
    PROVE  p <= alloc /\ Waits(p) >= 1
<1>1. PICK i \in DOMAIN reactions[q] : reactions[q][i].promise = p
    BY DEF LockedOn, Range
<1>2. /\ reactions \in [Promise -> Seq(Reaction)]
      /\ reactions[q] \in Seq(LiveReaction(alloc))
    BY OwnedTypes DEF IInv, Store
<1>3. reactions[q][i] \in LiveReaction(alloc)
    BY <1>2
<1>4. reactions[q][i] \in ReactionsOf(p) /\ p <= alloc
    BY <1>1, <1>3 DEF LiveReaction, ReactionsOf
<1>5. Waits(p) >= 1
    BY <1>2, <1>4, PromiseFinite, TotalPositive DEF Waits
<1> QED BY <1>4, <1>5

-----------------------------------------------------------------------------
(* Handlers of one promise run in the order they were attached              *)

Handler(r) == r.kind \in HandlerKinds

(* The handlers of s on a promise were attached before those of t. *)
Ahead(s, t) ==
    \A i \in DOMAIN s, j \in DOMAIN t :
        Handler(s[i].r) /\ Handler(t[j].r) /\ s[i].r.on = t[j].r.on
            => s[i].r.promise < t[j].r.promise

(* The handlers of s hang on promises that are settled in st. *)
SettledOn(st, s) ==
    \A i \in DOMAIN s :
        Handler(s[i].r) => s[i].r.on \in Promise /\ st[s[i].r.on].st # "pending"

(* The queue Q and the cascade F that will follow it. *)
InLine(st, Q, F) ==
    /\ InOrder(Q) /\ InOrder(F) /\ Ahead(Q, F)
    /\ SettledOn(st, Q) /\ SettledOn(st, F)

(* The reactions of a promise hang on it, its handlers in the order they came. *)
HangsOn(q, rs) ==
    /\ \A i \in DOMAIN rs : Handler(rs[i]) => rs[i].on = q
    /\ \A i, j \in DOMAIN rs :
          i < j /\ Handler(rs[i]) /\ Handler(rs[j]) => rs[i].promise < rs[j].promise
Hanging == \A q \in Promise : HangsOn(q, reactions[q])

OrdInv == InLine(state, queue, firing) /\ Hanging

(* A sequence that follows another. *)
LEMMA OrderConcat ==
    ASSUME NEW s \in Seq(Job), NEW t \in Seq(Job), InOrder(s), InOrder(t), Ahead(s, t)
    PROVE  InOrder(s \o t)
<1> DEFINE m == Len(s)
<1>1. /\ m \in Nat /\ Len(t) \in Nat /\ DOMAIN s = 1 .. m /\ DOMAIN t = 1 .. Len(t)
      /\ DOMAIN (s \o t) = 1 .. m + Len(t)
      /\ \A i \in 1 .. m + Len(t) : (s \o t)[i] = IF i <= m THEN s[i] ELSE t[i - m]
    BY ConcatProperties
<1> SUFFICES ASSUME NEW i \in 1 .. m + Len(t), NEW j \in 1 .. m + Len(t), i < j,
                    (s \o t)[i].r.kind \in HandlerKinds, (s \o t)[j].r.kind \in HandlerKinds,
                    (s \o t)[i].r.on = (s \o t)[j].r.on
             PROVE  (s \o t)[i].r.promise < (s \o t)[j].r.promise
    BY <1>1 DEF InOrder
<1>2. CASE j <= m
    <2>1. /\ i \in DOMAIN s /\ j \in DOMAIN s
          /\ (s \o t)[i] = s[i] /\ (s \o t)[j] = s[j]
        BY <1>1, <1>2
    <2> QED BY <2>1 DEF InOrder
<1>3. CASE i <= m /\ ~(j <= m)
    <2>1. /\ i \in DOMAIN s /\ j - m \in DOMAIN t
          /\ (s \o t)[i] = s[i] /\ (s \o t)[j] = t[j - m]
        BY <1>1, <1>3
    <2> QED BY <2>1 DEF Ahead, Handler
<1>4. CASE ~(i <= m)
    <2>1. /\ i - m \in DOMAIN t /\ j - m \in DOMAIN t /\ i - m < j - m
          /\ (s \o t)[i] = t[i - m] /\ (s \o t)[j] = t[j - m]
        BY <1>1, <1>4
    <2> QED BY <2>1 DEF InOrder
<1> QED BY <1>1, <1>2, <1>3, <1>4

(* What all jobs of two sequences satisfy, those of their concatenation do. *)
LEMMA AheadConcat ==
    ASSUME NEW s \in Seq(Job), NEW t \in Seq(Job), NEW u
    PROVE  /\ Ahead(s, u) /\ Ahead(t, u) => Ahead(s \o t, u)
           /\ Ahead(u, s) /\ Ahead(u, t) => Ahead(u, s \o t)
           /\ \A st : SettledOn(st, s) /\ SettledOn(st, t) => SettledOn(st, s \o t)
<1>1. \A i \in DOMAIN (s \o t) : \/ \E k \in DOMAIN s : (s \o t)[i] = s[k]
                                 \/ \E k \in DOMAIN t : (s \o t)[i] = t[k]
    <2> DEFINE m == Len(s)
    <2>1. /\ m \in Nat /\ Len(t) \in Nat /\ DOMAIN s = 1 .. m /\ DOMAIN t = 1 .. Len(t)
          /\ DOMAIN (s \o t) = 1 .. m + Len(t)
          /\ \A i \in 1 .. m + Len(t) : (s \o t)[i] = IF i <= m THEN s[i] ELSE t[i - m]
        BY ConcatProperties
    <2>2. \A i \in 1 .. m + Len(t) : i <= m => i \in 1 .. m
        BY <2>1
    <2>3. \A i \in 1 .. m + Len(t) : ~(i <= m) => i - m \in 1 .. Len(t)
        BY <2>1
    <2> QED BY <2>1, <2>2, <2>3
<1> DEFINE c == s \o t
<1>2. \A i \in DOMAIN c : (\E k \in DOMAIN s : c[i] = s[k]) \/ (\E k \in DOMAIN t : c[i] = t[k])
    BY <1>1
<1> HIDE DEF c
<1>3. Ahead(s, u) /\ Ahead(t, u) => Ahead(c, u)
    BY <1>2 DEF Ahead
<1>4. Ahead(u, s) /\ Ahead(u, t) => Ahead(u, c)
    BY <1>2 DEF Ahead
<1>5. \A st : SettledOn(st, s) /\ SettledOn(st, t) => SettledOn(st, c)
    BY <1>2 DEF SettledOn
<1> QED BY <1>3, <1>4, <1>5 DEF c

(* Taking a job off a line leaves a line. *)
LEMMA LineTail ==
    ASSUME NEW s \in Seq(Job), s # <<>>, NEW u
    PROVE  /\ InOrder(s) => InOrder(Tail(s))
           /\ Ahead(s, u) => Ahead(Tail(s), u)
           /\ Ahead(u, s) => Ahead(u, Tail(s))
           /\ \A st : SettledOn(st, s) => SettledOn(st, Tail(s))
<1>1. /\ Len(s) \in Nat /\ Len(s) >= 1
      /\ DOMAIN s = 1 .. Len(s) /\ DOMAIN Tail(s) = 1 .. Len(s) - 1
      /\ \A i \in 1 .. Len(s) - 1 : Tail(s)[i] = s[i + 1]
    BY HeadTailProperties
<1>2. \A i \in DOMAIN Tail(s) : i + 1 \in DOMAIN s /\ Tail(s)[i] = s[i + 1]
    BY <1>1
<1>3. \A i, j \in DOMAIN Tail(s) : i < j => i + 1 < j + 1
    BY <1>1
<1> DEFINE t == Tail(s)
<1>4. \A i \in DOMAIN t : \E k \in DOMAIN s : t[i] = s[k]
    BY <1>2
<1>5. InOrder(s) => InOrder(t)
    BY <1>2, <1>3 DEF InOrder
<1> HIDE DEF t
<1>6. Ahead(s, u) => Ahead(t, u)
    BY <1>4 DEF Ahead
<1>7. Ahead(u, s) => Ahead(u, t)
    BY <1>4 DEF Ahead
<1>8. \A st : SettledOn(st, s) => SettledOn(st, t)
    BY <1>4 DEF SettledOn
<1> QED BY <1>5, <1>6, <1>7, <1>8 DEF t

(* The empty line, and the line of one job. *)
LEMMA LineOne ==
    ASSUME NEW j \in Job, NEW u
    PROVE  /\ <<>> \in Seq(Job) /\ <<j>> \in Seq(Job)
           /\ InOrder(<<>>) /\ Ahead(u, <<>>) /\ Ahead(<<>>, u)
           /\ \A st : SettledOn(st, <<>>)
           /\ InOrder(<<j>>)
           /\ ~Handler(j.r) => /\ Ahead(u, <<j>>) /\ Ahead(<<j>>, u)
                               /\ \A st : SettledOn(st, <<j>>)
<1>1. DOMAIN <<j>> = {1} /\ <<j>>[1] = j
    OBVIOUS
<1>2. \A x, y \in {1} : ~(x < y)
    OBVIOUS
<1>3. /\ InOrder(<<>>) /\ Ahead(u, <<>>) /\ Ahead(<<>>, u)
      /\ \A st : SettledOn(st, <<>>)
    BY DEF InOrder, Ahead, SettledOn
<1>4. InOrder(<<j>>)
    BY <1>1, <1>2 DEF InOrder
<1>5. ~Handler(j.r) => /\ Ahead(u, <<j>>) /\ Ahead(<<j>>, u)
                       /\ \A st : SettledOn(st, <<j>>)
    BY <1>1 DEF Ahead, SettledOn
<1> QED BY <1>3, <1>4, <1>5

(* A job that is no handler may join the queue. *)
LEMMA LineAppend ==
    ASSUME NEW Q \in Seq(Job), NEW F \in Seq(Job), NEW j \in Job, ~Handler(j.r),
           NEW st, InLine(st, Q, F)
    PROVE  InLine(st, Append(Q, j), F)
<1>1. Append(Q, j) = Q \o <<j>>
    BY AppendIsConcat
<1>2. InOrder(Q \o <<j>>)
    BY LineOne, OrderConcat DEF InLine
<1>3. Ahead(Q \o <<j>>, F) /\ SettledOn(st, Q \o <<j>>)
    <2>1. Ahead(<<j>>, F) /\ SettledOn(st, <<j>>) /\ <<j>> \in Seq(Job)
        BY LineOne
    <2> QED BY <2>1, AheadConcat DEF InLine
<1> QED BY <1>1, <1>2, <1>3 DEF InLine

(* Handlers on settled promises stay so while no promise becomes pending. *)
LEMMA LineKeeps ==
    ASSUME NEW st, NEW st2, NEW Q, NEW F, InLine(st, Q, F),
           \A q \in Promise : st[q].st # "pending" => st2[q].st # "pending"
    PROVE  InLine(st2, Q, F)
<1>1. \A s : SettledOn(st, s) => SettledOn(st2, s)
    BY DEF SettledOn
<1> QED BY <1>1 DEF InLine

(* The jobs of a settling promise are the first of its handlers. *)
LEMMA TriggeredLine ==
    ASSUME NEW p \in Promise, NEW rs \in Seq(Reaction), HangsOn(p, rs), NEW s \in State,
           NEW st, st[p].st = "pending", NEW u, SettledOn(st, u)
    PROVE  /\ Triggered(rs, s) \in Seq(Job) /\ InOrder(Triggered(rs, s))
           /\ Ahead(Triggered(rs, s), u) /\ Ahead(u, Triggered(rs, s))
           /\ \A st2 : st2[p].st # "pending" => SettledOn(st2, Triggered(rs, s))
<1> DEFINE T == Triggered(rs, s)
<1>1. /\ DOMAIN T = DOMAIN rs
      /\ \A i \in DOMAIN rs : T[i] = JobOf(rs[i], s) /\ T[i].r = rs[i]
    BY DEF Triggered, JobOf
<1>2. T \in Seq(Job)
    <2>1. \A i \in 1 .. Len(rs) : JobOf(rs[i], s) \in Job
        BY DEF JobOf, Job
    <2>2. T = [i \in 1 .. Len(rs) |-> JobOf(rs[i], s)]
        BY DEF Triggered
    <2> QED BY <2>1, <2>2, SeqDef
<1> HIDE DEF T
<1>3. InOrder(T)
    BY <1>1 DEF InOrder, HangsOn, Handler
<1>4. \A i \in DOMAIN T : Handler(T[i].r) => T[i].r.on = p
    BY <1>1 DEF HangsOn
<1>5. Ahead(T, u) /\ Ahead(u, T)
    BY <1>4 DEF Ahead, SettledOn
<1>6. \A st2 : st2[p].st # "pending" => SettledOn(st2, T)
    BY <1>4 DEF SettledOn
<1> QED BY <1>2, <1>3, <1>5, <1>6 DEF T

(* fulfill_promise and reject_promise keep the handlers in line. *)
LEMMA SettleLine ==
    ASSUME NEW n, Store(n), Hanging, NEW p \in Promise, NEW s, Final(s),
           NEW rest \in Seq(Job), NEW q \in Seq(Job), InLine(state, q, rest),
           Settle(p, s, rest), queue' = q
    PROVE  OrdInv'
<1>0. /\ reactions \in [Promise -> Seq(Reaction)] /\ state \in [Promise -> CleanState]
      /\ s \in State /\ s.st # "pending"
    BY StoreTypes DEF Store, Final, CleanState
<1>1. CASE ~IsPending(p)
    <2>1. firing' = rest /\ UNCHANGED <<state, reactions>>
        BY <1>1 DEF Settle
    <2> QED BY <2>1 DEF OrdInv, Hanging
<1>2. CASE IsPending(p)
    <2> DEFINE T == Triggered(reactions[p], s)
    <2>1. /\ state' = [state EXCEPT ![p] = s]
          /\ reactions' = [reactions EXCEPT ![p] = <<>>]
          /\ firing' = T \o rest
        BY <1>2 DEF Settle, Triggered
    <2>2. state[p].st = "pending" /\ state'[p].st # "pending" /\ HangsOn(p, reactions[p])
        BY <2>1, <1>0, <1>2 DEF IsPending, Hanging
    <2>3. /\ T \in Seq(Job) /\ InOrder(T) /\ Ahead(T, rest) /\ Ahead(q, T)
          /\ SettledOn(state', T)
        <3>1. SettledOn(state, q) /\ SettledOn(state, rest) /\ reactions[p] \in Seq(Reaction)
            BY <1>0 DEF InLine
        <3> QED BY <3>1, <2>2, <1>0, TriggeredLine
    <2>4. InLine(state', q, rest)
        <3>1. \A x \in Promise : state[x].st # "pending" => state'[x].st # "pending"
            BY <2>1, <1>0
        <3> QED BY <3>1, LineKeeps
    <2> HIDE DEF T
    <2>5. InOrder(T \o rest) /\ Ahead(q, T \o rest) /\ SettledOn(state', T \o rest)
        BY <2>3, <2>4, OrderConcat, AheadConcat DEF InLine
    <2>6. InLine(state', queue', firing')
        BY <2>1, <2>4, <2>5 DEF InLine
    <2>7. Hanging'
        <3>1. \A x \in Promise : reactions'[x] = <<>> \/ reactions'[x] = reactions[x]
            BY <2>1, <1>0
        <3>2. \A x \in Promise : HangsOn(x, <<>>)
            BY DEF HangsOn
        <3> QED BY <3>1, <3>2 DEF Hanging
    <2> QED BY <2>6, <2>7 DEF OrdInv
<1> QED BY <1>1, <1>2

(* A reaction that is no handler, or a handler later than all others, may follow. *)
LEMMA HangsAppend ==
    ASSUME NEW x, NEW rs \in Seq(Reaction), HangsOn(x, rs), NEW r \in Reaction,
           Handler(r) => r.on = x /\ \A i \in DOMAIN rs : rs[i].promise < r.promise
    PROVE  HangsOn(x, Append(rs, r))
<1> DEFINE m == Len(rs)
<1>3. /\ m \in Nat /\ DOMAIN rs = 1 .. m /\ DOMAIN Append(rs, r) = 1 .. m + 1
      /\ \A i \in 1 .. m : Append(rs, r)[i] = rs[i]
      /\ Append(rs, r)[m + 1] = r
    OBVIOUS
<1> HIDE DEF m
<1>5. \A i \in DOMAIN Append(rs, r) : Handler(Append(rs, r)[i]) => Append(rs, r)[i].on = x
    <2> SUFFICES ASSUME NEW i \in 1 .. m + 1, Handler(Append(rs, r)[i])
                 PROVE  Append(rs, r)[i].on = x
        BY <1>3
    <2>1. i \in 1 .. m \/ i = m + 1
        BY <1>3
    <2> QED BY <2>1, <1>3 DEF HangsOn
<1>6. ASSUME NEW i \in DOMAIN Append(rs, r), NEW j \in DOMAIN Append(rs, r), i < j,
             Handler(Append(rs, r)[i]), Handler(Append(rs, r)[j])
      PROVE  Append(rs, r)[i].promise < Append(rs, r)[j].promise
    <2>1. i \in 1 .. m /\ (j \in 1 .. m \/ j = m + 1)
        BY <1>3, <1>6
    <2> QED BY <2>1, <1>3, <1>6 DEF HangsOn
<1> QED BY <1>5, <1>6 DEF HangsOn

(* Pushing such a reaction on a promise. *)
LEMMA PushLine ==
    ASSUME NEW n, Store(n), Hanging, NEW x \in Promise, NEW r \in Reaction,
           reactions' = [reactions EXCEPT ![x] = Append(@, r)],
           Handler(r) => r.on = x /\ \A i \in DOMAIN reactions[x] : reactions[x][i].promise < r.promise
    PROVE  Hanging'
<1>0. reactions \in [Promise -> Seq(Reaction)]
    BY StoreTypes
<1>1. \A y \in Promise : reactions'[y] = IF y = x THEN Append(reactions[x], r) ELSE reactions[y]
    BY <1>0
<1>2. reactions[x] \in Seq(Reaction) /\ HangsOn(x, reactions[x])
    BY <1>0 DEF Hanging
<1>3. HangsOn(x, Append(reactions[x], r))
    BY <1>2, HangsAppend
<1> QED BY <1>1, <1>3 DEF Hanging

(* One reaction that is no handler. *)
LEMMA HangsOne ==
    ASSUME NEW x, NEW r, ~Handler(r)
    PROVE  HangsOn(x, <<r>>)
<1>1. DOMAIN <<r>> = {1} /\ <<r>>[1] = r
    OBVIOUS
<1> QED BY <1>1 DEF HangsOn

(* resolve_value keeps the handlers in line. *)
LEMMA ResolveLine ==
    ASSUME NEW n, Store(n), Hanging, NEW p \in Promise, NEW x \in Value,
           NEW rest \in Seq(Job), NEW q \in Seq(Job), InLine(state, q, rest),
           ResolveValue(p, x, rest, q)
    PROVE  OrdInv'
<1>1. CASE Settle(p, Rejected(TypeErr), rest) /\ queue' = q
    <2>1. Final(Rejected(TypeErr))
        BY DEF Final, Rejected, CleanState, State, Value
    <2> QED BY <1>1, <2>1, SettleLine
<1>2. CASE /\ x \in Promise
           /\ reactions' = [reactions EXCEPT ![x] = Append(@, Bare("forward", p, x))]
           /\ firing' = rest /\ queue' = q /\ UNCHANGED state
    <2>1. Bare("forward", p, x) \in Reaction /\ ~Handler(Bare("forward", p, x))
        BY <1>2, BoundsAssumption, PendingClean DEF Bare, Reaction, ReactionKind, Promise, Handler,
           HandlerKinds, CleanState
    <2>2. Hanging'
        BY <1>2, <2>1, PushLine
    <2> QED BY <1>2, <2>2 DEF OrdInv
<1>3. CASE x \in Promise /\ ~IsPending(x) /\ Settle(p, state[x], rest) /\ queue' = q
    <2>1. Final(state[x])
        BY <1>3 DEF Store, Final, IsPending
    <2> QED BY <1>3, <2>1, SettleLine
<1>4. CASE /\ queue' = Append(q, ThenableJob(p)) /\ firing' = rest
           /\ UNCHANGED <<state, reactions>>
    <2>1. ThenableJob(p) \in Job /\ ~Handler(ThenableJob(p).r)
        BY BoundsAssumption, PendingClean DEF ThenableJob, JobOf, Job, Bare, Reaction, ReactionKind,
           Promise, Handler, HandlerKinds, CleanState
    <2>2. InLine(state, queue', firing')
        BY <1>4, <2>1, LineAppend
    <2> QED BY <1>4, <2>2 DEF OrdInv, Hanging
<1>5. CASE Settle(p, Rejected(Plain), rest) /\ queue' = q
    <2>1. Final(Rejected(Plain))
        BY DEF Final, Rejected, CleanState, State, Value
    <2> QED BY <1>5, <2>1, SettleLine
<1>6. CASE x \in {Plain, TypeErr} /\ Settle(p, Fulfilled(x), rest) /\ queue' = q
    <2>1. Final(Fulfilled(x))
        BY <1>6 DEF Final, Fulfilled, CleanState, State, Value
    <2> QED BY <1>6, <2>1, SettleLine
<1> QED BY <1>1, <1>2, <1>3, <1>4, <1>5, <1>6 DEF ResolveValue

(* reject_promise keeps the handlers in line. *)
LEMMA RejectLine ==
    ASSUME NEW n, Store(n), Hanging, NEW p \in Promise, NEW e \in Value,
           NEW q \in Seq(Job), InLine(state, q, <<>>), Reject(p, e, q)
    PROVE  OrdInv'
<1>1. Final(Rejected(e)) /\ <<>> \in Seq(Job)
    BY DEF Final, Rejected, CleanState, State
<1> QED BY <1>1, SettleLine DEF Reject

(* The job that fires joins the end of the queue. *)
LEMMA LineMove ==
    ASSUME NEW Q \in Seq(Job), NEW F \in Seq(Job), F # <<>>, NEW st, InLine(st, Q, F)
    PROVE  InLine(st, Append(Q, Head(F)), Tail(F))
<1> DEFINE j == Head(F)
           T == Tail(F)
<1>1. /\ Len(F) \in Nat /\ DOMAIN F = 1 .. Len(F) /\ 1 \in DOMAIN F
      /\ j \in Job /\ T \in Seq(Job) /\ j = F[1]
      /\ DOMAIN T = 1 .. Len(F) - 1 /\ \A i \in 1 .. Len(F) - 1 : T[i] = F[i + 1]
    BY HeadTailProperties
<1>2. \A i \in DOMAIN T : i + 1 \in DOMAIN F /\ 1 < i + 1 /\ T[i] = F[i + 1]
    BY <1>1
<1>3. InOrder(T) /\ Ahead(Q, T) /\ SettledOn(st, T)
    BY LineTail DEF InLine
<1> HIDE DEF j, T
<1>4. DOMAIN <<j>> = {1} /\ <<j>>[1] = j /\ <<j>> \in Seq(Job) /\ InOrder(<<j>>)
    <2>1. j \in Job
        BY <1>1
    <2>2. <<j>> \in Seq(Job) /\ InOrder(<<j>>)
        BY <2>1, LineOne
    <2>3. DOMAIN <<j>> = {1} /\ <<j>>[1] = j
        OBVIOUS
    <2> QED BY <2>2, <2>3
<1>5. Ahead(Q, <<j>>) /\ SettledOn(st, <<j>>)
    BY <1>1, <1>4 DEF InLine, Ahead, SettledOn
<1>6. Ahead(<<j>>, T)
    <2>1. InOrder(F)
        BY DEF InLine
    <2>2. \A k \in DOMAIN T : Handler(F[1].r) /\ Handler(F[k + 1].r) /\ F[1].r.on = F[k + 1].r.on
                                 => F[1].r.promise < F[k + 1].r.promise
        BY <2>1, <1>1, <1>2 DEF InOrder, Handler
    <2>3. \A k \in DOMAIN T : T[k] = F[k + 1]
        BY <1>2
    <2>4. \A k \in DOMAIN T : Handler(j.r) /\ Handler(T[k].r) /\ j.r.on = T[k].r.on
                                 => j.r.promise < T[k].r.promise
        BY <2>2, <2>3, <1>1
    <2> QED BY <2>4, <1>4 DEF Ahead
<1>7. InOrder(Q \o <<j>>)
    BY <1>4, <1>5, OrderConcat DEF InLine
<1>8. Ahead(Q \o <<j>>, T) /\ SettledOn(st, Q \o <<j>>)
    BY <1>3, <1>4, <1>5, <1>6, AheadConcat DEF InLine
<1>9. Append(Q, j) = Q \o <<j>>
    BY <1>1, AppendIsConcat
<1>10. InLine(st, Append(Q, j), T)
    BY <1>3, <1>7, <1>8, <1>9 DEF InLine
<1> QED BY <1>10 DEF j, T

(* A step that leaves the promises, the queue and the cascade alone. *)
LEMMA SameLine == OrdInv /\ UNCHANGED <<state, reactions, queue, firing>> => OrdInv'
BY DEF OrdInv, Hanging

(* The types of the store, of the jobs and of what they carry. *)
LEMMA LineTypes ==
    ASSUME IInv
    PROVE  /\ alloc \in 0 .. MaxPromises /\ Store(alloc)
           /\ state \in [Promise -> CleanState] /\ reactions \in [Promise -> Seq(Reaction)]
           /\ queue \in Seq(Job) /\ firing \in Seq(Job)
           /\ \A s \in CleanState : s.val \in Value
BY OwnedTypes DEF Store, CleanState, State

(* One step of a cascade keeps the handlers in line. *)
LEMMA FireLine == IInv /\ OrdInv /\ FireReaction => OrdInv'
<1> SUFFICES ASSUME IInv, OrdInv, FireReaction PROVE OrdInv'
    OBVIOUS
<1> DEFINE job == Head(firing)
           rest == Tail(firing)
<1>1. /\ firing # <<>> /\ queue \in Seq(Job) /\ firing \in Seq(Job) /\ Store(alloc)
      /\ firing \in Seq(LiveJob(alloc)) /\ alloc \in 0 .. MaxPromises
      /\ InLine(state, queue, firing) /\ Hanging
    BY LineTypes DEF FireReaction, OrdInv, Store
<1>2. job \in LiveJob(alloc) /\ rest \in Seq(Job)
    BY <1>1, HeadTail
<1>3. InLine(state, queue, rest)
    BY <1>1, LineTail DEF InLine
<1>4. job.s \in CleanState /\ job.s.val \in Value
    BY <1>2, LineTypes DEF LiveJob
<1>5. job.r.kind = "forward" => job.r.promise \in Promise
    BY <1>1, <1>2, BoundsAssumption DEF LiveJob, LiveReaction, Reaction, Promise
<1>6. CASE job.r.kind = "forward" /\ ResolveValue(job.r.promise, job.s.val, rest, queue)
    <2> HIDE DEF job, rest
    <2> QED BY <1>1, <1>2, <1>3, <1>4, <1>5, <1>6, ResolveLine
<1>7. CASE /\ job.r.kind = "forward" /\ job.s.st = "rejected"
           /\ Settle(job.r.promise, job.s, rest) /\ queue' = queue
    <2>1. Final(job.s)
        BY <1>4, <1>7 DEF Final
    <2> HIDE DEF job, rest
    <2> QED BY <2>1, <1>1, <1>2, <1>3, <1>5, <1>7, SettleLine
<1>8. CASE queue' = Append(queue, job) /\ firing' = rest /\ UNCHANGED <<state, reactions>>
    <2>1. InLine(state, Append(queue, job), rest)
        BY <1>1, LineMove
    <2> QED BY <2>1, <1>1, <1>8 DEF OrdInv, Hanging
<1> QED BY <1>6, <1>7, <1>8 DEF FireReaction

(* Running a job takes the first handler off the line. *)
LEMMA RunJobLine == IInv /\ OrdInv /\ RunJob => OrdInv'
<1> SUFFICES ASSUME IInv, OrdInv, RunJob PROVE OrdInv'
    OBVIOUS
<1> DEFINE rest == Tail(queue)
<1>1. /\ queue # <<>> /\ firing = <<>> /\ queue \in Seq(Job) /\ Store(alloc)
      /\ queue \in Seq(LiveJob(alloc)) /\ alloc \in 0 .. MaxPromises
      /\ InLine(state, queue, firing) /\ Hanging
    <2>1. queue # <<>> /\ firing = <<>>
        BY DEF RunJob, RunHandler, RunPassThrough, RunFinally, RunFinallyPropagate,
               RunAsyncResume, RunThenable, RunMicrotask, NextJob, Draining, Quiet
    <2> QED BY <2>1, LineTypes DEF OrdInv, Store
<1>2. Head(queue) \in LiveJob(alloc) /\ rest \in Seq(Job)
    BY <1>1, HeadTail
<1>3. InLine(state, rest, <<>>) /\ <<>> \in Seq(Job)
    BY <1>1, LineTail DEF InLine
<1>4. /\ JobSettlement \in CleanState /\ Head(queue).r.orig \in CleanState
      /\ JobSettlement.val \in Value /\ Head(queue).r.orig.val \in Value
    <2>1. JobSettlement \in CleanState /\ Head(queue).r.orig \in CleanState
        BY <1>2 DEF JobSettlement, LiveJob, LiveReaction
    <2> QED BY <2>1, LineTypes
<1>5. Head(queue).r.kind # "microtask" => JobPromise \in Promise
    BY <1>1, <1>2, BoundsAssumption DEF JobPromise, LiveJob, LiveReaction, Reaction, Promise
<1> HIDE DEF rest
<1>6. ASSUME NEW v \in Value, Head(queue).r.kind # "microtask",
             ResolveValue(JobPromise, v, <<>>, rest) \/ Reject(JobPromise, v, rest)
      PROVE  OrdInv'
    BY <1>1, <1>2, <1>3, <1>5, <1>6, ResolveLine, RejectLine
<1>7. ASSUME queue' = rest, UNCHANGED <<state, reactions, firing>>
      PROVE  OrdInv'
    BY <1>1, <1>3, <1>7 DEF OrdInv, Hanging
<1>8. CASE RunPassThrough
    BY <1>8, <1>4, <1>6 DEF RunPassThrough, NextJob, rest
<1>9. CASE RunFinallyPropagate
    BY <1>9, <1>4, <1>6 DEF RunFinallyPropagate, NextJob, rest
<1>10. CASE RunHandler \/ RunFinally \/ RunAsyncResume \/ RunThenable \/ RunMicrotask
    BY <1>10, <1>7 DEF RunHandler, RunFinally, RunAsyncResume, RunThenable, RunMicrotask,
       CallUser, rest
<1> QED BY <1>8, <1>9, <1>10 DEF RunJob

(* A drain that gives up takes the first job off the line, too. *)
LEMMA HitLimitLine == IInv /\ OrdInv /\ HitJobLimit => OrdInv'
<1> SUFFICES ASSUME IInv, OrdInv, HitJobLimit PROVE OrdInv'
    OBVIOUS
<1>1. /\ queue # <<>> /\ queue' = Tail(queue) /\ UNCHANGED <<state, reactions, firing>>
      /\ firing = <<>>
    BY DEF HitJobLimit, Draining, Quiet
<1>2. queue \in Seq(Job) /\ InLine(state, queue, firing) /\ Hanging
    BY LineTypes DEF OrdInv
<1>3. InLine(state, Tail(queue), <<>>)
    BY <1>1, <1>2, LineTail DEF InLine
<1> QED BY <1>1, <1>2, <1>3 DEF OrdInv, Hanging

(* Programs, calls and completions that settle and attach nothing. *)
LEMMA PlainLine ==
    ASSUME OrdInv,
           \/ StartEval \/ FinishEval \/ EndDrain \/ TakeUnhandled \/ NewPromise
           \/ WithResolvers \/ CallAsync \/ ReturnIgnored \/ ThrowMicrotask \/ UNCHANGED vars
    PROVE  OrdInv'
<1>1. UNCHANGED <<state, reactions, queue, firing>>
    BY DEF StartEval, FinishEval, EndDrain, TakeUnhandled, NewPromise, WithResolvers, CallAsync,
       ReturnIgnored, ThrowMicrotask, core, vars
<1> QED BY <1>1, SameLine

(* A reaction without handlers is one. *)
LEMMA BareType ==
    ASSUME NEW k \in ReactionKind, NEW p \in 0 .. MaxPromises, NEW q \in 0 .. MaxPromises
    PROVE  Bare(k, p, q) \in Reaction
BY PendingClean DEF Bare, Reaction, CleanState

(* queueMicrotask *)
LEMMA MicrotaskLine == IInv /\ OrdInv /\ QueueMicrotask => OrdInv'
<1> SUFFICES ASSUME IInv, OrdInv, QueueMicrotask PROVE OrdInv'
    OBVIOUS
<1>1. MicrotaskJob \in Job /\ ~Handler(MicrotaskJob.r)
    <2>1. 0 \in 0 .. MaxPromises
        BY BoundsAssumption
    <2>2. Bare("microtask", 0, 0) \in Reaction /\ Bare("microtask", 0, 0).kind = "microtask"
        BY <2>1, BareType DEF ReactionKind, Bare
    <2> QED BY <2>2, PendingClean DEF MicrotaskJob, JobOf, Job, CleanState, Handler, HandlerKinds
<1>2. InLine(state, Append(queue, MicrotaskJob), firing)
    BY <1>1, LineTypes, LineAppend DEF OrdInv
<1> QED BY <1>2 DEF QueueMicrotask, OrdInv, Hanging

(* What user code resolves or rejects from outside a cascade. *)
LEMMA UserSettleLine ==
    ASSUME IInv, OrdInv, firing = <<>>, NEW p \in Promise, NEW v \in Value,
           ResolveValue(p, v, <<>>, queue) \/ Reject(p, v, queue)
    PROVE  OrdInv'
<1>1. /\ Store(alloc) /\ Hanging /\ InLine(state, queue, <<>>)
      /\ queue \in Seq(Job) /\ <<>> \in Seq(Job)
    BY LineTypes DEF OrdInv
<1> QED BY <1>1, ResolveLine, RejectLine

(* The resolvers of a pair, and Promise.resolve and Promise.reject. *)
LEMMA ResolverLine ==
    ASSUME IInv, OrdInv,
           \/ \E i \in DOMAIN pairs : \/ \E v \in Value : CallResolve(i, v)
                                      \/ \E e \in Reasons : CallReject(i, e)
           \/ \E v \in Inputs : StaticResolve(v)
           \/ \E e \in Reasons : StaticReject(e)
    PROVE  OrdInv'
<1>0. firing = <<>> /\ Inputs \cup Reasons \subseteq Value
    BY ValuesAssumption DEF CallResolve, CallReject, StaticResolve, StaticReject, Calls, UserTurn,
       Quiet, Value
<1>1. ASSUME NEW i \in DOMAIN pairs PROVE pairs[i].cap \in Promise
    <2>1. pairs \in Seq([cap : Promise, used : BOOLEAN])
        BY OwnedTypes
    <2>2. pairs[i] \in [cap : Promise, used : BOOLEAN]
        BY <2>1, Member
    <2> QED BY <2>2
<1>2. Allocate => Fresh \in Promise
    BY LineTypes, BoundsAssumption DEF Allocate, Fresh, Promise
<1>3. ASSUME NEW i \in DOMAIN pairs, NEW v \in Value, CallResolve(i, v) PROVE OrdInv'
    BY <1>0, <1>1, <1>3, UserSettleLine DEF CallResolve
<1>4. ASSUME NEW i \in DOMAIN pairs, NEW e \in Reasons, CallReject(i, e) PROVE OrdInv'
    BY <1>0, <1>1, <1>4, UserSettleLine DEF CallReject
<1>5. ASSUME NEW v \in Inputs, StaticResolve(v) PROVE OrdInv'
    BY <1>0, <1>2, <1>5, UserSettleLine DEF StaticResolve
<1>6. ASSUME NEW e \in Reasons, StaticReject(e) PROVE OrdInv'
    BY <1>0, <1>2, <1>6, UserSettleLine DEF StaticReject
<1> QED BY <1>3, <1>4, <1>5, <1>6

(* Completions that settle a promise. *)
LEMMA ReturnLine ==
    ASSUME IInv, OrdInv, (\E v \in Value : ReturnValue(v)) \/ (\E e \in Reasons : ThrowRejects(e))
    PROVE  OrdInv'
<1>0. /\ firing = <<>> /\ UserTurn /\ Inputs \cup Reasons \subseteq Value
      /\ Top.k \notin {"eval", "drain", "microtask"}
    BY ValuesAssumption DEF ReturnValue, ThrowRejects, UserTurn, Quiet, Value
<1>1. Top.cap \in Promise
    BY <1>0, TopFacts
<1>2. ASSUME NEW v \in Value, ReturnValue(v) PROVE OrdInv'
    BY <1>0, <1>1, <1>2, UserSettleLine DEF ReturnValue
<1>3. ASSUME NEW e \in Reasons, ThrowRejects(e) PROVE OrdInv'
    BY <1>0, <1>1, <1>3, UserSettleLine DEF ThrowRejects
<1> QED BY <1>2, <1>3

(* The promises that jobs and reactions settle are allocated. *)
LEMMA LineBound ==
    ASSUME IInv
    PROVE  /\ \A i \in DOMAIN queue : queue[i].r.promise <= alloc
           /\ \A q \in Promise : \A i \in DOMAIN reactions[q] : reactions[q][i].promise <= alloc
<1>1. /\ queue \in Seq(LiveJob(alloc))
      /\ reactions \in [Promise -> Seq(LiveReaction(alloc))]
    BY DEF IInv, Store
<1>2. \A i \in DOMAIN queue : queue[i] \in LiveJob(alloc)
    BY <1>1
<1>3. \A q \in Promise : \A i \in DOMAIN reactions[q] : reactions[q][i] \in LiveReaction(alloc)
    BY <1>1
<1> QED BY <1>2, <1>3 DEF LiveJob, LiveReaction

(* attach_reaction of a handler later than all others keeps the line. *)
LEMMA AttachLine ==
    ASSUME IInv, OrdInv, firing = <<>>, NEW p \in Promise, NEW r \in Reaction,
           r.on = p, r.promise > alloc, AttachReaction(p, r)
    PROVE  OrdInv'
<1>0. /\ Store(alloc) /\ Hanging /\ InLine(state, queue, <<>>) /\ alloc \in Nat
      /\ queue \in Seq(Job) /\ state \in [Promise -> CleanState]
      /\ reactions \in [Promise -> Seq(Reaction)]
    BY LineTypes, BoundsAssumption DEF OrdInv
<1>1. CASE /\ IsPending(p) /\ reactions' = [reactions EXCEPT ![p] = Append(@, r)]
           /\ UNCHANGED <<queue, state, firing>>
    <2>1. \A i \in DOMAIN reactions[p] : reactions[p][i].promise < r.promise
        <3> SUFFICES ASSUME NEW i \in DOMAIN reactions[p]
                     PROVE  reactions[p][i].promise < r.promise
            OBVIOUS
        <3>1. reactions[p][i] \in Reaction
            BY <1>0
        <3>2. reactions[p][i].promise \in Nat /\ r.promise \in Nat
            BY <3>1, BoundsAssumption DEF Reaction
        <3> QED BY <3>2, <1>0, LineBound
    <2>2. Hanging'
        BY <1>0, <1>1, <2>1, PushLine
    <2> QED BY <2>2, <1>1 DEF OrdInv
<1>2. CASE /\ ~IsPending(p) /\ queue' = Append(queue, JobOf(r, state[p]))
           /\ UNCHANGED <<reactions, state, firing>>
    <2> DEFINE j == JobOf(r, state[p])
    <2>1. j \in Job /\ j.r = r
        BY <1>0 DEF JobOf, Job, CleanState
    <2> HIDE DEF j
    <2>2. DOMAIN <<j>> = {1} /\ <<j>>[1] = j
        OBVIOUS
    <2>3. \A i \in DOMAIN queue : queue[i].r.promise < j.r.promise
        <3> SUFFICES ASSUME NEW i \in DOMAIN queue PROVE queue[i].r.promise < j.r.promise
            OBVIOUS
        <3>1. queue[i] \in Job
            BY <1>0
        <3>2. queue[i].r.promise \in Nat /\ r.promise \in Nat
            BY <3>1, BoundsAssumption DEF Job, Reaction
        <3> QED BY <3>2, <2>1, <1>0, LineBound
    <2>4. Ahead(queue, <<j>>)
        BY <2>2, <2>3 DEF Ahead
    <2>5. SettledOn(state, <<j>>)
        BY <1>2, <2>1, <2>2 DEF SettledOn, IsPending
    <2>6. InOrder(<<j>>) /\ <<j>> \in Seq(Job)
        BY <2>1, LineOne
    <2>7. InOrder(queue \o <<j>>)
        BY <1>0, <2>4, <2>6, OrderConcat DEF InLine
    <2>8. SettledOn(state, queue \o <<j>>)
        BY <1>0, <2>5, <2>6, AheadConcat DEF InLine
    <2>9. Append(queue, j) = queue \o <<j>>
        BY <1>0, <2>1, AppendIsConcat
    <2>10. Ahead(Append(queue, j), <<>>)
        BY DEF Ahead
    <2>11. InLine(state, Append(queue, j), <<>>)
        BY <1>0, <2>7, <2>8, <2>9, <2>10 DEF InLine
    <2> QED BY <2>11, <1>0, <1>2 DEF OrdInv, Hanging, j
<1> QED BY <1>1, <1>2 DEF AttachReaction

(* then, catch and finally *)
LEMMA ThenLine ==
    ASSUME IInv, OrdInv, NEW p \in Promise,
           (\E f, r \in BOOLEAN : Then(p, f, r)) \/ Finally(p)
    PROVE  OrdInv'
<1>0. firing = <<>> /\ Allocate
    BY DEF Then, Finally, Calls, UserTurn, Quiet
<1>1. Fresh \in 0 .. MaxPromises /\ Fresh > alloc /\ p \in 0 .. MaxPromises
    BY <1>0, LineTypes, BoundsAssumption DEF Allocate, Fresh, Promise
<1>2. ASSUME NEW f \in BOOLEAN, NEW r \in BOOLEAN, Then(p, f, r) PROVE OrdInv'
    <2> DEFINE h == [Bare("then", Fresh, p) EXCEPT !.onF = f, !.onR = r]
    <2>1. h \in Reaction /\ h.on = p /\ h.promise = Fresh
        BY <1>1, PendingClean DEF Bare, Reaction, ReactionKind, CleanState
    <2>2. AttachReaction(p, h)
        BY <1>2 DEF Then
    <2> HIDE DEF h
    <2> QED BY <1>0, <1>1, <2>1, <2>2, AttachLine
<1>3. CASE Finally(p)
    <2>1. /\ Bare("finallyCall", Fresh, p) \in Reaction
          /\ Bare("finallyCall", Fresh, p).on = p
          /\ Bare("finallyCall", Fresh, p).promise = Fresh
        BY <1>1, PendingClean DEF Bare, Reaction, ReactionKind, CleanState
    <2> QED BY <1>0, <1>1, <1>3, <2>1, AttachLine DEF Finally
<1> QED BY <1>2, <1>3

(* await of a promise *)
LEMMA AwaitLine ==
    ASSUME IInv, OrdInv, NEW p \in Promise, AwaitPromise(p)
    PROVE  OrdInv'
<1>0. /\ UserTurn /\ frames # <<>> /\ Top.k \in {"async", "resume"} /\ UNCHANGED <<state, firing>>
    BY DEF AwaitPromise, InAsync, UserTurn, Quiet
<1>1. Top.cap \in Promise /\ p \in 0 .. MaxPromises
    BY <1>0, TopFacts, BoundsAssumption DEF Promise
<1>2. PICK r \in Reaction : r = Bare("async", Top.cap, p) /\ ~Handler(r)
    <2>1. Bare("async", Top.cap, p) \in Reaction
        BY <1>1, PendingClean, BoundsAssumption DEF Bare, Reaction, ReactionKind, CleanState, Promise
    <2> QED BY <2>1 DEF Handler, HandlerKinds, Bare
<1>3. /\ Store(alloc) /\ Hanging /\ InLine(state, queue, firing)
      /\ queue \in Seq(Job) /\ firing \in Seq(Job) /\ state \in [Promise -> CleanState]
    BY LineTypes DEF OrdInv
<1>4. CASE reactions' = [reactions EXCEPT ![p] = Append(@, r)] /\ UNCHANGED queue
    <2>1. Hanging'
        BY <1>2, <1>3, <1>4, PushLine
    <2> QED BY <2>1, <1>0, <1>3, <1>4 DEF OrdInv
<1>5. CASE queue' = Append(queue, JobOf(r, state[p])) /\ UNCHANGED reactions
    <2>1. JobOf(r, state[p]) \in Job /\ JobOf(r, state[p]).r = r
        BY <1>3 DEF JobOf, Job, CleanState
    <2>2. InLine(state, queue', firing)
        BY <1>2, <1>3, <1>5, <2>1, LineAppend
    <2> QED BY <2>2, <1>0, <1>3, <1>5 DEF OrdInv, Hanging
<1> QED BY <1>2, <1>4, <1>5 DEF AwaitPromise

(* A wrapper promise that is settled as it is made, with a job that is no handler. *)
LEMMA SettledWrapperLine ==
    ASSUME IInv, OrdInv, NEW f \in Promise, NEW r \in Reaction, ~Handler(r), NEW s, Final(s),
           state' = [state EXCEPT ![f] = s], queue' = Append(queue, JobOf(r, s)),
           UNCHANGED <<reactions, firing>>
    PROVE  OrdInv'
<1>1. /\ InLine(state, queue, firing) /\ Hanging /\ queue \in Seq(Job) /\ firing \in Seq(Job)
      /\ state \in [Promise -> CleanState]
    BY LineTypes DEF OrdInv
<1>2. \A x \in Promise : state[x].st # "pending" => state'[x].st # "pending"
    BY <1>1 DEF Final
<1>3. InLine(state', queue, firing)
    BY <1>1, <1>2, LineKeeps
<1>4. JobOf(r, s) \in Job /\ JobOf(r, s).r = r
    BY DEF JobOf, Job, CleanState, Final
<1>5. InLine(state', queue', firing)
    BY <1>1, <1>3, <1>4, LineAppend
<1> QED BY <1>1, <1>5 DEF OrdInv, Hanging

(* A wrapper promise that waits for a thenable's job. *)
LEMMA WaitingWrapperLine ==
    ASSUME IInv, OrdInv, NEW f \in Promise, NEW r \in Reaction, ~Handler(r),
           queue' = Append(queue, ThenableJob(f)),
           reactions' = [reactions EXCEPT ![f] = <<r>>], UNCHANGED <<state, firing>>
    PROVE  OrdInv'
<1>1. /\ InLine(state, queue, firing) /\ Hanging /\ queue \in Seq(Job) /\ firing \in Seq(Job)
      /\ reactions \in [Promise -> Seq(Reaction)]
    BY LineTypes DEF OrdInv
<1>2. ThenableJob(f) \in Job /\ ~Handler(ThenableJob(f).r)
    BY BoundsAssumption, PendingClean DEF ThenableJob, JobOf, Job, Bare, Reaction, ReactionKind,
       Promise, Handler, HandlerKinds, CleanState
<1>3. InLine(state, queue', firing)
    BY <1>1, <1>2, LineAppend
<1>4. \A x \in Promise : reactions'[x] = IF x = f THEN <<r>> ELSE reactions[x]
    BY <1>1
<1>5. Hanging'
    BY <1>1, <1>4, HangsOne DEF Hanging
<1> QED BY <1>3, <1>5 DEF OrdInv

(* await of any other value *)
LEMMA AwaitOtherLine ==
    ASSUME IInv, OrdInv, NEW v \in Inputs, AwaitOther(v)
    PROVE  OrdInv'
<1>1. /\ UserTurn /\ Allocate /\ frames # <<>> /\ Top.k \in {"async", "resume"}
      /\ UNCHANGED firing
    BY DEF AwaitOther, InAsync, UserTurn, Quiet
<1>2. Top.cap \in Promise /\ Fresh \in Promise
    BY <1>1, TopFacts, AllocateFacts
<1>3. PICK r \in Reaction : r = Bare("async", Top.cap, Fresh) /\ ~Handler(r)
    <2>1. Bare("async", Top.cap, Fresh) \in Reaction
        BY <1>2, PendingClean, BoundsAssumption DEF Bare, Reaction, ReactionKind, CleanState, Promise
    <2> QED BY <2>1 DEF Handler, HandlerKinds, Bare
<1>4. CASE /\ queue' = Append(queue, ThenableJob(Fresh))
           /\ reactions' = [reactions EXCEPT ![Fresh] = <<r>>] /\ UNCHANGED state
    BY <1>1, <1>2, <1>3, <1>4, WaitingWrapperLine
<1>5. ASSUME NEW s \in {Rejected(Plain), Fulfilled(Plain)},
             state' = [state EXCEPT ![Fresh] = s], queue' = Append(queue, JobOf(r, s)),
             UNCHANGED reactions
      PROVE  OrdInv'
    <2>1. Final(s)
        BY DEF Final, Rejected, Fulfilled, CleanState, State, Value
    <2> QED BY <1>1, <1>2, <1>3, <1>5, <2>1, SettledWrapperLine
<1>6. \A s : s = (IF v = BadThen THEN Rejected(Plain) ELSE Fulfilled(v)) /\ v \in {Plain, BadThen}
           => s \in {Rejected(Plain), Fulfilled(Plain)}
    OBVIOUS
<1> QED BY <1>3, <1>4, <1>5, <1>6 DEF AwaitOther

(* The return of a finally callback *)
LEMMA ReturnFinallyLine ==
    ASSUME IInv, OrdInv, NEW v \in Value, UserValue(v), ReturnFinally(v)
    PROVE  OrdInv'
<1>1. /\ UserTurn /\ Allocate /\ frames # <<>> /\ Top.k = "finally" /\ UNCHANGED firing
    BY DEF ReturnFinally, UserTurn, Quiet
<1>2. /\ Top.cap \in Promise /\ Top.orig \in CleanState /\ Fresh \in Promise
      /\ Store(alloc) /\ reactions \in [Promise -> Seq(Reaction)]
    BY <1>1, TopFacts, AllocateFacts, LineTypes
<1> DEFINE follow == [Bare("finallyPropagate", Top.cap, Fresh) EXCEPT !.orig = Top.orig]
<1>3. PICK r \in Reaction : r = follow /\ ~Handler(r)
    <2>1. follow \in Reaction /\ follow.kind = "finallyPropagate"
        <3>1. Bare("finallyPropagate", Top.cap, Fresh) \in Reaction
            BY <1>2, PendingClean, BoundsAssumption DEF Bare, Reaction, ReactionKind, CleanState, Promise
        <3> QED BY <3>1, <1>2 DEF Reaction, Bare, CleanState
    <2> QED BY <2>1 DEF Handler, HandlerKinds
<1>4. ASSUME NEW s, Final(s), state' = [state EXCEPT ![Fresh] = s],
             queue' = Append(queue, JobOf(r, s)), UNCHANGED reactions
      PROVE  OrdInv'
    BY <1>1, <1>2, <1>3, <1>4, SettledWrapperLine
<1>5. CASE /\ v \in Promise
           /\ reactions' = [reactions EXCEPT ![v] = Append(@, Bare("forward", Fresh, v)),
                                             ![Fresh] = <<follow>>]
           /\ UNCHANGED <<state, queue>>
    <2>1. PICK f \in Reaction : f = Bare("forward", Fresh, v) /\ ~Handler(f)
        <3>1. Bare("forward", Fresh, v) \in Reaction
            BY <1>2, <1>5, PendingClean, BoundsAssumption DEF Bare, Reaction, ReactionKind, CleanState, Promise
        <3> QED BY <3>1 DEF Handler, HandlerKinds, Bare
    <2>2. \A x \in Promise : reactions'[x] = IF x = Fresh THEN <<r>>
                                            ELSE IF x = v THEN Append(reactions[v], f)
                                            ELSE reactions[x]
        BY <1>2, <1>3, <1>5, <2>1
    <2>3. HangsOn(v, Append(reactions[v], f))
        <3>1. reactions[v] \in Seq(Reaction) /\ HangsOn(v, reactions[v])
            BY <1>2, <1>5 DEF OrdInv, Hanging
        <3> QED BY <3>1, <2>1, HangsAppend
    <2>4. Hanging'
        BY <2>2, <2>3, <1>3, HangsOne DEF OrdInv, Hanging
    <2> QED BY <2>4, <1>1, <1>5 DEF OrdInv
<1>6. CASE /\ queue' = Append(queue, ThenableJob(Fresh))
           /\ reactions' = [reactions EXCEPT ![Fresh] = <<follow>>] /\ UNCHANGED state
    <2>1. reactions' = [reactions EXCEPT ![Fresh] = <<r>>]
        BY <1>3, <1>6
    <2> QED BY <2>1, <1>1, <1>2, <1>3, <1>6, WaitingWrapperLine
<1>7. ASSUME v \in Promise, ~IsPending(v) PROVE Final(state[v])
    BY <1>2, <1>7 DEF Final, Store, IsPending
<1>8. v \in {Plain, BadThen} => Final(IF v = BadThen THEN Rejected(Plain) ELSE Fulfilled(v))
    BY DEF Final, Rejected, Fulfilled, CleanState, State, Value
<1>9. \/ \E s : /\ state' = [state EXCEPT ![Fresh] = s] /\ queue' = Append(queue, JobOf(follow, s))
                /\ UNCHANGED reactions /\ Final(s)
      \/ /\ v \in Promise
         /\ reactions' = [reactions EXCEPT ![v] = Append(@, Bare("forward", Fresh, v)),
                                           ![Fresh] = <<follow>>]
         /\ UNCHANGED <<state, queue>>
      \/ /\ queue' = Append(queue, ThenableJob(Fresh))
         /\ reactions' = [reactions EXCEPT ![Fresh] = <<follow>>] /\ UNCHANGED state
    BY <1>7, <1>8, Zenon DEF ReturnFinally
<1> HIDE DEF follow
<1> QED BY <1>3, <1>4, <1>5, <1>6, <1>9

(* Every step keeps the handlers in line. *)
LEMMA NextLine == IInv /\ OrdInv /\ [Next]_vars => OrdInv'
<1> SUFFICES ASSUME IInv, OrdInv, [Next]_vars PROVE OrdInv'
    OBVIOUS
<1>1. CASE StartEval \/ FinishEval \/ EndDrain \/ TakeUnhandled \/ UNCHANGED vars
    BY <1>1, PlainLine
<1>6. CASE HitJobLimit
    BY <1>6, HitLimitLine
<1>2. CASE FireReaction
    BY <1>2, FireLine
<1>3. CASE RunJob
    BY <1>3, RunJobLine
<1>4. CASE UserCall
    <2>1. CASE NewPromise \/ WithResolvers \/ CallAsync
        BY <2>1, PlainLine
    <2>2. CASE QueueMicrotask
        BY <2>2, MicrotaskLine
    <2>3. CASE \/ \E i \in DOMAIN pairs : \/ \E v \in Value : CallResolve(i, v)
                                         \/ \E e \in Reasons : CallReject(i, e)
               \/ \E v \in Inputs : StaticResolve(v)
               \/ \E e \in Reasons : StaticReject(e)
        BY <2>3, ResolverLine
    <2>4. ASSUME NEW p \in Promise, (\E f, r \in BOOLEAN : Then(p, f, r)) \/ Finally(p)
          PROVE  OrdInv'
        BY <2>4, ThenLine
    <2>5. ASSUME NEW p \in Promise, AwaitPromise(p) PROVE OrdInv'
        BY <2>5, AwaitLine
    <2>6. ASSUME NEW v \in Inputs, AwaitOther(v) PROVE OrdInv'
        BY <2>6, AwaitOtherLine
    <2> QED BY <1>4, <2>1, <2>2, <2>3, <2>4, <2>5, <2>6 DEF UserCall
<1>5. CASE Complete
    <2>1. CASE ReturnIgnored \/ ThrowMicrotask
        BY <2>1, PlainLine
    <2>2. CASE (\E v \in Value : ReturnValue(v)) \/ (\E e \in Reasons : ThrowRejects(e))
        BY <2>2, ReturnLine
    <2>3. ASSUME NEW v \in Value, UserValue(v), ReturnFinally(v) PROVE OrdInv'
        BY <2>3, ReturnFinallyLine
    <2> QED BY <1>5, <2>1, <2>2, <2>3 DEF Complete
<1> QED BY <1>1, <1>2, <1>3, <1>4, <1>5, <1>6 DEF Next

(* Initially there is no handler. *)
LEMMA LineInit == Init => OrdInv
BY DEF Init, OrdInv, InLine, InOrder, Ahead, SettledOn, Hanging, HangsOn

-----------------------------------------------------------------------------
(* The queue is empty between programs                                      *)

(* A program or a drain is at the bottom of every stack, and no settlement *)
(* is half way when there is none.                                         *)
Grounded ==
    /\ frames = <<>> => firing = <<>>
    /\ frames # <<>> => frames[1].k \in {"eval", "drain"}

(* Popping a frame leaves the bottom one, unless it was the only one. *)
LEMMA PopGround ==
    ASSUME frames \in Seq(Frame), frames # <<>>
    PROVE  /\ Below # <<>> => Below[1] = frames[1]
           /\ Top # frames[1] => Below # <<>>
<1>1. PICK n \in Nat : n = Len(frames)
    OBVIOUS
<1>2. n >= 1
    BY <1>1
<1>3. CASE n = 1
    <2>1. SubSeq(frames, 1, n - 1) = <<>> /\ Top = frames[1]
        BY <1>1, <1>3, SubSeqEmpty DEF Top
    <2> QED BY <2>1, <1>1 DEF Below
<1>4. CASE n # 1
    <2>1. /\ n - 1 \in Nat /\ 1 \in Int /\ n - 1 \in Int /\ 1 <= n - 1 /\ 1 \in 1 .. n - 1
          /\ \A i \in 1 .. n - 1 : i \in 1 .. n /\ 1 + i - 1 = i
        BY <1>2, <1>4
    <2>2. \A i \in 1 .. n - 1 : frames[i] \in Frame
        BY <1>1, <2>1
    <2>3. /\ Len(SubSeq(frames, 1, n - 1)) = IF 1 <= n - 1 THEN n - 1 - 1 + 1 ELSE 0
          /\ \A i \in 1 .. n - 1 - 1 + 1 : SubSeq(frames, 1, n - 1)[i] = frames[1 + i - 1]
        BY <2>1, <2>2, SubSeqProperties
    <2>4. Len(Below) = n - 1 /\ Below[1] = frames[1]
        BY <2>1, <2>3, <1>1 DEF Below
    <2> QED BY <2>1, <2>4
<1> QED BY <1>3, <1>4

(* Pushing a frame. *)
LEMMA PushGround ==
    ASSUME NEW s \in Seq(Frame), NEW f
    PROVE  /\ Append(s, f) # <<>>
           /\ Append(s, f)[1] = IF s = <<>> THEN f ELSE s[1]
<1>0. s \in Seq(Frame \cup {f}) /\ f \in Frame \cup {f}
    BY SeqMono
<1>1. /\ Len(Append(s, f)) = Len(s) + 1 /\ Len(s) \in Nat
      /\ Append(s, f)[Len(s) + 1] = f
      /\ \A i \in 1 .. Len(s) : Append(s, f)[i] = s[i]
    BY <1>0
<1>2. CASE s = <<>>
    BY <1>1, <1>2
<1>3. CASE s # <<>>
    <2>1. Len(s) >= 1
        BY <1>3
    <2> QED BY <2>1, <1>1, <1>3
<1> QED BY <1>2, <1>3

(* A step of code that runs keeps the bottom of the stack. *)
LEMMA RunningGround ==
    ASSUME frames \in Seq(Frame), Grounded, frames # <<>>,
           \/ frames' = frames
           \/ \E f : frames' = Append(frames, f)
           \/ frames' = Below /\ Top.k \notin {"eval", "drain"}
    PROVE  Grounded' /\ frames' # <<>>
<1>1. frames' # <<>> /\ frames'[1] = frames[1]
    <2>1. CASE frames' = frames
        BY <2>1
    <2>2. ASSUME NEW f, frames' = Append(frames, f) PROVE frames' # <<>> /\ frames'[1] = frames[1]
        BY <2>2, PushGround
    <2>3. CASE frames' = Below /\ Top.k \notin {"eval", "drain"}
        <3>1. Top # frames[1]
            BY <2>3 DEF Grounded
        <3> QED BY <3>1, <2>3, PopGround
    <2> QED BY <2>1, <2>2, <2>3
<1> QED BY <1>1 DEF Grounded

(* Every step keeps the stack grounded, and only a drain leaves it empty. *)
LEMMA NextGround ==
    IInv /\ Grounded /\ [Next]_vars =>
        Grounded' /\ (frames # <<>> /\ frames' = <<>> => EndDrain \/ HitJobLimit)
<1> SUFFICES ASSUME IInv, Grounded, [Next]_vars
             PROVE  Grounded' /\ (frames # <<>> /\ frames' = <<>> => EndDrain \/ HitJobLimit)
    OBVIOUS
<1>0. frames \in Seq(Frame)
    BY OwnedTypes
<1>1. CASE StartEval
    <2>1. frames' = Append(frames, FrameOf("eval", 0, Pending))
        BY <1>1 DEF StartEval, Enter
    <2>2. /\ frames' # <<>>
          /\ frames'[1] = IF frames = <<>> THEN FrameOf("eval", 0, Pending) ELSE frames[1]
        BY <1>0, <2>1, PushGround
    <2> QED BY <2>2 DEF Grounded, FrameOf
<1>2. CASE FinishEval
    <2>1. frames # <<>> /\ Below \in Seq(Frame)
        BY <1>0, <1>2, PopSeq DEF FinishEval, Quiet, Below
    <2>2. Below # <<>> => Below[1] = frames[1]
        BY <1>0, <2>1, PopGround
    <2>3. CASE InEval(Below) /\ frames' = Below
        BY <2>1, <2>2, <2>3 DEF InEval, Grounded
    <2>4. CASE frames' = Append(Below, FrameOf("drain", 0, Pending))
        <3>1. /\ frames' # <<>>
              /\ frames'[1] = IF Below = <<>> THEN FrameOf("drain", 0, Pending) ELSE Below[1]
            BY <2>1, <2>4, PushGround
        <3> QED BY <3>1, <2>1, <2>2 DEF Grounded, FrameOf
    <2> QED BY <1>2, <2>3, <2>4 DEF FinishEval, Leave
<1>3. CASE EndDrain \/ HitJobLimit
    <2>1. /\ frames # <<>> /\ frames' = Below /\ firing' = <<>>
        BY <1>3 DEF EndDrain, HitJobLimit, Draining, StopDraining, Quiet, Leave, core
    <2>2. Below # <<>> => Below[1] = frames[1]
        BY <1>0, <2>1, PopGround
    <2> QED BY <1>3, <2>1, <2>2 DEF Grounded
<1>4. CASE TakeUnhandled \/ UNCHANGED vars
    BY <1>4 DEF TakeUnhandled, vars, Grounded
<1>5. CASE FireReaction
    <2>1. frames # <<>> /\ frames' = frames
        BY <1>5 DEF FireReaction, Grounded
    <2> QED BY <1>0, <2>1, RunningGround
<1>6. CASE RunJob
    <2>1. frames # <<>> /\ (frames' = frames \/ \E f : frames' = Append(frames, f))
        BY <1>6 DEF RunJob, RunHandler, RunPassThrough, RunFinally, RunFinallyPropagate,
           RunAsyncResume, RunThenable, RunMicrotask, NextJob, Draining, Quiet, CallUser, Enter
    <2> QED BY <1>0, <2>1, RunningGround
<1>7. CASE UserCall
    <2>1. /\ frames # <<>>
          /\ \/ frames' = frames
             \/ \E f : frames' = Append(frames, f)
             \/ frames' = Below /\ Top.k \notin {"eval", "drain"}
        <3>1. CASE NewPromise \/ WithResolvers \/ QueueMicrotask \/ CallAsync
            BY <3>1 DEF NewPromise, WithResolvers, QueueMicrotask, CallAsync, Calls, UserTurn,
               Quiet, Enter
        <3>2. ASSUME NEW i, NEW v, CallResolve(i, v) \/ CallReject(i, v)
              PROVE  frames # <<>> /\ frames' = frames
            BY <3>2 DEF CallResolve, CallReject, Calls, UserTurn, Quiet
        <3>3. ASSUME NEW p, NEW f, NEW r, Then(p, f, r) \/ Finally(p)
              PROVE  frames # <<>> /\ frames' = frames
            BY <3>3 DEF Then, Finally, Calls, UserTurn, Quiet
        <3>4. ASSUME NEW p, AwaitPromise(p) \/ AwaitOther(p)
              PROVE  frames # <<>> /\ frames' = Below /\ Top.k \notin {"eval", "drain"}
            BY <3>4 DEF AwaitPromise, AwaitOther, InAsync, UserTurn, Quiet, Leave
        <3>5. ASSUME NEW v, StaticResolve(v) \/ StaticReject(v)
              PROVE  frames # <<>> /\ frames' = frames
            BY <3>5 DEF StaticResolve, StaticReject, Calls, UserTurn, Quiet
        <3> QED BY <1>7, <3>1, <3>2, <3>3, <3>4, <3>5 DEF UserCall
    <2> QED BY <1>0, <2>1, RunningGround
<1>8. CASE Complete
    <2>1. frames # <<>> /\ frames' = Below /\ Top.k \notin {"eval", "drain"}
        BY <1>8 DEF Complete, ReturnValue, ReturnFinally, ReturnIgnored, ThrowRejects,
           ThrowMicrotask, UserTurn, Quiet, Leave
    <2> QED BY <1>0, <2>1, RunningGround
<1> QED BY <1>1, <1>2, <1>3, <1>4, <1>5, <1>6, <1>7, <1>8 DEF Next

(* Initially nothing runs and nothing is queued. *)
LEMMA GroundInit == Init => Grounded
BY DEF Init, Grounded

(* The drains on the stack *)
DrainFrames == {f \in Frame : f.k = "drain"}

(* Every running drain has its own count of jobs, within the limit. *)
Tallied ==
    /\ steps \in Seq(0 .. JobLimit)
    /\ Len(steps) = CountIn(frames, DrainFrames)

(* A running drain has its count. *)
LEMMA TopTally ==
    ASSUME IInv, Tallied, frames # <<>>, Top.k = "drain"
    PROVE  /\ Len(steps) \in DOMAIN steps /\ Ran \in 0 .. JobLimit
           /\ Len(steps) - 1 = CountIn(Below, DrainFrames)
<1>1. frames \in Seq(Frame) /\ steps \in Seq(0 .. JobLimit)
    BY OwnedTypes DEF Tallied
<1>2. Top \in DrainFrames /\ Below \in Seq(Frame)
    BY <1>1, PopSeq DEF Top, Below, DrainFrames
<1>3. CountIn(frames, DrainFrames) = CountIn(Below, DrainFrames) + One(Top \in DrainFrames)
    BY <1>1, CountPop DEF Top, Below
<1>4. CountIn(Below, DrainFrames) \in Nat
    BY <1>2, CountType
<1>5. Len(steps) = CountIn(Below, DrainFrames) + 1
    BY <1>2, <1>3 DEF One, Tallied
<1>6. PICK n \in Nat : n = Len(steps)
    BY <1>1
<1>7. n >= 1 /\ n \in 1 .. n
    BY <1>4, <1>5, <1>6
<1>8. n \in DOMAIN steps
    BY <1>1, <1>6, <1>7
<1>9. steps[n] \in 0 .. JobLimit
    BY <1>1, <1>8, Member
<1> QED BY <1>4, <1>5, <1>6, <1>8, <1>9 DEF Ran

(* A step of code other than a drain. *)
LEMMA RunningTally ==
    ASSUME IInv, Tallied, UNCHANGED steps,
           \/ frames' = frames
           \/ \E f \in Frame : f.k # "drain" /\ frames' = Append(frames, f)
           \/ frames # <<>> /\ frames' = Below /\ Top.k # "drain"
    PROVE  Tallied'
<1>1. frames \in Seq(Frame) /\ CountIn(frames, DrainFrames) \in Nat
    BY OwnedTypes, CountType
<1>2. CountIn(frames', DrainFrames) = CountIn(frames, DrainFrames)
    <2>1. ASSUME NEW f \in Frame, f.k # "drain", frames' = Append(frames, f)
          PROVE  CountIn(frames', DrainFrames) = CountIn(frames, DrainFrames)
        <3>1. CountIn(Append(frames, f), DrainFrames)
                 = CountIn(frames, DrainFrames) + One(f \in DrainFrames)
            BY <1>1, CountAppend
        <3>2. One(f \in DrainFrames) = 0
            BY <2>1 DEF DrainFrames, One
        <3> QED BY <1>1, <2>1, <3>1, <3>2
    <2>2. CASE frames # <<>> /\ frames' = Below /\ Top.k # "drain"
        <3>1. CountIn(frames, DrainFrames) = CountIn(Below, DrainFrames) + One(Top \in DrainFrames)
            BY <1>1, <2>2, CountPop DEF Top, Below
        <3>2. One(Top \in DrainFrames) = 0
            BY <2>2 DEF DrainFrames, One
        <3>3. CountIn(Below, DrainFrames) \in Nat
            BY <1>1, <2>2, PopSeq, CountType DEF Below
        <3> QED BY <2>2, <3>1, <3>2, <3>3
    <2> QED BY <2>1, <2>2
<1> QED BY <1>2 DEF Tallied

(* A drain runs its next job. *)
LEMMA JobTally ==
    ASSUME IInv, Tallied, NEW k, NextJob(k),
           \/ frames' = frames
           \/ \E f \in Frame : f.k # "drain" /\ frames' = Append(frames, f)
    PROVE  Tallied'
<1>1. /\ frames # <<>> /\ Top.k = "drain" /\ Ran < JobLimit
      /\ steps' = [steps EXCEPT ![Len(steps)] = @ + 1]
    BY DEF NextJob, Draining, Quiet
<1>2. /\ Len(steps) \in DOMAIN steps /\ Ran \in 0 .. JobLimit /\ steps \in Seq(0 .. JobLimit)
    BY <1>1, TopTally DEF Tallied
<1>3. Ran + 1 \in 0 .. JobLimit
    BY <1>1, <1>2, BoundsAssumption
<1>4. steps' \in Seq(0 .. JobLimit) /\ Len(steps') = Len(steps)
    BY <1>1, <1>2, <1>3 DEF Ran
<1>5. frames \in Seq(Frame) /\ CountIn(frames, DrainFrames) \in Nat
    BY OwnedTypes, CountType
<1>6. CountIn(frames', DrainFrames) = CountIn(frames, DrainFrames)
    <2>1. ASSUME NEW f \in Frame, f.k # "drain", frames' = Append(frames, f)
          PROVE  CountIn(frames', DrainFrames) = CountIn(frames, DrainFrames)
        <3>1. CountIn(Append(frames, f), DrainFrames)
                 = CountIn(frames, DrainFrames) + One(f \in DrainFrames)
            BY <1>5, CountAppend
        <3>2. One(f \in DrainFrames) = 0
            BY <2>1 DEF DrainFrames, One
        <3> QED BY <1>5, <2>1, <3>1, <3>2
    <2> QED BY <2>1
<1> QED BY <1>4, <1>6 DEF Tallied

(* The frames user code and the jobs open. *)
LEMMA OpenedFrame ==
    ASSUME NEW k \in FrameKind \ {"drain"}, NEW p \in 0 .. MaxPromises, NEW s \in State
    PROVE  FrameOf(k, p, s) \in Frame /\ FrameOf(k, p, s).k # "drain"
BY DEF FrameOf, Frame

(* Every step keeps the counts of the drains. *)
LEMMA NextTally == IInv /\ Tallied /\ [Next]_vars => Tallied'
<1> SUFFICES ASSUME IInv, Tallied, [Next]_vars PROVE Tallied'
    OBVIOUS
<1>0. /\ frames \in Seq(Frame) /\ 0 \in 0 .. MaxPromises /\ Pending \in State
      /\ CountIn(frames, DrainFrames) \in Nat /\ steps \in Seq(0 .. JobLimit)
    BY OwnedTypes, CountType, PendingClean, BoundsAssumption DEF CleanState, Tallied
<1>1. CASE StartEval
    <2>1. /\ FrameOf("eval", 0, Pending) \in Frame /\ FrameOf("eval", 0, Pending).k # "drain"
          /\ frames' = Append(frames, FrameOf("eval", 0, Pending)) /\ UNCHANGED steps
        BY <1>0, <1>1, OpenedFrame DEF StartEval, Enter, FrameKind, loop
    <2> QED BY <2>1, RunningTally
<1>2. CASE FinishEval
    <2>1. frames # <<>> /\ Top.k = "eval"
        BY <1>2 DEF FinishEval, Quiet
    <2>2. CASE frames' = Below /\ UNCHANGED steps
        BY <2>1, <2>2, RunningTally
    <2>3. CASE frames' = Append(Below, FrameOf("drain", 0, Pending)) /\ steps' = Append(steps, 0)
        <3>1. FrameOf("drain", 0, Pending) \in DrainFrames /\ FrameOf("drain", 0, Pending) \in Frame
            BY <1>0 DEF FrameOf, Frame, FrameKind, DrainFrames
        <3>2. CountIn(frames, DrainFrames) = CountIn(Below, DrainFrames) + One(Top \in DrainFrames)
            BY <1>0, <2>1, CountPop DEF Top, Below
        <3>3. Below \in Seq(Frame) /\ CountIn(Below, DrainFrames) \in Nat
            BY <1>0, <2>1, PopSeq, CountType DEF Below
        <3>4. CountIn(Append(Below, FrameOf("drain", 0, Pending)), DrainFrames)
                 = CountIn(Below, DrainFrames) + One(FrameOf("drain", 0, Pending) \in DrainFrames)
            BY <3>1, <3>3, CountAppend
        <3>5. One(Top \in DrainFrames) = 0 /\ One(FrameOf("drain", 0, Pending) \in DrainFrames) = 1
            BY <2>1, <3>1 DEF DrainFrames, One
        <3>6. CountIn(frames', DrainFrames) = CountIn(frames, DrainFrames) + 1
            BY <2>3, <3>2, <3>3, <3>4, <3>5
        <3>7. steps' \in Seq(0 .. JobLimit) /\ Len(steps') = Len(steps) + 1
            BY <1>0, <2>3, BoundsAssumption
        <3> QED BY <3>6, <3>7 DEF Tallied
    <2> QED BY <1>2, <2>2, <2>3 DEF FinishEval, Leave
<1>3. CASE EndDrain \/ HitJobLimit
    <2>1. /\ frames # <<>> /\ Top.k = "drain" /\ frames' = Below
          /\ steps' = SubSeq(steps, 1, Len(steps) - 1)
        BY <1>3 DEF EndDrain, HitJobLimit, Draining, StopDraining, Quiet, Leave
    <2>2. Len(steps) \in DOMAIN steps /\ Len(steps) - 1 = CountIn(Below, DrainFrames)
        BY <2>1, TopTally
    <2>3. steps' \in Seq(0 .. JobLimit) /\ Len(steps') = Len(steps) - 1
        <3>1. PICK n \in Nat : n = Len(steps)
            BY <1>0
        <3>2. steps # <<>> /\ n >= 1
            BY <1>0, <2>2, <3>1
        <3>3. SubSeq(steps, 1, n - 1) \in Seq(0 .. JobLimit)
            BY <1>0, <3>1, <3>2, PopSeq
        <3>4. Len(SubSeq(steps, 1, n - 1)) = n - 1
            BY <1>0, <3>1, <3>2
        <3> QED BY <2>1, <3>1, <3>3, <3>4
    <2> QED BY <2>1, <2>2, <2>3 DEF Tallied
<1>4. CASE TakeUnhandled \/ FireReaction \/ UNCHANGED vars
    <2>1. UNCHANGED <<frames, steps>>
        BY <1>4 DEF TakeUnhandled, FireReaction, vars, loop
    <2> QED BY <2>1, RunningTally
<1>5. CASE RunJob
    <2>1. ASSUME NEW k, NextJob(k), UNCHANGED frames PROVE Tallied'
        BY <2>1, JobTally
    <2>2. ASSUME NEW k, NextJob(k), NEW j \in FrameKind \ {"drain"}, NEW s \in State, CallUser(j, s)
          PROVE  Tallied'
        <3>1. Head(queue) \in LiveJob(alloc) /\ queue # <<>>
            BY <2>2, OwnedTypes, HeadTail DEF NextJob, Store
        <3>2. JobPromise \in 0 .. MaxPromises
            BY <3>1 DEF JobPromise, LiveJob, LiveReaction, Reaction
        <3>3. /\ FrameOf(j, JobPromise, s) \in Frame /\ FrameOf(j, JobPromise, s).k # "drain"
              /\ frames' = Append(frames, FrameOf(j, JobPromise, s))
            BY <2>2, <3>2, OpenedFrame DEF CallUser, Enter
        <3> QED BY <2>2, <3>3, JobTally
    <2>3. NextJob("finallyCall") => JobSettlement \in State
        <3>1. NextJob("finallyCall") => Head(queue) \in LiveJob(alloc)
            BY OwnedTypes, HeadTail DEF NextJob, Store
        <3> QED BY <3>1 DEF JobSettlement, LiveJob, CleanState
    <2>4. CASE RunPassThrough \/ RunFinallyPropagate
        BY <2>1, <2>4 DEF RunPassThrough, RunFinallyPropagate
    <2>5. CASE RunHandler \/ RunAsyncResume \/ RunThenable \/ RunMicrotask
        BY <1>0, <2>2, <2>5 DEF RunHandler, RunAsyncResume, RunThenable, RunMicrotask, FrameKind
    <2>6. CASE RunFinally
        BY <2>2, <2>3, <2>6 DEF RunFinally, FrameKind
    <2> QED BY <1>5, <2>4, <2>5, <2>6 DEF RunJob
<1>6. CASE UserCall
    <2>1. CASE NewPromise \/ CallAsync
        <3>1. PICK k \in {"executor", "async"} : frames' = Append(frames, FrameOf(k, Fresh, Pending))
            BY <2>1 DEF NewPromise, CallAsync, Enter
        <3>2. Fresh \in 0 .. MaxPromises /\ UNCHANGED steps
            BY <2>1, OwnedTypes, BoundsAssumption DEF NewPromise, CallAsync, Allocate, Fresh, loop
        <3>3. FrameOf(k, Fresh, Pending) \in Frame /\ FrameOf(k, Fresh, Pending).k # "drain"
            BY <1>0, <3>2, OpenedFrame DEF FrameKind
        <3> QED BY <3>1, <3>2, <3>3, RunningTally
    <2>2. CASE WithResolvers \/ QueueMicrotask
        <3>1. UNCHANGED <<frames, steps>>
            BY <2>2 DEF WithResolvers, QueueMicrotask, loop
        <3> QED BY <3>1, RunningTally
    <2>3. ASSUME NEW i, NEW v, CallResolve(i, v) \/ CallReject(i, v) PROVE Tallied'
        <3>1. UNCHANGED <<frames, steps>>
            BY <2>3 DEF CallResolve, CallReject, loop
        <3> QED BY <3>1, RunningTally
    <2>4. ASSUME NEW p, NEW f, NEW r, Then(p, f, r) \/ Finally(p) PROVE Tallied'
        <3>1. UNCHANGED <<frames, steps>>
            BY <2>4 DEF Then, Finally, loop
        <3> QED BY <3>1, RunningTally
    <2>5. ASSUME NEW p, AwaitPromise(p) \/ AwaitOther(p) PROVE Tallied'
        <3>1. frames # <<>> /\ frames' = Below /\ Top.k # "drain" /\ UNCHANGED steps
            BY <2>5 DEF AwaitPromise, AwaitOther, InAsync, UserTurn, Quiet, Leave, loop
        <3> QED BY <3>1, RunningTally
    <2>6. ASSUME NEW v, StaticResolve(v) \/ StaticReject(v) PROVE Tallied'
        <3>1. UNCHANGED <<frames, steps>>
            BY <2>6 DEF StaticResolve, StaticReject, loop
        <3> QED BY <3>1, RunningTally
    <2> QED BY <1>6, <2>1, <2>2, <2>3, <2>4, <2>5, <2>6 DEF UserCall
<1>7. CASE Complete
    <2>1. frames # <<>> /\ frames' = Below /\ Top.k # "drain" /\ UNCHANGED steps
        BY <1>7 DEF Complete, ReturnValue, ReturnFinally, ReturnIgnored, ThrowRejects,
           ThrowMicrotask, UserTurn, Quiet, Leave, loop
    <2> QED BY <2>1, RunningTally
<1> QED BY <1>1, <1>2, <1>3, <1>4, <1>5, <1>6, <1>7 DEF Next

(* Initially no drain runs. *)
LEMMA TallyInit == Init => Tallied
BY CountEmpty DEF Init, Tallied

-----------------------------------------------------------------------------
(* The theorems *)

(* The inductive invariant holds of every behaviour. *)
THEOREM Invariance == Spec => []IInv
<1>1. IInv /\ [Next]_vars => IInv'
    BY NextInv
<1> QED BY InitInv, <1>1, PTL DEF Spec

(* Type correctness of the promise machine. *)
THEOREM TypeCorrect == Spec => []TypeOK
<1>1. IInv /\ OwnInv /\ Tallied => TypeOK
    <2> SUFFICES ASSUME IInv, OwnInv, Tallied PROVE TypeOK
        OBVIOUS
    <2>1. Store(alloc) /\ Shell(alloc)
        BY IInvSplit
    <2>2. CleanState \subseteq State
        BY DEF CleanState
    <2>3. LiveReaction(alloc) \subseteq Reaction
        BY DEF LiveReaction
    <2>4. LiveJob(alloc) \subseteq Job
        BY <2>2, <2>3 DEF LiveJob, Job
    <2>5. LivePair(alloc) \subseteq [cap : Promise, used : BOOLEAN]
        BY DEF LivePair
    <2>6. LiveFrame(alloc) \subseteq Frame
        BY DEF LiveFrame
    <2>7. state \in [Promise -> State]
        BY <2>1, <2>2 DEF Store
    <2>8. reactions \in [Promise -> Seq(Reaction)]
        <3>1. Seq(LiveReaction(alloc)) \subseteq Seq(Reaction)
            BY <2>3, SeqMono
        <3> QED BY <3>1, <2>1 DEF Store
    <2>9. queue \in Seq(Job) /\ firing \in Seq(Job)
        <3>1. Seq(LiveJob(alloc)) \subseteq Seq(Job)
            BY <2>4, SeqMono
        <3> QED BY <3>1, <2>1 DEF Store
    <2>10. /\ pairs \in Seq([cap : Promise, used : BOOLEAN])
           /\ frames \in Seq(Frame)
        BY <2>1, <2>5, <2>6, SeqMono DEF Shell
    <2>11. steps \in Seq(Nat) /\ lost \in Seq(Job)
        <3>1. Seq(0 .. JobLimit) \subseteq Seq(Nat)
            BY SeqMono, BoundsAssumption
        <3> QED BY <3>1, LostTypes DEF Tallied
    <2> QED BY <2>1, <2>7, <2>8, <2>9, <2>10, <2>11 DEF TypeOK, Store, Shell
<1> QED BY Invariance, OwnInit, OwnNext, TallyInit, NextTally, <1>1, PTL DEF Spec

(* A settled promise has handed all its reactions on, and is never         *)
(* fulfilled with a promise or a thenable.                                 *)
THEOREM SettledCleanAlways == Spec => []SettledClean
<1>1. IInv => SettledClean
    BY DEF IInv, Store
<1> QED BY Invariance, <1>1, PTL

(* A promise with an attached handler is never in the unhandled list. *)
THEOREM HandledNotReportedAlways == Spec => []HandledNotReported
<1>1. IInv => HandledNotReported
    BY DEF IInv, Heard
<1> QED BY Invariance, <1>1, PTL

(* A rejection nobody listened to is listed until the host takes it. *)
THEOREM UnhandledCompleteAlways == Spec => []UnhandledComplete
<1>1. IInv => UnhandledComplete
    BY DEF IInv, Heard
<1> QED BY Invariance, <1>1, PTL

(* Settling is final. *)
THEOREM SettlingIsFinal == Spec => SettledForGood
<1>1. IInv /\ [Next]_vars =>
          [\A p \in Promise : ~IsPending(p) => state'[p] = state[p]]_vars
    BY NextInv DEF Keeps
<1> QED BY Invariance, <1>1, PTL DEF Spec, SettledForGood

(* A pending promise has exactly one thing left that will settle it (a     *)
(* resolver pair, a reaction or job, a frame), a settled one at most one:  *)
(* resolve_value, attach_reaction, await and finally hand it on.           *)
THEOREM OneOwnerAlways == Spec => []OneOwner
<1>1. IInv /\ OwnInv => OneOwner
    <2> SUFFICES ASSUME IInv, OwnInv, NEW p \in 1 .. alloc
                 PROVE  IF IsPending(p) THEN Cardinality(Owners(p)) = 1
                                        ELSE Cardinality(Owners(p)) <= 1
        BY DEF OneOwner
    <2>1. p \in Promise /\ p <= alloc
        BY BoundsAssumption DEF IInv, Promise
    <2>2. Owned(p) + Missed(p) <= 1 /\ (IsPending(p) => Owned(p) + Missed(p) = 1)
        BY <2>1 DEF OwnInv
    <2> QED BY <2>1, <2>2, OwnersCounted
<1> QED BY Invariance, OwnInit, OwnNext, <1>1, PTL DEF Spec

(* A promise that resolve_value locked to a pending one stays pending as   *)
(* long as that one does, but for a throw of an executor or a thenable.    *)
THEOREM LockedInAlways == Spec => LockedIn
<1> DEFINE Locked ==
        \A p, q \in Promise :
          IsPending(p) /\ LockedOn(p, q) /\ state'[q] = state[q] /\ ~ThrowOverrides
             => state'[p] = state[p]
<1>1. IInv /\ OwnInv /\ [Next]_vars => [Locked]_vars
    <2> SUFFICES ASSUME IInv, OwnInv, [Next]_vars, NEW p \in Promise, NEW q \in Promise,
                        IsPending(p), LockedOn(p, q), ~ThrowOverrides,
                        state'[p] # state[p]
                 PROVE  FALSE
        OBVIOUS
    <2>1. p <= alloc /\ Waits(p) >= 1
        BY LockedOwner
    <2>2. Owned(p) + Missed(p) = 1
        BY <2>1 DEF OwnInv
    <2>3. ~IsPending(p)'
        BY NextInv DEF Keeps
    <2>4. Owned(p) > Waits(p)
        <3>1. ~HitJobLimit
            BY DEF HitJobLimit
        <3> QED BY <2>1, <2>3, <3>1, NextPass DEF Passes, Consumes
    <2>5. Waits(p) \in Nat /\ Missed(p) \in Nat /\ Owned(p) \in Nat
        BY OwnedTypes, LostTypes DEF Counted, Owned, Carried
    <2> QED BY <2>1, <2>2, <2>4, <2>5
<1> QED BY Invariance, OwnInit, OwnNext, <1>1, PTL DEF Spec, LockedIn

(* The handlers of one promise are queued in the order then attached them: *)
(* settling it enqueues its reactions in order, behind those before.       *)
THEOREM HandlersInOrderAlways == Spec => []HandlersInOrder
<1>1. IInv /\ OrdInv => HandlersInOrder
    BY LineTypes, OrderConcat DEF OrdInv, InLine, HandlersInOrder
<1> QED BY Invariance, LineInit, NextLine, <1>1, PTL DEF Spec

(* When eval returns to its host, drain_jobs has emptied the queue or has  *)
(* run as many jobs as it may: then it has dropped one job, and the others *)
(* wait for the next program.  No settlement is half way.                  *)
THEOREM DrainedForHostAlways == Spec => DrainedForHost
<1> DEFINE Drained ==
        frames # <<>> /\ frames' = <<>> =>
          /\ firing' = <<>>
          /\ \/ queue' = <<>>
             \/ queue' = Tail(queue) /\ Ran = JobLimit
<1>1. IInv /\ Grounded /\ Tallied /\ [Next]_vars => [Drained]_vars
    <2> SUFFICES ASSUME IInv, Grounded, Tallied, [Next]_vars, frames # <<>>, frames' = <<>>
                 PROVE  /\ firing' = <<>>
                        /\ queue' = <<>> \/ (Ran = JobLimit /\ queue' = Tail(queue))
        OBVIOUS
    <2>1. EndDrain \/ HitJobLimit
        BY NextGround
    <2>2. CASE EndDrain
        BY <2>2 DEF EndDrain, Draining, Quiet, core
    <2>3. CASE HitJobLimit
        <3>1. Ran \in 0 .. JobLimit /\ Ran >= JobLimit
            BY <2>3, TopTally DEF HitJobLimit, Draining, Quiet
        <3>2. Ran = JobLimit
            BY <3>1, BoundsAssumption
        <3> QED BY <2>3, <3>2 DEF HitJobLimit, Draining, Quiet
    <2> QED BY <2>1, <2>2, <2>3
<1>2. IInv /\ Grounded /\ Tallied /\ [Next]_vars => (IInv /\ Grounded /\ Tallied)'
    BY NextInv, NextGround, NextTally
<1> QED BY InitInv, GroundInit, TallyInit, <1>1, <1>2, PTL DEF Spec, DrainedForHost

-----------------------------------------------------------------------------
(* Promises implements PromiseSpec                                          *)

(* What a sequence holds after the operations on it. *)
LEMMA RangeAppend ==
    ASSUME NEW S, NEW s \in Seq(S), NEW x
    PROVE  Range(Append(s, x)) = Range(s) \cup {x}
<1>0. s \in Seq(S \cup {x}) /\ x \in S \cup {x}
    BY SeqMono
<1>1. /\ Len(s) \in Nat /\ DOMAIN s = 1 .. Len(s) /\ DOMAIN Append(s, x) = 1 .. Len(s) + 1
      /\ Append(s, x)[Len(s) + 1] = x
      /\ \A i \in 1 .. Len(s) : Append(s, x)[i] = s[i]
    BY <1>0
<1>2. 1 .. Len(s) + 1 = (1 .. Len(s)) \cup {Len(s) + 1}
    BY <1>1
<1> QED BY <1>1, <1>2 DEF Range

LEMMA RangeConcat ==
    ASSUME NEW S, NEW s \in Seq(S), NEW t \in Seq(S)
    PROVE  Range(s \o t) = Range(s) \cup Range(t)
<1> DEFINE m == Len(s)
           c == s \o t
<1>1. /\ m \in Nat /\ Len(t) \in Nat /\ DOMAIN s = 1 .. m /\ DOMAIN t = 1 .. Len(t)
      /\ DOMAIN c = 1 .. m + Len(t)
      /\ \A i \in 1 .. m + Len(t) : c[i] = IF i <= m THEN s[i] ELSE t[i - m]
    BY ConcatProperties
<1> HIDE DEF m, c
<1>2. \A i \in DOMAIN s : i \in DOMAIN c /\ c[i] = s[i]
    BY <1>1
<1>3. \A i \in DOMAIN t : i + m \in DOMAIN c /\ c[i + m] = t[i]
    <2> SUFFICES ASSUME NEW i \in 1 .. Len(t) PROVE i + m \in DOMAIN c /\ c[i + m] = t[i]
        BY <1>1
    <2>1. i + m \in 1 .. m + Len(t) /\ ~(i + m <= m) /\ (i + m) - m = i
        BY <1>1
    <2> QED BY <2>1, <1>1
<1>4. \A i \in DOMAIN c : i \in DOMAIN s \/ (i - m \in DOMAIN t /\ c[i] = t[i - m])
    BY <1>1
<1>5. Range(c) = Range(s) \cup Range(t)
    BY <1>2, <1>3, <1>4 DEF Range
<1> QED BY <1>5 DEF c

LEMMA RangeTail ==
    ASSUME NEW S, NEW s \in Seq(S), s # <<>>
    PROVE  Range(s) = {Head(s)} \cup Range(Tail(s))
<1>1. /\ Len(s) \in Nat /\ Len(s) >= 1 /\ DOMAIN s = 1 .. Len(s)
      /\ DOMAIN Tail(s) = 1 .. Len(s) - 1 /\ Head(s) = s[1]
      /\ \A i \in 1 .. Len(s) - 1 : Tail(s)[i] = s[i + 1]
    BY HeadTailProperties
<1>2. \A i \in DOMAIN Tail(s) : i + 1 \in DOMAIN s /\ Tail(s)[i] = s[i + 1]
    BY <1>1
<1>3. \A i \in DOMAIN s : i = 1 \/ (i - 1 \in DOMAIN Tail(s) /\ s[i] = Tail(s)[i - 1])
    BY <1>1
<1>4. 1 \in DOMAIN s /\ Head(s) = s[1]
    BY <1>1
<1> DEFINE t == Tail(s)
           h == Head(s)
<1> HIDE DEF t, h
<1> QED BY <1>2, <1>3, <1>4 DEF Range, t, h

LEMMA RangePop ==
    ASSUME NEW S, NEW s \in Seq(S), s # <<>>
    PROVE  Range(s) = Range(SubSeq(s, 1, Len(s) - 1)) \cup {s[Len(s)]}
<1> DEFINE t == SubSeq(s, 1, Len(s) - 1)
           x == s[Len(s)]
<1>1. Len(s) \in Nat /\ Len(s) >= 1 /\ x \in S
    BY EmptySeq
<1>2. t \in Seq(S)
    BY <1>1
<1>3. s = Append(t, x)
    BY <1>1, <1>2
<1> HIDE DEF t, x
<1>4. Range(s) = Range(t) \cup {x}
    BY <1>2, <1>3, RangeAppend
<1> QED BY <1>4 DEF t, x

(* The jobs a settlement triggers are those of the reactions. *)
LEMMA RangeTriggered ==
    ASSUME NEW rs, NEW s
    PROVE  Range(Triggered(rs, s)) = {JobOf(r, s) : r \in Range(rs)}
BY DEF Range, Triggered

LEMMA RangeShort ==
    ASSUME NEW x
    PROVE  Range(<<>>) = {} /\ Range(<<x>>) = {x}
<1>1. DOMAIN <<x>> = {1} /\ <<x>>[1] = x /\ DOMAIN <<>> = {}
    OBVIOUS
<1> QED BY <1>1 DEF Range

LEMMA ReactingMembers ==
    \A r : r \in Reacting <=>
        \/ \E q \in Promise : r \in Range(reactions[q])
        \/ \E j \in Range(queue) : r = j.r
        \/ \E j \in Range(firing) : r = j.r
<1>1. \A r : r \in {j.r : j \in Range(queue) \cup Range(firing)} <=>
                 \E j \in Range(queue) \cup Range(firing) : r = j.r
    OBVIOUS
<1>2. \A r : r \in UNION {Range(reactions[q]) : q \in Promise} <=>
                 \E q \in Promise : r \in Range(reactions[q])
    OBVIOUS
<1> QED BY <1>1, <1>2 DEF Reacting

(* What will settle a promise decides its fate: the reaction that waits to *)
(* settle it, though a drain has dropped its job, or else user code, which *)
(* may be a finally callback.                                              *)
Claim(p, x) ==
    \/ \E r \in Reacting : r.promise = p /\ x = FateOf(r)
    \/ \E f \in Range(frames) : f.k = "finally" /\ f.cap = p /\ x = Promised!Finishes(f.orig)
    \/ \E f \in Range(frames) :
          f.k \in {"handler", "async", "resume"} /\ f.cap = p /\ x = Promised!Open
    \/ \E c \in Range(pairs) : ~c.used /\ c.cap = p /\ x = Promised!Open
    \/ \E j \in Range(lost) : j.r.promise = p /\ x = FateOf(j.r)

FateAt(t) ==
    CASE t[1] = "reaction" -> FateOf(reactions[t[2]][t[3]])
      [] t[1] = "job" -> FateOf(queue[t[3]].r)
      [] t[1] = "firing" -> FateOf(firing[t[3]].r)
      [] t[1] = "lost" -> FateOf(lost[t[3]].r)
      [] t[1] = "frame" -> IF frames[t[3]].k = "finally" THEN Promised!Finishes(frames[t[3]].orig)
                           ELSE Promised!Open
      [] t[1] = "pair" -> Promised!Open

(* The claims on a promise are those of its owners. *)
LEMMA ClaimOfOwner ==
    ASSUME NEW p
    PROVE  \A x : Claim(p, x) <=> \E t \in Owners(p) : x = FateAt(t)
<1> DEFINE A == {<<"pair", 0, i>> : i \in {j \in DOMAIN pairs : pairs[j].cap = p /\ ~pairs[j].used}}
           B == {<<"job", 0, i>> : i \in {j \in DOMAIN queue : queue[j].r.promise = p}}
           C == {<<"firing", 0, i>> : i \in {j \in DOMAIN firing : firing[j].r.promise = p}}
           D == {<<"frame", 0, i>> : i \in {j \in DOMAIN frames :
                    frames[j].cap = p /\ frames[j].k \in {"handler", "finally", "async", "resume"}}}
           E == UNION {{<<"reaction", q, i>> : i \in {j \in DOMAIN reactions[q] :
                    reactions[q][j].promise = p}} : q \in Promise}
           F == {<<"lost", 0, i>> : i \in {j \in DOMAIN lost : lost[j].r.promise = p}}
<1>1. Owners(p) = A \cup B \cup C \cup D \cup E \cup F
    BY DEF Owners
<1>13. \A x : (\E t \in F : x = FateAt(t)) <=> \E j \in Range(lost) : j.r.promise = p /\ x = FateOf(j.r)
    <2>1. \A i : FateAt(<<"lost", 0, i>>) = FateOf(lost[i].r)
        BY DEF FateAt
    <2> QED BY <2>1 DEF Range
<1>2. \A x : (\E t \in A : x = FateAt(t)) <=> \E c \in Range(pairs) : ~c.used /\ c.cap = p /\ x = Promised!Open
    <2>1. \A i : FateAt(<<"pair", 0, i>>) = Promised!Open
        BY DEF FateAt
    <2> QED BY <2>1 DEF Range
<1>3. \A x : (\E t \in B : x = FateAt(t)) <=> \E j \in Range(queue) : j.r.promise = p /\ x = FateOf(j.r)
    <2>1. \A i : FateAt(<<"job", 0, i>>) = FateOf(queue[i].r)
        BY DEF FateAt
    <2> QED BY <2>1 DEF Range
<1>4. \A x : (\E t \in C : x = FateAt(t)) <=> \E j \in Range(firing) : j.r.promise = p /\ x = FateOf(j.r)
    <2>1. \A i : FateAt(<<"firing", 0, i>>) = FateOf(firing[i].r)
        BY DEF FateAt
    <2> QED BY <2>1 DEF Range
<1>5. \A x : (\E t \in D : x = FateAt(t)) <=>
                \/ \E f \in Range(frames) : f.k = "finally" /\ f.cap = p /\ x = Promised!Finishes(f.orig)
                \/ \E f \in Range(frames) :
                      f.k \in {"handler", "async", "resume"} /\ f.cap = p /\ x = Promised!Open
    <2>1. \A i : FateAt(<<"frame", 0, i>>) =
                    IF frames[i].k = "finally" THEN Promised!Finishes(frames[i].orig)
                    ELSE Promised!Open
        BY DEF FateAt
    <2> QED BY <2>1 DEF Range
<1>6. \A x : (\E t \in E : x = FateAt(t)) <=>
                \E q \in Promise : \E r \in Range(reactions[q]) : r.promise = p /\ x = FateOf(r)
    <2>1. \A q, i : FateAt(<<"reaction", q, i>>) = FateOf(reactions[q][i])
        BY DEF FateAt
    <2>2. \A t : t \in E <=> \E q \in Promise : \E i \in DOMAIN reactions[q] :
                                reactions[q][i].promise = p /\ t = <<"reaction", q, i>>
        OBVIOUS
    <2>3. \A q, r : r \in Range(reactions[q]) <=> \E i \in DOMAIN reactions[q] : r = reactions[q][i]
        BY DEF Range
    <2>4. \A t : t \in E <=> \E q \in Promise : \E i \in DOMAIN reactions[q] :
                 reactions[q][i].promise = p /\ t = <<"reaction", q, i>>
                    /\ FateAt(t) = FateOf(reactions[q][i])
        BY <2>1, <2>2
    <2> HIDE DEF E
    <2>5. ASSUME NEW x, NEW q \in Promise, NEW r \in Range(reactions[q]), r.promise = p,
                 x = FateOf(r)
          PROVE  \E t \in E : x = FateAt(t)
        <3>1. PICK i \in DOMAIN reactions[q] : r = reactions[q][i]
            BY <2>3
        <3> DEFINE t == <<"reaction", q, i>>
        <3>2. t \in E /\ FateAt(t) = FateOf(r)
            BY <2>1, <2>2, <2>5, <3>1
        <3> QED BY <2>5, <3>2
    <2>6. ASSUME NEW x, NEW t \in E, x = FateAt(t)
          PROVE  \E q \in Promise : \E r \in Range(reactions[q]) : r.promise = p /\ x = FateOf(r)
        BY <2>3, <2>4, <2>6
    <2> QED BY <2>5, <2>6
<1> HIDE DEF A, B, C, D, E, F
<1>7. \A x : (\E r \in Reacting : r.promise = p /\ x = FateOf(r)) <=>
                \/ \E q \in Promise : \E r \in Range(reactions[q]) : r.promise = p /\ x = FateOf(r)
                \/ \E j \in Range(queue) : j.r.promise = p /\ x = FateOf(j.r)
                \/ \E j \in Range(firing) : j.r.promise = p /\ x = FateOf(j.r)
    BY ReactingMembers, Zenon
<1> SUFFICES ASSUME NEW x PROVE Claim(p, x) <=> \E t \in Owners(p) : x = FateAt(t)
    OBVIOUS
<1>8. (\E t \in Owners(p) : x = FateAt(t)) <=>
          \/ \E t \in A : x = FateAt(t)
          \/ \E t \in B : x = FateAt(t)
          \/ \E t \in C : x = FateAt(t)
          \/ \E t \in D : x = FateAt(t)
          \/ \E t \in E : x = FateAt(t)
          \/ \E t \in F : x = FateAt(t)
    BY <1>1
<1>9. (\E r \in Reacting : r.promise = p /\ x = FateOf(r)) <=>
          \/ \E t \in B : x = FateAt(t)
          \/ \E t \in C : x = FateAt(t)
          \/ \E t \in E : x = FateAt(t)
    <2>1. (\E r \in Reacting : r.promise = p /\ x = FateOf(r)) <=>
              \/ \E q \in Promise : \E r \in Range(reactions[q]) : r.promise = p /\ x = FateOf(r)
              \/ \E j \in Range(queue) : j.r.promise = p /\ x = FateOf(j.r)
              \/ \E j \in Range(firing) : j.r.promise = p /\ x = FateOf(j.r)
        BY ONLY <1>7
    <2>2. (\E t \in B : x = FateAt(t)) <=> \E j \in Range(queue) : j.r.promise = p /\ x = FateOf(j.r)
        BY ONLY <1>3
    <2>3. (\E t \in C : x = FateAt(t)) <=> \E j \in Range(firing) : j.r.promise = p /\ x = FateOf(j.r)
        BY ONLY <1>4
    <2>4. (\E t \in E : x = FateAt(t)) <=>
              \E q \in Promise : \E r \in Range(reactions[q]) : r.promise = p /\ x = FateOf(r)
        BY ONLY <1>6
    <2> QED BY ONLY <2>1, <2>2, <2>3, <2>4
<1>10. (\E t \in A : x = FateAt(t)) <=> \E c \in Range(pairs) : ~c.used /\ c.cap = p /\ x = Promised!Open
    BY ONLY <1>2
<1>11. (\E t \in D : x = FateAt(t)) <=>
           \/ \E f \in Range(frames) : f.k = "finally" /\ f.cap = p /\ x = Promised!Finishes(f.orig)
           \/ \E f \in Range(frames) :
                 f.k \in {"handler", "async", "resume"} /\ f.cap = p /\ x = Promised!Open
    BY ONLY <1>5
<1>14. (\E t \in F : x = FateAt(t)) <=> \E j \in Range(lost) : j.r.promise = p /\ x = FateOf(j.r)
    BY ONLY <1>13
<1>12. Claim(p, x) <=>
           \/ \E t \in A : x = FateAt(t)
           \/ \E t \in B : x = FateAt(t)
           \/ \E t \in C : x = FateAt(t)
           \/ \E t \in D : x = FateAt(t)
           \/ \E t \in E : x = FateAt(t)
           \/ \E t \in F : x = FateAt(t)
    BY ONLY <1>9, <1>10, <1>11, <1>14 DEF Claim
<1> QED BY ONLY <1>8, <1>12

(* A pending promise has one claim, its fate. *)
LEMMA OneClaim ==
    IInv /\ OwnInv =>
        \A p \in Promise : p <= alloc /\ IsPending(p) => \A x : Claim(p, x) <=> x = Fate(p)
<1> SUFFICES ASSUME IInv, OwnInv, NEW p \in Promise, p <= alloc, IsPending(p)
             PROVE  \A x : Claim(p, x) <=> x = Fate(p)
    OBVIOUS
<1>1. PICK o : Owners(p) = {o}
    <2>1. IsFiniteSet(Owners(p)) /\ Cardinality(Owners(p)) = 1
        BY OwnersCounted DEF OwnInv
    <2> QED BY <2>1, FS_Singleton
<1>2. \A x : Claim(p, x) <=> x = FateAt(o)
    BY <1>1, ClaimOfOwner
<1>3. alloc \in Nat /\ p \in Nat /\ ~(p > alloc)
    BY BoundsAssumption DEF IInv, Promise
<1>4. CASE Waiting(p) # {}
    <2> DEFINE r == CHOOSE r \in Waiting(p) : TRUE
    <2>1. r \in Waiting(p)
        BY <1>4
    <2>2. Fate(p) = FateOf(r)
        BY <1>3, <1>4 DEF Fate
    <2>3. Claim(p, FateOf(r))
        BY <2>1 DEF Waiting, Forgotten, Claim
    <2> QED BY <1>2, <2>2, <2>3
<1>5. CASE Waiting(p) = {} /\ FinallyFrames(p) # {}
    <2> DEFINE f == CHOOSE f \in FinallyFrames(p) : TRUE
    <2>1. f \in FinallyFrames(p)
        BY <1>5
    <2>2. Fate(p) = Promised!Finishes(f.orig)
        BY <1>3, <1>5 DEF Fate, Promised!Finishes
    <2>3. Claim(p, Promised!Finishes(f.orig))
        BY <2>1 DEF FinallyFrames, Claim
    <2> QED BY <1>2, <2>2, <2>3
<1>6. CASE Waiting(p) = {} /\ FinallyFrames(p) = {}
    <2>1. Fate(p) = Promised!Open
        BY <1>3, <1>6 DEF Fate, Promised!Open
    <2>2. \A x : Claim(p, x) => x = Promised!Open
        BY <1>6 DEF Claim, Waiting, Forgotten, FinallyFrames
    <2> QED BY <1>2, <2>1, <2>2
<1> QED BY <1>4, <1>5, <1>6

-----------------------------------------------------------------------------
(* Where jobs come from: the settlement a job carries is that of the       *)
(* promise its reaction was attached to, and only the job of a thenable    *)
(* and a microtask were attached to none.                                  *)

Errand(r) == r.kind \in {"thenable", "microtask"}
Sure(st, j) == j.r.on \in Promise /\ st[j.r.on].st # "pending" /\ j.s = st[j.r.on]

(* All that waits, with the queue Q and the cascade F. *)
Sourced(st, rs, Q, F) ==
    /\ \A q \in Promise : \A r \in Range(rs[q]) : r.on = q /\ ~Errand(r)
    /\ \A j \in Range(Q) : j.r.kind # "forward" /\ (Errand(j.r) \/ Sure(st, j))
    /\ \A j \in Range(F) : ~Errand(j.r) /\ Sure(st, j)
SrcInv == Sourced(state, reactions, queue, firing)

Reacts(rs, Q, F) == (UNION {Range(rs[q]) : q \in Promise})
                    \cup {j.r : j \in Range(Q) \cup Range(F)}

LEMMA ReactsMembers ==
    \A rs, Q, F, r : r \in Reacts(rs, Q, F) <=>
        \/ \E q \in Promise : r \in Range(rs[q])
        \/ \E j \in Range(Q) : r = j.r
        \/ \E j \in Range(F) : r = j.r
<1> SUFFICES ASSUME NEW rs, NEW Q, NEW F, NEW r
             PROVE  r \in Reacts(rs, Q, F) <=>
                        \/ \E q \in Promise : r \in Range(rs[q])
                        \/ \E j \in Range(Q) : r = j.r
                        \/ \E j \in Range(F) : r = j.r
    OBVIOUS
<1>1. r \in {j.r : j \in Range(Q) \cup Range(F)} <=> \E j \in Range(Q) \cup Range(F) : r = j.r
    OBVIOUS
<1>2. r \in UNION {Range(rs[q]) : q \in Promise} <=> \E q \in Promise : r \in Range(rs[q])
    OBVIOUS
<1> QED BY <1>1, <1>2 DEF Reacts

LEMMA AddBound ==
    ASSUME NEW S, NEW x, NEW n \in Nat, IsFiniteSet(S), Cardinality(S) <= n
    PROVE  IsFiniteSet(S \cup {x}) /\ Cardinality(S \cup {x}) <= n + 1
<1>1. Cardinality(S) \in Nat
    BY FS_CardinalityType
<1>2. IsFiniteSet(S \cup {x}) /\ (Cardinality(S \cup {x}) = Cardinality(S)
                                   \/ Cardinality(S \cup {x}) = Cardinality(S) + 1)
    BY FS_AddElement
<1> QED BY <1>1, <1>2

(* The four values of the engine are different. *)
LEMMA Distinct ==
    /\ Plain # Thenable /\ Plain # BadThen /\ Plain # TypeErr
    /\ Thenable # BadThen /\ Thenable # TypeErr /\ BadThen # TypeErr
<1>1. ASSUME NEW a, NEW b, NEW c PROVE Cardinality({a, b, c}) <= 3
    <2>1. IsFiniteSet({a}) /\ Cardinality({a}) <= 1
        <3>1. IsFiniteSet({a}) /\ Cardinality({a}) = 1
            BY FS_Singleton, Zenon
        <3> QED BY ONLY <3>1
    <2>2. IsFiniteSet({a} \cup {b}) /\ Cardinality({a} \cup {b}) <= 1 + 1
        BY <2>1, AddBound
    <2>3. Cardinality({a} \cup {b} \cup {c}) <= 2 + 1
        <3> DEFINE A == {a} \cup {b}
        <3>1. IsFiniteSet(A) /\ Cardinality(A) <= 2
            BY <2>2
        <3> HIDE DEF A
        <3>2. Cardinality(A \cup {c}) <= 2 + 1
            BY <3>1, AddBound
        <3> QED BY <3>2 DEF A
    <2>4. {a} \cup {b} \cup {c} = {a, b, c}
        OBVIOUS
    <2> QED BY <2>3, <2>4
<1> DEFINE V == {Plain, Thenable, BadThen, TypeErr}
<1>2. Cardinality(V) = 4
    BY ValuesAssumption
<1>3. \A a, b, c : V # {a, b, c}
    <2> HIDE DEF V
    <2> SUFFICES ASSUME NEW a, NEW b, NEW c, V = {a, b, c} PROVE FALSE
        OBVIOUS
    <2>1. Cardinality({a, b, c}) = 4
        BY <1>2
    <2>2. Cardinality({a, b, c}) <= 3
        BY <1>1
    <2> QED BY <2>1, <2>2
<1>4. /\ Plain = Thenable => V = {Thenable, BadThen, TypeErr}
      /\ Plain = BadThen => V = {Thenable, BadThen, TypeErr}
      /\ Plain = TypeErr => V = {Thenable, BadThen, TypeErr}
      /\ Thenable = BadThen => V = {Plain, BadThen, TypeErr}
      /\ Thenable = TypeErr => V = {Plain, BadThen, TypeErr}
      /\ BadThen = TypeErr => V = {Plain, Thenable, TypeErr}
    OBVIOUS
<1> HIDE DEF V
<1> QED BY <1>3, <1>4

(* What is settled stays as it is, so jobs still carry its settlement. *)
LEMMA SourcedMono ==
    ASSUME NEW st, NEW st2, NEW rs, NEW Q, NEW F, Sourced(st, rs, Q, F),
           \A q \in Promise : st[q].st # "pending" => st2[q] = st[q]
    PROVE  Sourced(st2, rs, Q, F)
<1>1. \A j : Sure(st, j) => Sure(st2, j)
    BY DEF Sure
<1> QED BY <1>1 DEF Sourced

(* A reaction pushed on the promise it hangs on; a job that joins the queue. *)
LEMMA SourcedPush ==
    ASSUME NEW st, NEW rs, NEW rs2, NEW Q, NEW F, Sourced(st, rs, Q, F),
           NEW x, NEW r, r.on = x, ~Errand(r),
           \A y \in Promise : Range(rs2[y]) \subseteq Range(rs[y]) \cup (IF y = x THEN {r} ELSE {})
    PROVE  Sourced(st, rs2, Q, F)
<1>1. ASSUME NEW y \in Promise, NEW z \in Range(rs2[y]) PROVE z.on = y /\ ~Errand(z)
    <2>1. z \in Range(rs[y]) \/ (y = x /\ z = r)
        OBVIOUS
    <2> QED BY <2>1 DEF Sourced
<1> QED BY <1>1 DEF Sourced

LEMMA SourcedJob ==
    ASSUME NEW st, NEW rs, NEW Q, NEW Q2, NEW F, Sourced(st, rs, Q, F),
           NEW j, j.r.kind # "forward", Errand(j.r) \/ Sure(st, j),
           Range(Q2) \subseteq Range(Q) \cup {j}
    PROVE  Sourced(st, rs, Q2, F)
BY DEF Sourced

(* What waits in more reactions, jobs and firing jobs. *)
LEMMA ReactsMono ==
    ASSUME NEW rs, NEW rs2, NEW Q, NEW Q2, NEW F, NEW F2,
           \A y \in Promise : Range(rs[y]) \subseteq Range(rs2[y]),
           Range(Q) \subseteq Range(Q2), Range(F) \subseteq Range(F2)
    PROVE  Reacts(rs, Q, F) \subseteq Reacts(rs2, Q2, F2)
<1> SUFFICES ASSUME NEW r \in Reacts(rs, Q, F) PROVE r \in Reacts(rs2, Q2, F2)
    OBVIOUS
<1>1. CASE \E y \in Promise : r \in Range(rs[y])
    BY <1>1, ReactsMembers
<1>2. CASE \E j \in Range(Q) : r = j.r
    BY <1>2, ReactsMembers
<1>3. CASE \E j \in Range(F) : r = j.r
    BY <1>3, ReactsMembers
<1> QED BY <1>1, <1>2, <1>3, ReactsMembers

(* fulfill_promise and reject_promise lose no reaction and give each job   *)
(* the settlement.                                                         *)
LEMMA SettleMoves ==
    ASSUME IInv, NEW p \in Promise, NEW s, Final(s), NEW rest \in Seq(Job), NEW q,
           Sourced(state, reactions, q, rest), Settle(p, s, rest), queue' = q
    PROVE  /\ SrcInv'
           /\ Reacts(reactions, q, rest) \subseteq Reacting'
           /\ \A y \in Promise : state'[y] = IF y = p /\ IsPending(p) THEN s ELSE state[y]
<1>0. /\ reactions \in [Promise -> Seq(Reaction)] /\ state \in [Promise -> CleanState]
      /\ s \in State /\ s.st # "pending"
      /\ Reacting' = Reacts(reactions', queue', firing')
    BY LineTypes DEF Final, CleanState, Reacting, Reacts
<1>1. CASE ~IsPending(p)
    <2>1. firing' = rest /\ UNCHANGED <<state, reactions>>
        BY <1>1 DEF Settle
    <2> QED BY <2>1, <1>0, <1>1 DEF SrcInv
<1>2. CASE IsPending(p)
    <2> DEFINE T == Triggered(reactions[p], s)
    <2>1. /\ state' = [state EXCEPT ![p] = s]
          /\ reactions' = [reactions EXCEPT ![p] = <<>>]
          /\ firing' = T \o rest
        BY <1>2 DEF Settle, Triggered
    <2>2. T \in Seq(Job) /\ Range(T) = {JobOf(r, s) : r \in Range(reactions[p])}
        <3>1. reactions[p] \in Seq(Reaction)
            BY <1>0
        <3>2. \A i \in 1 .. Len(reactions[p]) : JobOf(reactions[p][i], s) \in Job
            BY <1>0, <3>1 DEF JobOf, Job
        <3>3. T = [i \in 1 .. Len(reactions[p]) |-> JobOf(reactions[p][i], s)]
            BY <3>1 DEF Triggered
        <3> QED BY <3>2, <3>3, SeqDef, RangeTriggered
    <2> HIDE DEF T
    <2>3. Range(firing') = {JobOf(r, s) : r \in Range(reactions[p])} \cup Range(rest)
        BY <2>1, <2>2, RangeConcat
    <2>4. \A y \in Promise : /\ reactions'[y] = IF y = p THEN <<>> ELSE reactions[y]
                             /\ state'[y] = IF y = p THEN s ELSE state[y]
        BY <2>1, <1>0
    <2>5. Range(<<>>) = {}
        BY RangeShort
    <2>6. Sourced(state', reactions, q, rest)
        <3>1. \A y \in Promise : state[y].st # "pending" => state'[y] = state[y]
            BY <2>4, <1>2 DEF IsPending
        <3> QED BY <3>1, SourcedMono
    <2>7. \A r \in Range(reactions[p]) : ~Errand(JobOf(r, s).r) /\ Sure(state', JobOf(r, s))
        BY <2>4, <1>0 DEF Sourced, Sure, JobOf
    <2>8. SrcInv'
        <3>1. Sourced(state', reactions', queue', firing')
            BY <2>3, <2>4, <2>5, <2>6, <2>7 DEF Sourced
        <3> QED BY <3>1 DEF SrcInv
    <2>9. Reacts(reactions, q, rest) \subseteq Reacting'
        <3> SUFFICES ASSUME NEW r \in Reacts(reactions, q, rest)
                     PROVE  r \in Reacts(reactions', queue', firing')
            BY <1>0
        <3>1. CASE r \in Range(reactions[p])
            <4>1. JobOf(r, s) \in Range(firing') /\ JobOf(r, s).r = r
                BY <3>1, <2>3 DEF JobOf
            <4> QED BY <4>1, ReactsMembers
        <3>2. ASSUME NEW y \in Promise, y # p, r \in Range(reactions[y])
              PROVE  r \in Reacts(reactions', queue', firing')
            <4>1. r \in Range(reactions'[y])
                BY <2>4, <3>2
            <4> QED BY <4>1, ReactsMembers
        <3>3. CASE \E j \in Range(q) : r = j.r
            BY <3>3, ReactsMembers
        <3>4. CASE \E j \in Range(rest) : r = j.r
            BY <3>4, <2>3, ReactsMembers
        <3> QED BY <3>1, <3>2, <3>3, <3>4, ReactsMembers
    <2> QED BY <2>4, <2>8, <2>9, <1>2
<1> QED BY <1>1, <1>2

(* The fates as they can be read off the state. *)
Readable ==
    \A p \in Promise :
        /\ p > alloc => Fate(p) = Promised!Unmade
        /\ ~IsPending(p) => p <= alloc /\ Fate(p) = state[p]
        /\ p <= alloc /\ IsPending(p) => \A x : Claim(p, x) <=> x = Fate(p)

LEMMA FateRead == IInv /\ OwnInv => Readable
<1> SUFFICES ASSUME IInv, OwnInv, NEW p \in Promise
             PROVE  /\ p > alloc => Fate(p) = Promised!Unmade
                    /\ ~IsPending(p) => p <= alloc /\ Fate(p) = state[p]
                    /\ p <= alloc /\ IsPending(p) => \A x : Claim(p, x) <=> x = Fate(p)
    BY DEF Readable
<1>1. alloc \in Nat /\ p \in Nat /\ Store(alloc)
    BY BoundsAssumption DEF IInv, Promise
<1>2. p > alloc => Fate(p) = Promised!Unmade
    BY <1>1 DEF Fate, Promised!Unmade
<1>3. ~IsPending(p) => p <= alloc
    BY <1>1 DEF Store
<1>4. ~IsPending(p) => Fate(p) = state[p]
    BY <1>1, <1>3 DEF Fate
<1> QED BY <1>2, <1>3, <1>4, OneClaim

(* PromiseSpec's view of the promises. *)
Fates == [p \in Promise |-> Fate(p)]

Done(x) == x.st \in {"fulfilled", "rejected"}

(* What the fates of a readable state look like. *)
LEMMA FateShape ==
    ASSUME IInv, OwnInv, NEW p \in Promise
    PROVE  /\ Done(Fate(p)) <=> ~IsPending(p)
           /\ Fate(p) = Promised!Unmade <=> p > alloc
           /\ p <= alloc /\ IsPending(p) => Fate(p).st \in {"open", "assimilates", "finishes", "waits"}
<1>1. alloc \in Nat /\ p \in Nat /\ state[p] \in CleanState /\ Readable
    BY BoundsAssumption, FateRead, LineTypes DEF Promise
<1>2. ~IsPending(p) => Done(Fate(p))
    BY <1>1 DEF Readable, Done, IsPending, CleanState, State
<1>3. p > alloc => Fate(p) = Promised!Unmade
    BY <1>1 DEF Readable
<1>4. p <= alloc /\ IsPending(p) => Fate(p).st \in {"open", "assimilates", "finishes", "waits"}
    <2>1. \A x : Claim(p, x) => x.st \in {"open", "assimilates", "finishes", "waits"}
        BY DEF Claim, FateOf, Promised!Finishes, Promised!Open
    <2> QED BY <1>1, <2>1 DEF Readable
<1>5. ~IsPending(p) => p <= alloc
    BY <1>1 DEF Readable
<1>6. \A x : x = Promised!Unmade => x.st = "unmade"
    BY DEF Promised!Unmade
<1> QED BY <1>1, <1>2, <1>3, <1>4, <1>5, <1>6 DEF Done

(* What PromiseSpec makes of a resolution. *)
LEMMA ResolutionRead ==
    ASSUME IInv, OwnInv, NEW p \in Promise, NEW v \in Value
    PROVE  /\ v = p => Promised!Resolution(p, v) = Rejected(TypeErr)
           /\ v \in Promise \ {p} /\ IsPending(v) =>
                 Promised!Resolution(p, v) = FateOf(Bare("forward", p, v))
           /\ v \in Promise \ {p} /\ ~IsPending(v) => Promised!Resolution(p, v) = state[v]
           /\ v = Thenable => Promised!Resolution(p, v) = FateOf(Bare("thenable", p, 0))
           /\ v = BadThen => Promised!Resolution(p, v) = Rejected(Plain)
           /\ v \in {Plain, TypeErr} => Promised!Resolution(p, v) = Fulfilled(v)
<1>1. /\ Plain \notin Promise /\ Thenable \notin Promise
      /\ BadThen \notin Promise /\ TypeErr \notin Promise
    BY ValuesAssumption
<1>2. v \in Promise => /\ Promised!IsSettled(v) <=> ~IsPending(v)
                       /\ ~IsPending(v) => Fates[v] = state[v]
    BY FateShape, FateRead DEF Promised!IsSettled, Done, Readable, Fates
<1>3. CASE v = p
    BY <1>1, <1>3 DEF Promised!Resolution, Promised!Rejected, Rejected
<1>4. CASE v \in Promise \ {p}
    <2>1. Promised!Resolution(p, v) = IF Promised!IsSettled(v) THEN Fates[v]
                                      ELSE Promised!WaitsFor("forward", v)
        BY <1>1, <1>4 DEF Promised!Resolution, Fates
    <2>2. Promised!WaitsFor("forward", v) = FateOf(Bare("forward", p, v))
        BY DEF Promised!WaitsFor, Promised!Waits, Promised!Pending, FateOf, Bare, Pending
    <2> QED BY <1>1, <1>2, <1>4, <2>1, <2>2
<1>5. CASE v = Thenable
    BY <1>1, <1>5, Distinct DEF Promised!Resolution, Promised!Assimilates, FateOf, Bare
<1>6. CASE v = BadThen
    BY <1>1, <1>6, Distinct DEF Promised!Resolution, Promised!Rejected, Rejected
<1>7. CASE v \in {Plain, TypeErr}
    BY <1>1, <1>7, Distinct DEF Promised!Resolution, Promised!Fulfilled, Fulfilled
<1> QED BY <1>1, <1>3, <1>4, <1>5, <1>6, <1>7, Distinct DEF Value

(* p is given the fate x, unless it is settled. *)
Given(p, x) ==
    /\ \A y \in Promise : state'[y] = IF y = p /\ IsPending(p) /\ Done(x) THEN x ELSE state[y]
    /\ ~Done(x) => \E r \in Reacting' : r.promise = p /\ FateOf(r) = x

(* resolve_value gives the promise the resolution and loses no reaction. *)
LEMMA ResolveMoves ==
    ASSUME IInv, OwnInv, NEW p \in Promise, NEW x \in Value,
           NEW rest \in Seq(Job), NEW q \in Seq(Job),
           Sourced(state, reactions, q, rest), ResolveValue(p, x, rest, q)
    PROVE  /\ SrcInv'
           /\ Reacts(reactions, q, rest) \subseteq Reacting'
           /\ Given(p, Promised!Resolution(p, x))
<1>0. /\ reactions \in [Promise -> Seq(Reaction)] /\ state \in [Promise -> CleanState]
      /\ Reacting' = Reacts(reactions', queue', firing')
    BY LineTypes DEF Reacting, Reacts
<1> DEFINE res == Promised!Resolution(p, x)
<1>1. ASSUME NEW s, Final(s), Settle(p, s, rest), queue' = q, res = s
      PROVE  SrcInv' /\ Reacts(reactions, q, rest) \subseteq Reacting' /\ Given(p, res)
    <2>1. Done(s)
        BY <1>1 DEF Final, CleanState, State, Done
    <2>2. /\ SrcInv' /\ Reacts(reactions, q, rest) \subseteq Reacting'
          /\ \A y \in Promise : state'[y] = IF y = p /\ IsPending(p) THEN s ELSE state[y]
        BY <1>1, SettleMoves
    <2> HIDE DEF res
    <2> QED BY <1>1, <2>1, <2>2 DEF Given
<1>2. CASE x = p
    <2>1. Final(Rejected(TypeErr))
        BY DEF Final, Rejected, CleanState, State, Value
    <2>2. Settle(p, Rejected(TypeErr), rest) /\ queue' = q
        BY <1>2, ValuesAssumption DEF ResolveValue
    <2> QED BY <1>1, <1>2, <2>1, <2>2, ResolutionRead
<1>3. CASE x \in Promise \ {p} /\ IsPending(x)
    <2> DEFINE r == Bare("forward", p, x)
    <2>1. /\ reactions' = [reactions EXCEPT ![x] = Append(@, r)]
          /\ firing' = rest /\ queue' = q /\ UNCHANGED state
        BY <1>3, ValuesAssumption DEF ResolveValue
    <2>2. r.on = x /\ ~Errand(r) /\ r.promise = p /\ FateOf(r) = res /\ ~Done(res)
        <3>1. r.on = x /\ ~Errand(r) /\ r.promise = p
            BY DEF Bare, Errand
        <3>2. FateOf(r) = res
            BY <1>3, ResolutionRead
        <3>3. ~Done(FateOf(r))
            BY DEF FateOf, Done
        <3> QED BY <3>1, <3>2, <3>3
    <2> HIDE DEF r, res
    <2>3. \A y \in Promise :
              Range(reactions'[y]) = Range(reactions[y]) \cup (IF y = x THEN {r} ELSE {})
        <3>1. \A y \in Promise : reactions'[y] = IF y = x THEN Append(reactions[x], r) ELSE reactions[y]
            BY <2>1, <1>0, <1>3
        <3>2. reactions[x] \in Seq(Reaction)
            BY <1>0, <1>3
        <3>3. Range(Append(reactions[x], r)) = Range(reactions[x]) \cup {r}
            BY <3>2, RangeAppend
        <3> QED BY <3>1, <3>3
    <2>4. SrcInv'
        <3>1. Sourced(state, reactions', q, rest)
            BY <2>2, <2>3, SourcedPush
        <3> QED BY <2>1, <3>1 DEF SrcInv
    <2>5. Reacts(reactions, q, rest) \subseteq Reacting'
        <3>1. \A y \in Promise : Range(reactions[y]) \subseteq Range(reactions'[y])
            BY <2>3
        <3>2. Reacts(reactions, q, rest) \subseteq Reacts(reactions', q, rest)
            BY <3>1, ReactsMono
        <3> QED BY <1>0, <2>1, <3>2
    <2>6. r \in Reacting'
        <3>1. r \in Range(reactions'[x])
            BY <1>3, <2>3
        <3> QED BY <1>0, <1>3, <3>1, ReactsMembers
    <2>7. Given(p, res)
        BY <2>1, <2>2, <2>6 DEF Given
    <2> QED BY <2>4, <2>5, <2>7 DEF res
<1>4. CASE x \in Promise \ {p} /\ ~IsPending(x)
    <2>1. Final(state[x])
        BY <1>0, <1>4 DEF Final, IsPending
    <2>2. Settle(p, state[x], rest) /\ queue' = q
        BY <1>4, ValuesAssumption DEF ResolveValue
    <2> QED BY <1>1, <1>4, <2>1, <2>2, ResolutionRead
<1>5. CASE x = Thenable
    <2>1. /\ queue' = Append(q, ThenableJob(p)) /\ firing' = rest
          /\ UNCHANGED <<state, reactions>>
        BY <1>5, ValuesAssumption, Distinct DEF ResolveValue
    <2> DEFINE j == ThenableJob(p)
    <2>2. /\ Errand(j.r) /\ j.r.kind # "forward" /\ j.r.promise = p /\ FateOf(j.r) = res
          /\ ~Done(res)
        <3>1. j.r = Bare("thenable", p, 0)
            BY DEF ThenableJob, JobOf
        <3>2. FateOf(j.r) = res
            BY <1>5, <3>1, ResolutionRead
        <3>3. ~Done(FateOf(j.r))
            BY DEF FateOf, Done
        <3>4. Errand(j.r) /\ j.r.kind # "forward" /\ j.r.promise = p
            BY <3>1 DEF Bare, Errand
        <3> QED BY <3>2, <3>3, <3>4
    <2> HIDE DEF j, res
    <2>3. Range(queue') = Range(q) \cup {j}
        BY <2>1, RangeAppend DEF j
    <2>4. SrcInv'
        <3>1. Sourced(state, reactions, queue', rest)
            BY <2>2, <2>3, SourcedJob
        <3> QED BY <2>1, <3>1 DEF SrcInv
    <2>5. Reacts(reactions, q, rest) \subseteq Reacting' /\ j.r \in Reacting'
        <3>1. Reacting' = Reacts(reactions, queue', rest)
            BY <1>0, <2>1
        <3>2. Reacts(reactions, q, rest) \subseteq Reacts(reactions, queue', rest)
            BY <2>3, ReactsMono
        <3>3. j.r \in Reacts(reactions, queue', rest)
            BY <2>3, ReactsMembers
        <3> QED BY <3>1, <3>2, <3>3
    <2>6. Given(p, res)
        BY <2>1, <2>2, <2>5 DEF Given
    <2> QED BY <2>4, <2>5, <2>6 DEF res
<1>6. CASE x = BadThen
    <2>1. Final(Rejected(Plain))
        BY DEF Final, Rejected, CleanState, State, Value
    <2>2. Settle(p, Rejected(Plain), rest) /\ queue' = q
        BY <1>6, ValuesAssumption, Distinct DEF ResolveValue
    <2> QED BY <1>1, <1>6, <2>1, <2>2, ResolutionRead
<1>7. CASE x \in {Plain, TypeErr}
    <2>1. Final(Fulfilled(x))
        BY <1>7 DEF Final, Fulfilled, CleanState, State, Value
    <2>2. Settle(p, Fulfilled(x), rest) /\ queue' = q
        BY <1>7, ValuesAssumption, Distinct DEF ResolveValue
    <2> QED BY <1>1, <1>7, <2>1, <2>2, ResolutionRead
<1> QED BY <1>2, <1>3, <1>4, <1>5, <1>6, <1>7 DEF Value

-----------------------------------------------------------------------------
(* Which fates a step leaves alone                                          *)

(* Nothing that claims a promise outside P goes. *)
KeepsWaiting(P) == \A r \in Reacting : r.promise \notin P => r \in Reacting'
KeepsRunning(P) ==
    \A f \in Range(frames) : f.k \in Resolving /\ f.cap \notin P => f \in Range(frames)'
KeepsPairs(P) == \A c \in Range(pairs) : ~c.used /\ c.cap \notin P => c \in Range(pairs)'
(* Only promises in P are allocated. *)
Allocates(P) == alloc' \in Nat /\ alloc <= alloc' /\ \A y \in Promise : y <= alloc' => y <= alloc \/ y \in P

Aside(P) == KeepsRunning(P) /\ KeepsPairs(P) /\ Allocates(P)

LEMMA FateElsewhere ==
    ASSUME IInv, OwnInv, IInv', OwnInv', lost' = lost, NEW P, KeepsWaiting(P), Aside(P), NEW y \in Promise,
           y \notin P, state'[y] = state[y]
    PROVE  Fate(y)' = Fate(y)
<1>1. Readable /\ Readable'
    <2>1. Readable
        BY FateRead
    <2>2. IInv' /\ OwnInv' => Readable'
        BY FateRead, PTL
    <2> QED BY <2>1, <2>2
<1>2. /\ alloc \in Nat /\ alloc' \in Nat /\ y \in Nat /\ alloc <= alloc'
      /\ y <= alloc' <=> y <= alloc
    BY BoundsAssumption DEF IInv, Promise, Aside, Allocates
<1>3. IsPending(y)' <=> IsPending(y)
    BY DEF IsPending
<1>4. CASE y > alloc
    BY <1>1, <1>2, <1>4 DEF Readable
<1>5. CASE y <= alloc /\ ~IsPending(y)
    BY <1>1, <1>3, <1>5 DEF Readable
<1>6. CASE y <= alloc /\ IsPending(y)
    <2>1. PICK z : z = Fate(y)
        OBVIOUS
    <2>2. ASSUME NEW x, Claim(y, x) PROVE Claim(y, x)'
        <3>1. CASE \E r \in Reacting : r.promise = y /\ x = FateOf(r)
            <4>1. PICK r \in Reacting : r.promise = y /\ x = FateOf(r)
                BY <3>1
            <4>2. r \in Reacting' /\ x = FateOf(r)
                BY <4>1 DEF KeepsWaiting
            <4> QED BY <4>1, <4>2 DEF Claim
        <3>2. CASE \E f \in Range(frames) :
                      f.k = "finally" /\ f.cap = y /\ x = Promised!Finishes(f.orig)
            <4>1. PICK f \in Range(frames) :
                      f.k = "finally" /\ f.cap = y /\ x = Promised!Finishes(f.orig)
                BY <3>2
            <4>2. f \in Range(frames)'
                BY <4>1 DEF Aside, KeepsRunning, Resolving
            <4> QED BY <4>1, <4>2 DEF Claim, Promised!Finishes
        <3>3. CASE \E f \in Range(frames) :
                      f.k \in {"handler", "async", "resume"} /\ f.cap = y /\ x = Promised!Open
            <4>1. PICK f \in Range(frames) :
                      f.k \in {"handler", "async", "resume"} /\ f.cap = y /\ x = Promised!Open
                BY <3>3
            <4>2. f \in Range(frames)'
                BY <4>1 DEF Aside, KeepsRunning, Resolving
            <4> QED BY <4>1, <4>2 DEF Claim, Promised!Open
        <3>4. CASE \E c \in Range(pairs) : ~c.used /\ c.cap = y /\ x = Promised!Open
            <4>1. PICK c \in Range(pairs) : ~c.used /\ c.cap = y /\ x = Promised!Open
                BY <3>4
            <4>2. c \in Range(pairs)'
                BY <4>1 DEF Aside, KeepsPairs
            <4> QED BY <4>1, <4>2 DEF Claim, Promised!Open
        <3>5. CASE \E j \in Range(lost) : j.r.promise = y /\ x = FateOf(j.r)
            <4>1. Range(lost)' = Range(lost)
                BY DEF Range
            <4> QED BY <3>5, <4>1 DEF Claim
        <3> QED BY <2>2, <3>1, <3>2, <3>3, <3>4, <3>5 DEF Claim
    <2>3. Claim(y, z)
        BY <1>1, <1>6, <2>1 DEF Readable
    <2>4. Claim(y, z)'
        BY <2>2, <2>3
    <2>5. Fate(y)' = z
        BY <1>1, <1>2, <1>3, <1>6, <2>4 DEF Readable
    <2> QED BY <2>1, <2>5
<1> QED BY <1>2, <1>4, <1>5, <1>6

(* The new fate of the promise a step is about *)
LEMMA FateHere ==
    ASSUME IInv, OwnInv, IInv', OwnInv', lost' = lost, NEW p \in Promise, p <= alloc', NEW x,
           (~IsPending(p)' /\ state'[p] = x) \/ (IsPending(p)' /\ Claim(p, x)')
    PROVE  Fate(p)' = x
<1>1. Readable'
    BY FateRead, PTL
<1> QED BY <1>1 DEF Readable

(* A step about one promise *)
LEMMA OneFate ==
    ASSUME IInv, OwnInv, IInv', OwnInv', lost' = lost, NEW p \in Promise, p <= alloc',
           KeepsWaiting({p}), Aside({p}), \A y \in Promise \ {p} : state'[y] = state[y], NEW x,
           (~IsPending(p)' /\ state'[p] = x) \/ (IsPending(p)' /\ Claim(p, x)')
    PROVE  Fates' = [Fates EXCEPT ![p] = x]
<1>1. \A y \in Promise \ {p} : Fate(y)' = Fate(y)
    BY FateElsewhere
<1>2. Fate(p)' = x
    BY FateHere
<1> QED BY <1>1, <1>2 DEF Fates

(* A step about none, or about a promise that is settled *)
LEMMA SameFates ==
    ASSUME IInv, OwnInv, IInv', OwnInv', lost' = lost, NEW P, KeepsWaiting(P), Aside(P),
           \A y \in Promise : state'[y] = state[y],
           \A y \in P : y \in Promise => ~IsPending(y)
    PROVE  Fates' = Fates
<1>1. Readable /\ Readable'
    <2>1. Readable
        BY FateRead
    <2>2. IInv' /\ OwnInv' => Readable'
        BY FateRead, PTL
    <2> QED BY <2>1, <2>2
<1>2. ASSUME NEW y \in Promise PROVE Fate(y)' = Fate(y)
    <2>1. CASE y \notin P
        BY <2>1, FateElsewhere
    <2>2. CASE y \in P
        <3>1. ~IsPending(y) /\ ~IsPending(y)'
            BY <2>2 DEF IsPending
        <3> QED BY <1>1, <3>1 DEF Readable
    <2> QED BY <2>1, <2>2
<1> QED BY <1>2 DEF Fates

(* All that waits, but for what settles p, is in the reactions, q and rest. *)
Besides(p, q, rest) == \A r \in Reacting : r.promise # p => r \in Reacts(reactions, q, rest)

(* A step that gives a promise a fate, unless it is settled *)
LEMMA GivenFates ==
    ASSUME IInv, OwnInv, IInv', OwnInv', lost' = lost, NEW p \in Promise, p <= alloc', Aside({p}),
           NEW q, NEW rest, Besides(p, q, rest), Reacts(reactions, q, rest) \subseteq Reacting',
           NEW x, Given(p, x)
    PROVE  Fates' = IF IsPending(p) THEN [Fates EXCEPT ![p] = x] ELSE Fates
<1>1. KeepsWaiting({p})
    BY DEF KeepsWaiting, Besides
<1>2. CASE IsPending(p)
    <2>1. \A y \in Promise \ {p} : state'[y] = state[y]
        BY DEF Given
    <2>2. (~IsPending(p)' /\ state'[p] = x) \/ (IsPending(p)' /\ Claim(p, x)')
        <3>1. CASE Done(x)
            BY <1>2, <3>1 DEF Given, Done, IsPending
        <3>2. CASE ~Done(x)
            <4>1. PICK r \in Reacting' : r.promise = p /\ FateOf(r) = x
                BY <3>2 DEF Given
            <4>2. Claim(p, x)'
                BY <4>1 DEF Claim
            <4> QED BY <1>2, <3>2, <4>2 DEF Given, IsPending
        <3> QED BY <3>1, <3>2
    <2>3. Fates' = [Fates EXCEPT ![p] = x]
        BY <1>1, <2>1, <2>2, OneFate
    <2> QED BY <1>2, <2>3
<1>3. CASE ~IsPending(p)
    <2>1. \A y \in Promise : state'[y] = state[y]
        BY <1>3 DEF Given
    <2>2. Fates' = Fates
        BY <1>1, <1>3, <2>1, SameFates
    <2> QED BY <1>3, <2>2
<1> QED BY <1>2, <1>3

(* resolve_value *)
LEMMA ResolveFates ==
    ASSUME IInv, OwnInv, IInv', OwnInv', lost' = lost, NEW p \in Promise, p <= alloc', Aside({p}),
           NEW x \in Value, NEW q \in Seq(Job), NEW rest \in Seq(Job), Besides(p, q, rest),
           Sourced(state, reactions, q, rest), ResolveValue(p, x, rest, q)
    PROVE  /\ SrcInv'
           /\ Fates' = IF IsPending(p) THEN [Fates EXCEPT ![p] = Promised!Resolution(p, x)]
                       ELSE Fates
BY ResolveMoves, GivenFates

(* fulfill_promise and reject_promise *)
LEMMA SettleFates ==
    ASSUME IInv, OwnInv, IInv', OwnInv', lost' = lost, NEW p \in Promise, p <= alloc', Aside({p}),
           NEW s, Final(s), NEW q \in Seq(Job), NEW rest \in Seq(Job), Besides(p, q, rest),
           Sourced(state, reactions, q, rest), Settle(p, s, rest), queue' = q
    PROVE  /\ SrcInv'
           /\ Fates' = IF IsPending(p) THEN [Fates EXCEPT ![p] = s] ELSE Fates
<1>1. SrcInv' /\ Reacts(reactions, q, rest) \subseteq Reacting' /\ Given(p, s)
    <2>1. Done(s)
        BY DEF Final, CleanState, State, Done
    <2> QED BY <2>1, SettleMoves DEF Given
<1> QED BY <1>1, GivenFates

(* Calls and completions, and whose executors and thens run *)
Interrupts == {"executor", "thenable"}

LEMMA EnterRunning ==
    ASSUME frames \in Seq(Frame), NEW f, frames' = Append(frames, f)
    PROVE  /\ f \in Range(frames)' /\ \A P : KeepsRunning(P)
           /\ Interruptible' = Interruptible \cup (IF f.k \in Interrupts THEN {f.cap} ELSE {})
<1>1. Range(frames)' = Range(frames) \cup {f}
    BY RangeAppend
<1> QED BY <1>1 DEF KeepsRunning, Interruptible, Interrupts

LEMMA LeaveRunning ==
    ASSUME frames \in Seq(Frame), frames # <<>>, frames' = Below
    PROVE  /\ KeepsRunning({Top.cap})
           /\ Top.k \notin Resolving => \A P : KeepsRunning(P)
           /\ Top.k \notin Interrupts => Interruptible' = Interruptible
           /\ Top.k \in Interrupts => Top.cap \in Interruptible
           /\ Interruptible' \in {Interruptible, Interruptible \ {Top.cap}}
           /\ Top \in Range(frames)
<1>1. Range(frames) = Range(frames)' \cup {Top}
    BY RangePop DEF Below, Top
<1>2. \A c : c \in Interruptible <=> c \in Interruptible' \/ (Top.k \in Interrupts /\ c = Top.cap)
    <2>1. \A c : c \in Interruptible <=> \E f \in Range(frames) : f.k \in Interrupts /\ f.cap = c
        BY DEF Interruptible, Interrupts
    <2>2. \A c : c \in Interruptible' <=> \E f \in Range(frames)' : f.k \in Interrupts /\ f.cap = c
        BY DEF Interruptible, Interrupts
    <2> HIDE DEF Top
    <2> QED BY <1>1, <2>1, <2>2
<1>3. KeepsRunning({Top.cap}) /\ (Top.k \notin Resolving => \A P : KeepsRunning(P))
    BY <1>1 DEF KeepsRunning
<1>4. Top.k \notin Interrupts => Interruptible' = Interruptible
    BY <1>2
<1>5. Top.k \in Interrupts => Top.cap \in Interruptible
    BY <1>2
<1>6. Interruptible' = Interruptible \/ Interruptible' = Interruptible \ {Top.cap}
    <2>1. CASE Top.cap \in Interruptible'
        BY <1>2, <2>1
    <2>2. CASE Top.cap \notin Interruptible'
        BY <1>2, <2>2
    <2> QED BY <2>1, <2>2
<1> QED BY <1>1, <1>3, <1>4, <1>5, <1>6

LEMMA SameRunning ==
    ASSUME frames' = frames
    PROVE  Interruptible' = Interruptible /\ \A P : KeepsRunning(P)
BY DEF Interruptible, KeepsRunning

(* Resolver pairs *)
LEMMA PairsKept ==
    ASSUME IInv
    PROVE  /\ pairs' = pairs => \A P : KeepsPairs(P)
           /\ \A c : pairs' = Append(pairs, c) => c \in Range(pairs)' /\ \A P : KeepsPairs(P)
           /\ \A i \in DOMAIN pairs :
                 pairs' = [pairs EXCEPT ![i].used = TRUE] => KeepsPairs({pairs[i].cap})
<1>1. pairs \in Seq([cap : Promise, used : BOOLEAN])
    BY OwnedTypes
<1>2. pairs' = pairs => \A P : KeepsPairs(P)
    BY DEF KeepsPairs
<1>3. ASSUME NEW c, pairs' = Append(pairs, c) PROVE c \in Range(pairs)' /\ \A P : KeepsPairs(P)
    <2>1. Range(pairs)' = Range(pairs) \cup {c}
        BY <1>1, <1>3, RangeAppend
    <2> QED BY <2>1 DEF KeepsPairs
<1>4. ASSUME NEW i \in DOMAIN pairs, pairs' = [pairs EXCEPT ![i].used = TRUE]
      PROVE  KeepsPairs({pairs[i].cap})
    <2>1. DOMAIN pairs' = DOMAIN pairs /\ \A k \in DOMAIN pairs : k # i => pairs'[k] = pairs[k]
        BY <1>4
    <2>2. \A k \in DOMAIN pairs : pairs[k].cap # pairs[i].cap => pairs[k] \in Range(pairs)'
        BY <2>1 DEF Range
    <2> QED BY <2>2 DEF KeepsPairs, Range
<1> QED BY <1>2, <1>3, <1>4

-----------------------------------------------------------------------------
(* The actions of PromiseSpec, as the fates of Promises take them           *)

(* What user code or the engine does, or nothing *)
Obeyed ==
    \/ \E p \in Promise : Promised!User(p) \/ Promised!Engine(p)
    \/ Fates' = Fates /\ Interruptible' = Interruptible

(* Guards of PromiseSpec, as the state of Promises answers them. *)
LEMMA SpecGuards ==
    ASSUME IInv, OwnInv, NEW p \in Promise
    PROVE  /\ Promised!IsMade(p) <=> p <= alloc
           /\ Promised!IsSettled(p) <=> ~IsPending(p)
           /\ Fates[p] = Fate(p)
           /\ ~IsPending(p) => Fate(p) = state[p]
<1>1. alloc \in Nat /\ p \in Nat /\ Readable
    BY BoundsAssumption, FateRead DEF IInv, Promise
<1> QED BY <1>1, FateShape DEF Promised!IsMade, Promised!IsSettled, Fates, Done, Readable

LEMMA AsResolve ==
    ASSUME IInv, OwnInv, NEW p \in Promise, NEW v \in Value, v \in Promise => v <= alloc,
           Fate(p) \in {Promised!Unmade, Promised!Open},
           Fates' = [Fates EXCEPT ![p] = Promised!Resolution(p, v)],
           Interruptible' = Interruptible
    PROVE  Obeyed
<1>1. v \in Promise => Promised!IsMade(v)
    BY SpecGuards
<1>2. Promised!Resolve(p, v)
    BY <1>1 DEF Promised!Resolve, Promised!Becomes, Fates
<1>3. Promised!User(p)
    BY <1>2 DEF Promised!User, Promised!Value, Value
<1> QED BY <1>3 DEF Obeyed

LEMMA AsReject ==
    ASSUME IInv, OwnInv, NEW p \in Promise, NEW e \in Value,
           Fate(p).st \in {"unmade", "open", "finishes"},
           Fates' = [Fates EXCEPT ![p] = Rejected(e)], Interruptible' = Interruptible
    PROVE  Obeyed
<1>1. Promised!Reject(p, e)
    BY DEF Promised!Reject, Promised!Becomes, Promised!Rejected, Rejected, Fates
<1>2. Promised!User(p)
    BY <1>1 DEF Promised!User, Promised!Value, Value
<1> QED BY <1>2 DEF Obeyed

LEMMA AsMake ==
    ASSUME IInv, OwnInv, NEW p \in Promise, Fate(p) = Promised!Unmade,
           Fates' = [Fates EXCEPT ![p] = Promised!Open],
           Interruptible' \in {Interruptible, Interruptible \cup {p}}
    PROVE  Obeyed
<1>1. Promised!Make(p)
    BY DEF Promised!Make, Fates
<1> QED BY <1>1 DEF Promised!User, Obeyed

LEMMA AsReturn ==
    ASSUME NEW p \in Promise, Fates' = Fates,
           Interruptible' \in {Interruptible, Interruptible \ {p}}
    PROVE  Obeyed
<1>1. CASE Interruptible' = Interruptible \ {p}
    <2>1. Promised!Return(p)
        BY <1>1 DEF Promised!Return, Fates
    <2> QED BY <2>1 DEF Promised!User, Obeyed
<1> QED BY <1>1 DEF Obeyed

LEMMA AsOverride ==
    ASSUME IInv, OwnInv, NEW p \in Promise, NEW e \in Value, p <= alloc, IsPending(p),
           p \in Interruptible, Fates' = [Fates EXCEPT ![p] = Rejected(e)],
           Interruptible' \in {Interruptible, Interruptible \ {p}}
    PROVE  Obeyed
<1>1. Promised!IsMade(p) /\ ~Promised!IsSettled(p)
    BY SpecGuards
<1>2. Promised!Override(p, e)
    BY <1>1 DEF Promised!Override, Promised!Rejected, Rejected, Fates
<1>3. Promised!User(p)
    BY <1>2 DEF Promised!User, Promised!Value, Value
<1> QED BY <1>3 DEF Obeyed

LEMMA AsAwait ==
    ASSUME IInv, OwnInv, NEW p \in Promise, NEW q \in Promise, q <= alloc,
           Fate(p) = Promised!Open, Fates' = [Fates EXCEPT ![p] = FateOf(Bare("async", p, q))],
           Interruptible' = Interruptible
    PROVE  Obeyed
<1>1. Promised!IsMade(q)
    BY SpecGuards
<1>2. Promised!WaitsFor("async", q) = FateOf(Bare("async", p, q))
    BY DEF Promised!WaitsFor, Promised!Waits, Promised!Pending, FateOf, Bare, Pending
<1>3. Promised!Await(p, q)
    BY <1>1, <1>2 DEF Promised!Await, Promised!Becomes, Fates
<1> QED BY <1>3 DEF Promised!User, Obeyed

LEMMA AsDerive ==
    ASSUME IInv, OwnInv, NEW p \in Promise, NEW q \in Promise, q <= alloc,
           Fate(p) = Promised!Unmade, NEW r \in Reaction, r.kind \in {"then", "finallyCall"},
           r.on = q, r.orig = Pending,
           Fates' = [Fates EXCEPT ![p] = FateOf(r)], Interruptible' = Interruptible
    PROVE  Obeyed
<1>1. Promised!IsMade(q)
    BY SpecGuards
<1>2. Promised!Waits(r.kind, q, r.onF, r.onR, Promised!Pending) = FateOf(r)
    BY DEF Promised!Waits, Promised!Pending, FateOf, Pending
<1>3. r.onF \in BOOLEAN /\ r.onR \in BOOLEAN
    BY DEF Reaction
<1>4. Promised!Derive(p, q)
    BY <1>1, <1>2, <1>3 DEF Promised!Derive, Promised!Becomes, Fates
<1> QED BY <1>4 DEF Promised!User, Obeyed

LEMMA AsAwaitValue ==
    ASSUME IInv, OwnInv, NEW p \in Promise, NEW m \in Promise \ {p}, NEW v \in Value \ Promise,
           Fate(p) = Promised!Open, Fate(m) = Promised!Unmade,
           Fates' = [Fates EXCEPT ![m] = Promised!Resolution(m, v),
                                  ![p] = FateOf(Bare("async", p, m))],
           Interruptible' = Interruptible
    PROVE  Obeyed
<1>1. Promised!WaitsFor("async", m) = FateOf(Bare("async", p, m))
    BY DEF Promised!WaitsFor, Promised!Waits, Promised!Pending, FateOf, Bare, Pending
<1>2. Promised!Through(p, m, v, Promised!WaitsFor("async", m))
    BY <1>1 DEF Promised!Through, Fates
<1>3. v \in Promised!Value \ Promise
    BY DEF Promised!Value, Value
<1>4. Promised!AwaitValue(p, m)
    BY <1>2, <1>3 DEF Promised!AwaitValue
<1> QED BY <1>4 DEF Promised!User, Obeyed

LEMMA AsReturnFinally ==
    ASSUME IInv, OwnInv, NEW p \in Promise, NEW m \in Promise \ {p}, NEW v \in Value,
           v \in Promise => v <= alloc, NEW s,
           Fate(p) = Promised!Finishes(s), Fate(m) = Promised!Unmade,
           Fates' = [Fates EXCEPT ![m] = Promised!Resolution(m, v),
                       ![p] = FateOf([Bare("finallyPropagate", p, m) EXCEPT !.orig = s])],
           Interruptible' = Interruptible
    PROVE  Obeyed
<1>1. Promised!Waits("finallyPropagate", m, FALSE, FALSE, s)
          = FateOf([Bare("finallyPropagate", p, m) EXCEPT !.orig = s])
    BY DEF Promised!Waits, FateOf, Bare
<1>2. v \in Promise => Promised!IsMade(v)
    BY SpecGuards
<1>3. Fates[p].st = "finishes" /\ Fates[p].orig = s /\ Fates[m] = Promised!Unmade
    BY DEF Promised!Finishes, Fates
<1>4. Promised!Through(p, m, v, Promised!Waits("finallyPropagate", m, FALSE, FALSE, s))
    BY <1>1, <1>2 DEF Promised!Through, Fates
<1>5. v \in Promised!Value
    BY DEF Promised!Value, Value
<1>6. Promised!ReturnFinally(p, m)
    BY <1>3, <1>4, <1>5 DEF Promised!ReturnFinally, Fates
<1> QED BY <1>6 DEF Promised!User, Obeyed

(* A job whose promise waits for the one the job comes from *)
LEMMA DueRead ==
    ASSUME IInv, OwnInv, NEW p \in Promise, NEW r, ~Errand(r), Fate(p) = FateOf(r),
           r.on \in Promise, ~IsPending(r.on)
    PROVE  /\ Promised!Due(p, r.kind)
           /\ Promised!Source(p) = state[r.on]
           /\ Fates[p].onF = r.onF /\ Fates[p].onR = r.onR /\ Fates[p].orig = r.orig
<1>1. Fates[p] = FateOf(r) /\ Fates[r.on] = state[r.on] /\ Promised!IsSettled(r.on)
    BY SpecGuards
<1>2. /\ Fates[p].st = "waits" /\ Fates[p].how = r.kind /\ Fates[p].on = r.on
      /\ Fates[p].onF = r.onF /\ Fates[p].onR = r.onR /\ Fates[p].orig = r.orig
    BY <1>1 DEF FateOf, Errand
<1>3. Promised!Source(p) = Fates[Fates[p].on]
    BY DEF Promised!Source, Fates
<1>4. Promised!Due(p, r.kind)
    BY <1>1, <1>2 DEF Promised!Due, Fates
<1> QED BY <1>1, <1>2, <1>3, <1>4

LEMMA AsCallHandler ==
    ASSUME NEW p \in Promise, Promised!Due(p, "then"), Promised!Handles(p),
           Fates' = [Fates EXCEPT ![p] = Promised!Open], Interruptible' = Interruptible
    PROVE  Obeyed
<1>1. Promised!CallHandler(p)
    BY DEF Promised!CallHandler, Promised!Becomes, Fates
<1> QED BY <1>1 DEF Promised!Engine, Obeyed

LEMMA AsPassOn ==
    ASSUME NEW p \in Promise, Promised!Due(p, "then"), ~Promised!Handles(p),
           Fates' = [Fates EXCEPT ![p] = Promised!Source(p)], Interruptible' = Interruptible
    PROVE  Obeyed
<1>1. Promised!PassOn(p)
    BY DEF Promised!PassOn, Promised!Becomes, Fates
<1> QED BY <1>1 DEF Promised!Engine, Obeyed

LEMMA AsCallFinally ==
    ASSUME NEW p \in Promise, Promised!Due(p, "finallyCall"),
           Fates' = [Fates EXCEPT ![p] = Promised!Finishes(Promised!Source(p))],
           Interruptible' = Interruptible
    PROVE  Obeyed
<1>1. Promised!CallFinally(p)
    BY DEF Promised!CallFinally, Promised!Becomes, Fates
<1> QED BY <1>1 DEF Promised!Engine, Obeyed

LEMMA AsPropagate ==
    ASSUME NEW p \in Promise, Promised!Due(p, "finallyPropagate"), NEW x,
           x = IF Promised!Source(p).st = "rejected" THEN Promised!Source(p) ELSE Fates[p].orig,
           Fates' = [Fates EXCEPT ![p] = x], Interruptible' = Interruptible
    PROVE  Obeyed
<1>1. Promised!Propagate(p)
    BY DEF Promised!Propagate, Promised!Becomes, Fates
<1> QED BY <1>1 DEF Promised!Engine, Obeyed

LEMMA AsResume ==
    ASSUME NEW p \in Promise, Promised!Due(p, "async"),
           Fates' = [Fates EXCEPT ![p] = Promised!Open], Interruptible' = Interruptible
    PROVE  Obeyed
<1>1. Promised!Resume(p)
    BY DEF Promised!Resume, Promised!Becomes, Fates
<1> QED BY <1>1 DEF Promised!Engine, Obeyed

LEMMA AsCallThen ==
    ASSUME IInv, OwnInv, NEW p \in Promise, Interruptible' = Interruptible \cup {p},
           \/ Fate(p) = Promised!Assimilates /\ Fates' = [Fates EXCEPT ![p] = Promised!Open]
           \/ ~IsPending(p) /\ Fates' = Fates
    PROVE  Obeyed
<1>1. Promised!IsSettled(p) <=> ~IsPending(p)
    BY SpecGuards
<1>2. Promised!CallThen(p)
    BY <1>1 DEF Promised!CallThen, Fates
<1> QED BY <1>2 DEF Promised!Engine, Obeyed

-----------------------------------------------------------------------------
(* Each step of Promises is one of PromiseSpec                              *)

LEMMA SameAlloc == ASSUME IInv, alloc' = alloc PROVE \A P : Allocates(P)
BY BoundsAssumption DEF IInv, Allocates

LEMMA FreshAlloc ==
    ASSUME IInv, Allocate
    PROVE  /\ \A P : Fresh \in P => Allocates(P)
           /\ Fresh \in Promise /\ Fresh <= alloc' /\ Fresh > alloc
           /\ IsPending(Fresh) /\ reactions[Fresh] = <<>>
<1>1. Fresh \in Promise /\ IsPending(Fresh) /\ reactions[Fresh] = <<>>
    BY AllocateFacts
<1>2. alloc \in Nat /\ alloc' = alloc + 1 /\ Fresh = alloc + 1
    BY BoundsAssumption DEF IInv, Allocate, Fresh
<1>3. \A y \in Promise : y <= alloc + 1 => y <= alloc \/ y = alloc + 1
    BY <1>2, BoundsAssumption DEF Promise
<1> QED BY <1>1, <1>2, <1>3 DEF Allocates

(* Steps that leave the promises, their reactions and the jobs alone *)
LEMMA SameWaiting ==
    ASSUME SrcInv, UNCHANGED <<state, reactions, queue, firing>>
    PROVE  /\ SrcInv' /\ \A P : KeepsWaiting(P)
           /\ \A y \in Promise : state'[y] = state[y]
BY DEF SrcInv, KeepsWaiting, Reacting

(* Stacks that differ only in programs, drains and microtasks *)
LEMMA StackAlike ==
    ASSUME \A f : f.k \in Resolving \cup Interrupts =>
              (f \in Range(frames) <=> f \in Range(frames)')
    PROVE  Interruptible' = Interruptible /\ \A P : KeepsRunning(P)
<1>1. \A c : c \in Interruptible <=> \E f \in Range(frames) : f.k \in Interrupts /\ f.cap = c
    BY DEF Interruptible, Interrupts
<1>2. \A c : c \in Interruptible' <=> \E f \in Range(frames)' : f.k \in Interrupts /\ f.cap = c
    BY DEF Interruptible, Interrupts
<1>3. Interruptible' = Interruptible
    BY <1>1, <1>2
<1> QED BY <1>3 DEF KeepsRunning

(* Nothing changes for the promises. *)
LEMMA StutterFates ==
    ASSUME IInv, OwnInv, SrcInv, IInv', OwnInv', lost' = lost,
           UNCHANGED <<state, reactions, queue, firing, pairs, alloc>>,
           \A P : KeepsRunning(P)
    PROVE  SrcInv' /\ Fates' = Fates
<1>1. KeepsWaiting({}) /\ SrcInv' /\ \A y \in Promise : state'[y] = state[y]
    BY SameWaiting
<1>2. Aside({})
    BY SameAlloc, PairsKept DEF Aside
<1> QED BY <1>1, <1>2, SameFates

LEMMA VarsFates ==
    ASSUME IInv, OwnInv, SrcInv, IInv', OwnInv', lost' = lost, UNCHANGED vars
    PROVE  SrcInv' /\ Fates' = Fates /\ Interruptible' = Interruptible
<1>1. frames' = frames /\ UNCHANGED <<state, reactions, queue, firing, pairs, alloc>>
    BY DEF vars
<1>2. Interruptible' = Interruptible /\ \A P : KeepsRunning(P)
    BY <1>1, SameRunning
<1> QED BY <1>1, <1>2, StutterFates

(* Programs, and the host *)
LEMMA EvalFates ==
    ASSUME IInv, OwnInv, SrcInv, IInv', OwnInv', lost' = lost,
           StartEval \/ FinishEval \/ EndDrain \/ TakeUnhandled
    PROVE  SrcInv' /\ Obeyed
<1>0. frames \in Seq(Frame) /\ UNCHANGED <<state, reactions, queue, firing, pairs, alloc>>
    BY OwnedTypes DEF StartEval, FinishEval, EndDrain, TakeUnhandled, core
<1> SUFFICES Interruptible' = Interruptible /\ \A P : KeepsRunning(P)
    BY <1>0, StutterFates DEF Obeyed
<1>1. CASE StartEval
    <2>1. Range(frames)' = Range(frames) \cup {FrameOf("eval", 0, Pending)}
        BY <1>0, <1>1, RangeAppend DEF StartEval, Enter
    <2>2. FrameOf("eval", 0, Pending).k \notin Resolving \cup Interrupts
        BY DEF FrameOf, Resolving, Interrupts
    <2> QED BY <2>1, <2>2, StackAlike
<1>2. CASE FinishEval
    <2>1. Range(frames) = Range(Below) \cup {Top} /\ Top.k = "eval" /\ Below \in Seq(Frame)
        BY <1>0, <1>2, RangePop, PopSeq DEF FinishEval, Quiet, Below, Top
    <2>2. Range(Append(Below, FrameOf("drain", 0, Pending)))
              = Range(Below) \cup {FrameOf("drain", 0, Pending)}
        BY <2>1, RangeAppend
    <2>3. Range(frames)' \in {Range(Below), Range(Below) \cup {FrameOf("drain", 0, Pending)}}
        BY <1>2, <2>2 DEF FinishEval, Leave
    <2>4. FrameOf("drain", 0, Pending).k \notin Resolving \cup Interrupts
          /\ Top.k \notin Resolving \cup Interrupts
        BY <2>1 DEF FrameOf, Resolving, Interrupts
    <2> HIDE DEF Top
    <2> QED BY <2>1, <2>3, <2>4, StackAlike
<1>3. CASE EndDrain
    <2>1. Top.k = "drain" /\ frames # <<>> /\ frames' = Below
        BY <1>3 DEF EndDrain, Draining, StopDraining, Quiet, Leave
    <2> QED BY <1>0, <2>1, LeaveRunning DEF Resolving, Interrupts
<1>4. CASE TakeUnhandled
    BY <1>4, SameRunning DEF TakeUnhandled
<1> QED BY <1>1, <1>2, <1>3, <1>4

(* Executors, thens and microtasks return, microtasks throw. *)
LEMMA IgnoredFates ==
    ASSUME IInv, OwnInv, SrcInv, IInv', OwnInv', lost' = lost, ReturnIgnored \/ ThrowMicrotask
    PROVE  SrcInv' /\ Obeyed
<1>0. /\ frames \in Seq(Frame) /\ UNCHANGED <<state, reactions, queue, firing, pairs, alloc>>
      /\ UserTurn /\ frames # <<>> /\ frames' = Below
      /\ Top.k \in {"executor", "thenable", "microtask"}
    BY OwnedTypes DEF ReturnIgnored, ThrowMicrotask, core, UserTurn, Quiet, Leave
<1>1. SrcInv' /\ Fates' = Fates
    <2>1. \A P : KeepsRunning(P)
        BY <1>0, LeaveRunning DEF Resolving
    <2> QED BY <1>0, <2>1, StutterFates
<1>2. CASE Top.k = "microtask"
    <2>1. Interruptible' = Interruptible
        BY <1>0, <1>2, LeaveRunning DEF Interrupts
    <2> QED BY <1>1, <2>1 DEF Obeyed
<1>3. CASE Top.k # "microtask"
    <2>1. Top.cap \in Promise
        BY <1>0, <1>3, TopFacts
    <2>2. Interruptible' \in {Interruptible, Interruptible \ {Top.cap}}
        BY <1>0, LeaveRunning
    <2>3. Obeyed
        BY <1>1, <2>1, <2>2, AsReturn
    <2> QED BY <1>1, <2>3
<1> QED BY <1>2, <1>3

(* new Promise, Promise.withResolvers, and a call of an async function *)
LEMMA MakeFates ==
    ASSUME IInv, OwnInv, SrcInv, IInv', OwnInv', lost' = lost, NewPromise \/ WithResolvers \/ CallAsync
    PROVE  SrcInv' /\ Obeyed
<1>0. /\ Allocate /\ frames \in Seq(Frame) /\ UNCHANGED <<state, reactions, queue, firing>>
    BY OwnedTypes DEF NewPromise, WithResolvers, CallAsync, core
<1>1. PICK p \in Promise : /\ p = Fresh /\ p <= alloc' /\ p > alloc /\ IsPending(p)
                         /\ Allocates({p})
    BY <1>0, FreshAlloc
<1>2. KeepsWaiting({p}) /\ SrcInv' /\ \A y \in Promise : state'[y] = state[y]
    BY <1>0, SameWaiting
<1>3. Fate(p) = Promised!Unmade
    BY <1>1, FateShape
<1>4. ASSUME Claim(p, Promised!Open)', KeepsRunning({p}), KeepsPairs({p}),
             Interruptible' \in {Interruptible, Interruptible \cup {p}}
      PROVE  SrcInv' /\ Obeyed
    <2>1. IsPending(p)'
        BY <1>1, <1>2 DEF IsPending
    <2>2. Fates' = [Fates EXCEPT ![p] = Promised!Open]
        BY <1>1, <1>2, <1>4, <2>1, OneFate DEF Aside
    <2> QED BY <1>2, <1>3, <1>4, <2>2, AsMake
<1> DEFINE c == [cap |-> p, used |-> FALSE]
<1>5. CASE NewPromise \/ WithResolvers
    <2>1. pairs' = Append(pairs, c)
        BY <1>1, <1>5 DEF NewPromise, WithResolvers
    <2>2. c \in Range(pairs)' /\ KeepsPairs({p})
        BY <2>1, PairsKept
    <2>3. Claim(p, Promised!Open)'
        BY <2>2 DEF Claim, Promised!Open
    <2>4. KeepsRunning({p}) /\ Interruptible' \in {Interruptible, Interruptible \cup {p}}
        <3>1. CASE NewPromise
            <4>1. frames' = Append(frames, FrameOf("executor", p, Pending))
                BY <1>1, <3>1 DEF NewPromise, Enter
            <4>2. KeepsRunning({p}) /\ Interruptible' = Interruptible \cup {p}
                BY <1>0, <4>1, EnterRunning DEF FrameOf, Interrupts
            <4> QED BY <4>2
        <3>2. CASE WithResolvers
            BY <3>2, SameRunning DEF WithResolvers
        <3> QED BY <1>5, <3>1, <3>2
    <2> QED BY <1>4, <2>2, <2>3, <2>4
<1>6. CASE CallAsync
    <2> DEFINE f == FrameOf("async", p, Pending)
    <2>1. frames' = Append(frames, f) /\ pairs' = pairs
        BY <1>1, <1>6 DEF CallAsync, Enter
    <2>2. f.k = "async" /\ f.cap = p
        BY DEF FrameOf
    <2> HIDE DEF f
    <2>3. f \in Range(frames)' /\ KeepsRunning({p}) /\ Interruptible' = Interruptible
        BY <1>0, <2>1, <2>2, EnterRunning DEF Interrupts
    <2>4. Claim(p, Promised!Open)'
        BY <2>2, <2>3 DEF Claim, Promised!Open
    <2>5. KeepsPairs({p})
        BY <2>1, PairsKept
    <2> QED BY <1>4, <2>3, <2>4, <2>5
<1> QED BY <1>5, <1>6

(* What waits, when no cascade runs *)
LEMMA WaitingNow ==
    ASSUME IInv, SrcInv, firing = <<>>
    PROVE  /\ Sourced(state, reactions, queue, <<>>) /\ \A p : Besides(p, queue, <<>>)
           /\ queue \in Seq(Job) /\ <<>> \in Seq(Job)
BY LineTypes DEF SrcInv, Besides, Reacting, Reacts

(* A claim that is at hand is the fate. *)
LEMMA ClaimedFate ==
    ASSUME IInv, OwnInv, NEW p \in Promise, p <= alloc, IsPending(p), NEW x, Claim(p, x)
    PROVE  Fate(p) = x
BY FateRead DEF Readable

LEMMA UserResolves ==
    ASSUME IInv, OwnInv, SrcInv, IInv', OwnInv', lost' = lost, firing = <<>>,
           NEW p \in Promise, p <= alloc', Aside({p}),
           IsPending(p) => Fate(p) \in {Promised!Unmade, Promised!Open},
           NEW v \in Value, v \in Promise => v <= alloc,
           ResolveValue(p, v, <<>>, queue), Interruptible' = Interruptible
    PROVE  SrcInv' /\ Obeyed
<1>1. /\ SrcInv'
      /\ Fates' = IF IsPending(p) THEN [Fates EXCEPT ![p] = Promised!Resolution(p, v)] ELSE Fates
    BY WaitingNow, ResolveFates
<1>2. CASE IsPending(p)
    <2>1. Obeyed
        BY <1>1, <1>2, AsResolve
    <2> QED BY <1>1, <2>1
<1>3. CASE ~IsPending(p)
    BY <1>1, <1>3 DEF Obeyed
<1> QED BY <1>2, <1>3

LEMMA RejectFates ==
    ASSUME IInv, OwnInv, SrcInv, IInv', OwnInv', lost' = lost, firing = <<>>,
           NEW p \in Promise, p <= alloc', Aside({p}), NEW e \in Value, Reject(p, e, queue)
    PROVE  /\ SrcInv'
           /\ Fates' = IF IsPending(p) THEN [Fates EXCEPT ![p] = Rejected(e)] ELSE Fates
<1>1. Final(Rejected(e))
    BY DEF Final, Rejected, CleanState, State
<1>2. Settle(p, Rejected(e), <<>>) /\ queue' = queue
    BY DEF Reject
<1> QED BY <1>1, <1>2, WaitingNow, SettleFates

LEMMA UserRejects ==
    ASSUME IInv, OwnInv, SrcInv, IInv', OwnInv', lost' = lost, firing = <<>>,
           NEW p \in Promise, p <= alloc', Aside({p}),
           IsPending(p) => Fate(p).st \in {"unmade", "open", "finishes"},
           NEW e \in Value, Reject(p, e, queue), Interruptible' = Interruptible
    PROVE  SrcInv' /\ Obeyed
<1>1. SrcInv' /\ Fates' = IF IsPending(p) THEN [Fates EXCEPT ![p] = Rejected(e)] ELSE Fates
    BY RejectFates
<1>2. CASE IsPending(p)
    <2>1. Obeyed
        BY <1>1, <1>2, AsReject
    <2> QED BY <1>1, <2>1
<1>3. CASE ~IsPending(p)
    BY <1>1, <1>3 DEF Obeyed
<1> QED BY <1>2, <1>3

(* The values user code has are allocated promises, if they are promises. *)
LEMMA UserValues ==
    ASSUME IInv
    PROVE  /\ Inputs \subseteq Value \ Promise /\ Reasons \subseteq Value
           /\ \A v \in Value : UserValue(v) /\ v \in Promise => v <= alloc
           /\ \A p \in Promise : Exposed(p) => p <= alloc
<1>1. Inputs \subseteq Value \ Promise /\ Reasons \subseteq Value
    BY ValuesAssumption DEF Value
<1> QED BY <1>1 DEF UserValue, UserInput, Exposed

(* A call through a resolver pair *)
LEMMA ResolverFates ==
    ASSUME IInv, OwnInv, SrcInv, IInv', OwnInv', lost' = lost, NEW i \in DOMAIN pairs,
           \/ \E v \in Value : UserValue(v) /\ CallResolve(i, v)
           \/ \E e \in Reasons : CallReject(i, e)
    PROVE  SrcInv' /\ Obeyed
<1>1. /\ firing = <<>> /\ ~pairs[i].used /\ pairs' = [pairs EXCEPT ![i].used = TRUE]
      /\ frames' = frames /\ alloc' = alloc
    BY DEF CallResolve, CallReject, Calls, UserTurn, Quiet
<1>2. PICK p \in Promise : p = pairs[i].cap /\ p <= alloc'
    <2>1. pairs \in Seq(LivePair(alloc))
        BY DEF IInv
    <2>2. pairs[i] \in LivePair(alloc)
        BY <2>1
    <2> QED BY <1>1, <2>2 DEF LivePair
<1>3. Aside({p}) /\ Interruptible' = Interruptible
    <2>1. KeepsPairs({p})
        BY <1>1, <1>2, PairsKept
    <2>2. Interruptible' = Interruptible /\ KeepsRunning({p})
        BY <1>1, SameRunning
    <2>3. Allocates({p})
        BY <1>1, SameAlloc
    <2> QED BY <2>1, <2>2, <2>3 DEF Aside
<1>4. IsPending(p) => Fate(p) = Promised!Open
    <2>1. Claim(p, Promised!Open)
        BY <1>1, <1>2 DEF Claim, Range
    <2> QED BY <1>1, <1>2, <2>1, ClaimedFate
<1>5. ASSUME NEW v \in Value, UserValue(v), CallResolve(i, v) PROVE SrcInv' /\ Obeyed
    <2>1. ResolveValue(p, v, <<>>, queue) /\ (v \in Promise => v <= alloc)
        BY <1>2, <1>5, UserValues DEF CallResolve
    <2> QED BY <1>1, <1>2, <1>3, <1>4, <2>1, UserResolves
<1>6. ASSUME NEW e \in Reasons, CallReject(i, e) PROVE SrcInv' /\ Obeyed
    <2>1. Reject(p, e, queue) /\ e \in Value
        BY <1>2, <1>6, UserValues DEF CallReject
    <2>2. Promised!Open.st = "open"
        BY DEF Promised!Open
    <2> QED BY <1>1, <1>2, <1>3, <1>4, <2>1, <2>2, UserRejects
<1> QED BY <1>5, <1>6

(* The frame that returns or throws, and its promise *)
LEMMA TopFrame ==
    ASSUME IInv, OwnInv, UserTurn, frames' = Below, Top.k \in Resolving \cup Interrupts
    PROVE  \E p \in Promise : /\ p = Top.cap /\ p <= alloc
                              /\ \A P : p \in P => KeepsRunning(P)
                              /\ Interruptible' \in {Interruptible, Interruptible \ {p}}
                              /\ Top.k \in Interrupts => p \in Interruptible
                              /\ Top.k \in Resolving => Interruptible' = Interruptible
                              /\ IsPending(p) /\ Top.k \in Resolving =>
                                    Fate(p) = IF Top.k = "finally" THEN Promised!Finishes(Top.orig)
                                              ELSE Promised!Open
<1>0. frames \in Seq(Frame) /\ frames # <<>>
    BY OwnedTypes DEF UserTurn, Quiet
<1>1. PICK p \in Promise : p = Top.cap /\ p <= alloc
    BY TopFacts DEF Resolving, Interrupts
<1>2. \A P : p \in P => KeepsRunning(P)
    <2>1. KeepsRunning({p})
        BY <1>0, <1>1, LeaveRunning
    <2> QED BY <2>1 DEF KeepsRunning
<1>3. /\ Interruptible' \in {Interruptible, Interruptible \ {p}}
      /\ Top.k \in Interrupts => p \in Interruptible
      /\ Top.k \in Resolving => Interruptible' = Interruptible
      /\ Top \in Range(frames)
    BY <1>0, <1>1, LeaveRunning DEF Resolving, Interrupts
<1>4. Top.k \in Resolving => Claim(p, IF Top.k = "finally" THEN Promised!Finishes(Top.orig)
                                      ELSE Promised!Open)
    <2> HIDE DEF Top
    <2> QED BY <1>1, <1>3 DEF Claim, Resolving
<1>5. IsPending(p) /\ Top.k \in Resolving =>
          Fate(p) = IF Top.k = "finally" THEN Promised!Finishes(Top.orig) ELSE Promised!Open
    BY <1>1, <1>4, ClaimedFate
<1> QED BY <1>1, <1>2, <1>3, <1>5

LEMMA LeavingFrame ==
    ASSUME IInv, OwnInv, UserTurn, frames' = Below, UNCHANGED <<pairs, alloc>>,
           Top.k \in Resolving \cup Interrupts
    PROVE  \E p \in Promise : /\ p = Top.cap /\ p <= alloc /\ Aside({p})
                              /\ Interruptible' \in {Interruptible, Interruptible \ {p}}
                              /\ Top.k \in Interrupts => p \in Interruptible
                              /\ Top.k \in Resolving => Interruptible' = Interruptible
                              /\ IsPending(p) /\ Top.k \in Resolving =>
                                    Fate(p) = IF Top.k = "finally" THEN Promised!Finishes(Top.orig)
                                              ELSE Promised!Open
BY TopFrame, PairsKept, SameAlloc DEF Aside

(* Handlers and async functions return; user code throws. *)
LEMMA ReturnFates ==
    ASSUME IInv, OwnInv, SrcInv, IInv', OwnInv', lost' = lost,
           \/ \E v \in Value : UserValue(v) /\ ReturnValue(v)
           \/ \E e \in Reasons : ThrowRejects(e)
    PROVE  SrcInv' /\ Obeyed
<1>1. /\ UserTurn /\ firing = <<>> /\ frames' = Below /\ UNCHANGED <<pairs, alloc>>
      /\ Top.k \in Resolving \cup Interrupts
    BY DEF ReturnValue, ThrowRejects, UserTurn, Quiet, Leave, Resolving, Interrupts
<1>2. PICK p \in Promise : /\ p = Top.cap /\ p <= alloc /\ Aside({p})
                           /\ Interruptible' \in {Interruptible, Interruptible \ {p}}
                           /\ Top.k \in Interrupts => p \in Interruptible
                           /\ Top.k \in Resolving => Interruptible' = Interruptible
                           /\ IsPending(p) /\ Top.k \in Resolving =>
                                 Fate(p) = IF Top.k = "finally" THEN Promised!Finishes(Top.orig)
                                           ELSE Promised!Open
    BY <1>1, LeavingFrame
<1>3. p <= alloc'
    BY <1>1, <1>2
<1>4. ASSUME NEW v \in Value, UserValue(v), ReturnValue(v) PROVE SrcInv' /\ Obeyed
    <2>1. /\ ResolveValue(p, v, <<>>, queue) /\ (v \in Promise => v <= alloc)
          /\ Top.k \in Resolving /\ Top.k # "finally"
        BY <1>2, <1>4, UserValues DEF ReturnValue, Resolving
    <2> QED BY <1>1, <1>2, <1>3, <2>1, UserResolves
<1>5. ASSUME NEW e \in Reasons, ThrowRejects(e) PROVE SrcInv' /\ Obeyed
    <2>1. Reject(p, e, queue) /\ e \in Value
        BY <1>2, <1>5, UserValues DEF ThrowRejects
    <2>2. CASE Top.k \in Resolving
        <3>1. Promised!Open.st = "open" /\ \A s : Promised!Finishes(s).st = "finishes"
            BY DEF Promised!Open, Promised!Finishes
        <3>2. IsPending(p) => Fate(p).st \in {"unmade", "open", "finishes"}
            BY <1>2, <2>2, <3>1
        <3> QED BY <1>1, <1>2, <1>3, <2>1, <2>2, <3>2, UserRejects
    <2>3. CASE Top.k \in Interrupts
        <3>1. SrcInv' /\ Fates' = IF IsPending(p) THEN [Fates EXCEPT ![p] = Rejected(e)] ELSE Fates
            BY <1>1, <1>2, <1>3, <2>1, RejectFates
        <3>2. IsPending(p) => Obeyed
            BY <1>2, <2>1, <2>3, <3>1, AsOverride
        <3>3. ~IsPending(p) => Obeyed
            BY <1>2, <3>1, AsReturn
        <3> QED BY <3>1, <3>2, <3>3
    <2> QED BY <1>1, <2>2, <2>3
<1> QED BY <1>4, <1>5

(* Promise.resolve and Promise.reject *)
LEMMA StaticFates ==
    ASSUME IInv, OwnInv, SrcInv, IInv', OwnInv', lost' = lost,
           (\E v \in Inputs : StaticResolve(v)) \/ (\E e \in Reasons : StaticReject(e))
    PROVE  SrcInv' /\ Obeyed
<1>1. Allocate /\ firing = <<>> /\ frames' = frames /\ pairs' = pairs
    BY DEF StaticResolve, StaticReject, Calls, UserTurn, Quiet
<1>2. PICK p \in Promise : p = Fresh /\ p <= alloc' /\ p > alloc /\ Allocates({p})
    BY <1>1, FreshAlloc
<1>3. Aside({p}) /\ Interruptible' = Interruptible
    BY <1>1, <1>2, SameRunning, PairsKept DEF Aside
<1>4. Fate(p) = Promised!Unmade /\ Promised!Unmade.st = "unmade"
    BY <1>2, FateShape DEF Promised!Unmade
<1>5. ASSUME NEW v \in Inputs, StaticResolve(v) PROVE SrcInv' /\ Obeyed
    <2>1. v \in Value /\ v \notin Promise /\ ResolveValue(p, v, <<>>, queue)
        BY <1>2, <1>5, UserValues DEF StaticResolve
    <2> QED BY <1>1, <1>2, <1>3, <1>4, <2>1, UserResolves
<1>6. ASSUME NEW e \in Reasons, StaticReject(e) PROVE SrcInv' /\ Obeyed
    <2>1. e \in Value /\ Reject(p, e, queue)
        BY <1>2, <1>6, UserValues DEF StaticReject
    <2> QED BY <1>1, <1>2, <1>3, <1>4, <2>1, UserRejects
<1> QED BY <1>5, <1>6

(* Steps that only add to what waits *)
LEMMA WaitsMore ==
    ASSUME IInv, SrcInv, firing' = firing,
           \A q \in Promise : state[q].st # "pending" => state'[q] = state[q],
           \A y \in Promise : Range(reactions[y]) \subseteq Range(reactions'[y]),
           Range(queue) \subseteq Range(queue'),
           \A y \in Promise : \A r \in Range(reactions'[y]) :
               r \in Range(reactions[y]) \/ (r.on = y /\ ~Errand(r)),
           \A j \in Range(queue') :
               j \in Range(queue) \/ (j.r.kind # "forward" /\ (Errand(j.r) \/ Sure(state', j)))
    PROVE  SrcInv' /\ \A P : KeepsWaiting(P)
<1>1. Sourced(state', reactions, queue, firing)
    BY SourcedMono DEF SrcInv
<1>2. Sourced(state', reactions', queue', firing')
    BY <1>1 DEF Sourced
<1>3. Reacting = Reacts(reactions, queue, firing) /\ Reacting' = Reacts(reactions', queue', firing')
    BY DEF Reacting, Reacts
<1>4. Reacting \subseteq Reacting'
    BY <1>3, ReactsMono
<1> QED BY <1>2, <1>4 DEF SrcInv, KeepsWaiting

LEMMA Pushed ==
    ASSUME IInv, NEW x \in Promise, NEW r, reactions' = [reactions EXCEPT ![x] = Append(@, r)]
    PROVE  \A y \in Promise :
              Range(reactions'[y]) = Range(reactions[y]) \cup (IF y = x THEN {r} ELSE {})
<1>1. reactions \in [Promise -> Seq(Reaction)]
    BY LineTypes
<1>2. \A y \in Promise : reactions'[y] = IF y = x THEN Append(reactions[x], r) ELSE reactions[y]
    BY <1>1
<1>3. reactions[x] \in Seq(Reaction)
    BY <1>1
<1>4. Range(Append(reactions[x], r)) = Range(reactions[x]) \cup {r}
    BY <1>3, RangeAppend
<1> QED BY <1>2, <1>4

LEMMA JoinsQueue ==
    ASSUME IInv, NEW j, queue' = Append(queue, j)
    PROVE  Range(queue') = Range(queue) \cup {j}
<1>1. queue \in Seq(Job)
    BY LineTypes
<1> QED BY <1>1, RangeAppend

(* A reaction is pushed, or becomes a job at once. *)
LEMMA Hang ==
    ASSUME IInv, SrcInv, NEW x \in Promise, NEW r, r.on = x, ~Errand(r), r.kind # "forward",
           UNCHANGED <<state, firing>>,
           \/ IsPending(x) /\ reactions' = [reactions EXCEPT ![x] = Append(@, r)] /\ UNCHANGED queue
           \/ ~IsPending(x) /\ queue' = Append(queue, JobOf(r, state[x])) /\ UNCHANGED reactions
    PROVE  /\ SrcInv' /\ \A P : KeepsWaiting(P)
           /\ r \in Reacting'
<1>0. Reacting' = Reacts(reactions', queue', firing')
    BY DEF Reacting, Reacts
<1>1. CASE IsPending(x) /\ reactions' = [reactions EXCEPT ![x] = Append(@, r)] /\ UNCHANGED queue
    <2>1. \A y \in Promise :
              Range(reactions'[y]) = Range(reactions[y]) \cup (IF y = x THEN {r} ELSE {})
        BY <1>1, Pushed
    <2>2. r \in Reacting'
        BY <1>0, <2>1, ReactsMembers
    <2>3. SrcInv' /\ \A P : KeepsWaiting(P)
        <3>1. \A y \in Promise : \A z \in Range(reactions'[y]) :
                  z \in Range(reactions[y]) \/ (z.on = y /\ ~Errand(z))
            BY <2>1
        <3> QED BY <1>1, <2>1, <3>1, WaitsMore
    <2> QED BY <2>2, <2>3
<1>2. CASE ~IsPending(x) /\ queue' = Append(queue, JobOf(r, state[x])) /\ UNCHANGED reactions
    <2> DEFINE j == JobOf(r, state[x])
    <2>1. Range(queue') = Range(queue) \cup {j}
        BY <1>2, JoinsQueue
    <2>2. j.r = r /\ Sure(state', j)
        BY <1>2 DEF JobOf, Sure, IsPending
    <2> HIDE DEF j
    <2>3. r \in Reacting'
        BY <1>0, <2>1, <2>2, ReactsMembers
    <2>4. SrcInv' /\ \A P : KeepsWaiting(P)
        BY <1>2, <2>1, <2>2, WaitsMore
    <2> QED BY <2>3, <2>4
<1> QED BY <1>1, <1>2

(* queueMicrotask *)
LEMMA MicrotaskFates ==
    ASSUME IInv, OwnInv, SrcInv, IInv', OwnInv', lost' = lost, QueueMicrotask
    PROVE  SrcInv' /\ Obeyed
<1>1. /\ queue' = Append(queue, MicrotaskJob)
      /\ UNCHANGED <<state, reactions, firing, pairs, frames, alloc>>
    BY DEF QueueMicrotask
<1>2. Range(queue') = Range(queue) \cup {MicrotaskJob}
    BY <1>1, JoinsQueue
<1>3. Errand(MicrotaskJob.r) /\ MicrotaskJob.r.kind # "forward"
    BY DEF MicrotaskJob, JobOf, Bare, Errand
<1>4. SrcInv' /\ \A P : KeepsWaiting(P)
    BY <1>1, <1>2, <1>3, WaitsMore
<1>5. Aside({}) /\ Interruptible' = Interruptible
    BY <1>1, SameRunning, SameAlloc, PairsKept DEF Aside
<1>6. Fates' = Fates
    BY <1>1, <1>4, <1>5, SameFates
<1> QED BY <1>4, <1>5, <1>6 DEF Obeyed

(* then, catch and finally *)
LEMMA ThenFates ==
    ASSUME IInv, OwnInv, SrcInv, IInv', OwnInv', lost' = lost, NEW q \in Promise,
           (\E f, r \in BOOLEAN : Then(q, f, r)) \/ Finally(q)
    PROVE  SrcInv' /\ Obeyed
<1>1. PICK r \in Reaction : /\ r.kind \in {"then", "finallyCall"} /\ r.on = q /\ r.orig = Pending
                            /\ r.promise = Fresh /\ AttachReaction(q, r)
    <2>0. Fresh \in Promise /\ \A k \in {"then", "finallyCall"} : Bare(k, Fresh, q) \in Reaction
        <3>1. Fresh \in Promise
            BY FreshAlloc DEF Then, Finally
        <3>2. Fresh \in 0 .. MaxPromises /\ q \in 0 .. MaxPromises
            BY <3>1, BoundsAssumption DEF Promise
        <3>3. {"then", "finallyCall"} \subseteq ReactionKind
            BY DEF ReactionKind
        <3> QED BY <3>1, <3>2, <3>3, BareType
    <2>1. ASSUME NEW f \in BOOLEAN, NEW g \in BOOLEAN, Then(q, f, g)
          PROVE  \E r \in Reaction :
                     /\ r.kind \in {"then", "finallyCall"} /\ r.on = q /\ r.orig = Pending
                     /\ r.promise = Fresh /\ AttachReaction(q, r)
        <3> DEFINE r == [Bare("then", Fresh, q) EXCEPT !.onF = f, !.onR = g]
        <3>1. Bare("then", Fresh, q) \in Reaction
            BY <2>0
        <3>2. /\ r \in Reaction /\ r.kind = "then" /\ r.on = q /\ r.orig = Pending
              /\ r.promise = Fresh
            BY <3>1 DEF Reaction, Bare
        <3>3. AttachReaction(q, r)
            BY <2>1 DEF Then
        <3> QED BY <3>2, <3>3
    <2>2. ASSUME Finally(q)
          PROVE  \E r \in Reaction :
                     /\ r.kind \in {"then", "finallyCall"} /\ r.on = q /\ r.orig = Pending
                     /\ r.promise = Fresh /\ AttachReaction(q, r)
        <3> DEFINE r == Bare("finallyCall", Fresh, q)
        <3>1. r \in Reaction
            BY <2>0
        <3>2. r.kind = "finallyCall" /\ r.on = q /\ r.orig = Pending /\ r.promise = Fresh
            BY DEF Bare
        <3>3. AttachReaction(q, r)
            BY <2>2 DEF Finally
        <3> QED BY <3>1, <3>2, <3>3
    <2> QED BY <2>1, <2>2
<1>2. Allocate /\ frames' = frames /\ pairs' = pairs /\ q <= alloc
    BY UserValues DEF Then, Finally
<1>3. PICK p \in Promise : /\ p = Fresh /\ p <= alloc' /\ p > alloc /\ IsPending(p)
                           /\ Allocates({p})
    BY <1>2, FreshAlloc
<1>4. Aside({p}) /\ Interruptible' = Interruptible
    BY <1>2, <1>3, SameRunning, PairsKept DEF Aside
<1>5. /\ SrcInv' /\ \A P : KeepsWaiting(P)
      /\ r \in Reacting'
      /\ state' = state
    <2>1. ~Errand(r) /\ r.kind # "forward"
        BY <1>1 DEF Errand
    <2>2. /\ UNCHANGED <<state, firing>>
          /\ \/ IsPending(q) /\ reactions' = [reactions EXCEPT ![q] = Append(@, r)] /\ UNCHANGED queue
             \/ ~IsPending(q) /\ queue' = Append(queue, JobOf(r, state[q])) /\ UNCHANGED reactions
        BY <1>1 DEF AttachReaction
    <2> QED BY <1>1, <2>1, <2>2, Hang
<1>6. IsPending(p)' /\ Claim(p, FateOf(r))'
    <2>1. IsPending(p)'
        BY <1>3, <1>5 DEF IsPending
    <2>2. r \in Reacting' /\ r.promise = p
        BY <1>1, <1>3, <1>5
    <2> QED BY <2>1, <2>2 DEF Claim, FateOf
<1>7. Fates' = [Fates EXCEPT ![p] = FateOf(r)]
    BY <1>3, <1>4, <1>5, <1>6, OneFate
<1>8. Fate(p) = Promised!Unmade
    BY <1>3, FateShape
<1> QED BY <1>1, <1>2, <1>4, <1>5, <1>7, <1>8, AsDerive

(* await of a promise *)
LEMMA AwaitFates ==
    ASSUME IInv, OwnInv, SrcInv, IInv', OwnInv', lost' = lost, NEW q \in Promise, AwaitPromise(q)
    PROVE  SrcInv' /\ Obeyed
<1>1. /\ UserTurn /\ firing = <<>> /\ frames' = Below /\ UNCHANGED <<state, firing, pairs, alloc>>
      /\ Top.k \in {"async", "resume"} /\ q <= alloc
    BY UserValues DEF AwaitPromise, InAsync, UserTurn, Quiet, Leave
<1>2. PICK p \in Promise : /\ p = Top.cap /\ p <= alloc /\ Aside({p})
                           /\ Interruptible' = Interruptible
                           /\ IsPending(p) => Fate(p) = Promised!Open
    BY <1>1, LeavingFrame DEF Resolving
<1> DEFINE r == Bare("async", p, q)
<1>3. r.on = q /\ ~Errand(r) /\ r.kind # "forward" /\ r.promise = p
    BY DEF Bare, Errand
<1>4. /\ SrcInv' /\ \A P : KeepsWaiting(P)
      /\ r \in Reacting'
    <2>1. \/ IsPending(q) /\ reactions' = [reactions EXCEPT ![q] = Append(@, r)] /\ UNCHANGED queue
          \/ ~IsPending(q) /\ queue' = Append(queue, JobOf(r, state[q])) /\ UNCHANGED reactions
        BY <1>2 DEF AwaitPromise
    <2> HIDE DEF r
    <2> QED BY <1>1, <1>3, <2>1, Hang
<1>5. CASE IsPending(p)
    <2>1. IsPending(p)' /\ p <= alloc'
        BY <1>1, <1>2, <1>5 DEF IsPending
    <2>2. Claim(p, FateOf(r))'
        <3> HIDE DEF r
        <3>1. r \in Reacting' /\ r.promise = p
            BY <1>3, <1>4
        <3> QED BY <3>1 DEF Claim, FateOf
    <2> HIDE DEF r
    <2>3. Fates' = [Fates EXCEPT ![p] = FateOf(r)]
        BY <1>1, <1>2, <1>4, <2>1, <2>2, OneFate
    <2> QED BY <1>1, <1>2, <1>4, <1>5, <2>3, AsAwait DEF r
<1>6. CASE ~IsPending(p)
    <2>1. Fates' = Fates
        BY <1>1, <1>2, <1>4, <1>6, SameFates
    <2> QED BY <1>2, <1>4, <2>1 DEF Obeyed
<1> QED BY <1>5, <1>6

(* The fate of y after the step *)
Gets(y, x) == (~IsPending(y)' /\ state'[y] = x) \/ (IsPending(y)' /\ Claim(y, x)')

(* A step that makes a promise m and leaves another one, p, to wait for it *)
LEMMA TwoFates ==
    ASSUME IInv, OwnInv, IInv', OwnInv', lost' = lost, NEW p \in Promise, NEW m \in Promise,
           p <= alloc', m <= alloc', KeepsWaiting({p, m}), Aside({p, m}),
           \A y \in Promise \ {p, m} : state'[y] = state[y],
           NEW x, Gets(p, x), NEW z, Gets(m, z)
    PROVE  Fates' = [Fates EXCEPT ![m] = z, ![p] = x]
<1>1. \A y \in Promise \ {p, m} : Fate(y)' = Fate(y)
    BY FateElsewhere
<1>2. Fate(p)' = x
    BY FateHere DEF Gets
<1>3. Fate(m)' = z
    BY FateHere DEF Gets
<1> QED BY <1>1, <1>2, <1>3 DEF Fates

(* The new promise m takes v, and r hangs on it. *)
Taken(m, v, r) ==
    \/ /\ v \in Promise \ {m} /\ IsPending(v) /\ UNCHANGED <<state, queue>>
       /\ reactions' = [reactions EXCEPT ![v] = Append(@, Bare("forward", m, v)), ![m] = <<r>>]
    \/ /\ v = Thenable /\ UNCHANGED state
       /\ reactions' = [reactions EXCEPT ![m] = <<r>>]
       /\ queue' = Append(queue, ThenableJob(m))
    \/ /\ Final(Promised!Resolution(m, v)) /\ UNCHANGED reactions
       /\ state' = [state EXCEPT ![m] = Promised!Resolution(m, v)]
       /\ queue' = Append(queue, JobOf(r, Promised!Resolution(m, v)))

LEMMA TakenWaits ==
    ASSUME IInv, OwnInv, SrcInv, NEW m \in Promise, IsPending(m), reactions[m] = <<>>,
           NEW v \in Value, NEW r, r.on = m, ~Errand(r), r.kind # "forward",
           Taken(m, v, r), firing' = firing
    PROVE  /\ SrcInv' /\ \A P : KeepsWaiting(P)
           /\ r \in Reacting'
           /\ \A y \in Promise \ {m} : state'[y] = state[y]
           /\ \E z : z = Promised!Resolution(m, v) /\ Gets(m, z)
<1> PICK res : res = Promised!Resolution(m, v)
    OBVIOUS
<1>0. /\ reactions \in [Promise -> Seq(Reaction)] /\ state \in [Promise -> CleanState]
      /\ Reacting' = Reacts(reactions', queue', firing')
      /\ Range(<<>>) = {} /\ Range(<<r>>) = {r}
    BY LineTypes, RangeShort DEF Reacting, Reacts
<1>1. CASE /\ v \in Promise \ {m} /\ IsPending(v) /\ UNCHANGED <<state, queue>>
           /\ reactions' = [reactions EXCEPT ![v] = Append(@, Bare("forward", m, v)), ![m] = <<r>>]
    <2> DEFINE f == Bare("forward", m, v)
    <2>1. f.on = v /\ ~Errand(f) /\ f.promise = m /\ FateOf(f) = res
        <3>1. f.on = v /\ ~Errand(f) /\ f.promise = m
            BY DEF Bare, Errand
        <3>2. FateOf(f) = res
            BY <1>1, ResolutionRead
        <3> QED BY <3>1, <3>2
    <2>2. reactions' = [reactions EXCEPT ![v] = Append(@, f), ![m] = <<r>>]
        BY <1>1
    <2> HIDE DEF f
    <2>3. \A y \in Promise : Range(reactions'[y]) =
              Range(reactions[y]) \cup (IF y = v THEN {f} ELSE {}) \cup (IF y = m THEN {r} ELSE {})
        <3>1. \A y \in Promise : reactions'[y] = IF y = m THEN <<r>> ELSE
                                     IF y = v THEN Append(reactions[v], f) ELSE reactions[y]
            BY <1>0, <1>1, <2>2
        <3>2. reactions[v] \in Seq(Reaction)
            BY <1>0, <1>1
        <3>3. Range(Append(reactions[v], f)) = Range(reactions[v]) \cup {f}
            BY <3>2, RangeAppend
        <3> QED BY <1>0, <1>1, <3>1, <3>3
    <2>4. r \in Reacting' /\ f \in Reacting'
        <3>1. v \in Promise /\ r \in Range(reactions'[m]) /\ f \in Range(reactions'[v])
            BY <1>1, <2>3
        <3> QED BY <1>0, <3>1, ReactsMembers
    <2>5. SrcInv' /\ \A P : KeepsWaiting(P)
        <3>1. \A y \in Promise : \A w \in Range(reactions'[y]) :
                  w \in Range(reactions[y]) \/ (w.on = y /\ ~Errand(w))
            BY <2>1, <2>3
        <3> QED BY <1>1, <2>3, <3>1, WaitsMore
    <2>6. Gets(m, res)
        <3>1. IsPending(m)'
            BY <1>1 DEF IsPending
        <3>2. Claim(m, res)'
            BY <2>1, <2>4 DEF Claim, FateOf
        <3> QED BY <3>1, <3>2 DEF Gets
    <2> QED BY <1>1, <2>4, <2>5, <2>6
<1>2. CASE /\ v = Thenable /\ UNCHANGED state
           /\ reactions' = [reactions EXCEPT ![m] = <<r>>]
           /\ queue' = Append(queue, ThenableJob(m))
    <2> DEFINE j == ThenableJob(m)
    <2>1. /\ Errand(j.r) /\ j.r.kind # "forward" /\ j.r.promise = m /\ FateOf(j.r) = res
        <3>1. j.r = Bare("thenable", m, 0)
            BY DEF ThenableJob, JobOf
        <3>2. FateOf(j.r) = res
            BY <1>2, <3>1, ResolutionRead
        <3> QED BY <3>1, <3>2 DEF Bare, Errand
    <2>2. Range(queue') = Range(queue) \cup {j}
        BY <1>2, JoinsQueue
    <2> HIDE DEF j
    <2>3. \A y \in Promise :
              Range(reactions'[y]) = Range(reactions[y]) \cup (IF y = m THEN {r} ELSE {})
        BY <1>0, <1>2
    <2>4. r \in Reacting' /\ j.r \in Reacting'
        BY <1>0, <2>2, <2>3, ReactsMembers
    <2>5. SrcInv' /\ \A P : KeepsWaiting(P)
        <3>1. \A y \in Promise : \A w \in Range(reactions'[y]) :
                  w \in Range(reactions[y]) \/ (w.on = y /\ ~Errand(w))
            BY <2>3
        <3> QED BY <1>2, <2>1, <2>2, <2>3, <3>1, WaitsMore
    <2>6. Gets(m, res)
        <3>1. IsPending(m)'
            BY <1>2 DEF IsPending
        <3>2. Claim(m, res)'
            BY <2>1, <2>4 DEF Claim, FateOf
        <3> QED BY <3>1, <3>2 DEF Gets
    <2> QED BY <1>2, <2>4, <2>5, <2>6
<1>3. CASE /\ Final(res) /\ UNCHANGED reactions
           /\ state' = [state EXCEPT ![m] = res]
           /\ queue' = Append(queue, JobOf(r, res))
    <2> DEFINE j == JobOf(r, res)
    <2>1. j.r = r /\ j.s = res
        BY DEF JobOf
    <2>2. Range(queue') = Range(queue) \cup {j}
        BY <1>3, JoinsQueue
    <2> HIDE DEF j
    <2>3. /\ \A y \in Promise : state'[y] = IF y = m THEN res ELSE state[y]
          /\ res.st # "pending"
        BY <1>0, <1>3 DEF Final
    <2>4. Sure(state', j)
        BY <2>1, <2>3 DEF Sure
    <2>5. r \in Reacting'
        BY <1>0, <2>1, <2>2, ReactsMembers
    <2>6. SrcInv' /\ \A P : KeepsWaiting(P)
        <3>1. \A y \in Promise : state[y].st # "pending" => state'[y] = state[y]
            BY <2>3 DEF IsPending
        <3> QED BY <1>3, <2>1, <2>2, <2>4, <3>1, WaitsMore
    <2>7. Gets(m, res)
        BY <2>3 DEF IsPending, Gets
    <2> QED BY <2>3, <2>5, <2>6, <2>7
<1> QED BY <1>1, <1>2, <1>3 DEF Taken

(* The promise p of the frame that completes waits for m, unless it is settled. *)
LEMMA ThroughFates ==
    ASSUME IInv, OwnInv, SrcInv, IInv', OwnInv', lost' = lost,
           NEW p \in Promise, p <= alloc, NEW m \in Promise, m > alloc, m <= alloc',
           IsPending(m), reactions[m] = <<>>, Aside({p, m}),
           NEW v \in Value, NEW r, r.on = m, ~Errand(r), r.kind # "forward", r.promise = p,
           Taken(m, v, r), firing' = firing
    PROVE  /\ SrcInv' /\ p # m
           /\ Fates' = IF IsPending(p)
                       THEN [Fates EXCEPT ![m] = Promised!Resolution(m, v), ![p] = FateOf(r)]
                       ELSE [Fates EXCEPT ![m] = Promised!Resolution(m, v)]
<1>0. p # m /\ p <= alloc'
    <2>1. alloc \in Nat /\ p \in Nat /\ m \in Nat
        BY BoundsAssumption, LineTypes DEF Promise
    <2>2. Allocates({p, m})
        BY DEF Aside
    <2>3. alloc' \in Nat /\ alloc <= alloc'
        BY <2>2 DEF Allocates
    <2>4. p <= alloc /\ m > alloc
        OBVIOUS
    <2> QED BY ONLY <2>1, <2>3, <2>4
<1>1. /\ SrcInv' /\ KeepsWaiting({p, m}) /\ r \in Reacting'
      /\ \A y \in Promise \ {m} : state'[y] = state[y]
    BY TakenWaits
<1>2. PICK z : z = Promised!Resolution(m, v) /\ Gets(m, z)
    BY TakenWaits
<1>3. ASSUME NEW x, Gets(p, x)
      PROVE  Fates' = [Fates EXCEPT ![m] = z, ![p] = x]
    <2>1. \A y \in Promise \ {p, m} : state'[y] = state[y]
        BY <1>1
    <2> QED BY <1>0, <1>1, <1>2, <1>3, <2>1, TwoFates
<1>4. CASE IsPending(p)
    <2>1. IsPending(p)'
        BY <1>0, <1>1, <1>4 DEF IsPending
    <2>2. PICK x : x = FateOf(r)
        OBVIOUS
    <2>3. Gets(p, x)
        <3>1. Claim(p, x)'
            BY <1>1, <2>2 DEF Claim, FateOf
        <3> QED BY <2>1, <3>1 DEF Gets
    <2>4. Fates' = [Fates EXCEPT ![m] = z, ![p] = x]
        BY <1>3, <2>3
    <2> QED BY <1>0, <1>1, <1>2, <1>4, <2>2, <2>4
<1>5. CASE ~IsPending(p)
    <2>1. ~IsPending(p)' /\ state'[p] = state[p]
        BY <1>0, <1>1, <1>5 DEF IsPending
    <2>2. Fates' = [Fates EXCEPT ![m] = z, ![p] = state[p]]
        <3>1. PICK x : x = state[p]
            OBVIOUS
        <3>2. Gets(p, x)
            BY <2>1, <3>1 DEF Gets
        <3>3. Fates' = [Fates EXCEPT ![m] = z, ![p] = x]
            BY <1>3, <3>2
        <3> QED BY <3>1, <3>3
    <2>3. state[p] = Fates[p]
        BY <1>5, SpecGuards
    <2>4. [Fates EXCEPT ![m] = z, ![p] = Fates[p]] = [Fates EXCEPT ![m] = z]
        BY <1>0 DEF Fates
    <2> QED BY <1>0, <1>1, <1>2, <1>5, <2>2, <2>3, <2>4
<1> QED BY <1>4, <1>5

(* await of another value: a wrapper promise takes it *)
LEMMA AwaitOtherFates ==
    ASSUME IInv, OwnInv, SrcInv, IInv', OwnInv', lost' = lost, NEW v \in Inputs, AwaitOther(v)
    PROVE  SrcInv' /\ Obeyed
<1>1. /\ UserTurn /\ frames' = Below /\ firing' = firing /\ pairs' = pairs
      /\ Top.k \in {"async", "resume"} /\ Allocate
      /\ v \in Value \ Promise
    BY UserValues DEF AwaitOther, InAsync, Leave
<1>2. PICK p \in Promise : /\ p = Top.cap /\ p <= alloc /\ \A P : p \in P => KeepsRunning(P)
                           /\ Interruptible' = Interruptible
                           /\ IsPending(p) => Fate(p) = Promised!Open
    BY <1>1, TopFrame DEF Resolving
<1>3. PICK m \in Promise : /\ m = Fresh /\ m <= alloc' /\ m > alloc /\ IsPending(m)
                           /\ reactions[m] = <<>> /\ Allocates({p, m})
    BY <1>1, FreshAlloc
<1>4. Aside({p, m})
    <2>1. KeepsRunning({p, m})
        BY <1>2
    <2> QED BY <1>1, <1>3, <2>1, PairsKept DEF Aside
<1> DEFINE r == Bare("async", p, m)
<1>5. r.on = m /\ ~Errand(r) /\ r.kind # "forward" /\ r.promise = p
    BY DEF Bare, Errand
<1>6. Taken(m, v, r)
    <2>1. CASE /\ v = Thenable
               /\ queue' = Append(queue, ThenableJob(m))
               /\ reactions' = [reactions EXCEPT ![m] = <<r>>]
               /\ UNCHANGED <<state, unhandled>>
        BY <2>1 DEF Taken
    <2>2. CASE v \in {Plain, BadThen} /\ \E s :
                   /\ s = (IF v = BadThen THEN Rejected(Plain) ELSE Fulfilled(v))
                   /\ state' = [state EXCEPT ![m] = s] /\ queue' = Append(queue, JobOf(r, s))
                   /\ UNCHANGED reactions
        <3>1. PICK s : /\ s = (IF v = BadThen THEN Rejected(Plain) ELSE Fulfilled(v))
                       /\ state' = [state EXCEPT ![m] = s] /\ queue' = Append(queue, JobOf(r, s))
                       /\ UNCHANGED reactions
            BY <2>2
        <3>2. s = Promised!Resolution(m, v)
            BY <1>1, <2>2, <3>1, ResolutionRead, Distinct
        <3>3. Final(s)
            BY <2>2, <3>1 DEF Final, Rejected, Fulfilled, CleanState, State, Value
        <3> HIDE DEF r
        <3> QED BY <3>1, <3>2, <3>3 DEF Taken
    <2> HIDE DEF r
    <2> QED BY <1>2, <1>3, <2>1, <2>2 DEF AwaitOther, r
<1>7. /\ SrcInv' /\ p # m
      /\ Fates' = IF IsPending(p)
                  THEN [Fates EXCEPT ![m] = Promised!Resolution(m, v), ![p] = FateOf(r)]
                  ELSE [Fates EXCEPT ![m] = Promised!Resolution(m, v)]
    <2> HIDE DEF r
    <2> QED BY <1>1, <1>2, <1>3, <1>4, <1>5, <1>6, ThroughFates
<1>8. Fate(m) = Promised!Unmade
    BY <1>3, FateShape
<1>9. CASE IsPending(p)
    BY <1>1, <1>2, <1>7, <1>8, <1>9, AsAwaitValue
<1>10. CASE ~IsPending(p)
    BY <1>1, <1>2, <1>7, <1>8, <1>10, AsResolve
<1> QED BY <1>9, <1>10

(* A finally callback returns: an internal promise takes the result *)
LEMMA ReturnFinallyFates ==
    ASSUME IInv, OwnInv, SrcInv, IInv', OwnInv', lost' = lost, NEW v \in Value, UserValue(v), ReturnFinally(v)
    PROVE  SrcInv' /\ Obeyed
<1>1. /\ UserTurn /\ frames' = Below /\ firing' = firing /\ pairs' = pairs
      /\ Top.k = "finally" /\ Allocate
      /\ v \in Promise => v <= alloc
    BY UserValues DEF ReturnFinally, Leave
<1>2. PICK p \in Promise : /\ p = Top.cap /\ p <= alloc /\ \A P : p \in P => KeepsRunning(P)
                           /\ Interruptible' = Interruptible
                           /\ IsPending(p) => Fate(p) = Promised!Finishes(Top.orig)
    BY <1>1, TopFrame DEF Resolving
<1>3. PICK m \in Promise : /\ m = Fresh /\ m <= alloc' /\ m > alloc /\ IsPending(m)
                           /\ reactions[m] = <<>> /\ Allocates({p, m})
    BY <1>1, FreshAlloc
<1>4. Aside({p, m})
    <2>1. KeepsRunning({p, m})
        BY <1>2
    <2> QED BY <1>1, <1>3, <2>1, PairsKept DEF Aside
<1>0. v # m
    <2>1. alloc \in Nat /\ m \in Nat
        BY BoundsAssumption, LineTypes DEF Promise
    <2> QED BY <1>1, <1>3, <2>1
<1> DEFINE r == [Bare("finallyPropagate", p, m) EXCEPT !.orig = Top.orig]
<1>5. r.on = m /\ ~Errand(r) /\ r.kind # "forward" /\ r.promise = p
    BY DEF Bare, Errand
<1>6. Taken(m, v, r)
    <2>1. ASSUME NEW s, s = Promised!Resolution(m, v), Final(s),
                 state' = [state EXCEPT ![m] = s], queue' = Append(queue, JobOf(r, s)),
                 UNCHANGED reactions
          PROVE  Taken(m, v, r)
        <3> HIDE DEF r
        <3> QED BY <2>1 DEF Taken
    <2> HIDE DEF r
    <2>2. CASE v \in Promise /\ IsPending(v)
        <3>1. /\ reactions' = [reactions EXCEPT ![v] = Append(@, Bare("forward", m, v)), ![m] = <<r>>]
              /\ UNCHANGED <<state, queue>>
            BY <1>2, <1>3, <2>2, ValuesAssumption DEF ReturnFinally, r
        <3> QED BY <1>0, <2>2, <3>1 DEF Taken
    <2>3. CASE v \in Promise /\ ~IsPending(v)
        <3>1. /\ state' = [state EXCEPT ![m] = state[v]] /\ UNCHANGED reactions
              /\ queue' = Append(queue, JobOf(r, state[v]))
            BY <1>2, <1>3, <2>3, ValuesAssumption DEF ReturnFinally, r
        <3>2. Final(state[v])
            BY <2>3, LineTypes DEF Final, IsPending
        <3>3. Promised!Resolution(m, v) = state[v]
            BY <1>0, <2>3, ResolutionRead
        <3> QED BY <2>1, <3>1, <3>2, <3>3
    <2>4. CASE v = Thenable
        <3>1. /\ queue' = Append(queue, ThenableJob(m)) /\ reactions' = [reactions EXCEPT ![m] = <<r>>]
              /\ UNCHANGED state
            BY <1>2, <1>3, <2>4, ValuesAssumption, Distinct DEF ReturnFinally, r
        <3> QED BY <2>4, <3>1 DEF Taken
    <2>5. CASE v \in {Plain, BadThen}
        <3>1. PICK s : s = IF v = BadThen THEN Rejected(Plain) ELSE Fulfilled(v)
            OBVIOUS
        <3>2. /\ state' = [state EXCEPT ![m] = s] /\ queue' = Append(queue, JobOf(r, s))
              /\ UNCHANGED reactions
            BY <1>2, <1>3, <2>5, <3>1, ValuesAssumption, Distinct DEF ReturnFinally, r
        <3>3. s = Promised!Resolution(m, v)
            BY <2>5, <3>1, ResolutionRead, Distinct
        <3>4. Final(s)
            BY <2>5, <3>1 DEF Final, Rejected, Fulfilled, CleanState, State, Value
        <3> QED BY <2>1, <3>2, <3>3, <3>4
    <2> QED BY <2>2, <2>3, <2>4, <2>5 DEF ReturnFinally
<1>7. /\ SrcInv' /\ p # m
      /\ Fates' = IF IsPending(p)
                  THEN [Fates EXCEPT ![m] = Promised!Resolution(m, v), ![p] = FateOf(r)]
                  ELSE [Fates EXCEPT ![m] = Promised!Resolution(m, v)]
    <2> HIDE DEF r
    <2> QED BY <1>1, <1>2, <1>3, <1>4, <1>5, <1>6, ThroughFates
<1>8. Fate(m) = Promised!Unmade
    BY <1>3, FateShape
<1>9. CASE IsPending(p)
    BY <1>1, <1>2, <1>7, <1>8, <1>9, AsReturnFinally
<1>10. CASE ~IsPending(p)
    BY <1>1, <1>2, <1>7, <1>8, <1>10, AsResolve
<1> QED BY <1>9, <1>10

(* A promise takes a settlement that carries no promise and no thenable. *)
LEMMA AdoptFates ==
    ASSUME IInv, OwnInv, IInv', OwnInv', lost' = lost, NEW p \in Promise, p <= alloc', Aside({p}),
           NEW s \in CleanState, NEW q \in Seq(Job), NEW rest \in Seq(Job),
           Besides(p, q, rest), Sourced(state, reactions, q, rest),
           \/ s.st = "fulfilled" /\ ResolveValue(p, s.val, rest, q)
           \/ s.st = "rejected" /\ Settle(p, s, rest) /\ queue' = q
    PROVE  /\ SrcInv'
           /\ Fates' = IF IsPending(p) THEN [Fates EXCEPT ![p] = s] ELSE Fates
<1>1. CASE s.st = "fulfilled" /\ ResolveValue(p, s.val, rest, q)
    <2>1. s.val \in {Plain, TypeErr} /\ s = Fulfilled(s.val) /\ s.val \in Value
        BY <1>1 DEF CleanState, State, Fulfilled
    <2>2. Promised!Resolution(p, s.val) = s
        BY <2>1, ResolutionRead
    <2>3. /\ SrcInv'
          /\ Fates' = IF IsPending(p) THEN [Fates EXCEPT ![p] = Promised!Resolution(p, s.val)]
                      ELSE Fates
        BY <1>1, <2>1, ResolveFates
    <2> QED BY <2>2, <2>3
<1>2. CASE s.st = "rejected" /\ Settle(p, s, rest) /\ queue' = q
    <2>1. Final(s)
        BY <1>2 DEF Final
    <2> QED BY <1>2, <2>1, SettleFates
<1> QED BY <1>1, <1>2

(* The job that runs *)
RunsJob(k, j, q) == NextJob(k) /\ j = Head(queue) /\ q = Tail(queue)

LEMMA JobRead ==
    ASSUME IInv, OwnInv, SrcInv, NEW k, NEW j, NEW q, RunsJob(k, j, q)
    PROVE  /\ firing = <<>> /\ j \in LiveJob(alloc) /\ j \in Range(queue) /\ q \in Seq(Job)
           /\ j.r.kind = k /\ <<>> \in Seq(Job)
           /\ Sourced(state, reactions, q, <<>>) /\ Besides(j.r.promise, q, <<>>)
           /\ Errand(j.r) \/ Sure(state, j)
<1>1. firing = <<>> /\ queue # <<>> /\ j = Head(queue) /\ q = Tail(queue) /\ j.r.kind = k
    BY DEF RunsJob, NextJob, Draining, Quiet
<1>2. queue \in Seq(Job) /\ queue \in Seq(LiveJob(alloc))
    BY LineTypes DEF Store
<1>3. Range(queue) = {j} \cup Range(q)
    BY <1>1, <1>2, RangeTail
<1>4. q \in Seq(Job) /\ j \in LiveJob(alloc) /\ <<>> \in Seq(Job)
    BY <1>1, <1>2
<1>5. Sourced(state, reactions, queue, <<>>)
    BY <1>1 DEF SrcInv
<1>6. Sourced(state, reactions, q, <<>>) /\ (Errand(j.r) \/ Sure(state, j))
    BY <1>3, <1>5 DEF Sourced
<1>7. Besides(j.r.promise, q, <<>>)
    <2> SUFFICES ASSUME NEW r \in Reacting, r.promise # j.r.promise
                 PROVE  r \in Reacts(reactions, q, <<>>)
        BY DEF Besides
    <2>1. r \in Reacts(reactions, queue, <<>>)
        BY <1>1 DEF Reacting, Reacts
    <2>2. \A i \in Range(queue) : r = i.r => i \in Range(q)
        BY <1>3
    <2> QED BY <2>1, <2>2, ReactsMembers
<1> QED BY <1>1, <1>3, <1>4, <1>6, <1>7

(* The promise the job is for, unless it is a microtask *)
LEMMA JobFate ==
    ASSUME IInv, OwnInv, SrcInv, NEW k, NEW j, NEW q, RunsJob(k, j, q), k # "microtask"
    PROVE  \E p \in Promise : /\ p = j.r.promise /\ p <= alloc
                              /\ IsPending(p) => Fate(p) = FateOf(j.r)
<1>1. firing = <<>> /\ j \in LiveJob(alloc) /\ j \in Range(queue) /\ j.r.kind = k
    BY JobRead
<1>2. PICK p \in Promise : p = j.r.promise /\ p <= alloc
    <2>1. j.r \in LiveReaction(alloc)
        BY <1>1 DEF LiveJob
    <2>2. j.r.promise \in 0 .. MaxPromises /\ j.r.promise >= 1 /\ j.r.promise <= alloc
        BY <1>1, <2>1 DEF LiveReaction, Reaction
    <2> QED BY <2>2, BoundsAssumption DEF Promise
<1>3. Claim(p, FateOf(j.r))
    <2>1. j.r \in Reacting
        BY <1>1, ReactingMembers
    <2> QED BY <1>2, <2>1 DEF Claim
<1>4. PICK x : x = FateOf(j.r)
    OBVIOUS
<1>5. IsPending(p) => Fate(p) = x
    BY <1>2, <1>3, <1>4, ClaimedFate
<1> QED BY <1>2, <1>4, <1>5

(* A settled promise's job, as PromiseSpec sees it *)
LEMMA JobDue ==
    ASSUME IInv, OwnInv, NEW p \in Promise, NEW j, ~Errand(j.r), Sure(state, j),
           Fate(p) = FateOf(j.r)
    PROVE  /\ Promised!Due(p, j.r.kind) /\ Promised!Source(p) = j.s
           /\ Fates[p].onF = j.r.onF /\ Fates[p].onR = j.r.onR /\ Fates[p].orig = j.r.orig
<1>1. j.r.on \in Promise /\ ~IsPending(j.r.on) /\ j.s = state[j.r.on]
    BY DEF Sure, IsPending
<1> QED BY <1>1, DueRead

(* The job calls user code. *)
LEMMA CalledFates ==
    ASSUME IInv, OwnInv, SrcInv, IInv', OwnInv', lost' = lost, NEW k, NEW j, NEW q, RunsJob(k, j, q),
           NEW p \in Promise, p = j.r.promise, p <= alloc, NEW f, f.cap = p,
           frames' = Append(frames, f), queue' = q,
           UNCHANGED <<state, reactions, firing, alloc>>, \A P : KeepsPairs(P),
           NEW x, Claim(p, x)'
    PROVE  /\ SrcInv'
           /\ Interruptible' = Interruptible \cup (IF f.k \in Interrupts THEN {p} ELSE {})
           /\ Fates' = IF IsPending(p) THEN [Fates EXCEPT ![p] = x] ELSE Fates
<1>1. frames \in Seq(Frame)
    BY OwnedTypes
<1>2. /\ \A P : KeepsRunning(P)
      /\ Interruptible' = Interruptible \cup (IF f.k \in Interrupts THEN {p} ELSE {})
    BY <1>1, EnterRunning
<1>3. Aside({p}) /\ p <= alloc'
    BY <1>2, SameAlloc DEF Aside
<1>4. SrcInv' /\ KeepsWaiting({p})
    <2>1. firing = <<>> /\ Sourced(state, reactions, q, <<>>) /\ Besides(p, q, <<>>)
        BY JobRead
    <2>2. Reacting' = Reacts(reactions, q, <<>>)
        BY <2>1 DEF Reacting, Reacts
    <2>3. SrcInv'
        BY <2>1 DEF SrcInv
    <2> QED BY <2>1, <2>2, <2>3 DEF KeepsWaiting, Besides
<1>5. \A y \in Promise : state'[y] = state[y]
    OBVIOUS
<1>6. CASE IsPending(p)
    <2>1. IsPending(p)'
        BY <1>6 DEF IsPending
    <2>2. Fates' = [Fates EXCEPT ![p] = x]
        BY <1>3, <1>4, <1>5, <2>1, OneFate
    <2> QED BY <1>2, <1>4, <1>6, <2>2
<1>7. CASE ~IsPending(p)
    <2>1. Fates' = Fates
        BY <1>3, <1>4, <1>5, <1>7, SameFates
    <2> QED BY <1>2, <1>4, <1>7, <2>1
<1> QED BY <1>6, <1>7

(* run_job: a handler is called, or there is none and the settlement is passed on. *)
LEMMA HandlerFates ==
    ASSUME IInv, OwnInv, SrcInv, IInv', OwnInv', lost' = lost, RunHandler \/ RunPassThrough
    PROVE  SrcInv' /\ Obeyed
<1>1. PICK j, q : RunsJob("then", j, q) /\ j = Head(queue) /\ q = Tail(queue)
    <2>1. RunsJob("then", Head(queue), Tail(queue))
        BY DEF RunsJob, RunHandler, RunPassThrough
    <2> QED BY <2>1
<1>2. /\ j.r.kind = "then" /\ ~Errand(j.r) /\ Sure(state, j) /\ q \in Seq(Job) /\ <<>> \in Seq(Job)
      /\ Sourced(state, reactions, q, <<>>) /\ Besides(j.r.promise, q, <<>>)
      /\ j \in LiveJob(alloc)
    <2>1. /\ j \in LiveJob(alloc) /\ q \in Seq(Job) /\ <<>> \in Seq(Job) /\ j.r.kind = "then"
          /\ Sourced(state, reactions, q, <<>>) /\ Besides(j.r.promise, q, <<>>)
          /\ Errand(j.r) \/ Sure(state, j)
        BY <1>1, JobRead
    <2>2. ~Errand(j.r)
        BY <2>1 DEF Errand
    <2> QED BY <2>1, <2>2
<1>3. PICK p \in Promise : /\ p = j.r.promise /\ p <= alloc
                           /\ IsPending(p) => Fate(p) = FateOf(j.r)
    BY <1>1, JobFate
<1>4. IsPending(p) => /\ Promised!Due(p, "then") /\ Promised!Source(p) = j.s
                      /\ Promised!Handles(p) <=> HasHandler
    <2>1. IsPending(p) => /\ Promised!Due(p, "then") /\ Promised!Source(p) = j.s
                          /\ Fates[p].onF = j.r.onF /\ Fates[p].onR = j.r.onR
        BY <1>2, <1>3, JobDue
    <2> QED BY <1>1, <2>1 DEF Promised!Handles, Promised!Source, HasHandler, JobSettlement, Fates
<1>5. CASE RunHandler
    <2> DEFINE f == FrameOf("handler", p, Pending)
    <2>1. /\ frames' = Append(frames, f) /\ queue' = q
          /\ UNCHANGED <<state, reactions, firing, pairs, alloc>> /\ HasHandler
        BY <1>1, <1>3, <1>5 DEF RunHandler, CallUser, Enter, JobPromise
    <2>2. f.cap = p /\ f.k = "handler"
        BY DEF FrameOf
    <2> HIDE DEF f
    <2>3. Claim(p, Promised!Open)'
        <3>1. f \in Range(frames)'
            BY <2>1, EnterRunning, OwnedTypes
        <3> QED BY <2>2, <3>1 DEF Claim, Promised!Open
    <2>4. PICK x : x = Promised!Open /\ Claim(p, x)'
        BY <2>3 DEF Promised!Open
    <2>5. /\ SrcInv' /\ Interruptible' = Interruptible
          /\ Fates' = IF IsPending(p) THEN [Fates EXCEPT ![p] = Promised!Open] ELSE Fates
        <3>1. \A P : KeepsPairs(P)
            BY <2>1, PairsKept
        <3>2. /\ SrcInv'
              /\ Interruptible' = Interruptible \cup (IF f.k \in Interrupts THEN {p} ELSE {})
              /\ Fates' = IF IsPending(p) THEN [Fates EXCEPT ![p] = x] ELSE Fates
            BY <1>1, <1>3, <2>1, <2>2, <2>4, <3>1, CalledFates
        <3> QED BY <2>2, <2>4, <3>2 DEF Interrupts
    <2>6. CASE IsPending(p)
        BY <1>4, <2>1, <2>5, <2>6, AsCallHandler
    <2>7. CASE ~IsPending(p)
        BY <2>5, <2>7 DEF Obeyed
    <2> QED BY <2>6, <2>7
<1>6. CASE RunPassThrough
    <2>1. /\ UNCHANGED <<pairs, frames, alloc>> /\ ~HasHandler
          /\ \/ j.s.st = "fulfilled" /\ ResolveValue(p, j.s.val, <<>>, q)
             \/ j.s.st = "rejected" /\ Reject(p, j.s.val, q)
        BY <1>1, <1>3, <1>6 DEF RunPassThrough, JobPromise, JobSettlement
    <2>2. j.s \in CleanState
        BY <1>2 DEF LiveJob
    <2>3. \/ j.s.st = "fulfilled" /\ ResolveValue(p, j.s.val, <<>>, q)
          \/ j.s.st = "rejected" /\ Settle(p, j.s, <<>>) /\ queue' = q
        <3>1. j.s.st = "rejected" => Rejected(j.s.val) = j.s
            BY <2>2 DEF CleanState, State, Rejected
        <3> QED BY <2>1, <3>1 DEF Reject
    <2>4. Aside({p}) /\ Interruptible' = Interruptible /\ p <= alloc'
        BY <1>3, <2>1, SameRunning, PairsKept, SameAlloc DEF Aside
    <2>5. /\ SrcInv'
          /\ Fates' = IF IsPending(p) THEN [Fates EXCEPT ![p] = j.s] ELSE Fates
        BY <1>2, <1>3, <2>2, <2>3, <2>4, AdoptFates
    <2>6. CASE IsPending(p)
        BY <1>4, <2>1, <2>4, <2>5, <2>6, AsPassOn
    <2>7. CASE ~IsPending(p)
        BY <2>4, <2>5, <2>7 DEF Obeyed
    <2> QED BY <2>6, <2>7
<1> QED BY <1>5, <1>6

(* run_job: a finally callback is called, or an async function goes on. *)
LEMMA ResumeFates ==
    ASSUME IInv, OwnInv, SrcInv, IInv', OwnInv', lost' = lost, RunFinally \/ RunAsyncResume
    PROVE  SrcInv' /\ Obeyed
<1>1. PICK k, j, q : /\ RunsJob(k, j, q) /\ j = Head(queue) /\ q = Tail(queue)
                     /\ \/ RunFinally /\ k = "finallyCall"
                        \/ RunAsyncResume /\ k = "async"
    BY DEF RunsJob, RunFinally, RunAsyncResume
<1>2. j.r.kind = k /\ ~Errand(j.r) /\ Sure(state, j)
    BY <1>1, JobRead DEF Errand
<1>3. PICK p \in Promise : /\ p = j.r.promise /\ p <= alloc
                           /\ IsPending(p) => Fate(p) = FateOf(j.r)
    BY <1>1, JobFate
<1>4. IsPending(p) => Promised!Due(p, k) /\ Promised!Source(p) = j.s
    BY <1>2, <1>3, JobDue
<1>5. PICK f, x : /\ f.cap = p /\ f.k \notin Interrupts
                  /\ frames' = Append(frames, f) /\ queue' = q
                  /\ UNCHANGED <<state, reactions, firing, pairs, alloc>>
                  /\ \/ f.k = "finally" /\ x = Promised!Finishes(f.orig)
                     \/ f.k = "resume" /\ x = Promised!Open
                  /\ \/ k = "finallyCall" /\ x = Promised!Finishes(j.s)
                     \/ k = "async" /\ x = Promised!Open
    <2>1. CASE RunFinally /\ k = "finallyCall"
        <3> DEFINE f == FrameOf("finally", p, j.s)
        <3>1. /\ frames' = Append(frames, f) /\ queue' = q
              /\ UNCHANGED <<state, reactions, firing, pairs, alloc>>
            BY <1>1, <1>3, <2>1 DEF RunFinally, CallUser, Enter, JobPromise, JobSettlement
        <3>2. f.cap = p /\ f.k = "finally" /\ f.orig = j.s
            BY DEF FrameOf
        <3>3. f.k \notin Interrupts /\ Promised!Finishes(j.s) = Promised!Finishes(f.orig)
            BY <3>2 DEF Interrupts
        <3> HIDE DEF f
        <3> QED BY <2>1, <3>1, <3>2, <3>3
    <2>2. CASE RunAsyncResume /\ k = "async"
        <3> DEFINE f == FrameOf("resume", p, Pending)
        <3>1. /\ frames' = Append(frames, f) /\ queue' = q
              /\ UNCHANGED <<state, reactions, firing, pairs, alloc>>
            BY <1>1, <1>3, <2>2 DEF RunAsyncResume, CallUser, Enter, JobPromise
        <3>2. f.cap = p /\ f.k = "resume" /\ f.k \notin Interrupts
            BY DEF FrameOf, Interrupts
        <3> HIDE DEF f
        <3> QED BY <2>2, <3>1, <3>2
    <2> QED BY <1>1, <2>1, <2>2
<1>6. Claim(p, x)'
    <2>1. f \in Range(frames)'
        BY <1>5, EnterRunning, OwnedTypes
    <2> QED BY <1>5, <2>1 DEF Claim, Promised!Open, Promised!Finishes
<1>7. /\ SrcInv' /\ Interruptible' = Interruptible
      /\ Fates' = IF IsPending(p) THEN [Fates EXCEPT ![p] = x] ELSE Fates
    <2>1. \A P : KeepsPairs(P)
        BY <1>5, PairsKept
    <2>2. /\ SrcInv'
          /\ Interruptible' = Interruptible \cup (IF f.k \in Interrupts THEN {p} ELSE {})
          /\ Fates' = IF IsPending(p) THEN [Fates EXCEPT ![p] = x] ELSE Fates
        BY <1>1, <1>3, <1>5, <1>6, <2>1, CalledFates
    <2> QED BY <1>5, <2>2
<1>8. CASE IsPending(p) /\ k = "finallyCall"
    BY <1>4, <1>5, <1>7, <1>8, AsCallFinally
<1>9. CASE IsPending(p) /\ k = "async"
    BY <1>4, <1>5, <1>7, <1>9, AsResume
<1>10. CASE ~IsPending(p)
    BY <1>7, <1>10 DEF Obeyed
<1> QED BY <1>1, <1>8, <1>9, <1>10

(* run_job: the settlement a finally passes on *)
LEMMA PropagateFates ==
    ASSUME IInv, OwnInv, SrcInv, IInv', OwnInv', lost' = lost, RunFinallyPropagate
    PROVE  SrcInv' /\ Obeyed
<1>1. PICK j, q : RunsJob("finallyPropagate", j, q) /\ j = Head(queue) /\ q = Tail(queue)
    <2>1. RunsJob("finallyPropagate", Head(queue), Tail(queue))
        BY DEF RunsJob, RunFinallyPropagate
    <2> QED BY <2>1
<1>2. /\ ~Errand(j.r) /\ Sure(state, j) /\ q \in Seq(Job) /\ <<>> \in Seq(Job)
      /\ j.r.kind = "finallyPropagate"
      /\ Sourced(state, reactions, q, <<>>) /\ Besides(j.r.promise, q, <<>>)
      /\ j \in LiveJob(alloc)
    <2>1. /\ j \in LiveJob(alloc) /\ q \in Seq(Job) /\ <<>> \in Seq(Job) /\ j.r.kind = "finallyPropagate"
          /\ Sourced(state, reactions, q, <<>>) /\ Besides(j.r.promise, q, <<>>)
          /\ Errand(j.r) \/ Sure(state, j)
        BY <1>1, JobRead
    <2>2. ~Errand(j.r)
        BY <2>1 DEF Errand
    <2> QED BY <2>1, <2>2
<1>3. PICK p \in Promise : /\ p = j.r.promise /\ p <= alloc
                           /\ IsPending(p) => Fate(p) = FateOf(j.r)
    BY <1>1, JobFate
<1>4. IsPending(p) => /\ Promised!Due(p, "finallyPropagate") /\ Promised!Source(p) = j.s
                      /\ Fates[p].orig = j.r.orig
    BY <1>2, <1>3, JobDue
<1>5. PICK x \in CleanState :
          /\ x = (IF j.s.st = "rejected" THEN j.s ELSE j.r.orig)
          /\ \/ x.st = "fulfilled" /\ ResolveValue(p, x.val, <<>>, q)
             \/ x.st = "rejected" /\ Settle(p, x, <<>>) /\ queue' = q
    <2>1. j.s \in CleanState /\ j.r.orig \in CleanState
        BY <1>2 DEF LiveJob, LiveReaction
    <2>2. \A s \in CleanState : s.st = "rejected" => Rejected(s.val) = s
        BY DEF CleanState, State, Rejected
    <2>3. \/ j.s.st = "fulfilled" /\ j.r.orig.st = "fulfilled"
             /\ ResolveValue(p, j.r.orig.val, <<>>, q)
          \/ j.s.st = "fulfilled" /\ j.r.orig.st = "rejected" /\ Reject(p, j.r.orig.val, q)
          \/ j.s.st = "rejected" /\ Reject(p, j.s.val, q)
        BY <1>1, <1>3 DEF RunFinallyPropagate, JobPromise, JobSettlement
    <2> QED BY <2>1, <2>2, <2>3 DEF Reject
<1>6. Aside({p}) /\ Interruptible' = Interruptible /\ p <= alloc'
    BY <1>3, SameRunning, PairsKept, SameAlloc DEF Aside, RunFinallyPropagate
<1>7. /\ SrcInv'
      /\ Fates' = IF IsPending(p) THEN [Fates EXCEPT ![p] = x] ELSE Fates
    BY <1>2, <1>3, <1>5, <1>6, AdoptFates
<1>8. CASE IsPending(p)
    BY <1>4, <1>5, <1>6, <1>7, <1>8, AsPropagate
<1>9. CASE ~IsPending(p)
    BY <1>6, <1>7, <1>9 DEF Obeyed
<1> QED BY <1>8, <1>9

(* run_job: the then of a thenable is called with a new pair *)
LEMMA ThenableFates ==
    ASSUME IInv, OwnInv, SrcInv, IInv', OwnInv', lost' = lost, RunThenable
    PROVE  SrcInv' /\ Obeyed
<1>1. PICK j, q : RunsJob("thenable", j, q) /\ j = Head(queue) /\ q = Tail(queue)
    <2>1. RunsJob("thenable", Head(queue), Tail(queue))
        BY DEF RunsJob, RunThenable
    <2> QED BY <2>1
<1>2. j.r.kind = "thenable"
    BY <1>1, JobRead
<1>3. PICK p \in Promise : /\ p = j.r.promise /\ p <= alloc
                           /\ IsPending(p) => Fate(p) = FateOf(j.r)
    BY <1>1, JobFate
<1>4. IsPending(p) => Fate(p) = Promised!Assimilates
    BY <1>2, <1>3 DEF FateOf, Promised!Assimilates
<1> DEFINE f == FrameOf("thenable", p, Pending)
           c == [cap |-> p, used |-> FALSE]
<1>5. /\ frames' = Append(frames, f) /\ queue' = q /\ pairs' = Append(pairs, c)
      /\ UNCHANGED <<state, reactions, firing, alloc>>
    BY <1>1, <1>3 DEF RunThenable, CallUser, Enter, JobPromise
<1>6. f.cap = p /\ f.k \in Interrupts /\ c.cap = p /\ ~c.used
    BY DEF FrameOf, Interrupts
<1> HIDE DEF f, c
<1>7. c \in Range(pairs)' /\ \A P : KeepsPairs(P)
    BY <1>5, PairsKept
<1>8. PICK x : x = Promised!Open /\ Claim(p, x)'
    BY <1>6, <1>7 DEF Claim, Promised!Open
<1>9. /\ SrcInv'
      /\ Interruptible' = Interruptible \cup (IF f.k \in Interrupts THEN {p} ELSE {})
      /\ Fates' = IF IsPending(p) THEN [Fates EXCEPT ![p] = x] ELSE Fates
    BY <1>1, <1>3, <1>5, <1>6, <1>7, <1>8, CalledFates
<1>10. Interruptible' = Interruptible \cup {p}
    BY <1>6, <1>9
<1> QED BY <1>4, <1>8, <1>9, <1>10, AsCallThen

(* run_job: a microtask *)
LEMMA RunMicrotaskFates ==
    ASSUME IInv, OwnInv, SrcInv, IInv', OwnInv', lost' = lost, RunMicrotask
    PROVE  SrcInv' /\ Obeyed
<1>1. PICK j, q : RunsJob("microtask", j, q) /\ j = Head(queue) /\ q = Tail(queue)
    <2>1. RunsJob("microtask", Head(queue), Tail(queue))
        BY DEF RunsJob, RunMicrotask
    <2> QED BY <2>1
<1>2. /\ firing = <<>> /\ j \in LiveJob(alloc) /\ j.r.kind = "microtask"
      /\ Sourced(state, reactions, q, <<>>) /\ Besides(j.r.promise, q, <<>>)
    BY <1>1, JobRead
<1>3. j.r.promise \notin Promise
    <2>1. j.r \in LiveReaction(alloc)
        BY <1>2 DEF LiveJob
    <2>2. ~(j.r.promise >= 1)
        BY <1>2, <2>1 DEF LiveReaction
    <2> QED BY <2>2, BoundsAssumption DEF Promise
<1>4. /\ frames' = Append(frames, FrameOf("microtask", 0, Pending)) \/
            frames' = Append(frames, FrameOf("microtask", j.r.promise, Pending))
      /\ queue' = q /\ UNCHANGED <<state, reactions, firing, pairs, alloc>>
    BY <1>1 DEF RunMicrotask, CallUser, Enter, JobPromise
<1>5. Interruptible' = Interruptible /\ \A P : KeepsRunning(P)
    <2>1. \A p : FrameOf("microtask", p, Pending).k \notin Interrupts
        BY DEF FrameOf, Interrupts
    <2>2. frames \in Seq(Frame)
        BY OwnedTypes
    <2> QED BY <1>4, <2>1, <2>2, EnterRunning
<1>6. SrcInv' /\ KeepsWaiting({j.r.promise})
    <2>1. Reacting' = Reacts(reactions, q, <<>>)
        BY <1>2, <1>4 DEF Reacting, Reacts
    <2>2. SrcInv'
        BY <1>2, <1>4 DEF SrcInv
    <2> QED BY <1>2, <2>1, <2>2 DEF KeepsWaiting, Besides
<1>7. Aside({j.r.promise})
    BY <1>4, <1>5, PairsKept, SameAlloc DEF Aside
<1>8. Fates' = Fates
    <2>1. \A y \in {j.r.promise} : y \in Promise => ~IsPending(y)
        BY <1>3
    <2>2. \A y \in Promise : state'[y] = state[y]
        BY <1>4
    <2> QED BY <1>6, <1>7, <2>1, <2>2, SameFates
<1> QED BY <1>5, <1>6, <1>8 DEF Obeyed

LEMMA RunJobFates ==
    ASSUME IInv, OwnInv, SrcInv, IInv', OwnInv', lost' = lost, RunJob
    PROVE  SrcInv' /\ Obeyed
BY HandlerFates, ResumeFates, PropagateFates, ThenableFates, RunMicrotaskFates DEF RunJob

(* A step of the cascade: a promise that follows another takes its         *)
(* settlement, or a reaction becomes a job.                                *)
LEMMA FireFates ==
    ASSUME IInv, OwnInv, SrcInv, IInv', OwnInv', lost' = lost, FireReaction
    PROVE  /\ SrcInv'
           /\ \/ \E p \in Promise : Promised!Follow(p)
              \/ Fates' = Fates /\ Interruptible' = Interruptible
<1>1. PICK j, rest : j = Head(firing) /\ rest = Tail(firing)
    OBVIOUS
<1>2. /\ firing # <<>> /\ UNCHANGED <<pairs, frames, alloc>>
      /\ \/ j.r.kind = "forward" /\ j.s.st = "fulfilled"
            /\ ResolveValue(j.r.promise, j.s.val, rest, queue)
         \/ j.r.kind = "forward" /\ j.s.st = "rejected"
            /\ Settle(j.r.promise, j.s, rest) /\ queue' = queue
         \/ j.r.kind # "forward" /\ queue' = Append(queue, j) /\ firing' = rest
            /\ UNCHANGED <<state, reactions>>
    BY <1>1 DEF FireReaction
<1>3. firing \in Seq(Job) /\ firing \in Seq(LiveJob(alloc)) /\ queue \in Seq(Job)
    BY LineTypes DEF Store
<1>4. rest \in Seq(Job) /\ j \in LiveJob(alloc) /\ Range(firing) = {j} \cup Range(rest)
    <2>1. Range(firing) = {Head(firing)} \cup Range(Tail(firing))
        BY <1>2, <1>3, RangeTail
    <2> QED BY <1>1, <1>2, <1>3, <2>1
<1>5. ~Errand(j.r) /\ Sure(state, j) /\ Sourced(state, reactions, queue, rest)
    BY <1>4 DEF SrcInv, Sourced
<1>6. PICK p \in Promise : p = j.r.promise /\ p <= alloc
    <2>1. j.r \in LiveReaction(alloc)
        BY <1>4 DEF LiveJob
    <2>2. j.r.promise \in 0 .. MaxPromises /\ j.r.promise >= 1 /\ j.r.promise <= alloc
        BY <1>5, <2>1 DEF LiveReaction, Reaction, Errand
    <2> QED BY <2>2, BoundsAssumption DEF Promise
<1>7. Besides(p, queue, rest)
    <2> SUFFICES ASSUME NEW r \in Reacting, r.promise # p
                 PROVE  r \in Reacts(reactions, queue, rest)
        BY DEF Besides
    <2>1. \A i \in Range(firing) : r = i.r => i \in Range(rest)
        BY <1>4, <1>6
    <2> QED BY <2>1, ReactingMembers, ReactsMembers
<1>8. Aside({p}) /\ Interruptible' = Interruptible /\ p <= alloc'
    BY <1>2, <1>6, SameRunning, PairsKept, SameAlloc DEF Aside
<1>9. CASE j.r.kind = "forward"
    <2>1. j.s \in CleanState
        BY <1>4 DEF LiveJob
    <2>2. \/ j.s.st = "fulfilled" /\ ResolveValue(p, j.s.val, rest, queue)
          \/ j.s.st = "rejected" /\ Settle(p, j.s, rest) /\ queue' = queue
        BY <1>2, <1>6, <1>9
    <2>3. SrcInv' /\ Fates' = IF IsPending(p) THEN [Fates EXCEPT ![p] = j.s] ELSE Fates
        BY <1>3, <1>4, <1>5, <1>7, <1>8, <2>1, <2>2, AdoptFates
    <2>4. CASE IsPending(p)
        <3>1. Fate(p) = FateOf(j.r)
            <4>1. j.r \in Reacting
                BY <1>4, ReactingMembers
            <4>2. Claim(p, FateOf(j.r))
                BY <1>6, <4>1 DEF Claim
            <4>3. PICK x : x = FateOf(j.r)
                OBVIOUS
            <4>4. Fate(p) = x
                BY <1>6, <2>4, <4>2, <4>3, ClaimedFate
            <4> QED BY <4>3, <4>4
        <3>2. Promised!Due(p, "forward") /\ Promised!Source(p) = j.s
            BY <1>5, <1>9, <3>1, JobDue
        <3>3. Promised!Follow(p)
            BY <1>8, <2>3, <2>4, <3>2 DEF Promised!Follow, Promised!Becomes, Fates
        <3> QED BY <2>3, <3>3
    <2>5. CASE ~IsPending(p)
        BY <1>8, <2>3, <2>5
    <2> QED BY <2>4, <2>5
<1>10. CASE j.r.kind # "forward"
    <2>1. queue' = Append(queue, j) /\ firing' = rest /\ UNCHANGED <<state, reactions>>
        BY <1>2, <1>10
    <2>2. Range(queue') = Range(queue) \cup {j}
        BY <2>1, JoinsQueue
    <2>3. SrcInv'
        <3>1. Sourced(state, reactions, queue', rest)
            BY <1>5, <1>10, <2>2, SourcedJob
        <3> QED BY <2>1, <3>1 DEF SrcInv
    <2>4. KeepsWaiting({})
        <3> SUFFICES ASSUME NEW r \in Reacting PROVE r \in Reacts(reactions', queue', firing')
            BY DEF KeepsWaiting, Reacting, Reacts
        <3>1. CASE \E y \in Promise : r \in Range(reactions[y])
            BY <2>1, <3>1, ReactsMembers
        <3>2. CASE \E i \in Range(queue) : r = i.r
            BY <2>2, <3>2, ReactsMembers
        <3>3. CASE \E i \in Range(firing) : r = i.r
            <4>1. PICK i \in Range(firing) : r = i.r
                BY <3>3
            <4>2. i \in Range(queue') \/ i \in Range(firing')
                BY <1>4, <2>1, <2>2
            <4> QED BY <4>1, <4>2, ReactsMembers
        <3> QED BY <3>1, <3>2, <3>3, ReactingMembers
    <2>5. Aside({}) /\ \A y \in Promise : state'[y] = state[y]
        BY <1>2, <2>1, SameRunning, PairsKept, SameAlloc DEF Aside
    <2>6. Fates' = Fates
        BY <2>4, <2>5, SameFates
    <2> QED BY <1>8, <2>3, <2>6
<1> QED BY <1>9, <1>10

(* What user code and its completions do, and the jobs, with no cascade    *)
LEMMA TurnFates ==
    ASSUME IInv, OwnInv, SrcInv, IInv', OwnInv', [Next]_vars, ~FireReaction, ~HitJobLimit
    PROVE  /\ SrcInv' /\ Obeyed
           /\ firing = <<>> \/ (Fates' = Fates /\ Interruptible' = Interruptible)
<1>0. lost' = lost
    BY LostKept
<1>1. CASE UNCHANGED vars
    BY <1>0, <1>1, VarsFates DEF Obeyed
<1>2. CASE StartEval \/ FinishEval \/ EndDrain \/ TakeUnhandled
    <2>1. firing = <<>>
        BY <1>2 DEF StartEval, FinishEval, EndDrain, TakeUnhandled, Draining, Quiet
    <2> QED BY <1>0, <1>2, <2>1, EvalFates
<1>3. CASE RunJob
    <2>1. firing = <<>>
        BY <1>3 DEF RunJob, RunHandler, RunPassThrough, RunFinally, RunFinallyPropagate,
                    RunAsyncResume, RunThenable, RunMicrotask, NextJob, Draining, Quiet
    <2> QED BY <1>0, <1>3, <2>1, RunJobFates
<1>4. CASE UserCall
    <2>0. firing = <<>>
        BY <1>4 DEF UserCall, NewPromise, WithResolvers, QueueMicrotask, CallAsync, CallResolve,
                    CallReject, Then, Finally, AwaitPromise, StaticResolve, AwaitOther,
                    StaticReject, Calls, InAsync, UserTurn, Quiet
    <2>1. CASE NewPromise \/ WithResolvers \/ CallAsync
        BY <1>0, <2>0, <2>1, MakeFates
    <2>2. CASE QueueMicrotask
        BY <1>0, <2>0, <2>2, MicrotaskFates
    <2>3. CASE \E i \in DOMAIN pairs :
                  \/ \E v \in Value : UserValue(v) /\ CallResolve(i, v)
                  \/ \E e \in Reasons : CallReject(i, e)
        BY <1>0, <2>0, <2>3, ResolverFates
    <2>4. CASE \E p \in Promise : (\E f, r \in BOOLEAN : Then(p, f, r)) \/ Finally(p)
        BY <1>0, <2>0, <2>4, ThenFates
    <2>5. CASE \E p \in Promise : AwaitPromise(p)
        BY <1>0, <2>0, <2>5, AwaitFates
    <2>6. CASE (\E v \in Inputs : StaticResolve(v)) \/ (\E e \in Reasons : StaticReject(e))
        BY <1>0, <2>0, <2>6, StaticFates
    <2>7. CASE \E v \in Inputs : AwaitOther(v)
        BY <1>0, <2>0, <2>7, AwaitOtherFates
    <2> QED BY <1>4, <2>1, <2>2, <2>3, <2>4, <2>5, <2>6, <2>7 DEF UserCall
<1>5. CASE Complete
    <2>0. firing = <<>>
        BY <1>5 DEF Complete, ReturnValue, ReturnFinally, ReturnIgnored, ThrowRejects,
                    ThrowMicrotask, UserTurn, Quiet
    <2>1. CASE \E v \in Value : UserValue(v) /\ ReturnFinally(v)
        BY <1>0, <2>0, <2>1, ReturnFinallyFates
    <2>2. CASE \/ \E v \in Value : UserValue(v) /\ ReturnValue(v)
               \/ \E e \in Reasons : ThrowRejects(e)
        BY <1>0, <2>0, <2>2, ReturnFates
    <2>3. CASE ReturnIgnored \/ ThrowMicrotask
        BY <1>0, <2>0, <2>3, IgnoredFates
    <2> QED BY <1>5, <2>1, <2>2, <2>3 DEF Complete
<1> QED BY <1>1, <1>2, <1>3, <1>4, <1>5 DEF Next

(* No dropped job was a Forward: those are never queued. *)
LostInv == \A j \in Range(lost) : j.r.kind # "forward"

(* A drain that gives up changes no fate: the promise of the job it drops  *)
(* waits for ever.                                                         *)
LEMMA HitLimitFates ==
    ASSUME IInv, OwnInv, SrcInv, LostInv, IInv', OwnInv', HitJobLimit
    PROVE  /\ SrcInv' /\ LostInv'
           /\ Fates' = Fates /\ Interruptible' = Interruptible
<1>1. /\ UNCHANGED <<state, reactions, firing, pairs, alloc>> /\ Top.k = "drain"
      /\ queue # <<>> /\ queue' = Tail(queue) /\ frames # <<>> /\ frames' = Below
      /\ lost' = IF JobPromise = 0 THEN lost ELSE Append(lost, Head(queue))
    BY DEF HitJobLimit, Draining, StopDraining, Quiet, Leave
<1>2. queue \in Seq(Job) /\ frames \in Seq(Frame) /\ lost \in Seq(Job)
    BY OwnedTypes, LostTypes
<1>3. Range(queue) = {Head(queue)} \cup Range(queue')
    BY <1>1, <1>2, RangeTail
<1>4. Range(lost') = IF JobPromise = 0 THEN Range(lost) ELSE Range(lost) \cup {Head(queue)}
    BY <1>1, <1>2, RangeAppend, HeadTail
<1>5. SrcInv'
    BY <1>1, <1>3 DEF SrcInv, Sourced, Sure
<1>6. LostInv'
    <2>1. Head(queue).r.kind # "forward"
        BY <1>3 DEF SrcInv, Sourced
    <2> QED BY <1>4, <2>1 DEF LostInv, Range
<1>7. Interruptible' = Interruptible /\ \A P : KeepsRunning(P)
    BY <1>1, <1>2, LeaveRunning DEF Resolving, Interrupts
<1>8. Readable /\ Readable'
    <2>1. Readable
        BY FateRead
    <2>2. IInv' /\ OwnInv' => Readable'
        BY FateRead, PTL
    <2> QED BY <2>1, <2>2
<1>9. ASSUME NEW y \in Promise PROVE Fate(y)' = Fate(y)
    <2>1. alloc \in Nat /\ y \in Nat /\ y # 0 /\ (IsPending(y)' <=> IsPending(y))
        BY <1>1, LineTypes, BoundsAssumption DEF Promise, IsPending
    <2>2. CASE y > alloc \/ ~IsPending(y)
        BY <1>1, <1>8, <2>1, <2>2 DEF Readable
    <2>3. CASE y <= alloc /\ IsPending(y)
        <3>1. Claim(y, Fate(y))
            BY <1>8, <2>3 DEF Readable
        <3>2. PICK x : x = Fate(y)
            OBVIOUS
        <3>3. ASSUME NEW r \in Reacting, r.promise = y, x = FateOf(r) PROVE Claim(y, x)'
            <4>1. CASE \E q \in Promise : r \in Range(reactions[q])
                <5>1. r \in Reacting'
                    BY <1>1, <4>1 DEF Reacting
                <5> QED BY <3>3, <5>1 DEF Claim
            <4>2. CASE \E j \in Range(firing) : r = j.r
                <5>1. r \in Reacting'
                    BY <1>1, <4>2 DEF Reacting
                <5> QED BY <3>3, <5>1 DEF Claim
            <4>3. CASE \E j \in Range(queue') : r = j.r
                <5>1. r \in Reacting'
                    BY <4>3 DEF Reacting
                <5> QED BY <3>3, <5>1 DEF Claim
            <4>4. CASE r = Head(queue).r
                <5>1. Head(queue) \in Range(lost')
                    BY <1>4, <2>1, <3>3, <4>4 DEF JobPromise
                <5>2. Head(queue) \in Range(lost)'
                    BY <5>1
                <5> QED BY <3>3, <4>4, <5>2 DEF Claim
            <4> QED BY <1>3, <4>1, <4>2, <4>3, <4>4, ReactingMembers
        <3>4. ASSUME NEW f \in Range(frames), f.k \in Resolving, f.cap = y
              PROVE  f \in Range(frames)'
            <4>1. KeepsRunning({})
                BY <1>7
            <4> QED BY <3>4, <4>1 DEF KeepsRunning
        <3>5. Range(pairs)' = Range(pairs) /\ \A j \in Range(lost) : j \in Range(lost)'
            BY <1>1, <1>4 DEF Range
        <3>6. Claim(y, x)'
            BY <3>1, <3>2, <3>3, <3>4, <3>5 DEF Claim, Resolving, Promised!Open, Promised!Finishes
        <3>7. Fate(y)' = x
            BY <1>1, <1>8, <2>1, <2>3, <3>6 DEF Readable
        <3> QED BY <3>2, <3>7
    <2> QED BY <2>1, <2>2, <2>3
<1> QED BY <1>5, <1>6, <1>7, <1>9 DEF Fates

(* When no cascade runs, every promise that follows a settled one has      *)
(* settled with it.                                                        *)
LEMMA PromptNow ==
    ASSUME IInv, OwnInv, SrcInv, LostInv, firing = <<>>
    PROVE  Promised!Prompt
<1> SUFFICES ASSUME NEW p \in Promise, Promised!Due(p, "forward") PROVE FALSE
    BY DEF Promised!Prompt
<1>1. Fates[p].st = "waits" /\ Fates[p].how = "forward" /\ Promised!IsSettled(Fates[p].on)
    BY DEF Promised!Due, Fates
<1>2. Fates[p] = Fate(p)
    BY DEF Fates
<1>3. p <= alloc /\ IsPending(p) /\ Claim(p, Fate(p))
    <2>1. ~Done(Fate(p)) /\ Fate(p) # Promised!Unmade
        BY <1>1, <1>2 DEF Done, Promised!Unmade
    <2>2. IsPending(p) /\ ~(p > alloc)
        BY <2>1, FateShape
    <2>3. p <= alloc
        BY <2>2, LineTypes, BoundsAssumption DEF Promise
    <2> QED BY <2>2, <2>3, FateRead DEF Readable
<1>4. PICK r \in Reacting : r.promise = p /\ Fate(p) = FateOf(r)
    BY <1>1, <1>2, <1>3 DEF Claim, FateOf, LostInv, Promised!Finishes, Promised!Open
<1>5. r.kind = "forward" /\ r.on = Fates[p].on
    BY <1>1, <1>2, <1>4 DEF FateOf
<1>6. PICK q \in Promise : r \in Range(reactions[q]) /\ r.on = q
    <2>1. Range(<<>>) = {}
        BY RangeShort
    <2>2. \A j \in Range(queue) : j.r.kind # "forward"
        BY DEF SrcInv, Sourced
    <2>3. PICK q \in Promise : r \in Range(reactions[q])
        BY <1>5, <2>1, <2>2, ReactingMembers
    <2> QED BY <2>3 DEF SrcInv, Sourced
<1>7. ~IsPending(q)
    BY <1>1, <1>5, <1>6, SpecGuards
<1>8. reactions[q] = <<>>
    BY <1>7, LineTypes DEF Store, SettledClean
<1> QED BY <1>6, <1>8, RangeShort

LEMMA FatesStart == Init => SrcInv /\ LostInv /\ Promised!Init
<1> SUFFICES ASSUME Init PROVE SrcInv /\ LostInv /\ Promised!Init
    OBVIOUS
<1>1. Range(<<>>) = {}
    BY RangeShort
<1>2. SrcInv
    BY <1>1 DEF Init, SrcInv, Sourced
<1>5. LostInv
    BY <1>1 DEF Init, LostInv
<1>3. ASSUME NEW p \in Promise PROVE Fate(p) = Promised!Unmade
    <2>1. alloc = 0 /\ p \in Nat /\ p >= 1
        BY BoundsAssumption DEF Init, Promise
    <2>2. p > alloc /\ ~(p <= alloc)
        BY <2>1
    <2> QED BY <2>2 DEF Fate, Promised!Unmade
<1>4. Interruptible = {}
    BY <1>1 DEF Init, Interruptible
<1> QED BY <1>2, <1>3, <1>4, <1>5 DEF Promised!Init

(* Promises keeps its promises: whatever user code calls, and however      *)
(* settlement, adoption, assimilation, handlers, finally callbacks and     *)
(* await interleave with it, the resolver flags, the reaction lists, the   *)
(* job queue and the recursion of settle_promise take every promise from   *)
(* one fate to the next only as PromiseSpec lets it.                       *)
THEOREM ImplementsPromiseSpec == Spec => KeepsPromises
<1> DEFINE Inv == IInv /\ OwnInv /\ SrcInv /\ LostInv
<1>1. Init => Inv /\ Promised!Init
    BY InitInv, OwnInit, FatesStart
<1>2. Inv /\ [Next]_vars => Inv' /\ [Promised!Next]_<<[p \in Promise |-> Fate(p)], Interruptible>>
    <2> SUFFICES ASSUME Inv, [Next]_vars
                 PROVE  Inv' /\ (Promised!Next \/ (Fates' = Fates /\ Interruptible' = Interruptible))
        BY DEF Fates
    <2>1. IInv' /\ OwnInv'
        BY NextInv, OwnNext
    <2>4. CASE HitJobLimit
        BY <2>1, <2>4, HitLimitFates
    <2>5. ASSUME ~HitJobLimit PROVE lost' = lost /\ LostInv'
        BY <2>5, LostKept DEF LostInv, Range
    <2>2. CASE FireReaction
        <3>1. ~HitJobLimit
            BY <2>2 DEF FireReaction, HitJobLimit, Draining, Quiet
        <3> QED BY <2>1, <2>2, <2>5, <3>1, FireFates DEF Promised!Next
    <2>3. CASE ~FireReaction /\ ~HitJobLimit
        <3>1. /\ SrcInv' /\ Obeyed
              /\ firing = <<>> \/ (Fates' = Fates /\ Interruptible' = Interruptible)
            BY <2>1, <2>3, TurnFates
        <3>2. firing = <<>> => Promised!Prompt
            BY PromptNow
        <3> QED BY <2>1, <2>3, <2>5, <3>1, <3>2 DEF Obeyed, Promised!Next
    <2> QED BY <2>2, <2>3, <2>4
<1> QED BY <1>1, <1>2, PTL DEF Spec, KeepsPromises, Promised!Spec, Promised!fateVars

===============================================================================
