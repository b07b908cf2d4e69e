--------------------------- MODULE GeneratorsProofs ---------------------------
(* Machine-checked proofs about Generators, for every value of its         *)
(* constants.                                                              *)
EXTENDS Generators, SequenceTheorems, TLAPS

-----------------------------------------------------------------------------
(* The innermost body has the sink, and each body puts back that of the    *)
(* one around it.                                                          *)
Nested ==
  /\ sink = Len(bodies)
  /\ \A i \in 1..Len(bodies) : bodies[i].prev = i - 1

(* A generator nobody disturbed runs its body once, which has the sink to  *)
(* itself; before that it has nothing, after it what it owes.              *)
Once(g) ==
  \A i, j \in 1..Len(bodies) : bodies[i].gen = g /\ bodies[j].gen = g => i = j
Collects(g) ==
  \A i \in 1..Len(bodies) : bodies[i].gen = g =>
    ~gens[g].started /\ bodies[i].out = owed[g]
Unstarted(g) ==
  ~gens[g].started =>
    /\ gens[g] = Fresh /\ given[g] = <<>>
    /\ ~Within(g) => owed[g] = <<>>
Serves(g) == gens[g].started => given[g] \o Rest(gens[g]) = owed[g]

Good(g) == Once(g) /\ Collects(g) /\ Unstarted(g) /\ Serves(g)

GInv ==
  /\ GeneratorsTypeOK
  /\ Nested
  /\ \A g \in Gens \ disturbed : Good(g)

-----------------------------------------------------------------------------
(* Handing out a value moves it from what is left to what was given.       *)
LEMMA HandingOut ==
  ASSUME NEW T, NEW v \in Seq(T), NEW i \in Nat, i < Len(v), NEW s \in Seq(T)
  PROVE  Append(s, v[i + 1]) \o SubSeq(v, i + 2, Len(v)) = s \o SubSeq(v, i + 1, Len(v))
<1> DEFINE x == v[i + 1]
           one == <<x>>
           left == SubSeq(v, i + 2, Len(v))
<1>0. Len(v) \in Nat /\ i + 1 \in 1..Len(v) /\ (i + 1) + 1 = i + 2
  OBVIOUS
<1>1. x \in T
  BY <1>0
<1>2. SubSeq(v, i + 1, Len(v)) = one \o left
  BY <1>0, SubSeqRecursiveFirst
<1>3. left \in Seq(T) /\ one \in Seq(T)
  BY <1>0, <1>1, SubSeqProperties
<1>4. Append(s, x) = s \o one
  BY <1>1, AppendIsConcat
<1> HIDE DEF one, left
<1>5. (s \o one) \o left = s \o (one \o left)
  BY <1>3, ConcatAssociative
<1> QED BY <1>2, <1>4, <1>5 DEF left

(* What next makes of a generator, r being its record.                     *)
LEMMA HandOutTypes ==
  ASSUME GeneratorsTypeOK, NEW g \in Gens, NEW r \in GenRec, HandOut(g, r)
  PROVE  /\ gens' \in [Gens -> GenRec] /\ given' \in [Gens -> Seq(Item)]
         /\ gens'[g].started = r.started
         /\ \A h \in Gens \ {g} : gens'[h] = gens[h] /\ given'[h] = given[h]
         /\ g \notin disturbed => given'[g] \o Rest(gens'[g]) = given[g] \o Rest(r)
<1>0. /\ gens \in [Gens -> GenRec] /\ given \in [Gens -> Seq(Item)]
      /\ r.values \in Seq(Item) /\ r.index \in Nat /\ given[g] \in Seq(Item)
      /\ Len(r.values) \in Nat
  BY DEF GeneratorsTypeOK, GenRec
<1>1. CASE ~(r.index < Len(r.values))
  <2>1. gens' = [gens EXCEPT ![g] = r] /\ given' = given
    BY <1>1 DEF HandOut
  <2> QED BY <1>0, <2>1
<1>2. CASE r.index < Len(r.values)
  <2> DEFINE q == Advanced(r)
             x == r.values[r.index + 1]
  <2>1. /\ gens' = [gens EXCEPT ![g] = q]
        /\ given' = IF g \in disturbed THEN given ELSE [given EXCEPT ![g] = Append(@, x)]
    BY <1>2 DEF HandOut
  <2>2. /\ q \in GenRec /\ q.started = r.started /\ q.values = r.values
        /\ q.index = r.index + 1 /\ q.index + 1 = r.index + 2
    <3>1. q.started = r.started /\ q.values = r.values /\ q.index = r.index + 1
      BY DEF Advanced
    <3>2. q \in GenRec
      BY <1>0 DEF GenRec, Advanced
    <3> QED BY <1>0, <3>1, <3>2
  <2>3. x \in Item
    BY <1>0, <1>2
  <2>4. gens' \in [Gens -> GenRec] /\ given' \in [Gens -> Seq(Item)]
    BY <1>0, <2>1, <2>2, <2>3
  <2>5. gens'[g] = q /\ (g \notin disturbed => given'[g] = Append(given[g], x))
    BY <1>0, <2>1
  <2>6. \A h \in Gens \ {g} : gens'[h] = gens[h] /\ given'[h] = given[h]
    BY <1>0, <2>1
  <2>7. Append(given[g], x) \o SubSeq(r.values, r.index + 2, Len(r.values))
          = given[g] \o SubSeq(r.values, r.index + 1, Len(r.values))
    BY <1>0, <1>2, HandingOut
  <2>8. Rest(q) = SubSeq(r.values, r.index + 2, Len(r.values))
    BY <2>2 DEF Rest
  <2> QED BY <2>2, <2>4, <2>5, <2>6, <2>7, <2>8 DEF Rest
<1> QED BY <1>1, <1>2

-----------------------------------------------------------------------------
(* What every action needs of the state before it.                         *)
TypeFacts ==
  /\ gens \in [Gens -> GenRec] /\ bodies \in Seq(BodyRec) /\ sink \in Nat
  /\ given \in [Gens -> Seq(Item)] /\ owed \in [Gens -> Seq(Item)]
  /\ disturbed \subseteq Gens
  /\ Len(bodies) \in Nat /\ DOMAIN bodies = 1..Len(bodies)
  /\ \A i \in 1..Len(bodies) :
       /\ bodies[i] \in BodyRec /\ bodies[i].gen \in Gens
       /\ bodies[i].out \in Seq(Item) /\ bodies[i].prev \in Nat

LEMMA Types == GInv => TypeFacts
<1> SUFFICES ASSUME GInv PROVE TypeFacts
  OBVIOUS
<1>1. GeneratorsTypeOK
  BY DEF GInv
<1>2. Len(bodies) \in Nat /\ DOMAIN bodies = 1..Len(bodies)
      /\ \A i \in 1..Len(bodies) : bodies[i] \in BodyRec
  BY <1>1 DEF GeneratorsTypeOK
<1> QED BY <1>1, <1>2 DEF GeneratorsTypeOK, BodyRec, TypeFacts

(* A generator no action touches stays good.                               *)
LEMMA Untouched ==
  ASSUME NEW g \in Gens, Good(g),
         gens'[g] = gens[g], given'[g] = given[g], owed'[g] = owed[g],
         Len(bodies) \in Nat, Len(bodies') \in Nat,
         DOMAIN bodies = 1..Len(bodies), DOMAIN bodies' = 1..Len(bodies'),
         \A i \in 1..Len(bodies') : bodies'[i].gen = g =>
           i \in 1..Len(bodies) /\ bodies[i].gen = g /\ bodies'[i].out = bodies[i].out,
         \A i \in 1..Len(bodies) : bodies[i].gen = g =>
           i \in 1..Len(bodies') /\ bodies'[i].gen = g
  PROVE  Good(g)'
<1>1. Once(g)'
  BY DEF Good, Once
<1>2. Collects(g)'
  BY DEF Good, Collects
<1>3. Within(g)' => Within(g)
  BY DEF Within
<1>4. Within(g) => Within(g)'
  BY DEF Within
<1>5. Unstarted(g)'
  BY <1>3, <1>4 DEF Good, Unstarted, Fresh
<1>6. Serves(g)'
  BY DEF Good, Serves, Rest
<1> QED BY <1>1, <1>2, <1>5, <1>6 DEF Good

LEMMA NextFirstKeeps ==
  ASSUME GInv, NEW g \in Gens, NextFirst(g)
  PROVE  GInv'
<1>t. TypeFacts
  BY Types
<1> USE <1>t DEF TypeFacts
<1> DEFINE n == Len(bodies) + 1
<1>0. /\ ~gens[g].started /\ bodies' = Append(bodies, Body(g)) /\ sink' = n
      /\ gens' = gens /\ Disturb({h \in {g} : Within(h)})
  BY DEF NextFirst
<1>1. /\ disturbed \subseteq disturbed' /\ disturbed' \subseteq Gens
      /\ Within(g) => g \in disturbed'
      /\ given' \in [Gens -> Seq(Item)] /\ owed' \in [Gens -> Seq(Item)]
      /\ \A h \in Gens \ disturbed' : given'[h] = given[h] /\ owed'[h] = owed[h]
  BY <1>0 DEF Disturb
<1>2. Body(g) \in BodyRec /\ Body(g).gen = g /\ Body(g).out = <<>> /\ Body(g).prev = sink
  BY DEF Body, BodyRec
<1>3. /\ bodies' \in Seq(BodyRec) /\ Len(bodies') = n /\ bodies'[n] = Body(g)
      /\ \A i \in 1..Len(bodies) : bodies'[i] = bodies[i]
      /\ DOMAIN bodies' = 1..Len(bodies')
  BY <1>0, <1>2
<1>4. GeneratorsTypeOK'
  BY <1>0, <1>1, <1>3 DEF GeneratorsTypeOK
<1>5. Nested'
  <2>1. sink = Len(bodies) /\ \A i \in 1..Len(bodies) : bodies[i].prev = i - 1
    BY DEF GInv, Nested
  <2>2. ASSUME NEW i \in 1..n PROVE bodies'[i].prev = i - 1
    <3>1. CASE i = n
      BY <3>1, <2>1, <1>2, <1>3
    <3>2. CASE i # n
      BY <3>2, <2>1, <1>3
    <3> QED BY <3>1, <3>2
  <2> QED BY <2>2, <1>0, <1>3 DEF Nested
<1>6. ASSUME NEW h \in Gens \ disturbed' PROVE Good(h)'
  <2>1. Good(h)
    BY <1>1 DEF GInv
  <2>2. CASE h # g
    <3>1. \A i \in 1..Len(bodies') : bodies'[i].gen = h =>
            i \in 1..Len(bodies) /\ bodies[i].gen = h /\ bodies'[i].out = bodies[i].out
      <4> TAKE i \in 1..Len(bodies')
      <4>1. CASE i = n
        BY <4>1, <2>2, <1>2, <1>3
      <4>2. CASE i # n
        BY <4>2, <1>3
      <4> QED BY <4>1, <4>2
    <3>2. \A i \in 1..Len(bodies) : bodies[i].gen = h =>
            i \in 1..Len(bodies') /\ bodies'[i].gen = h
      BY <1>3
    <3>3. /\ gens'[h] = gens[h] /\ given'[h] = given[h] /\ owed'[h] = owed[h]
          /\ Len(bodies') \in Nat
      BY <1>0, <1>1, <1>3
    <3> QED BY <1>3, <2>1, <3>1, <3>2, <3>3, Untouched
  <2>3. CASE h = g
    <3>1. ~Within(g)
      BY <1>1, <2>3
    <3>2. \A i \in 1..Len(bodies) : bodies[i].gen # g
      BY <3>1 DEF Within
    <3>3. gens[g] = Fresh /\ given[g] = <<>> /\ owed[g] = <<>>
      BY <1>0, <2>1, <2>3, <3>1 DEF Good, Unstarted
    <3>4. \A i \in 1..Len(bodies') : bodies'[i].gen = g => i = n
      <4> TAKE i \in 1..Len(bodies')
      <4>1. i # n => i \in 1..Len(bodies)
        BY <1>3
      <4> QED BY <4>1, <1>3, <3>2
    <3>5. Within(g)'
      <4>1. n \in DOMAIN bodies' /\ bodies'[n].gen = g
        BY <1>2, <1>3
      <4> QED BY <4>1 DEF Within
    <3>6. Once(g)'
      BY <3>4 DEF Once
    <3>7. Collects(g)'
      BY <1>0, <1>1, <1>2, <1>3, <2>3, <3>3, <3>4 DEF Collects
    <3>8. Unstarted(g)' /\ Serves(g)'
      BY <1>0, <1>1, <2>3, <3>3, <3>5 DEF Unstarted, Serves
    <3> QED BY <2>3, <3>6, <3>7, <3>8 DEF Good
  <2> QED BY <2>2, <2>3
<1> QED BY <1>4, <1>5, <1>6 DEF GInv

LEMMA NextAgainKeeps ==
  ASSUME GInv, NEW g \in Gens, NextAgain(g)
  PROVE  GInv'
<1>t. TypeFacts
  BY Types
<1> USE <1>t DEF TypeFacts
<1>0. /\ gens[g].started /\ HandOut(g, gens[g])
      /\ bodies' = bodies /\ sink' = sink /\ owed' = owed /\ disturbed' = disturbed
  BY DEF NextAgain
<1>1. /\ gens' \in [Gens -> GenRec] /\ given' \in [Gens -> Seq(Item)]
      /\ gens'[g].started
      /\ \A h \in Gens \ {g} : gens'[h] = gens[h] /\ given'[h] = given[h]
      /\ g \notin disturbed => given'[g] \o Rest(gens'[g]) = given[g] \o Rest(gens[g])
  <2>1. GeneratorsTypeOK /\ gens[g] \in GenRec
    BY DEF GInv
  <2> QED BY <1>0, <2>1, HandOutTypes
<1>2. GeneratorsTypeOK'
  BY <1>0, <1>1 DEF GeneratorsTypeOK
<1>3. Nested'
  BY <1>0 DEF GInv, Nested
<1>4. ASSUME NEW h \in Gens \ disturbed' PROVE Good(h)'
  <2>1. Good(h)
    BY <1>0 DEF GInv
  <2>2. CASE h # g
    <3>1. gens'[h] = gens[h] /\ given'[h] = given[h] /\ owed'[h] = owed[h]
      BY <1>0, <1>1, <2>2
    <3> QED BY <1>0, <2>1, <3>1, Untouched
  <2>3. CASE h = g
    <3>1. \A i \in 1..Len(bodies) : bodies[i].gen # g
      BY <1>0, <2>1, <2>3 DEF Good, Collects
    <3>2. Once(g)' /\ Collects(g)'
      BY <1>0, <3>1 DEF Once, Collects
    <3>3. Unstarted(g)'
      BY <1>1 DEF Unstarted
    <3>4. given[g] \o Rest(gens[g]) = owed[g]
      BY <1>0, <2>1, <2>3 DEF Good, Serves
    <3>5. given'[g] \o Rest(gens'[g]) = owed'[g]
      BY <1>0, <1>1, <2>3, <3>4
    <3>6. Serves(g)'
      BY <3>5 DEF Serves, Rest
    <3> QED BY <2>3, <3>2, <3>3, <3>6 DEF Good
  <2> QED BY <2>2, <2>3
<1> QED BY <1>2, <1>3, <1>4 DEF GInv

LEMMA BodyEndsKeeps ==
  ASSUME GInv, BodyEnds
  PROVE  GInv'
<1>t. TypeFacts
  BY Types
<1> USE <1>t DEF TypeFacts
<1>n. PICK n : n = Len(bodies)
  OBVIOUS
<1>a. n \in 1..n
  BY <1>n DEF BodyEnds
<1>g. PICK g \in Gens : g = bodies[n].gen
  BY <1>n, <1>a
<1>o. PICK out \in Seq(Item) : out = bodies[n].out
  BY <1>n, <1>a
<1>r. PICK r \in GenRec : r = Ran(gens[g], out)
  BY DEF GenRec, Ran
<1>0. /\ HandOut(g, r) /\ sink' = bodies[n].prev /\ bodies' = Front(bodies)
      /\ owed' = owed /\ disturbed' = disturbed
  BY <1>n, <1>g, <1>o, <1>r DEF BodyEnds, Innermost, Restored
<1>1. r.started /\ r.values = out /\ r.index = gens[g].index
  BY <1>r DEF Ran
<1>2. /\ gens' \in [Gens -> GenRec] /\ given' \in [Gens -> Seq(Item)]
      /\ gens'[g].started
      /\ \A h \in Gens \ {g} : gens'[h] = gens[h] /\ given'[h] = given[h]
      /\ g \notin disturbed => given'[g] \o Rest(gens'[g]) = given[g] \o Rest(r)
  <2>1. GeneratorsTypeOK
    BY DEF GInv
  <2> QED BY <1>0, <1>1, <2>1, HandOutTypes
<1>3. /\ bodies' \in Seq(BodyRec) /\ Len(bodies') = n - 1 /\ Len(bodies') \in Nat
      /\ \A i \in 1..Len(bodies') :
           i \in 1..Len(bodies) /\ i \in 1..n /\ i # n /\ bodies'[i] = bodies[i]
      /\ \A i \in 1..Len(bodies) :
           i # n => i \in 1..Len(bodies') /\ bodies'[i] = bodies[i]
      /\ DOMAIN bodies' = 1..Len(bodies')
  BY <1>0, <1>n, <1>a DEF Front
<1>4. GeneratorsTypeOK'
  <2>1. bodies[n].prev \in Nat
    BY <1>n, <1>a
  <2> QED BY <1>0, <1>2, <1>3, <2>1 DEF GeneratorsTypeOK
<1>5. Nested'
  <2>1. sink = n /\ \A i \in 1..Len(bodies) : bodies[i].prev = i - 1
    BY <1>n DEF GInv, Nested
  <2>2. sink' = Len(bodies')
    BY <2>1, <1>0, <1>3, <1>n, <1>a
  <2> QED BY <2>1, <2>2, <1>3 DEF Nested
<1>6. ASSUME NEW h \in Gens \ disturbed' PROVE Good(h)'
  <2>1. Good(h)
    BY <1>0 DEF GInv
  <2>2. CASE h # g
    <3>1. gens'[h] = gens[h] /\ given'[h] = given[h] /\ owed'[h] = owed[h]
      BY <1>0, <1>2, <2>2
    <3>2. \A i \in 1..Len(bodies) : bodies[i].gen = h =>
            i \in 1..Len(bodies') /\ bodies'[i].gen = h
      <4> TAKE i \in 1..Len(bodies)
      <4>1. i # n => i \in 1..Len(bodies') /\ bodies'[i] = bodies[i]
        BY <1>3
      <4> QED BY <4>1, <2>2, <1>g
    <3>3. \A i \in 1..Len(bodies') : bodies'[i].gen = h =>
            i \in 1..Len(bodies) /\ bodies[i].gen = h /\ bodies'[i].out = bodies[i].out
      BY <1>3
    <3> QED BY <1>3, <3>3, <2>1, <3>1, <3>2, Untouched
  <2>3. CASE h = g
    <3>1. ~gens[g].started /\ out = owed[g]
      BY <1>n, <1>a, <1>g, <1>o, <2>1, <2>3 DEF Good, Collects
    <3>2. gens[g] = Fresh /\ given[g] = <<>>
      BY <2>1, <2>3, <3>1 DEF Good, Unstarted
    <3>3. \A i \in 1..Len(bodies') : bodies'[i].gen # g
      <4> TAKE i \in 1..Len(bodies')
      <4>1. i \in 1..Len(bodies) /\ i # n /\ bodies'[i] = bodies[i]
        BY <1>3
      <4> QED BY <1>n, <1>a, <1>g, <2>1, <2>3, <4>1 DEF Good, Once
    <3>4. Once(g)' /\ Collects(g)'
      BY <1>3, <3>3 DEF Once, Collects
    <3>5. Unstarted(g)'
      BY <1>2 DEF Unstarted
    <3>6. r.index = 0 /\ r.values = owed[g]
      BY <1>1, <3>1, <3>2 DEF Fresh
    <3>7. Rest(r) = owed[g]
      <4>1. Rest(r) = SubSeq(owed[g], 1, Len(owed[g]))
        BY <3>6 DEF Rest
      <4> QED BY <4>1, SubSeqFull
    <3>8. given[g] \o Rest(r) = owed[g]
      BY <3>2, <3>7, ConcatEmptySeq
    <3>9. given'[g] \o Rest(gens'[g]) = owed'[g]
      BY <1>0, <1>2, <2>3, <3>8
    <3>10. Serves(g)'
      BY <3>9 DEF Serves, Rest
    <3> QED BY <2>3, <3>4, <3>5, <3>10 DEF Good
  <2> QED BY <2>2, <2>3
<1> QED BY <1>4, <1>5, <1>6 DEF GInv

LEMMA YieldKeeps ==
  ASSUME GInv, Yield
  PROVE  GInv'
<1>t. TypeFacts
  BY Types
<1> USE <1>t DEF TypeFacts
<1>n. PICK n : n = Len(bodies)
  OBVIOUS
<1>a. n \in 1..Len(bodies) /\ sink = n
  BY <1>n DEF Yield, GInv, Nested
<1>g. PICK g \in Gens : g = bodies[n].gen
  BY <1>a
<1>x. PICK x \in Item : x = <<g, Len(owed[g])>>
  <2>1. Len(owed[g]) \in Nat
    OBVIOUS
  <2> QED BY <2>1 DEF Item
<1>b. PICK b \in BodyRec : b = Kept(bodies[n], x)
  <2>1. bodies[n].gen \in Gens /\ bodies[n].prev \in Nat /\ Append(bodies[n].out, x) \in Seq(Item)
    BY <1>a
  <2> QED BY <2>1 DEF BodyRec, Kept
<1>0. /\ bodies' = [i \in DOMAIN bodies |-> IF i = n THEN b ELSE bodies[i]]
      /\ owed' = IF g \in disturbed THEN owed ELSE [owed EXCEPT ![g] = Append(@, x)]
      /\ gens' = gens /\ sink' = sink /\ given' = given /\ disturbed' = disturbed
  <2>1. Innermost = bodies[n] /\ Yielded = x
    BY <1>n, <1>g, <1>x DEF Innermost, Yielded
  <2> QED BY <2>1, <1>a, <1>b, <1>g DEF Yield
<1>1. b.gen = g /\ b.out = Append(bodies[n].out, x) /\ b.prev = bodies[n].prev
  BY <1>b, <1>g DEF Kept
<1>2. /\ bodies' \in Seq(BodyRec) /\ Len(bodies') = n /\ Len(bodies') = Len(bodies)
      /\ bodies'[n] = b /\ \A i \in 1..Len(bodies) : i # n => bodies'[i] = bodies[i]
      /\ DOMAIN bodies' = 1..Len(bodies')
  <2>1. bodies' = [bodies EXCEPT ![n] = b]
    BY <1>0, <1>a
  <2>2. bodies' \in Seq(BodyRec) /\ Len(bodies') = Len(bodies)
    BY <2>1, <1>a, ExceptSeq
  <2>3. \A i \in 1..Len(bodies) : bodies'[i] = IF i = n THEN b ELSE bodies[i]
    BY <1>0
  <2>4. DOMAIN bodies' = 1..Len(bodies')
    BY <2>2
  <2> QED BY <2>2, <2>3, <2>4, <1>n, <1>a
<1>3. owed' \in [Gens -> Seq(Item)] /\ \A h \in Gens \ {g} : owed'[h] = owed[h]
  BY <1>0
<1>4. GeneratorsTypeOK'
  BY <1>0, <1>2, <1>3 DEF GeneratorsTypeOK
<1>5. \A i \in 1..Len(bodies) : bodies'[i].gen = bodies[i].gen /\ bodies'[i].prev = bodies[i].prev
  BY <1>1, <1>2, <1>g
<1>6. Nested'
  BY <1>0, <1>2, <1>5 DEF GInv, Nested
<1>7. ASSUME NEW h \in Gens \ disturbed' PROVE Good(h)'
  <2>1. Good(h)
    BY <1>0 DEF GInv
  <2>2. CASE h # g
    <3>1. gens'[h] = gens[h] /\ given'[h] = given[h] /\ owed'[h] = owed[h]
      BY <1>0, <1>3, <2>2
    <3>2. \A i \in 1..Len(bodies') : bodies'[i].gen = h =>
            i \in 1..Len(bodies) /\ bodies[i].gen = h /\ bodies'[i].out = bodies[i].out
      BY <1>1, <1>2, <2>2
    <3>3. \A i \in 1..Len(bodies) : bodies[i].gen = h =>
            i \in 1..Len(bodies') /\ bodies'[i].gen = h
      BY <1>2, <1>5
    <3> QED BY <1>2, <2>1, <3>1, <3>2, <3>3, Untouched
  <2>3. CASE h = g
    <3>1. ~gens[g].started /\ bodies[n].out = owed[g]
      BY <1>a, <1>g, <2>1, <2>3 DEF Good, Collects
    <3>2. gens'[g] = Fresh /\ given'[g] = <<>>
      BY <1>0, <2>1, <2>3, <3>1 DEF Good, Unstarted
    <3>3. owed'[g] = Append(owed[g], x)
      BY <1>0, <2>3
    <3>4. \A i \in 1..Len(bodies') : bodies'[i].gen = g => i = n
      BY <1>a, <1>g, <1>2, <1>5, <2>1, <2>3 DEF Good, Once
    <3>5. Once(g)'
      BY <3>4 DEF Once
    <3>6. Collects(g)'
      BY <1>0, <1>1, <1>2, <3>1, <3>3, <3>4 DEF Collects
    <3>7. Within(g)'
      <4>1. n \in DOMAIN bodies' /\ bodies'[n].gen = g
        BY <1>a, <1>1, <1>2
      <4> QED BY <4>1 DEF Within
    <3>8. Unstarted(g)' /\ Serves(g)'
      BY <1>0, <3>1, <3>2, <3>7 DEF Unstarted, Serves, Fresh
    <3> QED BY <2>3, <3>5, <3>6, <3>8 DEF Good
  <2> QED BY <2>2, <2>3
<1> QED BY <1>4, <1>6, <1>7 DEF GInv

LEMMA CloseKeeps ==
  ASSUME GInv, NEW g \in Gens, Close(g)
  PROVE  GInv'
<1>t. TypeFacts
  BY Types
<1> USE <1>t DEF TypeFacts
<1>r. PICK r : r = [started |-> TRUE, values |-> <<>>, index |-> 0]
  OBVIOUS
<1>0. gens' = [gens EXCEPT ![g] = r] /\ bodies' = bodies /\ sink' = sink
  BY <1>r DEF Close
<1>1. r \in GenRec /\ r.started /\ r.values = <<>> /\ r.index = 0
  BY <1>r DEF GenRec
<1>2. /\ gens' \in [Gens -> GenRec] /\ gens'[g] = r
      /\ \A h \in Gens \ {g} : gens'[h] = gens[h]
  BY <1>0, <1>1
<1>3. /\ given' \in [Gens -> Seq(Item)] /\ owed' \in [Gens -> Seq(Item)]
      /\ \A h \in Gens \ {g} : given'[h] = given[h] /\ owed'[h] = owed[h]
      /\ disturbed \subseteq disturbed' /\ disturbed' \subseteq Gens
      /\ g \notin disturbed' => ~Within(g) /\ given' = given /\ owed'[g] = given[g]
  <2>1. CASE Within(g)
    <3>1. /\ disturbed' = disturbed \cup {g}
          /\ given' = [h \in Gens |-> IF h \in {g} THEN <<>> ELSE given[h]]
          /\ owed' = [h \in Gens |-> IF h \in {g} THEN <<>> ELSE owed[h]]
      BY <2>1 DEF Close, Disturb
    <3>2. <<>> \in Seq(Item)
      OBVIOUS
    <3>3. given' \in [Gens -> Seq(Item)] /\ owed' \in [Gens -> Seq(Item)]
      BY <3>1, <3>2
    <3> QED BY <3>1, <3>3
  <2>2. CASE ~Within(g)
    BY <2>2 DEF Close
  <2> QED BY <2>1, <2>2
<1>4. GeneratorsTypeOK'
  BY <1>0, <1>2, <1>3 DEF GeneratorsTypeOK
<1>5. Nested'
  BY <1>0 DEF GInv, Nested
<1>6. ASSUME NEW h \in Gens \ disturbed' PROVE Good(h)'
  <2>1. Good(h)
    BY <1>3 DEF GInv
  <2>2. CASE h # g
    BY <1>0, <1>2, <1>3, <2>1, <2>2, Untouched
  <2>3. CASE h = g
    <3>1. \A i \in 1..Len(bodies') : bodies'[i].gen # g
      BY <1>0, <1>3, <2>3 DEF Within
    <3>2. Once(g)' /\ Collects(g)'
      BY <3>1 DEF Once, Collects
    <3>3. Unstarted(g)'
      BY <1>1, <1>2 DEF Unstarted
    <3>4. Rest(r) = <<>>
      BY <1>1 DEF Rest
    <3>5. given'[g] \o Rest(gens'[g]) = owed'[g]
      BY <1>2, <1>3, <2>3, <3>4, ConcatEmptySeq
    <3>6. Serves(g)'
      BY <3>5 DEF Serves, Rest
    <3> QED BY <2>3, <3>2, <3>3, <3>6 DEF Good
  <2> QED BY <2>2, <2>3
<1> QED BY <1>4, <1>5, <1>6 DEF GInv

-----------------------------------------------------------------------------
LEMMA GInitially == GeneratorsInit => GInv
<1> SUFFICES ASSUME GeneratorsInit PROVE GInv
  OBVIOUS
<1> USE DEF GeneratorsInit
<1>1. Fresh \in GenRec /\ ~Fresh.started
  BY DEF Fresh, GenRec
<1>2. GeneratorsTypeOK
  BY <1>1 DEF GeneratorsTypeOK
<1>3. bodies = <<>> /\ Len(bodies) = 0
  OBVIOUS
<1>4. Nested
  BY <1>3 DEF Nested
<1>5. ASSUME NEW g \in Gens PROVE Good(g)
  <2>1. Once(g) /\ Collects(g)
    BY <1>3 DEF Once, Collects
  <2>2. Unstarted(g) /\ Serves(g)
    BY <1>1 DEF Unstarted, Serves
  <2> QED BY <2>1, <2>2 DEF Good
<1> QED BY <1>2, <1>4, <1>5 DEF GInv

LEMMA GSteps == GInv /\ [GeneratorsNext]_generatorVars => GInv'
<1> SUFFICES ASSUME GInv, [GeneratorsNext]_generatorVars PROVE GInv'
  OBVIOUS
<1>1. CASE \E g \in Gens : NextFirst(g)
  BY <1>1, NextFirstKeeps
<1>2. CASE \E g \in Gens : NextAgain(g)
  BY <1>2, NextAgainKeeps
<1>3. CASE \E g \in Gens : Close(g)
  BY <1>3, CloseKeeps
<1>4. CASE Yield
  BY <1>4, YieldKeeps
<1>5. CASE BodyEnds
  BY <1>5, BodyEndsKeeps
<1>6. CASE UNCHANGED generatorVars
  <2> USE <1>6 DEF generatorVars
  <2>1. GeneratorsTypeOK'
    BY DEF GInv, GeneratorsTypeOK
  <2>2. Nested'
    BY DEF GInv, Nested
  <2>3. ASSUME NEW g \in Gens \ disturbed' PROVE Good(g)'
    <3>1. Good(g)
      BY DEF GInv
    <3>2. TypeFacts
      BY Types
    <3> QED BY <3>1, <3>2, Untouched DEF TypeFacts
  <2> QED BY <2>1, <2>2, <2>3 DEF GInv
<1> QED BY <1>1, <1>2, <1>3, <1>4, <1>5, <1>6 DEF GeneratorsNext

(* The strengthening holds always: sinks are nested as the bodies are, so  *)
(* the body that runs is the one that gets what it yields.                 *)
THEOREM GeneratorsInvariance == GeneratorsSpec => []GInv
<1> QED BY GInitially, GSteps, PTL DEF GeneratorsSpec

(* The records of the generators, the bodies and the sink keep their types. *)
THEOREM GeneratorsTypeCorrect == GeneratorsSpec => []GeneratorsTypeOK
<1>1. GInv => GeneratorsTypeOK
  BY DEF GInv
<1> QED BY <1>1, GeneratorsInvariance, PTL

(* However bodies nest, and whatever generators they drive, a generator    *)
(* that is not driven in its own body hands out what that body yielded, in *)
(* the body's order, and nothing once it was closed (gen_next_value,       *)
(* gen_return and gen_throw).                                              *)
THEOREM OwnYieldsAlways == GeneratorsSpec => []OwnYields
<1>1. GInv => OwnYields
  BY DEF GInv, Good, Serves, OwnYields
<1> QED BY <1>1, GeneratorsInvariance, PTL
===============================================================================
