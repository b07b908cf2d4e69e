----------------------------- MODULE ArraysProofs -----------------------------
(* Machine-checked proofs about Arrays, for every value of its constants.  *)
EXTENDS Arrays, SequenceTheorems, FiniteSetTheorems, TLAPS

-----------------------------------------------------------------------------
(* Facts about sequences *)

(* A non-empty set of naturals has a least member. *)
LEMMA LeastNat ==
  ASSUME NEW T, T \subseteq Nat, T # {}
  PROVE  \E n \in T : \A m \in T : n <= m
<1> DEFINE R == OpToRel(<, Nat)
<1>1. PICK n \in T : \A m \in T : ~(<<m, n>> \in R)
  BY NatLessThanWellFounded, WFMin
<1>2. \A m \in T : ~(m < n)
  BY <1>1 DEF OpToRel
<1> QED BY <1>2

(* t is made of members of s among the first p, in their order: f says of  *)
(* which.                                                                  *)
Follows(f, t, s, p) ==
  /\ f \in [1..Len(t) -> 1..p]
  /\ \A m, n \in 1..Len(t) : m < n => f[m] < f[n]
  /\ \A n \in 1..Len(t) : t[n] = s[f[n]]

Reaches(f, t, q) == \E n \in 1..Len(t) : f[n] = q

Grown(f, t, p) == [n \in 1..(Len(t) + 1) |-> IF n = Len(t) + 1 THEN p + 1 ELSE f[n]]

(* It goes on with the next member. *)
LEMMA FollowsNext ==
  ASSUME NEW S, NEW s \in Seq(S), NEW t \in Seq(S), NEW p \in 0..(Len(s) - 1),
         NEW f, Follows(f, t, s, p)
  PROVE  /\ Follows(Grown(f, t, p), Append(t, s[p + 1]), s, p + 1)
         /\ \A q \in 1..(p + 1) :
              Reaches(Grown(f, t, p), Append(t, s[p + 1]), q)
                <=> q = p + 1 \/ Reaches(f, t, q)
<1> DEFINE g == Grown(f, t, p)
           u == Append(t, s[p + 1])
           k == Len(t) + 1
<1>1. /\ k \in Nat /\ Len(t) = k - 1 /\ Len(u) = k /\ p \in Nat
      /\ u[k] = s[p + 1]
      /\ \A n \in 1..(k - 1) : u[n] = t[n]
      /\ k \in 1..k
  BY LenProperties, s[p + 1] \in S
<1>2. /\ g = [n \in 1..k |-> IF n = k THEN p + 1 ELSE f[n]]
      /\ g[k] = p + 1
      /\ \A n \in 1..(k - 1) : n \in 1..k /\ g[n] = f[n] /\ f[n] \in 1..p
  BY <1>1 DEF Grown, Follows
<1> HIDE DEF g, u, k
<1>3. \A n \in 1..k : n = k \/ n \in 1..(k - 1)
  BY <1>1
<1>4. g \in [1..k -> 1..(p + 1)]
  <2>1. ASSUME NEW n \in 1..k PROVE g[n] \in 1..(p + 1)
    <3>1. CASE n = k
      BY <1>1, <1>2, <3>1
    <3>2. CASE n # k
      <4>1. g[n] = f[n] /\ f[n] \in 1..p
        BY <1>2, <1>3, <3>2
      <4> QED BY <1>1, <4>1
    <3> QED BY <3>1, <3>2
  <2> QED BY <1>2, <2>1
<1>5. \A m, n \in 1..k : m < n => g[m] < g[n]
  <2> SUFFICES ASSUME NEW m \in 1..k, NEW n \in 1..k, m < n PROVE g[m] < g[n]
    OBVIOUS
  <2>1. m \in 1..(k - 1)
    BY <1>1
  <2>2. CASE n = k
    <3>1. g[m] \in 1..p
      BY <1>2, <2>1
    <3>2. g[n] = p + 1
      BY <1>2, <2>2
    <3> QED BY <1>1, <3>1, <3>2
  <2>3. CASE n # k
    <3>1. n \in 1..(k - 1)
      BY <1>3, <2>3
    <3>2. f[m] < f[n]
      BY <1>1, <2>1, <3>1 DEF Follows
    <3> QED BY <1>2, <2>1, <3>1, <3>2
  <2> QED BY <2>2, <2>3
<1>6. \A n \in 1..k : u[n] = s[g[n]]
  <2> SUFFICES ASSUME NEW n \in 1..k PROVE u[n] = s[g[n]]
    OBVIOUS
  <2>1. CASE n = k
    BY <1>1, <1>2, <2>1
  <2>2. CASE n # k
    BY <1>1, <1>2, <1>3, <2>2 DEF Follows
  <2> QED BY <2>1, <2>2
<1>7. Follows(g, u, s, p + 1)
  BY <1>1, <1>4, <1>5, <1>6 DEF Follows
<1>8. \A q : (\E n \in 1..k : g[n] = q) <=> q = p + 1 \/ \E n \in 1..(k - 1) : f[n] = q
  BY <1>1, <1>2, <1>3
<1> QED BY <1>1, <1>7, <1>8 DEF g, u, k, Reaches

-----------------------------------------------------------------------------
(* What is set aside for a sort *)

Keeping(f, s, n) ==
  f = [i \in 0..n |-> IF i = 0 THEN <<>>
                      ELSE IF s[i] = Undefined THEN f[i - 1] ELSE Append(f[i - 1], s[i])]

Keeps(s, n) == \E f : Keeping(f, s, n)

(* The function in DefinedOf exists. *)
LEMMA KeepsExists ==
  ASSUME NEW S, NEW s \in Seq(S), NEW n \in 0..Len(s)
  PROVE  Keeps(s, n)
<1> DEFINE Bad == {k \in 0..Len(s) : ~Keeps(s, k)}
<1> SUFFICES ASSUME n \in Bad PROVE FALSE
  OBVIOUS
<1>1. Len(s) \in Nat /\ Bad \subseteq Nat
  OBVIOUS
<1>2. PICK m \in Bad : \A k \in Bad : m <= k
  BY <1>1, LeastNat
<1>3. m \in Nat /\ m \in 0..Len(s) /\ ~Keeps(s, m)
  BY <1>1
<1>4. \A k \in 0..Len(s) : k < m => Keeps(s, k)
  BY <1>1, <1>2
<1> HIDE DEF Bad
<1>5. CASE m = 0
  <2>1. Keeping([i \in 0..0 |-> <<>>], s, 0)
    BY DEF Keeping
  <2> QED BY <1>3, <1>5, <2>1 DEF Keeps
<1>6. CASE m # 0
  <2>1. m - 1 \in 0..Len(s) /\ m - 1 < m
    BY <1>1, <1>3, <1>6
  <2>2. PICK f : Keeping(f, s, m - 1)
    BY <1>4, <2>1 DEF Keeps
  <2> DEFINE last == IF s[m] = Undefined THEN f[m - 1] ELSE Append(f[m - 1], s[m])
  <2> HIDE DEF last
  <2> DEFINE g == [i \in 0..m |-> IF i = m THEN last ELSE f[i]]
  <2>3. \A i \in 0..(m - 1) : g[i] = f[i]
    BY <1>3
  <2>4. g[m] = last
    BY <1>3
  <2>5. \A i \in 0..(m - 1) :
          f[i] = IF i = 0 THEN <<>>
                 ELSE IF s[i] = Undefined THEN f[i - 1] ELSE Append(f[i - 1], s[i])
    BY <2>2 DEF Keeping
  <2>6. g = [i \in 0..m |-> g[i]]
    OBVIOUS
  <2> HIDE DEF g
  <2>7. ASSUME NEW i \in 0..m
        PROVE  g[i] = IF i = 0 THEN <<>>
                      ELSE IF s[i] = Undefined THEN g[i - 1] ELSE Append(g[i - 1], s[i])
    <3>1. CASE i = m
      <4>1. m - 1 \in 0..(m - 1) /\ g[m - 1] = f[m - 1]
        BY <1>3, <1>6, <2>3
      <4> QED BY <3>1, <1>6, <2>4, <4>1 DEF last
    <3>2. CASE i # m
      <4>1. i \in 0..(m - 1) /\ (i # 0 => i - 1 \in 0..(m - 1))
        BY <3>2, <1>3
      <4> QED BY <2>3, <2>5, <4>1
    <3> QED BY <3>1, <3>2
  <2>8. Keeping(g, s, m)
    BY <2>6, <2>7 DEF Keeping
  <2> QED BY <2>8, <1>3 DEF Keeps
<1> QED BY <1>5, <1>6

(* t is what is set aside of the first n members of s. *)
Aside(t, s, n) ==
  /\ t \in Seq(Defined)
  /\ \E f : /\ Follows(f, t, s, n)
            /\ \A q \in 1..n : (\E m \in 1..Len(t) : f[m] = q) <=> s[q] # Undefined

(* One more member of s changes what is set aside accordingly. *)
LEMMA AsideNext ==
  ASSUME NEW s \in Seq(Elements), NEW t, NEW n \in 0..(Len(s) - 1), Aside(t, s, n)
  PROVE  Aside(IF s[n + 1] = Undefined THEN t ELSE Append(t, s[n + 1]), s, n + 1)
<1>1. PICK f : /\ Follows(f, t, s, n)
               /\ \A q \in 1..n : (\E m \in 1..Len(t) : f[m] = q) <=> s[q] # Undefined
  BY DEF Aside
<1>2. t \in Seq(Defined) /\ t \in Seq(Elements) /\ Len(t) \in Nat /\ n \in Nat
  <2>1. t \in Seq(Defined)
    BY DEF Aside
  <2> QED BY <2>1, SeqMonotonic, LenProperties DEF Defined
<1>3. n + 1 \in 1..Len(s) /\ s[n + 1] \in Elements
  BY <1>2
<1>4. CASE s[n + 1] = Undefined
  <2>1. f \in [1..Len(t) -> 1..n] /\ \A m \in 1..Len(t) : f[m] \in 1..n
    BY <1>1 DEF Follows
  <2>2. f \in [1..Len(t) -> 1..(n + 1)]
    BY <1>2, <2>1
  <2>3. Follows(f, t, s, n + 1)
    BY <1>1, <2>2 DEF Follows
  <2>4. ASSUME NEW q \in 1..(n + 1)
        PROVE  (\E m \in 1..Len(t) : f[m] = q) <=> s[q] # Undefined
    <3>1. CASE q = n + 1
      <4>1. ASSUME NEW m \in 1..Len(t) PROVE f[m] # q
        BY <1>2, <2>1, <3>1
      <4> QED BY <1>4, <3>1, <4>1
    <3>2. CASE q # n + 1
      BY <1>1, <1>2, <3>2
    <3> QED BY <3>1, <3>2
  <2> QED BY <1>2, <1>4, <2>3, <2>4 DEF Aside
<1>5. CASE s[n + 1] # Undefined
  <2> DEFINE u == Append(t, s[n + 1])
             g == Grown(f, t, n)
  <2>1. u \in Seq(Defined)
    BY <1>2, <1>3, <1>5 DEF Defined
  <2>2. /\ Follows(g, u, s, n + 1)
        /\ \A q \in 1..(n + 1) : Reaches(g, u, q) <=> q = n + 1 \/ Reaches(f, t, q)
    <3>1. Follows(f, t, s, n) /\ t \in Seq(Elements)
      BY <1>1, <1>2
    <3> QED BY <3>1, FollowsNext
  <2> HIDE DEF u, g
  <2>3. ASSUME NEW q \in 1..(n + 1)
        PROVE  (\E m \in 1..Len(u) : g[m] = q) <=> s[q] # Undefined
    <3>1. CASE q = n + 1
      BY <1>5, <2>2, <3>1 DEF Reaches
    <3>2. CASE q # n + 1
      <4>1. q \in 1..n
        BY <1>2, <3>2
      <4> QED BY <1>1, <2>2, <3>2, <4>1 DEF Reaches
    <3> QED BY <3>1, <3>2
  <2>4. Aside(u, s, n + 1)
    BY <2>1, <2>2, <2>3 DEF Aside
  <2> QED BY <1>5, <2>4 DEF u
<1> QED BY <1>4, <1>5

(* What is set aside is the values that are not Undefined, in their order. *)
LEMMA DefinedOfType ==
  ASSUME NEW s \in Seq(Elements)
  PROVE  Aside(DefinedOf(s), s, Len(s))
<1> DEFINE F == CHOOSE f : Keeping(f, s, Len(s))
<1>1. Len(s) \in Nat /\ Len(s) \in 0..Len(s)
  OBVIOUS
<1>2. Keeping(F, s, Len(s))
  BY <1>1, KeepsExists DEF Keeps
<1>3. DefinedOf(s) = F[Len(s)]
  BY DEF DefinedOf, Keeping
<1> HIDE DEF F
<1> DEFINE Bad == {i \in 0..Len(s) : ~Aside(F[i], s, i)}
<1>4. ASSUME Bad # {} PROVE FALSE
  <2>1. Bad \subseteq Nat
    OBVIOUS
  <2>2. PICK m \in Bad : \A k \in Bad : m <= k
    <3> HIDE DEF Bad
    <3> QED BY <1>4, <2>1, LeastNat
  <2>3. m \in 0..Len(s) /\ m \in Nat /\ ~Aside(F[m], s, m)
    BY <2>1, <2>2
  <2>4. CASE m = 0
    <3>1. F[m] = <<>>
      BY <1>1, <1>2, <2>4 DEF Keeping
    <3>2. Follows([n \in 1..0 |-> 0], <<>>, s, 0)
      <4>1. Len(<<>>) = 0
        BY EmptySeq
      <4>2. [n \in 1..0 |-> 0] \in [1..0 -> 1..0]
        OBVIOUS
      <4> QED BY <4>1, <4>2 DEF Follows
    <3>3. Aside(<<>>, s, 0)
      BY <3>2 DEF Aside
    <3> QED BY <2>3, <2>4, <3>1, <3>3
  <2>5. CASE m # 0
    <3>1. m - 1 \in 0..(Len(s) - 1) /\ m - 1 \in 0..Len(s) /\ (m - 1) + 1 = m /\ m - 1 < m
      BY <1>1, <2>3, <2>5
    <3>2. Aside(F[m - 1], s, m - 1)
      BY <2>2, <2>3, <3>1
    <3>3. F[m] = IF s[m] = Undefined THEN F[m - 1] ELSE Append(F[m - 1], s[m])
      BY <1>2, <2>3, <2>5 DEF Keeping
    <3>4. Aside(F[m], s, m)
      BY <3>1, <3>2, <3>3, AsideNext
    <3> QED BY <2>3, <3>4
  <2> QED BY <2>4, <2>5
<1> QED BY <1>1, <1>3, <1>4

-----------------------------------------------------------------------------
(* Sorting.  The order is a parameter r here: it is the same in every      *)
(* state of a behavior.                                                    *)

Orders == [Defined -> Nat]

StableBy(r, f, t) ==
  \A m, n \in DOMAIN t :
    m < n /\ t[m] # Undefined /\ t[n] # Undefined /\ r[t[m]] = r[t[n]]
      => f[m] < f[n]

SortedBy(r, t, s, honest) ==
  /\ \A m, n \in DOMAIN t : m < n /\ t[m] = Undefined => t[n] = Undefined
  /\ honest => \A m, n \in DOMAIN t :
                 m < n /\ t[n] # Undefined => r[t[m]] <= r[t[n]]
  /\ \E f \in Bijection(DOMAIN t, DOMAIN s) :
       /\ \A n \in DOMAIN t : t[n] = s[f[n]]
       /\ honest => StableBy(r, f, t)

(* t is made of the values of s that are not Undefined: f says of which.   *)
Places(f, t, s) ==
  /\ f \in [1..Len(t) -> 1..Len(s)]
  /\ \A m, n \in 1..Len(t) : f[m] = f[n] => m = n
  /\ \A n \in 1..Len(t) : t[n] = s[f[n]]
  /\ \A q \in 1..Len(s) : (\E n \in 1..Len(t) : f[n] = q) <=> s[q] # Undefined

(* The first i members of t and the next are in order, but for the one     *)
(* after j, which is smaller than those that it has already come past.     *)
Inserting(r, t, i, j) ==
  /\ \A m, n \in 1..Len(t) :
       m < n /\ n <= i + 1 /\ m # j + 1 /\ n # j + 1 => r[t[m]] <= r[t[n]]
  /\ \A n \in 1..Len(t) : j + 1 < n /\ n <= i + 1 => r[t[j + 1]] < r[t[n]]

Arranged(r, t, s, honest) ==
  \E f : Places(f, t, s) /\ (honest => StableBy(r, f, t))

Swapped(t, j) == [t EXCEPT ![j] = t[j + 1], ![j + 1] = t[j]]

(* The place that the member at n of a swapped sequence has come from      *)
From(j, n) == IF n = j THEN j + 1 ELSE IF n = j + 1 THEN j ELSE n

LEMMA SwappedFrom ==
  ASSUME NEW S, NEW t \in Seq(S), NEW j \in 1..(Len(t) - 1)
  PROVE  /\ Swapped(t, j) \in Seq(S) /\ Len(Swapped(t, j)) = Len(t)
         /\ \A n \in 1..Len(t) : From(j, n) \in 1..Len(t) /\ Swapped(t, j)[n] = t[From(j, n)]
<1>1. Len(t) \in Nat /\ j \in 1..Len(t) /\ j + 1 \in 1..Len(t) /\ j \in Nat
  BY LenProperties
<1>2. t[j] \in S /\ t[j + 1] \in S
  BY <1>1
<1> DEFINE u == [t EXCEPT ![j] = t[j + 1]]
<1>3. /\ u \in Seq(S) /\ Len(u) = Len(t)
      /\ \A n \in 1..Len(t) : u[n] = IF n = j THEN t[j + 1] ELSE t[n]
  BY <1>1, <1>2, ExceptSeq
<1> HIDE DEF u
<1> DEFINE v == [u EXCEPT ![j + 1] = t[j]]
<1>4. /\ v \in Seq(S) /\ Len(v) = Len(u)
      /\ \A n \in 1..Len(u) : v[n] = IF n = j + 1 THEN t[j] ELSE u[n]
  BY <1>1, <1>2, <1>3, ExceptSeq
<1>5. v = Swapped(t, j)
  BY DEF u, Swapped
<1> HIDE DEF v
<1>6. ASSUME NEW n \in 1..Len(t) PROVE From(j, n) \in 1..Len(t) /\ v[n] = t[From(j, n)]
  BY <1>1, <1>3, <1>4 DEF From
<1> QED BY <1>3, <1>4, <1>5, <1>6

LEMMA FromFacts ==
  ASSUME NEW k \in Nat, NEW j \in 1..(k - 1)
  PROVE  /\ \A n \in 1..k : From(j, n) \in 1..k /\ From(j, From(j, n)) = n
         /\ \A m, n \in 1..k : m < n => From(j, m) < From(j, n) \/ (m = j /\ n = j + 1)
BY DEF From

(* Swapping two neighbours of different ranks keeps the arrangement.       *)
LEMMA SwappedArranged ==
  ASSUME NEW r, NEW t \in Seq(Defined), NEW s, NEW honest \in BOOLEAN,
         NEW j \in 1..(Len(t) - 1), Arranged(r, t, s, honest),
         honest => r[t[j]] # r[t[j + 1]]
  PROVE  Arranged(r, Swapped(t, j), s, honest)
<1> DEFINE u == Swapped(t, j)
           k == Len(t)
<1>1. PICK f : Places(f, t, s) /\ (honest => StableBy(r, f, t))
  BY DEF Arranged
<1>2. /\ k \in Nat /\ u \in Seq(Defined) /\ Len(u) = k
      /\ \A n \in 1..k : From(j, n) \in 1..k /\ u[n] = t[From(j, n)]
  BY SwappedFrom
<1>3. DOMAIN u = 1..k /\ DOMAIN t = 1..k
  BY <1>2
<1> DEFINE g == [n \in 1..k |-> f[From(j, n)]]
<1>4. \A n \in 1..k : g[n] = f[From(j, n)]
  OBVIOUS
<1>5. g \in [1..k -> 1..Len(s)]
  BY <1>1, <1>2 DEF Places
<1> HIDE DEF g, u
<1>6. /\ \A n \in 1..k : From(j, n) \in 1..k /\ From(j, From(j, n)) = n
      /\ \A m, n \in 1..k : m < n => From(j, m) < From(j, n) \/ (m = j /\ n = j + 1)
  BY <1>2, FromFacts
<1>7. ASSUME NEW m \in 1..k, NEW n \in 1..k, g[m] = g[n] PROVE m = n
  <2>1. From(j, m) = From(j, n)
    BY <1>1, <1>4, <1>6, <1>7 DEF Places
  <2> QED BY <1>6, <2>1
<1>8. ASSUME NEW n \in 1..k PROVE u[n] = s[g[n]]
  <2>1. u[n] = t[From(j, n)] /\ From(j, n) \in 1..k /\ g[n] = f[From(j, n)]
    BY <1>2, <1>4
  <2>2. \A q \in 1..k : t[q] = s[f[q]]
    BY <1>1 DEF Places
  <2> QED BY <2>1, <2>2
<1>9. ASSUME NEW q \in 1..Len(s) PROVE (\E n \in 1..k : g[n] = q) <=> s[q] # Undefined
  <2>1. (\E n \in 1..k : g[n] = q) <=> (\E n \in 1..k : f[n] = q)
    BY <1>4, <1>6
  <2> QED BY <1>1, <2>1 DEF Places
<1>10. Places(g, u, s)
  BY <1>2, <1>5, <1>7, <1>8, <1>9 DEF Places
<1>11. ASSUME honest PROVE StableBy(r, g, u)
  <2> SUFFICES ASSUME NEW m \in 1..k, NEW n \in 1..k, m < n,
                      u[m] # Undefined, u[n] # Undefined, r[u[m]] = r[u[n]]
               PROVE  g[m] < g[n]
    BY <1>3 DEF StableBy
  <2>1. u[m] = t[From(j, m)] /\ u[n] = t[From(j, n)]
    BY <1>2
  <2>2. CASE From(j, m) < From(j, n)
    <3>1. f[From(j, m)] < f[From(j, n)]
      BY <1>1, <1>3, <1>6, <1>11, <2>1, <2>2 DEF StableBy
    <3> QED BY <1>4, <3>1
  <2>3. CASE m = j /\ n = j + 1
    <3>1. From(j, m) = j + 1 /\ From(j, n) = j
      BY <2>3 DEF From
    <3> QED BY <1>11, <2>1, <3>1
  <2> QED BY <1>6, <2>2, <2>3
<1> QED BY <1>10, <1>11 DEF Arranged, u

(* The three things a comparison of the members at j and j + 1 leads to.   *)
LEMMA InsertingSettled ==
  ASSUME NEW r \in Orders, NEW t \in Seq(Defined), NEW i \in Nat, NEW j \in 1..i,
         i < Len(t), Inserting(r, t, i, j), r[t[j]] <= r[t[j + 1]]
  PROVE  Inserting(r, t, i + 1, i + 1)
<1>1. Len(t) \in Nat /\ j \in 1..Len(t) /\ j + 1 \in 1..Len(t) /\ j \in Nat
  OBVIOUS
<1>2. \A n \in 1..Len(t) : t[n] \in Defined /\ r[t[n]] \in Nat
  BY DEF Orders
<1>3. ASSUME NEW m \in 1..Len(t), NEW n \in 1..Len(t), m < n, n <= i + 1
      PROVE  r[t[m]] <= r[t[n]]
  <2>1. CASE m # j + 1 /\ n # j + 1
    BY <1>3, <2>1 DEF Inserting
  <2>2. CASE m = j + 1
    <3>1. r[t[j + 1]] < r[t[n]]
      BY <1>3, <2>2 DEF Inserting
    <3> QED BY <1>1, <1>2, <2>2, <3>1
  <2>3. CASE n = j + 1
    <3>1. m <= j
      BY <1>1, <1>3, <2>3
    <3>2. CASE m = j
      BY <2>3, <3>2
    <3>3. CASE m # j
      <4>1. m < j /\ j <= i + 1 /\ j # j + 1 /\ m # j + 1
        BY <1>1, <3>1, <3>3
      <4>2. r[t[m]] <= r[t[j]]
        BY <1>1, <4>1 DEF Inserting
      <4> QED BY <1>1, <1>2, <2>3, <4>2
    <3> QED BY <3>2, <3>3
  <2> QED BY <2>1, <2>2, <2>3
<1>4. ASSUME NEW m \in 1..Len(t), NEW n \in 1..Len(t), m < n, n <= (i + 1) + 1,
             m # (i + 1) + 1, n # (i + 1) + 1
      PROVE  r[t[m]] <= r[t[n]]
  <2>1. n <= i + 1
    BY <1>1, <1>4
  <2> QED BY <1>3, <1>4, <2>1
<1>5. \A n \in 1..Len(t) : ~((i + 1) + 1 < n /\ n <= (i + 1) + 1)
  BY <1>1
<1> QED BY <1>4, <1>5 DEF Inserting

LEMMA InsertingDown ==
  ASSUME NEW r \in Orders, NEW t \in Seq(Defined), NEW i \in Nat, NEW j \in 1..i,
         i < Len(t), Inserting(r, t, i, j), r[t[j]] > r[t[j + 1]]
  PROVE  Inserting(r, Swapped(t, j), i, j - 1)
<1> DEFINE u == Swapped(t, j)
           k == Len(t)
<1>1. /\ k \in Nat /\ j \in 1..k /\ j + 1 \in 1..k /\ j \in Nat /\ j \in 1..(k - 1)
      /\ i + 1 \in 1..k /\ (j - 1) + 1 = j
  OBVIOUS
<1>2. \A n \in 1..k : t[n] \in Defined /\ r[t[n]] \in Nat
  BY DEF Orders
<1>3. /\ Len(u) = k
      /\ \A n \in 1..k : u[n] = t[From(j, n)]
  BY <1>1, SwappedFrom
<1> HIDE DEF u
<1>4. u[j] = t[j + 1] /\ u[j + 1] = t[j]
      /\ \A n \in 1..k : n # j /\ n # j + 1 => u[n] = t[n]
  BY <1>1, <1>3 DEF From
<1>5. ASSUME NEW m \in 1..k, NEW n \in 1..k, m < n, n <= i + 1, m # j, n # j
      PROVE  r[u[m]] <= r[u[n]]
  <2>1. CASE m # j + 1 /\ n # j + 1
    BY <1>4, <1>5, <2>1 DEF Inserting
  <2>2. CASE m = j + 1
    <3>1. j < n /\ j <= i + 1 /\ j # j + 1 /\ n # j + 1
      BY <1>1, <1>5, <2>2
    <3>2. r[t[j]] <= r[t[n]]
      BY <1>1, <1>5, <3>1 DEF Inserting
    <3> QED BY <1>4, <1>5, <2>2, <3>1, <3>2
  <2>3. CASE n = j + 1
    <3>1. m < j /\ j <= i + 1 /\ j # j + 1 /\ m # j + 1
      BY <1>1, <1>5, <2>3
    <3>2. r[t[m]] <= r[t[j]]
      BY <1>1, <1>5, <3>1 DEF Inserting
    <3> QED BY <1>4, <1>5, <2>3, <3>1, <3>2
  <2> QED BY <2>1, <2>2, <2>3
<1>6. ASSUME NEW n \in 1..k, j < n, n <= i + 1 PROVE r[u[j]] < r[u[n]]
  <2>1. CASE n = j + 1
    BY <1>1, <1>2, <1>4, <2>1
  <2>2. CASE n # j + 1
    <3>1. j + 1 < n
      BY <1>1, <1>6, <2>2
    <3>2. r[t[j + 1]] < r[t[n]]
      BY <1>6, <3>1 DEF Inserting
    <3>3. n # j
      BY <1>1, <1>6
    <3> QED BY <1>4, <2>2, <3>2, <3>3
  <2> QED BY <2>1, <2>2
<1> QED BY <1>1, <1>3, <1>5, <1>6 DEF Inserting, u

LEMMA InsertingFirst ==
  ASSUME NEW r \in Orders, NEW t \in Seq(Defined), NEW i \in Nat, i < Len(t),
         Inserting(r, t, i, 0)
  PROVE  Inserting(r, t, i + 1, i + 1)
<1>1. \A n \in 1..Len(t) : t[n] \in Defined /\ r[t[n]] \in Nat
  BY DEF Orders
<1>2. Len(t) \in Nat /\ 1 \in 1..Len(t)
  OBVIOUS
<1>3. ASSUME NEW m \in 1..Len(t), NEW n \in 1..Len(t), m < n, n <= i + 1
      PROVE  r[t[m]] <= r[t[n]]
  <2>1. CASE m = 1
    <3>1. r[t[1]] < r[t[n]]
      BY <1>3, <2>1 DEF Inserting
    <3> QED BY <1>1, <1>2, <2>1, <3>1
  <2>2. CASE m # 1
    BY <1>3, <2>2 DEF Inserting
  <2> QED BY <2>1, <2>2
<1>4. ASSUME NEW m \in 1..Len(t), NEW n \in 1..Len(t), m < n, n <= (i + 1) + 1,
             m # (i + 1) + 1, n # (i + 1) + 1
      PROVE  r[t[m]] <= r[t[n]]
  <2>1. n <= i + 1
    BY <1>4
  <2> QED BY <1>3, <1>4, <2>1
<1>5. \A n \in 1..Len(t) : ~((i + 1) + 1 < n /\ n <= (i + 1) + 1)
  OBVIOUS
<1> QED BY <1>4, <1>5 DEF Inserting

-----------------------------------------------------------------------------
(* What a sort gives back *)

LEMMA UndefinedsType ==
  ASSUME NEW n \in Int
  PROVE  /\ Undefineds(n) \in Seq({Undefined}) /\ Undefineds(n) \in Seq(Elements)
         /\ Len(Undefineds(n)) = IF n < 0 THEN 0 ELSE n
         /\ \A i \in 1..Len(Undefineds(n)) : Undefineds(n)[i] = Undefined
<1>1. Undefined \in Elements
  BY ArraysAssumption
<1>2. CASE n \in Nat
  BY <1>1, <1>2 DEF Undefineds
<1>3. CASE n \notin Nat
  <2>1. Undefineds(n) = [i \in 1..0 |-> Undefined]
    <3>1. 1..n = {} /\ 1..0 = {}
      BY <1>3
    <3> QED BY <3>1 DEF Undefineds
  <2>2. Undefineds(n) \in [1..0 -> {Undefined}] /\ Undefineds(n) \in [1..0 -> Elements]
    BY <2>1
  <2>3. Undefineds(n) \in Seq({Undefined}) /\ Undefineds(n) \in Seq(Elements)
    BY <2>2, SeqDef
  <2>4. DOMAIN Undefineds(n) = 1..0
    BY <2>1
  <2>5. Len(Undefineds(n)) = 0
    BY <2>3, <2>4, LenProperties
  <2> QED BY <1>3, <2>3, <2>5
<1> QED BY <1>2, <1>3

LEMMA UpTo == ASSUME NEW n \in Nat PROVE IsFiniteSet(1..n) /\ Cardinality(1..n) = n
<1>1. /\ IsFiniteSet(1..n)
      /\ Cardinality(1..n) = IF 1 > n THEN 0 ELSE n - 1 + 1
  BY FS_Interval
<1> QED BY <1>1

(* As many members of s are Undefined as its length exceeds that of what   *)
(* was set aside.                                                          *)
LEMMA UndefinedPlaces ==
  ASSUME NEW s \in Seq(Elements), NEW t \in Seq(Defined), NEW f, Places(f, t, s)
  PROVE  /\ Len(t) <= Len(s)
         /\ \E h : /\ h \in [1..(Len(s) - Len(t)) -> 1..Len(s)]
                   /\ \A m, n \in 1..(Len(s) - Len(t)) : h[m] = h[n] => m = n
                   /\ \A q \in 1..Len(s) :
                        s[q] = Undefined <=> \E n \in 1..(Len(s) - Len(t)) : h[n] = q
<1> DEFINE k == Len(t)
           n == Len(s)
           D == {q \in 1..n : s[q] # Undefined}
           U == (1..n) \ D
<1>1. k \in Nat /\ n \in Nat
  BY LenProperties
<1>2. IsFiniteSet(1..n) /\ Cardinality(1..n) = n
  BY <1>1, UpTo
<1>3. IsFiniteSet(1..k) /\ Cardinality(1..k) = k
  BY <1>1, UpTo
<1>4. f \in Surjection(1..k, D) /\ f \in Injection(1..k, D)
  <2>1. \A m \in 1..k : f[m] \in D
    BY DEF Places
  <2>2. f \in [1..k -> D]
    BY <2>1 DEF Places
  <2>3. \A q \in D : \E m \in 1..k : f[m] = q
    BY DEF Places
  <2>4. IsInjective(f)
    BY DEF Places, IsInjective
  <2> QED BY <2>2, <2>3, <2>4 DEF Surjection, Injection
<1>5. IsFiniteSet(D) /\ Cardinality(D) = k
  <2>1. IsFiniteSet(D) /\ Cardinality(D) = Cardinality(1..k)
    BY <1>3, <1>4, FS_Surjection
  <2> QED BY <1>3, <2>1
<1>6. IsFiniteSet(U) /\ Cardinality(U) = n - k
  <2>1. (1..n) \cap D = D
    OBVIOUS
  <2>2. IsFiniteSet(U) /\ Cardinality(U) = Cardinality(1..n) - Cardinality((1..n) \cap D)
    BY <1>2, FS_Difference
  <2> QED BY <1>2, <1>5, <2>1, <2>2
<1>7. k <= n
  BY <1>1, <1>6, FS_CardinalityType
<1>8. ExistsBijection(1..(n - k), U)
  BY <1>6, FS_CardinalityType
<1>9. PICK h : h \in Bijection(1..(n - k), U)
  BY <1>8 DEF ExistsBijection
<1>10. /\ h \in [1..(n - k) -> U]
       /\ \A x, y \in 1..(n - k) : h[x] = h[y] => x = y
       /\ \A q \in U : \E m \in 1..(n - k) : h[m] = q
  BY <1>9 DEF Bijection, Injection, Surjection, IsInjective
<1>11. h \in [1..(n - k) -> 1..n]
  <2>1. U \subseteq 1..n
    OBVIOUS
  <2> HIDE DEF U
  <2> QED BY <1>10, <2>1
<1>12. ASSUME NEW q \in 1..n
       PROVE  s[q] = Undefined <=> \E m \in 1..(n - k) : h[m] = q
  <2>1. q \in U <=> s[q] = Undefined
    OBVIOUS
  <2> HIDE DEF U
  <2>2. \A m \in 1..(n - k) : h[m] \in U
    BY <1>10
  <2>3. ASSUME q \in U PROVE \E m \in 1..(n - k) : h[m] = q
    BY <1>10, <2>3
  <2>4. q \in U <=> \E m \in 1..(n - k) : h[m] = q
    BY <2>2, <2>3
  <2> QED BY <2>1, <2>4
<1> QED BY <1>7, <1>10, <1>11, <1>12

LEMMA PaddedSorted ==
  ASSUME NEW r, NEW s \in Seq(Elements), NEW t \in Seq(Defined), NEW honest \in BOOLEAN,
         Arranged(r, t, s, honest),
         honest => \A m, n \in 1..Len(t) : m < n => r[t[m]] <= r[t[n]]
  PROVE  Padded(t, Len(s)) \in Seq(Elements) /\ SortedBy(r, Padded(t, Len(s)), s, honest)
<1> DEFINE k == Len(t)
           l == Len(s)
           w == Undefineds(l - k)
           u == t \o w
<1>1. PICK f : Places(f, t, s) /\ (honest => StableBy(r, f, t))
  BY DEF Arranged
<1>2. k \in Nat /\ l \in Nat /\ k <= l
  BY <1>1, UndefinedPlaces, LenProperties
<1>3. PICK h : /\ h \in [1..(l - k) -> 1..l]
               /\ \A m, n \in 1..(l - k) : h[m] = h[n] => m = n
               /\ \A q \in 1..l : s[q] = Undefined <=> \E n \in 1..(l - k) : h[n] = q
  BY <1>1, UndefinedPlaces
<1>4. w \in Seq(Elements) /\ Len(w) = l - k /\ \A i \in 1..(l - k) : w[i] = Undefined
  BY <1>2, UndefinedsType
<1>5. t \in Seq(Elements) /\ \A i \in 1..k : t[i] \in Elements /\ t[i] # Undefined
  <2>1. \A i \in 1..k : t[i] \in Defined
    BY ElementOfSeq
  <2> QED BY <2>1, SeqMonotonic DEF Defined
<1>6. /\ u \in Seq(Elements) /\ Len(u) = l
      /\ \A i \in 1..l : u[i] = IF i <= k THEN t[i] ELSE Undefined
  <2> HIDE DEF w
  <2>1. /\ u \in Seq(Elements) /\ Len(u) = k + (l - k)
        /\ \A i \in 1..(k + (l - k)) : u[i] = IF i <= k THEN t[i] ELSE w[i - k]
    BY <1>4, <1>5, ConcatProperties
  <2>2. \A i \in 1..l : ~(i <= k) => i - k \in 1..(l - k)
    BY <1>2
  <2> QED BY <1>2, <1>4, <2>1, <2>2
<1>7. u = Padded(t, l)
  BY DEF Padded
<1>8. DOMAIN u = 1..l /\ DOMAIN s = 1..l /\ DOMAIN t = 1..k
  BY <1>6, LenProperties
<1> HIDE DEF u, w
<1> DEFINE g == [i \in 1..l |-> IF i <= k THEN f[i] ELSE h[i - k]]
<1>9. /\ \A i \in 1..k : i \in 1..l /\ g[i] = f[i] /\ f[i] \in 1..l
      /\ \A i \in 1..l : i \notin 1..k => i - k \in 1..(l - k) /\ g[i] = h[i - k]
      /\ \A i \in 1..(l - k) : h[i] \in 1..l
  <2>1. /\ \A i \in 1..k : i \in 1..l /\ g[i] = f[i]
        /\ \A i \in 1..l : i \notin 1..k => i - k \in 1..(l - k) /\ g[i] = h[i - k]
    BY <1>2
  <2>2. \A i \in 1..k : f[i] \in 1..l
    BY <1>1 DEF Places
  <2>3. \A i \in 1..(l - k) : h[i] \in 1..l
    BY <1>3
  <2> HIDE DEF g
  <2> QED BY <2>1, <2>2, <2>3
<1>10. g \in [1..l -> 1..l]
  <2>1. \A i \in 1..l : g[i] \in 1..l
    BY <1>9
  <2> QED BY <2>1
<1> HIDE DEF g
<1>11. \A i \in 1..l : u[i] = s[g[i]]
  <2> SUFFICES ASSUME NEW i \in 1..l PROVE u[i] = s[g[i]]
    OBVIOUS
  <2>1. CASE i \in 1..k
    BY <1>1, <1>6, <1>9, <2>1 DEF Places
  <2>2. CASE i \notin 1..k
    <3>1. u[i] = Undefined
      BY <1>2, <1>6, <2>2
    <3>2. s[h[i - k]] = Undefined
      BY <1>3, <1>9, <2>2
    <3> QED BY <1>9, <2>2, <3>1, <3>2
  <2> QED BY <2>1, <2>2
<1>12. \A i \in 1..l : s[g[i]] # Undefined <=> i \in 1..k
  <2> SUFFICES ASSUME NEW i \in 1..l PROVE u[i] # Undefined <=> i \in 1..k
    BY <1>11
  <2> QED BY <1>2, <1>5, <1>6
<1>13. ASSUME NEW m \in 1..l, NEW n \in 1..l, g[m] = g[n] PROVE m = n
  <2>1. CASE m \in 1..k /\ n \in 1..k
    BY <1>1, <1>9, <1>13, <2>1 DEF Places
  <2>2. CASE m \notin 1..k /\ n \notin 1..k
    <3>1. m - k = n - k
      BY <1>3, <1>9, <1>13, <2>2
    <3> QED BY <1>2, <3>1
  <2> QED BY <1>12, <1>13, <2>1, <2>2
<1>14. ASSUME NEW q \in 1..l PROVE \E i \in 1..l : g[i] = q
  <2>1. CASE s[q] # Undefined
    <3>1. PICK i \in 1..k : f[i] = q
      BY <1>1, <2>1 DEF Places
    <3> QED BY <1>9, <3>1
  <2>2. CASE s[q] = Undefined
    <3>1. PICK i \in 1..(l - k) : h[i] = q
      BY <1>3, <2>2
    <3>2. i + k \in 1..l /\ i + k \notin 1..k /\ (i + k) - k = i
      BY <1>2
    <3> QED BY <1>9, <3>1, <3>2
  <2> QED BY <2>1, <2>2
<1>15. g \in Bijection(1..l, 1..l)
  BY <1>10, <1>13, <1>14 DEF Bijection, Injection, Surjection, IsInjective
<1>16. \A i \in 1..l : u[i] # Undefined <=> i \in 1..k
  BY <1>11, <1>12
<1>17. ASSUME NEW m \in 1..l, NEW n \in 1..l, m < n, u[m] = Undefined PROVE u[n] = Undefined
  <2>1. m \notin 1..k
    BY <1>16, <1>17
  <2>2. n \notin 1..k
    BY <1>17, <2>1
  <2> QED BY <1>16, <2>2
<1>18. ASSUME honest, NEW m \in 1..l, NEW n \in 1..l, m < n, u[n] # Undefined
       PROVE  r[u[m]] <= r[u[n]]
  <2>1. n \in 1..k /\ m \in 1..k
    BY <1>2, <1>16, <1>18
  <2> QED BY <1>6, <1>18, <2>1
<1>19. ASSUME honest PROVE StableBy(r, g, u)
  <2> SUFFICES ASSUME NEW m \in 1..l, NEW n \in 1..l, m < n,
                      u[m] # Undefined, u[n] # Undefined, r[u[m]] = r[u[n]]
               PROVE  g[m] < g[n]
    BY <1>8 DEF StableBy
  <2>1. n \in 1..k /\ m \in 1..k
    BY <1>16
  <2>2. u[m] = t[m] /\ u[n] = t[n]
    BY <1>6, <2>1
  <2>3. f[m] < f[n]
    BY <1>1, <1>8, <1>19, <2>1, <2>2 DEF StableBy
  <2> QED BY <1>9, <2>1, <2>3
<1>20. SortedBy(r, u, s, honest)
  BY <1>8, <1>11, <1>15, <1>17, <1>18, <1>19 DEF SortedBy
<1> QED BY <1>6, <1>7, <1>20

-----------------------------------------------------------------------------
(* The inductive invariant *)

Sorter == [k : {"sort"}, from : Seq(Elements), out : Seq(Defined), i : Nat, j : Nat,
           honest : BOOLEAN, changes : Nat]
Visitor == [k : {"visit"}, from : Seq(Elements), at : Nat, out : Seq(Elements),
            changes : Nat]

(* What a sort has made so far is what it was given without Undefined, the *)
(* first i of them in order but for the one it inserts.                    *)
SortGood(r, c) ==
  /\ c.j \in 1..c.i /\ (c.i < Len(c.out) \/ c.j = c.i)
  /\ Arranged(r, c.out, c.from, c.honest)
  /\ c.honest => Inserting(r, c.out, c.i, c.j)

(* What another method has made so far comes from what it has come past.   *)
VisitGood(c) ==
  /\ c.at <= Len(c.from)
  /\ \E f : Follows(f, c.out, c.from, c.at)

GoodCalls(r) == {c \in Sorter : SortGood(r, c)} \cup {c \in Visitor : VisitGood(c)}

AInv ==
  /\ rank \in Orders
  /\ elems \in Seq(Elements) /\ length \in Nat
  /\ \A i \in DOMAIN sparse : i \in Nat /\ i < length
  /\ calls \in Seq(GoodCalls(rank))
  /\ ResultsSound

LEMMA SorterTypes ==
  ASSUME NEW c \in Sorter
  PROVE  /\ c.k = "sort" /\ c.from \in Seq(Elements) /\ c.out \in Seq(Defined)
         /\ c.i \in Nat /\ c.j \in Nat /\ c.honest \in BOOLEAN /\ c.changes \in Nat
BY DEF Sorter

LEMMA VisitorTypes ==
  ASSUME NEW c \in Visitor
  PROVE  /\ c.k = "visit" /\ c.from \in Seq(Elements) /\ c.out \in Seq(Elements)
         /\ c.at \in Nat /\ c.changes \in Nat
BY DEF Visitor

(* Changing some of the fields *)
VisitorAt(c, n, t) == [c EXCEPT !.at = n, !.out = t]
SorterAt(c, m, n) == [c EXCEPT !.i = m, !.j = n]
SorterWith(c, t) == [c EXCEPT !.out = t]
SorterDown(c, n) == [c EXCEPT !.j = n]

LEMMA VisitorChanged ==
  ASSUME NEW c \in Visitor, NEW n \in Nat, NEW t \in Seq(Elements)
  PROVE  /\ VisitorAt(c, n, t) \in Visitor
         /\ VisitorAt(c, n, t).at = n /\ VisitorAt(c, n, t).out = t
         /\ VisitorAt(c, n, t).from = c.from
BY DEF Visitor, VisitorAt

SameSort(c, d) == d.from = c.from /\ d.honest = c.honest

LEMMA SorterAtType ==
  ASSUME NEW c \in Sorter, NEW m \in Nat, NEW n \in Nat
  PROVE  /\ SorterAt(c, m, n) \in Sorter
         /\ SorterAt(c, m, n).i = m /\ SorterAt(c, m, n).j = n
         /\ SorterAt(c, m, n).out = c.out /\ SameSort(c, SorterAt(c, m, n))
BY DEF Sorter, SorterAt, SameSort

LEMMA SorterWithType ==
  ASSUME NEW c \in Sorter, NEW t \in Seq(Defined)
  PROVE  /\ SorterWith(c, t) \in Sorter
         /\ SorterWith(c, t).i = c.i /\ SorterWith(c, t).j = c.j
         /\ SorterWith(c, t).out = t /\ SameSort(c, SorterWith(c, t))
BY DEF Sorter, SorterWith, SameSort

LEMMA SorterDownType ==
  ASSUME NEW c \in Sorter, NEW n \in Nat
  PROVE  /\ SorterDown(c, n) \in Sorter
         /\ SorterDown(c, n).i = c.i /\ SorterDown(c, n).j = n
         /\ SorterDown(c, n).out = c.out /\ SameSort(c, SorterDown(c, n))
BY DEF Sorter, SorterDown, SameSort

(* A method that waits is one of the two. *)
LEMMA TopKind ==
  ASSUME NEW r, calls \in Seq(GoodCalls(r)), calls # <<>>
  PROVE  /\ Top \in GoodCalls(r)
         /\ Top.k = "sort" => Top \in Sorter /\ SortGood(r, Top)
         /\ Top.k # "sort" => Top.k = "visit" /\ Top \in Visitor /\ VisitGood(Top)
<1>1. Len(calls) \in 1..Len(calls)
  BY EmptySeq
<1>2. Top \in GoodCalls(r)
  BY <1>1 DEF Top
<1> HIDE DEF Top
<1>3. Top \in Sorter => Top.k = "sort"
  BY SorterTypes
<1>4. Top \in Visitor => Top.k = "visit"
  BY VisitorTypes
<1> QED BY <1>2, <1>3, <1>4 DEF GoodCalls

(* Coming to the next callback and returning keep the others as they were. *)
LEMMA StackKeeps ==
  ASSUME NEW r, calls \in Seq(GoodCalls(r)), calls # <<>>
  PROVE  /\ Return => calls' \in Seq(GoodCalls(r))
         /\ \A c \in GoodCalls(r) : GoesOn(c) => calls' \in Seq(GoodCalls(r))
<1>1. Len(calls) \in 1..Len(calls) /\ Len(calls) \in Nat
  BY EmptySeq
<1>2. ASSUME Return PROVE calls' \in Seq(GoodCalls(r))
  BY <1>1, <1>2 DEF Return, Front
<1>3. ASSUME NEW c \in GoodCalls(r), GoesOn(c) PROVE calls' \in Seq(GoodCalls(r))
  BY <1>1, <1>3, ExceptSeq DEF GoesOn
<1> QED BY <1>2, <1>3

LEMMA ChangeKeepsCall ==
  ASSUME NEW r, NEW c \in GoodCalls(r)
  PROVE  [c EXCEPT !.changes = @ + 1] \in GoodCalls(r)
<1> DEFINE d == [c EXCEPT !.changes = @ + 1]
<1>1. CASE c \in Sorter /\ SortGood(r, c)
  <2>1. d \in Sorter
    BY <1>1 DEF Sorter
  <2>2. d.i = c.i /\ d.j = c.j /\ d.out = c.out /\ d.from = c.from /\ d.honest = c.honest
    BY <1>1 DEF Sorter
  <2>3. SortGood(r, d)
    BY <1>1, <2>2 DEF SortGood
  <2> QED BY <2>1, <2>3 DEF GoodCalls
<1>2. CASE c \in Visitor /\ VisitGood(c)
  <2>1. d \in Visitor
    BY <1>2 DEF Visitor
  <2>2. d.at = c.at /\ d.out = c.out /\ d.from = c.from
    BY <1>2 DEF Visitor
  <2>3. VisitGood(d)
    BY <1>2, <2>2 DEF VisitGood
  <2> QED BY <2>1, <2>3 DEF GoodCalls
<1> QED BY <1>1, <1>2 DEF GoodCalls

(* Nothing was returned in a step that only changes the array. *)
LEMMA NothingReturned == finished' = NoCall => ResultsSound'
BY DEF ResultsSound, NoCall

(* User code changes the array: the methods that wait for it know nothing. *)
LEMMA ChangedKeeps ==
  ASSUME AInv, Changed, UNCHANGED rank,
         elems' \in Seq(Elements), length' \in Nat,
         \A i \in DOMAIN sparse' : i \in Nat /\ i < length'
  PROVE  AInv'
<1>1. calls' \in Seq(GoodCalls(rank))
  <2>1. CASE calls = <<>>
    BY <2>1 DEF AInv, Changed
  <2>2. CASE calls # <<>>
    <3> DEFINE c == [Top EXCEPT !.changes = @ + 1]
    <3>1. c \in GoodCalls(rank)
      BY <2>2, TopKind, ChangeKeepsCall DEF AInv
    <3>2. GoesOn(c)
      BY <2>2 DEF Changed
    <3> HIDE DEF c
    <3> QED BY <2>2, <3>1, <3>2, StackKeeps DEF AInv
  <2> QED BY <2>1, <2>2
<1>2. ResultsSound'
  BY NothingReturned DEF Changed
<1>3. rank' \in Orders /\ calls' \in Seq(GoodCalls(rank'))
  BY <1>1 DEF AInv
<1> QED BY <1>2, <1>3 DEF AInv

(* A method leaves the array alone until it is done. *)
LEMMA CallKeeps ==
  ASSUME AInv, UNCHANGED <<rank, elems, length, sparse>>,
         calls' \in Seq(GoodCalls(rank)), ResultsSound'
  PROVE  AInv'
<1>1. rank' \in Orders /\ calls' \in Seq(GoodCalls(rank'))
  BY DEF AInv
<1>2. elems' \in Seq(Elements) /\ length' \in Nat
  BY DEF AInv
<1>3. \A i \in DOMAIN sparse' : i \in Nat /\ i < length'
  BY DEF AInv
<1> QED BY <1>1, <1>2, <1>3 DEF AInv

LEMMA InitKeeps == ArraysInit => AInv
<1> SUFFICES ASSUME ArraysInit PROVE AInv
  OBVIOUS
<1>1. PICK n \in 0..MaxLength : elems = Undefineds(n) /\ length = n
  BY DEF ArraysInit
<1>2. n \in Nat /\ rank \in Orders
  BY <1>1, ArraysAssumption DEF ArraysInit, Orders
<1>3. elems \in Seq(Elements)
  BY <1>1, <1>2, UndefinedsType
<1>4. DOMAIN sparse = {}
  BY DEF ArraysInit
<1>5. calls \in Seq(GoodCalls(rank))
  BY DEF ArraysInit
<1>6. ResultsSound
  BY DEF ArraysInit, ResultsSound, NoCall
<1> QED BY <1>1, <1>2, <1>3, <1>4, <1>5, <1>6 DEF AInv

-----------------------------------------------------------------------------
(* One lemma for each operation *)

LEMMA UndefinedMember == Undefined \in Elements
BY ArraysAssumption

LEMMA SetIndexKeeps ==
  ASSUME AInv, NEW i \in Nat, NEW v \in Elements, SetIndex(i, v)
  PROVE  AInv'
<1> DEFINE n == Len(elems)
           w == Undefineds(i + 1 - n)
           grown == elems \o w
<1>1. n \in Nat /\ elems \in Seq(Elements) /\ length \in Nat
  BY LenProperties DEF AInv
<1>2. length' \in Nat /\ length' >= length /\ length' > i
  BY <1>1 DEF SetIndex, Larger
<1>3. UNCHANGED rank /\ Changed
  BY DEF SetIndex
<1>4. CASE i > n + SPARSE_GAP
  <2>1. sparse' = With(sparse, i, v) /\ UNCHANGED elems
    BY <1>4 DEF SetIndex
  <2>2. \A j \in DOMAIN sparse' : j \in Nat /\ j < length'
    <3>1. DOMAIN sparse' = DOMAIN sparse \cup {i}
      BY <2>1 DEF With
    <3> QED BY <1>1, <1>2, <3>1 DEF AInv
  <2> QED BY <1>1, <1>2, <1>3, <2>1, <2>2, ChangedKeeps
<1>5. CASE ~(i > n + SPARSE_GAP)
  <2>1. elems' = [grown EXCEPT ![i + 1] = v] /\ UNCHANGED sparse
    BY <1>5 DEF SetIndex
  <2>2. w \in Seq(Elements) /\ Len(w) = IF i + 1 - n < 0 THEN 0 ELSE i + 1 - n
    BY <1>1, UndefinedsType
  <2> HIDE DEF w
  <2>3. grown \in Seq(Elements) /\ Len(grown) = n + Len(w)
    BY <1>1, <2>2, ConcatProperties
  <2>4. i + 1 \in 1..Len(grown)
    BY <1>1, <2>2, <2>3
  <2> HIDE DEF grown
  <2>5. elems' \in Seq(Elements)
    BY <2>1, <2>3, <2>4, ExceptSeq
  <2>6. \A j \in DOMAIN sparse' : j \in Nat /\ j < length'
    BY <1>1, <1>2, <2>1 DEF AInv
  <2> QED BY <1>2, <1>3, <2>5, <2>6, ChangedKeeps
<1> QED BY <1>4, <1>5

LEMMA SetLengthKeeps ==
  ASSUME AInv, NEW n \in Nat, SetLength(n)
  PROVE  AInv'
<1>1. Len(elems) \in Nat /\ elems \in Seq(Elements)
  BY LenProperties DEF AInv
<1>2. elems' \in Seq(Elements)
  <2>1. elems' = Resized(n)
    BY DEF SetLength
  <2>2. CASE n <= Len(elems)
    <3>1. Resized(n) = SubSeq(elems, 1, n)
      BY <1>1, <2>2 DEF Resized
    <3> QED BY <1>1, <2>1, <2>2, <3>1
  <2>3. CASE ~(n <= Len(elems)) /\ n <= DENSE_LIMIT
    <3>1. Resized(n) = elems \o Undefineds(n - Len(elems))
      BY <1>1, <2>3 DEF Resized
    <3>2. Undefineds(n - Len(elems)) \in Seq(Elements)
      BY <1>1, UndefinedsType
    <3> HIDE DEF Undefineds
    <3> QED BY <1>1, <2>1, <3>1, <3>2
  <2>4. CASE ~(n <= Len(elems)) /\ ~(n <= DENSE_LIMIT)
    <3>1. Resized(n) = elems
      BY <1>1, <2>4 DEF Resized
    <3> QED BY <1>1, <2>1, <3>1
  <2> QED BY <2>2, <2>3, <2>4
<1>3. \A i \in DOMAIN sparse' : i \in Nat /\ i < length'
  <2>1. DOMAIN sparse' = {j \in DOMAIN sparse : j < n} /\ length' = n
    BY DEF SetLength, Below
  <2> QED BY <2>1 DEF AInv
<1> QED BY <1>2, <1>3, ChangedKeeps DEF SetLength

LEMMA DeleteIndexKeeps ==
  ASSUME AInv, NEW i \in Nat, DeleteIndex(i)
  PROVE  AInv'
<1>1. Len(elems) \in Nat /\ elems \in Seq(Elements) /\ length' = length /\ length \in Nat
  BY LenProperties DEF AInv, DeleteIndex
<1>2. elems' \in Seq(Elements)
  <2>1. CASE i < Len(elems)
    <3>1. i + 1 \in 1..Len(elems)
      BY <1>1, <2>1
    <3> QED BY <1>1, <2>1, <3>1, UndefinedMember, ExceptSeq DEF DeleteIndex
  <2>2. CASE ~(i < Len(elems))
    BY <1>1, <2>2 DEF DeleteIndex
  <2> QED BY <2>1, <2>2
<1>3. \A j \in DOMAIN sparse' : j \in Nat /\ j < length'
  <2>1. DOMAIN sparse' = DOMAIN sparse \ {i}
    BY DEF DeleteIndex
  <2> QED BY <1>1, <2>1 DEF AInv
<1> QED BY <1>1, <1>2, <1>3, ChangedKeeps DEF DeleteIndex

LEMMA BecomesKeeps ==
  ASSUME AInv, NEW s \in Seq(Elements), Becomes(s)
  PROVE  AInv'
<1>1. elems' \in Seq(Elements) /\ UNCHANGED <<rank, length, sparse>> /\ Changed
  BY DEF Becomes
<1>2. length' \in Nat /\ \A i \in DOMAIN sparse' : i \in Nat /\ i < length'
  BY <1>1 DEF AInv
<1> QED BY <1>1, <1>2, ChangedKeeps

LEMMA VectorKeeps ==
  ASSUME AInv, NEW v \in Elements,
         ArrPush(v) \/ Unshift(v) \/ Pop \/ Shift \/ ArrReverse
  PROVE  AInv'
<1>1. Len(elems) \in Nat /\ elems \in Seq(Elements)
  BY LenProperties DEF AInv
<1>2. CASE ArrPush(v)
  <2>1. Append(elems, v) \in Seq(Elements)
    BY <1>1
  <2> QED BY <1>2, <2>1, BecomesKeeps DEF ArrPush
<1>3. CASE Unshift(v)
  <2>1. <<v>> \o elems \in Seq(Elements)
    BY <1>1
  <2> QED BY <1>3, <2>1, BecomesKeeps DEF Unshift
<1>4. CASE Pop
  <2>1. Front(elems) \in Seq(Elements)
    BY <1>1, <1>4, EmptySeq DEF Pop, Front
  <2> QED BY <1>4, <2>1, BecomesKeeps DEF Pop
<1>5. CASE Shift
  <2>1. Tail(elems) \in Seq(Elements)
    BY <1>1, <1>5, EmptySeq DEF Shift
  <2> QED BY <1>5, <2>1, BecomesKeeps DEF Shift
<1>6. CASE ArrReverse
  <2>1. \A i \in 1..Len(elems) : (Len(elems) - i) + 1 \in 1..Len(elems)
    BY <1>1
  <2>2. \A i \in 1..Len(elems) : elems[(Len(elems) - i) + 1] \in Elements
    BY <1>1, <2>1, ElementOfSeq
  <2>3. [i \in 1..Len(elems) |-> elems[(Len(elems) - i) + 1]] \in Seq(Elements)
    BY <1>1, <2>2
  <2>4. Reverse(elems) \in Seq(Elements)
    BY <2>3 DEF Reverse
  <2> QED BY <1>6, <2>4, BecomesKeeps DEF ArrReverse
<1> QED BY <1>2, <1>3, <1>4, <1>5, <1>6

LEMMA SpliceKeeps ==
  ASSUME AInv, NEW start \in Int, NEW delete \in Nat, NEW items \in Seq(Elements),
         Splice(start, delete, items)
  PROVE  AInv'
<1> DEFINE n == Len(elems)
           s == Clamped(start)
           e == Smaller(s + delete, n) + 1
           u == SubSeq(elems, 1, s)
           w == SubSeq(elems, e, n)
<1>1. n \in Nat /\ elems \in Seq(Elements)
  BY LenProperties DEF AInv
<1>2. s \in 0..n
  BY <1>1 DEF Clamped, Larger, Smaller
<1>3. e \in 1..(n + 1)
  <2> HIDE DEF s
  <2> QED BY <1>1, <1>2 DEF Smaller
<1> HIDE DEF s, e
<1>4. u \in Seq(Elements)
  BY <1>1, <1>2
<1>5. w \in Seq(Elements)
  BY <1>1, <1>3
<1>6. (u \o items) \o w \in Seq(Elements)
  <2> HIDE DEF u, w
  <2>1. u \o items \in Seq(Elements)
    BY <1>4, ConcatProperties
  <2> QED BY <1>5, <2>1, ConcatProperties
<1>7. Becomes((u \o items) \o w)
  BY DEF Splice, s, e
<1> QED BY <1>6, <1>7, BecomesKeeps

LEMMA FillKeeps ==
  ASSUME AInv, NEW v \in Elements, NEW start, NEW end, Fill(v, start, end)
  PROVE  AInv'
<1> DEFINE s == [i \in 1..Len(elems) |-> IF start < i /\ i <= end THEN v ELSE elems[i]]
<1>1. elems \in Seq(Elements) /\ DOMAIN elems = 1..Len(elems) /\ Len(elems) \in Nat
  BY LenProperties DEF AInv
<1>2. \A i \in 1..Len(elems) : (IF start < i /\ i <= end THEN v ELSE elems[i]) \in Elements
  BY <1>1
<1>3. s \in Seq(Elements)
  BY <1>1, <1>2
<1>4. Becomes(s)
  BY <1>1 DEF Fill
<1> QED BY <1>3, <1>4, BecomesKeeps

LEMMA SortDefaultKeeps == ASSUME AInv, SortDefault PROVE AInv'
<1>1. elems \in Seq(Elements) /\ DOMAIN elems = 1..Len(elems) /\ Len(elems) \in Nat
  BY LenProperties DEF AInv
<1>2. PICK f \in Bijection(DOMAIN elems, DOMAIN elems) :
        Becomes([n \in DOMAIN elems |-> elems[f[n]]])
  BY DEF SortDefault
<1>3. f \in [1..Len(elems) -> 1..Len(elems)]
  BY <1>1 DEF Bijection, Injection
<1>4. \A n \in 1..Len(elems) : elems[f[n]] \in Elements
  BY <1>1, <1>3
<1>5. [n \in DOMAIN elems |-> elems[f[n]]] \in Seq(Elements)
  BY <1>1, <1>4
<1> QED BY <1>2, <1>5, BecomesKeeps

-----------------------------------------------------------------------------
(* The methods with callbacks *)

LEMMA VisitKeeps == ASSUME AInv, Visit PROVE AInv'
<1> DEFINE c == [k |-> "visit", from |-> elems, at |-> 0, out |-> <<>>, changes |-> 0]
<1>1. elems \in Seq(Elements) /\ Len(elems) \in Nat
  BY LenProperties DEF AInv
<1>2. c \in Visitor
  BY <1>1 DEF Visitor
<1>3. Follows([n \in 1..0 |-> 0], <<>>, elems, 0)
  <2>1. Len(<<>>) = 0
    BY EmptySeq
  <2>2. [n \in 1..0 |-> 0] \in [1..0 -> 1..0]
    OBVIOUS
  <2> QED BY <2>1, <2>2 DEF Follows
<1>4. VisitGood(c)
  <2>1. c.at = 0 /\ c.from = elems /\ c.out = <<>>
    OBVIOUS
  <2> HIDE DEF c
  <2> QED BY <1>1, <1>3, <2>1 DEF VisitGood
<1>5. calls' = Append(calls, c)
  BY DEF Visit
<1> HIDE DEF c
<1>6. c \in GoodCalls(rank)
  BY <1>2, <1>4 DEF GoodCalls
<1>7. calls' \in Seq(GoodCalls(rank))
  BY <1>5, <1>6 DEF AInv
<1> QED BY <1>7, CallKeeps, NothingReturned DEF Visit

LEMMA SortKeeps == ASSUME AInv, NEW honest \in BOOLEAN, Sort(honest) PROVE AInv'
<1> DEFINE t == DefinedOf(elems)
           c == [k |-> "sort", from |-> elems, out |-> t, i |-> 1, j |-> 1,
                 honest |-> honest, changes |-> 0]
<1>1. elems \in Seq(Elements) /\ Len(elems) \in Nat
  BY LenProperties DEF AInv
<1>2. Aside(t, elems, Len(elems))
  BY <1>1, DefinedOfType
<1> HIDE DEF t
<1>3. PICK f : /\ Follows(f, t, elems, Len(elems))
               /\ \A q \in 1..Len(elems) :
                    (\E m \in 1..Len(t) : f[m] = q) <=> elems[q] # Undefined
  BY <1>2 DEF Aside
<1>4. t \in Seq(Defined) /\ Len(t) \in Nat /\ DOMAIN t = 1..Len(t)
  BY <1>2, LenProperties DEF Aside
<1>5. ASSUME NEW m \in 1..Len(t), NEW n \in 1..Len(t), f[m] = f[n] PROVE m = n
  <2>1. f[m] \in Nat /\ f[n] \in Nat
    BY <1>3 DEF Follows
  <2>2. ~(m < n) /\ ~(n < m)
    BY <1>3, <1>5, <2>1 DEF Follows
  <2> QED BY <1>4, <2>2
<1>6. Places(f, t, elems)
  BY <1>3, <1>5 DEF Places, Follows
<1>7. StableBy(rank, f, t)
  BY <1>3, <1>4 DEF StableBy, Follows
<1>8. Arranged(rank, t, elems, honest)
  BY <1>6, <1>7 DEF Arranged
<1>9. Inserting(rank, t, 1, 1)
  BY <1>4 DEF Inserting
<1>10. c \in Sorter
  BY <1>1, <1>4 DEF Sorter
<1>11. c.i = 1 /\ c.j = 1 /\ c.out = t /\ c.from = elems /\ c.honest = honest
  OBVIOUS
<1>12. calls' = Append(calls, c)
  BY DEF Sort, t
<1> HIDE DEF c
<1>13. SortGood(rank, c)
  BY <1>8, <1>9, <1>11 DEF SortGood
<1>14. calls' \in Seq(GoodCalls(rank))
  BY <1>10, <1>12, <1>13 DEF GoodCalls, AInv
<1> QED BY <1>14, CallKeeps, NothingReturned DEF Sort

LEMMA VisitNextKeeps == ASSUME AInv, NEW keep \in BOOLEAN, VisitNext(keep) PROVE AInv'
<1> DEFINE c == Top
           x == c.from[c.at + 1]
           made == IF keep THEN Append(c.out, x) ELSE c.out
           d == [c EXCEPT !.at = @ + 1, !.out = made]
<1>1. calls # <<>> /\ c.k = "visit" /\ c.at < Len(c.from) /\ GoesOn(d)
  BY DEF VisitNext, Running
<1>2. calls \in Seq(GoodCalls(rank))
  BY DEF AInv
<1>3. c \in Visitor /\ VisitGood(c)
  BY <1>1, <1>2, TopKind
<1> HIDE DEF c
<1>4. /\ c.from \in Seq(Elements) /\ c.out \in Seq(Elements) /\ c.at \in Nat
      /\ Len(c.from) \in Nat
  BY <1>3, VisitorTypes, LenProperties
<1>5. x \in Elements /\ c.at \in 0..(Len(c.from) - 1)
  BY <1>1, <1>4
<1>6. made \in Seq(Elements)
  BY <1>4, <1>5
<1>7. PICK f : Follows(f, c.out, c.from, c.at)
  BY <1>3 DEF VisitGood
<1>8. \E g : Follows(g, made, c.from, c.at + 1)
  <2>1. CASE keep
    <3>1. Follows(Grown(f, c.out, c.at), Append(c.out, x), c.from, c.at + 1)
      BY <1>4, <1>5, <1>7, FollowsNext
    <3> QED BY <2>1, <3>1
  <2>2. CASE ~keep
    <3>1. f \in [1..Len(c.out) -> 1..(c.at + 1)]
      <4>1. f \in [1..Len(c.out) -> 1..c.at]
        BY <1>7 DEF Follows
      <4>2. 1..c.at \subseteq 1..(c.at + 1)
        BY <1>4
      <4> QED BY <4>1, <4>2
    <3>2. Follows(f, c.out, c.from, c.at + 1)
      BY <1>7, <3>1 DEF Follows
    <3> QED BY <2>2, <3>2
  <2> QED BY <2>1, <2>2
<1> HIDE DEF made
<1>9. d = VisitorAt(c, c.at + 1, made) /\ c.at + 1 \in Nat
  BY <1>4 DEF VisitorAt
<1> HIDE DEF d
<1>10. d \in Visitor /\ d.at = c.at + 1 /\ d.out = made /\ d.from = c.from
  BY <1>3, <1>6, <1>9, VisitorChanged
<1> HIDE DEF d
<1>11. VisitGood(d)
  BY <1>1, <1>4, <1>8, <1>10 DEF VisitGood
<1>12. calls' \in Seq(GoodCalls(rank))
  BY <1>1, <1>2, <1>10, <1>11, StackKeeps DEF GoodCalls
<1> QED BY <1>12, CallKeeps, NothingReturned DEF VisitNext

LEMMA VisitDoneKeeps == ASSUME AInv, VisitDone PROVE AInv'
<1> DEFINE c == Top
<1>1. calls # <<>> /\ c.k = "visit" /\ Return /\ finished' = c
  BY DEF VisitDone, Running
<1>2. calls \in Seq(GoodCalls(rank))
  BY DEF AInv
<1>3. c \in Visitor /\ VisitGood(c)
  BY <1>1, <1>2, TopKind
<1> HIDE DEF c
<1>4. /\ c.from \in Seq(Elements) /\ c.out \in Seq(Elements) /\ c.at \in Nat
      /\ DOMAIN c.from = 1..Len(c.from) /\ DOMAIN c.out = 1..Len(c.out)
      /\ Len(c.from) \in Nat
  BY <1>3, VisitorTypes, LenProperties
<1>5. PICK f : Follows(f, c.out, c.from, c.at)
  BY <1>3 DEF VisitGood
<1>6. f \in [DOMAIN c.out -> DOMAIN c.from]
  <2>1. f \in [1..Len(c.out) -> 1..c.at]
    BY <1>5 DEF Follows
  <2>2. 1..c.at \subseteq 1..Len(c.from)
    BY <1>3, <1>4 DEF VisitGood
  <2> QED BY <1>4, <2>1, <2>2
<1>7. Subsequence(c.out, c.from)
  BY <1>4, <1>5, <1>6 DEF Subsequence, Follows
<1>8. ResultsSound'
  <2>1. finished'.k = "visit" /\ finished'.from = c.from /\ finished'.out = c.out
    BY <1>1
  <2>2. Subsequence(finished'.out, finished'.from)
    BY <1>7, <2>1
  <2> QED BY <2>1, <2>2 DEF ResultsSound, Subsequence
<1>9. calls' \in Seq(GoodCalls(rank))
  BY <1>1, <1>2, StackKeeps
<1> QED BY <1>8, <1>9, CallKeeps DEF VisitDone

LEMMA CallEndsKeeps == ASSUME AInv, CallEnds PROVE AInv'
<1>1. calls \in Seq(GoodCalls(rank))
  BY DEF AInv
<1>2. calls' \in Seq(GoodCalls(rank))
  BY <1>1, StackKeeps DEF CallEnds
<1> QED BY <1>2, CallKeeps, NothingReturned DEF CallEnds

(* One comparison of a sort *)
LEMMA CompareKeeps == ASSUME AInv, NEW answer \in BOOLEAN, Compare(answer) PROVE AInv'
<1> DEFINE c == Top
           t == c.out
           u == Swapped(t, c.j)
           larger == FindsLarger(c, answer)
           up == [c EXCEPT !.i = @ + 1, !.j = c.i + 1]
           swapped == [c EXCEPT !.out = u]
           d == CASE ~larger -> up
                  [] larger /\ c.j = 1 -> [up EXCEPT !.out = swapped.out]
                  [] OTHER -> [swapped EXCEPT !.j = @ - 1]
<1>1. calls # <<>> /\ c.k = "sort" /\ c.i < Len(c.out) /\ GoesOn(d)
  BY DEF Compare, Running, Sorting, Swapped
<1>2. calls \in Seq(GoodCalls(rank)) /\ rank \in Orders
  BY DEF AInv
<1>3. c \in Sorter /\ SortGood(rank, c)
  BY <1>1, <1>2, TopKind
<1> HIDE DEF c
<1>4. /\ c.from \in Seq(Elements) /\ t \in Seq(Defined) /\ c.i \in Nat /\ c.j \in Nat
      /\ c.honest \in BOOLEAN /\ Len(t) \in Nat
  BY <1>3, SorterTypes, LenProperties
<1>5. c.j \in 1..c.i /\ c.j \in 1..(Len(t) - 1) /\ c.j + 1 \in 1..Len(t) /\ c.j \in 1..Len(t)
  BY <1>1, <1>3, <1>4 DEF SortGood
<1>6. /\ t[c.j] \in Defined /\ t[c.j + 1] \in Defined
      /\ rank[t[c.j]] \in Nat /\ rank[t[c.j + 1]] \in Nat
  BY <1>2, <1>4, <1>5 DEF Orders
<1>7. c.honest => (larger <=> rank[t[c.j]] > rank[t[c.j + 1]])
  BY DEF FindsLarger
<1>8. u \in Seq(Defined) /\ Len(u) = Len(t)
  BY <1>4, <1>5, SwappedFrom
<1>9. Arranged(rank, t, c.from, c.honest)
  BY <1>3 DEF SortGood
<1>10. ASSUME larger PROVE Arranged(rank, u, c.from, c.honest)
  <2>1. c.honest => rank[t[c.j]] # rank[t[c.j + 1]]
    BY <1>6, <1>7, <1>10
  <2> QED BY <1>4, <1>5, <1>9, <2>1, SwappedArranged
<1>11. c.honest => Inserting(rank, t, c.i, c.j)
  BY <1>3 DEF SortGood
<1>12. ASSUME larger, c.honest PROVE Inserting(rank, u, c.i, c.j - 1)
  BY <1>1, <1>2, <1>4, <1>5, <1>7, <1>11, <1>12, InsertingDown
<1> HIDE DEF larger, u
<1>13. /\ up = SorterAt(c, c.i + 1, c.i + 1) /\ swapped = SorterWith(c, u)
       /\ c.i + 1 \in Nat /\ c.j - 1 \in Nat
  BY <1>4, <1>5 DEF SorterAt, SorterWith
<1>14. /\ up \in Sorter /\ up.i = c.i + 1 /\ up.j = c.i + 1
       /\ up.out = t /\ SameSort(c, up)
  <2> DEFINE m == c.i + 1
  <2>1. c \in Sorter /\ m \in Nat /\ up = SorterAt(c, m, m)
    BY <1>3, <1>13
  <2> HIDE DEF up, m
  <2>2. up \in Sorter /\ up.i = m /\ up.j = m /\ up.out = t /\ SameSort(c, up)
    BY <2>1, SorterAtType
  <2> QED BY <2>2 DEF m
<1>15. /\ swapped \in Sorter /\ swapped.i = c.i /\ swapped.j = c.j
       /\ swapped.out = u /\ SameSort(c, swapped)
  <2> HIDE DEF swapped
  <2> QED BY <1>3, <1>8, <1>13, SorterWithType
<1>16. /\ ~larger => d = up
       /\ larger /\ c.j = 1 => d = SorterWith(up, swapped.out)
       /\ larger /\ c.j # 1 => d = SorterDown(swapped, swapped.j - 1)
  BY DEF SorterWith, SorterDown
<1> HIDE DEF up, swapped, d
<1>17. d \in GoodCalls(rank)
  <2>1. CASE ~larger
    <3>1. ASSUME c.honest PROVE Inserting(rank, t, c.i + 1, c.i + 1)
      <4>1. rank[t[c.j]] <= rank[t[c.j + 1]]
        BY <1>6, <1>7, <2>1, <3>1
      <4> QED BY <1>1, <1>2, <1>4, <1>5, <1>11, <3>1, <4>1, InsertingSettled
    <3>2. SortGood(rank, up)
      BY <1>4, <1>9, <1>14, <3>1 DEF SortGood, SameSort
    <3> QED BY <1>14, <1>16, <2>1, <3>2 DEF GoodCalls
  <2>2. CASE larger /\ c.j = 1
    <3>1. d = SorterWith(up, u)
      BY <1>15, <1>16, <2>2
    <3>2. /\ d \in Sorter /\ d.i = c.i + 1 /\ d.j = c.i + 1
          /\ d.out = u /\ SameSort(up, d)
      BY <1>8, <1>14, <3>1, SorterWithType
    <3>3. ASSUME c.honest PROVE Inserting(rank, u, c.i + 1, c.i + 1)
      <4>1. Inserting(rank, u, c.i, 0)
        BY <1>12, <2>2, <3>3
      <4> QED BY <1>1, <1>2, <1>4, <1>8, <4>1, InsertingFirst
    <3>4. SortGood(rank, d)
      BY <1>4, <1>10, <1>14, <2>2, <3>2, <3>3 DEF SortGood, SameSort
    <3> QED BY <3>2, <3>4 DEF GoodCalls
  <2>3. CASE larger /\ c.j # 1
    <3>1. d = SorterDown(swapped, c.j - 1)
      BY <1>15, <1>16, <2>3
    <3>2. /\ d \in Sorter /\ d.i = c.i /\ d.j = c.j - 1
          /\ d.out = u /\ SameSort(swapped, d)
      BY <1>13, <1>15, <3>1, SorterDownType
    <3>3. c.j - 1 \in 1..c.i
      BY <1>4, <1>5, <2>3
    <3>4. SortGood(rank, d)
      BY <1>1, <1>8, <1>10, <1>12, <1>15, <2>3, <3>2, <3>3 DEF SortGood, SameSort
    <3> QED BY <3>2, <3>4 DEF GoodCalls
  <2> QED BY <2>1, <2>2, <2>3
<1>18. calls' \in Seq(GoodCalls(rank))
  BY <1>1, <1>2, <1>17, StackKeeps
<1> QED BY <1>18, CallKeeps, NothingReturned DEF Compare

(* What sort gives back is sorted, and has become of the array. *)
(* Without sparse values what is last in the vector is last in the array. *)
LEMMA LastFromVector ==
  ASSUME elems' \in Seq(Elements),
         \A m, n \in 1..Len(elems') : m < n /\ elems'[m] = Undefined => elems'[n] = Undefined
  PROVE  (DOMAIN sparse = {} => UndefinedLast)'
<1> SUFFICES ASSUME DOMAIN sparse' = {},
                    NEW i \in 0..(LogicalLen' - 1), NEW j \in 0..(LogicalLen' - 1),
                    i < j, GetIndex(i)' = Undefined
             PROVE  GetIndex(j)' = Undefined
  BY DEF UndefinedLast
<1>1. Len(elems') \in Nat /\ i \in Nat /\ j \in Nat
  BY LenProperties
<1>2. CASE j < Len(elems')
  <2>1. i + 1 \in 1..Len(elems') /\ j + 1 \in 1..Len(elems') /\ i + 1 < j + 1
    BY <1>1, <1>2
  <2>2. elems'[i + 1] = Undefined
    BY <1>1, <1>2 DEF GetIndex
  <2>3. elems'[j + 1] = Undefined
    BY <2>1, <2>2
  <2> QED BY <1>2, <2>3 DEF GetIndex
<1>3. CASE ~(j < Len(elems'))
  BY <1>1, <1>3 DEF GetIndex
<1> QED BY <1>2, <1>3

LEMMA SortDoneKeeps == ASSUME AInv, SortDone PROVE AInv'
<1> DEFINE c == Top
           t == c.out
           made == Padded(t, Len(c.from))
<1>1. /\ calls # <<>> /\ c.k = "sort" /\ ~(c.i < Len(c.out)) /\ Return
      /\ elems' = made /\ finished' = c
      /\ UNCHANGED <<rank, length, sparse>>
  BY DEF SortDone, Running, Sorting
<1>2. calls \in Seq(GoodCalls(rank)) /\ rank \in Orders
  BY DEF AInv
<1>3. c \in Sorter /\ SortGood(rank, c)
  BY <1>1, <1>2, TopKind
<1> HIDE DEF c
<1>4. /\ c.from \in Seq(Elements) /\ t \in Seq(Defined) /\ c.i \in Nat /\ c.j \in Nat
      /\ c.honest \in BOOLEAN /\ Len(t) \in Nat
  BY <1>3, SorterTypes, LenProperties
<1>5. Len(t) <= c.i /\ c.j = c.i
  BY <1>1, <1>3, <1>4 DEF SortGood
<1>6. ASSUME c.honest, NEW m \in 1..Len(t), NEW n \in 1..Len(t), m < n
      PROVE  rank[t[m]] <= rank[t[n]]
  <2>1. Inserting(rank, t, c.i, c.j)
    BY <1>3, <1>6 DEF SortGood
  <2>2. n <= c.i + 1 /\ m # c.j + 1 /\ n # c.j + 1
    BY <1>4, <1>5
  <2> QED BY <1>6, <2>1, <2>2 DEF Inserting
<1>7. made \in Seq(Elements) /\ SortedBy(rank, made, c.from, c.honest)
  BY <1>3, <1>4, <1>6, PaddedSorted DEF SortGood
<1> HIDE DEF made
<1>8. /\ finished'.k = "sort" /\ finished'.from = c.from
      /\ finished'.honest = c.honest
  BY <1>1
<1>9. SortedBy(rank', elems', finished'.from, finished'.honest)
  BY <1>1, <1>7, <1>8
<1>10. ResultsSound'
  <2>1. SortOf(elems, finished.from, finished.honest)'
    BY <1>9 DEF SortOf, InOrder, Stable, SortedBy, StableBy
  <2>2. \A m, n \in 1..Len(elems') : m < n /\ elems'[m] = Undefined => elems'[n] = Undefined
    BY <1>1, <1>7, <1>9, LenProperties DEF SortedBy
  <2>3. (DOMAIN sparse = {} => UndefinedLast)'
    BY <1>1, <1>7, <2>2, LastFromVector
  <2> QED BY <1>8, <2>1, <2>3 DEF ResultsSound
<1>11. calls' \in Seq(GoodCalls(rank))
  BY <1>1, <1>2, StackKeeps
<1>12. rank' \in Orders /\ calls' \in Seq(GoodCalls(rank'))
  BY <1>1, <1>2, <1>11
<1>13. elems' \in Seq(Elements) /\ length' \in Nat
  BY <1>1, <1>7 DEF AInv
<1>14. \A i \in DOMAIN sparse' : i \in Nat /\ i < length'
  BY <1>1 DEF AInv
<1> QED BY <1>10, <1>12, <1>13, <1>14 DEF AInv

-----------------------------------------------------------------------------
LEMMA StepKeeps == AInv /\ [ArraysNext]_arrayVars => AInv'
<1> SUFFICES ASSUME AInv, [ArraysNext]_arrayVars PROVE AInv'
  OBVIOUS
<1>1. MaxLength \in Nat
  BY ArraysAssumption
<1>2. ASSUME NEW i \in 0..(MaxLength - 1), DeleteIndex(i) PROVE AInv'
  <2>1. i \in Nat
    BY <1>1
  <2> QED BY <1>2, <2>1, DeleteIndexKeeps
<1>3. ASSUME NEW i \in 0..(MaxLength - 1), NEW v \in Elements, SetIndex(i, v) PROVE AInv'
  <2>1. i \in Nat
    BY <1>1
  <2> QED BY <1>3, <2>1, SetIndexKeeps
<1>4. ASSUME NEW n \in 0..MaxLength, SetLength(n) PROVE AInv'
  <2>1. n \in Nat
    BY <1>1
  <2> QED BY <1>4, <2>1, SetLengthKeeps
<1>5. ASSUME NEW v \in Elements, ArrPush(v) \/ Unshift(v) PROVE AInv'
  BY <1>5, VectorKeeps
<1>6. ASSUME Pop \/ Shift \/ ArrReverse PROVE AInv'
  BY <1>6, UndefinedMember, VectorKeeps
<1>7. ASSUME NEW s \in (-1)..MaxLength, NEW d \in 0..1,
             NEW items \in {<<>>} \cup {<<v>> : v \in Defined}, Splice(s, d, items)
      PROVE  AInv'
  <2>1. s \in Int /\ d \in Nat
    BY <1>1
  <2>2. items \in Seq(Elements)
    <3>1. CASE items = <<>>
      BY <3>1, EmptySeq
    <3>2. ASSUME NEW v \in Defined, items = <<v>> PROVE items \in Seq(Elements)
      <4>1. v \in Elements
        BY DEF Defined
      <4> QED BY <3>2, <4>1
    <3> QED BY <3>1, <3>2
  <2> QED BY <1>7, <2>1, <2>2, SpliceKeeps
<1>8. ASSUME NEW v \in Elements, NEW s \in 0..(MaxLength - 1), Fill(v, s, s + 1) PROVE AInv'
  BY <1>8, FillKeeps
<1>9. ASSUME NEW b \in BOOLEAN, Sort(b) \/ VisitNext(b) \/ Compare(b) PROVE AInv'
  BY <1>9, SortKeeps, VisitNextKeeps, CompareKeeps
<1>10. ASSUME Visit \/ VisitDone \/ SortDone \/ SortDefault \/ CallEnds PROVE AInv'
  BY <1>10, VisitKeeps, VisitDoneKeeps, SortDoneKeeps, SortDefaultKeeps, CallEndsKeeps
<1>11. CASE UNCHANGED arrayVars
  <2>1. /\ UNCHANGED <<rank, elems, length, sparse>> /\ UNCHANGED calls /\ UNCHANGED finished
    BY <1>11 DEF arrayVars
  <2>2. ResultsSound'
    <3>1. /\ UndefinedLast' = UndefinedLast /\ finished' = finished
          /\ SortOf(elems, finished.from, finished.honest)' = SortOf(elems, finished.from, finished.honest)
      BY <2>1 DEF UndefinedLast, GetIndex, LogicalLen, SortOf, InOrder, Stable
    <3> QED BY <2>1, <3>1 DEF AInv, ResultsSound
  <2>3. calls' \in Seq(GoodCalls(rank))
    BY <2>1 DEF AInv
  <2> QED BY <2>1, <2>2, <2>3, CallKeeps
<1> QED BY <1>2, <1>3, <1>4, <1>5, <1>6, <1>7, <1>8, <1>9, <1>10, <1>11 DEF ArraysNext

THEOREM ArraysInvariance == ArraysSpec => []AInv
<1>1. ArraysInit => AInv
  BY InitKeeps
<1>2. AInv /\ [ArraysNext]_arrayVars => AInv'
  BY StepKeeps
<1> QED BY <1>1, <1>2, PTL DEF ArraysSpec

(* Whatever is done to an array, by its methods, by assignments far past   *)
(* its end or by callbacks in the middle of a method, every index that has *)
(* a value is below the length that code enumerates it by (ArrayData).     *)
THEOREM ReadableBelowLengthAlways == ArraysSpec => []ReadableBelowLength
<1>1. AInv => ReadableBelowLength
  <2> SUFFICES ASSUME AInv, NEW i \in Readable PROVE i < LogicalLen
    BY DEF ReadableBelowLength
  <2>1. Len(elems) \in Nat /\ length \in Nat
    BY LenProperties DEF AInv
  <2>2. CASE i \in DOMAIN sparse
    <3>1. i \in Nat /\ i < length /\ DOMAIN sparse # {}
      BY <2>2 DEF AInv
    <3>2. LogicalLen = IF length > Len(elems) THEN length ELSE Len(elems)
      BY <3>1 DEF LogicalLen
    <3> HIDE DEF LogicalLen
    <3> QED BY <2>1, <3>1, <3>2
  <2>3. CASE i \in 0..(Len(elems) - 1)
    <3>1. LogicalLen \in Nat /\ LogicalLen >= Len(elems)
      BY <2>1 DEF LogicalLen
    <3> QED BY <2>1, <2>3, <3>1
  <2> QED BY <2>2, <2>3 DEF Readable
<1> QED BY <1>1, ArraysInvariance, PTL

(* For arrays of every length: a sort leaves the dense vector with what it *)
(* held at the call, undefined last, whatever the comparator answers and   *)
(* does to the array; with an honest comparator it is in order, and equal  *)
(* values stay in theirs (arr_sort).  If no value is sparse, undefined is  *)
(* last in the whole array.  A filter gives back a subsequence of what the *)
(* vector held at the call (arr_filter).                                   *)
THEOREM ResultsSoundAlways == ArraysSpec => []ResultsSound
<1>1. AInv => ResultsSound
  BY DEF AInv
<1> QED BY <1>1, ArraysInvariance, PTL

===============================================================================
