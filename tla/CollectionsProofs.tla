-------------------------- MODULE CollectionsProofs --------------------------
(* Machine-checked proofs about Collections, for every value of its        *)
(* constants.                                                              *)
EXTENDS Collections, SequenceTheorems, WellFoundedInduction, TLAPS

-----------------------------------------------------------------------------
(* The invariant about a collection of kind kd, in terms of its data d: no *)
(* key has two entries (but in a weak map), the index is the positions,    *)
(* and entries stand in the order in which they were made.                 *)

Data == [entries : Seq(Entry), index : [Keys -> Nat], made : Nat]

OneEach(kd, d) ==
  kd # "weakmap" =>
    \A i, j \in 1..Len(d.entries) : d.entries[i].key = d.entries[j].key => i = j

Indexed(kd, d) ==
  kd \in Hashed =>
    /\ \A i \in 1..Len(d.entries) : d.index[d.entries[i].key] = i
    /\ \A k \in Keys : LET i == d.index[k] IN
         i # 0 => i \in 1..Len(d.entries) /\ d.entries[i].key = k

Ordered(d) ==
  /\ \A i, j \in 1..Len(d.entries) : i < j => d.entries[i].id < d.entries[j].id
  /\ \A i \in 1..Len(d.entries) : d.entries[i].id < d.made

DataOK(kd, d) == d \in Data /\ OneEach(kd, d) /\ Indexed(kd, d) /\ Ordered(d)

(* The invariant about an iterator: it yielded entries in the order they   *)
(* were made, all of them made before those that are still before it.      *)
Passed(c, d) ==
  /\ \A m, n \in 1..Len(c.yielded) : m < n => c.yielded[m] < c.yielded[n]
  /\ \A n \in 1..Len(c.yielded) :
       /\ c.yielded[n] < d.made
       /\ \A i \in 1..Len(d.entries) : i > c.at => c.yielded[n] < d.entries[i].id

IInv ==
  /\ CollectionsTypeOK
  /\ DataOK(kind, data)
  /\ \A it \in Iterators : Passed(iterators[it], data)

(* What a change of the entries must leave to the iterators: what stands   *)
(* past a position stood past it before, or is newer than all that was.    *)
Follows(d, e) ==
  /\ d.made <= e.made
  /\ \A i \in 1..Len(e.entries) :
       \/ e.entries[i].id >= d.made
       \/ \E j \in 1..Len(d.entries) : j >= i /\ e.entries[i].id = d.entries[j].id

LEMMA DataTypes ==
  ASSUME NEW d \in Data
  PROVE  /\ d.entries \in Seq(Entry) /\ Len(d.entries) \in Nat
         /\ \A i \in 1..Len(d.entries) :
              /\ d.entries[i] \in Entry
              /\ d.entries[i].id \in Nat /\ d.entries[i].key \in Keys
         /\ d.index \in [Keys -> Nat] /\ d.made \in Nat
<1>1. d.entries \in Seq(Entry) /\ d.index \in [Keys -> Nat] /\ d.made \in Nat
  BY DEF Data
<1>2. Len(d.entries) \in Nat /\ \A i \in 1..Len(d.entries) : d.entries[i] \in Entry
  BY <1>1
<1>3. \A x \in Entry : x.id \in Nat /\ x.key \in Keys
  BY DEF Entry
<1> QED BY <1>1, <1>2, <1>3

LEMMA PassedOn ==
  ASSUME NEW kd, NEW d, DataOK(kd, d), NEW e \in Data, Follows(d, e),
         NEW c \in [at : Nat, yielded : Seq(Nat)], Passed(c, d)
  PROVE  Passed(c, e)
<1>1. d \in Data /\ d.made \in Nat /\ e.made \in Nat /\ c.at \in Nat
  BY DataTypes DEF DataOK
<1>2. \A n \in 1..Len(c.yielded) : c.yielded[n] \in Nat /\ c.yielded[n] < d.made
  BY DEF Passed
<1>3. \A i \in 1..Len(d.entries) : d.entries[i].id \in Nat
  BY <1>1, DataTypes
<1>4. \A i \in 1..Len(e.entries) : e.entries[i].id \in Nat
  BY DataTypes
<1>5. ASSUME NEW n \in 1..Len(c.yielded), NEW i \in 1..Len(e.entries), i > c.at
      PROVE  c.yielded[n] < e.entries[i].id
  <2>1. CASE e.entries[i].id >= d.made
    BY <2>1, <1>1, <1>2, <1>4
  <2>2. CASE \E j \in 1..Len(d.entries) : j >= i /\ e.entries[i].id = d.entries[j].id
    <3>1. PICK j \in 1..Len(d.entries) : j >= i /\ e.entries[i].id = d.entries[j].id
      BY <2>2
    <3>2. j > c.at
      <4>1. Len(d.entries) \in Nat /\ Len(e.entries) \in Nat
        BY <1>1, DataTypes
      <4> QED BY <4>1, <3>1, <1>5, <1>1
    <3> QED BY <3>1, <3>2 DEF Passed
  <2> QED BY <2>1, <2>2 DEF Follows
<1>6. \A n \in 1..Len(c.yielded) : c.yielded[n] < e.made
  BY <1>1, <1>2 DEF Follows
<1> QED BY <1>5, <1>6 DEF Passed

-----------------------------------------------------------------------------
(* Sequences *)

LEMMA Removed ==
  ASSUME NEW S, NEW s \in Seq(S), NEW i \in 1..Len(s)
  PROVE  /\ RemoveAt(s, i) \in Seq(S)
         /\ Len(RemoveAt(s, i)) = Len(s) - 1
         /\ \A n \in 1..(Len(s) - 1) :
              RemoveAt(s, i)[n] = IF n < i THEN s[n] ELSE s[n + 1]
<1> DEFINE u == SubSeq(s, 1, i - 1)
           w == SubSeq(s, i + 1, Len(s))
<1>1. Len(s) \in Nat /\ i \in Nat /\ i >= 1 /\ i <= Len(s)
  OBVIOUS
<1>2. u \in Seq(S) /\ w \in Seq(S)
  BY <1>1
<1>3. Len(u) = i - 1
  <2>1. 1 \in Int /\ i - 1 \in Int /\ \A n \in 1..(i - 1) : s[n] \in S
    BY <1>1
  <2>2. Len(u) = IF 1 <= i - 1 THEN i - 1 - 1 + 1 ELSE 0
    BY <2>1, SubSeqProperties
  <2>3. ASSUME NEW a \in Nat, a >= 1
        PROVE  (IF 1 <= a - 1 THEN a - 1 - 1 + 1 ELSE 0) = a - 1
    BY <2>3
  <2> QED BY <1>1, <2>2, <2>3
<1>4. Len(w) = Len(s) - i
  <2>1. i + 1 \in Int /\ Len(s) \in Int /\ \A n \in (i + 1)..Len(s) : s[n] \in S
    BY <1>1
  <2>2. Len(w) = IF i + 1 <= Len(s) THEN Len(s) - (i + 1) + 1 ELSE 0
    BY <2>1, SubSeqProperties
  <2>3. ASSUME NEW a \in Nat, NEW b \in Nat, a <= b
        PROVE  (IF a + 1 <= b THEN b - (a + 1) + 1 ELSE 0) = b - a
    BY <2>3
  <2> QED BY <1>1, <2>2, <2>3
<1>5. \A n \in 1..(i - 1) : u[n] = s[n]
  BY <1>1, <1>3
<1>6. \A n \in 1..(Len(s) - i) : w[n] = s[n + i]
  <2>1. i + 1 \in Int /\ Len(s) \in Int /\ \A n \in (i + 1)..Len(s) : s[n] \in S
    BY <1>1
  <2>2. \A n \in 1..Len(w) : w[n] = s[i + 1 + n - 1]
    BY <2>1, SubSeqProperties
  <2>3. \A n \in 1..(Len(s) - i) : i + 1 + n - 1 = n + i
    BY <1>1
  <2> QED BY <1>4, <2>2, <2>3
<1> HIDE DEF u, w
<1>7. u \o w \in Seq(S) /\ Len(u \o w) = Len(s) - 1
      /\ \A n \in 1..(Len(u) + Len(w)) :
           (u \o w)[n] = IF n <= Len(u) THEN u[n] ELSE w[n - Len(u)]
  BY <1>1, <1>2, <1>3, <1>4
<1>8. ASSUME NEW n \in 1..(Len(s) - 1)
      PROVE  (u \o w)[n] = IF n < i THEN s[n] ELSE s[n + 1]
  <2>1. n \in 1..(Len(u) + Len(w))
    BY <1>1, <1>3, <1>4
  <2>2. CASE n < i
    <3>1. n \in 1..(i - 1) /\ n <= Len(u)
      BY <2>2, <1>1, <1>3
    <3> QED BY <2>1, <2>2, <3>1, <1>5, <1>7
  <2>3. CASE ~(n < i)
    <3>1. n - Len(u) \in 1..(Len(s) - i) /\ ~(n <= Len(u)) /\ n - Len(u) + i = n + 1
      BY <2>3, <1>1, <1>3
    <3> QED BY <2>1, <2>3, <3>1, <1>6, <1>7
  <2> QED BY <2>2, <2>3
<1>9. RemoveAt(s, i) = u \o w
  BY DEF RemoveAt, u, w
<1> QED BY <1>7, <1>8, <1>9

-----------------------------------------------------------------------------
(* Operations on the data *)

(* What find gives: the entry of the key, 0 if there is none. *)
LEMMA Found ==
  ASSUME NEW kd, NEW d, DataOK(kd, d), NEW k \in Keys
  PROVE  LET i == Find(kd, d, k) IN
         /\ i \in 0..Len(d.entries)
         /\ i # 0 => d.entries[i].key = k
         /\ i = 0 => \A j \in 1..Len(d.entries) : d.entries[j].key # k
<1>1. d \in Data
  BY DEF DataOK
<1>2. DOMAIN d.entries = 1..Len(d.entries) /\ Len(d.entries) \in Nat
  BY <1>1, DataTypes
<1>3. CASE kd \in Hashed
  <2>1. Find(kd, d, k) = d.index[k]
    BY <1>3 DEF Find
  <2>2. d.index[k] \in Nat
    BY <1>1, DataTypes
  <2> QED BY <1>2, <1>3, <2>1, <2>2, DataTypes, <1>1 DEF DataOK, Indexed
<1>4. CASE kd \notin Hashed
  <2>1. Find(kd, d, k) = Position(d.entries, k)
    BY <1>4 DEF Find
  <2>2. CASE \E i \in DOMAIN d.entries : d.entries[i].key = k
    <3> DEFINE T == {i \in DOMAIN d.entries : d.entries[i].key = k}
               R == OpToRel(<, Nat)
    <3>1. T \subseteq Nat /\ T # {}
      BY <1>2, <2>2
    <3>2. \E i \in T : \A j \in T : ~(<<j, i>> \in R)
      BY <3>1, NatLessThanWellFounded, WFMin
    <3>3. PICK i \in T : \A j \in T : ~(j < i)
      BY <3>1, <3>2 DEF OpToRel
    <3>4. \E n \in DOMAIN d.entries :
            d.entries[n].key = k /\ \A j \in 1..(n - 1) : d.entries[j].key # k
      BY <1>2, <3>3
    <3>5. Position(d.entries, k) \in DOMAIN d.entries
          /\ d.entries[Position(d.entries, k)].key = k
      BY <2>2, <3>4 DEF Position
    <3> QED BY <1>2, <2>1, <3>5
  <2>3. CASE ~ \E i \in DOMAIN d.entries : d.entries[i].key = k
    BY <1>2, <2>1, <2>3 DEF Position
  <2> QED BY <2>2, <2>3
<1> QED BY <1>3, <1>4

LEMMA PushOK ==
  ASSUME NEW kd, NEW d, DataOK(kd, d), NEW k \in Keys, NEW v \in Vals,
         kd # "weakmap" => \A j \in 1..Len(d.entries) : d.entries[j].key # k
  PROVE  DataOK(kd, Push(kd, d, k, v)) /\ Follows(d, Push(kd, d, k, v))
<1> DEFINE x == [key |-> k, val |-> IF kd \in Maps THEN v ELSE k, id |-> d.made]
           index == IF kd \in Hashed
                      THEN [d.index EXCEPT ![k] = Len(d.entries) + 1] ELSE d.index
           e == [entries |-> Append(d.entries, x), index |-> index, made |-> d.made + 1]
<1>1. d \in Data
  BY DEF DataOK
<1>2. d.entries \in Seq(Entry) /\ Len(d.entries) \in Nat /\ d.made \in Nat
      /\ d.index \in [Keys -> Nat]
      /\ \A i \in 1..Len(d.entries) : d.entries[i].id \in Nat /\ d.entries[i].key \in Keys
  BY <1>1, DataTypes
<1>3. x \in Entry /\ x.key = k /\ x.id = d.made
  BY <1>2 DEF Entry
<1>4. index \in [Keys -> Nat]
      /\ (kd \in Hashed => \A j \in Keys :
            index[j] = IF j = k THEN Len(d.entries) + 1 ELSE d.index[j])
  BY <1>2
<1> HIDE DEF x, index
<1>5. /\ e.entries = Append(d.entries, x) /\ e.index = index /\ e.made = d.made + 1
      /\ Append(d.entries, x) \in Seq(Entry)
      /\ Len(e.entries) = Len(d.entries) + 1
      /\ \A i \in 1..Len(d.entries) : e.entries[i] = d.entries[i]
      /\ e.entries[Len(d.entries) + 1] = x
  BY <1>2, <1>3
<1>6. \A i \in 1..Len(e.entries) : i \in 1..Len(d.entries) \/ i = Len(d.entries) + 1
  BY <1>2, <1>5
<1>7. e \in Data
  BY <1>2, <1>4, <1>5 DEF Data
<1>8. Push(kd, d, k, v) = e
  BY DEF Push, x, index
<1> HIDE DEF e
<1>9. OneEach(kd, e)
  BY <1>3, <1>5, <1>6 DEF OneEach, DataOK
<1>10. Indexed(kd, e)
  <2> SUFFICES ASSUME kd \in Hashed PROVE Indexed(kd, e)
    BY DEF Indexed
  <2>1. kd # "weakmap"
    BY DEF Hashed
  <2>2. ASSUME NEW i \in 1..Len(e.entries) PROVE e.index[e.entries[i].key] = i
    <3>1. CASE i \in 1..Len(d.entries)
      BY <3>1, <2>1, <1>2, <1>4, <1>5 DEF DataOK, Indexed
    <3>2. CASE i = Len(d.entries) + 1
      BY <3>2, <1>3, <1>4, <1>5
    <3> QED BY <3>1, <3>2, <1>6
  <2>3. ASSUME NEW j \in Keys, e.index[j] # 0
        PROVE  e.index[j] \in 1..Len(e.entries) /\ e.entries[e.index[j]].key = j
    <3>1. CASE j = k
      <4>1. e.index[j] = Len(d.entries) + 1
        BY <3>1, <1>4, <1>5
      <4> QED BY <4>1, <3>1, <1>2, <1>3, <1>5
    <3>2. CASE j # k
      <4>1. e.index[j] = d.index[j]
        BY <3>2, <1>4, <1>5
      <4>2. d.index[j] \in 1..Len(d.entries) /\ d.entries[d.index[j]].key = j
        BY <4>1, <2>3 DEF DataOK, Indexed
      <4> QED BY <4>1, <4>2, <1>2, <1>5
    <3> QED BY <3>1, <3>2
  <2> QED BY <2>2, <2>3 DEF Indexed
<1>11. Ordered(e)
  <2>1. \A i \in 1..Len(d.entries) : d.entries[i].id < d.made
    BY DEF DataOK, Ordered
  <2>2. ASSUME NEW i \in 1..Len(e.entries), NEW j \in 1..Len(e.entries), i < j
        PROVE  e.entries[i].id < e.entries[j].id
    <3>1. i \in 1..Len(d.entries)
      BY <1>2, <1>5, <2>2
    <3>2. CASE j \in 1..Len(d.entries)
      BY <3>1, <3>2, <2>2, <1>5 DEF DataOK, Ordered
    <3>3. CASE j = Len(d.entries) + 1
      BY <3>1, <3>3, <2>1, <1>3, <1>5
    <3> QED BY <3>2, <3>3, <1>6
  <2>3. \A i \in 1..Len(e.entries) : e.entries[i].id < e.made
    BY <1>2, <1>3, <1>5, <1>6, <2>1
  <2> QED BY <2>2, <2>3 DEF Ordered
<1>12. Follows(d, e)
  <2>1. \A i \in 1..Len(d.entries) : i >= i /\ e.entries[i].id = d.entries[i].id
    BY <1>2, <1>5
  <2>2. e.entries[Len(d.entries) + 1].id >= d.made
    BY <1>2, <1>3, <1>5
  <2> QED BY <1>2, <1>5, <1>6, <2>1, <2>2 DEF Follows
<1> QED BY <1>7, <1>8, <1>9, <1>10, <1>11, <1>12 DEF DataOK

LEMMA PutOK ==
  ASSUME NEW kd, NEW d, DataOK(kd, d), NEW k \in Keys, NEW v \in Vals
  PROVE  DataOK(kd, Put(kd, d, k, v)) /\ Follows(d, Put(kd, d, k, v))
<1> DEFINE i == Find(kd, d, k)
<1>1. i \in 0..Len(d.entries)
      /\ (i # 0 => d.entries[i].key = k)
      /\ (i = 0 => \A j \in 1..Len(d.entries) : d.entries[j].key # k)
  BY Found
<1>2. d \in Data
  BY DEF DataOK
<1>3. /\ d.entries \in Seq(Entry) /\ Len(d.entries) \in Nat /\ d.made \in Nat
      /\ d.index \in [Keys -> Nat]
      /\ \A n \in 1..Len(d.entries) : d.entries[n] \in Entry
  BY <1>2, DataTypes
<1>4. Follows(d, d)
  BY <1>3 DEF Follows
<1>5. CASE i = 0
  <2>1. Put(kd, d, k, v) = Push(kd, d, k, v)
    BY <1>5 DEF Put
  <2> QED BY <1>1, <1>5, <2>1, PushOK
<1>6. CASE i # 0 /\ kd \in Maps
  <2> DEFINE e == [d EXCEPT !.entries[i].val = v]
  <2>1. i \in 1..Len(d.entries)
    BY <1>1, <1>3, <1>6
  <2> DEFINE new == [d.entries EXCEPT ![i] = [d.entries[i] EXCEPT !.val = v]]
  <2>2. e.entries = new /\ e.index = d.index /\ e.made = d.made
    BY <1>2 DEF Data
  <2>3. [d.entries[i] EXCEPT !.val = v] \in Entry
        /\ [d.entries[i] EXCEPT !.val = v].id = d.entries[i].id
        /\ [d.entries[i] EXCEPT !.val = v].key = d.entries[i].key
    BY <1>3, <2>1 DEF Entry
  <2>4. /\ e.entries \in Seq(Entry) /\ Len(e.entries) = Len(d.entries)
        /\ \A n \in 1..Len(d.entries) :
             e.entries[n] = IF n = i THEN [d.entries[i] EXCEPT !.val = v] ELSE d.entries[n]
    BY <1>3, <2>1, <2>2, <2>3, ExceptSeq
  <2>5. \A n \in 1..Len(d.entries) :
          e.entries[n].id = d.entries[n].id /\ e.entries[n].key = d.entries[n].key
    BY <2>3, <2>4
  <2>6. e \in Data
    BY <1>2, <1>3, <2>2, <2>4 DEF Data
  <2> HIDE DEF e
  <2>7. OneEach(kd, e) /\ Indexed(kd, e)
    BY <2>2, <2>4, <2>5 DEF DataOK, OneEach, Indexed
  <2>8. Ordered(e) /\ Follows(d, e)
    BY <1>3, <2>2, <2>4, <2>5 DEF DataOK, Ordered, Follows
  <2>9. Put(kd, d, k, v) = e
    BY <1>6 DEF Put, e
  <2> QED BY <2>6, <2>7, <2>8, <2>9 DEF DataOK
<1>7. CASE i # 0 /\ kd \notin Maps
  <2>1. Put(kd, d, k, v) = d
    BY <1>7 DEF Put
  <2> QED BY <1>4, <2>1
<1> QED BY <1>5, <1>6, <1>7

(* Rebuilding gives the index, where no key has two entries. *)
LEMMA Rebuilt ==
  ASSUME NEW s \in Seq(Entry), NEW k \in Keys,
         \A m, n \in 1..Len(s) : s[m].key = s[n].key => m = n
  PROVE  LET i == RebuildIndex(s)[k] IN
         /\ i \in Nat
         /\ i # 0 => i \in 1..Len(s) /\ s[i].key = k
         /\ (\E n \in 1..Len(s) : s[n].key = k) => i # 0
<1> DEFINE i == RebuildIndex(s)[k]
<1>1. DOMAIN s = 1..Len(s) /\ Len(s) \in Nat
  OBVIOUS
<1>2. i = IF \E n \in DOMAIN s : s[n].key = k
            THEN CHOOSE n \in DOMAIN s :
                   s[n].key = k /\ \A j \in DOMAIN s : j > n => s[j].key # k
            ELSE 0
  BY DEF RebuildIndex
<1> HIDE DEF i
<1>3. CASE \E n \in DOMAIN s : s[n].key = k
  <2>1. \E n \in DOMAIN s : s[n].key = k /\ \A j \in DOMAIN s : j > n => s[j].key # k
    BY <1>1, <1>3
  <2>2. i \in DOMAIN s /\ s[i].key = k
    BY <1>2, <1>3, <2>1
  <2> QED BY <1>1, <2>2 DEF i
<1>4. CASE ~ \E n \in DOMAIN s : s[n].key = k
  <2>1. i = 0
    BY <1>2, <1>4
  <2> QED BY <1>1, <1>4, <2>1 DEF i
<1> QED BY <1>3, <1>4

(* What is left when one entry is taken out *)
LEMMA RestOK ==
  ASSUME NEW kd, NEW d, DataOK(kd, d), NEW i \in 1..Len(d.entries),
         NEW e \in Data, e.entries = RemoveAt(d.entries, i), e.made = d.made,
         kd \in Hashed => e.index = RebuildIndex(RemoveAt(d.entries, i))
  PROVE  DataOK(kd, e) /\ Follows(d, e)
<1> DEFINE old == [n \in 1..(Len(d.entries) - 1) |-> IF n < i THEN n ELSE n + 1]
<1>1. d \in Data
  BY DEF DataOK
<1>2. /\ d.entries \in Seq(Entry) /\ Len(d.entries) \in Nat /\ d.made \in Nat
      /\ \A n \in 1..Len(d.entries) : d.entries[n].key \in Keys /\ d.entries[n].id \in Nat
  BY <1>1, DataTypes
<1>3. /\ e.entries = RemoveAt(d.entries, i) /\ e.made = d.made
      /\ e.entries \in Seq(Entry) /\ Len(e.entries) = Len(d.entries) - 1
      /\ Len(e.entries) \in Nat
      /\ \A n \in 1..Len(e.entries) :
           e.entries[n] = IF n < i THEN d.entries[n] ELSE d.entries[n + 1]
  <2>1. e.entries = RemoveAt(d.entries, i) /\ e.made = d.made
    OBVIOUS
  <2>2. /\ RemoveAt(d.entries, i) \in Seq(Entry)
        /\ Len(RemoveAt(d.entries, i)) = Len(d.entries) - 1
        /\ \A n \in 1..(Len(d.entries) - 1) :
             RemoveAt(d.entries, i)[n] = IF n < i THEN d.entries[n] ELSE d.entries[n + 1]
    BY <1>2, Removed
  <2> QED BY <1>2, <2>1, <2>2
<1>4. /\ \A n \in 1..Len(e.entries) : old[n] \in 1..Len(d.entries) /\ old[n] >= n
      /\ \A m, n \in 1..Len(e.entries) :
           (old[m] = old[n] => m = n) /\ (m < n => old[m] < old[n])
  BY <1>2, <1>3
<1>5. \A n \in 1..Len(e.entries) : e.entries[n] = d.entries[old[n]]
  BY <1>3
<1> HIDE DEF old
<1>6. e \in Data
  OBVIOUS
<1>7. OneEach(kd, e)
  <2> SUFFICES ASSUME kd # "weakmap", NEW m \in 1..Len(e.entries), NEW n \in 1..Len(e.entries),
                      e.entries[m].key = e.entries[n].key
               PROVE  m = n
    BY DEF OneEach
  <2>1. d.entries[old[m]].key = d.entries[old[n]].key
    BY <1>5
  <2>2. old[m] = old[n]
    BY <1>4, <2>1 DEF DataOK, OneEach
  <2> QED BY <1>4, <2>2
<1>8. Indexed(kd, e)
  <2> SUFFICES ASSUME kd \in Hashed PROVE Indexed(kd, e)
    BY DEF Indexed
  <2>0. e.index = RebuildIndex(e.entries) /\ kd # "weakmap"
    BY DEF Hashed
  <2>1. DOMAIN e.entries = 1..Len(e.entries)
    BY <1>3
  <2>2. \A m, n \in 1..Len(e.entries) : e.entries[m].key = e.entries[n].key => m = n
    BY <1>7, <2>0 DEF OneEach
  <2>3. ASSUME NEW k \in Keys
        PROVE  /\ e.index[k] # 0 =>
                    e.index[k] \in 1..Len(e.entries) /\ e.entries[e.index[k]].key = k
               /\ (\E n \in 1..Len(e.entries) : e.entries[n].key = k) => e.index[k] # 0
    <3> DEFINE q == e.entries
    <3>1. q \in Seq(Entry) /\ \A m, n \in 1..Len(q) : q[m].key = q[n].key => m = n
      BY <1>3, <2>2
    <3>2. e.index = RebuildIndex(q)
      BY <2>0
    <3> HIDE DEF q
    <3>3. LET at == RebuildIndex(q)[k] IN
          /\ at # 0 => at \in 1..Len(q) /\ q[at].key = k
          /\ (\E n \in 1..Len(q) : q[n].key = k) => at # 0
      BY <3>1, Rebuilt
    <3> QED BY <3>2, <3>3 DEF q
  <2>4. ASSUME NEW n \in 1..Len(e.entries)
        PROVE  e.index[e.entries[n].key] = n
    <3>1. e.entries[n].key \in Keys
      BY <1>2, <1>4, <1>5
    <3>2. e.index[e.entries[n].key] \in 1..Len(e.entries)
          /\ e.entries[e.index[e.entries[n].key]].key = e.entries[n].key
      BY <2>3, <3>1
    <3> QED BY <2>2, <3>2
  <2> QED BY <2>3, <2>4 DEF Indexed
<1>9. Ordered(e)
  <2>1. ASSUME NEW m \in 1..Len(e.entries), NEW n \in 1..Len(e.entries), m < n
        PROVE  e.entries[m].id < e.entries[n].id
    <3>1. d.entries[old[m]].id < d.entries[old[n]].id
      BY <1>4, <2>1 DEF DataOK, Ordered
    <3> QED BY <1>5, <3>1
  <2>2. ASSUME NEW n \in 1..Len(e.entries) PROVE e.entries[n].id < e.made
    BY <1>3, <1>4, <1>5 DEF DataOK, Ordered
  <2> QED BY <2>1, <2>2 DEF Ordered
<1>10. Follows(d, e)
  <2>1. ASSUME NEW n \in 1..Len(e.entries)
        PROVE  old[n] \in 1..Len(d.entries) /\ old[n] >= n
               /\ e.entries[n].id = d.entries[old[n]].id
    BY <1>4, <1>5
  <2>2. d.made <= e.made
    BY <1>2, <1>3
  <2> QED BY <2>1, <2>2 DEF Follows
<1> QED BY <1>6, <1>7, <1>8, <1>9, <1>10 DEF DataOK


-----------------------------------------------------------------------------
(* The invariant *)

LEMMA DeletedOK ==
  ASSUME NEW kd, NEW d, DataOK(kd, d), NEW i \in 1..Len(d.entries),
         NEW index \in [Keys -> Nat],
         kd \in Hashed => index = RebuildIndex(RemoveAt(d.entries, i))
  PROVE  LET e == [d EXCEPT !.entries = RemoveAt(d.entries, i), !.index = index]
         IN  DataOK(kd, e) /\ Follows(d, e)
<1> DEFINE e == [d EXCEPT !.entries = RemoveAt(d.entries, i), !.index = index]
<1>1. d \in Data
  BY DEF DataOK
<1>2. RemoveAt(d.entries, i) \in Seq(Entry)
  BY <1>1, DataTypes, Removed
<1>3. e \in Data /\ e.entries = RemoveAt(d.entries, i) /\ e.index = index /\ e.made = d.made
  BY <1>1, <1>2 DEF Data
<1> HIDE DEF e
<1>4. DataOK(kd, e) /\ Follows(d, e)
  BY <1>3, RestOK
<1> QED BY <1>4 DEF e

LEMMA RebuiltIndexType ==
  ASSUME NEW kd, NEW d, DataOK(kd, d), kd # "weakmap", NEW i \in 1..Len(d.entries)
  PROVE  RebuildIndex(RemoveAt(d.entries, i)) \in [Keys -> Nat]
<1> DEFINE s == RemoveAt(d.entries, i)
<1>1. d \in Data
  BY DEF DataOK
<1>2. d.entries \in Seq(Entry) /\ Len(d.entries) \in Nat
  BY <1>1, DataTypes
<1>3. s \in Seq(Entry) /\ \A m, n \in 1..Len(s) : s[m].key = s[n].key => m = n
  <2>1. /\ s \in Seq(Entry) /\ Len(s) = Len(d.entries) - 1
        /\ \A n \in 1..Len(s) : s[n] = IF n < i THEN d.entries[n] ELSE d.entries[n + 1]
    BY <1>2, Removed
  <2>2. \A m, n \in 1..Len(d.entries) : d.entries[m].key = d.entries[n].key => m = n
    BY DEF DataOK, OneEach
  <2> HIDE DEF s
  <2>3. ASSUME NEW m \in 1..Len(s), NEW n \in 1..Len(s), s[m].key = s[n].key
        PROVE  m = n
    <3> DEFINE a == IF m < i THEN m ELSE m + 1
               b == IF n < i THEN n ELSE n + 1
    <3>1. a \in 1..Len(d.entries) /\ b \in 1..Len(d.entries)
      BY <1>2, <2>1
    <3>2. s[m] = d.entries[a] /\ s[n] = d.entries[b]
      BY <2>1
    <3> HIDE DEF a, b
    <3>3. a = b
      BY <2>2, <2>3, <3>1, <3>2
    <3> QED BY <1>2, <2>1, <3>3 DEF a, b
  <2> QED BY <2>1, <2>3
<1> HIDE DEF s
<1>4. \A k \in Keys : RebuildIndex(s)[k] \in Nat
  BY <1>3, Rebuilt
<1>5. RebuildIndex(s) = [k \in Keys |-> RebuildIndex(s)[k]]
  BY DEF RebuildIndex
<1> QED BY <1>4, <1>5 DEF s

LEMMA ClearedOK ==
  ASSUME NEW kd, NEW d, DataOK(kd, d)
  PROVE  LET e == [d EXCEPT !.entries = <<>>, !.index = [k \in Keys |-> 0]]
         IN  DataOK(kd, e) /\ Follows(d, e)
<1> DEFINE e == [d EXCEPT !.entries = <<>>, !.index = [k \in Keys |-> 0]]
<1>1. d \in Data
  BY DEF DataOK
<1>2. /\ e \in Data /\ e.entries = <<>> /\ e.made = d.made /\ d.made \in Nat
      /\ e.index = [k \in Keys |-> 0]
  <2>1. <<>> \in Seq(Entry) /\ [k \in Keys |-> 0] \in [Keys -> Nat]
    BY EmptySeq
  <2> QED BY <1>1, <2>1 DEF Data
<1> HIDE DEF e
<1>3. Len(e.entries) = 0
  BY <1>2
<1>4. DataOK(kd, e) /\ Follows(d, e)
  BY <1>2, <1>3 DEF DataOK, OneEach, Indexed, Ordered, Follows
<1> QED BY <1>4 DEF e

LEMMA InitGood == CollectionsInit => IInv
<1> SUFFICES ASSUME CollectionsInit PROVE IInv
  OBVIOUS
<1>1. /\ data \in Data /\ data.entries = <<>> /\ data.index = [k \in Keys |-> 0]
  BY DEF CollectionsInit, Empty, Data
<1>2. DataOK(kind, data)
  BY <1>1 DEF DataOK, OneEach, Indexed, Ordered
<1>3. \A it \in Iterators : iterators[it].yielded = <<>>
  BY DEF CollectionsInit
<1>4. \A it \in Iterators : Passed(iterators[it], data)
  BY <1>1, <1>3 DEF Passed
<1>5. CollectionsTypeOK
  <2>1. items \in Seq(Keys \X Vals) /\ loops \in Seq(Nat)
    BY CollectionsAssumption DEF CollectionsInit
  <2>2. iterators \in [Iterators -> [at : Nat, yielded : Seq(Nat)]]
    <3>1. [at |-> 0, yielded |-> <<>>] \in [at : Nat, yielded : Seq(Nat)]
      OBVIOUS
    <3> QED BY <3>1 DEF CollectionsInit
  <2>3. kind \in {"map", "set", "weakmap", "weakset"} /\ panicked \in BOOLEAN
    BY DEF CollectionsInit
  <2> QED BY <1>1, <2>1, <2>2, <2>3 DEF CollectionsTypeOK, Data
<1> QED BY <1>2, <1>4, <1>5 DEF IInv

(* A step that changes the data only *)
LEMMA DataStep ==
  ASSUME IInv, DataOK(kind, data'), Follows(data, data'), items' \in Seq(Keys \X Vals),
         panicked' \in BOOLEAN, UNCHANGED <<kind, iterators, loops>>
  PROVE  IInv'
<1>1. \A it \in Iterators : iterators[it] \in [at : Nat, yielded : Seq(Nat)]
  BY DEF IInv, CollectionsTypeOK
<1>2. \A it \in Iterators : Passed(iterators[it], data')
  BY <1>1, PassedOn DEF IInv, DataOK
<1>3. CollectionsTypeOK'
  BY DEF IInv, CollectionsTypeOK, DataOK, Data
<1> QED BY <1>2, <1>3 DEF IInv

LEMMA ChangesKeep ==
  ASSUME IInv, NEW d, DataOK(kind, d), Follows(data, d), Changes(d)
  PROVE  IInv'
<1>1. items' \in Seq(Keys \X Vals) /\ panicked' \in BOOLEAN
      /\ UNCHANGED <<kind, iterators, loops>>
  BY DEF IInv, CollectionsTypeOK, Changes
<1>2. data.made \in Nat /\ Len(data.entries) \in Nat
  BY DataTypes DEF IInv, DataOK
<1>3. Follows(data, data)
  BY <1>2 DEF Follows
<1>4. DataOK(kind, data') /\ Follows(data, data')
  BY <1>3 DEF Changes, IInv
<1> QED BY <1>1, <1>4, DataStep

LEMMA ConstructKeeps ==
  ASSUME IInv, Construct PROVE IInv'
<1> DEFINE k == Head(items)[1]
           v == Head(items)[2]
<1>1. k \in Keys /\ v \in Vals /\ items' \in Seq(Keys \X Vals)
  <2>1. items \in Seq(Keys \X Vals) /\ items # <<>>
    BY DEF IInv, CollectionsTypeOK, Construct
  <2>2. Head(items) \in Keys \X Vals /\ Tail(items) \in Seq(Keys \X Vals)
    BY <2>1, HeadTailProperties
  <2> QED BY <2>2 DEF Construct
<1>2. DataOK(kind, data)
  BY DEF IInv
<1>3. DataOK(kind, data') /\ Follows(data, data')
  <2>1. CASE kind = "weakmap"
    BY <1>1, <1>2, <2>1, PushOK DEF Construct
  <2>2. CASE kind # "weakmap"
    BY <1>1, <1>2, <2>2, PutOK DEF Construct
  <2> QED BY <2>1, <2>2
<1>4. panicked' \in BOOLEAN /\ UNCHANGED <<kind, iterators, loops>>
  BY DEF Construct, IInv, CollectionsTypeOK
<1> QED BY <1>1, <1>3, <1>4, DataStep

LEMMA SetOrAddKeeps ==
  ASSUME IInv, NEW k \in Keys, NEW v \in Vals, SetOrAdd(k, v) PROVE IInv'
<1>1. DataOK(kind, Put(kind, data, k, v)) /\ Follows(data, Put(kind, data, k, v))
  BY PutOK DEF IInv
<1> QED BY <1>1, ChangesKeep DEF SetOrAdd

LEMMA SameFollows == ASSUME IInv PROVE DataOK(kind, data) /\ Follows(data, data)
<1>1. data.made \in Nat /\ Len(data.entries) \in Nat
  BY DataTypes DEF IInv, DataOK
<1> QED BY <1>1 DEF IInv, Follows

LEMMA DeleteKeeps ==
  ASSUME IInv, NEW k \in Keys, Delete(k) \/ DeleteWeak(k) PROVE IInv'
<1> DEFINE i == Find(kind, data, k)
           rest == RemoveAt(data.entries, i)
           d == [data EXCEPT !.entries = rest, !.index = RebuildIndex(rest)]
           w == [data EXCEPT !.entries = rest]
<1>1. DataOK(kind, data) /\ data \in Data
  BY DEF IInv, DataOK
<1>2. i \in 0..Len(data.entries) /\ Len(data.entries) \in Nat
  BY <1>1, Found, DataTypes
<1>3. CASE i = 0
  BY <1>3, SameFollows, ChangesKeep DEF Delete, DeleteWeak
<1>4. CASE i # 0 /\ Delete(k)
  <2>1. i \in 1..Len(data.entries) /\ kind # "weakmap"
    BY <1>2, <1>4 DEF Delete, Hashed
  <2>2. DataOK(kind, d) /\ Follows(data, d)
    BY <1>1, <2>1, RebuiltIndexType, DeletedOK
  <2>3. Changes(d)
    BY <1>4 DEF Delete
  <2> QED BY <2>2, <2>3, ChangesKeep
<1>5. CASE i # 0 /\ DeleteWeak(k)
  <2>1. i \in 1..Len(data.entries) /\ kind \notin Hashed
    BY <1>2, <1>5 DEF DeleteWeak
  <2>2. rest \in Seq(Entry)
    BY <1>1, <2>1, DataTypes, Removed
  <2>3. w \in Data /\ w.entries = rest /\ w.made = data.made
    BY <1>1, <2>2 DEF Data
  <2>4. Changes(w)
    BY <1>5 DEF DeleteWeak
  <2> HIDE DEF w
  <2>5. DataOK(kind, w) /\ Follows(data, w)
    BY <1>1, <2>1, <2>3, RestOK
  <2> QED BY <2>4, <2>5, ChangesKeep
<1> QED BY <1>3, <1>4, <1>5

LEMMA ClearKeeps ==
  ASSUME IInv, Clear PROVE IInv'
<1>1. DataOK(kind, [data EXCEPT !.entries = <<>>, !.index = [k \in Keys |-> 0]])
      /\ Follows(data, [data EXCEPT !.entries = <<>>, !.index = [k \in Keys |-> 0]])
  BY ClearedOK DEF IInv
<1> QED BY <1>1, ChangesKeep DEF Clear

(* A step of iterators only *)
LEMMA IteratorStep ==
  ASSUME IInv, NEW it \in Iterators, NEW c \in [at : Nat, yielded : Seq(Nat)],
         Passed(c, data), iterators' = [iterators EXCEPT ![it] = c],
         UNCHANGED <<kind, items, data, loops, panicked>>
  PROVE  IInv'
<1>1. iterators \in [Iterators -> [at : Nat, yielded : Seq(Nat)]]
  BY DEF IInv, CollectionsTypeOK
<1>2. /\ iterators' \in [Iterators -> [at : Nat, yielded : Seq(Nat)]]
      /\ \A x \in Iterators : iterators'[x] = IF x = it THEN c ELSE iterators[x]
  BY <1>1
<1>3. CollectionsTypeOK'
  BY <1>2 DEF IInv, CollectionsTypeOK
<1>4. \A x \in Iterators : Passed(iterators'[x], data')
  BY <1>2 DEF IInv
<1>5. DataOK(kind', data')
  BY DEF IInv
<1> QED BY <1>3, <1>4, <1>5 DEF IInv

LEMMA MakeIteratorKeeps ==
  ASSUME IInv, NEW it \in Iterators, MakeIterator(it) PROVE IInv'
<1> DEFINE c == [at |-> 0, yielded |-> <<>>]
<1>1. c \in [at : Nat, yielded : Seq(Nat)] /\ c.yielded = <<>>
  OBVIOUS
<1> HIDE DEF c
<1>2. Passed(c, data)
  BY <1>1 DEF Passed
<1>3. /\ iterators' = [iterators EXCEPT ![it] = c]
      /\ UNCHANGED <<kind, items, data, loops, panicked>>
  BY DEF MakeIterator, c
<1> QED BY <1>1, <1>2, <1>3, IteratorStep

LEMMA IterateNextKeeps ==
  ASSUME IInv, NEW it \in Iterators, IterateNext(it) PROVE IInv'
<1> DEFINE b == iterators[it]
           at == b.at + 1
           id == data.entries[at].id
           c == [at |-> at, yielded |-> Append(b.yielded, id)]
<1>1. b \in [at : Nat, yielded : Seq(Nat)] /\ Passed(b, data) /\ data \in Data
      /\ DataOK(kind, data)
  BY DEF IInv, CollectionsTypeOK, DataOK
<1>2. /\ b.at \in Nat /\ b.yielded \in Seq(Nat) /\ Len(b.yielded) \in Nat
      /\ \A n \in 1..Len(b.yielded) : b.yielded[n] \in Nat
  BY <1>1
<1>3. /\ data.entries \in Seq(Entry) /\ Len(data.entries) \in Nat
      /\ \A i \in 1..Len(data.entries) : data.entries[i].id \in Nat
  BY <1>1, DataTypes
<1>4. at \in 1..Len(data.entries) /\ id \in Nat /\ at \in Nat
  BY <1>2, <1>3 DEF IterateNext
<1>5. /\ c.at = at /\ c.yielded = Append(b.yielded, id)
      /\ c \in [at : Nat, yielded : Seq(Nat)]
  BY <1>2, <1>4
<1>6. iterators' = [iterators EXCEPT ![it] = c]
      /\ UNCHANGED <<kind, items, data, loops, panicked>>
  BY DEF IterateNext
<1> HIDE DEF c
<1>7. /\ Len(c.yielded) = Len(b.yielded) + 1
      /\ \A n \in 1..Len(b.yielded) : c.yielded[n] = b.yielded[n]
      /\ c.yielded[Len(b.yielded) + 1] = id
  BY <1>2, <1>4, <1>5
<1>8. \A n \in 1..Len(c.yielded) : n \in 1..Len(b.yielded) \/ n = Len(b.yielded) + 1
  BY <1>2, <1>7
<1>9. id < data.made /\ \A i \in 1..Len(data.entries) : i > at => id < data.entries[i].id
  BY <1>1, <1>2, <1>3, <1>4 DEF DataOK, Ordered
<1>10. \A n \in 1..Len(b.yielded) :
         /\ b.yielded[n] < data.made /\ b.yielded[n] < id
         /\ \A i \in 1..Len(data.entries) : i > at => b.yielded[n] < data.entries[i].id
  <2>1. ASSUME NEW n \in 1..Len(b.yielded)
        PROVE  /\ b.yielded[n] < data.made
               /\ \A i \in 1..Len(data.entries) :
                    i > b.at => b.yielded[n] < data.entries[i].id
    BY <1>1 DEF Passed
  <2>2. at > b.at /\ \A i \in 1..Len(data.entries) : i > at => i > b.at
    BY <1>2, <1>3
  <2> QED BY <1>4, <2>1, <2>2
<1>11. ASSUME NEW m \in 1..Len(c.yielded), NEW n \in 1..Len(c.yielded), m < n
       PROVE  c.yielded[m] < c.yielded[n]
  <2>1. m \in 1..Len(b.yielded)
    BY <1>2, <1>7, <1>11
  <2>2. CASE n \in 1..Len(b.yielded)
    BY <1>1, <1>7, <1>11, <2>1, <2>2 DEF Passed
  <2>3. CASE n = Len(b.yielded) + 1
    BY <1>7, <1>10, <2>1, <2>3
  <2> QED BY <1>8, <2>2, <2>3
<1>12. ASSUME NEW n \in 1..Len(c.yielded)
       PROVE  /\ c.yielded[n] < data.made
              /\ \A i \in 1..Len(data.entries) : i > c.at => c.yielded[n] < data.entries[i].id
  <2>1. CASE n \in 1..Len(b.yielded)
    BY <1>5, <1>7, <1>10, <2>1
  <2>2. CASE n = Len(b.yielded) + 1
    BY <1>5, <1>7, <1>9, <2>2
  <2> QED BY <1>8, <2>1, <2>2
<1>13. Passed(c, data)
  BY <1>11, <1>12 DEF Passed
<1> QED BY <1>5, <1>6, <1>13, IteratorStep

LEMMA LoopKeeps ==
  ASSUME IInv, ForEach \/ ForEachNext \/ CallbackThrows PROVE IInv'
<1>1. loops \in Seq(Nat)
  BY DEF IInv, CollectionsTypeOK
<1>2. UNCHANGED <<kind, items, data, iterators, panicked>>
  BY DEF ForEach, ForEachNext, CallbackThrows
<1>3. loops' \in Seq(Nat)
  <2>1. CASE ForEach
    BY <1>1, <2>1 DEF ForEach
  <2>2. CASE ForEachNext \/ CallbackThrows
    <3>1. loops # <<>> /\ Len(loops) \in Nat /\ Len(loops) \in 1..Len(loops)
          /\ loops[Len(loops)] \in Nat
      BY <1>1, <2>2 DEF ForEachNext, CallbackThrows
    <3>2. SubSeq(loops, 1, Len(loops) - 1) \in Seq(Nat)
      BY <1>1, <3>1
    <3>3. [loops EXCEPT ![Len(loops)] = @ + 1] \in Seq(Nat)
      BY <1>1, <3>1, ExceptSeq
    <3> QED BY <2>2, <3>2, <3>3 DEF ForEachNext, CallbackThrows
  <2> QED BY <2>1, <2>2
<1>4. CollectionsTypeOK'
  BY <1>2, <1>3 DEF IInv, CollectionsTypeOK
<1> QED BY <1>2, <1>4 DEF IInv

LEMMA StepKeeps == IInv /\ [CollectionsNext]_collectionVars => IInv'
<1> SUFFICES ASSUME IInv, [CollectionsNext]_collectionVars PROVE IInv'
  OBVIOUS
<1>1. CASE UNCHANGED collectionVars
  BY <1>1 DEF collectionVars, IInv, CollectionsTypeOK
<1>2. CASE Construct
  BY <1>2, ConstructKeeps
<1>3. ASSUME NEW k \in Keys, Delete(k) \/ DeleteWeak(k) PROVE IInv'
  BY <1>3, DeleteKeeps
<1>4. ASSUME NEW k \in Keys, NEW v \in Vals, SetOrAdd(k, v) PROVE IInv'
  BY <1>4, SetOrAddKeeps
<1>5. CASE Clear
  BY <1>5, ClearKeeps
<1>6. ASSUME NEW it \in Iterators, MakeIterator(it) PROVE IInv'
  BY <1>6, MakeIteratorKeeps
<1>7. ASSUME NEW it \in Iterators, IterateNext(it) PROVE IInv'
  BY <1>7, IterateNextKeeps
<1>8. CASE ForEach \/ ForEachNext \/ CallbackThrows
  BY <1>8, LoopKeeps
<1> QED BY <1>1, <1>2, <1>3, <1>4, <1>5, <1>6, <1>7, <1>8 DEF CollectionsNext

(* The invariant holds of every reachable state, whatever keys and values  *)
(* a collection is given and however many iterators and loops go over it.  *)
THEOREM CollectionsInvariance == CollectionsSpec => []IInv
<1>1. IInv /\ [CollectionsNext]_collectionVars => IInv'
  BY StepKeeps
<1> QED BY <1>1, InitGood, PTL DEF CollectionsSpec

(* Every variable of the collections keeps its type.                       *)
THEOREM CollectionsTypeCorrect == CollectionsSpec => []CollectionsTypeOK
<1>1. IInv => CollectionsTypeOK
  BY DEF IInv
<1> QED BY <1>1, CollectionsInvariance, PTL

(* The hash index of a map or set finds exactly its entries, and no key    *)
(* has two, however often deletions rebuild it.                            *)
THEOREM IndexExactAlways == CollectionsSpec => []IndexExact
<1>1. IInv => IndexExact
  <2> SUFFICES ASSUME IInv PROVE IndexExact
    OBVIOUS
  <2>1. DataOK(kind, data) /\ data \in Data
    BY DEF IInv, DataOK
  <2>2. DOMAIN data.entries = 1..Len(data.entries)
    BY <2>1, DataTypes
  <2> QED BY <2>1, <2>2 DEF DataOK, OneEach, Indexed, IndexExact
<1> QED BY <1>1, CollectionsInvariance, PTL

(* No iterator yields an entry twice, whatever is added, deleted and       *)
(* cleared between its steps.                                              *)
THEOREM YieldsOnceAlways == CollectionsSpec => []YieldsOnce
<1>1. IInv => YieldsOnce
  <2> SUFFICES ASSUME IInv, NEW it \in Iterators,
                      NEW m \in DOMAIN iterators[it].yielded,
                      NEW n \in DOMAIN iterators[it].yielded,
                      iterators[it].yielded[m] = iterators[it].yielded[n]
               PROVE  m = n
    BY DEF YieldsOnce
  <2>1. iterators[it].yielded \in Seq(Nat) /\ Passed(iterators[it], data)
    BY DEF IInv, CollectionsTypeOK
  <2>2. DOMAIN iterators[it].yielded = 1..Len(iterators[it].yielded)
        /\ Len(iterators[it].yielded) \in Nat
        /\ \A i \in DOMAIN iterators[it].yielded : iterators[it].yielded[i] \in Nat
    BY <2>1
  <2>3. ~(m < n) /\ ~(n < m)
    BY <2>1, <2>2 DEF Passed
  <2> QED BY <2>2, <2>3
<1> QED BY <1>1, CollectionsInvariance, PTL
=============================================================================
