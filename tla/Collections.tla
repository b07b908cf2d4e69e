---------------------------- MODULE Collections ----------------------------
(***************************************************************************)
(* Map, Set, WeakMap and WeakSet (builtins/collections.rs; MapData,        *)
(* SetData, WeakMapData and WeakSetData in value.rs): one collection, the  *)
(* iterators over it and the calls of forEach that have not returned.      *)
(*                                                                         *)
(* Maps and sets keep their entries in a vector, in the order of insertion *)
(* and with a hash index beside it; weak ones search theirs.  An iterator  *)
(* is a position in that vector.  forEach borrows the collection while its *)
(* callbacks run, so a callback that changes it panics.                    *)
(***************************************************************************)
EXTENDS Naturals, SequencesExt

CONSTANTS
  Keys, Vals,   \* what user code stores
  FirstItems,   \* the lists of <<key, value>> that constructors are given
  Iterators,    \* the iterators user code holds
  MaxMade,      \* bound on the entries ever made
  MaxLoops      \* bound on the calls of forEach inside one another

ASSUME CollectionsAssumption ==
  /\ FirstItems \subseteq Seq(Keys \X Vals)
  /\ MaxMade \in Nat /\ MaxLoops \in Nat

VARIABLES
  kind,       \* "map", "set", "weakmap" or "weakset"
  items,      \* what its constructor was given and has not come to
  data,       \* its entries and index; ghost: how many entries it ever made
  iterators,  \* what each iterator is at; ghost: the entries it yielded
  loops,      \* the entries each forEach has come past, innermost last
  panicked    \* whether a change met a borrow

collectionVars == <<kind, items, data, iterators, loops, panicked>>

Hashed == {"map", "set"}
Maps == {"map", "weakmap"}

Entry == [key : Keys, val : Keys \cup Vals, id : Nat]

(***************************************************************************)
(* The position of the first entry with the key k, 0 if there is none.     *)
(***************************************************************************)
Position(entries, k) ==
  IF \E i \in DOMAIN entries : entries[i].key = k
    THEN CHOOSE i \in DOMAIN entries :
           entries[i].key = k /\ \A j \in 1..(i - 1) : entries[j].key # k
    ELSE 0

Find(kd, d, k) ==
  IF kd \in Hashed THEN d.index[k] ELSE Position(d.entries, k)

(***************************************************************************)
(* rebuild_index: of entries with one key the last would win.              *)
(***************************************************************************)
RebuildIndex(entries) ==
  [k \in Keys |->
     IF \E i \in DOMAIN entries : entries[i].key = k
       THEN CHOOSE i \in DOMAIN entries :
              entries[i].key = k
              /\ \A j \in DOMAIN entries : j > i => entries[j].key # k
       ELSE 0]

Push(kd, d, k, v) ==
  [entries |-> Append(d.entries,
                 [key |-> k, val |-> IF kd \in Maps THEN v ELSE k, id |-> d.made]),
   index |-> IF kd \in Hashed
               THEN [d.index EXCEPT ![k] = Len(d.entries) + 1] ELSE d.index,
   made |-> d.made + 1]

(***************************************************************************)
(* Faulty: a map moves the entry it overwrites to the end.                 *)
(***************************************************************************)
PutLast(kd, d, k, v) ==
  LET i == Find(kd, d, k)
      moved == Append(RemoveAt(d.entries, i), [d.entries[i] EXCEPT !.val = v])
  IN  CASE i = 0 -> Push(kd, d, k, v)
        [] i # 0 /\ kd \in Maps ->
             [d EXCEPT !.entries = moved, !.index = RebuildIndex(moved)]
        [] OTHER -> d

(***************************************************************************)
(* What set and add make of a collection: a map overwrites the value of a  *)
(* key it has, a set leaves everything as it is.                           *)
(***************************************************************************)
Put(kd, d, k, v) ==
  LET i == Find(kd, d, k) IN
  CASE i = 0 -> Push(kd, d, k, v)
    [] i # 0 /\ kd \in Maps -> [d EXCEPT !.entries[i].val = v]
    [] OTHER -> d

Empty == [entries |-> <<>>, index |-> [k \in Keys |-> 0], made |-> 0]

(***************************************************************************)
(* The constructors put one item after the other, except that the          *)
(* constructor of WeakMap does not look whether it has the key.            *)
(***************************************************************************)
Construct ==
  /\ items # <<>>
  /\ LET k == Head(items)[1]
         v == Head(items)[2]
     IN  data' = IF kind = "weakmap" THEN Push(kind, data, k, v)
                                     ELSE Put(kind, data, k, v)
  /\ items' = Tail(items)
  /\ UNCHANGED <<kind, iterators, loops, panicked>>

-----------------------------------------------------------------------------
(* What user code does with it *)

UserTurn == items = <<>> /\ ~panicked

Changes(d) ==
  /\ UserTurn
  /\ IF loops # <<>> THEN panicked' = TRUE /\ UNCHANGED data
                     ELSE data' = d /\ UNCHANGED panicked
  /\ UNCHANGED <<kind, items, iterators, loops>>

SetOrAdd(k, v) ==
  /\ data.made < MaxMade
  /\ Changes(Put(kind, data, k, v))

(***************************************************************************)
(* Faulty: the index stays as it was.                                      *)
(***************************************************************************)
DeleteUnindexed(k) ==
  /\ kind \in Hashed
  /\ LET i == Find(kind, data, k) IN
     Changes(IF i = 0 THEN data
             ELSE [data EXCEPT !.entries = RemoveAt(@, i), !.index[k] = 0])

Delete(k) ==
  /\ kind \in Hashed
  /\ LET i == Find(kind, data, k)
         rest == RemoveAt(data.entries, i)
     IN  Changes(IF i = 0 THEN data
                 ELSE [data EXCEPT !.entries = rest, !.index = RebuildIndex(rest)])

DeleteWeak(k) ==
  /\ kind \notin Hashed
  /\ LET i == Find(kind, data, k) IN
     Changes(IF i = 0 THEN data ELSE [data EXCEPT !.entries = RemoveAt(@, i)])

Clear ==
  /\ kind \in Hashed
  /\ Changes([data EXCEPT !.entries = <<>>, !.index = [k \in Keys |-> 0]])

(***************************************************************************)
(* entries, keys and values make an iterator; next hands out the entry it  *)
(* is at.  Past the last entry it stays where it is, and goes on when the  *)
(* collection has grown.                                                   *)
(***************************************************************************)
MakeIterator(it) ==
  /\ UserTurn /\ kind \in Hashed
  /\ iterators' = [iterators EXCEPT ![it] = [at |-> 0, yielded |-> <<>>]]
  /\ UNCHANGED <<kind, items, data, loops, panicked>>

IterateNext(it) ==
  /\ UserTurn /\ kind \in Hashed
  /\ LET at == iterators[it].at + 1 IN
     /\ at \in DOMAIN data.entries
     /\ iterators' = [iterators EXCEPT ![it] =
          [at |-> at, yielded |-> Append(@.yielded, data.entries[at].id)]]
  /\ UNCHANGED <<kind, items, data, loops, panicked>>

(***************************************************************************)
(* forEach calls its callback for one entry after the other; what the      *)
(* callback does are the actions between two steps of the loop.            *)
(***************************************************************************)
ForEach ==
  /\ UserTurn /\ kind \in Hashed
  /\ Len(loops) < MaxLoops
  /\ loops' = Append(loops, 0)
  /\ UNCHANGED <<kind, items, data, iterators, panicked>>

ForEachNext ==
  /\ UserTurn /\ loops # <<>>
  /\ LET n == Len(loops) IN
     loops' = IF loops[n] < Len(data.entries)
                THEN [loops EXCEPT ![n] = @ + 1] ELSE SubSeq(loops, 1, n - 1)
  /\ UNCHANGED <<kind, items, data, iterators, panicked>>

CallbackThrows ==
  /\ UserTurn /\ loops # <<>> /\ loops[Len(loops)] > 0
  /\ loops' = SubSeq(loops, 1, Len(loops) - 1)
  /\ UNCHANGED <<kind, items, data, iterators, panicked>>

-----------------------------------------------------------------------------
CollectionsInit ==
  /\ kind \in {"map", "set", "weakmap", "weakset"}
  /\ items \in FirstItems
  /\ data = Empty
  /\ iterators = [it \in Iterators |-> [at |-> 0, yielded |-> <<>>]]
  /\ loops = <<>>
  /\ panicked = FALSE

CollectionsNext ==
  \/ Construct
  \/ \E k \in Keys : Delete(k) \/ DeleteWeak(k) \/ \E v \in Vals : SetOrAdd(k, v)
  \/ Clear
  \/ \E it \in Iterators : MakeIterator(it) \/ IterateNext(it)
  \/ ForEach \/ ForEachNext \/ CallbackThrows

CollectionsSpec == CollectionsInit /\ [][CollectionsNext]_collectionVars

-----------------------------------------------------------------------------
(* Properties *)

(***************************************************************************)
(* Every variable has its type.                                            *)
(***************************************************************************)
CollectionsTypeOK ==
  /\ kind \in {"map", "set", "weakmap", "weakset"}
  /\ items \in Seq(Keys \X Vals)
  /\ data \in [entries : Seq(Entry), index : [Keys -> Nat], made : Nat]
  /\ iterators \in [Iterators -> [at : Nat, yielded : Seq(Nat)]]
  /\ loops \in Seq(Nat)
  /\ panicked \in BOOLEAN

(***************************************************************************)
(* The index finds exactly the entries: a key leads to its entry, and a    *)
(* key without one leads nowhere.  So no key has two entries, in a weak    *)
(* set neither.                                                            *)
(***************************************************************************)
IndexExact ==
  /\ kind \in Hashed =>
       /\ \A i \in DOMAIN data.entries : data.index[data.entries[i].key] = i
       /\ \A k \in Keys : LET i == data.index[k] IN
            i # 0 => i \in DOMAIN data.entries /\ data.entries[i].key = k
  /\ kind = "weakset" =>
       \A i, j \in DOMAIN data.entries :
         data.entries[i].key = data.entries[j].key => i = j

(***************************************************************************)
(* An iterator yields no entry twice, whatever is added, deleted and       *)
(* cleared between its steps.  (After a deletion it may skip one.)         *)
(***************************************************************************)
YieldsOnce ==
  \A it \in Iterators : \A m, n \in DOMAIN iterators[it].yielded :
    iterators[it].yielded[m] = iterators[it].yielded[n] => m = n
=============================================================================
