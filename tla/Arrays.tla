------------------------------- MODULE Arrays -------------------------------
(***************************************************************************)
(* An array (ArrayData in value.rs) and the methods of builtins/array.rs:  *)
(* a dense vector of elements, a map of sparse ones beyond it, and a       *)
(* logical length.  A method with a callback works on a copy of the        *)
(* elements; what the callback does to the array meanwhile are the other   *)
(* actions.  sort writes its sorted copy over whatever is there when it is *)
(* done.                                                                   *)
(***************************************************************************)
EXTENDS Integers, SequencesExt

CONSTANTS
  Elements,     \* the values stored, Undefined among them
  Undefined,
  Ranks,        \* the orders by which an honest comparator, or the default
                \* one, may sort the values other than Undefined
  SPARSE_GAP,   \* how far past its end a vector grows at once (1024)
  DENSE_LIMIT,  \* the largest length given to a vector (2^20)
  MaxLength,    \* bound on lengths and indices
  MaxCalls,     \* bound on methods inside one another's callbacks
  MaxChanges    \* bound on the changes callbacks of one method make

Defined == Elements \ {Undefined}

ASSUME ArraysAssumption ==
  /\ Undefined \in Elements
  /\ Ranks \subseteq [Defined -> Nat]
  /\ SPARSE_GAP \in Nat /\ DENSE_LIMIT \in Nat
  /\ MaxLength \in Nat /\ MaxCalls \in Nat /\ MaxChanges \in Nat

VARIABLES
  rank,      \* the order this program sorts by
  elems,     \* the dense vector
  length,    \* ArrayData::length
  sparse,    \* the sparse values, a function from their indices
  calls,     \* methods that wait for a callback, innermost last
  finished   \* ghost: the method that returned in the last step

arrayVars == <<rank, elems, length, sparse, calls, finished>>

NoCall == [k |-> "none"]

Top == calls[Len(calls)]
Running(k) == calls # <<>> /\ Top.k = k
Return == calls' = Front(calls)
GoesOn(c) == calls' = [calls EXCEPT ![Len(calls)] = c]

(***************************************************************************)
(* User code, perhaps a callback, has changed the array.                   *)
(***************************************************************************)
Changed ==
  /\ calls # <<>> => Top.changes < MaxChanges
  /\ IF calls = <<>> THEN UNCHANGED calls ELSE GoesOn([Top EXCEPT !.changes = @ + 1])
  /\ finished' = NoCall

(***************************************************************************)
(* logical_len and get_index.                                              *)
(***************************************************************************)
LogicalLen ==
  IF DOMAIN sparse = {} /\ length <= DENSE_LIMIT THEN Len(elems)
  ELSE IF length > Len(elems) THEN length ELSE Len(elems)

Readable == (0..(Len(elems) - 1)) \cup DOMAIN sparse

-----------------------------------------------------------------------------
(* Indices and length *)

Undefineds(n) == [i \in 1..n |-> Undefined]
Larger(m, n) == IF m > n THEN m ELSE n
Smaller(m, n) == IF m < n THEN m ELSE n
Below(f, n) == [i \in {j \in DOMAIN f : j < n} |-> f[i]]
With(f, i, v) == [j \in DOMAIN f \cup {i} |-> IF j = i THEN v ELSE f[j]]

SetIndex(i, v) ==
  /\ length' = Larger(length, i + 1)
  /\ IF i > Len(elems) + SPARSE_GAP
       THEN sparse' = With(sparse, i, v) /\ UNCHANGED elems
       ELSE /\ LET grown == elems \o Undefineds(i + 1 - Len(elems))
               IN  elems' = [grown EXCEPT ![i + 1] = v]
            /\ UNCHANGED sparse
  /\ UNCHANGED rank /\ Changed

Resized(n) ==
  CASE n <= Len(elems) -> SubSeq(elems, 1, n)
    [] n > Len(elems) /\ n <= DENSE_LIMIT -> elems \o Undefineds(n - Len(elems))
    [] OTHER -> elems

(***************************************************************************)
(* Faulty: sparse values past the new end stay.                            *)
(***************************************************************************)
SetLengthKeeping(n) ==
  /\ length' = n
  /\ elems' = Resized(n)
  /\ UNCHANGED <<rank, sparse>> /\ Changed

SetLength(n) ==
  /\ length' = n
  /\ elems' = Resized(n)
  /\ sparse' = Below(sparse, n)
  /\ UNCHANGED rank /\ Changed

DeleteIndex(i) ==
  /\ sparse' = [j \in DOMAIN sparse \ {i} |-> sparse[j]]
  /\ elems' = IF i < Len(elems) THEN [elems EXCEPT ![i + 1] = Undefined] ELSE elems
  /\ UNCHANGED <<rank, length>> /\ Changed

-----------------------------------------------------------------------------
(* Methods without callbacks: they know the dense vector only. *)

Becomes(s) ==
  /\ Changed
  /\ Len(s) <= MaxLength
  /\ elems' = s
  /\ UNCHANGED <<rank, length, sparse>>

ArrPush(v) == Becomes(Append(elems, v))
Pop == elems # <<>> /\ Becomes(Front(elems))
Shift == elems # <<>> /\ Becomes(Tail(elems))
Unshift(v) == Becomes(<<v>> \o elems)
ArrReverse == Becomes(Reverse(elems))

(***************************************************************************)
(* An index counted from the end when negative, kept within the array.     *)
(***************************************************************************)
Clamped(i) == LET n == Len(elems) IN
  IF i < 0 THEN Larger(n + i, 0) ELSE Smaller(i, n)

Splice(start, delete, items) ==
  LET s == Clamped(start) IN
  Becomes(SubSeq(elems, 1, s) \o items
          \o SubSeq(elems, Smaller(s + delete, Len(elems)) + 1, Len(elems)))

Fill(v, start, end) ==
  Becomes([i \in DOMAIN elems |-> IF start < i /\ i <= end THEN v ELSE elems[i]])

-----------------------------------------------------------------------------
(* Methods with callbacks *)

(***************************************************************************)
(* The values of s other than Undefined, in their order: what sort sorts,  *)
(* one value after the other.                                              *)
(***************************************************************************)
DefinedOf(s) ==
  LET kept[n \in 0..Len(s)] ==
        IF n = 0 THEN <<>>
        ELSE IF s[n] = Undefined THEN kept[n - 1] ELSE Append(kept[n - 1], s[n])
  IN  kept[Len(s)]

(***************************************************************************)
(* forEach, map, filter, some, every, find, findIndex and reduce go        *)
(* through a copy and differ in when they stop and in what they make of an *)
(* element; filter, which may keep it or not, stands for all of them.      *)
(***************************************************************************)
Visit ==
  /\ Len(calls) < MaxCalls
  /\ calls' = Append(calls, [k |-> "visit", from |-> elems, at |-> 0, out |-> <<>>, changes |-> 0])
  /\ finished' = NoCall
  /\ UNCHANGED <<rank, elems, length, sparse>>

(***************************************************************************)
(* sort puts undefined aside and sorts the rest by insertion: the element  *)
(* at j moves down while the comparator finds the one below it larger.     *)
(***************************************************************************)
Sort(honest) ==
  /\ Len(calls) < MaxCalls
  /\ calls' = Append(calls,
       [k |-> "sort", from |-> elems, out |-> DefinedOf(elems),
        i |-> 1, j |-> 1, honest |-> honest, changes |-> 0])
  /\ finished' = NoCall
  /\ UNCHANGED <<rank, elems, length, sparse>>

(***************************************************************************)
(* The callback returns keep.                                              *)
(***************************************************************************)
VisitNext(keep) ==
  /\ Running("visit") /\ Top.at < Len(Top.from)
  /\ LET v == Top.from[Top.at + 1]
         made == IF keep THEN Append(Top.out, v) ELSE Top.out
     IN  GoesOn([Top EXCEPT !.at = @ + 1, !.out = made])
  /\ finished' = NoCall
  /\ UNCHANGED <<rank, elems, length, sparse>>

VisitDone ==
  /\ Running("visit") /\ Top.at = Len(Top.from)
  /\ Return
  /\ finished' = Top
  /\ UNCHANGED <<rank, elems, length, sparse>>

(***************************************************************************)
(* Faulty: equal elements change places.                                   *)
(***************************************************************************)
LargerUnstable(c, answer) ==
  IF c.honest THEN rank[c.out[c.j]] >= rank[c.out[c.j + 1]] ELSE answer

(***************************************************************************)
(* Whether the comparator finds the element below j larger: an honest one  *)
(* compares ranks, another one answers as it likes.                        *)
(***************************************************************************)
FindsLarger(c, answer) ==
  IF c.honest THEN rank[c.out[c.j]] > rank[c.out[c.j + 1]] ELSE answer

Sorting(c) == c.i < Len(c.out)

(***************************************************************************)
(* Indices as in the code: the elements j - 1 and j of the vector are the  *)
(* members j and j + 1 of the sequence.                                    *)
(***************************************************************************)
Compare(answer) ==
  /\ Running("sort") /\ Sorting(Top)
  /\ LET c == Top
         up == [c EXCEPT !.i = @ + 1, !.j = c.i + 1]
         swapped == [c EXCEPT !.out = [@ EXCEPT ![c.j] = c.out[c.j + 1],
                                                ![c.j + 1] = c.out[c.j]]]
     IN  GoesOn(CASE ~FindsLarger(c, answer) -> up
                  [] FindsLarger(c, answer) /\ c.j = 1 ->
                       [up EXCEPT !.out = swapped.out]
                  [] OTHER -> [swapped EXCEPT !.j = @ - 1])
  /\ finished' = NoCall
  /\ UNCHANGED <<rank, elems, length, sparse>>

Padded(s, n) == s \o Undefineds(n - Len(s))

SortDone ==
  /\ Running("sort") /\ ~Sorting(Top)
  /\ LET made == Padded(Top.out, Len(Top.from)) IN
     /\ elems' = made
     /\ finished' = Top
  /\ Return
  /\ UNCHANGED <<rank, length, sparse>>

(***************************************************************************)
(* t is s with its members moved, undefined last; and, if the order is     *)
(* honest, sorted by rank, members of one rank as they were.               *)
(***************************************************************************)
InOrder(t) ==
  \A m, n \in DOMAIN t : m < n /\ t[n] # Undefined => rank[t[m]] <= rank[t[n]]

Stable(f, t) ==
  \A m, n \in DOMAIN t :
    m < n /\ t[m] # Undefined /\ t[n] # Undefined /\ rank[t[m]] = rank[t[n]]
      => f[m] < f[n]

SortOf(t, s, honest) ==
  /\ \A m, n \in DOMAIN t : m < n /\ t[m] = Undefined => t[n] = Undefined
  /\ honest => InOrder(t)
  /\ \E f \in Bijection(DOMAIN t, DOMAIN s) :
       /\ \A n \in DOMAIN t : t[n] = s[f[n]]
       /\ honest => Stable(f, t)

(***************************************************************************)
(* Without a comparator the vector is sorted at once, by Rust's stable     *)
(* sort_by, which is taken at its word.                                    *)
(***************************************************************************)
SortDefault ==
  LET places == Bijection(DOMAIN elems, DOMAIN elems)
  IN  \E s \in {[n \in DOMAIN elems |-> elems[f[n]]] : f \in places} :
        Becomes(s) /\ SortOf(s, elems, TRUE)

(***************************************************************************)
(* The callback throws, or find, some or every need no more of them.       *)
(***************************************************************************)
CallEnds ==
  /\ calls # <<>>
  /\ IF Top.k = "sort" THEN Sorting(Top) ELSE Top.at < Len(Top.from)
  /\ Return
  /\ finished' = NoCall
  /\ UNCHANGED <<rank, elems, length, sparse>>

-----------------------------------------------------------------------------
ArraysInit ==
  /\ rank \in Ranks
  /\ \E n \in 0..MaxLength : elems = Undefineds(n) /\ length = n
  /\ sparse = <<>>
  /\ calls = <<>> /\ finished = NoCall

ArraysNext ==
  \/ \E i \in 0..(MaxLength - 1) : DeleteIndex(i) \/ \E v \in Elements : SetIndex(i, v)
  \/ \E n \in 0..MaxLength : SetLength(n)
  \/ \E v \in Elements : ArrPush(v) \/ Unshift(v)
  \/ Pop \/ Shift \/ ArrReverse
  \/ \E s \in (-1)..MaxLength, d \in 0..1, items \in {<<>>} \cup {<<v>> : v \in Defined} :
       Splice(s, d, items)
  \/ \E v \in Elements, s \in 0..(MaxLength - 1) : Fill(v, s, s + 1)
  \/ \E b \in BOOLEAN : Sort(b) \/ VisitNext(b) \/ Compare(b)
  \/ Visit \/ VisitDone \/ SortDone \/ SortDefault \/ CallEnds

ArraysSpec == ArraysInit /\ [][ArraysNext]_arrayVars

-----------------------------------------------------------------------------
(* Properties *)

(***************************************************************************)
(* Whatever the length says, every index that has a value is below it, so  *)
(* that the code that enumerates the array comes past every value.         *)
(***************************************************************************)
ReadableBelowLength == \A i \in Readable : i < LogicalLen

Subsequence(s, t) ==
  \E f \in [DOMAIN s -> DOMAIN t] :
    /\ \A m, n \in DOMAIN s : m < n => f[m] < f[n]
    /\ \A n \in DOMAIN s : s[n] = t[f[n]]

(***************************************************************************)
(* What get_index reads, and that undefined is at the end of the array.    *)
(***************************************************************************)
GetIndex(i) ==
  CASE i < Len(elems) -> elems[i + 1]
    [] i >= Len(elems) /\ i \in DOMAIN sparse -> sparse[i]
    [] OTHER -> Undefined

UndefinedLast ==
  \A i, j \in 0..(LogicalLen - 1) :
    i < j /\ GetIndex(i) = Undefined => GetIndex(j) = Undefined

(***************************************************************************)
(* A sort leaves the dense vector with the values it had at the call,      *)
(* undefined last, whatever the comparator answers and does to the array;  *)
(* with an honest comparator they are in order, equal ones as they were.   *)
(* Undefined is last in the whole array only if no value is sparse: sort   *)
(* passes those over, and they stay behind what it puts at the end of the  *)
(* vector.  A filter gives back values of the vector it was called on, in  *)
(* their order.                                                            *)
(***************************************************************************)
ResultsSound ==
  /\ finished.k = "sort" => SortOf(elems, finished.from, finished.honest)
  /\ finished.k = "sort" /\ DOMAIN sparse = {} => UndefinedLast
  /\ finished.k = "visit" => Subsequence(finished.out, finished.from)
=============================================================================
