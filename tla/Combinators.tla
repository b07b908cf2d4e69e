----------------------------- MODULE Combinators -----------------------------
(***************************************************************************)
(* Promise.all, allSettled, any and race with their shared countdowns, and *)
(* custom-constructor capabilities (builtins/promise.rs,                   *)
(* interpreter/jobs.rs).                                                   *)
(*                                                                         *)
(* Elements settle in any order, before or after the call, and results of  *)
(* one combinator may be elements of another.  Of the promise core there   *)
(* is only what settling and attaching do; its own rules are in Promises.  *)
(* A value is a sequence of integers: <<p>> is what source promise p is    *)
(* fulfilled with, <<-p>> the reason it is rejected with, and an array is  *)
(* the promise it was made for and then its elements' values.              *)
(***************************************************************************)
EXTENDS Integers, Sequences, FiniteSets, SequencesExt

CONSTANTS
    Sources,     \* how many promises user code settles itself
    MaxCalls,    \* how many combinator calls and custom capabilities it makes
    MaxCaps,     \* how many of them are custom capabilities
    MaxItems,    \* how many elements the first, second, ... of them has
    Kinds        \* the combinators called in this instance

AllKinds == {"all", "allSettled", "any", "race"}

ASSUME CombinatorAssumption ==
    /\ Sources \in Nat /\ MaxCalls \in Nat /\ MaxCaps \in Nat
    /\ MaxItems \in [1 .. MaxCalls -> Nat]
    /\ Kinds \subseteq AllKinds

Promise == 1 .. Sources + MaxCalls
Plain == 0
Source == 1 .. Sources
Raw(a) == Sources + a

State == [st : {"pending", "fulfilled", "rejected"}, val : Seq(Int)]
Pending == [st |-> "pending", val |-> <<>>]
Fulfilled(v) == [st |-> "fulfilled", val |-> v]
Rejected(e) == [st |-> "rejected", val |-> e]

ArrayFor(p, values) == <<p>> \o FlattenSeq(values)

(* A reaction is an element of combinator call `of`, the forwarding of a   *)
(* promise to custom capability `of`, or a handler of user code.           *)
Reaction(k, of, i) == [kind |-> k, of |-> of, index |-> i]
JobOf(r, s) == [r |-> r, s |-> s]

VARIABLES
    state,      \* [Promise -> State]
    reactions,  \* [Promise -> Seq of reactions], of pending promises
    firing,     \* reactions of settled promises still to be enqueued
    queue,      \* jobs: race elements and custom forwards
    aggs,       \* the combinator calls so far
    call,       \* "none", or "attach" while a call attaches its elements
    caps,       \* custom capabilities: their promise and the calls made
    running,    \* the capability whose handler a job is running, or 0
    unhandled,  \* the unhandled-rejection list, of promises
    listened,   \* ghost: promises a reaction was ever attached to
    order       \* ghost: promises in the order they settled

promises == <<state, reactions, unhandled, order>>
core == <<promises, firing>>
vars == <<state, reactions, firing, queue, aggs, call, caps, running,
          unhandled, listened, order>>

(* The inputs of the next call: plain values, and promises made before it. *)
Items == UNION {[1 .. n -> 0 .. Sources + Len(aggs)] :
                    n \in 0 .. MaxItems[Len(aggs) + Len(caps) + 1]}

Init ==
    /\ state = [p \in Promise |-> Pending]
    /\ reactions = [p \in Promise |-> <<>>]
    /\ firing = <<>>
    /\ queue = <<>>
    /\ aggs = <<>>
    /\ call = "none"
    /\ caps = <<>>
    /\ running = 0
    /\ unhandled = {}
    /\ listened = {}
    /\ order = <<>>

-----------------------------------------------------------------------------
(* The promise core *)

IsPending(p) == state[p].st = "pending"

(* fulfill_promise and reject_promise: a settled promise stays as it is,   *)
(* and the cascade goes on with `rest`.                                    *)
Settle(p, s, rest) ==
    IF IsPending(p)
    THEN /\ state' = [state EXCEPT ![p] = s]
         /\ reactions' = [reactions EXCEPT ![p] = <<>>]
         /\ firing' = [i \in DOMAIN reactions[p] |-> JobOf(reactions[p][i], s)] \o rest
         /\ unhandled' = IF s.st = "rejected" /\ reactions[p] = <<>>
                         THEN unhandled \cup {p} ELSE unhandled
         /\ order' = Append(order, p)
    ELSE /\ firing' = rest
         /\ UNCHANGED promises

(* Mutant of Attach: a promise that already settled is not marked. *)
AttachUnmarked(p, r) ==
    /\ listened' = listened \cup {p}
    /\ IF IsPending(p)
       THEN /\ reactions' = [reactions EXCEPT ![p] = Append(@, r)]
            /\ unhandled' = unhandled \ {p}
            /\ UNCHANGED firing
       ELSE firing' = <<JobOf(r, state[p])>> /\ UNCHANGED <<reactions, unhandled>>
    /\ UNCHANGED <<state, order>>

(* attach_reaction on a promise *)
Attach(p, r) ==
    /\ unhandled' = unhandled \ {p}
    /\ listened' = listened \cup {p}
    /\ IF IsPending(p)
       THEN reactions' = [reactions EXCEPT ![p] = Append(@, r)] /\ UNCHANGED firing
       ELSE firing' = <<JobOf(r, state[p])>> /\ UNCHANGED reactions
    /\ UNCHANGED <<state, order>>

-----------------------------------------------------------------------------
(* Promise.all and its kin.  The raw promise of call a is Raw(a); `cap` is *)
(* the custom capability that the call returns instead, or 0.              *)

UserTurn == firing = <<>> /\ call = "none"
MayCall == Len(aggs) + Len(caps) < MaxCalls
MayCap == Len(caps) < MaxCaps

(* Mutant of NewAgg: the countdown starts one too low. *)
NewAggOffByOne(kind, items, cap) ==
    [kind |-> kind, items |-> items, cap |-> cap,
     left |-> IF items = <<>> THEN 0 ELSE Len(items) - 1,
     results |-> [i \in 1 .. Len(items) |-> <<>>], settled |-> FALSE,
     next |-> 1, at |-> Len(order), threw |-> FALSE]

(* The shared state of a call: AllState, AllSettledState, or the holder    *)
(* object of any.  `at` is a ghost: how many promises had settled by then. *)
NewAgg(kind, items, cap) ==
    [kind |-> kind, items |-> items, cap |-> cap, left |-> Len(items),
     results |-> [i \in 1 .. Len(items) |-> <<>>], settled |-> FALSE,
     next |-> 1, at |-> Len(order), threw |-> FALSE]

NewCapOf(p, on) == [of |-> p, on |-> on, calls |-> <<>>]

(* static_capability: the raw promise, and a capability of `this` *)
NewCap(custom) ==
    IF custom
    THEN /\ MayCap /\ Len(aggs) + Len(caps) + 1 < MaxCalls
         /\ caps' = Append(caps, NewCapOf(Raw(Len(aggs) + 1), {}))
    ELSE UNCHANGED caps

(* The input is read first.  An empty one settles the raw promise at once, *)
(* except that of race.                                                    *)
CallCombinator(kind, items, custom) ==
    /\ UserTurn
    /\ MayCall
    /\ NewCap(custom)
    /\ aggs' = Append(aggs, NewAgg(kind, items, IF custom THEN Len(caps) + 1 ELSE 0))
    /\ call' = "attach"
    /\ LET raw == Raw(Len(aggs) + 1)
       IN \/ /\ items = <<>> /\ kind \in {"all", "allSettled"}
             /\ Settle(raw, Fulfilled(ArrayFor(raw, <<>>)), <<>>)
          \/ /\ items = <<>> /\ kind = "any"
             /\ Settle(raw, Rejected(ArrayFor(raw, <<>>)), <<>>)
          \/ /\ items # <<>> \/ kind = "race"
             /\ UNCHANGED core
    /\ UNCHANGED <<queue, running, listened>>

(* The input is no iterable, or reading it throws: static_rejected.        *)
CallFails(kind, custom) ==
    /\ UserTurn
    /\ MayCall
    /\ LET cap == IF custom THEN Len(caps) + 1 ELSE 0
       IN aggs' = Append(aggs, [NewAgg(kind, <<>>, cap) EXCEPT !.threw = TRUE])
    /\ \/ /\ custom
          /\ MayCap /\ Len(aggs) + Len(caps) + 1 < MaxCalls
          /\ caps' = Append(caps, [NewCapOf(0, {}) EXCEPT !.calls = <<Rejected(<<Plain>>)>>])
          /\ UNCHANGED core
       \/ /\ ~custom
          /\ Settle(Raw(Len(aggs) + 1), Rejected(<<Plain>>), <<>>)
          /\ UNCHANGED caps
    /\ UNCHANGED <<queue, call, running, listened>>

Attaching == call = "attach" /\ firing = <<>>

(* One turn of the loop over the elements: a promise is subscribed to, or  *)
(* taken at once when it has settled; any other value counts as fulfilled. *)
AttachNext ==
    /\ Attaching
    /\ LET a == Len(aggs)
           agg == aggs[a]
           item == agg.items[agg.next]
           r == Reaction(agg.kind, a, agg.next)
       IN /\ agg.next <= Len(agg.items)
          /\ aggs' = [aggs EXCEPT ![a].next = @ + 1]
          /\ \/ item # Plain /\ Attach(item, r)
             \/ /\ item = Plain
                /\ firing' = <<JobOf(r, Fulfilled(<<Plain>>))>>
                /\ UNCHANGED <<promises, listened>>
    /\ UNCHANGED <<queue, call, caps, running>>

(* static_finish: the raw promise is forwarded to the custom capability.   *)
FinishCall ==
    /\ Attaching
    /\ LET a == Len(aggs)
           agg == aggs[a]
       IN /\ agg.next > Len(agg.items)
          /\ \/ agg.cap # 0 /\ Attach(Raw(a), Reaction("custom", agg.cap, 0))
             \/ agg.cap = 0 /\ UNCHANGED <<core, listened>>
    /\ call' = "none"
    /\ UNCHANGED <<queue, aggs, caps, running>>

-----------------------------------------------------------------------------
(* enqueue_reaction_job, for the next reaction of the cascade *)

Element == Head(firing).r
Outcome == Head(firing).s
Agg == aggs[Element.of]
Target == Raw(Element.of)
Fires(kind) == firing # <<>> /\ Element.kind = kind

Skip == firing' = Tail(firing) /\ UNCHANGED promises

Store(i, v) == [Agg.results EXCEPT ![i] = v]

(* Mutant of AllElement: results are stored in the order they come in.  *)
AllInArrivalOrder ==
    /\ Fires("all")
    /\ \/ /\ Agg.settled
          /\ Settle(Target, Outcome, Tail(firing))
          /\ UNCHANGED aggs
       \/ /\ ~Agg.settled /\ Outcome.st = "rejected"
          /\ aggs' = [aggs EXCEPT ![Element.of].settled = TRUE]
          /\ Settle(Target, Outcome, Tail(firing))
       \/ /\ ~Agg.settled /\ Outcome.st = "fulfilled"
          /\ LET results == Store(Len(Agg.items) + 1 - Agg.left, Outcome.val)
                 left == Agg.left - 1
             IN /\ aggs' = [aggs EXCEPT ![Element.of].results = results,
                                        ![Element.of].left = left,
                                        ![Element.of].settled = left = 0]
                /\ IF left = 0
                   THEN Settle(Target, Fulfilled(ArrayFor(Target, results)), Tail(firing))
                   ELSE Skip

(* Promise.all: settled guards the countdown after the first rejection. *)
AllElement ==
    /\ Fires("all")
    /\ \/ /\ Agg.settled
          /\ Skip
          /\ UNCHANGED aggs
       \/ /\ ~Agg.settled /\ Outcome.st = "rejected"
          /\ aggs' = [aggs EXCEPT ![Element.of].settled = TRUE]
          /\ Settle(Target, Outcome, Tail(firing))
       \/ /\ ~Agg.settled /\ Outcome.st = "fulfilled"
          /\ LET results == Store(Element.index, Outcome.val)
                 left == Agg.left - 1
             IN /\ aggs' = [aggs EXCEPT ![Element.of].results = results,
                                        ![Element.of].left = left,
                                        ![Element.of].settled = left = 0]
                /\ IF left = 0
                   THEN Settle(Target, Fulfilled(ArrayFor(Target, results)), Tail(firing))
                   ELSE Skip

(* Promise.any: a rejection counts only while the result is pending. *)
AnyElement ==
    /\ Fires("any")
    /\ \/ /\ Outcome.st = "fulfilled"
          /\ Settle(Target, Outcome, Tail(firing))
          /\ UNCHANGED aggs
       \/ /\ Outcome.st = "rejected" /\ ~IsPending(Target)
          /\ Skip
          /\ UNCHANGED aggs
       \/ /\ Outcome.st = "rejected" /\ IsPending(Target)
          /\ LET errors == Store(Element.index, Outcome.val)
                 left == Agg.left - 1
             IN /\ aggs' = [aggs EXCEPT ![Element.of].results = errors,
                                        ![Element.of].left = left]
                /\ IF left = 0
                   THEN Settle(Target, Rejected(ArrayFor(Target, errors)), Tail(firing))
                   ELSE Skip

(* Promise.allSettled: every outcome is recorded. *)
AllSettledElement ==
    /\ Fires("allSettled")
    /\ LET results == Store(Element.index, Outcome.val)
           left == Agg.left - 1
       IN /\ aggs' = [aggs EXCEPT ![Element.of].results = results,
                                  ![Element.of].left = left]
          /\ IF left = 0
             THEN Settle(Target, Fulfilled(ArrayFor(Target, results)), Tail(firing))
             ELSE Skip

(* Mutant of EnqueueJob: the job goes to the front of the queue. *)
EnqueueAtFront ==
    /\ \E kind \in {"race", "custom", "user"} : Fires(kind)
    /\ queue' = IF Element.kind = "user" THEN queue ELSE <<Head(firing)>> \o queue
    /\ Skip
    /\ UNCHANGED aggs

(* Elements of race and custom forwards become jobs.  So does a handler of *)
(* user code, which is of no concern here.                                 *)
EnqueueJob ==
    /\ \E kind \in {"race", "custom", "user"} : Fires(kind)
    /\ queue' = IF Element.kind = "user" THEN queue ELSE Append(queue, Head(firing))
    /\ Skip
    /\ UNCHANGED aggs

FireReaction ==
    /\ \/ (AllElement \/ AnyElement \/ AllSettledElement) /\ UNCHANGED queue
       \/ EnqueueJob
    /\ UNCHANGED <<call, caps, running, listened>>

-----------------------------------------------------------------------------
(* run_job.  User code may act between jobs and while a handler runs.      *)

NextJob(kind) ==
    /\ UserTurn
    /\ running = 0
    /\ queue # <<>>
    /\ Head(queue).r.kind = kind
    /\ queue' = Tail(queue)

(* An element of race passes its settlement on to the raw promise. *)
RunRace ==
    /\ NextJob("race")
    /\ Settle(Raw(Head(queue).r.of), Head(queue).s, <<>>)
    /\ UNCHANGED <<aggs, call, caps, running, listened>>

(* A custom capability's own resolve or reject is called. *)
CallCap(c, s) == caps' = [caps EXCEPT ![c].calls = Append(@, s)]

(* Mutant of RunCustom: the settlement passes through beside the handler. *)
RunCustomTwice ==
    /\ NextJob("custom")
    /\ LET c == Head(queue).r.of
           s == Head(queue).s
       IN /\ running' = IF s.st \in caps[c].on THEN c ELSE 0
          /\ CallCap(c, s)
    /\ UNCHANGED <<core, aggs, call, listened>>

(* Job::Reaction of kind Custom: without a handler for the settlement it   *)
(* passes through; a handler is called first and its outcome is passed on. *)
RunCustom ==
    /\ NextJob("custom")
    /\ LET c == Head(queue).r.of
           s == Head(queue).s
       IN \/ s.st \in caps[c].on /\ running' = c /\ UNCHANGED caps
          \/ s.st \notin caps[c].on /\ CallCap(c, s) /\ UNCHANGED running
    /\ UNCHANGED <<core, aggs, call, listened>>

(* The handler of a species-derived promise returns or throws. *)
HandlerDone(s) ==
    /\ UserTurn
    /\ running # 0
    /\ CallCap(running, s)
    /\ running' = 0
    /\ UNCHANGED <<core, queue, aggs, call, listened>>

-----------------------------------------------------------------------------
(* What user code does *)

SettleSource(p, s) ==
    /\ UserTurn
    /\ IsPending(p)
    /\ Settle(p, s, <<>>)
    /\ UNCHANGED <<queue, aggs, call, caps, running, listened>>

(* The promises user code can name: not the raw one of a custom capability *)
Named(p) == p \in Source \/ \E a \in DOMAIN aggs : p = Raw(a) /\ aggs[a].cap = 0

(* An ordinary handler, on the result of a combinator *)
Listen(p) ==
    /\ UserTurn
    /\ p \notin listened \cup Source
    /\ Named(p)
    /\ Attach(p, Reaction("user", 0, 0))
    /\ UNCHANGED <<queue, aggs, call, caps, running>>

(* promise_then and promise_catch with a species constructor; `on` says    *)
(* for which settlements there is a handler.                               *)
ThenCustom(p, on) ==
    /\ UserTurn
    /\ Named(p)
    /\ MayCap /\ MayCall
    /\ caps' = Append(caps, NewCapOf(p, on))
    /\ Attach(p, Reaction("custom", Len(caps) + 1, 0))
    /\ UNCHANGED <<queue, aggs, call, running>>

Next ==
    \/ \E kind \in Kinds, custom \in BOOLEAN :
          \/ MayCall /\ \E items \in Items :
                /\ \A i \in DOMAIN items : items[i] # Plain => Named(items[i])
                /\ CallCombinator(kind, items, custom)
          \/ CallFails(kind, custom)
    \/ AttachNext \/ FinishCall \/ FireReaction
    \/ RunRace \/ RunCustom
    \/ HandlerDone(Fulfilled(<<Plain>>)) \/ HandlerDone(Rejected(<<Plain>>))
    \/ \E p \in Source : \E s \in {Fulfilled(<<p>>), Rejected(<<-p>>)} : SettleSource(p, s)
    \/ \E p \in Promise :
          \/ Listen(p)
          \/ \E on \in SUBSET {"fulfilled", "rejected"} : ThenCustom(p, on)

Spec == Init /\ [][Next]_vars

-----------------------------------------------------------------------------
(* Properties *)

(* The countdowns of all, allSettled and any stay between zero and the     *)
(* length of the input, and no promise settles twice: a countdown that     *)
(* runs early or late would settle the result early or never.              *)
TypeOK ==
    /\ state \in [Promise -> State]
    /\ \A a \in DOMAIN aggs :
          /\ aggs[a].left \in 0 .. Len(aggs[a].items)
          /\ aggs[a].next \in 1 .. Len(aggs[a].items) + 1
    /\ call \in {"none", "attach"}
    /\ running \in 0 .. Len(caps)
    /\ unhandled \cup listened \subseteq Promise
    /\ IsInjective(order)

(* The state of an element: a value that is no promise counts as fulfilled *)
ItemState(a, i) ==
    LET item == aggs[a].items[i]
    IN IF item = Plain THEN Fulfilled(<<Plain>>) ELSE state[item]

Outcomes(a, st) == {ItemState(a, i) : i \in {j \in DOMAIN aggs[a].items : ItemState(a, j).st = st}}
InInputOrder(a) == ArrayFor(Raw(a), [i \in DOMAIN aggs[a].items |-> ItemState(a, i).val])
Waiting(a) == \E i \in DOMAIN queue : queue[i].r.kind = "race" /\ queue[i].r.of = a

(* Call a has attached all its elements and no cascade is under way. *)
Complete(a) == firing = <<>> /\ (call = "none" \/ a < Len(aggs)) /\ ~aggs[a].threw

(* What the elements of call a allow its result to be now *)
Allowed(a) ==
    LET kind == aggs[a].kind
        all == InInputOrder(a)
        fulfilled == Outcomes(a, "fulfilled")
        rejected == Outcomes(a, "rejected")
        pending == Outcomes(a, "pending")
    IN CASE kind = "all" -> IF rejected # {} THEN rejected
                            ELSE {IF pending # {} THEN Pending ELSE Fulfilled(all)}
         [] kind = "any" -> IF fulfilled # {} THEN fulfilled
                            ELSE {IF pending # {} THEN Pending ELSE Rejected(all)}
         [] kind = "allSettled" -> {IF pending # {} THEN Pending ELSE Fulfilled(all)}
         [] kind = "race" -> IF fulfilled \cup rejected = {} THEN {Pending}
                             ELSE fulfilled \cup rejected \cup
                                  (IF Waiting(a) THEN {Pending} ELSE {})

(* The result of a combinator is at every moment what its elements say,    *)
(* however many of them had settled before the call and in whatever order  *)
(* the others do: settled as soon as it can be and no sooner, with every   *)
(* element counted once and its value at the element's index.              *)
AggregateSound == \A a \in DOMAIN aggs : Complete(a) => state[Raw(a)] \in Allowed(a)

(* When an element became available to the call: those settled before the  *)
(* call by their index, the others in the order they settled.              *)
SettledAt(a, i) ==
    LET item == aggs[a].items[i]
        when == IF item = Plain THEN 0 ELSE CHOOSE n \in DOMAIN order : order[n] = item
    IN IF when <= aggs[a].at THEN i ELSE Len(aggs[a].items) + when

Deciding(a) ==
    {i \in DOMAIN aggs[a].items :
        ItemState(a, i).st \in CASE aggs[a].kind = "all" -> {"rejected"}
                                  [] aggs[a].kind = "any" -> {"fulfilled"}
                                  [] aggs[a].kind = "race" -> {"fulfilled", "rejected"}
                                  [] OTHER -> {}}

FirstDecides(a) ==
    Complete(a) /\ state[Raw(a)] # Pending /\ Deciding(a) # {} =>
        LET first == CHOOSE i \in Deciding(a) :
                        \A j \in Deciding(a) : SettledAt(a, i) <= SettledAt(a, j)
        IN state[Raw(a)] = ItemState(a, first)

(* Of several elements that could decide an all, any or race, the one that *)
(* settled first does, when the elements are promises user code settles.   *)
(* An element that is itself a result settles in the middle of the cascade *)
(* of the promise that settled it, and may overtake that promise.          *)
FirstSourceWins ==
    \A a \in DOMAIN aggs :
        (\A i \in DOMAIN aggs[a].items : aggs[a].items[i] \in Source \cup {Plain})
            => FirstDecides(a)

(* A rejected promise is in the unhandled list exactly when nothing was    *)
(* ever attached to it: combinators listen to every element, also to those *)
(* that settle after the result, and a forwarded raw promise is listened to*)
UnhandledExact ==
    \A p \in Promise :
        p \in unhandled <=> state[p].st = "rejected" /\ p \notin listened

(* A custom capability hears once, through one of its two functions, from  *)
(* the promise it follows or from the handler in between, and hears it when*)
(* the jobs have run.                                                      *)
CustomOnce ==
    \A c \in DOMAIN caps :
        LET s == IF caps[c].of = 0 THEN Rejected(<<Plain>>) ELSE state[caps[c].of]
            calls == caps[c].calls
        IN /\ Len(calls) <= 1
           /\ calls # <<>> => s # Pending /\ (s.st \notin caps[c].on => calls[1] = s)
           /\ s # Pending /\ firing = <<>> /\ queue = <<>> /\ running = 0 /\ call = "none"
                 => calls # <<>>
===============================================================================
