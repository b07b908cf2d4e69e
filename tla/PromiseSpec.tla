----------------------------- MODULE PromiseSpec -----------------------------
(***************************************************************************)
(* What the engine promises about promises, without reactions, jobs,       *)
(* resolver functions, flags and call stack: every promise has a fate, and *)
(* these are the only ways from one fate to the next.  A promise settles   *)
(* once; while it waits for another one, nothing but that one's settlement *)
(* decides what becomes of it.                                             *)
(***************************************************************************)
CONSTANTS
    Promise, Plain, Thenable, BadThen, TypeErr   \* as in Promises

Value == Promise \cup {Plain, Thenable, BadThen, TypeErr}

VARIABLES
    fate,     \* what is to become of each promise
    running   \* the promises whose executor or thenable's `then` has not returned

fateVars == <<fate, running>>

-----------------------------------------------------------------------------
(* Fates *)

Unmade == [st |-> "unmade"]
Open == [st |-> "open"]                          \* in the hands of user code
Assimilates == [st |-> "assimilates"]            \* a thenable's `then` is to be called
Finishes(s) == [st |-> "finishes", orig |-> s]   \* its finally callback runs, after s
Fulfilled(v) == [st |-> "fulfilled", val |-> v]
Rejected(e) == [st |-> "rejected", val |-> e]

(* Waits for q: to take its settlement (forward), to call its handlers     *)
(* with it (then), to call its finally callback (finallyCall), to settle   *)
(* as s after that one's result (finallyPropagate), to go on (async).      *)
Waits(how, q, f, r, s) == [st |-> "waits", how |-> how, on |-> q,
                           onF |-> f, onR |-> r, orig |-> s]
Pending == [st |-> "pending", val |-> Plain]
WaitsFor(how, q) == Waits(how, q, FALSE, FALSE, Pending)

IsSettled(q) == fate[q].st \in {"fulfilled", "rejected"}
IsMade(q) == fate[q] # Unmade

(* What becomes of p when it is resolved with v. *)
Resolution(p, v) ==
    CASE v = p -> Rejected(TypeErr)
      [] v \in Promise \ {p} -> IF IsSettled(v) THEN fate[v] ELSE WaitsFor("forward", v)
      [] v = Thenable -> Assimilates
      [] v = BadThen -> Rejected(Plain)
      [] v \in {Plain, TypeErr} -> Fulfilled(v)

Becomes(p, f) == fate' = [fate EXCEPT ![p] = f] /\ UNCHANGED running

-----------------------------------------------------------------------------
(* What user code does *)

Make(p) ==
    /\ fate[p] = Unmade
    /\ fate' = [fate EXCEPT ![p] = Open]
    /\ running' \in {running, running \cup {p}}

Derive(p, q) ==
    /\ fate[p] = Unmade /\ IsMade(q)
    /\ \E how \in {"then", "finallyCall"}, f, r \in BOOLEAN :
          Becomes(p, Waits(how, q, f, r, Pending))

Resolve(p, v) ==
    /\ fate[p] \in {Unmade, Open}
    /\ v \in Promise => IsMade(v)
    /\ Becomes(p, Resolution(p, v))

Reject(p, e) ==
    /\ fate[p].st \in {"unmade", "open", "finishes"}
    /\ Becomes(p, Rejected(e))

Await(p, q) ==
    /\ fate[p] = Open /\ IsMade(q)
    /\ Becomes(p, WaitsFor("async", q))

(* A new promise m takes v, and p waits for it. *)
Through(p, m, v, wait) ==
    /\ v \in Promise => IsMade(v)
    /\ fate' = [fate EXCEPT ![m] = Resolution(m, v), ![p] = wait]
    /\ UNCHANGED running

AwaitValue(p, m) ==
    /\ fate[p] = Open /\ fate[m] = Unmade
    /\ \E v \in Value \ Promise : Through(p, m, v, WaitsFor("async", m))

ReturnFinally(p, m) ==
    /\ fate[p].st = "finishes" /\ fate[m] = Unmade
    /\ \E v \in Value :
          Through(p, m, v, Waits("finallyPropagate", m, FALSE, FALSE, fate[p].orig))

(* An executor or a `then` method returns, or throws: the throw rejects    *)
(* the promise whatever it has been resolved with.                         *)
Return(p) == running' = running \ {p} /\ UNCHANGED fate

Override(p, e) ==
    /\ p \in running /\ IsMade(p) /\ ~IsSettled(p)
    /\ fate' = [fate EXCEPT ![p] = Rejected(e)]
    /\ running' \in {running, running \ {p}}

-----------------------------------------------------------------------------
(* What the engine does *)

Source(p) == fate[fate[p].on]
Due(p, how) == fate[p].st = "waits" /\ fate[p].how = how /\ IsSettled(fate[p].on)
Handles(p) == IF Source(p).st = "fulfilled" THEN fate[p].onF ELSE fate[p].onR

Follow(p) == Due(p, "forward") /\ Becomes(p, Source(p))

CallHandler(p) == Due(p, "then") /\ Handles(p) /\ Becomes(p, Open)
PassOn(p) == Due(p, "then") /\ ~Handles(p) /\ Becomes(p, Source(p))

CallFinally(p) == Due(p, "finallyCall") /\ Becomes(p, Finishes(Source(p)))
Propagate(p) ==
    /\ Due(p, "finallyPropagate")
    /\ Becomes(p, IF Source(p).st = "rejected" THEN Source(p) ELSE fate[p].orig)

Resume(p) == Due(p, "async") /\ Becomes(p, Open)

(* The `then` of a thenable may come to be called after its promise was    *)
(* rejected by a throw.                                                    *)
CallThen(p) ==
    /\ \/ fate[p] = Assimilates /\ fate' = [fate EXCEPT ![p] = Open]
       \/ IsSettled(p) /\ UNCHANGED fate
    /\ running' = running \cup {p}

(* A promise that follows another settles with it, before anything else    *)
(* happens.                                                                *)
Prompt == \A p \in Promise : ~Due(p, "forward")

User(p) ==
    \/ Return(p) \/ Make(p)
    \/ \E q \in Promise : Await(p, q) \/ Derive(p, q)
    \/ \E v \in Value : Resolve(p, v) \/ Reject(p, v) \/ Override(p, v)
    \/ \E m \in Promise \ {p} : AwaitValue(p, m) \/ ReturnFinally(p, m)

Engine(p) ==
    CallHandler(p) \/ PassOn(p) \/ CallFinally(p) \/ Propagate(p) \/ Resume(p) \/ CallThen(p)

Init == fate = [p \in Promise |-> Unmade] /\ running = {}

Next ==
    \/ Prompt /\ \E p \in Promise : User(p) \/ Engine(p)
    \/ \E p \in Promise : Follow(p)

Spec == Init /\ [][Next]_fateVars
==============================================================================
