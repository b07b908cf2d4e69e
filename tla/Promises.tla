------------------------------- MODULE Promises -------------------------------
(***************************************************************************)
(* The promise machine of the engine: promise states, the reactions        *)
(* attached to them, the FIFO job queue, resolver pairs with their shared  *)
(* [[AlreadyResolved]] flag, and the list of unhandled rejections          *)
(* (interpreter/jobs.rs, builtins/promise.rs, and the async half of        *)
(* interpreter/exec.rs).                                                   *)
(*                                                                         *)
(* The engine is single threaded: its concurrency is between user code,    *)
(* which may call any operation at any moment it runs, and the jobs.  The  *)
(* Rust call stack is `frames`; the recursion                              *)
(* settle -> enqueue_reaction_job -> resolve_value -> settle is `firing`,  *)
(* and nothing else moves while it unwinds.                                *)
(***************************************************************************)
EXTENDS Naturals, Sequences, FiniteSets, Functions

CONSTANTS
    MaxPromises,   \* how many promises are ever allocated
    MaxPairs,      \* how many resolver pairs are ever made
    MaxQueue,      \* how many jobs user code lets pile up
    MaxDepth,      \* how deep user code nests calls
    JobLimit,      \* how many jobs one drain_jobs runs (10,000,000)
    Api,           \* the operations user code calls in this instance
    Inputs,        \* the non-promise values user code passes
    Reasons,       \* the values user code throws and rejects with
    Plain,         \* a value without a callable `then`
    Thenable,      \* an object whose `then` is callable
    BadThen,       \* an object whose `then` getter throws
    TypeErr,       \* the TypeError the engine makes itself
    Thrown         \* a value thrown out of a microtask, in the unhandled list

ApiCalls == {"new", "withResolvers", "then", "finally", "resolve", "reject",
             "static", "microtask", "async", "eval"}

ASSUME BoundsAssumption ==
    /\ MaxPromises \in Nat \ {0}
    /\ MaxPairs \in Nat /\ MaxQueue \in Nat /\ MaxDepth \in Nat
    /\ JobLimit \in Nat

Promise == 1 .. MaxPromises

ASSUME ValuesAssumption ==
    /\ Plain \notin Promise /\ Thenable \notin Promise /\ Thrown \notin Promise
    /\ BadThen \notin Promise /\ TypeErr \notin Promise
    /\ Cardinality({Plain, Thenable, BadThen, TypeErr}) = 4
    /\ Inputs \cup Reasons \subseteq {Plain, Thenable, BadThen}
    /\ Api \subseteq ApiCalls

Value == Promise \cup {Plain, Thenable, BadThen, TypeErr}

(* PromiseState: pending, or settled with a value or a reason. *)
State == [st : {"pending", "fulfilled", "rejected"}, val : Value]
Pending == [st |-> "pending", val |-> Plain]
Fulfilled(v) == [st |-> "fulfilled", val |-> v]
Rejected(e) == [st |-> "rejected", val |-> e]

(* PromiseReaction.  `promise` is the capability it settles (0: none), onF *)
(* and onR say whether a handler is there, `orig` is the settlement a      *)
(* finally passes on.  `on` is the promise it hangs on: a ghost, used only *)
(* to state the order of handlers.                                         *)
ReactionKind == {"then", "forward", "async", "finallyCall", "finallyPropagate",
                 "thenable", "microtask"}
Reaction == [kind : ReactionKind, promise : 0 .. MaxPromises, onF : BOOLEAN,
             onR : BOOLEAN, orig : State, on : 0 .. MaxPromises]

Bare(k, p, q) == [kind |-> k, promise |-> p, onF |-> FALSE, onR |-> FALSE,
                  orig |-> Pending, on |-> q]

(* A job of the queue: a reaction with the settlement that triggered it.   *)
(* Job::Thenable and Job::Microtask carry no settlement.                   *)
Job == [r : Reaction, s : State]
JobOf(r, s) == [r |-> r, s |-> s]
ThenableJob(p) == JobOf(Bare("thenable", p, 0), Pending)
MicrotaskJob == JobOf(Bare("microtask", 0, 0), Pending)

(* One frame of the Rust stack: a program, the drain_jobs loop, or user    *)
(* code the engine called and whose completion settles `cap`.              *)
FrameKind == {"eval", "drain", "executor", "handler", "finally", "thenable",
              "microtask", "async", "resume"}
Frame == [k : FrameKind, cap : 0 .. MaxPromises, orig : State]
FrameOf(k, p, s) == [k |-> k, cap |-> p, orig |-> s]

VARIABLES
    state,      \* [Promise -> State]; pending until allocated
    reactions,  \* [Promise -> Seq(Reaction)], of pending promises
    queue,      \* job_queue
    firing,     \* reactions of a settled promise still to be enqueued
    pairs,      \* resolver pairs: their capability and shared flag
    frames,     \* the Rust call stack, innermost frame last
    unhandled,  \* the unhandled-rejection list, as a set
    alloc,      \* promises 1..alloc exist
    internal,   \* promises the engine never hands to user code
    listener,   \* ghost: who listens to a promise
    reported,   \* ghost: what take_unhandled gave to the host
    steps,      \* the jobs each running drain_jobs has run, innermost last
    lost        \* ghost: the reactions a drain popped past its limit

core == <<state, reactions, queue, firing, unhandled, listener>>
loop == <<steps, lost>>
vars == <<state, reactions, queue, firing, pairs, frames, unhandled, alloc,
          internal, listener, reported, steps, lost>>

TypeOK ==
    /\ state \in [Promise -> State]
    /\ reactions \in [Promise -> Seq(Reaction)]
    /\ queue \in Seq(Job)
    /\ firing \in Seq(Job)
    /\ pairs \in Seq([cap : Promise, used : BOOLEAN])
    /\ frames \in Seq(Frame)
    /\ unhandled \subseteq Promise \cup {Thrown}
    /\ alloc \in 0 .. MaxPromises
    /\ internal \subseteq Promise
    /\ listener \in [Promise -> {"none", "late", "attached"}]
    /\ reported \subseteq Promise \cup {Thrown}
    /\ steps \in Seq(Nat)
    /\ lost \in Seq(Job)

Init ==
    /\ state = [p \in Promise |-> Pending]
    /\ reactions = [p \in Promise |-> <<>>]
    /\ queue = <<>>
    /\ firing = <<>>
    /\ pairs = <<>>
    /\ frames = <<>>
    /\ unhandled = {}
    /\ alloc = 0
    /\ internal = {}
    /\ listener = [p \in Promise |-> "none"]
    /\ reported = {}
    /\ steps = <<>>
    /\ lost = <<>>

-----------------------------------------------------------------------------
(* The engine's internal operations, as parts of the steps below.  `rest`  *)
(* is what the cascade still has to do afterwards and `q` the queue the    *)
(* operation finds.                                                        *)

IsPending(p) == state[p].st = "pending"

(* Mutant of Listen: the reaction is pushed without mark_handled. *)
ListenUnmarked(p) ==
    /\ listener' = [listener EXCEPT ![p] = "attached"]
    /\ UNCHANGED unhandled

(* mark_handled when a reaction is pushed, and the ghost that remembers it *)
Listen(p) ==
    /\ listener' = [listener EXCEPT ![p] = "attached"]
    /\ unhandled' = unhandled \ {p}

(* The listeners of a settled promise p that mark_handled is not told of   *)
ListenLate(p) == [listener EXCEPT ![p] = IF @ = "none" THEN "late" ELSE @]

(* Mutants of Settle: the reactions are read but not taken out of the      *)
(* promise; a rejection is not listed.                                     *)
SettleKeepsReactions(p, s, rest) ==
    \/ /\ ~IsPending(p)
       /\ firing' = rest
       /\ UNCHANGED <<state, reactions, unhandled>>
    \/ /\ IsPending(p)
       /\ state' = [state EXCEPT ![p] = s]
       /\ firing' = [i \in DOMAIN reactions[p] |-> JobOf(reactions[p][i], s)] \o rest
       /\ UNCHANGED <<reactions, unhandled>>

SettleUnlisted(p, s, rest) ==
    /\ state' = IF IsPending(p) THEN [state EXCEPT ![p] = s] ELSE state
    /\ firing' = rest
    /\ UNCHANGED <<reactions, unhandled>>

(* fulfill_promise and reject_promise: a settled promise is left alone; a  *)
(* pending one settles, gives its reactions to the cascade, and is listed  *)
(* as unhandled when it is rejected and nobody listens.                    *)
Settle(p, s, rest) ==
    \/ /\ ~IsPending(p)
       /\ firing' = rest
       /\ UNCHANGED <<state, reactions, unhandled>>
    \/ /\ IsPending(p)
       /\ state' = [state EXCEPT ![p] = s]
       /\ reactions' = [reactions EXCEPT ![p] = <<>>]
       /\ firing' = [i \in DOMAIN reactions[p] |-> JobOf(reactions[p][i], s)] \o rest
       /\ unhandled' = IF s.st = "rejected" /\ reactions[p] = <<>>
                       THEN unhandled \cup {p} ELSE unhandled

(* resolve_value: the promise resolve function's work on capability p *)
ResolveValue(p, x, rest, q) ==
    \/ /\ x = p
       /\ Settle(p, Rejected(TypeErr), rest)
       /\ queue' = q
       /\ UNCHANGED listener
    \/ /\ x \in Promise \ {p}
       /\ IsPending(x)
       /\ Listen(x)
       /\ reactions' = [reactions EXCEPT ![x] = Append(@, Bare("forward", p, x))]
       /\ firing' = rest
       /\ queue' = q
       /\ UNCHANGED state
    \/ /\ x \in Promise \ {p}
       /\ ~IsPending(x)
       /\ Settle(p, state[x], rest)
       /\ listener' = ListenLate(x)
       /\ queue' = q
    \/ /\ x = Thenable
       /\ queue' = Append(q, ThenableJob(p))
       /\ firing' = rest
       /\ UNCHANGED <<state, reactions, unhandled, listener>>
    \/ /\ x = BadThen
       /\ Settle(p, Rejected(Plain), rest)
       /\ queue' = q
       /\ UNCHANGED listener
    \/ /\ x \in {Plain, TypeErr}
       /\ Settle(p, Fulfilled(x), rest)
       /\ queue' = q
       /\ UNCHANGED listener

Reject(p, e, q) ==
    /\ Settle(p, Rejected(e), <<>>)
    /\ queue' = q
    /\ UNCHANGED listener

(* Mutant of AttachReaction: a late handler jumps the queue. *)
AttachAtFront(p, r) ==
    /\ Listen(p)
    /\ \/ /\ IsPending(p)
          /\ reactions' = [reactions EXCEPT ![p] = Append(@, r)]
          /\ UNCHANGED queue
       \/ /\ ~IsPending(p)
          /\ queue' = <<JobOf(r, state[p])>> \o queue
          /\ UNCHANGED reactions
    /\ UNCHANGED <<state, firing>>

(* attach_reaction for the kinds whose reaction becomes a job *)
AttachReaction(p, r) ==
    /\ Listen(p)
    /\ \/ /\ IsPending(p)
          /\ reactions' = [reactions EXCEPT ![p] = Append(@, r)]
          /\ UNCHANGED queue
       \/ /\ ~IsPending(p)
          /\ queue' = Append(queue, JobOf(r, state[p]))
          /\ UNCHANGED reactions
    /\ UNCHANGED <<state, firing>>

-----------------------------------------------------------------------------
(* The call stack *)

Top == frames[Len(frames)]
Below == SubSeq(frames, 1, Len(frames) - 1)
Quiet == firing = <<>> /\ frames # <<>>
UserTurn == Quiet /\ Top.k # "drain"
Calls(name) == UserTurn /\ name \in Api
Enter(f) == frames' = Append(frames, f)
Leave == frames' = Below
MayNest == Len(frames) < MaxDepth

(* A program is running (eval_depth > 0) in one of the frames of fs. *)
InEval(fs) == \E i \in DOMAIN fs : fs[i].k = "eval"

(* Promises user code can name: not the internal ones, nor one whose       *)
(* executor or first async run has not returned yet.                       *)
Exposed(p) ==
    /\ p <= alloc
    /\ p \notin internal
    /\ \A i \in DOMAIN frames :
          frames[i].k \in {"executor", "async"} => frames[i].cap # p

ThenableJobs == {i \in DOMAIN queue : queue[i].r.kind = "thenable"}
UserInput(v) ==
    /\ v \in Inputs
    /\ v = Thenable => Len(pairs) + Cardinality(ThenableJobs) < MaxPairs
UserValue(v) == UserInput(v) \/ (v \in Promise /\ Exposed(v))

Fresh == alloc + 1
Allocate == alloc < MaxPromises /\ alloc' = Fresh

-----------------------------------------------------------------------------
(* Engine::eval: the host starts a program, or user code calls the global  *)
(* eval.  When a program ends, jobs are drained unless another program is  *)
(* still running further out.                                              *)

StartEval ==
    /\ firing = <<>>
    /\ frames # <<>> => Calls("eval") /\ MayNest
    /\ Enter(FrameOf("eval", 0, Pending))
    /\ UNCHANGED <<core, pairs, alloc, internal, reported, loop>>

(* Mutant of FinishEval: the program returns without draining the jobs. *)
FinishUndrained ==
    /\ Quiet
    /\ Top.k = "eval"
    /\ Leave
    /\ UNCHANGED <<core, pairs, alloc, internal, reported, loop>>

FinishEval ==
    /\ Quiet
    /\ Top.k = "eval"
    /\ \/ /\ InEval(Below)
          /\ Leave
          /\ UNCHANGED steps
       \/ /\ ~InEval(Below)
          /\ frames' = Append(Below, FrameOf("drain", 0, Pending))
          /\ steps' = Append(steps, 0)
    /\ UNCHANGED <<core, pairs, alloc, internal, reported, lost>>

(* drain_jobs counts the jobs it runs. *)
JobPromise == Head(queue).r.promise
Ran == steps[Len(steps)]
Draining == Quiet /\ Top.k = "drain"
StopDraining == Leave /\ steps' = SubSeq(steps, 1, Len(steps) - 1)

(* drain_jobs finds the queue empty and returns *)
EndDrain ==
    /\ Draining
    /\ queue = <<>>
    /\ StopDraining
    /\ UNCHANGED <<core, pairs, alloc, internal, reported, lost>>

(* ... or it has popped one job more than its limit: it returns without    *)
(* running that job and leaves the others in the queue.                    *)
HitJobLimit ==
    /\ Draining
    /\ queue # <<>>
    /\ Ran >= JobLimit
    /\ queue' = Tail(queue)
    /\ lost' = IF JobPromise = 0 THEN lost ELSE Append(lost, Head(queue))
    /\ StopDraining
    /\ UNCHANGED <<state, reactions, firing, unhandled, listener, pairs, alloc,
                   internal, reported>>

(* The host collects the unhandled list between two programs. *)
TakeUnhandled ==
    /\ firing = <<>> /\ frames = <<>> /\ unhandled # {}
    /\ reported' = reported \cup unhandled
    /\ unhandled' = {}
    /\ UNCHANGED <<state, reactions, queue, firing, listener, pairs, frames,
                   alloc, internal, loop>>

(* enqueue_reaction_job for the next reaction of the cascade: a Forward    *)
(* settles its target at once, the others become jobs.                     *)
FireReaction ==
    /\ firing # <<>>
    /\ LET r == Head(firing).r
           s == Head(firing).s
       IN \/ /\ r.kind = "forward"
             /\ s.st = "fulfilled"
             /\ ResolveValue(r.promise, s.val, Tail(firing), queue)
          \/ /\ r.kind = "forward"
             /\ s.st = "rejected"
             /\ Settle(r.promise, s, Tail(firing))
             /\ UNCHANGED <<queue, listener>>
          \/ /\ r.kind # "forward"
             /\ queue' = Append(queue, Head(firing))
             /\ firing' = Tail(firing)
             /\ UNCHANGED <<state, reactions, unhandled, listener>>
    /\ UNCHANGED <<pairs, frames, alloc, internal, reported, loop>>

-----------------------------------------------------------------------------
(* run_job: one action per kind of job.  A job that calls user code opens  *)
(* a frame; what its completion does is in the return and throw actions.   *)

(* Mutant of NextJob: the job is run uncounted. *)
NextJobUncounted(kind) ==
    /\ Draining
    /\ queue # <<>> /\ Head(queue).r.kind = kind
    /\ Ran < JobLimit
    /\ UNCHANGED loop

NextJob(kind) ==
    /\ Draining
    /\ queue # <<>> /\ Head(queue).r.kind = kind
    /\ Ran < JobLimit
    /\ steps' = [steps EXCEPT ![Len(steps)] = @ + 1]
    /\ UNCHANGED lost

JobSettlement == Head(queue).s
HasHandler == LET r == Head(queue).r
              IN IF JobSettlement.st = "fulfilled" THEN r.onF ELSE r.onR

CallUser(kind, orig) ==
    /\ Enter(FrameOf(kind, JobPromise, orig))
    /\ queue' = Tail(queue)
    /\ UNCHANGED <<state, reactions, firing, unhandled, listener>>

RunHandler ==
    /\ NextJob("then")
    /\ HasHandler
    /\ CallUser("handler", Pending)
    /\ UNCHANGED <<pairs, alloc, internal, reported>>

RunPassThrough ==
    /\ NextJob("then")
    /\ ~HasHandler
    /\ \/ /\ JobSettlement.st = "fulfilled"
          /\ ResolveValue(JobPromise, JobSettlement.val, <<>>, Tail(queue))
       \/ /\ JobSettlement.st = "rejected"
          /\ Reject(JobPromise, JobSettlement.val, Tail(queue))
    /\ UNCHANGED <<pairs, frames, alloc, internal, reported>>

RunFinally ==
    /\ NextJob("finallyCall")
    /\ CallUser("finally", JobSettlement)
    /\ UNCHANGED <<pairs, alloc, internal, reported>>

(* Mutant of RunFinallyPropagate: what the callback returned may fail. *)
PropagateIgnoringFailure ==
    /\ NextJob("finallyPropagate")
    /\ LET orig == Head(queue).r.orig
       IN \/ /\ orig.st = "fulfilled"
             /\ ResolveValue(JobPromise, orig.val, <<>>, Tail(queue))
          \/ /\ orig.st = "rejected"
             /\ Reject(JobPromise, orig.val, Tail(queue))
    /\ UNCHANGED <<pairs, frames, alloc, internal, reported>>

RunFinallyPropagate ==
    /\ NextJob("finallyPropagate")
    /\ LET orig == Head(queue).r.orig
       IN \/ /\ JobSettlement.st = "fulfilled"
             /\ orig.st = "fulfilled"
             /\ ResolveValue(JobPromise, orig.val, <<>>, Tail(queue))
          \/ /\ JobSettlement.st = "fulfilled"
             /\ orig.st = "rejected"
             /\ Reject(JobPromise, orig.val, Tail(queue))
          \/ /\ JobSettlement.st = "rejected"
             /\ Reject(JobPromise, JobSettlement.val, Tail(queue))
    /\ UNCHANGED <<pairs, frames, alloc, internal, reported>>

RunAsyncResume ==
    /\ NextJob("async")
    /\ CallUser("resume", Pending)
    /\ UNCHANGED <<pairs, alloc, internal, reported>>

RunThenable ==
    /\ NextJob("thenable")
    /\ CallUser("thenable", Pending)
    /\ pairs' = Append(pairs, [cap |-> JobPromise, used |-> FALSE])
    /\ UNCHANGED <<alloc, internal, reported>>

RunMicrotask ==
    /\ NextJob("microtask")
    /\ CallUser("microtask", Pending)
    /\ UNCHANGED <<pairs, alloc, internal, reported>>

RunJob == \/ RunHandler \/ RunPassThrough \/ RunFinally \/ RunFinallyPropagate
          \/ RunAsyncResume \/ RunThenable \/ RunMicrotask

-----------------------------------------------------------------------------
(* What user code can call while it runs *)

(* new Promise(executor): the executor runs with the new pair in hand *)
(* Mutant of NewPromise: the pair is made for the promise allocated before. *)
NewPromiseOffByOne ==
    /\ Calls("new") /\ MayNest
    /\ Len(pairs) + Cardinality(ThenableJobs) < MaxPairs
    /\ Allocate
    /\ pairs' = Append(pairs, [cap |-> alloc, used |-> FALSE])
    /\ Enter(FrameOf("executor", Fresh, Pending))
    /\ UNCHANGED <<core, internal, reported, loop>>

NewPromise ==
    /\ Calls("new") /\ MayNest
    /\ Len(pairs) + Cardinality(ThenableJobs) < MaxPairs
    /\ Allocate
    /\ pairs' = Append(pairs, [cap |-> Fresh, used |-> FALSE])
    /\ Enter(FrameOf("executor", Fresh, Pending))
    /\ UNCHANGED <<core, internal, reported, loop>>

WithResolvers ==
    /\ Calls("withResolvers")
    /\ Len(pairs) + Cardinality(ThenableJobs) < MaxPairs
    /\ Allocate
    /\ pairs' = Append(pairs, [cap |-> Fresh, used |-> FALSE])
    /\ UNCHANGED <<core, frames, internal, reported, loop>>

(* Mutant of CallResolve: the flag is not read. *)
CallResolveNoCheck(i, v) ==
    /\ Calls("resolve")
    /\ pairs' = [pairs EXCEPT ![i].used = TRUE]
    /\ ResolveValue(pairs[i].cap, v, <<>>, queue)
    /\ UNCHANGED <<frames, alloc, internal, reported, loop>>

(* call_promise_resolver: the first call through a pair wins *)
CallResolve(i, v) ==
    /\ Calls("resolve")
    /\ ~pairs[i].used
    /\ pairs' = [pairs EXCEPT ![i].used = TRUE]
    /\ ResolveValue(pairs[i].cap, v, <<>>, queue)
    /\ UNCHANGED <<frames, alloc, internal, reported, loop>>

CallReject(i, e) ==
    /\ Calls("reject")
    /\ ~pairs[i].used
    /\ pairs' = [pairs EXCEPT ![i].used = TRUE]
    /\ Reject(pairs[i].cap, e, queue)
    /\ UNCHANGED <<frames, alloc, internal, reported, loop>>

(* p.then(f, r); p.catch(r) is then without f *)
Then(p, f, r) ==
    /\ Calls("then") /\ Len(queue) < MaxQueue
    /\ Exposed(p)
    /\ Allocate
    /\ AttachReaction(p, [Bare("then", Fresh, p) EXCEPT !.onF = f, !.onR = r])
    /\ UNCHANGED <<pairs, frames, internal, reported, loop>>

Finally(p) ==
    /\ Calls("finally") /\ Len(queue) < MaxQueue
    /\ Exposed(p)
    /\ Allocate
    /\ AttachReaction(p, Bare("finallyCall", Fresh, p))
    /\ UNCHANGED <<pairs, frames, internal, reported, loop>>

(* Promise.resolve(v) of a value that is not a promise: a promise is       *)
(* returned as it is and nothing changes.                                  *)
StaticResolve(v) ==
    /\ Calls("static")
    /\ Allocate
    /\ ResolveValue(Fresh, v, <<>>, queue)
    /\ UNCHANGED <<pairs, frames, internal, reported, loop>>

StaticReject(e) ==
    /\ Calls("static")
    /\ Allocate
    /\ Reject(Fresh, e, queue)
    /\ UNCHANGED <<pairs, frames, internal, reported, loop>>

(* Mutant of QueueMicrotask: the job is pushed at the front. *)
MicrotaskAtFront ==
    /\ Calls("microtask") /\ Len(queue) < MaxQueue
    /\ queue' = <<MicrotaskJob>> \o queue
    /\ UNCHANGED <<state, reactions, firing, unhandled, listener, pairs, frames,
                   alloc, internal, reported, loop>>

QueueMicrotask ==
    /\ Calls("microtask") /\ Len(queue) < MaxQueue
    /\ queue' = Append(queue, MicrotaskJob)
    /\ UNCHANGED <<state, reactions, firing, unhandled, listener, pairs, frames,
                   alloc, internal, reported, loop>>

(* call_async_function: the body runs now, up to its first await *)
CallAsync ==
    /\ Calls("async") /\ MayNest
    /\ Allocate
    /\ Enter(FrameOf("async", Fresh, Pending))
    /\ UNCHANGED <<core, pairs, internal, reported, loop>>

InAsync == UserTurn /\ Top.k \in {"async", "resume"}

(* Mutant of AwaitPromise: the continuation on a settled promise is lost. *)
AwaitPendingOnly(p) ==
    /\ InAsync
    /\ Exposed(p)
    /\ Listen(p)
    /\ reactions' = IF IsPending(p)
                    THEN [reactions EXCEPT ![p] = Append(@, Bare("async", Top.cap, p))]
                    ELSE reactions
    /\ Leave
    /\ UNCHANGED <<state, queue, firing, pairs, alloc, internal, reported, loop>>

(* await_suspend on a promise *)
AwaitPromise(p) ==
    /\ InAsync
    /\ Exposed(p)
    /\ \/ /\ IsPending(p)
          /\ Listen(p)
          /\ reactions' = [reactions EXCEPT ![p] = Append(@, Bare("async", Top.cap, p))]
          /\ UNCHANGED queue
       \/ /\ ~IsPending(p)
          /\ queue' = Append(queue, JobOf(Bare("async", Top.cap, p), state[p]))
          /\ listener' = ListenLate(p)
          /\ UNCHANGED <<reactions, unhandled>>
    /\ Leave
    /\ UNCHANGED <<state, firing, pairs, alloc, internal, reported, loop>>

(* await_suspend on anything else: a wrapper promise takes the value first *)
AwaitOther(v) ==
    /\ InAsync
    /\ Allocate
    /\ internal' = internal \cup {Fresh}
    /\ LET r == Bare("async", Top.cap, Fresh)
       IN \/ /\ v = Thenable
             /\ queue' = Append(queue, ThenableJob(Fresh))
             /\ reactions' = [reactions EXCEPT ![Fresh] = <<r>>]
             /\ listener' = [listener EXCEPT ![Fresh] = "attached"]
             /\ UNCHANGED <<state, unhandled>>
          \/ /\ v \in {Plain, BadThen}
             /\ LET s == IF v = BadThen THEN Rejected(Plain) ELSE Fulfilled(v)
                IN /\ state' = [state EXCEPT ![Fresh] = s]
                   /\ unhandled' = IF s.st = "rejected"
                                   THEN unhandled \cup {Fresh} ELSE unhandled
                   /\ queue' = Append(queue, JobOf(r, s))
             /\ listener' = [listener EXCEPT ![Fresh] = "late"]
             /\ UNCHANGED reactions
    /\ Leave
    /\ UNCHANGED <<firing, pairs, reported, loop>>

-----------------------------------------------------------------------------
(* How user code the engine called completes *)

(* A handler's or an async function's result resolves its promise. *)
ReturnValue(v) ==
    /\ UserTurn
    /\ Top.k \in {"handler", "async", "resume"}
    /\ ResolveValue(Top.cap, v, <<>>, queue)
    /\ Leave
    /\ UNCHANGED <<pairs, alloc, internal, reported, loop>>

(* The result of an executor, a `then` method or a microtask is dropped. *)
ReturnIgnored ==
    /\ UserTurn
    /\ Top.k \in {"executor", "thenable", "microtask"}
    /\ Leave
    /\ UNCHANGED <<core, pairs, alloc, internal, reported, loop>>

(* run_job's FinallyCall once the callback returned v: an internal promise *)
(* resolves to v, and FinallyPropagate hangs on it or is enqueued at once. *)
ReturnFinally(v) ==
    /\ UserTurn
    /\ Top.k = "finally"
    /\ Allocate
    /\ internal' = internal \cup {Fresh}
    /\ LET follow == [Bare("finallyPropagate", Top.cap, Fresh) EXCEPT !.orig = Top.orig]
           mid(s) == /\ state' = [state EXCEPT ![Fresh] = s]
                     /\ unhandled' = IF s.st = "rejected"
                                     THEN unhandled \cup {Fresh} ELSE unhandled
                     /\ queue' = Append(queue, JobOf(follow, s))
                     /\ UNCHANGED reactions
       IN \/ /\ v \in Promise
             /\ IsPending(v)
             /\ reactions' = [reactions EXCEPT
                                ![v] = Append(@, Bare("forward", Fresh, v)),
                                ![Fresh] = <<follow>>]
             /\ listener' = [listener EXCEPT ![v] = "attached", ![Fresh] = "attached"]
             /\ unhandled' = unhandled \ {v}
             /\ UNCHANGED <<state, queue>>
          \/ /\ v \in Promise
             /\ ~IsPending(v)
             /\ mid(state[v])
             /\ listener' = [ListenLate(v) EXCEPT ![Fresh] = "late"]
          \/ /\ v = Thenable
             /\ queue' = Append(queue, ThenableJob(Fresh))
             /\ reactions' = [reactions EXCEPT ![Fresh] = <<follow>>]
             /\ listener' = [listener EXCEPT ![Fresh] = "attached"]
             /\ UNCHANGED <<state, unhandled>>
          \/ /\ v \in {Plain, BadThen}
             /\ mid(IF v = BadThen THEN Rejected(Plain) ELSE Fulfilled(v))
             /\ listener' = [listener EXCEPT ![Fresh] = "late"]
    /\ Leave
    /\ UNCHANGED <<firing, pairs, reported, loop>>

(* Mutant of ThrowRejects: the promise is rejected without reject_promise. *)
ThrowUnlisted(e) ==
    /\ UserTurn
    /\ Top.k \in {"handler", "finally", "async", "resume", "executor", "thenable"}
    /\ SettleUnlisted(Top.cap, Rejected(e), <<>>)
    /\ Leave
    /\ UNCHANGED <<queue, listener, pairs, alloc, internal, reported, loop>>

(* A throw rejects the promise the frame settles: past the flag of its     *)
(* resolver pair, when the frame is an executor or a thenable's `then`.    *)
ThrowRejects(e) ==
    /\ UserTurn
    /\ Top.k \in {"handler", "finally", "async", "resume", "executor", "thenable"}
    /\ Reject(Top.cap, e, queue)
    /\ Leave
    /\ UNCHANGED <<pairs, alloc, internal, reported, loop>>

ThrowMicrotask ==
    /\ UserTurn
    /\ Top.k = "microtask"
    /\ unhandled' = unhandled \cup {Thrown}
    /\ Leave
    /\ UNCHANGED <<state, reactions, queue, firing, listener, pairs, alloc,
                   internal, reported, loop>>

Complete ==
    \/ \E v \in Value : UserValue(v) /\ (ReturnValue(v) \/ ReturnFinally(v))
    \/ ReturnIgnored
    \/ \E e \in Reasons : ThrowRejects(e)
    \/ ThrowMicrotask

UserCall ==
    \/ NewPromise \/ WithResolvers \/ QueueMicrotask \/ CallAsync
    \/ \E i \in DOMAIN pairs :
          \/ \E v \in Value : UserValue(v) /\ CallResolve(i, v)
          \/ \E e \in Reasons : CallReject(i, e)
    \/ \E p \in Promise :
          \/ \E f, r \in BOOLEAN : Then(p, f, r)
          \/ Finally(p)
          \/ AwaitPromise(p)
    \/ \E v \in Inputs : UserInput(v) /\ (StaticResolve(v) \/ AwaitOther(v))
    \/ \E e \in Reasons : StaticReject(e)

Next == \/ StartEval \/ FinishEval \/ EndDrain \/ HitJobLimit \/ TakeUnhandled
        \/ FireReaction \/ RunJob \/ UserCall \/ Complete

Spec == Init /\ [][Next]_vars

(* One thread keeps executing, and every program and every function calls  *)
(* only finitely many operations and then returns or throws, at whatever   *)
(* depth of the stack it runs.                                             *)
CompleteAt(depth) == Len(frames) = depth /\ (FinishEval \/ Complete)
Fairness ==
    /\ WF_vars(FireReaction)
    /\ WF_vars(RunJob \/ EndDrain \/ HitJobLimit)
    /\ \A depth \in 1 .. MaxDepth + 1 : SF_vars(CompleteAt(depth))

FairSpec == Spec /\ Fairness
-----------------------------------------------------------------------------
(* Properties *)

(* A settled promise keeps no reaction: whatever was attached to it has    *)
(* been handed to the cascade, so nothing attached can be forgotten        *)
(* (fulfill_promise and reject_promise take the list as they settle).  And *)
(* a promise is never fulfilled with a promise or a thenable: resolve_value*)
(* adopts or assimilates those.                                            *)
SettledClean ==
    \A p \in Promise : ~IsPending(p) =>
        /\ reactions[p] = <<>>
        /\ state[p].st = "fulfilled" => state[p].val \in {Plain, TypeErr}

(* Whatever will settle p: an unused resolver pair, a reaction, a job, a   *)
(* step of the running cascade, or user code whose completion settles it;  *)
(* or the job that would have, had a drain not dropped it at its limit.    *)
Owners(p) ==
    {<<"pair", 0, i>> : i \in {j \in DOMAIN pairs : pairs[j].cap = p /\ ~pairs[j].used}}
    \cup {<<"job", 0, i>> : i \in {j \in DOMAIN queue : queue[j].r.promise = p}}
    \cup {<<"lost", 0, i>> : i \in {j \in DOMAIN lost : lost[j].r.promise = p}}
    \cup {<<"firing", 0, i>> : i \in {j \in DOMAIN firing : firing[j].r.promise = p}}
    \cup {<<"frame", 0, i>> : i \in {j \in DOMAIN frames :
             frames[j].cap = p /\ frames[j].k \in {"handler", "finally", "async", "resume"}}}
    \cup UNION {{<<"reaction", q, i>> : i \in {j \in DOMAIN reactions[q] :
             reactions[q][j].promise = p}} : q \in Promise}

(* Every pending promise has exactly one thing left that will settle it,   *)
(* across resolver calls, adoption, assimilation, await and finally: none  *)
(* is settled by two parties racing each other, and one stays pending for  *)
(* ever only if user code never calls its pair or the one job that was to  *)
(* settle it is the one a drain dropped at its limit.                      *)
OneOwner ==
    \A p \in 1 .. alloc :
        IF IsPending(p) THEN Cardinality(Owners(p)) = 1
                        ELSE Cardinality(Owners(p)) <= 1

(* mark_handled keeps the unhandled list free of every promise that had a  *)
(* reaction attached, however settlement and attachment interleave.        *)
HandledNotReported ==
    \A p \in Promise : listener[p] = "attached" => p \notin unhandled

(* A rejection nobody ever listened to is in the list until the host takes *)
(* it: none is silently dropped.                                           *)
UnhandledComplete ==
    \A p \in Promise :
        state[p].st = "rejected" /\ listener[p] = "none" => p \in unhandled \cup reported

(* then-callbacks of one promise run in the order they were attached,      *)
(* whether attached before or after it settled.  Each then allocates its   *)
(* derived promise when it attaches, so attachment order is id order.      *)
HandlerKinds == {"then", "finallyCall"}
InOrder(seq) ==
    \A i, j \in DOMAIN seq :
        /\ i < j
        /\ seq[i].r.kind \in HandlerKinds /\ seq[j].r.kind \in HandlerKinds
        /\ seq[i].r.on = seq[j].r.on
        => seq[i].r.promise < seq[j].r.promise
HandlersInOrder == InOrder(queue \o firing)

(* Settling is final: once settled, no later call, reaction or job changes *)
(* the state or the value of a promise.                                    *)
SettledForGood ==
    [][\A p \in Promise : ~IsPending(p) => state'[p] = state[p]]_vars

(* Forward reactions of pending promises: p is locked in on q *)
LockedOn(p, q) == \E r \in Range(reactions[q]) : r.kind = "forward" /\ r.promise = p

(* The states a throw can settle although a resolver call locked it in *)
ThrowOverrides ==
    UserTurn /\ Top.k \in {"executor", "thenable"} /\ \E e \in Reasons : ThrowRejects(e)

(* A promise resolved with a pending promise follows it: it stays pending  *)
(* as long as the other does, whatever its pair is called with afterwards. *)
(* Exempt are the throws of an executor or of a thenable's then, which     *)
(* reject the promise without consulting the flag.                         *)
LockedIn ==
    [][\A p, q \in Promise :
          IsPending(p) /\ LockedOn(p, q) /\ state'[q] = state[q] /\ ~ThrowOverrides
             => state'[p] = state[p]]_vars

(* Jobs run first in, first out, so a handler in the queue is started, and *)
(* not dropped, whatever is enqueued behind it and whatever nested         *)
(* programs drain meanwhile: provided no running drain, and none that user *)
(* code can still start, reaches its limit before it reaches the handler.  *)
HandlerAt(p, i) == queue[i].r.promise = p /\ queue[i].r.kind \in HandlerKinds
HandlerQueued(p) == \E i \in DOMAIN queue : HandlerAt(p, i)
InTurn(p) ==
    /\ frames # <<>>
    /\ \E i \in DOMAIN queue :
          /\ HandlerAt(p, i)
          /\ i <= JobLimit
          /\ \A d \in DOMAIN steps : steps[d] + i <= JobLimit
Dropped(p) == \E i \in DOMAIN lost : lost[i].r.promise = p
JobsRun == \A p \in Promise : InTurn(p) ~> ~HandlerQueued(p) /\ ~Dropped(p)

(* A program the host starts comes back to it, although its jobs queue     *)
(* further jobs, and theirs too, without end, and nested programs drain    *)
(* them as well: the limit of drain_jobs ends every drain.                 *)
EvalReturns == frames # <<>> ~> frames = <<>>

(* When eval returns to its host no settlement is half way, and nothing is *)
(* left to do but what the last drain left when it had run its 10,000,000  *)
(* jobs: then it has dropped one job and kept the others in their order.   *)
DrainedForHost ==
    [][frames # <<>> /\ frames' = <<>> =>
          /\ firing' = <<>>
          /\ \/ queue' = <<>>
             \/ queue' = Tail(queue) /\ Ran = JobLimit]_vars
-----------------------------------------------------------------------------
(* Promises implements PromiseSpec *)

(* The reactions that wait, wherever they wait, those that wait for ever   *)
(* because a drain dropped their job, and those that settle p              *)
Reacting == (UNION {Range(reactions[q]) : q \in Promise})
            \cup {j.r : j \in Range(queue) \cup Range(firing)}
Forgotten == {j.r : j \in Range(lost)}
Waiting(p) == {r \in Reacting \cup Forgotten : r.promise = p}

FateOf(r) ==
    IF r.kind = "thenable" THEN [st |-> "assimilates"]
    ELSE [st |-> "waits", how |-> r.kind, on |-> r.on,
          onF |-> r.onF, onR |-> r.onR, orig |-> r.orig]

(* The frames of a finally callback for p *)
FinallyFrames(p) == {f \in Range(frames) : f.k = "finally" /\ f.cap = p}

(* What is to become of p: its settlement, or what the one that will       *)
(* settle it makes of it.                                                  *)
Fate(p) ==
    CASE p > alloc -> [st |-> "unmade"]
      [] p <= alloc /\ ~IsPending(p) -> state[p]
      [] p <= alloc /\ IsPending(p) /\ Waiting(p) # {} ->
            FateOf(CHOOSE r \in Waiting(p) : TRUE)
      [] p <= alloc /\ IsPending(p) /\ Waiting(p) = {} /\ FinallyFrames(p) # {} ->
            [st |-> "finishes", orig |-> (CHOOSE f \in FinallyFrames(p) : TRUE).orig]
      [] OTHER -> [st |-> "open"]

Interruptible == {f.cap : f \in {g \in Range(frames) : g.k \in {"executor", "thenable"}}}

Promised == INSTANCE PromiseSpec WITH
               fate <- [p \in Promise |-> Fate(p)], running <- Interruptible

(* However settlement, adoption, assimilation, handlers, finally and await *)
(* interleave, a promise goes from one fate to the next only as            *)
(* PromiseSpec lets it: it settles once, with what the promise it follows  *)
(* or passes on settled with, its handlers are called with the settlement  *)
(* of the promise they were attached to, and what it follows it follows at *)
(* once.                                                                   *)
KeepsPromises == Promised!Spec

-----------------------------------------------------------------------------
(* The inductive invariant behind the properties (proved in PromisesProofs) *)

(* No settlement carries a promise or a thenable as its value. *)
CleanState == {s \in State : s.st = "fulfilled" => s.val \in {Plain, TypeErr}}

(* Only allocated promises are referred to, and only a microtask refers to *)
(* none.                                                                   *)
LiveReaction(n) ==
    {r \in Reaction : /\ r.promise <= n
                      /\ r.kind # "microtask" <=> r.promise >= 1
                      /\ r.orig \in CleanState}
LiveJob(n) == [r : LiveReaction(n), s : CleanState]
LivePair(n) == {c \in [cap : Promise, used : BOOLEAN] : c.cap <= n}
LiveFrame(n) ==
    {f \in Frame : /\ f.cap <= n
                   /\ f.k \notin {"eval", "drain", "microtask"} => f.cap >= 1
                   /\ f.orig \in CleanState}

(* Everything in the promise store while promises 1..n are allocated *)
Store(n) ==
    /\ state \in [Promise -> CleanState]
    /\ reactions \in [Promise -> Seq(LiveReaction(n))]
    /\ queue \in Seq(LiveJob(n))
    /\ firing \in Seq(LiveJob(n))
    /\ unhandled \subseteq Promise \cup {Thrown}
    /\ listener \in [Promise -> {"none", "late", "attached"}]
    /\ \A p \in Promise : p > n => IsPending(p) /\ reactions[p] = <<>>
    /\ SettledClean

(* Listeners: a pending promise is listened to exactly when it has         *)
(* reactions, and only settled promises are in the unhandled list.         *)
Heard ==
    /\ \A p \in Promise : IsPending(p) =>
          /\ p \notin unhandled
          /\ listener[p] = "attached" <=> reactions[p] # <<>>
    /\ HandledNotReported
    /\ UnhandledComplete

IInv ==
    /\ alloc \in 0 .. MaxPromises
    /\ Store(alloc)
    /\ Heard
    /\ pairs \in Seq(LivePair(alloc))
    /\ frames \in Seq(LiveFrame(alloc))
    /\ internal \subseteq Promise
    /\ reported \subseteq Promise \cup {Thrown}
=============================================================================
