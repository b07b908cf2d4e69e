------------------------------ MODULE EventLoop ------------------------------
(***************************************************************************)
(* The engine's event loop: Engine::eval, drain_jobs, drain_timers on the  *)
(* virtual clock, the timer functions, and the garbage collection at the   *)
(* end of an evaluation (interpreter.rs, interpreter/jobs.rs,              *)
(* builtins/timers.rs).                                                    *)
(*                                                                         *)
(* What a job does to promises is in Promises; here a job is one call of   *)
(* user code, and the queue is the number of jobs in it.  The Rust call    *)
(* stack is `stack`: user code may call the global eval, whose evaluation  *)
(* then runs its own drains on top of the ones below it.                   *)
(***************************************************************************)
EXTENDS Naturals, Sequences, FiniteSets

CONSTANTS
    Delays,       \* the delays user code passes to setTimeout/setInterval
    TimerLimit,   \* MAX_TIMER_TASKS: tasks per pump
    JobLimit,     \* the iteration cap of drain_jobs
    MaxTimers,    \* how many timers user code ever sets
    MaxJobs,      \* how many jobs user code ever queues
    MaxEvals,     \* how many evaluations the host and user code start
    MaxDepth,     \* how deep user code nests eval
    Api           \* the operations user code calls in this instance

ApiCalls == {"timeout", "interval", "clear", "clearUnset", "job", "allocate", "eval"}

ASSUME LoopAssumption ==
    /\ Delays \subseteq Nat
    /\ TimerLimit \in Nat /\ JobLimit \in Nat /\ MaxTimers \in Nat
    /\ MaxJobs \in Nat /\ MaxEvals \in Nat /\ MaxDepth \in Nat
    /\ Api \subseteq ApiCalls

(* TimerEntry: `delay` is the repeat interval when `every` is set.  The    *)
(* clock is taken to stay below 2^64.                                      *)
Timer == [id : Nat, deadline : Nat, delay : Nat, every : BOOLEAN]
NoTimer == [id |-> 0, deadline |-> 0, delay |-> 0, every |-> FALSE]

(* One call on the Rust stack:                                             *)
(*   eval  - an evaluation: its script, its drain, its pump                *)
(*   drain - drain_jobs, which has run n jobs                              *)
(*   pump  - drain_timers, which has run n tasks, the last being timer t   *)
(*   job, callback - user code called for a job or a timer                 *)
Frame == [k : {"eval", "drain", "pump", "job", "callback"},
          at : {"script", "drain", "pump", "pick", "checkpoint", "again", "run"},
          n : Nat, t : Timer]
EvalFrame == [k |-> "eval", at |-> "script", n |-> 0, t |-> NoTimer]
DrainFrame == [k |-> "drain", at |-> "run", n |-> 0, t |-> NoTimer]
PumpFrame == [k |-> "pump", at |-> "pick", n |-> 0, t |-> NoTimer]
Firing(n, t) == [k |-> "pump", at |-> "checkpoint", n |-> n, t |-> t]
UserFrame(k) == [k |-> k, at |-> "run", n |-> 0, t |-> NoTimer]

VARIABLES
    now,        \* now_ms, the virtual clock
    nextId,     \* next_timer_id
    timers,     \* the timer heap, as a set
    cancelled,  \* cancelled_timers
    jobs,       \* length of the job queue
    due,        \* enough was allocated for a collection
    stack,      \* the Rust call stack, innermost frame last
    evals,      \* evaluations started so far
    made,       \* jobs queued so far
    arrival,    \* ghost: ids of pending timers in the order they were queued
    cleared     \* ghost: ids cleared while their timer existed

vars == <<now, nextId, timers, cancelled, jobs, due, stack, evals, made,
          arrival, cleared>>
timing == <<now, nextId, timers, cancelled, arrival, cleared>>
work == <<jobs, made>>

TypeOK ==
    /\ now \in Nat
    /\ nextId \in Nat \ {0}
    /\ timers \subseteq Timer
    /\ cancelled \subseteq Nat
    /\ jobs \in Nat
    /\ due \in BOOLEAN
    /\ stack \in Seq(Frame)
    /\ evals \in Nat
    /\ made \in Nat
    /\ arrival \in Seq(Nat)
    /\ cleared \subseteq Nat

Init ==
    /\ now = 0
    /\ nextId = 1
    /\ timers = {}
    /\ cancelled = {}
    /\ jobs = 0
    /\ due = FALSE
    /\ stack = <<>>
    /\ evals = 0
    /\ made = 0
    /\ arrival = <<>>
    /\ cleared = {}

-----------------------------------------------------------------------------
(* The call stack *)

Top == stack[Len(stack)]
Below == SubSeq(stack, 1, Len(stack) - 1)
In(k) == stack # <<>> /\ Top.k = k
InAt(k, at) == In(k) /\ Top.at = at
Call(f) == stack' = Append(stack, f)
Return == stack' = Below
(* The innermost frame goes on as f and calls g. *)
ContinueAs(f) == stack' = Append(Below, f)
ThenCall(f, g) == stack' = Append(Append(Below, f), g)

(* eval_depth > 0: a script of an evaluation in s is still running *)
InScript(s) == \E i \in DOMAIN s : s[i].k = "eval" /\ s[i].at = "script"
UserTurn == InAt("eval", "script") \/ In("job") \/ In("callback")
Calls(name) == UserTurn /\ name \in Api

-----------------------------------------------------------------------------
(* Engine::eval.  A program evaluated inside another one's script returns  *)
(* after its own script; any other one drains the jobs, pumps the timers   *)
(* and may collect garbage before it returns.                              *)

(* The host runs a program, or user code calls the global eval. *)
StartEval ==
    /\ stack = <<>> \/ (Calls("eval") /\ Len(stack) < MaxDepth)
    /\ evals < MaxEvals
    /\ evals' = evals + 1
    /\ Call(EvalFrame)
    /\ UNCHANGED <<timing, work, due>>

(* Mutant of FinishScript: an evaluation pumps before it drains. *)
FinishScriptUndrained ==
    /\ InAt("eval", "script")
    /\ IF InScript(Below)
       THEN Return
       ELSE ContinueAs([Top EXCEPT !.at = "drain"])
    /\ UNCHANGED <<timing, work, due, evals>>

FinishScript ==
    /\ InAt("eval", "script")
    /\ IF InScript(Below)
       THEN Return
       ELSE ThenCall([Top EXCEPT !.at = "drain"], DrainFrame)
    /\ UNCHANGED <<timing, work, due, evals>>

StartPump ==
    /\ InAt("eval", "drain")
    /\ ThenCall([Top EXCEPT !.at = "pump"], PumpFrame)
    /\ UNCHANGED <<timing, work, due, evals>>

(* The allocation counters decide whether collect_with or                  *)
(* collect_minor_with runs, and after either one no counter asks for more. *)
FinishEval ==
    /\ InAt("eval", "pump")
    /\ due' = FALSE
    /\ Return
    /\ UNCHANGED <<timing, work, evals>>

-----------------------------------------------------------------------------
(* drain_jobs *)

(* Mutant of RunJob: the loop does not look whether a job is left. *)
RunJobUnguarded ==
    /\ In("drain") /\ Top.n < JobLimit
    /\ jobs' = jobs - 1
    /\ ThenCall([Top EXCEPT !.n = @ + 1], UserFrame("job"))
    /\ UNCHANGED <<timing, made, due, evals>>

RunJob ==
    /\ In("drain") /\ jobs > 0 /\ Top.n < JobLimit
    /\ jobs' = jobs - 1
    /\ ThenCall([Top EXCEPT !.n = @ + 1], UserFrame("job"))
    /\ UNCHANGED <<timing, made, due, evals>>

(* At the cap the loop pops one more job, and breaks without running it. *)
HitJobLimit ==
    /\ In("drain") /\ jobs > 0 /\ Top.n >= JobLimit
    /\ jobs' = jobs - 1
    /\ Return
    /\ UNCHANGED <<timing, made, due, evals>>

DrainDone ==
    /\ In("drain") /\ jobs = 0
    /\ Return
    /\ UNCHANGED <<timing, work, due, evals>>

(* A job or a timer callback returns, or throws into the unhandled list. *)
CallbackReturns ==
    /\ (In("job") \/ In("callback"))
    /\ Return
    /\ UNCHANGED <<timing, work, due, evals>>

-----------------------------------------------------------------------------
(* drain_timers *)

(* Mutant of Earliest: Ord compares the ids first. *)
SmallestId(t) == t \in timers /\ \A u \in timers : t.id <= u.id

(* Mutant of Earliest: a later timer wins the tie. *)
LargestId(t) ==
    /\ t \in timers
    /\ \A u \in timers :
          t.deadline < u.deadline \/ (t.deadline = u.deadline /\ t.id >= u.id)

(* BinaryHeap::pop: the earliest deadline, then the smallest id *)
Earliest(t) ==
    /\ t \in timers
    /\ \A u \in timers :
          t.deadline < u.deadline \/ (t.deadline = u.deadline /\ t.id <= u.id)

Picking == InAt("pump", "pick") /\ Top.n < TimerLimit

Without(s, id) ==
    LET at == CHOOSE i \in DOMAIN s : s[i] = id
    IN [i \in 1 .. Len(s) - 1 |-> IF i < at THEN s[i] ELSE s[i + 1]]

PumpEmpty ==
    /\ Picking
    /\ timers = {}
    /\ cancelled' = {}
    /\ Return
    /\ UNCHANGED <<now, nextId, timers, arrival, cleared, work, due, evals>>

HitTimerLimit ==
    /\ InAt("pump", "pick") /\ Top.n >= TimerLimit
    /\ Return
    /\ UNCHANGED <<timing, work, due, evals>>

SkipCancelled(t) ==
    /\ Picking
    /\ Earliest(t)
    /\ t.id \in cancelled
    /\ timers' = timers \ {t}
    /\ cancelled' = cancelled \ {t.id}
    /\ arrival' = Without(arrival, t.id)
    /\ UNCHANGED <<now, nextId, cleared, work, due, stack, evals>>

(* Mutant of FireTimer: the task is not counted. *)
FireUncounted(t) ==
    /\ Picking
    /\ Earliest(t)
    /\ t.id \notin cancelled
    /\ timers' = timers \ {t}
    /\ arrival' = Without(arrival, t.id)
    /\ now' = IF t.deadline > now THEN t.deadline ELSE now
    /\ ThenCall(Firing(Top.n, t), UserFrame("callback"))
    /\ UNCHANGED <<nextId, cancelled, cleared, work, due, evals>>

FireTimer(t) ==
    /\ Picking
    /\ Earliest(t)
    /\ t.id \notin cancelled
    /\ timers' = timers \ {t}
    /\ arrival' = Without(arrival, t.id)
    /\ now' = IF t.deadline > now THEN t.deadline ELSE now
    /\ ThenCall(Firing(Top.n + 1, t), UserFrame("callback"))
    /\ UNCHANGED <<nextId, cancelled, cleared, work, due, evals>>

(* The microtask checkpoint after every timer task *)
Checkpoint ==
    /\ InAt("pump", "checkpoint")
    /\ ThenCall([Top EXCEPT !.at = "again"], DrainFrame)
    /\ UNCHANGED <<timing, work, due, evals>>

(* Mutant of Reschedule: a clear during the callback is overlooked. *)
RescheduleAlways ==
    /\ InAt("pump", "again")
    /\ LET t == Top.t
       IN IF t.every
          THEN /\ timers' = timers \cup {[t EXCEPT !.deadline = now + t.delay]}
               /\ arrival' = Append(arrival, t.id)
               /\ cancelled' = cancelled \ {t.id}
          ELSE UNCHANGED <<timers, arrival, cancelled>>
    /\ ContinueAs([Top EXCEPT !.at = "pick", !.t = NoTimer])
    /\ UNCHANGED <<now, nextId, cleared, work, due, evals>>

(* An interval is queued again, under the same id, unless it was cleared. *)
Reschedule ==
    /\ InAt("pump", "again")
    /\ LET t == Top.t
           hit == t.id \in cancelled
           next == [t EXCEPT !.deadline = now + t.delay]
       IN /\ cancelled' = IF ~t.every THEN cancelled
                          ELSE IF timers = {} THEN {} ELSE cancelled \ {t.id}
          /\ IF t.every /\ ~hit
             THEN timers' = timers \cup {next} /\ arrival' = Append(arrival, t.id)
             ELSE UNCHANGED <<timers, arrival>>
    /\ ContinueAs([Top EXCEPT !.at = "pick", !.t = NoTimer])
    /\ UNCHANGED <<now, nextId, cleared, work, due, evals>>

-----------------------------------------------------------------------------
(* What user code calls *)

(* Mutant of SetTimer: next_timer_id is not advanced for an interval. *)
SetTimerSameId(delay, every) ==
    /\ Calls(IF every THEN "interval" ELSE "timeout")
    /\ nextId <= MaxTimers
    /\ timers' = timers \cup {[id |-> nextId, deadline |-> now + delay,
                              delay |-> IF every THEN delay ELSE 0, every |-> every]}
    /\ arrival' = Append(arrival, nextId)
    /\ nextId' = IF every THEN nextId ELSE nextId + 1
    /\ UNCHANGED <<now, cancelled, cleared, work, due, stack, evals>>

SetTimer(delay, every) ==
    /\ Calls(IF every THEN "interval" ELSE "timeout")
    /\ nextId <= MaxTimers
    /\ timers' = timers \cup {[id |-> nextId, deadline |-> now + delay,
                              delay |-> IF every THEN delay ELSE 0, every |-> every]}
    /\ arrival' = Append(arrival, nextId)
    /\ nextId' = nextId + 1
    /\ UNCHANGED <<now, cancelled, cleared, work, due, stack, evals>>

(* clear_timer remembers every id it is given. *)
ClearTimer(id) ==
    /\ \/ Calls("clear") /\ id < nextId
       \/ Calls("clearUnset")
    /\ cancelled' = cancelled \cup {id}
    /\ cleared' = IF id < nextId THEN cleared \cup {id} ELSE cleared
    /\ UNCHANGED <<now, nextId, timers, arrival, work, due, stack, evals>>

QueueJob ==
    /\ Calls("job")
    /\ made < MaxJobs
    /\ jobs' = jobs + 1
    /\ made' = made + 1
    /\ UNCHANGED <<timing, due, stack, evals>>

(* gc_pressure or the nursery reaches its threshold *)
Allocate ==
    /\ Calls("allocate")
    /\ due' = TRUE
    /\ UNCHANGED <<timing, work, stack, evals>>

EngineStep ==
    \/ FinishScript \/ StartPump \/ FinishEval
    \/ RunJob \/ HitJobLimit \/ DrainDone
    \/ PumpEmpty \/ HitTimerLimit \/ Checkpoint \/ Reschedule
    \/ \E t \in timers : SkipCancelled(t) \/ FireTimer(t)

UserStep ==
    \/ \E d \in Delays, every \in BOOLEAN : SetTimer(d, every)
    \/ \E id \in 1 .. MaxTimers : ClearTimer(id)
    \/ QueueJob
    \/ Allocate

Next == StartEval \/ EngineStep \/ CallbackReturns \/ UserStep

Spec == Init /\ [][Next]_vars

(* The thread keeps running, and user code it called returns. *)
FairSpec == Spec /\ WF_vars(EngineStep) /\ WF_vars(CallbackReturns)

-----------------------------------------------------------------------------
(* Properties *)

(* The clock never passes a timer: each fires exactly at the time it was   *)
(* set for, however the pumps, the intervals and timers set from callbacks *)
(* interleave (drain_timers advances the clock to the earliest deadline    *)
(* and set_timer adds to the clock).                                       *)
NeverOverdue == \A t \in timers : t.deadline >= now

(* An id names one timer: no two entries of the heap share one, and an     *)
(* interval in flight is not in the heap as well, so that clearing an id   *)
(* clears the timer and a timer never runs twice per period.               *)
InFlight == {i \in DOMAIN stack : stack[i].k = "pump" /\ stack[i].at # "pick"}
UniqueIds ==
    /\ \A t, u \in timers : t.id = u.id => t = u
    /\ \A i \in InFlight : \A t \in timers : t.id # stack[i].t.id
    /\ \A i, j \in InFlight : stack[i].t.id = stack[j].t.id => i = j

(* A timer callback starts only when the job queue is empty: microtasks    *)
(* run before the next task (drain_timers' checkpoint).                    *)
MicrotasksFirst ==
    [][\A t \in timers : FireTimer(t) => jobs = 0]_vars

(* A timer that was cleared never fires again, whether it was waiting in   *)
(* the heap or was in flight as an interval (clear_timer: "the repeat must *)
(* still not reschedule").                                                 *)
ClearedStaysClear ==
    [][\A t \in timers : FireTimer(t) => t.id \notin cleared]_vars

(* Timeouts with equal deadlines fire in the order they were queued        *)
(* (drain_timers: "ties broken by smallest id = FIFO"), whatever was       *)
(* cleared, fired or queued in between.  Not so intervals: one that is     *)
(* queued again keeps its id, and overtakes timers queued before.          *)
Position(id) == CHOOSE i \in DOMAIN arrival : arrival[i] = id
FifoTimeouts ==
    [][\A t, u \in timers :
          FireTimer(t) /\ u # t /\ u.deadline = t.deadline /\ ~t.every /\ ~u.every
              => Position(t.id) < Position(u.id)]_vars

(* Every evaluation returns to its host, even with a setInterval(f, 0) and *)
(* pumps inside pumps: the cap of the pump ends it if the callbacks return *)
(* (for jobs that queue jobs, see EvalReturns of Promises).                *)
EvalReturns == stack # <<>> ~> stack = <<>>
-----------------------------------------------------------------------------
(* The inductive invariant behind the properties (proved in EventLoopProofs) *)

(* Which call a frame may have on top of it *)
Allowed(f, g) ==
    \/ f.k = "eval" /\ f.at = "script" /\ g.k = "eval"
    \/ f.k = "eval" /\ f.at = "drain" /\ g.k = "drain"
    \/ f.k = "eval" /\ f.at = "pump" /\ g.k = "pump"
    \/ f.k = "drain" /\ g.k = "job"
    \/ f.k = "pump" /\ f.at = "checkpoint" /\ g.k = "callback"
    \/ f.k = "pump" /\ f.at = "again" /\ g.k = "drain"
    \/ f.k \in {"job", "callback"} /\ g.k = "eval"
WellNested ==
    /\ stack # <<>> => stack[1].k = "eval"
    /\ \A i \in DOMAIN stack : i > 1 => Allowed(stack[i - 1], stack[i])

(* Every id in use has been given out. *)
IdsGiven ==
    /\ \A t \in timers : t.id < nextId
    /\ \A i \in InFlight : stack[i].t.id < nextId

(* The jobs a drain has run and those still queued were all queued once,   *)
(* so a drain that stops before its cap stops at an empty queue; and then  *)
(* the frame below it finds the queue empty.                               *)
JobsCounted == \A i \in DOMAIN stack : stack[i].k = "drain" => stack[i].n + jobs <= made
AfterDrain == InAt("eval", "drain") \/ InAt("pump", "again") \/ InAt("pump", "pick")
CapUnreached == MaxJobs <= JobLimit
QueueEmptied == CapUnreached /\ AfterDrain => jobs = 0

LoopInv ==
    /\ TypeOK
    /\ NeverOverdue
    /\ UniqueIds
    /\ IdsGiven
    /\ WellNested
    /\ jobs <= made /\ made <= MaxJobs
    /\ JobsCounted
    /\ QueueEmptied
=============================================================================
