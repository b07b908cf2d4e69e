# Tengin: a verification project

Tengin is a tree-walking JavaScript engine in Rust: one thread, one `Engine`
value, no I/O. A host calls `Engine::eval`; the engine runs the program, then
its promise jobs, then its timers on a virtual clock, and returns. What is hard
in it is not parallelism but re-entrancy: user code runs inside the engine's
loops and calls back into the functions that own those loops' state.

This directory holds TLA+ modules translated from the Rust sources, TLC
configurations that check them on small instances, and proofs for every value
of the constants that TLAPS checks.

## Inventory

| Part | Source | State it keeps | Operations | Hard because |
|---|---|---|---|---|
| Promise core | `interpreter/jobs.rs`, `builtins/promise.rs`, `value.rs` | promise states and reactions, resolver pairs with a shared flag, unhandled list | new, then, finally, resolve, reject, resolver calls, settling | resolvers are called in any order and twice; a `Forward` settles in the middle of another promise's cascade; throw paths bypass the flag |
| Job queue | `interpreter/jobs.rs` | `job_queue` | enqueue, `drain_jobs`, `run_job` | jobs enqueue jobs; `eval` in a job drains the queue again |
| async/await | `interpreter/exec.rs`, `interpreter/jobs.rs` | suspended continuations, the async stack | call, `await`, resume | the settlement is read before the suspension and used after |
| Timers | `builtins/timers.rs`, `interpreter/jobs.rs` | heap, `cancelled_timers`, `now_ms`, `next_timer_id` | set, clear, pump, reschedule | lazy cancellation, a timer in flight is in no collection, nested pumps |
| Evaluation | `interpreter.rs`, `builtins/global.rs` | `eval_depth`, `strict` | `eval_program`, global `eval` | who drains, pumps and collects when evaluations nest |
| Promise combinators, custom capabilities | `builtins/promise.rs`, `interpreter/jobs.rs` | countdowns, capability records | all, allSettled, any, race, species | elements settle in any order, some before the loop ends |
| Garbage collector | `interpreter/gc.rs` | weak registries, generations | mark, sweep, promote | values only the Rust stack or a continuation holds |
| Statements, expressions | `interpreter/exec.rs` | completion signals, continuations | run, unwind, suspend | `await` inside loops, `try` and operands |
| Environments | `environment.rs` | scopes | declare, read, assign | temporal dead zone, captured loop variables |
| Objects, properties | `interpreter/object.rs`, `builtins/object.rs`, `value.rs` | properties, prototypes, flags | get, set, define, delete, freeze | accessors run user code; invariants of frozen objects |
| Map, Set, weak collections | `builtins/collections.rs` | entries vector and hash index | get, set, delete, iterate | the index is a cache of the vector; callbacks change what is iterated |
| Arrays | `builtins/array.rs` | elements, holes | mutators, iteration | callbacks change what is iterated |
| Generators | `builtins/generator.rs`, `interpreter/exec.rs` | yielded values, position, the engine's `yield_sink` | next, return, throw, yield | the first `next` runs the whole body, which may drive other generators |
| Conversions, operators | `value/convert.rs`, `interpreter/ops.rs` | none | coercion, equality | corner cases |
| BigInt | `builtins/bigint_num.rs`, `builtins/bigint.rs`, `interpreter/exec.rs` | none but the text | operators, `asIntN`, `asUintN`, printing | carries, borrows and chunks at limb boundaries |
| Strings, RegExp, Number, Math, JSON, Symbol, Error, Boolean | `builtins/*.rs` | none of interest | pure functions on text and floats | data, not control |
| Parser, AST | `parser/*.rs`, `ast.rs` | none | translate the Oxc tree | size |
| CLI, test262 runner | `tengin-cli`, `tengin-test262` | none | I/O | |

Interaction: `eval_program` calls `exec_stmts`, then `drain_jobs`, then
`drain_timers`, then the collector. `drain_timers` calls user callbacks and
`drain_jobs`. `run_job` calls user functions, which call the promise functions,
the timer functions, and the global `eval`, that is `eval_program` again. All
of it shares the engine's `RefCell` fields; there is no other communication.

What makes each part correct: a promise is settled once and by its one owner,
reactions run in order and none is forgotten, rejections nobody handles reach
the host and no others do; timers fire in time order, in queueing order within
a time, once per period, never after being cleared, with no job waiting;
evaluations return and leave no job behind but at the limit of a drain; collections
free what nobody can reach, and take nothing that can be traced from their roots.

## Modules

**Promises** models promises, jobs, async functions and the programs that use
them. `state`, `reactions` and `alloc` are the promises, `queue` is `job_queue`,
`pairs` are the resolver pairs with their `resolved` flag, `unhandled` is the
list of the same name, `frames` is the Rust call stack: which function of the
engine called the user code that runs now, and which promise its completion
settles. A step is one call of user code into the engine (`Then`,
`CallResolve`, `AwaitPromise`, ...), one return or throw of user code
(`ReturnValue`, `ThrowRejects`, ...), or one step of the engine (`RunHandler`,
`FinishEval`, ...). What user code may call next is any operation on any value
it can name (`Exposed` leaves out the promises it cannot).

`drain_jobs` counts the jobs it runs: `steps` has the count of each running drain. A
drain ends when it finds the queue empty (`EndDrain`) or when it has popped one job more
than its limit, 10,000,000 in the code and `JobLimit` here (`HitJobLimit`): that job is
dropped unrun, the others stay in the queue, and the host gets control with them. The
ghost `lost` keeps the dropped jobs, since the promises they were to settle stay pending.

One function in the code is not one step: settling a promise enqueues its
reactions one by one, and a `Forward` reaction settles another promise in the
middle. `firing` holds what is left of that cascade and `FireReaction` takes
one reaction of it; nothing else may happen until it is empty. `Forward` nests
depth-first, so its target's reactions go in front of the rest.

Values are promises, a plain value, an object with a callable `then`, an object
whose `then` getter throws, and the engine's own `TypeError`. Handlers are
present or absent; what they do is free.

**PromiseSpec** is what the promise core promises, without its machinery: each promise
has a `fate` (unmade, open, waiting for another one and for what, about to assimilate a
thenable, about to finish a finally callback, settled), and `running` are the promises
whose executor or thenable's `then` has not returned. User code makes, resolves, rejects
and derives; the engine calls a handler, passes a settlement on, resumes an async function
when the promise waited for has settled, and with its settlement. A promise that follows
another one settles with it before anything else happens (`Prompt`, `Follow`). What
the code does with a throw of an executor is an action too (`Override`): it rejects the
promise, whatever that follows. `Promises` implements it (`Promised`): the fate of a pending
promise is what the one reaction, job, pair or frame that will settle it makes of it
(`Fate`), and there are no queue, flags and call stack left. The promise of a job that a
drain dropped waits for ever.

**EventLoop** models `eval_program`, `drain_jobs`, `drain_timers`, the timers and
the moment of collection. There a job is a call of user code and `jobs` counts
the queue. `stack` holds the frames of the engine's own loops with their program
points and counters, so that an `eval` in a callback runs its drain and pump on
top of the suspended ones. The timer heap is a set and `Earliest` its order.
`due` says that enough was allocated for a collection.

**Combinators** models `Promise.all`, `allSettled`, `any` and `race` and custom
capabilities, over promises user code settles itself. `aggs` holds the shared state
of each call (`AllState`, `AllSettledState`, the holder object of `any`), `call` is
"attach" while a call goes through its elements, `caps` holds the custom capabilities
and how they were called, and `firing` is the same cascade as in Promises: here all
elements but those of `race` act inside it, so that an aggregate that is an element
of another settles in the middle of the cascade. Of the promise core it repeats only
`Settle` and `Attach`, whose rules are checked and proved in Promises.

**Heap** models the memory and its collector. A cell is an address with a kind and the
references it makes (`mem.edges`, each with the slot it is kept in, and the entries of
weak maps); what else is in it does not matter. `Held` is what keeps cells from
outside: `globals` (global scope, jobs, timers, the unhandled list: the engine's
roots), `locals` (what the Rust stack holds for running user code, which are no roots)
and `result` (the value of the last program, in the hands of the host). User code creates
cells, makes and erases references, settles promises, changes weak maps and takes values
onto its stack, on any cell it can get at; every step then drops what no reference count
keeps (`Leave`). Most cells are registered when they are created; native functions made at
run time, such as the resolvers of a promise, never are, and arrays and objects that
built-ins make may not be (`Births`). `Collect` is `collect_kind` with `sweep`: mark over
the slots in `Followed`, sever the slots in `Severed` of objects, arrays and functions,
prune weak maps, sever promises and scopes, promote and count. It runs where
`eval_program` calls it, whose value is then a root (`FinishEval`); in the `eval` of a job,
which takes itself for the top level and whose value is the only one of the stack that is a
root (`FinishEvalInJob`); and where the host calls `collect_garbage` or `collect_minor`,
which pass no value, so that a result the host still holds is no root (`HostCollect`).
`Alive` is a largest set because a cycle keeps itself alive under reference counting,
`Usable` and `Marked` are smallest sets. `collected` is a ghost.

**HeapSpec** is what the memory promises, with no marks, counts and generations: an
operation of the program changes what one cell refers to, a step without a collection only
lets go of cells, and a collection spares what it can trace from the engine's roots and the
value just returned, which is all that is held when the outermost program returns (`Safe`).
`Heap` implements it (`Promised`, with `roots <- globals`, `held <- Held` and
`seen <- Seen(mem, Held)`, the part of the graph a program can get at). **Memory** holds the
graph both speak of, and `Missed`, the slots the code does not follow: `Traced` is what can
be got at without them.

**Evaluator** is the tree walk of `exec.rs`, for one async function. An `await` in the
code unwinds the whole Rust recursion with `Error::Suspend`; each level on the way out
adds a closure with the rest of its work, and `chain_value`, `chain_stmts` and
`chain_outcome` say which outcomes that closure sees. Here a closure is a frame, a
record that names the rest and holds what it captured, and `Apply(f, r)` is what calling
it does. `Eval`, `Exec`, `Run`, `Match` and `Invoke` stand for calls of `eval_expr`,
`eval_stmt`, `exec_stmts`, `bind_pattern` and `call_function`; the operators with those
names are their bodies. A program is a syntax tree of records. There are two actions:
`Call` runs the function to its first suspension, `Resume(s)` goes on with any
settlement `s`. `store.declared` is a ghost: what `const` declared each name with. The abstract semantics needs no second evaluator: `Direct` runs the same
function with the settlements handed over in advance (`store.future`), so that no `await`
ever suspends and no frame is built, and Transparent says that the result is the same.
**Scopes** is `environment.rs` with hoisting: `envs` is the arena of scopes.

**Objects** models the property operations of `object.rs` and `builtins/object.rs` on
holders, which are values of any kind with properties. `props` and `proto` are their
properties and prototypes. `stack` holds the calls that have not returned: accessors,
which are user code that may do any operation on any holder, and the loops of
`Object.assign` and `defineProperties`; each frame has the holders it keeps borrowed.
`status` says that a `RefCell` was written while borrowed ("panicked") or that a lookup
follows a cycle of prototypes ("hung"); either ends the run. `declared` and the frames'
`seen` are ghosts.

**Collections** models `MapData`, `SetData` and the weak ones: `data` has the vector of
entries and the hash index over it, `items` is what the constructor has still to add,
`iterators` are positions in the vector, `loops` the calls of `forEach` that have not
returned. **Arrays** models `ArrayData`: `elems` is the dense vector, `sparse` the values
beyond it, `length` the explicit length; `calls` are the methods that wait for a callback,
with the copy of the elements they work on, and the callback may do anything to the array
meanwhile. `Visit` with a callback that keeps an element or not stands for all methods that
go through a copy; `Compare` is one call of the comparator of `sort`, honest or not. Without a comparator the
code calls Rust's `sort_by`, which `SortDefault` takes at its word: a stable, sorted
arrangement.

**Generators** is the eager generators of `generator.rs`: `gens` are the three properties
the engine keeps on a generator object, `bodies` the bodies that run inside one another,
each with the sink it collects in and the sink it puts back, `sink` is `yield_sink`.
`given`, `owed` and `disturbed` are ghosts. **BigInts** is the arithmetic: a value is a
sign and digits (the code's text), and every operator parses its operands into limbs of `W`
bits, computes on the limbs and prints. `op` and `arg` are the operator about to run.

**PromisesProofs**, **CombinatorsProofs**, **EventLoopProofs**, **HeapProofs**,
**ObjectsProofs**, **CollectionsProofs**, **ArraysProofs** and **GeneratorsProofs** hold
the theorems; the modules **MC...** give the constants their values for TLC; MCBuiltins puts the four small machines of `builtins/` into one run, of
which a behaviour uses one. Ghost
variables record what the code does not (who listens, what the host was given, the
order timers were queued and promises settled in, which clears met an existing
timer); no action reads them in a guard, but for `listened`, which bounds how many
handlers user code attaches. Definitions commented as mutants are wrong variants of
the definition after them; they are used by no specification, and each makes a
property fail.

## Runs

Passing:

| Run | Properties | Shows |
|---|---|---|
| Callbacks | TypeOK, SettledClean, OneOwner, HandledNotReported, UnhandledComplete, HandlersInOrder, KeepsPromises, LockedIn | all interleavings of constructors, handlers, resolver calls, async functions, `finally` with its internal promise, and jobs |
| Jobs | DrainedForHost, JobsRun, EvalReturns | jobs that queue jobs without end and call `eval`, with drains that meet their limit: each handler before the limit is started, none is left for the host but by a drain at its limit, and every program returns |
| Combine | TypeOK, AggregateSound, FirstSourceWins, UnhandledExact, CustomOnce | two calls of combinators or a species `then`, nested or side by side |
| Timers | TypeOK, ClearedStaysClear, FifoTimeouts | timeouts, intervals and clears over two evaluations, with a drain that meets its cap |
| NestedEval | NeverOverdue, UniqueIds, MicrotasksFirst, EvalReturns | pumps inside pumps with intervals, a job and allocation |
| Collector | TypeOK, NurseryExact, KeepsReachable, NothingLeaks | any references among functions, natives that are not registered, scopes, promises and weak maps, over any number of evaluations and collections of both kinds, in jobs and by a host that holds a result too |
| Evaluate | Transparent, ContextRestored, FinallyOnce, ConstantsKept | 2799 programs, every one with at most two awaits suspended, each fulfilled (truthy, falsy) or rejected; Transparent does not speak of 11 of them (`Lossy`), ConstantsKept of 4 (`Unguarded`) |
| Objects | HeldSteady, AttributesKept, LockedStays | every operation on three holders that may be each other's prototypes, with accessors that do any of them |
| Builtins | IndexExact, YieldsOnce, ReadableBelowLength, ResultsSound, OwnYields, OperatorsExact | collections under change by iterators' users and callbacks; arrays, dense and sparse; generators that drive one another; BigInts under every operator |

Each instance lets user code call a subset `Api` (`Kinds` in Combinators) of the
operations, so that the bounds can be large enough for the others.

Bounds. `MaxPromises`, `MaxPairs`, `MaxQueue` and `MaxDepth` limit what user
code allocates, queues and nests, never what the engine does with it. Three or
four promises give a source, its dependent and an adopting promise or wrapper;
two pairs let two resolvers race; a depth of four or five is a job that runs a
program or an executor within a drain within a program. Combinators has two
sources, which settle in either order before, between or after the calls, and two
calls with at most one and two elements: an aggregate inside an aggregate next to
the promise it depends on. A timer in flight, one it ties with and one that is
cleared need no more than the timers the cfgs allow; two delays (0 and 1) give
ties and order. `TimerLimit` and `JobLimit` stand for 1000 and 10,000,000. The drain
meets its cap in runs Callbacks and Jobs (`JobLimit = 2`), with jobs left behind the one it
drops, and in run Timers (`JobLimit = 1`); not in NestedEval, which has one job, since beyond
that cap MicrotasksFirst is not what the code promises. The pump meets its cap in both runs
of EventLoop. A plain value stands
for all, since the engine never looks at one; delays matter only by comparison. User code
throws and rejects with one of the `Reasons`: in Callbacks an object with a `then`, which
the engine must not assimilate.

Collector has two cells and three references at a time: a cell that refers to itself in
two ways, or a cycle with an entry of a weak map. One can be global and one on the Rust
stack. Cells die and their addresses are used again without bound. With the thresholds at
1, 2 and 1 (256, 4096 and 8 in the code) minor collections, major collections and
evaluations without one follow one another in every order; `MaxMinor` bounds the minor
collections the host asks for, of which the code takes any number. The cells are symmetric.
`CycleKinds` and `CycleSlots` leave out what the collector treats like something in them:
objects and arrays are natives, registered or not, a named property or an accessor is one
more slot it does not follow, like `suspended`, and a reason is a value. Chains and cycles
through more cells are left to the theorems, which hold for any number.

Evaluate takes fourteen fragments that await, return, throw, break or continue, puts
each inside every statement, that inside every statement again, and all of it in a
labelled loop; awaits in every operand of every expression, in pairs; patterns with
defaults, computed keys, holes and rests as declarations, parameters, targets and heads
of loops; and closures, hoisting, tail calls and constants around them. Two suspensions
are enough for one continuation to be attached to another; further awaits of a program
are not reached (`MaxAwaits`). The forms whose suspension the code gets wrong are among the programs, each
beside a neighbour that it gets right, and listed by name in `MCLossy` and `MCUnguarded`;
the others must satisfy the properties. Programs use numbers and a few objects, since what
operators compute does not matter to where they stop.

Objects has one property key: no rule relates two keys but the order of a loop. Two
suspended operations at a time are a getter inside a copy, or a setter inside a setter.
Builtins has three keys (an entry deleted before and after the one an iterator is at),
two iterators, two nested `forEach` and four entries ever made, so that a key comes back;
arrays of three elements with `DENSE_LIMIT` 2 and `SPARSE_GAP` 0 (2^20 and 1024 in the
code), so that an array of three may be dense, sparse or in between, and one method in a
callback of which one change is made, up to its return; three generators, whose bodies nest to three and
collect two values; and values of up to three limbs of four bits, with operands that have
a limb of 0, 1, 8 or 15, in ternary text (two digits to a chunk). The algorithms know the
32 bits and the radix 10 only as numbers with `DECIMAL < 2^W`; `MAX_EXP_BITS`,
`MAX_SHIFT_BITS` and `MAX_MASK` are 30, 32 and 2^26 in the code.

Deadlock is checked in the runs of Promises. The cfgs of EventLoop and
Combinators turn it off: `MaxEvals` and the numbers of calls stop an instance. Those
of Heap do too, for its host may stop calling the engine, those of Evaluator, whose
function ends, and those of Objects and Collections, where a panic ends the run.

Fairness. The engine is one thread that goes on executing, so its own steps are
weakly fair (`FireReaction` and `RunJob \/ EndDrain \/ HitJobLimit`; `EngineStep`). User code that the engine
called is assumed to return or throw; without that, `while (true);` in a callback
hangs any engine. In Promises this is strong fairness of `CompleteAt(depth)` for
each depth of the stack: whatever runs at that depth calls finitely many operations,
each of which may run code deeper in the stack first, and then completes. In
EventLoop `CallbackReturns` is weakly fair, because there the number of operations
is bounded. Nothing is assumed about which operations user code calls.

## What the violated runs show

| Run | Property, from the sources' comments | What the code does |
|---|---|---|
| LostDeclarations | Transparent: the continuation runs the rest of what suspended | `let x = await a, y = await b;` never binds `y`, and the statements after it are skipped |
| EvalInJob | OnlyGarbageSevered: a collection runs at a safe point | an `eval` in a job collects and empties an object that the job holds and that refers to itself |
| NegativeBits | BitwiseExact: bitwise operators work in two's complement | the limbs above those of a negative operand are 0, not its sign: in limbs of four bits `0 ^ -255` is 1, in the code `0n ^ -255n` is 4294967041n |

`PROJECT.json` quotes the lines. The passing runs speak of the rest: KeepsReachable, in run
Collector, excepts what only a job's stack holds when a collection runs; Transparent, in run
Evaluate, excepts the programs listed with `Lossy`, of which two declarations that await are
one; OperatorsExact, in run Builtins, leaves out bitwise operators with a negative operand.

## Where the code differs from JavaScript

Noted while modelling. Those marked (m) are what the modules do too, so that the
properties hold of the code as it is; the others lie outside what is modelled, or no run
makes the case happen.

Promises and timers
- An executor or thenable that resolves with a pending promise and then throws rejects
  (m; LockedIn excepts it). `await` on a rejected promise leaves it in the unhandled list
  (m). A nested pump forgets that an interval was cleared (m; run Timers has no nested
  pump). Clearing an id no timer has yet drops the timer that gets it later (m).
- A drain that has run 10,000,000 jobs drops the next one unrun, so a promise that waits for
  it is never settled, and returns to the host with the others queued (m).

Memory
- The comment at `gc.rs:189-191` counts the result of the last evaluation among the roots,
  and so does the one at `gc.rs:222-223`, but `collect_garbage` and `collect_minor` pass no
  value: a result the host still holds is emptied (m).
- Named properties of arrays, accessors of functions, natives and promises, and the scope in
  the continuation of a suspended function are not marked: what hangs on these alone is
  emptied (m; run Collector has the suspended scopes).
- Native functions made at run time and the arrays and objects of some built-ins
  (`Object.keys`, `bind`) are not registered, so they are never severed and cycles through
  them are never reclaimed: `new Promise(r => r(r))` leaks (m). So do two promises rejected
  with each other (Heap has the slot), and cells with named properties.

Evaluation
- `{a: await x}` evaluates to undefined (m: the frame of a property does not hand the
  object on). An await in an array pattern loses the elements after it, and one in the
  pattern of an assignment the value of the assignment (m). The second of two declarators in
  a list that await loses the rest, and so does one that awaits in its pattern (m).
- A `const` pattern that suspends never becomes constant, and assignment patterns do not
  ask for constants (both m).
- Bodies of `if`, `while`, `do` and `try` have no block scope (m). A round of
  `for (let ...)` works on a copy of the variables that is not copied back (m). Of two
  labels on one statement the outer is unknown to the loop. `finally` runs before the
  function that `return f()` in its `try` calls (m). An optional call with an await
  evaluates its base twice, whether the await suspends or not (m; Transparent compares the
  two, and so does not object). `catch` with a destructuring pattern binds the name "".

Objects
- `defineProperty` without a value resets a read-only property that is locked (m;
  LockedStays speaks of the rest). `freeze` does nothing while `isFrozen` is true.
  Inherited setters are ignored (m). A cyclic prototype chain hangs a lookup (m), a getter
  that writes to its holder panics (m), and so does `Object.assign(o, o)` (m), which also
  copies an accessor as undefined (m). Promises ignore the attributes of properties (m).

Arrays and collections
- Sparse values are hidden when the dense part grows past them and come back after a
  `pop`; `push` on a sparse array uses the dense length (m). `sort` passes over sparse values
  (m), so that undefined comes before them, though the source says that it always sorts to
  the end of the array (`array.rs:202`). `slice(2, 1)` and `splice` with
  one argument panic, and `splice(1, Infinity)` overflows.
- An iterator that was exhausted goes on when something is added (m), and skips entries
  after deletions before it (m). A WeakMap constructed from duplicates keeps the first value
  (m). Changing a collection in its own `forEach` panics (m).

Generators and BigInts
- The body runs to its end at the first `next`, and what it throws is dropped. A `next` from
  inside runs it again (m), though the source says it runs exactly once, and a `return` or
  `throw` from inside is undone when the body ends (m); OwnYields excepts such generators.
- A Number that is not whole counts as less than its floor: `1.5 < 1n` (m), though the source
  says that the comparison is exact; OperatorsExact excepts it. A negative shift count is
  taken as 0 (m), as a comment there says.

Passing properties that leave cases out, and where the case is run all the same:

- Transparent leaves out the 11 programs of `Lossy`, ConstantsKept the 4 of `Unguarded`; each
  of them violates the property, and the comments there name the forms.
- ResultsSound speaks of the dense vector of a sorted array, and of the whole array only if
  nothing in it is sparse.
- KeepsReachable excepts what hangs on a slot in `Missed` alone, and what only a job's
  stack or the host holds when a collection runs. NothingLeaks excepts what hangs on a cell that no
  collection severs (`Stuck`).
- OneOwner and JobsRun allow for the one job a drain drops at its limit, DrainedForHost for
  what it leaves.
- FirstSourceWins is about elements that are not aggregates themselves: an aggregate settles
  depth first, in the middle of the cascade of the promise that settled it, and so can
  overtake it.
- FifoTimeouts is about timers that are not intervals: a rescheduled interval keeps its id
  and goes before timers of the same time that were queued earlier.

## Proofs

`PromisesProofs`: `Spec => []IInv`, and from it type correctness, SettledClean,
HandledNotReported, UnhandledComplete and SettledForGood. The assumptions are
those on the constants in Promises. SettledClean is not inductive alone: a
reaction in the cascade or in the queue could carry a settlement that fulfils
with a promise, or name a promise not yet allocated. `IInv` therefore says

- `Store`: whatever is in `reactions`, `firing` and `queue` names allocated
  promises and carries clean settlements, unallocated promises are pending and
  bare, and pairs name allocated promises;
- `Heard`: what the ghost `listener` says agrees with the reactions a promise
  has, with the unhandled list and with what was reported;
- the shape of the frames and the type of the rest.

Every action is shown to preserve the three parts, with `SettleStep`,
`ResolveStep` and `PushStep` as the lemmas about the internal operations that the actions
share; `Keeps` (no settlement changes) is carried along, and gives SettlingIsFinal, which no run
checks by itself, as KeepsPromises contains it.

OneOwner is `OwnInv` beside `IInv`: the owners of a promise are counted, in its
reactions, the cascade, the queue, the pairs, the frames and the dropped jobs, each with a count of its own
(the `Count...` and `Total...` lemmas say how one step changes it). Every step that settles a promise takes its
owner away and every other one hands it on (`NextPass`: `Handover`, `Consumes`). LockedIn
follows: a promise that follows another has its owner in that one's reactions, so nothing
else can settle it. HandlersInOrder needs `OrdInv`, that the queue, then the cascade, then
the reactions of a pending promise are one line in order of attachment; a drain at its limit
takes the first off the line (`HitLimitLine`). DrainedForHost needs that the bottom frame is
a program or a drain (`Grounded`), and that each running drain has one count, which is at
most the limit (`Tallied`).

`Spec => KeepsPromises` (`ImplementsPromiseSpec`) is the refinement. Its mapping chooses
the fate of a pending promise from whatever claims it, and `OwnInv` makes the choice
harmless: there is one owner, so one claim (`OneClaim`). A step that leaves the claims on a
promise alone leaves its fate alone (`FateElsewhere`), and most lemmas say which claims a
step leaves (`KeepsWaiting`, `KeepsRunning`, `KeepsPairs`). The engine's steps need one
invariant more, `SrcInv`: a job carries the settlement of the promise its reaction hung
on, which is settled, and only the job of a thenable and a microtask hang on none; no
`forward` reaction is ever a job. So a handler that is called, a settlement that is passed
on and a function that resumes find in their job what PromiseSpec finds in the other
promise. Each action is then one of PromiseSpec's or a stutter (one lemma `...Fates` for
each, with `As...` for the action it becomes); when no cascade runs, nothing that follows a
settled promise is left (`PromptNow`), since settling empties the list of reactions. A drain at
its limit changes no fate (`HitLimitFates`): the job it drops still claims its promise, and is
no `forward` (`LostInv`).

`CombinatorsProofs` goes in four levels, each inductive beside the one before.
`Base`: the types, the ledger (a pending promise was listened to exactly if it has
reactions), the shape of the calls, and what every reaction hangs on; UnhandledExact is
part of it. `Tokens`: every reaction is in one place once (`Once`), and a capability that was
not called waits for exactly one thing (`CapInv`); from this CustomOnce. `Whole` adds
`Sound`: as long as a call counts, its countdown is the number of its open elements, those
not attached yet or whose reaction is still somewhere, and the values of the others are
at their indices; it ends counting by an element that decides or with no element open.
From this TypeOK and AggregateSound (at the end of a cascade an open element is
pending). The arrays of results are typed although `FlattenSeq` is recursive, by looking at
the least place that is not. `Lasting` is for FirstSourceWins. `Timely`: the elements in a
cascade are the one attached last or one and the same source, which settled after their
calls, so the head of the cascade came no later than any open element. `Ranked`: a decided
call has the result of an element that came no later than any that decides (`Earliest`),
the jobs of a race are in the order the elements came (`Line`) and the open elements come
behind them (`Behind`). Elements that came at the same time are the same promise, so it
does not matter which of them the property picks.

`EventLoopProofs`: `Spec => []LoopInv`, from it type correctness, NeverOverdue,
UniqueIds, and MicrotasksFirst under `CapUnreached` (no instance can queue as
many jobs as the cap: beyond it a drain leaves jobs behind).
`LoopInv` needs the shape of the stack: MicrotasksFirst says that no job is
waiting when a pump picks a timer, and this survives a nested evaluation only
because that evaluation drains too before it returns to the pump (`WellNested`,
`QueueEmptied`), and a drain cannot meet its cap (`JobsCounted`). UniqueIds needs
the timers in flight, which are on the stack and not in the heap. FifoTimeouts adds
`Arrived`: the ids in order of arrival are those of the heap, once each, and those of
timeouts ascend; `HeapMoves` says that a step takes one timer out, or puts one in that is
new or an interval, and changes nothing else of the two. ClearedStaysClear is proved under
`NoNesting`, that user code does not call eval, as run Timers has it: with a nested pump the
property fails (see above). `Spared` says that an id that was cleared and then
forgotten belongs to no timer, in the heap or in flight. Ids are forgotten one by one
as their timers are met, and all at once when a pump finds the heap empty; then no interval
may be in flight further down, and with one evaluation at the bottom of the stack there is
only one pump (`OnePump`).

`HeapProofs` assumes nothing of what user code refers to. `Spec => []NurseryExact`, with
`NurseryInv`: a collection looks at every young cell once, whether dead or alive, and leaves
none, and a cell that is not registered is not counted.
`Spec => []TypeOK` says that no reference and no root dangles. `HeapInv` adds the nursery
count, which has to be exact for the counters to stay within their types, and `HostIdle` that
the Rust stack is empty while the host runs; `DropTypes` shows that what the reference counts
keep refers only to what they keep. `EngineShape` sorts the engine's steps in two: those that
only hold other cells than before (`Regrasps`) and those that collect (`Collects`).

`Spec => KeepsReachable` (`ImplementsHeapSpec`) is the refinement: every step of Heap is a
step of HeapSpec or a stutter. What can be traced is marked (`TracedMarked`; more is marked,
since weak map values are followed without their keys), so nothing of it is severed, and what
can be traced is alive (`TracedAlive`) in the graph as it is after each of severing, dropping,
pruning, dropping, severing, although each of these is computed from the graph the one before
it left: every one of them leaves the traced part whole (`Intact`, `CollectSpares`), whatever
happens to the rest. A graph that is whole over what can be reached from some cells looks the
same from them (`PartLooksTheSame`); so the steps without a collection only let go
(`LeaveMove`), a collection takes only references (`CollectMove`), and an operation of the
program changes one cell although it may make others fall (`ProgramMove`). A new cell needs
that no weak map entry has its address as a key, which is the guard of `FreeCells`.

`Spec => NothingLeaks` (`MajorCollectionsReclaim`): `LeakInv` says where references may go
(`Aimed`). A cell that a major collection leaves although it could not be reached before, and
that does not hang on a cell no collection severs, would be held by another such cell
(`LostBefore`), through what severing leaves: as the scope of a function or the value of a
promise. A scope is neither a function nor a promise and the value of a promise is no
promise, so three steps back there is nobody (`NoneLost`). A cell that is not registered, or not any
more, is among those: it refers to others as no more than its scope or value, or it is `Stuck`.

`ObjectsProofs`: `Spec => []IInv`, and from it type correctness, HeldSteady,
AttributesKept and LockedStays, for any number of holders, keys, functions and depth.
`IInv` adds `StackGood` to type correctness: every suspended frame has seen of each
holder it borrowed what the holder is now, and a loop has one source. A write preserves it
because a holder somebody has borrowed is not written (`WriteKeeps`, `SetKeeps`,
`DefineKeeps` follow the operations down to it); the code's `RefCell` panics there, which
is the case the models end at.

`CollectionsProofs`: `Spec => []IInv`, and from it type correctness, IndexExact and
YieldsOnce. IndexExact is inductive only with one entry per key; YieldsOnce needs that the
entries are in order of making (`Put` appends) and that no entry from an iterator's
position on is older than what it yielded, which a deletion keeps although it moves the
entries after it.

`ArraysProofs`: `ArraysSpec => []AInv`, and from it ReadableBelowLength and ResultsSound,
for any values, orders, limits and bounds. ReadableBelowLength needs that sparse indexes are
below the length; only the dense vector may pass it, and then its own length counts.
ResultsSound needs `GoodCalls`, what the calls that have not returned made so far: a
filter's output is in the order of its copy, and a sort's is an arrangement of the defined
values of its copy, which a swap of neighbours keeps stable as long as their ranks differ
(`SwappedArranged`), and of which the first `i` are in order but for the one being inserted
(`Inserting`). At the end the padding is as long as there are places of Undefined in the
copy (`UndefinedPlaces`, by cardinalities). With nothing sparse, get_index reads the vector up to
its length and nothing behind it, so Undefined is last there if it is in the vector (`LastFromVector`). What `DefinedOf` computes, place by place, is
proved by its least counterexample (`LeastNat`), as the theorems of induction are out of
reach here.

`GeneratorsProofs`: `Spec => []GInv`, and from it type correctness and OwnYields, for any
number of generators, values and nested bodies. OwnYields needs `Nested`: the sink is that
of the innermost body, and each body puts back that of the one around it. Then what a body
yields goes to its own sink (`Collects`), also after a body it drove has ended, and its
end makes exactly these the generator's values (`BodyEndsKeeps`).

Only model-checked: the properties of Evaluator (Transparent, ContextRestored, FinallyOnce,
ConstantsKept), whose evaluator is a recursive operator; OperatorsExact, which rests on the recursive
operators on digits and bits; and JobsRun and EvalReturns, which are liveness under fairness.
The other properties of passing runs are all theorems; MicrotasksFirst and ClearedStaysClear
under the assumptions named above, which the constants of their runs satisfy, the others
under none but those on the constants in the modules.

## Not modelled

The components marked `not_modelled` in PROJECT.json, with reasons. Of the
modelled ones: a `then` getter that calls back into the engine (it returns or
throws here), how a custom constructor hands its functions over and what happens
when they throw, elements of `race` that have a `then` method, wrap-around of timer
ids and deadlines at 2^64, and the arguments and results of user functions beyond
the values above. In Heap, maps and sets are objects, weak sets are weak maps and
prototypes are fields; what is alive because the natives and prototypes that were made with
the engine refer to it counts as global. In Evaluator, methods and accessors in object
literals, classes, `new`, `super`, tagged templates, `yield` and unary operators; its natives
are `log` and `push`. In Objects, symbols, the lookup of constructors, the functions that
only list properties, and what a getter throws. In Arrays, the functions that only read.
The remaining components are pure functions on text, digits and floats, or I/O.

## Plan

Not done yet, in order of use:

1. The forms of expressions Evaluator leaves out.
2. `Coercions`: the conversions against reference definitions over bounded inputs.
