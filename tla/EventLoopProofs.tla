--------------------------- MODULE EventLoopProofs ---------------------------
(* Machine-checked proofs about EventLoop, for every value of its constants. *)
EXTENDS EventLoop, SequenceTheorems, TLAPS

-----------------------------------------------------------------------------
(* The part of the invariant that is about the stack, for any stack s, any *)
(* number j of queued and m of made jobs, timers ts and next id n          *)

Last(s) == s[Len(s)]
Popped(s) == SubSeq(s, 1, Len(s) - 1)
Flying(f) == f.k = "pump" /\ f.at # "pick"

Fits(s, f) == IF s = <<>> THEN f.k = "eval" ELSE Allowed(Last(s), f)

StackOK(s, j, m, ts, n) ==
    /\ s \in Seq(Frame)
    /\ s # <<>> => s[1].k = "eval"
    /\ \A i \in 1 .. Len(s) : i > 1 => Allowed(s[i - 1], s[i])
    /\ \A i \in 1 .. Len(s) : s[i].k = "drain" => s[i].n + j <= m
    /\ \A i \in 1 .. Len(s) : Flying(s[i]) =>
          s[i].t.id < n /\ \A t \in ts : t.id # s[i].t.id
    /\ \A h, i \in 1 .. Len(s) :
          Flying(s[h]) /\ Flying(s[i]) /\ s[h].t.id = s[i].t.id => h = i

(* A return leaves a good stack, whose top was allowed to call the frame   *)
(* that returned.                                                          *)
LEMMA Pop ==
    ASSUME NEW s, NEW j \in Nat, NEW m \in Nat, NEW ts, NEW n \in Nat,
           StackOK(s, j, m, ts, n), s # <<>>
    PROVE  /\ StackOK(Popped(s), j, m, ts, n)
           /\ Fits(Popped(s), Last(s))
           /\ Last(s) \in Frame
           /\ Flying(Last(s)) =>
                 /\ Last(s).t.id < n
                 /\ \A t \in ts : t.id # Last(s).t.id
                 /\ \A i \in 1 .. Len(Popped(s)) :
                       Flying(Popped(s)[i]) => Popped(s)[i].t.id # Last(s).t.id
           /\ Last(s).k = "drain" => Last(s).n + j <= m
<1> DEFINE u == Popped(s)
<1>0. s \in Seq(Frame)
    BY DEF StackOK
<1>1. s \in Seq(Frame) /\ Len(s) \in Nat /\ Len(s) >= 1
    BY <1>0
<1>2. u \in Seq(Frame) /\ Len(u) = Len(s) - 1 /\ \A i \in 1 .. Len(u) : u[i] = s[i]
    <2>1. u \in Seq(Frame)
        BY <1>1 DEF Popped
    <2>2. Len(u) = Len(s) - 1
        <3>1. 1 \in Int /\ Len(s) - 1 \in Int
              /\ \A i \in 1 .. Len(s) - 1 : s[i] \in Frame
            BY <1>1
        <3>2. Len(u) = IF 1 <= Len(s) - 1 THEN Len(s) - 1 - 1 + 1 ELSE 0
            BY <3>1, SubSeqProperties DEF Popped
        <3>3. ASSUME NEW a \in Nat, a >= 1
              PROVE  (IF 1 <= a - 1 THEN a - 1 - 1 + 1 ELSE 0) = a - 1
            BY <3>3
        <3> QED BY <1>1, <3>2, <3>3
    <2>3. \A i \in 1 .. Len(u) : u[i] = s[i]
        BY <1>1, <2>2 DEF Popped
    <2> QED BY <2>1, <2>2, <2>3
<1>3. u # <<>> => Len(u) >= 1
    BY <1>2
<1>4. Last(s) \in Frame
    BY <1>1 DEF Last
<1> HIDE DEF u
<1>5. StackOK(u, j, m, ts, n)
    BY <1>1, <1>2, <1>3 DEF StackOK
<1>6. Fits(u, Last(s))
    <2>1. CASE u = <<>>
        <3>1. Len(s) = 1 /\ s[1].k = "eval"
            BY <2>1, <1>1, <1>2 DEF StackOK
        <3> QED BY <2>1, <3>1 DEF Fits, Last
    <2>2. CASE u # <<>>
        <3>1. Len(u) = Len(s) - 1 /\ Len(s) > 1 /\ u[Len(u)] = s[Len(s) - 1]
            BY <2>2, <1>1, <1>2, <1>3
        <3>2. Allowed(s[Len(s) - 1], s[Len(s)])
            BY <3>1, <1>1 DEF StackOK
        <3> QED BY <2>2, <3>1, <3>2 DEF Fits, Last
    <2> QED BY <2>1, <2>2
<1>7. Flying(Last(s)) =>
         /\ Last(s).t.id < n
         /\ \A t \in ts : t.id # Last(s).t.id
         /\ \A i \in 1 .. Len(u) : Flying(u[i]) => u[i].t.id # Last(s).t.id
    BY <1>1, <1>2 DEF StackOK, Last
<1>8. Last(s).k = "drain" => Last(s).n + j <= m
    BY <1>1 DEF StackOK, Last
<1> QED BY <1>4, <1>5, <1>6, <1>7, <1>8 DEF u

(* What a frame put on a good stack must satisfy *)
Clear(s, f, ts, n) ==
    Flying(f) =>
        /\ f.t.id < n
        /\ \A t \in ts : t.id # f.t.id
        /\ \A i \in 1 .. Len(s) : Flying(s[i]) => s[i].t.id # f.t.id
MayPush(s, f, j, m, ts, n) ==
    /\ f \in Frame
    /\ Fits(s, f)
    /\ f.k = "drain" => f.n + j <= m
    /\ Clear(s, f, ts, n)

(* A call leaves a good stack, if the top may call the frame. *)
LEMMA Push ==
    ASSUME NEW s, NEW j \in Nat, NEW m \in Nat, NEW ts, NEW n \in Nat,
           StackOK(s, j, m, ts, n), NEW f, MayPush(s, f, j, m, ts, n)
    PROVE  /\ StackOK(Append(s, f), j, m, ts, n)
           /\ Append(s, f) # <<>> /\ Last(Append(s, f)) = f
<1> DEFINE u == Append(s, f)
<1>0. /\ f \in Frame
      /\ Fits(s, f)
      /\ f.k = "drain" => f.n + j <= m
      /\ Clear(s, f, ts, n)
    BY DEF MayPush
<1>1. s \in Seq(Frame) /\ Len(s) \in Nat
    BY DEF StackOK
<1>2. /\ u \in Seq(Frame) /\ Len(u) = Len(s) + 1 /\ u # <<>>
      /\ \A i \in 1 .. Len(s) : u[i] = s[i]
      /\ u[Len(s) + 1] = f
    BY <1>0, <1>1
<1> HIDE DEF u
<1>3. Last(u) = f
    BY <1>2 DEF Last
<1>4. u[1].k = "eval"
    BY <1>0, <1>1, <1>2 DEF StackOK, Fits
<1>5. \A i \in 1 .. Len(u) : i > 1 => Allowed(u[i - 1], u[i])
    <2> SUFFICES ASSUME NEW i \in 1 .. Len(u), i > 1 PROVE Allowed(u[i - 1], u[i])
        OBVIOUS
    <2>1. CASE i <= Len(s)
        BY <2>1, <1>1, <1>2 DEF StackOK
    <2>2. CASE i = Len(s) + 1
        <3>1. s # <<>> /\ i - 1 = Len(s) /\ Len(s) \in 1 .. Len(s)
            BY <2>2, <1>1
        <3> QED BY <3>1, <2>2, <1>0, <1>2 DEF Fits, Last
    <2> QED BY <2>1, <2>2, <1>1, <1>2
<1>6. \A i \in 1 .. Len(u) : u[i].k = "drain" => u[i].n + j <= m
    <2> SUFFICES ASSUME NEW i \in 1 .. Len(u), u[i].k = "drain" PROVE u[i].n + j <= m
        OBVIOUS
    <2>1. CASE i \in 1 .. Len(s)
        <3>1. u[i] = s[i]
            BY <2>1, <1>2
        <3> QED BY <2>1, <3>1 DEF StackOK
    <2>2. CASE i = Len(s) + 1
        BY <2>2, <1>0, <1>2
    <2> QED BY <2>1, <2>2, <1>1, <1>2
<1>7. \A i \in 1 .. Len(u) : Flying(u[i]) =>
          u[i].t.id < n /\ \A t \in ts : t.id # u[i].t.id
    <2> SUFFICES ASSUME NEW i \in 1 .. Len(u), Flying(u[i])
                 PROVE  u[i].t.id < n /\ \A t \in ts : t.id # u[i].t.id
        OBVIOUS
    <2>1. CASE i \in 1 .. Len(s)
        <3>1. u[i] = s[i]
            BY <2>1, <1>2
        <3> QED BY <2>1, <3>1 DEF StackOK
    <2>2. CASE i = Len(s) + 1
        BY <2>2, <1>0, <1>2 DEF Clear
    <2> QED BY <2>1, <2>2, <1>1, <1>2
<1>8. \A h, i \in 1 .. Len(u) :
          Flying(u[h]) /\ Flying(u[i]) /\ u[h].t.id = u[i].t.id => h = i
    <2>1. \A h, i \in 1 .. Len(s) :
              Flying(s[h]) /\ Flying(s[i]) /\ s[h].t.id = s[i].t.id => h = i
        BY DEF StackOK
    <2>2. \A i \in 1 .. Len(s) : Flying(f) /\ Flying(s[i]) => s[i].t.id # f.t.id
        BY <1>0 DEF Clear
    <2> QED BY <2>1, <2>2, <1>1, <1>2
<1>9. StackOK(u, j, m, ts, n)
    BY <1>2, <1>4, <1>5, <1>6, <1>7, <1>8 DEF StackOK
<1> QED BY <1>2, <1>3, <1>9 DEF u

(* A good stack stays good when jobs leave the queue, are made and queued, *)
(* when timers go, and when timers come whose ids are not in flight.       *)
LEMMA Weaken ==
    ASSUME NEW s, NEW j \in Nat, NEW m \in Nat, NEW ts, NEW n \in Nat,
           StackOK(s, j, m, ts, n),
           NEW j2 \in Nat, NEW m2 \in Nat, j2 + m <= j + m2,
           NEW n2 \in Nat, n <= n2, NEW ts2,
           \A t \in ts2 : t \in ts \/ \A i \in 1 .. Len(s) :
                             Flying(s[i]) => s[i].t.id # t.id
    PROVE  StackOK(s, j2, m2, ts2, n2)
<1>0. s \in Seq(Frame)
    BY DEF StackOK
<1>1. \A i \in 1 .. Len(s) : s[i].n \in Nat /\ s[i].t.id \in Nat
    <2> SUFFICES ASSUME NEW i \in 1 .. Len(s) PROVE s[i].n \in Nat /\ s[i].t.id \in Nat
        OBVIOUS
    <2>1. s[i] \in Frame
        BY <1>0
    <2> QED BY <2>1 DEF Frame, Timer
<1>2. \A i \in 1 .. Len(s) : s[i].k = "drain" => s[i].n + j2 <= m2
    <2> SUFFICES ASSUME NEW i \in 1 .. Len(s), s[i].k = "drain" PROVE s[i].n + j2 <= m2
        OBVIOUS
    <2>1. s[i].n + j <= m
        BY DEF StackOK
    <2> QED BY <2>1, <1>1
<1>3. \A i \in 1 .. Len(s) : Flying(s[i]) =>
          s[i].t.id < n2 /\ \A t \in ts2 : t.id # s[i].t.id
    <2> SUFFICES ASSUME NEW i \in 1 .. Len(s), Flying(s[i])
                 PROVE  s[i].t.id < n2 /\ \A t \in ts2 : t.id # s[i].t.id
        OBVIOUS
    <2> DEFINE id == s[i].t.id
    <2>1. id < n /\ \A t \in ts : t.id # id
        BY DEF StackOK
    <2>2. id \in Nat
        BY <1>1
    <2> HIDE DEF id
    <2>3. id < n2
        BY <2>1, <2>2
    <2>4. \A t \in ts2 : t.id # id
        BY <2>1 DEF id
    <2> QED BY <2>3, <2>4 DEF id
<1> QED BY <1>2, <1>3 DEF StackOK

-----------------------------------------------------------------------------
(* The invariant, cut into the heap, the queue and the stack *)

Heap ==
    /\ now \in Nat
    /\ nextId \in Nat \ {0}
    /\ timers \subseteq Timer
    /\ cancelled \subseteq Nat
    /\ arrival \in Seq(Nat)
    /\ cleared \subseteq Nat
    /\ NeverOverdue
    /\ \A t, u \in timers : t.id = u.id => t = u
    /\ \A t \in timers : t.id < nextId

Work ==
    /\ jobs \in Nat /\ made \in Nat
    /\ jobs <= made /\ made <= MaxJobs
    /\ due \in BOOLEAN /\ evals \in Nat

Good == StackOK(stack, jobs, made, timers, nextId)
InvParts == Heap /\ Work /\ Good /\ QueueEmptied

(* The parts together are the invariant. *)
LEMMA Parts == InvParts <=> LoopInv
<1>1. ASSUME stack \in Seq(Frame) PROVE DOMAIN stack = 1 .. Len(stack)
    BY <1>1
<1>2. ASSUME InvParts PROVE LoopInv
    <2>1. stack \in Seq(Frame) /\ DOMAIN stack = 1 .. Len(stack)
        BY <1>2, <1>1 DEF InvParts, Good, StackOK
    <2>2. TypeOK
        BY <1>2, <2>1 DEF InvParts, Heap, Work, TypeOK
    <2>3. UniqueIds /\ IdsGiven
        BY <1>2, <2>1 DEF InvParts, Heap, Good, StackOK, Flying, UniqueIds, IdsGiven, InFlight
    <2>4. WellNested /\ JobsCounted
        BY <1>2, <2>1 DEF InvParts, Good, StackOK, WellNested, JobsCounted
    <2> QED BY <1>2, <2>2, <2>3, <2>4 DEF InvParts, Heap, Work, LoopInv
<1>3. ASSUME LoopInv PROVE InvParts
    <2>1. stack \in Seq(Frame) /\ DOMAIN stack = 1 .. Len(stack)
        BY <1>3, <1>1 DEF LoopInv, TypeOK
    <2>2. Heap /\ Work
        BY <1>3 DEF LoopInv, TypeOK, UniqueIds, IdsGiven, Heap, Work
    <2>3. Good
        BY <1>3, <2>1 DEF LoopInv, UniqueIds, IdsGiven, WellNested, JobsCounted,
                          InFlight, Good, StackOK, Flying
    <2> QED BY <1>3, <2>2, <2>3 DEF LoopInv, InvParts
<1> QED BY <1>2, <1>3

(* The new frames are frames. *)
LEMMA NewFrames ==
    /\ EvalFrame \in Frame /\ DrainFrame \in Frame /\ PumpFrame \in Frame
    /\ NoTimer \in Timer
    /\ \A k \in {"job", "callback"} : UserFrame(k) \in Frame
BY DEF EvalFrame, DrainFrame, PumpFrame, UserFrame, NoTimer, Frame, Timer

(* Initially there is nothing to do. *)
LEMMA InitParts == Init => InvParts
<1> SUFFICES ASSUME Init PROVE InvParts
    OBVIOUS
<1>1. Heap
    BY DEF Init, Heap, NeverOverdue
<1>2. Work
    <2>1. due \in BOOLEAN /\ jobs = 0 /\ made = 0 /\ evals = 0
        BY DEF Init
    <2>2. MaxJobs \in Nat
        BY LoopAssumption
    <2> QED BY <2>1, <2>2 DEF Work
<1>3. Good
    BY DEF Init, Good, StackOK
<1>4. QueueEmptied
    BY DEF Init, QueueEmptied
<1> QED BY <1>1, <1>2, <1>3, <1>4 DEF InvParts

(* User code and the pump know where they are from the top of the stack. *)
LEMMA TopIs ==
    ASSUME Good
    PROVE  /\ stack \in Seq(Frame)
           /\ Top = Last(stack) /\ Below = Popped(stack)
           /\ UserTurn => stack # <<>> /\ \/ Top.k = "eval" /\ Top.at = "script"
                                          \/ Top.k \in {"job", "callback"}
BY DEF Good, StackOK, Top, Below, Last, Popped, UserTurn, InAt, In

(* What user code does to the timers and the jobs. *)
LEMMA UserInv == InvParts /\ UserStep => InvParts'
<1> SUFFICES ASSUME InvParts, UserStep PROVE InvParts'
    OBVIOUS
<1>0. Good /\ Heap /\ Work
    BY DEF InvParts
<1>1. UserTurn /\ stack' = stack
    BY DEF UserStep, SetTimer, ClearTimer, QueueJob, Allocate, Calls
<1>2. QueueEmptied'
    BY <1>0, <1>1, TopIs DEF QueueEmptied, AfterDrain, InAt, In, Top
<1>3. CASE \E d \in Delays, every \in BOOLEAN : SetTimer(d, every)
    <2>1. PICK d \in Delays, every \in BOOLEAN : SetTimer(d, every)
        BY <1>3
    <2> DEFINE new == [id |-> nextId, deadline |-> now + d,
                       delay |-> IF every THEN d ELSE 0, every |-> every]
    <2>2. /\ timers' = timers \cup {new} /\ nextId' = nextId + 1
          /\ arrival' = Append(arrival, nextId)
          /\ UNCHANGED <<now, cancelled, cleared, work, due, stack, evals>>
        BY <2>1 DEF SetTimer
    <2>3. new \in Timer /\ new.id = nextId /\ new.deadline >= now
        BY <1>0, LoopAssumption DEF Heap, Timer
    <2> HIDE DEF new
    <2>4. \A t \in timers : t.id # nextId /\ t.id < nextId + 1 /\ t.id \in Nat
        BY <1>0 DEF Heap, Timer
    <2>5. Heap'
        BY <1>0, <2>2, <2>3, <2>4 DEF Heap, NeverOverdue
    <2>6. Work'
        BY <1>0, <2>2 DEF Work, work
    <2>7. Good'
        <3>1. \A i \in 1 .. Len(stack) : Flying(stack[i]) => stack[i].t.id # new.id
            BY <1>0, <2>3 DEF Good, StackOK, Heap
        <3>2. StackOK(stack, jobs, made, timers \cup {new}, nextId + 1)
            <4>1. /\ jobs \in Nat /\ made \in Nat /\ nextId \in Nat
                  /\ StackOK(stack, jobs, made, timers, nextId)
                BY <1>0 DEF Good, Work, Heap
            <4>2. nextId + 1 \in Nat /\ nextId <= nextId + 1 /\ jobs + made <= jobs + made
                BY <4>1
            <4>3. \A t \in timers \cup {new} : t \in timers
                       \/ \A i \in 1 .. Len(stack) : Flying(stack[i]) => stack[i].t.id # t.id
                BY <3>1
            <4> QED BY <4>1, <4>2, <4>3, Weaken, Zenon
        <3> QED BY <3>2, <2>2 DEF Good, work
    <2> QED BY <1>2, <2>5, <2>6, <2>7 DEF InvParts
<1>4. CASE \E id \in 1 .. MaxTimers : ClearTimer(id)
    <2>1. PICK id \in 1 .. MaxTimers : ClearTimer(id)
        BY <1>4
    <2>2. Heap'
        BY <1>0, <2>1, LoopAssumption DEF Heap, NeverOverdue, ClearTimer
    <2>3. Work' /\ Good'
        BY <1>0, <2>1 DEF Work, Good, ClearTimer, work
    <2> QED BY <1>2, <2>2, <2>3 DEF InvParts
<1>5. CASE QueueJob
    <2>1. Heap' /\ Work'
        BY <1>0, <1>5, LoopAssumption DEF Heap, NeverOverdue, Work, QueueJob, timing
    <2>2. /\ jobs' = jobs + 1 /\ made' = made + 1
          /\ UNCHANGED <<stack, timers, nextId>>
        BY <1>5 DEF QueueJob, timing
    <2>3. StackOK(stack, jobs + 1, made + 1, timers, nextId)
        <3>1. jobs \in Nat /\ made \in Nat /\ nextId \in Nat
            BY <1>0 DEF Work, Heap
        <3>2. /\ jobs + 1 \in Nat /\ made + 1 \in Nat
              /\ (jobs + 1) + made <= jobs + (made + 1) /\ nextId <= nextId
            BY <3>1
        <3>3. StackOK(stack, jobs, made, timers, nextId)
            BY <1>0 DEF Good
        <3> QED BY <3>1, <3>2, <3>3, Weaken, Zenon
    <2>4. Good'
        BY <2>2, <2>3 DEF Good
    <2> QED BY <1>2, <2>1, <2>4 DEF InvParts
<1>6. CASE Allocate
    <2>1. Heap' /\ Work' /\ Good'
        BY <1>0, <1>6 DEF Heap, NeverOverdue, Work, Good, Allocate, timing, work
    <2> QED BY <1>2, <2>1 DEF InvParts
<1> QED BY <1>3, <1>4, <1>5, <1>6 DEF UserStep

-----------------------------------------------------------------------------
(* The moves of the stack *)

(* Whether a call is allowed depends on the kind of the callee only. *)
LEMMA FitsKind ==
    ASSUME NEW s, NEW f, NEW g, Fits(s, f), f.k = g.k
    PROVE  Fits(s, g)
BY DEF Fits, Allowed

(* A frame returns; one that returns to a drain's caller left no job. *)
LEMMA ReturnStep ==
    ASSUME InvParts, Heap', Work', stack # <<>>, Return,
           jobs' <= jobs, UNCHANGED <<made, timers, nextId>>,
           CapUnreached /\ Top.k = "drain" => jobs' = 0
    PROVE  InvParts'
<1>1. Heap /\ Work /\ Good
    BY DEF InvParts
<1>2. /\ jobs \in Nat /\ made \in Nat /\ nextId \in Nat /\ jobs' \in Nat
      /\ jobs' + made <= jobs + made
    <2>1. jobs \in Nat /\ made \in Nat /\ nextId \in Nat
        BY <1>1 DEF Heap, Work
    <2>2. jobs' \in Nat
        BY DEF Work
    <2>3. jobs' <= jobs
        OBVIOUS
    <2>4. ASSUME NEW a \in Nat, NEW b \in Nat, NEW c \in Nat, a <= b
          PROVE  a + c <= b + c
        BY <2>4
    <2> QED BY <2>1, <2>2, <2>3, <2>4
<1>3. /\ StackOK(Popped(stack), jobs, made, timers, nextId)
      /\ Fits(Popped(stack), Last(stack))
    BY <1>1, <1>2, Pop DEF Good
<1>4. stack' = Popped(stack) /\ Top = Last(stack)
    BY DEF Return, Below, Popped, Top, Last
<1>5. StackOK(Popped(stack), jobs', made, timers, nextId)
    <2>1. nextId <= nextId
        BY <1>2
    <2> QED BY <1>2, <1>3, <2>1, Weaken, Zenon
<1>6. Good'
    BY <1>4, <1>5 DEF Good
<1>7. QueueEmptied'
    <2> SUFFICES ASSUME CapUnreached, AfterDrain' PROVE jobs' = 0
        BY DEF QueueEmptied, CapUnreached
    <2>1. /\ stack' # <<>>
          /\ \/ Last(stack').k = "eval" /\ Last(stack').at = "drain"
             \/ Last(stack').k = "pump" /\ Last(stack').at \in {"again", "pick"}
        BY DEF AfterDrain, InAt, In, Top, Last
    <2>2. Allowed(Last(stack'), Last(stack))
        BY <1>3, <1>4, <2>1 DEF Fits
    <2>3. Last(stack).k = "drain"
        BY <2>1, <2>2 DEF Allowed
    <2> QED BY <2>3, <1>4
<1> QED BY <1>6, <1>7 DEF InvParts

(* The top of the stack is replaced by a frame of its kind. *)
LEMMA ReplaceTop ==
    ASSUME InvParts, stack # <<>>, NEW j \in Nat, j <= jobs, NEW ts,
           NEW f \in Frame, f.k = Last(stack).k,
           f.k = "drain" => f.n + j <= made,
           \A t \in ts : t \in timers \/ \A i \in 1 .. Len(Popped(stack)) :
                 Flying(Popped(stack)[i]) => Popped(stack)[i].t.id # t.id,
           Clear(Popped(stack), f, ts, nextId)
    PROVE  /\ StackOK(Append(Popped(stack), f), j, made, ts, nextId)
           /\ Append(Popped(stack), f) # <<>> /\ Last(Append(Popped(stack), f)) = f
<1>1. Heap /\ Work /\ Good
    BY DEF InvParts
<1>2. /\ jobs \in Nat /\ made \in Nat /\ nextId \in Nat
      /\ j + made <= jobs + made /\ nextId <= nextId
    BY <1>1 DEF Heap, Work
<1>3. /\ StackOK(Popped(stack), jobs, made, timers, nextId)
      /\ Fits(Popped(stack), Last(stack))
    BY <1>1, <1>2, Pop DEF Good
<1>4. StackOK(Popped(stack), j, made, ts, nextId)
    BY <1>2, <1>3, Weaken, Zenon
<1>5. Fits(Popped(stack), f)
    BY <1>3, FitsKind
<1>6. MayPush(Popped(stack), f, j, made, ts, nextId)
    BY <1>5 DEF MayPush
<1>7. ASSUME NEW s, StackOK(s, j, made, ts, nextId), MayPush(s, f, j, made, ts, nextId)
      PROVE  /\ StackOK(Append(s, f), j, made, ts, nextId)
             /\ Append(s, f) # <<>> /\ Last(Append(s, f)) = f
    BY <1>2, <1>7, Push
<1> QED BY <1>4, <1>6, <1>7

(* The top of the stack goes on as f and calls g. *)
LEMMA CallStep ==
    ASSUME InvParts, Heap', Work', stack # <<>>, NEW f \in Frame, NEW g \in Frame,
           ThenCall(f, g), f.k = Last(stack).k, Allowed(f, g),
           jobs' <= jobs, UNCHANGED <<made, nextId>>,
           f.k = "drain" => f.n + jobs' <= made,
           g.k = "drain" => g.n + jobs' <= made,
           ~Flying(g),
           \A t \in timers' : t \in timers,
           Clear(Popped(stack), f, timers', nextId),
           CapUnreached /\ g.k = "pump" => jobs' = 0, g.k # "eval"
    PROVE  InvParts'
<1> DEFINE u == Append(Popped(stack), f)
<1>1. jobs' \in Nat /\ made \in Nat /\ nextId \in Nat
    BY DEF InvParts, Heap, Work
<1>2. StackOK(u, jobs', made, timers', nextId) /\ u # <<>> /\ Last(u) = f
    BY <1>1, ReplaceTop
<1>3. MayPush(u, g, jobs', made, timers', nextId)
    BY <1>2 DEF Fits, MayPush, Clear
<1>4. /\ StackOK(Append(u, g), jobs', made, timers', nextId)
      /\ Append(u, g) # <<>> /\ Last(Append(u, g)) = g
    <2> HIDE DEF u
    <2>1. ASSUME NEW j \in Nat, NEW m \in Nat, NEW ts, NEW n \in Nat,
                 StackOK(u, j, m, ts, n), MayPush(u, g, j, m, ts, n)
          PROVE  /\ StackOK(Append(u, g), j, m, ts, n)
                 /\ Append(u, g) # <<>> /\ Last(Append(u, g)) = g
        BY <2>1, Push
    <2> QED BY <1>1, <1>2, <1>3, <2>1
<1>5. stack' = Append(u, g)
    BY DEF ThenCall, Below, Popped
<1> HIDE DEF u
<1>6. Good'
    BY <1>4, <1>5 DEF Good
<1>7. QueueEmptied'
    BY <1>4, <1>5 DEF QueueEmptied, CapUnreached, AfterDrain, InAt, In, Top, Last
<1> QED BY <1>6, <1>7 DEF InvParts

-----------------------------------------------------------------------------
(* The steps of the engine *)

(* What a step that leaves timers and jobs alone keeps *)
LEMMA Idle ==
    ASSUME InvParts, UNCHANGED <<timing, work>>, due' \in BOOLEAN, evals' \in Nat
    PROVE  /\ Heap' /\ Work' /\ jobs' <= jobs
           /\ UNCHANGED <<made, timers, nextId, jobs>>
<1>1. Heap'
    BY DEF InvParts, Heap, NeverOverdue, timing
<1>2. Work'
    BY DEF InvParts, Work, work
<1>3. jobs' <= jobs
    BY DEF InvParts, Work, work
<1> QED BY <1>1, <1>2, <1>3 DEF timing, work

(* The host or user code starts an evaluation. *)
LEMMA StartEvalInv == InvParts /\ StartEval => InvParts'
<1> SUFFICES ASSUME InvParts, StartEval PROVE InvParts'
    OBVIOUS
<1>1. Good /\ Heap /\ Work
    BY DEF InvParts
<1>2. evals' \in Nat /\ due' \in BOOLEAN /\ UNCHANGED <<timing, work>>
    BY <1>1 DEF StartEval, Work
<1>3. Heap' /\ Work' /\ UNCHANGED <<made, timers, nextId, jobs>>
    BY <1>2, Idle
<1>4. jobs \in Nat /\ made \in Nat /\ nextId \in Nat
    BY <1>1 DEF Heap, Work
<1>5. Fits(stack, EvalFrame)
    BY <1>1, TopIs DEF StartEval, Calls, Fits, Allowed, EvalFrame
<1>6. MayPush(stack, EvalFrame, jobs, made, timers, nextId)
    BY <1>5, NewFrames DEF MayPush, Clear, Flying, EvalFrame
<1>7. /\ StackOK(Append(stack, EvalFrame), jobs, made, timers, nextId)
      /\ Append(stack, EvalFrame) # <<>>
      /\ Last(Append(stack, EvalFrame)) = EvalFrame
    BY <1>1, <1>4, <1>6, Push DEF Good
<1>8. stack' = Append(stack, EvalFrame)
    BY DEF StartEval, Call
<1>9. Good'
    BY <1>3, <1>7, <1>8 DEF Good
<1>10. QueueEmptied'
    BY <1>7, <1>8 DEF QueueEmptied, AfterDrain, InAt, In, Top, Last, EvalFrame
<1> QED BY <1>3, <1>9, <1>10 DEF InvParts

(* The script of an evaluation ends. *)
LEMMA FinishScriptInv == InvParts /\ FinishScript => InvParts'
<1> SUFFICES ASSUME InvParts, FinishScript PROVE InvParts'
    OBVIOUS
<1>1. Good /\ Heap /\ Work
    BY DEF InvParts
<1>2. Heap' /\ Work' /\ jobs' <= jobs /\ UNCHANGED <<made, timers, nextId, jobs>>
    BY <1>1, Idle DEF FinishScript, Work
<1>3. stack # <<>> /\ Top = Last(stack) /\ Top.k = "eval" /\ Top.at = "script"
    BY <1>1, TopIs DEF FinishScript, InAt, In
<1>4. CASE InScript(Below)
    BY <1>2, <1>3, <1>4, ReturnStep DEF FinishScript
<1>5. CASE ~InScript(Below)
    <2> DEFINE f == [Top EXCEPT !.at = "drain"]
    <2>1. Top \in Frame
        BY <1>1, <1>3, Pop DEF Good, Heap, Work
    <2>2. f \in Frame /\ f.k = "eval" /\ f.at = "drain"
        BY <2>1, <1>3 DEF Frame
    <2>3. ThenCall(f, DrainFrame)
        BY <1>5 DEF FinishScript
    <2> HIDE DEF f
    <2>4. Allowed(f, DrainFrame) /\ ~Flying(DrainFrame) /\ ~Flying(f)
        BY <2>2 DEF Allowed, Flying, DrainFrame
    <2>5. DrainFrame.k = "drain" /\ DrainFrame.n + jobs' <= made
        BY <1>1, <1>2 DEF DrainFrame, Work
    <2> QED BY <1>2, <1>3, <2>2, <2>3, <2>4, <2>5, NewFrames, CallStep DEF Clear
<1> QED BY <1>4, <1>5

(* A frame that keeps its kind is a frame. *)
LEMMA TopFrame ==
    ASSUME InvParts, stack # <<>>
    PROVE  /\ Top \in Frame /\ Top = Last(stack) /\ Top.n \in Nat /\ Top.t \in Timer
           /\ Top.k = "drain" => Top.n + jobs <= made
           /\ Clear(Popped(stack), Top, timers, nextId)
<1>1. Good /\ jobs \in Nat /\ made \in Nat /\ nextId \in Nat
    BY DEF InvParts, Heap, Work
<1>2. Top = Last(stack)
    BY <1>1, TopIs
<1>3. /\ Last(stack) \in Frame
      /\ Last(stack).k = "drain" => Last(stack).n + jobs <= made
      /\ Clear(Popped(stack), Last(stack), timers, nextId)
    BY <1>1, Pop DEF Good, Clear
<1> QED BY <1>2, <1>3 DEF Frame

(* After the drain an evaluation pumps, at a queue the drain emptied. *)
LEMMA StartPumpInv == InvParts /\ StartPump => InvParts'
<1> SUFFICES ASSUME InvParts, StartPump PROVE InvParts'
    OBVIOUS
<1>1. Good /\ Heap /\ Work /\ QueueEmptied
    BY DEF InvParts
<1>2. Heap' /\ Work' /\ jobs' <= jobs /\ UNCHANGED <<made, timers, nextId, jobs>>
    BY <1>1, Idle DEF StartPump, Work
<1>3. stack # <<>> /\ Top.k = "eval" /\ Top.at = "drain"
    BY DEF StartPump, InAt, In
<1> DEFINE f == [Top EXCEPT !.at = "pump"]
<1>4. Top \in Frame /\ Top = Last(stack)
    BY <1>3, TopFrame
<1>5. f \in Frame /\ f.k = "eval" /\ f.at = "pump"
    BY <1>3, <1>4 DEF Frame
<1>6. ThenCall(f, PumpFrame)
    BY DEF StartPump
<1> HIDE DEF f
<1>7. Allowed(f, PumpFrame) /\ ~Flying(PumpFrame) /\ ~Flying(f) /\ PumpFrame.k = "pump"
    BY <1>5 DEF Allowed, Flying, PumpFrame
<1>8. CapUnreached => jobs' = 0
    BY <1>1, <1>2 DEF QueueEmptied, AfterDrain, StartPump
<1> QED BY <1>2, <1>3, <1>4, <1>5, <1>6, <1>7, <1>8, NewFrames, CallStep DEF Clear

(* The steps that only return *)
LEMMA ReturnsInv ==
    InvParts /\ (FinishEval \/ DrainDone \/ CallbackReturns \/ HitTimerLimit) => InvParts'
<1> SUFFICES ASSUME InvParts, FinishEval \/ DrainDone \/ CallbackReturns \/ HitTimerLimit
             PROVE  InvParts'
    OBVIOUS
<1>1. stack # <<>> /\ Return
    BY DEF FinishEval, DrainDone, CallbackReturns, HitTimerLimit, InAt, In
<1>2. Heap' /\ Work' /\ jobs' <= jobs /\ UNCHANGED <<made, timers, nextId, jobs>>
    BY Idle DEF FinishEval, DrainDone, CallbackReturns, HitTimerLimit, InvParts, Work
<1>3. Top.k = "drain" => jobs' = 0
    BY <1>2 DEF FinishEval, DrainDone, CallbackReturns, HitTimerLimit, InAt, In
<1> QED BY <1>1, <1>2, <1>3, ReturnStep

(* A drain at its cap drops one job: not reached when user code queues no  *)
(* more jobs than the cap.                                                 *)
LEMMA HitJobLimitInv == InvParts /\ HitJobLimit => InvParts'
<1> SUFFICES ASSUME InvParts, HitJobLimit PROVE InvParts'
    OBVIOUS
<1>1. stack # <<>> /\ Return /\ Top.k = "drain" /\ jobs > 0 /\ Top.n >= JobLimit
    BY DEF HitJobLimit, In
<1>2. /\ jobs' = jobs - 1
      /\ UNCHANGED <<timing, made, due, evals>>
    BY DEF HitJobLimit
<1>3. jobs \in Nat /\ made \in Nat /\ jobs <= made /\ made <= MaxJobs
    BY DEF InvParts, Work
<1>4. Heap'
    BY <1>2 DEF InvParts, Heap, NeverOverdue, timing
<1>5. Work' /\ jobs' <= jobs /\ UNCHANGED <<made, timers, nextId>>
    BY <1>1, <1>2, <1>3, LoopAssumption DEF InvParts, Work, timing
<1>6. ~CapUnreached
    BY <1>1, <1>3, TopFrame, LoopAssumption DEF CapUnreached
<1> QED BY <1>1, <1>4, <1>5, <1>6, ReturnStep

(* A job starts. *)
LEMMA RunJobInv == InvParts /\ RunJob => InvParts'
<1> SUFFICES ASSUME InvParts, RunJob PROVE InvParts'
    OBVIOUS
<1>1. stack # <<>> /\ Top.k = "drain" /\ jobs > 0
    BY DEF RunJob, In
<1>2. jobs' = jobs - 1 /\ UNCHANGED <<timing, made, due, evals>>
    BY DEF RunJob
<1>3. jobs \in Nat /\ made \in Nat /\ jobs <= made /\ made <= MaxJobs
    BY DEF InvParts, Work
<1>4. Heap'
    BY <1>2 DEF InvParts, Heap, NeverOverdue, timing
<1>5. Work' /\ jobs' <= jobs /\ UNCHANGED <<made, timers, nextId>>
    BY <1>1, <1>2, <1>3, LoopAssumption DEF InvParts, Work, timing
<1> DEFINE f == [Top EXCEPT !.n = @ + 1]
           g == UserFrame("job")
<1>6. /\ Top \in Frame /\ Top = Last(stack) /\ Top.n \in Nat /\ Top.n + jobs <= made
    BY <1>1, TopFrame
<1>7. f \in Frame /\ f.k = "drain" /\ f.n = Top.n + 1
    BY <1>1, <1>6 DEF Frame
<1>8. f.n + jobs' <= made
    BY <1>1, <1>2, <1>3, <1>6, <1>7
<1>9. ThenCall(f, g)
    BY DEF RunJob
<1>10. g \in Frame /\ g.k = "job"
    BY NewFrames DEF UserFrame
<1> HIDE DEF f, g
<1>11. Allowed(f, g) /\ ~Flying(g) /\ ~Flying(f)
    BY <1>7, <1>10 DEF Allowed, Flying
<1> QED BY <1>1, <1>4, <1>5, <1>6, <1>7, <1>8, <1>9, <1>10, <1>11, CallStep DEF Clear

(* The pump finds no timer, and forgets the cancelled ids. *)
LEMMA PumpEmptyInv == InvParts /\ PumpEmpty => InvParts'
<1> SUFFICES ASSUME InvParts, PumpEmpty PROVE InvParts'
    OBVIOUS
<1>1. stack # <<>> /\ Top.k = "pump" /\ Return
    BY DEF PumpEmpty, Picking, InAt, In
<1>2. /\ cancelled' = {}
      /\ UNCHANGED <<now, nextId, timers, arrival, cleared, work, due, evals>>
    BY DEF PumpEmpty
<1>3. Heap'
    BY <1>2 DEF InvParts, Heap, NeverOverdue
<1>4. Work' /\ jobs' <= jobs /\ UNCHANGED <<made, timers, nextId>>
    BY <1>2 DEF InvParts, Work, work
<1> QED BY <1>1, <1>3, <1>4, ReturnStep

(* Leaving an id out of a sequence of ids *)
LEMMA WithoutSeq ==
    ASSUME NEW s \in Seq(Nat), NEW id PROVE Without(s, id) \in Seq(Nat)
<1> DEFINE at == CHOOSE i \in DOMAIN s : s[i] = id
<1>1. Without(s, id) = [i \in 1 .. Len(s) - 1 |-> IF i < at THEN s[i] ELSE s[i + 1]]
    BY DEF Without
<1> HIDE DEF at
<1>2. \A i \in 1 .. Len(s) - 1 : (IF i < at THEN s[i] ELSE s[i + 1]) \in Nat
    OBVIOUS
<1>3. CASE s = <<>>
    <2>1. 1 .. Len(s) - 1 = 1 .. 0
        BY <1>3
    <2> QED BY <1>1, <1>2, <2>1, SeqDef
<1>4. CASE s # <<>>
    <2>1. Len(s) - 1 \in Nat
        BY <1>4
    <2> QED BY <1>1, <1>2, <2>1, SeqDef
<1> QED BY <1>3, <1>4

(* A cancelled timer leaves the heap. *)
LEMMA SkipInv ==
    ASSUME InvParts, NEW t \in timers, SkipCancelled(t) PROVE InvParts'
<1>1. /\ timers' = timers \ {t} /\ cancelled' = cancelled \ {t.id}
      /\ arrival' = Without(arrival, t.id)
      /\ UNCHANGED <<now, nextId, cleared, work, due, stack, evals>>
    BY DEF SkipCancelled
<1>2. arrival' \in Seq(Nat)
    <2>1. arrival \in Seq(Nat)
        BY DEF InvParts, Heap
    <2> QED BY <1>1, <2>1, WithoutSeq
<1>3. Heap'
    BY <1>1, <1>2 DEF InvParts, Heap, NeverOverdue
<1>4. Work'
    BY <1>1 DEF InvParts, Work, work
<1>5. StackOK(stack, jobs, made, timers \ {t}, nextId)
    <2>1. /\ jobs \in Nat /\ made \in Nat /\ nextId \in Nat
          /\ StackOK(stack, jobs, made, timers, nextId)
        BY DEF InvParts, Good, Heap, Work
    <2>2. nextId <= nextId /\ jobs + made <= jobs + made
        BY <2>1
    <2> QED BY <2>1, <2>2, Weaken, Zenon
<1>6. Good'
    BY <1>1, <1>5 DEF Good, work
<1>7. QueueEmptied'
    BY <1>1 DEF InvParts, QueueEmptied, CapUnreached, AfterDrain, InAt, In, Top, work
<1> QED BY <1>3, <1>4, <1>6, <1>7 DEF InvParts

(* The earliest timer fires: its id is in flight and no longer in the heap. *)
LEMMA FireInv ==
    ASSUME InvParts, NEW t \in timers, FireTimer(t) PROVE InvParts'
<1> DEFINE f == Firing(Top.n + 1, t)
           g == UserFrame("callback")
<1>1. /\ timers' = timers \ {t} /\ arrival' = Without(arrival, t.id)
      /\ now' = IF t.deadline > now THEN t.deadline ELSE now
      /\ ThenCall(f, g)
      /\ UNCHANGED <<nextId, cancelled, cleared, work, due, evals>>
    BY DEF FireTimer
<1>2. Earliest(t) /\ stack # <<>> /\ Top.k = "pump"
    BY DEF FireTimer, Picking, InAt, In
<1>3. Heap /\ Work /\ Good
    BY DEF InvParts
<1>4. t \in Timer /\ now \in Nat /\ t.deadline \in Nat /\ t.deadline >= now /\ t.id < nextId
    BY <1>3 DEF Heap, NeverOverdue, Timer
<1>5. arrival' \in Seq(Nat)
    <2>1. arrival \in Seq(Nat)
        BY <1>3 DEF Heap
    <2> QED BY <1>1, <2>1, WithoutSeq
<1>6. now' = t.deadline
    BY <1>1, <1>4
<1>7. \A u \in timers' : u.deadline >= now'
    <2> SUFFICES ASSUME NEW u \in timers PROVE u.deadline >= t.deadline
        BY <1>1, <1>6
    <2>1. u.deadline \in Nat
        BY <1>3 DEF Heap, Timer
    <2> QED BY <2>1, <1>2, <1>4 DEF Earliest
<1>8. Heap'
    <2>1. now' \in Nat /\ NeverOverdue'
        BY <1>4, <1>6, <1>7 DEF NeverOverdue
    <2> QED BY <1>1, <1>3, <1>5, <2>1 DEF Heap
<1>9. Work' /\ jobs' <= jobs /\ UNCHANGED <<made, nextId, jobs>>
    BY <1>1, <1>3 DEF Work, work
<1>10. Top \in Frame /\ Top = Last(stack) /\ Top.n \in Nat
    BY <1>2, TopFrame
<1>11. /\ f \in Frame /\ f.k = "pump" /\ f.at = "checkpoint" /\ f.t = t
    <2>2. Top.n + 1 \in Nat
        BY <1>10
    <2> QED BY <1>4, <2>2 DEF Frame, Firing
<1>12. g \in Frame /\ g.k = "callback"
    BY NewFrames DEF UserFrame
<1> HIDE DEF f, g
<1>13. Allowed(f, g) /\ ~Flying(g)
    BY <1>11, <1>12 DEF Allowed, Flying
<1>14. Clear(Popped(stack), f, timers', nextId)
    <2>1. \A u \in timers' : u.id # t.id
        BY <1>1, <1>3 DEF Heap
    <2>2. StackOK(Popped(stack), jobs, made, timers, nextId)
        <3>1. jobs \in Nat /\ made \in Nat /\ nextId \in Nat
            BY <1>3 DEF Heap, Work
        <3> QED BY <1>2, <1>3, <3>1, Pop DEF Good
    <2>3. \A i \in 1 .. Len(Popped(stack)) :
              Flying(Popped(stack)[i]) => Popped(stack)[i].t.id # t.id
        BY <2>2 DEF StackOK
    <2> QED BY <1>4, <1>11, <2>1, <2>3 DEF Clear
<1> QED BY <1>1, <1>2, <1>8, <1>9, <1>10, <1>11, <1>12, <1>13, <1>14, CallStep

(* The checkpoint after a timer callback *)
LEMMA CheckpointInv == InvParts /\ Checkpoint => InvParts'
<1> SUFFICES ASSUME InvParts, Checkpoint PROVE InvParts'
    OBVIOUS
<1> DEFINE f == [Top EXCEPT !.at = "again"]
<1>1. stack # <<>> /\ Top.k = "pump" /\ Top.at = "checkpoint" /\ ThenCall(f, DrainFrame)
    BY DEF Checkpoint, InAt, In
<1>2. Heap' /\ Work' /\ jobs' <= jobs /\ UNCHANGED <<made, timers, nextId, jobs>>
    BY Idle DEF Checkpoint, InvParts, Work
<1>3. /\ Top \in Frame /\ Top = Last(stack)
      /\ Clear(Popped(stack), Top, timers, nextId)
    BY <1>1, TopFrame
<1>4. f \in Frame /\ f.k = "pump" /\ f.at = "again" /\ f.t = Top.t
    BY <1>1, <1>3 DEF Frame
<1> HIDE DEF f
<1>5. Allowed(f, DrainFrame) /\ ~Flying(DrainFrame)
    BY <1>4 DEF Allowed, Flying, DrainFrame
<1>6. DrainFrame.k = "drain" /\ DrainFrame.n + jobs' <= made
    BY <1>2 DEF InvParts, DrainFrame, Work
<1>7. Clear(Popped(stack), f, timers', nextId)
    BY <1>1, <1>2, <1>3, <1>4 DEF Clear, Flying
<1> QED BY <1>1, <1>2, <1>3, <1>4, <1>5, <1>6, <1>7, NewFrames, CallStep

(* An interval goes back to the heap under an id nobody else has. *)
LEMMA RescheduleInv == InvParts /\ Reschedule => InvParts'
<1> SUFFICES ASSUME InvParts, Reschedule PROVE InvParts'
    OBVIOUS
<1> DEFINE f == [Top EXCEPT !.at = "pick", !.t = NoTimer]
           new == [Top.t EXCEPT !.deadline = now + Top.t.delay]
<1>1. /\ stack # <<>> /\ Top.k = "pump" /\ Top.at = "again"
      /\ stack' = Append(Popped(stack), f)
      /\ UNCHANGED <<now, nextId, cleared, work, due, evals>>
    BY DEF Reschedule, InAt, In, ContinueAs, Below, Popped
<1>2. /\ cancelled' \subseteq Nat
      /\ \/ timers' = timers \cup {new} /\ arrival' = Append(arrival, Top.t.id)
         \/ timers' = timers /\ arrival' = arrival
    BY DEF Reschedule, InvParts, Heap
<1>3. Heap /\ Work /\ Good /\ QueueEmptied
    BY DEF InvParts
<1>4. /\ Top \in Frame /\ Top = Last(stack) /\ Top.t \in Timer
      /\ Clear(Popped(stack), Top, timers, nextId)
    BY <1>1, TopFrame
<1>5. f \in Frame /\ f.k = "pump" /\ f.at = "pick"
    BY <1>1, <1>4, NewFrames DEF Frame
<1>6. /\ new \in Timer /\ new.id = Top.t.id /\ Top.t.id \in Nat
      /\ new.deadline >= now
    <2>1. /\ Top.t.delay \in Nat /\ now \in Nat /\ Top.t.id \in Nat /\ Top.t.every \in BOOLEAN
          /\ new = [id |-> Top.t.id, deadline |-> now + Top.t.delay,
                    delay |-> Top.t.delay, every |-> Top.t.every]
        BY <1>3, <1>4 DEF Timer, Heap
    <2>2. now + Top.t.delay \in Nat /\ now + Top.t.delay >= now
        BY <2>1
    <2> HIDE DEF new
    <2> QED BY <2>1, <2>2 DEF Timer
<1> HIDE DEF f, new
<1>7. /\ Top.t.id < nextId /\ \A t \in timers : t.id # Top.t.id
      /\ \A i \in 1 .. Len(Popped(stack)) :
             Flying(Popped(stack)[i]) => Popped(stack)[i].t.id # Top.t.id
    BY <1>1, <1>4 DEF Clear, Flying
<1>8. Heap'
    <2>1. UNCHANGED <<now, nextId, cleared>>
        BY <1>1
    <2>2. arrival' \in Seq(Nat)
        BY <1>2, <1>3, <1>6 DEF Heap
    <2>3. CASE timers' = timers
        BY <1>2, <1>3, <2>1, <2>2, <2>3 DEF Heap, NeverOverdue
    <2>4. CASE timers' = timers \cup {new}
        BY <1>2, <1>3, <1>6, <1>7, <2>1, <2>2, <2>4 DEF Heap, NeverOverdue
    <2> QED BY <1>2, <2>3, <2>4
<1>9. Work' /\ UNCHANGED <<jobs, made, nextId>>
    BY <1>1, <1>3 DEF Work, work
<1>10. \A t \in timers' : t \in timers \/ \A i \in 1 .. Len(Popped(stack)) :
           Flying(Popped(stack)[i]) => Popped(stack)[i].t.id # t.id
    BY <1>2, <1>6, <1>7
<1>11. /\ StackOK(Append(Popped(stack), f), jobs, made, timers', nextId)
       /\ Append(Popped(stack), f) # <<>> /\ Last(Append(Popped(stack), f)) = f
    <2>1. jobs \in Nat /\ jobs <= jobs
        BY <1>3 DEF Work
    <2>2. Clear(Popped(stack), f, timers', nextId) /\ f.k = Last(stack).k /\ f.k # "drain"
        BY <1>1, <1>4, <1>5 DEF Clear, Flying
    <2> QED BY <1>1, <1>5, <1>10, <2>1, <2>2, ReplaceTop
<1>12. Good'
    BY <1>1, <1>9, <1>11 DEF Good
<1>13. QueueEmptied'
    BY <1>1, <1>3, <1>9 DEF QueueEmptied, CapUnreached, AfterDrain, InAt, In
<1> QED BY <1>8, <1>9, <1>12, <1>13 DEF InvParts

-----------------------------------------------------------------------------
(* The theorems *)

(* Every step keeps the invariant. *)
LEMMA NextParts == InvParts /\ [Next]_vars => InvParts'
<1> SUFFICES ASSUME InvParts, [Next]_vars PROVE InvParts'
    OBVIOUS
<1>1. CASE StartEval
    BY <1>1, StartEvalInv
<1>2. CASE EngineStep
    BY <1>2, FinishScriptInv, StartPumpInv, ReturnsInv, HitJobLimitInv, RunJobInv,
       PumpEmptyInv, SkipInv, FireInv, CheckpointInv, RescheduleInv DEF EngineStep
<1>3. CASE CallbackReturns
    BY <1>3, ReturnsInv
<1>4. CASE UserStep
    BY <1>4, UserInv
<1>5. CASE UNCHANGED vars
    BY <1>5 DEF vars, InvParts, Heap, NeverOverdue, Work, Good, QueueEmptied,
                CapUnreached, AfterDrain, InAt, In, Top
<1> QED BY <1>1, <1>2, <1>3, <1>4, <1>5 DEF Next

(* The inductive invariant holds of every behaviour. *)
THEOREM LoopInvariance == Spec => []LoopInv
<1>1. Init => LoopInv
    BY InitParts, Parts
<1>2. LoopInv /\ [Next]_vars => LoopInv'
    BY NextParts, Parts, PTL
<1> QED BY <1>1, <1>2, PTL DEF Spec

(* Type correctness of the event loop. *)
THEOREM LoopTypeCorrect == Spec => []TypeOK
<1>1. LoopInv => TypeOK
    BY DEF LoopInv
<1> QED BY LoopInvariance, <1>1, PTL

(* The clock never passes a timer: each fires at the time it was set for,  *)
(* whatever callbacks, intervals and nested evaluations do meanwhile.      *)
THEOREM NeverOverdueAlways == Spec => []NeverOverdue
<1>1. LoopInv => NeverOverdue
    BY DEF LoopInv
<1> QED BY LoopInvariance, <1>1, PTL

(* An id names one timer, in the heap or in flight, also while evaluations *)
(* nest and several pumps are in the middle of a task.                     *)
THEOREM UniqueIdsAlways == Spec => []UniqueIds
<1>1. LoopInv => UniqueIds
    BY DEF LoopInv
<1> QED BY LoopInvariance, <1>1, PTL

(* As long as user code queues no more jobs than the cap of drain_jobs,    *)
(* every timer callback starts at an empty job queue.                      *)
THEOREM MicrotasksBeforeTimers == CapUnreached => (Spec => MicrotasksFirst)
<1> SUFFICES ASSUME CapUnreached PROVE Spec => MicrotasksFirst
    OBVIOUS
<1>1. LoopInv => [\A t \in timers : FireTimer(t) => jobs = 0]_vars
    BY DEF LoopInv, QueueEmptied, AfterDrain, FireTimer, Picking
<1> QED BY LoopInvariance, <1>1, PTL DEF MicrotasksFirst


-----------------------------------------------------------------------------
(* The order of arrival, for a set ts of timers and a sequence a of ids:   *)
(* the ids in a are those of ts, once each, and those of timeouts ascend   *)
(* (an interval is queued again under its old id, so it need not).         *)

Arrived(ts, a) ==
    /\ a \in Seq(Nat)
    /\ \A i, j \in 1 .. Len(a) : a[i] = a[j] => i = j
    /\ \A i \in 1 .. Len(a) : \E t \in ts : t.id = a[i]
    /\ \A t \in ts : \E i \in 1 .. Len(a) : a[i] = t.id
    /\ \A t, u \in ts : \A i, j \in 1 .. Len(a) :
          a[i] = t.id /\ a[j] = u.id /\ ~t.every /\ ~u.every /\ i < j => t.id < u.id

IdsDiffer(ts) == \A t, u \in ts : t.id = u.id => t = u

FifoInv == LoopInv /\ Arrived(timers, arrival)

(* What is left when an id is left out: the elements before it at their    *)
(* places, those after it one place earlier.                               *)
LEMMA WithoutShift ==
    ASSUME NEW a \in Seq(Nat), NEW p \in 1 .. Len(a),
           \A i \in 1 .. Len(a) : a[i] = a[p] => i = p
    PROVE  /\ Len(Without(a, a[p])) = Len(a) - 1
           /\ \A i \in 1 .. Len(a) - 1 :
                 Without(a, a[p])[i] = IF i < p THEN a[i] ELSE a[i + 1]
<1> DEFINE id == a[p]
           at == CHOOSE i \in DOMAIN a : a[i] = id
           r == [i \in 1 .. Len(a) - 1 |-> IF i < at THEN a[i] ELSE a[i + 1]]
<1>1. DOMAIN a = 1 .. Len(a) /\ Len(a) \in Nat /\ Len(a) - 1 \in Nat
    OBVIOUS
<1>2. at = p
    <2>1. at \in DOMAIN a /\ a[at] = id
        BY <1>1
    <2> QED BY <1>1, <2>1
<1>3. Without(a, id) = r
    BY DEF Without
<1>4. Without(a, id) \in Seq(Nat)
    BY WithoutSeq
<1>5. DOMAIN Without(a, id) = 1 .. Len(Without(a, id)) /\ Len(Without(a, id)) \in Nat
    BY <1>4
<1>6. 1 .. Len(Without(a, id)) = 1 .. Len(a) - 1
    BY <1>3, <1>5
<1>7. Len(Without(a, id)) = Len(a) - 1
    <2>1. ASSUME NEW m \in Nat, NEW n \in Nat, 1 .. m = 1 .. n PROVE m = n
        <3>1. m >= 1 => m \in 1 .. m
            OBVIOUS
        <3>2. n >= 1 => n \in 1 .. n
            OBVIOUS
        <3>3. m >= 1 => m <= n
            BY <2>1, <3>1
        <3>4. n >= 1 => n <= m
            BY <2>1, <3>2
        <3> QED BY <3>3, <3>4
    <2> QED BY <1>1, <1>5, <1>6, <2>1
<1> HIDE DEF at
<1>8. \A i \in 1 .. Len(a) - 1 : r[i] = IF i < p THEN a[i] ELSE a[i + 1]
    BY <1>2
<1> QED BY <1>3, <1>7, <1>8

(* A timer that leaves the heap, fired or cancelled, leaves the order.     *)
LEMMA ArrivedWithout ==
    ASSUME NEW ts, ts \subseteq Timer, IdsDiffer(ts), NEW a, Arrived(ts, a), NEW t \in ts
    PROVE  Arrived(ts \ {t}, Without(a, t.id))
<1> DEFINE b == Without(a, t.id)
           from(i, p) == IF i < p THEN i ELSE i + 1
<1>1. a \in Seq(Nat) /\ Len(a) \in Nat
    BY DEF Arrived
<1>2. PICK p \in 1 .. Len(a) : a[p] = t.id
    BY DEF Arrived
<1>3. \A i, j \in 1 .. Len(a) : a[i] = a[j] => i = j
    BY DEF Arrived
<1>4. b \in Seq(Nat)
    BY <1>1, WithoutSeq
<1>5. Len(b) = Len(a) - 1 /\ \A i \in 1 .. Len(b) : b[i] = a[from(i, p)]
    <2>1. /\ Len(Without(a, a[p])) = Len(a) - 1
          /\ \A i \in 1 .. Len(a) - 1 :
                Without(a, a[p])[i] = IF i < p THEN a[i] ELSE a[i + 1]
        BY <1>1, <1>3, WithoutShift
    <2> QED BY <1>2, <2>1
<1> HIDE DEF b
<1>6. \A i \in 1 .. Len(b) : from(i, p) \in 1 .. Len(a) /\ from(i, p) # p
    BY <1>1, <1>5
<1>7. \A i, j \in 1 .. Len(b) : (from(i, p) = from(j, p) => i = j)
                                /\ (i < j => from(i, p) < from(j, p))
    BY <1>1, <1>5
<1>8. \A k \in 1 .. Len(a) : k # p => \E i \in 1 .. Len(b) : from(i, p) = k
    <2> SUFFICES ASSUME NEW k \in 1 .. Len(a), k # p
                 PROVE  \E i \in 1 .. Len(b) : from(i, p) = k
        OBVIOUS
    <2>1. CASE k < p
        <3>1. k \in 1 .. Len(b) /\ from(k, p) = k
            BY <2>1, <1>1, <1>5
        <3> QED BY <3>1
    <2>2. CASE k > p
        <3>1. k - 1 \in 1 .. Len(b) /\ from(k - 1, p) = k
            BY <2>2, <1>1, <1>5
        <3> QED BY <3>1
    <2> QED BY <2>1, <2>2
<1> HIDE DEF from
<1>9. \A i, j \in 1 .. Len(b) : b[i] = b[j] => i = j
    BY <1>3, <1>5, <1>6, <1>7
<1>10. \A i \in 1 .. Len(b) : \E u \in ts \ {t} : u.id = b[i]
    <2> SUFFICES ASSUME NEW i \in 1 .. Len(b) PROVE \E u \in ts \ {t} : u.id = b[i]
        OBVIOUS
    <2>1. PICK u \in ts : u.id = a[from(i, p)]
        BY <1>6 DEF Arrived
    <2>2. u # t
        BY <1>2, <1>3, <1>6, <2>1
    <2> QED BY <2>1, <2>2, <1>5
<1>11. \A u \in ts \ {t} : \E i \in 1 .. Len(b) : b[i] = u.id
    <2> SUFFICES ASSUME NEW u \in ts \ {t} PROVE \E i \in 1 .. Len(b) : b[i] = u.id
        OBVIOUS
    <2>1. PICK k \in 1 .. Len(a) : a[k] = u.id
        BY DEF Arrived
    <2>2. k # p
        BY <1>2, <2>1 DEF IdsDiffer
    <2>3. PICK i \in 1 .. Len(b) : from(i, p) = k
        BY <1>8, <2>2
    <2> QED BY <2>1, <2>3, <1>5
<1>12. \A u, v \in ts \ {t} : \A i, j \in 1 .. Len(b) :
          b[i] = u.id /\ b[j] = v.id /\ ~u.every /\ ~v.every /\ i < j => u.id < v.id
    <2> SUFFICES ASSUME NEW u \in ts \ {t}, NEW v \in ts \ {t},
                        NEW i \in 1 .. Len(b), NEW j \in 1 .. Len(b),
                        b[i] = u.id, b[j] = v.id, ~u.every, ~v.every, i < j
                 PROVE  u.id < v.id
        OBVIOUS
    <2>1. /\ from(i, p) \in 1 .. Len(a) /\ from(j, p) \in 1 .. Len(a)
          /\ a[from(i, p)] = u.id /\ a[from(j, p)] = v.id /\ from(i, p) < from(j, p)
        BY <1>5, <1>6, <1>7
    <2> QED BY <2>1 DEF Arrived
<1>13. Arrived(ts \ {t}, b)
    BY <1>4, <1>9, <1>10, <1>11, <1>12 DEF Arrived
<1> QED BY <1>13 DEF b

(* A timer that enters the heap, set or queued again, comes last: with an  *)
(* id above all others, or as an interval.                                 *)
LEMMA ArrivedAppend ==
    ASSUME NEW ts, NEW a, Arrived(ts, a), NEW n \in Timer,
           \A t \in ts : t.id # n.id,
           n.every \/ \A t \in ts : t.id < n.id
    PROVE  Arrived(ts \cup {n}, Append(a, n.id))
<1> DEFINE b == Append(a, n.id)
<1>1. a \in Seq(Nat) /\ Len(a) \in Nat /\ n.id \in Nat
    BY DEF Arrived, Timer
<1>2. /\ b \in Seq(Nat) /\ Len(b) = Len(a) + 1 /\ b[Len(a) + 1] = n.id
      /\ \A i \in 1 .. Len(a) : b[i] = a[i]
    BY <1>1
<1> HIDE DEF b
<1>3. \A i \in 1 .. Len(b) : i \in 1 .. Len(a) \/ i = Len(a) + 1
    BY <1>1, <1>2
<1>4. \A i \in 1 .. Len(a) : i \in 1 .. Len(b) /\ i < Len(a) + 1
    BY <1>1, <1>2
<1>5. Len(a) + 1 \in 1 .. Len(b)
    BY <1>1, <1>2
<1>6. \A i \in 1 .. Len(a) : b[i] # n.id
    BY <1>2 DEF Arrived
<1>7. \A i, j \in 1 .. Len(b) : b[i] = b[j] => i = j
    <2>1. \A i, j \in 1 .. Len(a) : a[i] = a[j] => i = j
        BY DEF Arrived
    <2> QED BY <1>2, <1>3, <1>6, <2>1
<1>8. \A i \in 1 .. Len(b) : \E t \in ts \cup {n} : t.id = b[i]
    <2>1. \A i \in 1 .. Len(a) : \E t \in ts : t.id = a[i]
        BY DEF Arrived
    <2> QED BY <1>2, <1>3, <2>1
<1>9. \A t \in ts \cup {n} : \E i \in 1 .. Len(b) : b[i] = t.id
    <2>1. \A t \in ts : \E i \in 1 .. Len(a) : a[i] = t.id
        BY DEF Arrived
    <2> QED BY <1>2, <1>4, <1>5, <2>1
<1>10. \A t, u \in ts \cup {n} : \A i, j \in 1 .. Len(b) :
          b[i] = t.id /\ b[j] = u.id /\ ~t.every /\ ~u.every /\ i < j => t.id < u.id
    <2> SUFFICES ASSUME NEW t \in ts \cup {n}, NEW u \in ts \cup {n},
                        NEW i \in 1 .. Len(b), NEW j \in 1 .. Len(b),
                        b[i] = t.id, b[j] = u.id, ~t.every, ~u.every, i < j
                 PROVE  t.id < u.id
        OBVIOUS
    <2>1. i \in 1 .. Len(a)
        BY <1>1, <1>2
    <2>2. t \in ts /\ a[i] = t.id
        BY <1>2, <1>6, <2>1
    <2>3. CASE j \in 1 .. Len(a)
        <3>1. u \in ts /\ a[j] = u.id
            BY <1>2, <1>6, <2>3
        <3> QED BY <2>1, <2>2, <2>3, <3>1 DEF Arrived
    <2>4. CASE j = Len(a) + 1
        <3>1. u = n
            BY <1>2, <2>4
        <3> QED BY <2>2, <3>1
    <2> QED BY <1>3, <2>3, <2>4
<1>11. Arrived(ts \cup {n}, b)
    BY <1>2, <1>7, <1>8, <1>9, <1>10 DEF Arrived
<1> QED BY <1>11 DEF b


(* What each step does to the heap and the order of arrival: nothing, one  *)
(* timer out, or one timer in, which is new or an interval.                *)
LEMMA HeapMoves ==
    ASSUME InvParts, [Next]_vars
    PROVE  \/ UNCHANGED <<timers, arrival>>
           \/ \E t \in timers : timers' = timers \ {t} /\ arrival' = Without(arrival, t.id)
           \/ \E n \in Timer :
                 /\ timers' = timers \cup {n} /\ arrival' = Append(arrival, n.id)
                 /\ \A t \in timers : t.id # n.id
                 /\ n.every \/ \A t \in timers : t.id < n.id
<1>0. Good /\ Heap
    BY DEF InvParts
<1>1. CASE StartEval \/ CallbackReturns \/ UNCHANGED vars
    BY <1>1 DEF StartEval, CallbackReturns, vars, timing
<1>2. CASE EngineStep
    <2>1. CASE \E t \in timers : SkipCancelled(t) \/ FireTimer(t)
        BY <2>1 DEF SkipCancelled, FireTimer
    <2>2. CASE Reschedule
        <3>1. CASE UNCHANGED <<timers, arrival>>
            BY <3>1
        <3>2. CASE ~UNCHANGED <<timers, arrival>>
            <4> DEFINE new == [Top.t EXCEPT !.deadline = now + Top.t.delay]
            <4>1. /\ stack # <<>> /\ Top.k = "pump" /\ Top.at = "again"
                  /\ timers' = timers \cup {new} /\ arrival' = Append(arrival, Top.t.id)
                  /\ Top.t.every
                BY <2>2, <3>2 DEF Reschedule, InAt, In
            <4>2. Top.t \in Timer /\ Clear(Popped(stack), Top, timers, nextId)
                BY <4>1, TopFrame
            <4>3. /\ Top.t.id \in Nat /\ Top.t.delay \in Nat /\ Top.t.every \in BOOLEAN
                  /\ new = [id |-> Top.t.id, deadline |-> now + Top.t.delay,
                            delay |-> Top.t.delay, every |-> Top.t.every]
                BY <4>2 DEF Timer
            <4>4. now + Top.t.delay \in Nat
                BY <1>0, <4>3 DEF Heap
            <4> HIDE DEF new
            <4>5. new \in Timer /\ new.id = Top.t.id /\ new.every
                BY <4>1, <4>3, <4>4 DEF Timer
            <4>6. \A t \in timers : t.id # new.id
                BY <4>1, <4>2, <4>5 DEF Clear, Flying
            <4> QED BY <4>1, <4>5, <4>6
        <3> QED BY <3>1, <3>2
    <2>3. CASE \/ FinishScript \/ StartPump \/ FinishEval
               \/ RunJob \/ HitJobLimit \/ DrainDone
               \/ PumpEmpty \/ HitTimerLimit \/ Checkpoint
        BY <2>3 DEF FinishScript, StartPump, FinishEval, RunJob, HitJobLimit, DrainDone,
                    PumpEmpty, HitTimerLimit, Checkpoint, timing
    <2> QED BY <1>2, <2>1, <2>2, <2>3 DEF EngineStep
<1>3. CASE UserStep
    <2>1. CASE \E d \in Delays, every \in BOOLEAN : SetTimer(d, every)
        <3>1. PICK d \in Delays, every \in BOOLEAN : SetTimer(d, every)
            BY <2>1
        <3> DEFINE new == [id |-> nextId, deadline |-> now + d,
                           delay |-> IF every THEN d ELSE 0, every |-> every]
        <3>2. timers' = timers \cup {new} /\ arrival' = Append(arrival, nextId)
            BY <3>1 DEF SetTimer
        <3>3. new \in Timer /\ new.id = nextId
            BY <1>0, LoopAssumption DEF Heap, Timer
        <3> HIDE DEF new
        <3>4. \A t \in timers : t.id # nextId /\ t.id < nextId
            BY <1>0 DEF Heap, Timer
        <3> QED BY <3>2, <3>3, <3>4
    <2>2. CASE (\E id \in 1 .. MaxTimers : ClearTimer(id)) \/ QueueJob \/ Allocate
        BY <2>2 DEF ClearTimer, QueueJob, Allocate, timing
    <2> QED BY <1>3, <2>1, <2>2 DEF UserStep
<1> QED BY <1>1, <1>2, <1>3 DEF Next

(* The order of arrival stays the order of the ids, timeouts only.         *)
LEMMA ArrivedStep ==
    InvParts /\ Arrived(timers, arrival) /\ [Next]_vars => Arrived(timers, arrival)'
<1> SUFFICES ASSUME InvParts, Arrived(timers, arrival), [Next]_vars
             PROVE  Arrived(timers', arrival')
    BY DEF Arrived
<1>1. timers \subseteq Timer /\ IdsDiffer(timers)
    BY DEF InvParts, Heap, IdsDiffer
<1>2. CASE UNCHANGED <<timers, arrival>>
    BY <1>2
<1>3. CASE \E t \in timers : timers' = timers \ {t} /\ arrival' = Without(arrival, t.id)
    <2>1. PICK t \in timers : timers' = timers \ {t} /\ arrival' = Without(arrival, t.id)
        BY <1>3
    <2>2. Arrived(timers \ {t}, Without(arrival, t.id))
        BY <1>1, ArrivedWithout
    <2> QED BY <2>1, <2>2
<1>4. CASE \E n \in Timer :
               /\ timers' = timers \cup {n} /\ arrival' = Append(arrival, n.id)
               /\ \A t \in timers : t.id # n.id
               /\ n.every \/ \A t \in timers : t.id < n.id
    <2>1. PICK n \in Timer :
              /\ timers' = timers \cup {n} /\ arrival' = Append(arrival, n.id)
              /\ \A t \in timers : t.id # n.id
              /\ n.every \/ \A t \in timers : t.id < n.id
        BY <1>4
    <2>2. Arrived(timers \cup {n}, Append(arrival, n.id))
        BY <2>1, ArrivedAppend
    <2> QED BY <2>1, <2>2
<1> QED BY <1>2, <1>3, <1>4, HeapMoves

(* Of two timeouts due at the same time the one queued first fires first,  *)
(* also when others were cleared, fired or queued in between.              *)
LEMMA FifoFire ==
    ASSUME InvParts, Arrived(timers, arrival), NEW t \in timers, NEW u \in timers,
           FireTimer(t), u # t, u.deadline = t.deadline, ~t.every, ~u.every
    PROVE  Position(t.id) < Position(u.id)
<1>1. t \in Timer /\ u \in Timer /\ t.id # u.id
    BY DEF InvParts, Heap
<1>2. t.id < u.id
    BY <1>1 DEF FireTimer, Earliest, Timer
<1>3. DOMAIN arrival = 1 .. Len(arrival) /\ Len(arrival) \in Nat
    BY DEF Arrived
<1>4. ASSUME NEW x \in timers
      PROVE  Position(x.id) \in 1 .. Len(arrival) /\ arrival[Position(x.id)] = x.id
    <2>1. \E i \in 1 .. Len(arrival) : arrival[i] = x.id
        BY DEF Arrived
    <2> QED BY <1>3, <2>1 DEF Position
<1>5. /\ Position(t.id) \in 1 .. Len(arrival) /\ arrival[Position(t.id)] = t.id
      /\ Position(u.id) \in 1 .. Len(arrival) /\ arrival[Position(u.id)] = u.id
    BY <1>4
<1>6. ~(Position(u.id) < Position(t.id))
    <2>1. Position(u.id) < Position(t.id) => u.id < t.id
        BY <1>5 DEF Arrived
    <2> QED BY <1>1, <1>2, <2>1 DEF Timer
<1>7. Position(u.id) # Position(t.id)
    BY <1>1, <1>5
<1> QED BY <1>3, <1>5, <1>6, <1>7

(* Timeouts with equal deadlines fire in the order they were queued.       *)
THEOREM FifoTimeoutsAlways == Spec => FifoTimeouts
<1>1. Init => FifoInv
    <2>1. Init => Arrived(timers, arrival)
        BY DEF Init, Arrived
    <2> QED BY <2>1, InitParts, Parts DEF FifoInv
<1>2. FifoInv /\ [Next]_vars => FifoInv'
    <2>1. FifoInv <=> InvParts /\ Arrived(timers, arrival)
        BY Parts DEF FifoInv
    <2> QED BY <2>1, NextParts, ArrivedStep, PTL
<1>3. FifoInv => [\A t, u \in timers :
          FireTimer(t) /\ u # t /\ u.deadline = t.deadline /\ ~t.every /\ ~u.every
              => Position(t.id) < Position(u.id)]_vars
    BY Parts, FifoFire DEF FifoInv
<1> QED BY <1>1, <1>2, <1>3, PTL DEF Spec, FifoTimeouts


-----------------------------------------------------------------------------
(* Timers that were cleared.  The engine forgets a cancelled id when it     *)
(* meets the timer, and all of them when a pump finds the heap empty; the  *)
(* second is safe as long as no interval is in flight below, that is when  *)
(* user code does not call eval.                                           *)

NoNesting == "eval" \notin Api

SingleEval(s) == \A i \in 1 .. Len(s) : s[i].k = "eval" => i = 1
Forgotten == cleared \ cancelled
Spared(s, ts, ids) ==
    /\ \A t \in ts : t.id \notin ids
    /\ \A i \in 1 .. Len(s) : Flying(s[i]) => s[i].t.id \notin ids
ClearInv ==
    /\ LoopInv
    /\ SingleEval(stack)
    /\ Spared(stack, timers, Forgotten)
    /\ \A id \in cleared : id < nextId

(* The frames of r that are evaluations or in flight come from s, but for  *)
(* an evaluation at the bottom and the timers in fired.                    *)
Follows(s, r, fired) ==
    \A i \in 1 .. Len(r) :
       /\ r[i].k = "eval" => i = 1 \/ (i \in 1 .. Len(s) /\ s[i].k = "eval")
       /\ Flying(r[i]) => \/ i \in 1 .. Len(s) /\ Flying(s[i]) /\ r[i].t = s[i].t
                          \/ r[i].t \in fired

LEMMA PoppedSeq ==
    ASSUME NEW s \in Seq(Frame), s # <<>>
    PROVE  /\ Popped(s) \in Seq(Frame) /\ Len(Popped(s)) = Len(s) - 1 /\ Len(s) >= 1
           /\ \A i \in 1 .. Len(Popped(s)) : Popped(s)[i] = s[i]
<1> DEFINE u == Popped(s)
<1>1. Len(s) \in Nat /\ Len(s) >= 1
    OBVIOUS
<1>2. u \in Seq(Frame)
    BY <1>1 DEF Popped
<1>3. 1 \in Int /\ Len(s) - 1 \in Int /\ \A i \in 1 .. Len(s) - 1 : s[i] \in Frame
    BY <1>1
<1>4. Len(u) = IF 1 <= Len(s) - 1 THEN Len(s) - 1 - 1 + 1 ELSE 0
    BY <1>3, SubSeqProperties DEF Popped
<1>5. ASSUME NEW a \in Nat, a >= 1 PROVE (IF 1 <= a - 1 THEN a - 1 - 1 + 1 ELSE 0) = a - 1
    BY <1>5
<1>6. Len(u) = Len(s) - 1
    BY <1>1, <1>4, <1>5
<1>7. \A i \in 1 .. Len(u) : u[i] = s[i]
    BY <1>1, <1>6 DEF Popped
<1> QED BY <1>1, <1>2, <1>6, <1>7

(* Returning, going on, and calling *)
LEMMA FollowsPop ==
    ASSUME NEW s \in Seq(Frame), s # <<>>, NEW fired PROVE Follows(s, Popped(s), fired)
<1>1. /\ Len(Popped(s)) = Len(s) - 1 /\ Len(s) \in Nat
      /\ \A i \in 1 .. Len(Popped(s)) : Popped(s)[i] = s[i]
    BY PoppedSeq
<1>2. \A i \in 1 .. Len(Popped(s)) : i \in 1 .. Len(s)
    BY <1>1
<1> QED BY <1>1, <1>2 DEF Follows

LEMMA FollowsGoOn ==
    ASSUME NEW s \in Seq(Frame), s # <<>>, NEW fired, NEW f \in Frame,
           f.k = "eval" => Last(s).k = "eval",
           Flying(f) => (Flying(Last(s)) /\ f.t = Last(s).t) \/ f.t \in fired
    PROVE  Follows(s, Append(Popped(s), f), fired)
<1> DEFINE u == Popped(s)
           r == Append(u, f)
<1>1. /\ u \in Seq(Frame) /\ Len(u) = Len(s) - 1 /\ Len(s) \in Nat /\ Len(s) >= 1
      /\ \A i \in 1 .. Len(u) : u[i] = s[i]
    BY PoppedSeq
<1> HIDE DEF u
<1>2. /\ Len(r) = Len(s) /\ r[Len(s)] = f
      /\ \A i \in 1 .. Len(s) : i # Len(s) => r[i] = s[i]
    BY <1>1
<1> HIDE DEF r
<1>3. \A i \in 1 .. Len(r) : i \in 1 .. Len(s)
    BY <1>2
<1>4. Follows(s, r, fired)
    BY <1>2, <1>3 DEF Follows, Last
<1> QED BY <1>4 DEF r, u

LEMMA FollowsCall ==
    ASSUME NEW s, NEW r \in Seq(Frame), NEW fired, Follows(s, r, fired), NEW g \in Frame,
           ~Flying(g), g.k = "eval" => r = <<>>
    PROVE  Follows(s, Append(r, g), fired)
<1> DEFINE q == Append(r, g)
<1>1. /\ Len(r) \in Nat /\ Len(q) = Len(r) + 1 /\ q[Len(r) + 1] = g
      /\ \A i \in 1 .. Len(r) : q[i] = r[i]
    OBVIOUS
<1>2. r = <<>> => Len(r) + 1 = 1
    OBVIOUS
<1> HIDE DEF q
<1>3. \A i \in 1 .. Len(q) : i \in 1 .. Len(r) \/ i = Len(r) + 1
    BY <1>1
<1>4. Follows(s, q, fired)
    BY <1>1, <1>2, <1>3 DEF Follows
<1> QED BY <1>4 DEF q

(* What the invariant says of the next stack *)
LEMMA FollowsSpared ==
    ASSUME NEW s, NEW r, NEW fired, Follows(s, r, fired), NEW ts, NEW ids, NEW ts2, NEW ids2,
           SingleEval(s), Spared(s, ts, ids),
           \A t \in ts2 : t.id \notin ids2,
           \A t \in fired : t.id \notin ids2,
           \A i \in 1 .. Len(s) : Flying(s[i]) => s[i].t.id \notin ids2 \/ s[i].t.id \in ids
    PROVE  SingleEval(r) /\ Spared(r, ts2, ids2)
<1>1. SingleEval(r)
    BY DEF Follows, SingleEval
<1>2. ASSUME NEW i \in 1 .. Len(r), Flying(r[i]) PROVE r[i].t.id \notin ids2
    <2>1. CASE i \in 1 .. Len(s) /\ Flying(s[i]) /\ r[i].t = s[i].t
        BY <2>1 DEF Spared
    <2>2. CASE r[i].t \in fired
        BY <2>2
    <2> QED BY <1>2, <2>1, <2>2 DEF Follows
<1> QED BY <1>1, <1>2 DEF Spared

(* With one evaluation on the stack, at its bottom, there is one pump.     *)
LEMMA OnePump ==
    ASSUME Good, SingleEval(stack), stack # <<>>, Last(stack).k = "pump"
    PROVE  \A i \in 1 .. Len(Popped(stack)) : Popped(stack)[i].k # "pump"
<1>1. stack \in Seq(Frame) /\ Len(stack) \in Nat /\ stack[1].k = "eval"
      /\ \A i \in 1 .. Len(stack) : i > 1 => Allowed(stack[i - 1], stack[i])
    BY DEF Good, StackOK
<1>2. ASSUME NEW i \in 1 .. Len(stack), stack[i].k = "pump" PROVE i = 2
    <2>1. i # 1
        BY <1>1, <1>2
    <2>2. i > 1 /\ i - 1 \in 1 .. Len(stack)
        BY <1>1, <2>1
    <2>3. stack[i - 1].k = "eval"
        BY <1>1, <1>2, <2>2 DEF Allowed
    <2>4. i - 1 = 1
        BY <2>2, <2>3 DEF SingleEval
    <2> QED BY <2>2, <2>4
<1>3. Len(stack) \in 1 .. Len(stack)
    BY <1>1
<1>4. Len(stack) = 2
    BY <1>2, <1>3 DEF Last
<1>5. /\ Len(Popped(stack)) = Len(stack) - 1
      /\ \A i \in 1 .. Len(Popped(stack)) : Popped(stack)[i] = stack[i]
    BY <1>1, PoppedSeq
<1> QED BY <1>1, <1>2, <1>4, <1>5


(* The steps other than Reschedule leave in flight what was in flight, and *)
(* the timer they fire.                                                    *)
LEMMA StackMoves ==
    ASSUME InvParts, NoNesting, [Next]_vars, ~Reschedule, NEW fired,
           \A t \in timers : FireTimer(t) => t \in fired
    PROVE  Follows(stack, stack', fired)
<1>0. Good /\ stack \in Seq(Frame)
    BY TopIs DEF InvParts
<1>1. CASE UNCHANGED stack
    BY <1>1 DEF Follows
<1>2. CASE stack # <<>> /\ Return
    <2>1. stack' = Popped(stack)
        BY <1>2 DEF Return, Below, Popped
    <2> QED BY <1>0, <1>2, <2>1, FollowsPop
<1>3. ASSUME NEW f \in Frame, NEW g \in Frame, stack # <<>>, ThenCall(f, g),
             f.k = Last(stack).k,
             Flying(f) => (Flying(Last(stack)) /\ f.t = Last(stack).t) \/ f.t \in fired,
             ~Flying(g), g.k # "eval"
      PROVE  Follows(stack, stack', fired)
    <2>1. Follows(stack, Append(Popped(stack), f), fired)
        BY <1>0, <1>3, FollowsGoOn
    <2>2. Popped(stack) \in Seq(Frame)
        BY <1>0, <1>3, PoppedSeq
    <2>3. Append(Popped(stack), f) \in Seq(Frame)
        BY <2>2
    <2>4. Follows(stack, Append(Append(Popped(stack), f), g), fired)
        BY <1>3, <2>1, <2>3, FollowsCall
    <2> QED BY <1>3, <2>4 DEF ThenCall, Below, Popped
<1>4. CASE StartEval
    <2>1. stack = <<>> /\ stack' = Append(stack, EvalFrame)
        BY <1>4 DEF StartEval, Calls, NoNesting, Call
    <2>2. Follows(stack, <<>>, fired)
        BY DEF Follows
    <2>3. ~Flying(EvalFrame) /\ EvalFrame \in Frame
        BY NewFrames DEF Flying, EvalFrame
    <2>4. <<>> \in Seq(Frame)
        OBVIOUS
    <2> QED BY <2>1, <2>2, <2>3, <2>4, FollowsCall
<1>5. CASE FinishScript
    <2>1. stack # <<>> /\ Top = Last(stack) /\ Top.k = "eval" /\ Top \in Frame
        BY <1>5, TopFrame DEF FinishScript, InAt, In
    <2>2. CASE Return
        BY <1>2, <2>1, <2>2
    <2>3. CASE ThenCall([Top EXCEPT !.at = "drain"], DrainFrame)
        <3> DEFINE f == [Top EXCEPT !.at = "drain"]
        <3>1. f \in Frame /\ f.k = "eval"
            BY <2>1 DEF Frame
        <3>2. ThenCall(f, DrainFrame)
            BY <2>3
        <3> HIDE DEF f
        <3>3. ~Flying(f) /\ ~Flying(DrainFrame) /\ DrainFrame.k # "eval"
            BY <3>1 DEF Flying, DrainFrame
        <3> QED BY <1>3, <2>1, <3>1, <3>2, <3>3, NewFrames
    <2> QED BY <1>5, <2>2, <2>3 DEF FinishScript
<1>6. CASE StartPump
    <2>1. stack # <<>> /\ Top = Last(stack) /\ Top.k = "eval" /\ Top \in Frame
        BY <1>6, TopFrame DEF StartPump, InAt, In
    <2> DEFINE f == [Top EXCEPT !.at = "pump"]
    <2>2. f \in Frame /\ f.k = "eval"
        BY <2>1 DEF Frame
    <2>3. ThenCall(f, PumpFrame)
        BY <1>6 DEF StartPump
    <2> HIDE DEF f
    <2>4. ~Flying(f) /\ ~Flying(PumpFrame) /\ PumpFrame.k # "eval"
        BY <2>2 DEF Flying, PumpFrame
    <2> QED BY <1>3, <2>1, <2>2, <2>3, <2>4, NewFrames
<1>7. CASE RunJob
    <2>1. stack # <<>> /\ Top = Last(stack) /\ Top.k = "drain" /\ Top \in Frame /\ Top.n \in Nat
        BY <1>7, TopFrame DEF RunJob, In
    <2> DEFINE f == [Top EXCEPT !.n = @ + 1]
               g == UserFrame("job")
    <2>2. f \in Frame /\ f.k = "drain"
        BY <2>1 DEF Frame
    <2>3. ThenCall(f, g)
        BY <1>7 DEF RunJob
    <2>4. g \in Frame /\ g.k = "job"
        BY NewFrames DEF UserFrame
    <2> HIDE DEF f, g
    <2>5. ~Flying(f) /\ ~Flying(g) /\ g.k # "eval"
        BY <2>2, <2>4 DEF Flying
    <2> QED BY <1>3, <2>1, <2>2, <2>3, <2>4, <2>5
<1>8. CASE Checkpoint
    <2>1. /\ stack # <<>> /\ Top = Last(stack) /\ Top.k = "pump" /\ Top.at = "checkpoint"
          /\ Top \in Frame
        BY <1>8, TopFrame DEF Checkpoint, InAt, In
    <2> DEFINE f == [Top EXCEPT !.at = "again"]
    <2>2. f \in Frame /\ f.k = "pump" /\ f.t = Top.t
        BY <2>1 DEF Frame
    <2>3. ThenCall(f, DrainFrame)
        BY <1>8 DEF Checkpoint
    <2> HIDE DEF f
    <2>4. Flying(Last(stack)) /\ ~Flying(DrainFrame) /\ DrainFrame.k # "eval"
        BY <2>1 DEF Flying, DrainFrame
    <2> QED BY <1>3, <2>1, <2>2, <2>3, <2>4, NewFrames
<1>9. ASSUME NEW t \in timers, FireTimer(t) PROVE Follows(stack, stack', fired)
    <2>1. /\ stack # <<>> /\ Top = Last(stack) /\ Top.k = "pump" /\ Top \in Frame
          /\ Top.n \in Nat
        BY <1>9, TopFrame DEF FireTimer, Picking, InAt, In
    <2> DEFINE f == Firing(Top.n + 1, t)
               g == UserFrame("callback")
    <2>2. f \in Frame /\ f.k = "pump" /\ f.t = t
        <3>1. Top.n + 1 \in Nat /\ t \in Timer
            BY <2>1 DEF InvParts, Heap
        <3> QED BY <3>1 DEF Frame, Firing
    <2>3. ThenCall(f, g) /\ t \in fired
        BY <1>9 DEF FireTimer
    <2>4. g \in Frame /\ g.k = "callback"
        BY NewFrames DEF UserFrame
    <2> HIDE DEF f, g
    <2>5. ~Flying(g) /\ g.k # "eval"
        BY <2>4 DEF Flying
    <2> QED BY <1>3, <2>1, <2>2, <2>3, <2>4, <2>5
<1>10. CASE FinishEval \/ HitJobLimit \/ DrainDone \/ CallbackReturns \/ HitTimerLimit
            \/ PumpEmpty
    <2>1. stack # <<>> /\ Return
        BY <1>10 DEF FinishEval, HitJobLimit, DrainDone, CallbackReturns, HitTimerLimit,
                     PumpEmpty, Picking, InAt, In
    <2> QED BY <1>2, <2>1
<1>11. CASE (\E t \in timers : SkipCancelled(t)) \/ UserStep \/ UNCHANGED vars
    <2>1. UNCHANGED stack
        BY <1>11 DEF SkipCancelled, UserStep, SetTimer, ClearTimer, QueueJob, Allocate, vars
    <2> QED BY <1>1, <2>1
<1> QED BY <1>4, <1>5, <1>6, <1>7, <1>8, <1>9, <1>10, <1>11 DEF Next, EngineStep


(* When the pump goes on or returns, nothing is in flight. *)
LEMMA NoneFlying ==
    ASSUME InvParts, SingleEval(stack), PumpEmpty \/ Reschedule
    PROVE  SingleEval(stack') /\ \A i \in 1 .. Len(stack') : ~Flying(stack'[i])
<1>0. Good /\ stack \in Seq(Frame)
    BY TopIs DEF InvParts
<1>1. stack # <<>> /\ Top.k = "pump"
    BY DEF PumpEmpty, Reschedule, Picking, InAt, In
<1>2. Top = Last(stack) /\ Top \in Frame
    BY <1>1, TopFrame
<1>3. \A i \in 1 .. Len(Popped(stack)) : ~Flying(Popped(stack)[i])
    BY <1>0, <1>1, <1>2, OnePump DEF Flying
<1>4. CASE PumpEmpty
    <2>1. stack' = Popped(stack)
        BY <1>4 DEF PumpEmpty, Return, Below, Popped
    <2>2. Follows(stack, stack', {})
        BY <1>0, <1>1, <2>1, FollowsPop
    <2>3. SingleEval(stack')
        BY <2>2 DEF Follows, SingleEval
    <2> QED BY <1>3, <2>1, <2>3
<1>5. CASE Reschedule
    <2> DEFINE f == [Top EXCEPT !.at = "pick", !.t = NoTimer]
    <2>1. stack' = Append(Popped(stack), f)
        BY <1>5 DEF Reschedule, ContinueAs, Below, Popped
    <2>2. f \in Frame /\ f.k = "pump" /\ f.at = "pick"
        BY <1>1, <1>2, NewFrames DEF Frame
    <2> HIDE DEF f
    <2>3. ~Flying(f)
        BY <2>2 DEF Flying
    <2>4. Follows(stack, stack', {})
        BY <1>0, <1>1, <2>1, <2>2, <2>3, FollowsGoOn
    <2>5. SingleEval(stack')
        BY <2>4 DEF Follows, SingleEval
    <2>6. /\ Popped(stack) \in Seq(Frame)
          /\ Len(stack') = Len(Popped(stack)) + 1 /\ stack'[Len(Popped(stack)) + 1] = f
          /\ \A i \in 1 .. Len(Popped(stack)) : stack'[i] = Popped(stack)[i]
        <3>1. Popped(stack) \in Seq(Frame)
            BY <1>0, <1>1, PoppedSeq
        <3> QED BY <2>1, <2>2, <3>1
    <2>7. \A i \in 1 .. Len(stack') : i \in 1 .. Len(Popped(stack))
                                     \/ i = Len(Popped(stack)) + 1
        BY <2>6
    <2> QED BY <1>3, <2>3, <2>5, <2>6, <2>7
<1> QED BY <1>4, <1>5

(* An id stays cleared until the engine has met its timer. *)
LEMMA ClearStep ==
    ASSUME InvParts, NoNesting, [Next]_vars, SingleEval(stack),
           Spared(stack, timers, Forgotten), \A id \in cleared : id < nextId
    PROVE  /\ SingleEval(stack') /\ Spared(stack', timers', cleared' \ cancelled')
           /\ \A id \in cleared' : id < nextId'
<1>0. Heap /\ Good /\ nextId \in Nat /\ cleared \subseteq Nat
    BY DEF InvParts, Heap
<1> DEFINE fired == {t \in timers : FireTimer(t)}
<1>1. ~Reschedule => Follows(stack, stack', fired)
    BY StackMoves
<1>2. \A t \in timers : t.id \notin Forgotten
    BY DEF Spared
<1>3. \A i \in 1 .. Len(stack) : Flying(stack[i]) => \A t \in timers : t.id # stack[i].t.id
    BY <1>0 DEF Good, StackOK
<1>4. ASSUME NEW ids2, NEW ts2, ~Reschedule,
             cleared' \ cancelled' = ids2, timers' = ts2,
             \A t \in ts2 : t.id \notin ids2, \A t \in fired : t.id \notin ids2,
             \A i \in 1 .. Len(stack) :
                 Flying(stack[i]) => stack[i].t.id \notin ids2 \/ stack[i].t.id \in Forgotten
      PROVE  SingleEval(stack') /\ Spared(stack', timers', cleared' \ cancelled')
    <2>1. SingleEval(stack') /\ Spared(stack', ts2, ids2)
        <3> HIDE DEF fired
        <3> QED BY <1>1, <1>4, FollowsSpared
    <2> QED BY <1>4, <2>1
<1>5. CASE PumpEmpty
    <2>1. timers' = {} /\ UNCHANGED <<cleared, nextId>>
        BY <1>5 DEF PumpEmpty
    <2> QED BY <1>5, <2>1, NoneFlying DEF Spared
<1>6. CASE Reschedule
    <2>1. UNCHANGED <<cleared, nextId>>
        BY <1>6 DEF Reschedule
    <2>2. stack # <<>> /\ Top.k = "pump" /\ Top.at = "again" /\ Top = Last(stack)
        BY <1>6, TopFrame DEF Reschedule, InAt, In
    <2>3. Top.t.id \notin Forgotten /\ \A t \in timers : t.id # Top.t.id
        <3>1. Len(stack) \in 1 .. Len(stack)
            <4>1. stack \in Seq(Frame)
                BY <1>0 DEF Good, StackOK
            <4> QED BY <2>2, <4>1
        <3>2. Flying(stack[Len(stack)]) /\ Top = stack[Len(stack)]
            BY <2>2 DEF Flying, Last
        <3> QED BY <1>3, <3>1, <3>2 DEF Spared
    <2>4. \A t \in timers' : t.id \notin cleared' \ cancelled'
        <3>1. CASE ~Top.t.every
            <4>1. timers' = timers /\ cancelled' = cancelled
                BY <1>6, <3>1 DEF Reschedule
            <4> QED BY <1>2, <2>1, <4>1 DEF Forgotten
        <3>2. CASE Top.t.every /\ Top.t.id \in cancelled
            <4>1. timers' = timers
                  /\ cancelled' = IF timers = {} THEN {} ELSE cancelled \ {Top.t.id}
                BY <1>6, <3>2 DEF Reschedule
            <4> QED BY <1>2, <2>1, <2>3, <4>1 DEF Forgotten
        <3>3. CASE Top.t.every /\ Top.t.id \notin cancelled
            <4> DEFINE new == [Top.t EXCEPT !.deadline = now + Top.t.delay]
            <4>1. timers' = timers \cup {new}
                  /\ cancelled' = IF timers = {} THEN {} ELSE cancelled \ {Top.t.id}
                BY <1>6, <3>3 DEF Reschedule
            <4>2. Top.t \in Timer
                BY <2>2, TopFrame
            <4>3. new.id = Top.t.id
                BY <4>2 DEF Timer
            <4> HIDE DEF new
            <4>4. Top.t.id \notin cleared
                BY <2>3, <3>3 DEF Forgotten
            <4>5. CASE timers = {}
                BY <2>1, <4>1, <4>3, <4>4, <4>5
            <4>6. CASE timers # {}
                <5>1. cancelled' = cancelled
                    BY <3>3, <4>1, <4>6
                <5> QED BY <1>2, <2>1, <4>1, <4>3, <4>4, <5>1 DEF Forgotten
            <4> QED BY <4>5, <4>6
        <3> QED BY <3>1, <3>2, <3>3
    <2> QED BY <1>6, <2>1, <2>4, NoneFlying DEF Spared
<1>7. ASSUME NEW t \in timers, SkipCancelled(t)
      PROVE  /\ SingleEval(stack') /\ Spared(stack', timers', cleared' \ cancelled')
             /\ \A id \in cleared' : id < nextId'
    <2>1. /\ timers' = timers \ {t} /\ cancelled' = cancelled \ {t.id}
          /\ UNCHANGED <<cleared, nextId, stack>>
        BY <1>7 DEF SkipCancelled
    <2>2. \A u \in timers \ {t} : u.id # t.id
        BY <1>0 DEF Heap
    <2>3. \A x : x \in cleared' \ cancelled' => x \in Forgotten \/ x = t.id
        BY <2>1 DEF Forgotten
    <2>4. \A u \in timers' : u.id \notin cleared' \ cancelled'
        BY <1>2, <2>1, <2>2, <2>3
    <2>5. \A i \in 1 .. Len(stack) : Flying(stack[i]) => stack[i].t.id \notin cleared' \ cancelled'
        BY <1>3, <2>3 DEF Spared
    <2> QED BY <2>1, <2>4, <2>5 DEF Spared
<1>8. CASE \E d \in Delays, every \in BOOLEAN : SetTimer(d, every)
    <2>1. PICK d \in Delays, every \in BOOLEAN : SetTimer(d, every)
        BY <1>8
    <2> DEFINE new == [id |-> nextId, deadline |-> now + d,
                       delay |-> IF every THEN d ELSE 0, every |-> every]
    <2>2. /\ timers' = timers \cup {new} /\ nextId' = nextId + 1
          /\ UNCHANGED <<cancelled, cleared, stack>>
        BY <2>1 DEF SetTimer
    <2>3. new.id = nextId
        OBVIOUS
    <2> HIDE DEF new
    <2>4. \A id \in cleared : id < nextId + 1 /\ id # nextId
        BY <1>0
    <2>5. \A t \in timers' : t.id \notin cleared' \ cancelled'
        BY <1>2, <2>2, <2>3, <2>4 DEF Forgotten
    <2> QED BY <2>2, <2>4, <2>5 DEF Spared, Forgotten
<1>9. CASE \E id \in 1 .. MaxTimers : ClearTimer(id)
    <2>1. PICK id \in 1 .. MaxTimers : ClearTimer(id)
        BY <1>9
    <2>2. /\ cancelled' = cancelled \cup {id}
          /\ cleared' = IF id < nextId THEN cleared \cup {id} ELSE cleared
          /\ UNCHANGED <<timers, stack, nextId>>
        BY <2>1 DEF ClearTimer
    <2>3. \A x : x \in cleared' \ cancelled' => x \in Forgotten
        BY <2>2 DEF Forgotten
    <2>4. \A x \in cleared' : x < nextId'
        BY <2>2
    <2> QED BY <2>2, <2>3, <2>4 DEF Spared
<1>10. ASSUME NEW t \in timers, FireTimer(t)
       PROVE  /\ SingleEval(stack') /\ Spared(stack', timers', cleared' \ cancelled')
              /\ \A id \in cleared' : id < nextId'
    <2>1. timers' = timers \ {t} /\ UNCHANGED <<cancelled, cleared, nextId>>
        BY <1>10 DEF FireTimer
    <2>2. ~Reschedule
        BY <1>10 DEF FireTimer, Reschedule, Picking, InAt, In
    <2>3. cleared' \ cancelled' = Forgotten
        BY <2>1 DEF Forgotten
    <2>4. \A u \in timers \ {t} : u.id \notin Forgotten
        BY <1>2
    <2>5. \A u \in fired : u.id \notin Forgotten
        BY <1>2
    <2>6. SingleEval(stack') /\ Spared(stack', timers', cleared' \ cancelled')
        <3> HIDE DEF fired
        <3> QED BY <1>4, <2>1, <2>2, <2>3, <2>4, <2>5
    <2> QED BY <2>1, <2>6
<1>11. CASE \/ StartEval \/ CallbackReturns \/ FinishScript \/ StartPump \/ FinishEval
            \/ RunJob \/ HitJobLimit \/ DrainDone \/ HitTimerLimit \/ Checkpoint
            \/ QueueJob \/ Allocate \/ UNCHANGED vars
    <2>1. UNCHANGED <<timers, cancelled, cleared, nextId>>
        BY <1>11 DEF StartEval, CallbackReturns, FinishScript, StartPump, FinishEval, RunJob,
                     HitJobLimit, DrainDone, HitTimerLimit, Checkpoint, QueueJob, Allocate,
                     vars, timing
    <2>2. CASE Reschedule
        BY <1>6, <2>2
    <2>3. CASE ~Reschedule
        <3>1. cleared' \ cancelled' = Forgotten
            BY <2>1 DEF Forgotten
        <3>2. \A u \in fired : u.id \notin Forgotten
            BY <1>2
        <3>3. SingleEval(stack') /\ Spared(stack', timers', cleared' \ cancelled')
            <4> HIDE DEF fired
            <4> QED BY <1>2, <1>4, <2>1, <2>3, <3>1, <3>2
        <3> QED BY <2>1, <3>3
    <2> QED BY <1>6, <2>2, <2>3
<1> QED BY <1>5, <1>6, <1>7, <1>8, <1>9, <1>10, <1>11 DEF Next, EngineStep, UserStep


(* A timer that was cleared never fires again, waiting in the heap or in   *)
(* flight as an interval, as long as user code does not call eval, whose   *)
(* nested pump may forget that an interval below it was cleared.           *)
THEOREM ClearedStaysClearAlways == NoNesting => (Spec => ClearedStaysClear)
<1> SUFFICES ASSUME NoNesting PROVE Spec => ClearedStaysClear
    OBVIOUS
<1>1. Init => ClearInv
    <2>1. Init => /\ SingleEval(stack) /\ Spared(stack, timers, Forgotten)
                  /\ \A id \in cleared : id < nextId
        BY DEF Init, SingleEval, Spared, Forgotten
    <2> QED BY <2>1, InitParts, Parts DEF ClearInv
<1>2. ClearInv /\ [Next]_vars => ClearInv'
    <2>1. ASSUME ClearInv, [Next]_vars
          PROVE  /\ SingleEval(stack') /\ Spared(stack', timers', cleared' \ cancelled')
                 /\ \A id \in cleared' : id < nextId'
        BY <2>1, ClearStep, Parts DEF ClearInv
    <2>2. LoopInv /\ [Next]_vars => LoopInv'
        BY NextParts, Parts, PTL
    <2> QED BY <2>1, <2>2 DEF ClearInv, SingleEval, Spared, Forgotten
<1>3. ClearInv => [\A t \in timers : FireTimer(t) => t.id \notin cleared]_vars
    BY DEF ClearInv, Spared, Forgotten, FireTimer
<1> QED BY <1>1, <1>2, <1>3, PTL DEF Spec, ClearedStaysClear

===============================================================================
