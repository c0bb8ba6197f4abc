------------------------------ MODULE RpcQueue ------------------------------
(***************************************************************************)
(* The queue of packages/rpc-utils (createQueue in src/utils/queue.ts),    *)
(* with which rateLimit throttles the requests of an RPC transport.        *)
(*                                                                         *)
(* Of the clock only what the code compares is kept: whether the second is *)
(* another than that of the last call of next, and whether the timer has   *)
(* come to the end of the second in which it was set.                      *)
(***************************************************************************)
EXTENDS Integers, Sequences, FiniteSetsExt

CONSTANTS
    Tasks,
    Frequencies,    \* tasks that may start in a second; 0 is undefined
    Concurrencies,  \* tasks that may run at once; 0 is undefined
    MaxCalls        \* bound: the calls that are not add

ASSUME QueueAssumption ==
    /\ Frequencies \subseteq Nat /\ Concurrencies \subseteq Nat
    /\ MaxCalls \in Nat

VARIABLES
    queue, running, requests, isStarted, timer,
    newSecond,      \* floor(now / 1000) # timestamp
    frequency, concurrency, browser,
    idle, empty,    \* the promises of onIdle and onEmpty
    starting,       \* calls of start that wait for their first turn
    ticks,          \* scheduled calls of next
    added, calls,
    started,        \* history: tasks started in this second
    cleared         \* history: clear was called

parameters == <<frequency, concurrency>>
promises == <<idle, empty>>
vars == <<queue, running, requests, isStarted, timer, newSecond, parameters, browser,
          promises, starting, ticks, added, calls, started, cleared>>

\* validateParameters: one limit, at least, is given.
Limits == {p \in Frequencies \X Concurrencies : p # <<0, 0>>}

Pending == Cardinality(running)

TypeOK ==
    /\ queue \in Seq(Tasks) /\ running \in SUBSET Tasks
    /\ requests \in Nat /\ started \in Nat
    /\ isStarted \in BOOLEAN /\ newSecond \in BOOLEAN /\ browser \in BOOLEAN
    /\ timer \in {"none", "set", "due"}
    /\ frequency \in Frequencies /\ concurrency \in Concurrencies
    /\ idle \in {"none", "waiting", "resolved"} /\ empty \in {"none", "waiting", "resolved"}
    /\ starting \in Nat /\ ticks \in Nat
    /\ added \in SUBSET Tasks /\ calls \in 0..MaxCalls /\ cleared \in BOOLEAN
    /\ \A i \in 1..Len(queue) : queue[i] \in added \ running

Init ==
    /\ \E p \in Limits : frequency = p[1] /\ concurrency = p[2]
    /\ browser \in BOOLEAN /\ isStarted \in BOOLEAN
    /\ queue = <<>> /\ running = {} /\ requests = 0 /\ started = 0
    /\ timer = "none" /\ newSecond = TRUE
    /\ idle = "none" /\ empty = "none"
    /\ starting = 0 /\ ticks = 0
    /\ added = {} /\ calls = 0 /\ cleared = FALSE

-----------------------------------------------------------------------------
\* Faulty variant: one request too many.
OneMore(spent) == frequency + 1 - spent

\* What is left of the requests of this second.
Remaining(spent) == frequency - spent

\* How many of the queued tasks the loop of next starts.
Room(q, spent, busy) ==
    LET second == IF frequency = 0 THEN Len(q) ELSE Remaining(spent)
        worker == IF concurrency = 0 THEN Len(q) ELSE concurrency - Cardinality(busy)
    IN  Max({0, Min({Len(q), Min({second, worker})})})

\* Faulty variant: the tasks that start stay queued.
NotShifted(q, n) == q

Shifted(q, n) == SubSeq(q, n + 1, Len(q))

\* Faulty variant: the timer is not set when the requests are just spent.
Overspent(spent) == frequency # 0 /\ spent > frequency

\* The requests of this second are spent; the timer calls next in the next one.
Spent(spent) == frequency # 0 /\ spent >= frequency

\* Nothing is started while the timer runs.
RunQueue(q, busy, timeout) ==
    LET before == IF newSecond THEN 0 ELSE requests
        n == IF timeout = "none" THEN Room(q, before, busy) ELSE 0
    IN  /\ newSecond' = FALSE
        /\ requests' = before + n
        /\ started' = started + n
        /\ queue' = Shifted(q, n)
        /\ running' = busy \cup {q[i] : i \in 1..n}
        /\ timer' = IF timeout = "none" /\ Spent(before + n) THEN "set" ELSE timeout
        /\ empty' = IF n = Len(q) /\ n > 0 /\ empty = "waiting" THEN "resolved" ELSE empty

\* next(), called with these contents.
CallNext(on, q, busy, timeout) ==
    \/ on /\ RunQueue(q, busy, timeout)
    \/ /\ ~on
       /\ queue' = q /\ running' = busy /\ timer' = timeout
       /\ UNCHANGED <<newSecond, requests, started, empty>>

NoCall == UNCHANGED <<queue, running, requests, timer, newSecond, empty, started>>

Add(t) ==
    /\ t \notin added
    /\ added' = added \cup {t}
    /\ CallNext(isStarted, Append(queue, t), running, timer)
    /\ UNCHANGED <<isStarted, parameters, browser, idle, starting, ticks, calls, cleared>>

IdleAfter(busy) == IF idle = "waiting" /\ queue = <<>> /\ busy = {} THEN "resolved" ELSE idle

\* The worker has settled the task, whichever way.
Finish(t) ==
    /\ t \in running
    /\ idle' = IdleAfter(running \ {t})
    /\ \/ /\ browser
          /\ CallNext(isStarted, queue, running \ {t}, timer) /\ UNCHANGED ticks
       \/ /\ ~browser
          /\ running' = running \ {t} /\ ticks' = ticks + 1
          /\ UNCHANGED <<queue, requests, timer, newSecond, empty, started>>
    /\ UNCHANGED <<isStarted, parameters, browser, starting, added, calls, cleared>>

\* process.nextTick
RunTick ==
    /\ ticks > 0
    /\ ticks' = ticks - 1
    /\ CallNext(isStarted, queue, running, timer)
    /\ UNCHANGED <<isStarted, parameters, browser, idle, starting, added, calls, cleared>>

\* Faulty variant: the timer is not forgotten when it fires.
Kept == timer

Forgotten == "none"

TimerFires ==
    /\ timer = "due"
    /\ CallNext(isStarted, queue, running, Forgotten)
    /\ UNCHANGED <<isStarted, parameters, browser, idle, starting, ticks, added, calls, cleared>>

\* start() takes effect when its promise is resolved.
Started ==
    /\ starting > 0
    /\ starting' = starting - 1
    /\ isStarted' = TRUE
    /\ CallNext(TRUE, queue, running, timer)
    /\ UNCHANGED <<parameters, browser, idle, ticks, added, calls, cleared>>

\* The second ends.
Tick ==
    /\ newSecond' = TRUE /\ started' = 0
    /\ timer' = IF timer = "set" THEN "due" ELSE timer
    /\ UNCHANGED <<queue, running, requests, isStarted, parameters, browser, promises,
                   starting, ticks, added, calls, cleared>>

Call == calls < MaxCalls /\ calls' = calls + 1

Start ==
    /\ Call /\ NoCall
    /\ starting' = starting + 1
    /\ UNCHANGED <<isStarted, parameters, browser, idle, ticks, added, cleared>>

Pause ==
    /\ Call /\ NoCall
    /\ isStarted' = FALSE
    /\ UNCHANGED <<parameters, browser, idle, starting, ticks, added, cleared>>

\* What was queued is dropped, its promises never settle.
Clear ==
    /\ Call
    /\ queue' = <<>> /\ timer' = "none" /\ cleared' = TRUE
    /\ UNCHANGED <<running, requests, isStarted, newSecond, parameters, browser, promises,
                   starting, ticks, added, started>>

OnIdle ==
    /\ Call /\ NoCall
    /\ idle # "waiting" /\ (queue # <<>> \/ running # {})
    /\ idle' = "waiting"
    /\ UNCHANGED <<isStarted, parameters, browser, starting, ticks, added, cleared>>

OnEmpty ==
    /\ Call
    /\ empty # "waiting" /\ queue # <<>>
    /\ empty' = "waiting"
    /\ UNCHANGED <<queue, running, requests, isStarted, timer, newSecond, parameters, browser,
                   idle, starting, ticks, added, started, cleared>>

\* setParameters does not call next.
SetParameters ==
    /\ Call /\ NoCall
    /\ \E p \in Limits : frequency' = p[1] /\ concurrency' = p[2]
    /\ UNCHANGED <<isStarted, browser, idle, starting, ticks, added, cleared>>

\* What makes progress by itself: what has been scheduled gets its turn, and every
\* task settles.
Turn == RunTick \/ TimerFires \/ Started
Settle == \E t \in Tasks : Finish(t)

Next ==
    \/ \E t \in Tasks : Add(t) \/ Finish(t)
    \/ Turn \/ Tick
    \/ Start \/ Pause \/ Clear \/ OnIdle \/ OnEmpty \/ SetParameters

Spec == Init /\ [][Next]_vars

-----------------------------------------------------------------------------
(* Properties *)

\* Tasks start only within both limits, across timers, pauses and changes of
\* the limits.
StartsWithinLimits ==
    [][started' > started =>
          /\ frequency = 0 \/ started' <= frequency
          /\ concurrency = 0 \/ Cardinality(running') <= concurrency]_vars

\* A queue that is started and holds a task will call next: the timer runs, a
\* task does, or a call is scheduled.
SomethingWillCallNext ==
    isStarted /\ queue # <<>> => timer # "none" \/ running # {} \/ ticks > 0

\* Nobody waits for a queue that is empty or idle already, unless it was cleared.
WaitersAreAnswered ==
    ~cleared => /\ ~(empty = "waiting" /\ queue = <<>>)
                /\ ~(idle = "waiting" /\ queue = <<>> /\ running = {})

\* Both: neither a task nor a caller is left behind.
NobodyIsForgotten == SomethingWillCallNext /\ WaitersAreAnswered

\* A task that is queued starts, unless the queue is paused or cleared.
QueuedTasksStart ==
    \A t \in Tasks : (\E i \in 1..Len(queue) : queue[i] = t) ~>
                        (~isStarted \/ \A i \in 1..Len(queue) : queue[i] # t)
=============================================================================
