--------------------------- MODULE RpcQueueProofs ---------------------------
(***************************************************************************)
(* Proofs about RpcQueue, for any tasks and any limits: the types, the     *)
(* limits within which tasks start, that a queue with work to do is going  *)
(* to call next, and that nobody waits in vain for it to be empty or idle. *)
(*                                                                         *)
(* The types hold because a task is queued once and never while it runs;   *)
(* the limits, because requests counts the tasks started in the second of  *)
(* timestamp. Neither is said by the properties, so Inv adds them.         *)
(***************************************************************************)
EXTENDS RpcQueue, FiniteSetTheorems, SequenceTheorems, TLAPS

USE QueueAssumption

\* A task is queued once, and is not running.
Apart(q, busy, all) ==
    /\ q \in Seq(all)
    /\ busy \subseteq all /\ IsFiniteSet(busy)
    /\ \A i \in 1..Len(q) : q[i] \notin busy
    /\ \A i, j \in 1..Len(q) : q[i] = q[j] => i = j

\* The tasks that the loop of next takes off the queue.
Taken(q, n) == {q[i] : i \in 1..n}

\* What next counts are the tasks that started in this second.
Counted == started = IF newSecond THEN 0 ELSE requests

Inv == TypeOK /\ Apart(queue, running, added) /\ Counted

-----------------------------------------------------------------------------
(* The number of tasks that next starts *)

LEMMA MinOfTwo ==
    ASSUME NEW a \in Int, NEW b \in Int
    PROVE  Min({a, b}) = IF a <= b THEN a ELSE b
<1> DEFINE m == IF a <= b THEN a ELSE b
<1>1. /\ m \in {a, b}
      /\ \A y \in {a, b} : m =< y
  OBVIOUS
<1>2. \A x \in {a, b} : (\A y \in {a, b} : x =< y) => x = m
  OBVIOUS
<1>3. QED
  BY <1>1, <1>2 DEF Min

LEMMA MaxOfTwo ==
    ASSUME NEW a \in Int, NEW b \in Int
    PROVE  Max({a, b}) = IF a >= b THEN a ELSE b
<1> DEFINE m == IF a >= b THEN a ELSE b
<1>1. /\ m \in {a, b}
      /\ \A y \in {a, b} : m >= y
  OBVIOUS
<1>2. \A x \in {a, b} : (\A y \in {a, b} : x >= y) => x = m
  OBVIOUS
<1>3. QED
  BY <1>1, <1>2 DEF Max

\* The loop of next takes what is queued, unless a limit stops it before.
LEMMA RoomBounds ==
    ASSUME frequency \in Nat, concurrency \in Nat,
           NEW q, Len(q) \in Nat, NEW spent \in Nat,
           NEW busy, IsFiniteSet(busy)
    PROVE  LET n == Room(q, spent, busy)
           IN  /\ n \in 0..Len(q)
               /\ n > 0 /\ frequency # 0 => spent + n <= frequency
               /\ n > 0 /\ concurrency # 0 => Cardinality(busy) + n <= concurrency
               /\ n = 0 /\ Len(q) > 0 => \/ frequency # 0 /\ spent >= frequency
                                         \/ concurrency # 0 /\ Cardinality(busy) >= concurrency
<1> DEFINE second == IF frequency = 0 THEN Len(q) ELSE frequency - spent
           worker == IF concurrency = 0 THEN Len(q) ELSE concurrency - Cardinality(busy)
           least == IF second <= worker THEN second ELSE worker
           free == IF Len(q) <= least THEN Len(q) ELSE least
<1>1. Cardinality(busy) \in Nat
  BY FS_CardinalityType
<1>2. second \in Int /\ worker \in Int
  BY <1>1
<1>3. Min({second, worker}) = least
  BY <1>2, MinOfTwo
<1>4. least \in Int /\ free \in Int
  BY <1>2
<1>5. Min({Len(q), least}) = free
  BY <1>4, MinOfTwo
<1>6. Max({0, free}) = IF 0 >= free THEN 0 ELSE free
  BY <1>4, MaxOfTwo
<1>7. Room(q, spent, busy) = Max({0, Min({Len(q), Min({second, worker})})})
  BY DEF Room, Remaining
<1>8. Room(q, spent, busy) = IF 0 >= free THEN 0 ELSE free
  BY <1>3, <1>5, <1>6, <1>7
<1>9. QED
  BY <1>1, <1>8

\* The tasks that start come on top of those that run.
LEMMA RunningGrows ==
    ASSUME NEW busy, IsFiniteSet(busy), NEW q, NEW n \in Nat
    PROVE  /\ IsFiniteSet(busy \cup Taken(q, n))
           /\ Cardinality(busy \cup Taken(q, n)) <= Cardinality(busy) + n
<1> DEFINE taken == Taken(q, n)
           f == [i \in 1..n |-> q[i]]
<1>1. f \in Surjection(1..n, taken)
  BY DEF Surjection, Range, Taken
<1>2. IsFiniteSet(1..n) /\ Cardinality(1..n) = n
  BY FS_Interval
<1>3. IsFiniteSet(taken) /\ Cardinality(taken) <= n
  <2> HIDE DEF f, taken
  <2>1. QED
    BY <1>1, <1>2, FS_Surjection
<1>4. /\ IsFiniteSet(busy \cup taken)
      /\ Cardinality(busy \cup taken)
            = Cardinality(busy) + Cardinality(taken) - Cardinality(busy \cap taken)
  <2> HIDE DEF f, taken
  <2>1. QED
    BY <1>3, FS_Union
<1>5. IsFiniteSet(busy \cap taken)
  <2> HIDE DEF f, taken
  <2>1. busy \cap taken \in SUBSET busy
    OBVIOUS
  <2>2. QED
    BY <2>1, FS_Subset
<1>6. /\ Cardinality(busy) \in Nat /\ Cardinality(taken) \in Nat
      /\ Cardinality(busy \cap taken) \in Nat
  BY <1>3, <1>5, FS_CardinalityType
<1>7. QED
  BY <1>3, <1>4, <1>6

-----------------------------------------------------------------------------
(* What a call of next does *)

\* What is started is taken off the queue, and the rest is still apart.
LEMMA ShiftedApart ==
    ASSUME NEW q, NEW busy, NEW all, Apart(q, busy, all), NEW n \in 0..Len(q)
    PROVE  /\ Apart(Shifted(q, n), busy \cup Taken(q, n), all)
           /\ Shifted(q, n) = <<>> <=> n = Len(q)
<1> DEFINE rest == Shifted(q, n)
           more == busy \cup Taken(q, n)
<1> USE DEF Apart
<1>1. Len(q) \in Nat /\ \A i \in 1..Len(q) : q[i] \in all
  OBVIOUS
<1>2. /\ rest \in Seq(all)
      /\ Len(rest) = Len(q) - n
      /\ \A i \in 1..Len(q) - n : rest[i] = q[i + n]
  <2>1. \A i \in n + 1 .. Len(q) : q[i] \in all
    BY <1>1
  <2>2. n + 1 \in Int /\ Len(q) \in Int
    BY <1>1
  <2>3. /\ SubSeq(q, n + 1, Len(q)) \in Seq(all)
        /\ Len(SubSeq(q, n + 1, Len(q)))
              = IF n + 1 <= Len(q) THEN Len(q) - (n + 1) + 1 ELSE 0
        /\ \A i \in 1 .. Len(q) - (n + 1) + 1 : SubSeq(q, n + 1, Len(q))[i] = q[i + (n + 1) - 1]
    BY <2>1, <2>2, SubSeqProperties
  <2>4. QED
    BY <1>1, <2>3 DEF Shifted
<1>3. more \subseteq all /\ IsFiniteSet(more)
  <2>1. more \subseteq all
    BY <1>1 DEF Taken
  <2>2. n \in Nat
    BY <1>1
  <2>3. QED
    BY <2>1, <2>2, RunningGrows
<1>4. \A i \in 1..Len(rest) : rest[i] \notin more
  <2>1. SUFFICES ASSUME NEW i \in 1..Len(q) - n PROVE q[i + n] \notin more
    BY <1>2
  <2>2. i + n \in 1..Len(q) /\ i + n > n
    BY <1>1
  <2>3. \A j \in 1..n : q[i + n] # q[j]
    BY <1>1, <2>2
  <2>4. QED
    BY <2>2, <2>3 DEF Taken
<1>5. \A i, j \in 1..Len(rest) : rest[i] = rest[j] => i = j
  <2>1. SUFFICES ASSUME NEW i \in 1..Len(q) - n, NEW j \in 1..Len(q) - n, q[i + n] = q[j + n]
                 PROVE  i = j
    BY <1>2
  <2>2. i + n \in 1..Len(q) /\ j + n \in 1..Len(q)
    BY <1>1
  <2>3. i + n = j + n
    BY <2>1, <2>2
  <2>4. QED
    BY <1>1, <2>3
<1>6. rest = <<>> <=> n = Len(q)
  <2> HIDE DEF rest
  <2>1. QED
    BY <1>1, <1>2, EmptySeq
<1>7. QED
  BY <1>2, <1>3, <1>4, <1>5, <1>6

\* next() keeps the tasks apart and counted, and the types.
LEMMA CallNextKeeps ==
    ASSUME TypeOK, Counted, NEW on, NEW q, NEW busy, NEW all, NEW timeout,
           Apart(q, busy, all), timeout \in {"none", "set", "due"},
           CallNext(on, q, busy, timeout)
    PROVE  /\ Apart(queue', running', all)
           /\ requests' \in Nat /\ started' \in Nat
           /\ newSecond' \in BOOLEAN
           /\ timer' \in {"none", "set", "due"}
           /\ empty' \in {"none", "waiting", "resolved"}
           /\ Counted'
<1>1. CASE RunQueue(q, busy, timeout)
  <2> DEFINE before == IF newSecond THEN 0 ELSE requests
             n == IF timeout = "none" THEN Room(q, before, busy) ELSE 0
  <2>1. before \in Nat /\ started = before
    BY DEF TypeOK, Counted
  <2>2. n \in 0..Len(q) /\ n \in Nat
    <3> HIDE DEF before
    <3>1. frequency \in Nat /\ concurrency \in Nat
      BY DEF TypeOK
    <3>2. Len(q) \in Nat /\ IsFiniteSet(busy)
      BY DEF Apart
    <3>3. QED
      BY <2>1, <3>1, <3>2, RoomBounds
  <2>3. /\ newSecond' = FALSE
        /\ requests' = before + n /\ started' = started + n
        /\ queue' = Shifted(q, n)
        /\ running' = busy \cup Taken(q, n)
        /\ timer' = "set" \/ timer' = timeout
        /\ empty' = "resolved" \/ empty' = empty
    BY <1>1 DEF RunQueue, Taken
  <2> HIDE DEF before, n
  <2>4. Apart(queue', running', all)
    BY <2>2, <2>3, ShiftedApart
  <2>5. /\ requests' \in Nat /\ started' \in Nat /\ requests' = started'
        /\ Counted'
    BY <2>1, <2>2, <2>3 DEF Counted
  <2>6. QED
    BY <2>3, <2>4, <2>5 DEF TypeOK
<1>2. CASE ~RunQueue(q, busy, timeout)
  <2>1. /\ queue' = q /\ running' = busy /\ timer' = timeout
        /\ UNCHANGED <<newSecond, requests, started, empty>>
    BY <1>2 DEF CallNext
  <2>2. QED
    BY <2>1 DEF TypeOK, Counted
<1>3. QED
  BY <1>1, <1>2

\* After next(), a started queue that still holds a task has the timer or a
\* running task to call next again.
LEMMA CallNextWakes ==
    ASSUME TypeOK, NEW on, NEW q, NEW busy, NEW all, NEW timeout,
           Apart(q, busy, all), CallNext(on, q, busy, timeout), on
    PROVE  queue' # <<>> => timer' # "none" \/ running' # {}
<1> DEFINE before == IF newSecond THEN 0 ELSE requests
           n == IF timeout = "none" THEN Room(q, before, busy) ELSE 0
<1> SUFFICES ASSUME queue' # <<>>, timer' = "none", running' = {} PROVE FALSE
  OBVIOUS
<1>1. /\ queue' = Shifted(q, n)
      /\ running' = busy \cup Taken(q, n)
      /\ timer' = IF timeout = "none" /\ Spent(before + n) THEN "set" ELSE timeout
  BY DEF CallNext, RunQueue, Taken
<1>2. timeout = "none" /\ ~Spent(before + n)
  <2> HIDE DEF before, n
  <2>1. QED
    BY <1>1
<1>3. n = Room(q, before, busy)
  BY <1>2
<1> HIDE DEF n
<1>4. /\ before \in Nat /\ frequency \in Nat /\ concurrency \in Nat
      /\ Len(q) \in Nat /\ IsFiniteSet(busy)
  BY DEF TypeOK, Apart
<1> HIDE DEF before
<1>5. /\ n \in 0..Len(q)
      /\ n = 0 /\ Len(q) > 0 => \/ frequency # 0 /\ before >= frequency
                                \/ concurrency # 0 /\ Cardinality(busy) >= concurrency
  BY <1>3, <1>4, RoomBounds
<1>6. busy = {} /\ n = 0
  BY <1>1, <1>4, <1>5 DEF Taken
<1>7. Len(q) > 0
  <2>1. n # Len(q)
    BY <1>1, <1>5, ShiftedApart
  <2>2. QED
    BY <1>4, <1>6, <2>1
<1>8. concurrency # 0 /\ Cardinality({}) >= concurrency
  BY <1>2, <1>4, <1>5, <1>6, <1>7 DEF Spent
<1>9. QED
  BY <1>4, <1>8, FS_EmptySet

\* next() leaves nobody waiting for an empty queue, when nobody was before.
LEMMA CallNextAnswers ==
    ASSUME TypeOK, NEW on, NEW q, NEW busy, NEW all, NEW timeout,
           Apart(q, busy, all), CallNext(on, q, busy, timeout),
           ~(empty = "waiting" /\ q = <<>>)
    PROVE  /\ ~(empty' = "waiting" /\ queue' = <<>>)
           /\ queue' = <<>> /\ running' = {} => q = <<>> /\ busy = {}
<1>1. CASE RunQueue(q, busy, timeout)
  <2> DEFINE before == IF newSecond THEN 0 ELSE requests
             n == IF timeout = "none" THEN Room(q, before, busy) ELSE 0
  <2>1. /\ queue' = Shifted(q, n)
        /\ running' = busy \cup Taken(q, n)
        /\ empty' = IF n = Len(q) /\ n > 0 /\ empty = "waiting" THEN "resolved" ELSE empty
    BY <1>1 DEF RunQueue, Taken
  <2>2. /\ before \in Nat /\ frequency \in Nat /\ concurrency \in Nat
        /\ Len(q) \in Nat /\ IsFiniteSet(busy) /\ q \in Seq(all)
    BY DEF TypeOK, Apart
  <2>3. n \in 0..Len(q)
    <3> HIDE DEF before
    <3>1. QED
      BY <2>2, RoomBounds
  <2> HIDE DEF before, n
  <2>4. queue' = <<>> <=> n = Len(q)
    BY <2>1, <2>3, ShiftedApart
  <2>5. Len(q) = 0 <=> q = <<>>
    BY <2>2, EmptySeq
  <2>6. ~(empty' = "waiting" /\ queue' = <<>>)
    BY <2>1, <2>2, <2>3, <2>4, <2>5
  <2>7. n > 0 => running' # {}
    BY <2>1, <2>2, <2>3 DEF Taken
  <2>8. QED
    BY <2>1, <2>2, <2>3, <2>4, <2>5, <2>6, <2>7
<1>2. CASE ~RunQueue(q, busy, timeout)
  BY <1>2 DEF CallNext
<1>3. QED
  BY <1>1, <1>2

\* next() starts tasks only within the limits.
LEMMA CallNextWithin ==
    ASSUME TypeOK, Counted, NEW on, NEW q, NEW busy, NEW all, NEW timeout,
           Apart(q, busy, all), CallNext(on, q, busy, timeout), started' > started
    PROVE  /\ frequency = 0 \/ started' <= frequency
           /\ concurrency = 0 \/ Cardinality(running') <= concurrency
<1> DEFINE before == IF newSecond THEN 0 ELSE requests
           n == IF timeout = "none" THEN Room(q, before, busy) ELSE 0
<1>1. /\ before \in Nat /\ frequency \in Nat /\ concurrency \in Nat
      /\ Len(q) \in Nat /\ IsFiniteSet(busy) /\ started = before
  BY DEF TypeOK, Apart, Counted
<1>2. RunQueue(q, busy, timeout)
  BY <1>1 DEF CallNext
<1>3. started' = started + n /\ running' = busy \cup Taken(q, n)
  BY <1>2 DEF RunQueue, Taken
<1>4. n > 0
  <2>1. n # 0
    BY <1>1, <1>3
  <2> HIDE DEF before
  <2>2. n \in 0..Len(q)
    BY <1>1, RoomBounds
  <2>3. QED
    BY <1>1, <2>1, <2>2
<1>5. n = Room(q, before, busy)
  BY <1>4
<1> HIDE DEF n, before
<1>6. /\ n \in 0..Len(q)
      /\ frequency # 0 => before + n <= frequency
      /\ concurrency # 0 => Cardinality(busy) + n <= concurrency
  BY <1>1, <1>4, <1>5, RoomBounds
<1>7. IsFiniteSet(running') /\ Cardinality(running') <= Cardinality(busy) + n
  BY <1>1, <1>3, <1>6, RunningGrows
<1>8. Cardinality(busy) \in Nat /\ Cardinality(running') \in Nat
  BY <1>1, <1>7, FS_CardinalityType
<1>9. QED
  BY <1>1, <1>3, <1>6, <1>7, <1>8

-----------------------------------------------------------------------------
(* The inductive invariant *)

LEMMA InvInit == Init => Inv
<1> SUFFICES ASSUME Init PROVE Inv
  OBVIOUS
<1>1. frequency \in Frequencies /\ concurrency \in Concurrencies
  BY DEF Init, Limits
<1>2. Apart(queue, running, added)
  BY FS_EmptySet, EmptySeq DEF Init, Apart
<1>3. queue \in Seq(Tasks) /\ calls \in 0..MaxCalls
      /\ \A i \in 1..Len(queue) : queue[i] \in added \ running
  BY EmptySeq DEF Init
<1>4. TypeOK
  BY <1>1, <1>3 DEF Init, TypeOK
<1>5. QED
  BY <1>2, <1>4 DEF Init, Inv, Counted

\* A task that is added is queued once.
LEMMA AppendApart ==
    ASSUME Inv, NEW t \in Tasks, t \notin added
    PROVE  Apart(Append(queue, t), running, added \cup {t})
<1> DEFINE longer == Append(queue, t)
           all == added \cup {t}
<1>1. Apart(queue, running, added)
  BY DEF Inv
<1>2. /\ queue \in Seq(added) /\ Len(queue) \in Nat
      /\ \A i \in 1..Len(queue) : queue[i] \in added /\ queue[i] # t
  BY <1>1 DEF Apart
<1>3. queue \in Seq(all) /\ t \in all
  BY <1>2
<1>4. /\ longer \in Seq(all) /\ Len(longer) = Len(queue) + 1
      /\ \A i \in 1..Len(queue) : longer[i] = queue[i]
      /\ longer[Len(queue) + 1] = t
  BY <1>3, AppendProperties
<1> HIDE DEF longer
<1>5. \A i \in 1..Len(longer) : longer[i] \notin running
  <2>1. t \notin running
    BY <1>1 DEF Apart
  <2>2. QED
    BY <1>1, <1>2, <1>4, <2>1 DEF Apart
<1>6. \A i, j \in 1..Len(longer) : longer[i] = longer[j] => i = j
  <2>1. SUFFICES ASSUME NEW i \in 1..Len(longer), NEW j \in 1..Len(longer), longer[i] = longer[j]
                 PROVE  i = j
    OBVIOUS
  <2>2. CASE i \in 1..Len(queue) /\ j \in 1..Len(queue)
    <3>1. queue[i] = queue[j]
      BY <1>4, <2>1, <2>2
    <3>2. QED
      BY <1>1, <2>2, <3>1 DEF Apart
  <2>3. CASE i = Len(queue) + 1 \/ j = Len(queue) + 1
    BY <1>2, <1>4, <2>1, <2>3
  <2>4. QED
    BY <1>2, <1>4, <2>2, <2>3
<1>7. QED
  BY <1>1, <1>4, <1>5, <1>6 DEF Apart, longer

\* A call of next for these contents keeps Inv.
LEMMA CallNextInv ==
    ASSUME Inv, NEW on, NEW q, NEW busy, NEW all, NEW timeout,
           Apart(q, busy, all), timeout \in {"none", "set", "due"},
           CallNext(on, q, busy, timeout),
           added' = all, added' \subseteq Tasks, UNCHANGED <<parameters, browser, calls, cleared>>,
           isStarted' \in BOOLEAN, idle' \in {"none", "waiting", "resolved"},
           starting' \in Nat, ticks' \in Nat
    PROVE  Inv'
<1>1. TypeOK /\ Counted
  BY DEF Inv
<1>2. /\ Apart(queue', running', all)
      /\ requests' \in Nat /\ started' \in Nat
      /\ newSecond' \in BOOLEAN
      /\ timer' \in {"none", "set", "due"}
      /\ empty' \in {"none", "waiting", "resolved"}
      /\ Counted'
  BY <1>1, CallNextKeeps
<1>3. Apart(queue, running, added)'
  BY <1>2 DEF Apart
<1>4. /\ queue' \in Seq(Tasks) /\ running' \in SUBSET Tasks
      /\ \A i \in 1..Len(queue') : queue'[i] \in added' \ running'
  BY <1>3 DEF Apart
<1>5. TypeOK'
  BY <1>1, <1>2, <1>4 DEF TypeOK, parameters
<1>6. QED
  BY <1>2, <1>3, <1>5 DEF Inv

\* Taking a task off running keeps the tasks apart.
LEMMA FinishedApart ==
    ASSUME Inv, NEW t
    PROVE  Apart(queue, running \ {t}, added)
<1>1. Apart(queue, running, added)
  BY DEF Inv
<1>2. IsFiniteSet(running \ {t})
  BY <1>1, FS_RemoveElement DEF Apart
<1>3. QED
  BY <1>1, <1>2 DEF Apart

LEMMA InvAdd ==
    ASSUME Inv, NEW t \in Tasks, Add(t)
    PROVE  Inv'
<1>1. Apart(Append(queue, t), running, added \cup {t})
  BY AppendApart DEF Add
<1>2. /\ CallNext(isStarted, Append(queue, t), running, timer)
      /\ added' = added \cup {t}
      /\ UNCHANGED <<isStarted, parameters, browser, idle, starting, ticks, calls, cleared>>
  BY DEF Add
<1>3. TypeOK
  BY DEF Inv
<1>4. QED
  BY <1>1, <1>2, <1>3, CallNextInv DEF TypeOK

LEMMA InvFinish ==
    ASSUME Inv, NEW t \in Tasks, Finish(t)
    PROVE  Inv'
<1>1. Apart(queue, running \ {t}, added)
  BY FinishedApart
<1>2. TypeOK /\ Counted
  BY DEF Inv
<1>3. idle' \in {"none", "waiting", "resolved"}
  BY <1>2 DEF Finish, IdleAfter, TypeOK
<1>4. UNCHANGED <<isStarted, parameters, browser, starting, added, calls, cleared>>
  BY DEF Finish
<1>5. CASE CallNext(isStarted, queue, running \ {t}, timer) /\ UNCHANGED ticks
  BY <1>1, <1>2, <1>3, <1>4, <1>5, CallNextInv DEF TypeOK
<1>6. CASE /\ running' = running \ {t} /\ ticks' = ticks + 1
           /\ UNCHANGED <<queue, requests, timer, newSecond, empty, started>>
  <2>1. Apart(queue, running, added)'
    BY <1>1, <1>4, <1>6
  <2>2. TypeOK'
    BY <1>2, <1>3, <1>4, <1>6 DEF TypeOK, parameters
  <2>3. Counted'
    BY <1>2, <1>6 DEF Counted
  <2>4. QED
    BY <2>1, <2>2, <2>3 DEF Inv
<1>7. QED
  BY <1>5, <1>6 DEF Finish

LEMMA InvTurn ==
    ASSUME Inv, Turn
    PROVE  Inv'
<1>1. Apart(queue, running, added) /\ TypeOK
  BY DEF Inv
<1>2. CASE RunTick
  BY <1>1, <1>2, CallNextInv DEF RunTick, TypeOK
<1>3. CASE TimerFires
  BY <1>1, <1>3, CallNextInv DEF TimerFires, Forgotten, TypeOK
<1>4. CASE Started
  <2>1. /\ starting' = starting - 1 /\ starting > 0 /\ isStarted' = TRUE
        /\ UNCHANGED <<parameters, browser, idle, ticks, added, calls, cleared>>
    BY <1>4 DEF Started
  <2>2. starting' \in Nat /\ isStarted' \in BOOLEAN
    BY <1>1, <2>1 DEF TypeOK
  <2>3. CallNext(TRUE, queue, running, timer)
    BY <1>4 DEF Started
  <2>4. QED
    BY <1>1, <2>1, <2>2, <2>3, CallNextInv DEF TypeOK
<1>5. QED
  BY <1>2, <1>3, <1>4 DEF Turn

\* The calls that do not come to next, and the end of the second.
LEMMA InvQuiet ==
    ASSUME Inv, \/ Tick \/ Start \/ Pause \/ Clear \/ OnIdle \/ OnEmpty \/ SetParameters
                \/ UNCHANGED vars
    PROVE  Inv'
<1>1. Apart(queue, running, added) /\ TypeOK /\ Counted
  BY DEF Inv
<1>2. /\ queue' = queue \/ queue' = <<>>
      /\ UNCHANGED <<running, added, requests, browser>>
      /\ UNCHANGED <<newSecond, started>> \/ Tick
  BY DEF Tick, Start, Pause, Clear, OnIdle, OnEmpty, SetParameters, NoCall, vars
<1>3. Apart(queue, running, added)'
  <2>1. CASE queue' = queue
    BY <1>1, <1>2, <2>1 DEF Apart
  <2>2. CASE queue' = <<>>
    BY <1>1, <1>2, <2>2, EmptySeq DEF Apart
  <2>3. QED
    BY <1>2, <2>1, <2>2
<1>4. Counted'
  BY <1>1, <1>2 DEF Counted, Tick
<1>5. frequency' \in Frequencies /\ concurrency' \in Concurrencies
  <2>1. CASE SetParameters
    BY <2>1 DEF SetParameters, Limits
  <2>2. CASE ~SetParameters
    BY <1>1, <2>2 DEF Tick, Start, Pause, Clear, OnIdle, OnEmpty, vars, parameters, TypeOK
  <2>3. QED
    BY <2>1, <2>2
<1> DEFINE Types ==
           /\ isStarted' \in BOOLEAN /\ newSecond' \in BOOLEAN /\ cleared' \in BOOLEAN
           /\ timer' \in {"none", "set", "due"}
           /\ idle' \in {"none", "waiting", "resolved"}
           /\ empty' \in {"none", "waiting", "resolved"}
           /\ started' \in Nat /\ starting' \in Nat /\ ticks' \in Nat
           /\ calls' \in 0..MaxCalls
<1>6. Types
  <2>1. CASE Tick
    BY <1>1, <2>1 DEF Tick, promises, TypeOK
  <2>2. CASE Start
    BY <1>1, <2>2 DEF Start, Call, NoCall, TypeOK
  <2>3. CASE Pause
    <3>1. calls' \in 0..MaxCalls
      BY <1>1, <2>3 DEF Pause, Call, TypeOK
    <3>2. isStarted' \in BOOLEAN
      BY <2>3 DEF Pause
    <3>3. UNCHANGED <<newSecond, cleared, timer, idle, empty, started, starting, ticks>>
      BY <2>3 DEF Pause, NoCall
    <3>4. QED
      BY <1>1, <3>1, <3>2, <3>3 DEF TypeOK
  <2>4. CASE Clear
    <3>1. calls' \in 0..MaxCalls
      BY <1>1, <2>4 DEF Clear, Call, TypeOK
    <3>2. QED
      BY <1>1, <2>4, <3>1 DEF Clear, promises, TypeOK
  <2>5. CASE OnIdle
    BY <1>1, <2>5 DEF OnIdle, Call, NoCall, TypeOK
  <2>6. CASE OnEmpty
    BY <1>1, <2>6 DEF OnEmpty, Call, TypeOK
  <2>7. CASE SetParameters
    BY <1>1, <2>7 DEF SetParameters, Call, NoCall, TypeOK
  <2>8. CASE UNCHANGED vars
    BY <1>1, <2>8 DEF vars, promises, TypeOK
  <2>9. QED
    BY <2>1, <2>2, <2>3, <2>4, <2>5, <2>6, <2>7, <2>8
<1>7. /\ queue' \in Seq(Tasks) /\ running' \in SUBSET Tasks
      /\ \A i \in 1..Len(queue') : queue'[i] \in added' \ running'
  BY <1>1, <1>2, <1>3 DEF Apart, TypeOK
<1>8. TypeOK'
  BY <1>1, <1>2, <1>5, <1>6, <1>7 DEF TypeOK
<1>9. QED
  BY <1>3, <1>4, <1>8 DEF Inv

LEMMA InvNext == Inv /\ [Next]_vars => Inv'
BY InvAdd, InvFinish, InvTurn, InvQuiet DEF Next

\* The variables have their types; a queued task has been added and is not
\* running.
THEOREM QueueTypeCorrect == Spec => []TypeOK
<1>1. Inv => TypeOK
  BY DEF Inv
<1>2. QED
  BY InvInit, InvNext, <1>1, PTL DEF Spec

-----------------------------------------------------------------------------
(* The limits *)

\* Only next starts tasks.
LEMMA StepWithin ==
    ASSUME Inv, [Next]_vars, started' > started
    PROVE  /\ frequency = 0 \/ started' <= frequency
           /\ concurrency = 0 \/ Cardinality(running') <= concurrency
<1>1. Apart(queue, running, added) /\ TypeOK /\ Counted
  BY DEF Inv
<1>2. CASE \E t \in Tasks : Add(t)
  <2>1. PICK t \in Tasks : Add(t)
    BY <1>2
  <2>2. Apart(Append(queue, t), running, added \cup {t})
    BY <2>1, AppendApart DEF Add
  <2>3. CallNext(isStarted, Append(queue, t), running, timer)
    BY <2>1 DEF Add
  <2>4. QED
    BY <1>1, <2>2, <2>3, CallNextWithin
<1>3. CASE \E t \in Tasks : Finish(t)
  <2>1. PICK t \in Tasks : Finish(t)
    BY <1>3
  <2>2. Apart(queue, running \ {t}, added)
    BY FinishedApart
  <2>3. CallNext(isStarted, queue, running \ {t}, timer)
    <3>1. started' # started
      BY <1>1 DEF TypeOK
    <3>2. QED
      BY <2>1, <3>1 DEF Finish
  <2>4. QED
    BY <1>1, <2>2, <2>3, CallNextWithin
<1>4. CASE Turn
  <2>1. PICK on, timeout : CallNext(on, queue, running, timeout)
    BY <1>4 DEF Turn, RunTick, TimerFires, Started
  <2>2. QED
    BY <1>1, <2>1, CallNextWithin
<1>5. CASE \/ Tick \/ Start \/ Pause \/ Clear \/ OnIdle \/ OnEmpty \/ SetParameters
           \/ UNCHANGED vars
  <2>1. started' = started \/ started' = 0
    BY <1>5 DEF Tick, Start, Pause, Clear, OnIdle, OnEmpty, SetParameters, NoCall, vars
  <2>2. QED
    BY <1>1, <2>1 DEF TypeOK
<1>6. QED
  BY <1>2, <1>3, <1>4, <1>5 DEF Next

\* Tasks start only within the limit of the second and that of the workers,
\* whatever the limits are and whenever they are changed.
THEOREM StartsAreWithinLimits == Spec => StartsWithinLimits
<1>1. Inv /\ [Next]_vars =>
          [started' > started =>
              /\ frequency = 0 \/ started' <= frequency
              /\ concurrency = 0 \/ Cardinality(running') <= concurrency]_vars
  BY StepWithin
<1>2. QED
  BY InvInit, InvNext, <1>1, PTL DEF Spec, StartsWithinLimits

-----------------------------------------------------------------------------
(* Somebody calls next *)

LEMMA StepWakes ==
    ASSUME Inv, SomethingWillCallNext, [Next]_vars
    PROVE  SomethingWillCallNext'
<1>1. Apart(queue, running, added) /\ TypeOK
  BY DEF Inv
<1> USE DEF SomethingWillCallNext
<1>2. CASE \E t \in Tasks : Add(t)
  <2>1. PICK t \in Tasks : Add(t)
    BY <1>2
  <2>2. Apart(Append(queue, t), running, added \cup {t})
    BY <2>1, AppendApart DEF Add
  <2>3. /\ CallNext(isStarted, Append(queue, t), running, timer)
        /\ UNCHANGED isStarted
    BY <2>1 DEF Add
  <2>4. CASE isStarted
    <3>1. queue' # <<>> => timer' # "none" \/ running' # {}
      BY <1>1, <2>2, <2>3, <2>4, CallNextWakes
    <3>2. QED
      BY <3>1
  <2>5. CASE ~isStarted
    BY <2>3, <2>5
  <2>6. QED
    BY <2>4, <2>5
<1>3. CASE \E t \in Tasks : Finish(t)
  <2>1. PICK t \in Tasks : Finish(t)
    BY <1>3
  <2>2. Apart(queue, running \ {t}, added)
    BY FinishedApart
  <2>3. UNCHANGED isStarted
    BY <2>1 DEF Finish
  <2>4. CASE CallNext(isStarted, queue, running \ {t}, timer)
    <3>1. isStarted => (queue' # <<>> => timer' # "none" \/ running' # {})
      BY <1>1, <2>2, <2>4, CallNextWakes
    <3>2. QED
      BY <2>3, <3>1
  <2>5. CASE ticks' = ticks + 1
    BY <1>1, <2>5 DEF TypeOK
  <2>6. QED
    BY <2>1, <2>4, <2>5 DEF Finish
<1>4. CASE Turn
  <2>1. PICK on, timeout : CallNext(on, queue, running, timeout) /\ (isStarted' => on)
    BY <1>4 DEF Turn, RunTick, TimerFires, Started
  <2>2. on => (queue' # <<>> => timer' # "none" \/ running' # {})
    BY <1>1, <2>1, CallNextWakes
  <2>3. QED
    BY <2>1, <2>2
<1>5. CASE \/ Tick \/ Start \/ Pause \/ Clear \/ OnIdle \/ OnEmpty \/ SetParameters
           \/ UNCHANGED vars
  <2>1. CASE Tick
    BY <1>1, <2>1 DEF Tick, TypeOK
  <2>2. CASE Pause \/ Clear
    BY <2>2 DEF Pause, Clear
  <2>3. CASE Start \/ OnIdle \/ OnEmpty \/ SetParameters \/ UNCHANGED vars
    BY <2>3 DEF Start, OnIdle, OnEmpty, SetParameters, NoCall, vars
  <2>4. QED
    BY <1>5, <2>1, <2>2, <2>3
<1>6. QED
  BY <1>2, <1>3, <1>4, <1>5 DEF Next

\* A started queue that holds a task is never forgotten: the timer, a running
\* task or a scheduled call comes to next.
THEOREM NextWillBeCalled == Spec => []SomethingWillCallNext
<1>1. Init => SomethingWillCallNext
  BY DEF Init, SomethingWillCallNext
<1>2. QED
  BY InvInit, InvNext, StepWakes, <1>1, PTL DEF Spec

-----------------------------------------------------------------------------
(* The promises of onIdle and onEmpty *)

LEMMA StepAnswers ==
    ASSUME Inv, WaitersAreAnswered, [Next]_vars
    PROVE  WaitersAreAnswered'
<1>1. Apart(queue, running, added) /\ TypeOK
  BY DEF Inv
<1> SUFFICES ASSUME ~cleared'
             PROVE  /\ ~(empty' = "waiting" /\ queue' = <<>>)
                    /\ ~(idle' = "waiting" /\ queue' = <<>> /\ running' = {})
  BY DEF WaitersAreAnswered
<1>2. ~cleared
  BY DEF Next, Add, Finish, Turn, RunTick, TimerFires, Started, Tick, Start, Pause, Clear,
         OnIdle, OnEmpty, SetParameters, vars
<1>3. /\ ~(empty = "waiting" /\ queue = <<>>)
      /\ ~(idle = "waiting" /\ queue = <<>> /\ running = {})
  BY <1>2 DEF WaitersAreAnswered
<1>4. CASE \E t \in Tasks : Add(t)
  <2>1. PICK t \in Tasks : Add(t)
    BY <1>4
  <2>2. Apart(Append(queue, t), running, added \cup {t})
    BY <2>1, AppendApart DEF Add
  <2>3. CallNext(isStarted, Append(queue, t), running, timer)
    BY <2>1 DEF Add
  <2>4. Append(queue, t) # <<>>
    BY <1>1, AppendProperties DEF TypeOK
  <2>5. QED
    BY <1>1, <2>2, <2>3, <2>4, CallNextAnswers
<1>5. CASE \E t \in Tasks : Finish(t)
  <2>1. PICK t \in Tasks : Finish(t)
    BY <1>5
  <2>2. Apart(queue, running \ {t}, added)
    BY FinishedApart
  <2>3. ~(idle' = "waiting" /\ queue = <<>> /\ running \ {t} = {})
    BY <2>1 DEF Finish, IdleAfter
  <2>4. CASE CallNext(isStarted, queue, running \ {t}, timer)
    BY <1>1, <1>3, <2>2, <2>3, <2>4, CallNextAnswers
  <2>5. CASE running' = running \ {t} /\ UNCHANGED <<queue, empty>>
    BY <1>3, <2>3, <2>5
  <2>6. QED
    BY <2>1, <2>4, <2>5 DEF Finish
<1>6. CASE Turn
  <2>1. PICK on, timeout : CallNext(on, queue, running, timeout) /\ UNCHANGED idle
    BY <1>6 DEF Turn, RunTick, TimerFires, Started
  <2>2. QED
    BY <1>1, <1>3, <2>1, CallNextAnswers
<1>7. CASE \/ Tick \/ Start \/ Pause \/ Clear \/ OnIdle \/ OnEmpty \/ SetParameters
           \/ UNCHANGED vars
  <2>1. CASE Clear
    BY <2>1 DEF Clear
  <2>2. CASE ~Clear
    BY <1>3, <1>7, <2>2
       DEF Tick, Start, Pause, OnIdle, OnEmpty, SetParameters, NoCall, promises, vars
  <2>3. QED
    BY <2>1, <2>2
<1>8. QED
  BY <1>4, <1>5, <1>6, <1>7 DEF Next

\* Until the queue is cleared, nobody waits for it to be empty or idle when it
\* is.
THEOREM NobodyWaitsInVain == Spec => []WaitersAreAnswered
<1>1. Init => WaitersAreAnswered
  BY DEF Init, WaitersAreAnswered
<1>2. QED
  BY InvInit, InvNext, StepAnswers, <1>1, PTL DEF Spec

\* The two together: a started queue comes to its tasks, and to those who wait
\* for it.
THEOREM QueueForgetsNobody == Spec => []NobodyIsForgotten
<1>1. SomethingWillCallNext /\ WaitersAreAnswered => NobodyIsForgotten
  BY DEF NobodyIsForgotten
<1>2. QED
  BY <1>1, NextWillBeCalled, NobodyWaitsInVain, PTL
=============================================================================
