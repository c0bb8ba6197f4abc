--------------------------- MODULE SponsorBudget ---------------------------
(***************************************************************************)
(* The daily budget of one API key of apps/fee-payer: the check in         *)
(* rateLimitMiddleware (src/lib/rate-limit.ts), and recordSpend, which it  *)
(* starts and does not wait for (src/lib/api-key-budget.ts).               *)
(*                                                                         *)
(* The counters are values of KV that are read and put; nothing makes the  *)
(* two one step.  recordSpend reads both at once and, when both are there, *)
(* puts both at once.  Fees and the limit are microdollars; a fee is the   *)
(* ceiling that the transaction allows.  KV is read as it is: the copies   *)
(* that its other locations keep for a while are left out.                 *)
(***************************************************************************)
EXTENDS Naturals, FiniteSetsExt

CONSTANTS
    Requests,   \* the sponsorship requests that carry the key
    Fee,        \* what each may cost
    Limit,      \* dailyLimitUsd; 0 for none
    LastDay,    \* bound: the days are 0..LastDay
    MaxFaults   \* bound: failing calls to KV

ASSUME BudgetAssumption ==
    /\ IsFiniteSet(Requests)
    /\ Fee \in [Requests -> Nat] /\ Limit \in Nat
    /\ LastDay \in Nat /\ MaxFaults \in Nat

VARIABLES
    day,
    daily,      \* spend:<key>:<day>, 0 where there is none
    lifetime,   \* spend:<key>:lifetime
    pc,         \* where the request's recordSpend is
    left,       \* the counters it has yet to read or to put
    seen,       \* what it has read
    putDay,     \* the day in the name of the daily counter that it puts
    admittedOn, \* history: the day on which the request was admitted
    faults,
    overlapped, \* history: a request was checked while another was recorded
    spanned     \* history: a day began between the check and the puts of one

counters == <<daily, lifetime>>
recorder == <<left, seen, putDay>>
history == <<faults, overlapped, spanned>>
vars == <<day, counters, pc, recorder, admittedOn, history>>

Days == 0..LastDay
Both == {"daily", "lifetime"}
Recording == {r \in Requests : pc[r] \in {"reading", "writing"}}
Admitted(d) == {r \in Requests : pc[r] \notin {"idle", "refused"} /\ admittedOn[r] = d}
Total(S) == MapThenSumSet(LAMBDA r : Fee[r], S)

TypeOK ==
    /\ day \in Days
    /\ daily \in [Days -> Nat] /\ lifetime \in Nat
    /\ pc \in [Requests -> {"idle", "refused", "reading", "writing", "ended"}]
    /\ left \in [Requests -> SUBSET Both]
    /\ seen \in [Requests -> [Both -> Nat]]
    /\ putDay \in [Requests -> Days] /\ admittedOn \in [Requests -> Days]
    /\ faults \in 0..MaxFaults
    /\ overlapped \in BOOLEAN /\ spanned \in BOOLEAN
    /\ \A r \in Requests : left[r] # {} => r \in Recording

Init ==
    /\ day = 0 /\ daily = [d \in Days |-> 0] /\ lifetime = 0
    /\ pc = [r \in Requests |-> "idle"]
    /\ left = [r \in Requests |-> {}]
    /\ seen = [r \in Requests |-> [c \in Both |-> 0]]
    /\ putDay = [r \in Requests |-> 0] /\ admittedOn = [r \in Requests |-> 0]
    /\ faults = 0 /\ overlapped = FALSE /\ spanned = FALSE

-----------------------------------------------------------------------------
\* Faulty variant: the check leaves out what the request itself may cost.
SpentBefore(r) == Limit = 0 \/ daily[day] <= Limit

\* checkBudget: what was spent today and the fee fit into the limit.
WithinBudget(r) == Limit = 0 \/ daily[day] + Fee[r] <= Limit

Refuse(r) ==
    /\ pc[r] = "idle" /\ ~WithinBudget(r)
    /\ pc' = [pc EXCEPT ![r] = "refused"]
    /\ UNCHANGED <<day, counters, recorder, admittedOn, history>>

\* The request goes on to the relay, and its spend is recorded meanwhile.  It
\* counts as admitted when the budget is read.
Admit(r) ==
    /\ pc[r] = "idle" /\ WithinBudget(r)
    /\ pc' = [pc EXCEPT ![r] = "reading"]
    /\ left' = [left EXCEPT ![r] = Both]
    /\ admittedOn' = [admittedOn EXCEPT ![r] = day]
    /\ overlapped' = (overlapped \/ Recording # {})
    /\ UNCHANGED <<day, counters, seen, putDay, faults, spanned>>

\* getDailySpend, getLifetimeSpend
Current(c) == IF c = "daily" THEN daily[day] ELSE lifetime

Read(r, c) ==
    /\ pc[r] = "reading" /\ c \in left[r]
    /\ seen' = [seen EXCEPT ![r][c] = Current(c)]
    /\ left' = [left EXCEPT ![r] = @ \ {c}]
    /\ UNCHANGED <<day, counters, pc, putDay, admittedOn, history>>

HasRead(r) == left[r] = {}

\* Both reads are there; the daily counter is named anew.
StartPuts(r) ==
    /\ pc[r] = "reading" /\ HasRead(r)
    /\ pc' = [pc EXCEPT ![r] = "writing"]
    /\ left' = [left EXCEPT ![r] = Both]
    /\ putDay' = [putDay EXCEPT ![r] = day]
    /\ spanned' = (spanned \/ admittedOn[r] # day)
    /\ UNCHANGED <<day, counters, seen, admittedOn, faults, overlapped>>

NewTotal(r, c) == seen[r][c] + Fee[r]

\* Faulty variant: the recording ends with the first put.
IsAnyPut(r, c) == TRUE

IsLastPut(r, c) == left[r] = {c}

\* A counter is put, or the call fails.
Settle(r, c) ==
    /\ pc[r] = "writing" /\ c \in left[r]
    /\ left' = [left EXCEPT ![r] = @ \ {c}]
    /\ pc' = [pc EXCEPT ![r] = IF IsLastPut(r, c) THEN "ended" ELSE @]
    /\ UNCHANGED <<day, seen, putDay, admittedOn, overlapped, spanned>>

PutDaily(r) ==
    /\ Settle(r, "daily")
    /\ daily' = [daily EXCEPT ![putDay[r]] = NewTotal(r, "daily")]
    /\ UNCHANGED <<lifetime, faults>>

PutLifetime(r) ==
    /\ Settle(r, "lifetime")
    /\ lifetime' = NewTotal(r, "lifetime")
    /\ UNCHANGED <<daily, faults>>

Fault == faults < MaxFaults /\ faults' = faults + 1

PutFails(r, c) == Settle(r, c) /\ Fault /\ UNCHANGED counters

\* A read fails, and nothing is put.
ReadFails(r) ==
    /\ pc[r] = "reading" /\ left[r] # {}
    /\ Fault
    /\ pc' = [pc EXCEPT ![r] = "ended"]
    /\ left' = [left EXCEPT ![r] = {}]
    /\ UNCHANGED <<day, counters, seen, putDay, admittedOn, overlapped, spanned>>

NextDay ==
    /\ day < LastDay
    /\ day' = day + 1
    /\ UNCHANGED <<counters, pc, recorder, admittedOn, history>>

Next ==
    \/ \E r \in Requests :
          \/ Refuse(r) \/ Admit(r) \/ StartPuts(r)
          \/ PutDaily(r) \/ PutLifetime(r) \/ ReadFails(r)
          \/ \E c \in Both : Read(r, c) \/ PutFails(r, c)
    \/ NextDay

Spec == Init /\ [][Next]_vars

-----------------------------------------------------------------------------
(* Properties *)

Everyone == UNION {Admitted(d) : d \in Days}

\* Whatever is lost when requests overlap, the lifetime counter never holds
\* more than the admitted requests may cost.
LifetimeNeverOvercounts == lifetime <= Total(Everyone)

\* Requests that do not overlap are counted exactly, if no call fails.
SerialSpendIsCounted ==
    ~overlapped /\ faults = 0 /\ Recording = {} => lifetime = Total(Everyone)

\* Requests that do not overlap keep to the limit on every day, if no call
\* fails, even where a spend is recorded across midnight.
SerialSpendWithinLimit ==
    ~overlapped /\ faults = 0 /\ Limit > 0 =>
        \A d \in Days : Total(Admitted(d)) <= Limit

\* A daily counter holds no more than the requests admitted on its day may
\* cost, and those whose recording ended up on it.
DailyCountsOneDay ==
    \A d \in Days :
        daily[d] <= Total(Admitted(d) \cup
                          {r \in Requests : pc[r] \in {"writing", "ended"} /\ putDay[r] = d})

\* ... as long as no spend is recorded across midnight.
UnspannedDaysCountOneDay == ~spanned => DailyCountsOneDay

\* All of these: the counters can be relied on as far as they can be without
\* being one step.
CountersAreSound ==
    /\ LifetimeNeverOvercounts
    /\ SerialSpendIsCounted
    /\ SerialSpendWithinLimit
    /\ UnspannedDaysCountOneDay
=============================================================================
