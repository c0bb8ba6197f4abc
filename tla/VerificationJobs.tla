-------------------------- MODULE VerificationJobs --------------------------
(***************************************************************************)
(* The life of the verification jobs of one contract (one pair of chain    *)
(* and address) in apps/contract-verification: the POST handler that       *)
(* submits a job (src/route.verify.ts), the row of the job in the table    *)
(* verification_jobs, the Durable Object that runs it from an alarm        *)
(* (src/job-runner.ts) and the GET handler that polls its status and       *)
(* expires it.  Every access to D1 or to the Durable Object's storage is a *)
(* step of its own; the handlers, the runners and the polls interleave.    *)
(*                                                                         *)
(* A request and the job it creates share a name: the job's id is a fresh  *)
(* UUID of the request.  Rows of other contracts are never read or written *)
(* by these statements, so one contract is enough.                         *)
(***************************************************************************)
EXTENDS Integers

CONSTANTS
    Requests,        \* the POST requests for the contract, and their job ids
    Pollers,         \* the GET requests that may be open at the same time
    NoJob,           \* no job id
    JobTTL,          \* JOB_TTL_MS, in ticks
    HandlerTimeout,  \* ticks after which the runtime ends a request's handler
    LastArrival,     \* bound: no request arrives after this tick
    MaxTime,         \* bound: the clock stops here
    MaxCrashes,      \* bound: crashes of the Durable Objects
    EnqueueMayFail   \* whether the call to the Durable Object may fail

ASSUME NoJobAssumption == NoJob \notin Requests

\* index.tsx ends a request after at most 5 minutes, JOB_TTL_MS is 15.
ASSUME TimesAssumption ==
    /\ JobTTL \in Nat /\ HandlerTimeout \in Nat /\ LastArrival \in Nat
    /\ MaxTime \in Nat /\ MaxCrashes \in Nat
    /\ HandlerTimeout <= JobTTL

ASSUME EnqueueAssumption == EnqueueMayFail \in BOOLEAN

VARIABLES
    now,        \* the clock: Date.now() and datetime('now')
    lastRowid,  \* the greatest rowid verification_jobs has given out
    rows,       \* verification_jobs: the row of each job
    match,      \* the contract's best match in verified_contracts
    pc,         \* where each POST handler is, or the answer it gave
    arrivedAt,  \* when the request arrived
    target,     \* the other job a handler has selected
    stored,     \* Durable Object storage: is 'job' there
    alarm,      \* Durable Object: is the alarm set, or to be retried
    run,        \* where the alarm handler of the Durable Object is
    poll,       \* the stale job a GET handler is about to expire
    crashes     \* crashes of Durable Objects so far

requestVars == <<pc, arrivedAt, target>>
runnerVars  == <<stored, alarm, run, crashes>>
vars == <<now, lastRowid, rows, match, requestVars, runnerVars, poll>>

-----------------------------------------------------------------------------
(* Values *)

Row == [state     : {"absent", "pending", "completed"},
        startedAt : Nat,
        rowid     : Nat,
        error     : {"none", "timeout", "failed"},
        verified  : BOOLEAN]

NoRow == [state |-> "absent", startedAt |-> 0, rowid |-> 0,
          error |-> "none", verified |-> FALSE]

Match == {"none", "partial", "exact"}

\* Where a handler is before it knows that its job is the first ...
Contending == {"select", "expire", "insert", "recheck", "yield"}
\* ... and from then on.
Admitted == {"put", "setAlarm", "cleanup", "accepted", "failed500"}
\* The other answers.
Refused == {"conflict409", "busy429", "joined"}

RunState == {"idle", "working", "persisted", "cleaning", "returning"}

TypeOK ==
    /\ now \in Nat /\ lastRowid \in Nat /\ crashes \in Nat
    /\ rows \in [Requests -> Row]
    /\ match \in Match
    /\ pc \in [Requests -> {"idle"} \cup Contending \cup Admitted \cup Refused]
    /\ arrivedAt \in [Requests -> Nat]
    /\ target \in [Requests -> Requests \cup {NoJob}]
    /\ stored \in [Requests -> BOOLEAN]
    /\ alarm \in [Requests -> BOOLEAN]
    /\ run \in [Requests -> RunState]
    /\ poll \in [Pollers -> Requests \cup {NoJob}]

Init ==
    /\ now = 0 /\ lastRowid = 0 /\ crashes = 0
    /\ rows = [r \in Requests |-> NoRow]
    /\ match = "none"
    /\ pc = [r \in Requests |-> "idle"]
    /\ arrivedAt = [r \in Requests |-> 0]
    /\ target = [r \in Requests |-> NoJob]
    /\ stored = [r \in Requests |-> FALSE]
    /\ alarm = [r \in Requests |-> FALSE]
    /\ run = [r \in Requests |-> "idle"]
    /\ poll = [p \in Pollers |-> NoJob]

-----------------------------------------------------------------------------
(* The table *)

Pending == {j \in Requests : rows[j].state = "pending"}

\* Faulty variant: newest job first, orderBy(desc(...)).
NewestBefore(j, k) ==
    \/ rows[j].startedAt > rows[k].startedAt
    \/ rows[j].startedAt = rows[k].startedAt /\ rows[j].rowid > rows[k].rowid

\* ORDER BY started_at; equal times come in rowid order.
Before(j, k) ==
    \/ rows[j].startedAt < rows[k].startedAt
    \/ /\ rows[j].startedAt = rows[k].startedAt
       /\ rows[j].rowid < rows[k].rowid

IsFirst(j) == \A k \in Pending \ {j} : Before(j, k)

NewRow(t, id) == [state |-> "pending", startedAt |-> t, rowid |-> id,
                  error |-> "none", verified |-> FALSE]

\* UPDATE ... WHERE id = j: no row, no effect.
UpdateRow(j, new) ==
    rows' = IF rows[j].state = "absent" THEN rows ELSE [rows EXCEPT ![j] = new]

\* Faulty variants: an error code no reader knows; completedAt forgotten.
ExpiredUnknown(row) == [row EXCEPT !.state = "completed", !.error = "expired"]
ExpiredOpen(row)    == [row EXCEPT !.error = "timeout"]

TimedOut(row) == [row EXCEPT !.state = "completed", !.error = "timeout"]
Failed(row)   == [row EXCEPT !.state = "completed", !.error = "failed"]
Succeeded(row) ==
    [row EXCEPT !.state = "completed", !.error = "none", !.verified = TRUE]

\* Faulty variant: the age in seconds compared with a TTL in milliseconds.
StaleAtOnce(j) == rows[j].startedAt <= now

\* The POST handler's test, jobStartedMs > staleThresholdMs, negated ...
StaleForSubmit(j) == rows[j].startedAt <= now - JobTTL
\* ... and the GET handler's, timestampToMs(startedAt) < staleThresholdMs.
StaleForPoll(j) == rows[j].startedAt < now - JobTTL

-----------------------------------------------------------------------------
(* POST /v2/verify/:chainId/:address, for a well-formed request *)

\* The handler is at l, and its time is not up.  A handler may also end early
\* at any point: a D1 call throws and the outer catch answers 500, the client
\* goes away, the worker is evicted.  It then takes no further step, which
\* needs no action: no fairness makes a handler go on.
At(r, l) ==
    /\ pc[r] = l
    /\ now < arrivedAt[r] + HandlerTimeout

GoTo(r, l) == pc' = [pc EXCEPT ![r] = l] /\ UNCHANGED arrivedAt

\* The request arrives; an exact verification answers it with 409.
Submit(r) ==
    /\ pc[r] = "idle"
    /\ now <= LastArrival
    /\ arrivedAt' = [arrivedAt EXCEPT ![r] = now]
    /\ pc' = [pc EXCEPT ![r] = IF match = "exact" THEN "conflict409" ELSE "select"]
    /\ UNCHANGED <<now, lastRowid, rows, match, target, runnerVars, poll>>

\* SELECT a pending job, LIMIT 1, in no order: none ...
FindNone(r) ==
    /\ At(r, "select")
    /\ Pending = {}
    /\ GoTo(r, "insert")
    /\ UNCHANGED <<now, lastRowid, rows, match, target, runnerVars, poll>>

\* ... a fresh one, which answers the request with 429 ...
FindFresh(r) ==
    /\ At(r, "select")
    /\ \E j \in Pending :
        /\ ~StaleForSubmit(j)
        /\ target' = [target EXCEPT ![r] = j]
    /\ GoTo(r, "busy429")
    /\ UNCHANGED <<now, lastRowid, rows, match, runnerVars, poll>>

\* ... or a stale one.
FindStale(r) ==
    /\ At(r, "select")
    /\ \E j \in Pending :
        /\ StaleForSubmit(j)
        /\ target' = [target EXCEPT ![r] = j]
    /\ GoTo(r, "expire")
    /\ UNCHANGED <<now, lastRowid, rows, match, runnerVars, poll>>

\* The stale job is expired, whatever happened to it since the SELECT.
ExpireStale(r) ==
    /\ At(r, "expire")
    /\ UpdateRow(target[r], TimedOut(rows[target[r]]))
    /\ GoTo(r, "insert")
    /\ UNCHANGED <<now, lastRowid, match, target, runnerVars, poll>>

InsertJob(r) ==
    /\ At(r, "insert")
    /\ lastRowid' = lastRowid + 1
    /\ rows' = [rows EXCEPT ![r] = NewRow(now, lastRowid + 1)]
    /\ GoTo(r, "recheck")
    /\ UNCHANGED <<now, match, target, runnerVars, poll>>

\* Of the pending jobs (two at most are read, the earliest first) another one
\* comes first: the handler will delete its own row ...
RecheckLoses(r) ==
    /\ At(r, "recheck")
    /\ \E f \in Pending \ {r} :
        /\ IsFirst(f)
        /\ Pending # {f}
        /\ target' = [target EXCEPT ![r] = f]
    /\ GoTo(r, "yield")
    /\ UNCHANGED <<now, lastRowid, rows, match, runnerVars, poll>>

\* ... its own comes first, or no two are pending: it will dispatch its job.
RecheckWins(r) ==
    /\ At(r, "recheck")
    /\ \/ r \in Pending /\ IsFirst(r)
       \/ \E f \in Requests : Pending \subseteq {f}
    /\ GoTo(r, "put")
    /\ UNCHANGED <<now, lastRowid, rows, match, target, runnerVars, poll>>

DeleteRow(r) == rows' = [rows EXCEPT ![r] = NoRow]

\* The loser deletes its row and answers 202 with the winner's id.
Yield(r) ==
    /\ At(r, "yield")
    /\ DeleteRow(r)
    /\ GoTo(r, "joined")
    /\ UNCHANGED <<now, lastRowid, match, target, runnerVars, poll>>

\* enqueue, in the Durable Object: storage.put, then setAlarm; 202.
EnqueuePut(r) ==
    /\ At(r, "put")
    /\ stored' = [stored EXCEPT ![r] = TRUE]
    /\ GoTo(r, "setAlarm")
    /\ UNCHANGED <<now, lastRowid, rows, match, target, alarm, run, crashes, poll>>

EnqueueSetAlarm(r) ==
    /\ At(r, "setAlarm")
    /\ alarm' = [alarm EXCEPT ![r] = TRUE]
    /\ GoTo(r, "accepted")
    /\ UNCHANGED <<now, lastRowid, rows, match, target, stored, run, crashes, poll>>

\* The call fails: before the put, between the two, or with its reply lost.
EnqueueFails(r) ==
    /\ EnqueueMayFail
    /\ At(r, "put") \/ At(r, "setAlarm")
    /\ \/ UNCHANGED alarm
       \/ pc[r] = "setAlarm" /\ alarm' = [alarm EXCEPT ![r] = TRUE]
    /\ GoTo(r, "cleanup")
    /\ UNCHANGED <<now, lastRowid, rows, match, target, stored, run, crashes, poll>>

\* The catch of the enqueue deletes the row and answers 500.
Cleanup(r) ==
    /\ At(r, "cleanup")
    /\ DeleteRow(r)
    /\ GoTo(r, "failed500")
    /\ UNCHANGED <<now, lastRowid, match, target, runnerVars, poll>>

-----------------------------------------------------------------------------
(* VerificationJobRunner.alarm(), one Durable Object per job *)

RunTo(j, l) == run' = [run EXCEPT ![j] = l] /\ UNCHANGED crashes

\* Faulty variant: the stored job is taken out when it is read.
AlarmTakesJob(j) ==
    /\ alarm[j]
    /\ run[j] = "idle"
    /\ RunTo(j, IF stored[j] THEN "working" ELSE "returning")
    /\ stored' = [stored EXCEPT ![j] = FALSE]
    /\ UNCHANGED <<now, lastRowid, rows, match, requestVars, alarm, poll>>

\* The alarm fires; without a stored job it only returns.
AlarmFires(j) ==
    /\ alarm[j]
    /\ run[j] = "idle"
    /\ RunTo(j, IF stored[j] THEN "working" ELSE "returning")
    /\ UNCHANGED <<now, lastRowid, rows, match, requestVars, stored, alarm, poll>>

\* runVerificationJob records an error: no code, no match, a failed
\* compilation, or internal_error from its catch.
RecordFailure(j) ==
    /\ run[j] \in {"working", "persisted"}
    /\ UpdateRow(j, Failed(rows[j]))
    /\ RunTo(j, "cleaning")
    /\ UNCHANGED <<now, lastRowid, match, requestVars, stored, alarm, poll>>

\* The match reaches verified_contracts: a first match is inserted, an exact
\* one replaces a partial one, any other finding leaves what is there.
PersistMatch(j) ==
    /\ run[j] = "working"
    /\ \E m \in {"partial", "exact"} :
        match' = IF match = "none" \/ (match = "partial" /\ m = "exact")
                 THEN m ELSE match
    /\ RunTo(j, "persisted")
    /\ UNCHANGED <<now, lastRowid, rows, requestVars, stored, alarm, poll>>

\* The job is completed and its error fields are cleared.
RecordSuccess(j) ==
    /\ run[j] = "persisted"
    /\ UpdateRow(j, Succeeded(rows[j]))
    /\ RunTo(j, "cleaning")
    /\ UNCHANGED <<now, lastRowid, match, requestVars, stored, alarm, poll>>

\* Neither outcome reaches the table: the update of the catch throws too, or
\* the chain registry cannot be resolved.  alarm() only logs it.
RecordNothing(j) ==
    /\ run[j] \in {"working", "persisted"}
    /\ RunTo(j, "cleaning")
    /\ UNCHANGED <<now, lastRowid, rows, match, requestVars, stored, alarm, poll>>

DeleteStored(j) ==
    /\ run[j] = "cleaning"
    /\ stored' = [stored EXCEPT ![j] = FALSE]
    /\ RunTo(j, "returning")
    /\ UNCHANGED <<now, lastRowid, rows, match, requestVars, alarm, poll>>

AlarmReturns(j) ==
    /\ run[j] = "returning"
    /\ alarm' = [alarm EXCEPT ![j] = FALSE]
    /\ RunTo(j, "idle")
    /\ UNCHANGED <<now, lastRowid, rows, match, requestVars, stored, poll>>

\* The Durable Object is evicted in its alarm, which will be retried.
RunnerCrashes(j) ==
    /\ run[j] # "idle"
    /\ crashes < MaxCrashes
    /\ crashes' = crashes + 1
    /\ run' = [run EXCEPT ![j] = "idle"]
    /\ UNCHANGED <<now, lastRowid, rows, match, requestVars, stored, alarm, poll>>

-----------------------------------------------------------------------------
(* GET /v2/verify/:verificationId; a poll that expires nothing is a stutter *)

\* The ids that a 202 has answered.
Handed(j) ==
    \/ pc[j] = "accepted"
    \/ \E r \in Requests : pc[r] = "joined" /\ target[r] = j

PollFindsStale(p, j) ==
    /\ poll[p] = NoJob
    /\ Handed(j)
    /\ rows[j].state = "pending"
    /\ StaleForPoll(j)
    /\ poll' = [poll EXCEPT ![p] = j]
    /\ UNCHANGED <<now, lastRowid, rows, match, requestVars, runnerVars>>

PollExpires(p) ==
    /\ poll[p] # NoJob
    /\ UpdateRow(poll[p], TimedOut(rows[poll[p]]))
    /\ poll' = [poll EXCEPT ![p] = NoJob]
    /\ UNCHANGED <<now, lastRowid, match, requestVars, runnerVars>>

-----------------------------------------------------------------------------
Tick ==
    /\ now < MaxTime
    /\ now' = now + 1
    /\ UNCHANGED <<lastRowid, rows, match, requestVars, runnerVars, poll>>

HandlerStep(r) ==
    \/ FindNone(r) \/ FindFresh(r) \/ FindStale(r) \/ ExpireStale(r)
    \/ InsertJob(r) \/ RecheckLoses(r) \/ RecheckWins(r) \/ Yield(r)
    \/ EnqueuePut(r) \/ EnqueueSetAlarm(r) \/ EnqueueFails(r) \/ Cleanup(r)

RunnerStep(j) ==
    \/ AlarmFires(j) \/ RecordFailure(j) \/ PersistMatch(j)
    \/ RecordSuccess(j) \/ RecordNothing(j) \/ DeleteStored(j) \/ AlarmReturns(j)

Next ==
    \/ \E r \in Requests : Submit(r) \/ HandlerStep(r)
    \/ \E j \in Requests : RunnerStep(j) \/ RunnerCrashes(j)
    \/ \E p \in Pollers, j \in Requests : PollFindsStale(p, j)
    \/ \E p \in Pollers : PollExpires(p)
    \/ Tick

Spec == Init /\ [][Next]_vars

\* The platform fires set alarms and lets alarm handlers run; a client polls
\* the id it was handed; time passes.  Nothing is assumed of the POST handlers.
Fairness ==
    /\ \A j \in Requests : WF_vars(RunnerStep(j))
    /\ \A p \in Pollers, j \in Requests : WF_vars(PollFindsStale(p, j))
    /\ \A p \in Pollers : WF_vars(PollExpires(p))
    /\ WF_vars(Tick)

FairSpec == Spec /\ Fairness

-----------------------------------------------------------------------------
(* Properties *)

\* The jobs past the re-check whose row is still pending.
InFlight == {j \in Requests : pc[j] \in Admitted /\ rows[j].state = "pending"}

\* At most one job of the contract is dispatched and pending, however many
\* requests race through select, insert and re-check, and although a stale
\* job may be expired between any two of their steps.
OneInFlight == \A j, k \in InFlight : j = k

\* The jobs past the re-check that left the slot.
Released == {j \in Requests : pc[j] \in Admitted /\ rows[j].state # "pending"}

\* The jobs are the claims and releases of one slot: a job enters only when
\* none is in flight, one that completed or was deleted never re-enters, and a
\* job that was expired while its handler was still contending never enters.
Slot == INSTANCE JobSlot WITH
    Job <- Requests, slot <- InFlight, released <- Released
ImplementsSlot == Slot!Spec

\* An id answered with 202 can be polled: its row is not deleted by the
\* clean-up of the request that created it.
HandedIdIsKnown == \A j \in Requests : Handed(j) => rows[j].state # "absent"

\* A job with a verified contract reports no error: its GET answers with the
\* contract, not with a timeout that was noticed before the job completed.
SuccessClearsError ==
    \A j \in Requests : rows[j].verified => rows[j].error = "none"

\* Every id a client polls is answered as completed, or as unknown, in the
\* end, although alarms crash and runs end without recording an outcome.
HandedJobResolves ==
    \A j \in Requests : Handed(j) ~> rows[j].state # "pending"

\* A job with a set alarm is run to its end, although the Durable Object
\* may crash: it is not removed from storage before.
AlarmedJobRuns ==
    \A j \in Requests : (stored[j] /\ alarm[j]) ~> run[j] = "cleaning"

-----------------------------------------------------------------------------
(* The inductive invariant behind OneInFlight and ImplementsSlot *)

\* The handler of j has inserted its row.
Inserted(j) == pc[j] \in {"recheck", "yield", "joined"} \cup Admitted

RowsAreInserted == \A j \in Requests : rows[j].state # "absent" => Inserted(j)

RowsArePast ==
    \A j \in Requests :
        /\ rows[j].startedAt <= now /\ rows[j].rowid <= lastRowid
        /\ arrivedAt[j] <= now

\* A job in flight precedes every pending job that is still to be re-checked.
AdmittedFirst ==
    \A a \in InFlight, b \in Pending : pc[b] = "recheck" => Before(a, b)

\* Whoever is about to expire a job has seen it stale, which it remains.
IsStale(j) ==
    /\ j \in Requests
    /\ Inserted(j)
    /\ rows[j].state = "absent" \/ StaleForSubmit(j)
ExpiryIsJustified ==
    /\ \A r \in Requests : pc[r] = "expire" => IsStale(target[r])
    /\ \A p \in Pollers : poll[p] # NoJob => IsStale(poll[p])

\* Only admitted jobs reach the Durable Object.
RunnersAreAdmitted ==
    \A j \in Requests :
        stored[j] \/ alarm[j] \/ run[j] # "idle" => pc[j] \in Admitted

\* A row that is completed before its handler's re-check is past its TTL, so
\* the handler's time is up.
FreshUntilRecheck ==
    \A r \in Requests :
        pc[r] = "recheck" =>
            /\ arrivedAt[r] <= rows[r].startedAt
            /\ rows[r].state # "absent"
            /\ rows[r].state = "completed" => StaleForSubmit(r)

SlotInv ==
    /\ TypeOK /\ OneInFlight
    /\ RowsAreInserted /\ RowsArePast /\ AdmittedFirst
    /\ ExpiryIsJustified /\ RunnersAreAdmitted /\ FreshUntilRecheck

=============================================================================
