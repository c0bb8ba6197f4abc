----------------------- MODULE VerificationJobsProofs -----------------------
(***************************************************************************)
(* Proofs about VerificationJobs, for any set of requests and polls and    *)
(* any times: the types, that at most one job is in flight, and that the   *)
(* jobs implement the slot.                                                *)
(***************************************************************************)
EXTENDS VerificationJobs, TLAPS

USE NoJobAssumption, TimesAssumption

Locations == {"idle"} \cup Contending \cup Admitted \cup Refused

\* The rows that the statements write are rows.
LEMMA RowTypes ==
    ASSUME NEW row \in Row
    PROVE  /\ TimedOut(row) \in Row
           /\ Failed(row) \in Row
           /\ Succeeded(row) \in Row
           /\ NoRow \in Row
           /\ \A new \in {TimedOut(row), Failed(row), Succeeded(row)} :
                 /\ new.state = "completed"
                 /\ new.startedAt = row.startedAt /\ new.rowid = row.rowid
BY DEF Row, TimedOut, Failed, Succeeded, NoRow

LEMMA TypeInit == Init => TypeOK
BY DEF Init, TypeOK, NoRow, Row, Match, RunState

\* The part of a step's type that moving a handler preserves.
LEMMA GoToType ==
    ASSUME TypeOK, NEW r \in Requests, NEW l \in Locations, GoTo(r, l)
    PROVE  pc' \in [Requests -> Locations] /\ arrivedAt' \in [Requests -> Nat]
BY DEF GoTo, TypeOK, Locations

LEMMA UpdateRowType ==
    ASSUME TypeOK, NEW j \in Requests, NEW row \in Row, UpdateRow(j, row)
    PROVE  rows' \in [Requests -> Row]
BY DEF UpdateRow, TypeOK

LEMMA TypeSubmit ==
    ASSUME TypeOK, NEW r \in Requests, Submit(r)
    PROVE  TypeOK'
BY DEF TypeOK, Submit, runnerVars, Contending, Refused

LEMMA TypeHandler ==
    ASSUME TypeOK, NEW r \in Requests, HandlerStep(r)
    PROVE  TypeOK'
<1> USE DEF TypeOK, runnerVars, At
<1>t. Contending \cup Admitted \cup Refused \subseteq Locations
  BY DEF Locations
<1>1. CASE FindNone(r)
  BY <1>1, GoToType, <1>t DEF FindNone, Contending, Locations
<1>2. CASE FindFresh(r)
  BY <1>2, GoToType DEF FindFresh, Pending, Refused, Locations
<1>3. CASE FindStale(r)
  BY <1>3, GoToType DEF FindStale, Pending, Contending, Locations
<1>4. CASE ExpireStale(r)
  <2>1. rows' \in [Requests -> Row]
    BY <1>4, RowTypes DEF ExpireStale, UpdateRow
  <2>2. QED
    BY <1>4, <2>1, GoToType DEF ExpireStale, Contending, Locations
<1>5. CASE InsertJob(r)
  <2>1. NewRow(now, lastRowid + 1) \in Row
    BY DEF NewRow, Row
  <2>2. QED
    BY <1>5, <2>1, GoToType DEF InsertJob, Contending, Locations
<1>6. CASE RecheckLoses(r)
  BY <1>6, GoToType DEF RecheckLoses, Pending, Contending, Locations
<1>7. CASE RecheckWins(r)
  BY <1>7, GoToType DEF RecheckWins, Admitted, Locations
<1>8. CASE Yield(r)
  BY <1>8, GoToType DEF Yield, DeleteRow, NoRow, Row, Refused, Locations
<1>9. CASE EnqueuePut(r)
  BY <1>9, GoToType DEF EnqueuePut, Admitted, Locations
<1>10. CASE EnqueueSetAlarm(r)
  BY <1>10, GoToType DEF EnqueueSetAlarm, Admitted, Locations
<1>11. CASE EnqueueFails(r)
  BY <1>11, GoToType DEF EnqueueFails, Admitted, Locations
<1>12. CASE Cleanup(r)
  BY <1>12, GoToType DEF Cleanup, DeleteRow, NoRow, Row, Admitted, Locations
<1>13. QED
  BY <1>1, <1>2, <1>3, <1>4, <1>5, <1>6, <1>7, <1>8, <1>9, <1>10, <1>11, <1>12
     DEF HandlerStep

LEMMA TypeRunner ==
    ASSUME TypeOK, NEW j \in Requests, RunnerStep(j) \/ RunnerCrashes(j)
    PROVE  TypeOK'
<1> USE DEF TypeOK, requestVars, RunTo, RunState
<1>1. CASE AlarmFires(j)
  BY <1>1 DEF AlarmFires
<1>2. CASE RecordFailure(j)
  BY <1>2, RowTypes, UpdateRowType DEF RecordFailure
<1>3. CASE PersistMatch(j)
  BY <1>3 DEF PersistMatch, Match
<1>4. CASE RecordSuccess(j)
  BY <1>4, RowTypes, UpdateRowType DEF RecordSuccess
<1>5. CASE RecordNothing(j)
  BY <1>5 DEF RecordNothing
<1>6. CASE DeleteStored(j)
  BY <1>6 DEF DeleteStored
<1>7. CASE AlarmReturns(j)
  BY <1>7 DEF AlarmReturns
<1>8. CASE RunnerCrashes(j)
  BY <1>8 DEF RunnerCrashes
<1>9. QED
  BY <1>1, <1>2, <1>3, <1>4, <1>5, <1>6, <1>7, <1>8 DEF RunnerStep

LEMMA TypePoll ==
    ASSUME TypeOK, NEW p \in Pollers,
           PollExpires(p) \/ \E j \in Requests : PollFindsStale(p, j)
    PROVE  TypeOK'
<1>1. CASE PollExpires(p)
  <2>1. rows' \in [Requests -> Row]
    BY <1>1, RowTypes DEF PollExpires, UpdateRow, TypeOK
  <2>2. QED
    BY <1>1, <2>1 DEF PollExpires, TypeOK, requestVars, runnerVars
<1>2. CASE \E j \in Requests : PollFindsStale(p, j)
  BY <1>2 DEF PollFindsStale, TypeOK, requestVars, runnerVars
<1>3. QED
  BY <1>1, <1>2

LEMMA TypeNext == TypeOK /\ [Next]_vars => TypeOK'
<1> SUFFICES ASSUME TypeOK, [Next]_vars PROVE TypeOK'
  OBVIOUS
<1>1. CASE Tick
  BY <1>1 DEF Tick, TypeOK, requestVars, runnerVars
<1>2. CASE UNCHANGED vars
  BY <1>2 DEF vars, TypeOK, requestVars, runnerVars
<1>3. QED
  BY <1>1, <1>2, TypeSubmit, TypeHandler, TypeRunner, TypePoll DEF Next

\* Every reachable state is well typed, whatever the constants are.
THEOREM TypeCorrect == Spec => []TypeOK
BY TypeInit, TypeNext, PTL DEF Spec

-----------------------------------------------------------------------------
(* SlotInv is inductive *)

LEMMA SlotInit == Init => SlotInv
BY TypeInit DEF Init, SlotInv, OneInFlight, InFlight, Pending, RowsAreInserted,
   RowsArePast, AdmittedFirst, ExpiryIsJustified, RunnersAreAdmitted,
   FreshUntilRecheck, Admitted, NoRow

\* What a step that only completes rows does to the parts of SlotInv.
LEMMA CompletingKeepsSlotInv ==
    ASSUME SlotInv, TypeOK', NEW j \in Requests, NEW row \in Row,
           UpdateRow(j, row),
           row.state = "completed",
           row.startedAt = rows[j].startedAt, row.rowid = rows[j].rowid,
           UNCHANGED <<now, lastRowid, arrivedAt>>,
           pc[j] \in Admitted \/ IsStale(j),
           \A r \in Requests : pc'[r] = pc[r] \/ (pc[r] = "expire" /\ pc'[r] = "insert")
    PROVE  /\ OneInFlight' /\ RowsAreInserted' /\ RowsArePast'
           /\ AdmittedFirst' /\ FreshUntilRecheck'
<1> USE DEF SlotInv, TypeOK, UpdateRow
<1>1. \A r \in Requests : pc'[r] \in Admitted <=> pc[r] \in Admitted
  BY DEF Admitted
<1>2. Pending' \subseteq Pending /\ InFlight' \subseteq InFlight
  BY <1>1 DEF Pending, InFlight
<1>3. \A r \in Requests : rows'[r].startedAt = rows[r].startedAt
                       /\ rows'[r].rowid = rows[r].rowid
  BY DEF Row
<1>4. OneInFlight'
  BY <1>2 DEF OneInFlight
<1>5. RowsAreInserted'
  BY DEF RowsAreInserted, Inserted, Admitted
<1>6. RowsArePast'
  BY <1>3 DEF RowsArePast
<1>7. AdmittedFirst'
  BY <1>2, <1>3 DEF AdmittedFirst, Before, Pending, InFlight
<1>8. FreshUntilRecheck'
  BY <1>3 DEF FreshUntilRecheck, IsStale, StaleForSubmit, Admitted
<1>9. QED
  BY <1>4, <1>5, <1>6, <1>7, <1>8

\* A job that was stale stays stale while rows are only completed or deleted.
LEMMA StaleStays ==
    ASSUME SlotInv, TypeOK', NEW j, IsStale(j), now' = now,
           Inserted(j)',
           rows'[j].state = "absent" \/ rows'[j].startedAt = rows[j].startedAt,
           rows[j].state = "absent" => rows'[j].state = "absent"
    PROVE  IsStale(j)'
BY DEF IsStale, StaleForSubmit, SlotInv

\* The steps of a handler that leave the rows alone and stay on their side of
\* the re-check.
LEMMA SlotQuietHandler ==
    ASSUME SlotInv, TypeOK', NEW r \in Requests,
           \/ Submit(r) \/ FindNone(r) \/ FindFresh(r) \/ FindStale(r)
           \/ RecheckLoses(r) \/ EnqueuePut(r) \/ EnqueueSetAlarm(r)
           \/ EnqueueFails(r)
    PROVE  SlotInv'
<1> USE DEF SlotInv, TypeOK
<1>1. /\ UNCHANGED <<now, lastRowid, rows, run, poll>>
      /\ \A q \in Requests \ {r} :
            /\ pc'[q] = pc[q] /\ arrivedAt'[q] = arrivedAt[q]
            /\ target'[q] = target[q]
            /\ stored'[q] = stored[q] /\ alarm'[q] = alarm[q]
  BY DEF Submit, FindNone, FindFresh, FindStale, RecheckLoses, EnqueuePut,
         EnqueueSetAlarm, EnqueueFails, GoTo, runnerVars
<1>2. /\ pc'[r] # "recheck"
      /\ pc'[r] \in Admitted <=> pc[r] \in Admitted
      /\ Inserted(r)' <=> Inserted(r)
      /\ stored'[r] \/ alarm'[r] => stored[r] \/ alarm[r] \/ pc[r] \in Admitted
      /\ arrivedAt'[r] = arrivedAt[r] \/ arrivedAt'[r] = now
  BY DEF Submit, FindNone, FindFresh, FindStale, RecheckLoses, EnqueuePut,
         EnqueueSetAlarm, EnqueueFails, GoTo, At, runnerVars, Admitted, Inserted
<1>3. Pending' = Pending /\ InFlight' = InFlight
  BY <1>1, <1>2 DEF Pending, InFlight
<1>4. OneInFlight' /\ RowsArePast'
  BY <1>1, <1>2, <1>3 DEF OneInFlight, RowsArePast
<1>5. RowsAreInserted'
  BY <1>1, <1>2 DEF RowsAreInserted, Inserted
<1>6. AdmittedFirst'
  BY <1>1, <1>2, <1>3 DEF AdmittedFirst, Before, Pending
<1>7. RunnersAreAdmitted'
  BY <1>1, <1>2 DEF RunnersAreAdmitted
<1>8. FreshUntilRecheck'
  BY <1>1, <1>2 DEF FreshUntilRecheck, StaleForSubmit
<1>9. \A j : IsStale(j) => IsStale(j)'
  BY <1>1, <1>2 DEF IsStale, Inserted, StaleForSubmit
<1>10. pc'[r] = "expire" => IsStale(target[r])'
  <2> SUFFICES ASSUME pc'[r] = "expire" PROVE IsStale(target[r])'
    OBVIOUS
  <2>1. FindStale(r)
    BY DEF Submit, FindNone, FindFresh, RecheckLoses, EnqueuePut,
           EnqueueSetAlarm, EnqueueFails, GoTo, At
  <2>2. PICK j \in Pending : StaleForSubmit(j) /\ target' = [target EXCEPT ![r] = j]
    BY <2>1 DEF FindStale
  <2>3. IsStale(j) /\ target'[r] = j
    BY <2>2 DEF Pending, IsStale, RowsAreInserted
  <2>4. IsStale(j)'
    BY <2>3, <1>9
  <2>5. QED
    BY <2>3, <2>4 DEF IsStale, StaleForSubmit, Inserted
<1>11. ExpiryIsJustified'
  BY <1>1, <1>9, <1>10 DEF ExpiryIsJustified
<1>12. QED
  BY <1>4, <1>5, <1>6, <1>7, <1>8, <1>11

LEMMA SlotExpire ==
    ASSUME SlotInv, TypeOK', NEW r \in Requests, ExpireStale(r)
    PROVE  SlotInv'
<1> DEFINE j == target[r]
<1> USE DEF SlotInv, TypeOK
<1>1. j \in Requests /\ IsStale(j)
  BY DEF ExpireStale, At, ExpiryIsJustified, IsStale
<1>2. \A q \in Requests : pc'[q] = pc[q] \/ (pc[q] = "expire" /\ pc'[q] = "insert")
  BY DEF ExpireStale, At, GoTo
<1>3. /\ OneInFlight' /\ RowsAreInserted' /\ RowsArePast'
      /\ AdmittedFirst' /\ FreshUntilRecheck'
  <2>1. /\ TimedOut(rows[j]) \in Row
        /\ TimedOut(rows[j]).state = "completed"
        /\ TimedOut(rows[j]).startedAt = rows[j].startedAt
        /\ TimedOut(rows[j]).rowid = rows[j].rowid
    BY <1>1, RowTypes
  <2>2. /\ UpdateRow(j, TimedOut(rows[j]))
        /\ UNCHANGED <<now, lastRowid, arrivedAt>>
    BY DEF ExpireStale, GoTo
  <2> HIDE DEF j
  <2>3. QED
    BY <1>1, <1>2, <2>1, <2>2, CompletingKeepsSlotInv
<1>4. RunnersAreAdmitted'
  BY <1>2 DEF RunnersAreAdmitted, ExpireStale, runnerVars, Admitted
<1>5. \A k : IsStale(k) => IsStale(k)'
  BY <1>1, <1>2 DEF ExpireStale, UpdateRow, TimedOut, IsStale, Inserted,
                    StaleForSubmit, Admitted, Row
<1>6. ExpiryIsJustified'
  BY <1>2, <1>5 DEF ExpiryIsJustified, ExpireStale
<1>7. QED
  BY <1>3, <1>4, <1>6

LEMMA SlotInsert ==
    ASSUME SlotInv, TypeOK', NEW r \in Requests, InsertJob(r)
    PROVE  SlotInv'
<1> USE DEF SlotInv, TypeOK
<1>1. /\ pc[r] = "insert" /\ pc' = [pc EXCEPT ![r] = "recheck"]
      /\ now < arrivedAt[r] + HandlerTimeout
      /\ rows' = [rows EXCEPT ![r] = NewRow(now, lastRowid + 1)]
      /\ lastRowid' = lastRowid + 1
      /\ UNCHANGED <<now, arrivedAt, target, stored, alarm, run, poll>>
  BY DEF InsertJob, At, GoTo, runnerVars
<1>2. /\ rows'[r].state = "pending" /\ rows'[r].startedAt = now
      /\ rows'[r].rowid = lastRowid + 1
  BY <1>1 DEF NewRow
<1>3. InFlight' = InFlight /\ r \notin InFlight /\ Pending' = Pending \cup {r}
  BY <1>1, <1>2 DEF InFlight, Pending, Admitted
<1>4. OneInFlight'
  BY <1>3 DEF OneInFlight
<1>5. RowsAreInserted' /\ RowsArePast'
  BY <1>1, <1>2 DEF RowsAreInserted, RowsArePast, Inserted, Admitted, Row
<1>6. AdmittedFirst'
  <2> SUFFICES ASSUME NEW a \in InFlight, NEW b \in Pending',
                      pc'[b] = "recheck"
               PROVE  Before(a, b)'
    BY <1>3 DEF AdmittedFirst
  <2>0. a \in Requests /\ rows[a] \in Row /\ rows'[a] = rows[a] /\ b \in Requests
    BY <1>1, <1>3 DEF InFlight, Pending
  <2>1. CASE b = r
    <3>1. /\ rows[a].startedAt \in Nat /\ rows[a].rowid \in Nat
          /\ rows[a].startedAt <= now /\ rows[a].rowid < lastRowid + 1
      BY <2>0 DEF RowsArePast, Row
    <3>2. QED
      BY SMTT(20), <2>0, <2>1, <3>1, <1>2 DEF Before
  <2>2. CASE b # r
    BY <2>0, <2>2, <1>1, <1>3 DEF Before, AdmittedFirst
  <2>3. QED
    BY <2>1, <2>2
<1>7. RunnersAreAdmitted'
  BY <1>1 DEF RunnersAreAdmitted, Admitted
<1>8. FreshUntilRecheck'
  BY <1>1, <1>2 DEF FreshUntilRecheck, StaleForSubmit, RowsArePast
<1>9. \A k : IsStale(k) => IsStale(k)' /\ k # r
  BY <1>1 DEF IsStale, StaleForSubmit, Inserted, Admitted
<1>10. ExpiryIsJustified'
  BY <1>1, <1>9 DEF ExpiryIsJustified
<1>11. QED
  BY <1>4, <1>5, <1>6, <1>7, <1>8, <1>10

\* The winner of the re-check: its row is pending, and nothing is in flight.
LEMMA WinnerIsFirst ==
    ASSUME SlotInv, NEW r \in Requests, RecheckWins(r)
    PROVE  /\ r \in Pending
           /\ InFlight = {}
           /\ \A b \in Pending \ {r} : Before(r, b)
<1> USE DEF SlotInv, TypeOK
<1>1. r \in Pending
  <2>1. /\ rows[r] \in Row /\ arrivedAt[r] \in Nat /\ now \in Nat
        /\ now < arrivedAt[r] + HandlerTimeout
        /\ arrivedAt[r] <= rows[r].startedAt
        /\ rows[r].state # "absent"
        /\ rows[r].state = "completed" => rows[r].startedAt <= now - JobTTL
    BY DEF RecheckWins, At, FreshUntilRecheck, StaleForSubmit
  <2>2. rows[r].state # "completed"
    BY <2>1 DEF Row
  <2>3. QED
    BY <2>1, <2>2 DEF Row, Pending
<1>2. \A b \in Pending \ {r} : Before(r, b)
  BY <1>1 DEF RecheckWins, IsFirst
<1>3. InFlight = {}
  <2> SUFFICES ASSUME NEW a \in InFlight PROVE FALSE
    OBVIOUS
  <2>1. a \in Pending \ {r} /\ rows[a] \in Row /\ rows[r] \in Row
    BY DEF InFlight, Pending, RecheckWins, At, Admitted
  <2>2. Before(a, r) /\ Before(r, a)
    BY <1>1, <1>2, <2>1 DEF AdmittedFirst, RecheckWins, At
  <2>3. QED
    BY <2>1, <2>2 DEF Before, Row
<1>4. QED
  BY <1>1, <1>2, <1>3

LEMMA SlotWin ==
    ASSUME SlotInv, TypeOK', NEW r \in Requests, RecheckWins(r)
    PROVE  SlotInv'
<1> USE DEF SlotInv, TypeOK
<1>1. /\ pc[r] = "recheck" /\ pc' = [pc EXCEPT ![r] = "put"]
      /\ UNCHANGED <<now, lastRowid, rows, arrivedAt, target, stored, alarm, run, poll>>
  BY DEF RecheckWins, At, GoTo, runnerVars
<1>2. InFlight' = {r} /\ Pending' = Pending
  BY <1>1, WinnerIsFirst DEF InFlight, Pending, Admitted
<1>3. OneInFlight'
  BY <1>2 DEF OneInFlight
<1>4. RowsAreInserted' /\ RowsArePast'
  BY <1>1 DEF RowsAreInserted, RowsArePast, Inserted, Admitted
<1>5. AdmittedFirst'
  BY <1>1, <1>2, WinnerIsFirst DEF AdmittedFirst, Before
<1>6. RunnersAreAdmitted'
  BY <1>1 DEF RunnersAreAdmitted, Admitted
<1>7. FreshUntilRecheck'
  BY <1>1 DEF FreshUntilRecheck, StaleForSubmit
<1>8. ExpiryIsJustified'
  BY <1>1 DEF ExpiryIsJustified, IsStale, StaleForSubmit, Inserted, Admitted
<1>9. QED
  BY <1>3, <1>4, <1>5, <1>6, <1>7, <1>8

\* A handler deletes its own row, after the re-check.
LEMMA SlotDelete ==
    ASSUME SlotInv, TypeOK', NEW r \in Requests, Yield(r) \/ Cleanup(r)
    PROVE  SlotInv'
<1> USE DEF SlotInv, TypeOK
<1>1. /\ rows' = [rows EXCEPT ![r] = NoRow]
      /\ \/ pc[r] = "yield" /\ pc' = [pc EXCEPT ![r] = "joined"]
         \/ pc[r] = "cleanup" /\ pc' = [pc EXCEPT ![r] = "failed500"]
      /\ UNCHANGED <<now, lastRowid, arrivedAt, target, stored, alarm, run, poll>>
  BY DEF Yield, Cleanup, At, GoTo, DeleteRow, runnerVars
<1>2. /\ rows'[r].state = "absent" /\ rows'[r].startedAt = 0
      /\ rows'[r].rowid = 0
      /\ \A q \in Requests \ {r} : rows'[q] = rows[q] /\ pc'[q] = pc[q]
      /\ pc'[r] # "recheck" /\ pc'[r] # "expire"
      /\ pc'[r] \in Admitted <=> pc[r] \in Admitted
      /\ Inserted(r) /\ Inserted(r)'
  BY <1>1 DEF NoRow, Admitted, Inserted
<1>3. Pending' \subseteq Pending \ {r} /\ InFlight' \subseteq InFlight \ {r}
  BY <1>2 DEF Pending, InFlight
<1>4. OneInFlight'
  BY <1>3 DEF OneInFlight
<1>5. RowsAreInserted' /\ RowsArePast'
  BY <1>1, <1>2 DEF RowsAreInserted, RowsArePast, Inserted
<1>6. AdmittedFirst'
  <2> SUFFICES ASSUME NEW a \in InFlight', NEW b \in Pending', pc'[b] = "recheck"
               PROVE  Before(a, b)'
    BY DEF AdmittedFirst
  <2>1. /\ a \in InFlight \ {r} /\ b \in Pending \ {r}
        /\ a \in Requests /\ b \in Requests
    BY <1>3 DEF InFlight, Pending
  <2>2. QED
    BY <1>2, <2>1 DEF AdmittedFirst, Before
<1>7. RunnersAreAdmitted'
  BY <1>1, <1>2 DEF RunnersAreAdmitted
<1>8. FreshUntilRecheck'
  BY <1>1, <1>2 DEF FreshUntilRecheck, StaleForSubmit
<1>9. \A k : IsStale(k) => IsStale(k)'
  BY <1>1, <1>2 DEF IsStale, StaleForSubmit, Inserted
<1>10. ExpiryIsJustified'
  BY <1>1, <1>2, <1>9 DEF ExpiryIsJustified
<1>11. QED
  BY <1>4, <1>5, <1>6, <1>7, <1>8, <1>10

LEMMA SlotHandler ==
    ASSUME SlotInv, TypeOK', NEW r \in Requests, Submit(r) \/ HandlerStep(r)
    PROVE  SlotInv'
BY SlotQuietHandler, SlotExpire, SlotInsert, SlotWin, SlotDelete DEF HandlerStep

\* The row that a finished run or an expiring poll writes is a completed one.
LEMMA SlotRunner ==
    ASSUME SlotInv, TypeOK', NEW j \in Requests, RunnerStep(j) \/ RunnerCrashes(j)
    PROVE  SlotInv'
<1> USE DEF SlotInv, TypeOK
<1>1. /\ UNCHANGED <<now, lastRowid, pc, arrivedAt, target, poll>>
      /\ \A k \in Requests \ {j} : /\ stored'[k] = stored[k] /\ alarm'[k] = alarm[k]
                                   /\ run'[k] = run[k]
      /\ pc[j] \in Admitted
  BY DEF RunnerStep, AlarmFires, RecordFailure, PersistMatch, RecordSuccess,
         RecordNothing, DeleteStored, AlarmReturns, RunnerCrashes, RunTo,
         requestVars, RunnersAreAdmitted
<1>2. RunnersAreAdmitted'
  BY <1>1 DEF RunnersAreAdmitted
<1>3. CASE rows' = rows
  BY <1>1, <1>2, <1>3 DEF OneInFlight, InFlight, Pending, RowsAreInserted,
     Inserted, RowsArePast, AdmittedFirst, Before, ExpiryIsJustified, IsStale,
     FreshUntilRecheck, StaleForSubmit
<1>4. ASSUME NEW new \in {Failed(rows[j]), Succeeded(rows[j])}, UpdateRow(j, new)
      PROVE  SlotInv'
  <2>1. /\ new \in Row /\ new.state = "completed"
        /\ new.startedAt = rows[j].startedAt /\ new.rowid = rows[j].rowid
    BY <1>4, RowTypes
  <2>2. /\ OneInFlight' /\ RowsAreInserted' /\ RowsArePast'
        /\ AdmittedFirst' /\ FreshUntilRecheck'
    BY <1>1, <1>4, <2>1, CompletingKeepsSlotInv
  <2>3. \A k : IsStale(k) => IsStale(k)'
    BY <1>1, <1>4, <2>1 DEF UpdateRow, IsStale, Inserted, StaleForSubmit
  <2>4. ExpiryIsJustified'
    BY <1>1, <2>3 DEF ExpiryIsJustified
  <2>5. QED
    BY <1>2, <2>2, <2>4
<1>5. QED
  BY <1>3, <1>4 DEF RunnerStep, AlarmFires, RecordFailure, PersistMatch,
     RecordSuccess, RecordNothing, DeleteStored, AlarmReturns, RunnerCrashes

LEMMA SlotPoll ==
    ASSUME SlotInv, TypeOK', NEW p \in Pollers,
           PollExpires(p) \/ \E j \in Requests : PollFindsStale(p, j)
    PROVE  SlotInv'
<1> USE DEF SlotInv, TypeOK
<1>1. CASE \E j \in Requests : PollFindsStale(p, j)
  <2>1. PICK j \in Requests : PollFindsStale(p, j)
    BY <1>1
  <2>2. UNCHANGED <<now, lastRowid, rows, pc, arrivedAt, target, stored, alarm, run>>
    BY <2>1 DEF PollFindsStale, requestVars, runnerVars
  <2>3. IsStale(j)
    <3>1. rows[j].startedAt \in Nat /\ rows[j].startedAt < now - JobTTL
      BY <2>1 DEF PollFindsStale, StaleForPoll, Row
    <3>2. QED
      BY <2>1, <3>1 DEF PollFindsStale, IsStale, RowsAreInserted, StaleForSubmit
  <2>4. \A k : IsStale(k) => IsStale(k)'
    BY <2>2 DEF IsStale, Inserted, StaleForSubmit
  <2>5. ExpiryIsJustified'
    BY <2>1, <2>2, <2>3, <2>4 DEF ExpiryIsJustified, PollFindsStale
  <2>6. QED
    BY <2>2, <2>5 DEF OneInFlight, InFlight, Pending, RowsAreInserted, Inserted,
       RowsArePast, AdmittedFirst, Before, RunnersAreAdmitted,
       FreshUntilRecheck, StaleForSubmit
<1>2. CASE PollExpires(p)
  <2> DEFINE j == poll[p]
             new == TimedOut(rows[j])
  <2>1. /\ UNCHANGED <<now, lastRowid, pc, arrivedAt, target, stored, alarm, run>>
        /\ UpdateRow(j, new)
        /\ j \in Requests /\ IsStale(j)
    BY <1>2 DEF PollExpires, requestVars, runnerVars, ExpiryIsJustified, IsStale
  <2>2. /\ new \in Row /\ new.state = "completed"
        /\ new.startedAt = rows[j].startedAt /\ new.rowid = rows[j].rowid
    BY <2>1, RowTypes
  <2> HIDE DEF j, new
  <2>3. /\ OneInFlight' /\ RowsAreInserted' /\ RowsArePast'
        /\ AdmittedFirst' /\ FreshUntilRecheck'
    BY <2>1, <2>2, CompletingKeepsSlotInv
  <2>4. \A k : IsStale(k) => IsStale(k)'
    BY <2>1, <2>2 DEF UpdateRow, IsStale, Inserted, StaleForSubmit
  <2>5. ExpiryIsJustified'
    BY <1>2, <2>1, <2>4 DEF ExpiryIsJustified, PollExpires
  <2>6. RunnersAreAdmitted'
    BY <2>1 DEF RunnersAreAdmitted
  <2>7. QED
    BY <2>3, <2>5, <2>6
<1>3. QED
  BY <1>1, <1>2

LEMMA SlotTick ==
    ASSUME SlotInv, TypeOK', Tick
    PROVE  SlotInv'
<1> USE DEF SlotInv, TypeOK
<1>1. /\ now' = now + 1
      /\ UNCHANGED <<lastRowid, rows, pc, arrivedAt, target, stored, alarm, run, poll>>
  BY DEF Tick, requestVars, runnerVars
<1>2. \A j \in Requests : rows[j].startedAt \in Nat
  BY DEF Row
<1>3. RowsArePast'
  BY <1>1, <1>2 DEF RowsArePast
<1>4. \A j \in Requests : StaleForSubmit(j) => StaleForSubmit(j)'
  BY <1>1, <1>2 DEF StaleForSubmit
<1>5. FreshUntilRecheck' /\ ExpiryIsJustified'
  BY <1>1, <1>4 DEF FreshUntilRecheck, ExpiryIsJustified, IsStale, Inserted
<1>6. QED
  BY <1>1, <1>3, <1>5 DEF OneInFlight, InFlight, Pending, RowsAreInserted,
     Inserted, AdmittedFirst, Before, RunnersAreAdmitted

LEMMA SlotNext == SlotInv /\ [Next]_vars => SlotInv'
<1> SUFFICES ASSUME SlotInv, [Next]_vars PROVE SlotInv'
  OBVIOUS
<1>1. TypeOK'
  BY TypeNext DEF SlotInv
<1>2. CASE UNCHANGED vars
  BY <1>1, <1>2 DEF vars, requestVars, runnerVars, SlotInv, OneInFlight, InFlight,
     Pending, RowsAreInserted, Inserted, RowsArePast, AdmittedFirst, Before,
     ExpiryIsJustified, IsStale, StaleForSubmit, RunnersAreAdmitted,
     FreshUntilRecheck
<1>3. QED
  BY <1>1, <1>2, SlotHandler, SlotRunner, SlotPoll, SlotTick DEF Next

LEMMA SlotInvariance == Spec => []SlotInv
BY SlotInit, SlotNext, PTL DEF Spec

\* At most one job of a contract is dispatched and pending, for any number of
\* requests: the re-check makes up for the unique constraint the table lacks.
THEOREM AtMostOneInFlight == Spec => []OneInFlight
<1>1. SlotInv => OneInFlight
  BY DEF SlotInv
<1>2. QED
  BY <1>1, SlotInvariance, PTL

-----------------------------------------------------------------------------
(* VerificationJobs implements JobSlot *)

LEMMA SlotStart == Init => Slot!Init
BY DEF Init, Slot!Init, InFlight, Released, NoRow, Admitted

\* A step that leaves pc on its side of the re-check and completes or deletes
\* at most the row of j releases j, or changes nothing in the slot.
LEMMA ReleaseOrStutter ==
    ASSUME SlotInv, NEW j \in Requests,
           \A r \in Requests : pc'[r] \in Admitted <=> pc[r] \in Admitted,
           \A r \in Requests \ {j} :
               pc[r] \in Admitted => rows'[r].state = rows[r].state,
           pc[j] \in Admitted =>
               rows'[j].state = rows[j].state \/ rows'[j].state # "pending"
    PROVE  Slot!Release(j) \/ UNCHANGED <<InFlight, Released>>
<1>1. CASE j \in InFlight /\ rows'[j].state # "pending"
  <2>1. InFlight = {j}
    BY <1>1 DEF SlotInv, OneInFlight
  <2>2. InFlight' = {} /\ Released' = Released \cup {j}
    BY <1>1, <2>1 DEF InFlight, Released
  <2>3. QED
    BY <2>1, <2>2 DEF Slot!Release
<1>2. CASE ~(j \in InFlight /\ rows'[j].state # "pending")
  BY <1>2 DEF InFlight, Released
<1>3. QED
  BY <1>1, <1>2

LEMMA SlotStep == SlotInv /\ TypeOK' /\ [Next]_vars => [Slot!Next]_<<InFlight, Released>>
<1> SUFFICES ASSUME SlotInv, TypeOK', [Next]_vars
             PROVE  Slot!Next \/ UNCHANGED <<InFlight, Released>>
  OBVIOUS
<1> USE DEF SlotInv, TypeOK
<1>1. ASSUME NEW r \in Requests, RecheckWins(r)
      PROVE  Slot!Claim(r)
  <2>1. pc[r] = "recheck" /\ pc' = [pc EXCEPT ![r] = "put"] /\ rows' = rows
    BY <1>1 DEF RecheckWins, At, GoTo
  <2>2. r \in Pending /\ InFlight = {}
    BY <1>1, WinnerIsFirst
  <2>3. InFlight' = {r} /\ Released' = Released /\ r \notin Released
    BY <2>1, <2>2 DEF InFlight, Released, Pending, Admitted
  <2>4. QED
    BY <2>2, <2>3 DEF Slot!Claim
<1>2. ASSUME NEW r \in Requests,
             \/ Submit(r) \/ FindNone(r) \/ FindFresh(r) \/ FindStale(r)
             \/ RecheckLoses(r) \/ EnqueuePut(r) \/ EnqueueSetAlarm(r)
             \/ EnqueueFails(r)
      PROVE  UNCHANGED <<InFlight, Released>>
  <2>1. /\ rows' = rows
        /\ \A q \in Requests \ {r} : pc'[q] = pc[q]
        /\ pc'[r] \in Admitted <=> pc[r] \in Admitted
    BY <1>2 DEF Submit, FindNone, FindFresh, FindStale, RecheckLoses, EnqueuePut,
                EnqueueSetAlarm, EnqueueFails, At, GoTo, Admitted
  <2>2. QED
    BY <2>1 DEF InFlight, Released
<1>3. ASSUME NEW r \in Requests, InsertJob(r)
      PROVE  UNCHANGED <<InFlight, Released>>
  <2>1. /\ \A q \in Requests \ {r} : pc'[q] = pc[q] /\ rows'[q] = rows[q]
        /\ pc'[r] \notin Admitted /\ pc[r] \notin Admitted
    BY <1>3 DEF InsertJob, At, GoTo, Admitted
  <2>2. QED
    BY <2>1 DEF InFlight, Released
<1>4. ASSUME NEW r \in Requests, Yield(r) \/ Cleanup(r)
      PROVE  Slot!Release(r) \/ UNCHANGED <<InFlight, Released>>
  <2>1. /\ \A q \in Requests \ {r} : pc'[q] = pc[q] /\ rows'[q] = rows[q]
        /\ pc'[r] \in Admitted <=> pc[r] \in Admitted
        /\ rows'[r].state # "pending"
    BY <1>4 DEF Yield, Cleanup, At, GoTo, DeleteRow, NoRow, Admitted
  <2>2. QED
    BY <2>1, ReleaseOrStutter
<1>5. ASSUME NEW r \in Requests, ExpireStale(r)
      PROVE  \E j \in Requests : Slot!Release(j) \/ UNCHANGED <<InFlight, Released>>
  <2> DEFINE j == target[r]
  <2>1. /\ j \in Requests
        /\ \A q \in Requests : pc'[q] \in Admitted <=> pc[q] \in Admitted
        /\ UpdateRow(j, TimedOut(rows[j]))
    BY <1>5 DEF ExpireStale, At, GoTo, ExpiryIsJustified, IsStale, Admitted
  <2>2. TimedOut(rows[j]).state = "completed"
    BY <2>1, RowTypes
  <2> HIDE DEF j
  <2>3. Slot!Release(j) \/ UNCHANGED <<InFlight, Released>>
    BY <2>1, <2>2, ReleaseOrStutter DEF UpdateRow
  <2>4. QED
    BY <2>1, <2>3
<1>6. ASSUME NEW j \in Requests, RunnerStep(j) \/ RunnerCrashes(j)
      PROVE  Slot!Release(j) \/ UNCHANGED <<InFlight, Released>>
  <2>1. /\ pc' = pc
        /\ \A k \in Requests \ {j} : rows'[k] = rows[k]
    BY <1>6 DEF RunnerStep, AlarmFires, RecordFailure, PersistMatch, RecordSuccess,
       RecordNothing, DeleteStored, AlarmReturns, RunnerCrashes, RunTo,
       requestVars, UpdateRow
  <2>2. /\ Failed(rows[j]).state = "completed"
        /\ Succeeded(rows[j]).state = "completed"
    BY RowTypes
  <2>3. rows'[j] = rows[j] \/ rows'[j].state # "pending"
    BY <1>6, <2>2 DEF RunnerStep, AlarmFires, RecordFailure, PersistMatch,
       RecordSuccess, RecordNothing, DeleteStored, AlarmReturns, RunnerCrashes,
       UpdateRow
  <2>4. QED
    BY <2>1, <2>3, ReleaseOrStutter
<1>7. ASSUME NEW p \in Pollers, PollExpires(p)
      PROVE  \E j \in Requests : Slot!Release(j) \/ UNCHANGED <<InFlight, Released>>
  <2> DEFINE j == poll[p]
  <2>1. /\ j \in Requests
        /\ pc' = pc
        /\ UpdateRow(j, TimedOut(rows[j]))
    BY <1>7 DEF PollExpires, ExpiryIsJustified, IsStale, requestVars
  <2>2. TimedOut(rows[j]).state = "completed"
    BY <2>1, RowTypes
  <2> HIDE DEF j
  <2>3. Slot!Release(j) \/ UNCHANGED <<InFlight, Released>>
    BY <2>1, <2>2, ReleaseOrStutter DEF UpdateRow
  <2>4. QED
    BY <2>1, <2>3
<1>8. ASSUME \/ Tick \/ UNCHANGED vars
             \/ \E p \in Pollers, j \in Requests : PollFindsStale(p, j)
      PROVE  UNCHANGED <<InFlight, Released>>
  BY <1>8 DEF Tick, PollFindsStale, vars, requestVars, InFlight, Released
<1>9. QED
  BY <1>1, <1>2, <1>3, <1>4, <1>5, <1>6, <1>7, <1>8 DEF Next, HandlerStep, Slot!Next

\* The jobs of a contract are the claims and releases of one slot.  The proof
\* needs HandlerTimeout <= JobTTL: a job expired before its re-check would
\* otherwise be dispatched without ever being in flight.
THEOREM JobsImplementSlot == Spec => ImplementsSlot
<1>1. SlotInv => TypeOK
  BY DEF SlotInv
<1>2. QED
  BY <1>1, SlotStart, SlotStep, SlotInvariance, PTL
     DEF ImplementsSlot, Slot!Spec, Spec

=============================================================================
