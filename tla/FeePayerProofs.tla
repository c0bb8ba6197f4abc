---------------------------- MODULE FeePayerProofs ----------------------------
(***************************************************************************)
(* For any requests, fees, limits, administrators and failures of          *)
(* FeePayer.                                                               *)
(*                                                                         *)
(* The relay: changes of the key's record that do not cross all hold, and  *)
(* billing messages stand for what was signed for a billable key, and for  *)
(* all of it.  The former needs that a change that is under way has read   *)
(* the record as it still is; the latter that a request keeps the grant    *)
(* that authenticated it, and that its billing starts with the relay's     *)
(* answer.                                                                 *)
(*                                                                         *)
(* The budget: its counters are as sound as CountersAreSound says.  Each   *)
(* is compared with the fees of the requests whose put of it is over, and  *)
(* so is what a request has read of it and is going to add its fee to; the *)
(* sums are taken an element at a time, by the lemmas of DataLemmas.       *)
(***************************************************************************)
EXTENDS FeePayer, DataLemmas

\* As long as no changes cross, whoever has read the record knows it.
ReadersKnowRecord ==
    ~crossed =>
        /\ record = intended
        /\ \A u \in Changes : change[u] = "read" => found[u] = record

\* A request that got in was let in by an active key.
GrantIsActive ==
    \A c \in Calls : call[c] \notin {"idle", "unauthorized"} => grant[c].active

\* Billing follows the relay's answer for a billable grant, with the message
\* in the queue or lost at its end.
BillFollowsRelay ==
    \A c \in Calls :
        /\ bill[c] # "none" =>
             call[c] \in {"error", "signed", "answered"} /\ grant[c].billable
        /\ R!BuildsMessage(c) /\ grant[c].billable => bill[c] # "none"
        /\ bill[c] = "sent" => R!MessageOf(c) \in queue

AdminInv == R!TypeOK /\ ReadersKnowRecord
BillingInv == R!TypeOK /\ GrantIsActive /\ BillFollowsRelay /\ R!MessagesAreSponsored

-----------------------------------------------------------------------------
\* The steps of the relay and those of the budget leave each other alone.
LEMMA StepOfRelay == [AllNext]_allVars => [R!Next]_relayVars
  BY DEF AllNext, allVars

LEMMA StepOfBudget == [AllNext]_allVars => [Next]_vars
  BY DEF AllNext, allVars

LEMMA RecordIsFunction ==
    ASSUME NEW r \in R!Records, NEW u \in Changes
    PROVE  R!With(r, u) \in R!Records
  BY RelayAssumption DEF R!Records, R!With

LEMMA InitShape == R!Init => R!TypeOK
  <1> SUFFICES ASSUME R!Init PROVE R!TypeOK
    OBVIOUS
  <1>1. record \in R!Records /\ intended = record
    BY DEF R!Init
  <1>2. /\ found \in [Changes -> R!Records] /\ grant \in [Calls -> R!Records]
        /\ change \in [Changes -> {"idle", "read", "put"}]
    BY <1>1 DEF R!Init
  <1>3. /\ call \in [Calls -> {"idle", "authenticated", "checked"} \cup R!Outcomes]
        /\ spend \in [Calls -> {"none", "due", "recorded"}]
        /\ bill \in [Calls -> {"none", "due", "sent", "lost"}]
    BY DEF R!Init
  <1>4. crossed \in BOOLEAN /\ queue \subseteq {R!MessageOf(c) : c \in Calls}
    BY DEF R!Init
  <1>5. failures \in 0..MaxFailures
    BY RelayAssumption DEF R!Init
  <1> QED BY <1>1, <1>2, <1>3, <1>4, <1>5 DEF R!TypeOK

\* Every step keeps the types.
LEMMA NextShape == ASSUME R!TypeOK, [R!Next]_relayVars PROVE R!TypeOK'
  <1>1. ASSUME NEW u \in Changes, R!ReadRecord(u) PROVE R!TypeOK'
    BY <1>1 DEF R!ReadRecord, R!TypeOK, R!billing
  <1>2. ASSUME NEW u \in Changes, R!PutRecord(u) PROVE R!TypeOK'
    <2>1. /\ record' \in R!Records
          /\ intended' \in R!Records
          /\ crossed' \in BOOLEAN
      BY <1>2, RecordIsFunction DEF R!PutRecord, R!TypeOK, R!With
    <2> QED BY <1>2, <2>1 DEF R!PutRecord, R!TypeOK, R!billing
  <1>3. ASSUME NEW c \in Calls, R!Authenticate(c) PROVE R!TypeOK'
    BY <1>3 DEF R!Authenticate, R!Moves, R!TypeOK, R!admins, R!billing, R!Outcomes
  <1>4. ASSUME NEW c \in Calls, R!Check(c) PROVE R!TypeOK'
    BY <1>4 DEF R!Check, R!Spends, R!Moves, R!TypeOK, R!admins, R!billing, R!Outcomes
  <1>5. ASSUME NEW c \in Calls, R!RecordSpend(c) PROVE R!TypeOK'
    BY <1>5 DEF R!RecordSpend, R!TypeOK, R!admins, R!billing
  <1>6. ASSUME NEW c \in Calls, R!Relay(c) PROVE R!TypeOK'
    BY <1>6 DEF R!Relay, R!Moves, R!TypeOK, R!admins, R!Outcomes
  <1>7. ASSUME NEW c \in Calls, R!Enqueue(c) PROVE R!TypeOK'
    BY <1>7 DEF R!Enqueue, R!TypeOK, R!admins
  <1>8. ASSUME NEW c \in Calls, R!BillingFails(c) PROVE R!TypeOK'
    BY <1>8, RelayAssumption DEF R!BillingFails, R!TypeOK, R!admins
  <1>9. CASE UNCHANGED relayVars
    BY <1>9 DEF relayVars, R!admins, R!billing, R!TypeOK
  <1> QED BY <1>1, <1>2, <1>3, <1>4, <1>5, <1>6, <1>7, <1>8, <1>9 DEF R!Next

-----------------------------------------------------------------------------
(* The key's record *)

LEMMA PutKeeps ==
    ASSUME AdminInv, NEW u \in Changes, R!PutRecord(u)
    PROVE  ReadersKnowRecord'
  <1> SUFFICES ASSUME ~crossed'
               PROVE  /\ record' = intended'
                      /\ \A v \in Changes : change'[v] = "read" => found'[v] = record'
    BY DEF ReadersKnowRecord
  <1>1. ~crossed /\ \A v \in Changes \ {u} : change[v] # "read"
    BY Zenon DEF R!PutRecord
  <1>2. record = intended /\ found[u] = record
    BY <1>1 DEF AdminInv, ReadersKnowRecord, R!PutRecord
  <1>3. record' = intended'
    BY <1>2 DEF R!PutRecord, R!With
  <1>4. \A v \in Changes : change'[v] # "read"
    BY <1>1 DEF R!PutRecord, AdminInv, R!TypeOK
  <1> QED BY <1>3, <1>4

LEMMA NextAdmins == ASSUME AdminInv, [R!Next]_relayVars PROVE AdminInv'
  <1>1. R!TypeOK'
    BY NextShape DEF AdminInv
  <1>2. ASSUME NEW u \in Changes, R!ReadRecord(u) PROVE ReadersKnowRecord'
    <2>1. /\ found' = [found EXCEPT ![u] = record]
          /\ change' = [change EXCEPT ![u] = "read"]
          /\ UNCHANGED <<record, crossed, intended>>
      BY <1>2 DEF R!ReadRecord
    <2> QED BY <2>1 DEF AdminInv, R!TypeOK, ReadersKnowRecord
  <1>3. ASSUME NEW u \in Changes, R!PutRecord(u) PROVE ReadersKnowRecord'
    BY <1>3, PutKeeps
  <1>4. CASE UNCHANGED R!admins
    BY <1>1, <1>4 DEF R!admins, AdminInv, ReadersKnowRecord
  <1>5. \/ \E u \in Changes : R!ReadRecord(u) \/ R!PutRecord(u)
        \/ UNCHANGED R!admins
    BY DEF R!Next, R!Authenticate, R!Check, R!RecordSpend, R!Relay, R!Enqueue,
           R!BillingFails, relayVars, R!admins
  <1> QED BY <1>1, <1>2, <1>3, <1>4, <1>5 DEF AdminInv

\* Changes of the record that do not cross all hold (updateApiKey, revokeApiKey).
THEOREM SerialChangesAllHold == AllSpec => []SerialChangesHold
  <1>1. AllInit => AdminInv
    BY InitShape DEF AllInit, R!Init, AdminInv, ReadersKnowRecord
  <1>2. AdminInv /\ [AllNext]_allVars => AdminInv'
    BY NextAdmins, StepOfRelay
  <1>3. AdminInv => SerialChangesHold
    BY DEF AdminInv, ReadersKnowRecord, SerialChangesHold, R!SerialChangesHold
  <1> QED BY <1>1, <1>2, <1>3, PTL DEF AllSpec

-----------------------------------------------------------------------------
(* Billing *)

LEMMA MessagesAreAboutCalls ==
    ASSUME R!TypeOK
    PROVE  \A m \in queue : m.call \in Calls
  BY DEF R!TypeOK, R!MessageOf

LEMMA InitBilling == R!Init => BillingInv
  <1> SUFFICES ASSUME R!Init PROVE BillingInv
    OBVIOUS
  <1>1. R!TypeOK
    BY InitShape
  <1>2. \A c \in Calls : call[c] = "idle" /\ bill[c] = "none"
    BY DEF R!Init
  <1>3. queue = {}
    BY DEF R!Init
  <1> QED BY <1>1, <1>2, <1>3 DEF BillingInv, GrantIsActive, BillFollowsRelay,
                               R!MessagesAreSponsored, R!Sponsored, R!BuildsMessage

\* A request's way up to the relay's answer: it is not billed yet.
LEMMA EntryKeeps ==
    ASSUME BillingInv, R!TypeOK', NEW c \in Calls, R!Authenticate(c) \/ R!Check(c)
    PROVE  BillingInv'
  <1>1. /\ call[c] \in {"idle", "authenticated"} /\ bill[c] = "none"
        /\ UNCHANGED <<bill, queue>>
    BY DEF BillingInv, BillFollowsRelay, R!Authenticate, R!Check, R!Moves, R!billing
  <1>2. /\ \A d \in Calls \ {c} : call'[d] = call[d] /\ grant'[d] = grant[d]
        /\ call'[c] \in {"authenticated", "unauthorized", "checked", "refused"}
        /\ call'[c] # "unauthorized" => grant'[c].active
    <2>1. CASE R!Authenticate(c)
      BY <2>1 DEF R!Authenticate, R!Moves, BillingInv, R!TypeOK
    <2>2. CASE R!Check(c)
      BY <2>2 DEF R!Check, R!Moves, BillingInv, R!TypeOK, GrantIsActive
    <2> QED BY <2>1, <2>2
  <1>3. \A d \in Calls : R!Sponsored(d) => d # c
    BY <1>1 DEF R!Sponsored
  <1>4. GrantIsActive'
    BY <1>2 DEF BillingInv, GrantIsActive
  <1>5. BillFollowsRelay'
    BY <1>1, <1>2 DEF BillingInv, BillFollowsRelay, R!BuildsMessage, R!Sponsored
  <1>6. R!MessagesAreSponsored'
    BY <1>1, <1>2, <1>3, MessagesAreAboutCalls DEF BillingInv, R!MessagesAreSponsored, R!Sponsored
  <1> QED BY <1>4, <1>5, <1>6 DEF BillingInv

\* The relay's answer starts the billing of a billable request.
LEMMA RelayKeeps ==
    ASSUME BillingInv, R!TypeOK', NEW c \in Calls, R!Relay(c)
    PROVE  BillingInv'
  <1>1. /\ call[c] = "checked" /\ bill[c] = "none"
        /\ UNCHANGED <<grant, queue>>
    BY DEF BillingInv, BillFollowsRelay, R!Relay, R!Moves
  <1>2. /\ \A d \in Calls \ {c} : call'[d] = call[d] /\ bill'[d] = bill[d]
        /\ call'[c] \in {"error", "signed", "answered"}
        /\ bill'[c] = IF grant[c].billable THEN "due" ELSE "none"
    BY DEF R!Relay, R!Moves, R!Billable, BillingInv, R!TypeOK
  <1>3. GrantIsActive'
    BY <1>1, <1>2 DEF BillingInv, GrantIsActive
  <1>4. BillFollowsRelay'
    BY <1>1, <1>2 DEF BillingInv, BillFollowsRelay, R!BuildsMessage, R!Sponsored
  <1>5. R!MessagesAreSponsored'
    BY <1>1, <1>2, MessagesAreAboutCalls DEF BillingInv, R!MessagesAreSponsored, R!Sponsored
  <1> QED BY <1>3, <1>4, <1>5 DEF BillingInv

\* The message of a signature is sent, or lost; other answers need none.
LEMMA SendKeeps ==
    ASSUME BillingInv, R!TypeOK', NEW c \in Calls, R!Enqueue(c) \/ R!BillingFails(c)
    PROVE  BillingInv'
  <1>1. /\ bill[c] = "due" /\ UNCHANGED <<call, grant>>
        /\ \A d \in Calls \ {c} : bill'[d] = bill[d]
    BY DEF BillingInv, R!TypeOK, R!Enqueue, R!BillingFails
  <1>2. \/ R!BuildsMessage(c) /\ bill'[c] = "sent" /\ queue' = queue \cup {R!MessageOf(c)}
        \/ ~R!BuildsMessage(c) /\ bill'[c] = "none" /\ queue' = queue
        \/ R!BuildsMessage(c) /\ bill'[c] = "lost" /\ queue' = queue
    BY DEF R!Enqueue, R!BillingFails, BillingInv, R!TypeOK
  <1>3. call[c] \notin {"idle", "unauthorized"} /\ grant[c].billable
    BY <1>1 DEF BillingInv, BillFollowsRelay
  <1>4. GrantIsActive'
    BY <1>1 DEF BillingInv, GrantIsActive
  <1>5. BillFollowsRelay'
    BY <1>1, <1>2, <1>3 DEF BillingInv, BillFollowsRelay, R!BuildsMessage, R!Sponsored
  <1>6. R!MessagesAreSponsored'
    BY <1>1, <1>2, <1>3 DEF BillingInv, R!MessagesAreSponsored, R!BuildsMessage,
                           R!Sponsored, R!MessageOf, GrantIsActive
  <1> QED BY <1>4, <1>5, <1>6 DEF BillingInv

LEMMA NextBilling == ASSUME BillingInv, [R!Next]_relayVars PROVE BillingInv'
  <1>1. R!TypeOK'
    BY NextShape DEF BillingInv
  <1>2. ASSUME NEW c \in Calls, R!Authenticate(c) \/ R!Check(c) PROVE BillingInv'
    BY <1>1, <1>2, EntryKeeps
  <1>3. ASSUME NEW c \in Calls, R!Relay(c) PROVE BillingInv'
    BY <1>1, <1>3, RelayKeeps
  <1>4. ASSUME NEW c \in Calls, R!Enqueue(c) \/ R!BillingFails(c) PROVE BillingInv'
    BY <1>1, <1>4, SendKeeps
  <1>5. CASE UNCHANGED <<call, grant, bill, queue>>
    <2>1. GrantIsActive' /\ BillFollowsRelay'
      BY <1>5 DEF BillingInv, GrantIsActive, BillFollowsRelay, R!BuildsMessage, R!Sponsored
    <2>2. R!MessagesAreSponsored'
      BY <1>5, MessagesAreAboutCalls DEF BillingInv, R!MessagesAreSponsored, R!Sponsored
    <2> QED BY <1>1, <2>1, <2>2 DEF BillingInv
  <1>6. \/ \E c \in Calls : \/ R!Authenticate(c) \/ R!Check(c) \/ R!Relay(c)
                            \/ R!Enqueue(c) \/ R!BillingFails(c)
        \/ UNCHANGED <<call, grant, bill, queue>>
    BY DEF R!Next, R!ReadRecord, R!PutRecord, R!RecordSpend, relayVars, R!billing
  <1> QED BY <1>2, <1>3, <1>4, <1>5, <1>6

\* The queue bills what the sponsor filled for an active and billable key, and
\* all of it but for lost messages (feePayerHandler, enqueueSponsorshipIntent).
THEOREM BillingStaysSound == AllSpec => []FillsAreBilled
  <1>1. AllInit => BillingInv
    BY InitBilling DEF AllInit
  <1>2. BillingInv /\ [AllNext]_allVars => BillingInv'
    BY NextBilling, StepOfRelay
  <1>3. BillingInv => FillsAreBilled
    BY DEF BillingInv, R!TypeOK, BillFollowsRelay, FillsAreBilled, R!FillsAreBilled,
           R!SignedIsBilled, R!BillingDone, R!BuildsMessage
  <1> QED BY <1>1, <1>2, <1>3, PTL DEF AllSpec
-----------------------------------------------------------------------------
(* The budget *)

\* The requests whose put of a counter is over, and those that are to put it
\* and have read it
Counted(c) == {r \in Requests : pc[r] = "ended" \/ (pc[r] = "writing" /\ c \notin left[r])}
HasSeen(r, c) ==
    (pc[r] = "reading" /\ c \notin left[r]) \/ (pc[r] = "writing" /\ c \in left[r])
CountedOn(d) == Admitted(d) \cap Counted("daily")

\* No request was checked while another was recorded, and no call has failed.
Serial == ~overlapped /\ faults = 0

BudgetTypes == TypeOK /\ \A r \in Requests : admittedOn[r] <= day

\* Neither the lifetime counter nor what was read of it is above the fees of
\* those that have put it; when nothing overlaps or fails, both are these fees.
LifetimeCounts ==
    /\ lifetime <= Total(Counted("lifetime"))
    /\ \A r \in Requests :
         HasSeen(r, "lifetime") => seen[r]["lifetime"] <= Total(Counted("lifetime"))

SerialCounts ==
    Serial =>
      /\ \A r \in Recording, s \in Recording : r = s
      /\ lifetime = Total(Counted("lifetime"))
      /\ \A r \in Requests : HasSeen(r, "lifetime") => seen[r]["lifetime"] = lifetime

\* The same of a day's counter, for the requests of the day, as long as no
\* recording spans a midnight.
DayCounts ==
    ~spanned =>
      /\ \A d \in Days : daily[d] <= Total(CountedOn(d))
      /\ \A r \in Requests : pc[r] = "writing" => putDay[r] = admittedOn[r]
      /\ \A r \in Requests :
           HasSeen(r, "daily") /\ (pc[r] = "writing" \/ admittedOn[r] = day)
             => seen[r]["daily"] <= Total(CountedOn(admittedOn[r]))

\* When nothing overlaps or fails, today's counter holds all that is over of
\* today, and a recording of an earlier day is alone.
TodayCounts ==
    /\ \A d \in Days : Total(Admitted(d)) <= Limit
    /\ \A d \in Days : d = day => Total(CountedOn(d)) <= daily[d]
    /\ \A r \in Requests :
         admittedOn[r] = day =>
           /\ HasSeen(r, "daily") => Total(CountedOn(admittedOn[r])) <= seen[r]["daily"]
           /\ pc[r] = "writing" => putDay[r] = day
    /\ \A r \in Recording, d \in Days :
         d = day /\ admittedOn[r] # day => Admitted(d) = {}

LimitHolds == Serial /\ Limit > 0 => TodayCounts

BudgetInv == BudgetTypes /\ LifetimeCounts /\ SerialCounts /\ DayCounts /\ LimitHolds

\* A call has failed: more is over, and no counter has changed.
Failed ==
    /\ \A c \in Both : Counted(c) \subseteq Counted(c)' /\ Counted(c)' \subseteq Requests
    /\ \A d \in Days : Admitted(d)' = Admitted(d)
    /\ \A q \in Requests, k \in Both : HasSeen(q, k)' => HasSeen(q, k)
    /\ \A q \in Requests : pc'[q] = "writing" => pc[q] = "writing"
    /\ UNCHANGED <<day, daily, lifetime, seen, putDay, admittedOn, spanned>>
    /\ faults' # 0

\* Nothing that the invariant counts or compares has changed.
Quiet ==
    /\ UNCHANGED <<day, daily, lifetime, overlapped, faults>>
    /\ Recording' = Recording
    /\ \A c \in Both : Counted(c)' = Counted(c)
    /\ \A d \in Days : Admitted(d)' = Admitted(d)

-----------------------------------------------------------------------------
LEMMA TotalIsSum == \A S : Total(S) = SumOf(Fee, S)
  BY DEF Total, SumOf

LEMMA TotalFacts ==
    /\ Total({}) = 0
    /\ \A S \in SUBSET Requests : Total(S) \in Nat
    /\ \A S \in SUBSET Requests : \A r \in Requests \ S :
         Total(S \cup {r}) = Total(S) + Fee[r]
    /\ \A T \in SUBSET Requests : \A S \in SUBSET T : Total(S) <= Total(T)
  <1>1. Total({}) = 0
    BY TotalIsSum, SumOfEmpty
  <1>2. \A S \in SUBSET Requests : IsFiniteSet(S)
    BY BudgetAssumption, FS_Subset
  <1>3. \A x \in Requests : Fee[x] \in Nat
    BY BudgetAssumption
  <1>4. ASSUME NEW S \in SUBSET Requests PROVE Total(S) \in Nat
    BY <1>2, <1>3, <1>4, TotalIsSum, SumOfNaturals
  <1>5. ASSUME NEW S \in SUBSET Requests, NEW r \in Requests \ S
        PROVE  Total(S \cup {r}) = Total(S) + Fee[r]
    <2> DEFINE T == S \cup {r}
    <2>1. T \in SUBSET Requests /\ r \in T /\ T \ {r} = S
      OBVIOUS
    <2>2. Total(T) = Fee[r] + Total(T \ {r})
      <3>1. IsFiniteSet(T) /\ \A y \in T : Fee[y] \in Nat
        BY <1>2, <1>3, <2>1
      <3>2. SumOf(Fee, T) = Fee[r] + SumOf(Fee, T \ {r})
        <4> HIDE DEF T
        <4> QED BY <2>1, <3>1, SumOfMore
      <3> HIDE DEF T
      <3> QED BY <3>2, TotalIsSum
    <2>3. Total(T) = Fee[r] + Total(S)
      <3> HIDE DEF T
      <3> QED BY <2>1, <2>2
    <2>4. Total(S) \in Nat /\ Fee[r] \in Nat
      BY <1>3, <1>4
    <2> QED BY <2>3, <2>4
  <1>6. ASSUME NEW T \in SUBSET Requests, NEW S \in SUBSET T PROVE Total(S) <= Total(T)
    BY <1>2, <1>3, TotalIsSum, SumOfSubset
  <1> QED BY <1>1, <1>4, <1>5, <1>6

LEMMA CountedAreRequests ==
    /\ \A c \in Both : Counted(c) \in SUBSET Requests
    /\ \A d \in Days : Admitted(d) \in SUBSET Requests /\ CountedOn(d) \in SUBSET Admitted(d)
  BY DEF Counted, Admitted, CountedOn

LEMMA BudgetStart == Init => BudgetInv
  <1> SUFFICES ASSUME Init PROVE BudgetInv
    OBVIOUS
  <1>1. 0 \in Days /\ 0 \in 0..MaxFaults /\ Limit \in Nat
    BY BudgetAssumption DEF Days
  <1>2. BudgetTypes
    <2>1. /\ day \in Days /\ daily \in [Days -> Nat] /\ lifetime \in Nat
          /\ pc \in [Requests -> {"idle", "refused", "reading", "writing", "ended"}]
          /\ faults \in 0..MaxFaults /\ overlapped \in BOOLEAN /\ spanned \in BOOLEAN
      BY <1>1 DEF Init
    <2>2. /\ left \in [Requests -> SUBSET Both] /\ seen \in [Requests -> [Both -> Nat]]
          /\ \A r \in Requests : left[r] = {}
      BY DEF Init
    <2>3. /\ putDay \in [Requests -> Days] /\ admittedOn \in [Requests -> Days]
          /\ \A r \in Requests : admittedOn[r] <= day
      BY <1>1 DEF Init
    <2> QED BY <2>1, <2>2, <2>3 DEF BudgetTypes, TypeOK
  <1>3. /\ \A r \in Requests : pc[r] = "idle"
        /\ lifetime = 0 /\ day = 0 /\ \A d \in Days : daily[d] = 0
    BY <1>1 DEF Init
  <1>4. /\ \A c \in Both : Counted(c) = {}
        /\ \A d \in Days : Admitted(d) = {} /\ CountedOn(d) = {}
        /\ Recording = {}
    BY <1>3 DEF Counted, Admitted, CountedOn, Recording
  <1>5. \A r \in Requests, c \in Both : ~HasSeen(r, c)
    BY <1>3 DEF HasSeen
  <1> QED BY <1>1, <1>2, <1>3, <1>4, <1>5, TotalFacts
        DEF BudgetInv, LifetimeCounts, SerialCounts, DayCounts, LimitHolds, TodayCounts, Both

LEMMA BudgetTypesHold == ASSUME BudgetTypes, [Next]_vars PROVE BudgetTypes'
  <1>1. ASSUME NEW r \in Requests, Refuse(r) PROVE BudgetTypes'
    BY <1>1 DEF Refuse, BudgetTypes, TypeOK, counters, recorder, history, Recording
  <1>2. ASSUME NEW r \in Requests, Admit(r) PROVE BudgetTypes'
    BY SMTT(20), <1>2, BudgetAssumption
       DEF Admit, BudgetTypes, TypeOK, counters, Recording, Days
  <1>3. ASSUME NEW r \in Requests, StartPuts(r) PROVE BudgetTypes'
    BY <1>3 DEF StartPuts, BudgetTypes, TypeOK, counters, Recording
  <1>4. ASSUME NEW r \in Requests, ReadFails(r) PROVE BudgetTypes'
    BY <1>4, BudgetAssumption
       DEF ReadFails, Fault, BudgetTypes, TypeOK, counters, Recording
  <1>5. ASSUME NEW r \in Requests, NEW c \in Both, Read(r, c) PROVE BudgetTypes'
    <2>1. Current(c) \in Nat
      BY DEF Current, BudgetTypes, TypeOK
    <2>2. seen' \in [Requests -> [Both -> Nat]] /\ left' \in [Requests -> SUBSET Both]
      BY <1>5, <2>1 DEF Read, BudgetTypes, TypeOK
    <2> QED BY <1>5, <2>2 DEF Read, BudgetTypes, TypeOK, counters, history, Recording
  <1>6. ASSUME NEW r \in Requests, NEW c \in Both, Settle(r, c),
               daily' \in [Days -> Nat], lifetime' \in Nat, faults' \in 0..MaxFaults
        PROVE  BudgetTypes'
    <2>1. /\ pc' \in [Requests -> {"idle", "refused", "reading", "writing", "ended"}]
          /\ left' \in [Requests -> SUBSET Both]
          /\ \A q \in Requests : left'[q] # {} => pc'[q] \in {"reading", "writing"}
      BY <1>6 DEF Settle, IsLastPut, BudgetTypes, TypeOK, Recording
    <2> QED BY <1>6, <2>1 DEF Settle, BudgetTypes, TypeOK, Recording
  <1>7. ASSUME NEW r \in Requests, NEW c \in Both PROVE NewTotal(r, c) \in Nat
    BY BudgetAssumption DEF NewTotal, BudgetTypes, TypeOK
  <1>8. ASSUME NEW r \in Requests, PutDaily(r) PROVE BudgetTypes'
    BY <1>6, <1>7, <1>8 DEF PutDaily, BudgetTypes, TypeOK, Both
  <1>9. ASSUME NEW r \in Requests, PutLifetime(r) PROVE BudgetTypes'
    BY <1>6, <1>7, <1>9 DEF PutLifetime, BudgetTypes, TypeOK, Both
  <1>10. ASSUME NEW r \in Requests, NEW c \in Both, PutFails(r, c) PROVE BudgetTypes'
    BY <1>6, <1>10, BudgetAssumption DEF PutFails, Fault, counters, BudgetTypes, TypeOK
  <1>11. CASE NextDay
    BY <1>11, BudgetAssumption
       DEF NextDay, BudgetTypes, TypeOK, counters, recorder, history, Recording, Days
  <1>12. CASE UNCHANGED vars
    BY <1>12 DEF vars, counters, recorder, history, BudgetTypes, TypeOK, Recording
  <1> QED BY <1>1, <1>2, <1>3, <1>4, <1>5, <1>8, <1>9, <1>10, <1>11, <1>12 DEF Next

-----------------------------------------------------------------------------
(* What each operation does to the sets of requests *)

LEMMA AdmitEffect ==
    ASSUME BudgetTypes, NEW r \in Requests, Admit(r)
    PROVE  /\ \A c \in Both : Counted(c)' = Counted(c)
           /\ r \notin Admitted(day)
           /\ \A d \in Days : Admitted(d)' = IF d = day THEN Admitted(d) \cup {r}
                                                        ELSE Admitted(d)
           /\ \A d \in Days : CountedOn(d)' = CountedOn(d)
           /\ Recording' = Recording \cup {r} /\ r \notin Recording
           /\ \A q \in Requests, c \in Both : HasSeen(q, c)' => HasSeen(q, c) /\ q # r
           /\ \A q \in Requests : q # r => admittedOn'[q] = admittedOn[q] /\ pc'[q] = pc[q]
           /\ pc'[r] = "reading" /\ admittedOn'[r] = day
  <1>1. /\ pc[r] = "idle" /\ pc' = [pc EXCEPT ![r] = "reading"]
        /\ left' = [left EXCEPT ![r] = Both] /\ admittedOn' = [admittedOn EXCEPT ![r] = day]
        /\ day' = day
    BY DEF Admit
  <1>2. \A c \in Both : Counted(c)' = Counted(c)
    BY <1>1 DEF Counted, BudgetTypes, TypeOK
  <1>3. r \notin Admitted(day)
    BY <1>1 DEF Admitted
  <1>4. \A d \in Days : Admitted(d)' = IF d = day THEN Admitted(d) \cup {r}
                                               ELSE Admitted(d)
    BY <1>1 DEF Admitted, BudgetTypes, TypeOK
  <1>5. r \notin Counted("daily")
    BY <1>1 DEF Counted
  <1>6. \A d \in Days : CountedOn(d)' = CountedOn(d)
    BY <1>1, <1>2, <1>3, <1>4, <1>5 DEF CountedOn, Both
  <1>7. Recording' = Recording \cup {r} /\ r \notin Recording
    BY <1>1 DEF Recording, BudgetTypes, TypeOK
  <1>8. \A q \in Requests, c \in Both : HasSeen(q, c)' => HasSeen(q, c) /\ q # r
    BY <1>1 DEF HasSeen, BudgetTypes, TypeOK
  <1> QED BY <1>1, <1>2, <1>3, <1>4, <1>6, <1>7, <1>8 DEF BudgetTypes, TypeOK

LEMMA ReadEffect ==
    ASSUME BudgetTypes, NEW r \in Requests, NEW c \in Both, Read(r, c)
    PROVE  /\ Quiet /\ UNCHANGED <<pc, admittedOn, putDay, spanned>>
           /\ pc[r] = "reading" /\ seen'[r][c] = Current(c)
           /\ \A q \in Requests, k \in Both : <<q, k>> # <<r, c>> =>
                seen'[q][k] = seen[q][k] /\ HasSeen(q, k)' = HasSeen(q, k)
  <1>1. /\ pc[r] = "reading" /\ UNCHANGED <<day, counters, pc, putDay, admittedOn, history>>
        /\ seen' = [seen EXCEPT ![r][c] = Current(c)]
        /\ left' = [left EXCEPT ![r] = @ \ {c}]
    BY DEF Read
  <1>2. Quiet
    BY <1>1 DEF Quiet, counters, history, Recording, Counted, Admitted, BudgetTypes, TypeOK
  <1> QED BY <1>1, <1>2 DEF counters, history, HasSeen, BudgetTypes, TypeOK

LEMMA StartEffect ==
    ASSUME BudgetTypes, NEW r \in Requests, StartPuts(r)
    PROVE  /\ Quiet /\ UNCHANGED <<seen, admittedOn>>
           /\ \A q \in Requests, k \in Both : HasSeen(q, k)' = HasSeen(q, k)
           /\ pc[r] = "reading" /\ left[r] = {} /\ pc' = [pc EXCEPT ![r] = "writing"]
           /\ putDay' = [putDay EXCEPT ![r] = day]
           /\ spanned' = (spanned \/ admittedOn[r] # day)
  <1>1. /\ pc[r] = "reading" /\ left[r] = {} /\ pc' = [pc EXCEPT ![r] = "writing"]
        /\ putDay' = [putDay EXCEPT ![r] = day]
        /\ left' = [left EXCEPT ![r] = Both]
        /\ spanned' = (spanned \/ admittedOn[r] # day)
        /\ UNCHANGED <<day, counters, seen, admittedOn, faults, overlapped>>
    BY DEF StartPuts, HasRead
  <1>2. Quiet
    BY <1>1 DEF Quiet, counters, Recording, Counted, Admitted, BudgetTypes, TypeOK
  <1> QED BY <1>1, <1>2 DEF HasSeen, BudgetTypes, TypeOK

LEMMA SettleEffect ==
    ASSUME BudgetTypes, NEW r \in Requests, NEW c \in Both, Settle(r, c)
    PROVE  /\ HasSeen(r, c) /\ pc[r] = "writing" /\ r \in Recording
           /\ r \notin Counted(c) /\ Counted(c)' = Counted(c) \cup {r}
           /\ \A k \in Both : k # c => Counted(k)' = Counted(k)
           /\ \A d \in Days : Admitted(d)' = Admitted(d)
           /\ Recording' \subseteq Recording
           /\ \A q \in Requests, k \in Both : HasSeen(q, k)' => HasSeen(q, k) /\ <<q, k>> # <<r, c>>
           /\ \A q \in Requests : pc'[q] = "writing" => pc[q] = "writing"
           /\ UNCHANGED <<day, seen, putDay, admittedOn, overlapped, spanned>>
  <1>1. /\ pc[r] = "writing" /\ c \in left[r]
        /\ left' = [left EXCEPT ![r] = @ \ {c}]
        /\ pc' = [pc EXCEPT ![r] = IF left[r] = {c} THEN "ended" ELSE @]
        /\ UNCHANGED <<day, seen, putDay, admittedOn, overlapped, spanned>>
    BY DEF Settle, IsLastPut
  <1>2. /\ \A q \in Requests \ {r} : pc'[q] = pc[q] /\ left'[q] = left[q]
        /\ left'[r] = left[r] \ {c}
        /\ \/ pc'[r] = "writing"
           \/ pc'[r] = "ended" /\ left[r] = {c}
    BY <1>1 DEF BudgetTypes, TypeOK
  <1>3. HasSeen(r, c) /\ r \in Recording /\ r \notin Counted(c)
    BY <1>1 DEF HasSeen, Recording, Counted
  <1>4. Counted(c)' = Counted(c) \cup {r}
    BY <1>1, <1>2 DEF Counted
  <1>5. \A k \in Both : k # c => Counted(k)' = Counted(k)
    BY <1>1, <1>2 DEF Counted
  <1>6. \A d \in Days : Admitted(d)' = Admitted(d)
    BY <1>1, <1>2 DEF Admitted
  <1>7. Recording' \subseteq Recording /\ \A q \in Requests : pc'[q] = "writing" => pc[q] = "writing"
    BY <1>1, <1>2 DEF Recording
  <1>8. \A q \in Requests, k \in Both : HasSeen(q, k)' => HasSeen(q, k) /\ <<q, k>> # <<r, c>>
    BY <1>1, <1>2 DEF HasSeen
  <1> QED BY <1>1, <1>3, <1>4, <1>5, <1>6, <1>7, <1>8

LEMMA ReadFailsEffect ==
    ASSUME BudgetTypes, NEW r \in Requests, ReadFails(r)
    PROVE  /\ \A c \in Both : Counted(c) \subseteq Counted(c)' /\ Counted(c)' \subseteq Requests
           /\ \A d \in Days : Admitted(d)' = Admitted(d)
           /\ \A q \in Requests, k \in Both : HasSeen(q, k)' => HasSeen(q, k)
           /\ \A q \in Requests : pc'[q] = "writing" => pc[q] = "writing"
           /\ UNCHANGED <<day, daily, lifetime, seen, putDay, admittedOn, spanned>>
           /\ faults' # 0
  <1>1. /\ pc[r] = "reading" /\ pc' = [pc EXCEPT ![r] = "ended"]
        /\ left' = [left EXCEPT ![r] = {}] /\ faults' = faults + 1
        /\ UNCHANGED <<day, daily, lifetime, seen, putDay, admittedOn, spanned>>
    BY DEF ReadFails, Fault, counters
  <1>2. \A c \in Both : Counted(c) \subseteq Counted(c)' /\ Counted(c)' \subseteq Requests
    BY <1>1 DEF Counted, BudgetTypes, TypeOK
  <1>3. \A d \in Days : Admitted(d)' = Admitted(d)
    BY <1>1 DEF Admitted, BudgetTypes, TypeOK
  <1>4. \A q \in Requests, k \in Both : HasSeen(q, k)' => HasSeen(q, k)
    BY <1>1 DEF HasSeen, BudgetTypes, TypeOK
  <1>5. faults' # 0
    BY <1>1, BudgetAssumption DEF BudgetTypes, TypeOK
  <1>6. \A q \in Requests : pc'[q] = "writing" => pc[q] = "writing"
    BY <1>1 DEF BudgetTypes, TypeOK
  <1> QED BY <1>1, <1>2, <1>3, <1>4, <1>5, <1>6

-----------------------------------------------------------------------------
(* How the counters follow them *)

LEMMA QuietSets ==
    ASSUME Quiet PROVE \A d \in Days : CountedOn(d)' = CountedOn(d)
  BY DEF Quiet, CountedOn, Both

LEMMA AdmitKeeps ==
    ASSUME BudgetInv, BudgetTypes', NEW r \in Requests, Admit(r)
    PROVE  BudgetInv'
  <1>1. UNCHANGED <<day, daily, lifetime, seen, putDay, faults, spanned>>
    BY DEF Admit, counters
  <1>2. day \in Days
    BY DEF BudgetInv, BudgetTypes, TypeOK
  <1>3. WithinBudget(r) /\ overlapped' = (overlapped \/ Recording # {})
    BY DEF Admit
  <1>4. LifetimeCounts'
    BY <1>1, AdmitEffect DEF BudgetInv, LifetimeCounts, Both
  <1>5. SerialCounts'
    <2>1. Serial' => Serial /\ Recording = {}
      BY <1>1, <1>3 DEF Serial
    <2>2. Serial' => \A q \in Recording', s \in Recording' : q = s
      BY <2>1, AdmitEffect DEF BudgetInv
    <2>3. Counted("lifetime")' = Counted("lifetime")
      BY AdmitEffect DEF BudgetInv, Both
    <2> QED BY <1>1, <2>1, <2>2, <2>3, AdmitEffect DEF BudgetInv, SerialCounts, Both
  <1>6. DayCounts'
    BY <1>1, <1>2, AdmitEffect DEF BudgetInv, DayCounts, Both, BudgetTypes, TypeOK
  <1>7. LimitHolds'
    <2> SUFFICES ASSUME Serial', Limit > 0 PROVE TodayCounts'
      BY DEF LimitHolds
    <2>1. Serial /\ Recording = {}
      BY <1>1, <1>3 DEF Serial
    <2>2. TodayCounts
      BY <2>1 DEF BudgetInv, LimitHolds
    <2>3. Admitted(day) = CountedOn(day)
      BY <2>1 DEF Admitted, CountedOn, Counted, Recording, BudgetInv, BudgetTypes, TypeOK
    <2>4. Total(Admitted(day) \cup {r}) = Total(Admitted(day)) + Fee[r]
      BY <1>2, AdmitEffect, TotalFacts, CountedAreRequests DEF BudgetInv
    <2>5. daily[day] + Fee[r] <= Limit /\ Total(CountedOn(day)) <= daily[day]
      BY <1>2, <1>3, <2>2, BudgetAssumption DEF WithinBudget, TodayCounts
    <2>6. Total(CountedOn(day)) \in Nat /\ daily[day] \in Nat /\ Fee[r] \in Nat /\ Limit \in Nat
      BY <1>2, <2>3, CountedAreRequests, TotalFacts, BudgetAssumption
         DEF BudgetInv, BudgetTypes, TypeOK
    <2>7. Total(Admitted(day) \cup {r}) <= Limit
      BY <2>3, <2>4, <2>5, <2>6
    <2>8. \A d \in Days : Total(Admitted(d)') <= Limit
      BY <2>2, <2>7, AdmitEffect DEF BudgetInv, TodayCounts
    <2>9. \A d \in Days : d = day => Total(CountedOn(d)') <= daily[d]
      BY <2>2, AdmitEffect DEF BudgetInv, TodayCounts
    <2>10. \A q \in Requests : ~HasSeen(q, "daily") /\ pc[q] # "writing"
      BY <2>1 DEF HasSeen, Recording
    <2>11. \A q \in Requests : ~HasSeen(q, "daily")' /\ pc'[q] # "writing"
      BY <2>10, AdmitEffect DEF BudgetInv, Both
    <2>12. \A q \in Recording' : admittedOn'[q] = day
      BY <2>1, AdmitEffect DEF BudgetInv
    <2> QED BY <1>1, <2>8, <2>9, <2>11, <2>12 DEF TodayCounts
  <1> QED BY <1>4, <1>5, <1>6, <1>7 DEF BudgetInv

LEMMA ReadKeeps ==
    ASSUME BudgetInv, BudgetTypes', NEW r \in Requests, NEW c \in Both, Read(r, c)
    PROVE  BudgetInv'
  <1>1. /\ Quiet /\ UNCHANGED <<pc, admittedOn, putDay, spanned>>
        /\ pc[r] = "reading" /\ seen'[r][c] = Current(c)
        /\ \A q \in Requests, k \in Both : <<q, k>> # <<r, c>> =>
             seen'[q][k] = seen[q][k] /\ HasSeen(q, k)' = HasSeen(q, k)
    BY ReadEffect DEF BudgetInv
  <1>2. UNCHANGED <<day, daily, lifetime, overlapped, faults>> /\ day \in Days
    BY <1>1 DEF Quiet, BudgetInv, BudgetTypes, TypeOK
  <1>3. /\ Recording' = Recording /\ Counted("lifetime")' = Counted("lifetime")
        /\ \A d \in Days : Admitted(d)' = Admitted(d) /\ CountedOn(d)' = CountedOn(d)
    BY <1>1, QuietSets DEF Quiet, Both
  <1>4. \A q \in Requests : HasSeen(q, "lifetime")' =>
          \/ HasSeen(q, "lifetime") /\ seen'[q]["lifetime"] = seen[q]["lifetime"]
          \/ seen'[q]["lifetime"] = lifetime
    BY <1>1 DEF Current, Both
  <1>5. \A q \in Requests : HasSeen(q, "daily")' =>
          \/ HasSeen(q, "daily") /\ seen'[q]["daily"] = seen[q]["daily"]
          \/ pc[q] # "writing" /\ seen'[q]["daily"] = daily[day]
    BY <1>1 DEF Current, Both
  <1>6. LifetimeCounts'
    BY <1>2, <1>3, <1>4 DEF BudgetInv, LifetimeCounts
  <1>7. SerialCounts'
    BY <1>2, <1>3, <1>4 DEF BudgetInv, SerialCounts, Serial
  <1>8. DayCounts'
    <2> SUFFICES ASSUME ~spanned' PROVE DayCounts'
      BY DEF DayCounts
    <2>1. \A d \in Days : daily[d] <= Total(CountedOn(d))
      BY <1>1 DEF BudgetInv, DayCounts
    <2>2. ASSUME NEW q \in Requests, HasSeen(q, "daily")',
                 pc[q] = "writing" \/ admittedOn[q] = day
          PROVE  seen'[q]["daily"] <= Total(CountedOn(admittedOn[q]))
      <3>1. CASE HasSeen(q, "daily") /\ seen'[q]["daily"] = seen[q]["daily"]
        BY <1>1, <2>2, <3>1 DEF BudgetInv, DayCounts
      <3>2. CASE pc[q] # "writing" /\ seen'[q]["daily"] = daily[day]
        BY <1>2, <2>1, <2>2, <3>2
      <3> QED BY <1>5, <2>2, <3>1, <3>2
    <2>3. \A q \in Requests : CountedOn(admittedOn[q])' = CountedOn(admittedOn[q])
      BY <1>1, <1>3 DEF BudgetInv, BudgetTypes, TypeOK
    <2>4. \A q \in Requests : pc[q] = "writing" => putDay[q] = admittedOn[q]
      BY <1>1 DEF BudgetInv, DayCounts
    <2> QED BY <1>1, <1>2, <1>3, <2>1, <2>2, <2>3, <2>4 DEF DayCounts
  <1>9. LimitHolds'
    <2> SUFFICES ASSUME Serial', Limit > 0 PROVE TodayCounts'
      BY DEF LimitHolds
    <2>1. TodayCounts
      BY <1>2 DEF BudgetInv, LimitHolds, Serial
    <2>2. \A q \in Requests : CountedOn(admittedOn[q])' = CountedOn(admittedOn[q])
      BY <1>1, <1>3 DEF BudgetInv, BudgetTypes, TypeOK
    <2>3. ASSUME NEW q \in Requests, HasSeen(q, "daily")', admittedOn[q] = day
          PROVE  Total(CountedOn(admittedOn[q])) <= seen'[q]["daily"]
      BY <1>2, <1>5, <2>1, <2>3 DEF TodayCounts
    <2> QED BY <1>1, <1>2, <1>3, <2>1, <2>2, <2>3 DEF TodayCounts
  <1> QED BY <1>6, <1>7, <1>8, <1>9 DEF BudgetInv

LEMMA StartKeeps ==
    ASSUME BudgetInv, BudgetTypes', NEW r \in Requests, StartPuts(r)
    PROVE  BudgetInv'
  <1>1. /\ Quiet /\ UNCHANGED <<seen, admittedOn>>
        /\ \A q \in Requests, k \in Both : HasSeen(q, k)' = HasSeen(q, k)
        /\ pc[r] = "reading" /\ left[r] = {} /\ pc' = [pc EXCEPT ![r] = "writing"]
        /\ putDay' = [putDay EXCEPT ![r] = day]
        /\ spanned' = (spanned \/ admittedOn[r] # day)
    BY StartEffect DEF BudgetInv
  <1>2. UNCHANGED <<day, daily, lifetime, overlapped, faults>> /\ day \in Days
    BY <1>1 DEF Quiet, BudgetInv, BudgetTypes, TypeOK
  <1>3. /\ Recording' = Recording /\ Counted("lifetime")' = Counted("lifetime")
        /\ \A d \in Days : Admitted(d)' = Admitted(d) /\ CountedOn(d)' = CountedOn(d)
    BY <1>1, QuietSets DEF Quiet, Both
  <1>4. \A q \in Requests : /\ CountedOn(admittedOn[q])' = CountedOn(admittedOn[q])
                            /\ HasSeen(q, "daily")' = HasSeen(q, "daily")
                            /\ HasSeen(q, "lifetime")' = HasSeen(q, "lifetime")
    BY <1>1, <1>3 DEF BudgetInv, BudgetTypes, TypeOK, Both
  <1>5. \A q \in Requests : /\ q # r => pc'[q] = pc[q] /\ putDay'[q] = putDay[q]
                            /\ q = r => pc'[q] = "writing" /\ putDay'[q] = day
    BY <1>1 DEF BudgetInv, BudgetTypes, TypeOK
  <1>6. LifetimeCounts'
    BY <1>1, <1>2, <1>3, <1>4 DEF BudgetInv, LifetimeCounts
  <1>7. SerialCounts'
    BY <1>1, <1>2, <1>3, <1>4 DEF BudgetInv, SerialCounts, Serial
  <1>8. DayCounts'
    <2> SUFFICES ASSUME ~spanned' PROVE DayCounts'
      BY DEF DayCounts
    <2>1. ~spanned /\ admittedOn[r] = day
      BY <1>1
    <2> QED BY <1>1, <1>2, <1>3, <1>4, <1>5, <2>1 DEF BudgetInv, DayCounts
  <1>9. LimitHolds'
    BY <1>1, <1>2, <1>3, <1>4, <1>5 DEF BudgetInv, LimitHolds, TodayCounts, Serial
  <1> QED BY <1>6, <1>7, <1>8, <1>9 DEF BudgetInv

LEMMA PutLifetimeKeeps ==
    ASSUME BudgetInv, BudgetTypes', NEW r \in Requests, PutLifetime(r)
    PROVE  BudgetInv'
  <1>1. Settle(r, "lifetime") /\ lifetime' = seen[r]["lifetime"] + Fee[r]
        /\ UNCHANGED <<daily, faults>>
    BY DEF PutLifetime, NewTotal
  <1>2. /\ HasSeen(r, "lifetime") /\ pc[r] = "writing" /\ r \in Recording
        /\ r \notin Counted("lifetime") /\ Counted("lifetime")' = Counted("lifetime") \cup {r}
        /\ Counted("daily")' = Counted("daily")
        /\ \A d \in Days : Admitted(d)' = Admitted(d)
        /\ Recording' \subseteq Recording
        /\ \A q \in Requests : /\ HasSeen(q, "lifetime")' => HasSeen(q, "lifetime") /\ q # r
                               /\ HasSeen(q, "daily")' => HasSeen(q, "daily")
                               /\ pc'[q] = "writing" => pc[q] = "writing"
        /\ UNCHANGED <<day, seen, putDay, admittedOn, overlapped, spanned>>
    BY <1>1, SettleEffect DEF BudgetInv, Both
  <1> DEFINE T == Counted("lifetime")
  <1>3. Total(T \cup {r}) = Total(T) + Fee[r] /\ Total(T) \in Nat /\ Fee[r] \in Nat
    BY <1>2, TotalFacts, CountedAreRequests, BudgetAssumption DEF Both
  <1>4. \A q \in Requests : seen[q]["lifetime"] \in Nat
    BY DEF BudgetInv, BudgetTypes, TypeOK, Both
  <1>5. LifetimeCounts'
    <2>1. Total(Counted("lifetime")') = Total(T) + Fee[r]
      BY <1>2, <1>3
    <2>2. \A q \in Requests : HasSeen(q, "lifetime") => seen[q]["lifetime"] <= Total(T)
      BY DEF BudgetInv, LifetimeCounts
    <2> HIDE DEF T
    <2>3. lifetime' <= Total(Counted("lifetime")')
      BY <1>1, <1>2, <1>3, <1>4, <2>1, <2>2
    <2>4. \A q \in Requests : HasSeen(q, "lifetime")' =>
            seen'[q]["lifetime"] <= Total(Counted("lifetime")')
      BY <1>2, <1>3, <1>4, <2>1, <2>2
    <2> QED BY <2>3, <2>4 DEF LifetimeCounts
  <1>6. SerialCounts'
    <2> SUFFICES ASSUME Serial' PROVE SerialCounts'
      BY DEF SerialCounts
    <2>1. Serial
      BY <1>1, <1>2 DEF Serial
    <2>2. \A q \in Requests : HasSeen(q, "lifetime") => q \in Recording
      BY DEF HasSeen, Recording
    <2>3. \A q \in Requests : HasSeen(q, "lifetime") => q = r
      BY <1>2, <2>1, <2>2 DEF BudgetInv, SerialCounts
    <2>4. \A q \in Requests : ~HasSeen(q, "lifetime")'
      BY <1>2, <2>3
    <2>5. lifetime' = Total(Counted("lifetime")')
      BY <1>1, <1>2, <1>3, <2>1 DEF BudgetInv, SerialCounts
    <2>6. \A q \in Recording', s \in Recording' : q = s
      BY <1>2, <2>1 DEF BudgetInv, SerialCounts
    <2> QED BY <2>4, <2>5, <2>6 DEF SerialCounts
  <1>7. \A d \in Days : CountedOn(d)' = CountedOn(d)
    BY <1>2 DEF CountedOn
  <1>8. \A q \in Requests : CountedOn(admittedOn[q])' = CountedOn(admittedOn[q])
    BY <1>2, <1>7 DEF BudgetInv, BudgetTypes, TypeOK
  <1>9. DayCounts'
    BY <1>1, <1>2, <1>7, <1>8 DEF BudgetInv, DayCounts
  <1>10. LimitHolds'
    BY <1>1, <1>2, <1>7, <1>8 DEF BudgetInv, LimitHolds, TodayCounts, Serial
  <1> QED BY <1>5, <1>6, <1>9, <1>10 DEF BudgetInv

LEMMA PutDailyKeeps ==
    ASSUME BudgetInv, BudgetTypes', NEW r \in Requests, PutDaily(r)
    PROVE  BudgetInv'
  <1>1. /\ Settle(r, "daily") /\ UNCHANGED <<lifetime, faults>>
        /\ daily' = [daily EXCEPT ![putDay[r]] = seen[r]["daily"] + Fee[r]]
    BY DEF PutDaily, NewTotal
  <1>2. /\ HasSeen(r, "daily") /\ pc[r] = "writing" /\ r \in Recording
        /\ r \notin Counted("daily") /\ Counted("daily")' = Counted("daily") \cup {r}
        /\ Counted("lifetime")' = Counted("lifetime")
        /\ \A d \in Days : Admitted(d)' = Admitted(d)
        /\ Recording' \subseteq Recording
        /\ \A q \in Requests : /\ HasSeen(q, "daily")' => HasSeen(q, "daily") /\ q # r
                               /\ HasSeen(q, "lifetime")' => HasSeen(q, "lifetime")
                               /\ pc'[q] = "writing" => pc[q] = "writing"
        /\ UNCHANGED <<day, seen, putDay, admittedOn, overlapped, spanned>>
    BY <1>1, SettleEffect DEF BudgetInv, Both
  <1>3. /\ putDay[r] \in Days /\ admittedOn[r] \in Days /\ day \in Days
        /\ \A d \in Days : daily[d] \in Nat /\ daily'[d] \in Nat
        /\ \A q \in Requests : seen[q]["daily"] \in Nat
        /\ daily'[putDay[r]] = seen[r]["daily"] + Fee[r]
        /\ \A d \in Days : d # putDay[r] => daily'[d] = daily[d]
    BY <1>1 DEF BudgetInv, BudgetTypes, TypeOK, Both
  <1>4. \A d \in Days : CountedOn(d)' = IF d = admittedOn[r] THEN CountedOn(d) \cup {r}
                                                            ELSE CountedOn(d)
    BY <1>2, <1>3 DEF CountedOn, Admitted
  <1>5. \A d \in Days : r \notin CountedOn(d) /\ CountedOn(d) \in SUBSET Requests
    BY <1>2, CountedAreRequests DEF CountedOn
  <1>6. \A d \in Days : /\ Total(CountedOn(d) \cup {r}) = Total(CountedOn(d)) + Fee[r]
                        /\ Total(CountedOn(d)) \in Nat /\ Fee[r] \in Nat
    BY <1>5, TotalFacts, BudgetAssumption
  <1>7. \A d \in Days : /\ Total(CountedOn(d)) <= Total(CountedOn(d)')
                        /\ Total(CountedOn(d)') \in Nat
    <2> TAKE d \in Days
    <2>1. /\ Total(CountedOn(d)) \in Nat /\ Fee[r] \in Nat
          /\ Total(CountedOn(d) \cup {r}) = Total(CountedOn(d)) + Fee[r]
      BY <1>6
    <2>2. \/ CountedOn(d)' = CountedOn(d)
          \/ CountedOn(d)' = CountedOn(d) \cup {r}
      BY <1>4
    <2>3. \/ Total(CountedOn(d)') = Total(CountedOn(d))
          \/ Total(CountedOn(d)') = Total(CountedOn(d)) + Fee[r]
      BY <2>1, <2>2
    <2> QED BY <2>1, <2>3
  <1>8. LifetimeCounts'
    BY <1>1, <1>2 DEF BudgetInv, LifetimeCounts
  <1>9. SerialCounts'
    BY <1>1, <1>2 DEF BudgetInv, SerialCounts, Serial
  <1>10. DayCounts'
    <2> SUFFICES ASSUME ~spanned' PROVE DayCounts'
      BY DEF DayCounts
    <2>1. DayCounts /\ ~spanned
      BY <1>2 DEF BudgetInv
    <2>2. putDay[r] = admittedOn[r] /\ seen[r]["daily"] <= Total(CountedOn(admittedOn[r]))
      BY <1>2, <2>1 DEF DayCounts
    <2>3. \A d \in Days : daily'[d] <= Total(CountedOn(d)')
      <3> TAKE d \in Days
      <3>1. CASE d = admittedOn[r]
        BY <1>3, <1>4, <1>6, <2>2, <3>1
      <3>2. CASE d # admittedOn[r]
        BY <1>3, <1>4, <2>1, <2>2, <3>2 DEF DayCounts
      <3> QED BY <3>1, <3>2
    <2>4. ASSUME NEW q \in Requests, HasSeen(q, "daily")', pc'[q] = "writing" \/ admittedOn[q] = day
          PROVE  seen[q]["daily"] <= Total(CountedOn(admittedOn[q])')
      <3>1. admittedOn[q] \in Days
        BY DEF BudgetInv, BudgetTypes, TypeOK
      <3>2. seen[q]["daily"] <= Total(CountedOn(admittedOn[q]))
        BY <1>2, <2>1, <2>4 DEF DayCounts
      <3>3. \A d \in Days : d = admittedOn[q] => seen[q]["daily"] <= Total(CountedOn(d)')
        <4> SUFFICES ASSUME NEW d \in Days, d = admittedOn[q]
                     PROVE  seen[q]["daily"] <= Total(CountedOn(d)')
          OBVIOUS
        <4>1. seen[q]["daily"] <= Total(CountedOn(d)) /\ seen[q]["daily"] \in Nat
          BY <1>3, <3>2
        <4>2. /\ Total(CountedOn(d)) <= Total(CountedOn(d)') /\ Total(CountedOn(d)') \in Nat
              /\ Total(CountedOn(d)) \in Nat
          BY <1>6, <1>7
        <4> QED BY <4>1, <4>2
      <3> QED BY <1>2, <3>1, <3>3
    <2> QED BY <1>2, <2>1, <2>3, <2>4 DEF DayCounts
  <1>11. LimitHolds'
    <2> SUFFICES ASSUME Serial', Limit > 0 PROVE TodayCounts'
      BY DEF LimitHolds
    <2>1. Serial /\ TodayCounts
      BY <1>1, <1>2 DEF Serial, BudgetInv, LimitHolds
    <2>2. \A q \in Recording : q = r
      BY <1>2, <2>1 DEF BudgetInv, SerialCounts
    <2>3. \A q \in Requests : ~HasSeen(q, "daily")'
      BY <1>2, <2>2 DEF HasSeen, Recording
    <2>4. Total(CountedOn(day)') <= daily'[day]
      <3>1. CASE admittedOn[r] = day
        <4>1. putDay[r] = day /\ Total(CountedOn(day)) <= seen[r]["daily"]
          BY <1>2, <2>1, <3>1 DEF TodayCounts
        <4>2. \A d \in Days : d = day => Total(CountedOn(d)') <= daily'[d]
          BY <1>3, <1>4, <1>6, <3>1, <4>1
        <4> QED BY <1>2, <1>3, <4>2
      <3>2. CASE admittedOn[r] # day
        <4>1. Admitted(day) = {}
          BY <1>2, <1>3, <2>1, <3>2 DEF TodayCounts
        <4>2. \A d \in Days : d = day => CountedOn(d)' = {}
          BY <1>4, <3>2, <4>1 DEF CountedOn
        <4>3. \A d \in Days : d = day => Total(CountedOn(d)') <= daily'[d]
          BY <1>3, <4>2, TotalFacts
        <4> QED BY <1>2, <1>3, <4>3
      <3> QED BY <3>1, <3>2
    <2>5. \A d \in Days : Total(Admitted(d)') <= Limit
      BY <1>2, <2>1 DEF TodayCounts
    <2>6. \A d \in Days : d = day => Total(CountedOn(d)') <= daily'[d]
      BY <1>2, <2>4
    <2> QED BY <1>2, <2>1, <2>3, <2>5, <2>6 DEF TodayCounts
  <1> QED BY <1>8, <1>9, <1>10, <1>11 DEF BudgetInv

\* A call fails: no counter changes, and nothing is serial any more.
LEMMA FaultKeeps ==
    ASSUME BudgetInv, BudgetTypes',
           \/ \E r \in Requests : ReadFails(r)
           \/ \E r \in Requests, c \in Both : PutFails(r, c)
    PROVE  BudgetInv'
  <1>1. Failed
    <2>1. CASE \E r \in Requests : ReadFails(r)
      BY <2>1, ReadFailsEffect DEF BudgetInv, Failed
    <2>2. ASSUME NEW r \in Requests, NEW c \in Both, PutFails(r, c) PROVE Failed
      <3>1. Settle(r, c) /\ faults' = faults + 1 /\ UNCHANGED <<daily, lifetime>>
        BY <2>2 DEF PutFails, Fault, counters
      <3>2. faults' # 0
        BY <3>1, BudgetAssumption DEF BudgetInv, BudgetTypes, TypeOK
      <3>3. \A k \in Both : Counted(k)' \in {Counted(k), Counted(k) \cup {r}}
        BY <3>1, SettleEffect DEF BudgetInv
      <3> QED BY <3>1, <3>2, <3>3, SettleEffect, CountedAreRequests DEF BudgetInv, Failed
    <2> QED BY <2>1, <2>2
  <1>2. ~Serial'
    BY <1>1 DEF Serial, Failed
  <1>3. \A d \in Days : CountedOn(d) \subseteq CountedOn(d)' /\ CountedOn(d)' \subseteq Requests
    BY <1>1 DEF CountedOn, Both, Failed
  <1>4. /\ \A d \in Days : Total(CountedOn(d)) <= Total(CountedOn(d)')
        /\ \A d \in Days : Total(CountedOn(d)) \in Nat /\ Total(CountedOn(d)') \in Nat
        /\ Total(Counted("lifetime")) <= Total(Counted("lifetime")')
        /\ Total(Counted("lifetime")) \in Nat /\ Total(Counted("lifetime")') \in Nat
    BY <1>1, <1>3, TotalFacts DEF Both, Failed
  <1>5. /\ lifetime \in Nat /\ \A d \in Days : daily[d] \in Nat
        /\ \A q \in Requests : /\ seen[q]["daily"] \in Nat /\ seen[q]["lifetime"] \in Nat
                               /\ admittedOn[q] \in Days
    BY DEF BudgetInv, BudgetTypes, TypeOK, Both
  <1>6. LifetimeCounts'
    BY <1>1, <1>4, <1>5 DEF BudgetInv, LifetimeCounts, Both, Failed
  <1>7. DayCounts'
    <2> SUFFICES ASSUME ~spanned' PROVE DayCounts'
      BY DEF DayCounts
    <2>1. DayCounts /\ ~spanned
      BY <1>1 DEF BudgetInv, Failed
    <2>2. \A d \in Days : daily[d] <= Total(CountedOn(d)')
      BY <1>4, <1>5, <2>1 DEF DayCounts
    <2>3. ASSUME NEW q \in Requests, HasSeen(q, "daily")', pc'[q] = "writing" \/ admittedOn[q] = day
          PROVE  \A d \in Days : d = admittedOn[q] => seen[q]["daily"] <= Total(CountedOn(d)')
      BY <1>1, <1>4, <1>5, <2>1, <2>3 DEF DayCounts, Both, Failed
    <2> QED BY <1>1, <1>5, <2>1, <2>2, <2>3 DEF DayCounts, Failed
  <1> QED BY <1>2, <1>6, <1>7 DEF BudgetInv, SerialCounts, LimitHolds

LEMMA NextDayKeeps ==
    ASSUME BudgetInv, BudgetTypes', NextDay PROVE BudgetInv'
  <1>1. /\ day' = day + 1
        /\ UNCHANGED <<daily, lifetime, pc, left, seen, putDay, admittedOn, faults,
                       overlapped, spanned>>
    BY DEF NextDay, counters, recorder, history
  <1>2. /\ \A c \in Both : Counted(c)' = Counted(c)
        /\ \A d \in Days : Admitted(d)' = Admitted(d) /\ CountedOn(d)' = CountedOn(d)
        /\ \A q \in Requests, k \in Both : HasSeen(q, k)' = HasSeen(q, k)
        /\ Recording' = Recording
    BY <1>1 DEF Counted, Admitted, CountedOn, HasSeen, Recording
  <1>3. \A q \in Requests : admittedOn[q] # day'
    BY <1>1, BudgetAssumption DEF BudgetInv, BudgetTypes, TypeOK, Days
  <1>4. LifetimeCounts'
    BY <1>1, <1>2 DEF BudgetInv, LifetimeCounts, Both
  <1>5. SerialCounts'
    BY <1>1, <1>2 DEF BudgetInv, SerialCounts, Serial, Both
  <1>6. DayCounts'
    <2>1. \A q \in Requests : CountedOn(admittedOn[q])' = CountedOn(admittedOn[q])
      BY <1>1, <1>2 DEF BudgetInv, BudgetTypes, TypeOK
    <2> QED BY <1>1, <1>2, <1>3, <2>1 DEF BudgetInv, DayCounts, Both
  <1>7. LimitHolds'
    <2> SUFFICES ASSUME Serial', Limit > 0 PROVE TodayCounts'
      BY DEF LimitHolds
    <2>1. TodayCounts
      BY <1>1 DEF Serial, BudgetInv, LimitHolds
    <2>2. \A d \in Days : d = day' => Admitted(d) = {} /\ CountedOn(d) = {}
      BY <1>3 DEF Admitted, CountedOn
    <2>3. \A d \in Days : daily[d] \in Nat
      BY DEF BudgetInv, BudgetTypes, TypeOK
    <2>4. \A d \in Days : d = day' => Total(CountedOn(d)) <= daily[d]
      BY <2>2, <2>3, TotalFacts
    <2> QED BY <1>1, <1>2, <1>3, <2>1, <2>2, <2>4 DEF TodayCounts
  <1> QED BY <1>4, <1>5, <1>6, <1>7 DEF BudgetInv

LEMMA NothingKeeps ==
    ASSUME BudgetInv, BudgetTypes', UNCHANGED vars \/ \E r \in Requests : Refuse(r)
    PROVE  BudgetInv'
  <1>1. UNCHANGED <<day, daily, lifetime, left, seen, putDay, admittedOn, faults,
                    overlapped, spanned>>
    BY DEF vars, Refuse, counters, recorder, history
  <1>2. \A r \in Requests : pc'[r] = pc[r] \/ (pc[r] = "idle" /\ pc'[r] = "refused")
    BY DEF vars, Refuse, BudgetInv, BudgetTypes, TypeOK
  <1>3. /\ \A c \in Both : Counted(c)' = Counted(c)
        /\ \A d \in Days : Admitted(d)' = Admitted(d)
        /\ \A q \in Requests, k \in Both : HasSeen(q, k)' = HasSeen(q, k)
        /\ Recording' = Recording
    BY <1>1, <1>2 DEF Counted, Admitted, HasSeen, Recording
  <1>4. \A d \in Days : CountedOn(d)' = CountedOn(d)
    BY <1>3 DEF CountedOn, Both
  <1>5. \A q \in Requests : CountedOn(admittedOn[q])' = CountedOn(admittedOn[q])
    BY <1>1, <1>4 DEF BudgetInv, BudgetTypes, TypeOK
  <1>6. \A q \in Requests : pc'[q] = "writing" => pc[q] = "writing"
    BY <1>2
  <1> QED BY <1>1, <1>3, <1>4, <1>5, <1>6
        DEF BudgetInv, LifetimeCounts, SerialCounts, DayCounts, LimitHolds, TodayCounts,
            Serial, Both

LEMMA BudgetStep == ASSUME BudgetInv, [Next]_vars PROVE BudgetInv'
  <1>1. BudgetTypes'
    BY BudgetTypesHold DEF BudgetInv
  <1> QED BY <1>1, AdmitKeeps, ReadKeeps, StartKeeps, PutLifetimeKeeps, PutDailyKeeps,
            FaultKeeps, NextDayKeeps, NothingKeeps DEF Next

LEMMA InvIsSound == ASSUME BudgetInv PROVE CountersAreSound
  <1> DEFINE T == Counted("lifetime")
  <1>1. Everyone \in SUBSET Requests /\ T \subseteq Everyone
    BY DEF Everyone, Admitted, Counted, BudgetInv, BudgetTypes, TypeOK
  <1>2. /\ Total(T) <= Total(Everyone)
        /\ Total(T) \in Nat /\ Total(Everyone) \in Nat /\ lifetime \in Nat
    <2>1. T \in SUBSET Everyone /\ T \in SUBSET Requests
      BY <1>1
    <2> HIDE DEF T
    <2> QED BY <1>1, <2>1, TotalFacts DEF BudgetInv, BudgetTypes, TypeOK
  <1>3. LifetimeNeverOvercounts
    BY <1>2 DEF LifetimeNeverOvercounts, BudgetInv, LifetimeCounts
  <1>4. SerialSpendIsCounted
    <2>1. Recording = {} => T = Everyone
      BY DEF Recording, Everyone, Admitted, Counted, BudgetInv, BudgetTypes, TypeOK
    <2> QED BY <2>1 DEF SerialSpendIsCounted, BudgetInv, SerialCounts, Serial
  <1>5. SerialSpendWithinLimit
    BY DEF SerialSpendWithinLimit, BudgetInv, LimitHolds, TodayCounts, Serial
  <1>6. UnspannedDaysCountOneDay
    <2> SUFFICES ASSUME ~spanned PROVE DailyCountsOneDay
      BY DEF UnspannedDaysCountOneDay
    <2> DEFINE U(d) == Admitted(d) \cup
                 {r \in Requests : pc[r] \in {"writing", "ended"} /\ putDay[r] = d}
    <2>1. \A d \in Days : CountedOn(d) \in SUBSET U(d) /\ U(d) \in SUBSET Requests
      BY CountedAreRequests
    <2>2. \A d \in Days : /\ Total(CountedOn(d)) <= Total(U(d))
                          /\ Total(CountedOn(d)) \in Nat /\ Total(U(d)) \in Nat
      <3>1. \A d \in Days : CountedOn(d) \in SUBSET Requests
        BY <2>1
      <3> HIDE DEF U
      <3> QED BY <2>1, <3>1, TotalFacts
    <2>3. \A d \in Days : daily[d] <= Total(CountedOn(d)) /\ daily[d] \in Nat
      BY DEF BudgetInv, DayCounts, BudgetTypes, TypeOK
    <2>4. \A d \in Days : daily[d] <= Total(U(d))
      <3> HIDE DEF U
      <3> QED BY <2>2, <2>3
    <2> QED BY <2>4 DEF DailyCountsOneDay
  <1> QED BY <1>3, <1>4, <1>5, <1>6 DEF CountersAreSound

\* However the reads and puts of recordSpend interleave, fail or cross midnight,
\* the lifetime counter never holds more than was admitted; requests that do not
\* overlap are counted exactly and keep to the limit; and a day's counter holds
\* no more than that day's requests unless one is recorded across midnight.
THEOREM BudgetIsSound == AllSpec => []CountersAreSound
  <1>1. AllInit => BudgetInv
    BY BudgetStart DEF AllInit
  <1>2. BudgetInv /\ [AllNext]_allVars => BudgetInv'
    BY BudgetStep, StepOfBudget
  <1>3. BudgetInv => CountersAreSound
    BY InvIsSound
  <1> QED BY <1>1, <1>2, <1>3, PTL DEF AllSpec

\* The budget and the relay keep to their types.
THEOREM FeePayerTypes == AllSpec => []TypesOK
  <1> DEFINE Inv == BudgetTypes /\ R!TypeOK
  <1>1. AllInit => Inv
    BY BudgetStart, InitShape DEF AllInit, BudgetInv
  <1>2. Inv /\ [AllNext]_allVars => Inv'
    BY StepOfBudget, StepOfRelay, BudgetTypesHold, NextShape
  <1>3. Inv => TypesOK
    BY DEF BudgetTypes, TypesOK
  <1> QED BY <1>1, <1>2, <1>3, PTL DEF AllSpec

=============================================================================
