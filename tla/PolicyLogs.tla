------------------------------ MODULE PolicyLogs ------------------------------
(***************************************************************************)
(* The explorer's page of a TIP-403 policy (lib/server/tip403.ts): members *)
(* and recent activity are computed from the policy's logs, which the log  *)
(* database returns in pages by offset, one query per kind of event        *)
(* (lib/server/tip403-log-utils.ts).  Logs arrive while the pages are read, *)
(* and the database may hold a log in several rows.  A log is its place in  *)
(* the order of blocks and log indices.                                    *)
(***************************************************************************)
EXTENDS Integers, Sequences, FiniteSetsExt

CONSTANTS POLICY_LOG_PAGE_SIZE,
          RECENT_ACTIVITY_LIMIT,
          MaxLogs, \* bound: logs of the policy
          MaxCopies \* bound: rows of a log

\* whitelist or blacklist updates, by the policy's type, and every other event
EventTypes == {"member", "other"}

VARIABLES logs,   \* the policy's logs: [type, rows]
          start,  \* logs when the request began
          phase,     \* "idle", "reading", "done"
          all,    \* fetchAllPolicyLogPages of the membership events
          recent  \* fetchRecentUniquePolicyLogs of each type

vars == <<logs, start, phase, all, recent>>

Walk == [offset : Nat, got : SUBSET (1..MaxLogs), ended : BOOLEAN]
NewWalk == [offset |-> 0, got |-> {}, ended |-> FALSE]

TypeOK ==
    /\ Len(logs) <= MaxLogs
    /\ \A i \in DOMAIN logs : logs[i] \in [type : EventTypes, rows : 1..MaxCopies]
    /\ start \in 0..Len(logs)
    /\ phase \in {"idle", "reading", "done"}
    /\ all \in Walk
    /\ recent \in [EventTypes -> Walk]

Init ==
    /\ logs = <<>> /\ start = 0
    /\ phase = "idle"
    /\ all = NewWalk
    /\ recent = [t \in EventTypes |-> NewWalk]

-----------------------------------------------------------------------------
\* fetchLogsPage orders the rows of a type by log, either way; rows of one log
\* are next to one another.
Of(type) == {i \in DOMAIN logs : logs[i].type = type}
rowsOf == [i \in DOMAIN logs |-> logs[i].rows]
Rows(ids) == MapThenSumSet(LAMBDA i : rowsOf[i], ids)

Older(i, ids) == {j \in ids : j < i}
Newer(i, ids) == {j \in ids : j > i}

\* A page by offset: how many rows it has, and the logs whose rows, behind
\* those of the logs before them, reach into it.
Size(ids, count, offset) == Min({count, Rows(ids) - offset})
AscendingPage(ids, count, offset) ==
    {i \in ids : /\ Rows(Older(i, ids)) < offset + count
                 /\ Rows(Older(i, ids)) + rowsOf[i] > offset}
DescendingPage(ids, count, offset) ==
    {i \in ids : /\ Rows(Newer(i, ids)) < offset + count
                 /\ Rows(Newer(i, ids)) + rowsOf[i] > offset}

\* A log is written, in one row or in several.
Write(type, n) ==
    /\ Len(logs) < MaxLogs
    /\ logs' = Append(logs, [type |-> type, rows |-> n])
    /\ UNCHANGED <<start, phase, all, recent>>

\* A log is written once more.
WriteAgain(i) ==
    /\ logs[i].rows < MaxCopies
    /\ logs' = [logs EXCEPT ![i].rows = @ + 1]
    /\ UNCHANGED <<start, phase, all, recent>>

Request ==
    /\ phase \in {"idle", "done"}
    /\ phase' = "reading"
    /\ start' = Len(logs)
    /\ all' = NewWalk
    /\ recent' = [t \in EventTypes |-> NewWalk]
    /\ UNCHANGED logs

\* One round of fetchAllPolicyLogPages
ReadAll ==
    LET n == Size(Of("member"), POLICY_LOG_PAGE_SIZE, all.offset)
    IN /\ phase = "reading" /\ ~all.ended
       /\ all' = [offset |-> all.offset + n,
                  got |-> all.got \cup AscendingPage(Of("member"),
                                            POLICY_LOG_PAGE_SIZE, all.offset),
                  ended |-> n < POLICY_LOG_PAGE_SIZE]
       /\ UNCHANGED <<logs, start, phase, recent>>

Newest(n, ids) == {i \in ids : Cardinality({j \in ids : j > i}) < n}

\* One round of fetchRecentUniquePolicyLogs(fetchPage, RECENT_ACTIVITY_LIMIT + 1).
\* In descending order the newest distinct logs read come first.
uniqueLimit == RECENT_ACTIVITY_LIMIT + 1

\* Faulty variant: rows are counted instead of distinct logs.
ReadRecentCountsRows(type) ==
    LET w == recent[type]
        n == Size(Of(type), uniqueLimit + 1, w.offset)
        unique == w.got \cup DescendingPage(Of(type), uniqueLimit + 1, w.offset)
    IN /\ phase = "reading" /\ ~w.ended
       /\ recent' = [recent EXCEPT ![type] =
            [offset |-> w.offset + n, got |-> Newest(uniqueLimit, unique),
             ended |-> w.offset + n >= uniqueLimit \/ n < uniqueLimit + 1]]
       /\ UNCHANGED <<logs, start, phase, all>>

ReadRecent(type) ==
    LET w == recent[type]
        n == Size(Of(type), uniqueLimit + 1, w.offset)
        unique == w.got \cup DescendingPage(Of(type), uniqueLimit + 1, w.offset)
        ended == Cardinality(unique) >= uniqueLimit \/ n < uniqueLimit + 1
    IN /\ phase = "reading" /\ ~w.ended
       /\ recent' = [recent EXCEPT ![type] =
            [offset |-> w.offset + n,
             got |-> IF ended THEN Newest(uniqueLimit, unique) ELSE unique,
             ended |-> ended]]
       /\ UNCHANGED <<logs, start, phase, all>>

Finish ==
    /\ phase = "reading"
    /\ all.ended /\ \A t \in EventTypes : recent[t].ended
    /\ phase' = "done"
    /\ UNCHANGED <<logs, start, all, recent>>

recentEvents == UNION {recent[t].got : t \in EventTypes}
activity == Newest(RECENT_ACTIVITY_LIMIT, recentEvents)
activityTruncated == Cardinality(recentEvents) > RECENT_ACTIVITY_LIMIT

Next ==
    \/ \E type \in EventTypes, n \in 1..MaxCopies : Write(type, n)
    \/ \E i \in DOMAIN logs : WriteAgain(i)
    \/ Request
    \/ ReadAll
    \/ \E type \in EventTypes : ReadRecent(type)
    \/ Finish

Spec == Init /\ [][Next]_vars

-----------------------------------------------------------------------------
\* Ascending pages by offset with repeated rows removed: the members are those
\* of one moment of the request, whose last event for every account is known.
MembersAreOfOneMoment ==
    phase = "done" =>
        \E n \in start..Len(logs) :
            all.got = {i \in 1..n : logs[i].type = "member"}

\* The newest distinct logs of each kind, merged: a log that was there when
\* the request began and is newer than one shown is shown, and when the list
\* is not marked as truncated every such log is.
ActivityHasNoHoles ==
    phase = "done" =>
        \A i \in 1..start :
            \/ i \in activity
            \/ /\ activityTruncated
               /\ \A j \in activity : i < j

\* Both: what a request shows of a policy is what its logs say at one moment of
\* it, although its pages are read at several.
PolicyIsOfOneMoment == MembersAreOfOneMoment /\ ActivityHasNoHoles
=============================================================================
