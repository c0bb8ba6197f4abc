----------------------------- MODULE SponsorRelay -----------------------------
(***************************************************************************)
(* The requests that carry one API key of apps/fee-payer, from its         *)
(* authentication (src/lib/api-key-middleware.ts) through the checks       *)
(* (src/lib/rate-limit.ts) and the relay (src/index.ts) to the billing     *)
(* message (src/lib/billing.ts), while administrators change the key's     *)
(* record in KV (src/lib/api-keys.ts).  A change reads the record and puts *)
(* it; nothing makes the two one step.                                     *)
(***************************************************************************)
EXTENDS Integers

CONSTANTS
    Calls,       \* requests that carry the key
    KindOf(_),   \* "fill" (eth_fillTransaction), "serialized" or "other"
    PayloadOf(_),\* the payload that the relay signs for the request
    Changes,     \* calls of updateApiKey and revokeApiKey
    FieldOf(_), ValueOf(_), \* what a change sets
    MaxFailures  \* bound: messages that cannot be built or sent

VARIABLES
    record,   \* the key's record in KV
    change,   \* change -> "idle", "read", "put"
    found,    \* what the change has read
    crossed,  \* history: a record was put between the read and the put of a change
    intended, \* history: the record had every change been one step
    call,     \* request -> where it is
    grant,    \* the record that authenticated it
    spend,    \* request -> "none", "due" or "recorded"
    bill,     \* request -> "none", "due", "sent" or "lost"
    queue,    \* BILLING_QUEUE: its messages, with the request each is about
    failures

admins == <<record, change, found, crossed, intended>>
billing == <<bill, queue, failures>>
vars == <<admins, call, grant, spend, billing>>

Fields == {"active", "billable"}
Records == [Fields -> BOOLEAN]
Sponsorable == {"fill", "serialized"}
Outcomes == {"unauthorized", "refused", "error", "signed", "answered"}

\* A message carries the idempotency key of the payload that was signed.
MessageOf(c) == [call |-> c, key |-> PayloadOf(c)]

TypeOK ==
    /\ record \in Records /\ intended \in Records
    /\ change \in [Changes -> {"idle", "read", "put"}]
    /\ found \in [Changes -> Records]
    /\ crossed \in BOOLEAN
    /\ call \in [Calls -> {"idle", "authenticated", "checked"} \cup Outcomes]
    /\ grant \in [Calls -> Records]
    /\ spend \in [Calls -> {"none", "due", "recorded"}]
    /\ bill \in [Calls -> {"none", "due", "sent", "lost"}]
    /\ queue \subseteq {MessageOf(c) : c \in Calls}
    /\ failures \in 0..MaxFailures

\* createApiKey: an active key; whether it is billable is the caller's choice
Init ==
    /\ record \in {r \in Records : r.active} /\ intended = record
    /\ change = [u \in Changes |-> "idle"]
    /\ found = [u \in Changes |-> record]
    /\ crossed = FALSE
    /\ call = [c \in Calls |-> "idle"]
    /\ grant = [c \in Calls |-> record]
    /\ spend = [c \in Calls |-> "none"]
    /\ bill = [c \in Calls |-> "none"]
    /\ queue = {} /\ failures = 0

-----------------------------------------------------------------------------
\* updateApiKey, and revokeApiKey, which is a change of "active".
ReadRecord(u) ==
    /\ change[u] = "idle"
    /\ change' = [change EXCEPT ![u] = "read"]
    /\ found' = [found EXCEPT ![u] = record]
    /\ UNCHANGED <<record, crossed, intended, call, grant, spend, billing>>

\* Faulty variant: only the changed field survives.
WithDefaults(r, u) == [[f \in Fields |-> TRUE] EXCEPT ![FieldOf(u)] = ValueOf(u)]

With(r, u) == [r EXCEPT ![FieldOf(u)] = ValueOf(u)]

PutRecord(u) ==
    /\ change[u] = "read"
    /\ change' = [change EXCEPT ![u] = "put"]
    /\ record' = With(found[u], u)
    /\ intended' = [intended EXCEPT ![FieldOf(u)] = ValueOf(u)]
    /\ crossed' = (crossed \/ \E v \in Changes \ {u} : change[v] = "read")
    /\ UNCHANGED <<found, call, grant, spend, billing>>

-----------------------------------------------------------------------------
Moves(c, from, to) == call[c] = from /\ call' = [call EXCEPT ![c] = to]

\* apiKeyMiddleware: an inactive key is as good as none.
Authenticate(c) ==
    /\ \/ record.active /\ Moves(c, "idle", "authenticated")
       \/ ~record.active /\ Moves(c, "idle", "unauthorized")
    /\ grant' = [grant EXCEPT ![c] = record]
    /\ UNCHANGED <<admins, spend, billing>>

\* A transaction that names no gas or no fee is not recorded.
Spends(c) == IF KindOf(c) = "serialized" THEN {"due", "none"} ELSE {"none"}

\* rateLimitMiddleware: a serialized transaction may be refused by the limiter,
\* the allowed destinations or the budget, which SponsorBudget details; when it
\* passes, recordSpend is started and not waited for.  Any request may be
\* malformed.
Check(c) ==
    /\ \/ /\ Moves(c, "authenticated", "checked")
          /\ \E s \in Spends(c) : spend' = [spend EXCEPT ![c] = s]
       \/ Moves(c, "authenticated", "refused") /\ UNCHANGED spend
    /\ UNCHANGED <<admins, grant, billing>>

\* recordSpend has put the counters.
RecordSpend(c) ==
    /\ spend[c] = "due"
    /\ spend' = [spend EXCEPT ![c] = "recorded"]
    /\ UNCHANGED <<admins, call, grant, billing>>

Sponsored(c) == call[c] = "signed"

\* Faulty variant: whether to bill is looked up when the relay has answered.
BillableNow(c) == record.billable

Billable(c) == grant[c].billable

\* feePayerHandler: the relay answers, with the sponsor's signature when it
\* fills a transaction or takes a serialized one; a billable key's request and
\* answer go on to billing, whatever they are.
Relay(c) ==
    /\ \/ \E outcome \in {"error", "answered"} : Moves(c, "checked", outcome)
       \/ KindOf(c) \in Sponsorable /\ Moves(c, "checked", "signed")
    /\ bill' = [bill EXCEPT ![c] = IF Billable(c) THEN "due" ELSE "none"]
    /\ UNCHANGED <<admins, grant, spend, queue, failures>>

\* buildSponsorshipIntentMessage and sponsorshipDetailsFromRpc: a message for
\* the signature of an eth_fillTransaction, and for no other method
BuildsMessage(c) == KindOf(c) = "fill" /\ Sponsored(c)

\* enqueueSponsorshipIntent, which nothing waits for
Enqueue(c) ==
    /\ bill[c] = "due"
    /\ bill' = [bill EXCEPT ![c] = IF BuildsMessage(c) THEN "sent" ELSE "none"]
    /\ queue' = IF BuildsMessage(c) THEN queue \cup {MessageOf(c)} ELSE queue
    /\ UNCHANGED <<admins, call, grant, spend, failures>>

\* What is due ends without the message it should have been: the request or the
\* answer is no JSON, the transaction has no sender or makes no envelope, or the
\* send fails.  At most an error is logged.
BillingFails(c) ==
    /\ bill[c] = "due" /\ BuildsMessage(c)
    /\ failures < MaxFailures
    /\ failures' = failures + 1
    /\ bill' = [bill EXCEPT ![c] = "lost"]
    /\ UNCHANGED <<admins, call, grant, spend, queue>>

Next ==
    \/ \E u \in Changes : ReadRecord(u) \/ PutRecord(u)
    \/ \E c \in Calls :
         \/ Authenticate(c) \/ Check(c) \/ RecordSpend(c) \/ Relay(c)
         \/ Enqueue(c) \/ BillingFails(c)

Spec == Init /\ [][Next]_vars

-----------------------------------------------------------------------------
\* updateApiKey merges its fields into what it reads: unless two changes cross,
\* the record holds the last value of every field, and a revoked key stays
\* revoked until it is activated again.
SerialChangesHold == ~crossed => record = intended

\* A billing message carries the key of the payload that the sponsor signed for
\* a request that filled a transaction, and whose key was active and billable
\* when it was authenticated.
MessagesAreSponsored ==
    \A m \in queue :
        /\ m.key = PayloadOf(m.call)
        /\ Sponsored(m.call) /\ KindOf(m.call) = "fill"
        /\ grant[m.call].active /\ grant[m.call].billable

BillingDone == \A c \in Calls : bill[c] # "due"

\* Once billing has done its work, each transaction that was filled and signed
\* for a billable request has its message, or that was lost on its way.
SignedIsBilled ==
    BillingDone =>
        \A c \in Calls :
            Sponsored(c) /\ KindOf(c) = "fill" /\ grant[c].billable =>
                MessageOf(c) \in queue \/ bill[c] = "lost"

\* Both: the queue bills just what was filled for the key.  The relay sponsors the
\* serialized transactions of its README's "Supported sponsorship methods", too;
\* of these none is billed (test/billing.test.ts).
FillsAreBilled == MessagesAreSponsored /\ SignedIsBilled

\* "Record spend after request completes successfully." (rate-limit.ts): no spend
\* is recorded for a request that the relay has refused.
RecordedIsSpent == \A c \in Calls : spend[c] = "recorded" => call[c] # "error"
=============================================================================
