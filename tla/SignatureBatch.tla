---------------------------- MODULE SignatureBatch ----------------------------
(***************************************************************************)
(* Signature lookups of the explorer: the browser gathers the lookups that *)
(* start before a timer fires into one request (lib/queries/abi.ts), and   *)
(* the server answers a request with one cached promise per selector       *)
(* (routes/api/abi/batch.ts, lookupSignature of lib/domain/contracts.ts).  *)
(***************************************************************************)
EXTENDS Integers, FiniteSets

CONSTANTS Lookups,   \* calls of lookupSignatureBatched
          Selectors,
          SelectorOf(_), \* the selector a lookup asks for
          Known,     \* selectors that have a signature
          MaxRetries \* bound: retries of rejected lookups

VARIABLES lookup,  \* lookup -> "idle", "waiting", or how its promise settled
          retries,
          pendingRequests, \* pendingSignatureRequests: its lookups
          timer,   \* signatureBatchTimer is set
          batches, \* requests under way: [lookups, received, answers]
          lookupCache,   \* signatureLookupCache: selector -> "none", "loading", result
          loads    \* history: loads of a selector from the databases under way

vars == <<lookup, retries, pendingRequests, timer, batches, lookupCache, loads>>

Results == {"signature", "null"}
Settled == Results \cup {"rejected"}
True(s) == IF s \in Known THEN "signature" ELSE "null"
Wanted(b) == {SelectorOf(l) : l \in b.lookups}

TypeOK ==
    /\ lookup \in [Lookups -> {"idle", "waiting"} \cup Settled]
    /\ retries \in 0..MaxRetries
    /\ pendingRequests \subseteq Lookups
    /\ timer \in BOOLEAN
    /\ \A b \in batches :
         /\ b.lookups # {} /\ b.lookups \subseteq Lookups
         /\ b.answers \in [Wanted(b) -> Results \cup {"none"}]
    /\ lookupCache \in [Selectors -> Results \cup {"none", "loading"}]
    /\ loads \in [Selectors -> 0..Cardinality(Lookups)]

Init ==
    /\ lookup = [l \in Lookups |-> "idle"]
    /\ retries = 0
    /\ pendingRequests = {} /\ timer = FALSE
    /\ batches = {}
    /\ lookupCache = [s \in Selectors |-> "none"]
    /\ loads = [s \in Selectors |-> 0]

-----------------------------------------------------------------------------
\* lookupSignatureBatched; the query of a rejected lookup tries again.
Lookup(l) ==
    /\ \/ lookup[l] = "idle" /\ UNCHANGED retries
       \/ /\ lookup[l] = "rejected" /\ retries < MaxRetries
          /\ retries' = retries + 1
    /\ lookup' = [lookup EXCEPT ![l] = "waiting"]
    /\ pendingRequests' = pendingRequests \cup {l}
    /\ timer' = TRUE
    /\ UNCHANGED <<batches, lookupCache, loads>>

Batch(ls) == [lookups |-> ls, received |-> FALSE,
              answers |-> [s \in {SelectorOf(l) : l \in ls} |-> "none"]]

\* Faulty variant: the pending requests are not taken out of the batch.
FlushShared ==
    /\ timer
    /\ timer' = FALSE
    /\ batches' = batches \cup {Batch(pendingRequests)}
    /\ UNCHANGED <<lookup, retries, pendingRequests, lookupCache, loads>>

\* flushSignatureBatch swaps the map and clears the timer before it awaits.
Flush ==
    /\ timer
    /\ timer' = FALSE
    /\ pendingRequests' = {}
    /\ batches' = batches \cup {Batch(pendingRequests)}
    /\ UNCHANGED <<lookup, retries, lookupCache, loads>>

\* The server takes a request: cached selectors are answered, those that load
\* are awaited, and the others begin to load.
Receive(b) ==
    /\ b \in batches /\ ~b.received
    /\ batches' = (batches \ {b}) \cup
         {[b EXCEPT !.received = TRUE,
                    !.answers = [s \in Wanted(b) |->
                       IF lookupCache[s] \in Results THEN lookupCache[s] ELSE "none"]]}
    /\ lookupCache' = [s \in Selectors |->
         IF s \in Wanted(b) /\ lookupCache[s] = "none" THEN "loading" ELSE lookupCache[s]]
    /\ loads' = [s \in Selectors |->
         IF s \in Wanted(b) /\ lookupCache[s] = "none" THEN loads[s] + 1 ELSE loads[s]]
    /\ UNCHANGED <<lookup, retries, pendingRequests, timer>>

\* A load ends: every request that awaits it has its answer, null when it
\* failed; a failed load leaves the lookupCache.
LoadEnds(s, ok) ==
    /\ loads[s] > 0
    /\ loads' = [loads EXCEPT ![s] = @ - 1]
    /\ lookupCache' = [lookupCache EXCEPT ![s] = IF ok THEN True(s) ELSE "none"]
    /\ batches' = {IF b.received /\ s \in Wanted(b) /\ b.answers[s] = "none"
                   THEN [b EXCEPT !.answers[s] = IF ok THEN True(s) ELSE "null"]
                   ELSE b : b \in batches}
    /\ UNCHANGED <<lookup, retries, pendingRequests, timer>>

\* The response settles every lookup of its request.
Respond(b) ==
    /\ b \in batches /\ b.received
    /\ \A s \in Wanted(b) : b.answers[s] # "none"
    /\ batches' = batches \ {b}
    /\ lookup' = [l \in Lookups |->
         IF l \in b.lookups THEN b.answers[SelectorOf(l)] ELSE lookup[l]]
    /\ UNCHANGED <<retries, pendingRequests, timer, lookupCache, loads>>

\* The request fails, or its response is not ok.
RequestFails(b) ==
    /\ b \in batches
    /\ batches' = batches \ {b}
    /\ lookup' = [l \in Lookups |-> IF l \in b.lookups THEN "rejected" ELSE lookup[l]]
    /\ UNCHANGED <<retries, pendingRequests, timer, lookupCache, loads>>

Next ==
    \/ \E l \in Lookups : Lookup(l)
    \/ Flush
    \/ \E b \in batches : Receive(b) \/ Respond(b) \/ RequestFails(b)
    \/ \E s \in Selectors, ok \in BOOLEAN : LoadEnds(s, ok)

Spec == Init /\ [][Next]_vars

-----------------------------------------------------------------------------
\* Every lookup whose promise is open is in the map that the armed timer will
\* flush or in exactly one request under way: none is dropped when lookups
\* start while a request is out, and none is settled twice.
OpenLookupsAreHeld ==
    /\ \A l \in Lookups : lookup[l] = "waiting" <=>
         \/ l \in pendingRequests
         \/ \E b \in batches : l \in b.lookups
    /\ \A l \in pendingRequests : timer /\ \A b \in batches : l \notin b.lookups
    /\ \A b, c \in batches : b.lookups \cap c.lookups # {} => b = c

\* lookupSignature caches the promise before it awaits: concurrent requests
\* load a selector from the databases once.
LoadsAreShared == \A s \in Selectors : loads[s] <= 1

\* Both: nothing that a page waits for is dropped, and nothing is asked twice.
LookupsAreHeldOnce == OpenLookupsAreHeld /\ LoadsAreShared
=============================================================================
