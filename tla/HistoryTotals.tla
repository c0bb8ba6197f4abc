----------------------------- MODULE HistoryTotals -----------------------------
(***************************************************************************)
(* historyTotalCache of the explorer's server (lib/server/address-history.ts): *)
(* the counts of filtered histories, cached as promises.  The expensive    *)
(* count is asked of the API by the latest page only; every other page     *)
(* awaits the cached promise.  Promises that fail leave the cache, a    *)
(* minute's age makes an entry expire, and the oldest entry leaves a full  *)
(* cache.                                                                  *)
(***************************************************************************)
EXTENDS Integers, FiniteSets

CONSTANTS Keys,        \* totalKey: chain, address and filters
          HISTORY_TOTAL_CACHE_TTL,
          HISTORY_TOTAL_CACHE_MAX_ENTRIES,
          MaxCounts    \* bound: counts asked of the API

Counts == 1..MaxCounts

VARIABLES cached,  \* historyTotalCache: its entries [key, promise, age]
          asked,   \* counts asked so far; a count's promise is its number, so that
                   \* of two entries the one with the greater promise came later
          keyOf,   \* promise -> the key it counts
          outcome, \* promise -> "none", "pending", "resolved", "undefined"
          dropped  \* history: promises whose entry expired or made room

vars == <<cached, asked, keyOf, outcome, dropped>>

TypeOK ==
    /\ cached \subseteq [key : Keys, promise : Counts, age : 0..HISTORY_TOTAL_CACHE_TTL]
    /\ Cardinality(cached) <= HISTORY_TOTAL_CACHE_MAX_ENTRIES
    /\ asked \in 0..MaxCounts
    /\ keyOf \in [Counts -> Keys]
    /\ outcome \in [Counts -> {"none", "pending", "resolved", "undefined"}]
    /\ dropped \subseteq Counts

Init ==
    /\ cached = {}
    /\ asked = 0
    /\ keyOf = [p \in Counts |-> CHOOSE k \in Keys : TRUE]
    /\ outcome = [p \in Counts |-> "none"]
    /\ dropped = {}

-----------------------------------------------------------------------------
Without(entries, key) == {e \in entries : e.key # key}

PromisesOf(entries) == {e.promise : e \in entries}

\* getCachedHistoryTotal: an expired entry leaves the cache.
Fresh(key) == {e \in cached : e.key = key /\ e.age < HISTORY_TOTAL_CACHE_TTL}
AfterLookup(key) == IF Fresh(key) = {} THEN Without(cached, key) ELSE cached

\* cacheHistoryTotal of a key that is not in entries: the first entry of the map
\* makes room when it is full
Oldest(entries) == CHOOSE e \in entries : \A d \in entries : e.promise <= d.promise
MakesRoom(entries) ==
    IF Cardinality(entries) >= HISTORY_TOTAL_CACHE_MAX_ENTRIES
    THEN {Oldest(entries)} ELSE {}

\* fetchAddressHistoryData of the latest page: it asks for the count when none
\* is cached, and otherwise awaits the cached one.
LatestPageAsks(key) ==
    /\ Fresh(key) = {}
    /\ asked < MaxCounts
    /\ asked' = asked + 1
    /\ keyOf' = [keyOf EXCEPT ![asked'] = key]
    /\ outcome' = [outcome EXCEPT ![asked'] = "pending"]
    /\ LET entries == AfterLookup(key)
           leaving == (cached \ entries) \cup MakesRoom(entries)
       IN  /\ cached' = (cached \ leaving)
                          \cup {[key |-> key, promise |-> asked', age |-> 0]}
           /\ dropped' = dropped \cup PromisesOf(leaving)

\* A page with a cursor, or the oldest page, that finds none shows no total.
PageWithoutTotal(key) ==
    /\ Fresh(key) = {}
    /\ cached' = AfterLookup(key)
    /\ dropped' = dropped \cup PromisesOf(cached \ cached')
    /\ UNCHANGED <<asked, keyOf, outcome>>

\* The API answers a count.
CountResolves(p) ==
    /\ outcome[p] = "pending"
    /\ outcome' = [outcome EXCEPT ![p] = "resolved"]
    /\ UNCHANGED <<cached, asked, keyOf, dropped>>

\* Faulty variant: the entry is removed whoever has put it there.
CountFailsByKey(p) ==
    /\ outcome[p] = "pending"
    /\ outcome' = [outcome EXCEPT ![p] = "undefined"]
    /\ cached' = Without(cached, keyOf[p])
    /\ UNCHANGED <<asked, keyOf, dropped>>

\* The page fails, or comes without a count: the entry of its key leaves the
\* cache if it still holds this promise.
CountFails(p) ==
    /\ outcome[p] = "pending"
    /\ outcome' = [outcome EXCEPT ![p] = "undefined"]
    /\ cached' = IF \E e \in cached : e.key = keyOf[p] /\ e.promise = p
                 THEN Without(cached, keyOf[p]) ELSE cached
    /\ UNCHANGED <<asked, keyOf, dropped>>

Tick ==
    /\ \E e \in cached : e.age < HISTORY_TOTAL_CACHE_TTL
    /\ cached' = {[e EXCEPT !.age = IF @ < HISTORY_TOTAL_CACHE_TTL THEN @ + 1 ELSE @] :
                    e \in cached}
    /\ UNCHANGED <<asked, keyOf, outcome, dropped>>

Next ==
    \/ \E key \in Keys : LatestPageAsks(key) \/ PageWithoutTotal(key)
    \/ \E p \in Counts : CountResolves(p) \/ CountFails(p)
    \/ Tick

Spec == Init /\ [][Next]_vars

-----------------------------------------------------------------------------
IsNewest(p) == \A q \in 1..asked : keyOf[q] = keyOf[p] => q <= p

\* However counts expire, make room and come in late or not at all: what a page
\* finds cached for its key is the newest count that was asked for that key, and
\* has not failed; and while the newest count of a key has not failed, every
\* other page finds it, until its time is up or the cache is full.
CacheHoldsNewest ==
    /\ \A e \in cached :
         keyOf[e.promise] = e.key /\ IsNewest(e.promise) /\ outcome[e.promise] # "undefined"
    /\ \A p \in 1..asked :
         IsNewest(p) /\ outcome[p] # "undefined" =>
             p \in PromisesOf(cached) \cup dropped
=============================================================================
