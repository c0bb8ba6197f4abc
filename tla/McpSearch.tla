------------------------------- MODULE McpSearch -------------------------------
(***************************************************************************)
(* The search tool of apps/mcp-docs-indexer (src/lib/mcp.ts): requests of  *)
(* one query that want different sources, in one worker isolate.           *)
(*                                                                         *)
(* A search asks AI Search for the chunks of the wanted sources.  When     *)
(* that finds nothing, the source filter may be stale: it asks again       *)
(* without it, drops the chunks of other sources itself, and for a while   *)
(* every search for these sources does so at once.  A search for a single  *)
(* source that still has nothing reads the pages of the source.  Results   *)
(* are cached, and requests with the same key share a search in flight.    *)
(*                                                                         *)
(* A chunk is the source it is of.  What AI Search and the sources answer  *)
(* is theirs: any chunks, of the wanted sources if they were asked to      *)
(* filter, or an error.                                                    *)
(***************************************************************************)
EXTENDS Integers, FiniteSets

CONSTANTS
    Sources, Requests,
    Wanted,                     \* selectedSources of each request
    Raw,                        \* the requests with include_raw
    SEARCH_RESULT_CACHE_TTL, FILTER_FALLBACK_TTL,
    MaxTime,                    \* bound: the time that is followed
    None

VARIABLES
    now,
    sourceFilterFallbackUntil,
    searchResultCache,          \* by key: None or [chunks, found]
    searchInFlight,             \* by key: None or the step of its search
    request                     \* each request: where it is and what it got

vars == <<now, sourceFilterFallbackUntil, searchResultCache, searchInFlight, request>>

Time == 0..MaxTime
Keys == [sources : {Wanted[r] : r \in Requests}, filtered : BOOLEAN]
Results  == [chunks : SUBSET Sources, found : Time]
Searches == [step : {"primary", "fallback", "local"}, raw : BOOLEAN]
Progress == [pc : {"new", "waits", "done", "failed"}, key : Keys \cup {None},
             since : Time, answer : Results \cup {None}]
New  == [pc |-> "new", key |-> None, since |-> 0, answer |-> None]

-----------------------------------------------------------------------------
shouldSkipSourceFilter(sources) ==
    sources # {} /\ \A s \in sources : sourceFilterFallbackUntil[s] > now

searchCacheKey(sources) ==
    [sources |-> sources, filtered |-> ~shouldSkipSourceFilter(sources)]

isFresh(entry) == entry # None /\ entry.found + SEARCH_RESULT_CACHE_TTL > now

\* Faulty variant: what AI Search has found is taken as it is.
AllChunks(chunks, sources) == chunks

filterSourceChunks(chunks, sources) ==
    IF sources = {} THEN chunks ELSE chunks \intersect sources

-----------------------------------------------------------------------------
Init ==
    /\ now = 0
    /\ sourceFilterFallbackUntil = [s \in Sources |-> 0]
    /\ searchResultCache = [k \in Keys |-> None]
    /\ searchInFlight = [k \in Keys |-> None]
    /\ request = [r \in Requests |-> New]

Tick ==
    /\ now < MaxTime
    /\ now' = now + 1
    /\ UNCHANGED <<sourceFilterFallbackUntil, searchResultCache, searchInFlight, request>>

\* cachedSearch
Ask(r) ==
    LET key == searchCacheKey(Wanted[r])
        asked == [New EXCEPT !.key = key, !.since = now]
    IN  /\ request[r].pc = "new"
        /\ IF isFresh(searchResultCache[key])
           THEN /\ request' = [request EXCEPT ![r] =
                       [asked EXCEPT !.pc = "done", !.answer = searchResultCache[key]]]
                /\ UNCHANGED <<searchResultCache, searchInFlight>>
           ELSE /\ request' = [request EXCEPT ![r] = [asked EXCEPT !.pc = "waits"]]
                /\ searchResultCache' = [searchResultCache EXCEPT ![key] = None]
                /\ searchInFlight' = IF searchInFlight[key] # None THEN searchInFlight
                     ELSE [searchInFlight EXCEPT ![key] = [step |-> "primary", raw |-> r \in Raw]]
        /\ UNCHANGED <<now, sourceFilterFallbackUntil>>

\* runAndCacheSearch: the result is cached under the key that it was searched
\* with and the one that the marks have led to, and given to all who wait.
Answered(key, chunks, marks) ==
    LET result == [chunks |-> chunks, found |-> now]
        skips == key.sources # {} /\ \A s \in key.sources : marks[s] > now
        keys == {key, [key EXCEPT !.filtered = ~skips]}
    IN  /\ searchResultCache' = [k \in Keys |-> IF k \in keys THEN result
                                                ELSE searchResultCache[k]]
        /\ searchInFlight' = [searchInFlight EXCEPT ![key] = None]
        /\ request' = [r \in Requests |->
               IF request[r].pc = "waits" /\ request[r].key = key
               THEN [request[r] EXCEPT !.pc = "done", !.answer = result]
               ELSE request[r]]

\* The end of runSearch: localSourceSearch is for one source and cleaned text.
Found(key, chunks) ==
    IF chunks = {} /\ Cardinality(key.sources) = 1 /\ ~searchInFlight[key].raw
    THEN /\ searchInFlight' = [searchInFlight EXCEPT ![key].step = "local"]
         /\ UNCHANGED <<searchResultCache, request>>
    ELSE Answered(key, chunks, sourceFilterFallbackUntil)

\* runSearch: AI Search answers the first search; it is a filtered one unless
\* the filters of all the sources are taken as stale.
Primary(key, chunks) ==
    /\ searchInFlight[key] # None /\ searchInFlight[key].step = "primary"
    /\ key.filtered /\ key.sources # {} => chunks \subseteq key.sources
    /\ IF key.filtered /\ chunks = {} /\ key.sources # {}
       THEN /\ sourceFilterFallbackUntil' = [s \in Sources |->      \* rememberStaleSourceFilters
                   IF s \in key.sources THEN now + FILTER_FALLBACK_TTL
                   ELSE sourceFilterFallbackUntil[s]]
            /\ searchInFlight' = [searchInFlight EXCEPT ![key].step = "fallback"]
            /\ UNCHANGED <<searchResultCache, request>>
       ELSE /\ Found(key, IF key.filtered THEN chunks
                          ELSE filterSourceChunks(chunks, key.sources))
            /\ UNCHANGED sourceFilterFallbackUntil
    /\ UNCHANGED now

\* runSearch: the search without the filter
Fallback(key, chunks) ==
    /\ searchInFlight[key] # None /\ searchInFlight[key].step = "fallback"
    /\ Found(key, filterSourceChunks(chunks, key.sources))
    /\ UNCHANGED <<now, sourceFilterFallbackUntil>>

\* localSourceSearch: pages that cannot be read are passed over.
Local(key, chunks) ==
    /\ searchInFlight[key] # None /\ searchInFlight[key].step = "local"
    /\ chunks \subseteq key.sources
    /\ Answered(key, chunks, sourceFilterFallbackUntil)
    /\ UNCHANGED <<now, sourceFilterFallbackUntil>>

\* A call that fails ends the search with an error for all who wait.
Fail(key) ==
    /\ searchInFlight[key] # None
    /\ searchInFlight' = [searchInFlight EXCEPT ![key] = None]
    /\ request' = [r \in Requests |->
           IF request[r].pc = "waits" /\ request[r].key = key
           THEN [request[r] EXCEPT !.pc = "failed"] ELSE request[r]]
    /\ UNCHANGED <<now, sourceFilterFallbackUntil, searchResultCache>>

\* cacheSearchResult: another result takes the place of the oldest one.
Evict(key) ==
    /\ searchResultCache[key] # None
    /\ searchResultCache' = [searchResultCache EXCEPT ![key] = None]
    /\ UNCHANGED <<now, sourceFilterFallbackUntil, searchInFlight, request>>

Next ==
    \/ Tick
    \/ \E r \in Requests : Ask(r)
    \/ \E key \in Keys : Fail(key) \/ Evict(key)
    \/ \E key \in Keys, chunks \in SUBSET Sources :
           Primary(key, chunks) \/ Fallback(key, chunks) \/ Local(key, chunks)

Spec == Init /\ [][Next]_vars

-----------------------------------------------------------------------------
(* Properties *)

TypeOK ==
    /\ now \in Time
    /\ sourceFilterFallbackUntil \in [Sources -> 0..(MaxTime + FILTER_FALLBACK_TTL)]
    /\ searchResultCache \in [Keys -> Results \cup {None}]
    /\ searchInFlight \in [Keys -> Searches \cup {None}]
    /\ request \in [Requests -> Progress]

\* Whichever searches have marked a filter as stale, shared or cached what they
\* found, and under whichever key: a request is answered with chunks of the
\* sources it wants only, found after it came or within the time that a result
\* is kept for; and as long as it waits there is a search it waits for.
AnswersAreWanted ==
    \A r \in Requests :
        /\ request[r].pc = "done" =>
             /\ Wanted[r] # {} => request[r].answer.chunks \subseteq Wanted[r]
             /\ request[r].answer.found + SEARCH_RESULT_CACHE_TTL > request[r].since
        /\ request[r].pc = "waits" => searchInFlight[request[r].key] # None
=============================================================================
