------------------------------- MODULE Content -------------------------------
(***************************************************************************)
(* The workers that publish content, side by side: the documentation       *)
(* indexer, its synchronisation, which this module extends, and its        *)
(* search, of McpSearch, and the worker of the snapshot viewer with its    *)
(* cached pages, of SnapshotPages.  They share no state, so a behaviour is *)
(* one of a single part, chosen in the initial state.                      *)
(***************************************************************************)
EXTENDS DocsSync, Integers

CONSTANTS
    \* of McpSearch, where they are explained: its Requests are the questions
    Questions, Sources, Wanted, Raw, SEARCH_RESULT_CACHE_TTL, FILTER_FALLBACK_TTL,
    MaxTime,
    \* of SnapshotPages: its Requests are the visits, its MaxFaults MaxFailures
    Visits, Of, RECENT_SNAPSHOTS_PER_NETWORK, MaxBlock, MaxFailures

VARIABLES
    part,   \* "docs", "search" or "pages"
    now, sourceFilterFallbackUntil, searchResultCache, searchInFlight, asking,
    dirs, finished, stored, cache, cron, scan, request, failures

searchVars == <<now, sourceFilterFallbackUntil, searchResultCache, searchInFlight, asking>>
pageVars == <<dirs, finished, stored, cache, cron, scan, request, failures>>
partVars == <<searchVars, pageVars>>
allVars == <<part, vars, partVars>>

Q == INSTANCE McpSearch WITH request <- asking, Requests <- Questions, None <- Absent
P == INSTANCE SnapshotPages WITH
        complete <- finished, index <- stored, faults <- failures,
        Requests <- Visits, MaxFaults <- MaxFailures, None <- Absent

ASSUME ContentAssumption ==
    /\ Wanted \in [Questions -> SUBSET Sources]
    /\ SEARCH_RESULT_CACHE_TTL \in Nat \ {0} /\ FILTER_FALLBACK_TTL \in Nat
    /\ MaxTime \in Nat /\ Absent \notin Q!Searches
    /\ Of \in [Visits -> {"ui", "api"}]
    /\ MaxBlock \in Nat \ {0} /\ MaxFailures \in Nat

AllInit ==
    /\ part \in {"docs", "search", "pages"}
    /\ Init /\ (part # "docs" => \A p \in Pages : site[p] = Absent)
    /\ Q!Init
    /\ P!Init /\ (part # "pages" => stored = Absent)

AllNext ==
    /\ UNCHANGED part
    /\ \/ part = "docs" /\ Next /\ UNCHANGED partVars
       \/ part = "search" /\ Q!Next /\ UNCHANGED <<vars, pageVars>>
       \/ part = "pages" /\ P!Next /\ UNCHANGED <<vars, searchVars>>

\* A step of one of the two parts with liveness while its behaviour is followed
OfDocs(Step) == part = "docs" /\ Step /\ UNCHANGED <<part, partVars>>
OfPages(Step) == part = "pages" /\ Step /\ UNCHANGED <<part, vars, searchVars>>

\* A run of the indexer takes its steps, and there is a midnight every day.
\* The cron trigger of the viewer comes round, calls end, and what a request
\* or a scan has begun goes on.
Fairness ==
    /\ WF_allVars(OfDocs(Run)) /\ SF_allVars(OfDocs(Midnight))
    /\ WF_allVars(OfPages(P!Cron)) /\ WF_allVars(OfPages(P!Scan))
    /\ \A r \in Visits : WF_allVars(OfPages(P!Proceed(r)))

AllSpec == AllInit /\ [][AllNext]_allVars /\ Fairness

-----------------------------------------------------------------------------
\* Every part keeps to its types.
TypesOK == TypeOK /\ Q!TypeOK /\ P!TypeOK

\* The properties of the parts, stated in their modules
AnswersAreWanted == Q!AnswersAreWanted
PagesCatchUp == <>[](part = "pages" => P!ShowsRecent)
=============================================================================
