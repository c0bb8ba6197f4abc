------------------------------ MODULE BlockFeed ------------------------------
(***************************************************************************)
(* The blocks page of the explorer (routes/_layout/blocks.tsx): a list of  *)
(* the newest blocks that a WebSocket subscription extends, frozen while   *)
(* the pointer is over it, and pages of older blocks reached by links.     *)
(* Blocks are their numbers.  A list of blocks is a set, shown newest      *)
(* first; the code sorts by number before it cuts the list.                *)
(***************************************************************************)
EXTENDS Integers, FiniteSetsExt

CONSTANTS BLOCKS_PER_PAGE, \* blocks of a page
          FirstHead,       \* the chain's newest block when the page is opened
          MaxHead          \* bound: the newest block of the model

Latest == -1 \* search.from == null: the page of the newest blocks

VARIABLES head,      \* the newest block of the chain
          from,      \* search.from
          live,      \* search.live ?? isAtLatest
          queries,   \* blocksQueryOptions: the head when the data of the page was
                     \* fetched, of the latest page and of the page shown
          latest,    \* latestBlockNumber, Latest when undefined
          liveBlocks,
          paused,
          pending,   \* pendingBlocksRef
          inbound,   \* blocks of the subscription on their way to onBlock
          seen       \* history: the blocks liveBlocks was ever offered

vars == <<head, from, live, queries, latest, liveBlocks, paused, pending,
          inbound, seen>>

Newest(n, blocks) ==
    {b \in blocks : Cardinality({c \in blocks : c > b}) < n}

\* blocksQueryOptions(start).queryFn when h is the newest block: blocks that do
\* not exist are dropped
Fetched(start, h) ==
    LET top == IF start = Latest THEN h ELSE start
    IN {b \in (top - BLOCKS_PER_PAGE + 1)..top : b \in 0..h}

isAtLatest == from = Latest
Subscribed == live /\ isAtLatest

\* blocks: what the grid shows
QueryData == IF isAtLatest THEN Fetched(Latest, queries.latest)
                           ELSE Fetched(from, queries.page)
Shown == IF isAtLatest /\ live /\ liveBlocks # {} THEN liveBlocks ELSE QueryData

TypeOK ==
    /\ head \in FirstHead..MaxHead
    /\ from \in Latest..(MaxHead + BLOCKS_PER_PAGE)
    /\ live \in BOOLEAN /\ paused \in BOOLEAN
    /\ queries \in [latest : Latest..MaxHead, page : Latest..MaxHead]
    /\ latest \in Latest..MaxHead
    /\ \A blocks \in {liveBlocks, pending, inbound, seen} :
         blocks \subseteq 0..MaxHead
    /\ Cardinality(liveBlocks) <= BLOCKS_PER_PAGE

Init ==
    /\ head = FirstHead
    /\ from \in {Latest, FirstHead - BLOCKS_PER_PAGE, FirstHead + BLOCKS_PER_PAGE}
    /\ live = (from = Latest)
    /\ queries = [latest |-> IF from = Latest THEN head ELSE Latest,
                  page |-> IF from = Latest THEN Latest ELSE head]
    /\ latest = Latest
    /\ liveBlocks = QueryData /\ seen = liveBlocks
    /\ paused = FALSE
    /\ pending = {} /\ inbound = {}

-----------------------------------------------------------------------------
\* The chain produces a block; a subscription hears of it and fetches it.
Produce ==
    /\ head < MaxHead
    /\ head' = head + 1
    /\ inbound' = IF Subscribed THEN inbound \cup {head'} ELSE inbound
    /\ UNCHANGED <<from, live, queries, latest, liveBlocks, paused, pending,
                   seen>>

\* setLiveBlocks of mergeBlocks
Merged(incoming) == Newest(BLOCKS_PER_PAGE, liveBlocks \cup incoming)

\* Faulty variant: a paused list takes blocks.
OnBlockIgnoresPause(b) ==
    /\ b \in inbound
    /\ inbound' = inbound \ {b}
    /\ latest' = IF b > latest THEN b ELSE latest
    /\ seen' = seen \cup {b}
    /\ pending' = {}
    /\ liveBlocks' = Merged(pending \cup {b})
    /\ UNCHANGED <<head, from, live, queries, paused>>

\* onBlock.  Each head is fetched on its own, so blocks arrive in any order.
OnBlock(b) ==
    /\ b \in inbound
    /\ inbound' = inbound \ {b}
    /\ latest' = IF b > latest THEN b ELSE latest
    /\ seen' = seen \cup {b}
    /\ \/ /\ paused
          /\ pending' = pending \cup {b}
          /\ UNCHANGED liveBlocks
       \/ /\ ~paused
          /\ pending' = {}
          /\ liveBlocks' = Merged(pending \cup {b})
    /\ UNCHANGED <<head, from, live, queries, paused>>

Pause ==
    /\ ~paused
    /\ paused' = TRUE
    /\ UNCHANGED <<head, from, live, queries, latest, liveBlocks, pending,
                   inbound, seen>>

\* Faulty variant: what came in meanwhile stays behind.
ResumeUnflushed ==
    /\ paused
    /\ paused' = FALSE
    /\ UNCHANGED <<head, from, live, queries, latest, liveBlocks, pending,
                   inbound, seen>>

\* The effect on [paused] flushes what arrived during the pause.
Resume ==
    /\ paused
    /\ paused' = FALSE
    /\ pending' = {}
    /\ liveBlocks' = Merged(pending)
    /\ UNCHANGED <<head, from, live, queries, latest, inbound, seen>>

\* The effect that re-initializes the list: only when it holds nothing
FillEmptyList ==
    /\ liveBlocks' = IF Subscribed' /\ liveBlocks = {} THEN QueryData'
                                                      ELSE liveBlocks
    /\ seen' = seen \cup liveBlocks'

\* The search parameters change once the router has the data of the page, which
\* may be cached since an earlier visit, and the effects run: a subscription
\* that ends drops what it was fetching, and an empty live list is filled.
Show(f, l) ==
    /\ from' = f /\ live' = l
    /\ \/ /\ f = Latest
          /\ queries' = [latest |-> IF queries.latest = Latest THEN head
                                                            ELSE queries.latest,
                         page |-> Latest]
       \/ /\ f # Latest
          /\ \E h \in FirstHead..head : queries' = [queries EXCEPT !.page = h]
    /\ inbound' = IF f = Latest /\ l THEN inbound ELSE {}
    /\ FillEmptyList
    /\ UNCHANGED <<head, latest, paused, pending>>

\* The links of BlocksPagination; all of them reset search.live.
displayedFrom == Max(Shown)
displayedEnd  == Min(Shown)

GoLatest == ~isAtLatest /\ Show(Latest, TRUE)
GoNewer  ==
    /\ ~isAtLatest
    /\ \/ Shown = {} /\ Show(Latest, TRUE)
       \/ Shown # {} /\ Show(displayedFrom + BLOCKS_PER_PAGE, FALSE)
GoOlder  == Shown # {} /\ displayedEnd > 0 /\ Show(displayedEnd - 1, FALSE)
GoOldest == (Shown # {} => displayedEnd # 0) /\ Show(BLOCKS_PER_PAGE - 1, FALSE)

\* The link in the header turns live updates off and on.
ToggleLive == Show(from, ~live)

\* useQuery fetches the data of the page again once it is stale.
Refetch ==
    /\ queries' = IF isAtLatest THEN [queries EXCEPT !.latest = head]
                               ELSE [queries EXCEPT !.page = head]
    /\ UNCHANGED <<head, from, live, latest, paused, pending, inbound>>
    /\ FillEmptyList

Next ==
    \/ Produce
    \/ \E b \in 0..MaxHead : OnBlock(b)
    \/ Pause \/ Resume
    \/ GoLatest \/ GoNewer \/ GoOlder \/ GoOldest
    \/ ToggleLive
    \/ Refetch

Spec == Init /\ [][Next]_vars

-----------------------------------------------------------------------------
\* mergeBlocks and the pause buffer lose no block: when the list is not frozen
\* it holds the newest blocks of all it was ever offered, in whatever order
\* they were fetched and however often it was frozen or left in between.
LiveListKeepsNewest == ~paused => liveBlocks = Newest(BLOCKS_PER_PAGE, seen)

\* "While paused (hover) we buffer incoming blocks and flush them on resume so
\* the view stays frozen" (blocks.tsx): as long as the pointer stays, nothing
\* that arrives and no navigation changes a live list that shows blocks.
KeepsFrozenList == paused /\ paused' /\ liveBlocks # {} => liveBlocks' = liveBlocks
FrozenWhilePaused == [][KeepsFrozenList]_vars

\* "Re-initialize when navigating back to latest with live mode" (blocks.tsx):
\* the page of the newest blocks never shows older blocks than its own query
\* has loaded.
LatestPageShowsLoaded ==
    isAtLatest => \A b \in QueryData : \E c \in Shown : c >= b
=============================================================================
