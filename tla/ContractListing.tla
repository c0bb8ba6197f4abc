--------------------------- MODULE ContractListing ---------------------------
(***************************************************************************)
(* GET /v2/contracts/:chainId of route.lookup.ts: the contracts of a chain, *)
(* a page at a time, out of two tables with orders of their own.  The      *)
(* cursor is the match id of a row of either: newest first the verified    *)
(* ones come before the native ones, oldest first behind them.  A client   *)
(* walks through the pages, one request after the other, while contracts   *)
(* are verified and native ones are seeded, also between the two SELECTs.  *)
(*                                                                         *)
(* Each table has ids in one order, numbers for verified contracts and     *)
(* UUIDs compared as text for native ones: here both are numbers.          *)
(***************************************************************************)
EXTENDS Integers, FiniteSets

CONSTANTS
    Chains,     \* the chains with contracts
    Chain,      \* the one that is listed
    Limits,     \* the page sizes that clients ask for
    MaxId       \* bound: the ids of a table

VARIABLES
    tables,     \* "verified" and "native": the chain of each row by its id
    query,      \* the sort order and the limit of the walk
    cursor,     \* afterMatchId
    selecting,  \* a request has selected the verified rows
    verifiedResults, \* those rows
    listed,     \* the rows that the client has got
    ended,      \* a page was not full
    atStart     \* the rows of the chain when the walk began

vars == <<tables, query, cursor, selecting, verifiedResults, listed, ended, atStart>>

Kinds   == {"verified", "native"}
Ids     == 1..MaxId
NoChain == "none"
NoCursor == [kind |-> "none", value |-> 0]
MatchIds == [kind : Kinds, value : Ids]

RowsOfChain == {m \in MatchIds : tables[m.kind][m.value] = Chain}

-----------------------------------------------------------------------------
Descending == query.sort = "desc"

\* Faulty variant: a cursor of the one table rules out the other.
QueriedOwn(kind) == cursor.kind \in {"none", kind}

\* Whether a table is asked at all: a cursor in the table that comes second
\* has the first one behind it.
Queried(kind) ==
    \/ cursor.kind \in {"none", kind}
    \/ (kind = "verified") # Descending

Beyond(m) ==
    cursor.kind = m.kind =>
        IF Descending THEN m.value < cursor.value ELSE m.value > cursor.value

\* Which of two rows the answer has first: each SELECT is sorted, and newest
\* first the verified rows are put before the native ones.
Before(a, b) ==
    IF a.kind = b.kind
    THEN IF Descending THEN a.value > b.value ELSE a.value < b.value
    ELSE (a.kind = "verified") = Descending

\* .limit(limitNum) and .slice(0, limitNum) of sorted rows
Limited(found) == {m \in found : Cardinality({n \in found : Before(n, m)}) < query.limit}

\* The SELECT on one table
Results(kind) == Limited({m \in RowsOfChain : m.kind = kind /\ Queried(kind) /\ Beyond(m)})

\* The answer of a request that has selected the verified rows
contracts == Limited(verifiedResults \cup Results("native"))

LastOf(page) == CHOOSE m \in page : \A n \in page \ {m} : Before(n, m)

-----------------------------------------------------------------------------
Init ==
    /\ tables \in [Kinds -> [Ids -> Chains \cup {NoChain}]]
    /\ \E n \in Ids \cup {0} : \A i \in Ids : (tables["verified"][i] # NoChain) <=> (i <= n)
    /\ query \in [sort : {"asc", "desc"}, limit : Limits]
    /\ selecting = FALSE /\ verifiedResults = {}
    /\ cursor = NoCursor /\ listed = {} /\ ended = FALSE
    /\ atStart = RowsOfChain

\* A request is two SELECTs one after the other.
SelectVerified ==
    /\ ~ended /\ ~selecting
    /\ selecting' = TRUE
    /\ verifiedResults' = Results("verified")
    /\ UNCHANGED <<tables, query, cursor, listed, ended, atStart>>

\* The second one and the answer, whose last match id is the cursor of the
\* client's next request if the page is full.
List ==
    /\ selecting
    /\ selecting' = FALSE /\ verifiedResults' = {}
    /\ listed' = listed \cup contracts
    /\ ended' = (Cardinality(contracts) < query.limit)
    /\ cursor' = IF contracts = {} THEN cursor ELSE LastOf(contracts)
    /\ UNCHANGED <<tables, query, atStart>>

\* A verification takes the next id, a seeded contract any.
Verify(chain) ==
    \E i \in Ids :
        /\ \A j \in Ids : (tables["verified"][j] # NoChain) <=> (j < i)
        /\ tables' = [tables EXCEPT !["verified"][i] = chain]
        /\ UNCHANGED <<query, cursor, selecting, verifiedResults, listed, ended, atStart>>

Seed(i, chain) ==
    /\ tables["native"][i] = NoChain
    /\ tables' = [tables EXCEPT !["native"][i] = chain]
    /\ UNCHANGED <<query, cursor, selecting, verifiedResults, listed, ended, atStart>>

Next ==
    \/ SelectVerified
    \/ List
    \/ \E chain \in Chains : Verify(chain)
    \/ \E i \in Ids, chain \in Chains : Seed(i, chain)

-----------------------------------------------------------------------------
TypeOK ==
    /\ tables \in [Kinds -> [Ids -> Chains \cup {NoChain}]]
    /\ query \in [sort : {"asc", "desc"}, limit : Limits]
    /\ cursor \in MatchIds \cup {NoCursor}
    /\ selecting \in BOOLEAN /\ verifiedResults \subseteq MatchIds
    /\ listed \subseteq MatchIds /\ ended \in BOOLEAN /\ atStart \subseteq MatchIds

\* A walk through the pages lists no contract of another chain and none twice
\* (what a page would have is not listed yet), and has listed every contract of
\* the chain that was there when it began once a page is not full, in either
\* order and whatever is written meanwhile.
WalkIsComplete ==
    /\ listed \subseteq RowsOfChain
    /\ selecting => contracts \cap listed = {}
    /\ ended => atStart \subseteq listed
=============================================================================
