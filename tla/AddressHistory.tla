---------------------------- MODULE AddressHistory ----------------------------
(***************************************************************************)
(* The Transactions tab of an address in the explorer: pages of the        *)
(* address's history reached with cursors (routes/_layout/address/         *)
(* $address.tsx, HistoryPagination) over the server's fetchAddressHistoryData *)
(* (lib/server/address-history.ts), while transactions arrive and filters  *)
(* change.  A transaction is its place in the history, 1 the oldest; its   *)
(* cursor is the transaction.                                              *)
(***************************************************************************)
EXTENDS Integers, FiniteSetsExt

CONSTANTS PAGE_SIZE, \* HISTORY_PAGE_SIZE
          TotalCap,  \* the API counts no further than this
          FirstCount, \* transactions when the page is opened
          MaxCount    \* bound: transactions of the model

NoCursor == 0 \* cursor === undefined, nextCursor === null
NoPage == -1  \* a page label, or a number of pages, that is undefined
NoTotal == -1 \* latestHistoryQuery has no total: it has no data, or a null one

Statuses == {"all", "success", "reverted"}
StatusOf(tx) == IF tx % 3 = 0 THEN "reverted" ELSE "success"

VARIABLES txCount,  \* transactions of the address
          status,   \* search.status
          position, \* [order, cursor] of the search parameters
          latestAt, \* the txCount when latestHistoryQuery's data was fetched
          dataAt,   \* the txCount when the data shown was fetched
          totalAt,  \* the txCount that latestHistoryQuery's total counts, or NoTotal
          label     \* addressHistoryPage of the router's state

vars == <<txCount, status, position, latestAt, dataAt, totalAt, label>>

-----------------------------------------------------------------------------
\* The server's answer for a position when the history has h transactions.
\* (The API behind it returns the first PAGE_SIZE matching transactions after
\* the cursor, in the order asked.)
Matching(h) == {tx \in 1..h : status \in {"all", StatusOf(tx)}}

Beyond(p, h) ==
    {tx \in Matching(h) : \/ p.cursor = NoCursor
                          \/ p.order = "desc" /\ tx < p.cursor
                          \/ p.order = "asc" /\ tx > p.cursor}

Rows(p, h) ==
    {tx \in Beyond(p, h) :
       Cardinality({other \in Beyond(p, h) :
                      IF p.order = "desc" THEN other > tx ELSE other < tx}) < PAGE_SIZE}

FirstOf(p, txs) == IF p.order = "desc" THEN Max(txs) ELSE Min(txs)
LastOf(p, txs)  == IF p.order = "desc" THEN Min(txs) ELSE Max(txs)

nextCursor(p, h) ==
    IF Rows(p, h) = Beyond(p, h) THEN NoCursor ELSE LastOf(p, Rows(p, h))
\* Faulty variant: back from the last row instead of the first.
reverseCursorOfLast(p, h) ==
    IF Rows(p, h) = {} THEN NoCursor ELSE LastOf(p, Rows(p, h))
reverseCursor(p, h) ==
    IF Rows(p, h) = {} THEN NoCursor ELSE FirstOf(p, Rows(p, h))

total == IF totalAt = NoTotal THEN NoTotal
                             ELSE Min({Cardinality(Matching(totalAt)), TotalCap})
countCapped == totalAt # NoTotal /\ Cardinality(Matching(totalAt)) > TotalCap

-----------------------------------------------------------------------------
\* What the page shows.
Latest == [order |-> "desc", cursor |-> NoCursor]
Oldest == [order |-> "asc", cursor |-> NoCursor]

Shown == Rows(position, dataAt)

isFirst == position = Latest
isLast  == position = Oldest
isOnlyPage ==
    position.cursor = NoCursor /\ nextCursor(position, dataAt) = NoCursor

\* Faulty variant: a page too many when the last one is full.
pageCountFloor ==
    IF total = NoTotal THEN NoPage ELSE Max({1, (total \div PAGE_SIZE) + 1})
PagesFor(n) == Max({1, (n + PAGE_SIZE - 1) \div PAGE_SIZE})
pageCount == IF total = NoTotal THEN NoPage ELSE PagesFor(total)
currentPage ==
    IF isFirst THEN 1 ELSE IF isLast /\ ~countCapped THEN pageCount ELSE label

\* getHistoryNavigation: a target whose cursor is NoCursor is a disabled link.
Previous ==
    [order |-> "asc",
     cursor |-> IF position.order = "asc" THEN nextCursor(position, dataAt)
                ELSE IF position.cursor = NoCursor THEN NoCursor
                ELSE reverseCursor(position, dataAt)]
NextPosition ==
    [order |-> "desc",
     cursor |-> IF position.order = "desc" THEN nextCursor(position, dataAt)
                ELSE IF position.cursor = NoCursor THEN NoCursor
                ELSE reverseCursor(position, dataAt)]

\* A page that a link leads to: a page links to a cursor only when it knows the
\* cursor's transaction and another one beyond it.
Linkable(p, h) ==
    p.cursor = NoCursor \/ (p.cursor \in Matching(h) /\ Beyond(p, h) # {})

-----------------------------------------------------------------------------
TypeOK ==
    /\ txCount \in FirstCount..MaxCount
    /\ status \in Statuses
    /\ position \in [order : {"asc", "desc"}, cursor : 0..MaxCount]
    /\ {latestAt, dataAt} \subseteq FirstCount..txCount
    /\ totalAt \in {NoTotal} \cup FirstCount..txCount
    /\ label \in {NoPage} \cup (Nat \ {0})

\* The page is opened at an URL, which is the latest page's or one that a link of
\* the page once led to; the state that holds the label is not part of it.
Init ==
    /\ txCount = FirstCount
    /\ status \in Statuses
    /\ position \in [order : {"asc", "desc"}, cursor : 0..MaxCount]
    /\ Linkable(position, txCount)
    /\ latestAt = txCount /\ dataAt = txCount
    /\ totalAt \in {NoTotal, txCount}
    /\ label = NoPage

Arrive ==
    /\ txCount < MaxCount
    /\ txCount' = txCount + 1
    /\ UNCHANGED <<status, position, latestAt, dataAt, totalAt, label>>

\* A link navigates.  The page may come from the query cache, where a visit or a
\* prefetch put it once a page linked to it.
Show(p, page) ==
    /\ position' = p
    /\ label' = page
    /\ \/ p = Latest /\ dataAt' = latestAt
       \/ p # Latest /\ \E h \in FirstCount..txCount : Linkable(p, h) /\ dataAt' = h
    /\ UNCHANGED <<txCount, status, latestAt, totalAt>>

GoFirst == ~isFirst /\ ~isOnlyPage /\ Show(Latest, 1)

GoPrevious ==
    /\ Previous.cursor # NoCursor
    /\ Show(Previous, IF currentPage = NoPage THEN NoPage
                                              ELSE Max({1, currentPage - 1}))

GoNext ==
    /\ NextPosition.cursor # NoCursor
    /\ Show(NextPosition, IF currentPage = NoPage THEN NoPage ELSE currentPage + 1)

GoLast ==
    /\ ~isLast /\ ~isOnlyPage
    /\ Show(Oldest, IF countCapped THEN NoPage ELSE pageCount)

\* setStatus: the filtered history is another query, perhaps cached.
SetStatus(s) ==
    /\ s # status
    /\ status' = s
    /\ position' = Latest
    /\ label' = NoPage
    /\ \E h \in FirstCount..txCount : latestAt' = h /\ dataAt' = h
    /\ \E h \in {NoTotal} \cup FirstCount..latestAt' : totalAt' = h
    /\ UNCHANGED txCount

\* Stale queries are fetched again; the count may come from historyTotalCache, or
\* fail, which leaves null.
RefetchLatest ==
    /\ latestAt' = txCount
    /\ dataAt' = IF isFirst THEN txCount ELSE dataAt
    /\ \E h \in {NoTotal} \cup {n \in FirstCount..txCount : n >= totalAt} : totalAt' = h
    /\ UNCHANGED <<txCount, status, position, label>>

RefetchSelected ==
    /\ ~isFirst
    /\ dataAt' = txCount
    /\ UNCHANGED <<txCount, status, position, latestAt, totalAt, label>>

Next ==
    \/ Arrive
    \/ GoFirst \/ GoPrevious \/ GoNext \/ GoLast
    \/ \E s \in Statuses : SetStatus(s)
    \/ RefetchLatest \/ RefetchSelected

Spec == Init /\ [][Next]_vars

-----------------------------------------------------------------------------
Follows(older, newer) ==
    /\ older # {} /\ newer # {}
    /\ \A o \in older, n \in newer : o < n
    /\ \A tx \in Matching(txCount) : ~(Max(older) < tx /\ tx < Min(newer))

\* getHistoryNavigation with nextCursor and reverseCursor: the page behind the
\* Next and Previous links touches the page left, without gap or overlap,
\* whichever way either was reached, whenever either was fetched and however
\* the history grew meanwhile.
TurnsToAdjoiningPage ==
    /\ GoNext => Follows(Shown', Shown)
    /\ GoPrevious => Follows(Shown, Shown')
PagesAdjoin == [][TurnsToAdjoiningPage]_vars

\* The label of HistoryPagination, when there is one.  While the history does not
\* grow, the page labelled 1 is the one that shows the newest transaction, the one
\* with the label of the last page shows the oldest, and no label lies outside
\* these, whether the page was opened at a cursor and whether the count is known.
\* However the history grows, a label of k says that more than k - 2 pages of
\* transactions are newer than those shown.
LabelsAgree ==
    currentPage # NoPage =>
        /\ txCount = FirstCount /\ Matching(txCount) # {} =>
              LET n == PagesFor(Cardinality(Matching(txCount)))
              IN  /\ currentPage \in 1..n
                  /\ currentPage = 1 <=> Max(Matching(txCount)) \in Shown
                  /\ currentPage = n <=> Min(Matching(txCount)) \in Shown
        /\ Shown # {} =>
              (currentPage - 2) * PAGE_SIZE
                < Cardinality({tx \in Matching(txCount) : tx > Max(Shown)})
=============================================================================
