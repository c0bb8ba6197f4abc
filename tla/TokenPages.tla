------------------------------ MODULE TokenPages ------------------------------
(***************************************************************************)
(* The holders and transfers of a token in the explorer, in numbered pages *)
(* (lib/server/token.ts, comps/Pagination.tsx): the total comes from token *)
(* details cached for a minute, or is inferred from the page, and is       *)
(* clamped to the window that the API can page through.                    *)
(***************************************************************************)
EXTENDS Integers, FiniteSetsExt

CONSTANTS Requests,  \* requests of one token, from any visitor
          limit,     \* rows of a page
          COUNT_CAP, \* TOKEN_COUNT_MAX
          CACHE_TTL,
          MaxFetch,  \* bound: ticks a call of the API takes
          MaxRows    \* bound: rows the API has

NoCount == -1 \* exactCount undefined: the details could not be fetched
Counts == {NoCount} \cup 0..MaxRows

VARIABLES details, \* tokenDetailsCache of the token: [count, read, stored], the
                   \* latter two in ticks since then
          request, \* request -> its two calls, which it awaits together
          answer   \* what the last step answered: its total and the age of its
                   \* count, Empty when it answered nothing

vars == <<details, request, answer>>

-----------------------------------------------------------------------------
maxNavigableRows == (COUNT_CAP \div limit) * limit

\* Faulty variant: the window is not cut to whole pages.
resolveTotalUnaligned(exactCount, exactCountCapped, page, rows, exhausted) ==
    IF exactCount # NoCount
    THEN [total |-> Min({exactCount, COUNT_CAP}), totalCapped |-> exactCount > COUNT_CAP]
    ELSE [total |-> COUNT_CAP, totalCapped |-> TRUE]

resolveTotal(exactCount, exactCountCapped, page, rows, exhausted) ==
    IF exactCount # NoCount
    THEN LET totalCapped == exactCountCapped \/ exactCount > maxNavigableRows
         IN [total |-> IF totalCapped THEN maxNavigableRows ELSE exactCount,
             totalCapped |-> totalCapped]
    ELSE IF exhausted
    THEN [total |-> LET seen == (page - 1) * limit + rows
                    IN IF seen > maxNavigableRows THEN maxNavigableRows ELSE seen,
          totalCapped |-> FALSE]
    ELSE [total |-> maxNavigableRows, totalCapped |-> TRUE]

\* The pages that the numbered pagination links to.
OfferedPages(total) == 1..((total + limit - 1) \div limit)

Requestable(page) == page * limit <= COUNT_CAP
Fresh == details.stored < CACHE_TTL

Idle == [pc |-> "idle"]
Empty == [total |-> 0, age |-> 0]
Pages == 1..((MaxRows \div limit) + 1)

\* lookup is getTokenDetails, feed the call for the page; count and read are of
\* the details, once they are read.
Waiting == [page : Pages, waited : 0..MaxFetch,
            lookup : {"asked", "fetched", "known"}, feed : {"asked", "here", "failed"},
            count : Counts, read : 0..(CACHE_TTL + 2 * MaxFetch)]

TypeOK ==
    /\ details \in [count : Counts, read : 0..(CACHE_TTL + MaxFetch),
                   stored : 0..CACHE_TTL]
    /\ \A r \in Requests : request[r] \in {Idle} \cup Waiting
    /\ answer.total \in 0..maxNavigableRows

Init ==
    /\ details = [count |-> NoCount, read |-> 0, stored |-> CACHE_TTL]
    /\ request = [r \in Requests |-> Idle]
    /\ answer = Empty

-----------------------------------------------------------------------------
Older(age, bound) == Min({age + 1, bound})

\* Time passes; a call of the API takes MaxFetch ticks at most.
Tick ==
    /\ \A r \in Requests : request[r] # Idle => request[r].waited < MaxFetch
    /\ details' = [details EXCEPT !.read = Older(@, CACHE_TTL + MaxFetch),
                                 !.stored = Older(@, CACHE_TTL)]
    /\ request' = [r \in Requests |->
         IF request[r] = Idle THEN Idle
         ELSE [request[r] EXCEPT !.waited = @ + 1,
                                 !.read = IF request[r].lookup = "asked" THEN @ ELSE @ + 1]]
    /\ answer' = Empty

\* The totals a request may answer for a page: what the API has of it is a full
\* page, the last one or an empty one.
Totals(exactCount, exactCountCapped, page) ==
    {resolveTotal(exactCount, exactCountCapped, page, limit, FALSE).total} \cup
    {resolveTotal(exactCount, exactCountCapped, page, rows, TRUE).total : rows \in 0..limit}
AccountTotals ==
    [page \in Pages |->
       UNION {Totals(count, capped, page) : count \in Counts, capped \in BOOLEAN}]

\* What a request answers when it knows the details and has its page: the total is
\* the details' or, in fetchTransfers of an account, the page's.
Answer(q) ==
    \/ \E total \in Totals(q.count, FALSE, q.page) :
         answer' = [total |-> total, age |-> q.read]
    \/ \E total \in AccountTotals[q.page], age \in 0..q.waited :
         answer' = [total |-> total, age |-> age]

\* Promise.all: a request answers when both of its calls are there.
Proceeds(r, q) ==
    \/ /\ q.lookup = "known" /\ q.feed = "here"
       /\ request' = [request EXCEPT ![r] = Idle]
       /\ Answer(q)
    \/ /\ q.lookup # "known" \/ q.feed # "here"
       /\ request' = [request EXCEPT ![r] = q]
       /\ answer' = Empty

\* fetchHolders or fetchTransfers: a page outside the window is empty; otherwise
\* the page is asked for, and the details as well unless they are cached, by
\* every request for itself.
Ask(r, page) ==
    /\ request[r] = Idle
    /\ \/ /\ ~Requestable(page)
          /\ answer' = Empty
          /\ UNCHANGED request
       \/ /\ Requestable(page)
          /\ request' = [request EXCEPT ![r] =
               [page |-> page, waited |-> 0, feed |-> "asked",
                lookup |-> IF Fresh THEN "known" ELSE "asked",
                count |-> IF Fresh THEN details.count ELSE NoCount,
                read |-> IF Fresh THEN details.read ELSE 0]]
          /\ answer' = Empty
    /\ UNCHANGED details

\* fetchAccountTransfers: the total, perhaps capped, comes with the page.  It
\* shares nothing with the other requests, and comes while none is under way.
AskForAccount(page) ==
    /\ \A r \in Requests : request[r] = Idle
    /\ \/ /\ ~Requestable(page)
          /\ answer' = Empty
       \/ /\ Requestable(page)
          /\ \E total \in AccountTotals[page], age \in 0..MaxFetch :
               answer' = [total |-> total, age |-> age]
    /\ UNCHANGED <<details, request>>

\* The API reads the details, or fails.
FetchDetails(r, count) ==
    /\ request[r] # Idle /\ request[r].lookup = "asked"
    /\ request' = [request EXCEPT ![r].lookup = "fetched", ![r].count = count]
    /\ answer' = Empty
    /\ UNCHANGED details

\* They arrive and are cached, failed or not, whatever is cached by now and
\* whatever has become of the page.
StoreDetails(r) ==
    /\ request[r] # Idle /\ request[r].lookup = "fetched"
    /\ details' = [count |-> request[r].count, read |-> request[r].read, stored |-> 0]
    /\ \/ /\ request[r].feed = "failed"
          /\ request' = [request EXCEPT ![r] = Idle]
          /\ answer' = Empty
       \/ /\ request[r].feed # "failed"
          /\ Proceeds(r, [request[r] EXCEPT !.lookup = "known"])

\* The page arrives.
PageArrives(r) ==
    /\ request[r] # Idle /\ request[r].feed = "asked"
    /\ Proceeds(r, [request[r] EXCEPT !.feed = "here"])
    /\ UNCHANGED details

\* The page fails: fetchHolders answers an empty page, fetchTransfers throws.
\* The lookup goes on.
PageFails(r) ==
    /\ request[r] # Idle /\ request[r].feed = "asked"
    /\ request' = [request EXCEPT ![r] =
         IF @.lookup = "known" THEN Idle ELSE [@ EXCEPT !.feed = "failed"]]
    /\ answer' = Empty
    /\ UNCHANGED details

Next ==
    \/ Tick
    \/ \E page \in Pages : AskForAccount(page)
    \/ \E r \in Requests :
         \/ \E page \in Pages : Ask(r, page)
         \/ \E count \in Counts : FetchDetails(r, count)
         \/ StoreDetails(r) \/ PageArrives(r) \/ PageFails(r)

Spec == Init /\ [][Next]_vars

-----------------------------------------------------------------------------
\* Whatever calls fail or overtake each other, every page that a total offers can
\* be requested ("Totals are clamped to the largest page-aligned row count inside
\* the API's positional window so every page the UI offers stays requestable",
\* token.ts), and no total is older than the cache's minute and two calls of the
\* API, the one that read its count and the one for the page it waited for; so
\* that a failed call hides the count no longer than that either.
TotalsAreSound ==
    /\ \A page \in OfferedPages(answer.total) : Requestable(page)
    /\ answer.age < CACHE_TTL + 2 * MaxFetch
=============================================================================
