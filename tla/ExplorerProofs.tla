--------------------------- MODULE ExplorerProofs ---------------------------
(***************************************************************************)
(* Proofs about the parts of Explorer: for every size of a page, a cache,  *)
(* a batch and a history, the properties of the parts and their types.     *)
(* A part's invariant is inductive by itself, since no other part touches  *)
(* its variables; XAlways lifts it to the behaviours of all parts.         *)
(***************************************************************************)
EXTENDS Explorer, RpcQueueProofs, DataLemmas

-----------------------------------------------------------------------------
(* The blocks page.  Whatever is added to the list, to the buffer of a      *)
(* pause or to both at once, the newest of the two together stay those of   *)
(* all blocks that were offered; a list that is not frozen has no buffer.   *)

Numbers == 0..MaxHead

BlocksTyped ==
    /\ head \in FirstHead..MaxHead
    /\ from \in -1..(MaxHead + BLOCKS_PER_PAGE)
    /\ live \in BOOLEAN /\ paused \in BOOLEAN
    /\ queries \in [latest : -1..MaxHead, page : -1..MaxHead]
    /\ latest \in -1..MaxHead
    /\ liveBlocks \in SUBSET Numbers /\ pending \in SUBSET Numbers
    /\ inbound \in SUBSET Numbers /\ seen \in SUBSET Numbers

ListsAgree ==
    /\ liveBlocks \subseteq seen /\ pending \subseteq seen
    /\ Cardinality(liveBlocks) <= BLOCKS_PER_PAGE
    /\ Largest(BLOCKS_PER_PAGE, liveBlocks \cup pending) = Largest(BLOCKS_PER_PAGE, seen)
    /\ ~paused => pending = {}

BlocksInv == BlocksTyped /\ ListsAgree

LEMMA NumbersAreFinite ==
    ASSUME NEW bs \in SUBSET Numbers PROVE IsFiniteSet(bs) /\ bs \subseteq Int
  <1>1. MaxHead \in Int /\ 0 \in Int
    BY BlockAssumption
  <1>2. IsFiniteSet(Numbers)
    BY <1>1, FS_Interval DEF Numbers
  <1>3. bs \subseteq Int
    BY <1>1 DEF Numbers
  <1> QED BY <1>2, <1>3, FS_Subset

LEMMA NewestIsLargest == ASSUME NEW n, NEW bs PROVE B!Newest(n, bs) = Largest(n, bs)
  <1>1. ASSUME NEW x \in bs PROVE x \in B!Newest(n, bs) <=> x \in Largest(n, bs)
    <2>1. {c \in bs : c > x} = Above(x, bs)
      BY DEF Above
    <2>2. x \in B!Newest(n, bs) <=> B!Cardinality({c \in bs : c > x}) < n
      BY Zenon DEF B!Newest
    <2>3. B!Cardinality(Above(x, bs)) = Cardinality(Above(x, bs))
      BY Zenon DEF B!Cardinality, Cardinality, B!IsFiniteSet, IsFiniteSet
    <2> QED BY <2>1, <2>2, <2>3 DEF Largest
  <1>2. B!Newest(n, bs) \subseteq bs /\ Largest(n, bs) \subseteq bs
    BY Zenon DEF B!Newest, Largest
  <1> QED BY <1>1, <1>2

\* The newest of the blocks that are offered in the end are the newest of those
\* in the list and the buffer, if they were before.
LEMMA OfferedToBoth ==
    ASSUME NEW held \in SUBSET Numbers, NEW offered \in SUBSET Numbers,
           NEW more \in SUBSET Numbers,
           Largest(BLOCKS_PER_PAGE, held) = Largest(BLOCKS_PER_PAGE, offered)
    PROVE  Largest(BLOCKS_PER_PAGE, held \cup more)
             = Largest(BLOCKS_PER_PAGE, offered \cup more)
  <1>1. BLOCKS_PER_PAGE \in Nat
    BY BlockAssumption
  <1>2. /\ IsFiniteSet(held) /\ IsFiniteSet(offered) /\ IsFiniteSet(more)
        /\ held \subseteq Int /\ offered \subseteq Int /\ more \subseteq Int
    BY NumbersAreFinite
  <1>3. Largest(BLOCKS_PER_PAGE, Largest(BLOCKS_PER_PAGE, held) \cup more)
          = Largest(BLOCKS_PER_PAGE, held \cup more)
    BY <1>1, <1>2, LargestOfUnion
  <1>4. Largest(BLOCKS_PER_PAGE, Largest(BLOCKS_PER_PAGE, offered) \cup more)
          = Largest(BLOCKS_PER_PAGE, offered \cup more)
    BY <1>1, <1>2, LargestOfUnion
  <1> QED BY <1>3, <1>4

\* A page has no more blocks than it may have, and only such that exist.
LEMMA PageIsSmall ==
    ASSUME NEW first \in Int, NEW h \in -1..MaxHead
    PROVE  /\ B!Fetched(first, h) \in SUBSET Numbers
           /\ Cardinality(B!Fetched(first, h)) <= BLOCKS_PER_PAGE
  <1> DEFINE top == IF first = B!Latest THEN h ELSE first
             span == (top - BLOCKS_PER_PAGE + 1)..top
  <1>1. top \in Int /\ BLOCKS_PER_PAGE \in Nat /\ MaxHead \in Nat /\ h \in Int /\ h <= MaxHead
    BY BlockAssumption
  <1>2. B!Fetched(first, h) = {b \in span : b \in 0..h}
    BY DEF B!Fetched
  <1> HIDE DEF top
  <1>3. IsFiniteSet(span) /\ Cardinality(span) <= BLOCKS_PER_PAGE
    <2> DEFINE bottom == top - BLOCKS_PER_PAGE + 1
    <2>1. bottom \in Int /\ top - bottom + 1 = BLOCKS_PER_PAGE
      BY <1>1
    <2>2. span = bottom..top
      OBVIOUS
    <2> HIDE DEF bottom, span
    <2>3. IsFiniteSet(span) /\ Cardinality(span) = IF bottom > top THEN 0 ELSE top - bottom + 1
      BY <1>1, <2>1, <2>2, FS_Interval
    <2> QED BY <1>1, <2>1, <2>3
  <1>4. {b \in span : b \in 0..h} \in SUBSET span
    OBVIOUS
  <1>5. B!Fetched(first, h) \in SUBSET Numbers
    <2>1. 0..h \subseteq Numbers
      BY <1>1 DEF Numbers
    <2> QED BY <1>2, <2>1
  <1>6. Cardinality(B!Fetched(first, h)) <= Cardinality(span)
        /\ Cardinality(B!Fetched(first, h)) \in Nat /\ Cardinality(span) \in Nat
    BY <1>2, <1>3, <1>4, FS_Subset, FS_CardinalityType
  <1> QED BY <1>1, <1>3, <1>5, <1>6

LEMMA QueryDataIsPage ==
    ASSUME BlocksTyped
    PROVE  B!QueryData \in SUBSET Numbers /\ Cardinality(B!QueryData) <= BLOCKS_PER_PAGE
  <1>1. from \in Int /\ B!Latest \in Int /\ queries.latest \in -1..MaxHead
        /\ queries.page \in -1..MaxHead
    BY BlockAssumption DEF BlocksTyped, B!Latest
  <1> QED BY <1>1, PageIsSmall DEF B!QueryData

LEMMA BlocksInit == B!Init => BlocksInv
  <1> SUFFICES ASSUME B!Init PROVE BlocksInv
    OBVIOUS
  <1>1. /\ head \in FirstHead..MaxHead
        /\ from \in -1..(MaxHead + BLOCKS_PER_PAGE)
        /\ latest \in -1..MaxHead
    BY BlockAssumption DEF B!Init, B!Latest
  <1>2. live \in BOOLEAN /\ paused \in BOOLEAN /\ ~paused
    BY DEF B!Init
  <1>3. queries \in [latest : -1..MaxHead, page : -1..MaxHead]
    BY <1>1, BlockAssumption DEF B!Init, B!Latest
  <1>4. B!QueryData \in SUBSET Numbers /\ Cardinality(B!QueryData) <= BLOCKS_PER_PAGE
    <2>1. /\ from \in Int /\ B!Latest \in Int /\ queries.latest \in -1..MaxHead
          /\ queries.page \in -1..MaxHead
      BY <1>1, <1>3, BlockAssumption DEF B!Latest
    <2> QED BY <2>1, PageIsSmall DEF B!QueryData
  <1>5. liveBlocks = B!QueryData /\ seen = liveBlocks /\ pending = {} /\ inbound = {}
    BY DEF B!Init
  <1> QED BY <1>1, <1>2, <1>3, <1>4, <1>5 DEF BlocksInv, BlocksTyped, ListsAgree

\* An empty list that is filled anew keeps what the buffer holds.
LEMMA FillKeeps ==
    ASSUME BlocksInv, B!FillEmptyList, UNCHANGED <<pending, paused>>,
           from' \in Int, queries' \in [latest : -1..MaxHead, page : -1..MaxHead]
    PROVE  /\ ListsAgree'
           /\ liveBlocks' \in SUBSET Numbers /\ seen' \in SUBSET Numbers
  <1>1. B!QueryData' \in SUBSET Numbers /\ Cardinality(B!QueryData') <= BLOCKS_PER_PAGE
    BY PageIsSmall, BlockAssumption DEF B!QueryData, B!Latest
  <1>2. /\ liveBlocks' = IF B!Subscribed' /\ liveBlocks = {} THEN B!QueryData' ELSE liveBlocks
        /\ seen' = seen \cup liveBlocks'
    BY DEF B!FillEmptyList
  <1>3. /\ liveBlocks \in SUBSET Numbers /\ pending \in SUBSET Numbers
        /\ seen \in SUBSET Numbers
        /\ liveBlocks \subseteq seen /\ pending \subseteq seen
        /\ Cardinality(liveBlocks) <= BLOCKS_PER_PAGE
        /\ Largest(BLOCKS_PER_PAGE, liveBlocks \cup pending) = Largest(BLOCKS_PER_PAGE, seen)
        /\ (~paused => pending = {})
    BY DEF BlocksInv, BlocksTyped, ListsAgree
  <1>4. CASE liveBlocks' = liveBlocks
    <2>1. seen' = seen
      BY <1>2, <1>3, <1>4
    <2> QED BY <1>3, <1>4, <2>1 DEF ListsAgree
  <1>5. CASE liveBlocks = {} /\ liveBlocks' = B!QueryData'
    <2>1. Largest(BLOCKS_PER_PAGE, pending) = Largest(BLOCKS_PER_PAGE, seen)
      BY <1>3, <1>5
    <2>2. Largest(BLOCKS_PER_PAGE, pending \cup liveBlocks')
            = Largest(BLOCKS_PER_PAGE, seen \cup liveBlocks')
      <3>1. liveBlocks' \in SUBSET Numbers
        BY <1>1, <1>5
      <3> HIDE DEF Numbers
      <3> QED BY <1>3, <2>1, <3>1, OfferedToBoth
    <2>3. liveBlocks' \cup pending' = pending \cup liveBlocks'
      OBVIOUS
    <2> QED BY <1>1, <1>2, <1>3, <1>5, <2>2, <2>3 DEF ListsAgree
  <1> QED BY <1>2, <1>4, <1>5

\* What is merged is the newest of the list and what comes to it.
LEMMA MergeKeeps ==
    ASSUME BlocksInv, NEW incoming \in SUBSET Numbers, NEW offered \in SUBSET Numbers,
           liveBlocks \cup incoming \subseteq offered,
           Largest(BLOCKS_PER_PAGE, liveBlocks \cup incoming)
             = Largest(BLOCKS_PER_PAGE, offered),
           liveBlocks' = B!Merged(incoming), seen' = offered, pending' = {}
    PROVE  ListsAgree' /\ liveBlocks' \in SUBSET Numbers
  <1>0. BLOCKS_PER_PAGE \in Nat
    BY BlockAssumption
  <1> DEFINE held == liveBlocks \cup incoming
  <1>1. held \in SUBSET Numbers
    BY DEF BlocksInv, BlocksTyped
  <1>2. IsFiniteSet(held) /\ held \subseteq Int
    BY <1>1, NumbersAreFinite
  <1>3. liveBlocks' = Largest(BLOCKS_PER_PAGE, held)
    BY NewestIsLargest DEF B!Merged
  <1> HIDE DEF held
  <1>4. /\ liveBlocks' \subseteq held /\ IsFiniteSet(liveBlocks')
        /\ Cardinality(liveBlocks') <= BLOCKS_PER_PAGE
    BY <1>0, <1>2, <1>3, LargestAreFew
  <1>5. liveBlocks' \subseteq Int
    BY <1>2, <1>4
  <1>6. Largest(BLOCKS_PER_PAGE, liveBlocks') = liveBlocks'
    BY <1>0, <1>4, <1>5, FewAreLargest
  <1>7. liveBlocks' \cup pending' = liveBlocks'
    OBVIOUS
  <1>8. liveBlocks' \subseteq seen'
    BY <1>4 DEF held
  <1> QED BY <1>1, <1>3, <1>4, <1>6, <1>7, <1>8 DEF ListsAgree, held

LEMMA OnBlockKeeps ==
    ASSUME BlocksInv, NEW b \in Numbers, B!OnBlock(b) PROVE BlocksInv'
  <1>0. /\ liveBlocks \in SUBSET Numbers /\ pending \in SUBSET Numbers
        /\ seen \in SUBSET Numbers /\ b \in Numbers /\ b \in Int
        /\ liveBlocks \subseteq seen /\ pending \subseteq seen
        /\ Largest(BLOCKS_PER_PAGE, liveBlocks \cup pending) = Largest(BLOCKS_PER_PAGE, seen)
    BY BlockAssumption DEF BlocksInv, BlocksTyped, ListsAgree, Numbers
  <1>1. Largest(BLOCKS_PER_PAGE, (liveBlocks \cup pending) \cup {b})
          = Largest(BLOCKS_PER_PAGE, seen \cup {b})
    <2>1. {b} \in SUBSET Numbers /\ liveBlocks \cup pending \in SUBSET Numbers
      BY <1>0
    <2>2. /\ seen \in SUBSET Numbers
          /\ Largest(BLOCKS_PER_PAGE, liveBlocks \cup pending) = Largest(BLOCKS_PER_PAGE, seen)
      BY <1>0
    <2> HIDE DEF Numbers
    <2> QED BY <2>1, <2>2, OfferedToBoth
  <1>2. /\ seen' = seen \cup {b} /\ inbound' = inbound \ {b}
        /\ latest' \in {b, latest}
        /\ UNCHANGED <<head, from, live, queries, paused>>
    BY DEF B!OnBlock
  <1>3. latest' \in -1..MaxHead
    BY <1>2, BlockAssumption DEF BlocksInv, BlocksTyped, Numbers
  <1>4. CASE paused /\ pending' = pending \cup {b} /\ UNCHANGED liveBlocks
    <2>1. liveBlocks' \cup pending' = (liveBlocks \cup pending) \cup {b}
      BY <1>4
    <2>2. ListsAgree'
      BY <1>0, <1>1, <1>2, <1>4, <2>1 DEF ListsAgree, BlocksInv
    <2> QED BY <1>0, <1>2, <1>3, <1>4, <2>2 DEF BlocksInv, BlocksTyped
  <1>5. CASE pending' = {} /\ liveBlocks' = B!Merged(pending \cup {b})
    <2>1. liveBlocks \cup (pending \cup {b}) = (liveBlocks \cup pending) \cup {b}
      OBVIOUS
    <2>2. ListsAgree' /\ liveBlocks' \in SUBSET Numbers
      BY <1>0, <1>1, <1>2, <1>5, <2>1, MergeKeeps
    <2> QED BY <1>0, <1>2, <1>3, <1>5, <2>2 DEF BlocksInv, BlocksTyped
  <1> QED BY <1>4, <1>5 DEF B!OnBlock

LEMMA ResumeKeeps == ASSUME BlocksInv, B!Resume PROVE BlocksInv'
  <1>1. /\ liveBlocks \in SUBSET Numbers /\ pending \in SUBSET Numbers
        /\ seen \in SUBSET Numbers
        /\ liveBlocks \subseteq seen /\ pending \subseteq seen
        /\ Largest(BLOCKS_PER_PAGE, liveBlocks \cup pending) = Largest(BLOCKS_PER_PAGE, seen)
    BY DEF BlocksInv, BlocksTyped, ListsAgree
  <1>2. /\ paused' = FALSE /\ pending' = {} /\ liveBlocks' = B!Merged(pending)
        /\ UNCHANGED <<head, from, live, queries, latest, inbound, seen>>
    BY DEF B!Resume
  <1>3. ListsAgree' /\ liveBlocks' \in SUBSET Numbers
    BY <1>1, <1>2, MergeKeeps
  <1> QED BY <1>1, <1>2, <1>3 DEF BlocksInv, BlocksTyped

\* A step to another page, or a new reading of the one shown
LEMMA ShowKeeps ==
    ASSUME BlocksInv, NEW f \in -1..(MaxHead + BLOCKS_PER_PAGE), NEW l \in BOOLEAN,
           B!Show(f, l)
    PROVE  BlocksInv'
  <1>1. /\ head \in -1..MaxHead /\ \A h \in FirstHead..head : h \in -1..MaxHead
    BY BlockAssumption DEF BlocksInv, BlocksTyped
  <1>2. /\ from' = f /\ live' = l /\ B!FillEmptyList
        /\ UNCHANGED <<head, latest, paused, pending>>
        /\ inbound' \in {inbound, {}}
    BY DEF B!Show
  <1>3. queries' \in [latest : -1..MaxHead, page : -1..MaxHead]
    <2>1. queries \in [latest : -1..MaxHead, page : -1..MaxHead] /\ -1 \in -1..MaxHead
      BY BlockAssumption DEF BlocksInv, BlocksTyped
    <2>2. CASE queries' = [latest |-> IF queries.latest = B!Latest THEN head
                                                            ELSE queries.latest,
                           page |-> B!Latest]
      BY <1>1, <2>1, <2>2 DEF B!Latest
    <2>3. ASSUME NEW h \in FirstHead..head, queries' = [queries EXCEPT !.page = h]
          PROVE  queries' \in [latest : -1..MaxHead, page : -1..MaxHead]
      BY <1>1, <2>1, <2>3
    <2> QED BY <2>2, <2>3 DEF B!Show
  <1>4. from' \in Int
    BY <1>2, BlockAssumption
  <1>5. ListsAgree' /\ liveBlocks' \in SUBSET Numbers /\ seen' \in SUBSET Numbers
    BY <1>2, <1>3, <1>4, FillKeeps
  <1> QED BY <1>2, <1>3, <1>5 DEF BlocksInv, BlocksTyped

\* What the grid shows exists, and its ends are of it.
LEMMA ShownExists ==
    ASSUME BlocksInv, B!Shown # {}
    PROVE  B!displayedFrom \in Numbers /\ B!displayedEnd \in Numbers
  <1>1. B!Shown \in SUBSET Numbers
    BY QueryDataIsPage DEF B!Shown, BlocksInv, BlocksTyped
  <1>2. IsFiniteSet(B!Shown) /\ B!Shown \subseteq Int
    BY <1>1, NumbersAreFinite
  <1>3. (\E m \in B!Shown : \A x \in B!Shown : x <= m)
        /\ (\E m \in B!Shown : \A x \in B!Shown : m <= x)
    BY <1>2, GreatestExists, LeastExists
  <1>4. B!displayedFrom \in B!Shown
    <2>1. B!displayedFrom = CHOOSE x \in B!Shown : \A y \in B!Shown : x >= y
      BY DEF B!displayedFrom, B!Max
    <2>2. \E x \in B!Shown : \A y \in B!Shown : x >= y
      BY <1>2, <1>3
    <2> QED BY <2>1, <2>2
  <1>5. B!displayedEnd \in B!Shown
    <2>1. B!displayedEnd = CHOOSE x \in B!Shown : \A y \in B!Shown : x =< y
      BY DEF B!displayedEnd, B!Min
    <2> QED BY <1>3, <2>1
  <1> QED BY <1>1, <1>4, <1>5

LEMMA LinkKeeps ==
    ASSUME BlocksInv,
           B!GoLatest \/ B!GoNewer \/ B!GoOlder \/ B!GoOldest \/ B!ToggleLive
    PROVE  BlocksInv'
  <1>0. /\ -1 \in -1..(MaxHead + BLOCKS_PER_PAGE)
        /\ BLOCKS_PER_PAGE - 1 \in -1..(MaxHead + BLOCKS_PER_PAGE)
        /\ \A b \in Numbers : /\ b + BLOCKS_PER_PAGE \in -1..(MaxHead + BLOCKS_PER_PAGE)
                              /\ b - 1 \in -1..(MaxHead + BLOCKS_PER_PAGE)
    BY BlockAssumption DEF Numbers
  <1>1. CASE B!GoLatest
    BY <1>0, <1>1, ShowKeeps DEF B!GoLatest, B!Latest
  <1>2. CASE B!GoNewer
    <2>1. CASE B!Shown = {} /\ B!Show(B!Latest, TRUE)
      BY <1>0, <2>1, ShowKeeps DEF B!Latest
    <2>2. CASE B!Shown # {} /\ B!Show(B!displayedFrom + BLOCKS_PER_PAGE, FALSE)
      BY <1>0, <2>2, ShowKeeps, ShownExists
    <2> QED BY <1>2, <2>1, <2>2 DEF B!GoNewer
  <1>3. CASE B!GoOlder
    BY <1>0, <1>3, ShowKeeps, ShownExists DEF B!GoOlder
  <1>4. CASE B!GoOldest
    BY <1>0, <1>4, ShowKeeps DEF B!GoOldest
  <1>5. CASE B!ToggleLive
    <2>1. from \in -1..(MaxHead + BLOCKS_PER_PAGE)
      BY DEF BlocksInv, BlocksTyped
    <2>2. (~live) \in BOOLEAN
      BY Zenon
    <2> QED BY <1>5, <2>1, <2>2, ShowKeeps DEF B!ToggleLive
  <1> QED BY <1>1, <1>2, <1>3, <1>4, <1>5

LEMMA RefetchKeeps == ASSUME BlocksInv, B!Refetch PROVE BlocksInv'
  <1>1. head \in -1..MaxHead
    BY BlockAssumption DEF BlocksInv, BlocksTyped
  <1>2. /\ B!FillEmptyList
        /\ UNCHANGED <<head, from, live, latest, paused, pending, inbound>>
    BY DEF B!Refetch
  <1>3. queries' \in [latest : -1..MaxHead, page : -1..MaxHead]
    BY <1>1 DEF B!Refetch, BlocksInv, BlocksTyped
  <1>4. from' \in Int
    BY <1>2, BlockAssumption DEF BlocksInv, BlocksTyped
  <1>5. ListsAgree' /\ liveBlocks' \in SUBSET Numbers /\ seen' \in SUBSET Numbers
    BY <1>2, <1>3, <1>4, FillKeeps
  <1> QED BY <1>2, <1>3, <1>5 DEF BlocksInv, BlocksTyped

LEMMA BlocksNext == BlocksInv /\ [B!Next]_(B!vars) => BlocksInv'
  <1> SUFFICES ASSUME BlocksInv, [B!Next]_(B!vars) PROVE BlocksInv'
    OBVIOUS
  <1>1. CASE B!Produce
    <2>1. head' \in FirstHead..MaxHead /\ head' \in Numbers
      BY <1>1, BlockAssumption DEF B!Produce, BlocksInv, BlocksTyped, Numbers
    <2>2. inbound' \in SUBSET Numbers
      BY <1>1, <2>1 DEF B!Produce, BlocksInv, BlocksTyped
    <2> QED BY <1>1, <2>1, <2>2 DEF B!Produce, BlocksInv, BlocksTyped, ListsAgree
  <1>2. ASSUME NEW b \in 0..MaxHead, B!OnBlock(b) PROVE BlocksInv'
    BY <1>2, OnBlockKeeps DEF Numbers
  <1>3. CASE B!Pause
    BY <1>3 DEF B!Pause, BlocksInv, BlocksTyped, ListsAgree
  <1>4. CASE UNCHANGED B!vars
    BY <1>4 DEF B!vars, BlocksInv, BlocksTyped, ListsAgree
  <1> QED BY <1>1, <1>2, <1>3, <1>4, ResumeKeeps, LinkKeeps, RefetchKeeps DEF B!Next

LEMMA BlocksAlways == AllSpec => []BlocksInv
  <1>1. AllInit => BlocksInv
    BY BlocksInit DEF AllInit
  <1>2. BlocksInv /\ [AllNext]_allVars => BlocksInv'
    <2>1. [AllNext]_allVars => [B!Next]_(B!vars)
      BY Zenon DEF AllNext, allVars, partVars, blockVars, B!vars
    <2> QED BY <2>1, BlocksNext
  <1> QED BY <1>1, <1>2, PTL DEF AllSpec

\* mergeBlocks and the buffer of a pause lose no block: for pages of any size, a
\* list that is not frozen holds the newest of all the blocks it was offered, in
\* whatever order they were fetched and however often it was frozen or left.
THEOREM LiveListStaysNewest == AllSpec => []LiveListKeepsNewest
  <1>1. BlocksInv => LiveListKeepsNewest
    <2> SUFFICES ASSUME BlocksInv, ~paused
                 PROVE  liveBlocks = B!Newest(BLOCKS_PER_PAGE, seen)
      BY DEF LiveListKeepsNewest, B!LiveListKeepsNewest
    <2>1. liveBlocks \cup pending = liveBlocks
      BY DEF BlocksInv, ListsAgree
    <2>2. IsFiniteSet(liveBlocks) /\ liveBlocks \subseteq Int
      BY NumbersAreFinite DEF BlocksInv, BlocksTyped
    <2>3. Largest(BLOCKS_PER_PAGE, liveBlocks) = liveBlocks
      BY <2>2, FewAreLargest, BlockAssumption DEF BlocksInv, ListsAgree
    <2>4. liveBlocks = Largest(BLOCKS_PER_PAGE, seen)
      BY <2>1, <2>3 DEF BlocksInv, ListsAgree
    <2> QED BY <2>4, NewestIsLargest
  <1> QED BY <1>1, BlocksAlways, PTL

\* As long as the pointer stays over a list that shows blocks, nothing changes it:
\* no block that arrives, no page that is opened and no data that is fetched.
THEOREM PausedListIsFrozen == AllSpec => FrozenWhilePaused
  <1>1. [AllNext]_allVars => [B!KeepsFrozenList]_allVars
    <2> SUFFICES ASSUME [AllNext]_allVars, paused, paused', liveBlocks # {}
                 PROVE  liveBlocks' = liveBlocks
      BY DEF B!KeepsFrozenList
    <2>1. [B!Next]_(B!vars)
      BY Zenon DEF AllNext, allVars, partVars, blockVars, B!vars
    <2>2. B!FillEmptyList => liveBlocks' = liveBlocks
      BY DEF B!FillEmptyList
    <2> QED
      BY <2>1, <2>2 DEF B!Next, B!vars, B!Produce, B!OnBlock, B!Pause, B!Resume, B!GoLatest,
         B!GoNewer, B!GoOlder, B!GoOldest, B!ToggleLive, B!Refetch, B!Show
  <1> QED BY <1>1, PTL DEF AllSpec, FrozenWhilePaused

-----------------------------------------------------------------------------
(* The search for a creation block.  high never falls below the creation    *)
(* block, and low stays at or below the first block with code, of those     *)
(* from 1 on, as long as no call fails.                                     *)

\* The block that has been found is one with the code, and the first of those
\* when no call failed.
FoundIsCreation ==
    pc = "block" => /\ C!HasCode(low)
                    /\ ~failed => low = C!FirstWithCode

\* The search works on blocks of the chain.
InChain == pc = "search" => low <= high + 1 /\ high <= latestBlock

CreationInv == C!TypeOK /\ C!Bracketed /\ InChain /\ FoundIsCreation /\ C!CachedIsCreation

\* The middle that a round probes lies below the end of the bracket.
LEMMA MiddleIsInside ==
    ASSUME NEW l \in Nat, NEW h \in Nat, l < h
    PROVE  /\ (l + h) \div 2 \in Nat
           /\ l <= (l + h) \div 2
           /\ (l + h) \div 2 < h
  OBVIOUS

LEMMA CreationInit == C!Init => CreationInv
  <1> SUFFICES ASSUME C!Init PROVE CreationInv
    OBVIOUS
  <1>1. failed \in BOOLEAN /\ clean \in BOOLEAN
    BY Zenon DEF C!Init
  <1>2. /\ latestBlock = 0 /\ created \in {-1, 0} /\ pc = "idle" /\ low = 1 /\ high = 1
        /\ creationCache = -1
    BY CreationAssumption DEF C!Init, C!NoBlock
  <1> QED BY CreationAssumption, <1>1, <1>2 DEF CreationInv, C!TypeOK, C!Bracketed, InChain, FoundIsCreation,
                            C!CachedIsCreation, C!NoBlock, C!HasCode, C!FirstWithCode

\* One round keeps the creation block in the bracket.
LEMMA ProbeKeeps ==
    ASSUME CreationInv, NEW fails \in BOOLEAN,
           C!Probe(fails)
    PROVE  CreationInv'
  <1>1. low \in Nat /\ high \in Nat /\ low < high
    BY CreationAssumption DEF C!Probe, CreationInv, C!TypeOK
  <1>2. C!mid \in Nat /\ low <= C!mid /\ C!mid < high
    BY CreationAssumption, <1>1, MiddleIsInside DEF C!mid
  <1>3. CASE C!HasCode(C!mid) /\ ~fails
    BY CreationAssumption, <1>1, <1>2, <1>3 DEF C!Probe, CreationInv, C!TypeOK, C!Bracketed, InChain, FoundIsCreation,
                           C!CachedIsCreation, C!HasCode, C!NoBlock, C!FirstWithCode
  <1>4. CASE ~(C!HasCode(C!mid) /\ ~fails)
    BY CreationAssumption, <1>1, <1>2, <1>4 DEF C!Probe, CreationInv, C!TypeOK, C!Bracketed, InChain, FoundIsCreation,
                           C!CachedIsCreation, C!HasCode, C!NoBlock, C!FirstWithCode
  <1> QED BY CreationAssumption, <1>3, <1>4

\* The batch finds the first block that has the code, if no call fails.
LEMMA BatchKeeps ==
    ASSUME CreationInv, NEW failing \in SUBSET (low..high), C!Batch(failing)
    PROVE  CreationInv'
  <1>0. /\ pc = "search" /\ latestBlock \in 0..MaxBlock /\ created \in 0..latestBlock
        /\ low \in 1..MaxBlock /\ high \in 0..MaxBlock
        /\ created <= high /\ (~failed => low <= C!FirstWithCode)
    BY CreationAssumption DEF C!Batch, CreationInv, C!TypeOK, C!Bracketed, InChain, C!NoBlock
  <1>1. ASSUME NEW b \in low..high, C!HasCode(b), b \notin failing,
               \A c \in low..(b - 1) : ~C!HasCode(c) \/ c \in failing,
               low' = b, high' = b, pc' = "block"
        PROVE  CreationInv'
    <2>1. /\ failed' = (failed \/ failing # {})
          /\ UNCHANGED <<latestBlock, created, creationCache, clean>>
      BY CreationAssumption DEF C!Batch
    <2>2. ~failed' => b = C!FirstWithCode
      <3> SUFFICES ASSUME ~failed' PROVE b = C!FirstWithCode
        OBVIOUS
      <3>1. failing = {} /\ low <= C!FirstWithCode
        BY <2>1, <1>0
      <3>2. C!FirstWithCode \in Nat /\ C!FirstWithCode <= b
        BY <1>0, <1>1, CreationAssumption DEF C!HasCode, C!FirstWithCode
      <3>3. C!HasCode(C!FirstWithCode)
        BY <1>0, CreationAssumption DEF C!HasCode, C!NoBlock, C!FirstWithCode
      <3>4. ~(C!FirstWithCode \in low..(b - 1))
        BY <3>1, <3>3, <1>1
      <3> QED BY <1>0, <3>1, <3>2, <3>4, CreationAssumption
    <2> QED BY CreationAssumption, <1>0, <1>1, <2>1, <2>2 DEF CreationInv, C!TypeOK, C!Bracketed, InChain,
            FoundIsCreation, C!CachedIsCreation, C!HasCode, C!NoBlock, C!FirstWithCode
  <1>2. ASSUME pc' = "idle", UNCHANGED <<low, high>>
        PROVE  CreationInv'
    BY CreationAssumption, <1>0, <1>2 DEF C!Batch, CreationInv, C!TypeOK, C!Bracketed, InChain, FoundIsCreation,
                     C!CachedIsCreation, C!HasCode, C!NoBlock, C!FirstWithCode
  <1> QED BY CreationAssumption, <1>1, <1>2 DEF C!Batch

LEMMA CreationNext ==
    ASSUME CreationInv, [C!Next]_(C!vars)
    PROVE  CreationInv'
  <1> USE DEF CreationInv, C!TypeOK, C!Bracketed, InChain, FoundIsCreation, C!CachedIsCreation,
              C!HasCode, C!NoBlock, C!FirstWithCode
  <1>1. CASE C!NewBlock
    BY CreationAssumption, <1>1 DEF C!NewBlock
  <1>2. CASE C!Start
    <2>1. failed' \in BOOLEAN /\ ~failed'
      BY <1>2, Zenon DEF C!Start
    <2>2. /\ pc' = "search" /\ low' = 1 /\ high' = latestBlock
          /\ C!HasCode(latestBlock)
          /\ UNCHANGED <<latestBlock, created, creationCache, clean>>
      BY CreationAssumption, <1>2 DEF C!Start
    <2> QED BY CreationAssumption, <2>1, <2>2
  <1>3. ASSUME NEW fails \in BOOLEAN, C!Probe(fails) PROVE CreationInv'
    BY CreationAssumption, <1>3, ProbeKeeps
  <1>4. ASSUME NEW failing \in SUBSET (low..high), C!Batch(failing) PROVE CreationInv'
    BY CreationAssumption, <1>4, BatchKeeps
  <1>5. CASE C!CacheCreation
    <2>1. clean' \in BOOLEAN /\ (clean' <=> ~failed)
      BY <1>5, Zenon DEF C!CacheCreation
    <2>2. /\ pc = "block" /\ pc' = "idle" /\ creationCache' = low
          /\ UNCHANGED <<latestBlock, created, low, high, failed>>
      BY CreationAssumption, <1>5 DEF C!CacheCreation
    <2> QED BY CreationAssumption, <2>1, <2>2
  <1>6. CASE C!BlockFails
    BY CreationAssumption, <1>6 DEF C!BlockFails
  <1>7. CASE C!Evict
    BY CreationAssumption, <1>7 DEF C!Evict
  <1>8. CASE UNCHANGED C!vars
    BY CreationAssumption, <1>8 DEF C!vars
  <1> QED BY CreationAssumption, <1>1, <1>2, <1>3, <1>4, <1>5, <1>6, <1>7, <1>8 DEF C!Next

LEMMA CreationAlways == AllSpec => []CreationInv
  <1>1. AllInit => CreationInv
    BY CreationInit DEF AllInit
  <1>2. CreationInv /\ [AllNext]_allVars => CreationInv'
    <2>1. [AllNext]_allVars => [C!Next]_(C!vars)
      BY Zenon DEF AllNext, allVars, partVars, creationVars, C!vars
    <2> QED BY <2>1, CreationNext
  <1> QED BY <1>1, <1>2, PTL DEF AllSpec

\* What fetchContractCreationData caches for ever has the code and, when no call
\* of its search failed, is the creation block, or block 1 for a contract of
\* genesis; for chains and batches of every size.
THEOREM CachedBlockIsCreation == AllSpec => []CachedIsCreation
  <1>1. CreationInv => CachedIsCreation
    BY DEF CreationInv, CachedIsCreation
  <1> QED BY <1>1, CreationAlways, PTL

\* binarySearchCreationBlock keeps the first block with code in its bracket, from above
\* whatever fails and from below as long as nothing does.
THEOREM SearchKeepsBracket == AllSpec => []C!Bracketed
  <1>1. CreationInv => C!Bracketed
    BY DEF CreationInv
  <1> QED BY <1>1, CreationAlways, PTL

-----------------------------------------------------------------------------
(* The signature lookups.  A timer is armed while lookups are pending, and  *)
(* a selector loads exactly when its promise is cached.                     *)

IsBatch(b) ==
    /\ b = [lookups |-> b.lookups, received |-> b.received, answers |-> b.answers]
    /\ b.lookups # {} /\ b.lookups \in SUBSET Lookups
    /\ b.answers \in [S!Wanted(b) -> S!Results \cup {"none"}]

LookupsTyped ==
    /\ lookup \in [Lookups -> {"idle", "waiting"} \cup S!Settled]
    /\ retries \in 0..MaxRetries
    /\ pendingRequests \in SUBSET Lookups
    /\ batchTimer \in BOOLEAN

BatchesHeld ==
    /\ \A b \in batches : IsBatch(b)
    /\ batchTimer <=> pendingRequests # {}
    /\ S!OpenLookupsAreHeld

LoadsHeld ==
    /\ lookupCache \in [Selectors -> S!Results \cup {"none", "loading"}]
    /\ loads = [s \in Selectors |-> IF lookupCache[s] = "loading" THEN 1 ELSE 0]
    /\ \A s \in Selectors : lookupCache[s] = "loading" => Lookups # {}

SignaturesInv == LookupsTyped /\ BatchesHeld /\ LoadsHeld

LEMMA SignaturesInit == S!Init => SignaturesInv
  <1> SUFFICES ASSUME S!Init PROVE SignaturesInv
    OBVIOUS
  <1>1. batchTimer \in BOOLEAN /\ ~batchTimer
    BY Zenon DEF S!Init
  <1>2. LookupsTyped
    BY <1>1, SignatureAssumption DEF S!Init, LookupsTyped
  <1>3. BatchesHeld
    BY <1>1 DEF S!Init, BatchesHeld, S!OpenLookupsAreHeld
  <1>4. LoadsHeld
    BY DEF S!Init, LoadsHeld
  <1> QED BY <1>2, <1>3, <1>4 DEF SignaturesInv

LEMMA LookupKeeps ==
    ASSUME SignaturesInv, NEW l \in Lookups, S!Lookup(l) PROVE SignaturesInv'
  <1>1. /\ lookup[l] \in {"idle", "rejected"}
        /\ lookup' = [lookup EXCEPT ![l] = "waiting"]
        /\ pendingRequests' = pendingRequests \cup {l}
        /\ UNCHANGED <<batches, lookupCache, loads>>
    BY DEF S!Lookup
  <1>2. batchTimer' \in BOOLEAN /\ batchTimer'
    BY Zenon DEF S!Lookup
  <1>3. retries' \in 0..MaxRetries
    BY SignatureAssumption DEF S!Lookup, SignaturesInv, LookupsTyped
  <1>4. LookupsTyped'
    BY <1>1, <1>2, <1>3 DEF SignaturesInv, LookupsTyped
  <1>5. S!OpenLookupsAreHeld'
    <2>1. /\ lookup \in [Lookups -> {"idle", "waiting"} \cup S!Settled]
          /\ S!OpenLookupsAreHeld
      BY DEF SignaturesInv, LookupsTyped, BatchesHeld
    <2>2. \A k \in Lookups : lookup'[k] = IF k = l THEN "waiting" ELSE lookup[k]
      BY <1>1, <2>1
    <2>3. \A b \in batches : l \notin b.lookups
      BY <1>1, <2>1 DEF S!OpenLookupsAreHeld
    <2> QED BY <1>1, <1>2, <2>1, <2>2, <2>3 DEF S!OpenLookupsAreHeld
  <1>6. BatchesHeld'
    BY <1>1, <1>2, <1>5 DEF SignaturesInv, BatchesHeld, IsBatch, S!Wanted
  <1>7. LoadsHeld'
    BY <1>1 DEF SignaturesInv, LoadsHeld
  <1> QED BY <1>4, <1>6, <1>7 DEF SignaturesInv

LEMMA FlushKeeps == ASSUME SignaturesInv, S!Flush PROVE SignaturesInv'
  <1> DEFINE new == S!Batch(pendingRequests)
  <1>1. /\ pendingRequests' = {}
        /\ batches' = batches \cup {new}
        /\ UNCHANGED <<lookup, retries, lookupCache, loads>>
    BY DEF S!Flush
  <1>2. batchTimer /\ batchTimer' \in BOOLEAN /\ ~batchTimer'
    BY Zenon DEF S!Flush
  <1>3. pendingRequests # {} /\ pendingRequests \in SUBSET Lookups /\ S!OpenLookupsAreHeld
    BY <1>2 DEF SignaturesInv, BatchesHeld, LookupsTyped
  <1>4. new.lookups = pendingRequests /\ IsBatch(new)
    BY <1>3 DEF S!Batch, IsBatch, S!Wanted
  <1> HIDE DEF new
  <1>5. LookupsTyped'
    BY <1>1, <1>2 DEF SignaturesInv, LookupsTyped
  <1>6. S!OpenLookupsAreHeld'
    BY <1>1, <1>2, <1>3, <1>4 DEF S!OpenLookupsAreHeld
  <1>7. \A b \in batches' : IsBatch(b)
    BY <1>1, <1>4 DEF SignaturesInv, BatchesHeld
  <1>8. BatchesHeld'
    BY <1>1, <1>2, <1>6, <1>7 DEF BatchesHeld, IsBatch, S!Wanted
  <1>9. LoadsHeld'
    BY <1>1 DEF SignaturesInv, LoadsHeld
  <1> QED BY <1>5, <1>8, <1>9 DEF SignaturesInv

\* Requests that keep their lookups hold what they held.
LEMMA SameLookupsHeld ==
    ASSUME S!OpenLookupsAreHeld, UNCHANGED <<lookup, pendingRequests, batchTimer>>,
           \A b \in batches : \E c \in batches' : c.lookups = b.lookups,
           \A c \in batches' : \E b \in batches : c.lookups = b.lookups,
           \A b, c \in batches' : b.lookups = c.lookups => b = c
    PROVE  S!OpenLookupsAreHeld'
  <1>1. \A b, c \in batches : b.lookups \cap c.lookups # {} => b = c
    BY DEF S!OpenLookupsAreHeld
  <1>2. ASSUME NEW b \in batches', NEW c \in batches', b.lookups \cap c.lookups # {}
        PROVE  b = c
    <2>1. PICK d \in batches : b.lookups = d.lookups
      OBVIOUS
    <2>2. PICK e \in batches : c.lookups = e.lookups
      OBVIOUS
    <2>3. d = e
      BY <1>1, <1>2, <2>1, <2>2
    <2> QED BY <2>1, <2>2, <2>3
  <1>3. \A l : (\E b \in batches : l \in b.lookups) <=> (\E c \in batches' : l \in c.lookups)
    OBVIOUS
  <1>4. /\ \A l \in Lookups : lookup[l] = "waiting" <=>
              \/ l \in pendingRequests
              \/ \E b \in batches : l \in b.lookups
        /\ \A l \in pendingRequests : batchTimer /\ ~\E b \in batches : l \in b.lookups
    BY DEF S!OpenLookupsAreHeld
  <1>5. /\ \A l \in Lookups : lookup'[l] = "waiting" <=>
              \/ l \in pendingRequests'
              \/ \E b \in batches' : l \in b.lookups
        /\ \A l \in pendingRequests' : batchTimer' /\ ~\E b \in batches' : l \in b.lookups
    BY <1>3, <1>4
  <1> QED BY <1>2, <1>5 DEF S!OpenLookupsAreHeld

\* Of two requests with the same lookups there is one.
LEMMA BatchesAreApart ==
    ASSUME SignaturesInv, NEW b \in batches, NEW c \in batches, b.lookups = c.lookups
    PROVE  b = c
  <1>1. b.lookups # {}
    BY DEF SignaturesInv, BatchesHeld, IsBatch
  <1>2. \A x, y \in batches : x.lookups \cap y.lookups # {} => x = y
    BY DEF SignaturesInv, BatchesHeld, S!OpenLookupsAreHeld
  <1> QED BY <1>1, <1>2

LEMMA ReceiveKeeps ==
    ASSUME SignaturesInv, NEW b \in batches, S!Receive(b) PROVE SignaturesInv'
  <1> DEFINE ans == [s \in S!Wanted(b) |->
                       IF lookupCache[s] \in S!Results THEN lookupCache[s] ELSE "none"]
             new == [b EXCEPT !.received = TRUE, !.answers = ans]
  <1>1. /\ batches' = (batches \ {b}) \cup {new}
        /\ lookupCache' = [s \in Selectors |->
             IF s \in S!Wanted(b) /\ lookupCache[s] = "none" THEN "loading" ELSE lookupCache[s]]
        /\ loads' = [s \in Selectors |->
             IF s \in S!Wanted(b) /\ lookupCache[s] = "none" THEN loads[s] + 1 ELSE loads[s]]
        /\ UNCHANGED <<lookup, retries, pendingRequests>>
    BY DEF S!Receive
  <1>2. UNCHANGED batchTimer
    BY DEF S!Receive
  <1>3. IsBatch(b)
    BY DEF SignaturesInv, BatchesHeld
  <1>4. ans \in [S!Wanted(b) -> S!Results \cup {"none"}]
    OBVIOUS
  <1> HIDE DEF ans
  <1>5. new = [lookups |-> b.lookups, received |-> TRUE, answers |-> ans]
    <2>1. b = [lookups |-> b.lookups, received |-> b.received, answers |-> b.answers]
      BY <1>3 DEF IsBatch
    <2>2. new = [b EXCEPT !.received = TRUE, !.answers = ans]
      OBVIOUS
    <2> HIDE DEF new
    <2> QED BY <2>1, <2>2
  <1> HIDE DEF new
  <1>6. new.lookups = b.lookups /\ S!Wanted(new) = S!Wanted(b)
    BY <1>5 DEF S!Wanted
  <1>7. IsBatch(new)
    BY <1>3, <1>4, <1>5, <1>6 DEF IsBatch
  <1>8. \A c \in batches' : IsBatch(c)
    BY <1>1, <1>7 DEF SignaturesInv, BatchesHeld
  <1>9. LookupsTyped'
    BY <1>1, <1>2 DEF SignaturesInv, LookupsTyped
  <1>10. S!OpenLookupsAreHeld'
    <2>1. S!OpenLookupsAreHeld
      BY DEF SignaturesInv, BatchesHeld
    <2>2. \A c \in batches : \E d \in batches' : d.lookups = c.lookups
      BY <1>1, <1>6
    <2>3. \A d \in batches' : \E c \in batches : d.lookups = c.lookups
      BY <1>1, <1>6
    <2>4. \A c, d \in batches' : c.lookups = d.lookups => c = d
      BY <1>1, <1>6, BatchesAreApart
    <2> QED BY <1>1, <1>2, <2>1, <2>2, <2>3, <2>4, SameLookupsHeld
  <1>11. BatchesHeld'
    BY <1>1, <1>2, <1>8, <1>10 DEF SignaturesInv, BatchesHeld, IsBatch, S!Wanted
  <1>12. LoadsHeld'
    <2>1. Lookups # {}
      BY <1>3 DEF IsBatch
    <2>2. /\ lookupCache \in [Selectors -> S!Results \cup {"none", "loading"}]
          /\ \A s \in Selectors : loads[s] = IF lookupCache[s] = "loading" THEN 1 ELSE 0
      BY DEF SignaturesInv, LoadsHeld
    <2>3. lookupCache' \in [Selectors -> S!Results \cup {"none", "loading"}]
      BY <1>1, <2>2
    <2>4. \A s \in Selectors : loads'[s] = IF lookupCache'[s] = "loading" THEN 1 ELSE 0
      BY <1>1, <2>2
    <2>5. loads' = [s \in Selectors |-> IF lookupCache'[s] = "loading" THEN 1 ELSE 0]
      BY <1>1, <2>4
    <2> QED BY <2>1, <2>3, <2>5 DEF LoadsHeld
  <1> QED BY <1>9, <1>11, <1>12 DEF SignaturesInv

LEMMA LoadEndsKeeps ==
    ASSUME SignaturesInv, NEW s \in Selectors, NEW ok \in BOOLEAN, S!LoadEnds(s, ok)
    PROVE  SignaturesInv'
  <1> DEFINE got == IF ok THEN S!True(s) ELSE "null"
             Told(b) == IF b.received /\ s \in S!Wanted(b) /\ b.answers[s] = "none"
                        THEN [b EXCEPT !.answers[s] = got] ELSE b
  <1>1. /\ loads[s] > 0
        /\ loads' = [loads EXCEPT ![s] = @ - 1]
        /\ lookupCache' = [lookupCache EXCEPT ![s] = IF ok THEN S!True(s) ELSE "none"]
        /\ batches' = {Told(b) : b \in batches}
        /\ UNCHANGED <<lookup, retries, pendingRequests>>
    BY DEF S!LoadEnds
  <1>2. UNCHANGED batchTimer
    BY DEF S!LoadEnds
  <1>3. S!True(s) \in S!Results /\ got \in S!Results
    BY DEF S!True, S!Results
  <1>4. ASSUME NEW b \in batches PROVE IsBatch(Told(b)) /\ Told(b).lookups = b.lookups
    <2>1. IsBatch(b)
      BY DEF SignaturesInv, BatchesHeld
    <2>2. CASE Told(b) = b
      BY <2>1, <2>2
    <2>3. CASE s \in S!Wanted(b) /\ Told(b) = [b EXCEPT !.answers[s] = got]
      <3> HIDE DEF Told, got
      <3> DEFINE c == Told(b)
                 ans == [b.answers EXCEPT ![s] = got]
      <3>1. c = [lookups |-> b.lookups, received |-> b.received, answers |-> ans]
        BY <2>1, <2>3 DEF IsBatch
      <3>2. ans \in [S!Wanted(b) -> S!Results \cup {"none"}]
        BY <1>3, <2>1, <2>3 DEF IsBatch
      <3> HIDE DEF c, ans
      <3>3. c.lookups = b.lookups /\ S!Wanted(c) = S!Wanted(b)
        BY <3>1 DEF S!Wanted
      <3>4. IsBatch(c)
        BY <2>1, <3>1, <3>2, <3>3 DEF IsBatch
      <3> QED BY <3>3, <3>4 DEF c
    <2> QED BY <2>2, <2>3
  <1> HIDE DEF Told, got
  <1>5. \A c \in batches' : IsBatch(c)
    BY <1>1, <1>4
  <1>6. LookupsTyped'
    BY <1>1, <1>2 DEF SignaturesInv, LookupsTyped
  <1>7. S!OpenLookupsAreHeld'
    <2>1. S!OpenLookupsAreHeld
      BY DEF SignaturesInv, BatchesHeld
    <2>2. \A c \in batches : \E d \in batches' : d.lookups = c.lookups
      BY <1>1, <1>4
    <2>3. \A d \in batches' : \E c \in batches : d.lookups = c.lookups
      BY <1>1, <1>4
    <2>4. ASSUME NEW c \in batches', NEW d \in batches', c.lookups = d.lookups PROVE c = d
      <3>1. PICK x \in batches : c = Told(x)
        BY <1>1
      <3>2. PICK y \in batches : d = Told(y)
        BY <1>1
      <3>3. x.lookups = y.lookups
        BY <1>4, <2>4, <3>1, <3>2
      <3>4. x = y
        BY <3>3, BatchesAreApart
      <3> QED BY <3>1, <3>2, <3>4
    <2> QED BY <1>1, <1>2, <2>1, <2>2, <2>3, <2>4, SameLookupsHeld
  <1>8. BatchesHeld'
    BY <1>1, <1>2, <1>5, <1>7 DEF SignaturesInv, BatchesHeld, IsBatch, S!Wanted
  <1>9. LoadsHeld'
    <2>1. /\ lookupCache \in [Selectors -> S!Results \cup {"none", "loading"}]
          /\ loads = [t \in Selectors |-> IF lookupCache[t] = "loading" THEN 1 ELSE 0]
          /\ \A t \in Selectors : lookupCache[t] = "loading" => Lookups # {}
      BY DEF SignaturesInv, LoadsHeld
    <2>2. lookupCache[s] = "loading" /\ loads[s] = 1
      BY <1>1, <2>1
    <2>3. (IF ok THEN S!True(s) ELSE "none") \in {"signature", "null", "none"}
      BY <1>3 DEF S!Results
    <2>4. /\ lookupCache' \in [Selectors -> S!Results \cup {"none", "loading"}]
          /\ \A t \in Selectors : lookupCache'[t] =
                IF t = s THEN IF ok THEN S!True(s) ELSE "none" ELSE lookupCache[t]
      BY <1>1, <2>1, <2>3 DEF S!Results
    <2>5. \A t \in Selectors : loads'[t] = IF t = s THEN 0 ELSE loads[t]
      BY <1>1, <2>1, <2>2
    <2>6. loads' = [t \in Selectors |-> loads'[t]]
      BY <1>1, <2>1
    <2>7. \A t \in Selectors : loads'[t] = IF lookupCache'[t] = "loading" THEN 1 ELSE 0
      BY <2>1, <2>3, <2>4, <2>5
    <2> QED BY <2>1, <2>2, <2>4, <2>6, <2>7 DEF LoadsHeld
  <1> QED BY <1>6, <1>8, <1>9 DEF SignaturesInv

\* A request that ends takes its lookups with it, and settles them.
LEMMA EndOfBatchKeeps ==
    ASSUME SignaturesInv, NEW b \in batches, NEW f,
           \A l \in b.lookups : f[l] \in S!Settled,
           batches' = batches \ {b},
           lookup' = [l \in Lookups |-> IF l \in b.lookups THEN f[l] ELSE lookup[l]],
           UNCHANGED <<retries, pendingRequests, lookupCache, loads>>, UNCHANGED batchTimer
    PROVE  SignaturesInv'
  <1>1. LookupsTyped'
    BY DEF SignaturesInv, LookupsTyped
  <1>2. S!OpenLookupsAreHeld
    BY DEF SignaturesInv, BatchesHeld
  <1>3. \A l \in Lookups : lookup'[l] = IF l \in b.lookups THEN f[l] ELSE lookup[l]
    OBVIOUS
  <1>4. \A l \in b.lookups : f[l] # "waiting"
    BY DEF S!Settled, S!Results
  <1>5. ASSUME NEW l \in Lookups
        PROVE  lookup'[l] = "waiting" <=>
                 l \in pendingRequests' \/ \E c \in batches' : l \in c.lookups
    <2>1. CASE l \in b.lookups
      <3>1. l \notin pendingRequests
        BY <1>2, <2>1 DEF S!OpenLookupsAreHeld
      <3>2. \A c \in batches : l \in c.lookups => c = b
        BY <1>2, <2>1 DEF S!OpenLookupsAreHeld
      <3> QED BY <1>3, <1>4, <2>1, <3>1, <3>2
    <2>2. CASE l \notin b.lookups
      BY <1>2, <1>3, <2>2 DEF S!OpenLookupsAreHeld
    <2> QED BY <2>1, <2>2
  <1>6. /\ \A l \in pendingRequests' : batchTimer' /\ \A c \in batches' : l \notin c.lookups
        /\ \A c, d \in batches' : c.lookups \cap d.lookups # {} => c = d
    BY <1>2 DEF S!OpenLookupsAreHeld
  <1>7. S!OpenLookupsAreHeld'
    BY <1>5, <1>6 DEF S!OpenLookupsAreHeld
  <1>8. BatchesHeld'
    BY <1>7 DEF SignaturesInv, BatchesHeld, IsBatch, S!Wanted
  <1>9. LoadsHeld'
    BY DEF SignaturesInv, LoadsHeld
  <1> QED BY <1>1, <1>8, <1>9 DEF SignaturesInv

LEMMA RespondKeeps ==
    ASSUME SignaturesInv, NEW b \in batches, S!Respond(b) PROVE SignaturesInv'
  <1> DEFINE f == [l \in Lookups |-> b.answers[SelectorOf(l)]]
  <1>1. b.answers \in [S!Wanted(b) -> S!Results \cup {"none"}] /\ b.lookups \in SUBSET Lookups
    BY DEF SignaturesInv, BatchesHeld, IsBatch
  <1>2. \A l \in b.lookups : f[l] \in S!Settled
    <2>1. \A l \in b.lookups : SelectorOf(l) \in S!Wanted(b)
      BY DEF S!Wanted
    <2>2. \A s \in S!Wanted(b) : b.answers[s] # "none"
      BY DEF S!Respond
    <2> QED BY <1>1, <2>1, <2>2 DEF S!Settled
  <1>3. /\ batches' = batches \ {b}
        /\ lookup' = [l \in Lookups |-> IF l \in b.lookups THEN f[l] ELSE lookup[l]]
    BY DEF S!Respond
  <1>4. UNCHANGED <<retries, pendingRequests, lookupCache, loads>> /\ UNCHANGED batchTimer
    BY DEF S!Respond
  <1> HIDE DEF f
  <1> QED BY <1>2, <1>3, <1>4, EndOfBatchKeeps

LEMMA RequestFailsKeeps ==
    ASSUME SignaturesInv, NEW b \in batches, S!RequestFails(b) PROVE SignaturesInv'
  <1> DEFINE f == [l \in Lookups |-> "rejected"]
  <1>1. b.lookups \in SUBSET Lookups
    BY DEF SignaturesInv, BatchesHeld, IsBatch
  <1>2. \A l \in b.lookups : f[l] \in S!Settled
    BY <1>1 DEF S!Settled
  <1>3. /\ batches' = batches \ {b}
        /\ lookup' = [l \in Lookups |-> IF l \in b.lookups THEN f[l] ELSE lookup[l]]
    BY <1>1 DEF S!RequestFails
  <1>4. UNCHANGED <<retries, pendingRequests, lookupCache, loads>> /\ UNCHANGED batchTimer
    BY DEF S!RequestFails
  <1> HIDE DEF f
  <1> QED BY <1>2, <1>3, <1>4, EndOfBatchKeeps

LEMMA SignaturesNext == SignaturesInv /\ [S!Next]_(S!vars) => SignaturesInv'
  <1> SUFFICES ASSUME SignaturesInv, [S!Next]_(S!vars) PROVE SignaturesInv'
    OBVIOUS
  <1>1. CASE UNCHANGED S!vars
    <2>1. UNCHANGED <<lookup, retries, pendingRequests, batchTimer, batches, lookupCache, loads>>
      BY <1>1 DEF S!vars
    <2>2. LookupsTyped'
      BY <2>1 DEF SignaturesInv, LookupsTyped
    <2>3. BatchesHeld'
      BY <2>1 DEF SignaturesInv, BatchesHeld, S!OpenLookupsAreHeld, IsBatch, S!Wanted
    <2>4. LoadsHeld'
      BY <2>1 DEF SignaturesInv, LoadsHeld
    <2> QED BY <2>2, <2>3, <2>4 DEF SignaturesInv
  <1> QED BY <1>1, LookupKeeps, FlushKeeps, ReceiveKeeps, RespondKeeps, RequestFailsKeeps,
             LoadEndsKeeps DEF S!Next

LEMMA SignaturesAlways == AllSpec => []SignaturesInv
  <1>1. AllInit => SignaturesInv
    BY SignaturesInit DEF AllInit
  <1>2. SignaturesInv /\ [AllNext]_allVars => SignaturesInv'
    <2>1. [AllNext]_allVars => [S!Next]_(S!vars)
      BY Zenon DEF AllNext, allVars, partVars, signatureVars, S!vars
    <2> QED BY <2>1, SignaturesNext
  <1> QED BY <1>1, <1>2, PTL DEF AllSpec

\* lookupSignatureBatched, flushSignatureBatch and lookupSignature, for any lookups
\* and selectors: an open lookup is in the map that the armed timer will flush or in
\* exactly one request, and a selector is loaded once for all who wait for it.
THEOREM LookupsStayHeldOnce == AllSpec => []LookupsAreHeldOnce
  <1>1. SignaturesInv => LookupsAreHeldOnce
    <2> SUFFICES ASSUME SignaturesInv PROVE S!OpenLookupsAreHeld /\ S!LoadsAreShared
      BY DEF LookupsAreHeldOnce, S!LookupsAreHeldOnce
    <2> QED BY DEF SignaturesInv, BatchesHeld, LoadsHeld, S!LoadsAreShared
  <1> QED BY <1>1, SignaturesAlways, PTL

-----------------------------------------------------------------------------
(* The totals of a token's pages.  A count was read at most MaxFetch ticks  *)
(* before it was stored, and a request knows a count that was read or fresh *)
(* no longer ago than it has waited.                                        *)

DetailsTyped ==
    /\ details \in [count : T!Counts, read : 0..(CACHE_TTL + MaxFetch),
                    stored : 0..CACHE_TTL]
    /\ details.read <= details.stored + MaxFetch

Young(q) ==
    /\ q.lookup = "asked" => q.read = 0
    /\ q.lookup = "fetched" => q.read <= q.waited
    /\ q.lookup = "known" => q.read < CACHE_TTL + MaxFetch + q.waited

Underway(q) == q \in T!Waiting /\ Young(q)

RequestsTyped ==
    /\ request = [r \in Requests |-> request[r]]
    /\ \A r \in Requests : request[r] = T!Idle \/ Underway(request[r])

Sound(a) ==
    a.total \in 0..T!maxNavigableRows /\ a.age \in Nat /\ a.age < CACHE_TTL + 2 * MaxFetch

TokensInv == DetailsTyped /\ RequestsTyped /\ Sound(answer)

LEMMA OlderIsBounded ==
    ASSUME NEW age \in Nat, NEW bound \in Nat
    PROVE  T!Older(age, bound) = IF age + 1 <= bound THEN age + 1 ELSE bound
  <1> DEFINE both == {age + 1, bound}
             m == IF age + 1 <= bound THEN age + 1 ELSE bound
  <1>1. T!Older(age, bound) = CHOOSE x \in both : \A y \in both : x <= y
    BY DEF T!Older, T!Min
  <1>2. m \in both /\ (\A y \in both : m <= y) /\ (\A x \in both : (\A y \in both : x <= y) => x = m)
    OBVIOUS
  <1> HIDE DEF both, m
  <1>3. T!Older(age, bound) = m
    BY <1>1, <1>2
  <1> QED BY <1>3 DEF m

LEMMA TimesKeepsOrder ==
    ASSUME NEW j \in Nat, NEW k \in Nat, NEW n \in Nat, j <= k
    PROVE  j * n \in Nat /\ k * n \in Nat /\ j * n <= k * n
  <1>1. k = j + (k - j) /\ k - j \in Nat
    OBVIOUS
  <1>2. (k - j) * n \in Nat /\ j * n \in Nat /\ k * n \in Nat
    BY <1>1
  <1>3. k * n = j * n + (k - j) * n
    OBVIOUS
  <1> QED BY <1>2, <1>3

\* The pages of a total within the window are pages of the window.
LEMMA OfferedAreRequestable ==
    ASSUME NEW total \in 0..T!maxNavigableRows, NEW page \in T!OfferedPages(total)
    PROVE  T!Requestable(page)
  <1> DEFINE k == COUNT_CAP \div limit
             q == (total + limit - 1) \div limit
  <1>1. limit \in Nat /\ limit > 0 /\ COUNT_CAP \in Nat
    BY TokenAssumption
  <1>2. k \in Nat /\ k * limit <= COUNT_CAP
    BY <1>1
  <1>3. total \in Nat /\ total <= k * limit /\ k * limit \in Nat
    BY <1>1, <1>2 DEF T!maxNavigableRows
  <1>4. q \in Nat /\ q * limit <= total + limit - 1
    BY <1>1, <1>3
  <1>5. page \in Nat /\ page <= q
    BY <1>4 DEF T!OfferedPages
  <1> HIDE DEF k, q
  <1>6. q <= k
    <2> SUFFICES ASSUME k + 1 <= q PROVE FALSE
      BY <1>2, <1>4
    <2>1. (k + 1) * limit <= q * limit /\ q * limit \in Nat
      BY <1>1, <1>2, <1>4, TimesKeepsOrder
    <2>2. (k + 1) * limit = k * limit + limit
      BY <1>1, <1>2
    <2> QED BY <1>1, <1>3, <1>4, <2>1, <2>2
  <1>7. page <= k
    BY <1>2, <1>4, <1>5, <1>6
  <1>8. page * limit <= k * limit /\ page * limit \in Nat
    BY <1>1, <1>2, <1>5, <1>7, TimesKeepsOrder
  <1> QED BY <1>1, <1>2, <1>3, <1>8 DEF T!Requestable

LEMMA WindowIsNatural == T!maxNavigableRows \in Nat
  <1>1. COUNT_CAP \div limit \in Nat
    BY TokenAssumption
  <1> QED BY <1>1, TokenAssumption DEF T!maxNavigableRows

\* Every total is clamped to the window.
LEMMA ResolvedIsInWindow ==
    ASSUME NEW count \in T!Counts, NEW capped \in BOOLEAN, NEW page \in T!Pages,
           NEW rows \in 0..limit, NEW exhausted \in BOOLEAN
    PROVE  T!resolveTotal(count, capped, page, rows, exhausted).total \in 0..T!maxNavigableRows
  <1> DEFINE w == T!maxNavigableRows
             n == (page - 1) * limit + rows
  <1>1. w \in Nat
    BY WindowIsNatural
  <1>2. n \in Nat
    <2>1. page - 1 \in Nat /\ limit \in Nat /\ rows \in Nat
      BY TokenAssumption DEF T!Pages
    <2>2. (page - 1) * limit \in Nat
      BY <2>1
    <2> QED BY <2>1, <2>2
  <1>3. count = -1 \/ count \in Nat
    BY TokenAssumption DEF T!Counts, T!NoCount
  <1> HIDE DEF n, w
  <1>4. CASE count # -1
    <2> DEFINE over == capped \/ count > w
    <2>1. T!resolveTotal(count, capped, page, rows, exhausted)
            = [total |-> IF over THEN w ELSE count, totalCapped |-> over]
      BY <1>4, Zenon DEF T!resolveTotal, T!NoCount, w
    <2>2. T!resolveTotal(count, capped, page, rows, exhausted).total
            = IF over THEN w ELSE count
      <3> HIDE DEF over
      <3> QED BY <2>1
    <2>3. (IF over THEN w ELSE count) \in 0..w
      BY <1>1, <1>3, <1>4
    <2> QED BY <2>2, <2>3 DEF w
  <1>5. CASE count = -1 /\ exhausted
    <2>1. T!resolveTotal(count, capped, page, rows, exhausted).total
            = IF n > w THEN w ELSE n
      BY <1>5 DEF T!resolveTotal, T!NoCount, w, n
    <2> QED BY <1>1, <1>2, <2>1 DEF w
  <1>6. CASE count = -1 /\ ~exhausted
    <2>1. T!resolveTotal(count, capped, page, rows, exhausted).total = w
      BY <1>6 DEF T!resolveTotal, T!NoCount, w
    <2> QED BY <1>1, <2>1 DEF w
  <1> QED BY <1>4, <1>5, <1>6

LEMMA TotalsAreInWindow ==
    ASSUME NEW count \in T!Counts, NEW capped \in BOOLEAN, NEW page \in T!Pages,
           NEW total \in T!Totals(count, capped, page)
    PROVE  total \in 0..T!maxNavigableRows
  <1>1. CASE total = T!resolveTotal(count, capped, page, limit, FALSE).total
    <2>1. limit \in 0..limit
      BY TokenAssumption
    <2> QED BY <1>1, <2>1, ResolvedIsInWindow
  <1>2. ASSUME NEW rows \in 0..limit,
               total = T!resolveTotal(count, capped, page, rows, TRUE).total
        PROVE  total \in 0..T!maxNavigableRows
    BY <1>2, ResolvedIsInWindow
  <1> QED BY <1>1, <1>2 DEF T!Totals

LEMMA EmptyIsSound == Sound(T!Empty)
  BY WindowIsNatural, TokenAssumption DEF Sound, T!Empty

LEMMA AccountTotalsAreInWindow ==
    ASSUME NEW page \in T!Pages, NEW total \in T!AccountTotals[page]
    PROVE  total \in 0..T!maxNavigableRows
  <1>1. PICK count \in T!Counts, capped \in BOOLEAN : total \in T!Totals(count, capped, page)
    BY DEF T!AccountTotals
  <1> QED BY <1>1, TotalsAreInWindow

LEMMA AnswerIsSound ==
    ASSUME NEW q, Underway(q), q.lookup = "known", T!Answer(q)
    PROVE  Sound(answer')
  <1>1. /\ q.count \in T!Counts /\ q.page \in T!Pages /\ q.read \in Nat
        /\ q.waited \in 0..MaxFetch /\ q.read < CACHE_TTL + MaxFetch + q.waited
        /\ CACHE_TTL \in Nat \ {0} /\ MaxFetch \in Nat
    BY TokenAssumption DEF Underway, Young, T!Waiting
  <1>2. ASSUME NEW total \in T!Totals(q.count, FALSE, q.page),
               answer' = [total |-> total, age |-> q.read]
        PROVE  Sound(answer')
    <2>1. total \in 0..T!maxNavigableRows
      BY <1>1, TotalsAreInWindow
    <2> QED BY <1>1, <1>2, <2>1 DEF Sound
  <1>3. ASSUME NEW total \in T!AccountTotals[q.page], NEW age \in 0..q.waited,
               answer' = [total |-> total, age |-> age]
        PROVE  Sound(answer')
    <2>1. total \in 0..T!maxNavigableRows
      BY <1>1, AccountTotalsAreInWindow
    <2>2. age \in Nat /\ age < CACHE_TTL + 2 * MaxFetch
      BY <1>1
    <2> QED BY <1>3, <2>1, <2>2 DEF Sound
  <1> QED BY <1>2, <1>3 DEF T!Answer

LEMMA TokensInit == T!Init => TokensInv
  <1> SUFFICES ASSUME T!Init PROVE TokensInv
    OBVIOUS
  <1>1. DetailsTyped
    BY TokenAssumption DEF T!Init, DetailsTyped, T!Counts
  <1>2. RequestsTyped
    BY DEF T!Init, RequestsTyped
  <1>3. Sound(answer)
    BY EmptyIsSound DEF T!Init
  <1> QED BY <1>1, <1>2, <1>3 DEF TokensInv

LEMMA TickKeeps == ASSUME TokensInv, T!Tick PROVE TokensInv'
  <1>1. DetailsTyped'
    <2> DEFINE f == T!Older(details.read, CACHE_TTL + MaxFetch)
               g == T!Older(details.stored, CACHE_TTL)
    <2>1. /\ details.count \in T!Counts
          /\ details.read \in Nat /\ details.read <= CACHE_TTL + MaxFetch
          /\ details.stored \in Nat /\ details.stored <= CACHE_TTL
          /\ details.read <= details.stored + MaxFetch
          /\ CACHE_TTL \in Nat /\ MaxFetch \in Nat /\ CACHE_TTL + MaxFetch \in Nat
      BY TokenAssumption DEF TokensInv, DetailsTyped
    <2>2. f = IF details.read + 1 <= CACHE_TTL + MaxFetch THEN details.read + 1
                                                         ELSE CACHE_TTL + MaxFetch
      BY <2>1, OlderIsBounded
    <2>3. g = IF details.stored + 1 <= CACHE_TTL THEN details.stored + 1 ELSE CACHE_TTL
      BY <2>1, OlderIsBounded
    <2>4. details' = [count |-> details.count, read |-> f, stored |-> g]
      BY DEF T!Tick, TokensInv, DetailsTyped
    <2> HIDE DEF f, g
    <2>5. f \in 0..(CACHE_TTL + MaxFetch) /\ g \in 0..CACHE_TTL /\ f <= g + MaxFetch
      BY <2>1, <2>2, <2>3
    <2> QED BY <2>1, <2>4, <2>5 DEF DetailsTyped
  <1>2. RequestsTyped'
    <2>1. ASSUME NEW r \in Requests
          PROVE  request'[r] = T!Idle \/ Underway(request'[r])
      <3> DEFINE q == request[r]
                 read == IF q.lookup = "asked" THEN q.read ELSE q.read + 1
      <3>1. request'[r] = IF q = T!Idle THEN T!Idle
               ELSE [q EXCEPT !.waited = @ + 1,
                              !.read = IF q.lookup = "asked" THEN @ ELSE @ + 1]
        BY DEF T!Tick
      <3>2. q # T!Idle => q.waited < MaxFetch
        BY DEF T!Tick
      <3>3. q = T!Idle \/ Underway(q)
        BY DEF TokensInv, RequestsTyped
      <3>4. CASE q = T!Idle
        BY <3>1, <3>4
      <3>5. CASE q # T!Idle /\ Underway(q)
        <4>1. q \in T!Waiting /\ Young(q)
          BY <3>5 DEF Underway
        <4>2. request'[r] = [page |-> q.page, waited |-> q.waited + 1, lookup |-> q.lookup,
                             feed |-> q.feed, count |-> q.count, read |-> read]
          BY <3>1, <3>5, <4>1 DEF T!Waiting
        <4>3. /\ q.waited + 1 \in 0..MaxFetch /\ read \in 0..(CACHE_TTL + 2 * MaxFetch)
              /\ q.lookup = "asked" => read = 0
              /\ q.lookup = "fetched" => read <= q.waited + 1
              /\ q.lookup = "known" => read < CACHE_TTL + MaxFetch + (q.waited + 1)
          BY <3>2, <3>5, <4>1, TokenAssumption DEF T!Waiting, Young
        <4> HIDE DEF read
        <4>4. request'[r] \in T!Waiting
          BY <4>1, <4>2, <4>3 DEF T!Waiting
        <4> QED BY <4>2, <4>3, <4>4 DEF Underway, Young
      <3> QED BY <3>3, <3>4, <3>5
    <2>2. request' = [r \in Requests |-> request'[r]]
      BY DEF T!Tick
    <2> QED BY <2>1, <2>2 DEF RequestsTyped
  <1>3. Sound(answer')
    BY EmptyIsSound DEF T!Tick
  <1> QED BY <1>1, <1>2, <1>3 DEF TokensInv

\* A step of one request
LEMMA OneRequest ==
    ASSUME RequestsTyped, NEW r \in Requests, NEW q, q = T!Idle \/ Underway(q),
           request' = [request EXCEPT ![r] = q]
    PROVE  RequestsTyped'
  BY DEF RequestsTyped

\* A request whose calls go on, or that answers with what they have brought
LEMMA ProceedsKeeps ==
    ASSUME RequestsTyped, NEW r \in Requests, NEW q, Underway(q), T!Proceeds(r, q)
    PROVE  RequestsTyped' /\ Sound(answer')
  <1>1. CASE /\ q.lookup = "known" /\ T!Answer(q)
             /\ request' = [request EXCEPT ![r] = T!Idle]
    BY <1>1, OneRequest, AnswerIsSound
  <1>2. CASE request' = [request EXCEPT ![r] = q] /\ answer' = T!Empty
    BY <1>2, OneRequest, EmptyIsSound
  <1> QED BY <1>1, <1>2 DEF T!Proceeds

LEMMA AskKeeps ==
    ASSUME TokensInv, NEW r \in Requests, NEW page \in T!Pages, T!Ask(r, page)
    PROVE  TokensInv'
  <1>1. DetailsTyped' /\ answer' = T!Empty
    BY DEF T!Ask, TokensInv, DetailsTyped
  <1>2. Sound(answer')
    BY <1>1, EmptyIsSound
  <1>3. CASE UNCHANGED request
    BY <1>1, <1>2, <1>3 DEF TokensInv, RequestsTyped
  <1>4. ASSUME NEW q, request' = [request EXCEPT ![r] = q],
               q = [page |-> page, waited |-> 0, feed |-> "asked",
                    lookup |-> IF T!Fresh THEN "known" ELSE "asked",
                    count |-> IF T!Fresh THEN details.count ELSE T!NoCount,
                    read |-> IF T!Fresh THEN details.read ELSE 0]
        PROVE  TokensInv'
    <2>1. /\ details.count \in T!Counts /\ details.read \in 0..(CACHE_TTL + MaxFetch)
          /\ details.stored \in 0..CACHE_TTL /\ details.read <= details.stored + MaxFetch
          /\ CACHE_TTL \in Nat /\ MaxFetch \in Nat /\ T!NoCount \in T!Counts
      BY TokenAssumption DEF TokensInv, DetailsTyped, T!Counts
    <2>2. q \in T!Waiting
      BY <1>4, <2>1 DEF T!Waiting
    <2>3. Young(q)
      BY <1>4, <2>1 DEF Young, T!Fresh
    <2>4. RequestsTyped'
      BY <1>4, <2>2, <2>3, OneRequest DEF TokensInv, Underway
    <2> QED BY <1>1, <1>2, <2>4 DEF TokensInv
  <1> QED BY <1>3, <1>4 DEF T!Ask

LEMMA AskForAccountKeeps ==
    ASSUME TokensInv, NEW page \in T!Pages, T!AskForAccount(page) PROVE TokensInv'
  <1>1. DetailsTyped' /\ RequestsTyped'
    BY DEF T!AskForAccount, TokensInv, DetailsTyped, RequestsTyped
  <1>2. CASE answer' = T!Empty
    BY <1>1, <1>2, EmptyIsSound DEF TokensInv
  <1>3. ASSUME NEW total \in T!AccountTotals[page], NEW age \in 0..MaxFetch,
               answer' = [total |-> total, age |-> age]
        PROVE  TokensInv'
    <2>1. total \in 0..T!maxNavigableRows
      BY AccountTotalsAreInWindow
    <2>2. Sound(answer')
      BY <1>3, <2>1, TokenAssumption DEF Sound
    <2> QED BY <1>1, <2>2 DEF TokensInv
  <1> QED BY <1>2, <1>3 DEF T!AskForAccount

LEMMA FetchDetailsKeeps ==
    ASSUME TokensInv, NEW r \in Requests, NEW count \in T!Counts, T!FetchDetails(r, count)
    PROVE  TokensInv'
  <1> DEFINE q == [request[r] EXCEPT !.lookup = "fetched", !.count = count]
  <1>1. Underway(request[r]) /\ request[r].lookup = "asked"
    BY DEF T!FetchDetails, TokensInv, RequestsTyped
  <1>2. Underway(q)
    <2>1. /\ request[r] \in T!Waiting /\ request[r].read = 0
      BY <1>1 DEF Underway, Young
    <2>2. q \in T!Waiting
      BY <2>1 DEF T!Waiting
    <2>3. q.lookup = "fetched" /\ q.read = 0 /\ q.waited \in Nat
      BY <2>1 DEF T!Waiting
    <2> QED BY <2>2, <2>3 DEF Underway, Young
  <1>3. /\ request' = [request EXCEPT ![r] = q] /\ UNCHANGED details
        /\ answer' = T!Empty
    BY DEF T!FetchDetails, TokensInv, RequestsTyped
  <1> HIDE DEF q
  <1>4. RequestsTyped'
    BY <1>2, <1>3, OneRequest DEF TokensInv
  <1> QED BY <1>3, <1>4, EmptyIsSound DEF TokensInv, DetailsTyped

LEMMA StoreDetailsKeeps ==
    ASSUME TokensInv, NEW r \in Requests, T!StoreDetails(r) PROVE TokensInv'
  <1> DEFINE q == [request[r] EXCEPT !.lookup = "known"]
  <1>1. Underway(request[r]) /\ request[r].lookup = "fetched"
    BY DEF T!StoreDetails, TokensInv, RequestsTyped
  <1>2. /\ request[r].count \in T!Counts /\ request[r].read \in Nat
        /\ request[r].waited \in 0..MaxFetch /\ request[r].read <= request[r].waited
        /\ CACHE_TTL \in Nat \ {0} /\ MaxFetch \in Nat
    BY <1>1, TokenAssumption DEF Underway, Young, T!Waiting
  <1>3. DetailsTyped'
    BY <1>2 DEF T!StoreDetails, DetailsTyped
  <1>4. Underway(q)
    BY <1>1, <1>2 DEF Underway, Young, T!Waiting
  <1>5. CASE request' = [request EXCEPT ![r] = T!Idle] /\ answer' = T!Empty
    BY <1>3, <1>5, OneRequest, EmptyIsSound DEF TokensInv
  <1>6. CASE T!Proceeds(r, q)
    <2> HIDE DEF q
    <2> QED BY <1>3, <1>4, <1>6, ProceedsKeeps DEF TokensInv
  <1> QED BY <1>5, <1>6 DEF T!StoreDetails

LEMMA PageKeeps ==
    ASSUME TokensInv, NEW r \in Requests, T!PageArrives(r) \/ T!PageFails(r)
    PROVE  TokensInv'
  <1>1. Underway(request[r])
    BY DEF T!PageArrives, T!PageFails, TokensInv, RequestsTyped
  <1>2. DetailsTyped'
    BY DEF T!PageArrives, T!PageFails, TokensInv, DetailsTyped
  <1>3. CASE T!PageArrives(r)
    <2> DEFINE q == [request[r] EXCEPT !.feed = "here"]
    <2>1. Underway(q)
      BY <1>1 DEF Underway, Young, T!Waiting
    <2>2. T!Proceeds(r, q)
      BY <1>3 DEF T!PageArrives
    <2> HIDE DEF q
    <2> QED BY <1>2, <2>1, <2>2, ProceedsKeeps DEF TokensInv
  <1>4. CASE T!PageFails(r)
    <2> DEFINE q == IF request[r].lookup = "known" THEN T!Idle
                    ELSE [request[r] EXCEPT !.feed = "failed"]
    <2>1. q = T!Idle \/ Underway(q)
      BY <1>1 DEF Underway, Young, T!Waiting
    <2>2. request' = [request EXCEPT ![r] = q] /\ answer' = T!Empty
      BY <1>4 DEF T!PageFails, TokensInv, RequestsTyped
    <2> HIDE DEF q
    <2> QED BY <1>2, <2>1, <2>2, OneRequest, EmptyIsSound DEF TokensInv
  <1> QED BY <1>3, <1>4

LEMMA TokensNext == TokensInv /\ [T!Next]_(T!vars) => TokensInv'
  <1> SUFFICES ASSUME TokensInv, [T!Next]_(T!vars) PROVE TokensInv'
    OBVIOUS
  <1>1. CASE UNCHANGED T!vars
    BY <1>1 DEF T!vars, TokensInv, DetailsTyped, RequestsTyped
  <1> QED BY <1>1, TickKeeps, AskKeeps, AskForAccountKeeps, FetchDetailsKeeps,
             StoreDetailsKeeps, PageKeeps DEF T!Next

LEMMA TokensAlways == AllSpec => []TokensInv
  <1>1. AllInit => TokensInv
    BY TokensInit DEF AllInit
  <1>2. TokensInv /\ [AllNext]_allVars => TokensInv'
    <2>1. [AllNext]_allVars => [T!Next]_(T!vars)
      BY Zenon DEF AllNext, allVars, partVars, tokenVars, T!vars
    <2> QED BY <2>1, TokensNext
  <1> QED BY <1>1, <1>2, PTL DEF AllSpec

\* resolveTotal and tokenDetailsCache, for pages, windows and caches of any size:
\* every page that a total offers lies in the API's window, and no total is older
\* than the cache's time and two calls of the API, whatever calls fail or overtake
\* each other.
THEOREM TotalsStaySound == AllSpec => []TotalsAreSound
  <1>1. TokensInv => TotalsAreSound
    <2> SUFFICES ASSUME TokensInv PROVE T!TotalsAreSound
      BY DEF TotalsAreSound
    <2>1. \A page \in T!OfferedPages(answer.total) : T!Requestable(page)
      BY OfferedAreRequestable DEF TokensInv, Sound
    <2> QED BY <2>1 DEF T!TotalsAreSound, TokensInv, Sound
  <1> QED BY <1>1, TokensAlways, PTL

-----------------------------------------------------------------------------
(* The pages of an address's history.  A page adjoins the one it is reached  *)
(* from because its cursor is the last transaction of that page; the labels  *)
(* are right because k - 1 pages are what the newer transactions fill, and   *)
(* the pages behind k what the older fill, the pages at the ends being the   *)
(* only ones that may not be full.                                           *)

AreTxs(txs) == IsFiniteSet(txs) /\ txs \subseteq Int

\* A page splits the transactions into newer and older ones.
Split(txs, newer, shownTxs, older) ==
    /\ AreTxs(txs) /\ txs = newer \cup shownTxs \cup older /\ shownTxs # {}
    /\ \A x \in newer, y \in shownTxs : y < x
    /\ \A x \in shownTxs, y \in older : y < x
    /\ \A x \in newer, y \in older : y < x

\* What is newer fills k - 1 pages, and what is older the pages behind k.
Fills(a, s, b, k, n) ==
    /\ a \in Nat /\ s \in Nat \ {0} /\ b \in Nat /\ k \in Int /\ n \in Int
    /\ s <= PAGE_SIZE /\ (s = PAGE_SIZE \/ a = 0 \/ b = 0)
    /\ (k - 2) * PAGE_SIZE < a /\ a <= (k - 1) * PAGE_SIZE
    /\ (n - k - 1) * PAGE_SIZE < b /\ b <= (n - k) * PAGE_SIZE

\* The number of pages that m transactions fill
FillsPages(m, n) ==
    n \in Nat \ {0} /\ (n - 1) * PAGE_SIZE < m /\ m <= n * PAGE_SIZE

IsPage(txs, shownTxs, k, n) ==
    \E newer, older \in SUBSET txs :
       /\ Split(txs, newer, shownTxs, older)
       /\ Fills(Cardinality(newer), Cardinality(shownTxs), Cardinality(older), k, n)

LEMMA PageMultiples ==
    ASSUME NEW j \in Int
    PROVE  /\ j * PAGE_SIZE \in Int
           /\ (j + 1) * PAGE_SIZE = j * PAGE_SIZE + PAGE_SIZE
           /\ (j - 1) * PAGE_SIZE = j * PAGE_SIZE - PAGE_SIZE
           /\ j >= 1 => j * PAGE_SIZE >= PAGE_SIZE
           /\ j <= 0 => j * PAGE_SIZE <= 0
  <1>1. PAGE_SIZE \in Nat /\ PAGE_SIZE > 0
    BY HistoryAssumption
  <1>2. j * PAGE_SIZE \in Int
    BY <1>1
  <1>3. (j + 1) * PAGE_SIZE = j * PAGE_SIZE + PAGE_SIZE
    BY <1>1
  <1>4. (j - 1) * PAGE_SIZE = j * PAGE_SIZE - PAGE_SIZE
    BY <1>1
  <1>5. ASSUME j >= 1 PROVE j * PAGE_SIZE >= PAGE_SIZE
    <2>1. 1 \in Nat /\ j \in Nat /\ 1 <= j
      BY <1>5
    <2>2. 1 * PAGE_SIZE <= j * PAGE_SIZE
      BY <1>1, <2>1, TimesKeepsOrder
    <2> QED BY <1>1, <1>2, <2>2
  <1>6. ASSUME j <= 0 PROVE j * PAGE_SIZE <= 0
    <2> DEFINE i == 0 - j
    <2>1. i \in Nat /\ j = 0 - i
      BY <1>6
    <2>2. i * PAGE_SIZE \in Nat
      BY <1>1, <2>1
    <2>3. j * PAGE_SIZE = 0 - i * PAGE_SIZE
      BY <1>1, <2>1
    <2> HIDE DEF i
    <2> QED BY <2>2, <2>3
  <1> QED BY <1>2, <1>3, <1>4, <1>5, <1>6

\* Seen from the other end
LEMMA FillsTurned ==
    ASSUME NEW a, NEW s, NEW b, NEW k, NEW n, Fills(a, s, b, k, n)
    PROVE  Fills(b, s, a, n + 1 - k, n)
  <1>1. k \in Int /\ n \in Int
    BY DEF Fills
  <1>2. /\ (n + 1 - k) - 2 = n - k - 1 /\ (n + 1 - k) - 1 = n - k
        /\ n - (n + 1 - k) - 1 = k - 2 /\ n - (n + 1 - k) = k - 1
        /\ n + 1 - k \in Int
    BY <1>1
  <1> QED BY <1>2 DEF Fills

\* The page behind
LEMMA FillsNext ==
    ASSUME NEW a, NEW s, NEW b, NEW k, NEW n, Fills(a, s, b, k, n), b > 0,
           NEW t, t = IF b <= PAGE_SIZE THEN b ELSE PAGE_SIZE
    PROVE  Fills(a + s, t, b - t, k + 1, n)
  <1> DEFINE u == k * PAGE_SIZE
             v == (n - k) * PAGE_SIZE
  <1>1. /\ a \in Nat /\ s \in Nat \ {0} /\ b \in Nat /\ k \in Int /\ n \in Int
        /\ s <= PAGE_SIZE /\ (s = PAGE_SIZE \/ a = 0 \/ b = 0)
    BY DEF Fills
  <1>2. PAGE_SIZE \in Nat \ {0}
    BY HistoryAssumption
  <1>3. /\ u \in Int /\ v \in Int
        /\ (k - 1) * PAGE_SIZE = u - PAGE_SIZE
        /\ (n - k - 1) * PAGE_SIZE = v - PAGE_SIZE
    <2>1. u \in Int /\ (k - 1) * PAGE_SIZE = u - PAGE_SIZE
      BY <1>1, PageMultiples
    <2>2. n - k \in Int
      BY <1>1
    <2>3. v \in Int /\ (n - k - 1) * PAGE_SIZE = v - PAGE_SIZE
      BY <2>2, PageMultiples
    <2> QED BY <2>1, <2>3
  <1>4. (k - 2) * PAGE_SIZE = u - PAGE_SIZE - PAGE_SIZE
    <2>1. (k - 1 - 1) * PAGE_SIZE = (k - 1) * PAGE_SIZE - PAGE_SIZE /\ k - 1 - 1 = k - 2
      BY <1>1, PageMultiples
    <2> QED BY <1>3, <2>1
  <1>5. (n - k - 2) * PAGE_SIZE = v - PAGE_SIZE - PAGE_SIZE
    <2>1. (n - k - 1 - 1) * PAGE_SIZE = (n - k - 1) * PAGE_SIZE - PAGE_SIZE
          /\ n - k - 1 - 1 = n - k - 2
      BY <1>1, PageMultiples
    <2> QED BY <1>3, <2>1
  <1>6. /\ u - PAGE_SIZE - PAGE_SIZE < a /\ a <= u - PAGE_SIZE
        /\ v - PAGE_SIZE < b /\ b <= v
    BY <1>3, <1>4 DEF Fills
  <1>7. /\ k >= 1 => u >= PAGE_SIZE
        /\ k - 1 >= 1 => u - PAGE_SIZE >= PAGE_SIZE
        /\ n - k - 1 >= 1 => v - PAGE_SIZE >= PAGE_SIZE
        /\ n - k <= 0 => v <= 0
        /\ k <= 0 => u <= 0
        /\ n - k >= 1 => v >= PAGE_SIZE
    <2>1. k - 1 \in Int /\ n - k \in Int /\ n - k - 1 \in Int
      BY <1>1
    <2> QED BY <1>1, <1>3, <2>1, PageMultiples
  <1>8. /\ (k + 1) - 2 = k - 1 /\ (k + 1) - 1 = k /\ k + 1 \in Int
        /\ n - (k + 1) - 1 = n - k - 2 /\ n - (k + 1) = n - k - 1
    BY <1>1
  <1> HIDE DEF u, v
  <1>9. u - PAGE_SIZE < a + s /\ a + s <= u
    <2>1. CASE s = PAGE_SIZE
      BY <1>1, <1>2, <1>3, <1>6, <2>1
    <2>2. CASE s # PAGE_SIZE
      <3>1. a = 0
        BY <1>1, <2>2
      <3>2. u >= PAGE_SIZE /\ u - PAGE_SIZE < PAGE_SIZE
        BY <1>2, <1>3, <1>6, <3>1
      <3>3. k - 1 <= 0
        BY <1>1, <1>2, <1>3, <1>7, <3>2
      <3>4. u - PAGE_SIZE <= 0
        <4>1. (k - 1) * PAGE_SIZE <= 0
          BY <1>1, <3>3, PageMultiples
        <4> QED BY <1>3, <4>1
      <3> QED BY <1>1, <1>2, <1>3, <3>1, <3>2, <3>4
    <2> QED BY <2>1, <2>2
  <1>10. v >= PAGE_SIZE
    <2>1. v > 0
      BY <1>1, <1>3, <1>6
    <2>2. n - k >= 1
      BY <1>1, <1>3, <1>7, <2>1
    <2> QED BY <1>7, <2>2
  <1>11. /\ t \in Nat \ {0} /\ t <= PAGE_SIZE /\ b - t \in Nat
         /\ (t = PAGE_SIZE \/ b - t = 0)
         /\ v - PAGE_SIZE - PAGE_SIZE < b - t /\ b - t <= v - PAGE_SIZE
    BY <1>1, <1>2, <1>3, <1>6, <1>10
  <1>12. (k + 1 - 1) * PAGE_SIZE = u /\ (k + 1 - 2) * PAGE_SIZE = u - PAGE_SIZE
    BY <1>3, <1>8 DEF u
  <1>13. /\ (n - (k + 1)) * PAGE_SIZE = v - PAGE_SIZE
         /\ (n - (k + 1) - 1) * PAGE_SIZE = v - PAGE_SIZE - PAGE_SIZE
    BY <1>3, <1>5, <1>8
  <1>14. a + s \in Nat
    BY <1>1
  <1> QED BY <1>1, <1>8, <1>9, <1>11, <1>12, <1>13, <1>14 DEF Fills

\* The page of the newest
LEMMA FillsFirst ==
    ASSUME NEW m \in Nat \ {0}, NEW n, FillsPages(m, n),
           NEW t, t = IF m <= PAGE_SIZE THEN m ELSE PAGE_SIZE
    PROVE  Fills(0, t, m - t, 1, n)
  <1>1. PAGE_SIZE \in Nat \ {0}
    BY HistoryAssumption
  <1> DEFINE v == n * PAGE_SIZE
  <1>2. n \in Int /\ n - 1 \in Int /\ n >= 1 /\ v \in Int
    BY <1>1 DEF FillsPages
  <1>3. (n - 1) * PAGE_SIZE = v - PAGE_SIZE /\ v >= PAGE_SIZE
        /\ (n - 1 - 1) * PAGE_SIZE = (n - 1) * PAGE_SIZE - PAGE_SIZE
    BY <1>2, PageMultiples
  <1>4. v - PAGE_SIZE < m /\ m <= v
    BY <1>3 DEF FillsPages
  <1>5. (1 - 2) * PAGE_SIZE = 0 - PAGE_SIZE /\ (1 - 1) * PAGE_SIZE = 0
    BY <1>1
  <1> HIDE DEF v
  <1>6. /\ t \in Nat \ {0} /\ t <= PAGE_SIZE /\ m - t \in Nat
        /\ (n - 1 - 1) * PAGE_SIZE < m - t /\ m - t <= (n - 1) * PAGE_SIZE
    BY <1>1, <1>2, <1>3, <1>4
  <1>7. 0 - PAGE_SIZE < 0
    BY <1>1
  <1>8. 0 \in Nat /\ 1 \in Int /\ 0 <= 0
    OBVIOUS
  <1> QED BY <1>2, <1>5, <1>6, <1>7, <1>8 DEF Fills

\* A label is a page's, and says which end the page is at.
LEMMA FillsLabel ==
    ASSUME NEW a, NEW s, NEW b, NEW k, NEW n, Fills(a, s, b, k, n)
    PROVE  k \in 1..n /\ (k = 1 <=> a = 0) /\ (k = n <=> b = 0)
  <1>1. /\ a \in Nat /\ b \in Nat /\ k \in Int /\ n \in Int
        /\ (k - 2) * PAGE_SIZE < a /\ a <= (k - 1) * PAGE_SIZE
        /\ (n - k - 1) * PAGE_SIZE < b /\ b <= (n - k) * PAGE_SIZE
    BY DEF Fills
  <1>2. PAGE_SIZE \in Nat \ {0}
    BY HistoryAssumption
  <1>3. ASSUME NEW i \in Int, NEW c \in Nat, (i - 1) * PAGE_SIZE < c, c <= i * PAGE_SIZE
        PROVE  i >= 0 /\ (i = 0 <=> c = 0)
    <2>1. /\ i * PAGE_SIZE \in Int
          /\ (i - 1) * PAGE_SIZE = i * PAGE_SIZE - PAGE_SIZE
          /\ i <= 0 => i * PAGE_SIZE <= 0
          /\ i >= 1 => i * PAGE_SIZE >= PAGE_SIZE
          /\ i - 1 >= 1 => (i - 1) * PAGE_SIZE >= PAGE_SIZE
      <3>1. i - 1 \in Int
        OBVIOUS
      <3> QED BY <3>1, PageMultiples
    <2>2. (i - 1) * PAGE_SIZE \in Int
      BY <1>2, <2>1
    <2>3. i + 1 \in Int /\ (i + 1 <= 0 => (i + 1) * PAGE_SIZE <= 0)
          /\ (i + 1) * PAGE_SIZE = i * PAGE_SIZE + PAGE_SIZE
      BY PageMultiples
    <2>4. i >= 0
      BY <1>2, <1>3, <2>1, <2>3
    <2>5. i = 0 => c = 0
      BY <1>3, <2>1
    <2>6. c = 0 => i = 0
      <3> SUFFICES ASSUME c = 0, i >= 1 PROVE FALSE
        BY <2>4
      <3>1. (i - 1) * PAGE_SIZE < 0
        BY <1>3
      <3>2. i * PAGE_SIZE >= PAGE_SIZE
        BY <2>1
      <3> QED BY <1>2, <2>1, <3>1, <3>2
    <2> QED BY <2>4, <2>5, <2>6
  <1>4. k - 1 \in Int /\ n - k \in Int /\ k - 1 - 1 = k - 2
    BY <1>1
  <1>5. k - 1 >= 0 /\ (k - 1 = 0 <=> a = 0)
    BY <1>1, <1>3, <1>4
  <1>6. n - k >= 0 /\ (n - k = 0 <=> b = 0)
    BY <1>1, <1>3, <1>4
  <1> QED BY <1>1, <1>5, <1>6

-----------------------------------------------------------------------------

\* What Largest and Smallest take from some transactions
Takes(taken, txs) ==
    /\ IsFiniteSet(taken) /\ taken \subseteq txs
    /\ Cardinality(taken) = IF Cardinality(txs) <= PAGE_SIZE THEN Cardinality(txs) ELSE PAGE_SIZE
    /\ txs # {} => taken # {}
    /\ Cardinality(txs \ taken) = Cardinality(txs) - Cardinality(taken)

LEMMA PageIsTaken ==
    ASSUME NEW txs, AreTxs(txs)
    PROVE  /\ Takes(Largest(PAGE_SIZE, txs), txs)
           /\ Takes(Smallest(PAGE_SIZE, txs), txs)
           /\ \A x \in Largest(PAGE_SIZE, txs), y \in txs \ Largest(PAGE_SIZE, txs) : y < x
           /\ \A x \in Smallest(PAGE_SIZE, txs), y \in txs \ Smallest(PAGE_SIZE, txs) : x < y
  <1>1. /\ PAGE_SIZE \in Nat \ {0} /\ IsFiniteSet(txs) /\ txs \subseteq Int
        /\ Cardinality(txs) \in Nat
    BY HistoryAssumption, FS_CardinalityType DEF AreTxs
  <1>2. ASSUME NEW taken, IsFiniteSet(taken), taken \subseteq txs,
               Cardinality(taken) <= PAGE_SIZE, Cardinality(taken) < PAGE_SIZE => taken = txs
        PROVE  Takes(taken, txs)
    <2>1. Cardinality(taken) \in Nat /\ Cardinality(taken) <= Cardinality(txs)
      BY <1>1, <1>2, FS_CardinalityType, FS_Subset
    <2>2. Cardinality(taken)
             = IF Cardinality(txs) <= PAGE_SIZE THEN Cardinality(txs) ELSE PAGE_SIZE
      <3>1. CASE taken = txs
        BY <1>1, <1>2, <3>1
      <3>2. CASE taken # txs
        <4>1. Cardinality(taken) = PAGE_SIZE
          BY <1>1, <1>2, <2>1, <3>2
        <4> QED BY <1>1, <2>1, <4>1
      <3> QED BY <3>1, <3>2
    <2>3. txs # {} => taken # {}
      BY <1>1, <1>2, FS_EmptySet
    <2>4. Cardinality(txs \ taken) = Cardinality(txs) - Cardinality(taken)
      <3>1. txs \cap taken = taken
        BY <1>2
      <3> QED BY <1>1, <3>1, FS_Difference
    <2> QED BY <1>2, <2>2, <2>3, <2>4 DEF Takes
  <1>3. Takes(Largest(PAGE_SIZE, txs), txs)
    <2>1. /\ IsFiniteSet(Largest(PAGE_SIZE, txs)) /\ Largest(PAGE_SIZE, txs) \subseteq txs
          /\ Cardinality(Largest(PAGE_SIZE, txs)) <= PAGE_SIZE
          /\ Cardinality(Largest(PAGE_SIZE, txs)) < PAGE_SIZE => Largest(PAGE_SIZE, txs) = txs
      BY <1>1, LargestAreFew, LargestAreAll
    <2> QED BY <1>2, <2>1
  <1>4. /\ IsFiniteSet(Smallest(PAGE_SIZE, txs)) /\ Smallest(PAGE_SIZE, txs) \subseteq txs
        /\ Cardinality(Smallest(PAGE_SIZE, txs)) <= PAGE_SIZE
        /\ Cardinality(Smallest(PAGE_SIZE, txs)) < PAGE_SIZE => Smallest(PAGE_SIZE, txs) = txs
        /\ \A x \in Smallest(PAGE_SIZE, txs), y \in txs : y <= x => y \in Smallest(PAGE_SIZE, txs)
    BY <1>1, SmallestAreFew
  <1>5. Takes(Smallest(PAGE_SIZE, txs), txs)
    BY <1>2, <1>4
  <1>6. ASSUME NEW x \in Largest(PAGE_SIZE, txs), NEW y \in txs \ Largest(PAGE_SIZE, txs)
        PROVE  y < x
    <2>1. x \in Int /\ y \in Int
      BY <1>1, <1>3 DEF Takes
    <2>2. ~(y >= x)
      BY <1>1, <1>6, LargestIsUpward
    <2> QED BY <2>1, <2>2
  <1>7. ASSUME NEW x \in Smallest(PAGE_SIZE, txs), NEW y \in txs \ Smallest(PAGE_SIZE, txs)
        PROVE  x < y
    <2>1. x \in Int /\ y \in Int
      BY <1>1, <1>4
    <2>2. ~(y <= x)
      BY <1>4, <1>7
    <2> QED BY <2>1, <2>2
  <1> QED BY <1>3, <1>5, <1>6, <1>7

\* Turned around, a page counts from the other end.
LEMMA FirstPage ==
    ASSUME NEW txs, AreTxs(txs), txs # {}, NEW n, FillsPages(Cardinality(txs), n)
    PROVE  /\ IsPage(txs, Largest(PAGE_SIZE, txs), 1, n)
           /\ IsPage(txs, Smallest(PAGE_SIZE, txs), n, n)
  <1>1. Cardinality(txs) \in Nat \ {0} /\ Cardinality({}) = 0 /\ IsFiniteSet(txs)
    BY FS_CardinalityType, FS_EmptySet DEF AreTxs
  <1> DEFINE m == Cardinality(txs)
             t == IF m <= PAGE_SIZE THEN m ELSE PAGE_SIZE
  <1>2. Fills(0, t, m - t, 1, n)
    <2> HIDE DEF m
    <2> QED BY <1>1, FillsFirst DEF m
  <1>3. Fills(m - t, t, 0, n, n)
    <2>1. Fills(m - t, t, 0, n + 1 - 1, n)
      <3> HIDE DEF m, t
      <3> QED BY <1>2, FillsTurned
    <2>2. n + 1 - 1 = n
      BY DEF FillsPages
    <2> QED BY <2>1, <2>2
  <1>4. IsPage(txs, Largest(PAGE_SIZE, txs), 1, n)
    <2> DEFINE d == Largest(PAGE_SIZE, txs)
    <2>1. Takes(d, txs) /\ \A x \in d, y \in txs \ d : y < x
      BY PageIsTaken
    <2>2. Cardinality(d) = t /\ Cardinality(txs \ d) = m - t
      BY <2>1 DEF Takes
    <2> HIDE DEF d, t, m
    <2>3. Split(txs, {}, d, txs \ d)
      BY <2>1 DEF Split, Takes
    <2>4. Fills(Cardinality({}), Cardinality(d), Cardinality(txs \ d), 1, n)
      BY <1>1, <1>2, <2>2
    <2>5. {} \in SUBSET txs /\ txs \ d \in SUBSET txs
      OBVIOUS
    <2> QED BY <2>3, <2>4, <2>5 DEF IsPage, d
  <1>5. IsPage(txs, Smallest(PAGE_SIZE, txs), n, n)
    <2> DEFINE d == Smallest(PAGE_SIZE, txs)
    <2>1. Takes(d, txs) /\ \A x \in d, y \in txs \ d : x < y
      BY PageIsTaken
    <2>2. Cardinality(d) = t /\ Cardinality(txs \ d) = m - t
      BY <2>1 DEF Takes
    <2> HIDE DEF d, t, m
    <2>3. Split(txs, txs \ d, d, {})
      BY <2>1 DEF Split, Takes
    <2>4. Fills(Cardinality(txs \ d), Cardinality(d), Cardinality({}), n, n)
      BY <1>1, <1>3, <2>2
    <2>5. {} \in SUBSET txs /\ txs \ d \in SUBSET txs
      OBVIOUS
    <2> QED BY <2>3, <2>4, <2>5 DEF IsPage, d
  <1> QED BY <1>4, <1>5

\* The page that the Next link leads to
LEMMA NextPage ==
    ASSUME NEW txs, NEW d, NEW k, NEW n, IsPage(txs, d, k, n),
           NEW c \in d, \A x \in d : c <= x,
           NEW rest, rest = {x \in txs : x < c}, rest # {}
    PROVE  IsPage(txs, Largest(PAGE_SIZE, rest), k + 1, n)
  <1>1. PICK newer, older \in SUBSET txs :
           /\ Split(txs, newer, d, older)
           /\ Fills(Cardinality(newer), Cardinality(d), Cardinality(older), k, n)
    BY DEF IsPage
  <1>2. /\ IsFiniteSet(txs) /\ txs \subseteq Int /\ txs = newer \cup d \cup older
        /\ \A x \in newer, y \in d : y < x
        /\ \A x \in d, y \in older : y < x
        /\ \A x \in newer, y \in older : y < x
    BY <1>1 DEF Split, AreTxs
  <1>3. rest = older
    <2>1. ASSUME NEW x \in rest PROVE x \in older
      <3>1. x \in Int /\ c \in Int /\ x < c
        BY <1>2
      <3>2. x \notin d /\ x \notin newer
        BY <1>2, <3>1
      <3> QED BY <1>2, <3>2
    <2> QED BY <1>2, <2>1
  <1> DEFINE e == Largest(PAGE_SIZE, older)
  <1>4. IsFiniteSet(newer) /\ IsFiniteSet(d) /\ IsFiniteSet(older) /\ AreTxs(older)
    BY <1>2, FS_Subset DEF AreTxs
  <1>5. Takes(e, older) /\ \A x \in e, y \in older \ e : y < x
    BY <1>4, PageIsTaken
  <1> HIDE DEF e
  <1>6. Cardinality(newer \cup d) = Cardinality(newer) + Cardinality(d)
    <2>1. newer \cap d = {}
      <3> SUFFICES ASSUME NEW x \in newer, x \in d PROVE FALSE
        OBVIOUS
      <3>1. x < x /\ x \in Int
        BY <1>2
      <3> QED BY <3>1
    <2>2. Cardinality(newer) \in Nat /\ Cardinality(d) \in Nat
      BY <1>4, FS_CardinalityType
    <2>3. Cardinality(newer \cup d)
             = Cardinality(newer) + Cardinality(d) - Cardinality(newer \cap d)
      BY <1>4, FS_Union
    <2>4. Cardinality(newer \cap d) = 0
      BY <2>1, FS_EmptySet
    <2> QED BY <2>2, <2>3, <2>4
  <1>7. Cardinality(older) \in Nat \ {0}
    BY <1>3, <1>4, FS_CardinalityType, FS_EmptySet
  <1>8. Fills(Cardinality(newer) + Cardinality(d), Cardinality(e),
              Cardinality(older) - Cardinality(e), k + 1, n)
    BY <1>1, <1>5, <1>7, FillsNext DEF Takes
  <1>9. Split(txs, newer \cup d, e, older \ e)
    BY <1>2, <1>3, <1>5 DEF Split, Takes, AreTxs
  <1>10. newer \cup d \in SUBSET txs /\ older \ e \in SUBSET txs
    BY <1>2
  <1>11. Fills(Cardinality(newer \cup d), Cardinality(e), Cardinality(older \ e), k + 1, n)
    BY <1>5, <1>6, <1>8 DEF Takes
  <1> QED BY <1>3, <1>9, <1>10, <1>11 DEF IsPage, e

\* The page that the Previous link leads to
LEMMA PreviousPage ==
    ASSUME NEW txs, NEW d, NEW k, NEW n, IsPage(txs, d, k, n),
           NEW c \in d, \A x \in d : x <= c,
           NEW rest, rest = {x \in txs : x > c}, rest # {}
    PROVE  IsPage(txs, Smallest(PAGE_SIZE, rest), k - 1, n)
  <1>1. PICK newer, older \in SUBSET txs :
           /\ Split(txs, newer, d, older)
           /\ Fills(Cardinality(newer), Cardinality(d), Cardinality(older), k, n)
    BY DEF IsPage
  <1>2. /\ IsFiniteSet(txs) /\ txs \subseteq Int /\ txs = newer \cup d \cup older
        /\ \A x \in newer, y \in d : y < x
        /\ \A x \in d, y \in older : y < x
        /\ \A x \in newer, y \in older : y < x
    BY <1>1 DEF Split, AreTxs
  <1>3. rest = newer
    <2>1. ASSUME NEW x \in rest PROVE x \in newer
      <3>1. x \in Int /\ c \in Int /\ x > c
        BY <1>2
      <3>2. x \notin d /\ x \notin older
        BY <1>2, <3>1
      <3> QED BY <1>2, <3>2
    <2>2. ASSUME NEW x \in newer PROVE x \in rest
      <3>1. x \in Int /\ c \in Int /\ c < x
        BY <1>2
      <3> QED BY <1>2, <3>1
    <2> QED BY <2>1, <2>2
  <1> DEFINE e == Smallest(PAGE_SIZE, newer)
  <1>4. IsFiniteSet(newer) /\ IsFiniteSet(d) /\ IsFiniteSet(older) /\ AreTxs(newer)
    BY <1>2, FS_Subset DEF AreTxs
  <1>5. Takes(e, newer) /\ \A x \in e, y \in newer \ e : x < y
    BY <1>4, PageIsTaken
  <1> HIDE DEF e
  <1>6. Cardinality(d \cup older) = Cardinality(older) + Cardinality(d)
    <2>1. d \cap older = {}
      <3> SUFFICES ASSUME NEW x \in older, x \in d PROVE FALSE
        OBVIOUS
      <3>1. x < x /\ x \in Int
        BY <1>2
      <3> QED BY <3>1
    <2>2. Cardinality(older) \in Nat /\ Cardinality(d) \in Nat
      BY <1>4, FS_CardinalityType
    <2>3. Cardinality(d \cup older)
             = Cardinality(d) + Cardinality(older) - Cardinality(d \cap older)
      BY <1>4, FS_Union
    <2>4. Cardinality(d \cap older) = 0
      BY <2>1, FS_EmptySet
    <2> QED BY <2>2, <2>3, <2>4
  <1>7. Cardinality(newer) \in Nat \ {0}
    BY <1>3, <1>4, FS_CardinalityType, FS_EmptySet
  <1>8. Fills(Cardinality(older) + Cardinality(d), Cardinality(e),
              Cardinality(newer) - Cardinality(e), n + 1 - k + 1, n)
    <2>1. Fills(Cardinality(older), Cardinality(d), Cardinality(newer), n + 1 - k, n)
      BY <1>1, FillsTurned
    <2> QED BY <1>5, <1>7, <2>1, FillsNext DEF Takes
  <1>9. Fills(Cardinality(newer) - Cardinality(e), Cardinality(e),
              Cardinality(older) + Cardinality(d), k - 1, n)
    <2>1. n + 1 - (n + 1 - k + 1) = k - 1
      BY <1>1 DEF Fills
    <2>2. Fills(Cardinality(newer) - Cardinality(e), Cardinality(e),
                Cardinality(older) + Cardinality(d), n + 1 - (n + 1 - k + 1), n)
      BY <1>8, FillsTurned
    <2> QED BY <2>1, <2>2
  <1>10. Split(txs, newer \ e, e, d \cup older)
    BY <1>2, <1>3, <1>5 DEF Split, Takes, AreTxs
  <1>11. newer \ e \in SUBSET txs /\ d \cup older \in SUBSET txs
    BY <1>2
  <1>12. Fills(Cardinality(newer \ e), Cardinality(e), Cardinality(d \cup older), k - 1, n)
    BY <1>5, <1>6, <1>9 DEF Takes
  <1> QED BY <1>3, <1>10, <1>11, <1>12 DEF IsPage, e

\* The labels 1 and n are those of the pages at the ends.
LEMMA EndsOfPages ==
    ASSUME NEW txs, NEW d, NEW k, NEW n, IsPage(txs, d, k, n),
           NEW top \in txs, \A x \in txs : x <= top,
           NEW bottom \in txs, \A x \in txs : bottom <= x
    PROVE  k \in 1..n /\ (k = 1 <=> top \in d) /\ (k = n <=> bottom \in d)
  <1>1. PICK newer, older \in SUBSET txs :
           /\ Split(txs, newer, d, older)
           /\ Fills(Cardinality(newer), Cardinality(d), Cardinality(older), k, n)
    BY DEF IsPage
  <1>2. /\ IsFiniteSet(txs) /\ txs \subseteq Int /\ txs = newer \cup d \cup older
        /\ d # {}
        /\ \A x \in newer, y \in d : y < x
        /\ \A x \in d, y \in older : y < x
        /\ \A x \in newer, y \in older : y < x
    BY <1>1 DEF Split, AreTxs
  <1>3. k \in 1..n /\ (k = 1 <=> Cardinality(newer) = 0) /\ (k = n <=> Cardinality(older) = 0)
    BY <1>1, FillsLabel
  <1>4. (Cardinality(newer) = 0 <=> newer = {}) /\ (Cardinality(older) = 0 <=> older = {})
    BY <1>2, FS_Subset, FS_EmptySet
  <1>5. PICK y \in d : TRUE
    BY <1>2
  <1>6. newer = {} <=> top \in d
    <2>1. ASSUME newer = {} PROVE top \in d
      <3> SUFFICES ASSUME top \in older PROVE FALSE
        BY <1>2, <2>1
      <3>1. top < y /\ y <= top /\ y \in Int /\ top \in Int
        BY <1>2, <1>5
      <3> QED BY <3>1
    <2>2. ASSUME top \in d, NEW x \in newer PROVE FALSE
      <3>1. top < x /\ x <= top /\ x \in Int /\ top \in Int
        BY <1>2, <2>2
      <3> QED BY <3>1
    <2> QED BY <2>1, <2>2
  <1>7. older = {} <=> bottom \in d
    <2>1. ASSUME older = {} PROVE bottom \in d
      <3> SUFFICES ASSUME bottom \in newer PROVE FALSE
        BY <1>2, <2>1
      <3>1. y < bottom /\ bottom <= y /\ y \in Int /\ bottom \in Int
        BY <1>2, <1>5
      <3> QED BY <3>1
    <2>2. ASSUME bottom \in d, NEW x \in older PROVE FALSE
      <3>1. x < bottom /\ bottom <= x /\ x \in Int /\ bottom \in Int
        BY <1>2, <2>2
      <3> QED BY <3>1
    <2> QED BY <2>1, <2>2
  <1> QED BY <1>3, <1>4, <1>6, <1>7

-----------------------------------------------------------------------------

TxsOf(s, h) == {tx \in 1..h : s \in {"all", A!StatusOf(tx)}}
TxsBeyond(s, p, h) ==
    {tx \in TxsOf(s, h) : \/ p.cursor = 0
                          \/ p.order = "desc" /\ tx < p.cursor
                          \/ p.order = "asc" /\ tx > p.cursor}
PageAt(s, p, h) ==
    IF p.order = "desc" THEN Largest(PAGE_SIZE, TxsBeyond(s, p, h))
                        ELSE Smallest(PAGE_SIZE, TxsBeyond(s, p, h))
CappedAt(s, h) == h # A!NoTotal /\ Cardinality(TxsOf(s, h)) > TotalCap
PagesAt(s, h) == A!PagesFor(Cardinality(TxsOf(s, h)))
CountAt(s, h) ==
    IF h = A!NoTotal THEN A!NoPage
                     ELSE A!PagesFor(A!Min({Cardinality(TxsOf(s, h)), TotalCap}))
LabelAt(p, l, s, h) ==
    IF p = A!Latest THEN 1 ELSE IF p = A!Oldest /\ ~CappedAt(s, h) THEN CountAt(s, h) ELSE l

Positions == [order : {"asc", "desc"}, cursor : 0..MaxCount]
Pages == Nat \ {0}

HistoryTypedAt(n, s, p, latestH, d, h, l) ==
    /\ n \in FirstCount..MaxCount /\ s \in A!Statuses /\ p \in Positions
    /\ latestH \in FirstCount..n /\ d \in FirstCount..n
    /\ h \in {A!NoTotal} \cup FirstCount..n
    /\ l \in {A!NoPage} \cup Pages

\* Of a history that has not grown, the page shown is the one of its label.
LabelledAt(n, s, p, d, h, l) ==
    n = FirstCount /\ TxsOf(s, n) # {} /\ LabelAt(p, l, s, h) # A!NoPage =>
        IsPage(TxsOf(s, n), PageAt(s, p, d), LabelAt(p, l, s, h), PagesAt(s, n))

\* The Last link's label, whether it is the one shown or not
LastLabelled(n, s, p, l) ==
    n = FirstCount /\ p = A!Oldest /\ l # A!NoPage => l = PagesAt(s, n)

\* However the history grows, a label of l says that more than l - 2 pages are
\* newer than the page's cursor, which is itself as new or newer; counted from the
\* oldest, that more than l - 1 pages are from the cursor on.
AtLeast(c, txs) == {x \in txs : x >= c}
Leads(n, s, p, l) ==
    l # A!NoPage =>
        /\ p.order = "asc" =>
              l = 1 \/ (l - 1) * PAGE_SIZE < Cardinality(TxsBeyond(s, p, n))
        /\ p.order = "desc" /\ p.cursor # 0 =>
              (l - 2) * PAGE_SIZE < Cardinality(AtLeast(p.cursor, TxsOf(s, n)))

HistoryInv ==
    /\ HistoryTypedAt(txCount, status, position, latestAt, dataAt, totalAt, label)
    /\ LabelledAt(txCount, status, position, dataAt, totalAt, label)
    /\ LastLabelled(txCount, status, position, label)
    /\ Leads(txCount, status, position, label)

LEMMA HistoryCardinality == \A set : A!Cardinality(set) = Cardinality(set)
  BY Zenon DEF A!Cardinality, Cardinality, A!IsFiniteSet, IsFiniteSet

LEMMA HistoryPages ==
    /\ \A h : A!Matching(h) = TxsOf(status, h)
    /\ \A p, h : A!Beyond(p, h) = TxsBeyond(status, p, h)
    /\ \A p, h : A!Rows(p, h) = PageAt(status, p, h)
  <1>1. \A h : A!Matching(h) = TxsOf(status, h)
    BY DEF A!Matching, TxsOf
  <1>2. \A p, h : A!Beyond(p, h) = TxsBeyond(status, p, h)
    BY <1>1 DEF A!Beyond, TxsBeyond, A!NoCursor
  <1>3. ASSUME NEW p, NEW h PROVE A!Rows(p, h) = PageAt(status, p, h)
    <2> DEFINE txs == TxsBeyond(status, p, h)
    <2>1. CASE p.order = "desc"
      <3>1. A!Rows(p, h) = {tx \in txs : A!Cardinality({other \in txs : other > tx}) < PAGE_SIZE}
        BY <1>2, <2>1 DEF A!Rows
      <3>2. \A tx : {other \in txs : other > tx} = Above(tx, txs)
        BY DEF Above
      <3> HIDE DEF txs
      <3> QED BY <2>1, <3>1, <3>2, HistoryCardinality DEF PageAt, Largest, txs
    <2>2. CASE p.order # "desc"
      <3>1. A!Rows(p, h) = {tx \in txs : A!Cardinality({other \in txs : other < tx}) < PAGE_SIZE}
        BY <1>2, <2>2 DEF A!Rows
      <3>2. \A tx : {other \in txs : other < tx} = Below(tx, txs)
        BY DEF Below
      <3> HIDE DEF txs
      <3> QED BY <2>2, <3>1, <3>2, HistoryCardinality DEF PageAt, Smallest, txs
    <2> QED BY <2>1, <2>2
  <1> QED BY <1>1, <1>2, <1>3

LEMMA HistoryPagesNext ==
    /\ A!Matching(txCount)' = TxsOf(status', txCount')
    /\ A!Shown' = PageAt(status', position', dataAt')
  <1>1. \A h : A!Matching(h)' = TxsOf(status', h')
    BY DEF A!Matching, TxsOf
  <1>2. A!Matching(txCount)' = TxsOf(status', txCount')
    BY DEF A!Matching, TxsOf
  <1>3. A!Beyond(position, dataAt)' = TxsBeyond(status', position', dataAt')
    BY DEF A!Beyond, A!Matching, TxsBeyond, TxsOf, A!NoCursor
  <1> DEFINE txs == TxsBeyond(status', position', dataAt')
  <1>4. CASE position'.order = "desc"
    <2>1. A!Shown' = {tx \in txs : A!Cardinality({other \in txs : other > tx}) < PAGE_SIZE}
      BY <1>3, <1>4 DEF A!Shown, A!Rows
    <2>2. \A tx : {other \in txs : other > tx} = Above(tx, txs)
      BY DEF Above
    <2> HIDE DEF txs
    <2> QED BY <1>2, <1>4, <2>1, <2>2, HistoryCardinality DEF PageAt, Largest, txs
  <1>5. CASE position'.order # "desc"
    <2>1. A!Shown' = {tx \in txs : A!Cardinality({other \in txs : other < tx}) < PAGE_SIZE}
      BY <1>3, <1>5 DEF A!Shown, A!Rows
    <2>2. \A tx : {other \in txs : other < tx} = Below(tx, txs)
      BY DEF Below
    <2> HIDE DEF txs
    <2> QED BY <1>2, <1>5, <2>1, <2>2, HistoryCardinality DEF PageAt, Smallest, txs
  <1> QED BY <1>4, <1>5

LEMMA TxsAreNumbers ==
    ASSUME NEW s, NEW h \in Nat, NEW p
    PROVE  AreTxs(TxsOf(s, h)) /\ AreTxs(TxsBeyond(s, p, h))
           /\ TxsBeyond(s, p, h) \subseteq TxsOf(s, h)
  <1>1. IsFiniteSet(1..h) /\ 1..h \subseteq Int
    BY FS_Interval
  <1>2. TxsOf(s, h) \in SUBSET (1..h) /\ TxsBeyond(s, p, h) \in SUBSET (1..h)
        /\ TxsBeyond(s, p, h) \subseteq TxsOf(s, h)
    BY DEF TxsOf, TxsBeyond
  <1> QED BY <1>1, <1>2, FS_Subset DEF AreTxs

LEMMA PageOfPosition ==
    ASSUME NEW s, NEW h \in Nat, NEW p
    PROVE  Takes(PageAt(s, p, h), TxsBeyond(s, p, h))
  BY TxsAreNumbers, PageIsTaken DEF PageAt

LEMMA PairIsFinite == ASSUME NEW x, NEW y PROVE IsFiniteSet({x, y})
  <1>1. IsFiniteSet({x}) /\ IsFiniteSet({y})
    BY FS_Singleton
  <1>2. IsFiniteSet({x} \cup {y})
    BY <1>1, FS_Union
  <1>3. {x, y} = {x} \cup {y}
    OBVIOUS
  <1> QED BY <1>2, <1>3

LEMMA HistoryMax ==
    ASSUME NEW set, IsFiniteSet(set), set \subseteq Int, set # {}
    PROVE  /\ A!Max(set) \in set /\ \A x \in set : x <= A!Max(set)
           /\ A!Min(set) \in set /\ \A x \in set : A!Min(set) <= x
  <1>1. PICK m \in set : \A x \in set : x <= m
    BY GreatestExists
  <1>2. PICK i \in set : \A x \in set : i <= x
    BY LeastExists
  <1>3. \E x \in set : \A y \in set : x >= y
    BY <1>1
  <1>4. \E x \in set : \A y \in set : x =< y
    BY <1>2
  <1>5. A!Max(set) \in set /\ \A y \in set : A!Max(set) >= y
    BY <1>3 DEF A!Max
  <1>6. A!Min(set) \in set /\ \A y \in set : A!Min(set) =< y
    BY <1>4 DEF A!Min
  <1>7. \A x \in set : x <= A!Max(set)
    BY <1>5
  <1> QED BY <1>5, <1>6, <1>7

\* PagesFor is the number of pages that some transactions fill.
LEMMA PagesForFills ==
    ASSUME NEW m \in Nat
    PROVE  /\ A!PagesFor(m) \in Pages
           /\ m # 0 => FillsPages(m, A!PagesFor(m))
           /\ A!PagesFor(m) = 1 \/ (A!PagesFor(m) - 1) * PAGE_SIZE < m
  <1> DEFINE q == (m + PAGE_SIZE - 1) \div PAGE_SIZE
  <1>1. PAGE_SIZE \in Nat \ {0}
    BY HistoryAssumption
  <1>2. A!PagesFor(m) = A!Max({1, q})
    BY DEF A!PagesFor
  <1>3. /\ q \in Int /\ q * PAGE_SIZE \in Int
        /\ q * PAGE_SIZE <= m + PAGE_SIZE - 1
        /\ m + PAGE_SIZE - 1 < q * PAGE_SIZE + PAGE_SIZE
    BY <1>1
  <1> HIDE DEF q
  <1>4. (q - 1) * PAGE_SIZE < m /\ m <= q * PAGE_SIZE
    <2>1. (q - 1) * PAGE_SIZE = q * PAGE_SIZE - PAGE_SIZE
      BY <1>3, PageMultiples
    <2> QED BY <1>1, <1>3, <2>1
  <1>5. A!Max({1, q}) \in {1, q} /\ 1 <= A!Max({1, q}) /\ q <= A!Max({1, q})
    <2>1. IsFiniteSet({1, q})
      BY PairIsFinite
    <2>2. {1, q} \subseteq Int /\ {1, q} # {} /\ 1 \in {1, q} /\ q \in {1, q}
      BY <1>3
    <2> QED BY <2>1, <2>2, HistoryMax
  <1>6. A!PagesFor(m) \in Pages
    BY <1>2, <1>3, <1>5 DEF Pages
  <1>7. ASSUME m # 0 PROVE A!PagesFor(m) = q
    <2>1. q <= 0 => q * PAGE_SIZE <= 0
      BY <1>3, PageMultiples
    <2>2. q >= 1
      BY <1>3, <1>4, <1>7, <2>1
    <2> QED BY <1>2, <1>3, <1>5, <2>2
  <1>8. m # 0 => FillsPages(m, A!PagesFor(m))
    BY <1>4, <1>6, <1>7 DEF FillsPages, Pages
  <1>9. m = 0 => A!PagesFor(m) = 1
    <2>1. q >= 1 => q * PAGE_SIZE >= PAGE_SIZE
      BY <1>3, PageMultiples
    <2> QED BY <1>1, <1>2, <1>3, <1>5, <2>1
  <1> QED BY <1>6, <1>8, <1>9 DEF FillsPages

LEMMA TxsAreCounted ==
    ASSUME NEW s, NEW h \in Nat
    PROVE  /\ Cardinality(TxsOf(s, h)) \in Nat
           /\ TxsOf(s, h) # {} => Cardinality(TxsOf(s, h)) # 0
           /\ A!Min({Cardinality(TxsOf(s, h)), TotalCap}) \in Nat
           /\ A!Min({Cardinality(TxsOf(s, h)), TotalCap}) <= Cardinality(TxsOf(s, h))
           /\ ~CappedAt(s, h) =>
                 A!Min({Cardinality(TxsOf(s, h)), TotalCap}) = Cardinality(TxsOf(s, h))
  <1> DEFINE m == Cardinality(TxsOf(s, h))
  <1>1. IsFiniteSet(TxsOf(s, h)) /\ TotalCap \in Nat
    BY TxsAreNumbers, HistoryAssumption DEF AreTxs
  <1>2. m \in Nat /\ (TxsOf(s, h) # {} => m # 0)
    BY <1>1, FS_CardinalityType, FS_EmptySet
  <1>3. ~CappedAt(s, h) => m <= TotalCap
    <2>1. h # A!NoTotal
      BY DEF A!NoTotal
    <2> QED BY <1>1, <1>2, <2>1 DEF CappedAt
  <1> HIDE DEF m
  <1>4. A!Min({m, TotalCap}) \in {m, TotalCap} /\ A!Min({m, TotalCap}) <= m
        /\ A!Min({m, TotalCap}) <= TotalCap
    <2>1. IsFiniteSet({m, TotalCap})
      BY PairIsFinite
    <2>2. /\ {m, TotalCap} \subseteq Int /\ {m, TotalCap} # {}
          /\ m \in {m, TotalCap} /\ TotalCap \in {m, TotalCap}
      BY <1>1, <1>2
    <2> QED BY <2>1, <2>2, HistoryMax
  <1>5. /\ A!Min({m, TotalCap}) \in Nat /\ A!Min({m, TotalCap}) <= m
        /\ ~CappedAt(s, h) => A!Min({m, TotalCap}) = m
    BY <1>1, <1>2, <1>3, <1>4
  <1> QED BY <1>2, <1>5 DEF m

\* The number of pages in the page's own count, and in the whole history
LEMMA CountIsTyped ==
    ASSUME NEW s, NEW h \in {A!NoTotal} \cup Nat
    PROVE  /\ CountAt(s, h) \in {A!NoPage} \cup Pages
           /\ CountAt(s, h) # A!NoPage =>
                 /\ h \in Nat
                 /\ CountAt(s, h) = 1
                    \/ (CountAt(s, h) - 1) * PAGE_SIZE < Cardinality(TxsOf(s, h))
                 /\ ~CappedAt(s, h) => CountAt(s, h) = PagesAt(s, h)
  <1>1. CASE h = A!NoTotal
    BY <1>1 DEF CountAt
  <1>2. CASE h # A!NoTotal
    <2> DEFINE m == A!Min({Cardinality(TxsOf(s, h)), TotalCap})
    <2>1. h \in Nat /\ CountAt(s, h) = A!PagesFor(m)
      BY <1>2 DEF CountAt
    <2>2. /\ m \in Nat /\ m <= Cardinality(TxsOf(s, h)) /\ Cardinality(TxsOf(s, h)) \in Nat
          /\ ~CappedAt(s, h) => m = Cardinality(TxsOf(s, h))
      BY <2>1, TxsAreCounted
    <2> HIDE DEF m
    <2>3. A!PagesFor(m) \in Pages
          /\ (A!PagesFor(m) = 1 \/ (A!PagesFor(m) - 1) * PAGE_SIZE < m)
      BY <2>2, PagesForFills
    <2>4. (A!PagesFor(m) - 1) * PAGE_SIZE \in Int
      BY <2>3, HistoryAssumption DEF Pages
    <2>5. A!PagesFor(m) = 1 \/ (A!PagesFor(m) - 1) * PAGE_SIZE < Cardinality(TxsOf(s, h))
      BY <2>2, <2>3, <2>4
    <2> QED BY <2>1, <2>2, <2>3, <2>5 DEF PagesAt
  <1> QED BY <1>1, <1>2

LEMMA PagesAreFilled ==
    ASSUME NEW s, NEW h \in Nat, TxsOf(s, h) # {}
    PROVE  FillsPages(Cardinality(TxsOf(s, h)), PagesAt(s, h))
  BY TxsAreCounted, PagesForFills DEF PagesAt

LEMMA TypedHistory ==
    ASSUME HistoryInv
    PROVE  /\ txCount \in FirstCount..MaxCount /\ status \in A!Statuses /\ position \in Positions
           /\ latestAt \in FirstCount..txCount /\ dataAt \in FirstCount..txCount
           /\ totalAt \in {A!NoTotal} \cup FirstCount..txCount
           /\ label \in {A!NoPage} \cup Pages
           /\ FirstCount \in Nat /\ MaxCount \in Nat /\ txCount \in Nat /\ latestAt \in Nat
           /\ dataAt \in Nat /\ totalAt \in {A!NoTotal} \cup Nat /\ A!NoPage = -1
  <1>1. /\ txCount \in FirstCount..MaxCount /\ status \in A!Statuses /\ position \in Positions
        /\ latestAt \in FirstCount..txCount /\ dataAt \in FirstCount..txCount
        /\ totalAt \in {A!NoTotal} \cup FirstCount..txCount
        /\ label \in {A!NoPage} \cup Pages
    BY DEF HistoryInv, HistoryTypedAt
  <1> QED BY <1>1, HistoryAssumption DEF A!NoPage

LEMMA HistoryLabels ==
    ASSUME HistoryInv
    PROVE  /\ A!countCapped <=> CappedAt(status, totalAt)
           /\ A!pageCount = CountAt(status, totalAt)
           /\ A!currentPage = LabelAt(position, label, status, totalAt)
  <1>1. A!countCapped <=> CappedAt(status, totalAt)
    BY HistoryPages, HistoryCardinality DEF A!countCapped, CappedAt
  <1>2. A!pageCount = CountAt(status, totalAt)
    <2> DEFINE m == A!Min({Cardinality(TxsOf(status, totalAt)), TotalCap})
    <2>1. A!total = IF totalAt = A!NoTotal THEN A!NoTotal ELSE m
      BY HistoryPages, HistoryCardinality DEF A!total
    <2>2. totalAt # A!NoTotal => m \in Nat
      BY TypedHistory, TxsAreCounted
    <2>3. totalAt # A!NoTotal => A!total # A!NoTotal
      BY <2>1, <2>2 DEF A!NoTotal
    <2> QED BY <2>1, <2>3 DEF A!pageCount, CountAt
  <1> QED BY <1>1, <1>2 DEF A!currentPage, A!isFirst, A!isLast, LabelAt

\* Where the links lead: past the oldest, or the newest, transaction shown.
LEMMA LinkNext ==
    ASSUME HistoryInv, A!NextPosition.cursor # 0
    PROVE  LET d == A!Shown
               c == A!NextPosition.cursor
           IN  /\ d = PageAt(status, position, dataAt)
               /\ c \in d /\ (\A x \in d : c <= x) /\ d \subseteq TxsOf(status, dataAt)
               /\ A!NextPosition = [order |-> "desc", cursor |-> c]
  <1> DEFINE d == A!Shown
             h == dataAt
             txs == TxsBeyond(status, position, h)
  <1>1. h \in Nat /\ position \in Positions
    BY HistoryAssumption DEF HistoryInv, HistoryTypedAt
  <1>2. d = PageAt(status, position, h)
    BY HistoryPages DEF A!Shown
  <1>3. AreTxs(txs) /\ txs \subseteq TxsOf(status, h)
    BY <1>1, TxsAreNumbers
  <1>4. IsFiniteSet(d) /\ d \subseteq txs /\ (txs # {} => d # {})
    BY <1>1, <1>2, PageOfPosition DEF Takes
  <1>5. A!Rows(position, h) = d /\ A!Beyond(position, h) = txs
    BY HistoryPages DEF A!Shown
  <1>6. position.order \in {"asc", "desc"}
    BY <1>1 DEF Positions
  <1>7. d # {} /\ A!NextPosition.cursor = A!Min(d)
    <2>1. CASE position.order = "desc"
      <3>1. A!NextPosition.cursor = A!nextCursor(position, h)
        BY <2>1 DEF A!NextPosition
      <3>2. d # txs /\ A!nextCursor(position, h) = A!Min(d)
        <4> HIDE DEF d, txs, h
        <4> QED BY <1>5, <2>1, <3>1 DEF A!nextCursor, A!LastOf, A!NoCursor
      <3>3. d # {}
        <4> HIDE DEF d, txs
        <4> QED BY <1>4, <3>2
      <3> QED BY <3>1, <3>2, <3>3
    <2>2. CASE position.order # "desc"
      <3>1. position.cursor # 0 /\ A!NextPosition.cursor = A!reverseCursor(position, h)
        BY <2>2 DEF A!NextPosition, A!NoCursor
      <3>2. d # {} /\ A!reverseCursor(position, h) = A!Min(d)
        <4> HIDE DEF d, txs, h
        <4> QED BY <1>5, <2>2, <3>1 DEF A!reverseCursor, A!FirstOf, A!NoCursor
      <3> QED BY <3>1, <3>2
    <2> QED BY <2>1, <2>2
  <1>8. A!NextPosition = [order |-> "desc", cursor |-> A!NextPosition.cursor]
    BY DEF A!NextPosition
  <1> HIDE DEF d, txs, h
  <1>9. d \subseteq Int
    BY <1>3, <1>4 DEF AreTxs
  <1>10. A!Min(d) \in d /\ \A x \in d : A!Min(d) <= x
    BY <1>4, <1>7, <1>9, HistoryMax
  <1> QED BY <1>2, <1>3, <1>4, <1>7, <1>8, <1>10 DEF d, h

LEMMA LinkPrevious ==
    ASSUME HistoryInv, A!Previous.cursor # 0
    PROVE  LET d == A!Shown
               c == A!Previous.cursor
           IN  /\ d = PageAt(status, position, dataAt)
               /\ c \in d /\ (\A x \in d : x <= c) /\ d \subseteq TxsOf(status, dataAt)
               /\ A!Previous = [order |-> "asc", cursor |-> c]
  <1> DEFINE d == A!Shown
             h == dataAt
             txs == TxsBeyond(status, position, h)
  <1>1. h \in Nat /\ position \in Positions
    BY HistoryAssumption DEF HistoryInv, HistoryTypedAt
  <1>2. d = PageAt(status, position, h)
    BY HistoryPages DEF A!Shown
  <1>3. AreTxs(txs) /\ txs \subseteq TxsOf(status, h)
    BY <1>1, TxsAreNumbers
  <1>4. IsFiniteSet(d) /\ d \subseteq txs /\ (txs # {} => d # {})
    BY <1>1, <1>2, PageOfPosition DEF Takes
  <1>5. A!Rows(position, h) = d /\ A!Beyond(position, h) = txs
    BY HistoryPages DEF A!Shown
  <1>6. position.order \in {"asc", "desc"} /\ "asc" # "desc"
    BY <1>1 DEF Positions
  <1>7. d # {} /\ A!Previous.cursor = A!Max(d)
    <2>1. CASE position.order = "asc"
      <3>1. A!Previous.cursor = A!nextCursor(position, h)
        BY <2>1 DEF A!Previous
      <3>2. d # txs /\ A!nextCursor(position, h) = A!Max(d)
        <4> HIDE DEF d, txs, h
        <4> QED BY <1>5, <1>6, <2>1, <3>1 DEF A!nextCursor, A!LastOf, A!NoCursor
      <3>3. d # {}
        <4> HIDE DEF d, txs
        <4> QED BY <1>4, <3>2
      <3> QED BY <3>1, <3>2, <3>3
    <2>2. CASE position.order = "desc"
      <3>1. position.cursor # 0 /\ A!Previous.cursor = A!reverseCursor(position, h)
        BY <1>6, <2>2 DEF A!Previous, A!NoCursor
      <3>2. d # {} /\ A!reverseCursor(position, h) = A!Max(d)
        <4> HIDE DEF d, txs, h
        <4> QED BY <1>5, <2>2, <3>1 DEF A!reverseCursor, A!FirstOf, A!NoCursor
      <3> QED BY <3>1, <3>2
    <2> QED BY <1>6, <2>1, <2>2
  <1>8. A!Previous = [order |-> "asc", cursor |-> A!Previous.cursor]
    BY DEF A!Previous
  <1> HIDE DEF d, txs, h
  <1>9. d \subseteq Int
    BY <1>3, <1>4 DEF AreTxs
  <1>10. A!Max(d) \in d /\ \A x \in d : x <= A!Max(d)
    BY <1>4, <1>7, <1>9, HistoryMax
  <1> QED BY <1>2, <1>3, <1>4, <1>7, <1>8, <1>10 DEF d, h

\* What a link shows is the page behind its cursor, fetched when the cursor's
\* transaction and another one behind it were there.
LEMMA NextShows ==
    ASSUME HistoryInv, A!GoNext
    PROVE  LET c == A!NextPosition.cursor
               rest == {x \in TxsOf(status, dataAt') : x < c}
           IN  /\ c # 0 /\ c \in TxsOf(status, dataAt') /\ rest # {}
               /\ PageAt(status', position', dataAt') = Largest(PAGE_SIZE, rest)
               /\ dataAt' \in FirstCount..txCount
               /\ position' = [order |-> "desc", cursor |-> c]
               /\ UNCHANGED <<txCount, status, latestAt, totalAt>>
               /\ label' = IF A!currentPage = A!NoPage THEN A!NoPage ELSE A!currentPage + 1
  <1> DEFINE c == A!NextPosition.cursor
  <1>1. /\ c # 0 /\ position' = A!NextPosition
        /\ label' = IF A!currentPage = A!NoPage THEN A!NoPage ELSE A!currentPage + 1
        /\ \/ position' = A!Latest
           \/ \E h \in FirstCount..txCount : A!Linkable(position', h) /\ dataAt' = h
        /\ UNCHANGED <<txCount, status, latestAt, totalAt>>
    BY DEF A!GoNext, A!Show, A!NoCursor
  <1>2. position' = [order |-> "desc", cursor |-> c]
    BY <1>1, LinkNext
  <1> HIDE DEF c
  <1>3. position' # A!Latest
    BY <1>1, <1>2 DEF A!Latest, A!NoCursor
  <1>4. /\ dataAt' \in FirstCount..txCount
        /\ A!Linkable(position', dataAt')
    BY <1>1, <1>3
  <1> DEFINE rest == {x \in TxsOf(status, dataAt') : x < c}
  <1>5. TxsBeyond(status, position', dataAt') = rest
    BY <1>1, <1>2 DEF TxsBeyond
  <1>6. c \in TxsOf(status, dataAt') /\ rest # {}
    <2>1. \A p, h : p = position' /\ h = dataAt' =>
             (A!Linkable(p, h) =>
                p.cursor = 0 \/ (p.cursor \in TxsOf(status, h) /\ TxsBeyond(status, p, h) # {}))
      BY HistoryPages DEF A!Linkable, A!NoCursor
    <2>2. \A p, h : p = position' /\ h = dataAt' => A!Linkable(p, h)
      BY <1>4
    <2> QED BY <1>1, <1>2, <1>5, <2>1, <2>2
  <1>7. PageAt(status', position', dataAt') = Largest(PAGE_SIZE, rest)
    BY <1>1, <1>2, <1>5 DEF PageAt
  <1> QED BY <1>1, <1>2, <1>4, <1>6, <1>7 DEF c

LEMMA PreviousShows ==
    ASSUME HistoryInv, A!GoPrevious
    PROVE  LET c == A!Previous.cursor
               rest == {x \in TxsOf(status, dataAt') : x > c}
           IN  /\ c # 0 /\ c \in TxsOf(status, dataAt') /\ rest # {}
               /\ PageAt(status', position', dataAt') = Smallest(PAGE_SIZE, rest)
               /\ dataAt' \in FirstCount..txCount
               /\ position' = [order |-> "asc", cursor |-> c]
               /\ UNCHANGED <<txCount, status, latestAt, totalAt>>
               /\ label' = IF A!currentPage = A!NoPage THEN A!NoPage
                                                       ELSE A!Max({1, A!currentPage - 1})
  <1> DEFINE c == A!Previous.cursor
  <1>1. /\ c # 0 /\ position' = A!Previous
        /\ label' = IF A!currentPage = A!NoPage THEN A!NoPage ELSE A!Max({1, A!currentPage - 1})
        /\ \/ position' = A!Latest
           \/ \E h \in FirstCount..txCount : A!Linkable(position', h) /\ dataAt' = h
        /\ UNCHANGED <<txCount, status, latestAt, totalAt>>
    BY DEF A!GoPrevious, A!Show, A!NoCursor
  <1>2. position' = [order |-> "asc", cursor |-> c]
    BY <1>1, LinkPrevious
  <1> HIDE DEF c
  <1>3. position' # A!Latest
    BY <1>1, <1>2 DEF A!Latest, A!NoCursor
  <1>4. /\ dataAt' \in FirstCount..txCount
        /\ A!Linkable(position', dataAt')
    BY <1>1, <1>3
  <1> DEFINE rest == {x \in TxsOf(status, dataAt') : x > c}
  <1>5. TxsBeyond(status, position', dataAt') = rest
    BY <1>1, <1>2 DEF TxsBeyond
  <1>6. c \in TxsOf(status, dataAt') /\ rest # {}
    <2>1. \A p, h : p = position' /\ h = dataAt' =>
             (A!Linkable(p, h) =>
                p.cursor = 0 \/ (p.cursor \in TxsOf(status, h) /\ TxsBeyond(status, p, h) # {}))
      BY HistoryPages DEF A!Linkable, A!NoCursor
    <2>2. \A p, h : p = position' /\ h = dataAt' => A!Linkable(p, h)
      BY <1>4
    <2> QED BY <1>1, <1>2, <1>5, <2>1, <2>2
  <1>7. PageAt(status', position', dataAt') = Smallest(PAGE_SIZE, rest)
    BY <1>1, <1>2, <1>5 DEF PageAt
  <1> QED BY <1>1, <1>2, <1>4, <1>6, <1>7 DEF c

-----------------------------------------------------------------------------

LEMMA LabelIsTyped ==
    ASSUME NEW p, NEW l \in {A!NoPage} \cup Pages, NEW s, NEW h \in {A!NoTotal} \cup Nat
    PROVE  LabelAt(p, l, s, h) \in {A!NoPage} \cup Pages
  BY CountIsTyped DEF LabelAt, Pages

\* The page of the newest transactions, and the page of the oldest
LEMMA EndsAreLabelled ==
    ASSUME NEW n \in Nat, NEW s, NEW d, NEW h \in {A!NoTotal, n}, NEW l, d = n, n = FirstCount,
           NEW p \in {A!Latest, A!Oldest}, LastLabelled(n, s, p, l)
    PROVE  LabelledAt(n, s, p, d, h, l)
  <1> SUFFICES ASSUME TxsOf(s, n) # {}, LabelAt(p, l, s, h) # A!NoPage
               PROVE  IsPage(TxsOf(s, n), PageAt(s, p, n), LabelAt(p, l, s, h), PagesAt(s, n))
    BY DEF LabelledAt
  <1>1. FillsPages(Cardinality(TxsOf(s, n)), PagesAt(s, n)) /\ AreTxs(TxsOf(s, n))
    BY PagesAreFilled, TxsAreNumbers
  <1>2. /\ IsPage(TxsOf(s, n), Largest(PAGE_SIZE, TxsOf(s, n)), 1, PagesAt(s, n))
        /\ IsPage(TxsOf(s, n), Smallest(PAGE_SIZE, TxsOf(s, n)), PagesAt(s, n), PagesAt(s, n))
    BY <1>1, FirstPage
  <1>3. p.cursor = 0 /\ TxsBeyond(s, p, n) = TxsOf(s, n)
    BY DEF A!Latest, A!Oldest, A!NoCursor, TxsBeyond
  <1>4. CASE p = A!Latest
    <2>1. p.order = "desc" /\ LabelAt(p, l, s, h) = 1
      BY <1>4 DEF A!Latest, LabelAt
    <2> QED BY <1>2, <1>3, <2>1 DEF PageAt
  <1>5. CASE p = A!Oldest
    <2>1. p.order # "desc" /\ p # A!Latest
      BY <1>5 DEF A!Latest, A!Oldest
    <2>2. LabelAt(p, l, s, h) = PagesAt(s, n)
      <3>1. CASE CappedAt(s, h)
        <4>1. LabelAt(p, l, s, h) = l
          BY <1>5, <2>1, <3>1 DEF LabelAt
        <4> QED BY <1>5, <4>1 DEF LastLabelled
      <3>2. CASE ~CappedAt(s, h)
        <4>1. LabelAt(p, l, s, h) = CountAt(s, h)
          BY <1>5, <2>1, <3>2 DEF LabelAt
        <4>2. CountAt(s, h) = PagesAt(s, h) /\ h \in Nat
          BY <3>2, <4>1, CountIsTyped
        <4>3. h # A!NoTotal
          BY <4>2 DEF A!NoTotal
        <4> QED BY <4>1, <4>2, <4>3
      <3> QED BY <3>1, <3>2
    <2> QED BY <1>2, <1>3, <2>1, <2>2 DEF PageAt
  <1> QED BY <1>4, <1>5

\* A page opened at a cursor has no label.
LEMMA HistoryInit == A!Init => HistoryInv
  <1> SUFFICES ASSUME A!Init PROVE HistoryInv
    OBVIOUS
  <1>1. /\ txCount = FirstCount /\ status \in A!Statuses /\ position \in Positions
        /\ latestAt = FirstCount /\ dataAt = FirstCount /\ totalAt \in {A!NoTotal, FirstCount}
        /\ label = A!NoPage
    BY DEF A!Init, Positions
  <1>2. FirstCount \in Nat /\ FirstCount \in FirstCount..MaxCount
        /\ FirstCount \in FirstCount..FirstCount
    BY HistoryAssumption
  <1>3. HistoryTypedAt(txCount, status, position, latestAt, dataAt, totalAt, label)
    BY <1>1, <1>2 DEF HistoryTypedAt
  <1>4. LastLabelled(txCount, status, position, label) /\ Leads(txCount, status, position, label)
    BY <1>1 DEF LastLabelled, Leads
  <1>5. LabelledAt(txCount, status, position, dataAt, totalAt, label)
    <2>1. CASE position \in {A!Latest, A!Oldest}
      BY <1>1, <1>2, <1>4, <2>1, EndsAreLabelled
    <2>2. CASE position \notin {A!Latest, A!Oldest}
      BY <1>1, <2>2 DEF LabelledAt, LabelAt
    <2> QED BY <2>1, <2>2
  <1> QED BY <1>3, <1>4, <1>5 DEF HistoryInv

-----------------------------------------------------------------------------

\* The label shown leads as the one of the state does.
LEMMA ShownLeads ==
    ASSUME HistoryInv,
           NEW k, k = LabelAt(position, label, status, totalAt), k # A!NoPage
    PROVE  /\ k \in Pages /\ Leads(txCount, status, position, k)
           /\ position = A!Latest => k = 1
  <1>1. k \in Pages
    <2>1. label \in {A!NoPage} \cup Pages /\ totalAt \in {A!NoTotal} \cup Nat
      BY TypedHistory
    <2>2. LabelAt(position, label, status, totalAt) \in {A!NoPage} \cup Pages
      BY <2>1, LabelIsTyped
    <2> QED BY <2>2
  <1>2. CASE position = A!Latest
    <2>1. position.order = "desc" /\ position.cursor = 0
      BY <1>2 DEF A!Latest, A!NoCursor
    <2> QED BY <1>1, <1>2, <2>1 DEF Leads, LabelAt
  <1>3. CASE position # A!Latest /\ k = label
    BY <1>1, <1>3 DEF HistoryInv
  <1>4. CASE position = A!Oldest /\ k = CountAt(status, totalAt)
    <2>1. /\ totalAt \in Nat /\ totalAt <= txCount /\ txCount \in Nat
          /\ k = 1 \/ (k - 1) * PAGE_SIZE < Cardinality(TxsOf(status, totalAt))
      <3>1. totalAt \in {A!NoTotal} \cup FirstCount..txCount /\ txCount \in Nat
            /\ totalAt \in {A!NoTotal} \cup Nat
        BY TypedHistory
      <3>2. totalAt \in Nat
            /\ (k = 1 \/ (k - 1) * PAGE_SIZE < Cardinality(TxsOf(status, totalAt)))
        BY <1>4, <3>1, CountIsTyped
      <3>3. totalAt # A!NoTotal
        BY <3>2 DEF A!NoTotal
      <3>4. totalAt <= txCount
        BY <3>1, <3>3, HistoryAssumption
      <3> QED BY <3>1, <3>2, <3>4
    <2>2. Cardinality(TxsOf(status, totalAt)) <= Cardinality(TxsOf(status, txCount))
      <3>1. TxsOf(status, totalAt) \in SUBSET TxsOf(status, txCount)
        BY <2>1 DEF TxsOf
      <3>2. IsFiniteSet(TxsOf(status, txCount))
        BY <2>1, TxsAreNumbers DEF AreTxs
      <3> QED BY <3>1, <3>2, FS_Subset
    <2>3. Cardinality(TxsOf(status, totalAt)) \in Nat /\ Cardinality(TxsOf(status, txCount)) \in Nat
      BY <2>1, TxsAreCounted
    <2>4. (k - 1) * PAGE_SIZE \in Int
      BY <1>1, HistoryAssumption DEF Pages
    <2>5. k = 1 \/ (k - 1) * PAGE_SIZE < Cardinality(TxsOf(status, txCount))
      BY <2>1, <2>2, <2>3, <2>4
    <2>6. TxsBeyond(status, position, txCount) = TxsOf(status, txCount)
          /\ position.order # "desc" /\ position # A!Latest
      BY <1>4 DEF TxsBeyond, A!Oldest, A!Latest, A!NoCursor
    <2> QED BY <1>1, <2>5, <2>6 DEF Leads
  <1> QED BY <1>2, <1>3, <1>4 DEF LabelAt

\* Seen from the oldest, what is beyond the position is shown or newer than that.
LEMMA ShownOrNewer ==
    ASSUME HistoryInv, position.order # "desc",
           NEW x \in TxsBeyond(status, position, txCount), x \notin A!Shown
    PROVE  x \in Int /\ \A y \in A!Shown : y < x
  <1> DEFINE near == TxsBeyond(status, position, dataAt)
  <1>1. dataAt \in Nat /\ txCount \in Nat
    BY TypedHistory
  <1>2. A!Shown = Smallest(PAGE_SIZE, near)
    BY HistoryPages DEF A!Shown, PageAt
  <1>3. AreTxs(near) /\ near \subseteq 1..dataAt /\ x \in 1..txCount
    <2>1. AreTxs(near)
      BY <1>1, TxsAreNumbers
    <2>2. near \subseteq 1..dataAt /\ x \in 1..txCount
      BY DEF TxsBeyond, TxsOf
    <2> QED BY <2>1, <2>2
  <1>4. x <= dataAt => x \in near
    BY <1>1, <1>3 DEF TxsBeyond, TxsOf
  <1> HIDE DEF near
  <1>5. A!Shown \subseteq near /\ \A y \in A!Shown, z \in near \ A!Shown : y < z
    BY <1>2, <1>3, PageIsTaken DEF Takes
  <1>6. ASSUME NEW y \in A!Shown PROVE y < x
    <2>1. CASE x <= dataAt
      BY <1>4, <1>5, <2>1
    <2>2. CASE ~(x <= dataAt)
      <3>1. y \in 1..dataAt
        BY <1>3, <1>5
      <3> QED BY <1>1, <1>3, <2>2, <3>1
    <2> QED BY <2>1, <2>2
  <1> QED BY <1>1, <1>3, <1>6

LEMMA ShownIsPage ==
    ASSUME HistoryInv
    PROVE  /\ IsFiniteSet(A!Shown) /\ A!Shown \subseteq TxsBeyond(status, position, dataAt)
           /\ A!Shown \subseteq TxsOf(status, txCount) /\ A!Shown \subseteq Int
           /\ Cardinality(A!Shown) \in Nat /\ Cardinality(A!Shown) <= PAGE_SIZE
  <1>1. dataAt \in Nat /\ txCount \in Nat /\ dataAt \in FirstCount..txCount
    BY TypedHistory
  <1>2. A!Shown = PageAt(status, position, dataAt)
    BY HistoryPages DEF A!Shown
  <1>3. Takes(A!Shown, TxsBeyond(status, position, dataAt))
    BY <1>1, <1>2, PageOfPosition
  <1>4. /\ AreTxs(TxsBeyond(status, position, dataAt))
        /\ TxsBeyond(status, position, dataAt) \subseteq TxsOf(status, dataAt)
    BY <1>1, TxsAreNumbers
  <1>5. TxsOf(status, dataAt) \subseteq TxsOf(status, txCount)
    BY <1>1, HistoryAssumption DEF TxsOf
  <1>6. Cardinality(A!Shown) \in Nat /\ Cardinality(A!Shown) <= PAGE_SIZE
    <2>1. IsFiniteSet(TxsBeyond(status, position, dataAt))
      BY <1>4 DEF AreTxs
    <2>2. Cardinality(TxsBeyond(status, position, dataAt)) \in Nat
      BY <2>1, FS_CardinalityType
    <2> QED BY <1>3, <2>2, HistoryAssumption DEF Takes
  <1> QED BY <1>3, <1>4, <1>5, <1>6 DEF Takes, AreTxs

LEMMA MoreTxs ==
    ASSUME NEW txs, IsFiniteSet(txs), NEW few, few \subseteq txs
    PROVE  /\ IsFiniteSet(few) /\ Cardinality(few) \in Nat /\ Cardinality(txs) \in Nat
           /\ Cardinality(few) <= Cardinality(txs)
  BY FS_Subset, FS_CardinalityType

LEMMA TxsOfTwo ==
    ASSUME NEW txs, IsFiniteSet(txs), NEW some, IsFiniteSet(some)
    PROVE  /\ Cardinality(txs \cup some) <= Cardinality(txs) + Cardinality(some)
           /\ txs \cap some = {} =>
                 Cardinality(txs \cup some) = Cardinality(txs) + Cardinality(some)
           /\ IsFiniteSet(txs \cup some)
           /\ Cardinality(txs) \in Nat /\ Cardinality(some) \in Nat
           /\ Cardinality(txs \cup some) \in Nat
  <1>1. IsFiniteSet(txs \cup some)
        /\ Cardinality(txs \cup some)
              = Cardinality(txs) + Cardinality(some) - Cardinality(txs \cap some)
    BY FS_Union
  <1>2. /\ Cardinality(txs) \in Nat /\ Cardinality(some) \in Nat
        /\ Cardinality(txs \cup some) \in Nat
    BY <1>1, FS_CardinalityType
  <1>3. IsFiniteSet(txs \cap some)
    BY FS_Subset
  <1>4. Cardinality(txs \cap some) \in Nat
        /\ (txs \cap some = {} => Cardinality(txs \cap some) = 0)
    BY <1>3, FS_CardinalityType, FS_EmptySet
  <1> QED BY <1>1, <1>2, <1>4

\* How much newer is than the page of a label
LEMMA LabelLeads ==
    ASSUME HistoryInv, A!Shown # {},
           NEW k, k = LabelAt(position, label, status, totalAt), k # A!NoPage
    PROVE  (k - 2) * PAGE_SIZE
             < Cardinality({tx \in TxsOf(status, txCount) : tx > A!Max(A!Shown)})
  <1> DEFINE txs == TxsOf(status, txCount)
             d == A!Shown
             top == A!Max(d)
             newer == {tx \in txs : tx > top}
  <1>1. k \in Pages /\ Leads(txCount, status, position, k) /\ (position = A!Latest => k = 1)
    BY ShownLeads
  <1>2. /\ IsFiniteSet(d) /\ d \subseteq TxsBeyond(status, position, dataAt) /\ d \subseteq Int
        /\ Cardinality(d) \in Nat /\ Cardinality(d) <= PAGE_SIZE /\ d \subseteq txs
    BY ShownIsPage
  <1>3. IsFiniteSet(txs) /\ txs \subseteq Int
    BY TypedHistory, TxsAreNumbers DEF AreTxs
  <1>4. top \in d /\ \A x \in d : x <= top
    BY <1>2, HistoryMax
  <1>5. IsFiniteSet(newer) /\ Cardinality(newer) \in Nat
    BY <1>3, MoreTxs
  <1>6. /\ k \in Int /\ PAGE_SIZE \in Nat \ {0}
        /\ (k - 2) * PAGE_SIZE \in Int /\ (k - 1) * PAGE_SIZE \in Int
        /\ (k - 2) * PAGE_SIZE = (k - 1) * PAGE_SIZE - PAGE_SIZE
        /\ k = 1 => (k - 1) * PAGE_SIZE = 0
    <2>1. k \in Int /\ k - 1 \in Int /\ PAGE_SIZE \in Nat \ {0} /\ k - 1 - 1 = k - 2
      BY <1>1, HistoryAssumption DEF Pages
    <2>2. (k - 1 - 1) * PAGE_SIZE = (k - 1) * PAGE_SIZE - PAGE_SIZE /\ (k - 1) * PAGE_SIZE \in Int
      BY <2>1, PageMultiples
    <2>3. k = 1 => (k - 1) * PAGE_SIZE = 0
      BY <2>1
    <2> QED BY <2>1, <2>2, <2>3
  <1>7. position \in Positions
    BY TypedHistory
  <1> SUFFICES (k - 2) * PAGE_SIZE < Cardinality(newer)
    OBVIOUS
  <1> HIDE DEF txs, d, top, newer
  <1>8. CASE k = 1
    BY <1>5, <1>6, <1>8
  <1>9. CASE position.order = "desc" /\ k # 1
    <2>1. position.cursor # 0
      BY <1>1, <1>7, <1>9 DEF Positions, A!Latest, A!NoCursor
    <2>2. (k - 2) * PAGE_SIZE < Cardinality(AtLeast(position.cursor, txs))
      BY <1>1, <1>9, <2>1 DEF Leads, Pages, A!NoPage, txs
    <2>3. AtLeast(position.cursor, txs) \subseteq newer
      <3>1. top < position.cursor /\ top \in Int /\ position.cursor \in Int
        BY <1>2, <1>4, <1>7, <1>9, <2>1 DEF TxsBeyond, Positions
      <3>2. ASSUME NEW x \in txs, x >= position.cursor PROVE x > top
        BY <1>3, <3>1, <3>2
      <3> QED BY <3>2 DEF AtLeast, newer
    <2>4. Cardinality(AtLeast(position.cursor, txs)) <= Cardinality(newer)
          /\ Cardinality(AtLeast(position.cursor, txs)) \in Nat
      BY <1>5, <2>3, MoreTxs
    <2> QED BY <1>5, <1>6, <2>2, <2>4
  <1>10. CASE position.order # "desc" /\ k # 1
    <2> DEFINE far == TxsBeyond(status, position, txCount)
    <2>1. (k - 1) * PAGE_SIZE < Cardinality(far)
      BY <1>1, <1>7, <1>10 DEF Leads, Pages, Positions, A!NoPage
    <2>2. far \subseteq d \cup newer
      <3> SUFFICES ASSUME NEW x \in far, x \notin d PROVE x \in newer
        OBVIOUS
      <3>1. x \in Int /\ top < x
        BY <1>4, <1>10, ShownOrNewer DEF d
      <3>2. x \in txs
        BY DEF TxsBeyond, txs
      <3>3. top \in Int
        BY <1>2, <1>4
      <3> QED BY <3>1, <3>2, <3>3 DEF newer
    <2>3. Cardinality(far) <= Cardinality(d \cup newer) /\ Cardinality(far) \in Nat
      <3>1. IsFiniteSet(d \cup newer)
        BY <1>2, <1>5, TxsOfTwo
      <3> QED BY <2>2, <3>1, MoreTxs
    <2>4. Cardinality(d \cup newer) <= Cardinality(d) + Cardinality(newer)
          /\ Cardinality(d \cup newer) \in Nat
      BY <1>2, <1>5, TxsOfTwo
    <2> HIDE DEF far
    <2> QED BY <1>2, <1>5, <1>6, <2>1, <2>3, <2>4
  <1> QED BY <1>1, <1>8, <1>9, <1>10

\* A page that links to the next older one is full.
LEMMA LinkedIsFull ==
    ASSUME HistoryInv, position.order = "desc", A!NextPosition.cursor # 0
    PROVE  Cardinality(A!Shown) = PAGE_SIZE
  <1> DEFINE txs == TxsBeyond(status, position, dataAt)
  <1>1. dataAt \in Nat
    BY TypedHistory
  <1>2. A!Rows(position, dataAt) = A!Shown /\ A!Beyond(position, dataAt) = txs
        /\ A!Shown = PageAt(status, position, dataAt)
    BY HistoryPages DEF A!Shown
  <1>3. A!Shown # txs
    <2> HIDE DEF txs
    <2> QED BY <1>2 DEF A!NextPosition, A!nextCursor, A!NoCursor
  <1>4. Takes(A!Shown, txs) /\ IsFiniteSet(txs)
    BY <1>1, <1>2, PageOfPosition, TxsAreNumbers DEF AreTxs
  <1> HIDE DEF txs
  <1>5. Cardinality(txs \ A!Shown) # 0
    <2>1. txs \ A!Shown # {} /\ IsFiniteSet(txs \ A!Shown)
      BY <1>3, <1>4, FS_Subset DEF Takes
    <2> QED BY <2>1, FS_EmptySet
  <1>6. Cardinality(txs) \in Nat /\ PAGE_SIZE \in Nat
    BY <1>4, FS_CardinalityType, HistoryAssumption
  <1> QED BY <1>4, <1>5, <1>6 DEF Takes

LEMMA GoNextKeeps == ASSUME HistoryInv, A!GoNext PROVE HistoryInv'
  <1> DEFINE c == A!NextPosition.cursor
             rest == {x \in TxsOf(status, dataAt') : x < c}
             k == LabelAt(position, label, status, totalAt)
  <1>1. /\ c # 0 /\ c \in TxsOf(status, dataAt') /\ rest # {}
        /\ PageAt(status', position', dataAt') = Largest(PAGE_SIZE, rest)
        /\ dataAt' \in FirstCount..txCount
        /\ position' = [order |-> "desc", cursor |-> c]
        /\ UNCHANGED <<txCount, status, latestAt, totalAt>>
        /\ label' = IF k = A!NoPage THEN A!NoPage ELSE k + 1
    BY NextShows, HistoryLabels
  <1>2. /\ A!Shown = PageAt(status, position, dataAt)
        /\ c \in A!Shown /\ \A x \in A!Shown : c <= x
    <2>1. A!NextPosition.cursor # 0
      BY <1>1
    <2> QED BY <2>1, LinkNext
  <1>3. position.order = "desc" => Cardinality(A!Shown) = PAGE_SIZE
    <2>1. A!NextPosition.cursor # 0
      BY <1>1
    <2> QED BY <2>1, LinkedIsFull
  <1>4. /\ txCount \in FirstCount..MaxCount /\ status \in A!Statuses /\ position \in Positions
        /\ latestAt \in FirstCount..txCount /\ dataAt \in FirstCount..txCount
        /\ totalAt \in {A!NoTotal} \cup FirstCount..txCount
        /\ label \in {A!NoPage} \cup Pages
        /\ FirstCount \in Nat /\ MaxCount \in Nat /\ txCount \in Nat
        /\ dataAt \in Nat /\ totalAt \in {A!NoTotal} \cup Nat /\ A!NoPage = -1
    BY TypedHistory
  <1>5. k \in {A!NoPage} \cup Pages
    BY <1>4, LabelIsTyped
  <1>6. k # A!NoPage =>
           /\ k \in Pages /\ Leads(txCount, status, position, k)
           /\ position = A!Latest => k = 1
    BY ShownLeads
  <1>7. position.order = "asc" => position.cursor # 0
    BY <1>1 DEF A!NextPosition, A!NoCursor
  <1> HIDE DEF c
  <1>8. c \in 1..MaxCount
    BY <1>1, <1>4 DEF TxsOf
  <1>9. position' \in Positions /\ position' # A!Latest /\ position' # A!Oldest
        /\ position'.order = "desc" /\ position'.cursor = c
    BY <1>1, <1>8 DEF Positions, A!Latest, A!Oldest, A!NoCursor
  <1>10. label' \in {A!NoPage} \cup Pages
    <2> HIDE DEF k
    <2> QED BY <1>1, <1>5 DEF Pages
  <1>11. HistoryTypedAt(txCount', status', position', latestAt', dataAt', totalAt', label')
    BY <1>1, <1>4, <1>9, <1>10 DEF HistoryTypedAt
  <1>12. LabelledAt(txCount', status', position', dataAt', totalAt', label')
    <2> SUFFICES ASSUME txCount' = FirstCount, TxsOf(status', txCount') # {},
                        LabelAt(position', label', status', totalAt') # A!NoPage
                 PROVE  IsPage(TxsOf(status', txCount'), PageAt(status', position', dataAt'),
                               LabelAt(position', label', status', totalAt'),
                               PagesAt(status', txCount'))
      BY DEF LabelledAt
    <2>1. LabelAt(position', label', status', totalAt') = label'
      BY <1>9 DEF LabelAt
    <2>2. txCount = FirstCount /\ dataAt = txCount /\ dataAt' = txCount /\ k # A!NoPage
      <3> HIDE DEF k
      <3> QED BY <1>1, <1>4, <2>1
    <2>3. IsPage(TxsOf(status, txCount), A!Shown, k, PagesAt(status, txCount))
      BY <1>1, <1>2, <2>2 DEF HistoryInv, LabelledAt
    <2>4. IsPage(TxsOf(status, txCount), Largest(PAGE_SIZE, rest), k + 1, PagesAt(status, txCount))
      <3>1. rest = {x \in TxsOf(status, txCount) : x < c}
        BY <2>2
      <3> HIDE DEF rest, k
      <3> QED BY <1>1, <1>2, <2>3, <3>1, NextPage
    <2> HIDE DEF k
    <2> QED BY <1>1, <2>1, <2>2, <2>4
  <1>13. LastLabelled(txCount', status', position', label')
    BY <1>9 DEF LastLabelled
  <1>14. Leads(txCount', status', position', label')
    <2> DEFINE txs == TxsOf(status, txCount)
    <2> SUFFICES ASSUME k # A!NoPage
                 PROVE  (k - 1) * PAGE_SIZE < Cardinality(AtLeast(c, txs))
      <3>1. ASSUME k # A!NoPage PROVE label' = k + 1 /\ label' - 2 = k - 1
        <4> HIDE DEF k
        <4> QED BY <1>1, <1>6, <3>1 DEF Pages
      <3>2. k = A!NoPage => label' = A!NoPage
        BY <1>1
      <3>3. TxsOf(status', txCount') = txs
        BY <1>1
      <3>4. k # A!NoPage => (k - 1) * PAGE_SIZE < Cardinality(AtLeast(c, txs))
        OBVIOUS
      <3> HIDE DEF k, txs
      <3>5. position'.order # "asc"
        BY <1>9
      <3>6. CASE k = A!NoPage
        BY <3>2, <3>6 DEF Leads
      <3>7. CASE k # A!NoPage
        <4>1. label' - 2 = k - 1
          BY <3>1, <3>7
        <4>2. (label' - 2) * PAGE_SIZE < Cardinality(AtLeast(position'.cursor, TxsOf(status', txCount')))
          BY <1>9, <3>3, <3>4, <3>7, <4>1
        <4> QED BY <3>5, <4>2 DEF Leads
      <3> QED BY <3>6, <3>7
    <2> HIDE DEF k
    <2>1. IsFiniteSet(txs) /\ txs \subseteq Int
      BY <1>4, TxsAreNumbers DEF AreTxs
    <2>2. /\ IsFiniteSet(A!Shown) /\ A!Shown \subseteq TxsBeyond(status, position, dataAt)
          /\ A!Shown \subseteq txs /\ A!Shown \subseteq Int
      BY ShownIsPage
    <2> HIDE DEF txs
    <2>3. AtLeast(c, txs) \subseteq txs /\ IsFiniteSet(AtLeast(c, txs))
          /\ Cardinality(AtLeast(c, txs)) \in Nat
      <3>1. AtLeast(c, txs) \subseteq txs
        BY DEF AtLeast
      <3> QED BY <2>1, <3>1, MoreTxs
    <2>4. c \in Int /\ c \in AtLeast(c, txs) /\ Cardinality(AtLeast(c, txs)) # 0
      <3>1. c \in Int /\ c \in txs
        BY <1>2, <2>2
      <3>2. c \in AtLeast(c, txs)
        BY <3>1 DEF AtLeast
      <3> QED BY <2>3, <3>1, <3>2, FS_EmptySet
    <2>5. /\ k \in Int /\ PAGE_SIZE \in Nat \ {0} /\ (k - 2) * PAGE_SIZE \in Int
          /\ (k - 1) * PAGE_SIZE = (k - 2) * PAGE_SIZE + PAGE_SIZE
          /\ k = 1 => (k - 1) * PAGE_SIZE = 0
      <3>1. k \in Int /\ k - 2 \in Int /\ PAGE_SIZE \in Nat \ {0} /\ k - 2 + 1 = k - 1
        BY <1>6, HistoryAssumption DEF Pages
      <3>2. (k - 2 + 1) * PAGE_SIZE = (k - 2) * PAGE_SIZE + PAGE_SIZE
            /\ (k - 2) * PAGE_SIZE \in Int
        BY <3>1, PageMultiples
      <3>3. k = 1 => (k - 1) * PAGE_SIZE = 0
        BY <3>1
      <3> QED BY <3>1, <3>2, <3>3
    <2>6. CASE k = 1
      BY <2>3, <2>4, <2>5, <2>6
    <2>7. CASE k # 1 /\ position.order = "desc"
      <3>1. position.cursor # 0
        BY <1>4, <1>6, <2>7 DEF Positions, A!Latest, A!NoCursor
      <3>2. (k - 2) * PAGE_SIZE < Cardinality(AtLeast(position.cursor, txs))
        BY <1>6, <2>7, <3>1 DEF Leads, txs
      <3>3. \A x \in A!Shown : x < position.cursor /\ c <= x
        BY <1>2, <2>2, <2>7, <3>1 DEF TxsBeyond
      <3>4. position.cursor \in Int
        BY <1>4 DEF Positions
      <3>5. AtLeast(position.cursor, txs) \cup A!Shown \subseteq AtLeast(c, txs)
        <4>1. c < position.cursor
          BY <1>2, <3>3
        <4>2. ASSUME NEW x \in txs, x >= position.cursor PROVE x >= c
          BY <2>1, <2>4, <3>4, <4>1, <4>2
        <4>3. ASSUME NEW x \in A!Shown PROVE x \in txs /\ x >= c
          BY <2>2, <2>4, <3>3
        <4> QED BY <4>2, <4>3 DEF AtLeast
      <3>6. AtLeast(position.cursor, txs) \cap A!Shown = {}
        <4> SUFFICES ASSUME NEW x \in A!Shown, x >= position.cursor PROVE FALSE
          BY DEF AtLeast
        <4> QED BY <2>2, <3>3, <3>4
      <3>7. IsFiniteSet(AtLeast(position.cursor, txs))
        <4>1. AtLeast(position.cursor, txs) \subseteq txs
          BY DEF AtLeast
        <4> QED BY <2>1, <4>1, MoreTxs
      <3>8. /\ Cardinality(AtLeast(position.cursor, txs) \cup A!Shown)
                  = Cardinality(AtLeast(position.cursor, txs)) + Cardinality(A!Shown)
            /\ Cardinality(AtLeast(position.cursor, txs)) \in Nat
        BY <2>2, <3>6, <3>7, TxsOfTwo
      <3>9. Cardinality(AtLeast(position.cursor, txs) \cup A!Shown) <= Cardinality(AtLeast(c, txs))
        BY <2>3, <3>5, MoreTxs
      <3> QED BY <1>3, <2>3, <2>5, <2>7, <3>2, <3>8, <3>9
    <2>8. CASE k # 1 /\ position.order # "desc"
      <3> DEFINE far == TxsBeyond(status, position, txCount)
      <3>1. position.order = "asc"
        BY <1>4, <2>8 DEF Positions
      <3>2. (k - 1) * PAGE_SIZE < Cardinality(far)
        BY <1>6, <2>8, <3>1 DEF Leads
      <3>3. far \subseteq AtLeast(c, txs)
        <4> SUFFICES ASSUME NEW x \in far PROVE x \in txs /\ x >= c
          BY DEF AtLeast
        <4>1. x \in txs
          BY DEF TxsBeyond, txs
        <4>2. CASE x \in A!Shown
          BY <1>2, <2>1, <2>4, <4>1, <4>2
        <4>3. CASE x \notin A!Shown
          <5>1. c < x
            BY <1>2, <2>8, <4>3, ShownOrNewer
          <5> QED BY <2>1, <2>4, <4>1, <5>1
        <4> QED BY <4>1, <4>2, <4>3
      <3>4. Cardinality(far) <= Cardinality(AtLeast(c, txs)) /\ Cardinality(far) \in Nat
        BY <2>3, <3>3, MoreTxs
      <3> HIDE DEF far
      <3> QED BY <2>3, <2>5, <3>2, <3>4
    <2> QED BY <2>6, <2>7, <2>8 DEF txs
  <1> QED BY <1>11, <1>12, <1>13, <1>14 DEF HistoryInv

LEMMA GoPreviousKeeps == ASSUME HistoryInv, A!GoPrevious PROVE HistoryInv'
  <1> DEFINE c == A!Previous.cursor
             rest == {x \in TxsOf(status, dataAt') : x > c}
             k == LabelAt(position, label, status, totalAt)
  <1>1. /\ c # 0 /\ c \in TxsOf(status, dataAt') /\ rest # {}
        /\ PageAt(status', position', dataAt') = Smallest(PAGE_SIZE, rest)
        /\ dataAt' \in FirstCount..txCount
        /\ position' = [order |-> "asc", cursor |-> c]
        /\ UNCHANGED <<txCount, status, latestAt, totalAt>>
        /\ label' = IF k = A!NoPage THEN A!NoPage ELSE A!Max({1, k - 1})
    BY PreviousShows, HistoryLabels
  <1>2. /\ A!Shown = PageAt(status, position, dataAt)
        /\ c \in A!Shown /\ \A x \in A!Shown : x <= c
    <2>1. A!Previous.cursor # 0
      BY <1>1
    <2> QED BY <2>1, LinkPrevious
  <1>3. /\ txCount \in FirstCount..MaxCount /\ status \in A!Statuses /\ position \in Positions
        /\ latestAt \in FirstCount..txCount /\ dataAt \in FirstCount..txCount
        /\ totalAt \in {A!NoTotal} \cup FirstCount..txCount
        /\ label \in {A!NoPage} \cup Pages
        /\ FirstCount \in Nat /\ MaxCount \in Nat /\ txCount \in Nat
        /\ dataAt \in Nat /\ totalAt \in {A!NoTotal} \cup Nat /\ A!NoPage = -1
    BY TypedHistory
  <1>4. k \in {A!NoPage} \cup Pages
    BY <1>3, LabelIsTyped
  <1>5. k # A!NoPage =>
           /\ k \in Pages /\ Leads(txCount, status, position, k)
           /\ position = A!Latest => k = 1
    BY ShownLeads
  <1>6. position.order = "desc" => position.cursor # 0
    BY <1>1 DEF A!Previous, A!NoCursor
  <1> HIDE DEF c, k
  <1>7. k \in Int
    BY <1>3, <1>4 DEF Pages
  <1>8. A!Max({1, k - 1}) \in {1, k - 1} /\ 1 <= A!Max({1, k - 1})
        /\ k - 1 <= A!Max({1, k - 1})
    <2>1. IsFiniteSet({1, k - 1})
      BY PairIsFinite
    <2>2. {1, k - 1} \subseteq Int /\ {1, k - 1} # {}
      BY <1>7
    <2>3. 1 \in {1, k - 1} /\ k - 1 \in {1, k - 1}
      OBVIOUS
    <2> QED BY <2>1, <2>2, <2>3, HistoryMax
  <1>9. c \in 1..MaxCount
    BY <1>1, <1>3 DEF TxsOf
  <1>10. position' \in Positions /\ position' # A!Latest /\ position' # A!Oldest
         /\ position'.order = "asc" /\ position'.cursor = c
    BY <1>1, <1>9 DEF Positions, A!Latest, A!Oldest, A!NoCursor
  <1>11. label' \in {A!NoPage} \cup Pages
    BY <1>1, <1>7, <1>8 DEF Pages
  <1>12. HistoryTypedAt(txCount', status', position', latestAt', dataAt', totalAt', label')
    BY <1>1, <1>3, <1>10, <1>11 DEF HistoryTypedAt
  <1>13. LabelledAt(txCount', status', position', dataAt', totalAt', label')
    <2> SUFFICES ASSUME txCount' = FirstCount, TxsOf(status', txCount') # {},
                        LabelAt(position', label', status', totalAt') # A!NoPage
                 PROVE  IsPage(TxsOf(status', txCount'), PageAt(status', position', dataAt'),
                               LabelAt(position', label', status', totalAt'),
                               PagesAt(status', txCount'))
      BY DEF LabelledAt
    <2>1. LabelAt(position', label', status', totalAt') = label'
      BY <1>10 DEF LabelAt
    <2>2. txCount = FirstCount /\ dataAt = txCount /\ dataAt' = txCount /\ k # A!NoPage
      BY <1>1, <1>3, <2>1
    <2>3. IsPage(TxsOf(status, txCount), A!Shown, k, PagesAt(status, txCount))
      BY <1>1, <1>2, <2>2 DEF HistoryInv, LabelledAt, k
    <2>4. IsPage(TxsOf(status, txCount), Smallest(PAGE_SIZE, rest), k - 1, PagesAt(status, txCount))
      <3>1. rest = {x \in TxsOf(status, txCount) : x > c}
        BY <2>2
      <3> HIDE DEF rest
      <3> QED BY <1>1, <1>2, <2>3, <3>1, PreviousPage
    <2>5. k - 1 \in 1..PagesAt(status, txCount)
      BY <2>4, FillsLabel DEF IsPage
    <2>6. label' = k - 1
      BY <1>1, <1>7, <1>8, <2>2, <2>5
    <2> QED BY <1>1, <2>1, <2>2, <2>4, <2>6
  <1>14. LastLabelled(txCount', status', position', label')
    BY <1>10 DEF LastLabelled
  <1>15. Leads(txCount', status', position', label')
    <2> DEFINE txs == TxsOf(status, txCount)
               newer == TxsBeyond(status, [order |-> "asc", cursor |-> c], txCount)
    <2>1. newer = {x \in txs : x > c}
      BY <1>9 DEF TxsBeyond
    <2> SUFFICES ASSUME k # A!NoPage, k - 1 > 1
                 PROVE  (k - 2) * PAGE_SIZE < Cardinality(newer)
      <3>1. CASE k = A!NoPage
        BY <1>1, <3>1 DEF Leads
      <3>2. CASE k # A!NoPage /\ ~(k - 1 > 1)
        <4>1. label' = 1
          BY <1>1, <1>7, <1>8, <3>2
        <4> QED BY <1>10, <4>1 DEF Leads
      <3>3. CASE k # A!NoPage /\ k - 1 > 1
        <4>1. label' = k - 1 /\ k - 1 - 1 = k - 2
          BY <1>1, <1>7, <1>8, <3>3
        <4>2. (k - 2) * PAGE_SIZE < Cardinality(newer)
          BY <3>3
        <4>3. TxsBeyond(status', position', txCount') = newer
          BY <1>1
        <4> HIDE DEF newer
        <4> QED BY <1>10, <4>1, <4>2, <4>3 DEF Leads
      <3> QED BY <3>1, <3>2, <3>3
    <2>2. IsFiniteSet(txs) /\ txs \subseteq Int
      BY <1>3, TxsAreNumbers DEF AreTxs
    <2>3. /\ IsFiniteSet(A!Shown) /\ A!Shown \subseteq TxsBeyond(status, position, dataAt)
          /\ A!Shown \subseteq txs /\ A!Shown \subseteq Int
          /\ Cardinality(A!Shown) \in Nat /\ Cardinality(A!Shown) <= PAGE_SIZE
      BY ShownIsPage
    <2> HIDE DEF txs, newer
    <2>4. IsFiniteSet(newer) /\ Cardinality(newer) \in Nat
      <3>1. newer \subseteq txs
        BY <2>1
      <3> QED BY <2>2, <3>1, MoreTxs
    <2>5. /\ PAGE_SIZE \in Nat \ {0} /\ (k - 1) * PAGE_SIZE \in Int
          /\ (k - 2) * PAGE_SIZE = (k - 1) * PAGE_SIZE - PAGE_SIZE
          /\ (k - 2) * PAGE_SIZE \in Int
      <3>1. k - 1 \in Int /\ PAGE_SIZE \in Nat \ {0} /\ k - 1 - 1 = k - 2
        BY <1>7, HistoryAssumption
      <3>2. (k - 1 - 1) * PAGE_SIZE = (k - 1) * PAGE_SIZE - PAGE_SIZE
            /\ (k - 1) * PAGE_SIZE \in Int
        BY <3>1, PageMultiples
      <3> QED BY <3>1, <3>2
    <2>6. k # 1 /\ c \in Int
      BY <1>7, <1>9
    <2>7. CASE position.order = "desc"
      <3>1. position.cursor # 0
        BY <1>6, <2>7
      <3>2. (k - 2) * PAGE_SIZE < Cardinality(AtLeast(position.cursor, txs))
        BY <1>5, <2>7, <3>1 DEF Leads, txs
      <3>3. c < position.cursor /\ position.cursor \in Int
        BY <1>2, <1>3, <2>3, <2>7, <3>1 DEF TxsBeyond, Positions
      <3>4. AtLeast(position.cursor, txs) \subseteq newer
        <4> SUFFICES ASSUME NEW x \in txs, x >= position.cursor PROVE x > c
          BY <2>1 DEF AtLeast
        <4> QED BY <2>2, <2>6, <3>3
      <3>5. Cardinality(AtLeast(position.cursor, txs)) <= Cardinality(newer)
            /\ Cardinality(AtLeast(position.cursor, txs)) \in Nat
        BY <2>4, <3>4, MoreTxs
      <3> QED BY <2>4, <2>5, <3>2, <3>5
    <2>8. CASE position.order # "desc"
      <3> DEFINE far == TxsBeyond(status, position, txCount)
      <3>1. position.order = "asc"
        BY <1>3, <2>8 DEF Positions
      <3>2. (k - 1) * PAGE_SIZE < Cardinality(far)
        BY <1>5, <2>6, <3>1 DEF Leads
      <3>3. far \subseteq A!Shown \cup newer
        <4> SUFFICES ASSUME NEW x \in far, x \notin A!Shown PROVE x \in newer
          OBVIOUS
        <4>1. x \in txs
          BY DEF TxsBeyond, txs
        <4>2. x \in Int /\ c < x
          BY <1>2, <2>8, ShownOrNewer
        <4> QED BY <2>1, <2>6, <4>1, <4>2
      <3>4. Cardinality(far) <= Cardinality(A!Shown \cup newer) /\ Cardinality(far) \in Nat
        <4>1. IsFiniteSet(A!Shown \cup newer)
          BY <2>3, <2>4, TxsOfTwo
        <4> QED BY <3>3, <4>1, MoreTxs
      <3>5. Cardinality(A!Shown \cup newer) <= Cardinality(A!Shown) + Cardinality(newer)
            /\ Cardinality(A!Shown \cup newer) \in Nat
        BY <2>3, <2>4, TxsOfTwo
      <3> HIDE DEF far
      <3> QED BY <2>3, <2>4, <2>5, <3>2, <3>4, <3>5
    <2> QED BY <2>7, <2>8
  <1> QED BY <1>12, <1>13, <1>14, <1>15 DEF HistoryInv

\* A longer history only adds to what is newer.
LEMMA LeadsGrow ==
    ASSUME NEW s, NEW p, NEW l \in {A!NoPage} \cup Pages, NEW n \in Nat, NEW m \in Nat, n <= m,
           Leads(n, s, p, l)
    PROVE  Leads(m, s, p, l)
  <1>1. /\ TxsBeyond(s, p, n) \subseteq TxsBeyond(s, p, m)
        /\ AtLeast(p.cursor, TxsOf(s, n)) \subseteq AtLeast(p.cursor, TxsOf(s, m))
        /\ AtLeast(p.cursor, TxsOf(s, m)) \subseteq TxsOf(s, m)
    BY DEF TxsBeyond, TxsOf, AtLeast
  <1>2. IsFiniteSet(TxsBeyond(s, p, m)) /\ IsFiniteSet(AtLeast(p.cursor, TxsOf(s, m)))
    <2>1. IsFiniteSet(TxsBeyond(s, p, m)) /\ IsFiniteSet(TxsOf(s, m))
      BY TxsAreNumbers DEF AreTxs
    <2> QED BY <1>1, <2>1, MoreTxs
  <1>3. /\ Cardinality(TxsBeyond(s, p, n)) <= Cardinality(TxsBeyond(s, p, m))
        /\ Cardinality(AtLeast(p.cursor, TxsOf(s, n)))
              <= Cardinality(AtLeast(p.cursor, TxsOf(s, m)))
        /\ Cardinality(TxsBeyond(s, p, n)) \in Nat /\ Cardinality(TxsBeyond(s, p, m)) \in Nat
        /\ Cardinality(AtLeast(p.cursor, TxsOf(s, n))) \in Nat
        /\ Cardinality(AtLeast(p.cursor, TxsOf(s, m))) \in Nat
    BY <1>1, <1>2, MoreTxs
  <1>4. l # A!NoPage => (l - 1) * PAGE_SIZE \in Int /\ (l - 2) * PAGE_SIZE \in Int
    BY HistoryAssumption DEF Pages
  <1>5. ASSUME l # A!NoPage, p.order = "asc"
        PROVE  l = 1 \/ (l - 1) * PAGE_SIZE < Cardinality(TxsBeyond(s, p, m))
    <2>1. l = 1 \/ (l - 1) * PAGE_SIZE < Cardinality(TxsBeyond(s, p, n))
      BY <1>5 DEF Leads
    <2> QED BY <1>3, <1>4, <1>5, <2>1
  <1>6. ASSUME l # A!NoPage, p.order = "desc", p.cursor # 0
        PROVE  (l - 2) * PAGE_SIZE < Cardinality(AtLeast(p.cursor, TxsOf(s, m)))
    <2>1. (l - 2) * PAGE_SIZE < Cardinality(AtLeast(p.cursor, TxsOf(s, n)))
      BY <1>6 DEF Leads
    <2> QED BY <1>3, <1>4, <1>6, <2>1
  <1> QED BY <1>5, <1>6 DEF Leads

LEMMA GoLastKeeps == ASSUME HistoryInv, A!GoLast PROVE HistoryInv'
  <1>1. /\ position' = A!Oldest /\ A!Oldest # A!Latest
        /\ label' = IF A!countCapped THEN A!NoPage ELSE A!pageCount
        /\ dataAt' \in FirstCount..txCount
        /\ UNCHANGED <<txCount, status, latestAt, totalAt>>
    <2>1. A!Oldest # A!Latest
      BY DEF A!Oldest, A!Latest
    <2> QED BY <2>1 DEF A!GoLast, A!Show
  <1>2. /\ txCount \in FirstCount..MaxCount /\ status \in A!Statuses
        /\ latestAt \in FirstCount..txCount
        /\ totalAt \in {A!NoTotal} \cup FirstCount..txCount
        /\ FirstCount \in Nat /\ MaxCount \in Nat /\ txCount \in Nat
        /\ totalAt \in {A!NoTotal} \cup Nat
    BY TypedHistory
  <1>3. label' # A!NoPage =>
           label' = CountAt(status, totalAt) /\ ~CappedAt(status, totalAt)
    BY <1>1, HistoryLabels
  <1>4. label' \in {A!NoPage} \cup Pages
    BY <1>2, <1>3, CountIsTyped
  <1>5. position' \in Positions
    BY <1>1, <1>2 DEF A!Oldest, A!NoCursor, Positions
  <1>6. HistoryTypedAt(txCount', status', position', latestAt', dataAt', totalAt', label')
    BY <1>1, <1>2, <1>4, <1>5 DEF HistoryTypedAt
  <1>7. label' # A!NoPage =>
           /\ totalAt \in FirstCount..txCount /\ totalAt \in Nat
           /\ label' = 1 \/ (label' - 1) * PAGE_SIZE < Cardinality(TxsOf(status, totalAt))
           /\ label' = PagesAt(status, totalAt)
    <2> SUFFICES ASSUME label' # A!NoPage
                 PROVE  /\ totalAt \in FirstCount..txCount /\ totalAt \in Nat
                        /\ label' = 1
                           \/ (label' - 1) * PAGE_SIZE < Cardinality(TxsOf(status, totalAt))
                        /\ label' = PagesAt(status, totalAt)
      OBVIOUS
    <2>1. label' = CountAt(status, totalAt) /\ ~CappedAt(status, totalAt)
      BY <1>3
    <2>2. /\ totalAt \in Nat
          /\ label' = 1 \/ (label' - 1) * PAGE_SIZE < Cardinality(TxsOf(status, totalAt))
          /\ label' = PagesAt(status, totalAt)
      BY <1>2, <2>1, CountIsTyped
    <2>3. totalAt # A!NoTotal
      BY <2>2 DEF A!NoTotal
    <2> QED BY <1>2, <2>2, <2>3
  <1>8. LastLabelled(txCount', status', position', label')
    <2> SUFFICES ASSUME txCount' = FirstCount, label' # A!NoPage
                 PROVE  label' = PagesAt(status', txCount')
      BY DEF LastLabelled
    <2>1. totalAt = txCount
      BY <1>1, <1>2, <1>7
    <2> QED BY <1>1, <1>7, <2>1
  <1>9. LabelledAt(txCount', status', position', dataAt', totalAt', label')
    <2>1. CASE txCount # FirstCount
      BY <1>1, <2>1 DEF LabelledAt
    <2>2. CASE txCount = FirstCount
      <3>1. dataAt' = txCount /\ totalAt \in {A!NoTotal, txCount}
        BY <1>1, <1>2, <2>2
      <3> QED BY <1>1, <1>2, <1>8, <2>2, <3>1, EndsAreLabelled
    <2> QED BY <2>1, <2>2
  <1>10. Leads(txCount', status', position', label')
    <2> SUFFICES ASSUME label' # A!NoPage
                 PROVE  label' = 1
                        \/ (label' - 1) * PAGE_SIZE < Cardinality(TxsBeyond(status, A!Oldest, txCount))
      <3>1. A!Oldest.order # "desc"
        BY DEF A!Oldest
      <3> QED BY <1>1, <3>1 DEF Leads
    <2>1. \A n : TxsBeyond(status, A!Oldest, n) = TxsOf(status, n)
      BY DEF TxsBeyond, A!Oldest, A!NoCursor
    <2>2. Leads(totalAt, status, A!Oldest, label')
      <3>1. A!Oldest.order # "desc"
        BY DEF A!Oldest
      <3> QED BY <1>7, <2>1, <3>1 DEF Leads
    <2>3. totalAt \in Nat /\ totalAt <= txCount
      BY <1>2, <1>7
    <2>4. Leads(txCount, status, A!Oldest, label')
      <3> DEFINE l == label'
      <3>1. l \in {A!NoPage} \cup Pages /\ Leads(totalAt, status, A!Oldest, l)
        BY <1>4, <2>2
      <3> HIDE DEF l
      <3>2. Leads(txCount, status, A!Oldest, l)
        BY <1>2, <2>3, <3>1, LeadsGrow
      <3> QED BY <3>2 DEF l
    <2> QED BY <2>4 DEF Leads, A!Oldest
  <1> QED BY <1>6, <1>8, <1>9, <1>10 DEF HistoryInv

LEMMA HistoryNext ==
    ASSUME HistoryInv, [A!Next]_(A!vars)
    PROVE  HistoryInv'
  <1>1. /\ txCount \in FirstCount..MaxCount /\ status \in A!Statuses /\ position \in Positions
        /\ latestAt \in FirstCount..txCount /\ dataAt \in FirstCount..txCount
        /\ totalAt \in {A!NoTotal} \cup FirstCount..txCount
        /\ label \in {A!NoPage} \cup Pages
        /\ FirstCount \in Nat /\ MaxCount \in Nat /\ txCount \in Nat /\ latestAt \in Nat
        /\ dataAt \in Nat /\ totalAt \in {A!NoTotal} \cup Nat /\ A!NoPage = -1
    BY TypedHistory
  <1>2. /\ LabelledAt(txCount, status, position, dataAt, totalAt, label)
        /\ LastLabelled(txCount, status, position, label)
        /\ Leads(txCount, status, position, label)
    BY DEF HistoryInv
  \* To the latest page
  <1>3. ASSUME position' = A!Latest,
               HistoryTypedAt(txCount', status', position', latestAt', dataAt', totalAt', label')
        PROVE  HistoryInv'
    <2>1. A!Latest # A!Oldest /\ A!Latest.order # "asc" /\ A!Latest.cursor = 0
      BY DEF A!Latest, A!Oldest, A!NoCursor
    <2>2. LastLabelled(txCount', status', position', label')
          /\ Leads(txCount', status', position', label')
      BY <1>3, <2>1 DEF LastLabelled, Leads
    <2>3. CASE txCount' # FirstCount
      BY <1>3, <2>2, <2>3 DEF HistoryInv, LabelledAt
    <2>4. CASE txCount' = FirstCount
      <3>1. dataAt' = txCount' /\ totalAt' \in {A!NoTotal, txCount'} /\ txCount' \in Nat
        BY <1>1, <1>3, <2>4 DEF HistoryTypedAt
      <3>2. LabelledAt(txCount', status', position', dataAt', totalAt', label')
        BY <1>3, <2>2, <2>4, <3>1, EndsAreLabelled
      <3> QED BY <1>3, <2>2, <3>2 DEF HistoryInv
    <2> QED BY <2>3, <2>4
  <1>4. A!Latest \in Positions /\ 1 \in Pages
    BY <1>1 DEF A!Latest, A!NoCursor, Positions, Pages
  <1>5. CASE A!Arrive
    <2>1. /\ txCount < MaxCount /\ txCount' = txCount + 1
          /\ UNCHANGED <<status, position, latestAt, dataAt, totalAt, label>>
      BY <1>5 DEF A!Arrive
    <2>2. /\ txCount' \in FirstCount..MaxCount /\ txCount' # FirstCount
          /\ txCount' \in Nat /\ txCount <= txCount'
          /\ latestAt' \in FirstCount..txCount' /\ dataAt' \in FirstCount..txCount'
          /\ totalAt' \in {A!NoTotal} \cup FirstCount..txCount'
      BY <1>1, <2>1
    <2>3. Leads(txCount', status', position', label')
      <3> DEFINE n == txCount'
      <3>1. n \in Nat /\ txCount <= n
        BY <2>2
      <3> HIDE DEF n
      <3>2. Leads(n, status, position, label)
        BY <1>1, <1>2, <3>1, LeadsGrow
      <3> QED BY <2>1, <3>2 DEF n
    <2> QED BY <1>1, <2>1, <2>2, <2>3
          DEF HistoryInv, HistoryTypedAt, LabelledAt, LastLabelled
  <1>6. CASE A!GoFirst
    <2>1. /\ position' = A!Latest /\ label' = 1 /\ dataAt' = latestAt
          /\ UNCHANGED <<txCount, status, latestAt, totalAt>>
      BY <1>6 DEF A!GoFirst, A!Show
    <2> QED BY <1>1, <1>3, <1>4, <2>1 DEF HistoryTypedAt
  <1>7. ASSUME NEW s \in A!Statuses, A!SetStatus(s) PROVE HistoryInv'
    <2>1. /\ status' = s /\ position' = A!Latest /\ label' = A!NoPage
          /\ latestAt' \in FirstCount..txCount /\ dataAt' = latestAt'
          /\ totalAt' \in {A!NoTotal} \cup FirstCount..latestAt' /\ txCount' = txCount
      BY <1>7 DEF A!SetStatus
    <2>2. totalAt' \in {A!NoTotal} \cup FirstCount..txCount
      BY <1>1, <2>1
    <2> QED BY <1>1, <1>3, <1>4, <2>1, <2>2 DEF HistoryTypedAt
  <1>8. ASSUME latestAt' \in FirstCount..txCount, dataAt' \in FirstCount..txCount,
               totalAt' \in {A!NoTotal} \cup FirstCount..txCount,
               UNCHANGED <<txCount, status, position, label>>
        PROVE  HistoryInv'
    <2>1. HistoryTypedAt(txCount', status', position', latestAt', dataAt', totalAt', label')
      BY <1>1, <1>8 DEF HistoryTypedAt
    <2>2. LastLabelled(txCount', status', position', label')
          /\ Leads(txCount', status', position', label')
      BY <1>2, <1>8
    <2>3. LabelledAt(txCount', status', position', dataAt', totalAt', label')
      <3>1. CASE txCount # FirstCount
        BY <1>8, <3>1 DEF LabelledAt
      <3>2. CASE txCount = FirstCount
        <4>1. dataAt' = txCount /\ dataAt = txCount /\ totalAt' \in {A!NoTotal, txCount}
          BY <1>1, <1>8, <3>2
        <4>2. CASE position \in {A!Latest, A!Oldest}
          BY <1>1, <1>8, <2>2, <3>2, <4>1, <4>2, EndsAreLabelled
        <4>3. CASE position \notin {A!Latest, A!Oldest}
          BY <1>2, <1>8, <4>1, <4>3 DEF LabelledAt, LabelAt
        <4> QED BY <4>2, <4>3
      <3> QED BY <3>1, <3>2
    <2> QED BY <2>1, <2>2, <2>3 DEF HistoryInv
  <1>9. CASE A!RefetchLatest
    <2>1. /\ latestAt' = txCount /\ dataAt' \in {txCount, dataAt}
          /\ totalAt' \in {A!NoTotal} \cup FirstCount..txCount
          /\ UNCHANGED <<txCount, status, position, label>>
      BY <1>9 DEF A!RefetchLatest
    <2> QED BY <1>1, <1>8, <2>1
  <1>10. CASE A!RefetchSelected
    <2>1. /\ dataAt' = txCount
          /\ UNCHANGED <<txCount, status, position, latestAt, totalAt, label>>
      BY <1>10 DEF A!RefetchSelected
    <2> QED BY <1>1, <1>8, <2>1
  <1>11. CASE UNCHANGED A!vars
    BY <1>1, <1>8, <1>11 DEF A!vars
  <1> QED BY <1>5, <1>6, <1>7, <1>9, <1>10, <1>11, GoNextKeeps, GoPreviousKeeps, GoLastKeeps
          DEF A!Next

LEMMA HistoryAlways == AllSpec => []HistoryInv
  <1>1. AllInit => HistoryInv
    BY HistoryInit DEF AllInit
  <1>2. HistoryInv /\ [AllNext]_allVars => HistoryInv'
    <2>1. [AllNext]_allVars => [A!Next]_(A!vars)
      BY Zenon DEF AllNext, allVars, partVars, historyVars, A!vars
    <2> QED BY <2>1, HistoryNext
  <1> QED BY <1>1, <1>2, PTL DEF AllSpec

LEMMA LabelsStayInside == HistoryInv => LabelsAgree
  <1> SUFFICES ASSUME HistoryInv PROVE A!LabelsAgree
    BY DEF LabelsAgree
  <1> DEFINE txs == TxsOf(status, txCount)
             k == LabelAt(position, label, status, totalAt)
             n == PagesAt(status, txCount)
  <1>1. A!Matching(txCount) = txs /\ A!Shown = PageAt(status, position, dataAt)
        /\ A!currentPage = k
    BY HistoryPages, HistoryLabels DEF A!Shown
  <1>2. IsFiniteSet(txs) /\ txs \subseteq Int
    BY TypedHistory, TxsAreNumbers DEF AreTxs
  <1>3. A!PagesFor(A!Cardinality(A!Matching(txCount))) = n
    BY <1>1, HistoryCardinality DEF PagesAt
  <1>4. ASSUME k # A!NoPage, txCount = FirstCount, txs # {}
        PROVE  k \in 1..n /\ (k = 1 <=> A!Max(txs) \in A!Shown)
               /\ (k = n <=> A!Min(txs) \in A!Shown)
    <2>1. IsPage(txs, A!Shown, k, n)
      BY <1>1, <1>4 DEF HistoryInv, LabelledAt
    <2> HIDE DEF txs, k, n
    <2>2. /\ A!Max(txs) \in txs /\ \A x \in txs : x <= A!Max(txs)
          /\ A!Min(txs) \in txs /\ \A x \in txs : A!Min(txs) <= x
      BY <1>2, <1>4, HistoryMax
    <2> QED BY <2>1, <2>2, EndsOfPages
  <1>5. ASSUME k # A!NoPage, A!Shown # {}
        PROVE  (k - 2) * PAGE_SIZE < Cardinality({tx \in txs : tx > A!Max(A!Shown)})
    BY <1>5, LabelLeads
  <1> HIDE DEF txs, k, n
  <1> QED BY <1>1, <1>3, <1>4, <1>5, HistoryCardinality DEF A!LabelsAgree

\* The labels of HistoryPagination, for pages of any size and histories of any
\* length, opened at any page and with the count known or not: a label counts from
\* both ends while the history does not grow, and at most a page too many from the
\* newest when it does.
THEOREM LabelsStayRight == AllSpec => []LabelsAgree
  <1> QED BY HistoryAlways, LabelsStayInside, PTL

\* Page e is older than page d, and no transaction of txs lies between
Adjoin(txs, e, d) ==
    /\ e # {} /\ d # {} /\ \A o \in e, m \in d : o < m
    /\ \A tx \in txs : ~(A!Max(e) < tx /\ tx < A!Min(d))

\* The page behind a cursor adjoins the page that ends with it.
LEMMA CursorDivides ==
    ASSUME NEW s, NEW h \in Nat, NEW n \in Nat, h <= n, NEW c \in TxsOf(s, h),
           NEW d, d \subseteq Int, IsFiniteSet(d), c \in d, \A x \in d : c <= x,
           NEW rest, \A x : x \in rest <=> x \in TxsOf(s, h) /\ x < c, rest # {}
    PROVE  Adjoin(TxsOf(s, n), Largest(PAGE_SIZE, rest), d)
  <1> DEFINE e == Largest(PAGE_SIZE, rest)
  <1>1. A!Min(d) \in d /\ \A x \in d : A!Min(d) <= x
    BY HistoryMax
  <1>2. TxsOf(s, h) \subseteq Int /\ IsFiniteSet(TxsOf(s, h)) /\ c \in 1..h /\ c \in Int
    BY TxsAreNumbers DEF AreTxs, TxsOf
  <1>3. \A tx \in TxsOf(s, n) : tx \in Int /\ (tx <= h => tx \in TxsOf(s, h))
    BY DEF TxsOf
  <1>4. AreTxs(rest) /\ rest \subseteq Int
    BY <1>2, FS_Subset DEF AreTxs
  <1>5. IsFiniteSet(e) /\ e \subseteq rest /\ e # {} /\ e \subseteq Int
        /\ \A x \in e, y \in rest \ e : y < x
    BY <1>4, PageIsTaken DEF Takes
  <1> HIDE DEF e
  <1>6. A!Max(e) \in e /\ \A x \in e : x <= A!Max(e)
    BY <1>5, HistoryMax
  <1>7. ASSUME NEW o \in e, NEW m \in d PROVE o < m
    <2>1. o \in Int /\ m \in Int /\ o < c /\ c <= m
      BY <1>5
    <2> QED BY <1>2, <2>1
  <1>8. ASSUME NEW tx \in TxsOf(s, n), A!Max(e) < tx, tx < A!Min(d) PROVE FALSE
    <2>1. A!Min(d) \in Int /\ A!Min(d) <= c
      BY <1>1
    <2>2. tx \in Int /\ (tx <= h => tx \in TxsOf(s, h))
      BY <1>3
    <2>3. tx < c /\ tx <= h
      BY <1>2, <1>8, <2>1, <2>2
    <2>4. tx \in rest
      BY <2>2, <2>3
    <2>5. A!Max(e) \in Int
      BY <1>5, <1>6
    <2>6. tx \notin e
      <3> SUFFICES ASSUME tx \in e PROVE FALSE
        OBVIOUS
      <3>1. tx <= A!Max(e)
        BY <1>6
      <3> QED BY <1>8, <2>2, <2>5, <3>1
    <2>7. tx < A!Max(e)
      BY <1>5, <1>6, <2>4, <2>6
    <2> QED BY <1>8, <2>2, <2>5, <2>7
  <1>9. d # {}
    OBVIOUS
  <1>10. Adjoin(TxsOf(s, n), e, d)
    BY <1>5, <1>7, <1>8, <1>9 DEF Adjoin
  <1> QED BY <1>10 DEF e

LEMMA CursorDividesBack ==
    ASSUME NEW s, NEW h \in Nat, NEW n \in Nat, h <= n, NEW c \in TxsOf(s, h),
           NEW d, d \subseteq Int, IsFiniteSet(d), c \in d, \A x \in d : x <= c,
           NEW rest, \A x : x \in rest <=> x \in TxsOf(s, h) /\ x > c, rest # {}
    PROVE  Adjoin(TxsOf(s, n), d, Smallest(PAGE_SIZE, rest))
  <1> DEFINE e == Smallest(PAGE_SIZE, rest)
  <1>1. A!Max(d) \in d /\ \A x \in d : x <= A!Max(d)
    BY HistoryMax
  <1>2. TxsOf(s, h) \subseteq Int /\ IsFiniteSet(TxsOf(s, h)) /\ c \in 1..h /\ c \in Int
    BY TxsAreNumbers DEF AreTxs, TxsOf
  <1>3. \A tx \in TxsOf(s, n) : tx \in Int /\ (tx <= h => tx \in TxsOf(s, h))
    BY DEF TxsOf
  <1>4. AreTxs(rest) /\ rest \subseteq Int /\ \A x \in rest : x <= h
    BY <1>2, FS_Subset DEF AreTxs, TxsOf
  <1>5. IsFiniteSet(e) /\ e \subseteq rest /\ e # {} /\ e \subseteq Int
        /\ \A x \in e, y \in rest \ e : x < y
    BY <1>4, PageIsTaken DEF Takes
  <1> HIDE DEF e
  <1>6. A!Min(e) \in e /\ \A x \in e : A!Min(e) <= x
    BY <1>5, HistoryMax
  <1>7. ASSUME NEW o \in d, NEW m \in e PROVE o < m
    <2>1. o \in Int /\ m \in Int /\ m > c /\ o <= c
      BY <1>5
    <2> QED BY <1>2, <2>1
  <1>8. ASSUME NEW tx \in TxsOf(s, n), A!Max(d) < tx, tx < A!Min(e) PROVE FALSE
    <2>1. A!Max(d) \in Int /\ c <= A!Max(d)
      BY <1>1
    <2>2. tx \in Int /\ (tx <= h => tx \in TxsOf(s, h))
      BY <1>3
    <2>3. A!Min(e) \in Int /\ A!Min(e) <= h
      BY <1>4, <1>5, <1>6
    <2>4. tx > c /\ tx <= h
      BY <1>2, <1>8, <2>1, <2>2, <2>3
    <2>5. tx \in rest
      BY <2>2, <2>4
    <2>6. tx \notin e
      <3> SUFFICES ASSUME tx \in e PROVE FALSE
        OBVIOUS
      <3>1. A!Min(e) <= tx
        BY <1>6
      <3> QED BY <1>8, <2>2, <2>3, <3>1
    <2>7. A!Min(e) < tx
      BY <1>5, <1>6, <2>5, <2>6
    <2> QED BY <1>8, <2>2, <2>3, <2>7
  <1>9. d # {}
    OBVIOUS
  <1>10. Adjoin(TxsOf(s, n), d, e)
    BY <1>5, <1>7, <1>8, <1>9 DEF Adjoin
  <1> QED BY <1>10 DEF e

\* getHistoryNavigation, for pages of any size and histories of any length: the
\* pages behind the links adjoin the page left.
THEOREM TurnedPagesAdjoin == AllSpec => PagesAdjoin
  <1>1. HistoryInv /\ [AllNext]_allVars => [part = "history" => A!TurnsToAdjoiningPage]_allVars
    <2> SUFFICES ASSUME HistoryInv PROVE A!TurnsToAdjoiningPage
      OBVIOUS
    <2> DEFINE d == A!Shown
    <2>1. /\ txCount \in Nat /\ dataAt \in Nat /\ dataAt <= txCount /\ FirstCount \in Nat
      BY HistoryAssumption DEF HistoryInv, HistoryTypedAt
    <2>2. d = PageAt(status, position, dataAt) /\ A!Matching(txCount) = TxsOf(status, txCount)
      BY HistoryPages DEF A!Shown
    <2>3. IsFiniteSet(d) /\ d \subseteq Int
      <3>1. Takes(d, TxsBeyond(status, position, dataAt))
        BY <2>1, <2>2, PageOfPosition
      <3>2. AreTxs(TxsBeyond(status, position, dataAt))
        BY <2>1, TxsAreNumbers
      <3> QED BY <3>1, <3>2 DEF Takes, AreTxs
    <2> HIDE DEF d
    <2>4. ASSUME A!GoNext PROVE A!Follows(A!Shown', A!Shown)
      <3> DEFINE c == A!NextPosition.cursor
                 rest == {x \in TxsOf(status, dataAt') : x < c}
                 e == Largest(PAGE_SIZE, rest)
      <3>1. /\ c # 0 /\ c \in TxsOf(status, dataAt') /\ rest # {}
            /\ A!Shown' = e /\ dataAt' \in FirstCount..txCount
        BY <2>4, NextShows, HistoryPagesNext
      <3>2. c \in d /\ \A x \in d : c <= x
        BY <3>1, LinkNext DEF d
      <3> HIDE DEF c
      <3>3. dataAt' \in Nat /\ dataAt' <= txCount
        BY <2>1, <3>1
      <3>4. Adjoin(TxsOf(status, txCount), e, d)
        <4>1. ASSUME NEW h, h = dataAt', NEW r, r = rest
              PROVE  Adjoin(TxsOf(status, txCount), Largest(PAGE_SIZE, r), d)
          <5>1. h \in Nat /\ h <= txCount /\ c \in TxsOf(status, h)
            BY <3>1, <3>3, <4>1
          <5>2. r # {} /\ \A x : x \in r <=> x \in TxsOf(status, h) /\ x < c
            BY <3>1, <4>1
          <5> HIDE DEF e, rest
          <5> QED BY <2>1, <2>3, <3>2, <5>1, <5>2, CursorDivides
        <4> QED BY <4>1 DEF e
      <3> HIDE DEF e
      <3> QED BY <2>2, <3>1, <3>2, <3>4 DEF A!Follows, d, Adjoin
    <2>5. ASSUME A!GoPrevious PROVE A!Follows(A!Shown, A!Shown')
      <3> DEFINE c == A!Previous.cursor
                 rest == {x \in TxsOf(status, dataAt') : x > c}
                 e == Smallest(PAGE_SIZE, rest)
      <3>1. /\ c # 0 /\ c \in TxsOf(status, dataAt') /\ rest # {}
            /\ A!Shown' = e /\ dataAt' \in FirstCount..txCount
        BY <2>5, PreviousShows, HistoryPagesNext
      <3>2. c \in d /\ \A x \in d : x <= c
        BY <3>1, LinkPrevious DEF d
      <3> HIDE DEF c
      <3>3. dataAt' \in Nat /\ dataAt' <= txCount
        BY <2>1, <3>1
      <3>4. Adjoin(TxsOf(status, txCount), d, e)
        <4>1. ASSUME NEW h, h = dataAt', NEW r, r = rest
              PROVE  Adjoin(TxsOf(status, txCount), d, Smallest(PAGE_SIZE, r))
          <5>1. h \in Nat /\ h <= txCount /\ c \in TxsOf(status, h)
            BY <3>1, <3>3, <4>1
          <5>2. r # {} /\ \A x : x \in r <=> x \in TxsOf(status, h) /\ x > c
            BY <3>1, <4>1
          <5> HIDE DEF e, rest
          <5> QED BY <2>1, <2>3, <3>2, <5>1, <5>2, CursorDividesBack
        <4> QED BY <4>1 DEF e
      <3> HIDE DEF e
      <3> QED BY <2>2, <3>1, <3>2, <3>4 DEF A!Follows, d, Adjoin
    <2> QED BY <2>4, <2>5 DEF A!TurnsToAdjoiningPage
  <1> QED BY <1>1, HistoryAlways, PTL DEF AllSpec, PagesAdjoin

-----------------------------------------------------------------------------
(* The history of snapshots.  The request under way asks for what is older  *)
(* than the oldest snapshot shown, and its answer holds all of the page     *)
(* that was complete when the history was opened.                           *)

ShowsNewest(n) ==
    /\ opened[n] \subseteq complete[n]
    /\ shown[n] \subseteq complete[n]
    /\ \A b \in opened[n] \ shown[n] : \A k \in shown[n] : b < k
    /\ ~hasMore[n] /\ Largest(SNAPSHOT_HISTORY_PAGE_SIZE, O!Blocks) \subseteq opened[n]
       /\ n \notin passedOver => opened[n] \subseteq shown[n]

\* What the page below a block holds
PageBelow(b) == Largest(SNAPSHOT_HISTORY_PAGE_SIZE, O!Below(b))

IsOldestShown(n, b) == b \in shown[n] /\ \A k \in shown[n] : b <= k

IsAnswer(n, b, ans) ==
    /\ ans \in [snapshots : SUBSET O!Blocks, hasMore : BOOLEAN]
    /\ ans.snapshots \subseteq complete[n] /\ ans.snapshots \subseteq PageBelow(b)
    /\ opened[n] \cap PageBelow(b) \subseteq ans.snapshots
    /\ ~ans.hasMore => PageBelow(b) = O!Below(b)

Loads(n, b, ans) ==
    /\ loading = [network |-> n, beforeBlock |-> b, answer |-> ans]
    /\ IsOldestShown(n, b)
    /\ ans # None => IsAnswer(n, b, ans)

HistoryTyped ==
    /\ complete \in [Networks -> SUBSET O!Blocks]
    /\ opened \in [Networks -> SUBSET O!Blocks]
    /\ shown \in [Networks -> SUBSET O!Blocks]
    /\ hasMore \in [Networks -> BOOLEAN]
    /\ active \in Networks /\ passedOver \in SUBSET Networks

SnapshotsInv ==
    /\ HistoryTyped
    /\ \A n \in Networks : ShowsNewest(n)
    /\ \/ loading = O!NotLoading
       \/ \E n \in Networks, b \in O!Blocks : \E ans : Loads(n, b, ans)

LEMMA BlocksAreFinite ==
    ASSUME NEW bs \in SUBSET O!Blocks PROVE IsFiniteSet(bs) /\ bs \subseteq Int
  <1>1. MaxSnapshot \in Int /\ 1 \in Int
    BY SnapshotAssumption
  <1>2. IsFiniteSet(O!Blocks)
    BY <1>1, FS_Interval DEF O!Blocks
  <1>3. bs \subseteq Int
    BY <1>1 DEF O!Blocks
  <1> QED BY <1>2, <1>3, FS_Subset

LEMMA NewestSnapshots == ASSUME NEW n, NEW bs PROVE O!Newest(n, bs) = Largest(n, bs)
  <1>1. ASSUME NEW x \in bs PROVE x \in O!Newest(n, bs) <=> x \in Largest(n, bs)
    <2>1. {c \in bs : c > x} = Above(x, bs)
      BY DEF Above
    <2>2. x \in O!Newest(n, bs) <=> O!Cardinality({c \in bs : c > x}) < n
      BY Zenon DEF O!Newest
    <2>3. O!Cardinality(Above(x, bs)) = Cardinality(Above(x, bs))
      BY Zenon DEF O!Cardinality, Cardinality, O!IsFiniteSet, IsFiniteSet
    <2> QED BY <2>1, <2>2, <2>3 DEF Largest
  <1>2. O!Newest(n, bs) \subseteq bs /\ Largest(n, bs) \subseteq bs
    BY Zenon DEF O!Newest, Largest
  <1> QED BY <1>1, <1>2

\* What is not among the newest is older than all of them.
LEMMA RestIsOlder ==
    ASSUME NEW bs \in SUBSET O!Blocks, NEW x \in bs,
           x \notin Largest(SNAPSHOT_HISTORY_PAGE_SIZE, bs),
           NEW y \in Largest(SNAPSHOT_HISTORY_PAGE_SIZE, bs)
    PROVE  x < y
  <1>1. IsFiniteSet(bs) /\ bs \subseteq Int /\ SNAPSHOT_HISTORY_PAGE_SIZE \in Nat
    BY BlocksAreFinite, SnapshotAssumption
  <1>2. y \in bs /\ x \in Int /\ y \in Int
    BY <1>1 DEF Largest
  <1>3. ~(x >= y)
    BY <1>1, LargestIsUpward
  <1> QED BY <1>2, <1>3

LEMMA SnapshotsInit == O!Init => SnapshotsInv
  <1> SUFFICES ASSUME O!Init PROVE SnapshotsInv
    OBVIOUS
  <1> DEFINE N == Largest(SNAPSHOT_HISTORY_PAGE_SIZE, O!Blocks)
  <1>1. /\ complete \in [Networks -> SUBSET O!Blocks] /\ opened = complete
        /\ shown = [n \in Networks |-> N \cap complete[n]]
        /\ active \in Networks /\ loading = O!NotLoading /\ passedOver = {}
    BY NewestSnapshots DEF O!Init
  <1>2. hasMore = [n \in Networks |-> Cardinality(shown[n]) >= SNAPSHOT_HISTORY_PAGE_SIZE]
    <2>1. \A Z : O!Cardinality(Z) = Cardinality(Z)
      BY Zenon DEF O!Cardinality, Cardinality, O!IsFiniteSet, IsFiniteSet
    <2>2. hasMore = [n \in Networks |-> O!Cardinality(shown[n]) >= SNAPSHOT_HISTORY_PAGE_SIZE]
      BY DEF O!Init
    <2> QED BY <2>1, <2>2
  <1>3. HistoryTyped
    <2>1. hasMore \in [Networks -> BOOLEAN]
      BY <1>2
    <2>2. shown \in [Networks -> SUBSET O!Blocks]
      BY <1>1
    <2> QED BY <1>1, <2>1, <2>2 DEF HistoryTyped
  <1>4. ASSUME NEW n \in Networks PROVE ShowsNewest(n)
    <2>1. /\ IsFiniteSet(O!Blocks) /\ O!Blocks \subseteq Int
          /\ SNAPSHOT_HISTORY_PAGE_SIZE \in Nat
      BY BlocksAreFinite, SnapshotAssumption
    <2>2. shown[n] = N \cap complete[n] /\ opened[n] = complete[n]
          /\ complete[n] \in SUBSET O!Blocks
      BY <1>1
    <2>3. ASSUME NEW b \in opened[n] \ shown[n], NEW k \in shown[n] PROVE b < k
      <3>1. b \in O!Blocks /\ b \notin N /\ k \in N
        BY <2>2
      <3> QED BY <3>1, RestIsOlder
    <2>4. ASSUME ~hasMore[n], N \subseteq opened[n] PROVE opened[n] \subseteq shown[n]
      <3>1. shown[n] = N
        BY <2>2, <2>4
      <3>2. ~(Cardinality(N) >= SNAPSHOT_HISTORY_PAGE_SIZE)
        BY <1>2, <2>4, <3>1
      <3>3. Cardinality(N) \in Nat
        BY <2>1, LargestAreFew, FS_CardinalityType
      <3>4. Cardinality(N) < SNAPSHOT_HISTORY_PAGE_SIZE
        <4> HIDE DEF N
        <4> QED BY <2>1, <3>2, <3>3
      <3>5. N = O!Blocks
        BY <2>1, <3>4, LargestAreAll
      <3> QED BY <2>2, <3>1, <3>5
    <2> QED BY <2>2, <2>3, <2>4 DEF ShowsNewest
  <1> QED BY <1>1, <1>3, <1>4 DEF SnapshotsInv

\* A request under way stays one while its network shows what it showed.
LEMMA LoadsStay ==
    ASSUME NEW n \in Networks, NEW b \in O!Blocks, NEW ans, Loads(n, b, ans),
           UNCHANGED <<shown, loading, opened>>, complete[n] \subseteq complete'[n]
    PROVE  Loads(n, b, ans)'
  BY DEF Loads, IsOldestShown, IsAnswer

LEMMA FinishKeeps ==
    ASSUME SnapshotsInv, NEW n \in Networks, NEW b \in O!Blocks, O!Finish(n, b)
    PROVE  SnapshotsInv'
  <1>1. /\ complete' = [complete EXCEPT ![n] = @ \cup {b}]
        /\ UNCHANGED <<opened, shown, hasMore, active, loading, passedOver>>
    BY DEF O!Finish
  <1>2. HistoryTyped'
    BY <1>1 DEF SnapshotsInv, HistoryTyped
  <1>3. \A m \in Networks : complete[m] \subseteq complete'[m]
    BY <1>1 DEF SnapshotsInv, HistoryTyped
  <1>4. ASSUME NEW m \in Networks PROVE ShowsNewest(m)'
    <2>1. ShowsNewest(m)
      BY DEF SnapshotsInv
    <2> QED BY <1>1, <1>3, <2>1 DEF ShowsNewest
  <1>5. CASE loading = O!NotLoading
    BY <1>1, <1>2, <1>4, <1>5 DEF SnapshotsInv, O!NotLoading
  <1>6. ASSUME NEW m \in Networks, NEW k \in O!Blocks, NEW ans, Loads(m, k, ans)
        PROVE  SnapshotsInv'
    <2>1. Loads(m, k, ans)'
      BY <1>1, <1>3, <1>6, LoadsStay
    <2> QED BY <1>2, <1>4, <2>1 DEF SnapshotsInv
  <1> QED BY <1>5, <1>6 DEF SnapshotsInv

LEMMA ChooseNetworkKeeps ==
    ASSUME SnapshotsInv, NEW n \in Networks, O!ChooseNetwork(n) PROVE SnapshotsInv'
  <1>1. active' = n
        /\ UNCHANGED <<complete, opened, shown, hasMore, loading, passedOver>>
    BY DEF O!ChooseNetwork
  <1> QED BY <1>1 DEF SnapshotsInv, HistoryTyped, ShowsNewest, Loads, IsOldestShown, IsAnswer,
                      O!NotLoading

LEMMA LoadOlderKeeps == ASSUME SnapshotsInv, O!LoadOlder PROVE SnapshotsInv'
  <1> DEFINE b == O!Min(shown[active])
  <1>1. /\ shown[active] # {} /\ active \in Networks
        /\ shown[active] \in SUBSET O!Blocks
        /\ loading' = [network |-> active, beforeBlock |-> b, answer |-> None]
        /\ UNCHANGED <<complete, opened, shown, hasMore, active, passedOver>>
    BY DEF O!LoadOlder, SnapshotsInv, HistoryTyped
  <1>2. \E m \in shown[active] : \A k \in shown[active] : m <= k
    BY <1>1, BlocksAreFinite, LeastExists
  <1>3. b = CHOOSE x \in shown[active] : \A y \in shown[active] : x =< y
    BY DEF O!Min
  <1> HIDE DEF b
  <1>4. b \in shown[active] /\ \A k \in shown[active] : b <= k
    BY <1>2, <1>3
  <1>5. PICK n \in Networks, x \in O!Blocks : n = active /\ x = b
    BY <1>1, <1>4
  <1>6. Loads(n, x, None)'
    BY <1>1, <1>4, <1>5 DEF Loads, IsOldestShown
  <1>7. HistoryTyped' /\ \A m \in Networks : ShowsNewest(m)'
    BY <1>1 DEF SnapshotsInv, HistoryTyped, ShowsNewest
  <1> QED BY <1>6, <1>7 DEF SnapshotsInv

LEMMA NoneIsNoAnswer ==
    ASSUME NEW n \in Networks, NEW b \in O!Blocks, NEW ans, Loads(n, b, ans)
    PROVE  /\ loading # O!NotLoading
           /\ loading.network = n /\ loading.beforeBlock = b /\ loading.answer = ans
  BY SnapshotAssumption DEF Loads, O!NotLoading

LEMMA ServeKeeps == ASSUME SnapshotsInv, O!Serve PROVE SnapshotsInv'
  <1>0. PICK n \in Networks, b \in O!Blocks : \E ans : Loads(n, b, ans)
    BY DEF O!Serve, SnapshotsInv
  <1>1. PICK ans : Loads(n, b, ans)
    BY <1>0
  <1>2. loading.network = n /\ loading.beforeBlock = b /\ loading.answer = ans /\ ans = None
    BY <1>1, NoneIsNoAnswer DEF O!Serve
  <1> DEFINE new == [snapshots |-> PageBelow(b) \cap complete[n],
                     hasMore   |-> PageBelow(b) # O!Below(b)]
  <1>3. /\ loading' = [loading EXCEPT !.answer = new]
        /\ UNCHANGED <<complete, opened, shown, hasMore, active, passedOver>>
    BY <1>2, NewestSnapshots DEF O!Serve, PageBelow
  <1>4. IsAnswer(n, b, new)
    <2>1. PageBelow(b) \in SUBSET O!Blocks
      BY DEF PageBelow, Largest, O!Below
    <2>2. opened[n] \subseteq complete[n]
      BY DEF SnapshotsInv, ShowsNewest
    <2>3. new.hasMore \in BOOLEAN /\ (~new.hasMore => PageBelow(b) = O!Below(b))
      OBVIOUS
    <2>4. new.snapshots = PageBelow(b) \cap complete[n]
      OBVIOUS
    <2>5. new \in [snapshots : SUBSET O!Blocks, hasMore : BOOLEAN]
      BY <2>1
    <2> QED BY <2>2, <2>3, <2>4, <2>5 DEF IsAnswer
  <1> HIDE DEF new
  <1>5. PICK served : served = new
    OBVIOUS
  <1>6. Loads(n, b, served)'
    <2>1. loading' = [network |-> n, beforeBlock |-> b, answer |-> served]
      BY <1>1, <1>3, <1>5 DEF Loads
    <2>2. IsOldestShown(n, b)' /\ IsAnswer(n, b, served)'
      BY <1>1, <1>3, <1>4, <1>5 DEF Loads, IsOldestShown, IsAnswer
    <2> QED BY <2>1, <2>2 DEF Loads
  <1>7. HistoryTyped' /\ \A m \in Networks : ShowsNewest(m)'
    BY <1>3 DEF SnapshotsInv, HistoryTyped, ShowsNewest
  <1> QED BY <1>6, <1>7 DEF SnapshotsInv

LEMMA AppendLoadedKeeps == ASSUME SnapshotsInv, O!AppendLoaded PROVE SnapshotsInv'
  <1>0. PICK n \in Networks, b \in O!Blocks : \E ans : Loads(n, b, ans)
    BY DEF O!AppendLoaded, SnapshotsInv, O!NotLoading
  <1>1. PICK ans : Loads(n, b, ans)
    BY <1>0
  <1>2. loading.network = n /\ loading.answer = ans /\ ans # None
    BY <1>1, NoneIsNoAnswer DEF O!AppendLoaded
  <1>3. /\ shown' = [shown EXCEPT ![n] = @ \cup ans.snapshots]
        /\ hasMore' = [hasMore EXCEPT ![n] = ans.hasMore /\ ans.snapshots # {}]
        /\ passedOver' = IF ans.hasMore /\ ans.snapshots = {}
                         THEN passedOver \cup {n} ELSE passedOver
        /\ loading' = O!NotLoading
        /\ UNCHANGED <<complete, opened, active>>
    BY <1>2 DEF O!AppendLoaded, O!NetworkLoaded
  <1>4. IsAnswer(n, b, ans) /\ IsOldestShown(n, b)
    BY <1>1, <1>2 DEF Loads
  <1>5. /\ shown \in [Networks -> SUBSET O!Blocks] /\ hasMore \in [Networks -> BOOLEAN]
        /\ ans.snapshots \in SUBSET O!Blocks /\ ans.hasMore \in BOOLEAN
        /\ opened[n] \in SUBSET O!Blocks
    BY <1>4 DEF SnapshotsInv, HistoryTyped, IsAnswer
  <1>6. HistoryTyped'
    <2>1. shown' \in [Networks -> SUBSET O!Blocks]
      BY <1>3, <1>5
    <2>2. hasMore' \in [Networks -> BOOLEAN]
      BY <1>3, <1>5
    <2>3. passedOver' \in SUBSET Networks
      BY <1>3 DEF SnapshotsInv, HistoryTyped
    <2> QED BY <1>3, <2>1, <2>2, <2>3 DEF SnapshotsInv, HistoryTyped
  <1>7. ShowsNewest(n)
    BY DEF SnapshotsInv
  <1>8. shown'[n] = shown[n] \cup ans.snapshots
        /\ (hasMore'[n] <=> ans.hasMore /\ ans.snapshots # {})
    BY <1>3, <1>5
  <1>9. ASSUME NEW x \in opened[n], x \notin shown[n] PROVE x \in O!Below(b)
    <2>1. x < b
      BY <1>4, <1>7, <1>9 DEF ShowsNewest, IsOldestShown
    <2> QED BY <1>5, <2>1 DEF O!Below
  <1>10. ASSUME NEW x \in opened[n] \ shown'[n], NEW k \in shown'[n] PROVE x < k
    <2>1. x \in O!Below(b) /\ x \notin PageBelow(b)
      BY <1>4, <1>8, <1>9 DEF IsAnswer
    <2>2. CASE k \in shown[n]
      BY <1>7, <1>8, <2>2 DEF ShowsNewest
    <2>3. CASE k \in ans.snapshots
      <3>1. k \in PageBelow(b) /\ O!Below(b) \in SUBSET O!Blocks
        BY <1>4, <2>3 DEF IsAnswer, O!Below
      <3> QED BY <2>1, <3>1, RestIsOlder DEF PageBelow
    <2> QED BY <1>8, <2>2, <2>3
  <1>11. ASSUME ~hasMore'[n], n \notin passedOver' PROVE opened[n] \subseteq shown'[n]
    <2>1. ~ans.hasMore
      BY <1>3, <1>8, <1>11
    <2>2. PageBelow(b) = O!Below(b)
      BY <1>4, <2>1 DEF IsAnswer
    <2>3. \A x \in opened[n] : x \in shown[n] \/ x \in ans.snapshots
      BY <1>4, <1>9, <2>2 DEF IsAnswer
    <2> QED BY <1>8, <2>3
  <1>12. ShowsNewest(n)'
    <2>1. shown'[n] \subseteq complete'[n] /\ opened'[n] \subseteq complete'[n]
      BY <1>3, <1>4, <1>7, <1>8 DEF ShowsNewest, IsAnswer
    <2> QED BY <1>3, <1>10, <1>11, <2>1 DEF ShowsNewest
  <1>13. ASSUME NEW m \in Networks, m # n PROVE ShowsNewest(m)'
    <2>1. ShowsNewest(m) /\ shown'[m] = shown[m] /\ hasMore'[m] = hasMore[m]
          /\ (m \in passedOver' <=> m \in passedOver)
      BY <1>3, <1>5, <1>13 DEF SnapshotsInv
    <2> QED BY <1>3, <2>1 DEF ShowsNewest
  <1> QED BY <1>3, <1>6, <1>12, <1>13 DEF SnapshotsInv, O!NotLoading

LEMMA LoadFailsKeeps == ASSUME SnapshotsInv, O!LoadFails PROVE SnapshotsInv'
  <1>0. PICK n \in Networks, b \in O!Blocks : \E ans : Loads(n, b, ans)
    BY DEF O!LoadFails, SnapshotsInv
  <1>1. PICK ans : Loads(n, b, ans)
    BY <1>0
  <1>2. /\ hasMore' = [hasMore EXCEPT ![n] = TRUE] /\ loading' = O!NotLoading
        /\ UNCHANGED <<complete, opened, shown, active, passedOver>>
    BY <1>1, NoneIsNoAnswer DEF O!LoadFails
  <1>3. HistoryTyped'
    BY <1>2 DEF SnapshotsInv, HistoryTyped
  <1>4. ASSUME NEW m \in Networks PROVE ShowsNewest(m)'
    <2>1. ShowsNewest(m) /\ hasMore'[m] = IF m = n THEN TRUE ELSE hasMore[m]
      BY <1>2 DEF SnapshotsInv, HistoryTyped
    <2> QED BY <1>2, <2>1 DEF ShowsNewest
  <1> QED BY <1>2, <1>3, <1>4 DEF SnapshotsInv, O!NotLoading

LEMMA SnapshotsNext == SnapshotsInv /\ [O!Next]_(O!vars) => SnapshotsInv'
  <1> SUFFICES ASSUME SnapshotsInv, [O!Next]_(O!vars) PROVE SnapshotsInv'
    OBVIOUS
  <1>1. CASE UNCHANGED O!vars
    BY <1>1 DEF O!vars, SnapshotsInv, HistoryTyped, ShowsNewest, Loads, IsOldestShown,
                IsAnswer, O!NotLoading
  <1> QED BY <1>1, FinishKeeps, ChooseNetworkKeeps, LoadOlderKeeps, ServeKeeps,
             AppendLoadedKeeps, LoadFailsKeeps DEF O!Next

LEMMA SnapshotsAlways == AllSpec => []SnapshotsInv
  <1>1. AllInit => SnapshotsInv
    BY SnapshotsInit DEF AllInit
  <1>2. SnapshotsInv /\ [AllNext]_allVars => SnapshotsInv'
    <2>1. [AllNext]_allVars => [O!Next]_(O!vars)
      BY Zenon DEF AllNext, allVars, partVars, snapshotVars, O!vars
    <2> QED BY <2>1, SnapshotsNext
  <1> QED BY <1>1, <1>2, PTL DEF AllSpec

LEMMA HistoryStaysWhole == AllSpec => []O!HistoryHasNoHoles
  <1>1. SnapshotsInv => O!HistoryHasNoHoles
    BY NewestSnapshots DEF SnapshotsInv, ShowsNewest, O!HistoryHasNoHoles
  <1> QED BY <1>1, SnapshotsAlways, PTL

-----------------------------------------------------------------------------
(* The selection of components.  The base is that of the preset; what is    *)
(* on top of the full preset is never the senders, whose transactions the   *)
(* preset keeps only in part.                                               *)

IsOfPreset(preset, checked) ==
    preset = "full" => L!PRESETS.full \subseteq checked /\ "tx_send" \notin checked

Coherent(checked) ==
    /\ L!Required \subseteq checked /\ checked \subseteq L!Components
    /\ "tx_send" \in checked => "txs" \in checked
    /\ "acc_cs" \in checked <=> "sto_cs" \in checked

SelectionInv ==
    /\ block \in Heights
    /\ activePreset \in {"minimal", "full", "archive"}
    /\ presetBaseComponents = L!PRESETS[activePreset]
    /\ Coherent(checkedComponents)
    /\ IsOfPreset(activePreset, checkedComponents)

LEMMA PresetsAre ==
    /\ DOMAIN L!PRESETS = {"minimal", "full", "archive"}
    /\ L!PRESETS["minimal"] = L!Required /\ L!PRESETS.minimal = L!Required
    /\ L!PRESETS["full"] = L!Required \cup L!Dated /\ L!PRESETS.full = L!Required \cup L!Dated
    /\ L!PRESETS["archive"] = L!Components /\ L!PRESETS.archive = L!Components
  BY DEF L!PRESETS

LEMMA ComponentsAre ==
    /\ L!Required = {"state", "headers"} /\ L!Group = {"acc_cs", "sto_cs"}
    /\ L!Dated = {"txs", "receipts", "acc_cs", "sto_cs"}
    /\ L!Components = {"state", "headers", "txs", "receipts", "acc_cs", "sto_cs",
                       "tx_send", "indices"}
  BY DEF L!Required, L!Group, L!Dated, L!Components

LEMMA SizesAre ==
    /\ \A c : L!PresetSize("archive", c) = L!AllFiles
    /\ \A p : \A c \in L!Required : L!PresetSize(p, c) = L!AllFiles
    /\ L!PresetSize("full", "tx_send") = 0
    /\ L!PresetSize("full", "txs") = L!FilesFor(block - PARIS_BLOCK + 1)
  <1>1. \A c : L!PresetSize("archive", c) = L!AllFiles
    BY DEF L!PresetSize
  <1>2. \A p : \A c \in L!Required : L!PresetSize(p, c) = L!AllFiles
    BY DEF L!PresetSize, L!Required
  <1>3. L!PresetSize("full", "tx_send") = 0
    BY DEF L!PresetSize, L!Required
  <1>4. L!PresetSize("full", "txs") = L!FilesFor(block - PARIS_BLOCK + 1)
    BY DEF L!PresetSize, L!Required
  <1> QED BY <1>1, <1>2, <1>3, <1>4

\* The full preset lacks transactions of before the merge: at least a file of them.
LEMMA FullLacksTransactions ==
    ASSUME block \in Heights PROVE L!FilesFor(block - PARIS_BLOCK + 1) < L!AllFiles
  <1> DEFINE q == block \div FileBlocks
             over == (block - PARIS_BLOCK + 1) + FileBlocks - 1
             needed == over \div FileBlocks
  <1>1. /\ block \in Nat /\ FileBlocks \in Nat /\ FileBlocks > 0
        /\ PARIS_BLOCK \in Nat /\ FileBlocks <= PARIS_BLOCK
    BY SelectionAssumption
  <1>2. q \in Nat /\ block < (q + 1) * FileBlocks
    <2>1. q \in Nat /\ block = q * FileBlocks + (block % FileBlocks)
          /\ block % FileBlocks < FileBlocks
      BY <1>1
    <2>2. (q + 1) * FileBlocks = q * FileBlocks + FileBlocks
      BY <1>1, <2>1
    <2>3. q * FileBlocks \in Nat /\ block % FileBlocks \in Nat
      BY <1>1, <2>1
    <2> HIDE DEF q
    <2> QED BY <1>1, <2>1, <2>2, <2>3
  <1>3. over \in Int /\ over <= block
    BY <1>1
  <1> HIDE DEF over
  <1>4. needed \in Int /\ needed * FileBlocks <= over
    BY <1>1, <1>3
  <1> HIDE DEF needed, q
  <1>5. needed < q + 1
    <2> SUFFICES ASSUME q + 1 <= needed PROVE FALSE
      BY <1>2, <1>4
    <2>1. needed \in Nat /\ q + 1 \in Nat
      BY <1>2, <1>4
    <2>2. (q + 1) * FileBlocks <= needed * FileBlocks
          /\ (q + 1) * FileBlocks \in Nat /\ needed * FileBlocks \in Nat
      BY <1>1, <2>1, TimesKeepsOrder
    <2> QED BY <1>1, <1>2, <1>3, <1>4, <2>2
  <1>6. L!AllFiles = q + 1
    BY DEF L!AllFiles, q
  <1>7. L!FilesFor(block - PARIS_BLOCK + 1)
          = IF needed >= L!AllFiles THEN L!AllFiles ELSE IF needed > 0 THEN needed ELSE 0
    BY DEF L!FilesFor, needed, over
  <1> QED BY <1>2, <1>4, <1>5, <1>6, <1>7

\* So the senders of the full preset cannot be selected.
LEMMA NoSendersOfFull ==
    ASSUME block \in Heights, NEW checked
    PROVE  ~L!isSendersAvailable("full", L!PRESETS["full"], checked)
  <1>1. "txs" \in L!PRESETS["full"]
    BY PresetsAre, ComponentsAre
  <1>2. L!SizeIn("full", L!PRESETS["full"], checked, "txs")
          = L!FilesFor(block - PARIS_BLOCK + 1)
    BY <1>1, SizesAre DEF L!SizeIn
  <1>3. L!FilesFor(block - PARIS_BLOCK + 1) < L!AllFiles
    BY FullLacksTransactions
  <1>4. L!AllFiles \in Int /\ L!FilesFor(block - PARIS_BLOCK + 1) \in Int
    <2>1. /\ block \in Int /\ FileBlocks \in Nat \ {0} /\ PARIS_BLOCK \in Int
      BY SelectionAssumption
    <2>2. L!AllFiles \in Int
      BY <2>1 DEF L!AllFiles
    <2>3. ((block - PARIS_BLOCK + 1) + FileBlocks - 1) \div FileBlocks \in Int
      BY <2>1
    <2> QED BY <2>2, <2>3 DEF L!FilesFor
  <1> QED BY <1>2, <1>3, <1>4 DEF L!isSendersAvailable

\* What is available of a coherent selection is coherent.
LEMMA AvailableIsCoherent ==
    ASSUME NEW preset, NEW base, NEW checked,
           L!Required \subseteq checked, checked \subseteq L!Components,
           "acc_cs" \in checked <=> "sto_cs" \in checked
    PROVE  /\ Coherent(L!Available(checked, preset, base))
           /\ checked \ {"tx_send", "indices"} \subseteq L!Available(checked, preset, base)
           /\ L!Available(checked, preset, base) \subseteq checked
           /\ "tx_send" \in L!Available(checked, preset, base)
                => L!isSendersAvailable(preset, base, checked)
  <1> DEFINE kept == IF L!isSendersAvailable(preset, base, checked)
                     THEN checked ELSE checked \ {"tx_send"}
             left == IF L!isIndicesAvailable(kept) THEN kept ELSE kept \ {"indices"}
  <1>1. L!Available(checked, preset, base) = left
    BY DEF L!Available
  <1>2. /\ kept \subseteq checked /\ checked \ {"tx_send"} \subseteq kept
        /\ "tx_send" \in kept => L!isSendersAvailable(preset, base, checked)
    OBVIOUS
  <1>3. "tx_send" \in kept => "txs" \in checked
    BY <1>2 DEF L!isSendersAvailable
  <1> HIDE DEF kept
  <1>4. left \subseteq kept /\ kept \ {"indices"} \subseteq left
    OBVIOUS
  <1> HIDE DEF left
  <1> QED BY <1>1, <1>2, <1>3, <1>4, ComponentsAre DEF Coherent

LEMMA SelectionInit == L!Init => SelectionInv
  BY PresetsAre, ComponentsAre DEF L!Init, SelectionInv, Coherent, IsOfPreset

LEMMA PresetKeeps ==
    ASSUME SelectionInv, NEW name \in DOMAIN L!PRESETS, L!selectPreset(name)
    PROVE  SelectionInv'
  <1>1. /\ name \in {"minimal", "full", "archive"} /\ activePreset' = name
        /\ checkedComponents' = L!PRESETS[name] \cup L!Required
        /\ presetBaseComponents' = L!PRESETS[name] /\ block' = block
    BY PresetsAre DEF L!selectPreset
  <1>2. Coherent(L!PRESETS[name] \cup L!Required)
        /\ IsOfPreset(name, L!PRESETS[name] \cup L!Required)
    BY <1>1, PresetsAre, ComponentsAre DEF Coherent, IsOfPreset
  <1> QED BY <1>1, <1>2 DEF SelectionInv

LEMMA ToggleKeeps ==
    ASSUME SelectionInv, NEW c \in L!Components, L!toggleComponent(c) PROVE SelectionInv'
  <1> DEFINE ids == IF c \in L!Group THEN L!Group ELSE {c}
             adding == c \notin checkedComponents
             preset == L!PresetAfter(adding)
             base == L!BaseAfter(adding)
             chosen == IF adding THEN checkedComponents \cup ids ELSE checkedComponents \ ids
             checked == L!Available(chosen, preset, base)
  <1>1. /\ L!Enabled(c)
        /\ checkedComponents' = checked
        /\ activePreset' = IF checked = L!Components THEN "archive" ELSE preset
        /\ presetBaseComponents' = IF checked = L!Components THEN L!Components ELSE base
        /\ block' = block
    BY DEF L!toggleComponent
  <1>2. /\ block \in Heights /\ Coherent(checkedComponents)
        /\ activePreset \in {"minimal", "full", "archive"}
        /\ presetBaseComponents = L!PRESETS[activePreset]
        /\ IsOfPreset(activePreset, checkedComponents)
    BY DEF SelectionInv
  <1>3. preset \in {"minimal", "full", "archive"} /\ base = L!PRESETS[preset]
        /\ (preset = "full" => adding /\ activePreset = "full")
    BY <1>2, PresetsAre DEF L!PresetAfter, L!BaseAfter
  <1>4. c \notin L!Required
    BY <1>1 DEF L!Enabled
  <1>5. /\ L!Required \subseteq chosen /\ chosen \subseteq L!Components
        /\ "acc_cs" \in chosen <=> "sto_cs" \in chosen
    <2>1. ids \cap L!Required = {} /\ ids \subseteq L!Components
          /\ ("acc_cs" \in ids <=> "sto_cs" \in ids)
      BY <1>4, ComponentsAre
    <2> HIDE DEF ids
    <2> QED BY <1>2, <2>1 DEF Coherent
  <1>6. adding => checkedComponents \subseteq chosen
    OBVIOUS
  <1> HIDE DEF ids, chosen, preset, base
  <1>7. /\ Coherent(checked) /\ chosen \ {"tx_send", "indices"} \subseteq checked
        /\ "tx_send" \in checked => L!isSendersAvailable(preset, base, chosen)
    BY <1>5, AvailableIsCoherent
  <1> HIDE DEF checked, adding
  <1>8. IsOfPreset(preset, checked)
    <2> SUFFICES ASSUME preset = "full"
                 PROVE  L!PRESETS.full \subseteq checked /\ "tx_send" \notin checked
      BY DEF IsOfPreset
    <2>1. L!PRESETS.full \subseteq checkedComponents /\ checkedComponents \subseteq chosen
      BY <1>2, <1>3, <1>6 DEF IsOfPreset
    <2>2. L!PRESETS.full \subseteq checked
      BY <1>7, <2>1, PresetsAre, ComponentsAre
    <2>3. "tx_send" \notin checked
      BY <1>2, <1>3, <1>7, NoSendersOfFull
    <2> QED BY <2>2, <2>3
  <1>9. CASE checked = L!Components
    BY <1>1, <1>2, <1>7, <1>9, PresetsAre DEF SelectionInv, IsOfPreset
  <1>10. CASE checked # L!Components
    BY <1>1, <1>2, <1>3, <1>7, <1>8, <1>10 DEF SelectionInv
  <1> QED BY <1>9, <1>10

LEMMA SelectionNext == SelectionInv /\ [L!Next]_(L!vars) => SelectionInv'
  <1>1. SelectionInv /\ UNCHANGED L!vars => SelectionInv'
    BY DEF L!vars, SelectionInv, Coherent, IsOfPreset
  <1> QED BY <1>1, PresetKeeps, ToggleKeeps DEF L!Next

LEMMA SelectionAlways == AllSpec => []SelectionInv
  <1>1. AllInit => SelectionInv
    BY SelectionInit DEF AllInit
  <1>2. SelectionInv /\ [AllNext]_allVars => SelectionInv'
    <2>1. [AllNext]_allVars => [L!Next]_(L!vars)
      BY Zenon DEF AllNext, allVars, partVars, selectionVars, L!vars
    <2> QED BY <2>1, SelectionNext
  <1> QED BY <1>1, <1>2, PTL DEF AllSpec

LEMMA SelectionFetched == SelectionInv => L!SelectionIsFetched
  <1> SUFFICES ASSUME SelectionInv, ~(activePreset = "full" /\ "indices" \in checkedComponents)
               PROVE  /\ \A c \in L!Components \ {"indices"} :
                           IF c \in checkedComponents THEN L!Fetches(c) = L!Shows(c)
                           ELSE activePreset # "minimal" => L!Fetches(c) = 0
                      /\ "tx_send" \in checkedComponents => L!Fetches("txs") = L!AllFiles
    BY DEF L!SelectionIsFetched
  <1>0. /\ activePreset \in {"minimal", "full", "archive"}
        /\ presetBaseComponents = L!PRESETS[activePreset]
        /\ Coherent(checkedComponents)
        /\ IsOfPreset(activePreset, checkedComponents)
    BY DEF SelectionInv
  <1>1. CASE checkedComponents = L!PRESETS[activePreset]
    <2>1. \A c : L!Fetches(c) = L!PresetSize(activePreset, c)
      <3>1. ~(activePreset = "archive" /\ checkedComponents = L!Components \ {"indices"})
        BY <1>1, PresetsAre, ComponentsAre
      <3> QED BY <1>1, <3>1 DEF L!Fetches
    <2>2. \A c \in checkedComponents : L!Shows(c) = L!PresetSize(activePreset, c)
      BY <1>0, <1>1 DEF L!Shows, L!SizeIn
    <2>3. ASSUME NEW c \in L!Components \ {"indices"}, c \notin checkedComponents,
                 activePreset # "minimal"
          PROVE  L!Fetches(c) = 0
      <3>1. activePreset = "full"
        BY <1>0, <1>1, <2>3, PresetsAre
      <3>2. c = "tx_send"
        BY <1>1, <2>3, <3>1, PresetsAre, ComponentsAre
      <3> QED BY <2>1, <3>1, <3>2, SizesAre
    <2>4. ASSUME "tx_send" \in checkedComponents PROVE L!Fetches("txs") = L!AllFiles
      <3>1. activePreset = "archive"
        BY <1>0, <1>1, <2>4, PresetsAre, ComponentsAre
      <3> QED BY <2>1, <3>1, SizesAre
    <2> QED BY <2>1, <2>2, <2>3, <2>4
  <1>2. CASE /\ checkedComponents # L!PRESETS[activePreset]
             /\ activePreset = "archive" /\ checkedComponents = L!Components \ {"indices"}
    <2>1. \A c : c # "indices" => L!Fetches(c) = L!AllFiles
      BY <1>2 DEF L!Fetches
    <2>2. \A c : L!Shows(c) = L!AllFiles
      BY <1>2, SizesAre DEF L!Shows, L!SizeIn
    <2> QED BY <1>2, <2>1, <2>2
  <1>3. CASE /\ checkedComponents # L!PRESETS[activePreset]
             /\ ~(activePreset = "archive" /\ checkedComponents = L!Components \ {"indices"})
    <2>1. \A c : L!Fetches(c) =
             IF \/ c \in L!Required \union (checkedComponents \ {"indices"})
                \/ c \in L!Group /\ L!Group \intersect checkedComponents # {}
             THEN L!AllFiles ELSE 0
      BY <1>3 DEF L!Fetches
    <2>2. activePreset # "full"
      <3> SUFFICES ASSUME activePreset = "full" PROVE FALSE
        OBVIOUS
      <3>1. L!PRESETS["full"] \subseteq checkedComponents /\ "tx_send" \notin checkedComponents
            /\ "indices" \notin checkedComponents /\ checkedComponents \subseteq L!Components
        BY <1>0, PresetsAre DEF IsOfPreset, Coherent
      <3>2. checkedComponents = L!PRESETS["full"]
        BY <3>1, PresetsAre, ComponentsAre
      <3> QED BY <1>3, <3>2
    <2>3. \A c \in checkedComponents : L!Shows(c) = L!AllFiles
      <3>1. CASE activePreset = "archive"
        BY <3>1, SizesAre DEF L!Shows, L!SizeIn
      <3>2. CASE activePreset = "minimal"
        BY <1>0, <3>2, SizesAre, PresetsAre DEF L!Shows, L!SizeIn
      <3> QED BY <1>0, <2>2, <3>1, <3>2
    <2>4. \A c \in checkedComponents : c # "indices" => L!Fetches(c) = L!AllFiles
      BY <2>1
    <2>5. \A c : c \notin checkedComponents /\ c # "indices" => L!Fetches(c) = 0
      BY <1>0, <2>1, ComponentsAre DEF Coherent
    <2>6. "tx_send" \in checkedComponents => "txs" \in checkedComponents
      BY <1>0 DEF Coherent
    <2> QED BY <2>3, <2>4, <2>5, <2>6
  <1> QED BY <1>1, <1>2, <1>3

\* The pages of the snapshot viewers.  Whatever the visitor clicks while snapshots
\* finish and requests fail, for pages of any size: the history has no holes, and
\* the command fetches the selected components, as many blocks of each as the
\* page has shown the size of.
THEOREM SnapshotsStayShown == AllSpec => []SnapshotsAreShown
  <1>1. SelectionInv /\ O!HistoryHasNoHoles => SnapshotsAreShown
    BY SelectionFetched DEF SnapshotsAreShown
  <1> QED BY <1>1, SelectionAlways, HistoryStaysWhole, PTL

-----------------------------------------------------------------------------
(* The cache of totals.  Each entry holds the newest promise of its key, and *)
(* a newest promise that is no longer held has failed or was dropped.        *)

Entries == [key : Keys, promise : H!Counts, age : 0..HISTORY_TOTAL_CACHE_TTL]

CacheTyped ==
    /\ cached \in SUBSET Entries /\ IsFiniteSet(cached)
    /\ Cardinality(cached) <= HISTORY_TOTAL_CACHE_MAX_ENTRIES

TotalsInv ==
    /\ CacheTyped
    /\ asked \in 0..MaxCounts
    /\ keyOf \in [H!Counts -> Keys]
    /\ outcome \in [H!Counts -> {"none", "pending", "resolved", "undefined"}]
    /\ dropped \subseteq H!Counts
    /\ \A e \in cached : e.promise \in 1..asked
    /\ H!CacheHoldsNewest

LEMMA TotalsInit == H!Init => TotalsInv
  <1> SUFFICES ASSUME H!Init PROVE TotalsInv
    OBVIOUS
  <1>1. (CHOOSE k \in Keys : TRUE) \in Keys
    BY HistoryAssumption
  <1>2. IsFiniteSet({}) /\ Cardinality({}) = 0
    BY FS_EmptySet
  <1>3. CacheTyped
    BY <1>2, HistoryAssumption DEF H!Init, CacheTyped
  <1>4. H!CacheHoldsNewest
    BY DEF H!Init, H!CacheHoldsNewest
  <1> QED BY <1>1, <1>3, <1>4, HistoryAssumption DEF H!Init, TotalsInv

\* Entries that leave the cache leave it within its size.
LEMMA FewerAreCached ==
    ASSUME CacheTyped, NEW entries \in SUBSET cached
    PROVE  /\ entries \in SUBSET Entries /\ IsFiniteSet(entries)
           /\ Cardinality(entries) <= HISTORY_TOTAL_CACHE_MAX_ENTRIES
  <1>1. IsFiniteSet(entries) /\ Cardinality(entries) <= Cardinality(cached)
    BY FS_Subset DEF CacheTyped
  <1>2. Cardinality(entries) \in Nat /\ Cardinality(cached) \in Nat
    BY <1>1, FS_CardinalityType DEF CacheTyped
  <1> QED BY <1>1, <1>2, HistoryAssumption DEF CacheTyped

\* A full cache has an oldest entry.
LEMMA OldestIsCached ==
    ASSUME NEW entries \in SUBSET Entries, IsFiniteSet(entries), entries # {}
    PROVE  H!Oldest(entries) \in entries
  <1> DEFINE f == [e \in Entries |-> e.promise]
             numbers == {f[e] : e \in entries}
  <1>1. IsFiniteSet(numbers)
    BY ImageIsFew
  <1>2. numbers \subseteq Int /\ numbers # {}
    <2>1. \A e \in Entries : f[e] \in H!Counts
      BY DEF Entries
    <2>2. H!Counts \subseteq Int
      BY HistoryAssumption DEF H!Counts
    <2>3. PICK e \in entries : TRUE
      OBVIOUS
    <2> HIDE DEF f
    <2> QED BY <2>1, <2>2, <2>3
  <1>3. PICK m \in numbers : \A k \in numbers : m <= k
    BY <1>1, <1>2, LeastExists
  <1>4. \E e \in entries : \A d \in entries : e.promise <= d.promise
    BY <1>3
  <1> QED BY <1>4 DEF H!Oldest

LEMMA InsertedFits ==
    ASSUME CacheTyped, NEW entries \in SUBSET cached, NEW entry \in Entries,
           NEW remaining, remaining = (entries \ H!MakesRoom(entries)) \cup {entry}
    PROVE  /\ remaining \in SUBSET Entries /\ IsFiniteSet(remaining)
           /\ Cardinality(remaining) <= HISTORY_TOTAL_CACHE_MAX_ENTRIES
  <1>1. /\ entries \in SUBSET Entries /\ IsFiniteSet(entries)
        /\ Cardinality(entries) <= HISTORY_TOTAL_CACHE_MAX_ENTRIES
    BY FewerAreCached
  <1>2. /\ HISTORY_TOTAL_CACHE_MAX_ENTRIES \in Nat /\ HISTORY_TOTAL_CACHE_MAX_ENTRIES > 0
        /\ Cardinality(entries) \in Nat
    BY <1>1, FS_CardinalityType, HistoryAssumption
  <1>3. H!Cardinality(entries) = Cardinality(entries)
    BY Zenon DEF H!Cardinality, Cardinality, H!IsFiniteSet, IsFiniteSet
  <1>4. ASSUME NEW kept \in SUBSET entries, IsFiniteSet(kept), Cardinality(kept) \in Nat,
               Cardinality(kept) < HISTORY_TOTAL_CACHE_MAX_ENTRIES,
               remaining = kept \cup {entry}
        PROVE  /\ remaining \in SUBSET Entries /\ IsFiniteSet(remaining)
               /\ Cardinality(remaining) <= HISTORY_TOTAL_CACHE_MAX_ENTRIES
    <2>1. IsFiniteSet(kept \cup {entry})
          /\ Cardinality(kept \cup {entry}) <= Cardinality(kept) + 1
      BY <1>4, FS_AddElement
    <2>2. Cardinality(kept \cup {entry}) \in Nat
      BY <2>1, FS_CardinalityType
    <2> QED BY <1>1, <1>2, <1>4, <2>1, <2>2
  <1>5. CASE Cardinality(entries) >= HISTORY_TOTAL_CACHE_MAX_ENTRIES
    <2> DEFINE kept == entries \ {H!Oldest(entries)}
    <2>1. entries # {}
      BY <1>2, <1>5, FS_EmptySet
    <2>2. H!Oldest(entries) \in entries
      BY <1>1, <2>1, OldestIsCached
    <2>3. IsFiniteSet(kept) /\ Cardinality(kept) = Cardinality(entries) - 1
      BY <1>1, <2>2, FS_RemoveElement
    <2>4. remaining = kept \cup {entry}
      BY <1>3, <1>5 DEF H!MakesRoom
    <2>5. Cardinality(kept) \in Nat
      BY <2>3, FS_CardinalityType
    <2>6. kept \in SUBSET entries
      OBVIOUS
    <2>7. Cardinality(kept) < HISTORY_TOTAL_CACHE_MAX_ENTRIES
      BY <1>1, <1>2, <2>3, <2>5
    <2> HIDE DEF kept
    <2> QED BY <1>4, <2>3, <2>4, <2>5, <2>6, <2>7
  <1>6. CASE ~(Cardinality(entries) >= HISTORY_TOTAL_CACHE_MAX_ENTRIES)
    <2>1. remaining = entries \cup {entry}
      BY <1>3, <1>6 DEF H!MakesRoom
    <2> QED BY <1>1, <1>2, <1>4, <1>6, <2>1
  <1> QED BY <1>5, <1>6

LEMMA AfterLookupIsCached ==
    ASSUME NEW key
    PROVE  /\ H!AfterLookup(key) \in SUBSET cached
           /\ H!Fresh(key) = {} => \A e \in H!AfterLookup(key) : e.key # key
  BY DEF H!AfterLookup, H!Without

\* The page that asks: its promise is the newest of its key, and of no other.
LEMMA LatestPageKeeps ==
    ASSUME TotalsInv, NEW key \in Keys, H!LatestPageAsks(key) PROVE TotalsInv'
  <1> DEFINE entry == [key |-> key, promise |-> asked', age |-> 0]
             entries == H!AfterLookup(key)
             leaving == (cached \ entries) \cup H!MakesRoom(entries)
  <1>1. /\ asked' = asked + 1 /\ asked < MaxCounts
        /\ keyOf' = [keyOf EXCEPT ![asked'] = key]
        /\ outcome' = [outcome EXCEPT ![asked'] = "pending"]
        /\ cached' = (cached \ leaving) \cup {entry}
        /\ dropped' = dropped \cup H!PromisesOf(leaving)
        /\ H!Fresh(key) = {}
    BY DEF H!LatestPageAsks
  <1>2. asked' \in H!Counts /\ asked' \in 0..MaxCounts /\ asked \in Nat
    BY <1>1, HistoryAssumption DEF TotalsInv, H!Counts
  <1>3. entry \in Entries /\ entry.key = key /\ entry.promise = asked'
    BY <1>2, HistoryAssumption DEF Entries
  <1>4. entries \in SUBSET cached /\ \A e \in entries : e.key # key
    BY <1>1, AfterLookupIsCached
  <1>5. cached \ leaving = entries \ H!MakesRoom(entries)
    BY <1>4
  <1> HIDE DEF entry, entries
  <1>6. CacheTyped'
    <2>1. cached' = (entries \ H!MakesRoom(entries)) \cup {entry}
      BY <1>1, <1>5
    <2> QED BY <1>3, <1>4, <2>1, InsertedFits DEF TotalsInv, CacheTyped
  <1>7. /\ \A e \in cached : e.promise \in 1..asked /\ e.promise # asked'
        /\ \A q \in 1..asked : q \in H!Counts /\ keyOf'[q] = keyOf[q]
                               /\ outcome'[q] = outcome[q]
        /\ keyOf'[asked'] = key /\ outcome'[asked'] = "pending"
    BY <1>1, <1>2, HistoryAssumption DEF TotalsInv, H!Counts
  <1>8. \A e \in cached' : e = entry \/ (e \in cached /\ e.key # key)
    BY <1>1, <1>4, <1>5
  <1>9. 1..asked' = (1..asked) \cup {asked'}
    BY <1>1, <1>2
  <1>10. /\ H!PromisesOf(leaving) \subseteq H!Counts
         /\ \A e \in cached' : e.promise \in 1..asked'
    <2>1. leaving \subseteq cached
      <3>1. H!MakesRoom(entries) \subseteq entries \/ entries = {}
        <4>1. ASSUME entries # {} PROVE H!Oldest(entries) \in entries
          BY <1>4, <4>1, FewerAreCached, OldestIsCached DEF TotalsInv
        <4> QED BY <4>1 DEF H!MakesRoom
      <3>2. ASSUME entries = {} PROVE H!MakesRoom(entries) = {}
        <4>1. H!Cardinality(entries) = Cardinality(entries)
          BY Zenon DEF H!Cardinality, Cardinality, H!IsFiniteSet, IsFiniteSet
        <4>2. Cardinality(entries) = 0
          BY <3>2, FS_EmptySet
        <4> QED BY <4>1, <4>2, HistoryAssumption DEF H!MakesRoom
      <3> QED BY <1>4, <3>1, <3>2
    <2>2. \A e \in leaving : e.promise \in H!Counts
      BY <1>7, <2>1
    <2> HIDE DEF leaving
    <2>3. H!PromisesOf(leaving) \subseteq H!Counts
      BY <2>2 DEF H!PromisesOf
    <2> QED BY <1>3, <1>7, <1>8, <1>9, <2>3
  <1>11. \A e \in cached' : /\ keyOf'[e.promise] = e.key
                            /\ H!IsNewest(e.promise)'
                            /\ outcome'[e.promise] # "undefined"
    <2> SUFFICES ASSUME NEW e \in cached'
                 PROVE  /\ keyOf'[e.promise] = e.key
                        /\ H!IsNewest(e.promise)'
                        /\ outcome'[e.promise] # "undefined"
      OBVIOUS
    <2>1. CASE e = entry
      <3>1. \A q \in 1..asked' : q <= asked'
        BY <1>2
      <3> QED BY <1>3, <1>7, <2>1, <3>1 DEF H!IsNewest
    <2>2. CASE e \in cached /\ e.key # key
      <3>1. /\ keyOf[e.promise] = e.key /\ H!IsNewest(e.promise)
            /\ outcome[e.promise] # "undefined"
        BY <2>2 DEF TotalsInv, H!CacheHoldsNewest
      <3>2. H!IsNewest(e.promise)'
        BY <1>7, <1>9, <2>2, <3>1 DEF H!IsNewest
      <3> QED BY <1>7, <2>2, <3>1, <3>2
    <2> QED BY <1>8, <2>1, <2>2
  <1>12. ASSUME NEW p \in 1..asked', H!IsNewest(p)', outcome'[p] # "undefined"
         PROVE  p \in H!PromisesOf(cached)' \cup dropped'
    <2>1. CASE p = asked'
      <3>1. entry \in cached'
        BY <1>1
      <3> QED BY <1>3, <2>1, <3>1 DEF H!PromisesOf
    <2>2. CASE p \in 1..asked
      <3>1. H!IsNewest(p) /\ outcome[p] # "undefined"
        BY <1>7, <1>9, <1>12, <2>2 DEF H!IsNewest
      <3>2. p \in H!PromisesOf(cached) \cup dropped
        BY <2>2, <3>1 DEF TotalsInv, H!CacheHoldsNewest
      <3>3. ASSUME NEW e \in cached, e.promise = p
            PROVE  p \in H!PromisesOf(cached)' \cup dropped'
        <4>1. e \in cached' \/ e \in leaving
          BY <1>1
        <4> HIDE DEF leaving
        <4> QED BY <1>1, <3>3, <4>1 DEF H!PromisesOf
      <3> HIDE DEF leaving
      <3> QED BY <1>1, <3>2, <3>3 DEF H!PromisesOf
    <2> QED BY <1>9, <2>1, <2>2
  <1> HIDE DEF leaving
  <1>13. H!CacheHoldsNewest'
    BY <1>11, <1>12 DEF H!CacheHoldsNewest
  <1> QED BY <1>1, <1>2, <1>6, <1>10, <1>13 DEF TotalsInv

\* A count that fails: its entry leaves, if it is still there, and no other.
LEMMA CountFailsKeeps ==
    ASSUME TotalsInv, NEW p \in H!Counts, H!CountFails(p) PROVE TotalsInv'
  <1>1. /\ outcome' = [outcome EXCEPT ![p] = "undefined"]
        /\ cached' \in SUBSET cached /\ UNCHANGED <<asked, keyOf, dropped>>
    BY DEF H!CountFails, H!Without
  <1>2. CacheTyped'
    BY <1>1, FewerAreCached DEF TotalsInv, CacheTyped
  <1>3. \A q : H!IsNewest(q)' <=> H!IsNewest(q)
    BY <1>1 DEF H!IsNewest
  <1>4. \A e \in cached' : e.promise # p
    BY DEF TotalsInv, H!CacheHoldsNewest, H!CountFails, H!Without
  <1>5. \A e \in cached : e.promise # p => e \in cached'
    <2> SUFFICES ASSUME NEW e \in cached, NEW f \in cached,
                        f.promise = p, f.key = keyOf[p], e.key = keyOf[p]
                 PROVE  e.promise = p
      BY DEF H!CountFails, H!Without
    <2>1. /\ keyOf[e.promise] = e.key /\ H!IsNewest(e.promise) /\ H!IsNewest(p)
          /\ e.promise \in 1..asked /\ p \in 1..asked
      BY DEF TotalsInv, H!CacheHoldsNewest
    <2>2. e.promise <= p /\ p <= e.promise
      BY <2>1 DEF H!IsNewest
    <2> QED BY <2>1, <2>2, HistoryAssumption DEF TotalsInv
  <1>6. H!CacheHoldsNewest'
    <2>1. \A e \in cached' : /\ keyOf'[e.promise] = e.key /\ H!IsNewest(e.promise)'
                             /\ outcome'[e.promise] # "undefined"
      BY <1>1, <1>3, <1>4 DEF TotalsInv, H!CacheHoldsNewest
    <2>2. ASSUME NEW q \in 1..asked', H!IsNewest(q)', outcome'[q] # "undefined"
          PROVE  q \in H!PromisesOf(cached)' \cup dropped'
      <3>1. q \in H!Counts /\ q # p /\ outcome[q] # "undefined"
        BY <1>1, <2>2, HistoryAssumption DEF TotalsInv, H!Counts
      <3>2. q \in H!PromisesOf(cached) \cup dropped
        BY <1>1, <1>3, <2>2, <3>1 DEF TotalsInv, H!CacheHoldsNewest
      <3> QED BY <1>1, <1>5, <3>1, <3>2 DEF H!PromisesOf
    <2> QED BY <2>1, <2>2 DEF H!CacheHoldsNewest
  <1> QED BY <1>1, <1>2, <1>6 DEF TotalsInv

LEMMA TotalsTickKeeps == ASSUME TotalsInv, H!Tick PROVE TotalsInv'
  <1> DEFINE f == [e \in Entries |-> [e EXCEPT !.age =
                     IF @ < HISTORY_TOTAL_CACHE_TTL THEN @ + 1 ELSE @]]
  <1>1. \A e \in Entries : /\ f[e] \in Entries
                           /\ f[e].key = e.key /\ f[e].promise = e.promise
    BY HistoryAssumption DEF Entries
  <1>2. cached' = {f[e] : e \in cached}
    BY DEF H!Tick, TotalsInv, CacheTyped
  <1> HIDE DEF f
  <1>3. IsFiniteSet(cached') /\ Cardinality(cached') <= Cardinality(cached)
    BY <1>2, ImageIsFew DEF TotalsInv, CacheTyped
  <1>4. Cardinality(cached') \in Nat /\ Cardinality(cached) \in Nat
    BY <1>3, FS_CardinalityType DEF TotalsInv, CacheTyped
  <1>5. /\ cached' \in SUBSET Entries
        /\ \A e \in cached' : \E d \in cached : e.key = d.key /\ e.promise = d.promise
        /\ \A d \in cached : \E e \in cached' : e.promise = d.promise
    BY <1>1, <1>2 DEF TotalsInv, CacheTyped
  <1>6. CacheTyped'
    BY <1>3, <1>4, <1>5, HistoryAssumption DEF TotalsInv, CacheTyped
  <1>7. UNCHANGED <<asked, keyOf, outcome, dropped>> /\ H!PromisesOf(cached') = H!PromisesOf(cached)
    <2>1. UNCHANGED <<asked, keyOf, outcome, dropped>>
      BY DEF H!Tick
    <2>2. \A q : q \in H!PromisesOf(cached') <=> q \in H!PromisesOf(cached)
      BY <1>5 DEF H!PromisesOf
    <2> QED BY <2>1, <2>2 DEF H!PromisesOf
  <1>8. H!CacheHoldsNewest'
    BY <1>5, <1>7 DEF TotalsInv, H!CacheHoldsNewest, H!IsNewest, H!PromisesOf
  <1>9. \A e \in cached' : e.promise \in 1..asked'
    BY <1>5, <1>7 DEF TotalsInv
  <1> QED BY <1>6, <1>7, <1>8, <1>9 DEF TotalsInv

\* A page that goes without a total: what it throws out is expired.
LEMMA PageWithoutTotalKeeps ==
    ASSUME TotalsInv, NEW key \in Keys, H!PageWithoutTotal(key) PROVE TotalsInv'
  <1>1. /\ cached' \in SUBSET cached /\ UNCHANGED <<asked, keyOf, outcome>>
        /\ dropped' = dropped \cup H!PromisesOf(cached \ cached')
    BY AfterLookupIsCached DEF H!PageWithoutTotal
  <1>2. CacheTyped'
    BY <1>1, FewerAreCached DEF TotalsInv, CacheTyped
  <1>3. \A e \in cached : e.promise \in H!PromisesOf(cached)' \cup dropped'
    BY <1>1 DEF H!PromisesOf
  <1>4. dropped' \subseteq H!Counts /\ \A e \in cached' : e.promise \in 1..asked'
    <2>1. \A e \in cached : e.promise \in 1..asked /\ e.promise \in H!Counts
      BY HistoryAssumption DEF TotalsInv, H!Counts
    <2>2. H!PromisesOf(cached \ cached') \subseteq H!Counts
      BY <2>1 DEF H!PromisesOf
    <2> QED BY <1>1, <2>1, <2>2 DEF TotalsInv
  <1>5. H!CacheHoldsNewest'
    <2>1. \A q : H!IsNewest(q)' <=> H!IsNewest(q)
      BY <1>1 DEF H!IsNewest
    <2> QED BY <1>1, <1>3, <2>1 DEF TotalsInv, H!CacheHoldsNewest, H!PromisesOf
  <1> QED BY <1>1, <1>2, <1>4, <1>5 DEF TotalsInv

LEMMA TotalsNext == TotalsInv /\ [H!Next]_(H!vars) => TotalsInv'
  <1> SUFFICES ASSUME TotalsInv, [H!Next]_(H!vars) PROVE TotalsInv'
    OBVIOUS
  <1>1. CASE UNCHANGED H!vars
    BY <1>1 DEF H!vars, TotalsInv, CacheTyped, H!CacheHoldsNewest, H!IsNewest, H!PromisesOf
  <1>2. ASSUME NEW p \in H!Counts, H!CountResolves(p) PROVE TotalsInv'
    <2>1. /\ UNCHANGED <<cached, asked, keyOf, dropped>>
          /\ outcome[p] = "pending"
          /\ outcome' = [outcome EXCEPT ![p] = "resolved"]
      BY <1>2 DEF H!CountResolves
    <2>2. /\ outcome' \in [H!Counts -> {"none", "pending", "resolved", "undefined"}]
          /\ \A q \in H!Counts : outcome'[q] = "undefined" <=> outcome[q] = "undefined"
      BY <2>1 DEF TotalsInv
    <2>3. \A q \in 1..asked : q \in H!Counts
      BY HistoryAssumption DEF TotalsInv, H!Counts
    <2>4. H!CacheHoldsNewest'
      BY <2>1, <2>2, <2>3 DEF TotalsInv, H!CacheHoldsNewest, H!IsNewest, H!PromisesOf
    <2> QED BY <2>1, <2>2, <2>4 DEF TotalsInv, CacheTyped
  <1> QED BY <1>1, <1>2, LatestPageKeeps, PageWithoutTotalKeeps, CountFailsKeeps,
             TotalsTickKeeps DEF H!Next

LEMMA TotalsAlways == AllSpec => []TotalsInv
  <1>1. AllInit => TotalsInv
    BY TotalsInit DEF AllInit
  <1>2. TotalsInv /\ [AllNext]_allVars => TotalsInv'
    <2>1. [AllNext]_allVars => [H!Next]_(H!vars)
      BY Zenon DEF AllNext, allVars, partVars, totalVars, H!vars
    <2> QED BY <2>1, TotalsNext
  <1> QED BY <1>1, <1>2, PTL DEF AllSpec

\* The cache of totals of whatever size and time to live: each entry holds the
\* newest promise of its key and no failed one, and a newest promise that has not
\* failed is held until it expires or makes room, so that no late failure takes it
\* away (cacheHistoryTotal).
THEOREM CachedTotalIsNewest == AllSpec => []CacheHoldsNewest
  <1>1. TotalsInv => CacheHoldsNewest
    BY DEF TotalsInv, CacheHoldsNewest
  <1> QED BY <1>1, TotalsAlways, PTL

-----------------------------------------------------------------------------
(* The logs of a policy.  A walk has got every log of its type that begins   *)
(* in the rows before its offset, except the logs written since it began:    *)
(* rows that arrive only push a log further back.  What it has got has no    *)
(* gap on the side it began from.                                            *)

PolicyLogsTyped(l) ==
    l \in Seq([type : P!EventTypes, rows : 1..MaxCopies])

OfType(l, type) == {i \in DOMAIN l : l[i].type = type}
RowsOf(l) == [i \in DOMAIN l |-> l[i].rows]
RowsIn(l, ids) == SumOf(RowsOf(l), ids)

\* fetchAllPolicyLogPages: ascending
ReadUpTo(l, n) == {i \in 1..n : i \in OfType(l, "member")}
AllWalk(l, w, first) ==
    LET ids == OfType(l, "member")
    IN  /\ w.offset \in Nat /\ w.offset <= RowsIn(l, ids)
        /\ w.got \subseteq ids
        /\ \A i \in w.got, j \in ids : j < i => j \in w.got
        /\ \A i \in ids : RowsIn(l, P!Older(i, ids)) < w.offset => i \in w.got
        /\ w.ended => \E n \in first..Len(l) : w.got = ReadUpTo(l, n)

\* fetchRecentUniquePolicyLogs: descending, of the logs that were there first
RecentWalk(l, type, w, first) ==
    LET ids == OfType(l, type)
    IN  /\ w.offset \in Nat /\ w.offset <= RowsIn(l, ids)
        /\ w.got \subseteq ids
        /\ ~w.ended =>
              /\ \A i \in w.got, j \in ids : i < j /\ j <= first => j \in w.got
              /\ \A i \in ids : i <= first /\ RowsIn(l, P!Newer(i, ids)) < w.offset
                                  => i \in w.got
        /\ w.ended =>
              \A i \in ids : i <= first =>
                 \/ i \in w.got
                 \/ /\ Cardinality(w.got) = RECENT_ACTIVITY_LIMIT + 1
                    /\ \A j \in w.got : i < j

PolicyInv ==
    /\ PolicyLogsTyped(logs) /\ Len(logs) <= MaxLogs
    /\ start \in 0..Len(logs)
    /\ phase \in {"idle", "reading", "done"}
    /\ all \in P!Walk /\ recent \in [P!EventTypes -> P!Walk]
    /\ AllWalk(logs, all, start)
    /\ \A t \in P!EventTypes : RecentWalk(logs, t, recent[t], start)
    /\ phase = "done" => all.ended /\ \A t \in P!EventTypes : recent[t].ended

LEMMA LogsAreNumbers ==
    ASSUME NEW l, PolicyLogsTyped(l), NEW ids \in SUBSET DOMAIN l
    PROVE  /\ IsFiniteSet(ids) /\ ids \subseteq Int
           /\ \A i \in ids : RowsOf(l)[i] \in Nat \ {0} /\ i \in 1..Len(l)
           /\ RowsIn(l, ids) \in Nat
  <1>1. DOMAIN l = 1..Len(l) /\ Len(l) \in Nat
    BY DEF PolicyLogsTyped
  <1>2. IsFiniteSet(ids)
    <2>1. IsFiniteSet(1..Len(l)) /\ ids \in SUBSET (1..Len(l))
      BY <1>1, FS_Interval
    <2> QED BY <2>1, FS_Subset
  <1>3. ASSUME NEW i \in ids PROVE RowsOf(l)[i] \in Nat \ {0}
    <2>1. l[i] \in [type : P!EventTypes, rows : 1..MaxCopies]
      <3>1. i \in 1..Len(l)
        BY <1>1
      <3>2. \A set : l \in Seq(set) => l[i] \in set
        BY <3>1
      <3> QED BY <3>2 DEF PolicyLogsTyped
    <2> QED BY <2>1, PolicyAssumption DEF RowsOf
  <1>4. RowsIn(l, ids) \in Nat
    BY <1>2, <1>3, SumOfNaturals DEF RowsIn
  <1> QED BY <1>1, <1>2, <1>3, <1>4

LEMMA MoreLogsMoreRows ==
    ASSUME NEW l, PolicyLogsTyped(l), NEW ids \in SUBSET DOMAIN l, NEW few \in SUBSET ids
    PROVE  RowsIn(l, few) <= RowsIn(l, ids)
  BY LogsAreNumbers, SumOfSubset DEF RowsIn

\* The rows of a log follow those of the logs before it.
LEMMA RowsFollow ==
    ASSUME NEW l, PolicyLogsTyped(l), NEW ids \in SUBSET DOMAIN l,
           NEW i \in ids, NEW before \in SUBSET (ids \ {i})
    PROVE  RowsIn(l, before) + RowsOf(l)[i] <= RowsIn(l, ids)
  <1>1. RowsIn(l, ids) = RowsOf(l)[i] + RowsIn(l, ids \ {i})
    BY LogsAreNumbers, SumOfMore DEF RowsIn
  <1>2. RowsIn(l, before) <= RowsIn(l, ids \ {i})
    <2>1. ids \ {i} \in SUBSET DOMAIN l
      OBVIOUS
    <2> QED BY <2>1, MoreLogsMoreRows
  <1>3. /\ RowsOf(l)[i] \in Nat /\ RowsIn(l, before) \in Nat
        /\ RowsIn(l, ids \ {i}) \in Nat /\ RowsIn(l, ids) \in Nat
    <2>1. before \in SUBSET DOMAIN l /\ ids \ {i} \in SUBSET DOMAIN l
      OBVIOUS
    <2> QED BY <2>1, LogsAreNumbers
  <1> QED BY <1>1, <1>2, <1>3

\* A page, whichever way the logs are ordered: before[i] are the logs before i.
PageOf(l, ids, before, count, offset) ==
    {i \in ids : /\ RowsIn(l, before[i]) < offset + count
                 /\ RowsIn(l, before[i]) + RowsOf(l)[i] > offset}
SizeOf(l, ids, count, offset) ==
    IF count <= RowsIn(l, ids) - offset THEN count ELSE RowsIn(l, ids) - offset

LEMMA PageReads ==
    ASSUME NEW l, PolicyLogsTyped(l), NEW ids \in SUBSET DOMAIN l,
           NEW before, \A i \in ids : before[i] \in SUBSET (ids \ {i}),
           \A i \in ids : \A j \in before[i] : before[j] \subseteq before[i],
           NEW count \in Nat \ {0}, NEW offset \in Nat, offset <= RowsIn(l, ids)
    PROVE  LET page == PageOf(l, ids, before, count, offset)
               n == SizeOf(l, ids, count, offset)
           IN  /\ n \in 0..count /\ offset + n \in Nat /\ offset + n <= RowsIn(l, ids)
               /\ \A i \in ids : RowsIn(l, before[i]) < offset + n =>
                     i \in page \/ RowsIn(l, before[i]) < offset
               /\ \A i \in page : \A j \in before[i] :
                     j \in page \/ RowsIn(l, before[j]) < offset
               /\ n < count => \A i \in ids : RowsIn(l, before[i]) < offset + n
  <1> DEFINE page == PageOf(l, ids, before, count, offset)
             n == SizeOf(l, ids, count, offset)
  <1>1. RowsIn(l, ids) \in Nat
    BY LogsAreNumbers
  <1>2. n \in 0..count /\ offset + n \in Nat /\ offset + n <= RowsIn(l, ids)
        /\ (n < count => offset + n = RowsIn(l, ids))
    BY <1>1 DEF SizeOf
  <1>3. ASSUME NEW i \in ids
        PROVE  /\ RowsIn(l, before[i]) \in Nat /\ RowsOf(l)[i] \in Nat \ {0}
               /\ RowsIn(l, before[i]) + RowsOf(l)[i] <= RowsIn(l, ids)
               /\ before[i] \in SUBSET DOMAIN l
    <2>1. before[i] \in SUBSET (ids \ {i}) /\ before[i] \in SUBSET DOMAIN l
      OBVIOUS
    <2> QED BY <2>1, LogsAreNumbers, RowsFollow
  <1>4. \A i \in ids : RowsIn(l, before[i]) < offset + count =>
           i \in page \/ RowsIn(l, before[i]) < offset
    <2> SUFFICES ASSUME NEW i \in ids, RowsIn(l, before[i]) < offset + count,
                        ~(RowsIn(l, before[i]) < offset)
                 PROVE  i \in page
      OBVIOUS
    <2>1. RowsIn(l, before[i]) \in Nat /\ RowsOf(l)[i] \in Nat \ {0}
      BY <1>3
    <2>2. RowsIn(l, before[i]) + RowsOf(l)[i] > offset
      BY <2>1
    <2> QED BY <2>2 DEF PageOf
  <1> HIDE DEF n, page
  <1>5. \A i \in ids : RowsIn(l, before[i]) < offset + n =>
           i \in page \/ RowsIn(l, before[i]) < offset
    <2> SUFFICES ASSUME NEW i \in ids, RowsIn(l, before[i]) < offset + n
                 PROVE  RowsIn(l, before[i]) < offset + count
      BY <1>4
    <2> QED BY <1>2, <1>3
  <1>6. ASSUME NEW i \in page, NEW j \in before[i]
        PROVE  j \in page \/ RowsIn(l, before[j]) < offset
    <2>1. i \in ids /\ RowsIn(l, before[i]) < offset + count
      BY DEF page, PageOf
    <2>2. j \in ids /\ before[j] \in SUBSET before[i]
      BY <2>1
    <2>3. RowsIn(l, before[j]) <= RowsIn(l, before[i])
      BY <1>3, <2>1, <2>2, MoreLogsMoreRows
    <2>4. RowsIn(l, before[j]) < offset + count
      BY <1>3, <2>1, <2>2, <2>3
    <2> QED BY <1>4, <2>2, <2>4
  <1>7. ASSUME n < count, NEW i \in ids PROVE RowsIn(l, before[i]) < offset + n
    BY <1>1, <1>2, <1>3, <1>7
  <1> QED BY <1>2, <1>5, <1>6, <1>7 DEF n, page

Ascending(ids) == [i \in ids |-> P!Older(i, ids)]
Descending(ids) == [i \in ids |-> P!Newer(i, ids)]

LEMMA OrdersAreOrders ==
    ASSUME NEW ids, ids \subseteq Int,
           NEW before, before \in {Ascending(ids), Descending(ids)}
    PROVE  /\ \A i \in ids : before[i] \in SUBSET (ids \ {i})
           /\ \A i \in ids : \A j \in before[i] : before[j] \subseteq before[i]
  <1>1. CASE before = Ascending(ids)
    <2>1. \A i \in ids : before[i] = {j \in ids : j < i}
      BY <1>1 DEF Ascending, P!Older
    <2>2. ASSUME NEW i \in ids, NEW j \in before[i], NEW k \in before[j] PROVE k \in before[i]
      <3>1. j \in ids /\ k \in ids /\ j < i /\ k < j
        BY <2>1
      <3>2. i \in Int /\ j \in Int /\ k \in Int
        BY <3>1
      <3> QED BY <2>1, <3>1, <3>2
    <2> QED BY <2>1, <2>2
  <1>2. CASE before = Descending(ids)
    <2>1. \A i \in ids : before[i] = {j \in ids : j > i}
      BY <1>2 DEF Descending, P!Newer
    <2>2. ASSUME NEW i \in ids, NEW j \in before[i], NEW k \in before[j] PROVE k \in before[i]
      <3>1. j \in ids /\ k \in ids /\ j > i /\ k > j
        BY <2>1
      <3>2. i \in Int /\ j \in Int /\ k \in Int
        BY <3>1
      <3> QED BY <2>1, <3>1, <3>2
    <2> QED BY <2>1, <2>2
  <1> QED BY <1>1, <1>2

\* One round of the ascending walk
LEMMA AllWalkReads ==
    ASSUME NEW l, PolicyLogsTyped(l), NEW first \in 0..Len(l), NEW w,
           AllWalk(l, w, first), NEW count \in Nat \ {0}
    PROVE  LET ids == OfType(l, "member")
               n == SizeOf(l, ids, count, w.offset)
               page == PageOf(l, ids, Ascending(ids), count, w.offset)
           IN  AllWalk(l, [offset |-> w.offset + n, got |-> w.got \cup page,
                           ended |-> n < count], first)
  <1> DEFINE ids == OfType(l, "member")
             before == Ascending(ids)
             n == SizeOf(l, ids, count, w.offset)
             page == PageOf(l, ids, before, count, w.offset)
             v == [offset |-> w.offset + n, got |-> w.got \cup page, ended |-> n < count]
  <1>1. /\ w.offset \in Nat /\ w.offset <= RowsIn(l, ids)
        /\ w.got \subseteq ids
        /\ \A i \in w.got, j \in ids : j < i => j \in w.got
        /\ \A i \in ids : RowsIn(l, P!Older(i, ids)) < w.offset => i \in w.got
    BY DEF AllWalk
  <1>2. ids \in SUBSET DOMAIN l /\ ids \subseteq Int
    BY LogsAreNumbers DEF OfType
  <1>3. \A i \in ids : before[i] = P!Older(i, ids)
    BY DEF Ascending
  <1>3a. before \in {Ascending(ids), Descending(ids)}
    OBVIOUS
  <1>4. /\ \A i \in ids : before[i] \in SUBSET (ids \ {i})
        /\ \A i \in ids : \A j \in before[i] : before[j] \subseteq before[i]
    <2> HIDE DEF before
    <2> QED BY <1>2, <1>3a, OrdersAreOrders
  <1> HIDE DEF ids, before
  <1>5. /\ n \in 0..count /\ w.offset + n \in Nat /\ w.offset + n <= RowsIn(l, ids)
        /\ \A i \in ids : RowsIn(l, before[i]) < w.offset + n =>
              i \in page \/ RowsIn(l, before[i]) < w.offset
        /\ \A i \in page : \A j \in before[i] :
              j \in page \/ RowsIn(l, before[j]) < w.offset
        /\ n < count => \A i \in ids : RowsIn(l, before[i]) < w.offset + n
    BY <1>1, <1>2, <1>4, PageReads
  <1>6. page \subseteq ids
    BY DEF PageOf
  <1> HIDE DEF n, page
  <1>7. \A i \in ids : RowsIn(l, P!Older(i, ids)) < w.offset + n => i \in w.got \cup page
    BY <1>1, <1>3, <1>5
  <1>8. ASSUME NEW i \in w.got \cup page, NEW j \in ids, j < i PROVE j \in w.got \cup page
    <2>1. CASE i \in w.got
      BY <1>1, <1>8, <2>1
    <2>2. CASE i \in page
      <3>1. i \in ids /\ j \in before[i]
        BY <1>3, <1>6, <1>8, <2>2 DEF P!Older
      <3>2. j \in page \/ RowsIn(l, before[j]) < w.offset
        BY <1>5, <2>2, <3>1
      <3> QED BY <1>1, <1>3, <3>2
    <2> QED BY <1>8, <2>1, <2>2
  <1>9. ASSUME n < count PROVE \E m \in first..Len(l) : w.got \cup page = ReadUpTo(l, m)
    <2>1. ids \subseteq w.got \cup page
      BY <1>3, <1>5, <1>7, <1>9
    <2>2. ids = ReadUpTo(l, Len(l))
      <3>1. DOMAIN l = 1..Len(l)
        BY DEF PolicyLogsTyped
      <3> QED BY <1>2, <3>1 DEF ReadUpTo, ids
    <2>3. w.got \cup page = ReadUpTo(l, Len(l))
      BY <1>1, <1>6, <2>1, <2>2
    <2>4. Len(l) \in first..Len(l)
      BY DEF PolicyLogsTyped
    <2> QED BY <2>3, <2>4
  <1>10. AllWalk(l, v, first)
    <2>1. v.offset = w.offset + n /\ v.got = w.got \cup page /\ v.ended = (n < count)
      OBVIOUS
    <2> HIDE DEF v
    <2>2. v.offset \in Nat /\ v.offset <= RowsIn(l, ids) /\ v.got \subseteq ids
      BY <1>1, <1>5, <1>6, <2>1
    <2>3. \A i \in v.got, j \in ids : j < i => j \in v.got
      BY <1>8, <2>1
    <2>4. \A i \in ids : RowsIn(l, P!Older(i, ids)) < v.offset => i \in v.got
      BY <1>7, <2>1
    <2>5. v.ended => \E m \in first..Len(l) : v.got = ReadUpTo(l, m)
      BY <1>9, <2>1
    <2> QED BY Zenon, <2>2, <2>3, <2>4, <2>5 DEF AllWalk, ids
  <1> QED BY <1>10 DEF v, n, page, ids, before

\* One round of the descending walk
LEMMA RecentWalkReads ==
    ASSUME NEW l, PolicyLogsTyped(l), NEW type, NEW first \in 0..Len(l), NEW w,
           RecentWalk(l, type, w, first), ~w.ended
    PROVE  LET ids == OfType(l, type)
               most == RECENT_ACTIVITY_LIMIT + 1
               n == SizeOf(l, ids, most + 1, w.offset)
               unique == w.got \cup PageOf(l, ids, Descending(ids), most + 1, w.offset)
               ended == Cardinality(unique) >= most \/ n < most + 1
           IN  RecentWalk(l, type,
                          [offset |-> w.offset + n,
                           got |-> IF ended THEN Largest(most, unique) ELSE unique,
                           ended |-> ended], first)
  <1> DEFINE ids == OfType(l, type)
             before == Descending(ids)
             most == RECENT_ACTIVITY_LIMIT + 1
             count == most + 1
             n == SizeOf(l, ids, count, w.offset)
             page == PageOf(l, ids, before, count, w.offset)
             unique == w.got \cup page
             ended == Cardinality(unique) >= most \/ n < count
             v == [offset |-> w.offset + n,
                   got |-> IF ended THEN Largest(most, unique) ELSE unique,
                   ended |-> ended]
  <1>0. most \in Nat \ {0} /\ count \in Nat \ {0}
    BY PolicyAssumption
  <1>1. /\ w.offset \in Nat /\ w.offset <= RowsIn(l, ids)
        /\ w.got \subseteq ids
        /\ \A i \in w.got, j \in ids : i < j /\ j <= first => j \in w.got
        /\ \A i \in ids : i <= first /\ RowsIn(l, P!Newer(i, ids)) < w.offset => i \in w.got
    BY DEF RecentWalk
  <1>2. ids \in SUBSET DOMAIN l /\ ids \subseteq Int
    BY LogsAreNumbers DEF OfType
  <1>3. \A i \in ids : before[i] = P!Newer(i, ids)
    BY DEF Descending
  <1>3a. before \in {Ascending(ids), Descending(ids)}
    OBVIOUS
  <1>4. /\ \A i \in ids : before[i] \in SUBSET (ids \ {i})
        /\ \A i \in ids : \A j \in before[i] : before[j] \subseteq before[i]
    <2> HIDE DEF before
    <2> QED BY <1>2, <1>3a, OrdersAreOrders
  <1> HIDE DEF ids, before, count
  <1>5. /\ n \in 0..count /\ w.offset + n \in Nat /\ w.offset + n <= RowsIn(l, ids)
        /\ \A i \in ids : RowsIn(l, before[i]) < w.offset + n =>
              i \in page \/ RowsIn(l, before[i]) < w.offset
        /\ \A i \in page : \A j \in before[i] :
              j \in page \/ RowsIn(l, before[j]) < w.offset
        /\ n < count => \A i \in ids : RowsIn(l, before[i]) < w.offset + n
    BY <1>0, <1>1, <1>2, <1>4, PageReads
  <1>6. page \subseteq ids
    BY DEF PageOf
  <1> HIDE DEF n, page
  <1>7. /\ unique \in SUBSET DOMAIN l /\ unique \subseteq ids
        /\ IsFiniteSet(unique) /\ unique \subseteq Int
    <2>1. unique \in SUBSET DOMAIN l /\ unique \subseteq ids
      BY <1>1, <1>2, <1>6
    <2> QED BY <2>1, LogsAreNumbers
  <1>8. \A i \in ids : i <= first /\ RowsIn(l, P!Newer(i, ids)) < w.offset + n => i \in unique
    BY <1>1, <1>3, <1>5
  <1>9. ASSUME NEW i \in unique, NEW j \in ids, i < j, j <= first PROVE j \in unique
    <2>1. CASE i \in w.got
      BY <1>1, <1>9, <2>1
    <2>2. CASE i \in page
      <3>1. i \in ids /\ j \in before[i]
        BY <1>2, <1>3, <1>6, <1>9, <2>2 DEF P!Newer
      <3>2. j \in page \/ RowsIn(l, before[j]) < w.offset
        BY <1>5, <2>2, <3>1
      <3> QED BY <1>1, <1>3, <1>9, <3>2
    <2> QED BY <1>9, <2>1, <2>2
  <1> HIDE DEF unique
  <1> DEFINE kept == Largest(most, unique)
  <1>10. /\ kept \subseteq unique /\ IsFiniteSet(kept) /\ Cardinality(kept) \in Nat
         /\ Cardinality(kept) <= most
    <2>1. most \in Nat
      BY <1>0
    <2> HIDE DEF most
    <2> QED BY <1>7, <2>1, LargestAreFew, FS_CardinalityType
  <1>11. ASSUME ended, NEW i \in ids, i <= first, i \notin kept
         PROVE  Cardinality(kept) = most /\ \A j \in kept : i < j
    <2>1. Cardinality(kept) = most
      <3> SUFFICES ASSUME Cardinality(kept) # most PROVE FALSE
        OBVIOUS
      <3>1. Cardinality(kept) < most /\ most \in Nat
        BY <1>0, <1>10
      <3>2. kept = unique
        <4> HIDE DEF most
        <4> QED BY <1>7, <3>1, LargestAreAll
      <3>3. n < count
        <4> HIDE DEF kept
        <4> QED BY <1>0, <1>10, <1>11, <3>1, <3>2
      <3>4. i \in unique
        BY <1>3, <1>5, <1>8, <1>11, <3>3
      <3> QED BY <1>11, <3>2, <3>4
    <2>2. ASSUME NEW j \in kept PROVE i < j
      <3>1. j \in unique /\ j \in Int /\ i \in Int /\ j \in ids /\ i # j /\ most \in Nat
        BY <1>0, <1>2, <1>7, <1>10, <1>11
      <3> SUFFICES ASSUME j < i PROVE FALSE
        BY <3>1
      <3>2. i \in unique
        BY <1>9, <1>11, <3>1
      <3>3. i \in kept
        <4> HIDE DEF most
        <4>1. i >= j
          BY <3>1
        <4> QED BY <1>7, <3>1, <3>2, <4>1, LargestIsUpward
      <3> QED BY <1>11, <3>3
    <2> QED BY <2>1, <2>2
  <1>12. RecentWalk(l, type, v, first)
    <2>1. /\ v.offset = w.offset + n /\ v.ended = ended
          /\ ended => v.got = kept
          /\ ~ended => v.got = unique
      <3> HIDE DEF ended
      <3> QED OBVIOUS
    <2> HIDE DEF v, kept, ended
    <2>2. v.offset \in Nat /\ v.offset <= RowsIn(l, ids) /\ v.got \subseteq ids
      BY <1>5, <1>7, <1>10, <2>1
    <2>3. ~v.ended =>
              /\ \A i \in v.got, j \in ids : i < j /\ j <= first => j \in v.got
              /\ \A i \in ids : i <= first /\ RowsIn(l, P!Newer(i, ids)) < v.offset
                                  => i \in v.got
      BY <1>8, <1>9, <2>1
    <2>4. v.ended =>
              \A i \in ids : i <= first =>
                 \/ i \in v.got
                 \/ /\ Cardinality(v.got) = RECENT_ACTIVITY_LIMIT + 1
                    /\ \A j \in v.got : i < j
      BY <1>11, <2>1 DEF most
    <2> QED BY Zenon, <2>2, <2>3, <2>4 DEF RecentWalk, ids
  <1> QED BY <1>12 DEF v, kept, ended, unique, n, page, count, ids, before

\* Logs are only added, and rows of them.
GrewTo(l, m) ==
    /\ Len(l) <= Len(m)
    /\ \A i \in 1..Len(l) : m[i].type = l[i].type /\ l[i].rows <= m[i].rows

LEMMA RowsGrow ==
    ASSUME NEW l, PolicyLogsTyped(l), NEW m, PolicyLogsTyped(m), GrewTo(l, m),
           NEW few \in SUBSET DOMAIN l, NEW many \in SUBSET DOMAIN m, few \subseteq many
    PROVE  RowsIn(l, few) <= RowsIn(m, many)
  <1>1. DOMAIN l = 1..Len(l) /\ DOMAIN m = 1..Len(m) /\ Len(l) \in Nat /\ Len(m) \in Nat
    BY DEF PolicyLogsTyped
  <1>2. few \in SUBSET DOMAIN m
    OBVIOUS
  <1>3. IsFiniteSet(few) /\ \A i \in few : RowsOf(l)[i] \in Nat /\ RowsOf(m)[i] \in Nat
    BY <1>2, LogsAreNumbers
  <1>4. \A i \in few : RowsOf(l)[i] <= RowsOf(m)[i]
    BY <1>1, <1>2 DEF GrewTo, RowsOf
  <1>5. RowsIn(l, few) <= RowsIn(m, few)
    BY <1>3, <1>4, SumOfLarger DEF RowsIn
  <1>6. RowsIn(m, few) <= RowsIn(m, many)
    BY MoreLogsMoreRows
  <1>7. RowsIn(l, few) \in Nat /\ RowsIn(m, few) \in Nat /\ RowsIn(m, many) \in Nat
    BY <1>2, LogsAreNumbers
  <1> QED BY <1>5, <1>6, <1>7

\* The logs of a type that were there keep their places, those before them
\* included.
LEMMA PlacesStay ==
    ASSUME NEW l, PolicyLogsTyped(l), NEW m, PolicyLogsTyped(m), GrewTo(l, m), NEW type
    PROVE  LET ids == OfType(l, type)
               more == OfType(m, type)
           IN  /\ ids \in SUBSET DOMAIN l /\ more \in SUBSET DOMAIN m
               /\ ids \subseteq Int /\ more \subseteq Int /\ Len(l) \in Nat
               /\ \A i \in more : i \in ids <=> i <= Len(l)
               /\ ids \subseteq more
               /\ RowsIn(l, ids) \in Nat /\ RowsIn(m, more) \in Nat
               /\ RowsIn(l, ids) <= RowsIn(m, more)
               /\ \A i \in ids :
                     /\ RowsIn(l, P!Older(i, ids)) \in Nat
                     /\ RowsIn(m, P!Older(i, more)) \in Nat
                     /\ RowsIn(l, P!Older(i, ids)) <= RowsIn(m, P!Older(i, more))
                     /\ RowsIn(l, P!Newer(i, ids)) \in Nat
                     /\ RowsIn(m, P!Newer(i, more)) \in Nat
                     /\ RowsIn(l, P!Newer(i, ids)) <= RowsIn(m, P!Newer(i, more))
  <1> DEFINE ids == OfType(l, type)
             more == OfType(m, type)
  <1>1. DOMAIN l = 1..Len(l) /\ DOMAIN m = 1..Len(m) /\ Len(l) \in Nat /\ Len(m) \in Nat
    BY DEF PolicyLogsTyped
  <1>2. ids \in SUBSET DOMAIN l /\ more \in SUBSET DOMAIN m
    BY DEF OfType
  <1>3. \A i \in more : i \in ids <=> i <= Len(l)
    BY <1>1 DEF OfType, GrewTo
  <1>4. ids \subseteq more
    BY <1>1 DEF OfType, GrewTo
  <1> HIDE DEF ids, more
  <1>5. RowsIn(l, ids) <= RowsIn(m, more)
    BY <1>2, <1>4, RowsGrow
  <1>6. ASSUME NEW few \in SUBSET ids, NEW many \in SUBSET more, few \subseteq many
        PROVE  /\ RowsIn(l, few) \in Nat /\ RowsIn(m, many) \in Nat
               /\ RowsIn(l, few) <= RowsIn(m, many)
    <2>1. few \in SUBSET DOMAIN l /\ many \in SUBSET DOMAIN m
      BY <1>2
    <2> QED BY <1>6, <2>1, RowsGrow, LogsAreNumbers
  <1>7. \A i : /\ P!Older(i, ids) \in SUBSET ids /\ P!Older(i, more) \in SUBSET more
               /\ P!Older(i, ids) \subseteq P!Older(i, more)
               /\ P!Newer(i, ids) \in SUBSET ids /\ P!Newer(i, more) \in SUBSET more
               /\ P!Newer(i, ids) \subseteq P!Newer(i, more)
    BY <1>4 DEF P!Older, P!Newer
  <1>8. /\ ids \subseteq Int /\ more \subseteq Int
        /\ RowsIn(l, ids) \in Nat /\ RowsIn(m, more) \in Nat
    BY <1>2, LogsAreNumbers
  <1> QED BY <1>1, <1>2, <1>3, <1>4, <1>5, <1>6, <1>7, <1>8 DEF ids, more

LEMMA AllWalkStays ==
    ASSUME NEW l, PolicyLogsTyped(l), NEW m, PolicyLogsTyped(m), GrewTo(l, m),
           NEW first \in 0..Len(l), NEW w, AllWalk(l, w, first)
    PROVE  AllWalk(m, w, first)
  <1> DEFINE ids == OfType(l, "member")
             more == OfType(m, "member")
  <1>1. /\ w.offset \in Nat /\ w.offset <= RowsIn(l, ids)
        /\ w.got \subseteq ids
        /\ \A i \in w.got, j \in ids : j < i => j \in w.got
        /\ \A i \in ids : RowsIn(l, P!Older(i, ids)) < w.offset => i \in w.got
        /\ w.ended => \E n \in first..Len(l) : w.got = ReadUpTo(l, n)
    BY DEF AllWalk
  <1>2. /\ ids \in SUBSET DOMAIN l /\ more \in SUBSET DOMAIN m
        /\ ids \subseteq Int /\ more \subseteq Int /\ Len(l) \in Nat
        /\ \A i \in more : i \in ids <=> i <= Len(l)
        /\ ids \subseteq more
        /\ RowsIn(l, ids) \in Nat /\ RowsIn(m, more) \in Nat
        /\ RowsIn(l, ids) <= RowsIn(m, more)
        /\ \A i \in ids : /\ RowsIn(l, P!Older(i, ids)) \in Nat
                          /\ RowsIn(m, P!Older(i, more)) \in Nat
                          /\ RowsIn(l, P!Older(i, ids)) <= RowsIn(m, P!Older(i, more))
    BY PlacesStay
  <1>3. DOMAIN l = 1..Len(l) /\ Len(m) \in Nat /\ Len(l) <= Len(m)
    BY DEF PolicyLogsTyped, GrewTo
  <1>4. ASSUME w.ended PROVE \E n \in first..Len(m) : w.got = ReadUpTo(m, n)
    <2>1. PICK n \in first..Len(l) : w.got = ReadUpTo(l, n)
      BY <1>1, <1>4
    <2>2. n \in first..Len(m) /\ n <= Len(l) /\ n \in Int
      BY <1>3
    <2>3. ReadUpTo(l, n) = ReadUpTo(m, n)
      BY <1>2, <1>3, <2>2 DEF ReadUpTo
    <2> QED BY <2>1, <2>2, <2>3
  <1> HIDE DEF ids, more
  <1>5. w.offset <= RowsIn(m, more) /\ w.got \subseteq more
    BY <1>1, <1>2
  <1>6. ASSUME NEW i \in w.got, NEW j \in more, j < i PROVE j \in w.got
    <2>1. i \in ids /\ i <= Len(l) /\ i \in Int /\ j \in Int
      BY <1>1, <1>2
    <2>2. j \in ids
      BY <1>2, <1>6, <2>1
    <2> QED BY <1>1, <1>6, <2>2
  <1>7. ASSUME NEW i \in more, RowsIn(m, P!Older(i, more)) < w.offset PROVE i \in w.got
    <2>1. CASE i \in ids
      BY <1>1, <1>2, <1>7, <2>1
    <2>2. CASE i \notin ids
      <3>1. ids \subseteq P!Older(i, more)
        BY <1>2, <1>3, <2>2 DEF P!Older
      <3>2. P!Older(i, more) \in SUBSET DOMAIN m
        BY <1>2 DEF P!Older
      <3>3. RowsIn(l, ids) <= RowsIn(m, P!Older(i, more))
        BY <1>2, <3>1, <3>2, RowsGrow
      <3>4. RowsIn(m, P!Older(i, more)) \in Nat
        BY <3>2, LogsAreNumbers
      <3> QED BY <1>1, <1>2, <1>7, <3>3, <3>4
    <2> QED BY <2>1, <2>2
  <1> QED BY <1>1, <1>4, <1>5, <1>6, <1>7 DEF AllWalk, more

LEMMA RecentWalkStays ==
    ASSUME NEW l, PolicyLogsTyped(l), NEW m, PolicyLogsTyped(m), GrewTo(l, m), NEW type,
           NEW first \in 0..Len(l), NEW w, RecentWalk(l, type, w, first)
    PROVE  RecentWalk(m, type, w, first)
  <1> DEFINE ids == OfType(l, type)
             more == OfType(m, type)
  <1>1. /\ w.offset \in Nat /\ w.offset <= RowsIn(l, ids)
        /\ w.got \subseteq ids
    BY DEF RecentWalk
  <1>2. /\ ids \in SUBSET DOMAIN l /\ more \in SUBSET DOMAIN m
        /\ ids \subseteq Int /\ more \subseteq Int /\ Len(l) \in Nat
        /\ \A i \in more : i \in ids <=> i <= Len(l)
        /\ ids \subseteq more
        /\ RowsIn(l, ids) \in Nat /\ RowsIn(m, more) \in Nat
        /\ RowsIn(l, ids) <= RowsIn(m, more)
        /\ \A i \in ids : /\ RowsIn(l, P!Newer(i, ids)) \in Nat
                          /\ RowsIn(m, P!Newer(i, more)) \in Nat
                          /\ RowsIn(l, P!Newer(i, ids)) <= RowsIn(m, P!Newer(i, more))
    BY PlacesStay
  <1>3. \A i \in more : i <= first => i \in ids
    BY <1>2
  <1>4. ~w.ended =>
              /\ \A i \in w.got, j \in ids : i < j /\ j <= first => j \in w.got
              /\ \A i \in ids : i <= first /\ RowsIn(l, P!Newer(i, ids)) < w.offset
                                  => i \in w.got
    BY DEF RecentWalk
  <1>5. w.ended =>
              \A i \in ids : i <= first =>
                 \/ i \in w.got
                 \/ /\ Cardinality(w.got) = RECENT_ACTIVITY_LIMIT + 1
                    /\ \A j \in w.got : i < j
    BY DEF RecentWalk
  <1> HIDE DEF ids, more
  <1>6. w.offset <= RowsIn(m, more) /\ w.got \subseteq more
    BY <1>1, <1>2
  <1>7. ASSUME ~w.ended, NEW i \in more, i <= first, RowsIn(m, P!Newer(i, more)) < w.offset
        PROVE  i \in w.got
    <2>1. i \in ids
      BY <1>3, <1>7
    <2>2. RowsIn(l, P!Newer(i, ids)) < w.offset
      BY <1>1, <1>2, <1>7, <2>1
    <2> QED BY <1>4, <1>7, <2>1, <2>2
  <1>8. ~w.ended => \A i \in w.got, j \in more : i < j /\ j <= first => j \in w.got
    BY <1>3, <1>4
  <1>9. w.ended =>
              \A i \in more : i <= first =>
                 \/ i \in w.got
                 \/ /\ Cardinality(w.got) = RECENT_ACTIVITY_LIMIT + 1
                    /\ \A j \in w.got : i < j
    BY <1>3, <1>5
  <1> QED BY <1>1, <1>6, <1>7, <1>8, <1>9 DEF RecentWalk, more

-----------------------------------------------------------------------------

LEMMA NewestLogs == ASSUME NEW n, NEW ids PROVE P!Newest(n, ids) = Largest(n, ids)
  <1>1. ASSUME NEW x \in ids PROVE x \in P!Newest(n, ids) <=> x \in Largest(n, ids)
    <2>1. {c \in ids : c > x} = Above(x, ids)
      BY DEF Above
    <2>2. x \in P!Newest(n, ids) <=> P!Cardinality({c \in ids : c > x}) < n
      BY Zenon DEF P!Newest
    <2>3. P!Cardinality(Above(x, ids)) = Cardinality(Above(x, ids))
      BY Zenon DEF P!Cardinality, Cardinality, P!IsFiniteSet, IsFiniteSet
    <2> QED BY <2>1, <2>2, <2>3 DEF Largest
  <1>2. P!Newest(n, ids) \subseteq ids /\ Largest(n, ids) \subseteq ids
    BY Zenon DEF P!Newest, Largest
  <1> QED BY <1>1, <1>2

\* A page of the model is a page of the lemmas above.
LEMMA PolicyPages ==
    ASSUME PolicyLogsTyped(logs), NEW type, NEW count \in Nat,
           NEW offset \in Nat
    PROVE  LET ids == OfType(logs, type)
           IN  /\ P!Of(type) = ids
               /\ P!Size(ids, count, offset) = SizeOf(logs, ids, count, offset)
               /\ P!AscendingPage(ids, count, offset)
                     = PageOf(logs, ids, Ascending(ids), count, offset)
               /\ P!DescendingPage(ids, count, offset)
                     = PageOf(logs, ids, Descending(ids), count, offset)
  <1> DEFINE ids == OfType(logs, type)
  <1>1. P!Of(type) = ids
    BY DEF P!Of, OfType
  <1>2. P!rowsOf = RowsOf(logs)
    BY DEF P!rowsOf, RowsOf
  <1>3. \A few : P!Rows(few) = RowsIn(logs, few)
    BY <1>2 DEF P!Rows, P!MapThenSumSet, P!MapThenFoldSet, RowsIn, SumOf,
                MapThenSumSet, MapThenFoldSet
  <1>4. RowsIn(logs, ids) \in Nat
    BY LogsAreNumbers DEF OfType
  <1> HIDE DEF ids
  <1>5. P!Size(ids, count, offset) = SizeOf(logs, ids, count, offset)
    <2> DEFINE rest == RowsIn(logs, ids) - offset
               least == IF count <= rest THEN count ELSE rest
    <2>1. rest \in Int /\ least \in {count, rest} /\ \A y \in {count, rest} : least <= y
      BY <1>4
    <2>2. \A x \in {count, rest} : (\A y \in {count, rest} : x <= y) => x = least
      BY <2>1
    <2>3. P!Min({count, rest}) = least
      <3> HIDE DEF rest, least
      <3> QED BY <2>1, <2>2 DEF P!Min
    <2> QED BY <1>3, <2>3 DEF P!Size, SizeOf
  <1>6. P!AscendingPage(ids, count, offset) = PageOf(logs, ids, Ascending(ids), count, offset)
    BY <1>2, <1>3 DEF P!AscendingPage, PageOf, Ascending
  <1>7. P!DescendingPage(ids, count, offset) = PageOf(logs, ids, Descending(ids), count, offset)
    BY <1>2, <1>3 DEF P!DescendingPage, PageOf, Descending
  <1> QED BY <1>1, <1>5, <1>6, <1>7 DEF ids

\* What a walk has got is typed as long as its logs are.
LEMMA WalkIsTyped ==
    ASSUME NEW l, PolicyLogsTyped(l), Len(l) <= MaxLogs, NEW type,
           NEW offset \in Nat, NEW got, got \subseteq OfType(l, type), NEW ended \in BOOLEAN
    PROVE  [offset |-> offset, got |-> got, ended |-> ended] \in P!Walk
  <1>1. Len(l) \in Nat /\ DOMAIN l = 1..Len(l) /\ MaxLogs \in Nat
    BY PolicyAssumption DEF PolicyLogsTyped
  <1>2. got \in SUBSET (1..MaxLogs)
    BY <1>1 DEF OfType
  <1> QED BY <1>2 DEF P!Walk

LEMMA NewWalkKeeps ==
    ASSUME NEW l, PolicyLogsTyped(l), NEW first
    PROVE  /\ P!NewWalk \in P!Walk
           /\ AllWalk(l, P!NewWalk, first)
           /\ \A t \in P!EventTypes : RecentWalk(l, t, P!NewWalk, first)
  <1> DEFINE w == P!NewWalk
  <1>1. w.offset = 0 /\ w.got = {} /\ w.ended = FALSE
    BY DEF P!NewWalk
  <1>2. w \in P!Walk
    BY DEF P!NewWalk, P!Walk
  <1>3. ASSUME NEW t
        PROVE  /\ RowsIn(l, OfType(l, t)) \in Nat
               /\ \A i : /\ RowsIn(l, P!Older(i, OfType(l, t))) \in Nat
                         /\ RowsIn(l, P!Newer(i, OfType(l, t))) \in Nat
    BY LogsAreNumbers DEF OfType, P!Older, P!Newer
  <1> HIDE DEF w
  <1>4. AllWalk(l, w, first)
    BY <1>1, <1>3 DEF AllWalk
  <1>5. \A t \in P!EventTypes : RecentWalk(l, t, w, first)
    BY <1>1, <1>3 DEF RecentWalk
  <1> QED BY <1>2, <1>4, <1>5 DEF w

LEMMA PolicyInit == P!Init => PolicyInv
  <1> SUFFICES ASSUME P!Init PROVE PolicyInv
    OBVIOUS
  <1>1. /\ logs = <<>> /\ start = 0 /\ phase = "idle"
        /\ all = P!NewWalk /\ recent = [t \in P!EventTypes |-> P!NewWalk]
    BY DEF P!Init
  <1>2. PolicyLogsTyped(logs) /\ Len(logs) = 0 /\ Len(logs) <= MaxLogs
    <2>1. \A set : <<>> \in Seq(set)
      OBVIOUS
    <2> QED BY <1>1, <2>1, PolicyAssumption DEF PolicyLogsTyped
  <1>3. start \in 0..Len(logs)
    BY <1>1, <1>2
  <1>4. \A t \in P!EventTypes : recent[t] = P!NewWalk
    BY <1>1
  <1> QED BY <1>1, <1>2, <1>3, <1>4, NewWalkKeeps DEF PolicyInv

\* Logs that arrive leave what the walks keep.
LEMMA LogsArrive ==
    ASSUME PolicyInv, PolicyLogsTyped(logs'), Len(logs') <= MaxLogs, GrewTo(logs, logs'),
           UNCHANGED <<start, phase, all, recent>>
    PROVE  PolicyInv'
  <1>1. start' \in 0..Len(logs')
    BY DEF PolicyInv, GrewTo, PolicyLogsTyped
  <1>2. AllWalk(logs', all, start)
    BY AllWalkStays DEF PolicyInv
  <1>3. \A t \in P!EventTypes : RecentWalk(logs', t, recent[t], start)
    BY RecentWalkStays DEF PolicyInv
  <1> QED BY <1>1, <1>2, <1>3 DEF PolicyInv

LEMMA WriteGrows ==
    ASSUME PolicyInv, NEW type \in P!EventTypes, NEW n \in 1..MaxCopies, P!Write(type, n)
    PROVE  PolicyInv'
  <1> DEFINE e == [type |-> type, rows |-> n]
  <1>1. e \in [type : P!EventTypes, rows : 1..MaxCopies]
    OBVIOUS
  <1>2. /\ logs' = Append(logs, e) /\ Len(logs) < MaxLogs
        /\ UNCHANGED <<start, phase, all, recent>>
    BY DEF P!Write
  <1>3. \A set : logs \in Seq(set) /\ e \in set =>
           /\ Append(logs, e) \in Seq(set) /\ Len(Append(logs, e)) = Len(logs) + 1
           /\ \A i \in 1..Len(logs) : Append(logs, e)[i] = logs[i]
           /\ Len(logs) \in Nat
    <2> HIDE DEF e
    <2> QED BY AppendProperties
  <1>4. PolicyLogsTyped(logs') /\ Len(logs') = Len(logs) + 1 /\ Len(logs) \in Nat
        /\ \A i \in 1..Len(logs) : logs'[i] = logs[i]
    BY <1>1, <1>2, <1>3 DEF PolicyInv, PolicyLogsTyped
  <1>5. GrewTo(logs, logs')
    <2>1. \A i \in 1..Len(logs) : logs[i].rows \in Nat
      <3>1. PolicyLogsTyped(logs) /\ DOMAIN logs = 1..Len(logs)
        BY DEF PolicyInv, PolicyLogsTyped
      <3> QED BY <3>1, LogsAreNumbers DEF RowsOf
    <2> QED BY <1>4, <2>1 DEF GrewTo
  <1>6. Len(logs') <= MaxLogs
    BY <1>2, <1>4, PolicyAssumption
  <1> QED BY <1>2, <1>4, <1>5, <1>6, LogsArrive

LEMMA WriteAgainGrows ==
    ASSUME PolicyInv, NEW i \in DOMAIN logs, P!WriteAgain(i)
    PROVE  PolicyInv'
  <1>1. /\ logs[i].rows < MaxCopies /\ logs' = [logs EXCEPT ![i].rows = @ + 1]
        /\ UNCHANGED <<start, phase, all, recent>>
    BY DEF P!WriteAgain
  <1>2. PolicyLogsTyped(logs) /\ Len(logs) <= MaxLogs
    BY DEF PolicyInv
  <1>3. /\ Len(logs) \in Nat /\ DOMAIN logs = 1..Len(logs)
        /\ \A j \in 1..Len(logs) : logs[j] \in [type : P!EventTypes, rows : 1..MaxCopies]
    <2>1. \A set : logs \in Seq(set) =>
             Len(logs) \in Nat /\ DOMAIN logs = 1..Len(logs) /\ \A j \in 1..Len(logs) : logs[j] \in set
      OBVIOUS
    <2> QED BY <1>2, <2>1 DEF PolicyLogsTyped
  <1>4. \A j \in 1..Len(logs) :
           /\ logs'[j] \in [type : P!EventTypes, rows : 1..MaxCopies]
           /\ logs'[j].type = logs[j].type /\ logs[j].rows <= logs'[j].rows
    <2> SUFFICES ASSUME NEW j \in 1..Len(logs)
                 PROVE  /\ logs'[j] \in [type : P!EventTypes, rows : 1..MaxCopies]
                        /\ logs'[j].type = logs[j].type /\ logs[j].rows <= logs'[j].rows
      OBVIOUS
    <2>1. logs[j] \in [type : P!EventTypes, rows : 1..MaxCopies]
      BY <1>3
    <2>2. logs[j].rows \in 1..MaxCopies /\ logs[j].type \in P!EventTypes
      BY <2>1
    <2>3. CASE j = i
      <3>1. logs'[j] = [logs[j] EXCEPT !.rows = @ + 1]
        BY <1>1, <1>3, <2>3
      <3>2. logs'[j] = [type |-> logs[j].type, rows |-> logs[j].rows + 1]
        BY <2>1, <3>1
      <3> QED BY <1>1, <2>2, <2>3, <3>2, PolicyAssumption
    <2>4. CASE j # i
      <3>1. logs'[j] = logs[j]
        BY <1>1, <1>3, <2>4
      <3> QED BY <2>1, <2>2, <3>1, PolicyAssumption
    <2> QED BY <2>3, <2>4
  <1>5. DOMAIN logs' = 1..Len(logs)
    BY <1>1, <1>3
  <1>6. PolicyLogsTyped(logs') /\ Len(logs') = Len(logs)
    <2>1. \A set : (\A j \in 1..Len(logs) : logs'[j] \in set) => logs' \in Seq(set) /\ Len(logs') = Len(logs)
      <3>1. logs' = [j \in 1..Len(logs) |-> logs'[j]]
        BY <1>1, <1>5
      <3> QED BY <1>3, <1>5, <3>1, SeqDef
    <2> QED BY <1>4, <2>1 DEF PolicyLogsTyped
  <1>7. GrewTo(logs, logs')
    BY <1>3, <1>4, <1>6 DEF GrewTo
  <1> QED BY <1>1, <1>2, <1>6, <1>7, LogsArrive

LEMMA PolicyNext ==
    ASSUME PolicyInv, [P!Next]_(P!vars)
    PROVE  PolicyInv'
  <1>1. /\ PolicyLogsTyped(logs) /\ Len(logs) <= MaxLogs /\ start \in 0..Len(logs)
        /\ phase \in {"idle", "reading", "done"}
        /\ all \in P!Walk /\ recent \in [P!EventTypes -> P!Walk]
        /\ AllWalk(logs, all, start)
        /\ \A t \in P!EventTypes : RecentWalk(logs, t, recent[t], start)
        /\ phase = "done" => all.ended /\ \A t \in P!EventTypes : recent[t].ended
    BY Zenon DEF PolicyInv
  <1>2. ASSUME NEW type \in P!EventTypes, NEW n \in 1..MaxCopies, P!Write(type, n)
        PROVE  PolicyInv'
    BY <1>2, WriteGrows
  <1>3. ASSUME NEW i \in DOMAIN logs, P!WriteAgain(i) PROVE PolicyInv'
    BY <1>3, WriteAgainGrows
  <1>4. CASE P!Request
    <2>1. /\ phase' = "reading" /\ start' = Len(logs) /\ all' = P!NewWalk
          /\ recent' = [t \in P!EventTypes |-> P!NewWalk] /\ logs' = logs
      BY <1>4 DEF P!Request
    <2>2. start' \in 0..Len(logs')
      BY <1>1, <2>1 DEF PolicyLogsTyped
    <2>3. \A t \in P!EventTypes : recent'[t] = P!NewWalk
      BY <2>1
    <2> QED BY <1>1, <2>1, <2>2, <2>3, NewWalkKeeps DEF PolicyInv
  <1>5. CASE P!ReadAll
    <2> DEFINE ids == OfType(logs, "member")
               n == SizeOf(logs, ids, POLICY_LOG_PAGE_SIZE, all.offset)
               page == PageOf(logs, ids, Ascending(ids), POLICY_LOG_PAGE_SIZE, all.offset)
               v == [offset |-> all.offset + n, got |-> all.got \cup page,
                     ended |-> n < POLICY_LOG_PAGE_SIZE]
    <2>1. POLICY_LOG_PAGE_SIZE \in Nat \ {0} /\ POLICY_LOG_PAGE_SIZE \in Nat
      BY PolicyAssumption
    <2>2. all.offset \in Nat
      BY <1>1 DEF AllWalk
    <2>3. /\ P!Of("member") = ids
          /\ P!Size(ids, POLICY_LOG_PAGE_SIZE, all.offset) = n
          /\ P!AscendingPage(ids, POLICY_LOG_PAGE_SIZE, all.offset) = page
      BY <1>1, <2>1, <2>2, PolicyPages
    <2>4. /\ phase = "reading" /\ UNCHANGED <<logs, start, phase, recent>>
          /\ all' = v
      <3> HIDE DEF n, page
      <3> QED BY <1>5, <2>3, Zenon DEF P!ReadAll
    <2>5. AllWalk(logs, v, start)
      BY <1>1, <2>1, AllWalkReads
    <2>6. v \in P!Walk
      <3>1. v.offset \in Nat /\ v.got \subseteq ids
        BY <2>5 DEF AllWalk
      <3>2. v.offset = all.offset + n /\ v.got = all.got \cup page
        OBVIOUS
      <3>3. (n < POLICY_LOG_PAGE_SIZE) \in BOOLEAN
        OBVIOUS
      <3> HIDE DEF n, page, ids
      <3> QED BY <1>1, <3>1, <3>2, <3>3, WalkIsTyped DEF ids
    <2> HIDE DEF v
    <2> QED BY <1>1, <2>4, <2>5, <2>6 DEF PolicyInv
  <1>6. ASSUME NEW type \in P!EventTypes, P!ReadRecent(type) PROVE PolicyInv'
    <2> DEFINE w == recent[type]
               most == RECENT_ACTIVITY_LIMIT + 1
               ids == OfType(logs, type)
               n == SizeOf(logs, ids, most + 1, w.offset)
               unique == w.got \cup PageOf(logs, ids, Descending(ids), most + 1, w.offset)
               ended == Cardinality(unique) >= most \/ n < most + 1
               v == [offset |-> w.offset + n,
                     got |-> IF ended THEN Largest(most, unique) ELSE unique,
                     ended |-> ended]
    <2>1. most + 1 \in Nat /\ P!uniqueLimit = most
      BY PolicyAssumption DEF P!uniqueLimit
    <2>2. RecentWalk(logs, type, w, start) /\ w \in P!Walk
      BY <1>1
    <2>3. w.offset \in Nat
      BY <2>2 DEF RecentWalk
    <2>4. /\ P!Of(type) = ids
          /\ P!Size(ids, most + 1, w.offset) = n
          /\ w.got \cup P!DescendingPage(ids, most + 1, w.offset) = unique
      <3> HIDE DEF most, w
      <3> QED BY <1>1, <2>1, <2>3, PolicyPages
    <2>5. P!Cardinality(unique) = Cardinality(unique)
      BY Zenon DEF P!Cardinality, Cardinality, P!IsFiniteSet, IsFiniteSet
    <2>6. P!Newest(most, unique) = Largest(most, unique)
      BY NewestLogs
    <2>7. /\ phase = "reading" /\ ~w.ended /\ UNCHANGED <<logs, start, phase, all>>
          /\ recent' = [recent EXCEPT ![type] = v]
      <3> HIDE DEF n, unique, ids, most, w
      <3> QED BY <1>6, <2>1, <2>4, <2>5, <2>6, Zenon DEF P!ReadRecent, w
    <2>8. RecentWalk(logs, type, v, start)
      <3> HIDE DEF w
      <3> QED BY <1>1, <2>2, <2>7, RecentWalkReads
    <2>9. v \in P!Walk
      <3>1. v.offset \in Nat /\ v.got \subseteq ids
        BY <2>8 DEF RecentWalk
      <3>2. /\ v.offset = w.offset + n
            /\ v.got = IF ended THEN Largest(most, unique) ELSE unique
        OBVIOUS
      <3>3. ended \in BOOLEAN
        OBVIOUS
      <3> HIDE DEF n, unique, ids, most, w, ended
      <3> QED BY <1>1, <3>1, <3>2, <3>3, WalkIsTyped DEF ids
    <2> HIDE DEF v
    <2>10. recent' \in [P!EventTypes -> P!Walk]
      BY <1>1, <2>7, <2>9
    <2>11. ASSUME NEW t \in P!EventTypes PROVE RecentWalk(logs, t, recent'[t], start)
      <3>1. recent'[t] = IF t = type THEN v ELSE recent[t]
        BY <1>1, <2>7
      <3> QED BY <1>1, <2>8, <3>1
    <2> QED BY <1>1, <2>7, <2>10, <2>11 DEF PolicyInv
  <1>7. CASE P!Finish
    BY <1>1, <1>7 DEF P!Finish, PolicyInv
  <1>8. CASE UNCHANGED P!vars
    BY <1>1, <1>8 DEF P!vars, PolicyInv
  <1> QED BY <1>2, <1>3, <1>4, <1>5, <1>6, <1>7, <1>8 DEF P!Next

LEMMA PolicyAlways == AllSpec => []PolicyInv
  <1>1. AllInit => PolicyInv
    BY PolicyInit DEF AllInit
  <1>2. PolicyInv /\ [AllNext]_allVars => PolicyInv'
    <2>1. [AllNext]_allVars => [P!Next]_(P!vars)
      BY Zenon DEF AllNext, allVars, partVars, policyVars, P!vars
    <2> QED BY <2>1, PolicyNext
  <1> QED BY <1>1, <1>2, PTL DEF AllSpec

LEMMA ShownIsWhole == PolicyInv => PolicyIsOfOneMoment
  <1> SUFFICES ASSUME PolicyInv, phase = "done"
               PROVE  /\ \E n \in start..Len(logs) :
                            all.got = {i \in 1..n : logs[i].type = "member"}
                      /\ \A i \in 1..start :
                            \/ i \in P!activity
                            \/ P!activityTruncated /\ \A j \in P!activity : i < j
    BY DEF PolicyIsOfOneMoment, P!PolicyIsOfOneMoment, P!MembersAreOfOneMoment,
           P!ActivityHasNoHoles
  <1>1. /\ PolicyLogsTyped(logs) /\ start \in 0..Len(logs)
        /\ all.ended /\ \A t \in P!EventTypes : recent[t].ended
        /\ AllWalk(logs, all, start)
        /\ \A t \in P!EventTypes : RecentWalk(logs, t, recent[t], start)
    BY Zenon DEF PolicyInv
  <1>2. Len(logs) \in Nat /\ DOMAIN logs = 1..Len(logs)
    BY <1>1 DEF PolicyLogsTyped
  <1>3. PICK n \in start..Len(logs) : all.got = ReadUpTo(logs, n)
    BY <1>1 DEF AllWalk
  <1>4. ReadUpTo(logs, n) = {i \in 1..n : logs[i].type = "member"}
    BY <1>1, <1>2 DEF ReadUpTo, OfType
  <1> DEFINE events == P!recentEvents
             act == P!activity
  <1>5. /\ events = UNION {recent[t].got : t \in P!EventTypes}
        /\ act = Largest(RECENT_ACTIVITY_LIMIT, events)
    BY NewestLogs DEF P!recentEvents, P!activity
  <1>6. P!activityTruncated <=> Cardinality(events) > RECENT_ACTIVITY_LIMIT
    <2>1. P!Cardinality(events) = Cardinality(events)
      BY Zenon DEF P!Cardinality, Cardinality, P!IsFiniteSet, IsFiniteSet
    <2> QED BY <2>1 DEF P!activityTruncated
  <1>7. \A t \in P!EventTypes : recent[t].got \subseteq OfType(logs, t)
    BY <1>1 DEF RecentWalk
  <1>8. events \in SUBSET DOMAIN logs
    BY <1>5, <1>7 DEF OfType
  <1> HIDE DEF events, act
  <1>9. IsFiniteSet(events) /\ events \subseteq Int /\ RECENT_ACTIVITY_LIMIT \in Nat
    BY <1>1, <1>8, LogsAreNumbers, PolicyAssumption
  <1>10. Cardinality(events) \in Nat /\ act \subseteq events
    BY <1>5, <1>9, LargestAreFew, FS_CardinalityType
  <1>11. ASSUME NEW i \in 1..start, i \notin act
         PROVE  Cardinality(events) > RECENT_ACTIVITY_LIMIT /\ \A j \in act : i < j
    <2>1. i \in DOMAIN logs /\ i \in Int /\ i <= start
      BY <1>1, <1>2
    <2>2. CASE i \in events
      <3>1. Cardinality(events) > RECENT_ACTIVITY_LIMIT
        <4> SUFFICES ASSUME Cardinality(events) <= RECENT_ACTIVITY_LIMIT PROVE FALSE
          BY <1>9, <1>10
        <4> QED BY <1>5, <1>9, <1>11, <2>2, FewAreLargest
      <3>2. ASSUME NEW j \in act PROVE i < j
        <4>1. j \in Int /\ i # j /\ ~(i >= j)
          BY <1>5, <1>9, <1>10, <1>11, <2>1, <2>2, LargestIsUpward
        <4> QED BY <2>1, <4>1
      <3> QED BY <3>1, <3>2
    <2>3. CASE i \notin events
      <3>1. PICK t \in P!EventTypes : i \in OfType(logs, t)
        <4>1. logs[i].type \in P!EventTypes
          <5>1. \A set : logs \in Seq(set) => logs[i] \in set
            BY <2>1, <1>2
          <5>2. logs[i] \in [type : P!EventTypes, rows : 1..MaxCopies]
            BY <1>1, <5>1 DEF PolicyLogsTyped
          <5> QED BY <5>2
        <4> QED BY <2>1, <4>1 DEF OfType
      <3> DEFINE got == recent[t].got
      <3>2. got \in SUBSET events
        BY <1>5
      <3>3. i \notin got
        BY <2>3, <3>2
      <3>4. Cardinality(got) = RECENT_ACTIVITY_LIMIT + 1 /\ \A j \in got : i < j
        <4>1. RecentWalk(logs, t, recent[t], start) /\ recent[t].ended
          BY <1>1
        <4> QED BY <2>1, <3>1, <3>3, <4>1 DEF RecentWalk
      <3> HIDE DEF got
      <3>5. Cardinality(events) > RECENT_ACTIVITY_LIMIT
        <4>1. Cardinality(got) <= Cardinality(events)
          BY <1>9, <3>2, FS_Subset
        <4> QED BY <1>9, <1>10, <3>4, <4>1
      <3>6. ASSUME NEW j \in act PROVE i < j
        <4>1. j \in Int /\ j \in events
          BY <1>9, <1>10
        <4> SUFFICES ASSUME j <= i PROVE FALSE
          BY <2>1, <4>1
        <4>2. got \in SUBSET Above(j, events)
          <5>1. ASSUME NEW k \in got PROVE k > j
            <6>1. k \in Int /\ i < k
              BY <1>9, <3>2, <3>4
            <6> QED BY <2>1, <4>1, <6>1
          <5> QED BY <3>2, <5>1 DEF Above
        <4>3. /\ IsFiniteSet(Above(j, events)) /\ Cardinality(Above(j, events)) \in Nat
              /\ Cardinality(Above(j, events)) < RECENT_ACTIVITY_LIMIT
          BY <1>5, <1>9, AboveIsFinite DEF Largest
        <4>4. Cardinality(got) <= Cardinality(Above(j, events))
          BY <4>2, <4>3, FS_Subset
        <4> QED BY <1>9, <3>4, <4>3, <4>4
      <3> QED BY <3>5, <3>6
    <2> QED BY <2>2, <2>3
  <1>12. \A i \in 1..start :
            \/ i \in P!activity
            \/ P!activityTruncated /\ \A j \in P!activity : i < j
    BY <1>6, <1>11 DEF act
  <1> QED BY <1>3, <1>4, <1>12

\* fetchAllPolicyLogPages and fetchRecentUniquePolicyLogs, for policies with any
\* number of logs in any number of rows, pages of any size and any number of
\* recent events: what a request shows is what the logs said at one moment of it.
THEOREM PolicyStaysOfOneMoment == AllSpec => []PolicyIsOfOneMoment
  <1> QED BY PolicyAlways, ShownIsWhole, PTL

-----------------------------------------------------------------------------
(* What is told of a transaction, whatever calls it made.  The argument goes *)
(* from the receipt to the story: the logs of each call lie together in the  *)
(* receipt, in the order of the calls (Laid); which of them are shown        *)
(* depends on the call alone, unless two calls are mixed up (ShownAre); so   *)
(* of every call exactly one shown log is told, or two as one swap           *)
(* (MappedAre, SoldAre), as what the call did (DetectedIsTold, SwapIsTold).  *)
(* That pairs the calls with what is told, and pairs occur equally often.    *)

-----------------------------------------------------------------------------
(* What is kept of an array *)

\* The place that an element of I has among all of them
Rank(I, x) == Cardinality({y \in I : y < x}) + 1

LEMMA RankIs ==
    ASSUME NEW I, AreNumbers(I), NEW x \in I
    PROVE  Rank(I, x) \in 1..Cardinality(I)
  <1> DEFINE M == {y \in I : y < x}
  <1>1. IsFiniteSet(I) /\ I \subseteq Int /\ x \notin M /\ M \in SUBSET I /\ x \in Int
    BY DEF AreNumbers
  <1>2. IsFiniteSet(M) /\ Cardinality(M) \in Nat /\ Cardinality(I) \in Nat
    BY <1>1, FS_Subset, FS_CardinalityType
  <1>3. M \cup {x} \in SUBSET I
    BY <1>1
  <1> HIDE DEF M
  <1>4. Cardinality(M \cup {x}) = Cardinality(M) + 1
    BY <1>1, <1>2, FS_AddElement
  <1>5. Cardinality(M \cup {x}) <= Cardinality(I)
    BY <1>1, <1>3, FS_Subset
  <1> QED BY <1>2, <1>4, <1>5 DEF Rank, M

LEMMA RankGrows ==
    ASSUME NEW I, AreNumbers(I), NEW x \in I, NEW y \in I, x < y
    PROVE  Rank(I, x) < Rank(I, y)
  <1> DEFINE M == {z \in I : z < x}
             N == {z \in I : z < y}
  <1>1. IsFiniteSet(I) /\ x \notin M /\ M \in SUBSET I /\ N \in SUBSET I /\ x \in Int /\ y \in Int
    BY DEF AreNumbers
  <1>2. IsFiniteSet(M) /\ Cardinality(M) \in Nat /\ IsFiniteSet(N) /\ Cardinality(N) \in Nat
    BY <1>1, FS_Subset, FS_CardinalityType
  <1>3. M \cup {x} \in SUBSET N
    <2>1. \A z \in I : z \in Int
      BY DEF AreNumbers
    <2>2. \A z \in I : z < x => z < y
      BY <1>1, <2>1
    <2> QED BY <2>2
  <1> HIDE DEF M, N
  <1>4. Cardinality(M \cup {x}) = Cardinality(M) + 1
    BY <1>1, <1>2, FS_AddElement
  <1>5. Cardinality(M \cup {x}) <= Cardinality(N)
    BY <1>2, <1>3, FS_Subset
  <1> QED BY <1>2, <1>4, <1>5 DEF Rank, M, N

\* Every place from the first to the last is that of an element.
LEMMA NthIs ==
    ASSUME NEW I, AreNumbers(I), NEW k \in 1..Cardinality(I)
    PROVE  E!Nth(I, k) \in I /\ Rank(I, E!Nth(I, k)) = k
  <1> DEFINE n == Cardinality(I)
             f == [x \in I |-> Rank(I, x)]
  <1>1. IsFiniteSet(I) /\ n \in Nat
    BY FS_CardinalityType DEF AreNumbers
  <1>2. f \in [I -> 1..n]
    BY RankIs
  <1>3. \A x, y \in I : f[x] = f[y] => x = y
    <2> TAKE x, y \in I
    <2>1. Rank(I, x) \in Int /\ Rank(I, y) \in Int /\ x \in Int /\ y \in Int
      <3>1. Rank(I, x) \in 1..n /\ Rank(I, y) \in 1..n
        BY RankIs
      <3> QED BY <3>1 DEF AreNumbers
    <2>2. x < y \/ y < x \/ x = y
      BY <2>1
    <2> QED BY <2>1, <2>2, RankGrows
  <1> HIDE DEF f
  <1>4. f \in Injection(I, 1..n)
    BY <1>2, <1>3 DEF Injection, IsInjective
  <1>5. IsFiniteSet(1..n) /\ Cardinality(1..n) = n
    BY <1>1, FS_Interval
  <1>6. f \in Surjection(I, 1..n)
    BY <1>4, <1>5, FS_Injection
  <1>7. PICK x \in I : f[x] = k
    BY <1>6 DEF Surjection
  <1>8. Rank(I, x) = k
    BY <1>7 DEF f
  <1>9. \E y \in I : Cardinality({z \in I : z < y}) = k - 1
    <2> DEFINE M == {z \in I : z < x}
    <2>1. M \in SUBSET I
      OBVIOUS
    <2>2. Cardinality(M) \in Nat
      BY <1>1, <2>1, FS_Subset, FS_CardinalityType
    <2>3. Cardinality(M) + 1 = k
      BY <1>8 DEF Rank
    <2>4. Cardinality(M) = k - 1
      <3> HIDE DEF M
      <3> QED BY <2>2, <2>3
    <2> QED BY <2>4
  <1>10. E!Nth(I, k) \in I /\ Cardinality({z \in I : z < E!Nth(I, k)}) = k - 1
    BY <1>9 DEF E!Nth, E!Cardinality, Cardinality
  <1> QED BY <1>10 DEF Rank

LEMMA NthOfRank ==
    ASSUME NEW I, AreNumbers(I), NEW x \in I
    PROVE  E!Nth(I, Rank(I, x)) = x
  <1> DEFINE y == E!Nth(I, Rank(I, x))
  <1>1. y \in I /\ Rank(I, y) = Rank(I, x) /\ Rank(I, x) \in Int
    BY RankIs, NthIs
  <1> HIDE DEF y
  <1>2. x < y \/ y < x \/ x = y
    BY <1>1 DEF AreNumbers
  <1>3. x = y
    BY <1>1, <1>2, RankGrows
  <1> QED BY <1>3 DEF y

LEMMA NthGrows ==
    ASSUME NEW I, AreNumbers(I), NEW k \in 1..Cardinality(I), NEW l \in 1..Cardinality(I)
    PROVE  k < l <=> E!Nth(I, k) < E!Nth(I, l)
  <1> DEFINE x == E!Nth(I, k)
             y == E!Nth(I, l)
  <1>1. x \in I /\ y \in I /\ Rank(I, x) = k /\ Rank(I, y) = l
    BY NthIs
  <1> HIDE DEF x, y
  <1>2. x \in Int /\ y \in Int
    BY <1>1 DEF AreNumbers
  <1>3. x < y \/ y < x \/ x = y
    BY <1>2
  <1>4. x < y <=> k < l
    BY <1>1, <1>2, <1>3, RankGrows
  <1> QED BY <1>4 DEF x, y

LEMMA KeptIs ==
    ASSUME NEW a, NEW I, AreNumbers(I)
    PROVE  /\ Len(E!Kept(a, I)) = Cardinality(I) /\ DOMAIN E!Kept(a, I) = 1..Cardinality(I)
           /\ Cardinality(I) \in Nat
           /\ \A k \in 1..Cardinality(I) : E!Kept(a, I)[k] = a[E!Nth(I, k)]
  <1>1. Cardinality(I) \in Nat
    BY FS_CardinalityType DEF AreNumbers
  <1>2. E!Kept(a, I) = [k \in 1..Cardinality(I) |-> a[E!Nth(I, k)]]
    BY DEF E!Kept, E!Cardinality, Cardinality
  <1> QED BY <1>1, <1>2

-----------------------------------------------------------------------------
(* How often an element occurs *)

\* g takes the elements of I to those of J, one to one.
Pairs(I, J, g) ==
    /\ g \in [I -> J]
    /\ \A x, y \in I : g[x] = g[y] => x = y
    /\ \A y \in J : \E x \in I : g[x] = y

Follows(f, I, h, g) == \A x \in I : f[x] = h[g[x]]
Found(f, I, e) == {x \in I : f[x] = e}

LEMMA PairsAreAsMany ==
    ASSUME NEW I, IsFiniteSet(I), NEW J, NEW g, Pairs(I, J, g)
    PROVE  IsFiniteSet(J) /\ Cardinality(J) = Cardinality(I)
  <1>1. g \in Bijection(I, J)
    BY DEF Pairs, Bijection, Injection, Surjection, IsInjective
  <1>2. ExistsBijection(I, J)
    BY <1>1 DEF ExistsBijection
  <1> QED BY <1>2, FS_Bijection

\* Arrays that agree along a pairing of their places have equally many of everything.
LEMMA PairsOccurAsOften ==
    ASSUME NEW I, IsFiniteSet(I), NEW J, NEW g, Pairs(I, J, g),
           NEW f, NEW h, Follows(f, I, h, g), NEW e
    PROVE  Cardinality(Found(f, I, e)) = Cardinality(Found(h, J, e))
  <1> DEFINE K == {x \in I : f[x] = e}
             M == {y \in J : h[y] = e}
             k == [x \in K |-> g[x]]
  <1>1. K \in SUBSET I
    OBVIOUS
  <1>2. Pairs(K, M, k)
    <2>1. k \in [K -> M]
      BY DEF Pairs, Follows
    <2>2. \A x, y \in K : k[x] = k[y] => x = y
      BY DEF Pairs
    <2>3. ASSUME NEW y \in M PROVE \E x \in K : k[x] = y
      <3>1. PICK x \in I : g[x] = y
        BY DEF Pairs
      <3>2. x \in K
        BY <3>1 DEF Follows
      <3> QED BY <3>1, <3>2
    <2> HIDE DEF K, M, k
    <2> QED BY <2>1, <2>2, <2>3 DEF Pairs
  <1> HIDE DEF K, M, k
  <1>3. IsFiniteSet(K)
    BY <1>1, FS_Subset
  <1>4. Cardinality(M) = Cardinality(K)
    BY <1>2, <1>3, PairsAreAsMany
  <1> QED BY <1>4 DEF K, M, Found

\* What is kept of an array has as many of an element as it has at those places.
LEMMA KeptOccur ==
    ASSUME NEW a, NEW I, AreNumbers(I), NEW e
    PROVE  E!Times(e, E!Kept(a, I)) = Cardinality(Found(a, I, e))
  <1> DEFINE n == Cardinality(I)
             g == [k \in 1..n |-> E!Nth(I, k)]
             f == E!Kept(a, I)
  <1>1. n \in Nat /\ DOMAIN f = 1..n /\ \A k \in 1..n : f[k] = a[E!Nth(I, k)]
    BY KeptIs
  <1>2. IsFiniteSet(1..n)
    BY <1>1, FS_Interval
  <1>3. Pairs(1..n, I, g)
    <2>1. g \in [1..n -> I]
      BY NthIs
    <2>2. \A k, l \in 1..n : g[k] = g[l] => k = l
      <3> TAKE k, l \in 1..n
      <3>1. Rank(I, E!Nth(I, k)) = k /\ Rank(I, E!Nth(I, l)) = l
        BY NthIs
      <3> QED BY <3>1
    <2>3. ASSUME NEW x \in I PROVE \E k \in 1..n : g[k] = x
      <3>1. Rank(I, x) \in 1..n /\ E!Nth(I, Rank(I, x)) = x
        BY RankIs, NthOfRank
      <3> QED BY <3>1
    <2> HIDE DEF g, n
    <2> QED BY <2>1, <2>2, <2>3 DEF Pairs
  <1>4. Follows(f, 1..n, a, g)
    BY <1>1 DEF Follows
  <1> HIDE DEF f, g, n
  <1>5. Cardinality(Found(f, 1..n, e)) = Cardinality(Found(a, I, e))
    BY <1>2, <1>3, <1>4, PairsOccurAsOften
  <1>6. E!Times(e, f) = Cardinality(Found(f, 1..n, e))
    BY <1>1 DEF E!Times, E!Cardinality, Cardinality, Found
  <1> QED BY <1>5, <1>6 DEF f

\* Of two sequences after each other, the occurrences add up.
LEMMA BothOccur ==
    ASSUME NEW K, NEW s \in Seq(K), NEW t \in Seq(K), NEW e
    PROVE  /\ E!Times(e, s \o t) = E!Times(e, s) + E!Times(e, t)
           /\ Len(s \o t) = Len(s) + Len(t)
  <1> DEFINE m == Len(s)
             n == Len(t)
             u == s \o t
             I == {i \in 1..m : s[i] = e}
             J == {i \in 1..n : t[i] = e}
             V == {i \in (m + 1)..(m + n) : u[i] = e}
  <1>1. /\ m \in Nat /\ n \in Nat /\ DOMAIN s = 1..m /\ DOMAIN t = 1..n
        /\ Len(u) = m + n /\ DOMAIN u = 1..(m + n)
        /\ \A i \in 1..m : u[i] = s[i]
        /\ \A i \in 1..n : u[m + i] = t[i]
    OBVIOUS
  <1> HIDE DEF m, n, u
  <1>2. {i \in 1..(m + n) : u[i] = e} = I \cup V
    <2>1. \A i \in 1..(m + n) : i \in 1..m \/ i \in (m + 1)..(m + n)
      BY <1>1
    <2>2. 1..m \subseteq 1..(m + n) /\ (m + 1)..(m + n) \subseteq 1..(m + n)
      BY <1>1
    <2> QED BY <1>1, <2>1, <2>2
  <1>3. I \cap V = {}
    BY <1>1
  <1>4. IsFiniteSet(1..m) /\ IsFiniteSet(1..n) /\ IsFiniteSet((m + 1)..(m + n))
    BY <1>1, FS_Interval
  <1>5. IsFiniteSet(I) /\ IsFiniteSet(V)
    <2>1. I \in SUBSET (1..m) /\ V \in SUBSET ((m + 1)..(m + n))
      OBVIOUS
    <2> HIDE DEF I, V
    <2> QED BY <1>4, <2>1, FS_Subset
  <1>6. Cardinality(I \cup V) = Cardinality(I) + Cardinality(V)
    <2> HIDE DEF I, V
    <2>1. Cardinality(I \cup V) = Cardinality(I) + Cardinality(V) - Cardinality(I \cap V)
      BY <1>5, FS_Union
    <2>2. Cardinality(I \cap V) = 0 /\ Cardinality(I) \in Nat /\ Cardinality(V) \in Nat
      BY <1>3, <1>5, FS_EmptySet, FS_CardinalityType
    <2> QED BY <2>1, <2>2
  <1>7. Cardinality(J) = Cardinality(V)
    <2> DEFINE g == [i \in 1..n |-> m + i]
               W == (m + 1)..(m + n)
    <2>1. Pairs(1..n, W, g)
      <3>1. g \in [1..n -> W] /\ \A i, j \in 1..n : g[i] = g[j] => i = j
        BY <1>1
      <3>2. ASSUME NEW y \in W PROVE \E i \in 1..n : g[i] = y
        <4>1. y - m \in 1..n /\ m + (y - m) = y
          BY <1>1
        <4> QED BY <4>1
      <3> HIDE DEF g, W
      <3> QED BY <3>1, <3>2 DEF Pairs
    <2>2. Follows(t, 1..n, u, g)
      BY <1>1 DEF Follows
    <2> HIDE DEF g, W
    <2>3. Cardinality(Found(t, 1..n, e)) = Cardinality(Found(u, W, e))
      BY <1>4, <2>1, <2>2, PairsOccurAsOften
    <2> QED BY <2>3 DEF W, Found
  <1>8. /\ E!Times(e, u) = Cardinality(I \cup V)
        /\ E!Times(e, s) = Cardinality(I) /\ E!Times(e, t) = Cardinality(J)
    <2> HIDE DEF V
    <2>1. E!Times(e, u) = Cardinality(I \cup V)
      <3> DEFINE X == {i \in 1..(m + n) : u[i] = e}
      <3>1. E!Times(e, u) = Cardinality(X)
        BY <1>1 DEF E!Times, E!Cardinality, Cardinality
      <3>2. X = I \cup V
        BY <1>2
      <3> HIDE DEF X, I
      <3> QED BY <3>1, <3>2
    <2>2. E!Times(e, s) = Cardinality(I)
      BY <1>1 DEF E!Times, E!Cardinality, Cardinality
    <2>3. E!Times(e, t) = Cardinality(J)
      BY <1>1 DEF E!Times, E!Cardinality, Cardinality
    <2> QED BY <2>1, <2>2, <2>3
  <1> QED BY <1>1, <1>6, <1>7, <1>8 DEF u, m, n

LEMMA KeptIsSeq ==
    ASSUME NEW a, NEW I, AreNumbers(I)
    PROVE  E!Kept(a, I) \in Seq({a[x] : x \in I})
  <1> DEFINE K == {a[x] : x \in I}
             n == Cardinality(I)
  <1>1. E!Kept(a, I) = [k \in 1..n |-> a[E!Nth(I, k)]] /\ n \in Nat
    BY KeptIs DEF E!Kept, E!Cardinality, Cardinality
  <1>2. \A k \in 1..n : a[E!Nth(I, k)] \in K
    BY NthIs
  <1> HIDE DEF K, n
  <1>3. [k \in 1..n |-> a[E!Nth(I, k)]] \in Seq(K)
    BY <1>1, <1>2
  <1> QED BY <1>1, <1>3 DEF K

-----------------------------------------------------------------------------
(* The logs of the calls *)

\* The first log of every call is a transfer between these two.
Sender(c) ==
    CASE c.kind = "mint" -> E!zeroAddress [] c.kind = "withdraw" -> E!Portal [] OTHER -> c.from
Recipient(c) ==
    CASE c.kind \in {"send", "mint"} -> c.to
      [] c.kind = "burn" -> E!zeroAddress
      [] c.kind = "deposit" -> E!Portal
      [] c.kind = "withdraw" -> c.from
      [] c.kind = "block" -> E!RECEIVE_POLICY_GUARD
      [] c.kind = "topUp" -> E!STREAM_CHANNEL
      [] OTHER -> E!STABLECOIN_EXCHANGE

Moved(c) == E!Log("Transfer", c.token, Sender(c), Recipient(c), c.token, c.amount)
Noted(c) == E!Log("TransferWithMemo", c.token, Sender(c), Recipient(c), c.token, c.amount)

\* The last log of a call that is more than a transfer
Owning(c) == c.kind \notin {"send", "place"}
Own(c) ==
    CASE c.kind = "mint" -> E!Log("Mint", c.token, c.from, c.to, c.token, c.amount)
      [] c.kind = "burn" -> E!Log("Burn", c.token, c.from, c.to, c.token, c.amount)
      [] c.kind = "deposit" ->
            E!Log("DepositMade", E!Portal, c.from, E!Portal, c.token, c.amount - E!Fee)
      [] c.kind = "withdraw" ->
            E!Log("WithdrawalProcessed", E!Portal, E!Portal, c.from, c.token, c.amount)
      [] c.kind = "block" -> E!Log("TransferBlocked", E!RECEIVE_POLICY_GUARD, c.from, c.to,
                                   c.token, c.amount)
      [] c.kind = "topUp" -> E!Log("TopUp", E!STREAM_CHANNEL, c.from, c.to, c.token, c.amount)
      [] OTHER -> E!Log("Transfer", E!Bought(c.token), E!STABLECOIN_EXCHANGE, c.from,
                        E!Bought(c.token), c.amount)

Size(c) == 1 + (IF c.memo THEN 1 ELSE 0) + (IF Owning(c) THEN 1 ELSE 0)

LEMMA CallIs ==
    ASSUME NEW c \in E!Calls
    PROVE  /\ c.kind \in {"send", "mint", "burn", "block", "topUp", "deposit", "withdraw", "swap",
                          "place"}
           /\ c.from \in Accounts /\ c.amount \in Nat \ {0} /\ c.memo \in BOOLEAN
           /\ c.from \notin E!KnownAddresses
           /\ c.kind \in {"send", "mint", "burn", "block", "topUp"} =>
                  c.to \in Accounts /\ c.to \notin E!KnownAddresses
           /\ c.memo => c.kind \in {"send", "mint", "burn"}
  <1>1. /\ c \in [kind : E!Kinds, from : Accounts, to : Accounts \cup {E!Nobody}, token : Tokens,
                  amount : Amounts, memo : BOOLEAN]
        /\ c.to # E!Nobody <=> c.kind \in E!OfTwo
        /\ c.memo => c.kind \in E!WithMemo
    BY DEF E!Calls
  <1>2. /\ c.kind \in E!Kinds /\ c.from \in Accounts /\ c.to \in Accounts \cup {E!Nobody}
        /\ c.amount \in Amounts /\ c.memo \in BOOLEAN
    BY <1>1
  <1>3. /\ E!OfTwo = {"send", "mint", "burn", "block", "topUp"}
        /\ E!WithMemo = {"send", "mint", "burn"}
        /\ E!Kinds = {"send", "mint", "burn", "block", "topUp", "deposit", "withdraw", "swap",
                      "place"}
    BY DEF E!OfTwo, E!WithMemo, E!Kinds
  <1>4. c.kind \in E!OfTwo => c.to \in Accounts
    BY <1>1, <1>2
  <1>5. Accounts \cap E!KnownAddresses = {} /\ Amounts \subseteq Nat \ {0}
    BY ReceiptAssumption
  <1> HIDE DEF E!Calls
  <1> QED BY <1>1, <1>2, <1>3, <1>4, <1>5

LEMMA TuplesAre ==
    ASSUME NEW a, NEW b, NEW d
    PROVE  /\ <<a>> \in Seq({a, b, d}) /\ Len(<<a>>) = 1 /\ <<a>>[1] = a
           /\ <<a, b>> \in Seq({a, b, d}) /\ Len(<<a, b>>) = 2
           /\ <<a, b>>[1] = a /\ <<a, b>>[2] = b
           /\ <<a, b, d>> \in Seq({a, b, d}) /\ Len(<<a, b, d>>) = 3
           /\ <<a, b, d>>[1] = a /\ <<a, b, d>>[2] = b /\ <<a, b, d>>[3] = d
  OBVIOUS

LEMMA Joined ==
    ASSUME NEW a, NEW b, NEW d
    PROVE  <<a>> \o <<b>> = <<a, b>> /\ <<a, b>> \o <<d>> = <<a, b, d>>
  <1> DEFINE s == <<a, b>> \o <<d>>
             t == <<a, b, d>>
             u == <<a>> \o <<b>>
             v == <<a, b>>
             X == {a, b, d}
  <1>1. /\ v \in Seq(X) /\ <<d>> \in Seq(X) /\ t \in Seq(X) /\ <<a>> \in Seq(X)
        /\ <<b>> \in Seq(X)
    OBVIOUS
  <1>2. s \in Seq(X) /\ Len(s) = 3 /\ s[1] = a /\ s[2] = b /\ s[3] = d
    BY <1>1
  <1>3. t \in Seq(X) /\ Len(t) = 3 /\ t[1] = a /\ t[2] = b /\ t[3] = d
    BY <1>1
  <1>4. u \in Seq(X) /\ Len(u) = 2 /\ u[1] = a /\ u[2] = b
    BY <1>1
  <1>5. v \in Seq(X) /\ Len(v) = 2 /\ v[1] = a /\ v[2] = b
    BY <1>1
  <1> HIDE DEF s, t, u, v, X
  <1>6. (\A i \in 1..3 : s[i] = t[i]) /\ (\A i \in 1..2 : u[i] = v[i])
    <2>1. (\A i \in 1..3 : i = 1 \/ i = 2 \/ i = 3) /\ (\A i \in 1..2 : i = 1 \/ i = 2)
      OBVIOUS
    <2> QED BY <1>2, <1>3, <1>4, <1>5, <2>1
  <1>7. s = t
    BY <1>2, <1>3, <1>6, SeqEqual
  <1>8. u = v
    BY <1>4, <1>5, <1>6, SeqEqual
  <1> QED BY <1>7, <1>8 DEF s, t, u, v

\* The logs of a call, by whether it has a memo and a log of its own
LEMMA EmittedIs ==
    ASSUME NEW c \in E!Calls
    PROVE  /\ c.memo /\ Owning(c) => E!Emitted(c) = <<Moved(c), Noted(c), Own(c)>>
           /\ c.memo /\ ~Owning(c) => E!Emitted(c) = <<Moved(c), Noted(c)>>
           /\ ~c.memo /\ Owning(c) => E!Emitted(c) = <<Moved(c), Own(c)>>
           /\ ~c.memo /\ ~Owning(c) => E!Emitted(c) = <<Moved(c)>>
  <1>1. \A f, t : [E!Transfer(c, f, t) EXCEPT !.eventName = "TransferWithMemo"]
                      = E!Log("TransferWithMemo", c.token, f, t, c.token, c.amount)
    BY DEF E!Transfer, E!Log
  <1>2. \A f, t : E!Memoed(c, f, t) =
            IF c.memo THEN <<E!Log("Transfer", c.token, f, t, c.token, c.amount),
                             E!Log("TransferWithMemo", c.token, f, t, c.token, c.amount)>>
            ELSE <<E!Log("Transfer", c.token, f, t, c.token, c.amount)>>
    BY <1>1 DEF E!Memoed, E!Transfer
  <1>3. E!Transfer([c EXCEPT !.token = E!Bought(c.token)], E!STABLECOIN_EXCHANGE, c.from)
            = E!Log("Transfer", E!Bought(c.token), E!STABLECOIN_EXCHANGE, c.from,
                    E!Bought(c.token), c.amount)
    <2>1. /\ [c EXCEPT !.token = E!Bought(c.token)].token = E!Bought(c.token)
          /\ [c EXCEPT !.token = E!Bought(c.token)].amount = c.amount
      <3>1. c \in [kind : E!Kinds, from : Accounts, to : Accounts \cup {E!Nobody}, token : Tokens,
                   amount : Amounts, memo : BOOLEAN]
        BY DEF E!Calls
      <3> QED BY <3>1
    <2> QED BY <2>1 DEF E!Transfer
  <1>4. CASE c.kind = "send"
    BY <1>2, <1>4 DEF E!Emitted, Moved, Noted, Sender, Recipient, Owning
  <1>5. CASE c.kind = "mint"
    <2>1. E!Emitted(c) = E!Memoed(c, E!zeroAddress, c.to) \o <<Own(c)>>
      BY <1>5 DEF E!Emitted, Own
    <2>2. c.memo => E!Memoed(c, E!zeroAddress, c.to) = <<Moved(c), Noted(c)>>
      BY <1>2, <1>5 DEF Moved, Noted, Sender, Recipient
    <2>3. ~c.memo => E!Memoed(c, E!zeroAddress, c.to) = <<Moved(c)>>
      BY <1>2, <1>5 DEF Moved, Noted, Sender, Recipient
    <2> QED BY <1>5, <2>1, <2>2, <2>3, Joined DEF Owning
  <1>6. CASE c.kind = "burn"
    <2>1. E!Emitted(c) = E!Memoed(c, c.from, E!zeroAddress) \o <<Own(c)>>
      BY <1>6 DEF E!Emitted, Own
    <2>2. c.memo => E!Memoed(c, c.from, E!zeroAddress) = <<Moved(c), Noted(c)>>
      BY <1>2, <1>6 DEF Moved, Noted, Sender, Recipient
    <2>3. ~c.memo => E!Memoed(c, c.from, E!zeroAddress) = <<Moved(c)>>
      BY <1>2, <1>6 DEF Moved, Noted, Sender, Recipient
    <2> QED BY <1>6, <2>1, <2>2, <2>3, Joined DEF Owning
  <1>7. CASE c.kind = "deposit"
    BY <1>7, CallIs DEF E!Emitted, E!Transfer, Moved, Own, Sender, Recipient, Owning
  <1>8. CASE c.kind = "withdraw"
    BY <1>8, CallIs DEF E!Emitted, E!Transfer, Moved, Own, Sender, Recipient, Owning
  <1>9. CASE c.kind = "block"
    BY <1>9, CallIs, Joined DEF E!Emitted, E!Transfer, Moved, Own, Sender, Recipient, Owning
  <1>10. CASE c.kind = "swap"
    BY <1>3, <1>10, CallIs DEF E!Emitted, E!Transfer, Moved, Own, Sender, Recipient, Owning
  <1>11. CASE c.kind = "place"
    BY <1>11, CallIs DEF E!Emitted, E!Transfer, Moved, Sender, Recipient, Owning
  <1>12. CASE c.kind = "topUp"
    BY <1>12, CallIs, Joined DEF E!Emitted, E!Transfer, Moved, Own, Sender, Recipient, Owning
  <1> QED BY <1>4, <1>5, <1>6, <1>7, <1>8, <1>9, <1>10, <1>11, <1>12, CallIs

LEMMA LogsAre ==
    ASSUME NEW c \in E!Calls
    PROVE  /\ Len(E!Emitted(c)) = Size(c) /\ Size(c) \in 1..3
           /\ E!Emitted(c) \in Seq({Moved(c), Noted(c), Own(c)})
           /\ E!Emitted(c)[1] = Moved(c)
           /\ c.memo => Size(c) >= 2 /\ E!Emitted(c)[2] = Noted(c)
           /\ Owning(c) => Size(c) >= 2 /\ E!Emitted(c)[Size(c)] = Own(c)
           /\ \A k \in 1..Size(c) :
                  \/ k = 1
                  \/ k = 2 /\ c.memo
                  \/ k = Size(c) /\ Owning(c)
  <1> DEFINE m == Moved(c)
             n == Noted(c)
             o == Own(c)
             l == E!Emitted(c)
             s == Size(c)
             w == Owning(c)
  <1>1. c.memo \in BOOLEAN /\ w \in BOOLEAN
    BY CallIs DEF Owning
  <1>2. /\ c.memo /\ w => l = <<m, n, o>>
        /\ c.memo /\ ~w => l = <<m, n>>
        /\ ~c.memo /\ w => l = <<m, o>>
        /\ ~c.memo /\ ~w => l = <<m>>
    BY EmittedIs
  <1>3. /\ c.memo /\ w => s = 3
        /\ c.memo /\ ~w => s = 2
        /\ ~c.memo /\ w => s = 2
        /\ ~c.memo /\ ~w => s = 1
    BY DEF Size
  <1> HIDE DEF m, n, o, l, s, w
  <1>4. CASE c.memo /\ w
    <2>1. l = <<m, n, o>> /\ s = 3
      BY <1>2, <1>3, <1>4
    <2>2. /\ <<m, n, o>> \in Seq({m, n, o}) /\ Len(<<m, n, o>>) = 3
          /\ <<m, n, o>>[1] = m /\ <<m, n, o>>[2] = n /\ <<m, n, o>>[3] = o
      BY TuplesAre
    <2> QED BY <1>4, <2>1, <2>2 DEF l, s, w, m, n, o
  <1>5. CASE c.memo /\ ~w
    <2>1. l = <<m, n>> /\ s = 2
      BY <1>2, <1>3, <1>5
    <2>2. /\ <<m, n>> \in Seq({m, n, o}) /\ Len(<<m, n>>) = 2
          /\ <<m, n>>[1] = m /\ <<m, n>>[2] = n
      BY TuplesAre
    <2> QED BY <1>5, <2>1, <2>2 DEF l, s, w, m, n, o
  <1>6. CASE ~c.memo /\ w
    <2>1. l = <<m, o>> /\ s = 2
      BY <1>2, <1>3, <1>6
    <2>2. /\ <<m, o>> \in Seq({m, n, o}) /\ Len(<<m, o>>) = 2
          /\ <<m, o>>[1] = m /\ <<m, o>>[2] = o
      OBVIOUS
    <2> QED BY <1>6, <2>1, <2>2 DEF l, s, w, m, n, o
  <1>7. CASE ~c.memo /\ ~w
    <2>1. l = <<m>> /\ s = 1
      BY <1>2, <1>3, <1>7
    <2>2. /\ <<m>> \in Seq({m, n, o}) /\ Len(<<m>>) = 1 /\ <<m>>[1] = m
      BY TuplesAre
    <2> QED BY <1>7, <2>1, <2>2 DEF l, s, w, m, n, o
  <1> QED BY <1>1, <1>4, <1>5, <1>6, <1>7

-----------------------------------------------------------------------------
(* Where the logs of a call are in a receipt *)

\* The logs of the i-th call are those after offset[i].
Laid(cs, ls, offset) ==
    /\ offset \in [1..Len(cs) -> Nat]
    /\ \A i \in 1..Len(cs) : offset[i] + Size(cs[i]) <= Len(ls)
    /\ \A i, j \in 1..Len(cs) : i < j => offset[i] + Size(cs[i]) <= offset[j]
    /\ \A i \in 1..Len(cs) : \A k \in 1..Size(cs[i]) : ls[offset[i] + k] = E!Emitted(cs[i])[k]
    /\ \A x \in 1..Len(ls) : \E i \in 1..Len(cs) : \E k \in 1..Size(cs[i]) : x = offset[i] + k

LEMMA LaidFirst == Laid(<<>>, <<>>, [i \in 1..0 |-> 0])
  BY DEF Laid

\* The logs of one more call come after all others.
LEMMA LaidNext ==
    ASSUME NEW cs \in Seq(E!Calls), NEW X, NEW ls \in Seq(X), NEW offset, Laid(cs, ls, offset),
           NEW c \in E!Calls
    PROVE  Laid(Append(cs, c), ls \o E!Emitted(c),
                [i \in 1..(Len(cs) + 1) |-> IF i <= Len(cs) THEN offset[i] ELSE Len(ls)])
  <1> DEFINE n == Len(cs)
             m == Len(ls)
             t == [i \in 1..(n + 1) |-> IF i <= n THEN offset[i] ELSE m]
             ds == Append(cs, c)
             e == E!Emitted(c)
             us == ls \o e
             s == Size(c)
  <1>0. s \in 1..3 /\ Len(e) = s /\ e \in Seq({Moved(c), Noted(c), Own(c)})
    BY LogsAre
  <1>1. n \in Nat /\ m \in Nat /\ s \in 1..3 /\ Len(e) = s
    BY <1>0
  <1>2. Len(ds) = n + 1 /\ ds[n + 1] = c /\ \A i \in 1..n : ds[i] = cs[i]
    OBVIOUS
  <1>3. Len(us) = m + s /\ (\A x \in 1..m : us[x] = ls[x]) /\ (\A k \in 1..s : us[m + k] = e[k])
    <2> DEFINE Y == X \cup {Moved(c), Noted(c), Own(c)}
    <2> HIDE DEF e, s
    <2>1. ls \in Seq(Y) /\ e \in Seq(Y)
      BY <1>0
    <2> HIDE DEF Y
    <2> QED BY <1>1, <2>1
  <1>4. /\ offset \in [1..n -> Nat]
        /\ \A i \in 1..n : offset[i] + Size(cs[i]) <= m
        /\ \A i, j \in 1..n : i < j => offset[i] + Size(cs[i]) <= offset[j]
        /\ \A i \in 1..n : \A k \in 1..Size(cs[i]) : ls[offset[i] + k] = E!Emitted(cs[i])[k]
        /\ \A x \in 1..m : \E i \in 1..n : \E k \in 1..Size(cs[i]) : x = offset[i] + k
    BY DEF Laid
  <1>5. /\ t \in [1..(n + 1) -> Nat] /\ t[n + 1] = m /\ \A i \in 1..n : t[i] = offset[i]
    BY <1>1, <1>4
  <1>6. \A i \in 1..n : Size(cs[i]) \in 1..3
    <2>1. ASSUME NEW i \in 1..n PROVE Size(cs[i]) \in 1..3
      <3>1. cs[i] \in E!Calls
        BY <1>1
      <3> QED BY <3>1, LogsAre
    <2> QED BY <2>1
  <1> HIDE DEF n, m, t, ds, e, us, s
  <1>7. \A i \in 1..(n + 1) : i \in 1..n \/ i = n + 1
    BY <1>1
  <1>8. \A i \in 1..(n + 1) : t[i] + Size(ds[i]) <= m + s
    <2>1. ASSUME NEW i \in 1..n PROVE t[i] + Size(ds[i]) <= m + s
      <3>1. ds[i] = cs[i] /\ t[i] = offset[i] /\ offset[i] \in Nat /\ Size(cs[i]) \in 1..3
        BY <1>2, <1>4, <1>5, <1>6
      <3>2. offset[i] + Size(cs[i]) <= m
        BY <1>4
      <3> QED BY <1>1, <3>1, <3>2
    <2>2. t[n + 1] + Size(ds[n + 1]) <= m + s
      BY <1>1, <1>2, <1>5 DEF s
    <2> QED BY <1>7, <2>1, <2>2
  <1>9. \A i, j \in 1..(n + 1) : i < j => t[i] + Size(ds[i]) <= t[j]
    <2>1. ASSUME NEW i \in 1..(n + 1), NEW j \in 1..(n + 1), i < j
          PROVE  t[i] + Size(ds[i]) <= t[j]
      <3>1. i \in 1..n
        BY <1>1, <2>1
      <3>2. CASE j \in 1..n
        BY <1>1, <1>2, <1>4, <1>5, <2>1, <3>1, <3>2
      <3>3. CASE j = n + 1
        BY <1>1, <1>2, <1>4, <1>5, <3>1, <3>3
      <3> QED BY <1>7, <3>2, <3>3
    <2> QED BY <2>1
  <1>10. \A i \in 1..(n + 1) : \A k \in 1..Size(ds[i]) : us[t[i] + k] = E!Emitted(ds[i])[k]
    <2>1. ASSUME NEW i \in 1..n, NEW k \in 1..Size(ds[i])
          PROVE  us[t[i] + k] = E!Emitted(ds[i])[k]
      <3>1. /\ ds[i] = cs[i] /\ t[i] = offset[i] /\ offset[i] \in Nat /\ Size(cs[i]) \in 1..3
            /\ offset[i] + Size(cs[i]) <= m
        BY <1>2, <1>4, <1>5, <1>6
      <3>2. offset[i] + k \in 1..m
        BY <1>1, <3>1
      <3> QED BY <1>3, <1>4, <3>1, <3>2
    <2>2. ASSUME NEW k \in 1..Size(ds[n + 1])
          PROVE  us[t[n + 1] + k] = E!Emitted(ds[n + 1])[k]
      BY <1>2, <1>3, <1>5 DEF s, e
    <2> QED BY <1>7, <2>1, <2>2
  <1>11. \A x \in 1..(m + s) : \E i \in 1..(n + 1) : \E k \in 1..Size(ds[i]) : x = t[i] + k
    <2>1. ASSUME NEW x \in 1..m
          PROVE  \E i \in 1..(n + 1) : \E k \in 1..Size(ds[i]) : x = t[i] + k
      <3>1. PICK i \in 1..n : \E k \in 1..Size(cs[i]) : x = offset[i] + k
        BY <1>4
      <3>2. i \in 1..(n + 1)
        BY <1>1
      <3> QED BY <1>2, <1>5, <3>1, <3>2
    <2>2. ASSUME NEW x \in (m + 1)..(m + s)
          PROVE  \E i \in 1..(n + 1) : \E k \in 1..Size(ds[i]) : x = t[i] + k
      <3>1. x - m \in 1..s /\ x = m + (x - m) /\ n + 1 \in 1..(n + 1)
        BY <1>1
      <3> QED BY <1>2, <1>5, <3>1 DEF s
    <2>3. \A x \in 1..(m + s) : x \in 1..m \/ x \in (m + 1)..(m + s)
      BY <1>1
    <2> QED BY <2>1, <2>2, <2>3
  <1>12. Laid(ds, us, t)
    <2>1. /\ t \in [1..Len(ds) -> Nat]
          /\ \A i \in 1..Len(ds) : t[i] + Size(ds[i]) <= Len(us)
          /\ \A i, j \in 1..Len(ds) : i < j => t[i] + Size(ds[i]) <= t[j]
          /\ \A i \in 1..Len(ds) : \A k \in 1..Size(ds[i]) : us[t[i] + k] = E!Emitted(ds[i])[k]
          /\ \A x \in 1..Len(us) : \E i \in 1..Len(ds) : \E k \in 1..Size(ds[i]) : x = t[i] + k
      BY <1>2, <1>3, <1>5, <1>8, <1>9, <1>10, <1>11
    <2> QED BY Zenon, <2>1 DEF Laid
  <1> QED BY Zenon, <1>12 DEF t, us, ds, e, n, m

\* A call emits at most three logs, after those of the calls before it.
ReceiptInv ==
    /\ made \in Seq(E!Calls) /\ Len(made) <= MaxReceiptCalls
    /\ \E Any : emitted \in Seq(Any)
    /\ Len(emitted) <= 3 * Len(made)
    /\ \E offset : Laid(made, emitted, offset)

LEMMA ReceiptAlways == AllSpec => []ReceiptInv
  <1>1. AllInit => ReceiptInv
    <2> SUFFICES ASSUME made = <<>>, emitted = <<>> PROVE ReceiptInv
      BY DEF AllInit, E!Init
    <2>1. <<>> \in Seq(E!Calls) /\ Len(<<>>) = 0
      OBVIOUS
    <2> QED BY <2>1, LaidFirst, ReceiptAssumption DEF ReceiptInv
  <1>2. ReceiptInv /\ [AllNext]_allVars => ReceiptInv'
    <2>1. [AllNext]_allVars => [E!Next]_(E!vars)
      BY Zenon DEF AllNext, allVars, partVars, receiptVars, E!vars
    <2>2. ASSUME ReceiptInv, NEW c \in E!Calls, E!Make(c) PROVE ReceiptInv'
      <3>1. PICK X : emitted \in Seq(X)
        BY <2>2 DEF ReceiptInv
      <3>2. PICK offset : Laid(made, emitted, offset)
        BY <2>2 DEF ReceiptInv
      <3>3. E!Emitted(c) \in Seq({Moved(c), Noted(c), Own(c)}) /\ Len(E!Emitted(c)) <= 3
        BY <2>2, LogsAre
      <3> DEFINE Y == {Moved(c), Noted(c), Own(c)}
                 Z == X \cup Y
                 e == E!Emitted(c)
      <3> HIDE DEF Y, e
      <3>4. /\ made' = Append(made, c) /\ emitted' = emitted \o e
            /\ Len(made) < MaxReceiptCalls
        BY <2>2 DEF E!Make, e
      <3>5. made \in Seq(E!Calls) /\ made' \in Seq(E!Calls) /\ Len(made') = Len(made) + 1
        BY <2>2, <3>4 DEF ReceiptInv
      <3>6. emitted \in Seq(Z) /\ e \in Seq(Z)
        BY <3>1, <3>3 DEF Y, e
      <3> HIDE DEF Z
      <3>7. emitted' \in Seq(Z) /\ Len(emitted') = Len(emitted) + Len(e)
        BY <3>4, <3>6
      <3>8. Len(emitted) \in Nat /\ Len(e) \in Nat /\ Len(made) \in Nat
        BY <3>1, <3>5, <3>6
      <3>9. Len(emitted') <= 3 * Len(made')
        BY <2>2, <3>3, <3>5, <3>7, <3>8 DEF ReceiptInv, e
      <3>10. Len(made') <= MaxReceiptCalls
        BY <3>4, <3>5, <3>8, ReceiptAssumption
      <3>11. \E t : Laid(made', emitted', t)
        <4>1. Laid(Append(made, c), emitted \o E!Emitted(c),
                   [i \in 1..(Len(made) + 1) |->
                        IF i <= Len(made) THEN offset[i] ELSE Len(emitted)])
          BY <2>2, <3>1, <3>2, <3>5, LaidNext
        <4> QED BY Zenon, <3>4, <4>1 DEF e
      <3> QED BY Zenon, <3>5, <3>7, <3>9, <3>10, <3>11 DEF ReceiptInv
    <2>3. ASSUME ReceiptInv, UNCHANGED E!vars PROVE ReceiptInv'
      BY <2>3 DEF ReceiptInv, E!vars
    <2> QED BY <2>1, <2>2, <2>3 DEF E!Next
  <1> QED BY <1>1, <1>2, PTL DEF AllSpec

-----------------------------------------------------------------------------
(* Which logs there are of a name *)

LogOf(c, e) == e = Moved(c) \/ (c.memo /\ e = Noted(c)) \/ (Owning(c) /\ e = Own(c))

LEMMA LogsOf ==
    ASSUME NEW c \in E!Calls, NEW e
    PROVE  LogOf(c, e) <=> \E k \in 1..Size(c) : e = E!Emitted(c)[k]
  <1> DEFINE l == E!Emitted(c)
             s == Size(c)
             w == Owning(c)
  <1>1. /\ s \in 1..3 /\ l[1] = Moved(c)
        /\ c.memo => s >= 2 /\ l[2] = Noted(c)
        /\ w => s >= 2 /\ l[s] = Own(c)
        /\ \A k \in 1..s : k = 1 \/ (k = 2 /\ c.memo) \/ (k = s /\ w)
    BY LogsAre
  <1> HIDE DEF l, s, w
  <1>2. 1 \in 1..s /\ (s >= 2 => 2 \in 1..s) /\ s \in 1..s
    BY <1>1
  <1>3. (e = Moved(c) \/ (c.memo /\ e = Noted(c)) \/ (w /\ e = Own(c)))
            <=> \E k \in 1..s : e = l[k]
    BY <1>1, <1>2
  <1> QED BY <1>3 DEF LogOf, l, s, w

LEMMA NamesAre ==
    ASSUME NEW c \in E!Calls
    PROVE  /\ Moved(c).eventName = "Transfer"
           /\ Noted(c).eventName = "TransferWithMemo"
           /\ Own(c).eventName =
                  (CASE c.kind = "mint" -> "Mint" [] c.kind = "burn" -> "Burn"
                     [] c.kind = "deposit" -> "DepositMade"
                     [] c.kind = "withdraw" -> "WithdrawalProcessed"
                     [] c.kind = "block" -> "TransferBlocked" [] c.kind = "topUp" -> "TopUp"
                     [] OTHER -> "Transfer")
  <1>1. Moved(c).eventName = "Transfer" /\ Noted(c).eventName = "TransferWithMemo"
    BY DEF Moved, Noted, E!Log
  <1>2. \A n, a, f, t, k, m : E!Log(n, a, f, t, k, m).eventName = n
    BY DEF E!Log
  <1> QED BY <1>1, <1>2 DEF Own

\* The logs of a receipt are those of the calls in D and of the fee.
Emits(D, events) ==
    /\ D \subseteq E!Calls
    /\ \A e : e \in E!ToSet(events) <=> (e = E!FeeLog \/ \E c \in D : LogOf(c, e))

\* A log that is not called a transfer is of one kind of call.
LEMMA NamedAre ==
    ASSUME NEW D, NEW events, Emits(D, events), NEW e
    PROVE  /\ e \in E!Named(events, {"TransferWithMemo"}) <=> \E c \in D : c.memo /\ e = Noted(c)
           /\ e \in E!Named(events, {"Mint"}) <=> \E c \in D : c.kind = "mint" /\ e = Own(c)
           /\ e \in E!Named(events, {"Burn"}) <=> \E c \in D : c.kind = "burn" /\ e = Own(c)
           /\ e \in E!Named(events, {"DepositMade"})
                  <=> \E c \in D : c.kind = "deposit" /\ e = Own(c)
           /\ e \in E!Named(events, {"WithdrawalProcessed"})
                  <=> \E c \in D : c.kind = "withdraw" /\ e = Own(c)
           /\ e \in E!Named(events, {"TransferBlocked"})
                  <=> \E c \in D : c.kind = "block" /\ e = Own(c)
           /\ e \in E!Named(events, {"DepositMade", "WithdrawalProcessed"})
                  <=> \E c \in D : c.kind \in {"deposit", "withdraw"} /\ e = Own(c)
  <1> DEFINE Is(c) == LogOf(c, e)
  <1>1. \A names : e \in E!Named(events, names)
                       <=> e.eventName \in names /\ (e = E!FeeLog \/ \E c \in D : LogOf(c, e))
    BY DEF E!Named, Emits
  <1>2. E!FeeLog.eventName = "Transfer"
    BY DEF E!FeeLog, E!Log
  <1>3. ASSUME NEW c \in D
        PROVE  /\ LogOf(c, e) /\ e.eventName = "TransferWithMemo" => c.memo /\ e = Noted(c)
               /\ LogOf(c, e) /\ e.eventName = "Mint" => c.kind = "mint" /\ e = Own(c)
               /\ LogOf(c, e) /\ e.eventName = "Burn" => c.kind = "burn" /\ e = Own(c)
               /\ LogOf(c, e) /\ e.eventName = "DepositMade" => c.kind = "deposit" /\ e = Own(c)
               /\ LogOf(c, e) /\ e.eventName = "WithdrawalProcessed"
                      => c.kind = "withdraw" /\ e = Own(c)
               /\ LogOf(c, e) /\ e.eventName = "TransferBlocked" => c.kind = "block" /\ e = Own(c)
               /\ c.memo /\ e = Noted(c) => LogOf(c, e) /\ e.eventName = "TransferWithMemo"
               /\ c.kind = "mint" /\ e = Own(c) => LogOf(c, e) /\ e.eventName = "Mint"
               /\ c.kind = "burn" /\ e = Own(c) => LogOf(c, e) /\ e.eventName = "Burn"
               /\ c.kind = "deposit" /\ e = Own(c) => LogOf(c, e) /\ e.eventName = "DepositMade"
               /\ c.kind = "withdraw" /\ e = Own(c)
                      => LogOf(c, e) /\ e.eventName = "WithdrawalProcessed"
               /\ c.kind = "block" /\ e = Own(c) => LogOf(c, e) /\ e.eventName = "TransferBlocked"
    <2>1. c \in E!Calls
      BY <1>3 DEF Emits
    <2>2. /\ Moved(c).eventName = "Transfer"
          /\ Noted(c).eventName = "TransferWithMemo"
          /\ Own(c).eventName =
                  (CASE c.kind = "mint" -> "Mint" [] c.kind = "burn" -> "Burn"
                     [] c.kind = "deposit" -> "DepositMade"
                     [] c.kind = "withdraw" -> "WithdrawalProcessed"
                     [] c.kind = "block" -> "TransferBlocked" [] c.kind = "topUp" -> "TopUp"
                     [] OTHER -> "Transfer")
      BY <2>1, NamesAre
    <2>3. Owning(c) <=> c.kind \notin {"send", "place"}
      BY DEF Owning
    <2>4. LogOf(c, e) <=> e = Moved(c) \/ (c.memo /\ e = Noted(c)) \/ (Owning(c) /\ e = Own(c))
      BY DEF LogOf
    <2>5. CASE c.kind = "mint"
      BY <2>2, <2>3, <2>4, <2>5
    <2>6. CASE c.kind = "burn"
      BY <2>2, <2>3, <2>4, <2>6
    <2>7. CASE c.kind = "deposit"
      BY <2>2, <2>3, <2>4, <2>7
    <2>8. CASE c.kind = "withdraw"
      BY <2>2, <2>3, <2>4, <2>8
    <2>9. CASE c.kind = "block"
      BY <2>2, <2>3, <2>4, <2>9
    <2>10. CASE c.kind = "topUp"
      BY <2>2, <2>3, <2>4, <2>10
    <2>11. CASE c.kind \notin {"mint", "burn", "deposit", "withdraw", "block", "topUp"}
      BY <2>2, <2>3, <2>4, <2>11
    <2> QED BY <2>5, <2>6, <2>7, <2>8, <2>9, <2>10, <2>11
  <1>4. \A c \in D : c.kind \in {"deposit", "withdraw"} <=> c.kind = "deposit" \/ c.kind = "withdraw"
    OBVIOUS
  <1>5. e \in E!Named(events, {"TransferWithMemo"}) <=> \E c \in D : c.memo /\ e = Noted(c)
    BY <1>1, <1>2, <1>3
  <1>6. e \in E!Named(events, {"Mint"}) <=> \E c \in D : c.kind = "mint" /\ e = Own(c)
    BY <1>1, <1>2, <1>3
  <1>7. e \in E!Named(events, {"Burn"}) <=> \E c \in D : c.kind = "burn" /\ e = Own(c)
    BY <1>1, <1>2, <1>3
  <1>8. e \in E!Named(events, {"DepositMade"}) <=> \E c \in D : c.kind = "deposit" /\ e = Own(c)
    BY <1>1, <1>2, <1>3
  <1>9. e \in E!Named(events, {"WithdrawalProcessed"})
            <=> \E c \in D : c.kind = "withdraw" /\ e = Own(c)
    BY <1>1, <1>2, <1>3
  <1>10. e \in E!Named(events, {"TransferBlocked"}) <=> \E c \in D : c.kind = "block" /\ e = Own(c)
    BY <1>1, <1>2, <1>3
  <1>11. e \in E!Named(events, {"DepositMade", "WithdrawalProcessed"})
             <=> e \in E!Named(events, {"DepositMade"}) \/ e \in E!Named(events, {"WithdrawalProcessed"})
    BY <1>1
  <1> QED BY <1>5, <1>6, <1>7, <1>8, <1>9, <1>10, <1>11

LEMMA PortalsAre ==
    ASSUME NEW D, NEW events, Emits(D, events), NEW t
    PROVE  t \in E!zonePortals(events)
               <=> t = E!Portal /\ \E c \in D : c.kind \in {"deposit", "withdraw"}
  <1>1. \A n, ad, fr, to, k, am : E!Log(n, ad, fr, to, k, am).address = ad
    BY DEF E!Log
  <1>2. \A c : c.kind \in {"deposit", "withdraw"} => Own(c).address = E!Portal
    BY <1>1 DEF Own
  <1>3. \A e : e \in E!Named(events, {"DepositMade", "WithdrawalProcessed"})
                   <=> \E c \in D : c.kind \in {"deposit", "withdraw"} /\ e = Own(c)
    BY NamedAre
  <1> QED BY <1>2, <1>3 DEF E!zonePortals

\* The keys of what is preferred are the calls of its kind: in particular, what
\* the fee took from a deposit is added again.
LEMMA PreferredAre ==
    ASSUME NEW D, NEW events, Emits(D, events), NEW f, NEW t, NEW a, NEW m
    PROVE  /\ <<f, t>> \in E!Preferred(events).memo
                  <=> \E c \in D : c.memo /\ Sender(c) = f /\ Recipient(c) = t
           /\ <<a, m, t>> \in E!Preferred(events).mint
                  <=> \E c \in D : c.kind = "mint" /\ c.token = a /\ c.amount = m /\ c.to = t
           /\ <<a, m, f>> \in E!Preferred(events).burn
                  <=> \E c \in D : c.kind = "burn" /\ c.token = a /\ c.amount = m /\ c.from = f
           /\ <<f, t, a, m>> \in E!Preferred(events).deposit
                  <=> \E c \in D : /\ c.kind = "deposit" /\ c.from = f /\ t = E!Portal
                                   /\ c.token = a /\ c.amount = m
           /\ <<f, t, a, m>> \in E!Preferred(events).withdraw
                  <=> \E c \in D : /\ c.kind = "withdraw" /\ f = E!Portal /\ c.from = t
                                   /\ c.token = a /\ c.amount = m
           /\ <<a, f, m>> \in E!Preferred(events).blocked
                  <=> \E c \in D : c.kind = "block" /\ c.token = a /\ c.from = f /\ c.amount = m
  <1> DEFINE Q == E!Preferred(events)
  <1>1. /\ Q.memo = {<<e.from, e.to>> : e \in E!Named(events, {"TransferWithMemo"})}
        /\ Q.mint = {<<e.address, e.amount, e.to>> : e \in E!Named(events, {"Mint"})}
        /\ Q.burn = {<<e.address, e.amount, e.from>> : e \in E!Named(events, {"Burn"})}
        /\ Q.deposit = {E!createZoneDepositTransferKey(e) : e \in E!Named(events, {"DepositMade"})}
        /\ Q.withdraw = {<<e.address, e.to, e.token, e.amount>> :
                             e \in E!Named(events, {"WithdrawalProcessed"})}
        /\ Q.blocked = {<<e.token, e.from, e.amount>> : e \in E!Named(events, {"TransferBlocked"})}
    BY DEF E!Preferred
  <1> HIDE DEF Q
  <1>2. \A n, ad, fr, to, k, am :
            /\ E!Log(n, ad, fr, to, k, am).address = ad /\ E!Log(n, ad, fr, to, k, am).from = fr
            /\ E!Log(n, ad, fr, to, k, am).to = to /\ E!Log(n, ad, fr, to, k, am).token = k
            /\ E!Log(n, ad, fr, to, k, am).amount = am
    BY DEF E!Log
  <1>3. \A c \in D : c \in E!Calls
    BY DEF Emits
  <1>4. <<f, t>> \in Q.memo <=> \E c \in D : c.memo /\ Sender(c) = f /\ Recipient(c) = t
    <2>1. \A c : Noted(c).from = Sender(c) /\ Noted(c).to = Recipient(c)
      BY <1>2 DEF Noted
    <2>2. \A e : e \in E!Named(events, {"TransferWithMemo"}) <=> \E c \in D : c.memo /\ e = Noted(c)
      BY NamedAre
    <2> QED BY <1>1, <2>1, <2>2
  <1>5. <<a, m, t>> \in Q.mint
            <=> \E c \in D : c.kind = "mint" /\ c.token = a /\ c.amount = m /\ c.to = t
    <2>1. \A c : c.kind = "mint" =>
              Own(c).address = c.token /\ Own(c).amount = c.amount /\ Own(c).to = c.to
      BY <1>2 DEF Own
    <2>2. \A e : e \in E!Named(events, {"Mint"}) <=> \E c \in D : c.kind = "mint" /\ e = Own(c)
      BY NamedAre
    <2> QED BY <1>1, <2>1, <2>2
  <1>6. <<a, m, f>> \in Q.burn
            <=> \E c \in D : c.kind = "burn" /\ c.token = a /\ c.amount = m /\ c.from = f
    <2>1. \A c : c.kind = "burn" =>
              Own(c).address = c.token /\ Own(c).amount = c.amount /\ Own(c).from = c.from
      BY <1>2 DEF Own
    <2>2. \A e : e \in E!Named(events, {"Burn"}) <=> \E c \in D : c.kind = "burn" /\ e = Own(c)
      BY NamedAre
    <2> QED BY <1>1, <2>1, <2>2
  <1>7. <<f, t, a, m>> \in Q.deposit
            <=> \E c \in D : /\ c.kind = "deposit" /\ c.from = f /\ t = E!Portal
                             /\ c.token = a /\ c.amount = m
    <2>1. \A c \in D : c.kind = "deposit" =>
              E!createZoneDepositTransferKey(Own(c)) = <<c.from, E!Portal, c.token, c.amount>>
      <3>1. ASSUME NEW c \in D, c.kind = "deposit"
            PROVE  E!createZoneDepositTransferKey(Own(c)) = <<c.from, E!Portal, c.token, c.amount>>
        <4>1. Own(c) = E!Log("DepositMade", E!Portal, c.from, E!Portal, c.token, c.amount - E!Fee)
          BY <3>1 DEF Own
        <4>2. c.amount \in Int
          BY <1>3, <3>1, CallIs
        <4>3. c.amount - E!Fee + E!Fee = c.amount
          BY <4>2 DEF E!Fee
        <4> QED BY <1>2, <4>1, <4>3 DEF E!createZoneDepositTransferKey
      <3> QED BY <3>1
    <2>2. \A e : e \in E!Named(events, {"DepositMade"})
                     <=> \E c \in D : c.kind = "deposit" /\ e = Own(c)
      BY NamedAre
    <2> QED BY <1>1, <2>1, <2>2
  <1>8. <<f, t, a, m>> \in Q.withdraw
            <=> \E c \in D : /\ c.kind = "withdraw" /\ f = E!Portal /\ c.from = t
                             /\ c.token = a /\ c.amount = m
    <2>1. \A c : c.kind = "withdraw" => /\ Own(c).address = E!Portal /\ Own(c).to = c.from
                                        /\ Own(c).token = c.token /\ Own(c).amount = c.amount
      BY <1>2 DEF Own
    <2>2. \A e : e \in E!Named(events, {"WithdrawalProcessed"})
                     <=> \E c \in D : c.kind = "withdraw" /\ e = Own(c)
      BY NamedAre
    <2> QED BY <1>1, <2>1, <2>2
  <1>9. <<a, f, m>> \in Q.blocked
            <=> \E c \in D : c.kind = "block" /\ c.token = a /\ c.from = f /\ c.amount = m
    <2>1. \A c : c.kind = "block" => /\ Own(c).token = c.token /\ Own(c).from = c.from
                                     /\ Own(c).amount = c.amount
      BY <1>2 DEF Own
    <2>2. \A e : e \in E!Named(events, {"TransferBlocked"})
                     <=> \E c \in D : c.kind = "block" /\ e = Own(c)
      BY NamedAre
    <2> QED BY <1>1, <2>1, <2>2
  <1> QED BY Zenon, <1>4, <1>5, <1>6, <1>7, <1>8, <1>9 DEF Q

-----------------------------------------------------------------------------
(* Which logs are shown *)

\* No two of the calls are mixed up, but for orders and swaps.
ToldApart(D) ==
    \A c, d \in D :
        /\ c.kind = "send" /\ d.kind = "send" /\ c.from = d.from /\ c.to = d.to => c.memo = d.memo
        /\ (c.kind = "mint" /\ d.kind = "mint" /\ c.token = d.token /\ c.amount = d.amount
            /\ c.to = d.to) => c.memo = d.memo
        /\ (c.kind = "burn" /\ d.kind = "burn" /\ c.token = d.token /\ c.amount = d.amount
            /\ c.from = d.from) => c.memo = d.memo
        /\ (c.kind = "topUp" /\ d.kind = "topUp"
            /\ (c.from \in {d.from, d.to} \/ c.to \in {d.from, d.to})) => c.token = d.token

LEMMA LogHas ==
    ASSUME NEW n, NEW a, NEW f, NEW t, NEW k, NEW m
    PROVE  /\ E!Log(n, a, f, t, k, m).eventName = n /\ E!Log(n, a, f, t, k, m).address = a
           /\ E!Log(n, a, f, t, k, m).from = f /\ E!Log(n, a, f, t, k, m).to = t
           /\ E!Log(n, a, f, t, k, m).token = k /\ E!Log(n, a, f, t, k, m).amount = m
  BY DEF E!Log

LEMMA KnownAre ==
    /\ E!zeroAddress = "zero" /\ E!STABLECOIN_EXCHANGE = "dex" /\ E!FEE_MANAGER = "feeManager"
    /\ E!RECEIVE_POLICY_GUARD = "guard" /\ E!STREAM_CHANNEL = "channel" /\ E!Portal = "portal"
    /\ E!Nobody = "nobody"
    /\ \A x : x \notin E!KnownAddresses =>
           /\ x # "zero" /\ x # "dex" /\ x # "feeManager" /\ x # "guard" /\ x # "channel"
           /\ x # "portal" /\ x # "nobody"
  BY DEF E!zeroAddress, E!STABLECOIN_EXCHANGE, E!FEE_MANAGER, E!RECEIVE_POLICY_GUARD,
         E!STREAM_CHANNEL, E!Portal, E!Nobody, E!KnownAddresses

\* Who moves what to whom, of every kind of call
LEMMA MovesAre ==
    ASSUME NEW c \in E!Calls
    PROVE  /\ c.kind = "send" => Sender(c) = c.from /\ Recipient(c) = c.to
           /\ c.kind = "mint" => Sender(c) = "zero" /\ Recipient(c) = c.to
           /\ c.kind = "burn" => Sender(c) = c.from /\ Recipient(c) = "zero"
           /\ c.kind = "deposit" => Sender(c) = c.from /\ Recipient(c) = "portal"
           /\ c.kind = "withdraw" => Sender(c) = "portal" /\ Recipient(c) = c.from
           /\ c.kind = "block" => Sender(c) = c.from /\ Recipient(c) = "guard"
           /\ c.kind = "topUp" => Sender(c) = c.from /\ Recipient(c) = "channel"
           /\ c.kind \in {"swap", "place"} => Sender(c) = c.from /\ Recipient(c) = "dex"
  BY CallIs, KnownAre DEF Sender, Recipient

LEMMA MovedHas ==
    ASSUME NEW c
    PROVE  /\ Moved(c).eventName = "Transfer" /\ Moved(c).address = c.token
           /\ Moved(c).from = Sender(c) /\ Moved(c).to = Recipient(c)
           /\ Moved(c).token = c.token /\ Moved(c).amount = c.amount
           /\ Noted(c).eventName = "TransferWithMemo" /\ Noted(c).address = c.token
           /\ Noted(c).from = Sender(c) /\ Noted(c).to = Recipient(c)
           /\ Noted(c).token = c.token /\ Noted(c).amount = c.amount
  BY LogHas DEF Moved, Noted

LEMMA TransfersAre ==
    ASSUME NEW c \in E!Calls
    PROVE  /\ E!isTransferEvent(Moved(c)) /\ E!isTransferEvent(Noted(c))
           /\ Owning(c) => (E!isTransferEvent(Own(c)) <=> c.kind = "swap")
           /\ c.kind = "swap" => Own(c).from = "dex" /\ Own(c).to = c.from
                                 /\ Own(c).eventName = "Transfer"
           /\ E!isTransferEvent(E!FeeLog)
           /\ E!FeeLog.from = "payer" /\ E!FeeLog.to = "feeManager"
           /\ E!FeeLog.eventName = "Transfer"
  <1>1. E!isTransferEvent(Moved(c)) /\ E!isTransferEvent(Noted(c))
    BY MovedHas DEF E!isTransferEvent
  <1>2. /\ E!FeeLog.from = "payer" /\ E!FeeLog.to = "feeManager"
        /\ E!FeeLog.eventName = "Transfer"
    BY LogHas, KnownAre DEF E!FeeLog
  <1>3. c.kind = "swap" => Own(c).from = "dex" /\ Own(c).to = c.from
                           /\ Own(c).eventName = "Transfer"
    BY LogHas, KnownAre DEF Own
  <1>4. Owning(c) => (E!isTransferEvent(Own(c)) <=> c.kind = "swap")
    BY NamesAre, CallIs DEF E!isTransferEvent, Owning
  <1> QED BY <1>1, <1>2, <1>3, <1>4 DEF E!isTransferEvent

\* The conditions of Hidden, on the calls
HiddenBy(D, name, f, t, a, m) ==
    \/ name = "Transfer" /\ \E c \in D : c.memo /\ Sender(c) = f /\ Recipient(c) = t
    \/ /\ t = "guard"
       /\ \E c \in D : c.kind = "block" /\ c.token = a /\ c.from = f /\ c.amount = m
    \/ /\ t = "portal"
       /\ \E c \in D : c.kind = "deposit" /\ c.from = f /\ c.token = a /\ c.amount = m
    \/ /\ f = "portal"
       /\ \E c \in D : c.kind = "withdraw" /\ c.from = t /\ c.token = a /\ c.amount = m
    \/ f = "zero" /\ \E c \in D : c.kind = "mint" /\ c.token = a /\ c.amount = m /\ c.to = t
    \/ t = "zero" /\ \E c \in D : c.kind = "burn" /\ c.token = a /\ c.amount = m /\ c.from = f

LEMMA HiddenIs ==
    ASSUME NEW D, NEW events, Emits(D, events), NEW e, E!isTransferEvent(e)
    PROVE  E!Hidden(e, E!Preferred(events), E!zonePortals(events))
               <=> HiddenBy(D, e.eventName, e.from, e.to, e.address, e.amount)
  <1> DEFINE Q == E!Preferred(events)
             f == e.from
             t == e.to
             a == e.address
             m == e.amount
  <1>1. E!Hidden(e, Q, E!zonePortals(events))
            <=> \/ e.eventName = "Transfer" /\ <<f, t>> \in Q.memo
                \/ t = "guard" /\ <<a, f, m>> \in Q.blocked
                \/ t \in E!zonePortals(events) /\ <<f, t, a, m>> \in Q.deposit
                \/ f \in E!zonePortals(events) /\ <<f, t, a, m>> \in Q.withdraw
                \/ f = "zero" /\ <<a, m, t>> \in Q.mint
                \/ t = "zero" /\ <<a, m, f>> \in Q.burn
    BY Zenon, KnownAre DEF E!Hidden
  <1>2. /\ <<f, t>> \in Q.memo <=> \E c \in D : c.memo /\ Sender(c) = f /\ Recipient(c) = t
        /\ <<a, m, t>> \in Q.mint
               <=> \E c \in D : c.kind = "mint" /\ c.token = a /\ c.amount = m /\ c.to = t
        /\ <<a, m, f>> \in Q.burn
               <=> \E c \in D : c.kind = "burn" /\ c.token = a /\ c.amount = m /\ c.from = f
        /\ <<f, t, a, m>> \in Q.deposit
               <=> \E c \in D : /\ c.kind = "deposit" /\ c.from = f /\ t = E!Portal
                                /\ c.token = a /\ c.amount = m
        /\ <<f, t, a, m>> \in Q.withdraw
               <=> \E c \in D : /\ c.kind = "withdraw" /\ f = E!Portal /\ c.from = t
                                /\ c.token = a /\ c.amount = m
        /\ <<a, f, m>> \in Q.blocked
               <=> \E c \in D : c.kind = "block" /\ c.token = a /\ c.from = f /\ c.amount = m
    <2> HIDE DEF f, t, a, m
    <2> QED BY PreferredAre
  <1>3. \A x : x \in E!zonePortals(events)
                   <=> x = E!Portal /\ \E c \in D : c.kind \in {"deposit", "withdraw"}
    BY PortalsAre
  <1>4. E!Portal = "portal"
    BY KnownAre
  <1> HIDE DEF Q, f, t, a, m
  <1>5. t \in E!zonePortals(events) /\ <<f, t, a, m>> \in Q.deposit
            <=> t = "portal" /\ \E c \in D : c.kind = "deposit" /\ c.from = f /\ c.token = a /\ c.amount = m
    BY <1>2, <1>3, <1>4
  <1>6. f \in E!zonePortals(events) /\ <<f, t, a, m>> \in Q.withdraw
            <=> f = "portal" /\ \E c \in D : c.kind = "withdraw" /\ c.from = t /\ c.token = a /\ c.amount = m
    BY <1>2, <1>3, <1>4
  <1>7. E!Hidden(e, Q, E!zonePortals(events)) <=> HiddenBy(D, e.eventName, f, t, a, m)
    BY <1>1, <1>2, <1>5, <1>6 DEF HiddenBy
  <1> QED BY <1>7 DEF Q, f, t, a, m

\* Where the logs of a call are shown: of a call that has one of its own, or a
\* memo, only the last.
Unfolds(c) == c.kind \in {"swap", "place", "topUp"}

\* The transfer of a call is hidden by the call itself or not at all.
LEMMA MovedIsHidden ==
    ASSUME NEW D, NEW events, Emits(D, events), ToldApart(D), NEW c \in D
    PROVE  HiddenBy(D, "Transfer", Sender(c), Recipient(c), c.token, c.amount)
               <=> ~Unfolds(c) /\ ~(c.kind = "send" /\ ~c.memo)
  <1>1. c \in E!Calls /\ \A d \in D : d \in E!Calls
    BY DEF Emits
  <1>2. /\ c.kind \in {"send", "mint", "burn", "block", "topUp", "deposit", "withdraw", "swap",
                       "place"}
        /\ c.memo \in BOOLEAN
        /\ c.from \notin E!KnownAddresses
        /\ c.kind \in {"send", "mint", "burn", "block", "topUp"} => c.to \notin E!KnownAddresses
        /\ c.memo => c.kind \in {"send", "mint", "burn"}
    BY <1>1, CallIs
  <1>3. \A d \in D : /\ d.memo => d.kind \in {"send", "mint", "burn"}
                     /\ d.memo \in BOOLEAN
                     /\ d.kind = "send" => Sender(d) = d.from /\ Recipient(d) = d.to
                     /\ d.kind = "mint" => Sender(d) = "zero" /\ Recipient(d) = d.to
                     /\ d.kind = "burn" => Sender(d) = d.from /\ Recipient(d) = "zero"
                     /\ d.kind \in {"mint", "send"} => d.to \notin E!KnownAddresses
    BY <1>1, CallIs, MovesAre
  <1>4. /\ \A x : x \notin E!KnownAddresses =>
           /\ x # "zero" /\ x # "dex" /\ x # "feeManager" /\ x # "guard" /\ x # "channel"
           /\ x # "portal" /\ x # "nobody"
    BY KnownAre
  <1>5. CASE c.kind = "send"
    <2>1. Sender(c) = c.from /\ Recipient(c) = c.to
      BY <1>1, <1>5, MovesAre
    <2>2. /\ c.from # "portal" /\ c.from # "zero" /\ c.to # "guard" /\ c.to # "portal"
          /\ c.to # "zero"
      BY <1>2, <1>4, <1>5
    <2>3. HiddenBy(D, "Transfer", c.from, c.to, c.token, c.amount)
              <=> \E d \in D : d.memo /\ Sender(d) = c.from /\ Recipient(d) = c.to
      BY <2>2 DEF HiddenBy
    <2>4. (\E d \in D : d.memo /\ Sender(d) = c.from /\ Recipient(d) = c.to) => c.memo
      <3>1. ASSUME NEW d \in D, d.memo, Sender(d) = c.from, Recipient(d) = c.to PROVE c.memo
        <4>1. d.kind = "send" /\ d.from = c.from /\ d.to = c.to
          BY <1>3, <2>2, <3>1
        <4>2. d.memo = c.memo
          BY <1>5, <4>1 DEF ToldApart
        <4> QED BY <3>1, <4>2
      <3> QED BY <3>1
    <2>5. c.memo => \E d \in D : d.memo /\ Sender(d) = c.from /\ Recipient(d) = c.to
      BY <2>1
    <2> QED BY <1>2, <1>5, <2>1, <2>3, <2>4, <2>5 DEF Unfolds
  <1>6. CASE c.kind = "mint"
    BY <1>1, <1>6, MovesAre DEF HiddenBy, Unfolds
  <1>7. CASE c.kind = "burn"
    BY <1>1, <1>7, MovesAre DEF HiddenBy, Unfolds
  <1>8. CASE c.kind = "deposit"
    BY <1>1, <1>8, MovesAre DEF HiddenBy, Unfolds
  <1>9. CASE c.kind = "withdraw"
    BY <1>1, <1>9, MovesAre DEF HiddenBy, Unfolds
  <1>10. CASE c.kind = "block"
    BY <1>1, <1>10, MovesAre DEF HiddenBy, Unfolds
  <1>11. CASE Unfolds(c)
    <2>1. Sender(c) = c.from /\ Recipient(c) \in {"dex", "channel"}
      BY <1>1, <1>11, MovesAre DEF Unfolds
    <2>2. c.from # "portal" /\ c.from # "zero"
      BY <1>2, <1>4
    <2>3. \A d \in D : d.memo => Recipient(d) \notin {"dex", "channel"}
      BY <1>3, <1>4
    <2>4. ~HiddenBy(D, "Transfer", Sender(c), Recipient(c), c.token, c.amount)
      BY <2>1, <2>2, <2>3 DEF HiddenBy
    <2> QED BY <1>11, <2>4
  <1> QED BY <1>2, <1>5, <1>6, <1>7, <1>8, <1>9, <1>10, <1>11 DEF Unfolds

LEMMA NotedIsHidden ==
    ASSUME NEW D, NEW events, Emits(D, events), NEW c \in D, c.memo
    PROVE  HiddenBy(D, "TransferWithMemo", Sender(c), Recipient(c), c.token, c.amount)
               <=> c.kind # "send"
  <1>1. c \in E!Calls
    BY DEF Emits
  <1>2. c.kind \in {"send", "mint", "burn"} /\ c.from \notin E!KnownAddresses
        /\ c.to \notin E!KnownAddresses
    BY <1>1, CallIs
  <1>3. CASE c.kind = "send"
    BY <1>1, <1>2, <1>3, MovesAre, KnownAre DEF HiddenBy
  <1>4. CASE c.kind = "mint"
    BY <1>1, <1>4, MovesAre DEF HiddenBy
  <1>5. CASE c.kind = "burn"
    BY <1>1, <1>5, MovesAre DEF HiddenBy
  <1> QED BY <1>2, <1>3, <1>4, <1>5

LEMMA OwnIsShown ==
    ASSUME NEW D, NEW events, Emits(D, events), NEW c \in D
    PROVE  /\ Owning(c) => ~E!Hidden(Own(c), E!Preferred(events), E!zonePortals(events))
           /\ ~E!Hidden(E!FeeLog, E!Preferred(events), E!zonePortals(events))
  <1>1. c \in E!Calls /\ \A d \in D : d \in E!Calls
    BY DEF Emits
  <1>2. \A d \in D : /\ d.memo => d.kind \in {"send", "mint", "burn"}
                     /\ d.kind = "send" => Sender(d) = d.from /\ Recipient(d) = d.to
                     /\ d.kind = "mint" => Sender(d) = "zero" /\ Recipient(d) = d.to
                     /\ d.kind = "burn" => Sender(d) = d.from /\ Recipient(d) = "zero"
                     /\ d.kind \in {"mint", "send"} => d.to \notin E!KnownAddresses
                     /\ d.from \notin E!KnownAddresses
    BY <1>1, CallIs, MovesAre
  <1>3. /\ \A x : x \notin E!KnownAddresses =>
           /\ x # "zero" /\ x # "dex" /\ x # "feeManager" /\ x # "guard" /\ x # "channel"
           /\ x # "portal" /\ x # "nobody"
    BY KnownAre
  <1>4. \A d \in D : d.memo => Recipient(d) # "feeManager" /\ Sender(d) # "dex"
    BY <1>2, <1>3
  <1>5. /\ E!isTransferEvent(E!FeeLog)
        /\ E!FeeLog.from = "payer" /\ E!FeeLog.to = "feeManager"
        /\ Owning(c) => (E!isTransferEvent(Own(c)) <=> c.kind = "swap")
        /\ c.kind = "swap" => Own(c).from = "dex" /\ Own(c).to = c.from
                              /\ Own(c).eventName = "Transfer"
    BY <1>1, TransfersAre
  <1>6. \A n, a, m : ~HiddenBy(D, n, "payer", "feeManager", a, m)
    BY <1>4 DEF HiddenBy
  <1>7. ~E!Hidden(E!FeeLog, E!Preferred(events), E!zonePortals(events))
    BY <1>5, <1>6, HiddenIs
  <1>8. \A n, a, m : ~HiddenBy(D, n, "dex", c.from, a, m)
    <2>1. c.from # "guard" /\ c.from # "portal" /\ c.from # "zero"
      BY <1>2, <1>3
    <2> QED BY <1>4, <2>1 DEF HiddenBy
  <1>9. CASE Owning(c) /\ c.kind = "swap"
    BY <1>5, <1>7, <1>8, <1>9, HiddenIs
  <1>10. CASE Owning(c) /\ c.kind # "swap"
    BY <1>5, <1>7, <1>10 DEF E!Hidden
  <1> QED BY <1>7, <1>9, <1>10

LEMMA ShownAre ==
    ASSUME NEW D, NEW events, Emits(D, events), ToldApart(D), NEW c \in D, NEW k \in 1..Size(c)
    PROVE  E!Hidden(E!Emitted(c)[k], E!Preferred(events), E!zonePortals(events))
               <=> k # Size(c) /\ ~Unfolds(c)
  <1> DEFINE Hides(e) == E!Hidden(e, E!Preferred(events), E!zonePortals(events))
  <1>1. c \in E!Calls
    BY DEF Emits
  <1>2. Hides(Moved(c)) <=> ~Unfolds(c) /\ ~(c.kind = "send" /\ ~c.memo)
    <2>1. E!isTransferEvent(Moved(c))
      BY <1>1, TransfersAre
    <2>2. Hides(Moved(c)) <=> HiddenBy(D, Moved(c).eventName, Moved(c).from, Moved(c).to,
                                       Moved(c).address, Moved(c).amount)
      BY <2>1, HiddenIs
    <2> HIDE DEF Hides
    <2> QED BY <2>2, MovedHas, MovedIsHidden
  <1>3. c.memo => (Hides(Noted(c)) <=> c.kind # "send")
    <2>1. E!isTransferEvent(Noted(c))
      BY <1>1, TransfersAre
    <2>2. Hides(Noted(c)) <=> HiddenBy(D, Noted(c).eventName, Noted(c).from, Noted(c).to,
                                       Noted(c).address, Noted(c).amount)
      BY <2>1, HiddenIs
    <2> HIDE DEF Hides
    <2> QED BY <2>2, MovedHas, NotedIsHidden
  <1>4. Owning(c) => ~Hides(Own(c))
    BY OwnIsShown
  <1> HIDE DEF Hides
  <1>5. /\ Size(c) \in 1..3 /\ E!Emitted(c)[1] = Moved(c)
        /\ c.memo => Size(c) >= 2 /\ E!Emitted(c)[2] = Noted(c)
        /\ Owning(c) => Size(c) >= 2 /\ E!Emitted(c)[Size(c)] = Own(c)
        /\ k = 1 \/ (k = 2 /\ c.memo) \/ (k = Size(c) /\ Owning(c))
    BY <1>1, LogsAre
  <1>6. /\ c.kind \in {"send", "mint", "burn", "block", "topUp", "deposit", "withdraw", "swap",
                       "place"}
        /\ c.memo \in BOOLEAN /\ (c.memo => c.kind \in {"send", "mint", "burn"})
    BY <1>1, CallIs
  <1>7. /\ Owning(c) <=> c.kind \notin {"send", "place"}
        /\ c.memo /\ Owning(c) => Size(c) = 3
        /\ c.memo /\ ~Owning(c) => Size(c) = 2
        /\ ~c.memo /\ Owning(c) => Size(c) = 2
        /\ ~c.memo /\ ~Owning(c) => Size(c) = 1
    BY DEF Owning, Size
  <1>8. CASE k = 1
    BY <1>2, <1>5, <1>6, <1>7, <1>8 DEF Unfolds, Hides
  <1>9. CASE k = 2 /\ c.memo
    BY <1>3, <1>4, <1>5, <1>6, <1>7, <1>9 DEF Unfolds, Hides
  <1>10. CASE k = Size(c) /\ Owning(c)
    BY <1>4, <1>5, <1>10 DEF Hides
  <1> QED BY <1>5, <1>8, <1>9, <1>10

-----------------------------------------------------------------------------
(* The logs that are left *)

Did(cs) == {cs[i] : i \in 1..Len(cs)}

\* The logs of the calls cs and of the fee
ReceiptOf(cs, events, offset) ==
    /\ cs \in Seq(E!Calls)
    /\ Len(events) \in Nat /\ Len(events) >= 1 /\ DOMAIN events = 1..Len(events)
    /\ offset \in [1..Len(cs) -> Nat]
    /\ \A i \in 1..Len(cs) : offset[i] + Size(cs[i]) < Len(events)
    /\ \A i, j \in 1..Len(cs) : i < j => offset[i] + Size(cs[i]) <= offset[j]
    /\ \A i \in 1..Len(cs) : \A k \in 1..Size(cs[i]) : events[offset[i] + k] = E!Emitted(cs[i])[k]
    /\ events[Len(events)] = E!FeeLog
    /\ \A x \in 1..Len(events) :
           x = Len(events) \/ \E i \in 1..Len(cs) : \E k \in 1..Size(cs[i]) : x = offset[i] + k

Unmixed(cs) ==
    /\ ToldApart(Did(cs))
    /\ \A i, j \in 1..Len(cs) : i < j => ~(cs[i].kind = "place" /\ cs[j].kind = "swap")

Places(cs, events, offset) ==
    {x \in 1..Len(events) :
        \/ x = Len(events)
        \/ \E i \in 1..Len(cs) :
               x = offset[i] + Size(cs[i]) \/ (Unfolds(cs[i]) /\ x = offset[i] + 1)}

LEMMA ReceiptHas ==
    ASSUME NEW cs \in Seq(E!Calls), NEW X, NEW ls \in Seq(X), NEW offset, Laid(cs, ls, offset)
    PROVE  ReceiptOf(cs, Append(ls, E!FeeLog), offset)
  <1> DEFINE m == Len(ls)
             n == Len(cs)
             es == Append(ls, E!FeeLog)
  <1>1. m \in Nat /\ n \in Nat
    OBVIOUS
  <1>2. /\ Len(es) = m + 1 /\ DOMAIN es = 1..(m + 1) /\ es[m + 1] = E!FeeLog
        /\ \A x \in 1..m : es[x] = ls[x]
    <2>1. ls \in Seq(X \cup {E!FeeLog})
      OBVIOUS
    <2> QED BY <2>1
  <1>3. /\ offset \in [1..n -> Nat]
        /\ \A i \in 1..n : offset[i] + Size(cs[i]) <= m
        /\ \A i, j \in 1..n : i < j => offset[i] + Size(cs[i]) <= offset[j]
        /\ \A i \in 1..n : \A k \in 1..Size(cs[i]) : ls[offset[i] + k] = E!Emitted(cs[i])[k]
        /\ \A x \in 1..m : \E i \in 1..n : \E k \in 1..Size(cs[i]) : x = offset[i] + k
    BY DEF Laid
  <1>4. \A i \in 1..n : Size(cs[i]) \in 1..3
    <2>1. ASSUME NEW i \in 1..n PROVE Size(cs[i]) \in 1..3
      <3>1. cs[i] \in E!Calls
        BY <1>1
      <3> QED BY <3>1, LogsAre
    <2> QED BY <2>1
  <1> HIDE DEF m, n, es
  <1>5. \A i \in 1..n : offset[i] + Size(cs[i]) < m + 1
    <2>1. ASSUME NEW i \in 1..n PROVE offset[i] + Size(cs[i]) < m + 1
      <3>1. offset[i] \in Nat /\ Size(cs[i]) \in 1..3 /\ offset[i] + Size(cs[i]) <= m
        BY <1>3, <1>4
      <3> QED BY <1>1, <3>1
    <2> QED BY <2>1
  <1>6. \A i \in 1..n : \A k \in 1..Size(cs[i]) : es[offset[i] + k] = E!Emitted(cs[i])[k]
    <2>1. ASSUME NEW i \in 1..n, NEW k \in 1..Size(cs[i])
          PROVE  es[offset[i] + k] = E!Emitted(cs[i])[k]
      <3>1. offset[i] \in Nat /\ Size(cs[i]) \in 1..3 /\ offset[i] + Size(cs[i]) <= m
        BY <1>3, <1>4
      <3>2. offset[i] + k \in 1..m
        BY <1>1, <3>1
      <3> QED BY <1>2, <1>3, <3>2
    <2> QED BY <2>1
  <1>7. \A x \in 1..(m + 1) :
            x = m + 1 \/ \E i \in 1..n : \E k \in 1..Size(cs[i]) : x = offset[i] + k
    <2>1. \A x \in 1..(m + 1) : x = m + 1 \/ x \in 1..m
      BY <1>1
    <2> QED BY <1>3, <2>1
  <1>8. m + 1 \in Nat /\ m + 1 >= 1
    BY <1>1
  <1> QED BY <1>2, <1>3, <1>5, <1>6, <1>7, <1>8 DEF ReceiptOf, n, es

LEMMA ReceiptEmits ==
    ASSUME NEW cs, NEW events, NEW offset, ReceiptOf(cs, events, offset)
    PROVE  Emits(Did(cs), events)
  <1> DEFINE n == Len(cs)
             m == Len(events)
  <1>0. cs \in Seq(E!Calls) /\ n \in Nat
    <2>1. cs \in Seq(E!Calls)
      BY DEF ReceiptOf
    <2> QED BY <2>1
  <1>1. /\ cs \in Seq(E!Calls) /\ n \in Nat
        /\ m \in Nat /\ m >= 1 /\ DOMAIN events = 1..m
        /\ offset \in [1..n -> Nat]
        /\ \A i \in 1..n : offset[i] + Size(cs[i]) < m
        /\ \A i \in 1..n : \A k \in 1..Size(cs[i]) : events[offset[i] + k] = E!Emitted(cs[i])[k]
        /\ events[m] = E!FeeLog
        /\ \A x \in 1..m : x = m \/ \E i \in 1..n : \E k \in 1..Size(cs[i]) : x = offset[i] + k
    BY <1>0 DEF ReceiptOf
  <1>2. \A i \in 1..n : cs[i] \in E!Calls
    <2>1. ASSUME NEW i \in 1..n PROVE cs[i] \in E!Calls
      BY <1>0
    <2> QED BY <2>1
  <1>3. Did(cs) \subseteq E!Calls
    BY <1>2 DEF Did
  <1>4. \A i \in 1..n : Size(cs[i]) \in 1..3
    BY <1>2, LogsAre
  <1> HIDE DEF n, m
  <1>5. ASSUME NEW e
        PROVE  e \in E!ToSet(events) <=> (e = E!FeeLog \/ \E c \in Did(cs) : LogOf(c, e))
    <2>1. e \in E!ToSet(events) <=> \E x \in 1..m : e = events[x]
      BY <1>1 DEF E!ToSet
    <2>2. \A i \in 1..n : LogOf(cs[i], e) <=> \E k \in 1..Size(cs[i]) : e = E!Emitted(cs[i])[k]
      BY <1>2, LogsOf
    <2>3. (\E c \in Did(cs) : LogOf(c, e)) <=> \E i \in 1..n : LogOf(cs[i], e)
      BY DEF Did, n
    <2>4. ASSUME NEW x \in 1..m, e = events[x]
          PROVE  e = E!FeeLog \/ \E i \in 1..n : \E k \in 1..Size(cs[i]) : e = E!Emitted(cs[i])[k]
      BY <1>1, <2>4
    <2>5. ASSUME NEW i \in 1..n, NEW k \in 1..Size(cs[i]), e = E!Emitted(cs[i])[k]
          PROVE  \E x \in 1..m : e = events[x]
      <3>1. offset[i] \in Nat /\ Size(cs[i]) \in 1..3 /\ offset[i] + Size(cs[i]) < m
        BY <1>1, <1>4
      <3>2. m \in Nat
        BY <1>1
      <3>3. offset[i] + k \in 1..m
        BY <3>1, <3>2
      <3> QED BY <1>1, <2>5, <3>3
    <2>6. m \in 1..m
      BY <1>1
    <2> QED BY <1>1, <2>1, <2>2, <2>3, <2>4, <2>5, <2>6
  <1> QED BY <1>3, <1>5 DEF Emits

\* What is not hidden is what Places says.
LEMMA PlacesAreShown ==
    ASSUME NEW cs, NEW events, NEW offset, ReceiptOf(cs, events, offset), Unmixed(cs)
    PROVE  /\ E!dedupedEvents(events) = E!Kept(events, Places(cs, events, offset))
           /\ AreNumbers(Places(cs, events, offset))
  <1> DEFINE n == Len(cs)
             m == Len(events)
             V == Places(cs, events, offset)
             D == Did(cs)
             Hides(e) == E!Hidden(e, E!Preferred(events), E!zonePortals(events))
  <1>0. cs \in Seq(E!Calls) /\ n \in Nat
    <2>1. cs \in Seq(E!Calls)
      BY DEF ReceiptOf
    <2> QED BY <2>1
  <1>1. /\ cs \in Seq(E!Calls) /\ n \in Nat
        /\ m \in Nat /\ m >= 1 /\ DOMAIN events = 1..m
        /\ offset \in [1..n -> Nat]
        /\ \A i \in 1..n : offset[i] + Size(cs[i]) < m
        /\ \A i, j \in 1..n : i < j => offset[i] + Size(cs[i]) <= offset[j]
        /\ \A i \in 1..n : \A k \in 1..Size(cs[i]) : events[offset[i] + k] = E!Emitted(cs[i])[k]
        /\ events[m] = E!FeeLog
        /\ \A x \in 1..m : x = m \/ \E i \in 1..n : \E k \in 1..Size(cs[i]) : x = offset[i] + k
    BY <1>0 DEF ReceiptOf
  <1>2. \A i \in 1..n : cs[i] \in E!Calls /\ cs[i] \in D
    <2>1. ASSUME NEW i \in 1..n PROVE cs[i] \in E!Calls
      BY <1>0
    <2> QED BY <2>1 DEF Did
  <1>3. Emits(D, events) /\ ToldApart(D)
    BY ReceiptEmits DEF Unmixed
  <1>4. \A i \in 1..n : Size(cs[i]) \in 1..3 /\ (Unfolds(cs[i]) => Size(cs[i]) \in 1..2)
    <2>1. ASSUME NEW i \in 1..n
          PROVE  Size(cs[i]) \in 1..3 /\ (Unfolds(cs[i]) => Size(cs[i]) \in 1..2)
      <3>1. Size(cs[i]) \in 1..3
        BY <1>2, LogsAre
      <3>2. Unfolds(cs[i]) => Size(cs[i]) \in 1..2
        BY <1>2, CallIs DEF Unfolds, Size
      <3> QED BY <3>1, <3>2
    <2> QED BY <2>1
  <1>5. ASSUME NEW i \in 1..n, NEW k \in 1..Size(cs[i])
        PROVE  Hides(events[offset[i] + k]) <=> k # Size(cs[i]) /\ ~Unfolds(cs[i])
    <2>1. E!Hidden(E!Emitted(cs[i])[k], E!Preferred(events), E!zonePortals(events))
              <=> k # Size(cs[i]) /\ ~Unfolds(cs[i])
      BY <1>2, <1>3, ShownAre
    <2> QED BY <1>1, <2>1
  <1>6. ~Hides(events[m])
    <2>1. CASE D = {}
      <3>1. \A f, t, a, k : ~HiddenBy(D, "Transfer", f, t, a, k)
        BY <2>1 DEF HiddenBy
      <3>2. E!FeeLog.eventName = "Transfer" /\ E!isTransferEvent(E!FeeLog)
        BY LogHas DEF E!FeeLog, E!isTransferEvent
      <3>3. ~E!Hidden(E!FeeLog, E!Preferred(events), E!zonePortals(events))
        BY <1>3, <3>1, <3>2, HiddenIs
      <3> QED BY <1>1, <3>3
    <2>2. CASE D # {}
      <3>1. PICK c \in D : TRUE
        BY <2>2
      <3>2. ~E!Hidden(E!FeeLog, E!Preferred(events), E!zonePortals(events))
        BY <1>3, <3>1, OwnIsShown
      <3> QED BY <1>1, <3>2
    <2> QED BY <2>1, <2>2
  <1>7. E!dedupedEvents(events) = E!Kept(events, {x \in 1..m : ~Hides(events[x])})
    BY Zenon, <1>1 DEF E!dedupedEvents
  <1>8. V = {x \in 1..m : \/ x = m
                          \/ \E i \in 1..n : \/ x = offset[i] + Size(cs[i])
                                             \/ (Unfolds(cs[i]) /\ x = offset[i] + 1)}
    BY DEF Places
  <1> HIDE DEF n, m, V, D, Hides
  <1>9. ASSUME NEW x \in 1..m PROVE ~Hides(events[x]) <=> x \in V
    <2>1. CASE x = m
      BY <1>6, <1>8, <2>1
    <2>2. CASE x # m
      <3>0. PICK i \in 1..n : \E k \in 1..Size(cs[i]) : x = offset[i] + k
        BY <1>1, <2>2
      <3>1. PICK k \in 1..Size(cs[i]) : x = offset[i] + k
        BY <3>0
      <3>2. ~Hides(events[x]) <=> k = Size(cs[i]) \/ Unfolds(cs[i])
        BY <1>5, <3>1
      <3>3. /\ offset[i] \in Nat /\ Size(cs[i]) \in 1..3
            /\ Unfolds(cs[i]) => Size(cs[i]) \in 1..2
        BY <1>1, <1>4
      <3>4. k = Size(cs[i]) \/ Unfolds(cs[i]) => x \in V
        <4>1. CASE k = Size(cs[i])
          BY <1>8, <3>1, <4>1
        <4>2. CASE Unfolds(cs[i]) /\ k # Size(cs[i])
          <5>1. k = 1
            BY <3>3, <4>2
          <5> QED BY <1>8, <3>1, <4>2, <5>1
        <4> QED BY <4>1, <4>2
      <3>5. x \in V => k = Size(cs[i]) \/ Unfolds(cs[i])
        <4>1. SUFFICES ASSUME NEW j \in 1..n, x = offset[j] + Size(cs[j])
                                              \/ (Unfolds(cs[j]) /\ x = offset[j] + 1)
                       PROVE  k = Size(cs[i]) \/ Unfolds(cs[i])
          BY <1>8, <2>2
        <4>2. offset[j] \in Nat /\ Size(cs[j]) \in 1..3 /\ i \in Int /\ j \in Int
          BY <1>1, <1>4
        <4>3. CASE i = j
          BY <3>1, <3>3, <4>1, <4>2, <4>3
        <4>4. CASE i < j
          <5>1. offset[i] + Size(cs[i]) <= offset[j]
            BY <1>1, <4>4
          <5> QED BY <3>1, <3>3, <4>1, <4>2, <5>1
        <4>5. CASE j < i
          <5>1. offset[j] + Size(cs[j]) <= offset[i]
            BY <1>1, <4>5
          <5> QED BY <3>1, <3>3, <4>1, <4>2, <5>1
        <4> QED BY <4>2, <4>3, <4>4, <4>5
      <3> QED BY <3>2, <3>4, <3>5
    <2> QED BY <2>1, <2>2
  <1>10. {x \in 1..m : ~Hides(events[x])} = V
    BY <1>8, <1>9
  <1>11. AreNumbers(V)
    <2>1. IsFiniteSet(1..m) /\ V \subseteq 1..m
      BY <1>1, <1>8, FS_Interval
    <2>2. IsFiniteSet(V)
      BY <2>1, FS_Subset
    <2> QED BY <1>1, <2>1, <2>2 DEF AreNumbers
  <1> QED BY <1>7, <1>10, <1>11 DEF V

-----------------------------------------------------------------------------
(* What is left in the order of the receipt *)

\* d has the elements of a at the places V, in their order.
Ranked(V, a, d) ==
    /\ V \subseteq Int
    /\ \A x \in V : /\ Rank(V, x) \in DOMAIN d /\ Rank(V, x) \in Int
                    /\ d[Rank(V, x)] = a[x]
    /\ \A r \in DOMAIN d : \E x \in V : r = Rank(V, x)
    /\ \A x, y \in V : x < y <=> Rank(V, x) < Rank(V, y)
    /\ \A x, y \in V : Rank(V, x) = Rank(V, y) => x = y

LEMMA KeptIsRanked ==
    ASSUME NEW V, AreNumbers(V), NEW a
    PROVE  Ranked(V, a, E!Kept(a, V)) /\ DOMAIN E!Kept(a, V) \subseteq Int
  <1> DEFINE d == E!Kept(a, V)
             n == Cardinality(V)
  <1>1. /\ DOMAIN d = 1..n /\ n \in Nat
        /\ \A k \in 1..n : d[k] = a[E!Nth(V, k)]
    BY KeptIs
  <1>2. V \subseteq Int
    BY DEF AreNumbers
  <1> HIDE DEF d, n
  <1>3. ASSUME NEW x \in V
        PROVE  Rank(V, x) \in DOMAIN d /\ Rank(V, x) \in Int /\ d[Rank(V, x)] = a[x]
    <2>1. Rank(V, x) \in 1..n
      BY RankIs DEF n
    <2>2. E!Nth(V, Rank(V, x)) = x
      BY NthOfRank
    <2> QED BY <1>1, <2>1, <2>2
  <1>4. ASSUME NEW r \in DOMAIN d PROVE \E x \in V : r = Rank(V, x)
    <2>1. r \in 1..Cardinality(V)
      BY <1>1 DEF n
    <2>2. E!Nth(V, r) \in V /\ Rank(V, E!Nth(V, r)) = r
      BY <2>1, NthIs
    <2> QED BY <2>2
  <1>5. ASSUME NEW x \in V, NEW y \in V PROVE x < y <=> Rank(V, x) < Rank(V, y)
    <2>1. x < y => Rank(V, x) < Rank(V, y)
      BY RankGrows
    <2>2. y < x => Rank(V, y) < Rank(V, x)
      BY RankGrows
    <2>3. x \in Int /\ y \in Int /\ Rank(V, x) \in Int /\ Rank(V, y) \in Int
      BY <1>2, <1>3
    <2>4. x < y \/ y < x \/ x = y
      BY <2>3
    <2> QED BY <2>1, <2>2, <2>3, <2>4
  <1>6. ASSUME NEW x \in V, NEW y \in V, Rank(V, x) = Rank(V, y) PROVE x = y
    <2>1. x \in Int /\ y \in Int /\ Rank(V, x) \in Int /\ Rank(V, y) \in Int
      BY <1>2, <1>3
    <2>2. ~(x < y) /\ ~(y < x)
      BY <1>5, <1>6, <2>1
    <2> QED BY <2>1, <2>2
  <1>7. DOMAIN d \subseteq Int
    BY <1>1
  <1> QED BY <1>2, <1>3, <1>4, <1>5, <1>6, <1>7 DEF Ranked, d

\* The last log of a call
Last(c) == E!Emitted(c)[Size(c)]

LEMMA LastIs ==
    ASSUME NEW c \in E!Calls
    PROVE  /\ c.kind = "send" => Last(c) = IF c.memo THEN Noted(c) ELSE Moved(c)
           /\ c.kind = "place" => Last(c) = Moved(c) /\ Size(c) = 1
           /\ c.kind \notin {"send", "place"} => Last(c) = Own(c)
           /\ c.kind \in {"swap", "topUp"} => Size(c) = 2
  <1>1. /\ Size(c) \in 1..3 /\ E!Emitted(c)[1] = Moved(c)
        /\ c.memo => Size(c) >= 2 /\ E!Emitted(c)[2] = Noted(c)
        /\ Owning(c) => Size(c) >= 2 /\ E!Emitted(c)[Size(c)] = Own(c)
    BY LogsAre
  <1>2. c.memo \in BOOLEAN /\ (c.memo => c.kind \in {"send", "mint", "burn"})
    BY CallIs
  <1>3. /\ Owning(c) <=> c.kind \notin {"send", "place"}
        /\ c.memo /\ Owning(c) => Size(c) = 3
        /\ c.memo /\ ~Owning(c) => Size(c) = 2
        /\ ~c.memo /\ Owning(c) => Size(c) = 2
        /\ ~c.memo /\ ~Owning(c) => Size(c) = 1
    BY DEF Owning, Size
  <1> QED BY <1>1, <1>2, <1>3 DEF Last

LEMMA PartiesAre ==
    ASSUME NEW c \in E!Calls
    PROVE  /\ E!isTransferEvent(Last(c)) /\ Last(c).to = "dex" <=> c.kind = "place"
           /\ E!isTransferEvent(Last(c)) /\ Last(c).from = "dex" <=> c.kind = "swap"
           /\ E!isTransferEvent(Last(c)) => Last(c).to # "channel" /\ Last(c).from # "channel"
           /\ Unfolds(c) => /\ Moved(c).to = "dex" <=> c.kind \in {"swap", "place"}
                            /\ Moved(c).from # "dex" /\ Moved(c).from # "channel"
                            /\ Moved(c).from = c.from
                            /\ Moved(c).to = "channel" <=> c.kind = "topUp"
  <1>1. /\ c.kind \in {"send", "mint", "burn", "block", "topUp", "deposit", "withdraw", "swap",
                       "place"}
        /\ c.from \notin E!KnownAddresses
        /\ c.kind \in {"send", "mint", "burn", "block", "topUp"} => c.to \notin E!KnownAddresses
    BY CallIs
  <1>2. /\ c.from # "dex" /\ c.from # "channel"
        /\ c.kind = "send" => c.to # "dex" /\ c.to # "channel"
    BY <1>1, KnownAre
  <1>3. CASE c.kind = "send"
    <2>1. Last(c) = Noted(c) \/ Last(c) = Moved(c)
      BY <1>3, LastIs
    <2>2. Last(c).from = c.from /\ Last(c).to = c.to
      BY <1>3, <2>1, MovedHas, MovesAre
    <2> QED BY <1>2, <1>3, <2>2 DEF Unfolds
  <1>4. CASE c.kind \in {"mint", "burn", "block", "topUp", "deposit", "withdraw"}
    <2>1. Owning(c) /\ Last(c) = Own(c)
      BY <1>4, LastIs DEF Owning
    <2>2. ~E!isTransferEvent(Last(c))
      BY <1>4, <2>1, TransfersAre
    <2>3. c.kind = "topUp" => Moved(c).to = "channel" /\ Moved(c).from = c.from
      BY MovedHas, MovesAre
    <2> QED BY <1>2, <1>4, <2>2, <2>3 DEF Unfolds
  <1>5. CASE c.kind = "swap"
    <2>1. Owning(c) /\ Last(c) = Own(c)
      BY <1>5, LastIs DEF Owning
    <2>2. E!isTransferEvent(Last(c)) /\ Last(c).from = "dex" /\ Last(c).to = c.from
      BY <1>5, <2>1, TransfersAre
    <2>3. Moved(c).to = "dex" /\ Moved(c).from = c.from
      BY <1>5, MovedHas, MovesAre
    <2> QED BY <1>2, <1>5, <2>2, <2>3
  <1>6. CASE c.kind = "place"
    <2>1. Last(c) = Moved(c) /\ E!isTransferEvent(Moved(c))
      BY <1>6, LastIs, TransfersAre
    <2>2. Moved(c).to = "dex" /\ Moved(c).from = c.from
      BY <1>6, MovedHas, MovesAre
    <2> QED BY <1>2, <1>6, <2>1, <2>2
  <1> QED BY <1>1, <1>3, <1>4, <1>5, <1>6

-----------------------------------------------------------------------------
(* The places of the calls *)

LEMMA PlacesHave ==
    ASSUME NEW cs, NEW events, NEW offset, ReceiptOf(cs, events, offset)
    PROVE  /\ Len(cs) \in Nat /\ Len(events) \in Nat
           /\ \A i \in 1..Len(cs) :
                  /\ cs[i] \in E!Calls /\ cs[i] \in Did(cs)
                  /\ offset[i] \in Nat /\ Size(cs[i]) \in 1..3
                  /\ offset[i] + Size(cs[i]) \in Places(cs, events, offset)
                  /\ offset[i] + Size(cs[i]) # Len(events)
                  /\ events[offset[i] + Size(cs[i])] = Last(cs[i])
                  /\ Unfolds(cs[i]) =>
                         /\ Size(cs[i]) \in 1..2
                         /\ offset[i] + 1 \in Places(cs, events, offset)
                         /\ offset[i] + 1 # Len(events)
                         /\ events[offset[i] + 1] = Moved(cs[i])
           /\ Len(events) \in Places(cs, events, offset)
           /\ events[Len(events)] = E!FeeLog
           /\ \A x \in Places(cs, events, offset) :
                  \/ x = Len(events)
                  \/ \E i \in 1..Len(cs) : x = offset[i] + Size(cs[i])
                  \/ \E i \in 1..Len(cs) : Unfolds(cs[i]) /\ x = offset[i] + 1
  <1> DEFINE n == Len(cs)
             m == Len(events)
             V == Places(cs, events, offset)
  <1>0. cs \in Seq(E!Calls) /\ n \in Nat
    <2>1. cs \in Seq(E!Calls)
      BY DEF ReceiptOf
    <2> QED BY <2>1
  <1>1. /\ m \in Nat /\ m >= 1
        /\ offset \in [1..n -> Nat]
        /\ \A i \in 1..n : offset[i] + Size(cs[i]) < m
        /\ \A i \in 1..n : \A k \in 1..Size(cs[i]) : events[offset[i] + k] = E!Emitted(cs[i])[k]
        /\ events[m] = E!FeeLog
    BY DEF ReceiptOf
  <1>2. \A i \in 1..n : cs[i] \in E!Calls /\ cs[i] \in Did(cs)
    <2>1. ASSUME NEW i \in 1..n PROVE cs[i] \in E!Calls
      BY <1>0
    <2> QED BY <2>1 DEF Did
  <1>3. V = {x \in 1..m : \/ x = m
                          \/ \E i \in 1..n : \/ x = offset[i] + Size(cs[i])
                                             \/ (Unfolds(cs[i]) /\ x = offset[i] + 1)}
    BY DEF Places
  <1> HIDE DEF n, m, V
  <1>4. ASSUME NEW i \in 1..n
        PROVE  /\ offset[i] \in Nat /\ Size(cs[i]) \in 1..3
               /\ offset[i] + Size(cs[i]) \in V /\ offset[i] + Size(cs[i]) # m
               /\ events[offset[i] + Size(cs[i])] = Last(cs[i])
               /\ Unfolds(cs[i]) => /\ Size(cs[i]) \in 1..2
                                    /\ offset[i] + 1 \in V /\ offset[i] + 1 # m
                                    /\ events[offset[i] + 1] = Moved(cs[i])
    <2>1. cs[i] \in E!Calls
      BY <1>2
    <2>2. Size(cs[i]) \in 1..3 /\ E!Emitted(cs[i])[1] = Moved(cs[i])
      BY <2>1, LogsAre
    <2>3. Unfolds(cs[i]) => Size(cs[i]) \in 1..2
      BY <2>1, LastIs DEF Unfolds
    <2>4. offset[i] \in Nat /\ offset[i] + Size(cs[i]) < m /\ m \in Nat
      BY <1>1
    <2>5. offset[i] + Size(cs[i]) \in 1..m /\ offset[i] + 1 \in 1..m /\ offset[i] + 1 # m
      BY <2>2, <2>4
    <2>6. 1 \in 1..Size(cs[i]) /\ Size(cs[i]) \in 1..Size(cs[i])
      BY <2>2
    <2>7. offset[i] + Size(cs[i]) \in V /\ (Unfolds(cs[i]) => offset[i] + 1 \in V)
      BY <1>3, <2>5
    <2>8. /\ events[offset[i] + Size(cs[i])] = Last(cs[i])
          /\ events[offset[i] + 1] = Moved(cs[i])
      BY <1>1, <2>2, <2>6 DEF Last
    <2> QED BY <2>2, <2>3, <2>4, <2>5, <2>7, <2>8
  <1>5. m \in V
    BY <1>1, <1>3
  <1>6. \A x \in V : \/ x = m
                     \/ \E i \in 1..n : x = offset[i] + Size(cs[i])
                     \/ \E i \in 1..n : Unfolds(cs[i]) /\ x = offset[i] + 1
    BY <1>3
  <1> QED BY <1>0, <1>1, <1>2, <1>4, <1>5, <1>6 DEF n, m, V

\* The places of different calls are different.
LEMMA PlacesApart ==
    ASSUME NEW cs, NEW events, NEW offset, ReceiptOf(cs, events, offset),
           NEW i \in 1..Len(cs), NEW j \in 1..Len(cs),
           NEW k \in 1..Size(cs[i]), NEW l \in 1..Size(cs[j])
    PROVE  /\ offset[i] + k = offset[j] + l => i = j /\ k = l
           /\ offset[i] + k < offset[j] + l /\ i # j => i < j
  <1>1. /\ Len(cs) \in Nat /\ offset[i] \in Nat /\ offset[j] \in Nat
        /\ Size(cs[i]) \in 1..3 /\ Size(cs[j]) \in 1..3
    BY PlacesHave
  <1>2. i < j => offset[i] + Size(cs[i]) <= offset[j]
    BY DEF ReceiptOf
  <1>3. j < i => offset[j] + Size(cs[j]) <= offset[i]
    BY DEF ReceiptOf
  <1>4. i < j \/ j < i \/ i = j
    BY <1>1
  <1> DEFINE a == offset[i]
             b == offset[j]
             s == Size(cs[i])
             t == Size(cs[j])
  <1>5. /\ a \in Nat /\ b \in Nat /\ s \in 1..3 /\ t \in 1..3 /\ k \in 1..s /\ l \in 1..t
        /\ i < j => a + s <= b
        /\ j < i => b + t <= a
        /\ i = j => a = b
    BY <1>1, <1>2, <1>3
  <1>6. i \in Int /\ j \in Int
    BY <1>1
  <1> HIDE DEF a, b, s, t
  <1>7. k \in Int /\ l \in Int /\ 1 <= k /\ k <= s /\ 1 <= l /\ l <= t /\ s \in Int /\ t \in Int
    BY <1>5
  <1>8. (a + k = b + l => i = j /\ k = l) /\ (a + k < b + l /\ i # j => i < j)
    BY <1>4, <1>5, <1>6, <1>7
  <1> QED BY <1>8 DEF a, b

-----------------------------------------------------------------------------
(* What is sold and bought *)

LEMMA TransfersOfPlaces ==
    ASSUME NEW cs, NEW events, NEW offset, ReceiptOf(cs, events, offset),
           NEW x \in Places(cs, events, offset)
    PROVE  /\ E!isTransferEvent(events[x]) /\ events[x].to = "dex" <=>
                  \E i \in 1..Len(cs) : cs[i].kind \in {"swap", "place"} /\ x = offset[i] + 1
           /\ E!isTransferEvent(events[x]) /\ events[x].from = "dex" <=>
                  \E i \in 1..Len(cs) : cs[i].kind = "swap" /\ x = offset[i] + 2
           /\ E!isTransferEvent(events[x]) /\ events[x].to = "channel" <=>
                  \E i \in 1..Len(cs) : cs[i].kind = "topUp" /\ x = offset[i] + 1
           /\ E!isTransferEvent(events[x]) => events[x].from # "channel"
  <1> DEFINE n == Len(cs)
             m == Len(events)
             V == Places(cs, events, offset)
  <1>1. \A i \in 1..n :
            /\ cs[i] \in E!Calls
            /\ offset[i] \in Nat /\ Size(cs[i]) \in 1..3
            /\ offset[i] + Size(cs[i]) # m
            /\ events[offset[i] + Size(cs[i])] = Last(cs[i])
            /\ Unfolds(cs[i]) =>
                   /\ Size(cs[i]) \in 1..2
                   /\ offset[i] + 1 # m
                   /\ events[offset[i] + 1] = Moved(cs[i])
    BY PlacesHave
  <1>2. /\ m \in V /\ events[m] = E!FeeLog
        /\ \A y \in V : \/ y = m
                        \/ \E i \in 1..n : y = offset[i] + Size(cs[i])
                        \/ \E i \in 1..n : Unfolds(cs[i]) /\ y = offset[i] + 1
    BY PlacesHave
  <1>3. E!FeeLog.from = "payer" /\ E!FeeLog.to = "feeManager"
    BY LogHas, KnownAre DEF E!FeeLog
  <1>4. \A i \in 1..n :
            /\ E!isTransferEvent(Last(cs[i])) /\ Last(cs[i]).to = "dex" <=> cs[i].kind = "place"
            /\ E!isTransferEvent(Last(cs[i])) /\ Last(cs[i]).from = "dex" <=> cs[i].kind = "swap"
            /\ E!isTransferEvent(Last(cs[i])) =>
                   Last(cs[i]).to # "channel" /\ Last(cs[i]).from # "channel"
            /\ Unfolds(cs[i]) =>
                   /\ Moved(cs[i]).to = "dex" <=> cs[i].kind \in {"swap", "place"}
                   /\ Moved(cs[i]).from # "dex" /\ Moved(cs[i]).from # "channel"
                   /\ Moved(cs[i]).to = "channel" <=> cs[i].kind = "topUp"
            /\ E!isTransferEvent(Moved(cs[i]))
            /\ cs[i].kind = "place" => Size(cs[i]) = 1
            /\ cs[i].kind \in {"swap", "topUp"} => Size(cs[i]) = 2
    BY <1>1, PartiesAre, LastIs, TransfersAre
  <1>5. \A i \in 1..n : Unfolds(cs[i]) <=> cs[i].kind \in {"swap", "place", "topUp"}
    BY DEF Unfolds
  <1>6. \A i \in 1..n, j \in 1..n :
            \A k \in 1..Size(cs[i]), l \in 1..Size(cs[j]) :
                offset[i] + k = offset[j] + l => i = j /\ k = l
    <2>1. ASSUME NEW i \in 1..n, NEW j \in 1..n, NEW k \in 1..Size(cs[i]), NEW l \in 1..Size(cs[j]),
                 offset[i] + k = offset[j] + l
          PROVE  i = j /\ k = l
      BY <2>1, PlacesApart
    <2> QED BY <2>1
  <1> HIDE DEF n, m, V
  <1>7. CASE x = m
    <2>1. events[x].to = "feeManager" /\ events[x].from = "payer"
      BY <1>2, <1>3, <1>7
    <2>2. ASSUME NEW i \in 1..n, cs[i].kind \in {"swap", "place", "topUp"} PROVE x # offset[i] + 1
      BY <1>1, <1>5, <1>7, <2>2
    <2>3. ASSUME NEW i \in 1..n, cs[i].kind = "swap" PROVE x # offset[i] + 2
      <3>1. Size(cs[i]) = 2
        BY <1>4, <2>3
      <3> QED BY <1>1, <1>7, <3>1
    <2> QED BY <2>1, <2>2, <2>3 DEF n
  <1>8. ASSUME NEW i \in 1..n, x = offset[i] + Size(cs[i])
        PROVE  /\ E!isTransferEvent(events[x]) /\ events[x].to = "dex" <=>
                      \E j \in 1..n : cs[j].kind \in {"swap", "place"} /\ x = offset[j] + 1
               /\ E!isTransferEvent(events[x]) /\ events[x].from = "dex" <=>
                      \E j \in 1..n : cs[j].kind = "swap" /\ x = offset[j] + 2
               /\ E!isTransferEvent(events[x]) /\ events[x].to = "channel" <=>
                      \E j \in 1..n : cs[j].kind = "topUp" /\ x = offset[j] + 1
               /\ E!isTransferEvent(events[x]) => events[x].from # "channel"
    <2>1. events[x] = Last(cs[i]) /\ Size(cs[i]) \in 1..3 /\ Size(cs[i]) \in 1..Size(cs[i])
      BY <1>1, <1>8
    <2>2. ASSUME NEW j \in 1..n, cs[j].kind \in {"swap", "place", "topUp"}, x = offset[j] + 1
          PROVE  j = i /\ Size(cs[i]) = 1
      <3>1. 1 \in 1..Size(cs[j])
        BY <1>1
      <3> QED BY <1>6, <1>8, <2>1, <2>2, <3>1
    <2>3. ASSUME NEW j \in 1..n, cs[j].kind = "swap", x = offset[j] + 2
          PROVE  j = i
      <3>1. 2 \in 1..Size(cs[j])
        BY <1>1, <1>4, <2>3
      <3> QED BY <1>6, <1>8, <2>1, <2>3, <3>1
    <2>4. (\E j \in 1..n : cs[j].kind \in {"swap", "place"} /\ x = offset[j] + 1)
              <=> cs[i].kind = "place"
      <3>1. ASSUME NEW j \in 1..n, cs[j].kind \in {"swap", "place"}, x = offset[j] + 1
            PROVE  cs[i].kind = "place"
        BY <1>4, <2>2, <3>1
      <3>2. cs[i].kind = "place" => x = offset[i] + 1
        BY <1>4, <1>8
      <3> QED BY <3>1, <3>2
    <2>5. (\E j \in 1..n : cs[j].kind = "swap" /\ x = offset[j] + 2) <=> cs[i].kind = "swap"
      <3>1. cs[i].kind = "swap" => x = offset[i] + 2
        BY <1>4, <1>8
      <3> QED BY <2>3, <3>1
    <2>6. ~(\E j \in 1..n : cs[j].kind = "topUp" /\ x = offset[j] + 1)
      <3>1. ASSUME NEW j \in 1..n, cs[j].kind = "topUp", x = offset[j] + 1
            PROVE  FALSE
        BY <1>4, <2>2, <3>1
      <3> QED BY <3>1
    <2> QED BY <1>4, <2>1, <2>4, <2>5, <2>6
  <1>9. ASSUME NEW i \in 1..n, Unfolds(cs[i]), x = offset[i] + 1
        PROVE  /\ E!isTransferEvent(events[x]) /\ events[x].to = "dex" <=>
                      \E j \in 1..n : cs[j].kind \in {"swap", "place"} /\ x = offset[j] + 1
               /\ E!isTransferEvent(events[x]) /\ events[x].from = "dex" <=>
                      \E j \in 1..n : cs[j].kind = "swap" /\ x = offset[j] + 2
               /\ E!isTransferEvent(events[x]) /\ events[x].to = "channel" <=>
                      \E j \in 1..n : cs[j].kind = "topUp" /\ x = offset[j] + 1
               /\ E!isTransferEvent(events[x]) => events[x].from # "channel"
    <2>1. events[x] = Moved(cs[i]) /\ 1 \in 1..Size(cs[i])
      BY <1>1, <1>9
    <2>2. ASSUME NEW j \in 1..n, x = offset[j] + 1 PROVE j = i
      <3>1. 1 \in 1..Size(cs[j])
        BY <1>1
      <3> QED BY <1>6, <1>9, <2>1, <2>2, <3>1
    <2>3. ~(\E j \in 1..n : cs[j].kind = "swap" /\ x = offset[j] + 2)
      <3>1. ASSUME NEW j \in 1..n, cs[j].kind = "swap", x = offset[j] + 2 PROVE FALSE
        <4>1. 2 \in 1..Size(cs[j])
          BY <1>1, <1>4, <3>1
        <4> QED BY <1>6, <1>9, <2>1, <3>1, <4>1
      <3> QED BY <3>1
    <2> QED BY <1>4, <1>9, <2>1, <2>2, <2>3
  <1>10. x = m \/ (\E i \in 1..n : x = offset[i] + Size(cs[i]))
             \/ \E i \in 1..n : Unfolds(cs[i]) /\ x = offset[i] + 1
    BY <1>2 DEF V
  <1> QED BY <1>7, <1>8, <1>9, <1>10 DEF n

\* What is paired with what comes back is the transfer of a swap, and what it is
\* paired with is the other transfer of the same swap.
LEMMA SoldAre ==
    ASSUME NEW cs, NEW events, NEW offset, ReceiptOf(cs, events, offset), Unmixed(cs),
           NEW d, Ranked(Places(cs, events, offset), events, d), DOMAIN d \subseteq Int
    PROVE  /\ \A r : r \in E!Sold(d) <=>
                  \E i \in 1..Len(cs) : /\ cs[i].kind = "swap"
                                        /\ r = Rank(Places(cs, events, offset), offset[i] + 1)
           /\ \A i \in 1..Len(cs) : cs[i].kind = "swap" =>
                  E!Min(E!Returns(d, Rank(Places(cs, events, offset), offset[i] + 1)))
                      = Rank(Places(cs, events, offset), offset[i] + 2)
  <1> DEFINE n == Len(cs)
             m == Len(events)
             V == Places(cs, events, offset)
             R(x) == Rank(V, x)
  <1>1. \A i \in 1..n :
            /\ cs[i] \in E!Calls
            /\ offset[i] \in Nat /\ Size(cs[i]) \in 1..3
            /\ offset[i] + Size(cs[i]) \in V
            /\ Unfolds(cs[i]) => offset[i] + 1 \in V
    BY PlacesHave
  <1>2. \A i \in 1..n : /\ cs[i].kind = "swap" => Size(cs[i]) = 2 /\ offset[i] + 2 \in V
                                                  /\ offset[i] + 1 \in V
                        /\ cs[i].kind = "place" => Size(cs[i]) = 1 /\ offset[i] + 1 \in V
    BY <1>1, LastIs DEF Unfolds
  <1>3. /\ V \subseteq Int
        /\ \A x \in V : R(x) \in DOMAIN d /\ R(x) \in Int /\ d[R(x)] = events[x]
        /\ \A r \in DOMAIN d : \E x \in V : r = R(x)
        /\ \A x, y \in V : x < y <=> R(x) < R(y)
        /\ \A x, y \in V : R(x) = R(y) => x = y
    BY DEF Ranked
  <1>4. \A x \in V :
            /\ E!isTransferEvent(events[x]) /\ events[x].to = "dex" <=>
                   \E i \in 1..n : cs[i].kind \in {"swap", "place"} /\ x = offset[i] + 1
            /\ E!isTransferEvent(events[x]) /\ events[x].from = "dex" <=>
                   \E i \in 1..n : cs[i].kind = "swap" /\ x = offset[i] + 2
    BY TransfersOfPlaces
  <1>5. \A r : E!Returns(d, r) =
                   {k \in DOMAIN d : k > r /\ E!isTransferEvent(d[k]) /\ d[k].from = "dex"}
    BY KnownAre DEF E!Returns
  <1>6. E!Sold(d) = {r \in DOMAIN d : /\ E!isTransferEvent(d[r]) /\ d[r].to = "dex"
                                     /\ E!Returns(d, r) # {}}
    BY KnownAre DEF E!Sold
  <1> HIDE DEF n, m, V, R
  \* What comes back after x is of a swap that ends after it.
  <1>7. ASSUME NEW x \in V, NEW k
        PROVE  k \in E!Returns(d, R(x)) <=>
                   \E j \in 1..n : cs[j].kind = "swap" /\ k = R(offset[j] + 2) /\ x < offset[j] + 2
    <2>1. ASSUME k \in E!Returns(d, R(x))
          PROVE  \E j \in 1..n : cs[j].kind = "swap" /\ k = R(offset[j] + 2) /\ x < offset[j] + 2
      <3>1. k \in DOMAIN d /\ k > R(x) /\ E!isTransferEvent(d[k]) /\ d[k].from = "dex"
        BY <1>5, <2>1
      <3>2. PICK y \in V : k = R(y)
        BY <1>3, <3>1
      <3>3. d[k] = events[y]
        BY <1>3, <3>2
      <3>4. PICK j \in 1..n : cs[j].kind = "swap" /\ y = offset[j] + 2
        BY <1>4, <3>1, <3>3
      <3>5. R(x) < R(y) /\ x \in V /\ y \in V
        BY <1>3, <3>1, <3>2
      <3>6. x < y
        BY <1>3, <3>5
      <3> QED BY <3>2, <3>4, <3>6
    <2>2. ASSUME NEW j \in 1..n, cs[j].kind = "swap", k = R(offset[j] + 2), x < offset[j] + 2
          PROVE  k \in E!Returns(d, R(x))
      <3>1. offset[j] + 2 \in V
        BY <1>2, <2>2
      <3>2. k \in DOMAIN d /\ d[k] = events[offset[j] + 2] /\ R(x) < k /\ k \in Int /\ R(x) \in Int
        BY <1>3, <2>2, <3>1
      <3>3. E!isTransferEvent(d[k]) /\ d[k].from = "dex"
        BY <1>4, <2>2, <3>1, <3>2
      <3> QED BY <1>5, <3>2, <3>3
    <2> QED BY <2>1, <2>2
  <1>8. ASSUME NEW i \in 1..n, cs[i].kind = "swap"
        PROVE  R(offset[i] + 1) \in E!Sold(d)
               /\ E!Min(E!Returns(d, R(offset[i] + 1))) = R(offset[i] + 2)
    <2> DEFINE x == offset[i] + 1
               y == offset[i] + 2
    <2>1. x \in V /\ y \in V /\ x < y /\ y = x + 1
      BY <1>1, <1>2, <1>8
    <2>2. R(y) \in E!Returns(d, R(x))
      BY <1>7, <1>8, <2>1
    <2>3. E!isTransferEvent(events[x]) /\ events[x].to = "dex"
      BY <1>4, <1>8, <2>1
    <2> HIDE DEF x, y
    <2>4. R(x) \in DOMAIN d /\ d[R(x)] = events[x]
      BY <1>3, <2>1
    <2>5. R(x) \in E!Sold(d)
      BY <1>6, <2>2, <2>3, <2>4
    <2>6. ASSUME NEW k \in E!Returns(d, R(x)) PROVE R(y) <= k /\ k \in Int
      <3>1. PICK j \in 1..n : cs[j].kind = "swap" /\ k = R(offset[j] + 2) /\ x < offset[j] + 2
        BY <1>7, <2>1, <2>6
      <3>2. offset[j] + 2 \in V /\ offset[j] + 2 \in Int /\ x \in Int /\ y \in Int
        BY <1>2, <1>3, <2>1, <3>1
      <3>3. ~(offset[j] + 2 < y)
        BY <2>1, <3>1, <3>2
      <3>4. ~(R(offset[j] + 2) < R(y)) /\ R(offset[j] + 2) \in Int /\ R(y) \in Int
        BY <1>3, <2>1, <3>2, <3>3
      <3> QED BY <3>1, <3>4
    <2>7. \A z : (z \in E!Returns(d, R(x)) /\ \A k \in E!Returns(d, R(x)) : z <= k) => z = R(y)
      BY <2>2, <2>6
    <2>8. R(y) \in E!Returns(d, R(x)) /\ \A k \in E!Returns(d, R(x)) : R(y) <= k
      BY <2>2, <2>6
    <2>9. E!Min(E!Returns(d, R(x))) = R(y)
      BY <2>7, <2>8 DEF E!Min
    <2> QED BY <2>5, <2>9 DEF x, y
  <1>9. ASSUME NEW r \in E!Sold(d)
        PROVE  \E i \in 1..n : cs[i].kind = "swap" /\ r = R(offset[i] + 1)
    <2>1. r \in DOMAIN d /\ E!isTransferEvent(d[r]) /\ d[r].to = "dex" /\ E!Returns(d, r) # {}
      BY <1>6
    <2>2. PICK x \in V : r = R(x)
      BY <1>3, <2>1
    <2>3. PICK i \in 1..n : cs[i].kind \in {"swap", "place"} /\ x = offset[i] + 1
      BY <1>3, <1>4, <2>1, <2>2
    <2>4. PICK k : k \in E!Returns(d, R(x))
      BY <2>1, <2>2
    <2>5. PICK j \in 1..n : cs[j].kind = "swap" /\ x < offset[j] + 2
      BY <1>7, <2>4
    <2>6. CASE cs[i].kind = "place"
      <3>1. i # j /\ offset[i] + 1 < offset[j] + 2
        BY <2>3, <2>5, <2>6
      <3>2. 1 \in 1..Size(cs[i]) /\ 2 \in 1..Size(cs[j])
        BY <1>2, <2>5, <2>6
      <3>3. i < j
        BY <3>1, <3>2, PlacesApart DEF n
      <3> QED BY <2>5, <2>6, <3>3 DEF Unmixed, n
    <2> QED BY <2>2, <2>3, <2>6
  <1> QED BY <1>8, <1>9 DEF n, V, R

-----------------------------------------------------------------------------
(* What is told of a log *)

LEMMA OwnHas ==
    ASSUME NEW c
    PROVE  /\ c.kind = "mint" => /\ Own(c).eventName = "Mint" /\ Own(c).address = c.token
                                 /\ Own(c).to = c.to /\ Own(c).from = c.from
                                 /\ Own(c).token = c.token /\ Own(c).amount = c.amount
           /\ c.kind = "burn" => /\ Own(c).eventName = "Burn" /\ Own(c).address = c.token
                                 /\ Own(c).from = c.from
                                 /\ Own(c).token = c.token /\ Own(c).amount = c.amount
           /\ c.kind = "deposit" => /\ Own(c).eventName = "DepositMade" /\ Own(c).address = "portal"
                                    /\ Own(c).from = c.from /\ Own(c).token = c.token
                                    /\ Own(c).amount = c.amount - E!Fee
           /\ c.kind = "withdraw" => /\ Own(c).eventName = "WithdrawalProcessed"
                                     /\ Own(c).address = "portal" /\ Own(c).to = c.from
                                     /\ Own(c).token = c.token /\ Own(c).amount = c.amount
           /\ c.kind = "block" => /\ Own(c).eventName = "TransferBlocked"
                                  /\ Own(c).from = c.from /\ Own(c).to = c.to
                                  /\ Own(c).token = c.token /\ Own(c).amount = c.amount
           /\ c.kind = "topUp" => /\ Own(c).eventName = "TopUp" /\ Own(c).address = "channel"
                                  /\ Own(c).from = c.from /\ Own(c).to = c.to
                                  /\ Own(c).token = c.token /\ Own(c).amount = c.amount
           /\ c.kind = "swap" => Own(c).token = E!Bought(c.token) /\ Own(c).amount = c.amount
  <1>1. E!Portal = "portal" /\ E!STREAM_CHANNEL = "channel"
    BY KnownAre
  <1>2. CASE c.kind = "mint"
    <2>1. Own(c) = E!Log("Mint", c.token, c.from, c.to, c.token, c.amount)
      BY <1>2 DEF Own
    <2> QED BY <1>2, <2>1, LogHas
  <1>3. CASE c.kind = "burn"
    <2>1. Own(c) = E!Log("Burn", c.token, c.from, c.to, c.token, c.amount)
      BY <1>3 DEF Own
    <2> QED BY <1>3, <2>1, LogHas
  <1>4. CASE c.kind = "deposit"
    <2>1. Own(c) = E!Log("DepositMade", "portal", c.from, "portal", c.token, c.amount - E!Fee)
      BY <1>1, <1>4 DEF Own
    <2> QED BY <1>4, <2>1, LogHas
  <1>5. CASE c.kind = "withdraw"
    <2>1. Own(c) = E!Log("WithdrawalProcessed", "portal", "portal", c.from, c.token, c.amount)
      BY <1>1, <1>5 DEF Own
    <2> QED BY <1>5, <2>1, LogHas
  <1>6. CASE c.kind = "block"
    <2>1. Own(c) = E!Log("TransferBlocked", E!RECEIVE_POLICY_GUARD, c.from, c.to, c.token,
                            c.amount)
      BY <1>6 DEF Own
    <2> QED BY <1>6, <2>1, LogHas
  <1>7. CASE c.kind = "topUp"
    <2>1. Own(c) = E!Log("TopUp", "channel", c.from, c.to, c.token, c.amount)
      BY <1>1, <1>7 DEF Own
    <2> QED BY <1>7, <2>1, LogHas
  <1>8. CASE c.kind = "swap"
    <2>1. Own(c) = E!Log("Transfer", E!Bought(c.token), E!STABLECOIN_EXCHANGE, c.from,
                            E!Bought(c.token), c.amount)
      BY <1>8 DEF Own
    <2> QED BY <1>8, <2>1, LogHas
  <1> QED BY <1>2, <1>3, <1>4, <1>5, <1>6, <1>7, <1>8

\* A mint or a burn has the memo that it was made with.
LEMMA MemoIsFound ==
    ASSUME NEW D, NEW events, Emits(D, events), ToldApart(D), NEW c \in D
    PROVE  /\ c.kind = "mint" => (E!HasMemo(events, "zero", c.to, Own(c)) <=> c.memo)
           /\ c.kind = "burn" => (E!HasMemo(events, c.from, "zero", Own(c)) <=> c.memo)
  <1>1. \A d \in D : d \in E!Calls
    BY DEF Emits
  <1>2. \A e : e \in E!Named(events, {"TransferWithMemo"}) <=> \E d \in D : d.memo /\ e = Noted(d)
    BY NamedAre
  <1>3. \A f, t, e : E!HasMemo(events, f, t, e) <=>
            \E d \in D : /\ d.memo /\ d.token = e.address /\ d.amount = e.amount
                         /\ Sender(d) = f /\ Recipient(d) = t
    BY <1>2, MovedHas DEF E!HasMemo
  <1>4. \A d \in D : /\ d.memo => d.kind \in {"send", "mint", "burn"}
                     /\ d.kind = "send" => Sender(d) = d.from /\ Recipient(d) = d.to
                     /\ d.kind = "mint" => Sender(d) = "zero" /\ Recipient(d) = d.to
                     /\ d.kind = "burn" => Sender(d) = d.from /\ Recipient(d) = "zero"
                     /\ d.kind \in {"mint", "send"} => d.to \notin E!KnownAddresses
                     /\ d.from \notin E!KnownAddresses
    BY <1>1, CallIs, MovesAre
  <1>5. \A x : x \notin E!KnownAddresses => x # "zero"
    BY KnownAre
  <1>6. CASE c.kind = "mint"
    <2>1. Own(c).address = c.token /\ Own(c).amount = c.amount
      BY <1>6, OwnHas
    <2>2. ASSUME NEW d \in D, d.memo, d.token = c.token, d.amount = c.amount,
                 Sender(d) = "zero", Recipient(d) = c.to
          PROVE  c.memo
      <3>1. d.kind = "mint" /\ d.to = c.to
        BY <1>4, <1>5, <2>2
      <3>2. c.memo = d.memo
        BY <1>6, <2>2, <3>1 DEF ToldApart
      <3> QED BY <2>2, <3>2
    <2> QED BY <1>3, <1>4, <1>6, <2>1, <2>2
  <1>7. CASE c.kind = "burn"
    <2>1. Own(c).address = c.token /\ Own(c).amount = c.amount
      BY <1>7, OwnHas
    <2>2. ASSUME NEW d \in D, d.memo, d.token = c.token, d.amount = c.amount,
                 Sender(d) = c.from, Recipient(d) = "zero"
          PROVE  c.memo
      <3>1. d.kind = "burn" /\ d.from = c.from
        BY <1>4, <1>5, <2>2
      <3>2. c.memo = d.memo
        BY <1>7, <2>2, <3>1 DEF ToldApart
      <3> QED BY <2>2, <3>2
    <2> QED BY <1>3, <1>4, <1>7, <2>1, <2>2
  <1> QED BY <1>6, <1>7

\* The token of a channel is that of the call that paid into it.
LEMMA ChannelTokenIs ==
    ASSUME NEW cs, NEW events, NEW offset, ReceiptOf(cs, events, offset), Unmixed(cs),
           NEW d, Ranked(Places(cs, events, offset), events, d), DOMAIN d \subseteq Nat,
           NEW i \in 1..Len(cs), cs[i].kind = "topUp"
    PROVE  E!streamChannelToken(d, Own(cs[i])) = cs[i].token
  <1> DEFINE n == Len(cs)
             V == Places(cs, events, offset)
             c == cs[i]
             R(x) == Rank(V, x)
             W == {r \in DOMAIN d :
                     /\ E!isTransferEvent(d[r])
                     /\ \/ d[r].to = "channel" /\ d[r].from \in {c.from, c.to}
                        \/ d[r].from = "channel" /\ d[r].to \in {c.from, c.to}}
  <1>1. \A j \in 1..n :
            /\ cs[j] \in E!Calls /\ cs[j] \in Did(cs)
            /\ Unfolds(cs[j]) => offset[j] + 1 \in V /\ events[offset[j] + 1] = Moved(cs[j])
    BY PlacesHave
  <1>2. /\ \A x \in V : R(x) \in DOMAIN d /\ d[R(x)] = events[x]
        /\ \A r \in DOMAIN d : \E x \in V : r = R(x)
    BY DEF Ranked
  <1>3. \A x \in V : /\ E!isTransferEvent(events[x]) /\ events[x].to = "channel" <=>
                            \E j \in 1..n : cs[j].kind = "topUp" /\ x = offset[j] + 1
                     /\ E!isTransferEvent(events[x]) => events[x].from # "channel"
    BY TransfersOfPlaces
  <1>4. Own(c).from = c.from /\ Own(c).to = c.to
    BY OwnHas
  <1>5. E!streamChannelToken(d, Own(c)) = d[E!Min(W)].address
    BY <1>4, KnownAre DEF E!streamChannelToken
  <1>6. \A j \in 1..n : cs[j].kind = "topUp" =>
            Moved(cs[j]).from = cs[j].from /\ Moved(cs[j]).address = cs[j].token
    BY <1>1, MovedHas, MovesAre
  <1> HIDE DEF n, V, R
  <1>7. R(offset[i] + 1) \in W
    <2>1. offset[i] + 1 \in V /\ events[offset[i] + 1] = Moved(c)
      BY <1>1 DEF Unfolds, n
    <2>2. E!isTransferEvent(events[offset[i] + 1]) /\ events[offset[i] + 1].to = "channel"
      BY <1>3, <2>1 DEF n
    <2>3. Moved(c).from = c.from
      BY <1>6 DEF n
    <2> QED BY <1>2, <2>1, <2>2, <2>3
  <1>8. ASSUME NEW r \in W PROVE d[r].address = c.token
    <2>1. PICK x \in V : r = R(x)
      BY <1>2
    <2>2. d[r] = events[x]
      BY <1>2, <2>1
    <2>3. events[x].to = "channel" /\ events[x].from \in {c.from, c.to} /\ E!isTransferEvent(events[x])
      BY <1>3, <2>2
    <2>4. PICK j \in 1..n : cs[j].kind = "topUp" /\ x = offset[j] + 1
      BY <1>3, <2>3
    <2>5. events[x] = Moved(cs[j])
      BY <1>1, <2>4 DEF Unfolds
    <2>6. cs[j].from \in {c.from, c.to}
      BY <1>6, <2>3, <2>4, <2>5
    <2>7. cs[j].token = c.token
      BY <1>1, <2>4, <2>6 DEF Unmixed, ToldApart, n
    <2> QED BY <1>6, <2>2, <2>4, <2>5, <2>7
  <1>9. E!Min(W) \in W
    <2>1. W \subseteq Nat /\ W # {}
      BY <1>7
    <2> HIDE DEF W
    <2>2. \E l \in W : \A k \in W : l <= k
      BY <2>1, LeastNatural
    <2> QED BY <2>2 DEF E!Min
  <1> HIDE DEF W
  <1> QED BY <1>5, <1>8, <1>9 DEF W

\* The last log of a call is told as what the call did.
LEMMA DetectedIsTold ==
    ASSUME NEW cs, NEW events, NEW offset, ReceiptOf(cs, events, offset), Unmixed(cs),
           NEW d, Ranked(Places(cs, events, offset), events, d), DOMAIN d \subseteq Nat,
           NEW i \in 1..Len(cs), cs[i].kind # "swap"
    PROVE  E!Detected(events, d, Last(cs[i])) = E!Told(cs[i])
  <1> DEFINE c == cs[i]
             D == Did(cs)
             e == Last(c)
  <1>1. c \in E!Calls /\ c \in D
    BY PlacesHave
  <1>2. Emits(D, events) /\ ToldApart(D)
    BY ReceiptEmits DEF Unmixed
  <1>3. \A t : t \in E!zonePortals(events) => t = "portal"
    BY <1>2, PortalsAre, KnownAre
  <1>4. /\ c.kind \in {"send", "mint", "burn", "block", "topUp", "deposit", "withdraw", "swap",
                       "place"}
        /\ c.memo \in BOOLEAN /\ (c.memo => c.kind \in {"send", "mint", "burn"})
        /\ c.from \notin E!KnownAddresses
        /\ c.kind \in {"send", "mint", "burn", "block", "topUp"} => c.to \notin E!KnownAddresses
    BY <1>1, CallIs
  <1>5. E!FEE_MANAGER = "feeManager" /\ E!Portal = "portal" /\ E!zeroAddress = "zero"
        /\ E!STABLECOIN_EXCHANGE = "dex"
    BY KnownAre
  <1>6. CASE c.kind \in {"send", "place"}
    <2> DEFINE t == IF c.kind = "send" THEN c.to ELSE "dex"
    <2>1. /\ E!isTransferEvent(e) /\ e.from = c.from /\ e.to = t
          /\ e.token = c.token /\ e.amount = c.amount
          /\ e.eventName = IF c.memo THEN "TransferWithMemo" ELSE "Transfer"
      <3>1. e = (IF c.memo THEN Noted(c) ELSE Moved(c))
        BY <1>1, <1>4, <1>6, LastIs
      <3>2. Sender(c) = c.from /\ Recipient(c) = t
        BY <1>1, <1>6, MovesAre
      <3>3. E!isTransferEvent(Moved(c)) /\ E!isTransferEvent(Noted(c))
        BY <1>1, TransfersAre
      <3> HIDE DEF e, t
      <3> QED BY <3>1, <3>2, <3>3, MovedHas
    <2>2. t # "feeManager" /\ t \notin E!zonePortals(events) /\ c.from \notin E!zonePortals(events)
      BY <1>3, <1>4, <1>6, KnownAre
    <2>3. E!Detected(events, d, e) =
              E!Event("send", <<<<e.token, e.amount>>>>, e.from, e.to, e.eventName = "TransferWithMemo")
      <3> HIDE DEF e, t
      <3> QED BY <1>5, <2>1, <2>2 DEF E!Detected
    <2>4. E!Told(c) = E!Event("send", <<<<c.token, c.amount>>>>, c.from, t, c.memo)
      BY <1>4, <1>5, <1>6 DEF E!Told
    <2>5. (e.eventName = "TransferWithMemo") = c.memo
      BY <1>4, <2>1
    <2> HIDE DEF e, t
    <2>6. E!Detected(events, d, e) = E!Told(c)
      BY <2>1, <2>3, <2>4, <2>5
    <2> QED BY <2>6 DEF e
  <1>7. CASE c.kind \notin {"send", "place"}
    <2>1. e = Own(c)
      BY <1>1, <1>7, LastIs
    <2>2. ~E!isTransferEvent(e)
      BY <1>1, <1>7, <2>1, TransfersAre DEF Owning
    <2> HIDE DEF e
    <2>3. CASE c.kind = "mint"
      <3>1. /\ e.eventName = "Mint" /\ e.to = c.to /\ e.token = c.token /\ e.amount = c.amount
        BY <2>1, <2>3, OwnHas
      <3>2. E!HasMemo(events, "zero", c.to, e) = c.memo
        <4>1. E!HasMemo(events, "zero", c.to, e) <=> c.memo
          BY <1>1, <1>2, <2>1, <2>3, MemoIsFound
        <4> QED BY <1>4, <4>1 DEF E!HasMemo
      <3>3. E!Detected(events, d, e) =
                E!Event("mint", <<<<e.token, e.amount>>>>, E!Nobody, e.to,
                        E!HasMemo(events, "zero", c.to, e))
        BY <1>5, <2>2, <3>1 DEF E!Detected
      <3>4. E!Told(c) = E!Event("mint", <<<<c.token, c.amount>>>>, E!Nobody, c.to, c.memo)
        BY <2>3 DEF E!Told
      <3> QED BY <3>1, <3>2, <3>3, <3>4 DEF e
    <2>4. CASE c.kind = "burn"
      <3>1. /\ e.eventName = "Burn" /\ e.from = c.from /\ e.token = c.token /\ e.amount = c.amount
        BY <2>1, <2>4, OwnHas
      <3>2. E!HasMemo(events, c.from, "zero", e) = c.memo
        <4>1. E!HasMemo(events, c.from, "zero", e) <=> c.memo
          BY <1>1, <1>2, <2>1, <2>4, MemoIsFound
        <4> QED BY <1>4, <4>1 DEF E!HasMemo
      <3>3. E!Detected(events, d, e) =
                E!Event("burn", <<<<e.token, e.amount>>>>, E!Nobody, e.from,
                        E!HasMemo(events, c.from, "zero", e))
        BY <1>5, <2>2, <3>1 DEF E!Detected
      <3>4. E!Told(c) = E!Event("burn", <<<<c.token, c.amount>>>>, E!Nobody, c.from, c.memo)
        BY <2>4 DEF E!Told
      <3> QED BY <3>1, <3>2, <3>3, <3>4 DEF e
    <2>5. CASE c.kind = "deposit"
      <3>1. /\ e.eventName = "DepositMade" /\ e.from = c.from /\ e.address = "portal"
            /\ e.token = c.token /\ e.amount = c.amount - E!Fee
        BY <2>1, <2>5, OwnHas
      <3>2. E!Detected(events, d, e) =
                E!Event("zone deposit", <<<<e.token, e.amount>>>>, e.from, e.address, FALSE)
        BY <1>5, <2>2, <3>1 DEF E!Detected
      <3>3. E!Told(c) = E!Event("zone deposit", <<<<c.token, c.amount - E!Fee>>>>, c.from,
                                E!Portal, FALSE)
        BY <2>5 DEF E!Told
      <3> QED BY <1>5, <3>1, <3>2, <3>3 DEF e
    <2>6. CASE c.kind = "withdraw"
      <3>1. /\ e.eventName = "WithdrawalProcessed" /\ e.to = c.from /\ e.address = "portal"
            /\ e.token = c.token /\ e.amount = c.amount
        BY <2>1, <2>6, OwnHas
      <3>2. E!Detected(events, d, e) =
                E!Event("zone withdrawal", <<<<e.token, e.amount>>>>, e.address, e.to, FALSE)
        BY <1>5, <2>2, <3>1 DEF E!Detected
      <3>3. E!Told(c) = E!Event("zone withdrawal", <<<<c.token, c.amount>>>>, E!Portal, c.from,
                                c.memo)
        BY <2>6 DEF E!Told
      <3>4. c.memo = FALSE
        BY <1>4, <2>6
      <3> QED BY <1>5, <3>1, <3>2, <3>3, <3>4 DEF e
    <2>7. CASE c.kind = "block"
      <3>1. /\ e.eventName = "TransferBlocked" /\ e.from = c.from /\ e.to = c.to
            /\ e.token = c.token /\ e.amount = c.amount
        BY <2>1, <2>7, OwnHas
      <3>2. E!Detected(events, d, e) =
                E!Event("transfer blocked", <<<<e.token, e.amount>>>>, e.from, e.to, FALSE)
        BY <1>5, <2>2, <3>1 DEF E!Detected
      <3>3. E!Told(c) = E!Event("transfer blocked", <<<<c.token, c.amount>>>>, c.from, c.to, c.memo)
        BY <2>7 DEF E!Told
      <3>4. c.memo = FALSE
        BY <1>4, <2>7
      <3> QED BY <3>1, <3>2, <3>3, <3>4 DEF e
    <2>8. CASE c.kind = "topUp"
      <3>1. /\ e.eventName = "TopUp" /\ e.from = c.from /\ e.to = c.to
            /\ e.token = c.token /\ e.amount = c.amount
        BY <2>1, <2>8, OwnHas
      <3>2. E!Detected(events, d, e) =
                E!Event("top up channel", <<<<E!streamChannelToken(d, e), e.amount>>>>,
                        e.from, e.to, FALSE)
        BY <1>5, <2>2, <3>1 DEF E!Detected
      <3>3. E!streamChannelToken(d, e) = c.token
        BY <2>1, <2>8, ChannelTokenIs
      <3>4. E!Told(c) = E!Event("top up channel", <<<<c.token, c.amount>>>>, c.from, c.to, c.memo)
        BY <2>8 DEF E!Told
      <3>5. c.memo = FALSE
        BY <1>4, <2>8
      <3> QED BY <3>1, <3>2, <3>3, <3>4, <3>5 DEF e
    <2> QED BY <1>4, <1>7, <2>3, <2>4, <2>5, <2>6, <2>7, <2>8
  <1> QED BY <1>6, <1>7

LEMMA FeeIsDetected ==
    ASSUME NEW D, NEW events, Emits(D, events), NEW d
    PROVE  E!Detected(events, d, E!FeeLog) =
               E!Event("fee transfer", <<<<"feeToken", E!Fee>>>>, "payer", "feeManager", FALSE)
  <1>1. \A t : t \in E!zonePortals(events) => t = "portal"
    BY PortalsAre, KnownAre
  <1>2. /\ E!FeeLog.from = "payer" /\ E!FeeLog.to = "feeManager" /\ E!FeeLog.eventName = "Transfer"
        /\ E!FeeLog.token = "feeToken" /\ E!FeeLog.amount = E!Fee
    BY LogHas, KnownAre DEF E!FeeLog
  <1>3. E!FEE_MANAGER = "feeManager" /\ E!zeroAddress = "zero"
    BY KnownAre
  <1>4. E!isTransferEvent(E!FeeLog)
    BY <1>2 DEF E!isTransferEvent
  <1> QED BY <1>1, <1>2, <1>3, <1>4 DEF E!Detected

-----------------------------------------------------------------------------
(* All that is told *)

LEMMA BothKeptOccur ==
    ASSUME NEW a, NEW I, AreNumbers(I), NEW b, NEW J, AreNumbers(J)
    PROVE  /\ Len(E!Kept(a, I) \o E!Kept(b, J)) = Cardinality(I) + Cardinality(J)
           /\ \E K : E!Kept(a, I) \o E!Kept(b, J) \in Seq(K)
           /\ \A e : E!Times(e, E!Kept(a, I) \o E!Kept(b, J))
                         = Cardinality(Found(a, I, e)) + Cardinality(Found(b, J, e))
  <1> DEFINE K == {a[x] : x \in I}
             M == {b[x] : x \in J}
             s == E!Kept(a, I)
             t == E!Kept(b, J)
  <1>1. s \in Seq(K)
    BY KeptIsSeq
  <1>2. t \in Seq(M)
    BY KeptIsSeq
  <1>3. Len(s) = Cardinality(I) /\ Len(t) = Cardinality(J)
    BY KeptIs
  <1>4. \A e : E!Times(e, s) = Cardinality(Found(a, I, e))
    BY KeptOccur
  <1>5. \A e : E!Times(e, t) = Cardinality(Found(b, J, e))
    BY KeptOccur
  <1> HIDE DEF K, M, s, t
  <1>6. s \in Seq(K \cup M) /\ t \in Seq(K \cup M)
    BY <1>1, <1>2
  <1>7. ASSUME NEW e PROVE E!Times(e, s \o t) = E!Times(e, s) + E!Times(e, t)
    BY <1>6, BothOccur
  <1>8. Len(s \o t) = Len(s) + Len(t) /\ s \o t \in Seq(K \cup M)
    BY <1>6
  <1> QED BY <1>3, <1>4, <1>5, <1>7, <1>8 DEF s, t

\* What is found in two parts is found in the whole.
LEMMA FoundInParts ==
    ASSUME NEW f, NEW I, NEW J, IsFiniteSet(I), IsFiniteSet(J), I \cap J = {}, NEW e
    PROVE  /\ Cardinality(Found(f, I, e)) + Cardinality(Found(f, J, e))
                  = Cardinality(Found(f, I \cup J, e))
           /\ Cardinality(I \cup J) = Cardinality(I) + Cardinality(J)
  <1> DEFINE K == Found(f, I, e)
             M == Found(f, J, e)
  <1>1. K \subseteq I /\ M \subseteq J /\ Found(f, I \cup J, e) = K \cup M /\ K \cap M = {}
    BY DEF Found
  <1> HIDE DEF K, M
  <1>2. IsFiniteSet(K)
    BY <1>1, FS_Subset
  <1>3. IsFiniteSet(M)
    BY <1>1, FS_Subset
  <1>4. Cardinality(K \cup M) = Cardinality(K) + Cardinality(M)
    <2>1. Cardinality(K \cup M) = Cardinality(K) + Cardinality(M) - Cardinality(K \cap M)
      BY <1>2, <1>3, FS_Union
    <2>2. Cardinality(K) \in Nat /\ Cardinality(M) \in Nat
      BY <1>2, <1>3, FS_CardinalityType
    <2>3. Cardinality(K \cap M) = 0
      BY <1>1, FS_EmptySet
    <2> QED BY <2>1, <2>2, <2>3
  <1>5. Cardinality(I \cup J) = Cardinality(I) + Cardinality(J)
    <2>1. Cardinality(I \cup J) = Cardinality(I) + Cardinality(J) - Cardinality(I \cap J)
      BY FS_Union
    <2>2. Cardinality(I) \in Nat /\ Cardinality(J) \in Nat
      BY FS_CardinalityType
    <2>3. Cardinality(I \cap J) = 0
      BY FS_EmptySet
    <2> QED BY <2>1, <2>2, <2>3
  <1> QED BY <1>1, <1>4, <1>5 DEF K, M

LEMMA ToldTypes ==
    ASSUME NEW c \in E!Calls PROVE E!Told(c).type # "fee transfer"
  <1>1. \A t, a, f, o, n : E!Event(t, a, f, o, n).type = t
    BY DEF E!Event
  <1>2. c.kind \in {"send", "mint", "burn", "block", "topUp", "deposit", "withdraw", "swap", "place"}
    BY CallIs
  <1>3. CASE c.kind = "send"
    BY <1>1, <1>3 DEF E!Told
  <1>4. CASE c.kind = "mint"
    BY <1>1, <1>4 DEF E!Told
  <1>5. CASE c.kind = "burn"
    BY <1>1, <1>5 DEF E!Told
  <1>6. CASE c.kind = "block"
    BY <1>1, <1>6 DEF E!Told
  <1>7. CASE c.kind = "topUp"
    BY <1>1, <1>7 DEF E!Told
  <1>8. CASE c.kind = "deposit"
    BY <1>1, <1>8 DEF E!Told
  <1>9. CASE c.kind = "withdraw"
    BY <1>1, <1>9 DEF E!Told
  <1>10. CASE c.kind = "swap"
    BY <1>1, <1>10 DEF E!Told
  <1>11. CASE c.kind = "place"
    BY <1>1, <1>11 DEF E!Told
  <1> QED BY <1>2, <1>3, <1>4, <1>5, <1>6, <1>7, <1>8, <1>9, <1>10, <1>11

LEMMA SwapIsTold ==
    ASSUME NEW c \in E!Calls, c.kind = "swap"
    PROVE  E!Swap(Moved(c), Own(c)) = E!Told(c)
  <1>1. /\ Moved(c).token = c.token /\ Moved(c).amount = c.amount
        /\ Own(c).token = E!Bought(c.token) /\ Own(c).amount = c.amount
    BY MovedHas, OwnHas
  <1>2. E!Swap(Moved(c), Own(c)) =
            E!Event("swap", <<<<c.token, c.amount>>, <<E!Bought(c.token), c.amount>>>>,
                    E!Nobody, E!Nobody, FALSE)
    BY <1>1 DEF E!Swap
  <1> QED BY <1>2 DEF E!Told

\* Only the transfers of top-ups are taken for the channel's.
LEMMA ChannelAre ==
    ASSUME NEW cs, NEW events, NEW offset, ReceiptOf(cs, events, offset),
           NEW d, Ranked(Places(cs, events, offset), events, d),
           NEW x \in Places(cs, events, offset)
    PROVE  E!IsOfChannel(d, events[x])
               <=> \E i \in 1..Len(cs) : cs[i].kind = "topUp" /\ x = offset[i] + 1
  <1> DEFINE n == Len(cs)
             V == Places(cs, events, offset)
             R(y) == Rank(V, y)
             Touches(y) == E!isTransferEvent(events[y]) /\ "channel" \in {events[y].from, events[y].to}
  <1>1. Touches(x) <=> \E i \in 1..n : cs[i].kind = "topUp" /\ x = offset[i] + 1
    BY TransfersOfPlaces
  <1>2. E!IsOfChannel(d, events[x])
            <=> (\E f \in E!ToSet(d) : f.address = "channel") /\ Touches(x)
    BY KnownAre DEF E!IsOfChannel
  <1>3. ASSUME NEW i \in 1..n, cs[i].kind = "topUp"
        PROVE  \E f \in E!ToSet(d) : f.address = "channel"
    <2>1. /\ cs[i] \in E!Calls
          /\ offset[i] + Size(cs[i]) \in V
          /\ events[offset[i] + Size(cs[i])] = Last(cs[i])
      BY PlacesHave
    <2>2. Last(cs[i]).address = "channel"
      BY <1>3, <2>1, LastIs, OwnHas
    <2>3. R(offset[i] + Size(cs[i])) \in DOMAIN d /\ d[R(offset[i] + Size(cs[i]))] = Last(cs[i])
      BY <2>1 DEF Ranked
    <2>4. Last(cs[i]) \in E!ToSet(d)
      BY <2>3 DEF E!ToSet
    <2> QED BY <2>2, <2>4
  <1> HIDE DEF Touches
  <1> QED BY <1>1, <1>2, <1>3

\* What is told in place of the logs of the swaps is what is left beside the
\* last log of every other call, and the fee.
LEMMA MappedAre ==
    ASSUME NEW cs, NEW events, NEW offset, ReceiptOf(cs, events, offset), Unmixed(cs),
           NEW d, Ranked(Places(cs, events, offset), events, d), DOMAIN d \subseteq Nat,
           NEW r \in DOMAIN d
    PROVE  /\ r \notin E!Sold(d) \cup {E!Min(E!Returns(d, k)) : k \in E!Sold(d)}
           /\ ~E!IsOfChannel(d, d[r])
           <=>
           \/ r = Rank(Places(cs, events, offset), Len(events))
           \/ \E i \in 1..Len(cs) :
                  /\ cs[i].kind # "swap"
                  /\ r = Rank(Places(cs, events, offset), offset[i] + Size(cs[i]))
  <1> DEFINE n == Len(cs)
             m == Len(events)
             V == Places(cs, events, offset)
             R(x) == Rank(V, x)
             So == E!Sold(d)
             SI == So \cup {E!Min(E!Returns(d, k)) : k \in So}
  <1>1. /\ \A i \in 1..n :
               /\ cs[i] \in E!Calls
               /\ offset[i] \in Nat /\ Size(cs[i]) \in 1..3
               /\ offset[i] + Size(cs[i]) \in V /\ offset[i] + Size(cs[i]) # m
               /\ Unfolds(cs[i]) => /\ offset[i] + 1 \in V /\ offset[i] + 1 # m
        /\ m \in V
        /\ \A x \in V : \/ x = m
                        \/ \E i \in 1..n : x = offset[i] + Size(cs[i])
                        \/ \E i \in 1..n : Unfolds(cs[i]) /\ x = offset[i] + 1
    BY PlacesHave
  <1>2. /\ \A x \in V : d[R(x)] = events[x]
        /\ \A k \in DOMAIN d : \E x \in V : k = R(x)
        /\ \A x, y \in V : R(x) = R(y) => x = y
    BY DEF Ranked
  <1>3. /\ \A k : k \in So <=> \E i \in 1..n : cs[i].kind = "swap" /\ k = R(offset[i] + 1)
        /\ \A i \in 1..n : cs[i].kind = "swap" =>
               E!Min(E!Returns(d, R(offset[i] + 1))) = R(offset[i] + 2)
    <2>1. DOMAIN d \subseteq Int
      OBVIOUS
    <2> QED BY <2>1, SoldAre
  <1>4. \A x \in V : E!IsOfChannel(d, events[x])
                         <=> \E i \in 1..n : cs[i].kind = "topUp" /\ x = offset[i] + 1
    BY ChannelAre
  <1>5. \A i \in 1..n : /\ cs[i].kind = "place" => Size(cs[i]) = 1
                        /\ cs[i].kind \in {"swap", "topUp"} => Size(cs[i]) = 2
                        /\ Unfolds(cs[i]) <=> cs[i].kind \in {"swap", "place", "topUp"}
    BY <1>1, LastIs DEF Unfolds
  <1>6. \A i \in 1..n, j \in 1..n :
            \A k \in 1..Size(cs[i]), l \in 1..Size(cs[j]) :
                offset[i] + k = offset[j] + l => i = j /\ k = l
    <2>1. ASSUME NEW i \in 1..n, NEW j \in 1..n, NEW k \in 1..Size(cs[i]), NEW l \in 1..Size(cs[j]),
                 offset[i] + k = offset[j] + l
          PROVE  i = j /\ k = l
      BY <2>1, PlacesApart
    <2> QED BY <2>1
  <1> HIDE DEF n, m, V, R, So
  <1>7. \A k : k \in SI <=> \E i \in 1..n : /\ cs[i].kind = "swap"
                                            /\ k = R(offset[i] + 1) \/ k = R(offset[i] + 2)
    BY <1>3
  <1> HIDE DEF SI
  <1>8. PICK x \in V : r = R(x)
    BY <1>2
  <1>9. d[r] = events[x]
    BY <1>2, <1>8
  <1>10. r \in SI <=> \E i \in 1..n : /\ cs[i].kind = "swap"
                                      /\ x = offset[i] + 1 \/ x = offset[i] + 2
    <2>1. \A i \in 1..n : cs[i].kind = "swap" => offset[i] + 1 \in V /\ offset[i] + 2 \in V
      BY <1>1, <1>5
    <2> QED BY <1>2, <1>7, <1>8, <2>1
  <1>11. (r = R(m) <=> x = m)
         /\ \A i \in 1..n : r = R(offset[i] + Size(cs[i])) <=> x = offset[i] + Size(cs[i])
    BY <1>1, <1>2, <1>8
  <1>12. (r \notin SI /\ ~E!IsOfChannel(d, d[r]))
             <=> x = m \/ \E i \in 1..n : cs[i].kind # "swap" /\ x = offset[i] + Size(cs[i])
    <2>1. E!IsOfChannel(d, d[r]) <=> \E i \in 1..n : cs[i].kind = "topUp" /\ x = offset[i] + 1
      BY <1>4, <1>9
    <2>2. CASE x = m
      <3>1. \A i \in 1..n : /\ cs[i].kind = "swap" => x # offset[i] + 1 /\ x # offset[i] + 2
                            /\ cs[i].kind = "topUp" => x # offset[i] + 1
        BY <1>1, <1>5, <2>2
      <3> QED BY <1>10, <2>1, <2>2, <3>1
    <2>3. ASSUME NEW i \in 1..n, x = offset[i] + Size(cs[i]), cs[i].kind # "swap"
          PROVE  r \notin SI /\ ~E!IsOfChannel(d, d[r])
      <3>1. Size(cs[i]) \in 1..Size(cs[i])
        BY <1>1
      <3>2. ASSUME NEW j \in 1..n, cs[j].kind \in {"swap", "topUp"},
                   x = offset[j] + 1 \/ (cs[j].kind = "swap" /\ x = offset[j] + 2)
            PROVE  FALSE
        <4>1. 1 \in 1..Size(cs[j]) /\ 2 \in 1..Size(cs[j]) /\ Size(cs[j]) = 2
          BY <1>5, <3>2
        <4>2. i = j
          BY <1>6, <2>3, <3>1, <3>2, <4>1
        <4>3. Size(cs[i]) = 1
          BY <1>6, <2>3, <3>1, <3>2, <4>1, <4>2
        <4> QED BY <4>1, <4>2, <4>3
      <3> QED BY <1>10, <2>1, <3>2
    <2>4. ASSUME NEW i \in 1..n, x = offset[i] + Size(cs[i]), cs[i].kind = "swap"
          PROVE  r \in SI
      BY <1>5, <1>10, <2>4
    <2>5. ASSUME NEW i \in 1..n, Unfolds(cs[i]), x = offset[i] + 1
          PROVE  r \in SI \/ E!IsOfChannel(d, d[r]) \/ (cs[i].kind # "swap" /\ x = offset[i] + Size(cs[i]))
      BY <1>5, <1>10, <2>1, <2>5
    <2>6. x = m \/ (\E i \in 1..n : x = offset[i] + Size(cs[i]))
              \/ \E i \in 1..n : Unfolds(cs[i]) /\ x = offset[i] + 1
      BY <1>1
    <2> QED BY <2>2, <2>3, <2>4, <2>5, <2>6
  <1> QED BY <1>11, <1>12 DEF SI, So, n, m, V, R

\* What should be told of the calls
Meant(cs) == [i \in 1..Len(cs) |-> E!Told(cs[i])]

\* Every call is told once, and the fee where there is none.
ToldFrom(cs, events, input) ==
    \E known, fees :
        /\ E!parseKnownEvents(events, input) =
               IF known # <<>> THEN known ELSE E!Fallback(fees, input)
        /\ fees # <<>>
        /\ \E K : known \in Seq(K)
        /\ Len(known) = Len(cs)
        /\ \A e : E!Times(e, known) = Cardinality(Found(Meant(cs), 1..Len(cs), e))

LEMMA KnownEventsAre ==
    ASSUME NEW cs, NEW events, NEW offset, ReceiptOf(cs, events, offset), Unmixed(cs), NEW input
    PROVE  ToldFrom(cs, events, input)
  <1> DEFINE n == Len(cs)
             m == Len(events)
             V == Places(cs, events, offset)
             R(x) == Rank(V, x)
             d == E!dedupedEvents(events)
             So == E!Sold(d)
             Bo(k) == E!Min(E!Returns(d, k))
             SI == So \cup {Bo(k) : k \in So}
             sw == [k \in So |-> E!Swap(d[k], d[Bo(k)])]
             ma == {k \in DOMAIN d : k \notin SI /\ ~E!IsOfChannel(d, d[k])}
             de == [k \in ma |-> E!Detected(events, d, d[k])]
             fe == {k \in ma : de[k].type = "fee transfer"}
             ot == ma \ fe
             known == E!Kept(sw, So) \o E!Kept(de, ot)
             fees == E!Kept(de, fe)
             SC == {i \in 1..n : cs[i].kind = "swap"}
             OC == {i \in 1..n : cs[i].kind # "swap"}
             g == [i \in SC |-> R(offset[i] + 1)]
             h == [i \in OC |-> R(offset[i] + Size(cs[i]))]
  <1>1. E!parseKnownEvents(events, input) =
            IF known # <<>> THEN known ELSE E!Fallback(fees, input)
    BY Zenon DEF E!parseKnownEvents
  <1>2. d = E!Kept(events, V) /\ AreNumbers(V)
    BY PlacesAreShown
  <1>3. Ranked(V, events, d)
    BY <1>2, KeptIsRanked
  <1>4. DOMAIN d = 1..Cardinality(V) /\ Cardinality(V) \in Nat
    BY <1>2, KeptIs
  <1>5. DOMAIN d \subseteq Nat /\ DOMAIN d \subseteq Int
    BY <1>4
  <1>6. /\ n \in Nat
        /\ \A i \in 1..n :
               /\ cs[i] \in E!Calls
               /\ offset[i] \in Nat /\ Size(cs[i]) \in 1..3
               /\ offset[i] + Size(cs[i]) \in V /\ offset[i] + Size(cs[i]) # m
               /\ events[offset[i] + Size(cs[i])] = Last(cs[i])
               /\ Unfolds(cs[i]) => offset[i] + 1 \in V /\ events[offset[i] + 1] = Moved(cs[i])
        /\ m \in V /\ events[m] = E!FeeLog
    BY PlacesHave
  <1>7. /\ \A x \in V : R(x) \in DOMAIN d /\ d[R(x)] = events[x]
        /\ \A x, y \in V : R(x) = R(y) => x = y
    BY <1>3 DEF Ranked
  <1>8. /\ \A k : k \in So <=> \E i \in 1..n : cs[i].kind = "swap" /\ k = R(offset[i] + 1)
        /\ \A i \in 1..n : cs[i].kind = "swap" => Bo(R(offset[i] + 1)) = R(offset[i] + 2)
    BY <1>3, <1>5, SoldAre
  <1>9. ASSUME NEW k \in DOMAIN d
        PROVE  k \in ma <=>
                   \/ k = R(m)
                   \/ \E i \in 1..n : cs[i].kind # "swap" /\ k = R(offset[i] + Size(cs[i]))
    <2>1. (k \notin SI /\ ~E!IsOfChannel(d, d[k])) <=>
              \/ k = R(m)
              \/ \E i \in 1..n : cs[i].kind # "swap" /\ k = R(offset[i] + Size(cs[i]))
      <3> HIDE DEF d
      <3> QED BY <1>3, <1>5, MappedAre
    <2> QED BY <2>1
  <1>10. \A i \in 1..n : cs[i].kind # "swap" => E!Detected(events, d, Last(cs[i])) = E!Told(cs[i])
    <2>1. ASSUME NEW i \in 1..n, cs[i].kind # "swap"
          PROVE  E!Detected(events, d, Last(cs[i])) = E!Told(cs[i])
      <3> HIDE DEF d
      <3> QED BY <1>3, <1>5, <2>1, DetectedIsTold
    <2> QED BY <2>1
  <1>11. E!Detected(events, d, E!FeeLog).type = "fee transfer"
    <2>1. Emits(Did(cs), events)
      BY ReceiptEmits
    <2> HIDE DEF d
    <2>3. E!Detected(events, d, E!FeeLog) =
              E!Event("fee transfer", <<<<"feeToken", E!Fee>>>>, "payer", "feeManager", FALSE)
      BY <2>1, FeeIsDetected
    <2> HIDE DEF d
    <2>4. E!Event("fee transfer", <<<<"feeToken", E!Fee>>>>, "payer", "feeManager", FALSE).type
              = "fee transfer"
      BY DEF E!Event
    <2> QED BY <2>3, <2>4
  <1>12. \A i \in 1..n : E!Told(cs[i]).type # "fee transfer"
    BY <1>6, ToldTypes
  <1>13. \A i \in 1..n : cs[i].kind = "swap" =>
             /\ offset[i] + 1 \in V /\ offset[i] + 2 \in V
             /\ events[offset[i] + 1] = Moved(cs[i]) /\ events[offset[i] + 2] = Own(cs[i])
             /\ E!Swap(Moved(cs[i]), Own(cs[i])) = E!Told(cs[i])
    <2>1. ASSUME NEW i \in 1..n, cs[i].kind = "swap"
          PROVE  /\ offset[i] + 1 \in V /\ offset[i] + 2 \in V
                 /\ events[offset[i] + 1] = Moved(cs[i]) /\ events[offset[i] + 2] = Own(cs[i])
                 /\ E!Swap(Moved(cs[i]), Own(cs[i])) = E!Told(cs[i])
      <3>1. Size(cs[i]) = 2 /\ Last(cs[i]) = Own(cs[i]) /\ Unfolds(cs[i])
        BY <1>6, <2>1, LastIs DEF Unfolds
      <3>2. E!Swap(Moved(cs[i]), Own(cs[i])) = E!Told(cs[i])
        BY <1>6, <2>1, SwapIsTold
      <3> HIDE DEF V
      <3> QED BY <1>6, <3>1, <3>2
    <2> QED BY <2>1
  <1>14. \A i \in 1..n, j \in 1..n :
             \A k \in 1..Size(cs[i]), l \in 1..Size(cs[j]) :
                 offset[i] + k = offset[j] + l => i = j /\ k = l
    <2>1. ASSUME NEW i \in 1..n, NEW j \in 1..n, NEW k \in 1..Size(cs[i]), NEW l \in 1..Size(cs[j]),
                 offset[i] + k = offset[j] + l
          PROVE  i = j /\ k = l
      BY <2>1, PlacesApart
    <2> QED BY <2>1
  <1>15. /\ \A k \in So : sw[k] = E!Swap(d[k], d[Bo(k)])
         /\ ma \subseteq DOMAIN d
         /\ \A k \in ma : de[k] = E!Detected(events, d, d[k])
         /\ \A k : k \in fe <=> k \in ma /\ de[k].type = "fee transfer"
         /\ \A k : k \in ot <=> k \in ma /\ k \notin fe
    OBVIOUS
  <1>35. /\ \A i \in SC : g[i] = R(offset[i] + 1)
         /\ \A i \in OC : h[i] = R(offset[i] + Size(cs[i]))
    OBVIOUS
  <1>36. (\A X : (\A i \in SC : g[i] \in X) => g \in [SC -> X])
         /\ \A X : (\A i \in OC : h[i] \in X) => h \in [OC -> X]
    OBVIOUS
  <1>16. /\ \A i : i \in SC <=> i \in 1..n /\ cs[i].kind = "swap"
         /\ \A i : i \in OC <=> i \in 1..n /\ cs[i].kind # "swap"
    OBVIOUS
  <1>17. So \subseteq DOMAIN d
    BY DEF E!Sold
  <1> HIDE DEF n, m, V, R, d, So, Bo, SI, sw, ma, de, fe, ot, known, fees, SC, OC, g, h
  <1>18. ASSUME NEW i \in OC
         PROVE  R(offset[i] + Size(cs[i])) \in ma /\ de[R(offset[i] + Size(cs[i]))] = E!Told(cs[i])
                /\ R(offset[i] + Size(cs[i])) \in ot
    <2>1. i \in 1..n /\ cs[i].kind # "swap" /\ offset[i] + Size(cs[i]) \in V
      BY <1>6, <1>16
    <2>2. /\ R(offset[i] + Size(cs[i])) \in DOMAIN d
          /\ d[R(offset[i] + Size(cs[i]))] = Last(cs[i])
      BY <1>6, <1>7, <2>1
    <2>3. R(offset[i] + Size(cs[i])) \in ma
      BY <1>9, <2>1, <2>2
    <2>4. de[R(offset[i] + Size(cs[i]))] = E!Told(cs[i])
      BY <1>10, <1>15, <2>1, <2>2, <2>3
    <2> QED BY <1>12, <1>15, <2>1, <2>3, <2>4
  <1>19. R(m) \in fe
    <2>1. R(m) \in DOMAIN d /\ d[R(m)] = E!FeeLog
      BY <1>6, <1>7
    <2>2. R(m) \in ma
      BY <1>9, <2>1
    <2>3. de[R(m)].type = "fee transfer"
      BY <1>11, <1>15, <2>1, <2>2
    <2> QED BY <1>15, <2>2, <2>3
  <1>20. ASSUME NEW k \in ot PROVE \E i \in OC : k = R(offset[i] + Size(cs[i]))
    <2>1. k \in ma /\ k \notin fe /\ k \in DOMAIN d
      BY <1>15
    <2> QED BY <1>9, <1>16, <1>19, <2>1
  <1>21. Pairs(OC, ot, h)
    <2>1. h \in [OC -> ot]
      <3>1. \A i \in OC : h[i] \in ot
        BY <1>18, <1>35
      <3> QED BY <1>36, <3>1
    <2>2. ASSUME NEW i \in OC, NEW j \in OC, h[i] = h[j] PROVE i = j
      <3>1. offset[i] + Size(cs[i]) = offset[j] + Size(cs[j])
        BY <1>6, <1>7, <1>35, <1>16, <2>2
      <3>2. Size(cs[i]) \in 1..Size(cs[i]) /\ Size(cs[j]) \in 1..Size(cs[j])
        BY <1>6, <1>16
      <3> QED BY <1>14, <1>16, <3>1, <3>2
    <2>3. \A k \in ot : \E i \in OC : h[i] = k
      BY <1>20, <1>35
    <2> QED BY <2>1, <2>2, <2>3 DEF Pairs
  <1>22. Pairs(SC, So, g)
    <2>1. \A i \in SC : g[i] \in So
      BY <1>8, <1>35, <1>16
    <2>2. g \in [SC -> So]
      BY <1>36, <2>1
    <2>3. ASSUME NEW i \in SC, NEW j \in SC, g[i] = g[j] PROVE i = j
      <3>1. offset[i] + 1 = offset[j] + 1
        BY <1>7, <1>13, <1>35, <1>16, <2>3
      <3>2. 1 \in 1..Size(cs[i]) /\ 1 \in 1..Size(cs[j])
        BY <1>6, <1>16
      <3> QED BY <1>14, <1>16, <3>1, <3>2
    <2>4. \A k \in So : \E i \in SC : g[i] = k
      BY <1>8, <1>35, <1>16
    <2> QED BY <2>2, <2>3, <2>4 DEF Pairs
  <1>23. Follows(Meant(cs), OC, de, h)
    <2>1. \A i \in OC : Meant(cs)[i] = E!Told(cs[i])
      BY <1>16 DEF Meant, n
    <2>2. \A i \in OC : de[h[i]] = E!Told(cs[i])
      BY <1>18, <1>35
    <2> QED BY <2>1, <2>2 DEF Follows
  <1>24. Follows(Meant(cs), SC, sw, g)
    <2>1. \A i \in SC : Meant(cs)[i] = E!Told(cs[i])
      BY <1>16 DEF Meant, n
    <2>2. ASSUME NEW i \in SC PROVE sw[g[i]] = E!Told(cs[i])
      <3>1. i \in 1..n /\ cs[i].kind = "swap"
        BY <1>16
      <3>2. g[i] = R(offset[i] + 1) /\ g[i] \in So /\ Bo(g[i]) = R(offset[i] + 2)
        BY <1>8, <1>35, <3>1
      <3>3. d[g[i]] = Moved(cs[i]) /\ d[Bo(g[i])] = Own(cs[i])
        BY <1>7, <1>13, <3>1, <3>2
      <3> QED BY <1>13, <1>15, <3>1, <3>2, <3>3
    <2> QED BY <2>1, <2>2 DEF Follows
  <1>25. IsFiniteSet(DOMAIN d) /\ IsFiniteSet(1..n)
    BY <1>4, <1>6, FS_Interval
  <1>26. AreNumbers(So)
    BY <1>5, <1>17, <1>25, FS_Subset DEF AreNumbers
  <1>27. AreNumbers(ot)
    <2>1. ot \subseteq DOMAIN d
      BY <1>15
    <2> QED BY <1>5, <1>25, <2>1, FS_Subset DEF AreNumbers
  <1>28. AreNumbers(fe)
    <2>1. fe \subseteq DOMAIN d
      BY <1>15
    <2> QED BY <1>5, <1>25, <2>1, FS_Subset DEF AreNumbers
  <1>29. IsFiniteSet(SC) /\ IsFiniteSet(OC) /\ SC \cap OC = {} /\ SC \cup OC = 1..n
    <2>1. SC \subseteq 1..n /\ OC \subseteq 1..n /\ SC \cap OC = {} /\ SC \cup OC = 1..n
      BY <1>16
    <2>2. IsFiniteSet(SC)
      BY <1>25, <2>1, FS_Subset
    <2>3. IsFiniteSet(OC)
      BY <1>25, <2>1, FS_Subset
    <2> QED BY <2>1, <2>2, <2>3
  <1>30. /\ Len(known) = Cardinality(So) + Cardinality(ot)
         /\ \E K : known \in Seq(K)
         /\ \A e : E!Times(e, known) = Cardinality(Found(sw, So, e)) + Cardinality(Found(de, ot, e))
    BY <1>26, <1>27, BothKeptOccur DEF known
  <1>31. Cardinality(So) = Cardinality(SC) /\ Cardinality(ot) = Cardinality(OC)
    <2>1. Cardinality(So) = Cardinality(SC)
      BY <1>22, <1>29, PairsAreAsMany
    <2>2. Cardinality(ot) = Cardinality(OC)
      BY <1>21, <1>29, PairsAreAsMany
    <2> QED BY <2>1, <2>2
  <1>32. Len(known) = n
    <2>1. Cardinality(SC \cup OC) = Cardinality(SC) + Cardinality(OC)
      BY <1>29, FoundInParts
    <2>2. Cardinality(1..n) = n
      BY <1>6, FS_Interval
    <2> QED BY <1>29, <1>30, <1>31, <2>1, <2>2
  <1>33. ASSUME NEW e
         PROVE  E!Times(e, known) = Cardinality(Found(Meant(cs), 1..n, e))
    <2>1. Cardinality(Found(Meant(cs), SC, e)) = Cardinality(Found(sw, So, e))
      BY <1>22, <1>24, <1>29, PairsOccurAsOften
    <2>2. Cardinality(Found(Meant(cs), OC, e)) = Cardinality(Found(de, ot, e))
      BY <1>21, <1>23, <1>29, PairsOccurAsOften
    <2>3. Cardinality(Found(Meant(cs), SC, e)) + Cardinality(Found(Meant(cs), OC, e))
              = Cardinality(Found(Meant(cs), SC \cup OC, e))
      BY <1>29, FoundInParts
    <2> QED BY <1>29, <1>30, <2>1, <2>2, <2>3
  <1>34. fees # <<>>
    <2>1. Len(fees) = Cardinality(fe)
      BY <1>28, KeptIs DEF fees
    <2>2. IsFiniteSet(fe) /\ fe # {}
      BY <1>19, <1>28 DEF AreNumbers
    <2>3. Cardinality(fe) # 0
      BY <2>2, FS_EmptySet
    <2> QED BY <2>1, <2>3
  <1> QED BY Zenon, <1>1, <1>30, <1>32, <1>33, <1>34 DEF ToldFrom, n

-----------------------------------------------------------------------------
(* The property *)

LEMMA UnmixedAre ==
    ASSUME NEW cs \in Seq(E!Calls),
           \A i, j \in DOMAIN cs : i < j => ~E!Mixed(cs[i], cs[j])
    PROVE  Unmixed(cs)
  <1>1. DOMAIN cs = 1..Len(cs) /\ Len(cs) \in Nat /\ \A i \in 1..Len(cs) : cs[i] \in E!Calls
    OBVIOUS
  <1>2. ASSUME NEW i \in 1..Len(cs), NEW j \in 1..Len(cs), i # j
        PROVE  ~E!Mixed(cs[i], cs[j]) \/ ~E!Mixed(cs[j], cs[i])
    <2>1. i < j \/ j < i
      BY <1>2
    <2> QED BY <1>1, <2>1
  <1>3. ASSUME NEW c, NEW d, ~E!Mixed(c, d) \/ ~E!Mixed(d, c)
        PROVE  /\ c.kind = "send" /\ d.kind = "send" /\ c.from = d.from /\ c.to = d.to
                      => c.memo = d.memo
               /\ (c.kind = "mint" /\ d.kind = "mint" /\ c.token = d.token
                   /\ c.amount = d.amount /\ c.to = d.to) => c.memo = d.memo
               /\ (c.kind = "burn" /\ d.kind = "burn" /\ c.token = d.token
                   /\ c.amount = d.amount /\ c.from = d.from) => c.memo = d.memo
               /\ (c.kind = "topUp" /\ d.kind = "topUp"
                   /\ (c.from \in {d.from, d.to} \/ c.to \in {d.from, d.to}))
                      => c.token = d.token
    <2>1. {c.from, c.to} \cap {d.from, d.to} = {d.from, d.to} \cap {c.from, c.to}
      OBVIOUS
    <2>2. c.from \in {d.from, d.to} \/ c.to \in {d.from, d.to}
              => {c.from, c.to} \cap {d.from, d.to} # {}
      OBVIOUS
    <2> QED BY <1>3, <2>1, <2>2 DEF E!Mixed
  <1>4. ToldApart(Did(cs))
    <2>1. ASSUME NEW c \in Did(cs), NEW d \in Did(cs)
          PROVE  /\ c.kind = "send" /\ d.kind = "send" /\ c.from = d.from /\ c.to = d.to
                        => c.memo = d.memo
                 /\ (c.kind = "mint" /\ d.kind = "mint" /\ c.token = d.token
                     /\ c.amount = d.amount /\ c.to = d.to) => c.memo = d.memo
                 /\ (c.kind = "burn" /\ d.kind = "burn" /\ c.token = d.token
                     /\ c.amount = d.amount /\ c.from = d.from) => c.memo = d.memo
                 /\ (c.kind = "topUp" /\ d.kind = "topUp"
                     /\ (c.from \in {d.from, d.to} \/ c.to \in {d.from, d.to}))
                        => c.token = d.token
      <3>1. PICK i \in 1..Len(cs) : c = cs[i]
        BY DEF Did
      <3>2. PICK j \in 1..Len(cs) : d = cs[j]
        BY DEF Did
      <3>3. CASE i = j
        BY <3>1, <3>2, <3>3
      <3>4. CASE i # j
        <4>1. ~E!Mixed(c, d) \/ ~E!Mixed(d, c)
          BY <1>2, <3>1, <3>2, <3>4
        <4> QED BY <1>3, <4>1
      <3> QED BY <3>3, <3>4
    <2> QED BY <2>1 DEF ToldApart
  <1>5. \A i, j \in 1..Len(cs) : i < j => ~(cs[i].kind = "place" /\ cs[j].kind = "swap")
    <2>1. ASSUME NEW i \in 1..Len(cs), NEW j \in 1..Len(cs), i < j
          PROVE  ~(cs[i].kind = "place" /\ cs[j].kind = "swap")
      <3>1. ~E!Mixed(cs[i], cs[j])
        BY <1>1, <2>1
      <3> QED BY <3>1 DEF E!Mixed
    <2> QED BY <2>1
  <1> QED BY <1>4, <1>5 DEF Unmixed

LEMMA CallsAreToldNow == ASSUME ReceiptInv PROVE E!CallsAreTold
  <1> DEFINE es == Append(emitted, E!FeeLog)
             told == E!parseKnownEvents(es, "none")
             meant == [i \in DOMAIN made |-> E!Told(made[i])]
  <1>1. PICK X, offset : emitted \in Seq(X) /\ Laid(made, emitted, offset)
    BY DEF ReceiptInv
  <1>2. made \in Seq(E!Calls)
    BY DEF ReceiptInv
  <1>3. ReceiptOf(made, es, offset)
    BY <1>1, <1>2, ReceiptHas
  <1>4. DOMAIN made = 1..Len(made) /\ Len(made) \in Nat
    BY <1>2
  <1>5. ASSUME Unmixed(made), NEW input PROVE ToldFrom(made, es, input)
    <2> HIDE DEF es
    <2> QED BY <1>3, <1>5, KnownEventsAre
  <1>6. CASE made = <<>>
    <2>1. es = <<E!FeeLog>>
      <3>1. Len(emitted) = 0
        <4>1. Len(emitted) <= 3 * Len(made) /\ Len(made) = 0 /\ Len(emitted) \in Nat
          BY <1>1, <1>6 DEF ReceiptInv
        <4> QED BY <4>1
      <3>2. emitted = <<>>
        BY <1>1, <3>1
      <3> QED BY <3>2
    <2>2. Unmixed(made)
      <3>1. \A i, j \in DOMAIN made : i < j => ~E!Mixed(made[i], made[j])
        BY <1>6
      <3> QED BY <1>2, <3>1, UnmixedAre
    <2>3. ASSUME NEW input
          PROVE  \E fees : fees # <<>> /\ E!parseKnownEvents(es, input) = E!Fallback(fees, input)
      <3>1. PICK known, fees :
                   /\ E!parseKnownEvents(es, input) =
                          IF known # <<>> THEN known ELSE E!Fallback(fees, input)
                   /\ fees # <<>>
                   /\ \E K : known \in Seq(K)
                   /\ Len(known) = Len(made)
        BY <1>5, <2>2 DEF ToldFrom
      <3>2. known = <<>>
        BY <1>6, <3>1
      <3> QED BY <3>1, <3>2
    <2>4. Len(told) = 1 /\ told[1].type = "fee"
      <3>1. PICK fees : fees # <<>> /\ told = E!Fallback(fees, "none")
        BY <2>3
      <3>2. \E a : told = <<E!Event("fee", a, E!Nobody, E!Nobody, FALSE)>>
        BY <3>1 DEF E!Fallback
      <3> QED BY <3>2 DEF E!Event
    <2>5. E!parseKnownEvents(<<E!FeeLog>>, "call")[1].type = "contract call"
      <3>1. PICK fees : E!parseKnownEvents(es, "call") = E!Fallback(fees, "call")
        BY <2>3
      <3> DEFINE event == E!Event("contract call", <<>>, E!Nobody, E!Nobody, FALSE)
      <3>2. E!Fallback(fees, "call") = <<event>>
        BY DEF E!Fallback
      <3>3. event.type = "contract call"
        BY DEF E!Event
      <3> HIDE DEF event, es
      <3>4. E!parseKnownEvents(<<E!FeeLog>>, "call") = <<event>>
        BY <2>1, <3>1, <3>2
      <3>5. <<event>>[1] = event
        OBVIOUS
      <3> QED BY Zenon, <3>3, <3>4, <3>5
    <2> QED BY <1>6, <2>4, <2>5 DEF E!CallsAreTold
  <1>7. CASE made # <<>>
    <2>1. ASSUME \A i, j \in DOMAIN made : i < j => ~E!Mixed(made[i], made[j])
          PROVE  Len(told) = Len(meant) /\ \A e \in E!ToSet(meant) : E!Times(e, told) = E!Times(e, meant)
      <3>1. Unmixed(made)
        BY <1>2, <2>1, UnmixedAre
      <3>2. PICK known, fees :
                   /\ told = IF known # <<>> THEN known ELSE E!Fallback(fees, "none")
                   /\ fees # <<>>
                   /\ \E K : known \in Seq(K)
                   /\ Len(known) = Len(made)
                   /\ \A e : E!Times(e, known)
                                 = Cardinality(Found(Meant(made), 1..Len(made), e))
        BY <1>5, <3>1 DEF ToldFrom
      <3>3. Len(made) # 0
        BY <1>2, <1>7
      <3>4. told = known
        BY <3>2, <3>3
      <3>5. meant = Meant(made) /\ DOMAIN meant = 1..Len(made)
        BY <1>4 DEF Meant
      <3>6. Len(meant) = Len(made)
        BY <1>4, <3>5
      <3> HIDE DEF meant, told
      <3>7. \A e : E!Times(e, meant) = Cardinality(Found(meant, 1..Len(made), e))
        BY <3>5 DEF E!Times, Found, E!Cardinality, Cardinality
      <3> QED BY <3>2, <3>4, <3>5, <3>6, <3>7
    <2> QED BY <1>7, <2>1 DEF E!CallsAreTold
  <1> QED BY <1>6, <1>7

\* parseKnownEvents, for any calls of any accounts, tokens and amounts: each is
\* told once and as what it did, whatever logs repeat it, and nothing is told of
\* the fee, unless two calls are mixed up; without calls, the input or the fee is.
THEOREM CallsStayTold == AllSpec => []CallsAreTold
  <1>1. ReceiptInv => CallsAreTold
    BY CallsAreToldNow DEF CallsAreTold
  <1> QED BY <1>1, ReceiptAlways, PTL

-----------------------------------------------------------------------------
(* The request queue: what RpcQueueProofs proves of it on its own holds of   *)
(* it beside the other parts.                                                *)

LEMMA QueueIsAPart == AllSpec => Spec
<1>1. AllInit => Init
  BY Zenon DEF AllInit
<1>2. [AllNext]_allVars => [Next]_vars
  BY Zenon DEF AllNext, allVars, vars
<1>3. QED
  BY <1>1, <1>2, PTL DEF AllSpec, Spec

\* Whatever the limits, a queue that is started and holds a task comes to call
\* next, and those who wait for it to be empty or idle are told.
THEOREM QueueForgetsNobodyHere == AllSpec => []NobodyIsForgotten
<1>1. QED
  BY QueueIsAPart, QueueForgetsNobody, PTL

\* Whatever the limits, no task starts beyond the limit of a second or beside
\* more than the limit of running tasks.
THEOREM StartsStayWithinLimits == AllSpec => StartsWithinLimits
<1>1. QED
  BY QueueIsAPart, StartsAreWithinLimits, PTL

-----------------------------------------------------------------------------
(* The types of the parts follow from their invariants.                      *)

LEMMA BlocksTypeCorrect == BlocksInv => B!TypeOK
  <1> SUFFICES ASSUME BlocksInv PROVE B!TypeOK
    OBVIOUS
  <1>1. B!Latest = -1
    BY DEF B!Latest
  <1>2. B!Cardinality(liveBlocks) = Cardinality(liveBlocks)
    BY Zenon DEF B!Cardinality, Cardinality, B!IsFiniteSet, IsFiniteSet
  <1>3. live \in BOOLEAN /\ paused \in BOOLEAN
    BY Zenon DEF BlocksInv, BlocksTyped
  <1>4. \A blocks \in {liveBlocks, pending, inbound, seen} : blocks \subseteq 0..MaxHead
    BY DEF BlocksInv, BlocksTyped, Numbers
  <1> QED BY <1>1, <1>2, <1>3, <1>4 DEF BlocksInv, BlocksTyped, ListsAgree, B!TypeOK

LEMMA HistoryTypeCorrect == HistoryInv => A!TypeOK
  BY DEF HistoryInv, HistoryTypedAt, Positions, Pages, A!TypeOK

LEMMA TotalsTypeCorrect == TotalsInv => H!TypeOK
  <1>1. H!Cardinality(cached) = Cardinality(cached)
    BY Zenon DEF H!Cardinality, Cardinality, H!IsFiniteSet, IsFiniteSet
  <1> QED BY <1>1 DEF TotalsInv, CacheTyped, Entries, H!TypeOK

LEMMA SignaturesTypeCorrect == SignaturesInv => S!TypeOK
  <1> SUFFICES ASSUME SignaturesInv PROVE S!TypeOK
    OBVIOUS
  <1>1. S!Cardinality(Lookups) = Cardinality(Lookups)
    BY Zenon DEF S!Cardinality, Cardinality, S!IsFiniteSet, IsFiniteSet
  <1>2. Cardinality(Lookups) \in Nat /\ (Lookups # {} => Cardinality(Lookups) # 0)
    BY SignatureAssumption, FS_CardinalityType, FS_EmptySet
  <1>3. loads \in [Selectors -> 0..S!Cardinality(Lookups)]
    <2>1. \A s \in Selectors : IF lookupCache[s] = "loading"
                               THEN Lookups # {} ELSE TRUE
      BY DEF SignaturesInv, LoadsHeld
    <2> QED BY <1>1, <1>2, <2>1 DEF SignaturesInv, LoadsHeld
  <1>4. batchTimer \in BOOLEAN
    BY Zenon DEF SignaturesInv, LookupsTyped
  <1>5. \A b \in batches : /\ b.lookups # {} /\ b.lookups \subseteq Lookups
                           /\ b.answers \in [S!Wanted(b) -> S!Results \cup {"none"}]
    BY DEF SignaturesInv, BatchesHeld, IsBatch
  <1> QED BY <1>3, <1>4, <1>5 DEF SignaturesInv, LookupsTyped, LoadsHeld, S!TypeOK

LEMMA PolicyTypeCorrect == PolicyInv => P!TypeOK
  <1> SUFFICES ASSUME PolicyInv PROVE P!TypeOK
    OBVIOUS
  <1>1. \A i \in DOMAIN logs : logs[i] \in [type : P!EventTypes, rows : 1..MaxCopies]
    <2> DEFINE Log == [type : P!EventTypes, rows : 1..MaxCopies]
    <2>1. logs \in Seq(Log)
      BY Zenon DEF PolicyInv, PolicyLogsTyped
    <2> HIDE DEF Log
    <2>2. \A i \in DOMAIN logs : logs[i] \in Log
      BY <2>1
    <2> QED BY <2>2 DEF Log
  <1> QED BY <1>1, Zenon DEF PolicyInv, P!TypeOK

LEMMA TokensTypeCorrect == TokensInv => T!TypeOK
  BY DEF TokensInv, DetailsTyped, RequestsTyped, Sound, Underway, T!TypeOK

LEMMA SnapshotsTypeCorrect == SnapshotsInv => O!TypeOK
  <1> SUFFICES ASSUME SnapshotsInv PROVE O!TypeOK
    OBVIOUS
  <1>1. loading.network \in Networks \cup {None} /\ loading.beforeBlock \in O!Blocks \cup {0}
    BY DEF SnapshotsInv, Loads, O!NotLoading
  <1> QED BY <1>1 DEF SnapshotsInv, HistoryTyped, O!TypeOK

LEMMA SelectionTypeCorrect == SelectionInv => L!TypeOK
  <1>1. DOMAIN L!PRESETS = {"minimal", "full", "archive"}
    BY DEF L!PRESETS
  <1> QED BY <1>1 DEF SelectionInv, Coherent, L!TypeOK

LEMMA ReceiptTypeCorrect == ReceiptInv => E!TypeOK
  BY DEF ReceiptInv, E!TypeOK

\* Types, for every value of the constants: what a page, a cache, a batch, a walk
\* through the logs, a request and a selection hold stays of its kind and within
\* its limits.
THEOREM ExplorerTypes == AllSpec => []TypesOK
  <1>1. AllSpec => []TypeOK
    BY QueueIsAPart, QueueTypeCorrect, PTL
  <1>2. AllSpec => [](B!TypeOK /\ A!TypeOK /\ H!TypeOK /\ C!TypeOK /\ S!TypeOK)
    <2>1. CreationInv => C!TypeOK
      BY DEF CreationInv
    <2> QED BY <2>1, BlocksAlways, BlocksTypeCorrect, HistoryAlways, HistoryTypeCorrect,
           TotalsAlways, TotalsTypeCorrect, CreationAlways, SignaturesAlways,
           SignaturesTypeCorrect, PTL
  <1>3. AllSpec => [](P!TypeOK /\ T!TypeOK /\ O!TypeOK /\ L!TypeOK /\ E!TypeOK)
    BY PolicyAlways, PolicyTypeCorrect, TokensAlways, TokensTypeCorrect, SnapshotsAlways,
       SnapshotsTypeCorrect, SelectionAlways, SelectionTypeCorrect, ReceiptAlways,
       ReceiptTypeCorrect, PTL
  <1>4. (B!TypeOK /\ A!TypeOK /\ H!TypeOK /\ C!TypeOK /\ S!TypeOK)
        /\ (P!TypeOK /\ T!TypeOK /\ O!TypeOK /\ L!TypeOK /\ E!TypeOK)
        /\ TypeOK => TypesOK
    BY Zenon DEF TypesOK
  <1> QED BY <1>1, <1>2, <1>3, <1>4, PTL

=============================================================================
