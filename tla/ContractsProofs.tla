---------------------------- MODULE ContractsProofs ----------------------------
(***************************************************************************)
(* Proofs about the contract verification service, for every value of the  *)
(* constants: what a walk through the listing lists, that a match names    *)
(* all that sets two codes apart, and the types of all parts.  What is     *)
(* proved of the store alone is in VerificationStoreProofs.                *)
(***************************************************************************)
EXTENDS Contracts, VerificationStoreProofs, DataLemmas

-----------------------------------------------------------------------------
(* The listing, page by page *)

LEMMA ListingIsAPart == AllSpec => [][L!Next]_(L!vars)
  <1>1. [AllNext]_allVars => [L!Next]_(L!vars)
    BY Zenon DEF AllNext, allVars, listVars, L!vars
  <1> QED BY <1>1, PTL DEF AllSpec

\* The order of the answer, as a set of pairs: L!Before does not depend on
\* anything but the sort of the walk.
Order(q) ==
    {p \in L!MatchIds \X L!MatchIds :
        IF p[1].kind = p[2].kind
        THEN IF q.sort = "desc" THEN p[1].value > p[2].value ELSE p[1].value < p[2].value
        ELSE (p[1].kind = "verified") = (q.sort = "desc")}

LEMMA OrderIsBefore ==
    \A a, b \in L!MatchIds : <<a, b>> \in Order(query) <=> L!Before(a, b)
  BY DEF Order, L!Before, L!Descending

LEMMA OrderIsTotal == ASSUME NEW q PROVE IsOrder(Order(q), L!MatchIds)
  <1>1. \A m \in L!MatchIds : m.kind \in {"verified", "native"} /\ m.value \in Int
    BY ListingAssumption DEF L!MatchIds, L!Kinds, L!Ids
  <1>2. \A a, b \in L!MatchIds : a.kind = b.kind /\ a.value = b.value => a = b
    BY DEF L!MatchIds
  <1>3. \A a, b \in L!MatchIds :
          <<a, b>> \in Order(q) <=>
              IF a.kind = b.kind
              THEN IF q.sort = "desc" THEN a.value > b.value ELSE a.value < b.value
              ELSE (a.kind = "verified") = (q.sort = "desc")
    BY DEF Order
  <1>4. \A a \in L!MatchIds : <<a, a>> \notin Order(q)
    BY <1>1, <1>3
  <1>5. \A a, b \in L!MatchIds : a # b => <<a, b>> \in Order(q) \/ <<b, a>> \in Order(q)
    BY <1>1, <1>2, <1>3
  <1>6. ASSUME NEW a \in L!MatchIds, NEW b \in L!MatchIds, NEW c \in L!MatchIds,
               <<a, b>> \in Order(q), <<b, c>> \in Order(q)
        PROVE  <<a, c>> \in Order(q)
    BY <1>1, <1>3, <1>6
  <1> QED BY <1>4, <1>5, <1>6 DEF IsOrder

LEMMA IdsAreFinite == \A S \in SUBSET L!MatchIds : IsFiniteSet(S)
  <1> DEFINE P == L!Kinds \X L!Ids
             Id(p) == [kind |-> p[1], value |-> p[2]]
             f == [p \in P |-> Id(p)]
             T == {f[p] : p \in P}
  <1>1. IsFiniteSet(L!Kinds)
    <2>1. IsFiniteSet({"verified"}) /\ IsFiniteSet({"native"})
      BY FS_Singleton
    <2>2. L!Kinds = {"verified"} \cup {"native"}
      BY DEF L!Kinds
    <2> QED BY <2>1, <2>2, FS_Union
  <1>2. IsFiniteSet(L!Ids)
    BY ListingAssumption, FS_Interval DEF L!Ids
  <1>3. IsFiniteSet(P)
    BY <1>1, <1>2, FS_Product
  <1>4. IsFiniteSet(T)
    <2> HIDE DEF P, f
    <2> QED BY <1>3, ImageIsFew
  <1>5. L!MatchIds \subseteq T
    <2> SUFFICES ASSUME NEW m \in L!MatchIds PROVE m \in T
      OBVIOUS
    <2>1. PICK k \in L!Kinds, i \in L!Ids : m = [kind |-> k, value |-> i]
      BY DEF L!MatchIds
    <2>2. <<k, i>> \in P /\ f[<<k, i>>] = m
      BY <2>1
    <2> QED BY <2>2
  <1>6. \A S \in SUBSET L!MatchIds : S \in SUBSET T
    BY <1>5
  <1> HIDE DEF T
  <1> QED BY <1>4, <1>6, FS_Subset

-----------------------------------------------------------------------------
\* A row has been listed or is ahead, behind the cursor in the order.
Ahead(m) == cursor = L!NoCursor \/ <<cursor, m>> \in Order(query)

\* The verified rows that were selected are the first of some rows ahead of the
\* cursor, among which are those of the beginning.
SelectedFirst(q, c, selected, held, early) ==
    \E A \in SUBSET held :
        /\ \A m \in A : m.kind = "verified" /\ (c = L!NoCursor \/ <<c, m>> \in Order(q))
        /\ \A m \in early : /\ m.kind = "verified"
                            /\ c = L!NoCursor \/ <<c, m>> \in Order(q)
                            => m \in A
        /\ selected = Firsts(Order(q), q.limit, A)

ListInv ==
    /\ L!TypeOK
    /\ listed \subseteq L!RowsOfChain /\ atStart \subseteq L!RowsOfChain
    /\ cursor = L!NoCursor => listed = {}
    /\ cursor # L!NoCursor => \A m \in listed : m = cursor \/ <<m, cursor>> \in Order(query)
    /\ ~ended => \A m \in atStart : m \in listed \/ Ahead(m)
    /\ ended => atStart \subseteq listed
    /\ selecting => ~ended /\ SelectedFirst(query, cursor, verifiedResults, L!RowsOfChain, atStart)

ToList == {m \in L!RowsOfChain : Ahead(m)}

LEMMA CursorIsAnId ==
    ASSUME L!TypeOK
    PROVE  /\ cursor \in L!MatchIds <=> cursor # L!NoCursor
           /\ cursor \in L!MatchIds => cursor.kind \in {"verified", "native"}
           /\ L!NoCursor.kind = "none"
  <1>1. L!NoCursor \notin L!MatchIds /\ L!NoCursor.kind = "none"
    BY DEF L!NoCursor, L!MatchIds, L!Kinds
  <1>2. cursor \in L!MatchIds => cursor.kind \in {"verified", "native"}
    BY DEF L!MatchIds, L!Kinds
  <1> QED BY <1>1, <1>2 DEF L!TypeOK

\* What is left to list is what the two SELECTs find without their limits.
Found(kind) == {m \in L!RowsOfChain : m.kind = kind /\ L!Queried(kind) /\ L!Beyond(m)}

LEMMA FoundIsAhead ==
    ASSUME L!TypeOK
    PROVE  /\ Found("verified") \cup Found("native") = ToList
           /\ Found("verified") \in SUBSET L!MatchIds
           /\ Found("native") \in SUBSET L!MatchIds
  <1>1. \A m \in L!RowsOfChain : m \in L!MatchIds /\ m.kind \in {"verified", "native"}
    BY DEF L!RowsOfChain, L!MatchIds, L!Kinds
  <1>2. \A m \in L!RowsOfChain : L!Queried(m.kind) /\ L!Beyond(m) <=> Ahead(m)
    <2>1. CASE cursor = L!NoCursor
      BY <1>1, <2>1, CursorIsAnId DEF Ahead, L!Queried, L!Beyond
    <2>2. CASE cursor # L!NoCursor
      BY <1>1, <2>2, CursorIsAnId, OrderIsBefore
      DEF Ahead, L!Queried, L!Beyond, L!Before, L!Descending
    <2> QED BY <2>1, <2>2
  <1> QED BY <1>1, <1>2 DEF Found, ToList

LEMMA LimitedIsFirsts ==
    ASSUME NEW S \in SUBSET L!MatchIds
    PROVE  L!Limited(S) = Firsts(Order(query), query.limit, S)
  <1>1. ASSUME NEW m \in S
        PROVE  {n \in S : L!Before(n, m)} = Preceding(Order(query), m, S)
    BY OrderIsBefore DEF Preceding
  <1>2. \A T : L!Cardinality(T) = Cardinality(T)
    BY Zenon DEF L!Cardinality, Cardinality, L!IsFiniteSet, IsFiniteSet
  <1> QED BY <1>1, <1>2 DEF L!Limited, Firsts

\* A page holds what comes next of the rows that its request found: what precedes
\* a row of it is in it, and a page that is not full is all of them.
LEMMA PageIsNext ==
    ASSUME ListInv, selecting
    PROVE  \E T \in SUBSET ToList :
               /\ atStart \cap ToList \subseteq T
               /\ L!contracts \subseteq T /\ IsFiniteSet(L!contracts)
               /\ \A m \in L!contracts, n \in T :
                      <<n, m>> \in Order(query) => n \in L!contracts
               /\ L!Cardinality(L!contracts) < query.limit => T \subseteq L!contracts
  <1> DEFINE R == Order(query)
             k == query.limit
             B == Found("native")
  <1>1. PICK A \in SUBSET L!RowsOfChain :
           /\ \A m \in A : m.kind = "verified" /\ Ahead(m)
           /\ \A m \in atStart : m.kind = "verified" /\ Ahead(m) => m \in A
           /\ verifiedResults = Firsts(R, k, A)
    BY DEF ListInv, SelectedFirst, Ahead
  <1>2. /\ A \in SUBSET L!MatchIds /\ B \in SUBSET L!MatchIds
        /\ A \cup B \in SUBSET ToList /\ k \in Nat
    BY <1>1, FoundIsAhead, ListingAssumption DEF ListInv, L!TypeOK, ToList, L!RowsOfChain
  <1>3. atStart \cap ToList \subseteq A \cup B
    <2> SUFFICES ASSUME NEW m \in atStart, m \in ToList, m \notin A PROVE m \in B
      OBVIOUS
    <2>1. Ahead(m) /\ m.kind # "verified"
      BY <1>1 DEF ToList
    <2>2. m \in Found("verified") \cup Found("native")
      BY FoundIsAhead DEF ListInv
    <2> QED BY <2>1, <2>2 DEF Found
  <1>4. IsFiniteSet(A) /\ IsFiniteSet(B)
    BY <1>2, IdsAreFinite
  <1> HIDE DEF B, k
  <1> DEFINE both == Firsts(R, k, A) \cup Firsts(R, k, B)
             page == Firsts(R, k, both)
  <1>5. L!Results("native") = Firsts(R, k, B)
    BY <1>2, LimitedIsFirsts DEF L!Results, B, k, Found
  <1>6. both \in SUBSET L!MatchIds
    BY <1>2 DEF Firsts
  <1>7. L!contracts = page
    BY <1>1, <1>5, <1>6, LimitedIsFirsts DEF L!contracts, k
  <1>8. /\ IsFiniteSet(page) /\ page \subseteq A \cup B
        /\ \A x \in page, y \in A \cup B : <<y, x>> \in R => y \in page
        /\ Cardinality(page) < k => A \cup B \subseteq page
    <2>1. IsOrder(R, L!MatchIds)
      BY OrderIsTotal
    <2> HIDE DEF R
    <2> QED BY <1>2, <1>4, <2>1, FirstsOfTwo
  <1> HIDE DEF page
  <1>9. L!Cardinality(page) = Cardinality(page)
    BY Zenon DEF L!Cardinality, Cardinality, L!IsFiniteSet, IsFiniteSet
  <1> QED BY <1>2, <1>3, <1>7, <1>8, <1>9 DEF k

LEMMA LastOfPage ==
    ASSUME NEW S \in SUBSET L!MatchIds, S # {}
    PROVE  /\ L!LastOf(S) \in S
           /\ \A m \in S : m = L!LastOf(S) \/ <<m, L!LastOf(S)>> \in Order(query)
  <1>1. IsFiniteSet(S)
    BY IdsAreFinite
  <1>2. \E x \in S : \A y \in S : y = x \/ <<y, x>> \in Order(query)
    BY <1>1, OrderIsTotal, LastExists
  <1>3. \E x \in S : \A y \in S \ {x} : L!Before(y, x)
    BY <1>2, OrderIsBefore
  <1>4. L!LastOf(S) \in S /\ \A y \in S \ {L!LastOf(S)} : L!Before(y, L!LastOf(S))
    BY <1>3 DEF L!LastOf
  <1> QED BY <1>4, OrderIsBefore

LEMMA SelectKeeps == ASSUME ListInv, L!SelectVerified PROVE ListInv'
  <1> DEFINE A == Found("verified")
  <1>1. /\ ~ended /\ selecting' /\ verifiedResults' = L!Results("verified")
        /\ UNCHANGED <<rows, query, cursor, listed, ended, atStart>>
    BY DEF L!SelectVerified
  <1>2. L!Results("verified") = Firsts(Order(query), query.limit, A)
    BY FoundIsAhead, LimitedIsFirsts DEF ListInv, L!Results, Found
  <1>3. L!Results("verified") \subseteq A /\ A \in SUBSET L!MatchIds
    BY <1>2, FoundIsAhead DEF Firsts, ListInv
  <1>4. L!TypeOK' /\ L!RowsOfChain' = L!RowsOfChain
    BY <1>1, <1>3, Zenon DEF ListInv, L!TypeOK, L!RowsOfChain
  <1>5. SelectedFirst(query, cursor, L!Results("verified"), L!RowsOfChain, atStart)
    <2>1. A \in SUBSET L!RowsOfChain /\ \A m \in A : m.kind = "verified" /\ Ahead(m)
      BY FoundIsAhead DEF Found, ToList, ListInv
    <2>2. ASSUME NEW m \in atStart, m.kind = "verified", Ahead(m) PROVE m \in A
      <3>1. m \in ToList
        BY <2>2 DEF ListInv, ToList
      <3>2. m \in Found("verified") \cup Found("native")
        BY <3>1, FoundIsAhead DEF ListInv
      <3> QED BY <2>2, <3>2 DEF Found
    <2> HIDE DEF A
    <2> QED BY <1>2, <2>1, <2>2 DEF SelectedFirst, Ahead
  <1>6. SelectedFirst(query, cursor, verifiedResults, L!RowsOfChain, atStart)'
    BY <1>1, <1>4, <1>5
  <1> HIDE DEF A
  <1> QED BY <1>1, <1>4, <1>6 DEF ListInv, Ahead

LEMMA ListKeeps == ASSUME ListInv, L!List PROVE ListInv'
  <1> DEFINE page == L!contracts
             last == L!LastOf(page)
  <1>1. /\ ~ended /\ listed' = listed \cup page
        /\ selecting' = FALSE /\ verifiedResults' = {}
        /\ ended' = (L!Cardinality(page) < query.limit)
        /\ cursor' = IF page = {} THEN cursor ELSE last
        /\ UNCHANGED <<rows, query, atStart>>
    BY DEF L!List, ListInv
  <1>2. PICK T \in SUBSET ToList :
           /\ atStart \cap ToList \subseteq T /\ page \subseteq T
           /\ \A m \in page, n \in T : <<n, m>> \in Order(query) => n \in page
           /\ L!Cardinality(page) < query.limit => T \subseteq page
    BY PageIsNext DEF L!List
  <1>3. page = {} => L!Cardinality(page) < query.limit
    <2>1. Cardinality({}) = 0 /\ L!Cardinality({}) = Cardinality({})
      BY FS_EmptySet, Zenon DEF L!Cardinality, Cardinality, L!IsFiniteSet, IsFiniteSet
    <2>2. query.limit \in Nat \ {0}
      BY ListingAssumption DEF ListInv, L!TypeOK
    <2> QED BY <2>1, <2>2
  <1>4. page \in SUBSET L!MatchIds /\ ToList \subseteq L!RowsOfChain
    BY <1>2 DEF ToList, L!RowsOfChain
  <1>5. page # {} => last \in page /\ \A m \in page : m = last \/ <<m, last>> \in Order(query)
    BY <1>4, LastOfPage
  <1>6. L!RowsOfChain' = L!RowsOfChain
    BY <1>1 DEF L!RowsOfChain
  <1> HIDE DEF page, last
  <1>7. L!TypeOK'
    <2>1. cursor' \in L!MatchIds \cup {L!NoCursor} /\ listed' \subseteq L!MatchIds
      BY <1>1, <1>4, <1>5 DEF ListInv, L!TypeOK
    <2>2. /\ selecting' \in BOOLEAN /\ verifiedResults' \subseteq L!MatchIds
          /\ ended' \in BOOLEAN
      <3>1. ended' \in BOOLEAN
        <4>1. (L!Cardinality(page) < query.limit) \in BOOLEAN
          OBVIOUS
        <4> QED BY <1>1, <4>1, Zenon
      <3> QED BY <1>1, <3>1
    <2>3. /\ rows' \in [L!Kinds -> [L!Ids -> Chains \cup {L!NoChain}]]
          /\ query' \in [sort : {"asc", "desc"}, limit : Limits]
          /\ atStart' \subseteq L!MatchIds
      BY <1>1 DEF ListInv, L!TypeOK
    <2> QED BY <2>1, <2>2, <2>3 DEF L!TypeOK
  <1>d. ~selecting'
    BY <1>1
  <1>8. listed' \subseteq L!RowsOfChain' /\ atStart' \subseteq L!RowsOfChain'
    BY <1>1, <1>2, <1>4, <1>6 DEF ListInv
  <1>9. CASE page = {}
    <2>1. /\ listed' = listed /\ cursor' = cursor /\ ended'
          /\ \A m \in atStart : m \notin ToList
      BY <1>1, <1>2, <1>3, <1>9
    <2>2. atStart' \subseteq listed'
      BY <1>1, <2>1 DEF ListInv, ToList
    <2>3. cursor' # L!NoCursor => \A m \in listed' : m = cursor' \/ <<m, cursor'>> \in Order(query')
      BY <1>1, <2>1 DEF ListInv
    <2> QED BY <1>d, <1>7, <1>8, <2>1, <2>2, <2>3 DEF ListInv
  <1>10. CASE page # {}
    <2>1. /\ cursor' = last /\ last \in page /\ last \in L!MatchIds
          /\ \A m \in page : m = last \/ <<m, last>> \in Order(query)
      BY <1>1, <1>4, <1>5, <1>10
    <2>2. cursor' # L!NoCursor
      BY <1>7, <2>1 DEF L!NoCursor, L!MatchIds, L!Kinds
    <2>3. ASSUME NEW m \in listed PROVE <<m, last>> \in Order(query)
      <3>1. cursor # L!NoCursor /\ (m = cursor \/ <<m, cursor>> \in Order(query))
        BY <2>3 DEF ListInv
      <3>2. <<cursor, last>> \in Order(query)
        BY <1>2, <2>1, <3>1 DEF ToList, Ahead
      <3>3. m \in L!MatchIds /\ cursor \in L!MatchIds
        BY <3>1, CursorIsAnId DEF ListInv, L!TypeOK
      <3> QED BY <2>1, <3>1, <3>2, <3>3, OrderIsTotal DEF IsOrder
    <2>4. \A m \in listed' : m = cursor' \/ <<m, cursor'>> \in Order(query')
      BY <1>1, <1>6, <2>1, <2>3
    <2>5. ASSUME NEW m \in atStart, m \notin listed PROVE m \in page \/ <<last, m>> \in Order(query)
      <3>1. m \in ToList /\ m \in L!MatchIds
        BY <1>1, <2>5 DEF ListInv, ToList, L!RowsOfChain
      <3>2. m = last \/ <<m, last>> \in Order(query) \/ <<last, m>> \in Order(query)
        BY <2>1, <3>1, OrderIsTotal DEF IsOrder
      <3> QED BY <1>2, <2>1, <3>1, <3>2
    <2>6. \A m \in atStart' : m \in listed' \/ Ahead(m)'
      BY <1>1, <1>6, <2>1, <2>5 DEF Ahead
    <2>7. ended' => atStart' \subseteq listed'
      <3> SUFFICES ASSUME ended', NEW m \in atStart PROVE m \in listed'
        BY <1>1
      <3>1. m \in listed \/ m \in ToList
        BY <1>1 DEF ListInv, ToList
      <3> QED BY <1>1, <1>2, <3>1
    <2> QED BY <1>d, <1>7, <1>8, <2>2, <2>4, <2>6, <2>7 DEF ListInv
  <1> QED BY <1>9, <1>10

\* Rows are added to free places and are never moved to another chain.
LEMMA WritersKeep ==
    ASSUME ListInv, NEW kind \in L!Kinds, NEW i \in L!Ids, NEW chain \in Chains,
           rows[kind][i] = L!NoChain,
           rows' = [rows EXCEPT ![kind][i] = chain],
           UNCHANGED <<query, cursor, selecting, verifiedResults, listed, ended, atStart>>
    PROVE  ListInv'
  <1>1. L!TypeOK'
    <2>1. rows \in [L!Kinds -> [L!Ids -> Chains \cup {L!NoChain}]]
      BY DEF ListInv, L!TypeOK
    <2>2. rows' \in [L!Kinds -> [L!Ids -> Chains \cup {L!NoChain}]]
      BY <2>1
    <2> QED BY <2>2 DEF ListInv, L!TypeOK
  <1>2. L!RowsOfChain \subseteq L!RowsOfChain'
    <2> SUFFICES ASSUME NEW m \in L!MatchIds, rows[m.kind][m.value] = Chain
                 PROVE  rows'[m.kind][m.value] = Chain
      BY DEF L!RowsOfChain
    <2>1. m.kind \in L!Kinds /\ m.value \in L!Ids
      BY DEF L!MatchIds
    <2>2. Chain # L!NoChain
      BY ListingAssumption
    <2> QED BY <2>1, <2>2 DEF ListInv, L!TypeOK
  <1>3. selecting => SelectedFirst(query, cursor, verifiedResults, L!RowsOfChain, atStart)'
    BY <1>2 DEF ListInv, SelectedFirst
  <1> QED BY <1>1, <1>2, <1>3 DEF ListInv, Ahead

LEMMA ListingNext == ASSUME ListInv, [L!Next]_(L!vars) PROVE ListInv'
  <1>1. CASE L!List
    BY <1>1, ListKeeps
  <1>s. CASE L!SelectVerified
    BY <1>s, SelectKeeps
  <1>2. ASSUME NEW chain \in Chains, L!Verify(chain) PROVE ListInv'
    <2>1. PICK i \in L!Ids :
            /\ \A j \in L!Ids : (rows["verified"][j] # L!NoChain) <=> (j < i)
            /\ rows' = [rows EXCEPT !["verified"][i] = chain]
            /\ UNCHANGED <<query, cursor, selecting, verifiedResults, listed, ended, atStart>>
      BY <1>2 DEF L!Verify
    <2>2. rows["verified"][i] = L!NoChain /\ "verified" \in L!Kinds
      BY <2>1, ListingAssumption DEF L!Ids, L!Kinds
    <2> QED BY <2>1, <2>2, WritersKeep
  <1>3. ASSUME NEW i \in L!Ids, NEW chain \in Chains, L!Seed(i, chain) PROVE ListInv'
    <2>1. "native" \in L!Kinds
      BY DEF L!Kinds
    <2> QED BY <1>3, <2>1, WritersKeep DEF L!Seed
  <1>4. CASE UNCHANGED L!vars
    BY <1>4 DEF L!vars, ListInv, L!TypeOK, L!RowsOfChain, Ahead
  <1> QED BY <1>1, <1>s, <1>2, <1>3, <1>4 DEF L!Next

LEMMA ListingInit == L!Init => ListInv
  <1> SUFFICES ASSUME L!Init PROVE ListInv
    OBVIOUS
  <1>1. L!TypeOK
    BY DEF L!Init, L!TypeOK, L!RowsOfChain
  <1> QED BY <1>1 DEF L!Init, ListInv, Ahead, L!RowsOfChain

LEMMA ListingAlways == AllSpec => []ListInv
  <1>1. AllInit => L!Init
    BY DEF AllInit
  <1> QED BY <1>1, ListingInit, ListingNext, ListingIsAPart, PTL DEF AllSpec

\* For any chains, page sizes and number of rows: a walk through the pages lists
\* no row of another chain and none twice, and none is left out that was there
\* when it began, whatever is verified and seeded meanwhile.
THEOREM WalksAreComplete == AllSpec => []WalkIsComplete
  <1>1. ListInv => WalkIsComplete
    <2> SUFFICES ASSUME ListInv PROVE WalkIsComplete
      OBVIOUS
    <2>1. selecting => \A m \in L!contracts : m \in L!MatchIds /\ Ahead(m)
      BY PageIsNext DEF ListInv, ToList, L!RowsOfChain
    <2>2. ASSUME selecting, NEW m \in L!contracts, m \in listed PROVE FALSE
      <3>1. cursor # L!NoCursor /\ <<cursor, m>> \in Order(query) /\ (m = cursor \/ <<m, cursor>> \in Order(query))
        BY <2>1, <2>2 DEF ListInv, Ahead
      <3>2. cursor \in L!MatchIds
        BY <3>1, CursorIsAnId DEF ListInv
      <3> QED BY <2>1, <2>2, <3>1, <3>2, OrderIsTotal DEF IsOrder
    <2> QED BY <2>2 DEF ListInv, WalkIsComplete, L!WalkIsComplete
  <1> QED BY <1>1, ListingAlways, PTL

-----------------------------------------------------------------------------
(* Types *)

\* What matchBytecode returns has one of the five verdicts.
MatchInv ==
    /\ input \in [compilation : Compilations, onchain : Codes]
    /\ \/ matched = M!NoResult
       \/ matched = M!matchBytecode(input.compilation, input.onchain)

LEMMA VerdictIsKnown ==
    ASSUME NEW c, NEW onchain
    PROVE  M!matchBytecode(c, onchain).match \in {"null", "match", "exact_match", "error"}
  <1> DEFINE m == M!Populated(c, onchain)
             verdict == IF m.thrown THEN "error" ELSE M!Verdict(c, m.code, onchain)
  <1>1. M!Verdict(c, m.code, onchain) \in {"null", "match", "exact_match"}
    <2>1. \A p : M!Verdict(c, p, onchain) \in {"null", "match", "exact_match"}
      BY Zenon DEF M!Verdict
    <2> QED BY <2>1
  <1>2. verdict \in {"null", "match", "exact_match", "error"}
    BY <1>1
  <1>3. M!matchBytecode(c, onchain).match = verdict
    <2>1. \A v : [M!NoResult EXCEPT !.match = v].match = v
      BY DEF M!NoResult
    <2>2. \A v, t, w : [match |-> v, transformations |-> t, values |-> w].match = v
      OBVIOUS
    <2> QED BY <2>1, <2>2 DEF M!matchBytecode
  <1> QED BY <1>2, <1>3

LEMMA MatchAlways == AllSpec => []MatchInv
  <1>1. AllInit => MatchInv
    BY DEF AllInit, M!Init, MatchInv
  <1>2. MatchInv /\ [AllNext]_allVars => MatchInv'
    <2> SUFFICES ASSUME MatchInv, [AllNext]_allVars PROVE MatchInv'
      OBVIOUS
    <2>1. M!Match \/ UNCHANGED matchVars
      BY Zenon DEF AllNext, allVars, M!Next, matchVars
    <2>2. CASE M!Match
      BY <2>2 DEF M!Match, MatchInv
    <2>3. CASE UNCHANGED matchVars
      BY <2>3 DEF matchVars, MatchInv
    <2> QED BY <2>1, <2>2, <2>3
  <1> QED BY <1>1, <1>2, PTL DEF AllSpec

LEMMA StoreIsAPart == AllSpec => Spec
  <1>1. AllInit => Init
    BY DEF AllInit
  <1>2. [AllNext]_allVars => [Next]_vars
    BY Zenon DEF AllNext, allVars
  <1> QED BY <1>1, <1>2, PTL DEF AllSpec, Spec

-----------------------------------------------------------------------------
(* The types of all parts *)

\* Types, for every value of the constants: the rows of the store and what its
\* runs hold, the verdict of a comparison, and the state of a walk.
THEOREM ContractTypes == AllSpec => []TypesOK
  <1>1. MatchInv => M!TypeOK
    <2>1. M!NoResult.match = "none"
      BY DEF M!NoResult
    <2> QED BY <2>1, VerdictIsKnown DEF MatchInv, M!TypeOK
  <1>2. ListInv => L!TypeOK
    BY DEF ListInv
  <1>3. TypeOK /\ M!TypeOK /\ L!TypeOK => TypesOK
    BY DEF TypesOK
  <1> QED BY <1>1, <1>2, <1>3, MatchAlways, ListingAlways, StoreIsAPart,
             StoreTypeCorrect, PTL

-----------------------------------------------------------------------------
(* Folds: what a fold over a sequence computes, one element at a time.  A   *)
(* work names the step, what is folded and where the fold begins.          *)

Work(step, base, seq, a, b) == [step |-> step, base |-> base, seq |-> seq, a |-> a, b |-> b]

Stepped(w, m, i) ==
    CASE w.step = "immutable" -> M!WithImmutable(m, w.seq[i], w.a, w.b)
      [] w.step = "library" -> M!WithLibrary(m, w.seq[i], w.a)
      [] OTHER -> M!WithTransformation(m, w.seq[i], w.a)

Greatest(s) == CHOOSE x \in s : \A y \in s : x >= y

\* The equation of the recursive function that a fold is taken from
IsFold(g, w, S) ==
    g = [s \in SUBSET S |->
            IF s = {} THEN w.base
            ELSE Stepped(w, g[s \ {Greatest(s)}], Greatest(s))]

FoldOf(w, S) == (CHOOSE g : IsFold(g, w, S))[S]

LEMMA FoldEquation ==
    ASSUME NEW g, NEW w, NEW S, IsFold(g, w, S), NEW s \in SUBSET S, s # {}
    PROVE  g[s] = Stepped(w, g[s \ {Greatest(s)}], Greatest(s))
  <1> DEFINE E(t) == IF t = {} THEN w.base ELSE Stepped(w, g[t \ {Greatest(t)}], Greatest(t))
  <1>1. g = [t \in SUBSET S |-> E(t)]
    BY DEF IsFold
  <1>2. g[s] = E(s)
    <2> HIDE DEF E
    <2> QED BY <1>1
  <1> QED BY <1>2

LEMMA GreatestIsIn ==
    ASSUME NEW s, IsFiniteSet(s), s \subseteq Int, s # {} PROVE Greatest(s) \in s
  <1>1. \E m \in s : \A x \in s : m >= x
    BY GreatestExists
  <1> QED BY <1>1 DEF Greatest

\* Two such functions agree where both are defined.
LEMMA FoldsAgree ==
    ASSUME NEW w, NEW S, AreNumbers(S), NEW T, NEW g, NEW h,
           IsFold(g, w, S), IsFold(h, w, T)
    PROVE  \A s \in SUBSET (S \cap T) : g[s] = h[s]
  <1>0. IsFiniteSet(S) /\ S \subseteq Int
    BY DEF AreNumbers
  <1> DEFINE Bad == {s \in SUBSET (S \cap T) : g[s] # h[s]}
  <1> SUFFICES ASSUME Bad # {} PROVE FALSE
    OBVIOUS
  <1>1. \A s \in Bad : IsFiniteSet(s) /\ s \subseteq Int
    BY <1>0, FS_Subset
  <1>2. PICK s \in Bad : \A t \in Bad : Cardinality(s) <= Cardinality(t)
    BY <1>1, LeastSet
  <1>3. s # {}
    BY DEF IsFold
  <1> DEFINE x == Greatest(s)
             u == s \ {x}
  <1>4. x \in s
    BY <1>1, <1>3, GreatestIsIn
  <1>5. g[s] = Stepped(w, g[u], x) /\ h[s] = Stepped(w, h[u], x)
    BY <1>3, FoldEquation
  <1>6. u \in SUBSET (S \cap T) /\ u \notin Bad
    <2>1. Cardinality(u) = Cardinality(s) - 1 /\ Cardinality(s) \in Nat
      BY <1>1, <1>4, FS_RemoveElement, FS_CardinalityType
    <2>2. u \in SUBSET (S \cap T)
      OBVIOUS
    <2> HIDE DEF Bad, u, x
    <2>3. u \in Bad => Cardinality(s) <= Cardinality(u)
      BY <1>2
    <2> QED BY <2>1, <2>2, <2>3
  <1> QED BY <1>5, <1>6

LEMMA FoldExists ==
    ASSUME NEW w, NEW S, AreNumbers(S) PROVE \E g : IsFold(g, w, S)
  <1> DEFINE Bad == {s \in SUBSET S : ~\E g : IsFold(g, w, s)}
  <1> SUFFICES ASSUME Bad # {} PROVE FALSE
    OBVIOUS
  <1>0. IsFiniteSet(S) /\ S \subseteq Int
    BY DEF AreNumbers
  <1>1. \A s \in SUBSET S : IsFiniteSet(s) /\ s \subseteq Int
    BY <1>0, FS_Subset
  <1>2. PICK s \in Bad : \A t \in Bad : Cardinality(s) <= Cardinality(t)
    BY <1>1, LeastSet
  <1> DEFINE G(t) == CHOOSE g : IsFold(g, w, t)
             x(t) == Greatest(t)
             E(t) == IF t = {} THEN w.base ELSE Stepped(w, G(t \ {x(t)})[t \ {x(t)}], x(t))
             g == [t \in SUBSET s |-> E(t)]
  <1>3. ASSUME NEW t \in SUBSET s, t # s PROVE IsFold(G(t), w, t)
    <2>1. IsFiniteSet(s) /\ IsFiniteSet(t) /\ t \in SUBSET S
      BY <1>1
    <2>2. Cardinality(t) < Cardinality(s)
      <3> HIDE DEF G, E, x, g, Bad
      <3>1. t \in SUBSET s /\ (Cardinality(t) = Cardinality(s) => t = s)
        BY <2>1, FS_Subset
      <3>2. Cardinality(t) <= Cardinality(s)
        BY <2>1, FS_Subset
      <3>3. Cardinality(t) \in Nat /\ Cardinality(s) \in Nat
        BY <2>1, FS_CardinalityType
      <3> QED BY <1>3, <3>1, <3>2, <3>3
    <2>3. Cardinality(t) \in Nat /\ Cardinality(s) \in Nat
      BY <2>1, FS_CardinalityType
    <2>4. t \notin Bad
      <3> HIDE DEF Bad
      <3> QED BY <1>2, <2>2, <2>3
    <2> QED BY <2>1, <2>4
  <1>4. ASSUME NEW t \in SUBSET s, t # s PROVE G(t)[t] = g[t]
    <2>1. CASE t = {}
      <3>1. IsFold(G(t), w, t)
        BY <1>3, <1>4
      <3>2. G(t)[t] = w.base /\ g[t] = w.base
        <4> HIDE DEF G
        <4> QED BY <2>1, <3>1 DEF IsFold
      <3> QED BY <3>2
    <2>2. CASE t # {}
      <3> DEFINE u == t \ {x(t)}
      <3>1. x(t) \in t
        BY <1>1, <2>2, GreatestIsIn
      <3>2. IsFold(G(t), w, t) /\ IsFold(G(u), w, u) /\ IsFiniteSet(t) /\ t \subseteq Int
        <4>1. u \in SUBSET s /\ u # s
          BY <3>1
        <4> HIDE DEF G, u
        <4> QED BY <1>1, <1>3, <1>4, <4>1
      <3>3. G(t)[u] = G(u)[u]
        <4>1. u \in SUBSET (t \cap u)
          OBVIOUS
        <4> DEFINE gt == G(t)
                   gu == G(u)
        <4>2. IsFold(gt, w, t) /\ IsFold(gu, w, u) /\ AreNumbers(t)
          BY <3>2 DEF AreNumbers
        <4> HIDE DEF gt, gu, u
        <4>3. \A r \in SUBSET (t \cap u) : gt[r] = gu[r]
          BY <4>2, FoldsAgree
        <4>4. gt[u] = gu[u]
          BY <4>1, <4>3
        <4> QED BY <4>4 DEF gt, gu
      <3>4. G(t)[t] = Stepped(w, G(t)[u], x(t))
        <4>1. t \in SUBSET t
          OBVIOUS
        <4>2. IsFold(G(t), w, t) /\ t # {}
          BY <2>2, <3>2
        <4> HIDE DEF G
        <4> QED BY <4>1, <4>2, FoldEquation
      <3>5. g[t] = E(t)
        <4> HIDE DEF E
        <4> QED OBVIOUS
      <3> HIDE DEF G, g
      <3> QED BY <2>2, <3>3, <3>4, <3>5
    <2> QED BY <2>1, <2>2
  <1>5. IsFold(g, w, s)
    <2>1. \A t \in SUBSET s : t # {} => G(t \ {x(t)})[t \ {x(t)}] = g[t \ {x(t)}]
      <3> SUFFICES ASSUME NEW t \in SUBSET s, t # {}
                   PROVE  G(t \ {x(t)})[t \ {x(t)}] = g[t \ {x(t)}]
        OBVIOUS
      <3>1. x(t) \in t
        BY <1>1, GreatestIsIn
      <3>2. t \ {x(t)} \in SUBSET s /\ t \ {x(t)} # s
        BY <3>1
      <3> HIDE DEF G, g, x
      <3> QED BY <1>4, <3>2
    <2>2. \A t \in SUBSET s : g[t] = IF t = {} THEN w.base ELSE Stepped(w, g[t \ {x(t)}], x(t))
      <3> SUFFICES ASSUME NEW t \in SUBSET s
                   PROVE  g[t] = IF t = {} THEN w.base ELSE Stepped(w, g[t \ {x(t)}], x(t))
        OBVIOUS
      <3>1. g[t] = E(t)
        <4> HIDE DEF E
        <4> QED OBVIOUS
      <3>2. t # {} => G(t \ {x(t)})[t \ {x(t)}] = g[t \ {x(t)}]
        BY <2>1
      <3> HIDE DEF G, x, g
      <3> QED BY <3>1, <3>2
    <2>3. g = [t \in SUBSET s |-> g[t]]
      OBVIOUS
    <2> HIDE DEF g
    <2> QED BY <2>2, <2>3 DEF IsFold
  <1> QED BY <1>2, <1>5

\* A fold is reached one element at a time.
LEMMA FoldUnfolds ==
    ASSUME NEW w, NEW n \in Nat
    PROVE  \E f : /\ f[0] = w.base
                  /\ \A i \in 1..n : f[i] = Stepped(w, f[i - 1], i)
                  /\ FoldOf(w, 1..n) = f[n]
  <1> DEFINE S == 1..n
             g == CHOOSE g : IsFold(g, w, S)
             f == [i \in 0..n |-> g[1..i]]
  <1>1. AreNumbers(S)
    BY FS_Interval DEF AreNumbers
  <1>2. IsFold(g, w, S)
    <2> HIDE DEF S
    <2> QED BY <1>1, FoldExists
  <1> HIDE DEF g
  <1>3. f[0] = w.base
    <2>1. f[0] = g[{}]
      <3>1. 1..0 = {}
        OBVIOUS
      <3> QED BY <3>1
    <2> QED BY <1>2, <2>1 DEF IsFold
  <1>4. ASSUME NEW i \in 1..n PROVE f[i] = Stepped(w, f[i - 1], i)
    <2> DEFINE s == 1..i
    <2>1. s \in SUBSET S /\ s # {} /\ i \in s /\ \A y \in s : i >= y
      OBVIOUS
    <2>2. Greatest(s) = i
      <3>1. Greatest(s) \in s /\ \A y \in s : Greatest(s) >= y
        <4> HIDE DEF s
        <4> QED BY <2>1 DEF Greatest
      <3> QED BY <2>1, <3>1
    <2>3. s \ {i} = 1..(i - 1)
      OBVIOUS
    <2>4. g[s] = Stepped(w, g[s \ {i}], i)
      <3> HIDE DEF s, S
      <3> QED BY <1>2, <2>1, <2>2, FoldEquation
    <2>5. f[i] = g[s] /\ f[i - 1] = g[1..(i - 1)]
      OBVIOUS
    <2> HIDE DEF s, S, f
    <2> QED BY <2>3, <2>4, <2>5
  <1>5. FoldOf(w, S) = f[n]
    BY DEF FoldOf, g
  <1> QED BY <1>3, <1>4, <1>5

\* The folds of the comparison
ImmutablesOf(c, onchain) ==
    Work("immutable", M!Protected(M!Unfilled(c.code), onchain), c.immutableReferences,
         onchain, c.vyper)
LibrariesOf(c, onchain, m) == Work("library", m, c.linkReferences, onchain, FALSE)
TransformationsOf(code, r) == Work("transformation", code, r.transformations, r.values, FALSE)

LEMMA PopulatedIsFold ==
    ASSUME NEW c, NEW onchain
    PROVE  LET m == FoldOf(ImmutablesOf(c, onchain), DOMAIN c.immutableReferences)
           IN  M!Populated(c, onchain)
                   = FoldOf(LibrariesOf(c, onchain, m), DOMAIN c.linkReferences)
  BY DEF M!Populated, M!FoldLeft, M!MapThenFoldSet, M!Max, FoldOf, IsFold, Stepped, Greatest,
         ImmutablesOf, LibrariesOf, Work

LEMMA AppliedIsFold ==
    ASSUME NEW code, NEW r
    PROVE  M!Applied(code, r) = FoldOf(TransformationsOf(code, r), DOMAIN r.transformations)
  BY DEF M!Applied, M!FoldLeft, M!MapThenFoldSet, M!Max, FoldOf, IsFold, Stepped, Greatest,
         TransformationsOf, Work

-----------------------------------------------------------------------------
(* Codes *)

LEMMA SliceIs ==
    ASSUME NEW A, NEW s \in Seq(A), NEW i \in Int
    PROVE  /\ M!Slice(s, i) \in Seq(A)
           /\ i \in 1..Len(s) => M!Slice(s, i) = <<s[i]>> /\ Len(M!Slice(s, i)) = 1
           /\ i \notin 1..Len(s) => M!Slice(s, i) = <<>> /\ Len(M!Slice(s, i)) = 0
  <1>1. CASE i \in 1..Len(s)
    <2>1. s[i] \in A /\ M!Slice(s, i) = <<s[i]>>
      BY <1>1 DEF M!Slice
    <2> QED BY <1>1, <2>1
  <1>2. CASE i \notin 1..Len(s)
    <2>1. M!Slice(s, i) = <<>>
      BY <1>2 DEF M!Slice
    <2> QED BY <1>2, <2>1
  <1> QED BY <1>1, <1>2

LEMMA JoinedIs ==
    ASSUME NEW A, NEW s \in Seq(A), NEW t \in Seq(A)
    PROVE  LET r == s \o t
           IN  /\ r \in Seq(A) /\ Len(r) = Len(s) + Len(t)
               /\ \A k \in 1..Len(s) : r[k] = s[k]
               /\ \A k \in 1..Len(t) : r[Len(s) + k] = t[k]
  OBVIOUS

LEMMA UpToIs ==
    ASSUME NEW A, NEW s \in Seq(A), NEW i \in Nat
    PROVE  LET p == M!UpTo(s, i)
           IN  /\ p \in Seq(A)
               /\ i < Len(s) => Len(p) = i
               /\ i >= Len(s) => Len(p) = Len(s)
               /\ \A k \in 1..Len(p) : p[k] = s[k]
  BY DEF M!UpTo

\* What a replacement does to a code and to its length
LEMMA ReplacedIs ==
    ASSUME NEW A, NEW s \in Seq(A), NEW v \in Seq(A), Len(v) <= 1, NEW i \in Nat \ {0}
    PROVE  LET r == M!Replaced(s, i, v)
           IN  /\ r \in Seq(A)
               /\ i <= Len(s) => Len(r) = Len(s) - 1 + Len(v)
               /\ i > Len(s) => Len(r) = Len(s) + Len(v)
               /\ \A k \in 1..Len(r) : k < i /\ k <= Len(s) => r[k] = s[k]
               /\ i <= Len(s) /\ Len(v) = 1 =>
                      r[i] = v[1] /\ \A k \in 1..Len(s) : k # i => r[k] = s[k]
  <1> DEFINE p == M!UpTo(s, i - 1)
             q == SubSeq(s, i + 1, Len(s))
             r == p \o v \o q
             pv == p \o v
  <1>1. /\ p \in Seq(A) /\ \A k \in 1..Len(p) : p[k] = s[k]
        /\ i <= Len(s) => Len(p) = i - 1
        /\ i > Len(s) => Len(p) = Len(s)
    BY UpToIs
  <1>2. /\ q \in Seq(A) /\ \A k \in 1..Len(q) : q[k] = s[i + k]
        /\ i <= Len(s) => Len(q) = Len(s) - i
        /\ i > Len(s) => Len(q) = 0
    OBVIOUS
  <1>3. M!Replaced(s, i, v) = r
    BY DEF M!Replaced
  <1> HIDE DEF p, q
  <1>4. /\ pv \in Seq(A) /\ Len(pv) = Len(p) + Len(v)
        /\ \A k \in 1..Len(p) : pv[k] = p[k]
        /\ \A k \in 1..Len(v) : pv[Len(p) + k] = v[k]
    BY <1>1, JoinedIs
  <1>5. r = pv \o q
    OBVIOUS
  <1> HIDE DEF pv
  <1>6. /\ r \in Seq(A) /\ Len(r) = Len(pv) + Len(q)
        /\ \A k \in 1..Len(pv) : r[k] = pv[k]
        /\ \A k \in 1..Len(q) : r[Len(pv) + k] = q[k]
    BY <1>2, <1>4, <1>5, JoinedIs
  <1> HIDE DEF r
  <1>7. /\ Len(s) \in Nat /\ Len(v) \in Nat /\ Len(r) \in Nat
        /\ Len(p) \in Nat /\ Len(q) \in Nat /\ Len(pv) \in Nat
    BY <1>1, <1>2, <1>4, <1>6
  <1>8. /\ i <= Len(s) => Len(r) = Len(s) - 1 + Len(v)
        /\ i > Len(s) => Len(r) = Len(s) + Len(v)
    <2>1. Len(r) = Len(p) + Len(v) + Len(q)
      BY <1>4, <1>6
    <2> QED BY <1>1, <1>2, <1>7, <2>1
  <1>9. ASSUME NEW k \in 1..Len(r), k < i, k <= Len(s) PROVE r[k] = s[k]
    <2>1. k \in 1..Len(p) /\ k \in 1..Len(pv)
      BY <1>1, <1>4, <1>7, <1>9
    <2> QED BY <1>1, <1>4, <1>6, <2>1
  <1>10. ASSUME i <= Len(s), Len(v) = 1 PROVE r[i] = v[1]
    <2>1. 1 \in 1..Len(v) /\ Len(p) + 1 = i /\ i \in 1..Len(pv)
      BY <1>1, <1>4, <1>7, <1>10
    <2>2. pv[i] = v[1]
      BY <1>4, <2>1
    <2> QED BY <1>6, <2>1, <2>2
  <1>11. ASSUME i <= Len(s), Len(v) = 1, NEW k \in 1..Len(s), k # i PROVE r[k] = s[k]
    <2>1. CASE k < i
      BY <1>7, <1>8, <1>9, <1>11, <2>1
    <2>2. CASE k > i
      <3>1. k - i \in 1..Len(q) /\ Len(pv) = i /\ i + (k - i) = k
        BY <1>1, <1>2, <1>4, <1>7, <1>11, <2>2
      <3>2. r[Len(pv) + (k - i)] = q[k - i] /\ q[k - i] = s[i + (k - i)]
        BY <1>2, <1>6, <3>1
      <3> QED BY <3>1, <3>2
    <2> QED BY <1>7, <1>11, <2>1, <2>2
  <1> QED BY <1>3, <1>6, <1>8, <1>9, <1>10, <1>11

LEMMA CodesHaveSymbols ==
    ASSUME NEW c, M!IsCode(c.code), NEW onchain, M!IsCode(onchain)
    PROVE  LET A == M!ToSet(c.code) \cup M!ToSet(onchain)
           IN  c.code \in Seq(A) /\ onchain \in Seq(A)
  BY DEF M!IsCode

-----------------------------------------------------------------------------
(* The slots of a compilation *)

\* Its reports, in the order in which its slots are filled in
Protections(c) == IF M!IsProtected(c.code) THEN 1 ELSE 0
Immutables(c) == Len(c.immutableReferences)
Libraries(c) == Len(c.linkReferences)
Reports(c) == Protections(c) + Immutables(c) + Libraries(c)

ReportAt(c, j) ==
    IF j <= Protections(c)
    THEN M!Report("replace", "callProtection", [start |-> 2, id |-> ""])
    ELSE IF j <= Protections(c) + Immutables(c)
    THEN M!Report(IF c.vyper THEN "insert" ELSE "replace", "immutable",
                  c.immutableReferences[j - Protections(c)])
    ELSE M!Report("replace", "library",
                  c.linkReferences[j - Protections(c) - Immutables(c)])

Offset(c, j) ==
    IF j <= Protections(c) THEN 2
    ELSE IF j <= Protections(c) + Immutables(c)
    THEN c.immutableReferences[j - Protections(c)].start
    ELSE c.linkReferences[j - Protections(c) - Immutables(c)].start

Name(c, j) == <<ReportAt(c, j).reason, ReportAt(c, j).id>>

\* The slot of a Vyper contract follows its code.
Follows(c) == c.vyper /\ c.immutableReferences # <<>>

LEMMA OffsetIsReported == ASSUME NEW c, NEW j PROVE ReportAt(c, j).offset = Offset(c, j)
  BY DEF ReportAt, Offset, M!Report

LEMMA ReportsAreCounted ==
    ASSUME NEW c, M!IsCompiled(c)
    PROVE  /\ Protections(c) \in 0..1 /\ Immutables(c) \in Nat /\ Libraries(c) \in Nat
           /\ Reports(c) \in Nat
           /\ Reports(c) = Protections(c) + Immutables(c) + Libraries(c)
           /\ Len(c.code) \in Nat
           /\ DOMAIN c.immutableReferences = 1..Immutables(c)
           /\ DOMAIN c.linkReferences = 1..Libraries(c)
  <1>1. /\ c.immutableReferences \in Seq(M!ToSet(c.immutableReferences))
        /\ c.linkReferences \in Seq(M!ToSet(c.linkReferences))
        /\ c.code \in Seq(M!ToSet(c.code))
    BY DEF M!IsCompiled, M!AreReferences, M!IsCode
  <1>2. /\ Immutables(c) \in Nat /\ DOMAIN c.immutableReferences = 1..Immutables(c)
        /\ Libraries(c) \in Nat /\ DOMAIN c.linkReferences = 1..Libraries(c)
        /\ Len(c.code) \in Nat
    BY <1>1 DEF Immutables, Libraries
  <1>3. Protections(c) \in 0..1
    BY DEF Protections
  <1> QED BY <1>2, <1>3 DEF Reports

\* Where the slots lie: in the code, before its auxdata, apart from each other
SlotsLieApart(c) ==
    /\ \A j \in 1..Reports(c) : Offset(c, j) \in 1..Len(c.code) /\ Offset(c, j) \in M!Slots(c)
    /\ \A i, j \in 1..Reports(c) : i # j => Offset(c, i) # Offset(c, j)
    /\ M!IsProtected(c.code) =>
           \A j \in 1..Reports(c) : j > Protections(c) => Offset(c, j) \notin {1, 2}
    /\ M!IsProtected(c.code) => Len(c.code) >= 2
    /\ M!SplitsOff(c.code) => Len(c.code) \notin M!Slots(c)

LEMMA ProtectedIsLong ==
    ASSUME NEW c, M!IsCode(c.code), M!IsProtected(c.code)
    PROVE  /\ Len(c.code) >= 2 /\ c.code[1] = Push20 /\ c.code[2] = Zero
           /\ M!SplitsOff(c.code) => Len(c.code) # 2 /\ Len(c.code) # 1
  <1>1. c.code \in Seq(M!ToSet(c.code))
    BY DEF M!IsCode
  <1>2. 1 \in 1..Len(c.code) /\ 2 \in 1..Len(c.code) /\ c.code[1] = Push20 /\ c.code[2] = Zero
    <2>1. M!Slice(c.code, 1) = <<Push20>> /\ M!Slice(c.code, 2) = <<Zero>>
      BY DEF M!IsProtected
    <2>2. 1 \in DOMAIN c.code /\ 2 \in DOMAIN c.code
      BY <2>1 DEF M!Slice
    <2>3. <<c.code[1]>> = <<Push20>> /\ <<c.code[2]>> = <<Zero>>
      BY <2>1, <2>2 DEF M!Slice
    <2> QED BY <1>1, <2>2, <2>3
  <1>3. M!SplitsOff(c.code) => c.code[Len(c.code)] \in Auxdata
    BY DEF M!SplitsOff, M!Last
  <1> QED BY <1>1, <1>2, <1>3, MatchingAssumption

LEMMA SlotsAreApart ==
    ASSUME NEW c, M!IsCompiled(c), ~Follows(c) PROVE SlotsLieApart(c)
  <1> DEFINE p == Protections(c)
             n == Immutables(c)
             l == Libraries(c)
             I == M!Starts(c.immutableReferences)
             B == M!Starts(c.linkReferences)
             P == IF M!IsProtected(c.code) THEN {1, 2} ELSE {}
  <1>1. /\ p \in 0..1 /\ n \in Nat /\ l \in Nat /\ Reports(c) = p + n + l /\ Len(c.code) \in Nat
        /\ DOMAIN c.immutableReferences = 1..n /\ DOMAIN c.linkReferences = 1..l
    BY ReportsAreCounted
  <1>2. /\ \A k \in 1..n : c.immutableReferences[k].start \in I
        /\ \A k \in 1..l : c.linkReferences[k].start \in B
    BY <1>1 DEF M!Starts, M!ToSet
  <1>3. /\ \A i, j \in 1..n :
               i # j => c.immutableReferences[i].start # c.immutableReferences[j].start
        /\ \A i, j \in 1..l : i # j => c.linkReferences[i].start # c.linkReferences[j].start
    BY <1>1 DEF M!IsCompiled, M!AreReferences
  <1>4. /\ I \cup B \subseteq 1..Len(c.code) /\ I \cap B = {} /\ (I \cup B) \cap P = {}
        /\ M!SplitsOff(c.code) => Len(c.code) \notin I \cup B
    <2>1. CASE c.vyper
      <3>1. c.immutableReferences = <<>> /\ c.linkReferences = <<>>
        BY <2>1 DEF M!IsCompiled, Follows
      <3>2. I = {} /\ B = {}
        BY <3>1 DEF M!Starts, M!ToSet
      <3> QED BY <3>2
    <2>2. CASE ~c.vyper
      <3>1. I \cup B \subseteq 1..Len(c.code) \ (P \cup (IF M!SplitsOff(c.code) THEN {Len(c.code)} ELSE {}))
            /\ I \cap B = {}
        BY <2>2 DEF M!IsCompiled
      <3> HIDE DEF I, B, P
      <3> QED BY <3>1
    <2> QED BY <2>1, <2>2
  <1>5. M!Slots(c) = I \cup B \cup P
    BY DEF M!Slots
  <1>6. M!IsProtected(c.code) =>
            /\ Len(c.code) >= 2
            /\ M!SplitsOff(c.code) => Len(c.code) # 2 /\ Len(c.code) # 1
    BY ProtectedIsLong DEF M!IsCompiled
  <1>7. /\ p = 1 <=> M!IsProtected(c.code)
        /\ P = IF p = 1 THEN {1, 2} ELSE {}
    BY DEF Protections
  <1> HIDE DEF I, B, P
  <1>8. ASSUME NEW j \in 1..Reports(c)
        PROVE  \/ j <= p /\ p = 1 /\ j = 1 /\ Offset(c, j) = 2
               \/ /\ j > p /\ j <= p + n /\ j - p \in 1..n
                  /\ Offset(c, j) = c.immutableReferences[j - p].start /\ Offset(c, j) \in I
               \/ /\ j > p + n /\ j - p - n \in 1..l
                  /\ Offset(c, j) = c.linkReferences[j - p - n].start /\ Offset(c, j) \in B
    <2>1. CASE j <= p
      BY <1>1, <2>1 DEF Offset
    <2>2. CASE j > p /\ j <= p + n
      <3>1. j - p \in 1..n /\ Offset(c, j) = c.immutableReferences[j - p].start
        BY <1>1, <2>2 DEF Offset
      <3> QED BY <1>2, <2>2, <3>1
    <2>3. CASE j > p + n
      <3>1. j - p - n \in 1..l /\ Offset(c, j) = c.linkReferences[j - p - n].start
        BY <1>1, <2>3 DEF Offset
      <3> QED BY <1>2, <2>3, <3>1
    <2> QED BY <1>1, <2>1, <2>2, <2>3
  <1> HIDE DEF p, n, l
  <1>9. ASSUME NEW j \in 1..Reports(c)
        PROVE  Offset(c, j) \in 1..Len(c.code) /\ Offset(c, j) \in M!Slots(c)
    BY <1>1, <1>4, <1>5, <1>6, <1>7, <1>8
  <1>10. ASSUME NEW i \in 1..Reports(c), NEW j \in 1..Reports(c), i # j
         PROVE  Offset(c, i) # Offset(c, j)
    <2>1. i \in Int /\ j \in Int
      BY <1>1
    <2>2. CASE i <= p \/ j <= p
      <3>1. \A k \in 1..Reports(c) : k <= p => k = 1 /\ Offset(c, k) \in P
        BY <1>1, <1>7, <1>8
      <3>2. \A k \in 1..Reports(c) : k > p => Offset(c, k) \in I \cup B
        BY <1>1, <1>8
      <3> QED BY <1>1, <1>4, <1>10, <2>1, <2>2, <3>1, <3>2
    <2>3. CASE i > p /\ j > p /\ i <= p + n /\ j <= p + n
      <3>1. i - p \in 1..n /\ j - p \in 1..n /\ i - p # j - p
        BY <1>1, <1>10, <2>1, <2>3
      <3>2. /\ Offset(c, i) = c.immutableReferences[i - p].start
            /\ Offset(c, j) = c.immutableReferences[j - p].start
        BY <1>1, <1>8, <2>1, <2>3
      <3> QED BY <1>3, <3>1, <3>2
    <2>4. CASE i > p + n /\ j > p + n
      <3>1. ASSUME NEW k \in 1..Reports(c), k > p + n
            PROVE  /\ k - p - n \in 1..l
                   /\ Offset(c, k) = c.linkReferences[k - p - n].start
        <4>1. k \in Int /\ ~(k <= p) /\ ~(k <= p + n)
          BY <1>1, <3>1
        <4> QED BY <1>8, <3>1, <4>1
      <3>2. i - p - n # j - p - n
        BY <1>1, <1>10, <2>1
      <3> QED BY <1>3, <2>4, <3>1, <3>2
    <2>5. CASE /\ i > p /\ j > p
               /\ (i <= p + n /\ j > p + n) \/ (j <= p + n /\ i > p + n)
      <3>1. \A k \in 1..Reports(c) : k > p /\ k <= p + n => Offset(c, k) \in I
        BY <1>1, <1>8
      <3>2. ASSUME NEW k \in 1..Reports(c), k > p + n PROVE Offset(c, k) \in B
        <4>1. k \in Int /\ ~(k <= p) /\ ~(k <= p + n)
          BY <1>1, <3>2
        <4> QED BY <1>8, <3>2, <4>1
      <3> QED BY <1>4, <2>5, <3>1, <3>2
    <2> QED BY <1>1, <2>1, <2>2, <2>3, <2>4, <2>5
  <1>11. ASSUME M!IsProtected(c.code), NEW j \in 1..Reports(c), j > p
         PROVE  Offset(c, j) \notin {1, 2}
    <2>1. Offset(c, j) \in I \cup B
      BY <1>1, <1>8, <1>11
    <2> QED BY <1>4, <1>7, <1>11, <2>1
  <1>12. M!SplitsOff(c.code) => Len(c.code) \notin M!Slots(c)
    BY <1>4, <1>5, <1>6, <1>7
  <1> QED BY <1>6, <1>9, <1>10, <1>11, <1>12 DEF SlotsLieApart, p

-----------------------------------------------------------------------------
(* A code that is being filled in keeps everything but its slots, as far as *)
(* the code on the chain goes, and loses a symbol only for a slot beyond.   *)

Symbols(c, onchain) == M!ToSet(c.code) \cup M!ToSet(onchain)
Beyond(onchain, slots) == {i \in slots : i > Len(onchain)}

Aligned(c, onchain, code, slots) ==
    /\ code \in Seq(Symbols(c, onchain)) /\ Len(code) <= Len(c.code)
    /\ Len(code) >= Len(c.code) \/ Len(code) >= Len(onchain)
    /\ Len(code) + Cardinality(Beyond(onchain, slots)) >= Len(c.code)
    /\ \A i \in 1..Len(onchain) : i \notin M!Slots(c) => M!Slice(code, i) = M!Slice(c.code, i)

LEMMA BeyondGrows ==
    ASSUME NEW onchain, NEW slots, IsFiniteSet(slots), NEW i, i \notin slots
    PROVE  LET more == Beyond(onchain, slots \cup {i})
           IN  /\ Cardinality(Beyond(onchain, slots)) \in Nat /\ Cardinality(more) \in Nat
               /\ Cardinality(more) >= Cardinality(Beyond(onchain, slots))
               /\ i > Len(onchain) =>
                      Cardinality(more) = Cardinality(Beyond(onchain, slots)) + 1
  <1> DEFINE B == Beyond(onchain, slots)
             more == Beyond(onchain, slots \cup {i})
  <1>1. B \in SUBSET slots /\ i \notin B
    BY DEF Beyond
  <1>2. IsFiniteSet(B)
    BY <1>1, FS_Subset
  <1>3. more = IF i > Len(onchain) THEN B \cup {i} ELSE B
    BY DEF Beyond
  <1> HIDE DEF B, more
  <1>4. Cardinality(B \cup {i}) = Cardinality(B) + 1 /\ Cardinality(B) \in Nat
    <2>1. Cardinality(B) \in Nat
      BY <1>2, FS_CardinalityType
    <2>2. Cardinality(B \cup {i}) = Cardinality(B) + 1
      BY <1>1, <1>2, FS_AddElement
    <2> QED BY <2>1, <2>2
  <1>5. /\ Cardinality(more) \in Nat /\ Cardinality(more) >= Cardinality(B)
        /\ i > Len(onchain) => Cardinality(more) = Cardinality(B) + 1
    <2>1. CASE i > Len(onchain)
      BY <1>3, <1>4, <2>1
    <2>2. CASE ~(i > Len(onchain))
      BY <1>3, <1>4, <2>2
    <2> QED BY <2>1, <2>2
  <1> QED BY <1>4, <1>5 DEF B, more

LEMMA SliceLength ==
    ASSUME NEW A, NEW s \in Seq(A), NEW i \in Nat \ {0}
    PROVE  LET v == M!Slice(s, i)
           IN  /\ v \in Seq(A) /\ Len(v) \in Nat /\ Len(v) <= 1
               /\ i <= Len(s) => Len(v) = 1
               /\ i > Len(s) => Len(v) = 0
  <1> DEFINE v == M!Slice(s, i)
  <1>1. i \in Int /\ Len(s) \in Nat
    OBVIOUS
  <1>2. /\ v \in Seq(A)
        /\ i \in 1..Len(s) => Len(v) = 1
        /\ i \notin 1..Len(s) => Len(v) = 0
    BY <1>1, SliceIs, Zenon
  <1>3. i \in 1..Len(s) <=> i <= Len(s)
    BY <1>1
  <1> HIDE DEF v
  <1>4. Len(v) = 1 \/ Len(v) = 0
    BY <1>2
  <1>5. Len(v) \in Nat /\ Len(v) <= 1
    <2> DEFINE length == Len(v)
    <2>1. length = 1 \/ length = 0
      BY <1>4
    <2> HIDE DEF length
    <2>2. length \in Nat /\ length <= 1
      BY <2>1
    <2> QED BY <2>2 DEF length
  <1>6. /\ i <= Len(s) => Len(v) = 1
        /\ i > Len(s) => Len(v) = 0
    BY <1>1, <1>2, <1>3
  <1> QED BY <1>2, <1>5, <1>6, Zenon DEF v

\* What a replacement leaves: what comes before it, and, if it keeps the length,
\* what comes after it.
LEMMA SlicesStay ==
    ASSUME NEW A, NEW s \in Seq(A), NEW v \in Seq(A), Len(v) <= 1, NEW i \in Nat \ {0},
           i <= Len(s) \/ Len(v) = 0, NEW k \in Nat \ {0},
           k < i \/ (k # i /\ Len(v) = 1)
    PROVE  M!Slice(M!Replaced(s, i, v), k) = M!Slice(s, k)
  <1> DEFINE r == M!Replaced(s, i, v)
  <1>1. /\ r \in Seq(A)
        /\ i <= Len(s) => Len(r) = Len(s) - 1 + Len(v)
        /\ i > Len(s) => Len(r) = Len(s) + Len(v)
        /\ \A n \in 1..Len(r) : n < i /\ n <= Len(s) => r[n] = s[n]
        /\ i <= Len(s) /\ Len(v) = 1 => \A n \in 1..Len(s) : n # i => r[n] = s[n]
    BY ReplacedIs
  <1> DEFINE lengthS == Len(s)
             lengthV == Len(v)
             lengthR == Len(r)
  <1> HIDE DEF r
  <1>2. /\ lengthS \in Nat /\ lengthR \in Nat /\ lengthV \in Nat
        /\ DOMAIN s = 1..Len(s) /\ DOMAIN r = 1..Len(r)
    BY <1>1
  <1>3. k \in 1..Len(r) <=> k \in 1..Len(s)
    <2>1. /\ i <= lengthS => lengthR = lengthS - 1 + lengthV
          /\ i > lengthS => lengthR = lengthS + lengthV
          /\ i <= lengthS \/ lengthV = 0
          /\ k < i \/ lengthV = 1
          /\ lengthV <= 1
      BY <1>1
    <2> HIDE DEF lengthS, lengthV, lengthR
    <2>2. k \in 1..lengthR <=> k \in 1..lengthS
      BY <1>2, <2>1
    <2> QED BY <2>2 DEF lengthS, lengthR
  <1>4. ASSUME k \in 1..lengthS PROVE r[k] = s[k]
    <2>1. k \in 1..Len(r) /\ k <= Len(s)
      BY <1>2, <1>3, <1>4
    <2>2. CASE k < i
      BY <1>1, <2>1, <2>2
    <2>3. CASE k # i /\ Len(v) = 1
      <3>1. i <= Len(s)
        BY <2>3
      <3> QED BY <1>1, <1>4, <2>3, <3>1
    <2> QED BY <2>2, <2>3
  <1> QED BY <1>2, <1>3, <1>4 DEF M!Slice, r

LEMMA LengthsStay ==
    ASSUME NEW lengthC \in Nat, NEW lengthO \in Nat, NEW length \in Nat, NEW lengthV \in Nat,
           NEW lengthR \in Nat, NEW b \in Nat, NEW more \in Nat, NEW i \in 1..lengthC,
           length <= lengthC, length >= lengthC \/ length >= lengthO, length + b >= lengthC,
           more >= b, i > lengthO => more = b + 1,
           i <= lengthO => lengthV = 1, i > lengthO => lengthV = 0,
           i <= length => lengthR = length - 1 + lengthV,
           i > length => lengthR = length + lengthV
    PROVE  /\ lengthR <= lengthC /\ (lengthR >= lengthC \/ lengthR >= lengthO)
           /\ lengthR + more >= lengthC
           /\ i <= length \/ lengthV = 0
  OBVIOUS

\* To fill in a slot keeps a code aligned.
LEMMA ReplacedAligned ==
    ASSUME NEW c, M!IsCode(c.code), NEW onchain, M!IsCode(onchain),
           NEW slots, IsFiniteSet(slots), NEW code, Aligned(c, onchain, code, slots),
           NEW i, i \in 1..Len(c.code), i \in M!Slots(c), i \notin slots
    PROVE  Aligned(c, onchain, M!Replaced(code, i, M!Slice(onchain, i)), slots \cup {i})
  <1> DEFINE A == Symbols(c, onchain)
             v == M!Slice(onchain, i)
             r == M!Replaced(code, i, v)
             b == Cardinality(Beyond(onchain, slots))
             more == Cardinality(Beyond(onchain, slots \cup {i}))
             lengthC == Len(c.code)
             lengthO == Len(onchain)
             length == Len(code)
             lengthV == Len(v)
             lengthR == Len(r)
  <1>1. c.code \in Seq(A) /\ onchain \in Seq(A) /\ code \in Seq(A)
    BY CodesHaveSymbols DEF Symbols, Aligned
  <1>2. lengthC \in Nat /\ lengthO \in Nat /\ length \in Nat
    <2> HIDE DEF A
    <2> QED BY <1>1
  <1>3. /\ length <= lengthC /\ (length >= lengthC \/ length >= lengthO)
        /\ length + b >= lengthC
    BY DEF Aligned
  <1>4. /\ b \in Nat /\ more \in Nat /\ more >= b
        /\ i > lengthO => more = b + 1
    BY BeyondGrows
  <1> HIDE DEF A, b, more
  <1>5. i \in Nat \ {0}
    BY <1>2
  <1>6. /\ v \in Seq(A) /\ lengthV \in Nat /\ lengthV <= 1
        /\ i <= lengthO => lengthV = 1
        /\ i > lengthO => lengthV = 0
    BY <1>1, <1>5, SliceLength, Zenon
  <1> HIDE DEF v
  <1>7. /\ r \in Seq(A)
        /\ i <= length => lengthR = length - 1 + lengthV
        /\ i > length => lengthR = length + lengthV
    BY <1>1, <1>5, <1>6, ReplacedIs
  <1>8. lengthR \in Nat
    <2> HIDE DEF r
    <2> QED BY <1>7
  <1>9. ASSUME i <= length \/ lengthV = 0, NEW k \in Nat \ {0}, k < i \/ (k # i /\ lengthV = 1)
        PROVE  M!Slice(r, k) = M!Slice(code, k)
    BY <1>1, <1>5, <1>6, <1>9, SlicesStay, Zenon
  <1> HIDE DEF r, lengthC, lengthO, length, lengthV, lengthR
  <1>10. i \in 1..lengthC
    BY DEF lengthC
  <1>11. /\ lengthR <= lengthC /\ (lengthR >= lengthC \/ lengthR >= lengthO)
         /\ lengthR + more >= lengthC
         /\ i <= length \/ lengthV = 0
    BY <1>2, <1>3, <1>4, <1>6, <1>7, <1>8, <1>10, LengthsStay
  <1>12. ASSUME NEW k \in 1..lengthO, k \notin M!Slots(c)
         PROVE  M!Slice(r, k) = M!Slice(c.code, k)
    <2>1. k \in Nat \ {0} /\ k # i /\ k <= lengthO
      BY <1>2, <1>12
    <2>2. M!Slice(code, k) = M!Slice(c.code, k)
      BY <1>12 DEF Aligned, lengthO
    <2>3. k < i \/ (k # i /\ lengthV = 1)
      BY <1>2, <1>5, <1>6, <2>1
    <2> QED BY <1>9, <1>11, <2>1, <2>2, <2>3
  <1>13. Aligned(c, onchain, r, slots \cup {i})
    <2>1. /\ r \in Seq(A)
          /\ \A k \in 1..lengthO : k \notin M!Slots(c) => M!Slice(r, k) = M!Slice(c.code, k)
      BY <1>7, <1>12
    <2>2. /\ r \in Seq(Symbols(c, onchain)) /\ Len(r) <= Len(c.code)
          /\ Len(r) >= Len(c.code) \/ Len(r) >= Len(onchain)
          /\ Len(r) + Cardinality(Beyond(onchain, slots \cup {i})) >= Len(c.code)
          /\ \A k \in 1..Len(onchain) : k \notin M!Slots(c) => M!Slice(r, k) = M!Slice(c.code, k)
      BY <1>11, <2>1, Zenon DEF A, more, lengthC, lengthO, lengthR
    <2> QED BY <2>2, Zenon DEF Aligned
  <1> QED BY <1>13 DEF r, v

LEMMA FirstOfCode ==
    ASSUME NEW A, NEW s \in Seq(A), Len(s) >= 1 PROVE SubSeq(s, 1, 1) = <<s[1]>>
  <1> DEFINE t == SubSeq(s, 1, 1)
  <1>1. t \in Seq(A) /\ Len(t) = 1 /\ t[1] = s[1]
    BY SubSeqProperties
  <1> HIDE DEF t
  <1>2. t = <<s[1]>>
    BY <1>1
  <1> QED BY <1>2 DEF t

Onto(s, t) == s \o t
Joined(s, t, u) == s \o t \o u
AreCodes(A, s, t, u) == s \in Seq(A) /\ t \in Seq(A) /\ u \in Seq(A)

LEMMA JoinedTwice ==
    ASSUME NEW A, NEW s, NEW t, NEW u, AreCodes(A, s, t, u)
    PROVE  Joined(s, t, u) = Onto(s, Onto(t, u))
  BY DEF Joined, Onto, AreCodes

LEMMA SubSeqOfJoined ==
    ASSUME NEW A, NEW h \in Seq(A), Len(h) = 1, NEW t \in Seq(A)
    PROVE  SubSeq(h \o t, 2, Len(h \o t)) = t
  <1> DEFINE x == h \o t
  <1>1. x \in Seq(A) /\ Len(x) = 1 + Len(t) /\ Len(t) \in Nat
    BY ConcatProperties
  <1>2. CASE Len(t) = 0
    <2>1. t = <<>> /\ Len(x) = 1
      BY <1>1, <1>2
    <2> HIDE DEF x
    <2>2. SubSeq(x, 2, Len(x)) = t
      BY <2>1
    <2> QED BY <2>2 DEF x
  <1>3. CASE Len(t) > 0
    <2>1. 2 \in Len(h) + 1..Len(h) + Len(t) /\ Len(x) \in Len(h) + 1..Len(h) + Len(t)
      BY <1>1, <1>3
    <2>2. SubSeq(x, 2, Len(x)) = SubSeq(t, 2 - Len(h), Len(x) - Len(h))
      BY <2>1, SubSeqOfConcat2
    <2>3. 2 - Len(h) = 1 /\ Len(x) - Len(h) = Len(t)
      BY <1>1
    <2> QED BY <2>2, <2>3, SubSeqFull
  <1> QED BY <1>1, <1>2, <1>3

LEMMA FirstReplaced ==
    ASSUME NEW A, NEW h, NEW v, NEW w, NEW rest,
           AreCodes(A, h, w, rest), AreCodes(A, v, w, rest), Len(h) = 1
    PROVE  M!Replaced(Joined(h, w, rest), 1, v) = Joined(v, w, rest)
  <1> DEFINE t == Onto(w, rest)
             x == Joined(h, w, rest)
  <1>0. h \in Seq(A) /\ v \in Seq(A) /\ w \in Seq(A) /\ rest \in Seq(A)
    BY DEF AreCodes
  <1>1. x = Onto(h, t) /\ Joined(v, w, rest) = Onto(v, t)
    BY JoinedTwice
  <1>2. t \in Seq(A)
    BY <1>0 DEF Onto
  <1> HIDE DEF t, x
  <1>3. SubSeq(x, 2, Len(x)) = t
    BY <1>0, <1>1, <1>2, SubSeqOfJoined DEF Onto
  <1>4. M!UpTo(x, 0) = <<>>
    <2>1. x \in Seq(A) /\ Len(x) >= 1
      <3>1. x \in Seq(A) /\ Len(x) = Len(h) + Len(t)
        BY <1>0, <1>1, <1>2, JoinedIs DEF Onto
      <3>2. Len(t) \in Nat
        BY <1>2
      <3> QED BY <3>1, <3>2
    <2>2. M!UpTo(x, 0) \in Seq(A) /\ Len(M!UpTo(x, 0)) = 0
      BY <2>1, UpToIs
    <2> QED BY <2>2
  <1>5. M!Replaced(x, 1, v) = M!UpTo(x, 1 - 1) \o v \o SubSeq(x, 1 + 1, Len(x))
    BY DEF M!Replaced
  <1>6. 1 - 1 = 0 /\ 1 + 1 = 2 /\ <<>> \o v = v
    BY <1>0, ConcatEmptySeq
  <1>7. M!Replaced(x, 1, v) = Onto(v, t)
    BY <1>3, <1>4, <1>5, <1>6 DEF Onto
  <1> QED BY <1>1, <1>7 DEF x

LEMMA SecondReplaced ==
    ASSUME NEW A, NEW code \in Seq(A), NEW w, Len(code) >= 2
    PROVE  M!Replaced(code, 2, w) = Joined(<<code[1]>>, w, SubSeq(code, 3, Len(code)))
  <1> DEFINE h == <<code[1]>>
  <1>1. M!UpTo(code, 1) = SubSeq(code, 1, 1)
    BY DEF M!UpTo
  <1>2. SubSeq(code, 1, 1) = h
    <2>1. Len(code) >= 1
      OBVIOUS
    <2> QED BY <2>1, FirstOfCode
  <1>3. M!UpTo(code, 2 - 1) = h
    BY <1>1, <1>2
  <1>4. M!Replaced(code, 2, w) = M!UpTo(code, 2 - 1) \o w \o SubSeq(code, 2 + 1, Len(code))
    BY DEF M!Replaced
  <1>5. 2 + 1 = 3
    OBVIOUS
  <1> HIDE DEF h
  <1>6. M!Replaced(code, 2, w) = Joined(h, w, SubSeq(code, 3, Len(code)))
    BY <1>3, <1>4, <1>5 DEF Joined
  <1> QED BY <1>6 DEF h

\* What fills in a call protection is what fills in its two slots.
LEMMA ProtectedIsReplaced ==
    ASSUME NEW A, NEW code \in Seq(A), NEW onchain \in Seq(A), Len(code) >= 2
    PROVE  M!Slice(onchain, 1) \o M!Slice(onchain, 2) \o SubSeq(code, 3, Len(code))
               = M!Replaced(M!Replaced(code, 2, M!Slice(onchain, 2)), 1, M!Slice(onchain, 1))
  <1> DEFINE v == M!Slice(onchain, 1)
             w == M!Slice(onchain, 2)
             rest == SubSeq(code, 3, Len(code))
             h == <<code[1]>>
             x == Joined(h, w, rest)
  <1>1. v \in Seq(A) /\ w \in Seq(A)
    BY SliceIs
  <1>2. rest \in Seq(A) /\ h \in Seq(A) /\ Len(h) = 1 /\ Len(code) \in Nat
    OBVIOUS
  <1>0. AreCodes(A, h, w, rest) /\ AreCodes(A, v, w, rest)
    <2> HIDE DEF v, w, rest, h
    <2> QED BY <1>1, <1>2, Zenon DEF AreCodes
  <1>3. M!Replaced(code, 2, w) = x
    BY SecondReplaced
  <1> HIDE DEF v, w, rest, h
  <1>4. M!Replaced(x, 1, v) = Joined(v, w, rest)
    BY <1>0, <1>2, FirstReplaced
  <1> HIDE DEF x
  <1>5. M!Replaced(M!Replaced(code, 2, w), 1, v) = Joined(v, w, rest)
    BY <1>3, <1>4
  <1> QED BY <1>5 DEF v, w, rest, Joined

-----------------------------------------------------------------------------
(* The stages of a comparison, one for each report *)

NextStage(c, onchain, m, j) ==
    IF j <= Protections(c) THEN M!Protected(m, onchain)
    ELSE IF j <= Protections(c) + Immutables(c)
    THEN M!WithImmutable(m, c.immutableReferences[j - Protections(c)], onchain, c.vyper)
    ELSE M!WithLibrary(m, c.linkReferences[j - Protections(c) - Immutables(c)], onchain)

AreStages(c, onchain, stage) ==
    /\ stage[0] = M!Unfilled(c.code)
    /\ \A j \in 1..Reports(c) : stage[j] = NextStage(c, onchain, stage[j - 1], j)
    /\ M!Populated(c, onchain) = stage[Reports(c)]

LEMMA StepsAre ==
    ASSUME NEW c, NEW onchain, NEW m, NEW base, NEW i
    PROVE  /\ Stepped(ImmutablesOf(c, onchain), m, i)
                  = M!WithImmutable(m, c.immutableReferences[i], onchain, c.vyper)
           /\ Stepped(LibrariesOf(c, onchain, base), m, i)
                  = M!WithLibrary(m, c.linkReferences[i], onchain)
           /\ ImmutablesOf(c, onchain).base = M!Protected(M!Unfilled(c.code), onchain)
           /\ LibrariesOf(c, onchain, base).base = base
  BY DEF Stepped, ImmutablesOf, LibrariesOf, Work

LEMMA StagesExist ==
    ASSUME NEW c, M!IsCompiled(c), NEW onchain PROVE \E stage : AreStages(c, onchain, stage)
  <1> DEFINE p == Protections(c)
             n == Immutables(c)
             l == Libraries(c)
             wi == ImmutablesOf(c, onchain)
  <1>1. /\ p \in 0..1 /\ n \in Nat /\ l \in Nat /\ Reports(c) = p + n + l
        /\ DOMAIN c.immutableReferences = 1..n /\ DOMAIN c.linkReferences = 1..l
    BY ReportsAreCounted
  <1>2. PICK f : /\ f[0] = wi.base
                 /\ \A i \in 1..n : f[i] = Stepped(wi, f[i - 1], i)
                 /\ FoldOf(wi, 1..n) = f[n]
    <2> HIDE DEF wi, n
    <2> QED BY <1>1, FoldUnfolds
  <1> DEFINE m == f[n]
             wl == LibrariesOf(c, onchain, m)
  <1>3. PICK g : /\ g[0] = wl.base
                 /\ \A i \in 1..l : g[i] = Stepped(wl, g[i - 1], i)
                 /\ FoldOf(wl, 1..l) = g[l]
    <2> HIDE DEF wl, l, m
    <2> QED BY <1>1, FoldUnfolds
  <1>4. M!Populated(c, onchain) = g[l]
    <2>1. m = FoldOf(wi, DOMAIN c.immutableReferences)
      BY <1>1, <1>2
    <2>2. M!Populated(c, onchain) = FoldOf(wl, DOMAIN c.linkReferences)
      BY <2>1, PopulatedIsFold
    <2> QED BY <1>1, <1>3, <2>2
  <1>5. f[0] = M!Protected(M!Unfilled(c.code), onchain)
    BY <1>2, StepsAre
  <1>6. ASSUME NEW i \in 1..n
        PROVE  f[i] = M!WithImmutable(f[i - 1], c.immutableReferences[i], onchain, c.vyper)
    BY <1>2, <1>6, StepsAre
  <1>7. g[0] = f[n]
    <2>1. wl.base = m
      BY DEF LibrariesOf, Work
    <2> HIDE DEF wl
    <2> QED BY <1>3, <2>1
  <1>8. ASSUME NEW i \in 1..l PROVE g[i] = M!WithLibrary(g[i - 1], c.linkReferences[i], onchain)
    BY <1>3, <1>8, StepsAre
  <1>9. p = 0 => f[0] = M!Unfilled(c.code)
    <2> SUFFICES ASSUME p = 0 PROVE f[0] = M!Unfilled(c.code)
      OBVIOUS
    <2>1. ~M!IsProtected(c.code)
      BY DEF Protections
    <2>2. M!Unfilled(c.code).code = c.code
      BY DEF M!Unfilled
    <2> QED BY <1>5, <2>1, <2>2 DEF M!Protected
  <1> DEFINE stage == [j \in 0..(p + n + l) |->
                          IF j < p THEN M!Unfilled(c.code)
                          ELSE IF j <= p + n THEN f[j - p] ELSE g[j - p - n]]
  <1> HIDE DEF p, n, l, wi, m, wl
  <1>10. stage[0] = M!Unfilled(c.code)
    BY <1>1, <1>9
  <1>11. ASSUME NEW j \in 1..Reports(c) PROVE stage[j] = NextStage(c, onchain, stage[j - 1], j)
    <2>1. CASE j <= p
      <3>1. j = 1 /\ p = 1
        BY <1>1, <2>1
      <3>2. stage[j] = f[0] /\ stage[j - 1] = M!Unfilled(c.code)
        BY <1>1, <3>1
      <3> QED BY <1>5, <2>1, <3>2 DEF NextStage, p
    <2>2. CASE j > p /\ j <= p + n
      <3>1. j - p \in 1..n /\ stage[j] = f[j - p] /\ stage[j - 1] = f[(j - p) - 1]
        BY <1>1, <2>2
      <3>2. ~(j <= p)
        BY <1>1, <2>2
      <3> HIDE DEF stage
      <3> QED BY <1>6, <2>2, <3>1, <3>2 DEF NextStage, p, n
    <2>3. CASE j > p + n
      <3>1. /\ j - p - n \in 1..l /\ stage[j] = g[j - p - n]
            /\ stage[j - 1] = IF j - 1 <= p + n THEN f[(j - 1) - p] ELSE g[(j - 1) - p - n]
        BY <1>1, <2>3
      <3>2. stage[j - 1] = g[(j - p - n) - 1]
        <4>1. CASE j - 1 <= p + n
          <5>1. (j - 1) - p = n /\ (j - p - n) - 1 = 0
            BY <1>1, <2>3, <4>1
          <5> QED BY <1>7, <3>1, <4>1, <5>1
        <4>2. CASE ~(j - 1 <= p + n)
          <5>1. (j - 1) - p - n = (j - p - n) - 1
            BY <1>1
          <5> QED BY <3>1, <4>2, <5>1
        <4> QED BY <4>1, <4>2
      <3>3. ~(j <= p) /\ ~(j <= p + n)
        BY <1>1, <2>3
      <3> HIDE DEF stage
      <3> QED BY <1>8, <3>1, <3>2, <3>3 DEF NextStage, p, n
    <2> QED BY <1>1, <2>1, <2>2, <2>3
  <1>12. stage[Reports(c)] = g[l]
    <2>1. CASE l = 0
      <3>1. (p + n + l) - p = n
        BY <1>1, <2>1
      <3> QED BY <1>1, <1>7, <2>1, <3>1
    <2>2. CASE l # 0
      <3>1. (p + n + l) - p - n = l
        BY <1>1
      <3> QED BY <1>1, <2>2, <3>1
    <2> QED BY <2>1, <2>2
  <1>13. AreStages(c, onchain, stage)
    <2> HIDE DEF stage
    <2> QED BY <1>4, <1>10, <1>11, <1>12 DEF AreStages
  <1> QED BY <1>13
-----------------------------------------------------------------------------
(* What a stage has filled in and reported *)

IsMatch(m) ==
    m = [code |-> m.code, transformations |-> m.transformations,
         values |-> m.values, thrown |-> m.thrown]

LEMMA FilledIs ==
    ASSUME NEW m, IsMatch(m), NEW r, NEW value, NEW code
    PROVE  /\ IsMatch(M!Filled(m, r, value, code))
           /\ M!Filled(m, r, value, code).code = code
           /\ M!Filled(m, r, value, code).thrown = m.thrown
           /\ M!Filled(m, r, value, code).transformations = Append(m.transformations, r)
  <1> DEFINE t == M!Reported(m, r)
             v == [n \in DOMAIN m.values \cup {<<r.reason, r.id>>} |->
                      IF n = <<r.reason, r.id>> THEN value ELSE m.values[n]]
             f == [m EXCEPT !.code = code, !.transformations = t, !.values = v]
  <1>1. M!Filled(m, r, value, code) = f
    BY DEF M!Filled
  <1>2. t = Append(m.transformations, r)
    BY DEF M!Reported
  <1> HIDE DEF t, v
  <1>3. DOMAIN m = {"code", "transformations", "values", "thrown"}
    BY DEF IsMatch
  <1>4. f.code = code /\ f.transformations = t /\ f.values = v /\ f.thrown = m.thrown
    BY <1>3
  <1>5. IsMatch(f)
    <2>1. /\ DOMAIN f = {"code", "transformations", "values", "thrown"}
          /\ f = [x \in DOMAIN f |-> f[x]]
      BY <1>3
    <2> HIDE DEF f
    <2> QED BY <2>1 DEF IsMatch
  <1> HIDE DEF f
  <1> QED BY <1>1, <1>2, <1>4, <1>5

LEMMA ValuesAre ==
    ASSUME NEW m, IsMatch(m), NEW r, NEW value, NEW code
    PROVE  M!Filled(m, r, value, code).values
               = [n \in DOMAIN m.values \cup {<<r.reason, r.id>>} |->
                     IF n = <<r.reason, r.id>> THEN value ELSE m.values[n]]
  <1> DEFINE t == M!Reported(m, r)
             v == [n \in DOMAIN m.values \cup {<<r.reason, r.id>>} |->
                      IF n = <<r.reason, r.id>> THEN value ELSE m.values[n]]
             f == [m EXCEPT !.code = code, !.transformations = t, !.values = v]
  <1>1. M!Filled(m, r, value, code) = f
    BY DEF M!Filled
  <1> HIDE DEF t, v
  <1>2. f.values = v
    BY DEF IsMatch
  <1> QED BY <1>1, <1>2 DEF v

\* The code of the next stage
NextCode(c, onchain, code, j) ==
    LET value == M!Slice(onchain, Offset(c, j))
    IN  IF j <= Protections(c)
        THEN Joined(M!Slice(onchain, 1), M!Slice(onchain, 2), SubSeq(code, 3, Len(code)))
        ELSE IF j <= Protections(c) + Immutables(c) /\ c.vyper THEN code \o value
        ELSE M!Replaced(code, Offset(c, j), value)

\* A stage that does not throw fills in its slot and reports it.
LEMMA StageIsFilled ==
    ASSUME NEW c, M!IsCompiled(c), NEW onchain, NEW j \in 1..Reports(c),
           NEW m, IsMatch(m), j <= Protections(c) => m.code = c.code,
           m.thrown \in BOOLEAN
    PROVE  LET f == NextStage(c, onchain, m, j)
           IN  /\ IsMatch(f) /\ f.thrown \in BOOLEAN
               /\ m.thrown => f.thrown
               /\ ~f.thrown => f = M!Filled(m, ReportAt(c, j), M!Slice(onchain, Offset(c, j)),
                                            NextCode(c, onchain, m.code, j))
  <1> DEFINE p == Protections(c)
             n == Immutables(c)
             l == Libraries(c)
             f == NextStage(c, onchain, m, j)
             g == M!Filled(m, ReportAt(c, j), M!Slice(onchain, Offset(c, j)),
                           NextCode(c, onchain, m.code, j))
  <1>1. p \in 0..1 /\ n \in Nat /\ l \in Nat /\ Reports(c) = p + n + l
    BY ReportsAreCounted
  <1>2. IsMatch(g) /\ g.thrown = m.thrown
    <2> DEFINE r == ReportAt(c, j)
               v == M!Slice(onchain, Offset(c, j))
               code == NextCode(c, onchain, m.code, j)
    <2> HIDE DEF r, v, code
    <2>1. IsMatch(M!Filled(m, r, v, code)) /\ M!Filled(m, r, v, code).thrown = m.thrown
      BY FilledIs
    <2> QED BY <2>1 DEF r, v, code
  <1>3. CASE j <= p
    <2>1. p = 1 /\ j = 1
      BY <1>1, <1>3
    <2>2. M!IsProtected(m.code)
      BY <1>3, <2>1 DEF Protections
    <2>3. f = g
      BY <1>3, <2>2 DEF NextStage, M!Protected, ReportAt, Offset, NextCode, Joined
    <2> QED BY <1>2, <2>3
  <1>4. CASE ~(j <= p) /\ j <= p + n
    <2>1. f = M!WithImmutable(m, c.immutableReferences[j - p], onchain, c.vyper)
      BY <1>4 DEF NextStage
    <2>2. Offset(c, j) = c.immutableReferences[j - p].start
      BY <1>4 DEF Offset
    <2>3. ReportAt(c, j) = M!Report(IF c.vyper THEN "insert" ELSE "replace", "immutable",
                                    c.immutableReferences[j - p])
      BY <1>4 DEF ReportAt
    <2>4. NextCode(c, onchain, m.code, j)
              = IF c.vyper THEN m.code \o M!Slice(onchain, Offset(c, j))
                ELSE M!Replaced(m.code, Offset(c, j), M!Slice(onchain, Offset(c, j)))
      BY <1>4 DEF NextCode
    <2>5. f = g
      <3> HIDE DEF p
      <3>1. CASE c.vyper
        BY <2>1, <2>2, <2>3, <2>4, <3>1 DEF M!WithImmutable
      <3>2. CASE ~c.vyper
        BY <2>1, <2>2, <2>3, <2>4, <3>2 DEF M!WithImmutable
      <3> QED BY <3>1, <3>2
    <2> QED BY <1>2, <2>5
  <1>5. CASE ~(j <= p) /\ ~(j <= p + n)
    <2> DEFINE ref == c.linkReferences[j - p - n]
    <2>1. f = M!WithLibrary(m, ref, onchain)
      BY <1>5 DEF NextStage
    <2>2. Offset(c, j) = ref.start
      BY <1>5 DEF Offset
    <2>3. ReportAt(c, j) = M!Report("replace", "library", ref)
      BY <1>5 DEF ReportAt
    <2>4. NextCode(c, onchain, m.code, j)
              = M!Replaced(m.code, Offset(c, j), M!Slice(onchain, Offset(c, j)))
      BY <1>5 DEF NextCode
    <2>5. CASE \/ m.thrown
               \/ M!Slice(m.code, ref.start) \notin {<<Placeholder[ref.id]>>, <<Zero>>}
      <3>1. f = [m EXCEPT !.thrown = TRUE]
        <4> HIDE DEF ref
        <4> QED BY <2>1, <2>5 DEF M!WithLibrary
      <3>2. IsMatch(f) /\ f.thrown = TRUE
        BY <3>1 DEF IsMatch
      <3> QED BY <3>2
    <2>6. CASE ~(\/ m.thrown
                 \/ M!Slice(m.code, ref.start) \notin {<<Placeholder[ref.id]>>, <<Zero>>})
      <3>1. f = g
        <4> HIDE DEF ref
        <4> QED BY <2>1, <2>2, <2>3, <2>4, <2>6 DEF M!WithLibrary
      <3> QED BY <1>2, <3>1
    <2> QED BY <2>5, <2>6
  <1> QED BY <1>3, <1>4, <1>5

-----------------------------------------------------------------------------
\* Induction over an interval, in the form of a set that grows
LEMMA ReachesAll ==
    ASSUME NEW T, NEW n \in Nat, 0 \in T, \A j \in 1..n : j - 1 \in T => j \in T
    PROVE  0..n \subseteq T
  <1> DEFINE Bad == {j \in 0..n : j \notin T}
  <1> SUFFICES ASSUME Bad # {} PROVE FALSE
    OBVIOUS
  <1>1. PICK m \in Bad : \A k \in Bad : m <= k
    <2>1. Bad \subseteq Nat
      OBVIOUS
    <2> HIDE DEF Bad
    <2> QED BY <2>1, LeastNatural
  <1>2. m \in 1..n /\ m - 1 \in 0..n
    <2>1. m \in 0..n /\ m # 0
      OBVIOUS
    <2> QED BY <2>1
  <1>3. m - 1 \notin Bad
    <2> HIDE DEF Bad
    <2> QED BY <1>1, <1>2
  <1> QED BY <1>2, <1>3

\* The slots of one report, and those that are filled in once j reports are made
SlotsOf(c, j) == IF j <= Protections(c) THEN {1, 2} ELSE {Offset(c, j)}
Handled(c, j) == UNION {SlotsOf(c, i) : i \in 1..j}

\* The reports about slots within the code
Inner(c) == IF Follows(c) THEN Protections(c) ELSE Reports(c)

LEMMA SlotsAreSeparate ==
    ASSUME NEW c, M!IsCompiled(c)
    PROVE  /\ Inner(c) \in 0..Reports(c)
           /\ \A j \in 1..Inner(c) : SlotsOf(c, j) \subseteq 1..Len(c.code) \cap M!Slots(c)
           /\ \A i, j \in 1..Inner(c) : i # j => SlotsOf(c, i) \cap SlotsOf(c, j) = {}
  <1> DEFINE p == Protections(c)
  <1>1. p \in 0..1 /\ Reports(c) \in Nat /\ p <= Reports(c) /\ Len(c.code) \in Nat
    BY ReportsAreCounted
  <1>2. p = 1 <=> M!IsProtected(c.code)
    BY DEF Protections
  <1>3. M!IsProtected(c.code) => {1, 2} \subseteq 1..Len(c.code) \cap M!Slots(c)
    <2>1. M!IsProtected(c.code) => Len(c.code) >= 2
      BY ProtectedIsLong DEF M!IsCompiled
    <2> QED BY <1>1, <2>1 DEF M!Slots
  <1>4. CASE Follows(c)
    <2>1. Inner(c) = p
      BY <1>4 DEF Inner
    <2>2. \A j \in 1..p : j = 1 /\ p = 1
      BY <1>1
    <2>3. \A j \in 1..p : SlotsOf(c, j) = {1, 2}
      BY <1>1 DEF SlotsOf
    <2> HIDE DEF p
    <2>4. \A i, j \in 1..p : i = j
      BY <2>2
    <2>5. \A j \in 1..p : SlotsOf(c, j) \subseteq 1..Len(c.code) \cap M!Slots(c)
      BY <1>2, <1>3, <2>2, <2>3
    <2> QED BY <1>1, <2>1, <2>4, <2>5
  <1>5. CASE ~Follows(c)
    <2>1. Inner(c) = Reports(c)
      BY <1>5 DEF Inner
    <2>2. SlotsLieApart(c)
      BY <1>5, SlotsAreApart
    <2>3. ASSUME NEW j \in 1..Reports(c)
          PROVE  /\ j <= p => SlotsOf(c, j) = {1, 2} /\ j = 1 /\ p = 1
                 /\ j > p => SlotsOf(c, j) = {Offset(c, j)}
      BY <1>1 DEF SlotsOf
    <2> HIDE DEF p
    <2>4. ASSUME NEW j \in 1..Reports(c)
          PROVE  SlotsOf(c, j) \subseteq 1..Len(c.code) \cap M!Slots(c)
      <3>1. CASE j <= p
        BY <1>2, <1>3, <2>3, <3>1
      <3>2. CASE j > p
        BY <2>2, <2>3, <3>2 DEF SlotsLieApart
      <3> QED BY <1>1, <3>1, <3>2
    <2>5. ASSUME NEW i \in 1..Reports(c), NEW j \in 1..Reports(c), i # j
          PROVE  SlotsOf(c, i) \cap SlotsOf(c, j) = {}
      <3>1. ASSUME NEW a \in 1..Reports(c), NEW b \in 1..Reports(c), a <= p, b > p
            PROVE  SlotsOf(c, a) \cap SlotsOf(c, b) = {}
        <4>1. M!IsProtected(c.code) /\ SlotsOf(c, a) = {1, 2} /\ SlotsOf(c, b) = {Offset(c, b)}
          BY <1>2, <2>3, <3>1
        <4>2. Offset(c, b) \notin {1, 2}
          BY <2>2, <3>1, <4>1 DEF SlotsLieApart, p
        <4> QED BY <4>1, <4>2
      <3>2. CASE i > p /\ j > p
        <4>1. SlotsOf(c, i) = {Offset(c, i)} /\ SlotsOf(c, j) = {Offset(c, j)}
          BY <2>3, <3>2
        <4>2. Offset(c, i) # Offset(c, j)
          BY <2>2, <2>5 DEF SlotsLieApart
        <4> QED BY <4>1, <4>2
      <3>3. ~(i <= p /\ j <= p)
        BY <2>3, <2>5
      <3>4. (i <= p \/ i > p) /\ (j <= p \/ j > p)
        BY <1>1
      <3> QED BY <3>1, <3>2, <3>3, <3>4
    <2> QED BY <1>1, <2>1, <2>4, <2>5
  <1> QED BY <1>4, <1>5

LEMMA HandledGrows ==
    ASSUME NEW c, M!IsCompiled(c), NEW j \in 1..Inner(c)
    PROVE  /\ Handled(c, j) = Handled(c, j - 1) \cup SlotsOf(c, j)
           /\ Handled(c, j - 1) \cap SlotsOf(c, j) = {}
           /\ IsFiniteSet(Handled(c, j - 1)) /\ IsFiniteSet(Handled(c, j))
           /\ Handled(c, j) \subseteq 1..Len(c.code) \cap M!Slots(c)
  <1>1. /\ Inner(c) \in Nat
        /\ \A i \in 1..Inner(c) : SlotsOf(c, i) \subseteq 1..Len(c.code) \cap M!Slots(c)
        /\ \A i, k \in 1..Inner(c) : i # k => SlotsOf(c, i) \cap SlotsOf(c, k) = {}
    <2>1. Reports(c) \in Nat
      BY ReportsAreCounted
    <2> QED BY <2>1, SlotsAreSeparate
  <1>2. 1..j = (1..(j - 1)) \cup {j} /\ j \notin 1..(j - 1) /\ 1..j \subseteq 1..Inner(c)
    BY <1>1
  <1>3. Handled(c, j) = Handled(c, j - 1) \cup SlotsOf(c, j)
    BY <1>2 DEF Handled
  <1>4. Handled(c, j - 1) \cap SlotsOf(c, j) = {}
    <2> SUFFICES ASSUME NEW k, k \in Handled(c, j - 1), k \in SlotsOf(c, j) PROVE FALSE
      OBVIOUS
    <2>1. PICK i \in 1..(j - 1) : k \in SlotsOf(c, i)
      BY DEF Handled
    <2>2. i \in 1..Inner(c) /\ i # j
      BY <1>2
    <2> QED BY <1>1, <2>1, <2>2
  <1>5. Handled(c, j) \subseteq 1..Len(c.code) \cap M!Slots(c)
    BY <1>1, <1>2 DEF Handled
  <1>6. IsFiniteSet(Handled(c, j)) /\ IsFiniteSet(Handled(c, j - 1))
    <2>1. Len(c.code) \in Int
      BY ReportsAreCounted
    <2>2. IsFiniteSet(1..Len(c.code))
      BY <2>1, FS_Interval
    <2>3. Handled(c, j) \in SUBSET (1..Len(c.code)) /\ Handled(c, j - 1) \in SUBSET (1..Len(c.code))
      BY <1>3, <1>5
    <2> QED BY <2>2, <2>3, FS_Subset
  <1> QED BY <1>3, <1>4, <1>5, <1>6

\* A report keeps the code aligned.
LEMMA StaysAligned ==
    ASSUME NEW c, M!IsCompiled(c), NEW onchain, M!IsCode(onchain), NEW j \in 1..Inner(c),
           NEW code, Aligned(c, onchain, code, Handled(c, j - 1)),
           j <= Protections(c) => code = c.code
    PROVE  Aligned(c, onchain, NextCode(c, onchain, code, j), Handled(c, j))
  <1> DEFINE p == Protections(c)
             n == Immutables(c)
             A == Symbols(c, onchain)
             before == Handled(c, j - 1)
  <1>0. M!IsCode(c.code)
    BY DEF M!IsCompiled
  <1>1. /\ Handled(c, j) = before \cup SlotsOf(c, j) /\ before \cap SlotsOf(c, j) = {}
        /\ IsFiniteSet(before)
    BY HandledGrows
  <1>2. SlotsOf(c, j) \subseteq 1..Len(c.code) \cap M!Slots(c)
    BY SlotsAreSeparate
  <1>3. CASE j <= p
    <2>1. /\ SlotsOf(c, j) = {1, 2} /\ M!IsProtected(c.code)
          /\ NextCode(c, onchain, code, j) = Joined(M!Slice(onchain, 1), M!Slice(onchain, 2),
                                                    SubSeq(code, 3, Len(code)))
      <3>1. Protections(c) # 0
        <4>1. j \in Int /\ j >= 1
          OBVIOUS
        <4> QED BY <1>3, <4>1
      <3> QED BY <1>3, <3>1 DEF SlotsOf, NextCode, Protections
    <2> DEFINE one == M!Replaced(code, 2, M!Slice(onchain, 2))
    <2>2. code = c.code /\ Len(code) >= 2
      BY <1>0, <1>3, <2>1, ProtectedIsLong
    <2>3. c.code \in Seq(A) /\ onchain \in Seq(A)
      BY <1>0, CodesHaveSymbols DEF Symbols
    <2>4. NextCode(c, onchain, code, j) = M!Replaced(one, 1, M!Slice(onchain, 1))
      <3> HIDE DEF A
      <3> QED BY <2>1, <2>2, <2>3, ProtectedIsReplaced DEF Joined
    <2>5. 2 \in 1..Len(c.code) /\ 2 \in M!Slots(c) /\ 2 \notin before
      BY <1>1, <1>2, <2>1
    <2>6. Aligned(c, onchain, one, before \cup {2})
      <3> HIDE DEF before
      <3> QED BY <1>0, <1>1, <2>5, ReplacedAligned DEF before
    <2>7. 1 \in 1..Len(c.code) /\ 1 \in M!Slots(c) /\ 1 \notin before \cup {2}
      BY <1>1, <1>2, <2>1
    <2>8. IsFiniteSet(before \cup {2})
      BY <1>1, FS_AddElement
    <2>9. Aligned(c, onchain, M!Replaced(one, 1, M!Slice(onchain, 1)), (before \cup {2}) \cup {1})
      <3> HIDE DEF before, one
      <3> QED BY <1>0, <2>6, <2>7, <2>8, ReplacedAligned
    <2>10. (before \cup {2}) \cup {1} = Handled(c, j)
      BY <1>1, <2>1
    <2> QED BY <2>4, <2>9, <2>10
  <1>4. CASE ~(j <= p)
    <2>1. SlotsOf(c, j) = {Offset(c, j)}
      BY <1>4 DEF SlotsOf
    <2>2. ~(j <= p + n /\ c.vyper)
      <3> SUFFICES ASSUME j <= p + n, c.vyper PROVE FALSE
        OBVIOUS
      <3>1. p \in Nat /\ n \in Nat /\ j \in Nat
        BY ReportsAreCounted
      <3>2. n # 0
        BY <1>4, <3>1
      <3>3. c.immutableReferences # <<>>
        BY <3>2 DEF Immutables
      <3>4. Inner(c) = p
        BY <3>3 DEF Inner, Follows
      <3> QED BY <1>4, <3>1, <3>4
    <2>3. NextCode(c, onchain, code, j)
              = M!Replaced(code, Offset(c, j), M!Slice(onchain, Offset(c, j)))
      BY <1>4, <2>2 DEF NextCode
    <2>4. /\ Offset(c, j) \in 1..Len(c.code) /\ Offset(c, j) \in M!Slots(c)
          /\ Offset(c, j) \notin before
      BY <1>1, <1>2, <2>1
    <2>5. Aligned(c, onchain, M!Replaced(code, Offset(c, j), M!Slice(onchain, Offset(c, j))),
                  before \cup {Offset(c, j)})
      <3> DEFINE i == Offset(c, j)
      <3> HIDE DEF i
      <3>1. i \in 1..Len(c.code) /\ i \in M!Slots(c) /\ i \notin before
        BY <2>4 DEF i
      <3>2. Aligned(c, onchain, M!Replaced(code, i, M!Slice(onchain, i)), before \cup {i})
        BY <1>0, <1>1, <3>1, ReplacedAligned
      <3> QED BY <3>2 DEF i
    <2> QED BY <1>1, <2>1, <2>3, <2>5
  <1> QED BY <1>3, <1>4

LEMMA StartsAligned ==
    ASSUME NEW c, M!IsCompiled(c), NEW onchain, M!IsCode(onchain)
    PROVE  Aligned(c, onchain, c.code, Handled(c, 0))
  <1>1. M!IsCode(c.code)
    BY DEF M!IsCompiled
  <1>2. c.code \in Seq(Symbols(c, onchain))
    BY <1>1, CodesHaveSymbols DEF Symbols
  <1>3. Beyond(onchain, Handled(c, 0)) = {}
    BY DEF Beyond, Handled
  <1>4. Cardinality(Beyond(onchain, Handled(c, 0))) = 0
    BY <1>3, FS_EmptySet
  <1>5. Len(c.code) \in Nat
    BY ReportsAreCounted
  <1> QED BY <1>2, <1>4, <1>5 DEF Aligned

-----------------------------------------------------------------------------
(* What is reported *)

LEMMA AppendedIs ==
    ASSUME NEW f, NEW j \in Nat \ {0}
    PROVE  Append([i \in 1..(j - 1) |-> f[i]], f[j]) = [i \in 1..j |-> f[i]]
  <1> DEFINE A == {f[i] : i \in 1..j}
             s == [i \in 1..(j - 1) |-> f[i]]
             t == [i \in 1..j |-> f[i]]
  <1>1. s \in Seq(A) /\ Len(s) = j - 1 /\ f[j] \in A
    <2>1. j - 1 \in Nat
      OBVIOUS
    <2>2. \A i \in 1..(j - 1) : f[i] \in A
      OBVIOUS
    <2>3. f[j] \in A
      OBVIOUS
    <2> HIDE DEF A
    <2> QED BY <2>1, <2>2, <2>3
  <1>2. t \in Seq(A) /\ Len(t) = j
    <2>1. \A i \in 1..j : f[i] \in A
      OBVIOUS
    <2> HIDE DEF A
    <2> QED BY <2>1
  <1>3. \A i \in 1..(j - 1) : s[i] = t[i]
    OBVIOUS
  <1>4. t[j] = f[j]
    OBVIOUS
  <1> HIDE DEF A, s, t
  <1>5. /\ Append(s, f[j]) \in Seq(A) /\ Len(Append(s, f[j])) = j
        /\ \A i \in 1..(j - 1) : Append(s, f[j])[i] = s[i]
        /\ Append(s, f[j])[j] = f[j]
    <2>1. /\ Append(s, f[j]) \in Seq(A) /\ Len(Append(s, f[j])) = Len(s) + 1
          /\ \A i \in 1..Len(s) : Append(s, f[j])[i] = s[i]
          /\ Append(s, f[j])[Len(s) + 1] = f[j]
      BY <1>1, AppendProperties
    <2>2. Len(s) + 1 = j
      BY <1>1
    <2> QED BY <1>1, <2>1, <2>2
  <1>6. \A i \in 1..j : Append(s, f[j])[i] = t[i]
    <2> SUFFICES ASSUME NEW i \in 1..j PROVE Append(s, f[j])[i] = t[i]
      OBVIOUS
    <2>1. i = j \/ i \in 1..(j - 1)
      OBVIOUS
    <2> QED BY <1>3, <1>4, <1>5, <2>1
  <1>7. Append(s, f[j]) = t
    <2> DEFINE u == Append(s, f[j])
    <2>1. u \in Seq(A) /\ Len(u) = Len(t) /\ \A i \in 1..Len(u) : u[i] = t[i]
      BY <1>2, <1>5, <1>6
    <2> HIDE DEF u
    <2>2. u = t
      BY <1>2, <2>1, SeqEqual
    <2> QED BY <2>2 DEF u
  <1> QED BY <1>7 DEF s, t

\* Where each name has one value, reports of one name have one.
LEMMA SameName ==
    ASSUME NEW c, M!IsCompiled(c), NEW onchain, M!OneValueEach(c, onchain),
           NEW i \in 1..Reports(c), NEW j \in 1..Reports(c), Name(c, i) = Name(c, j)
    PROVE  M!Slice(onchain, Offset(c, i)) = M!Slice(onchain, Offset(c, j))
  <1> DEFINE p == Protections(c)
             n == Immutables(c)
             l == Libraries(c)
  <1>1. /\ p \in 0..1 /\ n \in Nat /\ l \in Nat /\ Reports(c) = p + n + l
        /\ DOMAIN c.immutableReferences = 1..n /\ DOMAIN c.linkReferences = 1..l
    BY ReportsAreCounted
  <1>2. ASSUME NEW k \in 1..Reports(c)
        PROVE  \/ k = 1 /\ p = 1 /\ ReportAt(c, k).reason = "callProtection"
               \/ \E r \in M!ToSet(c.immutableReferences) :
                      /\ ReportAt(c, k).reason = "immutable" /\ ReportAt(c, k).id = r.id
                      /\ Offset(c, k) = r.start
               \/ \E r \in M!ToSet(c.linkReferences) :
                      /\ ReportAt(c, k).reason = "library" /\ ReportAt(c, k).id = r.id
                      /\ Offset(c, k) = r.start
    <2>1. CASE k <= p
      <3>1. k = 1 /\ p = 1
        BY <1>1, <2>1
      <3>2. ReportAt(c, k) = M!Report("replace", "callProtection", [start |-> 2, id |-> ""])
        BY <2>1 DEF ReportAt
      <3>3. \A ref : M!Report("replace", "callProtection", ref).reason = "callProtection"
        BY DEF M!Report
      <3> QED BY <3>1, <3>2, <3>3
    <2>2. CASE ~(k <= p) /\ k <= p + n
      <3> DEFINE r == c.immutableReferences[k - p]
      <3>1. k - p \in 1..n
        BY <1>1, <2>2
      <3>2. r \in M!ToSet(c.immutableReferences)
        BY <1>1, <3>1 DEF M!ToSet
      <3>3. ReportAt(c, k) = M!Report(IF c.vyper THEN "insert" ELSE "replace", "immutable", r)
        BY <2>2 DEF ReportAt
      <3>4. /\ ReportAt(c, k).reason = "immutable" /\ ReportAt(c, k).id = r.id
                      /\ Offset(c, k) = r.start
        BY <2>2, <3>3 DEF Offset, M!Report
      <3> QED BY <3>2, <3>4
    <2>3. CASE ~(k <= p) /\ ~(k <= p + n)
      <3> DEFINE r == c.linkReferences[k - p - n]
      <3>1. k - p - n \in 1..l
        BY <1>1, <2>3
      <3>2. r \in M!ToSet(c.linkReferences)
        BY <1>1, <3>1 DEF M!ToSet
      <3>3. ReportAt(c, k) = M!Report("replace", "library", r)
        BY <2>3 DEF ReportAt
      <3>4. /\ ReportAt(c, k).reason = "library" /\ ReportAt(c, k).id = r.id
                      /\ Offset(c, k) = r.start
        BY <2>3, <3>3 DEF Offset, M!Report
      <3> QED BY <3>2, <3>4
    <2> QED BY <2>1, <2>2, <2>3
  <1>3. \A refs \in {c.immutableReferences, c.linkReferences} : \A r, s \in M!ToSet(refs) :
            r.id = s.id => M!Slice(onchain, r.start) = M!Slice(onchain, s.start)
    BY DEF M!OneValueEach
  <1> HIDE DEF p
  <1>8. ReportAt(c, i).reason = ReportAt(c, j).reason /\ ReportAt(c, i).id = ReportAt(c, j).id
    BY DEF Name
  <1>5. CASE \E r \in M!ToSet(c.immutableReferences) :
                 /\ ReportAt(c, i).reason = "immutable" /\ ReportAt(c, i).id = r.id
                 /\ Offset(c, i) = r.start
    <2>1. PICK r \in M!ToSet(c.immutableReferences) :
                   /\ ReportAt(c, i).reason = "immutable" /\ ReportAt(c, i).id = r.id
                 /\ Offset(c, i) = r.start
      BY <1>5
    <2>2. PICK s \in M!ToSet(c.immutableReferences) :
                   /\ ReportAt(c, j).reason = "immutable" /\ ReportAt(c, j).id = s.id
                 /\ Offset(c, j) = s.start
      BY <1>2, <1>8, <2>1
    <2>3. r.id = s.id
      BY <1>8, <2>1, <2>2
    <2> QED BY <1>3, <2>1, <2>2, <2>3
  <1>6. CASE \E r \in M!ToSet(c.linkReferences) :
                 /\ ReportAt(c, i).reason = "library" /\ ReportAt(c, i).id = r.id
                 /\ Offset(c, i) = r.start
    <2>1. PICK r \in M!ToSet(c.linkReferences) :
                   /\ ReportAt(c, i).reason = "library" /\ ReportAt(c, i).id = r.id
                 /\ Offset(c, i) = r.start
      BY <1>6
    <2>2. PICK s \in M!ToSet(c.linkReferences) :
                   /\ ReportAt(c, j).reason = "library" /\ ReportAt(c, j).id = s.id
                 /\ Offset(c, j) = s.start
      BY <1>2, <1>8, <2>1
    <2>3. r.id = s.id
      BY <1>8, <2>1, <2>2
    <2> QED BY <1>3, <2>1, <2>2, <2>3
  <1>7. CASE i = 1 /\ ReportAt(c, i).reason = "callProtection"
    <2>1. j = 1
      BY <1>2, <1>7, <1>8
    <2> QED BY <1>7, <2>1
  <1> QED BY <1>2, <1>5, <1>6, <1>7

Told(c, onchain, m, j) ==
    /\ m.transformations = [i \in 1..j |-> ReportAt(c, i)]
    /\ M!OneValueEach(c, onchain) =>
           \A i \in 1..j : /\ Name(c, i) \in DOMAIN m.values
                           /\ m.values[Name(c, i)] = M!Slice(onchain, Offset(c, i))

LEMMA TellsNext ==
    ASSUME NEW c, M!IsCompiled(c), NEW onchain, NEW j \in 1..Reports(c), NEW m, IsMatch(m),
           Told(c, onchain, m, j - 1), NEW code
    PROVE  Told(c, onchain,
                M!Filled(m, ReportAt(c, j), M!Slice(onchain, Offset(c, j)), code), j)
  <1> DEFINE r == ReportAt(c, j)
             v == M!Slice(onchain, Offset(c, j))
             f == M!Filled(m, r, v, code)
             name == Name(c, j)
  <1>0. Reports(c) \in Nat /\ j \in Nat \ {0}
    BY ReportsAreCounted
  <1>1. f.transformations = Append(m.transformations, r)
    BY FilledIs
  <1>2. f.values = [n \in DOMAIN m.values \cup {name} |-> IF n = name THEN v ELSE m.values[n]]
    <2>1. name = <<r.reason, r.id>>
      BY DEF Name
    <2> HIDE DEF name, r, v
    <2>2. f.values = [n \in DOMAIN m.values \cup {<<r.reason, r.id>>} |->
                         IF n = <<r.reason, r.id>> THEN v ELSE m.values[n]]
      BY ValuesAre
    <2> QED BY <2>1, <2>2
  <1>3. f.transformations = [i \in 1..j |-> ReportAt(c, i)]
    <2> DEFINE g == [i \in 1..j |-> ReportAt(c, i)]
    <2>1. m.transformations = [i \in 1..(j - 1) |-> g[i]] /\ r = g[j] /\ g = [i \in 1..j |-> g[i]]
      BY DEF Told
    <2> HIDE DEF g, r, f
    <2>2. Append(m.transformations, r) = g
      BY <1>0, <2>1, AppendedIs
    <2> QED BY <1>1, <2>2 DEF g
  <1>4. ASSUME M!OneValueEach(c, onchain), NEW i \in 1..j
        PROVE  Name(c, i) \in DOMAIN f.values /\ f.values[Name(c, i)] = M!Slice(onchain, Offset(c, i))
    <2> HIDE DEF f
    <2>1. CASE Name(c, i) = name
      <3>1. i \in 1..Reports(c)
        BY <1>0
      <3>2. M!Slice(onchain, Offset(c, i)) = v
        BY <1>4, <2>1, <3>1, SameName
      <3> QED BY <1>2, <2>1, <3>2
    <2>2. CASE Name(c, i) # name
      <3>1. i \in 1..(j - 1)
        BY <2>2
      <3>2. /\ Name(c, i) \in DOMAIN m.values
            /\ m.values[Name(c, i)] = M!Slice(onchain, Offset(c, i))
        BY <1>4, <3>1 DEF Told
      <3> QED BY <1>2, <2>2, <3>2
    <2> QED BY <2>1, <2>2
  <1>5. Told(c, onchain, f, j)
    <2> HIDE DEF f
    <2> QED BY <1>3, <1>4 DEF Told
  <1> QED BY <1>5

-----------------------------------------------------------------------------
\* No stage has thrown unless the comparison does.
LEMMA StagesAreMatches ==
    ASSUME NEW c, M!IsCompiled(c), NEW onchain, NEW stage, AreStages(c, onchain, stage)
    PROVE  /\ \A j \in 0..Reports(c) : IsMatch(stage[j]) /\ stage[j].thrown \in BOOLEAN
           /\ ~stage[Reports(c)].thrown => \A j \in 0..Reports(c) : ~stage[j].thrown
           /\ \A j \in 1..Reports(c) :
                  /\ stage[j - 1].thrown => stage[j].thrown
                  /\ ~stage[j].thrown =>
                         stage[j] = M!Filled(stage[j - 1], ReportAt(c, j),
                                             M!Slice(onchain, Offset(c, j)),
                                             NextCode(c, onchain, stage[j - 1].code, j))
  <1> DEFINE n == Reports(c)
             T == {j \in 0..n : IsMatch(stage[j]) /\ stage[j].thrown \in BOOLEAN}
             U == {k \in 0..n : ~stage[n].thrown => ~stage[n - k].thrown}
  <1>1. n \in Nat /\ Protections(c) \in 0..1
    BY ReportsAreCounted
  <1>2. /\ stage[0] = M!Unfilled(c.code)
        /\ \A j \in 1..n : stage[j] = NextStage(c, onchain, stage[j - 1], j)
    BY DEF AreStages
  <1>3. IsMatch(stage[0]) /\ stage[0].thrown \in BOOLEAN /\ stage[0].code = c.code
    BY <1>2 DEF M!Unfilled, IsMatch
  <1>4. ASSUME NEW j \in 1..n, IsMatch(stage[j - 1]), stage[j - 1].thrown \in BOOLEAN
        PROVE  /\ IsMatch(stage[j]) /\ stage[j].thrown \in BOOLEAN
               /\ stage[j - 1].thrown => stage[j].thrown
               /\ ~stage[j].thrown =>
                      stage[j] = M!Filled(stage[j - 1], ReportAt(c, j),
                                          M!Slice(onchain, Offset(c, j)),
                                          NextCode(c, onchain, stage[j - 1].code, j))
    <2> DEFINE m == stage[j - 1]
    <2>1. j <= Protections(c) => m.code = c.code
      <3> SUFFICES ASSUME j <= Protections(c) PROVE m.code = c.code
        OBVIOUS
      <3>1. j - 1 = 0
        BY <1>1
      <3> QED BY <1>3, <3>1
    <2>2. IsMatch(m) /\ m.thrown \in BOOLEAN
      BY <1>4
    <2>3. stage[j] = NextStage(c, onchain, m, j)
      BY <1>2
    <2>0. j \in 1..Reports(c)
      OBVIOUS
    <2> DEFINE f == NextStage(c, onchain, m, j)
    <2> HIDE DEF m, n
    <2>5. /\ IsMatch(f) /\ f.thrown \in BOOLEAN
          /\ m.thrown => f.thrown
          /\ ~f.thrown => f = M!Filled(m, ReportAt(c, j), M!Slice(onchain, Offset(c, j)),
                                       NextCode(c, onchain, m.code, j))
      BY <2>0, <2>1, <2>2, StageIsFilled
    <2>4. /\ IsMatch(stage[j]) /\ stage[j].thrown \in BOOLEAN
          /\ m.thrown => stage[j].thrown
          /\ ~stage[j].thrown =>
                 stage[j] = M!Filled(m, ReportAt(c, j), M!Slice(onchain, Offset(c, j)),
                                     NextCode(c, onchain, m.code, j))
      BY <2>3, <2>5
    <2> QED BY <2>4 DEF m
  <1>5. 0..n \subseteq T
    <2>1. 0 \in T
      BY <1>1, <1>3
    <2>2. \A j \in 1..n : j - 1 \in T => j \in T
      BY <1>1, <1>4
    <2> HIDE DEF T, n
    <2> QED BY <1>1, <2>1, <2>2, ReachesAll
  <1>6. ASSUME NEW j \in 1..n
        PROVE  /\ stage[j - 1].thrown => stage[j].thrown
               /\ ~stage[j].thrown =>
                      stage[j] = M!Filled(stage[j - 1], ReportAt(c, j),
                                          M!Slice(onchain, Offset(c, j)),
                                          NextCode(c, onchain, stage[j - 1].code, j))
    <2>1. j - 1 \in T
      BY <1>1, <1>5
    <2>2. IsMatch(stage[j - 1]) /\ stage[j - 1].thrown \in BOOLEAN
      BY <2>1
    <2> QED BY <1>4, <2>2
  <1>7. 0..n \subseteq U
    <2>1. 0 \in U
      BY <1>1
    <2>2. ASSUME NEW k \in 1..n, k - 1 \in U PROVE k \in U
      <3>1. n - k + 1 \in 1..n /\ (n - k + 1) - 1 = n - k /\ n - (k - 1) = n - k + 1
        BY <1>1
      <3>2. stage[n - k].thrown => stage[n - k + 1].thrown
        BY <1>6, <3>1
      <3>3. k \in 0..n /\ (~stage[n].thrown => ~stage[n - k + 1].thrown)
        BY <1>1, <2>2, <3>1
      <3> QED BY <3>2, <3>3
    <2> HIDE DEF U, n
    <2> QED BY <1>1, <2>1, <2>2, ReachesAll
  <1>8. ASSUME ~stage[n].thrown, NEW j \in 0..n PROVE ~stage[j].thrown
    <2>1. n - j \in U /\ n - (n - j) = j
      BY <1>1, <1>7
    <2> QED BY <1>8, <2>1
  <1>9. \A j \in 0..n : IsMatch(stage[j]) /\ stage[j].thrown \in BOOLEAN
    BY <1>5
  <1> HIDE DEF T, U
  <1> QED BY <1>6, <1>8, <1>9

AreFilled(c, onchain, stage) ==
    /\ stage[0].code = c.code
    /\ \A j \in 0..Reports(c) : IsMatch(stage[j])
    /\ \A j \in 1..Reports(c) :
           stage[j] = M!Filled(stage[j - 1], ReportAt(c, j), M!Slice(onchain, Offset(c, j)),
                               NextCode(c, onchain, stage[j - 1].code, j))

LEMMA FilledCodes ==
    ASSUME NEW c, NEW onchain, NEW stage, AreFilled(c, onchain, stage), Reports(c) \in Nat,
           NEW j \in 1..Reports(c)
    PROVE  stage[j].code = NextCode(c, onchain, stage[j - 1].code, j)
  <1> DEFINE m == stage[j - 1]
             code == NextCode(c, onchain, m.code, j)
             r == ReportAt(c, j)
             v == M!Slice(onchain, Offset(c, j))
  <1>1. IsMatch(m) /\ stage[j] = M!Filled(m, r, v, code)
    BY DEF AreFilled
  <1> HIDE DEF m, code, r, v
  <1>2. stage[j].code = code
    BY <1>1, FilledIs
  <1> QED BY <1>2 DEF code, m

LEMMA StagesTell ==
    ASSUME NEW c, M!IsCompiled(c), NEW onchain, NEW stage, stage[0] = M!Unfilled(c.code),
           AreFilled(c, onchain, stage)
    PROVE  Told(c, onchain, stage[Reports(c)], Reports(c))
  <1> DEFINE n == Reports(c)
             T == {j \in 0..n : Told(c, onchain, stage[j], j)}
  <1>1. n \in Nat
    BY ReportsAreCounted
  <1>2. 0 \in T
    <2>1. stage[0].transformations = [i \in 1..0 |-> ReportAt(c, i)]
      BY DEF M!Unfilled
    <2> QED BY <1>1, <2>1 DEF Told
  <1>3. ASSUME NEW j \in 1..n, j - 1 \in T PROVE j \in T
    <2> DEFINE m == stage[j - 1]
               code == NextCode(c, onchain, m.code, j)
    <2>1. IsMatch(m) /\ Told(c, onchain, m, j - 1)
      BY <1>1, <1>3 DEF AreFilled
    <2>2. stage[j] = M!Filled(m, ReportAt(c, j), M!Slice(onchain, Offset(c, j)), code)
      BY DEF AreFilled
    <2>3. j \in 0..n
      BY <1>1
    <2> HIDE DEF m, code
    <2>4. Told(c, onchain, stage[j], j)
      BY <2>1, <2>2, TellsNext
    <2> QED BY <2>3, <2>4
  <1>4. n \in T
    <2> HIDE DEF T, n
    <2>1. 0..n \subseteq T
      BY <1>1, <1>2, <1>3, ReachesAll
    <2> QED BY <1>1, <2>1
  <1> QED BY <1>4

LEMMA StagesAlign ==
    ASSUME NEW c, M!IsCompiled(c), NEW onchain, M!IsCode(onchain), NEW stage,
           AreFilled(c, onchain, stage)
    PROVE  \A j \in 0..Inner(c) : Aligned(c, onchain, stage[j].code, Handled(c, j))
  <1> DEFINE n == Inner(c)
             T == {j \in 0..n : Aligned(c, onchain, stage[j].code, Handled(c, j))}
  <1>1. n \in Nat /\ n <= Reports(c) /\ Reports(c) \in Nat /\ Protections(c) \in 0..1
    BY ReportsAreCounted, SlotsAreSeparate
  <1>2. 0 \in T
    <2>1. Aligned(c, onchain, stage[0].code, Handled(c, 0))
      BY StartsAligned DEF AreFilled
    <2> QED BY <1>1, <2>1
  <1>3. ASSUME NEW j \in 1..n, j - 1 \in T PROVE j \in T
    <2> DEFINE code == stage[j - 1].code
    <2>1. Aligned(c, onchain, code, Handled(c, j - 1))
      BY <1>3
    <2>2. j \in 0..n /\ j \in 1..Reports(c) /\ j \in 1..Inner(c)
      BY <1>1
    <2>3. stage[j].code = NextCode(c, onchain, code, j)
      BY <1>1, <2>2, FilledCodes
    <2>4. j <= Protections(c) => code = c.code
      <3> SUFFICES ASSUME j <= Protections(c) PROVE code = c.code
        OBVIOUS
      <3>1. j - 1 = 0
        BY <1>1
      <3> QED BY <3>1 DEF AreFilled
    <2> HIDE DEF code
    <2>5. Aligned(c, onchain, stage[j].code, Handled(c, j))
      BY <2>1, <2>2, <2>3, <2>4, StaysAligned
    <2> QED BY <2>2, <2>5
  <1>4. 0..n \subseteq T
    <2> HIDE DEF T, n
    <2> QED BY <1>1, <1>2, <1>3, ReachesAll
  <1> QED BY <1>4

-----------------------------------------------------------------------------
(* What a reader rebuilds *)

LEMMA InsertedIs ==
    ASSUME NEW A, NEW code \in Seq(A), NEW v \in Seq(A), NEW n \in Nat, Len(code) <= n
    PROVE  Joined(M!UpTo(code, (n + 1) - 1), v, SubSeq(code, n + 1, Len(code))) = code \o v
  <1>1. (n + 1) - 1 = n /\ Len(code) \in Nat
    OBVIOUS
  <1>2. M!UpTo(code, n) = code
    <2>1. M!UpTo(code, n) = SubSeq(code, 1, Len(code))
      BY DEF M!UpTo
    <2> QED BY <2>1
  <1>3. SubSeq(code, n + 1, Len(code)) = <<>>
    BY <1>1
  <1> DEFINE s == code \o v
  <1>4. s \in Seq(A)
    OBVIOUS
  <1>5. Joined(M!UpTo(code, (n + 1) - 1), v, SubSeq(code, n + 1, Len(code))) = s \o <<>>
    BY <1>1, <1>2, <1>3 DEF Joined
  <1> HIDE DEF s
  <1>6. s \o <<>> = s
    BY <1>4
  <1> QED BY <1>5, <1>6 DEF s

\* The slot that follows a code is the last one.
LEMMA FollowingSlot ==
    ASSUME NEW c, M!IsCompiled(c), Follows(c)
    PROVE  /\ c.vyper /\ Immutables(c) = 1 /\ Reports(c) = Protections(c) + 1
           /\ Offset(c, Protections(c) + 1) = Len(c.code) + 1
           /\ Len(c.code) + 1 \in M!Slots(c)
           /\ ~M!HasContentHash(c.code)
  <1> DEFINE p == Protections(c)
  <1>1. /\ c.vyper /\ c.linkReferences = <<>> /\ Len(c.immutableReferences) = 1
        /\ M!Starts(c.immutableReferences) = {Len(c.code) + 1}
        /\ ~M!HasContentHash(c.code)
    BY DEF Follows, M!IsCompiled
  <1>2. /\ p \in 0..1 /\ Reports(c) = p + Immutables(c) + Libraries(c)
        /\ DOMAIN c.immutableReferences = 1..Immutables(c)
    BY ReportsAreCounted
  <1>3. Immutables(c) = 1 /\ Libraries(c) = 0
    BY <1>1 DEF Immutables, Libraries
  <1>4. Offset(c, p + 1) = c.immutableReferences[1].start
    <2>1. ~(p + 1 <= p) /\ p + 1 <= p + 1 /\ (p + 1) - p = 1
      BY <1>2
    <2> HIDE DEF p
    <2>2. Offset(c, p + 1) = c.immutableReferences[(p + 1) - p].start
      BY <1>3, <2>1 DEF Offset, p
    <2> QED BY <2>1, <2>2
  <1>5. c.immutableReferences[1].start \in M!Starts(c.immutableReferences)
    BY <1>2, <1>3 DEF M!Starts, M!ToSet
  <1> QED BY <1>1, <1>2, <1>3, <1>4, <1>5 DEF M!Slots

LEMMA TransformationIs ==
    ASSUME NEW c, M!IsCompiled(c), NEW onchain, M!IsCode(onchain), M!OneValueEach(c, onchain),
           NEW j \in 1..Reports(c), NEW code, code \in Seq(Symbols(c, onchain)),
           Len(code) <= Len(c.code), j <= Protections(c) => code = c.code,
           NEW values, values[Name(c, j)] = M!Slice(onchain, Offset(c, j))
    PROVE  M!WithTransformation(code, ReportAt(c, j), values) = NextCode(c, onchain, code, j)
  <1> DEFINE p == Protections(c)
             n == Immutables(c)
             A == Symbols(c, onchain)
             v == M!Slice(onchain, Offset(c, j))
             t == ReportAt(c, j)
  <1>0. M!IsCode(c.code)
    BY DEF M!IsCompiled
  <1>1. onchain \in Seq(A) /\ c.code \in Seq(A)
    BY <1>0, CodesHaveSymbols DEF Symbols
  <1>2. p \in 0..1 /\ n \in Nat /\ Libraries(c) \in Nat /\ Reports(c) = p + n + Libraries(c)
        /\ Len(c.code) \in Nat
    BY ReportsAreCounted
  <1>3. values[<<t.reason, t.id>>] = v /\ t.offset = Offset(c, j)
    BY OffsetIsReported DEF Name
  <1>4. t.type = "insert" \/ t.type = "replace"
    BY DEF ReportAt, M!Report
  <1>5. CASE j <= p
    <2>1. j = 1 /\ p = 1 /\ M!IsProtected(c.code) /\ code = c.code
      <3>1. p = 1 /\ j = 1
        BY <1>2, <1>5
      <3> QED BY <1>5, <3>1 DEF Protections
    <2>2. t.type = "replace" /\ Offset(c, j) = 2
      BY <1>5 DEF ReportAt, M!Report, Offset
    <2>3. M!WithTransformation(code, t, values) = M!Replaced(code, 2, M!Slice(onchain, 2))
      <3> HIDE DEF t
      <3> QED BY <1>3, <2>2 DEF M!WithTransformation
    <2>4. /\ Len(code) >= 2 /\ code[1] = Push20
      BY <1>0, <2>1, ProtectedIsLong
    <2>5. M!Slice(onchain, 1) = <<code[1]>>
      BY <2>1, <2>4 DEF M!OneValueEach
    <2>6. M!Replaced(code, 2, M!Slice(onchain, 2))
              = Joined(<<code[1]>>, M!Slice(onchain, 2), SubSeq(code, 3, Len(code)))
      <3> HIDE DEF A
      <3> QED BY <2>4, SecondReplaced DEF A
    <2>7. NextCode(c, onchain, code, j)
              = Joined(M!Slice(onchain, 1), M!Slice(onchain, 2), SubSeq(code, 3, Len(code)))
      BY <1>5 DEF NextCode
    <2>8. M!WithTransformation(code, t, values) = NextCode(c, onchain, code, j)
      BY <2>3, <2>5, <2>6, <2>7
    <2> QED BY <2>8 DEF t
  <1>6. CASE ~(j <= p) /\ j <= p + n /\ c.vyper
    <2>1. t.type = "insert"
      BY <1>6 DEF ReportAt, M!Report
    <2>2. Offset(c, j) = Len(c.code) + 1
      <3>1. c.immutableReferences # <<>>
        <4>1. n # 0
          BY <1>2, <1>6
        <4> QED BY <4>1 DEF Immutables
      <3>2. Follows(c)
        BY <1>6, <3>1 DEF Follows
      <3>3. j = p + 1
        BY <1>2, <1>6, <3>2, FollowingSlot
      <3> QED BY <3>2, <3>3, FollowingSlot
    <2>3. M!WithTransformation(code, t, values)
              = Joined(M!UpTo(code, Offset(c, j) - 1), v, SubSeq(code, Offset(c, j), Len(code)))
      <3> HIDE DEF t, v
      <3> QED BY <1>3, <2>1 DEF M!WithTransformation, Joined
    <2>4. v \in Seq(A)
      <3>1. Offset(c, j) \in Int
        BY <1>2, <2>2
      <3> HIDE DEF A
      <3> QED BY <1>1, <3>1, SliceIs
    <2>5. NextCode(c, onchain, code, j) = code \o v
      BY <1>6 DEF NextCode
    <2> DEFINE k == Len(c.code)
    <2> HIDE DEF v, A, t
    <2>6. k \in Nat /\ Len(code) <= k /\ Offset(c, j) = k + 1
      BY <1>2, <2>2
    <2> HIDE DEF k
    <2>7. Joined(M!UpTo(code, (k + 1) - 1), v, SubSeq(code, k + 1, Len(code))) = code \o v
      BY <2>4, <2>6, InsertedIs DEF A
    <2>8. M!WithTransformation(code, t, values) = NextCode(c, onchain, code, j)
      BY <2>3, <2>5, <2>6, <2>7
    <2> QED BY <2>8 DEF t
  <1>7. CASE ~(j <= p) /\ ~(j <= p + n /\ c.vyper)
    <2>1. t.type = "replace"
      BY <1>7 DEF ReportAt, M!Report
    <2>2. M!WithTransformation(code, t, values) = M!Replaced(code, Offset(c, j), v)
      <3> HIDE DEF t, v
      <3> QED BY <1>3, <2>1 DEF M!WithTransformation
    <2>3. NextCode(c, onchain, code, j) = M!Replaced(code, Offset(c, j), v)
      BY <1>7 DEF NextCode
    <2> QED BY <2>2, <2>3
  <1> QED BY <1>5, <1>6, <1>7

LEMMA RebuiltIsFilled ==
    ASSUME NEW c, M!IsCompiled(c), NEW onchain, M!IsCode(onchain), M!OneValueEach(c, onchain),
           NEW stage, stage[0] = M!Unfilled(c.code), AreFilled(c, onchain, stage),
           NEW r, r.transformations = stage[Reports(c)].transformations,
           r.values = stage[Reports(c)].values
    PROVE  M!Applied(c.code, r) = stage[Reports(c)].code
  <1> DEFINE n == Reports(c)
             w == TransformationsOf(c.code, r)
  <1>1. /\ n \in Nat /\ Protections(c) \in 0..1 /\ Inner(c) \in 0..n
    BY ReportsAreCounted, SlotsAreSeparate
  <1>2. /\ r.transformations = [i \in 1..n |-> ReportAt(c, i)]
        /\ \A i \in 1..n : r.values[Name(c, i)] = M!Slice(onchain, Offset(c, i))
    BY StagesTell DEF Told
  <1>3. M!Applied(c.code, r) = FoldOf(w, 1..n)
    BY <1>2, AppliedIsFold
  <1>4. PICK g : g[0] = w.base /\ (\A i \in 1..n : g[i] = Stepped(w, g[i - 1], i))
                 /\ FoldOf(w, 1..n) = g[n]
    <2> HIDE DEF w, n
    <2> QED BY <1>1, FoldUnfolds
  <1>5. g[0] = c.code
    <2>1. w.base = c.code
      BY DEF TransformationsOf, Work
    <2> HIDE DEF w
    <2> QED BY <1>4, <2>1
  <1>6. ASSUME NEW i \in 1..n
        PROVE  g[i] = M!WithTransformation(g[i - 1], ReportAt(c, i), r.values)
    <2>1. Stepped(w, g[i - 1], i)
              = M!WithTransformation(g[i - 1], r.transformations[i], r.values)
      BY DEF Stepped, TransformationsOf, Work
    <2>2. r.transformations[i] = ReportAt(c, i)
      BY <1>2
    <2> HIDE DEF w
    <2> QED BY <1>4, <2>1, <2>2
  <1>7. ASSUME NEW i \in 1..n
        PROVE  stage[i - 1].code \in Seq(Symbols(c, onchain))
               /\ Len(stage[i - 1].code) <= Len(c.code)
    <2>1. i - 1 \in 0..Inner(c)
      <3>1. CASE Follows(c)
        <4>1. Inner(c) = Protections(c) /\ n = Protections(c) + 1
          BY <3>1, FollowingSlot DEF Inner
        <4> QED BY <1>1, <4>1
      <3>2. CASE ~Follows(c)
        <4>1. Inner(c) = n
          BY <3>2 DEF Inner
        <4> QED BY <1>1, <4>1
      <3> QED BY <3>1, <3>2
    <2>2. Aligned(c, onchain, stage[i - 1].code, Handled(c, i - 1))
      BY <2>1, StagesAlign
    <2> QED BY <2>2 DEF Aligned
  <1> DEFINE T == {i \in 0..n : g[i] = stage[i].code}
  <1>8. 0 \in T
    BY <1>1, <1>5 DEF AreFilled
  <1>9. ASSUME NEW i \in 1..n, i - 1 \in T PROVE i \in T
    <2> DEFINE code == stage[i - 1].code
    <2>1. g[i - 1] = code /\ i \in 0..n /\ i \in 1..Reports(c)
      BY <1>1, <1>9
    <2>2. stage[i].code = NextCode(c, onchain, code, i)
      BY <1>1, <2>1, FilledCodes
    <2>3. i <= Protections(c) => code = c.code
      <3> SUFFICES ASSUME i <= Protections(c) PROVE code = c.code
        OBVIOUS
      <3>1. i - 1 = 0
        BY <1>1
      <3> QED BY <3>1 DEF AreFilled
    <2>4. code \in Seq(Symbols(c, onchain)) /\ Len(code) <= Len(c.code)
      BY <1>7
    <2>5. r.values[Name(c, i)] = M!Slice(onchain, Offset(c, i))
      BY <1>2
    <2> HIDE DEF code, n, w
    <2>6. M!WithTransformation(code, ReportAt(c, i), r.values) = NextCode(c, onchain, code, i)
      BY <2>1, <2>3, <2>4, <2>5, TransformationIs
    <2>7. g[i] = stage[i].code
      BY <1>6, <2>1, <2>2, <2>6
    <2> QED BY <2>1, <2>7
  <1>10. n \in T
    <2> HIDE DEF T, n
    <2>1. 0..n \subseteq T
      BY <1>1, <1>8, <1>9, ReachesAll
    <2> QED BY <1>1, <2>1
  <1> QED BY <1>3, <1>4, <1>10

-----------------------------------------------------------------------------
(* What the comparison keeps *)

LEMMA FilledKeeps ==
    ASSUME NEW c, M!IsCompiled(c), NEW onchain, M!IsCode(onchain), NEW stage,
           AreFilled(c, onchain, stage)
    PROVE  LET code == stage[Reports(c)].code
           IN  /\ code \in Seq(Symbols(c, onchain))
               /\ \A k \in 1..Len(onchain) :
                      k \notin M!Slots(c) => M!Slice(code, k) = M!Slice(c.code, k)
  <1> DEFINE A == Symbols(c, onchain)
             p == Protections(c)
             n == Reports(c)
  <1>1. p \in 0..1 /\ n \in Nat /\ p <= n /\ Len(c.code) \in Nat
    BY ReportsAreCounted
  <1>2. CASE ~Follows(c)
    <2>1. n \in 0..Inner(c)
      BY <1>1, <1>2 DEF Inner
    <2>2. Aligned(c, onchain, stage[n].code, Handled(c, n))
      BY <2>1, StagesAlign
    <2> QED BY <2>2 DEF Aligned
  <1>3. CASE Follows(c)
    <2> DEFINE code == stage[p].code
               v == M!Slice(onchain, Len(c.code) + 1)
    <2>1. p \in 0..Inner(c)
      BY <1>1, <1>3 DEF Inner
    <2>2. Aligned(c, onchain, code, Handled(c, p))
      BY <2>1, StagesAlign
    <2>3. /\ c.vyper /\ Immutables(c) = 1 /\ n = p + 1 /\ Offset(c, p + 1) = Len(c.code) + 1
          /\ Len(c.code) + 1 \in M!Slots(c)
      BY <1>3, FollowingSlot
    <2>4. stage[n].code = code \o v
      <3>1. n \in 1..Reports(c) /\ n - 1 = p
        BY <1>1, <2>3
      <3>2. stage[n].code = NextCode(c, onchain, stage[n - 1].code, n)
        BY <1>1, <3>1, FilledCodes
      <3>3. ~(n <= p) /\ n <= p + 1
        BY <1>1, <2>3
      <3>4. NextCode(c, onchain, code, n) = code \o v
        BY <2>3, <3>3 DEF NextCode
      <3> QED BY <3>1, <3>2, <3>4
    <2>5. code \in Seq(A) /\ onchain \in Seq(A)
      <3>1. M!IsCode(c.code)
        BY DEF M!IsCompiled
      <3> QED BY <2>2, <3>1, CodesHaveSymbols DEF Aligned, Symbols
    <2> DEFINE lengthC == Len(c.code)
               lengthO == Len(onchain)
               length == Len(code)
               lengthV == Len(v)
               full == code \o v
    <2>6. /\ v \in Seq(A) /\ lengthV \in Nat
          /\ lengthC + 1 <= lengthO => lengthV = 1
          /\ lengthC + 1 > lengthO => lengthV = 0
      <3>1. Len(c.code) + 1 \in Nat \ {0}
        BY <1>1
      <3> HIDE DEF A
      <3> QED BY <2>5, <3>1, SliceLength
    <2> HIDE DEF A, code, v
    <2>7. /\ full \in Seq(A) /\ Len(full) = Len(code) + Len(v)
          /\ \A k \in 1..Len(code) : full[k] = code[k]
      BY <2>5, <2>6, JoinedIs
    <2> HIDE DEF full
    <2>8. length \in Nat /\ lengthO \in Nat /\ DOMAIN code = 1..Len(code) /\ DOMAIN full = 1..Len(full)
      BY <2>5, <2>7
    <2>9. /\ length <= lengthC /\ (length >= lengthC \/ length >= lengthO)
          /\ \A k \in 1..Len(onchain) :
                 k \notin M!Slots(c) => M!Slice(code, k) = M!Slice(c.code, k)
      BY <2>2 DEF Aligned
    <2>10. ASSUME NEW k \in 1..Len(onchain), k \notin M!Slots(c)
           PROVE  M!Slice(full, k) = M!Slice(c.code, k)
      <3>1. k # lengthC + 1
        BY <2>3, <2>10
      <3>2. k \in 1..Len(full) <=> k \in 1..Len(code)
        <4>1. Len(full) = length + lengthV /\ k \in 1..lengthO
          BY <2>7
        <4> HIDE DEF lengthC, lengthO, length, lengthV
        <4>2. k \in 1..(length + lengthV) <=> k \in 1..length
          BY <1>1, <2>6, <2>8, <2>9, <3>1, <4>1 DEF lengthC
        <4> QED BY <4>1, <4>2 DEF length
      <3>3. M!Slice(full, k) = M!Slice(code, k)
        BY <2>7, <2>8, <3>2 DEF M!Slice
      <3> QED BY <2>9, <2>10, <3>3
    <2>11. stage[n].code = full
      BY <2>4 DEF full
    <2> QED BY <2>7, <2>10, <2>11 DEF A
  <1> QED BY <1>2, <1>3

\* A code that is the one on the chain ends with the auxdata of the compiled one.
LEMMA HashIsKept ==
    ASSUME NEW c, M!IsCompiled(c), NEW onchain, M!IsCode(onchain), NEW stage,
           AreFilled(c, onchain, stage), stage[Reports(c)].code = onchain,
           M!HasContentHash(c.code)
    PROVE  M!HasContentHash(onchain)
  <1> DEFINE n == Reports(c)
             N == Len(c.code)
             K == Len(onchain)
             H == Handled(c, n)
             B == Beyond(onchain, H)
  <1>1. ~Follows(c)
    BY FollowingSlot
  <1>2. n \in Nat /\ N \in Nat /\ Inner(c) = n
    BY <1>1, ReportsAreCounted DEF Inner
  <1>3. c.code \in Seq(M!ToSet(c.code)) /\ onchain \in Seq(M!ToSet(onchain))
    BY DEF M!IsCompiled, M!IsCode
  <1>4. K \in Nat
    BY <1>3
  <1>5. Aligned(c, onchain, onchain, H)
    <2>1. n \in 0..Inner(c)
      BY <1>2
    <2> QED BY <2>1, StagesAlign
  <1>6. /\ K <= N /\ K + Cardinality(B) >= N
        /\ \A k \in 1..K : k \notin M!Slots(c) => M!Slice(onchain, k) = M!Slice(c.code, k)
    BY <1>5 DEF Aligned
  <1>7. c.code # <<>> /\ c.code[N] \in Auxdata /\ c.code[N] \in ContentHashes /\ M!SplitsOff(c.code)
    BY DEF M!HasContentHash, M!SplitsOff, M!Last
  <1>8. N # 0
    BY <1>3, <1>7
  <1>9. N \notin M!Slots(c)
    BY <1>1, <1>7, SlotsAreApart DEF SlotsLieApart
  <1>10. H \subseteq 1..N \cap M!Slots(c)
    <2>1. CASE n = 0
      BY <2>1 DEF Handled
    <2>2. CASE n # 0
      <3>1. n \in 1..Inner(c)
        BY <1>2, <2>2
      <3> QED BY <3>1, HandledGrows
    <2> QED BY <2>1, <2>2
  <1>11. K = N
    <2> SUFFICES ASSUME K # N PROVE FALSE
      OBVIOUS
    <2>1. B \in SUBSET ((K + 1)..(N - 1))
      <3>1. \A k \in B : k \in 1..N /\ k # N /\ k > K
        BY <1>9, <1>10 DEF Beyond
      <3> HIDE DEF B, K, N
      <3> QED BY <1>2, <1>4, <3>1
    <2> HIDE DEF B, K, N
    <2>2. /\ IsFiniteSet((K + 1)..(N - 1))
          /\ Cardinality((K + 1)..(N - 1)) = IF K + 1 > N - 1 THEN 0 ELSE (N - 1) - (K + 1) + 1
      <3>1. K + 1 \in Int /\ N - 1 \in Int
        BY <1>2, <1>4
      <3> QED BY <3>1, FS_Interval
    <2>3. Cardinality(B) <= Cardinality((K + 1)..(N - 1)) /\ Cardinality(B) \in Nat
      <3>1. IsFiniteSet(B)
        BY <2>1, <2>2, FS_Subset
      <3>2. Cardinality(B) \in Nat
        BY <3>1, FS_CardinalityType
      <3> QED BY <2>1, <2>2, <3>2, FS_Subset
    <2> QED BY <1>2, <1>4, <1>6, <2>2, <2>3
  <1>12. onchain[K] = c.code[N]
    <2>1. N \in 1..K /\ N \in DOMAIN onchain /\ N \in DOMAIN c.code
      BY <1>2, <1>3, <1>8, <1>11
    <2>2. M!Slice(onchain, N) = M!Slice(c.code, N)
      BY <1>6, <1>9, <2>1
    <2>3. <<onchain[N]>> = <<c.code[N]>>
      BY <2>1, <2>2 DEF M!Slice
    <2> QED BY <1>11, <2>3
  <1>13. onchain # <<>>
    BY <1>8, <1>11
  <1> QED BY <1>7, <1>12, <1>13 DEF M!HasContentHash, M!SplitsOff, M!Last

LEMMA ExecutionIs ==
    ASSUME NEW A, NEW s \in Seq(A)
    PROVE  \A i \in DOMAIN M!Execution(s) :
               i \in 1..Len(s) /\ M!Execution(s)[i] = s[i] /\ M!Slice(s, i) = <<s[i]>>
  <1>1. DOMAIN s = 1..Len(s) /\ Len(s) \in Nat
    OBVIOUS
  <1>2. \A i \in 1..Len(s) : M!Slice(s, i) = <<s[i]>>
    BY <1>1 DEF M!Slice
  <1>3. CASE M!SplitsOff(s)
    <2> DEFINE f == SubSeq(s, 1, Len(s) - 1)
    <2>1. M!Execution(s) = f
      BY <1>3 DEF M!Execution, M!Front
    <2>2. Len(s) - 1 \in Nat
      <3>1. s # <<>>
        BY <1>3 DEF M!SplitsOff
      <3> QED BY <1>1, <3>1
    <2>3. /\ DOMAIN f = 1..(Len(s) - 1) /\ \A i \in 1..(Len(s) - 1) : f[i] = s[i]
      BY <2>2
    <2> HIDE DEF f
    <2>4. \A i \in 1..(Len(s) - 1) : i \in 1..Len(s)
      BY <1>1
    <2> QED BY <1>2, <2>1, <2>3, <2>4
  <1>4. CASE ~M!SplitsOff(s)
    <2>1. M!Execution(s) = s
      BY <1>4 DEF M!Execution
    <2> QED BY <1>1, <1>2, <2>1
  <1> QED BY <1>3, <1>4

\* What a match says, when it says one.
LEMMA MatchSays ==
    ASSUME NEW c, NEW onchain,
           M!matchBytecode(c, onchain).match \in {"match", "exact_match"}
    PROVE  LET r == M!matchBytecode(c, onchain)
               m == M!Populated(c, onchain)
           IN  /\ ~m.thrown
               /\ r.transformations = m.transformations /\ r.values = m.values
               /\ M!Execution(m.code) = M!Execution(onchain)
               /\ r.match = "exact_match" => m.code = onchain /\ M!HasContentHash(c.code)
  <1> DEFINE r == M!matchBytecode(c, onchain)
             m == M!Populated(c, onchain)
             verdict == IF m.thrown THEN "error" ELSE M!Verdict(c, m.code, onchain)
             told == [match |-> verdict, transformations |-> m.transformations,
                      values |-> m.values]
             none == [M!NoResult EXCEPT !.match = verdict]
  <1>1. r = IF verdict \in {"error", "null"} THEN none ELSE told
    BY DEF M!matchBytecode
  <1>2. none.match = verdict
    BY DEF M!NoResult
  <1>3. told.match = verdict /\ told.transformations = m.transformations /\ told.values = m.values
    OBVIOUS
  <1>4. M!Verdict(c, m.code, onchain) \in {"match", "exact_match"} =>
            /\ M!Execution(m.code) = M!Execution(onchain)
            /\ (M!Verdict(c, m.code, onchain) = "exact_match" =>
                    m.code = onchain /\ M!HasContentHash(c.code))
    <2> HIDE DEF m
    <2>1. CASE m.code = onchain
      BY <2>1 DEF M!Verdict
    <2>2. CASE m.code # onchain
      BY <2>2 DEF M!Verdict
    <2> QED BY <2>1, <2>2
  <1>5. (~m.thrown /\ verdict = M!Verdict(c, m.code, onchain)) \/ verdict = "error"
    <2> HIDE DEF m
    <2> QED OBVIOUS
  <1>6. verdict \in {"match", "exact_match"} /\ r = told
    <2> HIDE DEF verdict, none, told, m
    <2>1. r.match \in {"match", "exact_match"}
      OBVIOUS
    <2>2. CASE verdict \in {"error", "null"}
      BY <1>1, <1>2, <2>1, <2>2
    <2>3. CASE verdict \notin {"error", "null"}
      BY <1>1, <1>3, <2>1, <2>3
    <2> QED BY <2>2, <2>3
  <1> HIDE DEF r, m, verdict, told, none
  <1>7. ~m.thrown /\ verdict = M!Verdict(c, m.code, onchain) /\ r.match = verdict
    BY <1>3, <1>5, <1>6
  <1> QED BY <1>3, <1>4, <1>6, <1>7 DEF r, m

LEMMA MatchedStep ==
    ASSUME NEW c, M!IsCompiled(c), NEW onchain, M!IsCode(onchain), NEW r,
           r = M!matchBytecode(c, onchain), r.match \in {"match", "exact_match"}
    PROVE  /\ \A i \in DOMAIN M!Execution(onchain) \ M!Slots(c) :
                  M!Slice(c.code, i) = <<onchain[i]>>
           /\ r.match = "exact_match" => M!HasContentHash(onchain)
           /\ M!OneValueEach(c, onchain) =>
                  /\ M!Execution(M!Applied(c.code, r)) = M!Execution(onchain)
                  /\ r.match = "exact_match" => M!Applied(c.code, r) = onchain
  <1> DEFINE m == M!Populated(c, onchain)
             n == Reports(c)
             A == Symbols(c, onchain)
  <1>1. /\ ~m.thrown
        /\ r.transformations = m.transformations /\ r.values = m.values
        /\ M!Execution(m.code) = M!Execution(onchain)
        /\ r.match = "exact_match" => m.code = onchain /\ M!HasContentHash(c.code)
    BY MatchSays
  <1>2. PICK stage : AreStages(c, onchain, stage) /\ stage[0] = M!Unfilled(c.code)
                         /\ m = stage[n]
    BY StagesExist DEF AreStages
  <1> HIDE DEF m, A
  <1>3. AreFilled(c, onchain, stage)
    <2>1. stage[0].code = c.code
      BY <1>2 DEF M!Unfilled
    <2>2. /\ \A j \in 0..Reports(c) : IsMatch(stage[j]) /\ stage[j].thrown \in BOOLEAN
          /\ ~stage[Reports(c)].thrown => \A j \in 0..Reports(c) : ~stage[j].thrown
          /\ \A j \in 1..Reports(c) :
                 ~stage[j].thrown =>
                     stage[j] = M!Filled(stage[j - 1], ReportAt(c, j),
                                         M!Slice(onchain, Offset(c, j)),
                                         NextCode(c, onchain, stage[j - 1].code, j))
      BY <1>2, StagesAreMatches
    <2>3. n \in Nat
      BY ReportsAreCounted
    <2>4. ~stage[n].thrown
      BY <1>1, <1>2
    <2>5. \A j \in 1..n : j \in 0..n
      BY <2>3
    <2> QED BY <2>1, <2>2, <2>4, <2>5 DEF AreFilled
  <1>4. /\ m.code \in Seq(A)
        /\ \A k \in 1..Len(onchain) :
               k \notin M!Slots(c) => M!Slice(m.code, k) = M!Slice(c.code, k)
    BY <1>2, <1>3, FilledKeeps DEF A
  <1>5. onchain \in Seq(M!ToSet(onchain))
    BY DEF M!IsCode
  <1>6. ASSUME NEW i \in DOMAIN M!Execution(onchain) \ M!Slots(c)
        PROVE  M!Slice(c.code, i) = <<onchain[i]>>
    <2>1. i \in 1..Len(onchain) /\ M!Execution(onchain)[i] = onchain[i]
      BY <1>5, ExecutionIs
    <2>2. M!Slice(m.code, i) = <<m.code[i]>> /\ M!Execution(m.code)[i] = m.code[i]
      BY <1>1, <1>4, ExecutionIs
    <2>3. M!Slice(m.code, i) = M!Slice(c.code, i)
      BY <1>4, <2>1
    <2>4. m.code[i] = onchain[i]
      BY <1>1, <2>1, <2>2
    <2> QED BY <2>2, <2>3, <2>4
  <1>7. r.match = "exact_match" => M!HasContentHash(onchain)
    BY <1>1, <1>2, <1>3, HashIsKept
  <1>8. M!OneValueEach(c, onchain) => M!Applied(c.code, r) = m.code
    BY <1>1, <1>2, <1>3, RebuiltIsFilled
  <1> QED BY <1>1, <1>6, <1>7, <1>8

\* A match, of any compilation with any code on the chain, names all that sets
\* the two apart: they differ in the slots of the compilation and in their
\* auxdata only, an exact match agrees on auxdata that has a content hash, and
\* the reported transformations, applied in their order with the values of their
\* names, turn the compiled code into the one on the chain.
THEOREM MatchesAreFaithful == AllSpec => []MatchIsFaithful
  <1>1. MatchInv => MatchIsFaithful
    <2> SUFFICES ASSUME MatchInv, matched.match \in {"match", "exact_match"}
                 PROVE  MatchIsFaithful
      BY DEF MatchIsFaithful, M!MatchIsFaithful
    <2>1. matched = M!matchBytecode(input.compilation, input.onchain)
      BY DEF MatchInv, M!NoResult
    <2>2. M!IsCompiled(input.compilation) /\ M!IsCode(input.onchain)
      BY MatchingAssumption DEF MatchInv
    <2> DEFINE c == input.compilation
               onchain == input.onchain
    <2> HIDE DEF c, onchain
    <2>3. /\ \A i \in DOMAIN M!Execution(onchain) \ M!Slots(c) :
                  M!Slice(c.code, i) = <<onchain[i]>>
          /\ matched.match = "exact_match" => M!HasContentHash(onchain)
          /\ M!OneValueEach(c, onchain) =>
                 /\ M!Execution(M!Applied(c.code, matched)) = M!Execution(onchain)
                 /\ matched.match = "exact_match" => M!Applied(c.code, matched) = onchain
      BY <2>1, <2>2, MatchedStep DEF c, onchain
    <2> QED BY <2>3, Zenon DEF MatchIsFaithful, M!MatchIsFaithful, c, onchain
  <1> QED BY <1>1, MatchAlways, PTL

=============================================================================
