---------------------------- MODULE ContentProofs ----------------------------
(***************************************************************************)
(* Proofs about the workers that publish content, of Content.              *)
(***************************************************************************)
EXTENDS Content, TLAPS

USE DocsAssumption

LEMMA TypeInit == Init => TypeOK
<1> SUFFICES ASSUME Init PROVE TypeOK
  OBVIOUS
<1>1. /\ items \in [Pages -> Content] /\ index \in [Pages -> Content]
      /\ prev \in [Pages -> Content] /\ next \in [Pages -> Content]
  BY DEF Init, Content, Nothing
<1>2. edits \in 0..MaxEdits /\ faults \in 0..MaxFaults
  BY DEF Init
<1>3. QED
  BY <1>1, <1>2 DEF Init, TypeOK

LEMMA TypeSync ==
    ASSUME TypeOK, NEW p \in Pages, SyncPage(p)
    PROVE  TypeOK'
<1> USE DEF TypeOK, Content
<1>1. /\ todo' \subseteq listed /\ UNCHANGED <<site, etag, index, pc, force, tagged, listed, prev, edits, astray, pair>>
  BY DEF SyncPage
<1>2. CASE PageRefused(p)
  BY <1>1, <1>2 DEF PageRefused
<1>3. CASE PageUnchanged(p)
  BY <1>1, <1>3 DEF PageUnchanged
<1>4. CASE PageUploaded(p)
  BY <1>1, <1>4 DEF PageUploaded
<1>5. CASE PageFailed(p)
  BY <1>1, <1>5 DEF PageFailed, Fault
<1>6. QED
  BY <1>2, <1>3, <1>4, <1>5 DEF SyncPage

LEMMA TypeNext == TypeOK /\ [Next]_vars => TypeOK'
<1> SUFFICES ASSUME TypeOK, [Next]_vars PROVE TypeOK'
  OBVIOUS
<1> USE DEF TypeOK, store, run, history, Goes, Discard
<1>1. CASE \E p \in Pages : Edit(p)
  BY <1>1 DEF Edit
<1>2. CASE \E f, t \in BOOLEAN : Start(f, t)
  BY <1>2 DEF Start, ToFetch, List, Nothing, Content
<1>3. CASE \E p \in Pages : SyncPage(p)
  BY <1>3, TypeSync
<1>4. CASE \E p \in Pages : DeleteItem(p)
  <2>1. PICK p \in Pages : DeleteItem(p)
    BY <1>4
  <2>2. prev' \in [Pages -> Content] /\ items' \in [Pages -> Content]
    BY <2>1 DEF DeleteItem, Content
  <2>3. faults' \in 0..MaxFaults
    <3>1. faults' = faults \/ (faults < MaxFaults /\ faults' = faults + 1)
      BY <2>1 DEF DeleteItem, Fault
    <3>2. QED
      BY <3>1
  <2>4. failed' = failed \/ failed' = TRUE
    BY <2>1 DEF DeleteItem, CountFailure
  <2>5. QED
    BY <2>1, <2>2, <2>3, <2>4 DEF DeleteItem
<1>5. CASE PagesDone
  BY <1>5 DEF PagesDone, AfterPages, Nothing, Content
<1>6. CASE DeletionsDone
  BY <1>6 DEF DeletionsDone, Nothing, Content
<1>7. CASE PutEtag
  BY <1>7 DEF PutEtag
<1>8. CASE PutIndex
  BY <1>8 DEF PutIndex
<1>9. CASE Interrupt
  <2>1. faults' \in 0..MaxFaults
    BY <1>9 DEF Interrupt, Fault
  <2>2. Nothing \in [Pages -> Content]
    BY DEF Nothing, Content
  <2>3. QED
    BY <1>9, <2>1, <2>2 DEF Interrupt
<1>10. CASE UNCHANGED vars
  BY <1>10 DEF vars
<1>11. QED
  BY <1>1, <1>2, <1>3, <1>4, <1>5, <1>6, <1>7, <1>8, <1>9, <1>10 DEF Next, Run

\* The variables have their types.
THEOREM DocsTypeCorrect == Spec => []TypeOK
BY TypeInit, TypeNext, PTL DEF Spec

-----------------------------------------------------------------------------
(* What a run knows of its pages.  Working is a run that has not failed or *)
(* ended: the pages it is through with have an entry, and no other page    *)
(* has one.                                                                *)

Past == {"deletions", "putEtag", "putIndex", "synced"}

Working == pc \in Past \/ (pc = "pages" /\ ~failed)

EntriesAreListed == \A p \in Pages : next[p] # Absent => p \in listed \ todo

DoneHaveEntries == Working => \A p \in listed \ todo : next[p] # Absent

ForcedDoneServed == Working /\ force => \A p \in listed \ todo : items[p] = next[p]

PastHasNoTodo == pc \in Past => todo = {}

RunInv ==
    /\ TypeOK
    /\ EntriesAreListed /\ DoneHaveEntries
    /\ ForcedDoneServed
    /\ PastHasNoTodo

LEMMA RunInit == Init => RunInv
BY TypeInit DEF Init, RunInv, EntriesAreListed, DoneHaveEntries, ForcedDoneServed,
   PastHasNoTodo, Working, Past, Nothing

LEMMA RunSync ==
    ASSUME RunInv, TypeOK', NEW p \in Pages, SyncPage(p)
    PROVE  RunInv'
<1> USE DEF RunInv, EntriesAreListed, DoneHaveEntries, ForcedDoneServed,
            PastHasNoTodo, Working, Past, TypeOK, Content
<1>1. /\ pc = "pages" /\ p \in todo /\ todo' = todo \ {p}
      /\ UNCHANGED <<site, etag, index, pc, force, tagged, listed, prev, edits, astray, pair>>
  BY DEF SyncPage
<1>2. CASE PageRefused(p)
  BY <1>1, <1>2 DEF PageRefused
<1>3. CASE PageUnchanged(p) /\ site[p] # Absent
  BY <1>1, <1>3 DEF PageUnchanged
<1>4. CASE PageUploaded(p) /\ site[p] # Absent
  BY <1>1, <1>4 DEF PageUploaded
<1>5. CASE PageFailed(p)
  BY <1>1, <1>5 DEF PageFailed
<1>6. QED
  BY <1>2, <1>3, <1>4, <1>5 DEF SyncPage

LEMMA RunNext == RunInv /\ [Next]_vars => RunInv'
<1> SUFFICES ASSUME RunInv, [Next]_vars PROVE RunInv'
  OBVIOUS
<1>t. TypeOK /\ TypeOK'
  BY TypeNext DEF RunInv
<1> USE <1>t DEF RunInv, EntriesAreListed, DoneHaveEntries, ForcedDoneServed,
                 PastHasNoTodo, Working, Past, store, run, history, Goes, Discard, Nothing
<1>1. CASE \E p \in Pages : Edit(p)
  BY <1>1 DEF Edit
<1>2. CASE \E f, t \in BOOLEAN : Start(f, t)
  BY <1>2 DEF Start, ToFetch, Nothing
<1>3. CASE \E p \in Pages : SyncPage(p)
  BY <1>3, RunSync
<1>4. CASE \E p \in Pages : DeleteItem(p)
  BY <1>4 DEF DeleteItem, CountFailure, Removed, TypeOK
<1>5. CASE PagesDone
  BY <1>5 DEF PagesDone, AfterPages
<1>6. CASE DeletionsDone
  BY <1>6 DEF DeletionsDone
<1>7. CASE PutEtag
  BY <1>7 DEF PutEtag
<1>8. CASE PutIndex
  BY <1>8 DEF PutIndex
<1>9. CASE Interrupt
  BY <1>9 DEF Interrupt
<1>10. CASE UNCHANGED vars
  BY <1>10 DEF vars
<1>11. QED
  BY <1>1, <1>2, <1>3, <1>4, <1>5, <1>6, <1>7, <1>8, <1>9, <1>10 DEF Next, Run

LEMMA RunAlways == Spec => []RunInv
BY RunInit, RunNext, PTL DEF Spec

-----------------------------------------------------------------------------
\* A clean forced run leaves every listed page in AI Search, for any number of
\* pages, changes of the site and failures before it.
THEOREM ForcedRunsRepair == Spec => []ForcedServesListed
<1>1. RunInv => ForcedServesListed
  BY DEF RunInv, ForcedDoneServed, DoneHaveEntries, PastHasNoTodo, Working, Past,
         ForcedServesListed
<1>2. QED
  BY <1>1, RunAlways, PTL

\* No run deletes the item of a page that it has seen listed.
THEOREM ListedItemsStay == Spec => ListedStays
<1>1. ASSUME RunInv, [Next]_vars
      PROVE  [\A p \in Pages :
                 items[p] # Absent /\ items'[p] = Absent => p \notin listed]_vars
  <2> SUFFICES ASSUME NEW p \in Pages, items[p] # Absent, items'[p] = Absent
               PROVE  p \notin listed
    OBVIOUS
  <2> USE <1>1
  <2> USE DEF RunInv, TypeOK, store, run
  <2>1. CASE \E q \in Pages : SyncPage(q)
    <3>1. PICK q \in Pages : SyncPage(q)
      BY <2>1
    <3>2. items' = items \/ (items' = [items EXCEPT ![q] = site[q]] /\ site[q] # Absent)
      BY <3>1 DEF SyncPage, PageRefused, PageUnchanged, PageUploaded, PageFailed, ToUpload
    <3>3. QED
      BY <3>2
  <2>2. CASE \E q \in Pages : DeleteItem(q)
    <3>1. PICK q \in Pages : DeleteItem(q)
      BY <2>2
    <3>2. p = q
      BY <3>1 DEF DeleteItem
    <3>3. QED
      BY <3>1, <3>2 DEF DeleteItem, Removed, DoneHaveEntries, PastHasNoTodo, Working, Past
  <2>3. CASE items' = items
    BY <2>3
  <2>4. QED
    BY <2>1, <2>2, <2>3 DEF Next, Run, vars, Edit, Start, PagesDone, DeletionsDone, PutEtag, PutIndex,
         Interrupt
<1>2. QED
  BY <1>1, RunAlways, PTL DEF Spec, ListedStays

-----------------------------------------------------------------------------
(* The records.  A run that has not failed knows of each item it has       *)
(* changed what it is now, and of the others what the index says; it       *)
(* stores that, the ETag first, when it is through with all pages.         *)

Clean == pc \in {"putEtag", "putIndex"} \/ (pc \in {"pages", "deletions"} /\ ~failed)

KnowsIndex ==
    /\ pc = "pages" => prev = index /\ changed \subseteq listed \ todo
    /\ pc = "deletions" => \A p \in Pages \ changed : prev[p] = index[p]

KnowsItems ==
    Clean => \A p \in Pages :
        /\ p \in changed => items[p] = next[p]
        /\ p \notin changed /\ next[p] # Absent => next[p] = index[p]

IsComplete == pc \in {"putEtag", "putIndex"} => \A p \in Pages \ changed : next[p] = index[p]

HasPutEtag == pc = "putIndex" /\ tagged => etag = {listed} /\ pair = "etag"

RecordInv == KnowsIndex /\ KnowsItems /\ IsComplete /\ HasPutEtag /\ RecordsAgree

LEMMA RecordInit == Init => RecordInv
BY DEF Init, RecordInv, KnowsIndex, KnowsItems, IsComplete, HasPutEtag, Clean,
       RecordsAgree, IndexDescribesEtag, EtagIsServed, ItemsAreRecorded

LEMMA RecordSync ==
    ASSUME RunInv, RecordInv, NEW p \in Pages, SyncPage(p)
    PROVE  RecordInv'
<1>1. /\ pc = "pages" /\ p \in todo /\ todo' = todo \ {p} /\ p \in listed
      /\ UNCHANGED <<site, etag, index, pc, force, tagged, listed, prev, edits, astray, pair>>
      /\ next[p] = Absent /\ p \notin changed /\ prev = index
  BY DEF SyncPage, RunInv, EntriesAreListed, TypeOK, RecordInv, KnowsIndex
<1>2. /\ items \in [Pages -> Content] /\ next \in [Pages -> Content] /\ failed \in BOOLEAN
      /\ site \in [Pages -> Content]
  BY DEF RunInv, TypeOK
<1>3. \/ PageRefused(p)
      \/ site[p] # Absent /\ (PageUnchanged(p) \/ PageUploaded(p) \/ PageFailed(p))
  BY DEF SyncPage
<1>4. /\ \/ items' = items /\ changed' = changed
         \/ /\ items' = [items EXCEPT ![p] = site[p]] /\ changed' = changed \cup {p}
            /\ site[p] # Absent
      /\ \/ failed' = TRUE
         \/ /\ failed' = failed
            /\ \/ next' = [next EXCEPT ![p] = prev[p]] /\ changed' = changed
               \/ /\ next' = [next EXCEPT ![p] = site[p]] /\ changed' = changed \cup {p}
                  /\ items' = [items EXCEPT ![p] = site[p]]
  BY <1>3 DEF PageRefused, PageUnchanged, PageUploaded, PageFailed
<1>5. KnowsIndex'
  BY <1>1, <1>4 DEF RecordInv, KnowsIndex
<1>6. KnowsItems'
  BY <1>1, <1>2, <1>4 DEF RecordInv, KnowsItems, Clean
<1>7. IsComplete' /\ HasPutEtag'
  BY <1>1 DEF IsComplete, HasPutEtag
<1>8. RecordsAgree'
  <2>1. IndexDescribesEtag'
    BY <1>1 DEF RecordInv, RecordsAgree, IndexDescribesEtag, Entries
  <2>2. ItemsAreRecorded'
    BY <1>1, <1>2, <1>4 DEF RecordInv, RecordsAgree, ItemsAreRecorded
  <2>3. \A q \in Pages : items'[q] = Absent => items[q] = Absent
    BY <1>2, <1>4
  <2>4. changed \cup astray \subseteq changed' \cup astray'
    BY <1>1, <1>4
  <2>5. etag \subseteq SUBSET Pages
    BY DEF RunInv, TypeOK
  <2>6. EtagIsServed'
    BY <1>1, <2>3, <2>4, <2>5 DEF RecordInv, RecordsAgree, EtagIsServed
  <2>7. QED
    BY <2>1, <2>2, <2>6 DEF RecordsAgree
<1>9. QED
  BY <1>5, <1>6, <1>7, <1>8 DEF RecordInv

LEMMA RecordDelete ==
    ASSUME RunInv, RecordInv, NEW p \in Pages, DeleteItem(p)
    PROVE  RecordInv'
<1>1. /\ pc = "deletions" /\ next[p] = Absent /\ prev' = [prev EXCEPT ![p] = Absent]
      /\ changed' = changed \cup {p}
      /\ UNCHANGED <<site, etag, index, pc, force, tagged, listed, todo, next, edits, astray, pair>>
  BY DEF DeleteItem, Removed
<1>2. /\ items \in [Pages -> Content] /\ prev \in [Pages -> Content] /\ failed \in BOOLEAN
  BY DEF RunInv, TypeOK
<1>3. /\ items' = items \/ items' = [items EXCEPT ![p] = Absent]
      /\ \/ failed' = TRUE
         \/ failed' = failed /\ items' = [items EXCEPT ![p] = Absent]
  BY DEF DeleteItem, CountFailure
<1>4. KnowsIndex'
  BY <1>1, <1>2 DEF RecordInv, KnowsIndex
<1>5. KnowsItems'
  BY <1>1, <1>2, <1>3 DEF RecordInv, KnowsItems, Clean
<1>6. IsComplete' /\ HasPutEtag'
  BY <1>1 DEF IsComplete, HasPutEtag
<1>7. RecordsAgree'
  <2>1. IndexDescribesEtag'
    BY <1>1 DEF RecordInv, RecordsAgree, IndexDescribesEtag, Entries
  <2>2. ItemsAreRecorded'
    BY <1>1, <1>2, <1>3 DEF RecordInv, RecordsAgree, ItemsAreRecorded
  <2>3. \A q \in Pages : items'[q] = Absent => items[q] = Absent \/ q \in changed'
    BY <1>1, <1>2, <1>3
  <2>4. etag \subseteq SUBSET Pages
    BY DEF RunInv, TypeOK
  <2>5. EtagIsServed'
    BY <1>1, <2>3, <2>4 DEF RecordInv, RecordsAgree, EtagIsServed
  <2>6. QED
    BY <2>1, <2>2, <2>5 DEF RecordsAgree
<1>8. QED
  BY <1>4, <1>5, <1>6, <1>7 DEF RecordInv

\* The ETag goes in first: every page of its list is served.
LEMMA RecordEtag ==
    ASSUME RunInv, RecordInv, PutEtag
    PROVE  RecordInv'
<1>1. /\ pc = "putEtag" /\ pc' = "putIndex" /\ etag' = {listed} /\ pair' = "etag"
      /\ UNCHANGED <<items, index, listed, todo, prev, next, failed, tagged, changed, astray>>
  BY DEF PutEtag, run
<1>2. \A p \in listed : p \in Pages /\ next[p] # Absent
  BY <1>1 DEF RunInv, TypeOK, DoneHaveEntries, PastHasNoTodo, Working, Past
<1>3. \A p \in listed : items[p] = Absent => p \in changed \cup astray
  BY <1>1, <1>2 DEF RecordInv, IsComplete, RecordsAgree, ItemsAreRecorded
<1>4. KnowsIndex' /\ KnowsItems' /\ IsComplete' /\ HasPutEtag'
  BY <1>1 DEF RecordInv, KnowsIndex, KnowsItems, IsComplete, HasPutEtag, Clean
<1>5. RecordsAgree'
  BY <1>1, <1>3 DEF RecordInv, RecordsAgree, IndexDescribesEtag, EtagIsServed, ItemsAreRecorded
<1>6. QED
  BY <1>4, <1>5 DEF RecordInv

\* Then the index, which records what the run has changed.
LEMMA RecordIndex ==
    ASSUME RunInv, RecordInv, PutIndex
    PROVE  RecordInv'
<1>1. /\ pc = "putIndex" /\ pc' = "synced" /\ index' = next
      /\ pair' = (IF tagged THEN "both" ELSE "index")
      /\ astray' = astray \ changed /\ changed' = {}
      /\ UNCHANGED <<items, etag, listed, todo, next, failed, tagged>>
  BY DEF PutIndex, run
<1>2. listed = Entries(next) /\ \A p \in listed : next[p] # Absent
  BY <1>1 DEF Entries, RunInv, TypeOK, EntriesAreListed, DoneHaveEntries, PastHasNoTodo,
              Working, Past
<1>3. \A p \in Pages : items[p] # next[p] => p \in astray \ changed
  BY <1>1 DEF RecordInv, KnowsItems, Clean, IsComplete, RecordsAgree, ItemsAreRecorded
<1>4. KnowsIndex' /\ KnowsItems' /\ IsComplete' /\ HasPutEtag'
  BY <1>1 DEF KnowsIndex, KnowsItems, IsComplete, HasPutEtag, Clean
<1>5. IndexDescribesEtag'
  BY <1>1, <1>2 DEF RecordInv, HasPutEtag, IndexDescribesEtag, Entries
<1>6. EtagIsServed'
  <2>1. pair' # "index" => etag' = {listed}
    BY <1>1 DEF RecordInv, HasPutEtag
  <2>2. \A p \in listed : p \in Pages
    BY DEF RunInv, TypeOK
  <2>3. \A p \in listed : items[p] = Absent => p \in astray \ changed
    BY <1>2, <1>3, <2>2
  <2>4. QED
    BY <1>1, <2>1, <2>3 DEF EtagIsServed
<1>7. ItemsAreRecorded'
  BY <1>1, <1>3 DEF ItemsAreRecorded
<1>8. QED
  BY <1>4, <1>5, <1>6, <1>7 DEF RecordInv, RecordsAgree

LEMMA RecordNext == RunInv /\ RecordInv /\ [Next]_vars => RecordInv'
<1> SUFFICES ASSUME RunInv, RecordInv, [Next]_vars PROVE RecordInv'
  OBVIOUS
<1> USE DEF RecordInv, KnowsIndex, KnowsItems, IsComplete, HasPutEtag, Clean, RecordsAgree,
            IndexDescribesEtag, Entries, EtagIsServed, ItemsAreRecorded, store, run, history,
            Goes, Discard
<1>1. CASE \E p \in Pages : Edit(p)
  BY <1>1 DEF Edit
<1>2. CASE \E f, t \in BOOLEAN : Start(f, t)
  BY <1>2 DEF Start, Nothing
<1>3. CASE \E p \in Pages : SyncPage(p)
  BY <1>3, RecordSync
<1>4. CASE \E p \in Pages : DeleteItem(p)
  BY <1>4, RecordDelete
<1>5. CASE PagesDone
  BY <1>5 DEF PagesDone, AfterPages
<1>6. CASE DeletionsDone
  <2>1. Removed = {} => \A p \in Pages : prev[p] = Absent \/ next[p] # Absent
    BY DEF Removed
  <2>2. CASE failed
    BY <1>6, <2>2 DEF DeletionsDone
  <2>3. CASE ~failed
    <3>1. \A p \in Pages \ changed : next[p] = index[p]
      BY <1>6, <2>1, <2>3 DEF DeletionsDone
    <3>2. /\ pc' = (IF tagged THEN "putEtag" ELSE "putIndex") /\ UNCHANGED <<store, run, history>>
      BY <1>6, <2>3 DEF DeletionsDone
    <3>3. pc = "deletions"
      BY <1>6 DEF DeletionsDone
    <3>4. QED
      BY <2>3, <3>1, <3>2, <3>3
  <2>4. QED
    BY <2>2, <2>3
<1>7. CASE PutEtag
  BY <1>7, RecordEtag
<1>8. CASE PutIndex
  BY <1>8, RecordIndex
<1>9. CASE Interrupt
  BY <1>9 DEF Interrupt
<1>10. CASE UNCHANGED vars
  BY <1>10 DEF vars
<1>11. QED
  BY <1>1, <1>2, <1>3, <1>4, <1>5, <1>6, <1>7, <1>8, <1>9, <1>10 DEF Next, Run

\* However calls fail and runs are cut off, and whether or not the site sends
\* ETags: an ETag that was stored with its index stands for the pages that the
\* index lists, one that was stored before its index for pages that are served,
\* and AI Search departs from the index only in pages that a run has changed
\* without recording it.
THEOREM RecordsAlwaysAgree == Spec => []RecordsAgree
<1>1. RecordInv => RecordsAgree
  BY DEF RecordInv
<1>2. QED
  BY <1>1, RecordInit, RecordNext, RunAlways, PTL DEF Spec

-----------------------------------------------------------------------------
(* The search.  However searches are shared, cached and marked, a question *)
(* is answered with chunks of the sources it wants that are recent enough, *)
(* and whoever waits has a search to wait for.  A result is cached under   *)
(* two keys, of which one is not that of its search: what makes both right *)
(* is that they name the same sources.                                     *)

USE ContentAssumption DEF Q!Time

Shape ==
    /\ now \in Q!Time
    /\ searchResultCache \in [Q!Keys -> Q!Results \cup {Absent}]
    /\ searchInFlight \in [Q!Keys -> Q!Searches \cup {Absent}]
    /\ asking \in [Questions -> Q!Progress]

\* What is cached for a key is of its sources, and was found before now.
OfItsKey(k) ==
    searchResultCache[k] # Absent =>
        /\ searchResultCache[k].found <= now
        /\ k.sources # {} => searchResultCache[k].chunks \subseteq k.sources

\* A question that waits has a search for what it wants; one that is answered
\* has chunks of that, found since it came or recent by then.
IsServed(r) ==
    /\ asking[r].since <= now
    /\ asking[r].pc = "waits" =>
         /\ asking[r].key \in Q!Keys /\ asking[r].key.sources = Wanted[r]
         /\ searchInFlight[asking[r].key] # Absent
    /\ asking[r].pc = "done" =>
         /\ Wanted[r] # {} => asking[r].answer.chunks \subseteq Wanted[r]
         /\ asking[r].answer.found + SEARCH_RESULT_CACHE_TTL > asking[r].since

SearchInv ==
    /\ Shape
    /\ \A k \in Q!Keys : OfItsKey(k)
    /\ \A r \in Questions : IsServed(r)

-----------------------------------------------------------------------------
\* The key of a question names the sources that it wants.
LEMMA KeyNamesSources ==
    ASSUME NEW r \in Questions
    PROVE  /\ Q!searchCacheKey(Wanted[r]) \in Q!Keys
           /\ Q!searchCacheKey(Wanted[r]).sources = Wanted[r]
  <1> DEFINE filtered == ~Q!shouldSkipSourceFilter(Wanted[r])
  <1>1. filtered \in BOOLEAN
    BY Zenon DEF Q!shouldSkipSourceFilter
  <1>2. Q!searchCacheKey(Wanted[r]) = [sources |-> Wanted[r], filtered |-> filtered]
    BY Zenon DEF Q!searchCacheKey
  <1> HIDE DEF filtered
  <1> QED BY <1>1, <1>2 DEF Q!Keys

LEMMA InitSearchInv == Q!Init => SearchInv
  <1> SUFFICES ASSUME Q!Init PROVE SearchInv
    OBVIOUS
  <1>1. Q!New \in Q!Progress /\ Q!New.since = 0 /\ Q!New.pc = "new"
    BY DEF Q!New, Q!Progress
  <1>2. Shape
    BY <1>1 DEF Q!Init, Shape
  <1>3. ASSUME NEW k \in Q!Keys PROVE OfItsKey(k)
    BY <1>3 DEF Q!Init, OfItsKey
  <1>4. ASSUME NEW r \in Questions PROVE IsServed(r)
    BY <1>1, <1>4 DEF Q!Init, IsServed
  <1> QED BY <1>2, <1>3, <1>4 DEF SearchInv

\* Chunks of the sources of a search answer and are cached for all that share it.
LEMMA AnsweredKeeps ==
    ASSUME SearchInv, NEW key \in Q!Keys, NEW chunks \in SUBSET Sources, NEW marks,
           key.sources # {} => chunks \subseteq key.sources,
           Q!Answered(key, chunks, marks), UNCHANGED now
    PROVE  SearchInv'
  <1> DEFINE result == [chunks |-> chunks, found |-> now]
             skips == key.sources # {} /\ \A s \in key.sources : marks[s] > now
             other == [key EXCEPT !.filtered = ~skips]
  <1>1. now \in Q!Time /\ result \in Q!Results
    BY DEF SearchInv, Shape, Q!Results
  <1>2. other.sources = key.sources
    BY DEF Q!Keys
  <1>3. /\ searchResultCache' = [k \in Q!Keys |-> IF k \in {key, other} THEN result
                                                ELSE searchResultCache[k]]
        /\ searchInFlight' = [searchInFlight EXCEPT ![key] = Absent]
        /\ asking' = [r \in Questions |->
               IF asking[r].pc = "waits" /\ asking[r].key = key
               THEN [asking[r] EXCEPT !.pc = "done", !.answer = result]
               ELSE asking[r]]
    BY Zenon DEF Q!Answered
  <1> HIDE DEF result, other
  <1>4. Shape'
    <2>1. \A r \in Questions :
            [asking[r] EXCEPT !.pc = "done", !.answer = result] \in Q!Progress
      BY ZenonT(30), <1>1 DEF SearchInv, Shape, Q!Progress
    <2> QED BY <1>1, <1>3, <2>1 DEF SearchInv, Shape
  <1>5. ASSUME NEW k \in Q!Keys PROVE OfItsKey(k)'
    <2>1. result.found = now /\ result.chunks = chunks
      BY DEF result
    <2>2. CASE k \in {key, other}
      <3>1. searchResultCache'[k] = result
        BY <1>3, <2>2
      <3>2. k.sources = key.sources
        BY <1>2, <2>2
      <3>3. now <= now'
        BY <1>1
      <3> QED BY <2>1, <3>1, <3>2, <3>3 DEF OfItsKey
    <2>3. CASE k \notin {key, other}
      BY <1>3, <2>3 DEF OfItsKey, SearchInv
    <2> QED BY <2>2, <2>3
  <1>6. ASSUME NEW r \in Questions PROVE IsServed(r)'
    <2>0. asking[r] \in Q!Progress /\ IsServed(r)
      BY DEF SearchInv, Shape
    <2>1. CASE asking[r].pc = "waits" /\ asking[r].key = key
      <3>1. asking'[r] = [asking[r] EXCEPT !.pc = "done", !.answer = result]
        BY <1>3, <2>1
      <3>2. /\ asking'[r].pc = "done" /\ asking'[r].since = asking[r].since
            /\ asking'[r].answer = result
        BY <2>0, <3>1 DEF Q!Progress
      <3>3. result.found = now /\ result.chunks = chunks
        BY DEF result
      <3>4. asking[r].since \in Q!Time /\ asking[r].since <= now
        BY <2>0 DEF Q!Progress, IsServed
      <3>5. key.sources = Wanted[r]
        BY <2>0, <2>1 DEF IsServed
      <3>6. now + SEARCH_RESULT_CACHE_TTL > asking[r].since
        BY <1>1, <3>4
      <3>7. asking'[r].since <= now'
        BY <3>2, <3>4
      <3> QED BY <3>2, <3>3, <3>5, <3>6, <3>7 DEF IsServed
    <2>2. CASE ~(asking[r].pc = "waits" /\ asking[r].key = key)
      <3>1. asking'[r] = asking[r]
        BY <1>3, <2>2
      <3> QED BY <1>3, <2>0, <2>2, <3>1 DEF IsServed, SearchInv, Shape
    <2> QED BY <2>1, <2>2
  <1> QED BY <1>4, <1>5, <1>6 DEF SearchInv

\* A search that goes on is still there for whoever waits for it.
LEMMA GoingOnKeeps ==
    ASSUME SearchInv, NEW key \in Q!Keys, searchInFlight[key] # Absent,
           NEW s \in {"fallback", "local"},
           searchInFlight' = [searchInFlight EXCEPT ![key].step = s],
           UNCHANGED <<now, searchResultCache, asking>>
    PROVE  SearchInv'
  <1>1. [searchInFlight[key] EXCEPT !.step = s] \in Q!Searches
    BY DEF SearchInv, Shape, Q!Searches
  <1>2. Shape'
    BY <1>1 DEF SearchInv, Shape
  <1>3. ASSUME NEW k \in Q!Keys, searchInFlight[k] # Absent PROVE searchInFlight'[k] # Absent
    BY <1>1, <1>3 DEF SearchInv, Shape
  <1>4. ASSUME NEW r \in Questions PROVE IsServed(r)'
    <2>1. IsServed(r)
      BY DEF SearchInv
    <2> QED BY <1>3, <2>1 DEF IsServed
  <1>5. ASSUME NEW k \in Q!Keys PROVE OfItsKey(k)'
    BY <1>5 DEF SearchInv, OfItsKey
  <1> QED BY <1>2, <1>4, <1>5 DEF SearchInv

LEMMA FoundKeeps ==
    ASSUME SearchInv, NEW key \in Q!Keys, NEW chunks \in SUBSET Sources,
           key.sources # {} => chunks \subseteq key.sources,
           searchInFlight[key] # Absent, Q!Found(key, chunks), UNCHANGED now
    PROVE  SearchInv'
  <1>1. CASE Q!Answered(key, chunks, sourceFilterFallbackUntil)
    BY <1>1, AnsweredKeeps
  <1>2. CASE /\ searchInFlight' = [searchInFlight EXCEPT ![key].step = "local"]
             /\ UNCHANGED <<searchResultCache, asking>>
    BY <1>2, GoingOnKeeps
  <1> QED BY <1>1, <1>2 DEF Q!Found

LEMMA AskKeeps == ASSUME SearchInv, NEW r \in Questions, Q!Ask(r) PROVE SearchInv'
  <1> DEFINE key == Q!searchCacheKey(Wanted[r])
             asked == [Q!New EXCEPT !.key = key, !.since = now]
             cached == [asked EXCEPT !.pc = "done", !.answer = searchResultCache[key]]
             waiting == [asked EXCEPT !.pc = "waits"]
  <1>1. key \in Q!Keys /\ key.sources = Wanted[r]
    BY KeyNamesSources
  <1>2. now \in Q!Time /\ UNCHANGED now
    BY DEF SearchInv, Shape, Q!Ask
  <1>3. /\ asked \in Q!Progress /\ asked.key = key /\ asked.since = now
        /\ waiting \in Q!Progress /\ waiting.key = key /\ waiting.since = now
        /\ waiting.pc = "waits"
        /\ cached.pc = "done" /\ cached.answer = searchResultCache[key]
        /\ cached.since = now /\ cached \in Q!Progress
    BY <1>1, <1>2 DEF Q!New, Q!Progress, SearchInv, Shape
  <1>4. CASE /\ Q!isFresh(searchResultCache[key])
             /\ asking' = [asking EXCEPT ![r] = cached]
             /\ UNCHANGED <<searchResultCache, searchInFlight>>
    <2>1. Shape'
      BY <1>2, <1>3, <1>4 DEF SearchInv, Shape
    <2>2. ASSUME NEW k \in Q!Keys PROVE OfItsKey(k)'
      BY <1>2, <1>4 DEF SearchInv, OfItsKey
    <2>3. ASSUME NEW q \in Questions PROVE IsServed(q)'
      <3>1. IsServed(q) /\ OfItsKey(key)
        BY <1>1 DEF SearchInv
      <3>2. CASE q # r
        <4>1. asking'[q] = asking[q]
          BY <1>4, <3>2 DEF SearchInv, Shape
        <4> QED BY <1>2, <1>4, <3>1, <4>1 DEF IsServed
      <3>3. CASE q = r
        <4>1. asking'[q] = cached
          BY <1>4, <3>3 DEF SearchInv, Shape
        <4>2. searchResultCache[key] # Absent
              /\ searchResultCache[key].found + SEARCH_RESULT_CACHE_TTL > now
          BY <1>4 DEF Q!isFresh
        <4> HIDE DEF cached, key
        <4> QED BY <1>1, <1>2, <1>3, <3>1, <3>3, <4>1, <4>2 DEF IsServed, OfItsKey
      <3> QED BY <3>2, <3>3
    <2> QED BY <2>1, <2>2, <2>3 DEF SearchInv
  <1>5. CASE /\ asking' = [asking EXCEPT ![r] = waiting]
             /\ searchResultCache' = [searchResultCache EXCEPT ![key] = Absent]
             /\ searchInFlight' = IF searchInFlight[key] # Absent THEN searchInFlight
                  ELSE [searchInFlight EXCEPT ![key] = [step |-> "primary", raw |-> r \in Raw]]
    <2> DEFINE started == [step |-> "primary", raw |-> r \in Raw]
    <2>1. started \in Q!Searches
      <3>1. CASE r \in Raw
        BY <3>1 DEF Q!Searches
      <3>2. CASE r \notin Raw
        BY <3>2 DEF Q!Searches
      <3> QED BY <3>1, <3>2
    <2> HIDE DEF started, key, waiting, asked, cached
    <2>2. searchInFlight' = IF searchInFlight[key] # Absent THEN searchInFlight
                  ELSE [searchInFlight EXCEPT ![key] = started]
      BY <1>5, Zenon DEF started
    <2>3. Shape'
      <3>1. asking' \in [Questions -> Q!Progress]
        BY <1>3, <1>5 DEF SearchInv, Shape
      <3>2. searchResultCache' \in [Q!Keys -> Q!Results \cup {Absent}]
        BY <1>1, <1>5 DEF SearchInv, Shape
      <3>3. searchInFlight' \in [Q!Keys -> Q!Searches \cup {Absent}]
        BY <1>1, <2>1, <2>2 DEF SearchInv, Shape
      <3> QED BY <1>2, <3>1, <3>2, <3>3 DEF Shape
    <2>4. /\ searchInFlight'[key] # Absent
          /\ \A k \in Q!Keys : searchInFlight[k] # Absent => searchInFlight'[k] # Absent
      BY <1>1, <2>1, <2>2 DEF SearchInv, Shape
    <2>5. ASSUME NEW k \in Q!Keys PROVE OfItsKey(k)'
      BY <1>1, <1>2, <1>5 DEF SearchInv, OfItsKey, Shape
    <2>6. ASSUME NEW q \in Questions PROVE IsServed(q)'
      <3>1. IsServed(q)
        BY DEF SearchInv
      <3>2. CASE q # r
        <4>1. asking'[q] = asking[q]
          BY <1>5, <3>2 DEF SearchInv, Shape
        <4> QED BY <1>2, <2>4, <3>1, <4>1 DEF IsServed
      <3>3. CASE q = r
        <4>1. asking'[q] = waiting
          BY <1>5, <3>3 DEF SearchInv, Shape
        <4> QED BY <1>1, <1>2, <1>3, <2>4, <3>3, <4>1 DEF IsServed
      <3> QED BY <3>2, <3>3
    <2> QED BY <2>3, <2>5, <2>6 DEF SearchInv
  <1> QED BY <1>4, <1>5 DEF Q!Ask

LEMMA SearchKeeps ==
    ASSUME SearchInv, NEW key \in Q!Keys, NEW chunks \in SUBSET Sources,
           Q!Primary(key, chunks) \/ Q!Fallback(key, chunks) \/ Q!Local(key, chunks)
    PROVE  SearchInv'
  <1>0. /\ Q!filterSourceChunks(chunks, key.sources) \in SUBSET Sources
        /\ key.sources # {} => Q!filterSourceChunks(chunks, key.sources) \subseteq key.sources
    BY DEF Q!filterSourceChunks
  <1>1. CASE Q!Primary(key, chunks)
    <2> DEFINE found == IF key.filtered THEN chunks
                                        ELSE Q!filterSourceChunks(chunks, key.sources)
    <2>1. /\ found \in SUBSET Sources
          /\ key.sources # {} => found \subseteq key.sources
      BY <1>0, <1>1 DEF Q!Primary
    <2>2. searchInFlight[key] # Absent /\ UNCHANGED now
      BY <1>1 DEF Q!Primary
    <2>3. CASE Q!Found(key, found)
      BY <2>1, <2>2, <2>3, FoundKeeps
    <2>4. CASE /\ searchInFlight' = [searchInFlight EXCEPT ![key].step = "fallback"]
               /\ UNCHANGED <<searchResultCache, asking>>
      BY <2>2, <2>4, GoingOnKeeps
    <2> QED BY <1>1, <2>3, <2>4 DEF Q!Primary
  <1>2. CASE Q!Fallback(key, chunks)
    BY <1>0, <1>2, FoundKeeps DEF Q!Fallback
  <1>3. CASE Q!Local(key, chunks)
    BY <1>3, AnsweredKeeps DEF Q!Local
  <1> QED BY <1>1, <1>2, <1>3

LEMMA FailKeeps == ASSUME SearchInv, NEW key \in Q!Keys, Q!Fail(key) PROVE SearchInv'
  <1>1. \A r \in Questions : [asking[r] EXCEPT !.pc = "failed"] \in Q!Progress
    BY DEF SearchInv, Shape, Q!Progress
  <1>2. Shape'
    BY <1>1 DEF Q!Fail, SearchInv, Shape
  <1>3. ASSUME NEW k \in Q!Keys PROVE OfItsKey(k)'
    BY <1>3 DEF Q!Fail, SearchInv, OfItsKey
  <1>4. ASSUME NEW r \in Questions PROVE IsServed(r)'
    <2>0. asking[r] \in Q!Progress /\ IsServed(r)
      BY DEF SearchInv, Shape
    <2>1. CASE asking[r].pc = "waits" /\ asking[r].key = key
      <3>1. asking'[r] = [asking[r] EXCEPT !.pc = "failed"]
        BY <2>1 DEF Q!Fail
      <3>2. asking'[r].pc = "failed" /\ asking'[r].since = asking[r].since
        BY <2>0, <3>1 DEF Q!Progress
      <3> QED BY <2>0, <3>2 DEF IsServed, Q!Fail
    <2>2. CASE ~(asking[r].pc = "waits" /\ asking[r].key = key)
      <3>1. asking'[r] = asking[r]
        BY <2>2 DEF Q!Fail
      <3> QED BY <2>0, <2>2, <3>1 DEF IsServed, Q!Fail, SearchInv, Shape
    <2> QED BY <2>1, <2>2
  <1> QED BY <1>2, <1>3, <1>4 DEF SearchInv

LEMMA NextSearchInv == ASSUME SearchInv, [Q!Next]_Q!vars PROVE SearchInv'
  <1>1. CASE Q!Tick
    <2>1. Shape'
      BY <1>1 DEF Q!Tick, SearchInv, Shape
    <2>2. ASSUME NEW k \in Q!Keys PROVE OfItsKey(k)'
      <3>1. OfItsKey(k) /\ (searchResultCache[k] # Absent => searchResultCache[k].found \in Q!Time)
        BY DEF SearchInv, Shape, Q!Results
      <3> QED BY <1>1, <3>1 DEF Q!Tick, SearchInv, Shape, OfItsKey
    <2>3. ASSUME NEW r \in Questions PROVE IsServed(r)'
      <3>1. IsServed(r) /\ asking[r].since \in Q!Time
        BY DEF SearchInv, Shape, Q!Progress
      <3> QED BY <1>1, <3>1 DEF Q!Tick, SearchInv, Shape, IsServed
    <2> QED BY <2>1, <2>2, <2>3 DEF SearchInv
  <1>2. ASSUME NEW r \in Questions, Q!Ask(r) PROVE SearchInv'
    BY <1>2, AskKeeps
  <1>3. ASSUME NEW key \in Q!Keys, Q!Fail(key) PROVE SearchInv'
    BY <1>3, FailKeeps
  <1>4. ASSUME NEW key \in Q!Keys, Q!Evict(key) PROVE SearchInv'
    <2>1. Shape'
      BY <1>4 DEF Q!Evict, SearchInv, Shape
    <2>2. ASSUME NEW k \in Q!Keys PROVE OfItsKey(k)'
      BY <1>4 DEF Q!Evict, SearchInv, Shape, OfItsKey
    <2>3. ASSUME NEW r \in Questions PROVE IsServed(r)'
      BY <1>4 DEF Q!Evict, SearchInv, IsServed
    <2> QED BY <2>1, <2>2, <2>3 DEF SearchInv
  <1>5. ASSUME NEW key \in Q!Keys, NEW chunks \in SUBSET Sources,
               Q!Primary(key, chunks) \/ Q!Fallback(key, chunks) \/ Q!Local(key, chunks)
        PROVE  SearchInv'
    BY <1>5, SearchKeeps
  <1>6. CASE UNCHANGED Q!vars
    BY <1>6 DEF Q!vars, SearchInv, Shape, OfItsKey, IsServed
  <1> QED BY <1>1, <1>2, <1>3, <1>4, <1>5, <1>6 DEF Q!Next

\* The marks of stale filters are times, too.
MarksOK ==
    sourceFilterFallbackUntil \in [Sources -> 0..(MaxTime + FILTER_FALLBACK_TTL)]

LEMMA MarksNext ==
    ASSUME SearchInv, MarksOK, [Q!Next]_(Q!vars) PROVE MarksOK'
  <1>1. now \in 0..MaxTime
    BY DEF SearchInv, Shape
  <1>2. \/ UNCHANGED sourceFilterFallbackUntil
        \/ \E key \in Q!Keys : sourceFilterFallbackUntil' =
             [s \in Sources |-> IF s \in key.sources THEN now + FILTER_FALLBACK_TTL
                                ELSE sourceFilterFallbackUntil[s]]
    BY Zenon DEF Q!Next, Q!vars, Q!Tick, Q!Ask, Q!Fail, Q!Evict, Q!Primary, Q!Fallback, Q!Local
  <1>3. now + FILTER_FALLBACK_TTL \in 0..(MaxTime + FILTER_FALLBACK_TTL)
    BY <1>1
  <1> QED BY <1>2, <1>3 DEF MarksOK

LEMMA SearchStep ==
    ASSUME SearchInv, MarksOK, [AllNext]_allVars PROVE SearchInv' /\ MarksOK'
  <1>1. [Q!Next]_(Q!vars)
    BY Zenon DEF AllNext, allVars, partVars, searchVars, Q!vars
  <1> QED BY <1>1, NextSearchInv, MarksNext

LEMMA SearchAlways == AllSpec => [](SearchInv /\ MarksOK)
  <1>1. AllInit => SearchInv /\ MarksOK
    <2> SUFFICES ASSUME AllInit PROVE SearchInv /\ MarksOK
      OBVIOUS
    <2>1. SearchInv
      BY InitSearchInv DEF AllInit
    <2>2. MarksOK
      BY DEF AllInit, Q!Init, MarksOK
    <2> QED BY <2>1, <2>2
  <1> QED BY <1>1, SearchStep, PTL DEF AllSpec

\* For any sources, questions and times a question is answered with recent chunks
\* of the sources it wants only, and whoever waits has a search to wait for,
\* whichever searches are shared, cached, marked or fail (cachedSearch).
THEOREM SearchAnswersAreWanted == AllSpec => []AnswersAreWanted
  <1>1. SearchInv => AnswersAreWanted
    BY DEF SearchInv, IsServed, AnswersAreWanted, Q!AnswersAreWanted
  <1> QED BY <1>1, SearchAlways, PTL

-----------------------------------------------------------------------------
(* The documentation index goes its way in the composition as it does alone. *)

LEMMA DocsPart == AllSpec => Spec
  <1>1. AllInit => Init
    BY DEF AllInit
  <1>2. [AllNext]_allVars => [Next]_vars
    BY DEF AllNext, allVars
  <1> QED BY <1>1, <1>2, PTL DEF AllSpec, Spec

-----------------------------------------------------------------------------
(* The pages of the snapshot viewer: their types *)

Shown == P!Listings \cup {Absent}
Pending == [pc : {"idle", "full", "index", "refill", "scan", "render"}, got : Shown]

PagesTyped ==
    /\ dirs \subseteq P!Snapshots /\ finished \subseteq dirs
    /\ stored \in Shown
    /\ cache \in [P!Caches -> Shown]
    /\ cron \in P!Processes /\ scan \in P!Processes
    /\ request \in [Visits -> Pending]
    /\ failures \in 0..MaxFailures

LEMMA PagesInit == P!Init => PagesTyped
  <1> SUFFICES ASSUME P!Init PROVE PagesTyped
    OBVIOUS
  <1>1. /\ dirs \subseteq P!Snapshots /\ finished \subseteq dirs
        /\ failures \in 0..MaxFailures /\ stored \in Shown
    BY DEF P!Init, P!Snapshots, P!Listings, Shown
  <1>2. cache \in [P!Caches -> Shown]
    BY DEF P!Init, Shown
  <1>3. cron \in P!Processes /\ scan \in P!Processes
    BY DEF P!Init, P!Idle, P!Processes, P!Listings
  <1>4. request \in [Visits -> Pending]
    BY DEF P!Init, P!Done, Pending, Shown
  <1> QED BY <1>1, <1>2, <1>3, <1>4 DEF PagesTyped

\* What a scan finds are snapshots, whoever scans.
LEMMA ScanTypes ==
    ASSUME PagesTyped, NEW p \in P!Processes, NEW q,
           P!Selects(p, q) \/ P!Loads(p, q) \/ P!WritesIndex(p, q)
    PROVE  q \in P!Processes
  <1>1. P!Recent(dirs) \in P!Listings
    BY DEF PagesTyped, P!Listings, P!Recent
  <1>2. \A d : (p.found \cap finished) \ {d} \in P!Listings
    BY DEF P!Processes, P!Listings
  <1>3. CASE P!Selects(p, q)
    BY <1>1, <1>3 DEF P!Selects, P!Processes
  <1>4. CASE P!Loads(p, q)
    <2>1. p.found \cap finished \in P!Listings
      BY DEF P!Processes, P!Listings
    <2>2. /\ p.pc = "loading"
          /\ \/ q = [pc |-> "index", found |-> p.found \cap finished]
             \/ \E d : q = [pc |-> "index", found |-> (p.found \cap finished) \ {d}]
      BY <1>4, Zenon DEF P!Loads
    <2>3. CASE q = [pc |-> "index", found |-> p.found \cap finished]
      BY <2>1, <2>3 DEF P!Processes
    <2>4. ASSUME NEW d, q = [pc |-> "index", found |-> (p.found \cap finished) \ {d}]
          PROVE  q \in P!Processes
      BY <1>2, <2>4 DEF P!Processes
    <2> QED BY <2>2, <2>3, <2>4
  <1>5. CASE P!WritesIndex(p, q)
    BY <1>5 DEF P!WritesIndex, P!Processes
  <1> QED BY <1>3, <1>4, <1>5

LEMMA FaultTypes ==
    ASSUME PagesTyped, P!Fault \/ UNCHANGED failures PROVE failures' \in 0..MaxFailures
  BY DEF PagesTyped, P!Fault

\* A request that goes on has a listing or none.
LEMMA PendingTypes ==
    ASSUME NEW r \in Visits, NEW l \in Shown
    PROVE  /\ P!With(r, l) \in Pending /\ P!Done \in Pending
           /\ \A at \in {"full", "index", "refill", "scan"} : P!At(at, l) \in Pending
  BY DEF P!With, P!At, P!Done, Pending, Shown

LEMMA BucketKeepsTypes ==
    ASSUME PagesTyped, NEW s \in P!Snapshots, P!Publish(s) \/ P!Finish(s) PROVE PagesTyped'
  BY DEF PagesTyped, P!Publish, P!Finish

LEMMA CronKeepsTypes ==
    ASSUME PagesTyped, P!Cron \/ P!CronFails PROVE PagesTyped'
  <1>0. /\ P!Idle \in P!Processes /\ cron \in P!Processes /\ cron.found \in Shown
        /\ cron.found \in P!Listings /\ Absent \in Shown
    BY DEF PagesTyped, P!Processes, P!Listings, P!Idle, Shown
  <1>1. CASE P!CronSelects
    BY <1>0, <1>1, ScanTypes DEF P!CronSelects, PagesTyped, P!bucket
  <1>2. CASE P!CronLoads
    <2>1. failures' \in 0..MaxFailures
      BY <1>2, FaultTypes DEF P!CronLoads, P!Loads
    <2> QED BY <1>0, <1>2, <2>1, ScanTypes DEF P!CronLoads, PagesTyped, P!bucket
  <1>3. CASE P!CronWritesIndex
    <2>1. stored' \in Shown
      BY <1>0, <1>3 DEF P!CronWritesIndex, P!WritesIndex
    <2> QED BY <1>0, <1>3, <2>1, ScanTypes DEF P!CronWritesIndex, PagesTyped, P!bucket
  <1>4. CASE P!CronPopulates
    <2>1. cron' \in P!Processes /\ cache' \in [P!Caches -> Shown]
      BY <1>0, <1>4 DEF P!CronPopulates, P!Populated, PagesTyped, P!Processes
    <2> QED BY <1>4, <2>1 DEF P!CronPopulates, PagesTyped, P!bucket
  <1>5. CASE P!CronDeletesPage
    BY <1>0, <1>5 DEF P!CronDeletesPage, PagesTyped, P!bucket
  <1>6. CASE P!CronFails
    <2>1. failures' \in 0..MaxFailures
      BY <1>6, FaultTypes DEF P!CronFails
    <2> QED BY <1>0, <1>6, <2>1 DEF P!CronFails, PagesTyped, P!bucket
  <1> QED BY <1>1, <1>2, <1>3, <1>4, <1>5, <1>6 DEF P!Cron

LEMMA ScanKeepsTypes ==
    ASSUME PagesTyped, P!Scan \/ P!ScanFails PROVE PagesTyped'
  <1>0. /\ P!Idle \in P!Processes /\ scan \in P!Processes /\ scan.found \in Shown
        /\ Absent \in Shown
    BY DEF PagesTyped, P!Processes, P!Listings, P!Idle, Shown
  <1>1. CASE P!ScanLoads
    <2>1. failures' \in 0..MaxFailures
      BY <1>1, FaultTypes DEF P!ScanLoads, P!Loads
    <2> QED BY <1>0, <1>1, <2>1, ScanTypes DEF P!ScanLoads, PagesTyped, P!bucket
  <1>2. CASE P!ScanWritesIndex
    <2>1. stored' \in Shown
      BY <1>0, <1>2 DEF P!ScanWritesIndex, P!WritesIndex
    <2> QED BY <1>0, <1>2, <2>1, ScanTypes DEF P!ScanWritesIndex, PagesTyped, P!bucket
  <1>3. CASE P!ScanPopulates
    <2>1. cache' \in [P!Caches -> Shown]
      BY <1>0, <1>3 DEF P!ScanPopulates, P!Populated, PagesTyped
    <2>2. request' \in [Visits -> Pending]
      BY <1>0, <1>3, PendingTypes DEF P!ScanPopulates, PagesTyped
    <2> QED BY <1>0, <1>3, <2>1, <2>2 DEF P!ScanPopulates, PagesTyped, P!bucket
  <1>4. CASE P!ScanFails
    <2>1. failures' \in 0..MaxFailures
      BY <1>4, FaultTypes DEF P!ScanFails
    <2>2. request' \in [Visits -> Pending]
      BY <1>0, <1>4, PendingTypes DEF P!ScanFails, PagesTyped
    <2> QED BY <1>0, <1>4, <2>1, <2>2 DEF P!ScanFails, PagesTyped, P!bucket
  <1> QED BY <1>1, <1>2, <1>3, <1>4 DEF P!Scan

LEMMA VisitKeepsTypes ==
    ASSUME PagesTyped, NEW r \in Visits, P!Ask(r) \/ P!Proceed(r) \/ P!RequestFails(r)
    PROVE  PagesTyped'
  <1>0. /\ request[r].got \in Shown /\ Absent \in Shown /\ stored \in Shown
        /\ cache["full"] \in Shown /\ scan \in P!Processes
    BY DEF PagesTyped, Pending, P!Caches, Shown
  <1>1. ASSUME NEW x \in Pending, P!Goes(r, x) PROVE request' \in [Visits -> Pending]
    BY <1>1 DEF P!Goes, PagesTyped
  <1>2. CASE P!Ask(r)
    <2>1. request' \in [Visits -> Pending]
      BY <1>0, <1>1, <1>2, PendingTypes DEF P!Ask
    <2> QED BY <1>2, <2>1 DEF P!Ask, PagesTyped, P!bucket
  <1>3. CASE P!MatchFull(r)
    <2>1. request' \in [Visits -> Pending]
      BY <1>0, <1>1, <1>3, PendingTypes DEF P!MatchFull
    <2> QED BY <1>3, <2>1 DEF P!MatchFull, PagesTyped, P!bucket
  <1>4. CASE P!ReadIndex(r)
    <2>1. request' \in [Visits -> Pending]
      BY <1>0, <1>1, <1>4, PendingTypes DEF P!ReadIndex
    <2>2. scan' \in P!Processes
      BY <1>0, <1>4, ScanTypes DEF P!ReadIndex
    <2> QED BY <1>4, <2>1, <2>2 DEF P!ReadIndex, PagesTyped, P!bucket
  <1>5. CASE P!Refill(r)
    <2>1. request' \in [Visits -> Pending]
      BY <1>0, <1>1, <1>5, PendingTypes DEF P!Refill
    <2>2. cache' \in [P!Caches -> Shown]
      BY <1>0, <1>5 DEF P!Refill, P!Populated, PagesTyped
    <2> QED BY <1>5, <2>1, <2>2 DEF P!Refill, PagesTyped, P!bucket
  <1>6. CASE P!Render(r)
    <2>1. request' \in [Visits -> Pending]
      BY <1>0, <1>1, <1>6, PendingTypes DEF P!Render
    <2>2. cache' \in [P!Caches -> Shown]
      BY <1>0, <1>6 DEF P!Render, PagesTyped
    <2> QED BY <1>6, <2>1, <2>2 DEF P!Render, PagesTyped, P!bucket
  <1>7. CASE P!RequestFails(r)
    <2>1. failures' \in 0..MaxFailures
      BY <1>7, FaultTypes DEF P!RequestFails
    <2>2. request' \in [Visits -> Pending]
      BY <1>0, <1>1, <1>7, PendingTypes DEF P!RequestFails
    <2> QED BY <1>7, <2>1, <2>2 DEF P!RequestFails, PagesTyped, P!bucket
  <1> QED BY <1>2, <1>3, <1>4, <1>5, <1>6, <1>7 DEF P!Proceed

LEMMA PagesNext == PagesTyped /\ [P!Next]_(P!vars) => PagesTyped'
  <1> SUFFICES ASSUME PagesTyped, [P!Next]_(P!vars) PROVE PagesTyped'
    OBVIOUS
  <1>1. ASSUME NEW c \in P!Caches, P!Expire(c) PROVE PagesTyped'
    BY <1>1 DEF P!Expire, PagesTyped, P!bucket, Shown
  <1>2. CASE UNCHANGED P!vars
    BY <1>2 DEF P!vars, PagesTyped
  <1> QED BY <1>1, <1>2, BucketKeepsTypes, CronKeepsTypes, ScanKeepsTypes, VisitKeepsTypes
        DEF P!Next

-----------------------------------------------------------------------------
LEMMA PagesAlways == AllSpec => []PagesTyped
  <1>1. AllInit => PagesTyped
    BY PagesInit DEF AllInit
  <1>2. PagesTyped /\ [AllNext]_allVars => PagesTyped'
    <2>1. [AllNext]_allVars => [P!Next]_(P!vars)
      BY Zenon DEF AllNext, allVars, partVars, pageVars, P!vars
    <2> QED BY <2>1, PagesNext
  <1> QED BY <1>1, <1>2, PTL DEF AllSpec

\* The documentation index, the search and the pages of the snapshot viewer keep
\* to their types, whichever of them is followed and for any sites, questions,
\* snapshots and failing calls.
THEOREM ContentTypes == AllSpec => []TypesOK
  <1>1. SearchInv /\ MarksOK => Q!TypeOK
    BY DEF SearchInv, Shape, MarksOK, Q!TypeOK
  <1>2. PagesTyped => P!TypeOK
    BY DEF PagesTyped, P!TypeOK, Shown, Pending
  <1>3. TypeOK /\ Q!TypeOK /\ P!TypeOK => TypesOK
    BY DEF TypesOK
  <1> QED BY <1>1, <1>2, <1>3, DocsPart, DocsTypeCorrect, SearchAlways, PagesAlways, PTL

\* Beside the other workers, too, a run of the documentation index deletes nothing
\* that it has found listed, a forced run leaves what it has found in AI Search,
\* and the stored ETag, the index and AI Search tell the same of the site.
THEOREM DocsStaySound ==
    AllSpec => ListedStays /\ []ForcedServesListed /\ []RecordsAgree
  BY DocsPart, ListedItemsStay, ForcedRunsRepair, RecordsAlwaysAgree, PTL
=============================================================================
