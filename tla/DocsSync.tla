------------------------------ MODULE DocsSync ------------------------------
(***************************************************************************)
(* The hourly synchronisation of one documentation site with AI Search in  *)
(* apps/mcp-docs-indexer: syncSource and syncPage (src/lib/ingest.ts),     *)
(* started by the cron handler (src/index.ts), forced at midnight          *)
(* (src/lib/schedule.ts).                                                  *)
(*                                                                         *)
(* The site changes while a run reads it.  What a page says is its         *)
(* version, and both its ETag and its content hash tell versions apart;    *)
(* the ETag of llms.txt stands for the pages that are listed, and for      *)
(* nothing of what they say.  One run is at work at a time: a run that     *)
(* cron starts ends long before the next hour.                             *)
(***************************************************************************)
EXTENDS Naturals

CONSTANTS
    Pages,      \* the pages the site may have, by their item key
    Versions,   \* what a page may say
    Unfit,      \* the versions that are empty or too large to upload
    Absent,     \* no page, no entry, no item
    MaxEdits,   \* bound: changes of the site
    MaxFaults   \* bound: failing calls and interrupted runs

ASSUME DocsAssumption ==
    /\ Absent \notin Versions /\ Unfit \subseteq Versions
    /\ MaxEdits \in Nat /\ MaxFaults \in Nat

VARIABLES
    site,       \* what each page says, Absent if it is not listed
    items,      \* what AI Search holds for each page
    etag,       \* etag:<source> in KV: none, or the list that it stands for
    index,      \* index:<source> in KV, the version of each entry
    pc,         \* where the run is
    force,      \* the run was started at midnight
    tagged,     \* its llms.txt came with an ETag
    listed,     \* the pages of the llms.txt that the run has read
    todo,       \* those it has yet to synchronise
    prev,       \* prevIndex
    next,       \* the entries so far
    failed,     \* failed > 0
    edits, faults,
    changed,    \* history: the items that the run has uploaded or deleted
    astray,     \* history: those that a run had changed when it ended without
                \* storing its index, and that no run has recorded since
    pair        \* history: what was stored last, an ETag, an index or both

store == <<items, etag, index>>
run == <<force, tagged, listed, todo, prev, next, failed>>
history == <<changed, astray, pair>>
vars == <<site, store, pc, run, edits, faults, history>>

Content == Versions \cup {Absent}
Nothing == [p \in Pages |-> Absent]

TypeOK ==
    /\ site \in [Pages -> Content] /\ items \in [Pages -> Content]
    /\ etag \subseteq SUBSET Pages
    /\ index \in [Pages -> Content]
    /\ pc \in {"idle", "pages", "deletions", "putEtag", "putIndex", "synced"}
    /\ force \in BOOLEAN /\ tagged \in BOOLEAN /\ failed \in BOOLEAN
    /\ listed \subseteq Pages /\ todo \subseteq listed
    /\ prev \in [Pages -> Content] /\ next \in [Pages -> Content]
    /\ edits \in 0..MaxEdits /\ faults \in 0..MaxFaults
    /\ changed \subseteq Pages /\ astray \subseteq Pages
    /\ pair \in {"etag", "index", "both"}

Init ==
    /\ site \in [Pages -> Content]
    /\ items = Nothing /\ index = Nothing /\ etag = {}
    /\ pc = "idle" /\ force = FALSE /\ tagged = FALSE /\ failed = FALSE
    /\ listed = {} /\ todo = {}
    /\ prev = Nothing /\ next = Nothing
    /\ edits = 0 /\ faults = 0
    /\ changed = {} /\ astray = {} /\ pair = "both"

-----------------------------------------------------------------------------
\* parseLlmsTxt: the pages that llms.txt lists.
List == {p \in Pages : site[p] # Absent}

\* The site adds, changes or removes a page.
Edit(p) ==
    /\ edits < MaxEdits
    /\ edits' = edits + 1
    /\ \E v \in Content \ {site[p]} : site' = [site EXCEPT ![p] = v]
    /\ UNCHANGED <<store, pc, run, faults, history>>

Fault == faults < MaxFaults /\ faults' = faults + 1

\* If-None-Match of llms.txt is answered with 304.
NotModified(f) == ~f /\ List \in etag

\* Faulty variant: what the index still names is fetched, too.
LeftOver == List \cup {p \in Pages : index[p] # Absent}

\* The pages that the run will fetch.
ToFetch == List

\* A run that finds llms.txt unchanged, or cannot fetch it, ends here.  A server
\* that sends no ETag has none to compare and answers in full.
Start(f, t) ==
    /\ pc \in {"idle", "synced"}
    /\ t => ~NotModified(f)
    /\ pc' = "pages"
    /\ force' = f /\ tagged' = t /\ failed' = FALSE
    /\ listed' = List /\ todo' = ToFetch
    /\ prev' = index /\ next' = Nothing
    /\ astray' = astray \cup changed /\ changed' = {}
    /\ UNCHANGED <<site, store, edits, faults, pair>>

\* Faulty variants: the entry of an unchanged page is not kept; a forced run
\* skips the upload of what it has recorded, too.
ForgetUnchanged(p) ==
    /\ ~force /\ prev[p] = site[p]
    /\ UNCHANGED <<next, items, changed, failed, faults>>
SkipRecorded(p) ==
    /\ prev[p] = site[p]
    /\ next' = [next EXCEPT ![p] = prev[p]]
    /\ UNCHANGED <<items, changed, failed, faults>>

\* 304, or a content hash that is recorded: the entry stays.
PageUnchanged(p) ==
    /\ ~force /\ prev[p] = site[p]
    /\ next' = [next EXCEPT ![p] = prev[p]]
    /\ UNCHANGED <<items, changed, failed, faults>>

ToUpload(p) == force \/ prev[p] # site[p]

PageUploaded(p) ==
    /\ ToUpload(p)
    /\ items' = [items EXCEPT ![p] = site[p]] /\ changed' = changed \cup {p}
    /\ next' = [next EXCEPT ![p] = site[p]]
    /\ UNCHANGED <<failed, faults>>

\* The fetch or the upload fails, and the old entry is kept; a failing upload
\* may have taken effect.
PageFailed(p) ==
    /\ Fault
    /\ failed' = TRUE
    /\ next' = [next EXCEPT ![p] = prev[p]]
    /\ \/ UNCHANGED <<items, changed>>
       \/ /\ ToUpload(p)
          /\ items' = [items EXCEPT ![p] = site[p]] /\ changed' = changed \cup {p}

\* The page has been removed since llms.txt was read, or cannot be uploaded.
PageRefused(p) ==
    /\ failed' = TRUE
    /\ next' = [next EXCEPT ![p] = prev[p]]
    /\ UNCHANGED <<items, changed, faults>>

\* The pages of a batch are synchronised in any order.
SyncPage(p) ==
    /\ pc = "pages" /\ p \in todo
    /\ todo' = todo \ {p}
    /\ IF site[p] \in Unfit \cup {Absent} THEN PageRefused(p)
       ELSE PageUnchanged(p) \/ PageUploaded(p) \/ PageFailed(p)
    /\ UNCHANGED <<site, etag, index, pc, force, tagged, listed, prev, edits, astray, pair>>

\* Faulty variant: a failure keeps a run from deleting, but not from storing.
StoreAnyway == IF failed THEN "putEtag" ELSE "deletions"

\* Nothing is deleted or stored after a failure.
AfterPages == IF failed THEN "idle" ELSE "deletions"

\* A run that ends without storing anything takes what it knows with it.
Discard ==
    /\ force' = FALSE /\ tagged' = FALSE /\ failed' = FALSE
    /\ listed' = {} /\ todo' = {} /\ prev' = Nothing /\ next' = Nothing

Goes(l) == pc' = l /\ IF l = "idle" THEN Discard ELSE UNCHANGED run

PagesDone ==
    /\ pc = "pages" /\ todo = {}
    /\ Goes(AfterPages)
    /\ UNCHANGED <<site, store, edits, faults, history>>

Removed == {p \in Pages : prev[p] # Absent /\ next[p] = Absent}

CountFailure == failed' = TRUE

\* The items of the entries that are gone are deleted one after the other, and
\* an entry leaves prev when its deletion has been tried.  One that fails is
\* passed over; it may have taken effect.
DeleteItem(p) ==
    /\ pc = "deletions" /\ p \in Removed
    /\ prev' = [prev EXCEPT ![p] = Absent]
    /\ changed' = changed \cup {p}
    /\ \/ items' = [items EXCEPT ![p] = Absent] /\ UNCHANGED <<failed, faults>>
       \/ /\ Fault /\ CountFailure
          /\ UNCHANGED items \/ items' = [items EXCEPT ![p] = Absent]
    /\ UNCHANGED <<site, etag, index, pc, force, tagged, listed, todo, next, edits, astray, pair>>

DeletionsDone ==
    /\ pc = "deletions" /\ Removed = {}
    /\ Goes(IF failed THEN "idle" ELSE IF tagged THEN "putEtag" ELSE "putIndex")
    /\ UNCHANGED <<site, store, edits, faults, history>>

\* Only of an llms.txt that has one: else the old one stays beside the new index.
PutEtag ==
    /\ pc = "putEtag"
    /\ etag' = {listed} /\ pair' = "etag"
    /\ pc' = "putIndex"
    /\ UNCHANGED <<site, items, index, run, edits, faults, changed, astray>>

\* The run was clean: it ends, and what it has changed is recorded.
PutIndex ==
    /\ pc = "putIndex"
    /\ index' = next
    /\ pair' = IF tagged THEN "both" ELSE "index"
    /\ pc' = "synced"
    /\ astray' = astray \ changed /\ changed' = {}
    /\ UNCHANGED <<site, items, etag, run, edits, faults>>

\* The run is cut off, or a write to KV throws.
Interrupt ==
    /\ pc \notin {"idle", "synced"}
    /\ Fault
    /\ Goes("idle")
    /\ UNCHANGED <<site, store, edits, history>>

Run ==
    \/ \E p \in Pages : SyncPage(p) \/ DeleteItem(p)
    \/ PagesDone \/ DeletionsDone \/ PutEtag \/ PutIndex

Next ==
    \/ \E p \in Pages : Edit(p)
    \/ \E f, t \in BOOLEAN : Start(f, t)
    \/ Run \/ Interrupt

Spec == Init /\ [][Next]_vars

\* A run takes its steps, and there is a midnight every day.
Midnight == \E t \in BOOLEAN : Start(TRUE, t)
FairSpec == Spec /\ WF_vars(Run) /\ SF_vars(Midnight)

-----------------------------------------------------------------------------
(* Properties *)

\* A run deletes no item of a page that is in the llms.txt it has read,
\* whichever pages fail.
ListedStays ==
    [][\A p \in Pages : items[p] # Absent /\ items'[p] = Absent => p \notin listed]_vars

\* A clean forced run leaves every listed page in AI Search, with what the run
\* recorded of it, whatever runs before it left behind.
ForcedServesListed ==
    pc = "synced" /\ force => \A p \in listed : items[p] # Absent /\ items[p] = next[p]

\* A clean run leaves in AI Search just what its index records ...
SyncedItemsMatchIndex == pc = "synced" => items = index

\* ... but for the pages that runs have changed without recording it, whichever
\* pages, uploads, deletions or writes have failed since.
ItemsAreRecorded ==
    \A p \in Pages : items[p] # index[p] => p \in changed \cup astray

Entries(f) == {p \in Pages : f[p] # Absent}

\* An index that was stored with an ETag describes the list that the ETag stands
\* for, however later runs fail: a 304 hides no page that is to be retried.
IndexDescribesEtag == pair = "both" => etag \subseteq {Entries(index)}

\* The ETag that was stored before its index, as by a run that is cut off between
\* the two, stands for a list whose pages are all served, unless a run that did not
\* store its index had deleted one: the 304 that follows hides no page that was
\* never uploaded.
EtagIsServed ==
    pair # "index" =>
        \A list \in etag : \A p \in list : items[p] = Absent => p \in changed \cup astray

\* All three: what the ETag, the index and AI Search tell of the site.
RecordsAgree == IndexDescribesEtag /\ EtagIsServed /\ ItemsAreRecorded

\* Once the site rests and calls succeed, every page that can be uploaded is
\* served as it is: what the ETags hide is repaired at midnight.
PagesServed ==
    <>[](\A p \in Pages : site[p] \in Versions \ Unfit => items[p] = site[p])
=============================================================================
