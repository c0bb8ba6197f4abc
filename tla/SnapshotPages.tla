---------------------------- MODULE SnapshotPages ----------------------------
(***************************************************************************)
(* The worker of tempo-snapshots-viewer: what its pages and its API show   *)
(* of the bucket that nodes publish snapshots to.                          *)
(*                                                                         *)
(* A scan of the bucket finds the snapshots.  A run of the cron trigger    *)
(* scans, stores the result as an index in the bucket, puts it into the    *)
(* two caches of listings and takes the rendered page out of its cache.    *)
(* Requests answer from the caches and refill them: the listings from the  *)
(* index, or with a scan of their own that they share when there is none,  *)
(* and the page from the listing.                                          *)
(*                                                                         *)
(* A snapshot is its block number.  The cache is the one of the data       *)
(* centre that the cron trigger runs in.                                   *)
(***************************************************************************)
EXTENDS Integers, FiniteSets

CONSTANTS
    Requests, Of,   \* the requests, and what each asks for: "api" or "ui"
    RECENT_SNAPSHOTS_PER_NETWORK,
    MaxBlock,       \* bound: the snapshots that are published
    MaxFaults,      \* bound: the calls that fail
    None

VARIABLES
    dirs,       \* the snapshots with a directory
    complete,   \* those that are uploaded completely
    index,      \* SNAPSHOT_INDEX_KEY in the bucket: None or a listing
    cache,      \* "full", "api" and "ui": None or a listing
    cron,       \* the run of the cron trigger
    scan,       \* snapshotRefreshPromise
    request,    \* each request: where it is and the listing it has got
    faults

vars == <<dirs, complete, index, cache, cron, scan, request, faults>>
bucket == <<dirs, complete>>

Snapshots == 1..MaxBlock
Listings  == SUBSET Snapshots
Caches    == {"full", "api", "ui"}
Idle      == [pc |-> "idle", found |-> {}]

\* selectRecentSnapshotDirsByNetwork
Recent(ds) == {d \in ds : Cardinality({e \in ds : e > d}) < RECENT_SNAPSHOTS_PER_NETWORK}

-----------------------------------------------------------------------------
\* A node uploads a snapshot, which takes long.
Publish(s) ==
    /\ s \notin dirs /\ \A d \in dirs : d < s
    /\ dirs' = dirs \cup {s}
    /\ UNCHANGED <<complete, index, cache, cron, scan, request, faults>>

Finish(s) ==
    /\ s \in dirs \ complete
    /\ complete' = complete \cup {s}
    /\ UNCHANGED <<dirs, index, cache, cron, scan, request, faults>>

\* An entry is evicted, or older than CACHE_TTL.
Expire(c) ==
    /\ cache[c] # None
    /\ cache' = [cache EXCEPT ![c] = None]
    /\ UNCHANGED <<bucket, index, cron, scan, request, faults>>

Fault == faults < MaxFaults /\ faults' = faults + 1

\* getSnapshots, by the cron run or by the shared scan: the directories are
\* listed first and then looked into.  One that cannot be read, with all its
\* retries, or lacks a file is left out.
Selects(process, process2) ==
    /\ process.pc = "idle"
    /\ process2 = [pc |-> "loading", found |-> Recent(dirs)]

Loads(process, process2) ==
    /\ process.pc = "loading"
    /\ \/ /\ process2 = [pc |-> "index", found |-> process.found \cap complete]
          /\ UNCHANGED faults
       \/ /\ \E d \in process.found \cap complete :
                 process2 = [pc |-> "index", found |-> (process.found \cap complete) \ {d}]
          /\ Fault

\* writeSnapshotIndex
WritesIndex(process, process2) ==
    /\ process.pc = "index"
    /\ index' = process.found
    /\ process2 = [process EXCEPT !.pc = "caches"]

\* populateSnapshotCaches: the two puts go together.
Populated(listing) == [cache EXCEPT !["full"] = listing, !["api"] = listing]

-----------------------------------------------------------------------------
(* refreshSnapshotCaches *)

CronSelects ==
    /\ Selects(cron, cron')
    /\ UNCHANGED <<bucket, index, cache, scan, request, faults>>

CronLoads ==
    /\ Loads(cron, cron')
    /\ UNCHANGED <<bucket, index, cache, scan, request>>

CronWritesIndex ==
    /\ WritesIndex(cron, cron')
    /\ UNCHANGED <<bucket, cache, scan, request, faults>>

CronPopulates ==
    /\ cron.pc = "caches"
    /\ cache' = Populated(cron.found)
    /\ cron' = [cron EXCEPT !.pc = "ui"]
    /\ UNCHANGED <<bucket, index, scan, request, faults>>

\* Faulty variant: the rendered page stays.
CronKeepsPage ==
    /\ cron.pc = "ui"
    /\ cron' = Idle
    /\ UNCHANGED <<bucket, index, cache, scan, request, faults>>

CronDeletesPage ==
    /\ cron.pc = "ui"
    /\ cache' = [cache EXCEPT !["ui"] = None]
    /\ cron' = Idle
    /\ UNCHANGED <<bucket, index, scan, request, faults>>

\* A call fails for good, and the run with it.
CronFails ==
    /\ cron.pc # "idle" /\ Fault
    /\ cron' = Idle
    /\ UNCHANGED <<bucket, index, cache, scan, request>>

-----------------------------------------------------------------------------
(* handleUI, handleAPI and getFullSnapshots *)

Goes(r, state) == request' = [request EXCEPT ![r] = state]
At(pc, listing) == [pc |-> pc, got |-> listing]
Done == [pc |-> "idle", got |-> None]

\* A request has the listing: a page is rendered and cached.
With(r, listing) == IF Of[r] = "ui" THEN At("render", listing) ELSE Done

\* The cache of the answer is asked first.  A hit ends the request.
Ask(r) ==
    /\ request[r].pc = "idle"
    /\ Goes(r, IF cache[Of[r]] = None THEN At("full", None) ELSE Done)
    /\ UNCHANGED <<bucket, index, cache, cron, scan, faults>>

MatchFull(r) ==
    /\ request[r].pc = "full"
    /\ Goes(r, IF cache["full"] # None THEN With(r, cache["full"]) ELSE At("index", None))
    /\ UNCHANGED <<bucket, index, cache, cron, scan, faults>>

\* Without an index the request waits for the scan, and starts it if need be.
ReadIndex(r) ==
    /\ request[r].pc = "index"
    /\ Goes(r, IF index # None THEN At("refill", index) ELSE At("scan", None))
    /\ IF index = None /\ scan.pc = "idle" THEN Selects(scan, scan') ELSE UNCHANGED scan
    /\ UNCHANGED <<bucket, index, cache, cron, faults>>

Refill(r) ==
    /\ request[r].pc = "refill"
    /\ cache' = Populated(request[r].got)
    /\ Goes(r, With(r, request[r].got))
    /\ UNCHANGED <<bucket, index, cron, scan, faults>>

ScanLoads ==
    /\ Loads(scan, scan')
    /\ UNCHANGED <<bucket, index, cache, cron, request>>

ScanWritesIndex ==
    /\ WritesIndex(scan, scan')
    /\ UNCHANGED <<bucket, cache, cron, request, faults>>

\* The scan ends with its puts, and all that wait for it have its listing.
ScanPopulates ==
    /\ scan.pc = "caches"
    /\ cache' = Populated(scan.found)
    /\ scan' = Idle
    /\ request' = [r \in Requests |->
           IF request[r].pc = "scan" THEN With(r, scan.found) ELSE request[r]]
    /\ UNCHANGED <<bucket, index, cron, faults>>

\* It is forgotten when it fails, too, and all that wait for it fail.
ScanFails ==
    /\ scan.pc # "idle" /\ Fault
    /\ scan' = Idle
    /\ request' = [r \in Requests |->
           IF request[r].pc = "scan" THEN Done ELSE request[r]]
    /\ UNCHANGED <<bucket, index, cache, cron>>

Render(r) ==
    /\ request[r].pc = "render"
    /\ cache' = [cache EXCEPT !["ui"] = request[r].got]
    /\ Goes(r, Done)
    /\ UNCHANGED <<bucket, index, cron, scan, faults>>

RequestFails(r) ==
    /\ request[r].pc \in {"full", "index", "refill", "render"} /\ Fault
    /\ Goes(r, Done)
    /\ UNCHANGED <<bucket, index, cache, cron, scan>>

-----------------------------------------------------------------------------
Init ==
    /\ dirs = {1} /\ complete = {1}
    /\ index \in {None, {1}}
    /\ cache = [c \in Caches |-> None]
    /\ cron = Idle /\ scan = Idle
    /\ request = [r \in Requests |-> Done]
    /\ faults = 0

Cron == CronSelects \/ CronLoads \/ CronWritesIndex \/ CronPopulates \/ CronDeletesPage
Scan == ScanLoads \/ ScanWritesIndex \/ ScanPopulates
Proceed(r) == MatchFull(r) \/ ReadIndex(r) \/ Refill(r) \/ Render(r)

Next ==
    \/ \E s \in Snapshots : Publish(s) \/ Finish(s)
    \/ \E c \in Caches : Expire(c)
    \/ Cron \/ CronFails \/ Scan \/ ScanFails
    \/ \E r \in Requests : Ask(r) \/ Proceed(r) \/ RequestFails(r)

-----------------------------------------------------------------------------
Processes == [pc : {"idle", "loading", "index", "caches", "ui"}, found : Listings]

TypeOK ==
    /\ dirs \subseteq Snapshots /\ complete \subseteq dirs
    /\ index \in Listings \cup {None}
    /\ cache \in [Caches -> Listings \cup {None}]
    /\ cron \in Processes /\ scan \in Processes
    /\ request \in [Requests -> [pc : {"idle", "full", "index", "refill", "scan", "render"},
                                 got : Listings \cup {None}]]
    /\ faults \in 0..MaxFaults

\* Nothing that is cached or stored shows anything but the recent snapshots.
ShowsRecent ==
    /\ \A c \in Caches : cache[c] \in {None, Recent(dirs) \cap complete}
    /\ index = Recent(dirs) \cap complete

\* When no more snapshots are published and nothing fails any more, the index
\* and the caches show the recent snapshots from some time on, whatever old
\* listing a request, a scan or a run was about to put there.
PagesCatchUp == <>[]ShowsRecent
=============================================================================
