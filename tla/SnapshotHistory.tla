--------------------------- MODULE SnapshotHistory ---------------------------
(***************************************************************************)
(* "Load older" on the page of tempo-snapshots-viewer, and the route       *)
(* /api/snapshots/history behind it: the page starts with the recent       *)
(* snapshots of each network and asks for those below the oldest one it    *)
(* shows, while the visitor changes networks and snapshots finish.         *)
(*                                                                         *)
(* A snapshot is its block number in its network.  Directories of one      *)
(* block are not modelled: below a block means older.                      *)
(***************************************************************************)
EXTENDS Integers, FiniteSetsExt

CONSTANTS
    Networks,
    PAGE_SIZE,  \* RECENT_SNAPSHOTS_PER_NETWORK and SNAPSHOT_HISTORY_PAGE_SIZE
    MaxBlock,   \* bound: the snapshots of a network
    None

VARIABLES
    complete,   \* in the bucket, by network: the snapshots that are complete
    opened,     \* those that were when the page was rendered
    shown,      \* NETWORK_SNAPSHOTS
    hasMore,    \* SNAPSHOT_HISTORY_HAS_MORE
    active,     \* activeChainId
    loading,    \* the request under way: its network, its block, its answer
    passedOver  \* networks with a page on which nothing was complete

vars == <<complete, opened, shown, hasMore, active, loading, passedOver>>

\* The directories of a network: all of 1..MaxBlock, complete or not.
Blocks == 1..MaxBlock
NotLoading == [network |-> None, beforeBlock |-> 0, answer |-> None]

Newest(n, bs) == {b \in bs : Cardinality({c \in bs : c > b}) < n}
Below(b) == {c \in Blocks : c < b}

-----------------------------------------------------------------------------
\* The page as the worker renders it: the recent directories that are complete.
Init ==
    /\ complete \in [Networks -> SUBSET Blocks]
    /\ opened = complete
    /\ shown = [n \in Networks |-> Newest(PAGE_SIZE, Blocks) \cap complete[n]]
    /\ hasMore = [n \in Networks |-> Cardinality(shown[n]) >= PAGE_SIZE]
    /\ active \in Networks
    /\ loading = NotLoading
    /\ passedOver = {}

Finish(n, b) ==
    /\ b \notin complete[n]
    /\ complete' = [complete EXCEPT ![n] = @ \cup {b}]
    /\ UNCHANGED <<opened, shown, hasMore, active, loading, passedOver>>

\* configureNetwork, at any time
ChooseNetwork(n) ==
    /\ n # active
    /\ active' = n
    /\ UNCHANGED <<complete, opened, shown, hasMore, loading, passedOver>>

\* loadOlderSnapshots up to its request
LoadOlder ==
    /\ loading = NotLoading /\ hasMore[active] /\ shown[active] # {}
    /\ loading' = [network |-> active, beforeBlock |-> Min(shown[active]), answer |-> None]
    /\ UNCHANGED <<complete, opened, shown, hasMore, active, passedOver>>

\* handleSnapshotHistory and getSnapshotHistoryPage: the newest directories
\* below the block, and of those what is complete
Serve ==
    /\ loading # NotLoading /\ loading.answer = None
    /\ LET candidates == Below(loading.beforeBlock)
           selected == Newest(PAGE_SIZE, candidates)
       IN  loading' = [loading EXCEPT !.answer =
               [snapshots |-> selected \cap complete[loading.network],
                hasMore   |-> selected # candidates]]
    /\ UNCHANGED <<complete, opened, shown, hasMore, active, passedOver>>

\* Faulty variant: the list of the network that is shown by now is taken.
NetworkShown == active

\* chainId, kept from before the request
NetworkLoaded == loading.network

\* appendLoadedSnapshots and the rest of loadOlderSnapshots
AppendLoaded ==
    /\ loading.answer # None
    /\ LET answer == loading.answer
           n == NetworkLoaded
       IN  /\ shown' = [shown EXCEPT ![n] = @ \cup answer.snapshots]
           /\ hasMore' = [hasMore EXCEPT ![n] = answer.hasMore /\ answer.snapshots # {}]
           /\ passedOver' = IF answer.hasMore /\ answer.snapshots = {}
                            THEN passedOver \cup {n} ELSE passedOver
    /\ loading' = NotLoading
    /\ UNCHANGED <<complete, opened, active>>

\* The request fails, or the answer does.
LoadFails ==
    /\ loading # NotLoading
    /\ hasMore' = [hasMore EXCEPT ![loading.network] = TRUE]
    /\ loading' = NotLoading
    /\ UNCHANGED <<complete, opened, shown, active, passedOver>>

Next ==
    \/ \E n \in Networks, b \in Blocks : Finish(n, b)
    \/ \E n \in Networks : ChooseNetwork(n)
    \/ LoadOlder \/ Serve \/ AppendLoaded \/ LoadFails

-----------------------------------------------------------------------------
TypeOK ==
    /\ complete \in [Networks -> SUBSET Blocks] /\ opened \in [Networks -> SUBSET Blocks]
    /\ shown \in [Networks -> SUBSET Blocks] /\ hasMore \in [Networks -> BOOLEAN]
    /\ active \in Networks /\ passedOver \subseteq Networks
    /\ loading.network \in Networks \cup {None} /\ loading.beforeBlock \in Blocks \cup {0}

\* The list of a network has no holes: whatever was complete when the page was
\* opened and is newer than the oldest one shown is shown, and so is all the
\* rest once there is no more to load, unless a recent upload was not complete,
\* which hides the button, or nothing was on a whole page of the history, which
\* ends it.  Nothing is shown that is not there.
HistoryHasNoHoles ==
    \A n \in Networks :
        /\ shown[n] \subseteq complete[n]
        /\ \A b \in opened[n] \ shown[n] : \A c \in shown[n] : b < c
        /\ ~hasMore[n] /\ Newest(PAGE_SIZE, Blocks) \subseteq opened[n] /\ n \notin passedOver =>
               opened[n] \subseteq shown[n]
=============================================================================
