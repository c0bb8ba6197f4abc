------------------------------- MODULE Explorer -------------------------------
(***************************************************************************)
(* What runs behind the pages of the explorer and of the snapshot viewers, *)
(* side by side: the parts of the explorer, the request queue of           *)
(* packages/rpc-utils that limits its RPC transports (src/wagmi.config.ts) *)
(* and that this module extends, and the history and the selection of      *)
(* snapshots.  They share no state, so a behaviour is one of a single      *)
(* part, chosen in the initial state.                                      *)
(***************************************************************************)
EXTENDS RpcQueue

CONSTANTS   \* of the parts, where they are explained
    BLOCKS_PER_PAGE, FirstHead, MaxHead,
    PAGE_SIZE, TotalCap, FirstCount, MaxCount,
    Keys, HISTORY_TOTAL_CACHE_TTL, HISTORY_TOTAL_CACHE_MAX_ENTRIES, MaxCounts,
    MAX_BATCH_SIZE, MaxBlock,
    Lookups, Selectors, SelectorOf(_), Known, MaxRetries,
    POLICY_LOG_PAGE_SIZE, RECENT_ACTIVITY_LIMIT, MaxLogs, MaxCopies,
    Requests, limit, COUNT_CAP, CACHE_TTL, MaxFetch, MaxRows,
    Networks, SNAPSHOT_HISTORY_PAGE_SIZE, MaxSnapshot, None,
    Heights, FileBlocks, PARIS_BLOCK, Recent, \* Heights are its Blocks
    Accounts, Tokens, Amounts, MaxReceiptCalls

VARIABLES part,
          head, from, live, queries, latest, liveBlocks, paused, pending,
          inbound, seen,
          txCount, status, position, latestAt, dataAt, totalAt, label,
          cached, asked, keyOf, outcome, dropped,
          latestBlock, created, pc, low, high, failed, creationCache, clean,
          lookup, retries, pendingRequests, batchTimer, batches, lookupCache,
          loads,
          logs, start, phase, all, recent,
          details, request, answer,
          complete, opened, shown, hasMore, active, loading, passedOver,
          block, activePreset, checkedComponents, presetBaseComponents,
          made, emitted

blockVars == <<head, from, live, queries, latest, liveBlocks, paused, pending,
               inbound, seen>>
historyVars == <<txCount, status, position, latestAt, dataAt, totalAt, label>>
totalVars == <<cached, asked, keyOf, outcome, dropped>>
creationVars == <<latestBlock, created, pc, low, high, failed, creationCache, clean>>
signatureVars == <<lookup, retries, pendingRequests, batchTimer, batches,
                   lookupCache, loads>>
policyVars == <<logs, start, phase, all, recent>>
tokenVars == <<details, request, answer>>
snapshotVars == <<complete, opened, shown, hasMore, active, loading, passedOver>>
selectionVars == <<block, activePreset, checkedComponents, presetBaseComponents>>
receiptVars == <<made, emitted>>
partVars == <<blockVars, historyVars, totalVars, creationVars, signatureVars,
              policyVars, tokenVars, snapshotVars, selectionVars, receiptVars>>
allVars == <<part, vars, partVars>>

B == INSTANCE BlockFeed
A == INSTANCE AddressHistory
H == INSTANCE HistoryTotals
C == INSTANCE CreationSearch
S == INSTANCE SignatureBatch WITH timer <- batchTimer
P == INSTANCE PolicyLogs
T == INSTANCE TokenPages
O == INSTANCE SnapshotHistory WITH PAGE_SIZE <- SNAPSHOT_HISTORY_PAGE_SIZE,
                                   MaxBlock <- MaxSnapshot
L == INSTANCE ComponentSelection WITH Blocks <- Heights
E == INSTANCE KnownEvents WITH MaxCalls <- MaxReceiptCalls,
                               calls <- made, logs <- emitted

ASSUME BlockAssumption ==
    /\ BLOCKS_PER_PAGE \in Nat \ {0}
    /\ FirstHead \in Nat /\ MaxHead \in Nat
    /\ BLOCKS_PER_PAGE <= FirstHead /\ FirstHead <= MaxHead

ASSUME HistoryAssumption ==
    /\ PAGE_SIZE \in Nat \ {0} /\ TotalCap \in Nat \ {0}
    /\ FirstCount \in Nat /\ MaxCount \in Nat /\ FirstCount <= MaxCount
    /\ Keys # {} /\ MaxCounts \in Nat
    /\ HISTORY_TOTAL_CACHE_TTL \in Nat /\ HISTORY_TOTAL_CACHE_MAX_ENTRIES \in Nat \ {0}

ASSUME CreationAssumption == MAX_BATCH_SIZE \in Nat \ {0} /\ MaxBlock \in Nat \ {0}

ASSUME SignatureAssumption ==
    /\ IsFiniteSet(Lookups) /\ \A l \in Lookups : SelectorOf(l) \in Selectors
    /\ MaxRetries \in Nat

ASSUME PolicyAssumption ==
    /\ POLICY_LOG_PAGE_SIZE \in Nat \ {0} /\ RECENT_ACTIVITY_LIMIT \in Nat \ {0}
    /\ MaxLogs \in Nat /\ MaxCopies \in Nat \ {0}

ASSUME TokenAssumption ==
    /\ limit \in Nat \ {0} /\ COUNT_CAP \in Nat
    /\ CACHE_TTL \in Nat \ {0} /\ MaxFetch \in Nat /\ MaxRows \in Nat

ASSUME SnapshotAssumption ==
    /\ Networks # {} /\ None \notin Networks
    /\ None \notin [snapshots : SUBSET (1..MaxSnapshot), hasMore : BOOLEAN]
    /\ SNAPSHOT_HISTORY_PAGE_SIZE \in Nat \ {0} /\ MaxSnapshot \in Nat

ASSUME SelectionAssumption ==
    /\ Heights # {} /\ Heights \subseteq Nat /\ FileBlocks \in Nat \ {0}
    /\ PARIS_BLOCK \in Nat \ {0} /\ Recent \in Nat \ {0}
    /\ FileBlocks <= PARIS_BLOCK \* a file holds fewer blocks than came before the merge

ASSUME ReceiptAssumption ==
    /\ Accounts \cap E!KnownAddresses = {}
    /\ Amounts \subseteq Nat \ {0} /\ MaxReceiptCalls \in Nat

\* The parts that begin in one of several states begin in one of them while they
\* are not followed.
AllInit ==
    /\ part \in {"blocks", "history", "totals", "creation", "signatures",
                 "policy", "tokens", "snapshots", "selection",
                 "receipts", "queue"}
    /\ B!Init /\ (part # "blocks" => B!isAtLatest)
    /\ C!Init /\ (part # "creation" => created = 0)
    /\ A!Init /\ (part # "history" =>
           /\ A!isFirst /\ totalAt = A!NoTotal
           /\ status = CHOOSE f \in A!Statuses : TRUE)
    /\ H!Init /\ S!Init /\ P!Init /\ T!Init
    /\ O!Init /\ (part # "snapshots" =>
           /\ \A n \in Networks : complete[n] = {}
           /\ active = CHOOSE n \in Networks : TRUE)
    /\ L!Init /\ (part # "selection" => block = CHOOSE b \in Heights : TRUE)
    /\ E!Init
    /\ Init /\ (part # "queue" =>
           /\ browser /\ isStarted
           /\ <<frequency, concurrency>> = CHOOSE p \in Limits : TRUE)

AllNext ==
    /\ UNCHANGED part
    /\ \/ part = "queue" /\ Next /\ UNCHANGED partVars
       \/ part = "blocks" /\ B!Next
          /\ UNCHANGED <<vars, historyVars, totalVars, creationVars, signatureVars,
                        policyVars, tokenVars, snapshotVars, selectionVars,
                        receiptVars>>
       \/ part = "history" /\ A!Next
          /\ UNCHANGED <<vars, blockVars, totalVars, creationVars, signatureVars,
                        policyVars, tokenVars, snapshotVars, selectionVars,
                        receiptVars>>
       \/ part = "totals" /\ H!Next
          /\ UNCHANGED <<vars, blockVars, historyVars, creationVars, signatureVars,
                        policyVars, tokenVars, snapshotVars, selectionVars,
                        receiptVars>>
       \/ part = "creation" /\ C!Next
          /\ UNCHANGED <<vars, blockVars, historyVars, totalVars, signatureVars,
                        policyVars, tokenVars, snapshotVars, selectionVars,
                        receiptVars>>
       \/ part = "signatures" /\ S!Next
          /\ UNCHANGED <<vars, blockVars, historyVars, totalVars, creationVars,
                        policyVars, tokenVars, snapshotVars, selectionVars,
                        receiptVars>>
       \/ part = "policy" /\ P!Next
          /\ UNCHANGED <<vars, blockVars, historyVars, totalVars, creationVars,
                        signatureVars, tokenVars, snapshotVars, selectionVars,
                        receiptVars>>
       \/ part = "tokens" /\ T!Next
          /\ UNCHANGED <<vars, blockVars, historyVars, totalVars, creationVars,
                        signatureVars, policyVars, snapshotVars, selectionVars,
                        receiptVars>>
       \/ part = "snapshots" /\ O!Next
          /\ UNCHANGED <<vars, blockVars, historyVars, totalVars, creationVars,
                        signatureVars, policyVars, tokenVars, selectionVars,
                        receiptVars>>
       \/ part = "selection" /\ L!Next
          /\ UNCHANGED <<vars, blockVars, historyVars, totalVars, creationVars,
                        signatureVars, policyVars, tokenVars, snapshotVars,
                        receiptVars>>
       \/ part = "receipts" /\ E!Next
          /\ UNCHANGED <<vars, blockVars, historyVars, totalVars, creationVars,
                        signatureVars, policyVars, tokenVars, snapshotVars,
                        selectionVars>>

\* A step of the queue while its behaviour is the one that is followed
OfQueue(Step) == part = "queue" /\ Step /\ UNCHANGED <<part, partVars>>

\* Time passes, what has been scheduled gets its turn, and tasks settle.
Fairness ==
    WF_allVars(OfQueue(Tick)) /\ WF_allVars(OfQueue(Turn)) /\ WF_allVars(OfQueue(Settle))

AllSpec == AllInit /\ [][AllNext]_allVars /\ Fairness

-----------------------------------------------------------------------------
\* Every part keeps to its types.
TypesOK ==
    /\ B!TypeOK /\ A!TypeOK /\ H!TypeOK /\ C!TypeOK /\ S!TypeOK /\ P!TypeOK
    /\ T!TypeOK /\ O!TypeOK /\ L!TypeOK /\ E!TypeOK /\ TypeOK

\* The properties of the parts, stated in their modules
LiveListKeepsNewest == B!LiveListKeepsNewest
LatestPageShowsLoaded == B!LatestPageShowsLoaded
FrozenWhilePaused == [][B!KeepsFrozenList]_allVars
LabelsAgree == A!LabelsAgree
PagesAdjoin == [][part = "history" => A!TurnsToAdjoiningPage]_allVars
CacheHoldsNewest == H!CacheHoldsNewest
CachedIsCreation == C!CachedIsCreation
LookupsAreHeldOnce == S!LookupsAreHeldOnce
PolicyIsOfOneMoment == P!PolicyIsOfOneMoment
TotalsAreSound == T!TotalsAreSound
CallsAreTold == E!CallsAreTold

\* What the pages of the snapshot viewers show is what there is, and what the
\* command fetches.
SnapshotsAreShown == O!HistoryHasNoHoles /\ L!SelectionIsFetched
=============================================================================
