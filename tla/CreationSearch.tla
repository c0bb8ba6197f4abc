---------------------------- MODULE CreationSearch ----------------------------
(***************************************************************************)
(* The explorer's search for the block that created a contract             *)
(* (lib/server/contract-creation.ts): a binary search over the node's      *)
(* getCode, whose calls may fail one by one, and a cache without expiry.   *)
(* A contract has code from its creation block on, the contracts of the    *)
(* system (systemContractRegistry of lib/domain/contracts.ts) from genesis *)
(* on.                                                                     *)
(***************************************************************************)
EXTENDS Integers

CONSTANTS MAX_BATCH_SIZE,
          MaxBlock \* bound: the newest block of the model

NoBlock == -1 \* null, and nothing cached

VARIABLES latestBlock, \* of the chain
          created,     \* the block that creates the contract, NoBlock before
          pc,          \* the request: "idle", "search", "block"
          low, high,   \* of binarySearchCreationBlock
          failed,      \* history: a call of this request has failed
          creationCache, \* the cached blockNumber of the contract
          clean        \* history: the cached search had no failing call

vars == <<latestBlock, created, pc, low, high, failed, creationCache, clean>>

HasCode(b) == created # NoBlock /\ created <= b

TypeOK ==
    /\ latestBlock \in 0..MaxBlock
    /\ created \in NoBlock..latestBlock
    /\ pc \in {"idle", "search", "block"}
    /\ low \in 1..MaxBlock /\ high \in 0..MaxBlock
    /\ failed \in BOOLEAN /\ clean \in BOOLEAN
    /\ creationCache \in NoBlock..MaxBlock

Init ==
    /\ latestBlock = 0 /\ created \in {NoBlock, 0}
    /\ pc = "idle" /\ low = 1 /\ high = 1 /\ failed = FALSE
    /\ creationCache = NoBlock /\ clean = TRUE

-----------------------------------------------------------------------------
NewBlock ==
    /\ latestBlock < MaxBlock
    /\ latestBlock' = latestBlock + 1
    /\ created' \in IF created = NoBlock THEN {NoBlock, latestBlock'} ELSE {created}
    /\ UNCHANGED <<pc, low, high, failed, creationCache, clean>>

\* fetchContractCreationData up to binarySearchCreationBlock: nothing cached
\* and code at the newest block.  The block number is read after the code.
Start ==
    /\ pc = "idle"
    /\ creationCache = NoBlock
    /\ HasCode(latestBlock)
    /\ pc' = "search"
    /\ low' = 1 /\ high' = latestBlock
    /\ failed' = FALSE
    /\ UNCHANGED <<latestBlock, created, creationCache, clean>>

mid == (low + high) \div 2

\* One round of the loop; a call that fails is a block without code.
Probe(fails) ==
    /\ pc = "search" /\ high - low > MAX_BATCH_SIZE
    /\ failed' = (failed \/ fails)
    /\ IF HasCode(mid) /\ ~fails
       THEN high' = mid /\ UNCHANGED low
       ELSE low' = mid + 1 /\ UNCHANGED high
    /\ UNCHANGED <<latestBlock, created, pc, creationCache, clean>>

\* Faulty variant: the end of the batch is taken unseen.
BatchTakesLast(failing) ==
    /\ pc = "search" /\ high - low <= MAX_BATCH_SIZE
    /\ failed' = (failed \/ failing # {})
    /\ \/ /\ high \notin failing
          /\ low' = high /\ high' = high
          /\ pc' = "block"
       \/ /\ high \in failing
          /\ pc' = "idle"
          /\ UNCHANGED <<low, high>>
    /\ UNCHANGED <<latestBlock, created, creationCache, clean>>

\* The batch asks for every block left and takes the first that has code; the
\* answer is null when none has, or when every such call failed.
Batch(failing) ==
    /\ pc = "search" /\ high - low <= MAX_BATCH_SIZE
    /\ failed' = (failed \/ failing # {})
    /\ \/ \E b \in low..high :
            /\ HasCode(b) /\ b \notin failing
            /\ \A c \in low..(b - 1) : ~HasCode(c) \/ c \in failing
            /\ low' = b /\ high' = b
            /\ pc' = "block"
       \/ /\ \A b \in low..high : ~HasCode(b) \/ b \in failing
          /\ pc' = "idle"
          /\ UNCHANGED <<low, high>>
    /\ UNCHANGED <<latestBlock, created, creationCache, clean>>

\* The block and the receipts of its creation transactions are read, and the
\* answer is cached without expiry.
CacheCreation ==
    /\ pc = "block"
    /\ pc' = "idle"
    /\ creationCache' = low
    /\ clean' = ~failed
    /\ UNCHANGED <<latestBlock, created, low, high, failed>>

\* The block cannot be read: the request fails.
BlockFails ==
    /\ pc = "block"
    /\ pc' = "idle"
    /\ UNCHANGED <<latestBlock, created, low, high, failed, creationCache, clean>>

\* Searches of other contracts push the answer out of the full cache.
Evict ==
    /\ creationCache # NoBlock
    /\ creationCache' = NoBlock
    /\ UNCHANGED <<latestBlock, created, pc, low, high, failed, clean>>

Next ==
    \/ NewBlock
    \/ Start
    \/ \E fails \in BOOLEAN : Probe(fails)
    \/ \E failing \in SUBSET (low..high) : Batch(failing)
    \/ CacheCreation \/ BlockFails \/ Evict

Spec == Init /\ [][Next]_vars

-----------------------------------------------------------------------------
\* The first block with the code of those that are searched, which begin at 1
FirstWithCode == IF created = 0 THEN 1 ELSE created

\* binarySearchCreationBlock keeps the first block with the code between low and
\* high as long as no call fails, and never lets high fall below the creation
\* whatever fails.
Bracketed ==
    pc \in {"search", "block"} =>
        /\ created # NoBlock
        /\ created <= high
        /\ ~failed => low <= FirstWithCode

\* What fetchContractCreationData caches for ever is, when no call of its search
\* failed, the creation block, or block 1 for a contract that is there from
\* genesis; and otherwise a block that has the code.
CachedIsCreation ==
    creationCache # NoBlock =>
        /\ HasCode(creationCache)
        /\ clean => creationCache = FirstWithCode
=============================================================================
