# A verification development for tempo-apps

TLA+ models of the parts of this repository that keep state under concurrency
and failure, the TLC instances that check them, and TLAPS proofs about them.
Paths are relative to the repository's root; line numbers are in `PROJECT.json`
under `map`.

## 1. The system

The repository holds independent Cloudflare Workers applications and one shared
package. They do not call each other, except that the explorer reads from
contract verification. Inside an application the hard part is mostly the same:
handlers that await a database, a key-value store, a Durable Object or an
upstream API, and that interleave with each other at every await.

| Part | State | Operations | What is hard | What makes it correct |
|---|---|---|---|---|
| **contract-verification: jobs** (`route.verify.ts`, `job-runner.ts`) | `verification_jobs` in D1; `job` and the alarm of a Durable Object | POST submits, GET polls and expires, the alarm runs | the test for an open job and the insert are two statements; alarms are repeated; enqueueing may fail after it took effect | one job of a contract in flight; an id that was handed out resolves |
| **contract-verification: store** (`route.verify.ts`, `route.verify-legacy.ts`) | contracts, deployments, compilations, sources, signatures, verifications in D1 | a run writes some ten statements without a transaction | runs of one address or one build interleave; a run stops anywhere and is retried | rows tell the truth, exact matches are final, what is verified is complete |
| **contract-verification: matching** (`bytecode-matching.ts`) | none | one comparison of two codes | slots that are filled in from the code on the chain, several references to one value | a match names all that sets the codes apart |
| **contract-verification: listing** (`route.lookup.ts`, the seeding script) | the cursor, held by the client | one page of two tables | rows are added to both while a client walks | no row twice, none left out |
| **contract-verification: compiler container** | compiler binaries on disk | download, reuse, compile | two downloads of one binary | a binary that is used is complete |
| **mcp-docs-indexer: synchronisation** (`ingest.ts`) | AI Search items; `etag:` and `index:` in KV | hourly run, forced at midnight | partial failures, ETags that hide what has yet to be retried, a site that changes | no listed page is deleted; every page is served in the end |
| **mcp-docs-indexer: search** (`mcp.ts`) | result cache, searches in flight, marks of stale filters | one search with two fallbacks | a search changes the key it is cached under; requests share searches | answers hold recent chunks of wanted sources |
| **fee-payer: budget** (`api-key-budget.ts`, `rate-limit.ts`) | `spend:<key>:<day>` and `:lifetime` in KV | check, record | counters that are read and put while others are; midnight | counters count what was admitted; the limit holds |
| **fee-payer: API keys, relay, billing** (`api-keys.ts`, `index.ts`, `billing.ts`) | `api-key:` records in KV; a queue | create, patch, revoke; authenticate, check, relay, send a message | two updates of one record; a record that changes under a request | a revoked key stays revoked; just what is filled and signed is billed |
| **rpc-utils: queue** (`queue.ts`) | queue, counters, a timer, two promises | add, start, pause, clear, onIdle, onEmpty, setParameters | timers, ticks and settling tasks call `next` in any order | limits hold, no task is stuck |
| **rpc-utils: load balancing** | an index | one synchronous step | - | - |
| **snapshot viewers: worker** | edge caches, an index in the bucket | render, list, refresh by cron | a refill that races a refresh | the pages catch up |
| **snapshot viewers: page** | lists, a selection | load older, change network, presets, components | a load that ends after the network changed; long sequences of clicks | the list has no holes; the command fetches what is shown |
| **explorer: blocks page** (`blocks.tsx`) | the live list, a buffer, two queries | subscribe, freeze, turn pages | blocks that arrive out of order, frozen or not | the list holds the newest blocks |
| **explorer: address history** (`$address.tsx`, `address-history.ts`) | position, cursors, cached totals | turn pages, filter, count | pages, totals and labels of different moments, some of which a shared link or a failed count leaves out | pages adjoin, labels are right |
| **explorer: tokens, policies, creations, signatures** (`token.ts`, `tip403*.ts`, `contract-creation.ts`, `abi.ts`) | caches, batches | paged reads, searches, batched lookups | calls that fail one by one, late answers, rows that are written again | what is shown or cached is true of one moment |
| **explorer: receipts** (`known-events.ts`) | none | logs of a transaction to what is told of it | logs that repeat each other, hidden by keys that other calls may share | every call is told once |
| **tokenlist, og, key-manager, remaining pages** | - | rendering | - | - |

`PROJECT.json` lists every component with its status and every hazard with its
line and the properties that would catch it.

## 2. Modules

Contract verification:

| Module | Models | How it corresponds |
|---|---|---|
| `JobSlot` | what the jobs promise: one job holds the contract | abstract: `Claim`, `Release` |
| `VerificationJobs` | jobs of one contract | one action per statement that touches D1 or the Durable Object: `Submit` ... `Yield` are the POST handler up to the re-check, `EnqueuePut` ... `Cleanup` the dispatch, `AlarmFires` ... `AlarmReturns` the runner, `PollFindsStale`/`PollExpires` the GET handler, `RunnerCrashes` and `Tick` the platform |
| `VerificationStore` | the statements that follow a bytecode match | one action per statement, in the order of the code; `pc[r]` names the next one, `item[r]` the source or signature that it is about; the tables are sets, functions and a sequence by id |
| `BytecodeMatching` | `matchBytecode` | a function of two codes, step by step the ones that fill in call protection, immutables and libraries; a behaviour makes one comparison |
| `ContractListing` | `GET /v2/contracts/:chainId` | a request is the two SELECTs (`SelectVerified`, `List`), between which rows may be added; `Verify` and `Seed` are the writers |
| `Contracts` | the store, matching and listing side by side | no code of its own |

Content workers:

| Module | Models | How it corresponds |
|---|---|---|
| `DocsSync` | one source of the documentation index | `Start` is `syncSource` up to the loaded index, `SyncPage` is `syncPage` and the collection of its result, `PagesDone` ... `PutIndex` the rest; a run that ends early forgets its locals (`Discard`); `Edit` is the site |
| `McpSearch` | the search tool's cache | `Ask` is `cachedSearch`, `Primary`, `Fallback` and `Local` are the calls of `runSearch`, each ending in `cacheSearchResult` or a failure |
| `SnapshotPages` | the viewer's worker | a cron run, the shared scan and each request are processes whose steps are their awaits |
| `SnapshotHistory` | "Load older" of the viewer's page and the route behind it | `LoadOlder` asks, `Serve` answers, `AppendLoaded` applies it to the network it was asked for |
| `ComponentSelection` | presets and components of a snapshot | `selectPreset`, `toggleComponent`; `Fetches` is the command, `Shows` the sizes |
| `Content` | `DocsSync`, `McpSearch` and `SnapshotPages` side by side | no code of its own |

Fee payer and shared package:

| Module | Models | How it corresponds |
|---|---|---|
| `SponsorBudget` | the counters of one API key | `Admit`/`Refuse` are the check, `Read`, `StartPuts`, `PutDaily`, `PutLifetime` are `recordSpend`; a read or a put may fail |
| `SponsorRelay` | the requests of one API key and the changes of its record | `Authenticate`, `Check`, `RecordSpend`, `Relay`, `Enqueue` and `BillingFails` are a request, `ReadRecord` and `PutRecord` an update or a revocation |
| `RpcQueue` | `createQueue` | `CallNext` is `next`; every operation and every scheduled call is an action that calls it where the code does |
| `FeePayer` | `SponsorBudget` and `SponsorRelay` side by side | no code of its own |

Explorer:

| Module | Models | How it corresponds |
|---|---|---|
| `BlockFeed` | the blocks page | `OnBlock` is the subscription, `Merged` `mergeBlocks`; `Show` is what a navigation re-evaluates |
| `AddressHistory` | the pages of an address | `Init` opens the page at the latest position or at any that a link once led to; `Go...` are the links, with the cursors that the data shown at that time gives them and the label that goes with them |
| `HistoryTotals` | the cached counts | promises by number, so that a late failure can be told from a newer entry |
| `CreationSearch` | the search for a creation block | `Probe` and `Batch` are the two loops of `binarySearchCreationBlock`, every read may fail |
| `SignatureBatch` | batched lookups | `Lookup`, `Flush`, `Respond` in the browser, `Receive` and `LoadEnds` on the server |
| `PolicyLogs` | the reads of a policy's logs | `ReadAll` reads forward, `ReadRecent` backward, one page a step; a log may have several rows |
| `TokenPages` | totals of a token | `resolveTotal` and `OfferedPages` against the details cache with its late and failed answers; a request waits for the details and its page together (`Waiting`), either of which may fail |
| `KnownEvents` | what is told of a transaction | `parseKnownEvents` as a function of the logs; a behaviour makes calls, whose logs `Emitted` gives |
| `Explorer` | these, the queue and the viewer's `SnapshotHistory` and `ComponentSelection` side by side | no code of its own |

`Contracts`, `Content`, `FeePayer` and `Explorer` put parts that share no state
side by side: the variable `part` says which one a behaviour is of, and only
that part leaves one of its initial states. One run then checks them all, and
every property says of which part it speaks. What a reader would call one
property and what several modules or several sentences need is stated as one
conjunction of named parts (`SerialRunsReport`, `RecordsAgree`,
`CacheHoldsNewest`, `CountersAreSound`, `FillsAreBilled`, `NobodyIsForgotten`, `LookupsAreHeldOnce`,
`PolicyIsOfOneMoment`, `TotalsAreSound`, `SnapshotsAreShown`). `MC...` modules
give the constants their values, `...Proofs` modules and `DataLemmas` hold the
theorems.

Every module holds small definitions marked *Faulty variant*: what a plausible
mistake would make of the definition after them. They are used by no
specification; substituting one must make TLC report the property named for it
in `PROJECT.json`.

### What each model abstracts

- **Jobs.** One contract: the statements only select rows of one chain and
  address. Ids are the requests' names, as each takes a fresh UUID. Times are
  ticks; a tick is a part of `JOB_TTL_MS`. What a run finds (success, failure,
  nothing recorded) is a choice. D1 is linearizable, and rows with equal
  `started_at` come in rowid order, the order in which SQLite reads them here.
- **Store.** A build stands for the columns of the unique indexes of contracts
  and compilations; it is exact at an address iff it is the code there,
  metadata included. Whether a bytecode matches at all is decided before.
  Source files and signatures are numbered. The job runner inserts the signatures
  in one statement, the legacy route one by one. The code of an address has one
  exact build.
- **Matching.** Runtime code only. A slot, a placeholder and an auxdata are one
  symbol each; the CBOR inside an auxdata is whether it has a content hash. The
  code compares only the first of several values with one name and skips the
  opcode of a call protection: `MatchIsFaithful` rebuilds the code where these
  agree and bounds the difference where they do not.
- **Listing.** Match ids are numbers in the order the code compares them in.
- **Documentation.** A page is its key, what it says is a version; an ETag or a
  content hash tells versions apart. The ETag of `llms.txt` stands for the list;
  an answer may have none (`tagged`), and the run then stores its index alone.
  Pages of a batch run in parallel and batches one after the other; the model
  lets any order happen, which includes both. The edge cache of 60 seconds is
  left out, deleting an item that is not there succeeds, and cron runs do not
  overlap. Two pages whose keys coincide once slashes are replaced
  (`ingest.ts:306`) are one page here.
- **Search.** Requests of one query in one isolate; a chunk is its source. What
  AI Search answers is its choice. `include_raw` decides on the last fallback and
  is not part of the key, so that a shared search takes it from its first request.
- **Viewer.** A snapshot is its block. The cache is that of the data centre of
  the cron trigger, and the two puts of a listing are one step. Expiry is a step
  that may happen at any time. In the history, a recent upload that is not complete hides the button and a
  page of incomplete ones ends the list: `passedOver` records where that is so.
- **Components.** Sizes are counted in files; what a flag fetches is the external
  program's doing, as the page takes it. Indices have no `--with` flag, which is
  excepted from the property.
- **Budget.** One key, fees in microdollars after the rounding up. KV returns
  the last value put. Requests that the rate limiter or the allowlist refuse
  never reach the counters.
- **Relay.** The relay is taken for its outcomes (signs, answers without a
  signature, fails); it signs what it fills and the serialized transactions that it
  is handed. What a message holds is the key of its payload, and in the model the
  request it is about. `BillingFails` is every way in which a message that is due is
  not sent: JSON that cannot be read, a transaction without a sender or without an
  envelope, a failing send.
- **Queue.** The clock is the answer to "is this another second than the last
  call's" and "has the timer's second ended"; timers do not fire early. A worker
  settles sooner or later and its result is of no account.
- **Explorer.** Blocks, transactions and logs are their places in the chain's
  order; times are ticks; an API call may fail, be late or both, as the module says.
  Creation: a contract has code from its creation block on, a contract of the
  system from genesis on, which is block 0 while the search begins at block 1.
  History: the page is opened at an URL, which carries a position but no label; the
  total is another query that may have no answer. The browser's own Back and Forward,
  which restore a position together with its label, are left out.
- **Receipts.** The calls whose logs depend on one another, seen by nobody in
  particular; a log of another kind is told by itself and is left out, and so are
  liquidity that is recognised by the call's input and the wording.

## 3. Runs

| Run | Module and cfg | Asks | Bounds |
|---|---|---|---|
| `jobs` | `MCVerificationJobs_jobs` | is one job in flight, do the jobs implement `JobSlot`, do handed ids resolve and alarmed jobs run? | 2 requests, TTL 1, 4 ticks, 1 crash, failing enqueue |
| `jobs_handed` | `MCVerificationJobs_handed` | *violated:* is every handed id known? | 3 requests, TTL 2, 1 tick |
| `jobs_timeout` | `MCVerificationJobs_timeout` | *violated:* does a success clear the timeout? | 1 request, 1 poller, TTL 1, 3 ticks |
| `store_safety` | `MCContracts` | do the rows of interleaved and interrupted runs stay right, are matches faithful, do walks list everything once? | store: 3 runs (one legacy), 2 addresses, 2 builds, 2 sources, 2 signatures, 1 interruption; matching: 6 compilations of all shapes against every code of at most 4 symbols out of 7; listing: 2 chains, 3 ids in each table, pages of 1 or 2 |
| `store_crash` | `MCVerificationStore_crash` | *violated:* is what is verified complete after an interruption? | as above, no legacy run |
| `content` | `MCContent` | are items, index and ETag consistent and pages served in the end; are answers wanted; do the viewer's pages catch up? | docs: 2 pages, 2 versions and one that cannot be uploaded, 2 edits, 2 faults; search: 3 requests, 2 sources, 1 tick; pages: 2 requests, 2 snapshots, 1 fault |
| `docs_desync` | `MCDocsSync_desync` | *violated:* do clean runs leave what the index says? | 2 edits, 1 fault |
| `sponsor` | `MCFeePayer_safety` | what do the counters count, do changes of a key hold, is just what is filled billed? | 3 requests, 2 days, limit 5, 1 fault; 3 keyed requests (two of one payload), 2 changes, 1 lost message |
| `sponsor_midnight` | `MCFeePayer_midnight` | *violated:* does a daily counter count its day? | 3 requests, 2 days, no fault |
| `sponsor_refused` | `MCFeePayer_refused` | *violated:* is only recorded what was sponsored? | as above |
| `explorer` | `MCExplorer` | lists, labels, caches, batches, the queue, snapshots and receipts through every interleaving | queue: 3 tasks, frequency 0 or 2, concurrency 0 or 1 (0 is none), 2 further calls, both scheduling modes; blocks 3..6 in pages of 2; 5..7 transactions in pages of 2, opened at any cursor, counts capped at 6 or unknown; 3 filters, 3 counts, 2 entries; 11 blocks in batches of 2; 3 lookups of 2 selectors, 1 retry; 2 logs of up to 3 rows in pages of 2; 2 requests of a token of up to 3 rows; 2 networks of 4 snapshots; 3 ages of a snapshot; 2 calls of 2 accounts, tokens and amounts |
| `explorer_return` | `MCExplorer_return` | *violated:* does the page of the newest blocks show what it loaded? | as above |

Why the bounds are enough. A race at the re-check needs two requests; a third is
needed for a loser whose winner loses in turn, and that is how `jobs_handed` is
found: with two requests and no failing call TLC finds every handed id known.
A TTL of one tick and four ticks let a job go stale, be replaced, and the
replacement go stale; one crash is enough for every gap between two steps of the
alarm. In the store the two runs of one address match differently, which is the
only case in which they write different rows, and the third shares a build with
one of them, which is the only way runs of different addresses meet. The codes
have room for every slot of a compilation, for one symbol too few and for one too
many. In a listing the tables, both orders, a foreign chain and a page boundary
inside and between the tables all occur with three ids. Two pages let one page
fail or be refused while the other is added or removed; two edits are enough to
remove a page and add it again, or to add and remove it. Two signatures and two
sources let a run stop between them. Three requests of the search let one share, one
differ in `include_raw` and one in its sources. With fees 1, 2 and 4 every sum
identifies the spends in it. The queue's tasks outnumber what a second may start
and what may run at once. In the explorer every list is longer than a page, every
count reaches its cap, bounded caches overflow or are emptied by a step, and what
grows does so by more than a page. Two calls are enough for logs of
one to be taken for those of the other, and two tokens, accounts and amounts let
their keys agree in any of their fields. `CHECK_DEADLOCK FALSE` is set where the
clock, the requests, the days or the calls are used up.

### Fairness

- Jobs: a set alarm fires and an alarm handler goes on (Durable Objects repeat
  alarms at least once), the client that was handed an id polls it, and time
  passes. Nothing is assumed of POST handlers, which the runtime may cancel at
  any await.
- Documentation: a run takes its steps (weak), and the midnight start is taken
  infinitely often if it is possible infinitely often (strong), because
  unforced runs may come before it; cron does both.
- Viewer: the cron trigger comes round, a scan and a request that have begun go
  on (weak, each by itself). Nothing is assumed of visitors or of expiry.
- Queue: timers fire, ticks run, the event loop resolves `start`, workers
  settle. Nothing is assumed of callers.

### What the violated runs show

1. **An id that nobody knows** (`route.verify.ts:346`). A request that loses the
   re-check answers with the id it read as first. If that one loses to a third
   that has meanwhile completed, its row is deleted, and polls of the id get 404.
2. **A timeout over a success** (`route.verify.ts:436`). GET reads a stale row,
   the runner completes it, GET writes the timeout over it.
3. **Verified without sources** (`route.verify.ts:1132`). Sources belong to the
   branch that inserted the compilation; after an interruption there the retry
   finds the compilation and skips them for good.
4. **Items that no index knows** (`ingest.ts:114`). The items that a failed run
   uploads or deletes are not recorded. One that is added and then removed from
   `llms.txt` is never deleted; one that is deleted and listed again is skipped
   as unchanged until midnight.
5. **Yesterday's spend today** (`api-key-budget.ts:69`). The key of the daily
   counter is made once for the read and again for the put, so that at midnight
   a total moves into the new day and counts against its limit.
6. **A refused transaction is spent** (`rate-limit.ts:124`). The spend is
   recorded when the checks have passed and before the relay is asked, also when
   the relay then refuses; the comment above it says it happens afterwards.
7. **An old page shown as live** (`blocks.tsx:152`). The live list is filled only
   when it is empty and starts as the page that was opened first, so that who
   goes from an older page to the newest one sees the older blocks as live.

Met while modelling and not given a run:

- `contract-verification/openapi.json` (lines 868 and 1683) gives the time after
  which a job expires as 5 minutes; `JOB_TTL_MS` in `route.verify.ts:54` is 15.
- Runs of one address that overlap may leave it two deployments
  (`route.verify.ts:1037`): the unique index does not take them for the same, as
  the transaction is NULL or the contracts differ. `SerialRunsShareRows` says that
  runs that do not overlap leave one, `MatchIsTruthful` that each row of the others
  is true all the same.
- What is sponsored is not what is billed. `fee-payer/README.md:39` names
  `eth_signRawTransaction` and `eth_sendRawTransactionSync` as the sponsorship methods,
  and the relay signs them for a billable key, too; `billing.ts:140-143` makes a message
  of `eth_fillTransaction` only, as `test/billing.test.ts:213-229` expects. No document
  says that the others are billed, so `FillsAreBilled` states what the code does: a
  message for each transaction that was filled and signed, but for lost ones, and none
  for a serialized one.
- Two updates of one API key that cross may undo each other, a revocation among
  them (`api-keys.ts:80`), and spends that are recorded at once may lose an
  increment (`api-key-budget.ts:62`, whose comment accepts it). `SerialChangesHold`
  and the exact parts of `CountersAreSound` are about what does not overlap.
- A contract of genesis is shown as created in block 1 (`contract-creation.ts:66`).
- In the history of an address that has grown since it was counted, the label may be
  a page ahead of the transactions shown; a page that a link opens has no label until
  the newest or the oldest page is visited (`$address.tsx:2024-2028`).
- `known-events.ts` mixes up some calls of one transaction, which `Mixed` names
  and `CallsAreTold` excepts: a transfer with a memo hides plain transfers of
  other tokens or amounts between the same two accounts, because the key is only
  the two of them; what a swap returns is paired with every order placed before
  it, too; equal mints or burns of one account share a memo; top-ups of channels of one
  account are all told in the token of the first.

## 4. Proofs

TLAPS proves these for every value of the constants, from the assumptions named
in the modules or in the theorem.

**`VerificationJobsProofs`** (`NoJobAssumption`, `TimesAssumption`):
`TypeCorrect`, `AtMostOneInFlight`, `JobsImplementSlot`. At most one job in
flight is not inductive: nothing in it says why the re-check of a second job
should lose. `SlotInv` adds that a job in flight precedes every pending job that
has yet to be re-checked (`AdmittedFirst`; new rows come last, because time and
rowids only grow), that whoever is about to expire a job saw it stale, which it
remains, that only admitted jobs reach a runner, and that a row completed before
its re-check is older than the TTL. For the last one the assumption
`HandlerTimeout <= JobTTL` is needed: the runtime must have ended the handler
before its own row can go stale. The refinement uses the same invariant: a
step that lets a job in finds the slot empty, and no step lets a job return.

**`VerificationStoreProofs`** (`StoreAssumption`): `StoreTypeCorrect`,
`SignaturesPrecede`, `RowsTellTheTruth`, `ExactVerificationsStay`,
`SerialRunsShare`, `SourcesAreComplete`, `SerialRunsTellOfTheirs`. `RowInv` says
that a run past the deployment step holds a deployment of its address, that one
among the signatures has its build signed up to the next one (`SignedSoFar`: they
come one by one in the legacy route, and other runs of the build only add some)
and that one past them has them all, from which the rows are signed and truthful; `ExactIsFinal` is a step property of the same invariant. `SerialInv` adds,
for an address without overlapping runs, that one run works at most and that what
it did not find is still missing when it inserts it. What is verified has its
sources only in the end: a build may be verified by one run while another has just
deleted them. `Sourced` says that a compilation whose sources are not complete has
a run that is inserting them and has inserted all up to its own position, which is
the run that deleted them last; an interruption is the only way to lose it.
`ReportInv` carries, for an address without overlapping runs, that an exact run
past its deployment has it name its build (`Naming`), that a row which has been
inserted will be found, and that what was reported remains a row of the address, an
exact one if it has to be.

**`ContractsProofs`** (`StoreAssumption`, `MatchingAssumption`,
`ListingAssumption`): `WalksAreComplete`, `MatchesAreFaithful`, `ContractTypes`.
`ListInv` is about a walk through the listing: everything listed lies at or before
the cursor, every row that was there at the beginning is listed or ahead, and the
rows selected by the first statement of a page are the first of those ahead,
whatever was added between the two statements. That a page then skips nothing is
that the first rows of two tables together are the first of the first rows of each
(`DataLemmas`).

`MatchesAreFaithful` is about compilations of any length with any number of slots.
What it assumes of them (`IsCompiled`) is what the compilers put out: the slots of
Solidity lie in the code, apart from each other, from the call protection and from
the auxdata, and Vyper has no libraries and one slot at most, which follows the
runtime code (`getVyperImmutableReferences`, `route.verify.ts:850-864`). A
comparison is two folds over references; `FoldUnfolds` turns a fold into the chain
of its stages, one for each report, without induction over an operator. Along the
stages, a code stays `Aligned`: as far as the code on the chain goes it keeps
everything but the slots that are filled in already, and it loses a symbol only
for a slot that lies beyond (`ReplacedAligned`), so that a code which ends up equal to
the one on the chain had its auxdata at the same place (`HashIsKept`). The reports
of a stage say what the stages did (`Told`), and names with one value still have
it in the end, so that to apply the reports walks through the same codes
(`RebuiltIsFilled`).

**`ContentProofs`** (`ContentAssumption`, `DocsAssumption`): `DocsTypeCorrect`,
`ForcedRunsRepair`, `ListedItemsStay`, `RecordsAlwaysAgree`, `DocsStaySound`,
`SearchAnswersAreWanted`, `ContentTypes`. Of the synchronisation, `RunInv`
relates the entries of a run to the pages it is through with: in a run without
failure they are the same, so that what is removed is not listed, and what is
stored is the list. `RecordInv` adds the records: an item that differs from the
index was changed by the run at work (`changed`) or by an earlier one that stored
nothing (`astray`); a run that has not failed has as its entry what each item it
changed now is, and for the others what the index says; so what it stores is what
AI Search holds but for the astray. `pair` says which of ETag and index was put
last, as an answer without an ETag or an interruption between the two puts leaves
one of them behind. Of the search, a cached result or a search in flight is shared by key
only, so `SearchInv` has to say what a key means: all requests of a key want the
same sources, what is cached under it is of these sources and dated, and a
request that waits at a key has a search in flight there. A result is cached
under two keys, that of the search and that of the filter it ended with; both
name the same sources, which is what makes the second right.

**`FeePayerProofs`** (`BudgetAssumption`, `RelayAssumption`):
`SerialChangesAllHold`, `BillingStaysSound`, `BudgetIsSound`, `FeePayerTypes`.
The first needs that a change under way has read the record as it still is unless
changes have crossed; the second that a request keeps the grant that
authenticated it, whatever happens to the record, and that its billing starts
with the relay's answer; it is about the requests that fill, as the others have no
message. `BudgetInv` compares the
counters, and what was read of them, with the sums of the fees of those that
have put them: never above, however recordings interleave or fail, and equal
when nothing overlaps or fails; the same of a day's counter as long as no
recording spans a midnight. The limit then holds because the sum that was read
at the check is today's.

**`ExplorerProofs`** (the assumptions of `Explorer`, one for each part):

- `LiveListStaysNewest`, `PausedListIsFrozen`. `BlocksInv`: the newest of the list
  and the buffer together are the newest of all blocks that were offered, whatever
  order they came in, and without a pause there is no buffer.
- `CachedBlockIsCreation`, `SearchKeepsBracket`, for a chain of any length and
  batches of any size. The bracket is the invariant: the contract's block is never
  above `high` whatever fails, because `high` only moves to a block that was seen
  to have the code, and not below `low` as long as no read failed, because only
  then does no code mean an earlier block. For a contract of genesis the first block
  with the code that is searched is block 1, which is what is then cached.
- `LookupsStayHeldOnce`. `SignaturesInv`: a timer is armed just while lookups are
  pending, a lookup that is open is held in one place, and a selector has one load
  exactly while its promise is cached.
- `TotalsStaySound`. `TokensInv`: a count was read at most `MaxFetch` ticks before
  it was stored, and a request has waited since it was read, for the details or for
  the page beside them at most another `MaxFetch`, from which follow the age and the
  bound of every total that is answered, also when the page that came with it failed.
- `CachedTotalIsNewest`. `TotalsInv` says of every entry that its promise is the
  newest of its key, and of the newest promise of a key that it is cached unless it
  failed, expired or made room (`dropped`). A count that fails late finds another
  promise under its key and leaves it.
- `LabelsStayRight`, `TurnedPagesAdjoin`. `HistoryInv`: in a history that has not
  grown the page shown is the one its label says, counted from the end that its
  cursor leads to (`PagesAt`), and the last label is that of the oldest page
  (`LastLabelled`). In one that grows, what can be kept is that the label does not
  run ahead (`Leads`): with a label of k, more than k - 2 pages are at or above the
  cursor of a page counted from the newest, more than k - 1 beyond the cursor of one
  counted from the oldest. Next adds a page to the label and at least as much to what
  is newer, Previous takes a page from both, and transactions that arrive only add.
- `SnapshotsStayShown` (`SnapshotsInv`, `SelectionInv`): a load asks for what is
  older than the oldest snapshot shown of its own network, whichever is active, and
  its answer holds all of the page that was complete when the history was opened.
  A selection is closed under what the components need of each other.
- `PolicyStaysOfOneMoment`. `PolicyInv`: a walk has got every log of its type that
  begins in the rows before its offset, except the logs written since it began,
  because rows that arrive only push a log further back; what it has got has no
  gap on the side it began from.
- `CallsStayTold`. `ReceiptInv` says only where the logs are: those of each call
  together, in the order of the calls (`Laid`). What is told is a function of
  them. Without two calls that are mixed up, which of its logs are shown is a
  function of a call alone (`ShownAre`): its transfer and its memo are hidden by
  the call's own log or memo and by nothing else, and its own log never. So one
  shown log of every call is told (`MappedAre`, `DetectedIsTold`), or two as one
  swap, of which each sale meets its own return (`SoldAre`), and the fee is set
  aside. Calls and told events are thus paired, and what is paired occurs equally
  often (`PairsOccurAsOften`). `Kept` describes what `filter` leaves by the rank
  of a place among those that stay, so no fold over the logs is needed.
- `QueueForgetsNobodyHere`, `StartsStayWithinLimits`, from `RpcQueueProofs`.
- `ExplorerTypes`, of all parts, from their invariants.

The accounts that calls name are none of the addresses that the explorer knows by
name (the zero address, the exchange, the guard, the channel, the fee manager, a
zone's portal): those are contracts, or nobody's, and what is moved to or from
them is moved by calls of kinds of their own. Two of the assumptions are about
sizes: a file of a snapshot, whose number of blocks the manifest gives, holds no
more than the blocks before the first whose transactions the full preset keeps
(`PARIS_BLOCK`, which `src/apps/reth-snapshots-viewer/src/index.ts:100` sets to
15,537,394), and the chain is longer than one of the explorer's pages of blocks
when such a page is opened.

**`DataLemmas`** holds what these need of finite sets, by least counterexample:
how sums grow, that the largest and the smallest exist, what the first elements of
a set in an order are.

The runs check the same properties on their instances. Where a composition
instantiates a module, the theorem names the property of the composition.

Only model-checked are the liveness properties (`HandedJobResolves`,
`AlarmedJobRuns`, `PagesServed`, `PagesCatchUp`, `QueuedTasksStart`), which the
prover cannot treat under fairness.

## 5. What is not modelled

- The compilers, the chain and its RPC, AI Search and the relay are external and
  taken as choices.
- `contract-verification/container/compiler.ts:61` takes any binary that is not
  empty for a complete one, although another request may still be writing it. What
  a half-written binary does when it is run is not determined by this code, so
  there is nothing to model beyond the hazard.
- `contract-verification/src/index.tsx:126` puts a timeout of 30 seconds around
  all routes, which encloses the longer one of the verify routes; a handler that
  ends at any await is what `VerificationJobs` lets happen anyway.
- Load balancing is a single synchronous step over an index; the chain registry
  is built anew for every request.
- Of `known-events.ts` the kinds of logs that are told by themselves; of the
  viewers the HTML and CSS, which is most of their two files; of `mcp.ts` the
  tools other than the search, which keep no state; everything that renders.
- KV's eventual consistency between locations, and caches of other data centres.

Most of the repository by lines is rendering (JSX, HTML in strings, styles) and
the reading of contract fields into rows, which keeps no state and has no order
to get wrong; the models stand for the part that does.

## 6. Plan

Done: jobs, store, matching and listing of contract verification; the indexer
and its search; the fee payer; the queue; the snapshot viewers; the explorer's
state; proofs of every safety property of the runs. What could
follow:

1. A composition of `VerificationJobs` and `VerificationStore`: what a run
   reports to its job is what the store holds.
2. `KnownEvents` seen by a viewer, and the kinds of logs it leaves out.
