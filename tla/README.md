# A verification project for the Cmusic node

Cmusic is a full node in the Bitcoin and Ravencoin line: it receives blocks from
its peers, chooses a chain, keeps the unspent coins and the assets of that chain
in databases, and serves wallets and users from them. This directory holds TLA+
models of the parts on which everything else rests, TLC runs on small instances
of them, and proofs checked by TLAPS. Paths below are relative to the
repository's `src/` directory; `PROJECT.json` maps every definition to its lines.

    tlc -workers 2 -config CoinsCache.cfg MCCoinsCache     # model-check one run
    tlapm CoinsCache_proofs.tla                            # check the proofs of a module

## 1. The system and its parts

A block reaches the node as a header and later as data, from any peer and in any
order. The **block index** remembers it with its validity; **chain activation**
picks the branch with the most work and connects or disconnects blocks one at a
time. Connecting a block runs its script checks on the **check queue** and
applies it to a **stack of coin views**; the asset effects go to the **assets
cache**. Blocks and undo records lie in **block files**, of which a pruning node
deletes the old ones. From time to time **FlushStateToDisk** writes block files,
block index, coins and assets; after a crash **ReplayBlocks** puts the coins
right. Transactions wait in the **memory pool**, from which the **miner** takes
the next block. Observers (wallet, indexes, interfaces) hear of it through a
**scheduler** thread.

| Part | State | Operations that change it | What is hard about it | What should hold |
|---|---|---|---|---|
| Coin views (`coins.cpp`, `txdb.cpp`) | entries with DIRTY and FRESH flags in each cache, best block, the database | fetch, AddCoin, SpendCoin, BatchWrite, Flush, Uncache | a flag set wrongly shows only layers and flushes later | caches never lose or invent a coin; no logic_error |
| Block index, chain activation (`validation.cpp`, `chain.h`) | index entries and flags, candidates, unlinked blocks, failed blocks, tip, sequence ids | AcceptBlockHeader, AcceptBlock, ActivateBestChain, PreciousBlock, InvalidateBlock, ResetBlockFailureFlags, restart | `cs_main` is released inside ActivateBestChain; commands edit overlapping sets | CheckBlockIndex's assertions; the node settles on the best valid chain |
| Flush and recovery (`validation.cpp`, `txdb.cpp`, `init.cpp`) | blk and rev files, three databases, dirty sets | FlushStateToDisk, Shutdown, LoadBlockIndexDB, ReplayBlocks, LoadChainTip, VerifyDB | crash or power loss between any two writes, again during recovery; failing writes | the coins database is consistent or can be replayed; the node starts |
| Script check queue (`checkqueue.h`) | stack of checks, counters, verdict | Add, Loop of workers and master, Wait | lost and spurious wake-ups, interruption, reuse for the next block | Wait returns, with the verdict on the caller's checks only |
| Assets cache and database (`assets/`) | to-add, to-remove and undo sets in two caches, LRU caches, databases | Add/Remove of issues, reissues, transfers, owners, qualifiers, restrictions; Flush, DumpCacheToDatabase | answers are put together from five places; undo data of reissues | the asset state is that of the active chain |
| Scheduler (`scheduler.cpp`) | task queue by time, stop flags, callback queue | serviceQueue, schedule, stop, AddToProcessQueue, ProcessQueue | timed waits of several threads, stop with or without drain | due tasks run; callbacks one at a time in order |
| Block files, pruning, reindex (`validation.cpp`, `init.cpp`) | blk and rev files, positions in the index, CBlockFileInfo | FindBlockPos, FindUndoPos, FindFilesToPrune(Manual), UnlinkPrunedFiles, ThreadImport | crash between the index and the unlink; a pruned block comes again; unsigned heights; blocks out of order in the files | the index names what is in the files; what a reorganisation needs stays; a reindex finds everything |
| Memory pool (`txmempool.cpp`) | entries with ancestor and descendant totals, spends, asset maps | add, remove, removeForBlock, removeForReorg, trim, expire | totals are maintained incrementally; asset names | totals match the graph; every input exists; no conflict stays |
| Mining (`miner.cpp`) | mapModifiedTx, the block under construction | addPackageTxs, CreateNewBlock | cached totals go stale with every package | the best package that fits comes next |
| Version bits (`versionbits.cpp`) | cache of threshold states | GetStateFor | caching of a recursive definition | the state is a function of the chain |
| Difficulty (`pow.cpp`) | none | GetNextWorkRequired, DarkGravityWave | arithmetic at the limits | within the limit |
| Consensus checks (`consensus/`) | none | CheckTransaction, CheckTxInputs | pure | - |
| Scripts, signature cache (`script/`, `cuckoocache.h`) | cache table and epoch flags | insert, contains | lock-free flags | no false positive |
| Connections (`net.cpp`, `addrman.cpp`) | peers, bans, address tables | connect, evict, Add, Good, Attempt | random choices | tables consistent |
| Peer messages (`net_processing.cpp`) | blocks in flight, orphans, scores | ProcessMessage, FinalizeNode, timeouts | counters spread over peers | the counters match |
| Wallet, rewards and snapshots, messages | own databases that follow the chain | callbacks of the validation interface | reorganisations | follow the active chain |
| Startup, RPC, REST, GUI, ZMQ, tools | - | - | interfaces | - |
| LevelDB, secp256k1, univalue | - | - | libraries | - |

The first nine rows, down to mining, are modelled; `PROJECT.json` says how far,
and lists each of the others with the reason it is not, or not yet.

## 2. The modules

### CoinsCache and UtxoLayers: the stack of coin views

`CoinsCache` has the database (`db`, `dbBest`), the cache `pcoinsTip` over it
(`tip`, `tipBest`) and one short-lived `CCoinsViewCache` above that (`view`,
`viewBest`, `open`), as ConnectTip and DisconnectTip make one. An entry of a
cache is a record of a coin, which may be `Spent`, and the two flags, or
`NoEntry`. The operators `FetchCoin`, `AddCoin`, `SpendCoin`, `BatchWrite` and
`Uncache` are the methods of the class, and every action is one call on one of the
two caches with everything it does to the layers below: a read through the view
fills both. `AddTxOutput` is the one action with a promise of the caller in its
guard: outputs of a transaction that is not a coinbase are new.

`UtxoLayers` is what the stack promises: three plain maps from outpoints to
coins, without flags. A put or a spend changes the top one, a flush copies one
layer onto the next, a drop or a restart forgets one. `CoinsCache` implements it
under the mapping that reads each layer through the ones below (`ImplementsLayers`).

### ChainActivation: which chain is active

One variable per container or flag of the block index (`index`, `data`,
`linked` for nChainTx, `scripts`, `failedValid`, `failedChild`, `failedBlocks`
for g_failed_blocks, `candidates`, `unlinked`, `sequenceId`, `tip`). The actions
are the handlers: a header is accepted or refused; a block is ignored, rejected,
or stored and linked together with everything that waited for it; a thread in
ActivateBestChain takes one turn of its loop, in which it holds `cs_main`
(`FindMostWorkChain`, one `ActivateBestChainStep` with its disconnections and
connections, `PruneBlockIndexCandidates`), and keeps `pindexMostWork` for the
next; PreciousBlock, InvalidateBlock and ResetBlockFailureFlags; a clean restart,
which forgets what is not stored. `Address` is the order of the pointers by which
the comparator breaks the last tie. `BadContext` and `BadConnect` are the blocks
that fail the contextual check and the connection; validity of a block is
given, not computed. A copy of a block of `Damaged` may come back from disk with
other contents, or its undo data may not be readable: ConnectBlock then fails with
"corruption possible" and InvalidBlockFound marks nothing, and a disconnection
stops with the chain half way down.

### ChainstateFlush: the disk

The databases and files on one side, the caches in memory on the other, and for
each what is surely on the medium (`blkSynced`, `revSynced`, `dbSynced`,
`assetsdbSynced`). `rev` holds what the undo record of a block restores, for the
blocks that have one. A coin is the height at which it was created, so that the same
transaction on two branches gives two different coins. One thread holds `cs_main`
and `phase` says where in FlushStateToDisk or in the startup it is; the coins are
written in batches of any size (`BatchWrite(part, last)`), the assets one record
after the other. `Crash` ends the process between any two writes and keeps them;
`PowerLoss` also loses unsynced file data, any part of it, and takes the
two unsynced databases back to an earlier write; `WriteBatchSyncThrows` and
`BatchWriteThrows` are failing writes, after which the node shuts down and
flushes once more. A new block goes to the last block file or opens the next one,
and undo data to the file of its block; FlushBlockFile syncs the last file of each
kind. `ReplayBlocks`, `LoadChainTip`, `VerifyDB` and
the flush in RewindBlockIndex follow the order of AppInitMain. `Crash`,
`PowerLoss` and `SyncDatabases` model the operating system and LevelDB.

### CheckQueue: parallel script checks

A step is one critical section of the queue's mutex. Workers run `Loop` for ever;
a master takes the ControlMutex (`Enter`), adds checks, joins the loop in `Wait`
and leaves (`Leave`, also after an early return without Wait, where the
destructor waits). Sleeping on a condition variable and being runnable again are
different places of `pc`, so a lost notification would show; a spurious wake-up
and the interruption of a thread are actions. The queue is a stack in
the code; a batch here is any subset of the right size, which allows more.

### Scheduler and SerialQueue: background tasks

`Scheduler` has the queue of `CScheduler` with its counters and stop flags, any
number of threads in serviceQueue, threads that schedule jobs or add callbacks,
and the main thread that stops, drains or interrupts them. A step is a critical
section or a notification, which schedule and stop send after giving up the
mutex; `pc` tells a thread that sleeps from one that was woken. `Tick` is the
clock, `SpuriousWakeup` the condition variable. `SingleThreadedSchedulerClient`
is in the same module, because its ProcessQueue is a task of the scheduler and
its MaybeScheduleProcessQueue takes the client's mutex first and the scheduler's
later. `SerialQueue` is what it promises.

### AssetsCache and RestrictedCache: assets

Both follow a block tree: `ConnectTip` validates a block in a fresh view over
`passets` and flushes the view, `DisconnectTip` undoes it with the stored undo
data, `DumpCacheToDatabase` writes `passets` out, and `Query` and `Evict` actions
move the least-recently-used caches. `RestrictedCache` has the commands that tag
an address, freeze it or freeze an asset, which run the same code on three pairs
of sets. `AssetsCache` extends it with issue, reissue and transfer, verifier
strings and the balances of `-assetindex`; a layer is one `CAssetsCache`.
`mapReissuedAssets` has the reissues in the memory pool, which lock their asset
against every other reissue, also one in a block (`LockReissue`, `UnlockReissue`
and the end of ConnectTip). A transfer of a restricted asset needs the verifier's
qualifier to exist and the receiver to hold it. Each
property compares what validation reads with a reference computed from the
blocks of the active chain.

### BlockFiles: block and undo files

`blk` and `rev` are the contents of the files, `index` and `vinfo` what the node
believes of them, `tree` what the block index database has. Blocks are stored by
`AcceptBlock`, undo records by `ConnectTip`; `FlushStateToDisk` chooses what to
prune, then `WriteBlockIndex`, `UnlinkPrunedFile` and `FlushCoins` are steps of
their own with a crash possible between any two. `Restart` loads what is stored;
with -reindex `WipeTree`, `CleanupBlockRevFiles`, `WipeCoins` and the import of
the files follow, and may be interrupted and resumed. Which chain is active is
left open, so the module holds for every choice of ChainActivation.

### TxPool, BlockAssembler, Mempool: unconfirmed transactions

`TxPool` is `CTxMemPool` as operators on one record: entries with links, fee
delta and cached totals, mapNextTx, mapDeltas, the asset maps and the rolling
minimum fee, which `TrimToSize` raises. They are
the code's functions under their names, so that `removeForBlock` here calls
`RemoveStaged` and `removeConflicts` as there. `BlockAssembler` is the miner's loop
over the pool (`addPackageTxs`) with mapModifiedTx and failedTx, and next to it
`GreedyTemplate`, which is the same choice without bookkeeping. `Mempool` adds
the chain, the disconnectpool and what calls these functions:
`AcceptTransaction` with the minimum fees, replacement and the limits,
`Prioritise`, `DecayMinFee` for the decay of the rolling fee, `ConnectTip`,
`DisconnectTip`, `UpdateMempoolForReorg`, the repair of the pool in
`CreateNewBlock`, and `Restart` through mempool.dat. A reorganisation is several
steps (`phase`), since the pool is inconsistent in between; `cs_main` keeps
everybody else out, so the properties speak of `phase = "idle"`.

### How they fit together

`ChainActivation` decides on the tip; `ChainstateFlush` lets the tip move along
any branch, which includes every choice of the former, and follows what that
does to the disk. It takes what the caches answer as one map with a dirty set:
`CoinsCache` shows that the stack of flagged caches is such a map.
`AssetsCache` does for the assets what
`ChainstateFlush` does for the coins, without crashes, and `BlockFiles` refines
where the latter's blocks and undo data are. `AssetsCache` extends
`RestrictedCache` and runs its operations as part of its own. `Mempool` takes the chain's
moves as ChainActivation makes them, disconnections first, then connections.
ConnectBlock's one bit "all scripts are valid", which `ChainActivation` takes
from `BadConnect`, is what `CheckQueue` shows the parallel checks to deliver.

`MC*` modules give TLC its instances; `*_proofs` modules hold the theorems.

## 3. The runs

State counts are TLC's distinct states; every passing run explores its instance
completely. The `TypeOK` of a module says what its state looks like; it is proved
for `CoinsCache` and is left out of the configurations, where the properties that
read the same variables are the stronger check.

| Run | Instance | Checked | Shows |
|---|---|---|---|
| `coins_cache` | 2 outpoints, 2 spendable coins and an unspendable one, 2 block hashes | `FlagsSound`, `ImplementsLayers` | no order of fetch, add, spend, flush, drop, uncache and restart makes a flag lie or a coin appear or vanish |
| `chain_commands` | tree g-a1-a2-a3 and g-b1-b2; a3 fails its context check, b2 fails to connect; one activating thread; invalidateblock of a1, a2, b1, reconsiderblock of a1, b1; restarts | `LinkingComplete`, `ScriptsUpward`, `CandidatesComplete`, `ActiveChainValid`, `FailedSetIsFailed`, `SettledOnBest`, `TipOnlyImproves` | received blocks are linked, no block counts as checked before its parent, candidates and failed blocks are what CheckBlockIndex and AcceptBlockHeader assert, the node settles on the best valid chain and leaves a tip only for a better one or for a failure |
| `chain_threads` | tree g-a1-a2 and g-b1-b2, b2 fails to connect, the copy of a2 on disk may be damaged; two threads; preciousblock of b1, invalidateblock of a1 | `FailureHasACause`, `ActivationEnds` | with two threads, each with its own remembered target, no block is held for failed without a cause in its branch, and every call of ActivateBestChain returns unless it comes upon the damaged block again and again (64,477 states) |
| `flush_crash` | tree g-p-a and g-p-b-c, 3 outpoints, one asset issued on both branches; 2 crashes | `DatabaseConsistent`, `IndexCoversCoins`, `AssetsFollowTip`, `Recovers` | wherever the process dies, also while it recovers, the coins come back and the node starts (52,099 states) |
| `flush_power` | tree g-p-a and g-p-b, 2 outpoints, 2 block files; 1 power loss and 1 failing write | `AlwaysRecoverable`, `IndexedDataSynced`, `SameTransition` | the unsynced databases may fall back to an earlier write without harm, a power loss takes nothing the index names but undo data in an earlier rev file, and BatchWrite's assertion about an unfinished transition holds (2,302,662 states) |
| `check_queue` | 2 workers, a master that uses the queue twice, 4 checks of which one fails, batches of at most 2, 1 interruption | `VerdictExact`, `QueueIdle`, `WaitReturns` | no wake-up is lost, and the verdict is on the caller's checks (147,131 states) |
| `scheduler` | 2 service threads, one producer with a job (once or repeating) and 2 callbacks, the stopping thread; the clock goes from 0 to 1 | `ImplementsSerialQueue`, `CallbacksRun`, `DueTasksRun`, `StopEnds` | callbacks run one at a time, in order, and none is forgotten however the threads are stopped; due tasks run (182,083 states) |
| `assets` | a tree of 25 blocks with issues, reissues, transfers, verifier changes and commands, several of them in one block; 3 names, 2 addresses, one reissue in the memory pool | `MetadataFollowsChain`, `VerifiersFollowChain`, `BalancesFollowChain`, `CommandsFollowChain`, `VerdictFollowsChain` | whatever was dumped, cached or evicted before a reorganisation, validation reads what the active chain says, and accepts the blocks that are valid after it, with the two exceptions of section 5 (104,413 states) |
| `block_files` | tree g-a1-a2 and g-a1-b2, 4 files of 3 units; 1 crash, 1 reindex | `BlocksReadable`, `ActiveChainUndoable`, `TornFlushRecoverable`, `ReindexComplete` | index and files agree at every step and after a crash at every step; a reindex finds every block the files connect (1,730,914 states) |
| `mempool` | a chain of 3 transactions with a shortcut, a conflict of each of the first two (a replacement and a second reissue among them), two issues of one name, a spend of a coinbase; 11 blocks, chains of up to 3 | `TotalsExact`, `InputsAvailable`, `LocksHeld`, `NoneInvalidated`, `TemplateGreedy`, `RestartRestores` | totals and locks stay exact and every input available through blocks, reorganisations, replacement, eviction and restarts, and the miner's incremental totals choose what a full search would (93,777 states) |

Two runs show a disagreement between the code and what the repository says of
it. Each checks one property that TLC refutes; the passing run of the module
leaves out the one transaction or branch that is needed for it.

| Run | Refuted | What happens |
|---|---|---|
| `stale_reissue` | `MetadataFollowsChain`: "the removal of the issue should remove all data pertaining the to asset" (`assets/assets.cpp:2492`) | the metadata of a reissue stays in mapReissuedAssetData when issue and reissue are undone, and answers for the next issue of the name |
| `orphaned_child` | `InputsAvailable`: "Check that every mempool transaction's inputs refer to available coins, or other mempool tx's" (`txmempool.cpp:1106`) | removeForBlock takes out a transaction that the block's asset commands make invalid and leaves its children |

### Bounds, and why they are enough

- *CoinsCache.* Entries of different outpoints do not influence each other
  except through a flush, so two are enough to have a flush of entries in
  different states; two spendable coins make an overwrite visible. The
  state space is finite without a bound, and the theorems cover every size.
- *ChainActivation.* Two branches of different length, each with a block
  that can fail, give reorganisations that succeed, fail half way and
  return. Every block carries the same work, so ties are frequent. `Int32Min` is
  -4, so that the counter of preciousblock saturates. `MinBlocksToKeep` 1 makes
  "too far ahead" reachable. The run with two threads checks no property about the
  final tip, because what it would check does not survive a second thread or a
  damaged block (section 5).
- *ChainstateFlush.* Block c repeats the transaction of a one block higher and
  has an output that it spends itself: the two cases in which a replay over a
  half-written database could go wrong. The fork p with branches of different
  length gives reorganisations between flushes. Two crashes allow one within the
  recovery of the other. `CheckBlocks` 1 lets VerifyDB disconnect two blocks
  and stop before the genesis. Two block files are enough for undo data to go to a
  file that is no longer the last one, and p, a and b for a reorganisation there.
- *CheckQueue.* With 4 checks the computed share is 2 while only one thread has
  entered the loop and 1 later, so batches of one and two occur. Two rounds show what is
  carried from one user to the next. Contention of two masters for the
  ControlMutex is a plain mutex, and the theorems cover any number.

- *Scheduler.* Two threads are enough for one to sleep until a time while the
  other takes the task it sleeps for. One tick separates early from due. A job
  that repeats is inserted behind the end of time once, which is enough for a
  drain that does not end. Callbacks are numbered in the order of their arrival.
- *AssetsCache.* The blocks give every command its undo, on both sides of a
  fork, with two issues of one name in different branches. Three blocks have a
  second transaction that depends on the first: a transfer of the asset just issued,
  a second reissue of an asset, a tag with the qualifier just issued; two more
  have a transfer behind a change of verifier, which does not count for it yet. The constraint
  `OneAsset` keeps a history to the blocks of one asset or of the commands: the
  maps are keyed by name and the code reads no two names together, except that a
  transfer of a restricted asset reads the qualifier and the commands, which the
  constraint allows.
- *BlockFiles.* Three units per file make a block open a new file and an undo
  record go to an earlier one. `MinBlocksToKeep` and `PruneAfterHeight` are 1,
  so that a chain of height 2 has something to prune; the target of 5 units is passed
  by the third block. The fourth file and the number of slots are bounds; a store that
  would need more does not happen.
- *Mempool.* Limits of 3 ancestors and descendants are passed when a chain is
  put together by a reorganisation, 4 entries by the fifth transaction, a
  disconnectpool of 3 by the second block of two. The shortcut in the chain makes
  a descendant reachable along two paths, which a double count would show. Fees
  are such that packages beat single transactions and two rounds of mapModifiedTx
  follow each other. The minimum relay fee of 2 is above some of the fees, so that
  only a reorganisation or a fee delta lets those in, and a replacement may evict 2
  transactions, which the chain of 3 passes. The rolling fee decays to 0 at once,
  as it does in the end. All transactions have the same size. At most one entry
  expires at a time.

`CHECK_DEADLOCK FALSE` is set where the system may stop: in the chain runs, when
all blocks of the instance have arrived and all commands have nothing left to
change; in `flush_power`, where a node whose database cannot be replayed
refuses to start; in `scheduler`, when all has been handed over and stopped; and
in `block_files`, when the files of the instance are full. The others check for deadlock; `check_queue` does so with
spurious wake-ups and pending rounds as the only further steps of an idle queue.

### Fairness

- `ChainActivation!FairSpec`: a thread in ActivateBestChain goes on. It holds no
  lock between turns and waits for nothing but `cs_main`, which every other
  holder releases.
- `ChainstateFlush!FairSpec`: the thread that flushes goes on, and a stopped
  node is started again. The second is the user's or the service manager's doing;
  without it there is no recovery to speak of.
- `CheckQueue!FairSpec`: a thread that can take the mutex eventually does, and a
  check terminates (scripts are bounded). Nothing is assumed of spurious
  wake-ups or of the master's own code between Add and Wait.

- `Scheduler!FairSpec`: time passes, a thread that can go on does, a wait that
  has timed out returns, an interruption is noticed at the next interruption point, and
  jobs and callbacks return. Nothing is assumed of producers, of the stop or of
  spurious wake-ups. The fairness of the timeout is separate, since a thread
  may be woken for no reason again and again.

`AssetsCache`, `BlockFiles` and `Mempool` have safety properties only:
`ReindexComplete` is an action property, and the other two are sequential under `cs_main`.

## 4. The proofs

TLAPS checks the following for every value of the constants that satisfies the
named assumptions, so for every block tree and every number of threads, coins
or checks.

**CoinsCache_proofs** (`ConstantsAssumption`: the special values are distinct from
the coins). `TypeCorrect`, `FlagsAlwaysSound` and `Refinement`.
The inductive invariant is `IInv`, which is `TypeOK`, `FlagsSound` and
`ClosedIsEmpty`. `FlagsSound` says for both caches that an entry without DIRTY
agrees with the layer below and that FRESH occurs only over a spent coin. It is
what makes BatchWrite's case analysis right: `BatchWriteEffect` shows that after
it the parent answers what the child answered, and is sound again, and `FreshChildOverSpent` that sound flags
exclude its logic_error. One lemma per operator says what it does to the answers of
a layer (`FetchIsInvisible`, `SpendCoinEffect`, `AddIsPut`, `UncacheIsInvisible`);
the lemma `Step` uses them for the invariant and the refinement at once.

**ChainActivation_proofs** (`BlockTree`, `ParameterTypes`) proves every safety
property of the two chain runs, in layers that each use the one before:

- `LinkInv` gives `LinkingAlwaysComplete`: blocks may arrive in any order, and
  those with all ancestors are linked, the others are in mapBlocksUnlinked. The
  heart is `LinkBlockCompletes`, that the queue in ReceivedBlockTransactions
  reaches every waiting descendant whose ancestors are now complete, and no other.
- `ActivationTypes` has the types, and that no block that cannot be connected is in
  the active chain.
- `ValidInv` gives `ChainAlwaysValid` and `ScriptsAlwaysUpward`. The active chain is
  valid because the targets are: with one thread a remembered pindexMostWork does
  not go bad, and without invalidateblock only blocks that cannot be connected, and
  their descendants, ever fail. One of the two is the premise, and it is needed
  (section 5).
- `CauseInv`, which says where a failure flag can come from, gives
  `FailedSetAlwaysFailed` and `FailureAlwaysHasACause`, for any number of threads, any
  damaged files and any use of the commands. The first says of g_failed_blocks what
  the assertion at 4363 demands, for every block but those of which a descendant
  can be named in reconsiderblock; those it does break (section 5).
- `BestInv` gives `AlwaysSettledOnBest`, `CandidatesAlwaysComplete` and
  `TipAlwaysImproves`. Between calls every valid linked block is a candidate or worse
  than the tip; in the middle of a call that is too much to ask, since the walk to a
  block that turns out invalid prunes candidates. What survives is that a block
  which is no candidate is beaten by one that can be connected and is not failed.
  The premise is `BestPremise`: one thread, no damaged files, preciousblock and
  invalidateblock not both in use, and `TopReconsidered`, that reconsiderblock names
  no block below another that can fail. `PreciousInv`
  bounds the sequence numbers that preciousblock hands out.

That a finite set of candidates has a best one, and that the walk down from a
candidate ends at the lowest failed block, are shown by least counterexamples.

**ChainstateFlush_proofs** (`BlockTree`, `ValidBlocks`, `Bounds`) proves every safety
property of the two flush runs:

- `IndexWrittenFirst`: if no database write fails, the coins database never names a
  block whose branch, with undo data, is not in the stored index, with any number of
  crashes and power losses. `FlushInv` explains why the order of the writes is
  enough: an entry that differs from the stored one is dirty; stored undo data is
  never forgotten; while the coins are written nothing on their branch is dirty.
  The premise `MaxWriteErrors = 0` is needed: after a failed index write the dirty
  set is empty already (`validation.cpp:3017`) and the flush of Shutdown writes
  coins past the stored index.
- `OneTransition`: with failing writes too, a coins database in transition is only
  ever completed towards the same block, as BatchWrite asserts. `TransitionInv` ties
  the stored pair of heads to what the node has in memory in every phase.
- `DatabaseAlwaysConsistent`: a database that names a best block has exactly the
  coins of its branch. `CoinInv` says that the view is the coins of the tip and
  differs from the database in dirty coins only, and that a database in transition
  is `Mixed`: each coin is that of the old or of the new head.
- `ReplayAlwaysRecovers`: from such a database, with what the index names,
  ReplayBlocks arrives at the coins of the new head (`ReplayRight`), however often it
  was cut off before, with any number of block files and power losses, unless one of
  them took undo data of the old branch from an earlier rev file. `FileInv` and
  `GenesisInv` have what it reads in the files.
- `IndexedDataAlwaysSynced`: with any number of block files and failing writes, what
  the stored index names is synced, except undo data in an earlier rev file. `StoredInv`
  is not inductive without `LoadedInv`, by which everything that memory names outside
  the last file is synced already, so that FlushBlockFile completes it.
- `AssetsAlwaysFollowTip`, without power losses (`AssetInv`). The property itself
  speaks of a node that did not crash.

What rolling back and rolling forward compute is recursive along a branch. For each
walk the value at every height is given in closed form, which solves the recursion, and
by the least height at which the two would differ there is no other solution.

**CheckQueue_proofs** (`QueueAssumption`). `WaitIsExact`, `IdleQueueIsClean` and
`TodoIsExact`, with any number of workers, masters, checks and interruptions and
any batch size. `QueueInv` adds to them where a thread may be with a batch and
who owns the queue (`Places`), and what the partial verdicts mean (`Verdicts`): a
TRUE vouches for all checks accounted for, a FALSE is due to one of the
present caller's checks. The second half is what a stale verdict would break.

**RestrictedCache_proofs** (`RestrictedAssumption`). `CommandsAlwaysFollowChain`:
for every block tree and every placement of commands, what validation reads
about a key that is not a root qualifier is what the commands of the active
chain add up to. `CommandInv` holds the reading `On` against the reference, and
needs one fact about the past: every block of the active chain changed what its
commands name, since a command without effect is not its own inverse when it is
undone. That is what the checks in ConnectBlock guarantee.

**AssetsCache_proofs**. `AssetsFollowCommands` carries the previous theorem over to
the whole asset state, of which the command cache is a part (lemma `RefinesRestricted`).
`CachesAlwaysCoherent`: whatever the transactions in the blocks, the layer over the
databases never holds a name both as added and as removed, and the metadata cache
agrees with the database. `MergedDisjoint` shows the first for a view with any
content, so nothing about the transactions enters.

**Scheduler_proofs** (`SchedulerAssumption`). `ClientIsSerial`: with any number of
service threads, producers, jobs and callbacks, and whatever is woken,
interrupted or stopped, SingleThreadedSchedulerClient implements `SerialQueue`.
The invariant `SerialInv` says that m_are_callbacks_running is set exactly while
some thread is inside a callback, and that it is never two: the flag, tested
and set under one lock, is all that orders the callbacks, since several tasks
for ProcessQueue may be in the queue at once. `Invisible` collects what every other
step leaves alone, so that it maps to a stutter.

**BlockFiles_proofs** (`BlockFilesAssumption`, `NoneAssumption`). `AlwaysReadable`:
for every block tree, every size and number of files, all pruning parameters and
any number of crashes and reindexes, what the index in memory or in the database
names is in the files. `BlocksReadable` is not inductive, since it does
not say where the next record goes. `FilesInv` adds that the sizes in
CBlockFileInfo cover all that their index names (`Covers`); that what the
database names, memory names at the same place, except between pruning and the
write of the index (`Extends`), so that a record appended after the sizes in
memory also misses those of the database; that what differs from the database
is marked dirty (`Tracks`), so that the write makes the two equal before a file is
unlinked (`Unnamed`); and that an index without the genesis block is empty
(`Rooted`), which is why LoadGenesisBlock may write to the start of the first file.

`AlwaysUndoable` and `TornFlushAlwaysRecoverable` rest on `UndoInv`: above the height
that pruning was allowed to reach, the branch of the tip has its undo data in the
index in memory, and the branches of the two heads that the coins may come back with
have it there while the node runs and in the database unless that was just wiped.
`Reaches` says that no block in a file is higher than nHeightLast of the file, by
which FindFilesToPrune goes, and `PruneLimit` that the height up to which it may
prune, an unsigned difference, is at most MinBlocksToKeep below the tip.
`ReindexAlwaysComplete` rests on `ImportInv`: every block in the slots already read
is in the index or waits in mapBlocksUnknownParent, and a block waits for a parent
that is known only while the parent is in the queue. A block left out in the end
would have a lowest ancestor left out, and its parent would be known.
`Chain` is a recursive function; `ChainFacts` shows that its equation has a
solution, the closure under Parent, and every later step uses only that equation.

The proof modules say `USE Zenon`: first-order steps go to Zenon, and those with
arithmetic or records name SMT.

Only model-checked:

- the liveness properties (`ActivationEnds`, `Recovers`, `WaitReturns`,
  `CallbacksRun`, `DueTasksRun`, `StopEnds`), since fairness is out of the prover's
  reach;
- everything about the memory pool and the miner, whose walks and loops are
  recursive operators;
- the properties of `AssetsCache` that compare with the ledger of the chain
  (`MetadataFollowsChain`, `VerifiersFollowChain`, `BalancesFollowChain`,
  `VerdictFollowsChain`): both sides are folds over the transactions of a block, and
  induction over a fold takes an operator as a parameter. They also hold only for
  blocks of a certain shape, as `stale_reissue` shows.

## 5. What the models leave out

- *ChainActivation*: pruning and with it the missing-data branch of
  FindMostWorkChain; `pindexBestHeader` and `pindexBestInvalid`, which do not
  influence the tip.
  The work done inside one hold of `cs_main` is one step.
- *ChainstateFlush*: `-reindex` and pruning (in BlockFiles), the upgrade of old
  databases, the optional address, spent and timestamp indexes, entries of headers
  without data, and the second flush in Shutdown, which has nothing left to write.
  Of the asset state only the names of issued assets are there.
- *CheckQueue*: which checks of a batch run after a failure (no difference to the
  verdict). nIdle and nTotal are off after an interruption, as in the code; they
  decide only the size of a batch.
- *CoinsCache*: the memory accounting, the database cursor, and the asset calls
  of AddCoins and SpendCoin.
- *Scheduler*: RandAddSeedSleep and the wall clock going back.
- *AssetsCache*: owner tokens, unique, sub- and message-channel assets, IPFS
  hashes, verifier strings with more than one qualifier, `fReindex`, and crashes. Of
  the memory pool only the locks on reissued assets are there.
- *BlockFiles*: a node without `-prune`, `-loadblock` and bootstrap.dat, blocks
  from peers or submitblock during a reindex, a full disk, RewindBlockIndex,
  VerifyDB.
- *Mempool*: sizes, the time at which the rolling fee has decayed, lock times, the fee estimator,
  the address and spent indexes, `-autofixmempool`, MAX_CONSECUTIVE_FAILURES, and
  unfreezing. The maps for verifier strings and qualifiers are left out because
  they have no effect: the test they lead to,
  `CheckTransaction(tx, state, passets)` (`txmempool.cpp:892`, 908 and 925),
  takes the pointer for its flag fCheckDuplicateInputs and never looks at assets.

Met while modelling and not the subject of a run. In chain and flush:

- two threads in ActivateBestChain can leave the node on a worse tip than it
  had: pindexMostWork is kept while `cs_main` is released (`validation.cpp:3641`),
  and a thread that resumes with a target which another has passed goes back to
  it. "The result is either failure or an activated best chain" (3616) holds with
  one thread (`SettledOnBest` in `chain_commands`) and fails with a second thread
  on a single chain of three blocks;
- if the second thread runs invalidateblock on a block of that target meanwhile, the
  first connects it all the same: RaiseValidity refuses to raise a failed block
  (`chain.h:364`), its child is raised, and the active chain contains a failed block.
  `ScriptsUpward` and `ActiveChainValid` need either one thread or no invalidateblock;
- a block that comes back damaged from disk stays the best candidate, since
  InvalidBlockFound leaves it (1532): ActivateBestChainStep returns true, and the loop
  of ActivateBestChain finds the same block again, for as long as the disk returns the
  same. The call then neither fails nor activates the best chain, against the
  comment at 3616; `ActivationEnds` says so, and that there is no other endless loop;
- reconsiderblock of a descendant clears an invalidated ancestor's flag and leaves
  the ancestor in g_failed_blocks, against the assertion at 4363. `FailedSetIsFailed`
  makes that one exception, and it is proved that no other path breaks the assertion;
- preciousblock counts down from -1 again once the tip has more work. If
  invalidateblock then takes the node back to a tip that was made precious
  before, naming that tip once more gives it a higher sequence number than it had,
  and it may come to stand behind a valid block that is no candidate any more:
  `SettledOnBest` fails if a1, a2 and b1 can be made precious and invalidated in
  `chain_commands`, and is proved with only one of the two commands in use;
- a crash between the coins write and the asset write, or during the former,
  loses the assets of the flushed blocks: ReplayBlocks replays coins only (5137);
- undo data appended to an earlier rev file is indexed and not synced (2275),
  against "First make sure all block and undo data is flushed to disk" (3003). A
  power loss may take it, and a node that must roll back a branch over it in
  ReplayBlocks does not start. `IndexedDataSynced` and `AlwaysRecoverable` make exactly
  this exception, which `flush_power` reaches with two files: without it TLC refutes
  both;
- the entries of a coins batch that failed are no longer in the cache when
  Shutdown flushes again, which then marks the database consistent (`txdb.cpp:142`);
- a shutdown before the genesis block is connected reaches the assertion at
  `txdb.cpp:97` (action `BatchWriteAsserts`);
- a header below an invalidated block is accepted if its parent was once fully
  validated (`validation.cpp:4360`), and a block marked at 4477 does not
  enter g_failed_blocks;
- the counter of preciousblock starts again at -1 when the tip has more work than
  at the last call, so a block named earlier with more work than the tip may tie
  with or precede the one named now (`validation.cpp:3700`).

In the scheduler:

- with two service threads a task can start early: a thread whose wait has timed
  out takes the first task of the queue, which may be another one by then. The node
  has one service thread, with which it cannot happen.

In the assets:

- root qualifiers get their list of sub-qualifiers from a map that an undo does
  not restore (`assets/assets.cpp:2987`), so the theorem excludes them;
- of two changes of a verifier string in one block the second is lost, since the set
  they are inserted in keeps the first; no block of the instance has two;
- what `passets` removed is read before what the view of the block being connected
  added (`assets/assets.cpp:3439`, 3355). A block that issues a name and uses it again,
  and that is undone and connected once more before a dump, is refused
  (`tx_verify.cpp:708`), although it is valid and was accepted the first time. In the
  same state a block that issues the name twice would be accepted, the second issue
  without effect. `Shadowed` describes the blocks concerned, and
  `VerdictFollowsChain` leaves out these and no others;
- mapReissuedAssets is consulted by ConnectBlock as well (`tx_verify.cpp:744`): the
  verdict on a block depends on the memory pool until the lock is freed. These
  blocks, `LockedOut`, are the only other valid ones that are refused;
- block height and hash of an asset are uninitialised when its metadata comes
  from mapReissuedAssetData.

In the block files:

- a crash between the unlink of pruned files and the end of the coins flush
  cannot be replayed if more than MIN_BLOCKS_TO_KEEP blocks were not flushed;
  `TornFlushRecoverable` is stated for the others;
- ThreadImport stores the end of a reindex (`init.cpp:754`) before the index itself
  is flushed;
- the subtraction at `validation.cpp:4656` is unsigned and would wrap around on a
  short chain; what prevents it is the test against PruneAfterHeight in the caller.

In the memory pool:

- a reorganisation puts entries into the pool that acceptance would refuse: in chains
  that are too long, or below the minimum relay fee (`validation.cpp:713`), as does
  taking back a fee delta. LoadMempool asks for both, so such entries do not survive a
  restart; nor does a command whose twin a block has given meanwhile.
  `RestartRestores` names these exceptions;
- a second pending freeze or tag is refused only after addUnchecked
  (`validation.cpp:1031`), so it stays in the pool, unregistered, although the
  sender is told otherwise;
- CheckTxInputs does not set the failed transaction of the state (the last
  argument of its DoS calls is ignored), so CreateNewBlock's repair removes
  nothing when an input is missing, and block creation goes on failing, for
  instance after `orphaned_child`;
- the locks are stored with the assets and read at startup whatever mempool.dat
  holds (`init.cpp:1607`): an entry that expires while the node is down leaves a lock
  that nothing frees until that very transaction is confirmed.

## 6. Plan

Done: the coin views, chain activation, flush and recovery, the check queue, the
scheduler, assets and restrictions, block files with pruning and reindex, the memory
pool and the miner's choice. Next, in this order:

1. **Version bits**: the cached threshold state against a direct definition.
2. Blocks in flight of `net_processing.cpp`, and the tables of `addrman.cpp`.
3. The wallet's view of the chain behind the validation interface.
4. A composition of BlockFiles with ChainActivation, for the pruned block that
   comes again while it is a candidate (`validation.cpp:3876`).

Theorems to follow: the ledger properties of `AssetsCache`, once its folds are
written as recursive functions of the position in a block; the totals of the memory
pool, for which `TxPool` would have to give up its recursive operators.
