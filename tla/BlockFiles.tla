----------------------------- MODULE BlockFiles -----------------------------
(***************************************************************************)
(* Where blocks and their undo data live on disk (validation.cpp):         *)
(* blk?????.dat and rev?????.dat, the positions the block index keeps of   *)
(* them, the sizes and heights CBlockFileInfo keeps of the files, pruning, *)
(* the order in which FlushStateToDisk writes all that, the load at        *)
(* startup and -reindex.                                                   *)
(*                                                                         *)
(* A block and an undo record have one unit of size, and so have the       *)
(* chunks in which files grow.  A stop keeps what was written to files and *)
(* databases; ChainstateFlush has the loss of what was not synced.  Which  *)
(* blocks become the active chain is in ChainActivation: here it may be    *)
(* any whose data is there, as with invalidateblock and reconsiderblock.   *)
(* The node runs with -prune.                                              *)
(***************************************************************************)
EXTENDS Integers, FiniteSets, Sequences, FiniteSetsExt

CONSTANTS
    Blocks, Genesis, Parent, Height,
    None,
    MaxBlockfileSize,   \* MAX_BLOCKFILE_SIZE
    NumFiles,           \* the bound on block files
    MinBlocksToKeep,    \* MIN_BLOCKS_TO_KEEP
    PruneAfterHeight,   \* of the chain parameters
    PruneTarget,        \* nPruneTarget; MaxUint64 of init.cpp means manual only
    UintRange,          \* 2^32, the range of unsigned int
    MaxCrashes, MaxReindexes

\* chainparams.cpp: 1000 or 100000 against 288.
ASSUME BlockFilesAssumption ==
    /\ IsFiniteSet(Blocks)
    /\ Genesis \in Blocks /\ Height \in [Blocks -> Nat] /\ Height[Genesis] = 0
    /\ \A b \in Blocks \ {Genesis} : Parent[b] \in Blocks /\ Height[b] = Height[Parent[b]] + 1
    /\ MinBlocksToKeep \in Nat \ {0} /\ PruneAfterHeight \in Nat
    /\ MinBlocksToKeep <= PruneAfterHeight
    /\ MaxBlockfileSize \in Nat /\ MaxBlockfileSize > 1
    /\ NumFiles \in Nat \ {0} /\ UintRange \in Nat \ {0}

VARIABLES
    pc,             \* where the thread that holds cs_main is
    tip,            \* chainActive.Tip(), or None
    index,          \* mapBlockIndex: None, or where the data and the undo data are
    vinfo,          \* vinfoBlockFile
    lastFile,       \* nLastBlockFile
    dirtyBlocks,    \* setDirtyBlockIndex
    dirtyFiles,     \* setDirtyFileInfo
    check,          \* fCheckForPruning
    reindex,        \* fReindex
    import,         \* the progress of ThreadImport
    flush,          \* locals of FlushStateToDisk: what to unlink, whether to go on to the coins
    blk, rev,       \* the contents of blk?????.dat and rev?????.dat
    tree,           \* pblocktree: entries, file infos, last file, the reindexing flag
    coins,          \* best and previous block of pcoinsdbview; they differ in a torn flush
    count           \* crashes, reindexes, and the height below which blocks were pruned

files == <<index, vinfo, lastFile, dirtyBlocks, dirtyFiles>>
vars == <<pc, tip, files, check, reindex, import, flush, blk, rev, tree, coins, count>>

Files == 0..(NumFiles - 1)
Slots == 0..(Cardinality(Blocks) - 1)

NoInfo == [size |-> 0, undoSize |-> 0, heightLast |-> 0]
NoData == [at |-> None, undo |-> None]
NoImport == [file |-> 0, slot |-> 0, queue |-> <<>>, unknown |-> {}]
NoFlush == [unlink |-> {}, full |-> FALSE]

Position == [file : Files, slot : Slots]
Entry == {None} \cup [at : Position \cup {None}, undo : Slots \cup {None}]

ASSUME NoneAssumption ==
    /\ None \notin Blocks \cup Slots \cup Position
    /\ None \notin [at : Position \cup {None}, undo : Slots \cup {None}]

HaveData(b) == index[b] # None /\ index[b].at # None
HaveUndo(b) == HaveData(b) /\ index[b].undo # None
\* nFile is 0 without data.
FileOf(b) == IF index[b].at = None THEN 0 ELSE index[b].at.file

-----------------------------------------------------------------------------
\* FindBlockPos, AcceptBlock and LoadGenesisBlock.

\* The file the next block goes to.
NextFile == Min({f \in lastFile..NumFiles :
                    f = NumFiles \/ vinfo[f].size + 1 < MaxBlockfileSize})

\* FlushBlockFile(true): the files left behind end where their info says.
Truncated(content, size) == [s \in Slots |-> IF s < size THEN content[s] ELSE None]

AddBlock(info, b, size) ==
    [info EXCEPT !.size = size, !.heightLast = Max({@, Height[b]})]

\* ReceivedBlockTransactions, as far as it records the position.
Received(b, pos) ==
    /\ index' = [index EXCEPT ![b] = [at |-> pos, undo |-> None]]
    /\ dirtyBlocks' = dirtyBlocks \cup {b}

\* A block that comes from the network: it is written at the end of a file.
StoreNew(b) ==
    LET f == NextFile
        pos == [file |-> f, slot |-> vinfo[f].size]
        left(g, content, size) == IF g = lastFile /\ f # lastFile THEN Truncated(content, size) ELSE content
    IN  /\ f \in Files /\ pos.slot \in Slots
        /\ vinfo' = [vinfo EXCEPT ![f] = AddBlock(@, b, @.size + 1)]
        /\ lastFile' = f
        /\ dirtyFiles' = dirtyFiles \cup {f}
        /\ check' = TRUE
        /\ blk' = [g \in Files |-> [left(g, blk[g], vinfo[g].size) EXCEPT
                                        ![pos.slot] = IF g = f THEN b ELSE @]]
        /\ rev' = [g \in Files |-> left(g, rev[g], vinfo[g].undoSize)]
        /\ Received(b, pos)

\* A block that -reindex found on disk.
StoreKnown(b, pos) ==
    /\ vinfo' = [vinfo EXCEPT ![pos.file] = AddBlock(@, b, Max({@.size, pos.slot + 1}))]
    /\ lastFile' = pos.file
    /\ dirtyFiles' = dirtyFiles \cup {pos.file}
    /\ Received(b, pos)
    /\ UNCHANGED <<check, blk, rev>>

\* AcceptBlockHeader.
AcceptBlockHeader(b) ==
    /\ pc = "idle" /\ ~reindex
    /\ b # Genesis
    /\ index[b] = None /\ index[Parent[b]] # None
    /\ index' = [index EXCEPT ![b] = NoData]
    /\ dirtyBlocks' = dirtyBlocks \cup {b}
    /\ UNCHANGED <<pc, tip, vinfo, lastFile, dirtyFiles, check, reindex, import, flush, blk, rev, tree, coins, count>>

\* AcceptBlock.  Any block may be one that was asked for.
AcceptBlock(b) ==
    /\ pc = "idle" /\ ~reindex
    /\ b # Genesis
    /\ index[Parent[b]] # None
    /\ ~HaveData(b)
    /\ StoreNew(b)
    /\ pc' = "flush"
    /\ UNCHANGED <<tip, reindex, import, flush, tree, coins, count>>

-----------------------------------------------------------------------------
\* ConnectTip and DisconnectTip, as far as they touch the files.

\* Mutant: the new size of the undo file is not marked for writing.
WriteUndo_NotDirty(b) ==
    LET f == FileOf(b)
        slot == vinfo[f].undoSize
    IN  /\ slot \in Slots
        /\ vinfo' = [vinfo EXCEPT ![f].undoSize = @ + 1]
        /\ UNCHANGED dirtyFiles
        /\ rev' = [rev EXCEPT ![f][slot] = b]
        /\ index' = [index EXCEPT ![b].undo = slot]
        /\ dirtyBlocks' = dirtyBlocks \cup {b}
        /\ check' = TRUE

\* FindUndoPos and UndoWriteToDisk in ConnectBlock.
WriteUndo(b) ==
    LET f == FileOf(b)
        slot == vinfo[f].undoSize
    IN  /\ slot \in Slots
        /\ vinfo' = [vinfo EXCEPT ![f].undoSize = @ + 1]
        /\ dirtyFiles' = dirtyFiles \cup {f}
        /\ rev' = [rev EXCEPT ![f][slot] = b]
        /\ index' = [index EXCEPT ![b].undo = slot]
        /\ dirtyBlocks' = dirtyBlocks \cup {b}
        /\ check' = TRUE

ConnectTip(b) ==
    /\ pc = "idle"
    /\ IF b = Genesis THEN tip = None ELSE tip = Parent[b]
    /\ HaveData(b)
    /\ tip' = b
    /\ IF b = Genesis \/ HaveUndo(b)
       THEN UNCHANGED <<index, vinfo, dirtyBlocks, dirtyFiles, check, rev>>
       ELSE WriteUndo(b)
    /\ pc' = "flush"
    /\ UNCHANGED <<lastFile, reindex, import, flush, blk, tree, coins, count>>

DisconnectTip ==
    /\ pc = "idle"
    /\ tip \notin {None, Genesis}
    /\ HaveUndo(tip)
    /\ tip' = Parent[tip]
    /\ pc' = "flush"
    /\ UNCHANGED <<files, check, reindex, import, flush, blk, rev, tree, coins, count>>

-----------------------------------------------------------------------------
\* Pruning.

\* CalculateCurrentUsage.
Usage(info) == MapThenSumSet(LAMBDA f : info[f].size + info[f].undoSize, Files)

\* PruneOneBlockFile, for each of a set of files.
PruneFiles(pruned) ==
    LET gone == {b \in Blocks : index[b] # None /\ FileOf(b) \in pruned}
    IN  /\ index' = [b \in Blocks |-> IF b \in gone THEN NoData ELSE index[b]]
        /\ vinfo' = [f \in Files |-> IF f \in pruned THEN NoInfo ELSE vinfo[f]]
        /\ dirtyBlocks' = dirtyBlocks \cup gone
        /\ dirtyFiles' = dirtyFiles \cup pruned

\* The record of what pruning was allowed to take.
Pruned(pruned) ==
    count' = IF pruned = {} THEN count
             ELSE [count EXCEPT !.pruned = Max({@, Height[tip] - MinBlocksToKeep})]

\* Mutant: one block too many.
LastBlockWeCanPrune_OffByOne == (Height[tip] - MinBlocksToKeep + 1) % UintRange

\* nLastBlockWeCanPrune: unsigned arithmetic.
LastBlockWeCanPrune == (Height[tip] - MinBlocksToKeep) % UintRange

Prunable(f, limit) == vinfo[f].size # 0 /\ vinfo[f].heightLast <= limit

\* FindFilesToPrune: the oldest files, until there is room for the next chunks.
FilesToPrune ==
    LET candidates == {f \in 0..(lastFile - 1) : Prunable(f, LastBlockWeCanPrune)}
        left(f) == [g \in Files |-> IF g \in candidates /\ g < f THEN NoInfo ELSE vinfo[g]]
    IN  IF tip = None THEN {}
        ELSE IF Height[tip] <= PruneAfterHeight THEN {}
        ELSE {f \in candidates : Usage(left(f)) + 2 >= PruneTarget}

\* FindFilesToPruneManual.
FilesToPruneManual(height) ==
    LET limit == Min({height, LastBlockWeCanPrune})
    IN  {f \in 0..(lastFile - 1) : Prunable(f, limit)}

-----------------------------------------------------------------------------
\* FlushStateToDisk, a step for each write a crash can separate.

\* Mutant: a full flush writes the coins and leaves the index for later.
FlushStateToDisk_CoinsOnly(write, full) ==
    LET pruned == IF check /\ ~reindex THEN FilesToPrune ELSE {}
    IN  /\ pc \in {"idle", "flush"}
        /\ full => write
        /\ PruneFiles(pruned)
        /\ check' = (check /\ reindex)
        /\ flush' = [unlink |-> pruned, full |-> full \/ pruned # {}]
        /\ pc' = IF pruned # {} THEN "write" ELSE IF full THEN "unlink" ELSE IF write THEN "write" ELSE "idle"
        /\ Pruned(pruned)
        /\ UNCHANGED <<tip, lastFile, reindex, import, blk, rev, tree, coins>>

\* Its first part.  write and full: what its tests of mode, size and time say.
FlushStateToDisk(write, full) ==
    LET pruned == IF check /\ ~reindex THEN FilesToPrune ELSE {}
    IN  /\ pc \in {"idle", "flush"}
        /\ full => write
        /\ PruneFiles(pruned)
        /\ check' = (check /\ reindex)
        /\ flush' = [unlink |-> pruned, full |-> full \/ pruned # {}]
        /\ pc' = IF write \/ pruned # {} THEN "write" ELSE "idle"
        /\ Pruned(pruned)
        /\ UNCHANGED <<tip, lastFile, reindex, import, blk, rev, tree, coins>>

\* pruneblockchain.
PruneBlockchain(param) ==
    LET height == Min({param, LastBlockWeCanPrune})
        pruned == FilesToPruneManual(height)
    IN  /\ pc = "idle" /\ ~reindex
        /\ tip # None
        /\ Height[tip] >= PruneAfterHeight
        /\ param <= Height[tip]
        /\ height > 0
        /\ pruned # {}
        /\ PruneFiles(pruned)
        /\ flush' = [unlink |-> pruned, full |-> TRUE]
        /\ pc' = "write"
        /\ Pruned(pruned)
        /\ UNCHANGED <<tip, lastFile, check, reindex, import, blk, rev, tree, coins>>

\* WriteBatchSync.
WriteBlockIndex ==
    /\ pc = "write"
    /\ tree' = [tree EXCEPT !.index = [b \in Blocks |-> IF b \in dirtyBlocks THEN index[b] ELSE @[b]],
                            !.vinfo = [f \in Files |-> IF f \in dirtyFiles THEN vinfo[f] ELSE @[f]],
                            !.lastFile = lastFile]
    /\ dirtyBlocks' = {} /\ dirtyFiles' = {}
    /\ pc' = "unlink"
    /\ UNCHANGED <<tip, index, vinfo, lastFile, check, reindex, import, flush, blk, rev, coins, count>>

\* UnlinkPrunedFiles, one file.
UnlinkPrunedFile ==
    /\ pc = "unlink"
    /\ \E f \in flush.unlink :
          /\ \A g \in flush.unlink : f <= g
          /\ blk' = [blk EXCEPT ![f] = [s \in Slots |-> None]]
          /\ rev' = [rev EXCEPT ![f] = [s \in Slots |-> None]]
          /\ flush' = [flush EXCEPT !.unlink = @ \ {f}]
    /\ UNCHANGED <<pc, tip, files, check, reindex, import, tree, coins, count>>

\* The first batch of pcoinsTip->Flush(): from here to the last, the database
\* belongs to no block.
FlushCoins ==
    /\ pc = "unlink" /\ flush.unlink = {}
    /\ IF flush.full /\ tip # None
       THEN pc' = "coins" /\ coins' = [best |-> tip, old |-> coins.best]
       ELSE pc' = "idle" /\ UNCHANGED coins
    /\ UNCHANGED <<tip, files, check, reindex, import, flush, blk, rev, tree, count>>

\* Its last batch.
FlushCoinsDone ==
    /\ pc = "coins"
    /\ coins' = [coins EXCEPT !.old = coins.best]
    /\ pc' = "idle"
    /\ UNCHANGED <<tip, files, check, reindex, import, flush, blk, rev, tree, count>>

-----------------------------------------------------------------------------
\* Stopping and starting.

Blank == /\ tip' = None
         /\ index' = [b \in Blocks |-> None]
         /\ vinfo' = [f \in Files |-> NoInfo]
         /\ lastFile' = 0
         /\ dirtyBlocks' = {} /\ dirtyFiles' = {}
         /\ check' = FALSE
         /\ import' = NoImport
         /\ flush' = NoFlush

\* The process ends: files and databases stay as they are.
Crash ==
    /\ pc \notin {"down", "rebuild"}
    /\ count.crashes < MaxCrashes
    /\ count' = [count EXCEPT !.crashes = @ + 1]
    /\ pc' = "down"
    /\ Blank
    /\ reindex' = FALSE
    /\ UNCHANGED <<blk, rev, tree, coins>>

\* Shutdown, after its FlushStateToDisk.
Shutdown ==
    /\ pc = "idle"
    /\ dirtyBlocks = {} /\ dirtyFiles = {} /\ coins.best = tip
    /\ pc' = "down"
    /\ Blank
    /\ reindex' = FALSE
    /\ UNCHANGED <<blk, rev, tree, coins, count>>

Chain[b \in Blocks \cup {None}] ==
    IF b = None THEN {} ELSE IF b = Genesis THEN {Genesis} ELSE {b} \cup Chain[Parent[b]]

Exists(f) == \E s \in Slots : blk[f][s] # None

DataOnDisk(b) ==
    /\ tree.index[b] # None /\ tree.index[b].at # None
    /\ blk[tree.index[b].at.file][tree.index[b].at.slot] = b

UndoOnDisk(b) ==
    /\ tree.index[b] # None /\ tree.index[b].undo # None
    /\ rev[tree.index[b].at.file][tree.index[b].undo] = b

\* LoadBlockIndexDB opens the files that the entries name.
FilesPresent ==
    \A b \in Blocks : tree.index[b] # None => (tree.index[b].at # None => Exists(tree.index[b].at.file))

\* ReplayBlocks rolls the old branch back and the new one forward.
CanReplay ==
    \/ coins.best = coins.old
    \/ /\ \A b \in {coins.best, coins.old} \ {None} : tree.index[b] # None
       /\ \A b \in Chain[coins.old] \ Chain[coins.best] : DataOnDisk(b) /\ UndoOnDisk(b)
       /\ \A b \in Chain[coins.best] \ (Chain[coins.old] \cup {Genesis}) : DataOnDisk(b)

\* AppInitMain: LoadBlockIndex, ReplayBlocks, LoadChainTip, PruneAndFlush.
Restart ==
    /\ pc = "down"
    /\ reindex' = tree.reindexing
    /\ UNCHANGED <<blk, rev, tree, count>>
    /\ IF ~FilesPresent
       THEN pc' = "rebuild" /\ Blank /\ UNCHANGED coins
       ELSE IF tree.index[Genesis] = None /\ ~tree.reindexing
       THEN pc' = "genesis" /\ Blank /\ UNCHANGED coins
       ELSE IF ~CanReplay \/ (coins.best # None /\ tree.index[coins.best] = None)
       THEN pc' = "rebuild" /\ Blank /\ UNCHANGED coins
       ELSE /\ index' = tree.index /\ vinfo' = tree.vinfo /\ lastFile' = tree.lastFile
            /\ dirtyBlocks' = {} /\ dirtyFiles' = {}
            /\ tip' = coins.best
            /\ coins' = [coins EXCEPT !.old = coins.best]
            /\ check' = ~tree.reindexing
            /\ pc' = IF tree.reindexing THEN "idle" ELSE "flush"
            /\ import' = NoImport
            /\ flush' = NoFlush

\* The same, when the block database has no genesis block: LoadGenesisBlock comes
\* before the coins are looked at.
RestartWithGenesis ==
    /\ pc = "genesis"
    /\ StoreNew(Genesis)
    /\ IF {coins.best, coins.old} \subseteq {None, Genesis}
       THEN pc' = "flush" /\ tip' = coins.best /\ coins' = [coins EXCEPT !.old = coins.best]
       ELSE pc' = "rebuild" /\ UNCHANGED <<tip, coins>>
    /\ UNCHANGED <<reindex, import, flush, tree, count>>

-----------------------------------------------------------------------------
\* -reindex: AppInitMain up to the empty databases, a step for each.

WipeTree ==
    /\ pc \in {"down", "rebuild"}
    /\ count.reindexes < MaxReindexes
    /\ count' = [count EXCEPT !.reindexes = @ + 1, !.pruned = 0]
    /\ tree' = [index |-> [b \in Blocks |-> None], vinfo |-> [f \in Files |-> NoInfo],
                lastFile |-> 0, reindexing |-> FALSE]
    /\ Blank
    /\ pc' = "wiped"
    /\ UNCHANGED <<reindex, blk, rev, coins>>

\* WriteReindexing(true), then CleanupBlockRevFiles: undo files go, and so do the
\* block files after the first gap.
CleanupBlockRevFiles ==
    /\ pc = "wiped"
    /\ tree' = [tree EXCEPT !.reindexing = TRUE]
    /\ rev' = [f \in Files |-> [s \in Slots |-> None]]
    /\ blk' = [f \in Files |-> IF \A g \in 0..f : Exists(g) THEN blk[f] ELSE [s \in Slots |-> None]]
    /\ pc' = "cleaned"
    /\ UNCHANGED <<tip, files, check, reindex, import, flush, coins, count>>

WipeCoins ==
    /\ pc = "cleaned"
    /\ coins' = [best |-> None, old |-> None]
    /\ reindex' = TRUE
    /\ pc' = "idle"
    /\ UNCHANGED <<tip, files, check, import, flush, blk, rev, tree, count>>

-----------------------------------------------------------------------------
\* ThreadImport and LoadExternalBlockFile.

Importing == pc = "idle" /\ reindex

\* AcceptBlock of a block at a known position.
AcceptKnown(b, pos) ==
    /\ IF HaveData(b)
       THEN pc' = pc /\ UNCHANGED <<files, check, blk, rev>>
       ELSE StoreKnown(b, pos) /\ pc' = IF check THEN "flush" ELSE pc
    /\ UNCHANGED <<tip, reindex, flush, tree, coins, count>>

\* Mutant: a block before its parent is skipped.
ImportBlock_Forgets ==
    LET b == blk[import.file][import.slot]
        next == [import EXCEPT !.slot = @ + 1]
        pos == [file |-> import.file, slot |-> import.slot]
    IN  /\ Importing /\ import.queue = <<>>
        /\ import.file \in Files /\ Exists(import.file) /\ import.slot \in Slots
        /\ \/ /\ b = None
              /\ import' = next
              /\ UNCHANGED <<pc, tip, files, check, reindex, flush, blk, rev, tree, coins, count>>
           \/ /\ b \notin {None, Genesis}
              /\ index[Parent[b]] = None
              /\ import' = next
              /\ UNCHANGED <<pc, tip, files, check, reindex, flush, blk, rev, tree, coins, count>>
           \/ /\ b # None
              /\ b # Genesis => index[Parent[b]] # None
              /\ import' = [next EXCEPT !.queue = <<b>>]
              /\ AcceptKnown(b, pos)

\* The next block of a file, or no block.
ImportBlock ==
    LET b == blk[import.file][import.slot]
        next == [import EXCEPT !.slot = @ + 1]
        pos == [file |-> import.file, slot |-> import.slot]
    IN  /\ Importing /\ import.queue = <<>>
        /\ import.file \in Files /\ Exists(import.file) /\ import.slot \in Slots
        /\ \/ /\ b = None
              /\ import' = next
              /\ UNCHANGED <<pc, tip, files, check, reindex, flush, blk, rev, tree, coins, count>>
           \/ /\ b \notin {None, Genesis}
              /\ index[Parent[b]] = None
              /\ import' = [next EXCEPT !.unknown = @ \cup {[parent |-> Parent[b], at |-> pos]}]
              /\ UNCHANGED <<pc, tip, files, check, reindex, flush, blk, rev, tree, coins, count>>
           \/ /\ b # None
              /\ b # Genesis => index[Parent[b]] # None
              /\ import' = [next EXCEPT !.queue = <<b>>]
              /\ AcceptKnown(b, pos)

\* The blocks that waited for the one at the head of the queue.
ImportChild ==
    /\ Importing /\ import.queue # <<>>
    /\ \/ /\ \A e \in import.unknown : e.parent # Head(import.queue)
          /\ import' = [import EXCEPT !.queue = Tail(@)]
          /\ UNCHANGED <<pc, tip, files, check, reindex, flush, blk, rev, tree, coins, count>>
       \/ \E e \in import.unknown :
             LET c == blk[e.at.file][e.at.slot]
             IN  /\ e.parent = Head(import.queue)
                 /\ c # None
                 /\ import' = [import EXCEPT !.unknown = @ \ {e}, !.queue = Append(@, c)]
                 /\ AcceptKnown(c, e.at)

ImportNextFile ==
    /\ Importing /\ import.queue = <<>>
    /\ import.file \in Files /\ Exists(import.file) /\ import.slot \notin Slots
    /\ import' = [import EXCEPT !.file = @ + 1, !.slot = 0]
    /\ UNCHANGED <<pc, tip, files, check, reindex, flush, blk, rev, tree, coins, count>>

\* No file left.  The genesis block is stored if it was on none.
ImportDone ==
    /\ Importing /\ import.queue = <<>>
    /\ import.file \notin Files \/ ~Exists(import.file)
    /\ tree' = [tree EXCEPT !.reindexing = FALSE]
    /\ reindex' = FALSE
    /\ import' = NoImport
    /\ IF index[Genesis] = None THEN StoreNew(Genesis) ELSE UNCHANGED <<files, check, blk, rev>>
    /\ UNCHANGED <<pc, tip, flush, coins, count>>

-----------------------------------------------------------------------------
\* A node that has the headers and the genesis block.
Init ==
    /\ pc = "idle"
    /\ tip = Genesis
    /\ index = [b \in Blocks |-> IF b = Genesis THEN [NoData EXCEPT !.at = [file |-> 0, slot |-> 0]] ELSE NoData]
    /\ vinfo = [f \in Files |-> IF f = 0 THEN [NoInfo EXCEPT !.size = 1] ELSE NoInfo]
    /\ lastFile = 0
    /\ dirtyBlocks = {} /\ dirtyFiles = {}
    /\ check = FALSE
    /\ reindex = FALSE
    /\ import = NoImport
    /\ flush = NoFlush
    /\ blk = [f \in Files |-> [s \in Slots |-> IF f = 0 /\ s = 0 THEN Genesis ELSE None]]
    /\ rev = [f \in Files |-> [s \in Slots |-> None]]
    /\ tree = [index |-> index, vinfo |-> vinfo, lastFile |-> 0, reindexing |-> FALSE]
    /\ coins = [best |-> Genesis, old |-> Genesis]
    /\ count = [crashes |-> 0, reindexes |-> 0, pruned |-> 0]

Next ==
    \/ \E b \in Blocks : AcceptBlockHeader(b) \/ AcceptBlock(b) \/ ConnectTip(b)
    \/ DisconnectTip
    \/ \E write, full \in BOOLEAN : FlushStateToDisk(write, full)
    \/ \E h \in {Height[b] : b \in Blocks} : PruneBlockchain(h)
    \/ WriteBlockIndex \/ UnlinkPrunedFile \/ FlushCoins \/ FlushCoinsDone
    \/ Shutdown \/ Crash \/ Restart \/ RestartWithGenesis
    \/ WipeTree \/ CleanupBlockRevFiles \/ WipeCoins
    \/ ImportBlock \/ ImportChild \/ ImportNextFile \/ ImportDone

Spec == Init /\ [][Next]_vars

-----------------------------------------------------------------------------
Info == [size : 0..Cardinality(Blocks), undoSize : 0..Cardinality(Blocks), heightLast : Nat]

\* Every variable has its type.
TypeOK ==
    /\ pc \in {"idle", "flush", "write", "unlink", "coins", "down", "rebuild", "genesis", "wiped", "cleaned"}
    /\ tip \in Blocks \cup {None}
    /\ index \in [Blocks -> Entry] /\ tree.index \in [Blocks -> Entry]
    /\ vinfo \in [Files -> Info] /\ tree.vinfo \in [Files -> Info]
    /\ lastFile \in Files /\ tree.lastFile \in Files
    /\ dirtyBlocks \subseteq Blocks /\ dirtyFiles \subseteq Files
    /\ check \in BOOLEAN /\ reindex \in BOOLEAN
    /\ blk \in [Files -> [Slots -> Blocks \cup {None}]]
    /\ rev \in [Files -> [Slots -> Blocks \cup {None}]]
    /\ {coins.best, coins.old} \subseteq Blocks \cup {None}

\* What an index says of a block is what is in the files.
Agrees(entries) ==
    \A b \in Blocks : entries[b] # None =>
        /\ entries[b].at # None => blk[entries[b].at.file][entries[b].at.slot] = b
        /\ entries[b].undo # None => rev[entries[b].at.file][entries[b].undo] = b

\* A block or undo record that the index names, the one in memory or, at every
\* moment a crash can come, the one in the database, is in the files at the place
\* it names: nothing was written over it, cut off by a truncation or unlinked
\* before the index forgot it, also after a crash that forgot the last blocks and
\* after a reindex.
BlocksReadable == Agrees(index) /\ Agrees(tree.index)

\* Every block of the active chain above the height that pruning was allowed to
\* reach, MIN_BLOCKS_TO_KEEP below a tip, has its undo data: the node can
\* reorganise, whatever was pruned, downloaded again, lost in a crash or reindexed.
ActiveChainUndoable ==
    \A b \in Chain[tip] \ {Genesis} : Height[b] > count.pruned => HaveUndo(b)

\* A torn flush of the coins can be replayed as long as no block it needs was low
\* enough to be pruned and the block database was not just wiped for a reindex.
TornFlushRecoverable ==
    LET needed == (Chain[coins.best] \cup Chain[coins.old]) \ (Chain[coins.best] \cap Chain[coins.old])
    IN  coins.best # coins.old /\ tree.index[Genesis] # None =>
            \A b \in needed \ {Genesis} : Height[b] > count.pruned =>
                DataOnDisk(b) /\ (b \in Chain[coins.old] => UndoOnDisk(b))

\* Some block file that a reindex gets to holds b and, the same or another, each of its ancestors.
ConnectedOnDisk(b) ==
    \A c \in Chain[b] : \E f \in Files, s \in Slots : blk[f][s] = c /\ \A k \in 0..f : Exists(k)

\* A reindex ends with every block in the index that the files connect to the
\* genesis block, in whatever order they were stored.
ReindexComplete ==
    [][reindex /\ ~reindex' /\ pc' # "down" =>
        \A b \in Blocks : ConnectedOnDisk(b) => index[b] # None /\ index[b].at # None]_vars
=============================================================================
