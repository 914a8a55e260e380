-------------------------- MODULE ChainstateFlush --------------------------
(***************************************************************************)
(* How the chain state reaches the disk and comes back: block and undo     *)
(* files, the block index database, the coins database and the asset       *)
(* database, written in that order by FlushStateToDisk of                  *)
(* src/validation.cpp, and the recovery at startup by ReplayBlocks.        *)
(*                                                                         *)
(* The process may die between any two writes (Crash: what was written     *)
(* stays) and the machine may lose power (PowerLoss: what was not synced   *)
(* may be gone).  The block index is written with WriteBatchSync; the      *)
(* coins and asset databases are not, so a power loss leaves some earlier  *)
(* prefix of their writes: dbSynced and assetsdbSynced.                    *)
(*                                                                         *)
(* A coin is the height it was created at, 0 if there is none.  The tip    *)
(* moves along any branch here; ChainActivation says which one is chosen.  *)
(***************************************************************************)
EXTENDS Integers

CONSTANTS Blocks, Genesis,
          Parent,          \* pprev of every block but Genesis
          Ancestors,       \* the blocks pprev leads to, the block itself included
          Height,          \* nHeight
          Coins,           \* outpoints
          Creates, Spends, \* the outpoints a block adds and spends, some maybe both
          Assets,          \* asset names
          Issues,          \* the assets a block issues
          CheckBlocks,     \* -checkblocks, how deep VerifyDB goes
          MaxFile,         \* bound: number of block files
          MaxCrashes, MaxPowerLosses, MaxWriteErrors,   \* bounds
          Null

Proper(b) == Ancestors[b] \ {b}

\* The blocks form a tree: a branch has one block at each height up to its tip, and
\* any choice of its blocks has a lowest and a highest.
ASSUME BlockTree ==
    /\ Genesis \in Blocks /\ Null \notin Blocks
    /\ Parent \in [Blocks \ {Genesis} -> Blocks]
    /\ Ancestors \in [Blocks -> SUBSET Blocks] /\ Height \in [Blocks -> Nat]
    /\ Ancestors[Genesis] = {Genesis} /\ Height[Genesis] = 0
    /\ \A b \in Blocks \ {Genesis} : /\ b \notin Ancestors[Parent[b]]
                                     /\ Ancestors[b] = {b} \cup Ancestors[Parent[b]]
                                     /\ Height[b] = Height[Parent[b]] + 1
    /\ \A b \in Blocks :
          /\ \A a \in Ancestors[b] : Ancestors[a] \subseteq Ancestors[b] /\ Height[a] <= Height[b]
          /\ \A h \in 0..Height[b] : \E a \in Ancestors[b] : Height[a] = h
          /\ \A x, y \in Ancestors[b] : Height[x] = Height[y] => x = y
          /\ \A S \in SUBSET Ancestors[b] : S # {} =>
                \E low, high \in S : \A a \in S : Height[low] <= Height[a] /\ Height[a] <= Height[high]

\* Every block is valid on its own branch: it spends what is there once, and no
\* outpoint or asset name is created twice on a branch.  (Two branches may well
\* contain the same transaction, at different heights.)
ASSUME ValidBlocks ==
    /\ Creates \in [Blocks -> SUBSET Coins] /\ Spends \in [Blocks -> SUBSET Coins]
    /\ Creates[Genesis] = {} /\ Spends[Genesis] = {} /\ Issues[Genesis] = {}
    /\ Issues \in [Blocks -> SUBSET Assets]
    /\ \A b \in Blocks : \A a \in Proper(b) :
          /\ Creates[a] \cap Creates[b] = {}
          /\ Spends[a] \cap Spends[b] = {}
          /\ Issues[a] \cap Issues[b] = {}
    /\ \A b \in Blocks : \A c \in Spends[b] : \E a \in Ancestors[b] : c \in Creates[a]

ASSUME Bounds == /\ CheckBlocks \in Nat /\ MaxFile \in Nat \ {0}
                 /\ MaxCrashes \in Nat /\ MaxPowerLosses \in Nat /\ MaxWriteErrors \in {0, 1}

VARIABLES
    \* on disk
    blockTreeDB,     \* the index entries of the block database
    blk,             \* the blocks whose data is in a blk file
    rev,             \* the undo data in the rev files: the coins a block spent, for the
                     \* blocks that have undo data
    blkSynced, revSynced,      \* the blocks whose data and undo data were synced
    db, dbSynced,              \* the coins database
    assetsdb, assetsdbSynced,  \* the asset database
    \* in memory
    mapBlockIndex, setDirtyBlockIndex, nLastBlockFile,
    tip,             \* best block of pcoinsTip
    coins,           \* what pcoinsTip answers
    dirty,           \* the coins it holds as DIRTY
    assets,          \* the names for which CheckIfAssetExists answers true
    failedBlocks,    \* blocks marked invalid
    phase,           \* where the one thread that holds cs_main is
    job,             \* why it flushes: "run", "replay" or "stop"
    faults           \* how many crashes, power losses and write errors there were

index  == <<mapBlockIndex, setDirtyBlockIndex, nLastBlockFile>>
files  == <<blk, rev, blkSynced, revSynced>>
view   == <<tip, coins, dirty>>
coinsDisk  == <<db, dbSynced>>
assetsDisk == <<assetsdb, assetsdbSynced>>
vars == <<blockTreeDB, files, coinsDisk, assetsDisk, index, view, assets,
          failedBlocks, phase, job, faults>>

-----------------------------------------------------------------------------
(* Blocks and coins. *)

\* No transition between two heads is under way (DB_HEAD_BLOCKS is absent).
NoHeads == [new |-> Null, old |-> Null]
NoCoins == [c \in Coins |-> 0]

\* RollforwardBlock and the UpdateCoins of ConnectBlock: inputs are spent, outputs added.
RollforwardBlock(v, b) ==
    [c \in Coins |-> IF c \in Spends[b] THEN 0
                     ELSE IF c \in Creates[b] THEN Height[b] ELSE v[c]]

\* What ConnectBlock writes to the rev file: the coins it spent, as it found them.
UndoOf(v, b) == [c \in Spends[b] |-> IF c \in Creates[b] THEN Height[b] ELSE v[c]]

\* The coins after DisconnectBlock: outputs removed, inputs restored from undo data.
DisconnectBlock(v, b) ==
    [c \in Coins |-> IF c \in Creates[b] THEN 0
                     ELSE IF c \in Spends[b] THEN rev[b][c] ELSE v[c]]

\* DisconnectBlock answers DISCONNECT_OK: the outputs are as the block made them
\* and no input is there yet.
Clean(v, b) == \A c \in Coins : /\ c \in Creates[b] \ Spends[b] => v[c] = Height[b]
                                /\ c \in Spends[b] => v[c] = 0

\* The coins on the branch that ends in b, by definition.
UTXO(b) == [c \in Coins |->
    IF b = Null \/ \A a \in Ancestors[b] : c \notin Creates[a] THEN 0
    ELSE IF \E a \in Ancestors[b] : c \in Spends[a] THEN 0
    ELSE Height[CHOOSE a \in Ancestors[b] : c \in Creates[a]]]

AssetsOf(b) == IF b = Null THEN {} ELSE UNION {Issues[a] : a \in Ancestors[b]}

-----------------------------------------------------------------------------
(* Block files and the block index. *)

NoEntry == [file |-> 0, undo |-> FALSE]
Known(idx) == {b \in Blocks : idx[b] # NoEntry}

\* The data and the undo data that ReadBlockFromDisk and UndoReadFromDisk find.
Readable(idx) == Known(idx) \cap blk
Undoable(idx) == {b \in Readable(idx) \cap DOMAIN rev : idx[b].undo}

\* FlushBlockFile: the current blk and rev file are synced, and no other.
InCurrentFile == {b \in Known(mapBlockIndex) : mapBlockIndex[b].file = nLastBlockFile}
SyncFiles_BlkOnly == blkSynced' = blkSynced \cup InCurrentFile /\ UNCHANGED revSynced
SyncFiles == /\ blkSynced' = blkSynced \cup InCurrentFile
             /\ revSynced' = revSynced \cup (InCurrentFile \cap DOMAIN rev)

\* The process is gone: its memory is lost, and bytes in the files to which no
\* stored index entry refers are as good as absent.
Stopped(keepBlk, keepRev) ==
    /\ phase' = "down" /\ job' = "run"
    /\ blk' = keepBlk \cap Known(blockTreeDB)
    /\ rev' = [b \in {u \in DOMAIN rev \cap keepRev : blockTreeDB[u].undo} |-> rev[b]]
    /\ blkSynced' = blkSynced \cap Known(blockTreeDB)
    /\ revSynced' = {b \in revSynced : blockTreeDB[b].undo}
    /\ mapBlockIndex' = blockTreeDB /\ setDirtyBlockIndex' = {} /\ nLastBlockFile' = 1
    /\ tip' = Null /\ coins' = NoCoins /\ dirty' = {} /\ assets' = {} /\ failedBlocks' = {}
    /\ UNCHANGED blockTreeDB

Init == /\ blockTreeDB = [b \in Blocks |-> NoEntry]
        /\ blk = {} /\ rev = [b \in {} |-> Null] /\ blkSynced = {} /\ revSynced = {}
        /\ db = [best |-> Null, heads |-> NoHeads, coins |-> NoCoins] /\ dbSynced = db
        /\ assetsdb = {} /\ assetsdbSynced = {}
        /\ mapBlockIndex = blockTreeDB /\ setDirtyBlockIndex = {} /\ nLastBlockFile = 1
        /\ tip = Null /\ coins = NoCoins /\ dirty = {} /\ assets = {}
        /\ failedBlocks = {} /\ phase = "down" /\ job = "run"
        /\ faults = [crash |-> 0, power |-> 0, write |-> 0]

\* AcceptBlock: FindBlockPos may move on to the next file, which flushes the
\* current one; then the block is written and its index entry is dirty.
AcceptBlock(b) ==
    /\ phase = "running" /\ b \notin Known(mapBlockIndex)
    /\ b # Genesis /\ Parent[b] \in Known(mapBlockIndex) \ failedBlocks
    /\ \E f \in {nLastBlockFile, nLastBlockFile + 1} \cap 1..MaxFile :
          /\ IF f = nLastBlockFile THEN UNCHANGED <<blkSynced, revSynced>> ELSE SyncFiles
          /\ nLastBlockFile' = f
          /\ mapBlockIndex' = [mapBlockIndex EXCEPT ![b] = [file |-> f, undo |-> FALSE]]
    /\ blk' = blk \cup {b}
    /\ setDirtyBlockIndex' = setDirtyBlockIndex \cup {b}
    /\ UNCHANGED <<blockTreeDB, rev, coinsDisk, assetsDisk, view, assets, failedBlocks,
                   phase, job, faults>>

-----------------------------------------------------------------------------
(* Connecting and disconnecting, in memory only but for the undo data. *)

NextBlocks == {b \in Known(mapBlockIndex) \ failedBlocks :
                  IF tip = Null THEN b = Genesis ELSE b # Genesis /\ Parent[b] = tip}

\* UndoWriteToDisk, with the coins as ConnectBlock finds them.
UndoWriteToDisk(b) ==
    [a \in DOMAIN rev \cup {b} |-> IF a = b THEN UndoOf(coins, b) ELSE rev[a]]

ConnectTip_UndoNotDirty(b) ==
    /\ phase = "running" /\ b \in NextBlocks \cap blk
    /\ Issues[b] \cap assets = {}
    /\ coins' = RollforwardBlock(coins, b)
    /\ dirty' = dirty \cup Spends[b] \cup Creates[b]
    /\ tip' = b
    /\ assets' = assets \cup Issues[b]
    /\ IF b = Genesis \/ mapBlockIndex[b].undo
       THEN UNCHANGED <<index, rev>>
       ELSE /\ rev' = UndoWriteToDisk(b)
            /\ mapBlockIndex' = [mapBlockIndex EXCEPT ![b] = [file |-> @.file, undo |-> TRUE]]
            /\ UNCHANGED <<setDirtyBlockIndex, nLastBlockFile>>
    /\ UNCHANGED <<blockTreeDB, blk, blkSynced, revSynced, coinsDisk, assetsDisk,
                   failedBlocks, phase, job, faults>>

\* ConnectTip.  Genesis only sets the best block.
ConnectTip(b) ==
    /\ phase = "running" /\ b \in NextBlocks \cap blk
    /\ Issues[b] \cap assets = {}
    /\ coins' = RollforwardBlock(coins, b)
    /\ dirty' = dirty \cup Spends[b] \cup Creates[b]
    /\ tip' = b
    /\ assets' = assets \cup Issues[b]
    /\ IF b = Genesis \/ mapBlockIndex[b].undo
       THEN UNCHANGED <<index, rev>>
       ELSE /\ rev' = UndoWriteToDisk(b)
            /\ mapBlockIndex' = [mapBlockIndex EXCEPT ![b] = [file |-> @.file, undo |-> TRUE]]
            /\ setDirtyBlockIndex' = setDirtyBlockIndex \cup {b}
            /\ UNCHANGED nLastBlockFile
    /\ UNCHANGED <<blockTreeDB, blk, blkSynced, revSynced, coinsDisk, assetsDisk,
                   failedBlocks, phase, job, faults>>

\* ConnectTip of a block that issues an asset the cache says exists already.
RejectBlock(b) ==
    /\ phase = "running" /\ b \in NextBlocks
    /\ Issues[b] \cap assets # {}
    /\ failedBlocks' = failedBlocks \cup {b}
    /\ UNCHANGED <<blockTreeDB, files, coinsDisk, assetsDisk, index, view, assets,
                   phase, job, faults>>

DisconnectTip_KeepsAssets ==
    /\ phase = "running" /\ tip \notin {Null, Genesis}
    /\ tip \in Undoable(mapBlockIndex) /\ Clean(coins, tip)
    /\ coins' = DisconnectBlock(coins, tip)
    /\ dirty' = dirty \cup Spends[tip] \cup Creates[tip]
    /\ tip' = Parent[tip]
    /\ UNCHANGED <<blockTreeDB, files, coinsDisk, assetsDisk, index, assets, failedBlocks,
                   phase, job, faults>>

\* DisconnectTip; it gives up unless DisconnectBlock is clean.
DisconnectTip ==
    /\ phase = "running" /\ tip \notin {Null, Genesis}
    /\ tip \in Undoable(mapBlockIndex) /\ Clean(coins, tip)
    /\ coins' = DisconnectBlock(coins, tip)
    /\ dirty' = dirty \cup Spends[tip] \cup Creates[tip]
    /\ assets' = assets \ Issues[tip]
    /\ tip' = Parent[tip]
    /\ UNCHANGED <<blockTreeDB, files, coinsDisk, assetsDisk, index, failedBlocks,
                   phase, job, faults>>

-----------------------------------------------------------------------------
(* FlushStateToDisk, called in any mode; Shutdown and RewindBlockIndex call it too. *)

\* FlushBlockFile.
FlushBlockFile ==
    /\ phase \in {"running", "flush"}
    /\ SyncFiles
    /\ phase' = "index"
    /\ IF phase = "running" THEN job' = "stop" \/ (tip # Null /\ UNCHANGED job)
                            ELSE UNCHANGED job
    /\ UNCHANGED <<blockTreeDB, blk, rev, coinsDisk, assetsDisk, index, view, assets,
                   failedBlocks, faults>>

\* WriteBatchSync of the dirty entries.  Unless this is a full flush, or if the
\* disk is nearly full, that is all.
WriteBatchSync ==
    /\ phase = "index"
    /\ blockTreeDB' = [b \in Blocks |-> IF b \in setDirtyBlockIndex THEN mapBlockIndex[b]
                                        ELSE blockTreeDB[b]]
    /\ setDirtyBlockIndex' = {}
    /\ phase' \in {"coins"} \cup (IF job = "run" THEN {"running"} ELSE {})
    /\ UNCHANGED <<files, coinsDisk, assetsDisk, mapBlockIndex, nLastBlockFile, view,
                   assets, failedBlocks, job, faults>>

WriteError_GoesOn ==
    /\ faults.write < MaxWriteErrors
    /\ faults' = [faults EXCEPT !.write = @ + 1]
    /\ phase' = "running" /\ job' = "run"

\* A database write throws.  FlushStateToDisk catches it and aborts the node;
\* Shutdown then flushes once more.
WriteError ==
    /\ faults.write < MaxWriteErrors
    /\ faults' = [faults EXCEPT !.write = @ + 1]
    /\ phase' = "flush" /\ job' = "stop"

\* The dirty entries were already taken off setDirtyBlockIndex.
WriteBatchSyncThrows ==
    /\ phase = "index" /\ WriteError
    /\ setDirtyBlockIndex' = {}
    /\ UNCHANGED <<blockTreeDB, files, coinsDisk, assetsDisk, mapBlockIndex,
                   nLastBlockFile, view, assets, failedBlocks>>

\* The block the coins database was last consistent with.
OldTip == IF db.best = Null /\ db.heads.new # Null THEN db.heads.old ELSE db.best

BatchWrite_BestFirst(part, last) ==
    /\ phase = "coins" /\ tip # Null
    /\ part \subseteq dirty /\ (IF last THEN part = dirty ELSE part # {})
    /\ db' = [best  |-> tip,
              heads |-> NoHeads,
              coins |-> [c \in Coins |-> IF c \in part THEN coins[c] ELSE db.coins[c]]]
    /\ dirty' = dirty \ part
    /\ phase' = IF ~last THEN "coins" ELSE IF job = "replay" THEN "load" ELSE "assets"
    /\ UNCHANGED <<blockTreeDB, files, dbSynced, assetsDisk, index, tip, coins, assets,
                   failedBlocks, job, faults>>

\* One batch of CCoinsViewDB::BatchWrite: the coins of part, in any order the
\* hash map has; all but the last batch leave the database in transition.
BatchWrite(part, last) ==
    /\ phase = "coins" /\ tip # Null
    /\ part \subseteq dirty /\ (IF last THEN part = dirty ELSE part # {})
    /\ db' = [best  |-> IF last THEN tip ELSE Null,
              heads |-> IF last THEN NoHeads ELSE [new |-> tip, old |-> OldTip],
              coins |-> [c \in Coins |-> IF c \in part THEN coins[c] ELSE db.coins[c]]]
    /\ dirty' = dirty \ part
    /\ phase' = IF ~last THEN "coins" ELSE IF job = "replay" THEN "load" ELSE "assets"
    /\ UNCHANGED <<blockTreeDB, files, dbSynced, assetsDisk, index, tip, coins, assets,
                   failedBlocks, job, faults>>

\* WriteBatch throws: what was in the batch has left the cache.
BatchWriteThrows(part) ==
    /\ phase = "coins" /\ job # "replay" /\ tip # Null
    /\ part \subseteq dirty /\ part # {}
    /\ WriteError
    /\ dirty' = dirty \ part
    /\ coins' = [c \in Coins |-> IF c \in part THEN db.coins[c] ELSE coins[c]]
    /\ UNCHANGED <<blockTreeDB, files, coinsDisk, assetsDisk, index, tip, assets,
                   failedBlocks>>

\* BatchWrite asserts that there is a best block.
BatchWriteAsserts ==
    /\ phase = "coins" /\ tip = Null
    /\ Stopped(blk, Blocks)
    /\ UNCHANGED <<coinsDisk, assetsDisk, faults>>

\* DumpCacheToDatabase: one write per asset, the removed ones first.
DumpAsset(a) ==
    /\ phase = "assets"
    /\ \/ a \in assetsdb \ assets /\ assetsdb' = assetsdb \ {a}
       \/ a \in assets \ assetsdb /\ assetsdb \subseteq assets /\ assetsdb' = assetsdb \cup {a}
    /\ UNCHANGED <<blockTreeDB, files, coinsDisk, assetsdbSynced, index, view, assets,
                   failedBlocks, phase, job, faults>>

FlushDone ==
    /\ phase = "assets" /\ assetsdb = assets
    /\ \/ /\ job = "stop" /\ Stopped(blk, Blocks)
       \/ /\ job = "run" /\ phase' = "running"
          /\ UNCHANGED <<blockTreeDB, files, index, view, assets, failedBlocks, job>>
    /\ UNCHANGED <<coinsDisk, assetsDisk, faults>>

-----------------------------------------------------------------------------
(* Startup: AppInitMain. *)

\* LoadBlockIndex and LoadGenesisBlock.
LoadBlockIndex ==
    /\ phase = "down"
    /\ mapBlockIndex' = IF Genesis \in Known(blockTreeDB) THEN blockTreeDB
                        ELSE [blockTreeDB EXCEPT ![Genesis] = [file |-> 1, undo |-> FALSE]]
    /\ setDirtyBlockIndex' = IF Genesis \in Known(blockTreeDB) THEN {} ELSE {Genesis}
    /\ nLastBlockFile' = CHOOSE f \in 1..MaxFile :
                            /\ \A b \in Blocks : mapBlockIndex'[b].file <= f
                            /\ \E b \in Blocks : mapBlockIndex'[b].file = f
    /\ blk' = blk \cup {Genesis}
    /\ assets' = assetsdb
    /\ phase' = IF db.heads.new = Null THEN "load" ELSE "replay"
    /\ UNCHANGED <<blockTreeDB, rev, blkSynced, revSynced, coinsDisk, assetsDisk, view,
                   failedBlocks, job, faults>>

AncestorAt(b, h) == CHOOSE a \in Ancestors[b] : Height[a] = h

\* The blocks rolled back and forward between the two heads.
OldBranch(heads) == IF heads.old = Null THEN {}
                    ELSE Ancestors[heads.old] \ Ancestors[heads.new]
NewBranch(heads) == IF heads.old = Null THEN Ancestors[heads.new] \ {Genesis}
                    ELSE Ancestors[heads.new] \ Ancestors[heads.old]

\* The block in which the two branches meet.
LastCommonAncestor(x, y) ==
    CHOOSE f \in Ancestors[x] \cap Ancestors[y] : Ancestors[f] = Ancestors[x] \cap Ancestors[y]

RolledBack(v, heads) ==
    IF heads.old = Null THEN v
    ELSE LET top    == Height[heads.old]
             bottom == Height[LastCommonAncestor(heads.old, heads.new)]
             down[h \in bottom..top] ==
                 IF h = top THEN v ELSE DisconnectBlock(down[h+1], AncestorAt(heads.old, h+1))
         IN  down[bottom]

RolledForward(v, heads) ==
    LET top    == Height[heads.new]
        bottom == IF heads.old = Null THEN 0
                  ELSE Height[LastCommonAncestor(heads.old, heads.new)]
        up[h \in bottom..top] ==
            IF h = bottom THEN v ELSE RollforwardBlock(up[h-1], AncestorAt(heads.new, h))
    IN  up[top]

Replayed(d) == RolledForward(RolledBack(d.coins, d.heads), d.heads)

\* Everything ReplayBlocks needs is there.
CanReplay(idx, heads) ==
    /\ heads.new \in Known(idx) /\ (heads.old # Null => heads.old \in Known(idx))
    /\ OldBranch(heads) \subseteq Undoable(idx)
    /\ NewBranch(heads) \subseteq Readable(idx)

\* ReplayBlocks.  The assets of the old branch are undone; RollforwardBlock is not
\* given the asset cache, so those of the new branch are not added.
ReplayBlocks ==
    /\ phase = "replay" /\ CanReplay(mapBlockIndex, db.heads)
    /\ coins' = Replayed(db)
    /\ dirty' = UNION {Spends[b] \cup Creates[b] : b \in OldBranch(db.heads) \cup NewBranch(db.heads)}
    /\ tip' = db.heads.new
    /\ assets' = assets \ UNION {Issues[b] : b \in OldBranch(db.heads)}
    /\ phase' = "coins" /\ job' = "replay"
    /\ UNCHANGED <<blockTreeDB, files, coinsDisk, assetsDisk, index, failedBlocks, faults>>

\* VerifyDB at its default level: the last blocks, down to CheckBlocks below the tip
\* but not Genesis, can be disconnected cleanly.
VerifyDB(idx, t, v) ==
    LET depth  == Height[t]
        bottom == IF CheckBlocks \in 1..(depth-1) THEN depth - CheckBlocks - 1 ELSE 0
        down[h \in bottom..depth] ==
            IF h = depth THEN v ELSE DisconnectBlock(down[h+1], AncestorAt(t, h+1))
    IN  /\ \A h \in (bottom+1)..depth : AncestorAt(t, h) \in Undoable(idx)
        /\ \A h \in (bottom+1)..depth : Clean(down[h], AncestorAt(t, h))

\* LoadChainTip and VerifyDB succeed.
CanLoad == db.best # Null => /\ db.best \in Known(mapBlockIndex)
                             /\ VerifyDB(mapBlockIndex, db.best, db.coins)

LoadChainTip_FlushesAlways ==
    /\ phase = "load" /\ CanLoad
    /\ tip' = db.best /\ coins' = db.coins /\ dirty' = {}
    /\ phase' = "flush" /\ job' = "run"
    /\ UNCHANGED <<blockTreeDB, files, coinsDisk, assetsDisk, index, assets,
                   failedBlocks, faults>>

\* RewindBlockIndex flushes if there is a tip, with no dirty coin: VerifyDB, which
\* comes after it, reads the same coins before and after that flush.
RewindBlockIndex == phase' = IF db.best = Null THEN "running" ELSE "flush"

\* LoadChainTip, if there is a best block.
LoadChainTip ==
    /\ phase = "load" /\ CanLoad
    /\ tip' = db.best /\ coins' = db.coins /\ dirty' = {}
    /\ RewindBlockIndex /\ job' = "run"
    /\ UNCHANGED <<blockTreeDB, files, coinsDisk, assetsDisk, index, assets,
                   failedBlocks, faults>>

\* The node refuses to start; the user has to rebuild the database.
StartupFails ==
    /\ \/ phase = "replay" /\ ~CanReplay(mapBlockIndex, db.heads)
       \/ phase = "load" /\ ~CanLoad
    /\ phase' = "failed"
    /\ UNCHANGED <<blockTreeDB, files, coinsDisk, assetsDisk, index, view, assets,
                   failedBlocks, job, faults>>

-----------------------------------------------------------------------------
(* The environment. *)

Crash ==
    /\ phase \notin {"down", "failed"} /\ faults.crash < MaxCrashes
    /\ faults' = [faults EXCEPT !.crash = @ + 1]
    /\ Stopped(blk, Blocks)
    /\ UNCHANGED <<coinsDisk, assetsDisk>>

\* Block and undo data that was not synced may be lost; the coins and asset
\* databases fall back to their synced prefix.
PowerLoss ==
    /\ phase # "failed" /\ faults.power < MaxPowerLosses
    /\ faults' = [faults EXCEPT !.power = @ + 1]
    /\ \E keepBlk \in SUBSET ((blk \cap Known(blockTreeDB)) \ blkSynced),
         keepRev \in SUBSET {b \in Blocks \ revSynced : blockTreeDB[b].undo} :
          Stopped(keepBlk \cup blkSynced, keepRev \cup revSynced)
    /\ db' = dbSynced /\ assetsdb' = assetsdbSynced
    /\ UNCHANGED <<dbSynced, assetsdbSynced>>

\* LevelDB syncs its log when it likes.
SyncDatabases ==
    /\ phase # "failed" /\ MaxPowerLosses > faults.power
    /\ \/ dbSynced # db /\ dbSynced' = db /\ UNCHANGED assetsdbSynced
       \/ assetsdbSynced # assetsdb /\ assetsdbSynced' = assetsdb /\ UNCHANGED dbSynced
    /\ UNCHANGED <<blockTreeDB, files, db, assetsdb, index, view, assets, failedBlocks,
                   phase, job, faults>>

-----------------------------------------------------------------------------
Flush == \/ FlushBlockFile \/ WriteBatchSync \/ FlushDone
         \/ \E part \in SUBSET dirty, last \in BOOLEAN : BatchWrite(part, last)
         \/ \E a \in Assets : DumpAsset(a)
Startup == LoadBlockIndex \/ ReplayBlocks \/ LoadChainTip \/ StartupFails

Next == \/ \E b \in Blocks : AcceptBlock(b) \/ ConnectTip(b) \/ RejectBlock(b)
        \/ DisconnectTip
        \/ Flush \/ Startup
        \/ WriteBatchSyncThrows \/ BatchWriteAsserts
        \/ \E part \in SUBSET dirty : BatchWriteThrows(part)
        \/ Crash \/ PowerLoss \/ SyncDatabases

Spec == Init /\ [][Next]_vars

\* The thread that flushes goes on, and a node that stopped is started again.
FairSpec == Spec /\ WF_vars(Flush) /\ WF_vars(Startup)

-----------------------------------------------------------------------------
CoinMaps == [Coins -> {Height[b] : b \in Blocks}]
Entries  == [file : 0..MaxFile, undo : BOOLEAN]
Database == [best  : Blocks \cup {Null},
             heads : [new : Blocks \cup {Null}, old : Blocks \cup {Null}],
             coins : CoinMaps]

\* Every variable holds a value of its type; a database is never both consistent
\* with a block and in transition.
TypeOK ==
    /\ blockTreeDB \in [Blocks -> Entries] /\ mapBlockIndex \in [Blocks -> Entries]
    /\ blkSynced \subseteq blk /\ blk \subseteq Blocks
    /\ revSynced \subseteq DOMAIN rev /\ DOMAIN rev \subseteq Blocks
    /\ \A b \in DOMAIN rev : rev[b] \in [Spends[b] -> {Height[a] : a \in Blocks}]
    /\ {db, dbSynced} \subseteq Database
    /\ \A d \in {db, dbSynced} : d.best = Null \/ d.heads = NoHeads
    /\ assetsdb \subseteq Assets /\ assetsdbSynced \subseteq Assets /\ assets \subseteq Assets
    /\ setDirtyBlockIndex \subseteq Blocks /\ nLastBlockFile \in 1..MaxFile
    /\ tip \in Blocks \cup {Null} /\ coins \in CoinMaps /\ dirty \subseteq Coins
    /\ failedBlocks \subseteq Blocks
    /\ phase \in {"down", "load", "replay", "running", "flush", "index", "coins", "assets", "failed"}
    /\ job \in {"run", "replay", "stop"}
    /\ faults \in [crash : 0..MaxCrashes, power : 0..MaxPowerLosses, write : 0..MaxWriteErrors]

\* "In the last batch, mark the database as consistent with hashBlock again": a
\* coins database that names a best block holds exactly the coins of its branch,
\* now and after a power loss, as long as no write failed.
DatabaseConsistent ==
    faults.write = 0 => \A d \in {db, dbSynced} : d.best # Null => d.coins = UTXO(d.best)

\* A later block file is in the stored index: FlushBlockFile no longer syncs the rev
\* file of b.
InEarlierFile(b) == \E c \in Known(blockTreeDB) : blockTreeDB[b].file < blockTreeDB[c].file

\* Wherever a flush was cut off, even the flush of a replay, ReplayBlocks has what
\* it needs and arrives at the coins of the new tip; unless a power loss took undo
\* data of the old branch that was appended to an earlier rev file.
AlwaysRecoverable ==
    \A d \in {db, dbSynced} : d.heads.new # Null /\ faults.write = 0 =>
        \/ CanReplay(blockTreeDB, d.heads) /\ Replayed(d) = UTXO(d.heads.new)
        \/ faults.power > 0 /\ \E b \in OldBranch(d.heads) \ DOMAIN rev : InEarlierFile(b)

\* The coins database names only blocks whose branch, with its undo data, is in
\* the stored block index ("Flush the chainstate (which may refer to block index
\* entries)").
IndexCoversCoins ==
    \A d \in {db, dbSynced} :
        \A t \in {d.best, d.heads.new, d.heads.old} :
            t # Null => \A a \in Ancestors[t] \ {Genesis} : blockTreeDB[a].undo

\* The assertion of BatchWrite: an unfinished transition is only ever completed
\* towards the same block.
SameTransition ==
    phase = "coins" /\ db.heads.new # Null => db.heads.new = tip

\* The assets the node believes in are those issued on the active branch.
AssetsMatchTip == phase = "running" => assets = AssetsOf(tip)

\* As long as there was no crash, reorganisations, flushes and clean restarts keep
\* the assets those of the active branch.
AssetsFollowTip == faults.crash = 0 => AssetsMatchTip

\* "First make sure all block and undo data is flushed to disk" (validation.cpp:3003),
\* as far as it goes with any number of files: a power loss can take away no block
\* the stored index refers to, whichever file it is in, and no undo data but what was
\* appended to a rev file after the node had moved on to the next.
IndexedDataSynced ==
    /\ Known(blockTreeDB) \subseteq blkSynced
    /\ \A b \in Blocks : blockTreeDB[b].undo => b \in revSynced \/ InEarlierFile(b)

\* However often it crashes, a node that is started again gets to work.
Recovers == phase = "down" ~> phase = "running"
=============================================================================
