----------------------- MODULE ChainstateFlush_proofs -----------------------
(***************************************************************************)
(* Proofs about ChainstateFlush, for every tree of valid blocks, any       *)
(* number of crashes and power losses, and wherever in a flush they        *)
(* happen:                                                                 *)
(*                                                                         *)
(*   FlushInv       the stored index covers what the coins database names; *)
(*   TransitionInv  an unfinished transition is completed as it was begun; *)
(*   CoinInv        the view is the coins of the tip, and a database that  *)
(*                  is not in transition those of its best block;          *)
(*   FileInv        what an index refers to is in the files;               *)
(*   AssetInv       the assets are those of the tip.                       *)
(*                                                                         *)
(* Between CoinInv and the code lies what a replay computes (ReplayRight): *)
(* rolling back and forward from any mixture of the coins of the two heads *)
(* arrives at those of the new head.  Both walks are recursive functions.  *)
(* Each is shown to exist by giving its values in closed form, and to have *)
(* no other by the least height at which another would differ.             *)
(***************************************************************************)
EXTENDS ChainstateFlush, TLAPS

\* Most steps are first-order and left to Zenon; those that need more name SMT.
USE Zenon

-----------------------------------------------------------------------------
(* The tree of blocks. *)

\* The genesis block has no parent and does nothing; no block is called Null.
LEMMA Root ==
    /\ Genesis \in Blocks /\ Null \notin Blocks /\ Genesis # Null
    /\ Parent \in [Blocks \ {Genesis} -> Blocks]
    /\ Ancestors[Genesis] = {Genesis} /\ Height[Genesis] = 0
    /\ Creates[Genesis] = {} /\ Spends[Genesis] = {} /\ Issues[Genesis] = {}
  <1>1. Genesis \in Blocks /\ Null \notin Blocks
    BY BlockTree
  <1> QED  BY <1>1, BlockTree, ValidBlocks

\* The ancestors of a block.
LEMMA Ancestry ==
    ASSUME NEW b \in Blocks
    PROVE  /\ b \in Ancestors[b] /\ Ancestors[b] \subseteq Blocks
           /\ \A a \in Ancestors[b] : Ancestors[a] \subseteq Ancestors[b]
           /\ b # Genesis => /\ Parent[b] \in Blocks /\ b \notin Ancestors[Parent[b]]
                             /\ Ancestors[b] = {b} \cup Ancestors[Parent[b]]
  <1>1. b # Genesis => /\ Parent[b] \in Blocks /\ b \notin Ancestors[Parent[b]]
                       /\ Ancestors[b] = {b} \cup Ancestors[Parent[b]]
    BY BlockTree
  <1>2. b \in Ancestors[b]
    BY <1>1, BlockTree
  <1> QED  BY <1>1, <1>2, BlockTree

-----------------------------------------------------------------------------
(* The block index is written before the coins. *)

\* The branch of t has its undo data, according to the index idx.
HasUndo(idx, t) == t # Null => \A a \in Ancestors[t] \ {Genesis} : idx[a].undo

\* The blocks a coins database refers to.
Named(d) == {d.best, d.heads.new, d.heads.old}

FlushTypes ==
    /\ DOMAIN mapBlockIndex = Blocks
    /\ DOMAIN blockTreeDB = Blocks
    /\ tip \in Blocks \cup {Null}
    /\ \A d \in {db, dbSynced} : Named(d) \subseteq Blocks \cup {Null}
    /\ faults.write \in Nat
    /\ faults = [crash |-> faults.crash, power |-> faults.power, write |-> faults.write]

\* Every branch the database may come back with has its undo data in idx.
Covered(idx) == \A d \in {db, dbSynced} : \A t \in Named(d) : HasUndo(idx, t)

\* Why the order of FlushStateToDisk is enough: an entry that is not stored is
\* dirty, the index never forgets undo data, and when the coins are written
\* nothing of their branch is dirty any more.
FlushInv ==
    /\ FlushTypes
    /\ \A b \in Blocks : b \notin setDirtyBlockIndex => mapBlockIndex[b] = blockTreeDB[b]
    /\ \A b \in Blocks : blockTreeDB[b].undo => mapBlockIndex[b].undo
    /\ HasUndo(mapBlockIndex, tip)
    /\ phase = "down" => tip = Null
    /\ phase = "coins" => HasUndo(blockTreeDB, tip)
    /\ Covered(blockTreeDB)

\* The second index has the undo data of every branch that the first one has.
LEMMA HasUndoGrows ==
    ASSUME NEW idx, NEW idx2, NEW t \in Blocks \cup {Null}, HasUndo(idx, t),
           \A b \in Blocks : idx[b].undo => idx2[b].undo
    PROVE  HasUndo(idx2, t)
  BY Ancestry DEF HasUndo

\* A fresh data directory satisfies the invariant.
LEMMA FreshDirectory == Init => FlushInv
  BY Root, SMT DEF Init, FlushInv, FlushTypes, Covered, HasUndo, Named, NoEntry, NoHeads

\* The process stops: the index falls back to what is stored, which covers the
\* coins database the machine comes back with.
LEMMA StopKeepsInv ==
    ASSUME FlushInv, NEW kb, NEW kr, Stopped(kb, kr),
           db' \in {db, dbSynced}, dbSynced' = dbSynced,
           faults'.write \in Nat,
           faults' = [crash |-> faults'.crash, power |-> faults'.power, write |-> faults'.write]
    PROVE  FlushInv'
  <1>1. FlushTypes' /\ Covered(blockTreeDB)'
    BY SMT DEF FlushInv, FlushTypes, Covered, Named, HasUndo, Stopped
  <1>2. tip' = Null /\ phase' = "down" /\ mapBlockIndex' = blockTreeDB'
    BY DEF Stopped
  <1> QED  BY <1>1, <1>2 DEF FlushInv, HasUndo

\* Steps that touch neither the stored index nor the coins database.
LEMMA MemoryStepKeepsInv ==
    ASSUME FlushInv, UNCHANGED <<blockTreeDB, db, dbSynced>>,
           DOMAIN mapBlockIndex' = Blocks,
           tip' \in Blocks \cup {Null},
           faults'.write \in Nat,
           faults' = [crash |-> faults'.crash, power |-> faults'.power, write |-> faults'.write],
           \A b \in Blocks : b \notin setDirtyBlockIndex' => mapBlockIndex'[b] = blockTreeDB[b],
           \A b \in Blocks : blockTreeDB[b].undo => mapBlockIndex'[b].undo,
           HasUndo(mapBlockIndex', tip'),
           phase' = "down" => tip' = Null,
           phase' = "coins" => HasUndo(blockTreeDB, tip')
    PROVE  FlushInv'
  <1>1. FlushTypes' /\ Covered(blockTreeDB)'
    BY SMT DEF FlushInv, FlushTypes, Covered, Named, HasUndo
  <1> QED  BY <1>1 DEF FlushInv, HasUndo

\* Blocks arrive and the tip moves; only the index in memory changes.
LEMMA ChainStepKeepsInv ==
    ASSUME FlushInv, NEW b \in Blocks,
           AcceptBlock(b) \/ ConnectTip(b) \/ RejectBlock(b) \/ DisconnectTip
    PROVE  FlushInv'
  <1>1. CASE AcceptBlock(b)
    <2>1. ~mapBlockIndex[b].undo /\ ~blockTreeDB[b].undo
      BY <1>1, SMT DEF AcceptBlock, Known, NoEntry, FlushInv
    <2>2. PICK f : mapBlockIndex' = [mapBlockIndex EXCEPT ![b] = [file |-> f, undo |-> FALSE]]
      BY <1>1 DEF AcceptBlock
    <2>3. \A c \in Blocks : c # b => mapBlockIndex'[c] = mapBlockIndex[c]
      BY <2>2, SMT
    <2>4. HasUndo(mapBlockIndex', tip')
      BY <1>1, <2>1, <2>3, Root, SMT DEF AcceptBlock, view, FlushInv, FlushTypes, HasUndo
    <2> QED
      BY <1>1, <2>1, <2>2, <2>3, <2>4, MemoryStepKeepsInv
         DEF AcceptBlock, view, coinsDisk, FlushInv, FlushTypes
  <1>2. CASE ConnectTip(b)
    <2>1. tip' = b /\ phase' = "running" /\ faults' = faults
          /\ UNCHANGED <<blockTreeDB, db, dbSynced>>
          /\ IF tip = Null THEN b = Genesis ELSE b # Genesis /\ Parent[b] = tip
      BY <1>2 DEF ConnectTip, NextBlocks, coinsDisk
    <2>2. CASE b = Genesis \/ mapBlockIndex[b].undo
      <3>1. UNCHANGED <<mapBlockIndex, setDirtyBlockIndex>>
        BY <1>2, <2>2 DEF ConnectTip, index
      <3>2. HasUndo(mapBlockIndex', tip')
        BY <2>1, <2>2, <3>1, Root, Ancestry, SMT DEF FlushInv, HasUndo
      <3> QED
        BY <2>1, <3>1, <3>2, MemoryStepKeepsInv DEF FlushInv, FlushTypes
    <2>3. CASE ~(b = Genesis \/ mapBlockIndex[b].undo)
      <3>1. /\ mapBlockIndex' = [mapBlockIndex EXCEPT ![b] = [file |-> @.file, undo |-> TRUE]]
            /\ setDirtyBlockIndex' = setDirtyBlockIndex \cup {b}
        BY <1>2, <2>3 DEF ConnectTip
      <3>2. \A c \in Blocks : c # b => mapBlockIndex'[c] = mapBlockIndex[c]
        BY <3>1, SMT
      <3>3. mapBlockIndex'[b].undo
        BY <3>1 DEF FlushInv, FlushTypes
      <3>4. HasUndo(mapBlockIndex', tip')
        BY <2>1, <2>3, <3>2, <3>3, Root, Ancestry, SMT DEF FlushInv, HasUndo
      <3> QED
        BY <2>1, <3>1, <3>2, <3>3, <3>4, MemoryStepKeepsInv DEF FlushInv, FlushTypes
    <2> QED  BY <2>2, <2>3
  <1>3. CASE RejectBlock(b)
    BY <1>3, MemoryStepKeepsInv DEF RejectBlock, coinsDisk, index, view, FlushInv, FlushTypes
  <1>4. CASE DisconnectTip
    <2>1. /\ tip \in Blocks \ {Genesis} /\ tip' = Parent[tip] /\ phase' = "running"
          /\ UNCHANGED <<blockTreeDB, db, dbSynced, mapBlockIndex, setDirtyBlockIndex, faults>>
      BY <1>4 DEF DisconnectTip, coinsDisk, index, FlushInv, FlushTypes
    <2>2. tip' \in Blocks /\ Ancestors[tip'] \subseteq Ancestors[tip]
      BY <2>1, Root, Ancestry
    <2>3. HasUndo(mapBlockIndex', tip')
      BY <2>1, <2>2, Root DEF FlushInv, HasUndo
    <2> QED
      BY <2>1, <2>2, <2>3, MemoryStepKeepsInv DEF FlushInv, FlushTypes
  <1> QED  BY <1>1, <1>2, <1>3, <1>4

\* The steps of FlushStateToDisk: the index first, then the coins.
LEMMA FlushStepKeepsInv ==
    ASSUME FlushInv, Flush
    PROVE  FlushInv'
  <1>1. CASE FlushBlockFile
    BY <1>1, MemoryStepKeepsInv
       DEF FlushBlockFile, coinsDisk, index, view, FlushInv, FlushTypes
  <1>2. CASE WriteBatchSync
    <2>1. UNCHANGED <<mapBlockIndex, tip, db, dbSynced, faults>> /\ phase' # "down"
      BY <1>2 DEF WriteBatchSync, coinsDisk, view
    <2>2. \A b \in Blocks : blockTreeDB'[b] = mapBlockIndex[b]
      BY <1>2 DEF WriteBatchSync, FlushInv
    <2>3. FlushTypes'
      BY <1>2, <2>1 DEF WriteBatchSync, FlushInv, FlushTypes, Named
    <2>4. HasUndo(blockTreeDB', tip)
      BY <2>2, HasUndoGrows, SMT DEF FlushInv, FlushTypes
    <2>5. Covered(blockTreeDB)'
      <3> SUFFICES ASSUME NEW d \in {db, dbSynced}, NEW t \in Named(d)
                   PROVE  HasUndo(blockTreeDB', t)
        BY <2>1 DEF Covered, Named
      <3>1. t \in Blocks \cup {Null} /\ HasUndo(blockTreeDB, t)
        BY DEF FlushInv, FlushTypes, Covered
      <3>2. \A b \in Blocks : blockTreeDB[b].undo => blockTreeDB'[b].undo
        BY <2>2 DEF FlushInv
      <3> QED  BY <3>1, <3>2, HasUndoGrows
    <2> QED
      BY <2>1, <2>2, <2>3, <2>4, <2>5 DEF FlushInv
  <1>3. CASE FlushDone
    <2>1. CASE Stopped(blk, Blocks)
      BY <1>3, <2>1, StopKeepsInv DEF FlushDone, coinsDisk, FlushInv, FlushTypes
    <2>2. CASE phase' = "running" /\ UNCHANGED <<blockTreeDB, index, view>>
      BY <1>3, <2>2, MemoryStepKeepsInv
         DEF FlushDone, coinsDisk, index, view, FlushInv, FlushTypes
    <2> QED  BY <1>3, <2>1, <2>2 DEF FlushDone
  <1>4. ASSUME NEW part \in SUBSET dirty, NEW last \in BOOLEAN, BatchWrite(part, last)
        PROVE  FlushInv'
    <2>1. /\ UNCHANGED <<blockTreeDB, mapBlockIndex, setDirtyBlockIndex, tip, dbSynced, faults>>
          /\ phase' # "down" /\ phase = "coins"
      BY <1>4 DEF BatchWrite, index
    <2>2. Named(db') \subseteq {tip, Null} \cup Named(db)
      <3>1. db'.best \in {tip, Null}
        BY <1>4 DEF BatchWrite
      <3>2. db'.heads \in {NoHeads, [new |-> tip, old |-> OldTip]}
        BY <1>4 DEF BatchWrite
      <3> QED  BY <3>1, <3>2, SMT DEF Named, NoHeads, OldTip
    <2>3. FlushTypes'
      BY <2>1, <2>2, SMT DEF FlushInv, FlushTypes, Named
    <2>4. Covered(blockTreeDB)'
      BY <2>1, <2>2, SMT DEF FlushInv, Covered, Named, HasUndo
    <2> QED
      BY <2>1, <2>3, <2>4 DEF FlushInv, HasUndo
  <1>5. ASSUME NEW a \in Assets, DumpAsset(a)
        PROVE  FlushInv'
    BY <1>5, MemoryStepKeepsInv DEF DumpAsset, coinsDisk, index, view, FlushInv, FlushTypes
  <1> QED  BY <1>1, <1>2, <1>3, <1>4, <1>5 DEF Flush

\* Startup: the tip comes from the coins database, which the index covers.
LEMMA StartupStepKeepsInv ==
    ASSUME FlushInv, Startup
    PROVE  FlushInv'
  <1>1. CASE LoadBlockIndex
    <2>1. /\ UNCHANGED <<blockTreeDB, db, dbSynced, tip, faults>>
          /\ phase' \in {"load", "replay"} /\ tip = Null
      BY <1>1 DEF LoadBlockIndex, coinsDisk, view, FlushInv
    <2>2. DOMAIN mapBlockIndex' = Blocks
      BY <1>1 DEF LoadBlockIndex, FlushInv, FlushTypes
    <2>3. \A b \in Blocks : b \notin setDirtyBlockIndex' => mapBlockIndex'[b] = blockTreeDB[b]
      BY <1>1 DEF LoadBlockIndex, FlushInv, FlushTypes
    <2>4. \A b \in Blocks : blockTreeDB[b].undo => mapBlockIndex'[b].undo
      BY <1>1, Root, SMT DEF LoadBlockIndex, Known, NoEntry, FlushInv, FlushTypes
    <2> QED
      BY <2>1, <2>2, <2>3, <2>4, MemoryStepKeepsInv DEF HasUndo, FlushInv, FlushTypes
  <1>2. ASSUME NEW t \in Named(db), tip' = t, phase' # "down",
               UNCHANGED <<blockTreeDB, db, dbSynced, mapBlockIndex, setDirtyBlockIndex, faults>>
        PROVE  FlushInv'
    <2>1. t \in Blocks \cup {Null} /\ HasUndo(blockTreeDB, t)
      BY <1>2 DEF FlushInv, FlushTypes, Covered
    <2>2. HasUndo(mapBlockIndex, t)
      BY <2>1, HasUndoGrows DEF FlushInv
    <2> QED
      BY <1>2, <2>1, <2>2, MemoryStepKeepsInv DEF FlushInv, FlushTypes
  <1>3. CASE ReplayBlocks
    BY <1>2, <1>3 DEF ReplayBlocks, Named, coinsDisk, index
  <1>4. CASE LoadChainTip
    BY <1>2, <1>4 DEF LoadChainTip, RewindBlockIndex, Named, coinsDisk, index
  <1>5. CASE StartupFails
    BY <1>5, MemoryStepKeepsInv DEF StartupFails, coinsDisk, index, view, FlushInv, FlushTypes
  <1> QED  BY <1>1, <1>3, <1>4, <1>5 DEF Startup

\* Whatever happens, but for a database write that fails.
LEMMA StepKeepsInv ==
    ASSUME ~WriteError, FlushInv, [Next]_vars
    PROVE  FlushInv'
  <1>1. CASE BatchWriteAsserts
    BY <1>1, StopKeepsInv DEF BatchWriteAsserts, coinsDisk, FlushInv, FlushTypes
  <1>2. CASE Crash
    <2>1. Stopped(blk, Blocks) /\ db' = db /\ dbSynced' = dbSynced
      BY <1>2 DEF Crash, coinsDisk
    <2>2. faults' = [faults EXCEPT !.crash = @ + 1]
      BY <1>2 DEF Crash
    <2>3. /\ faults'.write \in Nat
          /\ faults' = [crash |-> faults'.crash, power |-> faults'.power, write |-> faults'.write]
      BY <2>2 DEF FlushInv, FlushTypes
    <2> QED  BY <2>1, <2>3, StopKeepsInv
  <1>3. CASE PowerLoss
    <2>1. PICK kb, kr : Stopped(kb, kr)
      BY <1>3 DEF PowerLoss
    <2>2. faults' = [faults EXCEPT !.power = @ + 1] /\ db' = dbSynced /\ dbSynced' = dbSynced
      BY <1>3 DEF PowerLoss
    <2>3. /\ faults'.write \in Nat
          /\ faults' = [crash |-> faults'.crash, power |-> faults'.power, write |-> faults'.write]
      BY <2>2 DEF FlushInv, FlushTypes
    <2> QED  BY <2>1, <2>2, <2>3, StopKeepsInv
  <1>4. CASE SyncDatabases
    <2>1. /\ UNCHANGED <<blockTreeDB, db, mapBlockIndex, setDirtyBlockIndex, tip, phase, faults>>
          /\ dbSynced' \in {db, dbSynced}
      BY <1>4 DEF SyncDatabases, index, view
    <2>2. FlushTypes' /\ Covered(blockTreeDB)'
      BY <2>1, SMT DEF FlushInv, FlushTypes, Covered, Named, HasUndo
    <2> QED  BY <2>1, <2>2 DEF FlushInv, HasUndo
  <1>5. CASE UNCHANGED vars
    BY <1>5, MemoryStepKeepsInv DEF vars, coinsDisk, index, view, FlushInv, FlushTypes
  <1>6. CASE WriteBatchSyncThrows \/ \E part \in SUBSET dirty : BatchWriteThrows(part)
    BY <1>6 DEF WriteBatchSyncThrows, BatchWriteThrows
  <1>7. CASE DisconnectTip
    BY <1>7, ChainStepKeepsInv, Root
  <1> QED
    BY <1>1, <1>2, <1>3, <1>4, <1>5, <1>6, <1>7, ChainStepKeepsInv, FlushStepKeepsInv,
       StartupStepKeepsInv DEF Next

\* If database writes do not fail, then whatever the crashes and power losses, the
\* coins database names only blocks whose branch and undo data the stored block
\* index has: FlushStateToDisk writes the index before the coins.
THEOREM IndexWrittenFirst == MaxWriteErrors = 0 => (Spec => []IndexCoversCoins)
  <1> SUFFICES ASSUME MaxWriteErrors = 0
               PROVE  Spec => []IndexCoversCoins
    OBVIOUS
  <1>1. Init => FlushInv
    BY FreshDirectory
  <1>2. FlushInv /\ [Next]_vars => FlushInv'
    <2>1. FlushInv => ~WriteError
      BY SMT DEF WriteError, FlushInv, FlushTypes
    <2> QED  BY <2>1, StepKeepsInv
  <1>3. FlushInv => IndexCoversCoins
    BY DEF FlushInv, Covered, Named, HasUndo, IndexCoversCoins
  <1> QED  BY <1>1, <1>2, <1>3, PTL DEF Spec

-----------------------------------------------------------------------------
(* Transitions of the coins database. *)

\* While the coins database is in transition, the node is down or recovering, or
\* it is on its way back to the same write with the same tip.
TransitionInv ==
    db.heads.new # Null =>
        \/ phase \in {"down", "replay", "failed"}
        \/ tip = db.heads.new /\ phase = "coins"
        \/ tip = db.heads.new /\ phase \in {"flush", "index"} /\ job = "stop"

\* The process stops and the machine comes back with some coins database.
LEMMA StopKeepsTransition ==
    ASSUME NEW kb, NEW kr, Stopped(kb, kr)
    PROVE  TransitionInv'
  BY DEF Stopped, TransitionInv

\* Every step keeps it, failing writes included.
LEMMA StepKeepsTransition ==
    ASSUME TransitionInv, [Next]_vars
    PROVE  TransitionInv'
  <1>1. ASSUME NEW b \in Blocks, AcceptBlock(b) \/ ConnectTip(b) \/ RejectBlock(b)
        PROVE  TransitionInv'
    BY <1>1 DEF AcceptBlock, ConnectTip, RejectBlock, coinsDisk, TransitionInv
  <1>2. CASE DisconnectTip
    BY <1>2 DEF DisconnectTip, coinsDisk, TransitionInv
  <1>3. CASE FlushBlockFile
    BY <1>3 DEF FlushBlockFile, coinsDisk, view, TransitionInv
  <1>4. CASE WriteBatchSync
    BY <1>4 DEF WriteBatchSync, coinsDisk, view, TransitionInv
  <1>5. CASE FlushDone
    <2>1. CASE Stopped(blk, Blocks)
      BY <2>1, StopKeepsTransition
    <2>2. CASE job = "run" /\ phase' = "running"
      BY <1>5, <2>2 DEF FlushDone, coinsDisk, TransitionInv
    <2> QED  BY <1>5, <2>1, <2>2 DEF FlushDone
  <1>6. ASSUME NEW part \in SUBSET dirty, NEW last \in BOOLEAN, BatchWrite(part, last)
        PROVE  TransitionInv'
    <2>1. CASE last
      BY <1>6, <2>1 DEF BatchWrite, NoHeads, TransitionInv
    <2>2. CASE ~last
      BY <1>6, <2>2 DEF BatchWrite, TransitionInv
    <2> QED  BY <2>1, <2>2
  <1>7. ASSUME NEW a \in Assets, DumpAsset(a)
        PROVE  TransitionInv'
    BY <1>7 DEF DumpAsset, coinsDisk, view, TransitionInv
  <1>8. CASE Startup
    BY <1>8 DEF Startup, LoadBlockIndex, ReplayBlocks, LoadChainTip, StartupFails, coinsDisk,
                view, TransitionInv
  <1>9. CASE WriteBatchSyncThrows
    BY <1>9 DEF WriteBatchSyncThrows, WriteError, coinsDisk, view, TransitionInv
  <1>10. ASSUME NEW part \in SUBSET dirty, BatchWriteThrows(part)
         PROVE  TransitionInv'
    BY <1>10 DEF BatchWriteThrows, WriteError, coinsDisk, TransitionInv
  <1>11. CASE BatchWriteAsserts \/ Crash
    BY <1>11, StopKeepsTransition DEF BatchWriteAsserts, Crash
  <1>12. CASE PowerLoss
    BY <1>12, StopKeepsTransition DEF PowerLoss
  <1>13. CASE SyncDatabases
    BY <1>13 DEF SyncDatabases, view, TransitionInv
  <1>14. CASE UNCHANGED vars
    BY <1>14 DEF vars, coinsDisk, view, TransitionInv
  <1> QED
    BY <1>1, <1>2, <1>3, <1>4, <1>5, <1>6, <1>7, <1>8, <1>9, <1>10, <1>11, <1>12, <1>13, <1>14
       DEF Next, Flush

\* Whatever crashes, power losses and failing writes come in between, BatchWrite
\* only ever completes a transition of the coins database towards the block it was
\* begun for, as its assertion demands.
THEOREM OneTransition == Spec => []SameTransition
  <1>1. Init => TransitionInv
    BY DEF Init, NoHeads, TransitionInv
  <1>2. TransitionInv /\ [Next]_vars => TransitionInv'
    BY StepKeepsTransition
  <1>3. TransitionInv => SameTransition
    BY DEF TransitionInv, SameTransition
  <1> QED  BY <1>1, <1>2, <1>3, PTL DEF Spec

-----------------------------------------------------------------------------
(* The tree of blocks, and the coins at a block. *)

\* Some blocks of a branch have a lowest one and a highest one.
LEMMA LowestHighest ==
    ASSUME NEW b \in Blocks, NEW S, S \subseteq Ancestors[b], S # {}
    PROVE  /\ \E x \in S : \A y \in S : Height[x] <= Height[y]
           /\ \E x \in S : \A y \in S : Height[y] <= Height[x]
  <1>1. \A T \in SUBSET Ancestors[b] : T # {} =>
          \E low, high \in T : \A y \in T : Height[low] <= Height[y] /\ Height[y] <= Height[high]
    BY BlockTree
  <1>2. \E low, high \in S : \A y \in S : Height[low] <= Height[y] /\ Height[y] <= Height[high]
    BY <1>1
  <1> QED  BY <1>2

\* On one branch the height tells the block, and which of two blocks comes first.
LEMMA HeightTells ==
    ASSUME NEW b \in Blocks, NEW x \in Ancestors[b], NEW y \in Ancestors[b]
    PROVE  /\ x \in Blocks /\ y \in Blocks /\ Height[x] \in Nat
           /\ x \in Ancestors[y] <=> Height[x] <= Height[y]
           /\ AncestorAt(b, Height[x]) = x
  <1>1. x \in Blocks /\ y \in Blocks
    BY Ancestry
  <1>2. Height[x] \in Nat /\ Height[y] \in Nat
    BY <1>1, BlockTree
  <1>3. x \in Ancestors[y] => Height[x] <= Height[y]
    BY <1>1, BlockTree
  <1>4. ASSUME Height[x] <= Height[y] PROVE x \in Ancestors[y]
    <2>1. PICK z \in Ancestors[y] : Height[z] = Height[x]
      BY <1>1, <1>2, <1>4, BlockTree, SMT
    <2>2. z \in Ancestors[b]
      BY Ancestry
    <2> QED  BY <2>1, <2>2, BlockTree, SMT
  <1>5. AncestorAt(b, Height[x]) = x
    BY BlockTree DEF AncestorAt
  <1> QED  BY <1>1, <1>2, <1>3, <1>4, <1>5

\* Every branch begins with Genesis.
LEMMA GenesisFirst ==
    ASSUME NEW b \in Blocks
    PROVE  Genesis \in Ancestors[b]
  <1>1. PICK a \in Ancestors[b] : Height[a] = 0
    BY BlockTree, SMT
  <1>2. a \in Blocks
    BY Ancestry
  <1>3. a # Genesis => Height[Parent[a]] \in Nat /\ Height[a] = Height[Parent[a]] + 1
    BY <1>2, BlockTree
  <1> QED  BY <1>1, <1>3, SMT

\* The blocks that create or spend c.
Touches(x, c) == c \in Creates[x] \cup Spends[x]

\* On one branch at most one block creates a coin, and it comes before what spends it.
LEMMA OneCreator ==
    ASSUME NEW b \in Blocks, NEW c
    PROVE  /\ \A x, y \in Ancestors[b] : c \in Creates[x] /\ c \in Creates[y] => x = y
           /\ \A x \in Ancestors[b] : c \in Spends[x] => \E y \in Ancestors[x] : c \in Creates[y]
  <1>1. ASSUME NEW x \in Ancestors[b], NEW y \in Ancestors[b], c \in Creates[x], c \in Creates[y], x # y
        PROVE  FALSE
    <2>1. x \in Blocks /\ y \in Blocks /\ (x \in Ancestors[y] \/ y \in Ancestors[x])
      BY HeightTells, SMT
    <2> QED  BY <1>1, <2>1, ValidBlocks DEF Proper
  <1>2. ASSUME NEW x \in Ancestors[b], c \in Spends[x] PROVE \E y \in Ancestors[x] : c \in Creates[y]
    BY <1>2, Ancestry, ValidBlocks, SMT
  <1> QED  BY <1>1, <1>2

\* The coins at a block are functions from outpoints to heights.
LEMMA UTXOAt ==
    ASSUME NEW b \in Blocks, NEW c \in Coins
    PROVE  /\ (\A a \in Ancestors[b] : c \notin Creates[a]) => UTXO(b)[c] = 0
           /\ \A a \in Ancestors[b] : c \in Spends[a] => UTXO(b)[c] = 0
           /\ \A a \in Ancestors[b] : c \in Creates[a] /\ (\A x \in Ancestors[b] : c \notin Spends[x])
                 => UTXO(b)[c] = Height[a]
  <1>1. b # Null
    BY Root
  <1>2. UTXO(b)[c] = IF b = Null \/ \A a \in Ancestors[b] : c \notin Creates[a] THEN 0
                     ELSE IF \E a \in Ancestors[b] : c \in Spends[a] THEN 0
                     ELSE Height[CHOOSE a \in Ancestors[b] : c \in Creates[a]]
    BY DEF UTXO
  <1>3. ASSUME NEW a \in Ancestors[b], c \in Creates[a]
        PROVE  (CHOOSE x \in Ancestors[b] : c \in Creates[x]) = a
    BY <1>3, OneCreator
  <1> QED  BY <1>1, <1>2, <1>3

\* What no block since a touched is at b as it was at a.
LEMMA UntouchedSince ==
    ASSUME NEW b \in Blocks, NEW a \in Ancestors[b], NEW c \in Coins,
           \A x \in Ancestors[b] \ Ancestors[a] : ~Touches(x, c)
    PROVE  UTXO(b)[c] = UTXO(a)[c]
  <1>1. a \in Blocks /\ Ancestors[a] \subseteq Ancestors[b]
    BY Ancestry
  <1>2. \A x \in Ancestors[b] : c \in Creates[x] \/ c \in Spends[x] => x \in Ancestors[a]
    BY DEF Touches
  <1>3. CASE \A x \in Ancestors[b] : c \notin Creates[x]
    BY <1>1, <1>3, UTXOAt, SMT
  <1>4. CASE \E x \in Ancestors[b] : c \in Spends[x]
    BY <1>1, <1>2, <1>4, UTXOAt, SMT
  <1>5. CASE (\E x \in Ancestors[b] : c \in Creates[x]) /\ (\A x \in Ancestors[b] : c \notin Spends[x])
    <2>1. PICK x \in Ancestors[b] : c \in Creates[x]
      BY <1>5
    <2>2. x \in Ancestors[a] /\ UTXO(b)[c] = Height[x]
      BY <1>2, <1>5, <2>1, UTXOAt, SMT
    <2>3. UTXO(a)[c] = Height[x]
      BY <1>1, <1>5, <2>1, <2>2, UTXOAt, SMT
    <2> QED  BY <2>2, <2>3
  <1> QED  BY <1>3, <1>4, <1>5

\* Genesis has no coins, and neither has an empty database.
LEMMA NoCoinsAtGenesis ==
    UTXO(Genesis) = NoCoins /\ UTXO(Null) = NoCoins
  <1>1. \A a \in Ancestors[Genesis] : \A c : c \notin Creates[a]
    BY Root
  <1> QED  BY <1>1 DEF UTXO, NoCoins

\* ConnectBlock and RollforwardBlock lead from the coins at the parent to those at b.
LEMMA RollforwardRight ==
    ASSUME NEW b \in Blocks, b # Genesis
    PROVE  RollforwardBlock(UTXO(Parent[b]), b) = UTXO(b)
  <1>1. /\ Parent[b] \in Blocks /\ Ancestors[b] = {b} \cup Ancestors[Parent[b]] /\ b \in Ancestors[b]
        /\ b \notin Ancestors[Parent[b]] /\ Parent[b] \in Ancestors[b]
    BY Ancestry
  <1>2. ASSUME NEW c \in Coins PROVE RollforwardBlock(UTXO(Parent[b]), b)[c] = UTXO(b)[c]
    <2>1. CASE c \in Spends[b]
      BY <1>1, <2>1, UTXOAt DEF RollforwardBlock
    <2>2. CASE c \notin Spends[b] /\ c \in Creates[b]
      <3>1. ASSUME NEW x \in Ancestors[b], c \in Spends[x] PROVE FALSE
        <4>1. PICK y \in Ancestors[x] : c \in Creates[y]
          BY <3>1, OneCreator, SMT
        <4>2. x \in Ancestors[Parent[b]] /\ y \in Ancestors[b] /\ y \in Ancestors[Parent[b]]
          BY <1>1, <2>2, <3>1, <4>1, Ancestry
        <4> QED  BY <1>1, <2>2, <4>1, <4>2, OneCreator
      <3>2. UTXO(b)[c] = Height[b]
        BY <1>1, <2>2, <3>1, UTXOAt, SMT
      <3> QED  BY <2>2, <3>2 DEF RollforwardBlock
    <2>3. CASE c \notin Spends[b] /\ c \notin Creates[b]
      <3>1. UTXO(b)[c] = UTXO(Parent[b])[c]
        BY <1>1, <2>3, UntouchedSince, SMT DEF Touches
      <3> QED  BY <2>3, <3>1 DEF RollforwardBlock
    <2> QED  BY <2>1, <2>2, <2>3
  <1>3. UTXO(b) = [c \in Coins |-> UTXO(b)[c]]
    BY SMT DEF UTXO
  <1> QED  BY <1>2, <1>3 DEF RollforwardBlock

\* The undo data of b is what ConnectBlock wrote.
UndoRight(b) == rev[b] = UndoOf(UTXO(Parent[b]), b)

\* With that undo data DisconnectBlock sets every coin that b touched to what it was at
\* the parent, whatever it is now.
LEMMA DisconnectRight ==
    ASSUME NEW b \in Blocks, b # Genesis, UndoRight(b), NEW v, NEW c \in Coins
    PROVE  DisconnectBlock(v, b)[c] = IF Touches(b, c) THEN UTXO(Parent[b])[c] ELSE v[c]
  <1>1. /\ Parent[b] \in Blocks /\ Ancestors[b] = {b} \cup Ancestors[Parent[b]] /\ b \in Ancestors[b]
        /\ b \notin Ancestors[Parent[b]]
    BY Ancestry
  <1>2. CASE c \in Creates[b]
    <2>1. \A a \in Ancestors[Parent[b]] : c \notin Creates[a]
      BY <1>1, <1>2, OneCreator
    <2>2. UTXO(Parent[b])[c] = 0
      BY <1>1, <2>1, UTXOAt
    <2> QED  BY <1>2, <2>2 DEF DisconnectBlock, Touches
  <1>3. CASE c \notin Creates[b] /\ c \in Spends[b]
    BY <1>3 DEF DisconnectBlock, UndoRight, UndoOf, Touches
  <1>4. CASE c \notin Creates[b] /\ c \notin Spends[b]
    BY <1>4 DEF DisconnectBlock, Touches
  <1> QED  BY <1>2, <1>3, <1>4

\* DisconnectBlock after ConnectBlock: the coins at the parent.
LEMMA DisconnectUndoes ==
    ASSUME NEW b \in Blocks, b # Genesis, UndoRight(b)
    PROVE  DisconnectBlock(UTXO(b), b) = UTXO(Parent[b])
  <1>1. Parent[b] \in Ancestors[b] /\ Ancestors[b] = {b} \cup Ancestors[Parent[b]]
    BY Ancestry
  <1>2. ASSUME NEW c \in Coins PROVE DisconnectBlock(UTXO(b), b)[c] = UTXO(Parent[b])[c]
    <2>1. ~Touches(b, c) => UTXO(b)[c] = UTXO(Parent[b])[c]
      BY <1>1, UntouchedSince, SMT
    <2> QED  BY <2>1, DisconnectRight
  <1>3. UTXO(Parent[b]) = [c \in Coins |-> UTXO(Parent[b])[c]]
    BY SMT DEF UTXO
  <1> QED  BY <1>2, <1>3 DEF DisconnectBlock

\* LastCommonAncestor finds the block at which two branches part.
LEMMA Fork ==
    ASSUME NEW s \in Blocks, NEW t \in Blocks
    PROVE  LET f == LastCommonAncestor(s, t) IN
           /\ f \in Blocks /\ f \in Ancestors[s] /\ f \in Ancestors[t]
           /\ Ancestors[f] = Ancestors[s] \cap Ancestors[t]
  <1> DEFINE S == Ancestors[s] \cap Ancestors[t]
  <1>1. S \subseteq Ancestors[s] /\ S # {}
    BY GenesisFirst
  <1>2. PICK f \in S : \A a \in S : Height[a] <= Height[f]
    <2> HIDE DEF S
    <2> QED  BY <1>1, LowestHighest
  <1>3. Ancestors[f] \subseteq S
    BY Ancestry
  <1>4. ASSUME NEW x \in S PROVE x \in Ancestors[f]
    BY <1>2, HeightTells
  <1>5. \E g \in S : Ancestors[g] = S
    BY <1>3, <1>4
  <1>6. LastCommonAncestor(s, t) \in S /\ Ancestors[LastCommonAncestor(s, t)] = S
    BY <1>5 DEF LastCommonAncestor
  <1> QED  BY <1>6, Ancestry

\* The heights of a branch from f to t.
LEMMA BranchHeights ==
    ASSUME NEW t \in Blocks, NEW f \in Ancestors[t]
    PROVE  /\ f \in Blocks /\ Height[f] \in Nat /\ Height[t] \in Nat /\ Height[f] <= Height[t]
           /\ \A x \in Ancestors[t] : /\ Height[x] \in Nat /\ Height[x] <= Height[t]
                                      /\ x \notin Ancestors[f] <=> Height[x] > Height[f]
  <1>1. f \in Blocks /\ t \in Ancestors[t]
    BY Ancestry
  <1>2. Height[f] \in Nat /\ Height[t] \in Nat /\ Height[f] <= Height[t]
    BY <1>1, BlockTree
  <1>3. ASSUME NEW x \in Ancestors[t]
        PROVE  /\ Height[x] \in Nat /\ Height[x] <= Height[t]
               /\ x \notin Ancestors[f] <=> Height[x] > Height[f]
    <2>1. x \in Ancestors[f] <=> Height[x] <= Height[f]
      BY HeightTells
    <2>2. Height[x] \in Nat /\ Height[x] <= Height[t]
      BY Ancestry, BlockTree
    <2> QED  BY <1>2, <2>1, <2>2, SMT
  <1> QED  BY <1>1, <1>2, <1>3

\* Next to each other on a branch.
LEMMA Neighbours ==
    ASSUME NEW t \in Blocks, NEW h \in 0 .. (Height[t] - 1)
    PROVE  LET b == AncestorAt(t, h + 1) IN
           /\ b \in Blocks /\ b # Genesis /\ b \in Ancestors[t] /\ Height[b] = h + 1
           /\ AncestorAt(t, h) = Parent[b]
           /\ \A x \in Ancestors[t] : Height[x] > h <=> x = b \/ Height[x] > h + 1
           /\ \A x \in Ancestors[t] : Height[x] <= h + 1 <=> x = b \/ Height[x] <= h
  <1> DEFINE b == AncestorAt(t, h + 1)
  <1>1. Height[t] \in Nat /\ h \in Nat /\ h + 1 \in 0 .. Height[t]
    BY BlockTree, SMT
  <1>2. b \in Ancestors[t] /\ Height[b] = h + 1
    <2>1. \E a \in Ancestors[t] : Height[a] = h + 1
      BY <1>1, BlockTree, SMT
    <2> QED  BY <2>1 DEF AncestorAt
  <1>3. b \in Blocks /\ b # Genesis
    BY <1>1, <1>2, Ancestry, BlockTree, SMT
  <1>4. Parent[b] \in Ancestors[t] /\ Height[Parent[b]] = h
    <2> HIDE DEF b
    <2>1. Height[Parent[b]] \in Nat /\ Height[b] = Height[Parent[b]] + 1
      BY <1>3, BlockTree
    <2>2. Parent[b] \in Ancestors[t]
      BY <1>2, <1>3, Ancestry
    <2> QED  BY <1>1, <1>2, <2>1, <2>2, SMT
  <1>5. AncestorAt(t, h) = Parent[b]
    BY <1>4, HeightTells, SMT
  <1>6. ASSUME NEW x \in Ancestors[t] PROVE /\ Height[x] > h <=> x = b \/ Height[x] > h + 1
                                            /\ Height[x] <= h + 1 <=> x = b \/ Height[x] <= h
    <2>1. Height[x] \in Nat
      BY HeightTells
    <2>2. Height[x] = h + 1 => x = b
      BY <1>2, BlockTree, SMT
    <2> QED  BY <1>1, <1>2, <2>1, <2>2, SMT
  <1> QED  BY <1>2, <1>3, <1>5, <1>6

\* The function with which RolledBack walks down the branch of t, and the one with
\* which RolledForward walks up.
IsWalkDown(F, v, t, bottom) ==
    F = [h \in bottom .. Height[t] |->
            IF h = Height[t] THEN v ELSE DisconnectBlock(F[h+1], AncestorAt(t, h+1))]
IsWalkUp(F, v, t, bottom) ==
    F = [h \in bottom .. Height[t] |->
            IF h = bottom THEN v ELSE RollforwardBlock(F[h-1], AncestorAt(t, h))]

\* Where the two walks arrive.
WalkedDown(v, t, bottom) == (CHOOSE F : IsWalkDown(F, v, t, bottom))[bottom]
WalkedUp(v, t, bottom) == (CHOOSE F : IsWalkUp(F, v, t, bottom))[Height[t]]

\* Rolling back from t to f, with the right undo data, sets what the blocks on the way
\* touched to what it was at f and leaves the rest as it is.
LEMMA WalkDown ==
    ASSUME NEW t \in Blocks, NEW f \in Ancestors[t], NEW v, v = [c \in Coins |-> v[c]],
           \A b \in Ancestors[t] \ Ancestors[f] : UndoRight(b)
    PROVE  WalkedDown(v, t, Height[f]) =
              [c \in Coins |-> IF \E x \in Ancestors[t] \ Ancestors[f] : Touches(x, c)
                               THEN UTXO(f)[c] ELSE v[c]]
  <1> DEFINE Closed(h) == [c \in Coins |-> IF \E x \in Ancestors[t] : Height[x] > h /\ Touches(x, c)
                                           THEN UTXO(AncestorAt(t, h))[c] ELSE v[c]]
             F == CHOOSE G : IsWalkDown(G, v, t, Height[f])
  <1>1. f \in Blocks /\ Height[f] \in Nat /\ Height[t] \in Nat /\ Height[f] <= Height[t]
    BY BranchHeights
  <1>2. ASSUME NEW x \in Ancestors[t]
        PROVE  ~(Height[x] > Height[t]) /\ (Height[x] > Height[f] <=> x \notin Ancestors[f])
    BY BranchHeights, SMT
  <1>3. Closed(Height[t]) = v
    BY <1>2
  <1>4. ASSUME NEW h \in Height[f] .. (Height[t] - 1)
        PROVE  DisconnectBlock(Closed(h + 1), AncestorAt(t, h + 1)) = Closed(h)
    <2> DEFINE b == AncestorAt(t, h + 1)
    <2>1. h \in 0 .. (Height[t] - 1)
      BY <1>1, SMT
    <2>2. /\ b \in Blocks /\ b # Genesis /\ b \in Ancestors[t] /\ Height[b] = h + 1
          /\ AncestorAt(t, h) = Parent[b]
          /\ \A x \in Ancestors[t] : Height[x] > h <=> x = b \/ Height[x] > h + 1
      BY <2>1, Neighbours
    <2>3. UndoRight(b)
      BY <1>1, <1>2, <2>1, <2>2, SMT
    <2>4. Parent[b] \in Ancestors[b] /\ Ancestors[b] = {b} \cup Ancestors[Parent[b]]
      BY <2>2, Ancestry, SMT
    <2> HIDE DEF b
    <2>5. ASSUME NEW c \in Coins PROVE DisconnectBlock(Closed(h + 1), b)[c] = Closed(h)[c]
      <3>1. CASE Touches(b, c)
        BY <2>2, <2>3, <3>1, DisconnectRight, SMT
      <3>2. CASE ~Touches(b, c)
        <4>1. DisconnectBlock(Closed(h + 1), b)[c] = Closed(h + 1)[c]
          BY <2>2, <2>3, <3>2, DisconnectRight, SMT
        <4>2. UTXO(b)[c] = UTXO(Parent[b])[c]
          BY <2>2, <2>4, <3>2, UntouchedSince, SMT
        <4>3. (\E x \in Ancestors[t] : Height[x] > h /\ Touches(x, c))
              <=> (\E x \in Ancestors[t] : Height[x] > h + 1 /\ Touches(x, c))
          BY <2>2, <3>2
        <4>4. AncestorAt(t, h + 1) = b
          BY DEF b
        <4> QED  BY <2>2, <4>1, <4>2, <4>3, <4>4
      <3> QED  BY <3>1, <3>2
    <2>6. DisconnectBlock(Closed(h + 1), b) = [c \in Coins |-> DisconnectBlock(Closed(h + 1), b)[c]]
      BY DEF DisconnectBlock
    <2> HIDE DEF Closed
    <2>7. Closed(h) = [c \in Coins |-> Closed(h)[c]]
      BY DEF Closed
    <2>8. DisconnectBlock(Closed(h + 1), b) = Closed(h)
      BY <2>5, <2>6, <2>7
    <2> QED  BY <2>8 DEF b
  <1> HIDE DEF Closed
  <1>5. IsWalkDown([h \in Height[f] .. Height[t] |-> Closed(h)], v, t, Height[f])
    <2> DEFINE G == [h \in Height[f] .. Height[t] |-> Closed(h)]
    <2>1. ASSUME NEW h \in Height[f] .. Height[t]
          PROVE  G[h] = IF h = Height[t] THEN v ELSE DisconnectBlock(G[h+1], AncestorAt(t, h+1))
      <3>1. CASE h = Height[t]
        BY <1>3, <3>1
      <3>2. CASE h # Height[t]
        <4>1. h \in Height[f] .. (Height[t] - 1) /\ h + 1 \in Height[f] .. Height[t]
          BY <1>1, <3>2, SMT
        <4>2. G[h + 1] = Closed(h + 1) /\ G[h] = Closed(h)
          BY <4>1
        <4> QED  BY <1>4, <3>2, <4>1, <4>2
      <3> QED  BY <3>1, <3>2
    <2> QED  BY <2>1 DEF IsWalkDown
  <1>6. IsWalkDown(F, v, t, Height[f])
    BY <1>5
  <1> HIDE DEF F
  <1>7. ASSUME NEW h \in Height[f] .. Height[t]
        PROVE  F[h] = IF h = Height[t] THEN v ELSE DisconnectBlock(F[h+1], AncestorAt(t, h+1))
    BY <1>6 DEF IsWalkDown
  <1>8. F[Height[f]] = Closed(Height[f])
    <2> DEFINE S == {x \in Ancestors[t] : Height[f] <= Height[x] /\ F[Height[x]] # Closed(Height[x])}
    <2>1. SUFFICES ASSUME S # {} PROVE FALSE
      BY <1>1, SMT
    <2>2. PICK x \in S : \A y \in S : Height[y] <= Height[x]
      <3>1. S \subseteq Ancestors[t]
        OBVIOUS
      <3> HIDE DEF S
      <3> QED  BY <2>1, <3>1, LowestHighest
    <2>3. Height[x] \in Height[f] .. Height[t] /\ Height[x] # Height[t]
      BY <1>1, <1>3, <1>7, BranchHeights, SMT
    <2>4. Height[x] \in Height[f] .. (Height[t] - 1) /\ Height[x] + 1 \in 0 .. Height[t]
      BY <1>1, <2>3, SMT
    <2>5. PICK y \in Ancestors[t] : Height[y] = Height[x] + 1
      BY <2>4, BlockTree, SMT
    <2>6. y \notin S
      BY <1>1, <2>2, <2>3, <2>5, SMT
    <2>7. F[Height[x] + 1] = Closed(Height[x] + 1)
      BY <1>1, <2>4, <2>5, <2>6, SMT
    <2> QED  BY <1>4, <1>7, <2>3, <2>4, <2>7
  <1>9. AncestorAt(t, Height[f]) = f
    BY HeightTells
  <1>10. Closed(Height[f]) = [c \in Coins |-> IF \E x \in Ancestors[t] \ Ancestors[f] : Touches(x, c)
                                             THEN UTXO(f)[c] ELSE v[c]]
    BY <1>2, <1>9 DEF Closed
  <1> QED  BY <1>8, <1>10 DEF F, WalkedDown

\* Rolling forward from f to t sets what the blocks on the way touch to what it is at t.
LEMMA WalkUp ==
    ASSUME NEW t \in Blocks, NEW f \in Ancestors[t], NEW v, v = [c \in Coins |-> v[c]]
    PROVE  WalkedUp(v, t, Height[f]) =
              [c \in Coins |-> IF \E x \in Ancestors[t] \ Ancestors[f] : Touches(x, c)
                               THEN UTXO(t)[c] ELSE v[c]]
  <1> DEFINE Above == Ancestors[t] \ Ancestors[f]
             Closed(h) == [c \in Coins |-> IF \E x \in Above : Height[x] <= h /\ Touches(x, c)
                                           THEN UTXO(AncestorAt(t, h))[c] ELSE v[c]]
             F == CHOOSE G : IsWalkUp(G, v, t, Height[f])
  <1>1. f \in Blocks /\ Height[f] \in Nat /\ Height[t] \in Nat /\ Height[f] <= Height[t]
    BY BranchHeights
  <1>2. ASSUME NEW x \in Above PROVE Height[x] <= Height[t] /\ ~(Height[x] <= Height[f])
    BY <1>1, BranchHeights, SMT
  <1>3. Closed(Height[f]) = v
    BY <1>2
  <1>4. ASSUME NEW h \in Height[f] .. (Height[t] - 1)
        PROVE  RollforwardBlock(Closed(h), AncestorAt(t, h + 1)) = Closed(h + 1)
    <2> DEFINE b == AncestorAt(t, h + 1)
    <2>1. h \in 0 .. (Height[t] - 1)
      BY <1>1, SMT
    <2>2. /\ b \in Blocks /\ b # Genesis /\ b \in Ancestors[t] /\ Height[b] = h + 1
          /\ AncestorAt(t, h) = Parent[b]
          /\ \A x \in Ancestors[t] : Height[x] <= h + 1 <=> x = b \/ Height[x] <= h
      BY <2>1, Neighbours
    <2>3. b \in Above
      BY <1>1, <2>1, <2>2, BranchHeights, SMT
    <2>4. Parent[b] \in Ancestors[b] /\ Ancestors[b] = {b} \cup Ancestors[Parent[b]]
      BY <2>2, Ancestry, SMT
    <2> HIDE DEF b
    <2>5. ASSUME NEW c \in Coins PROVE RollforwardBlock(Closed(h), b)[c] = Closed(h + 1)[c]
      <3>1. AncestorAt(t, h + 1) = b
        BY DEF b
      <3>2. CASE Touches(b, c)
        <4>1. RollforwardBlock(Closed(h), b)[c] = RollforwardBlock(UTXO(Parent[b]), b)[c]
          BY <3>2 DEF RollforwardBlock, Touches
        <4>2. RollforwardBlock(UTXO(Parent[b]), b)[c] = UTXO(b)[c]
          BY <2>2, RollforwardRight
        <4>3. \E x \in Above : Height[x] <= h + 1 /\ Touches(x, c)
          BY <2>2, <2>3, <3>2
        <4> QED  BY <3>1, <4>1, <4>2, <4>3
      <3>3. CASE ~Touches(b, c)
        <4>1. RollforwardBlock(Closed(h), b)[c] = Closed(h)[c]
          BY <3>3 DEF RollforwardBlock, Touches
        <4>2. UTXO(b)[c] = UTXO(Parent[b])[c]
          BY <2>2, <2>4, <3>3, UntouchedSince, SMT
        <4>3. (\E x \in Above : Height[x] <= h /\ Touches(x, c))
              <=> (\E x \in Above : Height[x] <= h + 1 /\ Touches(x, c))
          BY <2>2, <3>3
        <4> QED  BY <2>2, <3>1, <4>1, <4>2, <4>3
      <3> QED  BY <3>2, <3>3
    <2>6. RollforwardBlock(Closed(h), b) = [c \in Coins |-> RollforwardBlock(Closed(h), b)[c]]
      BY DEF RollforwardBlock
    <2> HIDE DEF Closed
    <2>7. Closed(h + 1) = [c \in Coins |-> Closed(h + 1)[c]]
      BY DEF Closed
    <2>8. RollforwardBlock(Closed(h), b) = Closed(h + 1)
      BY <2>5, <2>6, <2>7
    <2> QED  BY <2>8 DEF b
  <1> HIDE DEF Closed
  <1>5. ASSUME NEW h \in Height[f] .. Height[t], h # Height[f]
        PROVE  /\ h - 1 \in Height[f] .. Height[t]
               /\ RollforwardBlock(Closed(h - 1), AncestorAt(t, h)) = Closed(h)
    <2>1. h - 1 \in Height[f] .. (Height[t] - 1) /\ (h - 1) + 1 = h /\ h - 1 \in Height[f] .. Height[t]
      BY <1>1, <1>5, SMT
    <2>2. RollforwardBlock(Closed(h - 1), AncestorAt(t, (h - 1) + 1)) = Closed((h - 1) + 1)
      BY <1>4, <2>1
    <2> QED  BY <2>1, <2>2
  <1>6. IsWalkUp([h \in Height[f] .. Height[t] |-> Closed(h)], v, t, Height[f])
    <2> DEFINE G == [h \in Height[f] .. Height[t] |-> Closed(h)]
    <2>1. ASSUME NEW h \in Height[f] .. Height[t]
          PROVE  G[h] = IF h = Height[f] THEN v ELSE RollforwardBlock(G[h-1], AncestorAt(t, h))
      <3>1. CASE h = Height[f]
        BY <1>3, <3>1
      <3>2. CASE h # Height[f]
        <4>1. G[h - 1] = Closed(h - 1) /\ G[h] = Closed(h)
          BY <1>5, <3>2
        <4> QED  BY <1>5, <3>2, <4>1
      <3> QED  BY <3>1, <3>2
    <2> QED  BY <2>1 DEF IsWalkUp
  <1>7. IsWalkUp(F, v, t, Height[f])
    BY <1>6
  <1> HIDE DEF F
  <1>8. ASSUME NEW h \in Height[f] .. Height[t]
        PROVE  F[h] = IF h = Height[f] THEN v ELSE RollforwardBlock(F[h-1], AncestorAt(t, h))
    BY <1>7 DEF IsWalkUp
  <1>9. F[Height[t]] = Closed(Height[t])
    <2> DEFINE S == {x \in Ancestors[t] : Height[f] <= Height[x] /\ F[Height[x]] # Closed(Height[x])}
    <2>1. SUFFICES ASSUME S # {} PROVE FALSE
      BY <1>1, Ancestry
    <2>2. PICK x \in S : \A y \in S : Height[x] <= Height[y]
      <3>1. S \subseteq Ancestors[t]
        OBVIOUS
      <3> HIDE DEF S
      <3> QED  BY <2>1, <3>1, LowestHighest
    <2>3. Height[x] \in Height[f] .. Height[t] /\ Height[x] # Height[f]
      BY <1>1, <1>3, <1>8, BranchHeights, SMT
    <2>4. Height[x] - 1 \in Height[f] .. Height[t] /\ Height[x] - 1 \in 0 .. Height[t]
      BY <1>1, <2>3, SMT
    <2>5. PICK y \in Ancestors[t] : Height[y] = Height[x] - 1
      BY <2>4, BlockTree, SMT
    <2>6. y \notin S
      BY <1>1, <2>2, <2>3, <2>5, SMT
    <2>7. F[Height[x] - 1] = Closed(Height[x] - 1)
      BY <1>1, <2>4, <2>5, <2>6, SMT
    <2> QED  BY <1>5, <1>8, <2>2, <2>3, <2>7
  <1>10. AncestorAt(t, Height[t]) = t
    BY HeightTells, Ancestry
  <1>11. Closed(Height[t]) = [c \in Coins |-> IF \E x \in Above : Touches(x, c) THEN UTXO(t)[c] ELSE v[c]]
    BY <1>2, <1>10 DEF Closed
  <1> QED  BY <1>9, <1>11 DEF F, WalkedUp

\* Between the two heads every coin is as the old or as the new branch has it.
Mixed(d) == \A c \in Coins : d.coins[c] \in {UTXO(d.heads.old)[c], UTXO(d.heads.new)[c]}

\* ReplayBlocks arrives at the coins of the new head, whichever of the coins had been
\* written when the flush was cut off, and changes only coins of the two branches.
LEMMA ReplayRight ==
    ASSUME NEW d, d.coins = [c \in Coins |-> d.coins[c]], d.heads.new \in Blocks,
           d.heads.old \in Blocks \cup {Null}, Mixed(d),
           \A b \in OldBranch(d.heads) : UndoRight(b)
    PROVE  /\ Replayed(d) = UTXO(d.heads.new)
           /\ \A c \in Coins : \/ \E b \in OldBranch(d.heads) \cup NewBranch(d.heads) : Touches(b, c)
                               \/ Replayed(d)[c] = d.coins[c]
  <1> DEFINE new == d.heads.new
             old == d.heads.old
             back == RolledBack(d.coins, d.heads)
  <1>0. new \in Blocks /\ new # Null
    BY Root
  <1> DEFINE f == IF old = Null THEN Genesis ELSE LastCommonAncestor(old, new)
  <1>1. /\ f \in Ancestors[new] /\ NewBranch(d.heads) = Ancestors[new] \ Ancestors[f]
        /\ back = [c \in Coins |-> IF \E x \in OldBranch(d.heads) : Touches(x, c)
                                   THEN UTXO(f)[c] ELSE d.coins[c]]
        /\ \A c \in Coins : \/ \E x \in OldBranch(d.heads) : Touches(x, c)
                            \/ UTXO(old)[c] = UTXO(f)[c]
    <2>1. CASE old = Null
      <3>1. /\ OldBranch(d.heads) = {} /\ back = d.coins /\ f = Genesis
            /\ NewBranch(d.heads) = Ancestors[new] \ Ancestors[Genesis]
        BY <2>1, BlockTree DEF OldBranch, NewBranch, RolledBack
      <3>2. UTXO(old) = UTXO(Genesis)
        BY <2>1, NoCoinsAtGenesis
      <3>3. Genesis \in Ancestors[new]
        BY <1>0, GenesisFirst
      <3> HIDE DEF f
      <3> QED  BY <3>1, <3>2, <3>3
    <2>2. CASE old # Null
      <3>1. old \in Blocks /\ f = LastCommonAncestor(old, new)
        BY <2>2
      <3>2. /\ f \in Blocks /\ f \in Ancestors[old] /\ f \in Ancestors[new]
            /\ Ancestors[f] = Ancestors[old] \cap Ancestors[new]
        BY <1>0, <3>1, Fork, SMT
      <3>3. /\ OldBranch(d.heads) = Ancestors[old] \ Ancestors[f]
            /\ NewBranch(d.heads) = Ancestors[new] \ Ancestors[f]
        BY <2>2, <3>2 DEF OldBranch, NewBranch
      <3>4. back = WalkedDown(d.coins, old, Height[f])
        BY <2>2 DEF RolledBack, WalkedDown, IsWalkDown
      <3> HIDE DEF f, back, old
      <3>5. back = [c \in Coins |-> IF \E x \in OldBranch(d.heads) : Touches(x, c)
                                    THEN UTXO(f)[c] ELSE d.coins[c]]
        <4>1. \A b \in Ancestors[old] \ Ancestors[f] : UndoRight(b)
          BY <3>3
        <4>2. WalkedDown(d.coins, old, Height[f]) =
                [c \in Coins |-> IF \E x \in Ancestors[old] \ Ancestors[f] : Touches(x, c)
                                 THEN UTXO(f)[c] ELSE d.coins[c]]
          BY <3>1, <3>2, <4>1, WalkDown, SMT
        <4> QED  BY <3>3, <3>4, <4>2
      <3>6. \A c \in Coins : \/ \E x \in OldBranch(d.heads) : Touches(x, c)
                             \/ UTXO(old)[c] = UTXO(f)[c]
        BY <3>1, <3>2, <3>3, UntouchedSince, SMT
      <3> QED  BY <3>2, <3>3, <3>5, <3>6
    <2> QED  BY <2>1, <2>2
  <1>2. Height[f] = IF old = Null THEN 0 ELSE Height[LastCommonAncestor(old, new)]
    BY Root
  <1>3. Replayed(d) = WalkedUp(back, new, Height[f])
    <2>1. Replayed(d) = RolledForward(back, d.heads)
      BY DEF Replayed
    <2> DEFINE n == IF old = Null THEN 0 ELSE Height[LastCommonAncestor(old, new)]
    <2> HIDE DEF back
    <2>2. RolledForward(back, d.heads) = WalkedUp(back, new, n)
      BY DEF RolledForward, WalkedUp, IsWalkUp
    <2>3. n = Height[f]
      BY <1>2
    <2> HIDE DEF n, f
    <2> QED  BY <2>1, <2>2, <2>3
  <1> HIDE DEF f
  <1>4. back = [c \in Coins |-> back[c]]
    BY <1>1
  <1>5. Replayed(d) = [c \in Coins |-> IF \E x \in NewBranch(d.heads) : Touches(x, c)
                                       THEN UTXO(new)[c] ELSE back[c]]
    <2> HIDE DEF new, back
    <2>1. WalkedUp(back, new, Height[f]) =
            [c \in Coins |-> IF \E x \in Ancestors[new] \ Ancestors[f] : Touches(x, c)
                             THEN UTXO(new)[c] ELSE back[c]]
      <3>1. f \in Ancestors[new] /\ new \in Blocks
        BY <1>0, <1>1
      <3> QED  BY <1>4, <3>1, WalkUp, SMT
    <2> QED  BY <1>1, <1>3, <2>1
  <1>6. ASSUME NEW c \in Coins PROVE Replayed(d)[c] = UTXO(new)[c]
    <2>1. CASE \E x \in NewBranch(d.heads) : Touches(x, c)
      BY <1>5, <2>1
    <2>2. CASE ~\E x \in NewBranch(d.heads) : Touches(x, c)
      <3>1. UTXO(new)[c] = UTXO(f)[c]
        BY <1>0, <1>1, <2>2, UntouchedSince
      <3>2. Replayed(d)[c] = back[c]
        BY <1>5, <2>2
      <3>3. back[c] = UTXO(f)[c]
        <4>1. CASE \E x \in OldBranch(d.heads) : Touches(x, c)
          BY <1>1, <4>1
        <4>2. CASE ~\E x \in OldBranch(d.heads) : Touches(x, c)
          <5>1. back[c] = d.coins[c] /\ UTXO(old)[c] = UTXO(f)[c]
            BY <1>1, <4>2
          <5>2. d.coins[c] \in {UTXO(old)[c], UTXO(new)[c]}
            BY DEF Mixed
          <5> QED  BY <3>1, <5>1, <5>2
        <4> QED  BY <4>1, <4>2
      <3> QED  BY <3>1, <3>2, <3>3
    <2> QED  BY <2>1, <2>2
  <1>7. UTXO(new) = [c \in Coins |-> UTXO(new)[c]]
    BY SMT DEF UTXO
  <1>8. Replayed(d) = UTXO(new)
    <2>1. Replayed(d) = [c \in Coins |-> Replayed(d)[c]]
      BY <1>5
    <2> HIDE DEF new
    <2> QED  BY <1>6, <1>7, <2>1
  <1>9. ASSUME NEW c \in Coins, ~\E b \in OldBranch(d.heads) \cup NewBranch(d.heads) : Touches(b, c)
        PROVE  Replayed(d)[c] = d.coins[c]
    BY <1>1, <1>5, <1>9, SMT
  <1> QED  BY <1>8, <1>9

-----------------------------------------------------------------------------
(* The invariants. *)

\* What does not depend on the faults: the types, the fault counters included.
Types ==
    /\ FlushTypes
    /\ faults \in [crash : Nat, power : Nat, write : Nat]

\* The phases in which the view holds the chain state.
Working == {"running", "flush", "index", "coins", "assets"}

\* A coins database is consistent with its best block, or each of its coins is that of
\* one of the two heads between which it is in transition.
GoodDatabase(d) ==
    /\ d.best = Null \/ d.heads = NoHeads
    /\ d.coins = [c \in Coins |-> d.coins[c]]
    /\ d.heads.new = Null => d.coins = UTXO(d.best)
    /\ d.heads.new # Null => Mixed(d)

\* As long as no write failed: the view is the coins of the tip, it differs from the
\* database in dirty coins only, the database can be trusted or replayed, and the rev
\* files hold the undo data ConnectBlock found.
CoinInv ==
    /\ coins = UTXO(tip)
    /\ phase \in Working => \A c \in Coins \ dirty : coins[c] = db.coins[c]
    /\ \A d \in {db, dbSynced} : GoodDatabase(d)
    /\ \A b \in DOMAIN rev : UndoRight(b)

\* A stored or loaded index refers to data that is in the files; a power loss may have
\* taken undo data.
Backed(idx) ==
    /\ idx \in [Blocks -> [file : 0..MaxFile, undo : BOOLEAN]]
    /\ Known(idx) \subseteq blk
    /\ \A b \in Blocks : idx[b].file = 0 => ~idx[b].undo
    /\ faults.power = 0 => \A b \in Blocks : idx[b].undo => b \in DOMAIN rev

\* The stored index begins with Genesis and has a last file, and what it refers to was
\* synced first.
StoredInv ==
    /\ IndexedDataSynced
    /\ blkSynced \subseteq blk /\ revSynced \subseteq DOMAIN rev \cap Blocks
    /\ Known(blockTreeDB) # {} =>
          /\ Genesis \in Known(blockTreeDB)
          /\ \E c \in Known(blockTreeDB) :
                \A b \in Blocks : blockTreeDB[b].file <= blockTreeDB[c].file

\* Where a write error has made the node forget which entries are dirty; it stops then.
Stopping == job = "stop" /\ phase \in {"flush", "index", "coins", "assets"}

\* Once loaded, the index has a last file, to which new blocks go; the blocks of the
\* others are synced, and so is their undo data if it is not in an earlier rev file.
\* Between FlushBlockFile and WriteBatchSync that holds for the last file too.
LoadedInv ==
    /\ nLastBlockFile \in 1..MaxFile /\ Genesis \in Known(mapBlockIndex)
    /\ \E c \in Known(mapBlockIndex) : mapBlockIndex[c].file = nLastBlockFile
    /\ \A b \in Blocks : mapBlockIndex[b].file <= nLastBlockFile
    /\ \A b \in Known(mapBlockIndex) :
          b \in blkSynced \/ (phase # "index" /\ mapBlockIndex[b].file = nLastBlockFile)
    /\ \A b \in Blocks : mapBlockIndex[b].undo =>
          \/ mapBlockIndex[b].file < nLastBlockFile
          \/ b \in (IF phase = "index" THEN revSynced ELSE DOMAIN rev)
    /\ \A b \in Known(blockTreeDB) : mapBlockIndex[b].file = blockTreeDB[b].file
    /\ \/ \A b \in Blocks \ setDirtyBlockIndex : mapBlockIndex[b] = blockTreeDB[b]
       \/ setDirtyBlockIndex = {} /\ Stopping

\* The index refers to what is in the files, in memory and on disk.
FileInv ==
    /\ Backed(blockTreeDB) /\ Backed(mapBlockIndex)
    /\ StoredInv
    /\ phase # "down" => LoadedInv

\* Genesis is in the index that covers a block, as HasUndo says of the blocks above it.
GenesisInv ==
    /\ phase # "down" => Genesis \in Known(mapBlockIndex)
    /\ phase = "coins" => Genesis \in Known(blockTreeDB)
    /\ \A d \in {db, dbSynced} : Named(d) # {Null} => Genesis \in Known(blockTreeDB)

\* As long as there was no crash and no power loss: the asset cache is that of the tip,
\* and outside a flush the asset database is that of the coins database.
AssetInv ==
    /\ phase # "replay" /\ job # "replay"
    /\ phase \in Working => assets = AssetsOf(tip)
    /\ phase \notin {"assets", "failed"} /\ db.heads.new = Null => assetsdb = AssetsOf(db.best)
    /\ phase \in {"down", "load"} => db.heads.new = Null
    /\ phase = "load" => assets = assetsdb
    /\ phase = "assets" => db.best = tip /\ db.heads.new = Null

\* No step leaves the types.
LEMMA StepKeepsTypes ==
    ASSUME Types, [Next]_vars
    PROVE  Types'
  <1> USE DEF Types
  <1>1. ASSUME UNCHANGED <<blockTreeDB, db, dbSynced, faults>>, DOMAIN mapBlockIndex' = Blocks,
               tip' \in Blocks \cup {Null}
        PROVE  Types'
    BY <1>1 DEF FlushTypes, Named
  <1>2. ASSUME NEW kb, NEW kr, Stopped(kb, kr), db' \in {db, dbSynced}, dbSynced' = dbSynced,
               faults' \in [crash : Nat, power : Nat, write : Nat]
        PROVE  Types'
    <2>1. DOMAIN mapBlockIndex' = Blocks /\ DOMAIN blockTreeDB' = Blocks /\ tip' = Null
      BY <1>2 DEF Stopped, FlushTypes
    <2>2. \A d \in {db', dbSynced'} : Named(d) \subseteq Blocks \cup {Null}
      BY <1>2 DEF FlushTypes
    <2> QED  BY <1>2, <2>1, <2>2 DEF FlushTypes
  <1>3. ASSUME NEW b \in Blocks, AcceptBlock(b) \/ ConnectTip(b) \/ RejectBlock(b)
        PROVE  Types'
    <2>1. CASE AcceptBlock(b)
      BY <1>1, <2>1 DEF AcceptBlock, coinsDisk, view, FlushTypes
    <2>2. CASE ConnectTip(b)
      <3>1. DOMAIN mapBlockIndex' = Blocks
        BY <2>2 DEF ConnectTip, index, FlushTypes
      <3> QED  BY <1>1, <2>2, <3>1 DEF ConnectTip, coinsDisk
    <2>3. CASE RejectBlock(b)
      BY <1>1, <2>3 DEF RejectBlock, coinsDisk, index, view, FlushTypes
    <2> QED  BY <1>3, <2>1, <2>2, <2>3
  <1>4. CASE DisconnectTip
    BY <1>1, <1>4, Root DEF DisconnectTip, coinsDisk, index, FlushTypes
  <1>5. CASE FlushBlockFile
    BY <1>1, <1>5 DEF FlushBlockFile, coinsDisk, index, view, FlushTypes
  <1>6. CASE WriteBatchSync
    <2>1. /\ UNCHANGED <<mapBlockIndex, tip, db, dbSynced, faults>>
          /\ DOMAIN blockTreeDB' = Blocks
      BY <1>6 DEF WriteBatchSync, coinsDisk, view
    <2> QED  BY <2>1 DEF FlushTypes, Named
  <1>7. CASE FlushDone
    <2>1. CASE Stopped(blk, Blocks)
      BY <1>2, <1>7, <2>1 DEF FlushDone, coinsDisk
    <2>2. CASE UNCHANGED <<blockTreeDB, index, view>>
      BY <1>1, <1>7, <2>2 DEF FlushDone, coinsDisk, index, view, FlushTypes
    <2> QED  BY <1>7, <2>1, <2>2 DEF FlushDone
  <1>8. ASSUME NEW part \in SUBSET dirty, NEW last \in BOOLEAN, BatchWrite(part, last)
        PROVE  Types'
    <2>1. UNCHANGED <<blockTreeDB, mapBlockIndex, tip, dbSynced, faults>>
      BY <1>8 DEF BatchWrite, index
    <2>2. Named(db') \subseteq {tip, Null} \cup Named(db)
      <3>1. db'.best \in {tip, Null}
        BY <1>8 DEF BatchWrite
      <3>2. db'.heads \in {NoHeads, [new |-> tip, old |-> OldTip]}
        BY <1>8 DEF BatchWrite
      <3> QED  BY <3>1, <3>2, SMT DEF Named, NoHeads, OldTip
    <2> QED  BY <2>1, <2>2, SMT DEF FlushTypes, Named
  <1>9. ASSUME NEW a \in Assets, DumpAsset(a)
        PROVE  Types'
    BY <1>1, <1>9 DEF DumpAsset, coinsDisk, index, view, FlushTypes
  <1>10. CASE LoadBlockIndex
    <2>1. DOMAIN mapBlockIndex' = Blocks
      BY <1>10 DEF LoadBlockIndex, FlushTypes
    <2> QED  BY <1>1, <1>10, <2>1 DEF LoadBlockIndex, coinsDisk, view, FlushTypes
  <1>11. CASE ReplayBlocks \/ LoadChainTip
    <2>1. tip' \in Named(db) /\ UNCHANGED <<blockTreeDB, db, dbSynced, faults, mapBlockIndex>>
      BY <1>11 DEF ReplayBlocks, LoadChainTip, Named, coinsDisk, index
    <2> QED  BY <1>1, <2>1 DEF FlushTypes
  <1>12. CASE StartupFails
    BY <1>1, <1>12 DEF StartupFails, coinsDisk, index, view, FlushTypes
  <1>13. ASSUME WriteError, UNCHANGED <<blockTreeDB, mapBlockIndex, tip, db, dbSynced>>
         PROVE  Types'
    <2>1. faults' = [faults EXCEPT !.write = @ + 1]
      BY <1>13 DEF WriteError
    <2>2. /\ faults' \in [crash : Nat, power : Nat, write : Nat]
          /\ faults' = [crash |-> faults'.crash, power |-> faults'.power, write |-> faults'.write]
      BY <2>1, SMT
    <2> QED  BY <1>13, <2>2 DEF FlushTypes, Named
  <1>14. CASE WriteBatchSyncThrows
    BY <1>13, <1>14 DEF WriteBatchSyncThrows, coinsDisk, view
  <1>15. ASSUME NEW part \in SUBSET dirty, BatchWriteThrows(part)
         PROVE  Types'
    BY <1>13, <1>15 DEF BatchWriteThrows, coinsDisk, index
  <1>16. CASE BatchWriteAsserts
    BY <1>2, <1>16 DEF BatchWriteAsserts, coinsDisk
  <1>17. CASE Crash
    <2>1. faults' = [faults EXCEPT !.crash = @ + 1]
      BY <1>17 DEF Crash
    <2>2. faults' \in [crash : Nat, power : Nat, write : Nat]
      BY <2>1, SMT
    <2> QED  BY <1>2, <1>17, <2>2 DEF Crash, coinsDisk
  <1>18. CASE PowerLoss
    <2>1. faults' = [faults EXCEPT !.power = @ + 1] /\ db' = dbSynced /\ dbSynced' = dbSynced
      BY <1>18 DEF PowerLoss
    <2>2. faults' \in [crash : Nat, power : Nat, write : Nat]
      BY <2>1, SMT
    <2>3. PICK kb, kr : Stopped(kb, kr)
      BY <1>18 DEF PowerLoss
    <2> QED  BY <1>2, <2>1, <2>2, <2>3
  <1>19. CASE SyncDatabases
    <2>1. /\ UNCHANGED <<blockTreeDB, db, mapBlockIndex, tip, faults>>
          /\ dbSynced' \in {db, dbSynced}
      BY <1>19 DEF SyncDatabases, index, view
    <2> QED  BY <2>1, SMT DEF FlushTypes, Named
  <1>20. CASE UNCHANGED vars
    BY <1>1, <1>20 DEF vars, coinsDisk, index, view, FlushTypes
  <1>21. CASE Flush \/ Startup
    BY <1>21, <1>5, <1>6, <1>7, <1>8, <1>9, <1>10, <1>11, <1>12 DEF Flush, Startup
  <1> QED
    BY <1>3, <1>4, <1>14, <1>15, <1>16, <1>17, <1>18, <1>19, <1>20, <1>21 DEF Next

\* The process stops: memory is empty, and the files lose what they lose.
LEMMA StopKeepsCoins ==
    ASSUME CoinInv, NEW kb, NEW kr, Stopped(kb, kr), db' \in {db, dbSynced}, dbSynced' = dbSynced
    PROVE  CoinInv'
  <1>1. tip' = Null /\ coins' = NoCoins /\ phase' = "down"
    BY DEF Stopped
  <1>2. coins' = UTXO(tip')
    BY <1>1, NoCoinsAtGenesis
  <1>3. \A d \in {db', dbSynced'} : GoodDatabase(d)
    BY DEF CoinInv
  <1>4. \A b \in DOMAIN rev' : b \in DOMAIN rev /\ rev'[b] = rev[b]
    BY DEF Stopped
  <1>5. \A b \in DOMAIN rev' : UndoRight(b)'
    BY <1>4 DEF CoinInv, UndoRight
  <1> QED  BY <1>1, <1>2, <1>3, <1>5 DEF CoinInv, Working, GoodDatabase, Mixed

\* Steps that change neither the view nor a rev file, and stay in the same kind of phase.
LEMMA QuietKeepsCoins ==
    ASSUME CoinInv, UNCHANGED <<tip, coins, dirty, rev, db>>, dbSynced' \in {db, dbSynced},
           phase' \in Working => phase \in Working
    PROVE  CoinInv'
  <1>1. \A d \in {db', dbSynced'} : GoodDatabase(d)
    BY DEF CoinInv
  <1>2. \A b \in DOMAIN rev' : UndoRight(b)'
    BY DEF CoinInv, UndoRight
  <1> QED  BY <1>1, <1>2 DEF CoinInv, GoodDatabase, Mixed

\* ConnectTip: the coins follow, and the undo data written is what ConnectBlock found.
LEMMA ConnectKeepsCoins ==
    ASSUME Types, CoinInv, NEW b \in Blocks, ConnectTip(b)
    PROVE  CoinInv'
  <1>1. /\ tip' = b /\ coins' = RollforwardBlock(coins, b) /\ UNCHANGED <<db, dbSynced, phase>>
        /\ phase \in Working /\ dirty' = dirty \cup Spends[b] \cup Creates[b]
        /\ IF tip = Null THEN b = Genesis ELSE b # Genesis /\ Parent[b] = tip
    BY DEF ConnectTip, NextBlocks, coinsDisk, Working
  <1>2. coins = UTXO(tip)
    BY DEF CoinInv
  <1>3. coins' = UTXO(tip')
    <2>1. CASE tip = Null
      <3>1. RollforwardBlock(NoCoins, Genesis) = NoCoins
        BY Root DEF RollforwardBlock, NoCoins
      <3> QED  BY <1>1, <1>2, <2>1, <3>1, NoCoinsAtGenesis
    <2>2. CASE tip # Null
      BY <1>1, <1>2, <2>2, RollforwardRight
    <2> QED  BY <2>1, <2>2
  <1>4. \A c \in Coins \ dirty' : coins'[c] = db'.coins[c]
    BY <1>1 DEF CoinInv, RollforwardBlock
  <1>5. \A a \in DOMAIN rev' : UndoRight(a)'
    <2>1. CASE UNCHANGED rev
      BY <2>1 DEF CoinInv, UndoRight
    <2>2. CASE b # Genesis /\ rev' = UndoWriteToDisk(b)
      <3>1. rev'[b] = UndoOf(coins, b) /\ DOMAIN rev' = DOMAIN rev \cup {b}
        BY <2>2 DEF UndoWriteToDisk
      <3>2. \A a \in DOMAIN rev' : a # b => rev'[a] = rev[a] /\ a \in DOMAIN rev
        BY <2>2 DEF UndoWriteToDisk
      <3>3. tip = Parent[b]
        BY <1>1, <2>2
      <3> QED  BY <1>2, <3>1, <3>2, <3>3 DEF CoinInv, UndoRight
    <2>3. UNCHANGED rev \/ (b # Genesis /\ rev' = UndoWriteToDisk(b))
      BY DEF ConnectTip
    <2> QED  BY <2>1, <2>2, <2>3
  <1> QED  BY <1>1, <1>3, <1>4, <1>5 DEF CoinInv, GoodDatabase, Mixed

\* DisconnectTip: the coins go back to those of the parent.
LEMMA DisconnectKeepsCoins ==
    ASSUME Types, CoinInv, DisconnectTip
    PROVE  CoinInv'
  <1>1. /\ tip \in Blocks /\ tip # Genesis /\ tip' = Parent[tip] /\ coins' = DisconnectBlock(coins, tip)
        /\ UNCHANGED <<db, dbSynced, phase, rev>> /\ dirty' = dirty \cup Spends[tip] \cup Creates[tip]
        /\ phase \in Working /\ tip \in DOMAIN rev
    BY DEF DisconnectTip, Undoable, coinsDisk, files, Working, Types, FlushTypes
  <1>2. coins' = UTXO(tip')
    BY <1>1, DisconnectUndoes DEF CoinInv
  <1>3. \A c \in Coins \ dirty' : coins'[c] = db'.coins[c]
    BY <1>1 DEF CoinInv, DisconnectBlock
  <1>4. \A a \in DOMAIN rev' : UndoRight(a)'
    BY <1>1 DEF CoinInv, UndoRight
  <1> QED  BY <1>1, <1>2, <1>3, <1>4 DEF CoinInv, GoodDatabase, Mixed

\* BatchWrite: the last batch makes the database the view; an earlier one leaves every coin
\* that of the old tip or of the new one.
LEMMA BatchKeepsCoins ==
    ASSUME Types, TransitionInv, CoinInv, NEW part \in SUBSET dirty, NEW last \in BOOLEAN,
           BatchWrite(part, last)
    PROVE  CoinInv'
  <1>1. /\ tip # Null /\ phase = "coins" /\ UNCHANGED <<tip, coins, rev, dbSynced>>
        /\ dirty' = dirty \ part /\ (last => part = dirty)
        /\ db' = [best  |-> IF last THEN tip ELSE Null,
                  heads |-> IF last THEN NoHeads ELSE [new |-> tip, old |-> OldTip],
                  coins |-> [c \in Coins |-> IF c \in part THEN coins[c] ELSE db.coins[c]]]
    BY DEF BatchWrite, files
  <1>2. \A c \in Coins \ dirty : coins[c] = db.coins[c]
    BY <1>1 DEF CoinInv, Working
  <1>3. coins = UTXO(tip) /\ coins = [c \in Coins |-> coins[c]]
    BY SMT DEF CoinInv, UTXO
  <1>4. \A c \in Coins : db'.coins[c] = IF c \in part THEN coins[c] ELSE db.coins[c]
    BY <1>1
  <1>5. db'.coins = [c \in Coins |-> db'.coins[c]]
    BY <1>1
  <1>6. GoodDatabase(db')
    <2>1. CASE last
      <3>1. db'.best = tip /\ db'.heads = NoHeads /\ NoHeads.new = Null
        BY <1>1, <2>1 DEF NoHeads
      <3>2. db'.coins = coins
        BY <1>1, <1>2, <1>3, <2>1
      <3> QED  BY <1>3, <1>5, <3>1, <3>2 DEF GoodDatabase
    <2>2. CASE ~last
      <3>1. db'.best = Null /\ db'.heads = [new |-> tip, old |-> OldTip]
        BY <1>1, <2>2
      <3>2. db'.heads.new = tip /\ db'.heads.old = OldTip
        BY <3>1, SMT
      <3>3. \A c \in Coins : db.coins[c] \in {UTXO(OldTip)[c], UTXO(tip)[c]}
        <4>1. CASE db.heads.new = Null
          BY <4>1 DEF CoinInv, GoodDatabase, OldTip
        <4>2. CASE db.heads.new # Null
          <5>1. db.best = Null /\ Mixed(db)
            BY <4>2, SMT DEF CoinInv, GoodDatabase, NoHeads
          <5>2. db.heads.new = tip
            BY <1>1, <4>2 DEF TransitionInv
          <5> QED  BY <4>2, <5>1, <5>2 DEF Mixed, OldTip
        <4> QED  BY <4>1, <4>2
      <3>4. Mixed(db')
        BY <1>3, <1>4, <3>2, <3>3 DEF Mixed
      <3> QED  BY <1>1, <1>5, <3>1, <3>2, <3>4 DEF GoodDatabase
    <2> QED  BY <2>1, <2>2
  <1>7. \A c \in Coins \ dirty' : coins'[c] = db'.coins[c]
    BY <1>1, <1>2, <1>4
  <1>8. \A a \in DOMAIN rev' : UndoRight(a)'
    BY <1>1 DEF CoinInv, UndoRight
  <1> QED  BY <1>1, <1>3, <1>6, <1>7, <1>8, SMT DEF CoinInv, GoodDatabase, Mixed

\* The blocks of the old branch are above Genesis.
LEMMA OldBranchBlocks ==
    ASSUME NEW heads, heads.new \in Blocks, heads.old \in Blocks \cup {Null}
    PROVE  /\ OldBranch(heads) \subseteq Blocks \ {Genesis}
           /\ NewBranch(heads) \subseteq Blocks \ {Genesis}
  BY GenesisFirst, Ancestry, Root DEF OldBranch, NewBranch

\* Startup: ReplayBlocks arrives at the coins of the new head, and LoadChainTip finds those
\* of the best block.
LEMMA StartupKeepsCoins ==
    ASSUME Types, TransitionInv, CoinInv, ReplayBlocks \/ LoadChainTip
    PROVE  CoinInv'
  <1>1. UNCHANGED <<db, dbSynced, rev>> /\ GoodDatabase(db)
    BY DEF ReplayBlocks, LoadChainTip, coinsDisk, files, CoinInv
  <1>2. \A a \in DOMAIN rev' : UndoRight(a)'
    BY <1>1 DEF CoinInv, UndoRight
  <1>3. CASE ReplayBlocks
    <2>1. /\ coins' = Replayed(db) /\ tip' = db.heads.new /\ CanReplay(mapBlockIndex, db.heads)
          /\ dirty' = UNION {Spends[b] \cup Creates[b] : b \in OldBranch(db.heads) \cup NewBranch(db.heads)}
      BY <1>3 DEF ReplayBlocks
    <2>2. /\ db.heads.new \in Blocks /\ db.heads.old \in Blocks \cup {Null}
          /\ OldBranch(db.heads) \subseteq DOMAIN rev
      BY <2>1 DEF CanReplay, Known, Undoable, Types, FlushTypes, Named
    <2>3. \A b \in OldBranch(db.heads) : UndoRight(b)
      BY <2>2 DEF CoinInv
    <2>4. Mixed(db) /\ db.coins = [c \in Coins |-> db.coins[c]]
      BY <1>1, <2>2, Root DEF GoodDatabase
    <2>5. /\ Replayed(db) = UTXO(db.heads.new)
          /\ \A c \in Coins : \/ \E b \in OldBranch(db.heads) \cup NewBranch(db.heads) : Touches(b, c)
                              \/ Replayed(db)[c] = db.coins[c]
      BY <2>2, <2>3, <2>4, ReplayRight
    <2>6. \A c \in Coins \ dirty' : coins'[c] = db'.coins[c]
      BY <1>1, <2>1, <2>5 DEF Touches
    <2> QED  BY <1>1, <1>2, <2>1, <2>5, <2>6 DEF CoinInv, GoodDatabase, Mixed
  <1>4. CASE LoadChainTip
    <2>1. phase = "load" /\ tip' = db.best /\ coins' = db.coins
      BY <1>4 DEF LoadChainTip
    <2>2. db.heads.new = Null
      BY <2>1 DEF TransitionInv
    <2>3. coins' = UTXO(tip')
      BY <1>1, <2>1, <2>2 DEF GoodDatabase
    <2> QED  BY <1>1, <1>2, <2>1, <2>3 DEF CoinInv, GoodDatabase, Mixed
  <1> QED  BY <1>3, <1>4

\* Whatever happens, but for a database write that fails.
LEMMA StepKeepsCoins ==
    ASSUME ~WriteError, Types, TransitionInv, CoinInv, [Next]_vars
    PROVE  CoinInv'
  <1>1. ASSUME NEW b \in Blocks, AcceptBlock(b) \/ ConnectTip(b) \/ RejectBlock(b)
        PROVE  CoinInv'
    <2>1. CASE AcceptBlock(b)
      BY <2>1, QuietKeepsCoins DEF AcceptBlock, coinsDisk, view
    <2>2. CASE RejectBlock(b)
      BY <2>2, QuietKeepsCoins DEF RejectBlock, coinsDisk, view, files
    <2> QED  BY <1>1, <2>1, <2>2, ConnectKeepsCoins
  <1>2. CASE FlushBlockFile \/ WriteBatchSync
    BY <1>2, QuietKeepsCoins DEF FlushBlockFile, WriteBatchSync, coinsDisk, view, files, Working
  <1>3. CASE FlushDone
    <2>1. CASE Stopped(blk, Blocks)
      BY <1>3, <2>1, StopKeepsCoins DEF FlushDone, coinsDisk
    <2>2. CASE phase' = "running" /\ UNCHANGED <<files, view>>
      BY <1>3, <2>2, QuietKeepsCoins DEF FlushDone, coinsDisk, view, files, Working
    <2> QED  BY <1>3, <2>1, <2>2 DEF FlushDone
  <1>4. ASSUME NEW a \in Assets, DumpAsset(a)
        PROVE  CoinInv'
    BY <1>4, QuietKeepsCoins DEF DumpAsset, coinsDisk, view, files
  <1>5. CASE LoadBlockIndex \/ StartupFails
    BY <1>5, QuietKeepsCoins DEF LoadBlockIndex, StartupFails, coinsDisk, view, files, Working
  <1>6. CASE WriteBatchSyncThrows \/ \E part \in SUBSET dirty : BatchWriteThrows(part)
    BY <1>6 DEF WriteBatchSyncThrows, BatchWriteThrows
  <1>7. CASE BatchWriteAsserts \/ Crash
    BY <1>7, StopKeepsCoins DEF BatchWriteAsserts, Crash, coinsDisk
  <1>8. CASE PowerLoss
    BY <1>8, StopKeepsCoins DEF PowerLoss
  <1>9. CASE SyncDatabases
    BY <1>9, QuietKeepsCoins DEF SyncDatabases, files, view
  <1>10. CASE UNCHANGED vars
    BY <1>10, QuietKeepsCoins DEF vars, coinsDisk, files, view
  <1>11. CASE Flush \/ Startup
    BY <1>11, <1>2, <1>3, <1>4, <1>5, BatchKeepsCoins, StartupKeepsCoins DEF Flush, Startup
  <1> QED
    BY <1>1, <1>6, <1>7, <1>8, <1>9, <1>10, <1>11, DisconnectKeepsCoins DEF Next

\* A power loss stays counted.
LEMMA PowerLossesCounted ==
    ASSUME Types, [Next]_vars, faults'.power = 0
    PROVE  faults.power = 0
  <1>1. faults \in [crash : Nat, power : Nat, write : Nat]
    BY DEF Types
  <1>2. \/ faults' \in {faults, [faults EXCEPT !.crash = @ + 1], [faults EXCEPT !.write = @ + 1]}
        \/ faults' = [faults EXCEPT !.power = @ + 1]
    BY DEF Next, vars, AcceptBlock, ConnectTip, RejectBlock, DisconnectTip, Flush, FlushBlockFile,
           WriteBatchSync, FlushDone, BatchWrite, DumpAsset, Startup, LoadBlockIndex, ReplayBlocks,
           LoadChainTip, StartupFails, WriteBatchSyncThrows, BatchWriteThrows, BatchWriteAsserts,
           WriteError, Crash, PowerLoss, SyncDatabases
  <1> QED  BY <1>1, <1>2, SMT

\* An entry that is known has a file.
LEMMA KnownHasFile ==
    ASSUME NEW idx, Backed(idx), NEW b \in Blocks
    PROVE  b \in Known(idx) <=> idx[b].file # 0
  <1>1. idx[b] \in [file : 0..MaxFile, undo : BOOLEAN]
    BY DEF Backed
  <1>2. idx[b].file = 0 => idx[b] = NoEntry
    BY <1>1 DEF Backed, NoEntry
  <1> QED  BY <1>1, <1>2, SMT DEF Known, NoEntry

\* Steps that change neither an index nor a file, and do not begin to write the index.
LEMMA QuietKeepsFiles ==
    ASSUME FileInv, UNCHANGED <<blockTreeDB, mapBlockIndex, setDirtyBlockIndex, nLastBlockFile, files>>,
           faults'.power = 0 => faults.power = 0,
           phase' = "index" => phase = "index", phase' # "down" => phase # "down",
           Stopping => Stopping'
    PROVE  FileInv'
  <1>1. UNCHANGED <<blk, rev, blkSynced, revSynced>>
    BY DEF files
  <1>2. Backed(blockTreeDB)' /\ Backed(mapBlockIndex)'
    BY <1>1 DEF FileInv, Backed, Known
  <1>3. StoredInv'
    BY <1>1 DEF FileInv, StoredInv, IndexedDataSynced, InEarlierFile, Known
  <1>4. phase' # "down" => LoadedInv'
    <2> SUFFICES ASSUME phase' # "down" PROVE LoadedInv'
      OBVIOUS
    <2>1. LoadedInv
      BY DEF FileInv
    <2>2. \A b \in Known(mapBlockIndex) :
              b \in blkSynced \/ (phase' # "index" /\ mapBlockIndex[b].file = nLastBlockFile)
      BY <2>1 DEF LoadedInv
    <2>3. \A b \in Blocks : mapBlockIndex[b].undo =>
              \/ mapBlockIndex[b].file < nLastBlockFile
              \/ b \in (IF phase' = "index" THEN revSynced ELSE DOMAIN rev)
      <3>1. revSynced \subseteq DOMAIN rev
        BY DEF FileInv, StoredInv
      <3> QED  BY <2>1, <3>1 DEF LoadedInv
    <2> QED  BY <1>1, <2>1, <2>2, <2>3 DEF LoadedInv, Known
  <1> QED  BY <1>2, <1>3, <1>4 DEF FileInv

\* The process stops, and what was synced survives.
LEMMA StopKeepsFiles ==
    ASSUME FileInv, NEW kb, NEW kr, Stopped(kb, kr), blkSynced \subseteq kb, revSynced \subseteq kr,
           faults'.power = 0 => faults.power = 0 /\ Blocks \subseteq kr
    PROVE  FileInv'
  <1>1. blockTreeDB' = blockTreeDB /\ mapBlockIndex' = blockTreeDB /\ phase' = "down"
    BY DEF Stopped
  <1>2. /\ blk' = kb \cap Known(blockTreeDB)
        /\ DOMAIN rev' = {b \in DOMAIN rev \cap kr : blockTreeDB[b].undo}
        /\ blkSynced' = blkSynced \cap Known(blockTreeDB)
        /\ revSynced' = {b \in revSynced : blockTreeDB[b].undo}
    BY DEF Stopped
  <1>3. IndexedDataSynced /\ revSynced \subseteq DOMAIN rev /\ Backed(blockTreeDB)
    BY DEF FileInv, StoredInv
  <1>4. Backed(blockTreeDB)'
    BY <1>1, <1>2, <1>3 DEF Backed, IndexedDataSynced, Known
  <1>5. Backed(mapBlockIndex)'
    BY <1>1, <1>4 DEF Backed, Known
  <1>6. StoredInv'
    <2>1. IndexedDataSynced'
      BY <1>1, <1>2, <1>3 DEF IndexedDataSynced, InEarlierFile, Known
    <2> QED  BY <1>1, <1>2, <1>3, <2>1 DEF FileInv, StoredInv, Known
  <1> QED  BY <1>1, <1>4, <1>5, <1>6 DEF FileInv

\* Without a power loss the files stay as they are.
LEMMA CleanStopKeepsFiles ==
    ASSUME FileInv, Stopped(blk, Blocks), faults'.power = 0 => faults.power = 0
    PROVE  FileInv'
  BY StopKeepsFiles DEF FileInv, StoredInv

\* A power loss takes only what was not synced.
LEMMA PowerLossKeepsFiles ==
    ASSUME Types, FileInv, PowerLoss
    PROVE  FileInv'
  <1>1. PICK kb, kr : Stopped(kb \cup blkSynced, kr \cup revSynced)
    BY DEF PowerLoss
  <1>2. faults'.power # 0
    BY SMT DEF PowerLoss, Types
  <1> QED  BY <1>1, <1>2, StopKeepsFiles

\* FlushBlockFile syncs the last block file, and with it all blocks of the index.
LEMMA SyncedFiles ==
    ASSUME FileInv, LoadedInv, SyncFiles
    PROVE  /\ Known(mapBlockIndex) \subseteq blkSynced'
           /\ \A b \in Blocks : mapBlockIndex[b].undo =>
                 mapBlockIndex[b].file < nLastBlockFile \/ b \in revSynced'
           /\ blkSynced \subseteq blkSynced' /\ revSynced \subseteq revSynced'
           /\ blkSynced' \subseteq blk /\ revSynced' \subseteq DOMAIN rev \cap Blocks
  <1>1. /\ blkSynced' = blkSynced \cup InCurrentFile
        /\ revSynced' = revSynced \cup (InCurrentFile \cap DOMAIN rev)
    BY DEF SyncFiles
  <1>2. InCurrentFile \subseteq blk /\ InCurrentFile \subseteq Blocks
    BY DEF InCurrentFile, FileInv, Backed, Known
  <1>3. Known(mapBlockIndex) \subseteq blkSynced'
    BY <1>1 DEF LoadedInv, InCurrentFile
  <1>4. ASSUME NEW b \in Blocks, mapBlockIndex[b].undo, ~(mapBlockIndex[b].file < nLastBlockFile)
        PROVE  b \in revSynced'
    <2>1. mapBlockIndex[b].file = nLastBlockFile /\ nLastBlockFile \in Nat /\ nLastBlockFile # 0
      <3>1. mapBlockIndex[b].file \in 0..MaxFile /\ mapBlockIndex[b].file <= nLastBlockFile
        BY DEF FileInv, Backed, LoadedInv
      <3> QED  BY <1>4, <3>1, Bounds, SMT DEF LoadedInv
    <2>2. b \in InCurrentFile
      BY <2>1, KnownHasFile DEF InCurrentFile, FileInv
    <2>3. b \in revSynced \/ b \in DOMAIN rev
      BY <1>4 DEF LoadedInv
    <2> QED  BY <1>1, <2>2, <2>3
  <1> QED  BY <1>1, <1>2, <1>3, <1>4 DEF FileInv, StoredInv

\* Syncing more does not harm the stored index.
LEMMA MoreIsSynced ==
    ASSUME StoredInv, UNCHANGED blockTreeDB, blkSynced \subseteq blkSynced', revSynced \subseteq revSynced',
           blkSynced' \subseteq blk', revSynced' \subseteq DOMAIN rev' \cap Blocks
    PROVE  StoredInv'
  <1>1. IndexedDataSynced'
    BY DEF StoredInv, IndexedDataSynced, InEarlierFile, Known
  <1> QED  BY <1>1 DEF StoredInv, Known

\* A block is written to the file before its index entry exists; the files before it are
\* synced.
LEMMA AcceptKeepsFiles ==
    ASSUME FileInv, NEW b \in Blocks, AcceptBlock(b)
    PROVE  FileInv'
  <1>1. PICK f \in {nLastBlockFile, nLastBlockFile + 1} \cap 1..MaxFile :
          /\ IF f = nLastBlockFile THEN UNCHANGED <<blkSynced, revSynced>> ELSE SyncFiles
          /\ nLastBlockFile' = f
          /\ mapBlockIndex' = [mapBlockIndex EXCEPT ![b] = [file |-> f, undo |-> FALSE]]
    BY DEF AcceptBlock
  <1>2. /\ blk' = blk \cup {b} /\ UNCHANGED <<blockTreeDB, rev, phase, job, faults>> /\ phase = "running"
        /\ b \notin Known(mapBlockIndex) /\ setDirtyBlockIndex' = setDirtyBlockIndex \cup {b}
    BY DEF AcceptBlock
  <1>3. LoadedInv /\ StoredInv /\ ~Stopping
    BY <1>2 DEF FileInv, Stopping
  <1>4. mapBlockIndex \in [Blocks -> [file : 0..MaxFile, undo : BOOLEAN]]
    BY DEF FileInv, Backed
  <1>5. f \in 1..MaxFile /\ f \in 0..MaxFile /\ f # 0 /\ nLastBlockFile <= f
    BY <1>1, <1>3, Bounds, SMT DEF LoadedInv
  <1>6. /\ mapBlockIndex' \in [Blocks -> [file : 0..MaxFile, undo : BOOLEAN]]
        /\ mapBlockIndex'[b].file = f /\ ~mapBlockIndex'[b].undo
        /\ \A a \in Blocks : a # b => mapBlockIndex'[a] = mapBlockIndex[a]
    BY <1>1, <1>4, <1>5
  <1>7. Known(mapBlockIndex') = Known(mapBlockIndex) \cup {b}
    <2>1. mapBlockIndex'[b] # NoEntry
      BY <1>5, <1>6, SMT DEF NoEntry
    <2> QED  BY <1>6, <2>1 DEF Known
  <1>8. Backed(blockTreeDB)'
    BY <1>2 DEF FileInv, Backed, Known
  <1>9. Backed(mapBlockIndex)'
    BY <1>2, <1>5, <1>6, <1>7 DEF FileInv, Backed
  <1>10. /\ blkSynced \subseteq blkSynced' /\ revSynced \subseteq revSynced'
         /\ blkSynced' \subseteq blk' /\ revSynced' \subseteq DOMAIN rev' \cap Blocks
    BY <1>1, <1>2, <1>3, SyncedFiles DEF StoredInv
  <1>11. StoredInv'
    BY <1>2, <1>3, <1>10, MoreIsSynced
  <1>12. \A a \in Known(mapBlockIndex) : a \in blkSynced' \/ mapBlockIndex[a].file = f
    BY <1>1, <1>2, <1>3, <1>10, SyncedFiles DEF LoadedInv
  <1>13. \A a \in Blocks : mapBlockIndex'[a].file <= f
    BY <1>3, <1>4, <1>5, <1>6, SMT DEF LoadedInv
  <1>14. \A a \in Blocks : mapBlockIndex'[a].undo => mapBlockIndex'[a].file < f \/ a \in DOMAIN rev
    <2> SUFFICES ASSUME NEW a \in Blocks, mapBlockIndex'[a].undo, a \notin DOMAIN rev
                 PROVE  mapBlockIndex'[a].file < f
      OBVIOUS
    <2>1. a # b /\ mapBlockIndex'[a] = mapBlockIndex[a]
      BY <1>6
    <2>2. mapBlockIndex[a].file < nLastBlockFile
      BY <1>2, <1>3, <2>1 DEF LoadedInv
    <2>3. mapBlockIndex[a].file \in 0..MaxFile
      BY <1>4
    <2> QED  BY <1>3, <1>5, <2>1, <2>2, <2>3, Bounds, SMT DEF LoadedInv
  <1>15. \A a \in Known(blockTreeDB) : mapBlockIndex'[a].file = blockTreeDB[a].file
    <2>1. \A a \in Known(blockTreeDB) : a \in Blocks /\ a \in Known(mapBlockIndex)
      <3> SUFFICES ASSUME NEW a \in Known(blockTreeDB)
                   PROVE  a \in Blocks /\ a \in Known(mapBlockIndex)
        OBVIOUS
      <3>1. a \in Blocks /\ blockTreeDB[a].file # 0
        BY KnownHasFile DEF FileInv, Known
      <3> QED  BY <1>3, <3>1, KnownHasFile DEF FileInv, LoadedInv
    <2> QED  BY <1>2, <1>3, <1>6, <2>1 DEF LoadedInv
  <1>16. \A a \in Blocks \ setDirtyBlockIndex' : mapBlockIndex'[a] = blockTreeDB'[a]
    BY <1>2, <1>3, <1>6 DEF LoadedInv
  <1>17. LoadedInv'
    <2>1. \A a \in Known(mapBlockIndex') : a \in blkSynced' \/ mapBlockIndex'[a].file = f
      BY <1>6, <1>7, <1>12 DEF Known
    <2>2. \E c \in Known(mapBlockIndex') : mapBlockIndex'[c].file = f
      BY <1>6, <1>7
    <2>3. phase' # "index" /\ nLastBlockFile' = f /\ rev' = rev /\ blockTreeDB' = blockTreeDB
      BY <1>1, <1>2
    <2> QED  BY <1>3, <1>5, <1>7, <1>13, <1>14, <1>15, <1>16, <2>1, <2>2, <2>3 DEF LoadedInv
  <1> QED  BY <1>8, <1>9, <1>11, <1>17 DEF FileInv

\* Undo data is written to the file before the entry says that it is there.
LEMMA ConnectKeepsFiles ==
    ASSUME FileInv, NEW b \in Blocks, ConnectTip(b)
    PROVE  FileInv'
  <1>1. /\ UNCHANGED <<blockTreeDB, blk, blkSynced, revSynced, nLastBlockFile, phase, job, faults>>
        /\ phase = "running" /\ b \in Known(mapBlockIndex)
    BY DEF ConnectTip, NextBlocks, index
  <1>2. CASE UNCHANGED <<index, rev>>
    BY <1>1, <1>2, QuietKeepsFiles DEF index, files, Stopping
  <1>3. CASE /\ rev' = UndoWriteToDisk(b)
             /\ mapBlockIndex' = [mapBlockIndex EXCEPT ![b] = [file |-> @.file, undo |-> TRUE]]
             /\ setDirtyBlockIndex' = setDirtyBlockIndex \cup {b}
    <2>1. mapBlockIndex \in [Blocks -> [file : 0..MaxFile, undo : BOOLEAN]] /\ mapBlockIndex[b].file # 0
      BY <1>1, KnownHasFile DEF FileInv, Backed
    <2>2. /\ mapBlockIndex' \in [Blocks -> [file : 0..MaxFile, undo : BOOLEAN]]
          /\ \A a \in Blocks : a # b => mapBlockIndex'[a] = mapBlockIndex[a]
          /\ \A a \in Blocks : mapBlockIndex'[a].file = mapBlockIndex[a].file
      <3>1. mapBlockIndex[b] \in [file : 0..MaxFile, undo : BOOLEAN]
        BY <2>1
      <3>2. mapBlockIndex'[b] = [file |-> mapBlockIndex[b].file, undo |-> TRUE]
        BY <1>3, <2>1
      <3>3. mapBlockIndex'[b].file = mapBlockIndex[b].file
        BY <3>2, SMT
      <3> QED  BY <1>3, <2>1, <3>1, <3>2, <3>3
    <2>3. DOMAIN rev' = DOMAIN rev \cup {b}
      BY <1>3 DEF UndoWriteToDisk
    <2>4. Known(mapBlockIndex') = Known(mapBlockIndex)
      <3>1. mapBlockIndex'[b] # NoEntry
        BY <2>1, <2>2, SMT DEF NoEntry
      <3> QED  BY <1>1, <2>2, <3>1 DEF Known
    <2>5. Backed(blockTreeDB)'
      BY <1>1, <2>3 DEF FileInv, Backed, Known
    <2>6. Backed(mapBlockIndex)'
      BY <1>1, <2>1, <2>2, <2>3, <2>4 DEF FileInv, Backed
    <2>7. StoredInv'
      BY <1>1, <2>3, MoreIsSynced DEF FileInv, StoredInv
    <2>8. LoadedInv /\ ~Stopping
      BY <1>1 DEF FileInv, Stopping
    <2>9. \A a \in Blocks : mapBlockIndex'[a].undo => mapBlockIndex'[a].file < nLastBlockFile \/ a \in DOMAIN rev'
      BY <1>1, <2>2, <2>3, <2>8 DEF LoadedInv
    <2>10. \A a \in Known(blockTreeDB) : mapBlockIndex'[a].file = blockTreeDB[a].file
      BY <2>2, <2>8 DEF LoadedInv, Known
    <2>11. \A a \in Blocks \ setDirtyBlockIndex' : mapBlockIndex'[a] = blockTreeDB[a]
      BY <1>3, <2>2, <2>8 DEF LoadedInv
    <2>12. \A a \in Blocks : mapBlockIndex'[a].file <= nLastBlockFile
      BY <2>2, <2>8 DEF LoadedInv
    <2>13. \A a \in Known(mapBlockIndex) : a \in Blocks
      BY DEF Known
    <2>14. LoadedInv'
      BY <1>1, <2>2, <2>4, <2>8, <2>9, <2>10, <2>11, <2>12, <2>13 DEF LoadedInv
    <2> QED  BY <2>5, <2>6, <2>7, <2>14 DEF FileInv
  <1> QED  BY <1>2, <1>3 DEF ConnectTip, index

\* FlushBlockFile: the blocks of the index are synced, and so is the undo data of the last
\* file.
LEMMA FlushFileKeepsFiles ==
    ASSUME FileInv, FlushBlockFile
    PROVE  FileInv'
  <1>1. /\ UNCHANGED <<blockTreeDB, mapBlockIndex, setDirtyBlockIndex, nLastBlockFile, blk, rev, faults>>
        /\ SyncFiles /\ phase' = "index" /\ phase \in {"running", "flush"}
        /\ phase = "flush" => job' = job
    BY DEF FlushBlockFile, index
  <1>2. Backed(blockTreeDB)' /\ Backed(mapBlockIndex)'
    BY <1>1 DEF FileInv, Backed, Known
  <1>3. LoadedInv
    BY <1>1 DEF FileInv
  <1>4. /\ Known(mapBlockIndex) \subseteq blkSynced'
        /\ \A b \in Blocks : mapBlockIndex[b].undo =>
              mapBlockIndex[b].file < nLastBlockFile \/ b \in revSynced'
        /\ blkSynced \subseteq blkSynced' /\ revSynced \subseteq revSynced'
        /\ blkSynced' \subseteq blk /\ revSynced' \subseteq DOMAIN rev \cap Blocks
    BY <1>1, <1>3, SyncedFiles
  <1>5. StoredInv'
    BY <1>1, <1>4, MoreIsSynced DEF FileInv
  <1>6. Stopping => Stopping'
    BY <1>1 DEF Stopping
  <1>7. LoadedInv'
    BY <1>1, <1>3, <1>4, <1>6 DEF LoadedInv, Known
  <1> QED  BY <1>2, <1>5, <1>7 DEF FileInv

\* WriteBatchSync stores entries whose data is in the files, and synced.
LEMMA WriteIndexKeepsFiles ==
    ASSUME FileInv, WriteBatchSync
    PROVE  FileInv'
  <1>1. /\ UNCHANGED <<mapBlockIndex, nLastBlockFile, blk, rev, blkSynced, revSynced, job, faults>>
        /\ phase = "index" /\ phase' \in {"coins", "running"} /\ setDirtyBlockIndex' = {}
        /\ job = "stop" => phase' = "coins"
    BY DEF WriteBatchSync, files
  <1>2. blockTreeDB' = [b \in Blocks |-> IF b \in setDirtyBlockIndex THEN mapBlockIndex[b]
                                        ELSE blockTreeDB[b]]
    BY DEF WriteBatchSync
  <1>3. LoadedInv /\ StoredInv /\ Backed(blockTreeDB) /\ Backed(mapBlockIndex)
    BY <1>1 DEF FileInv
  <1>4. Backed(mapBlockIndex)'
    BY <1>1, <1>3 DEF Backed, Known
  <1>5. CASE setDirtyBlockIndex = {} /\ Stopping
    <2>1. blockTreeDB' = blockTreeDB
      BY <1>2, <1>3, <1>5 DEF Backed
    <2>2. Stopping'
      BY <1>1, <1>5 DEF Stopping
    <2> QED  BY <1>1, <1>5, <2>1, <2>2, QuietKeepsFiles DEF files
  <1>6. CASE \A b \in Blocks \ setDirtyBlockIndex : mapBlockIndex[b] = blockTreeDB[b]
    <2>1. blockTreeDB' = mapBlockIndex
      <3>1. \A b \in Blocks : blockTreeDB'[b] = mapBlockIndex[b]
        BY <1>2, <1>6
      <3>2. blockTreeDB' = [b \in Blocks |-> blockTreeDB'[b]] /\ mapBlockIndex = [b \in Blocks |-> mapBlockIndex[b]]
        BY <1>2, <1>3 DEF Backed
      <3> QED  BY <3>1, <3>2
    <2>2. Backed(blockTreeDB)'
      BY <1>1, <1>4, <2>1 DEF Backed, Known
    <2>3. IndexedDataSynced'
      BY <1>1, <1>3, <2>1 DEF LoadedInv, IndexedDataSynced, InEarlierFile
    <2>4. StoredInv'
      BY <1>1, <1>3, <2>1, <2>3 DEF LoadedInv, StoredInv
    <2>5. \A b \in Blocks : mapBlockIndex[b].undo => mapBlockIndex[b].file < nLastBlockFile \/ b \in DOMAIN rev
      BY <1>1, <1>3 DEF LoadedInv, StoredInv
    <2>6. LoadedInv'
      BY <1>1, <1>3, <2>1, <2>5 DEF LoadedInv
    <2> QED  BY <1>4, <2>2, <2>4, <2>6 DEF FileInv
  <1> QED  BY <1>3, <1>5, <1>6 DEF LoadedInv

\* A failed write of the index loses which entries are dirty, and stops the node.
LEMMA ThrowKeepsFiles ==
    ASSUME FileInv, WriteBatchSyncThrows, faults'.power = 0 => faults.power = 0
    PROVE  FileInv'
  <1>1. /\ UNCHANGED <<blockTreeDB, mapBlockIndex, nLastBlockFile, blk, rev, blkSynced, revSynced>>
        /\ phase = "index" /\ phase' = "flush" /\ job' = "stop" /\ setDirtyBlockIndex' = {}
    BY DEF WriteBatchSyncThrows, WriteError, files
  <1>2. LoadedInv /\ StoredInv /\ Backed(blockTreeDB) /\ Backed(mapBlockIndex)
    BY <1>1 DEF FileInv
  <1>3. Backed(blockTreeDB)' /\ Backed(mapBlockIndex)'
    BY <1>1, <1>2 DEF Backed, Known
  <1>4. StoredInv'
    BY <1>1, <1>2, MoreIsSynced DEF StoredInv
  <1>5. \A b \in Blocks : mapBlockIndex[b].undo => mapBlockIndex[b].file < nLastBlockFile \/ b \in DOMAIN rev
    BY <1>1, <1>2 DEF LoadedInv, StoredInv
  <1>6. Stopping'
    BY <1>1 DEF Stopping
  <1>7. LoadedInv'
    BY <1>1, <1>2, <1>5, <1>6 DEF LoadedInv, Known
  <1> QED  BY <1>3, <1>4, <1>7 DEF FileInv

\* LoadBlockIndex takes over the stored index, or begins one with Genesis.
LEMMA LoadIndexKeepsFiles ==
    ASSUME FileInv, LoadBlockIndex
    PROVE  FileInv'
  <1> DEFINE Last(f) == /\ \A b \in Blocks : mapBlockIndex'[b].file <= f
                        /\ \E b \in Blocks : mapBlockIndex'[b].file = f
  <1>1. /\ UNCHANGED <<blockTreeDB, rev, blkSynced, revSynced, faults>>
        /\ phase = "down" /\ phase' \notin {"index", "down"}
        /\ blk' = blk \cup {Genesis}
        /\ mapBlockIndex' = IF Genesis \in Known(blockTreeDB) THEN blockTreeDB
                            ELSE [blockTreeDB EXCEPT ![Genesis] = [file |-> 1, undo |-> FALSE]]
        /\ setDirtyBlockIndex' = IF Genesis \in Known(blockTreeDB) THEN {} ELSE {Genesis}
        /\ nLastBlockFile' = CHOOSE f \in 1..MaxFile : Last(f)
    BY DEF LoadBlockIndex
  <1>2. /\ blockTreeDB \in [Blocks -> [file : 0..MaxFile, undo : BOOLEAN]] /\ Genesis \in Blocks
        /\ StoredInv /\ Backed(blockTreeDB)
    BY Root DEF FileInv, Backed
  <1>3. 1 \in 0..MaxFile /\ 1 \in 1..MaxFile
    BY Bounds, SMT
  <1>4. Backed(blockTreeDB)'
    BY <1>1, <1>2 DEF Backed, Known
  <1>5. StoredInv'
    BY <1>1, <1>2, MoreIsSynced DEF StoredInv
  <1>6. CASE Genesis \in Known(blockTreeDB)
    <2>1. mapBlockIndex' = blockTreeDB /\ setDirtyBlockIndex' = {}
      BY <1>1, <1>6
    <2>2. Backed(mapBlockIndex)'
      BY <1>4, <2>1, <1>1 DEF Backed, Known
    <2>3. PICK c \in Known(blockTreeDB) : \A b \in Blocks : blockTreeDB[b].file <= blockTreeDB[c].file
      BY <1>2, <1>6 DEF StoredInv
    <2>4. c \in Blocks /\ blockTreeDB[c].file \in 0..MaxFile /\ blockTreeDB[c].file # 0
      BY <1>2, KnownHasFile DEF Known
    <2>5. blockTreeDB[c].file \in 1..MaxFile /\ Last(blockTreeDB[c].file)
      <3>1. blockTreeDB[c].file \in 1..MaxFile
        BY <2>4, Bounds, SMT
      <3> QED  BY <2>1, <2>3, <2>4, <3>1
    <2>6. nLastBlockFile' \in 1..MaxFile /\ Last(nLastBlockFile')
      BY <1>1, <2>5
    <2> HIDE DEF Last
    <2>7. blockTreeDB[c].file = nLastBlockFile'
      <3>1. \A b \in Blocks : blockTreeDB[b].file <= nLastBlockFile'
        BY <2>1, <2>6 DEF Last
      <3>2. PICK b \in Blocks : blockTreeDB[b].file = nLastBlockFile'
        BY <2>1, <2>6 DEF Last
      <3>3. nLastBlockFile' <= blockTreeDB[c].file /\ blockTreeDB[c].file <= nLastBlockFile'
        BY <2>3, <2>4, <3>1, <3>2
      <3> QED  BY <2>4, <2>6, <3>3, Bounds, SMT
    <2>8. \A b \in Blocks : blockTreeDB[b].file <= nLastBlockFile'
      BY <2>1, <2>6 DEF Last
    <2>9. \A b \in Blocks : blockTreeDB[b].undo => blockTreeDB[b].file < nLastBlockFile' \/ b \in DOMAIN rev
      <3> SUFFICES ASSUME NEW b \in Blocks, blockTreeDB[b].undo, b \notin DOMAIN rev
                   PROVE  blockTreeDB[b].file < nLastBlockFile'
        OBVIOUS
      <3>1. PICK e \in Known(blockTreeDB) : blockTreeDB[b].file < blockTreeDB[e].file
        BY <1>2 DEF StoredInv, IndexedDataSynced, InEarlierFile
      <3>2. /\ blockTreeDB[b].file \in 0..MaxFile /\ blockTreeDB[e].file \in 0..MaxFile
            /\ blockTreeDB[e].file <= nLastBlockFile'
        BY <1>2, <2>8, <3>1 DEF Known
      <3> QED  BY <2>6, <3>1, <3>2, Bounds, SMT
    <2>10. Known(blockTreeDB) \subseteq blkSynced
      BY <1>2 DEF StoredInv, IndexedDataSynced
    <2>11. LoadedInv'
      BY <1>1, <1>6, <2>1, <2>6, <2>7, <2>8, <2>9, <2>10 DEF LoadedInv
    <2> QED  BY <1>4, <1>5, <2>2, <2>11 DEF FileInv
  <1>7. CASE Genesis \notin Known(blockTreeDB)
    <2>1. /\ mapBlockIndex' = [blockTreeDB EXCEPT ![Genesis] = [file |-> 1, undo |-> FALSE]]
          /\ setDirtyBlockIndex' = {Genesis} /\ Known(blockTreeDB) = {}
      BY <1>1, <1>2, <1>7 DEF StoredInv
    <2>2. \A b \in Blocks : blockTreeDB[b] = NoEntry /\ blockTreeDB[b].file = 0 /\ ~blockTreeDB[b].undo
      BY <2>1, SMT DEF Known, NoEntry
    <2>3. /\ mapBlockIndex'[Genesis].file = 1 /\ \A b \in Blocks : ~mapBlockIndex'[b].undo
          /\ \A b \in Blocks : b # Genesis => mapBlockIndex'[b] = blockTreeDB[b]
          /\ mapBlockIndex' \in [Blocks -> [file : 0..MaxFile, undo : BOOLEAN]]
      BY <1>2, <1>3, <2>1, <2>2
    <2>4. Known(mapBlockIndex') = {Genesis}
      <3>1. mapBlockIndex'[Genesis] # NoEntry
        BY <2>3, SMT DEF NoEntry
      <3> QED  BY <1>2, <2>2, <2>3, <3>1 DEF Known
    <2>5. Backed(mapBlockIndex)'
      BY <1>1, <2>3, <2>4 DEF Backed
    <2>6. \A b \in Blocks : mapBlockIndex'[b].file \in {0, 1}
      BY <2>2, <2>3
    <2>7. Last(1)
      BY <1>2, <2>3, <2>6, SMT
    <2>8. nLastBlockFile' \in 1..MaxFile /\ Last(nLastBlockFile')
      BY <1>1, <1>3, <2>7
    <2> HIDE DEF Last
    <2>9. PICK b \in Blocks : mapBlockIndex'[b].file = nLastBlockFile'
      BY <2>8 DEF Last
    <2>10. nLastBlockFile' = 1
      BY <2>6, <2>8, <2>9, SMT
    <2>11. \A a \in Blocks : mapBlockIndex'[a].file <= nLastBlockFile'
      BY <2>8 DEF Last
    <2>12. LoadedInv'
      BY <1>1, <2>1, <2>3, <2>4, <2>8, <2>10, <2>11 DEF LoadedInv
    <2> QED  BY <1>4, <1>5, <2>5, <2>12 DEF FileInv
  <1> QED  BY <1>6, <1>7

\* Every step keeps the data the indices refer to, as far as a power loss lets it.
LEMMA StepKeepsFiles ==
    ASSUME Types, FileInv, [Next]_vars
    PROVE  FileInv'
  <1>0. faults'.power = 0 => faults.power = 0
    BY PowerLossesCounted
  <1>1. ASSUME NEW b \in Blocks, AcceptBlock(b) \/ ConnectTip(b) \/ RejectBlock(b)
        PROVE  FileInv'
    <2>1. CASE RejectBlock(b)
      BY <1>0, <2>1, QuietKeepsFiles DEF RejectBlock, index, Stopping
    <2> QED  BY <1>1, <2>1, AcceptKeepsFiles, ConnectKeepsFiles
  <1>2. CASE DisconnectTip
    BY <1>0, <1>2, QuietKeepsFiles DEF DisconnectTip, index, Stopping
  <1>3. CASE FlushDone
    <2>1. CASE Stopped(blk, Blocks)
      BY <1>0, <2>1, CleanStopKeepsFiles
    <2>2. CASE job = "run" /\ phase' = "running" /\ UNCHANGED <<blockTreeDB, files, index>>
      BY <1>0, <1>3, <2>2, QuietKeepsFiles DEF FlushDone, index, Stopping
    <2> QED  BY <1>3, <2>1, <2>2 DEF FlushDone
  <1>4. ASSUME NEW part \in SUBSET dirty, NEW last \in BOOLEAN, BatchWrite(part, last)
        PROVE  FileInv'
    <2>1. /\ UNCHANGED <<blockTreeDB, files, index, job>> /\ phase = "coins"
          /\ phase' = IF ~last THEN "coins" ELSE IF job = "replay" THEN "load" ELSE "assets"
      BY <1>4 DEF BatchWrite
    <2> QED  BY <1>0, <2>1, QuietKeepsFiles DEF index, Stopping
  <1>5. ASSUME NEW a \in Assets, DumpAsset(a)
        PROVE  FileInv'
    BY <1>0, <1>5, QuietKeepsFiles DEF DumpAsset, index, Stopping
  <1>6. CASE ReplayBlocks \/ LoadChainTip \/ StartupFails
    <2>1. /\ UNCHANGED <<blockTreeDB, files, index>> /\ phase \in {"replay", "load"}
          /\ phase' \in {"coins", "running", "flush", "failed"}
      BY <1>6 DEF ReplayBlocks, LoadChainTip, RewindBlockIndex, StartupFails
    <2> QED  BY <1>0, <2>1, QuietKeepsFiles DEF index, Stopping
  <1>7. CASE WriteBatchSyncThrows
    BY <1>0, <1>7, ThrowKeepsFiles
  <1>8. ASSUME NEW part \in SUBSET dirty, BatchWriteThrows(part)
        PROVE  FileInv'
    BY <1>0, <1>8, QuietKeepsFiles DEF BatchWriteThrows, WriteError, index, Stopping
  <1>9. CASE BatchWriteAsserts \/ Crash
    BY <1>0, <1>9, CleanStopKeepsFiles DEF BatchWriteAsserts, Crash
  <1>10. CASE PowerLoss
    BY <1>10, PowerLossKeepsFiles
  <1>11. CASE SyncDatabases
    BY <1>0, <1>11, QuietKeepsFiles DEF SyncDatabases, index, Stopping
  <1>12. CASE UNCHANGED vars
    BY <1>0, <1>12, QuietKeepsFiles DEF vars, index, Stopping
  <1>13. CASE Flush \/ Startup
    BY <1>13, <1>3, <1>4, <1>5, <1>6, FlushFileKeepsFiles, WriteIndexKeepsFiles, LoadIndexKeepsFiles
       DEF Flush, Startup
  <1> QED
    BY <1>1, <1>2, <1>7, <1>8, <1>9, <1>10, <1>11, <1>12, <1>13 DEF Next

\* Every step keeps Genesis in the index that covers a block, but for a failing write.
LEMMA StepKeepsGenesis ==
    ASSUME ~WriteError, FlushInv, GenesisInv, [Next]_vars
    PROVE  GenesisInv'
  <1> USE Root DEF GenesisInv
  <1>1. ASSUME UNCHANGED blockTreeDB, db' \in {db, dbSynced}, dbSynced' \in {db, dbSynced},
               phase' # "down" => Genesis \in Known(mapBlockIndex'),
               phase' = "coins" => Genesis \in Known(blockTreeDB)
        PROVE  GenesisInv'
    BY <1>1
  <1>2. ASSUME UNCHANGED <<blockTreeDB, mapBlockIndex, db>>, dbSynced' \in {db, dbSynced},
               phase' # "down" => phase # "down", phase' = "coins" => phase = "coins"
        PROVE  GenesisInv'
    BY <1>1, <1>2
  <1>3. ASSUME NEW kb, NEW kr, Stopped(kb, kr), db' \in {db, dbSynced}, dbSynced' = dbSynced
        PROVE  GenesisInv'
    BY <1>1, <1>3 DEF Stopped
  <1>4. ASSUME NEW b \in Blocks, AcceptBlock(b) \/ ConnectTip(b) \/ RejectBlock(b)
        PROVE  GenesisInv'
    <2>1. CASE AcceptBlock(b)
      <3>1. b # Genesis /\ phase = "running" /\ UNCHANGED <<blockTreeDB, phase, db, dbSynced>>
        BY <2>1 DEF AcceptBlock, coinsDisk
      <3>2. mapBlockIndex'[Genesis] = mapBlockIndex[Genesis]
        BY <2>1, <3>1, SMT DEF AcceptBlock
      <3> QED  BY <1>1, <3>1, <3>2 DEF Known
    <2>2. CASE ConnectTip(b)
      <3>1. phase = "running" /\ UNCHANGED <<blockTreeDB, phase, db, dbSynced>>
        BY <2>2 DEF ConnectTip, coinsDisk
      <3>2. \/ mapBlockIndex' = mapBlockIndex
            \/ b # Genesis /\ mapBlockIndex' = [mapBlockIndex EXCEPT ![b] = [file |-> @.file, undo |-> TRUE]]
        BY <2>2 DEF ConnectTip, index
      <3>3. mapBlockIndex'[Genesis] = mapBlockIndex[Genesis]
        BY <3>2 DEF FlushInv, FlushTypes
      <3> QED  BY <1>1, <3>1, <3>3 DEF Known
    <2>3. CASE RejectBlock(b)
      BY <1>2, <2>3 DEF RejectBlock, coinsDisk, index
    <2> QED  BY <1>4, <2>1, <2>2, <2>3
  <1>5. CASE DisconnectTip
    BY <1>2, <1>5 DEF DisconnectTip, coinsDisk, index
  <1>6. CASE FlushBlockFile
    BY <1>2, <1>6 DEF FlushBlockFile, coinsDisk, index
  <1>7. CASE WriteBatchSync
    <2>1. /\ UNCHANGED <<mapBlockIndex, db, dbSynced>> /\ phase = "index"
          /\ blockTreeDB'[Genesis] = mapBlockIndex[Genesis]
      BY <1>7 DEF WriteBatchSync, coinsDisk, FlushInv
    <2> QED  BY <2>1 DEF Known
  <1>8. CASE FlushDone
    <2>1. CASE Stopped(blk, Blocks)
      BY <1>3, <1>8, <2>1 DEF FlushDone, coinsDisk
    <2>2. CASE phase' = "running" /\ UNCHANGED <<blockTreeDB, index>>
      BY <1>2, <1>8, <2>2 DEF FlushDone, coinsDisk, index
    <2> QED  BY <1>8, <2>1, <2>2 DEF FlushDone
  <1>9. ASSUME NEW part \in SUBSET dirty, NEW last \in BOOLEAN, BatchWrite(part, last)
        PROVE  GenesisInv'
    <2>1. phase = "coins" /\ UNCHANGED <<blockTreeDB, mapBlockIndex, dbSynced>>
      BY <1>9 DEF BatchWrite, index
    <2> QED  BY <2>1
  <1>10. ASSUME NEW a \in Assets, DumpAsset(a)
         PROVE  GenesisInv'
    BY <1>2, <1>10 DEF DumpAsset, coinsDisk, index
  <1>11. CASE LoadBlockIndex
    <2>1. UNCHANGED <<blockTreeDB, db, dbSynced>> /\ phase' # "coins"
      BY <1>11 DEF LoadBlockIndex, coinsDisk
    <2>2. Genesis \in Known(mapBlockIndex')
      BY <1>11, SMT DEF LoadBlockIndex, Known, NoEntry, FlushInv, FlushTypes
    <2> QED  BY <1>1, <2>1, <2>2
  <1>12. CASE ReplayBlocks
    <2>1. /\ phase = "replay" /\ db.heads.new \in Blocks
          /\ UNCHANGED <<blockTreeDB, mapBlockIndex, db, dbSynced>>
      BY <1>12 DEF ReplayBlocks, CanReplay, Known, coinsDisk, index
    <2>2. db.heads.new # Null /\ db.heads.new \in Named(db)
      BY <2>1 DEF Named
    <2>3. Named(db) # {Null}
      BY <2>2
    <2> QED  BY <1>1, <2>1, <2>3
  <1>13. CASE LoadChainTip \/ StartupFails
    BY <1>2, <1>13 DEF LoadChainTip, RewindBlockIndex, StartupFails, coinsDisk, index
  <1>14. CASE WriteBatchSyncThrows \/ \E part \in SUBSET dirty : BatchWriteThrows(part)
    BY <1>14 DEF WriteBatchSyncThrows, BatchWriteThrows
  <1>15. CASE BatchWriteAsserts \/ Crash
    BY <1>3, <1>15 DEF BatchWriteAsserts, Crash, coinsDisk
  <1>16. CASE PowerLoss
    BY <1>3, <1>16 DEF PowerLoss
  <1>17. CASE SyncDatabases
    BY <1>2, <1>17 DEF SyncDatabases, index
  <1>18. CASE UNCHANGED vars
    BY <1>2, <1>18 DEF vars, coinsDisk, index
  <1>19. CASE Flush \/ Startup
    <2> HIDE DEF GenesisInv
    <2>1. CASE Flush
      BY <2>1, <1>6, <1>7, <1>8, <1>9, <1>10 DEF Flush
    <2>2. CASE Startup
      BY <2>2, <1>11, <1>12, <1>13 DEF Startup
    <2> QED  BY <1>19, <2>1, <2>2
  <1> QED
    BY <1>4, <1>5, <1>14, <1>15, <1>16, <1>17, <1>18, <1>19 DEF Next

\* What the recovery rests on: an interrupted database can be replayed, if the undo data
\* is there.
LEMMA InterruptedIsRecoverable ==
    ASSUME Types, FlushInv, CoinInv, FileInv, GenesisInv, NEW d \in {db, dbSynced}, d.heads.new # Null
    PROVE  \/ CanReplay(blockTreeDB, d.heads) /\ Replayed(d) = UTXO(d.heads.new)
           \/ faults.power > 0 /\ \E b \in OldBranch(d.heads) \ DOMAIN rev : InEarlierFile(b)
  <1>1. d.heads.new \in Blocks /\ d.heads.old \in Blocks \cup {Null}
    BY DEF FlushInv, FlushTypes, Named
  <1>2. Genesis \in Known(blockTreeDB)
    BY DEF GenesisInv, Named
  <1>3. HasUndo(blockTreeDB, d.heads.new) /\ HasUndo(blockTreeDB, d.heads.old)
    BY DEF FlushInv, Covered, Named
  <1>4. ASSUME NEW t \in {d.heads.new, d.heads.old}, t # Null, NEW a \in Ancestors[t], a # Genesis
        PROVE  /\ a \in Known(blockTreeDB) /\ a \in blk /\ blockTreeDB[a].undo
               /\ a \in DOMAIN rev \/ (faults.power > 0 /\ InEarlierFile(a))
    <2>1. a \in Blocks /\ blockTreeDB[a].undo
      BY <1>1, <1>3, <1>4, Ancestry DEF HasUndo
    <2>2. a \in Known(blockTreeDB)
      BY <2>1, SMT DEF Known, NoEntry
    <2>3. a \in DOMAIN rev \/ InEarlierFile(a)
      BY <2>1 DEF FileInv, StoredInv, IndexedDataSynced
    <2>4. a \in DOMAIN rev \/ faults.power # 0
      BY <2>1 DEF FileInv, Backed
    <2>5. faults.power # 0 => faults.power > 0
      BY SMT DEF Types
    <2> QED  BY <2>1, <2>2, <2>3, <2>4, <2>5 DEF FileInv, Backed
  <1>5. ASSUME NEW t \in {d.heads.new, d.heads.old}, t # Null
        PROVE  t \in Known(blockTreeDB)
    BY <1>1, <1>2, <1>4, <1>5, Ancestry, SMT
  <1>6. OldBranch(d.heads) \subseteq Blocks \ {Genesis} /\ NewBranch(d.heads) \subseteq Blocks \ {Genesis}
    BY <1>1, OldBranchBlocks
  <1>6a. \A b \in OldBranch(d.heads) :
            /\ b \in Known(blockTreeDB) \cap blk /\ blockTreeDB[b].undo
            /\ b \in DOMAIN rev \/ (faults.power > 0 /\ InEarlierFile(b))
    BY <1>4, <1>6 DEF OldBranch
  <1> SUFFICES ASSUME OldBranch(d.heads) \subseteq DOMAIN rev
               PROVE  CanReplay(blockTreeDB, d.heads) /\ Replayed(d) = UTXO(d.heads.new)
    BY <1>6a
  <1>7. OldBranch(d.heads) \subseteq Undoable(blockTreeDB)
    BY <1>6a DEF Undoable, Readable
  <1>8. NewBranch(d.heads) \subseteq Readable(blockTreeDB)
    BY <1>4, <1>6 DEF NewBranch, Readable
  <1>9. CanReplay(blockTreeDB, d.heads)
    BY <1>5, <1>7, <1>8 DEF CanReplay
  <1>10. \A b \in OldBranch(d.heads) : UndoRight(b)
    BY <1>7 DEF CoinInv, Undoable
  <1>11. d.coins = [c \in Coins |-> d.coins[c]] /\ Mixed(d)
    BY DEF CoinInv, GoodDatabase
  <1>12. Replayed(d) = UTXO(d.heads.new)
    BY <1>1, <1>10, <1>11, ReplayRight
  <1> QED  BY <1>9, <1>12

\* Together, and as long as no write failed.
TrustInv ==
    /\ Types /\ TransitionInv
    /\ faults.write = 0 => FlushInv /\ CoinInv /\ GenesisInv

\* A fresh data directory.
LEMMA FreshIsTrusted == Init => TrustInv /\ FileInv
  <1> SUFFICES ASSUME Init PROVE TrustInv /\ FileInv
    OBVIOUS
  <1>1. FlushInv /\ Types /\ TransitionInv
    BY FreshDirectory DEF Init, NoHeads, TransitionInv, Types, FlushInv
  <1>2. db.heads.new = Null /\ db.heads = NoHeads /\ db.best = Null /\ db.coins = NoCoins /\ dbSynced = db
    BY DEF Init, NoHeads
  <1>3. GoodDatabase(db) /\ GoodDatabase(dbSynced)
    BY <1>2, NoCoinsAtGenesis DEF GoodDatabase, NoCoins
  <1>4. DOMAIN rev = {} /\ coins = UTXO(tip) /\ phase = "down"
    BY NoCoinsAtGenesis DEF Init
  <1>5. CoinInv
    BY <1>3, <1>4 DEF CoinInv, Working
  <1>6. GenesisInv
    BY <1>2, <1>4, SMT DEF GenesisInv, Named, NoHeads
  <1>7. \A b \in Blocks : blockTreeDB[b] = NoEntry /\ mapBlockIndex[b] = NoEntry
    BY DEF Init
  <1>8. FileInv
    <2>1. Known(blockTreeDB) = {} /\ \A b \in Blocks : ~blockTreeDB[b].undo /\ ~mapBlockIndex[b].undo
      BY <1>7, SMT DEF Known, NoEntry
    <2>2. blockTreeDB \in [Blocks -> [file : 0..MaxFile, undo : BOOLEAN]] /\ mapBlockIndex = blockTreeDB
      BY Bounds, SMT DEF Init, NoEntry
    <2>3. Backed(blockTreeDB) /\ Backed(mapBlockIndex)
      BY <2>1, <2>2 DEF Backed
    <2>4. StoredInv
      BY <2>1 DEF Init, StoredInv, IndexedDataSynced
    <2> QED  BY <1>4, <2>3, <2>4 DEF FileInv
  <1> QED  BY <1>1, <1>5, <1>6, <1>8 DEF TrustInv

\* A write that failed stays counted.
LEMMA StepKeepsTrust ==
    ASSUME TrustInv, [Next]_vars
    PROVE  TrustInv'
  <1>1. Types' /\ TransitionInv'
    BY StepKeepsTypes, StepKeepsTransition DEF TrustInv
  <1>2. CASE faults'.write = 0
    <2>1. faults \in [crash : Nat, power : Nat, write : Nat]
      BY DEF TrustInv, Types
    <2>2. ~WriteError
      BY <1>2, <2>1, SMT DEF WriteError
    <2>3. faults.write = 0
      <3>1. faults' = faults \/ faults' = [faults EXCEPT !.crash = @ + 1] \/ faults' = [faults EXCEPT !.power = @ + 1]
        BY <2>2 DEF Next, vars, AcceptBlock, ConnectTip, RejectBlock, DisconnectTip, Flush, FlushBlockFile,
                    WriteBatchSync, FlushDone, BatchWrite, DumpAsset, Startup, LoadBlockIndex, ReplayBlocks,
                    LoadChainTip, StartupFails, WriteBatchSyncThrows, BatchWriteThrows, BatchWriteAsserts,
                    Crash, PowerLoss, SyncDatabases
      <3> QED  BY <1>2, <2>1, <3>1
    <2>4. FlushInv /\ CoinInv /\ GenesisInv
      BY <2>3 DEF TrustInv
    <2>5. FlushInv' /\ CoinInv' /\ GenesisInv'
      BY <2>2, <2>4, StepKeepsInv, StepKeepsCoins, StepKeepsGenesis DEF TrustInv
    <2> QED  BY <1>1, <2>5 DEF TrustInv
  <1> QED  BY <1>1, <1>2 DEF TrustInv

\* Whatever the crashes and power losses, a coins database that names a best block holds
\* exactly the coins of that block's branch, as long as no write failed.
THEOREM DatabaseAlwaysConsistent == Spec => []DatabaseConsistent
  <1>1. Init => TrustInv
    BY FreshIsTrusted
  <1>2. TrustInv /\ [Next]_vars => TrustInv'
    BY StepKeepsTrust
  <1>3. TrustInv => DatabaseConsistent
    BY SMT DEF TrustInv, CoinInv, GoodDatabase, NoHeads, DatabaseConsistent
  <1> QED  BY <1>1, <1>2, <1>3, PTL DEF Spec

\* Whatever the number of block files, crashes, power losses and failing writes, the stored
\* index never refers to a block that a power loss could take away, nor to undo data but
\* what was appended to an earlier rev file.
THEOREM IndexedDataAlwaysSynced == Spec => []IndexedDataSynced
  <1>1. Init => TrustInv /\ FileInv
    BY FreshIsTrusted
  <1>2. TrustInv /\ FileInv /\ [Next]_vars => TrustInv' /\ FileInv'
    BY StepKeepsTrust, StepKeepsFiles DEF TrustInv
  <1>3. FileInv => IndexedDataSynced
    BY DEF FileInv, StoredInv
  <1> QED  BY <1>1, <1>2, <1>3, PTL DEF Spec

\* Wherever crashes and power losses cut flushes off, the flush of a replay included,
\* ReplayBlocks has what it needs and arrives at the coins of the new head, unless a power
\* loss took undo data of the old branch from an earlier rev file.
THEOREM ReplayAlwaysRecovers == Spec => []AlwaysRecoverable
  <1>1. Init => TrustInv /\ FileInv
    BY FreshIsTrusted
  <1>2. TrustInv /\ FileInv /\ [Next]_vars => TrustInv' /\ FileInv'
    BY StepKeepsTrust, StepKeepsFiles DEF TrustInv
  <1>3. TrustInv /\ FileInv => AlwaysRecoverable
    BY InterruptedIsRecoverable DEF TrustInv, AlwaysRecoverable
  <1> QED  BY <1>1, <1>2, <1>3, PTL DEF Spec

-----------------------------------------------------------------------------
\* The assets of a branch are those of its parent and those the block issues, no two alike.
LEMMA AssetsOfBlock ==
    ASSUME NEW b \in Blocks
    PROVE  /\ b # Genesis => AssetsOf(b) = AssetsOf(Parent[b]) \cup Issues[b]
           /\ b # Genesis => AssetsOf(b) \ Issues[b] = AssetsOf(Parent[b])
           /\ AssetsOf(Genesis) = {} /\ AssetsOf(Null) = {}
  <1>1. AssetsOf(Genesis) = {} /\ AssetsOf(Null) = {}
    <2>1. Ancestors[Genesis] = {Genesis} /\ Issues[Genesis] = {} /\ Genesis # Null
      BY Root
    <2>2. UNION {Issues[a] : a \in {Genesis}} = {}
      BY <2>1
    <2> QED  BY <2>1, <2>2 DEF AssetsOf
  <1>2. ASSUME b # Genesis
        PROVE  /\ AssetsOf(b) = AssetsOf(Parent[b]) \cup Issues[b]
               /\ AssetsOf(b) \ Issues[b] = AssetsOf(Parent[b])
    <2>1. /\ Parent[b] \in Blocks /\ Ancestors[b] = {b} \cup Ancestors[Parent[b]] /\ b \in Ancestors[b]
          /\ b \notin Ancestors[Parent[b]] /\ b # Null /\ Parent[b] # Null
      BY <1>2, Ancestry, Root, SMT
    <2>2. \A x : x \in AssetsOf(b) <=> \E a \in Ancestors[b] : x \in Issues[a]
      BY <2>1 DEF AssetsOf
    <2>3. \A x : x \in AssetsOf(Parent[b]) <=> \E a \in Ancestors[Parent[b]] : x \in Issues[a]
      BY <2>1 DEF AssetsOf
    <2>4. \A a \in Ancestors[Parent[b]] : Issues[a] \cap Issues[b] = {}
      BY <2>1, Ancestry, ValidBlocks DEF Proper
    <2>5. \A x : x \in AssetsOf(b) <=> x \in AssetsOf(Parent[b]) \/ x \in Issues[b]
      BY <2>1, <2>2, <2>3
    <2>6. \A x : x \in AssetsOf(Parent[b]) => x \notin Issues[b]
      BY <2>3, <2>4
    <2> QED  BY <2>5, <2>6
  <1> QED  BY <1>1, <1>2

\* Steps that touch nothing the assets depend on.
LEMMA QuietKeepsAssets ==
    ASSUME AssetInv, UNCHANGED <<tip, assets, assetsdb, db>>, job' # "replay",
           phase \in Working \ {"assets"}, phase' \in Working \ {"assets"}
    PROVE  AssetInv'
  BY DEF AssetInv, Working

\* The process stops in a phase in which the two databases agree.
LEMMA StopKeepsAssets ==
    ASSUME NEW kb, NEW kr, Stopped(kb, kr), UNCHANGED <<db, assetsdb>>, db.heads.new = Null,
           assetsdb = AssetsOf(db.best)
    PROVE  AssetInv'
  BY DEF AssetInv, Stopped, Working

\* Without a crash or a power loss every step keeps the assets those of the tip.
LEMMA StepKeepsAssets ==
    ASSUME MaxPowerLosses = 0, ~Crash, Types, TransitionInv, AssetInv, [Next]_vars
    PROVE  AssetInv'
  <1>1. ASSUME NEW b \in Blocks, AcceptBlock(b) \/ ConnectTip(b) \/ RejectBlock(b)
        PROVE  AssetInv'
    <2>1. CASE AcceptBlock(b)
      BY <2>1, QuietKeepsAssets DEF AcceptBlock, coinsDisk, assetsDisk, view, AssetInv, Working
    <2>2. CASE RejectBlock(b)
      BY <2>2, QuietKeepsAssets DEF RejectBlock, coinsDisk, assetsDisk, view, AssetInv, Working
    <2>3. CASE ConnectTip(b)
      <3>1. /\ phase = "running" /\ tip' = b /\ assets' = assets \cup Issues[b]
            /\ UNCHANGED <<phase, job, db, assetsdb>>
            /\ IF tip = Null THEN b = Genesis ELSE b # Genesis /\ Parent[b] = tip
        BY <2>3 DEF ConnectTip, NextBlocks, coinsDisk, assetsDisk
      <3>2. assets = AssetsOf(tip)
        BY <3>1 DEF AssetInv, Working
      <3>3. assets' = AssetsOf(tip')
        BY <3>1, <3>2, AssetsOfBlock, Root
      <3> QED  BY <3>1, <3>3 DEF AssetInv
    <2> QED  BY <1>1, <2>1, <2>2, <2>3
  <1>2. CASE DisconnectTip
    <2>1. /\ phase = "running" /\ tip \in Blocks /\ tip # Genesis /\ tip' = Parent[tip]
          /\ assets' = assets \ Issues[tip] /\ UNCHANGED <<phase, job, db, assetsdb>>
      BY <1>2 DEF DisconnectTip, coinsDisk, assetsDisk, Types, FlushTypes
    <2>2. assets = AssetsOf(tip)
      BY <2>1 DEF AssetInv, Working
    <2>3. assets' = AssetsOf(tip')
      BY <2>1, <2>2, AssetsOfBlock
    <2> QED  BY <2>1, <2>3 DEF AssetInv
  <1>3. CASE FlushBlockFile \/ WriteBatchSync
    BY <1>3, QuietKeepsAssets
       DEF FlushBlockFile, WriteBatchSync, coinsDisk, assetsDisk, view, AssetInv, Working
  <1>4. CASE FlushDone
    <2>1. phase = "assets" /\ UNCHANGED <<db, assetsdb>> /\ db.heads.new = Null /\ assetsdb = AssetsOf(db.best)
      BY <1>4 DEF FlushDone, coinsDisk, assetsDisk, AssetInv, Working
    <2>2. CASE Stopped(blk, Blocks)
      BY <2>1, <2>2, StopKeepsAssets
    <2>3. CASE job = "run" /\ phase' = "running" /\ UNCHANGED <<view, assets, job>>
      BY <2>1, <2>3 DEF view, AssetInv, Working
    <2> QED  BY <1>4, <2>2, <2>3 DEF FlushDone
  <1>5. ASSUME NEW part \in SUBSET dirty, NEW last \in BOOLEAN, BatchWrite(part, last)
        PROVE  AssetInv'
    <2>1. /\ phase = "coins" /\ tip # Null /\ UNCHANGED <<tip, assets, assetsdb, job>>
          /\ phase' = IF ~last THEN "coins" ELSE IF job = "replay" THEN "load" ELSE "assets"
      BY <1>5 DEF BatchWrite, assetsDisk
    <2>2. assets' = AssetsOf(tip') /\ job # "replay"
      BY <2>1 DEF AssetInv, Working
    <2>3. CASE last
      <3>1. db'.best = tip /\ db'.heads.new = Null
        BY <1>5, <2>3 DEF BatchWrite, NoHeads
      <3> QED  BY <2>1, <2>2, <2>3, <3>1 DEF AssetInv
    <2>4. CASE ~last
      <3>1. db'.heads.new = tip
        BY <1>5, <2>4 DEF BatchWrite
      <3> QED  BY <2>1, <2>2, <2>4, <3>1 DEF AssetInv
    <2> QED  BY <2>3, <2>4
  <1>6. ASSUME NEW a \in Assets, DumpAsset(a)
        PROVE  AssetInv'
    BY <1>6 DEF DumpAsset, coinsDisk, view, AssetInv, Working
  <1>7. CASE Startup
    <2>1. CASE LoadBlockIndex
      BY <2>1 DEF LoadBlockIndex, coinsDisk, assetsDisk, AssetInv, Working
    <2>2. CASE LoadChainTip
      BY <2>2 DEF LoadChainTip, RewindBlockIndex, coinsDisk, assetsDisk, AssetInv, Working
    <2>3. CASE StartupFails
      BY <2>3 DEF StartupFails, AssetInv, Working
    <2> QED  BY <1>7, <2>1, <2>2, <2>3 DEF Startup, ReplayBlocks, AssetInv
  <1>8. CASE WriteBatchSyncThrows
    BY <1>8, QuietKeepsAssets DEF WriteBatchSyncThrows, WriteError, coinsDisk, assetsDisk, view, Working
  <1>9. ASSUME NEW part \in SUBSET dirty, BatchWriteThrows(part)
        PROVE  AssetInv'
    BY <1>9, QuietKeepsAssets DEF BatchWriteThrows, WriteError, coinsDisk, assetsDisk, Working
  <1>10. CASE BatchWriteAsserts
    <2>1. phase = "coins" /\ tip = Null /\ Stopped(blk, Blocks) /\ UNCHANGED <<db, assetsdb>>
      BY <1>10 DEF BatchWriteAsserts, coinsDisk, assetsDisk
    <2>2. db.heads.new = Null
      BY <2>1 DEF TransitionInv
    <2>3. assetsdb = AssetsOf(db.best)
      BY <2>1, <2>2 DEF AssetInv
    <2> QED  BY <2>1, <2>2, <2>3, StopKeepsAssets
  <1>11. CASE PowerLoss \/ SyncDatabases
    BY <1>11, SMT DEF PowerLoss, SyncDatabases, Types
  <1>12. CASE UNCHANGED vars
    BY <1>12 DEF vars, coinsDisk, assetsDisk, view, AssetInv
  <1>13. CASE Flush
    BY <1>13, <1>3, <1>4, <1>5, <1>6 DEF Flush
  <1> QED
    BY <1>1, <1>2, <1>7, <1>8, <1>9, <1>10, <1>11, <1>12, <1>13 DEF Next

\* Without power losses, and as long as there was no crash: reorganisations, flushes, failing
\* writes and clean restarts keep the assets of the running node those of the active branch.
THEOREM AssetsAlwaysFollowTip == MaxPowerLosses = 0 => (Spec => []AssetsFollowTip)
  <1> SUFFICES ASSUME MaxPowerLosses = 0
               PROVE  Spec => []AssetsFollowTip
    OBVIOUS
  <1> DEFINE I == Types /\ TransitionInv /\ (faults.crash = 0 => AssetInv)
  <1>1. Init => I
    <2>1. Init => Types /\ TransitionInv
      BY FreshIsTrusted DEF TrustInv
    <2>2. Init => AssetInv
      BY SMT DEF Init, NoHeads, AssetInv, Working, AssetsOf
    <2> QED  BY <2>1, <2>2
  <1>2. I /\ [Next]_vars => I'
    <2> SUFFICES ASSUME I, [Next]_vars PROVE I'
      OBVIOUS
    <2>1. Types' /\ TransitionInv'
      BY StepKeepsTypes, StepKeepsTransition
    <2>2. CASE faults'.crash = 0
      <3>1. faults \in [crash : Nat, power : Nat, write : Nat]
        BY DEF Types
      <3>2. ~Crash
        BY <2>2, <3>1, SMT DEF Crash
      <3>3. \/ faults' = faults \/ faults' = [faults EXCEPT !.write = @ + 1]
            \/ faults' = [faults EXCEPT !.power = @ + 1]
        BY <3>2 DEF Next, vars, AcceptBlock, ConnectTip, RejectBlock, DisconnectTip, Flush, FlushBlockFile,
                    WriteBatchSync, FlushDone, BatchWrite, DumpAsset, Startup, LoadBlockIndex, ReplayBlocks,
                    LoadChainTip, StartupFails, WriteBatchSyncThrows, BatchWriteThrows, WriteError,
                    BatchWriteAsserts, PowerLoss, SyncDatabases
      <3>4. faults.crash = 0
        BY <2>2, <3>1, <3>3
      <3> QED  BY <2>1, <3>2, <3>4, StepKeepsAssets
    <2> QED  BY <2>1, <2>2
  <1>3. I => AssetsFollowTip
    BY DEF AssetInv, Working, AssetsFollowTip, AssetsMatchTip
  <1> HIDE DEF I
  <1> QED  BY <1>1, <1>2, <1>3, PTL DEF Spec
=============================================================================
