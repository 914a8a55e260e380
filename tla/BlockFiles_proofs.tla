-------------------------- MODULE BlockFiles_proofs --------------------------
(***************************************************************************)
(* Proofs, for every tree of blocks, size and number of files, pruning     *)
(* parameters, and any number of crashes and reindexes: what a block index *)
(* names can be read; the active chain and a torn flush of the coins have  *)
(* the data they need as far as pruning may not go; a reindex finds every  *)
(* block that the files connect to the genesis block.                      *)
(***************************************************************************)
EXTENDS BlockFiles, FiniteSetTheorems, WellFoundedInduction, TLAPS

\* Most steps are first-order and left to Zenon; those that need more name SMT.
USE Zenon

Sizes == [size : Nat, undoSize : Nat, heightLast : Nat]

\* The types of what lives in memory and in the files.
FileTypes ==
    /\ index \in [Blocks -> Entry]
    /\ vinfo \in [Files -> Sizes]
    /\ lastFile \in Files
    /\ blk \in [Files -> [Slots -> Blocks \cup {None}]]
    /\ rev \in [Files -> [Slots -> Blocks \cup {None}]]

\* The types of the block database.
TreeTypes ==
    tree \in [index : [Blocks -> Entry], vinfo : [Files -> Sizes],
              lastFile : Files, reindexing : BOOLEAN]

\* The progress of an import remembers positions.
ImportTypes ==
    /\ DOMAIN import = {"file", "slot", "queue", "unknown"}
    /\ \A e \in import.unknown : e.at \in Position

\* The sizes of the files cover all that the entries name.
Covers(entries, info) ==
    \A b \in Blocks : entries[b] # None =>
        /\ entries[b].at # None => entries[b].at.slot < info[entries[b].at.file].size
        /\ entries[b].undo # None => /\ entries[b].at # None
                                     /\ entries[b].undo < info[entries[b].at.file].undoSize

\* Without the genesis block there is nothing at all.
Rooted(entries, info) ==
    entries[Genesis] = None => /\ \A b \in Blocks : entries[b] = None
                               /\ \A f \in Files : info[f] = NoInfo

\* What holds of memory and of the database at any time.
Sound ==
    /\ Agrees(index) /\ Agrees(tree.index)
    /\ Covers(index, vinfo) /\ Covers(tree.index, tree.vinfo)
    /\ Rooted(index, vinfo) /\ Rooted(tree.index, tree.vinfo)

\* What is not marked dirty is in the database as it is in memory.
Tracks ==
    /\ \A b \in Blocks \ dirtyBlocks : tree.index[b] = index[b]
    /\ \A f \in Files \ dirtyFiles : tree.vinfo[f] = vinfo[f]

\* What the database names, memory names at the same place: so the sizes in memory,
\* which say where the next record goes, keep it off the records of both.
Extends ==
    \A b \in Blocks : tree.index[b] # None =>
        /\ index[b] # None
        /\ tree.index[b].at # None => index[b].at = tree.index[b].at
        /\ tree.index[b].undo # None => index[b].undo = tree.index[b].undo

Running == pc \in {"idle", "flush", "write", "unlink", "coins"}

\* The files to unlink are files that the index in memory forgot.
Unnamed ==
    /\ flush.unlink \subseteq Files
    /\ \A f \in flush.unlink, b \in Blocks :
          index[b] # None => (index[b].at # None => index[b].at.file # f)

FilesInv ==
    /\ FileTypes /\ TreeTypes /\ ImportTypes
    /\ Sound
    /\ Running => Tracks
    /\ Running /\ pc # "write" => Extends
    /\ pc \in {"write", "unlink"} => Unnamed
    /\ pc \in {"genesis", "wiped", "cleaned"} => index[Genesis] = None /\ tree.index[Genesis] = None
    /\ import.queue # <<>> => index[Genesis] # None

-----------------------------------------------------------------------------
\* The larger of two sizes or heights.
LEMMA MaxOfTwo ==
    ASSUME NEW m \in Nat, NEW n \in Nat
    PROVE  Max({m, n}) \in Nat /\ m <= Max({m, n}) /\ n <= Max({m, n})
  <1>1. \E x \in {m, n} : \A y \in {m, n} : x >= y
    <2>1. CASE m >= n
      BY <2>1, SMT
    <2>2. CASE n >= m
      BY <2>2, SMT
    <2>. QED
      BY <2>1, <2>2, SMT
  <1>. QED
    BY <1>1 DEF Max

\* CBlockFileInfo::AddBlock and the new size.
LEMMA AddBlockType ==
    ASSUME NEW info \in Sizes, NEW b \in Blocks, NEW size \in Nat
    PROVE  /\ AddBlock(info, b, size) \in Sizes
           /\ AddBlock(info, b, size).size = size
           /\ AddBlock(info, b, size).undoSize = info.undoSize
  <1>1. Max({info.heightLast, Height[b]}) \in Nat
    BY MaxOfTwo, BlockFilesAssumption DEF Sizes
  <1>. QED
    BY <1>1 DEF AddBlock, Sizes

\* Entries and records are told apart.
LEMMA EntryFacts ==
    ASSUME NEW p \in Position
    PROVE  /\ [at |-> p, undo |-> None] \in Entry
           /\ [at |-> p, undo |-> None] # None
           /\ p # None
           /\ NoData \in Entry /\ NoData # None
  BY NoneAssumption, SMT DEF Entry, NoData

\* What an entry names is a place of a file.
LEMMA EntryTypes ==
    ASSUME FileTypes, NEW c \in Blocks, index[c] # None
    PROVE  /\ index[c].at # None => index[c].at \in Position
           /\ index[c].undo # None => index[c].undo \in Slots
  BY DEF FileTypes, Entry

\* It lies within the sizes of the file.
LEMMA NamedPlace ==
    ASSUME FileTypes, Sound, NEW c \in Blocks, index[c] # None
    PROVE  /\ index[c].at # None =>
                 /\ index[c].at.file \in Files /\ index[c].at.slot \in Slots /\ index[c].at.slot \in Nat
                 /\ index[c].at.slot < vinfo[index[c].at.file].size
           /\ index[c].undo # None =>
                 /\ index[c].at # None
                 /\ index[c].undo \in Slots /\ index[c].undo \in Nat
                 /\ index[c].undo < vinfo[index[c].at.file].undoSize
  <1>1. /\ index[c].at # None => index[c].at.slot < vinfo[index[c].at.file].size
        /\ index[c].undo # None =>
              index[c].at # None /\ index[c].undo < vinfo[index[c].at.file].undoSize
    BY DEF Sound, Covers
  <1>2. /\ index[c].at # None => index[c].at \in Position
        /\ index[c].undo # None => index[c].undo \in Slots
    BY EntryTypes
  <1>3. \A s \in Slots : s \in Nat
    BY SMT DEF Slots
  <1>4. \A p \in Position : p.file \in Files /\ p.slot \in Slots
    BY DEF Position
  <1>. QED
    BY <1>1, <1>2, <1>3, <1>4

\* The sizes of a file are numbers.
LEMMA SizeTypes ==
    ASSUME NEW info \in [Files -> Sizes], NEW g \in Files
    PROVE  info[g].size \in Nat /\ info[g].undoSize \in Nat
  <1>1. info[g] \in Sizes
    OBVIOUS
  <1>. QED
    BY <1>1 DEF Sizes

\* Sizes that grow cover what they covered.
LEMMA StillCovered ==
    ASSUME FileTypes, Sound, NEW c \in Blocks, index[c] # None,
           \A g \in Files : /\ vinfo[g].size \in Nat /\ vinfo[g].undoSize \in Nat
                            /\ vinfo'[g].size \in Nat /\ vinfo'[g].undoSize \in Nat
                            /\ vinfo[g].size <= vinfo'[g].size
                            /\ vinfo[g].undoSize <= vinfo'[g].undoSize
    PROVE  /\ index[c].at # None => index[c].at.slot < vinfo'[index[c].at.file].size
           /\ index[c].undo # None =>
                  index[c].at # None /\ index[c].undo < vinfo'[index[c].at.file].undoSize
  <1>0. \A k, m, n \in Nat : k < m /\ m <= n => k < n
    BY SMT
  <1>1. /\ index[c].at # None =>
              /\ index[c].at.file \in Files /\ index[c].at.slot \in Nat
              /\ index[c].at.slot < vinfo[index[c].at.file].size
        /\ index[c].undo # None =>
              /\ index[c].at # None /\ index[c].undo \in Nat
              /\ index[c].undo < vinfo[index[c].at.file].undoSize
    BY NamedPlace
  <1>2. ASSUME index[c].at # None
        PROVE  index[c].at.slot < vinfo'[index[c].at.file].size
    BY <1>0, <1>1, <1>2
  <1>3. ASSUME index[c].undo # None
        PROVE  index[c].undo < vinfo'[index[c].at.file].undoSize
    BY <1>0, <1>1, <1>3
  <1>. QED
    BY <1>1, <1>2, <1>3

\* What storing a new block, or one found on disk, needs and what it keeps.
Stored ==
    /\ FileTypes' /\ Sound' /\ Tracks' /\ Extends'
    /\ index'[Genesis] # None

\* ReceivedBlockTransactions, once the info of the file covers the position: the
\* entry of b grows, and so does that info.
LEMMA ReceivedKeeps ==
    ASSUME FileTypes, Sound, Tracks, Extends,
           NEW b \in Blocks, NEW p \in Position, ~HaveData(b), Received(b, p),
           b = Genesis \/ index[Genesis] # None,
           vinfo' = [vinfo EXCEPT ![p.file] = vinfo'[p.file]],
           vinfo'[p.file] \in Sizes, p.slot < vinfo'[p.file].size,
           vinfo[p.file].size <= vinfo'[p.file].size,
           vinfo[p.file].undoSize = vinfo'[p.file].undoSize,
           dirtyFiles' = dirtyFiles \cup {p.file},
           tree'.index = tree.index, tree'.vinfo = tree.vinfo
    PROVE  /\ index' \in [Blocks -> Entry] /\ vinfo' \in [Files -> Sizes]
           /\ index'[b] = [at |-> p, undo |-> None] /\ index'[b] # None
           /\ \A c \in Blocks : c # b => index'[c] = index[c]
           /\ Covers(index, vinfo)' /\ Covers(tree.index, tree.vinfo)'
           /\ Rooted(index, vinfo)' /\ Rooted(tree.index, tree.vinfo)'
           /\ Tracks' /\ Extends'
           /\ index'[Genesis] # None
  <1>1. /\ index' = [index EXCEPT ![b] = [at |-> p, undo |-> None]]
        /\ dirtyBlocks' = dirtyBlocks \cup {b}
        /\ p.file \in Files /\ p.slot \in Slots
    BY DEF Received, Position
  <1>2. /\ index' \in [Blocks -> Entry]
        /\ index'[b] = [at |-> p, undo |-> None] /\ index'[b] # None
        /\ \A c \in Blocks : c # b => index'[c] = index[c]
    BY <1>1, EntryFacts DEF FileTypes
  <1>3. /\ vinfo' \in [Files -> Sizes]
        /\ \A g \in Files : g # p.file => vinfo'[g] = vinfo[g]
    BY <1>1 DEF FileTypes
  <1>4. index'[Genesis] # None
    BY <1>2, BlockFilesAssumption
  <1>5. Covers(index, vinfo)'
    <2>1. \A g \in Files : /\ vinfo[g].size \in Nat /\ vinfo[g].undoSize \in Nat
                           /\ vinfo'[g].size \in Nat /\ vinfo'[g].undoSize \in Nat
                           /\ vinfo[g].size <= vinfo'[g].size
                           /\ vinfo[g].undoSize <= vinfo'[g].undoSize
      <3>1. \A g \in Files : /\ vinfo[g].size \in Nat /\ vinfo[g].undoSize \in Nat
                             /\ vinfo'[g].size \in Nat /\ vinfo'[g].undoSize \in Nat
        BY <1>3, SizeTypes DEF FileTypes
      <3>2. ASSUME NEW g \in Files
            PROVE  vinfo[g].size <= vinfo'[g].size /\ vinfo[g].undoSize <= vinfo'[g].undoSize
        <4>1. CASE g = p.file
          BY <3>1, <4>1, SMT
        <4>2. CASE g # p.file
          <5>1. vinfo'[g] = vinfo[g]
            BY <1>3, <4>2
          <5>. QED
            BY <3>1, <5>1, SMT
        <4>. QED
          BY <4>1, <4>2
      <3>. QED
        BY <3>1, <3>2
    <2>2. ASSUME NEW c \in Blocks, index[c] # None
          PROVE  /\ index[c].at # None => index[c].at.slot < vinfo'[index[c].at.file].size
                 /\ index[c].undo # None =>
                        index[c].at # None /\ index[c].undo < vinfo'[index[c].at.file].undoSize
      BY <2>1, <2>2, StillCovered
    <2>. QED
      BY <1>2, <2>2, SMT DEF Covers
  <1>6. Covers(tree.index, tree.vinfo)' /\ Rooted(tree.index, tree.vinfo)'
    BY DEF Sound, Covers, Rooted
  <1>7. Rooted(index, vinfo)'
    BY <1>4 DEF Rooted
  <1>8. Tracks'
    BY <1>1, <1>2, <1>3, SMT DEF Tracks
  <1>9. Extends'
    <2>1. ASSUME tree.index[b] # None
          PROVE  tree.index[b].at = None /\ tree.index[b].undo = None
      <3>1. tree.index[b].at = None
        BY <2>1 DEF Extends, HaveData
      <3>. QED
        BY <2>1, <3>1 DEF Sound, Covers
    <2>2. ASSUME NEW c \in Blocks, c # b
          PROVE  index'[c] = index[c]
      BY <1>2, <2>2
    <2>3. index'[b] # None
      BY <1>2
    <2>. QED
      BY <2>1, <2>2, <2>3, SMT DEF Extends
  <1>. QED
    BY <1>2, <1>3, <1>4, <1>5, <1>6, <1>7, <1>8, <1>9

\* Files that keep what memory names keep what the database names.
LEMMA TreeStillAgrees ==
    ASSUME Sound, Extends, tree'.index = tree.index,
           \A c \in Blocks : index[c] # None =>
              /\ index[c].at # None =>
                    blk'[index[c].at.file][index[c].at.slot] = blk[index[c].at.file][index[c].at.slot]
              /\ index[c].undo # None =>
                    rev'[index[c].at.file][index[c].undo] = rev[index[c].at.file][index[c].undo]
    PROVE  Agrees(tree.index)'
  <1>. SUFFICES ASSUME NEW c \in Blocks, tree.index[c] # None
                PROVE  /\ tree.index[c].at # None =>
                              blk'[tree.index[c].at.file][tree.index[c].at.slot] = c
                       /\ tree.index[c].undo # None =>
                              rev'[tree.index[c].at.file][tree.index[c].undo] = c
    BY DEF Agrees
  <1>1. index[c] # None
    BY DEF Extends
  <1>2. ASSUME tree.index[c].at # None
        PROVE  index[c].at = tree.index[c].at
    BY <1>2 DEF Extends
  <1>3. ASSUME tree.index[c].undo # None
        PROVE  index[c].at = tree.index[c].at /\ index[c].undo = tree.index[c].undo
    BY <1>3 DEF Extends, Sound, Covers
  <1>. QED
    BY <1>1, <1>2, <1>3 DEF Sound, Agrees

\* A new block goes where neither index names anything, and the truncation of the
\* file that is left cuts nothing off that they name.
LEMMA StoreNewKeeps ==
    ASSUME FileTypes, TreeTypes, Sound, Tracks, Extends,
           NEW b \in Blocks, ~HaveData(b), b = Genesis \/ index[Genesis] # None,
           StoreNew(b), tree'.index = tree.index, tree'.vinfo = tree.vinfo
    PROVE  Stored
  <1>. DEFINE f == NextFile
              pos == [file |-> f, slot |-> vinfo[f].size]
  <1>1. /\ f \in Files /\ vinfo[f].size \in Slots /\ pos \in Position
        /\ vinfo' = [vinfo EXCEPT ![f] = AddBlock(@, b, @.size + 1)]
        /\ lastFile' = f
        /\ dirtyFiles' = dirtyFiles \cup {f}
        /\ dirtyBlocks' = dirtyBlocks \cup {b}
        /\ index' = [index EXCEPT ![b] = [at |-> pos, undo |-> None]]
    BY DEF StoreNew, Received, Position
  <1>2. /\ blk' \in [Files -> [Slots -> Blocks \cup {None}]]
        /\ blk'[f][vinfo[f].size] = b
        /\ \A g \in Files, s \in Slots : s < vinfo[g].size => blk'[g][s] = blk[g][s]
    <2>. DEFINE kept(g) == IF g = lastFile /\ f # lastFile THEN Truncated(blk[g], vinfo[g].size) ELSE blk[g]
    <2>1. blk' = [g \in Files |-> [kept(g) EXCEPT ![vinfo[f].size] = IF g = f THEN b ELSE @]]
      BY DEF StoreNew
    <2>2. \A g \in Files : /\ kept(g) \in [Slots -> Blocks \cup {None}]
                           /\ \A s \in Slots : s < vinfo[g].size => kept(g)[s] = blk[g][s]
      BY SMT DEF Truncated, FileTypes
    <2>3. vinfo[f].size \in Nat
      BY <1>1 DEF FileTypes, Sizes
    <2>. HIDE DEF f, kept
    <2>. QED
      BY <1>1, <2>1, <2>2, <2>3, SMT
  <1>3. /\ rev' \in [Files -> [Slots -> Blocks \cup {None}]]
        /\ \A g \in Files, s \in Slots : s < vinfo[g].undoSize => rev'[g][s] = rev[g][s]
    <2>. DEFINE kept(g) == IF g = lastFile /\ f # lastFile THEN Truncated(rev[g], vinfo[g].undoSize) ELSE rev[g]
    <2>1. rev' = [g \in Files |-> kept(g)]
      BY DEF StoreNew
    <2>2. \A g \in Files : /\ kept(g) \in [Slots -> Blocks \cup {None}]
                           /\ \A s \in Slots : s < vinfo[g].undoSize => kept(g)[s] = rev[g][s]
      BY SMT DEF Truncated, FileTypes
    <2>. HIDE DEF f, kept
    <2>. QED
      BY <2>1, <2>2
  <1>4. Received(b, pos) /\ pos.file = f /\ pos.slot = vinfo[f].size
    BY DEF StoreNew
  <1>. HIDE DEF f, pos
  <1>5. /\ index' \in [Blocks -> Entry] /\ vinfo' \in [Files -> Sizes]
        /\ index'[b] = [at |-> pos, undo |-> None]
        /\ \A c \in Blocks : c # b => index'[c] = index[c]
        /\ Covers(index, vinfo)' /\ Covers(tree.index, tree.vinfo)'
        /\ Rooted(index, vinfo)' /\ Rooted(tree.index, tree.vinfo)'
        /\ Tracks' /\ Extends'
        /\ index'[Genesis] # None
    <2>1. vinfo[f] \in Sizes /\ vinfo[f].size \in Nat
      BY <1>1 DEF FileTypes, Sizes
    <2>2. vinfo'[f] = AddBlock(vinfo[f], b, vinfo[f].size + 1)
      BY <1>1 DEF FileTypes
    <2>3. vinfo' = [vinfo EXCEPT ![f] = vinfo'[f]]
      BY <1>1, <2>2 DEF FileTypes
    <2>4. /\ vinfo'[f] \in Sizes
          /\ vinfo'[f].size = vinfo[f].size + 1
          /\ vinfo'[f].undoSize = vinfo[f].undoSize
      <3>1. vinfo[f].size + 1 \in Nat
        BY <2>1, SMT
      <3>2. /\ AddBlock(vinfo[f], b, vinfo[f].size + 1) \in Sizes
            /\ AddBlock(vinfo[f], b, vinfo[f].size + 1).size = vinfo[f].size + 1
            /\ AddBlock(vinfo[f], b, vinfo[f].size + 1).undoSize = vinfo[f].undoSize
        BY <2>1, <3>1, AddBlockType
      <3>. QED
        BY <2>2, <3>2
    <2>5. vinfo[f].size < vinfo'[f].size /\ vinfo[f].size <= vinfo'[f].size
      BY <2>1, <2>4, SMT
    <2>. QED
      BY <1>1, <1>4, <2>3, <2>4, <2>5, ReceivedKeeps
  <1>6. FileTypes'
    BY <1>1, <1>2, <1>3, <1>5 DEF FileTypes
  <1>7. \A c \in Blocks : index[c] # None =>
            /\ index[c].at # None =>
                  blk'[index[c].at.file][index[c].at.slot] = blk[index[c].at.file][index[c].at.slot]
            /\ index[c].undo # None =>
                  rev'[index[c].at.file][index[c].undo] = rev[index[c].at.file][index[c].undo]
    <2>1. ASSUME NEW c \in Blocks, index[c] # None
          PROVE  /\ index[c].at # None =>
                       blk'[index[c].at.file][index[c].at.slot] = blk[index[c].at.file][index[c].at.slot]
                 /\ index[c].undo # None =>
                       rev'[index[c].at.file][index[c].undo] = rev[index[c].at.file][index[c].undo]
      BY <1>2, <1>3, <2>1, NamedPlace
    <2>. QED
      BY <2>1
  <1>8. Agrees(index)'
    <2>1. index'[b].at = pos /\ index'[b].undo = None
      BY <1>5, SMT
    <2>2. blk'[index'[b].at.file][index'[b].at.slot] = b
      BY <1>2, <1>4, <2>1
    <2>3. ASSUME NEW c \in Blocks, c # b, index[c] # None
          PROVE  /\ index[c].at # None => blk'[index[c].at.file][index[c].at.slot] = c
                 /\ index[c].undo # None => rev'[index[c].at.file][index[c].undo] = c
      BY <1>7, <2>3 DEF Sound, Agrees
    <2>4. \A c \in Blocks : c # b => index'[c] = index[c]
      BY <1>5
    <2>. QED
      BY <2>1, <2>2, <2>3, <2>4 DEF Agrees
  <1>9. Agrees(tree.index)'
    BY <1>7, TreeStillAgrees
  <1>. QED
    BY <1>5, <1>6, <1>8, <1>9 DEF Stored, Sound

\* A block found on disk is recorded where it was found.
LEMMA StoreKnownKeeps ==
    ASSUME FileTypes, Sound, Tracks, Extends,
           NEW b \in Blocks, NEW p \in Position, ~HaveData(b), blk[p.file][p.slot] = b,
           b = Genesis \/ index[Genesis] # None,
           StoreKnown(b, p), UNCHANGED tree
    PROVE  Stored
  <1>1. /\ Received(b, p) /\ p.file \in Files /\ p.slot \in Nat
        /\ vinfo' = [vinfo EXCEPT ![p.file] = AddBlock(vinfo[p.file], b, Max({vinfo[p.file].size, p.slot + 1}))]
        /\ lastFile' = p.file
        /\ dirtyFiles' = dirtyFiles \cup {p.file}
        /\ UNCHANGED <<blk, rev>>
    BY SMT DEF StoreKnown, Position, Slots
  <1>2. /\ index' \in [Blocks -> Entry] /\ vinfo' \in [Files -> Sizes]
        /\ index'[b] = [at |-> p, undo |-> None]
        /\ \A c \in Blocks : c # b => index'[c] = index[c]
        /\ Covers(index, vinfo)' /\ Covers(tree.index, tree.vinfo)'
        /\ Rooted(index, vinfo)' /\ Rooted(tree.index, tree.vinfo)'
        /\ Tracks' /\ Extends'
        /\ index'[Genesis] # None
    <2>. DEFINE size == Max({vinfo[p.file].size, p.slot + 1})
    <2>1. vinfo[p.file] \in Sizes /\ vinfo[p.file].size \in Nat /\ p.slot + 1 \in Nat
      BY <1>1, SMT DEF FileTypes, Sizes
    <2>2. size \in Nat /\ vinfo[p.file].size <= size /\ p.slot + 1 <= size
      BY <2>1, MaxOfTwo
    <2>3. vinfo' = [vinfo EXCEPT ![p.file] = AddBlock(vinfo[p.file], b, size)]
      BY <1>1
    <2>. HIDE DEF size
    <2>4. vinfo'[p.file] = AddBlock(vinfo[p.file], b, size)
      BY <1>1, <2>3 DEF FileTypes
    <2>5. /\ vinfo'[p.file] \in Sizes
          /\ vinfo'[p.file].size = size
          /\ vinfo'[p.file].undoSize = vinfo[p.file].undoSize
      <3>1. vinfo[p.file] \in Sizes /\ size \in Nat
        BY <2>1, <2>2
      <3>2. /\ AddBlock(vinfo[p.file], b, size) \in Sizes
            /\ AddBlock(vinfo[p.file], b, size).size = size
            /\ AddBlock(vinfo[p.file], b, size).undoSize = vinfo[p.file].undoSize
        BY <3>1, AddBlockType, SMT
      <3>. QED
        BY <2>4, <3>2
    <2>6. p.slot < vinfo'[p.file].size /\ vinfo[p.file].size <= vinfo'[p.file].size
      BY <1>1, <2>2, <2>5, SMT
    <2>7. vinfo' = [vinfo EXCEPT ![p.file] = vinfo'[p.file]]
      BY <2>3, <2>4
    <2>8. /\ Received(b, p) /\ dirtyFiles' = dirtyFiles \cup {p.file}
          /\ tree'.index = tree.index /\ tree'.vinfo = tree.vinfo
          /\ vinfo[p.file].undoSize = vinfo'[p.file].undoSize
      BY <1>1, <2>5
    <2>. QED
      BY <2>5, <2>6, <2>7, <2>8, ReceivedKeeps
  <1>3. FileTypes'
    BY <1>1, <1>2 DEF FileTypes
  <1>4. Agrees(index)'
    <2>1. index'[b] = [at |-> p, undo |-> None]
      BY <1>2
    <2>2. index'[b].at = p /\ index'[b].undo = None
      BY <2>1, SMT
    <2>3. \A c \in Blocks : c # b => index'[c] = index[c]
      BY <1>2
    <2>4. ASSUME NEW c \in Blocks, index[c] # None
          PROVE  /\ index[c].at # None => blk'[index[c].at.file][index[c].at.slot] = c
                 /\ index[c].undo # None => rev'[index[c].at.file][index[c].undo] = c
      BY <1>1, <2>4 DEF Sound, Agrees
    <2>5. blk'[p.file][p.slot] = b
      BY <1>1
    <2>. QED
      BY <2>2, <2>3, <2>4, <2>5 DEF Agrees
  <1>5. Agrees(tree.index)'
    BY <1>1 DEF Sound, Agrees
  <1>. QED
    BY <1>2, <1>3, <1>4, <1>5 DEF Stored, Sound

\* Undo data goes to the end of the undo file that belongs to the block.
LEMMA WriteUndoKeeps ==
    ASSUME FileTypes, TreeTypes, Sound, Tracks, Extends,
           NEW b \in Blocks, HaveData(b), ~HaveUndo(b), WriteUndo(b), UNCHANGED <<lastFile, blk, tree>>
    PROVE  /\ FileTypes' /\ Sound' /\ Tracks' /\ Extends'
           /\ index[Genesis] # None => index'[Genesis] # None
  <1>. DEFINE f == index[b].at.file
              slot == vinfo[f].undoSize
  <1>1. /\ index[b] # None /\ index[b].at # None /\ index[b].undo = None
        /\ index[b].at \in Position /\ f \in Files
    BY EntryTypes DEF HaveData, HaveUndo, Position
  <1>2. /\ slot \in Slots /\ slot \in Nat
        /\ vinfo' = [vinfo EXCEPT ![f].undoSize = slot + 1]
        /\ dirtyFiles' = dirtyFiles \cup {f}
        /\ rev' = [rev EXCEPT ![f][slot] = b]
        /\ index' = [index EXCEPT ![b].undo = slot]
        /\ dirtyBlocks' = dirtyBlocks \cup {b}
    <2>1. FileOf(b) = f
      BY <1>1 DEF FileOf
    <2>2. slot \in Nat
      BY <1>1, SizeTypes DEF FileTypes
    <2>. QED
      BY <2>1, <2>2 DEF WriteUndo
  <1>3. /\ index'[b] = [at |-> index[b].at, undo |-> slot]
        /\ index'[b] \in Entry /\ index'[b] # None
        /\ index' \in [Blocks -> Entry]
        /\ \A c \in Blocks : c # b => index'[c] = index[c]
    <2>1. index[b] \in [at : Position \cup {None}, undo : Slots \cup {None}]
      BY <1>1 DEF FileTypes, Entry
    <2>2. [index[b] EXCEPT !.undo = slot] = [at |-> index[b].at, undo |-> slot]
      BY <2>1, SMT
    <2>3. [at |-> index[b].at, undo |-> slot] \in [at : Position \cup {None}, undo : Slots \cup {None}]
      BY <1>1, <1>2
    <2>. HIDE DEF f, slot
    <2>4. [at |-> index[b].at, undo |-> slot] \in Entry /\ [at |-> index[b].at, undo |-> slot] # None
      BY <2>3, NoneAssumption DEF Entry
    <2>5. index' = [index EXCEPT ![b] = [index[b] EXCEPT !.undo = slot]]
      BY <1>2
    <2>. QED
      BY <2>2, <2>4, <2>5 DEF FileTypes
  <1>4. /\ vinfo' \in [Files -> Sizes]
        /\ vinfo'[f].size = vinfo[f].size /\ vinfo'[f].undoSize = slot + 1
        /\ \A g \in Files : g # f => vinfo'[g] = vinfo[g]
    <2>1. vinfo[f] \in Sizes
      BY <1>1 DEF FileTypes
    <2>2. vinfo' = [vinfo EXCEPT ![f] = [vinfo[f] EXCEPT !.undoSize = slot + 1]]
      BY <1>2
    <2>. HIDE DEF f, slot
    <2>3. /\ [vinfo[f] EXCEPT !.undoSize = slot + 1] \in Sizes
          /\ [vinfo[f] EXCEPT !.undoSize = slot + 1].size = vinfo[f].size
          /\ [vinfo[f] EXCEPT !.undoSize = slot + 1].undoSize = slot + 1
      BY <1>2, <2>1, SMT DEF Sizes
    <2>. QED
      BY <1>1, <2>2, <2>3 DEF FileTypes
  <1>5. /\ rev' \in [Files -> [Slots -> Blocks \cup {None}]]
        /\ rev'[f][slot] = b
        /\ \A g \in Files, s \in Slots : s < vinfo[g].undoSize => rev'[g][s] = rev[g][s]
    <2>1. rev' = [rev EXCEPT ![f] = [rev[f] EXCEPT ![slot] = b]]
      BY <1>2
    <2>2. \A s \in Slots : s < vinfo[f].undoSize => s # slot
      <3>1. slot \in Nat /\ vinfo[f].undoSize = slot
        BY <1>2
      <3>. HIDE DEF slot
      <3>. QED
        BY <3>1, SMT
    <2>. HIDE DEF f, slot
    <2>3. /\ [rev[f] EXCEPT ![slot] = b] \in [Slots -> Blocks \cup {None}]
          /\ [rev[f] EXCEPT ![slot] = b][slot] = b
          /\ \A s \in Slots : s # slot => [rev[f] EXCEPT ![slot] = b][s] = rev[f][s]
      BY <1>1, <1>2 DEF FileTypes
    <2>4. /\ rev' \in [Files -> [Slots -> Blocks \cup {None}]]
          /\ rev'[f] = [rev[f] EXCEPT ![slot] = b]
          /\ \A g \in Files : g # f => rev'[g] = rev[g]
      BY <1>1, <2>1, <2>3 DEF FileTypes
    <2>5. rev'[f][slot] = b /\ \A s \in Slots : s # slot => rev'[f][s] = rev[f][s]
      BY <2>3, <2>4
    <2>6. ASSUME NEW g \in Files, NEW s \in Slots, s < vinfo[g].undoSize
          PROVE  rev'[g][s] = rev[g][s]
      BY <2>2, <2>4, <2>5, <2>6
    <2>. QED
      BY <2>4, <2>5, <2>6
  <1>. HIDE DEF f, slot
  <1>7. \A c \in Blocks : index[c] # None =>
            /\ index[c].at # None =>
                  blk'[index[c].at.file][index[c].at.slot] = blk[index[c].at.file][index[c].at.slot]
            /\ index[c].undo # None =>
                  rev'[index[c].at.file][index[c].undo] = rev[index[c].at.file][index[c].undo]
    <2>1. ASSUME NEW c \in Blocks, index[c] # None, index[c].undo # None
          PROVE  rev'[index[c].at.file][index[c].undo] = rev[index[c].at.file][index[c].undo]
      BY <1>5, <2>1, NamedPlace
    <2>. QED
      BY <2>1
  <1>8. index'[b].at = index[b].at /\ index'[b].undo = slot
    BY <1>3, SMT
  <1>9. \A c \in Blocks : c # b => index'[c] = index[c]
    BY <1>3
  <1>10. Agrees(index)'
    <2>1. ASSUME NEW c \in Blocks, index[c] # None
          PROVE  /\ index[c].at # None => blk'[index[c].at.file][index[c].at.slot] = c
                 /\ index[c].undo # None => rev'[index[c].at.file][index[c].undo] = c
      BY <1>7, <2>1 DEF Sound, Agrees
    <2>2. rev'[index'[b].at.file][index'[b].undo] = b
      BY <1>5, <1>8 DEF f
    <2>. QED
      BY <1>1, <1>8, <1>9, <2>1, <2>2, SMT DEF Agrees
  <1>11. Agrees(tree.index)'
    BY <1>7, TreeStillAgrees
  <1>12. Covers(index, vinfo)'
    <2>1. \A g \in Files : /\ vinfo[g].size \in Nat /\ vinfo[g].undoSize \in Nat
                           /\ vinfo'[g].size \in Nat /\ vinfo'[g].undoSize \in Nat
                           /\ vinfo[g].size <= vinfo'[g].size
                           /\ vinfo[g].undoSize <= vinfo'[g].undoSize
      BY <1>2, <1>4, SMT DEF FileTypes, Sizes, slot
    <2>2. ASSUME NEW c \in Blocks, index[c] # None
          PROVE  /\ index[c].at # None => index[c].at.slot < vinfo'[index[c].at.file].size
                 /\ index[c].undo # None =>
                        index[c].at # None /\ index[c].undo < vinfo'[index[c].at.file].undoSize
      BY <2>1, <2>2, StillCovered
    <2>3. index'[b].undo < vinfo'[index'[b].at.file].undoSize
      BY <1>2, <1>4, <1>8, SMT DEF f
    <2>. QED
      BY <1>1, <1>8, <1>9, <2>2, <2>3 DEF Covers
  <1>13. Rooted(index, vinfo)'
    BY <1>1, <1>3, BlockFilesAssumption DEF Sound, Rooted
  <1>14. Covers(tree.index, tree.vinfo)' /\ Rooted(tree.index, tree.vinfo)'
    BY DEF Sound, Covers, Rooted
  <1>15. Tracks'
    BY <1>2, <1>4, <1>9 DEF Tracks
  <1>16. Extends'
    BY <1>1, <1>3, <1>8, <1>9, SMT DEF Extends
  <1>. QED
    BY <1>3, <1>4, <1>5, <1>10, <1>11, <1>12, <1>13, <1>14, <1>15, <1>16, BlockFilesAssumption
       DEF FileTypes, Sound

\* PruneOneBlockFile takes every block of the file out of the index in memory and
\* marks it, with the info of the file, for writing.
LEMMA PruneKeeps ==
    ASSUME FileTypes, TreeTypes, Sound, Tracks, NEW P \in SUBSET Files, PruneFiles(P),
           UNCHANGED <<lastFile, blk, rev, tree>>
    PROVE  /\ FileTypes' /\ Sound' /\ Tracks'
           /\ index[Genesis] # None => index'[Genesis] # None
           /\ \A f \in P, b \in Blocks :
                 index'[b] # None => (index'[b].at # None => index'[b].at.file # f)
           /\ P = {} /\ Extends => Extends'
  <1>. DEFINE gone == {b \in Blocks : index[b] # None /\ FileOf(b) \in P}
  <1>1. /\ \A b \in gone : index'[b] = NoData /\ index[b] # None
        /\ \A b \in Blocks \ gone : index'[b] = index[b]
        /\ \A f \in P : vinfo'[f] = NoInfo
        /\ \A f \in Files \ P : vinfo'[f] = vinfo[f]
        /\ dirtyBlocks' = dirtyBlocks \cup gone
        /\ dirtyFiles' = dirtyFiles \cup P
    BY DEF PruneFiles
  <1>2. /\ index' \in [Blocks -> Entry] /\ vinfo' \in [Files -> Sizes]
    <2>1. NoData \in Entry /\ NoInfo \in Sizes
      BY DEF NoData, NoInfo, Entry, Sizes
    <2>. QED
      BY <2>1 DEF PruneFiles, FileTypes
  <1>3. NoData # None /\ NoData.at = None /\ NoData.undo = None
    BY NoneAssumption, SMT DEF NoData
  <1>4. \A b \in Blocks \ gone : index[b] # None /\ index[b].at # None => index[b].at.file \notin P
    BY DEF FileOf
  <1>5. \A b \in Blocks : index[b] # None =>
            /\ index[b].at # None => index[b].at \in Position
            /\ index[b].undo # None => index[b].undo \in Slots
    BY EntryTypes
  <1>6. P = {} => gone = {}
    OBVIOUS
  <1>7. gone \subseteq Blocks
    OBVIOUS
  <1>. HIDE DEF gone
  <1>8. FileTypes'
    BY <1>2 DEF FileTypes
  <1>9. Tracks'
    BY <1>1 DEF Tracks
  <1>10. Agrees(index)' /\ Agrees(tree.index)'
    BY <1>1, <1>3 DEF Sound, Agrees
  <1>11. Covers(index, vinfo)'
    <2>1. ASSUME NEW b \in Blocks \ gone, index[b] # None
          PROVE  /\ index[b].at # None => index[b].at.slot < vinfo'[index[b].at.file].size
                 /\ index[b].undo # None =>
                        index[b].at # None /\ index[b].undo < vinfo'[index[b].at.file].undoSize
      <3>1. index[b].at # None => vinfo'[index[b].at.file] = vinfo[index[b].at.file]
        BY <1>1, <1>4, <1>5, <2>1 DEF Position
      <3>. QED
        BY <2>1, <3>1 DEF Sound, Covers
    <2>. QED
      BY <1>1, <1>3, <2>1 DEF Covers
  <1>12. Covers(tree.index, tree.vinfo)' /\ Rooted(tree.index, tree.vinfo)'
    BY DEF Sound, Covers, Rooted
  <1>13. \A b \in Blocks : index'[b] = None <=> index[b] = None
    BY <1>1, <1>3, <1>7
  <1>14. Rooted(index, vinfo)'
    BY <1>1, <1>13, BlockFilesAssumption DEF Sound, Rooted
  <1>15. \A f \in P, b \in Blocks :
            index'[b] # None => (index'[b].at # None => index'[b].at.file # f)
    BY <1>1, <1>3, <1>4, SMT
  <1>16. P = {} /\ Extends => Extends'
    BY <1>1, <1>6 DEF Extends
  <1>. QED
    BY <1>8, <1>9, <1>10, <1>11, <1>12, <1>13, <1>14, <1>15, <1>16, BlockFilesAssumption DEF Sound

\* Pruning takes files before the last one.
LEMMA PruneOldFiles ==
    ASSUME FileTypes
    PROVE  FilesToPrune \subseteq Files /\ \A h : FilesToPruneManual(h) \subseteq Files
  <1>1. 0..(lastFile - 1) \subseteq Files
    BY BlockFilesAssumption, SMT DEF FileTypes, Files
  <1>. QED
    BY <1>1 DEF FilesToPrune, FilesToPruneManual

\* A memory that is blank names nothing.
LEMMA BlankKeeps ==
    ASSUME FileTypes, TreeTypes, Sound, Blank, UNCHANGED <<blk, rev, tree>>
    PROVE  /\ FileTypes' /\ TreeTypes' /\ ImportTypes' /\ Sound'
           /\ index'[Genesis] = None
           /\ import'.queue = <<>>
  <1>1. \A b \in Blocks : index'[b] = None
    BY DEF Blank
  <1>2. \A f \in Files : vinfo'[f] = NoInfo
    BY DEF Blank
  <1>3. FileTypes' /\ TreeTypes'
    <2>1. 0 \in Files /\ NoInfo \in Sizes /\ None \in Entry
      BY BlockFilesAssumption, SMT DEF Files, NoInfo, Sizes, Entry
    <2>2. FileTypes'
      BY <2>1 DEF Blank, FileTypes
    <2>. QED
      BY <2>2 DEF TreeTypes
  <1>4. ImportTypes' /\ import'.queue = <<>>
    BY DEF Blank, ImportTypes, NoImport
  <1>5. Sound'
    BY <1>1, <1>2 DEF Sound, Agrees, Covers, Rooted
  <1>. QED
    BY <1>1, <1>3, <1>4, <1>5, BlockFilesAssumption

-----------------------------------------------------------------------------
\* A step that touches neither what the indexes say nor the files, and goes from a
\* state in which memory extends the database to another.
LEMMA QuietKeeps ==
    ASSUME FilesInv, Running, pc # "write", UNCHANGED <<files, blk, rev>>,
           TreeTypes', tree'.index = tree.index, tree'.vinfo = tree.vinfo, ImportTypes',
           pc' \in {"idle", "flush", "coins", "down"} \/ (pc' = "unlink" /\ Unnamed'),
           import'.queue # <<>> => index[Genesis] # None
    PROVE  FilesInv'
  <1>1. FileTypes' /\ Sound'
    <2>1. /\ index' = index /\ vinfo' = vinfo /\ lastFile' = lastFile
          /\ blk' = blk /\ rev' = rev
      BY DEF files
    <2>2. FileTypes'
      BY <2>1 DEF FilesInv, FileTypes
    <2>3. Agrees(index)' /\ Agrees(tree.index)'
      BY <2>1 DEF FilesInv, Sound, Agrees
    <2>4. Covers(index, vinfo)' /\ Covers(tree.index, tree.vinfo)'
      BY <2>1 DEF FilesInv, Sound, Covers
    <2>5. Rooted(index, vinfo)' /\ Rooted(tree.index, tree.vinfo)'
      BY <2>1 DEF FilesInv, Sound, Rooted
    <2>. QED
      BY <2>2, <2>3, <2>4, <2>5 DEF Sound
  <1>2. Tracks' /\ Extends'
    BY DEF FilesInv, Tracks, Extends, Running, files
  <1>3. index' = index
    BY DEF files
  <1>. QED
    BY <1>1, <1>2, <1>3 DEF FilesInv

\* A step that stored a block, in memory and in the files.
LEMMA StoredKeeps ==
    ASSUME Stored, TreeTypes', ImportTypes', pc' \in {"idle", "flush", "rebuild"}
    PROVE  FilesInv'
  BY DEF Stored, FilesInv, Running

\* A header or a block from the network.
LEMMA NetworkKeeps ==
    ASSUME FilesInv, NEW b \in Blocks, AcceptBlockHeader(b) \/ AcceptBlock(b)
    PROVE  FilesInv'
  <1>0. /\ pc = "idle" /\ b # Genesis /\ index[Parent[b]] # None
        /\ FileTypes /\ TreeTypes /\ ImportTypes /\ Sound /\ Tracks /\ Extends
    BY DEF AcceptBlockHeader, AcceptBlock, FilesInv, Running
  <1>1. index[Genesis] # None
    BY <1>0, BlockFilesAssumption DEF Sound, Rooted
  <1>2. CASE AcceptBlockHeader(b)
    <2>1. /\ NoData \in Entry /\ NoData # None /\ NoData.at = None /\ NoData.undo = None
      BY NoneAssumption, SMT DEF NoData, Entry
    <2>2. /\ index[b] = None /\ index' = [index EXCEPT ![b] = NoData]
          /\ dirtyBlocks' = dirtyBlocks \cup {b}
          /\ pc' = "idle"
          /\ UNCHANGED <<vinfo, lastFile, dirtyFiles, blk, rev, tree, import>>
      BY <1>2 DEF AcceptBlockHeader
    <2>3. /\ index' \in [Blocks -> Entry] /\ index'[b] = NoData
          /\ \A c \in Blocks : c # b => index'[c] = index[c]
      BY <1>0, <2>1, <2>2 DEF FileTypes
    <2>4. FileTypes' /\ TreeTypes' /\ ImportTypes'
      BY <1>0, <2>2, <2>3 DEF FileTypes, TreeTypes, ImportTypes
    <2>5. index'[Genesis] # None
      BY <1>0, <1>1, <2>3, BlockFilesAssumption
    <2>6. Agrees(index)' /\ Covers(index, vinfo)' /\ Rooted(index, vinfo)'
      BY <1>0, <2>1, <2>2, <2>3, <2>5 DEF Sound, Agrees, Covers, Rooted
    <2>7. Agrees(tree.index)' /\ Covers(tree.index, tree.vinfo)' /\ Rooted(tree.index, tree.vinfo)'
      BY <1>0, <2>2 DEF Sound, Agrees, Covers, Rooted
    <2>8. Tracks' /\ Extends'
      BY <1>0, <2>2, <2>3 DEF Tracks, Extends
    <2>. QED
      BY <2>2, <2>4, <2>5, <2>6, <2>7, <2>8 DEF FilesInv, Sound
  <1>3. CASE AcceptBlock(b)
    <2>1. /\ ~HaveData(b) /\ StoreNew(b) /\ pc' = "flush" /\ UNCHANGED <<import, tree>>
      BY <1>3 DEF AcceptBlock
    <2>2. Stored
      BY <1>0, <1>1, <2>1, StoreNewKeeps
    <2>3. TreeTypes' /\ ImportTypes'
      BY <1>0, <2>1 DEF TreeTypes, ImportTypes
    <2>. QED
      BY <2>1, <2>2, <2>3, StoredKeeps
  <1>. QED
    BY <1>2, <1>3

\* A block connected, with its undo data, or disconnected.
LEMMA TipKeeps ==
    ASSUME FilesInv, DisconnectTip \/ \E b \in Blocks : ConnectTip(b)
    PROVE  FilesInv'
  <1>0. /\ pc = "idle" /\ pc' = "flush" /\ UNCHANGED <<import, tree, lastFile, blk>>
        /\ FileTypes /\ TreeTypes /\ ImportTypes /\ Sound /\ Tracks /\ Extends
    BY DEF DisconnectTip, ConnectTip, FilesInv, Running, files
  <1>1. TreeTypes' /\ ImportTypes'
    BY <1>0 DEF TreeTypes, ImportTypes
  <1>2. CASE UNCHANGED <<files, blk, rev>>
    BY <1>0, <1>1, <1>2, QuietKeeps DEF FilesInv, Running
  <1>3. ASSUME NEW b \in Blocks, ConnectTip(b), ~UNCHANGED <<files, blk, rev>>
        PROVE  FilesInv'
    <2>1. HaveData(b) /\ ~HaveUndo(b) /\ WriteUndo(b)
      BY <1>0, <1>3 DEF ConnectTip, files
    <2>2. /\ FileTypes' /\ Sound' /\ Tracks' /\ Extends'
          /\ index[Genesis] # None => index'[Genesis] # None
      BY <1>0, <2>1, WriteUndoKeeps
    <2>. QED
      BY <1>0, <1>1, <2>2 DEF FilesInv
  <1>4. CASE DisconnectTip
    BY <1>2, <1>4 DEF DisconnectTip
  <1>. QED
    BY <1>2, <1>3, <1>4

\* The first part of FlushStateToDisk, and pruneblockchain.
LEMMA PruningKeeps ==
    ASSUME FilesInv,
           \/ \E write, full \in BOOLEAN : FlushStateToDisk(write, full)
           \/ \E h \in {Height[b] : b \in Blocks} : PruneBlockchain(h)
    PROVE  FilesInv'
  <1>1. PICK P \in SUBSET Files :
            /\ pc \in {"idle", "flush"}
            /\ PruneFiles(P)
            /\ flush'.unlink = P
            /\ pc' = "write" \/ (pc' = "idle" /\ P = {})
            /\ UNCHANGED <<lastFile, import, blk, rev, tree>>
    <2>0. FilesToPrune \subseteq Files /\ \A h : FilesToPruneManual(h) \subseteq Files
      BY PruneOldFiles DEF FilesInv
    <2>1. ASSUME NEW write \in BOOLEAN, NEW full \in BOOLEAN, FlushStateToDisk(write, full)
          PROVE  \E P \in SUBSET Files :
                    /\ pc \in {"idle", "flush"}
                    /\ PruneFiles(P)
                    /\ flush'.unlink = P
                    /\ pc' = "write" \/ (pc' = "idle" /\ P = {})
                    /\ UNCHANGED <<lastFile, import, blk, rev, tree>>
      <3>. DEFINE P == IF check /\ ~reindex THEN FilesToPrune ELSE {}
      <3>1. P \in SUBSET Files
        BY <2>0
      <3>2. /\ pc \in {"idle", "flush"} /\ PruneFiles(P)
            /\ flush' = [unlink |-> P, full |-> full \/ P # {}]
            /\ pc' = IF write \/ P # {} THEN "write" ELSE "idle"
            /\ UNCHANGED <<lastFile, import, blk, rev, tree>>
        BY <2>1 DEF FlushStateToDisk
      <3>. HIDE DEF P
      <3>3. flush'.unlink = P
        BY <3>2
      <3>4. pc' = "write" \/ (pc' = "idle" /\ P = {})
        BY <3>2
      <3>. QED
        BY <3>1, <3>2, <3>3, <3>4
    <2>2. ASSUME NEW h, PruneBlockchain(h)
          PROVE  \E P \in SUBSET Files :
                    /\ pc \in {"idle", "flush"}
                    /\ PruneFiles(P)
                    /\ flush'.unlink = P
                    /\ pc' = "write" \/ (pc' = "idle" /\ P = {})
                    /\ UNCHANGED <<lastFile, import, blk, rev, tree>>
      <3>. DEFINE P == FilesToPruneManual(Min({h, LastBlockWeCanPrune}))
      <3>1. P \in SUBSET Files
        BY <2>0
      <3>2. /\ pc = "idle" /\ PruneFiles(P)
            /\ flush' = [unlink |-> P, full |-> TRUE]
            /\ pc' = "write"
            /\ UNCHANGED <<lastFile, import, blk, rev, tree>>
        BY <2>2 DEF PruneBlockchain
      <3>. HIDE DEF P
      <3>3. flush'.unlink = P
        BY <3>2
      <3>. QED
        BY <3>1, <3>2, <3>3
    <2>. QED
      BY <2>1, <2>2
  <1>2. FileTypes /\ TreeTypes /\ ImportTypes /\ Sound /\ Tracks /\ Extends
    BY <1>1 DEF FilesInv, Running
  <1>3. /\ FileTypes' /\ Sound' /\ Tracks'
        /\ index[Genesis] # None => index'[Genesis] # None
        /\ \A f \in P, b \in Blocks :
              index'[b] # None => (index'[b].at # None => index'[b].at.file # f)
        /\ P = {} => Extends'
    BY <1>1, <1>2, PruneKeeps
  <1>4. TreeTypes' /\ ImportTypes' /\ Unnamed'
    BY <1>1, <1>2, <1>3 DEF TreeTypes, ImportTypes, Unnamed
  <1>. QED
    BY <1>1, <1>3, <1>4 DEF FilesInv

\* WriteBatchSync: all that differs is dirty, so the database becomes what memory is.
LEMMA WriteKeeps ==
    ASSUME FilesInv, WriteBlockIndex
    PROVE  FilesInv'
  <1>0. /\ FileTypes /\ TreeTypes /\ ImportTypes /\ Sound /\ Tracks /\ Unnamed
        /\ pc' = "unlink"
        /\ UNCHANGED <<index, vinfo, lastFile, import, flush, blk, rev>>
    BY DEF FilesInv, Running, WriteBlockIndex
  <1>1. /\ tree'.index = [b \in Blocks |-> IF b \in dirtyBlocks THEN index[b] ELSE tree.index[b]]
        /\ tree'.vinfo = [f \in Files |-> IF f \in dirtyFiles THEN vinfo[f] ELSE tree.vinfo[f]]
        /\ tree'.lastFile = lastFile /\ tree'.reindexing = tree.reindexing
    BY <1>0 DEF WriteBlockIndex, TreeTypes
  <1>2. /\ tree'.index = index
        /\ tree'.vinfo = vinfo
    BY <1>0, <1>1 DEF Tracks, FileTypes
  <1>3. TreeTypes'
    <2>1. tree' = [index |-> tree'.index, vinfo |-> tree'.vinfo,
                   lastFile |-> tree'.lastFile, reindexing |-> tree'.reindexing]
      BY <1>0 DEF WriteBlockIndex, TreeTypes
    <2>. QED
      BY <1>0, <1>1, <1>2, <2>1 DEF TreeTypes, FileTypes
  <1>4. FileTypes' /\ ImportTypes' /\ Unnamed'
    BY <1>0 DEF FileTypes, ImportTypes, Unnamed
  <1>5. Sound'
    BY <1>0, <1>2 DEF Sound, Agrees, Covers, Rooted
  <1>6. Tracks' /\ Extends'
    BY <1>0, <1>2 DEF Tracks, Extends
  <1>. QED
    BY <1>0, <1>3, <1>4, <1>5, <1>6 DEF FilesInv

\* UnlinkPrunedFiles: no index names the file any more.
LEMMA UnlinkKeeps ==
    ASSUME FilesInv, UnlinkPrunedFile
    PROVE  FilesInv'
  <1>0. /\ FileTypes /\ TreeTypes /\ ImportTypes /\ Sound /\ Tracks /\ Extends /\ Unnamed
        /\ pc = "unlink"
        /\ UNCHANGED <<pc, files, import, tree>>
    BY DEF FilesInv, Running, UnlinkPrunedFile
  <1>1. PICK f \in flush.unlink :
            /\ blk' = [blk EXCEPT ![f] = [s \in Slots |-> None]]
            /\ rev' = [rev EXCEPT ![f] = [s \in Slots |-> None]]
            /\ flush' = [flush EXCEPT !.unlink = @ \ {f}]
    BY DEF UnlinkPrunedFile
  <1>2. index' = index /\ vinfo' = vinfo /\ lastFile' = lastFile
        /\ dirtyBlocks' = dirtyBlocks /\ dirtyFiles' = dirtyFiles
    BY <1>0 DEF files
  <1>3. FileTypes' /\ TreeTypes' /\ ImportTypes'
    BY <1>0, <1>1, <1>2 DEF FileTypes, TreeTypes, ImportTypes, Unnamed
  <1>4. \A g \in Files \ {f} : blk'[g] = blk[g] /\ rev'[g] = rev[g]
    BY <1>0, <1>1 DEF FileTypes
  <1>5. \A c \in Blocks : index[c] # None =>
            /\ index[c].at # None => index[c].at \in Position
            /\ index[c].undo # None => index[c].undo \in Slots
    BY <1>0, EntryTypes
  <1>6. \A c \in Blocks : index[c] # None /\ index[c].at # None => index[c].at.file \in Files \ {f}
    BY <1>0, <1>1, <1>5 DEF Unnamed, Position
  <1>7. \A c \in Blocks : index[c] # None =>
            /\ index[c].at # None =>
                  blk'[index[c].at.file][index[c].at.slot] = blk[index[c].at.file][index[c].at.slot]
            /\ index[c].undo # None =>
                  rev'[index[c].at.file][index[c].undo] = rev[index[c].at.file][index[c].undo]
    BY <1>0, <1>4, <1>6 DEF Sound, Covers
  <1>8. Agrees(index)'
    BY <1>0, <1>2, <1>7 DEF Sound, Agrees
  <1>9. Agrees(tree.index)'
    BY <1>0, <1>7, TreeStillAgrees
  <1>10. Sound' /\ Tracks' /\ Extends'
    BY <1>0, <1>2, <1>8, <1>9 DEF Sound, Covers, Rooted, Tracks, Extends
  <1>11. Unnamed'
    <2>1. flush'.unlink \subseteq flush.unlink
      <3>1. CASE "unlink" \in DOMAIN flush
        BY <1>1, <3>1
      <3>2. CASE "unlink" \notin DOMAIN flush
        BY <1>1, <3>2, SMT
      <3>. QED
        BY <3>1, <3>2
    <2>. QED
      BY <1>0, <1>2, <2>1 DEF Unnamed
  <1>. QED
    BY <1>0, <1>2, <1>3, <1>10, <1>11 DEF FilesInv

\* The coins are written to a database of their own.
LEMMA CoinsKeep ==
    ASSUME FilesInv, FlushCoins \/ FlushCoinsDone
    PROVE  FilesInv'
  <1>1. /\ pc \in {"unlink", "coins"} /\ pc' \in {"coins", "idle"}
        /\ UNCHANGED <<files, blk, rev, tree, import>>
    BY DEF FlushCoins, FlushCoinsDone
  <1>2. TreeTypes' /\ ImportTypes'
    BY <1>1 DEF FilesInv, TreeTypes, ImportTypes
  <1>. QED
    BY <1>1, <1>2, QuietKeeps DEF FilesInv, Running

\* The process ends.
LEMMA StopKeeps ==
    ASSUME FilesInv, Crash \/ Shutdown
    PROVE  FilesInv'
  <1>1. pc' = "down" /\ Blank /\ UNCHANGED <<blk, rev, tree>>
    BY DEF Crash, Shutdown
  <1>. QED
    BY <1>1, BlankKeeps DEF FilesInv, Running

\* The load at startup, or its refusal.
LEMMA RestartKeeps ==
    ASSUME FilesInv, Restart
    PROVE  FilesInv'
  <1>0. FileTypes /\ TreeTypes /\ Sound /\ UNCHANGED <<blk, rev, tree>>
    BY DEF FilesInv, Restart
  <1>1. CASE Blank
    <2>1. \/ pc' = "rebuild"
          \/ pc' = "genesis" /\ tree'.index[Genesis] = None
          \/ pc' \in {"idle", "flush"} /\ index' = tree.index /\ vinfo' = tree.vinfo
      BY <1>0 DEF Restart
    <2>2. /\ FileTypes' /\ TreeTypes' /\ ImportTypes' /\ Sound'
          /\ index'[Genesis] = None /\ import'.queue = <<>>
      BY <1>0, <1>1, BlankKeeps
    <2>3. CASE pc' \in {"rebuild", "genesis"}
      BY <2>1, <2>2, <2>3 DEF FilesInv, Running
    <2>4. CASE pc' \in {"idle", "flush"} /\ index' = tree.index /\ vinfo' = tree.vinfo
      BY <1>0, <2>2, <2>4 DEF FilesInv, Running, Tracks, Extends
    <2>. QED
      BY <2>1, <2>3, <2>4
  <1>2. CASE ~Blank
    <2>1. /\ index' = tree.index /\ vinfo' = tree.vinfo /\ lastFile' = tree.lastFile
          /\ pc' \in {"idle", "flush"} /\ import' = NoImport
      BY <1>2 DEF Restart
    <2>2. FileTypes' /\ TreeTypes'
      BY <1>0, <2>1 DEF FileTypes, TreeTypes
    <2>3. ImportTypes' /\ import'.queue = <<>>
      BY <2>1 DEF ImportTypes, NoImport
    <2>4. Sound' /\ Tracks' /\ Extends'
      BY <1>0, <2>1 DEF Sound, Agrees, Covers, Rooted, Tracks, Extends
    <2>. QED
      BY <2>1, <2>2, <2>3, <2>4 DEF FilesInv, Running
  <1>. QED
    BY <1>1, <1>2

\* LoadGenesisBlock: there is nothing the first block could overwrite.
LEMMA GenesisKeeps ==
    ASSUME FilesInv, RestartWithGenesis
    PROVE  FilesInv'
  <1>0. /\ FileTypes /\ TreeTypes /\ ImportTypes /\ Sound
        /\ index[Genesis] = None /\ tree.index[Genesis] = None
        /\ StoreNew(Genesis) /\ pc' \in {"flush", "rebuild"} /\ UNCHANGED <<import, tree>>
    BY DEF FilesInv, RestartWithGenesis
  <1>1. Tracks /\ Extends
    BY <1>0 DEF Sound, Rooted, Tracks, Extends
  <1>2. Genesis \in Blocks /\ ~HaveData(Genesis)
    BY <1>0, BlockFilesAssumption DEF HaveData
  <1>3. Stored
    BY <1>0, <1>1, <1>2, StoreNewKeeps
  <1>4. TreeTypes' /\ ImportTypes'
    BY <1>0 DEF TreeTypes, ImportTypes
  <1>. QED
    BY <1>0, <1>3, <1>4, StoredKeeps

\* The databases are emptied before files go.
LEMMA WipeKeeps ==
    ASSUME FilesInv, WipeTree \/ CleanupBlockRevFiles \/ WipeCoins
    PROVE  FilesInv'
  <1>0. FileTypes /\ TreeTypes /\ ImportTypes /\ Sound
    BY DEF FilesInv
  <1>1. CASE WipeTree
    <2>1. /\ Blank /\ pc' = "wiped" /\ UNCHANGED <<blk, rev>>
          /\ tree' = [index |-> [b \in Blocks |-> None], vinfo |-> [f \in Files |-> NoInfo],
                      lastFile |-> 0, reindexing |-> FALSE]
      BY <1>1 DEF WipeTree
    <2>2. /\ tree'.index = [b \in Blocks |-> None] /\ tree'.vinfo = [f \in Files |-> NoInfo]
          /\ index' = [b \in Blocks |-> None] /\ vinfo' = [f \in Files |-> NoInfo]
          /\ lastFile' = 0 /\ import' = NoImport
      BY <2>1 DEF Blank
    <2>3. 0 \in Files /\ NoInfo \in Sizes /\ None \in Entry /\ Genesis \in Blocks
      BY BlockFilesAssumption, SMT DEF Files, NoInfo, Sizes, Entry
    <2>4. FileTypes'
      BY <1>0, <2>1, <2>2, <2>3 DEF FileTypes
    <2>5. TreeTypes'
      BY <2>1, <2>3 DEF TreeTypes
    <2>6. ImportTypes' /\ import'.queue = <<>>
      BY <2>2 DEF ImportTypes, NoImport
    <2>7. Sound' /\ index'[Genesis] = None /\ tree'.index[Genesis] = None
      BY <2>2, <2>3 DEF Sound, Agrees, Covers, Rooted
    <2>. QED
      BY <2>1, <2>4, <2>5, <2>6, <2>7 DEF FilesInv, Running
  <1>2. CASE CleanupBlockRevFiles
    <2>1. /\ pc = "wiped" /\ pc' = "cleaned"
          /\ index[Genesis] = None /\ tree.index[Genesis] = None
          /\ tree' = [tree EXCEPT !.reindexing = TRUE]
          /\ rev' = [f \in Files |-> [s \in Slots |-> None]]
          /\ blk' = [f \in Files |-> IF \A g \in 0..f : Exists(g) THEN blk[f] ELSE [s \in Slots |-> None]]
          /\ UNCHANGED <<index, vinfo, lastFile, import>>
      BY <1>2 DEF CleanupBlockRevFiles, FilesInv, files
    <2>2. TreeTypes' /\ tree'.index = tree.index /\ tree'.vinfo = tree.vinfo
      BY <1>0, <2>1 DEF TreeTypes
    <2>3. blk' \in [Files -> [Slots -> Blocks \cup {None}]]
      <3>1. \A f \in Files : blk'[f] = blk[f] \/ blk'[f] = [s \in Slots |-> None]
        BY <2>1
      <3>2. DOMAIN blk' = Files /\ blk' = [f \in Files |-> blk'[f]]
        BY <2>1
      <3>. QED
        BY <1>0, <3>1, <3>2, SMT DEF FileTypes
    <2>4. FileTypes' /\ ImportTypes'
      BY <1>0, <2>1, <2>3 DEF FileTypes, ImportTypes
    <2>5. \A b \in Blocks : index[b] = None /\ tree.index[b] = None
      BY <1>0, <2>1 DEF Sound, Rooted
    <2>6. Sound'
      BY <1>0, <2>1, <2>2, <2>5 DEF Sound, Agrees, Covers, Rooted
    <2>. QED
      BY <2>1, <2>2, <2>4, <2>6 DEF FilesInv, Running
  <1>3. CASE WipeCoins
    <2>1. /\ index[Genesis] = None /\ tree.index[Genesis] = None
          /\ pc' = "idle" /\ UNCHANGED <<files, import, blk, rev, tree>>
      BY <1>3 DEF WipeCoins, FilesInv
    <2>2. FileTypes' /\ TreeTypes' /\ ImportTypes' /\ Sound'
      BY <1>0, <2>1 DEF FileTypes, TreeTypes, ImportTypes, Sound, Agrees, Covers, Rooted, files
    <2>3. Tracks /\ Extends
      BY <1>0, <2>1 DEF Sound, Rooted, Tracks, Extends
    <2>4. Tracks' /\ Extends'
      BY <2>1, <2>3 DEF Tracks, Extends, files
    <2>. QED
      BY <2>1, <2>2, <2>4 DEF FilesInv, files
  <1>. QED
    BY <1>1, <1>2, <1>3

\* AcceptBlock of a block found on disk, when the genesis block is known or is that block.
LEMMA AcceptKnownKeeps ==
    ASSUME FilesInv, Importing, NEW b \in Blocks, NEW p \in Position, blk[p.file][p.slot] = b,
           b = Genesis \/ index[Genesis] # None, AcceptKnown(b, p), ImportTypes'
    PROVE  FilesInv'
  <1>0. /\ FileTypes /\ TreeTypes /\ Sound /\ Tracks /\ Extends /\ pc = "idle"
        /\ UNCHANGED tree
    BY DEF FilesInv, Running, Importing, AcceptKnown
  <1>1. TreeTypes'
    BY <1>0 DEF TreeTypes
  <1>2. CASE HaveData(b)
    <2>1. pc' = pc /\ UNCHANGED <<files, blk, rev>>
      BY <1>2 DEF AcceptKnown
    <2>2. index[Genesis] # None
      BY <1>2 DEF HaveData
    <2>. QED
      BY <1>0, <1>1, <2>1, <2>2, QuietKeeps DEF Running
  <1>3. CASE ~HaveData(b)
    <2>1. StoreKnown(b, p) /\ pc' \in {"idle", "flush"}
      BY <1>0, <1>3 DEF AcceptKnown
    <2>2. Stored
      BY <1>0, <1>3, <2>1, StoreKnownKeeps
    <2>. QED
      BY <1>1, <2>1, <2>2, StoredKeeps
  <1>. QED
    BY <1>2, <1>3

\* LoadExternalBlockFile and ThreadImport.
LEMMA ImportKeeps ==
    ASSUME FilesInv, ImportBlock \/ ImportChild \/ ImportNextFile \/ ImportDone
    PROVE  FilesInv'
  <1>0. /\ FileTypes /\ TreeTypes /\ ImportTypes /\ Sound /\ Tracks /\ Extends
        /\ Importing /\ pc = "idle" /\ Running
        /\ import.queue # <<>> => index[Genesis] # None
    BY DEF FilesInv, Running, Importing, ImportBlock, ImportChild, ImportNextFile, ImportDone
  <1>1. ASSUME UNCHANGED <<pc, files, blk, rev, tree>>, ImportTypes',
               import'.queue # <<>> => import.queue # <<>>
        PROVE  FilesInv'
    <2>1. TreeTypes'
      BY <1>0, <1>1 DEF TreeTypes
    <2>. QED
      BY <1>0, <1>1, <2>1, QuietKeeps
  <1>2. CASE ImportBlock
    <2>. DEFINE b == blk[import.file][import.slot]
                pos == [file |-> import.file, slot |-> import.slot]
    <2>0. /\ import.queue = <<>> /\ pos \in Position
          /\ b \in Blocks \cup {None} /\ blk[pos.file][pos.slot] = b
      <3>1. import.queue = <<>> /\ import.file \in Files /\ import.slot \in Slots
        BY <1>2 DEF ImportBlock
      <3>2. pos \in Position
        BY <3>1 DEF Position
      <3>3. b \in Blocks \cup {None}
        BY <1>0, <3>1, SMT DEF FileTypes
      <3>4. blk[pos.file][pos.slot] = b
        OBVIOUS
      <3>. QED
        BY <3>1, <3>2, <3>3, <3>4
    <2>1. CASE /\ import' = [import EXCEPT !.slot = @ + 1]
               /\ UNCHANGED <<pc, tip, files, check, reindex, flush, blk, rev, tree, coins, count>>
      <3>1. ImportTypes' /\ import'.queue = import.queue
        BY <1>0, <2>1 DEF ImportTypes
      <3>. QED
        BY <1>1, <2>1, <3>1
    <2>2. CASE /\ import' = [import EXCEPT !.slot = @ + 1, !.unknown = @ \cup {[parent |-> Parent[b], at |-> pos]}]
               /\ UNCHANGED <<pc, tip, files, check, reindex, flush, blk, rev, tree, coins, count>>
      <3>1. /\ import'.unknown = import.unknown \cup {[parent |-> Parent[b], at |-> pos]}
            /\ import'.queue = import.queue
            /\ DOMAIN import' = DOMAIN import
        <4>. DEFINE unknown == import.unknown \cup {[parent |-> Parent[b], at |-> pos]}
        <4>1. import' = [import EXCEPT !.slot = @ + 1, !.unknown = unknown]
          BY <2>2
        <4>. HIDE DEF unknown
        <4>2. import'.unknown = unknown /\ import'.queue = import.queue /\ DOMAIN import' = DOMAIN import
          BY <1>0, <4>1 DEF ImportTypes
        <4>. QED
          BY <4>2 DEF unknown
      <3>2. ImportTypes'
        <4>. HIDE DEF b, pos
        <4>. QED
          BY <1>0, <2>0, <3>1, SMT DEF ImportTypes
      <3>. QED
        BY <1>1, <2>2, <3>1, <3>2
    <2>3. CASE /\ b # None
               /\ b # Genesis => index[Parent[b]] # None
               /\ import' = [import EXCEPT !.slot = @ + 1, !.queue = <<b>>]
               /\ AcceptKnown(b, pos)
      <3>1. ImportTypes'
        BY <1>0, <2>3 DEF ImportTypes
      <3>2. b = Genesis \/ index[Genesis] # None
        BY <1>0, <2>0, <2>3, BlockFilesAssumption DEF Sound, Rooted
      <3>3. b \in Blocks /\ AcceptKnown(b, pos)
        BY <2>0, <2>3
      <3>. HIDE DEF b, pos
      <3>. QED
        BY <1>0, <2>0, <3>1, <3>2, <3>3, AcceptKnownKeeps
    <2>. QED
      BY <1>0, <1>2, <2>1, <2>2, <2>3 DEF ImportBlock, ImportTypes
  <1>3. CASE ImportChild
    <2>0. import.queue # <<>> /\ index[Genesis] # None
      BY <1>0, <1>3 DEF ImportChild
    <2>1. CASE /\ import' = [import EXCEPT !.queue = Tail(@)]
               /\ UNCHANGED <<pc, tip, files, check, reindex, flush, blk, rev, tree, coins, count>>
      <3>1. ImportTypes'
        BY <1>0, <2>1 DEF ImportTypes
      <3>. QED
        BY <1>1, <2>0, <2>1, <3>1
    <2>2. ASSUME NEW e \in import.unknown,
                 LET c == blk[e.at.file][e.at.slot]
                 IN  /\ c # None
                     /\ import' = [import EXCEPT !.unknown = @ \ {e}, !.queue = Append(@, c)]
                     /\ AcceptKnown(c, e.at)
          PROVE  FilesInv'
      <3>. DEFINE c == blk[e.at.file][e.at.slot]
      <3>1. e.at \in Position /\ c \in Blocks /\ AcceptKnown(c, e.at)
        BY <1>0, <2>2, SMT DEF ImportTypes, FileTypes, Position
      <3>2. ImportTypes'
        BY <1>0, <2>2 DEF ImportTypes
      <3>3. blk[e.at.file][e.at.slot] = c
        OBVIOUS
      <3>. HIDE DEF c
      <3>. QED
        BY <1>0, <2>0, <3>1, <3>2, <3>3, AcceptKnownKeeps
    <2>. QED
      BY <1>3, <2>1, <2>2 DEF ImportChild
  <1>4. CASE ImportNextFile
    <2>1. /\ import' = [import EXCEPT !.file = @ + 1, !.slot = 0]
          /\ UNCHANGED <<pc, files, blk, rev, tree>>
      BY <1>4 DEF ImportNextFile
    <2>2. ImportTypes' /\ import'.queue = import.queue
      BY <1>0, <2>1 DEF ImportTypes
    <2>. QED
      BY <1>1, <2>1, <2>2
  <1>5. CASE ImportDone
    <2>1. /\ tree' = [tree EXCEPT !.reindexing = FALSE] /\ import' = NoImport /\ pc' = pc
      BY <1>5 DEF ImportDone
    <2>2. TreeTypes' /\ tree'.index = tree.index /\ tree'.vinfo = tree.vinfo
      BY <1>0, <2>1 DEF TreeTypes
    <2>3. ImportTypes' /\ import'.queue = <<>>
      BY <2>1 DEF ImportTypes, NoImport
    <2>4. CASE index[Genesis] = None
      <3>1. StoreNew(Genesis) /\ Genesis \in Blocks /\ ~HaveData(Genesis)
        BY <1>5, <2>4, BlockFilesAssumption DEF ImportDone, HaveData
      <3>2. Stored
        BY <1>0, <2>2, <3>1, StoreNewKeeps
      <3>. QED
        BY <1>0, <2>1, <2>2, <2>3, <3>2, StoredKeeps
    <2>5. CASE index[Genesis] # None
      <3>1. UNCHANGED <<files, blk, rev>>
        BY <1>5, <2>5 DEF ImportDone
      <3>. QED
        BY <1>0, <2>1, <2>2, <2>3, <3>1, QuietKeeps
    <2>. QED
      BY <2>4, <2>5
  <1>. QED
    BY <1>2, <1>3, <1>4, <1>5

-----------------------------------------------------------------------------
\* A node that has the headers and the genesis block satisfies the invariant.
LEMMA FilesInitially ==
    ASSUME Init, Cardinality(Blocks) \in Nat \ {0}
    PROVE  FilesInv
  <1>0. /\ Genesis \in Blocks /\ 0 \in Files /\ 0 \in Slots
        /\ [file |-> 0, slot |-> 0] \in Position
    BY BlockFilesAssumption, SMT DEF Files, Slots, Position
  <1>. DEFINE first == [at |-> [file |-> 0, slot |-> 0], undo |-> None]
  <1>1. first \in Entry /\ first # None /\ NoData \in Entry /\ NoData # None
    BY <1>0, EntryFacts
  <1>2. index = [b \in Blocks |-> IF b = Genesis THEN first ELSE NoData]
    BY SMT DEF Init, NoData
  <1>3. first.at = [file |-> 0, slot |-> 0] /\ first.undo = None /\ NoData.at = None /\ NoData.undo = None
    BY DEF NoData
  <1>4. NoInfo \in Sizes /\ [NoInfo EXCEPT !.size = 1] \in Sizes /\ [NoInfo EXCEPT !.size = 1].size = 1
    BY DEF NoInfo, Sizes
  <1>. HIDE DEF first
  <1>5. FileTypes
    BY <1>0, <1>1, <1>2, <1>4 DEF Init, FileTypes
  <1>6. /\ tree = [index |-> index, vinfo |-> vinfo, lastFile |-> 0, reindexing |-> FALSE]
        /\ tree.index = index /\ tree.vinfo = vinfo
    BY DEF Init
  <1>7. TreeTypes
    BY <1>0, <1>5, <1>6 DEF TreeTypes, FileTypes
  <1>8. ImportTypes /\ import.queue = <<>>
    BY DEF Init, ImportTypes, NoImport
  <1>9. blk[0][0] = Genesis /\ vinfo[0].size = 1
    BY <1>0, <1>4 DEF Init
  <1>10. Agrees(index) /\ Covers(index, vinfo)
    <2>1. \A b \in Blocks : index[b] = IF b = Genesis THEN first ELSE NoData
      BY <1>2
    <2>2. first.at.file = 0 /\ first.at.slot = 0
      BY <1>3, SMT
    <2>3. Agrees(index)
      BY <1>3, <1>9, <2>1, <2>2 DEF Agrees
    <2>4. Covers(index, vinfo)
      <3>1. first.at.slot < vinfo[first.at.file].size
        BY <1>9, <2>2, SMT
      <3>. QED
        BY <1>3, <2>1, <3>1 DEF Covers
    <2>. QED
      BY <2>3, <2>4
  <1>11. Rooted(index, vinfo)
    BY <1>0, <1>1, <1>2 DEF Rooted
  <1>12. Sound
    BY <1>6, <1>10, <1>11 DEF Sound
  <1>13. Tracks /\ Extends
    BY <1>6 DEF Tracks, Extends
  <1>14. pc = "idle"
    BY DEF Init
  <1>. QED
    BY <1>5, <1>7, <1>8, <1>12, <1>13, <1>14 DEF FilesInv

\* Every step keeps the invariant.
LEMMA FilesStep ==
    ASSUME FilesInv, [Next]_vars
    PROVE  FilesInv'
  <1>1. CASE \E b \in Blocks : AcceptBlockHeader(b) \/ AcceptBlock(b)
    BY <1>1, NetworkKeeps
  <1>2. CASE DisconnectTip \/ \E b \in Blocks : ConnectTip(b)
    BY <1>2, TipKeeps
  <1>3. CASE \/ \E write, full \in BOOLEAN : FlushStateToDisk(write, full)
             \/ \E h \in {Height[b] : b \in Blocks} : PruneBlockchain(h)
    BY <1>3, PruningKeeps
  <1>4. CASE WriteBlockIndex
    BY <1>4, WriteKeeps
  <1>5. CASE UnlinkPrunedFile
    BY <1>5, UnlinkKeeps
  <1>6. CASE FlushCoins \/ FlushCoinsDone
    BY <1>6, CoinsKeep
  <1>7. CASE Shutdown \/ Crash
    BY <1>7, StopKeeps
  <1>8. CASE Restart
    BY <1>8, RestartKeeps
  <1>9. CASE RestartWithGenesis
    BY <1>9, GenesisKeeps
  <1>10. CASE WipeTree \/ CleanupBlockRevFiles \/ WipeCoins
    BY <1>10, WipeKeeps
  <1>11. CASE ImportBlock \/ ImportChild \/ ImportNextFile \/ ImportDone
    BY <1>11, ImportKeeps
  <1>12. CASE UNCHANGED vars
    BY <1>12 DEF vars, files, FilesInv, FileTypes, TreeTypes, ImportTypes, Sound, Agrees, Covers,
                 Rooted, Tracks, Extends, Running, Unnamed
  <1>. QED
    BY <1>1, <1>2, <1>3, <1>4, <1>5, <1>6, <1>7, <1>8, <1>9, <1>10, <1>11, <1>12 DEF Next

\* Whatever the tree of blocks, the size of the files, the pruning parameters and
\* the number of crashes and reindexes: what the index in memory or in the database
\* names is in the files, at the place it names.
THEOREM AlwaysReadable == Spec => []BlocksReadable
  <1>1. Init => FilesInv
    <2>1. Cardinality(Blocks) \in Nat \ {0}
      BY FS_CardinalityType, FS_EmptySet, BlockFilesAssumption
    <2>. QED
      BY <2>1, FilesInitially
  <1>2. FilesInv /\ [Next]_vars => FilesInv'
    BY FilesStep
  <1>3. FilesInv => BlocksReadable
    BY DEF FilesInv, Sound, BlocksReadable
  <1>. QED
    BY <1>1, <1>2, <1>3, PTL DEF Spec

-----------------------------------------------------------------------------
(* The undo data of the active chain. *)

\* An entry with the positions of the block and of its undo data.
HasUndo(entry) == entry # None /\ entry.at # None /\ entry.undo # None

\* Of the branch that ends in t, what is higher than low can be undone.
Undoable(entries, t, low) ==
    \A b \in Chain[t] \ {Genesis} : Height[b] > low => HasUndo(entries[b])

\* No file has a block above the height that its info gives.
Reaches(entries, info) ==
    \A b \in Blocks : entries[b] # None =>
        (entries[b].at # None => Height[b] <= info[entries[b].at.file].heightLast)

\* The branches that the coins may come back with can be undone by the index in
\* memory and by the one in the database, as far as pruning was not allowed to go;
\* so can the active chain, and it is what the coins are flushed to once nothing is
\* dirty.  A database without the genesis block was wiped, and is not used with coins.
UndoInv ==
    /\ tip \in Blocks \cup {None}
    /\ coins \in [best : Blocks \cup {None}, old : Blocks \cup {None}]
    /\ DOMAIN count = {"crashes", "reindexes", "pruned"} /\ count.pruned \in Nat
    /\ Reaches(index, vinfo) /\ Reaches(tree.index, tree.vinfo)
    /\ Undoable(index, tip, count.pruned)
    /\ \A t \in {coins.best, coins.old} :
          /\ Running => Undoable(index, t, count.pruned)
          /\ tree.index[Genesis] # None => Undoable(tree.index, t, count.pruned)
    /\ pc = "unlink" => dirtyBlocks = {}

\* A non-empty set of blocks has a lowest one.
LEMMA LowestBlock ==
    ASSUME NEW S, S \subseteq Blocks, S # {}
    PROVE  \E b \in S : \A c \in S : Height[b] <= Height[c]
  <1>. DEFINE V == {Height[b] : b \in S}
              R == OpToRel(<, Nat)
  <1>0. \A b \in S : Height[b] \in Nat
    BY BlockFilesAssumption
  <1>1. V \subseteq Nat /\ V # {}
    BY <1>0
  <1>2. PICK m \in V : \A n \in V : <<n, m>> \notin R
    <2>1. IsWellFoundedOn(R, Nat)
      BY NatLessThanWellFounded
    <2>. HIDE DEF V, R
    <2>. QED
      BY <1>1, <2>1, WFMin
  <1>3. PICK b \in S : Height[b] = m
    OBVIOUS
  <1>4. ASSUME NEW c \in S
        PROVE  Height[b] <= Height[c]
    <2>1. Height[b] \in Nat /\ Height[c] \in Nat
      BY <1>0
    <2>2. Height[c] < Height[b] => <<Height[c], Height[b]>> \in R
      BY <2>1 DEF OpToRel
    <2>3. ~(Height[c] < Height[b])
      BY <1>2, <1>3, <2>2
    <2>. QED
      BY <2>1, <2>3, SMT
  <1>. QED
    BY <1>4

\* Chain is defined by recursion on the parents; the closure under parents solves
\* its equation.
LEMMA ChainFacts ==
    /\ Chain[None] = {} /\ Chain[Genesis] = {Genesis}
    /\ \A b \in Blocks \ {Genesis} : Chain[b] = {b} \cup Chain[Parent[b]]
  <1>. DEFINE Closed(S) == \A x \in S \ {Genesis} : Parent[x] \in S
              Closure(b) == {c \in Blocks : \A S \in SUBSET Blocks : b \in S /\ Closed(S) => c \in S}
              D == Blocks \cup {None}
              F == [b \in D |-> IF b = None THEN {} ELSE Closure(b)]
  <1>0. /\ Genesis \in Blocks /\ None \notin Blocks
        /\ \A b \in Blocks \ {Genesis} : Parent[b] \in Blocks
    BY BlockFilesAssumption, NoneAssumption
  <1>1. Closure(Genesis) = {Genesis}
    <2>1. Closed({Genesis})
      OBVIOUS
    <2>. QED
      BY <1>0, <2>1
  <1>2. ASSUME NEW b \in Blocks \ {Genesis}
        PROVE  Closure(b) = {b} \cup Closure(Parent[b])
    <2>1. Closed({b} \cup Closure(Parent[b]))
      <3>1. Parent[b] \in Closure(Parent[b])
        BY <1>0, <1>2
      <3>2. ASSUME NEW x \in Closure(Parent[b]), x # Genesis
            PROVE  Parent[x] \in Closure(Parent[b])
        <4>1. x \in Blocks /\ Parent[x] \in Blocks
          BY <1>0, <3>2
        <4>2. ASSUME NEW S \in SUBSET Blocks, Parent[b] \in S, Closed(S)
              PROVE  Parent[x] \in S
          BY <3>2, <4>2
        <4>. QED
          BY <4>1, <4>2
      <3>. HIDE DEF Closure
      <3>. QED
        BY <3>1, <3>2
    <2>2. {b} \cup Closure(Parent[b]) \subseteq Blocks
      BY <1>2
    <2>3. Closure(b) \subseteq {b} \cup Closure(Parent[b])
      <3>. DEFINE S == {b} \cup Closure(Parent[b])
      <3>1. S \in SUBSET Blocks /\ b \in S /\ Closed(S)
        BY <2>1, <2>2
      <3>. HIDE DEF S, Closed
      <3>2. Closure(b) \subseteq S
        BY <3>1
      <3>. QED
        BY <3>2 DEF S
    <2>4. ASSUME NEW c \in Closure(Parent[b])
          PROVE  c \in Closure(b)
      <3>1. ASSUME NEW S \in SUBSET Blocks, b \in S, Closed(S)
            PROVE  c \in S
        <4>1. Parent[b] \in S
          BY <1>2, <3>1
        <4>. QED
          BY <2>4, <3>1, <4>1
      <3>. QED
        BY <2>4, <3>1
    <2>5. b \in Closure(b)
      BY <1>2
    <2>. HIDE DEF Closure
    <2>. QED
      BY <2>3, <2>4, <2>5
  <1>. HIDE DEF Closure
  <1>3. F = [b \in D |-> IF b = None THEN {} ELSE IF b = Genesis THEN {Genesis} ELSE {b} \cup F[Parent[b]]]
    <2>1. ASSUME NEW b \in D
          PROVE  F[b] = IF b = None THEN {} ELSE IF b = Genesis THEN {Genesis} ELSE {b} \cup F[Parent[b]]
      <3>1. CASE b = None
        BY <3>1
      <3>2. CASE b = Genesis
        BY <1>0, <1>1, <3>2
      <3>3. CASE b \in Blocks \ {Genesis}
        <4>1. F[b] = Closure(b) /\ F[Parent[b]] = Closure(Parent[b])
          BY <1>0, <3>3
        <4>2. b # None
          BY <1>0, <3>3
        <4>. QED
          BY <1>2, <3>3, <4>1, <4>2
      <3>. QED
        BY <3>1, <3>2, <3>3
    <2>. DEFINE G == [b \in D |-> IF b = None THEN {} ELSE IF b = Genesis THEN {Genesis} ELSE {b} \cup F[Parent[b]]]
    <2>2. \A b \in D : G[b] = F[b]
      BY <2>1
    <2>3. F = [b \in D |-> F[b]] /\ G = [b \in D |-> G[b]]
      OBVIOUS
    <2>. QED
      BY <2>2, <2>3
  <1>4. Chain = [b \in D |-> IF b = None THEN {} ELSE IF b = Genesis THEN {Genesis} ELSE {b} \cup Chain[Parent[b]]]
    <2>. HIDE DEF F
    <2>. QED
      BY <1>3 DEF Chain
  <1>. QED
    BY <1>0, <1>4

\* A branch consists of blocks.
LEMMA ChainInBlocks ==
    ASSUME NEW t \in Blocks \cup {None}
    PROVE  Chain[t] \subseteq Blocks
  <1>. DEFINE Wrong == {b \in Blocks : ~(Chain[b] \subseteq Blocks)}
  <1>1. Wrong = {}
    <2>. SUFFICES ASSUME Wrong # {} PROVE FALSE
      OBVIOUS
    <2>1. PICK b \in Wrong : \A c \in Wrong : Height[b] <= Height[c]
      <3>1. Wrong \subseteq Blocks
        OBVIOUS
      <3>. HIDE DEF Wrong
      <3>. QED
        BY <3>1, LowestBlock
    <2>2. b \in Blocks \ {Genesis}
      BY <2>1, ChainFacts
    <2>3. Parent[b] \in Blocks /\ Height[Parent[b]] \in Nat /\ Height[b] = Height[Parent[b]] + 1
      BY <2>2, BlockFilesAssumption
    <2>4. Parent[b] \notin Wrong
      <3>1. ~(Height[b] <= Height[Parent[b]])
        BY <2>3, SMT
      <3>. QED
        BY <2>1, <3>1
    <2>5. Chain[Parent[b]] \subseteq Blocks
      BY <2>3, <2>4
    <2>. QED
      BY <2>1, <2>2, <2>5, ChainFacts
  <1>. QED
    BY <1>1, ChainFacts

\* The smaller of two heights.
LEMMA MinOfTwo ==
    ASSUME NEW m \in Nat, NEW n \in Nat
    PROVE  Min({m, n}) \in Nat /\ Min({m, n}) <= m /\ Min({m, n}) <= n
  <1>1. \E x \in {m, n} : \A y \in {m, n} : x <= y
    <2>1. CASE m <= n
      BY <2>1, SMT
    <2>2. CASE n <= m
      BY <2>2, SMT
    <2>. QED
      BY <2>1, <2>2, SMT
  <1>. QED
    BY <1>1 DEF Min

\* CBlockFileInfo::AddBlock raises the height to that of the block.
LEMMA AddBlockHeight ==
    ASSUME NEW info \in Sizes, NEW b \in Blocks, NEW size \in Nat
    PROVE  LET h == AddBlock(info, b, size).heightLast
           IN  h \in Nat /\ info.heightLast <= h /\ Height[b] <= h
  <1>1. LET h == Max({info.heightLast, Height[b]})
        IN  h \in Nat /\ info.heightLast <= h /\ Height[b] <= h
    BY MaxOfTwo, BlockFilesAssumption DEF Sizes
  <1>2. AddBlock(info, b, size).heightLast = Max({info.heightLast, Height[b]})
    BY DEF AddBlock, Sizes
  <1>. QED
    BY <1>1, <1>2

\* The largest height at which a file may end to be pruned: the arithmetic is
\* unsigned, but the test of PruneAfterHeight keeps it from wrapping around.
LEMMA PruneLimit ==
    ASSUME NEW t \in Blocks, tip = t, Height[t] >= PruneAfterHeight
    PROVE  /\ Height[tip] - MinBlocksToKeep \in Nat
           /\ LastBlockWeCanPrune \in Nat
           /\ LastBlockWeCanPrune <= Height[tip] - MinBlocksToKeep
  <1>1. Height[t] \in Nat /\ MinBlocksToKeep \in Nat /\ PruneAfterHeight \in Nat /\ MinBlocksToKeep <= PruneAfterHeight
    BY BlockFilesAssumption
  <1>2. Height[t] - MinBlocksToKeep \in Nat
    BY <1>1, SMT
  <1>3. \A x, n \in Nat : n > 0 => x % n \in Nat /\ x % n <= x
    BY SMT
  <1>4. UintRange \in Nat /\ UintRange > 0
    BY BlockFilesAssumption, SMT
  <1>. QED
    BY <1>2, <1>3, <1>4 DEF LastBlockWeCanPrune

\* What can be undone still can if no entry forgets its undo data but what pruning
\* may take.
LEMMA StillUndoable ==
    ASSUME NEW i, NEW j, NEW t \in Blocks \cup {None}, NEW m \in Nat, NEW n \in Nat, m <= n,
           \A b \in Blocks : Height[b] > n /\ HasUndo(i[b]) => HasUndo(j[b]),
           Undoable(i, t, m)
    PROVE  Undoable(j, t, n)
  <1>1. ASSUME NEW b \in Chain[t] \ {Genesis}, Height[b] > n
        PROVE  HasUndo(j[b])
    <2>1. b \in Blocks
      BY ChainInBlocks
    <2>2. Height[b] > m
      BY <1>1, <2>1, BlockFilesAssumption, SMT
    <2>. QED
      BY <1>1, <2>1, <2>2 DEF Undoable
  <1>. QED
    BY <1>1 DEF Undoable

\* An entry for a new block, and the height of its file.
LEMMA ReceivedReaches ==
    ASSUME FileTypes, Reaches(index, vinfo), NEW b \in Blocks, NEW p \in Position, NEW size \in Nat,
           Received(b, p), ~HaveData(b),
           vinfo' = [vinfo EXCEPT ![p.file] = AddBlock(vinfo[p.file], b, size)]
    PROVE  /\ Reaches(index', vinfo')
           /\ \A c \in Blocks : HasUndo(index[c]) => HasUndo(index'[c])
  <1>1. /\ index'[b] = [at |-> p, undo |-> None]
        /\ \A c \in Blocks : c # b => index'[c] = index[c]
        /\ p.file \in Files
    BY DEF Received, Position, FileTypes
  <1>2. /\ \A g \in Files : g # p.file => vinfo'[g] = vinfo[g]
        /\ vinfo'[p.file] = AddBlock(vinfo[p.file], b, size)
        /\ vinfo[p.file] \in Sizes
    BY <1>1 DEF FileTypes
  <1>3. /\ vinfo'[p.file].heightLast \in Nat
        /\ vinfo[p.file].heightLast <= vinfo'[p.file].heightLast
        /\ Height[b] <= vinfo'[p.file].heightLast
    BY <1>2, AddBlockHeight
  <1>4. \A g \in Files : vinfo[g].heightLast \in Nat
    BY DEF FileTypes, Sizes
  <1>5. \A c \in Blocks : Height[c] \in Nat
    BY BlockFilesAssumption
  <1>6. ASSUME NEW c \in Blocks, index'[c] # None, index'[c].at # None
        PROVE  Height[c] <= vinfo'[index'[c].at.file].heightLast
    <2>1. CASE c = b
      <3>1. index'[c].at = p
        BY <1>1, <2>1, SMT
      <3>. QED
        BY <1>3, <2>1, <3>1
    <2>2. CASE c # b
      <3>1. index'[c] = index[c]
        BY <1>1, <2>2
      <3>2. index[c].at \in Position /\ Height[c] <= vinfo[index[c].at.file].heightLast
        BY <1>6, <3>1, EntryTypes DEF Reaches
      <3>3. index[c].at.file \in Files
        BY <3>2 DEF Position
      <3>4. CASE index[c].at.file = p.file
        BY <1>3, <1>4, <1>5, <3>1, <3>2, <3>3, <3>4, SMT
      <3>5. CASE index[c].at.file # p.file
        BY <1>2, <3>1, <3>2, <3>3, <3>5
      <3>. QED
        BY <3>4, <3>5
    <2>. QED
      BY <2>1, <2>2
  <1>7. ~HasUndo(index[b])
    BY DEF HasUndo, HaveData
  <1>. QED
    BY <1>1, <1>6, <1>7 DEF Reaches

\* The same for the two ways to store a block.
LEMMA StoreReaches ==
    ASSUME FileTypes, Reaches(index, vinfo), NEW b \in Blocks, ~HaveData(b),
           \/ StoreNew(b)
           \/ \E p \in Position : StoreKnown(b, p)
    PROVE  /\ Reaches(index', vinfo')
           /\ \A c \in Blocks : HasUndo(index[c]) => HasUndo(index'[c])
  <1>1. CASE StoreNew(b)
    <2>. DEFINE f == NextFile
                pos == [file |-> f, slot |-> vinfo[f].size]
    <2>1. /\ f \in Files /\ pos \in Position /\ pos.file = f
          /\ vinfo' = [vinfo EXCEPT ![f] = AddBlock(@, b, @.size + 1)]
          /\ Received(b, pos)
      BY <1>1 DEF StoreNew, Position
    <2>. HIDE DEF pos, f
    <2>2. vinfo[f].size + 1 \in Nat
      BY <2>1, SMT DEF FileTypes, Sizes
    <2>3. vinfo' = [vinfo EXCEPT ![pos.file] = AddBlock(vinfo[pos.file], b, vinfo[f].size + 1)]
      BY <2>1
    <2>. QED
      BY <2>1, <2>2, <2>3, ReceivedReaches
  <1>2. ASSUME NEW p \in Position, StoreKnown(b, p)
        PROVE  /\ Reaches(index', vinfo')
               /\ \A c \in Blocks : HasUndo(index[c]) => HasUndo(index'[c])
    <2>1. /\ vinfo' = [vinfo EXCEPT ![p.file] = AddBlock(vinfo[p.file], b, Max({vinfo[p.file].size, p.slot + 1}))]
          /\ Received(b, p)
      BY <1>2 DEF StoreKnown
    <2>2. Max({vinfo[p.file].size, p.slot + 1}) \in Nat
      <3>1. vinfo[p.file].size \in Nat /\ p.slot + 1 \in Nat
        BY SMT DEF FileTypes, Sizes, Position, Slots
      <3>. QED
        BY <3>1, MaxOfTwo
    <2>. QED
      BY <2>1, <2>2, ReceivedReaches
  <1>. QED
    BY <1>1, <1>2

\* A step that leaves the databases alone, and the index in memory, or adds to it.
LEMMA MemoryKeeps ==
    ASSUME UndoInv, pc' # "unlink", Running,
           tree'.index = tree.index, tree'.vinfo = tree.vinfo, UNCHANGED <<coins, count>>,
           \/ UNCHANGED <<index, vinfo>>
           \/ /\ Reaches(index', vinfo')
              /\ \A c \in Blocks : HasUndo(index[c]) => HasUndo(index'[c]),
           tip' \in Blocks \cup {None},
           tip' = tip \/ Undoable(index', tip', count.pruned)
    PROVE  UndoInv'
  <1>1. /\ tip \in Blocks \cup {None} /\ coins.best \in Blocks \cup {None} /\ coins.old \in Blocks \cup {None}
        /\ count.pruned \in Nat /\ count.pruned <= count.pruned
    BY SMT DEF UndoInv
  <1>2. Reaches(index', vinfo') /\ \A c \in Blocks : HasUndo(index[c]) => HasUndo(index'[c])
    BY DEF UndoInv
  <1>3. \A t \in Blocks \cup {None} : Undoable(index, t, count.pruned) => Undoable(index', t, count.pruned)
    BY <1>1, <1>2, StillUndoable
  <1>4. Undoable(index', tip', count.pruned)
    BY <1>1, <1>3 DEF UndoInv
  <1>5. \A t \in {coins.best, coins.old} :
            /\ Undoable(index', t, count.pruned)
            /\ tree.index[Genesis] # None => Undoable(tree.index, t, count.pruned)
    BY <1>1, <1>3 DEF UndoInv
  <1>. QED
    BY <1>2, <1>4, <1>5 DEF UndoInv

\* A header or a block from the network.
LEMMA NetworkUndo ==
    ASSUME FilesInv, UndoInv, NEW b \in Blocks, AcceptBlockHeader(b) \/ AcceptBlock(b)
    PROVE  UndoInv'
  <1>0. /\ pc = "idle" /\ pc' # "unlink" /\ UNCHANGED <<tip, tree, coins, count>>
        /\ FileTypes /\ Reaches(index, vinfo) /\ tip \in Blocks \cup {None}
    BY DEF AcceptBlockHeader, AcceptBlock, FilesInv, UndoInv
  <1>1. /\ Reaches(index', vinfo')
        /\ \A c \in Blocks : HasUndo(index[c]) => HasUndo(index'[c])
    <2>1. CASE AcceptBlockHeader(b)
      <3>1. NoData.at = None
        BY DEF NoData
      <3>2. /\ index[b] = None /\ index'[b] = NoData /\ vinfo' = vinfo
            /\ \A c \in Blocks : c # b => index'[c] = index[c]
        BY <1>0, <2>1 DEF AcceptBlockHeader, FileTypes
      <3>. QED
        BY <1>0, <3>1, <3>2 DEF Reaches, HasUndo
    <2>2. CASE AcceptBlock(b)
      <3>1. StoreNew(b) /\ ~HaveData(b)
        BY <2>2 DEF AcceptBlock
      <3>. QED
        BY <1>0, <3>1, StoreReaches
    <2>. QED
      BY <2>1, <2>2
  <1>. QED
    BY <1>0, <1>1, MemoryKeeps DEF Running

\* ConnectBlock writes the undo data that is not there yet.
LEMMA WriteUndoReaches ==
    ASSUME FileTypes, Reaches(index, vinfo), NEW b \in Blocks, HaveData(b), WriteUndo(b)
    PROVE  /\ Reaches(index', vinfo')
           /\ \A c \in Blocks : HasUndo(index[c]) => HasUndo(index'[c])
           /\ HasUndo(index'[b])
           /\ \A c \in Blocks : /\ index'[c] # None => index[c] # None
                                /\ index[c] # None => index'[c] # None /\ index'[c].at = index[c].at
  <1>. DEFINE f == index[b].at.file
              slot == vinfo[f].undoSize
  <1>1. /\ index[b] # None /\ index[b].at # None /\ index[b].at \in Position /\ f \in Files
    BY EntryTypes DEF HaveData, Position
  <1>2. /\ slot \in Slots
        /\ vinfo' = [vinfo EXCEPT ![f].undoSize = slot + 1]
        /\ index' = [index EXCEPT ![b].undo = slot]
    <2>1. FileOf(b) = f
      BY <1>1 DEF FileOf
    <2>. QED
      BY <2>1 DEF WriteUndo
  <1>3. /\ index'[b] = [at |-> index[b].at, undo |-> slot]
        /\ \A c \in Blocks : c # b => index'[c] = index[c]
    <2>1. index[b] \in [at : Position \cup {None}, undo : Slots \cup {None}]
      BY <1>1 DEF FileTypes, Entry
    <2>2. index'[b] = [index[b] EXCEPT !.undo = slot]
      BY <1>2 DEF FileTypes
    <2>3. index'[b] = [at |-> index[b].at, undo |-> slot]
      <3>. HIDE DEF slot
      <3>. QED
        BY <2>1, <2>2, SMT
    <2>. QED
      BY <1>2, <2>3 DEF FileTypes
  <1>4. index'[b] # None /\ slot # None
    <2>1. [at |-> index[b].at, undo |-> slot] \in [at : Position \cup {None}, undo : Slots \cup {None}]
      BY <1>1, <1>2
    <2>. QED
      BY <1>2, <1>3, <2>1, NoneAssumption
  <1>5. index'[b].at = index[b].at /\ index'[b].undo = slot
    <2>. HIDE DEF slot
    <2>. QED
      BY <1>3, SMT
  <1>6. HasUndo(index'[b])
    BY <1>1, <1>4, <1>5 DEF HasUndo
  <1>7. \A g \in Files : vinfo'[g].heightLast = vinfo[g].heightLast
    <2>1. ASSUME NEW g \in Files, g # f
          PROVE  vinfo'[g] = vinfo[g]
      BY <1>2, <2>1 DEF FileTypes
    <2>2. vinfo'[f] = [vinfo[f] EXCEPT !.undoSize = slot + 1] /\ vinfo[f] \in Sizes
      BY <1>1, <1>2 DEF FileTypes
    <2>3. vinfo'[f].heightLast = vinfo[f].heightLast
      BY <2>2, SMT DEF Sizes
    <2>. QED
      BY <2>1, <2>3
  <1>8. \A c \in Blocks : /\ index'[c] # None => index[c] # None
                          /\ index[c] # None => index'[c] # None /\ index'[c].at = index[c].at
    BY <1>1, <1>3, <1>4, <1>5
  <1>9. \A c \in Blocks : index[c] # None /\ index[c].at # None => index[c].at.file \in Files
    BY EntryTypes DEF Position
  <1>. HIDE DEF f, slot
  <1>10. Reaches(index', vinfo')
    BY <1>7, <1>8, <1>9 DEF Reaches
  <1>. QED
    BY <1>3, <1>6, <1>8, <1>10 DEF HasUndo

\* A block connected, with its undo data, or disconnected.
LEMMA TipUndo ==
    ASSUME FilesInv, UndoInv, DisconnectTip \/ \E b \in Blocks : ConnectTip(b)
    PROVE  UndoInv'
  <1>0. /\ pc = "idle" /\ pc' = "flush" /\ UNCHANGED <<tree, coins, count>>
        /\ FileTypes /\ Reaches(index, vinfo) /\ tip \in Blocks \cup {None}
        /\ Undoable(index, tip, count.pruned) /\ count.pruned \in Nat /\ count.pruned <= count.pruned
    BY SMT DEF DisconnectTip, ConnectTip, FilesInv, UndoInv, files
  <1>1. ASSUME NEW b \in Blocks, ConnectTip(b)
        PROVE  UndoInv'
    <2>1. /\ tip' = b /\ HaveData(b)
          /\ b = Genesis \/ (b # Genesis /\ tip = Parent[b])
      BY <1>1 DEF ConnectTip
    <2>2. /\ \/ UNCHANGED <<index, vinfo>>
             \/ /\ Reaches(index', vinfo')
                /\ \A c \in Blocks : HasUndo(index[c]) => HasUndo(index'[c])
          /\ b # Genesis => HasUndo(index'[b])
      <3>1. CASE b = Genesis \/ HaveUndo(b)
        BY <1>1, <2>1, <3>1 DEF ConnectTip, HaveUndo, HaveData, HasUndo
      <3>2. CASE ~(b = Genesis \/ HaveUndo(b))
        <4>1. WriteUndo(b)
          BY <1>1, <3>2 DEF ConnectTip
        <4>. QED
          BY <1>0, <2>1, <4>1, WriteUndoReaches
      <3>. QED
        BY <3>1, <3>2
    <2>3. \A c \in Blocks : HasUndo(index[c]) => HasUndo(index'[c])
      BY <2>2
    <2>4. Undoable(index', tip, count.pruned)
      BY <1>0, <2>3, StillUndoable
    <2>5. Undoable(index', b, count.pruned)
      <3>1. CASE b = Genesis
        BY <3>1, ChainFacts DEF Undoable
      <3>2. CASE b # Genesis
        BY <2>1, <2>2, <2>4, <3>2, ChainFacts DEF Undoable
      <3>. QED
        BY <3>1, <3>2
    <2>. QED
      BY <1>0, <2>1, <2>2, <2>5, MemoryKeeps DEF Running
  <1>2. CASE DisconnectTip
    <2>1. /\ tip \in Blocks \ {Genesis} /\ tip' = Parent[tip] /\ tip' \in Blocks
          /\ UNCHANGED <<index, vinfo>>
      BY <1>0, <1>2, BlockFilesAssumption DEF DisconnectTip, files
    <2>2. Chain[tip'] \subseteq Chain[tip]
      BY <2>1, ChainFacts
    <2>3. Undoable(index', tip', count.pruned)
      BY <1>0, <2>1, <2>2 DEF Undoable
    <2>. QED
      BY <1>0, <2>1, <2>3, MemoryKeeps DEF Running
  <1>. QED
    BY <1>1, <1>2

\* Files to prune end below what must be kept, and that is on record.
LEMMA PrunedBelow ==
    ASSUME FilesInv, UndoInv,
           \/ \E write, full \in BOOLEAN : FlushStateToDisk(write, full)
           \/ \E h \in {Height[b] : b \in Blocks} : PruneBlockchain(h)
    PROVE  \E P \in SUBSET Files :
              /\ PruneFiles(P)
              /\ DOMAIN count' = DOMAIN count /\ count'.pruned \in Nat /\ count.pruned <= count'.pruned
              /\ \A f \in P : vinfo[f].heightLast <= count'.pruned
              /\ pc \in {"idle", "flush"} /\ pc' \in {"idle", "write"}
              /\ UNCHANGED <<tip, tree, coins>>
  <1>0. /\ FileTypes /\ tip \in Blocks \cup {None}
        /\ count.pruned \in Nat /\ "pruned" \in DOMAIN count
        /\ FilesToPrune \subseteq Files /\ \A h : FilesToPruneManual(h) \subseteq Files
    BY PruneOldFiles DEF FilesInv, UndoInv
  <1>1. ASSUME NEW P \in SUBSET Files, Pruned(P),
               P # {} => /\ tip \in Blocks /\ Height[tip] >= PruneAfterHeight
                         /\ \A f \in P : vinfo[f].heightLast <= LastBlockWeCanPrune
        PROVE  /\ DOMAIN count' = DOMAIN count /\ count'.pruned \in Nat /\ count.pruned <= count'.pruned
               /\ \A f \in P : vinfo[f].heightLast <= count'.pruned
    <2>1. CASE P = {}
      <3>1. count' = count
        BY <1>1, <2>1 DEF Pruned
      <3>. QED
        BY <1>0, <2>1, <3>1, SMT
    <2>2. CASE P # {}
      <3>1. /\ Height[tip] - MinBlocksToKeep \in Nat
            /\ LastBlockWeCanPrune \in Nat
            /\ LastBlockWeCanPrune <= Height[tip] - MinBlocksToKeep
        BY <1>1, <2>2, PruneLimit
      <3>. DEFINE top == Height[tip] - MinBlocksToKeep
                  max == Max({count.pruned, top})
      <3>2. max \in Nat /\ count.pruned <= max /\ top <= max
        BY <1>0, <3>1, MaxOfTwo
      <3>3. count' = [count EXCEPT !.pruned = max]
        BY <1>1, <2>2 DEF Pruned
      <3>4. \A f \in P : vinfo[f].heightLast \in Nat
        BY <1>0 DEF FileTypes, Sizes
      <3>. HIDE DEF max
      <3>5. count'.pruned = max /\ DOMAIN count' = DOMAIN count
        BY <1>0, <3>3
      <3>6. \A f \in P : vinfo[f].heightLast <= LastBlockWeCanPrune
        BY <1>1, <2>2
      <3>7. \A f \in P : vinfo[f].heightLast <= max
        <4>. HIDE DEF top
        <4>1. \A x, y, z, w \in Nat : x <= y /\ y <= z /\ z <= w => x <= w
          BY SMT
        <4>. QED
          BY <3>1, <3>2, <3>4, <3>6, <4>1 DEF top
      <3>. QED
        BY <3>2, <3>5, <3>7
    <2>. QED
      BY <2>1, <2>2
  <1>2. ASSUME NEW write \in BOOLEAN, NEW full \in BOOLEAN, FlushStateToDisk(write, full)
        PROVE  \E P \in SUBSET Files :
                  /\ PruneFiles(P)
                  /\ DOMAIN count' = DOMAIN count /\ count'.pruned \in Nat /\ count.pruned <= count'.pruned
                  /\ \A f \in P : vinfo[f].heightLast <= count'.pruned
                  /\ pc \in {"idle", "flush"} /\ pc' \in {"idle", "write"}
                  /\ UNCHANGED <<tip, tree, coins>>
    <2>. DEFINE P == IF check /\ ~reindex THEN FilesToPrune ELSE {}
    <2>1. P \in SUBSET Files
      BY <1>0
    <2>2. /\ pc \in {"idle", "flush"} /\ PruneFiles(P) /\ Pruned(P)
          /\ pc' \in {"idle", "write"}
          /\ UNCHANGED <<tip, tree, coins>>
      BY <1>2 DEF FlushStateToDisk
    <2>3. P # {} => /\ tip \in Blocks /\ Height[tip] >= PruneAfterHeight
                    /\ \A f \in P : vinfo[f].heightLast <= LastBlockWeCanPrune
      <3>. SUFFICES ASSUME P # {}
                    PROVE  /\ tip \in Blocks /\ Height[tip] >= PruneAfterHeight
                           /\ \A f \in P : vinfo[f].heightLast <= LastBlockWeCanPrune
        OBVIOUS
      <3>1. P = FilesToPrune /\ FilesToPrune # {}
        OBVIOUS
      <3>2. tip \in Blocks /\ ~(Height[tip] <= PruneAfterHeight)
        BY <1>0, <3>1 DEF FilesToPrune
      <3>3. Height[tip] \in Nat /\ PruneAfterHeight \in Nat
        BY <3>2, BlockFilesAssumption
      <3>4. Height[tip] >= PruneAfterHeight
        BY <3>2, <3>3, SMT
      <3>5. \A f \in FilesToPrune : vinfo[f].heightLast <= LastBlockWeCanPrune
        BY <3>2 DEF FilesToPrune, Prunable
      <3>. QED
        BY <3>1, <3>2, <3>4, <3>5
    <2>. HIDE DEF P
    <2>. QED
      BY <1>1, <2>1, <2>2, <2>3
  <1>3. ASSUME NEW h \in {Height[b] : b \in Blocks}, PruneBlockchain(h)
        PROVE  \E P \in SUBSET Files :
                  /\ PruneFiles(P)
                  /\ DOMAIN count' = DOMAIN count /\ count'.pruned \in Nat /\ count.pruned <= count'.pruned
                  /\ \A f \in P : vinfo[f].heightLast <= count'.pruned
                  /\ pc \in {"idle", "flush"} /\ pc' \in {"idle", "write"}
                  /\ UNCHANGED <<tip, tree, coins>>
    <2>. DEFINE low == Min({h, LastBlockWeCanPrune})
                P == FilesToPruneManual(low)
    <2>1. P \in SUBSET Files
      BY <1>0
    <2>2. /\ pc = "idle" /\ PruneFiles(P) /\ Pruned(P) /\ pc' = "write"
          /\ tip # None /\ Height[tip] >= PruneAfterHeight
          /\ UNCHANGED <<tip, tree, coins>>
      BY <1>3 DEF PruneBlockchain
    <2>3. tip \in Blocks /\ LastBlockWeCanPrune \in Nat /\ h \in Nat
      <3>1. tip \in Blocks
        BY <1>0, <2>2
      <3>2. LastBlockWeCanPrune \in Nat
        BY <2>2, <3>1, PruneLimit
      <3>3. h \in Nat
        <4>1. \A b \in Blocks : Height[b] \in Nat
          BY BlockFilesAssumption
        <4>. QED
          BY <1>3, <4>1
      <3>. QED
        BY <3>1, <3>2, <3>3
    <2>4. low \in Nat /\ low <= LastBlockWeCanPrune
      BY <2>3, MinOfTwo
    <2>. HIDE DEF low
    <2>5. Min({low, LastBlockWeCanPrune}) <= LastBlockWeCanPrune /\ Min({low, LastBlockWeCanPrune}) \in Nat
      BY <2>3, <2>4, MinOfTwo
    <2>6. \A f \in P : vinfo[f].heightLast <= Min({low, LastBlockWeCanPrune})
      BY DEF FilesToPruneManual, Prunable
    <2>7. \A f \in P : vinfo[f].heightLast \in Nat
      BY <1>0, <2>1 DEF FileTypes, Sizes
    <2>8. \A f \in P : vinfo[f].heightLast <= LastBlockWeCanPrune
      <3>1. \A x, y, z \in Nat : x <= y /\ y <= z => x <= z
        BY SMT
      <3>. HIDE DEF P
      <3>. QED
        BY <2>3, <2>5, <2>6, <2>7, <3>1
    <2>. HIDE DEF P
    <2>. QED
      BY <1>1, <2>1, <2>2, <2>3, <2>8
  <1>. QED
    BY <1>2, <1>3

\* Pruning takes no undo data above that height.
LEMMA PruningUndo ==
    ASSUME FilesInv, UndoInv,
           \/ \E write, full \in BOOLEAN : FlushStateToDisk(write, full)
           \/ \E h \in {Height[b] : b \in Blocks} : PruneBlockchain(h)
    PROVE  UndoInv'
  <1>0. /\ FileTypes /\ Reaches(index, vinfo) /\ count.pruned \in Nat
        /\ {tip, coins.best, coins.old} \subseteq Blocks \cup {None}
    BY DEF FilesInv, UndoInv
  <1>1. PICK P \in SUBSET Files :
            /\ PruneFiles(P)
            /\ DOMAIN count' = DOMAIN count /\ count'.pruned \in Nat /\ count.pruned <= count'.pruned
            /\ \A f \in P : vinfo[f].heightLast <= count'.pruned
            /\ pc \in {"idle", "flush"} /\ pc' \in {"idle", "write"}
            /\ UNCHANGED <<tip, tree, coins>>
    BY PrunedBelow
  <1>. DEFINE gone == {b \in Blocks : index[b] # None /\ FileOf(b) \in P}
  <1>2. /\ \A b \in gone : index'[b] = NoData
        /\ \A b \in Blocks \ gone : index'[b] = index[b]
        /\ \A f \in Files \ P : vinfo'[f] = vinfo[f]
        /\ \A b \in Blocks : b \in gone <=> index[b] # None /\ FileOf(b) \in P
    BY <1>1 DEF PruneFiles
  <1>. HIDE DEF gone
  <1>3. NoData.at = None
    BY DEF NoData
  <1>4. \A b \in Blocks : index[b] # None /\ index[b].at # None =>
            index[b].at.file \in Files /\ FileOf(b) = index[b].at.file
    BY <1>0, EntryTypes DEF Position, FileOf
  <1>5. Reaches(index', vinfo')
    <2>1. ASSUME NEW b \in Blocks, index'[b] # None, index'[b].at # None
          PROVE  Height[b] <= vinfo'[index'[b].at.file].heightLast
      <3>1. b \notin gone /\ index'[b] = index[b]
        BY <1>2, <1>3, <2>1
      <3>2. index[b].at.file \in Files \ P
        BY <1>2, <1>4, <2>1, <3>1
      <3>3. Height[b] <= vinfo[index[b].at.file].heightLast
        BY <1>0, <2>1, <3>1 DEF Reaches
      <3>4. vinfo'[index[b].at.file] = vinfo[index[b].at.file]
        BY <1>2, <3>2
      <3>. QED
        BY <3>1, <3>3, <3>4
    <2>. QED
      BY <2>1 DEF Reaches
  <1>6. \A b \in Blocks : Height[b] > count'.pruned /\ HasUndo(index[b]) => HasUndo(index'[b])
    <2>1. ASSUME NEW b \in Blocks, Height[b] > count'.pruned, HasUndo(index[b])
          PROVE  b \notin gone
      <3>. SUFFICES ASSUME b \in gone PROVE FALSE
        OBVIOUS
      <3>1. index[b] # None /\ index[b].at # None
        BY <2>1 DEF HasUndo
      <3>2. index[b].at.file \in P /\ index[b].at.file \in Files
        BY <1>2, <1>4, <3>1
      <3>3. /\ Height[b] <= vinfo[index[b].at.file].heightLast
            /\ vinfo[index[b].at.file].heightLast <= count'.pruned
        BY <1>0, <1>1, <3>1, <3>2 DEF Reaches
      <3>4. Height[b] \in Nat /\ vinfo[index[b].at.file].heightLast \in Nat
        BY <1>0, <3>2, BlockFilesAssumption DEF FileTypes, Sizes
      <3>. QED
        BY <1>1, <2>1, <3>3, <3>4, SMT
    <2>. QED
      BY <1>2, <2>1
  <1>7. \A t \in Blocks \cup {None} :
            /\ Undoable(index, t, count.pruned) => Undoable(index', t, count'.pruned)
            /\ Undoable(tree.index, t, count.pruned) => Undoable(tree.index, t, count'.pruned)
    BY <1>0, <1>1, <1>6, StillUndoable
  <1>8. Undoable(index', tip', count'.pruned)
    BY <1>0, <1>1, <1>7 DEF UndoInv
  <1>9. \A t \in {coins.best, coins.old} :
            /\ Undoable(index', t, count'.pruned)
            /\ tree.index[Genesis] # None => Undoable(tree.index, t, count'.pruned)
    BY <1>0, <1>1, <1>7 DEF UndoInv, Running
  <1>. QED
    BY <1>1, <1>5, <1>8, <1>9 DEF UndoInv

\* WriteBatchSync: the database takes over what memory says.
LEMMA WriteUndoIndex ==
    ASSUME FilesInv, UndoInv, WriteBlockIndex
    PROVE  UndoInv'
  <1>0. /\ FileTypes /\ TreeTypes /\ Tracks /\ Running
        /\ pc' = "unlink" /\ dirtyBlocks' = {}
        /\ UNCHANGED <<tip, index, vinfo, coins, count>>
    BY DEF FilesInv, Running, WriteBlockIndex
  <1>1. /\ tree'.index = [b \in Blocks |-> IF b \in dirtyBlocks THEN index[b] ELSE tree.index[b]]
        /\ tree'.vinfo = [f \in Files |-> IF f \in dirtyFiles THEN vinfo[f] ELSE tree.vinfo[f]]
    BY <1>0 DEF WriteBlockIndex, TreeTypes
  <1>2. tree'.index = index /\ tree'.vinfo = vinfo
    BY <1>0, <1>1 DEF Tracks, FileTypes
  <1>. QED
    BY <1>0, <1>2 DEF UndoInv

\* The coins are flushed when memory and database say the same.
LEMMA CoinsUndo ==
    ASSUME FilesInv, UndoInv, UnlinkPrunedFile \/ FlushCoins \/ FlushCoinsDone
    PROVE  UndoInv'
  <1>0. /\ index' = index /\ vinfo' = vinfo /\ dirtyBlocks' = dirtyBlocks
        /\ UNCHANGED <<tip, tree, count>> /\ Running
    BY DEF UnlinkPrunedFile, FlushCoins, FlushCoinsDone, files, Running
  <1>1. CASE UnlinkPrunedFile
    <2>1. UNCHANGED <<pc, coins>>
      BY <1>1 DEF UnlinkPrunedFile
    <2>. QED
      BY <1>0, <2>1 DEF UndoInv, Running
  <1>2. CASE FlushCoins
    <2>1. pc = "unlink" /\ pc' \in {"coins", "idle"}
      BY <1>2 DEF FlushCoins
    <2>2. tree.index = index
      <3>1. dirtyBlocks = {} /\ Tracks
        BY <2>1 DEF UndoInv, FilesInv, Running
      <3>2. \A b \in Blocks : tree.index[b] = index[b]
        BY <3>1 DEF Tracks
      <3>3. tree.index \in [Blocks -> Entry] /\ index \in [Blocks -> Entry]
        BY DEF FilesInv, TreeTypes, FileTypes
      <3>. QED
        BY <3>2, <3>3, SMT
    <2>3. CASE coins' = coins
      BY <1>0, <2>1, <2>3 DEF UndoInv, Running
    <2>4. CASE coins' = [best |-> tip, old |-> coins.best]
      <3>1. coins'.best = tip /\ coins'.old = coins.best
        BY <2>4
      <3>2. coins' \in [best : Blocks \cup {None}, old : Blocks \cup {None}]
        BY <2>4 DEF UndoInv
      <3>3. \A t \in {coins'.best, coins'.old} : Undoable(index, t, count.pruned)
        BY <1>0, <3>1 DEF UndoInv
      <3>. QED
        BY <1>0, <2>1, <2>2, <3>2, <3>3 DEF UndoInv
    <2>. QED
      BY <1>2, <2>3, <2>4 DEF FlushCoins
  <1>3. CASE FlushCoinsDone
    <2>1. pc' = "idle" /\ coins' = [coins EXCEPT !.old = coins.best]
      BY <1>3 DEF FlushCoinsDone
    <2>2. /\ coins'.best = coins.best /\ coins'.old = coins.best
          /\ coins' \in [best : Blocks \cup {None}, old : Blocks \cup {None}]
      BY <2>1 DEF UndoInv
    <2>. QED
      BY <1>0, <2>1, <2>2 DEF UndoInv, Running
  <1>. QED
    BY <1>1, <1>2, <1>3

\* A memory that is blank: there is no active chain.
LEMMA BlankUndo ==
    ASSUME UndoInv, Blank, ~Running', pc' # "unlink", UNCHANGED <<tree, coins>>,
           count'.pruned = count.pruned, DOMAIN count' = DOMAIN count
    PROVE  UndoInv'
  <1>1. /\ tip' = None /\ \A b \in Blocks : index'[b] = None
    BY DEF Blank
  <1>2. Reaches(index', vinfo')
    BY <1>1 DEF Reaches
  <1>3. Undoable(index', tip', count'.pruned)
    BY <1>1, ChainFacts DEF Undoable
  <1>. QED
    BY <1>1, <1>2, <1>3 DEF UndoInv

\* The process ends.
LEMMA StopUndo ==
    ASSUME UndoInv, Crash \/ Shutdown
    PROVE  UndoInv'
  <1>1. /\ pc' = "down" /\ Blank /\ UNCHANGED <<tree, coins>>
        /\ count' = count \/ count' = [count EXCEPT !.crashes = @ + 1]
    BY DEF Crash, Shutdown
  <1>2. count'.pruned = count.pruned /\ DOMAIN count' = DOMAIN count
    BY <1>1 DEF UndoInv
  <1>. QED
    BY <1>1, <1>2, BlankUndo DEF Running

\* The load at startup: the active chain is that of the coins, and the index is the
\* one of the database.
LEMMA RestartUndo ==
    ASSUME FilesInv, UndoInv, Restart
    PROVE  UndoInv'
  <1>0. UNCHANGED <<tree, count>>
    BY DEF Restart
  <1>1. CASE Blank /\ pc' \in {"rebuild", "genesis"} /\ UNCHANGED coins
    BY <1>0, <1>1, BlankUndo DEF Running
  <1>2. CASE /\ tree.index[Genesis] # None \/ tree.reindexing
             /\ coins.best = None \/ tree.index[coins.best] # None
             /\ index' = tree.index /\ vinfo' = tree.vinfo
             /\ tip' = coins.best
             /\ coins' = [coins EXCEPT !.old = coins.best]
             /\ pc' \in {"idle", "flush"}
    <2>1. /\ coins'.best = coins.best /\ coins'.old = coins.best
          /\ coins' \in [best : Blocks \cup {None}, old : Blocks \cup {None}]
      BY <1>2 DEF UndoInv
    <2>2. coins.best \in Blocks \cup {None}
      BY DEF UndoInv
    <2>3. Undoable(tree.index, coins.best, count.pruned)
      <3>1. CASE coins.best = None
        BY <3>1, ChainFacts DEF Undoable
      <3>2. CASE coins.best # None
        <4>1. tree.index[Genesis] # None
          BY <1>2, <2>2, <3>2 DEF FilesInv, Sound, Rooted
        <4>. QED
          BY <4>1 DEF UndoInv
      <3>. QED
        BY <3>1, <3>2
    <2>. QED
      BY <1>0, <1>2, <2>1, <2>2, <2>3 DEF UndoInv
  <1>. QED
    BY <1>1, <1>2 DEF Restart

\* A database without the genesis block is used with no coins but its own.
LEMMA GenesisUndo ==
    ASSUME FilesInv, UndoInv, RestartWithGenesis
    PROVE  UndoInv'
  <1>0. /\ FileTypes /\ Reaches(index, vinfo) /\ tree.index[Genesis] = None /\ index[Genesis] = None
        /\ pc = "genesis" /\ pc' \in {"flush", "rebuild"} /\ UNCHANGED <<tree, count>>
        /\ StoreNew(Genesis) /\ Genesis \in Blocks /\ tip \in Blocks \cup {None}
        /\ count.pruned \in Nat /\ count.pruned <= count.pruned
    BY BlockFilesAssumption, SMT DEF FilesInv, UndoInv, RestartWithGenesis
  <1>1. /\ Reaches(index', vinfo')
        /\ \A c \in Blocks : HasUndo(index[c]) => HasUndo(index'[c])
    <2>1. ~HaveData(Genesis)
      BY <1>0 DEF HaveData
    <2>. QED
      BY <1>0, <2>1, StoreReaches
  <1>2. \A t \in {None, Genesis} : Undoable(index', t, count.pruned)
    BY ChainFacts DEF Undoable
  <1>3. CASE /\ {coins.best, coins.old} \subseteq {None, Genesis} /\ pc' = "flush"
             /\ tip' = coins.best /\ coins' = [coins EXCEPT !.old = coins.best]
    <2>1. /\ coins'.best = coins.best /\ coins'.old = coins.best
          /\ coins' \in [best : Blocks \cup {None}, old : Blocks \cup {None}]
          /\ coins.best \in Blocks \cup {None}
      BY <1>3 DEF UndoInv
    <2>. QED
      BY <1>0, <1>1, <1>2, <1>3, <2>1 DEF UndoInv
  <1>4. CASE pc' = "rebuild" /\ UNCHANGED <<tip, coins>>
    <2>1. Undoable(index', tip, count.pruned)
      BY <1>0, <1>1, StillUndoable DEF UndoInv
    <2>. QED
      BY <1>0, <1>1, <1>4, <2>1 DEF UndoInv, Running
  <1>. QED
    BY <1>3, <1>4 DEF RestartWithGenesis

\* The databases are emptied, first the block index, then the coins.
LEMMA WipeUndo ==
    ASSUME FilesInv, UndoInv, WipeTree \/ CleanupBlockRevFiles \/ WipeCoins
    PROVE  UndoInv'
  <1>1. CASE WipeTree
    <2>1. /\ pc' = "wiped" /\ UNCHANGED coins
          /\ tree' = [index |-> [b \in Blocks |-> None], vinfo |-> [f \in Files |-> NoInfo],
                      lastFile |-> 0, reindexing |-> FALSE]
          /\ count' = [count EXCEPT !.reindexes = @ + 1, !.pruned = 0]
      BY <1>1 DEF WipeTree
    <2>2. tip' = None /\ \A b \in Blocks : index'[b] = None
      BY <1>1 DEF WipeTree, Blank
    <2>3. \A b \in Blocks : tree'.index[b] = None
      BY <2>1
    <2>4. DOMAIN count' = DOMAIN count /\ count'.pruned = 0
      BY <2>1 DEF UndoInv
    <2>5. Reaches(index', vinfo') /\ Reaches(tree'.index, tree'.vinfo)
      BY <2>2, <2>3 DEF Reaches
    <2>6. Undoable(index', tip', count'.pruned)
      BY <2>2, ChainFacts DEF Undoable
    <2>7. tree'.index[Genesis] = None /\ 0 \in Nat
      BY <2>3, BlockFilesAssumption, SMT
    <2>. QED
      BY <2>1, <2>2, <2>4, <2>5, <2>6, <2>7 DEF UndoInv, Running
  <1>2. CASE CleanupBlockRevFiles
    <2>1. /\ pc' = "cleaned" /\ UNCHANGED <<tip, index, vinfo, coins, count>>
          /\ tree' = [tree EXCEPT !.reindexing = TRUE]
      BY <1>2 DEF CleanupBlockRevFiles, files
    <2>2. tree'.index = tree.index /\ tree'.vinfo = tree.vinfo
      BY <2>1 DEF FilesInv, TreeTypes
    <2>. QED
      BY <2>1, <2>2 DEF UndoInv, Running
  <1>3. CASE WipeCoins
    <2>1. /\ pc' = "idle" /\ UNCHANGED <<tip, index, vinfo, tree, count>>
          /\ coins' = [best |-> None, old |-> None]
      BY <1>3 DEF WipeCoins, files
    <2>2. /\ coins'.best = None /\ coins'.old = None
          /\ coins' \in [best : Blocks \cup {None}, old : Blocks \cup {None}]
      BY <2>1
    <2>3. \A t \in {coins'.best, coins'.old} :
              Undoable(index, t, count.pruned) /\ Undoable(tree.index, t, count.pruned)
      BY <2>2, ChainFacts DEF Undoable
    <2>. QED
      BY <2>1, <2>2, <2>3 DEF UndoInv
  <1>. QED
    BY <1>1, <1>2, <1>3

\* LoadExternalBlockFile and ThreadImport.
LEMMA ImportUndo ==
    ASSUME FilesInv, UndoInv, ImportBlock \/ ImportChild \/ ImportNextFile \/ ImportDone
    PROVE  UndoInv'
  <1>0. /\ pc = "idle" /\ Running /\ FileTypes /\ TreeTypes /\ ImportTypes
        /\ Reaches(index, vinfo) /\ tip \in Blocks \cup {None}
    BY DEF FilesInv, UndoInv, Running, Importing, ImportBlock, ImportChild, ImportNextFile, ImportDone
  <1>1. ASSUME UNCHANGED <<pc, tip, files, tree, coins, count>>
        PROVE  UndoInv'
    BY <1>0, <1>1, MemoryKeeps DEF files
  <1>2. ASSUME NEW b \in Blocks, NEW p \in Position, AcceptKnown(b, p)
        PROVE  UndoInv'
    <2>1. UNCHANGED <<tip, tree, coins, count>>
      BY <1>2 DEF AcceptKnown
    <2>2. CASE HaveData(b)
      BY <1>1, <1>2, <2>1, <2>2 DEF AcceptKnown
    <2>3. CASE ~HaveData(b)
      <3>1. StoreKnown(b, p) /\ pc' # "unlink"
        BY <1>0, <1>2, <2>3 DEF AcceptKnown
      <3>2. /\ Reaches(index', vinfo')
            /\ \A c \in Blocks : HasUndo(index[c]) => HasUndo(index'[c])
        BY <1>0, <2>3, <3>1, StoreReaches
      <3>. QED
        BY <1>0, <2>1, <3>1, <3>2, MemoryKeeps
    <2>. QED
      BY <2>2, <2>3
  <1>3. CASE ImportBlock
    <2>. DEFINE b == blk[import.file][import.slot]
                pos == [file |-> import.file, slot |-> import.slot]
    <2>1. import.file \in Files /\ import.slot \in Slots /\ pos \in Position
      BY <1>3 DEF ImportBlock, Position
    <2>2. b \in Blocks \cup {None}
      BY <1>0, <2>1, SMT DEF FileTypes
    <2>3. \/ UNCHANGED <<pc, tip, files, tree, coins, count>>
          \/ b # None /\ AcceptKnown(b, pos)
      BY <1>3 DEF ImportBlock
    <2>. HIDE DEF b, pos
    <2>. QED
      BY <1>1, <1>2, <2>1, <2>2, <2>3
  <1>4. CASE ImportChild
    <2>1. CASE UNCHANGED <<pc, tip, files, tree, coins, count>>
      BY <1>1, <2>1
    <2>2. ASSUME NEW e \in import.unknown, blk[e.at.file][e.at.slot] # None,
                 AcceptKnown(blk[e.at.file][e.at.slot], e.at)
          PROVE  UndoInv'
      <3>1. e.at \in Position /\ blk[e.at.file][e.at.slot] \in Blocks
        BY <1>0, <2>2, SMT DEF ImportTypes, FileTypes, Position
      <3>. QED
        BY <1>2, <2>2, <3>1
    <2>. QED
      BY <1>4, <2>1, <2>2 DEF ImportChild
  <1>5. CASE ImportNextFile
    BY <1>1, <1>5 DEF ImportNextFile
  <1>6. CASE ImportDone
    <2>1. UNCHANGED <<pc, tip, coins, count>> /\ tree' = [tree EXCEPT !.reindexing = FALSE]
      BY <1>6 DEF ImportDone
    <2>2. tree'.index = tree.index /\ tree'.vinfo = tree.vinfo
      BY <1>0, <2>1 DEF TreeTypes
    <2>3. \/ UNCHANGED <<index, vinfo>>
          \/ /\ Reaches(index', vinfo')
             /\ \A c \in Blocks : HasUndo(index[c]) => HasUndo(index'[c])
      <3>1. CASE index[Genesis] = None
        <4>1. StoreNew(Genesis) /\ Genesis \in Blocks /\ ~HaveData(Genesis)
          BY <1>6, <3>1, BlockFilesAssumption DEF ImportDone, HaveData
        <4>. QED
          BY <1>0, <4>1, StoreReaches
      <3>2. CASE index[Genesis] # None
        BY <1>6, <3>2 DEF ImportDone, files
      <3>. QED
        BY <3>1, <3>2
    <2>. QED
      BY <1>0, <2>1, <2>2, <2>3, MemoryKeeps
  <1>. QED
    BY <1>3, <1>4, <1>5, <1>6

\* The first state.
LEMMA UndoInitially == Init => UndoInv
  <1>. SUFFICES ASSUME Init PROVE UndoInv
    OBVIOUS
  <1>1. /\ Genesis \in Blocks /\ Height[Genesis] = 0 /\ 0 \in Files
    BY BlockFilesAssumption, SMT DEF Files
  <1>2. /\ tip = Genesis /\ coins = [best |-> Genesis, old |-> Genesis]
        /\ count = [crashes |-> 0, reindexes |-> 0, pruned |-> 0]
        /\ pc = "idle" /\ tree.index = index /\ tree.vinfo = vinfo
    BY DEF Init
  <1>3. Reaches(index, vinfo)
    <2>. DEFINE first == [NoData EXCEPT !.at = [file |-> 0, slot |-> 0]]
    <2>1. \A b \in Blocks : index[b] = IF b = Genesis THEN first ELSE NoData
      BY DEF Init
    <2>2. NoData.at = None /\ first.at.file = 0
      BY SMT DEF NoData
    <2>3. vinfo[0].heightLast = 0
      BY <1>1, SMT DEF Init, NoInfo
    <2>4. Height[Genesis] <= vinfo[0].heightLast
      BY <1>1, <2>3, SMT
    <2>. HIDE DEF first
    <2>. QED
      BY <2>1, <2>2, <2>4 DEF Reaches
  <1>4. coins.best = Genesis /\ coins.old = Genesis /\ coins \in [best : Blocks \cup {None}, old : Blocks \cup {None}]
    BY <1>1, <1>2
  <1>5. DOMAIN count = {"crashes", "reindexes", "pruned"} /\ count.pruned \in Nat
    BY <1>2, SMT
  <1>6. Undoable(index, Genesis, count.pruned)
    BY ChainFacts DEF Undoable
  <1>. QED
    BY <1>1, <1>2, <1>3, <1>4, <1>5, <1>6 DEF UndoInv

\* Every step keeps the invariant.
LEMMA UndoStep ==
    ASSUME FilesInv, UndoInv, [Next]_vars
    PROVE  UndoInv'
  <1>1. CASE \E b \in Blocks : AcceptBlockHeader(b) \/ AcceptBlock(b)
    BY <1>1, NetworkUndo
  <1>2. CASE DisconnectTip \/ \E b \in Blocks : ConnectTip(b)
    BY <1>2, TipUndo
  <1>3. CASE \/ \E write, full \in BOOLEAN : FlushStateToDisk(write, full)
             \/ \E h \in {Height[b] : b \in Blocks} : PruneBlockchain(h)
    BY <1>3, PruningUndo
  <1>4. CASE WriteBlockIndex
    BY <1>4, WriteUndoIndex
  <1>5. CASE UnlinkPrunedFile \/ FlushCoins \/ FlushCoinsDone
    BY <1>5, CoinsUndo
  <1>6. CASE Shutdown \/ Crash
    BY <1>6, StopUndo
  <1>7. CASE Restart
    BY <1>7, RestartUndo
  <1>8. CASE RestartWithGenesis
    BY <1>8, GenesisUndo
  <1>9. CASE WipeTree \/ CleanupBlockRevFiles \/ WipeCoins
    BY <1>9, WipeUndo
  <1>10. CASE ImportBlock \/ ImportChild \/ ImportNextFile \/ ImportDone
    BY <1>10, ImportUndo
  <1>11. CASE UNCHANGED vars
    BY <1>11 DEF vars, files, UndoInv, Running
  <1>. QED
    BY <1>1, <1>2, <1>3, <1>4, <1>5, <1>6, <1>7, <1>8, <1>9, <1>10, <1>11 DEF Next

\* Both invariants hold at all times.
LEMMA FilesAndUndo == Spec => [](FilesInv /\ UndoInv)
  <1>1. Init => FilesInv /\ UndoInv
    <2>1. Cardinality(Blocks) \in Nat \ {0}
      BY FS_CardinalityType, FS_EmptySet, BlockFilesAssumption
    <2>. QED
      BY <2>1, FilesInitially, UndoInitially
  <1>2. FilesInv /\ UndoInv /\ [Next]_vars => (FilesInv /\ UndoInv)'
    BY FilesStep, UndoStep
  <1>. QED
    BY <1>1, <1>2, PTL DEF Spec

\* Whatever was pruned, downloaded again, lost in a crash or reindexed: every block
\* of the active chain that is higher than MIN_BLOCKS_TO_KEEP below a tip at which
\* files were pruned has its undo data in the index, so DisconnectTip finds it.
THEOREM AlwaysUndoable == Spec => []ActiveChainUndoable
  <1>1. UndoInv => ActiveChainUndoable
    BY DEF UndoInv, Undoable, HasUndo, ActiveChainUndoable, HaveUndo, HaveData
  <1>. QED
    BY <1>1, FilesAndUndo, PTL

\* After a flush of the coins that was torn apart, ReplayBlocks finds on disk, where the
\* block database says, the data of every block it needs, and the undo data of those
\* it rolls back, as far as pruning was not allowed to go.
THEOREM TornFlushAlwaysRecoverable == Spec => []TornFlushRecoverable
  <1>1. ASSUME FilesInv, UndoInv
        PROVE  TornFlushRecoverable
    <2>1. ASSUME NEW t \in {coins.best, coins.old}, NEW b \in Chain[t] \ {Genesis},
                 tree.index[Genesis] # None, Height[b] > count.pruned
          PROVE  DataOnDisk(b) /\ UndoOnDisk(b)
      <3>1. HasUndo(tree.index[b])
        BY <1>1, <2>1 DEF UndoInv, Undoable
      <3>2. b \in Blocks
        <4>1. t \in Blocks \cup {None}
          BY <1>1, <2>1 DEF UndoInv
        <4>. QED
          BY <2>1, <4>1, ChainInBlocks
      <3>. QED
        BY <1>1, <3>1, <3>2 DEF FilesInv, Sound, Agrees, HasUndo, DataOnDisk, UndoOnDisk
    <2>. QED
      BY <2>1 DEF TornFlushRecoverable
  <1>. QED
    BY <1>1, FilesAndUndo, PTL

-----------------------------------------------------------------------------
(* What a reindex finds. *)

\* What was read so far is in the index, or waits for its parent.
Visited ==
    \A f \in Files, s \in Slots :
        /\ blk[f][s] # None
        /\ f < import.file \/ (f = import.file /\ s < import.slot)
        => \/ HaveData(blk[f][s])
           \/ /\ blk[f][s] # Genesis
              /\ [parent |-> Parent[blk[f][s]], at |-> [file |-> f, slot |-> s]] \in import.unknown

\* An entry with the position of the block.
HasData(entry) == entry # None /\ entry.at # None

\* The blocks of a queue.
Queued(q) == {q[i] : i \in 1..Len(q)}

\* A block waits for a parent that is known only while the parent is in the queue.
Waiting == \A e \in import.unknown : index[e.parent] # None => e.parent \in Queued(import.queue)

\* The types of the progress of an import.
Begun ==
    /\ import.file \in Nat /\ import.slot \in Nat /\ import.queue \in Seq(Blocks)
    /\ \A e \in import.unknown : e.parent \in Blocks

\* While a reindex is in progress nothing is unlinked, and what was read is accounted for.
ImportInv ==
    /\ Begun
    /\ pc \in {"down", "genesis"} => ~reindex
    /\ pc \in {"wiped", "cleaned"} => import = NoImport /\ flush = NoFlush
    /\ reindex => flush.unlink = {} /\ Visited /\ Waiting

\* An import that has not begun.
LEMMA NothingImported == import = NoImport => Begun /\ Visited /\ Waiting
  <1>. SUFFICES ASSUME import = NoImport PROVE Begun /\ Visited /\ Waiting
    OBVIOUS
  <1>1. import.file = 0 /\ import.slot = 0 /\ import.queue = <<>> /\ import.unknown = {}
    BY DEF NoImport
  <1>2. \A f \in Files : ~(f < 0)
    BY BlockFilesAssumption, SMT DEF Files
  <1>3. \A s \in Slots : ~(s < 0)
    BY SMT DEF Slots
  <1>4. Visited /\ Waiting
    BY <1>1, <1>2, <1>3 DEF Visited, Waiting
  <1>5. 0 \in Nat /\ <<>> \in Seq(Blocks)
    BY SMT
  <1>. QED
    BY <1>1, <1>4, <1>5 DEF Begun

\* A step that is not one of the import's: during a reindex it takes nothing out of
\* the files or the index.
LEMMA ImportAside ==
    ASSUME FileTypes, ImportInv, UNCHANGED <<import, reindex>>,
           pc' \in {"idle", "flush", "write", "unlink", "coins", "rebuild"},
           reindex => /\ blk' = blk /\ flush'.unlink = {}
                      /\ \A c \in Blocks : /\ index'[c] # None => index[c] # None
                                           /\ HasData(index[c]) => HasData(index'[c])
    PROVE  ImportInv'
  <1>1. ASSUME reindex
        PROVE  flush'.unlink = {} /\ Visited' /\ Waiting'
    <2>1. /\ Visited /\ Waiting /\ blk' = blk /\ import' = import /\ flush'.unlink = {}
          /\ \A e \in import.unknown : e.parent \in Blocks
      BY <1>1 DEF ImportInv, Begun
    <2>2. \A f \in Files, s \in Slots : blk[f][s] # None => (HaveData(blk[f][s]) => HasData(index'[blk[f][s]]))
      <3>1. \A f \in Files, s \in Slots : blk[f][s] # None => blk[f][s] \in Blocks
        BY SMT DEF FileTypes
      <3>. QED
        BY <1>1, <3>1 DEF HaveData, HasData
    <2>3. Visited'
      BY <2>1, <2>2 DEF Visited, HaveData, HasData
    <2>4. Waiting'
      BY <1>1, <2>1 DEF Waiting
    <2>. QED
      BY <2>1, <2>3, <2>4
  <1>. QED
    BY <1>1 DEF ImportInv, Begun

\* A step after which nothing is imported yet.
LEMMA ImportBlank ==
    ASSUME import' = NoImport, flush' = NoFlush, pc' \in {"down", "genesis"} => ~reindex'
    PROVE  ImportInv'
  <1>1. Begun' /\ Visited' /\ Waiting'
    <2>1. (import = NoImport)'
      OBVIOUS
    <2>. QED
      BY <2>1, NothingImported, PTL
  <1>2. flush'.unlink = {}
    BY DEF NoFlush
  <1>. QED
    BY <1>1, <1>2 DEF ImportInv

\* The steps of a node that is not importing, and those of validation and of the
\* flush during an import.
LEMMA NodeImport ==
    ASSUME FilesInv, UndoInv, ImportInv,
           \/ \E b \in Blocks : AcceptBlockHeader(b) \/ AcceptBlock(b) \/ ConnectTip(b)
           \/ DisconnectTip
           \/ \E write, full \in BOOLEAN : FlushStateToDisk(write, full)
           \/ \E h \in {Height[b] : b \in Blocks} : PruneBlockchain(h)
           \/ WriteBlockIndex \/ UnlinkPrunedFile \/ FlushCoins \/ FlushCoinsDone
           \/ RestartWithGenesis
    PROVE  ImportInv'
  <1>0. FileTypes /\ Reaches(index, vinfo) /\ (reindex => flush.unlink = {})
    BY DEF FilesInv, UndoInv, ImportInv
  <1>1. ASSUME NEW b \in Blocks, AcceptBlockHeader(b) \/ AcceptBlock(b)
        PROVE  ImportInv'
    BY <1>0, <1>1, ImportAside DEF AcceptBlockHeader, AcceptBlock
  <1>2. ASSUME NEW b \in Blocks, ConnectTip(b)
        PROVE  ImportInv'
    <2>1. pc' = "flush" /\ UNCHANGED <<import, reindex, flush, blk>> /\ HaveData(b)
      BY <1>2 DEF ConnectTip
    <2>2. \A c \in Blocks : /\ index'[c] # None => index[c] # None
                            /\ HasData(index[c]) => HasData(index'[c])
      <3>1. CASE index' = index
        BY <3>1
      <3>2. CASE WriteUndo(b)
        <4>1. \A c \in Blocks : /\ index'[c] # None => index[c] # None
                                /\ index[c] # None => index'[c] # None /\ index'[c].at = index[c].at
          BY <1>0, <2>1, <3>2, WriteUndoReaches
        <4>. QED
          BY <4>1 DEF HasData
      <3>. QED
        BY <1>2, <3>1, <3>2 DEF ConnectTip
    <2>. QED
      BY <1>0, <2>1, <2>2, ImportAside
  <1>3. ASSUME NEW write \in BOOLEAN, NEW full \in BOOLEAN, FlushStateToDisk(write, full)
        PROVE  ImportInv'
    <2>. DEFINE P == IF check /\ ~reindex THEN FilesToPrune ELSE {}
    <2>1. /\ PruneFiles(P) /\ flush' = [unlink |-> P, full |-> full \/ P # {}]
          /\ pc' \in {"write", "idle"} /\ UNCHANGED <<import, reindex, blk>>
      BY <1>3 DEF FlushStateToDisk
    <2>2. ASSUME reindex
          PROVE  flush'.unlink = {} /\ \A c \in Blocks : index'[c] = index[c]
      <3>1. P = {}
        BY <2>2
      <3>2. flush' = [unlink |-> {}, full |-> full \/ P # {}] /\ PruneFiles({})
        BY <2>1, <3>1
      <3>. HIDE DEF P
      <3>. QED
        BY <3>2 DEF PruneFiles
    <2>. QED
      BY <1>0, <2>1, <2>2, ImportAside
  <1>4. ASSUME NEW h, PruneBlockchain(h)
        PROVE  ImportInv'
    BY <1>0, <1>4, ImportAside DEF PruneBlockchain
  <1>5. CASE DisconnectTip
    <2>1. pc' = "flush" /\ index' = index /\ UNCHANGED <<import, reindex, flush, blk>>
      BY <1>5 DEF DisconnectTip, files
    <2>. QED
      BY <1>0, <2>1, ImportAside
  <1>6. CASE WriteBlockIndex \/ FlushCoins \/ FlushCoinsDone
    <2>1. pc' \in {"unlink", "coins", "idle"} /\ index' = index /\ UNCHANGED <<import, reindex, flush, blk>>
      BY <1>6 DEF WriteBlockIndex, FlushCoins, FlushCoinsDone, files
    <2>. QED
      BY <1>0, <2>1, ImportAside
  <1>7. CASE UnlinkPrunedFile
    <2>1. pc' = "unlink" /\ UNCHANGED <<import, reindex>> /\ flush.unlink # {}
      BY <1>7 DEF UnlinkPrunedFile
    <2>. QED
      BY <1>0, <2>1, ImportAside
  <1>8. CASE RestartWithGenesis
    <2>1. pc' \in {"flush", "rebuild"} /\ UNCHANGED <<import, reindex>> /\ ~reindex
      BY <1>8 DEF RestartWithGenesis, ImportInv
    <2>. QED
      BY <1>0, <2>1, ImportAside
  <1>. QED
    BY <1>1, <1>2, <1>3, <1>4, <1>5, <1>6, <1>7, <1>8

\* Starting, stopping and wiping.
LEMMA StartImport ==
    ASSUME ImportInv,
           \/ Shutdown \/ Crash \/ Restart
           \/ WipeTree \/ CleanupBlockRevFiles \/ WipeCoins
    PROVE  ImportInv'
  <1>1. import' = NoImport /\ flush' = NoFlush
    BY DEF ImportInv, Shutdown, Crash, Restart, WipeTree, CleanupBlockRevFiles, WipeCoins, Blank
  <1>2. pc' \in {"down", "genesis"} => ~reindex'
    <2>1. CASE Shutdown \/ Crash
      BY <2>1 DEF Shutdown, Crash
    <2>2. CASE Restart
      BY <2>2 DEF Restart
    <2>3. CASE WipeTree \/ CleanupBlockRevFiles \/ WipeCoins
      BY <2>3 DEF WipeTree, CleanupBlockRevFiles, WipeCoins
    <2>. QED
      BY <2>1, <2>2, <2>3
  <1>. QED
    BY <1>1, <1>2, ImportBlank

\* What a queue holds.
LEMMA QueueFacts ==
    ASSUME NEW q \in Seq(Blocks), NEW c \in Blocks
    PROVE  /\ Queued(<<>>) = {} /\ <<c>> \in Seq(Blocks) /\ c \in Queued(<<c>>)
           /\ Append(q, c) \in Seq(Blocks)
           /\ Queued(q) \subseteq Queued(Append(q, c)) /\ c \in Queued(Append(q, c))
           /\ q # <<>> => /\ Tail(q) \in Seq(Blocks)
                          /\ \A x \in Queued(q) : x # Head(q) => x \in Queued(Tail(q))
  <1>1. Queued(<<>>) = {} /\ <<c>> \in Seq(Blocks) /\ c \in Queued(<<c>>)
    BY SMT DEF Queued
  <1>2. Append(q, c) \in Seq(Blocks) /\ Len(Append(q, c)) = Len(q) + 1 /\ Len(q) \in Nat
    BY SMT
  <1>3. Queued(q) \subseteq Queued(Append(q, c))
    BY <1>2, SMT DEF Queued
  <1>4. c \in Queued(Append(q, c))
    BY <1>2, SMT DEF Queued
  <1>5. ASSUME q # <<>>
        PROVE  /\ Tail(q) \in Seq(Blocks)
               /\ \A x \in Queued(q) : x # Head(q) => x \in Queued(Tail(q))
    <2>1. Tail(q) \in Seq(Blocks) /\ Len(Tail(q)) = Len(q) - 1
      BY <1>5, SMT
    <2>2. ASSUME NEW i \in 1..Len(q), q[i] # Head(q)
          PROVE  q[i] \in Queued(Tail(q))
      <3>1. i - 1 \in 1..Len(Tail(q)) /\ Tail(q)[i - 1] = q[i]
        BY <1>2, <1>5, <2>1, <2>2, SMT
      <3>. QED
        BY <3>1 DEF Queued
    <2>. QED
      BY <2>1, <2>2 DEF Queued
  <1>. QED
    BY <1>1, <1>2, <1>3, <1>4, <1>5

\* AcceptBlock of a block found on disk.
LEMMA AcceptKnownData ==
    ASSUME FileTypes, NEW b \in Blocks, NEW p \in Position, AcceptKnown(b, p)
    PROVE  /\ HasData(index'[b])
           /\ \A c \in Blocks : c # b => index'[c] = index[c]
           /\ blk' = blk /\ reindex' = reindex /\ flush' = flush /\ pc' \in {pc, "flush"}
  <1>1. CASE HaveData(b)
    BY <1>1 DEF AcceptKnown, files, HaveData, HasData
  <1>2. CASE ~HaveData(b)
    <2>1. /\ index' = [index EXCEPT ![b] = [at |-> p, undo |-> None]]
          /\ blk' = blk /\ reindex' = reindex /\ flush' = flush /\ pc' \in {pc, "flush"}
      BY <1>2 DEF AcceptKnown, StoreKnown, Received
    <2>2. index'[b] = [at |-> p, undo |-> None] /\ \A c \in Blocks : c # b => index'[c] = index[c]
      BY <2>1 DEF FileTypes
    <2>3. HasData([at |-> p, undo |-> None])
      <3>1. [at |-> p, undo |-> None].at = p
        BY SMT
      <3>. QED
        BY <3>1, EntryFacts DEF HasData
    <2>. QED
      BY <2>1, <2>2, <2>3
  <1>. QED
    BY <1>1, <1>2

\* A step of the import: a position is read, and its block is stored or waits.
LEMMA ImportStep ==
    ASSUME FilesInv, ImportInv, ImportBlock \/ ImportChild \/ ImportNextFile \/ ImportDone
    PROVE  ImportInv'
  <1>0. /\ pc = "idle" /\ reindex /\ flush.unlink = {} /\ Visited /\ Waiting /\ Begun
        /\ FileTypes /\ ImportTypes
        /\ DOMAIN import = {"file", "slot", "queue", "unknown"}
    BY DEF FilesInv, ImportInv, Importing, ImportBlock, ImportChild, ImportNextFile, ImportDone, ImportTypes
  <1>1. /\ \A f \in Files : f \in Nat
        /\ \A s \in Slots : s \in Nat
        /\ \A f \in Files, s \in Slots : blk[f][s] # None => blk[f][s] \in Blocks
    <2>1. \A f \in Files, s \in Slots : blk[f][s] # None => blk[f][s] \in Blocks
      BY <1>0, SMT DEF FileTypes
    <2>2. \A f \in Files : f \in Nat
      BY BlockFilesAssumption, SMT DEF Files
    <2>3. \A s \in Slots : s \in Nat
      BY SMT DEF Slots
    <2>. QED
      BY <2>1, <2>2, <2>3
  <1>2. ASSUME pc' \in {"idle", "flush"}, flush' = flush, Begun', Visited', Waiting'
        PROVE  ImportInv'
    BY <1>0, <1>2 DEF ImportInv
  <1>3. CASE ImportBlock
    <2>. DEFINE b == blk[import.file][import.slot]
                pos == [file |-> import.file, slot |-> import.slot]
                next == [import EXCEPT !.slot = @ + 1]
                new == [parent |-> Parent[b], at |-> pos]
    <2>1. /\ import.queue = <<>> /\ import.file \in Files /\ import.slot \in Slots /\ pos \in Position
      BY <1>3 DEF ImportBlock, Position
    <2>2. /\ next.file = import.file /\ next.slot = import.slot + 1
          /\ next.queue = import.queue /\ next.unknown = import.unknown
          /\ DOMAIN next = {"file", "slot", "queue", "unknown"}
      BY <1>0
    <2>3. import.slot + 1 \in Nat
      BY <1>0, SMT DEF Begun
    <2>4. \A f \in Files, s \in Slots :
              f < import.file \/ (f = import.file /\ s < import.slot + 1) =>
                  \/ f < import.file \/ (f = import.file /\ s < import.slot)
                  \/ f = import.file /\ s = import.slot
      BY <1>0, <1>1, SMT DEF Begun
    <2>5. CASE b = None /\ import' = next /\ UNCHANGED <<pc, files, flush, blk>>
      <3>1. /\ import'.file = import.file /\ import'.slot = import.slot + 1
            /\ import'.queue = import.queue /\ import'.unknown = import.unknown
            /\ index' = index /\ blk' = blk
        BY <2>2, <2>5 DEF files
      <3>. HIDE DEF next
      <3>2. Begun'
        BY <1>0, <2>3, <3>1 DEF Begun
      <3>3. Visited'
        <4>1. ASSUME NEW f \in Files, NEW s \in Slots, blk[f][s] # None,
                     f < import.file \/ (f = import.file /\ s < import.slot + 1)
              PROVE  f < import.file \/ (f = import.file /\ s < import.slot)
          BY <2>4, <2>5, <4>1
        <4>. QED
          BY <1>0, <3>1, <4>1 DEF Visited, HaveData
      <3>4. Waiting'
        BY <1>0, <3>1 DEF Waiting
      <3>. QED
        BY <1>0, <1>2, <2>5, <3>2, <3>3, <3>4
    <2>6. CASE /\ b \notin {None, Genesis} /\ index[Parent[b]] = None
               /\ import' = [next EXCEPT !.unknown = @ \cup {new}]
               /\ UNCHANGED <<pc, files, flush, blk>>
      <3>1. b \in Blocks \ {Genesis} /\ Parent[b] \in Blocks
        BY <1>1, <2>1, <2>6, BlockFilesAssumption
      <3>2. new.parent = Parent[b]
        BY SMT
      <3>. HIDE DEF next, new
      <3>3. /\ import'.file = import.file /\ import'.slot = import.slot + 1
            /\ import'.queue = import.queue /\ import'.unknown = import.unknown \cup {new}
            /\ index' = index /\ blk' = blk
        BY <2>2, <2>6 DEF files
      <3>4. Begun'
        BY <1>0, <2>3, <3>1, <3>2, <3>3 DEF Begun
      <3>5. Visited'
        <4>1. ASSUME NEW f \in Files, NEW s \in Slots, f = import.file, s = import.slot
              PROVE  /\ blk[f][s] # Genesis
                     /\ [parent |-> Parent[blk[f][s]], at |-> [file |-> f, slot |-> s]] = new
          BY <2>6, <4>1 DEF new
        <4>. HIDE DEF b
        <4>2. ASSUME NEW f \in Files, NEW s \in Slots, blk[f][s] # None,
                     f < import.file \/ (f = import.file /\ s < import.slot + 1)
              PROVE  \/ HaveData(blk[f][s])
                     \/ /\ blk[f][s] # Genesis
                        /\ [parent |-> Parent[blk[f][s]], at |-> [file |-> f, slot |-> s]]
                              \in import.unknown \cup {new}
          <5>1. CASE f = import.file /\ s = import.slot
            BY <4>1, <5>1
          <5>2. CASE f < import.file \/ (f = import.file /\ s < import.slot)
            BY <1>0, <4>2, <5>2 DEF Visited
          <5>. QED
            BY <2>4, <4>2, <5>1, <5>2
        <4>. QED
          BY <3>3, <4>2 DEF Visited, HaveData
      <3>6. Waiting'
        BY <1>0, <2>6, <3>2, <3>3 DEF Waiting
      <3>. QED
        BY <1>0, <1>2, <2>6, <3>4, <3>5, <3>6
    <2>7. CASE b # None /\ import' = [next EXCEPT !.queue = <<b>>] /\ AcceptKnown(b, pos)
      <3>0. b \in Blocks
        BY <1>1, <2>1, <2>7
      <3>. HIDE DEF next, new, pos
      <3>1. /\ import'.file = import.file /\ import'.slot = import.slot + 1
            /\ import'.queue = <<b>> /\ import'.unknown = import.unknown
        <4>. HIDE DEF b
        <4>. QED
          BY <2>2, <2>7
      <3>2. /\ HasData(index'[b])
            /\ \A c \in Blocks : c # b => index'[c] = index[c]
            /\ blk' = blk /\ reindex' = reindex /\ flush' = flush /\ pc' \in {pc, "flush"}
        <4>. HIDE DEF b
        <4>. QED
          BY <1>0, <2>1, <2>7, <3>0, AcceptKnownData
      <3>3. <<b>> \in Seq(Blocks) /\ b \in Queued(<<b>>) /\ Queued(import.queue) = {}
        <4>. HIDE DEF b
        <4>. QED
          BY <1>0, <2>1, <3>0, QueueFacts DEF Begun
      <3>4. Begun'
        BY <1>0, <2>3, <3>1, <3>3 DEF Begun
      <3>5. Visited'
        <4>1. ASSUME NEW f \in Files, NEW s \in Slots, blk[f][s] # None, HaveData(blk[f][s]) \/ blk[f][s] = b
              PROVE  HasData(index'[blk[f][s]])
          BY <1>1, <3>2, <4>1 DEF HaveData, HasData
        <4>2. blk[import.file][import.slot] = b
          OBVIOUS
        <4>. HIDE DEF b
        <4>3. ASSUME NEW f \in Files, NEW s \in Slots, blk[f][s] # None,
                     f < import.file \/ (f = import.file /\ s < import.slot + 1)
              PROVE  \/ HasData(index'[blk[f][s]])
                     \/ /\ blk[f][s] # Genesis
                        /\ [parent |-> Parent[blk[f][s]], at |-> [file |-> f, slot |-> s]] \in import.unknown
          <5>1. CASE f = import.file /\ s = import.slot
            BY <4>1, <4>2, <4>3, <5>1
          <5>2. CASE f < import.file \/ (f = import.file /\ s < import.slot)
            BY <1>0, <4>1, <4>3, <5>2 DEF Visited
          <5>. QED
            BY <2>4, <4>3, <5>1, <5>2
        <4>. QED
          BY <3>1, <3>2, <4>3 DEF Visited, HaveData, HasData
      <3>6. Waiting'
        <4>. HIDE DEF b
        <4>. QED
          BY <1>0, <3>1, <3>2, <3>3 DEF Waiting, Begun
      <3>. QED
        BY <1>0, <1>2, <3>2, <3>4, <3>5, <3>6
    <2>. QED
      BY <1>3, <2>5, <2>6, <2>7 DEF ImportBlock
  <1>4. CASE ImportChild
    <2>0. import.queue # <<>> /\ import.queue \in Seq(Blocks)
      BY <1>0, <1>4 DEF ImportChild, Begun
    <2>1. CASE /\ \A e \in import.unknown : e.parent # Head(import.queue)
               /\ import' = [import EXCEPT !.queue = Tail(@)]
               /\ UNCHANGED <<pc, files, flush, blk>>
      <3>1. /\ import'.file = import.file /\ import'.slot = import.slot
            /\ import'.queue = Tail(import.queue) /\ import'.unknown = import.unknown
            /\ index' = index /\ blk' = blk
        BY <1>0, <2>1 DEF files
      <3>2. /\ Tail(import.queue) \in Seq(Blocks)
            /\ \A x \in Queued(import.queue) : x # Head(import.queue) => x \in Queued(Tail(import.queue))
        BY <2>0, QueueFacts, BlockFilesAssumption
      <3>3. Begun'
        BY <1>0, <3>1, <3>2 DEF Begun
      <3>4. Visited'
        BY <1>0, <3>1 DEF Visited, HaveData
      <3>5. Waiting'
        BY <1>0, <2>1, <3>1, <3>2 DEF Waiting
      <3>. QED
        BY <1>0, <1>2, <2>1, <3>3, <3>4, <3>5
    <2>2. ASSUME NEW e \in import.unknown, NEW c, c = blk[e.at.file][e.at.slot], c # None,
                 import' = [import EXCEPT !.unknown = @ \ {e}, !.queue = Append(@, c)],
                 AcceptKnown(c, e.at)
          PROVE  ImportInv'
      <3>1. e.at \in Position /\ c \in Blocks
        BY <1>0, <1>1, <2>2 DEF ImportTypes, Position
      <3>2. /\ import'.file = import.file /\ import'.slot = import.slot
            /\ import'.queue = Append(import.queue, c) /\ import'.unknown = import.unknown \ {e}
        BY <1>0, <2>2
      <3>3. /\ HasData(index'[c])
            /\ \A x \in Blocks : x # c => index'[x] = index[x]
            /\ blk' = blk /\ reindex' = reindex /\ flush' = flush /\ pc' \in {pc, "flush"}
        BY <1>0, <2>2, <3>1, AcceptKnownData
      <3>4. /\ Append(import.queue, c) \in Seq(Blocks) /\ c \in Queued(Append(import.queue, c))
            /\ Queued(import.queue) \subseteq Queued(Append(import.queue, c))
        BY <2>0, <3>1, QueueFacts
      <3>5. Begun'
        BY <1>0, <3>2, <3>4 DEF Begun
      <3>6. Visited'
        <4>1. ASSUME NEW f \in Files, NEW s \in Slots, blk[f][s] # None,
                     f < import.file \/ (f = import.file /\ s < import.slot)
              PROVE  \/ HasData(index'[blk[f][s]])
                     \/ /\ blk[f][s] # Genesis
                        /\ [parent |-> Parent[blk[f][s]], at |-> [file |-> f, slot |-> s]] \in import.unknown \ {e}
          <5>. DEFINE place == [parent |-> Parent[blk[f][s]], at |-> [file |-> f, slot |-> s]]
          <5>1. CASE HaveData(blk[f][s]) \/ blk[f][s] = c
            BY <1>1, <3>3, <4>1, <5>1 DEF HaveData, HasData
          <5>2. place = e => blk[f][s] = c
            <6>1. place.at.file = f /\ place.at.slot = s
              BY SMT
            <6>. QED
              BY <2>2, <6>1
          <5>. HIDE DEF place
          <5>. QED
            BY <1>0, <4>1, <5>1, <5>2 DEF Visited, place
        <4>. QED
          BY <3>2, <3>3, <4>1 DEF Visited, HaveData, HasData
      <3>7. Waiting'
        BY <1>0, <3>2, <3>3, <3>4 DEF Waiting, Begun
      <3>. QED
        BY <1>0, <1>2, <3>3, <3>5, <3>6, <3>7
    <2>. QED
      BY <1>4, <2>1, <2>2 DEF ImportChild
  <1>5. CASE ImportNextFile
    <2>1. /\ import' = [import EXCEPT !.file = @ + 1, !.slot = 0] /\ import.slot \notin Slots
          /\ UNCHANGED <<pc, files, flush, blk>>
      BY <1>5 DEF ImportNextFile
    <2>2. /\ import'.file = import.file + 1 /\ import'.slot = 0
          /\ import'.queue = import.queue /\ import'.unknown = import.unknown
          /\ index' = index /\ blk' = blk
      BY <1>0, <2>1 DEF files
    <2>3. import.file + 1 \in Nat /\ 0 \in Nat
      BY <1>0, SMT DEF Begun
    <2>4. \A f \in Files, s \in Slots :
              f < import.file + 1 \/ (f = import.file + 1 /\ s < 0) =>
                  f < import.file \/ (f = import.file /\ s < import.slot)
      <3>1. Cardinality(Blocks) \in Nat
        BY FS_CardinalityType, BlockFilesAssumption
      <3>2. \A s \in Slots : s < import.slot /\ ~(s < 0)
        BY <1>0, <2>1, <3>1, SMT DEF Slots, Begun
      <3>3. \A f \in Files : f < import.file + 1 => f < import.file \/ f = import.file
        BY <1>0, <1>1, SMT DEF Begun
      <3>. QED
        BY <3>2, <3>3
    <2>5. Begun'
      BY <1>0, <2>2, <2>3 DEF Begun
    <2>6. Visited'
      BY <1>0, <2>2, <2>4 DEF Visited, HaveData
    <2>7. Waiting'
      BY <1>0, <2>2 DEF Waiting
    <2>. QED
      BY <1>0, <1>2, <2>1, <2>5, <2>6, <2>7
  <1>6. CASE ImportDone
    <2>1. pc' = "idle" /\ ~reindex' /\ import' = NoImport
      BY <1>0, <1>6 DEF ImportDone
    <2>2. Begun'
      <3>1. (import = NoImport)'
        BY <2>1
      <3>. QED
        BY <3>1, NothingImported, PTL
    <2>. QED
      BY <2>1, <2>2 DEF ImportInv
  <1>. QED
    BY <1>3, <1>4, <1>5, <1>6

\* No file left: every block that the files connect to the genesis block was read,
\* and none waits for a parent that is known.
LEMMA ReindexEnd ==
    ASSUME FilesInv, ImportInv, ImportDone
    PROVE  \A b \in Blocks : ConnectedOnDisk(b) => HaveData(b)
  <1>0. /\ reindex /\ Visited /\ Waiting /\ Begun /\ import.queue = <<>>
        /\ import.file \notin Files \/ ~Exists(import.file)
    BY DEF ImportDone, Importing, ImportInv
  <1>1. \A e \in import.unknown : index[e.parent] = None
    <2>1. Queued(<<>>) = {}
      BY SMT DEF Queued
    <2>. QED
      BY <1>0, <2>1 DEF Waiting
  <1>2. ASSUME NEW f \in Files, \A k \in 0..f : Exists(k)
        PROVE  f < import.file
    <2>1. ~(f < import.file) => import.file \in Files /\ import.file \in 0..f
      BY <1>0, BlockFilesAssumption, SMT DEF Files, Begun
    <2>. QED
      BY <1>0, <1>2, <2>1
  <1>. DEFINE Missed == {b \in Blocks : ConnectedOnDisk(b) /\ ~HaveData(b)}
  <1>3. Missed = {}
    <2>. SUFFICES ASSUME Missed # {} PROVE FALSE
      OBVIOUS
    <2>1. PICK b \in Missed : \A c \in Missed : Height[b] <= Height[c]
      <3>1. Missed \subseteq Blocks
        OBVIOUS
      <3>. HIDE DEF Missed
      <3>. QED
        BY <3>1, LowestBlock
    <2>2. b \in Blocks /\ ConnectedOnDisk(b) /\ ~HaveData(b)
      BY <2>1
    <2>3. b \in Chain[b]
      BY <2>2, ChainFacts
    <2>4. PICK f \in Files, s \in Slots : blk[f][s] = b /\ \A k \in 0..f : Exists(k)
      BY <2>2, <2>3 DEF ConnectedOnDisk
    <2>5. f < import.file /\ b # None
      BY <1>2, <2>2, <2>4, NoneAssumption
    <2>6. b # Genesis /\ [parent |-> Parent[b], at |-> [file |-> f, slot |-> s]] \in import.unknown
      BY <1>0, <2>2, <2>4, <2>5 DEF Visited
    <2>7. index[Parent[b]] = None
      <3>1. [parent |-> Parent[b], at |-> [file |-> f, slot |-> s]].parent = Parent[b]
        BY SMT
      <3>. QED
        BY <1>1, <2>6, <3>1
    <2>8. Parent[b] \in Blocks /\ Height[Parent[b]] \in Nat /\ Height[b] = Height[Parent[b]] + 1
      BY <2>2, <2>6, BlockFilesAssumption
    <2>9. ConnectedOnDisk(Parent[b])
      <3>1. Chain[Parent[b]] \subseteq Chain[b]
        BY <2>2, <2>6, ChainFacts
      <3>. QED
        BY <2>2, <3>1 DEF ConnectedOnDisk
    <2>10. Parent[b] \in Missed
      BY <2>7, <2>8, <2>9 DEF HaveData
    <2>11. ~(Height[b] <= Height[Parent[b]])
      BY <2>8, SMT
    <2>. QED
      BY <2>1, <2>10, <2>11
  <1>. QED
    BY <1>3

\* When ThreadImport has gone through the files, every block that they connect to the
\* genesis block has its data in the index, in whatever order the blocks were stored
\* and however often a reindex was interrupted and begun again.
THEOREM ReindexAlwaysComplete == Spec => ReindexComplete
  <1>1. Init => ImportInv
    <2>. SUFFICES ASSUME Init PROVE ImportInv
      OBVIOUS
    <2>1. import = NoImport /\ pc = "idle" /\ ~reindex
      BY DEF Init
    <2>. QED
      BY <2>1, NothingImported DEF ImportInv
  <1>2. ASSUME FilesInv, UndoInv, ImportInv, [Next]_vars
        PROVE  ImportInv'
    <2>1. CASE UNCHANGED vars
      <3>1. UNCHANGED <<pc, index, reindex, import, flush, blk>>
        BY <2>1 DEF vars, files
      <3>. QED
        BY <1>2, <3>1 DEF ImportInv, Begun, Visited, Waiting, HaveData
    <2>. QED
      BY <1>2, <2>1, NodeImport, StartImport, ImportStep DEF Next
  <1>3. ASSUME FilesInv, UndoInv, ImportInv, [Next]_vars
        PROVE  [reindex /\ ~reindex' /\ pc' # "down" =>
                   \A b \in Blocks : ConnectedOnDisk(b) => index[b] # None /\ index[b].at # None]_vars
    <2>1. CASE ImportDone
      BY <1>3, <2>1, ReindexEnd DEF HaveData
    <2>2. CASE Restart
      BY <1>3, <2>2 DEF ImportInv, Restart
    <2>3. CASE Shutdown \/ Crash
      BY <2>3 DEF Shutdown, Crash
    <2>4. CASE WipeCoins
      BY <2>4 DEF WipeCoins
    <2>5. ASSUME reindex, ~reindex', ~ImportDone, ~Restart, ~Shutdown, ~Crash, ~WipeCoins
          PROVE  FALSE
      <3>1. \A b, p : AcceptKnown(b, p) => reindex' = reindex
        BY DEF AcceptKnown
      <3>2. reindex' = reindex
        BY <1>3, <2>5, <3>1
           DEF Next, vars, AcceptBlockHeader, AcceptBlock, ConnectTip, DisconnectTip, FlushStateToDisk,
               PruneBlockchain, WriteBlockIndex, UnlinkPrunedFile, FlushCoins, FlushCoinsDone,
               RestartWithGenesis, WipeTree, CleanupBlockRevFiles, ImportBlock, ImportChild, ImportNextFile
      <3>. QED
        BY <2>5, <3>2
    <2>. QED
      BY <2>1, <2>2, <2>3, <2>4, <2>5
  <1>. QED
    BY <1>1, <1>2, <1>3, FilesAndUndo, PTL DEF Spec, ReindexComplete

=============================================================================
