----------------------------- MODULE AssetsCache -----------------------------
(***************************************************************************)
(* CAssetsCache (assets/assets.cpp): what the active chain says about      *)
(* assets - their metadata, the verifier strings of restricted assets, the *)
(* balance of each address (-assetindex) and the commands of               *)
(* RestrictedCache.  A block is connected or undone in an empty cache,     *)
(* the view, that reads through passets and the databases; Flush merges    *)
(* the view into passets; DumpCacheToDatabase writes passets out.          *)
(*                                                                         *)
(* The coins themselves are in CoinsCache: here every block is one whose   *)
(* inputs exist.  Owner tokens are left out.  Of the memory pool (module   *)
(* Mempool) there are only the locks that its reissues hold, which the     *)
(* checks of a block look at as well.                                      *)
(***************************************************************************)
EXTENDS RestrictedCache, Sequences, SequencesExt

CONSTANTS
    Names,          \* asset names, those of qualifiers included
    Restricted,     \* the restricted ones among them
    Addresses,
    Everyone,       \* the address of the key of a global restriction
    Txs,            \* the asset transactions of a block, in order
    PoolReissues,   \* bound: the reissues that the memory pool may hold
    MaxMoney, MaxUnit,
    None

VARIABLES
    passets,        \* the global cache, a layer
    passetsCache,   \* CLRUCache of metadata
    verifierCache,  \* passetsVerifierCache
    assetsdb,       \* name -> metadata and block, or None
    quantitydb,     \* balance of an asset and an address
    verifierdb,     \* prestricteddb: name -> verifier, or None
    undodb,         \* block -> name -> what its reissue replaced; None if nothing
    mapReissuedAssets \* name -> the reissue of it in the memory pool, or None

stored == <<assetsdb, quantitydb, verifierdb, undodb>>
avars == <<passets, passetsCache, verifierCache, stored, mapReissuedAssets>>
vars == <<rvars, avars>>

(***************************************************************************)
(* A transaction is [id, type, name, address, amount, units, reissuable,   *)
(* verifier, spends]: it issues or reissues an asset to an address, or     *)
(* transfers to it the coins it spends, which are transactions.  A reissue *)
(* with units -1 leaves them alone; verifier is None when it is not set.   *)
(***************************************************************************)
Pairs == Names \X Addresses
PairOf(tx) == <<tx.name, tx.address>>
Keep == -1      \* nUnits of a reissue that does not change them
Absent == -1    \* no entry in mapAssetsAddressAmount

\* A CAssetsCache.  touched: the pairs of the transfers, vSpentAssets and
\* vUndoAssetAmount, whose balances DumpCacheToDatabase writes.
EmptyLayer == [
    newAdd |-> [n \in Names |-> None],
    newRemove |-> [n \in Names |-> None],
    reissued |-> [n \in Names |-> None],
    reissueAdd |-> {},
    reissueRemove |-> {},
    verifierAdd |-> [n \in Names |-> None],
    verifierRemove |-> [n \in Names |-> None],
    amounts |-> [p \in Pairs |-> Absent],
    touched |-> {}]

-----------------------------------------------------------------------------
\* Reading through the view v, passets and the databases.

Removed(v, n) == v.newRemove[n] # None \/ passets.newRemove[n] # None

CheckIfAssetExists(v, n) ==
    /\ ~Removed(v, n)
    /\ \/ v.newAdd[n] # None
       \/ passets.newAdd[n] # None
       \/ passetsCache[n] # None
       \/ assetsdb[n] # None

First(answers) == LET found == SelectSeq(answers, LAMBDA x : x # None)
                  IN  IF found = <<>> THEN None ELSE Head(found)

\* Metadata of a reissue comes without the block of the issue: nHeight and
\* blockHash of the caller stay unset.
Reissued(layer, n) ==
    IF layer.reissued[n] = None THEN None ELSE [meta |-> layer.reissued[n], block |-> None]

GetAssetMetaDataIfExists(v, n) ==
    LET reissued == First(<<Reissued(v, n), Reissued(passets, n)>>)
        entry(layer) == IF layer.newAdd[n] = None THEN None
                        ELSE [meta |-> layer.newAdd[n].meta, block |-> layer.newAdd[n].block]
    IN  IF reissued # None THEN reissued
        ELSE IF Removed(v, n) THEN None
        ELSE First(<<entry(v), entry(passets), passetsCache[n], assetsdb[n]>>)

\* GetAssetVerifierStringIfExists; validation of transfers skips the view.
GetAssetVerifierString(v, n, skipView) ==
    LET view == IF skipView THEN EmptyLayer ELSE v
        removed == First(<<view.verifierRemove[n], passets.verifierRemove[n]>>)
    IN  IF removed # None THEN IF removed.undoing THEN removed.verifier ELSE None
        ELSE First(<<view.verifierAdd[n], passets.verifierAdd[n], verifierCache[n], verifierdb[n]>>)

\* GetBestAssetAddressAmount, zero when there is none.
Best(v, p) == IF v.amounts[p] # Absent THEN v.amounts[p]
              ELSE IF passets.amounts[p] # Absent THEN passets.amounts[p]
              ELSE quantitydb[p]

\* The names whose metadata, by existence check or in full, and the names
\* whose verifier is found only in the database; the answer is then cached.
InDatabaseOnly(n) ==
    /\ ~Removed(EmptyLayer, n)
    /\ passets.newAdd[n] = None /\ passetsCache[n] = None /\ assetsdb[n] # None

VerifierInDatabaseOnly(n) ==
    /\ passets.verifierAdd[n] = None /\ passets.verifierRemove[n] = None
    /\ verifierCache[n] = None /\ verifierdb[n] # None

CacheAnswers(names, verifiers) ==
    /\ passetsCache' = [n \in Names |->
          IF n \in names /\ InDatabaseOnly(n) THEN assetsdb[n] ELSE passetsCache[n]]
    /\ verifierCache' = [n \in Names |->
          IF n \in verifiers /\ VerifierInDatabaseOnly(n) THEN verifierdb[n] ELSE verifierCache[n]]

-----------------------------------------------------------------------------
\* Connecting the transactions of a block in the view v.

UnitsMatch(amount, units) == amount % 10^(MaxUnit - units) = 0

Switched(k) == k \in Keys /\ CheckFor(k)

\* ContextualCheckVerifierString: a verifier is "true" or one qualifier, whose
\* asset has to exist; the second form is for an output without an address.
KnownVerifier(v, verifier) ==
    verifier = "true" \/ (verifier \in Names /\ CheckIfAssetExists(v, verifier))

Satisfies(v, address, verifier) ==
    /\ KnownVerifier(v, verifier)
    /\ verifier = "true" \/ Switched(<<verifier, address>>)

\* Consensus::CheckTxAssets.
CheckNew(v, tx) ==
    /\ ~CheckIfAssetExists(v, tx.name)
    /\ tx.name \in Restricted => Satisfies(v, tx.address, tx.verifier)

\* Another reissue of the asset waits in the memory pool.
ReissueLocked(tx) == mapReissuedAssets[tx.name] \notin {None, tx}

CheckReissue(v, tx) ==
    LET asset == GetAssetMetaDataIfExists(v, tx.name)
        verifier == IF tx.verifier # None THEN tx.verifier
                    ELSE GetAssetVerifierString(v, tx.name, FALSE)
    IN  /\ ~ReissueLocked(tx)
        /\ tx.verifier # None => KnownVerifier(v, tx.verifier)
        /\ asset # None
        /\ asset.meta.reissuable
        /\ asset.meta.amount + tx.amount <= MaxMoney
        /\ UnitsMatch(tx.amount, asset.meta.units)
        /\ tx.units # Keep => tx.units >= asset.meta.units
        /\ tx.name \in Restricted /\ tx.amount > 0
              => verifier # None /\ Satisfies(v, tx.address, verifier)

CheckTransfer(v, tx) ==
    LET asset == GetAssetMetaDataIfExists(v, tx.name)
        verifier == GetAssetVerifierString(v, tx.name, TRUE)
    IN  /\ tx.amount > 0
        /\ tx.name \in Restricted =>
              /\ \A coin \in tx.spends : ~Switched(PairOf(coin))
              /\ ~Switched(<<tx.name, Everyone>>)
              /\ verifier # None /\ Satisfies(v, tx.address, verifier)
        /\ asset # None
        /\ UnitsMatch(tx.amount, asset.meta.units)

CheckTxAssets(v, tx) == CASE tx.type = "issue" -> CheckNew(v, tx)
                          [] tx.type = "reissue" -> CheckReissue(v, tx)
                          [] tx.type = "transfer" -> CheckTransfer(v, tx)

Over(new, old) == IF new = None THEN old ELSE new

\* An insertion into a set of issues keeps an entry of the same name.
AddNewAsset(v, tx, b) == [v EXCEPT
    !.newAdd[tx.name] = Over(@,
        [meta |-> [amount |-> tx.amount, units |-> tx.units, reissuable |-> tx.reissuable],
         block |-> b, address |-> tx.address]),
    !.newRemove[tx.name] = None,
    !.amounts[PairOf(tx)] = tx.amount]

\* An insertion into a set of verifiers keeps an entry of the same asset.
AddRestrictedVerifier(v, n, verifier) ==
    IF verifier = None THEN v ELSE [v EXCEPT
        !.verifierRemove[n] = None,
        !.verifierAdd[n] = IF @ = None THEN verifier ELSE @]

ReissuedMeta(meta, tx) == [amount |-> meta.amount + tx.amount,
                           units |-> IF tx.units = Keep THEN meta.units ELSE tx.units,
                           reissuable |-> tx.reissuable]

Without(entries, tx) == {e \in entries : e.tx # tx}
With(entries, tx, b) == IF \E e \in entries : e.tx = tx THEN entries ELSE entries \cup {[tx |-> tx, block |-> b]}

AddReissueAsset(v, tx) ==
    LET asset == GetAssetMetaDataIfExists(v, tx.name)
    IN  [v EXCEPT !.reissued[tx.name] = ReissuedMeta(asset.meta, tx),
                  !.reissueRemove = Without(@, tx),
                  !.reissueAdd = With(@, tx, asset.block),
                  !.amounts[PairOf(tx)] = Best(v, PairOf(tx)) + tx.amount]

NoUndo == [n \in Names |-> None]

\* What the block undo data keep of the asset a reissue changes.
UndoOfReissue(v, tx) ==
    [units |-> IF tx.units = Keep THEN Keep ELSE GetAssetMetaDataIfExists(v, tx.name).meta.units,
     verifierChanged |-> tx.verifier # None,
     verifier |-> IF tx.verifier = None THEN None ELSE GetAssetVerifierString(v, tx.name, FALSE)]

TrySpendCoin(coin, v) ==
    LET left == Best(v, PairOf(coin)) - coin.amount
    IN  IF coin.amount = 0 THEN v
        ELSE [v EXCEPT !.amounts[PairOf(coin)] = IF left < 0 THEN 0 ELSE left,
                       !.touched = @ \cup {PairOf(coin)}]

\* Mutant: the receiver is left out of the pairs to write.
AddTransferAsset_Untouched(v, tx) == [v EXCEPT !.amounts[PairOf(tx)] = Best(v, PairOf(tx)) + tx.amount]

AddTransferAsset(v, tx) ==
    [v EXCEPT !.amounts[PairOf(tx)] = Best(v, PairOf(tx)) + tx.amount,
              !.touched = @ \cup {PairOf(tx)}]

\* UpdateCoins and AddCoins for one transaction.
UpdateCoins(v, tx, b) ==
    CASE tx.type = "issue" -> AddRestrictedVerifier(AddNewAsset(v, tx, b), tx.name, tx.verifier)
      [] tx.type = "reissue" -> AddRestrictedVerifier(AddReissueAsset(v, tx), tx.name, tx.verifier)
      [] tx.type = "transfer" -> AddTransferAsset(FoldSet(TrySpendCoin, v, tx.spends), tx)

\* ConnectBlock: the view, the undo data and whether every check passed.
ConnectStep(s, tx, b) ==
    IF ~s.ok \/ ~CheckTxAssets(s.view, tx) THEN [s EXCEPT !.ok = FALSE]
    ELSE [ok |-> TRUE,
          view |-> UpdateCoins(s.view, tx, b),
          undo |-> IF tx.type # "reissue" \/ (tx.units = Keep /\ tx.verifier = None)
                         \/ s.undo[tx.name] # None
                   THEN s.undo
                   ELSE [s.undo EXCEPT ![tx.name] = UndoOfReissue(s.view, tx)]]

ConnectBlock(b) ==
    FoldLeft(LAMBDA s, tx : ConnectStep(s, tx, b),
             [ok |-> TRUE, view |-> EmptyLayer, undo |-> NoUndo], Txs[b])

-----------------------------------------------------------------------------
\* Undoing the transactions of a block in the view v.

\* An entry that is already there is kept.
RemoveRestrictedVerifier(v, n, verifier, undoingReissue) ==
    [v EXCEPT !.verifierAdd[n] = None,
              !.verifierRemove[n] = IF @ # None THEN @
                                    ELSE [verifier |-> verifier, undoing |-> undoingReissue]]

RemoveNewAsset(v, tx) ==
    IF ~CheckIfAssetExists(v, tx.name) THEN v
    ELSE [v EXCEPT !.newAdd[tx.name] = None,
                   !.newRemove[tx.name] = tx.address,
                   !.amounts[PairOf(tx)] = 0]

\* Mutant: the flag stays as the reissue set it.
RemoveReissueAsset_KeepsFlag(v, tx, undo) ==
    LET asset == GetAssetMetaDataIfExists(v, tx.name)
    IN  [v EXCEPT !.reissued[tx.name] = [asset.meta EXCEPT !.amount = @ - tx.amount],
                  !.reissueAdd = Without(@, tx),
                  !.reissueRemove = With(@, tx, asset.block),
                  !.amounts[PairOf(tx)] = Best(v, PairOf(tx)) - tx.amount]

RemoveReissueAsset(v, tx, undo) ==
    LET asset == GetAssetMetaDataIfExists(v, tx.name)
        meta == [amount |-> asset.meta.amount - tx.amount,
                 units |-> IF undo = None \/ undo.units = Keep THEN asset.meta.units ELSE undo.units,
                 reissuable |-> TRUE]
        undone == [v EXCEPT !.reissued[tx.name] = meta,
                            !.reissueAdd = Without(@, tx),
                            !.reissueRemove = With(@, tx, asset.block),
                            !.amounts[PairOf(tx)] = Best(v, PairOf(tx)) - tx.amount]
    IN  IF undo # None /\ undo.verifierChanged
        THEN RemoveRestrictedVerifier(undone, tx.name, undo.verifier, TRUE)
        ELSE undone

RemoveTransfer(v, tx) ==
    [v EXCEPT !.amounts[PairOf(tx)] = Best(v, PairOf(tx)) - tx.amount,
              !.touched = @ \cup {PairOf(tx)}]

\* UndoAssetCoin and AddBackSpentAsset.
UndoAssetCoin(coin, v) ==
    [v EXCEPT !.amounts[PairOf(coin)] = Best(v, PairOf(coin)) + coin.amount,
              !.touched = @ \cup {PairOf(coin)}]

\* DisconnectBlock fails, or finds the block unclean, unless this holds.
CanUndo(v, tx) ==
    CASE tx.type = "issue" -> TRUE
      [] tx.type = "reissue" ->
            CheckIfAssetExists(v, tx.name) =>
                /\ GetAssetMetaDataIfExists(v, tx.name) # None
                /\ Best(v, PairOf(tx)) >= tx.amount
      [] tx.type = "transfer" ->
            /\ Best(v, PairOf(tx)) >= tx.amount
            /\ \A coin \in tx.spends : coin.amount # 0

UndoTx(v, tx, undo) ==
    CASE tx.type = "issue" /\ tx.name \in Restricted ->
            RemoveRestrictedVerifier(RemoveNewAsset(v, tx), tx.name, tx.verifier, FALSE)
      [] tx.type = "issue" /\ tx.name \notin Restricted -> RemoveNewAsset(v, tx)
      [] tx.type = "reissue" ->
            IF CheckIfAssetExists(v, tx.name) THEN RemoveReissueAsset(v, tx, undo[tx.name]) ELSE v
      [] tx.type = "transfer" -> FoldSet(UndoAssetCoin, RemoveTransfer(v, tx), tx.spends)

DisconnectBlock(b) ==
    FoldLeft(LAMBDA s, tx : IF ~s.ok \/ ~CanUndo(s.view, tx) THEN [s EXCEPT !.ok = FALSE]
                            ELSE [s EXCEPT !.view = UndoTx(s.view, tx, undodb[b])],
             [ok |-> TRUE, view |-> EmptyLayer], Reverse(Txs[b]))

-----------------------------------------------------------------------------
\* CAssetsCache::Flush: the additions of the view, then its removals.

MergeEntries(mine, added, removed) ==
    LET kept == {e \in mine : \A r \in removed : r.tx # e.tx}
    IN  kept \cup {e \in added : \A m \in kept : m.tx # e.tx}

Merged(v) == [
    newAdd |-> [n \in Names |-> IF v.newRemove[n] # None THEN None
                                ELSE Over(passets.newAdd[n], v.newAdd[n])],
    newRemove |-> [n \in Names |-> IF v.newRemove[n] = None /\ v.newAdd[n] # None THEN None
                                   ELSE Over(passets.newRemove[n], v.newRemove[n])],
    reissued |-> [n \in Names |-> Over(v.reissued[n], passets.reissued[n])],
    reissueAdd |-> MergeEntries(passets.reissueAdd, v.reissueAdd, v.reissueRemove),
    reissueRemove |-> MergeEntries(passets.reissueRemove, v.reissueRemove, v.reissueAdd),
    verifierAdd |-> [n \in Names |-> IF v.verifierRemove[n] # None THEN None
                                     ELSE Over(v.verifierAdd[n], passets.verifierAdd[n])],
    verifierRemove |-> [n \in Names |-> IF v.verifierRemove[n] # None THEN v.verifierRemove[n]
                                        ELSE IF v.verifierAdd[n] # None THEN None
                                        ELSE passets.verifierRemove[n]],
    amounts |-> [p \in Pairs |-> IF v.amounts[p] # Absent THEN v.amounts[p] ELSE passets.amounts[p]],
    touched |-> passets.touched \cup v.touched]

NamesOf(b, types) == {tx.name : tx \in {t \in ToSet(Txs[b]) : t.type \in types}}

\* The keys the checks of a block look up: of its commands, of the
\* addresses and the assets it transfers, of the verifiers it meets.
AskedKeys(b) == {k \in Keys : \/ Commands[b][k] # "unset"
                              \/ \E tx \in ToSet(Txs[b]) :
                                    tx.name \in Restricted /\ (k[1] \notin Names \/ k[1] = tx.name)}

\* The qualifiers that the verifiers of a block name, old and new.
Qualifiers(b) ==
    LET met(tx) == {tx.verifier} \cup
            IF tx.type = "transfer" \/ (tx.type = "reissue" /\ tx.verifier = None /\ tx.amount > 0)
            THEN {GetAssetVerifierString(EmptyLayer, tx.name, TRUE)} ELSE {}
    IN  Names \cap UNION {met(tx) : tx \in {t \in ToSet(Txs[b]) : t.name \in Restricted}}

\* ConnectTip: the reissues of the block lose their locks.
ConnectTip(b) ==
    LET result == ConnectBlock(b)
        named == NamesOf(b, {"reissue", "transfer"})
    IN  /\ ConnectCommands(b, AskedKeys(b))
        /\ result.ok
        /\ passets' = Merged(result.view)
        /\ undodb' = [undodb EXCEPT ![b] = IF @ = NoUndo THEN result.undo ELSE @]
        /\ mapReissuedAssets' = [n \in Names |-> IF mapReissuedAssets[n] \in ToSet(Txs[b]) THEN None
                                                 ELSE mapReissuedAssets[n]]
        /\ CacheAnswers({n \in named : passets.reissued[n] = None} \cup Qualifiers(b), named)
        /\ UNCHANGED <<assetsdb, quantitydb, verifierdb>>

\* DisconnectTip.
DisconnectTip ==
    LET result == DisconnectBlock(tip)
    IN  /\ DisconnectCommands
        /\ result.ok
        /\ passets' = Merged(result.view)
        /\ CacheAnswers(NamesOf(tip, {"issue", "reissue"}), {})
        /\ UNCHANGED <<stored, mapReissuedAssets>>

-----------------------------------------------------------------------------
\* DumpCacheToDatabase.

EntriesOf(entries, n) == {e \in entries : e.tx.name = n}

\* The block that is written: the set is visited in the order of the outpoints.
LastBlock(entries) == (CHOOSE e \in entries : \A f \in entries : f.tx.id <= e.tx.id).block

\* Mutant: also those of an asset that is removed.
UndoneReissues_All(n) == IF passets.reissued[n] = None THEN {} ELSE EntriesOf(passets.reissueRemove, n)

\* The undone reissues that are written: those of an asset that stays.
UndoneReissues(n) == IF passets.reissued[n] = None \/ passets.newRemove[n] # None THEN {}
                     ELSE EntriesOf(passets.reissueRemove, n)

NewReissues(n) == IF passets.reissued[n] = None THEN {} ELSE EntriesOf(passets.reissueAdd, n)

DumpedData(n) ==
    CASE UndoneReissues(n) # {} ->
            [meta |-> passets.reissued[n], block |-> LastBlock(UndoneReissues(n))]
      [] UndoneReissues(n) = {} /\ NewReissues(n) # {} ->
            [meta |-> passets.reissued[n], block |-> LastBlock(NewReissues(n))]
      [] OTHER ->
            IF passets.newAdd[n] # None
            THEN [meta |-> passets.newAdd[n].meta, block |-> passets.newAdd[n].block]
            ELSE IF passets.newRemove[n] # None THEN None ELSE assetsdb[n]

DumpedCache(n) ==
    IF UndoneReissues(n) \cup NewReissues(n) # {} THEN None
    ELSE IF passets.newAdd[n] # None
         THEN [meta |-> passets.newAdd[n].meta, block |-> passets.newAdd[n].block]
    ELSE IF passets.newRemove[n] # None THEN None ELSE passetsCache[n]

\* A written balance of zero is one that is erased.
DumpedQuantity(p) ==
    LET n == p[1]
        a == p[2]
        written == \/ p \in passets.touched
                   \/ \E e \in NewReissues(n) : e.tx.address = a /\ passets.amounts[p] > 0
                   \/ \E e \in UndoneReissues(n) : e.tx.address = a
    IN  IF written /\ passets.amounts[p] # Absent THEN passets.amounts[p]
        ELSE IF passets.newAdd[n] # None /\ passets.newAdd[n].address = a
             THEN passets.newAdd[n].meta.amount
        ELSE IF passets.newRemove[n] = a THEN 0 ELSE quantitydb[p]

\* Mutant: the verifier of an undone reissue is erased, not put back.
DumpedVerifier_Erases(n) ==
    IF passets.verifierRemove[n] # None THEN None
    ELSE IF passets.verifierAdd[n] # None THEN passets.verifierAdd[n]
    ELSE IF passets.newRemove[n] # None THEN None ELSE verifierdb[n]

DumpedVerifier(n) ==
    LET removed == passets.verifierRemove[n]
    IN  IF removed # None THEN IF removed.undoing THEN removed.verifier ELSE None
        ELSE IF passets.verifierAdd[n] # None THEN passets.verifierAdd[n]
        ELSE IF passets.newRemove[n] # None THEN None ELSE verifierdb[n]

DumpCacheToDatabase ==
    /\ DumpCommands
    /\ assetsdb' = [n \in Names |-> DumpedData(n)]
    /\ passetsCache' = [n \in Names |-> DumpedCache(n)]
    /\ quantitydb' = [p \in Pairs |-> DumpedQuantity(p)]
    /\ verifierdb' = [n \in Names |-> DumpedVerifier(n)]
    /\ verifierCache' = [n \in Names |->
          IF passets.verifierAdd[n] # None \/ passets.verifierRemove[n] # None THEN None
          ELSE verifierCache[n]]
    /\ passets' = EmptyLayer
    /\ UNCHANGED <<undodb, mapReissuedAssets>>

\* An RPC command reads an asset; a full cache drops one.
QueryAsset(n) ==
    /\ passets.reissued[n] = None
    /\ CacheAnswers({n}, {})
    /\ UNCHANGED <<rvars, passets, stored, mapReissuedAssets>>

EvictAsset(n) ==
    /\ passetsCache' = [passetsCache EXCEPT ![n] = None]
    /\ verifierCache' = [verifierCache EXCEPT ![n] = None]
    /\ UNCHANGED <<rvars, passets, stored, mapReissuedAssets>>

-----------------------------------------------------------------------------
\* The reissues in the memory pool.

\* The transactions of the chain up to a block: their inputs are spent.
Confirmed[b \in Blocks] ==
    IF b = Genesis THEN {} ELSE Confirmed[Parent[b]] \cup ToSet(Txs[b])

\* The pool accepts a reissue that is valid now.  The answers it leaves in
\* the caches are those of QueryAsset and QueryCommand.
LockReissue(tx) ==
    /\ tx \notin Confirmed[tip]
    /\ mapReissuedAssets[tx.name] = None
    /\ CheckReissue(EmptyLayer, tx)
    /\ mapReissuedAssets' = [mapReissuedAssets EXCEPT ![tx.name] = tx]
    /\ UNCHANGED <<rvars, passets, passetsCache, verifierCache, stored>>

\* It leaves the pool without a block: replaced, evicted or expired.
UnlockReissue(n) ==
    /\ mapReissuedAssets[n] # None
    /\ mapReissuedAssets' = [mapReissuedAssets EXCEPT ![n] = None]
    /\ UNCHANGED <<rvars, passets, passetsCache, verifierCache, stored>>

Init ==
    /\ RestrictedInit
    /\ passets = EmptyLayer
    /\ passetsCache = [n \in Names |-> None]
    /\ verifierCache = [n \in Names |-> None]
    /\ assetsdb = [n \in Names |-> None]
    /\ quantitydb = [p \in Pairs |-> 0]
    /\ verifierdb = [n \in Names |-> None]
    /\ undodb = [b \in Blocks |-> NoUndo]
    /\ mapReissuedAssets = [n \in Names |-> None]

Next ==
    \/ \E b \in Blocks : ConnectTip(b)
    \/ DisconnectTip
    \/ DumpCacheToDatabase
    \/ \E n \in Names : QueryAsset(n) \/ EvictAsset(n) \/ UnlockReissue(n)
    \/ \E tx \in PoolReissues : LockReissue(tx)
    \/ \E k \in Keys : (QueryCommand(k) \/ EvictCommand(k)) /\ UNCHANGED avars

Spec == Init /\ [][Next]_vars

-----------------------------------------------------------------------------
(***************************************************************************)
(* The reference: the transactions of the active chain applied to an empty *)
(* ledger, with no caches, no undoing and no database.                     *)
(***************************************************************************)
EmptyLedger == [asset |-> [n \in Names |-> None], verifier |-> [n \in Names |-> None], coins |-> {}]

LedgerStep(l, tx) ==
    LET verifier == Over(tx.verifier, l.verifier[tx.name])
        meta == IF tx.type = "issue"
                THEN [amount |-> tx.amount, units |-> tx.units, reissuable |-> tx.reissuable]
                ELSE ReissuedMeta(l.asset[tx.name], tx)
    IN  IF tx.type = "transfer" THEN [l EXCEPT !.coins = (@ \ tx.spends) \cup {tx}]
        ELSE [asset |-> [l.asset EXCEPT ![tx.name] = meta],
              verifier |-> [l.verifier EXCEPT ![tx.name] = verifier],
              coins |-> l.coins \cup {tx}]

Ledger[b \in Blocks] ==
    IF b = Genesis THEN EmptyLedger ELSE FoldLeft(LedgerStep, Ledger[Parent[b]], Txs[b])

Balance(b, p) == MapThenSumSet(LAMBDA tx : tx.amount, {tx \in Ledger[b].coins : PairOf(tx) = p})

\* Whether a transaction may follow the ledger l in a block after parent, at
\* which the keys on are assigned.  A transfer goes by the verifier that its
\* asset had at the parent, and so do all by the commands.
Admissible(l, parent, on, tx) ==
    LET asset == l.asset[tx.name]
        exists(verifier) == verifier = "true" \/ (verifier \in Names /\ l.asset[verifier] # None)
        holds(verifier) == /\ exists(verifier)
                           /\ verifier = "true" \/ <<verifier, tx.address>> \in on
        restricted == tx.name \in Restricted
    IN  CASE tx.type = "issue" -> asset = None /\ (restricted => holds(tx.verifier))
          [] tx.type = "reissue" ->
                /\ asset # None /\ asset.reissuable
                /\ asset.amount + tx.amount <= MaxMoney
                /\ UnitsMatch(tx.amount, asset.units)
                /\ tx.units = Keep \/ tx.units >= asset.units
                /\ tx.verifier # None => exists(tx.verifier)
                /\ restricted /\ tx.amount > 0 => holds(Over(tx.verifier, l.verifier[tx.name]))
          [] tx.type = "transfer" ->
                /\ asset # None /\ tx.amount > 0 /\ UnitsMatch(tx.amount, asset.units)
                /\ restricted =>
                      /\ \A coin \in tx.spends : PairOf(coin) \notin on
                      /\ <<tx.name, Everyone>> \notin on
                      /\ holds(parent.verifier[tx.name])

\* A block is valid after its parent, whatever the node did before.
Valid(b) ==
    LET on == Assigned[Parent[b]]
        parent == Ledger[Parent[b]]
        ledger(i) == FoldLeft(LedgerStep, parent, SubSeq(Txs[b], 1, i - 1))
    IN  /\ \A k \in Keys : (Commands[b][k] = "on" => k \notin on) /\ (Commands[b][k] = "off" => k \in on)
        /\ \A i \in DOMAIN Txs[b] : Admissible(ledger(i), parent, on, Txs[b][i])

\* A reissue of the block is not the one that locks its asset.
LockedOut(b) ==
    \E tx \in ToSet(Txs[b]) : tx.type = "reissue" /\ ReissueLocked(tx)

\* The block issues a name and comes back to it, while passets has yet to
\* remove an earlier issue of the name from the database.
Shadowed(b) ==
    \E i, j \in DOMAIN Txs[b] :
        LET n == Txs[b][i].name
        IN  /\ i < j
            /\ Txs[b][i].type = "issue"
            /\ n \in {Txs[b][j].name, Txs[b][j].verifier}
            /\ passets.newRemove[n] # None

-----------------------------------------------------------------------------
\* Nothing is both to be added to and to be removed from the databases, and
\* the cache of metadata answers as the database does, also after a dump.
CachesCoherent ==
    \A n \in Names :
        /\ passets.newAdd[n] = None \/ passets.newRemove[n] = None
        /\ passets.verifierAdd[n] = None \/ passets.verifierRemove[n] = None
        /\ passetsCache[n] = None \/ passetsCache[n] = assetsdb[n]

\* The caches are coherent, no reissue is both pending and undone, a pending
\* reissue has its metadata, and no balance is negative.
TypeOK ==
    /\ tip \in Blocks
    /\ CachesCoherent
    /\ \A e \in passets.reissueAdd, f \in passets.reissueRemove : e.tx # f.tx
    /\ \A e \in passets.reissueAdd \cup passets.reissueRemove : passets.reissued[e.tx.name] # None
    /\ \A p \in Pairs : passets.amounts[p] \in -1..MaxMoney /\ quantitydb[p] \in 0..MaxMoney
    /\ \A p \in passets.touched : passets.amounts[p] # Absent

(***************************************************************************)
(* After any connecting, undoing and dumping, validation finds an asset    *)
(* exactly when the active chain issued it, with the amount, units and     *)
(* reissuable flag the chain gave it (CheckIfAssetExists,                  *)
(* GetAssetMetaDataIfExists).                                              *)
(***************************************************************************)
MetadataFollowsChain ==
    \A n \in Names :
        LET found == GetAssetMetaDataIfExists(EmptyLayer, n)
        IN  IF Ledger[tip].asset[n] = None THEN ~CheckIfAssetExists(EmptyLayer, n)
            ELSE CheckIfAssetExists(EmptyLayer, n) /\ found # None /\ found.meta = Ledger[tip].asset[n]

\* The verifier string of an existing restricted asset is the one the
\* chain last gave it, also after the reissue that changed it is undone.
VerifiersFollowChain ==
    \A n \in Names : GetAssetVerifierString(EmptyLayer, n, TRUE) = Ledger[tip].verifier[n]

\* The balance of an address is the sum of its unspent asset coins.
BalancesFollowChain == \A p \in Pairs : Best(EmptyLayer, p) = Balance(tip, p)

\* A child of the tip passes the asset checks exactly when it is valid on its
\* chain: the verdict does not depend on what this node connected, undid or
\* dumped before.  There are two exceptions in the code: a reissue in the
\* memory pool locks out a block with another one (mapReissuedAssets), and the
\* removals of passets are looked at before the additions of the view, so that
\* a shadowed block does not see the asset it issues.
VerdictFollowsChain ==
    \A b \in Blocks \ {Genesis} :
        Parent[b] = tip /\ ~Shadowed(b)
            => ((VerifyChange(b) /\ ConnectBlock(b).ok) <=> (Valid(b) /\ ~LockedOut(b)))

=============================================================================
