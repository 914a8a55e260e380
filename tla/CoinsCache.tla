----------------------------- MODULE CoinsCache -----------------------------
(***************************************************************************)
(* The stack of coin views of src/coins.cpp and src/txdb.cpp, as the node  *)
(* builds it: the coin database (CCoinsViewDB), the global cache pcoinsTip *)
(* over it, and over pcoinsTip the temporary CCoinsViewCache in which a    *)
(* block is connected, disconnected or tested and then flushed or dropped. *)
(*                                                                         *)
(* A cache maps an outpoint to an entry or to NoEntry.  An entry carries   *)
(* the DIRTY and FRESH flags whose misuse silently resurrects or loses     *)
(* coins, which is what this module is about.  A write of the database is  *)
(* one step here; module ChainstateFlush splits it into its batches.       *)
(***************************************************************************)
CONSTANTS Outpoints,    \* COutPoint values
          Coins,        \* Coin values an output may carry
          Unspendable,  \* those whose scriptPubKey.IsUnspendable()
          Blocks,       \* block hashes
          Spent,        \* a spent (cleared) coin, and a coin that is not there
          NoEntry,      \* cacheCoins.end()
          Null          \* the null uint256

Entry == [coin : Coins \cup {Spent}, dirty : BOOLEAN, fresh : BOOLEAN]

ASSUME ConstantsAssumption ==
    /\ Spent \notin Coins
    /\ Unspendable \subseteq Coins
    /\ NoEntry \notin Entry
    /\ Null \notin Blocks

VARIABLES db,        \* coins in the database
          dbBest,    \* DB_BEST_BLOCK
          tip,       \* pcoinsTip.cacheCoins
          tipBest,   \* pcoinsTip.hashBlock
          view,      \* cacheCoins of the temporary view
          viewBest,  \* its hashBlock
          open       \* does the temporary view exist?

vars == <<db, dbBest, tip, tipBest, view, viewBest, open>>

NoEntries == [o \in Outpoints |-> NoEntry]

Cache == [Outpoints -> Entry \cup {NoEntry}]

-----------------------------------------------------------------------------
(* CCoinsViewCache, as functions of a cache and of the coins of its parent. *)

\* GetCoin: the coin a cache answers over a parent that answers base.
CoinIn(cache, base, o) == IF cache[o] = NoEntry THEN base[o] ELSE cache[o].coin

CoinsOf(cache, base) == [o \in Outpoints |-> CoinIn(cache, base, o)]

\* FetchCoin: a miss copies the parent's coin into the cache, without flags.
\* GetCoin of the parent is false for a spent coin, so none is ever copied.
FetchCoin(cache, base, o) ==
    IF cache[o] = NoEntry /\ base[o] # Spent
    THEN [cache EXCEPT ![o] = [coin |-> base[o], dirty |-> FALSE, fresh |-> FALSE]]
    ELSE cache

AddCoin_FreshOverDirty(cache, o, c, possible_overwrite) ==
    IF c \in Unspendable THEN cache
    ELSE [cache EXCEPT ![o] =
            [coin |-> c, dirty |-> TRUE,
             fresh |-> ~possible_overwrite \/ (cache[o] # NoEntry /\ cache[o].fresh)]]

\* AddCoin: an entry is FRESH when the caller promises that no unspent version
\* exists and the cache does not hold a spent version it must still pass down.
AddCoin(cache, o, c, possible_overwrite) ==
    IF c \in Unspendable THEN cache
    ELSE [cache EXCEPT ![o] =
            [coin |-> c, dirty |-> TRUE,
             fresh |-> \/ ~possible_overwrite /\ (cache[o] = NoEntry \/ ~cache[o].dirty)
                       \/ cache[o] # NoEntry /\ cache[o].fresh]]

\* SpendCoin: a FRESH entry disappears, any other stays as a spent DIRTY one.
SpendCoin(cache, base, o) ==
    LET it == FetchCoin(cache, base, o)[o] IN
    IF it = NoEntry THEN cache
    ELSE [cache EXCEPT ![o] =
            IF it.fresh THEN NoEntry
            ELSE [coin |-> Spent, dirty |-> TRUE, fresh |-> FALSE]]

\* The std::logic_error of BatchWrite.
FreshMisapplied(child, us) ==
    /\ child # NoEntry /\ child.dirty /\ child.fresh
    /\ us # NoEntry /\ us.coin # Spent

\* BatchWrite into a cache, for one entry: what our entry us becomes when the
\* child cache passes down child.
MergeEntry(child, us) ==
    IF child = NoEntry \/ ~child.dirty THEN us
    ELSE IF us = NoEntry
         THEN IF child.fresh /\ child.coin = Spent THEN NoEntry
              ELSE [coin |-> child.coin, dirty |-> TRUE, fresh |-> child.fresh]
         ELSE IF us.fresh /\ child.coin = Spent THEN NoEntry
              ELSE [coin |-> child.coin, dirty |-> TRUE, fresh |-> us.fresh]

BatchWrite(child, us) == [o \in Outpoints |-> MergeEntry(child[o], us[o])]

\* BatchWrite into the database: only DIRTY entries are written or erased.
DBBatchWrite(child, coins) ==
    [o \in Outpoints |-> IF child[o] # NoEntry /\ child[o].dirty
                         THEN child[o].coin ELSE coins[o]]

Uncache_Dirty(cache, o) == [cache EXCEPT ![o] = NoEntry]

\* Uncache: only an entry without flags may go.
Uncache(cache, o) ==
    IF cache[o] # NoEntry /\ ~cache[o].dirty /\ ~cache[o].fresh
    THEN [cache EXCEPT ![o] = NoEntry] ELSE cache

-----------------------------------------------------------------------------
(* The three layers. *)

TipCoins  == CoinsOf(tip, db)
ViewCoins == CoinsOf(view, TipCoins)

\* GetBestBlock of each cache asks its parent when it has no answer itself.
TipBestBlock  == IF tipBest = Null THEN dbBest ELSE tipBest
ViewBestBlock == IF viewBest = Null THEN TipBestBlock ELSE viewBest

Init == /\ db = [o \in Outpoints |-> Spent] /\ dbBest = Null
        /\ tip = NoEntries /\ tipBest = Null
        /\ view = NoEntries /\ viewBest = Null
        /\ open = FALSE

\* A look-up in the temporary view that misses is a look-up in pcoinsTip.
FetchThrough(o) ==
    tip' = IF view[o] = NoEntry THEN FetchCoin(tip, db, o) ELSE tip

OpenView == /\ ~open /\ open' = TRUE
            /\ view' = NoEntries /\ viewBest' = Null
            /\ UNCHANGED <<db, dbBest, tip, tipBest>>

\* AccessCoin, HaveCoin, GetCoin of the temporary view.
AccessCoin(o) == /\ open
                 /\ FetchThrough(o)
                 /\ view' = FetchCoin(view, TipCoins, o)
                 /\ UNCHANGED <<db, dbBest, tipBest, viewBest, open>>

\* The same of pcoinsTip, read directly by the mempool and the RPCs.
AccessTipCoin(o) == /\ ~open
                    /\ tip' = FetchCoin(tip, db, o)
                    /\ UNCHANGED <<db, dbBest, tipBest, view, viewBest, open>>

\* AddCoins on a coinbase: possible_overwrite is always set.
AddCoinbaseOutput(o, c) ==
    /\ open
    /\ view' = AddCoin(view, o, c, TRUE)
    /\ UNCHANGED <<db, dbBest, tip, tipBest, viewBest, open>>

\* AddCoins on any other transaction while connecting: the outputs of a new
\* transaction id do not exist yet, which is what the callers promise and what
\* keeps AddCoin from throwing (coins.cpp:88).
AddTxOutput(o, c) ==
    /\ open
    /\ ViewCoins[o] = Spent
    /\ view' = AddCoin(view, o, c, FALSE)
    /\ UNCHANGED <<db, dbBest, tip, tipBest, viewBest, open>>

\* ApplyTxInUndo, and AddCoins with check set: HaveCoin is asked first, which
\* fills the caches, and its answer is possible_overwrite.
AddCheckedCoin(o, c) ==
    /\ open
    /\ FetchThrough(o)
    /\ view' = AddCoin(FetchCoin(view, TipCoins, o), o, c, ViewCoins[o] # Spent)
    /\ UNCHANGED <<db, dbBest, tipBest, viewBest, open>>

SpendViewCoin(o) == /\ open
                    /\ FetchThrough(o)
                    /\ view' = SpendCoin(view, TipCoins, o)
                    /\ UNCHANGED <<db, dbBest, tipBest, viewBest, open>>

GetBestBlock == /\ open
                /\ viewBest' = ViewBestBlock
                /\ tipBest' = IF viewBest = Null THEN TipBestBlock ELSE tipBest
                /\ UNCHANGED <<db, dbBest, tip, view, open>>

SetBestBlock(b) == /\ open
                   /\ viewBest' = b
                   /\ UNCHANGED <<db, dbBest, tip, tipBest, view, open>>

\* Flush of the temporary view, at the end of ConnectTip and DisconnectTip,
\* which have set its best block; the view is then destroyed.
FlushView == /\ open /\ viewBest # Null
             /\ ~ \E o \in Outpoints : FreshMisapplied(view[o], tip[o])
             /\ tip' = BatchWrite(view, tip) /\ tipBest' = viewBest
             /\ view' = NoEntries /\ viewBest' = Null /\ open' = FALSE
             /\ UNCHANGED <<db, dbBest>>

\* The temporary view is destroyed without a Flush.
DropView == /\ open
            /\ view' = NoEntries /\ viewBest' = Null /\ open' = FALSE
            /\ UNCHANGED <<db, dbBest, tip, tipBest>>

\* pcoinsTip->Flush() in FlushStateToDisk; hashBlock is kept.
FlushTip == /\ ~open /\ tipBest # Null
            /\ db' = DBBatchWrite(tip, db) /\ dbBest' = tipBest
            /\ tip' = NoEntries
            /\ UNCHANGED <<tipBest, view, viewBest, open>>

UncacheTip(o) == /\ ~open
                 /\ tip' = Uncache(tip, o)
                 /\ UNCHANGED <<db, dbBest, tipBest, view, viewBest, open>>

\* The process ends; the next one builds a new pcoinsTip over the database
\* and asks it for its best block.
Restart == /\ tip' = NoEntries /\ tipBest' = dbBest
           /\ view' = NoEntries /\ viewBest' = Null /\ open' = FALSE
           /\ UNCHANGED <<db, dbBest>>

Next == \/ OpenView \/ GetBestBlock \/ FlushView \/ DropView \/ FlushTip \/ Restart
        \/ \E o \in Outpoints :
              AccessCoin(o) \/ AccessTipCoin(o) \/ SpendViewCoin(o) \/ UncacheTip(o)
        \/ \E o \in Outpoints, c \in Coins :
              AddCoinbaseOutput(o, c) \/ AddTxOutput(o, c) \/ AddCheckedCoin(o, c)
        \/ \E b \in Blocks : SetBestBlock(b)

Spec == Init /\ [][Next]_vars

-----------------------------------------------------------------------------
(* Properties. *)

\* The three layers hold what their C++ types allow.
TypeOK == /\ db \in [Outpoints -> Coins \cup {Spent}]
          /\ dbBest \in Blocks \cup {Null}
          /\ tip \in Cache /\ view \in Cache
          /\ tipBest \in Blocks \cup {Null} /\ viewBest \in Blocks \cup {Null}
          /\ open \in BOOLEAN

\* The flags of one cache tell the truth about its parent (coins.h:117-118): an
\* entry that is not DIRTY equals the parent's coin, and a FRESH one has no
\* unspent version in the parent, so that BatchWrite never throws (coins.cpp:450).
FlagsTrue(cache, base) ==
    \A o \in Outpoints : cache[o] # NoEntry =>
        /\ ~cache[o].dirty => cache[o].coin = base[o] /\ cache[o].coin # Spent
        /\ cache[o].fresh => base[o] = Spent /\ cache[o].dirty /\ cache[o].coin # Spent

\* CCoinsCacheEntry::Flags, in both caches, whatever was fetched, added, spent,
\* flushed, uncached or dropped before.
FlagsSound == FlagsTrue(tip, db) /\ FlagsTrue(view, TipCoins)

\* What the flags need to stay true: a view that is not open holds nothing.
ClosedIsEmpty == ~open => view = NoEntries /\ viewBest = Null

IInv == TypeOK /\ FlagsSound /\ ClosedIsEmpty

\* The stack of caches implements the plain maps of UtxoLayers: what was fetched,
\* is flagged or was evicted can never be told from what a view answers, a flush
\* moves all coins of a block and its hash or none, and no unspendable output
\* enters any layer.
Layers == INSTANCE UtxoLayers WITH
    Coins <- Coins \ Unspendable,
    disk  <- [coins |-> db, best |-> dbBest],
    chain <- [coins |-> TipCoins, best |-> TipBestBlock],
    work  <- [coins |-> ViewCoins, best |-> ViewBestBlock]

ImplementsLayers == Layers!Spec
=============================================================================
