------------------------------- MODULE Mempool --------------------------------
(***************************************************************************)
(* The memory pool as validation.cpp, miner.cpp and init.cpp use it: how a *)
(* transaction is accepted, what a connected or disconnected block does to *)
(* the pool, how a reorganisation ends, how the miner repairs the pool and *)
(* how it survives a restart.                                              *)
(*   chain         the blocks above the base, each a sequence of           *)
(*                 transactions; the coins, the issued names and the       *)
(*                 commands in force follow from it;                       *)
(*   pool          the record of module TxPool;                            *)
(*   disconnected  the disconnectpool, the transaction that was first in   *)
(*                 the chain first;                                        *)
(*   phase         "idle", or the part of a reorganisation that is under   *)
(*                 way: "disconnect", then "connect".  cs_main is held     *)
(*                 until the pool has been made consistent at its end, so  *)
(*                 nothing else happens meanwhile.                         *)
(* Coins of transactions outside Txs exist from the start.                 *)
(***************************************************************************)
EXTENDS BlockAssembler

CONSTANTS
    Replaceable,     \* transactions that signal replacement; {} without -mempoolreplacement
    MaxReplaced,     \* maxDescendantsToVisit: how many entries a replacement may evict
    MinRelayTxFee,   \* -minrelaytxfee, per transaction
    Maturity,        \* COINBASE_MATURITY
    MaxHeight,       \* bound: blocks above the base
    Blocks,          \* bound: the sets of transactions that a received block may hold
    MaxDisconnected, \* MAX_DISCONNECTED_TX_POOL_SIZE, in transactions
    DeltaTxs,        \* bound: the transactions that get a fee delta, ...
    FeeDelta,        \* ... of this, added once and taken back
    Expiring,        \* bound: the transactions that may be found to have expired
    DecayRates       \* bound: the rates to which the rolling minimum fee may decay

ASSUME MempoolAssumption ==
    /\ {Maturity, MaxHeight, MaxDisconnected, FeeDelta, MaxReplaced, MinRelayTxFee} \subseteq Nat
    /\ Blocks \subseteq SUBSET Txs
    /\ DecayRates \subseteq Nat
    /\ Replaceable \cup DeltaTxs \cup Expiring \subseteq Txs

VARIABLES chain, pool, disconnected, phase

vars == <<chain, pool, disconnected, phase>>

-----------------------------------------------------------------------------
\* Coins and asset rules.

Confirmed == UNION {Range(chain[h]) : h \in DOMAIN chain}

\* Outpoint o is an unspent coin once the transactions in C are confirmed.
IsCoin(o, C) ==
    /\ o[1] \in Txs => o[1] \in C
    /\ \A u \in C : o \notin Inputs[u]

IsMature(o) ==
    o[1] \in Coinbases =>
        \E h \in DOMAIN chain : o[1] \in Range(chain[h]) /\ Len(chain) + 1 - h >= Maturity

\* CheckTxInputs for the next block.
CheckTxInputs(t, C) == \A o \in Inputs[t] : IsCoin(o, C) /\ IsMature(o)

\* CheckTxAssets against the transactions in C: no name is issued twice, no
\* command is given twice, no coin of a frozen address is spent.
AssetRulesHold(t, C) ==
    \A u \in C :
        /\ Issue[t] # None => Issue[u] # Issue[t]
        /\ Command[t] # None => Command[u] # Command[t]
        /\ \A o \in Inputs[t] : HeldBy[o] # None => Command[u] # HeldBy[o]

\* CheckTxAssets refuses a reissue while another transaction locks the asset.
ReissueAllowed(m, t) ==
    Reissue[t] # None => m.mapReissuedAssets[Reissue[t]] \in {None, t}

CheckTxAssets(m, t, C) == AssetRulesHold(t, C) /\ ReissueAllowed(m, t)

\* The order of the transactions in a block: parents first.
BlockOrder(S) ==
    LET depth[t \in Txs] ==
            1 + Max({0} \cup {depth[o[1]] : o \in {p \in Inputs[t] : p[1] \in Txs}})
    IN  Sorted(S, LAMBDA t, u : \/ depth[t] < depth[u]
                                \/ depth[t] = depth[u] /\ Rank[t] < Rank[u])

\* The transactions of the block up to position i - 1 are confirmed with C.
Before(block, i) == Confirmed \cup {block[j] : j \in 1 .. i - 1}

\* What ConnectBlock finds wrong with transaction i of a block.
FailsInputs(block, i) == ~CheckTxInputs(block[i], Before(block, i))
FailsAssets(block, i) == ~CheckTxAssets(pool, block[i], Before(block, i))

-----------------------------------------------------------------------------
\* Accepting a transaction.

SetConflicts(m, t) == {m.mapNextTx[o] : o \in Inputs[t]} \ {None}

NewModifiedFee(m, t) == Fee[t] + m.mapDeltas[t]

\* The fee asked from every transaction but those of disconnected blocks.
PaysMinimum(m, t) == NewModifiedFee(m, t) >= Max({GetMinFee(m), MinRelayTxFee})

\* The replacement rules: the conflicts signal, the new fee rate is higher
\* than that of each of them, they have not too many descendants (one that
\* several of them share counts for each), no new unconfirmed input, and the
\* fees pay for everything that goes and for the relay.
ReplacementAllowed(m, t) ==
    LET setConflicts == SetConflicts(m, t)
        setConflictsParents == {o[1] : o \in UNION {Inputs[c] : c \in setConflicts}}
        nConflictingCount == MapThenSumSet(LAMBDA c : m.mapTx[c].countDesc, setConflicts)
        nConflictingFees == ModifiedFees(m, CalculateDescendants(m, setConflicts))
    IN  /\ setConflicts \subseteq Replaceable
        /\ \A c \in setConflicts : NewModifiedFee(m, t) > GetModifiedFee(m, c)
        /\ nConflictingCount <= MaxReplaced
        /\ ParentsInPool(m, t) \subseteq setConflictsParents
        /\ NewModifiedFee(m, t) >= nConflictingFees + IncrementalRelayFee

\* The checks of AcceptToMemoryPoolWorker, all before the pool changes.
Acceptable(m, t, bypass_limits) ==
    /\ t \notin Coinbases \cup InPool(m)
    /\ \A o \in Inputs[t] : o[1] \in InPool(m) \/ (IsCoin(o, Confirmed) /\ IsMature(o))
    /\ CheckTxAssets(m, t, Confirmed)
    /\ Issue[t] # None => m.mapAssetToHash[Issue[t]] = None
    /\ bypass_limits \/ PaysMinimum(m, t)
    /\ WithinChainLimits(m, t)
    /\ SetConflicts(m, t) \cap CalculateMemPoolAncestors(m, t) = {}
    /\ SetConflicts(m, t) # {} => ReplacementAllowed(m, t)

LimitMempoolSize(m, old) == TrimToSize(Expire(m, old \cap InPool(m)))

\* After the transaction is in: the locks and the maps of asset commands.  A
\* command that waits already is refused here, with the transaction in the
\* pool, and its spends are not watched.
Register(m, t) ==
    LET known    == Command[t] \in DOMAIN m.pending /\ m.pending[Command[t]] # {}
        guarded  == {HeldBy[o] : o \in {p \in Inputs[t] : IsCoin(p, Confirmed)}}
    IN  [ pool |-> [m EXCEPT
                      !.mapReissuedAssets = [n \in Names |->
                            IF n = Reissue[t] /\ @[n] = None THEN t ELSE @[n]],
                      !.mapAssetToHash = [n \in Names |-> IF n = Issue[t] THEN t ELSE @[n]],
                      !.pending = [k \in DOMAIN @ |->
                            IF k = Command[t] /\ ~known THEN {t} ELSE @[k]],
                      !.watch = [k \in DOMAIN @ |->
                            IF k \in guarded /\ ~known THEN @[k] \cup {t} ELSE @[k]]],
          ok   |-> ~known ]

\* A new entry may be evicted at once; one that stays is registered.
RegisterIfKept(m, t) == IF t \in InPool(m) THEN Register(m, t) ELSE [pool |-> m, ok |-> FALSE]

\* AcceptToMemoryPool: the new pool and the result; old are the entries that
\* have expired.
AcceptToMemoryPool(m, t, bypass_limits, old) ==
    LET replaced == RemoveStaged(m, CalculateDescendants(m, SetConflicts(m, t)), FALSE)
        added    == addUnchecked(replaced, t, CalculateMemPoolAncestors(m, t))
    IN  IF ~Acceptable(m, t, bypass_limits) THEN [pool |-> m, ok |-> FALSE]
        ELSE IF bypass_limits THEN Register(added, t)
        ELSE RegisterIfKept(LimitMempoolSize(added, old), t)

-----------------------------------------------------------------------------
\* The actions.

Init ==
    /\ chain = <<>>
    /\ pool = EmptyPool
    /\ disconnected = <<>>
    /\ phase = "idle"

\* At most one entry is found to have expired.
Expired == {{}} \cup {{t} : t \in InPool(pool) \cap Expiring}

\* A transaction arrives from a peer or the wallet.
AcceptTransaction(t, old) ==
    /\ phase = "idle"
    /\ pool' = AcceptToMemoryPool(pool, t, FALSE, old).pool
    /\ UNCHANGED <<chain, disconnected, phase>>

Prioritise(t, nFeeDelta) ==
    /\ phase = "idle"
    /\ pool.mapDeltas[t] + nFeeDelta \in {0, FeeDelta}
    /\ pool' = PrioritiseTransaction(pool, t, nFeeDelta)
    /\ UNCHANGED <<chain, disconnected, phase>>

\* Someone asks for the minimum fee (a transaction, getmempoolinfo, the fee
\* filter sent to a peer) some time after a block.
DecayMinFee(rate) ==
    /\ phase = "idle"
    /\ pool.blockSinceLastRollingFeeBump
    /\ rate < pool.rollingMinimumFeeRate
    /\ pool' = DecayedTo(pool, rate)
    /\ UNCHANGED <<chain, disconnected, phase>>

\* Mutant: the locks stay with the transactions of the block.
UnlockReissues_Dropped(m, S) == m

\* ConnectTip frees the assets that the transactions of the block have locked.
UnlockReissues(m, S) ==
    [m EXCEPT !.mapReissuedAssets = [n \in Names |-> IF @[n] \in S THEN None ELSE @[n]]]

\* A block with the transactions S becomes the tip: its reissues are unlocked,
\* its transactions and their conflicts leave the pool.
ConnectTip(S) ==
    LET block == BlockOrder(S)
    IN  /\ Len(chain) < MaxHeight
        /\ S \cap Confirmed = {}
        /\ Cardinality(S \cap Coinbases) <= 1
        /\ \A i \in DOMAIN block : ~FailsInputs(block, i) /\ ~FailsAssets(block, i)
        /\ chain' = Append(chain, block)
        /\ pool' = removeForBlock(UnlockReissues(pool, S), block)
        /\ disconnected' = SelectSeq(disconnected, LAMBDA t : t \notin S)
        /\ phase' = IF phase = "idle" THEN "idle" ELSE "connect"

\* The tip is disconnected.  When the disconnectpool is too large, the
\* transactions that came last in the chain are dropped first, with what
\* depends on them in the pool.
DisconnectTip ==
    LET queued == Last(chain) \o disconnected
        kept   == Min({Len(queued), MaxDisconnected})
    IN  /\ phase # "connect"
        /\ chain # <<>>
        /\ chain' = Front(chain)
        /\ disconnected' = SubSeq(queued, 1, kept)
        /\ pool' = FoldRight(LAMBDA t, p : removeRecursive(p, t),
                             SubSeq(queued, kept + 1, Len(queued)), pool)
        /\ phase' = "disconnect"

\* A transaction of a disconnected block that is accepted again is noted, of the
\* others everything that depends on them leaves the pool.
AfterReadd(vHashUpdate, t, res) ==
    IF res.ok THEN [pool |-> res.pool, vHashUpdate |-> Append(vHashUpdate, t)]
    ELSE [pool |-> removeRecursive(res.pool, t), vHashUpdate |-> vHashUpdate]

\* The transactions of the disconnected blocks come back to the pool, or what
\* depends on them leaves it.
ReaddDisconnected(fAddToMempool) ==
    LET readd(acc, t) ==
            AfterReadd(acc.vHashUpdate, t,
                       IF fAddToMempool THEN AcceptToMemoryPool(acc.pool, t, TRUE, {})
                       ELSE [pool |-> acc.pool, ok |-> FALSE])
    IN  FoldLeft(readd, [pool |-> pool, vHashUpdate |-> <<>>], disconnected)

\* The links and totals of what came back.
Relinked(readded) == UpdateTransactionsFromBlock(readded.pool, readded.vHashUpdate)

UpdateMempoolForReorg(fAddToMempool, old) ==
    LET linked == Relinked(ReaddDisconnected(fAddToMempool))
        mature == removeForReorg(linked, {o \in Outpoints : ~IsCoin(o, Confirmed)
                                                              \/ ~IsMature(o)})
    IN  /\ phase # "idle"
        /\ pool' = LimitMempoolSize(mature, old)
        /\ disconnected' = <<>>
        /\ phase' = "idle"
        /\ UNCHANGED chain

\* CreateNewBlock: the first transaction of the template that ConnectBlock
\* refuses leaves the pool with its descendants, but only when it is the check
\* of its assets that names it.
CreateNewBlock ==
    LET block  == addPackageTxs(pool)
        failed == {i \in DOMAIN block : FailsInputs(block, i) \/ FailsAssets(block, i)}
    IN  /\ phase = "idle"
        /\ failed # {}
        /\ ~FailsInputs(block, Min(failed))
        /\ pool' = removeRecursive(pool, block[Min(failed)])
        /\ UNCHANGED <<chain, disconnected, phase>>

\* DumpMempool, and LoadMempool with the entries in old too old to be taken.
Reloaded(old) ==
    LET load(p, t) ==
            LET q == PrioritiseTransaction(p, t, pool.mapTx[t].feeDelta)
            IN  IF t \in old THEN q ELSE AcceptToMemoryPool(q, t, FALSE, {}).pool
        base   == [EmptyPool EXCEPT !.mapReissuedAssets = pool.mapReissuedAssets]
        loaded == FoldLeft(load, base, SortedDepthAndScore(pool))
    IN  [loaded EXCEPT !.mapDeltas = [t \in Txs |->
            IF t \in InPool(pool) THEN @[t] ELSE pool.mapDeltas[t]]]

\* The node stops cleanly and starts again.  The reissue locks are written
\* with the asset database and read back; the pool comes from mempool.dat.
Restart(old) ==
    /\ phase = "idle"
    /\ pool' = Reloaded(old)
    /\ UNCHANGED <<chain, disconnected, phase>>

Next ==
    \/ \E t \in Txs, old \in Expired : AcceptTransaction(t, old)
    \/ \E t \in DeltaTxs, nFeeDelta \in {FeeDelta, -FeeDelta} : Prioritise(t, nFeeDelta)
    \/ \E rate \in DecayRates : DecayMinFee(rate)
    \/ \E S \in Blocks : ConnectTip(S)
    \/ DisconnectTip
    \/ \E fAddToMempool \in BOOLEAN, old \in Expired : UpdateMempoolForReorg(fAddToMempool, old)
    \/ CreateNewBlock
    \/ \E old \in Expired : Restart(old)

Spec == Init /\ [][Next]_vars
-----------------------------------------------------------------------------
\* Properties.

\* The shape of the state; the asserts of UpdateDescendantState and
\* UpdateAncestorState keep every count above 0.
TypeOK ==
    /\ \A h \in DOMAIN chain : Range(chain[h]) \subseteq Txs
    /\ Range(disconnected) \subseteq Txs
    /\ phase \in {"idle", "disconnect", "connect"}
    /\ InPool(pool) \subseteq Txs \ Coinbases
    /\ \A t \in InPool(pool) : pool.mapTx[t].countDesc > 0 /\ pool.mapTx[t].countAnc > 0
    /\ \A k \in DOMAIN pool.pending : Cardinality(pool.pending[k]) <= 1

\* The totals that the pool keeps with every entry, and never computes again,
\* are those of its ancestors and descendants, fee deltas included.
TotalsExact ==
    phase = "idle" =>
        \A t \in InPool(pool) :
            LET above == TrueAncestors(pool, t) \cup {t}
                below == {u \in InPool(pool) : t \in TrueAncestors(pool, u)} \cup {t}
                entry == pool.mapTx[t]
            IN  /\ entry.feeDelta = pool.mapDeltas[t]
                /\ entry.countAnc = Cardinality(above) /\ entry.feesAnc = ModifiedFees(pool, above)
                /\ entry.countDesc = Cardinality(below) /\ entry.feesDesc = ModifiedFees(pool, below)

\* "Check that every mempool transaction's inputs refer to available coins, or
\* other mempool tx's" (check(), txmempool.cpp), and that no two transactions
\* of the pool spend the same one.
InputsAvailable ==
    phase = "idle" =>
        \A t \in InPool(pool) : \A o \in Inputs[t] :
            /\ o[1] \in InPool(pool) \/ (IsCoin(o, Confirmed) /\ IsMature(o))
            /\ pool.mapNextTx[o] = t

\* A name has one issuer in the pool and an asset one reissuer, the
\* transaction that locks it; a confirmed transaction locks nothing
\* (mapAssetToHash, mapReissuedAssets).
LocksHeld ==
    \A n \in Names :
        /\ \A t \in Txs : pool.mapAssetToHash[n] = t <=> t \in InPool(pool) /\ Issue[t] = n
        /\ \A t \in InPool(pool) : Reissue[t] = n => pool.mapReissuedAssets[n] = t
        /\ pool.mapReissuedAssets[n] \notin Confirmed

\* No transaction of the pool issues a name that the chain has issued, and
\* none that the pool watches spends from an address that the chain has frozen
\* (what removeForBlock's asset maps are for).
NoneInvalidated ==
    phase = "idle" =>
        \A t \in InPool(pool), u \in Confirmed :
            /\ Issue[t] # None => Issue[u] # Issue[t]
            /\ Command[u] \in AddressKeys => t \notin pool.watch[Command[u]]

\* The miner's loop, with its cached and modified totals, chooses the packages
\* that a search over the whole pool would choose, in the same order: no
\* transaction comes before its parent, and none twice.
TemplateGreedy ==
    phase = "idle" => addPackageTxs(pool) = GreedyTemplate(pool)

\* A restart brings back every entry with its totals and every fee delta, as
\* long as each would be accepted by an empty pool now: a reorganisation can
\* put together a chain longer than acceptance allows, and it can leave an entry
\* below the minimum relay fee, as can a fee delta that is taken back; and a
\* command can be given by a block while its twin is in the pool (LoadMempool
\* does not bypass the limits).
RestartRestores ==
    /\ phase = "idle"
    /\ \A t \in InPool(pool) : /\ pool.mapTx[t].countAnc <= LimitAncestors
                               /\ pool.mapTx[t].countDesc <= LimitDescendants
                               /\ GetModifiedFee(pool, t) >= MinRelayTxFee
                               /\ AssetRulesHold(t, Confirmed)
    => \E m \in {Reloaded({})} : m.mapTx = pool.mapTx /\ m.mapDeltas = pool.mapDeltas
===============================================================================
