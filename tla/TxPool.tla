-------------------------------- MODULE TxPool --------------------------------
(***************************************************************************)
(* The memory pool's data structure (txmempool.h, txmempool.cpp) as        *)
(* operators on one record m:                                              *)
(*   mapTx              the entries: links to the parents and children in  *)
(*                      the pool, the fee delta, and the cached totals     *)
(*                      "with descendants" and "with ancestors";           *)
(*   mapNextTx          which pool transaction spends an outpoint;         *)
(*   mapDeltas          the fee deltas of PrioritiseTransaction;           *)
(*   mapAssetToHash     the pool transaction that issues a name;           *)
(*   mapReissuedAssets  the transaction that locks reissues of a name      *)
(*                      (mapReissuedTx is its inverse);                    *)
(*   pending            the pool transactions that give a command of which *)
(*                      only one may wait: a global freeze or unfreeze, or *)
(*                      a tag given to or taken from an address;           *)
(*   watch              mapAddressesMarkedFrozen: the pool transactions    *)
(*                      that spend a restricted coin of an address;        *)
(*   rollingMinimumFeeRate, blockSinceLastRollingFeeBump                   *)
(*                      the fee that a full pool asks for, and whether it  *)
(*                      may decay.                                         *)
(* Every transaction has the same size, so that a count stands for a size. *)
(***************************************************************************)
EXTENDS Integers, FiniteSets, Sequences, SequencesExt

CONSTANTS
    Txs,             \* transactions
    Coinbases,       \* those that are coinbase transactions
    Inputs,          \* Inputs[t]: the outpoints <<transaction, n>> t spends
    Fee,             \* Fee[t]: the fee t pays
    Rank,            \* Rank[t]: the order of the transactions' hashes
    Names,           \* asset names
    Issue,           \* Issue[t]: the name t issues, or None
    Reissue,         \* Reissue[t]: the name t reissues, or None
    Keys,            \* restriction commands
    GlobalKeys,      \* those that freeze or unfreeze a whole asset
    AddressKeys,     \* those that freeze one address for an asset
    Command,         \* Command[t]: the restriction command t gives, or None
    HeldBy,          \* HeldBy[o]: the address key that guards coin o, or None
    LimitAncestors,  \* -limitancestorcount
    LimitDescendants,\* -limitdescendantcount
    MaxPool,         \* -maxmempool, in transactions
    IncrementalRelayFee, \* -incrementalrelayfee, per transaction
    None

Outpoints == UNION {Inputs[t] : t \in Txs}

ASSUME PoolAssumption ==
    /\ Coinbases \subseteq Txs
    /\ \A t \in Coinbases : Inputs[t] = {}
    /\ \A t, u \in Txs : Rank[t] = Rank[u] => t = u
    /\ Names \cap Txs = {}
    /\ GlobalKeys \cup AddressKeys \subseteq Keys
    /\ IncrementalRelayFee \in Nat
    /\ None \notin Txs \cup Names \cup Keys

EmptyPool ==
    [ mapTx             |-> [t \in {} |-> {}],
      mapNextTx         |-> [o \in Outpoints |-> None],
      mapDeltas         |-> [t \in Txs |-> 0],
      mapAssetToHash    |-> [n \in Names |-> None],
      mapReissuedAssets |-> [n \in Names |-> None],
      pending           |-> [k \in Keys \ AddressKeys |-> {}],
      watch             |-> [k \in AddressKeys |-> {}],
      rollingMinimumFeeRate        |-> 0,
      blockSinceLastRollingFeeBump |-> FALSE ]

InPool(m) == DOMAIN m.mapTx

GetModifiedFee(m, t) == Fee[t] + m.mapTx[t].feeDelta

ModifiedFees(m, S) == MapThenSumSet(LAMBDA t : GetModifiedFee(m, t), S)

\* What a walk along the links reaches from S.
RECURSIVE Reach(_, _)
Reach(links, S) ==
    LET next == S \cup UNION {links[t] : t \in S}
    IN  IF next = S THEN S ELSE Reach(links, next)

CalculateDescendants(m, S) == Reach([t \in InPool(m) |-> m.mapTx[t].children], S)

\* Ancestors along the links, starting from the given parents.
AncestorsFrom(m, parents) == Reach([t \in InPool(m) |-> m.mapTx[t].parents], parents)

\* CalculateMemPoolAncestors with fSearchForParents false.
LinkedAncestors(m, t) == AncestorsFrom(m, m.mapTx[t].parents)

ParentsInPool(m, t) == {o[1] : o \in Inputs[t]} \cap InPool(m)

\* CalculateMemPoolAncestors of a transaction that is not in the pool yet.
CalculateMemPoolAncestors(m, t) == AncestorsFrom(m, ParentsInPool(m, t))

WithinChainLimits(m, t) ==
    LET setAncestors == CalculateMemPoolAncestors(m, t)
    IN  /\ Cardinality(setAncestors) + 1 <= LimitAncestors
        /\ \A a \in setAncestors : m.mapTx[a].countDesc + 1 <= LimitDescendants

\* A new entry has no children: those of a transaction that comes back from
\* a block are linked by UpdateTransactionsFromBlock.
addUnchecked(m, t, setAncestors) ==
    LET delta == m.mapDeltas[t]
        fee   == Fee[t] + delta
        entry == [ parents   |-> ParentsInPool(m, t),
                   children  |-> {},
                   feeDelta  |-> delta,
                   countDesc |-> 1,
                   feesDesc  |-> fee,
                   countAnc  |-> 1 + Cardinality(setAncestors),
                   feesAnc   |-> fee + ModifiedFees(m, setAncestors) ]
        seen(x) == [m.mapTx[x] EXCEPT
                       !.children  = IF x \in entry.parents THEN @ \cup {t} ELSE @,
                       !.countDesc = IF x \in setAncestors THEN @ + 1 ELSE @,
                       !.feesDesc  = IF x \in setAncestors THEN @ + fee ELSE @]
    IN  [m EXCEPT
            !.mapTx = [x \in InPool(m) \cup {t} |-> IF x = t THEN entry ELSE seen(x)],
            !.mapNextTx = [o \in Outpoints |->
                             IF o \in Inputs[t] /\ @[o] = None THEN t ELSE @[o]]]

\* The totals and links that RemoveStaged leaves with the remaining entry x.
UpdateForRemoveFromMempool(m, stage, updateDescendants, x) ==
    LET below == {r \in stage : x \in LinkedAncestors(m, r)}
        above == IF updateDescendants
                 THEN {r \in stage : x \in CalculateDescendants(m, {r})}
                 ELSE {}
    IN  [m.mapTx[x] EXCEPT
            !.parents   = @ \ {r \in stage : x \in m.mapTx[r].children},
            !.children  = @ \ {r \in stage : x \in m.mapTx[r].parents},
            !.countDesc = @ - Cardinality(below),
            !.feesDesc  = @ - ModifiedFees(m, below),
            !.countAnc  = @ - Cardinality(above),
            !.feesAnc   = @ - ModifiedFees(m, above)]

\* RemoveStaged, with removeUnchecked of every staged entry.
RemoveStaged(m, stage, updateDescendants) ==
    [m EXCEPT
        !.mapTx = [x \in InPool(m) \ stage |->
                     UpdateForRemoveFromMempool(m, stage, updateDescendants, x)],
        !.mapNextTx = [o \in Outpoints |->
                         IF \E t \in stage : o \in Inputs[t] THEN None ELSE @[o]],
        !.mapAssetToHash = [n \in Names |-> IF @[n] \in stage THEN None ELSE @[n]],
        !.mapReissuedAssets = [n \in Names |-> IF @[n] \in stage THEN None ELSE @[n]],
        !.pending = [k \in DOMAIN @ |-> @[k] \ stage],
        !.watch = [k \in DOMAIN @ |-> @[k] \ stage]]

\* Mutant: a transaction that is not in the pool has nothing to remove there.
removeRecursive_InPoolOnly(m, t) ==
    IF t \in InPool(m) THEN RemoveStaged(m, CalculateDescendants(m, {t}), FALSE) ELSE m

removeRecursive(m, t) ==
    LET spenders == {m.mapNextTx[o] : o \in {p \in Outpoints : p[1] = t}} \ {None}
    IN  RemoveStaged(m, CalculateDescendants(m, IF t \in InPool(m) THEN {t} ELSE spenders),
                     FALSE)

ClearPrioritisation(m, t) == [m EXCEPT !.mapDeltas[t] = 0]

removeConflicts(m, t) ==
    LET remove(p, o) ==
            LET other == p.mapNextTx[o]
            IN  IF other \in {None, t} THEN p
                ELSE removeRecursive(ClearPrioritisation(p, other), other)
    IN  FoldLeft(remove, m, SetToSeq(Inputs[t]))

\* Mutant: the names that the block issues are not looked up.
InvalidatedBy_NotByName(m, block) ==
    UNION {m.pending[Command[b]] : b \in {c \in Range(block) : Command[c] \in GlobalKeys}}
        \cup UNION {m.watch[Command[b]] : b \in {c \in Range(block) : Command[c] \in AddressKeys}}

\* The pool transactions that the commands of a block make invalid: another
\* issue of a name, the waiting freeze or unfreeze of an asset, the spends of
\* an address that is now frozen.
InvalidatedBy(m, block) ==
    UNION {
        {m.mapAssetToHash[Issue[b]] : b \in {c \in Range(block) : Issue[c] # None}} \ {None},
        UNION {m.pending[Command[b]] : b \in {c \in Range(block) : Command[c] \in GlobalKeys}},
        UNION {m.watch[Command[b]] : b \in {c \in Range(block) : Command[c] \in AddressKeys}} }

\* The confirmed transactions leave without their descendants, and so do the
\* invalidated ones.
removeForBlock(m, block) ==
    LET remove(p, t) ==
            LET q == IF t \in InPool(p) THEN RemoveStaged(p, {t}, TRUE) ELSE p
            IN  ClearPrioritisation(removeConflicts(q, t), t)
    IN  [FoldLeft(remove, m, block \o SetToSeq(InvalidatedBy(m, block)))
            EXCEPT !.blockSinceLastRollingFeeBump = TRUE]

\* immature: the outpoints that are no coin, or an immature coinbase output.
removeForReorg(m, immature) ==
    LET spendsCoinbase(t) == \E o \in Inputs[t] : o[1] \in Coinbases
        txToRemove == {t \in InPool(m) : /\ spendsCoinbase(t)
                                         /\ \E o \in Inputs[t] : /\ o[1] \notin InPool(m)
                                                                 /\ o \in immature}
    IN  RemoveStaged(m, CalculateDescendants(m, txToRemove), FALSE)

\* The walk of UpdateForDescendants, which takes the descendants of a child
\* it has met before from the cache.
RECURSIVE WalkDescendants(_, _, _, _)
WalkDescendants(m, cache, stage, all) ==
    IF stage = {} THEN all
    ELSE LET cit      == CHOOSE t \in stage : TRUE
             children == m.mapTx[cit].children
             known    == children \cap DOMAIN cache
             found    == all \cup {cit} \cup UNION {cache[c] : c \in known}
         IN  WalkDescendants(m, cache,
                             (stage \ {cit}) \cup ((children \ known) \ found), found)

\* acc: the pool and the descendants cached so far.
UpdateForDescendants(acc, t, setExclude) ==
    LET m   == acc.pool
        new == WalkDescendants(m, acc.cache, m.mapTx[t].children, {}) \ setExclude
        updated(x) ==
            CASE x = t     -> [m.mapTx[x] EXCEPT
                                  !.countDesc = @ + Cardinality(new),
                                  !.feesDesc  = @ + ModifiedFees(m, new)]
              [] x \in new -> [m.mapTx[x] EXCEPT
                                  !.countAnc = @ + 1,
                                  !.feesAnc  = @ + GetModifiedFee(m, t)]
              [] OTHER     -> m.mapTx[x]
    IN  [ pool  |-> [m EXCEPT !.mapTx = [x \in InPool(m) |-> updated(x)]],
          cache |-> [x \in DOMAIN acc.cache \cup IF new = {} THEN {} ELSE {t} |->
                        IF x = t THEN new ELSE acc.cache[x]] ]

UpdateTransactionsFromBlock(m, vHashesToUpdate) ==
    LET setAlreadyIncluded == Range(vHashesToUpdate)
        link(p, t) ==
            LET children == ({p.mapNextTx[o] : o \in {q \in Outpoints : q[1] = t}} \ {None})
                                \ setAlreadyIncluded
            IN  [p EXCEPT !.mapTx = [x \in InPool(p) |->
                    [p.mapTx[x] EXCEPT !.children = IF x = t THEN @ \cup children ELSE @,
                                       !.parents = IF x \in children THEN @ \cup {t} ELSE @]]]
        update(t, acc) ==
            IF t \notin InPool(acc.pool) THEN acc
            ELSE UpdateForDescendants([acc EXCEPT !.pool = link(acc.pool, t)], t,
                                      setAlreadyIncluded)
    IN  FoldRight(update, vHashesToUpdate, [pool |-> m, cache |-> [t \in {} |-> {}]]).pool

\* Mutant: the totals of the entry's ancestors and descendants stay.
PrioritiseTransaction_OwnTotals(m, t, nFeeDelta) ==
    [m EXCEPT !.mapDeltas[t] = @ + nFeeDelta,
              !.mapTx = IF t \notin InPool(m) THEN @
                        ELSE [@ EXCEPT ![t].feeDelta = @ + nFeeDelta,
                                       ![t].feesDesc = @ + nFeeDelta,
                                       ![t].feesAnc = @ + nFeeDelta]]

PrioritiseTransaction(m, t, nFeeDelta) ==
    LET changed(x) ==
            CASE x = t -> [m.mapTx[x] EXCEPT !.feeDelta = @ + nFeeDelta,
                                             !.feesDesc = @ + nFeeDelta,
                                             !.feesAnc  = @ + nFeeDelta]
              [] x # t -> [m.mapTx[x] EXCEPT
                             !.feesDesc = IF x \in LinkedAncestors(m, t) THEN @ + nFeeDelta ELSE @,
                             !.feesAnc  = IF x \in CalculateDescendants(m, {t})
                                          THEN @ + nFeeDelta ELSE @]
    IN  [m EXCEPT !.mapDeltas[t] = @ + nFeeDelta,
                  !.mapTx = IF t \in InPool(m) THEN [x \in InPool(m) |-> changed(x)] ELSE @]

\* Expire, for the entries whose time has passed.
Expire(m, toremove) == RemoveStaged(m, CalculateDescendants(m, toremove), FALSE)

\* CompareTxMemPoolEntryByDescendantScore: the better of the two fee rates of
\* an entry, as a pair of fees and size.
DescendantScore(m, t) ==
    LET entry == m.mapTx[t]
    IN  IF entry.feesDesc > GetModifiedFee(m, t) * entry.countDesc
        THEN <<entry.feesDesc, entry.countDesc>> ELSE <<GetModifiedFee(m, t), 1>>

\* Equal scores are told apart by their time in the code, by rank here.
LowestScore(m) ==
    CHOOSE t \in InPool(m) : \A u \in InPool(m) \ {t} :
        LET mine   == DescendantScore(m, t)
            theirs == DescendantScore(m, u)
        IN  \/ mine[1] * theirs[2] < theirs[1] * mine[2]
            \/ mine[1] * theirs[2] = theirs[1] * mine[2] /\ Rank[t] > Rank[u]

\* A package of this fee rate has been evicted.
trackPackageRemoved(m, rate) ==
    IF rate > m.rollingMinimumFeeRate
    THEN [m EXCEPT !.rollingMinimumFeeRate = rate, !.blockSinceLastRollingFeeBump = FALSE]
    ELSE m

\* The entry it goes with its descendants, and the next transaction has to pay more.
Evict(m, it) ==
    LET removed == (m.mapTx[it].feesDesc \div m.mapTx[it].countDesc) + IncrementalRelayFee
    IN  RemoveStaged(trackPackageRemoved(m, removed), CalculateDescendants(m, {it}), FALSE)

RECURSIVE TrimToSize(_)
TrimToSize(m) ==
    IF Cardinality(InPool(m)) <= MaxPool THEN m ELSE TrimToSize(Evict(m, LowestScore(m)))

\* The fee that a transaction has to pay for a place in the pool.
GetMinFee(m) ==
    IF m.blockSinceLastRollingFeeBump /\ m.rollingMinimumFeeRate > 0
    THEN Max({m.rollingMinimumFeeRate, IncrementalRelayFee})
    ELSE m.rollingMinimumFeeRate

\* GetMinFee when time has passed since a block came: the rate is now some
\* smaller one, and 0 below half of the incremental fee.
DecayedTo(m, rate) ==
    [m EXCEPT !.rollingMinimumFeeRate = IF 2 * rate < IncrementalRelayFee THEN 0 ELSE rate]

\* The members of S in the order that the strict total order Less gives.
Sorted(S, Less(_, _)) ==
    [i \in 1 .. Cardinality(S) |->
        CHOOSE t \in S : Cardinality({u \in S : Less(u, t)}) = i - 1]

\* Mutant: the higher fee first, whatever it depends on.
SortedDepthAndScore_ScoreOnly(m) ==
    Sorted(InPool(m), LAMBDA t, u :
        \/ GetModifiedFee(m, t) > GetModifiedFee(m, u)
        \/ GetModifiedFee(m, t) = GetModifiedFee(m, u) /\ Rank[u] < Rank[t])

\* infoAll, in the order of GetSortedDepthAndScore: by the number of ancestors,
\* then the higher fee first.
SortedDepthAndScore(m) ==
    LET depth(t) == m.mapTx[t].countAnc
        score(t) == GetModifiedFee(m, t)
    IN  Sorted(InPool(m), LAMBDA t, u :
            \/ depth(t) < depth(u)
            \/ depth(t) = depth(u) /\ score(t) > score(u)
            \/ depth(t) = depth(u) /\ score(t) = score(u) /\ Rank[u] < Rank[t])
===============================================================================
