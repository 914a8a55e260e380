---------------------------- MODULE BlockAssembler ----------------------------
(***************************************************************************)
(* How the miner chooses the transactions of a block (miner.cpp): it takes *)
(* the package (a transaction with its ancestors) of the highest fee rate, *)
(* and keeps the totals of the packages that overlap with what is in the   *)
(* block in mapModifiedTx.  A run of the loop is a function of the pool;   *)
(* its state s is                                                          *)
(*   block          the transactions of the block, in order;               *)
(*   walked         the entries of mapTx that the iterator has passed;     *)
(*   mapModifiedTx  size and fees of the packages of the transactions with *)
(*                  an ancestor in the block;                              *)
(*   failedTx       the modified ones that did not fit.                    *)
(* GreedyTemplate is what the comment above addPackageTxs promises, written*)
(* without the bookkeeping.                                                *)
(***************************************************************************)
EXTENDS TxPool

CONSTANTS
    BlockMax,   \* -blockmaxweight, in transactions
    BlockMinFee \* -blockmintxfee, per transaction

ASSUME BlockAssumption == BlockMax \in Nat /\ BlockMinFee \in Nat

\* CompareTxMemPoolEntryByAncestorFee and CompareModifiedEntry: the higher fee
\* rate first.
HigherRate(a, t, b, u) ==
    \/ a.fees * b.size > b.fees * a.size
    \/ a.fees * b.size = b.fees * a.size /\ Rank[t] < Rank[u]

\* The transaction whose package comes first.
Best(packages) ==
    CHOOSE t \in DOMAIN packages : \A u \in DOMAIN packages \ {t} :
        HigherRate(packages[t], t, packages[u], u)

SortForBlock(m, package) ==
    Sorted(package, LAMBDA t, u :
        \/ m.mapTx[t].countAnc < m.mapTx[u].countAnc
        \/ m.mapTx[t].countAnc = m.mapTx[u].countAnc /\ Rank[t] < Rank[u])

CachedPackage(m, t) == [size |-> m.mapTx[t].countAnc, fees |-> m.mapTx[t].feesAnc]

\* Mutant: what earlier packages took away is forgotten.
UpdatePackagesForAdded_Afresh(m, added, mapModifiedTx) ==
    LET above(d) == {a \in added : d \in CalculateDescendants(m, {a})}
    IN  [d \in DOMAIN mapModifiedTx \cup (CalculateDescendants(m, added) \ added) |->
            [size |-> m.mapTx[d].countAnc - Cardinality(above(d)),
             fees |-> m.mapTx[d].feesAnc - ModifiedFees(m, above(d))]]

\* The descendants of what was added get a modified entry, made from the
\* totals in mapTx the first time.
UpdatePackagesForAdded(m, added, mapModifiedTx) ==
    LET above(d) == {a \in added : d \in CalculateDescendants(m, {a})}
        before(d) == IF d \in DOMAIN mapModifiedTx THEN mapModifiedTx[d] ELSE CachedPackage(m, d)
    IN  [d \in DOMAIN mapModifiedTx \cup (CalculateDescendants(m, added) \ added) |->
            [size |-> before(d).size - Cardinality(above(d)),
             fees |-> before(d).fees - ModifiedFees(m, above(d))]]

\* TestPackage.
Fits(block, size) == Len(block) + size <= BlockMax

Without(f, S) == [t \in DOMAIN f \ S |-> f[t]]

\* One round of the loop for the transaction that was picked.
ConsiderPackage(m, s, t, fUsingModified) ==
    LET package == IF fUsingModified THEN s.mapModifiedTx[t] ELSE CachedPackage(m, t)
        added   == (LinkedAncestors(m, t) \ Range(s.block)) \cup {t}
    IN  CASE ~Fits(s.block, package.size) /\ fUsingModified ->
                 [s EXCEPT !.mapModifiedTx = Without(@, {t}), !.failedTx = @ \cup {t}]
          [] ~Fits(s.block, package.size) /\ ~fUsingModified ->
                 [s EXCEPT !.walked = @ \cup {t}]
          [] Fits(s.block, package.size) ->
                 [s EXCEPT
                     !.block = @ \o SortForBlock(m, added),
                     !.walked = IF fUsingModified THEN @ ELSE @ \cup {t},
                     !.mapModifiedTx = UpdatePackagesForAdded(m, added, Without(@, added))]

RECURSIVE AddPackages(_, _)
AddPackages(m, s) ==
    LET fresh    == InPool(m) \ (s.walked \cup DOMAIN s.mapModifiedTx
                                    \cup Range(s.block) \cup s.failedTx)
        modified == DOMAIN s.mapModifiedTx
        first    == Best([t \in fresh |-> CachedPackage(m, t)])
        modit    == Best(s.mapModifiedTx)
        fUsingModified ==
            /\ modified # {}
            /\ fresh # {} => HigherRate(s.mapModifiedTx[modit], modit,
                                        CachedPackage(m, first), first)
        iter    == IF fUsingModified THEN modit ELSE first
        package == IF fUsingModified THEN s.mapModifiedTx[iter] ELSE CachedPackage(m, iter)
    IN  IF fresh \cup modified = {} \/ package.fees < BlockMinFee * package.size
        THEN s.block
        ELSE AddPackages(m, ConsiderPackage(m, s, iter, fUsingModified))

addPackageTxs(m) ==
    AddPackages(m, [block |-> <<>>, walked |-> {}, failedTx |-> {},
                    mapModifiedTx |-> [t \in {} |-> {}]])

-----------------------------------------------------------------------------
\* Reference: the ancestors by the inputs, the package totals by summing up.
RECURSIVE TrueAncestors(_, _)
TrueAncestors(m, t) ==
    ParentsInPool(m, t) \cup UNION {TrueAncestors(m, p) : p \in ParentsInPool(m, t)}

RECURSIVE GreedyFrom(_, _)
GreedyFrom(m, block) ==
    LET rest(t)    == (TrueAncestors(m, t) \cup {t}) \ Range(block)
        package(t) == [size |-> Cardinality(rest(t)), fees |-> ModifiedFees(m, rest(t))]
        possible   == {t \in InPool(m) \ Range(block) :
                          /\ Fits(block, package(t).size)
                          /\ package(t).fees >= BlockMinFee * package(t).size}
        best       == Best([t \in possible |-> package(t)])
        depth(t)   == Cardinality(TrueAncestors(m, t))
    IN  IF possible = {} THEN block
        ELSE GreedyFrom(m, block \o Sorted(rest(best), LAMBDA t, u :
                 \/ depth(t) < depth(u)
                 \/ depth(t) = depth(u) /\ Rank[t] < Rank[u]))

\* As long as there is a package that fits, the one of the highest fee rate.
GreedyTemplate(m) == GreedyFrom(m, <<>>)
===============================================================================
