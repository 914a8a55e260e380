------------------------- MODULE CoinsCache_proofs -------------------------
(***************************************************************************)
(* The cache flags are sound, which excludes the logic_error of            *)
(* BatchWrite, and the stack of caches implements UtxoLayers, for any sets *)
(* of outpoints, coins and blocks.                                         *)
(***************************************************************************)
EXTENDS CoinsCache, TLAPS

\* Most steps are first-order and left to Zenon; those that need more name SMT.
USE Zenon

\* A function with its value at one argument replaced, taken pointwise: the form
\* in which every cache operation below is used.
LEMMA FetchedEntry ==
    ASSUME NEW cache \in Cache, NEW base \in [Outpoints -> Coins \cup {Spent}],
           NEW o \in Outpoints
    PROVE  /\ FetchCoin(cache, base, o) \in Cache
           /\ \A p \in Outpoints : p # o => FetchCoin(cache, base, o)[p] = cache[p]
           /\ FetchCoin(cache, base, o)[o] =
                 IF cache[o] = NoEntry /\ base[o] # Spent
                 THEN [coin |-> base[o], dirty |-> FALSE, fresh |-> FALSE]
                 ELSE cache[o]
  BY DEF FetchCoin, Cache, Entry

\* FetchCoin changes no answer and keeps the flags true.
LEMMA FetchIsInvisible ==
    ASSUME NEW cache \in Cache, NEW base \in [Outpoints -> Coins \cup {Spent}],
           NEW o \in Outpoints, FlagsTrue(cache, base)
    PROVE  /\ FetchCoin(cache, base, o) \in Cache
           /\ FlagsTrue(FetchCoin(cache, base, o), base)
           /\ CoinsOf(FetchCoin(cache, base, o), base) = CoinsOf(cache, base)
  <1>1. NoEntry \notin Entry
    BY ConstantsAssumption
  <1>2. base[o] # Spent => [coin |-> base[o], dirty |-> FALSE, fresh |-> FALSE] \in Entry
    BY DEF Entry
  <1>. DEFINE new == FetchCoin(cache, base, o)
  <1>3. FlagsTrue(new, base)
    BY FetchedEntry, <1>1, <1>2, SMT DEF FlagsTrue
  <1>4. \A p \in Outpoints : CoinIn(new, base, p) = CoinIn(cache, base, p)
    BY FetchedEntry, <1>1, <1>2, SMT DEF CoinIn
  <1>. QED
    BY FetchedEntry, <1>3, <1>4 DEF CoinsOf

\* What a cache answers is a coin or Spent.
LEMMA CoinsOfType ==
    ASSUME NEW cache \in Cache, NEW base \in [Outpoints -> Coins \cup {Spent}]
    PROVE  /\ CoinsOf(cache, base) \in [Outpoints -> Coins \cup {Spent}]
           /\ \A o \in Outpoints : CoinsOf(cache, base)[o] = CoinIn(cache, base, o)
  BY DEF CoinsOf, CoinIn, Cache, Entry

\* An empty cache answers what its parent answers.
LEMMA EmptyCache ==
    ASSUME NEW base \in [Outpoints -> Coins \cup {Spent}]
    PROVE  /\ NoEntries \in Cache
           /\ FlagsTrue(NoEntries, base)
           /\ CoinsOf(NoEntries, base) = base
  BY DEF NoEntries, FlagsTrue, CoinsOf, CoinIn, Cache

\* AddCoin of a spendable coin, whatever possible_overwrite: a DIRTY entry, which is
\* FRESH only over a parent that does not have the coin, puts the coin in place
\* and keeps the flags true.
LEMMA PutEntry ==
    ASSUME NEW cache \in Cache, NEW new \in Cache,
           NEW base \in [Outpoints -> Coins \cup {Spent}], FlagsTrue(cache, base),
           NEW o \in Outpoints, \A p \in Outpoints : p # o => new[p] = cache[p],
           NEW c \in Coins, new[o] # NoEntry, new[o].coin = c, new[o].dirty,
           new[o].fresh => base[o] = Spent
    PROVE  FlagsTrue(new, base) /\ CoinsOf(new, base) = [CoinsOf(cache, base) EXCEPT ![o] = c]
  <1>1. c # Spent
    BY ConstantsAssumption
  <1>2. FlagsTrue(new, base)
    BY <1>1 DEF FlagsTrue
  <1>3. \A p \in Outpoints :
           CoinIn(new, base, p) = IF p = o THEN c ELSE CoinIn(cache, base, p)
    BY DEF CoinIn
  <1>4. CoinsOf(new, base) = [CoinsOf(cache, base) EXCEPT ![o] = c]
    BY <1>3 DEF CoinsOf
  <1>. QED
    BY <1>2, <1>4

\* SpendCoin makes the coin spent, and changes nothing else.
LEMMA SpendCoinEffect ==
    ASSUME NEW cache \in Cache, NEW base \in [Outpoints -> Coins \cup {Spent}],
           NEW o \in Outpoints, FlagsTrue(cache, base)
    PROVE  LET new == SpendCoin(cache, base, o) IN
           /\ new \in Cache
           /\ FlagsTrue(new, base)
           /\ CoinsOf(new, base) = [CoinsOf(cache, base) EXCEPT ![o] = Spent]
  <1>. DEFINE new == SpendCoin(cache, base, o)
              it == FetchCoin(cache, base, o)[o]
              gone == [coin |-> Spent, dirty |-> TRUE, fresh |-> FALSE]
  <1>a. gone \in Entry
    BY DEF Entry
  <1>1. gone # NoEntry /\ gone.coin = Spent /\ gone.dirty /\ ~gone.fresh
    BY <1>a, ConstantsAssumption
  <1>b. base[o] # Spent => [coin |-> base[o], dirty |-> FALSE, fresh |-> FALSE] \in Entry
    BY DEF Entry
  <1>2. it = IF cache[o] = NoEntry /\ base[o] # Spent
             THEN [coin |-> base[o], dirty |-> FALSE, fresh |-> FALSE] ELSE cache[o]
    BY FetchedEntry
  <1>3. CASE it = NoEntry
    <2>1. cache[o] = NoEntry /\ base[o] = Spent
      BY <1>2, <1>3, <1>b, ConstantsAssumption
    <2>2. new = cache
      BY <1>3 DEF SpendCoin
    <2>3. CoinsOf(cache, base) = [CoinsOf(cache, base) EXCEPT ![o] = Spent]
      BY <2>1 DEF CoinsOf, CoinIn
    <2>. QED
      BY <2>2, <2>3
  <1>4. CASE it # NoEntry
    <2>1. it.fresh => base[o] = Spent
      BY <1>2, <1>4, SMT DEF FlagsTrue
    <2>2. new = [cache EXCEPT ![o] = IF it.fresh THEN NoEntry ELSE gone]
      BY <1>4 DEF SpendCoin
    <2>3. /\ new \in Cache
          /\ \A p \in Outpoints : p # o => new[p] = cache[p]
          /\ (new[o] = NoEntry /\ base[o] = Spent) \/ new[o] = gone
      BY <1>a, <2>1, <2>2 DEF Cache
    <2>. HIDE DEF gone, new, it
    <2>4. FlagsTrue(new, base)
      BY <1>1, <2>3, SMT DEF FlagsTrue
    <2>5. \A p \in Outpoints :
             CoinIn(new, base, p) = IF p = o THEN Spent ELSE CoinIn(cache, base, p)
      BY <1>1, <2>3 DEF CoinIn
    <2>6. CoinsOf(new, base) = [CoinsOf(cache, base) EXCEPT ![o] = Spent]
      BY <2>5 DEF CoinsOf
    <2>. QED
      BY <2>3, <2>4, <2>6 DEF new
  <1>. QED
    BY <1>3, <1>4

\* True flags exclude the logic_error of BatchWrite.
LEMMA FreshChildOverSpent ==
    ASSUME NEW child \in Cache, NEW us \in Cache,
           NEW base \in [Outpoints -> Coins \cup {Spent}],
           FlagsTrue(child, CoinsOf(us, base)), FlagsTrue(us, base), NEW o \in Outpoints
    PROVE  ~FreshMisapplied(child[o], us[o])
  BY CoinsOfType, SMT DEF FlagsTrue, FreshMisapplied, CoinIn

\* BatchWrite of a child into a cache: afterwards the cache answers what the child
\* answered, and its own flags are true of its own parent.
LEMMA BatchWriteEffect ==
    ASSUME NEW child \in Cache, NEW us \in Cache,
           NEW base \in [Outpoints -> Coins \cup {Spent}],
           FlagsTrue(child, CoinsOf(us, base)), FlagsTrue(us, base)
    PROVE  LET new == BatchWrite(child, us) IN
           /\ new \in Cache
           /\ FlagsTrue(new, base)
           /\ CoinsOf(new, base) = CoinsOf(child, CoinsOf(us, base))
  <1>. DEFINE new == BatchWrite(child, us)
              mid == CoinsOf(us, base)
  <1>1. ASSUME NEW o \in Outpoints
        PROVE  /\ new[o] = MergeEntry(child[o], us[o])
               /\ new[o] \in Entry \cup {NoEntry}
               /\ CoinIn(new, base, o) = CoinIn(child, mid, o)
               /\ new[o] # NoEntry =>
                    /\ ~new[o].dirty => new[o].coin = base[o] /\ new[o].coin # Spent
                    /\ new[o].fresh => base[o] = Spent /\ new[o].dirty /\ new[o].coin # Spent
    <2>. DEFINE c == child[o]
                u == us[o]
    <2>1. new[o] = MergeEntry(c, u)
      BY DEF BatchWrite
    <2>2. c \in Entry \cup {NoEntry} /\ u \in Entry \cup {NoEntry} /\ base[o] \in Coins \cup {Spent}
      BY DEF Cache
    <2>3. mid[o] = IF u = NoEntry THEN base[o] ELSE u.coin
      BY CoinsOfType DEF CoinIn
    <2>4. /\ c # NoEntry => /\ ~c.dirty => c.coin = mid[o]
                            /\ c.fresh => mid[o] = Spent /\ c.dirty /\ c.coin # Spent
          /\ u # NoEntry => /\ ~u.dirty => u.coin = base[o] /\ u.coin # Spent
                            /\ u.fresh => base[o] = Spent /\ u.dirty /\ u.coin # Spent
      BY DEF FlagsTrue
    <2>5. CASE c = NoEntry \/ ~c.dirty
      <3>1. new[o] = u
        BY <2>1, <2>5 DEF MergeEntry
      <3>. QED
        BY <3>1, <2>1, <2>2, <2>3, <2>4, <2>5 DEF CoinIn
    <2>6. CASE c # NoEntry /\ c.dirty /\ u # NoEntry /\ u.fresh /\ c.coin = Spent
      <3>1. new[o] = NoEntry
        BY <2>1, <2>6 DEF MergeEntry
      <3>. QED
        BY <3>1, <2>1, <2>2, <2>3, <2>4, <2>6 DEF CoinIn
    <2>7. CASE c # NoEntry /\ c.dirty /\ ~(u # NoEntry /\ u.fresh /\ c.coin = Spent)
      <3>. DEFINE f == IF u = NoEntry THEN c.fresh ELSE u.fresh
                  e == [coin |-> c.coin, dirty |-> TRUE, fresh |-> f]
      <3>1. new[o] = e
        BY <2>1, <2>2, <2>4, <2>7 DEF MergeEntry
      <3>a. e \in Entry
        BY <2>2, <2>7 DEF Entry
      <3>2. e \in Entry /\ e # NoEntry
        BY <3>a, ConstantsAssumption
      <3>3. f => base[o] = Spent /\ c.coin # Spent
        BY <2>3, <2>4, <2>7
      <3>4. CoinIn(new, base, o) = CoinIn(child, mid, o)
        BY <3>1, <3>2, <2>7, SMT DEF CoinIn
      <3>. QED
        BY <3>1, <3>2, <3>3, <3>4, <2>1, SMT
    <2>. QED
      BY <2>5, <2>6, <2>7
  <1>2. new \in Cache
    BY <1>1 DEF BatchWrite, Cache
  <1>3. FlagsTrue(new, base)
    BY <1>1 DEF FlagsTrue
  <1>4. CoinsOf(new, base) = CoinsOf(child, mid)
    BY <1>1 DEF CoinsOf
  <1>. QED
    BY <1>2, <1>3, <1>4

\* BatchWrite into the database leaves it with what the cache answered.
LEMMA DBBatchWriteEffect ==
    ASSUME NEW child \in Cache, NEW base \in [Outpoints -> Coins \cup {Spent}],
           FlagsTrue(child, base)
    PROVE  DBBatchWrite(child, base) = CoinsOf(child, base)
  BY DEF DBBatchWrite, CoinsOf, CoinIn, FlagsTrue

\* Uncache changes no answer.
LEMMA UncacheIsInvisible ==
    ASSUME NEW cache \in Cache, NEW base \in [Outpoints -> Coins \cup {Spent}],
           NEW o \in Outpoints, FlagsTrue(cache, base)
    PROVE  /\ Uncache(cache, o) \in Cache
           /\ FlagsTrue(Uncache(cache, o), base)
           /\ CoinsOf(Uncache(cache, o), base) = CoinsOf(cache, base)
  <1>. DEFINE new == Uncache(cache, o)
  <1>1. new \in Cache /\ \A p \in Outpoints : p # o => new[p] = cache[p]
    BY DEF Uncache, Cache
  <1>2. new[o] = cache[o] \/ (new[o] = NoEntry /\ cache[o] # NoEntry /\ ~cache[o].dirty)
    BY DEF Uncache, Cache
  <1>3. \A p \in Outpoints : CoinIn(new, base, p) = CoinIn(cache, base, p)
    BY <1>1, <1>2 DEF CoinIn, FlagsTrue
  <1>4. FlagsTrue(new, base)
    BY <1>1, <1>2, SMT DEF FlagsTrue
  <1>. QED
    BY <1>1, <1>3, <1>4 DEF CoinsOf

-----------------------------------------------------------------------------
(* The inductive invariant and the step simulation, proved together: each   *)
(* action keeps IInv, and is a step of UtxoLayers or invisible to it.        *)

\* An operation on the temporary view that may also have filled pcoinsTip: what
\* pcoinsTip answers is unchanged, so only the view's answers matter.
LEMMA ThroughTip ==
    ASSUME IInv, NEW o \in Outpoints, FetchThrough(o), UNCHANGED db
    PROVE  tip' \in Cache /\ FlagsTrue(tip', db') /\ TipCoins' = TipCoins
  <1>1. CASE view[o] = NoEntry
    BY <1>1, FetchIsInvisible DEF IInv, TypeOK, FlagsSound, FetchThrough, TipCoins
  <1>2. CASE view[o] # NoEntry
    BY <1>2 DEF IInv, TypeOK, FlagsSound, FetchThrough, TipCoins
  <1>. QED
    BY <1>1, <1>2

\* The coin maps of the mapping are coin maps.
LEMMA LayerTypes ==
    ASSUME IInv
    PROVE  /\ TipCoins \in [Outpoints -> Coins \cup {Spent}]
           /\ ViewCoins \in [Outpoints -> Coins \cup {Spent}]
           /\ \A o \in Outpoints : ViewCoins[o] = CoinIn(view, TipCoins, o)
  BY CoinsOfType DEF IInv, TypeOK, TipCoins, ViewCoins

\* An AddCoin on the view is Put, or nothing for an unspendable output.
LEMMA AddIsPut ==
    ASSUME IInv, NEW o \in Outpoints, NEW c \in Coins, open,
           view' \in Cache, FlagsTrue(view', TipCoins), TipCoins' = TipCoins,
           tip' \in Cache, FlagsTrue(tip', db'),
           CoinsOf(view', TipCoins) = IF c \in Unspendable THEN ViewCoins
                                      ELSE [ViewCoins EXCEPT ![o] = c],
           UNCHANGED <<db, dbBest, tipBest, viewBest, open>>
    PROVE  IInv' /\ [Layers!Next]_(Layers!vars)
  <1>1. IInv'
    BY DEF IInv, TypeOK, FlagsSound, ClosedIsEmpty
  <1>2. ViewCoins' = CoinsOf(view', TipCoins)
    BY DEF ViewCoins
  <1>3. TipBestBlock' = TipBestBlock /\ ViewBestBlock' = ViewBestBlock
    BY DEF TipBestBlock, ViewBestBlock
  <1>4. CASE c \in Unspendable
    BY <1>1, <1>2, <1>3, <1>4 DEF Layers!vars
  <1>5. CASE c \notin Unspendable
    <2>1. [coins |-> ViewCoins', best |-> ViewBestBlock'] =
             [[coins |-> ViewCoins, best |-> ViewBestBlock] EXCEPT !.coins[o] = c]
      BY <1>2, <1>3, <1>5, SMT
    <2>2. Layers!Put(o, c)
      BY <2>1, <1>3 DEF Layers!Put
    <2>. QED
      BY <1>1, <1>5, <2>2 DEF Layers!Next
  <1>. QED
    BY <1>4, <1>5

LEMMA Step ==
    IInv /\ [Next]_vars => IInv' /\ [Layers!Next]_(Layers!vars)
  <1>. SUFFICES ASSUME IInv, [Next]_vars
                PROVE  IInv' /\ [Layers!Next]_(Layers!vars)
    OBVIOUS
  <1>. USE LayerTypes
  <1>1. CASE OpenView
    <2>1. view = NoEntries /\ viewBest = Null
      BY <1>1 DEF OpenView, IInv, ClosedIsEmpty
    <2>2. IInv'
      BY <1>1, <2>1 DEF OpenView, IInv, TypeOK, FlagsSound, ClosedIsEmpty, TipCoins
    <2>3. Layers!Begin
      BY <1>1, <2>1 DEF OpenView, Layers!Begin, TipCoins, ViewCoins, TipBestBlock, ViewBestBlock
    <2>. QED
      BY <2>2, <2>3 DEF Layers!Next
  <1>2. CASE GetBestBlock
    <2>1. TipBestBlock' = TipBestBlock /\ ViewBestBlock' = ViewBestBlock
      BY <1>2 DEF GetBestBlock, TipBestBlock, ViewBestBlock
    <2>2. IInv'
      BY <1>2 DEF GetBestBlock, IInv, TypeOK, FlagsSound, ClosedIsEmpty, TipCoins,
                  TipBestBlock, ViewBestBlock
    <2>3. UNCHANGED <<db, dbBest, TipCoins, ViewCoins, open>>
      BY <1>2 DEF GetBestBlock, TipCoins, ViewCoins
    <2>. QED
      BY <2>1, <2>2, <2>3 DEF Layers!vars
  <1>3. CASE FlushView
    <2>1. /\ tip' \in Cache /\ FlagsTrue(tip', db) /\ CoinsOf(tip', db) = ViewCoins
      BY <1>3, BatchWriteEffect DEF FlushView, IInv, TypeOK, FlagsSound, TipCoins, ViewCoins
    <2>2. TipCoins' = ViewCoins /\ ViewCoins' = ViewCoins
      BY <1>3, <2>1, EmptyCache DEF FlushView, TipCoins, ViewCoins
    <2>3. TipBestBlock' = ViewBestBlock /\ ViewBestBlock' = ViewBestBlock
      BY <1>3 DEF FlushView, TipBestBlock, ViewBestBlock
    <2>4. IInv'
      BY <1>3, <2>1, <2>2, EmptyCache DEF FlushView, IInv, TypeOK, FlagsSound, ClosedIsEmpty
    <2>5. Layers!Commit
      BY <1>3, <2>2, <2>3 DEF FlushView, Layers!Commit
    <2>. QED
      BY <2>4, <2>5 DEF Layers!Next
  <1>4. CASE DropView
    <2>1. TipCoins' = TipCoins /\ ViewCoins' = TipCoins
      BY <1>4, EmptyCache DEF DropView, TipCoins, ViewCoins
    <2>2. TipBestBlock' = TipBestBlock /\ ViewBestBlock' = TipBestBlock
      BY <1>4 DEF DropView, TipBestBlock, ViewBestBlock
    <2>3. IInv'
      BY <1>4, <2>1, EmptyCache DEF DropView, IInv, TypeOK, FlagsSound, ClosedIsEmpty
    <2>4. Layers!Abandon
      BY <1>4, <2>1, <2>2 DEF DropView, Layers!Abandon
    <2>. QED
      BY <2>3, <2>4 DEF Layers!Next
  <1>5. CASE FlushTip
    <2>1. db' = TipCoins
      BY <1>5, DBBatchWriteEffect DEF FlushTip, IInv, TypeOK, FlagsSound, TipCoins
    <2>2. TipCoins' = TipCoins
      BY <1>5, <2>1, EmptyCache DEF FlushTip, TipCoins
    <2>3. view = NoEntries /\ viewBest = Null
      BY <1>5 DEF FlushTip, IInv, ClosedIsEmpty
    <2>4. ViewCoins' = ViewCoins
      BY <1>5, <2>2 DEF FlushTip, ViewCoins
    <2>5. TipBestBlock' = TipBestBlock /\ ViewBestBlock' = ViewBestBlock /\ dbBest' = TipBestBlock
      BY <1>5 DEF FlushTip, TipBestBlock, ViewBestBlock
    <2>6. IInv'
      BY <1>5, <2>1, <2>2, EmptyCache DEF FlushTip, IInv, TypeOK, FlagsSound, ClosedIsEmpty
    <2>7. Layers!Persist
      BY <1>5, <2>1, <2>2, <2>4, <2>5 DEF FlushTip, Layers!Persist
    <2>. QED
      BY <2>6, <2>7 DEF Layers!Next
  <1>6. CASE Restart
    <2>1. TipCoins' = db /\ ViewCoins' = db
      BY <1>6, EmptyCache DEF Restart, TipCoins, ViewCoins, IInv, TypeOK
    <2>2. TipBestBlock' = dbBest /\ ViewBestBlock' = dbBest
      BY <1>6 DEF Restart, TipBestBlock, ViewBestBlock
    <2>3. IInv'
      BY <1>6, <2>1, EmptyCache DEF Restart, IInv, TypeOK, FlagsSound, ClosedIsEmpty
    <2>4. Layers!Reopen
      BY <1>6, <2>1, <2>2 DEF Restart, Layers!Reopen
    <2>. QED
      BY <2>3, <2>4 DEF Layers!Next
  <1>7. ASSUME NEW o \in Outpoints, AccessCoin(o)
        PROVE  IInv' /\ UNCHANGED Layers!vars
    <2>1. tip' \in Cache /\ FlagsTrue(tip', db') /\ TipCoins' = TipCoins
      BY <1>7, ThroughTip DEF AccessCoin
    <2>2. view' \in Cache /\ FlagsTrue(view', TipCoins) /\ CoinsOf(view', TipCoins) = ViewCoins
      BY <1>7, FetchIsInvisible DEF AccessCoin, IInv, TypeOK, FlagsSound, ViewCoins
    <2>3. IInv'
      BY <1>7, <2>1, <2>2 DEF AccessCoin, IInv, TypeOK, FlagsSound, ClosedIsEmpty
    <2>4. ViewCoins' = ViewCoins
      BY <2>1, <2>2 DEF ViewCoins
    <2>. QED
      BY <1>7, <2>1, <2>3, <2>4 DEF AccessCoin, Layers!vars, TipBestBlock, ViewBestBlock
  <1>8. ASSUME NEW o \in Outpoints, AccessTipCoin(o) \/ UncacheTip(o)
        PROVE  IInv' /\ UNCHANGED Layers!vars
    <2>1. tip' \in Cache /\ FlagsTrue(tip', db) /\ CoinsOf(tip', db) = TipCoins
      BY <1>8, FetchIsInvisible, UncacheIsInvisible, SMT
         DEF AccessTipCoin, UncacheTip, IInv, TypeOK, FlagsSound, TipCoins
    <2>2. TipCoins' = TipCoins /\ UNCHANGED <<db, dbBest, tipBest, view, viewBest, open>>
      BY <1>8, <2>1 DEF AccessTipCoin, UncacheTip, TipCoins
    <2>3. IInv'
      BY <2>1, <2>2 DEF IInv, TypeOK, FlagsSound, ClosedIsEmpty
    <2>4. ViewCoins' = ViewCoins
      BY <2>2 DEF ViewCoins
    <2>. QED
      BY <2>2, <2>3, <2>4 DEF Layers!vars, TipBestBlock, ViewBestBlock
  <1>9. ASSUME NEW o \in Outpoints, SpendViewCoin(o)
        PROVE  IInv' /\ [Layers!Next]_(Layers!vars)
    <2>1. tip' \in Cache /\ FlagsTrue(tip', db') /\ TipCoins' = TipCoins
      BY <1>9, ThroughTip DEF SpendViewCoin
    <2>2. /\ view' \in Cache /\ FlagsTrue(view', TipCoins)
          /\ CoinsOf(view', TipCoins) = [ViewCoins EXCEPT ![o] = Spent]
      BY <1>9, SpendCoinEffect DEF SpendViewCoin, IInv, TypeOK, FlagsSound, ViewCoins
    <2>3. IInv'
      BY <1>9, <2>1, <2>2 DEF SpendViewCoin, IInv, TypeOK, FlagsSound, ClosedIsEmpty
    <2>4. ViewCoins' = [ViewCoins EXCEPT ![o] = Spent]
      BY <2>1, <2>2 DEF ViewCoins
    <2>5. UNCHANGED <<db, dbBest, open, TipBestBlock, ViewBestBlock>>
      BY <1>9 DEF SpendViewCoin, TipBestBlock, ViewBestBlock
    <2>6. [coins |-> ViewCoins', best |-> ViewBestBlock'] =
             [[coins |-> ViewCoins, best |-> ViewBestBlock] EXCEPT !.coins[o] = Spent]
      BY <2>4, <2>5, SMT
    <2>7. Layers!Remove(o)
      BY <1>9, <2>1, <2>5, <2>6 DEF SpendViewCoin, Layers!Remove
    <2>. QED
      BY <2>3, <2>7 DEF Layers!Next
  <1>10. ASSUME NEW o \in Outpoints, NEW c \in Coins, AddCoinbaseOutput(o, c)
         PROVE  IInv' /\ [Layers!Next]_(Layers!vars)
    <2>1. TipCoins' = TipCoins /\ tip' \in Cache /\ FlagsTrue(tip', db')
      BY <1>10 DEF AddCoinbaseOutput, TipCoins, IInv, TypeOK, FlagsSound
    <2>2. view \in Cache /\ FlagsTrue(view, TipCoins) /\ CoinsOf(view, TipCoins) = ViewCoins
      BY DEF IInv, TypeOK, FlagsSound, ViewCoins
    <2>. DEFINE e == [coin |-> c, dirty |-> TRUE, fresh |-> view[o] # NoEntry /\ view[o].fresh]
    <2>4. e \in Entry /\ e.coin = c /\ e.dirty
      BY DEF Entry
    <2>5. e.fresh => TipCoins[o] = Spent
      BY <1>10 DEF AddCoinbaseOutput, FlagsTrue, CoinIn, IInv, FlagsSound
    <2>6. view' = IF c \in Unspendable THEN view ELSE [view EXCEPT ![o] = e]
      BY <1>10 DEF AddCoinbaseOutput, AddCoin
    <2>. HIDE DEF e
    <2>7. /\ view' \in Cache /\ FlagsTrue(view', TipCoins)
          /\ CoinsOf(view', TipCoins) = IF c \in Unspendable THEN ViewCoins
                                         ELSE [ViewCoins EXCEPT ![o] = c]
      <3>1. CASE c \in Unspendable
        BY <3>1, <2>2, <2>6
      <3>2. CASE c \notin Unspendable
        <4>1. /\ view' \in Cache
              /\ \A p \in Outpoints : p # o => view'[p] = view[p]
              /\ view'[o] = e
          BY <3>2, <2>2, <2>4, <2>6 DEF Cache
        <4>2. e # NoEntry
          BY <2>4, ConstantsAssumption
        <4>3. FlagsTrue(view', TipCoins) /\ CoinsOf(view', TipCoins) = [ViewCoins EXCEPT ![o] = c]
          BY <4>1, <4>2, <2>2, <2>4, <2>5, PutEntry, SMT
        <4>. QED
          BY <3>2, <4>1, <4>3
      <3>. QED
        BY <3>1, <3>2
    <2>. QED
      BY <1>10, <2>1, <2>7, AddIsPut DEF AddCoinbaseOutput
  <1>11. ASSUME NEW o \in Outpoints, NEW c \in Coins, AddTxOutput(o, c)
         PROVE  IInv' /\ [Layers!Next]_(Layers!vars)
    <2>1. TipCoins' = TipCoins /\ tip' \in Cache /\ FlagsTrue(tip', db')
      BY <1>11 DEF AddTxOutput, TipCoins, IInv, TypeOK, FlagsSound
    <2>2. view \in Cache /\ FlagsTrue(view, TipCoins) /\ CoinsOf(view, TipCoins) = ViewCoins
      BY DEF IInv, TypeOK, FlagsSound, ViewCoins
    <2>. DEFINE e == [coin |-> c, dirty |-> TRUE,
                      fresh |-> \/ view[o] = NoEntry \/ ~view[o].dirty
                                \/ view[o] # NoEntry /\ view[o].fresh]
    <2>4. e \in Entry /\ e.coin = c /\ e.dirty
      BY DEF Entry
    <2>5. e.fresh => TipCoins[o] = Spent
      BY <1>11 DEF AddTxOutput, FlagsTrue, CoinIn, IInv, FlagsSound
    <2>6. view' = IF c \in Unspendable THEN view ELSE [view EXCEPT ![o] = e]
      BY <1>11 DEF AddTxOutput, AddCoin
    <2>. HIDE DEF e
    <2>7. /\ view' \in Cache /\ FlagsTrue(view', TipCoins)
          /\ CoinsOf(view', TipCoins) = IF c \in Unspendable THEN ViewCoins
                                         ELSE [ViewCoins EXCEPT ![o] = c]
      <3>1. CASE c \in Unspendable
        BY <3>1, <2>2, <2>6
      <3>2. CASE c \notin Unspendable
        <4>1. /\ view' \in Cache
              /\ \A p \in Outpoints : p # o => view'[p] = view[p]
              /\ view'[o] = e
          BY <3>2, <2>2, <2>4, <2>6 DEF Cache
        <4>2. e # NoEntry
          BY <2>4, ConstantsAssumption
        <4>3. FlagsTrue(view', TipCoins) /\ CoinsOf(view', TipCoins) = [ViewCoins EXCEPT ![o] = c]
          BY <4>1, <4>2, <2>2, <2>4, <2>5, PutEntry, SMT
        <4>. QED
          BY <3>2, <4>1, <4>3
      <3>. QED
        BY <3>1, <3>2
    <2>. QED
      BY <1>11, <2>1, <2>7, AddIsPut DEF AddTxOutput
  <1>12. ASSUME NEW o \in Outpoints, NEW c \in Coins, AddCheckedCoin(o, c)
         PROVE  IInv' /\ [Layers!Next]_(Layers!vars)
    <2>. DEFINE got == FetchCoin(view, TipCoins, o)
    <2>1. TipCoins' = TipCoins /\ tip' \in Cache /\ FlagsTrue(tip', db')
      BY <1>12, ThroughTip DEF AddCheckedCoin
    <2>2. got \in Cache /\ FlagsTrue(got, TipCoins) /\ CoinsOf(got, TipCoins) = ViewCoins
      BY FetchIsInvisible DEF IInv, TypeOK, FlagsSound, ViewCoins
    <2>3. CoinIn(got, TipCoins, o) = ViewCoins[o]
      BY <2>2, CoinsOfType
    <2>. HIDE DEF got
    <2>. DEFINE e == [coin |-> c, dirty |-> TRUE,
                      fresh |-> \/ ~(ViewCoins[o] # Spent) /\ (got[o] = NoEntry \/ ~got[o].dirty)
                                \/ got[o] # NoEntry /\ got[o].fresh]
    <2>4. e \in Entry /\ e.coin = c /\ e.dirty
      BY DEF Entry
    <2>5. e.fresh => TipCoins[o] = Spent
      BY <1>12, <2>2, <2>3 DEF AddCheckedCoin, FlagsTrue, CoinIn, IInv, FlagsSound
    <2>6. view' = IF c \in Unspendable THEN got ELSE [got EXCEPT ![o] = e]
      BY <1>12 DEF AddCheckedCoin, AddCoin, got
    <2>. HIDE DEF e
    <2>7. /\ view' \in Cache /\ FlagsTrue(view', TipCoins)
          /\ CoinsOf(view', TipCoins) = IF c \in Unspendable THEN ViewCoins
                                         ELSE [ViewCoins EXCEPT ![o] = c]
      <3>1. CASE c \in Unspendable
        BY <3>1, <2>2, <2>6
      <3>2. CASE c \notin Unspendable
        <4>1. /\ view' \in Cache
              /\ \A p \in Outpoints : p # o => view'[p] = got[p]
              /\ view'[o] = e
          BY <3>2, <2>2, <2>4, <2>6 DEF Cache
        <4>2. e # NoEntry
          BY <2>4, ConstantsAssumption
        <4>3. FlagsTrue(view', TipCoins) /\ CoinsOf(view', TipCoins) = [ViewCoins EXCEPT ![o] = c]
          BY <4>1, <4>2, <2>2, <2>4, <2>5, PutEntry, SMT
        <4>. QED
          BY <3>2, <4>1, <4>3
      <3>. QED
        BY <3>1, <3>2
    <2>. QED
      BY <1>12, <2>1, <2>7, AddIsPut DEF AddCheckedCoin
  <1>13. ASSUME NEW b \in Blocks, SetBestBlock(b)
         PROVE  IInv' /\ [Layers!Next]_(Layers!vars)
    <2>1. UNCHANGED <<db, dbBest, open, TipCoins, ViewCoins, TipBestBlock>>
      BY <1>13 DEF SetBestBlock, TipCoins, ViewCoins, TipBestBlock
    <2>2. ViewBestBlock' = b
      BY <1>13, ConstantsAssumption DEF SetBestBlock, ViewBestBlock
    <2>3. IInv'
      BY <1>13, <2>1, SMT DEF SetBestBlock, IInv, TypeOK, FlagsSound, ClosedIsEmpty
    <2>4. Layers!Point(b)
      BY <1>13, <2>1, <2>2, SMT DEF SetBestBlock, Layers!Point
    <2>. QED
      BY <2>3, <2>4 DEF Layers!Next
  <1>14. CASE UNCHANGED vars
    BY <1>14 DEF vars, IInv, TypeOK, FlagsSound, ClosedIsEmpty, TipCoins, ViewCoins,
                 TipBestBlock, ViewBestBlock, Layers!vars
  <1>. QED
    BY <1>1, <1>2, <1>3, <1>4, <1>5, <1>6, <1>7, <1>8, <1>9, <1>10, <1>11, <1>12, <1>13, <1>14
       DEF Next

\* The empty stack satisfies IInv and is an initial state of UtxoLayers.
LEMMA Initially == Init => IInv /\ Layers!Init
  <1>. SUFFICES ASSUME Init PROVE IInv /\ Layers!Init
    OBVIOUS
  <1>1. db \in [Outpoints -> Coins \cup {Spent}]
    BY DEF Init
  <1>2. TipCoins = db /\ ViewCoins = db
    BY <1>1, EmptyCache DEF Init, TipCoins, ViewCoins
  <1>3. IInv
    BY <1>1, <1>2, EmptyCache DEF Init, IInv, TypeOK, FlagsSound, ClosedIsEmpty
  <1>4. Layers!Init
    BY <1>2 DEF Init, Layers!Init, Layers!Empty, TipBestBlock, ViewBestBlock
  <1>. QED
    BY <1>3, <1>4

\* Every layer always holds what its type allows.
THEOREM TypeCorrect == Spec => []TypeOK
  <1>1. IInv => TypeOK
    BY DEF IInv
  <1>. QED
    BY <1>1, Initially, Step, PTL DEF Spec

\* DIRTY and FRESH always tell the truth about the parent view (coins.h:117-118).
THEOREM FlagsAlwaysSound == Spec => []FlagsSound
  <1>1. IInv => FlagsSound
    BY DEF IInv
  <1>. QED
    BY <1>1, Initially, Step, PTL DEF Spec

\* The stack of caches implements three plain maps of coins.
THEOREM Refinement == Spec => ImplementsLayers
  BY Initially, Step, PTL DEF Spec, ImplementsLayers, Layers!Spec
=============================================================================
