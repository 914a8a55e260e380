------------------------- MODULE AssetsCache_proofs -------------------------
(***************************************************************************)
(* The whole asset state, seen through the commands of restricted assets,  *)
(* is the command cache: what is proved of the part holds of the whole.    *)
(***************************************************************************)
EXTENDS AssetsCache, RestrictedCache_proofs

\* Most steps are first-order and left to Zenon; those that need more name SMT.
USE Zenon

\* The keys the validation of a block looks up.
LEMMA AskedAreKeys == ASSUME NEW b PROVE AskedKeys(b) \subseteq Keys
  BY DEF AskedKeys

\* Connecting, undoing, dumping and cache traffic of the asset state are steps of
\* the command cache, or leave it alone.
LEMMA StepRefines == [Next]_vars => [RestrictedNext]_rvars
  <1>1. ASSUME NEW b \in Blocks, ConnectTip(b) PROVE RestrictedNext
    BY <1>1, AskedAreKeys DEF ConnectTip, RestrictedNext
  <1>2. DisconnectTip => RestrictedNext
    BY DEF DisconnectTip, RestrictedNext
  <1>3. DumpCacheToDatabase => RestrictedNext
    BY DEF DumpCacheToDatabase, RestrictedNext
  <1> QED  BY <1>1, <1>2, <1>3 
           DEF Next, QueryAsset, EvictAsset, LockReissue, UnlockReissue, RestrictedNext, vars

\* The asset state implements the command cache, whose steps its own contain.
LEMMA RefinesRestricted == Spec => RestrictedSpec
  <1>1. Init => RestrictedInit
    BY DEF Init
  <1> QED  BY <1>1, StepRefines, PTL DEF Spec, RestrictedSpec

\* With issues, reissues and transfers around them, the commands of restricted
\* assets still read as the active chain says.
THEOREM AssetsFollowCommands == Spec => []CommandsFollowChain
  BY RefinesRestricted, CommandsAlwaysFollowChain, PTL

-----------------------------------------------------------------------------
\* The caches are functions of the names, and coherent.
CacheInv == passetsCache = [n \in Names |-> passetsCache[n]] /\ CachesCoherent

\* Whatever a view holds, merging it keeps additions and removals apart: Flush
\* inserts an addition before the removals that cancel it.
LEMMA MergedDisjoint ==
  ASSUME CachesCoherent, NEW v, NEW n \in Names
  PROVE  /\ Merged(v).newAdd[n] = None \/ Merged(v).newRemove[n] = None
         /\ Merged(v).verifierAdd[n] = None \/ Merged(v).verifierRemove[n] = None
  BY SMT DEF Merged, Over, CachesCoherent

\* An answer of the database is cached as it is.
LEMMA CachedAnswer ==
  ASSUME CacheInv, NEW names, NEW verifiers, CacheAnswers(names, verifiers), assetsdb' = assetsdb
  PROVE  /\ passetsCache' = [n \in Names |-> passetsCache'[n]]
         /\ \A n \in Names : passetsCache'[n] = None \/ passetsCache'[n] = assetsdb'[n]
  BY SMT DEF CacheInv, CachesCoherent, CacheAnswers

\* A dump leaves in the cache what it wrote, or nothing.
LEMMA DumpedAgree ==
  ASSUME CachesCoherent, NEW n \in Names
  PROVE  DumpedCache(n) = None \/ DumpedCache(n) = DumpedData(n)
  <1>1. CASE UndoneReissues(n) \cup NewReissues(n) # {}
    BY <1>1 DEF DumpedCache
  <1>2. CASE UndoneReissues(n) \cup NewReissues(n) = {}
    <2>1. UndoneReissues(n) = {} /\ NewReissues(n) = {}
      BY <1>2
    <2>2. DumpedData(n) = IF passets.newAdd[n] # None
                          THEN [meta |-> passets.newAdd[n].meta, block |-> passets.newAdd[n].block]
                          ELSE IF passets.newRemove[n] # None THEN None ELSE assetsdb[n]
      BY <2>1 DEF DumpedData
    <2> QED  BY <1>2, <2>2, SMT DEF DumpedCache, CachesCoherent
  <1> QED  BY <1>1, <1>2

\* Connecting, undoing, dumping, asking and evicting keep the caches coherent.
LEMMA CacheStep == CacheInv /\ [Next]_vars => CacheInv'
  <1> SUFFICES ASSUME CacheInv, [Next]_vars PROVE CacheInv'
    OBVIOUS
  <1>1. ASSUME NEW b \in Blocks, ConnectTip(b) PROVE CacheInv'
    <2> DEFINE v == ConnectBlock(b).view
    <2> HIDE DEF v
    <2>1. passets' = Merged(v) /\ assetsdb' = assetsdb
      BY <1>1 DEF ConnectTip, v
    <2>2. \E names, verifiers : CacheAnswers(names, verifiers)
      BY <1>1 DEF ConnectTip
    <2> QED  BY <2>1, <2>2, MergedDisjoint, CachedAnswer DEF CacheInv, CachesCoherent
  <1>2. CASE DisconnectTip
    <2> DEFINE v == DisconnectBlock(tip).view
    <2> HIDE DEF v
    <2>1. passets' = Merged(v) /\ assetsdb' = assetsdb
      BY <1>2 DEF DisconnectTip, v, stored
    <2>2. \E names, verifiers : CacheAnswers(names, verifiers)
      BY <1>2 DEF DisconnectTip
    <2> QED  BY <2>1, <2>2, MergedDisjoint, CachedAnswer DEF CacheInv, CachesCoherent
  <1>3. CASE DumpCacheToDatabase
    <2>1. /\ passetsCache' = [n \in Names |-> DumpedCache(n)]
          /\ assetsdb' = [n \in Names |-> DumpedData(n)]
          /\ passets' = EmptyLayer
      BY <1>3 DEF DumpCacheToDatabase
    <2>2. \A n \in Names : passets'.newAdd[n] = None /\ passets'.verifierAdd[n] = None
      BY <2>1, SMT DEF EmptyLayer
    <2>3. \A n \in Names : passetsCache'[n] = None \/ passetsCache'[n] = assetsdb'[n]
      BY <2>1, DumpedAgree DEF CacheInv
    <2>4. passetsCache' = [n \in Names |-> passetsCache'[n]]
      BY <2>1
    <2> QED  BY <2>2, <2>3, <2>4 DEF CacheInv, CachesCoherent
  <1>4. ASSUME NEW n \in Names, QueryAsset(n) PROVE CacheInv'
    <2>1. passets' = passets /\ assetsdb' = assetsdb /\ CacheAnswers({n}, {})
      BY <1>4 DEF QueryAsset, stored
    <2> QED  BY <2>1, CachedAnswer DEF CacheInv, CachesCoherent
  <1>5. ASSUME NEW n \in Names, EvictAsset(n) PROVE CacheInv'
    <2>1. passets' = passets /\ assetsdb' = assetsdb /\ passetsCache' = [passetsCache EXCEPT ![n] = None]
      BY <1>5 DEF EvictAsset, stored
    <2> QED  BY <2>1, SMT DEF CacheInv, CachesCoherent
  <1>6. ASSUME passets' = passets, passetsCache' = passetsCache, assetsdb' = assetsdb
        PROVE  CacheInv'
    BY <1>6 DEF CacheInv, CachesCoherent
  <1>7. ASSUME NEW n \in Names, UnlockReissue(n) PROVE CacheInv'
    BY <1>6, <1>7 DEF UnlockReissue, stored
  <1>8. ASSUME NEW tx \in PoolReissues, LockReissue(tx) PROVE CacheInv'
    BY <1>6, <1>8 DEF LockReissue, stored
  <1>9. ASSUME UNCHANGED avars PROVE CacheInv'
    BY <1>6, <1>9 DEF avars, stored
  <1> QED  BY <1>1, <1>2, <1>3, <1>4, <1>5, <1>7, <1>8, <1>9 DEF Next, vars

\* Through any connecting, undoing and dumping nothing is both added and removed
\* by the layer over the databases (Flush), and the metadata cache never answers
\* otherwise than the database (DumpCacheToDatabase).
THEOREM CachesAlwaysCoherent == Spec => []CachesCoherent
  <1>1. Init => CacheInv
    BY SMT DEF Init, CacheInv, CachesCoherent, EmptyLayer
  <1>2. CacheInv => CachesCoherent
    BY DEF CacheInv
  <1> QED  BY <1>1, <1>2, CacheStep, PTL DEF Spec
=============================================================================
