----------------------- MODULE ChainActivation_proofs -----------------------
(***************************************************************************)
(* Proofs about ChainActivation, for every block tree and every set of     *)
(* invalid blocks, in layers, each on the ones before:                     *)
(*                                                                         *)
(*   LinkInv          nChainTx and mapBlocksUnlinked are right;            *)
(*   ActivationTypes  the types, with any number of threads;               *)
(*   ValidInv         the active chain holds no failed block;              *)
(*   CauseInv         what is marked failed, and why, whatever is used;    *)
(*   FlagInv          the same, more exactly, if reconsiderblock is used   *)
(*                    on the blocks that failed and not below them;        *)
(*   BestInv          no good block is lost from the candidates, and the   *)
(*                    tip is the best of them.                             *)
(*                                                                         *)
(* Facts about all ancestors of a block, and the minimum and maximum that  *)
(* CHOOSE picks, rest on the well-ordering of the naturals and of finite   *)
(* sets under inclusion: the least counterexample has no predecessor.      *)
(***************************************************************************)
EXTENDS ChainActivation, TLAPS, FiniteSetTheorems

\* Most steps are first-order and left to Zenon; those that need more name SMT.
USE Zenon

-----------------------------------------------------------------------------
(* The block tree and the order of the candidates. *)

\* A non-empty set of numbers has a least one.
LEMMA LeastNumber ==
    ASSUME NEW S, S \subseteq Nat, S # {}
    PROVE  \E m \in S : \A n \in S : m <= n
  <1>1. IsWellFoundedOn(OpToRel(<, Nat), Nat)
    BY NatLessThanWellFounded
  <1>2. PICK m \in S : \A n \in S : <<n, m>> \notin OpToRel(<, Nat)
    BY <1>1, WFMin
  <1>3. ASSUME NEW n \in S PROVE m <= n
    <2>1. n \in Nat /\ m \in Nat
      OBVIOUS
    <2>2. n < m => <<n, m>> \in OpToRel(<, Nat)
      BY <2>1 DEF OpToRel
    <2>3. ~(n < m)
      BY <1>2, <2>2
    <2> QED  BY <2>1, <2>3, SMT
  <1> QED  BY <1>3

\* A non-empty set of blocks has one with the least value of f.
LEMMA LeastBlock ==
    ASSUME NEW f \in [Blocks -> Nat], NEW S, S \subseteq Blocks, S # {}
    PROVE  \E b \in S : \A x \in S : f[b] <= f[x]
  <1> DEFINE V == {f[x] : x \in S}
  <1>1. V \subseteq Nat /\ V # {}
    OBVIOUS
  <1>2. PICK m \in V : \A n \in V : m <= n
    <2> HIDE DEF V
    <2> QED BY <1>1, LeastNumber
  <1> QED  BY <1>2

\* Work grows from an ancestor to its descendants.
LEMMA WorkGrows ==
    ASSUME NEW b \in Blocks, NEW a \in Ancestors[b], a # b
    PROVE  Work[a] < Work[b]
  <1> DEFINE Wrong == {x \in Blocks : \E y \in Ancestors[x] : y # x /\ ~(Work[y] < Work[x])}
  <1>1. SUFFICES ASSUME Wrong # {} PROVE FALSE
    OBVIOUS
  <1>2. PICK x \in Wrong : \A z \in Wrong : Work[x] <= Work[z]
    <2>1. Work \in [Blocks -> Nat] /\ Wrong \subseteq Blocks
      BY BlockTree
    <2> HIDE DEF Wrong
    <2> QED  BY <1>1, <2>1, LeastBlock
  <1>3. PICK y \in Ancestors[x] : y # x /\ ~(Work[y] < Work[x])
    OBVIOUS
  <1>4. x \in Blocks \ {Genesis}
    BY <1>3, BlockTree
  <1>5. /\ Parent[x] \in Blocks /\ y \in Ancestors[Parent[x]] /\ y \in Blocks
        /\ Work[Parent[x]] < Work[x]
    BY <1>3, <1>4, BlockTree, SMT
  <1>6. Work[x] \in Nat /\ Work[y] \in Nat /\ Work[Parent[x]] \in Nat
    BY <1>4, <1>5, BlockTree
  <1>7. Parent[x] \notin Wrong
    <2>1. ~(Work[x] <= Work[Parent[x]])
      BY <1>5, <1>6, SMT
    <2> QED  BY <1>2, <2>1
  <1>8. y = Parent[x] \/ Work[y] < Work[Parent[x]]
    BY <1>5, <1>7
  <1> QED  BY <1>3, <1>5, <1>6, <1>8, SMT

\* Ancestry: a block is its own ancestor, and Genesis is everyone's.
LEMMA Ancestry ==
    ASSUME NEW b \in Blocks
    PROVE  /\ b \in Ancestors[b]
           /\ Ancestors[b] \subseteq Blocks
           /\ \A a \in Ancestors[b] : Ancestors[a] \subseteq Ancestors[b]
           /\ \A x, y \in Ancestors[b] : x \in Ancestors[y] \/ y \in Ancestors[x]
           /\ b # Genesis => /\ Parent[b] \in Blocks /\ b \notin Ancestors[Parent[b]]
                             /\ Ancestors[b] = {b} \cup Ancestors[Parent[b]]
                             /\ Parent[b] \in Ancestors[b]
  <1>1. b \in Ancestors[b]
    BY BlockTree, SMT
  <1>2. b # Genesis => /\ Parent[b] \in Blocks /\ b \notin Ancestors[Parent[b]]
                       /\ Ancestors[b] = {b} \cup Ancestors[Parent[b]]
    BY BlockTree
  <1>3. b # Genesis => Parent[b] \in Ancestors[Parent[b]]
    BY <1>2, BlockTree, SMT
  <1> QED  BY <1>1, <1>2, <1>3, BlockTree

\* CBlockIndexWorkComparator is a strict total order.
LEMMA WorseOrder ==
    ASSUME NEW seq \in [Blocks -> Int]
    PROVE  /\ \A a \in Blocks : ~Worse(seq, a, a)
           /\ \A a, b \in Blocks : Worse(seq, a, b) => ~Worse(seq, b, a)
           /\ \A a, b \in Blocks : a # b => Worse(seq, a, b) \/ Worse(seq, b, a)
           /\ \A a, b, c \in Blocks : Worse(seq, a, b) /\ Worse(seq, b, c) => Worse(seq, a, c)
  <1>1. \A a \in Blocks : Work[a] \in Nat /\ Address[a] \in Nat /\ seq[a] \in Int
    BY BlockTree
  <1>2. \A a, b \in Blocks : Address[a] = Address[b] => a = b
    BY BlockTree
  <1> QED  BY <1>1, <1>2, SMT DEF Worse

\* A non-empty set of blocks has a best one: BestOf finds it.
LEMMA BestOfBest ==
    ASSUME sequenceId \in [Blocks -> Int], NEW S, S \subseteq Blocks, S # {}
    PROVE  BestOf(S) \in S /\ \A d \in S : ~Worse(sequenceId, BestOf(S), d)
  <1> DEFINE Better(c) == {d \in S : Worse(sequenceId, c, d)}
             T == {Better(c) : c \in S}
  <1>1. IsFiniteSet(S)
    BY FS_Subset, BlockTree
  <1>2. IsWellFoundedOn(StrictSubsetOrdering(S), SUBSET S)
    BY <1>1, FS_FiniteSubsetsOfFinite, FS_StrictSubsetOrderingWellFounded
  <1>3. T \subseteq SUBSET S /\ T # {}
    OBVIOUS
  <1>4. PICK B \in T : \A D \in T : <<D, B>> \notin StrictSubsetOrdering(S)
    <2> HIDE DEF T
    <2> QED  BY <1>2, <1>3, WFMin
  <1>5. PICK c \in S : B = Better(c)
    OBVIOUS
  <1>6. ASSUME NEW d \in S, Worse(sequenceId, c, d) PROVE FALSE
    <2>1. Better(d) \subseteq Better(c)
      BY <1>6, WorseOrder
    <2>2. d \in Better(c) /\ d \notin Better(d)
      BY <1>6, WorseOrder
    <2>3. <<Better(d), B>> \in StrictSubsetOrdering(S)
      BY <1>5, <2>1, <2>2 DEF StrictSubsetOrdering
    <2> QED  BY <1>4, <2>3
  <1> QED  BY <1>6 DEF BestOf

\* The entry a header is refused for is one of those it descends from.
LEMMA FirstIsAbove ==
    ASSUME failedBlocks \subseteq Blocks, NEW b, FailedAbove(b) # {}
    PROVE  FirstFailedAbove(b) \in FailedAbove(b)
  <1>1. FailedAbove(b) \subseteq Blocks /\ Address \in [Blocks -> Nat]
    BY BlockTree DEF FailedAbove
  <1>2. \E f \in FailedAbove(b) : \A g \in FailedAbove(b) : Address[f] <= Address[g]
    BY <1>1, LeastBlock
  <1> QED  BY <1>2 DEF FirstFailedAbove

-----------------------------------------------------------------------------
(* Linking. *)

\* What LinkingComplete needs to be inductive: Genesis has its data, and an index
\* entry lies in the tree.
LinkTypes == /\ data \subseteq Blocks /\ Genesis \in data
             /\ index \subseteq Blocks

LinkInv == LinkTypes /\ LinkingComplete

\* An ancestor of a linked block is linked.
LEMMA LinkedUpward ==
    ASSUME LinkInv, NEW b \in linked, NEW a \in Ancestors[b]
    PROVE  a \in linked
  <1>1. b \in Blocks /\ b \in data /\ Ancestors[b] \subseteq data
    BY DEF LinkInv, LinkTypes, LinkingComplete
  <1>2. Ancestors[a] \subseteq Ancestors[b]
    BY <1>1, BlockTree
  <1>. QED
    BY <1>1, <1>2 DEF LinkInv, LinkingComplete

\* ReceivedBlockTransactions links exactly the blocks that b was holding back.
LEMMA LinkBlockCompletes ==
    ASSUME LinkInv, NEW b \in Blocks \ {Genesis}, b \notin data, Parent[b] \in linked
    PROVE  LET new == data \cup {b} IN
           linked \cup NowLinked(b) = {x \in new : Ancestors[x] \subseteq new}
  <1>. DEFINE new == data \cup {b}
  <1>a. /\ data \subseteq Blocks /\ linked = {x \in data : Ancestors[x] \subseteq data}
        /\ unlinked = data \ linked
    BY DEF LinkInv, LinkTypes, LinkingComplete
  <1>b. Ancestors[b] = {b} \cup Ancestors[Parent[b]] /\ Ancestors[Parent[b]] \subseteq data
    BY <1>a, BlockTree
  <1>c. b \notin linked
    BY <1>a
  <1>1. ASSUME NEW x \in linked \cup NowLinked(b)
        PROVE  x \in new /\ Ancestors[x] \subseteq new
    <2>1. CASE x \in linked
      BY <2>1, <1>a
    <2>2. CASE x \in NowLinked(b)
      <3>1. x \in unlinked \cup {b} /\ Ancestors[x] \ Ancestors[b] \subseteq unlinked
        BY <2>2 DEF NowLinked
      <3>. QED
        BY <3>1, <1>a, <1>b
    <2>. QED
      BY <2>1, <2>2
  <1>2. ASSUME NEW x \in new, Ancestors[x] \subseteq new
        PROVE  x \in linked \cup NowLinked(b)
    <2>1. CASE b \notin Ancestors[x]
      <3>1. x \in Ancestors[x]
        BY <1>a, BlockTree, SMT
      <3>. QED
        BY <2>1, <3>1, <1>2, <1>a
    <2>2. CASE b \in Ancestors[x]
      <3>1. x \in Blocks
        BY <1>a
      <3>2. ASSUME NEW y \in Ancestors[x], y \notin Ancestors[b]
            PROVE  y \in unlinked
        <4>1. b \in Ancestors[y] /\ y \in Blocks
          BY <2>2, <3>1, <3>2, BlockTree
        <4>2. y \in data
          BY <1>2, <3>2, <1>b
        <4>. QED
          BY <4>1, <4>2, <1>a
      <3>3. x \in unlinked \cup {b}
        BY <2>2, <1>a, <1>2
      <3>. QED
        BY <2>2, <3>2, <3>3 DEF NowLinked
    <2>. QED
      BY <2>1, <2>2
  <1>. QED
    BY <1>1, <1>2

\* A parked block links nothing.
LEMMA ParkBlockLinksNothing ==
    ASSUME LinkInv, NEW b \in Blocks \ {Genesis}, b \notin data, Parent[b] \notin linked
    PROVE  LET new == data \cup {b} IN
           linked = {x \in new : Ancestors[x] \subseteq new}
  <1>. DEFINE new == data \cup {b}
  <1>a. /\ data \subseteq Blocks /\ linked = {x \in data : Ancestors[x] \subseteq data}
    BY DEF LinkInv, LinkTypes, LinkingComplete
  <1>1. Ancestors[b] = {b} \cup Ancestors[Parent[b]] /\ Parent[b] \in Blocks
    BY BlockTree
  <1>2. ~(Ancestors[b] \subseteq new)
    <2>1. Parent[b] \in Ancestors[Parent[b]] /\ b \notin Ancestors[Parent[b]]
      BY <1>1, BlockTree, SMT
    <2>. QED
      BY <2>1, <1>1, <1>a, SMT
  <1>3. ASSUME NEW x \in data, b \in Ancestors[x] PROVE ~(Ancestors[x] \subseteq new)
    BY <1>2, <1>3, <1>a, BlockTree
  <1>. QED
    BY <1>2, <1>3, <1>a

\* The initial state, genesis alone, satisfies the invariant.
LEMMA Initially == Init => LinkInv
  BY BlockTree, SMT DEF Init, LinkInv, LinkTypes, LinkingComplete

\* One step of any thread.
LEMMA Step == LinkInv /\ [Next]_vars => LinkInv'
  <1>. SUFFICES ASSUME LinkInv, [Next]_vars PROVE LinkInv'
    OBVIOUS
  <1>. USE DEF LinkInv
  <1>k. ASSUME UNCHANGED <<data, linked, unlinked>>, index' \subseteq Blocks
        PROVE  LinkInv'
    BY <1>k DEF LinkTypes, LinkingComplete
  <1>1. CASE UNCHANGED vars
    BY <1>1, <1>k DEF vars, received, LinkTypes
  <1>2. ASSUME NEW b \in Blocks, RefuseHeader(b) PROVE LinkInv'
    BY <1>2, <1>k DEF RefuseHeader, received, LinkTypes
  <1>3. ASSUME NEW b \in Blocks, AcceptHeader(b) PROVE LinkInv'
    BY <1>3, <1>k DEF AcceptHeader, LinkTypes
  <1>4. ASSUME NEW t \in Threads, NEW b \in Blocks, NEW r \in BOOLEAN, IgnoreBlock(t, b, r)
        PROVE  LinkInv'
    BY <1>4, <1>k DEF IgnoreBlock, LinkTypes
  <1>5. ASSUME NEW t \in Threads, NEW b \in Blocks, NEW r \in BOOLEAN, RejectBlock(t, b, r)
        PROVE  LinkInv'
    BY <1>5, <1>k DEF RejectBlock, LinkTypes
  <1>6. ASSUME NEW t \in Threads, NEW b \in Blocks, NEW r \in BOOLEAN, StoreBlock(t, b, r)
        PROVE  LinkInv'
    <2>1. /\ b \in Blocks \ {Genesis} /\ b \notin data
          /\ index' = index \cup {b} /\ data' = data \cup {b}
      BY <1>6 DEF StoreBlock, NotWanted
    <2>2. LinkTypes'
      BY <2>1 DEF LinkTypes
    <2>3. CASE Parent[b] \in linked
      <3>1. linked' = linked \cup NowLinked(b) /\ unlinked' = unlinked \ NowLinked(b)
        BY <1>6, <2>3 DEF StoreBlock, LinkBlock
      <3>2. linked' = {x \in data' : Ancestors[x] \subseteq data'}
        BY <2>1, <2>3, <3>1, LinkBlockCompletes
      <3>3. b \in NowLinked(b)
        BY <2>1, BlockTree, SMT DEF NowLinked
      <3>4. unlinked' = data' \ linked'
        BY <2>1, <3>1, <3>3 DEF LinkingComplete
      <3>. QED
        BY <2>2, <3>2, <3>4 DEF LinkingComplete
    <2>4. CASE Parent[b] \notin linked
      <3>1. linked' = linked /\ unlinked' = unlinked \cup {b}
        BY <1>6, <2>4 DEF StoreBlock, ParkBlock
      <3>2. linked' = {x \in data' : Ancestors[x] \subseteq data'}
        BY <2>1, <2>4, <3>1, ParkBlockLinksNothing
      <3>3. unlinked' = data' \ linked'
        BY <2>1, <3>1 DEF LinkingComplete
      <3>. QED
        BY <2>2, <3>2, <3>3 DEF LinkingComplete
    <2>. QED
      BY <2>3, <2>4
  <1>7. ASSUME NEW t \in Threads, ActivateBestChain(t) PROVE LinkInv'
    BY <1>7, <1>k DEF ActivateBestChain, received, LinkTypes
  <1>8. ASSUME NEW t \in Threads, CallActivateBestChain(t) PROVE LinkInv'
    BY <1>8, <1>k DEF CallActivateBestChain, received, LinkTypes
  <1>9. ASSUME NEW t \in Threads, NEW b \in Blocks,
               \/ PreciousBlock(t, b) \/ InvalidateBlock(t, b) \/ ResetBlockFailureFlags(t, b)
               \/ \E d \in Damaged : InvalidateBlockFails(t, b, d)
        PROVE  LinkInv'
    BY <1>9, <1>k DEF PreciousBlock, InvalidateBlock, InvalidateBlockFails, ResetBlockFailureFlags,
                      received, LinkTypes
  <1>10. CASE Restart
    <2>1. /\ data' = data /\ index' = index
          /\ linked' = {b \in data : Ancestors[b] \subseteq data}
          /\ unlinked' = {b \in data \ {Genesis} : Parent[b] \notin linked'}
      BY <1>10 DEF Restart
    <2>2. Genesis \in linked'
      BY <2>1, BlockTree, SMT DEF LinkTypes
    <2>3. ASSUME NEW b \in data, b # Genesis PROVE Parent[b] \in linked' <=> b \in linked'
      <3>1. /\ b \in Blocks \ {Genesis} /\ Parent[b] \in Blocks
            /\ Parent[b] \in Ancestors[Parent[b]]
            /\ Ancestors[b] = {b} \cup Ancestors[Parent[b]]
        BY <2>3, BlockTree, SMT DEF LinkTypes
      <3>. QED
        BY <3>1, <2>1
    <2>4. unlinked' = data' \ linked'
      BY <2>1, <2>2, <2>3
    <2>. QED
      BY <2>1, <2>4 DEF LinkTypes, LinkingComplete
  <1>. QED
    BY <1>1, <1>2, <1>3, <1>4, <1>5, <1>6, <1>7, <1>8, <1>9, <1>10 DEF Next

\* nChainTx is set for exactly the blocks whose ancestors were all received, and
\* every other received block waits in mapBlocksUnlinked (CheckBlockIndex 5542, 5582).
THEOREM LinkingAlwaysComplete == Spec => []LinkingComplete
  <1>1. LinkInv => LinkingComplete
    BY DEF LinkInv
  <1>. QED
    BY <1>1, Initially, Step, PTL DEF Spec

-----------------------------------------------------------------------------
(* One iteration of ActivateBestChain. *)

\* Neither x nor an ancestor of it is marked failed.
Valid(x) == Ancestors[x] \cap Failed = {}

\* What the other invariants take for granted: the types, and that the active
\* chain holds no block that ConnectBlock or ContextualCheckBlock rejects.
ActivationTypes ==
    /\ tip \in linked /\ candidates \subseteq linked
    /\ failedValid \subseteq Blocks \ {Genesis} /\ failedChild \subseteq Blocks \ {Genesis}
    /\ failedBlocks \subseteq Blocks
    /\ sequenceId \in [Blocks -> Int] /\ nBlockSequenceId \in Nat
    /\ nBlockReverseSequenceId \in Int /\ nLastPreciousChainwork \in Nat
    /\ activating \in [Threads -> BOOLEAN]
    /\ pindexMostWork \in [Threads -> linked \cup {Null}]
    /\ data \cap BadContext = {}
    /\ Active \cap BadConnect = {}
    /\ \A t \in Threads : ~activating[t] => pindexMostWork[t] = Null

\* What thread t takes as its target: the one it kept, or the best usable candidate.
Target(t, m) ==
    IF pindexMostWork[t] # Null THEN m = pindexMostWork[t]
    ELSE IF m = Null THEN \A c \in candidates : ~Usable(c)
    ELSE /\ m \in candidates /\ Usable(m)
         /\ \A c \in candidates : Usable(c) => ~Worse(sequenceId, m, c)

\* An iteration that leaves the tip alone.
Stays(t, m, gone) ==
    /\ m \in {Null, tip}
    /\ candidates' = candidates \ gone
    /\ activating' = [activating EXCEPT ![t] = FALSE]
    /\ pindexMostWork' = [pindexMostWork EXCEPT ![t] = Null]
    /\ UNCHANGED <<tip, scripts, failedValid, failedBlocks>>

\* An iteration that tries last and makes new the tip.
Moves(t, m, gone, last, new) ==
    /\ m \in linked /\ m # tip
    /\ last \in Ancestors[m] /\ new \in Ancestors[m]
    /\ IF last \in BadConnect THEN last \notin Ancestors[new] ELSE new = last
    /\ (Ancestors[new] \ Active) \cap BadConnect = {}
    /\ new = m \/ last \in BadConnect \/ Work[new] > Work[tip]
    /\ tip' = new
    /\ scripts' = scripts \cup ((Ancestors[new] \ Active) \ (Failed \cup gone))
    /\ failedValid' = failedValid \cup ({last} \cap BadConnect)
    /\ failedBlocks' = failedBlocks \cup ({last} \cap BadConnect)
    /\ candidates' = (IF Ancestors[new] \subseteq Active THEN candidates \ gone
                      ELSE PruneBlockIndexCandidates(candidates \ gone, sequenceId, new))
                     \ ({last} \cap BadConnect)
    /\ activating' = [activating EXCEPT ![t] = new # m]
    /\ pindexMostWork' = [pindexMostWork EXCEPT
          ![t] = IF last \in BadConnect \/ new = m THEN Null ELSE m]

\* An iteration that a damaged block brings to an end with new as the tip.
Breaks(t, m, gone, new) ==
    /\ Damaged # {} /\ m \in linked
    /\ new \in Ancestors[m] \cup Active
    /\ (Ancestors[new] \ Active) \cap BadConnect = {}
    /\ tip' = new
    /\ scripts' = scripts \cup ((Ancestors[new] \ Active) \ (Failed \cup gone))
    /\ UNCHANGED <<failedValid, failedBlocks>>
    /\ candidates' \subseteq candidates
    /\ \E more \in BOOLEAN : activating' = [activating EXCEPT ![t] = more]
    /\ pindexMostWork' = [pindexMostWork EXCEPT ![t] = Null]

\* Everything an iteration gives up has a failed ancestor.
Rejects(gone) == /\ gone \subseteq Blocks \ {Genesis}
                 /\ \A x \in gone : ~Valid(x)
                 /\ failedChild' = failedChild \cup (gone \ Failed)

\* The step towards m ends on m's branch, short of the first invalid block.
LEMMA LastTriedOnBranch ==
    ASSUME NEW m \in Blocks, tip \in Blocks, Active \cap BadConnect = {}
    PROVE  LET last == LastTried(m)
               new == TipAfter(last, last \in BadConnect)
           IN  /\ last \in Ancestors[m] /\ new \in Ancestors[m]
               /\ IF last \in BadConnect THEN last \notin Ancestors[new] ELSE new = last
               /\ (Ancestors[new] \ Active) \cap BadConnect = {}
               /\ new = m \/ last \in BadConnect \/ Work[new] > Work[tip]
  <1> DEFINE last == LastTried(m)
             new == TipAfter(last, last \in BadConnect)
             stops == {x \in Ancestors[m] \ Active : StopsAt(x, m)}
  <1>1. m \in Ancestors[m] /\ Ancestors[m] \subseteq Blocks
    BY Ancestry
  <1>2. \/ stops = {} /\ last = m
        \/ last \in stops /\ \A x \in stops : Work[last] <= Work[x]
    <2>1. CASE stops = {}
      BY <2>1 DEF LastTried
    <2>2. CASE stops # {}
      <3>1. \E b \in stops : \A x \in stops : Work[b] <= Work[x]
        <4>1. Work \in [Blocks -> Nat] /\ stops \subseteq Blocks
          BY <1>1, BlockTree
        <4> HIDE DEF stops
        <4> QED  BY <2>2, <4>1, LeastBlock
      <3>2. last = CHOOSE b \in stops : \A x \in stops : Work[b] <= Work[x]
        BY <2>2 DEF LastTried
      <3> HIDE DEF stops, last
      <3> QED  BY <3>1, <3>2
    <2> QED  BY <2>1, <2>2
  <1>3. last \in Ancestors[m] /\ last \in Blocks
    BY <1>1, <1>2
  <1>4. last \in BadConnect => last # Genesis
    BY ParameterTypes
  <1>a. new = IF last \in BadConnect THEN Parent[last] ELSE last
    BY DEF TipAfter
  <1>5. IF last \in BadConnect THEN last \notin Ancestors[new] ELSE new = last
    <2> HIDE DEF last, new
    <2> QED  BY <1>3, <1>4, <1>a, Ancestry
  <1>6. new \in Ancestors[last]
    <2> HIDE DEF last, new
    <2> QED  BY <1>3, <1>4, <1>a, Ancestry
  <1>7. new \in Ancestors[m]
    <2> HIDE DEF last, new
    <2> QED  BY <1>3, <1>6, Ancestry
  <1>8. ASSUME NEW x \in Ancestors[new], x \notin Active, x \in BadConnect PROVE FALSE
    <2>1. new \in Blocks /\ x \in Ancestors[m] /\ x \in Ancestors[last] /\ x \in Blocks
      BY <1>1, <1>3, <1>6, <1>7, Ancestry
    <2>2. x \in stops
      BY <1>8, <2>1 DEF StopsAt
    <2>3. Work[last] <= Work[x]
      BY <1>2, <2>2
    <2>4. x = last
      <3>1. x # last => Work[x] < Work[last]
        BY <1>3, <2>1, WorkGrows
      <3>2. Work[x] \in Nat /\ Work[last] \in Nat
        BY <1>3, <2>1, BlockTree
      <3> QED  BY <2>3, <3>1, <3>2, SMT
    <2> QED  BY <1>5, <1>8, <2>4
  <1>9. new = m \/ last \in BadConnect \/ Work[new] > Work[tip]
    BY <1>2, <1>5 DEF StopsAt
  <1> HIDE DEF last, new
  <1>10. /\ last \in Ancestors[m] /\ new \in Ancestors[m]
         /\ IF last \in BadConnect THEN last \notin Ancestors[new] ELSE new = last
         /\ (Ancestors[new] \ Active) \cap BadConnect = {}
         /\ new = m \/ last \in BadConnect \/ Work[new] > Work[tip]
    BY <1>3, <1>5, <1>7, <1>8, <1>9
  <1> QED  BY <1>10 DEF last, new

\* A block FindMostWorkChain gives up has a failed ancestor.
LEMMA DiscardedFailed ==
    ASSUME NEW m, candidates \subseteq Blocks, Genesis \notin Failed, tip \in Blocks,
           NEW x \in Discarded(m)
    PROVE  x \in Blocks \ {Genesis} /\ ~Valid(x)
  <1>1. PICK c \in candidates : ~Usable(c) /\ x \in GivenUp(c)
    BY DEF Discarded
  <1>2. PICK f \in (Ancestors[c] \ Active) \cap Failed : TRUE
    BY <1>1 DEF Usable
  <1>3. x \in Ancestors[c] \ Active /\ ~(x \in Ancestors[f] \ {f})
    BY <1>1, <1>2 DEF GivenUp
  <1>4. f \in Ancestors[x]
    BY <1>2, <1>3, Ancestry
  <1>5. x \in Blocks
    BY <1>3, Ancestry
  <1>6. x # Genesis
    BY <1>2, <1>4, BlockTree, SMT
  <1> QED  BY <1>2, <1>4, <1>5, <1>6 DEF Valid

\* One iteration of ActivateBestChain, in the terms above.
LEMMA Iteration ==
    ASSUME LinkInv, ActivationTypes, NEW t \in Threads, ActivateBestChain(t)
    PROVE  \E m \in linked \cup {Null}, gone \in SUBSET Blocks :
              /\ Target(t, m) /\ Rejects(gone)
              /\ \/ Stays(t, m, gone)
                 \/ \E last, new \in Blocks : Moves(t, m, gone, last, new)
                 \/ \E new \in Blocks : Breaks(t, m, gone, new)
  <1>1. /\ linked \subseteq Blocks /\ tip \in Blocks /\ candidates \subseteq Blocks
        /\ Genesis \notin Failed
    BY DEF LinkInv, LinkTypes, LinkingComplete, ActivationTypes, Failed
  <1> DEFINE m == IF pindexMostWork[t] = Null THEN FindMostWorkChain ELSE pindexMostWork[t]
             gone == IF pindexMostWork[t] = Null THEN Discarded(m) ELSE {}
  <1>2. /\ failedChild' = failedChild \cup (gone \ Failed)
        /\ IF m = Null \/ m = tip
           THEN /\ candidates' = candidates \ gone
                /\ activating' = [activating EXCEPT ![t] = FALSE]
                /\ pindexMostWork' = [pindexMostWork EXCEPT ![t] = Null]
                /\ UNCHANGED <<tip, scripts, failedValid, failedBlocks>>
           ELSE ActivateBestChainStep(t, m, gone)
    BY DEF ActivateBestChain
  <1>3. Target(t, m) /\ m \in linked \cup {Null}
    <2>1. CASE pindexMostWork[t] # Null
      BY <1>2, <2>1 DEF Target, ActivationTypes
    <2>2. CASE pindexMostWork[t] = Null /\ \A c \in candidates : ~Usable(c)
      BY <1>2, <2>2 DEF Target, FindMostWorkChain
    <2>3. CASE pindexMostWork[t] = Null /\ ~\A c \in candidates : ~Usable(c)
      <3> DEFINE S == {c \in candidates : Usable(c)}
      <3>1. S \subseteq Blocks /\ S # {}
        BY <1>1, <2>3
      <3>2. m = BestOf(S)
        BY <1>2, <2>3 DEF FindMostWorkChain
      <3>3. m \in S /\ \A d \in S : ~Worse(sequenceId, m, d)
        <4> HIDE DEF S
        <4> QED  BY <3>1, <3>2, BestOfBest, SMT DEF ActivationTypes
      <3>4. m # Null
        BY <3>1, <3>3, BlockTree, SMT
      <3> QED  BY <2>3, <3>3, <3>4 DEF Target, ActivationTypes
    <2> QED  BY <2>1, <2>2, <2>3
  <1>4. Rejects(gone) /\ gone \in SUBSET Blocks
    BY <1>1, <1>2, DiscardedFailed DEF Rejects
  <1> HIDE DEF m, gone
  <1>5. CASE m = Null \/ m = tip
    BY <1>2, <1>3, <1>4, <1>5 DEF Stays
  <1>6. ASSUME m # Null, m # tip, NEW last, ConnectUpTo(t, m, gone, last, FALSE), last = LastTried(m)
        PROVE  \E x, new \in Blocks : Moves(t, m, gone, x, new)
    <2> DEFINE new == TipAfter(last, last \in BadConnect)
    <2>1. m \in linked /\ m \in Blocks /\ m # tip
      BY <1>1, <1>3, <1>6
    <2>2. /\ last \in Ancestors[m] /\ new \in Ancestors[m]
          /\ IF last \in BadConnect THEN last \notin Ancestors[new] ELSE new = last
          /\ (Ancestors[new] \ Active) \cap BadConnect = {}
          /\ new = m \/ last \in BadConnect \/ Work[new] > Work[tip]
      BY <1>1, <1>6, <2>1, LastTriedOnBranch DEF ActivationTypes
    <2>3. last \in Blocks /\ new \in Blocks
      BY <2>1, <2>2, Ancestry
    <2>4. InvalidBlockFound(last, FALSE) = {last} /\ (FALSE \/ last \in BadConnect <=> last \in BadConnect)
      BY DEF InvalidBlockFound
    <2> DEFINE fails == FALSE \/ last \in BadConnect
               newTip == TipAfter(last, fails)
               invalid == IF fails THEN InvalidBlockFound(last, FALSE) ELSE {}
    <2>5. /\ tip' = newTip
          /\ scripts' = scripts \cup (Connected(newTip) \ (Failed \cup gone))
          /\ failedValid' = failedValid \cup invalid
          /\ failedBlocks' = failedBlocks \cup invalid
          /\ candidates' = (IF Connected(newTip) = {} THEN candidates \ gone
                            ELSE PruneBlockIndexCandidates(candidates \ gone, sequenceId, newTip))
                           \ invalid
          /\ activating' = [activating EXCEPT ![t] = newTip # m]
          /\ pindexMostWork' = [pindexMostWork EXCEPT ![t] = IF fails \/ newTip = m THEN Null ELSE m]
      BY <1>6 DEF ConnectUpTo
    <2>6. (fails <=> last \in BadConnect) /\ newTip = new /\ invalid = {last} \cap BadConnect
      BY <2>4, <2>5 DEF TipAfter
    <2>7. Connected(new) = {} <=> Ancestors[new] \subseteq Active
      BY DEF Connected
    <2> HIDE DEF new, fails, newTip, invalid
    <2>8. Moves(t, m, gone, last, new)
      BY <2>1, <2>2, <2>5, <2>6, <2>7 DEF Moves, Connected
    <2> QED  BY <2>3, <2>8
  <1>7. ASSUME m # Null, m # tip, NEW d \in DamagedOnTheWay(m), ConnectUpTo(t, m, gone, d, TRUE)
        PROVE  \E new \in Blocks : Breaks(t, m, gone, new)
    <2> DEFINE new == Parent[d]
    <2>1. m \in linked /\ m \in Blocks
      BY <1>1, <1>3, <1>7
    <2>2. /\ d \in Damaged /\ d \in Ancestors[m] \ Active /\ d \in Blocks \ {Genesis}
          /\ \A x \in Ancestors[d] \ (Active \cup {d}) : ~StopsAt(x, m)
      BY <1>7, ParameterTypes DEF DamagedOnTheWay
    <2>3. /\ new \in Blocks /\ new \in Ancestors[m] /\ Ancestors[new] \subseteq Ancestors[d] \ {d}
          /\ m \notin Ancestors[new]
      BY <2>1, <2>2, Ancestry
    <2>4. (Ancestors[new] \ Active) \cap BadConnect = {}
      BY <2>2, <2>3 DEF StopsAt
    <2>5. new # m
      BY <2>1, <2>3, Ancestry
    <2> DEFINE fails == TRUE \/ d \in BadConnect
               newTip == TipAfter(d, fails)
               invalid == IF fails THEN InvalidBlockFound(d, TRUE) ELSE {}
    <2>6. /\ tip' = newTip
          /\ scripts' = scripts \cup (Connected(newTip) \ (Failed \cup gone))
          /\ failedValid' = failedValid \cup invalid
          /\ failedBlocks' = failedBlocks \cup invalid
          /\ candidates' = (IF Connected(newTip) = {} THEN candidates \ gone
                            ELSE PruneBlockIndexCandidates(candidates \ gone, sequenceId, newTip))
                           \ invalid
          /\ activating' = [activating EXCEPT ![t] = newTip # m]
          /\ pindexMostWork' = [pindexMostWork EXCEPT ![t] = IF fails \/ newTip = m THEN Null ELSE m]
      BY <1>7 DEF ConnectUpTo
    <2>7. fails /\ newTip = new /\ invalid = {}
      BY <2>6 DEF TipAfter, InvalidBlockFound
    <2>8. /\ candidates' \subseteq candidates /\ UNCHANGED <<failedValid, failedBlocks>>
          /\ activating' = [activating EXCEPT ![t] = TRUE]
          /\ pindexMostWork' = [pindexMostWork EXCEPT ![t] = Null]
      BY <2>5, <2>6, <2>7 DEF PruneBlockIndexCandidates
    <2>9. tip' = new /\ scripts' = scripts \cup ((Ancestors[new] \ Active) \ (Failed \cup gone))
      BY <2>6, <2>7 DEF Connected
    <2> HIDE DEF new, fails, newTip, invalid
    <2>10. Breaks(t, m, gone, new)
      BY <2>1, <2>2, <2>3, <2>4, <2>8, <2>9 DEF Breaks
    <2> QED  BY <2>3, <2>10
  <1>8. ASSUME m # Null, m # tip, NEW d \in Damaged \cap (Active \ Ancestors[m]), DisconnectFails(t, gone, d)
        PROVE  \E new \in Blocks : Breaks(t, m, gone, new)
    <2>1. m \in linked /\ d \in Blocks /\ Ancestors[d] \subseteq Active
      BY <1>1, <1>3, <1>8, Ancestry DEF Active
    <2>2. scripts' = scripts \cup ((Ancestors[d] \ Active) \ (Failed \cup gone))
      BY <1>8, <2>1 DEF DisconnectFails
    <2>3. Breaks(t, m, gone, d)
      BY <1>8, <2>1, <2>2 DEF Breaks, DisconnectFails
    <2> QED  BY <2>1, <2>3
  <1>9. CASE ~(m = Null \/ m = tip)
    <2>1. ActivateBestChainStep(t, m, gone)
      BY <1>2, <1>9
    <2>2. \/ \E x, new \in Blocks : Moves(t, m, gone, x, new)
          \/ \E new \in Blocks : Breaks(t, m, gone, new)
      BY <1>6, <1>7, <1>8, <1>9, <2>1 DEF ActivateBestChainStep
    <2> QED  BY <1>3, <1>4, <2>2
  <1> QED  BY <1>5, <1>9

-----------------------------------------------------------------------------
(* Types. *)

\* What RefuseHeader marks lies above the entry it is refused for.
LEMMA WalkAbove ==
    ASSUME failedBlocks \subseteq Blocks, NEW b \in Blocks, RefuseHeader(b)
    PROVE  \E walk \in SUBSET (Blocks \ {Genesis}) :
              /\ failedChild' = failedChild \cup walk
              /\ \E f \in failedValid \cap failedBlocks : \A x \in walk : f \in Ancestors[x]
  <1> DEFINE f == FirstFailedAbove(b)
             walk == Ancestors[Parent[b]] \ Ancestors[f]
  <1>1. b # Genesis /\ FailedAbove(b) # {} /\ f \in failedValid /\ failedChild' = failedChild \cup walk
    BY DEF RefuseHeader
  <1>2. f \in failedBlocks \cap Ancestors[Parent[b]]
    BY <1>1, FirstIsAbove DEF FailedAbove
  <1>3. Parent[b] \in Blocks
    BY <1>1, Ancestry
  <1>4. ASSUME NEW x \in walk PROVE x \in Blocks \ {Genesis} /\ f \in Ancestors[x]
    <2>1. x \in Blocks /\ f \in Blocks
      BY <1>2, <1>3, Ancestry
    <2>2. f \in Ancestors[x]
      BY <1>2, <1>3, Ancestry
    <2>3. x # Genesis
      BY <2>2, BlockTree
    <2> QED  BY <2>1, <2>2, <2>3
  <1> HIDE DEF f, walk
  <1> QED  BY <1>1, <1>2, <1>4

\* A thread that enters ActivateBestChain has no target yet.
LEMMA StartTypes ==
    ASSUME ActivationTypes, linked \subseteq linked', NEW t \in Threads, StartActivation(t)
    PROVE  /\ activating' \in [Threads -> BOOLEAN]
           /\ pindexMostWork' \in [Threads -> linked' \cup {Null}]
           /\ \A s \in Threads : ~activating'[s] => pindexMostWork'[s] = Null
           /\ \A s \in Threads : pindexMostWork'[s] \in {Null, pindexMostWork[s]}
           /\ pindexMostWork'[t] = Null /\ activating'[t]
  BY DEF StartActivation, ActivationTypes

\* The blocks that ReceivedBlockTransactions links get new sequence ids.
LEMMA LinkBlockIds ==
    ASSUME LinkInv, ActivationTypes, NEW b \in Blocks, b \notin data, LinkBlock(b)
    PROVE  /\ sequenceId' \in [Blocks -> Int] /\ nBlockSequenceId' \in Nat
           /\ \A x \in linked : sequenceId'[x] = sequenceId[x]
           /\ \A x \in linked' \ linked : sequenceId'[x] >= 0
           /\ linked' = linked \cup NowLinked(b) /\ NowLinked(b) \cap linked = {}
           /\ candidates' = candidates \cup {x \in NowLinked(b) : ~Worse(sequenceId', x, tip)}
  <1> DEFINE S == NowLinked(b)
  <1>1. PICK ids \in QueueOrders(S) :
          /\ linked' = linked \cup S
          /\ sequenceId' = [x \in Blocks |-> IF x \in S THEN ids[x] ELSE sequenceId[x]]
          /\ nBlockSequenceId' = nBlockSequenceId + Cardinality(S)
          /\ candidates' = candidates \cup {x \in S : ~Worse(sequenceId', x, tip)}
    BY DEF LinkBlock
  <1>2. S \subseteq Blocks /\ S \cap linked = {} /\ linked \subseteq Blocks
    BY DEF NowLinked, LinkInv, LinkTypes, LinkingComplete
  <1>3. Cardinality(S) \in Nat
    BY <1>2, FS_Subset, FS_CardinalityType, BlockTree
  <1>4. ids \in [S -> nBlockSequenceId .. nBlockSequenceId + Cardinality(S) - 1]
    BY DEF QueueOrders
  <1>5. \A x \in S : ids[x] \in Int /\ ids[x] >= 0
    BY <1>3, <1>4, SMT DEF ActivationTypes
  <1> HIDE DEF S
  <1>6. sequenceId' \in [Blocks -> Int]
    BY <1>1, <1>5 DEF ActivationTypes
  <1>7. nBlockSequenceId' \in Nat
    BY <1>1, <1>3, SMT DEF ActivationTypes
  <1>8. \A x \in linked : sequenceId'[x] = sequenceId[x]
    BY <1>1, <1>2
  <1>9. \A x \in linked' \ linked : sequenceId'[x] >= 0
    BY <1>1, <1>2, <1>5
  <1> QED  BY <1>1, <1>2, <1>6, <1>7, <1>8, <1>9 DEF S

\* A step keeps what is linked.
LEMMA LinkedGrows ==
    ASSUME LinkInv, LinkInv', data \subseteq data'
    PROVE  linked \subseteq linked' /\ linked' \subseteq Blocks
  BY DEF LinkInv, LinkTypes, LinkingComplete

\* Genesis alone.
LEMMA TypesInitially == Init => ActivationTypes
  BY BlockTree, ParameterTypes, SMT DEF Init, ActivationTypes, Active

\* Headers: only failure flags change.
LEMMA HeaderKeepsTypes ==
    ASSUME LinkInv, ActivationTypes, NEW b \in Blocks, RefuseHeader(b) \/ AcceptHeader(b)
    PROVE  ActivationTypes'
  <1>1. CASE RefuseHeader(b)
    <2>1. failedChild' \subseteq Blocks \ {Genesis}
      BY <1>1, WalkAbove DEF ActivationTypes
    <2> QED
      BY <1>1, <2>1 DEF RefuseHeader, received, precious, threads, ActivationTypes, Active
  <1>2. CASE AcceptHeader(b)
    BY <1>2 DEF AcceptHeader, failure, precious, threads, ActivationTypes, Active
  <1> QED  BY <1>1, <1>2

\* A block arrives.
LEMMA BlockKeepsTypes ==
    ASSUME LinkInv, LinkInv', ActivationTypes, NEW t \in Threads, NEW b \in Blocks, NEW r \in BOOLEAN,
           IgnoreBlock(t, b, r) \/ RejectBlock(t, b, r) \/ StoreBlock(t, b, r)
    PROVE  ActivationTypes'
  <1>1. CASE IgnoreBlock(t, b, r)
    <2>1. linked \subseteq linked' /\ StartActivation(t)
      BY <1>1 DEF IgnoreBlock
    <2> QED
      BY <1>1, <2>1, StartTypes DEF IgnoreBlock, failure, precious, ActivationTypes, Active
  <1>2. CASE RejectBlock(t, b, r)
    BY <1>2, ParameterTypes DEF RejectBlock, precious, threads, ActivationTypes, Active
  <1>3. CASE StoreBlock(t, b, r)
    <2>1. /\ b \notin data /\ b \notin BadContext /\ data' = data \cup {b} /\ StartActivation(t)
          /\ UNCHANGED <<scripts, failedValid, failedChild, failedBlocks, tip,
                         nBlockReverseSequenceId, nLastPreciousChainwork>>
      BY <1>3 DEF StoreBlock, NotWanted, failure, precious
    <2>2. linked \subseteq linked'
      BY <2>1, LinkedGrows
    <2>3. /\ sequenceId' \in [Blocks -> Int] /\ nBlockSequenceId' \in Nat
          /\ candidates' \subseteq linked'
      <3>1. CASE LinkBlock(b)
        BY <2>1, <3>1, LinkBlockIds DEF ActivationTypes
      <3>2. CASE ParkBlock(b)
        BY <3>2 DEF ParkBlock, ActivationTypes
      <3> QED  BY <1>3, <3>1, <3>2 DEF StoreBlock
    <2>4. data' \cap BadContext = {}
      BY <2>1 DEF ActivationTypes
    <2> QED
      BY <2>1, <2>2, <2>3, <2>4, StartTypes DEF ActivationTypes, Active
  <1> QED  BY <1>1, <1>2, <1>3

\* An iteration of ActivateBestChain.
LEMMA IterationKeepsTypes ==
    ASSUME LinkInv, ActivationTypes, NEW t \in Threads, ActivateBestChain(t)
    PROVE  ActivationTypes'
  <1>1. PICK m \in linked \cup {Null}, gone \in SUBSET Blocks :
          /\ Target(t, m) /\ Rejects(gone)
          /\ \/ Stays(t, m, gone)
             \/ \E last, new \in Blocks : Moves(t, m, gone, last, new)
             \/ \E new \in Blocks : Breaks(t, m, gone, new)
    BY Iteration
  <1>2. UNCHANGED <<data, linked, sequenceId, nBlockSequenceId, nBlockReverseSequenceId,
                    nLastPreciousChainwork>>
    BY DEF ActivateBestChain, received, precious
  <1>3. failedChild' \subseteq Blocks \ {Genesis}
    BY <1>1 DEF Rejects, ActivationTypes
  <1>4. CASE Stays(t, m, gone)
    BY <1>2, <1>3, <1>4 DEF Stays, ActivationTypes, Active
  <1>5. ASSUME NEW last \in Blocks, NEW new \in Blocks, Moves(t, m, gone, last, new)
        PROVE  ActivationTypes'
    <2>1. tip' = new /\ new \in linked
      BY <1>5, LinkedUpward DEF Moves
    <2>2. Active' \cap BadConnect = {}
      BY <1>5, <2>1 DEF Moves, ActivationTypes, Active
    <2>3. candidates' \subseteq candidates
      BY <1>5 DEF Moves, PruneBlockIndexCandidates
    <2>4. /\ failedValid' \subseteq Blocks \ {Genesis} /\ failedBlocks' \subseteq Blocks
      BY <1>5, ParameterTypes DEF Moves, ActivationTypes
    <2>5. activating' \in [Threads -> BOOLEAN] /\ pindexMostWork' \in [Threads -> linked \cup {Null}]
      BY <1>5 DEF Moves, ActivationTypes
    <2>6. ASSUME NEW s \in Threads, ~activating'[s] PROVE pindexMostWork'[s] = Null
      <3>1. CASE s = t
        <4>1. activating'[t] = (new # m)
          BY <1>5 DEF Moves, ActivationTypes
        <4>2. pindexMostWork'[t] = IF last \in BadConnect \/ new = m THEN Null ELSE m
          BY <1>5 DEF Moves, ActivationTypes
        <4> QED  BY <2>6, <3>1, <4>1, <4>2
      <3>2. CASE s # t
        BY <1>5, <2>6, <3>2 DEF Moves, ActivationTypes
      <3> QED  BY <3>1, <3>2
    <2> QED
      BY <1>2, <1>3, <2>1, <2>2, <2>3, <2>4, <2>5, <2>6 DEF ActivationTypes
  <1>6. ASSUME NEW new \in Blocks, Breaks(t, m, gone, new) PROVE ActivationTypes'
    <2>1. tip \in Blocks /\ tip \in linked
      BY DEF LinkInv, LinkTypes, LinkingComplete, ActivationTypes
    <2>2. tip' = new /\ new \in linked
      BY <1>6, <2>1, LinkedUpward DEF Breaks, Active
    <2>3. Active' \cap BadConnect = {}
      BY <1>6, <2>2 DEF Breaks, ActivationTypes, Active
    <2>4. PICK more \in BOOLEAN : activating' = [activating EXCEPT ![t] = more]
      BY <1>6 DEF Breaks
    <2>5. activating' \in [Threads -> BOOLEAN] /\ pindexMostWork' \in [Threads -> linked \cup {Null}]
      BY <1>6, <2>4 DEF Breaks, ActivationTypes
    <2>6. ASSUME NEW s \in Threads, ~activating'[s] PROVE pindexMostWork'[s] = Null
      BY <1>6, <2>4, <2>6 DEF Breaks, ActivationTypes
    <2> QED
      BY <1>2, <1>3, <1>6, <2>2, <2>3, <2>5, <2>6 DEF Breaks, ActivationTypes
  <1> QED  BY <1>1, <1>4, <1>5, <1>6

\* The commands of the user.
LEMMA CommandKeepsTypes ==
    ASSUME LinkInv, ActivationTypes, NEW t \in Threads, NEW b \in Blocks,
           \/ PreciousBlock(t, b) \/ InvalidateBlock(t, b) \/ ResetBlockFailureFlags(t, b)
           \/ \E d \in Damaged : InvalidateBlockFails(t, b, d)
    PROVE  ActivationTypes'
  <1>1. CASE PreciousBlock(t, b)
    <2>1. PICK counter \in {-1, nBlockReverseSequenceId} :
            /\ sequenceId' = [sequenceId EXCEPT ![b] = counter]
            /\ nBlockReverseSequenceId' = NextReverseId(counter)
      BY <1>1 DEF PreciousBlock
    <2>2. counter \in Int
      BY SMT DEF ActivationTypes
    <2>3. sequenceId' \in [Blocks -> Int] /\ nBlockReverseSequenceId' \in Int
      BY <2>1, <2>2, SMT DEF NextReverseId, ActivationTypes
    <2>4. candidates' \subseteq linked /\ nLastPreciousChainwork' \in Nat
      <3>1. candidates' \subseteq linked
        <4>1. b \in linked \/ candidates' = candidates \ {b}
          BY <1>1 DEF PreciousBlock
        <4>2. candidates' \subseteq candidates \cup {b}
          BY <1>1 DEF PreciousBlock, PruneBlockIndexCandidates
        <4> QED  BY <4>1, <4>2 DEF ActivationTypes
      <3>2. tip \in Blocks /\ nLastPreciousChainwork' = Work[tip]
        BY <1>1 DEF PreciousBlock, ActivationTypes, LinkInv, LinkTypes, LinkingComplete
      <3> QED  BY <3>1, <3>2, BlockTree
    <2>5. StartActivation(t) /\ UNCHANGED <<linked, data, failedValid, failedChild, failedBlocks, tip, nBlockSequenceId>>
      BY <1>1 DEF PreciousBlock, received, failure
    <2> QED
      BY <2>3, <2>4, <2>5, StartTypes DEF ActivationTypes, Active
  <1>2. CASE InvalidateBlock(t, b)
    <2>1. /\ b \in Invalidatable /\ StartActivation(t)
          /\ UNCHANGED <<linked, data, sequenceId, nBlockSequenceId, nBlockReverseSequenceId, nLastPreciousChainwork>>
          /\ tip' = IF b \in Active THEN Parent[b] ELSE tip
          /\ failedValid' = failedValid \cup {b} /\ failedBlocks' = failedBlocks \cup {b}
      BY <1>2 DEF InvalidateBlock, received, precious
    <2>2. b # Genesis
      BY <2>1, ParameterTypes
    <2>3. tip \in Blocks /\ tip' \in Ancestors[tip]
      BY <2>1, <2>2, Ancestry DEF ActivationTypes, LinkInv, LinkTypes, LinkingComplete, Active
    <2>4. tip' \in linked
      BY <2>3, LinkedUpward DEF ActivationTypes
    <2>5. Active' \subseteq Active
      BY <2>3, Ancestry DEF Active
    <2>6. failedChild' \subseteq Blocks \ {Genesis}
      <3>1. b \in Active => Genesis \notin Ancestors[tip] \ Ancestors[b] /\ Ancestors[tip] \subseteq Blocks
        BY <2>3, Ancestry, BlockTree DEF Active
      <3> QED  BY <1>2, <3>1 DEF InvalidateBlock, ActivationTypes
    <2>7. candidates' \subseteq linked
      BY <1>2 DEF InvalidateBlock, ActivationTypes
    <2> QED
      BY <2>1, <2>2, <2>4, <2>5, <2>6, <2>7, StartTypes DEF ActivationTypes
  <1>3. CASE ResetBlockFailureFlags(t, b)
    <2>1. /\ StartActivation(t) /\ failedValid' \subseteq failedValid /\ failedChild' \subseteq failedChild
          /\ failedBlocks' \subseteq failedBlocks
          /\ UNCHANGED <<linked, data, sequenceId, nBlockSequenceId, nBlockReverseSequenceId, nLastPreciousChainwork, tip>>
      BY <1>3 DEF ResetBlockFailureFlags, received, precious
    <2>2. candidates' \subseteq linked
      BY <1>3 DEF ResetBlockFailureFlags, ActivationTypes
    <2> QED
      BY <2>1, <2>2, StartTypes DEF ActivationTypes, Active
  <1>4. ASSUME NEW d \in Damaged, InvalidateBlockFails(t, b, d) PROVE ActivationTypes'
    <2>1. /\ StartActivation(t) /\ tip' = d /\ d \in Active
          /\ UNCHANGED <<linked, data, sequenceId, nBlockSequenceId, nBlockReverseSequenceId, nLastPreciousChainwork>>
          /\ UNCHANGED <<failedValid, failedChild, failedBlocks, candidates>>
      BY <1>4 DEF InvalidateBlockFails, received, precious, failure
    <2>2. tip \in Blocks
      BY DEF ActivationTypes, LinkInv, LinkTypes, LinkingComplete
    <2>3. tip' \in linked /\ Active' \subseteq Active
      BY <2>1, <2>2, LinkedUpward, Ancestry DEF ActivationTypes, Active
    <2> QED  BY <2>1, <2>3, StartTypes DEF ActivationTypes
  <1> QED  BY <1>1, <1>2, <1>3, <1>4

\* A restart.
LEMMA RestartKeepsTypes ==
    ASSUME LinkInv, LinkInv', ActivationTypes, Restart
    PROVE  ActivationTypes'
  <1>1. /\ UNCHANGED <<index, data, scripts, failedValid, tip>>
        /\ failedBlocks' = {} /\ sequenceId' = [b \in Blocks |-> 0]
        /\ nBlockSequenceId' = 1 /\ nBlockReverseSequenceId' = -1 /\ nLastPreciousChainwork' = 0
        /\ pindexMostWork' = [t \in Threads |-> Null]
        /\ \E t \in Threads : activating' = [s \in Threads |-> s = t]
    BY DEF Restart
  <1>2. linked' = linked
    BY <1>1 DEF LinkInv, LinkingComplete
  <1>3. candidates' \subseteq linked'
    BY DEF Restart, PruneBlockIndexCandidates
  <1>4. failedChild' \subseteq Blocks \ {Genesis}
    <2>1. ASSUME NEW x \in index, Ancestors[x] \cap (failedValid \cup (failedChild \ unsaved)) # {}
          PROVE  x # Genesis
      BY <2>1, BlockTree, SMT DEF ActivationTypes
    <2> QED  BY <2>1 DEF Restart, ActivationTypes, LinkInv, LinkTypes
  <1> QED  BY <1>1, <1>2, <1>3, <1>4, SMT DEF ActivationTypes, Active

\* One step of any thread.
LEMMA StepKeepsTypes ==
    ASSUME LinkInv, ActivationTypes, [Next]_vars
    PROVE  LinkInv' /\ ActivationTypes'
  <1>0. LinkInv'
    BY Step
  <1>1. CASE UNCHANGED vars
    <2>1. UNCHANGED <<data, linked, failedValid, failedChild, failedBlocks, sequenceId, candidates,
                      nBlockSequenceId, nBlockReverseSequenceId, nLastPreciousChainwork>>
      BY <1>1 DEF vars, received, failure, precious
    <2>2. UNCHANGED <<tip, activating, pindexMostWork>>
      BY <1>1 DEF vars, threads
    <2> QED  BY <1>0, <2>1, <2>2 DEF ActivationTypes, Active
  <1>2. ASSUME NEW t \in Threads, CallActivateBestChain(t) PROVE ActivationTypes'
    <2>1. linked' = linked /\ StartActivation(t)
      BY <1>2 DEF CallActivateBestChain, received
    <2> QED
      BY <1>2, <2>1, StartTypes DEF CallActivateBestChain, received, failure, precious, ActivationTypes, Active
  <1> QED
    BY <1>0, <1>1, <1>2, HeaderKeepsTypes, BlockKeepsTypes, IterationKeepsTypes, CommandKeepsTypes,
       RestartKeepsTypes DEF Next

-----------------------------------------------------------------------------
(* The active chain is valid. *)

\* Only one thread activates chains.  With two, invalidateblock in one can fail a
\* block of the branch that another has chosen and keeps connecting.
OneThread == \A s, t \in Threads : s = t

\* The active chain is valid because targets are: with one thread none of them
\* goes bad, and without invalidateblock only blocks that cannot be connected, and
\* their descendants, ever fail.
ValidInv ==
    /\ ActiveChainValid
    /\ ScriptsUpward
    /\ Active \subseteq scripts \cup {Genesis}
    /\ OneThread => \A t \in Threads : pindexMostWork[t] # Null => Valid(pindexMostWork[t])
    /\ Invalidatable = {} => \A x \in Failed : Ancestors[x] \cap (BadContext \cup BadConnect) # {}

Premise == OneThread \/ Invalidatable = {}

\* Failing what has a failed ancestor already makes no valid block invalid.
LEMMA StillValid ==
    ASSUME NEW x \in Blocks, Valid(x), NEW more, \A y \in more : ~Valid(y),
           Failed' \subseteq Failed \cup more
    PROVE  Valid(x)'
  <1>1. ASSUME NEW y \in Ancestors[x], y \in more PROVE FALSE
    <2>1. PICK f \in Ancestors[y] : f \in Failed
      BY <1>1 DEF Valid
    <2>2. f \in Ancestors[x]
      BY <2>1, Ancestry
    <2> QED  BY <2>1, <2>2 DEF Valid
  <1> QED  BY <1>1 DEF Valid

\* ... and the same for the blocks that fail only because of others.
LEMMA StillBad ==
    ASSUME NEW more \in SUBSET Blocks, \A y \in more : ~Valid(y), Failed' \subseteq Failed \cup more,
           failedValid \subseteq Blocks, failedChild \subseteq Blocks,
           \A x \in Failed : Ancestors[x] \cap (BadContext \cup BadConnect) # {}
    PROVE  \A x \in Failed' : Ancestors[x] \cap (BadContext \cup BadConnect) # {}
  <1> SUFFICES ASSUME NEW x \in more
               PROVE  Ancestors[x] \cap (BadContext \cup BadConnect) # {}
    OBVIOUS
  <1>1. PICK f \in Ancestors[x] : f \in Failed
    BY DEF Valid
  <1>2. Ancestors[f] \subseteq Ancestors[x]
    BY <1>1, Ancestry
  <1> QED  BY <1>1, <1>2

\* What leaves the tip, the scripts and the targets alone, and fails only blocks
\* that have a failed ancestor.
LEMMA FailingMoreKeepsValid ==
    ASSUME LinkInv, ActivationTypes, ValidInv, NEW more \in SUBSET Blocks,
           \A y \in more : ~Valid(y), Failed' \subseteq Failed \cup more,
           UNCHANGED <<tip, scripts>>,
           \A t \in Threads : pindexMostWork'[t] \in {Null, pindexMostWork[t]}
    PROVE  ValidInv'
  <1>1. /\ tip \in Blocks /\ failedValid \subseteq Blocks /\ failedChild \subseteq Blocks
        /\ \A t \in Threads : pindexMostWork[t] \in Blocks \cup {Null}
    BY DEF LinkInv, LinkTypes, LinkingComplete, ActivationTypes
  <1>2. ActiveChainValid'
    BY <1>1, StillValid DEF ValidInv, ActiveChainValid, Valid, Active
  <1>3. OneThread => \A t \in Threads : pindexMostWork'[t] # Null => Valid(pindexMostWork[t])'
    BY <1>1, StillValid DEF ValidInv, Valid
  <1>4. Invalidatable = {} => \A x \in Failed' : Ancestors[x] \cap (BadContext \cup BadConnect) # {}
    BY <1>1, StillBad DEF ValidInv
  <1> QED
    BY <1>2, <1>3, <1>4 DEF ValidInv, ScriptsUpward, Active, OneThread, Valid, Failed

\* Whatever an iteration connects is valid, and stays so.
LEMMA ConnectsValid ==
    ASSUME Premise, LinkInv, ActivationTypes, ValidInv, NEW t \in Threads,
           NEW m \in linked, NEW gone \in SUBSET Blocks, NEW new \in Blocks,
           Target(t, m), Rejects(gone), new \in Ancestors[m] \cup Active,
           (Ancestors[new] \ Active) \cap BadConnect = {}
    PROVE  /\ Ancestors[new] \cap (Failed \cup gone) = {}
           /\ OneThread => Valid(m)
  <1>1. /\ m \in Blocks /\ tip \in Blocks /\ m # Null
        /\ Ancestors[new] \subseteq Ancestors[m] \/ Ancestors[new] \subseteq Active
    BY Ancestry, BlockTree, SMT DEF LinkInv, LinkTypes, LinkingComplete, ActivationTypes, Active
  <1>2. OneThread => Valid(m)
    BY <1>1 DEF Target, ValidInv, ActiveChainValid, Usable, Valid
  <1>3. Valid(new)
    <2>1. CASE OneThread
      BY <1>1, <1>2, <2>1 DEF Valid, ValidInv, ActiveChainValid
    <2>2. CASE Invalidatable = {}
      <3>1. Ancestors[new] \cap BadConnect = {}
        BY DEF ActivationTypes
      <3>2. Ancestors[new] \cap BadContext = {}
        BY <1>1, LinkedUpward DEF ActivationTypes, LinkInv, LinkingComplete, Active
      <3>3. ASSUME NEW x \in Ancestors[new], x \in Failed PROVE FALSE
        <4>1. Ancestors[x] \subseteq Ancestors[new]
          BY Ancestry
        <4> QED  BY <2>2, <3>1, <3>2, <3>3, <4>1 DEF ValidInv
      <3> QED  BY <3>3 DEF Valid
    <2> QED  BY <2>1, <2>2 DEF Premise
  <1>4. ASSUME NEW x \in Ancestors[new], x \in gone PROVE FALSE
    <2>1. PICK f \in Ancestors[x] : f \in Failed
      BY <1>4 DEF Rejects, Valid
    <2> QED  BY <1>3, <2>1, Ancestry DEF Valid
  <1> QED  BY <1>2, <1>3, <1>4 DEF Valid

\* Connecting valid blocks keeps the scripts closed under ancestors.
LEMMA ConnectsUpward ==
    ASSUME ValidInv, NEW new \in Blocks, tip' = new, scripts' = scripts \cup (Ancestors[new] \ Active)
    PROVE  Active' \subseteq scripts' \cup {Genesis} /\ ScriptsUpward'
  <1>1. Active' \subseteq scripts' \cup {Genesis}
    BY DEF ValidInv, Active
  <1>2. ASSUME NEW b \in scripts' PROVE Ancestors[b] \subseteq scripts' \cup {Genesis}
    <2>1. CASE b \in scripts
      BY <2>1 DEF ValidInv, ScriptsUpward
    <2>2. CASE b \in Ancestors[new]
      BY <1>1, <2>2, Ancestry DEF Active
    <2> QED  BY <1>2, <2>1, <2>2
  <1> QED  BY <1>1, <1>2 DEF ScriptsUpward

\* An iteration of ActivateBestChain.
LEMMA IterationKeepsValid ==
    ASSUME Premise, LinkInv, ActivationTypes, ValidInv, NEW t \in Threads, ActivateBestChain(t)
    PROVE  ValidInv'
  <1>1. PICK m \in linked \cup {Null}, gone \in SUBSET Blocks :
          /\ Target(t, m) /\ Rejects(gone)
          /\ \/ Stays(t, m, gone)
             \/ \E last, new \in Blocks : Moves(t, m, gone, last, new)
             \/ \E new \in Blocks : Breaks(t, m, gone, new)
    BY Iteration
  <1>2. CASE Stays(t, m, gone)
    <2>1. /\ Failed' \subseteq Failed \cup gone /\ UNCHANGED <<tip, scripts>>
          /\ \A s \in Threads : pindexMostWork'[s] \in {Null, pindexMostWork[s]}
      BY <1>1, <1>2 DEF Rejects, Stays, Failed, ActivationTypes
    <2> QED  BY <1>1, <2>1, FailingMoreKeepsValid DEF Rejects
  <1>3. ASSUME NEW last \in Blocks, NEW new \in Blocks, Moves(t, m, gone, last, new)
        PROVE  ValidInv'
    <2>1. m \in linked /\ m \in Blocks /\ tip \in Blocks
      BY <1>3 DEF Moves, LinkInv, LinkTypes, LinkingComplete, ActivationTypes
    <2>2. Ancestors[new] \cap (Failed \cup gone) = {} /\ (OneThread => Valid(m))
      BY <1>1, <1>3, <2>1, ConnectsValid DEF Moves
    <2>3. Failed' = Failed \cup gone \cup ({last} \cap BadConnect)
      BY <1>1, <1>3 DEF Moves, Rejects, Failed
    <2>4. ActiveChainValid'
      BY <1>3, <2>2, <2>3 DEF Moves, ActiveChainValid, Active
    <2>5. scripts' = scripts \cup (Ancestors[new] \ Active) /\ tip' = new
      BY <1>3, <2>2 DEF Moves
    <2>6. Active' \subseteq scripts' \cup {Genesis} /\ ScriptsUpward'
      BY <2>5, ConnectsUpward
    <2>8. ASSUME OneThread, NEW s \in Threads, pindexMostWork'[s] # Null
          PROVE  Valid(pindexMostWork[s])'
      <3>1. s = t
        BY <2>8 DEF OneThread
      <3>2. last \notin BadConnect /\ pindexMostWork'[s] = m
        BY <1>3, <2>8, <3>1 DEF Moves, ActivationTypes
      <3>3. Failed' = Failed \cup gone
        BY <2>3, <3>2
      <3>4. Valid(m)'
        BY <1>1, <2>1, <2>2, <2>8, <3>3, StillValid DEF Rejects
      <3> QED  BY <3>2, <3>4 DEF Valid, Failed
    <2>9. ASSUME Invalidatable = {}, NEW x \in Failed'
          PROVE  Ancestors[x] \cap (BadContext \cup BadConnect) # {}
      <3>1. CASE x = last /\ last \in BadConnect
        BY <3>1, Ancestry
      <3>2. CASE x \in Failed
        BY <2>9, <3>2 DEF ValidInv
      <3>3. CASE x \in gone
        <4>1. PICK f \in Ancestors[x] : f \in Failed
          BY <1>1, <3>3 DEF Rejects, Valid
        <4> QED  BY <2>9, <3>3, <4>1, Ancestry, SMT DEF ValidInv
      <3> QED  BY <2>3, <3>1, <3>2, <3>3
    <2> QED
      BY <2>4, <2>6, <2>8, <2>9 DEF ValidInv, OneThread
  <1>4. ASSUME NEW new \in Blocks, Breaks(t, m, gone, new) PROVE ValidInv'
    <2>1. Ancestors[new] \cap (Failed \cup gone) = {}
      BY <1>1, <1>4, ConnectsValid DEF Breaks
    <2>2. Failed' = Failed \cup gone
      BY <1>1, <1>4 DEF Breaks, Rejects, Failed
    <2>3. scripts' = scripts \cup (Ancestors[new] \ Active) /\ tip' = new
      BY <1>4, <2>1 DEF Breaks
    <2>4. Active' \subseteq scripts' \cup {Genesis} /\ ScriptsUpward'
      BY <2>3, ConnectsUpward
    <2>5. ActiveChainValid'
      BY <2>1, <2>2, <2>3 DEF ActiveChainValid, Active
    <2>6. ASSUME OneThread, NEW s \in Threads PROVE pindexMostWork'[s] = Null
      <3>1. s = t
        BY <2>6 DEF OneThread
      <3> QED  BY <1>4, <3>1 DEF Breaks, ActivationTypes
    <2>7. Invalidatable = {} => \A x \in Failed' : Ancestors[x] \cap (BadContext \cup BadConnect) # {}
      <3>1. failedValid \subseteq Blocks /\ failedChild \subseteq Blocks
        BY DEF ActivationTypes
      <3> QED  BY <1>1, <2>2, <3>1, StillBad DEF ValidInv, Rejects
    <2> QED  BY <2>4, <2>5, <2>6, <2>7 DEF ValidInv, OneThread
  <1> QED  BY <1>1, <1>2, <1>3, <1>4

\* RejectBlock fails a block that has no data, and so is on no chain.
LEMMA RejectKeepsValid ==
    ASSUME LinkInv, ActivationTypes, ValidInv, NEW t \in Threads, NEW b \in Blocks, NEW r \in BOOLEAN,
           RejectBlock(t, b, r)
    PROVE  ValidInv'
  <1>1. /\ b \notin data /\ b \in BadContext /\ Failed' = Failed \cup {b}
        /\ UNCHANGED <<tip, scripts, pindexMostWork>>
    BY DEF RejectBlock, NotWanted, Failed, threads
  <1>2. \A x \in linked : b \notin Ancestors[x]
    BY <1>1 DEF LinkInv, LinkingComplete
  <1>3. ActiveChainValid'
    BY <1>1, <1>2 DEF ValidInv, ActiveChainValid, Active, ActivationTypes
  <1>4. OneThread => \A s \in Threads : pindexMostWork'[s] # Null => Valid(pindexMostWork[s])'
    BY <1>1, <1>2, SMT DEF ValidInv, Valid, ActivationTypes
  <1>5. Invalidatable = {} => \A x \in Failed' : Ancestors[x] \cap (BadContext \cup BadConnect) # {}
    BY <1>1, Ancestry DEF ValidInv
  <1> QED  BY <1>1, <1>3, <1>4, <1>5 DEF ValidInv, ScriptsUpward, Active, OneThread

\* invalidateblock takes the tip below what it fails.
LEMMA InvalidateKeepsValid ==
    ASSUME Premise, LinkInv, ActivationTypes, ValidInv, NEW t \in Threads, NEW b \in Blocks,
           InvalidateBlock(t, b)
    PROVE  ValidInv'
  <1>1. /\ b \in Invalidatable /\ StartActivation(t) /\ scripts' = scripts
        /\ tip' = IF b \in Active THEN Parent[b] ELSE tip
        /\ failedValid' = failedValid \cup {b}
        /\ failedChild' = failedChild \cup (IF b \in Active THEN Ancestors[tip] \ Ancestors[b] ELSE {})
    BY DEF InvalidateBlock
  <1>2. b # Genesis /\ Invalidatable # {} /\ OneThread /\ tip \in Blocks
    BY <1>1, ParameterTypes DEF Premise, LinkInv, LinkTypes, LinkingComplete, ActivationTypes
  <1>3. Active' \subseteq Active /\ (b \in Active => Active' \subseteq Ancestors[b] \ {b})
    BY <1>1, <1>2, Ancestry DEF Active
  <1>4. ActiveChainValid'
    BY <1>1, <1>3 DEF ValidInv, ActiveChainValid, Failed
  <1>5. \A s \in Threads : pindexMostWork'[s] = Null
    BY <1>1, <1>2, StartTypes DEF OneThread, StartActivation, ActivationTypes
  <1> QED  BY <1>1, <1>2, <1>3, <1>4, <1>5 DEF ValidInv, ScriptsUpward, OneThread

\* LoadBlockIndexDB marks the descendants of failed blocks.
LEMMA RestartKeepsValid ==
    ASSUME LinkInv, ActivationTypes, ValidInv, Restart
    PROVE  ValidInv'
  <1> DEFINE more == {b \in index : Ancestors[b] \cap (failedValid \cup (failedChild \ unsaved)) # {}}
  <1>1. Failed' \subseteq Failed \cup more
    BY DEF Restart, Failed
  <1>2. more \in SUBSET Blocks /\ \A y \in more : ~Valid(y)
    BY DEF LinkInv, LinkTypes, Valid, Failed
  <1>3. UNCHANGED <<tip, scripts>> /\ \A t \in Threads : pindexMostWork'[t] = Null
    BY DEF Restart
  <1> HIDE DEF more
  <1> QED  BY <1>1, <1>2, <1>3, FailingMoreKeepsValid

\* Any step.
LEMMA StepKeepsValid ==
    ASSUME Premise, LinkInv, ActivationTypes, ValidInv, [Next]_vars
    PROVE  ValidInv'
  <1>1. CASE UNCHANGED vars
    BY <1>1 DEF vars, failure, threads, ValidInv, ActiveChainValid, ScriptsUpward, Active, Failed, Valid, OneThread
  <1>2. ASSUME NEW b \in Blocks, RefuseHeader(b) PROVE ValidInv'
    <2>1. PICK walk \in SUBSET (Blocks \ {Genesis}) :
            /\ failedChild' = failedChild \cup walk
            /\ \E f \in failedValid \cap failedBlocks : \A x \in walk : f \in Ancestors[x]
      BY <1>2, WalkAbove DEF ActivationTypes
    <2>2. \A x \in walk : ~Valid(x)
      BY <2>1 DEF Valid, Failed
    <2>3. Failed' \subseteq Failed \cup walk /\ UNCHANGED <<tip, scripts, pindexMostWork>>
      BY <1>2, <2>1 DEF RefuseHeader, threads, Failed
    <2> QED  BY <2>2, <2>3, FailingMoreKeepsValid
  <1>3. ASSUME UNCHANGED <<tip, scripts>>, Failed' \subseteq Failed,
               \A t \in Threads : pindexMostWork'[t] \in {Null, pindexMostWork[t]}
        PROVE  ValidInv'
    <2>1. {} \in SUBSET Blocks /\ (\A y \in {} : ~Valid(y)) /\ Failed' \subseteq Failed \cup {}
      BY <1>3
    <2> QED  BY <1>3, <2>1, FailingMoreKeepsValid
  <1>4. ASSUME NEW t \in Threads, StartActivation(t)
        PROVE  \A s \in Threads : pindexMostWork'[s] \in {Null, pindexMostWork[s]}
    BY <1>4 DEF StartActivation, ActivationTypes
  <1>5. ASSUME NEW b \in Blocks, AcceptHeader(b) PROVE ValidInv'
    BY <1>3, <1>5 DEF AcceptHeader, failure, threads, Failed
  <1>6. ASSUME NEW t \in Threads, NEW b \in Blocks, NEW r \in BOOLEAN,
               IgnoreBlock(t, b, r) \/ StoreBlock(t, b, r)
        PROVE  ValidInv'
    BY <1>3, <1>4, <1>6 DEF IgnoreBlock, StoreBlock, failure, Failed
  <1>7. ASSUME NEW t \in Threads, CallActivateBestChain(t) PROVE ValidInv'
    BY <1>3, <1>4, <1>7 DEF CallActivateBestChain, failure, Failed
  <1>8. ASSUME NEW t \in Threads, NEW b \in Blocks, PreciousBlock(t, b) PROVE ValidInv'
    BY <1>3, <1>4, <1>8 DEF PreciousBlock, failure, Failed
  <1>9. ASSUME NEW t \in Threads, NEW b \in Blocks, ResetBlockFailureFlags(t, b) PROVE ValidInv'
    <2>1. Failed' \subseteq Failed /\ UNCHANGED <<tip, scripts>> /\ StartActivation(t)
      BY <1>9 DEF ResetBlockFailureFlags, Failed
    <2> QED  BY <1>3, <1>4, <2>1
  <1>10. ASSUME NEW t \in Threads, NEW b \in Blocks, NEW d \in Damaged, InvalidateBlockFails(t, b, d)
         PROVE  ValidInv'
    <2>1. /\ tip' = d /\ d \in Active /\ scripts' = scripts /\ Failed' = Failed
          /\ \A s \in Threads : pindexMostWork'[s] \in {Null, pindexMostWork[s]}
      BY <1>4, <1>10 DEF InvalidateBlockFails, failure, Failed
    <2>2. Active' \subseteq Active
      BY <2>1, Ancestry DEF Active, LinkInv, LinkTypes, LinkingComplete, ActivationTypes
    <2> QED  BY <2>1, <2>2 DEF ValidInv, ActiveChainValid, ScriptsUpward, OneThread, Valid
  <1> QED
    BY <1>1, <1>2, <1>5, <1>6, <1>7, <1>8, <1>9, <1>10, RejectKeepsValid, IterationKeepsValid,
       InvalidateKeepsValid, RestartKeepsValid DEF Next

\* Genesis alone.
LEMMA ValidInitially == Init => LinkInv /\ ActivationTypes /\ ValidInv
  BY Initially, TypesInitially, BlockTree, SMT
     DEF Init, ValidInv, ActiveChainValid, ScriptsUpward, Active, Failed

\* The invariant holds throughout.
LEMMA AlwaysValid == Premise => (Spec => [](LinkInv /\ ActivationTypes /\ ValidInv))
  <1> SUFFICES ASSUME Premise PROVE Spec => [](LinkInv /\ ActivationTypes /\ ValidInv)
    OBVIOUS
  <1>1. LinkInv /\ ActivationTypes /\ ValidInv /\ [Next]_vars => (LinkInv /\ ActivationTypes /\ ValidInv)'
    BY StepKeepsTypes, StepKeepsValid
  <1> QED  BY <1>1, ValidInitially, PTL DEF Spec

\* If one thread activates chains, or no block is invalidated by hand, then no block
\* of the active chain is ever marked failed: whatever fails, is reconsidered, made
\* precious or refused as a header while the chain is being activated.
THEOREM ChainAlwaysValid == OneThread \/ Invalidatable = {} => (Spec => []ActiveChainValid)
  <1>1. ValidInv => ActiveChainValid
    BY DEF ValidInv
  <1> QED  BY <1>1, AlwaysValid, PTL DEF Premise

\* Under the same condition VALID_SCRIPTS is raised from the root upwards: a block
\* has it only when all its ancestors do (CheckBlockIndex 5550).
THEOREM ScriptsAlwaysUpward == OneThread \/ Invalidatable = {} => (Spec => []ScriptsUpward)
  <1>1. ValidInv => ScriptsUpward
    BY DEF ValidInv
  <1> QED  BY <1>1, AlwaysValid, PTL DEF Premise

-----------------------------------------------------------------------------
(* Failure flags. *)

\* A step marks new causes of failure, and blocks that descend from failed ones.
Marks(more, new) ==
    /\ \A x \in more : Ancestors[x] \cap (Failed \cup new) # {}
    /\ failedChild' \subseteq failedChild \cup more
    /\ failedValid' = failedValid \cup new
    /\ failedBlocks' \subseteq failedBlocks \cup new

\* That is all any step does to the flags, but for reconsiderblock and the blocks
\* that fail their context check.
LEMMA StepMarks ==
    ASSUME LinkInv, ActivationTypes, [Next]_vars,
           \A t \in Threads, b \in Blocks : ~ResetBlockFailureFlags(t, b),
           \A t \in Threads, b \in Blocks, r \in BOOLEAN : ~RejectBlock(t, b, r)
    PROVE  \E more \in SUBSET Blocks, new \in SUBSET (BadConnect \cup Invalidatable) : Marks(more, new)
  <1> DEFINE Goal == \E more \in SUBSET Blocks, new \in SUBSET (BadConnect \cup Invalidatable) : Marks(more, new)
  <1>1. ASSUME UNCHANGED <<failedValid, failedChild, failedBlocks>> PROVE Goal
    <2>1. Marks({}, {})
      BY <1>1 DEF Marks
    <2> QED  BY <2>1
  <1>2. ASSUME NEW b \in Blocks, RefuseHeader(b) PROVE Goal
    <2>1. PICK walk \in SUBSET (Blocks \ {Genesis}) :
            /\ failedChild' = failedChild \cup walk
            /\ \E f \in failedValid \cap failedBlocks : \A x \in walk : f \in Ancestors[x]
      BY <1>2, WalkAbove DEF ActivationTypes
    <2>2. failedValid' = failedValid /\ failedBlocks' = failedBlocks
      BY <1>2 DEF RefuseHeader
    <2>3. Marks(walk, {})
      BY <2>1, <2>2 DEF Marks, Failed
    <2> QED  BY <2>1, <2>3
  <1>3. ASSUME NEW t \in Threads, ActivateBestChain(t) PROVE Goal
    <2>1. PICK m \in linked \cup {Null}, gone \in SUBSET Blocks :
            /\ Target(t, m) /\ Rejects(gone)
            /\ \/ Stays(t, m, gone)
               \/ \E last, new \in Blocks : Moves(t, m, gone, last, new)
               \/ \E new \in Blocks : Breaks(t, m, gone, new)
      BY <1>3, Iteration
    <2>2. PICK new \in SUBSET BadConnect : failedValid' = failedValid \cup new /\ failedBlocks' = failedBlocks \cup new
      <3>1. ASSUME UNCHANGED <<failedValid, failedBlocks>>
            PROVE  failedValid' = failedValid \cup {} /\ failedBlocks' = failedBlocks \cup {}
        BY <3>1
      <3>2. ASSUME NEW last \in Blocks, NEW new \in Blocks, Moves(t, m, gone, last, new)
            PROVE  /\ failedValid' = failedValid \cup ({last} \cap BadConnect)
                   /\ failedBlocks' = failedBlocks \cup ({last} \cap BadConnect)
        BY <3>2 DEF Moves
      <3> QED  BY <2>1, <3>1, <3>2 DEF Stays, Breaks
    <2>3. Marks(gone, new)
      BY <2>1, <2>2 DEF Marks, Rejects, Valid
    <2> QED  BY <2>2, <2>3
  <1>4. ASSUME NEW t \in Threads, NEW b \in Blocks, InvalidateBlock(t, b) PROVE Goal
    <2> DEFINE walk == IF b \in Active THEN Ancestors[tip] \ Ancestors[b] ELSE {}
    <2>1. /\ b \in Invalidatable /\ failedValid' = failedValid \cup {b}
          /\ failedBlocks' = failedBlocks \cup {b} /\ failedChild' = failedChild \cup walk
      BY <1>4 DEF InvalidateBlock
    <2>2. tip \in Blocks
      BY DEF LinkInv, LinkTypes, LinkingComplete, ActivationTypes
    <2>3. walk \in SUBSET Blocks /\ \A x \in walk : b \in Ancestors[x]
      BY <2>2, Ancestry DEF Active
    <2> HIDE DEF walk
    <2>4. Marks(walk, {b}) /\ {b} \in SUBSET (BadConnect \cup Invalidatable)
      BY <2>1, <2>3 DEF Marks
    <2> QED  BY <2>3, <2>4
  <1>5. ASSUME Restart PROVE Goal
    <2> DEFINE more == {b \in index : Ancestors[b] \cap (failedValid \cup (failedChild \ unsaved)) # {}}
    <2>1. failedChild' \subseteq failedChild \cup more /\ failedValid' = failedValid \cup {} /\ failedBlocks' = {}
      BY <1>5 DEF Restart
    <2>2. more \in SUBSET Blocks /\ \A y \in more : Ancestors[y] \cap (Failed \cup {}) # {}
      BY DEF LinkInv, LinkTypes, Failed
    <2> HIDE DEF more
    <2>3. Marks(more, {})
      BY <2>1, <2>2 DEF Marks
    <2> QED  BY <2>2, <2>3
  <1>6. ASSUME UNCHANGED vars PROVE Goal
    BY <1>1, <1>6 DEF vars, failure
  <1>7. ASSUME NEW t \in Threads, NEW b \in Blocks, NEW r \in BOOLEAN,
               IgnoreBlock(t, b, r) \/ StoreBlock(t, b, r)
        PROVE  Goal
    BY <1>1, <1>7 DEF IgnoreBlock, StoreBlock, failure
  <1>8. ASSUME NEW b \in Blocks, AcceptHeader(b) PROVE Goal
    BY <1>1, <1>8 DEF AcceptHeader, failure
  <1>9. ASSUME NEW t \in Threads, CallActivateBestChain(t) PROVE Goal
    BY <1>1, <1>9 DEF CallActivateBestChain, failure
  <1>10. ASSUME NEW t \in Threads, NEW b \in Blocks, PreciousBlock(t, b) PROVE Goal
    BY <1>1, <1>10 DEF PreciousBlock, failure
  <1>11. ASSUME NEW t \in Threads, NEW b \in Blocks, NEW d \in Damaged, InvalidateBlockFails(t, b, d) PROVE Goal
    BY <1>1, <1>11 DEF InvalidateBlockFails, failure
  <1> HIDE DEF Goal
  <1>12. Goal
    BY <1>2, <1>3, <1>4, <1>5, <1>6, <1>7, <1>8, <1>9, <1>10, <1>11 DEF Next
  <1> QED  BY <1>12 DEF Goal

\* What the flags and g_failed_blocks say for any number of threads and any use of
\* the commands.
CauseInv == FailureHasACause /\ FailedSetIsFailed

\* One step of any thread.
LEMMA StepKeepsCauses ==
    ASSUME LinkInv, ActivationTypes, CauseInv, [Next]_vars
    PROVE  CauseInv'
  <1> DEFINE Causes == BadContext \cup BadConnect \cup Invalidatable
  <1>1. ASSUME NEW t \in Threads, NEW b \in Blocks, ResetBlockFailureFlags(t, b) PROVE CauseInv'
    <2> DEFINE below == {x \in Failed : b \in Ancestors[x]}
    <2>1. /\ b \in Reconsiderable
          /\ failedValid' = failedValid \ (below \cup Ancestors[b])
          /\ failedChild' \subseteq failedChild
          /\ failedBlocks' = failedBlocks \ below
      BY <1>1 DEF ResetBlockFailureFlags
    <2>2. FailureHasACause'
      BY <2>1 DEF CauseInv, FailureHasACause
    <2>3. ASSUME NEW f \in failedBlocks', f \notin failedValid'
          PROVE  \E r \in Reconsiderable : f \in Ancestors[r] \ {r}
      <3>1. CASE f \notin failedValid
        BY <2>1, <2>3, <3>1 DEF CauseInv, FailedSetIsFailed
      <3>2. CASE f \in failedValid
        <4>1. f \in Ancestors[b] /\ f \notin below
          BY <2>1, <2>3, <3>2
        <4>2. f # b
          BY <3>2, <4>1, Ancestry DEF Failed
        <4> QED  BY <2>1, <4>1, <4>2
      <3> QED  BY <3>1, <3>2
    <2> QED  BY <2>2, <2>3 DEF CauseInv, FailedSetIsFailed
  <1>2. ASSUME NEW t \in Threads, NEW b \in Blocks, NEW r \in BOOLEAN, RejectBlock(t, b, r)
        PROVE  CauseInv'
    BY <1>2 DEF RejectBlock, CauseInv, FailureHasACause, FailedSetIsFailed
  <1>3. ASSUME NEW more \in SUBSET Blocks, NEW new \in SUBSET (BadConnect \cup Invalidatable), Marks(more, new)
        PROVE  CauseInv'
    <2>1. ASSUME NEW x \in more PROVE Ancestors[x] \cap Causes # {}
      <3>1. PICK f \in Ancestors[x] : f \in Failed \cup new
        BY <1>3, <2>1 DEF Marks
      <3>2. Ancestors[f] \subseteq Ancestors[x]
        BY <2>1, <3>1, Ancestry
      <3> QED  BY <3>1, <3>2 DEF CauseInv, FailureHasACause, Failed
    <2>2. FailureHasACause'
      BY <1>3, <2>1 DEF Marks, CauseInv, FailureHasACause
    <2>3. FailedSetIsFailed'
      BY <1>3 DEF Marks, CauseInv, FailedSetIsFailed
    <2> QED  BY <2>2, <2>3 DEF CauseInv
  <1> QED  BY <1>1, <1>2, <1>3, StepMarks

\* The invariant holds throughout.
LEMMA AlwaysCaused == Spec => []CauseInv
  <1> DEFINE I == LinkInv /\ ActivationTypes /\ CauseInv
  <1>1. Init => I
    <2>1. Init => CauseInv
      BY DEF Init, CauseInv, FailureHasACause, FailedSetIsFailed
    <2> QED  BY <2>1, Initially, TypesInitially
  <1>2. I /\ [Next]_vars => I'
    BY StepKeepsTypes, StepKeepsCauses
  <1>3. I => CauseInv
    OBVIOUS
  <1> HIDE DEF I
  <1> QED  BY <1>1, <1>2, <1>3, PTL DEF Spec

\* A block of g_failed_blocks is marked failed, as the assertion of AcceptBlockHeader
\* demands (4363), unless reconsiderblock was used on a descendant of it: for any
\* number of threads and any use of the commands no other path breaks the assertion.
THEOREM FailedSetAlwaysFailed == Spec => []FailedSetIsFailed
  <1>1. CauseInv => FailedSetIsFailed
    BY DEF CauseInv
  <1> QED  BY <1>1, AlwaysCaused, PTL

\* No block is held for failed unless it, or an ancestor, breaks a rule or was named
\* in invalidateblock: whatever comes back damaged from disk, and however the marks
\* are spread, cleared and derived again.
THEOREM FailureAlwaysHasACause == Spec => []FailureHasACause
  <1>1. CauseInv => FailureHasACause
    BY DEF CauseInv
  <1> QED  BY <1>1, AlwaysCaused, PTL

\* reconsiderblock clears the flags of all ancestors of its block, but takes only
\* its descendants out of g_failed_blocks and into the candidates: nothing is lost
\* if what it names has no ancestor that can itself be the cause of a failure.
TopReconsidered == \A r \in Reconsiderable : Ancestors[r] \cap (BadConnect \cup Invalidatable) \subseteq {r}

\* Which blocks are marked, and that those marked as descendants are descendants.
FlagInv ==
    /\ failedValid \subseteq BadContext \cup BadConnect \cup Invalidatable
    /\ failedBlocks \subseteq failedValid \cap (BadConnect \cup Invalidatable)
    /\ \A x \in failedChild : Ancestors[x] \cap (failedValid \cup BadContext) # {}

\* reconsiderblock: what stays marked keeps its cause.
LEMMA ResetKeepsFlags ==
    ASSUME TopReconsidered, LinkInv, ActivationTypes, FlagInv, NEW t \in Threads, NEW b \in Blocks,
           ResetBlockFailureFlags(t, b)
    PROVE  FlagInv'
  <1> DEFINE below == {x \in Failed : b \in Ancestors[x]}
             cleared == below \cup Ancestors[b]
  <1>1. /\ b \in Reconsiderable
        /\ failedValid' = failedValid \ cleared
        /\ failedChild' = failedChild \ cleared
        /\ failedBlocks' = failedBlocks \ below
    BY DEF ResetBlockFailureFlags
  <1>2. ASSUME NEW f \in failedValid \ BadContext, f \in Ancestors[b] PROVE b \in Ancestors[f]
    <2>1. f = b
      BY <1>1, <1>2 DEF TopReconsidered, FlagInv
    <2> QED  BY <2>1, Ancestry
  <1>3. ASSUME NEW f \in failedBlocks' PROVE f \in failedValid' \cap (BadConnect \cup Invalidatable)
    <2>1. f \in failedValid \cap (BadConnect \cup Invalidatable) /\ f \notin below
      BY <1>1, <1>3 DEF FlagInv
    <2>2. b \notin Ancestors[f]
      BY <2>1 DEF Failed
    <2>3. f \notin Ancestors[b]
      <3>1. f \in Ancestors[b] => f = b
        BY <1>1, <2>1 DEF TopReconsidered
      <3> QED  BY <2>2, <3>1, Ancestry
    <2> QED  BY <1>1, <2>1, <2>3
  <1>4. ASSUME NEW x \in failedChild' PROVE Ancestors[x] \cap (failedValid' \cup BadContext) # {}
    <2>1. x \in failedChild /\ b \notin Ancestors[x] /\ x \in Blocks
      BY <1>1, <1>4 DEF Failed, ActivationTypes
    <2>2. PICK f \in Ancestors[x] : f \in failedValid \cup BadContext
      BY <2>1 DEF FlagInv
    <2>3. CASE f \in BadContext
      BY <2>2, <2>3
    <2>4. CASE f \notin BadContext
      <3>1. b \notin Ancestors[f]
        BY <2>1, <2>2, Ancestry
      <3>2. f \notin cleared
        BY <1>2, <2>2, <2>4, <3>1
      <3> QED  BY <1>1, <2>2, <2>4, <3>2
    <2> QED  BY <2>3, <2>4
  <1>5. failedValid' \subseteq failedValid
    BY <1>1
  <1> HIDE DEF below, cleared
  <1> QED  BY <1>3, <1>4, <1>5 DEF FlagInv

\* Any step.
LEMMA StepKeepsFlags ==
    ASSUME TopReconsidered, LinkInv, ActivationTypes, FlagInv, [Next]_vars
    PROVE  FlagInv'
  <1>1. ASSUME NEW t \in Threads, NEW b \in Blocks, NEW r \in BOOLEAN, RejectBlock(t, b, r)
        PROVE  FlagInv'
    BY <1>1 DEF RejectBlock, FlagInv
  <1>2. ASSUME NEW more \in SUBSET Blocks, NEW new \in SUBSET (BadConnect \cup Invalidatable), Marks(more, new)
        PROVE  FlagInv'
    <2>1. ASSUME NEW x \in more PROVE Ancestors[x] \cap (failedValid' \cup BadContext) # {}
      <3>1. PICK f \in Ancestors[x] : f \in Failed \cup new
        BY <1>2, <2>1 DEF Marks
      <3>2. CASE f \in failedChild
        <4>1. Ancestors[f] \subseteq Ancestors[x]
          BY <2>1, <3>1, Ancestry
        <4> QED  BY <1>2, <3>2, <4>1 DEF Marks, FlagInv
      <3>3. CASE f \in failedValid \cup new
        BY <1>2, <3>1, <3>3 DEF Marks
      <3> QED  BY <3>1, <3>2, <3>3 DEF Failed
    <2> QED  BY <1>2, <2>1 DEF Marks, FlagInv
  <1> QED  BY <1>1, <1>2, StepMarks, ResetKeepsFlags

-----------------------------------------------------------------------------
(* The best chain. *)

\* No ancestor of x is one that ConnectBlock rejects.
Good(x) == Ancestors[x] \cap BadConnect = {}

\* Some candidate that will not fail is better than b.
Dominated(b) == \E c \in candidates : Valid(c) /\ Good(c) /\ Worse(sequenceId, b, c)

\* m is the best candidate that is not known to be invalid.
IsBest(m) == /\ m \in candidates /\ Valid(m)
             /\ \A c \in candidates : Valid(c) => ~Worse(sequenceId, m, c)

\* preciousblock never makes the tip worse: its counter restarts only when the tip
\* has more work than every good block it was used on.
PreciousInv ==
    /\ nBlockReverseSequenceId < 0
    /\ \A b \in linked : Good(b) => /\ sequenceId[b] < 0 => Work[b] <= nLastPreciousChainwork
                                    /\ Work[b] >= nLastPreciousChainwork => sequenceId[b] >= nBlockReverseSequenceId
    /\ \E b \in linked : Good(b) /\ Work[b] >= nLastPreciousChainwork

\* A block that is no candidate is worse than one that will last, so that pruning
\* the candidates on the way to an invalid block loses nothing.
BestInv ==
    /\ \A c \in candidates : ~Worse(sequenceId, c, tip)
    /\ \A b \in linked \ Failed : b \in candidates \/ Dominated(b)
    /\ \A t \in Threads : pindexMostWork[t] # Null => IsBest(pindexMostWork[t])
    /\ Quiet => IsBest(tip)
    /\ Invalidatable = {} => PreciousInv

\* With one thread, sound files, and the commands kept apart: preciousblock after an
\* invalidation may restart its counter and put the tip behind a block that is no
\* candidate, and a block that cannot be disconnected ends the activation early.
BestPremise == /\ OneThread /\ TopReconsidered /\ Damaged = {}
               /\ Precious = {} \/ Invalidatable = {}

\* Everything about the state but BestInv.
BaseInv == LinkInv /\ ActivationTypes /\ ValidInv /\ FlagInv

\* The types a proof about the comparator needs.
LEMMA BaseTypes ==
    ASSUME BaseInv
    PROVE  /\ linked \subseteq Blocks /\ tip \in Blocks /\ tip \in linked \ Failed
           /\ candidates \subseteq Blocks /\ candidates \subseteq linked
           /\ sequenceId \in [Blocks -> Int] /\ Valid(tip) /\ Good(tip)
  <1>1. linked \subseteq Blocks /\ tip \in linked /\ candidates \subseteq linked
    BY DEF BaseInv, LinkInv, LinkTypes, LinkingComplete, ActivationTypes
  <1>2. Valid(tip) /\ Good(tip) /\ sequenceId \in [Blocks -> Int]
    BY DEF BaseInv, ActivationTypes, ValidInv, ActiveChainValid, Active, Valid, Good
  <1>3. tip \notin Failed
    BY <1>1, <1>2, Ancestry DEF Valid
  <1> QED  BY <1>1, <1>2, <1>3

\* What is worse than the tip is dominated, by the tip or by what dominates it.
LEMMA WorseThanTip ==
    ASSUME BaseInv, \A b \in linked \ Failed : b \in candidates \/ Dominated(b),
           NEW b \in Blocks, Worse(sequenceId, b, tip)
    PROVE  Dominated(b)
  <1>1. CASE tip \in candidates
    BY <1>1, BaseTypes DEF Dominated
  <1>2. CASE Dominated(tip)
    <2>1. PICK c \in candidates : Valid(c) /\ Good(c) /\ Worse(sequenceId, tip, c)
      BY <1>2 DEF Dominated
    <2>2. Worse(sequenceId, b, c)
      BY <2>1, BaseTypes, WorseOrder
    <2> QED  BY <2>1, <2>2 DEF Dominated
  <1> QED  BY <1>1, <1>2, BaseTypes

\* A descendant is better.
LEMMA AncestorWorse ==
    ASSUME NEW seq, NEW b \in Blocks, NEW a \in Ancestors[b]
    PROVE  a \in Blocks /\ (a # b => Worse(seq, a, b))
  BY Ancestry, WorkGrows DEF Worse

\* When the tip is the best candidate, a block that is no candidate is worse.
LEMMA NotCandidate ==
    ASSUME BaseInv, BestInv, IsBest(tip), NEW b \in linked \ Failed, b \notin candidates
    PROVE  Worse(sequenceId, b, tip)
  <1>1. PICK c \in candidates : Valid(c) /\ Worse(sequenceId, b, c)
    BY DEF BestInv, Dominated
  <1>2. ~Worse(sequenceId, tip, c) /\ ~Worse(sequenceId, c, tip)
    BY <1>1 DEF IsBest, BestInv
  <1>3. c = tip
    BY <1>2, BaseTypes, WorseOrder
  <1> QED  BY <1>1, <1>3

\* ... and no valid block beats it.
LEMMA NothingBetter ==
    ASSUME BaseInv, BestInv, IsBest(tip), NEW b \in linked, Valid(b)
    PROVE  ~Worse(sequenceId, tip, b)
  <1>1. b \in Blocks
    BY BaseTypes
  <1>2. b \in linked \ Failed
    BY <1>1, Ancestry DEF Valid
  <1>3. CASE b \in candidates
    BY <1>3 DEF IsBest
  <1>4. CASE b \notin candidates
    BY <1>1, <1>2, <1>4, NotCandidate, BaseTypes, WorseOrder
  <1> QED  BY <1>3, <1>4

\* Steps that fail only blocks with a failed ancestor, and drop only such blocks.
LEMMA FailingMoreKeepsBest ==
    ASSUME BaseInv, BestInv, NEW more \in SUBSET Blocks, \A y \in more : ~Valid(y),
           Failed \subseteq Failed', Failed' \subseteq Failed \cup more,
           candidates \ (more \cap Failed') \subseteq candidates', candidates' \subseteq candidates,
           UNCHANGED <<tip, linked, sequenceId, nBlockReverseSequenceId, nLastPreciousChainwork>>,
           \A t \in Threads : pindexMostWork'[t] \in {Null, pindexMostWork[t]},
           Quiet' => IsBest(tip)
    PROVE  BestInv'
  <1>1. ASSUME NEW c \in Blocks, Valid(c) PROVE Valid(c)'
    BY <1>1, StillValid
  <1>2. ASSUME NEW c \in Blocks, Valid(c)' PROVE Valid(c)
    BY <1>2 DEF Valid
  <1>3. ASSUME NEW c \in candidates, Valid(c) PROVE c \in candidates'
    BY <1>3
  <1>4. ASSUME NEW m \in Blocks, IsBest(m) PROVE IsBest(m)'
    BY <1>1, <1>2, <1>3, <1>4, BaseTypes DEF IsBest
  <1>5. ASSUME NEW b \in linked' \ Failed' PROVE b \in candidates' \/ Dominated(b)'
    <2>1. b \in linked \ Failed
      BY <1>5
    <2>2. CASE b \in candidates
      BY <1>5, <2>2
    <2>3. CASE Dominated(b)
      <3>1. PICK c \in candidates : Valid(c) /\ Good(c) /\ Worse(sequenceId, b, c)
        BY <2>3 DEF Dominated
      <3>2. c \in candidates' /\ Valid(c)'
        BY <1>1, <1>3, <3>1, BaseTypes
      <3> QED  BY <3>1, <3>2 DEF Dominated, Good, Worse
    <2> QED  BY <2>1, <2>2, <2>3 DEF BestInv
  <1>6. ASSUME NEW t \in Threads, pindexMostWork'[t] # Null PROVE IsBest(pindexMostWork[t])'
    <2>1. pindexMostWork'[t] = pindexMostWork[t] /\ IsBest(pindexMostWork[t])
      BY <1>6 DEF BestInv
    <2>2. pindexMostWork[t] \in Blocks
      BY <2>1, BaseTypes DEF IsBest
    <2>3. IsBest(pindexMostWork[t])'
      BY <1>4, <2>1, <2>2 DEF IsBest, Valid
    <2> QED  BY <2>3
  <1>7. Quiet' => IsBest(tip)'
    BY <1>4, BaseTypes DEF IsBest
  <1>8. \A c \in candidates' : ~Worse(sequenceId', c, tip')
    BY DEF BestInv
  <1>9. Invalidatable = {} => PreciousInv'
    BY DEF BestInv, PreciousInv, Good
  <1> QED  BY <1>5, <1>6, <1>7, <1>8, <1>9 DEF BestInv

\* The tip of the next state.
LEMMA NextTip ==
    ASSUME BaseInv'
    PROVE  /\ linked' \subseteq Blocks /\ tip' \in Blocks /\ tip' \in linked' \ Failed'
           /\ candidates' \subseteq linked' /\ sequenceId' \in [Blocks -> Int]
           /\ Valid(tip)' /\ Good(tip')
  <1>1. linked' \subseteq Blocks /\ tip' \in linked' /\ candidates' \subseteq linked'
    BY DEF BaseInv, LinkInv, LinkTypes, LinkingComplete, ActivationTypes
  <1>2. Valid(tip)' /\ Good(tip') /\ sequenceId' \in [Blocks -> Int]
    BY DEF BaseInv, ActivationTypes, ValidInv, ActiveChainValid, Active, Valid, Good
  <1>3. tip' \notin Failed'
    BY <1>1, <1>2, Ancestry DEF Valid
  <1> QED  BY <1>1, <1>2, <1>3

\* A command of the only thread starts it on a new target.
LEMMA OnlyThreadStarts ==
    ASSUME OneThread, BaseInv, NEW t \in Threads, StartActivation(t)
    PROVE  (\A s \in Threads : pindexMostWork'[s] = Null) /\ ~Quiet'
  BY DEF OneThread, StartActivation, BaseInv, ActivationTypes, Quiet

\* ... and it was at rest before.
LEMMA OnlyThreadRests ==
    ASSUME OneThread, BestInv, NEW t \in Threads, ~activating[t]
    PROVE  IsBest(tip)
  BY DEF OneThread, Quiet, BestInv

\* A candidate that is not worse than the tip is not worse than its ancestors.
LEMMA NotWorseBelow ==
    ASSUME BaseInv, NEW c \in Blocks, ~Worse(sequenceId, c, tip), NEW a \in Active
    PROVE  ~Worse(sequenceId, c, a)
  <1>1. a \in Blocks /\ (a = tip \/ Worse(sequenceId, a, tip))
    BY BaseTypes, AncestorWorse DEF Active
  <1> QED  BY <1>1, BaseTypes, WorseOrder

\* LoadBlockIndexDB: every valid block as good as the tip becomes a candidate.
LEMMA RestartKeepsBest ==
    ASSUME BaseInv, BaseInv', Restart
    PROVE  BestInv'
  <1>1. /\ candidates' = {c \in linked' \ Failed' : ~Worse(sequenceId', c, tip')}
        /\ sequenceId' = [b \in Blocks |-> 0]
        /\ nBlockReverseSequenceId' = -1 /\ nLastPreciousChainwork' = 0
        /\ \A t \in Threads : pindexMostWork'[t] = Null
        /\ \E t \in Threads : activating'[t]
    BY DEF Restart, PruneBlockIndexCandidates, Failed
  <1>2. tip' \in candidates'
    BY <1>1, NextTip, WorseOrder
  <1>3. \A b \in linked' \ Failed' : b \in candidates' \/ Dominated(b)'
    BY <1>1, <1>2, NextTip DEF Dominated, Good
  <1>4. PreciousInv'
    <2>1. \A b \in linked' : sequenceId'[b] = 0
      BY <1>1, NextTip
    <2>2. Work[tip'] >= 0
      BY NextTip, BlockTree, SMT
    <2> QED  BY <1>1, <2>1, <2>2, NextTip, SMT DEF PreciousInv, Good
  <1> QED  BY <1>1, <1>3, <1>4 DEF BestInv, Quiet

\* invalidateblock: every valid block as good as the new tip becomes a candidate.
LEMMA InvalidateKeepsBest ==
    ASSUME OneThread, BaseInv, BaseInv', BestInv, NEW t \in Threads, NEW b \in Blocks,
           InvalidateBlock(t, b)
    PROVE  BestInv'
  <1>1. PICK walk :
          /\ candidates' = (candidates \ walk) \cup {x \in linked \ Failed' : ~Worse(sequenceId, x, tip')}
          /\ tip' = IF b \in Active THEN Parent[b] ELSE tip
          /\ b \in Invalidatable /\ StartActivation(t) /\ UNCHANGED <<linked, sequenceId>>
    BY DEF InvalidateBlock, received, Failed
  <1>2. b # Genesis /\ tip' \in Active
    BY <1>1, ParameterTypes, BaseTypes, Ancestry DEF Active
  <1>3. tip' \in candidates'
    BY <1>1, NextTip, WorseOrder
  <1>4. \A x \in linked' \ Failed' : x \in candidates' \/ Dominated(x)'
    BY <1>1, <1>3, NextTip DEF Dominated, Good
  <1>5. ASSUME NEW c \in candidates' PROVE ~Worse(sequenceId', c, tip')
    <2>1. CASE c \in candidates
      BY <1>1, <1>2, <2>1, BaseTypes, NotWorseBelow DEF BestInv
    <2> QED  BY <1>1, <1>5, <2>1
  <1>6. (\A s \in Threads : pindexMostWork'[s] = Null) /\ ~Quiet'
    BY <1>1, OnlyThreadStarts
  <1> QED  BY <1>1, <1>4, <1>5, <1>6 DEF BestInv

\* reconsiderblock: a block of the index above the one named was not marked.
LEMMA ResetKeepsBest ==
    ASSUME OneThread, TopReconsidered, BaseInv, BestInv, NEW t \in Threads, NEW b \in Blocks,
           ResetBlockFailureFlags(t, b)
    PROVE  BestInv'
  <1> DEFINE below == {x \in Failed : b \in Ancestors[x]}
  <1>1. /\ b \in Reconsiderable /\ StartActivation(t)
        /\ Failed' = Failed \ (below \cup Ancestors[b])
        /\ candidates' = candidates \cup {x \in below \cap linked : Worse(sequenceId, tip, x)}
        /\ UNCHANGED <<linked, sequenceId, tip, nBlockReverseSequenceId, nLastPreciousChainwork>>
    BY DEF ResetBlockFailureFlags, received, precious, Failed
  <1>2. ASSUME NEW x, Dominated(x) PROVE Dominated(x)'
    BY <1>1, <1>2 DEF Dominated, Valid, Good, Worse
  <1>3. ASSUME NEW x \in linked, x \in Failed, x \in Ancestors[b] PROVE x \in below
    <2>1. x \in Blocks /\ Ancestors[x] \cap BadContext = {}
      BY BaseTypes DEF BaseInv, LinkInv, LinkingComplete, ActivationTypes
    <2>2. PICK f \in Ancestors[x] : f \in failedValid
      BY <1>3, <2>1, Ancestry, SMT DEF BaseInv, FlagInv, Failed
    <2>3. f \in BadConnect \cup Invalidatable
      BY <2>1, <2>2 DEF BaseInv, FlagInv
    <2>4. f = b
      BY <1>1, <1>3, <2>2, <2>3, Ancestry DEF TopReconsidered
    <2> QED  BY <1>3, <2>2, <2>4
  <1>4. ASSUME NEW x \in linked' \ Failed' PROVE x \in candidates' \/ Dominated(x)'
    <2>1. CASE x \notin Failed
      BY <1>1, <1>2, <1>4, <2>1 DEF BestInv
    <2>2. CASE x \in Failed
      <3>1. x \in below \cap linked /\ x \in Blocks /\ x # tip
        BY <1>1, <1>3, <1>4, <2>2, BaseTypes
      <3>2. CASE Worse(sequenceId, tip, x)
        BY <1>1, <3>1, <3>2
      <3>3. CASE Worse(sequenceId, x, tip)
        BY <1>2, <3>1, <3>3, WorseThanTip DEF BestInv
      <3> QED  BY <3>1, <3>2, <3>3, BaseTypes, WorseOrder
    <2> QED  BY <2>1, <2>2
  <1>5. \A c \in candidates' : ~Worse(sequenceId', c, tip')
    BY <1>1, BaseTypes, WorseOrder DEF BestInv
  <1>6. (\A s \in Threads : pindexMostWork'[s] = Null) /\ ~Quiet'
    BY <1>1, OnlyThreadStarts
  <1>7. Invalidatable = {} => PreciousInv'
    BY <1>1 DEF BestInv, PreciousInv, Good
  <1> HIDE DEF below
  <1> QED  BY <1>4, <1>5, <1>6, <1>7 DEF BestInv

\* What ConnectBlock would accept is not marked, when nothing is invalidated by hand.
LEMMA GoodIsValid ==
    ASSUME Invalidatable = {}, BaseInv, NEW x \in linked, Good(x)
    PROVE  Valid(x)
  <1>1. x \in Blocks /\ Ancestors[x] \cap BadContext = {}
    BY BaseTypes DEF BaseInv, LinkInv, LinkingComplete, ActivationTypes
  <1>2. ASSUME NEW f \in Ancestors[x], f \in Failed PROVE FALSE
    BY <1>1, <1>2, Ancestry, SMT DEF BaseInv, ValidInv, Good
  <1> QED  BY <1>2 DEF Valid

\* The sequence id that preciousblock hands out is at most that of the tip, and the
\* next one is smaller than that of every good block.
LEMMA NextPrecious ==
    ASSUME Invalidatable = {}, BaseInv, BestInv, IsBest(tip), NEW counter,
           counter = IF Work[tip] > nLastPreciousChainwork THEN -1 ELSE nBlockReverseSequenceId
    PROVE  /\ counter \in Int /\ counter < 0 /\ counter <= sequenceId[tip]
           /\ NextReverseId(counter) < 0 /\ NextReverseId(counter) <= counter
           /\ \A x \in linked : Good(x) => Work[x] <= Work[tip]
           /\ \A x \in linked : Good(x) /\ Work[x] >= Work[tip] => sequenceId[x] >= NextReverseId(counter)
  <1>1. /\ \A x \in linked : Work[x] \in Nat /\ sequenceId[x] \in Int
        /\ tip \in linked /\ Good(tip)
        /\ nBlockReverseSequenceId \in Int /\ nLastPreciousChainwork \in Nat
    BY BaseTypes, BlockTree DEF BaseInv, ActivationTypes
  <1>2. /\ nBlockReverseSequenceId < 0
        /\ \A x \in linked : Good(x) =>
              /\ sequenceId[x] < 0 => Work[x] <= nLastPreciousChainwork
              /\ Work[x] >= nLastPreciousChainwork => sequenceId[x] >= nBlockReverseSequenceId
        /\ \E x \in linked : Good(x) /\ Work[x] >= nLastPreciousChainwork
    BY DEF BestInv, PreciousInv
  <1>3. ASSUME NEW x \in linked, Good(x) PROVE Work[x] <= Work[tip]
    <2>1. ~Worse(sequenceId, tip, x)
      BY <1>3, GoodIsValid, NothingBetter
    <2> QED  BY <1>1, <1>3, <2>1, SMT DEF Worse
  <1>4. counter \in Int /\ counter < 0
    BY <1>1, <1>2, SMT
  <1>5. NextReverseId(counter) \in Int /\ NextReverseId(counter) < 0 /\ NextReverseId(counter) <= counter
    BY <1>4, ParameterTypes, SMT DEF NextReverseId
  <1>6. ASSUME NEW x \in linked, Good(x), Work[x] >= Work[tip] PROVE sequenceId[x] >= counter
    <2>1. CASE Work[tip] > nLastPreciousChainwork
      BY <1>1, <1>2, <1>6, <2>1, SMT
    <2>2. CASE ~(Work[tip] > nLastPreciousChainwork)
      <3>1. PICK g \in linked : Good(g) /\ Work[g] >= nLastPreciousChainwork
        BY <1>2
      <3>2. Work[g] <= Work[tip] /\ Work[x] <= Work[tip]
        BY <1>3, <1>6, <3>1
      <3>3. Work[x] >= nLastPreciousChainwork
        BY <1>1, <1>6, <3>1, <3>2, SMT
      <3> QED  BY <1>1, <1>2, <1>6, <2>2, <3>3
    <2> QED  BY <2>1, <2>2
  <1>7. counter <= sequenceId[tip]
    BY <1>1, <1>4, <1>6, SMT
  <1>8. ASSUME NEW x \in linked, Good(x), Work[x] >= Work[tip] PROVE sequenceId[x] >= NextReverseId(counter)
    BY <1>1, <1>4, <1>5, <1>6, <1>8, SMT
  <1> QED  BY <1>3, <1>4, <1>5, <1>7, <1>8

\* Lowering the sequence id of one block only moves that block, and upwards.
LEMMA LoweringMovesOne ==
    ASSUME NEW seq \in [Blocks -> Int], NEW b \in Blocks, NEW n \in Int, NEW x \in Blocks, NEW y \in Blocks,
           x # b, y = b => n <= seq[b]
    PROVE  /\ Worse(seq, x, y) => Worse([seq EXCEPT ![b] = n], x, y)
           /\ y # b => (Worse(seq, x, y) <=> Worse([seq EXCEPT ![b] = n], x, y))
  <1>1. seq[x] \in Int /\ seq[y] \in Int /\ Work[x] \in Nat /\ Work[y] \in Nat
        /\ Address[x] \in Nat /\ Address[y] \in Nat
    BY BlockTree
  <1>2. [seq EXCEPT ![b] = n][x] = seq[x] /\ [seq EXCEPT ![b] = n][y] = IF y = b THEN n ELSE seq[y]
    OBVIOUS
  <1>3. CASE y # b
    BY <1>2, <1>3 DEF Worse
  <1>4. CASE y = b
    BY <1>1, <1>2, <1>4, SMT DEF Worse
  <1> QED  BY <1>3, <1>4

\* preciousblock.
LEMMA PreciousKeepsBest ==
    ASSUME OneThread, Invalidatable = {}, BaseInv, BaseInv', BestInv, NEW t \in Threads, NEW b \in Blocks,
           PreciousBlock(t, b)
    PROVE  BestInv'
  <1> DEFINE counter == IF Work[tip] > nLastPreciousChainwork THEN -1 ELSE nBlockReverseSequenceId
  <1>1. /\ ~activating[t] /\ StartActivation(t)
        /\ sequenceId' = [sequenceId EXCEPT ![b] = counter]
        /\ nBlockReverseSequenceId' = NextReverseId(counter) /\ nLastPreciousChainwork' = Work[tip]
        /\ candidates' = IF b \in linked \ Failed
                         THEN {c \in candidates \cup {b} : ~Worse(sequenceId', c, tip)}
                         ELSE candidates \ {b}
        /\ UNCHANGED <<linked, failedValid, failedChild, tip>>
    BY DEF PreciousBlock, received, failure, PruneBlockIndexCandidates
  <1>2. IsBest(tip) /\ tip \in candidates
    BY <1>1, OnlyThreadRests DEF IsBest
  <1>3. /\ counter \in Int /\ counter < 0 /\ counter <= sequenceId[tip]
        /\ NextReverseId(counter) < 0 /\ NextReverseId(counter) <= counter
        /\ \A x \in linked : Good(x) => Work[x] <= Work[tip]
        /\ \A x \in linked : Good(x) /\ Work[x] >= Work[tip] => sequenceId[x] >= NextReverseId(counter)
    BY <1>2, NextPrecious
  <1> HIDE DEF counter
  <1>4. ASSUME NEW x \in Blocks, x # b PROVE sequenceId'[x] = sequenceId[x]
    BY <1>1, <1>4, BaseTypes
  <1>5. sequenceId'[b] = counter
    BY <1>1, BaseTypes
  <1>7. tip \in candidates' /\ tip \in Blocks /\ tip \in linked
    <2>1. tip \in Blocks /\ tip \in linked \ Failed
      BY BaseTypes
    <2>2. ~Worse(sequenceId', tip, tip)
      BY <2>1, BaseTypes, NextTip, WorseOrder
    <2> QED  BY <1>1, <1>2, <2>1, <2>2
  <1>8. ASSUME NEW x \in Blocks, x # b, Worse(sequenceId, x, tip) PROVE Worse(sequenceId', x, tip)
    BY <1>1, <1>3, <1>7, <1>8, BaseTypes, LoweringMovesOne
  <1>9. ASSUME NEW x, Worse(sequenceId', x, tip) PROVE Dominated(x)'
    BY <1>1, <1>7, <1>9, NextTip DEF Dominated, Good
  <1>10. ASSUME NEW x \in linked' \ Failed' PROVE x \in candidates' \/ Dominated(x)'
    <2>1. x \in linked \ Failed /\ x \in Blocks
      BY <1>1, <1>10, BaseTypes DEF Failed
    <2>2. CASE b \in linked \ Failed /\ x \in candidates \cup {b}
      BY <1>1, <1>9, <2>2
    <2>3. CASE x \notin candidates /\ x # b
      BY <1>2, <1>8, <1>9, <2>1, <2>3, NotCandidate
    <2>4. CASE b \notin linked \ Failed /\ x \in candidates
      BY <1>1, <2>1, <2>4
    <2> QED  BY <2>1, <2>2, <2>3, <2>4
  <1>11. ASSUME NEW c \in candidates' PROVE ~Worse(sequenceId', c, tip')
    <2>1. CASE b \in linked \ Failed
      BY <1>1, <1>11, <2>1
    <2>2. CASE b \notin linked \ Failed
      <3>1. c \in candidates /\ c # b /\ tip # b /\ c \in Blocks
        BY <1>1, <1>11, <2>2, BaseTypes
      <3>2. ~Worse(sequenceId, c, tip)
        BY <3>1 DEF BestInv
      <3> QED  BY <1>1, <1>3, <1>7, <3>1, <3>2, BaseTypes, LoweringMovesOne
    <2> QED  BY <2>1, <2>2
  <1>12. (\A s \in Threads : pindexMostWork'[s] = Null) /\ ~Quiet'
    BY <1>1, OnlyThreadStarts
  <1>13. PreciousInv'
    <2>1. ASSUME NEW x \in linked, Good(x), Work[x] >= Work[tip]
          PROVE  sequenceId'[x] >= NextReverseId(counter)
      <3>1. CASE x = b
        BY <1>3, <1>5, <3>1
      <3>2. CASE x # b
        BY <1>3, <1>4, <2>1, <3>2, BaseTypes
      <3> QED  BY <3>1, <3>2
    <2>2. Good(tip) /\ Work[tip] \in Nat
      BY <1>7, BaseTypes, BlockTree
    <2> QED  BY <1>1, <1>3, <1>7, <2>1, <2>2 DEF PreciousInv, Good
  <1> QED  BY <1>10, <1>11, <1>12, <1>13 DEF BestInv

\* A block arrives: those it links are candidates, or worse than the tip.
LEMMA StoreKeepsBest ==
    ASSUME OneThread, BaseInv, BaseInv', BestInv, NEW t \in Threads, NEW b \in Blocks, NEW r \in BOOLEAN,
           StoreBlock(t, b, r)
    PROVE  BestInv'
  <1>1. /\ ~activating[t] /\ StartActivation(t) /\ b \notin data
        /\ IF Parent[b] \in linked THEN LinkBlock(b) ELSE ParkBlock(b)
        /\ UNCHANGED <<failedValid, failedChild, tip, nBlockReverseSequenceId, nLastPreciousChainwork>>
    BY DEF StoreBlock, NotWanted, failure, precious
  <1>2. IsBest(tip) /\ tip \in candidates /\ (\A s \in Threads : pindexMostWork'[s] = Null) /\ ~Quiet'
    BY <1>1, OnlyThreadRests, OnlyThreadStarts DEF IsBest
  <1>3. CASE Parent[b] \in linked
    <2>1. /\ \A x \in linked : sequenceId'[x] = sequenceId[x]
          /\ \A x \in linked' \ linked : sequenceId'[x] >= 0
          /\ linked' = linked \cup NowLinked(b) /\ NowLinked(b) \cap linked = {}
          /\ candidates' = candidates \cup {x \in NowLinked(b) : ~Worse(sequenceId', x, tip)}
      BY <1>1, <1>3, LinkBlockIds DEF BaseInv
    <2>2. ASSUME NEW x \in linked, NEW y \in linked
          PROVE  Worse(sequenceId', x, y) <=> Worse(sequenceId, x, y)
      BY <2>1, <2>2 DEF Worse
    <2>3. \A c \in candidates' : ~Worse(sequenceId', c, tip')
      BY <1>1, <2>1, <2>2, BaseTypes DEF BestInv
    <2>4. ASSUME NEW x \in linked' \ Failed' PROVE x \in candidates' \/ Dominated(x)'
      <3>1. CASE x \in linked
        <4>1. x \in candidates \/ Dominated(x)
          BY <1>1, <2>4, <3>1 DEF BestInv, Failed
        <4>2. ASSUME NEW c \in candidates, Valid(c), Good(c), Worse(sequenceId, x, c) PROVE Dominated(x)'
          BY <1>1, <2>1, <2>2, <3>1, <4>2, BaseTypes DEF Dominated, Valid, Failed, Good
        <4> QED  BY <2>1, <4>1, <4>2 DEF Dominated
      <3>2. CASE x \notin linked
        <4>1. CASE Worse(sequenceId', x, tip)
          BY <1>1, <1>2, <2>1, <4>1, NextTip DEF Dominated, Good
        <4> QED  BY <2>1, <2>4, <3>2, <4>1
      <3> QED  BY <3>1, <3>2
    <2>5. Invalidatable = {} => PreciousInv'
      <3> SUFFICES ASSUME Invalidatable = {} PROVE PreciousInv'
        OBVIOUS
      <3>1. \A x \in linked' : sequenceId'[x] \in Int
        BY NextTip
      <3>2. nBlockReverseSequenceId \in Int
        BY DEF BaseInv, ActivationTypes
      <3> QED  BY <1>1, <2>1, <3>1, <3>2, SMT DEF BestInv, PreciousInv, Good
    <2> QED  BY <1>2, <2>3, <2>4, <2>5 DEF BestInv
  <1>4. CASE Parent[b] \notin linked
    <2>1. UNCHANGED <<linked, sequenceId, candidates>>
      BY <1>1, <1>4 DEF ParkBlock
    <2>2. ASSUME NEW x, Dominated(x) PROVE Dominated(x)'
      BY <1>1, <2>1, <2>2 DEF Dominated, Valid, Failed, Good
    <2>3. Invalidatable = {} => PreciousInv'
      BY <1>1, <2>1 DEF BestInv, PreciousInv, Good
    <2> QED  BY <1>1, <1>2, <2>1, <2>2, <2>3 DEF BestInv, Failed
  <1> QED  BY <1>3, <1>4

\* A block without data fails: no linked block descends from it.
LEMMA RejectKeepsBest ==
    ASSUME BaseInv, BestInv, NEW t \in Threads, NEW b \in Blocks, NEW r \in BOOLEAN,
           RejectBlock(t, b, r)
    PROVE  BestInv'
  <1>1. /\ b \notin data /\ Failed' = Failed \cup {b}
        /\ UNCHANGED <<tip, linked, candidates, sequenceId, nBlockReverseSequenceId, nLastPreciousChainwork,
                       activating, pindexMostWork>>
    BY DEF RejectBlock, NotWanted, precious, threads, Failed
  <1>2. ASSUME NEW x \in linked PROVE Valid(x)' <=> Valid(x)
    BY <1>1, <1>2 DEF BaseInv, LinkInv, LinkingComplete, Valid
  <1>3. ASSUME NEW m \in linked, IsBest(m) PROVE IsBest(m)'
    BY <1>1, <1>2, <1>3, BaseTypes DEF IsBest
  <1>4. ASSUME NEW x, Dominated(x) PROVE Dominated(x)'
    BY <1>1, <1>2, <1>4, BaseTypes DEF Dominated, Good
  <1>5. ASSUME NEW s \in Threads, pindexMostWork'[s] # Null PROVE IsBest(pindexMostWork[s])'
    <2>1. IsBest(pindexMostWork[s]) /\ pindexMostWork[s] \in linked
      BY <1>1, <1>5, BaseTypes DEF BestInv, IsBest
    <2> QED  BY <1>1, <1>3, <2>1 DEF IsBest, Valid
  <1>6. Quiet' => IsBest(tip)'
    <2>1. Quiet' => IsBest(tip) /\ tip \in linked
      BY <1>1, BaseTypes DEF BestInv, Quiet
    <2> QED  BY <1>1, <1>3, <2>1 DEF IsBest, Valid
  <1>7. Invalidatable = {} => PreciousInv'
    BY <1>1 DEF BestInv, PreciousInv, Good
  <1>8. \A c \in candidates' : ~Worse(sequenceId', c, tip')
    BY <1>1 DEF BestInv
  <1>9. \A x \in linked' \ Failed' : x \in candidates' \/ Dominated(x)'
    BY <1>1, <1>4 DEF BestInv
  <1> QED  BY <1>5, <1>6, <1>7, <1>8, <1>9 DEF BestInv

\* With one thread, the target of an iteration is the best candidate: a target kept
\* from an earlier iteration is not stale.
LEMMA TargetIsBest ==
    ASSUME OneThread, BaseInv, BestInv, NEW t \in Threads, NEW m \in linked \cup {Null}, Target(t, m)
    PROVE  m # Null /\ IsBest(m)
  <1>1. ASSUME NEW c \in candidates PROVE Usable(c) <=> Valid(c)
    BY DEF BaseInv, ValidInv, ActiveChainValid, Usable, Valid
  <1>2. CASE pindexMostWork[t] # Null
    BY <1>2 DEF Target, BestInv
  <1>3. CASE pindexMostWork[t] = Null
    <2>1. \E c \in candidates : Valid(c)
      BY BaseTypes DEF BestInv, Dominated
    <2>2. m # Null
      BY <1>1, <1>3, <2>1 DEF Target
    <2> QED  BY <1>1, <1>3, <2>2 DEF Target, IsBest
  <1> QED  BY <1>2, <1>3

\* The tip moves towards the best candidate.
LEMMA MoveKeepsBest ==
    ASSUME BaseInv, BaseInv', BestInv, NEW t \in Threads, NEW m \in linked, NEW gone \in SUBSET Blocks,
           NEW last \in Blocks, NEW new \in Blocks, IsBest(m), Rejects(gone), Moves(t, m, gone, last, new),
           UNCHANGED <<linked, sequenceId, nBlockReverseSequenceId, nLastPreciousChainwork>>, OneThread
    PROVE  BestInv'
  <1>1. /\ m \in Blocks /\ tip' = new /\ new \in Ancestors[m] /\ last \in Ancestors[m] /\ Valid(m)
        /\ Failed' = Failed \cup gone \cup ({last} \cap BadConnect)
        /\ candidates' = (IF Ancestors[new] \subseteq Active THEN candidates \ gone
                          ELSE {c \in candidates \ gone : ~Worse(sequenceId, c, new)})
                         \ ({last} \cap BadConnect)
        /\ activating' = [activating EXCEPT ![t] = new # m]
        /\ pindexMostWork' = [pindexMostWork EXCEPT ![t] = IF last \in BadConnect \/ new = m THEN Null ELSE m]
    BY BaseTypes DEF Moves, Rejects, IsBest, Failed, PruneBlockIndexCandidates
  <1>2. ASSUME NEW x \in Blocks, Valid(x) PROVE x \notin gone
    BY <1>2 DEF Rejects
  <1>3. ASSUME NEW c \in candidates, c \notin gone, c \notin {last} \cap BadConnect, ~Worse(sequenceId, c, new)
        PROVE  c \in candidates'
    BY <1>1, <1>3
  <1>4. ASSUME NEW c \in candidates' PROVE c \in candidates /\ c \in Blocks /\ ~Worse(sequenceId, c, new)
    <2>1. c \in candidates /\ c \in Blocks
      BY <1>1, <1>4, BaseTypes
    <2>2. CASE Ancestors[new] \subseteq Active
      <3>1. new \in Active /\ ~Worse(sequenceId, c, tip)
        BY <2>1, <2>2, Ancestry DEF BestInv
      <3> QED  BY <2>1, <3>1, NotWorseBelow
    <2>3. CASE ~(Ancestors[new] \subseteq Active)
      BY <1>1, <1>4, <2>1, <2>3
    <2> QED  BY <2>1, <2>2, <2>3
  <1>5. ASSUME NEW c \in Blocks, Valid(c), Good(c)
        PROVE  Valid(c)' /\ c \notin gone /\ c \notin {last} \cap BadConnect
    <2>1. \A y \in Ancestors[c] : y \notin gone
      <3> SUFFICES ASSUME NEW y \in Ancestors[c] PROVE Valid(y) /\ y \in Blocks
        BY <1>2
      <3> QED  BY <1>5, Ancestry DEF Valid
    <2>2. Ancestors[c] \cap BadConnect = {} /\ c \in Ancestors[c]
      BY <1>5, Ancestry DEF Good
    <2> QED  BY <1>1, <1>5, <2>1, <2>2 DEF Valid
  <1>6. ASSUME NEW b \in Blocks, Worse(sequenceId, b, new) PROVE Dominated(b)'
    <2>1. Valid(new) /\ Good(new) /\ new \in linked \ Failed
      BY <1>1, NextTip DEF Valid
    <2>2. CASE new \in candidates
      <3>1. ~Worse(sequenceId, new, new)
        BY BaseTypes, WorseOrder
      <3>2. new \in candidates' /\ Valid(new)'
        BY <1>3, <1>5, <2>1, <2>2, <3>1
      <3> QED  BY <1>6, <2>1, <3>2 DEF Dominated, Good, Worse
    <2>3. CASE Dominated(new)
      <3>1. PICK c \in candidates : Valid(c) /\ Good(c) /\ Worse(sequenceId, new, c)
        BY <2>3 DEF Dominated
      <3>2. c \in Blocks /\ ~Worse(sequenceId, c, new) /\ Worse(sequenceId, b, c)
        BY <1>6, <3>1, BaseTypes, WorseOrder
      <3>3. c \in candidates' /\ Valid(c)'
        BY <1>3, <1>5, <3>1, <3>2
      <3> QED  BY <3>1, <3>2, <3>3 DEF Dominated, Good, Worse
    <2> QED  BY <2>1, <2>2, <2>3 DEF BestInv
  <1>7. ASSUME NEW b \in linked' \ Failed' PROVE b \in candidates' \/ Dominated(b)'
    <2>1. b \in linked \ Failed /\ b \in Blocks /\ b \notin gone /\ b \notin {last} \cap BadConnect
      BY <1>1, <1>7, BaseTypes
    <2>2. CASE Worse(sequenceId, b, new)
      BY <1>6, <2>1, <2>2
    <2>3. CASE ~Worse(sequenceId, b, new) /\ b \in candidates
      BY <1>3, <2>1, <2>3
    <2>4. CASE ~Worse(sequenceId, b, new) /\ Dominated(b)
      <3>1. PICK c \in candidates : Valid(c) /\ Good(c) /\ Worse(sequenceId, b, c)
        BY <2>4 DEF Dominated
      <3>2. c \in Blocks /\ ~Worse(sequenceId, c, new)
        BY <2>1, <2>4, <3>1, BaseTypes, WorseOrder
      <3>3. c \in candidates' /\ Valid(c)'
        BY <1>3, <1>5, <3>1, <3>2
      <3> QED  BY <3>1, <3>3 DEF Dominated, Good, Worse
    <2> QED  BY <2>1, <2>2, <2>3, <2>4 DEF BestInv
  <1>8. ASSUME last \notin BadConnect
        PROVE  /\ m \in candidates' /\ Ancestors[m] \cap Failed' = {}
               /\ \A c \in candidates' : Ancestors[c] \cap Failed' = {} => ~Worse(sequenceId', m, c)
    <2>1. \A y \in Ancestors[m] : y \notin gone
      <3> SUFFICES ASSUME NEW y \in Ancestors[m] PROVE Valid(y) /\ y \in Blocks
        BY <1>2
      <3> QED  BY <1>1, Ancestry DEF Valid
    <2>2. Ancestors[m] \cap Failed' = {} /\ m \notin gone
      BY <1>1, <1>8, <2>1, Ancestry, SMT DEF Valid
    <2>3. ~Worse(sequenceId, m, new)
      BY <1>1, AncestorWorse, BaseTypes, WorseOrder, SMT
    <2>4. m \in candidates'
      BY <1>3, <1>8, <2>2, <2>3 DEF IsBest
    <2>5. ASSUME NEW c \in candidates', Ancestors[c] \cap Failed' = {} PROVE ~Worse(sequenceId', m, c)
      BY <1>1, <1>4, <2>5 DEF IsBest, Valid
    <2> QED  BY <2>2, <2>4, <2>5
  <1>9. ASSUME NEW s \in Threads, pindexMostWork'[s] # Null PROVE IsBest(pindexMostWork[s])'
    <2>1. s = t
      BY DEF OneThread
    <2>2. pindexMostWork'[s] = m /\ last \notin BadConnect
      BY <1>1, <1>9, <2>1 DEF BaseInv, ActivationTypes
    <2> QED  BY <1>8, <2>2 DEF IsBest, Valid
  <1>10. Quiet' => IsBest(tip)'
    <2> SUFFICES ASSUME Quiet' PROVE IsBest(tip)'
      OBVIOUS
    <2>1. new = m
      BY <1>1 DEF Quiet, BaseInv, ActivationTypes
    <2>2. last \notin BadConnect
      BY <1>1, <2>1 DEF Moves
    <2> QED  BY <1>1, <1>8, <2>1, <2>2 DEF IsBest, Valid
  <1>11. Invalidatable = {} => PreciousInv'
    BY DEF BestInv, PreciousInv, Good
  <1> QED  BY <1>1, <1>4, <1>7, <1>9, <1>10, <1>11 DEF BestInv

\* Any step.
LEMMA StepKeepsBest ==
    ASSUME BestPremise, BaseInv, BaseInv', BestInv, [Next]_vars
    PROVE  BestInv'
  <1>0. OneThread /\ TopReconsidered /\ Damaged = {}
    BY DEF BestPremise
  <1>1. ASSUME UNCHANGED <<failedValid, failedChild, candidates, tip, linked, sequenceId,
                           nBlockReverseSequenceId, nLastPreciousChainwork>>,
               \A t \in Threads : pindexMostWork'[t] \in {Null, pindexMostWork[t]},
               Quiet' => Quiet
        PROVE  BestInv'
    <2>1. /\ {} \in SUBSET Blocks /\ (\A y \in {} : ~Valid(y))
          /\ Failed \subseteq Failed' /\ Failed' \subseteq Failed \cup {}
          /\ candidates \ ({} \cap Failed') \subseteq candidates'
          /\ Quiet' => IsBest(tip)
      BY <1>1 DEF Failed, BestInv
    <2> QED  BY <1>1, <2>1, FailingMoreKeepsBest
  <1>2. CASE UNCHANGED vars
    <2>1. UNCHANGED <<failedValid, failedChild, candidates, tip, linked, sequenceId,
                      nBlockReverseSequenceId, nLastPreciousChainwork, activating, pindexMostWork>>
      BY <1>2 DEF vars, received, failure, precious, threads
    <2> QED  BY <1>1, <2>1 DEF Quiet
  <1>3. ASSUME NEW b \in Blocks, AcceptHeader(b) PROVE BestInv'
    BY <1>1, <1>3 DEF AcceptHeader, failure, precious, threads, Quiet
  <1>4. ASSUME NEW t \in Threads, StartActivation(t),
               UNCHANGED <<failedValid, failedChild, candidates, tip, linked, sequenceId,
                           nBlockReverseSequenceId, nLastPreciousChainwork>>
        PROVE  BestInv'
    BY <1>0, <1>1, <1>4, OnlyThreadStarts
  <1>5. ASSUME NEW t \in Threads, NEW b \in Blocks, NEW r \in BOOLEAN, IgnoreBlock(t, b, r) PROVE BestInv'
    BY <1>4, <1>5 DEF IgnoreBlock, failure, precious
  <1>6. ASSUME NEW t \in Threads, CallActivateBestChain(t) PROVE BestInv'
    BY <1>4, <1>6 DEF CallActivateBestChain, received, failure, precious
  <1>7. ASSUME NEW b \in Blocks, RefuseHeader(b) PROVE BestInv'
    <2>1. PICK walk \in SUBSET (Blocks \ {Genesis}) :
            /\ failedChild' = failedChild \cup walk
            /\ \E f \in failedValid \cap failedBlocks : \A x \in walk : f \in Ancestors[x]
      BY <1>7, WalkAbove DEF BaseInv, ActivationTypes
    <2>2. \A x \in walk : ~Valid(x)
      BY <2>1 DEF Valid, Failed
    <2>3. /\ UNCHANGED <<candidates, tip, linked, sequenceId, nBlockReverseSequenceId, nLastPreciousChainwork,
                         activating, pindexMostWork>>
          /\ Failed \subseteq Failed' /\ Failed' \subseteq Failed \cup walk
      BY <1>7, <2>1 DEF RefuseHeader, received, precious, threads, Failed
    <2>4. Quiet' => IsBest(tip)
      BY <2>3 DEF Quiet, BestInv
    <2>5. \A t \in Threads : pindexMostWork'[t] \in {Null, pindexMostWork[t]}
      BY <2>3
    <2> QED  BY <2>2, <2>3, <2>4, <2>5, FailingMoreKeepsBest
  <1>8. ASSUME NEW t \in Threads, ActivateBestChain(t) PROVE BestInv'
    <2>1. PICK m \in linked \cup {Null}, gone \in SUBSET Blocks :
            /\ Target(t, m) /\ Rejects(gone)
            /\ \/ Stays(t, m, gone)
               \/ \E last, new \in Blocks : Moves(t, m, gone, last, new)
               \/ \E new \in Blocks : Breaks(t, m, gone, new)
      BY <1>8, Iteration DEF BaseInv
    <2>2. m # Null /\ m \in linked /\ IsBest(m)
      BY <1>0, <2>1, TargetIsBest
    <2>3. UNCHANGED <<linked, sequenceId, nBlockReverseSequenceId, nLastPreciousChainwork>>
      BY <1>8 DEF ActivateBestChain, received, precious
    <2>4. CASE Stays(t, m, gone)
      <3>1. /\ Failed \subseteq Failed' /\ Failed' \subseteq Failed \cup gone /\ gone \subseteq Failed'
            /\ candidates' = candidates \ gone /\ tip' = tip /\ m = tip
        BY <2>1, <2>2, <2>4 DEF Stays, Rejects, Failed
      <3>2. \A s \in Threads : pindexMostWork'[s] \in {Null, pindexMostWork[s]}
        BY <2>4 DEF Stays, BaseInv, ActivationTypes
      <3>3. \A y \in gone : ~Valid(y)
        BY <2>1 DEF Rejects
      <3> QED  BY <2>2, <2>3, <3>1, <3>2, <3>3, FailingMoreKeepsBest
    <2>5. ASSUME NEW new \in Blocks PROVE ~Breaks(t, m, gone, new)
      BY <1>0 DEF Breaks
    <2> QED  BY <1>0, <2>1, <2>2, <2>3, <2>4, <2>5, MoveKeepsBest
  <1>9. ASSUME NEW t \in Threads, NEW b \in Blocks, PreciousBlock(t, b) PROVE BestInv'
    <2>1. Invalidatable = {}
      BY <1>9 DEF PreciousBlock, BestPremise
    <2> QED  BY <1>0, <1>9, <2>1, PreciousKeepsBest
  <1> QED
    BY <1>0, <1>2, <1>3, <1>5, <1>6, <1>7, <1>8, <1>9, RejectKeepsBest, StoreKeepsBest, InvalidateKeepsBest,
       ResetKeepsBest, RestartKeepsBest DEF Next

\* Genesis alone.
LEMMA BestInitially == Init => BaseInv /\ BestInv
  <1> SUFFICES ASSUME Init PROVE BaseInv /\ BestInv
    OBVIOUS
  <1>1. BaseInv
    BY ValidInitially DEF BaseInv, Init, FlagInv
  <1>2. /\ tip = Genesis /\ candidates = {Genesis} /\ linked = {Genesis} /\ sequenceId[Genesis] = 1
        /\ nBlockReverseSequenceId = -1 /\ nLastPreciousChainwork = 0
        /\ \A t \in Threads : pindexMostWork[t] = Null
    BY BlockTree DEF Init
  <1>3. ~Worse(sequenceId, Genesis, Genesis)
    BY <1>1, <1>2, BaseTypes, WorseOrder
  <1>4. PreciousInv
    BY <1>1, <1>2, BaseTypes, BlockTree, SMT DEF PreciousInv
  <1> QED  BY <1>1, <1>2, <1>3, <1>4, BaseTypes DEF BestInv, IsBest

\* The invariants hold throughout.
LEMMA AlwaysBest == BestPremise => (Spec => [](BaseInv /\ BestInv))
  <1> SUFFICES ASSUME BestPremise PROVE Spec => [](BaseInv /\ BestInv)
    OBVIOUS
  <1>1. BaseInv /\ BestInv /\ [Next]_vars => (BaseInv /\ BestInv)'
    <2> SUFFICES ASSUME BaseInv, BestInv, [Next]_vars PROVE BaseInv' /\ BestInv'
      OBVIOUS
    <2>1. BaseInv'
      BY StepKeepsTypes, StepKeepsValid, StepKeepsFlags DEF BestPremise, Premise, BaseInv
    <2> QED  BY <2>1, StepKeepsBest
  <1> QED  BY <1>1, BestInitially, PTL DEF Spec

\* When no call of ActivateBestChain is under way the tip is the best block there is:
\* no block with all its data and no failed ancestor beats it, whatever was received,
\* found invalid, invalidated, reconsidered or made precious before.
THEOREM AlwaysSettledOnBest == BestPremise => (Spec => []SettledOnBest)
  <1>1. BaseInv /\ BestInv => SettledOnBest
    <2> SUFFICES ASSUME BaseInv, BestInv, Quiet, NEW b \in linked, Valid(b) PROVE ~Worse(sequenceId, tip, b)
      BY DEF SettledOnBest, Valid
    <2> QED  BY NothingBetter DEF BestInv
  <1> QED  BY <1>1, AlwaysBest, PTL

\* setBlockIndexCandidates never holds a block that is worse than the tip, and between
\* calls it holds every valid block that is not (CheckBlockIndex 5555-5570).
THEOREM CandidatesAlwaysComplete == BestPremise => (Spec => []CandidatesComplete)
  <1>1. BaseInv /\ BestInv => CandidatesComplete
    <2> SUFFICES ASSUME BaseInv, BestInv, Quiet, NEW b \in linked, ~Worse(sequenceId, b, tip),
                        Ancestors[b] \cap failedValid = {}
                 PROVE  b \in candidates
      BY DEF CandidatesComplete, BestInv
    <2>1. b \in Blocks /\ Ancestors[b] \cap BadContext = {}
      BY BaseTypes DEF BaseInv, LinkInv, LinkingComplete, ActivationTypes
    <2>2. b \notin failedChild
      BY <2>1 DEF BaseInv, FlagInv
    <2>3. b \notin Failed
      BY <2>1, <2>2, Ancestry DEF Failed
    <2> QED  BY <2>3, NotCandidate DEF BestInv
  <1> QED  BY <1>1, AlwaysBest, PTL

\* The tip is given up only for a better block, unless that very step finds or declares
\* a block invalid.
THEOREM TipAlwaysImproves == BestPremise => (Spec => TipOnlyImproves)
  <1> SUFFICES ASSUME BestPremise PROVE Spec => TipOnlyImproves
    OBVIOUS
  <1>1. BaseInv /\ BestInv /\ [Next]_vars
          => [tip' # tip => failedValid' # failedValid \/ Worse(sequenceId, tip, tip')]_vars
    <2> SUFFICES ASSUME BaseInv, BestInv, Next, tip' # tip, failedValid' = failedValid
                 PROVE  Worse(sequenceId, tip, tip')
      BY DEF vars
    <2>1. ASSUME NEW t \in Threads, ActivateBestChain(t) PROVE Worse(sequenceId, tip, tip')
      <3>1. PICK m \in linked \cup {Null}, gone \in SUBSET Blocks :
              /\ Target(t, m) /\ Rejects(gone)
              /\ \/ Stays(t, m, gone)
                 \/ \E last, new \in Blocks : Moves(t, m, gone, last, new)
                 \/ \E new \in Blocks : Breaks(t, m, gone, new)
        BY <2>1, Iteration DEF BaseInv
      <3>2. m \in linked /\ m \in Blocks /\ IsBest(m)
        BY <3>1, TargetIsBest, BaseTypes DEF BestPremise, IsBest
      <3>3. PICK last \in Blocks, new \in Blocks : Moves(t, m, gone, last, new)
        BY <3>1 DEF Stays, Breaks, BestPremise
      <3>4. last \notin failedValid
        BY <3>2, <3>3 DEF Moves, IsBest, Valid, Failed
      <3>5. last \notin BadConnect
        BY <3>3, <3>4 DEF Moves
      <3>6. CASE new = m
        <4>1. ~Worse(sequenceId, m, tip) /\ m # tip /\ tip' = m
          BY <3>2, <3>3, <3>6 DEF BestInv, IsBest, Moves
        <4> QED  BY <3>2, <4>1, BaseTypes, WorseOrder
      <3>7. CASE new # m
        BY <3>3, <3>5, <3>7 DEF Moves, Worse
      <3> QED  BY <3>6, <3>7
    <2>2. ASSUME NEW t \in Threads, NEW b \in Blocks, InvalidateBlock(t, b) PROVE FALSE
      <3>1. b \in Active /\ b \in failedValid
        BY <2>2 DEF InvalidateBlock
      <3> QED  BY <3>1 DEF BaseInv, ValidInv, ActiveChainValid, Failed
    <2>3. ASSUME NEW t \in Threads, NEW b \in Blocks, NEW r \in BOOLEAN
          PROVE  ~IgnoreBlock(t, b, r) /\ ~RejectBlock(t, b, r) /\ ~StoreBlock(t, b, r)
      BY DEF IgnoreBlock, RejectBlock, StoreBlock
    <2>4. ASSUME NEW b \in Blocks
          PROVE  /\ ~RefuseHeader(b) /\ ~AcceptHeader(b)
                 /\ \A t \in Threads : ~PreciousBlock(t, b) /\ ~ResetBlockFailureFlags(t, b)
      BY DEF RefuseHeader, AcceptHeader, PreciousBlock, ResetBlockFailureFlags
    <2>5. ~Restart /\ \A t \in Threads : ~CallActivateBestChain(t)
      BY DEF Restart, CallActivateBestChain
    <2>6. Damaged = {}
      BY DEF BestPremise
    <2> QED  BY <2>1, <2>2, <2>3, <2>4, <2>5, <2>6 DEF Next
  <1> QED  BY <1>1, AlwaysBest, PTL DEF Spec, TipOnlyImproves
=============================================================================
