-------------------------- MODULE ChainActivation --------------------------
(***************************************************************************)
(* The block index of src/validation.cpp and the choice of the active      *)
(* chain: which headers and blocks are known, which of them failed, which  *)
(* are candidates for the tip, and how ActivateBestChain moves the tip.    *)
(*                                                                         *)
(* An action is what one thread does while it holds cs_main.  Activating   *)
(* the best chain takes several such regions: ActivateBestChain keeps its  *)
(* target pindexMostWork across them, while other threads run theirs.      *)
(*                                                                         *)
(* Nothing is pruned here: HAVE_DATA, nTx > 0 and VALID_TRANSACTIONS are   *)
(* one set, data.  The coins a block moves are in module CoinsCache.       *)
(***************************************************************************)
EXTENDS Integers, FiniteSets

CONSTANTS Blocks,            \* every block that may ever be received
          Genesis,
          Parent,            \* pprev of every block but Genesis
          Ancestors,         \* the blocks pprev leads to, the block itself included
          Work,              \* nChainWork
          Address,           \* the address of the CBlockIndex, a tie breaker
          BadContext,        \* blocks that fail ContextualCheckBlock
          BadConnect,        \* blocks that fail ConnectBlock
          Damaged,           \* blocks whose copy or undo data on disk may be damaged
          MinBlocksToKeep,   \* MIN_BLOCKS_TO_KEEP
          MinimumChainWork,  \* nMinimumChainWork
          Int32Min,          \* numeric_limits<int32_t>::min()
          Threads,           \* message handler, RPC workers, import thread
          Precious, Invalidatable, Reconsiderable,
                             \* the blocks a user may name in preciousblock,
                             \* invalidateblock and reconsiderblock
          Null

ASSUME BlockTree ==
    /\ IsFiniteSet(Blocks) /\ Genesis \in Blocks /\ Null \notin Blocks
    /\ Parent \in [Blocks \ {Genesis} -> Blocks]
    /\ Ancestors \in [Blocks -> SUBSET Blocks]
    /\ Ancestors[Genesis] = {Genesis}
    /\ \A b \in Blocks \ {Genesis} :
          /\ b \notin Ancestors[Parent[b]]
          /\ Ancestors[b] = {b} \cup Ancestors[Parent[b]]
    /\ \A b \in Blocks : \A a \in Ancestors[b] : Ancestors[a] \subseteq Ancestors[b]
    /\ \A b \in Blocks : \A x, y \in Ancestors[b] : x \in Ancestors[y] \/ y \in Ancestors[x]
    /\ Work \in [Blocks -> Nat]
    /\ \A b \in Blocks \ {Genesis} : Work[Parent[b]] < Work[b]
    /\ Address \in [Blocks -> Nat]
    /\ \A a, b \in Blocks : Address[a] = Address[b] => a = b

ASSUME ParameterTypes ==
    /\ BadContext \subseteq Blocks \ {Genesis} /\ BadConnect \subseteq Blocks \ {Genesis}
    /\ Damaged \subseteq Blocks \ {Genesis}
    /\ MinBlocksToKeep \in Nat /\ MinimumChainWork \in Nat
    /\ Int32Min \in Int /\ Int32Min < 0
    /\ Invalidatable \subseteq Blocks \ {Genesis}
    /\ Precious \subseteq Blocks /\ Reconsiderable \subseteq Blocks

VARIABLES index,           \* mapBlockIndex
          data,            \* its blocks whose transactions were received
          linked,          \* nChainTx # 0
          scripts,         \* VALID_SCRIPTS
          failedValid,     \* BLOCK_FAILED_VALID
          failedChild,     \* BLOCK_FAILED_CHILD
          unsaved,         \* those whose FAILED_CHILD never became dirty
          failedBlocks,    \* g_failed_blocks
          sequenceId,      \* nSequenceId
          candidates,      \* setBlockIndexCandidates
          unlinked,        \* mapBlocksUnlinked: b stands for the pair pprev, b
          tip,             \* chainActive.Tip()
          nBlockSequenceId, nBlockReverseSequenceId, nLastPreciousChainwork,
          activating,      \* is the thread in ActivateBestChain?
          pindexMostWork   \* its local pindexMostWork

received == <<index, data, linked, unlinked, nBlockSequenceId>>
failure  == <<failedValid, failedChild, unsaved, failedBlocks>>
precious == <<nBlockReverseSequenceId, nLastPreciousChainwork>>
threads  == <<activating, pindexMostWork>>
vars == <<received, scripts, failure, sequenceId, candidates, tip, precious, threads>>

-----------------------------------------------------------------------------
Failed == failedValid \cup failedChild

Active == Ancestors[tip]

Height(b) == Cardinality(Ancestors[b]) - 1

\* CBlockIndexWorkComparator: a sorts before b under the sequence ids seq.
Worse(seq, a, b) ==
    \/ Work[a] < Work[b]
    \/ Work[a] = Work[b] /\ seq[a] > seq[b]
    \/ Work[a] = Work[b] /\ seq[a] = seq[b] /\ Address[a] > Address[b]

PruneBlockIndexCandidates_TipToo(cands, seq, t) == {c \in cands : Worse(seq, t, c)}

\* PruneBlockIndexCandidates, with t as the tip.
PruneBlockIndexCandidates(cands, seq, t) == {c \in cands : ~Worse(seq, c, t)}

\* A thread enters ActivateBestChain.
StartActivation(t) == /\ activating' = [activating EXCEPT ![t] = TRUE]
                      /\ pindexMostWork' = [pindexMostWork EXCEPT ![t] = Null]

Init == /\ index = {Genesis} /\ data = {Genesis} /\ linked = {Genesis}
        /\ scripts = {} /\ unlinked = {} /\ candidates = {Genesis}
        /\ failedValid = {} /\ failedChild = {} /\ unsaved = {} /\ failedBlocks = {}
        /\ sequenceId = [b \in Blocks |-> IF b = Genesis THEN 1 ELSE 0]
        /\ tip = Genesis
        /\ nBlockSequenceId = 2 /\ nBlockReverseSequenceId = -1
        /\ nLastPreciousChainwork = 0
        /\ activating = [t \in Threads |-> FALSE]
        /\ pindexMostWork = [t \in Threads |-> Null]

-----------------------------------------------------------------------------
(* AcceptBlockHeader. *)

\* The entries of g_failed_blocks a new header on b's parent is held against.
FailedAbove(b) == IF Parent[b] \in scripts \ Failed THEN {}
                  ELSE failedBlocks \cap Ancestors[Parent[b]]

\* The first of them in the order of the set, which is that of the addresses.
FirstFailedAbove(b) == CHOOSE f \in FailedAbove(b) :
                          \A g \in FailedAbove(b) : Address[f] <= Address[g]

HeaderAccepted(b) == /\ Parent[b] \in index \ Failed
                     /\ FailedAbove(b) = {}
                     /\ b \notin Failed

\* A header refused because it descends from a known failed block: what lies
\* between the two is marked on the way.  A header refused for any other reason
\* changes nothing.  The guard on the flag is the assertion of line 4363.
RefuseHeader(b) ==
    /\ b # Genesis
    /\ Parent[b] \in index \ Failed
    /\ FailedAbove(b) # {} /\ FirstFailedAbove(b) \in failedValid
    /\ LET walk == Ancestors[Parent[b]] \ Ancestors[FirstFailedAbove(b)] IN
          /\ failedChild' = failedChild \cup walk
          /\ unsaved' = unsaved \ walk
    /\ UNCHANGED <<received, scripts, failedValid, failedBlocks, sequenceId,
                   candidates, tip, precious, threads>>

\* ProcessNewBlockHeaders with a header that passes.
AcceptHeader(b) ==
    /\ b # Genesis
    /\ HeaderAccepted(b) /\ b \notin index
    /\ index' = index \cup {b}
    /\ UNCHANGED <<data, linked, unlinked, nBlockSequenceId, scripts, failure,
                   sequenceId, candidates, tip, precious, threads>>

-----------------------------------------------------------------------------
(* ProcessNewBlock: AcceptBlock, then ActivateBestChain by the same thread. *)

\* Why AcceptBlock returns before it looks at the block.
NotWanted(b, fRequested) ==
    \/ b \in data
    \/ ~fRequested /\ \/ Work[b] <= Work[tip]
                      \/ Height(b) > Height(tip) + MinBlocksToKeep
                      \/ Work[b] < MinimumChainWork

IgnoreBlock(t, b, fRequested) ==
    /\ ~activating[t] /\ b # Genesis
    /\ HeaderAccepted(b) /\ NotWanted(b, fRequested)
    /\ index' = index \cup {b}
    /\ StartActivation(t)
    /\ UNCHANGED <<data, linked, unlinked, nBlockSequenceId, scripts, failure,
                   sequenceId, candidates, tip, precious>>

RejectBlock(t, b, fRequested) ==
    /\ ~activating[t] /\ b \in BadContext
    /\ HeaderAccepted(b) /\ ~NotWanted(b, fRequested)
    /\ index' = index \cup {b}
    /\ failedValid' = failedValid \cup {b}
    /\ UNCHANGED <<data, linked, unlinked, nBlockSequenceId, scripts, failedChild,
                   unsaved, failedBlocks, sequenceId, candidates, tip, precious, threads>>

NowLinked_OnlyItself(b) == {b}

\* The blocks ReceivedBlockTransactions links once b arrives: b and those that
\* were waiting, directly or not, for b alone.
NowLinked(b) == {x \in unlinked \cup {b} : /\ b \in Ancestors[x]
                                           /\ Ancestors[x] \ Ancestors[b] \subseteq unlinked}

\* The order in which its queue hands out sequence ids: breadth first.  Blocks
\* waiting for the same parent queue in order of arrival, which is not recorded.
QueueOrders(S) ==
    {ids \in [S -> nBlockSequenceId .. nBlockSequenceId + Cardinality(S) - 1] :
        \A x, y \in S : /\ ids[x] = ids[y] => x = y
                        /\ Height(x) < Height(y) => ids[x] < ids[y]}

\* ReceivedBlockTransactions when every ancestor of b has its transactions.
LinkBlock(b) ==
    LET S == NowLinked(b) IN
    \E ids \in QueueOrders(S) :
        /\ linked' = linked \cup S
        /\ unlinked' = unlinked \ S
        /\ sequenceId' = [x \in Blocks |-> IF x \in S THEN ids[x] ELSE sequenceId[x]]
        /\ nBlockSequenceId' = nBlockSequenceId + Cardinality(S)
        /\ candidates' = candidates \cup {x \in S : ~Worse(sequenceId', x, tip)}

\* ReceivedBlockTransactions when an ancestor is still missing.
ParkBlock(b) ==
    /\ unlinked' = unlinked \cup {b}
    /\ UNCHANGED <<linked, sequenceId, nBlockSequenceId, candidates>>

StoreBlock(t, b, fRequested) ==
    /\ ~activating[t] /\ b \notin BadContext \cup {Genesis}
    /\ HeaderAccepted(b) /\ ~NotWanted(b, fRequested)
    /\ index' = index \cup {b} /\ data' = data \cup {b}
    /\ IF Parent[b] \in linked THEN LinkBlock(b) ELSE ParkBlock(b)
    /\ StartActivation(t)
    /\ UNCHANGED <<scripts, failure, tip, precious>>

-----------------------------------------------------------------------------
(* ActivateBestChain. *)

Usable_LooksAtItselfOnly(c) == c \notin Failed

\* FindMostWorkChain walks from a candidate to the active chain and gives it up
\* at the first failed block it meets.
Usable(c) == (Ancestors[c] \ Active) \cap Failed = {}

\* The blocks of that walk, the failed one included.
GivenUp(c) == {x \in Ancestors[c] \ Active :
                  ~ \E f \in (Ancestors[c] \ Active) \cap Failed : x \in Ancestors[f] \ {f}}

BestOf_FirstReceived(S) == CHOOSE c \in S : \A d \in S : sequenceId[c] <= sequenceId[d]

BestOf(S) == CHOOSE c \in S : \A d \in S : ~Worse(sequenceId, c, d)

\* The value FindMostWorkChain returns.
FindMostWorkChain == IF \A c \in candidates : ~Usable(c) THEN Null
                     ELSE BestOf({c \in candidates : Usable(c)})

\* What it gave up before it returned m: the candidates better than m.
Discarded(m) == UNION {GivenUp(c) : c \in {d \in candidates :
                    ~Usable(d) /\ (m = Null \/ Worse(sequenceId, m, d))}}

StopsAt_EveryBlock(x, m) == TRUE

\* Where ActivateBestChainStep stops connecting on its way to m: at m, at an
\* invalid block, or once the new tip has more work than the old one.
StopsAt(x, m) == x = m \/ x \in BadConnect \/ Work[x] > Work[tip]

InvalidBlockFound_NotMarked(b, fCorruptionPossible) == {}

InvalidBlockFound_Always(b, fCorruptionPossible) == {b}

\* The blocks InvalidBlockFound marks when ConnectTip fails at b: none if the fault
\* may be that of the copy that was read, with the merkle root of other contents.
InvalidBlockFound(b, fCorruptionPossible) == IF fCorruptionPossible THEN {} ELSE {b}

Connected_Last(newTip) == {newTip} \ Active

\* The blocks connected when newTip is reached; VALID_SCRIPTS is raised for each.
Connected(newTip) == Ancestors[newTip] \ Active

\* The block at which the step towards m stops if every block reads well; none is
\* connected when m is an ancestor of the tip.
LastTried(m) == LET stops == {x \in Ancestors[m] \ Active : StopsAt(x, m)} IN
                IF stops = {} THEN m
                ELSE CHOOSE b \in stops : \A x \in stops : Work[b] <= Work[x]

\* The blocks at which it may stop because a damaged copy was read.  The copy of m
\* that came with the call is used instead of the one on disk, so a block is not
\* bound to fail.
DamagedOnTheWay(m) == {d \in Damaged \cap (Ancestors[m] \ Active) :
                          \A x \in Ancestors[d] \ (Active \cup {d}) : ~StopsAt(x, m)}

\* ConnectTip leaves the tip where it was if it fails.
TipAfter(last, fails) == IF fails THEN Parent[last] ELSE last

\* Disconnect to the fork, then connect up to last, where ConnectTip fails or the
\* step is done.
ConnectUpTo(t, m, gone, last, fCorruptionPossible) ==
    \E fails \in {fCorruptionPossible \/ last \in BadConnect} :
    \E newTip \in {TipAfter(last, fails)},
       invalid \in {IF fails THEN InvalidBlockFound(last, fCorruptionPossible) ELSE {}} :
        /\ tip' = newTip
        /\ scripts' = scripts \cup (Connected(newTip) \ (Failed \cup gone))
        /\ failedValid' = failedValid \cup invalid
        /\ failedBlocks' = failedBlocks \cup invalid
        /\ candidates' = (IF Connected(newTip) = {} THEN candidates \ gone
                          ELSE PruneBlockIndexCandidates(candidates \ gone, sequenceId, newTip))
                         \ invalid
        /\ activating' = [activating EXCEPT ![t] = newTip # m]
        /\ pindexMostWork' = [pindexMostWork EXCEPT ![t] = IF fails \/ newTip = m THEN Null ELSE m]

\* DisconnectTip fails at d on the way to the fork, and ActivateBestChain returns.
DisconnectFails(t, gone, d) ==
    /\ tip' = d
    /\ candidates' = candidates \ gone
    /\ activating' = [activating EXCEPT ![t] = FALSE]
    /\ pindexMostWork' = [pindexMostWork EXCEPT ![t] = Null]
    /\ UNCHANGED <<scripts, failedValid, failedBlocks>>

\* ActivateBestChainStep towards m by thread t, once FindMostWorkChain has removed gone.
ActivateBestChainStep(t, m, gone) ==
    \/ \E last \in {LastTried(m)} : ConnectUpTo(t, m, gone, last, FALSE)
    \/ \E d \in DamagedOnTheWay(m) : ConnectUpTo(t, m, gone, d, TRUE)
    \/ \E d \in Damaged \cap (Active \ Ancestors[m]) : DisconnectFails(t, gone, d)

\* One iteration of the loop of ActivateBestChain.
ActivateBestChain(t) ==
    /\ activating[t]
    /\ \E m \in {IF pindexMostWork[t] = Null THEN FindMostWorkChain ELSE pindexMostWork[t]} :
       \E gone \in {IF pindexMostWork[t] = Null THEN Discarded(m) ELSE {}} :
          /\ failedChild' = failedChild \cup (gone \ Failed)
          /\ unsaved' = unsaved \cup (gone \ Failed)
          /\ IF m = Null \/ m = tip
             THEN /\ candidates' = candidates \ gone
                  /\ activating' = [activating EXCEPT ![t] = FALSE]
                  /\ pindexMostWork' = [pindexMostWork EXCEPT ![t] = Null]
                  /\ UNCHANGED <<tip, scripts, failedValid, failedBlocks>>
             ELSE ActivateBestChainStep(t, m, gone)
    /\ UNCHANGED <<received, sequenceId, precious>>

\* net_processing and the import thread also call ActivateBestChain on their own.
CallActivateBestChain(t) ==
    /\ ~activating[t]
    /\ StartActivation(t)
    /\ UNCHANGED <<received, scripts, failure, sequenceId, candidates, tip, precious>>

-----------------------------------------------------------------------------
(* The RPC commands preciousblock, invalidateblock and reconsiderblock. *)

\* The counter stops at the end of its range.
NextReverseId(n) == IF n > Int32Min THEN n - 1 ELSE n

PreciousBlock(t, b) ==
    /\ ~activating[t] /\ b \in index \cap Precious
    /\ Work[b] >= Work[tip]
    /\ LET counter == IF Work[tip] > nLastPreciousChainwork THEN -1
                      ELSE nBlockReverseSequenceId
       IN /\ sequenceId' = [sequenceId EXCEPT ![b] = counter]
          /\ nBlockReverseSequenceId' = NextReverseId(counter)
    /\ nLastPreciousChainwork' = Work[tip]
    /\ candidates' = IF b \in linked \ Failed
                     THEN PruneBlockIndexCandidates(candidates \cup {b}, sequenceId', tip)
                     ELSE candidates \ {b}
    /\ StartActivation(t)
    /\ UNCHANGED <<received, scripts, failure, tip>>

InvalidateBlock(t, b) ==
    /\ ~activating[t] /\ b \in index \cap Invalidatable
    /\ LET walk == IF b \in Active THEN Ancestors[tip] \ Ancestors[b] ELSE {} IN
          /\ tip' = IF b \in Active THEN Parent[b] ELSE tip
          /\ failedChild' = failedChild \cup walk
          /\ failedValid' = failedValid \cup {b}
          /\ unsaved' = unsaved \ (walk \cup {b})
          /\ candidates' = (candidates \ (walk \cup {b})) \cup
                {x \in linked \ (failedValid' \cup failedChild') : ~Worse(sequenceId, x, tip')}
    /\ failedBlocks' = failedBlocks \cup {b}
    /\ StartActivation(t)
    /\ UNCHANGED <<received, scripts, sequenceId, precious>>

\* DisconnectTip fails at d: the blocks above it stay disconnected, and nothing is
\* marked.  error() leaves the state valid, so the best chain is activated again.
InvalidateBlockFails(t, b, d) ==
    /\ ~activating[t] /\ b \in index \cap Invalidatable
    /\ d \in Damaged \cap Active /\ b \in Active \cap Ancestors[d]
    /\ tip' = d
    /\ StartActivation(t)
    /\ UNCHANGED <<received, scripts, failure, sequenceId, candidates, precious>>

ResetBlockFailureFlags_KeepsSet(t, b) ==
    /\ ~activating[t] /\ b \in index \cap Reconsiderable
    /\ LET below   == {x \in Failed : b \in Ancestors[x]}
           cleared == below \cup Ancestors[b]
       IN /\ failedValid' = failedValid \ cleared
          /\ failedChild' = failedChild \ cleared
          /\ unsaved' = unsaved \ cleared
          /\ failedBlocks' = failedBlocks
          /\ candidates' = candidates \cup
                {x \in below \cap linked : Worse(sequenceId, tip, x)}
    /\ StartActivation(t)
    /\ UNCHANGED <<received, scripts, sequenceId, tip, precious>>

ResetBlockFailureFlags(t, b) ==
    /\ ~activating[t] /\ b \in index \cap Reconsiderable
    /\ LET below   == {x \in Failed : b \in Ancestors[x]}
           cleared == below \cup Ancestors[b]
       IN /\ failedValid' = failedValid \ cleared
          /\ failedChild' = failedChild \ cleared
          /\ unsaved' = unsaved \ cleared
          /\ failedBlocks' = failedBlocks \ below
          /\ candidates' = candidates \cup
                {x \in below \cap linked : Worse(sequenceId, tip, x)}
    /\ StartActivation(t)
    /\ UNCHANGED <<received, scripts, sequenceId, tip, precious>>

-----------------------------------------------------------------------------
(* A clean stop and a start: LoadBlockIndexDB, LoadChainTip, and the import *)
(* thread's call of ActivateBestChain.                                      *)

Restart ==
    /\ LET saved == failedChild \ unsaved IN
          failedChild' = saved \cup {b \in index \ failedValid :
                                        Ancestors[b] \cap (failedValid \cup saved) # {}}
    /\ unsaved' = {} /\ failedBlocks' = {}
    /\ sequenceId' = [b \in Blocks |-> 0]
    /\ nBlockSequenceId' = 1 /\ nBlockReverseSequenceId' = -1
    /\ nLastPreciousChainwork' = 0
    /\ linked' = {b \in data : Ancestors[b] \subseteq data}
    /\ unlinked' = {b \in data \ {Genesis} : Parent[b] \notin linked'}
    /\ candidates' = PruneBlockIndexCandidates(
                        linked' \ (failedValid \cup failedChild'), sequenceId', tip)
    /\ candidates' # {}
    /\ \E t \in Threads : activating' = [s \in Threads |-> s = t]
    /\ pindexMostWork' = [t \in Threads |-> Null]
    /\ UNCHANGED <<index, data, scripts, failedValid, tip>>

Next == \/ \E b \in Blocks : RefuseHeader(b) \/ AcceptHeader(b)
        \/ \E t \in Threads, b \in Blocks, fRequested \in BOOLEAN :
              \/ IgnoreBlock(t, b, fRequested)
              \/ RejectBlock(t, b, fRequested)
              \/ StoreBlock(t, b, fRequested)
        \/ \E t \in Threads : ActivateBestChain(t) \/ CallActivateBestChain(t)
        \/ \E t \in Threads, b \in Blocks :
              \/ PreciousBlock(t, b) \/ InvalidateBlock(t, b) \/ ResetBlockFailureFlags(t, b)
              \/ \E d \in Damaged : InvalidateBlockFails(t, b, d)
        \/ Restart

Spec == Init /\ [][Next]_vars

\* A thread that holds no lock keeps running: each iteration of ActivateBestChain
\* is eventually taken.
FairSpec == Spec /\ \A t \in Threads : WF_vars(ActivateBestChain(t))

-----------------------------------------------------------------------------
(* Properties. *)

\* The block index holds what its C++ types allow, and its derived sets are
\* subsets of those they are drawn from.
TypeOK ==
    /\ index \subseteq Blocks /\ data \subseteq index /\ linked \subseteq data
    /\ scripts \subseteq linked /\ failedValid \subseteq index /\ failedChild \subseteq index
    /\ unsaved \subseteq failedChild /\ failedBlocks \subseteq index
    /\ sequenceId \in [Blocks -> Int]
    /\ candidates \subseteq linked /\ unlinked \subseteq data
    /\ tip \in index
    /\ nBlockSequenceId \in Nat /\ nBlockReverseSequenceId \in Int
    /\ nLastPreciousChainwork \in Nat
    /\ activating \in [Threads -> BOOLEAN]
    /\ pindexMostWork \in [Threads -> index \cup {Null}]

\* CheckBlockIndex 5542 and 5582-5587: nChainTx tells exactly the blocks whose
\* ancestors were all received, in whatever order they came, and the others wait
\* in mapBlocksUnlinked, or they would never be linked.
LinkingComplete ==
    /\ linked = {b \in data : Ancestors[b] \subseteq data}
    /\ unlinked = data \ linked

\* CheckBlockIndex 5550: the ancestors of a block whose scripts were checked were
\* checked before it.
ScriptsUpward == \A b \in scripts : Ancestors[b] \subseteq scripts \cup {Genesis}

Quiet == \A t \in Threads : ~activating[t]

\* CheckBlockIndex 5555-5570, when no thread is activating: a block that is as good
\* as the tip, with all its ancestors received and none of them invalid, is a
\* candidate; what is worse than the tip is none.
CandidatesComplete ==
    /\ Quiet => \A b \in linked : /\ ~Worse(sequenceId, b, tip)
                                  /\ Ancestors[b] \cap failedValid = {}
                                  => b \in candidates
    /\ \A b \in candidates : ~Worse(sequenceId, b, tip)

\* FindMostWorkChain 3455, InvalidateBlock 3737: the blocks of the active chain are
\* valid.
ActiveChainValid == Active \cap Failed = {}

\* The assertion of AcceptBlockHeader, 4363: a block of g_failed_blocks is marked
\* failed.  Only reconsiderblock of a descendant can break it: it clears the flags
\* of all ancestors and leaves them in the set.
FailedSetIsFailed ==
    \A f \in failedBlocks : \/ f \in failedValid
                            \/ \E r \in Reconsiderable : f \in Ancestors[r] \ {r}

\* A block is held for failed only if a rule or the user says so of it or of an
\* ancestor: CorruptionPossible keeps InvalidBlockFound from marking a good block
\* that came back damaged from disk, and nothing that spreads the marks spreads
\* them to a good branch.
FailureHasACause ==
    /\ failedValid \subseteq BadContext \cup BadConnect \cup Invalidatable
    /\ \A b \in failedChild : Ancestors[b] \cap (BadContext \cup BadConnect \cup Invalidatable) # {}

\* "The result is either failure or an activated best chain" (3616): when no
\* thread is activating, no block with all its data and no invalid ancestor beats
\* the tip.
SettledOnBest ==
    Quiet => \A b \in linked : Ancestors[b] \cap Failed = {} => ~Worse(sequenceId, tip, b)

\* The tip is given up only for a better one, unless a block has just been found
\* or declared invalid.
TipOnlyImproves ==
    [][tip' # tip => \/ failedValid' # failedValid
                     \/ Worse(sequenceId, tip, tip')]_vars

\* What thread t activates next.
Aim(t) == IF pindexMostWork[t] = Null THEN FindMostWorkChain ELSE pindexMostWork[t]

\* Every call of ActivateBestChain returns, unless it comes again and again upon a
\* damaged block: that block stays the best candidate, and the loop has no other end.
ActivationEnds ==
    \A t \in Threads :
        activating[t] ~> \/ ~activating[t]
                         \/ Aim(t) # Null /\ Damaged \cap (Ancestors[Aim(t)] \ Active) # {}
=============================================================================
