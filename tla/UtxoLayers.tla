----------------------------- MODULE UtxoLayers -----------------------------
(***************************************************************************)
(* What the stack of coin views promises, with no caching in it.           *)
(*                                                                         *)
(* The unspent-output set exists in three versions: the one on disk, the   *)
(* one of the active chain tip (global pcoinsTip) and the working version  *)
(* of whoever is connecting, disconnecting or merely testing a block.      *)
(* Each is a total map from outpoints to coins, with the hash of the block *)
(* whose state it is.  Reads, look-ups and cache evictions are invisible.  *)
(***************************************************************************)
CONSTANTS Outpoints,  \* COutPoint values
          Coins,      \* unspent Coin values
          Blocks,     \* block hashes
          Spent,      \* what a view answers for a coin it does not have
          Null        \* the null uint256

VARIABLES disk,   \* the version in the coin database
          chain,  \* the version of pcoinsTip
          work,   \* the version of the temporary view, if one is open
          open    \* is a temporary view open?

vars == <<disk, chain, work, open>>

Empty == [coins |-> [o \in Outpoints |-> Spent], best |-> Null]

Init == disk = Empty /\ chain = Empty /\ work = Empty /\ open = FALSE

\* A temporary view starts as the chain's version.
Begin == ~open /\ open' = TRUE /\ UNCHANGED <<disk, chain, work>>

Put(o, c) == /\ open
             /\ work' = [work EXCEPT !.coins[o] = c]
             /\ UNCHANGED <<disk, chain, open>>

Remove(o) == /\ open
             /\ work' = [work EXCEPT !.coins[o] = Spent]
             /\ UNCHANGED <<disk, chain, open>>

Point(b) == open /\ work' = [work EXCEPT !.best = b] /\ UNCHANGED <<disk, chain, open>>

\* All of the working version replaces the chain's, or none of it does.
Commit  == open /\ open' = FALSE /\ chain' = work /\ UNCHANGED <<disk, work>>

Abandon == open /\ open' = FALSE /\ work' = chain /\ UNCHANGED <<disk, chain>>

Persist == ~open /\ disk' = chain /\ UNCHANGED <<chain, work, open>>

\* A new process sees exactly what was persisted.
Reopen == chain' = disk /\ work' = disk /\ open' = FALSE /\ UNCHANGED disk

Next == \/ Begin \/ Commit \/ Abandon \/ Persist \/ Reopen
        \/ \E o \in Outpoints, c \in Coins : Put(o, c)
        \/ \E o \in Outpoints : Remove(o)
        \/ \E b \in Blocks : Point(b)

Spec == Init /\ [][Next]_vars
=============================================================================
