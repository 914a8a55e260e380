------------------------------ MODULE MCMempool -------------------------------
(***************************************************************************)
(* A small instance of Mempool: a chain of three transactions with a       *)
(* shortcut (a, b, c), conflicts of its first and second (d, e), two       *)
(* issues of one name (i1, i2) and the spend s of a coinbase cb.  b and e  *)
(* reissue the same asset, d and e give the same freeze command, and a     *)
(* freezes the address whose coin i2 spends.  k, which only the instance   *)
(* OrphanedChild has, spends an output of i2.                              *)
(***************************************************************************)
EXTENDS Mempool

CONSTANTS a, b, c, d, e, i1, i2, s, cb, k, N, A, freeze, address

MCTxs == {a, b, c, d, e, i1, i2, s, cb}
AllTxs == MCTxs \cup {k}

\* "base" stands for transactions that were confirmed long ago.
MCInputs ==
    [t \in AllTxs |->
        CASE t = a  -> {<<"base", 0>>}
          [] t = b  -> {<<a, 0>>, <<"base", 1>>}
          [] t = c  -> {<<b, 0>>, <<a, 1>>}
          [] t = d  -> {<<"base", 0>>}
          [] t = e  -> {<<"base", 1>>}
          [] t = i1 -> {<<"base", 2>>}
          [] t = i2 -> {<<"base", 3>>}
          [] t = s  -> {<<cb, 0>>}
          [] t = cb -> {}
          [] t = k  -> {<<i2, 0>>}]

MCFee ==
    [t \in AllTxs |-> CASE t = a  -> 6 [] t = b -> 1 [] t = c  -> 4 [] t = d -> 12
                       [] t = e  -> 4 [] t = s -> 3 [] t = i1 -> 5 [] t = i2 -> 7
                       [] t = cb -> 0 [] t = k -> 8]

MCRank ==
    [t \in AllTxs |-> CASE t = a  -> 9 [] t = b -> 3 [] t = c  -> 5 [] t = d -> 1
                       [] t = e  -> 2 [] t = s -> 4 [] t = i1 -> 6 [] t = i2 -> 7
                       [] t = cb -> 8 [] t = k -> 10]

MCIssue   == [t \in AllTxs |-> IF t \in {i1, i2} THEN N ELSE None]
MCReissue == [t \in AllTxs |-> IF t \in {b, e} THEN A ELSE None]
MCCommand == [t \in AllTxs |-> CASE t \in {d, e} -> freeze [] t = a -> address [] OTHER -> None]
MCHeldBy  == [o \in UNION {MCInputs[t] : t \in AllTxs} |->
                 IF o = <<"base", 3>> THEN address ELSE None]
===============================================================================
