---------------------------- MODULE MCCoinsCache ----------------------------
(***************************************************************************)
(* Two outpoints, so that entries are in different states, and three coins:*)
(* two spendable ones, so that an overwrite is visible, and one that is    *)
(* not.                                                                    *)
(***************************************************************************)
EXTENDS CoinsCache
=============================================================================
