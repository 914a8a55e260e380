---------------------------- MODULE MCBlockFiles ----------------------------
(***************************************************************************)
(* A chain of two blocks and a fork of its second.  A file takes two     *)
(* blocks.                                                                 *)
(***************************************************************************)
EXTENDS BlockFiles, TLC

CONSTANTS g, a1, a2, b2

MCBlocks == {g, a1, a2, b2}
MCParent == (a1 :> g @@ a2 :> a1 @@ b2 :> a1)
MCHeight == (g :> 0 @@ a1 :> 1 @@ a2 :> 2 @@ b2 :> 2)
=============================================================================
