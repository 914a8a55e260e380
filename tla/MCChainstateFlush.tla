------------------------- MODULE MCChainstateFlush -------------------------
(***************************************************************************)
(* A small tree for ChainstateFlush: g - p - a and g - p - b - c.  Block p *)
(* creates x.  Block a spends x and creates y; b issues what a issues; c   *)
(* contains the same transaction as a, one block higher, and a coin z that *)
(* it creates and spends itself.                                           *)
(***************************************************************************)
EXTENDS ChainstateFlush, TLC

CONSTANTS g, p, a, b, c, x, y, z, gold

MCParent == p :> g @@ a :> p @@ b :> p @@ c :> b
MCAncestors == g :> {g} @@ p :> {g, p} @@ a :> {g, p, a} @@ b :> {g, p, b}
               @@ c :> {g, p, b, c}
MCHeight == g :> 0 @@ p :> 1 @@ a :> 2 @@ b :> 2 @@ c :> 3
MCCreates == g :> {} @@ p :> {x} @@ a :> {y} @@ b :> {} @@ c :> {y, z}
MCSpends  == g :> {} @@ p :> {} @@ a :> {x} @@ b :> {} @@ c :> {x, z}
MCIssues  == g :> {} @@ p :> {} @@ a :> {gold} @@ b :> {gold} @@ c :> {}

\* For the two block files of FlushPower: p, and above it a and b, which both spend x,
\* b to an unspendable output.
ForkParent    == p :> g @@ a :> p @@ b :> p
ForkAncestors == g :> {g} @@ p :> {g, p} @@ a :> {g, p, a} @@ b :> {g, p, b}
ForkHeight    == g :> 0 @@ p :> 1 @@ a :> 2 @@ b :> 2
ForkCreates   == g :> {} @@ p :> {x} @@ a :> {y} @@ b :> {}
ForkSpends    == g :> {} @@ p :> {} @@ a :> {x} @@ b :> {x}
ForkIssues    == [t \in Blocks |-> {}]
=============================================================================
