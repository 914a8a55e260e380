------------------------- MODULE MCChainActivation -------------------------
(* Instances of ChainActivation: a genesis block g with two branches,        *)
(* a1-a2-a3 and b1-b2, and c2, a second child of a1.                         *)
EXTENDS ChainActivation, TLC

CONSTANTS a1, a2, a3, b1, b2, c2

MCParent == [b \in Blocks \ {Genesis} |->
                CASE b = a2 -> a1 [] b = a3 -> a2 [] b = c2 -> a1 [] b = b2 -> b1
                  [] OTHER -> Genesis]

MCAncestors == [b \in Blocks |->
                  CASE b = Genesis -> {b}
                    [] b \in {a1, b1} -> {Genesis, b}
                    [] b \in {a2, c2} -> {Genesis, a1, b}
                    [] b = b2 -> {Genesis, b1, b}
                    [] OTHER -> {Genesis, a1, a2, b}]

\* Every block carries the same work.
MCWork == [b \in Blocks |-> Cardinality(MCAncestors[b])]

\* An order of addresses that follows neither branch nor height.
MCAddress == [b \in Blocks |-> CASE b = a2 -> 1 [] b = b1 -> 2 [] b = Genesis -> 3
                                 [] b = a1 -> 4 [] b = b2 -> 5 [] b = c2 -> 6 [] OTHER -> 7]

MCInt32Min == -4
=============================================================================
