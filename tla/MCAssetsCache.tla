---------------------------- MODULE MCAssetsCache ----------------------------
(***************************************************************************)
(* A tree of blocks for AssetsCache.  Asset "x" is issued on two branches, *)
(* reissued with more units, frozen for reissuing, and transferred, also   *)
(* in the block of its issue; the restricted asset "r" is issued under the *)
(* qualifier "q", gets another verifier, is transferred, and its holder    *)
(* and the whole asset are frozen and thawed.                              *)
(***************************************************************************)
EXTENDS AssetsCache

Tx(id, type, name, address, amount, units, reissuable, verifier, spends) ==
    [id |-> id, type |-> type, name |-> name, address |-> address, amount |-> amount,
     units |-> units, reissuable |-> reissuable, verifier |-> verifier, spends |-> spends]

IssueX == Tx(1, "issue", "x", "a1", 10, 0, TRUE, None, {})
MoreX == Tx(2, "reissue", "x", "a1", 10, 1, TRUE, None, {})
OddX == Tx(3, "reissue", "x", "a1", 5, -1, TRUE, None, {})
LastX == Tx(4, "reissue", "x", "a1", 10, -1, FALSE, None, {})
SendX == Tx(5, "transfer", "x", "a2", 10, -1, TRUE, None, {IssueX})
SendOddX == Tx(6, "transfer", "x", "a2", 15, -1, TRUE, None, {IssueX, OddX})
IssueR == Tx(7, "issue", "r", "a1", 10, 0, TRUE, "q", {})
OpenR == Tx(8, "reissue", "r", "a1", 0, -1, TRUE, "true", {})
IssueQ == Tx(11, "issue", "q", "a1", 10, 0, TRUE, None, {})
TagQ == Tx(12, "transfer", "q", "a1", 10, -1, TRUE, None, {IssueQ})
CloseR == Tx(13, "reissue", "r", "a1", 0, -1, TRUE, "unissued", {})
SendR == Tx(9, "transfer", "r", "a2", 10, -1, TRUE, None, {IssueR})

Q1 == <<"q", "a1">>
Q2 == <<"q", "a2">>
Frozen == <<"r", "a1">>
Halted == <<"r", "everyone">>

MCKeys == {Q1, Q2, Frozen, Halted}
MCRoots == {}
MCRoot == [k \in MCKeys |-> k]

\* A block: its parent, its transactions and its commands.
Block(parent, txs, on, off) == [parent |-> parent, txs |-> txs, on |-> on, off |-> off]

Tree == [
    g |-> Block("g", <<>>, {}, {}),
    x1 |-> Block("g", <<IssueX>>, {}, {}),
    x2 |-> Block("x1", <<MoreX>>, {}, {}),
    x3 |-> Block("x2", <<OddX>>, {}, {}),
    x4 |-> Block("x3", <<SendOddX>>, {}, {}),
    y2 |-> Block("x1", <<LastX>>, {}, {}),
    y3 |-> Block("y2", <<MoreX>>, {}, {}),
    z1 |-> Block("g", <<IssueX>>, {}, {}),
    z2 |-> Block("z1", <<OddX>>, {}, {}),
    z3 |-> Block("z1", <<SendX>>, {}, {}),
    w1 |-> Block("g", <<IssueX, SendX>>, {}, {}),
    w2 |-> Block("x1", <<MoreX, OddX>>, {}, {}),
    r1 |-> Block("g", <<IssueQ, TagQ>>, {Q1}, {}),
    r2 |-> Block("r1", <<IssueR>>, {}, {}),
    r3 |-> Block("r2", <<>>, {Q2, Halted}, {}),
    r4 |-> Block("r3", <<SendR>>, {}, {Halted}),
    r5 |-> Block("r3", <<>>, {}, {Halted}),
    r6 |-> Block("r5", <<SendR>>, {}, {Q2}),
    s3 |-> Block("r2", <<OpenR>>, {}, {}),
    s4 |-> Block("s3", <<>>, {Frozen}, {}),
    s5 |-> Block("s4", <<SendR>>, {}, {}),
    s6 |-> Block("s3", <<SendR>>, {}, {}),
    t3 |-> Block("r2", <<OpenR, SendR>>, {}, {}),
    t6 |-> Block("r5", <<OpenR, SendR>>, {}, {}),
    u3 |-> Block("r2", <<CloseR>>, {}, {})]

\* The code treats assets apart: a behaviour leaves "x" alone, or "r" and its
\* qualifier, until all trace of the other is gone.
Untouched(n) == /\ passets.newAdd[n] = None /\ passets.newRemove[n] = None
                /\ passets.reissued[n] = None /\ assetsdb[n] = None
                /\ passetsCache[n] = None /\ mapReissuedAssets[n] = None
                /\ \A b \in Blocks : undodb[b][n] = None
                /\ \A a \in Addresses : passets.amounts[<<n, a>>] = Absent /\ quantitydb[<<n, a>>] = 0
OneAsset == Untouched("x") \/ (Untouched("r") /\ Untouched("q") /\ toAdd = NoCommands /\ toRemove = NoCommands)

MCPoolReissues == {MoreX}
MCBlocks == DOMAIN Tree
MCParent == [b \in MCBlocks |-> Tree[b].parent]
MCTxs == [b \in MCBlocks |-> Tree[b].txs]
MCCommands == [b \in MCBlocks |-> [k \in MCKeys |->
    IF k \in Tree[b].on THEN "on" ELSE IF k \in Tree[b].off THEN "off" ELSE "unset"]]
MCAssigned[b \in MCBlocks] ==
    IF b = "g" THEN {} ELSE (MCAssigned[Tree[b].parent] \cup Tree[b].on) \ Tree[b].off

\* Two branches that issue the same name differently, one of which reissues it.
OtherX == Tx(10, "issue", "x", "a2", 20, 1, TRUE, None, {})
Fork == [
    g |-> Block("g", <<>>, {}, {}),
    x1 |-> Block("g", <<IssueX>>, {}, {}),
    x2 |-> Block("x1", <<MoreX>>, {}, {}),
    w1 |-> Block("g", <<OtherX>>, {}, {})]
ForkBlocks == DOMAIN Fork
ForkParent == [b \in ForkBlocks |-> Fork[b].parent]
ForkTxs == [b \in ForkBlocks |-> Fork[b].txs]
NoKeys == [k \in {} |-> k]
ForkCommands == [b \in ForkBlocks |-> NoKeys]
ForkAssigned == [b \in ForkBlocks |-> {}]
=============================================================================
