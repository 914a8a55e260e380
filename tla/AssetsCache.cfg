SPECIFICATION Spec
CONSTANTS
    Blocks <- MCBlocks
    Genesis = "g"
    Parent <- MCParent
    Keys <- MCKeys
    Roots <- MCRoots
    Root <- MCRoot
    Commands <- MCCommands
    Assigned <- MCAssigned
    Names = {"x", "r", "q"}
    Restricted = {"r"}
    Addresses = {"a1", "a2"}
    Everyone = "everyone"
    Txs <- MCTxs
    PoolReissues <- MCPoolReissues
    MaxMoney = 40
    MaxUnit = 1
    None = None
CONSTRAINT OneAsset
INVARIANTS MetadataFollowsChain VerifiersFollowChain BalancesFollowChain CommandsFollowChain VerdictFollowsChain
