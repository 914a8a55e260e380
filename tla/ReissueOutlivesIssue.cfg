SPECIFICATION Spec
CONSTANTS
    Blocks <- ForkBlocks
    Genesis = "g"
    Parent <- ForkParent
    Keys = {}
    Roots = {}
    Root <- NoKeys
    Commands <- ForkCommands
    Assigned <- ForkAssigned
    Names = {"x"}
    Restricted = {}
    Addresses = {"a1", "a2"}
    Everyone = "everyone"
    Txs <- ForkTxs
    PoolReissues = {}
    MaxMoney = 40
    MaxUnit = 1
    None = None
INVARIANT MetadataFollowsChain
