SPECIFICATION Spec
CONSTANTS
    g = g
    a1 = a1
    a2 = a2
    b2 = b2
    Blocks <- MCBlocks
    Genesis = g
    Parent <- MCParent
    Height <- MCHeight
    None = None
    MaxBlockfileSize = 3
    NumFiles = 4
    MinBlocksToKeep = 1
    PruneAfterHeight = 1
    PruneTarget = 5
    UintRange = 1000
    MaxCrashes = 1
    MaxReindexes = 1
CHECK_DEADLOCK FALSE
INVARIANTS BlocksReadable ActiveChainUndoable TornFlushRecoverable
PROPERTIES ReindexComplete
