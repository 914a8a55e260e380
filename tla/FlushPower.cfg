CONSTANTS
    g = g p = p a = a b = b c = c x = x y = y z = z gold = gold
    Blocks = {g, p, a, b}
    Genesis = g
    Null = Null
    Coins = {x, y}
    Assets = {}
    Parent <- ForkParent
    Ancestors <- ForkAncestors
    Height <- ForkHeight
    Creates <- ForkCreates
    Spends <- ForkSpends
    Issues <- ForkIssues
    CheckBlocks = 1
    MaxFile = 2
    MaxCrashes = 0
    MaxPowerLosses = 1
    MaxWriteErrors = 1
SPECIFICATION Spec
CHECK_DEADLOCK FALSE
INVARIANTS AlwaysRecoverable IndexedDataSynced SameTransition
