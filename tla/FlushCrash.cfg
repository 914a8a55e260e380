CONSTANTS
    g = g p = p a = a b = b c = c x = x y = y z = z gold = gold
    Blocks = {g, p, a, b, c}
    Genesis = g
    Null = Null
    Coins = {x, y, z}
    Assets = {gold}
    Parent <- MCParent
    Ancestors <- MCAncestors
    Height <- MCHeight
    Creates <- MCCreates
    Spends <- MCSpends
    Issues <- MCIssues
    CheckBlocks = 1
    MaxFile = 1
    MaxCrashes = 2
    MaxPowerLosses = 0
    MaxWriteErrors = 0
SPECIFICATION FairSpec
INVARIANTS DatabaseConsistent IndexCoversCoins AssetsFollowTip
PROPERTIES Recovers
