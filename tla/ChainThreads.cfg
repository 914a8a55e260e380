CONSTANTS
    a1 = a1 a2 = a2 a3 = a3 b1 = b1 b2 = b2 c2 = c2
    Blocks = {g, a1, a2, b1, b2}
    Genesis = g
    Null = Null
    Parent <- MCParent
    Ancestors <- MCAncestors
    Work <- MCWork
    Address <- MCAddress
    Int32Min <- MCInt32Min
    BadContext = {}
    BadConnect = {b2}
    Damaged = {a2}
    MinBlocksToKeep = 1
    MinimumChainWork = 0
    Threads = {t1, t2}
    Precious = {b1}
    Invalidatable = {a1}
    Reconsiderable = {}
SPECIFICATION FairSpec
CHECK_DEADLOCK FALSE
INVARIANTS FailureHasACause
PROPERTIES ActivationEnds
