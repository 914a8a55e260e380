CONSTANTS
    a1 = a1 a2 = a2 a3 = a3 b1 = b1 b2 = b2 c2 = c2
    Blocks = {g, a1, a2, a3, b1, b2}
    Genesis = g
    Null = Null
    Parent <- MCParent
    Ancestors <- MCAncestors
    Work <- MCWork
    Address <- MCAddress
    Int32Min <- MCInt32Min
    BadContext = {a3}
    BadConnect = {b2}
    Damaged = {}
    MinBlocksToKeep = 1
    MinimumChainWork = 0
    Threads = {t1}
    Precious = {}
    Invalidatable = {a1, a2, b1}
    Reconsiderable = {a1, b1}
SPECIFICATION Spec
CHECK_DEADLOCK FALSE
INVARIANTS LinkingComplete ScriptsUpward CandidatesComplete ActiveChainValid FailedSetIsFailed SettledOnBest
PROPERTIES TipOnlyImproves
