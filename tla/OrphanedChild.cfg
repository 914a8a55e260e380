CONSTANTS
    a = a
    b = b
    c = c
    d = d
    e = e
    i1 = i1
    i2 = i2
    s = s
    cb = cb
    k = k
    N = N
    A = A
    freeze = freeze
    address = address
    None = None
    Txs <- AllTxs
    Coinbases = {cb}
    Inputs <- MCInputs
    Fee <- MCFee
    Rank <- MCRank
    Names = {N, A}
    Issue <- MCIssue
    Reissue <- MCReissue
    Keys = {freeze, address}
    GlobalKeys = {freeze}
    AddressKeys = {address}
    Command <- MCCommand
    HeldBy <- MCHeldBy
    LimitAncestors = 3
    LimitDescendants = 3
    MaxPool = 4
    IncrementalRelayFee = 1
    BlockMax = 3
    BlockMinFee = 2
    Replaceable = {a, b}
    MaxReplaced = 2
    MinRelayTxFee = 2
    Maturity = 2
    MaxHeight = 3
    Blocks = {{}, {cb}, {a}, {b}, {a, b}, {b, c}, {d, i1}, {d}, {e}, {i2, cb}, {s, a}}
    MaxDisconnected = 3
    DeltaTxs = {b}
    FeeDelta = 6
    Expiring = {a, e}
    DecayRates = {0}
SPECIFICATION Spec
INVARIANT InputsAvailable
