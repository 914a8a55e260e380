SPECIFICATION Spec
CONSTANTS
    Outpoints = {o1, o2}
    Coins = {c1, c2, burn}
    Unspendable = {burn}
    Blocks = {b1, b2}
    Spent = Spent
    NoEntry = NoEntry
    Null = Null
INVARIANTS FlagsSound
PROPERTIES ImplementsLayers
