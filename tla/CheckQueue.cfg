CONSTANTS
    w1 = w1 w2 = w2 m1 = m1 m2 = m2 c1 = c1 c2 = c2 c3 = c3 c4 = c4
    Workers = {w1, w2}
    Masters = {m1}
    Checks = {c1, c2, c3, c4}
    Valid = {c1, c2, c3}
    nBatchSize = 2
    MaxRounds = 2
    MaxInterrupts = 1
    None = None
SPECIFICATION FairSpec
INVARIANTS VerdictExact QueueIdle
PROPERTIES WaitReturns
