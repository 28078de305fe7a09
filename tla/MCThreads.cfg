CONSTANTS
    Workers = {w1, w2}
    Master = m
    Checks = {c1, c2, c3}
    Bad = {c1}
    nBatchSize = 2
    Threads = {t1, t2}
    Producers = {p1}
    Loaders = {}
    Main = main
    Limit = 0
    Delta = 1
    MaxTime = 1
    MaxCallbacks = 2
SPECIFICATION MCSpec
INVARIANTS VerdictRight QuietBetweenBlocks
           Serial OnceInOrder NoLostWakeup DrainedAtShutdown
PROPERTIES WaitReturns EveryCallbackRuns ShutdownCompletes
CHECK_DEADLOCK FALSE
