CONSTANTS
    Threads = {t1}
    Producers = {}
    Loaders = {loader}
    Main = main
    Limit = 1
    Delta = 1
    MaxTime = 1
    MaxCallbacks = 4
SPECIFICATION FairSpec
PROPERTY ShutdownCompletes
CHECK_DEADLOCK FALSE
