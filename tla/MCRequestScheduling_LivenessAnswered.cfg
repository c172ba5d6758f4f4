SPECIFICATION FairSpec
CONSTANTS
    Threaded = {t1}
    Coroutines = {c1}
    Free = Free
    PoolSize = 2
CHECK_DEADLOCK FALSE
PROPERTIES LivenessAnswered
