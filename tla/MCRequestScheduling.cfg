SPECIFICATION FairSpec
CONSTANTS
    Threaded = {t1, t2, t3}
    Coroutines = {c1, c2}
    Free = Free
    PoolSize = 2
CHECK_DEADLOCK FALSE
INVARIANTS TypeOK NothingLeaks
PROPERTIES RequestsEnd
