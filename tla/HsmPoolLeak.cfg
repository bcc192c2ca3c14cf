SPECIFICATION Spec
CONSTANTS
    t1 = t1
    t2 = t2
    Threads = {t1, t2}
    PoolSize = 1
    MaxOpened = 2
INVARIANTS SessionsDieOnErrorOnly
