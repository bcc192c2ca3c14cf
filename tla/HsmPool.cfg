SPECIFICATION FairSpec
CONSTANTS
    t1 = t1
    t2 = t2
    t3 = t3
    Threads = {t1, t2, t3}
    PoolSize = 1
    MaxOpened = 2
INVARIANTS SessionIsExclusive NoLostWakeup OneSignaturePerCall
PROPERTIES EveryCallReturns
