SPECIFICATION LockSpec
CONSTANTS
 Threads = {t1, t2, ck}
 Checker = ck
 Keys = {k1, k2}
 Mutexes = {m1, m2}
 NoMutex = NoMutex
 Nobody = Nobody
 NoKey = NoKey
 Clients = {c1}
 Slots = {0, 1}
 FreshSlots = {0}
 NoLock = "NONE"
 Suspects = TRUE
 MaxReigns = 2
SYMMETRY Symmetry
INVARIANT StoredIsLogged
CHECK_DEADLOCK FALSE
