SPECIFICATION LockSpec
CONSTANTS
 Threads = {t1, t2, ck}
 Checker = ck
 Keys = {k1, k2}
 Mutexes = {m1, m2}
 NoMutex = NoMutex
 Nobody = Nobody
 NoKey = NoKey
 Clients = {c1}
 Slots = {0, 1, 2}
 FreshSlots = {0}
 NoLock = "NONE"
 Suspects = FALSE
 MaxReigns = 1
SYMMETRY Symmetry
INVARIANTS LockTypeOK MutualExclusion UnlocksItsOwn OtherPathsNotLocked ReplayAgrees
PROPERTIES StoredLockOnlyFreed
CHECK_DEADLOCK FALSE
