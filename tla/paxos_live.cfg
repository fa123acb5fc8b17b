SPECIFICATION FairStableSpec
CONSTANTS N = 3
 Fresh = {0}
 FreshMisses = {0}
 FreshSeqs = {1}
 Seqs = {1}
 MissLimit = 0
 LossyRPC = FALSE
 ElectionIds = {1}
 MaxTimers = 0
 MaxView = 0
 MaxCrashes = 0
 Calls = {a, b}
 Entries <- Anywhere
 NoValue = NoValue
 Absent = Absent
 IsDead = {2}
 Discards = {1}
PROPERTY StartReturns
CHECK_DEADLOCK FALSE
