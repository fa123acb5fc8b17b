SPECIFICATION FairStableSpec
CONSTANTS N = 3
 Fresh = {0}
 FreshMisses = {0}
 FreshSeqs = {0}
 Seqs = {1}
 MissLimit = 0
 LossyRPC = FALSE
 ElectionIds = {1}
 MaxTimers = 0
 MaxView = 0
 MaxCrashes = 0
 Calls = {a}
 Entries <- AtSecond
 NoValue = NoValue
 Absent = Absent
 IsDead = {}
 Discards = {}
PROPERTY ForwardAnswered
CHECK_DEADLOCK FALSE
