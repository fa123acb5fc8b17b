SPECIFICATION StableSpec
CONSTANTS N = 2
 Fresh = {0}
 FreshMisses = {0}
 FreshSeqs = {0}
 Seqs = {1}
 MissLimit = 0
 LossyRPC = FALSE
 ElectionIds = {1}
 MaxTimers = 0
 MaxView = 0
 MaxCrashes = 0
 Calls = {a}
 Entries <- AtFirst
 NoValue = NoValue
 Absent = Absent
 IsDead = {}
 Discards = {}
INVARIANT DecisionHasValue
CHECK_DEADLOCK FALSE
