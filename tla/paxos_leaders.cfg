SPECIFICATION StableSpec
CONSTANTS N = 2
 Fresh = {0, 1}
 FreshMisses = {0}
 FreshSeqs = {0}
 Seqs = {1}
 MissLimit = 0
 LossyRPC = FALSE
 ElectionIds = {1}
 MaxTimers = 1
 MaxView = 1
 MaxCrashes = 0
 Calls = {a, b}
 Entries <- OneEach
 NoValue = NoValue
 Absent = Absent
 IsDead = {}
 Discards = {}
INVARIANTS StoredIsDecided Validity
PROPERTY DecisionStable
CHECK_DEADLOCK FALSE
