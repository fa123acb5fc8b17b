SPECIFICATION StableSpec
CONSTANTS N = 3
 Fresh = {0}
 FreshMisses = {0}
 FreshSeqs = {0}
 Seqs = {1}
 MissLimit = 0
 LossyRPC = FALSE
 ElectionIds = {1}
 MaxTimers = 0
 MaxView = 0
 MaxCrashes = 1
 Calls = {a, b}
 Entries <- AtFirstTwo
 NoValue = NoValue
 Absent = Absent
 IsDead = {}
 Discards = {}
SYMMETRY Symmetry
INVARIANTS PaxosTypeOK CatchUpNeverWaits LeaderMuStaysFree
PROPERTY WriteOnceLog
CHECK_DEADLOCK FALSE
