SPECIFICATION PaxosSpec
CONSTANTS N = 2
 Fresh = {0}
 FreshMisses = {0}
 FreshSeqs = {0, 1}
 Seqs = {1}
 MissLimit = 0
 LossyRPC = TRUE
 ElectionIds = {1}
 MaxTimers = 1
 MaxView = 1
 MaxCrashes = 1
 Calls = {a}
 Entries <- AtSecond
 NoValue = NoValue
 Absent = Absent
 IsDead = {}
 Discards = {}
INVARIANTS AcceptedInView Validity
PROPERTY ViewsRefined
CHECK_DEADLOCK FALSE
