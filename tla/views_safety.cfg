SPECIFICATION ViewSpec
CONSTANTS N = 3
 Fresh = {0}
 FreshMisses = {0}
 FreshSeqs = {0}
 Seqs = {}
 MissLimit = 1
 LossyRPC = FALSE
 ElectionIds = {1}
 MaxTimers = 1
 MaxView = 2
 MaxCrashes = 2
INVARIANTS ViewTypeOK ElectedByQuorum VotesBind LeaderBacked
PROPERTY ViewNeverDecreases
CHECK_DEADLOCK FALSE
