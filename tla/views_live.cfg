SPECIFICATION FairRestartSpec
CONSTANTS N = 3
 Fresh = {0}
 FreshMisses = {0}
 FreshSeqs = {0}
 Seqs = {}
 MissLimit = 0
 LossyRPC = FALSE
 ElectionIds = {1}
 MaxTimers = 1
 MaxView = 2
 MaxCrashes = 1
INVARIANT CampaignOwnsView
PROPERTY ElectionTerminates
CHECK_DEADLOCK FALSE
