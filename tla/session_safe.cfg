SPECIFICATION SessionSpec
CONSTANTS N = 2
 Sec = 2
 Lease = 1
 Grace = 1
 Margin = 1
 Fresh = {0}
 MaxView = 1
 TryLimit = 3
 MaxDepth = 2
 MaxFaults = 1
INVARIANTS SessionTypeOK SessionBacked
PROPERTIES SessionEndIsFinal KeepAliveEnds
CHECK_DEADLOCK FALSE
