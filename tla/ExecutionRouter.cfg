CONSTANTS
    f1 = f1
    f2 = f2
    c1 = c1
    Fast <- OneFast
    Cancel <- OneCancel
    LaneOrder <- OneFastOrder
    Reserved = {}
    stale_after = 1
    failure_cluster_window = 1
    recovery_pause = 1
    max_recovery_pause = 1
    recovery_successes = 1
    Outcomes = {"Healthy", "Failure"}
    MaxTime = 2
    MaxSend = 2
    MaxFaults = 1
SPECIFICATION Spec
INVARIANTS CacheCoherent VerifiedProven BusyKnown RecoveryEarned
CHECK_DEADLOCK FALSE
