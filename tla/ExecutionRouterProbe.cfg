CONSTANTS
    f1 = f1
    f2 = f2
    c1 = c1
    Fast <- TwoFast
    Cancel <- OneCancel
    LaneOrder <- TwoFastOrder
    Reserved = {}
    stale_after = 2
    failure_cluster_window = 1
    recovery_pause = 1
    max_recovery_pause = 2
    recovery_successes = 1
    Outcomes = {"Healthy"}
    MaxTime = 1
    MaxSend = 2
    MaxFaults = 1
SPECIFICATION Spec
PROPERTY OneProbe
CHECK_DEADLOCK FALSE
