SPECIFICATION Spec
CONSTANTS
    LEASE = 3
    HEARTBEAT = 1
    Values = {"Paused", "Healthy"}
    Open = {"Healthy"}
    MaxTime = 6
    MaxEpoch = 5
    MaxBack = 2
INVARIANTS FailsClosed LeaseBound NeverMorePermissive
PROPERTY NoFalsePause
CHECK_DEADLOCK FALSE
