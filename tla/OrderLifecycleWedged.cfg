CONSTANTS
    MaxOrders = 1
    Trades = {t1}
    Quantity = 200
    Sizes = {100}
    MaxFaults = 1
    MaxEvents = 2
    CancelErrors = TRUE
    SinkOverflow = FALSE
SPECIFICATION LifecycleSpec
INVARIANT NotWedged
CHECK_DEADLOCK FALSE
