CONSTANTS
    MaxOrders = 1
    Trades = {t1, t2}
    Quantity = 200
    Sizes = {99, 100}
    MaxFaults = 0
    MaxEvents = 2
    CancelErrors = FALSE
    SinkOverflow = FALSE
SPECIFICATION LifecycleSpec
INVARIANT CancelledIsTerminal
CHECK_DEADLOCK FALSE
