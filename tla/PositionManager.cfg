CONSTANTS
    buy = buy
    sell = sell
    bid = bid
    ask = ask
    Trades <- MCTrades
    Orders <- MCOrders
    OrderOf <- MCOrderOf
    SizeOf <- MCSizeOf
    IsMaker <- MCIsMaker
    FeeOf <- MCFeeOf
    SideOf <- MCSideOf
    QuantityOf <- MCQuantityOf
    CashFeeOf <- MCCashFeeOf
    Price = 3
    StartCash = 10
    StartQuantity = 3
    Adjustments <- MCAdjustments
    MaxExtra = 1
SPECIFICATION Spec
INVARIANTS Converges AccumulatorsAgree QueriesAgree SnapshotRestorable SettlementSafe ReservationTracks
