-------------------------- MODULE MCPositionManager --------------------------
(* An instance of PositionManager for TLC: a taker BUY whose fee is taken in  *)
(* shares and a taker SELL whose fee is taken in cash.                        *)
EXTENDS PositionManager

CONSTANTS buy, sell, bid, ask
MCTrades == {buy, sell}
MCOrders == {bid, ask}
MCOrderOf == [t \in MCTrades |-> IF t = buy THEN bid ELSE ask]
MCSizeOf == [t \in MCTrades |-> IF t = buy THEN 2 ELSE 1]
MCIsMaker == [t \in MCTrades |-> FALSE]
MCFeeOf == [t \in MCTrades |-> IF t = buy THEN [NoFee EXCEPT !.shares = 1]
                               ELSE [NoFee EXCEPT !.usdc = 1, !.settlement = "CollateralV2"]]
MCSideOf == [o \in MCOrders |-> IF o = bid THEN "Buy" ELSE "Sell"]
MCQuantityOf == [o \in MCOrders |-> IF o = bid THEN 3 ELSE 1]
MCAdjustments == {-1}
MCCashFeeOf == [o \in MCOrders |-> IF o = bid THEN 1 ELSE 0]
=============================================================================
