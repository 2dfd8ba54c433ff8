CONSTANTS
    MaxOrders = 3
    Trades = {t1}
    Quantity = 200
    Sizes = {198}
SPECIFICATION Spec
INVARIANTS IndexesAgree NoBlindDelete
