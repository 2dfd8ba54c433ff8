--------------------------- MODULE PositionManager ---------------------------
(***************************************************************************)
(* PositionManager of hexagent-account/src/account/position.rs: the ledger *)
(* of trades from which a strategy derives its balance, position and what  *)
(* it may still quote, with the incremental index that live strategies     *)
(* query, the reservations of open orders, snapshots and the rebuild from  *)
(* the shared account's rows.                                              *)
(*                                                                         *)
(* One symbol; a share costs Price units of cash, so that cash and shares  *)
(* are told apart; amounts are exact, so a tolerance is an equality.  The  *)
(* strategy, which is outside the repository, is any client of the public  *)
(* operations: reports of a trade come repeated, out of order, with and    *)
(* without its fee.  A trade's identity fixes its order, size and role.    *)
(***************************************************************************)
EXTENDS Integers, FiniteSets, FiniteSetsExt, Functions

CONSTANTS
    Trades, Orders,
    OrderOf, SizeOf, IsMaker, FeeOf,     \* of a trade
    SideOf, QuantityOf, CashFeeOf,       \* of an order
    Price,
    StartCash, StartQuantity,            \* the wallet without any of the trades
    Adjustments,                         \* of balance and quantity, by the client
    MaxExtra                             \* bound on fills without an id and adjustments

\* The fee of a report that carries none (LegacyV1, zero amounts).
NoFee == [usdc |-> 0, shares |-> 0, settlement |-> "LegacyV1"]
Fees == [usdc : Nat, shares : Nat, settlement : {"LegacyV1", "CollateralV2"}]

\* FeeSettlement::accepts_fee_amounts.
accepts_fee_amounts(t, fee) ==
    /\ IsMaker[t] => fee.usdc = 0 /\ fee.shares = 0
    /\ IF fee.settlement = "LegacyV1" /\ SideOf[OrderOf[t]] = "Buy"
       THEN fee.usdc = 0 ELSE fee.shares = 0

ASSUME PositionAssumption ==
    /\ IsFiniteSet(Trades) /\ IsFiniteSet(Orders)
    /\ OrderOf \in [Trades -> Orders] /\ SizeOf \in [Trades -> Nat \ {0}]
    /\ IsMaker \in [Trades -> BOOLEAN] /\ FeeOf \in [Trades -> Fees]
    /\ \A t \in Trades : accepts_fee_amounts(t, FeeOf[t])
    /\ SideOf \in [Orders -> {"Buy", "Sell"}] /\ QuantityOf \in [Orders -> Nat \ {0}]
    /\ CashFeeOf \in [Orders -> Nat]
    /\ \A o \in Orders : SideOf[o] = "Sell" => CashFeeOf[o] = 0
    /\ Price \in Nat \ {0}
    /\ StartCash \in Int /\ StartQuantity \in Int
    /\ Adjustments \subseteq Int /\ MaxExtra \in Nat
    /\ \A t \in Trades, n \in 1..MaxExtra : <<t, n>> \notin Trades

VARIABLES
    init_balance, init_position,
    trades,               \* the ledger: a row per trade id
    pending_orders,
    synthetic_counter,
    volume,               \* maker_volume and taker_volume
    incremental,          \* incremental_queries is Some
    sums, locks,          \* the index: sums over trades, sums over reservations
    best,                 \* history: highest rank among the reports of a trade
    booked,               \* history: sum of the accumulator signs returned
    acc,                  \* history: the cash and shares a caller sums up itself
    tracked               \* history: orders whose lock follows the private trades

ledger == <<trades, volume, sums, best, booked, acc>>
locking == <<pending_orders, locks>>
vars == <<init_balance, init_position, synthetic_counter, incremental, ledger, locking, tracked>>

\* A fill without an id gets one of its own, from the order and the counter.
Ids == Trades \cup (Trades \X (1..MaxExtra))
Of(id) == IF id \in Trades THEN id ELSE id[1]

TradeStatus == {"Matched", "Mined", "Failed", "Confirmed"}
rank(status) ==
    IF status = "Matched" THEN 1 ELSE IF status = "Mined" THEN 2
    ELSE IF status = "Failed" THEN 3 ELSE IF status = "Confirmed" THEN 4 ELSE 0
NoRow == [status |-> "None", fee |-> NoFee, attributed |-> FALSE]
NoOrder == [original |-> 0, remaining |-> 0, fee |-> 0]
NoSums == [cash |-> 0, available_cash |-> 0, quantity |-> 0, available_quantity |-> 0]
NoLocks == [buy_cash |-> 0, sell_quantity |-> 0]

Higher(a, b) == IF a >= b THEN a ELSE b
Live(status) == status \notin {"None", "Failed"}
Side(id) == SideOf[OrderOf[Of(id)]]
CashOf(id, fee) ==
    (IF Side(id) = "Buy" THEN -(SizeOf[Of(id)] * Price) ELSE SizeOf[Of(id)] * Price) - fee.usdc
SharesOf(id, fee) ==
    IF Side(id) = "Buy" THEN SizeOf[Of(id)] - fee.shares ELSE -SizeOf[Of(id)]
Role(id) == IF IsMaker[Of(id)] THEN "maker" ELSE "taker"
Notional(id) == SizeOf[Of(id)] * Price

\* The cash and the shares that some rows of a table of trades move.
TotalCash(rows, ids) == SumFunctionOnSet([id \in DOMAIN rows |-> CashOf(id, rows[id].fee)], ids)
TotalShares(rows, ids) == SumFunctionOnSet([id \in DOMAIN rows |-> SharesOf(id, rows[id].fee)], ids)

-----------------------------------------------------------------------------
\* The index of live queries.

Bit(b) == IF b THEN 1 ELSE 0

\* Proceeds are available as soon as the trade is live.
Settles_Early(side, id, status) == Live(status)

\* Whether a trade of this status counts towards what side may spend: cash goes out
\* with a live BUY and comes in with a confirmed SELL, shares the other way round.
Settles(side, id, status) == IF Side(id) = side THEN Live(status) ELSE status = "Confirmed"

\* IncrementalQueries::transition.
transition(s, id, row, previous) ==
    LET delta(counts(_)) == Bit(counts(row.status)) - Bit(counts(previous))
        live == delta(Live)
        cash == CashOf(id, row.fee)
        shares == SharesOf(id, row.fee)
    IN  [cash |-> s.cash + cash * live,
         available_cash |->
             s.available_cash + cash * delta(LAMBDA st : Settles("Buy", id, st)),
         quantity |-> s.quantity + shares * live,
         available_quantity |->
             s.available_quantity + shares * delta(LAMBDA st : Settles("Sell", id, st))]

\* IncrementalQueries::reservation.
reservation(l, o, p, sign) ==
    IF SideOf[o] = "Buy"
    THEN [l EXCEPT !.buy_cash = @ + sign * (Price + p.fee) * p.remaining]
    ELSE [l EXCEPT !.sell_quantity = @ + sign * p.remaining]

\* MINED proceeds count as settled.
Sure_Mined(side) ==
    {id \in Ids : /\ Live(trades[id].status)
                  /\ Side(id) = side \/ trades[id].status \in {"Mined", "Confirmed"}}

\* The queries without the index scan the ledger.
Sure(side) ==
    {id \in Ids : /\ Live(trades[id].status)
                  /\ Side(id) = side \/ trades[id].status = "Confirmed"}
ScanSums ==
    LET live == {id \in Ids : Live(trades[id].status)}
    IN  [cash |-> TotalCash(trades, live),
         available_cash |-> TotalCash(trades, Sure("Buy")),
         quantity |-> TotalShares(trades, live),
         available_quantity |-> TotalShares(trades, Sure("Sell"))]
ScanLocks ==
    LET cash == [o \in Orders |-> (Price + pending_orders[o].fee) * pending_orders[o].remaining]
        quantity == [o \in Orders |-> pending_orders[o].remaining]
    IN  [buy_cash |-> SumFunctionOnSet(cash, {o \in Orders : SideOf[o] = "Buy"}),
         sell_quantity |-> SumFunctionOnSet(quantity, {o \in Orders : SideOf[o] = "Sell"})]

enable_incremental_queries ==
    /\ ~incremental
    /\ incremental' = TRUE
    /\ sums' = FoldSet(LAMBDA id, s : transition(s, id, trades[id], "None"), NoSums,
                       {id \in Ids : trades[id] # NoRow})
    /\ locks' = FoldSet(LAMBDA o, l : reservation(l, o, pending_orders[o], 1), NoLocks, Orders)
    /\ UNCHANGED <<init_balance, init_position, synthetic_counter, trades, volume, best, booked,
                   acc, pending_orders, tracked>>

\* balance, get_quantity, available_cash and available_inventory.
Sums == IF incremental THEN sums ELSE ScanSums
Locks == IF incremental THEN locks ELSE ScanLocks
balance == init_balance + Sums.cash
get_quantity == init_position + Sums.quantity
available_cash == Max({0, init_balance + Sums.available_cash - Max({0, Locks.buy_cash})})
available_inventory ==
    Max({0, init_position + Sums.available_quantity - Max({0, Locks.sell_quantity})})

-----------------------------------------------------------------------------
\* The ledger.

\* A failed trade is final.
Outcome_FailedFinal(prev, s) ==
    IF prev = "None" THEN IF s = "Failed" THEN "update_only" ELSE "add"
    ELSE IF prev \in {"Confirmed", "Failed"} \/ rank(s) <= rank(prev) THEN "noop"
    ELSE IF s = "Failed" THEN "reverse" ELSE "update_only"

\* What a report of status s does to a trade of status prev.
Outcome(prev, s) ==
    IF prev = "None" THEN IF s = "Failed" THEN "update_only" ELSE "add"
    ELSE IF prev = "Failed" /\ s = "Confirmed" THEN "add"
    ELSE IF prev \in {"Confirmed", "Failed"} \/ rank(s) <= rank(prev) THEN "noop"
    ELSE IF s = "Failed" THEN "reverse" ELSE "update_only"
accumulator_sign(outcome) == IF outcome = "add" THEN 1 ELSE IF outcome = "reverse" THEN -1 ELSE 0

\* A known trade keeps its fee: a report with another one is rejected.
Admits(id, fee) == trades[id] = NoRow \/ trades[id].fee = fee
Result(id, s, fee) == IF Admits(id, fee) THEN Outcome(trades[id].status, s) ELSE "noop"

\* Volume counts the fills and forgets the reversals.
VolumeAfter_NoReverse(id, sign) ==
    IF sign = 1 THEN [volume EXCEPT ![Role(id)] = @ + Notional(id)] ELSE volume

VolumeAfter(id, sign) == [volume EXCEPT ![Role(id)] = @ + sign * Notional(id)]

upsert_trade_inner(id, s, fee) ==
    LET old == trades[id]
        new == IF old = NoRow THEN [status |-> s, fee |-> fee, attributed |-> TRUE]
               ELSE [old EXCEPT !.status = s]
        outcome == Result(id, s, fee)
        sign == accumulator_sign(outcome)
    IN  /\ best' = IF Admits(id, fee) THEN [best EXCEPT ![id] = Higher(@, rank(s))] ELSE best
        /\ IF outcome = "noop" THEN UNCHANGED <<trades, sums, volume, booked, acc>>
           ELSE /\ trades' = [trades EXCEPT ![id] = new]
                /\ sums' = IF incremental THEN transition(sums, id, new, old.status) ELSE sums
                /\ volume' = VolumeAfter(id, sign)
                /\ booked' = [booked EXCEPT ![id] = @ + sign]
                /\ acc' = [cash |-> acc.cash + sign * CashOf(id, fee),
                           shares |-> acc.shares + sign * SharesOf(id, fee)]

\* The caller is told of a fee although the failed trade never paid it.
FeeDelta_Failed(row, fee) ==
    [cash |-> row.fee.usdc - fee.usdc, shares |-> row.fee.shares - fee.shares]

\* cash_delta and quantity_delta of a fee attribution.
FeeDelta(row, fee) ==
    IF Live(row.status)
    THEN [cash |-> row.fee.usdc - fee.usdc, shares |-> row.fee.shares - fee.shares]
    ELSE [cash |-> 0, shares |-> 0]

\* An unattributed row of a restored trade gets its fee, once.
attribute_restored_trade_fee(t) ==
    LET row == trades[t]
        delta == FeeDelta(row, FeeOf[t])
        if(counts, d) == IF counts THEN d ELSE 0
        confirmed == row.status = "Confirmed"
    IN  /\ row # NoRow /\ ~row.attributed
        /\ sums' = IF ~incremental \/ ~Live(row.status) THEN sums ELSE
               [cash |-> sums.cash + delta.cash,
                available_cash |->
                    sums.available_cash + if(Side(t) = "Buy" \/ confirmed, delta.cash),
                quantity |-> sums.quantity + delta.shares,
                available_quantity |->
                    sums.available_quantity + if(Side(t) = "Sell" \/ confirmed, delta.shares)]
        /\ trades' = [trades EXCEPT ![t].fee = FeeOf[t], ![t].attributed = TRUE]
        /\ acc' = [cash |-> acc.cash + delta.cash, shares |-> acc.shares + delta.shares]
        /\ UNCHANGED <<init_balance, init_position, synthetic_counter, incremental, volume,
                       best, booked, locking, tracked>>

Abs(i) == IF i < 0 THEN -i ELSE i
Extras == synthetic_counter + Abs(init_balance - StartCash) + Abs(init_position - StartQuantity)

adjust_balance(delta) ==
    /\ Extras < MaxExtra
    /\ init_balance' = init_balance + delta
    /\ acc' = [acc EXCEPT !.cash = @ + delta]
    /\ UNCHANGED <<init_position, synthetic_counter, incremental, trades, volume, sums, best,
                   booked, locking, tracked>>

adjust_quantity(delta) ==
    /\ Extras < MaxExtra
    /\ init_position' = init_position + delta
    /\ acc' = [acc EXCEPT !.shares = @ + delta]
    /\ UNCHANGED <<init_balance, synthetic_counter, incremental, trades, volume, sums, best,
                   booked, locking, tracked>>

-----------------------------------------------------------------------------
\* Reservations.

\* The reservation of o becomes p, in the map and in the index.
SetPending(o, p) ==
    /\ pending_orders' = [pending_orders EXCEPT ![o] = p]
    /\ locks' = IF incremental
                THEN reservation(reservation(locks, o, pending_orders[o], -1), o, p, 1)
                ELSE locks

Unlocked(o) == {t \in Trades : OrderOf[t] = o /\ Live(trades[t].status)} = {}

\* register_pending_order_with_cash_fee; an entry that exists is overwritten.
Register(o) ==
    /\ SetPending(o, [original |-> QuantityOf[o], remaining |-> QuantityOf[o],
                      fee |-> CashFeeOf[o]])
    /\ tracked' = IF Unlocked(o) THEN tracked \cup {o} ELSE tracked \ {o}
    /\ UNCHANGED <<init_balance, init_position, synthetic_counter, incremental, ledger>>

remove_pending_order(o) ==
    /\ pending_orders[o] # NoOrder
    /\ SetPending(o, NoOrder)
    /\ tracked' = tracked \ {o}
    /\ UNCHANGED <<init_balance, init_position, synthetic_counter, incremental, ledger>>

\* A reversed fill stays released.
Remaining_NoRelock(p, quantity, sign) ==
    IF sign = 1 THEN Max({p.remaining - quantity, 0}) ELSE p.remaining

Remaining(p, quantity, sign) ==
    IF sign = 1 THEN Max({p.remaining - quantity, 0}) ELSE Min({p.remaining + quantity, p.original})

apply_private_trade_reservation(o, quantity, sign) ==
    LET p == pending_orders[o] IN
    IF p = NoOrder \/ sign = 0 THEN UNCHANGED locking
    ELSE SetPending(o, [p EXCEPT !.remaining = Remaining(p, quantity, sign)])

\* sync_pending_from_update.
sync_pending_from_update(u) ==
    LET p == pending_orders[u.order]
        left == Max({p.remaining - u.filled, 0})
    IN  CASE u.status = "PartiallyFilled" ->
                IF p = NoOrder THEN UNCHANGED locking
                ELSE SetPending(u.order, IF left = 0 THEN NoOrder ELSE [p EXCEPT !.remaining = left])
          [] u.status = "Filled" /\ u.filled = 0 /\ ~u.id /\ ~u.audit -> UNCHANGED locking
          [] u.status = "Accepted" ->
                IF p # NoOrder \/ u.remaining = 0 THEN UNCHANGED locking
                ELSE SetPending(u.order, [original |-> u.remaining, remaining |-> u.remaining,
                                          fee |-> 0])
          [] OTHER -> SetPending(u.order, NoOrder)

-----------------------------------------------------------------------------
\* The client.

from_order_status ==
    [PartiallyFilled |-> "Matched", Filled |-> "Confirmed", Failed |-> "Failed"]

\* Order updates: fills, with or without the trade's id, and order lifecycle.  A fill
\* without its role is ignored.
Fill(t, st, id) ==
    [order |-> OrderOf[t], status |-> st, filled |-> SizeOf[t], trade |-> t, id |-> id,
     audit |-> FALSE, remaining |-> 0]
Lifecycle(o, st, audit, remaining) ==
    [order |-> o, status |-> st, filled |-> 0, trade |-> "none", id |-> FALSE,
     audit |-> audit, remaining |-> remaining]
Updates ==
    {Fill(t, st, id) : t \in Trades, st \in DOMAIN from_order_status, id \in BOOLEAN} \cup
    {Lifecycle(o, "Accepted", FALSE, 1) : o \in Orders} \cup
    {Lifecycle(o, "Filled", audit, 0) : o \in Orders, audit \in BOOLEAN} \cup
    {Lifecycle(o, st, FALSE, 0) : o \in Orders, st \in {"Cancelled", "Rejected"}}

on_order_update(u) ==
    /\ sync_pending_from_update(u)
    /\ IF u.filled = 0 THEN UNCHANGED <<ledger, synthetic_counter>>
       ELSE LET id == IF u.id THEN u.trade ELSE <<u.trade, synthetic_counter + 1>> IN
            /\ u.id \/ Extras < MaxExtra
            /\ synthetic_counter' = IF u.id THEN synthetic_counter ELSE synthetic_counter + 1
            /\ upsert_trade_inner(id, from_order_status[u.status], NoFee)
    /\ tracked' = IF UNCHANGED <<pending_orders, trades>> THEN tracked ELSE tracked \ {u.order}
    /\ UNCHANGED <<init_balance, init_position, incremental>>

\* upsert_trade alone, or followed by apply_private_trade_reservation with the sign it
\* returned, which differs where there is a reservation.  A report that is not
\* admitted changes nothing.
upsert_trade(t, s, fee) ==
    /\ Admits(t, fee)
    /\ upsert_trade_inner(t, s, fee)
    /\ tracked' = IF accumulator_sign(Result(t, s, fee)) = 0 THEN tracked ELSE tracked \ {OrderOf[t]}
    /\ UNCHANGED <<init_balance, init_position, synthetic_counter, incremental, locking>>
PrivateTrade(t, s, fee) ==
    /\ Admits(t, fee) /\ pending_orders[OrderOf[t]] # NoOrder
    /\ upsert_trade_inner(t, s, fee)
    /\ apply_private_trade_reservation(OrderOf[t], SizeOf[t], accumulator_sign(Result(t, s, fee)))
    /\ UNCHANGED <<init_balance, init_position, synthetic_counter, incremental, tracked>>

-----------------------------------------------------------------------------
\* Restarts.

Booked(rows) == {t \in Trades : Live(rows[t].status)}

VolumeOf(rows) ==
    [role \in {"maker", "taker"} |->
        SumFunctionOnSet([id \in DOMAIN rows |-> Notional(id)],
                         {id \in DOMAIN rows : Live(rows[id].status) /\ Role(id) = role})]
Extend(rows) == [id \in Ids |-> IF id \in Trades THEN rows[id] ELSE NoRow]

\* Rows of the shared account: those without an attribution have no fee yet.
RestoredRows(t) ==
    {NoRow} \cup
    {[status |-> s, fee |-> FeeOf[t], attributed |-> TRUE] : s \in TradeStatus} \cup
    {[status |-> s, fee |-> NoFee, attributed |-> FALSE] : s \in {x \in TradeStatus : ~IsMaker[t]}}
Restored ==
    {rows \in [Trades -> UNION {RestoredRows(t) : t \in Trades}] :
        \A t \in Trades : rows[t] \in RestoredRows(t)}

\* with_positions_and_restored_trades, given the account's balance and position, in
\* which the live trades are booked.
Init ==
    /\ \E rows \in Restored :
           LET live == {t \in Trades : Live(rows[t].status)} IN
           /\ acc = [cash |-> StartCash + TotalCash(rows, live),
                     shares |-> StartQuantity + TotalShares(rows, live)]
           /\ init_balance = acc.cash - TotalCash(rows, Booked(rows))
           /\ init_position = acc.shares - TotalShares(rows, Booked(rows))
           /\ trades = Extend(rows)
           /\ volume = VolumeOf(rows)
    /\ pending_orders = [o \in Orders |-> NoOrder]
    /\ synthetic_counter = 0
    /\ incremental = FALSE /\ sums = NoSums /\ locks = NoLocks
    /\ best = [id \in Ids |-> rank(trades[id].status)]
    /\ booked = [id \in Ids |-> Bit(Live(trades[id].status))]
    /\ tracked = {}

\* What from_snapshot accepts.
Valid ==
    /\ \A role \in {"maker", "taker"} : volume[role] >= 0
    /\ \A id \in Ids :
           /\ accepts_fee_amounts(Of(id), trades[id].fee)
           /\ ~trades[id].attributed /\ trades[id].status # "Failed" =>
                  trades[id].fee.usdc = 0 /\ trades[id].fee.shares = 0
    /\ volume = VolumeOf(trades)
    /\ \A o \in Orders :
           /\ pending_orders[o].remaining \in 0..pending_orders[o].original
           /\ SideOf[o] = "Sell" => pending_orders[o].fee = 0

\* from_snapshot(snapshot()): the index is not part of the snapshot.
Restart ==
    /\ incremental /\ Valid
    /\ incremental' = FALSE /\ sums' = NoSums /\ locks' = NoLocks
    /\ UNCHANGED <<init_balance, init_position, synthetic_counter, trades, volume, best, booked,
                   acc, pending_orders, tracked>>

\* The rows a rebuild accepts: every trade has its fee.
FinalRows == {rows \in Restored : \A t \in Trades : rows[t] = NoRow \/ rows[t].attributed}

\* rebuild_from_snapshot_baseline with such rows of the account: the old
\* rows are discarded and the reservations follow from the rows.
Rebuild(rows) ==
    LET fills(o) == {t \in Booked(rows) : OrderOf[t] = o}
        live == {t \in Trades : Live(rows[t].status)}
        left(o, p) == Max({0, p.original - SumFunctionOnSet(SizeOf, fills(o))})
    IN  /\ ~incremental
        /\ trades' = Extend(rows)
        /\ volume' = VolumeOf(rows)
        /\ pending_orders' = [o \in Orders |->
               [pending_orders[o] EXCEPT !.remaining = left(o, pending_orders[o])]]
        /\ incremental' = FALSE /\ sums' = NoSums /\ locks' = NoLocks
        /\ best' = [id \in Ids |-> rank(trades'[id].status)]
        /\ booked' = [id \in Ids |-> Bit(Live(trades'[id].status))]
        /\ acc' = [cash |-> init_balance + TotalCash(rows, live),
                   shares |-> init_position + TotalShares(rows, live)]
        /\ tracked' = {o \in Orders : pending_orders[o] # NoOrder}
        /\ UNCHANGED <<init_balance, init_position, synthetic_counter>>

-----------------------------------------------------------------------------
Next ==
    \/ \E u \in Updates : on_order_update(u)
    \/ \E t \in Trades, s \in TradeStatus : \E fee \in {NoFee, FeeOf[t]} :
           upsert_trade(t, s, fee) \/ PrivateTrade(t, s, fee)
    \/ \E t \in Trades : attribute_restored_trade_fee(t)
    \/ \E o \in Orders : Register(o) \/ remove_pending_order(o)
    \/ \E delta \in Adjustments : adjust_balance(delta) \/ adjust_quantity(delta)
    \/ enable_incremental_queries
    \/ Restart
    \/ \E rows \in FinalRows : Rebuild(rows)

Spec == Init /\ [][Next]_vars

-----------------------------------------------------------------------------
Rows == [status : TradeStatus \cup {"None"}, fee : Fees, attributed : BOOLEAN]

\* The reports of a trade may come in any order and any number of times: the ledger
\* holds the last stage of the life cycle among them, a CONFIRMED above a FAILED.
Converges == \A id \in Ids : rank(trades[id].status) = best[id]

\* The signs upsert_trade returns for a trade add up to one while it is live and to
\* none when it failed or never was: a caller that adds and reverses by them counts
\* every fill once.
SignsBalance == \A id \in Ids : booked[id] = Bit(Live(trades[id].status))

\* A caller that sums up cash and shares by the signs and by the deltas of late fee
\* attributions, starting from the account's position, agrees with balance and
\* get_quantity: restored trades are not counted twice, reversals take back exactly
\* what was booked.
AccumulatorsAgree == acc.cash = balance /\ acc.shares = get_quantity

\* The incremental index equals a scan of the ledger and of the reservations after
\* every mutation.
QueriesAgree == incremental => sums = ScanSums /\ locks = ScanLocks

\* from_snapshot accepts the snapshot of every state the manager can be in: fees,
\* volumes and reservations pass its checks.
SnapshotRestorable == Valid

\* available_cash and available_inventory are conservative: they are covered together
\* with the reservations, whichever of the unconfirmed trades fail.
SettlementSafe ==
    LET live == {id \in Ids : Live(trades[id].status)}
        open == {id \in live : trades[id].status # "Confirmed"}
    IN  \A failed \in SUBSET open :
            /\ available_cash > 0 =>
                   init_balance + TotalCash(trades, live \ failed) >=
                       available_cash + ScanLocks.buy_cash
            /\ available_inventory > 0 =>
                   init_position + TotalShares(trades, live \ failed) >=
                       available_inventory + ScanLocks.sell_quantity

\* While only private trades move it, the reservation of an order is what its live
\* trades have not filled: repeated reports release nothing twice, and a failed trade
\* locks again what it had released.
ReservationTracks ==
    \A o \in tracked :
        LET fills == {t \in Trades : OrderOf[t] = o /\ Live(trades[t].status)}
        IN  pending_orders[o].remaining =
                Max({0, pending_orders[o].original - SumFunctionOnSet(SizeOf, fills)})
=============================================================================
