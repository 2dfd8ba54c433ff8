--------------------------- MODULE OrderLifecycle ---------------------------
(***************************************************************************)
(* The order manager composed with what it talks to: the executor queue    *)
(* that carries its signals, the Polymarket adapter that turns replies     *)
(* into order updates (hexagent-exchange/src/exchange/polymarket/trade.rs) *)
(* and the exchange.  Updates come from several sources (HTTP reply,       *)
(* private stream, reconciler), so they are a set, delivered in any order. *)
(*                                                                         *)
(* The exchange is external.  It is modelled as the adapter and the        *)
(* comments of the order manager describe it: an order rests once its POST *)
(* is processed, which may be after a time-out was reported; a fill is     *)
(* reported as MATCHED, again as MINED and then as CONFIRMED or FAILED; a  *)
(* resting order that is deleted is closed for good.                       *)
(***************************************************************************)
EXTENDS OrderManager

CONSTANTS
    MaxFaults,            \* bound on dropped signals, time-outs and failed calls
    MaxEvents,            \* bound on faults and trades together
    CancelErrors,         \* a DELETE may fail definitely, or find no order id
    SinkOverflow          \* a cancel walk may find its output buffer full

VARIABLES
    posts,                \* NewOrder signals on their way to the exchange
    dels,                 \* number of CancelOrder signals on their way, per order
    srv,                  \* the exchange's view: none, delayed, resting, closed
    remaining,            \* the quantity the exchange has not matched
    trade,                \* trades the exchange made: order, size and stage
    mail,                 \* order updates on their way to the strategy
    orphans,              \* orders whose cancel outcome the reconciler looks up
    faults,               \* faults so far
    cancelConfirmed,      \* history: cancelled, and no Accepted delivered since
    uncancelled           \* history: orders whose DELETE failed or was never sent

envvars == <<posts, dels, srv, remaining, trade, mail, orphans, faults>>
vars == <<omvars, envvars, cancelConfirmed, uncancelled>>

NoSuchTrade == [coid |-> 0, qty |-> 0, stage |-> "none"]
Update(c, st, via) == [coid |-> c, status |-> st, trade |-> NoTrade, qty |-> 0, via |-> via]
TradeUpdate(c, t, q, st) == [coid |-> c, status |-> st, trade |-> t, qty |-> q, via |-> "stream"]

LifecycleInit ==
    /\ Init
    /\ posts = {}
    /\ dels = [c \in Coids |-> 0]
    /\ srv = [c \in Coids |-> "none"]
    /\ remaining = [c \in Coids |-> Quantity]
    /\ trade = [t \in Trades |-> NoSuchTrade]
    /\ mail = {}
    /\ orphans = {}
    /\ faults = 0
    /\ cancelConfirmed = {}
    /\ uncancelled = {}

\* The signals an order manager operation emits reach the executor's queue.
Transmit ==
    /\ posts' = posts \cup {c \in Coids : NewOrder(c) \in out'}
    /\ dels' = [c \in Coids |-> IF CancelOrder(c) \in out' THEN dels[c] + 1 ELSE dels[c]]

\* A step of the environment leaves the order manager alone.
Idle ==
    /\ out' = {}
    /\ UNCHANGED <<status, side, filled, cancelable, live, intents, nextId, evidence,
                   cancelConfirmed>>
Quiet == Idle /\ UNCHANGED uncancelled

Unused == {t \in Trades : trade[t] = NoSuchTrade}
MayHappen == faults + Cardinality(Trades \ Unused) < MaxEvents
Fault == faults < MaxFaults /\ MayHappen /\ faults' = faults + 1

-----------------------------------------------------------------------------
\* The strategy.

Quote(cancels, place) ==
    /\ cancels # {} \/ place # "None"
    /\ apply_reconcile(cancels, place)
    /\ Transmit
    /\ UNCHANGED <<srv, remaining, trade, mail, orphans, faults, cancelConfirmed, uncancelled>>

CancelAll(room) ==
    /\ \E c \in cancelable : status[c] = "Active" \/ c \notin intents
    /\ IF room < MaxOrders THEN SinkOverflow /\ Fault ELSE UNCHANGED faults
    /\ cancel_orders_with(Sides, room)
    /\ Transmit
    /\ uncancelled' = uncancelled \cup
           {c \in Coids : status'[c] # status[c] /\ CancelOrder(c) \notin out'}
    /\ UNCHANGED <<srv, remaining, trade, mail, orphans, cancelConfirmed>>

Inject(s) ==
    /\ inject_open_order(s)
    /\ srv' = [srv EXCEPT ![nextId] = "resting"]
    /\ UNCHANGED <<posts, dels, remaining, trade, mail, orphans, faults, cancelConfirmed, uncancelled>>

\* The strategy thread hands an update to the order manager.
Deliver(u) ==
    /\ mail' = mail \ {u}
    /\ IF u.status = "ExecutorRejected"
       THEN on_signal_dropped(u.coid) ELSE on_order_update(u)
    /\ Transmit
    /\ cancelConfirmed' =
           CASE u.status = "Cancelled" /\ status[u.coid] # "Absent" ->
                    cancelConfirmed \cup {u.coid}
             [] u.status = "Accepted" -> cancelConfirmed \ {u.coid}
             [] OTHER -> cancelConfirmed
    /\ UNCHANGED <<srv, remaining, trade, orphans, faults, uncancelled>>

-----------------------------------------------------------------------------
\* Placements.

\* The stale-signal guard drops the placement.
PlaceDropped(c) ==
    /\ c \in posts /\ Fault
    /\ posts' = posts \ {c}
    /\ mail' = mail \cup {Update(c, "ExecutorRejected", "executor")}
    /\ Quiet /\ UNCHANGED <<dels, srv, remaining, trade, orphans>>

\* The POST is processed: the order rests, or is refused.
PlaceLands(c) ==
    /\ c \in posts
    /\ posts' = posts \ {c}
    /\ \/ /\ srv' = [srv EXCEPT ![c] = "resting"]
          /\ mail' = mail \cup {Update(c, "Accepted", "reply"), Update(c, "Accepted", "stream")}
       \/ /\ srv' = [srv EXCEPT ![c] = "closed"]
          /\ mail' = mail \cup {Update(c, "Rejected", "reply")}
    /\ Quiet /\ UNCHANGED <<dels, remaining, trade, orphans, faults>>

\* The POST times out; the exchange may still be processing it.
PlaceTimesOut(c) ==
    /\ c \in posts /\ Fault
    /\ posts' = posts \ {c}
    /\ srv' = [srv EXCEPT ![c] = "delayed"]
    /\ mail' = mail \cup {Update(c, "NewOrderTimeout", "reply")}
    /\ Quiet /\ UNCHANGED <<dels, remaining, trade, orphans>>

\* The delayed placement lands and is reported by the private stream, or by the
\* reconciler as LIVE; or the reconciler proves that it never will.
DelayedResolves(c) ==
    /\ srv[c] = "delayed"
    /\ \/ /\ srv' = [srv EXCEPT ![c] = "resting"]
          /\ \E via \in {"stream", "reconcile"} :
                 mail' = mail \cup {Update(c, "Accepted", via)}
       \/ /\ srv' = [srv EXCEPT ![c] = "closed"]
          /\ mail' = mail \cup {Update(c, "Rejected", "reconcile")}
    /\ Quiet /\ UNCHANGED <<posts, dels, remaining, trade, orphans, faults>>

-----------------------------------------------------------------------------
\* Fills.

\* The exchange gives its trades identities in some fixed order.
IsNext(t) == t \in Unused /\ t = (CHOOSE u \in Unused : TRUE) /\ MayHappen

\* Trade t matches q of order c, which rests.
Match(c, t, q) ==
    /\ srv[c] = "resting" /\ IsNext(t) /\ q <= remaining[c]
    /\ trade' = [trade EXCEPT ![t] = [coid |-> c, qty |-> q, stage |-> "matched"]]
    /\ remaining' = [remaining EXCEPT ![c] = @ - q]
    /\ srv' = IF q = remaining[c] THEN [srv EXCEPT ![c] = "closed"] ELSE srv
    /\ mail' = mail \cup {TradeUpdate(c, t, q, "PartiallyFilled")}
    /\ Quiet /\ UNCHANGED <<posts, dels, orphans, faults>>

\* The POST matches completely: its reply is a Filled without quantity.
PlaceMatches(c, t) ==
    /\ c \in posts /\ IsNext(t)
    /\ posts' = posts \ {c}
    /\ trade' = [trade EXCEPT ![t] = [coid |-> c, qty |-> Quantity, stage |-> "matched"]]
    /\ remaining' = [remaining EXCEPT ![c] = 0]
    /\ srv' = [srv EXCEPT ![c] = "closed"]
    /\ mail' = mail \cup {Update(c, "Filled", "reply"),
                          TradeUpdate(c, t, Quantity, "PartiallyFilled")}
    /\ Quiet /\ UNCHANGED <<dels, orphans, faults>>

\* The settlement of trade t makes progress: MINED, then CONFIRMED, or FAILED.
Settle(t) ==
    LET r == trade[t]
        To(stage, st) ==
            /\ trade' = [trade EXCEPT ![t].stage = stage]
            /\ mail' = mail \cup {TradeUpdate(r.coid, t, r.qty, st)}
    IN  /\ \/ r.stage = "matched" /\ To("mined", "PartiallyFilled")
           \/ r.stage = "mined" /\ To("confirmed", "Filled")
           \/ r.stage \in {"matched", "mined"} /\ To("failed", "Failed")
        /\ Quiet /\ UNCHANGED <<posts, dels, srv, remaining, orphans, faults>>

-----------------------------------------------------------------------------
\* Cancels.

CancelDropped(c) ==
    /\ dels[c] > 0 /\ Fault
    /\ dels' = [dels EXCEPT ![c] = @ - 1]
    /\ mail' = mail \cup {Update(c, "ExecutorRejected", "executor")}
    /\ Quiet /\ UNCHANGED <<posts, srv, remaining, trade, orphans>>

\* The DELETE fails definitely, or the order has no exchange id yet: the adapter
\* answers Accepted.
CancelFails(c) ==
    /\ CancelErrors
    /\ dels[c] > 0 /\ Fault
    /\ dels' = [dels EXCEPT ![c] = @ - 1]
    /\ mail' = mail \cup {Update(c, "Accepted", "cancel")}
    /\ uncancelled' = uncancelled \cup {c}
    /\ Idle /\ UNCHANGED <<posts, srv, remaining, trade, orphans>>

\* The exchange handles a DELETE of c; the answer comes back via via.
DeleteAt(c, via) ==
    IF srv[c] = "resting"
    THEN /\ srv' = [srv EXCEPT ![c] = "closed"]
         /\ mail' = mail \cup {Update(c, "Cancelled", via), Update(c, "Cancelled", "stream")}
    ELSE /\ mail' = mail \cup
                {Update(c, IF remaining[c] = 0 THEN "Filled" ELSE "Cancelled", via)}
         /\ UNCHANGED srv

CancelReaches(c) ==
    /\ dels[c] > 0
    /\ dels' = [dels EXCEPT ![c] = @ - 1]
    /\ DeleteAt(c, "cancel")
    /\ Quiet /\ UNCHANGED <<posts, remaining, trade, orphans, faults>>

\* The DELETE times out; it may or may not have reached the exchange.
CancelTimesOut(c) ==
    /\ dels[c] > 0 /\ Fault
    /\ dels' = [dels EXCEPT ![c] = @ - 1]
    /\ orphans' = orphans \cup {c}
    /\ LET answer == Update(c, "CancelOrderTimeout", "cancel") IN
       \/ mail' = mail \cup {answer} /\ UNCHANGED srv
       \/ /\ srv[c] = "resting"
          /\ srv' = [srv EXCEPT ![c] = "closed"]
          /\ mail' = mail \cup {answer, Update(c, "Cancelled", "stream")}
    /\ Quiet /\ UNCHANGED <<posts, remaining, trade>>

\* The reconciler resolves the uncertain cancel: it looks the order up and deletes
\* it again when it still rests.
Reconcile(c) ==
    /\ c \in orphans
    /\ orphans' = orphans \ {c}
    /\ DeleteAt(c, "reconcile")
    /\ Quiet /\ UNCHANGED <<posts, dels, remaining, trade, faults>>

-----------------------------------------------------------------------------
PlaceStep(c) ==
    PlaceDropped(c) \/ PlaceLands(c) \/ PlaceTimesOut(c) \/ \E t \in Trades : PlaceMatches(c, t)
CancelStep(c) == CancelDropped(c) \/ CancelFails(c) \/ CancelReaches(c) \/ CancelTimesOut(c)
AdapterStep(c) == PlaceStep(c) \/ DelayedResolves(c) \/ CancelStep(c) \/ Reconcile(c)

LifecycleNext ==
    \/ \E cancels \in SUBSET cancelable, place \in Sides \cup {"None"} : Quote(cancels, place)
    \/ \E room \in 0..MaxOrders : CancelAll(room)
    \/ \E s \in Sides : Inject(s)
    \/ \E u \in mail : Deliver(u)
    \/ \E c \in Coids : AdapterStep(c)
    \/ \E c \in Coids, t \in Trades, q \in Sizes : Match(c, t, q)
    \/ \E t \in Trades : Settle(t)

LifecycleSpec == LifecycleInit /\ [][LifecycleNext]_vars

\* Something of the executor, the adapter and the strategy thread goes on: the weakest
\* assumption, which each of them being scheduled implies.  The strategy keeps
\* cancelling what can be cancelled; it need not quote, and nothing need match.
Progress ==
    \/ \E c \in Coids : AdapterStep(c)
    \/ \E u \in mail : Deliver(u)
    \/ CancelAll(MaxOrders)

FairSpec == LifecycleSpec /\ WF_vars(Progress)

-----------------------------------------------------------------------------

Dust(c) == remaining[c] <= Quantity \div 100
Settled(c) ==
    /\ c \notin posts \cup orphans /\ dels[c] = 0
    /\ \A u \in mail : u.coid # c

\* locked_sell_qty, locked_buy_cost and live_count cover the book: an order that
\* rests with more than dust is counted until the exchange has closed it, in whatever
\* order acceptances, fills, cancels and repeated reports arrive.
LockedWhileResting == \A c \in Coids : srv[c] = "resting" /\ ~Dust(c) => c \in live

Forgotten(c) == srv[c] = "resting" /\ ~Dust(c) /\ Settled(c) /\ status[c] # "Active"

\* No forgotten order: when nothing about it is on its way any more, an order that
\* rests is Active, so that the next quote or cancel_all can still cancel it.  The
\* adapter counts on it when it answers a failed DELETE with Accepted.
NotWedged == \A c \in Coids : ~Forgotten(c)

\* The same of the orders none of whose DELETEs failed definitely or found the sink
\* full: late acceptances, drops, time-outs and repeated reports, in any order,
\* leave every resting order cancelable.
NotForgotten == \A c \in Coids \ uncancelled : ~Forgotten(c)

\* A confirmed Cancelled is terminal: unless an Accepted follows, no later report of
\* a trade makes the order Active, and a target of another DELETE, again.
CancelledIsTerminal == \A c \in cancelConfirmed : status[c] \notin {"Active", "Cancelling"}

\* Cancelling everything comes to an end unless a DELETE fails definitely or finds the
\* sink full: the book is empty and the order manager knows it, despite dropped and
\* timed-out requests and late acceptances.
BookEmptied ==
    <>[](uncancelled # {} \/ (live = {} /\ \A c \in Coids : srv[c] \in {"none", "closed"}))
=============================================================================
