---------------------------- MODULE OrderManager ----------------------------
(***************************************************************************)
(* The local order store of one outcome,                                   *)
(* hexagent-account/src/account/order_manager.rs, driven by the strategy   *)
(* thread that owns it and by the order updates that reach that thread.    *)
(* This module makes no assumption about the updates: any update may       *)
(* arrive at any time.  OrderLifecycle closes the system with an executor  *)
(* and an exchange.                                                        *)
(*                                                                         *)
(* Every order has the same Quantity; prices, symbols, timestamps and the  *)
(* telemetry counter are left out.  Client order ids are numbers handed    *)
(* out in increasing order (GLOBAL_ORDER_ID); the walk over the BTreeSet   *)
(* visits them in that order.                                              *)
(***************************************************************************)
EXTENDS Integers, FiniteSets, Functions

CONSTANTS
    MaxOrders,            \* bound on the number of orders of a behaviour
    Trades,               \* identities of private trades
    Quantity,             \* the size of an order
    Sizes                 \* the sizes a fill may have

NoTrade == "no trade"

ASSUME OrderAssumption ==
    /\ MaxOrders \in Nat \ {0}
    /\ Quantity \in Nat \ {0}
    /\ Sizes \subseteq 1..Quantity
    /\ IsFiniteSet(Trades) /\ NoTrade \notin Trades

VARIABLES
    status,               \* orders[c].status, or "Absent"
    side,                 \* orders[c].side
    filled,               \* orders[c].filled_by_trade, 0 for an absent trade
    cancelable, live,     \* cancelable_order_ids, live_order_ids
    intents,              \* cancel_intents
    nextId,               \* GLOBAL_ORDER_ID
    out,                  \* the signals the last operation emitted
    evidence              \* history: orders whose placement is proved to exist

omvars == <<status, side, filled, cancelable, live, intents, nextId, out, evidence>>

Coids == 1..MaxOrders
Sides == {"Buy", "Sell"}
LocalOrderStatus ==
    {"Submitted", "Active", "Cancelling", "Rejected", "Cancelled", "Matched"}
OrderStatus ==
    {"Accepted", "PartiallyFilled", "Filled", "Failed", "Cancelled", "Rejected",
     "NewOrderTimeout", "CancelOrderTimeout"}
NoFills == [t \in Trades |-> 0]

\* The fields of an OrderUpdate that the order manager reads.
Updates ==
    [coid : Coids, status : OrderStatus, trade : Trades \cup {NoTrade}, qty : Sizes \cup {0}]

NewOrder(c) == [op |-> "NewOrder", coid |-> c]
CancelOrder(c) == [op |-> "CancelOrder", coid |-> c]

Cancelable == {"Submitted", "Active"}
Live == {"Submitted", "Active", "Cancelling"}

Init ==
    /\ status = [c \in Coids |-> "Absent"]
    /\ side = [c \in Coids |-> "Buy"]
    /\ filled = [c \in Coids |-> NoFills]
    /\ cancelable = {} /\ live = {} /\ intents = {}
    /\ nextId = 1
    /\ out = {}
    /\ evidence = {}

-----------------------------------------------------------------------------
\* reindex_order(c), when c ends in status st.
Reindex(c, st) ==
    /\ cancelable' = IF st \in Cancelable THEN cancelable \cup {c} ELSE cancelable \ {c}
    /\ live' = IF st \in Live THEN live \cup {c} ELSE live \ {c}

IsTrade(u) == u.qty > 0 /\ u.trade # NoTrade
IsFill(u) == u.status = "PartiallyFilled" \/ (u.status = "Filled" /\ IsTrade(u))
IsReversal(u) == u.status = "Failed" /\ IsTrade(u)

\* Every report of a trade adds to what earlier reports of it added.
FilledAfter_NoDedup(u) ==
    IF IsFill(u) /\ u.trade # NoTrade
    THEN [filled[u.coid] EXCEPT ![u.trade] = @ + u.qty]
    ELSE IF IsReversal(u) THEN [filled[u.coid] EXCEPT ![u.trade] = 0]
    ELSE filled[u.coid]

\* filled_by_trade after update u: one entry for each trade id.
FilledAfter(u) ==
    IF IsFill(u) /\ u.trade # NoTrade
    THEN [filled[u.coid] EXCEPT ![u.trade] = u.qty]
    ELSE IF IsReversal(u) THEN [filled[u.coid] EXCEPT ![u.trade] = 0]
    ELSE filled[u.coid]

\* 99% of the order is executed.
Covers(quantity) == quantity >= Quantity - Quantity \div 100
Covered(u) == Covers(SumFunction(FilledAfter(u)))

\* The arms of on_order_update that assign a status.
StatusAfter(u) ==
    LET old == status[u.coid] IN
    CASE u.status = "Accepted" ->
           IF old \in {"Cancelling", "Matched"} THEN old ELSE "Active"
      [] IsFill(u) ->
           IF Covered(u) \/ (u.trade = NoTrade /\ Covers(u.qty)) THEN "Matched"
           ELSE IF old = "Cancelled" THEN old ELSE "Active"
      [] u.status = "Rejected" -> "Rejected"
      [] IsReversal(u) ->
           IF old \in {"Cancelled", "Rejected"} THEN old
           ELSE IF Covered(u) THEN "Matched" ELSE "Active"
      [] u.status \in {"Filled", "Failed"} /\ ~IsTrade(u) -> "Absent"
      [] u.status = "Cancelled" -> "Cancelled"
      [] OTHER -> old

\* A fill that covers the order and every order-level terminal drop the intent.
DropsIntent(u) ==
    \/ IsFill(u) /\ StatusAfter(u) = "Matched"
    \/ u.status \in {"Rejected", "Cancelled"}
    \/ u.status \in {"Filled", "Failed"} /\ ~IsTrade(u)

\* A placement timeout releases the parked cancel as well.
Releases_AlsoTimeout(u) ==
    u.status \in {"Accepted", "PartiallyFilled", "NewOrderTimeout"} \/ IsReversal(u)

\* The updates after which flush_cancel_intent emits the parked cancel.
Releases(u) == u.status \in {"Accepted", "PartiallyFilled"} \/ IsReversal(u)

on_order_update(u) ==
    LET c == u.coid
        after == StatusAfter(u)
        kept == IF DropsIntent(u) THEN intents \ {c} ELSE intents
        flushed == Releases(u) /\ c \in kept
        final == IF flushed THEN "Cancelling" ELSE after
    IN  IF status[c] = "Absent"
        THEN /\ intents' = intents \ {c}
             /\ out' = {}
             /\ UNCHANGED <<status, side, filled, cancelable, live, nextId, evidence>>
        ELSE /\ status' = [status EXCEPT ![c] = final]
             /\ filled' = [filled EXCEPT ![c] =
                               IF final = "Absent" THEN NoFills ELSE FilledAfter(u)]
             /\ intents' = IF Releases(u) THEN kept \ {c} ELSE kept
             /\ Reindex(c, final)
             /\ out' = IF flushed THEN {CancelOrder(c)} ELSE {}
             /\ evidence' = IF u.status = "Accepted" \/ IsFill(u) \/ IsReversal(u)
                            THEN evidence \cup {c} ELSE evidence
             /\ UNCHANGED <<side, nextId>>

\* A dropped cancel is treated like a cancel that is still on its way.
on_signal_dropped_IgnoresCancel(c) ==
    /\ IF status[c] = "Submitted"
       THEN /\ status' = [status EXCEPT ![c] = "Absent"]
            /\ intents' = intents \ {c}
            /\ Reindex(c, "Absent")
       ELSE UNCHANGED <<status, intents, cancelable, live>>
    /\ out' = {}
    /\ UNCHANGED <<side, filled, nextId, evidence>>

on_signal_dropped(c) ==
    /\ CASE status[c] = "Submitted" ->
              /\ status' = [status EXCEPT ![c] = "Absent"]
              /\ intents' = intents \ {c}
              /\ Reindex(c, "Absent")
         [] status[c] = "Cancelling" ->
              /\ status' = [status EXCEPT ![c] = "Active"]
              /\ intents' = intents
              /\ Reindex(c, "Active")
         [] OTHER -> UNCHANGED <<status, intents, cancelable, live>>
    /\ out' = {}
    /\ UNCHANGED <<side, filled, nextId, evidence>>

-----------------------------------------------------------------------------
\* request_cancel of each order of cancels: emitted for Active, parked for
\* Submitted, ignored otherwise.
Emitted(cancels) == {c \in cancels : status[c] = "Active"}
Parked(cancels) == {c \in cancels : status[c] = "Submitted"}

\* apply_reconcile_with on the decisions for some cancels and at most one place
\* (a side, or "None"): the place waits when a cancel of its side has to.
apply_reconcile(cancels, place) ==
    LET sent == Emitted(cancels)
        deferred == \E c \in Parked(cancels) : side[c] = place
        new == IF place = "None" \/ deferred THEN {} ELSE {nextId}
    IN  /\ new \subseteq Coids
        /\ status' = [c \in Coids |-> IF c \in new THEN "Submitted"
                                      ELSE IF c \in sent THEN "Cancelling"
                                      ELSE status[c]]
        /\ side' = [c \in Coids |-> IF c \in new THEN place ELSE side[c]]
        /\ intents' = (intents \ sent) \cup Parked(cancels)
        /\ cancelable' = (cancelable \ sent) \cup new
        /\ live' = live \cup new
        /\ nextId' = IF new = {} THEN nextId ELSE nextId + 1
        /\ out' = {CancelOrder(c) : c \in sent} \cup {NewOrder(c) : c \in new}
        /\ UNCHANGED <<filled, evidence>>

\* The order of the cancel walk: BUY before SELL, then by id.
Precedes(c, d) ==
    \/ side[c] = "Buy" /\ side[d] = "Sell"
    \/ side[c] = side[d] /\ c < d

\* The tail after a failed emission is not put back.
cancel_orders_with_LosesTail(sides, room) ==
    LET onSides == {c \in cancelable : side[c] \in sides}
        active == Emitted(onSides)
        Rank(c) == Cardinality({d \in active : Precedes(d, c)})
        failing == {c \in active : Rank(c) = room}
        visited == {c \in onSides : \A d \in failing : c = d \/ Precedes(c, d)}
    IN  /\ status' = [c \in Coids |-> IF c \in visited \cap active THEN "Cancelling"
                                      ELSE status[c]]
        /\ intents' = (intents \ (visited \cap active)) \cup Parked(visited)
        /\ cancelable' = IF failing = {} THEN cancelable \ active ELSE cancelable \ onSides
        /\ out' = {CancelOrder(c) : c \in (visited \cap active) \ failing}
        /\ UNCHANGED <<side, filled, live, nextId, evidence>>

\* cancel_orders_by_side_with for one side, cancel_all_with for both, into a sink
\* that takes room signals: the emission after them fails and ends the walk.
cancel_orders_with(sides, room) ==
    LET onSides == {c \in cancelable : side[c] \in sides}
        active == Emitted(onSides)
        Rank(c) == Cardinality({d \in active : Precedes(d, c)})
        failing == {c \in active : Rank(c) = room}
        visited == {c \in onSides : \A d \in failing : c = d \/ Precedes(c, d)}
    IN  /\ status' = [c \in Coids |-> IF c \in visited \cap active THEN "Cancelling"
                                      ELSE status[c]]
        /\ intents' = (intents \ (visited \cap active)) \cup Parked(visited)
        /\ cancelable' = cancelable \ (visited \cap active)
        /\ out' = {CancelOrder(c) : c \in (visited \cap active) \ failing}
        /\ UNCHANGED <<side, filled, live, nextId, evidence>>

\* inject_open_order: an order found on the exchange at startup.
inject_open_order(s) ==
    /\ nextId \in Coids
    /\ nextId' = nextId + 1
    /\ status' = [status EXCEPT ![nextId] = "Active"]
    /\ side' = [side EXCEPT ![nextId] = s]
    /\ filled' = [filled EXCEPT ![nextId] = NoFills]
    /\ Reindex(nextId, "Active")
    /\ out' = {}
    /\ evidence' = evidence \cup {nextId}
    /\ UNCHANGED intents

Next ==
    \/ \E u \in Updates : on_order_update(u)
    \/ \E c \in Coids : on_signal_dropped(c)
    \/ \E cancels \in SUBSET Coids, place \in Sides \cup {"None"} :
           apply_reconcile(cancels, place)
    \/ \E sides \in SUBSET Sides, room \in 0..MaxOrders : cancel_orders_with(sides, room)
    \/ \E s \in Sides : inject_open_order(s)

Spec == Init /\ [][Next]_omvars

-----------------------------------------------------------------------------
TypeOK ==
    /\ status \in [Coids -> LocalOrderStatus \cup {"Absent"}]
    /\ side \in [Coids -> Sides]
    /\ filled \in [Coids -> [Trades -> Nat]]
    /\ cancelable \subseteq Coids /\ live \subseteq Coids /\ intents \subseteq Coids
    /\ nextId \in 1..MaxOrders + 1
    /\ out \subseteq {NewOrder(c) : c \in Coids} \cup {CancelOrder(c) : c \in Coids}
    /\ evidence \subseteq Coids

\* The two indexes that the counts, the queries and the cancel walks read hold
\* exactly the orders whose status says so, whatever updates arrive and wherever a
\* full sink ends a cancel walk.
IndexesAgree ==
    /\ cancelable = {c \in Coids : status[c] \in Cancelable}
    /\ live = {c \in Coids : status[c] \in Live}

\* No DELETE overtakes its POST: a cancel is emitted only for an order whose
\* placement an Accepted, a fill, a reversal or the startup sync has proved.
NoBlindDelete == \A c \in Coids : CancelOrder(c) \in out => c \in evidence

\* A parked cancel belongs to an order that may still be cancelled, so that
\* releasing it never moves a terminal or forgotten order back to Cancelling.
IntentsCancelable == intents \subseteq {c \in Coids : status[c] \in Cancelable}
=============================================================================
