------------------------- MODULE OrderManagerProofs -------------------------
(***************************************************************************)
(* The safety properties of OrderManager for every number of orders, every *)
(* set of trades and every sequence of updates, and those of the lifecycle *)
(* of OrderLifecycle: with the executor, the adapter and the exchange, for *)
(* every number of faults and of trades of every size.                     *)
(***************************************************************************)
EXTENDS OrderLifecycle, FiniteSetTheorems, WellFoundedInduction, TLAPS

\* An order counts as live on the exchange only after its placement was proved.
Proved == \A c \in Coids : status[c] \in {"Active", "Cancelling", "Matched"} => c \in evidence

IInv == TypeOK /\ IndexesAgree /\ IntentsCancelable /\ NoBlindDelete /\ Proved

\* The signals of different operations differ, and name their order.
LEMMA Signals ==
    \A c, d \in Coids :
        /\ NewOrder(c) # CancelOrder(d)
        /\ CancelOrder(c) = CancelOrder(d) => c = d
BY DEF NewOrder, CancelOrder

\* What on_order_update needs of an update: any quantity, and fields it does not read.
WellFormed(u) ==
    /\ u.coid \in Coids /\ u.status \in OrderStatus
    /\ u.trade \in Trades \cup {NoTrade} /\ u.qty \in Nat

LEMMA UpdatesWellFormed == \A u \in Updates : WellFormed(u)
<1> SUFFICES ASSUME NEW u \in Updates PROVE WellFormed(u)
  OBVIOUS
<1>1. /\ u.coid \in Coids /\ u.status \in OrderStatus
      /\ u.trade \in Trades \cup {NoTrade} /\ u.qty \in Sizes \cup {0}
  BY DEF Updates
<1>2. Sizes \subseteq Nat /\ 0 \in Nat
  BY OrderAssumption
<1>3. u.qty \in Nat
  BY <1>1, <1>2, ZenonT(40)
<1> QED
  BY <1>1, <1>3 DEF WellFormed

\* What the arms of on_order_update assign: a local status, which is live or matched
\* only when the order was or when the update proves the placement.
LEMMA StatusAfterType ==
    ASSUME TypeOK, NEW u, WellFormed(u), status[u.coid] # "Absent"
    PROVE  /\ StatusAfter(u) \in LocalOrderStatus \cup {"Absent"}
           /\ StatusAfter(u) \in {"Active", "Cancelling", "Matched"} =>
                 \/ StatusAfter(u) = status[u.coid]
                 \/ u.status = "Accepted" \/ IsFill(u) \/ IsReversal(u)
<1>1. status[u.coid] \in LocalOrderStatus
  BY DEF TypeOK, WellFormed
<1>2. u.status \in OrderStatus
  BY DEF WellFormed
<1> QED
  BY <1>1, <1>2 DEF StatusAfter, LocalOrderStatus, OrderStatus, IsFill, IsReversal, IsTrade

\* filled_by_trade stays a map from trades to quantities.
LEMMA FilledAfterType ==
    ASSUME TypeOK, NEW u, WellFormed(u)
    PROVE  FilledAfter(u) \in [Trades -> Nat]
<1>1. filled[u.coid] \in [Trades -> Nat] /\ u.qty \in Nat /\ 0 \in Nat
  BY DEF TypeOK, WellFormed
<1>2. \A q \in Nat : \A t : [filled[u.coid] EXCEPT ![t] = q] \in [Trades -> Nat]
  BY <1>1, ZenonT(40)
<1> QED
  BY <1>1, <1>2 DEF FilledAfter

\* An update that leaves a parked cancel in place leaves its order cancelable: only a
\* handled terminal ends an order, and each of them drops the intent.
LEMMA IntentSurvives ==
    ASSUME TypeOK, IntentsCancelable, NEW u, WellFormed(u), u.coid \in intents,
           ~DropsIntent(u), ~Releases(u)
    PROVE  StatusAfter(u) \in Cancelable
<1>1. status[u.coid] \in Cancelable
  BY DEF IntentsCancelable, WellFormed
<1>2. u.status \in OrderStatus
  BY DEF WellFormed
<1> QED
  BY <1>1, <1>2 DEF StatusAfter, OrderStatus, IsFill, IsReversal, IsTrade, DropsIntent,
    Releases, Cancelable

\* The empty order manager satisfies the invariant.
LEMMA InitIInv == Init => IInv
BY OrderAssumption DEF Init, IInv, TypeOK, IndexesAgree, IntentsCancelable, NoBlindDelete,
    Proved, Coids, Sides, NoFills, Cancelable, Live

\* on_order_update preserves the invariant.
LEMMA UpdateIInv == ASSUME IInv, NEW u, WellFormed(u), on_order_update(u) PROVE IInv'
<1> DEFINE c == u.coid
           kept == IF DropsIntent(u) THEN intents \ {c} ELSE intents
           flushed == Releases(u) /\ c \in kept
           final == IF flushed THEN "Cancelling" ELSE StatusAfter(u)
<1>0. c \in Coids
  BY DEF WellFormed
<1>1. CASE status[c] = "Absent"
  <2>1. /\ intents' = intents \ {c} /\ out' = {}
        /\ UNCHANGED <<status, side, filled, cancelable, live, nextId, evidence>>
    BY <1>1 DEF on_order_update
  <2> QED
    BY <2>1 DEF IInv, TypeOK, IndexesAgree, IntentsCancelable, NoBlindDelete, Proved
<1>2. CASE status[c] # "Absent"
  <2>1. /\ status' = [status EXCEPT ![c] = final]
        /\ filled' = [filled EXCEPT ![c] =
                          IF final = "Absent" THEN NoFills ELSE FilledAfter(u)]
        /\ intents' = IF Releases(u) THEN kept \ {c} ELSE kept
        /\ Reindex(c, final)
        /\ out' = IF flushed THEN {CancelOrder(c)} ELSE {}
        /\ evidence' = IF u.status = "Accepted" \/ IsFill(u) \/ IsReversal(u)
                       THEN evidence \cup {c} ELSE evidence
        /\ UNCHANGED <<side, nextId>>
    BY <1>2 DEF on_order_update
  <2>2. final \in LocalOrderStatus \cup {"Absent"}
    BY <1>2, StatusAfterType DEF IInv, LocalOrderStatus
  <2>3. FilledAfter(u) \in [Trades -> Nat] /\ NoFills \in [Trades -> Nat]
    BY FilledAfterType DEF IInv, NoFills
  <2>4. flushed => u.status = "Accepted" \/ IsFill(u) \/ IsReversal(u)
    BY DEF Releases, IsFill
  <2>5. final \in {"Active", "Cancelling", "Matched"} => c \in evidence'
    BY <1>0, <1>2, <2>1, <2>4, StatusAfterType DEF IInv, Proved
  <2>6. c \in intents' => final \in Cancelable
    BY <2>1, IntentSurvives DEF IInv
  <2> HIDE DEF final, kept, flushed
  <2>7. flushed => final = "Cancelling"
    BY DEF final
  <2>8. kept \subseteq intents
    BY DEF kept
  <2>a. TypeOK'
    BY <1>0, <2>1, <2>2, <2>3, <2>8 DEF IInv, TypeOK, Reindex
  <2>b. IndexesAgree'
    BY <1>0, <2>1 DEF IInv, TypeOK, IndexesAgree, Reindex
  <2>c. IntentsCancelable'
    BY <1>0, <2>1, <2>6, <2>8 DEF IInv, TypeOK, IntentsCancelable
  <2>d. NoBlindDelete'
    BY <1>0, <2>1, <2>5, <2>7, Signals DEF NoBlindDelete
  <2>e. Proved'
    BY <1>0, <2>1, <2>5 DEF IInv, TypeOK, Proved
  <2> QED
    BY <2>a, <2>b, <2>c, <2>d, <2>e DEF IInv
<1> QED
  BY <1>1, <1>2

\* on_signal_dropped preserves the invariant.
LEMMA DroppedIInv == ASSUME IInv, NEW c \in Coids, on_signal_dropped(c) PROVE IInv'
<1>1. CASE status[c] = "Submitted"
  BY <1>1 DEF on_signal_dropped, Reindex, IInv, TypeOK, IndexesAgree, IntentsCancelable,
    NoBlindDelete, Proved, Cancelable, Live, LocalOrderStatus
<1>2. CASE status[c] = "Cancelling"
  <2>1. /\ status' = [status EXCEPT ![c] = "Active"] /\ out' = {} /\ intents' = intents
        /\ Reindex(c, "Active")
        /\ UNCHANGED <<side, filled, nextId, evidence>>
    BY <1>2 DEF on_signal_dropped
  <2>a. TypeOK'
    BY <2>1 DEF IInv, TypeOK, Reindex, LocalOrderStatus
  <2>b. IndexesAgree'
    BY <2>1 DEF IInv, TypeOK, IndexesAgree, Reindex, Cancelable, Live
  <2>c. IntentsCancelable' /\ NoBlindDelete' /\ Proved'
    BY <1>2, <2>1 DEF IInv, TypeOK, IntentsCancelable, NoBlindDelete, Proved, Cancelable
  <2> QED
    BY <2>a, <2>b, <2>c DEF IInv
<1>3. CASE status[c] \notin {"Submitted", "Cancelling"}
  BY <1>3 DEF on_signal_dropped, IInv, TypeOK, IndexesAgree, IntentsCancelable,
    NoBlindDelete, Proved
<1> QED
  BY <1>1, <1>2, <1>3

\* Cancelling the Active orders of sent and parking the Submitted orders of parked,
\* as both cancel paths do, preserves the invariant.
LEMMA CancelIInv ==
    ASSUME IInv, NEW sent \in SUBSET Coids, NEW parked \in SUBSET Coids,
           NEW emitted \in SUBSET sent,
           \A c \in sent : status[c] = "Active",
           \A c \in parked : status[c] = "Submitted",
           status' = [c \in Coids |-> IF c \in sent THEN "Cancelling" ELSE status[c]],
           intents' = (intents \ sent) \cup parked,
           cancelable' = cancelable \ sent,
           out' = {CancelOrder(c) : c \in emitted},
           UNCHANGED <<side, filled, live, nextId, evidence>>
    PROVE  IInv'
<1>1. TypeOK'
  BY DEF IInv, TypeOK, LocalOrderStatus
<1>2. IndexesAgree'
  BY DEF IInv, TypeOK, IndexesAgree, Cancelable, Live
<1>3. IntentsCancelable'
  BY DEF IInv, TypeOK, IntentsCancelable, Cancelable
<1>4. NoBlindDelete'
  <2> SUFFICES ASSUME NEW c \in Coids, CancelOrder(c) \in out' PROVE c \in evidence'
    BY DEF NoBlindDelete
  <2>1. c \in sent
    BY Signals
  <2> QED
    BY <2>1 DEF IInv, Proved
<1>5. Proved'
  BY DEF IInv, TypeOK, Proved
<1> QED
  BY <1>1, <1>2, <1>3, <1>4, <1>5 DEF IInv

\* The cancel walks preserve the invariant, wherever a full sink ends them.
LEMMA WalkIInv ==
    ASSUME IInv, NEW sides, NEW room, cancel_orders_with(sides, room) PROVE IInv'
<1> DEFINE onSides == {c \in cancelable : side[c] \in sides}
           active == Emitted(onSides)
           Rank(c) == Cardinality({d \in active : Precedes(d, c)})
           failing == {c \in active : Rank(c) = room}
           visited == {c \in onSides : \A d \in failing : c = d \/ Precedes(c, d)}
<1>1. /\ status' = [c \in Coids |-> IF c \in visited \cap active THEN "Cancelling"
                                    ELSE status[c]]
      /\ intents' = (intents \ (visited \cap active)) \cup Parked(visited)
      /\ cancelable' = cancelable \ (visited \cap active)
      /\ out' = {CancelOrder(c) : c \in (visited \cap active) \ failing}
      /\ UNCHANGED <<side, filled, live, nextId, evidence>>
  BY DEF cancel_orders_with
<1>2. onSides \subseteq Coids
  BY DEF IInv, TypeOK
<1> HIDE DEF failing, onSides
<1>3. visited \in SUBSET Coids
  BY <1>2
<1> HIDE DEF visited
<1>4. \A c \in visited \cap active : status[c] = "Active"
  BY DEF Emitted
<1> HIDE DEF active
<1>5. \A c \in Parked(visited) : status[c] = "Submitted"
  BY DEF Parked
<1>6. Parked(visited) \in SUBSET Coids
  BY <1>3 DEF Parked
<1> QED
  BY <1>1, <1>3, <1>4, <1>5, <1>6, CancelIInv, ZenonT(40)

\* apply_reconcile preserves the invariant: it is a cancel, and perhaps a new order.
LEMMA ReconcileIInv ==
    ASSUME IInv, NEW cancels \in SUBSET Coids, NEW place \in Sides \cup {"None"},
           apply_reconcile(cancels, place)
    PROVE  IInv'
<1> DEFINE sent == Emitted(cancels)
           deferred == \E c \in Parked(cancels) : side[c] = place
           new == IF place = "None" \/ deferred THEN {} ELSE {nextId}
<1>1. /\ new \subseteq Coids
      /\ status' = [c \in Coids |-> IF c \in new THEN "Submitted"
                                    ELSE IF c \in sent THEN "Cancelling"
                                    ELSE status[c]]
      /\ side' = [c \in Coids |-> IF c \in new THEN place ELSE side[c]]
      /\ intents' = (intents \ sent) \cup Parked(cancels)
      /\ cancelable' = (cancelable \ sent) \cup new
      /\ live' = live \cup new
      /\ nextId' = IF new = {} THEN nextId ELSE nextId + 1
      /\ out' = {CancelOrder(c) : c \in sent} \cup {NewOrder(c) : c \in new}
      /\ UNCHANGED <<filled, evidence>>
  BY DEF apply_reconcile
<1>2. new # {} => place \in Sides /\ new = {nextId}
  OBVIOUS
<1> HIDE DEF new
<1>3. sent \subseteq Coids /\ \A c \in sent : status[c] = "Active"
  BY DEF Emitted
<1>4. Parked(cancels) \subseteq Coids /\ \A c \in Parked(cancels) : status[c] = "Submitted"
  BY DEF Parked
<1> HIDE DEF sent
<1>5. TypeOK'
  <2>1. nextId' \in 1..MaxOrders + 1
    BY <1>1, <1>2, OrderAssumption DEF IInv, TypeOK, Coids
  <2>2. side' \in [Coids -> Sides]
    BY <1>1, <1>2 DEF IInv, TypeOK
  <2> QED
    BY <1>1, <1>3, <1>4, <2>1, <2>2 DEF IInv, TypeOK, LocalOrderStatus
<1>6. IndexesAgree'
  BY <1>1, <1>3 DEF IInv, TypeOK, IndexesAgree, Cancelable, Live
<1>7. IntentsCancelable'
  BY <1>1, <1>3, <1>4 DEF IInv, TypeOK, IntentsCancelable, Cancelable
<1>8. NoBlindDelete'
  <2> SUFFICES ASSUME NEW c \in Coids, CancelOrder(c) \in out' PROVE c \in evidence'
    BY DEF NoBlindDelete
  <2>1. c \in sent
    BY <1>1, <1>3, Signals
  <2> QED
    BY <1>1, <1>3, <2>1 DEF IInv, Proved
<1>9. Proved'
  BY <1>1, <1>3 DEF IInv, TypeOK, Proved
<1> QED
  BY <1>5, <1>6, <1>7, <1>8, <1>9 DEF IInv

\* The startup sync preserves the invariant.
LEMMA InjectIInv == ASSUME IInv, NEW s \in Sides, inject_open_order(s) PROVE IInv'
<1>1. TypeOK'
  BY OrderAssumption DEF inject_open_order, Reindex, IInv, TypeOK, LocalOrderStatus, Coids, NoFills
<1>2. IndexesAgree'
  BY DEF inject_open_order, Reindex, IInv, TypeOK, IndexesAgree, Cancelable, Live
<1>3. IntentsCancelable' /\ NoBlindDelete' /\ Proved'
  BY DEF inject_open_order, IInv, TypeOK, IntentsCancelable, NoBlindDelete, Proved, Cancelable
<1> QED
  BY <1>1, <1>2, <1>3 DEF IInv

\* Every operation of the order manager preserves the invariant.
LEMMA NextIInv == IInv /\ [Next]_omvars => IInv'
<1> SUFFICES ASSUME IInv, [Next]_omvars PROVE IInv'
  OBVIOUS
<1>1. CASE UNCHANGED omvars
  BY <1>1 DEF omvars, IInv, TypeOK, IndexesAgree, IntentsCancelable, NoBlindDelete, Proved
<1>2. CASE Next
  BY <1>2, UpdatesWellFormed, UpdateIInv, DroppedIInv, ReconcileIInv, WalkIInv, InjectIInv DEF Next
<1> QED
  BY <1>1, <1>2

\* The induction: IInv holds in every reachable state.
LEMMA Invariance == Spec => []IInv
BY InitIInv, NextIInv, PTL DEF Spec

\* For any number of orders, any updates in any order and any interrupted cancel walk,
\* the secondary indexes agree with the order table.
THEOREM OrderManagerSafety == Spec => []IndexesAgree
<1>1. IInv => IndexesAgree
  BY DEF IInv
<1> QED
  BY Invariance, <1>1, PTL

\* No DELETE is emitted for an order whose placement is not proved: a cancel that
\* comes first is parked until it is.
THEOREM OrderManagerNoBlindDelete == Spec => []NoBlindDelete
<1>1. IInv => NoBlindDelete
  BY DEF IInv
<1> QED
  BY Invariance, <1>1, PTL

\* A parked cancel always belongs to an order that may still be canceled.
THEOREM OrderManagerIntents == Spec => []IntentsCancelable
<1>1. IInv => IntentsCancelable
  BY DEF IInv
<1> QED
  BY Invariance, <1>1, PTL

-----------------------------------------------------------------------------
USE ZenonT(40)
(* The lifecycle: the order manager with its executor, adapter and exchange *)

\* The exchange has processed the placement and taken the order.
Placed == {"resting", "closed"}

LifecycleTypeOK ==
    /\ posts \subseteq Coids /\ orphans \subseteq Coids
    /\ dels \in [Coids -> Nat]
    /\ srv \in [Coids -> {"none", "delayed", "resting", "closed"}]
    /\ remaining \in [Coids -> 0..Quantity]
    /\ trade \in [Trades -> [coid : Coids \cup {0}, qty : 0..Quantity,
                             stage : {"none", "matched", "mined", "confirmed", "failed"}]]

\* Every trade in settlement is of a placed order.
Settling ==
    \A t \in Trades : trade[t].stage \in {"matched", "mined"} =>
        /\ trade[t].coid \in Coids /\ trade[t].qty > 0
        /\ trade[t].coid < nextId /\ srv[trade[t].coid] \in Placed

\* What is known of an update while it is on its way: a trade report is exact, an
\* order-level terminal means that the order is closed, and the drop of a placement
\* means that the exchange never sees it.
TradeLetter(u) ==
    /\ u.trade \in Trades /\ u.qty > 0 /\ u.status \in {"PartiallyFilled", "Filled", "Failed"}
    /\ trade[u.trade].coid = u.coid /\ trade[u.trade].qty = u.qty
    /\ srv[u.coid] \in Placed
OrderLetter(u) ==
    /\ u.trade = NoTrade /\ u.qty = 0
    /\ \/ u.status \in {"Rejected", "Cancelled", "Filled"} /\ srv[u.coid] = "closed"
       \/ u.status = "Accepted" /\ srv[u.coid] \in Placed
       \/ u.status \in {"NewOrderTimeout", "CancelOrderTimeout"}
       \/ /\ u.status = "ExecutorRejected"
          /\ status[u.coid] = "Submitted" => srv[u.coid] = "none" /\ u.coid \notin posts
Letter(u) == u.coid \in Coids /\ u.coid < nextId /\ (TradeLetter(u) \/ OrderLetter(u))
Letters == \A u \in mail : Letter(u)

\* A cancel follows evidence of the placement, which the exchange then has; until
\* the placement is processed or given up its order is Submitted.
Book(c) ==
    /\ c \in evidence => srv[c] \in Placed /\ status[c] # "Submitted"
    /\ dels[c] > 0 \/ c \in orphans => c \in evidence
    /\ c \in posts => srv[c] = "none"
    /\ c \in posts \/ srv[c] = "delayed" => status[c] = "Submitted"
    /\ c >= nextId => status[c] = "Absent" /\ srv[c] = "none"
    /\ srv[c] \in {"none", "delayed"} => remaining[c] = Quantity

\* An order on the book is live unless what is left of it is dust.
Counted(c) == srv[c] = "resting" /\ ~Dust(c) => status[c] \in Live

\* Something that will move it on is on its way to an order on the book that is
\* Submitted or Cancelling.
Awaits(c, st) == \E u \in mail : u.coid = c /\ u.status = st
Coming(c) ==
    srv[c] = "resting" =>
        /\ status[c] = "Submitted" => Awaits(c, "Accepted")
        /\ status[c] = "Cancelling" =>
               dels[c] > 0 \/ c \in orphans \cup uncancelled \/ Awaits(c, "ExecutorRejected")

\* What the exchange matched of c, by trade: the order manager has booked no more, and
\* it is what is missing in remaining.
Share(c) == [t \in Trades |-> IF trade[t].coid = c THEN trade[t].qty ELSE 0]
Booked == \A c \in Coids, t \in Trades : filled[c][t] <= Share(c)[t]
Conserved == \A c \in Coids : SumFunction(Share(c)) + remaining[c] = Quantity

Orders == \A c \in Coids : Book(c) /\ Counted(c) /\ Coming(c)
\* The lifecycle without the sums.
Flow == IInv /\ LifecycleTypeOK /\ Settling /\ Letters /\ Orders
LInv == Flow /\ Booked /\ Conserved

\* What no step takes back.
Forward ==
    /\ nextId' = nextId \/ nextId < nextId'
    /\ \A c \in Coids : srv[c] = "closed" => srv'[c] = "closed"
    /\ \A c \in Coids : srv[c] \in Placed => srv'[c] \in Placed
    /\ \A t \in Trades : trade[t].coid # 0 =>
           trade'[t].coid = trade[t].coid /\ trade'[t].qty = trade[t].qty
    /\ \A c \in Coids :
           c < nextId /\ status'[c] = "Submitted" /\ (srv'[c] # "none" \/ c \in posts') =>
               status[c] = "Submitted" /\ (srv[c] # "none" \/ c \in posts)

\* What is known of an update stays true.
LEMMA LetterStays ==
    ASSUME IInv, LifecycleTypeOK, nextId' \in Int, Forward, NEW u, Letter(u) PROVE Letter(u)'
<1>1. u.coid \in Coids /\ u.coid < nextId /\ (nextId' = nextId \/ nextId < nextId')
  BY DEF Letter, Forward
<1>0. nextId \in Int
  BY OrderAssumption, SMTT(40) DEF IInv, TypeOK
<1>2. u.coid \in Int /\ u.coid # 0
  BY <1>1, OrderAssumption, SMTT(40) DEF Coids
<1>3. u.coid < nextId'
  BY <1>0, <1>1, <1>2, SMTT(40)
<1>4. CASE TradeLetter(u)
  BY <1>1, <1>2, <1>3, <1>4 DEF Letter, TradeLetter, Forward
<1>5. CASE OrderLetter(u)
  BY <1>1, <1>3, <1>5 DEF Letter, OrderLetter, Forward
<1> QED
  BY <1>4, <1>5 DEF Letter

\* The letters after a step are those of before and new ones.
LEMMA LettersStay ==
    ASSUME Flow, nextId' \in Int, Forward, NEW new, mail' \subseteq mail \cup new,
           \A u \in new : Letter(u)'
    PROVE  Letters'
BY LetterStays DEF Flow, Letters

\* A step of the environment keeps the order manager's invariant.
LEMMA IdleIInv == ASSUME IInv, Idle PROVE IInv'
BY DEF Idle, IInv, TypeOK, IndexesAgree, IntentsCancelable, NoBlindDelete, Proved

\* A step of the environment that touches no order but c.
Only(c) ==
    /\ \A d \in Coids \ {c} :
           /\ srv'[d] = srv[d] /\ remaining'[d] = remaining[d] /\ dels'[d] = dels[d]
           /\ d \in posts' <=> d \in posts
           /\ d \in orphans' <=> d \in orphans
    /\ mail \subseteq mail' /\ uncancelled \subseteq uncancelled'

LEMMA OthersStay == ASSUME Flow, Idle, NEW c \in Coids, Only(c), NEW d \in Coids \ {c}
                    PROVE  Book(d)' /\ Counted(d)' /\ Coming(d)'
<1>1. Book(d) /\ Counted(d) /\ Coming(d)
  BY DEF Flow, Orders
<1>2. /\ status' = status /\ nextId' = nextId /\ evidence' = evidence
      /\ srv'[d] = srv[d] /\ remaining'[d] = remaining[d] /\ dels'[d] = dels[d]
      /\ d \in posts' <=> d \in posts
      /\ d \in orphans' <=> d \in orphans
      /\ d \in uncancelled => d \in uncancelled'
  BY DEF Idle, Only
<1>3. \A st : Awaits(d, st) => Awaits(d, st)'
  BY DEF Awaits, Only
<1>4. Book(d)'
  BY <1>1, <1>2 DEF Book
<1>5. Counted(d)'
  BY <1>1, <1>2 DEF Counted, Dust
<1>6. Coming(d)'
  BY <1>1, <1>2, <1>3 DEF Coming
<1> QED
  BY <1>4, <1>5, <1>6

\* Trades in settlement stay of placed orders when no trade changes.
LEMMA SettlingStays ==
    ASSUME Flow, nextId' \in Int, Forward, UNCHANGED trade PROVE Settling'
<1> SUFFICES ASSUME NEW t \in Trades, trade[t].stage \in {"matched", "mined"}
             PROVE  /\ trade[t].coid \in Coids /\ trade[t].qty > 0
                    /\ trade[t].coid < nextId' /\ srv'[trade[t].coid] \in Placed
  BY DEF Settling
<1>1. /\ trade[t].coid \in Coids /\ trade[t].qty > 0
      /\ trade[t].coid < nextId /\ srv[trade[t].coid] \in Placed
  BY DEF Flow, Settling
<1>2. nextId \in Int /\ trade[t].coid \in Int
  BY <1>1, OrderAssumption, SMTT(40) DEF Flow, IInv, TypeOK, Coids
<1>4. nextId' = nextId \/ nextId < nextId'
  BY DEF Forward
<1>3. trade[t].coid < nextId'
  BY <1>1, <1>2, <1>4, SMTT(40)
<1> QED
  BY <1>1, <1>3 DEF Forward

\* The mail is what it was and some new letters.
Posted(new) == mail' \subseteq mail \cup new /\ \A u \in new : Letter(u)'

\* The frame of the environment's steps: a step on order c that adds letters.
LEMMA FlowStep ==
    ASSUME Flow, Idle, NEW c \in Coids, Only(c), Forward, LifecycleTypeOK', Settling',
           NEW new, Posted(new), Book(c)', Counted(c)', Coming(c)'
    PROVE  Flow'
<1>1. IInv'
  BY IdleIInv DEF Flow
<1>2. nextId' \in Int
  BY OrderAssumption, SMTT(40) DEF Flow, IInv, TypeOK, Idle
<1>3. Letters'
  BY <1>2, LettersStay DEF Posted
<1>4. Orders'
  <2>1. \A d \in Coids \ {c} : Book(d)' /\ Counted(d)' /\ Coming(d)'
    BY OthersStay
  <2> QED
    BY <2>1 DEF Orders
<1> QED
  BY <1>1, <1>3, <1>4 DEF Flow

\* What an invariant state says of one order.
LEMMA Facts ==
    ASSUME Flow, NEW c \in Coids
    PROVE  /\ Book(c) /\ Counted(c) /\ Coming(c)
           /\ nextId \in Int /\ c \in Int
           /\ dels[c] \in Nat /\ remaining[c] \in 0..Quantity
           /\ srv[c] \in {"none", "delayed", "resting", "closed"}
BY OrderAssumption, SMTT(40) DEF Flow, Orders, IInv, TypeOK, LifecycleTypeOK, Coids

\* Only an order that was handed out has a placement or is known to the exchange.
LEMMA Handed ==
    ASSUME Flow, NEW c \in Coids, c \in posts \/ srv[c] # "none" \/ dels[c] > 0 \/ c \in orphans
    PROVE  c < nextId
<1>1. Book(c) /\ nextId \in Int /\ c \in Int
  BY Facts
<1> QED
  BY <1>1, SMTT(40) DEF Book, Placed

-----------------------------------------------------------------------------
(* Placements *)

\* A letter of an order that carries no trade, after a step of the environment.
LEMMA NewLetter ==
    ASSUME Flow, Idle, NEW c \in Coids, c < nextId, NEW st, NEW via,
           \/ st \in {"Rejected", "Cancelled", "Filled"} /\ srv'[c] = "closed"
           \/ st = "Accepted" /\ srv'[c] \in Placed
           \/ st \in {"NewOrderTimeout", "CancelOrderTimeout"}
           \/ /\ st = "ExecutorRejected"
              /\ status[c] = "Submitted" => srv'[c] = "none" /\ c \notin posts'
    PROVE  Letter(Update(c, st, via))'
BY DEF Update, Letter, OrderLetter, Idle

LEMMA PlaceDroppedFlow == ASSUME Flow, NEW c \in Coids, PlaceDropped(c) PROVE Flow'
<1>1. /\ c \in posts /\ posts' = posts \ {c}
      /\ mail' = mail \cup {Update(c, "ExecutorRejected", "executor")}
      /\ Idle /\ uncancelled' = uncancelled
      /\ dels' = dels /\ srv' = srv /\ remaining' = remaining /\ trade' = trade /\ orphans' = orphans
  BY DEF PlaceDropped, Quiet
<1>2. Book(c) /\ Counted(c) /\ Coming(c) /\ nextId \in Int /\ c \in Int
  BY Facts
<1>3. c < nextId
  BY <1>1, Handed
<1>4. status' = status /\ nextId' = nextId /\ evidence' = evidence
  BY <1>1 DEF Idle
<1>5. Only(c) /\ Forward /\ LifecycleTypeOK'
  BY <1>1, <1>2, <1>4 DEF Only, Forward, Flow, LifecycleTypeOK
<1>6. Settling'
  BY <1>1, <1>2, <1>4, <1>5, SettlingStays
<1>7. Letter(Update(c, "ExecutorRejected", "executor"))'
  BY <1>1, <1>2, <1>3, NewLetter DEF Book
<1>8. Book(c)' /\ Counted(c)' /\ Coming(c)'
  BY <1>1, <1>2, <1>4 DEF Book, Counted, Coming, Dust
<1>9. Posted({Update(c, "ExecutorRejected", "executor")})
  BY <1>1, <1>7 DEF Posted
<1> QED
  BY <1>1, <1>5, <1>6, <1>8, <1>9, FlowStep

\* The placement, or a delayed one, lands: the order rests, and its acceptance is on
\* its way.
LEMMA RestsFlow ==
    ASSUME Flow, Idle, NEW c \in Coids, c \in posts \/ srv[c] = "delayed",
           srv' = [srv EXCEPT ![c] = "resting"],
           posts' = posts \ {c}, NEW vias, vias # {},
           mail' = mail \cup {Update(c, "Accepted", via) : via \in vias},
           UNCHANGED <<dels, remaining, trade, orphans, uncancelled>>
    PROVE  Flow'
<1>1. /\ Book(c) /\ nextId \in Int /\ c \in Int /\ c < nextId /\ status[c] = "Submitted"
      /\ status' = status /\ nextId' = nextId /\ evidence' = evidence
  BY Facts, Handed DEF Idle, Book
<1>2. srv \in [Coids -> {"none", "delayed", "resting", "closed"}]
  BY DEF Flow, LifecycleTypeOK
<1>3. srv'[c] = "resting" /\ \A d \in Coids \ {c} : srv'[d] = srv[d]
  BY <1>2
<1>4. Only(c) /\ LifecycleTypeOK'
  BY <1>2, <1>3 DEF Only, Flow, LifecycleTypeOK
<1>5. Forward
  BY <1>1, <1>3 DEF Forward, Placed, Book
<1>6. Settling'
  BY <1>1, <1>5, SettlingStays
<1>7. Posted({Update(c, "Accepted", via) : via \in vias})
  <2>1. \A via : Letter(Update(c, "Accepted", via))'
    BY <1>1, <1>3, NewLetter DEF Placed
  <2> QED
    BY <2>1 DEF Posted
<1>8. Book(c)' /\ Counted(c)'
  BY <1>1, <1>3 DEF Book, Counted, Placed, Live
<1>9. Coming(c)'
  <2>1. PICK via \in vias : TRUE
    OBVIOUS
  <2>2. Update(c, "Accepted", via) \in mail'
    OBVIOUS
  <2>3. Awaits(c, "Accepted")'
    BY <2>2 DEF Awaits, Update
  <2> QED
    BY <1>1, <2>3 DEF Coming
<1> QED
  BY <1>4, <1>5, <1>6, <1>7, <1>8, <1>9, FlowStep

\* Letters that report that c is closed, or leave it open whether it is.
Terminals(c, new) ==
    \A u \in new : \E st, via :
        /\ u = Update(c, st, via)
        /\ st \in {"Rejected", "Cancelled", "Filled", "CancelOrderTimeout"}

\* No new DELETE of c, and none of the others is touched.
NoDelete(c) ==
    /\ dels' \in [Coids -> Nat] /\ dels'[c] <= dels[c]
    /\ orphans' \subseteq Coids /\ (c \in orphans' => c \in orphans \/ dels[c] > 0)
    /\ \A d \in Coids \ {c} : dels'[d] = dels[d] /\ (d \in orphans' <=> d \in orphans)

\* The exchange closes an order, and terminal letters are on their way.
LEMMA ClosesFlow ==
    ASSUME Flow, Idle, NEW c \in Coids, c \in posts \/ srv[c] # "none",
           srv' = [srv EXCEPT ![c] = "closed"], posts' = posts \ {c}, NoDelete(c),
           NEW new, mail' = mail \cup new, Terminals(c, new),
           UNCHANGED <<remaining, trade, uncancelled>>
    PROVE  Flow'
<1>1. /\ Book(c) /\ nextId \in Int /\ c \in Int /\ dels[c] \in Nat /\ dels'[c] \in Nat
      /\ status' = status /\ nextId' = nextId /\ evidence' = evidence /\ c < nextId
  BY Facts, Handed DEF Idle, NoDelete
<1>2. srv \in [Coids -> {"none", "delayed", "resting", "closed"}]
  BY DEF Flow, LifecycleTypeOK
<1>3. srv'[c] = "closed" /\ \A d \in Coids \ {c} : srv'[d] = srv[d]
  BY <1>2
<1>4. Only(c) /\ LifecycleTypeOK'
  BY <1>2, <1>3 DEF NoDelete, Only, Flow, LifecycleTypeOK
<1>5. Forward
  BY <1>1, <1>3 DEF Forward, Placed, Book
<1>6. Settling'
  BY <1>1, <1>5, SettlingStays
<1>7. Posted(new)
  <2>1. \A st, via : st \in {"Rejected", "Cancelled", "Filled", "CancelOrderTimeout"} =>
            Letter(Update(c, st, via))'
    BY <1>1, <1>3, NewLetter
  <2> QED
    BY <2>1, SMTT(40) DEF Posted, Terminals
<1>8. Book(c)' /\ Counted(c)' /\ Coming(c)'
  <2>1. /\ dels'[c] > 0 \/ c \in orphans' => dels[c] > 0 \/ c \in orphans
        /\ ~ (c >= nextId')
    BY <1>1, SMTT(40) DEF NoDelete
  <2> QED
    BY <1>1, <1>3, <2>1 DEF Book, Counted, Coming, Placed
<1> QED
  BY <1>4, <1>5, <1>6, <1>7, <1>8, FlowStep

LEMMA PlaceLandsFlow == ASSUME Flow, NEW c \in Coids, PlaceLands(c) PROVE Flow'
<1>1. /\ c \in posts /\ posts' = posts \ {c} /\ Idle
      /\ UNCHANGED <<dels, remaining, trade, orphans, uncancelled>>
  BY DEF PlaceLands, Quiet
<1>2. CASE /\ srv' = [srv EXCEPT ![c] = "resting"]
           /\ mail' = mail \cup {Update(c, "Accepted", "reply"), Update(c, "Accepted", "stream")}
  <2>1. {Update(c, "Accepted", via) : via \in {"reply", "stream"}} =
            {Update(c, "Accepted", "reply"), Update(c, "Accepted", "stream")}
    OBVIOUS
  <2>2. {"reply", "stream"} # {}
    OBVIOUS
  <2> QED
    BY <1>1, <1>2, <2>1, <2>2, RestsFlow
<1>3. CASE /\ srv' = [srv EXCEPT ![c] = "closed"]
           /\ mail' = mail \cup {Update(c, "Rejected", "reply")}
  <2>1. NoDelete(c)
    BY <1>1, Facts, SMTT(40) DEF NoDelete, Flow, LifecycleTypeOK
  <2>2. Terminals(c, {Update(c, "Rejected", "reply")})
    BY DEF Terminals
  <2> QED
    BY <1>1, <1>3, <2>1, <2>2, ClosesFlow
<1> QED
  BY <1>2, <1>3 DEF PlaceLands

LEMMA DelayedResolvesFlow == ASSUME Flow, NEW c \in Coids, DelayedResolves(c) PROVE Flow'
<1>1. /\ srv[c] = "delayed" /\ Idle /\ posts' = posts
      /\ UNCHANGED <<dels, remaining, trade, orphans, uncancelled>>
  BY DEF DelayedResolves, Quiet
<1>2. posts' = posts \ {c}
  <2>1. c \notin posts
    BY <1>1, Facts DEF Book
  <2> QED
    BY <1>1, <2>1
<1>3. ASSUME srv' = [srv EXCEPT ![c] = "resting"],
             NEW via \in {"stream", "reconcile"}, mail' = mail \cup {Update(c, "Accepted", via)}
      PROVE  Flow'
  <2>1. {Update(c, "Accepted", v) : v \in {via}} = {Update(c, "Accepted", via)}
    OBVIOUS
  <2>2. {via} # {}
    OBVIOUS
  <2> QED
    BY <1>1, <1>2, <1>3, <2>1, <2>2, RestsFlow
<1>4. CASE /\ srv' = [srv EXCEPT ![c] = "closed"]
           /\ mail' = mail \cup {Update(c, "Rejected", "reconcile")}
  <2>1. NoDelete(c)
    BY <1>1, Facts, SMTT(40) DEF NoDelete, Flow, LifecycleTypeOK
  <2>2. Terminals(c, {Update(c, "Rejected", "reconcile")})
    BY DEF Terminals
  <2> QED
    BY <1>1, <1>2, <1>4, <2>1, <2>2, ClosesFlow
<1> QED
  BY <1>3, <1>4 DEF DelayedResolves

LEMMA PlaceTimesOutFlow == ASSUME Flow, NEW c \in Coids, PlaceTimesOut(c) PROVE Flow'
<1>1. /\ c \in posts /\ posts' = posts \ {c} /\ srv' = [srv EXCEPT ![c] = "delayed"]
      /\ mail' = mail \cup {Update(c, "NewOrderTimeout", "reply")} /\ Idle
      /\ dels' = dels /\ remaining' = remaining /\ trade' = trade /\ orphans' = orphans
      /\ uncancelled' = uncancelled
  BY DEF PlaceTimesOut, Quiet
<1>2. /\ Book(c) /\ nextId \in Int /\ c \in Int /\ c < nextId
      /\ status' = status /\ nextId' = nextId /\ evidence' = evidence
  BY <1>1, Facts, Handed DEF Idle
<1>3. srv \in [Coids -> {"none", "delayed", "resting", "closed"}]
  BY DEF Flow, LifecycleTypeOK
<1>4. srv'[c] = "delayed" /\ \A d \in Coids \ {c} : srv'[d] = srv[d]
  BY <1>1, <1>3
<1>5. Only(c) /\ LifecycleTypeOK'
  BY <1>1, <1>3, <1>4 DEF Only, Flow, LifecycleTypeOK
<1>6. Forward
  BY <1>1, <1>2, <1>4 DEF Forward, Placed, Book
<1>7. Settling'
  BY <1>1, <1>2, <1>6, SettlingStays
<1>8. Posted({Update(c, "NewOrderTimeout", "reply")})
  BY <1>1, <1>2, NewLetter DEF Posted
<1>9. Book(c)' /\ Counted(c)' /\ Coming(c)'
  BY <1>1, <1>2, <1>4 DEF Book, Counted, Coming, Placed
<1> QED
  BY <1>1, <1>5, <1>6, <1>7, <1>8, <1>9, FlowStep

-----------------------------------------------------------------------------
(* Cancels *)

\* A DELETE of c is on its way: its placement is proved, and the exchange has it.
LEMMA DeleteIsLate ==
    ASSUME Flow, NEW c \in Coids, dels[c] > 0 \/ c \in orphans
    PROVE  /\ c \in evidence /\ srv[c] \in Placed /\ status[c] # "Submitted" /\ c \notin posts
           /\ posts = posts \ {c}
<1>1. c \in evidence /\ srv[c] \in Placed /\ status[c] # "Submitted" /\ c \notin posts
  BY Facts DEF Book, Placed
<1> QED
  BY <1>1

\* A signal or answer is lost or fails: the order itself is as before, and what it waits
\* for is still to come.
LEMMA MissedFlow ==
    ASSUME Flow, Idle, NEW c \in Coids, dels[c] > 0, dels' = [dels EXCEPT ![c] = @ - 1],
           UNCHANGED <<posts, srv, remaining, trade>>,
           orphans' \in SUBSET (orphans \cup {c}), orphans \subseteq orphans',
           uncancelled \subseteq uncancelled',
           NEW st, NEW via, mail' = mail \cup {Update(c, st, via)},
           st \in {"ExecutorRejected", "Accepted", "CancelOrderTimeout"},
           c \in orphans' \cup uncancelled' \/ st = "ExecutorRejected"
    PROVE  Flow'
<1>1. /\ Book(c) /\ Counted(c) /\ Coming(c) /\ nextId \in Int /\ c \in Int /\ c < nextId
      /\ status' = status /\ nextId' = nextId /\ evidence' = evidence
  BY Facts, Handed DEF Idle
<1>2. dels \in [Coids -> Nat] /\ dels[c] \in Nat /\ orphans \subseteq Coids
  BY DEF Flow, LifecycleTypeOK
<1>3. dels'[c] = dels[c] - 1 /\ \A d \in Coids \ {c} : dels'[d] = dels[d]
  BY <1>2
<1>4. dels' \in [Coids -> Nat]
  BY <1>2, SMTT(40)
<1>5. /\ Only(c) /\ LifecycleTypeOK'
  BY <1>2, <1>3, <1>4 DEF Only, Flow, LifecycleTypeOK
<1>6. Forward
  BY <1>1 DEF Forward
<1>7. Settling'
  BY <1>1, <1>6, SettlingStays
<1>8. c \in evidence /\ srv[c] \in Placed /\ status[c] # "Submitted"
  BY DeleteIsLate
<1>9. Posted({Update(c, st, via)})
  BY <1>1, <1>8, NewLetter DEF Posted
<1>10. Book(c)' /\ Counted(c)'
  BY <1>1, <1>3, <1>8 DEF Book, Counted, Dust
<1>11. Coming(c)'
  <2>1. Update(c, st, via) \in mail' /\ Update(c, st, via).coid = c /\ Update(c, st, via).status = st
    BY DEF Update
  <2>2. Awaits(c, st)'
    BY <2>1 DEF Awaits
  <2> QED
    BY <1>1, <1>8, <2>2 DEF Coming
<1> QED
  BY <1>5, <1>6, <1>7, <1>9, <1>10, <1>11, FlowStep

LEMMA CancelDroppedFlow == ASSUME Flow, NEW c \in Coids, CancelDropped(c) PROVE Flow'
<1>1. /\ dels[c] > 0 /\ dels' = [dels EXCEPT ![c] = @ - 1] /\ Idle
      /\ mail' = mail \cup {Update(c, "ExecutorRejected", "executor")}
      /\ UNCHANGED <<posts, srv, remaining, trade>> /\ orphans' = orphans
      /\ uncancelled' = uncancelled
  BY DEF CancelDropped, Quiet
<1>2. /\ orphans' \in SUBSET (orphans \cup {c}) /\ orphans \subseteq orphans'
      /\ uncancelled \subseteq uncancelled'
  BY <1>1
<1> QED
  BY <1>1, <1>2, MissedFlow

LEMMA CancelFailsFlow == ASSUME Flow, NEW c \in Coids, CancelFails(c) PROVE Flow'
<1>1. /\ dels[c] > 0 /\ dels' = [dels EXCEPT ![c] = @ - 1] /\ Idle
      /\ mail' = mail \cup {Update(c, "Accepted", "cancel")}
      /\ UNCHANGED <<posts, srv, remaining, trade>> /\ orphans' = orphans
      /\ uncancelled' = uncancelled \cup {c}
  BY DEF CancelFails
<1>2. /\ orphans' \in SUBSET (orphans \cup {c}) /\ orphans \subseteq orphans'
      /\ uncancelled \subseteq uncancelled' /\ c \in uncancelled'
  BY <1>1
<1> QED
  BY <1>1, <1>2, MissedFlow

\* The exchange handles a DELETE of c, which took one signal or one look-up.
LEMMA DeleteAtFlow ==
    ASSUME Flow, Idle, NEW c \in Coids, dels[c] > 0 \/ c \in orphans, NoDelete(c),
           NEW via, DeleteAt(c, via), UNCHANGED <<posts, remaining, trade, uncancelled>>
    PROVE  Flow'
<1>1. srv[c] \in Placed /\ posts' = posts \ {c}
  BY DeleteIsLate
<1>2. srv \in [Coids -> {"none", "delayed", "resting", "closed"}]
  BY DEF Flow, LifecycleTypeOK
<1>3. srv[c] # "none"
  BY <1>1 DEF Placed
<1>4. CASE srv[c] = "resting"
  <2>1. /\ srv' = [srv EXCEPT ![c] = "closed"]
        /\ mail' = mail \cup {Update(c, "Cancelled", via), Update(c, "Cancelled", "stream")}
    BY <1>4 DEF DeleteAt
  <2>2. Terminals(c, {Update(c, "Cancelled", via), Update(c, "Cancelled", "stream")})
    BY DEF Terminals
  <2> QED
    BY <1>1, <1>3, <2>1, <2>2, ClosesFlow
<1>5. CASE srv[c] # "resting"
  <2>1. PICK st : st = IF remaining[c] = 0 THEN "Filled" ELSE "Cancelled"
    OBVIOUS
  <2>2. srv' = srv /\ mail' = mail \cup {Update(c, st, via)}
    BY <1>5, <2>1 DEF DeleteAt
  <2>3. srv' = [srv EXCEPT ![c] = "closed"]
    BY <1>1, <1>2, <1>5, <2>2 DEF Placed
  <2>4. st \in {"Rejected", "Cancelled", "Filled", "CancelOrderTimeout"}
    BY <2>1
  <2>5. Terminals(c, {Update(c, st, via)})
    BY <2>4 DEF Terminals
  <2> QED
    BY <1>1, <1>3, <2>2, <2>3, <2>5, ClosesFlow
<1> QED
  BY <1>4, <1>5

LEMMA CancelReachesFlow == ASSUME Flow, NEW c \in Coids, CancelReaches(c) PROVE Flow'
<1>1. /\ dels[c] > 0 /\ dels' = [dels EXCEPT ![c] = @ - 1] /\ DeleteAt(c, "cancel") /\ Idle
      /\ UNCHANGED <<posts, remaining, trade, uncancelled>> /\ orphans' = orphans
  BY DEF CancelReaches, Quiet
<1>2. NoDelete(c)
  BY <1>1, SMTT(40) DEF NoDelete, Flow, LifecycleTypeOK
<1> QED
  BY <1>1, <1>2, DeleteAtFlow

LEMMA ReconcileFlow == ASSUME Flow, NEW c \in Coids, Reconcile(c) PROVE Flow'
<1>1. /\ c \in orphans /\ orphans' = orphans \ {c} /\ DeleteAt(c, "reconcile") /\ Idle
      /\ UNCHANGED <<posts, remaining, trade, uncancelled>> /\ dels' = dels
  BY DEF Reconcile, Quiet
<1>2. NoDelete(c)
  BY <1>1, SMTT(40) DEF NoDelete, Flow, LifecycleTypeOK
<1> QED
  BY <1>1, <1>2, DeleteAtFlow

LEMMA CancelTimesOutFlow == ASSUME Flow, NEW c \in Coids, CancelTimesOut(c) PROVE Flow'
<1>1. /\ dels[c] > 0 /\ dels' = [dels EXCEPT ![c] = @ - 1] /\ orphans' = orphans \cup {c} /\ Idle
      /\ UNCHANGED <<posts, remaining, trade>> /\ uncancelled' = uncancelled
  BY DEF CancelTimesOut, Quiet
<1>2. CASE mail' = mail \cup {Update(c, "CancelOrderTimeout", "cancel")} /\ UNCHANGED srv
  <2>1. /\ orphans' \in SUBSET (orphans \cup {c}) /\ orphans \subseteq orphans'
        /\ uncancelled \subseteq uncancelled' /\ c \in orphans'
    BY <1>1
  <2>2. UNCHANGED <<posts, srv, remaining, trade>>
    BY <1>1, <1>2
  <2> QED
    BY <1>1, <1>2, <2>1, <2>2, MissedFlow
<1>3. CASE /\ srv[c] = "resting" /\ srv' = [srv EXCEPT ![c] = "closed"]
           /\ mail' = mail \cup {Update(c, "CancelOrderTimeout", "cancel"),
                                 Update(c, "Cancelled", "stream")}
  <2>1. NoDelete(c)
    BY <1>1, SMTT(40) DEF NoDelete, Flow, LifecycleTypeOK
  <2>2. posts' = posts \ {c} /\ srv[c] # "none"
    BY <1>1, <1>3, DeleteIsLate
  <2>3. Terminals(c, {Update(c, "CancelOrderTimeout", "cancel"), Update(c, "Cancelled", "stream")})
    BY DEF Terminals
  <2>4. UNCHANGED <<remaining, trade, uncancelled>>
    BY <1>1
  <2> QED
    BY <1>1, <1>3, <2>1, <2>2, <2>3, <2>4, ClosesFlow
<1> QED
  BY <1>2, <1>3 DEF CancelTimesOut

-----------------------------------------------------------------------------
(* Trades *)

TradeRecords == [coid : Coids \cup {0}, qty : 0..Quantity,
                 stage : {"none", "matched", "mined", "confirmed", "failed"}]

\* Trade t, which is new or as it was, is one of q of order c.
IsTradeOf(c, t, q, stage) ==
    /\ trade' = [trade EXCEPT ![t] = [coid |-> c, qty |-> q, stage |-> stage]]
    /\ trade[t].coid = 0 \/ (trade[t].coid = c /\ trade[t].qty = q)
    /\ stage \in {"matched", "mined", "confirmed", "failed"}

\* The exchange moves on with c.
SrvMoves(c) ==
    /\ \A d \in Coids \ {c} : srv'[d] = srv[d] /\ (d \in posts' <=> d \in posts)
    /\ srv'[c] \in Placed
    /\ srv[c] = "closed" => srv'[c] = "closed"
    /\ srv[c] # "none" \/ c \in posts

Reported(c, t, q) == \A st \in {"PartiallyFilled", "Filled", "Failed"} : Letter(TradeUpdate(c, t, q, st))'

\* A trade of a placed order keeps what is known of the others, and may be reported.
LEMMA TradeMade ==
    ASSUME Flow, Idle, NEW c \in Coids, NEW t \in Trades, NEW q \in 1..Quantity, NEW stage,
           IsTradeOf(c, t, q, stage), SrvMoves(c)
    PROVE  Forward /\ Settling' /\ trade' \in [Trades -> TradeRecords] /\ Reported(c, t, q)
<1>1. /\ nextId \in Int /\ c \in Int /\ c < nextId /\ c # 0
      /\ status' = status /\ nextId' = nextId /\ evidence' = evidence
  <2>1. c \in posts \/ srv[c] # "none"
    BY DEF SrvMoves
  <2>2. c < nextId
    BY <2>1, Handed
  <2> QED
    BY <2>2, Facts, SMTT(40) DEF Idle, Coids
<1>2. trade \in [Trades -> TradeRecords]
  BY DEF Flow, LifecycleTypeOK, TradeRecords
<1>3. [coid |-> c, qty |-> q, stage |-> stage] \in TradeRecords /\ q > 0
  BY SMTT(40) DEF IsTradeOf, TradeRecords
<1>4. /\ trade'[t].coid = c /\ trade'[t].qty = q
      /\ \A s \in Trades \ {t} : trade'[s] = trade[s]
  BY <1>2 DEF IsTradeOf
<1>5. trade' \in [Trades -> TradeRecords]
  BY <1>2, <1>3 DEF IsTradeOf
<1>6. Forward
  <2>1. \A s \in Trades : trade[s].coid # 0 =>
            trade'[s].coid = trade[s].coid /\ trade'[s].qty = trade[s].qty
    BY <1>4 DEF IsTradeOf
  <2>2. \A d \in Coids : srv[d] \in Placed => srv'[d] \in Placed
    BY DEF SrvMoves
  <2>3. \A d \in Coids : srv[d] = "closed" => srv'[d] = "closed"
    BY DEF SrvMoves
  <2>4. \A d \in Coids :
            d < nextId /\ status'[d] = "Submitted" /\ (srv'[d] # "none" \/ d \in posts') =>
                status[d] = "Submitted" /\ (srv[d] # "none" \/ d \in posts)
    BY <1>1 DEF SrvMoves
  <2> QED
    BY <1>1, <2>1, <2>2, <2>3, <2>4 DEF Forward
<1>7. Settling'
  <2> SUFFICES ASSUME NEW s \in Trades, trade'[s].stage \in {"matched", "mined"}
               PROVE  /\ trade'[s].coid \in Coids /\ trade'[s].qty > 0
                      /\ trade'[s].coid < nextId' /\ srv'[trade'[s].coid] \in Placed
    BY DEF Settling
  <2>1. CASE s = t
    BY <1>1, <1>3, <1>4, <2>1 DEF SrvMoves
  <2>2. CASE s # t
    <3>1. trade'[s] = trade[s]
      BY <1>4, <2>2
    <3>2. /\ trade[s].coid \in Coids /\ trade[s].qty > 0
          /\ trade[s].coid < nextId /\ srv[trade[s].coid] \in Placed
      BY <3>1 DEF Flow, Settling
    <3> QED
      BY <1>1, <1>6, <3>1, <3>2 DEF Forward
  <2> QED
    BY <2>1, <2>2
<1>8. Reported(c, t, q)
  <2> SUFFICES ASSUME NEW st \in {"PartiallyFilled", "Filled", "Failed"}
               PROVE  Letter(TradeUpdate(c, t, q, st))'
    BY DEF Reported
  <2>1. PICK u : u = TradeUpdate(c, t, q, st)
    OBVIOUS
  <2>2. u.coid = c /\ u.trade = t /\ u.qty = q /\ u.status = st
    BY <2>1 DEF TradeUpdate
  <2>3. TradeLetter(u)'
    BY <1>3, <1>4, <2>2 DEF TradeLetter, SrvMoves
  <2>4. Letter(u)'
    BY <1>1, <2>2, <2>3 DEF Letter
  <2> QED
    BY <2>1, <2>4
<1> QED
  BY <1>5, <1>6, <1>7, <1>8

LEMMA MatchFlow ==
    ASSUME Flow, NEW c \in Coids, NEW t \in Trades, NEW q \in Sizes, Match(c, t, q) PROVE Flow'
<1>1. /\ srv[c] = "resting" /\ trade[t] = NoSuchTrade /\ q <= remaining[c]
      /\ trade' = [trade EXCEPT ![t] = [coid |-> c, qty |-> q, stage |-> "matched"]]
      /\ remaining' = [remaining EXCEPT ![c] = @ - q]
      /\ srv' = IF q = remaining[c] THEN [srv EXCEPT ![c] = "closed"] ELSE srv
      /\ mail' = mail \cup {TradeUpdate(c, t, q, "PartiallyFilled")} /\ Idle
      /\ posts' = posts /\ dels' = dels /\ orphans' = orphans /\ uncancelled' = uncancelled
  BY DEF Match, Quiet, IsNext, Unused
<1>2. /\ srv \in [Coids -> {"none", "delayed", "resting", "closed"}]
      /\ remaining \in [Coids -> 0..Quantity]
  BY DEF Flow, LifecycleTypeOK
<1>3. q \in 1..Quantity /\ Quantity \in Nat
  BY OrderAssumption
<1>4. /\ remaining'[c] = remaining[c] - q /\ remaining[c] \in 0..Quantity
      /\ remaining' \in [Coids -> 0..Quantity]
      /\ \A d \in Coids \ {c} : remaining'[d] = remaining[d]
  BY <1>1, <1>2, <1>3, SMTT(40)
<1>5. /\ srv' \in [Coids -> {"none", "delayed", "resting", "closed"}]
      /\ srv'[c] \in Placed /\ \A d \in Coids \ {c} : srv'[d] = srv[d]
  BY <1>1, <1>2 DEF Placed
<1>6. IsTradeOf(c, t, q, "matched") /\ SrvMoves(c)
  BY <1>1, <1>5, SMTT(40) DEF IsTradeOf, SrvMoves, NoSuchTrade
<1>7. Forward /\ Settling' /\ trade' \in [Trades -> TradeRecords] /\ Reported(c, t, q)
  BY <1>1, <1>3, <1>6, TradeMade
<1>8. Only(c) /\ LifecycleTypeOK'
  BY <1>1, <1>4, <1>5, <1>7 DEF Only, Flow, LifecycleTypeOK, TradeRecords
<1>9. Posted({TradeUpdate(c, t, q, "PartiallyFilled")})
  BY <1>1, <1>7 DEF Posted, Reported
<1>10. /\ Book(c) /\ Counted(c) /\ Coming(c)
       /\ status' = status /\ nextId' = nextId /\ evidence' = evidence
  BY <1>1, Facts DEF Idle
<1>11. Book(c)'
  BY <1>1, <1>5, <1>10 DEF Book, Placed
<1>12. Dust(c) => Dust(c)'
  BY <1>3, <1>4, SMTT(40) DEF Dust
<1>13. Counted(c)'
  BY <1>1, <1>10, <1>12 DEF Counted
<1>14. Coming(c)'
  BY <1>1, <1>10 DEF Coming, Awaits
<1> QED
  BY <1>1, <1>7, <1>8, <1>9, <1>11, <1>13, <1>14, FlowStep

LEMMA PlaceMatchesFlow ==
    ASSUME Flow, NEW c \in Coids, NEW t \in Trades, PlaceMatches(c, t) PROVE Flow'
<1>1. /\ c \in posts /\ posts' = posts \ {c} /\ trade[t] = NoSuchTrade
      /\ trade' = [trade EXCEPT ![t] = [coid |-> c, qty |-> Quantity, stage |-> "matched"]]
      /\ remaining' = [remaining EXCEPT ![c] = 0]
      /\ srv' = [srv EXCEPT ![c] = "closed"]
      /\ mail' = mail \cup {Update(c, "Filled", "reply"),
                            TradeUpdate(c, t, Quantity, "PartiallyFilled")} /\ Idle
      /\ dels' = dels /\ orphans' = orphans /\ uncancelled' = uncancelled
  BY DEF PlaceMatches, Quiet, IsNext, Unused
<1>2. /\ srv \in [Coids -> {"none", "delayed", "resting", "closed"}]
      /\ remaining \in [Coids -> 0..Quantity]
  BY DEF Flow, LifecycleTypeOK
<1>3. Quantity \in 1..Quantity /\ Quantity \in Nat
  BY OrderAssumption, SMTT(40)
<1>4. /\ remaining' \in [Coids -> 0..Quantity]
      /\ \A d \in Coids \ {c} : remaining'[d] = remaining[d]
  BY <1>1, <1>2, <1>3, SMTT(40)
<1>5. /\ srv' \in [Coids -> {"none", "delayed", "resting", "closed"}]
      /\ srv'[c] = "closed" /\ \A d \in Coids \ {c} : srv'[d] = srv[d]
  BY <1>1, <1>2
<1>6. IsTradeOf(c, t, Quantity, "matched") /\ SrvMoves(c)
  BY <1>1, <1>5, SMTT(40) DEF IsTradeOf, SrvMoves, NoSuchTrade, Placed
<1>7. Forward /\ Settling' /\ trade' \in [Trades -> TradeRecords] /\ Reported(c, t, Quantity)
  BY <1>1, <1>3, <1>6, TradeMade
<1>8. Only(c) /\ LifecycleTypeOK'
  BY <1>1, <1>4, <1>5, <1>7 DEF Only, Flow, LifecycleTypeOK, TradeRecords
<1>9. Posted({Update(c, "Filled", "reply"), TradeUpdate(c, t, Quantity, "PartiallyFilled")})
  <2>1. c < nextId
    BY <1>1, Handed
  <2>2. Letter(Update(c, "Filled", "reply"))'
    BY <1>1, <1>5, <2>1, NewLetter
  <2> QED
    BY <1>1, <1>7, <2>2 DEF Posted, Reported
<1>10. /\ Book(c) /\ status' = status /\ nextId' = nextId /\ evidence' = evidence
       /\ nextId \in Int /\ c \in Int /\ c < nextId
  BY <1>1, Facts, Handed DEF Idle
<1>11. Book(c)' /\ Counted(c)' /\ Coming(c)'
  BY <1>1, <1>5, <1>10 DEF Book, Counted, Coming, Placed
<1> QED
  BY <1>1, <1>7, <1>8, <1>9, <1>11, FlowStep

LEMMA SettleFlow == ASSUME Flow, NEW t \in Trades, Settle(t) PROVE Flow'
<1>1. PICK c, q : c = trade[t].coid /\ q = trade[t].qty
  OBVIOUS
<1>2. PICK stage \in {"mined", "confirmed", "failed"}, st \in {"PartiallyFilled", "Filled", "Failed"} :
          /\ trade' = [trade EXCEPT ![t].stage = stage]
          /\ mail' = mail \cup {TradeUpdate(c, t, q, st)}
          /\ trade[t].stage \in {"matched", "mined"}
  BY <1>1 DEF Settle
<1>3. /\ Idle /\ posts' = posts /\ dels' = dels /\ srv' = srv /\ remaining' = remaining
      /\ orphans' = orphans /\ uncancelled' = uncancelled
  BY DEF Settle, Quiet
<1>4. c \in Coids /\ q > 0 /\ srv[c] \in Placed
  BY <1>1, <1>2 DEF Flow, Settling
<1>5. trade \in [Trades -> TradeRecords]
  BY DEF Flow, LifecycleTypeOK, TradeRecords
<1>6. q \in 1..Quantity
  BY <1>1, <1>4, <1>5, OrderAssumption, SMTT(40) DEF TradeRecords
<1>7. trade' = [trade EXCEPT ![t] = [coid |-> c, qty |-> q, stage |-> stage]]
  <2>1. [trade[t] EXCEPT !.stage = stage] = [coid |-> c, qty |-> q, stage |-> stage]
    <3>1. trade[t] \in TradeRecords
      BY <1>5
    <3> QED
      BY <1>1, <3>1, SMTT(40) DEF TradeRecords
  <2> QED
    BY <1>2, <1>5, <2>1
<1>8. IsTradeOf(c, t, q, stage) /\ SrvMoves(c)
  BY <1>1, <1>3, <1>4, <1>7 DEF IsTradeOf, SrvMoves, Placed
<1>9. Forward /\ Settling' /\ trade' \in [Trades -> TradeRecords] /\ Reported(c, t, q)
  BY <1>3, <1>4, <1>6, <1>8, TradeMade
<1>10. Only(c) /\ LifecycleTypeOK'
  BY <1>2, <1>3, <1>9 DEF Only, Flow, LifecycleTypeOK, TradeRecords
<1>11. Posted({TradeUpdate(c, t, q, st)})
  BY <1>2, <1>9 DEF Posted, Reported
<1>12. /\ Book(c) /\ Counted(c) /\ Coming(c)
       /\ status' = status /\ nextId' = nextId /\ evidence' = evidence
  BY <1>3, <1>4, Facts DEF Idle
<1>13. Book(c)' /\ Counted(c)' /\ Coming(c)'
  BY <1>2, <1>3, <1>12 DEF Book, Counted, Coming, Dust, Awaits
<1> QED
  BY <1>3, <1>4, <1>9, <1>10, <1>11, <1>13, FlowStep

-----------------------------------------------------------------------------
(* The strategy *)

\* What quoting and cancelling do to the lifecycle: the orders of sent become Cancelling,
\* each with a DELETE on its way or known to have none, and those of new Submitted.
Quotes(sent, new) ==
    /\ sent \subseteq Coids /\ \A c \in sent : status[c] = "Active"
    /\ new \subseteq Coids \cap {nextId}
    /\ \A c \in Coids : status'[c] = IF c \in new THEN "Submitted"
                                     ELSE IF c \in sent THEN "Cancelling" ELSE status[c]
    /\ nextId' = (IF new = {} THEN nextId ELSE nextId + 1) /\ evidence' = evidence
    /\ posts' = posts \cup new
    /\ dels' \in [Coids -> Nat] /\ \A c \in Coids \ sent : dels'[c] = dels[c]
    /\ \A c \in sent : dels'[c] > 0 \/ c \in uncancelled'
    /\ uncancelled \subseteq uncancelled'
    /\ srv' = srv /\ remaining' = remaining /\ trade' = trade /\ mail' = mail
    /\ orphans' = orphans

LEMMA QuotesFlow == ASSUME Flow, IInv', NEW sent, NEW new, Quotes(sent, new) PROVE Flow'
<1>1. nextId \in Int /\ nextId' \in Int /\ (nextId' = nextId \/ nextId < nextId')
  BY OrderAssumption, SMTT(40) DEF Quotes, Flow, IInv, TypeOK
<1>2. Coids \subseteq Int
  BY OrderAssumption, SMTT(40) DEF Coids
<1>3. \A c \in Coids : c < nextId => c \notin new
  BY <1>1, <1>2, SMTT(40) DEF Quotes
<1>4. Forward
  <2>1. \A c \in Coids : c < nextId /\ status'[c] = "Submitted" => status[c] = "Submitted"
    BY <1>3 DEF Quotes
  <2>2. \A c \in Coids : c < nextId /\ c \in posts' => c \in posts
    BY <1>3 DEF Quotes
  <2> QED
    BY <1>1, <2>1, <2>2 DEF Forward, Quotes
<1>5. LifecycleTypeOK'
  BY DEF Quotes, Flow, LifecycleTypeOK
<1>6. Settling'
  BY <1>1, <1>4, SettlingStays DEF Quotes
<1>7. Letters'
  BY <1>1, <1>4, LetterStays DEF Quotes, Flow, Letters
<1>8. ASSUME NEW c \in Coids PROVE Book(c)' /\ Counted(c)' /\ Coming(c)'
  <2>1. Book(c) /\ Counted(c) /\ Coming(c) /\ c \in Int /\ dels[c] \in Nat
    BY Facts
  <2>2. \A st : Awaits(c, st)' <=> Awaits(c, st)
    BY DEF Quotes, Awaits
  <2>3. /\ evidence' = evidence /\ srv' = srv /\ remaining' = remaining /\ orphans' = orphans
        /\ posts' = posts \cup new /\ uncancelled \subseteq uncancelled'
    BY DEF Quotes
  <2>4. CASE c \in new
    <3>1. c = nextId /\ new # {} /\ status'[c] = "Submitted"
      BY <2>4 DEF Quotes
    <3>2. status[c] = "Absent" /\ srv[c] = "none"
      BY <1>1, <2>1, <3>1, SMTT(40) DEF Book
    <3>3. c \notin sent /\ nextId' = nextId + 1
      BY <3>1, <3>2 DEF Quotes
    <3>4. dels'[c] = dels[c]
      BY <3>3 DEF Quotes
    <3>5. ~ (c >= nextId')
      BY <1>1, <2>1, <3>1, <3>3, SMTT(40)
    <3> QED
      BY <2>1, <2>3, <3>1, <3>2, <3>4, <3>5 DEF Book, Counted, Coming, Placed
  <2>5. CASE c \notin new /\ c \in sent
    <3>1. status[c] = "Active" /\ status'[c] = "Cancelling"
      BY <2>5 DEF Quotes
    <3>2. c \in evidence
      BY <3>1 DEF Flow, IInv, Proved
    <3>3. dels'[c] > 0 \/ c \in uncancelled'
      BY <2>5 DEF Quotes
    <3>4. c \notin posts' /\ srv[c] \in Placed
      BY <2>1, <2>3, <2>5, <3>1, <3>2 DEF Book
    <3>5. ~ (c >= nextId')
      BY <1>1, <2>1, <3>1, SMTT(40) DEF Book
    <3> QED
      BY <2>1, <2>3, <3>1, <3>2, <3>3, <3>4, <3>5 DEF Book, Counted, Coming, Placed, Live, Dust
  <2>6. CASE c \notin new /\ c \notin sent
    <3>1. status'[c] = status[c] /\ dels'[c] = dels[c]
      BY <2>6 DEF Quotes
    <3>2. c >= nextId' => c >= nextId
      BY <1>1, <2>1, SMTT(40)
    <3>3. Book(c)'
      BY <2>1, <2>3, <2>6, <3>1, <3>2 DEF Book
    <3>4. Counted(c)' /\ Coming(c)'
      BY <2>1, <2>2, <2>3, <3>1 DEF Counted, Coming, Dust
    <3> QED
      BY <3>3, <3>4
  <2> QED
    BY <2>4, <2>5, <2>6
<1> QED
  BY <1>5, <1>6, <1>7, <1>8 DEF Flow, Orders

LEMMA QuoteFlow ==
    ASSUME Flow, NEW cancels \in SUBSET cancelable, NEW place \in Sides \cup {"None"},
           Quote(cancels, place)
    PROVE  Flow'
<1> DEFINE sent == Emitted(cancels)
           deferred == \E c \in Parked(cancels) : side[c] = place
           new == IF place = "None" \/ deferred THEN {} ELSE {nextId}
<1>1. /\ apply_reconcile(cancels, place) /\ Transmit
      /\ srv' = srv /\ remaining' = remaining /\ trade' = trade /\ mail' = mail
      /\ orphans' = orphans /\ uncancelled' = uncancelled
  BY DEF Quote
<1>2. cancels \in SUBSET Coids
  BY DEF Flow, IInv, TypeOK
<1>3. IInv'
  BY <1>1, <1>2, ReconcileIInv DEF Flow
<1>4. /\ new \subseteq Coids
      /\ status' = [c \in Coids |-> IF c \in new THEN "Submitted"
                                    ELSE IF c \in sent THEN "Cancelling"
                                    ELSE status[c]]
      /\ nextId' = IF new = {} THEN nextId ELSE nextId + 1
      /\ out' = {CancelOrder(c) : c \in sent} \cup {NewOrder(c) : c \in new}
      /\ evidence' = evidence
  BY <1>1 DEF apply_reconcile
<1>5. new \subseteq {nextId}
  OBVIOUS
<1>6. sent \subseteq Coids /\ \A c \in sent : status[c] = "Active"
  BY <1>2 DEF Emitted
<1> HIDE DEF sent, new
<1>7. \A c \in Coids : (NewOrder(c) \in out' <=> c \in new) /\ (CancelOrder(c) \in out' <=> c \in sent)
  BY <1>4, <1>6 DEF NewOrder, CancelOrder
<1>8. /\ posts' = posts \cup new
      /\ dels' = [c \in Coids |-> IF c \in sent THEN dels[c] + 1 ELSE dels[c]]
  BY <1>1, <1>4, <1>7 DEF Transmit
<1>9. dels \in [Coids -> Nat]
  BY DEF Flow, LifecycleTypeOK
<1>10. /\ dels' \in [Coids -> Nat] /\ \A c \in Coids \ sent : dels'[c] = dels[c]
       /\ \A c \in sent : dels'[c] > 0
  BY <1>6, <1>8, <1>9, SMTT(40)
<1>11. Quotes(sent, new)
  BY <1>1, <1>4, <1>5, <1>6, <1>8, <1>10 DEF Quotes
<1> QED
  BY <1>3, <1>11, QuotesFlow

LEMMA CancelAllFlow == ASSUME Flow, NEW room, CancelAll(room) PROVE Flow'
<1> DEFINE onSides == {c \in cancelable : side[c] \in Sides}
           active == Emitted(onSides)
           Rank(c) == Cardinality({d \in active : Precedes(d, c)})
           failing == {c \in active : Rank(c) = room}
           visited == {c \in onSides : \A d \in failing : c = d \/ Precedes(c, d)}
           sent == visited \cap active
           emitted == sent \ failing
<1>1. /\ cancel_orders_with(Sides, room) /\ Transmit
      /\ uncancelled' = uncancelled \cup
             {c \in Coids : status'[c] # status[c] /\ CancelOrder(c) \notin out'}
      /\ srv' = srv /\ remaining' = remaining /\ trade' = trade /\ mail' = mail
      /\ orphans' = orphans
  BY DEF CancelAll
<1>2. IInv'
  BY <1>1, WalkIInv DEF Flow
<1>3. /\ status' = [c \in Coids |-> IF c \in sent THEN "Cancelling" ELSE status[c]]
      /\ out' = {CancelOrder(c) : c \in emitted}
      /\ nextId' = nextId /\ evidence' = evidence
  BY <1>1 DEF cancel_orders_with
<1>4. cancelable \subseteq Coids
  BY DEF Flow, IInv, TypeOK
<1>5. sent \subseteq Coids /\ \A c \in sent : status[c] = "Active"
  <2> HIDE DEF failing
  <2> QED
    BY <1>4 DEF Emitted
<1>6. emitted \subseteq sent
  OBVIOUS
<1> HIDE DEF onSides, active, Rank, failing, visited, sent, emitted
<1>7. \A c \in Coids : (CancelOrder(c) \in out' <=> c \in emitted) /\ NewOrder(c) \notin out'
  BY <1>3, <1>5, <1>6 DEF NewOrder, CancelOrder
<1>8. /\ posts' = posts
      /\ dels' = [c \in Coids |-> IF c \in emitted THEN dels[c] + 1 ELSE dels[c]]
  BY <1>1, <1>7 DEF Transmit
<1>9. dels \in [Coids -> Nat]
  BY DEF Flow, LifecycleTypeOK
<1>10. /\ dels' \in [Coids -> Nat] /\ \A c \in Coids \ sent : dels'[c] = dels[c]
       /\ \A c \in emitted : dels'[c] > 0
  BY <1>5, <1>6, <1>8, <1>9, SMTT(40)
<1>11. \A c \in sent : dels'[c] > 0 \/ c \in uncancelled'
  BY <1>1, <1>3, <1>5, <1>7, <1>10
<1>12. Quotes(sent, {})
  BY <1>1, <1>3, <1>5, <1>8, <1>10, <1>11 DEF Quotes
<1> QED
  BY <1>2, <1>12, QuotesFlow

LEMMA InjectFlow == ASSUME Flow, NEW s \in Sides, Inject(s) PROVE Flow'
<1>1. /\ inject_open_order(s) /\ srv' = [srv EXCEPT ![nextId] = "resting"]
      /\ posts' = posts /\ dels' = dels /\ remaining' = remaining /\ trade' = trade /\ mail' = mail
      /\ orphans' = orphans /\ uncancelled' = uncancelled
  BY DEF Inject
<1>2. /\ nextId \in Coids /\ nextId' = nextId + 1
      /\ status' = [status EXCEPT ![nextId] = "Active"]
      /\ evidence' = evidence \cup {nextId}
  BY <1>1 DEF inject_open_order
<1>3. IInv'
  BY <1>1, InjectIInv DEF Flow
<1>4. /\ nextId \in Int /\ nextId < nextId' /\ nextId' \in Int /\ Coids \subseteq Int
  BY <1>2, OrderAssumption, SMTT(40) DEF Coids
<1>5. /\ srv \in [Coids -> {"none", "delayed", "resting", "closed"}]
      /\ status \in [Coids -> LocalOrderStatus \cup {"Absent"}]
  BY DEF Flow, LifecycleTypeOK, IInv, TypeOK
<1>6. /\ srv'[nextId] = "resting" /\ status'[nextId] = "Active"
      /\ \A c \in Coids \ {nextId} : srv'[c] = srv[c] /\ status'[c] = status[c]
      /\ srv' \in [Coids -> {"none", "delayed", "resting", "closed"}]
  BY <1>1, <1>2, <1>5
<1>7. /\ Book(nextId) /\ status[nextId] = "Absent" /\ srv[nextId] = "none"
  BY <1>2, <1>4, Facts, SMTT(40) DEF Book
<1>8. Forward
  <2>1. \A c \in Coids : c < nextId => status'[c] = status[c] /\ srv'[c] = srv[c]
    BY <1>4, <1>6, SMTT(40)
  <2> QED
    BY <1>1, <1>4, <1>6, <1>7, <2>1 DEF Forward, Placed
<1>9. LifecycleTypeOK'
  BY <1>1, <1>6 DEF Flow, LifecycleTypeOK
<1>10. Settling'
  BY <1>1, <1>4, <1>8, SettlingStays
<1>11. Letters'
  BY <1>1, <1>4, <1>8, LetterStays DEF Flow, Letters
<1>12. ASSUME NEW c \in Coids PROVE Book(c)' /\ Counted(c)' /\ Coming(c)'
  <2>1. Book(c) /\ Counted(c) /\ Coming(c) /\ c \in Int
    BY Facts
  <2>2. \A st : Awaits(c, st)' <=> Awaits(c, st)
    BY <1>1 DEF Awaits
  <2>3. CASE c = nextId
    <3>1. c \notin posts /\ ~ (c >= nextId')
      BY <1>2, <1>4, <1>7, <2>3, SMTT(40) DEF Book
    <3> QED
      BY <1>1, <1>2, <1>6, <2>1, <2>3, <3>1 DEF Book, Counted, Coming, Placed, Live
  <2>4. CASE c # nextId
    <3>1. srv'[c] = srv[c] /\ status'[c] = status[c] /\ (c \in evidence' <=> c \in evidence)
      BY <1>2, <1>6, <2>4
    <3>2. c >= nextId' => c >= nextId
      BY <1>4, <2>1, SMTT(40)
    <3>3. Book(c)'
      BY <1>1, <2>1, <3>1, <3>2 DEF Book
    <3> QED
      BY <1>1, <2>1, <2>2, <3>1, <3>3 DEF Counted, Coming, Dust
  <2> QED
    BY <2>3, <2>4
<1> QED
  BY <1>3, <1>9, <1>10, <1>11, <1>12 DEF Flow, Orders

\* The arms of on_order_update as the lifecycle uses them.
LEMMA StatusArms ==
    ASSUME NEW u, WellFormed(u), status[u.coid] \in LocalOrderStatus
    PROVE  /\ StatusAfter(u) = "Submitted" =>
                  /\ status[u.coid] = "Submitted"
                  /\ u.status # "Accepted" /\ ~IsFill(u) /\ ~IsReversal(u)
           /\ StatusAfter(u) = "Cancelling" => status[u.coid] = "Cancelling"
           /\ u.status \in {"NewOrderTimeout", "CancelOrderTimeout"} =>
                  StatusAfter(u) = status[u.coid]
<1>1. u.status \in OrderStatus
  BY DEF WellFormed
<1>2. StatusAfter(u) = "Submitted" =>
                  /\ status[u.coid] = "Submitted"
                  /\ u.status # "Accepted" /\ ~IsFill(u) /\ ~IsReversal(u)
  BY <1>1 DEF StatusAfter, LocalOrderStatus, OrderStatus, IsFill, IsReversal, IsTrade
<1>3. StatusAfter(u) = "Cancelling" => status[u.coid] = "Cancelling"
  BY <1>1 DEF StatusAfter, LocalOrderStatus, OrderStatus, IsFill, IsReversal, IsTrade
<1>4. u.status \in {"NewOrderTimeout", "CancelOrderTimeout"} => StatusAfter(u) = status[u.coid]
  BY <1>1 DEF StatusAfter, LocalOrderStatus, OrderStatus, IsFill, IsReversal, IsTrade
<1> QED
  BY <1>2, <1>3, <1>4

\* An order stays live through acceptances, time-outs and reports of trades that leave
\* more than 1% of it open.
LEMMA StaysLive ==
    ASSUME NEW u, WellFormed(u), status[u.coid] \in Live, ~Covered(u),
           \/ u.status \in {"Accepted", "NewOrderTimeout", "CancelOrderTimeout"}
           \/ (IsFill(u) \/ IsReversal(u)) /\ u.trade # NoTrade
    PROVE  StatusAfter(u) \in Live
<1>1. u.status \in OrderStatus
  BY DEF WellFormed
<1> QED
  BY <1>1 DEF StatusAfter, Live, OrderStatus, IsFill, IsReversal, IsTrade

\* What is left in the mail when u is delivered: the letters of the other orders, and
\* those of other statuses.
LEMMA StillAwaits ==
    ASSUME NEW u, mail' = mail \ {u}, NEW c, NEW st, Awaits(c, st), u.coid # c \/ u.status # st
    PROVE  Awaits(c, st)'
BY DEF Awaits

\* What a delivery of u does to the lifecycle.
Delivers(u) ==
    /\ mail' = mail \ {u} /\ nextId' = nextId /\ posts' = posts
    /\ srv' = srv /\ remaining' = remaining /\ trade' = trade
    /\ orphans' = orphans /\ uncancelled' = uncancelled
    /\ dels' \in [Coids -> Nat] /\ \A d \in Coids \ {u.coid} : dels'[d] = dels[d]
    /\ \A d \in Coids \ {u.coid} : status'[d] = status[d] /\ (d \in evidence' <=> d \in evidence)
    /\ status'[u.coid] = "Submitted" => status[u.coid] = "Submitted"

LEMMA DeliversFlow ==
    ASSUME Flow, IInv', NEW u \in mail, Delivers(u),
           Book(u.coid)', Counted(u.coid)', Coming(u.coid)'
    PROVE  Flow'
<1>1. nextId \in Int /\ nextId' = nextId /\ u.coid \in Coids
  BY OrderAssumption, SMTT(40) DEF Delivers, Flow, IInv, TypeOK, Letters, Letter
<1>2. Forward
  <2>1. \A d \in Coids : status'[d] = "Submitted" => status[d] = "Submitted"
    BY DEF Delivers
  <2> QED
    BY <1>1, <2>1 DEF Forward, Delivers
<1>3. LifecycleTypeOK'
  BY DEF Delivers, Flow, LifecycleTypeOK
<1>4. Settling'
  BY <1>1, <1>2, SettlingStays DEF Delivers
<1>5. Letters'
  BY <1>1, <1>2, LetterStays DEF Delivers, Flow, Letters
<1>6. ASSUME NEW d \in Coids \ {u.coid} PROVE Book(d)' /\ Counted(d)' /\ Coming(d)'
  <2>1. Book(d) /\ Counted(d) /\ Coming(d)
    BY Facts
  <2>2. \A st : Awaits(d, st) => Awaits(d, st)'
    BY StillAwaits DEF Delivers
  <2>3. /\ status'[d] = status[d] /\ (d \in evidence' <=> d \in evidence) /\ dels'[d] = dels[d]
        /\ nextId' = nextId /\ posts' = posts /\ srv' = srv /\ remaining' = remaining
        /\ orphans' = orphans /\ uncancelled' = uncancelled
    BY DEF Delivers
  <2>4. Book(d)'
    BY <2>1, <2>3 DEF Book
  <2> QED
    BY <2>1, <2>2, <2>3, <2>4 DEF Counted, Coming, Dust
<1> QED
  BY <1>3, <1>4, <1>5, <1>6 DEF Flow, Orders

\* No signal, so no new placement or DELETE.
LEMMA Silent ==
    ASSUME Flow, Transmit, out' = {} PROVE posts' = posts /\ dels' = dels
<1>1. dels \in [Coids -> Nat]
  BY DEF Flow, LifecycleTypeOK
<1> QED
  BY <1>1 DEF Transmit

LEMMA DroppedFlow ==
    ASSUME Flow, NEW u \in mail, Deliver(u), u.status = "ExecutorRejected" PROVE Flow'
<1> DEFINE c == u.coid
<1>1. /\ mail' = mail \ {u} /\ on_signal_dropped(c) /\ Transmit
      /\ srv' = srv /\ remaining' = remaining /\ trade' = trade /\ orphans' = orphans
      /\ uncancelled' = uncancelled
  BY DEF Deliver
<1>2. c \in Coids /\ (status[c] = "Submitted" => srv[c] = "none" /\ c \notin posts)
  BY DEF Flow, Letters, Letter, TradeLetter, OrderLetter
<1> HIDE DEF c
<1>3. IInv'
  BY <1>1, <1>2, DroppedIInv DEF Flow
<1>4. out' = {} /\ nextId' = nextId /\ evidence' = evidence
  BY <1>1 DEF on_signal_dropped
<1>5. posts' = posts /\ dels' = dels /\ dels \in [Coids -> Nat]
  BY <1>1, <1>4, Silent DEF Flow, LifecycleTypeOK
<1>6. status \in [Coids -> LocalOrderStatus \cup {"Absent"}]
  BY DEF Flow, IInv, TypeOK
<1>7. /\ \A d \in Coids \ {c} : status'[d] = status[d]
      /\ status[c] = "Submitted" => status'[c] = "Absent"
      /\ status[c] = "Cancelling" => status'[c] = "Active"
      /\ status[c] \notin {"Submitted", "Cancelling"} => status'[c] = status[c]
  <2>1. CASE status[c] = "Submitted"
    BY <1>1, <1>2, <1>6, <2>1 DEF on_signal_dropped
  <2>2. CASE status[c] = "Cancelling"
    BY <1>1, <1>2, <1>6, <2>2 DEF on_signal_dropped
  <2>3. CASE status[c] \notin {"Submitted", "Cancelling"}
    BY <1>1, <1>2, <1>6, <2>3 DEF on_signal_dropped
  <2> QED
    BY <2>1, <2>2, <2>3
<1>8. Delivers(u)
  BY <1>1, <1>4, <1>5, <1>7 DEF Delivers, c
<1>9. Book(c) /\ Counted(c) /\ Coming(c)
  BY <1>2, Facts
<1>10. Book(c)'
  BY <1>1, <1>2, <1>4, <1>5, <1>7, <1>9 DEF Book
<1>11. Counted(c)' /\ Coming(c)'
  BY <1>1, <1>2, <1>5, <1>7, <1>9 DEF Counted, Coming, Dust, Live
<1> QED
  BY <1>3, <1>8, <1>10, <1>11, DeliversFlow DEF c

\* Every letter is an update, or the notice of a dropped signal.
LEMMA LettersWellFormed ==
    ASSUME Flow, NEW u \in mail, u.status # "ExecutorRejected" PROVE WellFormed(u)
<1>1. Letter(u) /\ LifecycleTypeOK
  BY DEF Flow, Letters
<1>2. u.coid \in Coids
  BY <1>1 DEF Letter
<1>3. CASE TradeLetter(u)
  <2>1. trade[u.trade].qty \in 0..Quantity
    BY <1>1, <1>3 DEF TradeLetter, LifecycleTypeOK
  <2>2. u.qty \in Nat
    BY <1>3, <2>1, OrderAssumption, SMTT(40) DEF TradeLetter
  <2> QED
    BY <1>2, <1>3, <2>2 DEF TradeLetter, WellFormed, OrderStatus
<1>4. CASE OrderLetter(u)
  BY <1>2, <1>4, SMTT(40) DEF OrderLetter, WellFormed, OrderStatus
<1> QED
  BY <1>1, <1>3, <1>4 DEF Letter

\* The strategy thread hands an update to the order manager, which counts the order as
\* executed only when no more than dust of it is left.
LEMMA UpdateFlow ==
    ASSUME Flow, NEW u \in mail, Deliver(u), u.status # "ExecutorRejected",
           Covered(u) => Dust(u.coid)
    PROVE  Flow'
<1> DEFINE c == u.coid
           kept == IF DropsIntent(u) THEN intents \ {c} ELSE intents
           flushed == Releases(u) /\ c \in kept
           final == IF flushed THEN "Cancelling" ELSE StatusAfter(u)
           proves == u.status = "Accepted" \/ IsFill(u) \/ IsReversal(u)
<1>1. /\ mail' = mail \ {u} /\ on_order_update(u) /\ Transmit
      /\ srv' = srv /\ remaining' = remaining /\ trade' = trade /\ orphans' = orphans
      /\ uncancelled' = uncancelled
  BY DEF Deliver
<1>2. WellFormed(u) /\ Letter(u) /\ c \in Coids /\ c < nextId
  BY LettersWellFormed DEF Flow, Letters, Letter
<1>3. IInv'
  BY <1>1, <1>2, UpdateIInv DEF Flow
<1>4. Book(c) /\ Counted(c) /\ Coming(c) /\ nextId \in Int /\ c \in Int
  BY <1>2, Facts
<1>5. dels \in [Coids -> Nat] /\ status \in [Coids -> LocalOrderStatus \cup {"Absent"}]
  BY DEF Flow, LifecycleTypeOK, IInv, TypeOK
<1>6. CASE status[c] = "Absent"
  <2>1. out' = {} /\ status' = status /\ nextId' = nextId /\ evidence' = evidence
    BY <1>1, <1>6 DEF on_order_update
  <2>2. posts' = posts /\ dels' = dels
    BY <1>1, <2>1, Silent
  <2>3. Delivers(u)
    BY <1>1, <1>5, <2>1, <2>2 DEF Delivers
  <2>4. Book(c)' /\ Counted(c)' /\ Coming(c)'
    BY <1>1, <1>4, <1>6, <2>1, <2>2 DEF Book, Counted, Coming, Dust
  <2> QED
    BY <1>3, <2>3, <2>4, DeliversFlow
<1>7. CASE status[c] # "Absent"
  <2>1. /\ status' = [status EXCEPT ![c] = final]
        /\ out' = IF flushed THEN {CancelOrder(c)} ELSE {}
        /\ evidence' = IF proves THEN evidence \cup {c} ELSE evidence
        /\ nextId' = nextId
    BY <1>1, <1>7 DEF on_order_update
  <2>2. flushed => proves /\ ~ (u.status \in {"NewOrderTimeout", "CancelOrderTimeout"})
    BY DEF Releases, IsFill, IsReversal
  <2>3. /\ final = "Submitted" => status[c] = "Submitted" /\ ~proves
        /\ final = "Cancelling" => flushed \/ status[c] = "Cancelling"
        /\ u.status \in {"NewOrderTimeout", "CancelOrderTimeout"} => final = status[c]
    <3>1. status[c] \in LocalOrderStatus
      BY <1>2, <1>5, <1>7
    <3>2. /\ StatusAfter(u) = "Submitted" =>
                 /\ status[c] = "Submitted"
                 /\ u.status # "Accepted" /\ ~IsFill(u) /\ ~IsReversal(u)
          /\ StatusAfter(u) = "Cancelling" => status[c] = "Cancelling"
          /\ u.status \in {"NewOrderTimeout", "CancelOrderTimeout"} => StatusAfter(u) = status[c]
      BY <1>2, <3>1, StatusArms
    <3> QED
      BY <2>2, <3>2
  <2>4. proves => srv[c] \in Placed
    BY <1>2 DEF Letter, TradeLetter, OrderLetter, IsFill, IsReversal, IsTrade
  <2>5. srv[c] \in {"none", "delayed"} => u.status \in {"NewOrderTimeout", "CancelOrderTimeout"}
    BY <1>2 DEF Letter, TradeLetter, OrderLetter, Placed
  <2>6. srv[c] = "resting" =>
            \/ u.status \in {"Accepted", "NewOrderTimeout", "CancelOrderTimeout"}
            \/ (IsFill(u) \/ IsReversal(u)) /\ u.trade # NoTrade
    BY <1>2, OrderAssumption DEF Letter, TradeLetter, OrderLetter, IsFill, IsReversal, IsTrade
  <2>7. status[c] \in Live /\ srv[c] = "resting" /\ ~Dust(c) => final \in Live
    <3>1. status[c] \in Live /\ srv[c] = "resting" /\ ~Dust(c) => StatusAfter(u) \in Live
      BY <1>2, <2>6, StaysLive
    <3> QED
      BY <3>1 DEF Live
  <2> HIDE DEF final, flushed, kept, proves
  <2>8. /\ \A d \in Coids : NewOrder(d) \notin out'
        /\ \A d \in Coids : CancelOrder(d) \in out' <=> d = c /\ flushed
    BY <1>2, <2>1 DEF NewOrder, CancelOrder
  <2>9. /\ posts' = posts
        /\ dels' = [d \in Coids |-> IF d = c /\ flushed THEN dels[d] + 1 ELSE dels[d]]
    BY <1>1, <2>8 DEF Transmit
  <2>10. /\ dels' \in [Coids -> Nat] /\ \A d \in Coids \ {c} : dels'[d] = dels[d]
         /\ dels'[c] = IF flushed THEN dels[c] + 1 ELSE dels[c]
         /\ flushed => dels'[c] > 0
    BY <1>2, <1>5, <2>9, SMTT(40)
  <2>11. status'[c] = final /\ \A d \in Coids \ {c} : status'[d] = status[d]
    BY <1>2, <1>5, <2>1
  <2>12. Delivers(u)
    <3>1. \A d \in Coids \ {c} : d \in evidence' <=> d \in evidence
      BY <2>1
    <3> QED
      BY <1>1, <2>1, <2>3, <2>9, <2>10, <2>11, <3>1 DEF Delivers
  <2>13. Book(c)'
    <3>1. c \in evidence' => srv[c] \in Placed /\ final # "Submitted"
      BY <1>4, <2>1, <2>3, <2>4 DEF Book
    <3>2. dels'[c] > 0 \/ c \in orphans => c \in evidence'
      BY <1>4, <2>1, <2>2, <2>10 DEF Book
    <3>3. c \in posts \/ srv[c] = "delayed" => final = "Submitted"
      BY <1>4, <2>3, <2>5 DEF Book
    <3>4. ~ (c >= nextId')
      BY <1>2, <1>4, <2>1, SMTT(40)
    <3> QED
      BY <1>1, <1>4, <2>1, <2>9, <2>11, <3>1, <3>2, <3>3, <3>4 DEF Book
  <2>14. Counted(c)'
    BY <1>1, <1>4, <2>7, <2>11 DEF Counted, Dust
  <2>15. Coming(c)'
    <3>1. final = "Submitted" /\ Awaits(c, "Accepted") => Awaits(c, "Accepted")'
      <4>1. final = "Submitted" => u.status # "Accepted"
        BY <2>3 DEF proves
      <4> QED
        BY <1>1, <4>1, StillAwaits
    <3>2. Awaits(c, "ExecutorRejected") => Awaits(c, "ExecutorRejected")'
      BY <1>1, StillAwaits
    <3>3. dels[c] > 0 => dels'[c] > 0
      BY <1>2, <1>5, <2>10
    <3> QED
      BY <1>1, <1>4, <2>3, <2>10, <2>11, <3>1, <3>2, <3>3 DEF Coming
  <2> QED
    BY <1>3, <2>12, <2>13, <2>14, <2>15, DeliversFlow
<1> QED
  BY <1>6, <1>7
-----------------------------------------------------------------------------
(* Induction, in the form that has no operator parameter *)

LEMMA NatMin ==
    ASSUME NEW S, S \subseteq Nat, S # {} PROVE \E n \in S : \A m \in S : n <= m
<1> DEFINE R == OpToRel(<, Nat)
<1>1. IsWellFoundedOn(R, Nat)
  BY NatLessThanWellFounded
<1>2. \A m, n \in Nat : m < n => <<m, n>> \in R
  BY SMTT(40) DEF OpToRel
<1> HIDE DEF R
<1>3. PICK n \in S : \A m \in S : ~ (<<m, n>> \in R)
  BY <1>1, WFMin
<1>4. \A m \in S : ~ (m < n)
  BY <1>2, <1>3
<1>5. \A m \in S : n <= m
  BY <1>4, SMTT(40)
<1> QED
  BY <1>3, <1>5

LEMMA NatInd ==
    ASSUME NEW S, 0 \in S, \A n \in Nat : n \in S => n + 1 \in S PROVE Nat \subseteq S
<1> DEFINE T == {n \in Nat : n \notin S}
<1>1. CASE T # {}
  <2>1. PICK n \in T : \A m \in T : n <= m
    BY <1>1, NatMin
  <2>2. n # 0 /\ n - 1 \in Nat /\ n - 1 \in S
    BY <2>1, SMTT(40)
  <2> QED
    BY <2>1, <2>2, SMTT(40)
<1> QED
  BY <1>1

\* A set of subsets of a finite set that holds a subset whenever it holds those with one
\* element less holds them all.
LEMMA SubsetInd ==
    ASSUME NEW D, IsFiniteSet(D), NEW P, {} \in P,
           \A T \in SUBSET D : T # {} /\ (\A x \in T : T \ {x} \in P) => T \in P
    PROVE  SUBSET D \subseteq P
<1> DEFINE S == {n \in Nat : \A T \in SUBSET D : Cardinality(T) = n => T \in P}
<1>1. \A T \in SUBSET D : IsFiniteSet(T) /\ Cardinality(T) \in Nat
  BY FS_Subset, FS_CardinalityType
<1>2. 0 \in S
  <2>1. \A T \in SUBSET D : Cardinality(T) = 0 => T = {}
    BY <1>1, FS_EmptySet
  <2>2. 0 \in Nat
    BY SMTT(40)
  <2> QED
    BY <2>1, <2>2
<1>3. ASSUME NEW n \in Nat, n \in S PROVE n + 1 \in S
  <2> SUFFICES ASSUME NEW T \in SUBSET D, Cardinality(T) = n + 1 PROVE T \in P
    BY SMTT(40)
  <2>1. T # {}
    <3>1. n + 1 # 0
      BY SMTT(40)
    <3> QED
      BY <3>1, FS_EmptySet
  <2>2. ASSUME NEW x \in T PROVE T \ {x} \in P
    <3>1. Cardinality(T \ {x}) = Cardinality(T) - 1
      BY <1>1, FS_RemoveElement
    <3>2. Cardinality(T \ {x}) = n
      BY <3>1, SMTT(40)
    <3> QED
      BY <1>3, <3>2
  <2> QED
    BY <2>1, <2>2
<1>4. Nat \subseteq S
  <2> HIDE DEF S
  <2> QED
    BY <1>2, <1>3, NatInd
<1> QED
  BY <1>1, <1>4

-----------------------------------------------------------------------------
(* Folds over finite sets *)

Pick(s) == CHOOSE x \in s : TRUE

LEMMA Picked == ASSUME NEW s, s # {} PROVE Pick(s) \in s
BY DEF Pick

\* g is the table of the fold of F over the subsets of D.
IsFold(g, F, base, D, V) ==
    /\ g \in [SUBSET D -> V]
    /\ g = [s \in SUBSET D |-> IF s = {} THEN base ELSE F[<<Pick(s), g[s \ {Pick(s)}]>>]]

\* The recursion of a fold has a solution.
LEMMA FoldExists ==
    ASSUME NEW D, IsFiniteSet(D), NEW V, NEW base \in V, NEW F \in [D \X V -> V]
    PROVE  \E g : IsFold(g, F, base, D, V)
<1> DEFINE Low(n) == {s \in SUBSET D : Cardinality(s) <= n}
           Step(s, g) == IF s = {} THEN base ELSE F[<<Pick(s), g[s \ {Pick(s)}]>>]
           Q == {n \in Nat : \E g : g \in [Low(n) -> V] /\ g = [s \in Low(n) |-> Step(s, g)]}
<1>1. \A T \in SUBSET D : IsFiniteSet(T) /\ Cardinality(T) \in Nat
  BY FS_Subset, FS_CardinalityType
<1>2. 0 \in Q
  <2> DEFINE g == [s \in Low(0) |-> base]
  <2>1. \A s \in Low(0) : s = {}
    <3>1. \A s \in Low(0) : Cardinality(s) = 0
      BY <1>1, SMTT(40)
    <3> QED
      BY <1>1, <3>1, FS_EmptySet
  <2>2. g \in [Low(0) -> V] /\ g = [s \in Low(0) |-> Step(s, g)]
    BY <2>1
  <2>3. 0 \in Nat
    BY SMTT(40)
  <2> QED
    BY <2>2, <2>3
<1>3. ASSUME NEW n \in Nat, n \in Q PROVE n + 1 \in Q
  <2>1. PICK g : g \in [Low(n) -> V] /\ g = [s \in Low(n) |-> Step(s, g)]
    BY <1>3
  <2> DEFINE h == [s \in Low(n + 1) |-> Step(s, g)]
  <2>2. \A s \in Low(n) : s \in Low(n + 1)
    <3>1. \A k \in Nat : k <= n => k <= n + 1
      BY SMTT(40)
    <3> QED
      BY <1>1, <3>1
  <2>3. ASSUME NEW s \in Low(n + 1), s # {}
        PROVE  Pick(s) \in D /\ s \ {Pick(s)} \in Low(n)
    <3>1. Pick(s) \in s
      BY <2>3, Picked
    <3>2. Cardinality(s \ {Pick(s)}) = Cardinality(s) - 1 /\ Cardinality(s) \in Nat
      BY <1>1, <3>1, FS_RemoveElement
    <3>3. Cardinality(s) <= n + 1
      OBVIOUS
    <3>4. Cardinality(s \ {Pick(s)}) <= n
      BY <3>2, <3>3, SMTT(40)
    <3> QED
      BY <3>1, <3>4
  <2>4. \A s \in Low(n) : h[s] = g[s]
    BY <2>1, <2>2
  <2>5. \A s \in Low(n + 1) : Step(s, h) = Step(s, g)
    <3> HIDE DEF h
    <3>1. \A s \in Low(n + 1) : s # {} => h[s \ {Pick(s)}] = g[s \ {Pick(s)}]
      BY <2>3, <2>4
    <3> QED
      BY <3>1
  <2>6. \A s \in Low(n + 1) : Step(s, g) \in V
    BY <2>1, <2>3
  <2>7. h = [s \in Low(n + 1) |-> Step(s, h)] /\ h \in [Low(n + 1) -> V]
    BY <2>5, <2>6
  <2>8. n + 1 \in Nat
    BY SMTT(40)
  <2> QED
    BY <2>7, <2>8
<1>4. Cardinality(D) \in Q
  <2> HIDE DEF Q
  <2> QED
    BY <1>1, <1>2, <1>3, NatInd
<1>5. \A T \in SUBSET D : Cardinality(T) <= Cardinality(D)
  BY FS_Subset
<1>6. Low(Cardinality(D)) = SUBSET D
  BY <1>5
<1>7. PICK g : g \in [SUBSET D -> V] /\ g = [s \in SUBSET D |-> Step(s, g)]
  BY <1>4, <1>6
<1> QED
  BY <1>7 DEF IsFold

-----------------------------------------------------------------------------
(* Sums over finite sets *)

Solves(g, f, S) ==
    /\ g \in [SUBSET S -> Int]
    /\ \A s \in SUBSET S : g[s] = IF s = {} THEN 0 ELSE f[Pick(s)] + g[s \ {Pick(s)}]

Ints(f, S) == \A x \in S : f[x] \in Int
Agree(f, e, S) == \A x \in S : f[x] = e[x]

LEMMA SumSolves ==
    ASSUME NEW S, IsFiniteSet(S), NEW f, Ints(f, S)
    PROVE  \E g : Solves(g, f, S) /\ SumFunctionOnSet(f, S) = g[S]
<1> DEFINE F == [p \in S \X Int |-> f[p[1]] + p[2]]
           Step(s, g) == IF s = {} THEN 0 ELSE f[Pick(s)] + g[s \ {Pick(s)}]
           iter == CHOOSE g : g = [s \in SUBSET S |-> Step(s, g)]
<1>1. F \in [S \X Int -> Int] /\ \A x \in S, i \in Int : F[<<x, i>>] = f[x] + i
  BY SMTT(40) DEF Ints
<1>2. 0 \in Int
  BY SMTT(40)
<1>3. \E g : IsFold(g, F, 0, S, Int)
  <2> HIDE DEF F
  <2> QED
    BY <1>1, <1>2, FoldExists
<1>4. PICK g : /\ g \in [SUBSET S -> Int]
               /\ g = [s \in SUBSET S |->
                          IF s = {} THEN 0 ELSE F[<<Pick(s), g[s \ {Pick(s)}]>>]]
  BY <1>3 DEF IsFold
<1>5. \A h \in [SUBSET S -> Int], s \in SUBSET S :
          s # {} => F[<<Pick(s), h[s \ {Pick(s)}]>>] = f[Pick(s)] + h[s \ {Pick(s)}]
  BY <1>1, Picked
<1>6. g = [s \in SUBSET S |-> Step(s, g)]
  <2> HIDE DEF F
  <2>1. \A s \in SUBSET S :
            (IF s = {} THEN 0 ELSE F[<<Pick(s), g[s \ {Pick(s)}]>>]) = Step(s, g)
    BY <1>4, <1>5
  <2> QED
    BY <1>4, <2>1
<1>7. iter = [s \in SUBSET S |-> Step(s, iter)]
  BY <1>6
<1>8. SumFunctionOnSet(f, S) = iter[S]
  BY DEF SumFunctionOnSet, FoldFunctionOnSet, MapThenFoldSet, Pick
<1> HIDE DEF iter, F
<1>9. \A s \in SUBSET S : iter[s] = Step(s, iter)
  BY <1>7
<1>10. \A s \in SUBSET S : iter[s] \in Int
  <2> DEFINE P == {s \in SUBSET S : iter[s] \in Int}
  <2>1. {} \in P
    BY <1>2, <1>9
  <2>2. ASSUME NEW T \in SUBSET S, T # {}, \A x \in T : T \ {x} \in P PROVE T \in P
    <3>1. Pick(T) \in T
      BY <2>2, Picked
    <3>2. iter[T] = f[Pick(T)] + iter[T \ {Pick(T)}]
      BY <1>9, <2>2
    <3>3. f[Pick(T)] \in Int /\ iter[T \ {Pick(T)}] \in Int
      BY <2>2, <3>1 DEF Ints
    <3>4. iter[T] \in Int
      BY <3>2, <3>3, SMTT(40)
    <3> QED
      BY <3>4
  <2>3. SUBSET S \subseteq P
    <3> HIDE DEF P
    <3> QED
      BY <2>1, <2>2, SubsetInd
  <2> QED
    BY <2>3
<1>11. iter \in [SUBSET S -> Int]
  BY <1>7, <1>10
<1>12. Solves(iter, f, S)
  BY <1>9, <1>11 DEF Solves
<1> QED
  BY <1>8, <1>12

AnyOrder(g, f, S) == \A s \in SUBSET S : \A x \in s : g[s] = f[x] + g[s \ {x}]

\* The order of the additions does not matter.
LEMMA SolvesAny ==
    ASSUME NEW S, IsFiniteSet(S), NEW f, Ints(f, S), NEW g, Solves(g, f, S)
    PROVE  AnyOrder(g, f, S)
<1> DEFINE P == {s \in SUBSET S : \A x \in s : g[s] = f[x] + g[s \ {x}]}
<1>1. {} \in P
  OBVIOUS
<1>2. ASSUME NEW T \in SUBSET S, T # {}, \A x \in T : T \ {x} \in P PROVE T \in P
  <2> SUFFICES ASSUME NEW x \in T PROVE g[T] = f[x] + g[T \ {x}]
    OBVIOUS
  <2>1. PICK c : c = Pick(T)
    OBVIOUS
  <2>2. c \in T /\ g[T] = f[c] + g[T \ {c}]
    BY <1>2, <2>1, Picked DEF Solves
  <2>3. CASE x # c
    <3>1. g[T \ {c}] = f[x] + g[(T \ {c}) \ {x}]
      BY <1>2, <2>2, <2>3
    <3>2. g[T \ {x}] = f[c] + g[(T \ {x}) \ {c}]
      BY <1>2, <2>2, <2>3
    <3>3. (T \ {c}) \ {x} = (T \ {x}) \ {c}
      OBVIOUS
    <3>4. PICK rest : rest = g[(T \ {x}) \ {c}]
      OBVIOUS
    <3>5. rest \in Int /\ f[x] \in Int /\ f[c] \in Int
      BY <2>2, <3>4 DEF Solves, Ints
    <3>6. g[T] = f[c] + (f[x] + rest) /\ g[T \ {x}] = f[c] + rest
      BY <2>2, <3>1, <3>2, <3>3, <3>4
    <3> QED
      BY <3>5, <3>6, SMTT(40)
  <2> QED
    BY <2>2, <2>3
<1>3. SUBSET S \subseteq P
  <2> HIDE DEF P
  <2> QED
    BY <1>1, <1>2, SubsetInd
<1> QED
  BY <1>3 DEF AnyOrder

\* Two tables of sums agree where the values do.
LEMMA SolvesSame ==
    ASSUME NEW S, IsFiniteSet(S), NEW T, S \subseteq T, NEW f, NEW e,
           Agree(f, e, S), NEW g, Solves(g, f, S), NEW k, Solves(k, e, T)
    PROVE  Agree(g, k, SUBSET S)
<1> DEFINE P == {s \in SUBSET S : g[s] = k[s]}
<1>1. {} \in P
  BY DEF Solves
<1>2. ASSUME NEW s \in SUBSET S, s # {}, \A x \in s : s \ {x} \in P PROVE s \in P
  <2>1. PICK c : c = Pick(s)
    OBVIOUS
  <2>2. c \in s
    BY <1>2, <2>1, Picked
  <2>3. g[s] = f[c] + g[s \ {c}] /\ k[s] = e[c] + k[s \ {c}]
    BY <1>2, <2>1 DEF Solves
  <2>4. g[s \ {c}] = k[s \ {c}] /\ f[c] = e[c]
    BY <1>2, <2>2 DEF Agree
  <2> QED
    BY <2>3, <2>4
<1>3. SUBSET S \subseteq P
  <2> HIDE DEF P
  <2> QED
    BY <1>1, <1>2, SubsetInd
<1> QED
  BY <1>3 DEF Agree

LEMMA SumEmpty == ASSUME NEW f PROVE SumFunctionOnSet(f, {}) = 0
<1>1. PICK g : Solves(g, f, {}) /\ SumFunctionOnSet(f, {}) = g[{}]
  BY SumSolves, FS_EmptySet DEF Ints
<1> QED
  BY <1>1 DEF Solves

LEMMA SumSame ==
    ASSUME NEW S, IsFiniteSet(S), NEW f, Ints(f, S), NEW e, Agree(f, e, S)
    PROVE  SumFunctionOnSet(f, S) = SumFunctionOnSet(e, S)
<1>1. Ints(e, S)
  BY DEF Ints, Agree
<1>2. PICK g : Solves(g, f, S) /\ SumFunctionOnSet(f, S) = g[S]
  BY SumSolves
<1>3. PICK k : Solves(k, e, S) /\ SumFunctionOnSet(e, S) = k[S]
  BY <1>1, SumSolves
<1>4. Agree(g, k, SUBSET S)
  BY <1>2, <1>3, SolvesSame
<1> QED
  BY <1>2, <1>3, <1>4 DEF Agree

\* The share of x in a sum over S.
Part(f, S, x) == IF x \in S THEN f[x] ELSE 0

\* A sum is the share of any element and the sum without it.
LEMMA SumSplit ==
    ASSUME NEW S, IsFiniteSet(S), NEW f, Ints(f, S), NEW x
    PROVE  /\ SumFunctionOnSet(f, S) \in Int
           /\ SumFunctionOnSet(f, S \ {x}) \in Int
           /\ Part(f, S, x) \in Int
           /\ SumFunctionOnSet(f, S) = Part(f, S, x) + SumFunctionOnSet(f, S \ {x})
<1>1. PICK g : Solves(g, f, S) /\ SumFunctionOnSet(f, S) = g[S]
  BY SumSolves
<1>2. IsFiniteSet(S \ {x}) /\ Ints(f, S \ {x})
  BY FS_RemoveElement DEF Ints
<1>3. PICK k : Solves(k, f, S \ {x}) /\ SumFunctionOnSet(f, S \ {x}) = k[S \ {x}]
  BY <1>2, SumSolves
<1>4. Agree(k, g, SUBSET (S \ {x}))
  <2>1. S \ {x} \subseteq S /\ Agree(f, f, S \ {x})
    BY DEF Agree
  <2> QED
    BY <1>1, <1>2, <1>3, <2>1, SolvesSame
<1>5. g[S] \in Int /\ g[S \ {x}] \in Int /\ k[S \ {x}] = g[S \ {x}]
  BY <1>1, <1>4 DEF Solves, Agree
<1>6. CASE x \in S
  <2>1. AnyOrder(g, f, S)
    BY <1>1, SolvesAny
  <2>2. g[S] = f[x] + g[S \ {x}]
    BY <1>6, <2>1 DEF AnyOrder
  <2> QED
    BY <1>1, <1>3, <1>5, <1>6, <2>2 DEF Part, Ints
<1>7. CASE x \notin S
  <2>1. S \ {x} = S /\ Part(f, S, x) = 0
    BY <1>7 DEF Part
  <2>2. \A i \in Int : i = 0 + i
    BY SMTT(40)
  <2>3. 0 \in Int
    BY SMTT(40)
  <2> QED
    BY <1>1, <1>3, <1>5, <2>1, <2>2, <2>3
<1> QED
  BY <1>6, <1>7

ChangedAt(f, S, e, T, x) ==
    /\ SumFunctionOnSet(f, S) \in Int
    /\ SumFunctionOnSet(e, T) = SumFunctionOnSet(f, S) + Part(e, T, x) - Part(f, S, x)

\* A sum changes by the change of the only element that differs.
LEMMA SumChange ==
    ASSUME NEW S, IsFiniteSet(S), NEW T, IsFiniteSet(T), NEW f, Ints(f, S), NEW e, Ints(e, T),
           NEW x, S \ {x} = T \ {x}, Agree(f, e, S \ {x})
    PROVE  ChangedAt(f, S, e, T, x)
<1>1. SumFunctionOnSet(f, S \ {x}) = SumFunctionOnSet(e, T \ {x})
  <2>1. IsFiniteSet(S \ {x}) /\ Ints(f, S \ {x})
    BY FS_RemoveElement DEF Ints
  <2> QED
    BY <2>1, SumSame
<1>2. /\ SumFunctionOnSet(f, S) \in Int
      /\ SumFunctionOnSet(f, S \ {x}) \in Int
      /\ Part(f, S, x) \in Int
      /\ SumFunctionOnSet(f, S) = Part(f, S, x) + SumFunctionOnSet(f, S \ {x})
  BY SumSplit
<1>3. /\ Part(e, T, x) \in Int
      /\ SumFunctionOnSet(e, T) = Part(e, T, x) + SumFunctionOnSet(e, T \ {x})
  BY SumSplit
<1> QED
  BY <1>1, <1>2, <1>3, SMTT(40) DEF ChangedAt

\* A sum whose shares are no more than another's is no more.
LEMMA SumMono ==
    ASSUME NEW D, IsFiniteSet(D), NEW S, NEW T, S \subseteq D, T \subseteq D,
           NEW f, Ints(f, S), NEW e, Ints(e, T),
           \A x \in D : Part(f, S, x) <= Part(e, T, x)
    PROVE  SumFunctionOnSet(f, S) <= SumFunctionOnSet(e, T)
<1> DEFINE P == {C \in SUBSET D : SumFunctionOnSet(f, S \cap C) <= SumFunctionOnSet(e, T \cap C)}
<1>1. {} \in P
  <2>1. S \cap {} = {} /\ T \cap {} = {}
    OBVIOUS
  <2>2. 0 <= 0
    BY SMTT(40)
  <2> QED
    BY <2>1, <2>2, SumEmpty
<1>2. ASSUME NEW C \in SUBSET D, C # {}, \A x \in C : C \ {x} \in P PROVE C \in P
  <2>1. PICK x : x \in C
    BY <1>2
  <2>2. IsFiniteSet(S \cap C) /\ IsFiniteSet(T \cap C) /\ Ints(f, S \cap C) /\ Ints(e, T \cap C)
    BY FS_Subset DEF Ints
  <2>3. S \cap (C \ {x}) = (S \cap C) \ {x} /\ T \cap (C \ {x}) = (T \cap C) \ {x}
    OBVIOUS
  <2>4. PICK a, b : a = SumFunctionOnSet(f, (S \cap C) \ {x})
                    /\ b = SumFunctionOnSet(e, (T \cap C) \ {x})
    OBVIOUS
  <2>5. a <= b
    BY <1>2, <2>1, <2>3, <2>4
  <2>6. /\ a \in Int /\ Part(f, S \cap C, x) \in Int
        /\ SumFunctionOnSet(f, S \cap C) = Part(f, S \cap C, x) + a
    BY <2>2, <2>4, SumSplit
  <2>7. /\ b \in Int /\ Part(e, T \cap C, x) \in Int
        /\ SumFunctionOnSet(e, T \cap C) = Part(e, T \cap C, x) + b
    BY <2>2, <2>4, SumSplit
  <2>8. Part(f, S \cap C, x) = Part(f, S, x) /\ Part(e, T \cap C, x) = Part(e, T, x)
    BY <2>1 DEF Part
  <2>9. Part(f, S \cap C, x) <= Part(e, T \cap C, x)
    BY <2>1, <2>8
  <2>10. Part(f, S \cap C, x) + a <= Part(e, T \cap C, x) + b
    BY <2>5, <2>6, <2>7, <2>9, SMTT(40)
  <2> QED
    BY <2>6, <2>7, <2>10
<1>3. SUBSET D \subseteq P
  <2> HIDE DEF P
  <2> QED
    BY <1>1, <1>2, SubsetInd
<1>4. S \cap D = S /\ T \cap D = T
  OBVIOUS
<1> QED
  BY <1>3, <1>4

-----------------------------------------------------------------------------
(* What was matched, what is left and what the order manager has booked *)

\* The matched quantities are quantities, and their sum is over the trades.
LEMMA ShareType == ASSUME LifecycleTypeOK, NEW c \in Coids PROVE Share(c) \in [Trades -> Nat]
<1> SUFFICES ASSUME NEW t \in Trades PROVE (IF trade[t].coid = c THEN trade[t].qty ELSE 0) \in Nat
  BY DEF Share
<1>1. trade[t].qty \in 0..Quantity
  BY SMTT(40) DEF LifecycleTypeOK
<1> QED
  BY <1>1, OrderAssumption, SMTT(40)

LEMMA SumIsOverTrades ==
    ASSUME NEW f \in [Trades -> Nat]
    PROVE  SumFunction(f) = SumFunctionOnSet(f, Trades) /\ Ints(f, Trades)
<1>1. DOMAIN f = Trades
  OBVIOUS
<1>2. \A n \in Nat : n \in Int
  BY SMTT(40)
<1>3. Ints(f, Trades)
  BY <1>2 DEF Ints
<1> QED
  BY <1>1, <1>3 DEF SumFunction

LEMMA SumIsInt == ASSUME NEW f \in [Trades -> Nat] PROVE SumFunction(f) \in Int
<1>1. SumFunction(f) = SumFunctionOnSet(f, Trades) /\ Ints(f, Trades)
  BY SumIsOverTrades
<1>2. IsFiniteSet(Trades)
  BY OrderAssumption
<1>3. PICK g : Solves(g, f, Trades) /\ SumFunctionOnSet(f, Trades) = g[Trades]
  BY <1>1, <1>2, SumSolves
<1> QED
  BY <1>1, <1>3 DEF Solves

\* The sum of quantities that are no more than others' is no more than theirs.
LEMMA SumGrows ==
    ASSUME NEW f \in [Trades -> Nat], NEW e \in [Trades -> Nat], \A t \in Trades : f[t] <= e[t]
    PROVE  SumFunction(f) <= SumFunction(e)
<1>1. SumFunction(f) = SumFunctionOnSet(f, Trades) /\ Ints(f, Trades)
  BY SumIsOverTrades
<1>2. SumFunction(e) = SumFunctionOnSet(e, Trades) /\ Ints(e, Trades)
  BY SumIsOverTrades
<1>3. IsFiniteSet(Trades) /\ Trades \subseteq Trades
  BY OrderAssumption
<1>4. \A t \in Trades : Part(f, Trades, t) <= Part(e, Trades, t)
  BY DEF Part
<1>5. SumFunctionOnSet(f, Trades) <= SumFunctionOnSet(e, Trades)
  BY <1>1, <1>2, <1>3, <1>4, SumMono
<1> QED
  BY <1>1, <1>2, <1>5

\* No quantities add up to nothing.
LEMMA SumOfNone == SumFunction([t \in Trades |-> 0]) = 0
<1>1. PICK f : f = [t \in Trades |-> 0]
  OBVIOUS
<1>2. f \in [Trades -> Nat] /\ \A t \in Trades : f[t] = 0
  BY <1>1, SMTT(40)
<1>3. SumFunction(f) = SumFunctionOnSet(f, Trades) /\ Ints(f, Trades) /\ SumFunction(f) \in Int
  BY <1>2, SumIsOverTrades, SumIsInt
<1>4. IsFiniteSet(Trades) /\ Trades \subseteq Trades /\ {} \subseteq Trades /\ Ints(f, {})
  BY OrderAssumption DEF Ints
<1>5. \A t \in Trades : Part(f, Trades, t) <= Part(f, {}, t) /\ Part(f, {}, t) <= Part(f, Trades, t)
  BY <1>2, SMTT(40) DEF Part
<1>6. SumFunctionOnSet(f, Trades) <= SumFunctionOnSet(f, {})
  BY <1>3, <1>4, <1>5, SumMono
<1>7. SumFunctionOnSet(f, {}) <= SumFunctionOnSet(f, Trades)
  BY <1>3, <1>4, <1>5, SumMono
<1>8. SumFunctionOnSet(f, {}) = 0
  BY SumEmpty
<1>9. SumFunction(f) = 0
  BY <1>3, <1>6, <1>7, <1>8, SMTT(40)
<1> QED
  BY <1>1, <1>9

\* A sum grows by what one trade grows.
LEMMA SumAdds ==
    ASSUME NEW f \in [Trades -> Nat], NEW t \in Trades, f[t] = 0, NEW q \in Nat
    PROVE  SumFunction([f EXCEPT ![t] = q]) = SumFunction(f) + q
<1>1. PICK e : e = [f EXCEPT ![t] = q]
  OBVIOUS
<1>2. e \in [Trades -> Nat] /\ e[t] = q /\ \A s \in Trades \ {t} : e[s] = f[s]
  BY <1>1
<1>3. SumFunction(f) = SumFunctionOnSet(f, Trades) /\ Ints(f, Trades)
  BY SumIsOverTrades
<1>4. SumFunction(e) = SumFunctionOnSet(e, Trades) /\ Ints(e, Trades)
  BY <1>2, SumIsOverTrades
<1>5. IsFiniteSet(Trades) /\ Agree(f, e, Trades \ {t})
  BY <1>2, OrderAssumption DEF Agree
<1>6. ChangedAt(f, Trades, e, Trades, t)
  BY <1>3, <1>4, <1>5, SumChange
<1>7. Part(e, Trades, t) = q /\ Part(f, Trades, t) = 0
  BY <1>2 DEF Part
<1>8. SumFunction(f) \in Int /\ SumFunction(e) = SumFunction(f) + q - 0
  BY <1>3, <1>4, <1>6, <1>7 DEF ChangedAt
<1>9. SumFunction(e) = SumFunction(f) + q
  BY <1>8, SMTT(40)
<1> QED
  BY <1>1, <1>9

\* A delivered trade report books what the exchange matched, or takes it out again.
LEMMA FilledAfterBooked ==
    ASSUME LInv, NEW u \in mail, u.status # "ExecutorRejected"
    PROVE  /\ FilledAfter(u) \in [Trades -> Nat]
           /\ \A t \in Trades : FilledAfter(u)[t] <= Share(u.coid)[t]
<1>1. WellFormed(u) /\ Letter(u) /\ TypeOK /\ LifecycleTypeOK
  BY LettersWellFormed DEF LInv, Flow, Letters, IInv
<1>2. FilledAfter(u) \in [Trades -> Nat]
  BY <1>1, FilledAfterType
<1>3. u.coid \in Coids
  BY <1>1 DEF WellFormed
<1>4. Share(u.coid) \in [Trades -> Nat] /\ filled[u.coid] \in [Trades -> Nat]
  BY <1>1, <1>3, ShareType DEF TypeOK
<1>5. \A t \in Trades : filled[u.coid][t] <= Share(u.coid)[t]
  BY <1>3 DEF LInv, Booked
<1>6. \A t \in Trades : 0 <= Share(u.coid)[t]
  BY <1>4, SMTT(40)
<1>7. CASE IsFill(u) /\ u.trade # NoTrade
  <2>1. u.trade \in Trades /\ Share(u.coid)[u.trade] = u.qty
    BY <1>1, <1>7 DEF Letter, TradeLetter, OrderLetter, Share
  <2>2. FilledAfter(u) = [filled[u.coid] EXCEPT ![u.trade] = u.qty]
    BY <1>7 DEF FilledAfter
  <2>3. u.qty <= u.qty
    BY <1>1, SMTT(40) DEF WellFormed
  <2>4. \A t \in Trades : FilledAfter(u)[t] = IF t = u.trade THEN u.qty ELSE filled[u.coid][t]
    BY <1>4, <2>2
  <2> QED
    BY <1>2, <1>5, <2>1, <2>3, <2>4
<1>8. CASE ~(IsFill(u) /\ u.trade # NoTrade) /\ IsReversal(u)
  <2>1. FilledAfter(u) = [filled[u.coid] EXCEPT ![u.trade] = 0]
    BY <1>8 DEF FilledAfter
  <2>2. \A t \in Trades : FilledAfter(u)[t] = IF t = u.trade THEN 0 ELSE filled[u.coid][t]
    BY <1>4, <2>1
  <2> QED
    BY <1>2, <1>5, <1>6, <2>2
<1>9. CASE ~(IsFill(u) /\ u.trade # NoTrade) /\ ~IsReversal(u)
  BY <1>2, <1>5, <1>9 DEF FilledAfter
<1> QED
  BY <1>7, <1>8, <1>9

\* An order counts as executed only when no more than dust of it is left.
LEMMA CoveredIsDust ==
    ASSUME LInv, NEW u \in mail, u.status # "ExecutorRejected", Covered(u) PROVE Dust(u.coid)
<1>1. u.coid \in Coids /\ LifecycleTypeOK
  BY DEF LInv, Flow, Letters, Letter
<1>2. /\ FilledAfter(u) \in [Trades -> Nat]
      /\ \A t \in Trades : FilledAfter(u)[t] <= Share(u.coid)[t]
  BY FilledAfterBooked
<1>3. Share(u.coid) \in [Trades -> Nat]
  BY <1>1, ShareType
<1>4. SumFunction(FilledAfter(u)) <= SumFunction(Share(u.coid))
  BY <1>2, <1>3, SumGrows
<1>5. SumFunction(FilledAfter(u)) \in Int /\ SumFunction(Share(u.coid)) \in Int
  BY <1>2, <1>3, SumIsInt
<1>6. SumFunction(Share(u.coid)) + remaining[u.coid] = Quantity
  BY <1>1 DEF LInv, Conserved
<1>7. PICK a, b, r : a = SumFunction(FilledAfter(u)) /\ b = SumFunction(Share(u.coid))
                     /\ r = remaining[u.coid]
  OBVIOUS
<1>8. a >= Quantity - Quantity \div 100
  BY <1>7 DEF Covered, Covers
<1>9. a \in Int /\ b \in Int /\ a <= b /\ b + r = Quantity
  BY <1>4, <1>5, <1>6, <1>7
<1>10. r \in 0..Quantity
  BY <1>1, <1>7 DEF LifecycleTypeOK
<1>11. r <= Quantity \div 100
  BY <1>8, <1>9, <1>10, OrderAssumption, SMTT(40)
<1> QED
  BY <1>7, <1>11 DEF Dust

\* The sums do not change when no trade is made and nothing is booked.
LEMMA SumsStay ==
    ASSUME LInv, \A t \in Trades : trade'[t].coid = trade[t].coid /\ trade'[t].qty = trade[t].qty,
           remaining' = remaining, filled' = filled
    PROVE  Booked' /\ Conserved'
<1>1. \A c \in Coids : Share(c)' = Share(c)
  BY DEF Share
<1> QED
  BY <1>1 DEF LInv, Booked, Conserved

\* Booking reports, or forgetting an order, leaves no more booked than was matched.
LEMMA FilledStays ==
    ASSUME LInv, trade' = trade, remaining' = remaining, NEW c \in Coids, NEW f,
           filled' = [filled EXCEPT ![c] = f], \A t \in Trades : f[t] <= Share(c)[t]
    PROVE  Booked' /\ Conserved'
<1>1. \A d \in Coids : Share(d)' = Share(d)
  BY DEF Share
<1>2. filled \in [Coids -> [Trades -> Nat]]
  BY DEF LInv, Flow, IInv, TypeOK
<1>3. filled'[c] = f /\ \A d \in Coids \ {c} : filled'[d] = filled[d]
  BY <1>2
<1>4. Booked'
  BY <1>1, <1>3 DEF LInv, Booked
<1>5. Conserved'
  BY <1>1 DEF LInv, Conserved
<1> QED
  BY <1>4, <1>5

\* A new trade takes from remaining what it adds to the matched quantity.
LEMMA TradeSums ==
    ASSUME LInv, NEW c \in Coids, NEW t \in Trades, NEW q \in Nat, NEW stage,
           trade[t] = NoSuchTrade, filled' = filled,
           trade' = [trade EXCEPT ![t] = [coid |-> c, qty |-> q, stage |-> stage]],
           remaining' = [remaining EXCEPT ![c] = remaining[c] - q]
    PROVE  Booked' /\ Conserved'
<1>1. LifecycleTypeOK
  BY DEF LInv, Flow
<1>2. 0 \notin Coids
  BY SMTT(40), OrderAssumption DEF Coids
<1>3. /\ trade'[t].coid = c /\ trade'[t].qty = q /\ trade[t].coid = 0 /\ trade[t].qty = 0
      /\ \A s \in Trades \ {t} : trade'[s] = trade[s]
  BY <1>1, SMTT(40) DEF LifecycleTypeOK, NoSuchTrade
<1>4. \A d \in Coids : Share(d)[t] = 0
  BY <1>2, <1>3 DEF Share
<1>5. ASSUME NEW d \in Coids \ {c} PROVE Share(d)' = Share(d)
  <2>1. \A s \in Trades : (IF trade'[s].coid = d THEN trade'[s].qty ELSE 0)
                            = IF trade[s].coid = d THEN trade[s].qty ELSE 0
    <3>1. trade'[t].coid # d /\ trade[t].coid # d
      BY <1>2, <1>3
    <3>2. ASSUME NEW s \in Trades \ {t}
          PROVE  (IF trade'[s].coid = d THEN trade'[s].qty ELSE 0)
                   = IF trade[s].coid = d THEN trade[s].qty ELSE 0
      <4>1. trade'[s] = trade[s]
        BY <1>3
      <4> QED
        BY <4>1, SMTT(40)
    <3>3. (IF trade'[t].coid = d THEN trade'[t].qty ELSE 0)
            = IF trade[t].coid = d THEN trade[t].qty ELSE 0
      BY <3>1
    <3> QED
      BY <3>2, <3>3
  <2> QED
    BY <2>1 DEF Share
<1>6. Share(c)' = [Share(c) EXCEPT ![t] = q]
  <2>1. \A s \in Trades : (IF trade'[s].coid = c THEN trade'[s].qty ELSE 0)
                            = IF s = t THEN q ELSE Share(c)[s]
    <3>1. \A s \in Trades : Share(c)[s] = IF trade[s].coid = c THEN trade[s].qty ELSE 0
      BY DEF Share
    <3>2. (IF trade'[t].coid = c THEN trade'[t].qty ELSE 0) = q
      BY <1>3
    <3>3. \A s \in Trades \ {t} : (IF trade'[s].coid = c THEN trade'[s].qty ELSE 0) = Share(c)[s]
      BY <1>3, <3>1
    <3> QED
      BY <3>2, <3>3
  <2>2. Share(c)' = [s \in Trades |-> IF s = t THEN q ELSE Share(c)[s]]
    BY <2>1 DEF Share
  <2> QED
    BY <2>2 DEF Share
<1>7. Share(c) \in [Trades -> Nat]
  BY <1>1, ShareType
<1>8. SumFunction(Share(c)') = SumFunction(Share(c)) + q
  BY <1>4, <1>6, <1>7, SumAdds
<1>9. remaining \in [Coids -> 0..Quantity]
  BY <1>1 DEF LifecycleTypeOK
<1>10. remaining'[c] = remaining[c] - q /\ \A d \in Coids \ {c} : remaining'[d] = remaining[d]
  BY <1>9
<1>11. Conserved'
  <2>1. SumFunction(Share(c)) + remaining[c] = Quantity /\ SumFunction(Share(c)) \in Int
    BY <1>7, SumIsInt DEF LInv, Conserved
  <2>2. remaining[c] \in Int
    BY <1>9, OrderAssumption, SMTT(40)
  <2>3. SumFunction(Share(c)') + remaining'[c] = Quantity
    BY <1>8, <1>10, <2>1, <2>2, SMTT(40)
  <2>4. \A d \in Coids \ {c} : SumFunction(Share(d)') + remaining'[d] = Quantity
    BY <1>5, <1>10 DEF LInv, Conserved
  <2> QED
    BY <2>3, <2>4 DEF Conserved
<1>12. Booked'
  <2>1. filled[c] \in [Trades -> Nat]
    BY DEF LInv, Flow, IInv, TypeOK
  <2>2. filled[c][t] <= 0 /\ filled[c][t] \in Nat
    BY <1>4, <2>1 DEF LInv, Booked
  <2>3. filled[c][t] <= q
    BY <2>2, SMTT(40)
  <2>4. \A s \in Trades : filled[c][s] <= Share(c)'[s]
    BY <1>6, <1>7, <2>3 DEF LInv, Booked
  <2> QED
    BY <1>5, <2>4 DEF LInv, Booked
<1> QED
  BY <1>11, <1>12

-----------------------------------------------------------------------------
(* The induction *)

LEMMA InitLInv == LifecycleInit => LInv
<1> SUFFICES ASSUME LifecycleInit PROVE LInv
  OBVIOUS
<1>1. /\ Init /\ posts = {} /\ dels = [c \in Coids |-> 0] /\ srv = [c \in Coids |-> "none"]
      /\ remaining = [c \in Coids |-> Quantity] /\ trade = [t \in Trades |-> NoSuchTrade]
      /\ mail = {} /\ orphans = {}
  BY DEF LifecycleInit
<1>2. IInv /\ status = [c \in Coids |-> "Absent"] /\ filled = [c \in Coids |-> NoFills] /\ evidence = {}
  BY <1>1, InitIInv DEF Init
<1>3. LifecycleTypeOK
  <2>1. NoSuchTrade \in [coid : Coids \cup {0}, qty : 0..Quantity,
                         stage : {"none", "matched", "mined", "confirmed", "failed"}]
    BY OrderAssumption, SMTT(40) DEF NoSuchTrade
  <2>2. Quantity \in 0..Quantity /\ 0 \in Nat
    BY OrderAssumption, SMTT(40)
  <2> QED
    BY <1>1, <2>1, <2>2 DEF LifecycleTypeOK
<1>4. Settling
  BY <1>1 DEF Settling, NoSuchTrade
<1>5. Letters
  BY <1>1 DEF Letters
<1>6. Orders
  <2> SUFFICES ASSUME NEW c \in Coids PROVE Book(c) /\ Counted(c) /\ Coming(c)
    BY DEF Orders
  <2>1. /\ srv[c] = "none" /\ status[c] = "Absent" /\ dels[c] = 0 /\ remaining[c] = Quantity
        /\ c \notin evidence /\ c \notin posts /\ c \notin orphans
    BY <1>1, <1>2
  <2>2. ~ (dels[c] > 0)
    BY <2>1, SMTT(40)
  <2>3. Book(c)
    BY <2>1, <2>2 DEF Book
  <2> QED
    BY <2>1, <2>3 DEF Counted, Coming
<1>7. ASSUME NEW c \in Coids PROVE Share(c) = [t \in Trades |-> 0]
  <2>1. \A t \in Trades : trade[t].qty = 0
    BY <1>1 DEF NoSuchTrade
  <2> QED
    BY <2>1 DEF Share
<1>8. 0 <= 0 /\ 0 + Quantity = Quantity
  BY OrderAssumption, SMTT(40)
<1>9. Booked
  BY <1>2, <1>7, <1>8 DEF Booked, NoFills
<1>10. Conserved
  BY <1>1, <1>7, <1>8, SumOfNone DEF Conserved
<1> QED
  BY <1>2, <1>3, <1>4, <1>5, <1>6, <1>9, <1>10 DEF LInv, Flow

LEMMA DeliverLInv == ASSUME LInv, NEW u \in mail, Deliver(u) PROVE LInv'
<1>1. Flow /\ u.coid \in Coids /\ trade' = trade /\ remaining' = remaining
  BY DEF LInv, Flow, Letters, Letter, Deliver
<1>2. CASE u.status = "ExecutorRejected"
  <2>1. Flow'
    BY <1>1, <1>2, DroppedFlow
  <2>2. filled' = filled
    BY <1>2 DEF Deliver, on_signal_dropped
  <2>3. Booked' /\ Conserved'
    BY <1>1, <2>2, SumsStay
  <2> QED
    BY <2>1, <2>3 DEF LInv
<1>3. CASE u.status # "ExecutorRejected"
  <2>1. Flow'
    BY <1>1, <1>3, CoveredIsDust, UpdateFlow
  <2>2. on_order_update(u)
    BY <1>3 DEF Deliver
  <2>3. CASE status[u.coid] = "Absent"
    <3>1. filled' = filled
      BY <2>2, <2>3 DEF on_order_update
    <3>2. Booked' /\ Conserved'
      BY <1>1, <3>1, SumsStay
    <3> QED
      BY <2>1, <3>2 DEF LInv
  <2>4. CASE status[u.coid] # "Absent"
    <3>1. PICK f : f \in {NoFills, FilledAfter(u)} /\ filled' = [filled EXCEPT ![u.coid] = f]
      BY <2>2, <2>4 DEF on_order_update
    <3>2. \A t \in Trades : FilledAfter(u)[t] <= Share(u.coid)[t]
      BY <1>3, FilledAfterBooked
    <3>3. \A t \in Trades : NoFills[t] <= Share(u.coid)[t]
      <4>1. Share(u.coid) \in [Trades -> Nat]
        BY <1>1, ShareType DEF Flow
      <4>2. \A t \in Trades : 0 <= Share(u.coid)[t]
        BY <4>1, SMTT(40)
      <4> QED
        BY <4>2 DEF NoFills
    <3>4. \A t \in Trades : f[t] <= Share(u.coid)[t]
      BY <3>1, <3>2, <3>3
    <3>5. Booked' /\ Conserved'
      BY <1>1, <3>1, <3>4, FilledStays
    <3> QED
      BY <2>1, <3>5 DEF LInv
  <2> QED
    BY <2>3, <2>4
<1> QED
  BY <1>2, <1>3

LEMMA AdapterLInv == ASSUME LInv, NEW c \in Coids, AdapterStep(c) PROVE LInv'
<1>1. Flow
  BY DEF LInv
<1>2. ASSUME NEW t \in Trades, PlaceMatches(c, t) PROVE LInv'
  <2>1. Flow'
    BY <1>1, <1>2, PlaceMatchesFlow
  <2>2. /\ c \in posts /\ trade[t] = NoSuchTrade /\ filled' = filled
        /\ trade' = [trade EXCEPT ![t] = [coid |-> c, qty |-> Quantity, stage |-> "matched"]]
        /\ remaining' = [remaining EXCEPT ![c] = 0]
    BY <1>2 DEF PlaceMatches, Quiet, Idle, IsNext, Unused
  <2>3. remaining[c] = Quantity
    BY <1>1, <2>2, Facts DEF Book
  <2>4. Quantity \in Nat /\ 0 = Quantity - Quantity
    BY OrderAssumption, SMTT(40)
  <2>5. remaining' = [remaining EXCEPT ![c] = remaining[c] - Quantity]
    BY <2>2, <2>3, <2>4
  <2>6. Booked' /\ Conserved'
    BY <2>2, <2>4, <2>5, TradeSums
  <2> QED
    BY <2>1, <2>6 DEF LInv
<1>3. ASSUME Flow', trade' = trade, remaining' = remaining, filled' = filled PROVE LInv'
  <2>1. Booked' /\ Conserved'
    BY <1>3, SumsStay
  <2> QED
    BY <1>3, <2>1 DEF LInv
<1>4. CASE PlaceDropped(c)
  BY <1>1, <1>3, <1>4, PlaceDroppedFlow DEF PlaceDropped, Quiet, Idle
<1>5. CASE PlaceLands(c)
  BY <1>1, <1>3, <1>5, PlaceLandsFlow DEF PlaceLands, Quiet, Idle
<1>6. CASE PlaceTimesOut(c)
  BY <1>1, <1>3, <1>6, PlaceTimesOutFlow DEF PlaceTimesOut, Quiet, Idle
<1>7. CASE DelayedResolves(c)
  BY <1>1, <1>3, <1>7, DelayedResolvesFlow DEF DelayedResolves, Quiet, Idle
<1>8. CASE CancelDropped(c)
  BY <1>1, <1>3, <1>8, CancelDroppedFlow DEF CancelDropped, Quiet, Idle
<1>9. CASE CancelFails(c)
  BY <1>1, <1>3, <1>9, CancelFailsFlow DEF CancelFails, Quiet, Idle
<1>10. CASE CancelReaches(c)
  BY <1>1, <1>3, <1>10, CancelReachesFlow DEF CancelReaches, Quiet, Idle
<1>11. CASE CancelTimesOut(c)
  BY <1>1, <1>3, <1>11, CancelTimesOutFlow DEF CancelTimesOut, Quiet, Idle
<1>12. CASE Reconcile(c)
  BY <1>1, <1>3, <1>12, ReconcileFlow DEF Reconcile, Quiet, Idle
<1> QED
  BY <1>2, <1>4, <1>5, <1>6, <1>7, <1>8, <1>9, <1>10, <1>11, <1>12
    DEF AdapterStep, PlaceStep, CancelStep

\* Every step of the lifecycle preserves the invariant.
LEMMA NextLInv == LInv /\ [LifecycleNext]_vars => LInv'
<1> SUFFICES ASSUME LInv, [LifecycleNext]_vars PROVE LInv'
  OBVIOUS
<1>1. Flow
  BY DEF LInv
<1>2. ASSUME Flow', trade' = trade, remaining' = remaining, filled' = filled PROVE LInv'
  <2>1. Booked' /\ Conserved'
    BY <1>2, SumsStay
  <2> QED
    BY <1>2, <2>1 DEF LInv
<1>3. ASSUME NEW cancels \in SUBSET cancelable, NEW place \in Sides \cup {"None"},
             Quote(cancels, place)
      PROVE  LInv'
  BY <1>1, <1>2, <1>3, QuoteFlow DEF Quote, apply_reconcile
<1>4. ASSUME NEW room \in 0..MaxOrders, CancelAll(room) PROVE LInv'
  BY <1>1, <1>2, <1>4, CancelAllFlow DEF CancelAll, cancel_orders_with
<1>5. ASSUME NEW s \in Sides, Inject(s) PROVE LInv'
  <2>1. Flow'
    BY <1>1, <1>5, InjectFlow
  <2>2. /\ trade' = trade /\ remaining' = remaining /\ nextId \in Coids
        /\ filled' = [filled EXCEPT ![nextId] = NoFills]
    BY <1>5 DEF Inject, inject_open_order
  <2>3. Share(nextId) \in [Trades -> Nat]
    BY <1>1, <2>2, ShareType DEF Flow
  <2>4. \A t \in Trades : 0 <= Share(nextId)[t]
    BY <2>3, SMTT(40)
  <2>5. \A t \in Trades : NoFills[t] <= Share(nextId)[t]
    BY <2>4 DEF NoFills
  <2>6. Booked' /\ Conserved'
    BY <2>2, <2>5, FilledStays
  <2> QED
    BY <2>1, <2>6 DEF LInv
<1>6. ASSUME NEW u \in mail, Deliver(u) PROVE LInv'
  BY <1>6, DeliverLInv
<1>7. ASSUME NEW c \in Coids, AdapterStep(c) PROVE LInv'
  BY <1>7, AdapterLInv
<1>8. ASSUME NEW c \in Coids, NEW t \in Trades, NEW q \in Sizes, Match(c, t, q) PROVE LInv'
  <2>1. Flow'
    BY <1>1, <1>8, MatchFlow
  <2>2. /\ trade[t] = NoSuchTrade /\ filled' = filled
        /\ trade' = [trade EXCEPT ![t] = [coid |-> c, qty |-> q, stage |-> "matched"]]
        /\ remaining' = [remaining EXCEPT ![c] = remaining[c] - q]
    BY <1>8 DEF Match, Quiet, Idle, IsNext, Unused
  <2>3. q \in Nat
    BY OrderAssumption, SMTT(40)
  <2>4. Booked' /\ Conserved'
    BY <2>2, <2>3, TradeSums
  <2> QED
    BY <2>1, <2>4 DEF LInv
<1>9. ASSUME NEW t \in Trades, Settle(t) PROVE LInv'
  <2>1. Flow'
    BY <1>1, <1>9, SettleFlow
  <2>2. /\ remaining' = remaining /\ filled' = filled
        /\ \E stage : trade' = [trade EXCEPT ![t].stage = stage]
    BY <1>9 DEF Settle, Quiet, Idle
  <2>3. \A s \in Trades : trade'[s].coid = trade[s].coid /\ trade'[s].qty = trade[s].qty
    <3>1. trade \in [Trades -> TradeRecords]
      BY <1>1 DEF Flow, LifecycleTypeOK, TradeRecords
    <3> QED
      BY <2>2, <3>1, SMTT(40) DEF TradeRecords
  <2>4. Booked' /\ Conserved'
    BY <2>2, <2>3, SumsStay
  <2> QED
    BY <2>1, <2>4 DEF LInv
<1>10. CASE UNCHANGED vars
  <2>1. /\ UNCHANGED omvars /\ status' = status /\ nextId' = nextId /\ evidence' = evidence
        /\ posts' = posts /\ dels' = dels /\ srv' = srv /\ remaining' = remaining
        /\ trade' = trade /\ mail' = mail /\ orphans' = orphans /\ uncancelled' = uncancelled
        /\ filled' = filled
    BY <1>10 DEF vars, omvars, envvars
  <2>2. IInv'
    BY <1>1, <2>1, NextIInv DEF Flow
  <2>3. LifecycleTypeOK' /\ Settling' /\ Letters'
    <3>1. LifecycleTypeOK' /\ Settling'
      BY <1>1, <2>1 DEF Flow, LifecycleTypeOK, Settling
    <3>2. Letters'
      BY <1>1, <2>1 DEF Flow, Letters, Letter, TradeLetter, OrderLetter
    <3> QED
      BY <3>1, <3>2
  <2>4. Orders'
    BY <1>1, <2>1 DEF Flow, Orders, Book, Counted, Coming, Awaits, Dust
  <2> QED
    BY <1>2, <2>1, <2>2, <2>3, <2>4 DEF Flow
<1> QED
  BY <1>3, <1>4, <1>5, <1>6, <1>7, <1>8, <1>9, <1>10 DEF LifecycleNext

LEMMA LifecycleInvariance == LifecycleSpec => []LInv
BY InitLInv, NextLInv, PTL DEF LifecycleSpec

\* locked_sell_qty, locked_buy_cost and live_count cover the book, for any number of
\* orders and trades of any sizes and any number of dropped, timed-out and failed
\* requests: on_order_update ends an order that rests with more than dust in no order
\* of acceptances, fills, cancels and repeated reports.
THEOREM LocksCoverTheBook == LifecycleSpec => []LockedWhileResting
<1>1. LInv => LockedWhileResting
  <2> SUFFICES ASSUME LInv, NEW c \in Coids, srv[c] = "resting", ~Dust(c) PROVE c \in live
    BY DEF LockedWhileResting
  <2>1. status[c] \in Live
    BY DEF LInv, Flow, Orders, Counted
  <2> QED
    BY <2>1 DEF LInv, Flow, IInv, IndexesAgree
<1> QED
  BY LifecycleInvariance, <1>1, PTL

\* No order is forgotten: on_order_update and on_signal_dropped leave every order that
\* rests cancelable once nothing about it is on its way, unless a DELETE of it failed
\* definitely or found the sink full.
THEOREM NoOrderIsForgotten == LifecycleSpec => []NotForgotten
<1>1. LInv => NotForgotten
  <2> SUFFICES ASSUME LInv, NEW c \in Coids \ uncancelled, Forgotten(c) PROVE FALSE
    BY DEF NotForgotten
  <2>1. /\ srv[c] = "resting" /\ ~Dust(c) /\ status[c] # "Active"
        /\ c \notin orphans /\ dels[c] = 0 /\ \A u \in mail : u.coid # c
    BY DEF Forgotten, Settled
  <2>2. Counted(c) /\ Coming(c)
    BY DEF LInv, Flow, Orders
  <2>3. status[c] \in {"Submitted", "Cancelling"}
    BY <2>1, <2>2 DEF Counted, Live
  <2>4. ~ (dels[c] > 0)
    BY <2>1, SMTT(40)
  <2> QED
    BY <2>1, <2>2, <2>3, <2>4 DEF Coming, Awaits
<1> QED
  BY LifecycleInvariance, <1>1, PTL

\* The order manager has booked no more of an order than the exchange matched of it,
\* whatever reports of a trade were repeated, late or reversed.
THEOREM BookedIsMatched == LifecycleSpec => []Booked
<1>1. LInv => Booked
  BY DEF LInv
<1> QED
  BY LifecycleInvariance, <1>1, PTL

=============================================================================
