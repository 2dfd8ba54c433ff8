------------------------ MODULE PositionManagerProofs ------------------------
(***************************************************************************)
(* The properties of PositionManager for every set of trades and orders,   *)
(* every size, fee, side and price, every number of synthetic ids and      *)
(* every interleaving of the operations.                                   *)
(*                                                                         *)
(* LedgerInv carries the life cycle of a trade.  SumsInv says that what    *)
(* the caller summed up, the volumes and the index are the sums of the     *)
(* ledger; LocksInv says the same of the reservations.  Both rest on how a *)
(* sum over a finite set changes with one element, which is proved first.  *)
(* CoversInv and ExactInv relate the reservation of an order to its fills. *)
(***************************************************************************)
EXTENDS PositionManager, FiniteSetTheorems, WellFoundedInduction, TLAPS

\* The ledger's share of the type invariant with the two properties.
LedgerInv ==
    /\ trades \in [Ids -> Rows]
    /\ best \in [Ids -> 0..4]
    /\ booked \in [Ids -> Int]
    /\ Converges
    /\ SignsBalance

\* A report takes a trade to the higher of the two stages, or leaves it there.
LEMMA OutcomeIsHigher ==
    ASSUME NEW p \in TradeStatus \cup {"None"}, NEW s \in TradeStatus
    PROVE  /\ Outcome(p, s) = "noop" => Higher(rank(p), rank(s)) = rank(p)
           /\ Outcome(p, s) # "noop" => Higher(rank(p), rank(s)) = rank(s)
BY DEF Outcome, Higher, rank, TradeStatus

\* The sign of a report is the change of whether the trade is live.
LEMMA SignIsChange ==
    ASSUME NEW p \in TradeStatus \cup {"None"}, NEW s \in TradeStatus, Outcome(p, s) # "noop"
    PROVE  Bit(Live(p)) + accumulator_sign(Outcome(p, s)) = Bit(Live(s))
BY DEF Outcome, accumulator_sign, Bit, Live, rank, TradeStatus

\* upsert_trade_inner keeps the invariant, whether it admits the report or not.
LEMMA UpsertKeepsInv ==
    ASSUME PositionAssumption, LedgerInv,
           NEW id, NEW s \in TradeStatus, NEW fee \in Fees, upsert_trade_inner(id, s, fee)
    PROVE  LedgerInv'
<1> DEFINE old == trades[id]
           new == IF old = NoRow THEN [status |-> s, fee |-> fee, attributed |-> TRUE]
                  ELSE [old EXCEPT !.status = s]
<1>1. CASE id \notin Ids
  <2>1. UNCHANGED <<trades, best, booked>>
    BY <1>1 DEF upsert_trade_inner, LedgerInv
  <2>2. QED
    BY <2>1 DEF LedgerInv, Converges, SignsBalance
<1>2. CASE id \in Ids /\ Result(id, s, fee) = "noop"
  <2>1. UNCHANGED <<trades, booked>>
    BY <1>2 DEF upsert_trade_inner
  <2>2. old.status \in TradeStatus \cup {"None"} /\ rank(old.status) = best[id]
    BY <1>2 DEF LedgerInv, Rows, Converges
  <2>3. best' = best
    <3>1. CASE ~Admits(id, fee)
      BY <3>1 DEF upsert_trade_inner
    <3>2. CASE Admits(id, fee)
      <4>1. Outcome(old.status, s) = "noop"
        BY <3>2, <1>2 DEF Result
      <4>2. Higher(best[id], rank(s)) = best[id]
        BY <4>1, <2>2, OutcomeIsHigher
      <4>3. QED
        BY <4>2, <3>2, <1>2 DEF upsert_trade_inner, LedgerInv
    <3>3. QED
      BY <3>1, <3>2
  <2>4. QED
    BY <2>1, <2>3 DEF LedgerInv, Converges, SignsBalance
<1>3. CASE id \in Ids /\ Result(id, s, fee) # "noop"
  <2>1. Admits(id, fee) /\ Outcome(old.status, s) # "noop"
    BY <1>3 DEF Result
  <2>2. old \in Rows /\ old.status \in TradeStatus \cup {"None"} /\ rank(old.status) = best[id]
        /\ booked[id] = Bit(Live(old.status))
    BY <1>3 DEF LedgerInv, Rows, Converges, SignsBalance
  <2>3. new \in Rows /\ new.status = s
    BY <2>2 DEF Rows
  <2>4. /\ trades' = [trades EXCEPT ![id] = new]
        /\ best' = [best EXCEPT ![id] = Higher(best[id], rank(s))]
        /\ booked' = [booked EXCEPT ![id] = booked[id] + accumulator_sign(Outcome(old.status, s))]
    BY <1>3, <2>1 DEF upsert_trade_inner, Result
  <2>5. Higher(best[id], rank(s)) = rank(s) /\ rank(s) \in 0..4
    <3>1. rank(s) \in 0..4
      BY DEF rank
    <3>2. Higher(best[id], rank(s)) = rank(s)
      BY <2>1, <2>2, OutcomeIsHigher
    <3>3. QED
      BY <3>1, <3>2
  <2>6. booked[id] + accumulator_sign(Outcome(old.status, s)) = Bit(Live(s))
    BY <2>1, <2>2, SignIsChange
  <2>7. Bit(Live(s)) \in Int
    BY DEF Bit
  <2>8. /\ trades' \in [Ids -> Rows] /\ best' \in [Ids -> 0..4] /\ booked' \in [Ids -> Int]
    BY <1>3, <2>3, <2>4, <2>5, <2>6, <2>7 DEF LedgerInv
  <2>9. \A i \in Ids : rank(trades'[i].status) = best'[i]
    BY <1>3, <2>3, <2>4, <2>5 DEF LedgerInv, Converges
  <2>10. \A i \in Ids : booked'[i] = Bit(Live(trades'[i].status))
    BY <1>3, <2>3, <2>4, <2>6 DEF LedgerInv, SignsBalance
  <2>11. QED
    BY <2>8, <2>9, <2>10 DEF LedgerInv, Converges, SignsBalance
<1>4. QED
  BY <1>1, <1>2, <1>3

\* The fees that reports carry are among the ledger's fees.
LEMMA FeesOfReports == PositionAssumption => NoFee \in Fees /\ \A t \in Trades : FeeOf[t] \in Fees
BY DEF PositionAssumption, NoFee, Fees

\* The ledger starts, and is rebuilt, with one row per trade, counted as it stands.
LEMMA FreshLedger ==
    ASSUME PositionAssumption, NEW rows \in [Trades -> Rows], NEW T, T = Extend(rows)
    PROVE  /\ T \in [Ids -> Rows]
           /\ [id \in Ids |-> rank(T[id].status)] \in [Ids -> 0..4]
           /\ [id \in Ids |-> Bit(Live(T[id].status))] \in [Ids -> Int]
<1>1. NoRow \in Rows
  BY FeesOfReports DEF NoRow, Rows
<1>2. T \in [Ids -> Rows]
  BY <1>1 DEF Extend
<1>3. \A x : rank(x) \in 0..4
  BY DEF rank
<1>4. \A b : Bit(b) \in Int
  BY DEF Bit
<1>5. QED
  BY <1>2, <1>3, <1>4

\* The rows of the shared account are rows of the ledger.
LEMMA RestoredAreRows ==
    ASSUME PositionAssumption, NEW rows \in Restored
    PROVE  rows \in [Trades -> Rows]
<1>1. \A t \in Trades : RestoredRows(t) \subseteq Rows
  <2> SUFFICES ASSUME NEW t \in Trades, NEW row \in RestoredRows(t) PROVE row \in Rows
    OBVIOUS
  <2>1. NoFee \in Fees /\ FeeOf[t] \in Fees
    BY FeesOfReports
  <2>2. CASE row = NoRow
    BY <2>1, <2>2 DEF NoRow, Rows
  <2>3. CASE \E s \in TradeStatus : row = [status |-> s, fee |-> FeeOf[t], attributed |-> TRUE]
    BY <2>1, <2>3 DEF Rows
  <2>4. CASE \E s \in TradeStatus : row = [status |-> s, fee |-> NoFee, attributed |-> FALSE]
    BY <2>1, <2>4 DEF Rows
  <2>5. QED
    BY <2>2, <2>3, <2>4 DEF RestoredRows
<1>2. rows \in [Trades -> UNION {RestoredRows(t) : t \in Trades}]
      /\ \A t \in Trades : rows[t] \in RestoredRows(t)
  BY DEF Restored
<1>3. QED
  BY <1>1, <1>2

\* The ledger restored at the start satisfies the invariant.
LEMMA InitInv == PositionAssumption /\ Init => LedgerInv
<1> SUFFICES ASSUME PositionAssumption, Init PROVE LedgerInv
  OBVIOUS
<1>1. PICK rows \in Restored : trades = Extend(rows)
  BY DEF Init
<1>2. rows \in [Trades -> Rows]
  BY <1>1, RestoredAreRows
<1>3. best = [id \in Ids |-> rank(trades[id].status)]
      /\ booked = [id \in Ids |-> Bit(Live(trades[id].status))]
  BY DEF Init
<1>4. trades \in [Ids -> Rows] /\ best \in [Ids -> 0..4] /\ booked \in [Ids -> Int]
  BY <1>1, <1>2, <1>3, FreshLedger
<1>5. QED
  BY <1>3, <1>4 DEF LedgerInv, Converges, SignsBalance

\* Every operation keeps the invariant.
LEMMA NextInv ==
    ASSUME PositionAssumption, LedgerInv, [Next]_vars
    PROVE  LedgerInv'
<1>1. ASSUME UNCHANGED <<trades, best, booked>> PROVE LedgerInv'
  BY <1>1 DEF LedgerInv, Converges, SignsBalance
<1>2. ASSUME NEW u \in Updates, on_order_update(u) PROVE LedgerInv'
  <2>1. CASE u.filled = 0
    BY <1>1, <1>2, <2>1 DEF on_order_update, ledger
  <2>2. CASE u.filled # 0
    <3>1. u.status \in DOMAIN from_order_status
      BY <2>2 DEF Updates, Lifecycle, Fill
    <3>2. from_order_status[u.status] \in TradeStatus
      BY <3>1 DEF from_order_status, TradeStatus
    <3>3. \E id : upsert_trade_inner(id, from_order_status[u.status], NoFee)
      BY <1>2, <2>2 DEF on_order_update
    <3>4. QED
      BY <3>2, <3>3, UpsertKeepsInv, FeesOfReports
  <2>3. QED
    BY <2>1, <2>2
<1>3. ASSUME NEW t \in Trades, NEW s \in TradeStatus, NEW fee \in {NoFee, FeeOf[t]},
             upsert_trade(t, s, fee) \/ PrivateTrade(t, s, fee)
      PROVE  LedgerInv'
  <2>1. fee \in Fees /\ upsert_trade_inner(t, s, fee)
    BY <1>3, FeesOfReports DEF upsert_trade, PrivateTrade
  <2>2. QED
    BY <2>1, UpsertKeepsInv
<1>4. ASSUME NEW t \in Trades, attribute_restored_trade_fee(t) PROVE LedgerInv'
  <2>1. t \in Ids /\ trades[t] \in Rows /\ FeeOf[t] \in Fees
    BY FeesOfReports DEF Ids, LedgerInv
  <2>2. trades' = [trades EXCEPT ![t].fee = FeeOf[t], ![t].attributed = TRUE]
        /\ UNCHANGED <<best, booked>>
    BY <1>4 DEF attribute_restored_trade_fee
  <2>3. /\ trades' \in [Ids -> Rows]
        /\ \A id \in Ids : trades'[id].status = trades[id].status
    BY <2>1, <2>2, ZenonT(40) DEF LedgerInv, Rows
  <2>4. QED
    BY <2>2, <2>3 DEF LedgerInv, Converges, SignsBalance
<1>5. ASSUME NEW rows \in FinalRows, Rebuild(rows) PROVE LedgerInv'
  <2>1. rows \in [Trades -> Rows]
    BY RestoredAreRows DEF FinalRows
  <2>2. trades' = Extend(rows)
        /\ best' = [id \in Ids |-> rank(trades'[id].status)]
        /\ booked' = [id \in Ids |-> Bit(Live(trades'[id].status))]
    BY <1>5 DEF Rebuild
  <2>3. trades' \in [Ids -> Rows] /\ best' \in [Ids -> 0..4] /\ booked' \in [Ids -> Int]
    BY <2>1, <2>2, FreshLedger
  <2>4. QED
    BY <2>2, <2>3 DEF LedgerInv, Converges, SignsBalance
<1>6. CASE \E o \in Orders : Register(o) \/ remove_pending_order(o)
  BY <1>1, <1>6 DEF Register, remove_pending_order, ledger
<1>7. CASE \E delta \in Adjustments : adjust_balance(delta) \/ adjust_quantity(delta)
  BY <1>1, <1>7 DEF adjust_balance, adjust_quantity
<1>8. CASE enable_incremental_queries \/ Restart
  BY <1>1, <1>8 DEF enable_incremental_queries, Restart
<1>9. CASE UNCHANGED vars
  BY <1>1, <1>9 DEF vars, ledger
<1>10. QED
  BY <1>2, <1>3, <1>4, <1>5, <1>6, <1>7, <1>8, <1>9 DEF Next

\* The ledger invariant holds throughout, whatever order reports arrive in.
LEMMA LedgerInvariant == Spec => []LedgerInv
<1>1. Init => LedgerInv
  BY PositionAssumption, InitInv
<1>2. LedgerInv /\ [Next]_vars => LedgerInv'
  BY PositionAssumption, NextInv
<1>3. QED
  BY <1>1, <1>2, PTL DEF Spec

\* Whatever the order and the number of the reports of a trade, upsert_trade leaves the
\* ledger at the last stage among them, across restarts, fee attributions and rebuilds.
THEOREM LedgerConverges == Spec => []Converges
<1>1. LedgerInv => Converges
  BY DEF LedgerInv
<1>2. QED
  BY <1>1, LedgerInvariant, PTL

\* The accumulator signs upsert_trade returns for a trade add up to whether it is live.
THEOREM EveryFillCountsOnce == Spec => []SignsBalance
<1>1. LedgerInv => SignsBalance
  BY DEF LedgerInv
<1>2. QED
  BY <1>1, LedgerInvariant, PTL

\* Leaves are first order from here on unless they cite SMTT (arithmetic) or PTL.
USE ZenonT(40)

-----------------------------------------------------------------------------
(* Induction, in the form that has no operator parameter *)

LEMMA NatMin ==
    ASSUME NEW S, S \subseteq Nat, S # {} PROVE \E n \in S : \A m \in S : n <= m
<1> DEFINE R == OpToRel(<, Nat)
<1>1. IsWellFoundedOn(R, Nat)
  BY NatLessThanWellFounded
<1>2. \A m, n \in Nat : m < n => <<m, n>> \in R
  BY SMTT(40) DEF OpToRel
<1> HIDE DEF R
<1>3. PICK n \in S : \A m \in S : ~ (<<m, n>> \in R)
  BY <1>1, WFMin
<1>4. \A m \in S : ~ (m < n)
  BY <1>2, <1>3
<1>5. \A m \in S : n <= m
  BY <1>4, SMTT(40)
<1> QED
  BY <1>3, <1>5

LEMMA NatInd ==
    ASSUME NEW S, 0 \in S, \A n \in Nat : n \in S => n + 1 \in S PROVE Nat \subseteq S
<1> DEFINE T == {n \in Nat : n \notin S}
<1>1. CASE T # {}
  <2>1. PICK n \in T : \A m \in T : n <= m
    BY <1>1, NatMin
  <2>2. n # 0 /\ n - 1 \in Nat /\ n - 1 \in S
    BY <2>1, SMTT(40)
  <2> QED
    BY <2>1, <2>2, SMTT(40)
<1> QED
  BY <1>1

\* A set of subsets of a finite set that holds a subset whenever it holds those with one
\* element less holds them all.
LEMMA SubsetInd ==
    ASSUME NEW D, IsFiniteSet(D), NEW P, {} \in P,
           \A T \in SUBSET D : T # {} /\ (\A x \in T : T \ {x} \in P) => T \in P
    PROVE  SUBSET D \subseteq P
<1> DEFINE S == {n \in Nat : \A T \in SUBSET D : Cardinality(T) = n => T \in P}
<1>1. \A T \in SUBSET D : IsFiniteSet(T) /\ Cardinality(T) \in Nat
  BY FS_Subset, FS_CardinalityType
<1>2. 0 \in S
  <2>1. \A T \in SUBSET D : Cardinality(T) = 0 => T = {}
    BY <1>1, FS_EmptySet
  <2>2. 0 \in Nat
    BY SMTT(40)
  <2> QED
    BY <2>1, <2>2
<1>3. ASSUME NEW n \in Nat, n \in S PROVE n + 1 \in S
  <2> SUFFICES ASSUME NEW T \in SUBSET D, Cardinality(T) = n + 1 PROVE T \in P
    BY SMTT(40)
  <2>1. T # {}
    <3>1. n + 1 # 0
      BY SMTT(40)
    <3> QED
      BY <3>1, FS_EmptySet
  <2>2. ASSUME NEW x \in T PROVE T \ {x} \in P
    <3>1. Cardinality(T \ {x}) = Cardinality(T) - 1
      BY <1>1, FS_RemoveElement
    <3>2. Cardinality(T \ {x}) = n
      BY <3>1, SMTT(40)
    <3> QED
      BY <1>3, <3>2
  <2> QED
    BY <2>1, <2>2
<1>4. Nat \subseteq S
  <2> HIDE DEF S
  <2> QED
    BY <1>2, <1>3, NatInd
<1> QED
  BY <1>1, <1>4

-----------------------------------------------------------------------------
(* Folds over finite sets *)

Pick(s) == CHOOSE x \in s : TRUE

LEMMA Picked == ASSUME NEW s, s # {} PROVE Pick(s) \in s
BY DEF Pick

\* g is the table of the fold of F over the subsets of D.
IsFold(g, F, base, D, V) ==
    /\ g \in [SUBSET D -> V]
    /\ g = [s \in SUBSET D |-> IF s = {} THEN base ELSE F[<<Pick(s), g[s \ {Pick(s)}]>>]]

\* The recursion of a fold has a solution.
LEMMA FoldExists ==
    ASSUME NEW D, IsFiniteSet(D), NEW V, NEW base \in V, NEW F \in [D \X V -> V]
    PROVE  \E g : IsFold(g, F, base, D, V)
<1> DEFINE Low(n) == {s \in SUBSET D : Cardinality(s) <= n}
           Step(s, g) == IF s = {} THEN base ELSE F[<<Pick(s), g[s \ {Pick(s)}]>>]
           Q == {n \in Nat : \E g : g \in [Low(n) -> V] /\ g = [s \in Low(n) |-> Step(s, g)]}
<1>1. \A T \in SUBSET D : IsFiniteSet(T) /\ Cardinality(T) \in Nat
  BY FS_Subset, FS_CardinalityType
<1>2. 0 \in Q
  <2> DEFINE g == [s \in Low(0) |-> base]
  <2>1. \A s \in Low(0) : s = {}
    <3>1. \A s \in Low(0) : Cardinality(s) = 0
      BY <1>1, SMTT(40)
    <3> QED
      BY <1>1, <3>1, FS_EmptySet
  <2>2. g \in [Low(0) -> V] /\ g = [s \in Low(0) |-> Step(s, g)]
    BY <2>1
  <2>3. 0 \in Nat
    BY SMTT(40)
  <2> QED
    BY <2>2, <2>3
<1>3. ASSUME NEW n \in Nat, n \in Q PROVE n + 1 \in Q
  <2>1. PICK g : g \in [Low(n) -> V] /\ g = [s \in Low(n) |-> Step(s, g)]
    BY <1>3
  <2> DEFINE h == [s \in Low(n + 1) |-> Step(s, g)]
  <2>2. \A s \in Low(n) : s \in Low(n + 1)
    <3>1. \A k \in Nat : k <= n => k <= n + 1
      BY SMTT(40)
    <3> QED
      BY <1>1, <3>1
  <2>3. ASSUME NEW s \in Low(n + 1), s # {}
        PROVE  Pick(s) \in D /\ s \ {Pick(s)} \in Low(n)
    <3>1. Pick(s) \in s
      BY <2>3, Picked
    <3>2. Cardinality(s \ {Pick(s)}) = Cardinality(s) - 1 /\ Cardinality(s) \in Nat
      BY <1>1, <3>1, FS_RemoveElement
    <3>3. Cardinality(s) <= n + 1
      OBVIOUS
    <3>4. Cardinality(s \ {Pick(s)}) <= n
      BY <3>2, <3>3, SMTT(40)
    <3> QED
      BY <3>1, <3>4
  <2>4. \A s \in Low(n) : h[s] = g[s]
    BY <2>1, <2>2
  <2>5. \A s \in Low(n + 1) : Step(s, h) = Step(s, g)
    <3> HIDE DEF h
    <3>1. \A s \in Low(n + 1) : s # {} => h[s \ {Pick(s)}] = g[s \ {Pick(s)}]
      BY <2>3, <2>4
    <3> QED
      BY <3>1
  <2>6. \A s \in Low(n + 1) : Step(s, g) \in V
    BY <2>1, <2>3
  <2>7. h = [s \in Low(n + 1) |-> Step(s, h)] /\ h \in [Low(n + 1) -> V]
    BY <2>5, <2>6
  <2>8. n + 1 \in Nat
    BY SMTT(40)
  <2> QED
    BY <2>7, <2>8
<1>4. Cardinality(D) \in Q
  <2> HIDE DEF Q
  <2> QED
    BY <1>1, <1>2, <1>3, NatInd
<1>5. \A T \in SUBSET D : Cardinality(T) <= Cardinality(D)
  BY FS_Subset
<1>6. Low(Cardinality(D)) = SUBSET D
  BY <1>5
<1>7. PICK g : g \in [SUBSET D -> V] /\ g = [s \in SUBSET D |-> Step(s, g)]
  BY <1>4, <1>6
<1> QED
  BY <1>7 DEF IsFold

-----------------------------------------------------------------------------
(* Sums over finite sets *)

Solves(g, f, S) ==
    /\ g \in [SUBSET S -> Int]
    /\ \A s \in SUBSET S : g[s] = IF s = {} THEN 0 ELSE f[Pick(s)] + g[s \ {Pick(s)}]

Ints(f, S) == \A x \in S : f[x] \in Int
Agree(f, e, S) == \A x \in S : f[x] = e[x]

LEMMA SumSolves ==
    ASSUME NEW S, IsFiniteSet(S), NEW f, Ints(f, S)
    PROVE  \E g : Solves(g, f, S) /\ SumFunctionOnSet(f, S) = g[S]
<1> DEFINE F == [p \in S \X Int |-> f[p[1]] + p[2]]
           Step(s, g) == IF s = {} THEN 0 ELSE f[Pick(s)] + g[s \ {Pick(s)}]
           iter == CHOOSE g : g = [s \in SUBSET S |-> Step(s, g)]
<1>1. F \in [S \X Int -> Int] /\ \A x \in S, i \in Int : F[<<x, i>>] = f[x] + i
  BY SMTT(40) DEF Ints
<1>2. 0 \in Int
  BY SMTT(40)
<1>3. \E g : IsFold(g, F, 0, S, Int)
  <2> HIDE DEF F
  <2> QED
    BY <1>1, <1>2, FoldExists
<1>4. PICK g : /\ g \in [SUBSET S -> Int]
               /\ g = [s \in SUBSET S |->
                          IF s = {} THEN 0 ELSE F[<<Pick(s), g[s \ {Pick(s)}]>>]]
  BY <1>3 DEF IsFold
<1>5. \A h \in [SUBSET S -> Int], s \in SUBSET S :
          s # {} => F[<<Pick(s), h[s \ {Pick(s)}]>>] = f[Pick(s)] + h[s \ {Pick(s)}]
  BY <1>1, Picked
<1>6. g = [s \in SUBSET S |-> Step(s, g)]
  <2> HIDE DEF F
  <2>1. \A s \in SUBSET S :
            (IF s = {} THEN 0 ELSE F[<<Pick(s), g[s \ {Pick(s)}]>>]) = Step(s, g)
    BY <1>4, <1>5
  <2> QED
    BY <1>4, <2>1
<1>7. iter = [s \in SUBSET S |-> Step(s, iter)]
  BY <1>6
<1>8. SumFunctionOnSet(f, S) = iter[S]
  BY DEF SumFunctionOnSet, FoldFunctionOnSet, MapThenFoldSet, Pick
<1> HIDE DEF iter, F
<1>9. \A s \in SUBSET S : iter[s] = Step(s, iter)
  BY <1>7
<1>10. \A s \in SUBSET S : iter[s] \in Int
  <2> DEFINE P == {s \in SUBSET S : iter[s] \in Int}
  <2>1. {} \in P
    BY <1>2, <1>9
  <2>2. ASSUME NEW T \in SUBSET S, T # {}, \A x \in T : T \ {x} \in P PROVE T \in P
    <3>1. Pick(T) \in T
      BY <2>2, Picked
    <3>2. iter[T] = f[Pick(T)] + iter[T \ {Pick(T)}]
      BY <1>9, <2>2
    <3>3. f[Pick(T)] \in Int /\ iter[T \ {Pick(T)}] \in Int
      BY <2>2, <3>1 DEF Ints
    <3>4. iter[T] \in Int
      BY <3>2, <3>3, SMTT(40)
    <3> QED
      BY <3>4
  <2>3. SUBSET S \subseteq P
    <3> HIDE DEF P
    <3> QED
      BY <2>1, <2>2, SubsetInd
  <2> QED
    BY <2>3
<1>11. iter \in [SUBSET S -> Int]
  BY <1>7, <1>10
<1>12. Solves(iter, f, S)
  BY <1>9, <1>11 DEF Solves
<1> QED
  BY <1>8, <1>12

AnyOrder(g, f, S) == \A s \in SUBSET S : \A x \in s : g[s] = f[x] + g[s \ {x}]

\* The order of the additions does not matter.
LEMMA SolvesAny ==
    ASSUME NEW S, IsFiniteSet(S), NEW f, Ints(f, S), NEW g, Solves(g, f, S)
    PROVE  AnyOrder(g, f, S)
<1> DEFINE P == {s \in SUBSET S : \A x \in s : g[s] = f[x] + g[s \ {x}]}
<1>1. {} \in P
  OBVIOUS
<1>2. ASSUME NEW T \in SUBSET S, T # {}, \A x \in T : T \ {x} \in P PROVE T \in P
  <2> SUFFICES ASSUME NEW x \in T PROVE g[T] = f[x] + g[T \ {x}]
    OBVIOUS
  <2>1. PICK c : c = Pick(T)
    OBVIOUS
  <2>2. c \in T /\ g[T] = f[c] + g[T \ {c}]
    BY <1>2, <2>1, Picked DEF Solves
  <2>3. CASE x # c
    <3>1. g[T \ {c}] = f[x] + g[(T \ {c}) \ {x}]
      BY <1>2, <2>2, <2>3
    <3>2. g[T \ {x}] = f[c] + g[(T \ {x}) \ {c}]
      BY <1>2, <2>2, <2>3
    <3>3. (T \ {c}) \ {x} = (T \ {x}) \ {c}
      OBVIOUS
    <3>4. PICK rest : rest = g[(T \ {x}) \ {c}]
      OBVIOUS
    <3>5. rest \in Int /\ f[x] \in Int /\ f[c] \in Int
      BY <2>2, <3>4 DEF Solves, Ints
    <3>6. g[T] = f[c] + (f[x] + rest) /\ g[T \ {x}] = f[c] + rest
      BY <2>2, <3>1, <3>2, <3>3, <3>4
    <3> QED
      BY <3>5, <3>6, SMTT(40)
  <2> QED
    BY <2>2, <2>3
<1>3. SUBSET S \subseteq P
  <2> HIDE DEF P
  <2> QED
    BY <1>1, <1>2, SubsetInd
<1> QED
  BY <1>3 DEF AnyOrder

\* Two tables of sums agree where the values do.
LEMMA SolvesSame ==
    ASSUME NEW S, IsFiniteSet(S), NEW T, S \subseteq T, NEW f, NEW e,
           Agree(f, e, S), NEW g, Solves(g, f, S), NEW k, Solves(k, e, T)
    PROVE  Agree(g, k, SUBSET S)
<1> DEFINE P == {s \in SUBSET S : g[s] = k[s]}
<1>1. {} \in P
  BY DEF Solves
<1>2. ASSUME NEW s \in SUBSET S, s # {}, \A x \in s : s \ {x} \in P PROVE s \in P
  <2>1. PICK c : c = Pick(s)
    OBVIOUS
  <2>2. c \in s
    BY <1>2, <2>1, Picked
  <2>3. g[s] = f[c] + g[s \ {c}] /\ k[s] = e[c] + k[s \ {c}]
    BY <1>2, <2>1 DEF Solves
  <2>4. g[s \ {c}] = k[s \ {c}] /\ f[c] = e[c]
    BY <1>2, <2>2 DEF Agree
  <2> QED
    BY <2>3, <2>4
<1>3. SUBSET S \subseteq P
  <2> HIDE DEF P
  <2> QED
    BY <1>1, <1>2, SubsetInd
<1> QED
  BY <1>3 DEF Agree

LEMMA SumEmpty == ASSUME NEW f PROVE SumFunctionOnSet(f, {}) = 0
<1>1. PICK g : Solves(g, f, {}) /\ SumFunctionOnSet(f, {}) = g[{}]
  BY SumSolves, FS_EmptySet DEF Ints
<1> QED
  BY <1>1 DEF Solves

LEMMA SumSame ==
    ASSUME NEW S, IsFiniteSet(S), NEW f, Ints(f, S), NEW e, Agree(f, e, S)
    PROVE  SumFunctionOnSet(f, S) = SumFunctionOnSet(e, S)
<1>1. Ints(e, S)
  BY DEF Ints, Agree
<1>2. PICK g : Solves(g, f, S) /\ SumFunctionOnSet(f, S) = g[S]
  BY SumSolves
<1>3. PICK k : Solves(k, e, S) /\ SumFunctionOnSet(e, S) = k[S]
  BY <1>1, SumSolves
<1>4. Agree(g, k, SUBSET S)
  BY <1>2, <1>3, SolvesSame
<1> QED
  BY <1>2, <1>3, <1>4 DEF Agree

\* The share of x in a sum over S.
Part(f, S, x) == IF x \in S THEN f[x] ELSE 0

\* A sum is the share of any element and the sum without it.
LEMMA SumSplit ==
    ASSUME NEW S, IsFiniteSet(S), NEW f, Ints(f, S), NEW x
    PROVE  /\ SumFunctionOnSet(f, S) \in Int
           /\ SumFunctionOnSet(f, S \ {x}) \in Int
           /\ Part(f, S, x) \in Int
           /\ SumFunctionOnSet(f, S) = Part(f, S, x) + SumFunctionOnSet(f, S \ {x})
<1>1. PICK g : Solves(g, f, S) /\ SumFunctionOnSet(f, S) = g[S]
  BY SumSolves
<1>2. IsFiniteSet(S \ {x}) /\ Ints(f, S \ {x})
  BY FS_RemoveElement DEF Ints
<1>3. PICK k : Solves(k, f, S \ {x}) /\ SumFunctionOnSet(f, S \ {x}) = k[S \ {x}]
  BY <1>2, SumSolves
<1>4. Agree(k, g, SUBSET (S \ {x}))
  <2>1. S \ {x} \subseteq S /\ Agree(f, f, S \ {x})
    BY DEF Agree
  <2> QED
    BY <1>1, <1>2, <1>3, <2>1, SolvesSame
<1>5. g[S] \in Int /\ g[S \ {x}] \in Int /\ k[S \ {x}] = g[S \ {x}]
  BY <1>1, <1>4 DEF Solves, Agree
<1>6. CASE x \in S
  <2>1. AnyOrder(g, f, S)
    BY <1>1, SolvesAny
  <2>2. g[S] = f[x] + g[S \ {x}]
    BY <1>6, <2>1 DEF AnyOrder
  <2> QED
    BY <1>1, <1>3, <1>5, <1>6, <2>2 DEF Part, Ints
<1>7. CASE x \notin S
  <2>1. S \ {x} = S /\ Part(f, S, x) = 0
    BY <1>7 DEF Part
  <2>2. \A i \in Int : i = 0 + i
    BY SMTT(40)
  <2>3. 0 \in Int
    BY SMTT(40)
  <2> QED
    BY <1>1, <1>3, <1>5, <2>1, <2>2, <2>3
<1> QED
  BY <1>6, <1>7

ChangedAt(f, S, e, T, x) ==
    /\ SumFunctionOnSet(f, S) \in Int
    /\ SumFunctionOnSet(e, T) = SumFunctionOnSet(f, S) + Part(e, T, x) - Part(f, S, x)

\* A sum changes by the change of the only element that differs.
LEMMA SumChange ==
    ASSUME NEW S, IsFiniteSet(S), NEW T, IsFiniteSet(T), NEW f, Ints(f, S), NEW e, Ints(e, T),
           NEW x, S \ {x} = T \ {x}, Agree(f, e, S \ {x})
    PROVE  ChangedAt(f, S, e, T, x)
<1>1. SumFunctionOnSet(f, S \ {x}) = SumFunctionOnSet(e, T \ {x})
  <2>1. IsFiniteSet(S \ {x}) /\ Ints(f, S \ {x})
    BY FS_RemoveElement DEF Ints
  <2> QED
    BY <2>1, SumSame
<1>2. /\ SumFunctionOnSet(f, S) \in Int
      /\ SumFunctionOnSet(f, S \ {x}) \in Int
      /\ Part(f, S, x) \in Int
      /\ SumFunctionOnSet(f, S) = Part(f, S, x) + SumFunctionOnSet(f, S \ {x})
  BY SumSplit
<1>3. /\ Part(e, T, x) \in Int
      /\ SumFunctionOnSet(e, T) = Part(e, T, x) + SumFunctionOnSet(e, T \ {x})
  BY SumSplit
<1> QED
  BY <1>1, <1>2, <1>3, SMTT(40) DEF ChangedAt

\* A sum whose shares are no more than another's is no more.
LEMMA SumMono ==
    ASSUME NEW D, IsFiniteSet(D), NEW S, NEW T, S \subseteq D, T \subseteq D,
           NEW f, Ints(f, S), NEW e, Ints(e, T),
           \A x \in D : Part(f, S, x) <= Part(e, T, x)
    PROVE  SumFunctionOnSet(f, S) <= SumFunctionOnSet(e, T)
<1> DEFINE P == {C \in SUBSET D : SumFunctionOnSet(f, S \cap C) <= SumFunctionOnSet(e, T \cap C)}
<1>1. {} \in P
  <2>1. S \cap {} = {} /\ T \cap {} = {}
    OBVIOUS
  <2>2. 0 <= 0
    BY SMTT(40)
  <2> QED
    BY <2>1, <2>2, SumEmpty
<1>2. ASSUME NEW C \in SUBSET D, C # {}, \A x \in C : C \ {x} \in P PROVE C \in P
  <2>1. PICK x : x \in C
    BY <1>2
  <2>2. IsFiniteSet(S \cap C) /\ IsFiniteSet(T \cap C) /\ Ints(f, S \cap C) /\ Ints(e, T \cap C)
    BY FS_Subset DEF Ints
  <2>3. S \cap (C \ {x}) = (S \cap C) \ {x} /\ T \cap (C \ {x}) = (T \cap C) \ {x}
    OBVIOUS
  <2>4. PICK a, b : a = SumFunctionOnSet(f, (S \cap C) \ {x})
                    /\ b = SumFunctionOnSet(e, (T \cap C) \ {x})
    OBVIOUS
  <2>5. a <= b
    BY <1>2, <2>1, <2>3, <2>4
  <2>6. /\ a \in Int /\ Part(f, S \cap C, x) \in Int
        /\ SumFunctionOnSet(f, S \cap C) = Part(f, S \cap C, x) + a
    BY <2>2, <2>4, SumSplit
  <2>7. /\ b \in Int /\ Part(e, T \cap C, x) \in Int
        /\ SumFunctionOnSet(e, T \cap C) = Part(e, T \cap C, x) + b
    BY <2>2, <2>4, SumSplit
  <2>8. Part(f, S \cap C, x) = Part(f, S, x) /\ Part(e, T \cap C, x) = Part(e, T, x)
    BY <2>1 DEF Part
  <2>9. Part(f, S \cap C, x) <= Part(e, T \cap C, x)
    BY <2>1, <2>8
  <2>10. Part(f, S \cap C, x) + a <= Part(e, T \cap C, x) + b
    BY <2>5, <2>6, <2>7, <2>9, SMTT(40)
  <2> QED
    BY <2>6, <2>7, <2>10
<1>3. SUBSET D \subseteq P
  <2> HIDE DEF P
  <2> QED
    BY <1>1, <1>2, SubsetInd
<1>4. S \cap D = S /\ T \cap D = T
  OBVIOUS
<1> QED
  BY <1>3, <1>4

-----------------------------------------------------------------------------
(* The totals of a table of trades *)

LEMMA FiniteIds == IsFiniteSet(Ids)
<1>1. IsFiniteSet(Trades) /\ MaxExtra \in Nat
  BY PositionAssumption
<1>2. IsFiniteSet(1 .. MaxExtra)
  BY <1>1, FS_Interval, SMTT(40)
<1>3. IsFiniteSet(Trades \X (1 .. MaxExtra))
  BY <1>1, <1>2, FS_Product
<1> QED
  BY <1>1, <1>3, FS_Union DEF Ids

LEMMA TradeOfId == ASSUME NEW id \in Ids PROVE Of(id) \in Trades /\ OrderOf[Of(id)] \in Orders
<1>1. Of(id) \in Trades
  BY SMTT(40) DEF Ids, Of
<1> QED
  BY <1>1, PositionAssumption

\* What a trade moves is an amount.
LEMMA AmountTypes ==
    ASSUME NEW id \in Ids, NEW fee \in Fees
    PROVE  CashOf(id, fee) \in Int /\ SharesOf(id, fee) \in Int /\ Notional(id) \in Nat
<1>1. SizeOf[Of(id)] \in Nat /\ Price \in Nat
  BY TradeOfId, PositionAssumption
<1>2. fee.usdc \in Nat /\ fee.shares \in Nat
  BY SMTT(40) DEF Fees
<1>3. SizeOf[Of(id)] * Price \in Nat
  BY <1>1, SMTT(40)
<1> QED
  BY <1>1, <1>2, <1>3, SMTT(40) DEF CashOf, SharesOf, Notional

LEMMA NoFeeIsFee == NoFee \in Fees /\ \A t \in Trades : FeeOf[t] \in Fees
BY PositionAssumption, FeesOfReports

\* The functions that are summed, and the sums as functions of the ledger.
Cashes(rows) == [id \in DOMAIN rows |-> CashOf(id, rows[id].fee)]
Shares(rows) == [id \in DOMAIN rows |-> SharesOf(id, rows[id].fee)]
LiveIds(rows) == {id \in Ids : Live(rows[id].status)}
SureIds(rows, side) ==
    {id \in Ids : Live(rows[id].status) /\ (Side(id) = side \/ rows[id].status = "Confirmed")}
SumsOf(rows) ==
    [cash |-> SumFunctionOnSet(Cashes(rows), LiveIds(rows)),
     available_cash |-> SumFunctionOnSet(Cashes(rows), SureIds(rows, "Buy")),
     quantity |-> SumFunctionOnSet(Shares(rows), LiveIds(rows)),
     available_quantity |-> SumFunctionOnSet(Shares(rows), SureIds(rows, "Sell"))]

Ledgers == [Ids -> Rows]

LEMMA AmountInts ==
    ASSUME NEW rows \in Ledgers, NEW S, S \subseteq Ids
    PROVE  /\ IsFiniteSet(S) /\ Ints(Cashes(rows), S) /\ Ints(Shares(rows), S)
           /\ \A id \in S : /\ Cashes(rows)[id] = CashOf(id, rows[id].fee)
                            /\ Shares(rows)[id] = SharesOf(id, rows[id].fee)
<1>1. IsFiniteSet(S)
  BY FiniteIds, FS_Subset
<1>2. DOMAIN rows = Ids /\ \A id \in Ids : rows[id].fee \in Fees
  BY SMTT(40) DEF Ledgers, Rows
<1>3. \A id \in S : /\ Cashes(rows)[id] = CashOf(id, rows[id].fee)
                    /\ Shares(rows)[id] = SharesOf(id, rows[id].fee)
  BY <1>2 DEF Cashes, Shares
<1>4. \A id \in S : CashOf(id, rows[id].fee) \in Int /\ SharesOf(id, rows[id].fee) \in Int
  BY <1>2, AmountTypes
<1> QED
  BY <1>1, <1>3, <1>4 DEF Ints

TotalsMove(rows, S, next, T, id, new) ==
    /\ SumFunctionOnSet(Cashes(rows), S) \in Int
    /\ SumFunctionOnSet(Shares(rows), S) \in Int
    /\ SumFunctionOnSet(Cashes(next), T) =
          SumFunctionOnSet(Cashes(rows), S)
          + (IF id \in T THEN CashOf(id, new.fee) ELSE 0)
          - (IF id \in S THEN CashOf(id, rows[id].fee) ELSE 0)
    /\ SumFunctionOnSet(Shares(next), T) =
          SumFunctionOnSet(Shares(rows), S)
          + (IF id \in T THEN SharesOf(id, new.fee) ELSE 0)
          - (IF id \in S THEN SharesOf(id, rows[id].fee) ELSE 0)

\* A new row changes a total by what it moves, and by what the old one moved.
LEMMA TotalsChange ==
    ASSUME NEW rows \in Ledgers, NEW id \in Ids, NEW new \in Rows, NEW next,
           next = [rows EXCEPT ![id] = new],
           NEW S, S \subseteq Ids, NEW T, T \subseteq Ids, S \ {id} = T \ {id}
    PROVE  TotalsMove(rows, S, next, T, id, new)
<1>1. next \in Ledgers /\ next[id] = new /\ \A x \in Ids \ {id} : next[x] = rows[x]
  BY DEF Ledgers
<1>2. /\ IsFiniteSet(S) /\ Ints(Cashes(rows), S) /\ Ints(Shares(rows), S)
      /\ \A x \in S : /\ Cashes(rows)[x] = CashOf(x, rows[x].fee)
                      /\ Shares(rows)[x] = SharesOf(x, rows[x].fee)
  BY AmountInts
<1>3. /\ IsFiniteSet(T) /\ Ints(Cashes(next), T) /\ Ints(Shares(next), T)
      /\ \A x \in T : /\ Cashes(next)[x] = CashOf(x, next[x].fee)
                      /\ Shares(next)[x] = SharesOf(x, next[x].fee)
  BY <1>1, AmountInts
<1>4. \A x \in S \ {id} : x \in S /\ x \in T /\ next[x] = rows[x]
  BY <1>1
<1>5. Agree(Cashes(rows), Cashes(next), S \ {id}) /\ Agree(Shares(rows), Shares(next), S \ {id})
  <2>1. ASSUME NEW x \in S \ {id}
        PROVE  Cashes(rows)[x] = Cashes(next)[x] /\ Shares(rows)[x] = Shares(next)[x]
    BY <1>2, <1>3, <1>4
  <2> QED
    BY <2>1 DEF Agree
<1>6. ChangedAt(Cashes(rows), S, Cashes(next), T, id)
  BY <1>2, <1>3, <1>5, SumChange
<1>7. ChangedAt(Shares(rows), S, Shares(next), T, id)
  BY <1>2, <1>3, <1>5, SumChange
<1>8. /\ Part(Cashes(next), T, id) = IF id \in T THEN CashOf(id, new.fee) ELSE 0
      /\ Part(Shares(next), T, id) = IF id \in T THEN SharesOf(id, new.fee) ELSE 0
      /\ Part(Cashes(rows), S, id) = IF id \in S THEN CashOf(id, rows[id].fee) ELSE 0
      /\ Part(Shares(rows), S, id) = IF id \in S THEN SharesOf(id, rows[id].fee) ELSE 0
  BY <1>1, <1>2, <1>3 DEF Part
<1> QED
  BY <1>6, <1>7, <1>8 DEF ChangedAt, TotalsMove

LEMMA SumsType ==
    ASSUME NEW rows \in Ledgers
    PROVE  /\ SumsOf(rows).cash \in Int /\ SumsOf(rows).available_cash \in Int
           /\ SumsOf(rows).quantity \in Int /\ SumsOf(rows).available_quantity \in Int
<1>1. \A S \in SUBSET Ids : /\ SumFunctionOnSet(Cashes(rows), S) \in Int
                            /\ SumFunctionOnSet(Shares(rows), S) \in Int
  BY AmountInts, SumSplit
<1>2. LiveIds(rows) \in SUBSET Ids /\ \A side : SureIds(rows, side) \in SUBSET Ids
  BY DEF LiveIds, SureIds
<1> QED
  BY <1>1, <1>2, SMTT(40) DEF SumsOf

-----------------------------------------------------------------------------
(* The index follows the ledger *)

LEMMA TransitionIs ==
    ASSUME NEW s, NEW id, NEW row, NEW previous
    PROVE  transition(s, id, row, previous) =
           [cash |-> s.cash + CashOf(id, row.fee) * (Bit(Live(row.status)) - Bit(Live(previous))),
            available_cash |-> s.available_cash + CashOf(id, row.fee) *
                (Bit(Settles("Buy", id, row.status)) - Bit(Settles("Buy", id, previous))),
            quantity |-> s.quantity + SharesOf(id, row.fee) *
                (Bit(Live(row.status)) - Bit(Live(previous))),
            available_quantity |-> s.available_quantity + SharesOf(id, row.fee) *
                (Bit(Settles("Sell", id, row.status)) - Bit(Settles("Sell", id, previous)))]
BY DEF transition

LEMMA Memberships ==
    ASSUME NEW rows \in Ledgers, NEW id \in Ids
    PROVE  /\ id \in LiveIds(rows) <=> Live(rows[id].status)
           /\ \A side : id \in SureIds(rows, side) <=> Settles(side, id, rows[id].status)
BY DEF LiveIds, SureIds, Settles, Live

Elsewhere(rows, next, id, new) ==
    /\ next \in Ledgers /\ next[id] = new
    /\ LiveIds(rows) \subseteq Ids /\ LiveIds(next) \subseteq Ids
    /\ LiveIds(rows) \ {id} = LiveIds(next) \ {id}
    /\ \A side : /\ SureIds(rows, side) \subseteq Ids /\ SureIds(next, side) \subseteq Ids
                 /\ SureIds(rows, side) \ {id} = SureIds(next, side) \ {id}

LEMMA OthersStay ==
    ASSUME NEW rows \in Ledgers, NEW id \in Ids, NEW new \in Rows, NEW next,
           next = [rows EXCEPT ![id] = new]
    PROVE  Elsewhere(rows, next, id, new)
<1>1. next \in Ledgers /\ next[id] = new /\ \A x \in Ids \ {id} : next[x] = rows[x]
  BY DEF Ledgers
<1> QED
  BY <1>1 DEF LiveIds, SureIds, Elsewhere

Weighs(rows, S, next, T, id, new, p, q) ==
    /\ SumFunctionOnSet(Cashes(next), T) =
           SumFunctionOnSet(Cashes(rows), S) + CashOf(id, new.fee) * (p - q)
    /\ SumFunctionOnSet(Shares(next), T) =
           SumFunctionOnSet(Shares(rows), S) + SharesOf(id, new.fee) * (p - q)

LEMMA TotalsWeighed ==
    ASSUME NEW rows \in Ledgers, NEW id \in Ids, NEW new \in Rows, NEW next,
           next = [rows EXCEPT ![id] = new],
           NEW S, S \subseteq Ids, NEW T, T \subseteq Ids, S \ {id} = T \ {id},
           NEW p, p = Bit(id \in T), NEW q, q = Bit(id \in S),
           id \in S => new.fee = rows[id].fee
    PROVE  Weighs(rows, S, next, T, id, new, p, q)
<1>1. TotalsMove(rows, S, next, T, id, new)
  BY TotalsChange
<1>2. new.fee \in Fees /\ rows[id].fee \in Fees
  BY SMTT(40) DEF Ledgers, Rows
<1>3. /\ CashOf(id, new.fee) \in Int /\ SharesOf(id, new.fee) \in Int
      /\ CashOf(id, rows[id].fee) \in Int /\ SharesOf(id, rows[id].fee) \in Int
  BY <1>2, AmountTypes
<1>4. PICK c, d, c2, d2, a, b, a2, b2 :
          /\ c = SumFunctionOnSet(Cashes(rows), S) /\ d = SumFunctionOnSet(Cashes(next), T)
          /\ c2 = SumFunctionOnSet(Shares(rows), S) /\ d2 = SumFunctionOnSet(Shares(next), T)
          /\ a = CashOf(id, new.fee) /\ b = CashOf(id, rows[id].fee)
          /\ a2 = SharesOf(id, new.fee) /\ b2 = SharesOf(id, rows[id].fee)
  OBVIOUS
<1>5. /\ c \in Int /\ c2 \in Int /\ a \in Int /\ b \in Int /\ a2 \in Int /\ b2 \in Int
      /\ id \in S => a = b /\ a2 = b2
      /\ d = c + (IF id \in T THEN a ELSE 0) - (IF id \in S THEN b ELSE 0)
      /\ d2 = c2 + (IF id \in T THEN a2 ELSE 0) - (IF id \in S THEN b2 ELSE 0)
  BY <1>1, <1>3, <1>4 DEF TotalsMove
<1>6. d = c + a * (p - q) /\ d2 = c2 + a2 * (p - q)
  BY <1>5, SMTT(40) DEF Bit
<1> QED
  BY <1>4, <1>6 DEF Weighs

\* IncrementalQueries::transition is exact: it makes of the sums over a ledger the sums
\* over the ledger with the row replaced.
LEMMA TransitionExact ==
    ASSUME NEW rows \in Ledgers, NEW id \in Ids, NEW new \in Rows, NEW next,
           next = [rows EXCEPT ![id] = new],
           Live(rows[id].status) => new.fee = rows[id].fee
    PROVE  SumsOf(next) = transition(SumsOf(rows), id, new, rows[id].status)
<1>1. Elsewhere(rows, next, id, new)
  BY OthersStay
<1>2. /\ id \in LiveIds(rows) <=> Live(rows[id].status)
      /\ \A side : id \in SureIds(rows, side) <=> Settles(side, id, rows[id].status)
  BY Memberships
<1>3. /\ id \in LiveIds(next) <=> Live(new.status)
      /\ \A side : id \in SureIds(next, side) <=> Settles(side, id, new.status)
  BY <1>1, Memberships DEF Elsewhere
<1>4. /\ Bit(Live(new.status)) = Bit(id \in LiveIds(next))
      /\ Bit(Live(rows[id].status)) = Bit(id \in LiveIds(rows))
      /\ \A side : /\ Bit(Settles(side, id, new.status)) = Bit(id \in SureIds(next, side))
                   /\ Bit(Settles(side, id, rows[id].status)) = Bit(id \in SureIds(rows, side))
  BY <1>2, <1>3 DEF Bit
<1>5. \A side : Settles(side, id, rows[id].status) => Live(rows[id].status)
  BY DEF Settles, Live
<1>6. Weighs(rows, LiveIds(rows), next, LiveIds(next), id, new,
             Bit(Live(new.status)), Bit(Live(rows[id].status)))
  BY <1>1, <1>2, <1>3, <1>4, TotalsWeighed DEF Elsewhere
<1>7. ASSUME NEW side
      PROVE  Weighs(rows, SureIds(rows, side), next, SureIds(next, side), id, new,
                    Bit(Settles(side, id, new.status)), Bit(Settles(side, id, rows[id].status)))
  BY <1>1, <1>2, <1>3, <1>4, <1>5, TotalsWeighed DEF Elsewhere
<1>8. PICK a : a = SumsOf(next)
  OBVIOUS
<1>9. PICK s : s = SumsOf(rows)
  OBVIOUS
<1>10. PICK st : st = rows[id].status
  OBVIOUS
<1>11. a.cash = s.cash + CashOf(id, new.fee) * (Bit(Live(new.status)) - Bit(Live(st)))
       /\ a.quantity = s.quantity + SharesOf(id, new.fee) * (Bit(Live(new.status)) - Bit(Live(st)))
  BY <1>6, <1>8, <1>9, <1>10 DEF Weighs, SumsOf
<1>12. a.available_cash = s.available_cash + CashOf(id, new.fee) *
           (Bit(Settles("Buy", id, new.status)) - Bit(Settles("Buy", id, st)))
  BY <1>7, <1>8, <1>9, <1>10 DEF Weighs, SumsOf
<1>13. a.available_quantity = s.available_quantity + SharesOf(id, new.fee) *
           (Bit(Settles("Sell", id, new.status)) - Bit(Settles("Sell", id, st)))
  BY <1>7, <1>8, <1>9, <1>10 DEF Weighs, SumsOf
<1>14. a = [cash |-> a.cash, available_cash |-> a.available_cash, quantity |-> a.quantity,
            available_quantity |-> a.available_quantity]
  BY <1>8 DEF SumsOf
<1>15. a = transition(s, id, new, st)
  BY <1>11, <1>12, <1>13, <1>14, TransitionIs
<1> QED
  BY <1>8, <1>9, <1>10, <1>15

LEMMA FeesDiffer ==
    ASSUME NEW id \in Ids, NEW f \in Fees, NEW e \in Fees, Side(id) # "Buy" => f.shares = e.shares
    PROVE  /\ CashOf(id, f) = CashOf(id, e) + (e.usdc - f.usdc)
           /\ SharesOf(id, f) = SharesOf(id, e) + (e.shares - f.shares)
<1>1. SizeOf[Of(id)] \in Nat /\ Price \in Nat
  BY TradeOfId, PositionAssumption
<1>2. f.usdc \in Nat /\ f.shares \in Nat /\ e.usdc \in Nat /\ e.shares \in Nat
  BY SMTT(40) DEF Fees
<1>3. PICK n : n = SizeOf[Of(id)] * Price
  OBVIOUS
<1>4. n \in Nat
  BY <1>1, <1>3, SMTT(40)
<1> QED
  BY <1>1, <1>2, <1>3, <1>4, SMTT(40) DEF CashOf, SharesOf

\* attribute_restored_trade_fee moves the sums in which the trade counts by its deltas.
Attributed(s, a, id, status, delta) ==
    a = IF ~Live(status) THEN s
        ELSE [cash |-> s.cash + delta.cash,
              available_cash |-> s.available_cash +
                  IF Side(id) = "Buy" \/ status = "Confirmed" THEN delta.cash ELSE 0,
              quantity |-> s.quantity + delta.shares,
              available_quantity |-> s.available_quantity +
                  IF Side(id) = "Sell" \/ status = "Confirmed" THEN delta.shares ELSE 0]

LEMMA AttributionExact ==
    ASSUME NEW rows \in Ledgers, NEW id \in Ids, NEW new \in Rows, NEW next,
           next = [rows EXCEPT ![id] = new], new.status = rows[id].status,
           Side(id) # "Buy" => new.fee.shares = rows[id].fee.shares
    PROVE  Attributed(SumsOf(rows), SumsOf(next), id, new.status, FeeDelta(rows[id], new.fee))
<1>1. Elsewhere(rows, next, id, new)
  BY OthersStay
<1>2. LiveIds(next) = LiveIds(rows) /\ \A side : SureIds(next, side) = SureIds(rows, side)
  <2>1. \A x \in Ids : next[x].status = rows[x].status
    BY DEF Ledgers
  <2> QED
    BY <2>1 DEF LiveIds, SureIds
<1>3. /\ TotalsMove(rows, LiveIds(rows), next, LiveIds(rows), id, new)
      /\ \A side : TotalsMove(rows, SureIds(rows, side), next, SureIds(rows, side), id, new)
  BY <1>1, TotalsChange DEF Elsewhere
<1>4. PICK f, e : f = new.fee /\ e = rows[id].fee
  OBVIOUS
<1>5. f \in Fees /\ e \in Fees
  BY <1>4, SMTT(40) DEF Ledgers, Rows
<1>6. /\ CashOf(id, f) = CashOf(id, e) + (e.usdc - f.usdc)
      /\ SharesOf(id, f) = SharesOf(id, e) + (e.shares - f.shares)
  BY <1>4, <1>5, FeesDiffer
<1>7. /\ CashOf(id, f) \in Int /\ SharesOf(id, f) \in Int /\ CashOf(id, e) \in Int
      /\ SharesOf(id, e) \in Int /\ e.usdc - f.usdc \in Int /\ e.shares - f.shares \in Int
  <2>1. f.usdc \in Nat /\ f.shares \in Nat /\ e.usdc \in Nat /\ e.shares \in Nat
    BY <1>5, SMTT(40) DEF Fees
  <2>2. e.usdc - f.usdc \in Int /\ e.shares - f.shares \in Int
    BY <2>1, SMTT(40)
  <2> QED
    BY <1>5, <2>2, AmountTypes
<1>8. /\ id \in LiveIds(rows) <=> Live(new.status)
      /\ \A side : id \in SureIds(rows, side) <=> Settles(side, id, new.status)
  BY Memberships
<1>9. PICK s, a : s = SumsOf(rows) /\ a = SumsOf(next)
  OBVIOUS
<1>10. /\ s.cash \in Int /\ s.available_cash \in Int /\ s.quantity \in Int
       /\ s.available_quantity \in Int
  BY <1>9, SumsType
<1>11. PICK dc, ds : dc = e.usdc - f.usdc /\ ds = e.shares - f.shares
  OBVIOUS
<1>12. /\ a.cash = s.cash + (IF Live(new.status) THEN CashOf(id, f) ELSE 0)
                          - (IF Live(new.status) THEN CashOf(id, e) ELSE 0)
       /\ a.quantity = s.quantity + (IF Live(new.status) THEN SharesOf(id, f) ELSE 0)
                                  - (IF Live(new.status) THEN SharesOf(id, e) ELSE 0)
  BY <1>2, <1>3, <1>4, <1>8, <1>9 DEF TotalsMove, SumsOf
<1>13. /\ a.available_cash = s.available_cash
             + (IF Settles("Buy", id, new.status) THEN CashOf(id, f) ELSE 0)
             - (IF Settles("Buy", id, new.status) THEN CashOf(id, e) ELSE 0)
       /\ a.available_quantity = s.available_quantity
             + (IF Settles("Sell", id, new.status) THEN SharesOf(id, f) ELSE 0)
             - (IF Settles("Sell", id, new.status) THEN SharesOf(id, e) ELSE 0)
  BY <1>2, <1>3, <1>4, <1>8, <1>9 DEF TotalsMove, SumsOf
<1>14. /\ a.cash = IF Live(new.status) THEN s.cash + dc ELSE s.cash
       /\ a.quantity = IF Live(new.status) THEN s.quantity + ds ELSE s.quantity
       /\ a.available_cash = IF Settles("Buy", id, new.status) THEN s.available_cash + dc
                             ELSE s.available_cash
       /\ a.available_quantity = IF Settles("Sell", id, new.status)
                                 THEN s.available_quantity + ds ELSE s.available_quantity
  BY <1>6, <1>7, <1>10, <1>11, <1>12, <1>13, SMTT(40)
<1>15. \A side : Settles(side, id, new.status) =
                     (Live(new.status) /\ (Side(id) = side \/ new.status = "Confirmed"))
  BY DEF Settles, Live
<1>16. /\ a = [cash |-> a.cash, available_cash |-> a.available_cash, quantity |-> a.quantity,
               available_quantity |-> a.available_quantity]
       /\ s = [cash |-> s.cash, available_cash |-> s.available_cash, quantity |-> s.quantity,
               available_quantity |-> s.available_quantity]
  BY <1>9 DEF SumsOf
<1>17. CASE ~Live(new.status)
  <2>1. a = s
    BY <1>14, <1>15, <1>16, <1>17
  <2> QED
    BY <1>9, <1>17, <2>1 DEF Attributed
<1>18. CASE Live(new.status)
  <2>1. FeeDelta(rows[id], new.fee) = [cash |-> dc, shares |-> ds]
    BY <1>4, <1>11, <1>18 DEF FeeDelta
  <2>2. /\ a.cash = s.cash + dc /\ a.quantity = s.quantity + ds
        /\ a.available_cash = s.available_cash +
               IF Side(id) = "Buy" \/ new.status = "Confirmed" THEN dc ELSE 0
        /\ a.available_quantity = s.available_quantity +
               IF Side(id) = "Sell" \/ new.status = "Confirmed" THEN ds ELSE 0
    <3>1. \A i \in Int : i + 0 = i
      BY SMTT(40)
    <3> QED
      BY <1>10, <1>14, <1>15, <1>18, <3>1
  <2>3. PICK d : d = FeeDelta(rows[id], new.fee)
    OBVIOUS
  <2>4. d.cash = dc /\ d.shares = ds
    BY <2>1, <2>3, SMTT(40)
  <2>5. Attributed(s, a, id, new.status, d)
    BY <1>16, <1>18, <2>2, <2>4 DEF Attributed
  <2> QED
    BY <1>9, <2>3, <2>5
<1> QED
  BY <1>17, <1>18

-----------------------------------------------------------------------------
(* Volumes *)

Notionals(rows) == [id \in DOMAIN rows |-> Notional(id)]
RoleIds(rows, role) == {id \in DOMAIN rows : Live(rows[id].status) /\ Role(id) = role}

LEMMA VolumeIs ==
    ASSUME NEW rows
    PROVE  VolumeOf(rows) = [role \in {"maker", "taker"} |->
                                SumFunctionOnSet(Notionals(rows), RoleIds(rows, role))]
BY DEF VolumeOf, Notionals, RoleIds

LEMMA RoleType == ASSUME NEW id PROVE Role(id) \in {"maker", "taker"}
BY DEF Role

LEMMA NotionalInts ==
    ASSUME NEW rows \in Ledgers, NEW role
    PROVE  /\ DOMAIN rows = Ids
           /\ IsFiniteSet(RoleIds(rows, role)) /\ Ints(Notionals(rows), RoleIds(rows, role))
           /\ \A id \in RoleIds(rows, role) : Notionals(rows)[id] = Notional(id)
<1>1. DOMAIN rows = Ids
  BY DEF Ledgers
<1>2. RoleIds(rows, role) \subseteq Ids
  BY <1>1 DEF RoleIds
<1>3. \A id \in Ids : Notional(id) \in Int
  <2>1. \A n \in Nat : n \in Int
    BY SMTT(40)
  <2> QED
    BY <2>1, AmountTypes, NoFeeIsFee
<1> QED
  BY <1>1, <1>2, <1>3, FiniteIds, FS_Subset DEF Ints, Notionals

VolumeMoves(v, w, id, d) == w = [v EXCEPT ![Role(id)] = v[Role(id)] + d * Notional(id)]

\* Only the volume of the trade's role changes, by its notional value.
LEMMA VolumeExact ==
    ASSUME NEW rows \in Ledgers, NEW id \in Ids, NEW new \in Rows, NEW next,
           next = [rows EXCEPT ![id] = new],
           NEW d, d = Bit(Live(new.status)) - Bit(Live(rows[id].status))
    PROVE  VolumeMoves(VolumeOf(rows), VolumeOf(next), id, d)
<1>1. next \in Ledgers /\ next[id] = new /\ \A x \in Ids \ {id} : next[x] = rows[x]
  BY DEF Ledgers
<1>2. ASSUME NEW role \in {"maker", "taker"}
      PROVE  SumFunctionOnSet(Notionals(next), RoleIds(next, role)) =
             IF role = Role(id)
             THEN SumFunctionOnSet(Notionals(rows), RoleIds(rows, role)) + d * Notional(id)
             ELSE SumFunctionOnSet(Notionals(rows), RoleIds(rows, role))
  <2>1. /\ DOMAIN rows = Ids
        /\ IsFiniteSet(RoleIds(rows, role)) /\ Ints(Notionals(rows), RoleIds(rows, role))
        /\ \A x \in RoleIds(rows, role) : Notionals(rows)[x] = Notional(x)
    BY NotionalInts
  <2>2. /\ DOMAIN next = Ids
        /\ IsFiniteSet(RoleIds(next, role)) /\ Ints(Notionals(next), RoleIds(next, role))
        /\ \A x \in RoleIds(next, role) : Notionals(next)[x] = Notional(x)
    BY <1>1, NotionalInts
  <2>3. RoleIds(rows, role) \ {id} = RoleIds(next, role) \ {id}
    BY <1>1, <2>1, <2>2 DEF RoleIds
  <2>4. Agree(Notionals(rows), Notionals(next), RoleIds(rows, role) \ {id})
    BY <2>1, <2>2, <2>3 DEF Agree
  <2>5. ChangedAt(Notionals(rows), RoleIds(rows, role), Notionals(next), RoleIds(next, role), id)
    BY <2>1, <2>2, <2>3, <2>4, SumChange
  <2>6. PICK a, b, n : /\ a = SumFunctionOnSet(Notionals(rows), RoleIds(rows, role))
                       /\ b = SumFunctionOnSet(Notionals(next), RoleIds(next, role))
                       /\ n = Notional(id)
    OBVIOUS
  <2>7. n \in Nat /\ a \in Int
    BY <2>5, <2>6, AmountTypes, NoFeeIsFee DEF ChangedAt
  <2>8. /\ id \in RoleIds(next, role) <=> Live(new.status) /\ Role(id) = role
        /\ id \in RoleIds(rows, role) <=> Live(rows[id].status) /\ Role(id) = role
    BY <1>1, <2>1, <2>2 DEF RoleIds
  <2>9. b = a + (IF Live(new.status) /\ Role(id) = role THEN n ELSE 0)
              - (IF Live(rows[id].status) /\ Role(id) = role THEN n ELSE 0)
    BY <2>1, <2>2, <2>5, <2>6, <2>8 DEF ChangedAt, Part
  <2>10. CASE role = Role(id)
    <3>1. b = a + d * n
      BY <2>7, <2>9, <2>10, SMTT(40) DEF Bit
    <3> QED
      BY <2>6, <2>10, <3>1
  <2>11. CASE role # Role(id)
    <3>1. b = a
      BY <2>7, <2>9, <2>11, SMTT(40)
    <3> QED
      BY <2>6, <2>11, <3>1
  <2> QED
    BY <2>10, <2>11
<1>3. PICK v : v = VolumeOf(rows)
  OBVIOUS
<1>4. DOMAIN v = {"maker", "taker"}
      /\ \A role \in {"maker", "taker"} :
             v[role] = SumFunctionOnSet(Notionals(rows), RoleIds(rows, role))
  BY <1>3, VolumeIs
<1>5. VolumeOf(next) = [role \in {"maker", "taker"} |->
                           IF role = Role(id) THEN v[role] + d * Notional(id) ELSE v[role]]
  BY <1>2, <1>4, VolumeIs
<1>6. [v EXCEPT ![Role(id)] = v[Role(id)] + d * Notional(id)] =
          [role \in {"maker", "taker"} |->
              IF role = Role(id) THEN v[role] + d * Notional(id) ELSE v[role]]
  BY <1>4
<1> QED
  BY <1>3, <1>5, <1>6 DEF VolumeMoves

-----------------------------------------------------------------------------
(* A ledger of restored rows *)

LEMMA ExtendedSums ==
    ASSUME NEW rows \in [Trades -> Rows], NEW ext, ext = Extend(rows),
           NEW live, live = {t \in Trades : Live(rows[t].status)}
    PROVE  /\ ext \in Ledgers
           /\ TotalCash(rows, live) = SumsOf(ext).cash
           /\ TotalShares(rows, live) = SumsOf(ext).quantity
           /\ TotalCash(rows, live) \in Int /\ TotalShares(rows, live) \in Int
           /\ VolumeOf(rows) = VolumeOf(ext)
<1>1. NoRow \in Rows /\ ~Live(NoRow.status)
  BY FeesOfReports, PositionAssumption, SMTT(40) DEF NoRow, Rows, Live
<1>2. /\ ext \in Ledgers /\ Trades \subseteq Ids
      /\ \A t \in Trades : ext[t] = rows[t]
      /\ \A id \in Ids \ Trades : ext[id] = NoRow
  BY <1>1 DEF Extend, Ledgers, Ids
<1>3. LiveIds(ext) = live
  BY <1>1, <1>2 DEF LiveIds
<1>4. /\ IsFiniteSet(live) /\ Ints(Cashes(ext), live) /\ Ints(Shares(ext), live)
      /\ \A id \in live : /\ Cashes(ext)[id] = CashOf(id, ext[id].fee)
                          /\ Shares(ext)[id] = SharesOf(id, ext[id].fee)
  <2>1. live \subseteq Ids
    BY <1>2
  <2> QED
    BY <1>2, <2>1, AmountInts
<1>5. /\ DOMAIN rows = Trades
      /\ Agree(Cashes(ext), Cashes(rows), live) /\ Agree(Shares(ext), Shares(rows), live)
  BY <1>2, <1>4 DEF Agree, Cashes, Shares
<1>6. /\ SumFunctionOnSet(Cashes(ext), live) = SumFunctionOnSet(Cashes(rows), live)
      /\ SumFunctionOnSet(Shares(ext), live) = SumFunctionOnSet(Shares(rows), live)
  BY <1>4, <1>5, SumSame
<1>7. /\ TotalCash(rows, live) = SumFunctionOnSet(Cashes(rows), live)
      /\ TotalShares(rows, live) = SumFunctionOnSet(Shares(rows), live)
  BY DEF TotalCash, TotalShares, Cashes, Shares
<1>8. /\ SumsOf(ext).cash = SumFunctionOnSet(Cashes(ext), live)
      /\ SumsOf(ext).quantity = SumFunctionOnSet(Shares(ext), live)
  BY <1>3 DEF SumsOf
<1>9. SumsOf(ext).cash \in Int /\ SumsOf(ext).quantity \in Int
  BY <1>2, SumsType
<1>10. VolumeOf(rows) = VolumeOf(ext)
  <2>1. ASSUME NEW role \in {"maker", "taker"}
        PROVE  SumFunctionOnSet(Notionals(rows), RoleIds(rows, role)) =
               SumFunctionOnSet(Notionals(ext), RoleIds(ext, role))
    <3>1. /\ DOMAIN ext = Ids
          /\ IsFiniteSet(RoleIds(ext, role)) /\ Ints(Notionals(ext), RoleIds(ext, role))
          /\ \A id \in RoleIds(ext, role) : Notionals(ext)[id] = Notional(id)
      BY <1>2, NotionalInts
    <3>2. RoleIds(rows, role) = RoleIds(ext, role)
      BY <1>1, <1>2, <1>5, <3>1 DEF RoleIds
    <3>3. Agree(Notionals(ext), Notionals(rows), RoleIds(ext, role))
      BY <1>5, <3>1, <3>2 DEF Agree, Notionals, RoleIds
    <3>4. SumFunctionOnSet(Notionals(ext), RoleIds(ext, role)) =
              SumFunctionOnSet(Notionals(rows), RoleIds(ext, role))
      BY <3>1, <3>3, SumSame
    <3> QED
      BY <3>2, <3>4
  <2> QED
    BY <2>1, VolumeIs
<1> QED
  BY <1>2, <1>6, <1>7, <1>8, <1>9, <1>10

-----------------------------------------------------------------------------
(* Switching the index on *)

SumsSet == [cash : Int, available_cash : Int, quantity : Int, available_quantity : Int]

LEMMA TransitionType ==
    ASSUME NEW s \in SumsSet, NEW id \in Ids, NEW row \in Rows, NEW previous
    PROVE  transition(s, id, row, previous) \in SumsSet
<1>1. CashOf(id, row.fee) \in Int /\ SharesOf(id, row.fee) \in Int
  <2>1. row.fee \in Fees
    BY SMTT(40) DEF Rows
  <2> QED
    BY <2>1, AmountTypes
<1>2. \A b : Bit(b) \in Int
  BY SMTT(40) DEF Bit
<1>3. \A x, y \in Int : x - y \in Int
  BY SMTT(40)
<1>4. \A x, y, z \in Int : x + y * z \in Int
  BY SMTT(40)
<1>5. s.cash \in Int /\ s.available_cash \in Int /\ s.quantity \in Int
      /\ s.available_quantity \in Int
  BY SMTT(40) DEF SumsSet
<1> QED
  BY <1>1, <1>2, <1>3, <1>4, <1>5, TransitionIs DEF SumsSet

\* The ledger cut down to some of its rows.
Only(rows, C) == [id \in Ids |-> IF id \in C THEN rows[id] ELSE NoRow]

LEMMA OnlyIsLedger ==
    ASSUME NEW rows \in Ledgers, NEW C PROVE Only(rows, C) \in Ledgers
<1>1. NoRow \in Rows
  BY FeesOfReports, PositionAssumption, SMTT(40) DEF NoRow, Rows
<1> QED
  BY <1>1 DEF Only, Ledgers

LEMMA EmptySums == SumsOf([id \in Ids |-> NoRow]) = NoSums
<1> DEFINE e == [id \in Ids |-> NoRow]
<1>1. \A id \in Ids : ~Live(e[id].status)
  BY DEF NoRow, Live
<1>2. LiveIds(e) = {} /\ \A side : SureIds(e, side) = {}
  BY <1>1 DEF LiveIds, SureIds
<1> HIDE DEF e
<1>3. SumsOf(e) = NoSums
  BY <1>2, SumEmpty DEF SumsOf, NoSums
<1> QED
  BY <1>3 DEF e

FoldedSums(rows, ids) ==
    FoldSet(LAMBDA id, s : transition(s, id, rows[id], "None"), NoSums, ids)

\* enable_incremental_queries adds the trades one by one and arrives at the scan.
LEMMA EnableExact ==
    ASSUME NEW rows \in Ledgers, NEW ids, ids = {id \in Ids : rows[id] # NoRow}
    PROVE  FoldedSums(rows, ids) = SumsOf(rows)
<1> DEFINE F == [p \in ids \X SumsSet |-> transition(p[2], p[1], rows[p[1]], "None")]
           Step(s, g) == IF s = {} THEN NoSums
                         ELSE transition(g[s \ {Pick(s)}], Pick(s), rows[Pick(s)], "None")
           iter == CHOOSE g : g = [s \in SUBSET ids |-> Step(s, g)]
<1>1. ids \subseteq Ids /\ IsFiniteSet(ids)
  BY FiniteIds, FS_Subset
<1>2. \A id \in ids : id \in Ids /\ rows[id] \in Rows
  BY <1>1 DEF Ledgers
<1>3. NoSums \in SumsSet
  BY SMTT(40) DEF NoSums, SumsSet
<1>4. F \in [ids \X SumsSet -> SumsSet]
  <2>1. \A p \in ids \X SumsSet : p[1] \in ids /\ p[2] \in SumsSet
    BY SMTT(40)
  <2> QED
    BY <1>2, <2>1, TransitionType
<1>5. \A x \in ids, s \in SumsSet : F[<<x, s>>] = transition(s, x, rows[x], "None")
  <2>1. \A x \in ids, s \in SumsSet :
            <<x, s>> \in ids \X SumsSet /\ <<x, s>>[1] = x /\ <<x, s>>[2] = s
    BY SMTT(40)
  <2> QED
    BY <2>1
<1>6. PICK g : IsFold(g, F, NoSums, ids, SumsSet)
  <2> HIDE DEF F
  <2> QED
    BY <1>1, <1>3, <1>4, FoldExists
<1>7. g = [s \in SUBSET ids |-> Step(s, g)]
  <2> HIDE DEF F
  <2>1. \A s \in SUBSET ids : s # {} =>
            F[<<Pick(s), g[s \ {Pick(s)}]>>] =
                transition(g[s \ {Pick(s)}], Pick(s), rows[Pick(s)], "None")
    BY <1>5, <1>6, Picked DEF IsFold
  <2>2. \A s \in SUBSET ids :
            (IF s = {} THEN NoSums ELSE F[<<Pick(s), g[s \ {Pick(s)}]>>]) = Step(s, g)
    BY <2>1
  <2> QED
    BY <1>6, <2>2 DEF IsFold
<1>8. iter = [s \in SUBSET ids |-> Step(s, iter)]
  BY <1>7
<1>9. FoldedSums(rows, ids) = iter[ids]
  BY DEF FoldedSums, FoldSet, MapThenFoldSet, Pick
<1> HIDE DEF iter, F
<1>10. \A s \in SUBSET ids : iter[s] = Step(s, iter)
  BY <1>8
<1>11. \A C \in SUBSET ids : iter[C] = SumsOf(Only(rows, C))
  <2> DEFINE P == {C \in SUBSET ids : iter[C] = SumsOf(Only(rows, C))}
  <2>1. {} \in P
    <3>1. Only(rows, {}) = [id \in Ids |-> NoRow]
      BY DEF Only
    <3> QED
      BY <1>10, <3>1, EmptySums
  <2>2. ASSUME NEW C \in SUBSET ids, C # {}, \A x \in C : C \ {x} \in P PROVE C \in P
    <3>1. PICK x : x = Pick(C)
      OBVIOUS
    <3>2. x \in C /\ x \in Ids /\ rows[x] \in Rows /\ C \subseteq Ids
      BY <1>1, <1>2, <2>2, <3>1, Picked
    <3>3. iter[C] = transition(SumsOf(Only(rows, C \ {x})), x, rows[x], "None")
      BY <1>10, <2>2, <3>1, <3>2
    <3>4. PICK low, all : low = Only(rows, C \ {x}) /\ all = Only(rows, C)
      OBVIOUS
    <3>5. low \in Ledgers /\ all = [low EXCEPT ![x] = rows[x]] /\ low[x] = NoRow
      <4>1. /\ Only(rows, C) = [Only(rows, C \ {x}) EXCEPT ![x] = rows[x]]
            /\ Only(rows, C \ {x})[x] = NoRow
        BY <3>2 DEF Only
      <4>2. Only(rows, C \ {x}) \in Ledgers
        BY OnlyIsLedger
      <4> QED
        BY <3>4, <4>1, <4>2
    <3>6. low[x].status = "None" /\ ~Live(low[x].status)
      <4>1. NoRow.status = "None" /\ ~Live("None")
        BY DEF NoRow, Live
      <4> QED
        BY <3>5, <4>1
    <3>7. SumsOf(all) = transition(SumsOf(low), x, rows[x], low[x].status)
      BY <3>2, <3>5, <3>6, TransitionExact
    <3> QED
      BY <3>3, <3>4, <3>6, <3>7
  <2>3. SUBSET ids \subseteq P
    <3> HIDE DEF P
    <3> QED
      BY <1>1, <2>1, <2>2, SubsetInd
  <2> QED
    BY <2>3
<1>12. Only(rows, ids) = rows
  BY DEF Only, Ledgers
<1> QED
  BY <1>9, <1>11, <1>12

-----------------------------------------------------------------------------
(* The reservations *)

Pendings == [original : Nat, remaining : Nat, fee : Nat]
Books == [Orders -> Pendings]
LocksSet == [buy_cash : Int, sell_quantity : Int]

LockedCash(P) == [o \in Orders |-> (Price + P[o].fee) * P[o].remaining]
LockedQuantity(P) == [o \in Orders |-> P[o].remaining]
OrdersOf(side) == {o \in Orders : SideOf[o] = side}
LocksOver(P, C) ==
    [buy_cash |-> SumFunctionOnSet(LockedCash(P), OrdersOf("Buy") \cap C),
     sell_quantity |-> SumFunctionOnSet(LockedQuantity(P), OrdersOf("Sell") \cap C)]
LocksOf(P) ==
    [buy_cash |-> SumFunctionOnSet(LockedCash(P), OrdersOf("Buy")),
     sell_quantity |-> SumFunctionOnSet(LockedQuantity(P), OrdersOf("Sell"))]

LEMMA PendingFields ==
    ASSUME NEW p \in Pendings
    PROVE  /\ p.remaining \in Nat /\ p.original \in Nat /\ p.fee \in Nat
           /\ (Price + p.fee) * p.remaining \in Nat
<1>1. p.remaining \in Nat /\ p.original \in Nat /\ p.fee \in Nat
  BY SMTT(40) DEF Pendings
<1>2. Price \in Nat
  BY PositionAssumption
<1>3. Price + p.fee \in Nat
  BY <1>1, <1>2, SMTT(40)
<1>4. \A m, n \in Nat : m * n \in Nat
  BY SMTT(40)
<1> QED
  BY <1>1, <1>3, <1>4

LEMMA LockInts ==
    ASSUME NEW P \in Books, NEW S, S \subseteq Orders
    PROVE  /\ IsFiniteSet(S) /\ Ints(LockedCash(P), S) /\ Ints(LockedQuantity(P), S)
           /\ \A o \in S : /\ LockedCash(P)[o] = (Price + P[o].fee) * P[o].remaining
                           /\ LockedQuantity(P)[o] = P[o].remaining
<1>1. IsFiniteSet(S)
  BY PositionAssumption, FS_Subset
<1>2. \A o \in Orders : P[o] \in Pendings
  BY DEF Books
<1>3. \A n \in Nat : n \in Int
  BY SMTT(40)
<1>4. \A o \in S : /\ LockedCash(P)[o] = (Price + P[o].fee) * P[o].remaining
                   /\ LockedQuantity(P)[o] = P[o].remaining
  BY DEF LockedCash, LockedQuantity
<1> QED
  BY <1>1, <1>2, <1>3, <1>4, PendingFields DEF Ints

\* IncrementalQueries::reservation is exact: taking the old reservation of an order out
\* and the new one in makes of the locks of a book the locks of the changed book.
LEMMA ReservationExact ==
    ASSUME NEW P \in Books, NEW o \in Orders, NEW p \in Pendings, NEW Q, Q = [P EXCEPT ![o] = p]
    PROVE  LocksOf(Q) = reservation(reservation(LocksOf(P), o, P[o], -1), o, p, 1)
<1>1. /\ Q \in Books /\ Q[o] = p /\ P[o] \in Pendings
      /\ \A x \in Orders \ {o} : Q[x] = P[x]
  BY DEF Books
<1> DEFINE B == OrdersOf("Buy")
           S == OrdersOf("Sell")
<1>2. /\ IsFiniteSet(B) /\ Ints(LockedCash(P), B) /\ Ints(LockedCash(Q), B)
      /\ \A x \in B : /\ LockedCash(P)[x] = (Price + P[x].fee) * P[x].remaining
                      /\ LockedCash(Q)[x] = (Price + Q[x].fee) * Q[x].remaining
  <2>1. B \subseteq Orders
    BY DEF OrdersOf
  <2> QED
    BY <1>1, <2>1, LockInts
<1>3. /\ IsFiniteSet(S) /\ Ints(LockedQuantity(P), S) /\ Ints(LockedQuantity(Q), S)
      /\ \A x \in S : /\ LockedQuantity(P)[x] = P[x].remaining
                      /\ LockedQuantity(Q)[x] = Q[x].remaining
  <2>1. S \subseteq Orders
    BY DEF OrdersOf
  <2> QED
    BY <1>1, <2>1, LockInts
<1>4. \A x \in B \ {o} : Q[x] = P[x]
  BY <1>1 DEF OrdersOf
<1>5. \A x \in S \ {o} : Q[x] = P[x]
  BY <1>1 DEF OrdersOf
<1>6. o \in B <=> SideOf[o] = "Buy"
  BY DEF OrdersOf
<1>7. o \in S <=> SideOf[o] # "Buy"
  <2>1. SideOf[o] \in {"Buy", "Sell"}
    BY PositionAssumption
  <2> QED
    BY <2>1 DEF OrdersOf
<1> HIDE DEF B, S
<1>8. Agree(LockedCash(P), LockedCash(Q), B \ {o})
  BY <1>2, <1>4 DEF Agree
<1>9. Agree(LockedQuantity(P), LockedQuantity(Q), S \ {o})
  BY <1>3, <1>5 DEF Agree
<1>10. ChangedAt(LockedCash(P), B, LockedCash(Q), B, o)
  BY <1>2, <1>8, SumChange
<1>11. ChangedAt(LockedQuantity(P), S, LockedQuantity(Q), S, o)
  BY <1>3, <1>9, SumChange
<1>12. PICK a, b, c, d, m, n :
           /\ a = SumFunctionOnSet(LockedCash(P), B) /\ b = SumFunctionOnSet(LockedQuantity(P), S)
           /\ c = SumFunctionOnSet(LockedCash(Q), B) /\ d = SumFunctionOnSet(LockedQuantity(Q), S)
           /\ m = (Price + P[o].fee) * P[o].remaining /\ n = (Price + p.fee) * p.remaining
  OBVIOUS
<1>13. a \in Int /\ b \in Int /\ m \in Nat /\ n \in Nat
       /\ P[o].remaining \in Nat /\ p.remaining \in Nat
       /\ P[o].fee \in Nat /\ p.fee \in Nat /\ Price \in Nat
  BY <1>1, <1>10, <1>11, <1>12, PendingFields, PositionAssumption DEF ChangedAt
<1>14. /\ c = a + (IF SideOf[o] = "Buy" THEN n ELSE 0) - (IF SideOf[o] = "Buy" THEN m ELSE 0)
       /\ d = b + (IF SideOf[o] # "Buy" THEN p.remaining ELSE 0)
                - (IF SideOf[o] # "Buy" THEN P[o].remaining ELSE 0)
  BY <1>1, <1>2, <1>3, <1>6, <1>7, <1>10, <1>11, <1>12 DEF ChangedAt, Part
<1>15. (-1) * (Price + P[o].fee) * P[o].remaining = -m /\ 1 * (Price + p.fee) * p.remaining = n
       /\ (-1) * P[o].remaining = -(P[o].remaining) /\ 1 * p.remaining = p.remaining
  BY <1>12, <1>13, SMTT(40)
<1>16. LocksOf(P) = [buy_cash |-> a, sell_quantity |-> b]
       /\ LocksOf(Q) = [buy_cash |-> c, sell_quantity |-> d]
  BY <1>12 DEF LocksOf, B, S
<1>17. PICK a2, b2 :
           /\ a2 = (IF SideOf[o] = "Buy" THEN a + -m ELSE a)
           /\ b2 = (IF SideOf[o] = "Buy" THEN b ELSE b + -(P[o].remaining))
  OBVIOUS
<1>18. a2 \in Int /\ b2 \in Int
  BY <1>13, <1>17, SMTT(40)
<1>19. reservation(LocksOf(P), o, P[o], -1) = [buy_cash |-> a2, sell_quantity |-> b2]
  <2>1. reservation(LocksOf(P), o, P[o], -1) =
          [buy_cash |-> IF SideOf[o] = "Buy" THEN a + (-1) * (Price + P[o].fee) * P[o].remaining ELSE a,
           sell_quantity |-> IF SideOf[o] = "Buy" THEN b ELSE b + (-1) * P[o].remaining]
    BY <1>16, SMTT(40) DEF reservation
  <2> QED
    BY <1>15, <1>17, <2>1
<1>20. reservation([buy_cash |-> a2, sell_quantity |-> b2], o, p, 1) =
          [buy_cash |-> IF SideOf[o] = "Buy" THEN a2 + n ELSE a2,
           sell_quantity |-> IF SideOf[o] = "Buy" THEN b2 ELSE b2 + p.remaining]
  <2>1. reservation([buy_cash |-> a2, sell_quantity |-> b2], o, p, 1) =
          [buy_cash |-> IF SideOf[o] = "Buy" THEN a2 + 1 * (Price + p.fee) * p.remaining ELSE a2,
           sell_quantity |-> IF SideOf[o] = "Buy" THEN b2 ELSE b2 + 1 * p.remaining]
    BY SMTT(40) DEF reservation
  <2> QED
    BY <1>15, <2>1
<1>21. /\ c = IF SideOf[o] = "Buy" THEN a2 + n ELSE a2
       /\ d = IF SideOf[o] = "Buy" THEN b2 ELSE b2 + p.remaining
  BY <1>13, <1>14, <1>17, SMTT(40)
<1> QED
  BY <1>16, <1>19, <1>20, <1>21

\* The locks are no less than nothing.
LEMMA LocksNat ==
    ASSUME NEW P \in Books
    PROVE  LocksOf(P).buy_cash \in Nat /\ LocksOf(P).sell_quantity \in Nat
<1> DEFINE B == OrdersOf("Buy")
           S == OrdersOf("Sell")
<1>1. B \subseteq Orders /\ S \subseteq Orders
  BY DEF OrdersOf
<1> HIDE DEF B, S
<1>2. /\ IsFiniteSet(B) /\ Ints(LockedCash(P), B)
      /\ \A x \in B : LockedCash(P)[x] = (Price + P[x].fee) * P[x].remaining
  BY <1>1, LockInts
<1>3. /\ IsFiniteSet(S) /\ Ints(LockedQuantity(P), S)
      /\ \A x \in S : LockedQuantity(P)[x] = P[x].remaining
  BY <1>1, LockInts
<1>4. \A x \in Orders : P[x] \in Pendings
  BY DEF Books
<1>5. \A n \in Nat : 0 <= n
  BY SMTT(40)
<1>6. 0 <= SumFunctionOnSet(LockedCash(P), B)
  <2>1. \A x \in B : Part(LockedCash(P), {}, x) <= Part(LockedCash(P), B, x)
    BY <1>1, <1>2, <1>4, <1>5, PendingFields DEF Part
  <2>2. Ints(LockedCash(P), {})
    BY DEF Ints
  <2>3. SumFunctionOnSet(LockedCash(P), {}) <= SumFunctionOnSet(LockedCash(P), B)
    BY <1>2, <2>1, <2>2, SumMono
  <2> QED
    BY <2>3, SumEmpty
<1>7. 0 <= SumFunctionOnSet(LockedQuantity(P), S)
  <2>1. \A x \in S : Part(LockedQuantity(P), {}, x) <= Part(LockedQuantity(P), S, x)
    BY <1>1, <1>3, <1>4, <1>5, PendingFields DEF Part
  <2>2. Ints(LockedQuantity(P), {})
    BY DEF Ints
  <2>3. SumFunctionOnSet(LockedQuantity(P), {}) <= SumFunctionOnSet(LockedQuantity(P), S)
    BY <1>3, <2>1, <2>2, SumMono
  <2> QED
    BY <2>3, SumEmpty
<1>8. SumFunctionOnSet(LockedCash(P), B) \in Int /\ SumFunctionOnSet(LockedQuantity(P), S) \in Int
  BY <1>2, <1>3, SumSplit
<1>9. \A i \in Int : 0 <= i => i \in Nat
  BY SMTT(40)
<1>10. /\ LocksOf(P).buy_cash = SumFunctionOnSet(LockedCash(P), B)
       /\ LocksOf(P).sell_quantity = SumFunctionOnSet(LockedQuantity(P), S)
  BY DEF LocksOf, B, S
<1> QED
  BY <1>6, <1>7, <1>8, <1>9, <1>10

LEMMA ReservationType ==
    ASSUME NEW l \in LocksSet, NEW o, NEW p \in Pendings
    PROVE  reservation(l, o, p, 1) \in LocksSet
<1>1. p.remaining \in Int /\ 1 * (Price + p.fee) * p.remaining \in Int
  <2>1. p.remaining \in Nat /\ p.fee \in Nat /\ Price \in Nat
    BY PendingFields, PositionAssumption
  <2> QED
    BY <2>1, SMTT(40)
<1>2. PICK m : m = 1 * (Price + p.fee) * p.remaining
  OBVIOUS
<1>3. reservation(l, o, p, 1) = IF SideOf[o] = "Buy" THEN [l EXCEPT !.buy_cash = @ + m]
                                ELSE [l EXCEPT !.sell_quantity = @ + 1 * p.remaining]
  BY <1>2 DEF reservation
<1> QED
  BY <1>1, <1>2, <1>3, SMTT(40) DEF LocksSet

FoldedLocks(P) == FoldSet(LAMBDA o, l : reservation(l, o, P[o], 1), NoLocks, Orders)

\* enable_incremental_queries adds the reservations one by one and arrives at the scan.
LEMMA EnableLocksExact ==
    ASSUME NEW P \in Books
    PROVE  FoldedLocks(P) = LocksOf(P)
<1> DEFINE F == [p \in Orders \X LocksSet |-> reservation(p[2], p[1], P[p[1]], 1)]
           Step(s, g) == IF s = {} THEN NoLocks
                         ELSE reservation(g[s \ {Pick(s)}], Pick(s), P[Pick(s)], 1)
           iter == CHOOSE g : g = [s \in SUBSET Orders |-> Step(s, g)]
<1>1. IsFiniteSet(Orders)
  BY PositionAssumption
<1>2. \A o \in Orders : P[o] \in Pendings
  BY DEF Books
<1>3. NoLocks \in LocksSet
  BY SMTT(40) DEF NoLocks, LocksSet
<1>4. F \in [Orders \X LocksSet -> LocksSet]
  <2>1. \A p \in Orders \X LocksSet : p[1] \in Orders /\ p[2] \in LocksSet
    BY SMTT(40)
  <2> QED
    BY <1>2, <2>1, ReservationType
<1>5. \A x \in Orders, l \in LocksSet : F[<<x, l>>] = reservation(l, x, P[x], 1)
  <2>1. \A x \in Orders, l \in LocksSet :
            <<x, l>> \in Orders \X LocksSet /\ <<x, l>>[1] = x /\ <<x, l>>[2] = l
    BY SMTT(40)
  <2> QED
    BY <2>1
<1>6. PICK g : IsFold(g, F, NoLocks, Orders, LocksSet)
  <2> HIDE DEF F
  <2> QED
    BY <1>1, <1>3, <1>4, FoldExists
<1>7. g = [s \in SUBSET Orders |-> Step(s, g)]
  <2> HIDE DEF F
  <2>1. \A s \in SUBSET Orders : s # {} =>
            F[<<Pick(s), g[s \ {Pick(s)}]>>] =
                reservation(g[s \ {Pick(s)}], Pick(s), P[Pick(s)], 1)
    BY <1>5, <1>6, Picked DEF IsFold
  <2>2. \A s \in SUBSET Orders :
            (IF s = {} THEN NoLocks ELSE F[<<Pick(s), g[s \ {Pick(s)}]>>]) = Step(s, g)
    BY <2>1
  <2> QED
    BY <1>6, <2>2 DEF IsFold
<1>8. iter = [s \in SUBSET Orders |-> Step(s, iter)]
  BY <1>7
<1>9. FoldedLocks(P) = iter[Orders]
  BY DEF FoldedLocks, FoldSet, MapThenFoldSet, Pick
<1> HIDE DEF iter, F
<1>10. \A s \in SUBSET Orders : iter[s] = Step(s, iter)
  BY <1>8
<1>11. \A C \in SUBSET Orders : iter[C] = LocksOver(P, C)
  <2> DEFINE T == {C \in SUBSET Orders : iter[C] = LocksOver(P, C)}
  <2>1. {} \in T
    <3>1. OrdersOf("Buy") \cap {} = {} /\ OrdersOf("Sell") \cap {} = {}
      OBVIOUS
    <3>2. LocksOver(P, {}) = NoLocks
      BY <3>1, SumEmpty DEF LocksOver, NoLocks
    <3> QED
      BY <1>10, <3>2
  <2>2. ASSUME NEW C \in SUBSET Orders, C # {}, \A x \in C : C \ {x} \in T PROVE C \in T
    <3>1. PICK x : x = Pick(C)
      OBVIOUS
    <3>2. x \in C /\ x \in Orders
      BY <2>2, <3>1, Picked
    <3>3. iter[C] = reservation(LocksOver(P, C \ {x}), x, P[x], 1)
      BY <1>10, <2>2, <3>1, <3>2
    <3>4. LocksOver(P, C) = reservation(LocksOver(P, C \ {x}), x, P[x], 1)
      <4>1. PICK B, S : B = OrdersOf("Buy") \cap C /\ S = OrdersOf("Sell") \cap C
        OBVIOUS
      <4>2. B \subseteq Orders /\ S \subseteq Orders
        BY <4>1
      <4>3. /\ OrdersOf("Buy") \cap (C \ {x}) = B \ {x} /\ OrdersOf("Sell") \cap (C \ {x}) = S \ {x}
            /\ B \ {x} \subseteq Orders /\ S \ {x} \subseteq Orders
        BY <4>1, <4>2
      <4>4. /\ IsFiniteSet(B) /\ Ints(LockedCash(P), B) /\ IsFiniteSet(B \ {x})
            /\ Ints(LockedCash(P), B \ {x})
            /\ IsFiniteSet(S) /\ Ints(LockedQuantity(P), S) /\ IsFiniteSet(S \ {x})
            /\ Ints(LockedQuantity(P), S \ {x})
        BY <4>2, <4>3, LockInts
      <4>5. PICK a, b, c, d :
                /\ a = SumFunctionOnSet(LockedCash(P), B \ {x})
                /\ b = SumFunctionOnSet(LockedQuantity(P), S \ {x})
                /\ c = SumFunctionOnSet(LockedCash(P), B)
                /\ d = SumFunctionOnSet(LockedQuantity(P), S)
        OBVIOUS
      <4>6. a \in Int /\ b \in Int
        BY <4>4, <4>5, SumSplit
      <4>7. /\ LocksOver(P, C) = [buy_cash |-> c, sell_quantity |-> d]
            /\ LocksOver(P, C \ {x}) = [buy_cash |-> a, sell_quantity |-> b]
        BY <4>1, <4>3, <4>5 DEF LocksOver
      <4>8. LockedCash(P)[x] = (Price + P[x].fee) * P[x].remaining
            /\ LockedQuantity(P)[x] = P[x].remaining
        BY <3>2 DEF LockedCash, LockedQuantity
      <4>9. PICK m : m = (Price + P[x].fee) * P[x].remaining
        OBVIOUS
      <4>10. m \in Nat /\ P[x].remaining \in Nat /\ P[x].fee \in Nat /\ Price \in Nat
        BY <1>2, <3>2, <4>9, PendingFields, PositionAssumption
      <4>11. 1 * (Price + P[x].fee) * P[x].remaining = m /\ 1 * P[x].remaining = P[x].remaining
        BY <4>9, <4>10, SMTT(40)
      <4>12. reservation([buy_cash |-> a, sell_quantity |-> b], x, P[x], 1) =
              [buy_cash |-> IF SideOf[x] = "Buy" THEN a + 1 * (Price + P[x].fee) * P[x].remaining ELSE a,
               sell_quantity |-> IF SideOf[x] = "Buy" THEN b ELSE b + 1 * P[x].remaining]
        BY SMTT(40) DEF reservation
      <4>13. reservation([buy_cash |-> a, sell_quantity |-> b], x, P[x], 1) =
              [buy_cash |-> IF SideOf[x] = "Buy" THEN a + m ELSE a,
               sell_quantity |-> IF SideOf[x] = "Buy" THEN b ELSE b + P[x].remaining]
        BY <4>11, <4>12
      <4>14. SideOf[x] \in {"Buy", "Sell"}
        BY <3>2, PositionAssumption
      <4>15. CASE SideOf[x] = "Buy"
        <5>1. x \in B /\ x \notin S
          BY <3>2, <4>1, <4>15 DEF OrdersOf
        <5>2. S \ {x} = S
          BY <5>1
        <5>3. c = a + m
          <6>1. SumFunctionOnSet(LockedCash(P), B) =
                    Part(LockedCash(P), B, x) + SumFunctionOnSet(LockedCash(P), B \ {x})
            BY <4>4, SumSplit
          <6>2. c = m + a
            BY <4>5, <4>8, <4>9, <5>1, <6>1 DEF Part
          <6> QED
            BY <4>6, <4>10, <6>2, SMTT(40)
        <5> QED
          BY <4>5, <4>7, <4>13, <4>15, <5>2, <5>3
      <4>16. CASE SideOf[x] = "Sell"
        <5>1. x \in S /\ x \notin B
          BY <3>2, <4>1, <4>16 DEF OrdersOf
        <5>2. B \ {x} = B
          BY <5>1
        <5>3. d = b + P[x].remaining
          <6>1. SumFunctionOnSet(LockedQuantity(P), S) =
                    Part(LockedQuantity(P), S, x) + SumFunctionOnSet(LockedQuantity(P), S \ {x})
            BY <4>4, SumSplit
          <6>2. d = P[x].remaining + b
            BY <4>5, <4>8, <5>1, <6>1 DEF Part
          <6> QED
            BY <4>6, <4>10, <6>2, SMTT(40)
        <5> QED
          BY <4>5, <4>7, <4>13, <4>16, <5>2, <5>3
      <4> QED
        BY <4>14, <4>15, <4>16
    <3> QED
      BY <3>3, <3>4
  <2>3. SUBSET Orders \subseteq T
    <3> HIDE DEF T
    <3> QED
      BY <1>1, <2>1, <2>2, SubsetInd
  <2> QED
    BY <2>3
<1>12. LocksOver(P, Orders) = LocksOf(P)
  <2>1. OrdersOf("Buy") \cap Orders = OrdersOf("Buy") /\ OrdersOf("Sell") \cap Orders = OrdersOf("Sell")
    BY DEF OrdersOf
  <2> QED
    BY <2>1 DEF LocksOver, LocksOf
<1> QED
  BY <1>9, <1>11, <1>12

LEMMA MaxTwo ==
    ASSUME NEW a \in Int, NEW b \in Int
    PROVE  Max({a, b}) = IF a >= b THEN a ELSE b
BY SMTT(40) DEF Max

LEMMA MinTwo ==
    ASSUME NEW a \in Int, NEW b \in Int
    PROVE  Min({a, b}) = IF a <= b THEN a ELSE b
BY SMTT(40) DEF Min

-----------------------------------------------------------------------------
(* The books of the caller, the volumes and the index *)

\* A row has no fee or that of its trade, and none before the attribution.
RowOK(id, row) ==
    /\ row.fee \in {NoFee, FeeOf[Of(id)]}
    /\ ~row.attributed => row.fee = NoFee
RowsOK(rows) == \A id \in Ids : RowOK(id, rows[id])

AccOf(rows) ==
    [cash |-> init_balance + SumsOf(rows).cash, shares |-> init_position + SumsOf(rows).quantity]

\* What the caller summed up, the volumes and the index are those of the ledger.
SumsInv ==
    /\ trades \in Ledgers /\ RowsOK(trades)
    /\ init_balance \in Int /\ init_position \in Int /\ synthetic_counter \in Nat
    /\ acc = AccOf(trades)
    /\ volume = VolumeOf(trades)
    /\ incremental \in BOOLEAN
    /\ incremental => sums = SumsOf(trades)

LEMMA TradesAreIds == Trades \subseteq Ids /\ \A t \in Trades : Of(t) = t
BY DEF Ids, Of

\* The rows the shared account restores.
LEMMA RestoredOK ==
    ASSUME NEW rows \in Restored
    PROVE  rows \in [Trades -> Rows] /\ RowsOK(Extend(rows))
<1>1. rows \in [Trades -> Rows]
  BY PositionAssumption, RestoredAreRows
<1>2. \A id \in Ids : RowOK(id, NoRow)
  BY DEF RowOK, NoRow
<1>3. \A t \in Trades : rows[t] \in RestoredRows(t)
  BY DEF Restored
<1>4. ASSUME NEW t \in Trades PROVE RowOK(t, rows[t])
  <2>1. Of(t) = t
    BY TradesAreIds
  <2> QED
    BY <1>2, <1>3, <2>1, TradesAreIds, SMTT(40) DEF RestoredRows, RowOK
<1> QED
  BY <1>1, <1>2, <1>4 DEF RowsOK, Extend

LEMMA InitSums == Init => SumsInv
<1> SUFFICES ASSUME Init PROVE SumsInv
  OBVIOUS
<1>1. PICK rows \in Restored :
          LET live == {t \in Trades : Live(rows[t].status)} IN
          /\ acc = [cash |-> StartCash + TotalCash(rows, live),
                    shares |-> StartQuantity + TotalShares(rows, live)]
          /\ init_balance = acc.cash - TotalCash(rows, Booked(rows))
          /\ init_position = acc.shares - TotalShares(rows, Booked(rows))
          /\ trades = Extend(rows)
          /\ volume = VolumeOf(rows)
  BY DEF Init
<1>2. PICK live : live = {t \in Trades : Live(rows[t].status)}
  OBVIOUS
<1>3. Booked(rows) = live
  BY <1>2 DEF Booked
<1>4. rows \in [Trades -> Rows] /\ RowsOK(trades)
  BY <1>1, RestoredOK
<1>5. /\ trades \in Ledgers
      /\ TotalCash(rows, live) = SumsOf(trades).cash
      /\ TotalShares(rows, live) = SumsOf(trades).quantity
      /\ TotalCash(rows, live) \in Int /\ TotalShares(rows, live) \in Int
      /\ VolumeOf(rows) = VolumeOf(trades)
  BY <1>1, <1>2, <1>4, ExtendedSums
<1>6. StartCash \in Int /\ StartQuantity \in Int
  BY PositionAssumption
<1>7. /\ acc.cash = StartCash + TotalCash(rows, live)
      /\ acc.shares = StartQuantity + TotalShares(rows, live)
      /\ acc = [cash |-> acc.cash, shares |-> acc.shares]
      /\ init_balance = acc.cash - TotalCash(rows, live)
      /\ init_position = acc.shares - TotalShares(rows, live)
  BY <1>1, <1>2, <1>3
<1>8. PICK a, b : a = TotalCash(rows, live) /\ b = TotalShares(rows, live)
  OBVIOUS
<1>9. /\ init_balance \in Int /\ init_position \in Int
      /\ acc.cash = init_balance + a /\ acc.shares = init_position + b
  BY <1>5, <1>6, <1>7, <1>8, SMTT(40)
<1>10. acc = AccOf(trades)
  BY <1>5, <1>7, <1>8, <1>9 DEF AccOf
<1>11. incremental = FALSE /\ synthetic_counter = 0 /\ 0 \in Nat
  BY SMTT(40) DEF Init
<1> QED
  BY <1>1, <1>4, <1>5, <1>9, <1>10, <1>11 DEF SumsInv

\* The row that upsert_trade_inner writes.
Updated(old, s, fee) ==
    IF old = NoRow THEN [status |-> s, fee |-> fee, attributed |-> TRUE]
    ELSE [old EXCEPT !.status = s]

Upserted(rows, next, id, s, fee, sign) ==
    LET new == Updated(rows[id], s, fee) IN
    /\ next = [rows EXCEPT ![id] = new] /\ new \in Rows /\ new.status = s /\ new.fee = fee
    /\ sign = Bit(Live(s)) - Bit(Live(rows[id].status))
    /\ Live(rows[id].status) => fee = rows[id].fee
    /\ RowOK(id, rows[id]) => RowOK(id, new)

LEMMA UpsertIs ==
    ASSUME trades \in Ledgers, NEW id \in Ids, NEW s \in TradeStatus,
           NEW fee \in {NoFee, FeeOf[Of(id)]}, upsert_trade_inner(id, s, fee),
           Result(id, s, fee) # "noop",
           NEW sign, sign = accumulator_sign(Result(id, s, fee))
    PROVE  /\ Upserted(trades, trades', id, s, fee, sign)
           /\ sums' = IF incremental
                      THEN transition(sums, id, Updated(trades[id], s, fee), trades[id].status)
                      ELSE sums
           /\ volume' = VolumeAfter(id, sign)
           /\ acc' = [cash |-> acc.cash + sign * CashOf(id, fee),
                      shares |-> acc.shares + sign * SharesOf(id, fee)]
<1>1. Admits(id, fee) /\ Outcome(trades[id].status, s) # "noop"
      /\ Result(id, s, fee) = Outcome(trades[id].status, s)
  BY DEF Result
<1>2. trades[id] \in Rows /\ fee \in Fees
  <2>1. Of(id) \in Trades
    BY TradeOfId
  <2> QED
    BY <2>1, NoFeeIsFee DEF Ledgers
<1>3. trades[id].status \in TradeStatus \cup {"None"} /\ trades[id].fee \in Fees
  BY <1>2, SMTT(40) DEF Rows
<1>4. sign = Bit(Live(s)) - Bit(Live(trades[id].status))
  <2>1. Bit(Live(trades[id].status)) + sign = Bit(Live(s))
    BY <1>1, <1>3, SignIsChange
  <2>2. sign \in Int
    BY SMTT(40) DEF accumulator_sign
  <2>3. \A x, y : Bit(x) \in Int
    BY SMTT(40) DEF Bit
  <2> QED
    BY <2>1, <2>2, <2>3, SMTT(40)
<1>5. PICK new : new = Updated(trades[id], s, fee)
  OBVIOUS
<1>6. new \in Rows /\ new.status = s /\ new.fee = fee
  <2>1. trades[id] # NoRow => trades[id].fee = fee
    BY <1>1 DEF Admits
  <2> QED
    BY <1>2, <1>5, <2>1, SMTT(40) DEF Rows, Updated
<1>7. Live(trades[id].status) => fee = trades[id].fee
  <2>1. ~Live(NoRow.status)
    BY DEF NoRow, Live
  <2> QED
    BY <1>1, <2>1 DEF Admits
<1>8. RowOK(id, trades[id]) => RowOK(id, new)
  <2>1. trades[id] = NoRow => new.attributed
    BY <1>5 DEF Updated
  <2>2. trades[id] # NoRow => new.attributed = trades[id].attributed /\ trades[id].fee = fee
    BY <1>1, <1>2, <1>5, SMTT(40) DEF Updated, Rows, Admits
  <2> QED
    BY <1>6, <2>1, <2>2 DEF RowOK
<1>9. trades' = [trades EXCEPT ![id] = new]
  BY <1>5, ZenonT(40) DEF upsert_trade_inner, Updated
<1>10. sums' = IF incremental THEN transition(sums, id, new, trades[id].status) ELSE sums
  BY <1>5, ZenonT(40) DEF upsert_trade_inner, Updated
<1>11. volume' = VolumeAfter(id, sign)
       /\ acc' = [cash |-> acc.cash + sign * CashOf(id, fee),
                  shares |-> acc.shares + sign * SharesOf(id, fee)]
  BY ZenonT(40) DEF upsert_trade_inner
<1>12. Upserted(trades, trades', id, s, fee, sign)
  BY <1>4, <1>5, <1>6, <1>7, <1>8, <1>9 DEF Upserted
<1> QED
  BY <1>5, <1>10, <1>11, <1>12

\* upsert_trade_inner keeps the caller's books, the volumes and the index in step.
LEMMA UpsertSums ==
    ASSUME SumsInv, NEW id \in Ids, NEW s \in TradeStatus,
           NEW fee \in {NoFee, FeeOf[Of(id)]}, upsert_trade_inner(id, s, fee),
           UNCHANGED init_balance, UNCHANGED init_position, UNCHANGED incremental,
           synthetic_counter' \in Nat
    PROVE  SumsInv'
<1>1. CASE Result(id, s, fee) = "noop"
  <2>1. UNCHANGED trades /\ UNCHANGED sums /\ UNCHANGED volume /\ UNCHANGED acc
    BY <1>1 DEF upsert_trade_inner
  <2> QED
    BY <2>1 DEF SumsInv, AccOf
<1>2. CASE Result(id, s, fee) # "noop"
  <2>1. PICK sign : sign = accumulator_sign(Result(id, s, fee))
    OBVIOUS
  <2>2. PICK new : new = Updated(trades[id], s, fee)
    OBVIOUS
  <2>3. trades \in Ledgers /\ RowsOK(trades)
    BY DEF SumsInv
  <2>4. /\ Upserted(trades, trades', id, s, fee, sign)
        /\ sums' = IF incremental THEN transition(sums, id, new, trades[id].status) ELSE sums
        /\ volume' = VolumeAfter(id, sign)
        /\ acc' = [cash |-> acc.cash + sign * CashOf(id, fee),
                   shares |-> acc.shares + sign * SharesOf(id, fee)]
    BY <1>2, <2>1, <2>2, <2>3, UpsertIs
  <2>5. /\ trades' = [trades EXCEPT ![id] = new] /\ new \in Rows /\ new.status = s /\ new.fee = fee
        /\ sign = Bit(Live(new.status)) - Bit(Live(trades[id].status))
        /\ Live(trades[id].status) => new.fee = trades[id].fee
        /\ RowOK(id, trades[id]) => RowOK(id, new)
    BY <2>2, <2>4 DEF Upserted
  <2>6. SumsOf(trades') = transition(SumsOf(trades), id, new, trades[id].status)
    BY <2>3, <2>5, TransitionExact
  <2>7. volume' = VolumeOf(trades')
    <3>1. VolumeMoves(VolumeOf(trades), VolumeOf(trades'), id, sign)
      BY <2>3, <2>5, VolumeExact
    <3>2. volume = VolumeOf(trades) /\ volume' = [volume EXCEPT ![Role(id)] = volume[Role(id)] + sign * Notional(id)]
      BY <2>4 DEF VolumeAfter, SumsInv
    <3> QED
      BY <3>1, <3>2 DEF VolumeMoves
  <2>8. trades' \in Ledgers /\ RowsOK(trades)'
    BY <2>3, <2>5 DEF Ledgers, RowsOK
  <2>9. acc' = AccOf(trades)'
    <3>1. /\ CashOf(id, fee) \in Int /\ SharesOf(id, fee) \in Int
          /\ SumsOf(trades).cash \in Int /\ SumsOf(trades).quantity \in Int
      <4>1. fee \in Fees
        BY TradeOfId, NoFeeIsFee
      <4> QED
        BY <2>3, <4>1, AmountTypes, SumsType
    <3>2. sign \in Int
      BY <2>1, SMTT(40) DEF accumulator_sign
    <3>3. /\ SumsOf(trades').cash = SumsOf(trades).cash + CashOf(id, fee) * sign
          /\ SumsOf(trades').quantity = SumsOf(trades).quantity + SharesOf(id, fee) * sign
      <4>1. PICK x, y : x = SumsOf(trades) /\ y = transition(x, id, new, trades[id].status)
        OBVIOUS
      <4>2. /\ y.cash = x.cash + CashOf(id, new.fee) * (Bit(Live(new.status)) - Bit(Live(trades[id].status)))
            /\ y.quantity = x.quantity +
                   SharesOf(id, new.fee) * (Bit(Live(new.status)) - Bit(Live(trades[id].status)))
        BY <4>1, TransitionIs
      <4>3. y.cash = x.cash + CashOf(id, fee) * sign /\ y.quantity = x.quantity + SharesOf(id, fee) * sign
        BY <2>5, <4>2
      <4> QED
        BY <2>6, <4>1, <4>3
    <3>4. PICK i, j, x, y, a, b :
              /\ i = init_balance /\ j = init_position
              /\ x = CashOf(id, fee) /\ y = SharesOf(id, fee)
              /\ a = SumsOf(trades).cash /\ b = SumsOf(trades).quantity
      OBVIOUS
    <3>5. i \in Int /\ j \in Int /\ acc.cash = i + a /\ acc.shares = j + b
      BY <3>4 DEF SumsInv, AccOf
    <3>6. i + a + sign * x = i + (a + x * sign) /\ j + b + sign * y = j + (b + y * sign)
      BY <3>1, <3>2, <3>4, <3>5, SMTT(40)
    <3>7. acc' = [cash |-> i + (a + x * sign), shares |-> j + (b + y * sign)]
      BY <2>4, <3>4, <3>5, <3>6
    <3>8. AccOf(trades)' = [cash |-> i + (a + x * sign), shares |-> j + (b + y * sign)]
      BY <3>3, <3>4 DEF AccOf
    <3> QED
      BY <3>7, <3>8
  <2>10. incremental' => sums' = SumsOf(trades')
    BY <2>4, <2>6 DEF SumsInv
  <2> QED
    BY <2>7, <2>8, <2>9, <2>10 DEF SumsInv
<1> QED
  BY <1>1, <1>2

\* A late attribution corrects the index and the caller's books by what it returns.
LEMMA AttributeSums ==
    ASSUME SumsInv, NEW t \in Trades, attribute_restored_trade_fee(t)
    PROVE  SumsInv'
<1>1. t \in Ids /\ Of(t) = t /\ trades \in Ledgers /\ RowsOK(trades) /\ FeeOf[t] \in Fees
  BY TradesAreIds, NoFeeIsFee DEF SumsInv
<1>2. trades[t] \in Rows /\ trades[t].fee = NoFee
  <2>1. ~trades[t].attributed
    BY DEF attribute_restored_trade_fee
  <2> QED
    BY <1>1, <2>1 DEF Ledgers, RowsOK, RowOK
<1>3. PICK new : new = [trades[t] EXCEPT !.fee = FeeOf[t], !.attributed = TRUE]
  OBVIOUS
<1>4. /\ new \in Rows /\ new.status = trades[t].status /\ new.fee = FeeOf[t]
      /\ new.attributed = TRUE
  <2>1. new \in Rows /\ new.status = trades[t].status /\ new.fee = FeeOf[t]
    BY <1>1, <1>2, <1>3 DEF Rows
  <2>2. DOMAIN trades[t] = {"status", "fee", "attributed"}
    BY <1>2, SMTT(40) DEF Rows
  <2>3. new.attributed = TRUE
    BY <1>3, <2>2
  <2> QED
    BY <2>1, <2>3
<1>5. trades' = [trades EXCEPT ![t] = new]
  <2>1. trades' = [trades EXCEPT ![t].fee = FeeOf[t], ![t].attributed = TRUE]
    BY DEF attribute_restored_trade_fee
  <2>2. PICK row : row = [trades[t] EXCEPT !.fee = FeeOf[t]]
    OBVIOUS
  <2>3. PICK mid : mid = [trades EXCEPT ![t] = row]
    OBVIOUS
  <2>4. mid[t] = row /\ DOMAIN mid = Ids /\ \A id \in Ids \ {t} : mid[id] = trades[id]
    BY <1>1, <2>3 DEF Ledgers
  <2>5. new = [row EXCEPT !.attributed = TRUE]
    BY <1>3, <2>2
  <2>6. trades' = [mid EXCEPT ![t] = [mid[t] EXCEPT !.attributed = TRUE]]
    BY <2>1, <2>2, <2>3
  <2>7. trades' = [mid EXCEPT ![t] = new]
    BY <2>4, <2>5, <2>6
  <2>8. [mid EXCEPT ![t] = new] = [id \in Ids |-> IF id = t THEN new ELSE trades[id]]
    BY <1>1, <2>4
  <2>9. [trades EXCEPT ![t] = new] = [id \in Ids |-> IF id = t THEN new ELSE trades[id]]
    BY <1>1 DEF Ledgers
  <2> QED
    BY <2>7, <2>8, <2>9
<1>6. Side(t) # "Buy" => new.fee.shares = trades[t].fee.shares
  <2>1. accepts_fee_amounts(t, FeeOf[t])
    BY PositionAssumption
  <2>2. Side(t) # "Buy" => FeeOf[t].shares = 0
    BY <1>1, <2>1 DEF accepts_fee_amounts, Side
  <2> QED
    <3>1. NoFee.shares = 0
      BY DEF NoFee
    <3> QED
      BY <1>2, <1>4, <2>2, <3>1
<1>7. Attributed(SumsOf(trades), SumsOf(trades'), t, new.status, FeeDelta(trades[t], new.fee))
  BY <1>1, <1>4, <1>5, <1>6, AttributionExact
<1>8. PICK d : d = FeeDelta(trades[t], FeeOf[t])
  OBVIOUS
<1>9. SumsOf(trades') =
          IF ~Live(trades[t].status) THEN SumsOf(trades)
          ELSE [cash |-> SumsOf(trades).cash + d.cash,
                available_cash |-> SumsOf(trades).available_cash +
                    IF Side(t) = "Buy" \/ trades[t].status = "Confirmed" THEN d.cash ELSE 0,
                quantity |-> SumsOf(trades).quantity + d.shares,
                available_quantity |-> SumsOf(trades).available_quantity +
                    IF Side(t) = "Sell" \/ trades[t].status = "Confirmed" THEN d.shares ELSE 0]
  BY <1>4, <1>7, <1>8 DEF Attributed
<1>10. incremental' => sums' = SumsOf(trades')
  <2>1. incremental => sums = SumsOf(trades)
    BY DEF SumsInv
  <2>2. incremental' = incremental
    BY DEF attribute_restored_trade_fee
  <2>3. incremental => sums' =
          IF ~Live(trades[t].status) THEN sums
          ELSE [cash |-> sums.cash + d.cash,
                available_cash |-> sums.available_cash +
                    IF Side(t) = "Buy" \/ trades[t].status = "Confirmed" THEN d.cash ELSE 0,
                quantity |-> sums.quantity + d.shares,
                available_quantity |-> sums.available_quantity +
                    IF Side(t) = "Sell" \/ trades[t].status = "Confirmed" THEN d.shares ELSE 0]
    BY <1>8 DEF attribute_restored_trade_fee
  <2> QED
    BY <1>9, <2>1, <2>2, <2>3
<1>11. volume' = VolumeOf(trades')
  <2>1. PICK z : z = Bit(Live(new.status)) - Bit(Live(trades[t].status))
    OBVIOUS
  <2>2. z = 0
    <3>1. Bit(Live(trades[t].status)) \in Int
      BY SMTT(40) DEF Bit
    <3> QED
      BY <1>4, <2>1, <3>1, SMTT(40)
  <2>3. VolumeMoves(VolumeOf(trades), VolumeOf(trades'), t, z)
    BY <1>1, <1>4, <1>5, <2>1, VolumeExact
  <2>4. VolumeOf(trades)[Role(t)] \in Int /\ Notional(t) \in Int
    <3>1. VolumeOf(trades)[Role(t)] = SumFunctionOnSet(Notionals(trades), RoleIds(trades, Role(t)))
      BY VolumeIs, RoleType
    <3>2. SumFunctionOnSet(Notionals(trades), RoleIds(trades, Role(t))) \in Int
      BY <1>1, NotionalInts, SumSplit
    <3>3. Notional(t) \in Nat
      BY <1>1, AmountTypes
    <3> QED
      BY <3>1, <3>2, <3>3, SMTT(40)
  <2>5. VolumeOf(trades)[Role(t)] + z * Notional(t) = VolumeOf(trades)[Role(t)]
    BY <2>2, <2>4, SMTT(40)
  <2>6. VolumeOf(trades') = VolumeOf(trades)
    <3>1. PICK v : v = VolumeOf(trades)
      OBVIOUS
    <3>2. [v EXCEPT ![Role(t)] = v[Role(t)]] = v
      BY <3>1, VolumeIs
    <3> QED
      BY <2>3, <2>5, <3>1, <3>2 DEF VolumeMoves
  <2>7. volume' = volume /\ volume = VolumeOf(trades)
    BY DEF attribute_restored_trade_fee, SumsInv
  <2> QED
    BY <2>6, <2>7
<1>12. acc' = AccOf(trades)'
  <2>1. /\ acc' = [cash |-> acc.cash + d.cash, shares |-> acc.shares + d.shares]
        /\ init_balance' = init_balance /\ init_position' = init_position
    BY <1>8 DEF attribute_restored_trade_fee
  <2>2. /\ init_balance \in Int /\ init_position \in Int
        /\ acc.cash = init_balance + SumsOf(trades).cash
        /\ acc.shares = init_position + SumsOf(trades).quantity
    BY DEF SumsInv, AccOf
  <2>3. SumsOf(trades).cash \in Int /\ SumsOf(trades).quantity \in Int
    BY <1>1, SumsType
  <2>4. d.cash \in Int /\ d.shares \in Int /\ (~Live(trades[t].status) => d.cash = 0 /\ d.shares = 0)
    BY <1>1, <1>2, <1>8, SMTT(40) DEF FeeDelta, Rows, Fees
  <2>5. /\ SumsOf(trades').cash = SumsOf(trades).cash + d.cash
        /\ SumsOf(trades').quantity = SumsOf(trades).quantity + d.shares
    <3>1. CASE Live(trades[t].status)
      <4>1. PICK x, y : x = SumsOf(trades) /\ y = SumsOf(trades')
        OBVIOUS
      <4>2. y = [cash |-> x.cash + d.cash,
                 available_cash |-> x.available_cash +
                     IF Side(t) = "Buy" \/ trades[t].status = "Confirmed" THEN d.cash ELSE 0,
                 quantity |-> x.quantity + d.shares,
                 available_quantity |-> x.available_quantity +
                     IF Side(t) = "Sell" \/ trades[t].status = "Confirmed" THEN d.shares ELSE 0]
        BY <1>9, <3>1, <4>1
      <4>3. y.cash = x.cash + d.cash /\ y.quantity = x.quantity + d.shares
        BY <4>2
      <4> QED
        BY <4>1, <4>3
    <3>2. CASE ~Live(trades[t].status)
      <4>1. SumsOf(trades').cash = SumsOf(trades).cash /\ SumsOf(trades').quantity = SumsOf(trades).quantity
        BY <1>9, <3>2
      <4> QED
        BY <2>3, <2>4, <3>2, <4>1, SMTT(40)
    <3> QED
      BY <3>1, <3>2
  <2>6. PICK a, b : a = SumsOf(trades).cash /\ b = SumsOf(trades).quantity
    OBVIOUS
  <2>7. /\ acc.cash + d.cash = init_balance + (a + d.cash)
        /\ acc.shares + d.shares = init_position + (b + d.shares)
    BY <2>2, <2>3, <2>4, <2>6, SMTT(40)
  <2> QED
    BY <2>1, <2>5, <2>6, <2>7 DEF AccOf
<1>13. RowsOK(trades)' /\ trades' \in Ledgers
  <2>1. RowOK(t, new)
    BY <1>1, <1>4 DEF RowOK
  <2> QED
    BY <1>1, <1>4, <1>5, <2>1 DEF RowsOK, Ledgers
<1>14. UNCHANGED init_balance /\ UNCHANGED init_position /\ UNCHANGED synthetic_counter
       /\ UNCHANGED incremental
  BY DEF attribute_restored_trade_fee
<1> QED
  BY <1>10, <1>11, <1>12, <1>13, <1>14 DEF SumsInv

\* The trade or the new id that a fill of an order update is booked under.
LEMMA FillIs ==
    ASSUME NEW u \in Updates, u.filled # 0
    PROVE  /\ u.trade \in Trades /\ u.order = OrderOf[u.trade] /\ u.filled = SizeOf[u.trade]
           /\ u.status \in DOMAIN from_order_status /\ u.id \in BOOLEAN
           /\ from_order_status[u.status] \in TradeStatus
<1>1. u.trade \in Trades
  BY SMTT(40) DEF Updates, Fill, Lifecycle
<1>2. u.order = OrderOf[u.trade] /\ u.filled = SizeOf[u.trade]
  BY SMTT(40) DEF Updates, Fill, Lifecycle
<1>3. u.status \in DOMAIN from_order_status
  BY SMTT(40) DEF Updates, Fill, Lifecycle
<1>4. u.id \in BOOLEAN
  BY SMTT(40) DEF Updates, Fill, Lifecycle
<1>5. \A x \in DOMAIN from_order_status : from_order_status[x] \in TradeStatus
  BY SMTT(40) DEF from_order_status, TradeStatus
<1> QED
  BY <1>1, <1>2, <1>3, <1>4, <1>5

LEMMA FillId ==
    ASSUME NEW u \in Updates, u.filled # 0, synthetic_counter \in Nat, NEW id,
           id = IF u.id THEN u.trade ELSE <<u.trade, synthetic_counter + 1>>,
           u.id \/ Extras < MaxExtra, init_balance \in Int, init_position \in Int
    PROVE  /\ id \in Ids /\ Of(id) = u.trade /\ synthetic_counter + 1 \in Nat
           /\ u.id => id \in Trades
           /\ ~u.id => id \notin Trades
<1>1. u.trade \in Trades
  BY FillIs
<1>2. synthetic_counter + 1 \in Nat
  BY SMTT(40)
<1>3. CASE u.id
  BY <1>1, <1>2, <1>3, TradesAreIds
<1>4. CASE ~u.id
  <2>1. Extras < MaxExtra /\ MaxExtra \in Nat
    BY <1>4, PositionAssumption
  <2>2. StartCash \in Int /\ StartQuantity \in Int
    BY PositionAssumption
  <2>3. \A i \in Int : Abs(i) \in Nat
    BY SMTT(40) DEF Abs
  <2>4. Abs(init_balance - StartCash) \in Nat /\ Abs(init_position - StartQuantity) \in Nat
    <3>1. init_balance - StartCash \in Int /\ init_position - StartQuantity \in Int
      BY <2>2, SMTT(40)
    <3> QED
      BY <2>3, <3>1
  <2>5. synthetic_counter + 1 \in 1..MaxExtra
    <3>1. PICK a, b : a = Abs(init_balance - StartCash) /\ b = Abs(init_position - StartQuantity)
      OBVIOUS
    <3>2. synthetic_counter + a + b < MaxExtra
      BY <2>1, <3>1 DEF Extras
    <3> QED
      BY <2>1, <2>4, <3>1, <3>2, SMTT(40)
  <2>6. id = <<u.trade, synthetic_counter + 1>>
    BY <1>4
  <2>7. id \notin Trades
    BY <1>1, <2>5, <2>6, PositionAssumption
  <2>8. id[1] = u.trade /\ id \in Trades \X (1..MaxExtra)
    BY <1>1, <2>5, <2>6, SMTT(40)
  <2> QED
    BY <1>2, <1>4, <2>7, <2>8 DEF Ids, Of
<1> QED
  BY <1>3, <1>4

LEMMA SumsNext ==
    ASSUME SumsInv, [Next]_vars
    PROVE  SumsInv'
<1>1. ASSUME UNCHANGED trades, UNCHANGED volume, UNCHANGED acc, UNCHANGED sums,
             UNCHANGED init_balance, UNCHANGED init_position, UNCHANGED synthetic_counter,
             UNCHANGED incremental
      PROVE  SumsInv'
  BY <1>1 DEF SumsInv, AccOf
<1>2. ASSUME NEW u \in Updates, on_order_update(u) PROVE SumsInv'
  <2>1. UNCHANGED init_balance /\ UNCHANGED init_position /\ UNCHANGED incremental
    BY <1>2 DEF on_order_update
  <2>2. CASE u.filled = 0
    <3>1. UNCHANGED ledger /\ UNCHANGED synthetic_counter
      BY <1>2, <2>2 DEF on_order_update
    <3> QED
      BY <1>1, <2>1, <3>1 DEF ledger
  <2>3. CASE u.filled # 0
    <3>1. PICK id : id = IF u.id THEN u.trade ELSE <<u.trade, synthetic_counter + 1>>
      OBVIOUS
    <3>2. /\ u.id \/ Extras < MaxExtra
          /\ synthetic_counter' = IF u.id THEN synthetic_counter ELSE synthetic_counter + 1
          /\ upsert_trade_inner(id, from_order_status[u.status], NoFee)
      BY <1>2, <2>3, <3>1 DEF on_order_update
    <3>3. id \in Ids /\ synthetic_counter + 1 \in Nat /\ synthetic_counter \in Nat
      BY <2>3, <3>1, <3>2, FillId DEF SumsInv
    <3>4. synthetic_counter' \in Nat /\ from_order_status[u.status] \in TradeStatus
      BY <2>3, <3>2, <3>3, FillIs
    <3> QED
      BY <2>1, <3>2, <3>3, <3>4, UpsertSums
  <2> QED
    BY <2>2, <2>3
<1>3. ASSUME NEW t \in Trades, NEW s \in TradeStatus, NEW fee \in {NoFee, FeeOf[t]},
             upsert_trade(t, s, fee) \/ PrivateTrade(t, s, fee)
      PROVE  SumsInv'
  <2>1. /\ upsert_trade_inner(t, s, fee)
        /\ UNCHANGED init_balance /\ UNCHANGED init_position /\ UNCHANGED incremental
        /\ UNCHANGED synthetic_counter
    BY <1>3 DEF upsert_trade, PrivateTrade
  <2>2. t \in Ids /\ fee \in {NoFee, FeeOf[Of(t)]} /\ synthetic_counter' \in Nat
    BY <2>1, TradesAreIds DEF SumsInv
  <2> QED
    BY <2>1, <2>2, UpsertSums
<1>4. ASSUME NEW t \in Trades, attribute_restored_trade_fee(t) PROVE SumsInv'
  BY <1>4, AttributeSums
<1>5. CASE \E o \in Orders : Register(o) \/ remove_pending_order(o)
  BY <1>1, <1>5 DEF Register, remove_pending_order, ledger
<1>6. ASSUME NEW delta \in Adjustments, adjust_balance(delta) \/ adjust_quantity(delta)
      PROVE  SumsInv'
  <2>1. delta \in Int
    BY PositionAssumption
  <2>2. /\ UNCHANGED trades /\ UNCHANGED volume /\ UNCHANGED sums /\ UNCHANGED synthetic_counter
        /\ UNCHANGED incremental
    BY <1>6 DEF adjust_balance, adjust_quantity
  <2>3. PICK x, y : x = SumsOf(trades).cash /\ y = SumsOf(trades).quantity
    OBVIOUS
  <2>4. /\ x \in Int /\ y \in Int /\ init_balance \in Int /\ init_position \in Int
        /\ acc = [cash |-> init_balance + x, shares |-> init_position + y]
    BY <2>3, SumsType DEF SumsInv, AccOf
  <2>5. /\ init_balance' \in Int /\ init_position' \in Int
        /\ acc' = [cash |-> init_balance' + x, shares |-> init_position' + y]
    <3>1. CASE adjust_balance(delta)
      <4>1. /\ init_balance' = init_balance + delta /\ init_position' = init_position
            /\ acc' = [acc EXCEPT !.cash = @ + delta]
        BY <3>1 DEF adjust_balance
      <4> QED
        BY <2>1, <2>4, <4>1, SMTT(40)
    <3>2. CASE adjust_quantity(delta)
      <4>1. /\ init_position' = init_position + delta /\ init_balance' = init_balance
            /\ acc' = [acc EXCEPT !.shares = @ + delta]
        BY <3>2 DEF adjust_quantity
      <4> QED
        BY <2>1, <2>4, <4>1, SMTT(40)
    <3> QED
      BY <1>6, <3>1, <3>2
  <2>6. acc' = AccOf(trades)'
    BY <2>2, <2>3, <2>5 DEF AccOf
  <2> QED
    BY <2>2, <2>5, <2>6 DEF SumsInv
<1>7. CASE enable_incremental_queries
  <2>1. /\ UNCHANGED trades /\ UNCHANGED volume /\ UNCHANGED acc /\ UNCHANGED init_balance
        /\ UNCHANGED init_position /\ UNCHANGED synthetic_counter /\ incremental' = TRUE
    BY <1>7 DEF enable_incremental_queries
  <2>2. PICK ids : ids = {id \in Ids : trades[id] # NoRow}
    OBVIOUS
  <2>3. sums' = FoldedSums(trades, ids)
    BY <1>7, <2>2 DEF enable_incremental_queries, FoldedSums
  <2>4. sums' = SumsOf(trades)
    BY <2>2, <2>3, EnableExact DEF SumsInv
  <2> QED
    BY <2>1, <2>4 DEF SumsInv, AccOf
<1>8. CASE Restart
  <2>1. /\ UNCHANGED trades /\ UNCHANGED volume /\ UNCHANGED acc /\ UNCHANGED init_balance
        /\ UNCHANGED init_position /\ UNCHANGED synthetic_counter /\ incremental' = FALSE
    BY <1>8 DEF Restart
  <2> QED
    BY <2>1 DEF SumsInv, AccOf
<1>9. ASSUME NEW rows \in FinalRows, Rebuild(rows) PROVE SumsInv'
  <2>1. rows \in Restored
    BY DEF FinalRows
  <2>2. PICK live : live = {t \in Trades : Live(rows[t].status)}
    OBVIOUS
  <2>3. /\ trades' = Extend(rows) /\ volume' = VolumeOf(rows) /\ incremental' = FALSE
        /\ acc' = [cash |-> init_balance + TotalCash(rows, live),
                   shares |-> init_position + TotalShares(rows, live)]
        /\ UNCHANGED init_balance /\ UNCHANGED init_position /\ UNCHANGED synthetic_counter
    BY <1>9, <2>2 DEF Rebuild
  <2>4. rows \in [Trades -> Rows] /\ RowsOK(trades)'
    BY <2>1, <2>3, RestoredOK DEF RowsOK
  <2>5. /\ trades' \in Ledgers
        /\ TotalCash(rows, live) = SumsOf(trades').cash
        /\ TotalShares(rows, live) = SumsOf(trades').quantity
        /\ VolumeOf(rows) = VolumeOf(trades')
    BY <2>2, <2>3, <2>4, ExtendedSums
  <2> QED
    BY <2>3, <2>4, <2>5 DEF SumsInv, AccOf
<1>10. CASE UNCHANGED vars
  BY <1>1, <1>10 DEF vars, ledger
<1> QED
  BY <1>2, <1>3, <1>4, <1>5, <1>6, <1>7, <1>8, <1>9, <1>10 DEF Next

LEMMA SumsInvariant == Spec => []SumsInv
BY InitSums, SumsNext, PTL DEF Spec

-----------------------------------------------------------------------------
(* The reservations of the open orders *)

PendingOK(o, p) ==
    /\ p \in Pendings /\ p.remaining <= p.original
    /\ SideOf[o] = "Sell" => p.fee = 0

\* Every reservation is within its order, and the index has their sums.
LocksInv ==
    /\ pending_orders \in Books
    /\ \A o \in Orders : PendingOK(o, pending_orders[o])
    /\ incremental => locks = LocksOf(pending_orders)

LEMMA NoOrderOK == \A o : PendingOK(o, NoOrder)
<1>1. NoOrder \in Pendings /\ NoOrder.remaining <= NoOrder.original /\ NoOrder.fee = 0
  BY SMTT(40) DEF NoOrder, Pendings
<1> QED
  BY <1>1 DEF PendingOK

LEMMA SetPendingOK ==
    ASSUME LocksInv, NEW o \in Orders, NEW p, PendingOK(o, p), SetPending(o, p),
           UNCHANGED incremental
    PROVE  LocksInv'
<1>1. p \in Pendings /\ pending_orders \in Books
  BY DEF PendingOK, LocksInv
<1>2. pending_orders' = [pending_orders EXCEPT ![o] = p]
  BY DEF SetPending
<1>3. LocksOf(pending_orders') =
          reservation(reservation(LocksOf(pending_orders), o, pending_orders[o], -1), o, p, 1)
  BY <1>1, <1>2, ReservationExact
<1>4. incremental' => locks' = LocksOf(pending_orders')
  BY <1>3 DEF SetPending, LocksInv
<1>5. pending_orders' \in Books /\ \A x \in Orders : PendingOK(x, pending_orders'[x])
  BY <1>1, <1>2 DEF Books, LocksInv
<1> QED
  BY <1>4, <1>5 DEF LocksInv

LEMMA RemainingOK ==
    ASSUME NEW o, NEW p, PendingOK(o, p), NEW n \in Nat
    PROVE  /\ n <= p.original => PendingOK(o, [p EXCEPT !.remaining = n])
           /\ [p EXCEPT !.remaining = n].remaining = n
           /\ [p EXCEPT !.remaining = n].original = p.original
<1>1. PICK q : q = [p EXCEPT !.remaining = n]
  OBVIOUS
<1>2. p \in Pendings
  BY DEF PendingOK
<1>3. q \in Pendings /\ q.remaining = n /\ q.original = p.original /\ q.fee = p.fee
  BY <1>1, <1>2, SMTT(40) DEF Pendings
<1>4. n <= p.original => PendingOK(o, q)
  BY <1>3 DEF PendingOK
<1> QED
  BY <1>1, <1>3, <1>4

LEMMA Released ==
    ASSUME NEW o, NEW p, PendingOK(o, p), NEW q \in Nat
    PROVE  /\ Max({p.remaining - q, 0}) \in Nat /\ Max({p.remaining - q, 0}) <= p.original
           /\ Min({p.remaining + q, p.original}) \in Nat
           /\ Min({p.remaining + q, p.original}) <= p.original
           /\ Max({p.remaining - q, 0}) = IF q <= p.remaining THEN p.remaining - q ELSE 0
           /\ Min({p.remaining + q, p.original}) =
                 IF p.remaining + q <= p.original THEN p.remaining + q ELSE p.original
<1>1. p.remaining \in Nat /\ p.original \in Nat /\ p.remaining <= p.original
  BY PendingFields DEF PendingOK
<1>2. p.remaining - q \in Int /\ 0 \in Int /\ p.remaining + q \in Int /\ p.original \in Int
  BY <1>1, SMTT(40)
<1>3. Max({p.remaining - q, 0}) = IF p.remaining - q >= 0 THEN p.remaining - q ELSE 0
  BY <1>2, MaxTwo
<1>4. Min({p.remaining + q, p.original}) =
          IF p.remaining + q <= p.original THEN p.remaining + q ELSE p.original
  BY <1>2, MinTwo
<1>5. PICK a, b : a = Max({p.remaining - q, 0}) /\ b = Min({p.remaining + q, p.original})
  OBVIOUS
<1>6. /\ a = IF p.remaining - q >= 0 THEN p.remaining - q ELSE 0
      /\ b = IF p.remaining + q <= p.original THEN p.remaining + q ELSE p.original
  BY <1>3, <1>4, <1>5
<1>7. a \in Nat /\ a <= p.original /\ b \in Nat /\ b <= p.original
      /\ a = IF q <= p.remaining THEN p.remaining - q ELSE 0
  BY <1>1, <1>6, SMTT(40)
<1> QED
  BY <1>4, <1>5, <1>7

LEMMA UpdateTypes ==
    ASSUME NEW u \in Updates
    PROVE  u.order \in Orders /\ u.filled \in Nat /\ u.remaining \in Nat
<1>1. \A t \in Trades : OrderOf[t] \in Orders /\ SizeOf[t] \in Nat
  BY PositionAssumption
<1>2. u.order \in Orders
  BY <1>1, SMTT(40) DEF Updates, Fill, Lifecycle
<1>3. u.filled \in Nat
  BY <1>1, SMTT(40) DEF Updates, Fill, Lifecycle
<1>4. u.remaining \in Nat
  BY <1>1, SMTT(40) DEF Updates, Fill, Lifecycle
<1> QED
  BY <1>2, <1>3, <1>4

LEMMA SyncOK ==
    ASSUME LocksInv, NEW u \in Updates, sync_pending_from_update(u), UNCHANGED incremental
    PROVE  LocksInv'
<1>1. u.order \in Orders /\ u.filled \in Nat /\ u.remaining \in Nat
  BY UpdateTypes
<1>2. PICK p, left : /\ p = pending_orders[u.order]
                     /\ left = Max({pending_orders[u.order].remaining - u.filled, 0})
  OBVIOUS
<1>3. PendingOK(u.order, p)
  BY <1>1, <1>2 DEF LocksInv
<1>4. left \in Nat /\ left <= p.original
  BY <1>1, <1>2, <1>3, Released
<1>5. PICK q, n : /\ q = [p EXCEPT !.remaining = left]
                  /\ n = [original |-> u.remaining, remaining |-> u.remaining, fee |-> 0]
  OBVIOUS
<1>6. PendingOK(u.order, q)
  BY <1>3, <1>4, <1>5, RemainingOK
<1>7. PendingOK(u.order, n)
  <2>1. n \in Pendings /\ n.remaining <= n.original /\ n.fee = 0
    BY <1>1, <1>5, SMTT(40) DEF Pendings
  <2> QED
    BY <2>1 DEF PendingOK
<1>8. \/ UNCHANGED locking
      \/ SetPending(u.order, NoOrder)
      \/ SetPending(u.order, q)
      \/ SetPending(u.order, n)
  BY <1>2, <1>5, SMTT(40) DEF sync_pending_from_update
<1>9. CASE UNCHANGED locking
  BY <1>9 DEF locking, LocksInv
<1> QED
  BY <1>1, <1>6, <1>7, <1>8, <1>9, NoOrderOK, SetPendingOK

\* What the fills of some trades take is an amount.
LEMMA FillSum ==
    ASSUME NEW S, S \subseteq Trades
    PROVE  IsFiniteSet(S) /\ Ints(SizeOf, S) /\ SumFunctionOnSet(SizeOf, S) \in Nat
<1>1. \A t \in Trades : SizeOf[t] \in Nat
  BY PositionAssumption
<1>2. \A n \in Nat : n \in Int /\ 0 <= n
  BY SMTT(40)
<1>3. IsFiniteSet(S) /\ Ints(SizeOf, S) /\ Ints(SizeOf, {})
  BY <1>1, <1>2, PositionAssumption, FS_Subset DEF Ints
<1>4. \A t \in S : Part(SizeOf, {}, t) <= Part(SizeOf, S, t)
  BY <1>1, <1>2 DEF Part
<1>5. SumFunctionOnSet(SizeOf, {}) <= SumFunctionOnSet(SizeOf, S)
  BY <1>3, <1>4, SumMono
<1>6. SumFunctionOnSet(SizeOf, S) \in Int
  BY <1>3, SumSplit
<1>7. \A i \in Int : 0 <= i => i \in Nat
  BY SMTT(40)
<1> QED
  BY <1>3, <1>5, <1>6, <1>7, SumEmpty

FillsOf(rows, o) == {t \in Trades : OrderOf[t] = o /\ Live(rows[t].status)}
Filled(rows, o) == SumFunctionOnSet(SizeOf, FillsOf(rows, o))

LEMMA FilledNat == ASSUME NEW rows, NEW o PROVE Filled(rows, o) \in Nat
BY FillSum DEF Filled, FillsOf

\* A rebuild leaves every reservation what the restored fills leave of the order.
LEMMA RebuiltPending ==
    ASSUME LocksInv, NEW rows, Rebuild(rows)
    PROVE  /\ pending_orders' \in Books
           /\ \A o \in Orders :
                  /\ PendingOK(o, pending_orders'[o])
                  /\ pending_orders'[o].original = pending_orders[o].original
                  /\ pending_orders'[o].remaining =
                        IF Filled(rows, o) <= pending_orders[o].original
                        THEN pending_orders[o].original - Filled(rows, o) ELSE 0
<1>1. ASSUME NEW o \in Orders
      PROVE  /\ pending_orders'[o] \in Pendings
             /\ PendingOK(o, pending_orders'[o])
             /\ pending_orders'[o].original = pending_orders[o].original
             /\ pending_orders'[o].remaining =
                    IF Filled(rows, o) <= pending_orders[o].original
                    THEN pending_orders[o].original - Filled(rows, o) ELSE 0
  <2>1. {t \in Booked(rows) : OrderOf[t] = o} = FillsOf(rows, o)
    BY DEF Booked, FillsOf
  <2>2. PICK n : n = Max({0, pending_orders[o].original - Filled(rows, o)})
    OBVIOUS
  <2>3. pending_orders'[o] = [pending_orders[o] EXCEPT !.remaining = n]
    BY <2>1, <2>2 DEF Rebuild, Filled
  <2>4. PICK m, c : m = pending_orders[o].original /\ c = Filled(rows, o)
    OBVIOUS
  <2>5. PendingOK(o, pending_orders[o])
    BY DEF LocksInv
  <2>6. m \in Nat /\ c \in Nat
    BY <2>4, <2>5, FilledNat, PendingFields DEF PendingOK
  <2>7. 0 \in Int /\ m - c \in Int
    BY <2>6, SMTT(40)
  <2>8. n = IF 0 >= m - c THEN 0 ELSE m - c
    BY <2>2, <2>4, <2>7, MaxTwo
  <2>9. n \in Nat /\ n <= m /\ n = IF c <= m THEN m - c ELSE 0
    BY <2>6, <2>8, SMTT(40)
  <2>10. PendingOK(o, pending_orders'[o]) /\ pending_orders'[o].remaining = n
         /\ pending_orders'[o].original = m
    <3>1. PICK p : p = pending_orders[o]
      OBVIOUS
    <3>2. /\ n <= p.original => PendingOK(o, [p EXCEPT !.remaining = n])
          /\ [p EXCEPT !.remaining = n].remaining = n
          /\ [p EXCEPT !.remaining = n].original = p.original
      <4>1. PendingOK(o, p) /\ n \in Nat
        BY <2>5, <2>9, <3>1
      <4> QED
        BY <4>1, RemainingOK
    <3> QED
      BY <2>3, <2>4, <2>9, <3>1, <3>2
  <2> QED
    BY <2>4, <2>9, <2>10 DEF PendingOK
<1>2. pending_orders' = [o \in Orders |-> pending_orders'[o]]
  BY DEF Rebuild
<1>3. pending_orders' \in Books
  BY <1>1, <1>2 DEF Books
<1> QED
  BY <1>1, <1>3

LEMMA InitLocks == Init => LocksInv
<1> SUFFICES ASSUME Init PROVE LocksInv
  OBVIOUS
<1>1. pending_orders = [o \in Orders |-> NoOrder] /\ incremental = FALSE
  BY DEF Init
<1>2. NoOrder \in Pendings
  BY NoOrderOK DEF PendingOK
<1> QED
  BY <1>1, <1>2, NoOrderOK DEF LocksInv, Books

\* The sign of a report.
LEMMA SignIs == \A x : accumulator_sign(x) \in {-1, 0, 1}
BY SMTT(40) DEF accumulator_sign

LEMMA PrivateOK ==
    ASSUME LocksInv, NEW o \in Orders, NEW q \in Nat, NEW sign \in {-1, 0, 1},
           apply_private_trade_reservation(o, q, sign), UNCHANGED incremental
    PROVE  LocksInv'
<1>1. CASE UNCHANGED locking
  BY <1>1 DEF locking, LocksInv
<1>2. CASE ~UNCHANGED locking
  <2>1. PICK p, n : p = pending_orders[o] /\ n = Remaining(p, q, sign)
    OBVIOUS
  <2>2. SetPending(o, [p EXCEPT !.remaining = n])
    BY <1>2, <2>1 DEF apply_private_trade_reservation
  <2>3. PendingOK(o, p)
    BY <2>1 DEF LocksInv
  <2>4. n \in Nat /\ n <= p.original
    BY <2>1, <2>3, Released DEF Remaining
  <2>5. PendingOK(o, [p EXCEPT !.remaining = n])
    BY <2>3, <2>4, RemainingOK
  <2> QED
    BY <2>2, <2>5, SetPendingOK
<1> QED
  BY <1>1, <1>2

LEMMA LocksNext ==
    ASSUME LocksInv, [Next]_vars
    PROVE  LocksInv'
<1>1. ASSUME UNCHANGED locking, UNCHANGED incremental PROVE LocksInv'
  BY <1>1 DEF locking, LocksInv
<1>2. ASSUME NEW u \in Updates, on_order_update(u) PROVE LocksInv'
  BY <1>2, SyncOK DEF on_order_update
<1>3. ASSUME NEW t \in Trades, NEW s \in TradeStatus, NEW fee \in {NoFee, FeeOf[t]},
             upsert_trade(t, s, fee) \/ PrivateTrade(t, s, fee)
      PROVE  LocksInv'
  <2>1. CASE upsert_trade(t, s, fee)
    BY <1>1, <2>1 DEF upsert_trade
  <2>2. CASE PrivateTrade(t, s, fee)
    <3>1. PICK sign : sign = accumulator_sign(Result(t, s, fee))
      OBVIOUS
    <3>2. apply_private_trade_reservation(OrderOf[t], SizeOf[t], sign) /\ UNCHANGED incremental
      BY <2>2, <3>1 DEF PrivateTrade
    <3>3. OrderOf[t] \in Orders /\ SizeOf[t] \in Nat /\ sign \in {-1, 0, 1}
      BY <3>1, SignIs, PositionAssumption
    <3> QED
      BY <3>2, <3>3, PrivateOK
  <2> QED
    BY <1>3, <2>1, <2>2
<1>4. CASE \E t \in Trades : attribute_restored_trade_fee(t)
  BY <1>1, <1>4 DEF attribute_restored_trade_fee
<1>5. ASSUME NEW o \in Orders, Register(o) PROVE LocksInv'
  <2>1. PICK p : p = [original |-> QuantityOf[o], remaining |-> QuantityOf[o], fee |-> CashFeeOf[o]]
    OBVIOUS
  <2>2. SetPending(o, p) /\ UNCHANGED incremental
    BY <1>5, <2>1 DEF Register
  <2>3. QuantityOf[o] \in Nat /\ CashFeeOf[o] \in Nat /\ (SideOf[o] = "Sell" => CashFeeOf[o] = 0)
    BY PositionAssumption
  <2>4. p \in Pendings /\ p.remaining <= p.original /\ p.fee = CashFeeOf[o]
    BY <2>1, <2>3, SMTT(40) DEF Pendings
  <2>5. PendingOK(o, p)
    BY <2>3, <2>4 DEF PendingOK
  <2> QED
    BY <2>2, <2>5, SetPendingOK
<1>6. ASSUME NEW o \in Orders, remove_pending_order(o) PROVE LocksInv'
  BY <1>6, NoOrderOK, SetPendingOK DEF remove_pending_order
<1>7. CASE \E delta \in Adjustments : adjust_balance(delta) \/ adjust_quantity(delta)
  BY <1>1, <1>7 DEF adjust_balance, adjust_quantity
<1>8. CASE enable_incremental_queries
  <2>1. UNCHANGED pending_orders /\ pending_orders \in Books
    BY <1>8 DEF enable_incremental_queries, LocksInv
  <2>2. locks' = FoldedLocks(pending_orders)
    BY <1>8 DEF enable_incremental_queries, FoldedLocks
  <2>3. locks' = LocksOf(pending_orders)
    BY <2>1, <2>2, EnableLocksExact
  <2> QED
    BY <2>1, <2>3 DEF LocksInv
<1>9. CASE Restart
  BY <1>9 DEF Restart, LocksInv
<1>10. ASSUME NEW rows \in FinalRows, Rebuild(rows) PROVE LocksInv'
  <2>1. incremental' = FALSE
    BY <1>10 DEF Rebuild
  <2> QED
    BY <1>10, <2>1, RebuiltPending DEF LocksInv
<1>11. CASE UNCHANGED vars
  BY <1>1, <1>11 DEF vars
<1> QED
  BY <1>2, <1>3, <1>4, <1>5, <1>6, <1>7, <1>8, <1>9, <1>10, <1>11 DEF Next

LEMMA LocksInvariant == Spec => []LocksInv
BY InitLocks, LocksNext, PTL DEF Spec

-----------------------------------------------------------------------------
(* The queries *)

LEMMA ScanIs ==
    ASSUME trades \in Ledgers
    PROVE  ScanSums = SumsOf(trades) /\ ScanLocks = LocksOf(pending_orders)
<1>1. \A side : Sure(side) = SureIds(trades, side)
  BY DEF Sure, SureIds
<1>2. ScanSums = SumsOf(trades)
  BY <1>1 DEF ScanSums, SumsOf, LiveIds, TotalCash, TotalShares, Cashes, Shares
<1>3. ScanLocks = LocksOf(pending_orders)
  BY DEF ScanLocks, LocksOf, OrdersOf, LockedCash, LockedQuantity
<1> QED
  BY <1>2, <1>3

\* Whatever the client does, the index of the live queries equals a scan of the ledger
\* and of the reservations: transition, reservation, the fee attribution and
\* enable_incremental_queries leave nothing out and count nothing twice.
THEOREM IndexIsExact == Spec => []QueriesAgree
<1>1. SumsInv /\ LocksInv => QueriesAgree
  BY ScanIs DEF SumsInv, LocksInv, QueriesAgree
<1> QED
  BY <1>1, SumsInvariant, LocksInvariant, PTL

\* A caller that sums up cash and shares by the signs of upsert_trade and the deltas of
\* attribute_restored_trade_fee has the balance and the quantity of the ledger.
THEOREM CallersAgree == Spec => []AccumulatorsAgree
<1>1. SumsInv => AccumulatorsAgree
  <2> SUFFICES ASSUME SumsInv PROVE AccumulatorsAgree
    OBVIOUS
  <2>1. Sums = SumsOf(trades)
    BY ScanIs DEF Sums, SumsInv
  <2>2. acc.cash = init_balance + SumsOf(trades).cash
        /\ acc.shares = init_position + SumsOf(trades).quantity
    BY DEF SumsInv, AccOf
  <2> QED
    BY <2>1, <2>2 DEF AccumulatorsAgree, balance, get_quantity
<1> QED
  BY <1>1, SumsInvariant, PTL

LEMMA AcceptsNoFee == ASSUME NEW t PROVE accepts_fee_amounts(t, NoFee)
<1>1. NoFee.usdc = 0 /\ NoFee.shares = 0
  BY DEF NoFee
<1> QED
  BY <1>1 DEF accepts_fee_amounts

LEMMA VolumesNat == ASSUME NEW rows \in Ledgers, NEW role \in {"maker", "taker"}
                    PROVE  VolumeOf(rows)[role] >= 0
<1>1. PICK S, f : S = RoleIds(rows, role) /\ f = Notionals(rows)
  OBVIOUS
<1>2. IsFiniteSet(S) /\ Ints(f, S) /\ DOMAIN rows = Ids /\ \A id \in S : f[id] = Notional(id)
  BY <1>1, NotionalInts
<1>3. S \subseteq Ids
  BY <1>1, <1>2 DEF RoleIds
<1>4. \A id \in S : 0 <= f[id]
  <2>1. \A n \in Nat : 0 <= n
    BY SMTT(40)
  <2> QED
    BY <1>2, <1>3, <2>1, AmountTypes, NoFeeIsFee
<1>5. \A id \in S : Part(f, {}, id) <= Part(f, S, id)
  BY <1>4 DEF Part
<1>6. Ints(f, {})
  BY DEF Ints
<1>7. SumFunctionOnSet(f, {}) <= SumFunctionOnSet(f, S)
  BY <1>2, <1>5, <1>6, SumMono
<1>8. VolumeOf(rows)[role] = SumFunctionOnSet(f, S)
  BY <1>1, VolumeIs
<1>9. 0 <= SumFunctionOnSet(f, S) /\ SumFunctionOnSet(f, S) \in Int
  BY <1>2, <1>7, SumEmpty, SumSplit
<1>10. \A i \in Int : 0 <= i => i >= 0
  BY SMTT(40)
<1> QED
  BY <1>8, <1>9, <1>10

\* from_snapshot accepts the snapshot of every state: no sequence of operations leaves a
\* fee, a volume or a reservation that its checks refuse.
THEOREM EverySnapshotRestores == Spec => []SnapshotRestorable
<1>1. SumsInv /\ LocksInv => SnapshotRestorable
  <2> SUFFICES ASSUME SumsInv, LocksInv PROVE Valid
    BY DEF SnapshotRestorable
  <2>1. trades \in Ledgers /\ RowsOK(trades) /\ volume = VolumeOf(trades)
    BY DEF SumsInv
  <2>2. \A role \in {"maker", "taker"} : volume[role] >= 0
    BY <2>1, VolumesNat
  <2>3. ASSUME NEW id \in Ids
        PROVE  /\ accepts_fee_amounts(Of(id), trades[id].fee)
               /\ ~trades[id].attributed /\ trades[id].status # "Failed" =>
                      trades[id].fee.usdc = 0 /\ trades[id].fee.shares = 0
    <3>1. RowOK(id, trades[id]) /\ Of(id) \in Trades
      BY <2>1, TradeOfId DEF RowsOK
    <3>2. accepts_fee_amounts(Of(id), FeeOf[Of(id)]) /\ accepts_fee_amounts(Of(id), NoFee)
      BY <3>1, PositionAssumption, AcceptsNoFee
    <3>3. NoFee.usdc = 0 /\ NoFee.shares = 0
      BY DEF NoFee
    <3> QED
      BY <3>1, <3>2, <3>3 DEF RowOK
  <2>4. ASSUME NEW o \in Orders
        PROVE  /\ pending_orders[o].remaining \in 0..pending_orders[o].original
               /\ SideOf[o] = "Sell" => pending_orders[o].fee = 0
    <3>1. PendingOK(o, pending_orders[o])
      BY DEF LocksInv
    <3>2. \A m, n \in Nat : m <= n => m \in 0..n
      BY SMTT(40)
    <3> QED
      BY <3>1, <3>2, PendingFields DEF PendingOK
  <2> QED
    BY <2>1, <2>2, <2>3, <2>4 DEF Valid
<1> QED
  BY <1>1, SumsInvariant, LocksInvariant, PTL

\* No fee is larger than its trade: the cash fee of a SELL is paid out of its proceeds,
\* the share fee of a BUY out of the shares it buys.
FeesCovered ==
    \A t \in Trades :
        /\ SideOf[OrderOf[t]] = "Sell" => FeeOf[t].usdc <= SizeOf[t] * Price
        /\ SideOf[OrderOf[t]] = "Buy" => FeeOf[t].shares <= SizeOf[t]

LEMMA TradeDirections ==
    ASSUME FeesCovered, NEW id \in Ids, NEW fee \in {NoFee, FeeOf[Of(id)]}
    PROVE  /\ Side(id) = "Buy" => CashOf(id, fee) <= 0 /\ 0 <= SharesOf(id, fee)
           /\ Side(id) = "Sell" => 0 <= CashOf(id, fee) /\ SharesOf(id, fee) <= 0
           /\ Side(id) \in {"Buy", "Sell"}
<1>1. Of(id) \in Trades /\ OrderOf[Of(id)] \in Orders
  BY TradeOfId
<1>2. SizeOf[Of(id)] \in Nat /\ Price \in Nat /\ SideOf[OrderOf[Of(id)]] \in {"Buy", "Sell"}
  BY <1>1, PositionAssumption
<1>3. PICK m : m = SizeOf[Of(id)] * Price
  OBVIOUS
<1>4. m \in Nat
  BY <1>2, <1>3, SMTT(40)
<1>5. fee \in Fees
  BY <1>1, NoFeeIsFee
<1>6. fee.usdc \in Nat /\ fee.shares \in Nat
  BY <1>5, SMTT(40) DEF Fees
<1>7. NoFee.usdc = 0 /\ NoFee.shares = 0 /\ \A n \in Nat : 0 <= n
  BY SMTT(40) DEF NoFee
<1>8. /\ Side(id) = "Sell" => fee.usdc <= m
      /\ Side(id) = "Buy" => fee.shares <= SizeOf[Of(id)]
  BY <1>1, <1>2, <1>3, <1>4, <1>7 DEF FeesCovered, Side
<1>9. CashOf(id, fee) = (IF Side(id) = "Buy" THEN -m ELSE m) - fee.usdc
  BY <1>3 DEF CashOf
<1>10. SharesOf(id, fee) = IF Side(id) = "Buy" THEN SizeOf[Of(id)] - fee.shares ELSE -SizeOf[Of(id)]
  BY DEF SharesOf
<1>11. PICK x, y, z : x = CashOf(id, fee) /\ y = SharesOf(id, fee) /\ z = Side(id)
  OBVIOUS
<1>12. /\ z = "Buy" => x <= 0 /\ 0 <= y
       /\ z = "Sell" => 0 <= x /\ y <= 0
  BY <1>2, <1>4, <1>6, <1>8, <1>9, <1>10, <1>11, SMTT(40)
<1> QED
  BY <1>2, <1>11, <1>12 DEF Side

\* Leaving out trades that may still fail leaves at least what counts as settled.
LEMMA SettledIsLeast ==
    ASSUME FeesCovered, trades \in Ledgers, RowsOK(trades),
           NEW failed, \A id \in failed : trades[id].status # "Confirmed",
           NEW rest, rest = LiveIds(trades) \ failed
    PROVE  /\ SumFunctionOnSet(Cashes(trades), SureIds(trades, "Buy")) <=
                  SumFunctionOnSet(Cashes(trades), rest)
           /\ SumFunctionOnSet(Shares(trades), SureIds(trades, "Sell")) <=
                  SumFunctionOnSet(Shares(trades), rest)
<1> DEFINE L == LiveIds(trades)
           B == SureIds(trades, "Buy")
           S == SureIds(trades, "Sell")
<1>1. /\ L \subseteq Ids /\ B \subseteq L /\ S \subseteq L /\ rest \subseteq L
      /\ B \subseteq Ids /\ S \subseteq Ids /\ rest \subseteq Ids
  BY DEF LiveIds, SureIds
<1>2. /\ IsFiniteSet(L) /\ Ints(Cashes(trades), B) /\ Ints(Shares(trades), S)
      /\ Ints(Cashes(trades), rest) /\ Ints(Shares(trades), rest)
      /\ \A id \in L : /\ Cashes(trades)[id] = CashOf(id, trades[id].fee)
                       /\ Shares(trades)[id] = SharesOf(id, trades[id].fee)
  BY <1>1, AmountInts
<1>3. \A id \in L : /\ id \in B <=> Side(id) = "Buy" \/ trades[id].status = "Confirmed"
                    /\ id \in S <=> Side(id) = "Sell" \/ trades[id].status = "Confirmed"
                    /\ trades[id].status = "Confirmed" => id \in rest
  BY DEF LiveIds, SureIds
<1> HIDE DEF L, B, S
<1>4. ASSUME NEW id \in L
      PROVE  /\ Part(Cashes(trades), B, id) <= Part(Cashes(trades), rest, id)
             /\ Part(Shares(trades), S, id) <= Part(Shares(trades), rest, id)
  <2>1. id \in Ids /\ trades[id].fee \in {NoFee, FeeOf[Of(id)]}
    BY <1>1 DEF RowsOK, RowOK
  <2>2. /\ Side(id) = "Buy" => CashOf(id, trades[id].fee) <= 0 /\ 0 <= SharesOf(id, trades[id].fee)
        /\ Side(id) = "Sell" => 0 <= CashOf(id, trades[id].fee) /\ SharesOf(id, trades[id].fee) <= 0
        /\ Side(id) \in {"Buy", "Sell"}
    BY <2>1, TradeDirections
  <2>3. PICK x, y : x = CashOf(id, trades[id].fee) /\ y = SharesOf(id, trades[id].fee)
    OBVIOUS
  <2>4. x \in Int /\ y \in Int
    BY <2>1, <2>3, AmountTypes, TradeOfId, NoFeeIsFee
  <2>5. /\ Part(Cashes(trades), B, id) = (IF id \in B THEN x ELSE 0)
        /\ Part(Cashes(trades), rest, id) = (IF id \in rest THEN x ELSE 0)
        /\ Part(Shares(trades), S, id) = (IF id \in S THEN y ELSE 0)
        /\ Part(Shares(trades), rest, id) = (IF id \in rest THEN y ELSE 0)
    BY <1>2, <2>3 DEF Part
  <2>6. \A i \in Int : i <= i
    BY SMTT(40)
  <2>7. 0 \in Int
    BY SMTT(40)
  <2> QED
    BY <1>3, <2>2, <2>3, <2>4, <2>5, <2>6, <2>7
<1>5. SumFunctionOnSet(Cashes(trades), B) <= SumFunctionOnSet(Cashes(trades), rest)
  BY <1>1, <1>2, <1>4, SumMono
<1>6. SumFunctionOnSet(Shares(trades), S) <= SumFunctionOnSet(Shares(trades), rest)
  BY <1>1, <1>2, <1>4, SumMono
<1> QED
  BY <1>5, <1>6 DEF B, S

LEMMA CoveredBy ==
    ASSUME NEW i \in Int, NEW a \in Int, NEW b \in Int, NEW k \in Nat, a <= b,
           NEW v, v = Max({0, i + a - Max({0, k})}), v > 0
    PROVE  i + b >= v + k
<1>1. 0 \in Int /\ k \in Int
  BY SMTT(40)
<1>2. Max({0, k}) = IF 0 >= k THEN 0 ELSE k
  BY <1>1, MaxTwo
<1>3. Max({0, k}) = k
  BY <1>2, SMTT(40)
<1>4. i + a - k \in Int
  BY SMTT(40)
<1>5. Max({0, i + a - k}) = IF 0 >= i + a - k THEN 0 ELSE i + a - k
  BY <1>1, <1>4, MaxTwo
<1>6. v = IF 0 >= i + a - k THEN 0 ELSE i + a - k
  BY <1>3, <1>5
<1> QED
  BY <1>6, SMTT(40)

\* When no fee is larger than its trade, available_cash and available_inventory are
\* covered together with the reservations, whichever unconfirmed trades fail.
THEOREM AvailabilityIsSafe ==
    ASSUME FeesCovered
    PROVE  Spec => []SettlementSafe
<1>1. SumsInv /\ LocksInv => SettlementSafe
  <2> SUFFICES ASSUME SumsInv, LocksInv PROVE SettlementSafe
    OBVIOUS
  <2>1. /\ trades \in Ledgers /\ RowsOK(trades) /\ pending_orders \in Books
        /\ init_balance \in Int /\ init_position \in Int
    BY DEF SumsInv, LocksInv
  <2>2. /\ ScanLocks = LocksOf(pending_orders)
        /\ Sums = SumsOf(trades) /\ Locks = LocksOf(pending_orders)
    BY <2>1, ScanIs DEF Sums, Locks, SumsInv, LocksInv
  <2>3. LocksOf(pending_orders).buy_cash \in Nat /\ LocksOf(pending_orders).sell_quantity \in Nat
    BY <2>1, LocksNat
  <2>4. PICK live : live = {id \in Ids : Live(trades[id].status)}
    OBVIOUS
  <2>5. live = LiveIds(trades)
    BY <2>4 DEF LiveIds
  <2>6. ASSUME NEW failed, failed \subseteq {id \in live : trades[id].status # "Confirmed"}
        PROVE  /\ available_cash > 0 =>
                      init_balance + TotalCash(trades, live \ failed) >=
                          available_cash + ScanLocks.buy_cash
               /\ available_inventory > 0 =>
                      init_position + TotalShares(trades, live \ failed) >=
                          available_inventory + ScanLocks.sell_quantity
    <3>1. PICK rest : rest = live \ failed
      OBVIOUS
    <3>2. /\ SumFunctionOnSet(Cashes(trades), SureIds(trades, "Buy")) <=
                 SumFunctionOnSet(Cashes(trades), rest)
          /\ SumFunctionOnSet(Shares(trades), SureIds(trades, "Sell")) <=
                 SumFunctionOnSet(Shares(trades), rest)
      <4>1. rest = LiveIds(trades) \ failed /\ \A id \in failed : trades[id].status # "Confirmed"
        BY <2>5, <2>6, <3>1
      <4> QED
        BY <2>1, <4>1, SettledIsLeast
    <3>3. PICK a, b, c, d, k, l :
              /\ a = SumFunctionOnSet(Cashes(trades), SureIds(trades, "Buy"))
              /\ b = SumFunctionOnSet(Cashes(trades), rest)
              /\ c = SumFunctionOnSet(Shares(trades), SureIds(trades, "Sell"))
              /\ d = SumFunctionOnSet(Shares(trades), rest)
              /\ k = LocksOf(pending_orders).buy_cash
              /\ l = LocksOf(pending_orders).sell_quantity
      OBVIOUS
    <3>4. a \in Int /\ b \in Int /\ c \in Int /\ d \in Int
      <4>1. rest \subseteq Ids /\ \A side : SureIds(trades, side) \subseteq Ids
        BY <2>4, <3>1 DEF SureIds
      <4> QED
        BY <2>1, <3>3, <4>1, AmountInts, SumSplit
    <3>5. Sums.available_cash = a /\ Sums.available_quantity = c
      BY <2>2, <3>3 DEF SumsOf
    <3>6. /\ available_cash = Max({0, init_balance + a - Max({0, k})})
          /\ available_inventory = Max({0, init_position + c - Max({0, l})})
      BY <2>2, <3>3, <3>5 DEF available_cash, available_inventory
    <3>7. TotalCash(trades, rest) = b /\ TotalShares(trades, rest) = d
      BY <3>3 DEF TotalCash, TotalShares, Cashes, Shares
    <3>8. k \in Nat /\ l \in Nat /\ a <= b /\ c <= d
      BY <2>3, <3>2, <3>3
    <3>9. available_cash > 0 => init_balance + b >= available_cash + k
      BY <2>1, <3>4, <3>6, <3>8, CoveredBy
    <3>10. available_inventory > 0 => init_position + d >= available_inventory + l
      BY <2>1, <3>4, <3>6, <3>8, CoveredBy
    <3> QED
      BY <2>2, <3>1, <3>3, <3>7, <3>9, <3>10
  <2> QED
    BY <2>4, <2>6 DEF SettlementSafe
<1> QED
  BY <1>1, SumsInvariant, LocksInvariant, PTL

-----------------------------------------------------------------------------
(* The reservation of an order and its fills *)

Left(m, f) == IF f <= m THEN m - f ELSE 0

\* How the reservation p of an order with fills f follows a change of its fills.
Follows(p, f, p2, f2) ==
    \/ p2 = p /\ f2 = f
    \/ /\ p2.original = p.original
       /\ \E q \in Nat : /\ f2 = f + q
                         /\ p2.remaining = IF q <= p.remaining THEN p.remaining - q ELSE 0
    \/ /\ p2.original = p.original
       /\ \E q \in Nat : /\ f = f2 + q
                         /\ p2.remaining =
                               IF p.remaining + q <= p.original THEN p.remaining + q ELSE p.original

\* One step of a tracked order: it is locked for what its fills leave, or it was
\* tracked before and its reservation follows the fills.
Tracks ==
    \A o \in tracked' :
        /\ o \in Orders
        /\ \/ pending_orders'[o].remaining = Left(pending_orders'[o].original, Filled(trades', o))
           \/ /\ o \in tracked
              /\ Follows(pending_orders[o], Filled(trades, o),
                         pending_orders'[o], Filled(trades', o))

LEMMA FillsSame ==
    ASSUME NEW rows, NEW next, NEW o,
           \A t \in Trades : OrderOf[t] = o => (Live(next[t].status) <=> Live(rows[t].status))
    PROVE  Filled(next, o) = Filled(rows, o)
<1>1. FillsOf(next, o) = FillsOf(rows, o)
  BY DEF FillsOf
<1> QED
  BY <1>1 DEF Filled

FillsMove(rows, next, o, sign, q) == Filled(next, o) = Filled(rows, o) + sign * q

\* The fills of an order change by the sign of the trade that changes.
LEMMA FillsChange ==
    ASSUME NEW rows \in Ledgers, NEW t \in Trades, NEW new, NEW next, next = [rows EXCEPT ![t] = new],
           NEW sign, sign = Bit(Live(new.status)) - Bit(Live(rows[t].status))
    PROVE  FillsMove(rows, next, OrderOf[t], sign, SizeOf[t])
<1>1. PICK o, S, T : o = OrderOf[t] /\ S = FillsOf(rows, o) /\ T = FillsOf(next, o)
  OBVIOUS
<1>2. next[t] = new /\ \A x \in Trades \ {t} : next[x] = rows[x]
  BY TradesAreIds DEF Ledgers
<1>3. S \subseteq Trades /\ T \subseteq Trades /\ S \ {t} = T \ {t}
  BY <1>1, <1>2 DEF FillsOf
<1>4. t \in S <=> Live(rows[t].status)
  BY <1>1 DEF FillsOf
<1>5. t \in T <=> Live(new.status)
  BY <1>1, <1>2 DEF FillsOf
<1>6. IsFiniteSet(S) /\ Ints(SizeOf, S) /\ IsFiniteSet(T) /\ Ints(SizeOf, T)
  BY <1>3, FillSum
<1>7. Agree(SizeOf, SizeOf, S \ {t})
  BY DEF Agree
<1>8. ChangedAt(SizeOf, S, SizeOf, T, t)
  BY <1>3, <1>6, <1>7, SumChange
<1>9. PICK a, b, q : /\ a = SumFunctionOnSet(SizeOf, S) /\ b = SumFunctionOnSet(SizeOf, T)
                     /\ q = SizeOf[t]
  OBVIOUS
<1>10. a \in Int /\ b = a + (IF Live(new.status) THEN q ELSE 0)
                        - (IF Live(rows[t].status) THEN q ELSE 0)
  BY <1>4, <1>5, <1>8, <1>9 DEF ChangedAt, Part
<1>11. q \in Nat
  BY <1>9, PositionAssumption
<1>12. b = a + sign * q
  BY <1>10, <1>11, SMTT(40) DEF Bit
<1> QED
  BY <1>1, <1>9, <1>12 DEF FillsMove, Filled

\* A report of a trade leaves the fills of the other orders, and those of its own order
\* change by the sign.
LEMMA UpsertFills ==
    ASSUME trades \in Ledgers, NEW t \in Trades, NEW s \in TradeStatus,
           NEW fee \in {NoFee, FeeOf[t]}, upsert_trade_inner(t, s, fee),
           NEW sign, sign = accumulator_sign(Result(t, s, fee))
    PROVE  /\ FillsMove(trades, trades', OrderOf[t], sign, SizeOf[t])
           /\ \A o : o # OrderOf[t] => Filled(trades', o) = Filled(trades, o)
<1>1. t \in Ids /\ fee \in {NoFee, FeeOf[Of(t)]}
  BY TradesAreIds
<1>2. CASE Result(t, s, fee) = "noop"
  <2>1. trades' = trades /\ sign = 0
    BY <1>2 DEF upsert_trade_inner, accumulator_sign
  <2>2. Filled(trades, OrderOf[t]) \in Nat /\ SizeOf[t] \in Nat
    BY FilledNat, PositionAssumption
  <2>3. PICK a, q : a = Filled(trades, OrderOf[t]) /\ q = SizeOf[t]
    OBVIOUS
  <2>4. a = a + sign * q
    BY <2>1, <2>2, <2>3, SMTT(40)
  <2> QED
    BY <2>1, <2>3, <2>4 DEF FillsMove
<1>3. CASE Result(t, s, fee) # "noop"
  <2>1. Upserted(trades, trades', t, s, fee, sign)
    BY <1>1, <1>3, UpsertIs
  <2>2. PICK new : new = Updated(trades[t], s, fee)
    OBVIOUS
  <2>3. /\ trades' = [trades EXCEPT ![t] = new]
        /\ sign = Bit(Live(new.status)) - Bit(Live(trades[t].status))
    BY <2>1, <2>2 DEF Upserted
  <2>4. FillsMove(trades, trades', OrderOf[t], sign, SizeOf[t])
    BY <2>3, FillsChange
  <2>5. ASSUME NEW o, o # OrderOf[t] PROVE Filled(trades', o) = Filled(trades, o)
    <3>1. \A x \in Trades : OrderOf[x] = o => (Live(trades'[x].status) <=> Live(trades[x].status))
      BY <2>3, <2>5, TradesAreIds DEF Ledgers
    <3> QED
      BY <3>1, FillsSame
  <2> QED
    BY <2>4, <2>5
<1> QED
  BY <1>2, <1>3

\* A change of one reservation leaves the others.
OthersKept(o) == \A x \in Orders \ {o} : pending_orders'[x] = pending_orders[x]

LEMMA OtherPending ==
    ASSUME LocksInv, NEW o, NEW p, SetPending(o, p)
    PROVE  OthersKept(o)
BY DEF SetPending, LocksInv, Books, OthersKept

\* Reports that come with an order update.
LEMMA UpdateTracks ==
    ASSUME SumsInv, LocksInv, tracked \subseteq Orders, NEW u \in Updates, on_order_update(u)
    PROVE  Tracks
<1>1. tracked' = IF UNCHANGED <<pending_orders, trades>> THEN tracked ELSE tracked \ {u.order}
  BY DEF on_order_update
<1>2. CASE UNCHANGED pending_orders /\ UNCHANGED trades
  BY <1>1, <1>2 DEF Tracks, Follows
<1>3. CASE ~(UNCHANGED pending_orders /\ UNCHANGED trades)
  <2>1. tracked' = tracked \ {u.order}
    BY <1>1, <1>3
  <2>2. \A o \in Orders \ {u.order} : pending_orders'[o] = pending_orders[o]
    <3>1. (\E p : SetPending(u.order, p)) \/ UNCHANGED locking
      BY SMTT(40) DEF on_order_update, sync_pending_from_update
    <3>2. OthersKept(u.order)
      <4>1. CASE UNCHANGED locking
        BY <4>1 DEF locking, OthersKept
      <4> QED
        BY <3>1, <4>1, OtherPending
    <3> QED
      BY <3>2 DEF OthersKept
  <2>3. ASSUME NEW o \in Orders \ {u.order} PROVE Filled(trades', o) = Filled(trades, o)
    <3>1. CASE u.filled = 0
      <4>1. trades' = trades
        BY <3>1 DEF on_order_update, ledger
      <4> QED
        BY <4>1
    <3>2. CASE u.filled # 0
      <4>1. PICK id : id = IF u.id THEN u.trade ELSE <<u.trade, synthetic_counter + 1>>
        OBVIOUS
      <4>2. /\ u.id \/ Extras < MaxExtra
            /\ upsert_trade_inner(id, from_order_status[u.status], NoFee)
        BY <3>2, <4>1 DEF on_order_update
      <4>3. id \in Ids /\ (u.id => id \in Trades) /\ (~u.id => id \notin Trades)
        BY <3>2, <4>1, <4>2, FillId DEF SumsInv
      <4>4. u.trade \in Trades /\ u.order = OrderOf[u.trade]
            /\ from_order_status[u.status] \in TradeStatus
        BY <3>2, FillIs
      <4>5. CASE u.id
        <5>1. upsert_trade_inner(u.trade, from_order_status[u.status], NoFee)
          BY <4>1, <4>2, <4>5
        <5>2. PICK sign : sign = accumulator_sign(Result(u.trade, from_order_status[u.status], NoFee))
          OBVIOUS
        <5>3. \A x : x # OrderOf[u.trade] => Filled(trades', x) = Filled(trades, x)
          BY <4>4, <5>1, <5>2, UpsertFills DEF SumsInv
        <5> QED
          BY <4>4, <5>3
      <4>6. CASE ~u.id
        <5>1. id \notin Trades
          BY <4>3, <4>6
        <5>2. \E new : trades' = [trades EXCEPT ![id] = new]
          <6>1. CASE Result(id, from_order_status[u.status], NoFee) = "noop"
            <7>1. trades' = trades
              BY <4>2, <6>1 DEF upsert_trade_inner
            <7>2. trades = [trades EXCEPT ![id] = trades[id]]
              BY <4>3 DEF SumsInv, Ledgers
            <7> QED
              BY <7>1, <7>2
          <6>2. CASE Result(id, from_order_status[u.status], NoFee) # "noop"
            BY <4>2, <6>2 DEF upsert_trade_inner
          <6> QED
            BY <6>1, <6>2
        <5>3. \A t \in Trades : trades'[t] = trades[t]
          BY <5>1, <5>2, TradesAreIds DEF SumsInv, Ledgers
        <5> QED
          BY <5>3, FillsSame
      <4> QED
        BY <4>5, <4>6
    <3> QED
      BY <3>1, <3>2
  <2> QED
    BY <2>1, <2>2, <2>3 DEF Tracks, Follows
<1> QED
  BY <1>2, <1>3

\* Reports of the private trade stream: the reservation follows the sign.
LEMMA PrivateTracks ==
    ASSUME SumsInv, LocksInv, tracked \subseteq Orders, NEW t \in Trades, NEW s \in TradeStatus,
           NEW fee \in {NoFee, FeeOf[t]}, PrivateTrade(t, s, fee)
    PROVE  Tracks
<1>1. PICK sign, o, q : /\ sign = accumulator_sign(Result(t, s, fee))
                        /\ o = OrderOf[t] /\ q = SizeOf[t]
  OBVIOUS
<1>2. /\ upsert_trade_inner(t, s, fee) /\ pending_orders[o] # NoOrder
      /\ apply_private_trade_reservation(o, q, sign) /\ tracked' = tracked
  BY <1>1 DEF PrivateTrade
<1>3. /\ FillsMove(trades, trades', OrderOf[t], sign, SizeOf[t])
      /\ \A x : x # OrderOf[t] => Filled(trades', x) = Filled(trades, x)
  BY <1>1, <1>2, UpsertFills DEF SumsInv
<1>4. PICK f, f2 : f = Filled(trades, o) /\ f2 = Filled(trades', o)
  OBVIOUS
<1>5. f2 = f + sign * q
  BY <1>1, <1>3, <1>4 DEF FillsMove
<1>6. o \in Orders /\ q \in Nat /\ f \in Nat /\ f2 \in Nat /\ sign \in {-1, 0, 1}
  BY <1>1, <1>4, FilledNat, SignIs, PositionAssumption
<1>7. PICK p, p2 : p = pending_orders[o] /\ p2 = pending_orders'[o]
  OBVIOUS
<1>8. PendingOK(o, p)
  BY <1>6, <1>7 DEF LocksInv
<1>9. ASSUME OthersKept(o), Follows(p, f, p2, f2) PROVE Tracks
  <2>1. \A x \in tracked : x # o => Follows(pending_orders[x], Filled(trades, x),
                                             pending_orders'[x], Filled(trades', x))
    BY <1>1, <1>3, <1>9 DEF OthersKept, Follows
  <2>2. Follows(pending_orders[o], Filled(trades, o), pending_orders'[o], Filled(trades', o))
    BY <1>4, <1>7, <1>9
  <2> QED
    BY <1>2, <2>1, <2>2 DEF Tracks
<1>10. CASE sign = 0
  <2>1. UNCHANGED locking
    BY <1>2, <1>10 DEF apply_private_trade_reservation
  <2>2. f2 = f
    BY <1>5, <1>6, <1>10, SMTT(40)
  <2>3. Follows(p, f, p2, f2)
    BY <1>7, <2>1, <2>2 DEF locking, Follows
  <2>4. OthersKept(o)
    BY <2>1 DEF locking, OthersKept
  <2> QED
    BY <1>9, <2>3, <2>4
<1>11. CASE sign # 0
  <2>1. PICK n : n = Remaining(p, q, sign)
    OBVIOUS
  <2>2. SetPending(o, [p EXCEPT !.remaining = n])
    BY <1>2, <1>7, <1>11, <2>1 DEF apply_private_trade_reservation
  <2>8. OthersKept(o)
    BY <2>2, OtherPending
  <2>3. n \in Nat /\ n <= p.original
    BY <1>6, <1>8, <2>1, Released DEF Remaining
  <2>4. p2 = [p EXCEPT !.remaining = n]
    BY <1>6, <1>7, <2>2 DEF SetPending, LocksInv, Books
  <2>5. p2.remaining = n /\ p2.original = p.original
    <3>1. /\ n <= p.original => PendingOK(o, [p EXCEPT !.remaining = n])
          /\ [p EXCEPT !.remaining = n].remaining = n
          /\ [p EXCEPT !.remaining = n].original = p.original
      BY <1>8, <2>3, RemainingOK
    <3> QED
      BY <2>4, <3>1
  <2>6. CASE sign = 1
    <3>1. n = IF q <= p.remaining THEN p.remaining - q ELSE 0
      BY <1>6, <1>8, <2>1, <2>6, Released DEF Remaining
    <3>2. f2 = f + q
      BY <1>5, <1>6, <2>6, SMTT(40)
    <3>3. Follows(p, f, p2, f2)
      BY <1>6, <2>5, <3>1, <3>2 DEF Follows
    <3> QED
      BY <1>9, <2>8, <3>3
  <2>7. CASE sign = -1
    <3>1. n = IF p.remaining + q <= p.original THEN p.remaining + q ELSE p.original
      <4>1. -1 # 1
        BY SMTT(40)
      <4> QED
        BY <1>6, <1>8, <2>1, <2>7, <4>1, Released DEF Remaining
    <3>2. f = f2 + q
      BY <1>5, <1>6, <2>7, SMTT(40)
    <3>3. Follows(p, f, p2, f2)
      BY <1>6, <2>5, <3>1, <3>2 DEF Follows
    <3> QED
      BY <1>9, <2>8, <3>3
  <2> QED
    BY <1>6, <1>11, <2>6, <2>7
<1> QED
  BY <1>10, <1>11

LEMMA TracksNext ==
    ASSUME SumsInv, LocksInv, tracked \subseteq Orders, [Next]_vars
    PROVE  Tracks
<1>1. ASSUME UNCHANGED pending_orders, UNCHANGED trades, UNCHANGED tracked PROVE Tracks
  BY <1>1 DEF Tracks, Follows
<1>2. ASSUME NEW u \in Updates, on_order_update(u) PROVE Tracks
  BY <1>2, UpdateTracks
<1>3. ASSUME NEW t \in Trades, NEW s \in TradeStatus, NEW fee \in {NoFee, FeeOf[t]},
             upsert_trade(t, s, fee)
      PROVE  Tracks
  <2>1. PICK sign : sign = accumulator_sign(Result(t, s, fee))
    OBVIOUS
  <2>2. /\ upsert_trade_inner(t, s, fee) /\ UNCHANGED locking
        /\ tracked' = IF sign = 0 THEN tracked ELSE tracked \ {OrderOf[t]}
    BY <1>3, <2>1 DEF upsert_trade
  <2>3. /\ FillsMove(trades, trades', OrderOf[t], sign, SizeOf[t])
        /\ \A x : x # OrderOf[t] => Filled(trades', x) = Filled(trades, x)
    BY <2>1, <2>2, UpsertFills DEF SumsInv
  <2>4. sign = 0 => Filled(trades', OrderOf[t]) = Filled(trades, OrderOf[t])
    <3>1. PICK f, f2, q : /\ f = Filled(trades, OrderOf[t]) /\ f2 = Filled(trades', OrderOf[t])
                          /\ q = SizeOf[t]
      OBVIOUS
    <3>2. f2 = f + sign * q /\ f \in Nat /\ q \in Nat
      BY <2>3, <3>1, FilledNat, PositionAssumption DEF FillsMove
    <3>3. sign = 0 => f2 = f
      BY <3>2, SMTT(40)
    <3> QED
      BY <3>1, <3>3
  <2> QED
    BY <2>2, <2>3, <2>4 DEF Tracks, Follows, locking
<1>4. ASSUME NEW t \in Trades, NEW s \in TradeStatus, NEW fee \in {NoFee, FeeOf[t]},
             PrivateTrade(t, s, fee)
      PROVE  Tracks
  BY <1>4, PrivateTracks
<1>5. ASSUME NEW t \in Trades, attribute_restored_trade_fee(t) PROVE Tracks
  <2>1. /\ trades' = [trades EXCEPT ![t].fee = FeeOf[t], ![t].attributed = TRUE]
        /\ UNCHANGED locking /\ UNCHANGED tracked
    BY <1>5 DEF attribute_restored_trade_fee
  <2>2. trades \in [Ids -> Rows]
    BY DEF SumsInv, Ledgers
  <2>3. \A x \in Trades : trades'[x].status = trades[x].status
    BY <2>1, <2>2, TradesAreIds, SMTT(40) DEF Rows
  <2>4. \A o : Filled(trades', o) = Filled(trades, o)
    BY <2>3, FillsSame
  <2> QED
    BY <2>1, <2>4 DEF Tracks, Follows, locking
<1>6. ASSUME NEW o \in Orders, Register(o) PROVE Tracks
  <2>1. PICK p : p = [original |-> QuantityOf[o], remaining |-> QuantityOf[o], fee |-> CashFeeOf[o]]
    OBVIOUS
  <2>2. /\ SetPending(o, p) /\ UNCHANGED ledger
        /\ tracked' = IF Unlocked(o) THEN tracked \cup {o} ELSE tracked \ {o}
    BY <1>6, <2>1 DEF Register
  <2>3. trades' = trades
    BY <2>2 DEF ledger
  <2>4. pending_orders'[o] = p /\ p.remaining = QuantityOf[o] /\ p.original = QuantityOf[o]
    BY <2>1, <2>2 DEF SetPending, LocksInv, Books
  <2>5. Unlocked(o) => pending_orders'[o].remaining =
                           Left(pending_orders'[o].original, Filled(trades', o))
    <3> SUFFICES ASSUME Unlocked(o)
                 PROVE  pending_orders'[o].remaining =
                           Left(pending_orders'[o].original, Filled(trades', o))
      OBVIOUS
    <3>1. FillsOf(trades, o) = {}
      BY DEF Unlocked, FillsOf
    <3>2. Filled(trades', o) = 0
      BY <2>3, <3>1, SumEmpty DEF Filled
    <3>3. QuantityOf[o] \in Nat
      BY PositionAssumption
    <3>4. \A n \in Nat : 0 <= n /\ n - 0 = n
      BY SMTT(40)
    <3>5. Left(QuantityOf[o], 0) = QuantityOf[o]
      BY <3>3, <3>4 DEF Left
    <3> QED
      BY <2>4, <3>2, <3>5
  <2>6. \A x \in Orders : x # o => pending_orders'[x] = pending_orders[x]
    <3>1. OthersKept(o)
      BY <2>2, OtherPending
    <3> QED
      BY <3>1 DEF OthersKept
  <2> QED
    BY <2>2, <2>3, <2>5, <2>6 DEF Tracks, Follows
<1>7. ASSUME NEW o \in Orders, remove_pending_order(o) PROVE Tracks
  <2>1. /\ SetPending(o, NoOrder) /\ UNCHANGED ledger /\ tracked' = tracked \ {o}
    BY <1>7 DEF remove_pending_order
  <2>2. \A x \in Orders : x # o => pending_orders'[x] = pending_orders[x]
    <3>1. OthersKept(o)
      BY <2>1, OtherPending
    <3> QED
      BY <3>1 DEF OthersKept
  <2> QED
    BY <2>1, <2>2 DEF Tracks, Follows, ledger
<1>8. CASE \E delta \in Adjustments : adjust_balance(delta) \/ adjust_quantity(delta)
  BY <1>1, <1>8 DEF adjust_balance, adjust_quantity, locking
<1>9. CASE enable_incremental_queries \/ Restart
  BY <1>1, <1>9 DEF enable_incremental_queries, Restart
<1>10. ASSUME NEW rows \in FinalRows, Rebuild(rows) PROVE Tracks
  <2>1. trades' = Extend(rows) /\ tracked' = {o \in Orders : pending_orders[o] # NoOrder}
    BY <1>10 DEF Rebuild
  <2>2. \A t \in Trades : trades'[t] = rows[t]
    BY <2>1, TradesAreIds DEF Extend
  <2>3. \A o : Filled(trades', o) = Filled(rows, o)
    BY <2>2, FillsSame
  <2>4. \A o \in Orders :
            pending_orders'[o].remaining = Left(pending_orders'[o].original, Filled(trades', o))
    <3>1. \A o \in Orders :
              /\ pending_orders'[o].original = pending_orders[o].original
              /\ pending_orders'[o].remaining =
                    IF Filled(rows, o) <= pending_orders[o].original
                    THEN pending_orders[o].original - Filled(rows, o) ELSE 0
      BY <1>10, RebuiltPending
    <3>2. ASSUME NEW o \in Orders
          PROVE  pending_orders'[o].remaining = Left(pending_orders'[o].original, Filled(trades', o))
      <4>1. PICK m, f : m = pending_orders[o].original /\ f = Filled(rows, o)
        OBVIOUS
      <4>2. pending_orders'[o].original = m /\ Filled(trades', o) = f
            /\ pending_orders'[o].remaining = IF f <= m THEN m - f ELSE 0
        BY <2>3, <3>1, <4>1
      <4>3. pending_orders'[o].remaining = Left(m, f)
        BY <4>2 DEF Left
      <4> QED
        BY <4>2, <4>3
    <3> QED
      BY <3>2
  <2> QED
    BY <2>1, <2>4 DEF Tracks
<1>11. CASE UNCHANGED vars
  BY <1>1, <1>11 DEF vars, locking, ledger
<1> QED
  BY <1>2, <1>3, <1>4, <1>5, <1>6, <1>7, <1>8, <1>9, <1>10, <1>11 DEF Next

\* The reservation of an order never falls below what its live fills leave of it.
ReservationCovers ==
    \A o \in tracked :
        pending_orders[o].original <= pending_orders[o].remaining + Filled(trades, o)

\* No order is filled beyond the quantity its reservation started from.
NoOverfill == \A o \in tracked : Filled(trades, o) <= pending_orders[o].original

LEMMA CoversFollows ==
    ASSUME NEW p \in Pendings, NEW f \in Nat, NEW p2 \in Pendings, NEW f2 \in Nat,
           Follows(p, f, p2, f2), p.original <= p.remaining + f
    PROVE  p2.original <= p2.remaining + f2
<1>1. /\ p.original \in Nat /\ p.remaining \in Nat /\ p2.original \in Nat /\ p2.remaining \in Nat
  BY PendingFields
<1>2. PICK m, r, m2, r2 : /\ m = p.original /\ r = p.remaining
                          /\ m2 = p2.original /\ r2 = p2.remaining
  OBVIOUS
<1>3. \/ m2 = m /\ r2 = r /\ f2 = f
      \/ m2 = m /\ \E q \in Nat : f2 = f + q /\ r2 = IF q <= r THEN r - q ELSE 0
      \/ m2 = m /\ \E q \in Nat : f = f2 + q /\ r2 = IF r + q <= m THEN r + q ELSE m
  BY <1>2 DEF Follows
<1>4. m2 <= r2 + f2
  BY <1>1, <1>2, <1>3, SMTT(40)
<1> QED
  BY <1>2, <1>4

LEMMA ExactFollows ==
    ASSUME NEW p \in Pendings, NEW f \in Nat, NEW p2 \in Pendings, NEW f2 \in Nat,
           Follows(p, f, p2, f2), p.remaining = Left(p.original, f),
           f <= p.original, f2 <= p2.original
    PROVE  p2.remaining = Left(p2.original, f2)
<1>1. /\ p.original \in Nat /\ p.remaining \in Nat /\ p2.original \in Nat /\ p2.remaining \in Nat
  BY PendingFields
<1>2. PICK m, r, m2, r2 : /\ m = p.original /\ r = p.remaining
                          /\ m2 = p2.original /\ r2 = p2.remaining
  OBVIOUS
<1>3. \/ m2 = m /\ r2 = r /\ f2 = f
      \/ m2 = m /\ \E q \in Nat : f2 = f + q /\ r2 = IF q <= r THEN r - q ELSE 0
      \/ m2 = m /\ \E q \in Nat : f = f2 + q /\ r2 = IF r + q <= m THEN r + q ELSE m
  BY <1>2 DEF Follows
<1>4. r = m - f
  BY <1>2 DEF Left
<1>5. r2 = m2 - f2
  BY <1>1, <1>2, <1>3, <1>4, SMTT(40)
<1> QED
  BY <1>2, <1>5 DEF Left

LEMMA LeftCovers ==
    ASSUME NEW m \in Nat, NEW f \in Nat PROVE m <= Left(m, f) + f
BY SMTT(40) DEF Left

\* A tracked order is an order, and its reservation covers what is left of it.
CoversInv == tracked \subseteq Orders /\ ReservationCovers
ExactInv == tracked \subseteq Orders /\
    \A o \in tracked : pending_orders[o].remaining = Left(pending_orders[o].original, Filled(trades, o))

LEMMA CoversNext ==
    ASSUME SumsInv, LocksInv, LocksInv', CoversInv, [Next]_vars
    PROVE  CoversInv'
<1>1. Tracks
  BY TracksNext DEF CoversInv
<1>2. tracked' \subseteq Orders
  BY <1>1 DEF Tracks
<1>3. ASSUME NEW o \in tracked'
      PROVE  pending_orders'[o].original <= pending_orders'[o].remaining + Filled(trades', o)
  <2>1. PICK p, f, p2, f2 : /\ p = pending_orders[o] /\ f = Filled(trades, o)
                            /\ p2 = pending_orders'[o] /\ f2 = Filled(trades', o)
    OBVIOUS
  <2>2. p \in Pendings /\ f \in Nat /\ p2 \in Pendings /\ f2 \in Nat
    BY <1>2, <2>1, FilledNat DEF LocksInv, Books
  <2>3. \/ p2.remaining = Left(p2.original, f2)
        \/ o \in tracked /\ Follows(p, f, p2, f2)
    BY <1>1, <2>1 DEF Tracks
  <2>4. CASE p2.remaining = Left(p2.original, f2)
    <3>1. p2.original <= p2.remaining + f2
      BY <2>2, <2>4, LeftCovers, PendingFields
    <3> QED
      BY <2>1, <3>1
  <2>5. CASE o \in tracked /\ Follows(p, f, p2, f2)
    <3>1. p.original <= p.remaining + f
      BY <2>1, <2>5 DEF CoversInv, ReservationCovers
    <3>2. p2.original <= p2.remaining + f2
      BY <2>2, <2>5, <3>1, CoversFollows
    <3> QED
      BY <2>1, <3>2
  <2> QED
    BY <2>3, <2>4, <2>5
<1> QED
  BY <1>2, <1>3 DEF CoversInv, ReservationCovers

LEMMA ExactNext ==
    ASSUME SumsInv, LocksInv, LocksInv', ExactInv, NoOverfill, NoOverfill', [Next]_vars
    PROVE  ExactInv'
<1>1. Tracks
  BY TracksNext DEF ExactInv
<1>2. tracked' \subseteq Orders
  BY <1>1 DEF Tracks
<1>3. ASSUME NEW o \in tracked'
      PROVE  pending_orders'[o].remaining = Left(pending_orders'[o].original, Filled(trades', o))
  <2>1. PICK p, f, p2, f2 : /\ p = pending_orders[o] /\ f = Filled(trades, o)
                            /\ p2 = pending_orders'[o] /\ f2 = Filled(trades', o)
    OBVIOUS
  <2>2. p \in Pendings /\ f \in Nat /\ p2 \in Pendings /\ f2 \in Nat
    BY <1>2, <2>1, FilledNat DEF LocksInv, Books
  <2>3. \/ p2.remaining = Left(p2.original, f2)
        \/ o \in tracked /\ Follows(p, f, p2, f2)
    BY <1>1, <2>1 DEF Tracks
  <2>4. ASSUME o \in tracked, Follows(p, f, p2, f2) PROVE p2.remaining = Left(p2.original, f2)
    <3>1. p.remaining = Left(p.original, f) /\ f <= p.original /\ f2 <= p2.original
      BY <2>1, <2>4 DEF ExactInv, NoOverfill
    <3> QED
      BY <2>2, <2>4, <3>1, ExactFollows
  <2>5. p2.remaining = Left(p2.original, f2)
    BY <2>3, <2>4
  <2> QED
    BY <2>1, <2>5
<1> QED
  BY <1>2, <1>3 DEF ExactInv

\* While private trades move it, the reservation of an order is never less than what its
\* live fills leave, whatever is reported, repeated, failed or confirmed late.
THEOREM ReservationsCover == Spec => []ReservationCovers
<1>1. Init => CoversInv
  BY DEF Init, CoversInv, ReservationCovers
<1>2. SumsInv /\ LocksInv /\ LocksInv' /\ CoversInv /\ [Next]_vars => CoversInv'
  BY CoversNext
<1>3. CoversInv => ReservationCovers
  BY DEF CoversInv
<1> QED
  BY <1>1, <1>2, <1>3, SumsInvariant, LocksInvariant, PTL DEF Spec

\* And it is exactly that as long as no order is filled beyond the quantity its
\* reservation started from: Remaining cuts at zero, so a fill beyond it is not
\* remembered when it is reversed.
THEOREM ReservationsFollow == Spec /\ []NoOverfill => []ReservationTracks
<1>1. Init => ExactInv
  BY DEF Init, ExactInv
<1>2. SumsInv /\ LocksInv /\ LocksInv' /\ ExactInv /\ NoOverfill /\ NoOverfill' /\ [Next]_vars
          => ExactInv'
  BY ExactNext
<1>3. LocksInv /\ ExactInv => ReservationTracks
  <2> SUFFICES ASSUME LocksInv, ExactInv, NEW o \in tracked
               PROVE  LET fills == {t \in Trades : OrderOf[t] = o /\ Live(trades[t].status)}
                      IN  pending_orders[o].remaining =
                              Max({0, pending_orders[o].original - SumFunctionOnSet(SizeOf, fills)})
    BY DEF ReservationTracks
  <2>1. PICK m, f : m = pending_orders[o].original /\ f = Filled(trades, o)
    OBVIOUS
  <2>2. pending_orders[o] \in Pendings /\ pending_orders[o].remaining = Left(m, f)
    BY <2>1 DEF LocksInv, Books, ExactInv
  <2>3. m \in Nat /\ f \in Nat
    BY <2>1, <2>2, PendingFields, FilledNat
  <2>4. m - f \in Int /\ 0 \in Int
    BY <2>3, SMTT(40)
  <2>5. Max({0, m - f}) = IF 0 >= m - f THEN 0 ELSE m - f
    BY <2>4, MaxTwo
  <2>6. Left(m, f) = IF 0 >= m - f THEN 0 ELSE m - f
    BY <2>3, SMTT(40) DEF Left
  <2> QED
    BY <2>1, <2>2, <2>5, <2>6 DEF Filled, FillsOf
<1> QED
  BY <1>1, <1>2, <1>3, SumsInvariant, LocksInvariant, PTL DEF Spec

=============================================================================
