--------------------------- MODULE TryQueueProofs ---------------------------
(***************************************************************************)
(* Proofs about TryQueue for any number of threads, slots and pushes.      *)
(*                                                                         *)
(* The argument follows one slot.  Visit(tail, i) is the turn in which     *)
(* slot i was last reserved by a producer, Visit(head, i) the turn in      *)
(* which it was last reserved by a consumer (-1: never).  The cursors stay *)
(* within one turn of each other, so the first is the second (the slot was *)
(* emptied) or the second plus one (it holds a value), and in each case    *)
(* only two stamps are possible.  A thread inside the slot, or about to    *)
(* win its cursor with a stamp it read earlier, pins one of the two.       *)
(***************************************************************************)
EXTENDS TryQueue, TLAPS

\* Leaves are first order unless they cite SMTT (arithmetic, sequences) or PTL.
USE ZenonT(40)

Cursors == [turn : Nat, idx : Slots]

\* Position a does not come after position b.
UpTo(a, b) == a.turn < b.turn \/ (a.turn = b.turn /\ a.idx <= b.idx)

\* The turn of the last position of slot i before cursor cur.
Visit(cur, i) == IF i < cur.idx THEN cur.turn ELSE cur.turn - 1

\* The words and the tickets of a turn start here.
Base(t) == t * Lap
Row(t) == t * Capacity

TypeOK ==
    /\ head \in Cursors /\ tail \in Cursors
    /\ stamp \in [Slots -> Int] /\ value \in [Slots -> {Torn} \cup (Producers \X Nat)]
    /\ ppc \in [Producers -> {"idle", "full", "stamp", "classify", "cas", "write", "publish"}]
    /\ ptail \in [Producers -> Cursors]
    /\ cpc \in [Consumers -> {"idle", "stamp", "cas", "read", "release"}]
    /\ chead \in [Consumers -> Cursors]
    /\ got \in [Consumers -> {Nothing, Torn} \cup (Producers \X Nat)]
    /\ opc \in [Observers -> {"idle", "tail"}]
    /\ ohead \in [Observers -> Cursors]
    /\ pushes \in [Producers -> Nat]
    /\ order \in Seq(Producers \X Nat)
    /\ popped \in Nat
    /\ wasEmpty \in [Observers -> BOOLEAN]

\* The cursors count the reservations, and the tail is at most one lap ahead.
Window ==
    /\ Ticket(tail) = Len(order) + 1
    /\ Ticket(head) = popped + 1
    /\ \/ tail.turn = head.turn /\ head.idx <= tail.idx
       \/ tail.turn = head.turn + 1 /\ tail.idx <= head.idx

\* A slot that holds a value is being written, or published with the value of its
\* reservation; an emptied slot is being read, or vacant for the next turn.
SlotStates ==
    \A i \in Slots :
       LET t == Visit(tail, i) IN
       \/ /\ t = Visit(head, i) + 1
          /\ \/ stamp[i] = Base(t) + i
             \/ /\ stamp[i] = Base(t) + i + 1
                /\ value[i] = order[Row(t) + i + 1]
       \/ /\ t = Visit(head, i)
          /\ stamp[i] \in {Base(t) + i + 1, Base(t) + i + Lap}

\* A producer that has loaded the tail holds a position the tail has not fallen
\* behind; while it is still the tail, a stamp it has checked is still there.
Aiming ==
    \A p \in Producers :
       /\ ppc[p] \in {"stamp", "classify", "cas"} => UpTo(ptail[p], tail)
       /\ ppc[p] = "cas" /\ ptail[p] = tail => stamp[tail.idx] = Word(tail)

\* A producer inside a slot is the one that reserved it last, and no consumer
\* has reserved it since.
Filling ==
    \A p \in Producers : Writing(p) =>
       LET i == ptail[p].idx IN
       /\ ptail[p].turn = Visit(tail, i) /\ ptail[p].turn = Visit(head, i) + 1
       /\ stamp[i] = Word(ptail[p])
       /\ order[Ticket(ptail[p])] = <<p, pushes[p]>>
       /\ ppc[p] = "publish" => value[i] = <<p, pushes[p]>>

\* The same for a consumer that has loaded the head.
Seeking ==
    \A c \in Consumers :
       /\ cpc[c] \in {"stamp", "cas"} => UpTo(chead[c], head)
       /\ cpc[c] = "cas" /\ chead[c] = head => stamp[head.idx] = Word(head) + 1

\* The same for a consumer inside a slot; until it moves the value out, the slot
\* holds the value of its ticket.
Emptying ==
    \A c \in Consumers :
       /\ Reading(c) =>
             LET i == chead[c].idx IN
             /\ chead[c].turn = Visit(tail, i) /\ chead[c].turn = Visit(head, i)
             /\ stamp[i] = Word(chead[c]) + 1
             /\ cpc[c] = "read" => value[i] = order[Ticket(chead[c])]
       /\ IF cpc[c] = "release" THEN got[c] \in Producers \X Nat ELSE got[c] = Nothing

\* A caller of len() that finds the tail where it loaded the head met an empty queue.
Watching ==
    \A o \in Observers : opc[o] = "tail" =>
       /\ UpTo(ohead[o], tail)
       /\ ohead[o] = tail => wasEmpty[o]

IInv ==
    /\ TypeOK /\ Window /\ SlotStates
    /\ Aiming /\ Filling /\ Seeking /\ Emptying /\ Watching
    /\ ExclusiveSlot

-----------------------------------------------------------------------------
(* Arithmetic of words, tickets and cursors *)

\* Words of different turns are a lap apart, so no word is one above another of
\* its slot, and a word determines its turn and its slot.
LEMMA BaseFacts ==
    /\ Lap \in Nat /\ Capacity \in Nat /\ Capacity > 0 /\ Lap > Capacity
    /\ \A u \in Int : Base(u) \in Int /\ Base(u + 1) = Base(u) + Lap /\ Base(u - 1) = Base(u) - Lap
    /\ \A u, v \in Int : u < v => Base(u) + Lap <= Base(v)
<1>1. Lap \in Nat /\ Capacity \in Nat /\ Capacity > 0 /\ Lap > Capacity
  BY CapacityAssumption, SMTT(40)
<1>2. \A u \in Int : u * Lap \in Int /\ (u + 1) * Lap = u * Lap + Lap /\ (u - 1) * Lap = u * Lap - Lap
  BY <1>1, SMTT(40)
<1>3. ASSUME NEW u \in Int, NEW v \in Int, u < v PROVE u * Lap + Lap <= v * Lap
  <2>1. PICK d \in Nat : v = u + 1 + d
    <3>1. v - u - 1 \in Nat /\ v = u + 1 + (v - u - 1)
      BY <1>3, SMTT(40)
    <3> QED
      BY <3>1
  <2>2. v * Lap = u * Lap + Lap + d * Lap
    BY <1>1, <2>1, SMTT(40)
  <2>3. d * Lap \in Nat
    BY <1>1, SMTT(40)
  <2> QED
    BY <1>1, <1>2, <2>2, <2>3, SMTT(40)
<1> QED
  BY <1>1, <1>2, <1>3 DEF Base

LEMMA BaseOf ==
    ASSUME NEW u \in Int
    PROVE  /\ Base(u) \in Int /\ Base(u - 1) \in Int /\ Lap \in Int
           /\ Base(u - 1) = Base(u) - Lap /\ Base(u + 1) = Base(u) + Lap
BY BaseFacts, SMTT(40)

\* A word determines its turn, also up to the published mark.
LEMMA WordsApart ==
    ASSUME NEW u \in Int, NEW v \in Int, NEW i \in Slots, NEW j \in Slots
    PROVE  /\ Base(u) + i = Base(v) + j => u = v /\ i = j
           /\ Base(u) + i # Base(v) + i + 1
<1>1. /\ i \in Int /\ 0 <= i /\ i < Capacity /\ j \in Int /\ 0 <= j /\ j < Capacity
  BY BaseFacts, SMTT(40) DEF Slots
<1>2. /\ Base(u) \in Int /\ Base(v) \in Int /\ Lap \in Nat /\ Capacity \in Nat /\ Lap > Capacity /\ Capacity > 0
      /\ u < v => Base(u) + Lap <= Base(v)
      /\ v < u => Base(v) + Lap <= Base(u)
  BY BaseFacts
<1>3. u < v \/ v < u \/ u = v
  BY SMTT(40)
<1> QED
  BY <1>1, <1>2, <1>3, SMTT(40)

\* Tickets of a turn.
LEMMA RowFacts ==
    \A u \in Int : Row(u) \in Int /\ Row(u + 1) = Row(u) + Capacity /\ Row(u - 1) = Row(u) - Capacity
BY CapacityAssumption, SMTT(40) DEF Row

LEMMA CursorFacts ==
    ASSUME NEW cur \in Cursors
    PROVE  /\ cur.turn \in Nat /\ cur.turn \in Int /\ cur.idx \in Slots
           /\ cur.idx \in Nat /\ cur.idx < Capacity /\ Capacity \in Nat
BY BaseFacts, SMTT(40) DEF Cursors, Slots

\* What next() does to a cursor: its own slot is visited in its own turn.
LEMMA NextCursor ==
    ASSUME NEW cur \in Cursors
    PROVE  /\ next(cur) \in Cursors
           /\ Ticket(next(cur)) = Ticket(cur) + 1
           /\ \A i \in Slots : Visit(next(cur), i) = IF i = cur.idx THEN cur.turn ELSE Visit(cur, i)
           /\ \A a \in Cursors : UpTo(a, cur) => UpTo(a, next(cur)) /\ a # next(cur)
<1>1. Capacity \in Nat /\ Capacity > 0
  BY BaseFacts
<1>2. cur.turn \in Nat /\ cur.idx \in Nat /\ cur.idx < Capacity
  BY <1>1, SMTT(40) DEF Cursors, Slots
<1>3. CASE cur.idx + 1 < Capacity
  <2>1. next(cur) = [turn |-> cur.turn, idx |-> cur.idx + 1]
    BY <1>3 DEF next, Cursors
  <2> QED
    BY <1>1, <1>2, <1>3, <2>1, RowFacts, SMTT(40) DEF Cursors, Slots, Visit, UpTo, Ticket, Row
<1>4. CASE ~(cur.idx + 1 < Capacity)
  <2>1. next(cur) = [turn |-> cur.turn + 1, idx |-> 0]
    BY <1>4 DEF next
  <2>2. cur.idx = Capacity - 1
    BY <1>1, <1>2, <1>4, SMTT(40)
  <2>3. Ticket(next(cur)) = Ticket(cur) + 1
    BY <1>1, <1>2, <2>1, <2>2, RowFacts, SMTT(40) DEF Ticket, Row
  <2> QED
    BY <1>1, <1>2, <2>1, <2>2, <2>3, SMTT(40) DEF Cursors, Slots, Visit, UpTo
<1> QED
  BY <1>3, <1>4

-----------------------------------------------------------------------------
(* The initial states, and the steps that touch neither a cursor nor a slot *)

LEMMA InitIInv == Init => IInv
<1> SUFFICES ASSUME Init PROVE IInv
  OBVIOUS
<1>0. Capacity \in Nat /\ Capacity > 0 /\ Lap \in Nat /\ Base(-1) + Lap = 0 /\ Base(-1) \in Int
  BY BaseFacts, SMTT(40) DEF Base
<1>1. Origin \in Cursors /\ Origin.turn = 0 /\ Origin.idx = 0
  BY <1>0, SMTT(40) DEF Origin, Cursors, Slots
<1>2. TypeOK
  BY <1>0, <1>1, SMTT(40) DEF Init, TypeOK, Slots
<1>3. Window
  BY <1>0, <1>1, SMTT(40) DEF Init, Window, Ticket
<1>4. SlotStates
  <2> SUFFICES ASSUME NEW i \in Slots
               PROVE  Visit(tail, i) = Visit(head, i) /\ stamp[i] = Base(Visit(tail, i)) + i + Lap
    BY DEF SlotStates
  <2> QED
    BY <1>0, <1>1, SMTT(40) DEF Init, Visit, Slots
<1>5. Aiming /\ Filling /\ Seeking /\ Emptying /\ Watching /\ ExclusiveSlot
  BY DEF Init, Aiming, Filling, Seeking, Emptying, Watching, ExclusiveSlot, Writing, Reading
<1> QED
  BY <1>2, <1>3, <1>4, <1>5 DEF IInv

\* A step of a producer outside a slot that changes only its own locals.
LEMMA PushLocal ==
    ASSUME IInv, NEW p \in Producers, ppc[p] \notin {"write", "publish"},
           NEW pc \in {"idle", "full", "stamp", "classify", "cas"}, NEW t \in Cursors,
           ppc' = [ppc EXCEPT ![p] = pc], ptail' = [ptail EXCEPT ![p] = t],
           UNCHANGED <<shared, pushes, order, cvars, ovars>>,
           pc \in {"stamp", "classify", "cas"} => UpTo(t, tail),
           pc = "cas" => stamp[t.idx] = Word(t)
    PROVE  IInv'
<1>t. /\ ppc \in [Producers -> {"idle", "full", "stamp", "classify", "cas", "write", "publish"}]
      /\ ptail \in [Producers -> Cursors]
  BY DEF IInv, TypeOK
<1>u. UNCHANGED <<head, tail, stamp, value, pushes, order, cpc, chead, got, popped, opc, ohead, wasEmpty>>
  BY DEF shared, cvars, ovars
<1>1. /\ ppc'[p] = pc /\ ptail'[p] = t
      /\ \A q \in Producers : q # p => ppc'[q] = ppc[q] /\ ptail'[q] = ptail[q]
  BY <1>t
<1>2. \A q \in Producers : Writing(q)' => Writing(q) /\ ppc'[q] = ppc[q] /\ ptail'[q] = ptail[q]
  BY <1>1 DEF Writing
<1>3. TypeOK'
  BY <1>u DEF IInv, TypeOK
<1>4. Window' /\ SlotStates' /\ Seeking' /\ Emptying' /\ Watching'
  BY <1>u, ZenonT(40) DEF IInv, Window, SlotStates, Seeking, Emptying, Watching, Reading, Ticket, Word, Visit, UpTo
<1>5. Aiming'
  BY <1>u, <1>1, SMTT(40) DEF IInv, Aiming, UpTo, Word
<1>6. Filling'
  <2>1. Filling
    BY DEF IInv
  <2> QED
    BY <1>u, <1>2, <2>1 DEF Filling
<1>7. ExclusiveSlot'
  BY <1>u, <1>2, SMTT(40) DEF IInv, ExclusiveSlot, Reading
<1> QED
  BY <1>3, <1>4, <1>5, <1>6, <1>7 DEF IInv

LEMMA OriginIsCursor == Origin \in Cursors
BY BaseFacts, SMTT(40) DEF Origin, Cursors, Slots

\* try_push_classified() and the loads and checks of the pushes.
LEMMA PushLooks ==
    ASSUME IInv, NEW p \in Producers,
           PushLoadTail(p) \/ PushCheckStamp(p) \/ PushClassify(p)
    PROVE  IInv'
<1>t. ptail \in [Producers -> Cursors] /\ tail \in Cursors
  BY DEF IInv, TypeOK
<1>1. CASE PushLoadTail(p)
  <2>1. UpTo(tail, tail)
    BY <1>t, SMTT(40) DEF UpTo, Cursors, Slots
  <2> QED
    BY <1>1, <2>1, <1>t, PushLocal DEF PushLoadTail
<1>2. CASE PushCheckStamp(p)
  <2>1. UpTo(ptail[p], tail)
    BY <1>2 DEF IInv, Aiming, PushCheckStamp
  <2>2. ptail = [ptail EXCEPT ![p] = ptail[p]] /\ ptail[p] \in Cursors
    BY <1>t
  <2>3. CASE ppc' = [ppc EXCEPT ![p] = "cas"] /\ stamp[ptail[p].idx] = Word(ptail[p]) /\ UNCHANGED ptail
    BY <1>2, <2>1, <2>2, <2>3, PushLocal DEF PushCheckStamp
  <2>4. CASE ppc' = [ppc EXCEPT ![p] = "classify"] /\ UNCHANGED ptail
    BY <1>2, <2>1, <2>2, <2>4, PushLocal DEF PushCheckStamp
  <2>5. CASE PushReturn(p, "idle")
    BY <1>2, <2>5, OriginIsCursor, PushLocal DEF PushCheckStamp, PushReturn
  <2> QED
    BY <1>2, <2>3, <2>4, <2>5 DEF PushCheckStamp
<1>3. CASE PushClassify(p)
  BY <1>3, OriginIsCursor, PushLocal DEF PushClassify, PushReturn
<1> QED
  BY <1>1, <1>2, <1>3

\* A step of a consumer outside a slot that changes only its own locals.
LEMMA PopLocal ==
    ASSUME IInv, NEW c \in Consumers, cpc[c] \notin {"read", "release"},
           NEW pc \in {"idle", "stamp", "cas"}, NEW h \in Cursors,
           cpc' = [cpc EXCEPT ![c] = pc], chead' = [chead EXCEPT ![c] = h],
           got' \in {got, [got EXCEPT ![c] = Nothing]},
           UNCHANGED <<shared, pvars, popped, ovars>>,
           pc \in {"stamp", "cas"} => UpTo(h, head),
           pc = "cas" => stamp[h.idx] = Word(h) + 1
    PROVE  IInv'
<1>t. /\ cpc \in [Consumers -> {"idle", "stamp", "cas", "read", "release"}]
      /\ chead \in [Consumers -> Cursors]
      /\ got \in [Consumers -> {Nothing, Torn} \cup (Producers \X Nat)]
  BY DEF IInv, TypeOK
<1>g. got' = got /\ got[c] = Nothing
  <2>1. got[c] = Nothing
    BY DEF IInv, Emptying
  <2> QED
    BY <1>t, <2>1
<1>u. UNCHANGED <<head, tail, stamp, value, ppc, ptail, pushes, order, popped, opc, ohead, wasEmpty>>
  BY DEF shared, pvars, ovars
<1>1. /\ cpc'[c] = pc /\ chead'[c] = h
      /\ \A d \in Consumers : d # c => cpc'[d] = cpc[d] /\ chead'[d] = chead[d]
  BY <1>t
<1>2. \A d \in Consumers : Reading(d)' => Reading(d) /\ cpc'[d] = cpc[d] /\ chead'[d] = chead[d]
  BY <1>1 DEF Reading
<1>3. TypeOK'
  BY <1>u, <1>g DEF IInv, TypeOK
<1>4. Window' /\ SlotStates' /\ Aiming' /\ Filling' /\ Watching'
  BY <1>u DEF IInv, Window, SlotStates, Aiming, Filling, Watching, Writing, Ticket, Word, Visit, UpTo
<1>5. Seeking'
  BY <1>u, <1>1, SMTT(40) DEF IInv, Seeking, UpTo, Word
<1>6. Emptying'
  BY <1>u, <1>g, <1>1, <1>2, SMTT(40) DEF IInv, Emptying, Ticket, Word, Visit
<1>7. ExclusiveSlot'
  BY <1>u, <1>2, SMTT(40) DEF IInv, ExclusiveSlot, Writing
<1> QED
  BY <1>3, <1>4, <1>5, <1>6, <1>7 DEF IInv

\* The load and the check of try_pop().
LEMMA PopLooks ==
    ASSUME IInv, NEW c \in Consumers, PopLoadHead(c) \/ PopCheckStamp(c)
    PROVE  IInv'
<1>t. chead \in [Consumers -> Cursors] /\ head \in Cursors
  BY DEF IInv, TypeOK
<1>1. CASE PopLoadHead(c)
  <2>1. UpTo(head, head)
    BY <1>t, SMTT(40) DEF UpTo, Cursors, Slots
  <2> QED
    BY <1>1, <2>1, <1>t, PopLocal DEF PopLoadHead
<1>2. CASE PopCheckStamp(c)
  <2>1. UpTo(chead[c], head)
    BY <1>2 DEF IInv, Seeking, PopCheckStamp
  <2>2. chead = [chead EXCEPT ![c] = chead[c]] /\ chead[c] \in Cursors
    BY <1>t
  <2>3. CASE stamp[chead[c].idx] = Word(chead[c]) + 1
    BY <1>2, <2>1, <2>2, <2>3, PopLocal DEF PopCheckStamp
  <2>4. CASE stamp[chead[c].idx] # Word(chead[c]) + 1
    BY <1>2, <2>4, OriginIsCursor, PopLocal DEF PopCheckStamp, PopReturn
  <2> QED
    BY <2>3, <2>4
<1> QED
  BY <1>1, <1>2

\* len(): only the observer's own locals change.
LEMMA LenLooks ==
    ASSUME IInv, NEW o \in Observers, Observer(o)
    PROVE  IInv'
<1>0. UNCHANGED <<head, tail, stamp, value, ppc, ptail, pushes, order, cpc, chead, got, popped>>
  BY DEF Observer, LenLoadHead, LenLoadTail, shared, pvars, cvars
<1>1. TypeOK'
  <2>1. wasEmpty' \in [Observers -> BOOLEAN]
    BY DEF Observer, LenLoadHead, LenLoadTail, IInv, TypeOK
  <2>2. \/ opc' = [opc EXCEPT ![o] = "tail"] /\ ohead' = [ohead EXCEPT ![o] = head]
        \/ opc' = [opc EXCEPT ![o] = "idle"] /\ ohead' = [ohead EXCEPT ![o] = Origin]
    BY DEF Observer, LenLoadHead, LenLoadTail
  <2>3. opc' \in [Observers -> {"idle", "tail"}] /\ ohead' \in [Observers -> Cursors]
    <3>1. opc \in [Observers -> {"idle", "tail"}] /\ ohead \in [Observers -> Cursors] /\ head \in Cursors
      BY DEF IInv, TypeOK
    <3>2. CASE opc' = [opc EXCEPT ![o] = "tail"] /\ ohead' = [ohead EXCEPT ![o] = head]
      BY <3>1, <3>2
    <3>3. CASE opc' = [opc EXCEPT ![o] = "idle"] /\ ohead' = [ohead EXCEPT ![o] = Origin]
      BY OriginIsCursor, <3>1, <3>3
    <3> QED
      BY <2>2, <3>2, <3>3
  <2> QED
    BY <1>0, <2>1, <2>3 DEF IInv, TypeOK
<1>2. /\ Window' /\ SlotStates' /\ Aiming' /\ Filling' /\ Seeking' /\ Emptying' /\ ExclusiveSlot'
  BY <1>0, SMTT(60) DEF IInv, Window, SlotStates, Aiming, Filling, Seeking, Emptying, ExclusiveSlot,
     Writing, Reading, Ticket, Word, Visit, UpTo
<1>3. Watching'
  <2> SUFFICES ASSUME NEW q \in Observers, opc'[q] = "tail"
               PROVE  UpTo(ohead[q], tail)' /\ (ohead'[q] = tail' => wasEmpty'[q])
    BY DEF Watching
  <2>1. CASE q = o
    <3>1. LenLoadHead(o)
      BY <2>1 DEF Observer, LenLoadTail, IInv, TypeOK
    <3>2. ohead'[q] = head /\ wasEmpty'[q] = (head = tail)
      BY <2>1, <3>1 DEF LenLoadHead, IInv, TypeOK
    <3>3. UpTo(head, tail)
      BY SMTT(60) DEF IInv, TypeOK, Window, UpTo, Cursors, Slots
    <3> QED
      BY <1>0, <3>2, <3>3 DEF UpTo
  <2>2. CASE q # o
    <3>1. opc'[q] = opc[q] /\ ohead'[q] = ohead[q] /\ wasEmpty'[q] = wasEmpty[q]
      BY <2>2 DEF Observer, LenLoadHead, LenLoadTail, IInv, TypeOK
    <3> QED
      BY <1>0, <2>2, <3>1 DEF IInv, Watching, UpTo
  <2> QED
    BY <2>1, <2>2
<1> QED
  BY <1>1, <1>2, <1>3 DEF IInv

-----------------------------------------------------------------------------
(* The compare-exchanges *)

\* The position of the last visit of a slot lies before the tail, so its ticket
\* is one that has been given out.
LEMMA VisitTicket ==
    ASSUME IInv, NEW i \in Slots
    PROVE  /\ Visit(tail, i) \in Int /\ Visit(head, i) \in Int
           /\ Visit(head, i) >= -1
           /\ Row(Visit(tail, i)) \in Int
           /\ Row(Visit(tail, i)) + i + 1 <= Len(order)
           /\ Visit(tail, i) >= 0 => Row(Visit(tail, i)) + i + 1 \in 1..Len(order)
<1>1. /\ tail.turn \in Nat /\ tail.idx \in Nat /\ head.turn \in Nat /\ head.idx \in Nat
      /\ i \in Nat /\ i < Capacity /\ Capacity \in Nat
      /\ Row(tail.turn) + tail.idx = Len(order) /\ Len(order) \in Nat
  <2>1. order \in Seq(Producers \X Nat) /\ head \in Cursors /\ tail \in Cursors
        /\ Ticket(tail) = Len(order) + 1
    BY DEF IInv, TypeOK, Window
  <2>2. Len(order) \in Nat
    BY <2>1, SMTT(40)
  <2>3. Row(tail.turn) + tail.idx + 1 = Len(order) + 1
    BY <2>1 DEF Ticket, Row
  <2>4. /\ tail.turn \in Nat /\ tail.idx \in Nat /\ head.turn \in Nat /\ head.idx \in Nat
        /\ i \in Nat /\ i < Capacity /\ Capacity \in Nat
    BY <2>1, BaseFacts, SMTT(40) DEF Cursors, Slots
  <2>5. Row(tail.turn) \in Int
    BY <2>4, RowFacts, SMTT(40)
  <2> QED
    BY <2>2, <2>3, <2>4, <2>5, SMTT(40)
<1>2. Visit(tail, i) \in Int /\ Visit(head, i) \in Int /\ Visit(head, i) >= -1
  BY <1>1, SMTT(40) DEF Visit
<1>3. Row(Visit(tail, i)) \in Int /\ Row(Visit(tail, i)) + i + 1 <= Len(order)
  <2>0. tail.turn \in Int
    BY <1>1, SMTT(40)
  <2>1. Row(tail.turn) \in Int /\ Row(tail.turn - 1) = Row(tail.turn) - Capacity
    BY <2>0, RowFacts
  <2> QED
    BY <1>1, <2>1, SMTT(60) DEF Visit
<1>4. Visit(tail, i) >= 0 => Row(Visit(tail, i)) >= 0
  <2>1. \A t \in Nat : t * Capacity \in Nat
    BY <1>1, SMTT(40)
  <2> QED
    BY <1>2, <2>1, SMTT(40) DEF Row
<1> QED
  BY <1>1, <1>2, <1>3, <1>4, SMTT(40)

\* A producer whose exchange of the tail succeeds finds the slot emptied and
\* vacant: the stamp it checked excludes the two states of a slot with a value.
LEMMA TailSlotVacant ==
    ASSUME IInv, stamp[tail.idx] = Word(tail)
    PROVE  /\ tail.idx \in Slots /\ Visit(tail, tail.idx) = tail.turn - 1
           /\ Visit(head, tail.idx) = tail.turn - 1
           /\ stamp[tail.idx] = Base(tail.turn) + tail.idx
           /\ \A p \in Producers : Writing(p) => ptail[p].idx # tail.idx
           /\ \A c \in Consumers : Reading(c) => chead[c].idx # tail.idx
<1> DEFINE i == tail.idx
<1> DEFINE t == tail.turn
<1>1. tail \in Cursors /\ t \in Nat /\ t \in Int /\ t - 1 \in Int /\ i \in Slots /\ i \in Int
  BY SMTT(40) DEF IInv, TypeOK, Cursors, Slots
<1>2. Visit(tail, i) = t - 1
  BY <1>1, SMTT(40) DEF Visit
<1>3. stamp[i] = Base(t) + i
  BY DEF Word, Base
<1>4. Base(t) + i # Base(t - 1) + i /\ Base(t) + i # Base(t - 1) + i + 1
  BY <1>1, WordsApart, SMTT(40)
<1>5. Visit(head, i) = t - 1
  <2>1. Visit(head, i) \in Int
    BY <1>1, VisitTicket
  <2> QED
    BY <1>1, <1>2, <1>3, <1>4, <2>1 DEF IInv, SlotStates
<1>6. ASSUME NEW p \in Producers, Writing(p), ptail[p].idx = i PROVE FALSE
  <2>1. ptail[p].turn = t - 1 /\ ptail[p].turn = t - 1 + 1
    BY <1>2, <1>5, <1>6 DEF IInv, Filling
  <2> QED
    BY <1>1, <2>1, SMTT(40)
<1>7. ASSUME NEW c \in Consumers, Reading(c), chead[c].idx = i PROVE FALSE
  <2>1. chead[c].turn = t - 1 /\ stamp[i] = Base(t - 1) + i + 1
    BY <1>2, <1>7, SMTT(40) DEF IInv, Emptying, Word, Base
  <2> QED
    BY <1>3, <1>4, <2>1
<1> QED
  BY <1>1, <1>2, <1>3, <1>5, <1>6, <1>7

\* The step that wins the tail.
LEMMA PushWins ==
    ASSUME IInv, NEW p \in Producers, PushReserve(p), tail = ptail[p]
    PROVE  IInv'
<1> DEFINE i0 == tail.idx
<1> DEFINE v == <<p, pushes[p] + 1>>
<1>t. /\ ppc \in [Producers -> {"idle", "full", "stamp", "classify", "cas", "write", "publish"}]
      /\ ptail \in [Producers -> Cursors] /\ tail \in Cursors /\ head \in Cursors
      /\ pushes \in [Producers -> Nat] /\ order \in Seq(Producers \X Nat)
      /\ value \in [Slots -> {Torn} \cup (Producers \X Nat)]
  BY DEF IInv, TypeOK
<1>u. /\ ppc[p] = "cas" /\ tail' = next(tail) /\ order' = Append(order, v)
      /\ pushes' = [pushes EXCEPT ![p] = pushes[p] + 1] /\ value' = [value EXCEPT ![i0] = Torn]
      /\ ppc' = [ppc EXCEPT ![p] = "write"]
      /\ UNCHANGED <<head, stamp, ptail, cpc, chead, got, popped, opc, ohead, wasEmpty>>
  BY DEF PushReserve, cvars, ovars
<1>s. stamp[tail.idx] = Word(tail)
  BY <1>u DEF IInv, Aiming
<1>v. /\ i0 \in Slots /\ Visit(tail, i0) = tail.turn - 1 /\ Visit(head, i0) = tail.turn - 1
      /\ stamp[i0] = Base(tail.turn) + i0
      /\ \A q \in Producers : Writing(q) => ptail[q].idx # i0
      /\ \A c \in Consumers : Reading(c) => chead[c].idx # i0
  BY <1>s, TailSlotVacant
<1>n. /\ tail' \in Cursors /\ Ticket(tail') = Ticket(tail) + 1
      /\ \A i \in Slots : Visit(tail', i) = IF i = i0 THEN tail.turn ELSE Visit(tail, i)
      /\ \A a \in Cursors : UpTo(a, tail) => UpTo(a, tail') /\ a # tail'
  BY <1>t, <1>u, NextCursor
<1>o. /\ order' \in Seq(Producers \X Nat) /\ Len(order) \in Nat /\ Len(order') = Len(order) + 1
      /\ order'[Len(order) + 1] = v
      /\ \A k \in 1..Len(order) : order'[k] = order[k]
  BY <1>t, <1>u, SMTT(40)
<1>w. /\ ppc'[p] = "write" /\ pushes'[p] = pushes[p] + 1
      /\ \A q \in Producers : q # p => ppc'[q] = ppc[q] /\ pushes'[q] = pushes[q]
      /\ \A i \in Slots : i # i0 => value'[i] = value[i]
  BY <1>t, <1>u
<1>x. \A q \in Producers : Writing(q)' => q = p \/ (q # p /\ Writing(q))
  BY <1>w DEF Writing
<1>1. TypeOK'
  BY <1>t, <1>u, <1>n, <1>o, <1>v, SMTT(60) DEF IInv, TypeOK
<1>2. Window'
  <2>1. Ticket(tail') = Len(order') + 1 /\ Ticket(head') = popped' + 1
    BY <1>u, <1>n, <1>o DEF IInv, Window
  <2>2. /\ head.turn \in Nat /\ head.idx \in Nat /\ head.idx < Capacity
        /\ tail.turn \in Nat /\ tail.idx \in Nat /\ tail.idx < Capacity /\ Capacity \in Nat
    BY <1>t, CursorFacts
  <2>3. \/ tail.turn = head.turn /\ head.idx <= tail.idx
        \/ tail.turn = head.turn + 1 /\ tail.idx < head.idx
    <3>1. Visit(head, tail.idx) = tail.turn - 1
      BY <1>v
    <3> QED
      BY <2>2, <3>1, SMTT(40) DEF IInv, Window, Visit
  <2>4. \/ tail'.turn = head.turn /\ head.idx <= tail'.idx
        \/ tail'.turn = head.turn + 1 /\ tail'.idx <= head.idx
    <3>1. CASE tail.idx + 1 < Capacity
      <4>1. tail'.turn = tail.turn /\ tail'.idx = tail.idx + 1
        BY <1>t, <1>u, <3>1 DEF next, Cursors
      <4> QED
        BY <2>2, <2>3, <4>1, SMTT(40)
    <3>2. CASE ~(tail.idx + 1 < Capacity)
      <4>1. tail'.turn = tail.turn + 1 /\ tail'.idx = 0
        BY <1>u, <3>2 DEF next
      <4> QED
        BY <2>2, <2>3, <3>2, <4>1, SMTT(40)
    <3> QED
      BY <3>1, <3>2
  <2> QED
    BY <1>u, <2>1, <2>4 DEF Window
<1>3. SlotStates'
  <2> SUFFICES ASSUME NEW i \in Slots
               PROVE  LET t == Visit(tail', i) IN
                      \/ /\ t = Visit(head, i) + 1
                         /\ \/ stamp[i] = Base(t) + i
                            \/ /\ stamp[i] = Base(t) + i + 1
                               /\ value'[i] = order'[Row(t) + i + 1]
                      \/ /\ t = Visit(head, i)
                         /\ stamp[i] \in {Base(t) + i + 1, Base(t) + i + Lap}
    BY <1>u DEF SlotStates
  <2>1. CASE i = i0
    <3>1. tail.turn \in Int
      BY <1>t, SMTT(40) DEF Cursors
    <3> QED
      BY <1>n, <1>v, <2>1, <3>1, SMTT(40)
  <2>2. CASE i # i0
    <3>1. Visit(tail', i) = Visit(tail, i) /\ value'[i] = value[i]
      BY <1>n, <1>w, <2>2
    <3>2. /\ Visit(tail, i) \in Int /\ Visit(head, i) \in Int /\ Visit(head, i) >= -1
          /\ Visit(tail, i) >= 0 => Row(Visit(tail, i)) + i + 1 \in 1..Len(order)
      BY VisitTicket
    <3>3. Visit(tail, i) = Visit(head, i) + 1 => order'[Row(Visit(tail, i)) + i + 1] = order[Row(Visit(tail, i)) + i + 1]
      BY <1>o, <3>2, SMTT(40)
    <3> QED
      BY <3>1, <3>3 DEF IInv, SlotStates
  <2> QED
    BY <2>1, <2>2
<1>4. Aiming'
  <2> SUFFICES ASSUME NEW q \in Producers, ppc'[q] \in {"stamp", "classify", "cas"}
               PROVE  UpTo(ptail[q], tail') /\ ptail[q] # tail'
    BY <1>u DEF Aiming
  <2>1. UpTo(ptail[q], tail) /\ ptail[q] \in Cursors
    BY <1>t, <1>w DEF IInv, Aiming
  <2> QED
    BY <1>n, <2>1
<1>5. Filling'
  <2> SUFFICES ASSUME NEW q \in Producers, Writing(q)'
               PROVE  LET i == ptail[q].idx IN
                      /\ ptail[q].turn = Visit(tail', i) /\ ptail[q].turn = Visit(head, i) + 1
                      /\ stamp[i] = Word(ptail[q])
                      /\ order'[Ticket(ptail[q])] = <<q, pushes'[q]>>
                      /\ ppc'[q] = "publish" => value'[i] = <<q, pushes'[q]>>
    BY <1>u DEF Filling
  <2>1. CASE q = p
    <3>1. Ticket(tail) = Len(order) + 1 /\ tail.turn \in Int
      BY <1>t, SMTT(40) DEF IInv, Window, Cursors
    <3>2. ptail[q].turn = Visit(tail', i0) /\ ptail[q].turn = Visit(head, i0) + 1
      BY <1>n, <1>v, <2>1, <3>1, SMTT(40)
    <3>3. order'[Ticket(ptail[q])] = <<q, pushes'[q]>>
      BY <1>o, <1>w, <2>1, <3>1
    <3>4. ppc'[q] # "publish"
      BY <1>w, <2>1
    <3> QED
      BY <1>s, <2>1, <3>2, <3>3, <3>4
  <2>2. CASE q # p
    <3> DEFINE i == ptail[q].idx
    <3>1. Writing(q) /\ i # i0 /\ i \in Slots
      BY <1>t, <1>v, <1>x, <2>2 DEF Cursors
    <3>2. /\ ptail[q].turn = Visit(tail, i) /\ ptail[q].turn = Visit(head, i) + 1
          /\ stamp[i] = Word(ptail[q]) /\ order[Ticket(ptail[q])] = <<q, pushes[q]>>
          /\ ppc[q] = "publish" => value[i] = <<q, pushes[q]>>
      BY <3>1 DEF IInv, Filling
    <3>3. Ticket(ptail[q]) \in 1..Len(order)
      <4>1. /\ Visit(tail, i) \in Int /\ Visit(head, i) \in Int /\ Visit(head, i) >= -1
            /\ Visit(tail, i) >= 0 => Row(Visit(tail, i)) + i + 1 \in 1..Len(order)
        BY <3>1, VisitTicket
      <4>2. Row(Visit(tail, i)) + i + 1 \in 1..Len(order)
        BY <3>2, <4>1, SMTT(40)
      <4> QED
        BY <3>2, <4>2 DEF Ticket, Row
    <3> QED
      BY <1>n, <1>o, <1>w, <2>2, <3>1, <3>2, <3>3
  <2> QED
    BY <2>1, <2>2
<1>6. Seeking'
  BY <1>u DEF IInv, Seeking
<1>7. Emptying'
  <2> SUFFICES ASSUME NEW c \in Consumers, Reading(c)
               PROVE  LET i == chead[c].idx IN
                      /\ chead[c].turn = Visit(tail', i)
                      /\ cpc[c] = "read" => value'[i] = order'[Ticket(chead[c])]
    BY <1>u DEF IInv, Emptying, Reading
  <2> DEFINE i == chead[c].idx
  <2>1. i # i0 /\ i \in Slots /\ chead[c].turn \in Nat
    BY <1>v DEF IInv, TypeOK, Cursors
  <2>2. /\ chead[c].turn = Visit(tail, i)
        /\ cpc[c] = "read" => value[i] = order[Ticket(chead[c])]
    BY DEF IInv, Emptying
  <2>3. Ticket(chead[c]) \in 1..Len(order)
    <3>1. Row(Visit(tail, i)) + i + 1 \in 1..Len(order)
      BY <2>1, <2>2, VisitTicket, SMTT(40)
    <3> QED
      BY <2>2, <3>1 DEF Ticket, Row
  <2> QED
    BY <1>n, <1>o, <1>w, <2>1, <2>2, <2>3
<1>8. Watching'
  <2> SUFFICES ASSUME NEW o \in Observers, opc[o] = "tail"
               PROVE  UpTo(ohead[o], tail') /\ ohead[o] # tail'
    BY <1>u DEF Watching
  <2>1. UpTo(ohead[o], tail) /\ ohead[o] \in Cursors
    BY DEF IInv, TypeOK, Watching
  <2> QED
    BY <1>n, <2>1
<1>9. ExclusiveSlot'
  <2>1. \A q \in Producers : Writing(q)' /\ q # p => Writing(q) /\ ptail[q].idx # i0
    BY <1>v, <1>x
  <2>2. \A c \in Consumers : Reading(c)' => Reading(c) /\ chead[c].idx # i0
    BY <1>u, <1>v DEF Reading
  <2>3. ptail[p].idx = i0 /\ ptail' = ptail /\ chead' = chead
    BY <1>u
  <2> QED
    BY <1>x, <2>1, <2>2, <2>3 DEF IInv, ExclusiveSlot
<1> QED
  BY <1>1, <1>2, <1>3, <1>4, <1>5, <1>6, <1>7, <1>8, <1>9 DEF IInv

\* The compare-exchange of a push.
LEMMA PushReserveIInv ==
    ASSUME IInv, NEW p \in Producers, PushReserve(p)
    PROVE  IInv'
<1>1. CASE tail = ptail[p]
  BY <1>1, PushWins
<1>2. CASE tail # ptail[p]
  BY <1>2, OriginIsCursor, PushLocal DEF PushReserve, PushReturn, shared
<1> QED
  BY <1>1, <1>2

\* A consumer whose exchange of the head succeeds finds the slot published, with
\* the value of the head's ticket, and nobody inside it.
LEMMA HeadSlotPublished ==
    ASSUME IInv, stamp[head.idx] = Word(head) + 1
    PROVE  /\ head.idx \in Slots /\ Visit(head, head.idx) = head.turn - 1
           /\ Visit(tail, head.idx) = head.turn
           /\ stamp[head.idx] = Base(head.turn) + head.idx + 1
           /\ value[head.idx] = order[Row(head.turn) + head.idx + 1]
           /\ \A p \in Producers : Writing(p) => ptail[p].idx # head.idx
           /\ \A c \in Consumers : Reading(c) => chead[c].idx # head.idx
<1> DEFINE i == head.idx
<1> DEFINE t == head.turn
<1>1. head \in Cursors /\ t \in Int /\ t - 1 \in Int /\ t - 1 + 1 = t /\ i \in Slots /\ i \in Int
  BY CursorFacts, SMTT(40) DEF IInv, TypeOK
<1>2. Visit(head, i) = t - 1
  BY <1>1, SMTT(40) DEF Visit
<1>3. stamp[i] = Base(t) + i + 1
  BY DEF Word, Base
<1>4. /\ Base(t) + i # Base(t - 1) + i /\ Base(t) + i # Base(t) + i + 1
      /\ Base(t - 1) + i + Lap = Base(t) + i /\ Base(t) \in Int /\ Base(t - 1) \in Int
  <2>1. /\ Base(t - 1) = Base(t) - Lap /\ Base(t) \in Int /\ Base(t - 1) \in Int /\ Lap \in Int
    BY <1>1, BaseOf
  <2>2. Base(t) + i # Base(t - 1) + i /\ Base(t) + i # Base(t) + i + 1
    BY <1>1, WordsApart, SMTT(40)
  <2> QED
    BY <1>1, <2>1, <2>2, SMTT(40)
<1>5. Visit(tail, i) = t
  <2>1. Visit(tail, i) = t - 1 => stamp[i] \in {Base(t - 1) + i + 1, Base(t - 1) + i + Lap}
    BY <1>1, <1>2, SMTT(40) DEF IInv, SlotStates
  <2>2. Visit(tail, i) # t - 1
    BY <1>1, <1>3, <1>4, <2>1, SMTT(40)
  <2> QED
    BY <1>1, <1>2, <2>2 DEF IInv, SlotStates
<1>6. value[i] = order[Row(t) + i + 1]
  BY <1>1, <1>2, <1>3, <1>4, <1>5, SMTT(40) DEF IInv, SlotStates
<1>7. ASSUME NEW p \in Producers, Writing(p), ptail[p].idx = i PROVE FALSE
  <2>1. stamp[i] = Base(t) + i
    BY <1>5, <1>7 DEF IInv, Filling, Word, Base
  <2> QED
    BY <1>1, <1>3, <1>4, <2>1
<1>8. ASSUME NEW c \in Consumers, Reading(c), chead[c].idx = i PROVE FALSE
  <2>1. chead[c].turn = t /\ chead[c].turn = t - 1
    BY <1>2, <1>5, <1>8 DEF IInv, Emptying
  <2> QED
    BY <1>1, <2>1, SMTT(40)
<1> QED
  BY <1>1, <1>2, <1>3, <1>5, <1>6, <1>7, <1>8

\* The step that wins the head.
LEMMA PopWins ==
    ASSUME IInv, NEW c \in Consumers, PopReserve(c), head = chead[c]
    PROVE  IInv'
<1> DEFINE i0 == head.idx
<1>t. /\ cpc \in [Consumers -> {"idle", "stamp", "cas", "read", "release"}]
      /\ chead \in [Consumers -> Cursors] /\ head \in Cursors /\ tail \in Cursors /\ popped \in Nat
  BY DEF IInv, TypeOK
<1>u. /\ cpc[c] = "cas" /\ head' = next(head) /\ popped' = popped + 1
      /\ cpc' = [cpc EXCEPT ![c] = "read"]
      /\ UNCHANGED <<tail, stamp, value, ppc, ptail, pushes, order, chead, got, opc, ohead, wasEmpty>>
  BY DEF PopReserve, pvars, ovars
<1>s. stamp[head.idx] = Word(head) + 1
  BY <1>u DEF IInv, Seeking
<1>v. /\ i0 \in Slots /\ Visit(head, i0) = head.turn - 1 /\ Visit(tail, i0) = head.turn
      /\ stamp[i0] = Base(head.turn) + i0 + 1
      /\ value[i0] = order[Row(head.turn) + i0 + 1]
      /\ \A q \in Producers : Writing(q) => ptail[q].idx # i0
      /\ \A d \in Consumers : Reading(d) => chead[d].idx # i0
  BY <1>s, HeadSlotPublished
<1>n. /\ head' \in Cursors /\ Ticket(head') = Ticket(head) + 1
      /\ \A i \in Slots : Visit(head', i) = IF i = i0 THEN head.turn ELSE Visit(head, i)
      /\ \A a \in Cursors : UpTo(a, head) => UpTo(a, head') /\ a # head'
  BY <1>t, <1>u, NextCursor
<1>w. /\ cpc'[c] = "read"
      /\ \A d \in Consumers : d # c => cpc'[d] = cpc[d]
  BY <1>t, <1>u
<1>x. \A d \in Consumers : Reading(d)' => d = c \/ (d # c /\ Reading(d))
  BY <1>w DEF Reading
<1>1. TypeOK'
  BY <1>t, <1>u, <1>n, SMTT(40) DEF IInv, TypeOK
<1>2. Window'
  <2>1. Ticket(tail') = Len(order') + 1 /\ Ticket(head') = popped' + 1
    BY <1>u, <1>n DEF IInv, Window
  <2>2. /\ head.turn \in Nat /\ head.idx \in Nat /\ head.idx < Capacity
        /\ tail.turn \in Nat /\ tail.idx \in Nat /\ tail.idx < Capacity /\ Capacity \in Nat
    BY <1>t, CursorFacts
  <2>3. \/ tail.turn = head.turn /\ head.idx < tail.idx
        \/ tail.turn = head.turn + 1 /\ tail.idx <= head.idx
    <3>1. Visit(tail, head.idx) = head.turn
      BY <1>v
    <3> QED
      BY <2>2, <3>1, SMTT(40) DEF IInv, Window, Visit
  <2>4. \/ tail.turn = head'.turn /\ head'.idx <= tail.idx
        \/ tail.turn = head'.turn + 1 /\ tail.idx <= head'.idx
    <3>1. CASE head.idx + 1 < Capacity
      <4>1. head'.turn = head.turn /\ head'.idx = head.idx + 1
        BY <1>t, <1>u, <3>1 DEF next, Cursors
      <4> QED
        BY <2>2, <2>3, <4>1, SMTT(40)
    <3>2. CASE ~(head.idx + 1 < Capacity)
      <4>1. head'.turn = head.turn + 1 /\ head'.idx = 0
        BY <1>u, <3>2 DEF next
      <4> QED
        BY <2>2, <2>3, <3>2, <4>1, SMTT(40)
    <3> QED
      BY <3>1, <3>2
  <2> QED
    BY <1>u, <2>1, <2>4 DEF Window
<1>3. SlotStates'
  <2> SUFFICES ASSUME NEW i \in Slots
               PROVE  LET t == Visit(tail, i) IN
                      \/ /\ t = Visit(head', i) + 1
                         /\ \/ stamp[i] = Base(t) + i
                            \/ /\ stamp[i] = Base(t) + i + 1
                               /\ value[i] = order[Row(t) + i + 1]
                      \/ /\ t = Visit(head', i)
                         /\ stamp[i] \in {Base(t) + i + 1, Base(t) + i + Lap}
    BY <1>u DEF SlotStates
  <2>1. CASE i = i0
    BY <1>n, <1>v, <2>1
  <2>2. CASE i # i0
    <3>1. Visit(head', i) = Visit(head, i)
      BY <1>n, <2>2
    <3> QED
      BY <3>1 DEF IInv, SlotStates
  <2> QED
    BY <2>1, <2>2
<1>4. Aiming'
  BY <1>u DEF IInv, Aiming
<1>5. Filling'
  <2> SUFFICES ASSUME NEW q \in Producers, Writing(q)
               PROVE  ptail[q].turn = Visit(head', ptail[q].idx) + 1
    BY <1>u DEF IInv, Filling, Writing
  <2>1. ptail[q].idx # i0 /\ ptail[q].idx \in Slots
    BY <1>v DEF IInv, TypeOK, Cursors
  <2> QED
    BY <1>n, <2>1 DEF IInv, Filling
<1>6. Seeking'
  <2> SUFFICES ASSUME NEW d \in Consumers, cpc'[d] \in {"stamp", "cas"}
               PROVE  UpTo(chead[d], head') /\ chead[d] # head'
    BY <1>u DEF Seeking
  <2>1. UpTo(chead[d], head) /\ chead[d] \in Cursors
    BY <1>t, <1>w DEF IInv, Seeking
  <2> QED
    BY <1>n, <2>1
<1>7. Emptying'
  <2> SUFFICES ASSUME NEW d \in Consumers
               PROVE  /\ Reading(d)' =>
                            LET i == chead[d].idx IN
                            /\ chead[d].turn = Visit(tail, i) /\ chead[d].turn = Visit(head', i)
                            /\ stamp[i] = Word(chead[d]) + 1
                            /\ cpc'[d] = "read" => value[i] = order[Ticket(chead[d])]
                      /\ IF cpc'[d] = "release" THEN got[d] \in Producers \X Nat ELSE got[d] = Nothing
    BY <1>u DEF Emptying
  <2>1. CASE d = c
    <3>1. got[d] = Nothing /\ cpc'[d] = "read"
      BY <1>u, <1>w, <2>1 DEF IInv, Emptying
    <3>2. value[i0] = order[Ticket(head)]
      BY <1>v DEF Ticket, Row
    <3> QED
      BY <1>n, <1>s, <1>v, <2>1, <3>1, <3>2
  <2>2. CASE d # c
    <3>1. cpc'[d] = cpc[d] /\ (Reading(d)' => Reading(d))
      BY <1>w, <1>x, <2>2
    <3>2. Reading(d)' => chead[d].idx # i0 /\ chead[d].idx \in Slots
      BY <1>t, <1>v, <3>1 DEF Cursors
    <3> QED
      BY <1>n, <3>1, <3>2 DEF IInv, Emptying
  <2> QED
    BY <2>1, <2>2
<1>8. Watching'
  BY <1>u DEF IInv, Watching
<1>9. ExclusiveSlot'
  <2>1. \A d \in Consumers : Reading(d)' /\ d # c => Reading(d) /\ chead[d].idx # i0
    BY <1>v, <1>x
  <2>2. \A q \in Producers : Writing(q)' => Writing(q) /\ ptail[q].idx # i0
    BY <1>u, <1>v DEF Writing
  <2>3. chead[c].idx = i0 /\ ptail' = ptail /\ chead' = chead
    BY <1>u
  <2> QED
    BY <1>x, <2>1, <2>2, <2>3 DEF IInv, ExclusiveSlot
<1> QED
  BY <1>1, <1>2, <1>3, <1>4, <1>5, <1>6, <1>7, <1>8, <1>9 DEF IInv

\* The compare-exchange of a pop.
LEMMA PopReserveIInv ==
    ASSUME IInv, NEW c \in Consumers, PopReserve(c)
    PROVE  IInv'
<1>1. CASE head = chead[c]
  BY <1>1, PopWins
<1>2. CASE head # chead[c]
  BY <1>2, OriginIsCursor, PopLocal DEF PopReserve, PopReturn, shared
<1> QED
  BY <1>1, <1>2

-----------------------------------------------------------------------------
(* The accesses to a slot and the release stores *)

\* The write of the value into the reserved slot.
LEMMA PushWriteIInv ==
    ASSUME IInv, NEW p \in Producers, PushWrite(p)
    PROVE  IInv'
<1> DEFINE i0 == ptail[p].idx
<1>t. /\ ppc \in [Producers -> {"idle", "full", "stamp", "classify", "cas", "write", "publish"}]
      /\ ptail \in [Producers -> Cursors] /\ pushes \in [Producers -> Nat]
      /\ value \in [Slots -> {Torn} \cup (Producers \X Nat)] /\ i0 \in Slots
  BY DEF IInv, TypeOK, Cursors
<1>u. /\ ppc[p] = "write" /\ value' = [value EXCEPT ![i0] = <<p, pushes[p]>>]
      /\ ppc' = [ppc EXCEPT ![p] = "publish"]
      /\ UNCHANGED <<head, tail, stamp, ptail, pushes, order, cpc, chead, got, popped, opc, ohead, wasEmpty>>
  BY DEF PushWrite, cvars, ovars
<1>w. /\ ppc'[p] = "publish" /\ Writing(p) /\ value'[i0] = <<p, pushes[p]>>
      /\ \A q \in Producers : q # p => ppc'[q] = ppc[q]
      /\ \A i \in Slots : i # i0 => value'[i] = value[i]
  BY <1>t, <1>u DEF Writing
<1>x. \A q \in Producers : (Writing(q)' <=> Writing(q)) /\ (Writing(q) /\ q # p => ptail[q].idx # i0)
  BY <1>w DEF Writing, IInv, ExclusiveSlot
<1>y. \A c \in Consumers : Reading(c) => chead[c].idx # i0
  BY <1>w DEF IInv, ExclusiveSlot
<1>1. TypeOK'
  BY <1>t, <1>u DEF IInv, TypeOK
<1>2. Window' /\ Seeking' /\ Watching'
  BY <1>u DEF IInv, Window, Seeking, Watching
<1>3. SlotStates'
  <2> SUFFICES ASSUME NEW i \in Slots
               PROVE  LET t == Visit(tail, i) IN
                      \/ /\ t = Visit(head, i) + 1
                         /\ \/ stamp[i] = Base(t) + i
                            \/ /\ stamp[i] = Base(t) + i + 1
                               /\ value'[i] = order[Row(t) + i + 1]
                      \/ /\ t = Visit(head, i)
                         /\ stamp[i] \in {Base(t) + i + 1, Base(t) + i + Lap}
    BY <1>u DEF SlotStates
  <2>1. CASE i = i0
    BY <1>w, <2>1 DEF IInv, Filling, Word, Base
  <2>2. CASE i # i0
    BY <1>w, <2>2 DEF IInv, SlotStates
  <2> QED
    BY <2>1, <2>2
<1>4. Aiming'
  BY <1>u, <1>w DEF IInv, Aiming
<1>5. Filling'
  <2> SUFFICES ASSUME NEW q \in Producers, Writing(q), ppc'[q] = "publish"
               PROVE  value'[ptail[q].idx] = <<q, pushes[q]>>
    BY <1>u, <1>x DEF IInv, Filling
  <2>1. CASE q = p
    BY <1>w, <2>1
  <2>2. CASE q # p
    <3>1. ptail[q].idx # i0 /\ ptail[q].idx \in Slots /\ ppc[q] = "publish"
      BY <1>t, <1>w, <1>x, <2>2 DEF Cursors
    <3> QED
      BY <1>w, <3>1 DEF IInv, Filling
  <2> QED
    BY <2>1, <2>2
<1>6. Emptying'
  <2> SUFFICES ASSUME NEW c \in Consumers, Reading(c)
               PROVE  value'[chead[c].idx] = value[chead[c].idx]
    BY <1>u DEF IInv, Emptying, Reading
  <2>1. chead[c].idx # i0 /\ chead[c].idx \in Slots
    BY <1>y DEF IInv, TypeOK, Cursors
  <2> QED
    BY <1>w, <2>1
<1>7. ExclusiveSlot'
  BY <1>u, <1>x DEF IInv, ExclusiveSlot, Reading
<1> QED
  BY <1>1, <1>2, <1>3, <1>4, <1>5, <1>6, <1>7 DEF IInv

\* A release store changes a slot nobody is about to win: the slot at the tail
\* with its stamp checked, and the one at the head, have no thread inside.
LEMMA ReleaseStore ==
    ASSUME IInv, NEW i0 \in Slots, NEW w \in Int, stamp' = [stamp EXCEPT ![i0] = w],
           \/ \E p \in Producers : Writing(p) /\ ptail[p].idx = i0
           \/ \E c \in Consumers : Reading(c) /\ chead[c].idx = i0
    PROVE  /\ \A p \in Producers : ppc[p] = "cas" /\ ptail[p] = tail => stamp'[tail.idx] = Word(tail)
           /\ \A c \in Consumers : cpc[c] = "cas" /\ chead[c] = head => stamp'[head.idx] = Word(head) + 1
<1>t. stamp \in [Slots -> Int]
  BY DEF IInv, TypeOK
<1>1. ASSUME NEW p \in Producers, ppc[p] = "cas", ptail[p] = tail PROVE stamp'[tail.idx] = Word(tail)
  <2>1. stamp[tail.idx] = Word(tail)
    BY <1>1 DEF IInv, Aiming
  <2>2. tail.idx \in Slots /\ tail.idx # i0
    BY <2>1, TailSlotVacant
  <2> QED
    BY <1>t, <2>1, <2>2
<1>2. ASSUME NEW c \in Consumers, cpc[c] = "cas", chead[c] = head PROVE stamp'[head.idx] = Word(head) + 1
  <2>1. stamp[head.idx] = Word(head) + 1
    BY <1>2 DEF IInv, Seeking
  <2>2. head.idx \in Slots /\ head.idx # i0
    BY <2>1, HeadSlotPublished
  <2> QED
    BY <1>t, <2>1, <2>2
<1> QED
  BY <1>1, <1>2

\* The release store of a push.
LEMMA PushPublishIInv ==
    ASSUME IInv, NEW p \in Producers, PushPublish(p)
    PROVE  IInv'
<1> DEFINE i0 == ptail[p].idx
<1>t. /\ ppc \in [Producers -> {"idle", "full", "stamp", "classify", "cas", "write", "publish"}]
      /\ ptail \in [Producers -> Cursors] /\ stamp \in [Slots -> Int]
      /\ ptail[p] \in Cursors /\ i0 \in Slots
  BY DEF IInv, TypeOK, Cursors
<1>b. Word(ptail[p]) = Base(ptail[p].turn) + i0 /\ Word(ptail[p]) + 1 \in Int
  <2>1. ptail[p].turn \in Int /\ i0 \in Int
    BY <1>t, CursorFacts, SMTT(40)
  <2>2. Base(ptail[p].turn) \in Int
    BY <2>1, BaseOf
  <2>3. Word(ptail[p]) = Base(ptail[p].turn) + i0
    BY DEF Word, Base
  <2> QED
    BY <2>1, <2>2, <2>3, SMTT(40)
<1>u. /\ ppc[p] = "publish" /\ stamp' = [stamp EXCEPT ![i0] = Word(ptail[p]) + 1]
      /\ ppc' = [ppc EXCEPT ![p] = "idle"] /\ ptail' = [ptail EXCEPT ![p] = Origin]
      /\ UNCHANGED <<head, tail, value, pushes, order, cpc, chead, got, popped, opc, ohead, wasEmpty>>
  BY DEF PushPublish, PushReturn, cvars, ovars
<1>w. /\ Writing(p) /\ ppc'[p] = "idle" /\ stamp'[i0] = Word(ptail[p]) + 1
      /\ \A q \in Producers : q # p => ppc'[q] = ppc[q] /\ ptail'[q] = ptail[q]
      /\ \A i \in Slots : i # i0 => stamp'[i] = stamp[i]
  BY <1>t, <1>u DEF Writing
<1>x. \A q \in Producers : Writing(q)' => /\ q # p /\ Writing(q) /\ ppc'[q] = ppc[q] /\ ptail'[q] = ptail[q]
                                          /\ ptail[q].idx # i0 /\ ptail[q].idx \in Slots
  <2>1. \A q \in Producers : Writing(q)' => q # p /\ Writing(q)
    BY <1>w DEF Writing
  <2> QED
    BY <1>t, <1>w, <2>1 DEF IInv, ExclusiveSlot, Cursors
<1>y. \A c \in Consumers : Reading(c) => chead[c].idx # i0 /\ chead[c].idx \in Slots
  BY <1>w DEF IInv, ExclusiveSlot, TypeOK, Cursors
<1>1. TypeOK'
  BY <1>t, <1>b, <1>u, OriginIsCursor DEF IInv, TypeOK
<1>2. Window' /\ Watching'
  BY <1>u DEF IInv, Window, Watching
<1>3. SlotStates'
  <2> SUFFICES ASSUME NEW i \in Slots
               PROVE  LET t == Visit(tail, i) IN
                      \/ /\ t = Visit(head, i) + 1
                         /\ \/ stamp'[i] = Base(t) + i
                            \/ /\ stamp'[i] = Base(t) + i + 1
                               /\ value[i] = order[Row(t) + i + 1]
                      \/ /\ t = Visit(head, i)
                         /\ stamp'[i] \in {Base(t) + i + 1, Base(t) + i + Lap}
    BY <1>u DEF SlotStates
  <2>1. CASE i = i0
    <3>1. /\ ptail[p].turn = Visit(tail, i0) /\ ptail[p].turn = Visit(head, i0) + 1
          /\ value[i0] = order[Ticket(ptail[p])]
      BY <1>u, <1>w DEF IInv, Filling
    <3>2. Ticket(ptail[p]) = Row(ptail[p].turn) + i0 + 1
      BY DEF Ticket, Row
    <3> QED
      BY <1>b, <1>w, <2>1, <3>1, <3>2
  <2>2. CASE i # i0
    BY <1>w, <2>2 DEF IInv, SlotStates
  <2> QED
    BY <2>1, <2>2
<1>4. Aiming' /\ Seeking'
  <2>1. /\ \A q \in Producers : ppc[q] = "cas" /\ ptail[q] = tail => stamp'[tail.idx] = Word(tail)
        /\ \A c \in Consumers : cpc[c] = "cas" /\ chead[c] = head => stamp'[head.idx] = Word(head) + 1
    BY <1>t, <1>b, <1>u, <1>w, ReleaseStore
  <2> QED
    BY <1>u, <1>w, <2>1 DEF IInv, Aiming, Seeking
<1>5. Filling'
  <2>1. Filling
    BY DEF IInv
  <2> SUFFICES ASSUME NEW q \in Producers, Writing(q)'
               PROVE  (LET i == ptail[q].idx IN
                       /\ ptail[q].turn = Visit(tail, i) /\ ptail[q].turn = Visit(head, i) + 1
                       /\ stamp[i] = Word(ptail[q])
                       /\ order[Ticket(ptail[q])] = <<q, pushes[q]>>
                       /\ ppc[q] = "publish" => value[i] = <<q, pushes[q]>>)'
    BY DEF Filling
  <2>2. /\ Writing(q) /\ ppc'[q] = ppc[q] /\ ptail'[q] = ptail[q]
        /\ stamp'[ptail[q].idx] = stamp[ptail[q].idx]
    BY <1>w, <1>x
  <2>3. LET i == ptail[q].idx IN
        /\ ptail[q].turn = Visit(tail, i) /\ ptail[q].turn = Visit(head, i) + 1
        /\ stamp[i] = Word(ptail[q])
        /\ order[Ticket(ptail[q])] = <<q, pushes[q]>>
        /\ ppc[q] = "publish" => value[i] = <<q, pushes[q]>>
    BY <2>1, <2>2 DEF Filling
  <2> QED
    BY <1>u, <2>2, <2>3
<1>6. Emptying'
  <2> SUFFICES ASSUME NEW c \in Consumers, Reading(c)
               PROVE  stamp'[chead[c].idx] = stamp[chead[c].idx]
    BY <1>u DEF IInv, Emptying, Reading
  <2> QED
    BY <1>w, <1>y
<1>7. ExclusiveSlot'
  BY <1>u, <1>x, SMTT(40) DEF IInv, ExclusiveSlot, Reading
<1> QED
  BY <1>1, <1>2, <1>3, <1>4, <1>5, <1>6, <1>7 DEF IInv

\* The move of the value out of the slot.
LEMMA PopReadIInv ==
    ASSUME IInv, NEW c \in Consumers, PopRead(c)
    PROVE  /\ IInv'
           /\ got' = [got EXCEPT ![c] = order[Ticket(chead[c])]]
           /\ Ticket(chead[c]) \in 1..Len(order)
<1> DEFINE i0 == chead[c].idx
<1>t. /\ cpc \in [Consumers -> {"idle", "stamp", "cas", "read", "release"}]
      /\ chead \in [Consumers -> Cursors] /\ i0 \in Slots /\ chead[c].turn \in Nat
      /\ got \in [Consumers -> {Nothing, Torn} \cup (Producers \X Nat)]
      /\ value \in [Slots -> {Torn} \cup (Producers \X Nat)]
      /\ order \in Seq(Producers \X Nat)
  BY DEF IInv, TypeOK, Cursors
<1>u. /\ cpc[c] = "read" /\ got' = [got EXCEPT ![c] = value[i0]] /\ value' = [value EXCEPT ![i0] = Torn]
      /\ cpc' = [cpc EXCEPT ![c] = "release"]
      /\ UNCHANGED <<head, tail, stamp, ppc, ptail, pushes, order, chead, popped, opc, ohead, wasEmpty>>
  BY DEF PopRead, pvars, ovars
<1>w. /\ Reading(c) /\ cpc'[c] = "release" /\ got'[c] = value[i0]
      /\ \A d \in Consumers : d # c => cpc'[d] = cpc[d] /\ got'[d] = got[d]
      /\ \A i \in Slots : i # i0 => value'[i] = value[i]
  BY <1>t, <1>u DEF Reading
<1>x. \A d \in Consumers : (Reading(d)' <=> Reading(d)) /\ (Reading(d) /\ d # c => chead[d].idx # i0)
  BY <1>w DEF Reading, IInv, ExclusiveSlot
<1>y. \A p \in Producers : Writing(p) => ptail[p].idx # i0 /\ ptail[p].idx \in Slots
  BY <1>w DEF IInv, ExclusiveSlot, TypeOK, Cursors
<1>v. /\ chead[c].turn = Visit(tail, i0) /\ chead[c].turn = Visit(head, i0)
      /\ stamp[i0] = Word(chead[c]) + 1 /\ value[i0] = order[Ticket(chead[c])]
  BY <1>u, <1>w DEF IInv, Emptying
<1>k. Ticket(chead[c]) \in 1..Len(order)
  <2>1. Visit(tail, i0) >= 0 => Row(Visit(tail, i0)) + i0 + 1 \in 1..Len(order)
    BY <1>t, VisitTicket
  <2>2. Row(Visit(tail, i0)) + i0 + 1 \in 1..Len(order)
    BY <1>t, <1>v, <2>1, SMTT(40)
  <2> QED
    BY <1>v, <2>2 DEF Ticket, Row
<1>g. value[i0] \in Producers \X Nat
  BY <1>t, <1>v, <1>k, SMTT(40)
<1>1. TypeOK'
  BY <1>t, <1>u, <1>g DEF IInv, TypeOK
<1>2. Window' /\ Aiming' /\ Watching'
  BY <1>u DEF IInv, Window, Aiming, Watching
<1>3. SlotStates'
  <2> SUFFICES ASSUME NEW i \in Slots
               PROVE  LET t == Visit(tail, i) IN
                      \/ /\ t = Visit(head, i) + 1
                         /\ \/ stamp[i] = Base(t) + i
                            \/ /\ stamp[i] = Base(t) + i + 1
                               /\ value'[i] = order[Row(t) + i + 1]
                      \/ /\ t = Visit(head, i)
                         /\ stamp[i] \in {Base(t) + i + 1, Base(t) + i + Lap}
    BY <1>u DEF SlotStates
  <2>1. CASE i = i0
    <3>1. Word(chead[c]) = Base(chead[c].turn) + i0
      BY DEF Word, Base
    <3> QED
      BY <1>v, <2>1, <3>1
  <2>2. CASE i # i0
    BY <1>w, <2>2 DEF IInv, SlotStates
  <2> QED
    BY <2>1, <2>2
<1>4. Seeking'
  BY <1>u, <1>w DEF IInv, Seeking
<1>5. Filling'
  BY <1>u, <1>w, <1>y DEF IInv, Filling, Writing
<1>6. Emptying'
  <2> SUFFICES ASSUME NEW d \in Consumers
               PROVE  /\ Reading(d) /\ cpc'[d] = "read" => value'[chead[d].idx] = order[Ticket(chead[d])]
                      /\ IF cpc'[d] = "release" THEN got'[d] \in Producers \X Nat ELSE got'[d] = Nothing
    BY <1>u, <1>x DEF IInv, Emptying
  <2>1. CASE d = c
    BY <1>w, <1>g, <2>1
  <2>2. CASE d # c
    <3>1. Reading(d) => chead[d].idx # i0 /\ chead[d].idx \in Slots
      BY <1>t, <1>x, <2>2 DEF Cursors
    <3> QED
      BY <1>w, <2>2, <3>1 DEF IInv, Emptying
  <2> QED
    BY <2>1, <2>2
<1>7. ExclusiveSlot'
  BY <1>u, <1>x DEF IInv, ExclusiveSlot, Writing
<1> QED
  BY <1>u, <1>v, <1>k, <1>1, <1>2, <1>3, <1>4, <1>5, <1>6, <1>7 DEF IInv

\* The release store of a pop.
LEMMA PopReleaseIInv ==
    ASSUME IInv, NEW c \in Consumers, PopRelease(c)
    PROVE  IInv'
<1> DEFINE i0 == chead[c].idx
<1>t. /\ cpc \in [Consumers -> {"idle", "stamp", "cas", "read", "release"}]
      /\ chead \in [Consumers -> Cursors] /\ stamp \in [Slots -> Int]
      /\ got \in [Consumers -> {Nothing, Torn} \cup (Producers \X Nat)]
      /\ chead[c] \in Cursors /\ i0 \in Slots
  BY DEF IInv, TypeOK, Cursors
<1>b. Word(chead[c]) = Base(chead[c].turn) + i0 /\ Word(chead[c]) + Lap \in Int
  <2>1. chead[c].turn \in Int /\ i0 \in Int
    BY <1>t, CursorFacts, SMTT(40)
  <2>2. Base(chead[c].turn) \in Int /\ Lap \in Int
    BY <2>1, BaseOf
  <2>3. Word(chead[c]) = Base(chead[c].turn) + i0
    BY DEF Word, Base
  <2> QED
    BY <2>1, <2>2, <2>3, SMTT(40)
<1>u. /\ cpc[c] = "release" /\ stamp' = [stamp EXCEPT ![i0] = Word(chead[c]) + Lap]
      /\ cpc' = [cpc EXCEPT ![c] = "idle"] /\ chead' = [chead EXCEPT ![c] = Origin]
      /\ got' = [got EXCEPT ![c] = Nothing]
      /\ UNCHANGED <<head, tail, value, ppc, ptail, pushes, order, popped, opc, ohead, wasEmpty>>
  BY DEF PopRelease, PopReturn, pvars, ovars
<1>w. /\ Reading(c) /\ cpc'[c] = "idle" /\ got'[c] = Nothing /\ stamp'[i0] = Word(chead[c]) + Lap
      /\ \A d \in Consumers : d # c => cpc'[d] = cpc[d] /\ chead'[d] = chead[d] /\ got'[d] = got[d]
      /\ \A i \in Slots : i # i0 => stamp'[i] = stamp[i]
  BY <1>t, <1>u DEF Reading
<1>x. \A d \in Consumers : Reading(d)' => /\ d # c /\ Reading(d) /\ cpc'[d] = cpc[d] /\ chead'[d] = chead[d]
                                          /\ chead[d].idx # i0 /\ chead[d].idx \in Slots
  <2>1. \A d \in Consumers : Reading(d)' => d # c /\ Reading(d)
    BY <1>w DEF Reading
  <2> QED
    BY <1>t, <1>w, <2>1 DEF IInv, ExclusiveSlot, Cursors
<1>y. \A p \in Producers : Writing(p) => ptail[p].idx # i0 /\ ptail[p].idx \in Slots
  BY <1>w, SMTT(40) DEF IInv, ExclusiveSlot, TypeOK, Cursors
<1>1. TypeOK'
  BY <1>t, <1>b, <1>u, OriginIsCursor DEF IInv, TypeOK
<1>2. Window' /\ Watching'
  BY <1>u DEF IInv, Window, Watching
<1>3. SlotStates'
  <2> SUFFICES ASSUME NEW i \in Slots
               PROVE  LET t == Visit(tail, i) IN
                      \/ /\ t = Visit(head, i) + 1
                         /\ \/ stamp'[i] = Base(t) + i
                            \/ /\ stamp'[i] = Base(t) + i + 1
                               /\ value[i] = order[Row(t) + i + 1]
                      \/ /\ t = Visit(head, i)
                         /\ stamp'[i] \in {Base(t) + i + 1, Base(t) + i + Lap}
    BY <1>u DEF SlotStates
  <2>1. CASE i = i0
    <3>1. chead[c].turn = Visit(tail, i0) /\ chead[c].turn = Visit(head, i0)
      BY <1>w DEF IInv, Emptying
    <3> QED
      BY <1>b, <1>w, <2>1, <3>1
  <2>2. CASE i # i0
    BY <1>w, <2>2 DEF IInv, SlotStates
  <2> QED
    BY <2>1, <2>2
<1>4. Aiming' /\ Seeking'
  <2>1. /\ \A q \in Producers : ppc[q] = "cas" /\ ptail[q] = tail => stamp'[tail.idx] = Word(tail)
        /\ \A d \in Consumers : cpc[d] = "cas" /\ chead[d] = head => stamp'[head.idx] = Word(head) + 1
    BY <1>t, <1>b, <1>u, <1>w, ReleaseStore
  <2> QED
    BY <1>u, <1>w, <2>1, SMTT(40) DEF IInv, Aiming, Seeking
<1>5. Filling'
  <2> SUFFICES ASSUME NEW p \in Producers, Writing(p)
               PROVE  stamp'[ptail[p].idx] = stamp[ptail[p].idx]
    BY <1>u DEF IInv, Filling, Writing
  <2> QED
    BY <1>w, <1>y
<1>6. Emptying'
  BY <1>u, <1>w, <1>x, SMTT(40) DEF IInv, Emptying
<1>7. ExclusiveSlot'
  BY <1>u, <1>x, SMTT(40) DEF IInv, ExclusiveSlot, Writing
<1> QED
  BY <1>1, <1>2, <1>3, <1>4, <1>5, <1>6, <1>7 DEF IInv

-----------------------------------------------------------------------------
(* The invariant, and what follows from it *)

\* Every step of every thread keeps the invariant.
LEMMA NextIInv == IInv /\ [Next]_vars => IInv'
<1> SUFFICES ASSUME IInv, [Next]_vars PROVE IInv'
  OBVIOUS
<1>1. ASSUME NEW p \in Producers, Producer(p) PROVE IInv'
  BY <1>1, PushLooks, PushReserveIInv, PushWriteIInv, PushPublishIInv DEF Producer
<1>2. ASSUME NEW c \in Consumers, Consumer(c) PROVE IInv'
  BY <1>2, PopLooks, PopReserveIInv, PopReadIInv, PopReleaseIInv DEF Consumer
<1>3. ASSUME NEW o \in Observers, Observer(o) PROVE IInv'
  BY <1>3, LenLooks
<1>4. CASE UNCHANGED vars
  <2>1. UNCHANGED <<head, tail, stamp, value, ppc, ptail, pushes, order, cpc, chead, got, popped,
                    opc, ohead, wasEmpty>>
    BY <1>4 DEF vars, shared, pvars, cvars, ovars
  <2>2. TypeOK' /\ Window'
    BY <2>1 DEF IInv, TypeOK, Window
  <2>3. SlotStates' /\ Aiming' /\ Filling'
    BY <2>1 DEF IInv, SlotStates, Aiming, Filling, Writing
  <2>4. Seeking' /\ Emptying' /\ Watching' /\ ExclusiveSlot'
    BY <2>1 DEF IInv, Seeking, Emptying, Watching, ExclusiveSlot, Writing, Reading
  <2> QED
    BY <2>2, <2>3, <2>4 DEF IInv
<1> QED
  BY <1>1, <1>2, <1>3, <1>4 DEF Next

LEMMA Invariance == Spec => []IInv
BY InitIInv, NextIInv, PTL DEF Spec

\* For any number of threads, slots and pushes, and whatever thread stalls where:
\* between a successful exchange and the release store a slot belongs to one
\* thread (try_queue.rs:103-104).
THEOREM SlotsAreExclusive == Spec => []ExclusiveSlot
<1>1. IInv => ExclusiveSlot
  BY DEF IInv
<1> QED
  BY Invariance, <1>1, PTL

\* len() is bounded by the capacity, and 0 only if the queue was empty when it
\* loaded the head, however far the cursors move between its two loads.
THEOREM LenIsBounded == Spec => []LenBounded
<1>1. IInv => LenBounded
  <2> SUFFICES ASSUME IInv, NEW o \in Observers, opc[o] = "tail"
               PROVE  LenResult(o) \in 0..Capacity /\ (LenResult(o) = 0 => wasEmpty[o])
    BY DEF LenBounded
  <2>1. /\ tail \in Cursors /\ ohead[o] \in Cursors
        /\ ohead[o] = tail => wasEmpty[o]
    BY DEF IInv, TypeOK, Watching
  <2>2. /\ tail.idx \in Nat /\ tail.idx < Capacity /\ Capacity \in Nat
        /\ ohead[o].idx \in Nat /\ ohead[o].idx < Capacity
    BY <2>1, CursorFacts
  <2>3. LenResult(o) \in 0..Capacity /\ (LenResult(o) = 0 => tail = ohead[o])
    BY <2>2, SMTT(40) DEF LenResult
  <2> QED
    BY <2>1, <2>3
<1> QED
  BY Invariance, <1>1, PTL

\* The cursors are never more than Capacity reservations apart.
LEMMA Occupancy ==
    ASSUME IInv
    PROVE  /\ Len(order) \in Nat /\ popped \in Nat /\ Capacity \in Nat
           /\ popped <= Len(order) /\ Len(order) <= popped + Capacity
           /\ tail.turn = head.turn + 1 /\ tail.idx = head.idx <=> Len(order) = popped + Capacity
           /\ tail = head <=> Len(order) = popped
<1>1. /\ head \in Cursors /\ tail \in Cursors /\ order \in Seq(Producers \X Nat) /\ popped \in Nat
      /\ Ticket(tail) = Len(order) + 1 /\ Ticket(head) = popped + 1
      /\ \/ tail.turn = head.turn /\ head.idx <= tail.idx
         \/ tail.turn = head.turn + 1 /\ tail.idx <= head.idx
  BY DEF IInv, TypeOK, Window
<1>2. Len(order) \in Nat
  BY <1>1, SMTT(40)
<1>3. /\ head.turn \in Int /\ head.idx \in Nat /\ head.idx < Capacity
      /\ tail.turn \in Int /\ tail.idx \in Nat /\ tail.idx < Capacity /\ Capacity \in Nat
  BY <1>1, CursorFacts
<1>4. /\ Row(head.turn) \in Int /\ Row(head.turn + 1) = Row(head.turn) + Capacity
  BY <1>3, RowFacts
<1>5. Row(tail.turn) + tail.idx + 1 = Len(order) + 1 /\ Row(head.turn) + head.idx + 1 = popped + 1
  BY <1>1 DEF Ticket, Row
<1>p. popped \in Nat
  BY <1>1
<1>6. tail = head <=> tail.turn = head.turn /\ tail.idx = head.idx
  BY <1>1, SMTT(40) DEF Cursors
<1>7. PICK n \in Nat, k \in Nat, r \in Int, h \in Nat, t \in Nat, c \in Nat :
        /\ n = Len(order) /\ k = popped /\ r = Row(head.turn) /\ h = head.idx
        /\ t = tail.idx /\ c = Capacity /\ h < c /\ t < c /\ r + h + 1 = k + 1
  BY <1>p, <1>2, <1>3, <1>4, <1>5
<1>n. h < c /\ t < c /\ r + h + 1 = k + 1
  BY <1>7
<1>8. CASE tail.turn = head.turn /\ head.idx <= tail.idx
  <2>1. r + t + 1 = n + 1 /\ h <= t
    BY <1>5, <1>7, <1>8
  <2>2. k <= n /\ n < k + c /\ (t = h <=> n = k)
    BY <1>n, <2>1, SMTT(40)
  <2>3. /\ popped <= Len(order) /\ Len(order) < popped + Capacity
        /\ tail.idx = head.idx <=> Len(order) = popped
    BY <1>7, <2>2
  <2> QED
    BY <1>p, <1>2, <1>3, <1>6, <1>8, <2>3, SMTT(40)
<1>9. CASE tail.turn = head.turn + 1 /\ tail.idx <= head.idx
  <2>1. r + c + t + 1 = n + 1 /\ t <= h
    BY <1>4, <1>5, <1>7, <1>9
  <2>2. k < n /\ n <= k + c /\ (t = h <=> n = k + c)
    BY <1>n, <2>1, SMTT(40)
  <2>3. /\ popped < Len(order) /\ Len(order) <= popped + Capacity
        /\ tail.idx = head.idx <=> Len(order) = popped + Capacity
    BY <1>7, <2>2
  <2> QED
    BY <1>p, <1>2, <1>3, <1>6, <1>9, <2>3, SMTT(40)
<1> QED
  BY <1>1, <1>8, <1>9

\* try_push_classified() reports Full only at an instant at which Capacity values
\* are queued or in transfer, although it compares a head loaded after the tail.
THEOREM FullIsFull == Spec => FullMeansFull
<1> DEFINE Step == \A p \in Producers :
                      ppc[p] = "classify" /\ ppc'[p] = "full" => Len(order) - popped = Capacity
<1>1. IInv /\ [Next]_vars => Step
  <2> SUFFICES ASSUME IInv, [Next]_vars, NEW p \in Producers, ppc[p] = "classify", ppc'[p] = "full"
               PROVE  Len(order) - popped = Capacity
    OBVIOUS
  <2>t. /\ ppc \in [Producers -> {"idle", "full", "stamp", "classify", "cas", "write", "publish"}]
        /\ ptail[p] \in Cursors /\ head \in Cursors /\ tail \in Cursors
    BY DEF IInv, TypeOK
  <2>1. PushClassify(p)
    <3>1. ASSUME NEW q \in Producers, Producer(q) PROVE PushClassify(p)
      <4>1. CASE q = p
        BY <3>1, <4>1 DEF Producer, PushLoadTail, PushCheckStamp, PushReserve, PushWrite, PushPublish
      <4>2. CASE q # p
        BY <3>1, <4>2, <2>t DEF Producer, PushLoadTail, PushCheckStamp, PushClassify, PushReserve, PushWrite,
           PushPublish, PushReturn
      <4> QED
        BY <4>1, <4>2
    <3>2. ASSUME NEW c \in Consumers, Consumer(c) PROVE ppc' = ppc
      BY <3>2 DEF Consumer, PopLoadHead, PopCheckStamp, PopReserve, PopRead, PopRelease, pvars
    <3>3. ASSUME NEW o \in Observers, Observer(o) PROVE ppc' = ppc
      BY <3>3 DEF Observer, LenLoadHead, LenLoadTail, pvars
    <3>4. UNCHANGED vars => ppc' = ppc
      BY DEF vars, pvars
    <3> QED
      BY <3>1, <3>2, <3>3, <3>4 DEF Next
  <2>2. Word(head) + Lap = Word(ptail[p])
    BY <2>t, <2>1 DEF PushClassify, PushReturn
  <2>3. UpTo(ptail[p], tail)
    BY DEF IInv, Aiming
  <2>4. /\ head.turn \in Int /\ head.turn + 1 \in Int /\ head.idx \in Slots /\ head.idx \in Nat
        /\ tail.turn \in Int /\ tail.idx \in Nat
        /\ ptail[p].turn \in Int /\ ptail[p].idx \in Slots /\ ptail[p].idx \in Nat
    BY <2>t, CursorFacts, SMTT(40)
  <2>5. Base(head.turn + 1) + head.idx = Base(ptail[p].turn) + ptail[p].idx
    <3>1. Base(head.turn + 1) = Base(head.turn) + Lap /\ Base(head.turn) \in Int /\ Lap \in Int
      BY <2>4, BaseOf
    <3>2. Word(head) = Base(head.turn) + head.idx /\ Word(ptail[p]) = Base(ptail[p].turn) + ptail[p].idx
      BY DEF Word, Base
    <3> QED
      BY <2>2, <2>4, <3>1, <3>2, SMTT(40)
  <2>6. ptail[p].turn = head.turn + 1 /\ ptail[p].idx = head.idx
    BY <2>4, <2>5, WordsApart, SMTT(40)
  <2>7. tail.turn = head.turn + 1 /\ tail.idx = head.idx
    BY <2>3, <2>4, <2>6, SMTT(40) DEF IInv, Window, UpTo
  <2> QED
    BY <2>7, Occupancy, SMTT(40)
<1> QED
  BY Invariance, <1>1, PTL DEF Spec, FullMeansFull

-----------------------------------------------------------------------------
(* The ring implements a bounded FIFO *)

\* The values between the cursors are a suffix of all that were pushed.
LEMMA Suffix ==
    ASSUME NEW S, NEW s \in Seq(S), NEW k \in Nat, k <= Len(s)
    PROVE  /\ SubSeq(s, k + 1, Len(s)) \in Seq(S)
           /\ Len(SubSeq(s, k + 1, Len(s))) = Len(s) - k
           /\ \A i \in 1..(Len(s) - k) : SubSeq(s, k + 1, Len(s))[i] = s[k + i]
BY SMTT(40)

\* A pop takes the first of them.
LEMMA QueueTail ==
    ASSUME NEW S, NEW s \in Seq(S), NEW k \in Nat, k < Len(s)
    PROVE  /\ SubSeq(s, k + 1, Len(s)) # <<>>
           /\ Head(SubSeq(s, k + 1, Len(s))) = s[k + 1]
           /\ Tail(SubSeq(s, k + 1, Len(s))) = SubSeq(s, k + 2, Len(s))
<1> DEFINE q == SubSeq(s, k + 1, Len(s))
<1>1. k + 1 \in 1..Len(s) /\ (k + 1) + 1 = k + 2 /\ k <= Len(s) /\ Len(s) - k # 0
  BY SMTT(40)
<1>2. Head(q) = s[k + 1] /\ Tail(q) = SubSeq(s, (k + 1) + 1, Len(s))
  BY <1>1, SMTT(40)
<1>3. q \in Seq(S) /\ Len(q) = Len(s) - k
  BY <1>1, Suffix
<1>4. q # <<>>
  <2> HIDE DEF q
  <2> QED
    BY <1>1, <1>3
<1> QED
  BY <1>1, <1>2, <1>4

LEMMA EqualEntries ==
    ASSUME NEW S, NEW s \in Seq(S), NEW t \in Seq(S), Len(s) = Len(t),
           \A i \in 1..Len(s) : s[i] = t[i]
    PROVE  s = t
BY SMTT(40)

\* A push adds one at the end.
LEMMA QueueSteps ==
    ASSUME NEW S, NEW s \in Seq(S), NEW v \in S, NEW k \in Nat, k <= Len(s)
    PROVE  /\ Len(SubSeq(s, k + 1, Len(s))) = Len(s) - k
           /\ SubSeq(Append(s, v), k + 1, Len(s) + 1) = Append(SubSeq(s, k + 1, Len(s)), v)
<1> DEFINE a == Append(s, v)
<1> DEFINE q == SubSeq(s, k + 1, Len(s))
<1> DEFINE r == SubSeq(a, k + 1, Len(s) + 1)
<1>1. /\ a \in Seq(S) /\ Len(a) = Len(s) + 1 /\ k <= Len(s) + 1
      /\ (\A i \in 1..Len(s) : a[i] = s[i]) /\ a[Len(s) + 1] = v
  BY SMTT(40)
<1>2. /\ r \in Seq(S) /\ Len(r) = Len(s) + 1 - k
      /\ \A i \in 1..(Len(s) + 1 - k) : r[i] = a[k + i]
  BY <1>1, Suffix, SMTT(40)
<1>3. q \in Seq(S) /\ Len(q) = Len(s) - k /\ \A i \in 1..(Len(s) - k) : q[i] = s[k + i]
  BY Suffix
<1> HIDE DEF a, q, r
<1>4. /\ Append(q, v) \in Seq(S) /\ Len(Append(q, v)) = Len(s) + 1 - k
      /\ (\A i \in 1..(Len(s) - k) : Append(q, v)[i] = q[i]) /\ Append(q, v)[Len(s) + 1 - k] = v
  BY <1>3, SMTT(40)
<1>5. ASSUME NEW i \in 1..(Len(s) + 1 - k) PROVE r[i] = Append(q, v)[i]
  <2>1. CASE i = Len(s) + 1 - k
    BY <1>1, <1>2, <1>4, <2>1, SMTT(40)
  <2>2. CASE i # Len(s) + 1 - k
    <3>1. i \in 1..(Len(s) - k) /\ k + i \in 1..Len(s)
      BY <2>2, SMTT(40)
    <3> QED
      BY <1>1, <1>2, <1>3, <1>4, <3>1
  <2> QED
    BY <2>1, <2>2
<1>6. r = Append(q, v)
  BY <1>2, <1>4, <1>5, EqualEntries
<1> QED
  BY <1>3, <1>6 DEF a, q, r

\* The state of the abstract queue, by name.
Queued == SubSeq(order, popped + 1, Len(order))
Taken == [c \in Consumers |-> TakenBy(c)]

\* A value being taken keeps its place in the order of reservations.
LEMMA TakenStable ==
    ASSUME IInv, NEW c \in Consumers, cpc[c] = "read"
    PROVE  Ticket(chead[c]) \in 1..Len(order) /\ order[Ticket(chead[c])] \in Producers \X Nat
<1> DEFINE i == chead[c].idx
<1>1. i \in Slots /\ chead[c].turn \in Nat /\ order \in Seq(Producers \X Nat)
  BY DEF IInv, TypeOK, Cursors
<1>2. chead[c].turn = Visit(tail, i)
  BY DEF IInv, Emptying, Reading
<1>3. Visit(tail, i) >= 0 => Row(Visit(tail, i)) + i + 1 \in 1..Len(order)
  BY <1>1, VisitTicket
<1>4. Ticket(chead[c]) = Row(Visit(tail, i)) + i + 1
  BY <1>2 DEF Ticket, Row
<1>5. Ticket(chead[c]) \in 1..Len(order)
  BY <1>1, <1>2, <1>3, <1>4, SMTT(40)
<1> QED
  BY <1>1, <1>5, SMTT(40)

\* A push takes effect when it wins the tail.
LEMMA PushRefines ==
    ASSUME IInv, NEW p \in Producers, PushReserve(p), tail = ptail[p]
    PROVE  /\ Len(Queued) < Capacity
           /\ Queued' = Append(Queued, <<p, pushes[p] + 1>>)
           /\ pushes' = [pushes EXCEPT ![p] = pushes[p] + 1]
           /\ Taken' = Taken
<1>u. /\ ppc[p] = "cas" /\ order' = Append(order, <<p, pushes[p] + 1>>)
      /\ pushes' = [pushes EXCEPT ![p] = pushes[p] + 1]
      /\ UNCHANGED <<cpc, chead, got, popped>>
  BY DEF PushReserve, cvars
<1>t. /\ order \in Seq(Producers \X Nat) /\ <<p, pushes[p] + 1>> \in Producers \X Nat
      /\ head \in Cursors /\ tail \in Cursors
  BY SMTT(40) DEF IInv, TypeOK
<1>o. /\ Len(order) \in Nat /\ popped \in Nat /\ Capacity \in Nat
      /\ popped <= Len(order) /\ Len(order) <= popped + Capacity
      /\ Len(order) = popped + Capacity => tail.turn = head.turn + 1 /\ tail.idx = head.idx
  BY Occupancy
<1>1. Len(order) < popped + Capacity
  <2>1. Visit(head, tail.idx) = tail.turn - 1
    BY <1>u, TailSlotVacant DEF IInv, Aiming
  <2>2. head.turn \in Int /\ tail.turn \in Int /\ head.idx \in Nat
    BY <1>t, CursorFacts
  <2>3. ~(tail.turn = head.turn + 1 /\ tail.idx = head.idx)
    BY <2>1, <2>2, SMTT(40) DEF Visit
  <2> QED
    BY <1>o, <2>3, SMTT(40)
<1>2. Len(Queued) = Len(order) - popped
  BY <1>t, <1>o, QueueSteps, SMTT(40) DEF Queued
<1>3. Queued' = Append(Queued, <<p, pushes[p] + 1>>)
  <2>1. Len(order') = Len(order) + 1
    BY <1>t, <1>u, SMTT(40)
  <2>2. Queued' = SubSeq(Append(order, <<p, pushes[p] + 1>>), popped + 1, Len(order) + 1)
    BY <1>u, <2>1 DEF Queued
  <2> QED
    BY <1>t, <1>o, <2>2, QueueSteps DEF Queued
<1>4. Taken' = Taken
  <2>1. ASSUME NEW c \in Consumers PROVE TakenBy(c)' = TakenBy(c)
    <3>1. CASE cpc[c] = "read"
      <4>1. Ticket(chead[c]) \in 1..Len(order)
        BY <3>1, TakenStable
      <4>2. order'[Ticket(chead[c])] = order[Ticket(chead[c])]
        BY <1>t, <1>u, <4>1, SMTT(40)
      <4> QED
        BY <1>u, <3>1, <4>2 DEF TakenBy
    <3>2. CASE cpc[c] # "read"
      BY <1>u, <3>2 DEF TakenBy
    <3> QED
      BY <3>1, <3>2
  <2> QED
    BY <2>1 DEF Taken
<1> QED
  BY <1>o, <1>u, <1>1, <1>2, <1>3, <1>4, SMTT(40)

\* A pop takes effect when it wins the head.
LEMMA PopRefines ==
    ASSUME IInv, NEW c \in Consumers, PopReserve(c), head = chead[c]
    PROVE  /\ Queued # <<>> /\ Taken[c] = Nothing
           /\ Taken' = [Taken EXCEPT ![c] = Head(Queued)]
           /\ Queued' = Tail(Queued)
           /\ pushes' = pushes
<1>u. /\ cpc[c] = "cas" /\ popped' = popped + 1 /\ cpc' = [cpc EXCEPT ![c] = "read"]
      /\ UNCHANGED <<chead, got, order, pushes>>
  BY DEF PopReserve, pvars
<1>t. /\ order \in Seq(Producers \X Nat) /\ head \in Cursors /\ tail \in Cursors
      /\ cpc \in [Consumers -> {"idle", "stamp", "cas", "read", "release"}]
      /\ Ticket(head) = popped + 1
  BY DEF IInv, TypeOK, Window
<1>o. Len(order) \in Nat /\ popped \in Nat /\ popped <= Len(order) /\ (tail = head <=> Len(order) = popped)
  BY Occupancy
<1>1. popped < Len(order)
  <2>1. Visit(tail, head.idx) = head.turn
    BY <1>u, HeadSlotPublished DEF IInv, Seeking
  <2>2. head.turn \in Int /\ head.idx \in Nat
    BY <1>t, CursorFacts
  <2>3. tail # head
    BY <2>1, <2>2, SMTT(40) DEF Visit
  <2> QED
    BY <1>o, <2>3, SMTT(40)
<1>2. /\ Queued # <<>> /\ Head(Queued) = order[popped + 1]
      /\ Tail(Queued) = SubSeq(order, popped + 2, Len(order))
  BY <1>t, <1>o, <1>1, QueueTail DEF Queued
<1>3. Queued' = Tail(Queued)
  <2>1. popped' + 1 = popped + 2
    BY <1>o, <1>u, SMTT(40)
  <2> QED
    BY <1>u, <1>2, <2>1 DEF Queued
<1>4. TakenBy(c) = Nothing
  BY <1>u DEF TakenBy, IInv, Emptying
<1>5. \A d \in Consumers : TakenBy(d)' = IF d = c THEN order[popped + 1] ELSE TakenBy(d)
  <2>1. cpc'[c] = "read" /\ \A d \in Consumers : d # c => cpc'[d] = cpc[d]
    BY <1>t, <1>u
  <2> QED
    BY <1>t, <1>u, <2>1 DEF TakenBy
<1> QED
  BY <1>2, <1>3, <1>4, <1>5, <1>u DEF Taken

\* The move out of the slot changes where the taken value is, not which it is.
LEMMA PopReadStutters ==
    ASSUME IInv, NEW c \in Consumers, PopRead(c)
    PROVE  Queued' = Queued /\ pushes' = pushes /\ Taken' = Taken
<1>u. /\ cpc[c] = "read" /\ cpc' = [cpc EXCEPT ![c] = "release"]
      /\ UNCHANGED <<chead, order, popped, pushes>>
  BY DEF PopRead, pvars
<1>t. /\ cpc \in [Consumers -> {"idle", "stamp", "cas", "read", "release"}]
      /\ got \in [Consumers -> {Nothing, Torn} \cup (Producers \X Nat)]
  BY DEF IInv, TypeOK
<1>1. got' = [got EXCEPT ![c] = order[Ticket(chead[c])]]
  BY PopReadIInv
<1>2. /\ cpc'[c] = "release" /\ got'[c] = order[Ticket(chead[c])]
      /\ \A d \in Consumers : d # c => cpc'[d] = cpc[d] /\ got'[d] = got[d]
  BY <1>t, <1>u, <1>1
<1>3. \A d \in Consumers : TakenBy(d)' = TakenBy(d)
  BY <1>u, <1>2 DEF TakenBy
<1> QED
  BY <1>u, <1>3 DEF Queued, Taken

\* The return of a pop gives the value up.
LEMMA PopReleaseRefines ==
    ASSUME IInv, NEW c \in Consumers, PopRelease(c)
    PROVE  /\ Taken[c] # Nothing /\ Taken' = [Taken EXCEPT ![c] = Nothing]
           /\ Queued' = Queued /\ pushes' = pushes
<1>u. /\ cpc[c] = "release" /\ cpc' = [cpc EXCEPT ![c] = "idle"]
      /\ chead' = [chead EXCEPT ![c] = Origin] /\ got' = [got EXCEPT ![c] = Nothing]
      /\ UNCHANGED <<order, popped, pushes>>
  BY DEF PopRelease, PopReturn, pvars
<1>t. /\ cpc \in [Consumers -> {"idle", "stamp", "cas", "read", "release"}]
      /\ chead \in [Consumers -> Cursors]
      /\ got \in [Consumers -> {Nothing, Torn} \cup (Producers \X Nat)]
  BY DEF IInv, TypeOK
<1>1. got[c] \in Producers \X Nat
  BY <1>u DEF IInv, Emptying
<1>2. got[c] # Nothing
  <2>1. PICK a \in Producers, b \in Nat : got[c] = <<a, b>>
    BY <1>1, SMTT(40)
  <2> QED
    BY <2>1, SMTT(40) DEF Nothing
<1>3. /\ cpc'[c] = "idle" /\ got'[c] = Nothing
      /\ \A d \in Consumers : d # c => cpc'[d] = cpc[d] /\ got'[d] = got[d] /\ chead'[d] = chead[d]
  BY <1>t, <1>u
<1>4. /\ TakenBy(c) = got[c]
      /\ \A d \in Consumers : TakenBy(d)' = IF d = c THEN Nothing ELSE TakenBy(d)
  BY <1>u, <1>3, SMTT(40) DEF TakenBy
<1> QED
  BY <1>u, <1>2, <1>4 DEF Queued, Taken

\* Every step of the ring is a step of the FIFO or leaves it unchanged.
LEMMA StepRefines == IInv /\ [Next]_vars => [Fifo!Next]_(Fifo!fifoVars)
<1> SUFFICES ASSUME IInv, [Next]_vars
             PROVE  Fifo!Next \/ (Queued' = Queued /\ pushes' = pushes /\ Taken' = Taken)
  BY DEF Fifo!fifoVars, Queued, Taken
<1> DEFINE Stutter == Queued' = Queued /\ pushes' = pushes /\ Taken' = Taken
<1>0. UNCHANGED <<order, popped, pushes, cpc, chead, got>> => Stutter
  BY DEF Queued, Taken, TakenBy
<1>1. ASSUME NEW p \in Producers, Producer(p) PROVE Fifo!Next \/ Stutter
  <2>1. CASE PushReserve(p) /\ tail = ptail[p]
    <3>1. /\ Len(Queued) < Capacity /\ Queued' = Append(Queued, <<p, pushes[p] + 1>>)
          /\ pushes' = [pushes EXCEPT ![p] = pushes[p] + 1] /\ Taken' = Taken
      BY <2>1, PushRefines
    <3>2. Fifo!Push(p)
      BY <3>1 DEF Fifo!Push, Queued, Taken
    <3> QED
      BY <3>2 DEF Fifo!Next
  <2>2. CASE ~(PushReserve(p) /\ tail = ptail[p])
    <3>1. UNCHANGED <<order, popped, pushes, cpc, chead, got>>
      BY <1>1, <2>2 DEF Producer, PushLoadTail, PushCheckStamp, PushClassify, PushReserve, PushWrite, PushPublish,
         PushReturn, cvars
    <3> QED
      BY <1>0, <3>1
  <2> QED
    BY <2>1, <2>2
<1>2. ASSUME NEW c \in Consumers, Consumer(c) PROVE Fifo!Next \/ Stutter
  <2>1. CASE PopLoadHead(c) \/ PopCheckStamp(c) \/ (PopReserve(c) /\ head # chead[c])
    <3>1. /\ cpc[c] # "read" /\ got[c] = Nothing
          /\ UNCHANGED <<order, popped, pushes>>
      BY <2>1 DEF PopLoadHead, PopCheckStamp, PopReserve, pvars, IInv, Emptying
    <3>2. /\ cpc \in [Consumers -> {"idle", "stamp", "cas", "read", "release"}]
          /\ chead \in [Consumers -> Cursors]
          /\ got \in [Consumers -> {Nothing, Torn} \cup (Producers \X Nat)]
      BY DEF IInv, TypeOK
    <3>3. /\ cpc'[c] # "read" /\ got'[c] = Nothing
          /\ \A d \in Consumers : d # c => cpc'[d] = cpc[d] /\ got'[d] = got[d] /\ chead'[d] = chead[d]
      BY <2>1, <3>1, <3>2 DEF PopLoadHead, PopCheckStamp, PopReserve, PopReturn
    <3>4. \A d \in Consumers : TakenBy(d)' = TakenBy(d)
      BY <3>1, <3>3 DEF TakenBy
    <3> QED
      BY <3>1, <3>4 DEF Queued, Taken
  <2>2. CASE PopReserve(c) /\ head = chead[c]
    <3>1. /\ Queued # <<>> /\ Taken[c] = Nothing
          /\ Taken' = [Taken EXCEPT ![c] = Head(Queued)]
          /\ Queued' = Tail(Queued) /\ pushes' = pushes
      BY <2>2, PopRefines
    <3>2. Fifo!Pop(c)
      BY <3>1 DEF Fifo!Pop, Fifo!Nothing, Nothing, Queued, Taken
    <3> QED
      BY <3>2 DEF Fifo!Next
  <2>3. CASE PopRead(c)
    BY <2>3, PopReadStutters
  <2>4. CASE PopRelease(c)
    <3>1. /\ Taken[c] # Nothing /\ Taken' = [Taken EXCEPT ![c] = Nothing]
          /\ Queued' = Queued /\ pushes' = pushes
      BY <2>4, PopReleaseRefines
    <3>2. Fifo!Return(c)
      BY <3>1 DEF Fifo!Return, Fifo!Nothing, Nothing, Queued, Taken
    <3> QED
      BY <3>2 DEF Fifo!Next
  <2> QED
    BY <1>2, <2>1, <2>2, <2>3, <2>4 DEF Consumer
<1>3. ASSUME NEW o \in Observers, Observer(o) PROVE Stutter
  <2>1. UNCHANGED <<order, popped, pushes, cpc, chead, got>>
    BY <1>3 DEF Observer, LenLoadHead, LenLoadTail, pvars, cvars
  <2> QED
    BY <1>0, <2>1
<1>4. CASE UNCHANGED vars
  <2>1. UNCHANGED <<order, popped, pushes, cpc, chead, got>>
    BY <1>4 DEF vars, pvars, cvars
  <2> QED
    BY <1>0, <2>1
<1> QED
  BY <1>1, <1>2, <1>3, <1>4 DEF Next

\* For any number of threads, slots and pushes the ring is a bounded FIFO: each
\* push and each pop takes effect at its compare-exchange, no value is lost,
\* duplicated, torn or handed out of order, and no more than Capacity are queued.
THEOREM RingImplementsFifo == Spec => ImplementsFifo
<1>1. Init => Fifo!Init
  <2> SUFFICES ASSUME Init PROVE Fifo!Init
    OBVIOUS
  <2>1. SubSeq(order, popped + 1, Len(order)) = <<>>
    <3>1. order = <<>> /\ popped = 0 /\ Len(order) = 0
      BY DEF Init
    <3> QED
      BY <3>1, SMTT(40)
  <2>2. \A c \in Consumers : TakenBy(c) = Nothing
    BY DEF Init, TakenBy
  <2>3. pushes = [p \in Producers |-> 0]
    BY DEF Init
  <2> QED
    BY <2>1, <2>2, <2>3 DEF Fifo!Init, Fifo!Nothing, Nothing
<1> QED
  BY <1>1, Invariance, StepRefines, PTL DEF Spec, ImplementsFifo, Fifo!Spec
=============================================================================
