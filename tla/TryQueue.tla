------------------------------ MODULE TryQueue ------------------------------
(***************************************************************************)
(* The bounded multi-producer multi-consumer ring of                       *)
(* hexagent-runtime/src/try_queue.rs.  A cursor word is turn * Lap + idx:  *)
(* Lap is a power of two, so the code's masks select the two parts, and a  *)
(* cursor is modelled as the pair.  A slot's stamp is a word.  Each load,  *)
(* compare-exchange, value access and release store is a step of its own.  *)
(* The failing try operation returns at once; a caller that wants to goes  *)
(* again.  Cursors do not wrap around 2^64.                                *)
(***************************************************************************)
EXTENDS Integers, Sequences

CONSTANTS
    Producers, Consumers, Observers,
    Capacity,             \* slots.len()
    Lap,                  \* the smallest power of two above Capacity
    MaxPush               \* bound on the number of accepted values

ASSUME CapacityAssumption ==
    /\ Capacity \in Nat \ {0}
    /\ Lap \in Nat /\ Lap > Capacity
    /\ MaxPush \in Nat

VARIABLES
    head, tail,           \* the cursors: [turn, idx]
    stamp,                \* slots[i].stamp
    value,                \* slots[i].value
    ppc, ptail,           \* producer: program counter, loaded tail
    cpc, chead, got,      \* consumer: program counter, loaded head, popped value
    opc, ohead,           \* caller of len(): program counter, loaded head
    pushes,               \* history: values accepted from each producer
    order,                \* history: values in the order of their reservations
    popped,               \* history: number of reservations of the head
    wasEmpty              \* history: queue empty when len() loaded the head

shared == <<head, tail, stamp, value>>
pvars == <<ppc, ptail, pushes, order>>
cvars == <<cpc, chead, got, popped>>
ovars == <<opc, ohead, wasEmpty>>
vars == <<shared, pvars, cvars, ovars>>

Slots == 0..Capacity-1
Nothing == <<>>
Torn == <<-1>>            \* a value while it is being written or moved out
Values == Producers \X (1..MaxPush)
Origin == [turn |-> 0, idx |-> 0]

Word(pos) == pos.turn * Lap + pos.idx

\* next(): the following slot, or slot 0 of the following turn.
next(pos) ==
    IF pos.idx + 1 < Capacity
    THEN [pos EXCEPT !.idx = @ + 1]
    ELSE [turn |-> pos.turn + 1, idx |-> 0]

\* The number of a position in the order of reservations, from 1.
Ticket(pos) == pos.turn * Capacity + pos.idx + 1

Init ==
    /\ head = Origin
    /\ tail = Origin
    /\ stamp = [i \in Slots |-> i]
    /\ value = [i \in Slots |-> Torn]
    /\ ppc = [p \in Producers |-> "idle"]
    /\ ptail = [p \in Producers |-> Origin]
    /\ cpc = [c \in Consumers |-> "idle"]
    /\ chead = [c \in Consumers |-> Origin]
    /\ got = [c \in Consumers |-> Nothing]
    /\ opc = [o \in Observers |-> "idle"]
    /\ ohead = [o \in Observers |-> Origin]
    /\ pushes = [p \in Producers |-> 0]
    /\ order = <<>>
    /\ popped = 0
    /\ wasEmpty = [o \in Observers |-> TRUE]

-----------------------------------------------------------------------------
(* try_push, try_push_owned, try_push_slot and try_push_classified *)

\* A push ends: its locals are dropped.  "full" is the return of Full, "idle"
\* every other return.
PushReturn(p, pc) ==
    /\ ppc' = [ppc EXCEPT ![p] = pc]
    /\ ptail' = [ptail EXCEPT ![p] = Origin]

PushLoadTail(p) ==
    /\ ppc[p] \in {"idle", "full"}
    /\ Len(order) < MaxPush
    /\ ptail' = [ptail EXCEPT ![p] = tail]
    /\ ppc' = [ppc EXCEPT ![p] = "stamp"]
    /\ UNCHANGED <<shared, pushes, order, cvars, ovars>>

\* A producer that takes any stamp of an earlier turn for a vacant slot.
PushCheckStamp_AnyOlder(p) ==
    /\ ppc[p] = "stamp"
    /\ IF stamp[ptail[p].idx] <= Word(ptail[p])
       THEN ppc' = [ppc EXCEPT ![p] = "cas"] /\ UNCHANGED ptail
       ELSE \/ PushReturn(p, "idle")
            \/ ppc' = [ppc EXCEPT ![p] = "classify"] /\ UNCHANGED ptail
    /\ UNCHANGED <<shared, pushes, order, cvars, ovars>>

\* A slot whose stamp is not the loaded tail is not vacant: the push fails,
\* try_push_classified after it has also looked at the head.
PushCheckStamp(p) ==
    /\ ppc[p] = "stamp"
    /\ IF stamp[ptail[p].idx] = Word(ptail[p])
       THEN ppc' = [ppc EXCEPT ![p] = "cas"] /\ UNCHANGED ptail
       ELSE \/ PushReturn(p, "idle")
            \/ ppc' = [ppc EXCEPT ![p] = "classify"] /\ UNCHANGED ptail
    /\ UNCHANGED <<shared, pushes, order, cvars, ovars>>

\* Every slot that is not vacant is reported as a full queue.
PushClassify_AlwaysFull(p) ==
    /\ ppc[p] = "classify"
    /\ PushReturn(p, "full")
    /\ UNCHANGED <<shared, pushes, order, cvars, ovars>>

PushClassify(p) ==
    /\ ppc[p] = "classify"
    /\ PushReturn(p, IF Word(head) + Lap = Word(ptail[p]) THEN "full" ELSE "idle")
    /\ UNCHANGED <<shared, pushes, order, cvars, ovars>>

\* The tail is advanced with a plain store of the loaded value's successor.
PushReserve_Store(p) ==
    /\ ppc[p] = "cas"
    /\ tail' = next(ptail[p])
    /\ order' = Append(order, <<p, pushes[p] + 1>>)
    /\ pushes' = [pushes EXCEPT ![p] = @ + 1]
    /\ value' = [value EXCEPT ![ptail[p].idx] = Torn]
    /\ ppc' = [ppc EXCEPT ![p] = "write"]
    /\ UNCHANGED <<head, stamp, ptail, cvars, ovars>>

\* The compare-exchange of the tail; the write into the slot begins with it.
PushReserve(p) ==
    /\ ppc[p] = "cas"
    /\ \/ /\ tail = ptail[p]
          /\ tail' = next(ptail[p])
          /\ order' = Append(order, <<p, pushes[p] + 1>>)
          /\ pushes' = [pushes EXCEPT ![p] = @ + 1]
          /\ value' = [value EXCEPT ![ptail[p].idx] = Torn]
          /\ ppc' = [ppc EXCEPT ![p] = "write"]
          /\ UNCHANGED ptail
       \/ /\ tail # ptail[p]
          /\ PushReturn(p, "idle")
          /\ UNCHANGED <<tail, order, pushes, value>>
    /\ UNCHANGED <<head, stamp, cvars, ovars>>

PushWrite(p) ==
    /\ ppc[p] = "write"
    /\ value' = [value EXCEPT ![ptail[p].idx] = <<p, pushes[p]>>]
    /\ ppc' = [ppc EXCEPT ![p] = "publish"]
    /\ UNCHANGED <<head, tail, stamp, ptail, pushes, order, cvars, ovars>>

\* A reservation that is abandoned before its release store.
PushPublish_Abandoned(p) ==
    /\ ppc[p] = "publish"
    /\ PushReturn(p, "idle")
    /\ UNCHANGED <<shared, pushes, order, cvars, ovars>>

\* The release store that hands the slot to the consumers.
PushPublish(p) ==
    /\ ppc[p] = "publish"
    /\ stamp' = [stamp EXCEPT ![ptail[p].idx] = Word(ptail[p]) + 1]
    /\ PushReturn(p, "idle")
    /\ UNCHANGED <<head, tail, value, pushes, order, cvars, ovars>>

-----------------------------------------------------------------------------
(* try_pop *)

PopLoadHead(c) ==
    /\ cpc[c] = "idle"
    /\ chead' = [chead EXCEPT ![c] = head]
    /\ cpc' = [cpc EXCEPT ![c] = "stamp"]
    /\ UNCHANGED <<shared, pvars, got, popped, ovars>>

\* A pop ends: its locals are dropped.
PopReturn(c) ==
    /\ cpc' = [cpc EXCEPT ![c] = "idle"]
    /\ chead' = [chead EXCEPT ![c] = Origin]
    /\ got' = [got EXCEPT ![c] = Nothing]

\* None when the head is vacant or reserved and not yet published.
PopCheckStamp(c) ==
    /\ cpc[c] = "stamp"
    /\ IF stamp[chead[c].idx] = Word(chead[c]) + 1
       THEN cpc' = [cpc EXCEPT ![c] = "cas"] /\ UNCHANGED <<chead, got>>
       ELSE PopReturn(c)
    /\ UNCHANGED <<shared, pvars, popped, ovars>>

PopReserve(c) ==
    /\ cpc[c] = "cas"
    /\ \/ /\ head = chead[c]
          /\ head' = next(chead[c])
          /\ popped' = popped + 1
          /\ cpc' = [cpc EXCEPT ![c] = "read"]
          /\ UNCHANGED <<chead, got>>
       \/ /\ head # chead[c]
          /\ PopReturn(c)
          /\ UNCHANGED <<head, popped>>
    /\ UNCHANGED <<tail, stamp, value, pvars, ovars>>

PopRead(c) ==
    /\ cpc[c] = "read"
    /\ got' = [got EXCEPT ![c] = value[chead[c].idx]]
    /\ value' = [value EXCEPT ![chead[c].idx] = Torn]
    /\ cpc' = [cpc EXCEPT ![c] = "release"]
    /\ UNCHANGED <<head, tail, stamp, pvars, chead, popped, ovars>>

\* The release store that makes the slot vacant for the next turn; the value is
\* returned to the caller.
PopRelease(c) ==
    /\ cpc[c] = "release"
    /\ stamp' = [stamp EXCEPT ![chead[c].idx] = Word(chead[c]) + Lap]
    /\ PopReturn(c)
    /\ UNCHANGED <<head, tail, value, pvars, popped, ovars>>

-----------------------------------------------------------------------------
(* len and is_empty: two loads, no attempt at a stable snapshot *)

LenLoadHead(o) ==
    /\ opc[o] = "idle"
    /\ ohead' = [ohead EXCEPT ![o] = head]
    /\ wasEmpty' = [wasEmpty EXCEPT ![o] = head = tail]
    /\ opc' = [opc EXCEPT ![o] = "tail"]
    /\ UNCHANGED <<shared, pvars, cvars>>

\* len() compares only the slot indices of the two cursors.
LenResult_IndexOnly(o) ==
    LET h == ohead[o].idx  t == tail.idx IN
    IF t >= h THEN t - h ELSE Capacity + t - h

\* The result when len() loads the tail now.
LenResult(o) ==
    LET h == ohead[o].idx  t == tail.idx IN
    IF tail = ohead[o] THEN 0 ELSE IF t > h THEN t - h ELSE Capacity + t - h

\* The second load; the call returns LenResult(o) and drops its locals.
LenLoadTail(o) ==
    /\ opc[o] = "tail"
    /\ opc' = [opc EXCEPT ![o] = "idle"]
    /\ ohead' = [ohead EXCEPT ![o] = Origin]
    /\ wasEmpty' = [wasEmpty EXCEPT ![o] = TRUE]
    /\ UNCHANGED <<shared, pvars, cvars>>

-----------------------------------------------------------------------------
Producer(p) ==
    \/ PushLoadTail(p) \/ PushCheckStamp(p) \/ PushClassify(p)
    \/ PushReserve(p) \/ PushWrite(p) \/ PushPublish(p)

Consumer(c) ==
    \/ PopLoadHead(c) \/ PopCheckStamp(c) \/ PopReserve(c)
    \/ PopRead(c) \/ PopRelease(c)

Observer(o) == LenLoadHead(o) \/ LenLoadTail(o)

Next ==
    \/ \E p \in Producers : Producer(p)
    \/ \E c \in Consumers : Consumer(c)
    \/ \E o \in Observers : Observer(o)

Spec == Init /\ [][Next]_vars

\* No thread is stopped for ever inside an operation, and consumers poll on.
FairSpec ==
    /\ Spec
    /\ \A p \in Producers : WF_vars(ppc[p] \notin {"idle", "full"} /\ Producer(p))
    /\ \A c \in Consumers : WF_vars(Consumer(c))

-----------------------------------------------------------------------------
(* Properties *)

Writing(p) == ppc[p] \in {"write", "publish"}
Reading(c) == cpc[c] \in {"read", "release"}

\* A successful cursor exchange grants one thread the slot: no two threads are
\* ever between their exchange and their release store on the same slot, for
\* any stall in between (the safety comment at try_queue.rs:103-104).
ExclusiveSlot ==
    /\ \A p, q \in Producers : Writing(p) /\ Writing(q) /\ p # q
                               => ptail[p].idx # ptail[q].idx
    /\ \A c, d \in Consumers : Reading(c) /\ Reading(d) /\ c # d
                               => chead[c].idx # chead[d].idx
    /\ \A p \in Producers, c \in Consumers : Writing(p) /\ Reading(c)
                               => ptail[p].idx # chead[c].idx

\* Full is reported only at an instant at which Capacity values are queued or
\* in transfer; a busy slot alone is contention (try_queue.rs:110).
FullMeansFull ==
    [][\A p \in Producers :
          ppc[p] = "classify" /\ ppc'[p] = "full" =>
             Len(order) - popped = Capacity]_vars

\* len() is bounded by the capacity whenever its second load comes, and
\* it is 0, as is_empty() needs, only if the queue was empty at the first load.
LenBounded ==
    \A o \in Observers : opc[o] = "tail" => /\ LenResult(o) \in 0..Capacity
                                            /\ LenResult(o) = 0 => wasEmpty[o]

\* Every accepted value is eventually popped while consumers poll (the number of
\* values is bounded, so the consumers catch up), although every operation gives
\* up at the first interference.
AllPopped == []<>(popped = Len(order))

\* The value consumer c has taken: fixed when it wins the head.
TakenBy(c) == IF cpc[c] = "read" THEN order[Ticket(chead[c])] ELSE got[c]

Fifo == INSTANCE BoundedFifo WITH
    queue <- SubSeq(order, popped + 1, Len(order)),
    taken <- [c \in Consumers |-> TakenBy(c)]

\* The ring implements a bounded FIFO whose pushes and pops take effect at the
\* two compare-exchanges.
ImplementsFifo == Fifo!Spec
=============================================================================
