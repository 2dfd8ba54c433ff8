--------------------------- MODULE LatestSnapshot ---------------------------
(***************************************************************************)
(* The triple buffer of hexagent-runtime/src/latest_snapshot.rs: one       *)
(* Publisher, one Receiver, three slots and one atomic word `middle` that  *)
(* holds a slot index and the DIRTY bit.  The n-th snapshot published is   *)
(* the number n.  Every access to shared memory is a step of its own; a    *)
(* slot that is being written holds Torn, one never written holds Uninit.  *)
(* Memory is sequentially consistent: every access that orders two slots'  *)
(* contents in the code is an AcqRel exchange or a Release/Acquire pair.   *)
(***************************************************************************)
EXTENDS Integers, FiniteSets

CONSTANT MaxPublish        \* bound on the number of publications

ASSUME MaxPublishAssumption == MaxPublish \in Nat

VARIABLES
    slots,                 \* Shared.slots
    middle,                \* Shared.middle: [index, dirty]
    producer_alive,        \* Shared.producer_alive
    back,                  \* Publisher.back
    ppc,                   \* publisher: "idle" | "write" | "swap" | "gone"
    front,                 \* Receiver.front
    cpc,                   \* receiver: "idle" | "load" | "swap" | "read"
    alive,                 \* try_recv's local `alive`
    published,             \* history: publications whose exchange is done
    replaced,              \* history: publish() calls that returned true
    received,              \* history: the snapshots try_recv returned, as a set
    floor,                 \* history: `published` when the running try_recv began
    last                   \* history: result of the last try_recv

pvars == <<back, ppc, published, replaced>>
cvars == <<front, cpc, alive, received, floor, last>>
vars == <<slots, middle, producer_alive, pvars, cvars>>

Index == 0..2
Torn == -1
Uninit == -2
None == 0                  \* `last` before the first try_recv
Empty == -3
Disconnected == -4

Init ==
    /\ slots = [i \in Index |-> Uninit]
    /\ middle = [index |-> 1, dirty |-> FALSE]
    /\ producer_alive = TRUE
    /\ back = 2
    /\ ppc = "idle"
    /\ front = 0
    /\ cpc = "idle"
    /\ alive = TRUE
    /\ published = 0
    /\ replaced = 0
    /\ received = {}
    /\ floor = 0
    /\ last = None

-----------------------------------------------------------------------------
(* Publisher *)

\* publish(): the write to slots[back] has begun.
PublishBegin ==
    /\ ppc = "idle"
    /\ published < MaxPublish
    /\ slots' = [slots EXCEPT ![back] = Torn]
    /\ ppc' = "write"
    /\ UNCHANGED <<middle, producer_alive, back, published, replaced, cvars>>

\* publish(): the write to slots[back] is complete.
PublishWritten ==
    /\ ppc = "write"
    /\ slots' = [slots EXCEPT ![back] = published + 1]
    /\ ppc' = "swap"
    /\ UNCHANGED <<middle, producer_alive, back, published, replaced, cvars>>

\* The publisher leaves `back` alone and re-uses the slot it just handed over.
PublishSwap_KeepsBack ==
    /\ ppc = "swap"
    /\ middle' = [index |-> back, dirty |-> TRUE]
    /\ published' = published + 1
    /\ replaced' = IF middle.dirty THEN replaced + 1 ELSE replaced
    /\ ppc' = "idle"
    /\ UNCHANGED <<slots, producer_alive, back, cvars>>

\* publish(): the exchange on `middle` and the new back slot.
PublishSwap ==
    /\ ppc = "swap"
    /\ middle' = [index |-> back, dirty |-> TRUE]
    /\ back' = middle.index
    /\ published' = published + 1
    /\ replaced' = IF middle.dirty THEN replaced + 1 ELSE replaced
    /\ ppc' = "idle"
    /\ UNCHANGED <<slots, producer_alive, cvars>>

\* Drop for Publisher.
PublisherDrop ==
    /\ ppc = "idle"
    /\ ppc' = "gone"
    /\ producer_alive' = FALSE
    /\ UNCHANGED <<slots, middle, back, published, replaced, cvars>>

-----------------------------------------------------------------------------
(* Receiver *)

\* try_recv(): load producer_alive, before anything else.
RecvLoadAlive ==
    /\ cpc = "idle"
    /\ alive' = producer_alive
    /\ floor' = published
    /\ cpc' = "load"
    /\ UNCHANGED <<slots, middle, producer_alive, pvars, front, received, last>>

\* The receiver trusts a dead publisher before it looks at the middle slot.
RecvCheckDirty_AliveFirst ==
    /\ cpc = "load"
    /\ IF alive /\ middle.dirty
       THEN cpc' = "swap" /\ UNCHANGED last
       ELSE cpc' = "idle" /\ last' = IF alive THEN Empty ELSE Disconnected
    /\ UNCHANGED <<slots, middle, producer_alive, pvars, front, alive, received, floor>>

\* try_recv(): a clean middle ends the call with Empty or Disconnected.
RecvCheckDirty ==
    /\ cpc = "load"
    /\ IF middle.dirty
       THEN cpc' = "swap" /\ UNCHANGED last
       ELSE cpc' = "idle" /\ last' = IF alive THEN Empty ELSE Disconnected
    /\ UNCHANGED <<slots, middle, producer_alive, pvars, front, alive, received, floor>>

\* The receiver forgets that its exchange also clears DIRTY.
RecvSwap_KeepsDirty ==
    /\ cpc = "swap"
    /\ middle' = [index |-> front, dirty |-> middle.dirty]
    /\ front' = middle.index
    /\ cpc' = "read"
    /\ UNCHANGED <<slots, producer_alive, pvars, alive, received, floor, last>>

\* try_recv(): the exchange that clears DIRTY and takes the middle slot.
RecvSwap ==
    /\ cpc = "swap"
    /\ middle' = [index |-> front, dirty |-> FALSE]
    /\ front' = middle.index
    /\ cpc' = "read"
    /\ UNCHANGED <<slots, producer_alive, pvars, alive, received, floor, last>>

\* try_recv(): the read of slots[front] is complete.
RecvRead ==
    /\ cpc = "read"
    /\ last' = slots[front]
    /\ received' = received \cup {slots[front]}
    /\ cpc' = "idle"
    /\ UNCHANGED <<slots, middle, producer_alive, pvars, front, alive, floor>>

Publisher == PublishBegin \/ PublishWritten \/ PublishSwap \/ PublisherDrop
Receiver == RecvLoadAlive \/ RecvCheckDirty \/ RecvSwap \/ RecvRead
Next == Publisher \/ Receiver

Spec == Init /\ [][Next]_vars

\* The receiver's owner polls it in its loop; the publisher may stall anywhere.
FairSpec == Spec /\ WF_vars(Receiver)

-----------------------------------------------------------------------------
(* Properties *)

\* Type invariant of the two endpoints and the shared words.
TypeOK ==
    /\ slots \in [Index -> {Torn, Uninit} \cup 1..MaxPublish]
    /\ middle \in [index : Index, dirty : BOOLEAN]
    /\ producer_alive \in BOOLEAN
    /\ back \in Index
    /\ ppc \in {"idle", "write", "swap", "gone"}
    /\ front \in Index
    /\ cpc \in {"idle", "load", "swap", "read"}
    /\ alive \in BOOLEAN
    /\ published \in 0..MaxPublish
    /\ replaced \in 0..MaxPublish
    /\ received \subseteq 1..MaxPublish
    /\ floor \in 0..MaxPublish
    /\ last \in {None, Empty, Disconnected} \cup 1..MaxPublish

\* Whatever the peer does between two accesses, the slot try_recv reads is not
\* the one publish() writes, holds a complete snapshot, and that snapshot is
\* one the receiver has not returned before: the safety argument of the two
\* unsafe blocks (latest_snapshot.rs:22-25).
CompleteUnsharedRead ==
    cpc = "read" => /\ front # back
                    /\ slots[front] \in 1..published
                    /\ \A n \in received : n < slots[front]

\* try_recv() never answers with a snapshot older than the newest one published
\* before the call began, and answers Empty only if the receiver already holds
\* that one: a reader cannot be left on a superseded snapshot.
NeverStale ==
    cpc = "idle" =>
        /\ last > 0 => last >= floor
        /\ last = Empty => floor = 0 \/ \E n \in received : n >= floor

\* Disconnected is final: when try_recv reports it, the last publication before
\* the publisher's drop has been received (the comment at latest_snapshot.rs:76).
FinalPublicationSeen ==
    last = Disconnected =>
        /\ ppc = "gone"
        /\ published > 0 => published \in received

\* Each publication is returned by try_recv once, reported replaced by a later
\* publish() once, or still in the middle slot: publish()'s result counts
\* exactly the snapshots no reader will ever see.
Accounted ==
    published = Cardinality(received) + replaced
                + (IF middle.dirty THEN 1 ELSE 0)
                + (IF cpc = "read" THEN 1 ELSE 0)

\* Every publication is eventually received or superseded by a received one,
\* however the publisher stalls between its steps.
EventuallySeen ==
    \A n \in 1..MaxPublish :
        published = n ~> \E m \in received : m >= n
=============================================================================
