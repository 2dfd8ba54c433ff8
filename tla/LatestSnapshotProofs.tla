------------------------ MODULE LatestSnapshotProofs ------------------------
(***************************************************************************)
(* The safety properties of LatestSnapshot for every number of             *)
(* publications, from the inductive invariant IInv below.                  *)
(***************************************************************************)
EXTENDS LatestSnapshot, FiniteSetTheorems, TLAPS

\* Every slot has one owner: the publisher, the receiver or the middle word
\* (the comment at latest_snapshot.rs:23).
OneOwner ==
    /\ back # front
    /\ back # middle.index
    /\ front # middle.index

\* What each owner's slot holds.
Contents ==
    /\ middle.dirty => /\ published >= 1
                       /\ slots[middle.index] = published
                       /\ \A n \in received : n < published
    /\ cpc = "swap" => middle.dirty
    /\ cpc = "read" => /\ slots[front] \in 1..published
                       /\ slots[front] >= floor
                       /\ \A n \in received : n < slots[front]
                       /\ IF middle.dirty THEN slots[front] < published
                                          ELSE slots[front] = published
    /\ ~middle.dirty /\ cpc # "read" /\ published > 0 => published \in received
    /\ \A n \in received : n <= published
    /\ ppc \in {"write", "swap"} => published < MaxPublish
    /\ ppc = "swap" => slots[back] = published + 1

\* What the receiver may conclude from the liveness flag it loaded.
Flags ==
    /\ ~producer_alive => ppc = "gone"
    /\ cpc = "load" /\ ~alive => ppc = "gone"
    /\ floor <= published
    /\ replaced <= published

IInv == TypeOK /\ OneOwner /\ Contents /\ Flags
        /\ CompleteUnsharedRead /\ NeverStale /\ FinalPublicationSeen

USE DEF Index, Torn, Uninit, None, Empty, Disconnected

\* channel() establishes the invariant.
LEMMA InitIInv == Init => IInv
BY MaxPublishAssumption DEF Init, IInv, TypeOK, OneOwner, Contents, Flags,
    CompleteUnsharedRead, NeverStale, FinalPublicationSeen

\* Every step of publish(), try_recv() and the publisher's drop preserves it.
LEMMA NextIInv == IInv /\ [Next]_vars => IInv'
<1> SUFFICES ASSUME IInv, [Next]_vars PROVE IInv'
  OBVIOUS
<1> USE MaxPublishAssumption
<1>1. CASE PublishBegin
  BY <1>1 DEF PublishBegin, IInv, TypeOK, OneOwner, Contents, Flags,
    CompleteUnsharedRead, NeverStale, FinalPublicationSeen, cvars
<1>2. CASE PublishWritten
  BY <1>2 DEF PublishWritten, IInv, TypeOK, OneOwner, Contents, Flags,
    CompleteUnsharedRead, NeverStale, FinalPublicationSeen, cvars
<1>3. CASE PublishSwap
  BY <1>3 DEF PublishSwap, IInv, TypeOK, OneOwner, Contents, Flags,
    CompleteUnsharedRead, NeverStale, FinalPublicationSeen, cvars
<1>4. CASE PublisherDrop
  BY <1>4, ZenonT(40) DEF PublisherDrop, IInv, TypeOK, OneOwner, Contents, Flags,
    CompleteUnsharedRead, NeverStale, FinalPublicationSeen, cvars
<1>5. CASE RecvLoadAlive
  BY <1>5 DEF RecvLoadAlive, IInv, TypeOK, OneOwner, Contents, Flags,
    CompleteUnsharedRead, NeverStale, FinalPublicationSeen, pvars
<1>6. CASE RecvCheckDirty
  BY <1>6 DEF RecvCheckDirty, IInv, TypeOK, OneOwner, Contents, Flags,
    CompleteUnsharedRead, NeverStale, FinalPublicationSeen, pvars
<1>7. CASE RecvSwap
  BY <1>7 DEF RecvSwap, IInv, TypeOK, OneOwner, Contents, Flags,
    CompleteUnsharedRead, NeverStale, FinalPublicationSeen, pvars
<1>8. CASE RecvRead
  <2> DEFINE v == slots[front]
  <2>1. /\ v \in 1..published /\ v \in 1..MaxPublish /\ v >= floor
        /\ IF middle.dirty THEN v < published ELSE v = published
    BY <1>8 DEF RecvRead, IInv, TypeOK, Contents
  <2>2. /\ UNCHANGED <<slots, middle, producer_alive, back, ppc, published,
                        replaced, front, alive, floor>>
        /\ last' = v /\ received' = received \cup {v} /\ cpc' = "idle"
    BY <1>8 DEF RecvRead, pvars
  <2> HIDE DEF v
  <2>3. TypeOK' /\ OneOwner' /\ Flags'
    BY <2>1, <2>2 DEF IInv, TypeOK, OneOwner, Flags
  <2>4. Contents'
    BY <2>1, <2>2 DEF IInv, TypeOK, Contents
  <2>5. CompleteUnsharedRead' /\ NeverStale' /\ FinalPublicationSeen'
    BY <2>1, <2>2 DEF IInv, TypeOK, CompleteUnsharedRead, NeverStale,
      FinalPublicationSeen
  <2> QED
    BY <2>3, <2>4, <2>5 DEF IInv
<1>9. CASE UNCHANGED vars
  BY <1>9 DEF vars, pvars, cvars, IInv, TypeOK, OneOwner, Contents, Flags,
    CompleteUnsharedRead, NeverStale, FinalPublicationSeen
<1> QED
  BY <1>1, <1>2, <1>3, <1>4, <1>5, <1>6, <1>7, <1>8, <1>9
  DEF Next, Publisher, Receiver

\* The induction: IInv holds in every reachable state.
LEMMA Invariance == Spec => []IInv
BY InitIInv, NextIInv, PTL DEF Spec

\* Every slot read by try_recv() is complete, unshared and newer than all
\* before it, for every number of publications.
THEOREM SnapshotSafety == Spec => []CompleteUnsharedRead
<1>1. IInv => CompleteUnsharedRead
  BY DEF IInv
<1> QED
  BY Invariance, <1>1, PTL

\* A call of try_recv() answers with a snapshot no older than the newest one
\* published before the call began, for any schedule of the publisher.
THEOREM SnapshotNeverStale == Spec => []NeverStale
<1>1. IInv => NeverStale
  BY DEF IInv
<1> QED
  BY Invariance, <1>1, PTL

\* Disconnected is answered only after the final snapshot was received,
\* wherever the publisher's drop falls between the loads of try_recv().
THEOREM SnapshotFinalSeen == Spec => []FinalPublicationSeen
<1>1. IInv => FinalPublicationSeen
  BY DEF IInv
<1> QED
  BY Invariance, <1>1, PTL

-----------------------------------------------------------------------------
\* The history of received snapshots is a finite set whose size counts them.
LEMMA ReceivedFinite ==
    ASSUME TypeOK
    PROVE  IsFiniteSet(received) /\ Cardinality(received) \in Nat
<1>1. IsFiniteSet(1..MaxPublish)
  BY FS_Interval, MaxPublishAssumption
<1>2. received \in SUBSET (1..MaxPublish)
  BY DEF TypeOK
<1>3. IsFiniteSet(received)
  BY <1>1, <1>2, FS_Subset, ZenonT(40)
<1> QED
  BY <1>3, FS_CardinalityType

\* A publication leaves the middle slot only by a replacement that publish()
\* reports or by the exchange that try_recv() completes.
LEMMA NextAccounted == IInv /\ Accounted /\ [Next]_vars => Accounted'
<1> SUFFICES ASSUME IInv, Accounted, [Next]_vars PROVE Accounted'
  OBVIOUS
<1>1. /\ IsFiniteSet(received) /\ Cardinality(received) \in Nat
      /\ published \in Nat /\ replaced \in Nat /\ middle.dirty \in BOOLEAN
  BY ReceivedFinite, MaxPublishAssumption DEF IInv, TypeOK
<1>2. CASE PublishSwap
  BY <1>1, <1>2 DEF PublishSwap, Accounted, cvars
<1>3. CASE RecvSwap
  BY <1>1, <1>3 DEF RecvSwap, Accounted, pvars, IInv, Contents
<1>4. CASE RecvRead
  <2>1. slots[front] \notin received
    BY <1>4 DEF RecvRead, IInv, CompleteUnsharedRead, TypeOK
  <2>2. Cardinality(received') = Cardinality(received) + 1
    BY <1>1, <1>4, <2>1, FS_AddElement, ZenonT(40) DEF RecvRead
  <2> QED
    BY <1>1, <1>4, <2>2 DEF RecvRead, Accounted, pvars
<1>5. CASE ~(PublishSwap \/ RecvSwap \/ RecvRead)
  BY <1>5 DEF Next, Publisher, Receiver, PublishBegin, PublishWritten,
    PublisherDrop, RecvLoadAlive, RecvCheckDirty, Accounted, vars, pvars, cvars
<1> QED
  BY <1>2, <1>3, <1>4, <1>5

\* Each publication is received once, reported replaced once, or still pending.
THEOREM PublicationsAccounted == Spec => []Accounted
<1>1. Init => Accounted
  BY FS_EmptySet DEF Init, Accounted
<1> QED
  BY InitIInv, NextIInv, NextAccounted, <1>1, PTL DEF Spec
=============================================================================
