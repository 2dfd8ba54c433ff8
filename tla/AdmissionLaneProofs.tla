------------------------- MODULE AdmissionLaneProofs -------------------------
(***************************************************************************)
(* The admission lane's guarantees, for every lease, heartbeat, set of     *)
(* verdicts and pair of clocks.                                            *)
(***************************************************************************)
EXTENDS AdmissionLane, TLAPS

\* An unread publication is the router's newest; its stamp is off from its
\* monotonic time by no more than the wall clock has been set back since.
CellIsNewest ==
    \/ cell = None
    \/ /\ epoch > 0 /\ cell.epoch = epoch
       /\ cell.value = value
       /\ cell.at = pubAt /\ cell.at <= mono
       /\ cell.observed <= cell.at + MaxBack
       /\ cell.at + MaxBack <= cell.observed + back

\* A lease in force belongs to the router's newest publication or to one that
\* an unread publication replaces.
LeaseIsCurrent ==
    ~expired =>
        /\ last.epoch <= epoch
        /\ last.epoch < epoch => cell.epoch = epoch
        /\ last.epoch = epoch /\ back = 0 => received = pubAt
        /\ last.value \in Open => /\ received <= last.at + back
                                  /\ last.epoch = epoch => last.value = value

\* The strengthening of the lane's properties that every step preserves.
IInv ==
    /\ TypeOK
    /\ (epoch = 0) <=> (lastValue = "None")
    /\ lastValue # "None" => lastValue = value
    /\ pubAt <= mono
    /\ CellIsNewest
    /\ NeverOutruns
    /\ FailsClosed
    /\ LeaseIsCurrent
-----------------------------------------------------------------------------
\* The router and the consumer start with nothing published and nothing leased.
LEMMA InitIInv == Init => IInv
<1> SUFFICES ASSUME Init PROVE IInv
  OBVIOUS
<1>1. None \in Snapshots /\ None.epoch = 0 /\ None.value = Paused /\ Paused \notin Open
  BY LaneAssumption DEF None, Snapshots, Paused
<1>2. TypeOK
  <2>1. 0 \in Nat /\ 0 \in Int /\ 0 <= 0 /\ 0 \in 0 .. MaxBack
    BY LaneAssumption
  <2> QED
    BY <1>1, <2>1, ZenonT(40) DEF Init, TypeOK
<1> QED
  BY LaneAssumption, <1>1, <1>2 DEF Init, IInv, CellIsNewest, NeverOutruns, FailsClosed,
     LeaseIsCurrent

\* Time passing, the wall clock going back and the router leaving.
LEMMA ClockIInv ==
  IInv /\ (Tick \/ SetBack \/ PublisherDrop \/ UNCHANGED vars) => IInv'
<1> SUFFICES ASSUME IInv, Tick \/ SetBack \/ PublisherDrop \/ UNCHANGED vars PROVE IInv'
  OBVIOUS
<1> USE LaneAssumption DEF pvars, cvars, vars, Tick, SetBack, PublisherDrop
<1>1. TypeOK'
  <2>1. mono' \in Nat /\ back' \in 0 .. MaxBack /\ received' <= mono'
    BY DEF IInv, TypeOK
  <2>2. alive' \in BOOLEAN
    BY ZenonT(40) DEF IInv, TypeOK
  <2> QED
    BY <2>1, <2>2, ZenonT(40) DEF IInv, TypeOK
<1>2. CellIsNewest'
  BY DEF IInv, TypeOK, Snapshots, CellIsNewest, None
<1>3. LeaseIsCurrent'
  BY DEF IInv, TypeOK, Snapshots, LeaseIsCurrent
<1> QED
  BY <1>1, <1>2, <1>3 DEF IInv, TypeOK, NeverOutruns, FailsClosed

\* A publication replaces the unread one and dates every lease; a refresh that
\* publishes nothing has computed the verdict published last.
LEMMA RefreshIInv == ASSUME NEW v \in Values PROVE IInv /\ RefreshHealth(v) => IInv'
<1> SUFFICES ASSUME IInv, RefreshHealth(v) PROVE IInv'
  OBVIOUS
<1> USE LaneAssumption
<1> DEFINE publishes == v # lastValue \/ Max(Wall - lastPub, 0) >= HEARTBEAT
<1>0. Wall \in Int /\ Wall = mono + MaxBack - back /\ epoch \in Nat /\ mono \in Nat
  BY DEF IInv, TypeOK, Wall
<1>1. CASE publishes
  <2>1. /\ epoch' = epoch + 1 /\ value' = v /\ lastValue' = v /\ lastPub' = Wall
        /\ pubAt' = mono
        /\ cell' = [epoch |-> epoch + 1, value |-> v, observed |-> Wall, at |-> mono]
        /\ UNCHANGED <<mono, back, alive, connected, last, received, expired>>
    BY <1>1 DEF RefreshHealth, cvars
  <2>2. TypeOK'
    BY <1>0, <2>1 DEF IInv, TypeOK, Snapshots
  <2>3. CellIsNewest'
    BY <1>0, <2>1 DEF IInv, TypeOK, CellIsNewest
  <2>4. LeaseIsCurrent' /\ NeverOutruns'
    BY <1>0, <2>1 DEF IInv, TypeOK, Snapshots, LeaseIsCurrent, NeverOutruns
  <2> QED
    BY <1>0, <2>1, <2>2, <2>3, <2>4 DEF IInv, FailsClosed
<1>2. CASE ~publishes
  <2>1. /\ value' = v /\ v = lastValue
        /\ UNCHANGED <<mono, back, alive, connected, last, received, expired>>
        /\ UNCHANGED <<epoch, cell, lastValue, lastPub, pubAt>>
    BY <1>2 DEF RefreshHealth, cvars
  <2>2. value' = value
    BY <2>1 DEF IInv
  <2> QED
    BY <2>1, <2>2 DEF IInv, TypeOK, CellIsNewest, LeaseIsCurrent, NeverOutruns, FailsClosed
<1> QED
  BY <1>1, <1>2

\* A lease given up: the consumer's own paused snapshot, one epoch ahead of a
\* snapshot the router published, or the one it had made up before.
LEMMA PauseIInv ==
  ASSUME NEW newest \in Snapshots, NEW exp \in BOOLEAN,
         IInv, pause(newest, exp), cell' = None, connected' \in BOOLEAN,
         UNCHANGED <<mono, back, pvars, received>>,
         exp => newest = last /\ expired,
         ~exp => newest.epoch <= epoch
  PROVE  IInv'
<1> USE LaneAssumption DEF pvars
<1>0. Wall \in Int
  BY DEF IInv, TypeOK, Wall
<1>1. None \in Snapshots /\ Paused \notin Open
  BY DEF None, Snapshots, Paused
<1>2. CASE exp
  BY <1>1, <1>2 DEF pause, IInv, TypeOK, CellIsNewest, NeverOutruns, FailsClosed, LeaseIsCurrent
<1>3. CASE ~exp
  <2>1. /\ expired'
        /\ last' = [epoch |-> newest.epoch + 1, value |-> Paused, observed |-> Wall, at |-> mono]
    BY <1>3 DEF pause
  <2>2. last' \in Snapshots /\ last'.value = Paused /\ last'.epoch <= epoch + 1
    BY <1>0, <1>3, <2>1 DEF Snapshots, IInv, TypeOK
  <2> QED
    BY <1>1, <2>1, <2>2 DEF IInv, TypeOK, CellIsNewest, NeverOutruns, FailsClosed, LeaseIsCurrent
<1> QED
  BY <1>2, <1>3

\* A worker that has read nothing newer keeps its lease or gives it up.
LEMMA ElapsedIInv ==
  ASSUME IInv, PauseIfElapsed, cell' = None, cell.epoch <= last.epoch,
         UNCHANGED <<mono, back, pvars, received, connected>>
  PROVE  IInv'
<1>1. CASE mono - received >= LEASE
  BY <1>1, PauseIInv DEF PauseIfElapsed, IInv, TypeOK, LeaseIsCurrent
<1>2. CASE ~(mono - received >= LEASE)
  <2>1. UNCHANGED <<mono, back, pvars, received, connected, last, expired>>
    BY <1>2 DEF PauseIfElapsed
  <2>2. CellIsNewest' /\ None \in Snapshots
    BY LaneAssumption DEF CellIsNewest, None, Snapshots, Paused
  <2>3. LeaseIsCurrent'
    BY <2>1 DEF IInv, TypeOK, Snapshots, LeaseIsCurrent, pvars
  <2> QED
    BY <2>1, <2>2, <2>3 DEF IInv, TypeOK, NeverOutruns, FailsClosed, pvars
<1> QED
  BY <1>1, <1>2

\* Accepting the router's newest publication: a lease as old as the publication.
LEMMA AcceptIInv ==
  ASSUME IInv, Accept(cell), cell # None, cell' = None, last.epoch < cell.epoch,
         UNCHANGED <<mono, back, pvars, connected>>, connected
  PROVE  IInv'
<1> USE LaneAssumption
<1>0. /\ Wall \in Int /\ Wall = mono + MaxBack - back
      /\ cell \in Snapshots /\ cell.epoch = epoch
  BY DEF IInv, TypeOK, Wall, CellIsNewest
<1>1. CASE cell.observed > Wall \/ Wall - cell.observed >= LEASE
  <2>1. pause(cell, FALSE) /\ UNCHANGED received
    BY <1>1, ZenonT(40) DEF Accept
  <2>2. cell.epoch <= epoch /\ connected' \in BOOLEAN
    BY <1>0 DEF IInv, TypeOK
  <2> QED
    BY <1>0, <2>1, <2>2, PauseIInv, ZenonT(40)
<1>2. CASE ~(cell.observed > Wall \/ Wall - cell.observed >= LEASE)
  <2>1. /\ last' = cell /\ expired' = FALSE
        /\ received' = mono - (Wall - cell.observed)
        /\ UNCHANGED <<mono, back, value, epoch, lastPub, lastValue, alive, pubAt, connected>>
    BY <1>2, ZenonT(40) DEF Accept, pvars
  <2>2. None \in Snapshots
    BY DEF None, Snapshots, Paused
  <2>3. received' \in Int /\ received' <= mono
    BY <1>0, <1>2, <2>1 DEF IInv, TypeOK, Snapshots
  <2>4. TypeOK'
    BY <1>0, <2>1, <2>2, <2>3, ZenonT(40) DEF IInv, TypeOK
  <2>5. LeaseIsCurrent'
    BY <1>0, <2>1 DEF IInv, TypeOK, Snapshots, LeaseIsCurrent, CellIsNewest
  <2>6. CellIsNewest' /\ NeverOutruns' /\ FailsClosed'
    BY <1>0, <2>1 DEF IInv, TypeOK, CellIsNewest, NeverOutruns, FailsClosed
  <2> QED
    BY <2>1, <2>4, <2>5, <2>6 DEF IInv
<1> QED
  BY <1>1, <1>2

\* Every poll keeps the invariant.
LEMMA PollIInv == IInv /\ Poll => IInv'
<1> SUFFICES ASSUME IInv, Poll PROVE IInv'
  OBVIOUS
<1>0. None.epoch = 0 /\ last.epoch \in Nat /\ cell.epoch \in Nat /\ last \in Snapshots
      /\ epoch \in Nat /\ expired \in BOOLEAN
  BY DEF None, IInv, TypeOK, Snapshots
<1>1. CASE cell # None /\ Receive(cell) /\ UNCHANGED connected
  <2>1. CASE cell.epoch <= last.epoch
    BY <1>1, <2>1, ElapsedIInv DEF Poll, Receive
  <2>2. CASE ~(cell.epoch <= last.epoch)
    BY <1>0, <1>1, <2>2, AcceptIInv DEF Poll, Receive
  <2> QED
    BY <2>1, <2>2
<1>2. CASE cell = None /\ ~alive /\ Disconnect
  BY <1>0, <1>2, PauseIInv, ZenonT(40) DEF Poll, Disconnect, IInv, LeaseIsCurrent
<1>3. CASE cell = None /\ alive /\ PauseIfElapsed /\ UNCHANGED <<connected, received>>
  BY <1>0, <1>3, ElapsedIInv DEF Poll
<1> QED
  BY <1>1, <1>2, <1>3, ZenonT(40) DEF Poll

\* The strengthening holds throughout.
LEMMA Invariance == Spec => []IInv
<1>1. IInv /\ [Next]_vars => IInv'
  BY ClockIInv, RefreshIInv, PollIInv DEF Next
<1> QED
  BY InitIInv, <1>1, PTL DEF Spec

\* The made-up epochs never outrun the router's and a consumer without a lease
\* shows the strategy a closed gate (execution_admission_lane.rs, pause).
THEOREM LaneSafety == Spec => [](TypeOK /\ NeverOutruns /\ FailsClosed)
<1>1. IInv => TypeOK /\ NeverOutruns /\ FailsClosed
  BY DEF IInv
<1> QED
  BY Invariance, <1>1, PTL

\* What a consumer that shows an open gate knows of the router.
LEMMA OpenGate ==
    ASSUME IInv, last.value \in Open
    PROVE  /\ last.epoch <= epoch /\ received <= last.at + back
           /\ last.epoch < epoch => cell.epoch = epoch
           /\ last.epoch = epoch => last.value = value
BY DEF IInv, FailsClosed, LeaseIsCurrent

\* An open gate that passes the consumer's lease test was published less than
\* LEASE ago, up to the amount the wall clock was set back (receive back-dates
\* the lease).
THEOREM LaneFreshness == Spec => []LeaseBound
<1>1. IInv => LeaseBound
  <2> SUFFICES ASSUME IInv, last.value \in Open, mono - received < LEASE
               PROVE  mono - last.at < LEASE + back
    BY DEF LeaseBound
  <2>1. /\ last.at \in Int /\ received \in Int /\ mono \in Int
        /\ back \in Int /\ LEASE \in Int
    BY LaneAssumption DEF IInv, TypeOK, Snapshots
  <2>2. ASSUME NEW a \in Int, NEW r \in Int, NEW m \in Int, NEW b \in Int, NEW l \in Int,
               r <= a + b, m - r < l
        PROVE  m - a < l + b
    BY <2>2
  <2> QED
    BY OpenGate, <2>1, <2>2
<1> QED
  BY Invariance, <1>1, PTL

\* With nothing unread in the lane, the consumer's gate is open only if the
\* router's verdict is (receive keeps the newest epoch it was offered).
THEOREM LaneNeverMorePermissive == Spec => []NeverMorePermissive
<1>1. IInv => NeverMorePermissive
  <2> SUFFICES ASSUME IInv, cell = None, last.value \in Open
               PROVE  value \in Open
    BY DEF NeverMorePermissive
  <2>1. epoch \in Nat /\ last.epoch \in Nat /\ cell.epoch = 0
    BY DEF IInv, TypeOK, Snapshots, None
  <2> QED
    BY OpenGate, <2>1
<1> QED
  BY Invariance, <1>1, PTL

\* A live router that published within LEASE is never given up (no lease is
\* lost to coalescing or to a replayed epoch), if the clock is not set back.
THEOREM LaneNoFalsePause == Spec => NoFalsePause
<1> DEFINE Step == Poll /\ alive /\ back = 0 /\ ~expired /\ expired' => mono - pubAt >= LEASE
<1>1. IInv /\ [Next]_vars => Step
  <2> SUFFICES ASSUME IInv, Poll, alive, back = 0, ~expired, expired'
               PROVE  mono - pubAt >= LEASE
    OBVIOUS
  <2>0. /\ epoch \in Nat /\ mono \in Nat /\ pubAt \in Nat /\ received \in Int
        /\ last.epoch \in Nat /\ cell.observed \in Int /\ cell.epoch \in Nat
        /\ MaxBack \in Nat /\ LEASE \in Nat /\ None.epoch = 0
        /\ last.epoch <= epoch /\ (last.epoch < epoch => cell.epoch = epoch)
        /\ (last.epoch = epoch => received = pubAt)
    BY LaneAssumption DEF IInv, TypeOK, Snapshots, None, LeaseIsCurrent
  <2>1. CASE cell # None /\ Receive(cell)
    <3>1. cell.epoch = epoch /\ cell.observed = pubAt + MaxBack /\ pubAt <= mono /\ cell.at \in Nat
      BY <2>0, <2>1 DEF IInv, CellIsNewest, TypeOK, Snapshots
    <3>2. CASE cell.epoch <= last.epoch
      <4>1. mono - received >= LEASE
        BY <2>1, <3>2, ZenonT(40) DEF Receive, PauseIfElapsed
      <4> QED
        BY <2>0, <3>1, <3>2, <4>1
    <3>3. CASE ~(cell.epoch <= last.epoch)
      <4>1. cell.observed > Wall \/ Wall - cell.observed >= LEASE
        BY <2>1, <3>3, ZenonT(40) DEF Receive, Accept
      <4> QED
        BY <2>0, <3>1, <4>1 DEF Wall
    <3> QED
      BY <3>2, <3>3
  <2>2. CASE cell = None /\ PauseIfElapsed
    <3>1. mono - received >= LEASE
      BY <2>2, ZenonT(40) DEF PauseIfElapsed
    <3> QED
      BY <2>0, <2>2, <3>1
  <2> QED
    BY <2>1, <2>2, ZenonT(40) DEF Poll
<1> QED
  BY Invariance, <1>1, PTL DEF Spec, NoFalsePause
=============================================================================
