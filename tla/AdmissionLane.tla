---------------------------- MODULE AdmissionLane ----------------------------
(***************************************************************************)
(* How the execution router's admission reaches a strategy worker: the     *)
(* publishing part of refresh_health (hexagent-engine/src/engine.rs), a    *)
(* latest-value lane and the AdmissionConsumer of                          *)
(* execution_admission_lane.rs with its one-second lease.                  *)
(*                                                                         *)
(* The lane is the register that LatestSnapshot implements: a receive      *)
(* takes the last complete publication, once.  Instant::now() is mono;     *)
(* now_ns() is a wall clock that may be set back.  The router may hang,    *)
(* the worker may be slow, and either may be gone.                         *)
(***************************************************************************)
EXTENDS Integers

CONSTANTS
    LEASE, HEARTBEAT,     \* 1 s and 100 ms, in clock units
    Values,               \* the (state, slots) pairs the router computes
    Open,                 \* those of them that allow a place
    MaxTime, MaxEpoch,    \* bounds on the clock and on the publications
    MaxBack               \* bound on how far the wall clock is set back

ASSUME LaneAssumption ==
    /\ LEASE \in Nat \ {0} /\ HEARTBEAT \in Nat
    /\ MaxTime \in Nat /\ MaxEpoch \in Nat /\ MaxBack \in Nat
    /\ Open \subseteq Values /\ "Paused" \notin Open /\ "None" \notin Values

VARIABLES
    mono, back,           \* the monotonic clock; how far the wall clock was set back
    value,                \* what AccountExecutionAdmission::refresh returns
    epoch, lastPub, lastValue,   \* admission_epoch, _last_publish_ns, _last_value
    cell, alive,          \* the lane: unread publication, publisher present
    connected,            \* consumer: rx is Some
    last, received, expired,     \* consumer: fields of the same name
    pubAt                 \* history: mono at the last publication

pvars == <<value, epoch, lastPub, lastValue, alive, pubAt>>
cvars == <<connected, last, received, expired>>
vars == <<mono, back, pvars, cell, cvars>>

Paused == "Paused"        \* the snapshot the consumer makes up: Paused, no slots
None == [epoch |-> 0, value |-> Paused, observed |-> 0, at |-> 0]

Wall == mono + MaxBack - back
Max(a, b) == IF a >= b THEN a ELSE b

Init ==
    /\ mono = 0 /\ back = 0
    /\ value \in Values
    /\ epoch = 0 /\ lastPub = 0 /\ lastValue = "None"
    /\ cell = None /\ alive = TRUE
    /\ connected = TRUE
    /\ last = None /\ received = 0 /\ expired = FALSE
    /\ pubAt = 0

-----------------------------------------------------------------------------
Tick ==
    /\ mono < MaxTime
    /\ mono' = mono + 1
    /\ UNCHANGED <<back, pvars, cell, cvars>>

SetBack ==
    /\ back < MaxBack
    /\ back' = back + 1
    /\ UNCHANGED <<mono, pvars, cell, cvars>>

\* A heartbeat repeats the epoch of the state it repeats.
RefreshHealth_SameEpoch(v) ==
    /\ alive /\ epoch < MaxEpoch
    /\ value' = v
    /\ IF v # lastValue \/ Max(Wall - lastPub, 0) >= HEARTBEAT
       THEN /\ epoch' = IF v # lastValue THEN epoch + 1 ELSE epoch
            /\ cell' = [epoch |-> epoch', value |-> v, observed |-> Wall, at |-> mono]
            /\ lastValue' = v /\ lastPub' = Wall /\ pubAt' = mono
       ELSE UNCHANGED <<epoch, cell, lastValue, lastPub, pubAt>>
    /\ UNCHANGED <<mono, back, alive, cvars>>

\* Only a heartbeat is published; a change waits for the next one.
RefreshHealth_HeartbeatOnly(v) ==
    /\ alive /\ epoch < MaxEpoch
    /\ value' = v
    /\ IF lastValue = "None" \/ Max(Wall - lastPub, 0) >= HEARTBEAT
       THEN /\ epoch' = epoch + 1
            /\ cell' = [epoch |-> epoch + 1, value |-> v, observed |-> Wall, at |-> mono]
            /\ lastValue' = v /\ lastPub' = Wall /\ pubAt' = mono
       ELSE UNCHANGED <<epoch, cell, lastValue, lastPub, pubAt>>
    /\ UNCHANGED <<mono, back, alive, cvars>>

\* refresh_health: the router computes v, and publishes a change or a heartbeat.
RefreshHealth(v) ==
    /\ alive /\ epoch < MaxEpoch
    /\ value' = v
    /\ IF v # lastValue \/ Max(Wall - lastPub, 0) >= HEARTBEAT
       THEN /\ epoch' = epoch + 1
            /\ cell' = [epoch |-> epoch + 1, value |-> v, observed |-> Wall, at |-> mono]
            /\ lastValue' = v /\ lastPub' = Wall /\ pubAt' = mono
       ELSE UNCHANGED <<epoch, cell, lastValue, lastPub, pubAt>>
    /\ UNCHANGED <<mono, back, alive, cvars>>

PublisherDrop ==
    /\ alive
    /\ alive' = FALSE
    /\ UNCHANGED <<mono, back, value, epoch, lastPub, lastValue, pubAt, cell, cvars>>

\* pause(), on the newest snapshot and the expired flag of the moment: once.
pause(newest, exp) ==
    /\ last' = IF exp THEN newest
               ELSE [epoch |-> newest.epoch + 1, value |-> Paused,
                     observed |-> Wall, at |-> mono]
    /\ expired' = TRUE

\* The tail shared by poll and by a replayed message.
PauseIfElapsed ==
    IF mono - received >= LEASE
    THEN pause(last, expired)
    ELSE UNCHANGED <<last, expired>>

\* The lease of a snapshot starts when it is read.
Accept_LeaseFromRead(snapshot) ==
    IF snapshot.observed > Wall \/ Wall - snapshot.observed >= LEASE
    THEN pause(snapshot, FALSE) /\ UNCHANGED received
    ELSE last' = snapshot /\ expired' = FALSE /\ received' = mono

\* receive, of a newer epoch: stale health pauses, fresh health starts a lease
\* that is already as old as the snapshot.
Accept(snapshot) ==
    IF snapshot.observed > Wall \/ Wall - snapshot.observed >= LEASE
    THEN pause(snapshot, FALSE) /\ UNCHANGED received
    ELSE last' = snapshot /\ expired' = FALSE
         /\ received' = mono - (Wall - snapshot.observed)

Receive(snapshot) ==
    IF snapshot.epoch <= last.epoch
    THEN PauseIfElapsed /\ UNCHANGED received
    ELSE Accept(snapshot)

\* A lost router leaves the last snapshot in force.
Disconnect_NoPause ==
    /\ connected' = FALSE
    /\ UNCHANGED <<last, expired, received>>

\* receive, of an error.
Disconnect ==
    /\ connected' = FALSE
    /\ pause(last, expired)
    /\ UNCHANGED received

\* poll; the select arm of the worker's loop calls the same receive.
Poll ==
    /\ connected
    /\ \/ /\ cell # None
          /\ Receive(cell)
          /\ UNCHANGED connected
       \/ cell = None /\ ~alive /\ Disconnect
       \/ /\ cell = None /\ alive
          /\ PauseIfElapsed
          /\ UNCHANGED <<connected, received>>
    /\ cell' = None
    /\ UNCHANGED <<mono, back, pvars>>

Next ==
    \/ Tick \/ SetBack \/ PublisherDrop \/ Poll
    \/ \E v \in Values : RefreshHealth(v)

Spec == Init /\ [][Next]_vars

-----------------------------------------------------------------------------
Snapshots == [epoch : Nat, value : Values \cup {Paused}, observed : Int, at : Nat]

\* The router's, the lane's and the consumer's fields have their Rust types; a
\* lease starts in the past (now - observed_at_ns does not underflow).
TypeOK ==
    /\ mono \in Nat /\ back \in 0 .. MaxBack
    /\ value \in Values /\ lastValue \in Values \cup {"None"}
    /\ epoch \in Nat /\ lastPub \in Int /\ pubAt \in Nat
    /\ cell \in Snapshots /\ last \in Snapshots
    /\ received \in Int /\ received <= mono
    /\ alive \in BOOLEAN /\ connected \in BOOLEAN /\ expired \in BOOLEAN

\* "A hung or disconnected dispatcher cannot leave an old Healthy snapshot
\* live": as long as the consumer's own test keeps an open snapshot, that snapshot
\* was published less than LEASE ago on the monotonic clock, give or take what the
\* wall clock was set back, however long it lay in the lane.
LeaseBound ==
    last.value \in Open /\ mono - received < LEASE => mono - last.at < LEASE + back

\* Coalescing never loses a closing of admission: a worker that has nothing
\* unread may place only if the router's current verdict allows it, whatever
\* snapshots were overwritten and whatever epochs the consumer has made up.
NeverMorePermissive == cell = None /\ last.value \in Open => value \in Open

\* The consumer's made-up epochs run at most one ahead of the router's, so
\* that it never discards more than one publication after a pause.
NeverOutruns == last.epoch <= epoch + 1

\* A consumer whose lease was given up, or whose router is gone, shows the
\* strategy a snapshot that forbids places.
FailsClosed == expired \/ ~connected => last.value \notin Open

\* No false alarm: with a clock that is never set back, the worker gives up a
\* lease only if the router is gone or has published nothing for LEASE.
NoFalsePause ==
    [][Poll /\ alive /\ back = 0 /\ ~expired /\ expired'
         => mono - pubAt >= LEASE]_vars
=============================================================================
